-------------------------- MODULE DurableRunProofs --------------------------
(***************************************************************************)
(* Proofs about DurableRun, for any inputs, records, starts and any number *)
(* of faults: the types, and that nothing leaves the engine that is not in *)
(* a log that can still be read.                                           *)
(***************************************************************************)
EXTENDS DurableRun, SequenceTheorems, TLAPS

LastGroups == logs[Len(logs)].groups

\* What the running process may rely on: the log it writes is the last one,
\* not set aside, and holds what the recorder holds in memory; exactly that
\* until a failed write poisons the guard, after which nothing is recorded.
Running ==
    phase # "down" =>
        /\ logs # <<>> /\ start \in Starts
        /\ ~logs[Len(logs)].aside
        /\ CommittedPrefixOf(mem, LastGroups)
        /\ ~poisoned => mem = LastGroups

\* What holds in each phase of a process, and so of a call in progress.
PhaseFacts ==
    /\ phase \notin {"down", "created"} => logs[Len(logs)].headed
    /\ phase \notin {"down", "serving"} => ~poisoned
    /\ phase = "created" => mem = <<>>
    /\ phase \in {"serving", "deciding", "decided"} => mem # <<>>
    /\ phase \in {"created", "copying"} => source < Len(logs)
    /\ phase = "copying" => source # 0
    /\ phase \in {"deciding", "decided"} => call \in Call
    /\ phase = "decided" => call.id \in IdsOf(mem)

\* A log is headed before it holds a group, so one set aside holds none.
HeadedFirst == \A k \in 1..Len(logs) : logs[k].headed \/ logs[k].groups = <<>>

\* A log opens with its run's configuration, named by its start.
OpensWithStart ==
    \A k \in 1..Len(logs) : logs[k].groups # <<>> => logs[k].groups[1].id \in Starts

RecorderInv == TypeOK /\ Running /\ PhaseFacts /\ HeadedFirst /\ OpensWithStart

ReplyNotEmpty == \A t \in told : t.groups # <<>>

\* Logs only grow: a step keeps every log, adds to its groups at most, and
\* sets aside only a log that holds none.
LogsGrow ==
    /\ Len(logs) <= Len(logs')
    /\ \A k \in 1..Len(logs) :
        /\ CommittedPrefixOf(logs[k].groups, logs'[k].groups)
        /\ logs'[k].aside => logs[k].aside \/ logs[k].groups = <<>>

-----------------------------------------------------------------------------
(***************************************************************************)
(* Facts about the operators.                                              *)
(***************************************************************************)
\* Appending a group adds its ID to the recorded ones.
LEMMA AppendedId ==
    ASSUME NEW groups \in Seq(Group), NEW g \in Group
    PROVE  IdsOf(Append(groups, g)) = IdsOf(groups) \cup {g.id}
<1> DEFINE more == Append(groups, g)
<1>1. /\ DOMAIN groups = 1..Len(groups) /\ DOMAIN more = 1..(Len(groups) + 1) /\ Len(groups) \in Nat
      /\ more[Len(groups) + 1] = g
      /\ \A k \in 1..Len(groups) : more[k] = groups[k]
  OBVIOUS
<1> HIDE DEF more
<1>2. IdsOf(more) \subseteq IdsOf(groups) \cup {g.id}
  <2>1. ASSUME NEW k \in 1..(Len(groups) + 1) PROVE more[k].id \in IdsOf(groups) \cup {g.id}
    <3>1. k \in 1..Len(groups) \/ k = Len(groups) + 1
      BY <1>1
    <3> QED BY <1>1, <3>1 DEF IdsOf
  <2> QED BY <1>1, <2>1 DEF IdsOf
<1>3. IdsOf(groups) \cup {g.id} \subseteq IdsOf(more)
  <2>1. 1..Len(groups) \subseteq DOMAIN more /\ Len(groups) + 1 \in DOMAIN more
    BY <1>1
  <2> QED BY <1>1, <2>1 DEF IdsOf
<1> QED BY <1>2, <1>3 DEF more

\* Extending the last log leaves the folder a sequence of files, the other
\* logs as they were and the last one longer by the group.
LEMMA ExtendFacts ==
    ASSUME logs \in Seq(File), logs # <<>>, NEW g \in Group
    PROVE  /\ Extend(g) \in Seq(File)
           /\ Len(Extend(g)) = Len(logs)
           /\ Extend(g) # <<>>
           /\ \A k \in 1..Len(logs) :
                /\ Extend(g)[k].headed = logs[k].headed
                /\ Extend(g)[k].aside = logs[k].aside
                /\ Extend(g)[k].groups =
                      IF k = Len(logs) THEN Append(logs[k].groups, g) ELSE logs[k].groups
<1> DEFINE n == Len(logs)
           f == [logs[n] EXCEPT !.groups = Append(@, g)]
<1>1. n \in Nat /\ n # 0 /\ n \in 1..n
  BY EmptySeq
<1>2. logs[n] \in File
  BY <1>1, ElementOfSeq
<1>3. f \in File /\ f.headed = logs[n].headed /\ f.aside = logs[n].aside
      /\ f.groups = Append(logs[n].groups, g)
  <2> HIDE DEF n
  <2>1. Append(logs[n].groups, g) \in Seq(Group)
    BY <1>2 DEF File
  <2>2. f.headed = logs[n].headed /\ f.aside = logs[n].aside /\ f.groups = Append(logs[n].groups, g)
    BY <1>2 DEF File
  <2>3. f \in File
    BY <1>2, <2>1 DEF File
  <2> QED
    BY <2>2, <2>3
<1>4. Extend(g) = [logs EXCEPT ![n] = f]
  BY DEF Extend
<1>5. /\ [logs EXCEPT ![n] = f] \in Seq(File)
      /\ Len([logs EXCEPT ![n] = f]) = Len(logs)
      /\ \A k \in 1..Len(logs) : [logs EXCEPT ![n] = f][k] = IF k = n THEN f ELSE logs[k]
  BY <1>1, <1>3, ExceptSeq
<1> QED
  BY <1>1, <1>3, <1>4, <1>5

\* A committed input has a position in the recorder's memory.
LEMMA PositionFacts ==
    ASSUME mem \in Seq(Group), NEW i, i \in IdsOf(mem)
    PROVE  PositionOf(i) \in 1..Len(mem) /\ mem[PositionOf(i)].id = i
<1>1. \E k \in 1..Len(mem) : mem[k].id = i
  BY DEF IdsOf
<1> QED
  BY <1>1 DEF PositionOf

\* The reply to a committed input is what the recorder holds up to it.
LEMMA ReplyFacts ==
    ASSUME mem \in Seq(Group), NEW i \in Inputs, i \in IdsOf(mem), start \in Starts
    PROVE  /\ ReplyTo(i) \in Told
           /\ ReplyTo(i).groups # <<>>
           /\ CommittedPrefixOf(ReplyTo(i).groups, mem)
<1> DEFINE p == PositionOf(i)
           r == SubSeq(mem, 1, p)
<1>1. p \in 1..Len(mem)
  BY PositionFacts
<1>2. \A k \in 1..p : mem[k] \in Group
  BY <1>1, ElementOfSeq
<1>3. r \in Seq(Group) /\ Len(r) = p /\ \A k \in 1..p : r[k] = mem[k]
  BY <1>1, <1>2, SubSeqProperties
<1> QED
  BY <1>1, <1>3 DEF ReplyTo, Told, CommittedPrefixOf

\* Being a prefix is transitive.
LEMMA PrefixTransitive ==
    ASSUME NEW a \in Seq(Group), NEW b \in Seq(Group), NEW c \in Seq(Group),
           CommittedPrefixOf(a, b), CommittedPrefixOf(b, c)
    PROVE  CommittedPrefixOf(a, c)
  BY DEF CommittedPrefixOf

\* A log is a prefix of itself.
LEMMA PrefixReflexive ==
    ASSUME NEW a \in Seq(Group)
    PROVE  CommittedPrefixOf(a, a)
  BY DEF CommittedPrefixOf

\* A log is a prefix of itself with a group recorded behind it.
LEMMA PrefixAppend ==
    ASSUME NEW a \in Seq(Group), NEW b \in Seq(Group), NEW g \in Group, CommittedPrefixOf(a, b)
    PROVE  CommittedPrefixOf(a, Append(b, g))
  BY DEF CommittedPrefixOf

\* A running process has a last log to write to.
LEMMA LastLogFacts ==
    ASSUME RecorderInv, phase # "down"
    PROVE  /\ logs \in Seq(File) /\ logs # <<>> /\ mem \in Seq(Group)
           /\ Len(logs) \in 1..Len(logs)
           /\ logs[Len(logs)] \in File /\ LastGroups \in Seq(Group)
<1>1. logs \in Seq(File) /\ logs # <<>> /\ mem \in Seq(Group)
  BY DEF RecorderInv, TypeOK, Running
<1>2. Len(logs) \in 1..Len(logs)
  BY <1>1, EmptySeq
<1>3. logs[Len(logs)] \in File
  BY <1>1, <1>2, ElementOfSeq
<1> QED
  BY <1>1, <1>2, <1>3 DEF File, LastGroups

\* Every group the process may be writing is a group, goes into a log with its
\* header, and opens the log only with the run's start.
LEMMA WritingFacts ==
    ASSUME RecorderInv, NEW g \in Writing
    PROVE  /\ g \in Group /\ phase # "down" /\ logs[Len(logs)].headed
           /\ ~poisoned
           /\ LastGroups = <<>> => g.id \in Starts
<1> USE DEF RecorderInv, TypeOK, Running, PhaseFacts
<1>1. CASE phase = "copying"
  <2>1. source \in 1..Len(logs) /\ logs[source] \in File
    BY <1>1, ElementOfSeq
  <2>2. Len(mem) + 1 \in DOMAIN logs[source].groups /\ g = logs[source].groups[Len(mem) + 1]
    BY <1>1 DEF Writing
  <2>3. g \in Group
    BY <2>1, <2>2 DEF File
  <2>4. LastGroups = <<>> => g.id \in Starts
    <3>1. SUFFICES ASSUME LastGroups = <<>> PROVE g.id \in Starts
      OBVIOUS
    <3>2. Len(mem) = 0
      BY <1>1, <3>1
    <3>3. logs[source].groups # <<>> /\ g = logs[source].groups[1]
      BY <2>2, <3>2
    <3> QED
      BY <2>1, <3>3 DEF OpensWithStart
  <2> QED
    BY <1>1, <2>3, <2>4
<1>2. CASE phase = "starting"
  <2>1. /\ Len(mem) < 2
        /\ g = Entry(IF mem = <<>> THEN "config" ELSE "approval", start)
    BY <1>2 DEF Writing
  <2> QED
    BY <1>2, <2>1 DEF Entry, Group, Kinds
<1>3. CASE phase = "deciding"
  <2>1. call \in Call /\ mem # <<>> /\ mem = LastGroups
    BY <1>3
  <2>2. g \in {Entry("record", r) : r \in todo} \cup {Entry("input", i) : i \in {i \in {call.id} : todo = {}}}
    BY <1>3 DEF Writing
  <2>3. g \in Group
    BY <2>1, <2>2 DEF Entry, Group, Kinds, Call
  <2> QED
    BY <1>3, <2>1, <2>3
<1>4. CASE phase \notin {"copying", "starting", "deciding"}
  BY <1>4 DEF Writing
<1> QED
  BY <1>1, <1>2, <1>3, <1>4

\* A log that opened with a start still does, and a first group names one.
LEMMA OpensExtended ==
    ASSUME RecorderInv, phase # "down", NEW g \in Group, LastGroups = <<>> => g.id \in Starts,
           Len(logs') = Len(logs),
           \A k \in 1..Len(logs) :
              logs'[k].groups = IF k = Len(logs) THEN Append(logs[k].groups, g) ELSE logs[k].groups
    PROVE  OpensWithStart'
<1> SUFFICES ASSUME NEW k \in 1..Len(logs), logs'[k].groups # <<>>
             PROVE  logs'[k].groups[1].id \in Starts
  BY DEF OpensWithStart
<1>1. LastGroups \in Seq(Group)
  BY LastLogFacts
<1>2. CASE k # Len(logs)
  BY <1>2 DEF RecorderInv, OpensWithStart
<1>3. CASE k = Len(logs)
  <2>1. logs'[k].groups = Append(LastGroups, g)
    BY <1>3 DEF LastGroups
  <2>2. CASE LastGroups = <<>>
    BY <1>1, <2>1, <2>2
  <2>3. CASE LastGroups # <<>>
    <3>1. logs[k].groups = LastGroups /\ logs[k].groups[1].id \in Starts
      BY <1>3, <2>3 DEF RecorderInv, OpensWithStart, LastGroups
    <3>2. Append(LastGroups, g)[1] = LastGroups[1]
      BY <1>1, <2>3
    <3> QED
      BY <2>1, <3>1, <3>2
  <2> QED
    BY <2>2, <2>3
<1> QED
  BY <1>2, <1>3

\* Recording a group: the log and the memory gain it together.
LEMMA RecordFacts ==
    ASSUME RecorderInv, NEW g \in Writing, Record(g)
    PROVE  /\ logs' \in Seq(File) /\ mem' \in Seq(Group) /\ next' \in Nat
           /\ logs' # <<>> /\ Len(logs') = Len(logs)
           /\ ~logs'[Len(logs')].aside /\ logs'[Len(logs')].headed
           /\ mem' = LastGroups' /\ mem' # <<>>
           /\ IdsOf(mem') = IdsOf(mem) \cup {g.id}
           /\ HeadedFirst' /\ OpensWithStart'
<1> USE DEF RecorderInv, Running
<1>0. g \in Group /\ phase # "down" /\ logs[Len(logs)].headed /\ ~poisoned
      /\ (LastGroups = <<>> => g.id \in Starts)
  BY WritingFacts
<1>1. /\ logs \in Seq(File) /\ logs # <<>> /\ mem \in Seq(Group)
      /\ Len(logs) \in 1..Len(logs) /\ LastGroups \in Seq(Group)
  BY <1>0, LastLogFacts
<1>2. logs' = Extend(g) /\ mem' = Append(mem, g) /\ next' = g.seq + 1
  BY DEF Record
<1>3. /\ logs' \in Seq(File) /\ Len(logs') = Len(logs) /\ logs' # <<>>
      /\ \A k \in 1..Len(logs) :
            /\ logs'[k].headed = logs[k].headed
            /\ logs'[k].aside = logs[k].aside
            /\ logs'[k].groups = IF k = Len(logs) THEN Append(logs[k].groups, g) ELSE logs[k].groups
  BY <1>0, <1>1, <1>2, ExtendFacts
<1>4. mem' = LastGroups' /\ mem' \in Seq(Group) /\ mem' # <<>>
  <2>1. LastGroups' = Append(LastGroups, g)
    BY <1>1, <1>3 DEF LastGroups
  <2> QED
    BY <1>0, <1>1, <1>2, <2>1
<1>5. next' \in Nat
  BY <1>0, <1>2 DEF Group
<1>6. IdsOf(mem') = IdsOf(mem) \cup {g.id}
  BY <1>0, <1>1, <1>2, AppendedId
<1>7. HeadedFirst' /\ OpensWithStart'
  BY <1>0, <1>1, <1>3, OpensExtended DEF HeadedFirst
<1> QED
  BY <1>0, <1>1, <1>3, <1>4, <1>5, <1>6, <1>7

\* A step that records a group, be it the last of a call or not.
LEMMA RecordedKeeps ==
    ASSUME RecorderInv, NEW g \in Writing, Record(g),
           phase' = phase \/ (phase = "deciding" /\ phase' = "decided" /\ g.id = call.id),
           noted' \subseteq Records, todo' \subseteq Records,
           UNCHANGED <<inbox, adapterVars, runVars, poisoned, sent, call, historyVars>>
    PROVE  RecorderInv'
<1>1. /\ logs' \in Seq(File) /\ mem' \in Seq(Group) /\ next' \in Nat
      /\ logs' # <<>> /\ Len(logs') = Len(logs)
      /\ ~logs'[Len(logs')].aside /\ logs'[Len(logs')].headed
      /\ mem' = LastGroups' /\ mem' # <<>>
      /\ IdsOf(mem') = IdsOf(mem) \cup {g.id}
      /\ HeadedFirst' /\ OpensWithStart'
  BY RecordFacts
<1>2. phase # "down" /\ phase # "created"
  BY WritingFacts DEF Writing
<1>3. CommittedPrefixOf(mem', LastGroups')
  BY <1>1, PrefixReflexive
<1>4. TypeOK'
  BY <1>1 DEF RecorderInv, TypeOK, Phases, adapterVars, runVars, historyVars
<1>5. Running' /\ PhaseFacts'
  BY <1>1, <1>2, <1>3 DEF RecorderInv, Running, PhaseFacts, runVars
<1> QED
  BY <1>1, <1>4, <1>5 DEF RecorderInv

\* A write cut short: the log gains the group or does not, the memory never.
LEMMA CutShortFacts ==
    ASSUME RecorderInv, phase # "down", mem' = mem,
           logs' = logs \/ \E g \in Writing : logs' = Extend(g)
    PROVE  /\ logs' \in Seq(File) /\ logs' # <<>> /\ Len(logs') = Len(logs)
           /\ ~logs'[Len(logs')].aside
           /\ logs'[Len(logs')].headed = logs[Len(logs)].headed
           /\ CommittedPrefixOf(mem', LastGroups')
           /\ HeadedFirst' /\ OpensWithStart'
<1> USE DEF RecorderInv, Running
<1>1. /\ logs \in Seq(File) /\ logs # <<>> /\ mem \in Seq(Group)
      /\ Len(logs) \in 1..Len(logs) /\ LastGroups \in Seq(Group)
  BY LastLogFacts
<1>2. CASE logs' = logs
  BY <1>1, <1>2 DEF LastGroups, HeadedFirst, OpensWithStart
<1>3. CASE \E g \in Writing : logs' = Extend(g)
  <2>1. PICK g \in Writing : logs' = Extend(g)
    BY <1>3
  <2>2. g \in Group /\ logs[Len(logs)].headed /\ (LastGroups = <<>> => g.id \in Starts)
    BY WritingFacts
  <2>3. /\ logs' \in Seq(File) /\ Len(logs') = Len(logs) /\ logs' # <<>>
        /\ \A k \in 1..Len(logs) :
              /\ logs'[k].headed = logs[k].headed
              /\ logs'[k].aside = logs[k].aside
              /\ logs'[k].groups = IF k = Len(logs) THEN Append(logs[k].groups, g) ELSE logs[k].groups
    BY <1>1, <2>1, <2>2, ExtendFacts
  <2>4. CommittedPrefixOf(mem', LastGroups')
    BY <1>1, <2>2, <2>3, PrefixAppend DEF LastGroups
  <2>5. HeadedFirst' /\ OpensWithStart'
    BY <1>1, <2>2, <2>3, OpensExtended DEF HeadedFirst
  <2> QED
    BY <1>1, <2>3, <2>4, <2>5
<1> QED
  BY <1>2, <1>3

-----------------------------------------------------------------------------
(***************************************************************************)
(* The invariant of the recorder.                                          *)
(***************************************************************************)
\* Before any start the recorder's invariant holds: no log, no process.
LEMMA InitRecorder == Init => RecorderInv
<1> SUFFICES ASSUME Init PROVE RecorderInv
  OBVIOUS
<1>1. <<>> \in Seq(File) /\ <<>> \in Seq(Group) /\ Len(<<>>) = 0
  BY EmptySeq
<1>2. TypeOK
  BY <1>1 DEF Init, TypeOK, Phases, Answers
<1> QED
  BY <1>1, <1>2 DEF Init, RecorderInv, Running, PhaseFacts, HeadedFirst, OpensWithStart

\* Starting a process appends an empty log to the folder.
LEMMA CreateLogStep ==
    ASSUME RecorderInv, NEW s \in Starts, NEW from \in Nat, from <= Len(logs),
           CreateLog(s, from), faults' \in Nat
    PROVE  RecorderInv'
<1> DEFINE new == [headed |-> FALSE, aside |-> FALSE, groups |-> <<>>]
<1>1. logs \in Seq(File) /\ new \in File
  BY EmptySeq DEF RecorderInv, TypeOK, File
<1>2. logs' = Append(logs, new)
  BY DEF CreateLog
<1>3. /\ logs' \in Seq(File) /\ Len(logs') = Len(logs) + 1 /\ logs' # <<>>
      /\ logs'[Len(logs')] = new
      /\ \A k \in 1..Len(logs) : logs'[k] = logs[k]
  BY <1>1, <1>2
<1>4. TypeOK'
  BY <1>3, EmptySeq DEF RecorderInv, TypeOK, CreateLog, ownerVars, adapterVars, Phases
<1>5. Running'
  BY <1>3, EmptySeq DEF CreateLog, Running, LastGroups, CommittedPrefixOf
<1>6. PhaseFacts'
  BY <1>1, <1>3 DEF CreateLog, PhaseFacts
<1>7. HeadedFirst' /\ OpensWithStart'
  <2>1. ASSUME NEW k \in 1..Len(logs')
        PROVE  \/ logs'[k].groups = <<>>
               \/ k \in 1..Len(logs) /\ logs'[k] = logs[k]
    BY <1>1, <1>3
  <2> QED BY <2>1 DEF RecorderInv, HeadedFirst, OpensWithStart
<1> QED
  BY <1>4, <1>5, <1>6, <1>7 DEF RecorderInv

\* A resumed log is a run, so it opens with a group naming the run's start.
LEMMA StartStep ==
    ASSUME RecorderInv,
           \/ \E s \in Starts : StartFresh(s)
           \/ \E k \in 1..Len(logs) : StartResume(k)
    PROVE  RecorderInv'
<1>1. CASE \E s \in Starts : StartFresh(s)
  <2>1. PICK s \in Starts : StartFresh(s)
    BY <1>1
  <2>2. CreateLog(s, 0) /\ faults' \in Nat /\ 0 <= Len(logs)
    BY <2>1 DEF StartFresh, Fault, RecorderInv, TypeOK
  <2> QED
    BY <2>2, CreateLogStep
<1>2. CASE \E k \in 1..Len(logs) : StartResume(k)
  <2>1. PICK k \in 1..Len(logs) : StartResume(k)
    BY <1>2
  <2>2. logs[k].groups # <<>> /\ logs[k].groups[1].id \in Starts
    BY <2>1 DEF StartResume, IsLatest, IsRun, RecorderInv, OpensWithStart
  <2>3. CreateLog(logs[k].groups[1].id, k) /\ faults' \in Nat /\ k \in Nat /\ k <= Len(logs)
    BY <2>1 DEF StartResume, RecorderInv, TypeOK
  <2> QED
    BY <2>2, <2>3, CreateLogStep
<1> QED
  BY <1>1, <1>2

\* The steps of a starting process.
LEMMA StartingStep ==
    ASSUME RecorderInv, WriteHeader \/ CopyGroup \/ CopyDone \/ RecordStart \/ Listen
    PROVE  RecorderInv'
<1> USE DEF RecorderInv
<1>1. CASE WriteHeader
  <2> DEFINE n == Len(logs)
             f == [logs[n] EXCEPT !.headed = TRUE]
  <2>1. logs \in Seq(File) /\ n \in 1..n /\ logs[n] \in File /\ logs # <<>> /\ mem \in Seq(Group)
    BY <1>1, LastLogFacts DEF WriteHeader
  <2>2. f \in File /\ f.headed /\ f.aside = logs[n].aside /\ f.groups = logs[n].groups
    BY <2>1 DEF File
  <2>3. logs' = [logs EXCEPT ![n] = f]
    BY <1>1 DEF WriteHeader
  <2>4. /\ logs' \in Seq(File) /\ Len(logs') = n
        /\ \A k \in 1..n : logs'[k] = IF k = n THEN f ELSE logs[k]
    BY <2>1, <2>2, <2>3, ExceptSeq
  <2>5. TypeOK'
    BY <1>1, <2>4 DEF WriteHeader, TypeOK, Phases, ownerVars, adapterVars, runVars, recorderVars,
        guardVars, historyVars
  <2>6. Running'
    BY <1>1, <2>1, <2>2, <2>4 DEF WriteHeader, Running, LastGroups, runVars, recorderVars, guardVars
  <2>7. PhaseFacts'
    BY <1>1, <2>1, <2>2, <2>4 DEF WriteHeader, PhaseFacts, runVars, recorderVars, guardVars, TypeOK
  <2>8. HeadedFirst' /\ OpensWithStart'
    BY <2>1, <2>2, <2>4 DEF HeadedFirst, OpensWithStart
  <2> QED
    BY <2>5, <2>6, <2>7, <2>8
<1>2. CASE CopyGroup
  <2>1. PICK g \in Writing : Record(g)
    BY <1>2 DEF CopyGroup, Writing, TypeOK
  <2> QED
    BY <1>2, <2>1, RecordedKeeps DEF CopyGroup, TypeOK, ownerVars, guardVars
<1>3. CASE CopyDone
  BY <1>3 DEF CopyDone, TypeOK, Phases, Running, PhaseFacts, LastGroups, HeadedFirst, OpensWithStart,
      ownerVars, adapterVars, runVars, recorderVars, guardVars, historyVars
<1>4. CASE RecordStart
  <2>1. PICK g \in Writing : Record(g)
    BY <1>4 DEF RecordStart, Writing
  <2> QED
    BY <1>4, <2>1, RecordedKeeps DEF RecordStart, TypeOK, ownerVars, guardVars
<1>5. CASE Listen
  BY <1>5, EmptySeq DEF Listen, TypeOK, Phases, Running, PhaseFacts, LastGroups, HeadedFirst, OpensWithStart,
      ownerVars, adapterVars, runVars, recorderVars, guardVars, historyVars
<1> QED
  BY <1>1, <1>2, <1>3, <1>4, <1>5

\* The ends of a process, and the log the owner sets aside.
LEMMA StoppingStep ==
    ASSUME RecorderInv, Crash \/ Stop \/ \E k \in 1..Len(logs) : Quarantine(k)
    PROVE  RecorderInv'
<1> USE DEF RecorderInv
<1>1. CASE Crash
  <2>1. /\ phase # "down" /\ mem' = mem /\ phase' = "down"
        /\ logs' = logs \/ \E g \in Writing : logs' = Extend(g)
    BY <1>1 DEF Crash, recorderVars
  <2>2. logs' \in Seq(File) /\ HeadedFirst' /\ OpensWithStart'
    BY <2>1, CutShortFacts
  <2>3. TypeOK'
    BY <1>1, <2>2 DEF Crash, Fault, TypeOK, Phases, ownerVars, adapterVars, runVars, recorderVars
  <2> QED
    BY <2>1, <2>2, <2>3 DEF Running, PhaseFacts
<1>2. CASE Stop
  BY <1>2 DEF Stop, TypeOK, Phases, Running, PhaseFacts, HeadedFirst, OpensWithStart,
      ownerVars, adapterVars, runVars, recorderVars, guardVars, historyVars
<1>3. CASE \E k \in 1..Len(logs) : Quarantine(k)
  <2>1. PICK k \in 1..Len(logs) : Quarantine(k)
    BY <1>3
  <2> DEFINE f == [logs[k] EXCEPT !.aside = TRUE]
  <2>2. logs \in Seq(File) /\ logs[k] \in File
    BY ElementOfSeq DEF TypeOK
  <2>3. f \in File /\ f.headed = logs[k].headed /\ f.groups = logs[k].groups
    BY <2>2 DEF File
  <2>4. logs' = [logs EXCEPT ![k] = f]
    BY <2>1 DEF Quarantine
  <2>5. /\ logs' \in Seq(File) /\ Len(logs') = Len(logs)
        /\ \A j \in 1..Len(logs) : logs'[j] = IF j = k THEN f ELSE logs[j]
    BY <2>2, <2>3, <2>4, ExceptSeq
  <2>6. TypeOK'
    BY <2>1, <2>5 DEF Quarantine, TypeOK, ownerVars, adapterVars, runVars, recorderVars, guardVars, historyVars
  <2>7. Running' /\ PhaseFacts'
    BY <2>1 DEF Quarantine, Running, PhaseFacts
  <2>8. HeadedFirst' /\ OpensWithStart'
    BY <2>2, <2>3, <2>5 DEF HeadedFirst, OpensWithStart
  <2> QED
    BY <2>6, <2>7, <2>8
<1> QED
  BY <1>1, <1>2, <1>3

\* A released reply is a reply of the recorder's.
LEMMA ReleaseFacts ==
    ASSUME RecorderInv, phase # "down", NEW i \in Inputs, i \in IdsOf(mem), Release(i)
    PROVE  /\ told' = told \cup {ReplyTo(i)}
           /\ told' \subseteq Told /\ waiting' \in Waiting \cup {None}
           /\ seen' \in Answers /\ faults' \in Nat
<1>1. ReplyTo(i) \in Told
  BY ReplyFacts DEF RecorderInv, TypeOK, Running
<1> QED
  BY <1>1 DEF Release, Fault, RecorderInv, TypeOK, Answers

\* The steps of an exchange.
LEMMA ExchangeStep ==
    ASSUME RecorderInv,
           \/ AskRefused \/ AskCommitted \/ AskOutOfSequence \/ AskNew
           \/ \E r \in Records : DeliverRecord(r)
           \/ ApplyInput \/ DecideFails \/ Abandon \/ AbandonedEnds \/ Reply
    PROVE  RecorderInv'
<1> USE DEF RecorderInv
<1>1. CASE AskRefused
  BY <1>1 DEF AskRefused, Asking, TypeOK, Answers, Running, PhaseFacts, LastGroups, HeadedFirst, OpensWithStart,
      ownerVars, runVars, recorderVars, guardVars, historyVars
<1>2. CASE AskCommitted
  <2>1. waiting.id \in Inputs /\ phase = "serving" /\ waiting.id \in IdsOf(mem)
    BY <1>2, ConstantsAssumption DEF AskCommitted, Asking, IsCommitted, TypeOK, Waiting
  <2>2. /\ told' \subseteq Told /\ waiting' \in Waiting \cup {None}
        /\ seen' \in Answers /\ faults' \in Nat
    BY <1>2, <2>1, ReleaseFacts DEF AskCommitted, TypeOK, Answers, historyVars
  <2> QED
    BY <1>2, <2>2 DEF AskCommitted, TypeOK, Running, PhaseFacts, LastGroups, HeadedFirst, OpensWithStart,
        ownerVars, runVars, recorderVars, guardVars
<1>3. CASE AskOutOfSequence
  BY <1>3 DEF AskOutOfSequence, Asking, TypeOK, Answers, Running, PhaseFacts, LastGroups, HeadedFirst,
      OpensWithStart, ownerVars, runVars, recorderVars, guardVars, historyVars
<1>4. CASE AskNew
  <2>1. waiting \in Waiting /\ phase = "serving" /\ ~poisoned
    BY <1>4 DEF AskNew, Asking, TypeOK
  <2>2. call' \in Call
    BY <1>4, <2>1 DEF AskNew, Call, Waiting
  <2>3. todo' \subseteq Records /\ noted' \subseteq Records
    BY <1>4 DEF AskNew, Pending, TypeOK
  <2>4. TypeOK'
    BY <1>4, <2>2, <2>3 DEF AskNew, TypeOK, Phases, adapterVars, runVars, recorderVars, historyVars
  <2> QED
    BY <1>4, <2>1, <2>2, <2>4 DEF AskNew, Running, PhaseFacts, LastGroups, HeadedFirst, OpensWithStart,
        runVars, recorderVars
<1>5. CASE \E r \in Records : DeliverRecord(r)
  <2>1. PICK r \in Records : DeliverRecord(r)
    BY <1>5
  <2>2. Entry("record", r) \in Writing /\ Record(Entry("record", r))
    BY <2>1 DEF DeliverRecord, Writing
  <2> QED
    BY <2>1, <2>2, RecordedKeeps DEF DeliverRecord, TypeOK
<1>6. CASE ApplyInput
  <2>1. Entry("input", call.id) \in Writing /\ Record(Entry("input", call.id))
    BY <1>6 DEF ApplyInput, Writing
  <2>2. Entry("input", call.id).id = call.id
    BY DEF Entry
  <2> QED
    BY <1>6, <2>1, <2>2, RecordedKeeps DEF ApplyInput, TypeOK, ownerVars, guardVars
<1>7. CASE DecideFails
  <2>1. /\ phase = "deciding" /\ mem' = mem /\ mem # <<>> /\ start \in Starts
        /\ logs' = logs \/ \E g \in Writing : logs' = Extend(g)
    BY <1>7 DEF DecideFails, RecordFails, PhaseFacts, Running
  <2>2. /\ logs' \in Seq(File) /\ logs' # <<>> /\ Len(logs') = Len(logs)
        /\ ~logs'[Len(logs')].aside
        /\ logs'[Len(logs')].headed = logs[Len(logs)].headed
        /\ CommittedPrefixOf(mem', LastGroups')
        /\ HeadedFirst' /\ OpensWithStart'
    BY <2>1, CutShortFacts
  <2>3. next' \in Nat
    BY <1>7, WritingFacts DEF DecideFails, RecordFails, Group
  <2>4. TypeOK'
    BY <1>7, <2>1, <2>2, <2>3 DEF DecideFails, Fault, TypeOK, Phases, Answers, ownerVars, runVars
  <2> QED
    BY <1>7, <2>1, <2>2, <2>4 DEF DecideFails, Running, PhaseFacts, runVars
<1>8. CASE Abandon
  <2>1. call \in Call /\ call' \in Call /\ call'.id = call.id
    BY <1>8 DEF Abandon, TypeOK, PhaseFacts, Call
  <2>2. TypeOK'
    BY <1>8, <2>1 DEF Abandon, Fault, TypeOK, Answers, ownerVars, runVars, recorderVars
  <2> QED
    BY <1>8, <2>1, <2>2 DEF Abandon, Running, PhaseFacts, LastGroups, HeadedFirst, OpensWithStart,
        runVars, recorderVars
<1>9. CASE AbandonedEnds
  <2>1. TypeOK'
    BY <1>9 DEF AbandonedEnds, TypeOK, Phases, ownerVars, adapterVars, runVars, recorderVars, historyVars
  <2> QED
    BY <1>9, <2>1 DEF AbandonedEnds, Running, PhaseFacts, LastGroups, HeadedFirst, OpensWithStart,
        runVars, recorderVars
<1>10. CASE Reply
  <2>1. call \in Call /\ call.id \in Inputs /\ call.seq \in Nat /\ call.id \in IdsOf(mem) /\ phase = "decided"
    BY <1>10 DEF Reply, TypeOK, PhaseFacts, Call
  <2>2. /\ told' \subseteq Told /\ waiting' \in Waiting \cup {None}
        /\ seen' \in Answers /\ faults' \in Nat
    BY <1>10, <2>1, ReleaseFacts DEF Reply
  <2>3. TypeOK'
    BY <1>10, <2>1, <2>2 DEF Reply, TypeOK, Phases, ownerVars, runVars, recorderVars
  <2> QED
    BY <1>10, <2>1, <2>3 DEF Reply, Running, PhaseFacts, LastGroups, HeadedFirst, OpensWithStart,
        runVars, recorderVars
<1> QED
  BY <1>1, <1>2, <1>3, <1>4, <1>5, <1>6, <1>7, <1>8, <1>9, <1>10

\* The adapter's and the owner's own steps.
LEMMA OutsideStep ==
    ASSUME RecorderInv,
           \/ \E i \in Inputs : Compose(i)
           \/ SettleEndedRun
           \/ \E r \in Records : WriteRecord(r)
    PROVE  RecorderInv'
<1> USE DEF RecorderInv, Running, PhaseFacts, LastGroups, HeadedFirst, OpensWithStart
<1>1. CASE \E i \in Inputs : Compose(i)
  <2>1. PICK i \in Inputs : Compose(i)
    BY <1>1
  <2>2. waiting' \in Waiting
    <3>1. Len(LastGroups) \in Nat /\ start \in Starts
      BY <2>1, LastLogFacts DEF Compose
    <3> QED
      BY <2>1, <3>1 DEF Compose, Waiting
  <2> QED
    BY <2>1, <2>2 DEF Compose, TypeOK, Answers, ownerVars, runVars, recorderVars, guardVars, historyVars
<1>2. CASE SettleEndedRun
  BY <1>2 DEF SettleEndedRun, TypeOK, Answers, ownerVars, runVars, recorderVars, guardVars, historyVars
<1>3. CASE \E r \in Records : WriteRecord(r)
  BY <1>3 DEF WriteRecord, TypeOK, adapterVars, runVars, recorderVars, guardVars, historyVars
<1> QED
  BY <1>1, <1>2, <1>3

\* Every step keeps the recorder's invariant.
LEMMA RecorderStep ==
    ASSUME RecorderInv, [Next]_vars
    PROVE  RecorderInv'
<1>1. CASE UNCHANGED vars
  BY <1>1 DEF vars, ownerVars, adapterVars, runVars, recorderVars, guardVars, historyVars, RecorderInv,
      TypeOK, Running, PhaseFacts, LastGroups, HeadedFirst, OpensWithStart
<1>2. CASE Next
  BY <1>2, StartStep, StartingStep, StoppingStep, ExchangeStep, OutsideStep DEF Next
<1> QED
  BY <1>1, <1>2

\* The recorder's invariant holds in every reachable state.
LEMMA RecorderAlways == Spec => []RecorderInv
  BY InitRecorder, RecorderStep, PTL DEF Spec

\* Every variable keeps its type, whatever fails.
THEOREM TypeCorrect == Spec => []TypeOK
<1>1. RecorderInv => TypeOK
  BY DEF RecorderInv
<1> QED
  BY <1>1, RecorderAlways, PTL
-----------------------------------------------------------------------------
(***************************************************************************)
(* Nothing leaves the engine that is not in a readable log.                *)
(***************************************************************************)
\* What a step may do to the folder of logs.
LEMMA LogsStep ==
    ASSUME RecorderInv, [Next]_vars
    PROVE  \/ logs' = logs
           \/ \E f \in File : f.groups = <<>> /\ logs' = Append(logs, f)
           \/ \E g \in Writing : logs' = Extend(g)
           \/ phase # "down" /\ logs' = [logs EXCEPT ![Len(logs)].headed = TRUE]
           \/ \E k \in 1..Len(logs) : ~logs[k].headed /\ logs' = [logs EXCEPT ![k].aside = TRUE]
<1>1. CASE UNCHANGED vars
  BY <1>1 DEF vars
<1>2. CASE \/ \E s \in Starts : StartFresh(s)
           \/ \E k \in 1..Len(logs) : StartResume(k)
  <2>1. logs' = Append(logs, [headed |-> FALSE, aside |-> FALSE, groups |-> <<>>])
    BY <1>2 DEF StartFresh, StartResume, CreateLog
  <2>2. [headed |-> FALSE, aside |-> FALSE, groups |-> <<>>] \in File
    BY EmptySeq DEF File
  <2>3. [headed |-> FALSE, aside |-> FALSE, groups |-> <<>>].groups = <<>>
    OBVIOUS
  <2> QED
    BY <2>1, <2>2, <2>3
<1>3. CASE \E k \in 1..Len(logs) : Quarantine(k)
  BY <1>3 DEF Quarantine
<1>4. CASE WriteHeader
  BY <1>4 DEF WriteHeader
<1>5. CASE CopyGroup
  <2>1. Len(mem) + 1 \in DOMAIN logs[source].groups
    <3>1. source \in 1..Len(logs) /\ logs \in Seq(File) /\ mem \in Seq(Group)
      BY <1>5 DEF CopyGroup, RecorderInv, TypeOK, PhaseFacts
    <3>3. logs[source] \in File
      BY <3>1, ElementOfSeq
    <3>2. logs[source].groups \in Seq(Group)
      BY <3>3 DEF File
    <3> QED
      BY <1>5, <3>1, <3>2 DEF CopyGroup
  <2>2. logs[source].groups[Len(mem) + 1] \in Writing
    BY <1>5, <2>1 DEF CopyGroup, Writing
  <2> QED
    BY <1>5, <2>2 DEF CopyGroup, Record
<1>6. CASE RecordStart
  BY <1>6 DEF RecordStart, Record, Writing
<1>7. CASE Crash
  BY <1>7 DEF Crash
<1>8. CASE \E r \in Records : DeliverRecord(r)
  BY <1>8 DEF DeliverRecord, Record, Writing
<1>9. CASE ApplyInput
  BY <1>9 DEF ApplyInput, Record, Writing
<1>10. CASE DecideFails
  BY <1>10 DEF DecideFails, RecordFails
<1>11. CASE \/ CopyDone \/ Listen \/ Stop
            \/ AskRefused \/ AskCommitted \/ AskOutOfSequence \/ AskNew
            \/ Abandon \/ AbandonedEnds \/ Reply
            \/ (\E r \in Records : WriteRecord(r)) \/ (\E i \in Inputs : Compose(i)) \/ SettleEndedRun
  BY <1>11 DEF CopyDone, Listen, Stop, AskRefused, AskCommitted, AskOutOfSequence, AskNew, Abandon,
      AbandonedEnds, Reply, WriteRecord, Compose, SettleEndedRun
<1> QED
  BY <1>1, <1>2, <1>3, <1>4, <1>5, <1>6, <1>7, <1>8, <1>9, <1>10, <1>11 DEF Next

\* Every step that keeps the recorder's invariant only grows the folder.
LEMMA LogsGrowStep ==
    ASSUME RecorderInv, [Next]_vars
    PROVE  LogsGrow
<1>1. /\ logs \in Seq(File)
      /\ \A k \in 1..Len(logs) : logs[k] \in File /\ logs[k].groups \in Seq(Group)
  <2>1. logs \in Seq(File)
    BY DEF RecorderInv, TypeOK
  <2>2. \A k \in 1..Len(logs) : logs[k] \in File
    BY <2>1, ElementOfSeq
  <2> QED
    BY <2>1, <2>2 DEF File
<1>2. \A k \in 1..Len(logs) : CommittedPrefixOf(logs[k].groups, logs[k].groups)
  BY <1>1, PrefixReflexive
<1>3. CASE logs' = logs
  BY <1>1, <1>2, <1>3 DEF LogsGrow
<1>4. CASE \E f \in File : f.groups = <<>> /\ logs' = Append(logs, f)
  BY <1>1, <1>2, <1>4 DEF LogsGrow
<1>5. CASE \E g \in Writing : logs' = Extend(g)
  <2>1. PICK g \in Writing : logs' = Extend(g)
    BY <1>5
  <2>2. g \in Group /\ logs # <<>>
    BY WritingFacts, LastLogFacts
  <2>3. /\ Len(logs') = Len(logs)
        /\ \A k \in 1..Len(logs) :
              /\ logs'[k].aside = logs[k].aside
              /\ logs'[k].groups = IF k = Len(logs) THEN Append(logs[k].groups, g) ELSE logs[k].groups
    BY <1>1, <2>1, <2>2, ExtendFacts
  <2>4. \A k \in 1..Len(logs) : CommittedPrefixOf(logs[k].groups, Append(logs[k].groups, g))
    BY <1>1, <1>2, <2>2, PrefixAppend
  <2> QED
    BY <1>1, <1>2, <2>3, <2>4 DEF LogsGrow
<1>6. CASE phase # "down" /\ logs' = [logs EXCEPT ![Len(logs)].headed = TRUE]
  <2> DEFINE n == Len(logs)
             f == [logs[n] EXCEPT !.headed = TRUE]
  <2>1. n \in 1..n
    BY <1>6, LastLogFacts
  <2>2. f \in File /\ f.aside = logs[n].aside /\ f.groups = logs[n].groups
    BY <1>1, <2>1 DEF File
  <2>3. /\ Len(logs') = n
        /\ \A k \in 1..n : logs'[k] = IF k = n THEN f ELSE logs[k]
    BY <1>1, <1>6, <2>1, <2>2, ExceptSeq
  <2> HIDE DEF f
  <2> QED
    BY <1>1, <1>2, <2>2, <2>3 DEF LogsGrow
<1>7. CASE \E k \in 1..Len(logs) : ~logs[k].headed /\ logs' = [logs EXCEPT ![k].aside = TRUE]
  <2>1. PICK k \in 1..Len(logs) : ~logs[k].headed /\ logs' = [logs EXCEPT ![k].aside = TRUE]
    BY <1>7
  <2> DEFINE f == [logs[k] EXCEPT !.aside = TRUE]
  <2>2. f \in File /\ f.groups = logs[k].groups /\ logs[k].groups = <<>>
    BY <1>1, <2>1 DEF File, RecorderInv, HeadedFirst
  <2>3. /\ Len(logs') = Len(logs)
        /\ \A j \in 1..Len(logs) : logs'[j] = IF j = k THEN f ELSE logs[j]
    BY <1>1, <2>1, <2>2, ExceptSeq
  <2> HIDE DEF f
  <2> QED
    BY <1>1, <1>2, <2>2, <2>3 DEF LogsGrow
<1> QED
  BY <1>3, <1>4, <1>5, <1>6, <1>7, LogsStep

\* Only AskCommitted and Reply release anything, and only from memory.
LEMMA ToldStep ==
    ASSUME RecorderInv, [Next]_vars
    PROVE  \/ told' = told
           \/ \E i \in Inputs : /\ i \in IdsOf(mem) /\ phase # "down" /\ logs' = logs
                                /\ told' = told \cup {ReplyTo(i)}
<1>1. CASE AskCommitted
  <2>1. waiting.id \in Inputs /\ waiting.id \in IdsOf(mem) /\ phase # "down" /\ logs' = logs
    BY <1>1 DEF AskCommitted, Asking, IsCommitted, RecorderInv, TypeOK, Waiting
  <2>2. told' = told \/ told' = told \cup {ReplyTo(waiting.id)}
    BY <1>1 DEF AskCommitted, Release, historyVars
  <2> QED
    BY <2>1, <2>2
<1>2. CASE Reply
  <2>1. call.id \in Inputs /\ call.id \in IdsOf(mem) /\ phase # "down" /\ logs' = logs
    BY <1>2 DEF Reply, RecorderInv, PhaseFacts, Call
  <2> QED
    BY <1>2, <2>1 DEF Reply, Release
<1>3. CASE ~AskCommitted /\ ~Reply
  BY <1>3 DEF Next, vars, historyVars, StartFresh, StartResume, CreateLog, Quarantine, WriteHeader,
      CopyGroup, CopyDone, RecordStart, Listen, Crash, Stop, AskRefused, AskOutOfSequence, AskNew,
      DeliverRecord, WriteRecord, ApplyInput, DecideFails, Abandon, AbandonedEnds, Compose, SettleEndedRun
<1> QED
  BY <1>1, <1>2, <1>3

\* What was released stays journalled, and what is released is journalled.
LEMMA JournalStep ==
    ASSUME RecorderInv, ReplyNotEmpty, JournalBeforeSend, [Next]_vars
    PROVE  ReplyNotEmpty' /\ JournalBeforeSend'
<1>1. /\ logs \in Seq(File) /\ mem \in Seq(Group) /\ told \subseteq Told
      /\ logs' \in Seq(File)
      /\ \A k \in 1..Len(logs) : logs[k].groups \in Seq(Group)
      /\ \A k \in 1..Len(logs') : logs'[k].groups \in Seq(Group)
  <2>1. logs \in Seq(File) /\ mem \in Seq(Group) /\ told \subseteq Told
    BY DEF RecorderInv, TypeOK
  <2>2. logs' \in Seq(File)
    BY RecorderStep DEF RecorderInv, TypeOK
  <2>3. \A k \in 1..Len(logs) : logs[k] \in File
    BY <2>1, ElementOfSeq
  <2>4. \A k \in 1..Len(logs') : logs'[k] \in File
    BY <2>2, ElementOfSeq
  <2> QED
    BY <2>1, <2>2, <2>3, <2>4 DEF File
\* A reply found in a log before the step is found there after it.
<1>2. ASSUME NEW t \in Told, t.groups # <<>>,
             NEW k \in 1..Len(logs), ~logs[k].aside, CommittedPrefixOf(t.groups, logs[k].groups)
      PROVE  k \in 1..Len(logs') /\ ~logs'[k].aside /\ CommittedPrefixOf(t.groups, logs'[k].groups)
  <2>1. t.groups \in Seq(Group)
    BY DEF Told
  <2>2. k \in 1..Len(logs') /\ CommittedPrefixOf(logs[k].groups, logs'[k].groups)
        /\ (logs'[k].aside => logs[k].aside \/ logs[k].groups = <<>>)
    BY <1>1, LogsGrowStep DEF LogsGrow
  <2>3. logs[k].groups # <<>>
    BY <1>1, <1>2, <2>1 DEF CommittedPrefixOf
  <2>4. CommittedPrefixOf(t.groups, logs'[k].groups)
    BY <1>1, <1>2, <2>1, <2>2, PrefixTransitive
  <2> QED
    BY <1>2, <2>2, <2>3, <2>4
<1>3. ASSUME NEW t \in told
      PROVE  t.groups # <<>> /\ \E k \in 1..Len(logs') :
                 ~logs'[k].aside /\ CommittedPrefixOf(t.groups, logs'[k].groups)
  <2>1. t \in Told /\ t.groups # <<>>
    BY <1>1 DEF ReplyNotEmpty
  <2>2. PICK k \in 1..Len(logs) : ~logs[k].aside /\ CommittedPrefixOf(t.groups, logs[k].groups)
    BY DEF JournalBeforeSend
  <2> QED
    BY <1>2, <2>1, <2>2
<1>4. ASSUME NEW i \in Inputs, i \in IdsOf(mem), phase # "down"
      PROVE  ReplyTo(i).groups # <<>> /\ \E k \in 1..Len(logs') :
                 ~logs'[k].aside /\ CommittedPrefixOf(ReplyTo(i).groups, logs'[k].groups)
  <2>1. /\ ReplyTo(i) \in Told /\ ReplyTo(i).groups # <<>>
        /\ CommittedPrefixOf(ReplyTo(i).groups, mem)
    BY <1>1, <1>4, ReplyFacts DEF RecorderInv, Running
  <2>2. /\ Len(logs) \in 1..Len(logs) /\ ~logs[Len(logs)].aside
        /\ LastGroups \in Seq(Group) /\ CommittedPrefixOf(mem, LastGroups)
    BY <1>4, LastLogFacts DEF RecorderInv, Running
  <2>3. CommittedPrefixOf(ReplyTo(i).groups, logs[Len(logs)].groups)
    <3>1. ReplyTo(i).groups \in Seq(Group)
      BY <2>1 DEF Told
    <3>2. CommittedPrefixOf(ReplyTo(i).groups, LastGroups)
      BY <1>1, <2>1, <2>2, <3>1, PrefixTransitive
    <3> QED
      BY <3>2 DEF LastGroups
  <2> QED
    BY <1>2, <2>1, <2>2, <2>3
<1> QED
  BY <1>3, <1>4, ToldStep DEF ReplyNotEmpty, JournalBeforeSend

\* Journal before send, for every number of inputs, runs and faults: whatever
\* left the engine is, with all it rests on, in a log still readable.
THEOREM JournalledBeforeSent == Spec => []JournalBeforeSend
<1>1. Init => ReplyNotEmpty /\ JournalBeforeSend
  BY DEF Init, ReplyNotEmpty, JournalBeforeSend
<1>2. RecorderInv /\ ReplyNotEmpty /\ JournalBeforeSend /\ [Next]_vars
      => ReplyNotEmpty' /\ JournalBeforeSend'
  BY JournalStep
<1> QED
  BY <1>1, <1>2, RecorderAlways, PTL DEF Spec

\* The log folder is append-only: no step, and no crash, takes back or
\* rewrites a committed group or hides a log that holds one.
THEOREM LogsOnlyGrow == Spec => [][LogsGrow]_vars
<1>1. RecorderInv /\ [Next]_vars => [LogsGrow]_vars
  BY LogsGrowStep
<1> QED
  BY <1>1, RecorderAlways, PTL DEF Spec
=============================================================================
