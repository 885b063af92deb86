----------------------------- MODULE DurableRun -----------------------------
(***************************************************************************)
(* One account's engine process and the folder of durable logs it leaves:  *)
(* journal/durable_log.go, recorder.go and resume.go, replay/engine.go,    *)
(* restart/directory.go and cmd/engine (the wire guard, the operator       *)
(* inbox, the restart rules), with the one adapter that asks it.           *)
(*                                                                         *)
(* A durable log is a sequence of committed groups; a group stands for one *)
(* input and the decisions the reducer made of it.  The reducer is a       *)
(* deterministic function of the inputs applied so far, so the reply to an *)
(* input is represented by the groups up to and including its own.         *)
(***************************************************************************)
EXTENDS Naturals, Sequences, FiniteSets

CONSTANTS Inputs,     \* IDs of the inputs the adapter composes
          Records,    \* IDs of the records the owner puts in the operator inbox
          Misdated,   \* the records stating a time too far ahead of the clock
          Starts,     \* declared run starts (-as-of), each opening one run
          None,       \* no input, no call
          MaxFaults   \* bound: crashes, failed writes, timeouts, lost replies and fresh runs

ASSUME ConstantsAssumption ==
    /\ Misdated \subseteq Records
    /\ Inputs \cap Records = {} /\ Inputs \cap Starts = {} /\ Records \cap Starts = {}
    /\ None \notin Inputs \cup Records \cup Starts
    /\ MaxFaults \in Nat

Kinds == {"config", "approval", "input", "record"}
Group == [kind : Kinds, id : Inputs \cup Records \cup Starts, seq : Nat]
File  == [headed : BOOLEAN, aside : BOOLEAN, groups : Seq(Group)]

VARIABLES
    logs,      \* the log folder, oldest first (durable)
    inbox,     \* the operator records written so far (durable)
    noted,     \* the records with a delivered marker or a refusal note (durable)
    waiting,   \* the adapter's input awaiting its reply (durable), or None
    phase,     \* where the engine process is
    start,     \* the start the running engine was given
    source,    \* index in logs of the log being resumed, 0 in a fresh run
    mem,       \* Recorder.entries under Recorder.committed: the groups this process made durable
    next,      \* replay.Engine's cursor: the one sequence it accepts
    poisoned,  \* wireGuard.poisoned: nothing more is decided
    sent,      \* committedGroup.sent: the sequence each input was sent with, 0 if not noted
    call,      \* the exchange wireGuard.answer is inside, or None
    todo,      \* the operator records that exchange listed and has yet to deliver
    faults,    \* faults so far
    composed,  \* history: the IDs the adapter has composed inputs under
    told,      \* history: the replies that left the engine
    seen       \* the last answer the adapter got for its waiting input

ownerVars    == <<inbox, noted>>
adapterVars  == <<waiting, composed, seen>>
runVars      == <<start, source>>
recorderVars == <<mem, next>>
guardVars    == <<poisoned, sent, call, todo>>
historyVars  == <<faults, told>>
vars == <<logs, phase, ownerVars, adapterVars, runVars, recorderVars, guardVars, historyVars>>

Phases  == {"down", "created", "copying", "starting", "serving", "deciding", "decided"}
Answers == {"none", "reply", "different", "out-of-sequence", "error"}

(***************************************************************************)
(* Reading the folder of logs.                                             *)
(***************************************************************************)
IdsOf(groups) == {groups[k].id : k \in DOMAIN groups}

\* restart.committedPrefixOf: the log holds nothing the other does not.
CommittedPrefixOf(attempt, other) ==
    /\ Len(attempt) <= Len(other)
    /\ \A k \in 1..Len(attempt) : attempt[k] = other[k]

\* Mutant of IsRun: a resume abandoned partway is taken for a run.
AbandonedIsRun(k) == ~logs[k].aside /\ logs[k].groups # <<>>

\* restart.Classify: a log is a run unless it holds no record or is a resume
\* of an older run abandoned partway.  An older log that is itself abandoned
\* copies a run that is older still, so any older log serves as the source.
IsRun(k) ==
    /\ ~logs[k].aside
    /\ logs[k].groups # <<>>
    /\ \A j \in 1..(k - 1) : logs[j].aside \/ ~CommittedPrefixOf(logs[k].groups, logs[j].groups)

\* restart.Directory.Latest, 0 for a folder holding no run.
IsLatest(k) ==
    \/ k = 0 /\ \A j \in 1..Len(logs) : ~IsRun(j)
    \/ k \in 1..Len(logs) /\ IsRun(k) /\ \A j \in (k + 1)..Len(logs) : ~IsRun(j)

\* cmd/engine readLogs: a log without its header refuses every start.
FolderReadable == \A k \in 1..Len(logs) : logs[k].headed \/ logs[k].aside

\* openOperatorInbox and operatorInbox.delivered: the IDs any log records.
Journalled == UNION {IdsOf(logs[k].groups) : k \in {j \in 1..Len(logs) : ~logs[j].aside}}

\* Mutant of Pending: only the running log is asked what was delivered.
PendingHere == {r \in inbox : r \notin noted /\ r \notin IdsOf(mem)}

\* operatorInbox.pending: the records not yet delivered, marked or refused.
Pending == {r \in inbox : r \notin noted /\ r \notin Journalled}

-----------------------------------------------------------------------------
(***************************************************************************)
(* Recording one group: journal.Recorder.record and LogWriter.Append.      *)
(***************************************************************************)
Extend(g) == [logs EXCEPT ![Len(logs)].groups = Append(@, g)]

Entry(k, i) == [kind |-> k, id |-> i, seq |-> next]

\* The group is written and flushed, and only then committed in memory.
Record(g) ==
    /\ logs' = Extend(g)
    /\ mem' = Append(mem, g)
    /\ next' = g.seq + 1

\* A write or flush that fails leaves the group on disk whole, torn or not
\* at all; recovery excludes a torn one, so the file gains it or does not.
\* The recorder's record bound and emission ceiling leave no trace of it.
RecordFails(g) ==
    /\ logs' \in {logs, Extend(g)}
    /\ next' = g.seq + 1
    /\ mem' = mem

\* The groups the process may be writing at this moment.
Writing ==
    CASE phase = "copying" -> {logs[source].groups[k] : k \in {Len(mem) + 1} \cap DOMAIN logs[source].groups}
      [] phase = "starting" /\ Len(mem) < 2 -> {Entry(IF mem = <<>> THEN "config" ELSE "approval", start)}
      [] phase = "deciding" -> {Entry("record", r) : r \in todo} \cup
                               {Entry("input", i) : i \in {i \in {call.id} : todo = {}}}
      [] OTHER -> {}

Fault == faults < MaxFaults /\ faults' = faults + 1

Init ==
    /\ logs = <<>> /\ inbox = {} /\ noted = {} /\ waiting = None
    /\ phase = "down" /\ start = None /\ source = 0
    /\ mem = <<>> /\ next = 1 /\ poisoned = FALSE
    /\ sent = [i \in Inputs |-> 0] /\ call = None /\ todo = {}
    /\ faults = 0 /\ composed = {} /\ told = {} /\ seen = "none"

-----------------------------------------------------------------------------
(***************************************************************************)
(* Starting the engine.                                                    *)
(***************************************************************************)
\* createLogFile under the instance lock: a new file, never an existing one.
CreateLog(s, from) ==
    /\ phase = "down"
    /\ FolderReadable
    /\ logs' = Append(logs, [headed |-> FALSE, aside |-> FALSE, groups |-> <<>>])
    /\ phase' = "created" /\ start' = s /\ source' = from
    /\ mem' = <<>> /\ next' = 1 /\ poisoned' = FALSE
    /\ sent' = [i \in Inputs |-> 0] /\ call' = None /\ todo' = {}
    /\ UNCHANGED <<told, ownerVars, adapterVars>>

\* A fresh run never repeats an earlier log's start (freshRunApproval).
StartFresh(s) ==
    /\ \A k \in 1..Len(logs) : logs[k].groups # <<>> /\ ~logs[k].aside => logs[k].groups[1].id # s
    /\ CreateLog(s, 0)
    /\ IF IsLatest(0) THEN faults' = faults ELSE Fault

\* Only the latest run is resumed (checkResumesLatest), under its own start.
StartResume(k) ==
    /\ k \in 1..Len(logs) /\ IsLatest(k)
    /\ CreateLog(logs[k].groups[1].id, k)
    /\ UNCHANGED faults

\* journal.CreateLog: the header is flushed before any input.
WriteHeader ==
    /\ phase = "created"
    /\ logs' = [logs EXCEPT ![Len(logs)].headed = TRUE]
    /\ phase' = IF source = 0 THEN "starting" ELSE "copying"
    /\ UNCHANGED <<ownerVars, adapterVars, runVars, recorderVars, guardVars, historyVars>>

\* journal.Resume: the next committed group is applied and recorded again.
\* replay.Engine takes it only at its cursor; otherwise the resume stops
\* there, as a divergence does (Crash covers both).
CopyGroup ==
    /\ phase = "copying"
    /\ Len(mem) < Len(logs[source].groups)
    /\ LET g == logs[source].groups[Len(mem) + 1]
       IN  g.seq = next /\ Record(g)
    /\ UNCHANGED <<phase, ownerVars, adapterVars, runVars, guardVars, historyVars>>

CopyDone ==
    /\ phase = "copying"
    /\ Len(mem) = Len(logs[source].groups)
    /\ phase' = "starting"
    /\ UNCHANGED <<logs, ownerVars, adapterVars, runVars, recorderVars, guardVars, historyVars>>

\* The configuration is input 1 and the owner's approval input 2; a resume
\* records only what the log it resumed was cut short of.
RecordStart ==
    /\ phase = "starting"
    /\ Len(mem) < 2
    /\ Record(Entry(IF mem = <<>> THEN "config" ELSE "approval", start))
    /\ UNCHANGED <<phase, ownerVars, adapterVars, runVars, guardVars, historyVars>>

Listen ==
    /\ phase = "starting"
    /\ Len(mem) >= 2
    /\ phase' = "serving"
    /\ UNCHANGED <<logs, ownerVars, adapterVars, runVars, recorderVars, guardVars, historyVars>>

\* The process ends at any point, its last write whole, torn or lost.
Crash ==
    /\ phase # "down" /\ Fault
    /\ logs' \in {logs} \cup {Extend(g) : g \in Writing}
    /\ phase' = "down" /\ call' = None /\ todo' = {}
    /\ UNCHANGED <<poisoned, sent, told, ownerVars, adapterVars, runVars, recorderVars>>

\* A poisoned engine is stopped: by stopWith, or by a person.
Stop ==
    /\ phase = "serving" /\ poisoned
    /\ phase' = "down"
    /\ UNCHANGED <<logs, ownerVars, adapterVars, runVars, recorderVars, guardVars, historyVars>>

\* The owner moves a log a crash left without its header into quarantine.
Quarantine(k) ==
    /\ phase = "down" /\ k \in 1..Len(logs) /\ ~logs[k].headed /\ ~logs[k].aside
    /\ logs' = [logs EXCEPT ![k].aside = TRUE]
    /\ UNCHANGED <<phase, ownerVars, adapterVars, runVars, recorderVars, guardVars, historyVars>>

-----------------------------------------------------------------------------
(***************************************************************************)
(* One exchange: wireGuard.answer, under its lock.                         *)
(***************************************************************************)
PositionOf(i) == CHOOSE k \in 1..Len(mem) : mem[k].id = i

IsCommitted(i) == i \in IdsOf(mem)

\* Recorder.InputsRecordedBefore: the operator inputs recorded just before.
MovedBy(k) == Cardinality({j \in 1..(k - 1) : \A m \in j..(k - 1) : mem[m].kind = "record"})

\* Mutant of SentWith: a recovered log's moved sequence is not allowed for.
SentAsRecorded(i, n) == n = mem[PositionOf(i)].seq \/ (sent[i] # 0 /\ n = sent[i])

\* sentWith: whether the committed input can have been sent with sequence n.
SentWith(i, n) ==
    LET k == PositionOf(i)
        recorded == mem[k].seq
    IN  \/ n = recorded
        \/ sent[i] # 0 /\ n = sent[i]
        \/ sent[i] = 0 /\ n < recorded /\ n + MovedBy(k) >= recorded

ReplyTo(i) == [id |-> i, run |-> start, groups |-> SubSeq(mem, 1, PositionOf(i))]

\* A reply that leaves the engine reaches the adapter, which acts on it and
\* clears its waiting input, or is lost with the connection.
Release(i) ==
    /\ told' = told \cup {ReplyTo(i)}
    /\ \/ waiting' = None /\ seen' = "reply" /\ UNCHANGED faults
       \/ waiting' = waiting /\ seen' = seen /\ Fault

\* The adapter asks only the run it composed the input for (EarlierRunInput).
Asking == phase = "serving" /\ waiting # None /\ waiting.run = start

AskRefused ==
    /\ Asking /\ poisoned
    /\ seen' = "error"
    /\ UNCHANGED <<logs, waiting, phase, composed, ownerVars, runVars, recorderVars, guardVars, historyVars>>

\* An input sent again is answered from its committed group, never applied.
AskCommitted ==
    /\ Asking /\ ~poisoned /\ IsCommitted(waiting.id)
    /\ IF SentWith(waiting.id, waiting.seq)
       THEN Release(waiting.id)
       ELSE seen' = "different" /\ UNCHANGED <<waiting, historyVars>>
    /\ UNCHANGED <<logs, phase, composed, ownerVars, runVars, recorderVars, guardVars>>

\* replay.Engine.Apply refuses any sequence but its next; nothing is recorded
\* and nothing from the inbox is delivered.
AskOutOfSequence ==
    /\ Asking /\ ~poisoned /\ ~IsCommitted(waiting.id) /\ waiting.seq # next
    /\ seen' = "out-of-sequence"
    /\ UNCHANGED <<logs, waiting, phase, composed, ownerVars, runVars, recorderVars, guardVars, historyVars>>

\* Mutant of AskNew: the saved input itself is kept as the call.
AskNewKeepsInput ==
    /\ Asking /\ ~poisoned /\ ~IsCommitted(waiting.id) /\ waiting.seq = next
    /\ call' = waiting
    /\ todo' = Pending \ Misdated
    /\ noted' \in {noted \cup S : S \in SUBSET (inbox \cap (Journalled \cup Misdated))}
    /\ phase' = "deciding"
    /\ UNCHANGED <<logs, inbox, poisoned, sent, adapterVars, runVars, recorderVars, historyVars>>

\* The inbox is listed once an exchange.  A record some log holds is marked
\* delivered and a misdated one refused; a note that cannot be written is left.
AskNew ==
    /\ Asking /\ ~poisoned /\ ~IsCommitted(waiting.id) /\ waiting.seq = next
    /\ call' = [id |-> waiting.id, seq |-> waiting.seq, abandoned |-> FALSE]
    /\ todo' = Pending \ Misdated
    /\ noted' \in {noted \cup S : S \in SUBSET (inbox \cap (Journalled \cup Misdated))}
    /\ phase' = "deciding"
    /\ UNCHANGED <<logs, inbox, poisoned, sent, adapterVars, runVars, recorderVars, historyVars>>

\* operatorInbox.apply: the record is an input of its own; its marker is
\* written once it is durable, and a marker that cannot be written is left.
DeliverRecord(r) ==
    /\ phase = "deciding" /\ ~call.abandoned /\ r \in todo
    /\ Record(Entry("record", r))
    /\ todo' = todo \ {r}
    /\ noted' \in {noted, noted \cup {r}}
    /\ UNCHANGED <<inbox, phase, poisoned, sent, call, adapterVars, runVars, historyVars>>

\* Mutant of ApplyInput: the decision is committed before it is flushed.
ApplyUnflushed ==
    /\ phase = "deciding" /\ ~call.abandoned /\ todo = {}
    /\ mem' = Append(mem, Entry("input", call.id)) /\ next' = next + 1
    /\ phase' = "decided"
    /\ UNCHANGED <<logs, ownerVars, adapterVars, runVars, guardVars, historyVars>>

ApplyInput ==
    /\ phase = "deciding" /\ ~call.abandoned /\ todo = {}
    /\ Record(Entry("input", call.id))
    /\ phase' = "decided"
    /\ UNCHANGED <<ownerVars, adapterVars, runVars, guardVars, historyVars>>

\* Mutant of DecideFails: the sequence is spent and the run goes on.
DecideFailsServing ==
    /\ phase = "deciding" /\ ~call.abandoned /\ Fault
    /\ \E g \in Writing : RecordFails(g)
    /\ call' = None /\ todo' = {} /\ phase' = "serving"
    /\ seen' = "error"
    /\ UNCHANGED <<waiting, poisoned, sent, told, composed, ownerVars, runVars>>

\* Mutant of DecideFails: the input is forgotten and may be applied again.
DecideFailsRetried ==
    /\ phase = "deciding" /\ ~call.abandoned /\ Fault
    /\ logs' \in {logs} \cup {Extend(g) : g \in Writing}
    /\ call' = None /\ todo' = {} /\ phase' = "serving"
    /\ seen' = "error"
    /\ UNCHANGED <<waiting, poisoned, sent, told, composed, recorderVars, ownerVars, runVars>>

\* What could not be made durable spent its sequence, so the run stops
\* (stopWith): the adapter is told of an error and no decision is released.
DecideFails ==
    /\ phase = "deciding" /\ ~call.abandoned /\ Fault
    /\ \E g \in Writing : RecordFails(g)
    /\ poisoned' = TRUE /\ call' = None /\ todo' = {} /\ phase' = "serving"
    /\ seen' = "error"
    /\ UNCHANGED <<waiting, sent, told, composed, ownerVars, runVars>>

\* transport: the decision's deadline passes, and the connection is told so;
\* the decision goes on under the lock.
Abandon ==
    /\ phase \in {"deciding", "decided"} /\ ~call.abandoned /\ Fault
    /\ call' = [call EXCEPT !.abandoned = TRUE]
    /\ seen' = "error"
    /\ UNCHANGED <<logs, waiting, phase, poisoned, sent, todo, told, composed, ownerVars, runVars, recorderVars>>

\* An abandoned decision applies nothing more and poisons the guard.
AbandonedEnds ==
    /\ phase \in {"deciding", "decided"} /\ call.abandoned
    /\ poisoned' = TRUE /\ call' = None /\ todo' = {} /\ phase' = "serving"
    /\ UNCHANGED <<logs, sent, ownerVars, adapterVars, runVars, recorderVars, historyVars>>

Reply ==
    /\ phase = "decided" /\ ~call.abandoned
    /\ sent' = [sent EXCEPT ![call.id] = call.seq]
    /\ Release(call.id)
    /\ call' = None /\ phase' = "serving"
    /\ UNCHANGED <<logs, poisoned, todo, composed, ownerVars, runVars, recorderVars>>

-----------------------------------------------------------------------------
(***************************************************************************)
(* The adapter and the owner.                                              *)
(***************************************************************************)
\* An outbox entry becomes an input: its sequence is read from the engine's
\* log (read_engine_log), its run from the log's approval, and it is saved
\* before it is first sent.  An input ID is used once.
Compose(i) ==
    /\ phase = "serving" /\ waiting = None
    /\ i \notin composed /\ composed' = composed \cup {i}
    /\ waiting' = [id |-> i, run |-> start, seq |-> Len(logs[Len(logs)].groups) + 1]
    /\ seen' = "none"
    /\ UNCHANGED <<logs, phase, ownerVars, runVars, recorderVars, guardVars, historyVars>>

\* settle-ended-run: an earlier run's input is never carried into a new run.
SettleEndedRun ==
    /\ phase = "serving" /\ waiting # None /\ waiting.run # start
    /\ waiting' = None /\ seen' = "none"
    /\ UNCHANGED <<logs, phase, composed, ownerVars, runVars, recorderVars, guardVars, historyVars>>

\* The operator tool writes one record.
WriteRecord(r) ==
    /\ r \notin inbox
    /\ inbox' = inbox \cup {r}
    /\ UNCHANGED <<logs, noted, phase, adapterVars, runVars, recorderVars, guardVars, historyVars>>

Next ==
    \/ \E s \in Starts : StartFresh(s)
    \/ \E k \in 1..Len(logs) : StartResume(k) \/ Quarantine(k)
    \/ WriteHeader \/ CopyGroup \/ CopyDone \/ RecordStart \/ Listen
    \/ Crash \/ Stop
    \/ AskRefused \/ AskCommitted \/ AskOutOfSequence \/ AskNew
    \/ \E r \in Records : DeliverRecord(r) \/ WriteRecord(r)
    \/ ApplyInput \/ DecideFails \/ Abandon \/ AbandonedEnds \/ Reply
    \/ \E i \in Inputs : Compose(i)
    \/ SettleEndedRun

Spec == Init /\ [][Next]_vars
\* The engine's own steps run, an adapter with an input waiting keeps asking,
\* and the owner follows the restart runbook: a poisoned or crashed run is
\* stopped, an unreadable log set aside and the run resumed.  Nothing obliges
\* the owner to start a fresh run, nor the adapter to compose an input.
Fairness ==
    /\ WF_vars(WriteHeader \/ CopyGroup \/ CopyDone \/ RecordStart \/ Listen)
    /\ WF_vars(AskCommitted \/ AskNew \/ ApplyInput \/ (\E r \in Records : DeliverRecord(r)))
    /\ WF_vars(AbandonedEnds) /\ WF_vars(Reply)
    /\ WF_vars(Stop) /\ WF_vars(SettleEndedRun)
    /\ WF_vars(\E k \in 1..Len(logs) : StartResume(k) \/ Quarantine(k))

LiveSpec == Spec /\ Fairness

-----------------------------------------------------------------------------
(***************************************************************************)
(* Properties.                                                             *)
(***************************************************************************)
Waiting == [id : Inputs, run : Starts, seq : Nat]
Call    == [id : Inputs, seq : Nat, abandoned : BOOLEAN]
Told    == [id : Inputs, run : Starts, groups : Seq(Group)]

\* The reply an input was given in a folder of logs: its group and those it
\* rests on, in the oldest log holding it; no groups for no reply.
FirstLogOf(folder, i) ==
    CHOOSE k \in 1..Len(folder) :
        /\ i \in IdsOf(folder[k].groups)
        /\ \A j \in 1..(k - 1) : i \notin IdsOf(folder[j].groups)

ReplyIn(folder, i) ==
    IF \E k \in 1..Len(folder) : i \in IdsOf(folder[k].groups)
    THEN LET g == folder[FirstLogOf(folder, i)].groups
         IN  SubSeq(g, 1, CHOOSE n \in 1..Len(g) : g[n].id = i)
    ELSE <<>>

Promise == INSTANCE CommittedReply
    WITH None <- <<>>,
         reply <- [i \in Inputs |-> ReplyIn(logs, i)],
         released <- {<<t.id, t.groups>> : t \in told}

\* The log folder and the wire together keep the promise of CommittedReply:
\* commits assign replies once, and only assigned replies are released.
KeepsPromise == Promise!Spec

\* The types of the variables.
TypeOK ==
    /\ logs \in Seq(File)
    /\ inbox \subseteq Records /\ noted \subseteq Records
    /\ waiting \in Waiting \cup {None} /\ composed \subseteq Inputs /\ seen \in Answers
    /\ phase \in Phases /\ start \in Starts \cup {None} /\ source \in Nat
    /\ mem \in Seq(Group) /\ next \in Nat
    /\ poisoned \in BOOLEAN /\ sent \in [Inputs -> Nat]
    /\ call \in Call \cup {None} /\ todo \subseteq Records
    /\ faults \in Nat /\ told \subseteq Told

\* Journal before send (ADR 0027): whatever left the engine, with every
\* decision it rests on, is committed in a log that can still be read.
JournalBeforeSend ==
    \A t \in told : \E k \in 1..Len(logs) :
        ~logs[k].aside /\ CommittedPrefixOf(t.groups, logs[k].groups)

\* Re-delivery on request: however often an input is asked for, before a
\* crash or after a resume, its reply is the same.
OneReplyPerInput == \A a, b \in told : a.id = b.id => a = b

\* A log misses no sequence (or Resume refuses it) and applies no input twice.
LogContiguous ==
    \A k \in 1..Len(logs) : LET g == logs[k].groups IN
        /\ \A n \in 1..Len(g) : g[n].seq = n
        /\ \A m, n \in 1..Len(g) : g[m].id = g[n].id /\ g[m].kind = g[n].kind => m = n

\* Restarting: an engine that serves a run has everything the run's earlier
\* processes released, whatever resume attempts were abandoned in between.
ReleasedSurvivesResume ==
    phase \in {"serving", "deciding", "decided"} =>
        \A t \in told : t.run = start => CommittedPrefixOf(t.groups, mem)

\* A record of the operator's is an input of one run, however many find it in the inbox.
RecordOfOneRun ==
    \A r \in Records : \A j, k \in 1..Len(logs) :
        r \in IdsOf(logs[j].groups) \cap IdsOf(logs[k].groups) =>
            logs[j].groups[1] = logs[k].groups[1]

\* A record is settled in the inbox only once it is journalled, or refused for its date.
MarkedIsJournalled == \A r \in noted \ Misdated : r \in Journalled

\* The operator's record (a kill switch, a clearance) is delivered once, whatever stops
\* between its commit and its marker: neither given to a second run nor marked and lost.
RecordDeliveredOnce == RecordOfOneRun /\ MarkedIsJournalled

\* The adapter's own input, asked for again, is never taken for another input
\* sent under its ID (sentWith), although its sequence was moved and the
\* engine was restarted.
NeverTakenForAnother == seen # "different"

\* The adapter's input is refused as out of sequence only when an operator
\* record took the sequence it was saved with.
RefusedOnlyBehindRecord ==
    seen = "out-of-sequence" /\ waiting.run = start /\ phase = "serving" =>
        /\ waiting.seq \in DOMAIN mem
        /\ mem[waiting.seq].kind = "record"

\* Under Fairness, an input the adapter saved is in the end answered, or left
\* to an ended run and settled.
WaitingIsSettled == (waiting # None) ~> (waiting = None)

\* ADR 0027, re-delivery: an input that was never committed "is applied as
\* new" when it is sent again.
UncommittedAppliedAsNew == seen # "out-of-sequence"
=============================================================================
