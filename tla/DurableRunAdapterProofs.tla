---------------------- MODULE DurableRunAdapterProofs ----------------------
(***************************************************************************)
(* Proofs about the adapter's input in DurableRun, for any inputs, records *)
(* and starts and any number of faults: asked for again it is recognised   *)
(* as the input it is, and it is refused only behind an operator's record; *)
(* and DurableRun keeps the promise of CommittedReply: each step of the    *)
(* engine, of its crashes and of its restarts gives one input its reply,   *)
(* releases a reply that was given, or is none of the adapter's business.  *)
(***************************************************************************)
EXTENDS DurableRunFolderProofs, FiniteSetTheorems, WellFoundedInduction

\* Where a log of its run has the input w: from the sequence w was saved with,
\* the log holds operator records up to w itself, and w not before it.
BehindRecords(g, w) ==
    /\ \A m \in 1..Len(g) : w.seq <= m => g[m].kind = "record" \/ \E p \in 1..m : g[p].id = w.id
    /\ \A m \in 1..Len(g) : g[m].id = w.id => w.seq <= m

\* The input waits with a sequence its run has reached.
MovedFacts ==
    waiting # None =>
        /\ waiting.seq >= 3
        /\ \A j \in 1..Len(Folder) : OfRun(Folder, j, waiting.run) => BehindRecords(Folder[j], waiting)
        /\ \E j \in 1..Len(Folder) : OfRun(Folder, j, waiting.run) /\ waiting.seq <= Len(Folder[j]) + 1

\* The sequence the guard remembers an input by is the one it was saved with.
SentFacts ==
    \A i \in Inputs : sent[i] # 0 =>
        i \in composed /\ (waiting # None /\ waiting.id = i => sent[i] = waiting.seq)

\* An input refused as out of sequence has an operator's record in its place.
RefusedFacts ==
    seen = "out-of-sequence" =>
        /\ waiting # None /\ ~poisoned
        /\ \E j \in 1..Len(Folder) :
              /\ OfRun(Folder, j, waiting.run) /\ waiting.seq \in 1..Len(Folder[j])
              /\ Folder[j][waiting.seq].kind = "record"

\* The adapter was told of an error when its call was abandoned.
AbandonedFacts == phase \in {"deciding", "decided"} /\ call.abandoned => seen = "error"

AdapterInv ==
    RunInv /\ MovedFacts /\ SentFacts /\ RefusedFacts /\ AbandonedFacts /\ NeverTakenForAnother

-----------------------------------------------------------------------------
\* What a log's beginning says of a log's place and opening, the log says.
LEMMA PlaceKept ==
    ASSUME RunInv, [Next]_vars, NEW k \in 1..Len(Folder), NEW s, OfRun(Folder, k, s)
    PROVE  /\ OfRun(Folder', k, s) /\ Len(Folder[k]) <= Len(Folder'[k])
           /\ Len(Folder[k]) \in Nat /\ Len(Folder'[k]) \in Nat
           /\ \A m \in 1..Len(Folder[k]) : m \in 1..Len(Folder'[k]) /\ Folder'[k][m] = Folder[k][m]
<1>1. /\ CommittedPrefixOf(Folder[k], Folder'[k])
      /\ Folder[k] \in Seq(Group) /\ Folder'[k] \in Seq(Group)
  BY FolderGrows
<1>2. OfRun(Folder', k, s)
  BY <1>1, PrefixOpens DEF OfRun
<1>3. Len(Folder[k]) \in Nat /\ Len(Folder'[k]) \in Nat
  BY <1>1, LenProperties
<1> QED
  BY <1>1, <1>2, <1>3 DEF CommittedPrefixOf

\* The group being written leaves the input behind records only: it is a
\* record, the input itself, a copy of what the run has there already, or one
\* of the two groups every run opens with.
LEMMA WritingPlace ==
    ASSUME RunInv, MovedFacts, waiting # None, waiting.run = start, NEW g \in Writing
    PROVE  BehindRecords(Append(LastGroups, g), waiting)
<1> DEFINE more == Append(LastGroups, g)
           size == Len(LastGroups)
<1>1. /\ g \in Group /\ phase # "down" /\ start \in Starts /\ mem = LastGroups
      /\ waiting.id \in Inputs /\ waiting.seq \in Nat /\ waiting.seq >= 3
  BY WritingFacts, WritingNext DEF RunInv, RecorderInv, TypeOK, Waiting, MovedFacts
<1>2. /\ LastGroups \in Seq(Group) /\ size \in Nat
      /\ Len(Folder) \in 1..Len(Folder) /\ LastGroups = Folder[Len(Folder)]
      /\ \A k \in 1..Len(Folder) : Folder[k] \in Seq(Group) /\ Len(Folder[k]) \in Nat
  BY <1>1, FolderFacts, LenProperties DEF RunInv
<1>3. /\ more \in Seq(Group) /\ Len(more) = size + 1 /\ more[size + 1] = g
      /\ \A m \in 1..size : more[m] = LastGroups[m]
      /\ \A m \in 1..(size + 1) : m \in 1..size \/ m = size + 1
      /\ size + 1 \in 1..(size + 1) /\ \A m \in 1..(size + 1) : 1..m \subseteq 1..(size + 1)
  BY <1>1, <1>2, AppendProperties
<1>4. BehindRecords(LastGroups, waiting)
  <2>1. CASE LastGroups = <<>>
    BY <2>1 DEF BehindRecords
  <2>2. CASE LastGroups # <<>>
    <3>1. OfRun(Folder, Len(Folder), start)
      BY <1>1, <1>2, <2>2 DEF RunInv, HeadFacts, OfRun
    <3> QED
      BY <1>2, <3>1 DEF MovedFacts
  <2> QED
    BY <2>1, <2>2
<1> HIDE DEF more, size
\* It is enough to know of the group itself.
<1>5. ASSUME waiting.seq <= size + 1 => g.kind = "record" \/ \E p \in 1..(size + 1) : more[p].id = waiting.id,
             g.id = waiting.id => waiting.seq <= size + 1
      PROVE  BehindRecords(more, waiting)
  <2>1. ASSUME NEW m \in 1..size, waiting.seq <= m
        PROVE  more[m].kind = "record" \/ \E p \in 1..m : more[p].id = waiting.id
    <3>1. LastGroups[m].kind = "record" \/ \E p \in 1..m : LastGroups[p].id = waiting.id
      BY <1>4, <2>1 DEF BehindRecords, size
    <3>2. \A p \in 1..m : p \in 1..size
      BY <1>2, <2>1 DEF size
    <3> QED
      BY <1>3, <3>1, <3>2
  <2>2. \A m \in 1..size : more[m].id = waiting.id => waiting.seq <= m
    BY <1>3, <1>4 DEF BehindRecords, size
  <2> QED
    BY <1>3, <1>5, <2>1, <2>2 DEF BehindRecords
<1>6. CASE phase = "copying"
  <2> DEFINE from == Folder[source]
  <2>1. source \in 1..Len(Folder) /\ OfRun(Folder, source, start) /\ CommittedPrefixOf(more, from)
    BY <1>6, WritingNext DEF more
  <2>2. BehindRecords(from, waiting)
    BY <2>1 DEF MovedFacts
  <2>3. /\ \A m \in 1..(size + 1) : m \in 1..Len(from) /\ more[m] = from[m]
    <3>1. Len(from) \in Nat /\ size \in Nat
      BY <1>2, <2>1 DEF size
    <3> HIDE DEF from
    <3> QED
      BY <1>3, <2>1, <3>1 DEF CommittedPrefixOf
  <2>4. g = from[size + 1] /\ size + 1 \in 1..Len(from)
    BY <1>3, <2>3
  <2> QED
    BY <1>3, <1>5, <2>2, <2>3, <2>4, SMTT(60) DEF BehindRecords, more
<1>7. CASE phase = "starting"
  <2>1. size + 1 < waiting.seq
    <3>1. Len(mem) < 2
      BY <1>7 DEF Writing
    <3> QED
      BY <1>1, <1>2, <3>1 DEF size
  <2>2. g.id = start
    BY <1>7 DEF Writing, Entry
  <2>3. g.id # waiting.id
    BY <1>1, <2>2, ConstantsAssumption
  <2> QED
    BY <1>1, <1>2, <1>5, <2>1, <2>3 DEF more, size
<1>8. CASE phase = "deciding"
  <2>1. waiting.seq <= size + 1
    <3>1. PICK j \in 1..Len(Folder) : OfRun(Folder, j, start) /\ waiting.seq <= Len(Folder[j]) + 1
      BY DEF MovedFacts
    <3>2. CommittedPrefixOf(Folder[j], LastGroups)
      BY <1>8, <3>1, ServingHead
    <3>3. Len(Folder[j]) \in Nat /\ Len(Folder[j]) <= size
      BY <1>2, <3>2 DEF CommittedPrefixOf, size
    <3> QED
      BY <1>1, <1>2, <3>1, <3>3 DEF size
  <2>2. \/ g = Entry("record", g.id)
        \/ g = Entry("input", call.id)
    BY <1>8 DEF Writing, Entry
  <2>3. call.id = waiting.id
    BY <1>8 DEF RunInv, ExchangeFacts
  <2>4. g.kind = "record" \/ g.id = waiting.id
    BY <2>2, <2>3 DEF Entry
  <2> QED
    BY <1>3, <1>5, <2>1, <2>4 DEF more
<1>9. phase \in {"copying", "starting", "deciding"}
  BY DEF Writing
<1> QED
  BY <1>6, <1>7, <1>8, <1>9 DEF more

\* While an input waits, no step of the folder takes its place from it but for
\* a record.
LEMMA WaitingPlaceKept ==
    ASSUME RunInv, MovedFacts, [Next]_vars, waiting' = waiting
    PROVE  MovedFacts'
<1> SUFFICES ASSUME waiting # None PROVE MovedFacts'
  BY DEF MovedFacts
<1>1. waiting.seq >= 3 /\ waiting.seq \in Nat
  BY DEF MovedFacts, RunInv, RecorderInv, TypeOK, Waiting
<1>2. \E j \in 1..Len(Folder') : OfRun(Folder', j, waiting.run) /\ waiting.seq <= Len(Folder'[j]) + 1
  <2>1. PICK j \in 1..Len(Folder) : OfRun(Folder, j, waiting.run) /\ waiting.seq <= Len(Folder[j]) + 1
    BY DEF MovedFacts
  <2>2. /\ OfRun(Folder', j, waiting.run) /\ Len(Folder[j]) <= Len(Folder'[j])
        /\ Len(Folder[j]) \in Nat /\ Len(Folder'[j]) \in Nat
    BY <2>1, PlaceKept
  <2>3. j \in 1..Len(Folder')
    BY FolderGrows
  <2> QED
    BY <1>1, <2>1, <2>2, <2>3
<1>3. \A j \in 1..Len(Folder') : OfRun(Folder', j, waiting.run) => BehindRecords(Folder'[j], waiting)
  <2>1. CASE Folder' = Folder
    BY <2>1 DEF MovedFacts
  <2>2. CASE /\ Len(Folder') = Len(Folder) + 1 /\ Folder'[Len(Folder) + 1] = <<>>
             /\ \A k \in 1..Len(Folder) : Folder'[k] = Folder[k]
    <3>1. Len(Folder) \in Nat
      BY FolderFacts DEF RunInv
    <3>2. \A j \in 1..Len(Folder') : j \in 1..Len(Folder) \/ j = Len(Folder) + 1
      BY <2>2, <3>1
    <3> QED
      BY <2>2, <3>2 DEF MovedFacts, OfRun
  <2>3. CASE \E g \in Writing : logs' = Extend(g)
    <3>1. PICK g \in Writing : logs' = Extend(g)
      BY <2>3
    <3>2. g \in Group /\ phase # "down" /\ RecorderInv
      BY WritingFacts DEF RunInv
    <3>3. /\ LastGroups = Folder[Len(Folder)] /\ Folder \in Folders
      BY <3>2, FolderFacts
    <3>4. Grown(Folder, Folder', g)
      BY <3>1, <3>2, ExtendGrows
    <3>5. /\ Len(Folder') = Len(Folder) /\ Len(Folder) \in 1..Len(Folder)
          /\ \A k \in 1..Len(Folder) : k # Len(Folder) => Folder'[k] = Folder[k]
          /\ Folder'[Len(Folder)] = Append(LastGroups, g)
      BY <3>2, <3>3, <3>4, GrownFacts
    <3>6. ASSUME OfRun(Folder', Len(Folder), waiting.run)
          PROVE  BehindRecords(Folder'[Len(Folder)], waiting)
      <4>1. Append(LastGroups, g)[1].id = start
        BY WritingNext
      <4>2. waiting.run = start
        BY <3>5, <3>6, <4>1 DEF OfRun
      <4> QED
        BY <3>5, <4>2, WritingPlace
    <3>7. \A j \in 1..Len(Folder) : j # Len(Folder) /\ OfRun(Folder', j, waiting.run) =>
              BehindRecords(Folder'[j], waiting)
      BY <3>5 DEF MovedFacts, OfRun
    <3> QED
      BY <3>5, <3>6, <3>7
  <2> QED
    BY <2>1, <2>2, <2>3, FolderStep
<1> QED
  BY <1>1, <1>2, <1>3 DEF MovedFacts

\* While its run is served and the guard is not poisoned, memory is the log
\* that has all the run's logs hold.
LEMMA AskedMemory ==
    ASSUME RunInv, MovedFacts, Asking, ~poisoned
    PROVE  /\ waiting \in Waiting /\ waiting.id \in Inputs /\ waiting.seq \in Nat
           /\ mem \in Seq(Group) /\ Len(mem) \in Nat /\ WellFormed(mem) /\ BehindRecords(mem, waiting)
           /\ waiting.seq <= Len(mem) + 1 /\ next = Len(mem) + 1
           /\ Len(Folder) \in 1..Len(Folder) /\ OfRun(Folder, Len(Folder), waiting.run)
           /\ Folder[Len(Folder)] = mem
<1>1. /\ phase = "serving" /\ waiting # None /\ waiting.run = start
      /\ waiting \in Waiting /\ waiting.id \in Inputs /\ waiting.seq \in Nat
  BY DEF Asking, RunInv, RecorderInv, TypeOK, Waiting
<1>2. /\ mem = LastGroups /\ mem \in Seq(Group) /\ Len(mem) \in Nat /\ mem # <<>> /\ next = Len(mem) + 1
      /\ Len(Folder) \in 1..Len(Folder) /\ Folder[Len(Folder)] = mem
      /\ \A k \in 1..Len(Folder) : Folder[k] \in Seq(Group) /\ Len(Folder[k]) \in Nat
  BY <1>1, FolderFacts, LenProperties DEF RunInv, RecorderInv, Running, PhaseFacts, HeadFacts
<1>3. OfRun(Folder, Len(Folder), waiting.run)
  BY <1>1, <1>2 DEF OfRun, RunInv, HeadFacts
<1>4. WellFormed(mem) /\ BehindRecords(mem, waiting)
  BY <1>1, <1>2, <1>3 DEF RunInv, FolderInv, MovedFacts
<1>5. waiting.seq <= Len(mem) + 1
  <2>1. PICK j \in 1..Len(Folder) : OfRun(Folder, j, start) /\ waiting.seq <= Len(Folder[j]) + 1
    BY <1>1 DEF MovedFacts
  <2>2. CommittedPrefixOf(Folder[j], LastGroups)
    BY <1>1, <2>1, ServingHead
  <2>3. Len(Folder[j]) \in Nat /\ Len(Folder[j]) <= Len(mem)
    BY <1>2, <2>2 DEF CommittedPrefixOf
  <2> QED
    BY <1>1, <1>2, <2>1, <2>3
<1> QED
  BY <1>1, <1>2, <1>3, <1>4, <1>5

\* sentWith allows for every record that moved the adapter's input.
LEMMA Recognised ==
    ASSUME RunInv, MovedFacts, SentFacts, Asking, ~poisoned, IsCommitted(waiting.id)
    PROVE  SentWith(waiting.id, waiting.seq)
<1> DEFINE i == waiting.id
           w == waiting.seq
           k == PositionOf(i)
           before == {j \in 1..(k - 1) : \A m \in j..(k - 1) : mem[m].kind = "record"}
<1>1. /\ i \in Inputs /\ w \in Nat /\ mem \in Seq(Group) /\ Len(mem) \in Nat
      /\ WellFormed(mem) /\ BehindRecords(mem, waiting)
  BY AskedMemory
<1>2. k \in 1..Len(mem) /\ mem[k].id = i
  BY <1>1, PositionFacts DEF IsCommitted
<1>3. mem[k].seq = k /\ w <= k
  BY <1>1, <1>2 DEF WellFormed, BehindRecords
<1>4. k > 2
  BY <1>1, <1>2, ConstantsAssumption DEF WellFormed
<1>5. sent[i] # 0 => sent[i] = w
  BY <1>1 DEF SentFacts, Asking
<1>6. sent[i] \in Nat
  BY <1>1 DEF RunInv, RecorderInv, TypeOK
<1> HIDE DEF k, w, i
<1>7. ASSUME NEW m \in w..(k - 1) PROVE mem[m].kind = "record"
  <2>1. m \in Nat /\ m < k /\ w <= m
    BY <1>1, <1>2, <1>7
  <2>2. w >= 3
    BY DEF Asking, MovedFacts, w
  <2>3. m \in 1..Len(mem) /\ \A p \in 1..m : p \in 1..Len(mem) /\ p < k
    BY <1>1, <1>2, <2>1, <2>2
  <2>4. mem[m].kind = "record" \/ \E p \in 1..m : mem[p].id = i
    BY <1>1, <2>1, <2>3 DEF BehindRecords, w, i
  <2>5. ASSUME NEW p \in 1..m PROVE mem[p].id # i
    <3>1. p \in 1..Len(mem) /\ p # k /\ ~(k <= 2)
      BY <1>1, <1>2, <1>4, <2>1, <2>3, <2>5
    <3> QED
      BY <1>1, <1>2, <3>1 DEF WellFormed
  <2> QED
    BY <2>4, <2>5
<1>8. w + MovedBy(k) >= k
  <2>1. w \in Int /\ k \in Int /\ k - 1 \in Int /\ 1 \in Int
    BY <1>1, <1>2
  <2>2. w..(k - 1) \subseteq before
    <3>1. w >= 3
      BY DEF Asking, MovedFacts, w
    <3>2. ASSUME NEW j \in w..(k - 1) PROVE j \in 1..(k - 1) /\ \A m \in j..(k - 1) : m \in w..(k - 1)
      BY <2>1, <3>1, <3>2
    <3> QED
      BY <1>7, <3>2
  <2>3. IsFiniteSet(1..(k - 1)) /\ before \subseteq 1..(k - 1)
    BY <2>1, FS_Interval
  <2>4. IsFiniteSet(before)
    BY <2>3, FS_Subset
  <2>5. IsFiniteSet(w..(k - 1)) /\ Cardinality(w..(k - 1)) = IF w > k - 1 THEN 0 ELSE (k - 1) - w + 1
    BY <2>1, FS_Interval
  <2>6. Cardinality(w..(k - 1)) <= Cardinality(before)
    BY <2>2, <2>4, FS_Subset
  <2>7. Cardinality(before) \in Nat
    BY <2>4, FS_CardinalityType
  <2>8. MovedBy(k) = Cardinality(before)
    BY DEF MovedBy
  <2> HIDE DEF before
  <2> QED
    BY <1>1, <1>2, <1>3, <2>1, <2>5, <2>6, <2>7, <2>8
<1>9. w = k \/ w < k
  BY <1>1, <1>2, <1>3
<1> QED
  BY <1>3, <1>5, <1>8, <1>9 DEF SentWith, i, w, k

\* A sequence refused is one a record took: the input is not committed, and
\* its run has recorded something at its sequence.
LEMMA RefusedBehindRecord ==
    ASSUME RunInv, MovedFacts, Asking, ~poisoned, ~IsCommitted(waiting.id), waiting.seq # next
    PROVE  waiting.seq \in 1..Len(mem) /\ mem[waiting.seq].kind = "record"
<1>1. /\ waiting.seq \in Nat /\ mem \in Seq(Group) /\ Len(mem) \in Nat
      /\ BehindRecords(mem, waiting) /\ waiting.seq <= Len(mem) + 1 /\ next = Len(mem) + 1
  BY AskedMemory
<1>2. waiting.seq >= 3
  BY DEF Asking, MovedFacts
<1>3. waiting.seq \in 1..Len(mem)
  BY <1>1, <1>2
<1>4. mem[waiting.seq].kind = "record" \/ \E p \in 1..waiting.seq : mem[p].id = waiting.id
  BY <1>1, <1>3 DEF BehindRecords
<1>5. \A p \in 1..waiting.seq : p \in DOMAIN mem
  BY <1>1, <1>3
<1> QED
  BY <1>3, <1>4, <1>5 DEF IsCommitted, IdsOf

-----------------------------------------------------------------------------
\* The adapter's saved input changes when it is answered or settled, and when
\* the next one is composed.
LEMMA WaitingStep ==
    ASSUME [Next]_vars
    PROVE  waiting' = waiting \/ waiting' = None \/ \E i \in Inputs : Compose(i)
  BY DEF Next, vars, adapterVars, StartFresh, StartResume, CreateLog, Quarantine, WriteHeader, CopyGroup,
      CopyDone, RecordStart, Listen, Crash, Stop, AskRefused, AskCommitted, Release, AskOutOfSequence, AskNew,
      DeliverRecord, WriteRecord, ApplyInput, DecideFails, Abandon, AbandonedEnds, Reply, SettleEndedRun

\* A new input is saved with the next sequence of the log being written.
LEMMA ComposedPlace ==
    ASSUME RunInv, NEW i \in Inputs, Compose(i)
    PROVE  MovedFacts'
<1>1. /\ phase = "serving" /\ logs' = logs /\ i \notin composed
      /\ waiting' = [id |-> i, run |-> start, seq |-> Len(LastGroups) + 1]
  BY DEF Compose, LastGroups
<1>2. waiting'.id = i /\ waiting'.run = start /\ waiting'.seq = Len(LastGroups) + 1
  BY <1>1
<1>3. Folder' = Folder
  BY <1>1, UnwrittenKeeps
<1>4. /\ LastGroups \in Seq(Group) /\ Len(LastGroups) \in Nat /\ LastGroups # <<>>
      /\ Len(mem) >= 2 /\ Len(mem) <= Len(LastGroups) /\ mem \in Seq(Group) /\ Len(mem) \in Nat
      /\ Len(Folder) \in 1..Len(Folder) /\ LastGroups = Folder[Len(Folder)]
      /\ \A k \in 1..Len(Folder) : Folder[k] \in Seq(Group) /\ Len(Folder[k]) \in Nat
  <2>1. /\ LastGroups \in Seq(Group) /\ mem \in Seq(Group) /\ Len(mem) >= 2 /\ CommittedPrefixOf(mem, LastGroups)
        /\ mem # <<>>
    BY <1>1, FolderFacts DEF RunInv, RecorderInv, Running, PhaseFacts, HeadFacts
  <2>2. LastGroups # <<>>
    BY <2>1, PrefixOpens
  <2>3. Len(mem) <= Len(LastGroups)
    BY <2>1 DEF CommittedPrefixOf
  <2> QED
    BY <1>1, <2>1, <2>2, <2>3, FolderFacts, LenProperties DEF RunInv
<1>5. OfRun(Folder, Len(Folder), start)
  BY <1>1, <1>4 DEF OfRun, RunInv, HeadFacts
<1>6. ASSUME NEW j \in 1..Len(Folder), OfRun(Folder, j, start)
      PROVE  BehindRecords(Folder[j], waiting')
  <2>1. Len(Folder[j]) <= Len(LastGroups)
    BY <1>1, <1>6, ServingHead DEF CommittedPrefixOf
  <2>2. \A m \in 1..Len(Folder[j]) : ~(waiting'.seq <= m)
    BY <1>2, <1>4, <2>1
  <2>3. \A m \in 1..Len(Folder[j]) : Folder[j][m].id # i
    <3>1. i \notin IdsOf(Folder[j])
      BY <1>1 DEF RunInv, WaitingFacts
    <3>2. DOMAIN Folder[j] = 1..Len(Folder[j])
      BY <1>4, LenProperties
    <3> QED
      BY <3>1, <3>2 DEF IdsOf
  <2> QED
    BY <1>2, <2>2, <2>3 DEF BehindRecords
<1>7. waiting'.seq >= 3
  BY <1>2, <1>4
<1>8. waiting'.seq <= Len(Folder[Len(Folder)]) + 1
  BY <1>2, <1>4
<1> QED
  BY <1>2, <1>3, <1>4, <1>5, <1>6, <1>7, <1>8 DEF MovedFacts

\* Every step keeps the waiting input's place.
LEMMA MovedStep ==
    ASSUME RunInv, MovedFacts, [Next]_vars
    PROVE  MovedFacts'
<1>1. CASE waiting' = waiting
  BY <1>1, WaitingPlaceKept
<1>2. CASE waiting' = None
  BY <1>2 DEF MovedFacts
<1>3. CASE \E i \in Inputs : Compose(i)
  BY <1>3, ComposedPlace
<1> QED
  BY <1>1, <1>2, <1>3, WaitingStep

\* The guard notes an input's sequence when it answers it, and a new process
\* has noted none.
LEMMA SentStep ==
    ASSUME RunInv, SentFacts, [Next]_vars
    PROVE  SentFacts'
<1>1. CASE Reply
  <2>1. /\ phase = "decided" /\ sent' = [sent EXCEPT ![call.id] = call.seq]
        /\ waiting' = waiting \/ waiting' = None
        /\ composed' = composed
    BY <1>1 DEF Reply, Release
  <2>2. call.id = waiting.id /\ call.seq = waiting.seq /\ waiting # None /\ waiting.id \in composed
    BY <2>1 DEF RunInv, ExchangeFacts, WaitingFacts
  <2>3. sent \in [Inputs -> Nat]
    BY DEF RunInv, RecorderInv, TypeOK
  <2> QED
    BY <2>1, <2>2, <2>3 DEF SentFacts
<1>2. CASE (\E s \in Starts : StartFresh(s)) \/ (\E k \in 1..Len(logs) : StartResume(k))
  <2>1. sent' = [i \in Inputs |-> 0]
    BY <1>2 DEF StartFresh, StartResume, CreateLog
  <2> QED
    BY <2>1 DEF SentFacts
<1>3. CASE \E i \in Inputs : Compose(i)
  BY <1>3 DEF Compose, SentFacts, guardVars
<1>4. CASE /\ ~Reply /\ ~\E i \in Inputs : Compose(i)
           /\ ~\E s \in Starts : StartFresh(s)
           /\ ~\E k \in 1..Len(logs) : StartResume(k)
  <2>1. sent' = sent /\ composed' = composed
    BY <1>4 DEF Next, vars, adapterVars, guardVars, Quarantine, WriteHeader, CopyGroup, CopyDone, RecordStart,
        Listen, Crash, Stop, AskRefused, AskCommitted, AskOutOfSequence, AskNew, DeliverRecord, WriteRecord,
        ApplyInput, DecideFails, Abandon, AbandonedEnds, SettleEndedRun
  <2>2. waiting' = waiting \/ waiting' = None
    BY <1>4, WaitingStep
  <2> QED
    BY <2>1, <2>2 DEF SentFacts
<1> QED
  BY <1>1, <1>2, <1>3, <1>4

\* An answer that stands is the answer to the input that still waits.
LEMMA SeenStep ==
    ASSUME AdapterInv, [Next]_vars
    PROVE  /\ AbandonedFacts'
           /\ seen' # "different"
           /\ seen' = "out-of-sequence" =>
                \/ AskOutOfSequence
                \/ seen = "out-of-sequence" /\ waiting' = waiting /\ (poisoned' => poisoned)
<1> USE DEF AdapterInv, NeverTakenForAnother, AbandonedFacts
<1>1. CASE UNCHANGED vars
  BY <1>1 DEF vars, adapterVars, guardVars
<1>2. CASE \/ \E s \in Starts : StartFresh(s)
           \/ \E k \in 1..Len(logs) : StartResume(k) \/ Quarantine(k)
  BY <1>2 DEF StartFresh, StartResume, CreateLog, Quarantine, adapterVars, guardVars
<1>3. CASE WriteHeader \/ CopyGroup \/ CopyDone \/ RecordStart \/ Listen
  BY <1>3 DEF WriteHeader, CopyGroup, CopyDone, RecordStart, Listen, adapterVars, guardVars
<1>4. CASE Crash \/ Stop
  BY <1>4 DEF Crash, Stop, adapterVars, guardVars
<1>5. CASE AskRefused \/ AskOutOfSequence
  BY <1>5 DEF AskRefused, AskOutOfSequence, Asking, guardVars
<1>6. CASE AskCommitted
  <2>1. SentWith(waiting.id, waiting.seq)
    BY <1>6, Recognised DEF AskCommitted
  <2>2. phase' = phase /\ phase = "serving" /\ poisoned' = poisoned
    BY <1>6 DEF AskCommitted, Asking, guardVars
  <2>3. (waiting' = None /\ seen' = "reply") \/ (waiting' = waiting /\ seen' = seen)
    BY <1>6, <2>1 DEF AskCommitted, Release
  <2> QED
    BY <2>2, <2>3
<1>7. CASE AskNew
  BY <1>7 DEF AskNew, adapterVars
<1>8. CASE (\E r \in Records : DeliverRecord(r)) \/ ApplyInput
  BY <1>8 DEF DeliverRecord, ApplyInput, adapterVars, guardVars
<1>9. CASE DecideFails \/ Abandon \/ AbandonedEnds
  BY <1>9 DEF DecideFails, Abandon, AbandonedEnds, adapterVars
<1>10. CASE Reply
  BY <1>10 DEF Reply, Release
<1>11. CASE (\E i \in Inputs : Compose(i)) \/ SettleEndedRun
  BY <1>11 DEF Compose, SettleEndedRun, guardVars
<1>12. CASE \E r \in Records : WriteRecord(r)
  BY <1>12 DEF WriteRecord, adapterVars, guardVars
<1> QED
  BY <1>1, <1>2, <1>3, <1>4, <1>5, <1>6, <1>7, <1>8, <1>9, <1>10, <1>11, <1>12 DEF Next

\* A refusal stands behind a record that stays where it is.
LEMMA RefusedStep ==
    ASSUME AdapterInv, [Next]_vars
    PROVE  RefusedFacts'
<1> SUFFICES ASSUME seen' = "out-of-sequence" PROVE RefusedFacts'
  BY DEF RefusedFacts
<1>1. ASSUME NEW j \in 1..Len(Folder), OfRun(Folder, j, waiting.run), waiting.seq \in 1..Len(Folder[j]),
             Folder[j][waiting.seq].kind = "record"
      PROVE  /\ j \in 1..Len(Folder') /\ OfRun(Folder', j, waiting.run)
             /\ waiting.seq \in 1..Len(Folder'[j]) /\ Folder'[j][waiting.seq].kind = "record"
  <2>1. j \in 1..Len(Folder')
    BY FolderGrows DEF AdapterInv
  <2> QED
    BY <1>1, <2>1, PlaceKept DEF AdapterInv
<1>2. CASE AskOutOfSequence
  <2>1. /\ Asking /\ ~poisoned /\ ~IsCommitted(waiting.id) /\ waiting.seq # next
        /\ waiting' = waiting /\ poisoned' = poisoned /\ waiting # None
    BY <1>2 DEF AskOutOfSequence, Asking, guardVars
  <2>2. waiting.seq \in 1..Len(mem) /\ mem[waiting.seq].kind = "record"
    BY <2>1, RefusedBehindRecord DEF AdapterInv
  <2>3. /\ Len(Folder) \in 1..Len(Folder) /\ OfRun(Folder, Len(Folder), waiting.run)
        /\ Folder[Len(Folder)] = mem
    BY <2>1, AskedMemory DEF AdapterInv
  <2> QED
    BY <1>1, <2>1, <2>2, <2>3 DEF RefusedFacts
<1>3. CASE seen = "out-of-sequence" /\ waiting' = waiting /\ (poisoned' => poisoned)
  <2>1. waiting # None /\ ~poisoned
    BY <1>3 DEF AdapterInv, RefusedFacts
  <2>2. PICK j \in 1..Len(Folder) :
            /\ OfRun(Folder, j, waiting.run) /\ waiting.seq \in 1..Len(Folder[j])
            /\ Folder[j][waiting.seq].kind = "record"
    BY <1>3 DEF AdapterInv, RefusedFacts
  <2> QED
    BY <1>1, <1>3, <2>1, <2>2 DEF RefusedFacts
<1> QED
  BY <1>2, <1>3, SeenStep

\* The adapter's invariant holds in every reachable state.
LEMMA AdapterAlways == Spec => []AdapterInv
<1>1. Init => AdapterInv
  <2> SUFFICES ASSUME Init PROVE AdapterInv
    OBVIOUS
  <2>1. RunInv
    BY InitRuns
  <2> QED
    BY <2>1 DEF Init, AdapterInv, MovedFacts, SentFacts, RefusedFacts, AbandonedFacts, NeverTakenForAnother
<1>2. AdapterInv /\ [Next]_vars => AdapterInv'
  BY RunStep, MovedStep, SentStep, SeenStep, RefusedStep DEF AdapterInv, NeverTakenForAnother
<1> QED
  BY <1>1, <1>2, PTL DEF Spec

\* The adapter's own input, asked for again after any crashes, moves behind
\* records and restarts, is never taken for another input under its ID.
THEOREM NeverMistaken == Spec => []NeverTakenForAnother
<1>1. AdapterInv => NeverTakenForAnother
  BY DEF AdapterInv
<1> QED
  BY <1>1, AdapterAlways, PTL

\* The adapter's input is refused as out of sequence only when an operator
\* record took the sequence it was saved with.
THEOREM RefusedBehindRecords == Spec => []RefusedOnlyBehindRecord
<1>1. ASSUME AdapterInv PROVE RefusedOnlyBehindRecord
  <2> SUFFICES ASSUME seen = "out-of-sequence", waiting.run = start, phase = "serving"
               PROVE  waiting.seq \in DOMAIN mem /\ mem[waiting.seq].kind = "record"
    BY DEF RefusedOnlyBehindRecord
  <2>1. RunInv /\ ~poisoned
    BY <1>1 DEF AdapterInv, RefusedFacts
  <2>2. PICK j \in 1..Len(Folder) :
            /\ OfRun(Folder, j, start) /\ waiting.seq \in 1..Len(Folder[j])
            /\ Folder[j][waiting.seq].kind = "record"
    BY <1>1 DEF AdapterInv, RefusedFacts
  <2>3. CommittedPrefixOf(Folder[j], LastGroups)
    BY <2>1, <2>2, ServingHead
  <2>4. /\ mem = LastGroups /\ mem \in Seq(Group) /\ Folder[j] \in Seq(Group)
        /\ DOMAIN mem = 1..Len(mem) /\ Len(mem) \in Nat /\ Len(Folder[j]) \in Nat
    BY <2>1, FolderFacts, LenProperties DEF RunInv, RecorderInv, Running
  <2> QED
    BY <2>2, <2>3, <2>4 DEF CommittedPrefixOf
<1> QED
  BY <1>1, AdapterAlways, PTL

-----------------------------------------------------------------------------
(***************************************************************************)
(* The reply a folder of logs gives an input.                              *)
(***************************************************************************)
\* A folder that holds an input has an oldest log holding it.
LEMMA OldestHolds ==
    ASSUME NEW l \in Seq(File), NEW i, \E k \in 1..Len(l) : i \in IdsOf(l[k].groups)
    PROVE  /\ FirstLogOf(l, i) \in 1..Len(l)
           /\ i \in IdsOf(l[FirstLogOf(l, i)].groups)
<1> DEFINE holding == {k \in 1..Len(l) : i \in IdsOf(l[k].groups)}
           less == OpToRel(<, Nat)
<1>1. Len(l) \in Nat /\ holding \subseteq Nat /\ holding # {}
  OBVIOUS
<1>2. IsWellFoundedOn(less, Nat)
  BY NatLessThanWellFounded
<1>3. \A x, y \in Nat : x < y => <<x, y>> \in less
  BY DEF OpToRel
<1> HIDE DEF less
<1>4. PICK k \in holding : \A j \in holding : ~(<<j, k>> \in less)
  BY <1>1, <1>2, WFMin
<1>5. k \in 1..Len(l) /\ i \in IdsOf(l[k].groups)
  OBVIOUS
<1>6. ASSUME NEW j \in 1..(k - 1) PROVE i \notin IdsOf(l[j].groups)
  <2>1. j \in 1..Len(l) /\ j \in Nat /\ k \in Nat /\ j < k
    BY <1>1, <1>5, <1>6
  <2> QED
    BY <1>3, <1>4, <2>1
<1> QED
  BY <1>5, <1>6 DEF FirstLogOf

\* A folder gives an input the groups up to its own, or none.
LEMMA ReplyInFacts ==
    ASSUME NEW l \in Seq(File), NEW f, f = [k \in 1..Len(l) |-> l[k].groups], NEW i
    PROVE  /\ (\E k \in 1..Len(f) : i \in IdsOf(f[k])) => GivenIn(f, i, ReplyIn(l, i))
           /\ ~(\E k \in 1..Len(f) : i \in IdsOf(f[k])) => ReplyIn(l, i) = <<>>
<1>1. /\ Len(f) = Len(l)
      /\ \A k \in 1..Len(l) : f[k] = l[k].groups /\ l[k].groups \in Seq(Group)
  BY FolderOfFiles
<1>2. ASSUME \E k \in 1..Len(f) : i \in IdsOf(f[k]) PROVE GivenIn(f, i, ReplyIn(l, i))
  <2>1. \E k \in 1..Len(l) : i \in IdsOf(l[k].groups)
    BY <1>1, <1>2
  <2> DEFINE k == FirstLogOf(l, i)
             g == l[k].groups
             n == CHOOSE m \in 1..Len(g) : g[m].id = i
             r == SubSeq(g, 1, n)
  <2>2. k \in 1..Len(l) /\ i \in IdsOf(g) /\ g \in Seq(Group) /\ f[k] = g
    BY <1>1, <2>1, OldestHolds
  <2>3. ReplyIn(l, i) = r
    BY <2>1 DEF ReplyIn
  <2> HIDE DEF k, g
  <2>4. \E m \in 1..Len(g) : g[m].id = i
    BY <2>2 DEF IdsOf
  <2>5. n \in 1..Len(g) /\ g[n].id = i
    BY <2>4
  <2> HIDE DEF n
  <2>6. \A m \in 1..n : g[m] \in Group
    BY <2>2, <2>5, ElementOfSeq
  <2>7. r \in Seq(Group) /\ Len(r) = n /\ \A m \in 1..n : r[m] = g[m]
    BY <2>2, <2>5, <2>6, SubSeqProperties
  <2> HIDE DEF r
  <2>8. Len(g) \in Nat /\ n \in Nat /\ n <= Len(g) /\ n \in 1..n
    BY <2>2, <2>5
  <2>9. CommittedPrefixOf(r, f[k])
    BY <2>2, <2>7, <2>8 DEF CommittedPrefixOf
  <2> QED
    BY <1>1, <2>2, <2>3, <2>5, <2>7, <2>8, <2>9 DEF GivenIn
<1>3. ASSUME ~\E k \in 1..Len(f) : i \in IdsOf(f[k]) PROVE ReplyIn(l, i) = <<>>
  BY <1>1, <1>3 DEF ReplyIn
<1> QED
  BY <1>2, <1>3

-----------------------------------------------------------------------------
(***************************************************************************)
(* Every step is a step of the promise.                                    *)
(***************************************************************************)
\* Some log of the folder holds the input.
HeldIn(f, i) == \E k \in 1..Len(f) : i \in IdsOf(f[k])

\* A reply given is given for good.
LEMMA ReplyKept ==
    ASSUME RunInv, [Next]_vars, NEW i \in Inputs
    PROVE  /\ HeldIn(Folder, i) => ReplyIn(logs', i) = ReplyIn(logs, i) /\ ReplyIn(logs, i) # <<>>
           /\ ~HeldIn(Folder, i) => ReplyIn(logs, i) = <<>>
           /\ HeldIn(Folder', i) => ReplyIn(logs', i) # <<>>
           /\ ~HeldIn(Folder', i) => ReplyIn(logs', i) = <<>>
<1>1. RunInv'
  BY RunStep
<1>2. logs \in Seq(File) /\ logs' \in Seq(File) /\ FolderInv(Folder')
  BY <1>1 DEF RunInv, RecorderInv, TypeOK
<1>3. /\ HeldIn(Folder, i) => GivenIn(Folder, i, ReplyIn(logs, i))
      /\ ~HeldIn(Folder, i) => ReplyIn(logs, i) = <<>>
  BY <1>2, ReplyInFacts DEF HeldIn, Folder
<1>4. /\ HeldIn(Folder', i) => GivenIn(Folder', i, ReplyIn(logs', i))
      /\ ~HeldIn(Folder', i) => ReplyIn(logs', i) = <<>>
  BY <1>2, ReplyInFacts DEF HeldIn, Folder
<1>5. ASSUME NEW a, a = <<>> PROVE ~(Len(a) \in 1..Len(a))
  BY <1>5
<1>6. ASSUME HeldIn(Folder, i) PROVE ReplyIn(logs', i) = ReplyIn(logs, i)
  <2>1. GivenIn(Folder', i, ReplyIn(logs, i))
    <3>1. PICK k \in 1..Len(Folder) : CommittedPrefixOf(ReplyIn(logs, i), Folder[k])
      BY <1>3, <1>6 DEF GivenIn
    <3>2. /\ k \in 1..Len(Folder') /\ CommittedPrefixOf(Folder[k], Folder'[k])
          /\ Folder[k] \in Seq(Group) /\ Folder'[k] \in Seq(Group)
      BY FolderGrows
    <3>3. ReplyIn(logs, i) \in Seq(Group)
      BY <1>3, <1>6 DEF GivenIn
    <3>4. CommittedPrefixOf(ReplyIn(logs, i), Folder'[k])
      BY <3>1, <3>2, <3>3, PrefixTransitive
    <3> QED
      BY <1>3, <1>6, <3>2, <3>4 DEF GivenIn
  <2>2. HeldIn(Folder', i)
    <3>1. PICK k \in 1..Len(Folder) : i \in IdsOf(Folder[k])
      BY <1>6 DEF HeldIn
    <3>2. /\ k \in 1..Len(Folder') /\ CommittedPrefixOf(Folder[k], Folder'[k])
          /\ Folder[k] \in Seq(Group) /\ Folder'[k] \in Seq(Group)
      BY FolderGrows
    <3> QED
      BY <3>1, <3>2, PrefixIds DEF HeldIn
  <2> QED
    BY <1>2, <1>4, <2>1, <2>2, RepliesAgree
<1> QED
  BY <1>3, <1>4, <1>5, <1>6 DEF GivenIn

\* A step has at most one input more held, the one whose group it writes.
LEMMA NewlyHeld ==
    ASSUME RunInv, [Next]_vars, NEW i \in Inputs, ~HeldIn(Folder, i), HeldIn(Folder', i)
    PROVE  /\ told' = told
           /\ \A j \in Inputs : j # i => (HeldIn(Folder', j) => HeldIn(Folder, j))
<1>1. PICK g \in Writing : logs' = Extend(g)
  <2>1. ~(Folder' = Folder)
    OBVIOUS
  <2>2. ~(/\ Len(Folder') = Len(Folder) + 1 /\ Folder'[Len(Folder) + 1] = <<>>
          /\ \A k \in 1..Len(Folder) : Folder'[k] = Folder[k])
    <3>1. SUFFICES ASSUME Len(Folder') = Len(Folder) + 1, Folder'[Len(Folder) + 1] = <<>>,
                          \A k \in 1..Len(Folder) : Folder'[k] = Folder[k]
                   PROVE  FALSE
      OBVIOUS
    <3>2. Len(Folder) \in Nat
      BY FolderFacts DEF RunInv
    <3>3. \A k \in 1..Len(Folder') : k \in 1..Len(Folder) \/ k = Len(Folder) + 1
      BY <3>1, <3>2
    <3>4. IdsOf(<<>>) = {}
      BY DEF IdsOf
    <3> QED
      BY <3>1, <3>3, <3>4 DEF HeldIn
  <2> QED
    BY <2>1, <2>2, FolderStep
<1>2. /\ Len(Folder') = Len(Folder)
      /\ \A k \in 1..Len(Folder) : IdsOf(Folder'[k]) \subseteq IdsOf(Folder[k]) \cup {g.id}
  BY <1>1, WrittenKeeps
<1>3. g.id = i
  BY <1>2 DEF HeldIn
<1>4. \A j \in Inputs : j # i => (HeldIn(Folder', j) => HeldIn(Folder, j))
  BY <1>2, <1>3 DEF HeldIn
<1>5. logs' # logs
  BY DEF Folder
<1> QED
  BY <1>4, <1>5, ToldStep DEF RunInv

\* What a serving process releases is the reply the folder gives.
LEMMA ReleasedIsGiven ==
    ASSUME RunInv, NEW i \in Inputs, i \in IdsOf(mem), phase # "down"
    PROVE  ReplyTo(i).groups = ReplyIn(logs, i) /\ HeldIn(Folder, i)
<1>1. /\ mem \in Seq(Group) /\ LastGroups \in Seq(Group) /\ CommittedPrefixOf(mem, LastGroups)
      /\ Len(Folder) \in 1..Len(Folder) /\ LastGroups = Folder[Len(Folder)]
  BY FolderFacts DEF RunInv, RecorderInv, Running
<1>2. HeldIn(Folder, i)
  BY <1>1, PrefixIds DEF HeldIn
<1>3. GivenIn(Folder, i, ReplyIn(logs, i))
  BY <1>2, ReplyInFacts DEF HeldIn, Folder, RunInv, RecorderInv, TypeOK
<1>4. GivenIn(Folder, i, ReplyTo(i).groups)
  <2>1. /\ ReplyTo(i).groups # <<>>
        /\ ReplyTo(i).groups[Len(ReplyTo(i).groups)].id = ReplyTo(i).id /\ ReplyTo(i).id = i
    BY ReplyShaped DEF ReplyTo
  <2>2. ReplyTo(i) \in Told /\ CommittedPrefixOf(ReplyTo(i).groups, mem)
    BY <1>1, ReplyFacts DEF RunInv, RecorderInv, Running
  <2>3. ReplyTo(i).groups \in Seq(Group)
    BY <2>2 DEF Told
  <2>4. Len(ReplyTo(i).groups) \in 1..Len(ReplyTo(i).groups)
    BY <2>1, <2>3, EmptySeq
  <2>5. CommittedPrefixOf(ReplyTo(i).groups, Folder[Len(Folder)])
    BY <1>1, <2>2, <2>3, PrefixTransitive
  <2> QED
    BY <1>1, <2>1, <2>3, <2>4, <2>5 DEF GivenIn
<1> QED
  BY <1>2, <1>3, <1>4, RepliesAgree DEF RunInv

\* The state of the promise: the replies given and the replies released.
Given    == [i \in Inputs |-> ReplyIn(logs, i)]
Released == {<<t.id, t.groups>> : t \in told}

\* Before any start nothing is given and nothing released.
LEMMA PromiseInit == Init => Promise!Init
<1> SUFFICES ASSUME Init PROVE Promise!Init
  OBVIOUS
<1>1. RunInv /\ logs = <<>> /\ told = {}
  BY InitRuns DEF Init
<1>2. Len(Folder) = 0
  BY <1>1, FolderFacts, EmptySeq DEF RunInv
<1>3. ASSUME NEW i \in Inputs PROVE ReplyIn(logs, i) = <<>>
  <2>1. logs \in Seq(File) /\ ~HeldIn(Folder, i)
    BY <1>1, <1>2 DEF HeldIn, RunInv, RecorderInv, TypeOK
  <2> QED
    BY <2>1, ReplyInFacts DEF HeldIn, Folder
<1> QED
  BY <1>1, <1>3 DEF Promise!Init

\* A step commits one input's reply, releases a reply that is committed, or
\* leaves both the replies given and the replies released as they are.
LEMMA PromiseStep ==
    ASSUME RunInv, [Next]_vars
    PROVE  [Promise!Next]_<<Given, Released>>
<1>1. \A i \in Inputs : Given[i] = ReplyIn(logs, i) /\ Given'[i] = ReplyIn(logs', i)
  BY DEF Given
<1>2. CASE \E i \in Inputs : ~HeldIn(Folder, i) /\ HeldIn(Folder', i)
  <2>1. PICK i \in Inputs : ~HeldIn(Folder, i) /\ HeldIn(Folder', i)
    BY <1>2
  <2>2. told' = told /\ \A j \in Inputs : j # i => (HeldIn(Folder', j) => HeldIn(Folder, j))
    BY <2>1, NewlyHeld
  <2>3. ReplyIn(logs, i) = <<>> /\ ReplyIn(logs', i) # <<>>
    BY <2>1, ReplyKept
  <2>4. \A j \in Inputs : j # i => ReplyIn(logs', j) = ReplyIn(logs, j)
    BY <2>2, ReplyKept
  <2>5. Given' = [Given EXCEPT ![i] = Given'[i]]
    BY <1>1, <2>4 DEF Given
  <2>6. Promise!Commit(i)
    BY <1>1, <2>2, <2>3, <2>5 DEF Promise!Commit, Given
  <2> QED
    BY <2>6 DEF Promise!Next
<1>3. CASE ~\E i \in Inputs : ~HeldIn(Folder, i) /\ HeldIn(Folder', i)
  <2>1. \A j \in Inputs : ReplyIn(logs', j) = ReplyIn(logs, j)
    BY <1>3, ReplyKept
  <2>2. Given' = Given
    BY <1>1, <2>1 DEF Given
  <2>3. CASE told' = told
    BY <2>2, <2>3 DEF Released
  <2>4. CASE \E i \in Inputs : i \in IdsOf(mem) /\ phase # "down" /\ told' = told \cup {ReplyTo(i)}
    <3>1. PICK i \in Inputs : i \in IdsOf(mem) /\ phase # "down" /\ told' = told \cup {ReplyTo(i)}
      BY <2>4
    <3>2. ReplyTo(i).groups = ReplyIn(logs, i) /\ ReplyIn(logs, i) # <<>> /\ ReplyTo(i).id = i
      BY <3>1, ReleasedIsGiven, ReplyKept DEF ReplyTo
    <3>3. Released' = Released \cup {<<i, ReplyIn(logs, i)>>}
      BY <3>1, <3>2 DEF Released
    <3>4. Promise!Deliver(i)
      BY <1>1, <2>2, <3>2, <3>3 DEF Promise!Deliver, Given, Released
    <3> QED
      BY <3>4 DEF Promise!Next
  <2> QED
    BY <2>3, <2>4, ToldStep DEF RunInv
<1> QED
  BY <1>2, <1>3

\* The engine, its folder of logs and the wire implement CommittedReply: a
\* commit gives an input its reply once and for all, and asking again, across
\* any crash and resume, releases that reply.
THEOREM PromiseKept == Spec => KeepsPromise
<1>1. Init => Promise!Init
  BY PromiseInit
<1>2. RunInv /\ [Next]_vars => [Promise!Next]_<<Given, Released>>
  BY PromiseStep
<1> QED
  BY <1>1, <1>2, RunAlways, PTL DEF Spec, KeepsPromise, Promise!Spec, Given, Released
=============================================================================
