----------------------- MODULE DurableRunFolderProofs -----------------------
(***************************************************************************)
(* Proofs about the folder of logs of DurableRun, for any inputs, records, *)
(* starts and any number of faults: the logs of one run are prefixes of    *)
(* one another however often a resume was abandoned, a log misses no       *)
(* sequence and repeats no input, and an input or an operator's record is  *)
(* of one run.                                                             *)
(***************************************************************************)
EXTENDS DurableRunProofs

\* What the folder holds, its headers and quarantine left aside.
Folder  == [k \in 1..Len(logs) |-> logs[k].groups]
Folders == Seq(Seq(Group))

\* Log k was opened by the start s.
OfRun(f, k, s) == f[k] # <<>> /\ f[k][1].id = s

\* A log counts up from 1, opens with the configuration and the approval of
\* its start, and holds each input and each record once.
WellFormed(g) ==
    /\ \A n \in 1..Len(g) :
        /\ g[n].seq = n
        /\ g[n].kind = "config" <=> n = 1
        /\ g[n].kind = "approval" <=> n = 2
        /\ n <= 2 => g[n].id \in Starts
        /\ g[n].kind = "input" => g[n].id \in Inputs
        /\ g[n].kind = "record" => g[n].id \in Records
    /\ \A m, n \in 1..Len(g) : g[m].id = g[n].id => m = n \/ (m <= 2 /\ n <= 2)

\* Of two logs of a run, one continues the other.
Comparable(f) ==
    \A j, k \in 1..Len(f) : \A s \in Starts :
        OfRun(f, j, s) /\ OfRun(f, k, s) =>
            CommittedPrefixOf(f[j], f[k]) \/ CommittedPrefixOf(f[k], f[j])

\* Log k holds something no older log does: what restart.Classify asks of a run.
Original(f, k) ==
    f[k] # <<>> /\ \A j \in 1..(k - 1) : ~CommittedPrefixOf(f[k], f[j])

\* Every log is continued by one that is a run, so that nothing the folder
\* holds is out of a resume's reach.
Covered(f) ==
    \A j \in 1..Len(f) : f[j] # <<>> =>
        \E k \in 1..Len(f) : Original(f, k) /\ CommittedPrefixOf(f[j], f[k])

\* An input and a record are in the logs of one run only.
OneRunPerId(f) ==
    \A j, k \in 1..Len(f) : \A x \in Inputs \cup Records :
        x \in IdsOf(f[j]) /\ x \in IdsOf(f[k]) => f[j][1].id = f[k][1].id

FolderInv(f) ==
    /\ f \in Folders
    /\ \A k \in 1..Len(f) : WellFormed(f[k])
    /\ Comparable(f) /\ Covered(f) /\ OneRunPerId(f)

\* Folder h is folder f with g recorded in its newest log.
Grown(f, h, g) ==
    /\ h \in Folders /\ Len(h) = Len(f) /\ f # <<>>
    /\ \A k \in 1..Len(f) : h[k] = IF k = Len(f) THEN Append(f[k], g) ELSE f[k]

-----------------------------------------------------------------------------
(***************************************************************************)
(* Facts about logs and folders.                                           *)
(***************************************************************************)
\* Two prefixes of a log are prefixes of one another.
LEMMA PrefixesComparable ==
    ASSUME NEW a \in Seq(Group), NEW b \in Seq(Group), NEW c \in Seq(Group),
           CommittedPrefixOf(a, c), CommittedPrefixOf(b, c)
    PROVE  CommittedPrefixOf(a, b) \/ CommittedPrefixOf(b, a)
  BY DEF CommittedPrefixOf

\* A log that is not empty and its prefixes open with the same group.
LEMMA PrefixOpens ==
    ASSUME NEW a \in Seq(Group), NEW b \in Seq(Group), CommittedPrefixOf(a, b), a # <<>>
    PROVE  b # <<>> /\ a[1] = b[1]
  BY EmptySeq DEF CommittedPrefixOf

\* What a prefix records, the log records.
LEMMA PrefixIds ==
    ASSUME NEW a \in Seq(Group), NEW b \in Seq(Group), CommittedPrefixOf(a, b)
    PROVE  IdsOf(a) \subseteq IdsOf(b)
<1>1. DOMAIN a = 1..Len(a) /\ DOMAIN b = 1..Len(b) /\ Len(a) \in Nat /\ Len(b) \in Nat
  BY LenProperties
<1>2. ASSUME NEW k \in DOMAIN a PROVE k \in DOMAIN b /\ a[k] = b[k]
  BY <1>1 DEF CommittedPrefixOf
<1> QED
  BY <1>2 DEF IdsOf

\* A prefix of a well-formed log is well-formed.
LEMMA WellFormedPrefix ==
    ASSUME NEW a \in Seq(Group), NEW b \in Seq(Group), CommittedPrefixOf(a, b), WellFormed(b)
    PROVE  WellFormed(a)
<1>1. Len(a) \in Nat /\ Len(b) \in Nat /\ Len(a) <= Len(b)
      /\ \A n \in 1..Len(a) : n \in 1..Len(b) /\ a[n] = b[n]
  BY LenProperties DEF CommittedPrefixOf
<1> QED
  BY <1>1 DEF WellFormed

\* A log stays well-formed when the group of its next sequence is recorded.
LEMMA WellFormedAppend ==
    ASSUME NEW a \in Seq(Group), NEW g \in Group, WellFormed(a),
           NEW size \in Nat, size = Len(a), g.seq = size + 1,
           g.kind = "config" <=> size = 0, g.kind = "approval" <=> size = 1,
           size < 2 => g.id \in Starts,
           size >= 2 => g.id \notin IdsOf(a),
           g.kind = "input" => g.id \in Inputs, g.kind = "record" => g.id \in Records
    PROVE  WellFormed(Append(a, g))
<1> DEFINE b == Append(a, g)
<1>1. /\ Len(a) \in Nat /\ Len(b) = Len(a) + 1 /\ b[Len(a) + 1] = g
      /\ \A n \in 1..Len(a) : b[n] = a[n]
      /\ DOMAIN a = 1..Len(a)
  BY LenProperties, AppendProperties
<1>2. \A n \in 1..Len(b) : n \in 1..Len(a) \/ n = Len(a) + 1
  BY <1>1
<1> HIDE DEF b
<1>3. \A n \in 1..Len(a) : a[n].id = g.id => Len(a) < 2
  BY <1>1 DEF IdsOf
<1>4. \A n \in 1..Len(b) :
        /\ b[n].seq = n
        /\ b[n].kind = "config" <=> n = 1
        /\ b[n].kind = "approval" <=> n = 2
        /\ n <= 2 => b[n].id \in Starts
        /\ b[n].kind = "input" => b[n].id \in Inputs
        /\ b[n].kind = "record" => b[n].id \in Records
  BY <1>1, <1>2 DEF WellFormed
<1>5. \A m, n \in 1..Len(b) : b[m].id = b[n].id => m = n \/ (m <= 2 /\ n <= 2)
  BY <1>1, <1>2, <1>3 DEF WellFormed
<1> QED
  BY <1>4, <1>5 DEF WellFormed, b

\* The logs of a folder are logs, and its newest one grows by the group.
LEMMA GrownFacts ==
    ASSUME NEW f \in Folders, NEW h, NEW g \in Group, Grown(f, h, g)
    PROVE  /\ Len(f) \in 1..Len(f) /\ Len(h) = Len(f)
           /\ \A k \in 1..Len(f) : f[k] \in Seq(Group) /\ h[k] \in Seq(Group)
           /\ \A k \in 1..Len(f) : k # Len(f) => h[k] = f[k]
           /\ h[Len(f)] = Append(f[Len(f)], g) /\ h[Len(f)] # <<>>
           /\ CommittedPrefixOf(f[Len(f)], h[Len(f)])
           /\ f[Len(f)] # <<>> => f[Len(f)][1] = h[Len(f)][1]
<1> DEFINE n == Len(f)
<1>1. n \in 1..n
  BY EmptySeq DEF Grown, Folders
<1>2. \A k \in 1..n : f[k] \in Seq(Group) /\ h[k] \in Seq(Group)
  BY ElementOfSeq DEF Grown, Folders
<1>3. h[n] = Append(f[n], g)
  BY <1>1 DEF Grown
<1>4. CommittedPrefixOf(f[n], h[n])
  BY <1>1, <1>2, <1>3, PrefixReflexive, PrefixAppend
<1>5. h[n] # <<>>
  BY <1>1, <1>2, <1>3
<1>6. f[n] # <<>> => f[n][1] = h[n][1]
  BY <1>1, <1>2, <1>4, PrefixOpens
<1> QED
  BY <1>1, <1>2, <1>3, <1>4, <1>5, <1>6 DEF Grown

\* The groups a log may gain: the next of its own run, whose input or record
\* no other run holds.
LEMMA GrownKeeps ==
    ASSUME NEW f, NEW h, NEW g \in Group, NEW s \in Starts, NEW top \in Seq(Group),
           FolderInv(f), Grown(f, h, g),
           WellFormed(h[Len(f)]), h[Len(f)][1].id = s,
           \A k \in 1..Len(f) : k # Len(f) /\ OfRun(f, k, s) => CommittedPrefixOf(f[k], top),
           CommittedPrefixOf(h[Len(f)], top) \/ CommittedPrefixOf(top, h[Len(f)]),
           g.id \in Inputs \cup Records =>
               \A k \in 1..Len(f) : g.id \in IdsOf(f[k]) => OfRun(f, k, s)
    PROVE  FolderInv(h)
<1> DEFINE n == Len(f)
<1>1. /\ n \in 1..n /\ Len(h) = n
      /\ \A k \in 1..n : f[k] \in Seq(Group) /\ h[k] \in Seq(Group)
      /\ \A k \in 1..n : k # n => h[k] = f[k]
      /\ h[n] # <<>> /\ CommittedPrefixOf(f[n], h[n])
      /\ IdsOf(h[n]) = IdsOf(f[n]) \cup {g.id}
      /\ f[n] # <<>> => f[n][1] = h[n][1]
  <2>1. f \in Folders
    BY DEF FolderInv
  <2>2. /\ n \in 1..n /\ Len(h) = n
        /\ \A k \in 1..n : f[k] \in Seq(Group) /\ h[k] \in Seq(Group)
        /\ \A k \in 1..n : k # n => h[k] = f[k]
    BY <2>1, GrownFacts
  <2>3. /\ h[n] # <<>> /\ CommittedPrefixOf(f[n], h[n])
        /\ f[n] # <<>> => f[n][1] = h[n][1]
    BY <2>1, GrownFacts
  <2>4. h[n] = Append(f[n], g)
    BY <2>1, GrownFacts
  <2>5. IdsOf(h[n]) = IdsOf(f[n]) \cup {g.id}
    BY <2>2, <2>4, AppendedId
  <2> QED
    BY <2>2, <2>3, <2>5
<1> HIDE DEF n
<1>2. \A k \in 1..n : WellFormed(h[k])
  BY <1>1 DEF FolderInv, n
<1>3. Comparable(h)
  <2>1. ASSUME NEW k \in 1..n, k # n, OfRun(h, k, s)
        PROVE  CommittedPrefixOf(h[k], h[n]) \/ CommittedPrefixOf(h[n], h[k])
    <3>1. CommittedPrefixOf(h[k], top)
      BY <1>1, <2>1 DEF OfRun, n
    <3>2. CASE CommittedPrefixOf(h[n], top)
      BY <1>1, <3>1, <3>2, PrefixesComparable
    <3>3. CASE CommittedPrefixOf(top, h[n])
      BY <1>1, <3>1, <3>3, PrefixTransitive
    <3> QED
      BY <3>2, <3>3 DEF n
  <2>2. ASSUME NEW j \in 1..n, NEW k \in 1..n, NEW r \in Starts, OfRun(h, j, r), OfRun(h, k, r)
        PROVE  CommittedPrefixOf(h[j], h[k]) \/ CommittedPrefixOf(h[k], h[j])
    <3>1. CASE j # n /\ k # n
      BY <1>1, <2>2, <3>1 DEF FolderInv, Comparable, OfRun, n
    <3>2. CASE j = n /\ k # n
      BY <2>1, <2>2, <3>2 DEF OfRun, n
    <3>3. CASE j # n /\ k = n
      BY <2>1, <2>2, <3>3 DEF OfRun, n
    <3>4. CASE j = n /\ k = n
      BY <1>1, <3>4, PrefixReflexive
    <3> QED
      BY <3>1, <3>2, <3>3, <3>4
  <2> QED
    BY <1>1, <2>2 DEF Comparable
<1>4. Covered(h)
  <2>1. ASSUME NEW k \in 1..n, k # n, Original(f, k) PROVE Original(h, k)
    <3>1. h[k] = f[k] /\ \A j \in 1..(k - 1) : h[j] = f[j]
      BY <1>1, <2>1, SMTT(60)
    <3> QED
      BY <2>1, <3>1 DEF Original
\* A run stays one when its log grows: no older log holds what it held.
  <2>2. Original(f, n) => Original(h, n)
    <3>1. ASSUME Original(f, n), NEW j \in 1..(n - 1) PROVE ~CommittedPrefixOf(h[n], h[j])
      <4>1. j \in 1..n /\ h[j] = f[j] /\ ~CommittedPrefixOf(f[n], f[j])
        BY <1>1, <3>1 DEF Original
      <4> QED
        BY <1>1, <4>1, PrefixTransitive
    <3> QED
      BY <1>1, <3>1 DEF Original
  <2>3. ASSUME NEW j \in 1..n, f[j] # <<>>
        PROVE  \E k \in 1..n : Original(h, k) /\ CommittedPrefixOf(f[j], h[k])
    <3>1. PICK k \in 1..n : Original(f, k) /\ CommittedPrefixOf(f[j], f[k])
      BY <2>3 DEF FolderInv, Covered, n
    <3>2. CASE k # n
      BY <1>1, <2>1, <3>1, <3>2
    <3>3. CASE k = n
      BY <1>1, <2>2, <3>1, <3>3, PrefixTransitive
    <3> QED
      BY <3>2, <3>3
  <2>4. ASSUME NEW j \in 1..n, h[j] # <<>>
        PROVE  \E k \in 1..n : Original(h, k) /\ CommittedPrefixOf(h[j], h[k])
    <3>1. CASE j # n
      BY <1>1, <2>3, <2>4, <3>1
    <3>2. CASE j = n /\ Original(h, n)
      BY <1>1, <3>2, PrefixReflexive
    <3>3. CASE j = n /\ ~Original(h, n)
      <4>1. PICK i \in 1..(n - 1) : CommittedPrefixOf(h[n], h[i])
        BY <1>1, <3>3 DEF Original
      <4>2. i \in 1..n /\ i # n /\ h[i] = f[i]
        BY <1>1, <4>1
      <4>3. f[i] # <<>>
        BY <1>1, <4>1, <4>2, PrefixOpens
      <4>4. PICK k \in 1..n : Original(h, k) /\ CommittedPrefixOf(f[i], h[k])
        BY <2>3, <4>2, <4>3
      <4> QED
        BY <1>1, <3>3, <4>1, <4>2, <4>4, PrefixTransitive
    <3> QED
      BY <3>1, <3>2, <3>3
  <2> QED
    BY <1>1, <2>4 DEF Covered
<1>5. OneRunPerId(h)
\* Whatever its newest log holds, its run holds.
  <2>1. ASSUME NEW k \in 1..n, k # n, NEW x \in Inputs \cup Records,
               x \in IdsOf(h[k]), x \in IdsOf(h[n])
        PROVE  h[k][1].id = h[n][1].id
    <3>1. x \in IdsOf(f[k]) /\ h[k] = f[k]
      BY <1>1, <2>1
    <3>2. CASE x \in IdsOf(f[n])
      <4>1. f[k][1].id = f[n][1].id
        BY <1>1, <2>1, <3>1, <3>2 DEF FolderInv, OneRunPerId, n
      <4>2. f[n] # <<>>
        BY <3>2 DEF IdsOf
      <4> QED
        BY <1>1, <3>1, <4>1, <4>2
    <3>3. CASE x = g.id
      BY <2>1, <3>1, <3>3 DEF OfRun, n
    <3> QED
      BY <1>1, <2>1, <3>2, <3>3
  <2>2. ASSUME NEW j \in 1..n, NEW k \in 1..n, NEW x \in Inputs \cup Records,
               x \in IdsOf(h[j]), x \in IdsOf(h[k])
        PROVE  h[j][1].id = h[k][1].id
    <3>1. CASE j # n /\ k # n
      <4>1. h[j] = f[j] /\ h[k] = f[k]
        BY <1>1, <3>1
      <4> QED
        BY <2>2, <4>1 DEF FolderInv, OneRunPerId, n
    <3>2. CASE j = n /\ k # n
      BY <2>1, <2>2, <3>2
    <3>3. CASE j # n /\ k = n
      BY <2>1, <2>2, <3>3
    <3>4. CASE j = n /\ k = n
      BY <3>4
    <3> QED
      BY <3>1, <3>2, <3>3, <3>4
  <2> QED
    BY <1>1, <2>2 DEF OneRunPerId
<1> QED
  BY <1>1, <1>2, <1>3, <1>4, <1>5 DEF FolderInv, Grown

\* A log just created holds nothing and changes nothing.
LEMMA NewLogKeeps ==
    ASSUME NEW f, FolderInv(f)
    PROVE  /\ FolderInv(Append(f, <<>>)) /\ Len(Append(f, <<>>)) = Len(f) + 1 /\ Len(f) \in Nat
           /\ Append(f, <<>>)[Len(f) + 1] = <<>>
           /\ \A k \in 1..Len(f) : Append(f, <<>>)[k] = f[k]
<1> DEFINE h == Append(f, <<>>)
           n == Len(f)
<1>1. /\ n \in Nat /\ Len(h) = n + 1 /\ h \in Folders
      /\ h[n + 1] = <<>> /\ Len(h[n + 1]) = 0
      /\ \A k \in 1..n : h[k] = f[k]
      /\ \A k \in 1..(n + 1) : k \in 1..n \/ k = n + 1
  BY EmptySeq DEF FolderInv, Folders
<1> HIDE DEF h, n
<1>2. IdsOf(h[n + 1]) = {}
  BY <1>1 DEF IdsOf
<1>3. \A k \in 1..(n + 1) : WellFormed(h[k])
  BY <1>1 DEF FolderInv, WellFormed, n
<1>4. Comparable(h)
  BY <1>1 DEF FolderInv, Comparable, OfRun, n
<1>5. Covered(h)
  <2>1. \A k \in 1..n : Original(f, k) => Original(h, k)
    BY <1>1 DEF Original
  <2> QED
    BY <1>1, <2>1 DEF FolderInv, Covered, n
<1>6. OneRunPerId(h)
  BY <1>1, <1>2 DEF FolderInv, OneRunPerId, n
<1> QED
  BY <1>1, <1>3, <1>4, <1>5, <1>6 DEF FolderInv, h, n

\* The latest run has all that the logs of its start hold, the attempts to
\* resume it that were abandoned before and after it included.
LEMMA LatestIsLongest ==
    ASSUME NEW f, FolderInv(f), NEW k \in 1..Len(f), Original(f, k),
           \A j \in (k + 1)..Len(f) : ~Original(f, j),
           NEW s \in Starts, OfRun(f, k, s), NEW j \in 1..Len(f), OfRun(f, j, s)
    PROVE  CommittedPrefixOf(f[j], f[k])
<1>1. \A i \in 1..Len(f) : f[i] \in Seq(Group)
  BY ElementOfSeq DEF FolderInv, Folders
<1>2. PICK i \in 1..Len(f) : Original(f, i) /\ CommittedPrefixOf(f[j], f[i])
  BY DEF FolderInv, Covered, OfRun
<1>3. OfRun(f, i, s)
  BY <1>1, <1>2, PrefixOpens DEF OfRun
<1>4. Len(f) \in Nat /\ i <= k
  BY <1>2 DEF FolderInv, Folders
<1>5. CASE i = k
  BY <1>2, <1>5
<1>6. CASE i # k
  <2>1. i \in 1..(k - 1)
    BY <1>4, <1>6
  <2>2. CommittedPrefixOf(f[i], f[k]) \/ CommittedPrefixOf(f[k], f[i])
    BY <1>3 DEF FolderInv, Comparable
  <2>3. CommittedPrefixOf(f[i], f[k])
    BY <2>1, <2>2 DEF Original
  <2> QED
    BY <1>1, <1>2, <2>3, PrefixTransitive
<1> QED
  BY <1>5, <1>6

-----------------------------------------------------------------------------
(***************************************************************************)
(* What the running process may rely on.                                   *)
(***************************************************************************)
\* A log set aside holds nothing (it never had its header).
AsideEmpty == \A k \in 1..Len(logs) : logs[k].aside => logs[k].groups = <<>>

\* The process is copying a run, and has yet to copy all of it.
Resuming == phase \in {"created", "copying"} /\ source # 0

\* The log that has all its run's logs hold: the one resumed until the copy is
\* complete, and then the one being written.
HeadGroups == IF Resuming THEN Folder[source] ELSE LastGroups

HeadFacts ==
    phase # "down" =>
        /\ LastGroups # <<>> => LastGroups[1].id = start
        /\ ~poisoned => next = Len(mem) + 1
        /\ Resuming => OfRun(Folder, source, start) /\ CommittedPrefixOf(LastGroups, Folder[source])
        /\ \A j \in 1..Len(Folder) : OfRun(Folder, j, start) => CommittedPrefixOf(Folder[j], HeadGroups)
        /\ phase \in {"serving", "deciding", "decided"} => Len(mem) >= 2

\* What is being decided is new: no log holds a record to be delivered, nor
\* the run the input, which is the one the adapter waits for.
ExchangeFacts ==
    /\ phase = "deciding" =>
        /\ \A r \in todo : \A k \in 1..Len(Folder) : r \notin IdsOf(Folder[k])
        /\ call.id \notin IdsOf(mem)
    /\ phase \in {"deciding", "decided"} =>
        /\ waiting # None /\ waiting.run = start
        /\ call.id = waiting.id /\ call.seq = waiting.seq

\* Logs hold inputs the adapter composed, the one it waits for in its own run.
WaitingFacts ==
    /\ \A j \in 1..Len(Folder) : IdsOf(Folder[j]) \cap Inputs \subseteq composed
    /\ waiting # None =>
        /\ waiting.id \in composed
        /\ \A j \in 1..Len(Folder) : waiting.id \in IdsOf(Folder[j]) => OfRun(Folder, j, waiting.run)

RunInv ==
    /\ RecorderInv /\ AsideEmpty /\ FolderInv(Folder)
    /\ HeadFacts /\ ExchangeFacts /\ WaitingFacts

\* What a folder's files hold is a sequence of logs.
LEMMA FolderOfFiles ==
    ASSUME NEW l \in Seq(File), NEW f, f = [k \in 1..Len(l) |-> l[k].groups]
    PROVE  /\ f \in Folders /\ Len(f) = Len(l) /\ Len(l) \in Nat
           /\ \A k \in 1..Len(l) : f[k] = l[k].groups /\ l[k] \in File /\ l[k].groups \in Seq(Group)
<1>1. \A k \in 1..Len(l) : l[k] \in File
  BY ElementOfSeq
<1>2. \A k \in 1..Len(l) : l[k].groups \in Seq(Group)
  BY <1>1 DEF File
<1>3. Len(l) \in Nat
  BY LenProperties
<1>4. f \in [1..Len(l) -> Seq(Group)]
  BY <1>2
<1>5. f \in Seq(Seq(Group))
  BY <1>3, <1>4, SeqDef
<1>6. Len(f) \in Nat /\ 1..Len(f) = 1..Len(l)
  BY <1>4, <1>5, LenProperties
<1>7. Len(f) = Len(l)
  BY <1>3, <1>6
<1> QED
  BY <1>1, <1>2, <1>3, <1>5, <1>7 DEF Folders

\* The logs of the folder, its newest one while a process runs, and its memory.
LEMMA FolderFacts ==
    ASSUME RecorderInv
    PROVE  /\ logs \in Seq(File) /\ mem \in Seq(Group)
           /\ Folder \in Folders /\ Len(Folder) = Len(logs) /\ Len(logs) \in Nat
           /\ \A k \in 1..Len(logs) : Folder[k] = logs[k].groups /\ Folder[k] \in Seq(Group)
           /\ phase # "down" =>
                /\ Len(logs) \in 1..Len(logs) /\ Folder # <<>>
                /\ LastGroups = Folder[Len(Folder)] /\ LastGroups \in Seq(Group)
<1>1. logs \in Seq(File) /\ mem \in Seq(Group)
  BY DEF RecorderInv, TypeOK
<1>2. /\ Folder \in Folders /\ Len(Folder) = Len(logs) /\ Len(logs) \in Nat
      /\ \A k \in 1..Len(logs) : Folder[k] = logs[k].groups /\ Folder[k] \in Seq(Group)
  BY <1>1, FolderOfFiles DEF Folder
<1>3. ASSUME phase # "down"
      PROVE  /\ Len(logs) \in 1..Len(logs) /\ Folder # <<>>
             /\ LastGroups = Folder[Len(Folder)] /\ LastGroups \in Seq(Group)
  <2>1. Len(logs) \in 1..Len(logs) /\ LastGroups \in Seq(Group)
    BY <1>3, LastLogFacts
  <2>2. Len(Folder) # 0
    BY <1>2, <2>1
  <2>3. Folder # <<>>
    BY <2>2, EmptySeq
  <2> QED
    BY <1>2, <2>1, <2>3 DEF LastGroups
<1> QED
  BY <1>1, <1>2, <1>3

\* Writing a group to the newest log grows the folder by it.
LEMMA ExtendGrows ==
    ASSUME RecorderInv, phase # "down", NEW g \in Group, logs' = Extend(g)
    PROVE  Grown(Folder, Folder', g)
<1>1. /\ logs \in Seq(File) /\ logs # <<>>
      /\ Len(Folder) = Len(logs) /\ Folder # <<>>
      /\ \A k \in 1..Len(logs) : Folder[k] = logs[k].groups
  BY FolderFacts, LastLogFacts
<1>2. /\ logs' \in Seq(File) /\ Len(logs') = Len(logs)
      /\ \A k \in 1..Len(logs) :
            logs'[k].groups = IF k = Len(logs) THEN Append(logs[k].groups, g) ELSE logs[k].groups
  BY <1>1, ExtendFacts
<1>3. /\ Folder' \in Folders /\ Len(Folder') = Len(logs')
      /\ \A k \in 1..Len(logs') : Folder'[k] = logs'[k].groups
  BY <1>2, FolderOfFiles DEF Folder
<1> QED
  BY <1>1, <1>2, <1>3 DEF Grown

\* A group being written is the next of its log, which stays well-formed and
\* of its run, and what it holds is new or copied from the run.
LEMMA WritingNext ==
    ASSUME RunInv, NEW g \in Writing
    PROVE  LET more == Append(LastGroups, g) IN
           /\ g \in Group /\ start \in Starts /\ mem = LastGroups
           /\ WellFormed(more) /\ more[1].id = start
           /\ phase = "copying" =>
                /\ source \in 1..Len(Folder) /\ source # Len(Folder)
                /\ OfRun(Folder, source, start) /\ CommittedPrefixOf(more, Folder[source])
           /\ g.id \in Inputs \cup Records =>
                \A k \in 1..Len(Folder) : g.id \in IdsOf(Folder[k]) => OfRun(Folder, k, start)
           /\ g.id \in Inputs => g.id \in composed
           /\ waiting # None /\ g.id = waiting.id => waiting.run = start
<1> DEFINE more == Append(LastGroups, g)
           size == Len(LastGroups)
<1> USE DEF RunInv
<1>1. /\ g \in Group /\ phase # "down" /\ ~poisoned
      /\ mem = LastGroups /\ start \in Starts
      /\ next = Len(mem) + 1
  BY WritingFacts DEF RecorderInv, Running, HeadFacts
<1>2. /\ LastGroups \in Seq(Group) /\ Len(LastGroups) \in Nat
      /\ Folder \in Folders /\ Len(Folder) = Len(logs)
      /\ Len(Folder) \in 1..Len(Folder) /\ LastGroups = Folder[Len(Folder)]
      /\ \A k \in 1..Len(Folder) : Folder[k] = logs[k].groups /\ Folder[k] \in Seq(Group)
  BY <1>1, FolderFacts, LenProperties
<1>3. WellFormed(LastGroups)
  BY <1>2 DEF FolderInv
<1>4. /\ more \in Seq(Group) /\ Len(more) = Len(LastGroups) + 1 /\ more[Len(LastGroups) + 1] = g
      /\ \A m \in 1..Len(LastGroups) : more[m] = LastGroups[m]
      /\ LastGroups = <<>> <=> Len(LastGroups) = 0
  BY <1>1, <1>2, AppendProperties, EmptySeq
<1>5. waiting # None => waiting \in Waiting /\ waiting.id \in Inputs
  BY DEF RecorderInv, TypeOK, Waiting
<1>6. size \in Nat /\ size = Len(LastGroups) /\ next = size + 1
  BY <1>1, <1>2
<1> HIDE DEF more, size
<1>7. CASE phase = "copying"
  <2>1. /\ source # 0 /\ source \in 1..Len(Folder) /\ source # Len(Folder)
        /\ OfRun(Folder, source, start) /\ CommittedPrefixOf(LastGroups, Folder[source])
    <3>1. source \in Nat /\ source # 0 /\ source < Len(logs)
      BY <1>7 DEF RecorderInv, TypeOK, PhaseFacts
    <3> QED
      BY <1>1, <1>2, <1>7, <3>1 DEF HeadFacts, Resuming
  <2> DEFINE from == Folder[source]
  <2>2. /\ from \in Seq(Group) /\ Len(from) \in Nat /\ DOMAIN from = 1..Len(from)
        /\ WellFormed(from)
    BY <1>2, <2>1, LenProperties DEF FolderInv
  <2>3. Len(LastGroups) + 1 \in 1..Len(from) /\ g = from[Len(LastGroups) + 1]
    BY <1>1, <1>2, <1>7, <2>1, <2>2 DEF Writing
  <2>4. CommittedPrefixOf(more, from)
    <3>1. ASSUME NEW m \in 1..Len(more) PROVE more[m] = from[m]
      <4>1. m \in 1..Len(LastGroups) \/ m = Len(LastGroups) + 1
        BY <1>2, <1>4
      <4> QED
        BY <1>4, <2>1, <2>3, <4>1 DEF CommittedPrefixOf
    <3> QED
      BY <1>2, <1>4, <2>2, <2>3, <3>1 DEF CommittedPrefixOf
  <2>5. WellFormed(more)
    BY <1>4, <2>2, <2>4, WellFormedPrefix
  <2>6. more[1].id = start
    <3>1. more # <<>>
      BY <1>2, <1>4
    <3>2. more[1] = from[1]
      BY <1>4, <2>2, <2>4, <3>1, PrefixOpens
    <3> QED
      BY <2>1, <3>2 DEF OfRun
  <2>7. g.id \in IdsOf(from)
    BY <2>2, <2>3 DEF IdsOf
  <2>8. ASSUME g.id \in Inputs \cup Records, NEW k \in 1..Len(Folder), g.id \in IdsOf(Folder[k])
        PROVE  OfRun(Folder, k, start)
    <3>1. Folder[k][1].id = from[1].id /\ from[1].id = start
      BY <2>1, <2>7, <2>8 DEF FolderInv, OneRunPerId, OfRun
    <3>2. Folder[k] # <<>>
      BY <2>8 DEF IdsOf
    <3> QED
      BY <3>1, <3>2 DEF OfRun
  <2>9. g.id \in Inputs => g.id \in composed
    BY <2>1, <2>7 DEF WaitingFacts
  <2>10. waiting # None /\ g.id = waiting.id => waiting.run = start
    <3>1. SUFFICES ASSUME waiting # None, g.id = waiting.id PROVE waiting.run = start
      OBVIOUS
    <3>2. OfRun(Folder, source, waiting.run)
      BY <2>1, <2>7, <3>1 DEF WaitingFacts
    <3> QED
      BY <2>1, <3>2 DEF OfRun
  <2> QED
    BY <1>1, <2>1, <2>4, <2>5, <2>6, <2>8, <2>9, <2>10 DEF more
<1>8. CASE phase = "starting"
  <2>1. /\ Len(LastGroups) < 2 /\ g.id = start /\ g.seq = next
        /\ g.kind = IF LastGroups = <<>> THEN "config" ELSE "approval"
    BY <1>1, <1>8 DEF Writing, Entry
  <2>2. WellFormed(more)
    <3>1. size < 2 /\ g.kind = IF size = 0 THEN "config" ELSE "approval"
      BY <1>4, <1>6, <2>1
    <3>2. LastGroups \in Seq(Group) /\ g \in Group /\ g.id \in Starts /\ g.seq = size + 1
      BY <1>1, <1>2, <1>6, <2>1
    <3>3. g.kind = "config" <=> size = 0
      BY <3>1
    <3>4. g.kind = "approval" <=> size = 1
      BY <1>6, <3>1
    <3>5. g.kind # "input" /\ g.kind # "record" /\ ~(size >= 2)
      BY <1>6, <3>1
    <3> QED
      BY <1>3, <1>6, <3>2, <3>3, <3>4, <3>5, WellFormedAppend DEF more
  <2>3. more[1].id = start
    <3>1. CASE LastGroups = <<>>
      BY <1>4, <2>1, <3>1
    <3>2. CASE LastGroups # <<>>
      BY <1>1, <1>2, <1>4, <3>2 DEF HeadFacts
    <3> QED
      BY <3>1, <3>2
  <2>4. g.id \notin Inputs \cup Records
    BY <1>1, <2>1, ConstantsAssumption
  <2> QED
    BY <1>1, <1>5, <1>8, <2>2, <2>3, <2>4 DEF more
<1>9. CASE phase = "deciding"
  <2>1. Len(LastGroups) >= 2 /\ LastGroups # <<>> /\ call.id \notin IdsOf(LastGroups)
        /\ waiting # None /\ waiting.run = start /\ call.id = waiting.id /\ waiting.id \in Inputs
    BY <1>1, <1>4, <1>5, <1>9 DEF HeadFacts, ExchangeFacts
  <2>2. more[1].id = start
    BY <1>1, <1>2, <1>4, <2>1 DEF HeadFacts
  <2>3. \/ g = Entry("record", g.id) /\ g.id \in todo
        \/ g = Entry("input", call.id)
    BY <1>9 DEF Writing, Entry
  <2>4. CASE g = Entry("record", g.id) /\ g.id \in todo
    <3>1. g.seq = next /\ g.kind = "record" /\ g.id \in Records /\ g.id \notin Inputs
      BY <2>4, ConstantsAssumption DEF Entry, RecorderInv, TypeOK
    <3>2. \A k \in 1..Len(Folder) : g.id \notin IdsOf(Folder[k])
      BY <1>9, <2>4 DEF ExchangeFacts
    <3>3. g.id \notin IdsOf(LastGroups)
      BY <1>2, <3>2
    <3>4. WellFormed(more)
      <4>1. g \in Group /\ g.seq = size + 1 /\ LastGroups \in Seq(Group)
        BY <1>1, <1>2, <1>6, <3>1
      <4>2. size # 0 /\ size # 1 /\ ~(size < 2)
        BY <1>6, <2>1
      <4>3. g.kind # "config" /\ g.kind # "approval" /\ g.kind # "input"
        BY <3>1
      <4> QED
        BY <1>3, <1>6, <3>1, <3>3, <4>1, <4>2, <4>3, WellFormedAppend DEF more
    <3> QED
      BY <1>1, <1>9, <2>1, <2>2, <3>1, <3>2, <3>4 DEF more
  <2>5. CASE g = Entry("input", call.id)
    <3>1. g.seq = next /\ g.kind = "input" /\ g.id = waiting.id /\ g.id \in Inputs
      BY <2>1, <2>5 DEF Entry
    <3>2. WellFormed(more)
      <4>1. g \in Group /\ g.seq = size + 1 /\ LastGroups \in Seq(Group)
        BY <1>1, <1>2, <1>6, <3>1
      <4>2. size # 0 /\ size # 1 /\ ~(size < 2)
        BY <1>6, <2>1
      <4>3. g.kind # "config" /\ g.kind # "approval" /\ g.kind # "record"
        BY <3>1
      <4>4. g.id \notin IdsOf(LastGroups)
        BY <2>1, <3>1
      <4> QED
        BY <1>3, <1>6, <3>1, <4>1, <4>2, <4>3, <4>4, WellFormedAppend DEF more
    <3>3. /\ g.id \in composed
          /\ \A k \in 1..Len(Folder) : g.id \in IdsOf(Folder[k]) => OfRun(Folder, k, start)
      BY <2>1, <3>1 DEF WaitingFacts
    <3> QED
      BY <1>1, <1>9, <2>1, <2>2, <3>1, <3>2, <3>3 DEF more
  <2> QED
    BY <2>3, <2>4, <2>5
<1>10. phase \in {"copying", "starting", "deciding"}
  BY DEF Writing
<1> QED
  BY <1>7, <1>8, <1>9, <1>10

\* The folder after a group was written: the newest log holds it, all its
\* run's logs hold is in the head, and inputs are still in their own runs.
LEMMA WrittenKeeps ==
    ASSUME RunInv, NEW g \in Writing, logs' = Extend(g)
    PROVE  /\ FolderInv(Folder') /\ AsideEmpty'
           /\ Len(Folder') = Len(Folder)
           /\ LastGroups' = Append(LastGroups, g) /\ LastGroups'[1].id = start
           /\ \A k \in 1..Len(Folder) : IdsOf(Folder'[k]) \subseteq IdsOf(Folder[k]) \cup {g.id}
           /\ phase = "copying" =>
                /\ OfRun(Folder', source, start) /\ CommittedPrefixOf(LastGroups', Folder'[source])
                /\ \A j \in 1..Len(Folder) :
                      OfRun(Folder', j, start) => CommittedPrefixOf(Folder'[j], Folder'[source])
           /\ phase # "copying" =>
                \A j \in 1..Len(Folder) : OfRun(Folder', j, start) => CommittedPrefixOf(Folder'[j], LastGroups')
           /\ \A j \in 1..Len(Folder) : IdsOf(Folder'[j]) \cap Inputs \subseteq composed
           /\ waiting # None => \A j \in 1..Len(Folder) :
                waiting.id \in IdsOf(Folder'[j]) => OfRun(Folder', j, waiting.run)
<1> DEFINE f == Folder
           h == Folder'
           n == Len(Folder)
<1>1. /\ g \in Group /\ phase # "down" /\ start \in Starts
      /\ WellFormed(Append(LastGroups, g)) /\ Append(LastGroups, g)[1].id = start
      /\ RecorderInv /\ AsideEmpty /\ FolderInv(f) /\ f \in Folders
  BY WritingFacts, WritingNext DEF RunInv, FolderInv
<1>2. phase = "copying" =>
        /\ source \in 1..n /\ source # n
        /\ OfRun(f, source, start) /\ CommittedPrefixOf(Append(LastGroups, g), f[source])
  BY WritingNext
<1>3. g.id \in Inputs \cup Records => \A k \in 1..n : g.id \in IdsOf(f[k]) => OfRun(f, k, start)
  BY WritingNext
<1>4. /\ g.id \in Inputs => g.id \in composed
      /\ waiting # None /\ g.id = waiting.id => waiting.run = start
  BY WritingNext
<1>5. Grown(f, h, g)
  BY <1>1, ExtendGrows
<1>6. /\ n \in 1..n /\ Len(h) = n
      /\ \A k \in 1..n : f[k] \in Seq(Group) /\ h[k] \in Seq(Group)
      /\ \A k \in 1..n : k # n => h[k] = f[k]
      /\ h[n] = Append(f[n], g) /\ h[n] # <<>>
      /\ CommittedPrefixOf(f[n], h[n])
  BY <1>1, <1>5, GrownFacts
<1>7. LastGroups = f[n]
  BY <1>1, FolderFacts
<1>8. LastGroups' = h[n] /\ AsideEmpty'
  <2>1. /\ logs' \in Seq(File) /\ Len(logs') = Len(logs) /\ Len(logs) \in 1..Len(logs)
        /\ ~logs[Len(logs)].aside /\ n = Len(logs)
        /\ \A k \in 1..Len(logs) :
              /\ logs'[k].aside = logs[k].aside
              /\ logs'[k].groups = IF k = Len(logs) THEN Append(logs[k].groups, g) ELSE logs[k].groups
    BY <1>1, LastLogFacts, ExtendFacts, FolderFacts DEF RecorderInv, Running
  <2>2. LastGroups' = h[n]
    BY <1>6, <1>7, <2>1 DEF LastGroups
  <2> QED
    BY <1>1, <2>1, <2>2 DEF AsideEmpty
<1> HIDE DEF f, h, n
<1>9. /\ \A k \in 1..n : OfRun(f, k, start) => CommittedPrefixOf(f[k], HeadGroups)
      /\ HeadGroups \in Seq(Group)
      /\ phase = "copying" => HeadGroups = f[source]
      /\ phase # "copying" => HeadGroups = f[n]
  <2>1. phase \in {"copying", "starting", "deciding"}
    BY DEF Writing
  <2>2. phase = "copying" => source # 0
    BY DEF RunInv, RecorderInv, PhaseFacts
  <2>3. phase = "copying" => HeadGroups = f[source]
    BY <2>2 DEF HeadGroups, Resuming, f
  <2>4. phase # "copying" => HeadGroups = f[n]
    BY <1>7, <2>1 DEF HeadGroups, Resuming
  <2> QED
    BY <1>1, <1>2, <1>6, <2>3, <2>4 DEF RunInv, HeadFacts, f, n
<1>10. CommittedPrefixOf(h[n], HeadGroups) \/ CommittedPrefixOf(HeadGroups, h[n])
  BY <1>2, <1>6, <1>7, <1>9
<1>11. FolderInv(h)
  <2>1. WellFormed(h[n]) /\ h[n][1].id = start
    BY <1>1, <1>6, <1>7
  <2>2. \A k \in 1..n : k # n /\ OfRun(f, k, start) => CommittedPrefixOf(f[k], HeadGroups)
    BY <1>9
  <2> QED
    BY <1>1, <1>3, <1>5, <1>9, <1>10, <2>1, <2>2, GrownKeeps DEF n, f, h
<1>12. \A k \in 1..n : IdsOf(h[k]) \subseteq IdsOf(f[k]) \cup {g.id}
  <2>1. IdsOf(h[n]) = IdsOf(f[n]) \cup {g.id}
    BY <1>1, <1>6, AppendedId
  <2> QED
    BY <1>6, <2>1
<1>13. ASSUME NEW k \in 1..n, k # n, OfRun(h, k, start) PROVE CommittedPrefixOf(h[k], HeadGroups)
  BY <1>6, <1>9, <1>13 DEF OfRun
<1>14. ASSUME phase = "copying"
       PROVE  /\ OfRun(h, source, start) /\ CommittedPrefixOf(h[n], h[source])
              /\ \A j \in 1..n : OfRun(h, j, start) => CommittedPrefixOf(h[j], h[source])
  <2>1. h[source] = f[source] /\ h[source] = HeadGroups /\ OfRun(h, source, start)
        /\ CommittedPrefixOf(h[n], h[source])
    BY <1>2, <1>6, <1>7, <1>9, <1>14 DEF OfRun
  <2>2. \A j \in 1..n : OfRun(h, j, start) => CommittedPrefixOf(h[j], h[source])
    BY <1>13, <2>1
  <2> QED
    BY <2>1, <2>2
<1>15. ASSUME phase # "copying"
       PROVE  \A j \in 1..n : OfRun(h, j, start) => CommittedPrefixOf(h[j], h[n])
  <2>1. ASSUME NEW j \in 1..n, OfRun(h, j, start) PROVE CommittedPrefixOf(h[j], h[n])
    <3>1. CASE j = n
      BY <1>6, <3>1, PrefixReflexive
    <3>2. CASE j # n
      BY <1>6, <1>9, <1>13, <1>15, <2>1, <3>2, PrefixTransitive, ZenonT(60)
    <3> QED
      BY <3>1, <3>2
  <2> QED
    BY <2>1
<1>16. \A j \in 1..n : IdsOf(h[j]) \cap Inputs \subseteq composed
  BY <1>4, <1>12 DEF RunInv, WaitingFacts, f, n
<1>17. ASSUME waiting # None, NEW j \in 1..n, waiting.id \in IdsOf(h[j])
       PROVE  OfRun(h, j, waiting.run)
  <2>1. CASE j # n
    BY <1>6, <1>17, <2>1 DEF RunInv, WaitingFacts, OfRun, f, n
  <2>2. CASE j = n /\ waiting.id = g.id
    BY <1>1, <1>4, <1>6, <1>7, <1>17, <2>2 DEF OfRun
  <2>3. CASE j = n /\ waiting.id \in IdsOf(f[n])
    <3>1. OfRun(f, n, waiting.run)
      BY <1>6, <1>17, <2>3 DEF RunInv, WaitingFacts, f, n
    <3> QED
      BY <1>6, <2>3, <3>1, PrefixOpens DEF OfRun
  <2> QED
    BY <1>12, <1>17, <2>1, <2>2, <2>3
<1> QED
  BY <1>1, <1>6, <1>7, <1>8, <1>11, <1>12, <1>14, <1>15, <1>16, <1>17 DEF f, h, n

\* A step that writes no group leaves what the folder holds alone; only a log
\* that holds nothing is set aside.
LEMMA UnwrittenKeeps ==
    ASSUME RunInv,
           \/ logs' = logs
           \/ phase # "down" /\ logs' = [logs EXCEPT ![Len(logs)].headed = TRUE]
           \/ \E k \in 1..Len(logs) : ~logs[k].headed /\ logs' = [logs EXCEPT ![k].aside = TRUE]
    PROVE  Folder' = Folder /\ LastGroups' = LastGroups /\ AsideEmpty'
<1>1. /\ logs \in Seq(File) /\ Len(logs) \in Nat
      /\ \A k \in 1..Len(logs) : logs[k] \in File
  BY FolderFacts, FolderOfFiles DEF RunInv
<1>2. CASE logs' = logs
  BY <1>2 DEF Folder, LastGroups, AsideEmpty, RunInv
<1>3. ASSUME NEW f \in File, NEW k \in 1..Len(logs), logs' = [logs EXCEPT ![k] = f],
             f.groups = logs[k].groups, f.aside => logs[k].aside \/ f.groups = <<>>
      PROVE  Folder' = Folder /\ LastGroups' = LastGroups /\ AsideEmpty'
  <2>1. /\ logs' \in Seq(File) /\ Len(logs') = Len(logs)
        /\ \A j \in 1..Len(logs) : logs'[j] = IF j = k THEN f ELSE logs[j]
    BY <1>1, <1>3, ExceptSeq
  <2>2. \A j \in 1..Len(logs) : logs'[j].groups = logs[j].groups
    BY <1>3, <2>1
  <2>3. \A j \in 1..Len(logs) : logs'[j].aside => logs'[j].groups = <<>>
    BY <1>3, <2>1 DEF RunInv, AsideEmpty
  <2>4. Len(logs) \in 1..Len(logs)
    BY <1>1
  <2> QED
    BY <2>1, <2>2, <2>3, <2>4 DEF Folder, LastGroups, AsideEmpty
<1>4. CASE phase # "down" /\ logs' = [logs EXCEPT ![Len(logs)].headed = TRUE]
  <2> DEFINE n == Len(logs)
             f == [logs[n] EXCEPT !.headed = TRUE]
  <2>1. n \in 1..n /\ logs[n] \in File
    BY <1>4, LastLogFacts DEF RunInv
  <2>2. f \in File /\ f.groups = logs[n].groups /\ f.aside = logs[n].aside
    BY <2>1 DEF File
  <2>3. logs' = [logs EXCEPT ![n] = f]
    BY <1>4
  <2> HIDE DEF f
  <2> QED
    BY <1>3, <2>1, <2>2, <2>3
<1>5. CASE \E k \in 1..Len(logs) : ~logs[k].headed /\ logs' = [logs EXCEPT ![k].aside = TRUE]
  <2>1. PICK k \in 1..Len(logs) : ~logs[k].headed /\ logs' = [logs EXCEPT ![k].aside = TRUE]
    BY <1>5
  <2> DEFINE f == [logs[k] EXCEPT !.aside = TRUE]
  <2>2. f \in File /\ f.groups = logs[k].groups /\ logs[k].groups = <<>>
    BY <1>1, <2>1 DEF File, RunInv, RecorderInv, HeadedFirst
  <2>3. logs' = [logs EXCEPT ![k] = f]
    BY <2>1
  <2> HIDE DEF f
  <2> QED
    BY <1>3, <2>2, <2>3
<1> QED
  BY <1>2, <1>4, <1>5

\* RunInv beyond the recorder's invariant.
RunFacts == AsideEmpty /\ FolderInv(Folder) /\ HeadFacts /\ ExchangeFacts /\ WaitingFacts

\* Starting a process: the log created holds nothing, and a run resumed is the
\* one that has all the logs of its start hold.
LEMMA CreateKeeps ==
    ASSUME RunInv, NEW s \in Starts, NEW from \in Nat, CreateLog(s, from),
           from = 0 => \A k \in 1..Len(Folder) : ~OfRun(Folder, k, s),
           from # 0 => /\ from \in 1..Len(Folder) /\ OfRun(Folder, from, s)
                       /\ \A k \in 1..Len(Folder) :
                             OfRun(Folder, k, s) => CommittedPrefixOf(Folder[k], Folder[from])
    PROVE  RunFacts'
<1> DEFINE f == Folder
           n == Len(Folder)
           new == [headed |-> FALSE, aside |-> FALSE, groups |-> <<>>]
<1>1. /\ logs \in Seq(File) /\ n = Len(logs) /\ n \in Nat
      /\ \A k \in 1..n : f[k] = logs[k].groups /\ f[k] \in Seq(Group)
      /\ f \in Folders
  BY FolderFacts DEF RunInv
<1>2. /\ new \in File /\ logs' = Append(logs, new)
  BY EmptySeq DEF CreateLog, File
<1>3. /\ logs' \in Seq(File) /\ Len(logs') = n + 1 /\ logs'[n + 1] = new
      /\ \A k \in 1..n : logs'[k] = logs[k]
  BY <1>1, <1>2
<1>4. /\ FolderInv(Append(f, <<>>)) /\ Len(Append(f, <<>>)) = n + 1
      /\ Append(f, <<>>)[n + 1] = <<>>
      /\ \A k \in 1..n : Append(f, <<>>)[k] = f[k]
  BY NewLogKeeps DEF RunInv
<1>5. Folder' = Append(f, <<>>)
  <2>1. /\ Folder' \in Folders /\ Len(Folder') = n + 1
        /\ \A k \in 1..(n + 1) : Folder'[k] = logs'[k].groups
    BY <1>3, FolderOfFiles DEF Folder
  <2>2. \A k \in 1..(n + 1) : k \in 1..n \/ k = n + 1
    BY <1>1
  <2>3. \A k \in 1..(n + 1) : Folder'[k] = Append(f, <<>>)[k]
    BY <1>1, <1>3, <1>4, <2>1, <2>2
  <2>4. Append(f, <<>>) \in Folders
    BY <1>4 DEF FolderInv
  <2>5. DOMAIN Folder' = 1..(n + 1) /\ DOMAIN Append(f, <<>>) = 1..(n + 1)
    BY <1>4, <2>1, <2>4, LenProperties DEF Folders
  <2> QED
    BY <2>1, <2>3, <2>4, <2>5, SeqEqual, SMTT(60) DEF Folders
<1>6. /\ FolderInv(Folder') /\ Len(Folder') = n + 1 /\ Folder'[n + 1] = <<>>
      /\ \A k \in 1..n : Folder'[k] = f[k]
      /\ \A k \in 1..(n + 1) : k \in 1..n \/ k = n + 1
      /\ LastGroups' = <<>> /\ Len(<<>>) = 0
  BY <1>1, <1>3, <1>4, <1>5, EmptySeq DEF LastGroups
<1>7. AsideEmpty'
  BY <1>1, <1>3, <1>6 DEF AsideEmpty, RunInv
<1>8. /\ phase' = "created" /\ start' = s /\ source' = from /\ mem' = <<>> /\ next' = 1
      /\ waiting' = waiting /\ composed' = composed
  BY DEF CreateLog, adapterVars
<1> HIDE DEF f, n, new
<1>9. /\ Resuming' <=> from # 0
      /\ HeadGroups' = IF from # 0 THEN Folder'[from] ELSE LastGroups'
  BY <1>8 DEF Resuming, HeadGroups
<1>10. \A k \in 1..(n + 1) : OfRun(Folder', k, s) => k \in 1..n /\ OfRun(f, k, s)
  BY <1>6 DEF OfRun
<1>11. HeadFacts'
  <2>1. ASSUME from # 0
        PROVE  OfRun(Folder', from, s) /\ CommittedPrefixOf(LastGroups', Folder'[from])
    <3>1. from \in 1..n /\ OfRun(f, from, s) /\ Folder'[from] = f[from] /\ f[from] \in Seq(Group)
      BY <1>1, <1>6, <2>1 DEF f, n
    <3> QED
      BY <1>6, <3>1 DEF OfRun, CommittedPrefixOf
  <2>2. ASSUME NEW k \in 1..(n + 1), OfRun(Folder', k, s)
        PROVE  CommittedPrefixOf(Folder'[k], HeadGroups')
    <3>1. k \in 1..n /\ OfRun(f, k, s)
      BY <1>10, <2>2
    <3>2. from # 0 /\ from \in 1..n /\ CommittedPrefixOf(f[k], f[from])
      BY <3>1 DEF f, n
    <3> QED
      BY <1>6, <1>9, <3>1, <3>2
  <2> QED
    BY <1>6, <1>8, <1>9, <2>1, <2>2 DEF HeadFacts
<1>12. ExchangeFacts'
  BY <1>8 DEF ExchangeFacts
<1>13. WaitingFacts'
  <2>1. IdsOf(<<>>) = {}
    BY <1>6 DEF IdsOf
  <2> QED
    BY <1>6, <1>8, <2>1 DEF RunInv, WaitingFacts, OfRun, f, n
<1> QED
  BY <1>6, <1>7, <1>11, <1>12, <1>13 DEF RunFacts

\* A log is a run, as restart.Classify has it, when it holds something no
\* older log does: none of those is set aside with anything in it.
LEMMA RunIsOriginal ==
    ASSUME RunInv, NEW k \in 1..Len(Folder)
    PROVE  IsRun(k) <=> Original(Folder, k)
<1>1. /\ Len(Folder) = Len(logs) /\ Len(logs) \in Nat
      /\ \A j \in 1..Len(logs) : Folder[j] = logs[j].groups /\ Folder[j] \in Seq(Group)
  BY FolderFacts DEF RunInv
<1>2. \A j \in 1..(k - 1) : j \in 1..Len(logs)
  BY <1>1
<1>3. ASSUME Folder[k] # <<>>, NEW j \in 1..(k - 1), logs[j].aside
      PROVE  ~CommittedPrefixOf(Folder[k], Folder[j])
  <2>1. Folder[j] = <<>>
    BY <1>1, <1>2, <1>3 DEF RunInv, AsideEmpty
  <2> QED
    BY <1>1, <1>2, <1>3, <2>1, PrefixOpens
<1> QED
  BY <1>1, <1>2, <1>3 DEF IsRun, Original, RunInv, AsideEmpty

\* Starting a run or resuming the latest one.
LEMMA StartKeepsRuns ==
    ASSUME RunInv,
           \/ \E s \in Starts : StartFresh(s)
           \/ \E k \in 1..Len(logs) : StartResume(k)
    PROVE  RunFacts'
<1>1. /\ Len(Folder) = Len(logs) /\ Len(logs) \in Nat /\ FolderInv(Folder)
      /\ \A j \in 1..Len(logs) : Folder[j] = logs[j].groups /\ Folder[j] \in Seq(Group)
  BY FolderFacts DEF RunInv
<1>2. CASE \E s \in Starts : StartFresh(s)
  <2>1. PICK s \in Starts : StartFresh(s)
    BY <1>2
  <2>2. CreateLog(s, 0)
    BY <2>1 DEF StartFresh
  <2>3. \A k \in 1..Len(Folder) : ~OfRun(Folder, k, s)
    BY <1>1, <2>1 DEF StartFresh, OfRun, RunInv, AsideEmpty
  <2> QED
    BY <2>2, <2>3, CreateKeeps
<1>3. CASE \E k \in 1..Len(logs) : StartResume(k)
  <2>1. PICK k \in 1..Len(logs) : StartResume(k)
    BY <1>3
  <2> DEFINE s == logs[k].groups[1].id
  <2>2. /\ CreateLog(s, k) /\ IsRun(k) /\ \A j \in (k + 1)..Len(logs) : ~IsRun(j)
        /\ k \in Nat /\ k # 0
    BY <1>1, <2>1 DEF StartResume, IsLatest
  <2>3. OfRun(Folder, k, s) /\ s \in Starts
    BY <1>1, <2>2 DEF OfRun, IsRun, RunInv, RecorderInv, OpensWithStart
  <2>4. Original(Folder, k) /\ \A j \in (k + 1)..Len(Folder) : ~Original(Folder, j)
    <3>1. \A j \in (k + 1)..Len(Folder) : j \in 1..Len(Folder)
      BY <1>1
    <3> QED
      BY <1>1, <2>2, <3>1, RunIsOriginal
  <2> HIDE DEF s
  <2>5. \A j \in 1..Len(Folder) : OfRun(Folder, j, s) => CommittedPrefixOf(Folder[j], Folder[k])
    BY <1>1, <2>3, <2>4, LatestIsLongest
  <2> QED
    BY <1>1, <2>2, <2>3, <2>5, CreateKeeps
<1> QED
  BY <1>2, <1>3

\* A step that records the next group: what the process relies on goes on.
LEMMA RecordKeepsRuns ==
    ASSUME RunInv, NEW g \in Writing, Record(g),
           phase' = phase \/ (phase = "deciding" /\ phase' = "decided"),
           phase' = "deciding" => todo' \subseteq todo \ {g.id} /\ g.id \notin Inputs,
           UNCHANGED <<waiting, composed, start, source, poisoned, call>>
    PROVE  RunFacts'
<1>1. /\ logs' = Extend(g) /\ mem' = Append(mem, g) /\ next' = g.seq + 1
      /\ phase \in {"copying", "starting", "deciding"}
  BY DEF Record, Writing
<1>2. /\ FolderInv(Folder') /\ AsideEmpty' /\ Len(Folder') = Len(Folder)
      /\ LastGroups' = Append(LastGroups, g) /\ LastGroups'[1].id = start
  BY <1>1, WrittenKeeps
<1>3. \A k \in 1..Len(Folder) : IdsOf(Folder'[k]) \subseteq IdsOf(Folder[k]) \cup {g.id}
  BY <1>1, WrittenKeeps
<1>4. phase = "copying" =>
        /\ OfRun(Folder', source, start) /\ CommittedPrefixOf(LastGroups', Folder'[source])
        /\ \A j \in 1..Len(Folder) :
              OfRun(Folder', j, start) => CommittedPrefixOf(Folder'[j], Folder'[source])
  BY <1>1, WrittenKeeps
<1>5. phase # "copying" =>
        \A j \in 1..Len(Folder) : OfRun(Folder', j, start) => CommittedPrefixOf(Folder'[j], LastGroups')
  BY <1>1, WrittenKeeps
<1>6. WaitingFacts'
  <2>1. \A j \in 1..Len(Folder) : IdsOf(Folder'[j]) \cap Inputs \subseteq composed
    BY <1>1, WrittenKeeps
  <2>2. waiting # None => \A j \in 1..Len(Folder) :
            waiting.id \in IdsOf(Folder'[j]) => OfRun(Folder', j, waiting.run)
    BY <1>1, WrittenKeeps
  <2> QED
    BY <1>2, <2>1, <2>2 DEF RunInv, WaitingFacts
<1>7. /\ mem \in Seq(Group) /\ g \in Group /\ ~poisoned /\ Len(mem) \in Nat
      /\ Len(mem') = Len(mem) + 1 /\ IdsOf(mem') = IdsOf(mem) \cup {g.id}
  BY <1>1, WritingFacts, FolderFacts, AppendedId, AppendProperties, LenProperties DEF RunInv
<1>8. next' = Len(mem') + 1
  <2>1. g.seq = Len(mem) + 1
    <3>1. WellFormed(Append(LastGroups, g)) /\ mem = LastGroups
      BY WritingNext
    <3>2. Len(Append(mem, g)) = Len(mem) + 1 /\ Append(mem, g)[Len(mem) + 1] = g
          /\ Len(mem) + 1 \in 1..Len(Append(mem, g))
      BY <1>7, AppendProperties
    <3> QED
      BY <3>1, <3>2 DEF WellFormed
  <2> QED
    BY <1>1, <1>7, <2>1
<1>9. HeadFacts'
  <2>1. phase = "copying" => source # 0
    BY DEF RunInv, RecorderInv, PhaseFacts
  <2>2. /\ Resuming' <=> phase = "copying"
        /\ HeadGroups' = IF phase = "copying" THEN Folder'[source] ELSE LastGroups'
    BY <1>1, <2>1 DEF Resuming, HeadGroups
  <2>3. phase' \in {"serving", "deciding", "decided"} => Len(mem') >= 2
    <3>1. phase = "deciding" => Len(mem) >= 2
      BY DEF RunInv, HeadFacts
    <3> QED
      BY <1>1, <1>7, <3>1
  <2> QED
    BY <1>2, <1>4, <1>5, <1>8, <2>2, <2>3 DEF HeadFacts
<1>10. ExchangeFacts'
  <2>1. ASSUME phase' = "deciding"
        PROVE  /\ \A r \in todo' : \A k \in 1..Len(Folder') : r \notin IdsOf(Folder'[k])
               /\ call.id \notin IdsOf(mem')
    <3>1. phase = "deciding" /\ call.id \in Inputs
      BY <2>1, <1>1 DEF RunInv, RecorderInv, PhaseFacts, Call
    <3> QED
      BY <1>2, <1>3, <1>7, <2>1, <3>1 DEF RunInv, ExchangeFacts
  <2> QED
    BY <1>1, <2>1 DEF RunInv, ExchangeFacts
<1> QED
  BY <1>2, <1>6, <1>9, <1>10 DEF RunFacts

\* The four steps that record a group.
LEMMA RecordingKeepsRuns ==
    ASSUME RunInv, CopyGroup \/ RecordStart \/ (\E r \in Records : DeliverRecord(r)) \/ ApplyInput
    PROVE  RunFacts'
<1>1. CASE CopyGroup
  <2>1. PICK g \in Writing : Record(g)
    BY <1>1 DEF CopyGroup, Writing, RunInv, RecorderInv, TypeOK
  <2>2. phase = "copying"
    BY <1>1 DEF CopyGroup
  <2> QED
    BY <1>1, <2>1, <2>2, RecordKeepsRuns DEF CopyGroup, adapterVars, runVars, guardVars
<1>2. CASE RecordStart
  <2>1. PICK g \in Writing : Record(g)
    BY <1>2 DEF RecordStart, Writing
  <2>2. phase = "starting"
    BY <1>2 DEF RecordStart
  <2> QED
    BY <1>2, <2>1, <2>2, RecordKeepsRuns DEF RecordStart, adapterVars, runVars, guardVars
<1>3. CASE \E r \in Records : DeliverRecord(r)
  <2>1. PICK r \in Records : DeliverRecord(r)
    BY <1>3
  <2>2. Entry("record", r) \in Writing /\ Record(Entry("record", r))
    BY <2>1 DEF DeliverRecord, Writing
  <2>3. Entry("record", r).id = r /\ r \notin Inputs
    BY ConstantsAssumption DEF Entry
  <2> QED
    BY <2>1, <2>2, <2>3, RecordKeepsRuns DEF DeliverRecord, adapterVars, runVars
<1>4. CASE ApplyInput
  <2>1. Entry("input", call.id) \in Writing /\ Record(Entry("input", call.id))
    BY <1>4 DEF ApplyInput, Writing
  <2> QED
    BY <1>4, <2>1, RecordKeepsRuns DEF ApplyInput, adapterVars, runVars, guardVars
<1> QED
  BY <1>1, <1>2, <1>3, <1>4

\* A write cut short by a crash or a failed flush: the log may have gained the
\* group, and nothing is decided by this process any more.
LEMMA CutShortKeepsRuns ==
    ASSUME RunInv, Crash \/ DecideFails
    PROVE  RunFacts'
<1>1. /\ phase # "down" /\ mem' = mem
      /\ start' = start /\ source' = source /\ waiting' = waiting /\ composed' = composed
      /\ \/ phase' = "down"
         \/ phase = "deciding" /\ phase' = "serving" /\ poisoned'
      /\ logs' = logs \/ \E g \in Writing : logs' = Extend(g)
  BY DEF Crash, DecideFails, RecordFails, recorderVars, runVars, adapterVars
<1>2. /\ FolderInv(Folder') /\ AsideEmpty' /\ Len(Folder') = Len(Folder)
      /\ LastGroups' # <<>> => LastGroups'[1].id = start
      /\ phase = "deciding" =>
            \A j \in 1..Len(Folder) : OfRun(Folder', j, start) => CommittedPrefixOf(Folder'[j], LastGroups')
      /\ WaitingFacts'
  <2>1. CASE logs' = logs
    <3>1. Folder' = Folder /\ LastGroups' = LastGroups /\ AsideEmpty'
      BY <2>1, UnwrittenKeeps
    <3>2. phase = "deciding" => HeadGroups = LastGroups
      BY DEF HeadGroups, Resuming
    <3> QED
      BY <1>1, <3>1, <3>2 DEF RunInv, HeadFacts, WaitingFacts
  <2>2. CASE \E g \in Writing : logs' = Extend(g)
    <3>1. PICK g \in Writing : logs' = Extend(g)
      BY <2>2
    <3>2. /\ FolderInv(Folder') /\ AsideEmpty' /\ Len(Folder') = Len(Folder)
          /\ LastGroups'[1].id = start
      BY <3>1, WrittenKeeps
    <3>3. phase = "deciding" =>
            \A j \in 1..Len(Folder) : OfRun(Folder', j, start) => CommittedPrefixOf(Folder'[j], LastGroups')
      BY <3>1, WrittenKeeps
    <3>4. /\ \A j \in 1..Len(Folder) : IdsOf(Folder'[j]) \cap Inputs \subseteq composed
          /\ waiting # None => \A j \in 1..Len(Folder) :
                waiting.id \in IdsOf(Folder'[j]) => OfRun(Folder', j, waiting.run)
      BY <3>1, WrittenKeeps
    <3>5. WaitingFacts'
      BY <1>1, <3>2, <3>4 DEF RunInv, WaitingFacts
    <3> QED
      BY <3>2, <3>3, <3>5
  <2> QED
    BY <1>1, <2>1, <2>2
<1>3. HeadFacts'
  <2>1. CASE phase' = "down"
    BY <2>1 DEF HeadFacts
  <2>2. CASE phase = "deciding" /\ phase' = "serving" /\ poisoned'
    <3>1. HeadGroups' = LastGroups' /\ ~Resuming'
      BY <2>2 DEF HeadGroups, Resuming
    <3>2. Len(mem') >= 2
      BY <1>1, <2>2 DEF RunInv, HeadFacts
    <3> QED
      BY <1>1, <1>2, <2>2, <3>1, <3>2 DEF HeadFacts
  <2> QED
    BY <1>1, <2>1, <2>2
<1>4. ExchangeFacts'
  BY <1>1 DEF ExchangeFacts
<1> QED
  BY <1>2, <1>3, <1>4 DEF RunFacts

\* The steps that write no group, with the process in the same place.
LEMMA UnwrittenKeepsRuns ==
    ASSUME RunInv, Folder' = Folder, LastGroups' = LastGroups, AsideEmpty',
           mem' = mem, next' = next, start' = start, source' = source, composed' = composed,
           phase' = phase, poisoned' = poisoned, call' = call, todo' = todo, waiting' = waiting
    PROVE  RunFacts'
<1>1. Resuming' <=> Resuming
  BY DEF Resuming
<1>2. HeadGroups' = HeadGroups
  BY <1>1 DEF HeadGroups
<1> QED
  BY <1>1, <1>2 DEF RunFacts, RunInv, HeadFacts, ExchangeFacts, WaitingFacts

\* The start of a process that records nothing: the header, the end of the
\* copy, which is then all of the run resumed, and the first connection.
LEMMA StartingKeepsRuns ==
    ASSUME RunInv, WriteHeader \/ CopyDone \/ Listen
    PROVE  RunFacts'
<1>1. /\ phase # "down" /\ UNCHANGED <<mem, next, start, source, composed, waiting, poisoned, call, todo>>
      /\ logs' = logs \/ logs' = [logs EXCEPT ![Len(logs)].headed = TRUE]
  BY DEF WriteHeader, CopyDone, Listen, adapterVars, runVars, recorderVars, guardVars
<1>2. Folder' = Folder /\ LastGroups' = LastGroups /\ AsideEmpty'
  BY <1>1, UnwrittenKeeps
<1>3. WaitingFacts' /\ FolderInv(Folder')
  BY <1>1, <1>2 DEF RunInv, WaitingFacts
<1>4. ExchangeFacts'
  BY DEF WriteHeader, CopyDone, Listen, ExchangeFacts
<1>5. HeadFacts'
  <2>1. CASE WriteHeader
    <3>1. phase = "created" /\ phase' = IF source = 0 THEN "starting" ELSE "copying"
      BY <2>1 DEF WriteHeader
    <3>2. (Resuming' <=> Resuming) /\ HeadGroups' = HeadGroups
      BY <1>1, <1>2, <3>1 DEF Resuming, HeadGroups
    <3> QED
      BY <1>1, <1>2, <3>1, <3>2 DEF RunInv, HeadFacts
  <2>2. CASE CopyDone
    <3>1. /\ phase = "copying" /\ phase' = "starting" /\ source # 0 /\ source \in 1..Len(Folder)
          /\ mem = LastGroups /\ Len(mem) = Len(Folder[source])
      <4>1. phase = "copying" /\ phase' = "starting" /\ Len(mem) = Len(logs[source].groups)
        BY <2>2 DEF CopyDone
      <4>2. source \in Nat /\ source # 0 /\ source < Len(logs) /\ mem = LastGroups
        BY <4>1 DEF RunInv, RecorderInv, TypeOK, Running, PhaseFacts
      <4>3. Len(Folder) = Len(logs) /\ Len(logs) \in Nat
            /\ \A k \in 1..Len(logs) : Folder[k] = logs[k].groups
        BY FolderFacts DEF RunInv
      <4> QED
        BY <4>1, <4>2, <4>3
    <3>2. HeadGroups = Folder[source] /\ HeadGroups' = LastGroups /\ ~Resuming'
      BY <1>2, <3>1 DEF HeadGroups, Resuming
    <3>3. CommittedPrefixOf(LastGroups, Folder[source])
      BY <1>1, <3>1 DEF RunInv, HeadFacts, Resuming
    <3>4. /\ LastGroups \in Seq(Group)
          /\ \A k \in 1..Len(Folder) : Folder[k] \in Seq(Group)
      BY <1>1, FolderFacts DEF RunInv
    <3>5. CommittedPrefixOf(Folder[source], LastGroups)
      BY <3>1, <3>3, <3>4 DEF CommittedPrefixOf
    <3>6. \A j \in 1..Len(Folder) : OfRun(Folder, j, start) => CommittedPrefixOf(Folder[j], LastGroups)
      <4>1. \A j \in 1..Len(Folder) : OfRun(Folder, j, start) => CommittedPrefixOf(Folder[j], Folder[source])
        BY <1>1, <3>2 DEF RunInv, HeadFacts
      <4> QED
        BY <3>1, <3>4, <3>5, <4>1, PrefixTransitive
    <3> QED
      BY <1>1, <1>2, <3>1, <3>2, <3>6 DEF RunInv, HeadFacts
  <2>3. CASE Listen
    <3>1. phase = "starting" /\ phase' = "serving" /\ Len(mem) >= 2
      BY <2>3 DEF Listen
    <3>2. HeadGroups = LastGroups /\ HeadGroups' = LastGroups /\ ~Resuming'
      BY <1>2, <3>1 DEF HeadGroups, Resuming
    <3> QED
      BY <1>1, <1>2, <3>1, <3>2 DEF RunInv, HeadFacts
  <2> QED
    BY <2>1, <2>2, <2>3
<1> QED
  BY <1>2, <1>3, <1>4, <1>5 DEF RunFacts

\* The head of the run is the log being written while a process serves it.
LEMMA ServingHead ==
    ASSUME RunInv, phase \in {"serving", "deciding", "decided"}
    PROVE  \A j \in 1..Len(Folder) : OfRun(Folder, j, start) => CommittedPrefixOf(Folder[j], LastGroups)
  BY DEF RunInv, HeadFacts, HeadGroups, Resuming

\* The exchange's own steps: the input asked for is new when it is applied,
\* and so is every record listed with it.
LEMMA ExchangeKeepsRuns ==
    ASSUME RunInv,
           \/ AskRefused \/ AskCommitted \/ AskOutOfSequence \/ AskNew
           \/ Abandon \/ AbandonedEnds \/ Reply \/ Stop
    PROVE  RunFacts'
<1>1. /\ logs' = logs /\ phase \in {"serving", "deciding", "decided"}
      /\ UNCHANGED <<mem, next, start, source, composed>>
      /\ phase' = "down" \/ phase' \in {"serving", "deciding", "decided"}
      /\ poisoned' = poisoned \/ poisoned'
  BY DEF AskRefused, AskCommitted, AskOutOfSequence, AskNew, Asking, Abandon, AbandonedEnds, Reply, Stop,
      adapterVars, runVars, recorderVars, guardVars
<1>2. Folder' = Folder /\ LastGroups' = LastGroups /\ AsideEmpty'
  BY <1>1, UnwrittenKeeps
<1>3. waiting' = waiting \/ waiting' = None
  BY DEF AskRefused, AskCommitted, AskOutOfSequence, AskNew, Release, Abandon, AbandonedEnds, Reply, Stop,
      adapterVars
<1>4. FolderInv(Folder') /\ WaitingFacts'
  BY <1>1, <1>2, <1>3 DEF RunInv, WaitingFacts
<1>5. HeadFacts'
  <2>1. \A j \in 1..Len(Folder) : OfRun(Folder, j, start) => CommittedPrefixOf(Folder[j], LastGroups)
    BY <1>1, ServingHead
  <2>2. phase' # "down" => HeadGroups' = LastGroups /\ ~Resuming'
    BY <1>1, <1>2 DEF HeadGroups, Resuming
  <2> QED
    BY <1>1, <1>2, <2>1, <2>2 DEF RunInv, HeadFacts
<1>6. ExchangeFacts'
  <2>1. CASE AskNew
    <3>1. /\ phase' = "deciding" /\ waiting # None /\ waiting.run = start /\ waiting' = waiting
          /\ call'.id = waiting.id /\ call'.seq = waiting.seq
          /\ waiting.id \notin IdsOf(mem) /\ todo' \subseteq Pending
      BY <2>1 DEF AskNew, Asking, IsCommitted, adapterVars
    <3>2. ASSUME NEW r \in todo', NEW k \in 1..Len(Folder), r \in IdsOf(Folder[k])
          PROVE  FALSE
      <4>1. r \notin Journalled
        BY <3>1 DEF Pending
      <4>2. Len(Folder) = Len(logs) /\ Folder[k] = logs[k].groups
        BY FolderFacts DEF RunInv
      <4>3. ~logs[k].aside
        <5>1. Folder[k] # <<>>
          BY <3>2 DEF IdsOf
        <5> QED
          BY <4>2, <5>1 DEF RunInv, AsideEmpty
      <4> QED
        BY <3>2, <4>1, <4>2, <4>3 DEF Journalled
    <3> QED
      BY <1>1, <1>2, <3>1, <3>2 DEF ExchangeFacts
  <2>2. CASE Abandon
    <3>1. /\ phase \in {"deciding", "decided"} /\ phase' = phase /\ todo' = todo /\ waiting' = waiting
          /\ call' = [call EXCEPT !.abandoned = TRUE] /\ call \in Call
      BY <2>2 DEF Abandon, RunInv, RecorderInv, PhaseFacts
    <3>2. call'.id = call.id /\ call'.seq = call.seq
      BY <3>1 DEF Call
    <3> QED
      BY <1>1, <1>2, <3>1, <3>2 DEF RunInv, ExchangeFacts
  <2>3. CASE ~AskNew /\ ~Abandon
    <3>1. phase' \notin {"deciding", "decided"}
      BY <2>3 DEF AskRefused, AskCommitted, AskOutOfSequence, Asking, AbandonedEnds, Reply, Stop
    <3> QED
      BY <3>1 DEF ExchangeFacts
  <2> QED
    BY <2>1, <2>2, <2>3
<1> QED
  BY <1>2, <1>4, <1>5, <1>6 DEF RunFacts

\* The adapter's and the owner's steps: an input is composed under a new ID.
LEMMA OutsideKeepsRuns ==
    ASSUME RunInv,
           \/ \E k \in 1..Len(logs) : Quarantine(k)
           \/ \E i \in Inputs : Compose(i)
           \/ SettleEndedRun
           \/ \E r \in Records : WriteRecord(r)
    PROVE  RunFacts'
<1>1. CASE \E k \in 1..Len(logs) : Quarantine(k)
  <2>1. \E k \in 1..Len(logs) : ~logs[k].headed /\ logs' = [logs EXCEPT ![k].aside = TRUE]
    BY <1>1 DEF Quarantine
  <2>2. Folder' = Folder /\ LastGroups' = LastGroups /\ AsideEmpty'
    BY <2>1, UnwrittenKeeps
  <2> QED
    BY <1>1, <2>2, UnwrittenKeepsRuns DEF Quarantine, adapterVars, runVars, recorderVars, guardVars
<1>2. CASE \E r \in Records : WriteRecord(r)
  <2>1. logs' = logs
    BY <1>2 DEF WriteRecord
  <2>2. Folder' = Folder /\ LastGroups' = LastGroups /\ AsideEmpty'
    BY <2>1, UnwrittenKeeps
  <2> QED
    BY <1>2, <2>2, UnwrittenKeepsRuns DEF WriteRecord, adapterVars, runVars, recorderVars, guardVars
<1>3. CASE SettleEndedRun \/ \E i \in Inputs : Compose(i)
  <2>1. /\ logs' = logs /\ phase = "serving" /\ phase' = "serving"
        /\ UNCHANGED <<mem, next, start, source, poisoned, call, todo>>
    BY <1>3 DEF SettleEndedRun, Compose, runVars, recorderVars, guardVars
  <2>2. Folder' = Folder /\ LastGroups' = LastGroups /\ AsideEmpty'
    BY <2>1, UnwrittenKeeps
  <2>3. HeadFacts'
    <3>1. HeadGroups' = HeadGroups /\ ~Resuming'
      BY <2>1, <2>2 DEF HeadGroups, Resuming
    <3> QED
      BY <2>1, <2>2, <3>1 DEF RunInv, HeadFacts
  <2>4. ExchangeFacts'
    BY <2>1 DEF ExchangeFacts
  <2>5. WaitingFacts'
    <3>1. CASE SettleEndedRun
      BY <2>2, <3>1 DEF SettleEndedRun, RunInv, WaitingFacts
    <3>2. CASE \E i \in Inputs : Compose(i)
      <4>1. PICK i \in Inputs : Compose(i)
        BY <3>2
      <4>2. i \notin composed /\ composed' = composed \cup {i} /\ waiting'.id = i
        BY <4>1 DEF Compose
      <4>3. \A j \in 1..Len(Folder) : i \notin IdsOf(Folder[j])
        BY <4>2 DEF RunInv, WaitingFacts
      <4> QED
        BY <2>2, <4>2, <4>3 DEF RunInv, WaitingFacts
    <3> QED
      BY <1>3, <3>1, <3>2
  <2> QED
    BY <2>2, <2>3, <2>4, <2>5 DEF RunFacts, RunInv
<1> QED
  BY <1>1, <1>2, <1>3

\* Before any start the folder is empty.
LEMMA InitRuns == Init => RunInv
<1> SUFFICES ASSUME Init PROVE RunInv
  OBVIOUS
<1>1. RecorderInv /\ logs = <<>> /\ Len(logs) = 0 /\ phase = "down" /\ waiting = None
  BY InitRecorder, EmptySeq DEF Init
<1>2. Folder \in Folders /\ Len(Folder) = 0
  BY <1>1, FolderFacts
<1>3. FolderInv(Folder)
  BY <1>2 DEF FolderInv, Comparable, Covered, OneRunPerId
<1> QED
  BY <1>1, <1>2, <1>3 DEF RunInv, AsideEmpty, HeadFacts, ExchangeFacts, WaitingFacts

\* Every step keeps the folder's invariant.
LEMMA RunStep ==
    ASSUME RunInv, [Next]_vars
    PROVE  RunInv'
<1>1. RecorderInv'
  BY RecorderStep DEF RunInv
<1>2. RunFacts'
  <2>1. CASE UNCHANGED vars
    <3>1. logs' = logs
      BY <2>1 DEF vars
    <3>2. Folder' = Folder /\ LastGroups' = LastGroups /\ AsideEmpty'
      BY <3>1, UnwrittenKeeps
    <3> QED
      BY <2>1, <3>2, UnwrittenKeepsRuns DEF vars, adapterVars, runVars, recorderVars, guardVars
  <2>2. CASE Next
    BY <2>2, StartKeepsRuns, RecordingKeepsRuns, CutShortKeepsRuns, StartingKeepsRuns, ExchangeKeepsRuns,
        OutsideKeepsRuns DEF Next
  <2> QED
    BY <2>1, <2>2
<1> QED
  BY <1>1, <1>2 DEF RunInv, RunFacts

\* The folder's invariant holds in every reachable state.
LEMMA RunAlways == Spec => []RunInv
  BY InitRuns, RunStep, PTL DEF Spec

\* A step creates an empty log, writes a group or leaves the folder's contents.
LEMMA FolderStep ==
    ASSUME RunInv, [Next]_vars
    PROVE  \/ Folder' = Folder
           \/ /\ Len(Folder') = Len(Folder) + 1 /\ Folder'[Len(Folder) + 1] = <<>>
              /\ \A k \in 1..Len(Folder) : Folder'[k] = Folder[k]
           \/ \E g \in Writing : logs' = Extend(g)
<1>1. CASE \E f \in File : f.groups = <<>> /\ logs' = Append(logs, f)
  <2>1. PICK f \in File : f.groups = <<>> /\ logs' = Append(logs, f)
    BY <1>1
  <2>2. /\ logs \in Seq(File) /\ Len(Folder) = Len(logs) /\ Len(logs) \in Nat
        /\ \A k \in 1..Len(logs) : Folder[k] = logs[k].groups
    BY FolderFacts DEF RunInv
  <2>3. /\ logs' \in Seq(File) /\ Len(logs') = Len(logs) + 1 /\ logs'[Len(logs) + 1] = f
        /\ \A k \in 1..Len(logs) : logs'[k] = logs[k]
    BY <2>1, <2>2, AppendProperties
  <2>4. /\ Len(Folder') = Len(logs') /\ \A k \in 1..Len(logs') : Folder'[k] = logs'[k].groups
    BY <2>3, FolderOfFiles DEF Folder
  <2>5. 1..Len(logs) \subseteq 1..Len(logs') /\ Len(logs) + 1 \in 1..Len(logs')
    BY <2>2, <2>3
  <2> QED
    BY <2>1, <2>2, <2>3, <2>4, <2>5
<1>2. CASE \/ logs' = logs
           \/ phase # "down" /\ logs' = [logs EXCEPT ![Len(logs)].headed = TRUE]
           \/ \E k \in 1..Len(logs) : ~logs[k].headed /\ logs' = [logs EXCEPT ![k].aside = TRUE]
  BY <1>2, UnwrittenKeeps
<1> QED
  BY <1>1, <1>2, LogsStep DEF RunInv

\* The folder only grows, each of its logs too.
LEMMA FolderGrows ==
    ASSUME RunInv, [Next]_vars, NEW k \in 1..Len(Folder)
    PROVE  /\ k \in 1..Len(Folder') /\ CommittedPrefixOf(Folder[k], Folder'[k])
           /\ Folder[k] \in Seq(Group) /\ Folder'[k] \in Seq(Group)
<1>1. RecorderInv' /\ LogsGrow
  BY RecorderStep, LogsGrowStep DEF RunInv
<1>2. /\ Len(Folder) = Len(logs) /\ Len(logs) \in Nat
      /\ Folder[k] = logs[k].groups /\ Folder[k] \in Seq(Group)
  BY FolderFacts DEF RunInv
<1>3. /\ Len(Folder') = Len(logs') /\ Len(logs') \in Nat
      /\ \A j \in 1..Len(logs') : Folder'[j] = logs'[j].groups /\ Folder'[j] \in Seq(Group)
  <2>1. logs' \in Seq(File)
    BY <1>1 DEF RecorderInv, TypeOK
  <2> QED
    BY <2>1, FolderOfFiles DEF Folder
<1>4. k \in 1..Len(logs')
  BY <1>1, <1>2, <1>3 DEF LogsGrow
<1> QED
  BY <1>1, <1>2, <1>3, <1>4 DEF LogsGrow

-----------------------------------------------------------------------------
(***************************************************************************)
(* What the folder guarantees.                                             *)
(***************************************************************************)
\* No log misses a sequence or applies an input or a record twice, whatever
\* writes failed and however often a run was resumed: journal.Resume never
\* meets a log it must refuse.
THEOREM LogsContiguous == Spec => []LogContiguous
<1>1. ASSUME RunInv PROVE LogContiguous
  <2>1. /\ Len(Folder) = Len(logs)
        /\ \A k \in 1..Len(logs) : Folder[k] = logs[k].groups /\ Folder[k] \in Seq(Group)
    BY <1>1, FolderFacts DEF RunInv
  <2>2. ASSUME NEW g \in Seq(Group), WellFormed(g)
        PROVE  /\ \A n \in 1..Len(g) : g[n].seq = n
               /\ \A m, n \in 1..Len(g) : g[m].id = g[n].id /\ g[m].kind = g[n].kind => m = n
    <3>1. ASSUME NEW m \in 1..Len(g), NEW n \in 1..Len(g), g[m].kind = g[n].kind, m <= 2, n <= 2
          PROVE  m = n
      <4>1. (m = 1 <=> n = 1) /\ (m = 2 <=> n = 2)
        BY <2>2, <3>1 DEF WellFormed
      <4> QED
        BY <3>1, <4>1
    <3> QED
      BY <2>2, <3>1 DEF WellFormed
  <2> QED
    BY <1>1, <2>1, <2>2, ZenonT(60) DEF RunInv, FolderInv, LogContiguous
<1> QED
  BY <1>1, RunAlways, PTL

\* Logs of one run open with one group, the configuration of the run.
LEMMA SameRunOpens ==
    ASSUME RunInv, NEW j \in 1..Len(Folder), NEW k \in 1..Len(Folder), NEW s \in Starts,
           OfRun(Folder, j, s), OfRun(Folder, k, s)
    PROVE  Folder[j][1] = Folder[k][1]
<1>1. Folder[j] \in Seq(Group) /\ Folder[k] \in Seq(Group)
  BY FolderFacts DEF RunInv
<1>2. CommittedPrefixOf(Folder[j], Folder[k]) \/ CommittedPrefixOf(Folder[k], Folder[j])
  BY DEF RunInv, FolderInv, Comparable
<1> QED
  BY <1>1, <1>2, PrefixOpens DEF OfRun

\* The operator's record is an input of one run, however many processes and
\* runs find it in the inbox: a clearance is not given twice.
THEOREM RecordsOfOneRun == Spec => []RecordOfOneRun
<1>1. ASSUME RunInv PROVE RecordOfOneRun
  <2>1. /\ Len(Folder) = Len(logs)
        /\ \A k \in 1..Len(logs) : Folder[k] = logs[k].groups /\ Folder[k] \in Seq(Group)
    BY <1>1, FolderFacts DEF RunInv
  <2>2. ASSUME NEW r \in Records, NEW j \in 1..Len(Folder), NEW k \in 1..Len(Folder),
               r \in IdsOf(Folder[j]), r \in IdsOf(Folder[k])
        PROVE  Folder[j][1] = Folder[k][1]
    <3>1. Folder[j] # <<>> /\ Folder[k] # <<>>
      BY <2>2 DEF IdsOf
    <3>2. Folder[j][1].id = Folder[k][1].id
      BY <1>1, <2>2 DEF RunInv, FolderInv, OneRunPerId
    <3>3. Folder[j][1].id \in Starts
      BY <1>1, <2>1, <3>1 DEF RunInv, RecorderInv, OpensWithStart
    <3> QED
      BY <1>1, <3>1, <3>2, <3>3, SameRunOpens DEF OfRun
  <2> QED
    BY <2>1, <2>2 DEF RecordOfOneRun
<1> QED
  BY <1>1, RunAlways, PTL

\* What is journalled stays journalled.
LEMMA JournalledGrows ==
    ASSUME RecorderInv, [Next]_vars
    PROVE  Journalled \subseteq Journalled'
<1>1. ASSUME NEW k \in 1..Len(logs), ~logs[k].aside, NEW x \in IdsOf(logs[k].groups)
      PROVE  x \in Journalled'
  <2>1. LogsGrow /\ RecorderInv'
    BY LogsGrowStep, RecorderStep
  <2>2. /\ logs \in Seq(File) /\ logs' \in Seq(File) /\ Len(logs) \in Nat /\ Len(logs') \in Nat
    BY <2>1 DEF RecorderInv, TypeOK
  <2>3. k \in 1..Len(logs') /\ CommittedPrefixOf(logs[k].groups, logs'[k].groups)
    BY <2>1, <2>2 DEF LogsGrow
  <2>4. logs[k] \in File /\ logs'[k] \in File
    BY <2>2, <2>3, ElementOfSeq
  <2>5. logs[k].groups \in Seq(Group) /\ logs'[k].groups \in Seq(Group)
    BY <2>4 DEF File
  <2>6. x \in IdsOf(logs'[k].groups)
    BY <1>1, <2>3, <2>5, PrefixIds
  <2>7. ~logs'[k].aside
    <3>1. logs[k].groups # <<>>
      BY <1>1 DEF IdsOf
    <3> QED
      BY <1>1, <2>1, <3>1 DEF LogsGrow
  <2> QED
    BY <2>3, <2>6, <2>7 DEF Journalled
<1> QED
  BY <1>1 DEF Journalled

\* A record is settled in the inbox only once some log holds it, whichever of
\* the flush, the marker and the process fails first.
THEOREM MarkedOnlyJournalled == Spec => []MarkedIsJournalled
<1>1. Init => MarkedIsJournalled
  BY DEF Init, MarkedIsJournalled
<1>2. ASSUME RunInv, MarkedIsJournalled, [Next]_vars PROVE MarkedIsJournalled'
  <2>1. Journalled \subseteq Journalled'
    BY <1>2, JournalledGrows DEF RunInv
  <2>2. CASE AskNew
    <3>1. noted' \subseteq noted \cup Journalled \cup Misdated
      BY <2>2 DEF AskNew
    <3> QED
      BY <1>2, <2>1, <3>1 DEF MarkedIsJournalled
  <2>3. CASE \E r \in Records : DeliverRecord(r)
    <3>1. PICK r \in Records : DeliverRecord(r)
      BY <2>3
    <3>2. Entry("record", r) \in Writing /\ Record(Entry("record", r)) /\ noted' \subseteq noted \cup {r}
      BY <3>1 DEF DeliverRecord, Writing
    <3>3. /\ logs' # <<>> /\ ~logs'[Len(logs')].aside /\ mem' = LastGroups'
          /\ IdsOf(mem') = IdsOf(mem) \cup {Entry("record", r).id} /\ logs' \in Seq(File)
      BY <1>2, <3>2, RecordFacts DEF RunInv
    <3>4. r \in IdsOf(LastGroups')
      BY <3>3 DEF Entry
    <3>5. Len(logs') \in 1..Len(logs')
      BY <3>3, EmptySeq
    <3>6. r \in Journalled'
      BY <3>3, <3>4, <3>5 DEF Journalled, LastGroups
    <3> QED
      BY <1>2, <2>1, <3>2, <3>6 DEF MarkedIsJournalled
  <2>4. CASE ~AskNew /\ ~\E r \in Records : DeliverRecord(r)
    <3>1. noted' = noted
      BY <1>2, <2>4 DEF Next, vars, ownerVars, StartFresh, StartResume, CreateLog, Quarantine, WriteHeader,
          CopyGroup, CopyDone, RecordStart, Listen, Crash, Stop, AskRefused, AskCommitted, AskOutOfSequence,
          WriteRecord, ApplyInput, DecideFails, Abandon, AbandonedEnds, Reply, Compose, SettleEndedRun
    <3> QED
      BY <1>2, <2>1, <3>1 DEF MarkedIsJournalled
  <2> QED
    BY <2>2, <2>3, <2>4
<1> QED
  BY <1>1, <1>2, RunAlways, PTL DEF Spec

\* The operator's record is delivered once: no crash between its commit and its marker
\* gives it to a second run, and none leaves a marker without its record.
THEOREM RecordsDeliveredOnce == Spec => []RecordDeliveredOnce
<1>1. RecordOfOneRun /\ MarkedIsJournalled => RecordDeliveredOnce
  BY DEF RecordDeliveredOnce
<1> QED
  BY <1>1, RecordsOfOneRun, MarkedOnlyJournalled, PTL

-----------------------------------------------------------------------------
(***************************************************************************)
(* What was released: one reply per input, and kept by every restart.      *)
(***************************************************************************)
\* A reply opens with the start of its run and ends with its own input.
ReplyShape ==
    \A t \in told :
        /\ t.groups # <<>> /\ t.groups[1].id = t.run
        /\ t.groups[Len(t.groups)].id = t.id

\* What a serving process answers is of its run and ends with the input.
LEMMA ReplyShaped ==
    ASSUME RunInv, phase # "down", NEW i \in Inputs, i \in IdsOf(mem)
    PROVE  /\ ReplyTo(i).groups # <<>> /\ ReplyTo(i).groups[1].id = ReplyTo(i).run
           /\ ReplyTo(i).groups[Len(ReplyTo(i).groups)].id = ReplyTo(i).id
<1> DEFINE p == PositionOf(i)
           r == SubSeq(mem, 1, p)
<1>1. /\ mem \in Seq(Group) /\ LastGroups \in Seq(Group) /\ CommittedPrefixOf(mem, LastGroups)
  BY LastLogFacts DEF RunInv, RecorderInv, Running
<1>2. p \in 1..Len(mem) /\ mem[p].id = i
  BY <1>1, PositionFacts
<1>3. /\ r \in Seq(Group) /\ Len(r) = p /\ r[1] = mem[1] /\ r[p] = mem[p] /\ r # <<>>
  <2>1. \A k \in 1..p : mem[k] \in Group
    BY <1>1, <1>2, ElementOfSeq
  <2>2. r \in Seq(Group) /\ Len(r) = p /\ \A k \in 1..p : r[k] = mem[k]
    BY <1>1, <1>2, <2>1, SubSeqProperties
  <2>3. p \in Nat /\ p # 0 /\ 1 \in 1..p /\ p \in 1..p
    BY <1>2
  <2>4. r # <<>>
    BY <2>2, <2>3, EmptySeq
  <2> HIDE DEF r, p
  <2> QED
    BY <2>2, <2>3, <2>4
<1>4. mem[1].id = start
  <2>1. mem # <<>>
    BY <1>2
  <2>2. LastGroups # <<>> /\ mem[1] = LastGroups[1]
    BY <1>1, <2>1, PrefixOpens
  <2> QED
    BY <2>2 DEF RunInv, HeadFacts
<1>5. ReplyTo(i).groups = r /\ ReplyTo(i).run = start /\ ReplyTo(i).id = i
  BY DEF ReplyTo
<1> HIDE DEF p, r
<1> QED
  BY <1>2, <1>3, <1>4, <1>5

\* Every reply that left the engine has that shape.
LEMMA RepliesShaped == Spec => []ReplyShape
<1>1. Init => ReplyShape
  BY DEF Init, ReplyShape
<1>2. ASSUME RunInv, ReplyShape, [Next]_vars PROVE ReplyShape'
  <2>1. CASE told' = told
    BY <1>2, <2>1 DEF ReplyShape
  <2>2. CASE \E i \in Inputs : i \in IdsOf(mem) /\ phase # "down" /\ told' = told \cup {ReplyTo(i)}
    <3>1. PICK i \in Inputs : i \in IdsOf(mem) /\ phase # "down" /\ told' = told \cup {ReplyTo(i)}
      BY <2>2
    <3>2. /\ ReplyTo(i).groups # <<>> /\ ReplyTo(i).groups[1].id = ReplyTo(i).run
          /\ ReplyTo(i).groups[Len(ReplyTo(i).groups)].id = ReplyTo(i).id
      BY <1>2, <3>1, ReplyShaped
    <3> QED
      BY <1>2, <3>1, <3>2 DEF ReplyShape
  <2> QED
    BY <1>2, <2>1, <2>2, ToldStep DEF RunInv
<1> QED
  BY <1>1, <1>2, RunAlways, PTL DEF Spec

\* A released reply is the beginning of a log of its run.
LEMMA ReplyInFolder ==
    ASSUME RunInv, ReplyShape, JournalBeforeSend, NEW t \in told
    PROVE  /\ t \in Told /\ t.groups \in Seq(Group) /\ t.groups # <<>> /\ Len(t.groups) \in 1..Len(t.groups)
           /\ \E k \in 1..Len(Folder) :
                CommittedPrefixOf(t.groups, Folder[k]) /\ OfRun(Folder, k, t.run) /\ t.id \in IdsOf(Folder[k])
<1>1. t \in Told /\ t.groups \in Seq(Group) /\ t.groups # <<>> /\ t.groups[1].id = t.run
      /\ t.groups[Len(t.groups)].id = t.id
  BY DEF RunInv, RecorderInv, TypeOK, Told, ReplyShape
<1>2. Len(t.groups) \in 1..Len(t.groups) /\ DOMAIN t.groups = 1..Len(t.groups)
  BY <1>1, EmptySeq
<1>3. PICK k \in 1..Len(logs) : CommittedPrefixOf(t.groups, logs[k].groups)
  BY DEF JournalBeforeSend
<1>4. k \in 1..Len(Folder) /\ Folder[k] = logs[k].groups /\ Folder[k] \in Seq(Group)
  BY FolderFacts DEF RunInv
<1>5. OfRun(Folder, k, t.run)
  BY <1>1, <1>3, <1>4, PrefixOpens DEF OfRun
<1>6. t.id \in IdsOf(Folder[k])
  <2>1. t.id \in IdsOf(t.groups)
    BY <1>1, <1>2 DEF IdsOf
  <2> QED
    BY <1>1, <1>3, <1>4, <2>1, PrefixIds
<1> QED
  BY <1>1, <1>2, <1>3, <1>4, <1>5, <1>6

\* Two beginnings of a log that end with the same input are the same.
LEMMA BeginningsAgree ==
    ASSUME NEW c \in Seq(Group), WellFormed(c), NEW a \in Seq(Group), NEW b \in Seq(Group), NEW i \in Inputs,
           CommittedPrefixOf(a, c), CommittedPrefixOf(b, c),
           Len(a) \in 1..Len(a), Len(b) \in 1..Len(b), a[Len(a)].id = i, b[Len(b)].id = i
    PROVE  a = b
<1> DEFINE m == Len(a)
           n == Len(b)
<1>1. /\ m \in Nat /\ n \in Nat /\ Len(c) \in Nat /\ m \in 1..Len(c) /\ n \in 1..Len(c)
      /\ \A k \in 1..m : a[k] = c[k]
      /\ \A k \in 1..n : b[k] = c[k]
  BY DEF CommittedPrefixOf
<1>2. c[m].id = i /\ c[n].id = i
  BY <1>1
<1>3. ~(m <= 2)
  BY <1>1, <1>2, ConstantsAssumption DEF WellFormed
<1>4. m = n
  BY <1>1, <1>2, <1>3 DEF WellFormed
<1>5. \A k \in 1..Len(a) : a[k] = b[k]
  BY <1>1, <1>4
<1> QED
  BY <1>4, <1>5, SeqEqual

\* The groups a are, in the folder f, the input i with all it rests on.
GivenIn(f, i, a) ==
    /\ a \in Seq(Group) /\ Len(a) \in 1..Len(a) /\ a[Len(a)].id = i
    /\ \E k \in 1..Len(f) : CommittedPrefixOf(a, f[k])

\* An input rests on the same groups in whichever log of the folder it is.
LEMMA RepliesAgree ==
    ASSUME NEW f, FolderInv(f), NEW i \in Inputs, NEW a, NEW b, GivenIn(f, i, a), GivenIn(f, i, b)
    PROVE  a = b
<1>1. /\ a \in Seq(Group) /\ Len(a) \in 1..Len(a) /\ a[Len(a)].id = i
      /\ b \in Seq(Group) /\ Len(b) \in 1..Len(b) /\ b[Len(b)].id = i
  BY DEF GivenIn
<1>2. PICK j \in 1..Len(f) : CommittedPrefixOf(a, f[j])
  BY DEF GivenIn
<1>3. PICK k \in 1..Len(f) : CommittedPrefixOf(b, f[k])
  BY DEF GivenIn
<1>4. f[j] \in Seq(Group) /\ f[k] \in Seq(Group) /\ WellFormed(f[j]) /\ WellFormed(f[k])
  BY ElementOfSeq DEF FolderInv, Folders
<1>5. i \in IdsOf(f[j]) /\ i \in IdsOf(f[k])
  <2>1. DOMAIN a = 1..Len(a) /\ DOMAIN b = 1..Len(b)
    BY <1>1
  <2>2. i \in IdsOf(a) /\ i \in IdsOf(b)
    BY <1>1, <2>1 DEF IdsOf
  <2> QED
    BY <1>1, <1>2, <1>3, <1>4, <2>2, PrefixIds
<1>6. CommittedPrefixOf(f[j], f[k]) \/ CommittedPrefixOf(f[k], f[j])
  <2>1. f[j] # <<>> /\ f[k] # <<>>
    BY <1>5 DEF IdsOf
  <2>2. f[j][1].id = f[k][1].id
    BY <1>5 DEF FolderInv, OneRunPerId
  <2>3. 1 \in 1..Len(f[j])
    BY <1>4, <2>1, EmptySeq
  <2>4. f[j][1].id \in Starts
    BY <1>4, <2>3 DEF WellFormed
  <2> QED
    BY <2>1, <2>2, <2>4 DEF FolderInv, Comparable, OfRun
<1>7. CASE CommittedPrefixOf(f[j], f[k])
  <2>1. CommittedPrefixOf(a, f[k])
    BY <1>1, <1>2, <1>4, <1>7, PrefixTransitive
  <2> QED
    BY <1>1, <1>3, <1>4, <2>1, BeginningsAgree
<1>8. CASE CommittedPrefixOf(f[k], f[j])
  <2>1. CommittedPrefixOf(b, f[j])
    BY <1>1, <1>3, <1>4, <1>8, PrefixTransitive
  <2> QED
    BY <1>1, <1>2, <1>4, <2>1, BeginningsAgree
<1> QED
  BY <1>6, <1>7, <1>8

\* Re-delivery: an input has one reply, asked for however often, in one
\* process or after crashes, failed writes and abandoned resumes.
THEOREM OneReply == Spec => []OneReplyPerInput
<1>1. ASSUME RunInv, ReplyShape, JournalBeforeSend PROVE OneReplyPerInput
  <2> SUFFICES ASSUME NEW a \in told, NEW b \in told, a.id = b.id PROVE a = b
    BY DEF OneReplyPerInput
  <2>1. /\ a \in Told /\ a.groups \in Seq(Group) /\ Len(a.groups) \in 1..Len(a.groups)
        /\ b \in Told /\ b.groups \in Seq(Group) /\ Len(b.groups) \in 1..Len(b.groups)
    BY <1>1, ReplyInFolder
  <2>2. PICK j \in 1..Len(Folder) :
            CommittedPrefixOf(a.groups, Folder[j]) /\ OfRun(Folder, j, a.run) /\ a.id \in IdsOf(Folder[j])
    BY <1>1, ReplyInFolder
  <2>3. PICK k \in 1..Len(Folder) :
            CommittedPrefixOf(b.groups, Folder[k]) /\ OfRun(Folder, k, b.run) /\ b.id \in IdsOf(Folder[k])
    BY <1>1, ReplyInFolder
  <2>4. a.id \in Inputs /\ a.run \in Starts /\ b.run \in Starts
    BY <2>1 DEF Told
  <2>5. a.run = b.run
    BY <1>1, <2>2, <2>3, <2>4 DEF RunInv, FolderInv, OneRunPerId, OfRun
  <2>6. a.groups = b.groups
    <3>1. a.groups[Len(a.groups)].id = a.id /\ b.groups[Len(b.groups)].id = a.id
      BY <1>1 DEF ReplyShape
    <3> QED
      BY <1>1, <2>1, <2>2, <2>3, <2>4, <3>1, RepliesAgree DEF RunInv, GivenIn
  <2> QED
    BY <2>1, <2>5, <2>6 DEF Told
<1> QED
  BY <1>1, RunAlways, RepliesShaped, JournalledBeforeSent, PTL

\* Until a failed write poisons it, a serving process has all its run released.
ReleasedWhileHealthy ==
    phase \in {"serving", "deciding", "decided"} /\ ~poisoned =>
        \A t \in told : t.run = start => CommittedPrefixOf(t.groups, mem)

\* What a poisoned process has, it had before: it releases nothing more.
LEMMA PoisonedKeeps ==
    ASSUME RecorderInv, [Next]_vars, poisoned', phase' \in {"serving", "deciding", "decided"}
    PROVE  /\ phase \in {"serving", "deciding", "decided"}
           /\ told' = told /\ mem' = mem /\ start' = start
<1> USE DEF RecorderInv, PhaseFacts
<1>1. CASE UNCHANGED vars
  BY <1>1 DEF vars, historyVars, recorderVars, runVars
<1>2. CASE \/ \E s \in Starts : StartFresh(s)
           \/ \E k \in 1..Len(logs) : StartResume(k) \/ Quarantine(k)
  BY <1>2 DEF StartFresh, StartResume, CreateLog, Quarantine
<1>3. CASE WriteHeader \/ CopyGroup \/ CopyDone \/ RecordStart \/ Listen
  BY <1>3 DEF WriteHeader, CopyGroup, CopyDone, RecordStart, Listen, guardVars
<1>4. CASE Crash \/ Stop
  BY <1>4 DEF Crash, Stop
<1>5. CASE AskRefused \/ AskOutOfSequence \/ AskNew \/ DecideFails \/ Abandon \/ AbandonedEnds
  BY <1>5 DEF AskRefused, AskOutOfSequence, AskNew, Asking, DecideFails, RecordFails, Abandon, AbandonedEnds,
      historyVars, recorderVars, runVars
<1>6. CASE AskCommitted \/ (\E r \in Records : DeliverRecord(r)) \/ ApplyInput \/ Reply
  BY <1>6 DEF AskCommitted, DeliverRecord, ApplyInput, Reply, guardVars
<1>7. CASE (\E i \in Inputs : Compose(i)) \/ SettleEndedRun \/ (\E r \in Records : WriteRecord(r))
  BY <1>7 DEF Compose, SettleEndedRun, WriteRecord, historyVars, recorderVars, runVars
<1> QED
  BY <1>1, <1>2, <1>3, <1>4, <1>5, <1>6, <1>7 DEF Next

\* Restarting loses nothing: an engine that serves a run has everything the
\* run's earlier processes released, whatever resumes were abandoned between.
THEOREM ReleasedSurvives == Spec => []ReleasedSurvivesResume
<1>1. ASSUME RunInv, ReplyShape, JournalBeforeSend PROVE ReleasedWhileHealthy
  <2> SUFFICES ASSUME phase \in {"serving", "deciding", "decided"}, ~poisoned, NEW t \in told, t.run = start
               PROVE  CommittedPrefixOf(t.groups, mem)
    BY DEF ReleasedWhileHealthy
  <2>1. t.groups \in Seq(Group)
    BY <1>1, ReplyInFolder
  <2>2. PICK k \in 1..Len(Folder) : CommittedPrefixOf(t.groups, Folder[k]) /\ OfRun(Folder, k, start)
    BY <1>1, ReplyInFolder
  <2>3. CommittedPrefixOf(Folder[k], LastGroups)
    BY <1>1, <2>2, ServingHead
  <2>4. mem = LastGroups /\ LastGroups \in Seq(Group) /\ Folder[k] \in Seq(Group)
    BY <1>1, FolderFacts DEF RunInv, RecorderInv, Running
  <2> QED
    BY <2>1, <2>2, <2>3, <2>4, PrefixTransitive
<1>2. Init => ReleasedSurvivesResume
  BY DEF Init, ReleasedSurvivesResume
<1>3. ASSUME RunInv, ReleasedSurvivesResume, ReleasedWhileHealthy', [Next]_vars
      PROVE  ReleasedSurvivesResume'
  <2>1. CASE ~poisoned'
    BY <1>3, <2>1 DEF ReleasedSurvivesResume, ReleasedWhileHealthy
  <2>2. CASE poisoned'
    BY <1>3, <2>2, PoisonedKeeps DEF ReleasedSurvivesResume, RunInv
  <2> QED
    BY <2>1, <2>2
<1> QED
  BY <1>1, <1>2, <1>3, RunAlways, RepliesShaped, JournalledBeforeSent, PTL DEF Spec
=============================================================================
