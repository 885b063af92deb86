------------------------- MODULE BoostVerdictProofs -------------------------
(***************************************************************************)
(* Proofs about BoostRun: when the run stops its buys, and what a buy      *)
(* released says of it.                                                    *)
(*                                                                         *)
(* The handler keeps a count of the rejections in a row, the undecided     *)
(* orders and how many of these are older than the rejection counted; the  *)
(* property is about the words the venue sent, in the order they were      *)
(* read, and the orders in the order they were released.  The invariant    *)
(* that relates them:                                                      *)
(*   - Verdicts: the undecided orders are released ones in the order of    *)
(*     their release, whose word was not heard (Awaited); while none is    *)
(*     counted every rejection heard is blocked by a later acceptance of   *)
(*     an order no older, while one is counted it is the only one that is  *)
(*     not, and older tells the undecided orders released before it        *)
(*     (Tally);                                                            *)
(*   - Settled: every order of a decision is undecided, heard, or settled  *)
(*     or retired as never sent, so that a word is heard for the first     *)
(*     time exactly when its order is undecided.                           *)
(* Each input leaves the verdicts alone (Calm), places one order           *)
(* (Placing), takes one out (Settling) or reads one word (Reported).       *)
(*                                                                         *)
(* A run that refused an input has ended and is not followed further.      *)
(***************************************************************************)
EXTENDS BoostSaleProofs

----------------------------------------------------------------------------
(* Places in the order of release *)

Place(R, id) == CHOOSE i \in DOMAIN R : R[i].id = id

\* A list whose elements have IDs of their own.
OneEach(R) == IsList(R) /\ \A i, k \in DOMAIN R : R[i].id = R[k].id => i = k

LEMMA PlaceIn ==
    ASSUME NEW R, OneEach(R), NEW id \in Ids(R)
    PROVE  Place(R, id) \in 1..Len(R) /\ R[Place(R, id)].id = id
<1>1. PICK i \in DOMAIN R : R[i].id = id
  BY DEF Ids
<1>2. Place(R, id) \in DOMAIN R /\ R[Place(R, id)].id = id
  BY <1>1 DEF Place
<1> QED BY <1>2, ListFacts DEF OneEach

LEMMA PlaceAppend ==
    ASSUME NEW R, OneEach(R), NEW r, r.id \notin Ids(R)
    PROVE  LET T == Append(R, r)
           IN  /\ OneEach(T) /\ Ids(T) = Ids(R) \cup {r.id} /\ Place(T, r.id) = Len(R) + 1
               /\ \A id \in Ids(R) : Place(T, id) = Place(R, id)
<1> DEFINE T == Append(R, r)
<1>1. /\ IsList(R) /\ IsList(T) /\ DOMAIN T = 1..(Len(R) + 1) /\ T[Len(R) + 1] = r /\ DOMAIN R = 1..Len(R) /\ Len(R) \in Nat
      /\ \A i \in 1..Len(R) : T[i] = R[i]
  BY AppendFacts, ListFacts DEF OneEach
<1>2. Ids(T) = Ids(R) \cup {r.id}
  BY <1>1, IdsAppend
<1> HIDE DEF T
<1>3. \A i \in DOMAIN R : R[i].id # r.id
  BY DEF Ids
<1>4. \A i \in DOMAIN T : (i \in DOMAIN R /\ T[i] = R[i]) \/ (i = Len(R) + 1 /\ T[i] = r)
  BY <1>1
<1>5. OneEach(T)
  BY <1>1, <1>3, <1>4 DEF OneEach
<1>6. Place(T, r.id) = Len(R) + 1
  <2>1. r.id \in Ids(T)
    BY <1>2
  <2>2. Place(T, r.id) \in DOMAIN T /\ T[Place(T, r.id)].id = r.id
    BY <1>1, <1>5, <2>1, PlaceIn, ListFacts DEF OneEach
  <2> QED BY <1>3, <1>4, <2>2
<1>7. ASSUME NEW id \in Ids(R) PROVE Place(T, id) = Place(R, id)
  <2>1. Place(R, id) \in 1..Len(R) /\ R[Place(R, id)].id = id
    BY PlaceIn
  <2>2. id \in Ids(T)
    BY <1>2
  <2>3. Place(T, id) \in 1..Len(T) /\ T[Place(T, id)].id = id
    BY <1>5, <2>2, PlaceIn
  <2>4. Place(T, id) \in DOMAIN T /\ Place(R, id) \in DOMAIN T /\ T[Place(R, id)].id = id
    BY <1>1, <2>1, <2>3, ListFacts
  <2> QED BY <1>5, <2>3, <2>4 DEF OneEach
<1> QED BY <1>2, <1>5, <1>6, <1>7 DEF T

----------------------------------------------------------------------------
(* Lists of undecided orders *)

LEMMA RemoveFacts ==
    ASSUME NEW s, IsList(s), NEW i \in 1..Len(s)
    PROVE  LET T == RemoveAt(s, i)
           IN  /\ IsList(T) /\ Len(T) = Len(s) - 1 /\ DOMAIN T = 1..(Len(s) - 1)
               /\ \A a \in 1..(Len(s) - 1) : T[a] = IF a < i THEN s[a] ELSE s[a + 1]
<1> DEFINE E == {s[k] : k \in DOMAIN s}
           L == Len(s)
           p == SubSeq(s, 1, i - 1)
           q == SubSeq(s, i + 1, Len(s))
           T == RemoveAt(s, i)
<1>1. s \in Seq(E) /\ L \in Nat /\ DOMAIN s = 1..L /\ i \in Nat /\ 1 <= i /\ i <= L
  BY ListFacts DEF IsList
<1> HIDE DEF E
<1>2. p \in Seq(E) /\ Len(p) = i - 1 /\ \A a \in 1..(i - 1) : p[a] = s[a]
  BY <1>1
<1>3. q \in Seq(E) /\ Len(q) = L - i /\ \A a \in 1..(L - i) : q[a] = s[i + a]
  <2>1. i + 1 \in 1..(L + 1) /\ L \in i..L /\ L - (i + 1) + 1 = L - i /\ \A a \in 1..(L - i) : i + 1 + a - 1 = i + a
    BY <1>1
  <2>2. /\ q \in Seq(E) /\ Len(q) = IF i + 1 <= L THEN L - (i + 1) + 1 ELSE 0
        /\ \A a \in 1..(L - (i + 1) + 1) : q[a] = s[i + 1 + a - 1]
    BY <1>1, <2>1, SubSeqProperties
  <2> HIDE DEF q, L
  <2>3. Len(q) = L - i
    BY <1>1, <2>2
  <2>4. ASSUME NEW a \in 1..(L - i) PROVE q[a] = s[i + a]
    BY <2>1, <2>2
  <2> QED BY <2>2, <2>3, <2>4
<1>4. T = p \o q
  BY DEF RemoveAt
<1> HIDE DEF p, q, L, T
<1>5. T \in Seq(E) /\ Len(T) = L - 1
  BY <1>1, <1>2, <1>3, <1>4
<1>6. \A a \in 1..(L - 1) : T[a] = IF a < i THEN p[a] ELSE q[a - (i - 1)]
  BY <1>1, <1>2, <1>3, <1>4
<1>7. ASSUME NEW a \in 1..(L - 1) PROVE T[a] = IF a < i THEN s[a] ELSE s[a + 1]
  <2>1. CASE a < i
    BY <1>1, <1>2, <1>6, <2>1
  <2>2. CASE ~(a < i)
    <3>1. a - (i - 1) \in 1..(L - i) /\ i + (a - (i - 1)) = a + 1
      BY <1>1, <2>2
    <3>2. q[a - (i - 1)] = s[a + 1]
      BY <1>3, <3>1
    <3> QED BY <1>6, <2>2, <3>2
  <2> QED BY <2>1, <2>2
<1>8. L - 1 \in Nat /\ DOMAIN T = 1..(L - 1) /\ T = [a \in 1..(L - 1) |-> T[a]]
  BY <1>1, <1>5
<1>9. IsList(T) /\ Len(T) = L - 1
  BY <1>8, ListOf
<1> QED BY <1>7, <1>8, <1>9 DEF T, L

LEMMA IndexFound ==
    ASSUME NEW s, OneEach(s), NEW i \in DOMAIN s
    PROVE  IndexOf(s, s[i].id) = i /\ i \in 1..Len(s)
<1>1. i \in 1..Len(s) /\ Len(s) \in Nat
  BY ListFacts DEF OneEach
<1>2. {k \in DOMAIN s : s[k].id = s[i].id} = {i}
  BY DEF OneEach
<1>3. \A x : x = Max({0, i}) => x = i
  BY <1>1 DEF Max
<1>4. {0} \cup {i} = {0, i}
  OBVIOUS
<1>5. IndexOf(s, s[i].id) = Max({0, i})
  BY <1>2, <1>4 DEF IndexOf
<1> QED BY <1>1, <1>3, <1>5

LEMMA IndexNone ==
    ASSUME NEW s, NEW id, id \notin Ids(s)
    PROVE  IndexOf(s, id) = 0
<1>1. {k \in DOMAIN s : s[k].id = id} = {}
  BY DEF Ids
<1>2. {0} \cup {} = {0} /\ Max({0}) = 0
  BY DEF Max
<1> QED BY <1>1, <1>2 DEF IndexOf

----------------------------------------------------------------------------
(* The rejections in a row, counted *)

Before(R, a, b) == Place(R, a) < Place(R, b)

\* Two orders rejected in a row among the words w.
Paired(R, w) ==
    \E i, j \in DOMAIN w :
        /\ i < j /\ w[i].rejected /\ w[j].rejected
        /\ \A k \in i..j : w[k].rejected \/ Before(R, w[k].id, w[i].id)

\* An order released no earlier than the i-th was accepted after it.
Blocked(R, w, i) == \E k \in DOMAIN w : i < k /\ ~w[k].rejected /\ ~Before(R, w[k].id, w[i].id)

\* The one rejection counted: since then only orders released before it were accepted, and
\* older tells the undecided ones released before it.
Counts(R, w, v, i) ==
    /\ w[i].rejected
    /\ \A k \in DOMAIN w : i < k => ~w[k].rejected /\ Before(R, w[k].id, w[i].id)
    /\ \A k \in DOMAIN w : w[k].rejected /\ k # i => Blocked(R, w, k)
    /\ \A a \in DOMAIN v.undecided : a <= v.older <=> Before(R, v.undecided[a].id, w[i].id)

\* The rejections counted in v are those in a row.
Tally(R, w, v) ==
    /\ v.rejections \in Nat
    /\ v.rejections = 0 => v.older = 0 /\ ~Paired(R, w) /\ \A i \in DOMAIN w : w[i].rejected => Blocked(R, w, i)
    /\ v.rejections = 1 => ~Paired(R, w) /\ \E i \in DOMAIN w : Counts(R, w, v, i)
    /\ v.rejections >= 2 => Paired(R, w)

\* The undecided orders are in the order of their release, and the words are of others.
Awaited(R, w, v) ==
    /\ {"rejections", "undecided", "older", "inARow", "whileStopped"} \subseteq DOMAIN v
    /\ OneEach(v.undecided) /\ v.older \in 0..Len(v.undecided) /\ \A a \in DOMAIN v.undecided : "id" \in DOMAIN v.undecided[a]
    /\ Ids(v.undecided) \subseteq Ids(R) /\ Ids(w) \subseteq Ids(R) /\ Ids(v.undecided) \cap Ids(w) = {}
    /\ \A a, b \in DOMAIN v.undecided : a < b => Before(R, v.undecided[a].id, v.undecided[b].id)

Verdicts(R, w, v) == OneEach(R) /\ IsList(w) /\ Awaited(R, w, v) /\ Tally(R, w, v)

LEMMA IdsOfList == ASSUME NEW s, NEW i \in DOMAIN s PROVE s[i].id \in Ids(s)
  BY DEF Ids

\* The same list with other marks of the venue.
LEMMA VerdictsLearnt ==
    ASSUME NEW R, NEW w, NEW v, Verdicts(R, w, v),
           NEW z, DOMAIN z = DOMAIN v, z.rejections = v.rejections, z.older = v.older,
           IsList(z.undecided), DOMAIN z.undecided = DOMAIN v.undecided,
           \A a \in DOMAIN v.undecided : "id" \in DOMAIN z.undecided[a] /\ z.undecided[a].id = v.undecided[a].id
    PROVE  Verdicts(R, w, z)
<1>1. OneEach(z.undecided)
  BY DEF Verdicts, Awaited, OneEach
<1>2. Len(z.undecided) = Len(v.undecided)
  <2> DEFINE m == Len(z.undecided)
             n == Len(v.undecided)
  <2>1. m \in Nat /\ n \in Nat /\ 1..m = 1..n
    BY ListFacts DEF Verdicts, Awaited, OneEach
  <2> HIDE DEF m, n
  <2>2. m = n
    BY <2>1
  <2> QED BY <2>2 DEF m, n
<1>3. Ids(z.undecided) = Ids(v.undecided)
  BY DEF Ids
<1>4. Awaited(R, w, z)
  BY <1>1, <1>2, <1>3 DEF Verdicts, Awaited
<1>5. \A i : Counts(R, w, v, i) => Counts(R, w, z, i)
  BY DEF Counts
<1>6. Tally(R, w, z)
  BY <1>5 DEF Verdicts, Tally
<1> QED BY <1>4, <1>6 DEF Verdicts

\* An order more that was released.
LEMMA VerdictsRelease ==
    ASSUME NEW R, NEW w, NEW v, Verdicts(R, w, v), NEW r, r.id \notin Ids(R)
    PROVE  LET T == Append(R, r)
           IN  /\ Verdicts(T, w, v)
               /\ \A a \in DOMAIN v.undecided : Before(T, v.undecided[a].id, r.id)
               /\ \A i \in DOMAIN w : Before(T, w[i].id, r.id)
<1> DEFINE T == Append(R, r)
<1>1. /\ OneEach(T) /\ Ids(T) = Ids(R) \cup {r.id} /\ Place(T, r.id) = Len(R) + 1
      /\ \A id \in Ids(R) : Place(T, id) = Place(R, id)
  BY PlaceAppend DEF Verdicts
<1> HIDE DEF T
<1>2. ASSUME NEW id \in Ids(R) PROVE Before(T, id, r.id)
  BY <1>1, PlaceIn DEF Verdicts, Before, OneEach
<1>3. \A a \in DOMAIN v.undecided : v.undecided[a].id \in Ids(R)
  BY DEF Verdicts, Awaited, Ids
<1>4. \A i \in DOMAIN w : w[i].id \in Ids(R)
  BY DEF Verdicts, Awaited, Ids
<1>5. \A a, b \in Ids(R) : Before(T, a, b) <=> Before(R, a, b)
  BY <1>1 DEF Before
<1>6. \A i \in DOMAIN w : Blocked(T, w, i) <=> Blocked(R, w, i)
  BY <1>4, <1>5 DEF Blocked
<1>7. Paired(T, w) <=> Paired(R, w)
  <2>1. \A i, j \in DOMAIN w : i..j \subseteq DOMAIN w
    BY ListFacts DEF Verdicts
  <2> QED BY <1>4, <1>5, <2>1 DEF Paired
<1>8. \A i \in DOMAIN w : Counts(R, w, v, i) => Counts(T, w, v, i)
  BY <1>3, <1>4, <1>5, <1>6 DEF Counts
<1>9. Tally(T, w, v)
  BY <1>6, <1>7, <1>8 DEF Verdicts, Tally
<1>10. Awaited(T, w, v)
  BY <1>1, <1>3, <1>5 DEF Verdicts, Awaited
<1> QED BY <1>1, <1>2, <1>3, <1>4, <1>9, <1>10 DEF Verdicts, T

\* The order of a decision: it awaits the venue's word.
LEMMA VerdictsAwait ==
    ASSUME NEW R, NEW w, NEW v, Verdicts(R, w, v), NEW r, r.id \notin Ids(R)
    PROVE  Verdicts(Append(R, r), w, Release(v, r.id))
<1> DEFINE T == Append(R, r)
           e == [id |-> r.id, venue |-> FALSE]
           u == v.undecided
           next == Append(u, e)
           z == Release(v, r.id)
<1>1. /\ Verdicts(T, w, v)
      /\ \A a \in DOMAIN u : Before(T, u[a].id, r.id)
      /\ \A i \in DOMAIN w : Before(T, w[i].id, r.id)
  BY VerdictsRelease
<1>2. Ids(T) = Ids(R) \cup {r.id} /\ r.id \notin Ids(u) /\ r.id \notin Ids(w)
  BY PlaceAppend DEF Verdicts, Awaited
<1>3. z = [v EXCEPT !.undecided = next]
  BY <1>2 DEF Release, Holds
<1>4. e.id = r.id /\ "id" \in DOMAIN e
  OBVIOUS
<1> HIDE DEF T, e
<1>5. /\ IsList(u) /\ IsList(next) /\ Len(next) = Len(u) + 1 /\ DOMAIN next = 1..(Len(u) + 1) /\ next[Len(u) + 1] = e
      /\ DOMAIN u = 1..Len(u) /\ Len(u) \in Nat
      /\ \A a \in 1..Len(u) : next[a] = u[a]
  BY <1>1, AppendFacts, ListFacts DEF Verdicts, Awaited, OneEach
<1>6. OneEach(next) /\ Ids(next) = Ids(u) \cup {r.id}
  BY <1>1, <1>2, <1>4, PlaceAppend DEF Verdicts, Awaited
<1>7. DOMAIN z = DOMAIN v /\ z.rejections = v.rejections /\ z.older = v.older /\ z.undecided = next
  BY <1>1, <1>3 DEF Verdicts, Awaited
<1> HIDE DEF next, z, u
<1>8. \A a \in DOMAIN next : (a \in DOMAIN u /\ next[a] = u[a]) \/ (a = Len(u) + 1 /\ next[a] = e)
  BY <1>5
<1>9. v.older \in 0..Len(u) /\ u = v.undecided
  BY <1>1 DEF Verdicts, Awaited, u
<1>10. Awaited(T, w, z)
  <2>1. ASSUME NEW a \in DOMAIN next, NEW b \in DOMAIN next, a < b PROVE Before(T, next[a].id, next[b].id)
    <3>1. a \in DOMAIN u /\ next[a] = u[a]
      BY <1>5, <1>8, <2>1
    <3>2. CASE b \in DOMAIN u /\ next[b] = u[b]
      BY <1>1, <1>9, <2>1, <3>1, <3>2 DEF Verdicts, Awaited
    <3>3. CASE b = Len(u) + 1 /\ next[b] = e
      BY <1>1, <1>4, <3>1, <3>3
    <3> QED BY <1>8, <3>2, <3>3
  <2>2. z.older \in 0..Len(next)
    BY <1>5, <1>7, <1>9
  <2>3. Ids(next) \subseteq Ids(T) /\ Ids(w) \subseteq Ids(T) /\ Ids(next) \cap Ids(w) = {}
    BY <1>1, <1>2, <1>6, <1>9 DEF Verdicts, Awaited
  <2>4. \A a \in DOMAIN next : "id" \in DOMAIN next[a]
    BY <1>1, <1>4, <1>8, <1>9 DEF Verdicts, Awaited
  <2> QED BY <1>1, <1>6, <1>7, <2>1, <2>2, <2>3, <2>4 DEF Verdicts, Awaited
<1>11. ASSUME NEW i \in DOMAIN w, Counts(T, w, v, i) PROVE Counts(T, w, z, i)
  <2>1. ASSUME NEW a \in DOMAIN next PROVE a <= v.older <=> Before(T, next[a].id, w[i].id)
    <3>1. CASE a \in DOMAIN u /\ next[a] = u[a]
      BY <1>9, <1>11, <3>1 DEF Counts
    <3>2. CASE a = Len(u) + 1 /\ next[a] = e
      <4>1. ~(a <= v.older)
        BY <1>5, <1>9, <3>2
      <4>2. Before(T, w[i].id, r.id) /\ w[i].id \in Ids(T) /\ r.id \in Ids(T)
        BY <1>1, <1>2 DEF Verdicts, Awaited, Ids
      <4>3. Place(T, w[i].id) \in Nat /\ Place(T, r.id) \in Nat
        BY <1>1, <4>2, PlaceIn, ListFacts DEF Verdicts, OneEach
      <4>4. ~Before(T, r.id, w[i].id)
        BY <4>2, <4>3 DEF Before
      <4> QED BY <1>4, <3>2, <4>1, <4>4
    <3> QED BY <1>8, <3>1, <3>2
  <2> QED BY <1>7, <1>11, <2>1 DEF Counts
<1>12. Tally(T, w, z)
  BY <1>1, <1>7, <1>11 DEF Verdicts, Tally
<1> QED BY <1>1, <1>10, <1>12 DEF Verdicts, T, z

\* z is v without its i-th undecided order.
Left(v, i, z) ==
    /\ DOMAIN z = DOMAIN v /\ z.rejections = v.rejections
    /\ z.older = IF i <= v.older THEN v.older - 1 ELSE v.older
    /\ Len(z.undecided) = Len(v.undecided) - 1 /\ DOMAIN z.undecided = 1..(Len(v.undecided) - 1)
    /\ \A a \in DOMAIN z.undecided : z.undecided[a] = IF a < i THEN v.undecided[a] ELSE v.undecided[a + 1]
    /\ Ids(z.undecided) = Ids(v.undecided) \ {v.undecided[i].id}

\* An undecided order leaves the list.
LEMMA VerdictsLeave ==
    ASSUME NEW R, NEW w, NEW v, Verdicts(R, w, v), NEW i \in DOMAIN v.undecided
    PROVE  Verdicts(R, w, leave(v, i)) /\ Left(v, i, leave(v, i))
<1> DEFINE u == v.undecided
           L == Len(v.undecided)
           T == RemoveAt(v.undecided, i)
           older == IF i <= v.older THEN v.older - 1 ELSE v.older
           z == leave(v, i)
           at(a) == IF a < i THEN a ELSE a + 1
<1>1. OneEach(u) /\ IsList(u) /\ L \in Nat /\ DOMAIN u = 1..L /\ i \in 1..L /\ v.older \in 0..L
  BY ListFacts DEF Verdicts, Awaited, OneEach
<1>2. /\ IsList(T) /\ Len(T) = L - 1 /\ DOMAIN T = 1..(L - 1)
      /\ \A a \in 1..(L - 1) : T[a] = IF a < i THEN u[a] ELSE u[a + 1]
  BY <1>1, RemoveFacts
<1>3. DOMAIN z = DOMAIN v /\ z.undecided = T /\ z.older = older /\ z.rejections = v.rejections
  BY DEF leave, Verdicts, Awaited
<1> HIDE DEF T, z, u, L
<1>4. \A a \in DOMAIN T : a \in 1..(L - 1) /\ at(a) \in DOMAIN u /\ T[a] = u[at(a)]
  BY <1>1, <1>2
<1>5. \A b \in DOMAIN u : b # i => \E a \in DOMAIN T : b = at(a)
  <2> TAKE b \in DOMAIN u
  <2> HAVE b # i
  <2>1. CASE b < i
    BY <1>1, <1>2, <2>1
  <2>2. CASE b > i
    <3>1. b - 1 \in DOMAIN T /\ at(b - 1) = b
      BY <1>1, <1>2, <2>2
    <3> QED BY <3>1
  <2> QED BY <1>1, <2>1, <2>2
<1>6. Ids(T) = Ids(u) \ {u[i].id}
  <2>1. ASSUME NEW id \in Ids(T) PROVE id \in Ids(u) /\ id # u[i].id
    <3>1. PICK a \in DOMAIN T : id = T[a].id
      BY DEF Ids
    <3>2. at(a) # i
      BY <1>1, <1>4
    <3> QED BY <1>1, <1>4, <3>1, <3>2 DEF Ids, OneEach
  <2>2. ASSUME NEW id \in Ids(u), id # u[i].id PROVE id \in Ids(T)
    <3>1. PICK b \in DOMAIN u : id = u[b].id
      BY DEF Ids
    <3>2. PICK a \in DOMAIN T : b = at(a)
      BY <1>5, <2>2, <3>1
    <3> QED BY <1>4, <3>1, <3>2 DEF Ids
  <2> QED BY <2>1, <2>2
<1>7. \A a, b \in DOMAIN T : /\ at(a) = at(b) => a = b
                             /\ a < b => at(a) < at(b)
  BY <1>1, <1>4
<1>8. older \in 0..(L - 1) /\ \A a \in DOMAIN T : a <= older <=> at(a) <= v.older
  BY <1>1, <1>4
<1> HIDE DEF at, older
<1>9. OneEach(T)
  BY <1>1, <1>2, <1>4, <1>7 DEF OneEach
<1>10. Awaited(R, w, z)
  <2>1. \A a, b \in DOMAIN T : a < b => Before(R, T[a].id, T[b].id)
    BY <1>4, <1>7 DEF Verdicts, Awaited, u
  <2>2. Ids(T) \subseteq Ids(R) /\ Ids(T) \cap Ids(w) = {}
    BY <1>6 DEF Verdicts, Awaited, u
  <2>3. \A a \in DOMAIN T : "id" \in DOMAIN T[a]
    BY <1>4 DEF Verdicts, Awaited, u
  <2> QED BY <1>2, <1>3, <1>8, <1>9, <2>1, <2>2, <2>3 DEF Verdicts, Awaited
<1>11. \A k : Counts(R, w, v, k) => Counts(R, w, z, k)
  <2> SUFFICES ASSUME NEW k, Counts(R, w, v, k) PROVE Counts(R, w, z, k)
    OBVIOUS
  <2>1. \A a \in DOMAIN T : a <= older <=> Before(R, T[a].id, w[k].id)
    BY <1>4, <1>8 DEF Counts, u
  <2> QED BY <1>3, <2>1 DEF Counts
<1>12. v.older = 0 => older = 0
  BY <1>1 DEF older
<1>13. Verdicts(R, w, z)
  BY <1>3, <1>10, <1>11, <1>12 DEF Verdicts, Tally
<1> QED BY <1>2, <1>3, <1>6, <1>13 DEF z, u, L, older, Left

LEMMA WordFacts ==
    ASSUME NEW R, NEW w, IsList(w), NEW e
    PROVE  LET T == Append(w, e)
           IN  /\ Paired(R, w) => Paired(R, T)
               /\ ~e.rejected /\ Paired(R, T) => Paired(R, w)
               /\ \A i \in DOMAIN w : Blocked(R, w, i) => Blocked(R, T, i)
<1> DEFINE T == Append(w, e)
           L == Len(w)
<1>1. /\ IsList(T) /\ DOMAIN T = 1..(L + 1) /\ T[L + 1] = e /\ DOMAIN w = 1..L /\ L \in Nat
      /\ \A i \in 1..L : T[i] = w[i]
  BY AppendFacts, ListFacts
<1> HIDE DEF T, L
<1>2. \A i \in DOMAIN w : i \in DOMAIN T /\ T[i] = w[i]
  BY <1>1
<1>3. \A i, j \in DOMAIN w : i..j \subseteq DOMAIN w
  BY <1>1
<1>4. \A i \in DOMAIN w : Blocked(R, w, i) => Blocked(R, T, i)
  BY <1>2 DEF Blocked
<1>5. Paired(R, w) => Paired(R, T)
  BY <1>2, <1>3 DEF Paired
<1>6. ASSUME ~e.rejected, Paired(R, T) PROVE Paired(R, w)
  <2>1. PICK i \in DOMAIN T, j \in DOMAIN T :
            /\ i < j /\ T[i].rejected /\ T[j].rejected
            /\ \A k \in i..j : T[k].rejected \/ Before(R, T[k].id, T[i].id)
    BY <1>6 DEF Paired
  <2>2. j # L + 1
    BY <1>1, <1>6, <2>1
  <2>3. i \in DOMAIN w /\ j \in DOMAIN w
    BY <1>1, <2>1, <2>2
  <2> QED BY <1>2, <1>3, <2>1, <2>3 DEF Paired
<1> QED BY <1>4, <1>5, <1>6 DEF T

\* The word e leaves z of the verdicts v.
Observed(R, w, v, e, z) == Verdicts(R, Append(w, e), z) /\ Ids(z.undecided) = Ids(v.undecided) \ {e.id}

\* The venue's first word on an order that awaited it.
LEMMA VerdictsObserve ==
    ASSUME NEW R, NEW w, NEW v, Verdicts(R, w, v), NEW i \in DOMAIN v.undecided, NEW rejected \in BOOLEAN,
           NEW e, e.id = v.undecided[i].id, e.rejected <=> rejected
    PROVE  Observed(R, w, v, e, observe(v, v.undecided[i].id, rejected).verdicts)
<1> DEFINE id == v.undecided[i].id
           L == Len(w)
           W == Append(w, e)
           u == v.undecided
           older == i <= v.older
           left == leave(v, i)
           reset == [left EXCEPT !.rejections = 0, !.inARow = <<>>, !.older = 0]
           while == [left EXCEPT !.whileStopped = @ + 1]
           counted == [left EXCEPT !.rejections = @ + 1, !.inARow = Append(@, [id |-> id]), !.older = IF older THEN @ ELSE i - 1]
           z == observe(v, id, rejected).verdicts
<1>1. OneEach(u) /\ IsList(u) /\ v.older \in 0..Len(u) /\ v.rejections \in Nat /\ i \in 1..Len(u) /\ Len(u) \in Nat
  BY ListFacts DEF Verdicts, Awaited, Tally, OneEach
<1>2. IndexOf(u, id) = i /\ i # 0
  BY <1>1, IndexFound
<1>3. z = IF ~rejected THEN IF ~Stopped(v) /\ ~older THEN reset ELSE left
          ELSE IF Stopped(v) THEN while ELSE counted
  BY <1>2 DEF observe
<1>4. /\ Verdicts(R, w, left) /\ DOMAIN left = DOMAIN v /\ left.rejections = v.rejections
      /\ left.older = IF older THEN v.older - 1 ELSE v.older
      /\ Len(left.undecided) = Len(u) - 1 /\ DOMAIN left.undecided = 1..(Len(u) - 1)
      /\ \A a \in DOMAIN left.undecided : left.undecided[a] = IF a < i THEN u[a] ELSE u[a + 1]
      /\ Ids(left.undecided) = Ids(u) \ {id}
  <2>1. Verdicts(R, w, left) /\ Left(v, i, left)
    BY VerdictsLeave
  <2> HIDE DEF left
  <2> QED BY <2>1 DEF Left
<1>5. {"rejections", "undecided", "older", "inARow", "whileStopped"} \subseteq DOMAIN v
  BY DEF Verdicts, Awaited
<1> HIDE DEF left, older, id, u, z
<1>6. /\ DOMAIN reset = DOMAIN v /\ reset.undecided = left.undecided /\ reset.rejections = 0 /\ reset.older = 0
      /\ DOMAIN while = DOMAIN v /\ while.undecided = left.undecided /\ while.rejections = left.rejections /\ while.older = left.older
      /\ DOMAIN counted = DOMAIN v /\ counted.undecided = left.undecided /\ counted.rejections = left.rejections + 1
      /\ counted.older = IF older THEN left.older ELSE i - 1
  BY <1>4, <1>5
<1> HIDE DEF reset, while, counted
<1>7. /\ IsList(w) /\ IsList(W) /\ DOMAIN W = 1..(L + 1) /\ W[L + 1] = e /\ DOMAIN w = 1..L /\ L \in Nat
      /\ \A k \in 1..L : W[k] = w[k]
      /\ Ids(W) = Ids(w) \cup {e.id}
  BY AppendFacts, ListFacts, IdsAppend DEF Verdicts
<1>8. /\ Paired(R, w) => Paired(R, W)
      /\ ~e.rejected /\ Paired(R, W) => Paired(R, w)
      /\ \A k \in DOMAIN w : Blocked(R, w, k) => Blocked(R, W, k)
  BY <1>7, WordFacts
<1> HIDE DEF W, L
<1>9. /\ \A k \in DOMAIN w : k \in DOMAIN W /\ W[k] = w[k] /\ k < L + 1
      /\ \A k \in DOMAIN W : (k \in DOMAIN w /\ W[k] = w[k]) \/ (k = L + 1 /\ W[k] = e)
      /\ L + 1 \in DOMAIN W
  BY <1>7
<1>10. /\ DOMAIN z = DOMAIN v /\ z.undecided = left.undecided
       /\ z.older \in 0..Len(left.undecided)
  <2>1. left.older \in 0..Len(left.undecided) /\ i - 1 \in 0..Len(left.undecided) /\ 0 \in 0..Len(left.undecided)
    BY <1>1, <1>4 DEF Verdicts, Awaited
  <2> QED BY <1>3, <1>4, <1>6, <2>1
<1>11. e.id = id /\ id \in Ids(R) /\ id \in Ids(u)
  BY IdsOfList DEF Verdicts, Awaited, id, u
<1>12. Awaited(R, W, z)
  <2>1. Ids(W) \subseteq Ids(R) /\ Ids(left.undecided) \cap Ids(W) = {}
    BY <1>4, <1>7, <1>11 DEF Verdicts, Awaited
  <2> QED BY <1>4, <1>5, <1>10, <2>1 DEF Verdicts, Awaited
<1>13. \A b \in DOMAIN u : u[b].id \in Ids(R) /\ Place(R, u[b].id) \in Nat
  <2> TAKE b \in DOMAIN u
  <2>1. u[b].id \in Ids(u) /\ Ids(u) \subseteq Ids(R) /\ OneEach(R)
    BY IdsOfList DEF Verdicts, Awaited, u
  <2>2. Place(R, u[b].id) \in 1..Len(R) /\ Len(R) \in Nat
    BY <2>1, PlaceIn, ListFacts DEF OneEach
  <2> QED BY <2>1, <2>2
<1>14. ASSUME NEW k \in DOMAIN w, Counts(R, w, v, k), ~rejected, older PROVE Counts(R, W, left, k)
  <2>1. u[i].id = e.id /\ u = v.undecided /\ i \in DOMAIN u
    BY <1>11 DEF u, id
  <2>2. Before(R, e.id, w[k].id)
    BY <1>14, <2>1 DEF Counts, older
  <2>3. \A n \in DOMAIN W : k < n => ~W[n].rejected /\ Before(R, W[n].id, W[k].id)
    BY <1>9, <1>14, <2>2 DEF Counts
  <2>4. \A n \in DOMAIN W : W[n].rejected /\ n # k => Blocked(R, W, n)
    BY <1>8, <1>9, <1>14 DEF Counts
  <2>5. \A a \in DOMAIN left.undecided : a <= left.older <=> Before(R, left.undecided[a].id, W[k].id)
    <3> TAKE a \in DOMAIN left.undecided
    <3> DEFINE b == IF a < i THEN a ELSE a + 1
    <3>1. b \in DOMAIN u /\ left.undecided[a] = u[b]
      BY <1>1, <1>4, ListFacts
    <3>2. b <= v.older <=> Before(R, u[b].id, w[k].id)
      <4> HIDE DEF b
      <4> QED BY <1>14, <2>1, <3>1 DEF Counts
    <3>3. a <= left.older <=> b <= v.older
      BY <1>1, <1>4, <1>14 DEF older
    <3> QED BY <1>9, <3>1, <3>2, <3>3
  <2> QED BY <1>9, <1>14, <2>3, <2>4, <2>5 DEF Counts
<1>15. ASSUME ~rejected /\ ~Stopped(v) /\ ~older PROVE Tally(R, W, z)
  <2>1. z.rejections = 0 /\ z.older = 0
    BY <1>3, <1>6, <1>15
  <2>2. v.rejections = 0 \/ v.rejections = 1
    BY <1>1, <1>15 DEF Stopped, RejectionLimit
  <2>3. ~Paired(R, W)
    BY <1>8, <1>15, <2>2 DEF Verdicts, Tally
  <2>4. ASSUME NEW n \in DOMAIN w, w[n].rejected PROVE Blocked(R, W, n)
    <3>1. CASE v.rejections = 0
      BY <1>8, <2>4, <3>1 DEF Verdicts, Tally
    <3>2. CASE v.rejections = 1
      <4>1. PICK k \in DOMAIN w : Counts(R, w, v, k)
        BY <3>2 DEF Verdicts, Tally
      <4>2. CASE n # k
        BY <1>8, <2>4, <4>1, <4>2 DEF Counts
      <4>3. CASE n = k
        <5>1. u[i].id = e.id /\ u = v.undecided /\ i \in DOMAIN u
          BY <1>11 DEF u, id
        <5>2. ~Before(R, e.id, w[n].id)
          BY <1>15, <4>1, <4>3, <5>1 DEF Counts, older
        <5> QED BY <1>7, <1>9, <1>15, <5>2 DEF Blocked
      <4> QED BY <4>2, <4>3
    <3> QED BY <2>2, <3>1, <3>2
  <2>5. \A n \in DOMAIN W : W[n].rejected => Blocked(R, W, n)
    BY <1>9, <1>15, <2>4
  <2>6. Tally(R, W, z)
    BY <2>1, <2>3, <2>5 DEF Tally
  <2> QED BY <2>6
<1>16. ASSUME ~rejected /\ (Stopped(v) \/ older) PROVE Tally(R, W, z)
  <2>1. z = left
    BY <1>3, <1>16
  <2>2. ASSUME v.rejections = 0 PROVE FALSE
    <3>1. ~Stopped(v) /\ ~older
      BY <1>1, <2>2 DEF Stopped, RejectionLimit, older, Verdicts, Tally
    <3> QED BY <1>16, <3>1
  <2>3. CASE v.rejections = 1
    <3>1. older
      BY <1>16, <2>3 DEF Stopped, RejectionLimit
    <3>2. PICK k \in DOMAIN w : Counts(R, w, v, k)
      BY <2>3 DEF Verdicts, Tally
    <3>3. Counts(R, W, left, k) /\ k \in DOMAIN W
      BY <1>9, <1>14, <1>16, <3>1, <3>2
    <3>4. ~Paired(R, W)
      BY <1>8, <1>16, <2>3 DEF Verdicts, Tally
    <3> QED BY <1>4, <2>1, <2>3, <3>3, <3>4 DEF Tally
  <2>4. CASE v.rejections >= 2
    BY <1>1, <1>4, <1>8, <2>1, <2>4 DEF Verdicts, Tally
  <2> QED BY <1>1, <2>2, <2>3, <2>4
<1>17. ASSUME rejected /\ v.rejections >= 2 PROVE Tally(R, W, z)
  <2>1. z = while
    BY <1>3, <1>17 DEF Stopped, RejectionLimit
  <2> QED BY <1>1, <1>4, <1>6, <1>8, <1>17, <2>1 DEF Verdicts, Tally
<1>18. ASSUME rejected /\ v.rejections = 0 PROVE Tally(R, W, z)
  <2>1. z = counted /\ ~older
    BY <1>1, <1>3, <1>18 DEF Stopped, RejectionLimit, older, Verdicts, Tally
  <2>2. z.rejections = 1 /\ z.older = i - 1
    BY <1>4, <1>6, <1>18, <2>1
  <2>3. \A n \in DOMAIN w : w[n].rejected => Blocked(R, w, n)
    BY <1>18 DEF Verdicts, Tally
  <2>4. \A n \in DOMAIN W : W[n].rejected /\ n # L + 1 => Blocked(R, W, n)
    BY <1>8, <1>9, <2>3
  <2>5. \A a \in DOMAIN left.undecided : a <= i - 1 <=> Before(R, left.undecided[a].id, e.id)
    <3> TAKE a \in DOMAIN left.undecided
    <3>1. u[i].id = e.id /\ i \in DOMAIN u /\ u = v.undecided
      BY <1>11 DEF u, id
    <3>2. CASE a < i
      <4>1. a \in DOMAIN u /\ left.undecided[a] = u[a] /\ a <= i - 1
        BY <1>1, <1>4, <3>2, ListFacts
      <4>2. Before(R, u[a].id, u[i].id)
        BY <3>1, <3>2, <4>1 DEF Verdicts, Awaited
      <4> QED BY <3>1, <4>1, <4>2
    <3>3. CASE ~(a < i)
      <4>1. a + 1 \in DOMAIN u /\ left.undecided[a] = u[a + 1] /\ i < a + 1 /\ ~(a <= i - 1)
        BY <1>1, <1>4, <3>3, ListFacts
      <4>2. Before(R, u[i].id, u[a + 1].id)
        BY <3>1, <4>1 DEF Verdicts, Awaited
      <4>3. ~Before(R, u[a + 1].id, u[i].id)
        BY <1>13, <3>1, <4>1, <4>2 DEF Before
      <4> QED BY <3>1, <4>1, <4>3
    <3> QED BY <3>2, <3>3
  <2>6. Counts(R, W, z, L + 1)
    <3>1. \A k \in DOMAIN W : ~(L + 1 < k)
      BY <1>7
    <3> QED BY <1>7, <1>10, <1>18, <2>2, <2>4, <2>5, <3>1 DEF Counts
  <2>7. ~Paired(R, W)
    <3> SUFFICES ASSUME Paired(R, W) PROVE FALSE
      OBVIOUS
    <3>1. PICK a \in DOMAIN W, b \in DOMAIN W :
              /\ a < b /\ W[a].rejected /\ W[b].rejected
              /\ \A k \in a..b : W[k].rejected \/ Before(R, W[k].id, W[a].id)
      BY DEF Paired
    <3>2. a \in DOMAIN w
      BY <1>7, <3>1
    <3>3. PICK k \in DOMAIN w : a < k /\ ~w[k].rejected /\ ~Before(R, w[k].id, w[a].id)
      BY <1>9, <2>3, <3>1, <3>2 DEF Blocked
    <3>4. CASE b = L + 1
      <4>1. k \in a..b
        BY <1>7, <3>1, <3>3, <3>4
      <4> QED BY <1>9, <3>1, <3>2, <3>3, <4>1
    <3>5. CASE b \in DOMAIN w
      <4>1. a..b \subseteq DOMAIN w
        BY <1>7, <3>2, <3>5
      <4>2. Paired(R, w)
        BY <1>9, <3>1, <3>2, <3>5, <4>1 DEF Paired
      <4> QED BY <1>18, <4>2 DEF Verdicts, Tally
    <3> QED BY <1>9, <3>4, <3>5
  <2> QED BY <1>9, <2>2, <2>6, <2>7 DEF Tally
<1>19. ASSUME rejected /\ v.rejections = 1 PROVE Tally(R, W, z)
  <2>1. z = counted
    BY <1>3, <1>19 DEF Stopped, RejectionLimit
  <2>2. z.rejections = 2
    BY <1>4, <1>6, <1>19, <2>1
  <2>3. PICK k \in DOMAIN w : Counts(R, w, v, k)
    BY <1>19 DEF Verdicts, Tally
  <2>4. ASSUME NEW n \in k..(L + 1) PROVE W[n].rejected \/ Before(R, W[n].id, W[k].id)
    <3>1. n \in DOMAIN W
      BY <1>7, <2>4
    <3>2. CASE n = L + 1
      BY <1>7, <1>19, <3>2
    <3>3. CASE n = k
      BY <1>9, <2>3, <3>3 DEF Counts
    <3>4. CASE n \in DOMAIN w /\ n # k
      <4>1. k < n
        BY <1>7, <2>4, <3>4
      <4> QED BY <1>9, <2>3, <3>4, <4>1 DEF Counts
    <3> QED BY <1>9, <3>1, <3>2, <3>3, <3>4
  <2>5. k \in DOMAIN W /\ k < L + 1 /\ W[k].rejected /\ W[L + 1].rejected
    BY <1>7, <1>9, <1>19, <2>3 DEF Counts
  <2>6. Paired(R, W)
    BY <1>9, <2>4, <2>5 DEF Paired
  <2> QED BY <2>2, <2>6 DEF Tally
<1>20. Tally(R, W, z)
  BY <1>1, <1>15, <1>16, <1>17, <1>18, <1>19
<1>21. Ids(z.undecided) = Ids(u) \ {e.id}
  BY <1>4, <1>10, <1>11
<1>22. Verdicts(R, W, z)
  BY <1>7, <1>12, <1>20 DEF Verdicts
<1>23. Observed(R, w, v, e, z)
  BY <1>21, <1>22 DEF Observed, W, u
<1> QED BY <1>23 DEF z, id

----------------------------------------------------------------------------
(* The orders a run knows, and whose word it awaits *)

\* The orders of decisions that are accounted for.
Covered(x, w) == Ids(x.verdicts.undecided) \cup Ids(w) \cup Ids(x.cleared) \cup Ids(x.retired)

\* The orders released are those of the gate, and each order of a decision awaits the venue's
\* word, has it, or was settled or retired as never sent.  A dry run awaits none.
Settled(x, R, w) ==
    /\ Verdicts(R, w, x.verdicts)
    /\ DOMAIN x.gate.orders = Ids(R)
    /\ \A id \in Ids(x.verdicts.undecided) : x.gate.orders[id].sale = None
    /\ x.mode # "dry-run" => \A id \in DOMAIN x.gate.orders : x.gate.orders[id].sale = None => id \in Covered(x, w)

LEMMA ExtendsFacts ==
    ASSUME NEW R, OneEach(R), NEW T, NEW P, Extends(R, T, P), \A p \in P : p.id \notin Ids(R)
    PROVE  /\ Ids(T) = Ids(R) \cup {p.id : p \in P}
           /\ (P = {} /\ T = R) \/ \E p, r : P = {p} /\ r.id = p.id /\ T = Append(R, r)
<1>1. CASE P = {} /\ T = R
  BY <1>1
<1>2. ASSUME NEW e, P = {e.order}, T = Append(R, releaseOf(e))
      PROVE  /\ Ids(T) = Ids(R) \cup {p.id : p \in P}
             /\ \E p, r : P = {p} /\ r.id = p.id /\ T = Append(R, r)
  <2> DEFINE r == releaseOf(e)
  <2>1. r.id = e.order.id
    BY JournalEntry
  <2> HIDE DEF r
  <2>2. T = Append(R, r)
    BY <1>2 DEF r
  <2>3. Ids(T) = Ids(R) \cup {r.id}
    BY <2>2, IdsAppend DEF OneEach
  <2> QED BY <1>2, <2>1, <2>2, <2>3
<1> QED BY <1>1, <1>2 DEF Extends

LEMMA SettledAfter ==
    ASSUME NEW x, NEW R, NEW w, Settled(x, R, w), NEW a, a.mode = x.mode,
           NEW P, Grown(x.gate, a.gate, P), NEW T, Extends(R, T, P), NEW W, Verdicts(T, W, a.verdicts),
           Ids(a.verdicts.undecided) \subseteq Ids(x.verdicts.undecided) \cup {p.id : p \in {q \in P : q.sale = None}},
           Covered(x, w) \subseteq Covered(a, W),
           a.mode # "dry-run" => \A p \in P : p.sale = None => p.id \in Covered(a, W)
    PROVE  Settled(a, T, W)
<1>1. /\ OneEach(R) /\ DOMAIN x.gate.orders = Ids(R) /\ \A id \in Ids(x.verdicts.undecided) : x.gate.orders[id].sale = None
      /\ Ids(x.verdicts.undecided) \subseteq Ids(R)
  BY DEF Settled, Verdicts, Awaited
<1>2. /\ DOMAIN a.gate.orders = DOMAIN x.gate.orders \cup {p.id : p \in P}
      /\ \A id \in DOMAIN x.gate.orders : a.gate.orders[id].sale = x.gate.orders[id].sale
      /\ \A p \in P : p.id \notin DOMAIN x.gate.orders /\ a.gate.orders[p.id].sale = p.sale
  BY DEF Grown
<1>3. Ids(T) = Ids(R) \cup {p.id : p \in P}
  BY <1>1, <1>2, ExtendsFacts
<1>4. \A id \in Ids(a.verdicts.undecided) : a.gate.orders[id].sale = None
  BY <1>1, <1>2
<1>5. ASSUME a.mode # "dry-run", NEW id \in DOMAIN a.gate.orders, a.gate.orders[id].sale = None
      PROVE  id \in Covered(a, W)
  <2>1. CASE id \in DOMAIN x.gate.orders
    BY <1>2, <1>5, <2>1 DEF Settled
  <2>2. ASSUME NEW p \in P, id = p.id PROVE id \in Covered(a, W)
    BY <1>2, <1>5, <2>2
  <2> QED BY <1>2, <2>1, <2>2
<1> QED BY <1>1, <1>2, <1>3, <1>4, <1>5 DEF Settled

\* z counts what v counts, and awaits the same words.
Counted(v, z) ==
    /\ DOMAIN z = DOMAIN v /\ z.rejections = v.rejections /\ z.older = v.older
    /\ IsList(z.undecided) /\ DOMAIN z.undecided = DOMAIN v.undecided
    /\ \A a \in DOMAIN v.undecided : "id" \in DOMAIN z.undecided[a] /\ z.undecided[a].id = v.undecided[a].id

LEMMA CountedFacts ==
    ASSUME NEW v, NEW z, Counted(v, z)
    PROVE  Ids(z.undecided) = Ids(v.undecided)
  BY DEF Counted, Ids

LEMMA CountedSelf ==
    ASSUME NEW R, NEW w, NEW v, Verdicts(R, w, v)
    PROVE  Counted(v, v)
  BY DEF Verdicts, Awaited, OneEach, Counted

\* Nothing is settled, and only sales are released, or a dry run releases an order.
LEMMA SettledQuiet ==
    ASSUME NEW x, NEW R, NEW w, Settled(x, R, w), NEW a, a.mode = x.mode, Ids(x.cleared) \subseteq Ids(a.cleared), Ids(x.retired) \subseteq Ids(a.retired),
           Counted(x.verdicts, a.verdicts),
           NEW P, Grown(x.gate, a.gate, P), NEW T, Extends(R, T, P), a.mode = "dry-run" \/ \A p \in P : p.sale # None
    PROVE  Settled(a, T, w)
<1>1. Verdicts(R, w, a.verdicts)
  BY VerdictsLearnt DEF Settled, Counted
<1>2. OneEach(R) /\ \A p \in P : p.id \notin Ids(R)
  BY DEF Settled, Grown, Verdicts
<1>3. Verdicts(T, w, a.verdicts)
  <2>1. CASE P = {} /\ T = R
    BY <1>1, <2>1
  <2>2. ASSUME NEW p, NEW r, P = {p}, r.id = p.id, T = Append(R, r) PROVE Verdicts(T, w, a.verdicts)
    BY <1>1, <1>2, <2>2, VerdictsRelease
  <2> QED BY <1>2, <2>1, <2>2, ExtendsFacts
<1>4. Ids(a.verdicts.undecided) = Ids(x.verdicts.undecided)
  BY CountedFacts
<1>5. Covered(x, w) \subseteq Covered(a, w)
  BY <1>4 DEF Covered
<1> QED BY <1>3, <1>4, <1>5, SettledAfter

\* The order of a decision is released and awaits the venue's word.
LEMMA SettledPlaces ==
    ASSUME NEW x, NEW R, NEW w, Settled(x, R, w), NEW a, a.mode = x.mode, a.cleared = x.cleared, a.retired = x.retired,
           NEW p, p.sale = None, a.verdicts = Release(x.verdicts, p.id),
           Grown(x.gate, a.gate, {p}), NEW T, Extends(R, T, {p})
    PROVE  Settled(a, T, w)
<1>1. OneEach(R) /\ p.id \notin Ids(R) /\ Verdicts(R, w, x.verdicts)
  BY DEF Settled, Grown, Verdicts
<1>2. PICK r : r.id = p.id /\ T = Append(R, r)
  <2>1. \A q \in {p} : q.id \notin Ids(R)
    BY <1>1
  <2> QED BY <1>1, <2>1, ExtendsFacts
<1>3. Verdicts(T, w, a.verdicts)
  BY <1>1, <1>2, VerdictsAwait
<1>4. Ids(a.verdicts.undecided) = Ids(x.verdicts.undecided) \cup {p.id}
  <2> DEFINE e == [id |-> p.id, venue |-> FALSE]
             u == x.verdicts.undecided
  <2>1. p.id \notin Ids(u) /\ IsList(u) /\ "undecided" \in DOMAIN x.verdicts
    BY <1>1 DEF Verdicts, Awaited, OneEach
  <2>2. a.verdicts.undecided = Append(u, e)
    BY <2>1 DEF Release, Holds
  <2>3. e.id = p.id
    OBVIOUS
  <2> HIDE DEF e, u
  <2> QED BY <2>1, <2>2, <2>3, IdsAppend DEF u
<1>5. Covered(x, w) \subseteq Covered(a, w) /\ p.id \in Covered(a, w)
  BY <1>4 DEF Covered
<1>6. \A q \in {p} : q.sale = None => q.id \in Covered(a, w)
  BY <1>5
<1>7. Ids(a.verdicts.undecided) \subseteq Ids(x.verdicts.undecided) \cup {q.id : q \in {s \in {p} : s.sale = None}}
  BY <1>4
<1> QED BY <1>3, <1>5, <1>6, <1>7, SettledAfter

----------------------------------------------------------------------------
(* What an answer leaves to the verdicts *)

\* The orders released among the events written.
Freed(out) == {out[i].order : i \in {k \in DOMAIN out : out[k].type = "order.released"}}

LEMMA SaysFreed ==
    ASSUME NEW out, NEW P, Says(out, P)
    PROVE  P = Freed(out)
  BY DEF Says, Freed

LEMMA FreedNone == Freed(<<>>) = {}
  BY DEF Freed

LEMMA FreedAppend ==
    ASSUME NEW out, IsList(out), NEW e
    PROVE  Freed(Append(out, e)) = Freed(out) \cup (IF e.type = "order.released" THEN {e.order} ELSE {})
<1> DEFINE next == Append(out, e)
           L == Len(out)
<1>1. /\ L \in Nat /\ DOMAIN out = 1..L /\ DOMAIN next = 1..(L + 1) /\ next[L + 1] = e
      /\ \A i \in 1..L : next[i] = out[i]
  BY ListFacts, AppendFacts
<1> HIDE DEF next, L
<1>2. \A i : i \in 1..(L + 1) <=> i \in 1..L \/ i = L + 1
  BY <1>1
<1>3. ASSUME NEW p PROVE p \in Freed(next) <=> p \in Freed(out) \/ (e.type = "order.released" /\ p = e.order)
  <2>1. p \in Freed(next) <=> \E i \in 1..(L + 1) : next[i].type = "order.released" /\ p = next[i].order
    BY <1>1 DEF Freed
  <2>2. p \in Freed(out) <=> \E i \in 1..L : out[i].type = "order.released" /\ p = out[i].order
    BY <1>1 DEF Freed
  <2> QED BY <1>1, <1>2, <2>1, <2>2
<1> QED BY <1>3 DEF next

Whole(y) == HandlerRec(y) /\ IsList(y.out) /\ IsList(y.cleared)

\* z is y with the same verdicts and settlements, and has released only sales since.
Steady(y, z) ==
    /\ Whole(z) /\ z.mode = y.mode /\ z.verdicts = y.verdicts /\ z.cleared = y.cleared /\ z.retired = y.retired
    /\ Begins(y.out, z.out)

Quiet(y, z) == Steady(y, z) /\ \A p \in Freed(z.out) : p \in Freed(y.out) \/ p.sale # None

LEMMA SteadyTwice ==
    ASSUME NEW x, NEW y, NEW z, Steady(x, y), Steady(y, z)
    PROVE  Steady(x, z)
  BY DEF Steady, Begins

LEMMA QuietTwice ==
    ASSUME NEW x, NEW y, NEW z, Quiet(x, y), Quiet(y, z)
    PROVE  Quiet(x, z)
  BY SteadyTwice DEF Quiet

LEMMA QuietSelf ==
    ASSUME NEW y, Whole(y)
    PROVE  Quiet(y, y)
  BY DEF Steady, Quiet, Begins

LEMMA QuietFail ==
    ASSUME NEW y, Whole(y), NEW why
    PROVE  Quiet(y, Fail(y, why)) /\ Fail(y, why).gate = y.gate /\ (why # "" => Fail(y, why).fault # "")
  BY DEF Steady, Quiet, Whole, HandlerRec, Fail, Begins

LEMMA QuietWrite ==
    ASSUME NEW y, Whole(y), NEW e, NEW z, Adds(y, z, e)
    PROVE  /\ Steady(y, z) /\ z.gate = y.gate
           /\ Freed(z.out) = Freed(y.out) \cup (IF e.type = "order.released" THEN {e.order} ELSE {})
<1>1. /\ HandlerRec(z) /\ z.out = Append(y.out, e) /\ z.gate = y.gate /\ z.retired = y.retired
      /\ z.verdicts = y.verdicts /\ z.mode = y.mode /\ z.cleared = y.cleared
  BY WriteFacts DEF Whole
<1>2. IsList(z.out) /\ Freed(z.out) = Freed(y.out) \cup (IF e.type = "order.released" THEN {e.order} ELSE {})
  BY <1>1, AppendFacts, FreedAppend DEF Whole
<1>3. Begins(y.out, z.out)
  <2>1. Begins(y.out, y.out)
    BY DEF Begins
  <2> QED BY <1>1, <2>1, BeginsLonger DEF Whole
<1> QED BY <1>1, <1>2, <1>3 DEF Steady, Whole

LEMMA QuietAdd ==
    ASSUME NEW y, Whole(y), NEW e, NEW z, Adds(y, z, e), e.type # "order.released"
    PROVE  Quiet(y, z) /\ z.gate = y.gate /\ Freed(z.out) = Freed(y.out)
<1>1. /\ Steady(y, z) /\ z.gate = y.gate
      /\ Freed(z.out) = Freed(y.out) \cup (IF e.type = "order.released" THEN {e.order} ELSE {})
  BY QuietWrite
<1>2. Freed(z.out) = Freed(y.out)
  BY <1>1
<1> QED BY <1>1, <1>2 DEF Quiet

LEMMA QuietStates ==
    ASSUME NEW y, Whole(y), NEW states, states = <<>> \/ \E s : states = <<s>>
    PROVE  LET z == addStates(y, states) IN Quiet(y, z) /\ z.gate = y.gate /\ Freed(z.out) = Freed(y.out)
<1>1. CASE states = <<>>
  BY <1>1, StatesOfNone, QuietSelf
<1>2. ASSUME NEW s, states = <<s>>
      PROVE  LET z == addStates(y, states) IN Quiet(y, z) /\ z.gate = y.gate /\ Freed(z.out) = Freed(y.out)
  <2> DEFINE e == [type |-> "engine.state", state |-> s]
             z == addStates(y, states)
  <2>1. e.type = "engine.state"
    OBVIOUS
  <2>2. Adds(y, z, e)
    BY <1>2, StatesOfOne DEF add, Adds
  <2> HIDE DEF e, z
  <2>3. Quiet(y, z) /\ z.gate = y.gate /\ Freed(z.out) = Freed(y.out)
    BY <2>1, <2>2, QuietAdd
  <2> QED BY <2>3 DEF z
<1> QED BY <1>1, <1>2

LEMMA QuietLapsed ==
    ASSUME NEW y, Whole(y), NEW gone
    PROVE  Quiet(y, lapsed(y, gone)) /\ lapsed(y, gone).gate = y.gate /\ Freed(lapsed(y, gone).out) = Freed(y.out)
<1>1. CASE gone = None
  BY <1>1, QuietSelf DEF lapsed
<1>2. CASE gone # None
  <2> DEFINE e == [type |-> "sale.lapsed", sale |-> gone]
             z == lapsed(y, gone)
  <2>1. e.type = "sale.lapsed"
    OBVIOUS
  <2>2. Adds(y, z, e)
    BY <1>2 DEF lapsed, add, Adds
  <2> HIDE DEF e, z
  <2>3. Quiet(y, z) /\ z.gate = y.gate /\ Freed(z.out) = Freed(y.out)
    BY <2>1, <2>2, QuietAdd
  <2> QED BY <2>3 DEF z
<1> QED BY <1>1, <1>2

\* A step that writes nothing.
LEMMA QuietSame ==
    ASSUME NEW y, Whole(y), NEW z, HandlerRec(z), z.out = y.out, z.mode = y.mode,
           z.verdicts = y.verdicts, z.cleared = y.cleared, z.retired = y.retired
    PROVE  Quiet(y, z) /\ Freed(z.out) = Freed(y.out)
  BY DEF Steady, Quiet, Whole, Begins

LEMMA QuietUnsent ==
    ASSUME NEW y, Whole(y), NEW p, NEW at
    PROVE  Quiet(y, endUnsent(y, p, at)) /\ Freed(endUnsent(y, p, at).out) = Freed(y.out)
<1>1. CASE y.mode # "dry-run"
  BY <1>1, QuietSelf DEF endUnsent
<1>2. CASE y.mode = "dry-run"
  <2> DEFINE e == [type |-> "order.lifecycle", id |-> p.id]
             z == [y EXCEPT !.out = Append(@, e)]
             k == ObserveLifecycle(z.gate, p.id, "canceled", at, FALSE)
             m == [z EXCEPT !.gate = k]
  <2>1. e.type = "order.lifecycle" /\ Adds(y, z, e)
    BY DEF Adds
  <2>2. endUnsent(y, p, at) = m
    BY <1>2 DEF endUnsent, add
  <2> HIDE DEF e, z
  <2>3. Quiet(y, z) /\ Freed(z.out) = Freed(y.out) /\ Whole(z)
    BY <2>1, QuietAdd DEF Quiet, Steady
  <2> HIDE DEF k
  <2>4. /\ HandlerRec(m) /\ m.out = z.out /\ m.mode = z.mode
        /\ m.verdicts = z.verdicts /\ m.cleared = z.cleared /\ m.retired = z.retired
    BY <2>3 DEF Whole, HandlerRec
  <2> HIDE DEF m
  <2>5. Quiet(z, m) /\ Freed(m.out) = Freed(z.out)
    BY <2>3, <2>4, QuietSame
  <2> QED BY <2>2, <2>3, <2>5, QuietTwice
<1> QED BY <1>1, <1>2

\* What the planned order p leaves: it is released, or refused.
Ordered(y, p, o) ==
    /\ Steady(y, o.handler)
    /\ o.reason = "" => Freed(o.handler.out) = Freed(y.out) \cup {p}
    /\ o.reason # "" => /\ Freed(o.handler.out) = Freed(y.out)
                        /\ GateRec(o.handler.gate) /\ o.handler.gate.state \in States

LEMMA QuietOrder ==
    ASSUME NEW y, Whole(y), GateRec(y.gate), y.gate.state \in States, NEW p, NEW mark, NEW holdings, NEW at
    PROVE  Ordered(y, p, order(y, p, mark, holdings, at))
<1> DEFINE e1 == [type |-> "order.planned", order |-> p]
           h1 == add(y, ValidPlanned(p), e1)
           c == Check(h1.gate, p, mark, holdings, at)
           f == figures(h1.gate, p)
           h2 == [h1 EXCEPT !.gate = c.gate]
           e2 == [type |-> "order.released", order |-> p]
           e3 == [type |-> "order.refused", order |-> p, reason |-> c.reason]
           z2 == add(h2, ValidReleased(p, f, y.mode), e2)
           z3 == add(h2, ValidRefused(p, c.reason, f), e3)
           u == endUnsent(z2, p, at)
           h3 == IF c.reason = "" THEN u ELSE z3
           o == order(y, p, mark, holdings, at)
           z == addStates(h3, c.states)
<1>1. o.handler = z /\ o.reason = c.reason
  BY DEF order
<1>2. Adds(y, h1, e1) /\ Adds(h2, z2, e2) /\ Adds(h2, z3, e3)
  BY DEF Adds, add
<1>3. e1.type = "order.planned" /\ e2.type = "order.released" /\ e2.order = p /\ e3.type = "order.refused"
  OBVIOUS
<1> HIDE DEF h1, f, e1, e2, e3, z2, z3, o
<1>4. Quiet(y, h1) /\ h1.gate = y.gate /\ Freed(h1.out) = Freed(y.out) /\ Whole(h1)
  BY <1>2, <1>3, QuietAdd DEF Quiet, Steady
<1>5. Verdict(h1.gate, p, c)
  BY <1>4, CheckVerdict
<1> HIDE DEF c
<1>6. /\ HandlerRec(h2) /\ h2.out = h1.out /\ h2.mode = h1.mode
      /\ h2.verdicts = h1.verdicts /\ h2.cleared = h1.cleared /\ h2.retired = h1.retired /\ h2.gate = c.gate
  BY <1>4 DEF Whole, HandlerRec
<1> HIDE DEF h2
<1>7. Quiet(h1, h2) /\ Freed(h2.out) = Freed(h1.out) /\ Whole(h2)
  <2>1. Quiet(h1, h2) /\ Freed(h2.out) = Freed(h1.out)
    BY <1>4, <1>6, QuietSame
  <2> QED BY <2>1 DEF Quiet, Steady
<1>8. Steady(y, h2) /\ Freed(h2.out) = Freed(y.out)
  BY <1>4, <1>7, SteadyTwice DEF Quiet
<1>9. /\ Steady(h2, z2) /\ Freed(z2.out) = Freed(h2.out) \cup {p}
      /\ Steady(h2, z3) /\ Freed(z3.out) = Freed(h2.out) /\ z3.gate = c.gate
  <2>1. /\ Steady(h2, z2)
        /\ Freed(z2.out) = Freed(h2.out) \cup (IF e2.type = "order.released" THEN {e2.order} ELSE {})
    BY <1>2, <1>7, QuietWrite
  <2>2. Quiet(h2, z3) /\ z3.gate = h2.gate /\ Freed(z3.out) = Freed(h2.out)
    BY <1>2, <1>3, <1>7, QuietAdd
  <2> QED BY <1>3, <1>6, <2>1, <2>2 DEF Quiet
<1>10. Whole(z2) /\ Whole(z3)
  BY <1>9 DEF Steady
<1>11. Steady(z2, u) /\ Freed(u.out) = Freed(z2.out)
  BY <1>10, QuietUnsent DEF Quiet
<1> HIDE DEF u
<1>12. /\ Steady(h2, h3)
       /\ c.reason = "" => Freed(h3.out) = Freed(h2.out) \cup {p}
       /\ c.reason # "" => Freed(h3.out) = Freed(h2.out) /\ h3.gate = c.gate
  BY <1>9, <1>11, SteadyTwice
<1> HIDE DEF h3
<1>13. Quiet(h3, z) /\ z.gate = h3.gate /\ Freed(z.out) = Freed(h3.out)
  BY <1>5, <1>12, QuietStates DEF Verdict, Steady
<1> HIDE DEF z
<1>14. Steady(y, z)
  BY <1>8, <1>12, <1>13, SteadyTwice DEF Quiet
<1>15. ASSUME c.reason # "" PROVE GateRec(z.gate) /\ z.gate.state \in States
  <2>1. Frame(y.gate, c.gate)
    BY <1>4, <1>5, <1>15 DEF Verdict
  <2> QED BY <1>12, <1>13, <1>15, <2>1, FrameRec DEF Frame
<1>16. Ordered(y, p, o)
  BY <1>1, <1>8, <1>12, <1>13, <1>14, <1>15 DEF Ordered
<1> QED BY <1>16 DEF o

\* The one sale.
LEMMA QuietSale ==
    ASSUME NilIsNoRecord, NEW y, Whole(y), GateRec(y.gate), y.gate.state \in States, NEW trigger \in Triggers, NEW at
    PROVE  Quiet(y, sale(y, trigger, at))
<1> DEFINE s == Sale(y.gate, trigger, at)
           h1 == [y EXCEPT !.gate = s.gate]
           holdings == [i \in Instruments |-> IF i = Instrument THEN s.order.held ELSE 0]
           e == [type |-> "sale.withheld", sale |-> s.withheld]
           z == sale(y, trigger, at)
           p == s.order
           o == order(h1, p, "none", holdings, at)
<1>1. /\ ~s.ok => z = h1
      /\ s.ok /\ s.withheld # None => Adds(h1, z, e)
      /\ s.ok /\ s.withheld = None => z = o.handler
  BY DEF sale, add, Adds
<1>2. s.gate.state = y.gate.state /\ (NotFired(y.gate, s) \/ Withheld(y.gate, s, trigger) \/ Fired(y.gate, s, trigger))
  BY SaleFacts
<1>3. e.type = "sale.withheld"
  OBVIOUS
<1> HIDE DEF s, e, z, holdings
<1>4. /\ HandlerRec(h1) /\ h1.out = y.out /\ h1.mode = y.mode
      /\ h1.verdicts = y.verdicts /\ h1.cleared = y.cleared /\ h1.retired = y.retired /\ h1.gate = s.gate
  BY DEF Whole, HandlerRec
<1> HIDE DEF h1
<1>5. Quiet(y, h1) /\ Freed(h1.out) = Freed(y.out) /\ Whole(h1)
  <2>1. Quiet(y, h1) /\ Freed(h1.out) = Freed(y.out)
    BY <1>4, QuietSame
  <2> QED BY <2>1 DEF Quiet, Steady
<1>6. CASE ~s.ok
  BY <1>1, <1>5, <1>6 DEF z
<1>7. CASE s.ok /\ s.withheld # None
  <2>1. Quiet(h1, z)
    BY <1>1, <1>3, <1>5, <1>7, QuietAdd
  <2> QED BY <1>5, <2>1, QuietTwice DEF z
<1>8. CASE s.ok /\ s.withheld = None
  <2>1. p.sale # None /\ Kept(recordAttempt(y.gate, p.tag), s.gate)
    BY <1>2, <1>8 DEF NotFired, Withheld, Fired
  <2>2. GateRec(h1.gate) /\ h1.gate.state \in States
    <3>1. GateRec(recordAttempt(y.gate, p.tag))
      BY DEF GateRec, recordAttempt
    <3> QED BY <1>2, <1>4, <2>1, <3>1, FrameRec
  <2> HIDE DEF p
  <2>3. /\ Steady(h1, o.handler)
        /\ o.reason = "" => Freed(o.handler.out) = Freed(h1.out) \cup {p}
        /\ o.reason # "" => Freed(o.handler.out) = Freed(h1.out)
    <3>1. Ordered(h1, p, o)
      BY <1>5, <2>2, QuietOrder
    <3> HIDE DEF o
    <3> QED BY <3>1 DEF Ordered
  <2> HIDE DEF o
  <2>4. Quiet(h1, o.handler)
    BY <2>1, <2>3 DEF Quiet
  <2> QED BY <1>1, <1>5, <1>8, <2>4, QuietTwice DEF z
<1> QED BY <1>6, <1>7, <1>8

----------------------------------------------------------------------------
(* The inputs that settle nothing *)

VerdictRec(v) ==
    /\ {"rejections", "undecided", "older", "inARow", "whileStopped"} \subseteq DOMAIN v
    /\ IsList(v.undecided) /\ \A a \in DOMAIN v.undecided : "id" \in DOMAIN v.undecided[a]

\* A handler about to answer.
Ready(x) == Whole(x) /\ x.out = <<>> /\ GateRec(x.gate) /\ x.gate.state \in States /\ VerdictRec(x.verdicts)

\* The answer a counts and awaits what x did, and releases only sales unless it is a dry run's.
Calm(x, a) ==
    /\ Whole(a) /\ a.mode = x.mode /\ Ids(x.cleared) \subseteq Ids(a.cleared) /\ Ids(x.retired) \subseteq Ids(a.retired)
    /\ Counted(x.verdicts, a.verdicts)
    /\ a.mode = "dry-run" \/ \A p \in Freed(a.out) : p.sale # None

LEMMA CalmAfter ==
    ASSUME NEW x, NEW y, Whole(y), y.out = <<>>, y.mode = x.mode, y.cleared = x.cleared, y.retired = x.retired,
           Counted(x.verdicts, y.verdicts), NEW a, Quiet(y, a)
    PROVE  Calm(x, a)
  BY FreedNone DEF Calm, Quiet, Steady

LEMMA CountedSame ==
    ASSUME NEW v, VerdictRec(v)
    PROVE  Counted(v, v)
  BY DEF VerdictRec, Counted

LEMMA CalmQuiet ==
    ASSUME NEW x, Ready(x), NEW a, Quiet(x, a)
    PROVE  Calm(x, a)
  BY CountedSame, CalmAfter DEF Ready

LEMMA QuietAlike ==
    ASSUME NEW y, Whole(y), NEW z, Alike(y, z), z.verdicts = y.verdicts, z.cleared = y.cleared
    PROVE  Quiet(y, z) /\ Freed(z.out) = Freed(y.out) /\ Whole(z)
<1>1. HandlerRec(z) /\ z.out = y.out /\ z.mode = y.mode /\ z.retired = y.retired
  BY DEF Alike
<1>2. Quiet(y, z) /\ Freed(z.out) = Freed(y.out)
  BY <1>1, QuietSame
<1> QED BY <1>2 DEF Quiet, Steady

LEMMA CalmFail ==
    ASSUME NEW x, Ready(x), NEW why
    PROVE  Calm(x, Fail(x, why))
  BY QuietFail, CalmQuiet DEF Ready

LEMMA CalmSnapshot ==
    ASSUME NEW x, Ready(x), NEW s
    PROVE  Calm(x, applySnapshot(x, s))
<1> DEFINE b == [anchor |-> <<"book", s.asOf>>, asOf |-> s.asOf, positions |-> s.positions]
           k == ObserveAccount(x.gate, s)
           c == CheckBook(k, b)
           z == [x EXCEPT !.snapshot = s, !.gate = c.gate]
           a == applySnapshot(x, s)
<1>1. a = Fail(x, "account snapshot") \/ a = addStates(z, c.states)
  BY DEF applySnapshot
<1>2. GateRec(x.gate) /\ x.gate.state \in States /\ Whole(x)
  BY DEF Ready
<1>3. GateRec(k) /\ k.state \in States
  BY <1>2, FrameAccount, FrameRec DEF Frame
<1> HIDE DEF k, b, a
<1>4. c.states = <<>> \/ \E e : c.states = <<e>>
  BY <1>3, FrameBook
<1> HIDE DEF c
<1>5. /\ HandlerRec(z) /\ z.out = x.out /\ z.mode = x.mode /\ z.verdicts = x.verdicts
      /\ z.cleared = x.cleared /\ z.retired = x.retired
  BY <1>2 DEF Whole, HandlerRec
<1> HIDE DEF z
<1>6. Quiet(x, z) /\ Whole(z)
  BY <1>2, <1>5, QuietSame DEF Quiet, Steady
<1>7. Quiet(z, addStates(z, c.states))
  BY <1>4, <1>6, QuietStates
<1>8. Quiet(x, addStates(z, c.states))
  BY <1>6, <1>7, QuietTwice
<1> QED BY <1>1, <1>8, CalmQuiet, CalmFail DEF a

LEMMA CalmReconciliation ==
    ASSUME NEW x, Ready(x), NEW id, NEW obs
    PROVE  Calm(x, applyReconciliation(x, id, obs))
<1> DEFINE c == Reconcile(x.gate, id, obs)
           e == [type |-> "reconciliation.result", id |-> id]
           z == [x EXCEPT !.gate = c.gate]
           m == [z EXCEPT !.out = Append(@, e)]
<1>1. applyReconciliation(x, id, obs) = addStates(m, c.states)
  BY DEF applyReconciliation, add
<1>2. GateRec(x.gate) /\ x.gate.state \in States /\ Whole(x)
  BY DEF Ready
<1>3. c.states = <<>> \/ \E s : c.states = <<s>>
  BY <1>2, FrameReconcile
<1> HIDE DEF c
<1>4. /\ HandlerRec(z) /\ z.out = x.out /\ z.mode = x.mode /\ z.verdicts = x.verdicts
      /\ z.cleared = x.cleared /\ z.retired = x.retired
  BY <1>2 DEF Whole, HandlerRec
<1>5. Adds(z, m, e) /\ e.type = "reconciliation.result"
  BY DEF Adds
<1> HIDE DEF z, m, e
<1>6. Quiet(x, z) /\ Whole(z)
  BY <1>2, <1>4, QuietSame DEF Quiet, Steady
<1>7. Quiet(z, m) /\ Whole(m)
  <2>1. Quiet(z, m)
    BY <1>5, <1>6, QuietAdd
  <2> QED BY <2>1 DEF Quiet, Steady
<1>8. Quiet(m, addStates(m, c.states))
  BY <1>3, <1>7, QuietStates
<1>9. Quiet(x, addStates(m, c.states))
  BY <1>6, <1>7, <1>8, QuietTwice
<1> QED BY <1>1, <1>9, CalmQuiet

LEMMA CalmCorporate ==
    ASSUME NEW x, Ready(x), NEW c
    PROVE  Calm(x, applyCorporateAction(x, c))
<1> DEFINE k == ObserveCorporateAction(x.gate, c)
           z == [x EXCEPT !.gate = k]
<1>1. applyCorporateAction(x, c) = z
  BY DEF applyCorporateAction
<1> HIDE DEF k
<1>2. /\ HandlerRec(z) /\ z.out = x.out /\ z.mode = x.mode /\ z.verdicts = x.verdicts
      /\ z.cleared = x.cleared /\ z.retired = x.retired
  BY DEF Ready, Whole, HandlerRec
<1> HIDE DEF z
<1>3. Quiet(x, z)
  BY <1>2, QuietSame DEF Ready
<1> QED BY <1>1, <1>3, CalmQuiet

----------------------------------------------------------------------------
(* A broker snapshot *)

\* The venue's numbers: the same orders are undecided.
LEMMA VenueFacts ==
    ASSUME NEW y, Whole(y), VerdictRec(y.verdicts), NEW ids
    PROVE  LET z == learnVenueID(name(y, ids), ids)
           IN  /\ Whole(z) /\ Alike(y, z) /\ z.cleared = y.cleared /\ Counted(y.verdicts, z.verdicts) /\ VerdictRec(z.verdicts)
<1> DEFINE n == name(y, ids)
           z == learnVenueID(n, ids)
           u == y.verdicts.undecided
           learn(orders) == [i \in DOMAIN orders |-> IF orders[i].id \in ids THEN [orders[i] EXCEPT !.venue = TRUE] ELSE orders[i]]
           next == learn(u)
<1>1. Alike(y, n) /\ HandlerRec(n) /\ n.verdicts = y.verdicts /\ n.cleared = y.cleared
  BY DEF Whole, HandlerRec, Alike, name
<1> HIDE DEF n
<1>2. Alike(n, z)
  BY <1>1, AlikeVenueID
<1>3. z.cleared = n.cleared /\ z.verdicts = [n.verdicts EXCEPT !.undecided = learn(@)]
  BY <1>1 DEF HandlerRec, learnVenueID
<1> HIDE DEF z
<1>4. Alike(y, z)
  BY <1>1, <1>2, AlikeTwice
<1>5. Len(u) \in Nat /\ DOMAIN u = 1..Len(u) /\ IsList(u)
  BY ListFacts DEF VerdictRec
<1>6. DOMAIN next = DOMAIN u /\ next = [i \in DOMAIN u |-> next[i]]
  OBVIOUS
<1>7. \A i \in DOMAIN u : next[i] = IF u[i].id \in ids THEN [u[i] EXCEPT !.venue = TRUE] ELSE u[i]
  OBVIOUS
<1>8. z.verdicts = [y.verdicts EXCEPT !.undecided = next]
  BY <1>1, <1>3 DEF VerdictRec
<1> HIDE DEF next
<1>9. IsList(next)
  BY <1>5, <1>6, ListOf
<1>10. \A i \in DOMAIN u : "id" \in DOMAIN next[i] /\ next[i].id = u[i].id
  BY <1>7 DEF VerdictRec
<1>11. /\ DOMAIN z.verdicts = DOMAIN y.verdicts /\ z.verdicts.rejections = y.verdicts.rejections
       /\ z.verdicts.older = y.verdicts.older /\ z.verdicts.undecided = next
  BY <1>8 DEF VerdictRec
<1>12. Counted(y.verdicts, z.verdicts) /\ VerdictRec(z.verdicts)
  BY <1>6, <1>9, <1>10, <1>11 DEF Counted, VerdictRec
<1>13. Whole(z)
  BY <1>1, <1>3, <1>4 DEF Whole, Alike
<1> QED BY <1>1, <1>3, <1>4, <1>12, <1>13 DEF z, n

LEMMA CalmBroker ==
    ASSUME NilIsNoRecord, NEW x, Ready(x), NEW s
    PROVE  Calm(x, applyBrokerSnapshot(x, s))
<1> DEFINE o == ObserveBroker(x.gate, s)
           h0 == [x EXCEPT !.gate = o.gate]
           own == IF s.named THEN DOMAIN s.left \cap DOMAIN h0.gate.orders ELSE {}
           h1 == learnListings(h0, s)
           alarm == alarmOf(o.gate, s)
           e == [type |-> "margin.alarm", alarm |-> alarm]
           alarmed == o.gate.alarmLevel # x.gate.alarmLevel
           h2 == IF alarmed THEN add(h1, ValidAlarm(alarm), e) ELSE h1
           h3a == lapsed(h2, o.lapsed.exit)
           h3 == lapsed(h3a, o.lapsed.urgent)
           a == applyBrokerSnapshot(x, s)
<1>1. \/ a = Fail(x, "broker snapshot")
      \/ o.urgent /\ ~o.exit /\ a = sale(h3, "margin-urgent", s.asOf)
      \/ ~o.urgent /\ o.exit /\ a = sale(h3, "exit", s.asOf)
      \/ a = h3
      \/ o.urgent /\ o.exit
  <2> HIDE DEF h3
  <2> QED BY DEF applyBrokerSnapshot, h3
<1>2. GateRec(x.gate) /\ x.gate.state \in States /\ Whole(x) /\ VerdictRec(x.verdicts) /\ x.out = <<>>
  BY DEF Ready
<1>3. Kept(x.gate, o.gate) /\ o.gate.state = x.gate.state /\ ~(o.urgent /\ o.exit)
  BY <1>2, BrokerFacts
<1>4. h2 = h1 \/ Adds(h1, h2, e)
  BY DEF add, Adds
<1>5. e.type = "margin.alarm"
  OBVIOUS
<1>6. h1 = learnVenueID(name(h0, own), own)
  BY DEF learnListings
<1> HIDE DEF o, alarm, e, alarmed, a, own
<1>7. /\ Whole(h0) /\ h0.out = x.out /\ h0.mode = x.mode /\ h0.verdicts = x.verdicts
      /\ h0.cleared = x.cleared /\ h0.retired = x.retired /\ h0.gate = o.gate
  BY <1>2 DEF Whole, HandlerRec
<1> HIDE DEF h0
<1>8. Whole(h1) /\ Alike(h0, h1) /\ h1.cleared = h0.cleared /\ Counted(h0.verdicts, h1.verdicts)
  <2> HIDE DEF h1
  <2> QED BY <1>2, <1>6, <1>7, VenueFacts
<1> HIDE DEF h1
<1>9. h1.out = <<>> /\ h1.mode = x.mode /\ h1.retired = x.retired /\ h1.gate = o.gate
  BY <1>2, <1>7, <1>8 DEF Alike
<1>10. Quiet(h1, h2) /\ h2.gate = o.gate
  BY <1>4, <1>5, <1>8, <1>9, QuietAdd, QuietSelf
<1> HIDE DEF h2
<1>11. Quiet(h2, h3a) /\ h3a.gate = o.gate
  BY <1>10, QuietLapsed DEF Quiet, Steady
<1> HIDE DEF h3a
<1>12. Quiet(h3a, h3) /\ h3.gate = o.gate
  BY <1>11, QuietLapsed DEF Quiet, Steady
<1> HIDE DEF h3
<1>13. Quiet(h1, h3)
  BY <1>10, <1>11, <1>12, QuietTwice
<1>14. Whole(h3) /\ GateRec(h3.gate) /\ h3.gate.state \in States
  BY <1>2, <1>3, <1>12, FrameRec DEF Quiet, Steady
<1>15. \A trigger \in Triggers : Quiet(h1, sale(h3, trigger, s.asOf))
  BY <1>13, <1>14, QuietSale, QuietTwice
<1>16. \A z : Quiet(h1, z) => Calm(x, z)
  BY <1>7, <1>8, <1>9, CalmAfter
<1>17. \A trigger \in Triggers : Calm(x, sale(h3, trigger, s.asOf))
  BY <1>15, <1>16
<1>18. Calm(x, h3) /\ Calm(x, Fail(x, "broker snapshot"))
  BY <1>13, <1>16, CalmFail
<1> QED BY <1>1, <1>3, <1>17, <1>18 DEF a, Triggers

----------------------------------------------------------------------------
(* A session's close *)

\* The answer a releases the order of a decision, which awaits the venue's word from now on.
Placing(x, a) ==
    /\ Whole(a) /\ a.mode = x.mode /\ a.cleared = x.cleared /\ a.retired = x.retired
    /\ \E p : p.sale = None /\ Freed(a.out) = {p} /\ a.verdicts = Release(x.verdicts, p.id)

\* What a session does: it settles nothing, or places one order.
Sessioned(x, a) == Calm(x, a) \/ Placing(x, a)

\* The decision rewritten.
LEMMA QuietReplan ==
    ASSUME NEW y, Whole(y), NEW at \in DOMAIN y.out, NEW d, y.out[at] = [type |-> "targets.decided", decision |-> d]
    PROVE  LET z == settleReplan(y, at)
           IN  /\ Whole(z) /\ z.mode = y.mode /\ z.verdicts = y.verdicts /\ z.cleared = y.cleared /\ z.retired = y.retired
               /\ Freed(z.out) = Freed(y.out)
<1> DEFINE new == [y.out[at].decision EXCEPT !.boost = settledFigures(y, @)]
           k == swept(y)
           f == Fail(k, "invalid decision")
           z == settleReplan(y, at)
           out == [y.out EXCEPT ![at].decision = new]
<1>1. Alike(y, k) /\ HandlerRec(y) /\ k.verdicts = y.verdicts /\ k.cleared = y.cleared
  BY AlikeSwept DEF Whole
<1>2. z = [k EXCEPT !.out[at].decision = new] \/ z = [f EXCEPT !.out[at].decision = new]
  BY DEF settleReplan
<1> HIDE DEF k
<1>3. Alike(k, f) /\ f.verdicts = k.verdicts /\ f.cleared = k.cleared
  BY <1>1, AlikeFail DEF Alike
<1> HIDE DEF f, new, z
<1>4. /\ HandlerRec(z) /\ z.out = out /\ z.retired = y.retired /\ z.mode = y.mode /\ z.verdicts = y.verdicts
      /\ z.cleared = y.cleared
  BY <1>1, <1>2, <1>3 DEF Alike, HandlerRec
<1>5. Len(y.out) \in Nat /\ DOMAIN y.out = 1..Len(y.out)
  BY ListFacts DEF Whole
<1>6. /\ DOMAIN out = DOMAIN y.out /\ out[at].type = "targets.decided"
      /\ \A i \in DOMAIN y.out : i # at => out[i] = y.out[i]
  OBVIOUS
<1>7. out = [i \in DOMAIN y.out |-> out[i]]
  OBVIOUS
<1> HIDE DEF out
<1>8. IsList(out)
  BY <1>5, <1>6, <1>7, ListOf
<1>9. Freed(out) = Freed(y.out)
  <2>0. y.out[at].type = "targets.decided"
    OBVIOUS
  <2>1. \A i \in DOMAIN y.out : i # at \/ (out[i].type # "order.released" /\ y.out[i].type # "order.released")
    BY <1>6, <2>0
  <2>2. {k2 \in DOMAIN out : out[k2].type = "order.released"} = {k2 \in DOMAIN y.out : y.out[k2].type = "order.released"}
    BY <1>6, <2>1
  <2> DEFINE S == {k2 \in DOMAIN y.out : y.out[k2].type = "order.released"}
  <2>3. \A i \in S : out[i] = y.out[i]
    BY <1>6, <2>1
  <2> QED BY <2>2, <2>3 DEF Freed
<1>10. Whole(z) /\ Freed(z.out) = Freed(y.out)
  BY <1>4, <1>8, <1>9 DEF Whole
<1> QED BY <1>4, <1>10 DEF z

LEMMA QuietTrade ==
    ASSUME NilIsNoRecord, NEW y, Whole(y), GateRec(y.gate), y.gate.state \in States, NEW last,
           Len(y.out) \in DOMAIN y.out, NEW d, y.out[Len(y.out)] = [type |-> "targets.decided", decision |-> d],
           Freed(y.out) = {}, NEW x, Counted(x.verdicts, y.verdicts), y.verdicts = x.verdicts, y.mode = x.mode,
           y.cleared = x.cleared, y.retired = x.retired
    PROVE  Sessioned(x, trade(y, last))
<1> DEFINE tag == <<"targets-decided", last>>
           at == Len(y.out)
           dd == y.out[at].decision
           shares == y.snapshot.positions[Instrument]
           sameTarget == y.inForce = dd.target
           plan == PlanBoost(tag, dd, shares, PendingSells(y.gate), y.replan)
           stopped == IF plan = None THEN FALSE ELSE Stopped(y.verdicts) /\ plan.side # "sell"
           p == IF stopped THEN None ELSE plan
           sells == IF p = None THEN FALSE ELSE p.side = "sell"
           afterRejection == y.replan /\ y.cause.cause = "rejected" /\ sameTarget
           h1 == [y EXCEPT !.inForce = dd.target, !.gate.decided = @ \cup {tag}, !.replan = FALSE, !.cause = NoReplan,
                           !.watch = IF @ = None THEN None ELSE IF @.status # "" THEN None ELSE @]
           lapse == IF sells THEN [gate |-> h1.gate, lapsed |-> None] ELSE LapseExitSale(h1.gate)
           h2 == [h1 EXCEPT !.gate = lapse.gate]
           h3 == lapsed(h2, lapse.lapsed)
           marked == IF y.mark = None THEN "none" ELSE IF y.mark.asOf < last THEN "none" ELSE y.mark.price
           o == order(h3, p, marked, y.snapshot.positions, last)
           again == o.reason # "" /\ o.handler.gate.state = "normal"
           h4 == [o.handler EXCEPT !.replan = again,
                                   !.cause = IF ~again THEN @ ELSE IF afterRejection THEN y.cause ELSE Refusal]
           watch == [id |-> p.id, side |-> p.side, released |-> p.quantity, status |-> "", ended |-> 0,
                     afterRejection |-> afterRejection, venue |-> FALSE]
           h5 == IF o.reason # "" \/ y.mode = "dry-run" THEN h4
                 ELSE [unwatch(h4) EXCEPT !.watch = watch, !.verdicts = Release(@, p.id)]
           h6 == IF sells /\ o.reason # "" THEN sale(h5, "exit", last) ELSE h5
<1>1. trade(y, last) = settleReplan(IF p = None THEN h3 ELSE h6, at)
  BY DEF trade
<1> HIDE DEF shares, sameTarget, marked, afterRejection
<1>3. \/ p = None
      \/ p # None /\ p.sale = None
  <2>1. plan = None \/ (plan # None /\ plan.sale = None)
    BY BoostPlan
  <2> HIDE DEF plan
  <2> QED BY <2>1
<1> HIDE DEF p
<1>4. /\ HandlerRec(h1) /\ h1.out = y.out /\ h1.retired = y.retired /\ h1.cleared = y.cleared /\ h1.mode = y.mode
      /\ h1.verdicts = y.verdicts /\ h1.gate = [y.gate EXCEPT !.decided = @ \cup {tag}]
  BY DEF HandlerRec, Whole
<1>5. Frame(y.gate, [y.gate EXCEPT !.decided = @ \cup {tag}])
  BY DEF GateRec, Frame, Kept, Tighter, SameArms
<1> HIDE DEF h1
<1>6. Quiet(y, h1) /\ Whole(h1) /\ GateRec(h1.gate) /\ h1.gate.state \in States /\ Freed(h1.out) = {}
  <2>1. Quiet(y, h1) /\ Freed(h1.out) = Freed(y.out)
    BY <1>4, QuietSame
  <2> QED BY <1>4, <1>5, <2>1, FrameRec DEF Quiet, Steady, Frame
<1>8. Kept(h1.gate, lapse.gate) /\ lapse.gate.state = h1.gate.state
  <2> DEFINE l == LapseExitSale(h1.gate)
  <2>1. Kept(h1.gate, l.gate) /\ l.gate.state = h1.gate.state
    BY <1>6, LapseFacts
  <2> HIDE DEF l
  <2>2. CASE sells
    <3>1. lapse.gate = h1.gate
      BY <2>2
    <3> HIDE DEF lapse
    <3> QED BY <3>1 DEF Kept, Tighter
  <2>3. CASE ~sells
    <3>1. lapse = l
      BY <2>3 DEF l
    <3> QED BY <2>1, <3>1
  <2> QED BY <2>2, <2>3
<1> HIDE DEF lapse
<1>9. /\ HandlerRec(h2) /\ h2.out = h1.out /\ h2.retired = h1.retired /\ h2.cleared = h1.cleared /\ h2.mode = h1.mode
      /\ h2.verdicts = h1.verdicts /\ h2.gate = lapse.gate
  BY <1>6 DEF HandlerRec, Whole
<1> HIDE DEF h2
<1>10. Quiet(h1, h2) /\ Whole(h2) /\ Freed(h2.out) = {}
  <2>1. Quiet(h1, h2) /\ Freed(h2.out) = Freed(h1.out)
    BY <1>6, <1>9, QuietSame
  <2> QED BY <1>6, <2>1 DEF Quiet, Steady
<1>11. Quiet(h2, h3) /\ h3.gate = h2.gate /\ Freed(h3.out) = {}
  BY <1>10, QuietLapsed
<1> HIDE DEF h3
<1>12. Steady(y, h3) /\ Whole(h3) /\ GateRec(h3.gate) /\ h3.gate.state \in States
  <2>1. Quiet(y, h3)
    BY <1>6, <1>10, <1>11, QuietTwice
  <2> QED BY <1>6, <1>8, <1>9, <1>11, <2>1, FrameRec DEF Quiet, Steady
<1>13. ASSUME NEW z, Steady(y, z)
       PROVE  at \in DOMAIN z.out /\ z.out[at] = y.out[at]
  BY <1>13 DEF Steady, Begins
<1>14. CASE p = None
  <2>1. trade(y, last) = settleReplan(h3, at)
    BY <1>1, <1>14
  <2>2. at \in DOMAIN h3.out /\ h3.out[at] = [type |-> "targets.decided", decision |-> d]
    BY <1>12, <1>13
  <2> DEFINE a == settleReplan(h3, at)
  <2> HIDE DEF at
  <2>3. /\ Whole(a) /\ a.mode = h3.mode /\ a.verdicts = h3.verdicts /\ a.cleared = h3.cleared /\ a.retired = h3.retired
        /\ Freed(a.out) = Freed(h3.out)
    BY <1>12, <2>2, QuietReplan
  <2> HIDE DEF a
  <2>4. Calm(x, a)
    BY <1>11, <1>12, <2>3 DEF Calm, Steady
  <2> QED BY <2>1, <2>4 DEF Sessioned, a
<1>15. CASE p # None
  <2>1. Ordered(h3, p, o) /\ p.sale = None
    BY <1>3, <1>12, <1>15, QuietOrder
  <2> HIDE DEF o, again
  <2>2. /\ Steady(h3, o.handler)
        /\ o.reason = "" => Freed(o.handler.out) = {p}
        /\ o.reason # "" => /\ Freed(o.handler.out) = {}
                            /\ GateRec(o.handler.gate) /\ o.handler.gate.state \in States
    BY <1>11, <2>1 DEF Ordered
  <2>3. /\ HandlerRec(h4) /\ h4.out = o.handler.out /\ h4.retired = o.handler.retired /\ h4.cleared = o.handler.cleared
        /\ h4.mode = o.handler.mode /\ h4.verdicts = o.handler.verdicts /\ h4.gate = o.handler.gate
    BY <2>2 DEF Steady, Whole, HandlerRec
  <2> HIDE DEF h4
  <2>4. Steady(y, h4) /\ Whole(h4) /\ Freed(h4.out) = Freed(o.handler.out)
    <3>1. Quiet(o.handler, h4)
      BY <2>2, <2>3, QuietSame DEF Steady
    <3> QED BY <1>12, <2>2, <2>3, <3>1, SteadyTwice DEF Quiet, Steady
  <2>5. ASSUME NEW z, Whole(z), at \in DOMAIN z.out, z.out[at] = y.out[at], NEW b, b = settleReplan(z, at)
        PROVE  /\ Whole(b) /\ b.mode = z.mode /\ b.verdicts = z.verdicts /\ b.cleared = z.cleared /\ b.retired = z.retired
               /\ Freed(b.out) = Freed(z.out)
    <3> HIDE DEF at
    <3>1. z.out[at] = [type |-> "targets.decided", decision |-> d]
      BY <2>5 DEF at
    <3> QED BY <2>5, <3>1, QuietReplan
  <2>6. trade(y, last) = settleReplan(h6, at)
    BY <1>1, <1>15
  <2> DEFINE a == settleReplan(h6, at)
  <2>7. CASE o.reason # ""
    <3>1. h5 = h4
      BY <2>7
    <3> HIDE DEF h5
    <3>2. Quiet(h4, h6)
      <4>1. Quiet(h4, sale(h4, "exit", last))
        BY <2>2, <2>3, <2>4, <2>7, QuietSale DEF Triggers
      <4>2. Quiet(h4, h4)
        BY <2>4, QuietSelf
      <4> QED BY <2>7, <3>1, <4>1, <4>2
    <3> HIDE DEF h6
    <3>3. Steady(y, h6) /\ Whole(h6) /\ \A q \in Freed(h6.out) : q.sale # None
      BY <2>2, <2>4, <2>7, <3>2, SteadyTwice DEF Quiet, Steady
    <3>4. at \in DOMAIN h6.out /\ h6.out[at] = y.out[at]
      BY <1>13, <3>3
    <3>5. /\ Whole(a) /\ a.mode = h6.mode /\ a.verdicts = h6.verdicts /\ a.cleared = h6.cleared /\ a.retired = h6.retired
          /\ Freed(a.out) = Freed(h6.out)
      BY <2>5, <3>3, <3>4
    <3> HIDE DEF a
    <3>6. Calm(x, a)
      BY <3>3, <3>5 DEF Calm, Steady
    <3> QED BY <2>6, <3>6 DEF Sessioned, a
  <2>8. CASE o.reason = "" /\ y.mode = "dry-run"
    <3>1. h6 = h4
      BY <2>8
    <3> HIDE DEF h6
    <3>2. at \in DOMAIN h6.out /\ h6.out[at] = y.out[at]
      BY <1>13, <2>4, <3>1
    <3>3. /\ Whole(a) /\ a.mode = h6.mode /\ a.verdicts = h6.verdicts /\ a.cleared = h6.cleared /\ a.retired = h6.retired
      BY <2>4, <2>5, <3>1, <3>2
    <3> HIDE DEF a
    <3>4. Calm(x, a)
      BY <2>4, <2>8, <3>1, <3>3 DEF Calm, Steady
    <3> QED BY <2>6, <3>4 DEF Sessioned, a
  <2>9. CASE o.reason = "" /\ y.mode # "dry-run"
    <3> DEFINE u == unwatch(h4)
               m == [u EXCEPT !.watch = watch, !.verdicts = Release(@, p.id)]
    <3>1. h6 = m
      BY <2>9
    <3> HIDE DEF h6, watch
    <3>2. Alike(h4, u) /\ u.verdicts = h4.verdicts /\ u.cleared = h4.cleared
      BY <2>3, AlikeUnwatch
    <3> HIDE DEF u
    <3>3. /\ HandlerRec(m) /\ m.out = h4.out /\ m.mode = h4.mode /\ m.retired = h4.retired /\ m.cleared = h4.cleared
          /\ m.verdicts = Release(h4.verdicts, p.id)
      BY <3>2 DEF Alike, HandlerRec
    <3> HIDE DEF m
    <3>4. at \in DOMAIN m.out /\ m.out[at] = y.out[at] /\ Whole(m)
      BY <1>13, <2>4, <3>3 DEF Whole
    <3>5. /\ Whole(a) /\ a.mode = m.mode /\ a.verdicts = m.verdicts /\ a.cleared = m.cleared /\ a.retired = m.retired
          /\ Freed(a.out) = Freed(m.out)
      BY <2>5, <3>1, <3>4
    <3> HIDE DEF a
    <3>6. Freed(a.out) = {p} /\ a.verdicts = Release(x.verdicts, p.id)
      BY <2>2, <2>4, <2>9, <3>3, <3>5 DEF Steady
    <3>7. Placing(x, a)
      BY <2>1, <2>4, <3>3, <3>5, <3>6 DEF Placing, Steady
    <3> QED BY <2>6, <3>7 DEF Sessioned, a
  <2> QED BY <2>7, <2>8, <2>9
<1> QED BY <1>14, <1>15

LEMMA QuietSession ==
    ASSUME NilIsNoRecord, NEW y, Ready(y), NEW s
    PROVE  Sessioned(y, applySession(y, s))
<1> DEFINE y0 == [y EXCEPT !.started = TRUE, !.lastPeriod = s.period]
           h1 == settleWatch(y0)
           quiet == s.period <= y.quietUntil
           missed == [h1 EXCEPT !.gap = Append(@, s.period)]
           b0 == [recordRejections(missed, boostFigures(missed, missed.latched)) EXCEPT !.missing = TRUE]
           read == [h1 EXCEPT !.latched = NextLatch(@, s.reading), !.gap = <<>>]
           b1 == [recordRejections(read, boostFigures(read, h1.latched)) EXCEPT !.gaps = h1.gap]
           stale == h1.snapshot = None \/ h1.snapshot.asOf # s.period
           decided == targets(recorded(read), b1, s.period, "")
           cleared == [h1 EXCEPT !.gap = <<>>]
           short == h1.snapshot.positions[Instrument] < 0
           unplanned == Fail(h1, "planned against a short")
           a == applySession(y, s)
           m == recorded(missed)
           r == recorded(read)
           t0 == targets(m, b0, s.period, "missing-bars")
           t1 == targets(r, b1, s.period, "stale-account-snapshot")
<1>1. a = IF s.period <= y.lastPeriod THEN Fail(y, "session out of order")
          ELSE IF ~s.bar THEN IF quiet THEN missed ELSE t0
          ELSE IF quiet THEN cleared
          ELSE IF stale THEN t1
          ELSE IF short THEN unplanned
          ELSE trade(decided, s.period)
  BY DEF applySession
<1>2. Whole(y) /\ GateRec(y.gate) /\ y.gate.state \in States /\ y.out = <<>> /\ VerdictRec(y.verdicts)
  BY DEF Ready
<1>3. /\ HandlerRec(y0) /\ y0.out = y.out /\ y0.retired = y.retired /\ y0.cleared = y.cleared /\ y0.mode = y.mode
      /\ y0.verdicts = y.verdicts /\ y0.gate = y.gate
  BY <1>2 DEF HandlerRec, Whole
<1> HIDE DEF y0, b0, b1, quiet, stale, short, a
<1>4. Alike(y0, h1) /\ h1.verdicts = y0.verdicts /\ h1.cleared = y0.cleared
  BY <1>3, AlikeWatch
<1> HIDE DEF h1
<1>5. /\ HandlerRec(h1) /\ h1.out = <<>> /\ h1.retired = y.retired /\ h1.cleared = y.cleared /\ h1.mode = y.mode
      /\ h1.verdicts = y.verdicts /\ h1.gate = y.gate
  BY <1>2, <1>3, <1>4 DEF Alike
<1> DEFINE Like(z) == /\ HandlerRec(z) /\ z.out = <<>> /\ z.retired = y.retired /\ z.cleared = y.cleared /\ z.mode = y.mode
                      /\ z.verdicts = y.verdicts /\ z.gate = y.gate
<1>6. Like(missed) /\ Like(read) /\ Like(cleared) /\ Like(unplanned)
  BY <1>5 DEF HandlerRec, Fail
<1> HIDE DEF missed, read, cleared, unplanned
<1>7. Like(m) /\ Like(r)
  <2>1. ASSUME NEW z, Like(z) PROVE Like(recorded(z))
    <3>1. Alike(z, recorded(z)) /\ recorded(z).verdicts = z.verdicts /\ recorded(z).cleared = z.cleared
      BY <2>1, AlikeSwept
    <3> QED BY <2>1, <3>1 DEF Alike
  <2> HIDE DEF Like
  <2> QED BY <1>6, <2>1
<1> HIDE DEF m, r
<1>8. ASSUME NEW z, Like(z) PROVE Quiet(y, z) /\ Whole(z) /\ Calm(y, z)
  <2>1. Quiet(y, z)
    BY <1>2, <1>8, QuietSame
  <2> QED BY <2>1, CalmQuiet DEF Quiet, Steady
<1>9. ASSUME NEW z, Like(z), NEW b, NEW reason, NEW t, t = targets(z, b, s.period, reason)
      PROVE  /\ Quiet(y, t) /\ Whole(t) /\ t.gate = y.gate /\ Freed(t.out) = {}
             /\ \E d : t.out = Append(<<>>, [type |-> "targets.decided", decision |-> d])
  <2> DEFINE d == [outcome |-> IF reason = "" THEN "decided" ELSE "withheld", reason |-> reason, session |-> s.period,
                   target |-> IF reason = "" THEN Target(z.latched) ELSE 0, boost |-> b]
             e == [type |-> "targets.decided", decision |-> d]
  <2>1. Adds(z, t, e)
    BY <1>9 DEF targets, add, Adds
  <2>2. e.type = "targets.decided"
    OBVIOUS
  <2>3. Quiet(y, z) /\ Whole(z)
    BY <1>8, <1>9
  <2> HIDE DEF d
  <2>4. z.out = <<>> /\ z.gate = y.gate
    BY <1>9
  <2> HIDE DEF Like
  <2>5. t.out = Append(z.out, e)
    BY <2>1, <2>3, WriteFacts DEF Whole
  <2>6. \E k : t.out = Append(<<>>, [type |-> "targets.decided", decision |-> k])
    BY <2>4, <2>5
  <2> HIDE DEF e
  <2>7. Quiet(z, t) /\ t.gate = z.gate /\ Freed(t.out) = Freed(z.out)
    BY <2>1, <2>2, <2>3, QuietAdd
  <2>8. Quiet(y, t)
    BY <2>3, <2>7, QuietTwice
  <2> QED BY <2>4, <2>6, <2>7, <2>8, FreedNone DEF Quiet, Steady
<1>10. Calm(y, missed) /\ Calm(y, cleared) /\ Calm(y, unplanned)
  BY <1>6, <1>8
<1> HIDE DEF Like
<1>11. Quiet(y, t0) /\ Quiet(y, t1)
  BY <1>7, <1>9
<1>12. Sessioned(y, trade(decided, s.period))
  <2>1. /\ Quiet(y, decided) /\ Whole(decided) /\ decided.gate = y.gate /\ Freed(decided.out) = {}
        /\ \E d : decided.out = Append(<<>>, [type |-> "targets.decided", decision |-> d])
    <3>1. decided = targets(r, b1, s.period, "")
      BY DEF r
    <3> HIDE DEF decided
    <3> QED BY <1>7, <1>9, <3>1
  <2> HIDE DEF decided
  <2>2. PICK d : decided.out = Append(<<>>, [type |-> "targets.decided", decision |-> d])
    BY <2>1
  <2> DEFINE e == [type |-> "targets.decided", decision |-> d]
  <2>3. Len(decided.out) \in DOMAIN decided.out /\ decided.out[Len(decided.out)] = e
    <3> HIDE DEF e
    <3>1. decided.out = Append(<<>>, e)
      BY <2>2 DEF e
    <3>2. Append(<<>>, e) = <<e>>
      OBVIOUS
    <3>3. Len(decided.out) = 1 /\ 1 \in DOMAIN decided.out /\ decided.out[1] = e
      BY <3>1, <3>2
    <3> QED BY <3>3
  <2>4. /\ decided.verdicts = y.verdicts /\ decided.mode = y.mode /\ decided.cleared = y.cleared /\ decided.retired = y.retired
        /\ Counted(y.verdicts, decided.verdicts)
    BY <1>2, <2>1, CountedSame DEF Quiet, Steady
  <2> QED BY <1>2, <2>1, <2>3, <2>4, QuietTrade
<1> HIDE DEF decided, t0, t1
<1>13. Calm(y, t0) /\ Calm(y, t1) /\ Calm(y, Fail(y, "session out of order"))
  BY <1>11, CalmQuiet, CalmFail
<1>14. \/ a = Fail(y, "session out of order") \/ a = missed \/ a = t0 \/ a = cleared \/ a = t1 \/ a = unplanned
       \/ a = trade(decided, s.period)
  BY <1>1
<1>15. Sessioned(y, a)
  BY <1>10, <1>12, <1>13, <1>14 DEF Sessioned
<1> QED BY <1>15 DEF a

\* The session's mark comes first.
LEMMA QuietClosed ==
    ASSUME NilIsNoRecord, NEW y, Ready(y), NEW k
    PROVE  Sessioned(y, Closed(y, k))
<1> DEFINE s == sessionClosed(k).session
           z == IF k.price = "none" THEN y ELSE applyMark(y, markRecorded(k.price).mark)
<1>1. Closed(y, k) = applySession(z, s)
  BY ApplyCases, EventNames DEF Closed
<1>2. Alike(y, z) /\ z.verdicts = y.verdicts /\ z.cleared = y.cleared
  BY MarkFacts, AlikeSelf DEF Ready, Whole
<1> HIDE DEF z, s
<1>3. Ready(z) /\ z.mode = y.mode /\ z.retired = y.retired
  BY <1>2 DEF Ready, Whole, Alike
<1>4. Sessioned(z, applySession(z, s))
  BY <1>3, QuietSession
<1> QED BY <1>1, <1>2, <1>3, <1>4 DEF Sessioned, Calm, Placing

----------------------------------------------------------------------------
(* Orders settled and retired as never sent *)

LEMMA ClearOne ==
    ASSUME NEW v, NEW o
    PROVE  ClearNeverSent(v, {o}) = leave(v, IndexOf(v.undecided, o))
<1> DEFINE step(id, acc) == leave(acc, IndexOf(acc.undecided, id))
           body(g) == [s \in SUBSET {o} |-> IF s = {} THEN v ELSE step(CHOOSE x \in s : TRUE, g[s \ {CHOOSE x \in s : TRUE}])]
           fold == CHOOSE g : g = body(g)
           one == [s \in SUBSET {o} |-> IF s = {} THEN v ELSE step(o, v)]
<1>0. (CHOOSE x \in {o} : TRUE) = o
  OBVIOUS
<1>1. one = body(one)
  <2> HIDE DEF step
  <2>1. ASSUME NEW s \in SUBSET {o} PROVE one[s] = body(one)[s]
    <3>1. s = {} \/ s = {o}
      OBVIOUS
    <3> QED BY <3>1, <1>0
  <2> QED BY <2>1
<1>2. fold = body(fold)
  BY <1>1
<1>3. fold[{o}] = step(o, v)
  <2> HIDE DEF step
  <2>1. fold[{}] = v
    BY <1>2
  <2>2. fold[{o}] = step(CHOOSE x \in {o} : TRUE, fold[{o} \ {CHOOSE x \in {o} : TRUE}])
    <3>1. {o} \in SUBSET {o} /\ {o} # {}
      OBVIOUS
    <3> HIDE DEF fold
    <3> QED BY <1>2, <3>1
  <2>3. {o} \ {CHOOSE x \in {o} : TRUE} = {}
    BY <1>0
  <2> QED BY <1>0, <2>1, <2>2, <2>3
<1>4. ClearNeverSent(v, {o}) = fold[{o}]
  BY DEF ClearNeverSent, FoldSet, MapThenFoldSet
<1> QED BY <1>3, <1>4

LEMMA SeqOfOne ==
    ASSUME NEW e
    PROVE  SetToSeq({e}) = <<e>>
<1>1. Cardinality({e}) = 1
  BY FS_Singleton
<1>2. \A f \in [1..1 -> {e}] : f = <<e>>
  OBVIOUS
<1>3. <<e>> \in [1..1 -> {e}] /\ IsInjective(<<e>>)
  BY DEF IsInjective
<1>4. SetToSeq({e}) = CHOOSE f \in [1..1 -> {e}] : IsInjective(f)
  BY <1>1 DEF SetToSeq
<1> QED BY <1>2, <1>3, <1>4

\* The answer a settles an order that awaited the venue's word.
Settling(x, a) ==
    /\ Whole(a) /\ a.mode = x.mode /\ Ids(x.cleared) \subseteq Ids(a.cleared) /\ Ids(x.retired) \subseteq Ids(a.retired)
    /\ Freed(a.out) = {}
    /\ \E i \in DOMAIN x.verdicts.undecided :
        /\ a.verdicts = leave(x.verdicts, i)
        /\ x.verdicts.undecided[i].id \in Ids(a.cleared) \cup Ids(a.retired)

\* An order awaiting the venue's word, by its place.
LEMMA IndexIn ==
    ASSUME NEW u, OneEach(u), NEW id, IndexOf(u, id) # 0
    PROVE  IndexOf(u, id) \in DOMAIN u /\ u[IndexOf(u, id)].id = id
<1>1. id \in Ids(u)
  BY IndexNone
<1>2. PICK i \in DOMAIN u : u[i].id = id
  BY <1>1 DEF Ids
<1> QED BY <1>2, IndexFound

LEMMA ClearanceSettles ==
    ASSUME NEW x, Ready(x), OneEach(x.verdicts.undecided), NEW c, NEW o, c.ids = {o}
    PROVE  Calm(x, applyClearance(x, c)) \/ Settling(x, applyClearance(x, c))
<1> DEFINE v == x.verdicts
           i == IndexOf(v.undecided, o)
           e == [id |-> o]
           z == [x EXCEPT !.verdicts = leave(v, i), !.cleared = Append(@, e)]
           a == applyClearance(x, c)
<1>1. e.id = o
  OBVIOUS
<1>2. {[id |-> id] : id \in c.ids} = {e}
  OBVIOUS
<1> HIDE DEF e
<1>3. Whole(x) /\ x.out = <<>> /\ IsList(x.cleared) /\ HandlerRec(x)
  BY DEF Ready, Whole
<1>4. x.cleared \o SetToSeq({e}) = Append(x.cleared, e)
  BY <1>3, JoinOne, SeqOfOne
<1>5. a = Fail(x, "clearance refused") \/ (i # 0 /\ a = z)
  <2>1. ClearNeverSent(v, c.ids) = leave(v, i)
    BY ClearOne
  <2>2. i = 0 => refusesClearance(x, c)
    BY DEF refusesClearance
  <2>3. a = IF refusesClearance(x, c) THEN Fail(x, "clearance refused")
            ELSE [x EXCEPT !.verdicts = ClearNeverSent(v, c.ids), !.cleared = x.cleared \o SetToSeq({e})]
    BY <1>2, <1>3 DEF applyClearance, HandlerRec
  <2> HIDE DEF a, i, v
  <2>4. [x EXCEPT !.verdicts = ClearNeverSent(v, c.ids), !.cleared = x.cleared \o SetToSeq({e})] = z
    BY <1>3, <1>4, <2>1 DEF HandlerRec
  <2> QED BY <2>2, <2>3, <2>4
<1> HIDE DEF a
<1>6. CASE a = Fail(x, "clearance refused")
  BY <1>6, CalmFail DEF a
<1>7. CASE i # 0 /\ a = z
  <2>1. i \in DOMAIN v.undecided /\ v.undecided[i].id = o
    BY <1>7, IndexIn
  <2> HIDE DEF v, i
  <2>2. /\ HandlerRec(a) /\ a.out = x.out /\ a.mode = x.mode /\ a.retired = x.retired
        /\ a.cleared = Append(x.cleared, e) /\ a.verdicts = leave(v, i)
    BY <1>3, <1>7 DEF HandlerRec
  <2>3. IsList(a.cleared) /\ Ids(a.cleared) = Ids(x.cleared) \cup {o}
    BY <1>1, <1>3, <2>2, AppendFacts, IdsAppend
  <2>4. Whole(a) /\ Freed(a.out) = {}
    BY <1>3, <2>2, <2>3, FreedNone DEF Whole
  <2>5. Settling(x, a)
    BY <2>1, <2>2, <2>3, <2>4 DEF Settling, v
  <2> QED BY <2>5 DEF a
<1> QED BY <1>5, <1>6, <1>7

LEMMA RetirementSettles ==
    ASSUME NEW x, Ready(x), OneEach(x.verdicts.undecided), IsList(x.retired), NEW r
    PROVE  Calm(x, applyRetired(x, r)) \/ Settling(x, applyRetired(x, r))
<1> DEFINE verdict == RetirementVerdict(x, r)
           i == IndexOf(x.verdicts.undecided, r.order)
           v == IF verdict = "held" THEN leave(x.verdicts, i) ELSE x.verdicts
           g1 == ObserveLifecycle(x.gate, r.order, "canceled", r.at, FALSE)
           isSold == verdict = "free" /\ isSale(g1, r.order)
           s == RetireSale(g1, r.order)
           k == IF isSold THEN s.gate ELSE g1
           note == [id |-> r.order, side |-> r.side, released |-> r.quantity, at |-> r.at,
                    tag |-> IF isSold THEN s.tag ELSE NoTag, attempt |-> IF isSold THEN s.attempt ELSE 0]
           h1 == [x EXCEPT !.verdicts = v, !.gate = k, !.retired = Append(@, note)]
           closed == [h1 EXCEPT !.watch.status = "canceled", !.watch.ended = r.at]
           a == applyRetired(x, r)
           failed == Fail(x, "retirement refused")
<1>1. a = failed \/ a \in {h1, closed}
  <2> HIDE DEF closed, h1, verdict
  <2> QED BY DEF applyRetired, closed, h1, verdict
<1>2. Whole(x) /\ x.out = <<>> /\ HandlerRec(x)
  BY DEF Ready, Whole
<1>3. note.id = r.order
  OBVIOUS
<1>4. verdict = "held" => i > 0
  BY DEF RetirementVerdict
<1>5. verdict = "held" \/ v = x.verdicts
  OBVIOUS
<1> HIDE DEF note, verdict, k, a
<1>6. /\ HandlerRec(h1) /\ h1.out = x.out /\ h1.mode = x.mode /\ h1.cleared = x.cleared
      /\ h1.verdicts = v /\ h1.retired = Append(x.retired, note)
  BY <1>2 DEF HandlerRec
<1> HIDE DEF h1
<1>7. Alike(h1, closed) /\ closed.verdicts = h1.verdicts /\ closed.cleared = h1.cleared
  BY <1>6 DEF HandlerRec, Alike
<1> HIDE DEF closed
<1>8. Ids(h1.retired) = Ids(x.retired) \cup {r.order}
  BY <1>3, <1>6, IdsAppend
<1>9. ASSUME NEW z, z \in {h1, closed}
      PROVE  Calm(x, z) \/ Settling(x, z)
  <2>1. /\ HandlerRec(z) /\ z.out = x.out /\ z.mode = x.mode /\ z.cleared = x.cleared
        /\ z.verdicts = v /\ Ids(z.retired) = Ids(x.retired) \cup {r.order}
    BY <1>6, <1>7, <1>8, <1>9 DEF Alike
  <2>2. Whole(z) /\ Freed(z.out) = {}
    BY <1>2, <2>1, FreedNone DEF Whole
  <2>3. CASE verdict = "held"
    <3>1. i \in DOMAIN x.verdicts.undecided /\ x.verdicts.undecided[i].id = r.order /\ v = leave(x.verdicts, i)
      BY <1>4, <2>3, IndexIn
    <3> HIDE DEF v, i
    <3> QED BY <2>1, <2>2, <3>1 DEF Settling
  <2>4. CASE v = x.verdicts
    <3>1. Counted(x.verdicts, z.verdicts)
      BY <2>1, <2>4, CountedSame DEF Ready
    <3> HIDE DEF v
    <3> QED BY <2>1, <2>2, <3>1 DEF Calm
  <2> QED BY <1>5, <2>3, <2>4
<1>10. Calm(x, failed)
  BY CalmFail
<1> HIDE DEF failed
<1> QED BY <1>1, <1>9, <1>10 DEF a

\* Once settled, nothing more is awaited.
LEMMA SettledSettles ==
    ASSUME NEW x, NEW R, NEW w, Settled(x, R, w), NEW a, Settling(x, a), Grown(x.gate, a.gate, {}), NEW T, Extends(R, T, {})
    PROVE  Settled(a, T, w)
<1> DEFINE v == x.verdicts
<1>1. PICK i \in DOMAIN v.undecided : a.verdicts = leave(v, i) /\ v.undecided[i].id \in Ids(a.cleared) \cup Ids(a.retired)
  BY DEF Settling
<1>2. Verdicts(R, w, v)
  BY DEF Settled
<1>3. T = R
  <2>1. ASSUME NEW e PROVE {} # {e.order}
    OBVIOUS
  <2> QED BY <2>1 DEF Extends
<1>4. Verdicts(T, w, a.verdicts) /\ Ids(a.verdicts.undecided) = Ids(v.undecided) \ {v.undecided[i].id}
  <2>1. Verdicts(R, w, leave(v, i)) /\ Left(v, i, leave(v, i))
    BY <1>2, VerdictsLeave
  <2> HIDE DEF v
  <2> QED BY <1>1, <1>3, <2>1 DEF Left
<1>5. a.mode = x.mode /\ Ids(x.cleared) \subseteq Ids(a.cleared) /\ Ids(x.retired) \subseteq Ids(a.retired)
  BY DEF Settling
<1>6. Covered(x, w) \subseteq Covered(a, w)
  BY <1>1, <1>4, <1>5 DEF Covered
<1>7. Ids(a.verdicts.undecided) \subseteq Ids(v.undecided)
  BY <1>4
<1> QED BY <1>4, <1>5, <1>6, <1>7, SettledAfter

----------------------------------------------------------------------------
(* Reports on orders *)

\* The answer a has read a report on an order: it tells the venue's word when it decides.
Reported(x, a, id, decides, rejected) ==
    /\ Whole(a) /\ a.mode = x.mode /\ a.cleared = x.cleared /\ a.retired = x.retired /\ Freed(a.out) = {}
    /\ x.mode # "dry-run" /\ id \in DOMAIN x.gate.orders /\ id \notin Ids(x.cleared) \cup Ids(x.retired)
    /\ \E v : Counted(x.verdicts, v) /\ a.verdicts = IF decides THEN observe(v, id, rejected).verdicts ELSE v

LEMMA OutcomeFacts ==
    ASSUME NEW y, Whole(y), NEW id, NEW rejected
    PROVE  LET z == observeOutcome(y, id, rejected)
           IN  /\ Whole(z) /\ Alike(y, z) /\ z.cleared = y.cleared /\ z.verdicts = observe(y.verdicts, id, rejected).verdicts
<1> DEFINE o == observe(y.verdicts, id, rejected)
           i == IndexOf(y.verdicts.undecided, id)
           note == ReplanOf("rejected", id, Filled(y.gate, id), orderOf(y, id).quantity)
           h1 == [y EXCEPT !.verdicts = o.verdicts]
           z == observeOutcome(y, id, rejected)
<1>1. /\ o.word \in {"none", "accepted", "rejected-while-stopped", "rejected"}
      /\ o.word = "none" => o.verdicts = y.verdicts
  BY DEF observe
<1>2. \/ z = y /\ o.word = "none"
      \/ z = [h1 EXCEPT !.working = Append(@, y.verdicts.undecided[i])]
      \/ z = [h1 EXCEPT !.stoppedRejections = Append(@, note)]
      \/ z = [h1 EXCEPT !.withheld = note]
      \/ z = h1
  BY <1>1 DEF observeOutcome
<1>3. Alike(y, z)
  BY AlikeOutcome DEF Whole
<1> HIDE DEF o, i, note, z
<1>4. HandlerRec(y) /\ IsList(y.out) /\ IsList(y.cleared)
  BY DEF Whole
<1>5. h1.cleared = y.cleared /\ h1.verdicts = o.verdicts /\ HandlerRec(h1)
  BY <1>4 DEF HandlerRec
<1> HIDE DEF h1
<1>6. z.cleared = y.cleared /\ z.verdicts = o.verdicts
  BY <1>1, <1>2, <1>5 DEF HandlerRec
<1>7. Whole(z)
  BY <1>3, <1>4, <1>6 DEF Whole, Alike
<1> QED BY <1>3, <1>6, <1>7 DEF z, o

LEMMA FillReports ==
    ASSUME NEW x, Ready(x), NEW f
    PROVE  LET a == applyFill(x, f) IN a.fault # "" \/ Reported(x, a, f.order, TRUE, FALSE)
<1> DEFINE k == ObserveFill(x.gate, f)
           z == [x EXCEPT !.gate = k]
           n == name(z, {f.order})
           a == applyFill(x, f)
           no == FALSE
           o == observeOutcome(n, f.order, no)
           refused == refuseDryRunReport(x) \/ contradicts(x, f.order) \/ refusesFill(x.gate, f)
<1>1. a = IF refused THEN Fail(x, "fill refused") ELSE o
  BY DEF applyFill
<1>2. Whole(x) /\ x.out = <<>> /\ HandlerRec(x)
  BY DEF Ready, Whole
<1>3. CASE refused
  <2>1. Fail(x, "fill refused").fault # ""
    BY <1>2, QuietFail
  <2>2. a = Fail(x, "fill refused")
    BY <1>1, <1>3
  <2> HIDE DEF a
  <2>3. a.fault # ""
    BY <2>1, <2>2
  <2> QED BY <2>3 DEF a
<1>4. CASE ~refused
  <2>1. x.mode # "dry-run" /\ f.order \in DOMAIN x.gate.orders /\ f.order \notin Ids(x.cleared) \cup Ids(x.retired)
    BY <1>4 DEF refuseDryRunReport, contradicts, refusesFill
  <2>2. a = o
    BY <1>1, <1>4
  <2> HIDE DEF k, a, no
  <2>3. /\ HandlerRec(z) /\ z.out = x.out /\ z.retired = x.retired /\ z.cleared = x.cleared /\ z.mode = x.mode
        /\ z.verdicts = x.verdicts
    BY <1>2 DEF HandlerRec
  <2> HIDE DEF z
  <2>4. Alike(z, n) /\ n.verdicts = z.verdicts /\ n.cleared = z.cleared
    BY <2>3 DEF name, HandlerRec, Alike
  <2> HIDE DEF n
  <2>5. Whole(n) /\ n.mode = x.mode /\ n.retired = x.retired /\ n.cleared = x.cleared /\ n.verdicts = x.verdicts /\ n.out = <<>>
    BY <1>2, <2>3, <2>4 DEF Whole, Alike
  <2>6. Whole(o) /\ Alike(n, o) /\ o.cleared = n.cleared /\ o.verdicts = observe(n.verdicts, f.order, no).verdicts
    BY <2>5, OutcomeFacts
  <2> HIDE DEF o
  <2>7. Counted(x.verdicts, x.verdicts)
    BY CountedSame DEF Ready
  <2>8. Freed(o.out) = {}
    BY <2>5, <2>6, FreedNone DEF Alike
  <2>9. o.verdicts = IF TRUE THEN observe(x.verdicts, f.order, no).verdicts ELSE x.verdicts
    BY <2>5, <2>6
  <2>10. o.mode = x.mode /\ o.cleared = x.cleared /\ o.retired = x.retired
    BY <2>5, <2>6 DEF Alike
  <2>11. Reported(x, a, f.order, TRUE, no)
    BY <2>1, <2>2, <2>6, <2>7, <2>8, <2>9, <2>10 DEF Reported
  <2> QED BY <2>11 DEF a, no
<1> QED BY <1>3, <1>4

LEMMA LifecycleReports ==
    ASSUME NEW x, Ready(x), NEW r
    PROVE  LET a == applyLifecycle(x, r)
           IN  a.fault # "" \/ Reported(x, a, r.order, r.status # "submitted", r.status = "invalid")
<1> DEFINE k == ObserveLifecycle(x.gate, r.order, r.status, r.at, TRUE)
           z == [x EXCEPT !.gate = k]
           h1 == learnVenueID(name(z, {r.order}), {r.order})
           closed == [h1 EXCEPT !.watch.status = r.status, !.watch.ended = r.at]
           ends == isWatched(h1, r.order) /\ Terminal(r.status) /\ (IF h1.watch = None THEN FALSE ELSE h1.watch.status = "")
           h2 == IF ends THEN closed ELSE h1
           word == BoostLifecycleWord(r.status)
           h3 == IF word.decides THEN observeOutcome(h2, r.order, word.rejected) ELSE h2
           dropped == [h3 EXCEPT !.working = Without(@, r.order)]
           h4 == IF Terminal(r.status) THEN dropped ELSE h3
           refused == refuseDryRunReport(x) \/ r.order \notin DOMAIN x.gate.orders \/ contradicts(x, r.order)
           a == applyLifecycle(x, r)
<1>1. a = IF refused THEN Fail(x, "lifecycle refused") ELSE h4
  BY DEF applyLifecycle
<1>2. Whole(x) /\ x.out = <<>> /\ HandlerRec(x) /\ VerdictRec(x.verdicts)
  BY DEF Ready, Whole
<1>3. CASE refused
  <2>1. Fail(x, "lifecycle refused").fault # ""
    BY <1>2, QuietFail
  <2>2. a = Fail(x, "lifecycle refused")
    BY <1>1, <1>3
  <2> HIDE DEF a
  <2>3. a.fault # ""
    BY <2>1, <2>2
  <2> QED BY <2>3 DEF a
<1>4. CASE ~refused
  <2>1. x.mode # "dry-run" /\ r.order \in DOMAIN x.gate.orders /\ r.order \notin Ids(x.cleared) \cup Ids(x.retired)
    BY <1>4 DEF refuseDryRunReport, contradicts
  <2>2. a = h4
    BY <1>1, <1>4
  <2>3. word.decides <=> r.status # "submitted"
    BY DEF BoostLifecycleWord
  <2>4. word.rejected = (r.status = "invalid")
    BY DEF BoostLifecycleWord
  <2> HIDE DEF k, a, word
  <2>5. /\ HandlerRec(z) /\ z.out = x.out /\ z.retired = x.retired /\ z.cleared = x.cleared /\ z.mode = x.mode
        /\ z.verdicts = x.verdicts
    BY <1>2 DEF HandlerRec
  <2> HIDE DEF z
  <2>6. Whole(z)
    BY <1>2, <2>5 DEF Whole
  <2>7. Whole(h1) /\ Alike(z, h1) /\ h1.cleared = z.cleared /\ Counted(z.verdicts, h1.verdicts)
    <3> HIDE DEF h1
    <3> QED BY <1>2, <2>5, <2>6, VenueFacts DEF h1
  <2> HIDE DEF h1, ends
  <2>8. Alike(h1, closed) /\ closed.verdicts = h1.verdicts /\ closed.cleared = h1.cleared
    BY <2>7 DEF Whole, HandlerRec, Alike
  <2> HIDE DEF closed
  <2>9. Whole(h2) /\ Alike(h1, h2) /\ h2.verdicts = h1.verdicts /\ h2.cleared = h1.cleared
    <3>1. Alike(h1, h1)
      BY <2>7, AlikeSelf DEF Whole
    <3>2. Alike(h1, h2) /\ h2.verdicts = h1.verdicts /\ h2.cleared = h1.cleared
      BY <2>8, <3>1
    <3> HIDE DEF h2
    <3>3. Whole(h2)
      BY <2>7, <3>2 DEF Whole, Alike
    <3> QED BY <3>2, <3>3
  <2> HIDE DEF h2
  <2>10. /\ Whole(h3) /\ Alike(h2, h3) /\ h3.cleared = h2.cleared
         /\ h3.verdicts = IF word.decides THEN observe(h2.verdicts, r.order, word.rejected).verdicts ELSE h2.verdicts
    <3>1. CASE word.decides
      <4> DEFINE o == observeOutcome(h2, r.order, word.rejected)
      <4>1. Whole(o) /\ Alike(h2, o) /\ o.cleared = h2.cleared /\ o.verdicts = observe(h2.verdicts, r.order, word.rejected).verdicts
        BY <2>9, OutcomeFacts
      <4> HIDE DEF o
      <4>2. h3 = o
        BY <3>1 DEF o
      <4> QED BY <3>1, <4>1, <4>2
    <3>2. CASE ~word.decides
      <4>1. h3 = h2
        BY <3>2
      <4> HIDE DEF h3
      <4> QED BY <2>9, <3>2, <4>1, AlikeSelf DEF Whole
    <3> QED BY <3>1, <3>2
  <2> HIDE DEF h3
  <2>11. Alike(h3, dropped) /\ dropped.verdicts = h3.verdicts /\ dropped.cleared = h3.cleared
    BY <2>10 DEF Whole, HandlerRec, Alike
  <2> HIDE DEF dropped
  <2>12. Whole(h4) /\ Alike(h3, h4) /\ h4.verdicts = h3.verdicts /\ h4.cleared = h3.cleared
    <3>1. Alike(h3, h3)
      BY <2>10, AlikeSelf DEF Whole
    <3>2. Alike(h3, h4) /\ h4.verdicts = h3.verdicts /\ h4.cleared = h3.cleared
      BY <2>11, <3>1
    <3> HIDE DEF h4
    <3>3. Whole(h4)
      BY <2>10, <3>2 DEF Whole, Alike
    <3> QED BY <3>2, <3>3
  <2> HIDE DEF h4
  <2>13. /\ h4.out = <<>> /\ h4.mode = x.mode /\ h4.cleared = x.cleared /\ h4.retired = x.retired
         /\ h4.verdicts = IF r.status # "submitted" THEN observe(h1.verdicts, r.order, r.status = "invalid").verdicts ELSE h1.verdicts
    <3>1. h4.out = <<>> /\ h4.mode = x.mode /\ h4.cleared = x.cleared /\ h4.retired = x.retired
      BY <1>2, <2>5, <2>7, <2>9, <2>10, <2>12 DEF Alike
    <3>2. h4.verdicts = IF r.status # "submitted" THEN observe(h1.verdicts, r.order, r.status = "invalid").verdicts ELSE h1.verdicts
      BY <2>3, <2>4, <2>9, <2>10, <2>12
    <3> QED BY <3>1, <3>2
  <2>14. Counted(x.verdicts, h1.verdicts)
    BY <2>5, <2>7
  <2>15. Freed(h4.out) = {}
    BY <2>13, FreedNone
  <2>16. Reported(x, h4, r.order, r.status # "submitted", r.status = "invalid")
    BY <2>1, <2>12, <2>13, <2>14, <2>15 DEF Reported
  <2> QED BY <2>2, <2>16 DEF a
<1> QED BY <1>3, <1>4

\* Sales and orders of decisions are told apart by their client order IDs.
LEMMA SaleByID ==
    ASSUME NEW g, NEW gone, NEW last, GateOk(g, gone, last), NEW id \in DOMAIN g.orders
    PROVE  g.orders[id].sale = None <=> id[3] # "sale"
<1>1. IF g.orders[id].sale = None THEN Dated(id, last) ELSE Numbered(g, gone, id, g.orders[id].tag)
  BY DEF GateOk, Placed
<1>2. CASE g.orders[id].sale = None
  <2>1. PICK p \in Nat, side \in Sides : id = ClientOrderID(<<"targets-decided", p>>, side)
    BY <1>1, <1>2 DEF Dated
  <2> DEFINE tag == <<"targets-decided", p>>
  <2> HIDE DEF tag
  <2>2. id = <<"order", tag, side, 0>> /\ side # "sale"
    BY <2>1 DEF ClientOrderID, Sides, tag
  <2> QED BY <1>2, <2>2
<1>3. CASE g.orders[id].sale # None
  <2>1. PICK n \in Nat : id = SaleAttemptClientOrderID(g.orders[id].tag, n)
    BY <1>1, <1>3 DEF Numbered
  <2> DEFINE tag == g.orders[id].tag
  <2> HIDE DEF tag
  <2>2. id = <<"order", tag, "sale", n>>
    BY <2>1 DEF SaleAttemptClientOrderID, tag
  <2>3. id[3] = "sale"
    BY <2>2
  <2> QED BY <1>3, <2>3
<1> QED BY <1>2, <1>3

\* The words after a report, as the properties hear it.
Hears(w, W, id, decides, rejected) ==
    IF decides /\ id \notin Ids(w) /\ id[3] # "sale"
    THEN \E e : e.id = id /\ (e.rejected <=> rejected) /\ W = Append(w, e)
    ELSE W = w

\* A report: the run counts the word exactly when it is heard for the first time.
LEMMA SettledReports ==
    ASSUME NEW x, NEW R, NEW w, Settled(x, R, w), NEW gone, NEW last, GateOk(x.gate, gone, last),
           NEW id, NEW decides \in BOOLEAN, NEW rejected \in BOOLEAN, NEW a, Reported(x, a, id, decides, rejected),
           Grown(x.gate, a.gate, {}), NEW T, Extends(R, T, {}), NEW W, Hears(w, W, id, decides, rejected)
    PROVE  Settled(a, T, W)
<1>1. T = R
  <2>1. ASSUME NEW e PROVE {} # {e.order}
    OBVIOUS
  <2> QED BY <2>1 DEF Extends
<1>2. PICK v : Counted(x.verdicts, v) /\ a.verdicts = IF decides THEN observe(v, id, rejected).verdicts ELSE v
  BY DEF Reported
<1>3. Verdicts(R, w, v)
  BY <1>2, VerdictsLearnt DEF Settled, Counted
<1>4. Ids(v.undecided) = Ids(x.verdicts.undecided)
  BY <1>2, CountedFacts
<1>5. /\ a.mode = x.mode /\ a.cleared = x.cleared /\ a.retired = x.retired /\ x.mode # "dry-run" /\ id \in DOMAIN x.gate.orders
      /\ id \notin Ids(x.cleared) \cup Ids(x.retired)
  BY DEF Reported
<1>6. x.gate.orders[id].sale = None <=> id[3] # "sale"
  BY <1>5, SaleByID
<1>7. CASE a.verdicts = v /\ W = w
  <2>1. Covered(x, w) \subseteq Covered(a, W)
    BY <1>4, <1>5, <1>7 DEF Covered
  <2> QED BY <1>1, <1>3, <1>4, <1>5, <1>7, <2>1, SettledAfter
<1>8. CASE decides /\ id \in Ids(v.undecided)
  <2>1. x.gate.orders[id].sale = None
    BY <1>4, <1>8 DEF Settled
  <2>2. id \notin Ids(w) /\ IsList(w)
    BY <1>3, <1>8 DEF Verdicts, Awaited
  <2>3. PICK e : e.id = id /\ (e.rejected <=> rejected) /\ W = Append(w, e)
    BY <1>6, <1>8, <2>1, <2>2 DEF Hears
  <2>4. PICK i \in DOMAIN v.undecided : v.undecided[i].id = id
    BY <1>8 DEF Ids
  <2> DEFINE z == observe(v, id, rejected).verdicts
  <2>5. Verdicts(R, Append(w, e), z) /\ Ids(z.undecided) = Ids(v.undecided) \ {id}
    <3>1. e.id = v.undecided[i].id /\ (e.rejected <=> rejected)
      BY <2>3, <2>4
    <3>2. Observed(R, w, v, e, observe(v, v.undecided[i].id, rejected).verdicts)
      BY <1>3, <2>4, <3>1, VerdictsObserve
    <3>3. Observed(R, w, v, e, z)
      BY <2>4, <3>2
    <3> QED BY <2>3, <3>3 DEF Observed
  <2>6. a.verdicts = z
    BY <1>2, <1>8
  <2> HIDE DEF z
  <2>7. Ids(W) = Ids(w) \cup {id}
    BY <2>2, <2>3, IdsAppend
  <2>8. Covered(x, w) \subseteq Covered(a, W)
    BY <1>4, <1>5, <2>5, <2>6, <2>7 DEF Covered
  <2>9. Verdicts(T, W, a.verdicts) /\ Ids(a.verdicts.undecided) \subseteq Ids(x.verdicts.undecided)
    BY <1>1, <1>4, <2>3, <2>5, <2>6
  <2> QED BY <1>5, <2>8, <2>9, SettledAfter
<1>9. CASE decides /\ id \notin Ids(v.undecided)
  <2>1. a.verdicts = v
    <3>1. IndexOf(v.undecided, id) = 0
      BY <1>9, IndexNone
    <3>2. observe(v, id, rejected).verdicts = v
      BY <3>1 DEF observe
    <3> QED BY <1>2, <1>9, <3>2
  <2>2. x.gate.orders[id].sale = None => id \in Covered(x, w)
    BY <1>5 DEF Settled
  <2>3. id \in Ids(w) \/ id[3] = "sale"
    BY <1>4, <1>5, <1>6, <1>9, <2>2 DEF Covered
  <2>4. W = w
    BY <2>3 DEF Hears
  <2> QED BY <1>7, <2>1, <2>4
<1>10. CASE ~decides
  BY <1>2, <1>7, <1>10 DEF Hears
<1> QED BY <1>8, <1>9, <1>10

----------------------------------------------------------------------------
(* The words heard *)

\* A fill is no rejection.
MailOk == \A m \in mail : m.kind = "fill" => m.status # "invalid"

LEMMA LettersOk ==
    /\ \A o, status : Lifecycle(o, status).kind = "lifecycle"
    /\ MailOk /\ Next => MailOk'
<1>1. \A o, status : Lifecycle(o, status).kind = "lifecycle"
  BY DEF Lifecycle
<1>2. ASSUME MailOk, NEW o, NEW status, mail' = mail \cup {Lifecycle(o, status)} PROVE MailOk'
  BY <1>1, <1>2 DEF MailOk
<1>3. ASSUME MailOk, mail' \subseteq mail PROVE MailOk'
  BY <1>3 DEF MailOk
<1> SUFFICES ASSUME MailOk, Next PROVE MailOk'
  BY <1>1
<1>4. \/ Tick
      \/ \E a, b : AccountSnapshot(a, b) \/ ReconcileAccount(a, b) \/ CorporateAction(a, b)
      \/ \E k, a, b : CloseSession(k, a, b) \/ BrokerSnapshot(k, a, b) \/ Retire(k, a, b) \/ ClearOrder(k, a, b) \/ KillSwitch(k, a, b)
      \/ Accept \/ Update \/ Reject \/ Execute \/ Cancel
      \/ \E m, again, a, b : Deliver(m, again, a, b)
      \/ HandTrade
      \/ \E r : Restart(r)
  BY Zenon DEF Next, Driven
<1>5. CASE Tick
  BY <1>3, <1>5 DEF Tick
<1>6. ASSUME NEW a, NEW b, AccountSnapshot(a, b) \/ ReconcileAccount(a, b) \/ CorporateAction(a, b) PROVE MailOk'
  BY <1>3, <1>6 DEF AccountSnapshot, ReconcileAccount, CorporateAction
<1>7. ASSUME NEW k, NEW a, NEW b, CloseSession(k, a, b) \/ BrokerSnapshot(k, a, b) \/ Retire(k, a, b) \/ ClearOrder(k, a, b) \/ KillSwitch(k, a, b)
      PROVE  MailOk'
  BY <1>3, <1>7 DEF CloseSession, BrokerSnapshot, Retire, ClearOrder, KillSwitch
<1>8. CASE Accept \/ Update \/ Reject \/ Cancel
  BY <1>2, <1>8 DEF Accept, Update, Reject, Cancel
<1>9. CASE Execute
  <2>1. PICK o, q :
            LET n == venue[o].number + 1
            IN  mail' = mail \cup {[kind |-> "fill", order |-> o, number |-> n, quantity |-> q, status |-> "", at |-> clock]}
    BY <1>9, Zenon DEF Execute
  <2> DEFINE m == [kind |-> "fill", order |-> o, number |-> venue[o].number + 1, quantity |-> q, status |-> "", at |-> clock]
  <2>2. m.status = ""
    OBVIOUS
  <2> HIDE DEF m
  <2>3. mail' = mail \cup {m}
    BY <2>1 DEF m
  <2> QED BY <2>2, <2>3 DEF MailOk
<1>10. ASSUME NEW m, NEW again, NEW a, NEW b, Deliver(m, again, a, b) PROVE MailOk'
  BY <1>3, <1>10 DEF Deliver
<1>11. CASE HandTrade
  BY <1>3, <1>11 DEF HandTrade
<1>12. ASSUME NEW r, Restart(r) PROVE MailOk'
  BY <1>3, <1>12 DEF Restart
<1> QED BY <1>4, <1>5, <1>6, <1>7, <1>8, <1>9, <1>10, <1>11, <1>12

LEMMA HeardWords ==
    ASSUME Journal(journal), NEW m
    PROVE  LET j == Heard(m)
           IN  /\ SameJournal(j)
               /\ Hears(journal.words, j.words, m.order, m.kind = "fill" \/ m.status # "submitted", m.status = "invalid")
<1> DEFINE w == journal.words
           decides == m.kind = "fill" \/ m.status # "submitted"
           known == \E i \in DOMAIN w : w[i].id = m.order
           rejected == m.status = "invalid"
           e == [id |-> m.order, rejected |-> rejected]
           counts == decides /\ ~known /\ m.order[3] # "sale"
           end == ReadReport(journal.end, m.order)
           j == Heard(m)
<1>1. j = [journal EXCEPT !.end = end, !.words = IF counts THEN Append(w, e) ELSE w]
  BY DEF Heard
<1>2. known <=> m.order \in Ids(w)
  BY DEF Ids
<1>3. e.id = m.order /\ (e.rejected <=> rejected)
  OBVIOUS
<1> HIDE DEF e, end, j, known
<1>4. SameJournal(j) /\ j.words = IF counts THEN Append(w, e) ELSE w
  BY <1>1 DEF Journal, SameJournal
<1>5. Hears(w, j.words, m.order, decides, rejected)
  BY <1>2, <1>3, <1>4 DEF Hears
<1> QED BY <1>4, <1>5 DEF j

----------------------------------------------------------------------------
(* One step of the run *)

LEMMA EmptyList == IsList(<<>>) /\ DOMAIN <<>> = {} /\ Len(<<>>) = 0
  BY DEF IsList

\* What the answer a, heard as the words W, does to the verdicts awaited.
Turned(x, a, w, W) ==
    \/ Calm(x, a) /\ W = w
    \/ Placing(x, a) /\ W = w
    \/ Settling(x, a) /\ W = w
    \/ \E id : \E decides, rejected \in BOOLEAN : Reported(x, a, id, decides, rejected) /\ Hears(w, W, id, decides, rejected)

LEMMA SettledAnswer ==
    ASSUME NEW x, NEW R, NEW w, Settled(x, R, w), NEW gone, NEW last, GateOk(x.gate, gone, last),
           NEW a, Grown(x.gate, a.gate, Freed(a.out)), NEW T, Extends(R, T, Freed(a.out)), NEW W, Turned(x, a, w, W)
    PROVE  Whole(a) /\ Settled(a, T, W)
<1>1. CASE Calm(x, a) /\ W = w
  BY <1>1, SettledQuiet DEF Calm
<1>2. CASE Placing(x, a) /\ W = w
  <2>1. PICK p : p.sale = None /\ Freed(a.out) = {p} /\ a.verdicts = Release(x.verdicts, p.id)
    BY <1>2 DEF Placing
  <2>2. Grown(x.gate, a.gate, {p}) /\ Extends(R, T, {p})
    BY <2>1
  <2>3. Whole(a) /\ a.mode = x.mode /\ a.cleared = x.cleared /\ a.retired = x.retired
    BY <1>2 DEF Placing
  <2> QED BY <1>2, <2>1, <2>2, <2>3, SettledPlaces
<1>3. CASE Settling(x, a) /\ W = w
  <2>1. Whole(a) /\ Freed(a.out) = {}
    BY <1>3 DEF Settling
  <2>2. Grown(x.gate, a.gate, {}) /\ Extends(R, T, {})
    BY <2>1
  <2> QED BY <1>3, <2>1, <2>2, SettledSettles
<1>4. ASSUME NEW id, NEW decides \in BOOLEAN, NEW rejected \in BOOLEAN,
             Reported(x, a, id, decides, rejected), Hears(w, W, id, decides, rejected)
      PROVE  Whole(a) /\ Settled(a, T, W)
  <2>1. Whole(a) /\ Freed(a.out) = {}
    BY <1>4 DEF Reported
  <2>2. Grown(x.gate, a.gate, {}) /\ Extends(R, T, {})
    BY <2>1
  <2> QED BY <1>4, <2>1, <2>2, SettledReports
<1> QED BY <1>1, <1>2, <1>3, <1>4 DEF Turned

\* As long as it goes on, the run awaits, has or settled the venue's word on each order of a
\* decision, and its rejections counted are those in a row.
VerdictsOk == h.fault = "" => Whole(h) /\ Settled(h, journal.releases, journal.words)

LEMMA HandlerReady ==
    ASSUME RunOk, VerdictsOk, h.fault = ""
    PROVE  /\ Ready(h) /\ OneEach(h.verdicts.undecided) /\ IsList(h.retired)
           /\ Settled(h, journal.releases, journal.words) /\ GateOk(h.gate, Ids(h.retired), h.lastPeriod)
<1>1. Whole(h) /\ Settled(h, journal.releases, journal.words)
  BY DEF VerdictsOk
<1>2. VerdictRec(h.verdicts) /\ OneEach(h.verdicts.undecided)
  BY <1>1 DEF Settled, Verdicts, Awaited, VerdictRec, OneEach
<1>3. /\ h.out = <<>> /\ IsList(h.retired) /\ GateOk(h.gate, Ids(h.retired), h.lastPeriod)
  BY DEF RunOk, Sound
<1> QED BY <1>1, <1>2, <1>3 DEF Ready, GateOk

LEMMA VerdictsRead ==
    ASSUME RunOk, VerdictsOk, NEW j, SameJournal(j), NEW a, NEW last,
           Answers(a, h, last, journal.waiting), Read(a, j), a.fault = "" => Turned(h, a, journal.words, j.words)
    PROVE  VerdictsOk'
<1> DEFINE J == Journalled(j, a)
<1>1. PICK P : Sound(a, h, last, P, journal.waiting)
  BY DEF Answers
<1>2. HandlerRec(a) /\ Says(a.out, P) /\ Grown(h.gate, a.gate, P)
  BY <1>1 DEF Sound
<1>3. P = Freed(a.out)
  BY <1>2, SaysFreed
<1>4. {"releases", "waiting", "kill", "words"} \subseteq DOMAIN j /\ j.releases = journal.releases /\ IsList(j.releases)
  BY DEF SameJournal, RunOk, Journal, Backed
<1>5. Extends(journal.releases, J.releases, Freed(a.out)) /\ J.words = j.words
  BY <1>2, <1>3, <1>4, JournalGrows, JournalFields
<1>6. h.fault = "" /\ h' = [a EXCEPT !.out = <<>>] /\ journal' = J
  BY DEF Read
<1> HIDE DEF J
<1>7. /\ HandlerRec(h') /\ h'.out = <<>> /\ h'.fault = a.fault /\ h'.gate = a.gate /\ h'.verdicts = a.verdicts
      /\ h'.mode = a.mode /\ h'.cleared = a.cleared /\ h'.retired = a.retired
  BY <1>2, <1>6 DEF HandlerRec
<1>8. ASSUME a.fault = "" PROVE Whole(h') /\ Settled(h', journal'.releases, journal'.words)
  <2>1. Settled(h, journal.releases, journal.words) /\ GateOk(h.gate, Ids(h.retired), h.lastPeriod)
    BY <1>6, HandlerReady
  <2>2. Whole(a) /\ Settled(a, J.releases, j.words)
    BY <1>2, <1>3, <1>5, <1>8, <2>1, SettledAnswer
  <2>3. Settled(h', J.releases, j.words)
    BY <1>7, <2>2 DEF Settled, Covered
  <2>4. IsList(<<>>)
    BY EmptyList
  <2>5. Whole(h')
    BY <1>7, <2>2, <2>4 DEF Whole
  <2> QED BY <1>5, <1>6, <2>3, <2>5
<1> QED BY <1>7, <1>8 DEF VerdictsOk

LEMMA ReportTurns ==
    ASSUME MailOk, Ready(h), Journal(journal), NEW m \in mail, Apply(h, Report(m)).fault = ""
    PROVE  Turned(h, Apply(h, Report(m)), journal.words, Heard(m).words)
<1> DEFINE a == Apply(h, Report(m))
           decides == m.kind = "fill" \/ m.status # "submitted"
           rejected == m.status = "invalid"
           w == journal.words
           W == Heard(m).words
<1>1. Hears(w, W, m.order, decides, rejected)
  BY HeardWords
<1>2. decides \in BOOLEAN /\ rejected \in BOOLEAN
  OBVIOUS
<1>3. CASE m.kind = "fill"
  <2>1. Report(m).event = "fill" /\ Report(m).fill.order = m.order
    BY <1>3 DEF Report
  <2>2. a = applyFill(h, Report(m).fill)
    BY <2>1, ApplyCases
  <2>3. decides = TRUE /\ rejected = FALSE
    BY <1>3 DEF MailOk
  <2> DEFINE b == applyFill(h, Report(m).fill)
  <2>4. b.fault # "" \/ Reported(h, b, Report(m).fill.order, TRUE, FALSE)
    BY FillReports
  <2> HIDE DEF a, decides, rejected, W, b
  <2>5. Reported(h, a, m.order, decides, rejected)
    BY <2>1, <2>2, <2>3, <2>4 DEF a, b
  <2> QED BY <1>1, <1>2, <2>5 DEF Turned, a, W
<1>4. CASE m.kind # "fill"
  <2>1. Report(m).event = "order.lifecycle" /\ Report(m).report.order = m.order /\ Report(m).report.status = m.status
    BY <1>4 DEF Report
  <2>2. a = applyLifecycle(h, Report(m).report)
    BY <2>1, ApplyCases
  <2> DEFINE r == Report(m).report
             b == applyLifecycle(h, r)
             far == r.status # "submitted"
             bad == r.status = "invalid"
  <2>3. b.fault # "" \/ Reported(h, b, r.order, far, bad)
    BY LifecycleReports
  <2>4. decides = far /\ rejected = bad
    BY <1>4, <2>1
  <2> HIDE DEF a, decides, rejected, W, b, far, bad
  <2>5. Reported(h, a, m.order, decides, rejected)
    BY <2>1, <2>2, <2>3, <2>4 DEF a, b
  <2> QED BY <1>1, <1>2, <2>5 DEF Turned, a, W
<1> QED BY <1>3, <1>4

\* The kill switch: nothing is released, and no verdict changes.
LEMMA KillSettled ==
    ASSUME RunOk, VerdictsOk, NEW engaged,
           Read(Apply(h, killSwitch(engaged)), [journal EXCEPT !.kill = killSwitch(engaged).kill, !.end = ReadKillSwitch(@, killSwitch(engaged).kill)])
    PROVE  VerdictsOk'
<1> DEFINE k == killSwitch(engaged).kill
           a == applyKillSwitch(h, k)
           m == SetKillSwitch(h.gate, k.id, k)
           end == ReadKillSwitch(journal.end, k)
           j == [journal EXCEPT !.kill = k, !.end = end]
           J == Journalled(j, a)
<1>1. Apply(h, killSwitch(engaged)) = a
  BY ApplyCases, EventNames
<1>2. Read(a, j)
  BY <1>1
<1> HIDE DEF k
<1>3. Sound(a, a, h.lastPeriod, {}, journal.waiting) /\ a.gate.orders = h.gate.orders /\ a.out = <<>>
  BY KillOk
<1>4. a = Fail(h, "kill switch out of order") \/ a = [h EXCEPT !.gate = m]
  BY DEF applyKillSwitch
<1> HIDE DEF a, m, end
<1>5. h.fault = "" /\ h' = [a EXCEPT !.out = <<>>] /\ journal' = J
  BY <1>2 DEF Read
<1>6. Whole(h) /\ Settled(h, journal.releases, journal.words)
  BY <1>5 DEF VerdictsOk
<1>7. /\ HandlerRec(a) /\ a.verdicts = h.verdicts /\ a.mode = h.mode /\ a.cleared = h.cleared /\ a.retired = h.retired
  <2>1. CASE a = Fail(h, "kill switch out of order")
    BY <1>6, <2>1, AlikeFail DEF Whole, Alike
  <2>2. CASE a = [h EXCEPT !.gate = m]
    BY <1>6, <2>2 DEF Whole, HandlerRec
  <2> QED BY <1>4, <2>1, <2>2
<1>8. /\ {"releases", "waiting", "kill", "words"} \subseteq DOMAIN j /\ j.releases = journal.releases /\ j.words = journal.words
      /\ IsList(j.releases)
  BY DEF RunOk, Journal, Backed
<1> HIDE DEF j
<1>9. Says(a.out, {})
  BY <1>3 DEF Sound
<1>10. Extends(j.releases, J.releases, {}) /\ J.words = j.words
  BY <1>8, <1>9, JournalGrows, JournalFields
<1> HIDE DEF J
<1>11. J.releases = journal.releases /\ J.words = journal.words
  <2>1. ASSUME NEW e PROVE {} # {e.order}
    OBVIOUS
  <2> QED BY <1>8, <1>10, <2>1 DEF Extends
<1>12. /\ HandlerRec(h') /\ h'.out = <<>> /\ h'.verdicts = h.verdicts /\ h'.mode = h.mode /\ h'.cleared = h.cleared
       /\ h'.retired = h.retired /\ h'.gate.orders = h.gate.orders
  BY <1>3, <1>5, <1>7 DEF HandlerRec
<1>13. Settled(h', journal.releases, journal.words)
  BY <1>6, <1>12 DEF Settled, Covered
<1>14. Whole(h')
  BY <1>6, <1>12, EmptyList DEF Whole
<1> QED BY <1>5, <1>11, <1>13, <1>14 DEF VerdictsOk

\* Whatever is read but a report, the kill switch and a session's close.
LEMMA InputTurns ==
    ASSUME NilIsNoRecord, Ready(h), OneEach(h.verdicts.undecided), IsList(h.retired), NEW in,
           \/ in.event \in {"broker.snapshot", "account.snapshot", "reconciliation", "corporate.action", "order.retired"}
           \/ in.event = "rebalance.cleared" /\ \E o : in.clearance.ids = {o}
    PROVE  Turned(h, Apply(h, in), journal.words, journal.words)
<1>1. CASE in.event = "broker.snapshot"
  BY <1>1, ApplyCases, CalmBroker DEF Turned
<1>2. CASE in.event = "account.snapshot"
  BY <1>2, ApplyCases, CalmSnapshot DEF Turned
<1>3. CASE in.event = "reconciliation"
  BY <1>3, ApplyCases, CalmReconciliation DEF Turned
<1>4. CASE in.event = "corporate.action"
  BY <1>4, ApplyCases, CalmCorporate DEF Turned
<1>5. CASE in.event = "order.retired"
  BY <1>5, ApplyCases, RetirementSettles DEF Turned
<1>6. CASE in.event = "rebalance.cleared" /\ \E o : in.clearance.ids = {o}
  <2>1. PICK o : in.clearance.ids = {o}
    BY <1>6
  <2> DEFINE c == in.clearance
  <2> HIDE DEF c
  <2>2. Calm(h, applyClearance(h, c)) \/ Settling(h, applyClearance(h, c))
    BY <2>1, ClearanceSettles DEF c
  <2>3. Apply(h, in) = applyClearance(h, c)
    BY <1>6, ApplyCases DEF c
  <2> QED BY <2>2, <2>3 DEF Turned
<1> QED BY <1>1, <1>2, <1>3, <1>4, <1>5, <1>6

LEMMA VerdictsNext ==
    ASSUME NilIsNoRecord, RunOk, VerdictsOk, MailOk, Next
    PROVE  VerdictsOk'
<1>1. Journal(journal)
  BY DEF RunOk
<1>2. ASSUME h' = h, journal'.releases = journal.releases, journal'.words = journal.words PROVE VerdictsOk'
  BY <1>2 DEF VerdictsOk
<1>3. ASSUME NEW in, NEW j, SameJournal(j), j.words = journal.words, Read(Apply(h, in), j),
             \/ in.event \in {"broker.snapshot", "account.snapshot", "reconciliation", "corporate.action", "order.retired"}
             \/ in.event = "rebalance.cleared" /\ \E o : in.clearance.ids = {o}
      PROVE  VerdictsOk'
  <2>1. Answers(Apply(h, in), h, h.lastPeriod, journal.waiting)
    BY <1>3, SoundInput
  <2>2. h.fault = ""
    BY <1>3 DEF Read
  <2>3. Turned(h, Apply(h, in), journal.words, journal.words)
    BY <1>3, <2>2, HandlerReady, InputTurns
  <2> QED BY <1>3, <2>1, <2>3, VerdictsRead
<1>4. SameJournal(journal)
  BY DEF SameJournal
<1>5. CASE UNCHANGED <<h, journal>>
  BY <1>2, <1>5
<1>6. CASE h' = h /\ (journal' = [journal EXCEPT !.byHand = TRUE] \/ journal' = [journal EXCEPT !.fresh = FALSE])
  BY <1>1, <1>2, <1>6 DEF Journal
<1>7. CASE Read(Apply(h, accountSnapshot), journal)
  BY <1>3, <1>4, <1>7, EventNames
<1>8. ASSUME NEW k, Read(Closed(h, k), [journal EXCEPT !.sessions = Append(@, sessionClosed(k).session)]) PROVE VerdictsOk'
  <2> DEFINE j == [journal EXCEPT !.sessions = Append(@, sessionClosed(k).session)]
  <2>1. SameJournal(j) /\ j.words = journal.words
    BY <1>1 DEF SameJournal, Journal
  <2>2. PICK last \in Nat : Answers(Closed(h, k), h, last, journal.waiting)
    BY SoundClosed
  <2> HIDE DEF j
  <2>3. Read(Closed(h, k), j)
    BY <1>8 DEF j
  <2>4. Sessioned(h, Closed(h, k))
    BY <2>3, HandlerReady, QuietClosed DEF Read
  <2>5. Turned(h, Closed(h, k), journal.words, j.words)
    BY <2>1, <2>4 DEF Turned, Sessioned
  <2> QED BY <2>1, <2>2, <2>3, <2>5, VerdictsRead
<1>9. ASSUME NEW in, NEW end, Read(Apply(h, in), [journal EXCEPT !.end = end]), in.event \in {"broker.snapshot", "order.retired"}
      PROVE  VerdictsOk'
  <2> DEFINE j == [journal EXCEPT !.end = end]
  <2>1. SameJournal(j) /\ j.words = journal.words
    BY <1>1 DEF SameJournal, Journal
  <2> HIDE DEF j
  <2>2. Read(Apply(h, in), j)
    BY <1>9 DEF j
  <2> QED BY <1>3, <1>9, <2>1, <2>2
<1>10. ASSUME NEW r, Read(Apply(h, brokerSnapshot(r)), [journal EXCEPT !.end = ReadListing(@, IF r.named THEN Listed ELSE {})])
       PROVE  VerdictsOk'
  <2> DEFINE end == ReadListing(journal.end, IF r.named THEN Listed ELSE {})
  <2>1. Read(Apply(h, brokerSnapshot(r)), [journal EXCEPT !.end = end])
    BY <1>10
  <2> HIDE DEF end
  <2> QED BY <1>9, <2>1, EventNames
<1>11. ASSUME NEW m \in mail, Read(Apply(h, Report(m)), Heard(m)) PROVE VerdictsOk'
  <2>1. SameJournal(Heard(m))
    BY <1>1, HeardWords
  <2>2. Answers(Apply(h, Report(m)), h, h.lastPeriod, journal.waiting)
    BY SoundInput, EventNames
  <2>3. Ready(h)
    BY <1>11, HandlerReady DEF Read
  <2>4. Apply(h, Report(m)).fault = "" => Turned(h, Apply(h, Report(m)), journal.words, Heard(m).words)
    BY <1>1, <2>3, ReportTurns
  <2> QED BY <1>11, <2>1, <2>2, <2>4, VerdictsRead
<1>12. ASSUME NEW o, Read(Apply(h, orderRetired(o)), [journal EXCEPT !.end = ReadRetirement(@, orderRetired(o).retirement)])
       PROVE  VerdictsOk'
  <2> DEFINE end == ReadRetirement(journal.end, orderRetired(o).retirement)
  <2>1. Read(Apply(h, orderRetired(o)), [journal EXCEPT !.end = end])
    BY <1>12
  <2> HIDE DEF end
  <2> QED BY <1>9, <2>1, EventNames
<1>13. ASSUME NEW o, Read(Apply(h, rebalanceCleared(o)), journal) PROVE VerdictsOk'
  <2>1. rebalanceCleared(o).event = "rebalance.cleared" /\ rebalanceCleared(o).clearance.ids = {o}
    BY DEF rebalanceCleared
  <2> QED BY <1>3, <1>4, <1>13, <2>1
<1>14. ASSUME NEW read, Read(Apply(h, reconciliation(read)), journal) PROVE VerdictsOk'
  BY <1>3, <1>4, <1>14, EventNames
<1>15. ASSUME NEW kind, Read(Apply(h, corporateAction(kind)), journal) PROVE VerdictsOk'
  BY <1>3, <1>4, <1>15, EventNames
<1>16. ASSUME NEW engaged,
              Read(Apply(h, killSwitch(engaged)), [journal EXCEPT !.kill = killSwitch(engaged).kill, !.end = ReadKillSwitch(@, killSwitch(engaged).kill)])
       PROVE  VerdictsOk'
  BY <1>16, KillSettled
<1> QED BY StepCases, <1>5, <1>6, <1>7, <1>8, <1>10, <1>11, <1>12, <1>13, <1>14, <1>15, <1>16

LEMMA VerdictsInit == ASSUME Init PROVE VerdictsOk /\ MailOk
<1>1. PICK s \in Starts :
          /\ h = applyApproval(New(s.mode), s.approval) /\ mail = {}
          /\ journal = [NoJournal EXCEPT !.end = AtStart(s.mode, s.approval),
                                         !.states = IF s.approval.incident = NoTag THEN <<>>
                                                    ELSE <<[id |-> s.approval.incident, state |-> s.approval.state, scope |-> s.approval.scope]>>]
  BY DEF Init
<1>2. s.approval.retired \in Nat /\ (s.approval.incident # NoTag => s.approval.state \in {"degraded", "halted"})
  BY RunAssumption
<1>3. /\ HandlerRec(h) /\ h.out = <<>> /\ h.cleared = <<>> /\ h.retired = <<>> /\ h.verdicts = NoVerdicts /\ Fresh(h.gate)
  <2> DEFINE z == applyApproval(New(s.mode), s.approval)
  <2>1. /\ HandlerRec(z) /\ z.out = <<>> /\ z.cleared = <<>> /\ z.retired = <<>> /\ z.verdicts = NoVerdicts /\ Fresh(z.gate)
    BY <1>2, FreshApproval
  <2> HIDE DEF z
  <2> QED BY <1>1, <2>1 DEF z
<1>4. journal.releases = <<>> /\ journal.words = <<>>
  BY <1>1 DEF NoJournal
<1>5. IsList(<<>>) /\ DOMAIN <<>> = {} /\ Len(<<>>) = 0
  BY EmptyList
<1>6. Ids(<<>>) = {} /\ OneEach(<<>>)
  BY <1>5 DEF Ids, OneEach
<1>7. Awaited(<<>>, <<>>, NoVerdicts)
  BY <1>5, <1>6 DEF Awaited, NoVerdicts
<1>8. Tally(<<>>, <<>>, NoVerdicts)
  BY <1>5 DEF Tally, NoVerdicts, Paired
<1>9. Settled(h, <<>>, <<>>)
  <2>1. DOMAIN h.gate.orders = {} /\ h.verdicts.undecided = <<>>
    BY <1>3 DEF Fresh, NoVerdicts
  <2>2. Verdicts(<<>>, <<>>, h.verdicts)
    BY <1>3, <1>5, <1>6, <1>7, <1>8 DEF Verdicts
  <2> QED BY <1>6, <2>1, <2>2 DEF Settled
<1>10. Whole(h)
  BY <1>3, <1>5 DEF Whole
<1> QED BY <1>1, <1>4, <1>9, <1>10 DEF VerdictsOk, MailOk

----------------------------------------------------------------------------
(* What follows of it *)

LEMMA RowPaired == TwoInARow <=> Paired(journal.releases, journal.words)
  BY DEF TwoInARow, Paired, Before, Place

LEMMA FewOrMore == \A n \in Nat : n = 0 \/ n = 1 \/ n >= 2
  OBVIOUS

LEMMA VerdictsStop == VerdictsOk /\ h.fault = "" => StoppedByTwoInARow
<1> SUFFICES ASSUME VerdictsOk, h.fault = "" PROVE Stopped(h.verdicts) <=> Paired(journal.releases, journal.words)
  BY RowPaired DEF StoppedByTwoInARow
<1>1. Tally(journal.releases, journal.words, h.verdicts)
  BY DEF VerdictsOk, Settled, Verdicts
<1>2. h.verdicts.rejections \in Nat
  BY <1>1 DEF Tally
<1>3. h.verdicts.rejections = 0 \/ h.verdicts.rejections = 1 \/ h.verdicts.rejections >= 2
  BY <1>2, FewOrMore
<1> QED BY <1>1, <1>2, <1>3 DEF Tally, Stopped, RejectionLimit

LEMMA InductiveVerdicts ==
    ASSUME NilIsNoRecord
    PROVE  Spec => [](RunOk /\ KillKnown /\ VerdictsOk /\ MailOk)
<1>1. Init => VerdictsOk /\ MailOk
  BY VerdictsInit
<1>2. RunOk /\ VerdictsOk /\ MailOk /\ [Next]_vars => (VerdictsOk /\ MailOk)'
  <2> SUFFICES ASSUME RunOk, VerdictsOk, MailOk, [Next]_vars PROVE (VerdictsOk /\ MailOk)'
    OBVIOUS
  <2>1. CASE Next
    BY <2>1, VerdictsNext, LettersOk
  <2>2. CASE UNCHANGED vars
    BY <2>2 DEF vars, VerdictsOk, MailOk
  <2> QED BY <2>1, <2>2
<1>3. Spec => [](RunOk /\ KillKnown)
  BY Inductive
<1> QED BY <1>1, <1>2, <1>3, PTL DEF Spec

\* However late and in whatever order the words on its orders arrive, a run that goes on has
\* stopped its buys exactly when two orders were rejected in a row: no order released after the
\* first of them was accepted in between (observe of verdicts.go counts a rejection or starts
\* anew by the place of the order among the undecided ones; Release, ClearNeverSent and the
\* retirement of an order keep that place).
THEOREM StopsByTwoInARow ==
    ASSUME NilIsNoRecord
    PROVE  Spec => [](h.fault = "" => StoppedByTwoInARow)
<1>1. Spec => [](RunOk /\ KillKnown /\ VerdictsOk /\ MailOk)
  BY InductiveVerdicts
<1>2. VerdictsOk => (h.fault = "" => StoppedByTwoInARow)
  BY VerdictsStop
<1> QED BY <1>1, <1>2, PTL

\* A run that ended releases nothing.
LEMMA QuietWhenEnded ==
    ASSUME Journal(journal), Next
    PROVE  h.fault = "" \/ journal'.releases = journal.releases
<1>1. ASSUME NEW a, NEW j, Read(a, j) PROVE h.fault = ""
  BY <1>1 DEF Read
<1>2. CASE UNCHANGED <<h, journal>>
  BY <1>2
<1>3. CASE h' = h /\ (journal' = [journal EXCEPT !.byHand = TRUE] \/ journal' = [journal EXCEPT !.fresh = FALSE])
  BY <1>3 DEF Journal
<1> QED BY StepCases, <1>1, <1>2, <1>3

\* A buy is released only in the normal state, with the kill switch as journalled disengaged
\* and not after two orders rejected in a row (check of risklimit.go, trade of handler.go).
THEOREM NoBuyBarred ==
    ASSUME NilIsNoRecord
    PROVE  Spec => NoBuyWhileBarred
<1> DEFINE barred == BuysOf(journal') # BuysOf(journal) => h.gate.state = "normal" /\ ~KillEngaged /\ ~TwoInARow
<1>1. RunOk /\ KillKnown /\ VerdictsOk /\ [Next]_vars => [barred]_vars
  <2> SUFFICES ASSUME RunOk, KillKnown, VerdictsOk, Next PROVE barred
    OBVIOUS
  <2>1. StepOk
    BY NextOk
  <2>2. h.fault = "" => (Stopped(h.verdicts) <=> TwoInARow)
    BY VerdictsStop DEF StoppedByTwoInARow
  <2>3. h.fault = "" \/ journal'.releases = journal.releases
    BY QuietWhenEnded DEF RunOk
  <2> QED BY <2>1, <2>2, <2>3 DEF StepOk, BuysOf
<1>2. Spec => [](RunOk /\ KillKnown /\ VerdictsOk /\ MailOk)
  BY InductiveVerdicts
<1> QED BY <1>1, <1>2, PTL DEF Spec, NoBuyWhileBarred
=============================================================================
