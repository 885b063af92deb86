-------------------------- MODULE SellLedgerProofs --------------------------
(***************************************************************************)
(* Proofs about SellLedger.  What a snapshot can show is decided by which  *)
(* executions were made before its list of open orders was read and which  *)
(* before its positions were.  No variable records that, so the inductive  *)
(* invariant says that there is such a history: L[n] and B[n] are the      *)
(* executions made before snapshot n read its list and its positions, RL   *)
(* and RB those made before the reading under way did.                     *)
(***************************************************************************)
EXTENDS SellLedger, PendingRuleProofs

----------------------------------------------------------------------------
(* Types *)

Execution == [order : Orders, number : Nat, at : Nat \ {0}, quantity : 1..Start]
Listing   == [at : Nat, by : Nat, quantity : 0..Top]
View      == [at : Nat, held : 0..Start \cup {None}, lists : BOOLEAN, reference : BOOLEAN]
Sell      == [released : 0..Start, since : Nat, fills : SUBSET Execution, listings : SUBSET Listing,
              ended : BOOLEAN, end : Nat, endStatus : {"", "canceled"}, venue : BOOLEAN]
Readings  == {Idle} \cup [phase : {"orders"}, kind : {"broker"}, list : Lists \cup {None}]
                    \cup [phase : {"positions"}, kind : {"account", "broker"}, list : Lists \cup {None},
                          held : 0..Start \cup {None}]

WorldTypes ==
    /\ clock \in 1..MaxClock /\ held \in 0..Start
    /\ order \in [Orders -> [stage : {"none", "sent", "working", "over"}, left : 0..Top, total : 0..Top]]
    /\ \A o \in Orders : order[o].left <= order[o].total
    /\ fills \in SUBSET Execution /\ IsFiniteSet(fills)
    /\ ends \in SUBSET [order : Ours, at : Nat]
    /\ listed \in [Hands -> 0..Top \cup {None}]
    /\ reading \in Readings
    /\ reads \in 0..MaxReads /\ restarts \in 0..MaxRestarts

LedgerTypes ==
    /\ sells \in [Ours -> Sell] /\ views \in Seq(View) /\ unknown \in [Orders -> Seq(Listing)]
    /\ account \in 0..Len(views) /\ broker \in 0..Len(views)

\* Executions are numbered for each order, none is later than the clock, and what
\* is not held any more was executed.
Executed ==
    /\ \A f \in fills : f.at <= clock /\ f.number < Cardinality(OfOrder(fills, f.order))
    /\ held + Qty(fills) = Start

----------------------------------------------------------------------------
(* The history *)

\* The shares of order o among the executions in S, and all those sold so far.
Had(S, o) == Qty(OfOrder(S, o))
Sold(o)   == Had(fills, o)

\* Snapshots follow one another and show no execution of a later second; one whose
\* time is asked in the second its positions are read shows all of the earlier ones.
Shown(L, B) ==
    /\ L \in [DOMAIN views -> SUBSET fills] /\ B \in [DOMAIN views -> SUBSET fills]
    /\ \A n \in DOMAIN views :
           /\ L[n] \subseteq B[n] /\ views[n].at <= clock
           /\ ~SlowRead => \A f \in fills : f.at < views[n].at => f \in L[n]
           /\ \A f \in B[n] : f.at <= views[n].at
           /\ views[n].held # None => views[n].held + Qty(B[n]) = Start
           /\ views[n].reference => views[n].held # None
    /\ \A m, n \in DOMAIN views : m <= n => views[m].at <= views[n].at

UnderWay(RL, RB) ==
    /\ RL \in SUBSET fills /\ RB \in SUBSET fills
    /\ reading # Idle /\ ~SlowRead => \A f \in fills : f.at < clock => f \in RL
    /\ reading.phase = "positions" =>
           RL \subseteq RB /\ (reading.held # None => reading.held + Qty(RB) = Start)

\* Whether the reading under way lists order o.
InReading(o) == reading # Idle /\ reading.list # None /\ o \in DOMAIN reading.list.left

----------------------------------------------------------------------------
(* The gate's own sells *)

OwnOrder(o) ==
    LET s == sells[o] IN
    /\ order[o].stage = "none" => s.released = 0 /\ Sold(o) = 0
    /\ order[o].stage \in {"sent", "working"} => order[o].left > 0 /\ order[o].left + Sold(o) = s.released
    /\ order[o].stage \in {"none", "over"} => order[o].left = 0
    /\ order[o].stage = "over" /\ s.released > 0 => Sold(o) <= s.released

OwnReports(o) ==
    LET s == sells[o] IN
    /\ s.fills \subseteq OfOrder(fills, o)
    /\ s.released = 0 => s.fills = {}
    /\ s.ended => \E e \in ends : e.order = o /\ e.at = s.end
    /\ \A e \in ends : e.order = o => order[o].stage = "over" /\ \A f \in OfOrder(fills, o) : f.at <= e.at
    /\ order[o].stage = "over" /\ s.released > Sold(o) => \E e \in ends : e.order = o

\* A listing says what its snapshot read; the ledger keeps only those of its run.
Listed(x) ==
    /\ x.by \in DOMAIN views
    /\ views[x.by].lists /\ x.at = views[x.by].at

\* The listings the ledger holds of o, of its own or not.
Known(o) == sells[o].listings \cup {unknown[o][i] : i \in DOMAIN unknown[o]}

OwnListings(o, L, RL) ==
    LET s == sells[o] IN
    /\ \A x \in Known(o) :
           Listed(x) /\ s.released > 0 /\ s.released <= x.quantity + Had(L[x.by], o)
    /\ InReading(o) => s.released > 0 /\ s.released <= reading.list.left[o] + Had(RL, o)

\* A sell the ledger does not count was sold before every snapshot it holds, and
\* one released since a snapshot sold nothing before it.
OwnViews(o, B, RB) ==
    /\ \A n \in DOMAIN views :
           /\ sells[o].released = 0 => Had(B[n], o) = Sold(o)
           /\ sells[o].since >= n => Had(B[n], o) = 0
    /\ sells[o].since <= Len(views)
    /\ reading.phase = "positions" /\ sells[o].released = 0 => Had(RB, o) = Sold(o)

----------------------------------------------------------------------------
(* The owner's sells *)

\* The shares h may still sell, as far as a list showed them.
LeftListed(h) == IF listed[h] = None THEN 0 ELSE order[h].left

EverListed(h) == unknown[h] # <<>> \/ InReading(h)

\* What the latest list that has h says.
LastListed(h) == IF InReading(h) THEN reading.list.left[h] ELSE unknown[h][Len(unknown[h])].quantity

HandOrder(h) ==
    /\ order[h].stage \in {"none", "working", "over"}
    /\ order[h].stage \in {"none", "over"} => order[h].left = 0
    /\ order[h].stage = "none" => Sold(h) = 0 /\ ~EverListed(h)
    /\ listed[h] # None => EverListed(h) /\ listed[h] = LastListed(h)
    /\ listed[h] = None /\ order[h].stage = "working" /\ EverListed(h) => remaining(h) > LastListed(h)

\* The listings of h from the i-th, and then the reading's, never rise.
Falling(h, i) ==
    /\ \A j \in DOMAIN unknown[h] : i < j => unknown[h][j].quantity <= unknown[h][j - 1].quantity
    /\ InReading(h) => reading.list.left[h] <= unknown[h][Len(unknown[h])].quantity

\* Listings that do not rise bound what h sold since and may still sell.
HandListings(h, L, RL) ==
    /\ \A i \in DOMAIN unknown[h] :
           /\ Listed(unknown[h][i])
           /\ \A j \in DOMAIN unknown[h] : i < j => unknown[h][i].by < unknown[h][j].by
           /\ Falling(h, i) => Sold(h) + LeftListed(h) <= unknown[h][i].quantity + Had(L[unknown[h][i].by], h)
    /\ InReading(h) => Sold(h) + LeftListed(h) <= reading.list.left[h] + Had(RL, h)

\* h sells nothing before it is listed, and nothing after a list no longer has it.
HandViews(h, L, RL) ==
    /\ ~EverListed(h) =>
           /\ \A n \in DOMAIN views : Had(L[n], h) = Sold(h)
           /\ reading # Idle => Had(RL, h) = Sold(h)
    /\ \A n \in DOMAIN views :
           /\ views[n].lists
           /\ \E i \in DOMAIN unknown[h] : unknown[h][i].by < n
           /\ \A i \in DOMAIN unknown[h] : unknown[h][i].by # n
           => order[h].stage = "over" /\ Had(L[n], h) = Sold(h)
    /\ reading # Idle /\ reading.list # None /\ unknown[h] # <<>> /\ ~InReading(h) =>
           order[h].stage = "over" /\ Had(RL, h) = Sold(h)

----------------------------------------------------------------------------
Own(o, L, B, RL, RB) == OwnOrder(o) /\ OwnReports(o) /\ OwnListings(o, L, RL) /\ OwnViews(o, B, RB)

Hand(h, L, RL) == HandOrder(h) /\ HandListings(h, L, RL) /\ HandViews(h, L, RL)

History(L, B, RL, RB) ==
    /\ Shown(L, B) /\ UnderWay(RL, RB)
    /\ \A o \in Ours : Own(o, L, B, RL, RB)
    /\ \A h \in Hands : Hand(h, L, RL)

LedgerInv ==
    /\ WorldTypes /\ LedgerTypes /\ Executed
    /\ \E L, B \in [DOMAIN views -> SUBSET fills], RL, RB \in SUBSET fills : History(L, B, RL, RB)

----------------------------------------------------------------------------
(***************************************************************************)
(* What each operation on the ledger does, in the invariant's terms.       *)
(***************************************************************************)

USE DEF Orders

LEMMA WithIsExcept ==
    ASSUME NEW D, NEW f, DOMAIN f = D, NEW k \in D, NEW x
    PROVE  /\ DOMAIN With(f, k, x) = D
           /\ With(f, k, x)[k] = x
           /\ \A j \in D : j # k => With(f, k, x)[j] = f[j]
<1>1. D \cup {k} = D
  OBVIOUS
<1> QED BY <1>1 DEF With

\* Gate.release.
LEMMA ReleaseEffect ==
    ASSUME WorldTypes, LedgerTypes, NEW o \in Ours, NEW q \in 1..Start, release(o, q)
    PROVE  /\ \A p \in Ours : p # o => sells'[p] = sells[p]
           /\ sells'[o].released = q /\ sells'[o].since = Len(views)
           /\ sells'[o].fills = {} /\ sells'[o].listings = {} /\ ~sells'[o].ended
           /\ sells' \in [Ours -> Sell]
           /\ views' = views /\ unknown' = unknown
           /\ order' = [order EXCEPT ![o] = [stage |-> "sent", left |-> q, total |-> q]]
           /\ sells[o].released = 0 /\ order[o].stage = "none"
<1> DEFINE s == [NoSell EXCEPT !.released = q, !.since = Len(views)]
<1>1. sells' = With(sells, o, s) /\ views' = views /\ unknown' = unknown
  BY DEF release, Becomes, released, ledger
<1>2. s \in Sell
  <2>1. Len(views) \in Nat /\ q \in 0..Start
    BY LedgerAssumption DEF LedgerTypes
  <2>2. NoSell \in Sell
    BY LedgerAssumption DEF NoSell, Sell
  <2> QED BY <2>1, <2>2 DEF Sell
<1>3. sells \in [Ours -> Sell] /\ DOMAIN sells = Ours
  BY DEF LedgerTypes
<1>4. sells' = [sells EXCEPT ![o] = s]
  <2> HIDE DEF s
  <2> QED BY <1>1, <1>3 DEF With
<1>5. s.released = q /\ s.since = Len(views) /\ s.fills = {} /\ s.listings = {} /\ ~s.ended
  BY DEF NoSell
<1> HIDE DEF s
<1> QED BY <1>1, <1>2, <1>3, <1>4, <1>5 DEF release

\* Gate.ObserveFill.
LEMMA FillEffect ==
    ASSUME WorldTypes, LedgerTypes, NEW f \in fills, ObserveFill(f)
    PROVE  /\ f.order \in Ours /\ sells[f.order].released > 0
           /\ \A p \in Ours : p # f.order => sells'[p] = sells[p]
           /\ sells'[f.order].released = sells[f.order].released /\ sells'[f.order].since = sells[f.order].since
           /\ sells'[f.order].fills = sells[f.order].fills \cup {f}
           /\ sells'[f.order].listings = sells[f.order].listings
           /\ sells'[f.order].ended = sells[f.order].ended /\ sells'[f.order].end = sells[f.order].end
           /\ sells' \in [Ours -> Sell]
           /\ views' = views /\ unknown' = unknown
<1> DEFINE o == f.order
           s == [sells[o] EXCEPT !.fills = @ \cup {f}]
<1>1. o \in Ours /\ sells[o].released > 0 /\ sells[o] \in Sell /\ f \in Execution
  BY DEF ObserveFill, LedgerTypes, WorldTypes
<1>2. sells' = [sells EXCEPT ![o] = s] /\ views' = views /\ unknown' = unknown
  BY DEF ObserveFill, Becomes, filled, ledger
<1>3. s \in Sell
  BY <1>1 DEF Sell
<1>4. sells' \in [Ours -> Sell]
  <2> HIDE DEF s, o
  <2> QED BY <1>1, <1>2, <1>3 DEF LedgerTypes
<1> QED BY <1>1, <1>2, <1>4

\* Gate.ObserveLifecycle.
LEMMA LifecycleEffect ==
    ASSUME WorldTypes, LedgerTypes, NEW o \in Ours, ObserveLifecycle(o)
    PROVE  /\ \A p \in Ours : p # o => sells'[p] = sells[p]
           /\ sells'[o].released = sells[o].released /\ sells'[o].since = sells[o].since
           /\ sells'[o].fills = sells[o].fills
           /\ sells[o].listings \subseteq sells'[o].listings
           /\ Known(o)' \subseteq Known(o)
           /\ \/ sells'[o].ended = sells[o].ended /\ sells'[o].end = sells[o].end
              \/ /\ sells'[o].ended /\ \E e \in ends : e.order = o /\ e.at = sells'[o].end
                 /\ sells[o].ended => sells'[o].end < sells[o].end
           /\ views' = views
           /\ \A p \in Orders : p # o => unknown'[p] = unknown[p]
           /\ unknown'[o] \in {unknown[o], <<>>}
           /\ sells' \in [Ours -> Sell] /\ unknown' \in [Orders -> Seq(Listing)]
<1> DEFINE named == learnVenue(ledger, o)
           s == [sells[o] EXCEPT !.venue = TRUE, !.listings = @ \cup listingsOf(ledger, o)]
<1>t. /\ sells \in [Ours -> Sell] /\ sells[o] \in Sell /\ unknown \in [Orders -> Seq(Listing)]
      /\ DOMAIN unknown = Orders /\ o \in Orders
  BY DEF LedgerTypes
<1>1. listingsOf(ledger, o) = {unknown[o][i] : i \in DOMAIN unknown[o]}
  BY <1>t DEF listingsOf, ledger
<1>2. {unknown[o][i] : i \in DOMAIN unknown[o]} \subseteq Listing
  BY <1>t
<1>3. s \in Sell
  BY <1>t, <1>1, <1>2 DEF Sell
<1>r. DOMAIN named = {"sells", "views", "unknown"}
  BY DEF learnVenue, ledger
<1>4. /\ named.views = views
      /\ \/ named.sells = sells /\ named.unknown = unknown
         \/ named.sells = [sells EXCEPT ![o] = s] /\ named.unknown = With(unknown, o, <<>>)
  BY DEF learnVenue, ledger
<1>5. PICK t \in Sell :
        /\ named.sells = [sells EXCEPT ![o] = t]
        /\ t.released = sells[o].released /\ t.since = sells[o].since /\ t.fills = sells[o].fills
        /\ t.ended = sells[o].ended /\ t.end = sells[o].end
        /\ \/ t.listings = sells[o].listings /\ named.unknown = unknown
           \/ /\ t.listings = sells[o].listings \cup {unknown[o][i] : i \in DOMAIN unknown[o]}
              /\ named.unknown = With(unknown, o, <<>>)
  <2>1. CASE named.sells = sells /\ named.unknown = unknown
    <3>1. sells = [sells EXCEPT ![o] = sells[o]]
      BY <1>t
    <3> QED BY <1>t, <2>1, <3>1
  <2>2. CASE named.sells = [sells EXCEPT ![o] = s] /\ named.unknown = With(unknown, o, <<>>)
    <3>1. /\ s.released = sells[o].released /\ s.since = sells[o].since /\ s.fills = sells[o].fills
          /\ s.ended = sells[o].ended /\ s.end = sells[o].end
          /\ s.listings = sells[o].listings \cup {unknown[o][i] : i \in DOMAIN unknown[o]}
      BY <1>t, <1>1 DEF Sell
    <3> HIDE DEF s
    <3> QED BY <1>3, <2>2, <3>1
  <2> QED BY <1>4, <2>1, <2>2
<1>6. PICK u \in Sell :
        /\ sells' = [sells EXCEPT ![o] = u] /\ views' = views /\ unknown' = named.unknown
        /\ u.released = t.released /\ u.since = t.since /\ u.fills = t.fills /\ u.listings = t.listings
        /\ \/ u.ended = t.ended /\ u.end = t.end
           \/ /\ u.ended /\ \E e \in ends : e.order = o /\ e.at = u.end
              /\ t.ended => u.end < t.end
  <2> HIDE DEF named
  <2>1. CASE Becomes(named)
    BY <1>4, <1>5, <2>1 DEF Becomes
  <2>2. CASE \E e \in ends : e.order = o /\ Becomes(ended(named, o, e.at, "canceled"))
    <3>1. PICK e \in ends : e.order = o /\ Becomes(ended(named, o, e.at, "canceled"))
      BY <2>2
    <3>2. e.at \in Nat
      BY DEF WorldTypes
    <3>3. named.sells[o] = t
      BY <1>t, <1>5
    <3>4. CASE ~t.ended \/ e.at < t.end
      <4> DEFINE u == [t EXCEPT !.ended = TRUE, !.end = e.at, !.endStatus = "canceled"]
      <4>1. /\ u \in Sell /\ u.released = t.released /\ u.since = t.since /\ u.fills = t.fills
            /\ u.listings = t.listings /\ u.ended /\ u.end = e.at
        BY <3>2 DEF Sell
      <4>2. Becomes([named EXCEPT !.sells[o].ended = TRUE, !.sells[o].end = e.at, !.sells[o].endStatus = "canceled"])
        BY <3>1, <3>3, <3>4 DEF ended
      <4>3. sells' = [named.sells EXCEPT ![o] = u] /\ views' = views /\ unknown' = named.unknown
        <5> DEFINE last == [named EXCEPT !.sells[o].ended = TRUE, !.sells[o].end = e.at,
                                         !.sells[o].endStatus = "canceled"]
        <5>1. last.sells = [named.sells EXCEPT ![o] = u] /\ last.views = named.views /\ last.unknown = named.unknown
          BY <1>r, <1>t, <1>5, <3>3
        <5> HIDE DEF last, u
        <5> QED BY <1>4, <4>2, <5>1 DEF Becomes, last
      <4>4. sells' = [sells EXCEPT ![o] = u]
        <5> HIDE DEF u
        <5> QED BY <1>t, <1>5, <4>3
      <4> HIDE DEF u
      <4> QED BY <3>1, <3>4, <4>1, <4>3, <4>4
    <3>5. CASE ~(~t.ended \/ e.at < t.end)
      <4>1. Becomes(named)
        BY <3>1, <3>3, <3>5 DEF ended
      <4> QED BY <1>4, <1>5, <4>1 DEF Becomes
    <3> QED BY <3>4, <3>5
  <2> QED BY <2>1, <2>2 DEF ObserveLifecycle, named
<1> HIDE DEF named
<1>7. /\ \A p \in Orders : p # o => unknown'[p] = unknown[p]
      /\ unknown'[o] \in {unknown[o], <<>>} /\ unknown' \in [Orders -> Seq(Listing)]
  <2>1. CASE unknown' = unknown
    BY <1>t, <2>1
  <2>2. CASE unknown' = With(unknown, o, <<>>)
    BY <1>t, <2>2 DEF With
  <2> QED BY <1>5, <1>6, <2>1, <2>2
<1>8. Known(o)' \subseteq Known(o) /\ sells[o].listings \subseteq sells'[o].listings
  <2>1. sells'[o] = u
    BY <1>t, <1>6
  <2> QED BY <1>5, <1>6, <1>7, <2>1 DEF Known
<1> QED BY <1>t, <1>5, <1>6, <1>7, <1>8

\* The reading's listing of order o, as its snapshot stamps it.
Stamped(o) == [at |-> clock, by |-> Len(views) + 1, quantity |-> reading.list.left[o]]

\* The listings of o the ledger cannot name are kept, claimed or one more.
Relisted(o) == \/ unknown'[o] \in {<<>>, unknown[o]}
               \/ InReading(o) /\ unknown'[o] = Append(unknown[o], Stamped(o))

Observed == [at |-> clock, held |-> reading.held, lists |-> reading.list # None,
             reference |-> reading.held # None /\ (reading.kind = "account" \/ reading.list # None)]

\* Gate.ObserveAccount and recordBroker.
LEMMA ReadingEffect ==
    ASSUME WorldTypes, LedgerTypes, ObserveReading
    PROVE  /\ views' = Append(views, Observed) /\ Observed \in View
           /\ \A o \in Ours :
                  /\ sells'[o].released = sells[o].released /\ sells'[o].since = sells[o].since
                  /\ sells'[o].fills = sells[o].fills
                  /\ sells'[o].ended = sells[o].ended /\ sells'[o].end = sells[o].end
                  /\ Known(o)' \subseteq Known(o) \cup (IF InReading(o) THEN {Stamped(o)} ELSE {})
           /\ \A h \in Hands :
                  unknown'[h] = IF InReading(h) THEN Append(unknown[h], Stamped(h)) ELSE unknown[h]
           /\ \A o \in Orders : Relisted(o)
           /\ sells' \in [Ours -> Sell] /\ unknown' \in [Orders -> Seq(Listing)]
           /\ reading.phase = "positions" /\ reading # Idle
<1> DEFINE list == reading.list
           seen == snapshot(ledger, clock, reading.held, reading.list, reading.kind)
<1>t. /\ sells \in [Ours -> Sell] /\ views \in Seq(View) /\ unknown \in [Orders -> Seq(Listing)]
      /\ DOMAIN sells = Ours /\ DOMAIN unknown = Orders /\ clock \in Nat /\ Len(views) \in Nat
  BY LedgerAssumption DEF LedgerTypes, WorldTypes
<1>r. /\ reading.phase = "positions" /\ reading # Idle
      /\ reading.kind \in {"account", "broker"} /\ reading.held \in 0..Start \cup {None}
      /\ list \in Lists \cup {None}
  BY DEF ObserveReading, WorldTypes, Readings, Idle
<1>1. Observed \in View
  BY <1>t, <1>r DEF Observed, View
<1>2. /\ DOMAIN seen = {"sells", "views", "unknown"}
      /\ seen.sells = sells /\ seen.unknown = unknown /\ seen.views = Append(views, Observed)
  BY DEF snapshot, ledger, Observed
<1>3. CASE list = None
  <2>1. sells' = sells /\ unknown' = unknown /\ views' = Append(views, Observed)
    BY <1>2, <1>3 DEF ObserveReading, observed, Becomes
  <2>2. \A o \in Orders : ~InReading(o)
    BY <1>3 DEF InReading
  <2>3. \A o \in Orders : Relisted(o)
    BY <2>1 DEF Relisted
  <2> QED BY <1>1, <1>r, <1>t, <2>1, <2>2, <2>3 DEF Known
<1>4. CASE list # None
  <2> DEFINE stamp(o) == [at |-> seen.views[Len(seen.views)].at, by |-> Len(seen.views), quantity |-> list.left[o]]
             own == {o \in DOMAIN list.left : byVenue(seen, o, list)}
             learning == {o \in own : list.named /\ ~sells[o].venue}
             s(o) == [sells[o] EXCEPT !.venue = @ \/ list.named,
                                      !.listings = @ \cup {stamp(o)} \cup
                                                   (IF o \in learning THEN listingsOf(seen, o) ELSE {})]
             u(o) == CASE o \in learning -> <<>>
                       [] o \in DOMAIN list.left \ own -> Append(unknown[o], stamp(o))
                       [] OTHER -> unknown[o]
  <2>1. /\ list \in Lists /\ DOMAIN list.left \subseteq Orders /\ list.named \in BOOLEAN
        /\ \A o \in DOMAIN list.left : list.left[o] \in 0..Top
    BY <1>4, <1>r DEF Lists
  <2>2. Len(seen.views) = Len(views) + 1 /\ seen.views[Len(seen.views)] = Observed
    BY <1>1, <1>2, <1>t
  <2>3. ASSUME NEW o \in Orders PROVE stamp(o) = Stamped(o) /\ (o \in DOMAIN list.left => stamp(o) \in Listing)
    BY <1>t, <2>1, <2>2 DEF Stamped, Observed, Listing
  <2>4. own \subseteq Ours /\ learning \subseteq Ours
    BY <1>2, <1>t DEF byVenue, knows
  <2>5. ASSUME NEW o \in Orders
        PROVE  listingsOf(seen, o) = {unknown[o][i] : i \in DOMAIN unknown[o]} /\ listingsOf(seen, o) \subseteq Listing
    BY <1>2, <1>t, <2>5 DEF listingsOf
  <2>6. /\ views' = Append(views, Observed)
        /\ sells' = [o \in Ours |-> IF o \notin own THEN sells[o] ELSE s(o)]
        /\ unknown' = [o \in Orders |-> u(o)]
    <3> DEFINE after == listOpenOrders(seen, list)
               v(o) == CASE o \in learning -> <<>>
                         [] o \in DOMAIN list.left \ own ->
                                Append(IF o \in DOMAIN unknown THEN unknown[o] ELSE <<>>, stamp(o))
                         [] OTHER -> IF o \in DOMAIN unknown THEN unknown[o] ELSE <<>>
    <3>1. sells' = after.sells /\ views' = after.views /\ unknown' = after.unknown
      <4> HIDE DEF after, seen
      <4> QED BY <1>4 DEF ObserveReading, observed, Becomes, after, seen
    <3> HIDE DEF seen
    <3>2. /\ after.views = seen.views
          /\ after.sells = [o \in DOMAIN seen.sells |-> IF o \notin own THEN seen.sells[o] ELSE s(o)]
          /\ after.unknown = [o \in DOMAIN seen.unknown \cup DOMAIN list.left |-> v(o)]
      BY <1>2 DEF listOpenOrders
    <3>3. DOMAIN seen.unknown \cup DOMAIN list.left = Orders
      BY <1>2, <1>t, <2>1
    <3>4. \A o \in Orders : v(o) = u(o)
      BY <1>t
    <3> HIDE DEF after, s, u, v, own, learning, stamp
    <3>5. after.unknown = [o \in Orders |-> u(o)]
      BY <3>2, <3>3, <3>4
    <3> QED BY <1>2, <1>t, <3>1, <3>2, <3>5
  <2>7. ASSUME NEW o \in Ours
        PROVE  /\ sells'[o] \in Sell
               /\ sells'[o].released = sells[o].released /\ sells'[o].since = sells[o].since
               /\ sells'[o].fills = sells[o].fills
               /\ sells'[o].ended = sells[o].ended /\ sells'[o].end = sells[o].end
               /\ sells'[o].listings \subseteq Known(o) \cup (IF InReading(o) THEN {Stamped(o)} ELSE {})
    <3>1. sells'[o] = IF o \notin own THEN sells[o] ELSE s(o)
      BY <2>6, <2>7
    <3>2. sells[o] \in Sell
      BY <1>t
    <3>3. CASE o \notin own
      BY <3>1, <3>2, <3>3 DEF Known
    <3>4. CASE o \in own
      <4>1. stamp(o) = Stamped(o) /\ stamp(o) \in Listing /\ InReading(o)
        BY <1>4, <1>r, <2>3, <3>4 DEF InReading
      <4>2. listingsOf(seen, o) = {unknown[o][i] : i \in DOMAIN unknown[o]} /\ listingsOf(seen, o) \subseteq Listing
        BY <2>5
      <4> HIDE DEF own, learning, stamp, seen, list
      <4>3. /\ s(o) \in Sell /\ s(o).released = sells[o].released /\ s(o).since = sells[o].since
            /\ s(o).fills = sells[o].fills /\ s(o).ended = sells[o].ended /\ s(o).end = sells[o].end
            /\ s(o).listings \subseteq sells[o].listings \cup {stamp(o)} \cup listingsOf(seen, o)
        BY <2>1, <3>2, <4>1, <4>2 DEF Sell
      <4> HIDE DEF s
      <4> QED BY <3>1, <3>4, <4>1, <4>2, <4>3 DEF Known
    <3> QED BY <3>3, <3>4
  <2>8. ASSUME NEW o \in Orders
        PROVE  /\ unknown'[o] \in Seq(Listing)
               /\ Relisted(o)
               /\ {unknown'[o][i] : i \in DOMAIN unknown'[o]} \subseteq
                      {unknown[o][i] : i \in DOMAIN unknown[o]} \cup (IF InReading(o) THEN {Stamped(o)} ELSE {})
    <3>1. unknown'[o] = u(o) /\ unknown[o] \in Seq(Listing)
      BY <1>t, <2>6, <2>8
    <3>2. CASE o \in learning
      <4>1. unknown'[o] = <<>>
        BY <3>1, <3>2
      <4> HIDE DEF u, learning, own, stamp, seen, list
      <4>2. <<>> \in Seq(Listing) /\ {(<<>>)[i] : i \in DOMAIN <<>>} = {}
        OBVIOUS
      <4> QED BY <4>1, <4>2 DEF Relisted
    <3>3. CASE o \notin learning /\ o \in DOMAIN list.left \ own
      <4>1. stamp(o) = Stamped(o) /\ stamp(o) \in Listing /\ InReading(o)
        BY <1>4, <1>r, <2>3, <3>3 DEF InReading
      <4>2. unknown'[o] = Append(unknown[o], Stamped(o))
        BY <3>1, <3>3, <4>1
      <4>3. ASSUME NEW t \in Seq(Listing), NEW x \in Listing
            PROVE  /\ Append(t, x) \in Seq(Listing)
                   /\ {Append(t, x)[i] : i \in DOMAIN Append(t, x)} \subseteq {t[i] : i \in DOMAIN t} \cup {x}
        <5>1. Append(t, x) \in Seq(Listing) /\ DOMAIN Append(t, x) = 1..Len(t) + 1 /\ DOMAIN t = 1..Len(t)
          BY <4>3
        <5>2. ASSUME NEW i \in 1..Len(t) + 1 PROVE Append(t, x)[i] \in {t[j] : j \in DOMAIN t} \cup {x}
          BY <4>3, <5>1
        <5> QED BY <5>1, <5>2
      <4> HIDE DEF stamp
      <4> QED BY <3>1, <4>1, <4>2, <4>3 DEF Relisted
    <3>4. CASE o \notin learning /\ o \notin DOMAIN list.left \ own
      BY <3>1, <3>4 DEF Relisted
    <3> QED BY <3>2, <3>3, <3>4
  <2>9. ASSUME NEW h \in Hands
        PROVE  unknown'[h] = IF InReading(h) THEN Append(unknown[h], Stamped(h)) ELSE unknown[h]
    <3>1. h \notin own /\ h \notin learning /\ h \in Orders
      BY <2>4, LedgerAssumption
    <3>2. stamp(h) = Stamped(h) /\ (InReading(h) <=> h \in DOMAIN list.left)
      BY <1>4, <1>r, <2>3, <3>1 DEF InReading
    <3>3. unknown'[h] = u(h)
      BY <2>6, <3>1
    <3> HIDE DEF own, learning, stamp
    <3> QED BY <3>1, <3>2, <3>3
  <2> HIDE DEF own, learning, stamp, s, u, seen
  <2>10. sells' \in [Ours -> Sell]
    BY <2>6, <2>7
  <2>11. unknown' \in [Orders -> Seq(Listing)]
    BY <2>6, <2>8
  <2>12. ASSUME NEW o \in Ours
         PROVE  Known(o)' \subseteq Known(o) \cup (IF InReading(o) THEN {Stamped(o)} ELSE {})
    BY <2>7, <2>8 DEF Known
  <2> QED BY <1>1, <1>r, <2>6, <2>7, <2>8, <2>9, <2>10, <2>11, <2>12
<1> QED BY <1>3, <1>4

\* Gate.RestoreRecovery.
LEMMA RestoreEffect ==
    ASSUME WorldTypes, LedgerTypes, RestoreRecovery
    PROVE  /\ sells' \in [Ours -> Sell]
           /\ \A o \in Ours :
                  /\ sells'[o].listings = {} /\ sells'[o].since = 0
                  /\ \/ /\ Shares(sells[o].fills) < sells[o].released
                        /\ sells'[o].released = sells[o].released /\ sells'[o].fills = sells[o].fills
                        /\ sells'[o].ended = sells[o].ended /\ sells'[o].end = sells[o].end
                     \/ /\ ~(Shares(sells[o].fills) < sells[o].released)
                        /\ sells'[o].released = 0 /\ sells'[o].fills = {} /\ ~sells'[o].ended
<1>1. sells' = [o \in Ours |-> IF Shares(sells[o].fills) < sells[o].released
                               THEN [sells[o] EXCEPT !.since = 0, !.listings = {}] ELSE NoSell]
  BY DEF RestoreRecovery
<1>2. /\ NoSell \in Sell /\ NoSell.listings = {} /\ NoSell.since = 0
      /\ NoSell.released = 0 /\ NoSell.fills = {} /\ ~NoSell.ended
  BY LedgerAssumption DEF NoSell, Sell
<1>3. ASSUME NEW o \in Ours, NEW r, r = [sells[o] EXCEPT !.since = 0, !.listings = {}]
      PROVE  /\ r \in Sell /\ r.since = 0 /\ r.listings = {} /\ r.released = sells[o].released
             /\ r.fills = sells[o].fills /\ r.ended = sells[o].ended /\ r.end = sells[o].end
  <2>1. sells[o] \in Sell
    BY DEF LedgerTypes
  <2> QED BY <1>3, <2>1 DEF Sell
<1> QED BY <1>1, <1>2, <1>3

\* A list gives an order no less than what it has left.
LEMMA RemainingFacts ==
    ASSUME WorldTypes, NEW o \in Orders
    PROVE  remaining(o) \in 0..Top /\ order[o].left \in Nat /\ order[o].left <= remaining(o)
BY LedgerAssumption, RuleAssumption DEF WorldTypes, remaining

\* The list of open orders the adapter makes.
LEMMA ListEffect ==
    ASSUME WorldTypes, NEW named \in BOOLEAN, NEW W \in SUBSET Orders
    PROVE  LET list == [named |-> named, left |-> [o \in W |-> remaining(o)]]
           IN  list \in Lists /\ list # None
<1> DEFINE left == [o \in W |-> remaining(o)]
           list == [named |-> named, left |-> left]
<1>1. left \in [W -> 0..Top]
  BY RemainingFacts
<1>2. list \in [named : BOOLEAN, left : [W -> 0..Top]]
  <2> HIDE DEF left
  <2> QED BY <1>1
<1>3. list \in Lists
  <2> HIDE DEF list
  <2> QED BY <1>2 DEF Lists
<1> QED BY <1>3, ListAssumption

----------------------------------------------------------------------------
(* Types are kept. *)

LEMMA TypesStep ==
    ASSUME WorldTypes, LedgerTypes, [Next]_vars
    PROVE  WorldTypes' /\ LedgerTypes'
<1> USE LedgerAssumption, RuleAssumption
<1>1. ASSUME NEW o \in Ours, NEW q \in 1..Start, release(o, q)
      PROVE  WorldTypes' /\ LedgerTypes'
  <2>1. sells' \in [Ours -> Sell] /\ views' = views /\ unknown' = unknown
    BY <1>1, ReleaseEffect
  <2> QED BY <1>1, <2>1 DEF release, WorldTypes, LedgerTypes, readVars
<1>2. ASSUME NEW f \in fills, ObserveFill(f)
      PROVE  WorldTypes' /\ LedgerTypes'
  <2>1. sells' \in [Ours -> Sell] /\ views' = views /\ unknown' = unknown
    BY <1>2, FillEffect
  <2> QED BY <1>2, <2>1 DEF ObserveFill, WorldTypes, LedgerTypes, readVars, worldVars
<1>3. ASSUME NEW o \in Ours, ObserveLifecycle(o)
      PROVE  WorldTypes' /\ LedgerTypes'
  <2>1. sells' \in [Ours -> Sell] /\ views' = views /\ unknown' \in [Orders -> Seq(Listing)]
    BY <1>3, LifecycleEffect
  <2> QED BY <1>3, <2>1 DEF ObserveLifecycle, WorldTypes, LedgerTypes, readVars, worldVars
<1>4. CASE ObserveReading
  <2>1. /\ sells' \in [Ours -> Sell] /\ unknown' \in [Orders -> Seq(Listing)]
        /\ views' = Append(views, Observed) /\ Observed \in View
    BY <1>4, ReadingEffect
  <2>2. views' \in Seq(View) /\ Len(views') = Len(views) + 1
    BY <2>1 DEF LedgerTypes
  <2>3. account' \in 0..Len(views') /\ broker' \in 0..Len(views')
    BY <1>4, <2>2 DEF ObserveReading, LedgerTypes
  <2> QED BY <1>4, <2>1, <2>2, <2>3 DEF ObserveReading, WorldTypes, LedgerTypes, worldVars, Readings
<1>5. CASE RestoreRecovery
  <2>1. sells' \in [Ours -> Sell]
    BY <1>5, RestoreEffect
  <2>2. /\ views' = <<>> /\ unknown' = [o \in Orders |-> <<>>] /\ account' = 0 /\ broker' = 0
        /\ listed' = [h \in Hands |-> None] /\ reading' = Idle /\ restarts' \in 0..MaxRestarts
        /\ UNCHANGED <<clock, held, order, fills, ends, reads>>
    <3>1. restarts < MaxRestarts /\ restarts' = restarts + 1
      BY <1>5 DEF RestoreRecovery
    <3>2. restarts \in 0..MaxRestarts
      BY DEF WorldTypes
    <3>3. restarts' \in 0..MaxRestarts
      BY <3>1, <3>2
    <3> QED BY <1>5, <3>3 DEF RestoreRecovery
  <2>3. views' \in Seq(View) /\ Len(views') = 0 /\ unknown' \in [Orders -> Seq(Listing)]
    BY <2>2
  <2>4. LedgerTypes'
    BY <2>1, <2>2, <2>3 DEF LedgerTypes
  <2> QED BY <2>2, <2>4 DEF WorldTypes, Readings
<1>6. CASE ReadOrders
  <2> DEFINE working == {o \in Orders : order[o].stage = "working"}
             list(named) == [named |-> named, left |-> [o \in working |-> remaining(o)]]
  <2>1. \A named \in BOOLEAN : list(named) \in Lists
    BY ListEffect
  <2>2. reading' \in Readings
    <3>1. \/ reading' = [phase |-> "orders", kind |-> "broker", list |-> None]
          \/ \E named \in BOOLEAN : reading' = [phase |-> "orders", kind |-> "broker", list |-> list(named)]
      BY <1>6 DEF ReadOrders
    <3> HIDE DEF list
    <3> QED BY <2>1, <3>1 DEF Readings
  <2>3. listed' \in [Hands -> 0..Top \cup {None}]
    <3>1. \/ listed' = listed
          \/ listed' = [h \in Hands |-> IF h \in working THEN remaining(h) ELSE listed[h]]
      BY <1>6 DEF ReadOrders
    <3>2. \A h \in Hands : remaining(h) \in 0..Top
      BY RemainingFacts
    <3>3. listed \in [Hands -> 0..Top \cup {None}]
      BY DEF WorldTypes
    <3> HIDE DEF working
    <3> QED BY <3>1, <3>2, <3>3
  <2>4. UNCHANGED <<clock, held, order, fills, ends, ledgerVars, restarts>> /\ reads' \in 0..MaxReads
    BY <1>6 DEF ReadOrders, WorldTypes
  <2> QED BY <2>2, <2>3, <2>4 DEF WorldTypes, LedgerTypes, ledgerVars
<1>7. CASE ReadPositions
  <2>1. reading' \in Readings /\ reads' \in 0..MaxReads
    BY <1>7 DEF ReadPositions, WorldTypes, Readings, Idle
  <2> QED BY <1>7, <2>1 DEF ReadPositions, WorldTypes, LedgerTypes, ledgerVars, worldVars
<1>8. CASE Tick
  BY <1>8 DEF Tick, WorldTypes, LedgerTypes, ledgerVars, readVars
<1>9. ASSUME NEW o \in Ours, Arrive(o)
      PROVE  WorldTypes' /\ LedgerTypes'
  BY <1>9 DEF Arrive, WorldTypes, LedgerTypes, ledgerVars, readVars
<1>10. ASSUME NEW o \in Orders, NEW q \in 1..Start, Fill(o, q)
       PROVE  WorldTypes' /\ LedgerTypes'
  <2>1. order' \in [Orders -> [stage : {"none", "sent", "working", "over"}, left : 0..Top, total : 0..Top]]
    BY <1>10 DEF Fill, WorldTypes
  <2>t. \A p \in Orders : order'[p].left <= order'[p].total
    BY <1>10 DEF Fill, WorldTypes
  <2>2. fills' \in SUBSET Execution /\ IsFiniteSet(fills')
    <3> DEFINE k == Cardinality({f \in fills : f.order = o})
    <3>1. k \in Nat
      BY FS_Subset, FS_CardinalityType DEF WorldTypes
    <3> HIDE DEF k
    <3>2. fills' = fills \cup {[order |-> o, number |-> k, at |-> clock, quantity |-> q]}
      BY <1>10 DEF Fill, k
    <3>3. [order |-> o, number |-> k, at |-> clock, quantity |-> q] \in Execution
      BY <3>1 DEF WorldTypes, Execution
    <3> QED BY <3>2, <3>3, FS_AddElement DEF WorldTypes
  <2>3. held' \in 0..Start /\ UNCHANGED <<clock, ends, listed, readVars, ledgerVars, restarts>>
    BY <1>10 DEF Fill, WorldTypes
  <2> QED BY <2>1, <2>2, <2>3, <2>t DEF WorldTypes, LedgerTypes, ledgerVars, readVars
<1>11. ASSUME NEW o \in Orders, Cancel(o)
       PROVE  WorldTypes' /\ LedgerTypes'
  <2>1. order' \in [Orders -> [stage : {"none", "sent", "working", "over"}, left : 0..Top, total : 0..Top]]
    BY <1>11 DEF Cancel, WorldTypes
  <2>2. \A p \in Orders : order'[p].left <= order'[p].total
    BY <1>11 DEF Cancel, WorldTypes
  <2>3. /\ ends' \in SUBSET [order : Ours, at : Nat]
        /\ UNCHANGED <<clock, held, fills, listed, readVars, ledgerVars, restarts>>
    BY <1>11 DEF Cancel, WorldTypes
  <2> QED BY <2>1, <2>2, <2>3 DEF WorldTypes, LedgerTypes, ledgerVars, readVars
<1>12. ASSUME NEW h \in Hands, NEW q \in HandSizes, PlaceByHand(h, q)
       PROVE  WorldTypes' /\ LedgerTypes'
  BY <1>12 DEF PlaceByHand, WorldTypes, LedgerTypes, ledgerVars, readVars
<1>13. ASSUME NEW h \in Hands, RaiseByHand(h)
       PROVE  WorldTypes' /\ LedgerTypes'
  <2>1. HandSizes \in SUBSET Int /\ Top \in Int /\ \A x \in HandSizes : x <= Top
    OBVIOUS
  <2>2. Max(HandSizes) \in HandSizes
    BY <2>1, MaxFacts
  <2>3. Max(HandSizes) \in 0..Top
    <3>1. \A x \in HandSizes : x \in 0..Top
      BY <2>1
    <3> QED BY ONLY <2>2, <3>1
  <2> DEFINE rise == Max(HandSizes) - order[h].total
  <2>4. /\ order[h].total < Max(HandSizes)
        /\ order' = [order EXCEPT ![h].left = @ + rise, ![h].total = @ + rise]
        /\ listed' = [listed EXCEPT ![h] = None]
        /\ UNCHANGED <<clock, held, fills, ends, readVars, ledgerVars, restarts>>
    BY <1>13 DEF RaiseByHand
  <2>5. /\ order \in [Orders -> [stage : {"none", "sent", "working", "over"}, left : 0..Top, total : 0..Top]]
        /\ \A p \in Orders : order[p].left <= order[p].total
    BY DEF WorldTypes
  <2>6. order[h].left + rise \in 0..Top /\ order[h].total + rise \in 0..Top
    BY <2>3, <2>4, <2>5
  <2>7. order[h].left + rise <= order[h].total + rise
    BY <2>3, <2>4, <2>5
  <2> HIDE DEF rise
  <2>8. order' \in [Orders -> [stage : {"none", "sent", "working", "over"}, left : 0..Top, total : 0..Top]]
    BY <2>4, <2>5, <2>6
  <2>9. \A p \in Orders : order'[p].left <= order'[p].total
    BY <2>4, <2>5, <2>7
  <2> QED BY <2>4, <2>8, <2>9 DEF WorldTypes, LedgerTypes, ledgerVars, readVars
<1>14. CASE UNCHANGED vars
  BY <1>14 DEF vars, WorldTypes, LedgerTypes, ledgerVars, readVars, worldVars
<1> QED BY <1>1, <1>2, <1>3, <1>4, <1>5, <1>6, <1>7, <1>8, <1>9, <1>10, <1>11, <1>12, <1>13, <1>14 DEF Next, Release

----------------------------------------------------------------------------
(* Executions *)

LEMMA HadFacts ==
    ASSUME WorldTypes, NEW S \in SUBSET fills, NEW o
    PROVE  /\ FillSet(fills) /\ FillSet(S) /\ FillSet(OfOrder(S, o))
           /\ Had(S, o) \in Nat /\ Sold(o) \in Nat
           /\ Had(S, o) <= Sold(o)
<1>1. FillSet(fills)
  BY LedgerAssumption, RuleAssumption DEF WorldTypes, FillSet, Execution
<1>2. OfOrder(S, o) \in SUBSET OfOrder(fills, o) /\ OfOrder(fills, o) \in SUBSET fills
  BY DEF OfOrder
<1>3. FillSet(S) /\ FillSet(OfOrder(fills, o)) /\ FillSet(OfOrder(S, o))
  BY <1>1, <1>2, FillsPart
<1> QED BY <1>1, <1>2, <1>3, QtyFacts, QtyMonotone DEF Had, Sold

LEMMA SoldType ==
    ASSUME WorldTypes
    PROVE  FillSet(fills) /\ \A o : Sold(o) \in Nat
<1>1. fills \in SUBSET fills
  OBVIOUS
<1> QED BY <1>1, HadFacts

LEMMA LedgerValues ==
    ASSUME LedgerTypes
    PROVE  /\ \A o \in Ours : sells[o] \in Sell /\ sells[o].released \in Nat
           /\ Len(views) \in Nat /\ DOMAIN views = 1..Len(views)
           /\ \A n \in DOMAIN views : views[n] \in View /\ views[n].at \in Nat
           /\ \A o \in Orders : \A i \in DOMAIN unknown[o] : unknown[o][i] \in Listing
<1>1. sells \in [Ours -> Sell] /\ views \in Seq(View) /\ unknown \in [Orders -> Seq(Listing)]
  BY DEF LedgerTypes
<1>2. \A o \in Ours : sells[o] \in Sell /\ sells[o].released \in Nat
  <2>1. Start \in Nat
    BY LedgerAssumption, RuleAssumption
  <2>2. \A s \in Sell : s.released \in 0..Start
    BY DEF Sell
  <2> QED BY <1>1, <2>1, <2>2
<1>3. \A n \in DOMAIN views : views[n] \in View
  BY <1>1
<1>4. \A o \in Orders : \A i \in DOMAIN unknown[o] : unknown[o][i] \in Listing
  BY <1>1
<1> QED BY <1>1, <1>2, <1>3, <1>4 DEF View

\* One more execution of o.
LEMMA ExecutedOnce ==
    ASSUME WorldTypes, Executed, NEW o \in Orders, NEW q \in 1..Start, Fill(o, q)
    PROVE  \E f \in fills' :
               /\ fills' = fills \cup {f} /\ f \notin fills
               /\ f.order = o /\ f.at = clock /\ f.quantity = q
               /\ f.number = Cardinality(OfOrder(fills, o))
               /\ \A p : OfOrder(fills', p) = IF p = o THEN OfOrder(fills, o) \cup {f} ELSE OfOrder(fills, p)
               /\ \A p : Sold(p)' = IF p = o THEN Sold(o) + q ELSE Sold(p)
<1> DEFINE k == Cardinality(OfOrder(fills, o))
           f == [order |-> o, number |-> k, at |-> clock, quantity |-> q]
<1>1. fills' = fills \cup {f}
  BY DEF Fill, OfOrder
<1>2. f \notin fills
  <2>1. k \in Nat
    BY HadFacts, FS_CardinalityType DEF FillSet
  <2>2. \A g \in fills : g.number < Cardinality(OfOrder(fills, g.order))
    BY DEF Executed
  <2> HIDE DEF k
  <2>3. f.order = o /\ f.number = k
    OBVIOUS
  <2> HIDE DEF f
  <2> QED BY <2>1, <2>2, <2>3 DEF k
<1>3. f.order = o /\ f.at = clock /\ f.quantity = q /\ f.number = k
  OBVIOUS
<1> HIDE DEF f
<1>4. ASSUME NEW p PROVE OfOrder(fills', p) = IF p = o THEN OfOrder(fills, o) \cup {f} ELSE OfOrder(fills, p)
  BY <1>1, <1>3 DEF OfOrder
<1>5. Qty(OfOrder(fills, o) \cup {f}) = Qty(OfOrder(fills, o)) + q
  <2>1. FillSet(OfOrder(fills, o)) /\ f \notin OfOrder(fills, o) /\ f.quantity \in 1..Top
    BY <1>2, <1>3, HadFacts, LedgerAssumption, RuleAssumption DEF OfOrder
  <2> QED BY <1>3, <2>1, QtyOneMore
<1>6. ASSUME NEW p PROVE Sold(p)' = IF p = o THEN Sold(o) + q ELSE Sold(p)
  BY <1>4, <1>5 DEF Sold, Had
<1> QED BY <1>1, <1>2, <1>3, <1>4, <1>6

LEMMA ExecutedStep ==
    ASSUME WorldTypes, Executed, [Next]_vars
    PROVE  Executed'
<1>1. ASSUME NEW o \in Orders, NEW q \in 1..Start, Fill(o, q)
      PROVE  Executed'
  <2>1. PICK f \in fills' :
            /\ fills' = fills \cup {f} /\ f \notin fills
            /\ f.order = o /\ f.at = clock /\ f.quantity = q
            /\ f.number = Cardinality(OfOrder(fills, o))
            /\ \A p : OfOrder(fills', p) = IF p = o THEN OfOrder(fills, o) \cup {f} ELSE OfOrder(fills, p)
    BY <1>1, ExecutedOnce
  <2>2. FillSet(fills) /\ Qty(fills) \in Nat /\ q \in 1..Top
    BY HadFacts, QtyFacts, LedgerAssumption, RuleAssumption
  <2>3. Qty(fills') = Qty(fills) + q
    BY <2>1, <2>2, QtyOneMore
  <2>4. held' = held - q /\ clock' = clock /\ held \in Int /\ Start \in Int
    BY <1>1, LedgerAssumption DEF Fill, WorldTypes
  <2>5. held' + Qty(fills') = Start
    BY <2>2, <2>3, <2>4 DEF Executed
  <2>6. \A p : Cardinality(OfOrder(fills, p)) \in Nat
    BY HadFacts, FS_CardinalityType DEF FillSet
  <2>7. Cardinality(OfOrder(fills, o) \cup {f}) = Cardinality(OfOrder(fills, o)) + 1
    <3>1. IsFiniteSet(OfOrder(fills, o)) /\ f \notin OfOrder(fills, o)
      BY <2>1, HadFacts DEF FillSet, OfOrder
    <3> QED BY <3>1, FS_AddElement
  <2> DEFINE count(p) == Cardinality(OfOrder(fills, p))
  <2>c. \A p : Cardinality(OfOrder(fills', p)) = IF p = o THEN count(p) + 1 ELSE count(p)
    BY <2>1, <2>7
  <2>8. ASSUME NEW g \in fills'
        PROVE  g.at <= clock' /\ g.number < Cardinality(OfOrder(fills', g.order))
    <3>g. count(g.order) \in Nat /\ Cardinality(OfOrder(fills', g.order)) \in {count(g.order), count(g.order) + 1}
      BY <2>6, <2>c
    <3>1. CASE g = f
      <4>1. Cardinality(OfOrder(fills', g.order)) = count(o) + 1 /\ g.number = count(o) /\ count(o) \in Nat
        BY <2>1, <2>6, <2>c, <3>1
      <4>2. g.at = clock /\ clock \in Nat
        BY <2>1, <3>1 DEF WorldTypes
      <4> HIDE DEF count
      <4> QED BY <2>4, <4>1, <4>2
    <3>2. CASE g \in fills
      <4>1. g.at <= clock /\ g.number < Cardinality(OfOrder(fills, g.order)) /\ g.number \in Nat
        BY <3>2 DEF Executed, WorldTypes, Execution
      <4>2. g.at \in Nat /\ clock \in Nat
        BY <3>2 DEF WorldTypes, Execution
      <4> HIDE DEF count
      <4> QED BY <2>4, <3>g, <4>1, <4>2 DEF count
    <3> QED BY <2>1, <3>1, <3>2
  <2> QED BY <2>5, <2>8 DEF Executed
<1>2. ASSUME fills' = fills, held' = held, clock' \in {clock, clock + 1}
      PROVE  Executed'
  <2>1. \A f \in fills : f.at \in Nat /\ f.at <= clock /\ clock \in Nat
    BY DEF Executed, WorldTypes, Execution
  <2> QED BY <1>2, <2>1 DEF Executed
<1>3. ASSUME \A o \in Orders, q \in 1..Start : ~Fill(o, q)
      PROVE  fills' = fills /\ held' = held /\ clock' \in {clock, clock + 1}
  BY <1>3 DEF Next, Release, release, ObserveFill, ObserveLifecycle, ObserveReading, RestoreRecovery, ReadOrders,
              ReadPositions, Tick, Arrive, Cancel, PlaceByHand, RaiseByHand, vars, worldVars
<1> QED BY <1>1, <1>2, <1>3

----------------------------------------------------------------------------
(* Snapshots and the reading under way, between two snapshots. *)

\* While a reading is under way the clock stands still, unless a snapshot's time may
\* be asked in a later second than its positions are read.
LEMMA Passing ==
    ASSUME WorldTypes, Executed, [Next]_vars
    PROVE  /\ fills \subseteq fills' /\ \A f \in fills' : f \notin fills => f.at = clock
           /\ clock \in Nat /\ clock' \in {clock, clock + 1}
           /\ reading # Idle /\ ~SlowRead => clock' = clock
<1>c. clock \in Nat
  BY DEF WorldTypes
<1>1. CASE \E o \in Orders, q \in 1..Start : Fill(o, q)
  <2>1. clock' = clock
    BY <1>1 DEF Fill
  <2> QED BY <1>1, <1>c, <2>1, ExecutedOnce
<1>2. CASE ~ \E o \in Orders, q \in 1..Start : Fill(o, q)
  BY <1>2, <1>c DEF Next, Release, release, ObserveFill, ObserveLifecycle, ObserveReading, RestoreRecovery, ReadOrders,
              ReadPositions, Tick, Arrive, Cancel, PlaceByHand, RaiseByHand, vars, worldVars
<1> QED BY <1>1, <1>2

LEMMA ShownKept ==
    ASSUME WorldTypes, LedgerTypes, Executed, [Next]_vars, views' = views, NEW L, NEW B, Shown(L, B)
    PROVE  Shown(L, B)'
<1>1. /\ fills \subseteq fills' /\ \A f \in fills' : f \notin fills => f.at = clock
      /\ clock \in Nat /\ clock' \in {clock, clock + 1}
  BY Passing
<1>2. \A n \in DOMAIN views : views[n].at \in Nat
  BY LedgerValues
<1>3. L \in [DOMAIN views -> SUBSET fills'] /\ B \in [DOMAIN views -> SUBSET fills']
  BY <1>1 DEF Shown
<1>4. ASSUME NEW n \in DOMAIN views
      PROVE  views[n].at <= clock' /\ (~SlowRead => \A f \in fills' : f.at < views[n].at => f \in L[n])
  BY <1>1, <1>2 DEF Shown
<1> QED BY <1>3, <1>4 DEF Shown

LEMMA UnderWayKept ==
    ASSUME WorldTypes, Executed, [Next]_vars, reading' = reading, NEW RL, NEW RB, UnderWay(RL, RB)
    PROVE  UnderWay(RL, RB)'
<1>1. /\ fills \subseteq fills' /\ \A f \in fills' : f \notin fills => f.at = clock
      /\ clock \in Nat /\ (reading # Idle /\ ~SlowRead => clock' = clock)
  BY Passing
<1> QED BY <1>1 DEF UnderWay

----------------------------------------------------------------------------
(* The gate's own sells, step by step. *)

LEMMA OwnUnmoved ==
    ASSUME NEW o \in Ours, NEW L, NEW B, NEW RL, NEW RB, Own(o, L, B, RL, RB),
           order'[o] = order[o], OfOrder(fills', o) = OfOrder(fills, o),
           \A e : e.order = o => (e \in ends' <=> e \in ends),
           sells'[o] = sells[o], unknown'[o] = unknown[o], views' = views, reading' = reading
    PROVE  Own(o, L, B, RL, RB)'
<1>1. Sold(o)' = Sold(o)
  BY DEF Sold, Had
<1>2. OwnOrder(o)'
  BY <1>1 DEF Own, OwnOrder
<1>3. OwnReports(o)'
  BY <1>1 DEF Own, OwnReports
<1>4. OwnListings(o, L, RL)'
  BY DEF Own, OwnListings, Known, Listed, InReading, Had
<1>5. OwnViews(o, B, RB)'
  BY <1>1 DEF Own, OwnViews, Had
<1> QED BY <1>2, <1>3, <1>4, <1>5 DEF Own

LEMMA ArriveOwn ==
    ASSUME WorldTypes, NEW o \in Ours, Arrive(o), NEW L, NEW B, NEW RL, NEW RB, Own(o, L, B, RL, RB)
    PROVE  Own(o, L, B, RL, RB)'
<1>1. /\ order[o].stage = "sent" /\ order'[o].stage = "working" /\ order'[o].left = order[o].left
      /\ UNCHANGED <<fills, ends, readVars, ledgerVars>>
  BY DEF Arrive, WorldTypes
<1>2. Sold(o)' = Sold(o)
  BY <1>1 DEF Sold, Had
<1>3. OwnOrder(o)'
  BY <1>1, <1>2 DEF Own, OwnOrder, ledgerVars
<1>4. OwnReports(o)'
  BY <1>1, <1>2 DEF Own, OwnReports, ledgerVars
<1>5. OwnListings(o, L, RL)'
  BY <1>1 DEF Own, OwnListings, Known, Listed, InReading, Had, ledgerVars, readVars
<1>6. OwnViews(o, B, RB)'
  BY <1>1, <1>2 DEF Own, OwnViews, Had, ledgerVars, readVars
<1> QED BY <1>3, <1>4, <1>5, <1>6 DEF Own

LEMMA FillOwn ==
    ASSUME WorldTypes, LedgerTypes, Executed, NEW o \in Ours, NEW q \in 1..Start, Fill(o, q),
           NEW L, NEW B, NEW RL, NEW RB, Own(o, L, B, RL, RB)
    PROVE  Own(o, L, B, RL, RB)'
<1>1. PICK f \in fills' : /\ fills' = fills \cup {f} /\ f.at = clock
                          /\ OfOrder(fills', o) = OfOrder(fills, o) \cup {f}
                          /\ Sold(o)' = Sold(o) + q
  BY ExecutedOnce
<1>2. /\ order[o].stage = "working" /\ order'[o].stage = (IF q = order[o].left THEN "over" ELSE "working")
      /\ order'[o].left = order[o].left - q /\ q <= order[o].left /\ order[o].left \in Nat
      /\ UNCHANGED <<ends, readVars, ledgerVars>>
  BY DEF Fill, WorldTypes
<1>3. Sold(o) \in Nat /\ sells[o].released \in Nat
  BY SoldType, LedgerValues
<1>4. OwnOrder(o)'
  BY <1>1, <1>2, <1>3 DEF Own, OwnOrder, ledgerVars
<1>5. OwnReports(o)'
  <2>1. \A e \in ends : e.order # o
    BY <1>2 DEF Own, OwnReports
  <2>2. order'[o].stage = "over" => sells[o].released = Sold(o)'
    BY <1>1, <1>2, <1>3 DEF Own, OwnOrder
  <2>3. ~sells[o].ended
    BY <2>1 DEF Own, OwnReports
  <2>4. sells[o].fills \subseteq OfOrder(fills', o) /\ (sells[o].released = 0 => sells[o].fills = {})
    BY <1>1 DEF Own, OwnReports
  <2>5. ~(sells[o].released > Sold(o)' /\ order'[o].stage = "over")
    BY <1>1, <1>3, <2>2
  <2>6. sells' = sells /\ ends' = ends
    BY <1>2 DEF ledgerVars
  <2> QED BY <2>1, <2>3, <2>4, <2>5, <2>6 DEF OwnReports
<1>6. OwnListings(o, L, RL)'
  BY <1>2 DEF Own, OwnListings, Known, Listed, InReading, Had, ledgerVars, readVars
<1>7. OwnViews(o, B, RB)'
  BY <1>2, <1>3 DEF Own, OwnOrder, OwnViews, Had, ledgerVars, readVars
<1> QED BY <1>4, <1>5, <1>6, <1>7 DEF Own

LEMMA CancelOwn ==
    ASSUME WorldTypes, LedgerTypes, Executed, NEW o \in Ours, Cancel(o),
           NEW L, NEW B, NEW RL, NEW RB, Own(o, L, B, RL, RB)
    PROVE  Own(o, L, B, RL, RB)'
<1>1. /\ order[o].stage = "working" /\ order'[o].stage = "over" /\ order'[o].left = 0
      /\ ends' = ends \cup {[order |-> o, at |-> clock]} /\ order[o].left \in Nat
      /\ UNCHANGED <<fills, readVars, ledgerVars>>
  BY DEF Cancel, WorldTypes
<1>2. Sold(o)' = Sold(o) /\ Sold(o) \in Nat /\ sells[o].released \in Nat
  BY <1>1, SoldType, LedgerValues DEF Sold, Had
<1>3. OwnOrder(o)'
  BY <1>1, <1>2 DEF Own, OwnOrder, ledgerVars
<1>4. OwnReports(o)'
  <2>1. \A f \in OfOrder(fills, o) : f.at <= clock
    BY DEF Executed, OfOrder
  <2>2. \A e \in ends : e.order # o
    BY <1>1 DEF Own, OwnReports
  <2>3. ~sells[o].ended
    BY <2>2 DEF Own, OwnReports
  <2>4. \A e \in ends' : e.order = o => e.at = clock
    BY <1>1, <2>2
  <2>5. sells[o].fills \subseteq OfOrder(fills, o) /\ (sells[o].released = 0 => sells[o].fills = {})
    BY DEF Own, OwnReports
  <2>6. sells' = sells /\ fills' = fills /\ order'[o].stage = "over"
    BY <1>1 DEF ledgerVars
  <2>7. \E e \in ends' : e.order = o
    <3> DEFINE e == [order |-> o, at |-> clock]
    <3>1. e \in ends' /\ e.order = o
      BY <1>1
    <3> QED BY <3>1
  <2> QED BY <2>1, <2>3, <2>4, <2>5, <2>6, <2>7 DEF OwnReports
<1>5. OwnListings(o, L, RL)'
  BY <1>1 DEF Own, OwnListings, Known, Listed, InReading, Had, ledgerVars, readVars
<1>6. OwnViews(o, B, RB)'
  BY <1>1, <1>2 DEF Own, OwnViews, Had, ledgerVars, readVars
<1> QED BY <1>3, <1>4, <1>5, <1>6 DEF Own

LEMMA ReleaseOwn ==
    ASSUME WorldTypes, LedgerTypes, NEW o \in Ours, NEW q \in 1..Start, release(o, q),
           NEW L, NEW B, NEW RL, NEW RB, Own(o, L, B, RL, RB)
    PROVE  Own(o, L, B, RL, RB)'
<1>1. /\ sells[o].released = 0 /\ order[o].stage = "none"
      /\ sells'[o].released = q /\ sells'[o].since = Len(views)
      /\ sells'[o].fills = {} /\ sells'[o].listings = {} /\ ~sells'[o].ended
      /\ views' = views /\ unknown' = unknown
  BY ReleaseEffect
<1>2. /\ order'[o].stage = "sent" /\ order'[o].left = q
      /\ UNCHANGED <<fills, ends, readVars>>
  BY ReleaseEffect DEF WorldTypes, release
<1>3. Sold(o)' = 0 /\ Sold(o) = 0 /\ q \in Nat /\ q > 0
  BY <1>1, <1>2 DEF Own, OwnOrder, Sold, Had
<1>4. OwnOrder(o)'
  BY <1>1, <1>2, <1>3 DEF OwnOrder
<1>5. OwnReports(o)'
  BY <1>1, <1>2, <1>3 DEF Own, OwnReports
<1>6. OwnListings(o, L, RL)'
  <2>1. Known(o) = {} /\ ~InReading(o)
    BY <1>1 DEF Own, OwnListings
  <2>2. Known(o)' = {} /\ ~InReading(o)'
    BY <1>1, <1>2, <2>1 DEF Known, InReading, readVars
  <2> QED BY <2>2 DEF OwnListings
<1>7. OwnViews(o, B, RB)'
  <2>1. \A n \in DOMAIN views : Had(B[n], o) = 0
    BY <1>1, <1>3 DEF Own, OwnViews
  <2> QED BY <1>1, <1>2, <1>3, <2>1, LedgerValues DEF OwnViews, Had
<1> QED BY <1>4, <1>5, <1>6, <1>7 DEF Own

LEMMA ReportOwn ==
    ASSUME WorldTypes, LedgerTypes, NEW f \in fills, ObserveFill(f),
           NEW L, NEW B, NEW RL, NEW RB, Own(f.order, L, B, RL, RB)
    PROVE  Own(f.order, L, B, RL, RB)'
<1> DEFINE o == f.order
<1>1. /\ o \in Ours /\ sells[o].released > 0
      /\ sells'[o].released = sells[o].released /\ sells'[o].since = sells[o].since
      /\ sells'[o].fills = sells[o].fills \cup {f}
      /\ sells'[o].listings = sells[o].listings
      /\ sells'[o].ended = sells[o].ended /\ sells'[o].end = sells[o].end
      /\ views' = views /\ unknown' = unknown
  BY FillEffect
<1>2. order' = order /\ fills' = fills /\ ends' = ends /\ reading' = reading
  BY DEF ObserveFill, worldVars, readVars
<1>3. f \in OfOrder(fills, o)
  BY DEF OfOrder
<1> HIDE DEF o
<1>4. Sold(o)' = Sold(o)
  BY <1>2 DEF Sold, Had
<1>5. OwnOrder(o)'
  BY <1>1, <1>2, <1>4 DEF Own, OwnOrder, o
<1>6. OwnReports(o)'
  BY <1>1, <1>2, <1>3, <1>4 DEF Own, OwnReports, o
<1>7. OwnListings(o, L, RL)'
  BY <1>1, <1>2 DEF Own, OwnListings, Known, Listed, InReading, Had, o
<1>8. OwnViews(o, B, RB)'
  BY <1>1, <1>2, <1>4 DEF Own, OwnViews, Had, o
<1> QED BY <1>5, <1>6, <1>7, <1>8 DEF Own, o

LEMMA LifecycleOwn ==
    ASSUME WorldTypes, LedgerTypes, NEW o \in Ours, ObserveLifecycle(o),
           NEW L, NEW B, NEW RL, NEW RB, Own(o, L, B, RL, RB)
    PROVE  Own(o, L, B, RL, RB)'
<1>1. /\ sells'[o].released = sells[o].released /\ sells'[o].since = sells[o].since
      /\ sells'[o].fills = sells[o].fills /\ views' = views /\ Known(o)' \subseteq Known(o)
      /\ \/ sells'[o].ended = sells[o].ended /\ sells'[o].end = sells[o].end
         \/ \E e \in ends : e.order = o /\ e.at = sells'[o].end
  BY LifecycleEffect
<1>2. order' = order /\ fills' = fills /\ ends' = ends /\ reading' = reading
  BY DEF ObserveLifecycle, worldVars, readVars
<1>3. Sold(o)' = Sold(o)
  BY <1>2 DEF Sold, Had
<1>4. OwnOrder(o)'
  BY <1>1, <1>2, <1>3 DEF Own, OwnOrder
<1>5. OwnReports(o)'
  BY <1>1, <1>2, <1>3 DEF Own, OwnReports
<1>6. OwnListings(o, L, RL)'
  BY <1>1, <1>2 DEF Own, OwnListings, Listed, InReading, Had
<1>7. OwnViews(o, B, RB)'
  BY <1>1, <1>2, <1>3 DEF Own, OwnViews, Had
<1> QED BY <1>4, <1>5, <1>6, <1>7 DEF Own

\* One more snapshot.
LEMMA OneMoreView ==
    ASSUME WorldTypes, LedgerTypes, ObserveReading
    PROVE  /\ Len(views') = Len(views) + 1 /\ DOMAIN views' = 1..(Len(views) + 1)
           /\ Len(views) + 1 \notin DOMAIN views
           /\ \A n \in DOMAIN views' : n \in DOMAIN views \/ n = Len(views) + 1
           /\ \A n \in DOMAIN views : n \in DOMAIN views' /\ n < Len(views) + 1 /\ views'[n] = views[n]
           /\ views'[Len(views) + 1] = Observed
<1>1. views \in Seq(View) /\ views' = Append(views, Observed) /\ Observed \in View
  BY ReadingEffect DEF LedgerTypes
<1> QED BY <1>1

LEMMA ReadingOwn ==
    ASSUME WorldTypes, LedgerTypes, ObserveReading, NEW o \in Ours,
           NEW L, NEW B, NEW RL, NEW RB, Own(o, L, B, RL, RB),
           NEW M, \A n \in DOMAIN views : M[n] = L[n], M[Len(views) + 1] = RL,
           NEW C, \A n \in DOMAIN views : C[n] = B[n], C[Len(views) + 1] = RB,
           NEW SL, NEW SB
    PROVE  Own(o, M, C, SL, SB)'
<1>1. /\ sells'[o].released = sells[o].released /\ sells'[o].since = sells[o].since
      /\ sells'[o].fills = sells[o].fills
      /\ sells'[o].ended = sells[o].ended /\ sells'[o].end = sells[o].end
      /\ Known(o)' \subseteq Known(o) \cup (IF InReading(o) THEN {Stamped(o)} ELSE {})
      /\ reading.phase = "positions" /\ reading # Idle
  BY ReadingEffect
<1>2. order' = order /\ fills' = fills /\ ends' = ends /\ reading' = Idle
  BY DEF ObserveReading, worldVars
<1>3. Sold(o)' = Sold(o)
  BY <1>2 DEF Sold, Had
<1>4. OwnOrder(o)'
  BY <1>1, <1>2, <1>3 DEF Own, OwnOrder
<1>5. OwnReports(o)'
  BY <1>1, <1>2, <1>3 DEF Own, OwnReports
<1>6. OwnListings(o, M, SL)'
  <2>1. ~InReading(o)'
    BY <1>2 DEF InReading
  <2>2. ASSUME NEW x \in Known(o)
        PROVE  Listed(x)' /\ sells[o].released > 0 /\ sells[o].released <= x.quantity + Had(M[x.by], o)
    <3>1. Listed(x) /\ sells[o].released > 0 /\ sells[o].released <= x.quantity + Had(L[x.by], o)
      BY <2>2 DEF Own, OwnListings
    <3> QED BY <3>1, OneMoreView DEF Listed
  <2>3. ASSUME InReading(o), NEW x, x = Stamped(o)
        PROVE  Listed(x)' /\ sells[o].released > 0 /\ sells[o].released <= x.quantity + Had(M[x.by], o)
    <3>1. /\ x.by = Len(views) + 1 /\ x.at = clock /\ x.quantity = reading.list.left[o]
      BY <2>3 DEF Stamped
    <3>2. Observed.lists /\ Observed.at = clock
      BY <2>3 DEF Observed, InReading
    <3>3. Listed(x)'
      BY <3>1, <3>2, OneMoreView DEF Listed
    <3> QED BY <2>3, <3>1, <3>3 DEF Own, OwnListings
  <2> QED BY <1>1, <2>1, <2>2, <2>3 DEF OwnListings, Had
<1>7. OwnViews(o, C, SB)'
  <2>1. reading'.phase # "positions"
    BY <1>2 DEF Idle
  <2>2. sells[o].since \in Nat /\ Len(views) \in Nat /\ sells[o].since <= Len(views)
    BY LedgerValues DEF Own, OwnViews, Sell
  <2>3. ASSUME NEW n \in DOMAIN views'
        PROVE  /\ sells[o].released = 0 => Had(C[n], o) = Sold(o)
               /\ sells[o].since >= n => Had(C[n], o) = 0
    <3>1. CASE n \in DOMAIN views
      BY <3>1 DEF Own, OwnViews
    <3>2. CASE n = Len(views) + 1
      BY <1>1, <2>2, <3>2 DEF Own, OwnViews
    <3> QED BY <3>1, <3>2, OneMoreView
  <2> QED BY <1>1, <1>3, <2>1, <2>2, <2>3, OneMoreView DEF OwnViews, Had
<1> QED BY <1>4, <1>5, <1>6, <1>7 DEF Own

LEMMA RestoreOwn ==
    ASSUME WorldTypes, LedgerTypes, RestoreRecovery, NEW o \in Ours,
           NEW L, NEW B, NEW RL, NEW RB, Own(o, L, B, RL, RB),
           NEW M, NEW C, NEW SL, NEW SB
    PROVE  Own(o, M, C, SL, SB)'
<1>1. /\ sells'[o].listings = {} /\ sells'[o].since = 0
      /\ \/ /\ sells'[o].released = sells[o].released /\ sells'[o].fills = sells[o].fills
            /\ sells'[o].ended = sells[o].ended /\ sells'[o].end = sells[o].end
         \/ /\ ~(Shares(sells[o].fills) < sells[o].released)
            /\ sells'[o].released = 0 /\ sells'[o].fills = {} /\ ~sells'[o].ended
  BY RestoreEffect
<1>2. /\ order' = order /\ fills' = fills /\ ends' = ends /\ reading' = Idle
      /\ views' = <<>> /\ unknown'[o] = <<>>
  BY DEF RestoreRecovery
<1>3. Sold(o)' = Sold(o) /\ Sold(o) \in Nat /\ sells[o].released \in Nat
  BY <1>2, SoldType, LedgerValues DEF Sold, Had
<1>4. order[o].left \in Nat
  BY LedgerAssumption, RuleAssumption DEF WorldTypes
<1>5. sells'[o].released = 0 => order[o].stage \notin {"sent", "working"}
  <2>1. CASE sells[o].released = 0
    BY <1>3, <1>4, <2>1 DEF Own, OwnOrder
  <2>2. CASE ~(Shares(sells[o].fills) < sells[o].released)
    <3>1. FillSet(OfOrder(fills, o)) /\ sells[o].fills \in SUBSET OfOrder(fills, o)
      BY HadFacts DEF Own, OwnReports
    <3>2. FillSet(sells[o].fills) /\ Qty(sells[o].fills) <= Sold(o)
      BY <3>1, FillsPart, QtyMonotone DEF Sold, Had
    <3>3. Shares(sells[o].fills) = Capped(Qty(sells[o].fills)) /\ Qty(sells[o].fills) \in Nat
      BY <3>2, QtyFacts
    <3>4. Shares(sells[o].fills) <= Sold(o)
      BY <1>3, <3>2, <3>3, RuleAssumption DEF Capped
    <3> QED BY <1>3, <1>4, <2>2, <3>3, <3>4, RuleAssumption DEF Own, OwnOrder, Capped
  <2> QED BY <1>1, <2>1, <2>2
<1>6. OwnOrder(o)'
  BY <1>1, <1>2, <1>3, <1>5 DEF Own, OwnOrder
<1>7. OwnReports(o)'
  BY <1>1, <1>2, <1>3 DEF Own, OwnReports
<1>8. OwnListings(o, M, SL)'
  <2>1. Known(o)' = {} /\ ~InReading(o)'
    BY <1>1, <1>2 DEF Known, InReading
  <2> QED BY <2>1 DEF OwnListings
<1>9. OwnViews(o, C, SB)'
  <2>1. DOMAIN views' = {} /\ Len(views') = 0 /\ reading'.phase # "positions"
    BY <1>2 DEF Idle
  <2> QED BY <1>1, <2>1 DEF OwnViews
<1> QED BY <1>6, <1>7, <1>8, <1>9 DEF Own

\* adapter/ibkr/snapshot.py reads the open orders.
LEMMA OrdersEffect ==
    ASSUME WorldTypes, ReadOrders
    PROVE  /\ reading = Idle /\ reading' # Idle /\ reading'.phase = "orders" /\ reading'.kind = "broker"
           /\ \A o \in Orders : InReading(o)' => order[o].stage = "working" /\ reading'.list.left[o] = remaining(o)
           /\ \A o \in Orders : reading'.list # None /\ order[o].stage = "working" => InReading(o)'
           /\ \A h \in Hands : listed'[h] = IF InReading(h)' THEN remaining(h) ELSE listed[h]
           /\ UNCHANGED <<clock, held, order, fills, ends, ledgerVars>>
<1> DEFINE working == {o \in Orders : order[o].stage = "working"}
           list(named) == [named |-> named, left |-> [o \in working |-> remaining(o)]]
<1>1. reading = Idle /\ UNCHANGED <<clock, held, order, fills, ends, ledgerVars>>
  BY DEF ReadOrders
<1>2. CASE reading' = [phase |-> "orders", kind |-> "broker", list |-> None] /\ UNCHANGED listed
  BY <1>1, <1>2 DEF InReading, Idle
<1>3. ASSUME NEW named \in BOOLEAN, reading' = [phase |-> "orders", kind |-> "broker", list |-> list(named)],
             listed' = [h \in Hands |-> IF h \in working THEN remaining(h) ELSE listed[h]]
      PROVE  /\ reading' # Idle /\ reading'.phase = "orders" /\ reading'.kind = "broker"
             /\ \A o \in Orders : InReading(o)' => order[o].stage = "working" /\ reading'.list.left[o] = remaining(o)
             /\ \A o \in Orders : reading'.list # None /\ order[o].stage = "working" => InReading(o)'
             /\ \A h \in Hands : listed'[h] = IF InReading(h)' THEN remaining(h) ELSE listed[h]
  <2>1. list(named) # None
    BY ListEffect
  <2>2. reading' # Idle /\ reading'.phase = "orders" /\ reading'.kind = "broker" /\ reading'.list = list(named)
    <3>1. reading'.phase = "orders" /\ reading'.kind = "broker" /\ reading'.list = list(named)
      BY <1>3
    <3> QED BY <3>1 DEF Idle
  <2>3. DOMAIN reading'.list.left = working /\ \A o \in working : reading'.list.left[o] = remaining(o)
    BY <2>2
  <2>4. \A o \in Orders : InReading(o)' <=> o \in working
    <3> HIDE DEF list
    <3> QED BY <2>1, <2>2, <2>3 DEF InReading
  <2> QED BY <1>3, <2>2, <2>3, <2>4
<1>4. \/ reading' = [phase |-> "orders", kind |-> "broker", list |-> None] /\ UNCHANGED listed
      \/ \E named \in BOOLEAN : /\ reading' = [phase |-> "orders", kind |-> "broker", list |-> list(named)]
                                /\ listed' = [h \in Hands |-> IF h \in working THEN remaining(h) ELSE listed[h]]
  BY DEF ReadOrders
<1> QED BY <1>1, <1>2, <1>3, <1>4

LEMMA ReadOrdersOwn ==
    ASSUME WorldTypes, LedgerTypes, ReadOrders, NEW o \in Ours,
           NEW L, NEW B, NEW RL, NEW RB, Own(o, L, B, RL, RB),
           NEW SL, SL = fills, NEW SB
    PROVE  Own(o, L, B, SL, SB)'
<1>1. /\ reading'.phase = "orders"
      /\ InReading(o)' => order[o].stage = "working" /\ reading'.list.left[o] = remaining(o)
      /\ UNCHANGED <<order, fills, ends, ledgerVars>>
  BY OrdersEffect
<1>2. /\ Sold(o)' = Sold(o) /\ Had(SL, o) = Sold(o) /\ Sold(o) \in Nat
      /\ order[o].left \in Nat /\ remaining(o) \in Nat /\ order[o].left <= remaining(o)
  BY <1>1, SoldType, RemainingFacts, RuleAssumption DEF Sold, Had
<1>3. OwnOrder(o)'
  BY <1>1, <1>2 DEF Own, OwnOrder, ledgerVars
<1>4. OwnReports(o)'
  BY <1>1, <1>2 DEF Own, OwnReports, ledgerVars
<1>5. OwnListings(o, L, SL)'
  <2>1. InReading(o)' => sells'[o].released > 0 /\ sells'[o].released <= reading'.list.left[o] + Had(SL, o)
    BY <1>1, <1>2 DEF Own, OwnOrder, ledgerVars
  <2> QED BY <1>1, <2>1 DEF Own, OwnListings, Known, Listed, Had, ledgerVars
<1>6. OwnViews(o, B, SB)'
  BY <1>1, <1>2 DEF Own, OwnViews, Had, ledgerVars
<1> QED BY <1>3, <1>4, <1>5, <1>6 DEF Own

\* And the positions.
LEMMA PositionsEffect ==
    ASSUME WorldTypes, ReadPositions
    PROVE  /\ reading' # Idle /\ reading'.phase = "positions" /\ reading'.held \in {held, None}
           /\ \/ reading = Idle /\ reading'.list = None
              \/ reading # Idle /\ reading.phase = "orders" /\ reading'.list = reading.list
           /\ \A o : InReading(o)' <=> InReading(o)
           /\ UNCHANGED <<worldVars, ledgerVars>>
<1>1. UNCHANGED <<worldVars, ledgerVars>>
  BY DEF ReadPositions
<1>2. CASE reading = Idle /\ reading' = [phase |-> "positions", kind |-> "account", list |-> None, held |-> held]
  BY <1>1, <1>2 DEF InReading, Idle
<1>3. ASSUME reading.phase = "orders", NEW n \in {held, None},
             reading' = [phase |-> "positions", kind |-> "broker", list |-> reading.list, held |-> n]
      PROVE  /\ reading' # Idle /\ reading'.phase = "positions" /\ reading'.held \in {held, None}
             /\ reading # Idle /\ reading'.list = reading.list
             /\ \A o : InReading(o)' <=> InReading(o)
  BY <1>3 DEF InReading, Idle
<1> QED BY <1>1, <1>2, <1>3 DEF ReadPositions

LEMMA ReadPositionsOwn ==
    ASSUME WorldTypes, LedgerTypes, ReadPositions, NEW o \in Ours,
           NEW L, NEW B, NEW RL, NEW RB, Own(o, L, B, RL, RB),
           NEW SL, reading # Idle => SL = RL, NEW SB, SB = fills
    PROVE  Own(o, L, B, SL, SB)'
<1>1. /\ InReading(o)' <=> InReading(o)
      /\ \/ reading = Idle /\ reading'.list = None
         \/ reading # Idle /\ reading'.list = reading.list
      /\ UNCHANGED <<order, fills, ends, ledgerVars>>
  BY PositionsEffect DEF worldVars
<1>2. Sold(o)' = Sold(o) /\ Had(SB, o) = Sold(o)
  BY <1>1 DEF Sold, Had
<1>3. OwnOrder(o)'
  BY <1>1, <1>2 DEF Own, OwnOrder, ledgerVars
<1>4. OwnReports(o)'
  BY <1>1, <1>2 DEF Own, OwnReports, ledgerVars
<1>5. OwnListings(o, L, SL)'
  <2>1. InReading(o)' => sells'[o].released > 0 /\ sells'[o].released <= reading'.list.left[o] + Had(SL, o)
    BY <1>1 DEF Own, OwnListings, InReading, ledgerVars
  <2> QED BY <1>1, <2>1 DEF Own, OwnListings, Known, Listed, Had, ledgerVars
<1>6. OwnViews(o, B, SB)'
  BY <1>1, <1>2 DEF Own, OwnViews, Had, ledgerVars
<1> QED BY <1>3, <1>4, <1>5, <1>6 DEF Own

----------------------------------------------------------------------------
(* The owner's sells, step by step. *)

LEMMA HandValues ==
    ASSUME WorldTypes, LedgerTypes, NEW h \in Hands
    PROVE  /\ Sold(h) \in Nat /\ order[h].left \in Nat /\ LeftListed(h) \in Nat /\ None \notin Nat
           /\ unknown[h] \in Seq(Listing) /\ Len(unknown[h]) \in Nat /\ DOMAIN unknown[h] = 1..Len(unknown[h])
           /\ \A i \in DOMAIN unknown[h] : unknown[h][i].quantity \in Nat /\ unknown[h][i].by \in Nat
           /\ InReading(h) => reading.list.left[h] \in Nat
<1>1. Sold(h) \in Nat /\ order[h].left \in Nat /\ None \notin Nat
  BY SoldType, LedgerAssumption, RuleAssumption DEF WorldTypes
<1>2. unknown[h] \in Seq(Listing)
  BY DEF LedgerTypes
<1>3. \A x \in Listing : x.quantity \in Nat /\ x.by \in Nat
  BY RuleAssumption DEF Listing
<1>4. InReading(h) => reading.list.left[h] \in Nat
  <2>1. \A x \in Lists : \A o \in DOMAIN x.left : x.left[o] \in Nat
    BY RuleAssumption DEF Lists
  <2>2. InReading(h) => reading.list \in Lists
    BY DEF InReading, WorldTypes, Readings
  <2> QED BY <2>1, <2>2 DEF InReading
<1> QED BY <1>1, <1>2, <1>3, <1>4 DEF LeftListed

LEMMA HandHad ==
    ASSUME WorldTypes, LedgerTypes, NEW h \in Hands,
           NEW L \in [DOMAIN views -> SUBSET fills], NEW RL \in SUBSET fills, Hand(h, L, RL)
    PROVE  /\ \A n \in DOMAIN views : Had(L[n], h) \in Nat
           /\ \A i \in DOMAIN unknown[h] : Had(L[unknown[h][i].by], h) \in Nat
           /\ Had(RL, h) \in Nat
<1>1. \A n \in DOMAIN views : Had(L[n], h) \in Nat
  BY HadFacts
<1> QED BY <1>1, HadFacts DEF Hand, HandListings, Listed

LEMMA HandUnmoved ==
    ASSUME NEW h \in Hands, NEW L, NEW RL, Hand(h, L, RL),
           order'[h] = order[h], OfOrder(fills', h) = OfOrder(fills, h), listed'[h] = listed[h],
           unknown'[h] = unknown[h], views' = views, reading' = reading
    PROVE  Hand(h, L, RL)'
<1>1. /\ Sold(h)' = Sold(h) /\ LeftListed(h)' = LeftListed(h) /\ InReading(h)' = InReading(h)
  BY DEF Sold, Had, LeftListed, InReading
<1>2. EverListed(h)' = EverListed(h) /\ LastListed(h)' = LastListed(h)
  BY <1>1 DEF EverListed, LastListed
<1>3. HandOrder(h)'
  BY <1>1, <1>2 DEF Hand, HandOrder, remaining
<1>4. HandListings(h, L, RL)'
  BY <1>1 DEF Hand, HandListings, Falling, Listed, Had
<1>5. HandViews(h, L, RL)'
  BY <1>1, <1>2 DEF Hand, HandViews, Had
<1> QED BY <1>3, <1>4, <1>5 DEF Hand

LEMMA FillHand ==
    ASSUME WorldTypes, LedgerTypes, Executed, NEW h \in Hands, NEW q \in 1..Start, Fill(h, q),
           NEW L, NEW RL, Hand(h, L, RL)
    PROVE  Hand(h, L, RL)'
<1>1. Sold(h)' = Sold(h) + q
  BY ExecutedOnce
<1>2. /\ order[h].stage = "working" /\ order'[h].stage = (IF q = order[h].left THEN "over" ELSE "working")
      /\ order'[h].left = order[h].left - q /\ q <= order[h].left
      /\ listed[h] = None => views = <<>> /\ reading = Idle
      /\ UNCHANGED <<listed, readVars, ledgerVars>>
  BY DEF Fill, WorldTypes, Seen
<1>3. listed' = listed /\ reading' = reading /\ views' = views /\ unknown' = unknown
  BY <1>2 DEF readVars, ledgerVars
<1>4. InReading(h)' = InReading(h) /\ EverListed(h)' = EverListed(h) /\ LastListed(h)' = LastListed(h)
  BY <1>3 DEF InReading, EverListed, LastListed
<1>5. listed[h] = None => DOMAIN views = {} /\ unknown[h] = <<>> /\ ~EverListed(h)
  <2>1. listed[h] = None => DOMAIN views = {} /\ reading = Idle
    BY <1>2
  <2>2. DOMAIN views = {} => DOMAIN unknown[h] = {}
    BY DEF Hand, HandListings, Listed
  <2> QED BY <2>1, <2>2, HandValues DEF EverListed, InReading
<1>6. listed[h] # None => Sold(h)' + LeftListed(h)' = Sold(h) + LeftListed(h)
  BY <1>1, <1>2, <1>3, HandValues DEF LeftListed
<1>7. HandOrder(h)'
  BY <1>2, <1>3, <1>4, <1>5, HandValues DEF Hand, HandOrder
<1>8. HandListings(h, L, RL)'
  <2>1. CASE listed[h] = None
    BY <1>2, <1>3, <1>4, <1>5, <2>1 DEF HandListings, EverListed
  <2>2. CASE listed[h] # None
    BY <1>3, <1>4, <1>6, <2>2 DEF Hand, HandListings, Falling, Listed, Had
  <2> QED BY <2>1, <2>2
<1>9. HandViews(h, L, RL)'
  <2>1. ~EverListed(h)' => DOMAIN views' = {} /\ reading' = Idle
    BY <1>2, <1>3, <1>4 DEF Hand, HandOrder
  <2>2. /\ \A n \in DOMAIN views :
            ~(/\ views[n].lists
              /\ \E i \in DOMAIN unknown[h] : unknown[h][i].by < n
              /\ \A i \in DOMAIN unknown[h] : unknown[h][i].by # n)
        /\ ~(reading # Idle /\ reading.list # None /\ unknown[h] # <<>> /\ ~InReading(h))
    BY <1>2 DEF Hand, HandViews
  <2> QED BY <1>3, <1>4, <2>1, <2>2 DEF HandViews
<1> QED BY <1>7, <1>8, <1>9 DEF Hand

LEMMA CancelHand ==
    ASSUME WorldTypes, LedgerTypes, NEW h \in Hands, Cancel(h),
           NEW L \in [DOMAIN views -> SUBSET fills], NEW RL \in SUBSET fills, Hand(h, L, RL)
    PROVE  Hand(h, L, RL)'
<1>1. /\ order[h].stage = "working" /\ order'[h].stage = "over" /\ order'[h].left = 0
      /\ fills' = fills /\ listed' = listed /\ reading' = reading /\ views' = views /\ unknown' = unknown
  BY DEF Cancel, WorldTypes, readVars, ledgerVars
<1>2. /\ Sold(h)' = Sold(h) /\ LeftListed(h)' = 0 /\ InReading(h)' = InReading(h)
      /\ EverListed(h)' = EverListed(h) /\ LastListed(h)' = LastListed(h)
  BY <1>1 DEF Sold, Had, LeftListed, InReading, EverListed, LastListed
<1>3. HandOrder(h)'
  BY <1>1, <1>2 DEF Hand, HandOrder
<1>4. HandListings(h, L, RL)'
  <2>1. ASSUME NEW n \in Int, NEW m \in Int, Sold(h) + LeftListed(h) <= n + m
        PROVE  Sold(h)' + LeftListed(h)' <= n + m
    BY <1>2, <2>1, HandValues
  <2>2. ASSUME NEW i \in DOMAIN unknown[h], Falling(h, i)'
        PROVE  Sold(h)' + LeftListed(h)' <= unknown[h][i].quantity + Had(L[unknown[h][i].by], h)
    <3>1. Sold(h) + LeftListed(h) <= unknown[h][i].quantity + Had(L[unknown[h][i].by], h)
      BY <1>1, <1>2, <2>2 DEF Hand, HandListings, Falling
    <3>2. unknown[h][i].quantity \in Int /\ Had(L[unknown[h][i].by], h) \in Int
      BY HandHad, HandValues
    <3> QED BY <2>1, <3>1, <3>2
  <2>3. InReading(h) => Sold(h)' + LeftListed(h)' <= reading.list.left[h] + Had(RL, h)
    BY <2>1, HandHad, HandValues, SMTT(60) DEF Hand, HandListings
  <2> QED BY <1>1, <1>2, <2>2, <2>3 DEF Hand, HandListings, Listed, Had
<1>5. HandViews(h, L, RL)'
  BY <1>1, <1>2 DEF Hand, HandViews, Had
<1> QED BY <1>3, <1>4, <1>5 DEF Hand

LEMMA PlaceHand ==
    ASSUME WorldTypes, LedgerTypes, NEW h \in Hands, NEW q \in HandSizes, PlaceByHand(h, q),
           NEW L \in [DOMAIN views -> SUBSET fills], NEW RL \in SUBSET fills, Hand(h, L, RL)
    PROVE  Hand(h, L, RL)'
<1>1. /\ order[h].stage = "none" /\ order'[h].stage = "working" /\ order'[h].left = q
      /\ fills' = fills /\ listed' = listed /\ reading' = reading /\ views' = views /\ unknown' = unknown
  BY DEF PlaceByHand, WorldTypes, readVars, ledgerVars
<1>2. ~EverListed(h) /\ listed[h] = None
  BY <1>1 DEF Hand, HandOrder
<1>3. /\ Sold(h)' = Sold(h) /\ InReading(h)' = InReading(h) /\ EverListed(h)' = EverListed(h)
  BY <1>1 DEF Sold, Had, InReading, EverListed
<1>4. HandOrder(h)'
  BY <1>1, <1>2, <1>3 DEF HandOrder
<1>5. HandListings(h, L, RL)'
  BY <1>1, <1>2, <1>3 DEF HandListings, EverListed
<1>6. HandViews(h, L, RL)'
  BY <1>1, <1>2, <1>3 DEF Hand, HandViews, EverListed, Had
<1> QED BY <1>4, <1>5, <1>6 DEF Hand

LEMMA RaiseHand ==
    ASSUME WorldTypes, LedgerTypes, NEW h \in Hands, RaiseByHand(h),
           NEW L \in [DOMAIN views -> SUBSET fills], NEW RL \in SUBSET fills, Hand(h, L, RL)
    PROVE  Hand(h, L, RL)'
<1>1. /\ order[h].stage = "working" /\ order'[h].stage = "working"
      /\ listed[h] \in {remaining(h), None} /\ listed'[h] = None
      /\ fills' = fills /\ reading' = reading /\ views' = views /\ unknown' = unknown
  BY DEF RaiseByHand, WorldTypes, readVars, ledgerVars
<1>r. remaining(h) \in Nat /\ remaining(h)' \in Nat /\ remaining(h) < remaining(h)'
  <2> DEFINE rise == Max(HandSizes) - order[h].total
  <2>1. /\ order[h].total < Max(HandSizes)
        /\ order' = [order EXCEPT ![h].left = @ + rise, ![h].total = @ + rise]
    BY DEF RaiseByHand
  <2>2. order[h] \in [stage : {"none", "sent", "working", "over"}, left : 0..Top, total : 0..Top]
    BY DEF WorldTypes
  <2>3. Max(HandSizes) \in Nat
    <3>1. HandSizes \in SUBSET Int /\ Top \in Int /\ \A x \in HandSizes : x <= Top /\ x \in Nat
      BY LedgerAssumption, RuleAssumption
    <3>2. Max(HandSizes) \in HandSizes
      BY <3>1, LedgerAssumption, RuleAssumption, MaxFacts
    <3> QED BY <3>1, <3>2
  <2>4. order'[h].left = order[h].left + rise /\ order'[h].total = order[h].total + rise
    BY <2>1 DEF WorldTypes
  <2>5. order[h].left \in Nat /\ order[h].total \in Nat
    BY <2>2, RuleAssumption
  <2>6. rise \in Nat /\ rise > 0
    BY <2>1, <2>3, <2>5
  <2> HIDE DEF rise
  <2> QED BY <2>4, <2>5, <2>6 DEF remaining
<1>2. /\ Sold(h)' = Sold(h) /\ LeftListed(h)' = 0 /\ InReading(h)' = InReading(h)
      /\ EverListed(h)' = EverListed(h) /\ LastListed(h)' = LastListed(h)
  BY <1>1 DEF Sold, Had, LeftListed, InReading, EverListed, LastListed
<1>3. HandOrder(h)'
  <2>2. EverListed(h) => LastListed(h) \in Nat
    BY HandValues DEF EverListed, LastListed
  <2>3. EverListed(h) => remaining(h)' > LastListed(h)
    BY <1>1, <1>r, <2>2, HandValues DEF Hand, HandOrder
  <2> QED BY <1>1, <1>2, <2>3 DEF Hand, HandOrder
<1>4. HandListings(h, L, RL)'
  <2>1. ASSUME NEW n \in Int, NEW m \in Int, Sold(h) + LeftListed(h) <= n + m
        PROVE  Sold(h)' + LeftListed(h)' <= n + m
    BY <1>2, <2>1, HandValues
  <2>2. ASSUME NEW i \in DOMAIN unknown[h], Falling(h, i)'
        PROVE  Sold(h)' + LeftListed(h)' <= unknown[h][i].quantity + Had(L[unknown[h][i].by], h)
    <3>1. Sold(h) + LeftListed(h) <= unknown[h][i].quantity + Had(L[unknown[h][i].by], h)
      BY <1>1, <1>2, <2>2 DEF Hand, HandListings, Falling
    <3>2. unknown[h][i].quantity \in Int /\ Had(L[unknown[h][i].by], h) \in Int
      BY HandHad, HandValues
    <3> QED BY <2>1, <3>1, <3>2
  <2>3. InReading(h) => Sold(h)' + LeftListed(h)' <= reading.list.left[h] + Had(RL, h)
    BY <2>1, HandHad, HandValues, SMTT(60) DEF Hand, HandListings
  <2> QED BY <1>1, <1>2, <2>2, <2>3 DEF Hand, HandListings, Listed, Had
<1>5. HandViews(h, L, RL)'
  BY <1>1, <1>2 DEF Hand, HandViews, Had
<1> QED BY <1>3, <1>4, <1>5 DEF Hand

LEMMA RestoreHand ==
    ASSUME WorldTypes, LedgerTypes, RestoreRecovery, NEW h \in Hands, NEW L, NEW RL, Hand(h, L, RL), NEW M, NEW SL
    PROVE  Hand(h, M, SL)'
<1>1. /\ order' = order /\ fills' = fills /\ listed'[h] = None /\ reading' = Idle
      /\ views' = <<>> /\ unknown'[h] = <<>>
  BY DEF RestoreRecovery
<1>2. Sold(h)' = Sold(h) /\ ~InReading(h)' /\ ~EverListed(h)'
  BY <1>1 DEF Sold, Had, InReading, EverListed
<1>3. HandOrder(h)'
  BY <1>1, <1>2 DEF Hand, HandOrder
<1>4. HandListings(h, M, SL)' /\ HandViews(h, M, SL)'
  BY <1>1, <1>2 DEF HandListings, HandViews
<1> QED BY <1>3, <1>4 DEF Hand

LEMMA ReadOrdersHand ==
    ASSUME WorldTypes, LedgerTypes, ReadOrders, NEW h \in Hands,
           NEW L \in [DOMAIN views -> SUBSET fills], NEW RL \in SUBSET fills, Hand(h, L, RL),
           NEW SL, SL = fills
    PROVE  Hand(h, L, SL)'
<1>1. /\ reading = Idle /\ reading' # Idle
      /\ InReading(h)' => order[h].stage = "working" /\ reading'.list.left[h] = remaining(h)
      /\ reading'.list # None /\ order[h].stage = "working" => InReading(h)'
      /\ listed'[h] = IF InReading(h)' THEN remaining(h) ELSE listed[h]
      /\ order' = order /\ fills' = fills /\ views' = views /\ unknown' = unknown
  BY OrdersEffect DEF ledgerVars
<1>2. /\ Sold(h)' = Sold(h) /\ Had(SL, h) = Sold(h) /\ ~InReading(h)
      /\ EverListed(h) <=> unknown[h] # <<>>
      /\ LastListed(h) = unknown[h][Len(unknown[h])].quantity
  BY <1>1 DEF Sold, Had, InReading, EverListed, LastListed
<1>r. remaining(h) \in Nat /\ order[h].left \in Nat /\ order[h].left <= remaining(h) /\ remaining(h)' = remaining(h)
  BY <1>1, RemainingFacts, RuleAssumption DEF remaining
<1>3. CASE InReading(h)'
  <2>1. EverListed(h)' /\ LastListed(h)' = remaining(h) /\ listed'[h] = remaining(h) /\ LeftListed(h)' = order[h].left
    BY <1>1, <1>3, <1>r, HandValues DEF EverListed, LastListed, LeftListed
  <2>2. HandOrder(h)'
    BY <1>1, <1>3, <1>r, <2>1, HandValues DEF Hand, HandOrder
  <2>3. ASSUME NEW i \in DOMAIN unknown[h], Falling(h, i)'
        PROVE  Sold(h) + order[h].left <= unknown[h][i].quantity + Had(L[unknown[h][i].by], h)
    <3>1. Falling(h, i) /\ remaining(h) <= unknown[h][Len(unknown[h])].quantity
      BY <1>1, <1>2, <1>3, <2>3 DEF Falling
    <3>2. listed[h] # None
      <4>1. EverListed(h) /\ LastListed(h) \in Nat
        BY <1>2, HandValues, <2>3
      <4> QED BY <1>1, <1>2, <1>3, <1>r, <3>1, <4>1, HandValues DEF Hand, HandOrder
    <3> QED BY <3>1, <3>2 DEF Hand, HandListings, LeftListed
  <2>4. HandListings(h, L, SL)'
    <3>1. Sold(h)' + LeftListed(h)' <= reading'.list.left[h] + Had(SL, h)
      BY <1>1, <1>2, <1>3, <1>r, <2>1, HandValues
    <3> QED BY <1>1, <1>2, <2>1, <2>3, <3>1 DEF Hand, HandListings, Listed, Had
  <2>5. HandViews(h, L, SL)'
    BY <1>1, <1>2, <1>3, <2>1 DEF Hand, HandViews, Had
  <2> QED BY <2>2, <2>4, <2>5 DEF Hand
<1>4. CASE ~InReading(h)'
  <2>1. /\ EverListed(h)' = EverListed(h) /\ listed'[h] = listed[h] /\ LeftListed(h)' = LeftListed(h)
        /\ LastListed(h)' = LastListed(h)
    BY <1>1, <1>2, <1>4 DEF EverListed, LeftListed, LastListed
  <2>2. HandOrder(h)'
    BY <1>1, <1>2, <1>r, <2>1 DEF Hand, HandOrder
  <2>3. HandListings(h, L, SL)'
    BY <1>1, <1>2, <1>4, <2>1 DEF Hand, HandListings, Falling, Listed, Had
  <2>4. reading'.list # None /\ unknown[h] # <<>> => order[h].stage = "over"
    BY <1>1, <1>2, <1>4 DEF Hand, HandOrder
  <2>5. HandViews(h, L, SL)'
    BY <1>1, <1>2, <1>4, <2>1, <2>4 DEF Hand, HandViews, Had
  <2> QED BY <2>2, <2>3, <2>5 DEF Hand
<1> QED BY <1>3, <1>4

LEMMA ReadPositionsHand ==
    ASSUME WorldTypes, LedgerTypes, ReadPositions, NEW h \in Hands, NEW L, NEW RL, Hand(h, L, RL),
           NEW SL, SL = IF reading = Idle THEN fills ELSE RL
    PROVE  Hand(h, L, SL)'
<1>1. /\ InReading(h)' <=> InReading(h)
      /\ \/ reading = Idle /\ reading'.list = None
         \/ reading # Idle /\ reading'.list = reading.list
      /\ order' = order /\ fills' = fills /\ listed' = listed /\ views' = views /\ unknown' = unknown
  BY PositionsEffect DEF worldVars, ledgerVars
<1>2. /\ Sold(h)' = Sold(h) /\ LeftListed(h)' = LeftListed(h)
      /\ InReading(h) => reading'.list = reading.list /\ SL = RL
      /\ reading = Idle => Had(SL, h) = Sold(h)
  BY <1>1 DEF Sold, Had, LeftListed, InReading
<1>3. EverListed(h)' = EverListed(h) /\ LastListed(h)' = LastListed(h)
  BY <1>1, <1>2 DEF EverListed, LastListed
<1>4. HandOrder(h)'
  BY <1>1, <1>2, <1>3 DEF Hand, HandOrder, remaining
<1>5. HandListings(h, L, SL)'
  BY <1>1, <1>2 DEF Hand, HandListings, Falling, Listed, Had
<1>6. HandViews(h, L, SL)'
  BY <1>1, <1>2, <1>3 DEF Hand, HandViews, Had
<1> QED BY <1>4, <1>5, <1>6 DEF Hand

LEMMA ReadingHand ==
    ASSUME WorldTypes, LedgerTypes, ObserveReading, NEW h \in Hands,
           NEW L \in [DOMAIN views -> SUBSET fills], NEW RL \in SUBSET fills, Hand(h, L, RL),
           NEW M, \A n \in DOMAIN views : M[n] = L[n], M[Len(views) + 1] = RL, NEW SL
    PROVE  Hand(h, M, SL)'
<1> DEFINE u == unknown[h]
           last == Len(views) + 1
<1>1. /\ unknown'[h] = IF InReading(h) THEN Append(u, Stamped(h)) ELSE u
      /\ reading.phase = "positions" /\ reading # Idle /\ Len(views) \in Nat
  BY ReadingEffect, LedgerValues
<1>2. order' = order /\ fills' = fills /\ listed' = listed /\ reading' = Idle
  BY DEF ObserveReading, worldVars
<1>3. /\ Sold(h)' = Sold(h) /\ LeftListed(h)' = LeftListed(h) /\ ~InReading(h)'
  BY <1>2 DEF Sold, Had, LeftListed, InReading
<1>4. /\ u \in Seq(Listing) /\ Len(u) \in Nat /\ DOMAIN u = 1..Len(u)
      /\ Stamped(h).by = last /\ Stamped(h).at = clock /\ Stamped(h).quantity = reading.list.left[h]
      /\ \A i \in DOMAIN u : u[i].by \in DOMAIN views /\ u[i].by < last /\ u[i].by # last
  <2>1. \A i \in DOMAIN u : u[i].by \in DOMAIN views
    BY DEF Hand, HandListings, Listed
  <2> QED BY <2>1, HandValues, OneMoreView DEF Stamped
<1>5. /\ DOMAIN u \subseteq DOMAIN unknown'[h] /\ \A i \in DOMAIN u : unknown'[h][i] = u[i]
      /\ \A i \in DOMAIN unknown'[h] :
             \/ i \in DOMAIN u
             \/ InReading(h) /\ i = Len(u) + 1 /\ unknown'[h][i] = Stamped(h) /\ \A j \in DOMAIN u : j < i
      /\ InReading(h) => /\ Len(unknown'[h]) = Len(u) + 1 /\ Len(u) + 1 \in DOMAIN unknown'[h]
                         /\ unknown'[h][Len(u) + 1] = Stamped(h)
  <2>1. CASE InReading(h)
    <3>1. unknown'[h] = Append(u, Stamped(h))
      BY <1>1, <2>1
    <3>2. /\ Len(unknown'[h]) = Len(u) + 1 /\ DOMAIN unknown'[h] = 1..(Len(u) + 1)
          /\ unknown'[h][Len(u) + 1] = Stamped(h) /\ \A i \in 1..Len(u) : unknown'[h][i] = u[i]
      BY <3>1, <1>4
    <3> QED BY <1>4, <2>1, <3>2
  <2>2. CASE ~InReading(h)
    BY <1>1, <2>2
  <2> QED BY <2>1, <2>2
<1>6. EverListed(h)' = EverListed(h) /\ (EverListed(h) => LastListed(h)' = LastListed(h))
  <2>1. CASE InReading(h)
    <3>1. unknown'[h] # <<>>
      BY <1>5, <2>1
    <3> QED BY <1>3, <1>4, <1>5, <2>1, <3>1 DEF EverListed, LastListed
  <2>2. CASE ~InReading(h)
    BY <1>1, <1>3, <2>2 DEF EverListed, LastListed
  <2> QED BY <2>1, <2>2
<1>7. HandOrder(h)'
  BY <1>2, <1>3, <1>6 DEF Hand, HandOrder, remaining
<1> HIDE DEF u, last
<1>8. HandListings(h, M, SL)'
  <2>1. ASSUME NEW i \in DOMAIN unknown'[h]
        PROVE  Listed(unknown[h][i])'
    <3>1. CASE i \in DOMAIN u
      <4>1. Listed(u[i])
        BY <3>1 DEF Hand, HandListings, u
      <4> QED BY <1>5, <3>1, <4>1, OneMoreView DEF Listed
    <3>2. CASE InReading(h) /\ unknown'[h][i] = Stamped(h)
      <4>1. Observed.lists /\ Observed.at = clock
        BY <3>2 DEF Observed, InReading
      <4> QED BY <1>4, <3>2, <4>1, OneMoreView DEF Listed, last
    <3> QED BY <1>5, <3>1, <3>2
  <2>2. ASSUME NEW i \in DOMAIN unknown'[h], NEW j \in DOMAIN unknown'[h], i < j
        PROVE  unknown'[h][i].by < unknown'[h][j].by
    <3>1. CASE j \in DOMAIN u
      <4>1. i \in DOMAIN u
        BY <1>4, <1>5, <2>2, <3>1
      <4> QED BY <1>5, <2>2, <3>1, <4>1 DEF Hand, HandListings, u
    <3>2. CASE j = Len(u) + 1 /\ unknown'[h][j] = Stamped(h)
      <4>1. i \in DOMAIN u
        BY <1>4, <1>5, <2>2, <3>2
      <4> QED BY <1>4, <1>5, <3>2, <4>1
    <3> QED BY <1>5, <3>1, <3>2
  <2>3. ASSUME NEW i \in DOMAIN unknown'[h], Falling(h, i)'
        PROVE  Sold(h) + LeftListed(h) <= unknown'[h][i].quantity + Had(M[unknown'[h][i].by], h)
    <3>1. CASE i \in DOMAIN u
      <4>1. ASSUME NEW j \in DOMAIN u, i < j PROVE u[j].quantity <= u[j - 1].quantity
        <5>1. j - 1 \in DOMAIN u /\ j \in DOMAIN unknown'[h]
          BY <1>4, <1>5, <3>1, <4>1
        <5>2. unknown'[h][j].quantity <= unknown'[h][j - 1].quantity
          BY <2>3, <4>1, <5>1 DEF Falling
        <5> QED BY <1>5, <4>1, <5>1, <5>2
      <4>2. InReading(h) => reading.list.left[h] <= u[Len(u)].quantity
        <5>1. ASSUME InReading(h) PROVE i < Len(u) + 1 /\ Len(u) \in DOMAIN u /\ Len(u) + 1 - 1 = Len(u)
          BY <1>4, <3>1
        <5>2. InReading(h) => unknown'[h][Len(u) + 1].quantity <= unknown'[h][Len(u) + 1 - 1].quantity
          BY <1>5, <2>3, <5>1 DEF Falling
        <5> QED BY <1>4, <1>5, <5>1, <5>2
      <4>3. Falling(h, i)
        BY <4>1, <4>2 DEF Falling, u
      <4>4. Sold(h) + LeftListed(h) <= u[i].quantity + Had(L[u[i].by], h)
        BY <3>1, <4>3 DEF Hand, HandListings, u
      <4> QED BY <1>4, <1>5, <3>1, <4>4
    <3>2. CASE InReading(h) /\ unknown'[h][i] = Stamped(h)
      BY <1>4, <3>2 DEF Hand, HandListings, last
    <3> QED BY <1>5, <3>1, <3>2
  <2> QED BY <1>3, <2>1, <2>2, <2>3 DEF HandListings, Had
<1>9. HandViews(h, M, SL)'
  <2>1. ~EverListed(h) => \A n \in DOMAIN views' : Had(M[n], h) = Sold(h)
    BY <1>1, OneMoreView DEF Hand, HandViews
  <2>2. ASSUME NEW n \in DOMAIN views', views'[n].lists,
               NEW k \in DOMAIN unknown'[h], unknown'[h][k].by < n,
               \A i \in DOMAIN unknown'[h] : unknown'[h][i].by # n
        PROVE  order[h].stage = "over" /\ Had(M[n], h) = Sold(h)
    <3>n. n \in Nat /\ n <= last /\ (n \in DOMAIN views \/ n = last)
      BY OneMoreView, <1>1 DEF last
    <3>1. k \in DOMAIN u /\ u[k].by < n
      <4>1. k \notin DOMAIN u => unknown'[h][k].by = last
        BY <1>4, <1>5
      <4>2. k \in DOMAIN u
        BY <2>2, <3>n, <4>1, <1>1 DEF last
      <4> QED BY <1>5, <2>2, <4>2
    <3>2. CASE n \in DOMAIN views
      <4>1. views[n].lists /\ \A i \in DOMAIN u : u[i].by # n
        BY <1>5, <2>2, <3>2, OneMoreView
      <4> QED BY <3>1, <3>2, <4>1 DEF Hand, HandViews, u
    <3>3. CASE n = last
      <4>1. reading.list # None
        <5>1. Observed.lists
          BY <2>2, <3>3, OneMoreView DEF last
        <5> QED BY <5>1 DEF Observed
      <4>2. ~InReading(h)
        BY <1>4, <1>5, <2>2, <3>3
      <4>3. unknown[h] # <<>>
        BY <3>1 DEF u
      <4> QED BY <1>1, <3>3, <4>1, <4>2, <4>3 DEF Hand, HandViews, last
    <3> QED BY <3>n, <3>2, <3>3
  <2> QED BY <1>2, <1>3, <1>6, <2>1, <2>2 DEF HandViews, Had
<1> QED BY <1>7, <1>8, <1>9 DEF Hand

----------------------------------------------------------------------------
(* The history, step by step. *)

\* A function of the snapshots with one more.
OneMore(F, X) == [n \in 1..(Len(views) + 1) |-> IF n \in DOMAIN views THEN F[n] ELSE X]

LEMMA OneMoreFacts ==
    ASSUME WorldTypes, LedgerTypes, ObserveReading, NEW F \in [DOMAIN views -> SUBSET fills], NEW X \in SUBSET fills,
           NEW G, G = OneMore(F, X)
    PROVE  /\ \A n \in DOMAIN views : G[n] = F[n]
           /\ G[Len(views) + 1] = X
           /\ G \in [DOMAIN views' -> SUBSET fills']
<1>1. fills' = fills
  BY DEF ObserveReading, worldVars
<1>2. DOMAIN views' = 1..(Len(views) + 1) /\ Len(views) + 1 \in 1..(Len(views) + 1) /\ Len(views) + 1 \notin DOMAIN views
      /\ \A n \in DOMAIN views : n \in 1..(Len(views) + 1)
  BY OneMoreView, LedgerValues
<1> QED BY <1>1, <1>2 DEF OneMore

LEMMA ReadingShown ==
    ASSUME WorldTypes, LedgerTypes, Executed, ObserveReading,
           NEW L \in [DOMAIN views -> SUBSET fills], NEW B \in [DOMAIN views -> SUBSET fills],
           NEW RL \in SUBSET fills, NEW RB \in SUBSET fills, Shown(L, B), UnderWay(RL, RB),
           NEW M, M = OneMore(L, RL), NEW C, C = OneMore(B, RB)
    PROVE  Shown(M, C)'
<1>1. /\ \A n \in DOMAIN views : M[n] = L[n] /\ C[n] = B[n]
      /\ M[Len(views) + 1] = RL /\ C[Len(views) + 1] = RB
      /\ M \in [DOMAIN views' -> SUBSET fills'] /\ C \in [DOMAIN views' -> SUBSET fills']
  BY OneMoreFacts
<1>2. fills' = fills /\ clock' = clock /\ clock \in Nat
  BY LedgerAssumption DEF ObserveReading, worldVars, WorldTypes
<1>3. /\ Observed.at = clock /\ Observed.held = reading.held
      /\ Observed.reference => reading.held # None
      /\ reading # Idle /\ reading.phase = "positions"
  BY ReadingEffect DEF Observed
<1>4. ASSUME NEW n \in DOMAIN views'
      PROVE  /\ M[n] \subseteq C[n] /\ views'[n].at <= clock
             /\ ~SlowRead => \A f \in fills : f.at < views'[n].at => f \in M[n]
             /\ \A f \in C[n] : f.at <= views'[n].at
             /\ views'[n].held # None => views'[n].held + Qty(C[n]) = Start
             /\ views'[n].reference => views'[n].held # None
  <2>1. CASE n \in DOMAIN views
    <3>1. views'[n] = views[n] /\ M[n] = L[n] /\ C[n] = B[n]
      BY <1>1, <2>1, OneMoreView
    <3> QED BY <2>1, <3>1 DEF Shown
  <2>2. CASE n = Len(views) + 1
    <3>1. views'[n] = Observed /\ M[n] = RL /\ C[n] = RB
      BY <1>1, <2>2, OneMoreView
    <3>2. RL \subseteq RB /\ (reading.held # None => reading.held + Qty(RB) = Start)
      BY <1>3 DEF UnderWay
    <3>3. ~SlowRead => \A f \in fills : f.at < clock => f \in RL
      BY <1>3 DEF UnderWay
    <3>4. \A f \in RB : f.at <= clock
      BY DEF Executed
    <3> QED BY <1>2, <1>3, <3>1, <3>2, <3>3, <3>4
  <2> QED BY <2>1, <2>2, OneMoreView
<1>5. ASSUME NEW m \in DOMAIN views', NEW n \in DOMAIN views', m <= n
      PROVE  views'[m].at <= views'[n].at
  <2>1. CASE n = Len(views) + 1
    <3>1. views'[n].at = clock
      BY <1>3, <2>1, OneMoreView
    <3> QED BY <1>4, <3>1
  <2>2. CASE n \in DOMAIN views
    <3>1. m \in DOMAIN views
      BY <1>5, <2>2, OneMoreView, LedgerValues
    <3>2. views'[m] = views[m] /\ views'[n] = views[n]
      BY <2>2, <3>1, OneMoreView
    <3> QED BY <1>5, <2>2, <3>1, <3>2 DEF Shown
  <2> QED BY <2>1, <2>2, OneMoreView
<1> QED BY <1>1, <1>2, <1>4, <1>5 DEF Shown

LEMMA ReadingHistory ==
    ASSUME WorldTypes, LedgerTypes, Executed, ObserveReading,
           NEW L \in [DOMAIN views -> SUBSET fills], NEW B \in [DOMAIN views -> SUBSET fills],
           NEW RL \in SUBSET fills, NEW RB \in SUBSET fills, History(L, B, RL, RB)
    PROVE  \E M, C \in [DOMAIN views' -> SUBSET fills'], SL, SB \in SUBSET fills' : History(M, C, SL, SB)'
<1>1. PICK M, C : M = OneMore(L, RL) /\ C = OneMore(B, RB)
  OBVIOUS
<1>2. /\ \A n \in DOMAIN views : M[n] = L[n] /\ C[n] = B[n]
      /\ M[Len(views) + 1] = RL /\ C[Len(views) + 1] = RB
      /\ M \in [DOMAIN views' -> SUBSET fills'] /\ C \in [DOMAIN views' -> SUBSET fills']
  BY <1>1, OneMoreFacts
<1>3. RL \in SUBSET fills' /\ RB \in SUBSET fills' /\ reading' = Idle
  BY DEF ObserveReading, worldVars
<1>4. Shown(M, C)'
  BY <1>1, ReadingShown DEF History
<1>5. UnderWay(RL, RB)'
  BY <1>3 DEF UnderWay, Idle
<1>6. \A o \in Ours : Own(o, M, C, RL, RB)'
  BY <1>2, ReadingOwn DEF History
<1>7. \A h \in Hands : Hand(h, M, RL)'
  BY <1>2, ReadingHand DEF History
<1>8. History(M, C, RL, RB)'
  BY <1>4, <1>5, <1>6, <1>7 DEF History
<1> QED BY <1>2, <1>3, <1>8

LEMMA RestoreHistory ==
    ASSUME WorldTypes, LedgerTypes, RestoreRecovery,
           NEW L \in [DOMAIN views -> SUBSET fills], NEW B \in [DOMAIN views -> SUBSET fills],
           NEW RL \in SUBSET fills, NEW RB \in SUBSET fills, History(L, B, RL, RB)
    PROVE  \E M, C \in [DOMAIN views' -> SUBSET fills'], SL, SB \in SUBSET fills' : History(M, C, SL, SB)'
<1>1. fills' = fills /\ DOMAIN views' = {} /\ reading' = Idle
  <2>1. fills' = fills /\ views' = <<>> /\ reading' = Idle
    BY DEF RestoreRecovery
  <2> QED BY <2>1
<1>2. PICK M : M = [n \in {} |-> fills]
  OBVIOUS
<1>3. M \in [DOMAIN views' -> SUBSET fills'] /\ RL \in SUBSET fills' /\ RB \in SUBSET fills'
  BY <1>1, <1>2
<1>4. Shown(M, M)'
  BY <1>1, <1>3 DEF Shown
<1>5. UnderWay(RL, RB)'
  BY <1>1, <1>3 DEF UnderWay, Idle
<1>6. \A o \in Ours : Own(o, M, M, RL, RB)'
  BY RestoreOwn DEF History
<1>7. \A h \in Hands : Hand(h, M, RL)'
  BY RestoreHand DEF History
<1>8. History(M, M, RL, RB)'
  BY <1>4, <1>5, <1>6, <1>7 DEF History
<1> QED BY <1>3, <1>8

LEMMA ReadOrdersHistory ==
    ASSUME WorldTypes, LedgerTypes, Executed, ReadOrders,
           NEW L \in [DOMAIN views -> SUBSET fills], NEW B \in [DOMAIN views -> SUBSET fills],
           NEW RL \in SUBSET fills, NEW RB \in SUBSET fills, History(L, B, RL, RB)
    PROVE  \E M, C \in [DOMAIN views' -> SUBSET fills'], SL, SB \in SUBSET fills' : History(M, C, SL, SB)'
<1>1. PICK SL : SL = fills
  OBVIOUS
<1>2. fills' = fills /\ views' = views /\ reading'.phase = "orders"
  BY OrdersEffect DEF ledgerVars
<1>3. Shown(L, B)'
  BY <1>2, ShownKept DEF History, Next
<1>4. UnderWay(SL, SL)'
  BY <1>1, <1>2 DEF UnderWay
<1>5. \A o \in Ours : Own(o, L, B, SL, SL)'
  BY <1>1, ReadOrdersOwn DEF History
<1>6. \A h \in Hands : Hand(h, L, SL)'
  BY <1>1, ReadOrdersHand DEF History
<1>7. History(L, B, SL, SL)'
  BY <1>3, <1>4, <1>5, <1>6 DEF History
<1>8. L \in [DOMAIN views' -> SUBSET fills'] /\ B \in [DOMAIN views' -> SUBSET fills'] /\ SL \in SUBSET fills'
  BY <1>1, <1>2
<1> QED BY <1>7, <1>8

LEMMA ReadPositionsHistory ==
    ASSUME WorldTypes, LedgerTypes, Executed, ReadPositions,
           NEW L \in [DOMAIN views -> SUBSET fills], NEW B \in [DOMAIN views -> SUBSET fills],
           NEW RL \in SUBSET fills, NEW RB \in SUBSET fills, History(L, B, RL, RB)
    PROVE  \E M, C \in [DOMAIN views' -> SUBSET fills'], SL, SB \in SUBSET fills' : History(M, C, SL, SB)'
<1>1. PICK SL, SB : SL = (IF reading = Idle THEN fills ELSE RL) /\ SB = fills
  OBVIOUS
<1>2. /\ fills' = fills /\ clock' = clock /\ held' = held /\ views' = views
      /\ reading'.phase = "positions" /\ reading'.held \in {held, None}
  BY PositionsEffect DEF ledgerVars, worldVars
<1>3. Shown(L, B)'
  BY <1>2, ShownKept DEF History, Next
<1>4. UnderWay(SL, SB)'
  <2>1. SL \subseteq SB /\ SB \subseteq fills
    BY <1>1
  <2>2. ~SlowRead => \A f \in fills : f.at < clock => f \in SL
    BY <1>1 DEF History, UnderWay
  <2>3. reading'.held # None => reading'.held + Qty(SB) = Start
    BY <1>1, <1>2 DEF Executed
  <2> QED BY <1>2, <2>1, <2>2, <2>3 DEF UnderWay
<1>5. \A o \in Ours : Own(o, L, B, SL, SB)'
  BY <1>1, ReadPositionsOwn DEF History
<1>6. \A h \in Hands : Hand(h, L, SL)'
  BY <1>1, ReadPositionsHand DEF History
<1>7. History(L, B, SL, SB)'
  BY <1>3, <1>4, <1>5, <1>6 DEF History
<1>8. /\ L \in [DOMAIN views' -> SUBSET fills'] /\ B \in [DOMAIN views' -> SUBSET fills']
      /\ SL \in SUBSET fills' /\ SB \in SUBSET fills'
  BY <1>1, <1>2
<1> QED BY <1>7, <1>8

\* A step that observes and reads nothing leaves the history as it is.
LEMMA KeptHistory ==
    ASSUME WorldTypes, LedgerTypes, Executed, [Next]_vars, views' = views, reading' = reading,
           NEW L \in [DOMAIN views -> SUBSET fills], NEW B \in [DOMAIN views -> SUBSET fills],
           NEW RL \in SUBSET fills, NEW RB \in SUBSET fills, History(L, B, RL, RB),
           \A o \in Ours : Own(o, L, B, RL, RB)', \A h \in Hands : Hand(h, L, RL)'
    PROVE  \E M, C \in [DOMAIN views' -> SUBSET fills'], SL, SB \in SUBSET fills' : History(M, C, SL, SB)'
<1>1. fills \subseteq fills'
  BY Passing
<1>2. Shown(L, B)'
  BY ShownKept DEF History
<1>3. UnderWay(RL, RB)'
  BY UnderWayKept DEF History
<1>4. History(L, B, RL, RB)'
  BY <1>2, <1>3 DEF History
<1>5. /\ L \in [DOMAIN views' -> SUBSET fills'] /\ B \in [DOMAIN views' -> SUBSET fills']
      /\ RL \in SUBSET fills' /\ RB \in SUBSET fills'
  BY <1>1
<1> QED BY <1>4, <1>5

LEMMA HistoryStep ==
    ASSUME WorldTypes, LedgerTypes, Executed, [Next]_vars,
           NEW L \in [DOMAIN views -> SUBSET fills], NEW B \in [DOMAIN views -> SUBSET fills],
           NEW RL \in SUBSET fills, NEW RB \in SUBSET fills, History(L, B, RL, RB)
    PROVE  \E M, C \in [DOMAIN views' -> SUBSET fills'], SL, SB \in SUBSET fills' : History(M, C, SL, SB)'
<1> DEFINE Goal == \E M, C \in [DOMAIN views' -> SUBSET fills'], SL, SB \in SUBSET fills' : History(M, C, SL, SB)'
<1>k. ASSUME views' = views, reading' = reading,
             \A o \in Ours : Own(o, L, B, RL, RB)', \A h \in Hands : Hand(h, L, RL)'
      PROVE  Goal
  BY <1>k, KeptHistory
<1>d. \A o \in Ours : o \notin Hands
  BY LedgerAssumption
<1>i. (\A o \in Ours : Own(o, L, B, RL, RB)) /\ (\A h \in Hands : Hand(h, L, RL))
  BY DEF History
<1> SUFFICES Goal
  OBVIOUS
<1> HIDE DEF Goal
<1>1. ASSUME NEW o \in Ours, NEW q \in 1..Start, release(o, q)
      PROVE  Goal
  <2>1. /\ \A p \in Ours : p # o => sells'[p] = sells[p]
        /\ views' = views /\ unknown' = unknown
        /\ order' = [order EXCEPT ![o] = [stage |-> "sent", left |-> q, total |-> q]]
    BY <1>1, ReleaseEffect
  <2>2. fills' = fills /\ ends' = ends /\ listed' = listed /\ reading' = reading
    BY <1>1 DEF release, readVars
  <2>3. \A p \in Orders : p # o => order'[p] = order[p]
    BY <2>1 DEF WorldTypes
  <2>4. \A p \in Ours : Own(p, L, B, RL, RB)'
    BY <1>1, <1>i, <2>1, <2>2, <2>3, ReleaseOwn, OwnUnmoved
  <2>5. \A h \in Hands : Hand(h, L, RL)'
    BY <1>d, <1>i, <2>1, <2>2, <2>3, HandUnmoved
  <2> QED BY <1>k, <2>1, <2>2, <2>4, <2>5
<1>2. ASSUME NEW f \in fills, ObserveFill(f)
      PROVE  Goal
  <2>1. /\ f.order \in Ours /\ \A p \in Ours : p # f.order => sells'[p] = sells[p]
        /\ views' = views /\ unknown' = unknown
    BY <1>2, FillEffect
  <2>2. order' = order /\ fills' = fills /\ ends' = ends /\ listed' = listed /\ reading' = reading
    BY <1>2 DEF ObserveFill, readVars, worldVars
  <2>3. \A p \in Ours : Own(p, L, B, RL, RB)'
    BY <1>2, <1>i, <2>1, <2>2, ReportOwn, OwnUnmoved
  <2>4. \A h \in Hands : Hand(h, L, RL)'
    BY <1>i, <2>1, <2>2, HandUnmoved
  <2> QED BY <1>k, <2>1, <2>2, <2>3, <2>4
<1>3. ASSUME NEW o \in Ours, ObserveLifecycle(o)
      PROVE  Goal
  <2>1. /\ \A p \in Ours : p # o => sells'[p] = sells[p]
        /\ views' = views /\ \A p \in Orders : p # o => unknown'[p] = unknown[p]
    BY <1>3, LifecycleEffect
  <2>2. order' = order /\ fills' = fills /\ ends' = ends /\ listed' = listed /\ reading' = reading
    BY <1>3 DEF ObserveLifecycle, readVars, worldVars
  <2>3. \A p \in Ours : Own(p, L, B, RL, RB)'
    BY <1>3, <1>i, <2>1, <2>2, LifecycleOwn, OwnUnmoved
  <2>4. \A h \in Hands : Hand(h, L, RL)'
    BY <1>d, <1>i, <2>1, <2>2, HandUnmoved
  <2> QED BY <1>k, <2>1, <2>2, <2>3, <2>4
<1>4. CASE ObserveReading
  BY <1>4, ReadingHistory DEF Goal
<1>5. CASE RestoreRecovery
  BY <1>5, RestoreHistory DEF Goal
<1>6. CASE ReadOrders
  BY <1>6, ReadOrdersHistory DEF Goal
<1>7. CASE ReadPositions
  BY <1>7, ReadPositionsHistory DEF Goal
<1>8. CASE Tick \/ UNCHANGED vars
  <2>1. /\ order' = order /\ fills' = fills /\ ends' = ends /\ listed' = listed /\ reading' = reading
        /\ sells' = sells /\ views' = views /\ unknown' = unknown
    BY <1>8 DEF Tick, vars, worldVars, readVars, ledgerVars
  <2>2. \A p \in Ours : Own(p, L, B, RL, RB)'
    BY <1>i, <2>1, OwnUnmoved
  <2>3. \A h \in Hands : Hand(h, L, RL)'
    BY <1>i, <2>1, HandUnmoved
  <2> QED BY <1>k, <2>1, <2>2, <2>3
<1>9. ASSUME NEW o \in Ours, Arrive(o)
      PROVE  Goal
  <2>1. /\ fills' = fills /\ ends' = ends /\ listed' = listed /\ reading' = reading
        /\ sells' = sells /\ views' = views /\ unknown' = unknown
        /\ \A p \in Orders : p # o => order'[p] = order[p]
    BY <1>9 DEF Arrive, readVars, ledgerVars, WorldTypes
  <2>2. \A p \in Ours : Own(p, L, B, RL, RB)'
    BY <1>9, <1>i, <2>1, ArriveOwn, OwnUnmoved
  <2>3. \A h \in Hands : Hand(h, L, RL)'
    BY <1>d, <1>i, <2>1, HandUnmoved
  <2> QED BY <1>k, <2>1, <2>2, <2>3
<1>10. ASSUME NEW o \in Orders, NEW q \in 1..Start, Fill(o, q)
       PROVE  Goal
  <2>1. /\ ends' = ends /\ listed' = listed /\ reading' = reading
        /\ sells' = sells /\ views' = views /\ unknown' = unknown
        /\ \A p \in Orders : p # o => order'[p] = order[p]
    BY <1>10 DEF Fill, readVars, ledgerVars, WorldTypes
  <2>2. \A p \in Orders : p # o => OfOrder(fills', p) = OfOrder(fills, p)
    BY <1>10, ExecutedOnce
  <2>3. \A p \in Ours : Own(p, L, B, RL, RB)'
    BY <1>10, <1>i, <2>1, <2>2, FillOwn, OwnUnmoved
  <2>4. \A h \in Hands : Hand(h, L, RL)'
    BY <1>10, <1>i, <2>1, <2>2, FillHand, HandUnmoved
  <2> QED BY <1>k, <2>1, <2>3, <2>4
<1>11. ASSUME NEW o \in Orders, Cancel(o)
       PROVE  Goal
  <2>1. /\ fills' = fills /\ listed' = listed /\ reading' = reading
        /\ sells' = sells /\ views' = views /\ unknown' = unknown
        /\ \A p \in Orders : p # o => order'[p] = order[p]
        /\ \A e : e.order # o => (e \in ends' <=> e \in ends)
    BY <1>11 DEF Cancel, readVars, ledgerVars, WorldTypes
  <2>2. \A p \in Ours : Own(p, L, B, RL, RB)'
    BY <1>11, <1>i, <2>1, CancelOwn, OwnUnmoved
  <2>3. \A h \in Hands : Hand(h, L, RL)'
    BY <1>11, <1>i, <2>1, CancelHand, HandUnmoved
  <2> QED BY <1>k, <2>1, <2>2, <2>3
<1>12. ASSUME NEW h \in Hands, NEW q \in HandSizes, PlaceByHand(h, q)
       PROVE  Goal
  <2>1. /\ fills' = fills /\ ends' = ends /\ listed' = listed /\ reading' = reading
        /\ sells' = sells /\ views' = views /\ unknown' = unknown
        /\ \A p \in Orders : p # h => order'[p] = order[p]
    BY <1>12 DEF PlaceByHand, readVars, ledgerVars, WorldTypes
  <2>2. \A p \in Ours : Own(p, L, B, RL, RB)'
    BY <1>d, <1>i, <2>1, OwnUnmoved
  <2>3. \A g \in Hands : Hand(g, L, RL)'
    BY <1>12, <1>i, <2>1, PlaceHand, HandUnmoved
  <2> QED BY <1>k, <2>1, <2>2, <2>3
<1>13. ASSUME NEW h \in Hands, RaiseByHand(h)
       PROVE  Goal
  <2>1. /\ fills' = fills /\ ends' = ends /\ reading' = reading
        /\ sells' = sells /\ views' = views /\ unknown' = unknown
        /\ \A p \in Orders : p # h => order'[p] = order[p]
        /\ \A g \in Hands : g # h => listed'[g] = listed[g]
    BY <1>13 DEF RaiseByHand, readVars, ledgerVars, WorldTypes
  <2>2. \A p \in Ours : Own(p, L, B, RL, RB)'
    BY <1>d, <1>i, <2>1, OwnUnmoved
  <2>3. \A g \in Hands : Hand(g, L, RL)'
    BY <1>13, <1>i, <2>1, RaiseHand, HandUnmoved
  <2> QED BY <1>k, <2>1, <2>2, <2>3
<1> QED BY <1>1, <1>2, <1>3, <1>4, <1>5, <1>6, <1>7, <1>8, <1>9, <1>10, <1>11, <1>12, <1>13 DEF Next, Release

\* The invariant holds at first.
LEMMA LedgerInit ==
    ASSUME Init
    PROVE  LedgerInv
<1> USE LedgerAssumption, RuleAssumption
<1>1. WorldTypes
  BY FS_EmptySet DEF Init, WorldTypes, Readings, Orders
<1>2. LedgerTypes
  <2>1. NoSell \in Sell
    BY DEF NoSell, Sell
  <2> QED BY <2>1 DEF Init, LedgerTypes
<1>3. Executed
  <2>1. fills = {} /\ FillSet({}) /\ held = Start
    BY FS_EmptySet DEF Init, FillSet
  <2>2. Qty({}) = 0
    BY <2>1, QtyFacts
  <2> QED BY <2>1, <2>2 DEF Executed
<1>4. PICK L : L = [n \in {} |-> fills]
  OBVIOUS
<1>5. /\ fills = {} /\ ends = {} /\ reading = Idle /\ DOMAIN views = {} /\ Len(views) = 0
      /\ \A o \in Orders : order[o] = [stage |-> "none", left |-> 0, total |-> 0] /\ unknown[o] = <<>>
      /\ \A h \in Hands : listed[h] = None
      /\ \A o \in Ours : sells[o] = NoSell
  BY DEF Init
<1>6. ASSUME NEW o PROVE Sold(o) = 0 /\ ~InReading(o)
  <2>1. FillSet({}) /\ OfOrder(fills, o) = {}
    BY <1>5, FS_EmptySet DEF FillSet, OfOrder
  <2> QED BY <1>5, <2>1, QtyFacts DEF Sold, Had, InReading
<1>7. L \in [DOMAIN views -> SUBSET fills] /\ fills \in SUBSET fills
  BY <1>4, <1>5
<1>8. Shown(L, L) /\ UnderWay(fills, fills)
  BY <1>5, <1>7 DEF Shown, UnderWay, Idle
<1>9. ASSUME NEW o \in Ours PROVE Own(o, L, L, fills, fills)
  <2>1. /\ sells[o].released = 0 /\ sells[o].fills = {} /\ sells[o].listings = {}
        /\ ~sells[o].ended /\ sells[o].since = 0
    <3>1. /\ NoSell.released = 0 /\ NoSell.fills = {} /\ NoSell.listings = {}
          /\ ~NoSell.ended /\ NoSell.since = 0
      BY DEF NoSell
    <3> QED BY <1>5, <3>1
  <2>2. order[o].stage = "none" /\ order[o].left = 0 /\ unknown[o] = <<>>
    BY <1>5
  <2>3. OwnOrder(o) /\ OwnReports(o)
    BY <1>5, <1>6, <2>1, <2>2 DEF OwnOrder, OwnReports
  <2>4. OwnListings(o, L, fills)
    <3>1. Known(o) = {}
      BY <2>1, <2>2 DEF Known
    <3> QED BY <1>6, <3>1 DEF OwnListings
  <2>5. OwnViews(o, L, fills)
    BY <1>5, <2>1 DEF OwnViews, Idle
  <2> QED BY <2>3, <2>4, <2>5 DEF Own
<1>10. ASSUME NEW h \in Hands PROVE Hand(h, L, fills)
  <2>1. /\ order[h].stage = "none" /\ order[h].left = 0 /\ unknown[h] = <<>> /\ listed[h] = None
        /\ ~EverListed(h)
    BY <1>5, <1>6 DEF EverListed
  <2>2. HandOrder(h)
    BY <1>6, <2>1 DEF HandOrder
  <2>3. HandListings(h, L, fills)
    BY <1>6, <2>1 DEF HandListings
  <2>4. HandViews(h, L, fills)
    BY <1>5, <2>1 DEF HandViews
  <2> QED BY <2>2, <2>3, <2>4 DEF Hand
<1>11. History(L, L, fills, fills)
  BY <1>8, <1>9, <1>10 DEF History
<1> QED BY <1>1, <1>2, <1>3, <1>7, <1>11 DEF LedgerInv

LEMMA LedgerStep ==
    ASSUME LedgerInv, [Next]_vars
    PROVE  LedgerInv'
<1>1. WorldTypes' /\ LedgerTypes' /\ Executed'
  BY TypesStep, ExecutedStep DEF LedgerInv
<1>2. \E M, C \in [DOMAIN views' -> SUBSET fills'], SL, SB \in SUBSET fills' : History(M, C, SL, SB)'
  <2>1. PICK L \in [DOMAIN views -> SUBSET fills], B \in [DOMAIN views -> SUBSET fills],
             RL \in SUBSET fills, RB \in SUBSET fills : History(L, B, RL, RB)
    BY DEF LedgerInv
  <2> QED BY <2>1, HistoryStep DEF LedgerInv
<1> QED BY <1>1, <1>2 DEF LedgerInv

\* There is at any time a history of what each snapshot and the reading under way saw.
LEMMA LedgerAlways == Spec => []LedgerInv
<1>1. Init => LedgerInv
  BY LedgerInit
<1>2. LedgerInv /\ [Next]_vars => LedgerInv'
  BY LedgerStep
<1> QED BY <1>1, <1>2, PTL DEF Spec

----------------------------------------------------------------------------
(* Types *)

\* What was reported of a sell was executed, and no sell executes more than it released.
LEMMA ReportedWithin ==
    ASSUME WorldTypes, LedgerTypes, NEW o \in Ours, NEW L, NEW B, NEW RL, NEW RB, Own(o, L, B, RL, RB)
    PROVE  /\ FillSet(sells[o].fills) /\ sells[o].fills \in SUBSET OfOrder(fills, o)
           /\ Qty(sells[o].fills) \in Nat /\ Qty(sells[o].fills) <= Sold(o)
           /\ Qty(sells[o].fills) <= sells[o].released
           /\ sells[o].released > 0 => Sold(o) + order[o].left <= sells[o].released
<1>1. FillSet(OfOrder(fills, o)) /\ sells[o].fills \in SUBSET OfOrder(fills, o)
  BY SoldType, FillsPart DEF Own, OwnReports, OfOrder
<1>2. /\ FillSet(sells[o].fills) /\ Qty(sells[o].fills) \in Nat /\ Qty(sells[o].fills) <= Sold(o)
      /\ sells[o].fills = {} => Qty(sells[o].fills) = 0
  BY <1>1, FillsPart, QtyFacts, QtyMonotone DEF Sold, Had
<1>3. Sold(o) \in Nat /\ sells[o].released \in Nat /\ order[o].left \in Nat
  BY SoldType, LedgerValues, LedgerAssumption, RuleAssumption DEF WorldTypes
<1>4. sells[o].released > 0 => Sold(o) + order[o].left <= sells[o].released
  <2>1. order[o].stage \in {"none", "sent", "working", "over"}
    BY DEF WorldTypes
  <2> QED BY <1>3, <2>1 DEF Own, OwnOrder
<1>5. Qty(sells[o].fills) <= sells[o].released
  BY <1>2, <1>3, <1>4 DEF Own, OwnReports
<1> QED BY <1>1, <1>2, <1>4, <1>5

\* Every variable keeps its type, and no sell of the gate's is ever credited with
\* more fills than it released, whatever is redelivered, restored or learned late.
THEOREM TypesAlways == Spec => []TypeOK
<1>1. LedgerInv => TypeOK
  <2> SUFFICES ASSUME LedgerInv PROVE TypeOK
    OBVIOUS
  <2>1. PICK L, B \in [DOMAIN views -> SUBSET fills], RL, RB \in SUBSET fills : History(L, B, RL, RB)
    BY DEF LedgerInv
  <2>2. ASSUME NEW o \in Ours
        PROVE  sells[o].released \in 0..Start /\ Shares(sells[o].fills) <= sells[o].released
    <3>1. Own(o, L, B, RL, RB)
      BY <2>1 DEF History
    <3>2. /\ FillSet(sells[o].fills) /\ Qty(sells[o].fills) \in Nat
          /\ Qty(sells[o].fills) <= sells[o].released
      BY <3>1, ReportedWithin DEF LedgerInv
    <3>3. Shares(sells[o].fills) = Capped(Qty(sells[o].fills))
      BY <3>2, QtyFacts
    <3>4. sells[o].released \in 0..Start
      BY LedgerValues DEF LedgerInv, Sell
    <3> QED BY <3>2, <3>3, <3>4, LedgerAssumption, RuleAssumption DEF Capped
  <2> QED BY <2>2 DEF LedgerInv, WorldTypes, LedgerTypes, TypeOK
<1> QED BY <1>1, LedgerAlways, PTL

----------------------------------------------------------------------------
(* What a snapshot bounds *)

\* The view of snapshot n.
At(n) == [at |-> views[n].at, by |-> n]

\* The shares of order o that IBKR sold after the executions in S or may still sell.
Need(S, o) == order[o].left + Qty(OfOrder(fills \ S, o))

LEMMA NeedFacts ==
    ASSUME WorldTypes, NEW S \in SUBSET fills, NEW o \in Orders
    PROVE  Need(S, o) \in Nat /\ Need(S, o) = order[o].left + Sold(o) - Had(S, o)
<1>1. FillSet(OfOrder(fills, o)) /\ OfOrder(S, o) \in SUBSET OfOrder(fills, o)
  BY HadFacts, SoldType, FillsPart DEF OfOrder
<1>2. OfOrder(fills \ S, o) = OfOrder(fills, o) \ OfOrder(S, o)
  BY DEF OfOrder
<1>3. /\ Qty(OfOrder(S, o)) \in Nat /\ Qty(OfOrder(fills, o) \ OfOrder(S, o)) \in Nat
      /\ Qty(OfOrder(fills, o)) = Qty(OfOrder(S, o)) + Qty(OfOrder(fills, o) \ OfOrder(S, o))
  BY <1>1, QtySplit
<1>4. order[o].left \in Nat
  BY RuleAssumption DEF WorldTypes
<1>5. Need(S, o) = order[o].left + Qty(OfOrder(fills, o) \ OfOrder(S, o))
  BY <1>2 DEF Need
<1>6. Sold(o) = Qty(OfOrder(fills, o)) /\ Had(S, o) = Qty(OfOrder(S, o))
  BY DEF Sold, Had
<1> QED BY <1>3, <1>4, <1>5, <1>6

LEMMA HadMonotone ==
    ASSUME WorldTypes, NEW S \in SUBSET fills, NEW T \in SUBSET S, NEW o
    PROVE  Had(T, o) <= Had(S, o) /\ Had(T, o) \in Nat /\ Had(S, o) \in Nat /\ Sold(o) \in Nat /\ Had(S, o) <= Sold(o)
<1>1. FillSet(OfOrder(S, o)) /\ OfOrder(T, o) \in SUBSET OfOrder(S, o) /\ T \in SUBSET fills
  BY HadFacts DEF OfOrder
<1> QED BY <1>1, HadFacts, QtyMonotone DEF Had

\* What was executed before a listing a snapshot is credited with, it shows.
LEMMA CreditedShown ==
    ASSUME ~SlowRead, WorldTypes, LedgerTypes, NEW L, NEW B, Shown(L, B),
           NEW n \in DOMAIN views, NEW x, x.by \in DOMAIN views, x.at = views[x.by].at, credits(At(n), x)
    PROVE  L[x.by] \in SUBSET B[n]
<1>1. CASE x.by = n
  BY <1>1 DEF Shown
<1>2. CASE x.at < views[n].at
  <2>1. ASSUME NEW f \in L[x.by] PROVE f \in L[n]
    <3>1. f \in fills /\ f.at <= views[x.by].at
      BY DEF Shown
    <3>2. views[x.by].at \in Nat /\ views[n].at \in Nat
      BY LedgerValues
    <3>3. f.at < views[n].at
      BY <1>2, <3>1, <3>2 DEF WorldTypes, Execution
    <3> QED BY <3>1, <3>3 DEF Shown
  <2> QED BY <2>1 DEF Shown
<1> QED BY <1>1, <1>2 DEF credits, At

\* filledBy at a snapshot is never above what the snapshot's holding already lacks.
LEMMA FilledWithin ==
    ASSUME ~SlowRead, WorldTypes, LedgerTypes,
           NEW L \in [DOMAIN views -> SUBSET fills], NEW B \in [DOMAIN views -> SUBSET fills], Shown(L, B),
           NEW n \in DOMAIN views, NEW o \in Ours, NEW RL, NEW RB, Own(o, L, B, RL, RB)
    PROVE  /\ filledBy(sells[o], At(n)) \in 0..sells[o].released
           /\ filledBy(sells[o], At(n)) <= Had(B[n], o)
<1> DEFINE s == sells[o]
           v == At(n)
           after(t) == {f \in s.fills : t < f.at /\ f.at < v.at}
<1>1. /\ s.released \in 0..Top /\ \A x \in s.listings : x.quantity \in 0..Top
      /\ FillSet(s.fills) /\ s.fills \in SUBSET OfOrder(fills, o)
  <2>1. s.released \in 0..Start /\ s.listings \subseteq Listing
    BY LedgerValues DEF Sell
  <2>2. s.released \in 0..Top
    BY <2>1, LedgerAssumption, RuleAssumption
  <2>3. \A x \in Listing : x.quantity \in 0..Top
    BY DEF Listing
  <2> QED BY <2>1, <2>2, <2>3, ReportedWithin
<1>2. /\ \E b \in Best(s, v) : filledBy(s, v) <= b
      /\ filledBy(s, v) \in 0..s.released /\ Best(s, v) \subseteq 0..Top
  BY <1>1, FilledByFacts
<1>3. /\ B[n] \in SUBSET fills /\ FillSet(OfOrder(B[n], o)) /\ Had(B[n], o) \in Nat
      /\ Qty(OfOrder(B[n], o)) = Had(B[n], o)
  BY HadFacts DEF Had
<1>4. ASSUME NEW t PROVE after(t) \in SUBSET OfOrder(B[n], o) /\ Qty(after(t)) <= Had(B[n], o)
  <2>1. \A f \in fills : f.at < v.at => f \in B[n]
    BY DEF Shown, At
  <2>2. after(t) \in SUBSET OfOrder(B[n], o)
    BY <1>1, <2>1 DEF OfOrder
  <2> HIDE DEF after
  <2> QED BY <1>3, <2>2, QtyMonotone
<1>5. Reported(s, v, 0) <= Had(B[n], o)
  <2>1. Reported(s, v, 0) <= Qty(after(0)) /\ Reported(s, v, 0) \in 0..Top
    BY <1>1, ReportedFacts
  <2>2. FillSet(after(0))
    BY <1>1, FillsPart
  <2>3. Qty(after(0)) \in Nat
    BY <2>2, QtyFacts
  <2> HIDE DEF s, v, after
  <2> QED BY <1>3, <1>4, <2>1, <2>3
<1>6. ASSUME NEW x \in s.listings, credits(v, x) PROVE ShownBy(s, v, x) <= Had(B[n], o)
  <2>1. Listed(x) /\ s.released <= x.quantity + Had(L[x.by], o) /\ x.by \in DOMAIN views
    BY <1>6 DEF Own, OwnListings, Known, Listed
  <2>2. L[x.by] \in SUBSET B[n]
    BY <1>6, <2>1, CreditedShown DEF Listed
  <2> DEFINE G == OfOrder(L[x.by], o)
             H == after(x.at)
  <2>3. G \in SUBSET OfOrder(B[n], o) /\ H \in SUBSET OfOrder(B[n], o)
    BY <1>4, <2>2 DEF OfOrder
  <2>4. G \cap H = {}
    <3>1. \A f \in L[x.by] : f.at <= x.at /\ f.at \in Nat
      BY <2>1 DEF Shown, Listed, WorldTypes, Execution
    <3>2. x.at \in Nat
      BY <2>1, LedgerValues DEF Listed
    <3> QED BY <3>1, <3>2 DEF OfOrder
  <2>5. Had(L[x.by], o) = Qty(G) /\ Reported(s, v, x.at) <= Qty(H) /\ Reported(s, v, x.at) \in 0..Top
    BY <1>1, ReportedFacts DEF Had
  <2>6. FillSet(G) /\ FillSet(H)
    BY <1>3, <2>3, FillsPart
  <2> HIDE DEF G, H
  <2>7. Qty(G) \in Nat /\ Qty(H) \in Nat
    BY <2>6, QtyFacts
  <2>8. Qty(G) + Qty(H) <= Had(B[n], o)
    BY <1>3, <2>3, <2>4, QtyApart
  <2>9. x.quantity \in 0..Top /\ s.released \in 0..Top
    BY <1>1, <1>6
  <2> DEFINE k == s.released - Min({x.quantity, s.released})
  <2>10. k \in 0..Top /\ k <= Qty(G)
    <3>1. x.quantity \in Int /\ s.released \in Int /\ s.released <= x.quantity + Qty(G)
      BY <2>1, <2>5, <2>9, RuleAssumption
    <3>2. Min({x.quantity, s.released}) = IF x.quantity <= s.released THEN x.quantity ELSE s.released
      BY <3>1, MinOfTwo
    <3> QED BY <2>7, <2>9, <3>1, <3>2, RuleAssumption
  <2> DEFINE r == Reported(s, v, x.at)
  <2>11. ShownBy(s, v, x) = addPending(k, r)
    BY DEF ShownBy
  <2>12. r \in 0..Top /\ r <= Qty(H)
    BY <2>5
  <2> HIDE DEF r, k
  <2>13. addPending(k, r) <= Qty(G) + Qty(H)
    BY <2>7, <2>10, <2>12, RuleAssumption DEF addPending
  <2>14. addPending(k, r) \in Int
    BY <2>10, <2>12, RuleAssumption DEF addPending
  <2> QED BY <1>3, <2>7, <2>8, <2>11, <2>13, <2>14
<1>7. \A b \in Best(s, v) : b <= Had(B[n], o) /\ b \in Int
  BY <1>2, <1>5, <1>6 DEF Best
<1>8. s.released \in Nat
  BY LedgerValues
<1> HIDE DEF s, v
<1> QED BY <1>2, <1>3, <1>7, <1>8 DEF s, v

\* A snapshot's view counts, of each sell of the gate's, all that IBKR sold of it
\* after the snapshot or may still sell; one it does not count has none left.
LEMMA OwnCounted ==
    ASSUME ~SlowRead, WorldTypes, LedgerTypes,
           NEW L \in [DOMAIN views -> SUBSET fills], NEW B \in [DOMAIN views -> SUBSET fills], Shown(L, B),
           NEW n \in DOMAIN views, NEW o \in Ours, NEW RL, NEW RB, Own(o, L, B, RL, RB)
    PROVE  \/ Need(B[n], o) = 0
           \/ /\ o \in DOMAIN ownLeft(ledger, At(n))
              /\ Need(B[n], o) <= sells[o].released - filledBy(sells[o], At(n))
<1>1. /\ B[n] \in SUBSET fills /\ Sold(o) \in Nat /\ Had(B[n], o) \in Nat /\ Had(B[n], o) <= Sold(o)
      /\ order[o].left \in Nat /\ sells[o].released \in Nat
      /\ order[o].stage \in {"none", "sent", "working", "over"}
  <2>1. B[n] \in SUBSET fills
    OBVIOUS
  <2>2. order[o] \in [stage : {"none", "sent", "working", "over"}, left : 0..Top, total : 0..Top]
    BY DEF WorldTypes
  <2>3. Sold(o) \in Nat /\ Had(B[n], o) \in Nat /\ Had(B[n], o) <= Sold(o)
    BY <2>1, HadFacts
  <2>4. sells[o].released \in Nat
    BY LedgerValues
  <2> QED BY <2>1, <2>2, <2>3, <2>4, RuleAssumption
<1>2. Need(B[n], o) = order[o].left + Sold(o) - Had(B[n], o)
  BY <1>1, NeedFacts
<1>3. CASE sells[o].released = 0
  <2>1. Had(B[n], o) = Sold(o)
    BY <1>3 DEF Own, OwnViews
  <2>2. order[o].left = 0
    BY <1>1, <1>3 DEF Own, OwnOrder
  <2> QED BY <1>1, <1>2, <2>1, <2>2
<1>4. CASE endedBefore(sells[o], At(n))
  <2>1. PICK e \in ends : e.order = o /\ e.at = sells[o].end /\ e.at < views[n].at
    BY <1>4 DEF endedBefore, At, Own, OwnReports
  <2>2. order[o].stage = "over" /\ \A f \in OfOrder(fills, o) : f.at <= e.at
    BY <2>1 DEF Own, OwnReports
  <2>3. e.at \in Nat /\ views[n].at \in Nat
    BY LedgerValues DEF WorldTypes
  <2>4. \A f \in OfOrder(fills, o) : f.at < views[n].at
    BY <2>1, <2>2, <2>3 DEF OfOrder, WorldTypes, Execution
  <2>5. OfOrder(B[n], o) = OfOrder(fills, o)
    BY <1>1, <2>4 DEF OfOrder, Shown
  <2>6. Had(B[n], o) = Sold(o) /\ order[o].left = 0
    BY <2>2, <2>5 DEF Had, Sold, Own, OwnOrder
  <2> QED BY <1>1, <1>2, <2>6
<1>5. CASE sells[o].released # 0 /\ ~endedBefore(sells[o], At(n))
  <2>1. o \in DOMAIN ownLeft(ledger, At(n))
    BY <1>1, <1>5 DEF ownLeft, ledger, LedgerTypes
  <2>2. filledBy(sells[o], At(n)) \in 0..sells[o].released /\ filledBy(sells[o], At(n)) <= Had(B[n], o)
    BY FilledWithin
  <2>3. Sold(o) + order[o].left <= sells[o].released
    BY <1>1, <1>5, ReportedWithin
  <2> DEFINE k == filledBy(sells[o], At(n))
  <2>4. k \in Int /\ k <= Had(B[n], o)
    BY <2>2
  <2> HIDE DEF k
  <2>5. Need(B[n], o) <= sells[o].released - k
    BY <1>1, <1>2, <2>3, <2>4
  <2> QED BY <2>1, <2>5 DEF k
<1> QED BY <1>3, <1>4, <1>5

\* The leading listings a view is credited with.
LEMMA CreditedFacts ==
    ASSUME NEW S, NEW t \in Seq(S), NEW v
    PROVE  /\ credited(t, v) \in 0..Len(t)
           /\ credited(t, v) > 0 => credited(t, v) \in DOMAIN t /\ credits(v, t[credited(t, v)])
<1> DEFINE C == {i \in DOMAIN t : \A j \in 1..i : credits(v, t[j])}
<1>1. DOMAIN t = 1..Len(t) /\ Len(t) \in Nat
  OBVIOUS
<1>2. {0} \cup C \in SUBSET Int /\ {0} \cup C # {} /\ \A x \in {0} \cup C : x <= Len(t) /\ x \in 0..Len(t)
  BY <1>1
<1>3. credited(t, v) = Max({0} \cup C)
  BY DEF credited
<1>4. credited(t, v) \in {0} \cup C
  <2> DEFINE D == {0} \cup C
  <2>1. D \in SUBSET Int /\ D # {} /\ Len(t) \in Int /\ \A x \in D : x <= Len(t)
    BY <1>1, <1>2
  <2> HIDE DEF D
  <2>2. Max(D) \in D
    BY <2>1, MaxFacts
  <2> QED BY <1>3, <2>2 DEF D
<1> QED BY <1>1, <1>2, <1>4

\* The latest list of open orders a snapshot is credited with.
LEMMA LatestListFacts ==
    ASSUME LedgerTypes, NEW v
    PROVE  LET m == latestList(ledger, v)
               Has(k) == views[k].lists /\ credits(v, [at |-> views[k].at, by |-> k])
           IN  /\ m \in 0..Len(views)
               /\ m > 0 => m \in DOMAIN views /\ Has(m)
               /\ \A k \in DOMAIN views : Has(k) => k <= m
<1> DEFINE C == {k \in DOMAIN views : views[k].lists /\ credits(v, [at |-> views[k].at, by |-> k])}
<1>1. DOMAIN views = 1..Len(views) /\ Len(views) \in Nat
  BY LedgerValues
<1>2. {0} \cup C \in SUBSET Int /\ {0} \cup C # {} /\ \A x \in {0} \cup C : x <= Len(views) /\ x \in 0..Len(views)
  BY <1>1
<1>3. latestList(ledger, v) = Max({0} \cup C)
  BY DEF latestList, ledger
<1>4. latestList(ledger, v) \in {0} \cup C /\ \A x \in {0} \cup C : x <= latestList(ledger, v)
  <2> DEFINE D == {0} \cup C
  <2>1. D \in SUBSET Int /\ D # {} /\ Len(views) \in Int /\ \A x \in D : x <= Len(views)
    BY <1>1, <1>2
  <2> HIDE DEF D
  <2>2. Max(D) \in D /\ \A x \in D : x <= Max(D)
    BY <2>1, MaxFacts
  <2> QED BY <1>3, <2>2 DEF D
<1> QED BY <1>1, <1>2, <1>4

\* While HandsShown holds, no reading under way has a sell of the owner's in it,
\* and a list showed all that one may still sell.
LEMMA HandShown ==
    ASSUME WorldTypes, LedgerTypes, HandsShown, NEW h \in Hands, NEW L, NEW RL, Hand(h, L, RL)
    PROVE  ~InReading(h) /\ LeftListed(h) = order[h].left
<1>1. order[h].stage \in {"none", "working", "over"} /\ (order[h].stage \in {"none", "over"} => order[h].left = 0)
  BY DEF Hand, HandOrder
<1>2. order[h].stage = "none" => ~InReading(h)
  BY DEF Hand, HandOrder, EverListed
<1>3. order[h].stage # "none" => ~InReading(h)
  BY DEF HandsShown, InReading
<1>4. order[h].stage = "working" => listed[h] # None
  BY DEF HandsShown
<1> QED BY <1>1, <1>2, <1>3, <1>4 DEF LeftListed

\* The same of the owner's sells: what the view shows of one is never below what
\* IBKR sold of it after the snapshot or may still sell.
LEMMA HandCounted ==
    ASSUME ~SlowRead, WorldTypes, LedgerTypes, HandsShown,
           NEW L \in [DOMAIN views -> SUBSET fills], NEW B \in [DOMAIN views -> SUBSET fills], Shown(L, B),
           NEW n \in DOMAIN views, NEW h \in Hands, NEW RL, Hand(h, L, RL),
           unknown[h] # <<>> => showsUnknown(ledger, h, At(n)) # None
    PROVE  \/ Need(B[n], h) = 0
           \/ unknown[h] # <<>> /\ Need(B[n], h) <= showsUnknown(ledger, h, At(n))
<1> DEFINE u == unknown[h]
           v == At(n)
           c == credited(u, v)
           m == latestList(ledger, v)
<1>1. /\ L[n] \in SUBSET B[n] /\ B[n] \in SUBSET fills
      /\ Sold(h) \in Nat /\ Had(B[n], h) \in Nat /\ Had(B[n], h) <= Sold(h)
      /\ Need(B[n], h) = order[h].left + Sold(h) - Had(B[n], h)
  <2>1. L[n] \in SUBSET B[n] /\ B[n] \in SUBSET fills
    BY DEF Shown
  <2> QED BY <2>1, HadFacts, NeedFacts
<1>2. ~InReading(h) /\ LeftListed(h) = order[h].left /\ order[h].left \in Nat
  BY HandShown, HandValues
<1>3. ASSUME NEW S \in SUBSET B[n], Had(S, h) = Sold(h), order[h].left = 0
      PROVE  Need(B[n], h) = 0
  <2>1. Had(S, h) <= Had(B[n], h)
    BY <1>1, HadMonotone
  <2> QED BY <1>1, <1>2, <1>3, <2>1
<1>4. CASE u = <<>>
  <2>1. ~EverListed(h)
    BY <1>2, <1>4 DEF EverListed
  <2>2. Had(L[n], h) = Sold(h) /\ listed[h] = None
    BY <2>1 DEF Hand, HandOrder, HandViews
  <2>3. order[h].left = 0
    BY <1>2, <2>2 DEF LeftListed
  <2> QED BY <1>1, <1>3, <2>2, <2>3
<1>5. CASE u # <<>>
  <2>1. /\ u \in Seq(Listing) /\ DOMAIN u = 1..Len(u) /\ Len(u) \in Nat /\ Len(u) > 0
        /\ \A i \in DOMAIN u : u[i].quantity \in Nat /\ u[i].by \in Nat
    BY <1>5, HandValues
  <2>2. c \in 0..Len(u) /\ (c > 0 => c \in DOMAIN u /\ credits(v, u[c]))
    BY <2>1, CreditedFacts
  <2>3. ASSUME c > 0 PROVE Listed(u[c]) /\ u[c].by \in DOMAIN views /\ L[u[c].by] \in SUBSET B[n]
    <3>1. Listed(u[c])
      BY <2>2, <2>3 DEF Hand, HandListings
    <3>2. u[c].by \in DOMAIN views /\ u[c].at = views[u[c].by].at /\ credits(At(n), u[c])
      BY <2>2, <2>3, <3>1 DEF Listed
    <3> HIDE DEF u, c, v
    <3> QED BY <3>1, <3>2, CreditedShown
  <2>4. showsUnknown(ledger, h, v) # None /\
        showsUnknown(ledger, h, v) =
          IF c > 0 /\ u[c].by = m
          THEN IF raised(SubSeq(u, c, Len(u))) THEN None ELSE u[c].quantity
          ELSE IF c < Len(u) THEN None ELSE 0
    <3>1. showsUnknown(ledger, h, v) # None
      BY <1>5
    <3> QED BY <3>1 DEF showsUnknown, ledger
  <2> HIDE DEF u, c, m, v
  <2>5. CASE c > 0 /\ u[c].by = m
    <3>1. ~raised(SubSeq(u, c, Len(u))) /\ showsUnknown(ledger, h, v) = u[c].quantity
      BY <2>4, <2>5
    <3>2. ASSUME NEW j \in DOMAIN u, c < j PROVE u[j].quantity <= u[j - 1].quantity
      <4> DEFINE w == SubSeq(u, c, Len(u))
                 i == j - c + 1
      <4>1. /\ Len(w) = Len(u) - c + 1 /\ i \in 2..Len(w) /\ c \in 1..Len(u) /\ j \in 1..Len(u) /\ j - 1 \in DOMAIN u
        BY <2>1, <2>2, <2>5, <3>2
      <4>2. w[i] = u[j] /\ w[i - 1] = u[j - 1]
        BY <2>1, <2>2, <2>5, <3>2, <4>1, SMTT(60)
      <4>3. ~(w[i].quantity > w[i - 1].quantity)
        <5> HIDE DEF w, i
        <5> QED BY <3>1, <4>1 DEF raised, w
      <4>4. u[j].quantity \in Nat /\ u[j - 1].quantity \in Nat
        BY <2>1, <4>1
      <4> HIDE DEF w, i
      <4> QED BY <4>2, <4>3, <4>4
    <3>3. Falling(h, c)
      BY <1>2, <3>2 DEF Falling, u
    <3>4. Sold(h) + order[h].left <= u[c].quantity + Had(L[u[c].by], h)
      BY <1>2, <2>2, <2>5, <3>3 DEF Hand, HandListings, u
    <3>5. Had(L[u[c].by], h) <= Had(B[n], h) /\ Had(L[u[c].by], h) \in Nat
      BY <1>1, <2>3, <2>5, HadMonotone
    <3>6. u[c].quantity \in Nat
      BY <2>1, <2>2, <2>5
    <3>7. Need(B[n], h) <= u[c].quantity
      BY <1>1, <1>2, <3>4, <3>5, <3>6
    <3> QED BY <1>5, <3>1, <3>7 DEF u, v
  <2>6. CASE ~(c > 0 /\ u[c].by = m)
    <3>1. c = Len(u) /\ c > 0 /\ u[c].by # m
      BY <2>1, <2>2, <2>4, <2>6
    <3>2. /\ u[c].by \in DOMAIN views /\ views[u[c].by].lists /\ credits(v, u[c])
          /\ u[c].at = views[u[c].by].at
      BY <2>2, <2>3, <3>1 DEF Listed
    <3>3. credits(v, [at |-> views[u[c].by].at, by |-> u[c].by])
      BY <3>2 DEF credits
    <3>4. /\ m \in 0..Len(views) /\ u[c].by <= m
          /\ m > 0 => m \in DOMAIN views /\ views[m].lists /\ credits(v, [at |-> views[m].at, by |-> m])
      BY <3>2, <3>3, LatestListFacts DEF m
    <3>5. u[c].by < m /\ u[c].by \in Nat /\ m \in Nat
      BY <2>1, <2>2, <3>1, <3>4, LedgerValues
    <3>6. m \in DOMAIN views /\ views[m].lists /\ credits(v, [at |-> views[m].at, by |-> m])
      BY <3>4, <3>5
    <3>7. \A i \in DOMAIN u : u[i].by # m
      <4>1. ASSUME NEW i \in DOMAIN u PROVE u[i].by <= u[c].by
        <5>1. CASE i = c
          BY <2>1, <5>1
        <5>2. CASE i < c
          <6>1. u[i].by < u[c].by /\ u[i].by \in Nat
            BY <2>1, <2>2, <3>1, <5>2 DEF Hand, HandListings, u
          <6> QED BY <3>5, <6>1
        <5> QED BY <2>1, <3>1, <5>1, <5>2
      <4> QED BY <2>1, <3>5, <4>1
    <3>8. order[h].stage = "over" /\ Had(L[m], h) = Sold(h)
      BY <2>2, <3>1, <3>5, <3>6, <3>7 DEF Hand, HandViews, u
    <3>9. L[m] \in SUBSET B[n]
      <4> DEFINE x == [at |-> views[m].at, by |-> m]
      <4>1. x.by \in DOMAIN views /\ x.at = views[x.by].at /\ credits(At(n), x) /\ x.by = m
        BY <3>6 DEF v
      <4> HIDE DEF x
      <4> QED BY <4>1, CreditedShown
    <3>10. order[h].left = 0
      BY <3>8 DEF Hand, HandOrder
    <3> QED BY <1>3, <3>8, <3>9, <3>10
  <2> QED BY <2>5, <2>6
<1> QED BY <1>4, <1>5

\* The two parts of toGo at any view.
LEMMA ToGoParts ==
    ASSUME WorldTypes, LedgerTypes, NEW L, NEW B, NEW RL, NEW RB, History(L, B, RL, RB), NEW v
    PROVE  /\ DOMAIN ownLeft(ledger, v) = {p \in Ours : sells[p].released > 0 /\ ~endedBefore(sells[p], v)}
           /\ \A o \in DOMAIN ownLeft(ledger, v) :
                  ownLeft(ledger, v)[o] = sells[o].released - filledBy(sells[o], v)
           /\ ownLeft(ledger, v) \in [DOMAIN ownLeft(ledger, v) -> 0..Top]
           /\ IsFiniteSet(DOMAIN ownLeft(ledger, v))
           /\ DOMAIN unknownLeft(ledger, v) = {p \in Orders : unknown[p] # <<>>}
           /\ IsFiniteSet(DOMAIN unknownLeft(ledger, v))
           /\ \A o \in DOMAIN unknownLeft(ledger, v) :
                  /\ unknownLeft(ledger, v)[o] = showsUnknown(ledger, o, v)
                  /\ unknownLeft(ledger, v)[o] \in 0..Top \cup {None}
           /\ toGo(ledger, v).ok <=> \A o \in DOMAIN unknownLeft(ledger, v) : unknownLeft(ledger, v)[o] # None
           /\ toGo(ledger, v).ok => unknownLeft(ledger, v) \in [DOMAIN unknownLeft(ledger, v) -> 0..Top]
<1> DEFINE own == ownLeft(ledger, v)
           other == unknownLeft(ledger, v)
           D == {p \in Ours : sells[p].released > 0 /\ ~endedBefore(sells[p], v)}
           E == {p \in Orders : unknown[p] # <<>>}
<1>1. own = [o \in D |-> sells[o].released - filledBy(sells[o], v)]
  BY DEF ownLeft, ledger, LedgerTypes
<1>2. other = [o \in E |-> showsUnknown(ledger, o, v)]
  BY DEF unknownLeft, ledger, LedgerTypes
<1>3. IsFiniteSet(D) /\ IsFiniteSet(E)
  <2>1. IsFiniteSet(Ours) /\ IsFiniteSet(Orders) /\ D \subseteq Ours /\ E \subseteq Orders
    BY LedgerAssumption, FS_Union
  <2> QED BY <2>1, FS_Subset
<1>4. ASSUME NEW o \in Ours PROVE sells[o].released - filledBy(sells[o], v) \in 0..Top
  <2>1. sells[o].released \in 0..Start /\ sells[o].listings \subseteq Listing
    BY LedgerValues DEF Sell
  <2>2. sells[o].released \in 0..Top
    BY <2>1, LedgerAssumption, RuleAssumption
  <2>3. \A x \in Listing : x.quantity \in 0..Top
    BY DEF Listing
  <2>4. FillSet(sells[o].fills)
    BY ReportedWithin DEF History
  <2>5. filledBy(sells[o], v) \in 0..sells[o].released
    BY <2>1, <2>2, <2>3, <2>4, FilledByFacts
  <2> QED BY <2>2, <2>5, RuleAssumption
<1>5. ASSUME NEW o \in E PROVE showsUnknown(ledger, o, v) \in 0..Top \cup {None}
  <2> DEFINE u == unknown[o]
             c == credited(u, v)
  <2>1. u \in Seq(Listing) /\ \A x \in Listing : x.quantity \in 0..Top
    BY DEF LedgerTypes, Listing
  <2>2. c > 0 => c \in DOMAIN u
    BY <2>1, CreditedFacts
  <2>3. c > 0 => u[c].quantity \in 0..Top
    <3> HIDE DEF u, c
    <3> QED BY <2>1, <2>2
  <2>4. showsUnknown(ledger, o, v) \in {None, 0} \cup (IF c > 0 THEN {u[c].quantity} ELSE {})
    BY DEF showsUnknown, ledger
  <2> HIDE DEF u, c
  <2> QED BY <2>3, <2>4, RuleAssumption
<1>6. toGo(ledger, v).ok <=> \A o \in DOMAIN other : other[o] # None
  BY DEF toGo
<1> HIDE DEF own, other, D, E
<1>7. /\ DOMAIN own = D /\ own \in [D -> 0..Top]
      /\ \A o \in D : own[o] = sells[o].released - filledBy(sells[o], v)
  BY <1>1, <1>4 DEF D
<1>8. /\ DOMAIN other = E
      /\ \A o \in E : other[o] = showsUnknown(ledger, o, v) /\ other[o] \in 0..Top \cup {None}
  BY <1>2, <1>5
<1>9. toGo(ledger, v).ok => other \in [E -> 0..Top]
  BY <1>2, <1>6, <1>8
<1> QED BY <1>3, <1>6, <1>7, <1>8, <1>9 DEF own, other, D, E

\* A snapshot that read the holding never leaves more than will truly be held.
LEMMA ViewWithinTruth ==
    ASSUME ~SlowRead, WorldTypes, LedgerTypes, Executed, HandsShown,
           NEW L \in [DOMAIN views -> SUBSET fills], NEW B \in [DOMAIN views -> SUBSET fills],
           NEW RL, NEW RB, History(L, B, RL, RB),
           NEW n \in DOMAIN views, views[n].reference, toGo(ledger, At(n)).ok
    PROVE  /\ subtractPending(views[n].held, toGo(ledger, At(n)).shares) \in Int
           /\ subtractPending(views[n].held, toGo(ledger, At(n)).shares) <= TrulyRemains
<1> DEFINE own == ownLeft(ledger, At(n))
           other == unknownLeft(ledger, At(n))
           b == [o \in Orders |-> order[o].left]
           w == [o \in Orders |-> Need(B[n], o)]
           wOwn == [o \in Ours |-> w[o]]
           wHand == [o \in Hands |-> w[o]]
           rest == fills \ B[n]
           W == {p \in Orders : order[p].stage \in {"sent", "working"}}
           left == [o \in W |-> order[o].left]
<1>f. IsFiniteSet(Ours) /\ IsFiniteSet(Hands) /\ IsFiniteSet(Orders) /\ IsFiniteSet(W)
  <2>1. IsFiniteSet(Ours) /\ IsFiniteSet(Hands) /\ IsFiniteSet(Orders)
    BY LedgerAssumption, FS_Union
  <2> QED BY <2>1, FS_Subset
<1>s. B[n] \in SUBSET fills /\ Shown(L, B) /\ Top \in Nat /\ Start \in 0..Top
  BY LedgerAssumption, RuleAssumption DEF History
<1>1. /\ own \in [DOMAIN own -> 0..Top] /\ IsFiniteSet(DOMAIN own)
      /\ \A o \in DOMAIN own : own[o] = sells[o].released - filledBy(sells[o], At(n))
      /\ other \in [DOMAIN other -> 0..Top] /\ IsFiniteSet(DOMAIN other)
      /\ DOMAIN other = {p \in Orders : unknown[p] # <<>>}
      /\ \A o \in DOMAIN other : other[o] = showsUnknown(ledger, o, At(n)) /\ other[o] # None
  BY ToGoParts
<1>2. /\ Total(own) \in Nat /\ Total(other) \in Nat
      /\ toGo(ledger, At(n)).shares = Capped(Total(own) + Total(other))
  BY <1>1, ToGoShares
<1>3. /\ w \in [Orders -> Nat] /\ b \in [Orders -> Nat] /\ left \in [W -> Nat]
      /\ wOwn \in [Ours -> Nat] /\ wHand \in [Hands -> Nat]
  <2>1. \A o \in Orders : Need(B[n], o) \in Nat /\ order[o].left \in Nat
    BY <1>s, NeedFacts, RuleAssumption DEF WorldTypes
  <2> QED BY <2>1
<1>4. Total(w) = Total(b) + Qty(rest) /\ Qty(fills) = Qty(B[n]) + Qty(rest) /\ Qty(rest) \in Nat /\ Qty(B[n]) \in Nat
  <2>1. /\ FillSet(fills) /\ FillSet(rest) /\ Qty(fills) = Qty(B[n]) + Qty(rest)
        /\ Qty(rest) \in Nat /\ Qty(B[n]) \in Nat
    BY <1>s, SoldType, QtySplit
  <2>2. \A f \in rest : f.order \in Orders
    BY DEF WorldTypes, Execution
  <2>3. w = [o \in Orders |-> b[o] + Qty(OfOrder(rest, o))]
    BY DEF Need
  <2> HIDE DEF w, rest, b
  <2>4. Total([o \in Orders |-> b[o] + Qty(OfOrder(rest, o))]) = Total(b) + Qty(rest)
    BY <1>f, <1>3, <2>1, <2>2, QtyByOrder
  <2> QED BY <2>1, <2>3, <2>4
<1>5. Total(w) = Total(wOwn) + Total(wHand)
  <2>1. Ours \in SUBSET Orders /\ Orders \ Ours = Hands
    BY LedgerAssumption
  <2> HIDE DEF w, Orders
  <2>2. IsFiniteSet(Orders) /\ w \in [Orders -> Nat] /\ Ours \in SUBSET Orders
    BY <1>f, <1>3, <2>1
  <2>3. Total(w) = Total([x \in Ours |-> w[x]]) + Total([x \in Orders \ Ours |-> w[x]])
    BY ONLY <2>2, TotalOfParts
  <2> QED BY <2>1, <2>3
<1>6. Total(wOwn) <= Total(own)
  <2>1. ASSUME NEW o \in Ours PROVE wOwn[o] = 0 \/ (o \in DOMAIN own /\ wOwn[o] <= own[o])
    <3>1. Own(o, L, B, RL, RB)
      BY DEF History
    <3>2. \/ Need(B[n], o) = 0
          \/ o \in DOMAIN own /\ Need(B[n], o) <= sells[o].released - filledBy(sells[o], At(n))
      BY <1>s, <3>1, OwnCounted
    <3>3. wOwn[o] = Need(B[n], o)
      OBVIOUS
    <3> HIDE DEF own, wOwn
    <3> QED BY <1>1, <3>2, <3>3
  <2>2. own \in [DOMAIN own -> Nat]
    <3> HIDE DEF own
    <3> QED BY <1>1, <1>s
  <2> HIDE DEF own, wOwn
  <2> QED BY <1>1, <1>3, <2>1, <2>2, TotalDominated
<1>7. Total(wHand) <= Total(other)
  <2>1. ASSUME NEW h \in Hands PROVE wHand[h] = 0 \/ (h \in DOMAIN other /\ wHand[h] <= other[h])
    <3>1. Hand(h, L, RL)
      BY DEF History
    <3>2. unknown[h] # <<>> => h \in DOMAIN other /\ other[h] = showsUnknown(ledger, h, At(n)) /\ other[h] # None
      <4> HIDE DEF other
      <4> QED BY <1>1
    <3>3. \/ Need(B[n], h) = 0
          \/ unknown[h] # <<>> /\ Need(B[n], h) <= showsUnknown(ledger, h, At(n))
      BY <1>s, <3>1, <3>2, HandCounted
    <3>4. wHand[h] = Need(B[n], h)
      OBVIOUS
    <3> HIDE DEF other, wHand
    <3> QED BY <3>2, <3>3, <3>4
  <2>2. other \in [DOMAIN other -> Nat]
    <3> HIDE DEF other
    <3> QED BY <1>1, <1>s
  <2> HIDE DEF other, wHand
  <2> QED BY <1>1, <1>3, <2>1, <2>2, TotalDominated
<1>8. Total(left) <= Total(b)
  <2>1. \A o \in W : o \in Orders /\ left[o] <= b[o]
    BY RuleAssumption DEF WorldTypes
  <2> HIDE DEF left, b, W
  <2> QED BY <1>f, <1>3, <2>1, TotalDominated
<1>9. SumPending(left) = Capped(Total(left)) /\ Total(left) \in Nat /\ Total(b) \in Nat
  <2>1. left \in [W -> 0..Top]
    BY DEF WorldTypes
  <2> HIDE DEF left, W, b
  <2> QED BY <1>f, <1>3, <2>1, SumIsTotal, UnitsFinite
<1>10. /\ views[n].held + Qty(B[n]) = Start /\ held + Qty(fills) = Start
       /\ views[n].held \in 0..Start /\ held \in 0..Start
  <2>1. views[n].held # None /\ views[n].held + Qty(B[n]) = Start
    BY <1>s DEF Shown
  <2>2. views[n].held \in 0..Start \cup {None}
    BY LedgerValues DEF View
  <2> QED BY <2>1, <2>2 DEF Executed, WorldTypes
<1>11. TrulyRemains = LET k == held - Capped(Total(left)) IN IF 0 >= k THEN 0 ELSE k
  <2>1. held - Capped(Total(left)) \in Int
    BY <1>9, <1>10, AddFacts
  <2>2. TrulyRemains = Max({0, held - SumPending(left)})
    BY DEF TrulyRemains
  <2> HIDE DEF left
  <2> QED BY <1>9, <2>1, <2>2, MaxOfTwo
<1> DEFINE shares == toGo(ledger, At(n)).shares
<1>13. /\ Total(wOwn) \in Nat /\ Total(wHand) \in Nat
  BY <1>f, <1>3, UnitsFinite
<1> HIDE DEF own, other, b, w, wOwn, wHand, rest, W, left, shares
<1>14. /\ shares = Capped(Total(own) + Total(other)) /\ shares \in 0..Top
       /\ Total(own) + Total(other) >= Total(left) + Qty(rest)
  <2>1. shares = Capped(Total(own) + Total(other))
    BY <1>2 DEF shares
  <2>2. Total(own) + Total(other) >= Total(left) + Qty(rest)
    BY <1>2, <1>4, <1>5, <1>6, <1>7, <1>8, <1>9, <1>13
  <2> QED BY <1>2, <2>1, <2>2, AddFacts
<1>15. views[n].held = held + Qty(rest)
  BY <1>4, <1>10
<1>16. subtractPending(views[n].held, shares) = views[n].held - shares
  BY <1>10, <1>14, <1>s DEF subtractPending, Bottom
<1>17. views[n].held - shares <= TrulyRemains
  <2>1. CASE shares = Top
    <3>1. held - Capped(Total(left)) \in Int
      BY <1>9, <1>10, AddFacts
    <3>2. TrulyRemains >= 0 /\ TrulyRemains \in Int
      <4> DEFINE k == held - Capped(Total(left))
      <4>1. k \in Int /\ TrulyRemains = IF 0 >= k THEN 0 ELSE k
        BY <1>11, <3>1
      <4> HIDE DEF k
      <4> QED BY <4>1
    <3> QED BY <1>10, <1>s, <2>1, <3>2
  <2>2. CASE shares # Top
    <3>1. shares = Total(own) + Total(other)
      BY <1>14, <2>2 DEF Capped
    <3>2. Total(left) <= shares /\ Capped(Total(left)) = Total(left)
      BY <1>4, <1>9, <1>14, <3>1, <1>s DEF Capped
    <3> QED BY <1>4, <1>9, <1>10, <1>11, <1>14, <1>15, <3>1, <3>2
  <2> QED BY <2>1, <2>2
<1>18. views[n].held - shares \in Int
  BY <1>10, <1>14
<1> QED BY <1>16, <1>17, <1>18 DEF shares

----------------------------------------------------------------------------
(* The most that is sure to be held *)

\* The snapshots remains may ask, what each leaves, and the second of the latest
\* quiet one.
Asked    == {n \in DOMAIN views : views[n].reference /\ toGo(ledger, At(n)).ok}
Bound(n) == subtractPending(views[n].held, toGo(ledger, At(n)).shares)
Quiet    == {n \in Asked : toGo(ledger, At(n)).quiet}
Stop     == Max({0} \cup {views[n].at : n \in Quiet})

LEMMA BoundFacts ==
    ASSUME WorldTypes, LedgerTypes, NEW L, NEW B, NEW RL, NEW RB, History(L, B, RL, RB), NEW n \in Asked
    PROVE  LET own == ownLeft(ledger, At(n))
               other == unknownLeft(ledger, At(n))
           IN  /\ own \in [DOMAIN own -> 0..Top] /\ IsFiniteSet(DOMAIN own) /\ Total(own) \in Nat
               /\ other \in [DOMAIN other -> 0..Top] /\ IsFiniteSet(DOMAIN other) /\ Total(other) \in Nat
               /\ views[n].held \in 0..Start /\ views[n].held + Qty(B[n]) = Start
               /\ Bound(n) = views[n].held - Capped(Total(own) + Total(other))
               /\ Bound(n) \in Int /\ Bound(n) <= views[n].held
<1> DEFINE own == ownLeft(ledger, At(n))
           other == unknownLeft(ledger, At(n))
           shares == toGo(ledger, At(n)).shares
<1>1. /\ own \in [DOMAIN own -> 0..Top] /\ IsFiniteSet(DOMAIN own)
      /\ other \in [DOMAIN other -> 0..Top] /\ IsFiniteSet(DOMAIN other)
  BY ToGoParts DEF Asked
<1>2. Total(own) \in Nat /\ Total(other) \in Nat /\ shares = Capped(Total(own) + Total(other))
  BY <1>1, ToGoShares DEF Asked
<1>3. views[n].held \in 0..Start /\ views[n].held + Qty(B[n]) = Start
  <2>1. n \in DOMAIN views /\ views[n].held # None /\ views[n].held + Qty(B[n]) = Start
    BY DEF Asked, History, Shown
  <2>2. views[n].held \in 0..Start \cup {None}
    BY <2>1, LedgerValues DEF View
  <2> QED BY <2>1, <2>2
<1> HIDE DEF own, other, shares
<1>4. shares \in 0..Top
  BY <1>2, AddFacts
<1>5. Bound(n) = views[n].held - shares
  <2>1. Bound(n) = subtractPending(views[n].held, shares)
    BY DEF Bound, shares
  <2> QED BY <1>3, <1>4, <2>1, LedgerAssumption, RuleAssumption DEF subtractPending, Bottom
<1>6. Bound(n) \in Int /\ Bound(n) <= views[n].held
  BY <1>3, <1>4, <1>5
<1> QED BY <1>1, <1>2, <1>3, <1>5, <1>6 DEF own, other

LEMMA RemainsFacts ==
    ASSUME WorldTypes, LedgerTypes, NEW L, NEW B, NEW RL, NEW RB, History(L, B, RL, RB)
    PROVE  /\ Stop \in Nat /\ \A n \in Quiet : views[n].at <= Stop
           /\ Stop = 0 \/ \E n \in Quiet : views[n].at = Stop
           /\ remains(ledger) \in Nat
           /\ \A n \in Asked : views[n].at >= Stop => Bound(n) <= remains(ledger)
           /\ remains(ledger) = 0 \/ \E n \in Asked : views[n].at >= Stop /\ remains(ledger) = Bound(n)
<1> DEFINE T == {0} \cup {views[n].at : n \in Quiet}
           R == {0} \cup {Bound(n) : n \in {m \in Asked : views[m].at >= Stop}}
<1>1. \A n \in Asked : n \in DOMAIN views /\ views[n].at \in Nat /\ views[n].at <= clock
  BY LedgerValues DEF Asked, History, Shown
<1>2. Max(T) \in T /\ \A x \in T : x <= Max(T)
  <2>1. T \in SUBSET Int /\ T # {} /\ clock \in Int /\ \A x \in T : x <= clock
    BY <1>1 DEF Quiet, WorldTypes
  <2> HIDE DEF T
  <2> QED BY <2>1, MaxFacts
<1>3. /\ Stop \in Nat /\ \A n \in Quiet : views[n].at <= Stop
      /\ Stop = 0 \/ \E n \in Quiet : views[n].at = Stop
  <2>1. Stop \in T /\ \A x \in T : x <= Stop
    BY <1>2 DEF Stop
  <2> QED BY <1>1, <2>1 DEF Quiet
<1>4. \A n \in Asked : Bound(n) \in Int /\ Bound(n) <= Start /\ Start \in Nat
  <2>1. ASSUME NEW n \in Asked PROVE Bound(n) \in Int /\ Bound(n) <= Start /\ Start \in Nat
    <3>1. views[n].held \in 0..Start /\ Bound(n) \in Int /\ Bound(n) <= views[n].held
      BY BoundFacts
    <3> QED BY <3>1, LedgerAssumption, RuleAssumption
  <2> QED BY <2>1
<1>5. Max(R) \in R /\ \A x \in R : x <= Max(R)
  <2>1. R \in SUBSET Int /\ R # {} /\ Start \in Int /\ \A x \in R : x <= Start
    BY <1>4, LedgerAssumption, RuleAssumption
  <2> HIDE DEF R
  <2> QED BY <2>1, MaxFacts
<1>6. remains(ledger) = Max(R)
  <2> DEFINE ref(n) == [at |-> views[n].at, held |-> views[n].held, toGo |-> toGo(ledger, At(n))]
             bounds == {r \in refs(ledger) : r.toGo.ok}
  <2>1. refs(ledger) = {ref(n) : n \in {m \in DOMAIN views : views[m].reference}}
    BY DEF refs, ledger, At
  <2>2. \A n : ref(n).at = views[n].at /\ ref(n).held = views[n].held /\ ref(n).toGo = toGo(ledger, At(n))
    OBVIOUS
  <2> HIDE DEF ref
  <2>3. bounds = {ref(n) : n \in Asked}
    BY <2>1, <2>2 DEF Asked
  <2>4. {0} \cup {r.at : r \in {q \in bounds : q.toGo.quiet}} = T
    BY <2>2, <2>3 DEF Quiet
  <2>5. {0} \cup {subtractPending(r.held, r.toGo.shares) : r \in {q \in bounds : q.at >= Stop}} = R
    BY <2>2, <2>3 DEF Bound
  <2>6. remains(ledger) =
          Max({0} \cup {subtractPending(r.held, r.toGo.shares) :
                         r \in {q \in bounds : q.at >= Max({0} \cup {z.at : z \in {y \in bounds : y.toGo.quiet}})}})
    BY DEF remains
  <2> HIDE DEF bounds
  <2> QED BY <2>4, <2>5, <2>6 DEF Stop
<1>7. remains(ledger) \in R /\ \A x \in R : x <= remains(ledger)
  BY <1>5, <1>6
<1>8. remains(ledger) \in Nat
  BY <1>4, <1>7
<1> QED BY <1>3, <1>7, <1>8

\* The promise of internal/risklimit/pending.go for every number of sells, of hands
\* and of readings: whatever order fills, ends, lists and snapshots reach the gate
\* in, remains is never above what is held once every working sell has filled.  The
\* hypothesis is that a snapshot's time is asked in the second its positions were
\* read, which the code does not ensure.
THEOREM RemainsWithinTruthAlways ==
    ASSUME ~SlowRead
    PROVE  Spec => []RemainsWithinTruth
<1>1. LedgerInv => RemainsWithinTruth
  <2> SUFFICES ASSUME LedgerInv, HandsShown PROVE remains(ledger) <= TrulyRemains
    BY DEF RemainsWithinTruth
  <2>1. PICK L, B \in [DOMAIN views -> SUBSET fills], RL, RB \in SUBSET fills : History(L, B, RL, RB)
    BY DEF LedgerInv
  <2>2. WorldTypes /\ LedgerTypes /\ Executed
    BY DEF LedgerInv
  <2>3. \A n \in Asked : Bound(n) <= TrulyRemains
    BY <2>1, <2>2, ViewWithinTruth DEF Asked, Bound
  <2>4. TrulyRemains >= 0
    <3> DEFINE left == [o \in {p \in Orders : order[p].stage \in {"sent", "working"}} |-> order[o].left]
    <3>1. IsFiniteSet(DOMAIN left) /\ left \in [DOMAIN left -> 0..Top] /\ left \in [DOMAIN left -> Nat]
      <4>1. IsFiniteSet(Orders)
        BY LedgerAssumption, FS_Union
      <4>2. IsFiniteSet({p \in Orders : order[p].stage \in {"sent", "working"}})
        BY <4>1, FS_Subset
      <4> QED BY <2>2, <4>2, RuleAssumption DEF WorldTypes
    <3>2. TrulyRemains = Max({0, held - SumPending(left)})
      BY DEF TrulyRemains
    <3> HIDE DEF left
    <3>3. SumPending(left) = Capped(Total(left)) /\ Total(left) \in Nat
      BY <3>1, SumIsTotal, UnitsFinite
    <3>4. held - SumPending(left) \in Int
      <4>1. held \in Int
        BY <2>2 DEF WorldTypes
      <4> QED BY <3>3, <4>1, AddFacts
    <3> QED BY <3>2, <3>4, MaxOfTwo
  <2>5. remains(ledger) = 0 \/ \E n \in Asked : remains(ledger) = Bound(n)
    BY <2>1, <2>2, RemainsFacts
  <2> QED BY <2>3, <2>4, <2>5
<1> QED BY <1>1, LedgerAlways, PTL

----------------------------------------------------------------------------
(* The account snapshot, and listings in the order of their snapshots *)

\* An account snapshot reads the holding and no list; listings follow one another.
AccountRead ==
    /\ reading # Idle /\ reading.kind = "account" => reading.list = None
    /\ account # 0 => ~views[account].lists /\ (views[account].held # None => views[account].reference)

Sorted == \A o \in Orders : \A i, j \in DOMAIN unknown[o] : i < j => unknown[o][i].by < unknown[o][j].by

AllListed == \A o \in Orders : \A i \in DOMAIN unknown[o] : Listed(unknown[o][i])

LEMMA ListedAll ==
    ASSUME LedgerInv
    PROVE  AllListed
<1>1. PICK L, B \in [DOMAIN views -> SUBSET fills], RL, RB \in SUBSET fills : History(L, B, RL, RB)
  BY DEF LedgerInv
<1>2. ASSUME NEW o \in Ours, NEW i \in DOMAIN unknown[o] PROVE Listed(unknown[o][i])
  <2>1. unknown[o][i] \in Known(o)
    BY DEF Known
  <2> QED BY <1>1, <2>1 DEF History, Own, OwnListings
<1>3. ASSUME NEW h \in Hands, NEW i \in DOMAIN unknown[h] PROVE Listed(unknown[h][i])
  BY <1>1 DEF History, Hand, HandListings
<1> QED BY <1>2, <1>3 DEF AllListed

LEMMA AccountReadStep ==
    ASSUME LedgerInv, AccountRead, [Next]_vars
    PROVE  AccountRead'
<1>t. WorldTypes /\ LedgerTypes
  BY DEF LedgerInv
<1>1. CASE ObserveReading
  <2>1. account' = (IF reading.kind = "account" THEN Len(views) + 1 ELSE account) /\ reading' = Idle
    BY <1>1 DEF ObserveReading
  <2>2. CASE reading.kind = "account"
    <3>1. views'[account'] = Observed /\ reading # Idle
      BY <1>1, <1>t, <2>1, <2>2, OneMoreView, ReadingEffect
    <3>2. reading.list = None
      BY <2>2, <3>1 DEF AccountRead
    <3>3. ~Observed.lists /\ (Observed.held # None => Observed.reference)
      BY <2>2, <3>2 DEF Observed
    <3> QED BY <2>1, <3>1, <3>3 DEF AccountRead
  <2>3. CASE reading.kind # "account"
    <3>1. account # 0 => account \in DOMAIN views
      BY <1>t, LedgerValues DEF LedgerTypes
    <3>2. account # 0 => views'[account] = views[account]
      BY <1>1, <1>t, <3>1, OneMoreView
    <3> QED BY <2>1, <2>3, <3>2 DEF AccountRead
  <2> QED BY <2>2, <2>3
<1>2. CASE RestoreRecovery
  BY <1>2 DEF RestoreRecovery, AccountRead
<1>3. CASE ReadOrders
  <2>1. reading'.kind = "broker" /\ account' = account /\ views' = views
    BY <1>3, <1>t, OrdersEffect DEF ledgerVars
  <2> QED BY <2>1 DEF AccountRead
<1>4. CASE ReadPositions
  <2>1. (reading'.kind = "account" => reading'.list = None) /\ account' = account /\ views' = views
    BY <1>4 DEF ReadPositions, ledgerVars
  <2> QED BY <2>1 DEF AccountRead
<1>5. CASE account' = account /\ views' = views /\ reading' = reading
  BY <1>5 DEF AccountRead
<1>6. ASSUME NEW o \in Ours, NEW q \in 1..Start, release(o, q)
      PROVE  account' = account /\ views' = views /\ reading' = reading
  BY <1>6, <1>t, ReleaseEffect DEF release, readVars
<1>7. ASSUME NEW f \in fills, ObserveFill(f)
      PROVE  account' = account /\ views' = views /\ reading' = reading
  BY <1>7, <1>t, FillEffect DEF ObserveFill, readVars
<1>8. ASSUME NEW o \in Ours, ObserveLifecycle(o)
      PROVE  account' = account /\ views' = views /\ reading' = reading
  BY <1>8, <1>t, LifecycleEffect DEF ObserveLifecycle, readVars
<1>9. ASSUME ~ObserveReading, ~RestoreRecovery, ~ReadOrders, ~ReadPositions,
             \A o \in Ours, q \in 1..Start : ~release(o, q), \A f \in fills : ~ObserveFill(f),
             \A o \in Ours : ~ObserveLifecycle(o)
      PROVE  account' = account /\ views' = views /\ reading' = reading
  BY <1>9 DEF Next, Release, Tick, Arrive, Fill, Cancel, PlaceByHand, RaiseByHand, vars, readVars, ledgerVars
<1> QED BY <1>1, <1>2, <1>3, <1>4, <1>5, <1>6, <1>7, <1>8, <1>9

LEMMA SortedStep ==
    ASSUME LedgerInv, Sorted, [Next]_vars
    PROVE  Sorted'
<1>t. WorldTypes /\ LedgerTypes
  BY DEF LedgerInv
<1>1. ASSUME \A o \in Orders : unknown'[o] \in {<<>>, unknown[o]}
      PROVE  Sorted'
  BY <1>1 DEF Sorted
<1>2. CASE ObserveReading
  <2>1. ASSUME NEW o \in Orders, NEW i \in DOMAIN unknown'[o], NEW j \in DOMAIN unknown'[o], i < j
        PROVE  unknown'[o][i].by < unknown'[o][j].by
    <3>1. Relisted(o)
      BY <1>2, <1>t, ReadingEffect
    <3>2. CASE unknown'[o] \in {<<>>, unknown[o]}
      BY <2>1, <3>2 DEF Sorted
    <3>3. CASE unknown'[o] = Append(unknown[o], Stamped(o))
      <4> DEFINE u == unknown[o]
                 x == Stamped(o)
      <4>1. u \in Seq(Listing) /\ DOMAIN u = 1..Len(u) /\ Len(u) \in Nat
        BY <1>t DEF LedgerTypes
      <4>2. \A k \in DOMAIN u : u[k].by \in DOMAIN views
        BY ListedAll DEF AllListed, Listed
      <4>3. \A k \in DOMAIN u : u[k].by < x.by
        BY <1>2, <1>t, <4>2, OneMoreView DEF Stamped
      <4> HIDE DEF u, x
      <4>4. unknown'[o] = Append(u, x)
        BY <3>3 DEF u, x
      <4>5. /\ DOMAIN unknown'[o] = 1..(Len(u) + 1) /\ unknown'[o][Len(u) + 1] = x
            /\ \A k \in 1..Len(u) : unknown'[o][k] = u[k]
        BY <4>1, <4>4
      <4>6. i \in DOMAIN u /\ unknown'[o][i] = u[i]
        BY <2>1, <4>1, <4>5
      <4>7. CASE j \in DOMAIN u
        BY <2>1, <4>1, <4>5, <4>6, <4>7 DEF Sorted, u
      <4>8. CASE j = Len(u) + 1
        BY <4>3, <4>5, <4>6, <4>8
      <4> QED BY <4>1, <4>5, <4>7, <4>8
    <3> QED BY <3>1, <3>2, <3>3 DEF Relisted
  <2> QED BY <2>1 DEF Sorted
<1>3. ASSUME NEW o \in Ours, ObserveLifecycle(o)
      PROVE  \A p \in Orders : unknown'[p] \in {<<>>, unknown[p]}
  BY <1>3, <1>t, LifecycleEffect
<1>4. ASSUME NEW o \in Ours, NEW q \in 1..Start, release(o, q)
      PROVE  unknown' = unknown
  BY <1>4, <1>t, ReleaseEffect
<1>5. ASSUME NEW f \in fills, ObserveFill(f)
      PROVE  unknown' = unknown
  BY <1>5, <1>t, FillEffect
<1>6. CASE RestoreRecovery
  <2>1. \A o \in Orders : unknown'[o] = <<>>
    BY <1>6 DEF RestoreRecovery
  <2> QED BY <1>1, <2>1
<1>7. ASSUME ~ObserveReading, ~RestoreRecovery,
             \A o \in Ours, q \in 1..Start : ~release(o, q), \A f \in fills : ~ObserveFill(f),
             \A o \in Ours : ~ObserveLifecycle(o)
      PROVE  unknown' = unknown
  BY <1>7 DEF Next, Release, ReadOrders, ReadPositions, Tick, Arrive, Fill, Cancel, PlaceByHand, RaiseByHand, vars,
              readVars, ledgerVars
<1> QED BY <1>1, <1>2, <1>3, <1>4, <1>5, <1>6, <1>7

LEMMA FiledAlways == Spec => [](AccountRead /\ Sorted)
<1>1. Init => AccountRead /\ Sorted
  BY DEF Init, AccountRead, Sorted
<1>2. LedgerInv /\ AccountRead /\ Sorted /\ [Next]_vars => (AccountRead /\ Sorted)'
  BY AccountReadStep, SortedStep
<1> QED BY <1>1, <1>2, LedgerAlways, PTL DEF Spec

----------------------------------------------------------------------------
(* Nothing is held back for ever *)

\* A sell of the gate's that is over, and whose reports all came and are of a
\* second before the view's, has nothing left to sell after it.
LEMMA SettledOwn ==
    ASSUME WorldTypes, LedgerTypes, NEW L, NEW B, NEW RL, NEW RB, NEW o \in Ours, Own(o, L, B, RL, RB),
           order[o].stage \in {"none", "over"}, sells[o].released > 0, NEW v, ~endedBefore(sells[o], v),
           v.at \in Nat,
           \A f \in OfOrder(fills, o) : f.at < v.at /\ f \in sells[o].fills,
           \A e \in ends : e.order = o => e.at < v.at /\ sells[o].ended
    PROVE  filledBy(sells[o], v) = sells[o].released
<1> DEFINE s == sells[o]
<1>1. s.fills = OfOrder(fills, o) /\ FillSet(s.fills) /\ Qty(s.fills) \in Nat
  BY ReportedWithin
<1>2. Sold(o) = Qty(s.fills) /\ s.released \in Nat
  BY <1>1, LedgerValues DEF Sold, Had
<1>3. s.released = Sold(o)
  <2>1. order[o].stage = "over" /\ Sold(o) <= s.released
    BY <1>2 DEF Own, OwnOrder
  <2>2. ~(s.released > Sold(o))
    <3>1. ASSUME s.released > Sold(o) PROVE FALSE
      <4>1. PICK e \in ends : e.order = o
        BY <2>1, <3>1 DEF Own, OwnReports
      <4>2. s.ended
        BY <4>1
      <4>3. s.end < v.at
        BY <4>2 DEF Own, OwnReports
      <4>4. endedBefore(s, v)
        BY <1>1, <4>2, <4>3 DEF endedBefore
      <4> QED BY <4>4
    <3> QED BY <3>1
  <2> QED BY <1>1, <1>2, <2>1, <2>2
<1>4. {f \in s.fills : 0 < f.at /\ f.at < v.at} = s.fills
  <2>1. \A f \in s.fills : f.at \in Nat \ {0} /\ f.at < v.at
    BY <1>1 DEF OfOrder, WorldTypes, Execution
  <2> QED BY <2>1
<1>5. s.released \in 0..Top /\ \A x \in s.listings : x.quantity \in 0..Top
  <2>1. s.released \in 0..Start /\ s.listings \subseteq Listing
    BY LedgerValues DEF Sell
  <2>2. \A x \in Listing : x.quantity \in 0..Top
    BY DEF Listing
  <2> QED BY <2>1, <2>2, LedgerAssumption, RuleAssumption
<1>6. Reported(s, v, 0) = s.released
  <2>1. Reported(s, v, 0) = Shares(s.fills)
    BY <1>4 DEF Reported
  <2>2. Shares(s.fills) = Capped(s.released)
    BY <1>1, <1>2, <1>3, QtyFacts
  <2> HIDE DEF s
  <2> QED BY <1>5, <2>1, <2>2, RuleAssumption DEF Capped
<1>7. /\ filledBy(s, v) \in 0..s.released
      /\ filledBy(s, v) = s.released \/ Reported(s, v, 0) <= filledBy(s, v)
  <2>1. Reported(s, v, 0) \in Best(s, v)
    BY DEF Best
  <2> HIDE DEF s
  <2> QED BY <1>1, <1>5, <2>1, FilledByFacts
<1> HIDE DEF s
<1>8. filledBy(s, v) = s.released
  BY <1>2, <1>6, <1>7
<1> QED BY <1>8 DEF s

\* A sell the ledger cannot name, last listed before the latest list of open orders
\* of a second before the view's, is gone.
LEMMA SettledUnknown ==
    ASSUME LedgerInv, Sorted, NEW n \in DOMAIN views, ~views[n].lists, NEW o \in Orders, unknown[o] # <<>>,
           unknown[o][Len(unknown[o])].by < latestList(ledger, At(n))
    PROVE  showsUnknown(ledger, o, At(n)) = 0
<1> DEFINE u == unknown[o]
           v == At(n)
           c == credited(u, v)
           m == latestList(ledger, v)
<1>t. WorldTypes /\ LedgerTypes
  BY DEF LedgerInv
<1>1. /\ u \in Seq(Listing) /\ DOMAIN u = 1..Len(u) /\ Len(u) \in Nat /\ Len(u) > 0 /\ Len(u) \in DOMAIN u
  BY <1>t DEF LedgerTypes
<1>2. \A i \in DOMAIN u : u[i].by \in DOMAIN views /\ u[i].at = views[u[i].by].at
  BY ListedAll DEF AllListed, Listed
<1>3. DOMAIN views = 1..Len(views) /\ Len(views) \in Nat
  BY <1>t, LedgerValues
<1>4. /\ m \in 0..Len(views)
      /\ m > 0 => m \in DOMAIN views /\ views[m].lists /\ credits(v, [at |-> views[m].at, by |-> m])
  BY <1>t, LatestListFacts
<1>u. showsUnknown(ledger, o, v) =
          IF c > 0 /\ u[c].by = m
          THEN IF raised(SubSeq(u, c, Len(u))) THEN None ELSE u[c].quantity
          ELSE IF c < Len(u) THEN None ELSE 0
  BY DEF showsUnknown, ledger
<1>l. u[Len(u)].by < m
  OBVIOUS
<1>s. \A i, j \in DOMAIN u : i < j => u[i].by < u[j].by
  BY DEF Sorted
<1>c. c = Max({0} \cup {i \in DOMAIN u : \A j \in 1..i : credits(v, u[j])})
  BY DEF credited
<1> HIDE DEF u, c, m
<1>5. m > 0
  BY <1>1, <1>2, <1>3, <1>4, <1>l
<1>6. views[m].at < views[n].at
  <2>1. credits(v, [at |-> views[m].at, by |-> m]) /\ m # n
    BY <1>4, <1>5
  <2> QED BY <2>1 DEF credits, At
<1>7. ASSUME NEW i \in DOMAIN u PROVE credits(v, u[i])
  <2>1. u[i].by <= m
    <3>1. CASE i = Len(u)
      BY <1>2, <1>3, <1>4, <1>l, <3>1
    <3>2. CASE i < Len(u)
      BY <1>1, <1>2, <1>3, <1>4, <1>l, <1>s, <3>2
    <3> QED BY <1>1, <3>1, <3>2
  <2>2. views[u[i].by].at <= views[m].at
    <3>1. PICK L, B : Shown(L, B)
      BY DEF LedgerInv, History
    <3> QED BY <1>2, <1>4, <1>5, <2>1, <3>1 DEF Shown
  <2>3. u[i].at < views[n].at
    BY <1>2, <1>4, <1>5, <1>6, <1>t, <2>2, LedgerValues
  <2> QED BY <2>3 DEF credits, At
<1>8. c = Len(u)
  <2> DEFINE C == {0} \cup {i \in DOMAIN u : \A j \in 1..i : credits(v, u[j])}
  <2>1. Len(u) \in C
    <3>1. \A j \in 1..Len(u) : credits(v, u[j])
      BY <1>1, <1>7
    <3> HIDE DEF v
    <3> QED BY <1>1, <3>1
  <2>2. C \in SUBSET Int /\ C # {} /\ Len(u) \in Int /\ \A x \in C : x <= Len(u)
    BY <1>1
  <2>3. c = Max(C)
    BY <1>c
  <2> HIDE DEF C
  <2>4. Max(C) \in C /\ \A x \in C : x <= Max(C)
    BY <2>2, MaxFacts
  <2>5. Max(C) \in Int /\ Max(C) <= Len(u) /\ Len(u) <= Max(C)
    BY <2>1, <2>2, <2>4
  <2> QED BY <2>2, <2>3, <2>5
<1>9. u[c].by # m
  BY <1>1, <1>2, <1>3, <1>4, <1>8, <1>l
<1> QED BY <1>1, <1>8, <1>9, <1>u

\* A snapshot no earlier than one everything was settled before leaves its whole
\* holding, when it shows no sell the ledger cannot name.
LEMMA SettledBound ==
    ASSUME WorldTypes, LedgerTypes, NEW L, NEW B, NEW RL, NEW RB, History(L, B, RL, RB),
           NEW n \in DOMAIN views, SettledBefore(n), NEW m \in Asked, views[n].at <= views[m].at,
           \A o \in DOMAIN unknownLeft(ledger, At(m)) : unknownLeft(ledger, At(m))[o] = 0
    PROVE  Bound(m) = views[m].held /\ views[m].held \in 0..Start /\ m \in Quiet
<1> DEFINE own == ownLeft(ledger, At(m))
           other == unknownLeft(ledger, At(m))
<1>1. /\ own \in [DOMAIN own -> 0..Top] /\ other \in [DOMAIN other -> 0..Top]
      /\ views[m].held \in 0..Start /\ Bound(m) = views[m].held - Capped(Total(own) + Total(other))
  BY BoundFacts
<1>2. \A o \in DOMAIN own : own[o] = 0
  <2>1. ASSUME NEW o \in DOMAIN own PROVE own[o] = 0
    <3>1. /\ o \in Ours /\ sells[o].released > 0 /\ ~endedBefore(sells[o], At(m))
          /\ own[o] = sells[o].released - filledBy(sells[o], At(m))
      BY ToGoParts
    <3>2. Own(o, L, B, RL, RB)
      BY <3>1 DEF History
    <3>3. At(m).at = views[m].at /\ views[m].at \in Nat /\ views[n].at \in Nat
      BY LedgerValues DEF Asked, At
    <3>4. order[o].stage \in {"none", "over"}
      BY <3>1 DEF SettledBefore
    <3>5. \A f \in OfOrder(fills, o) : f.at < At(m).at /\ f \in sells[o].fills
      <4>1. \A f \in OfOrder(fills, o) : f.at \in Nat /\ f.at < views[n].at /\ f \in sells[o].fills
        BY <3>1 DEF SettledBefore, OfOrder, WorldTypes, Execution
      <4> QED BY <3>3, <4>1
    <3>6. \A e \in ends : e.order = o => e.at < At(m).at /\ sells[o].ended
      <4>1. \A e \in ends : e.order = o => e.at \in Nat /\ e.at < views[n].at /\ sells[o].ended
        BY <3>1 DEF SettledBefore, WorldTypes
      <4> QED BY <3>3, <4>1
    <3>7. filledBy(sells[o], At(m)) = sells[o].released
      BY <3>1, <3>2, <3>3, <3>4, <3>5, <3>6, SettledOwn
    <3>8. sells[o].released \in Nat
      BY <3>1, LedgerValues
    <3> QED BY <3>1, <3>7, <3>8
  <2> QED BY <2>1
<1>3. m \in Quiet
  BY <1>2 DEF Quiet, toGo
<1>4. own \in [DOMAIN own -> Nat] /\ other \in [DOMAIN other -> Nat] /\ \A o \in DOMAIN other : other[o] = 0
  <2>1. \A o \in DOMAIN other : other[o] = 0
    OBVIOUS
  <2> HIDE DEF own, other
  <2> QED BY <1>1, <2>1, RuleAssumption
<1> HIDE DEF own, other
<1>5. Total(own) = 0 /\ Total(other) = 0
  BY <1>2, <1>4, TotalOfNone
<1> QED BY <1>1, <1>3, <1>5, RuleAssumption DEF Capped

\* internal/risklimit/pending.go holds no share back for ever, for every number of
\* sells, of hands and of readings: once every sell is over and IBKR's reports of
\* them have reached the gate, the account snapshot of a later second has all of its
\* shares free to sell.
THEOREM SettledFreesAllAlways ==
    ASSUME ~SlowRead
    PROVE  Spec => []SettledFreesAll
<1>1. LedgerInv /\ AccountRead /\ Sorted => SettledFreesAll
  <2> DEFINE n == account
             have == IF views[n].held = None THEN 0 ELSE views[n].held
  <2> SUFFICES ASSUME LedgerInv, AccountRead, Sorted, n # 0, SettledBefore(n) PROVE unshown(ledger, n) = 0
    BY DEF SettledFreesAll
  <2>1. PICK L, B \in [DOMAIN views -> SUBSET fills], RL, RB \in SUBSET fills : History(L, B, RL, RB)
    BY DEF LedgerInv
  <2>2. WorldTypes /\ LedgerTypes
    BY DEF LedgerInv
  <2>3. n \in DOMAIN views /\ ~views[n].lists
    BY <2>2, LedgerValues DEF LedgerTypes, AccountRead
  <2>4. unshown(ledger, n) = Max({0, subtractPending(have, remains(ledger))})
    BY DEF unshown, ledger
  <2>5. remains(ledger) \in Nat /\ have <= remains(ledger) /\ have \in 0..Start
    <3>1. remains(ledger) \in Nat
      BY <2>1, <2>2, RemainsFacts
    <3>2. CASE views[n].held = None
      BY <3>1, <3>2, LedgerAssumption, RuleAssumption
    <3>3. CASE views[n].held # None
      <4>1. \A o \in DOMAIN unknownLeft(ledger, At(n)) : unknownLeft(ledger, At(n))[o] = 0
        <5>1. ASSUME NEW o \in DOMAIN unknownLeft(ledger, At(n)) PROVE unknownLeft(ledger, At(n))[o] = 0
          <6>1. o \in Orders /\ unknown[o] # <<>> /\ unknownLeft(ledger, At(n))[o] = showsUnknown(ledger, o, At(n))
            BY <2>1, <2>2, ToGoParts
          <6>2. unknown[o][Len(unknown[o])].by < latestList(ledger, At(n))
            BY <6>1 DEF SettledBefore, At
          <6>3. showsUnknown(ledger, o, At(n)) = 0
            BY <2>3, <6>1, <6>2, SettledUnknown
          <6> QED BY <6>1, <6>3
        <5> QED BY <5>1
      <4>2. n \in Asked
        <5>1. 0 # None
          BY RuleAssumption
        <5>2. toGo(ledger, At(n)).ok
          BY <4>1, <5>1 DEF toGo
        <5> QED BY <2>3, <3>3, <5>2 DEF Asked, AccountRead
      <4>3. Bound(n) = views[n].held /\ views[n].held \in 0..Start /\ n \in Quiet
        <5>1. views[n].at <= views[n].at
          BY <2>2, <2>3, LedgerValues
        <5> HIDE DEF n
        <5> QED BY <2>1, <2>2, <2>3, <4>1, <4>2, <5>1, SettledBound
      <4>4. /\ Stop \in Nat /\ views[n].at <= Stop
            /\ Stop = 0 \/ \E m \in Quiet : views[m].at = Stop
            /\ \A m \in Asked : views[m].at >= Stop => Bound(m) <= remains(ledger)
        BY <2>1, <2>2, <4>3, RemainsFacts
      <4>5. views[n].at \in Nat
        BY <2>2, <2>3, LedgerValues
      <4>6. CASE views[n].at = Stop
        <5>1. views[n].at >= Stop
          BY <4>4, <4>6
        <5>2. Bound(n) <= remains(ledger)
          BY <4>2, <4>4, <5>1
        <5> QED BY <3>1, <3>3, <4>3, <5>2
      <4>7. CASE views[n].at # Stop
        <5>1. PICK m \in Quiet : views[m].at = Stop
          BY <4>4, <4>5, <4>7
        <5>2. m \in Asked /\ views[n].at <= views[m].at
          BY <4>4, <5>1 DEF Quiet
        <5>3. \A o \in DOMAIN unknownLeft(ledger, At(m)) : unknownLeft(ledger, At(m))[o] = 0
          BY <5>1 DEF Quiet, toGo
        <5>4. Bound(m) = views[m].held /\ views[m].held \in 0..Start
          <6> HIDE DEF n
          <6> QED BY <2>1, <2>2, <2>3, <5>2, <5>3, SettledBound
        <5>5. Bound(m) <= remains(ledger)
          BY <4>4, <5>1, <5>2
        <5>6. views[m].held + Qty(B[m]) = Start /\ views[n].held + Qty(B[n]) = Start
          BY <2>1, <2>2, <4>2, <5>2, BoundFacts
        <5>7. B[n] = fills /\ B[m] \in SUBSET fills
          <6>1. m \in DOMAIN views
            BY <5>2 DEF Asked
          <6> QED BY <2>1, <2>3, <6>1, ZenonT(60) DEF History, Shown, SettledBefore
        <5>8. Qty(B[m]) <= Qty(fills) /\ Qty(B[m]) \in Nat /\ Qty(fills) \in Nat
          <6>1. FillSet(fills) /\ FillSet(B[m])
            BY <2>2, <5>7, SoldType, FillsPart
          <6> QED BY <5>7, <6>1, QtyMonotone, QtyFacts
        <5>9. views[n].held <= views[m].held
          BY <4>3, <5>4, <5>6, <5>7, <5>8, LedgerAssumption, RuleAssumption
        <5> QED BY <3>1, <3>3, <4>3, <5>4, <5>5, <5>9
      <4> QED BY <4>6, <4>7
    <3> QED BY <3>1, <3>2, <3>3
  <2>6. subtractPending(have, remains(ledger)) \in Int /\ subtractPending(have, remains(ledger)) <= 0
    <3> HIDE DEF have
    <3> QED BY <2>5, RuleAssumption DEF subtractPending, Bottom
  <2>7. Max({0, subtractPending(have, remains(ledger))}) = 0
    <3> DEFINE k == subtractPending(have, remains(ledger))
    <3>1. k \in Int /\ k <= 0
      BY <2>6
    <3> HIDE DEF k
    <3>2. Max({0, k}) = 0
      <4>1. Max({0, k}) = IF 0 >= k THEN 0 ELSE k
        BY <3>1, MaxOfTwo
      <4> QED BY <3>1, <4>1
    <3> QED BY <3>2 DEF k
  <2> QED BY <2>4, <2>7
<1> QED BY <1>1, LedgerAlways, FiledAlways, PTL

----------------------------------------------------------------------------
(* A report never lowers what is sure to be held *)

\* What snapshot n counts of a sell of the gate's.
Counted(n, o) == IF o \in DOMAIN ownLeft(ledger, At(n)) THEN ownLeft(ledger, At(n))[o] ELSE 0

\* What a quiet snapshot counts of a sell of the gate's, with the shares sold
\* between an earlier snapshot and it, the earlier one counts too.
LEMMA OwnBetween ==
    ASSUME ~SlowRead, WorldTypes, LedgerTypes,
           NEW L \in [DOMAIN views -> SUBSET fills], NEW B \in [DOMAIN views -> SUBSET fills],
           NEW RL, NEW RB, History(L, B, RL, RB),
           NEW n \in Asked, NEW m \in Quiet, views[n].at < views[m].at, B[n] \in SUBSET B[m],
           NEW o \in Ours
    PROVE  Counted(n, o) \in Nat /\ Counted(m, o) + Had(B[m], o) <= Counted(n, o) + Had(B[n], o)
<1> DEFINE k == Counted(m, o)
           d == Had(B[m], o) - Had(B[n], o)
           ownN == ownLeft(ledger, At(n))
           ownM == ownLeft(ledger, At(m))
<1>1. n \in DOMAIN views /\ m \in DOMAIN views /\ B[n] \in SUBSET fills /\ B[m] \in SUBSET fills
  BY DEF Asked, Quiet
<1>2. Own(o, L, B, RL, RB) /\ Shown(L, B)
  BY DEF History
<1>3. /\ DOMAIN ownN = {p \in Ours : sells[p].released > 0 /\ ~endedBefore(sells[p], At(n))}
      /\ \A p \in DOMAIN ownN : ownN[p] = sells[p].released - filledBy(sells[p], At(n))
      /\ DOMAIN ownM = {p \in Ours : sells[p].released > 0 /\ ~endedBefore(sells[p], At(m))}
      /\ \A p \in DOMAIN ownM : ownM[p] = sells[p].released - filledBy(sells[p], At(m))
  BY ToGoParts
<1>4. /\ Had(B[n], o) \in Nat /\ Had(B[m], o) \in Nat /\ Sold(o) \in Nat
      /\ Had(B[n], o) <= Had(B[m], o) /\ Had(B[m], o) <= Sold(o)
  BY <1>1, HadMonotone
<1>t. Counted(n, o) \in Nat /\ Counted(m, o) \in Nat
  <2>1. \A v : ownLeft(ledger, v) \in [DOMAIN ownLeft(ledger, v) -> 0..Top]
    BY ToGoParts
  <2> QED BY <2>1, RuleAssumption DEF Counted
<1>5. ASSUME k = 0 PROVE k + d <= Counted(n, o)
  <2>1. \/ Need(B[n], o) = 0
        \/ o \in DOMAIN ownN /\ Need(B[n], o) <= sells[o].released - filledBy(sells[o], At(n))
    BY <1>1, <1>2, OwnCounted
  <2>2. Need(B[n], o) \in Nat /\ Need(B[n], o) = order[o].left + Sold(o) - Had(B[n], o)
    BY <1>1, NeedFacts
  <2>3. order[o].left \in Nat
    BY RuleAssumption DEF WorldTypes
  <2>4. k + d <= Need(B[n], o) /\ k + d \in Nat
    BY <1>4, <1>5, <2>2, <2>3
  <2>5. filledBy(sells[o], At(n)) \in 0..sells[o].released /\ sells[o].released \in Nat
    BY <1>1, <1>2, FilledWithin, LedgerValues
  <2>6. o \in DOMAIN ownN => ownN[o] = sells[o].released - filledBy(sells[o], At(n)) /\ ownN[o] \in Int
    BY <1>3, <2>5
  <2> HIDE DEF ownN, ownM
  <2>7. Counted(n, o) = IF o \in DOMAIN ownN THEN ownN[o] ELSE 0
    BY DEF Counted, ownN
  <2> HIDE DEF k, d
  <2> QED BY <1>t, <2>1, <2>2, <2>4, <2>6, <2>7
<1>6. ASSUME k # 0 PROVE k + d <= Counted(n, o)
  <2>1. o \in DOMAIN ownM /\ ownM[o] = k /\ sells[o].since >= m
    BY <1>6 DEF Quiet, toGo, At, ledger, Counted
  <2>2. Had(B[m], o) = 0
    BY <1>1, <1>2, <2>1 DEF Own, OwnViews
  <2>3. Had(B[n], o) = 0 /\ d = 0
    BY <1>4, <2>2
  <2>4. filledBy(sells[o], At(n)) \in 0..sells[o].released /\ filledBy(sells[o], At(n)) <= 0
    BY <1>1, <1>2, <2>3, FilledWithin
  <2>5. filledBy(sells[o], At(m)) \in 0..sells[o].released /\ sells[o].released \in Nat
    BY <1>1, <1>2, FilledWithin, LedgerValues
  <2>6. ~endedBefore(sells[o], At(n)) /\ sells[o].released > 0
    <3>1. ~endedBefore(sells[o], At(m)) /\ sells[o].released > 0
      BY <1>3, <2>1
    <3>2. /\ views[n].at \in Nat /\ views[m].at \in Nat /\ sells[o].end \in Nat
          /\ \A f \in sells[o].fills : f.at \in Nat
      BY <1>1, LedgerValues DEF LedgerTypes, Sell, Execution
    <3> QED BY <3>1, <3>2 DEF endedBefore, At
  <2>7. o \in DOMAIN ownN /\ ownN[o] = sells[o].released - filledBy(sells[o], At(n))
    BY <1>3, <2>6
  <2>8. k = sells[o].released - filledBy(sells[o], At(m))
    BY <1>3, <2>1
  <2> DEFINE fn == filledBy(sells[o], At(n))
             fm == filledBy(sells[o], At(m))
             r == sells[o].released
  <2>9. fn \in 0..r /\ fn <= 0 /\ fm \in 0..r /\ r \in Nat /\ k = r - fm /\ ownN[o] = r - fn
    BY <2>4, <2>5, <2>7, <2>8
  <2>10. Counted(n, o) = ownN[o]
    BY <2>7 DEF Counted
  <2> HIDE DEF fn, fm, r, ownN, ownM, k, d
  <2> QED BY <2>3, <2>9, <2>10
<1> QED BY <1>4, <1>5, <1>6, <1>t

\* An older snapshot never leaves more than a quiet one, so remains need not ask it.
LEMMA QuietBound ==
    ASSUME ~SlowRead, WorldTypes, LedgerTypes, HandsShown,
           NEW L \in [DOMAIN views -> SUBSET fills], NEW B \in [DOMAIN views -> SUBSET fills],
           NEW RL, NEW RB, History(L, B, RL, RB),
           NEW n \in Asked, NEW m \in Quiet, views[n].at < views[m].at
    PROVE  Bound(n) <= Bound(m) \/ Bound(n) <= 0
<1> DEFINE ownN == ownLeft(ledger, At(n))
           ownM == ownLeft(ledger, At(m))
           otherN == unknownLeft(ledger, At(n))
           otherM == unknownLeft(ledger, At(m))
           between == B[m] \ B[n]
           b == [o \in Orders |-> Counted(m, o)]
           w == [o \in Orders |-> b[o] + Qty(OfOrder(between, o))]
           wOwn == [o \in Ours |-> w[o]]
           wHand == [o \in Hands |-> w[o]]
<1>f. IsFiniteSet(Ours) /\ IsFiniteSet(Hands) /\ IsFiniteSet(Orders) /\ Top \in Nat /\ Start \in 0..Top
  BY LedgerAssumption, RuleAssumption, FS_Union
<1>1. n \in DOMAIN views /\ m \in DOMAIN views /\ m \in Asked /\ B[n] \in SUBSET fills /\ B[m] \in SUBSET fills
  BY DEF Asked, Quiet
<1>2. B[n] \in SUBSET B[m]
  <2>1. views[n].at \in Nat /\ views[m].at \in Nat
    BY <1>1, LedgerValues
  <2>2. \A f \in B[n] : f \in fills /\ f.at \in Nat /\ f.at <= views[n].at
    BY <1>1 DEF History, Shown, WorldTypes, Execution
  <2>3. \A f \in fills : f.at < views[m].at => f \in B[m]
    BY <1>1 DEF History, Shown
  <2> QED BY <2>1, <2>2, <2>3
<1>3. /\ ownN \in [DOMAIN ownN -> 0..Top] /\ IsFiniteSet(DOMAIN ownN) /\ Total(ownN) \in Nat
      /\ otherN \in [DOMAIN otherN -> 0..Top] /\ IsFiniteSet(DOMAIN otherN) /\ Total(otherN) \in Nat
      /\ views[n].held \in 0..Start /\ views[n].held + Qty(B[n]) = Start
      /\ Bound(n) = views[n].held - Capped(Total(ownN) + Total(otherN))
  BY BoundFacts
<1>4. /\ ownM \in [DOMAIN ownM -> 0..Top] /\ IsFiniteSet(DOMAIN ownM) /\ Total(ownM) \in Nat
      /\ otherM \in [DOMAIN otherM -> 0..Top] /\ views[m].held \in 0..Start /\ views[m].held + Qty(B[m]) = Start
      /\ Bound(m) = views[m].held - Capped(Total(ownM) + Total(otherM))
  BY <1>1, BoundFacts
<1>5. Total(otherM) = 0
  <2>1. \A o \in DOMAIN otherM : otherM[o] = 0
    BY DEF Quiet, toGo
  <2> HIDE DEF otherM
  <2>2. otherM \in [DOMAIN otherM -> Nat]
    BY <1>4, <1>f
  <2> QED BY <2>1, <2>2, TotalOfNone
<1>6. /\ FillSet(between) /\ Qty(between) \in Nat /\ Qty(B[n]) \in Nat /\ Qty(B[m]) = Qty(B[n]) + Qty(between)
  <2>1. FillSet(fills) /\ FillSet(B[m])
    BY <1>1, SoldType, FillsPart
  <2> QED BY <1>2, <2>1, QtySplit
<1>7. ASSUME NEW o \in Orders
      PROVE  /\ Qty(OfOrder(between, o)) = Had(B[m], o) - Had(B[n], o) /\ Qty(OfOrder(between, o)) \in Nat
             /\ Qty(OfOrder(between, o)) <= Need(B[n], o)
  <2>1. /\ Had(B[n], o) \in Nat /\ Had(B[m], o) \in Nat /\ Sold(o) \in Nat
        /\ Had(B[m], o) <= Sold(o) /\ FillSet(OfOrder(B[m], o))
    BY <1>1, <1>2, HadMonotone, HadFacts
  <2>2. OfOrder(B[n], o) \in SUBSET OfOrder(B[m], o) /\ OfOrder(between, o) = OfOrder(B[m], o) \ OfOrder(B[n], o)
    BY <1>2 DEF OfOrder
  <2>3. Qty(OfOrder(B[m], o)) = Qty(OfOrder(B[n], o)) + Qty(OfOrder(between, o)) /\ Qty(OfOrder(between, o)) \in Nat
    <3> HIDE DEF between
    <3> QED BY <2>1, <2>2, QtySplit
  <2>4. Need(B[n], o) = order[o].left + Sold(o) - Had(B[n], o) /\ order[o].left \in Nat
    BY <1>1, NeedFacts, RuleAssumption DEF WorldTypes
  <2>5. Had(B[m], o) = Qty(OfOrder(B[m], o)) /\ Had(B[n], o) = Qty(OfOrder(B[n], o))
    BY DEF Had
  <2> HIDE DEF between
  <2> QED BY <2>1, <2>3, <2>4, <2>5
<1>8. b \in [Orders -> Nat] /\ w \in [Orders -> Nat] /\ wOwn \in [Ours -> Nat] /\ wHand \in [Hands -> Nat]
  <2>1. b \in [Orders -> Nat]
    <3> HIDE DEF ownM
    <3>1. \A o \in Orders : Counted(m, o) = IF o \in DOMAIN ownM THEN ownM[o] ELSE 0
      BY DEF Counted, ownM
    <3> QED BY <1>4, <1>f, <3>1
  <2>2. w \in [Orders -> Nat]
    <3> HIDE DEF b, between
    <3> QED BY <1>7, <2>1
  <2> HIDE DEF w, b
  <2> QED BY <2>1, <2>2
<1>9. Total(w) = Total(b) + Qty(between)
  <2>1. \A f \in between : f.order \in Orders
    BY <1>1 DEF WorldTypes, Execution
  <2> HIDE DEF b, between, Orders
  <2> QED BY <1>f, <1>6, <1>8, <2>1, QtyByOrder
<1>10. Total(w) = Total(wOwn) + Total(wHand)
  <2>1. Ours \in SUBSET Orders /\ Orders \ Ours = Hands
    BY LedgerAssumption
  <2> HIDE DEF w, Orders
  <2>2. IsFiniteSet(Orders) /\ w \in [Orders -> Nat] /\ Ours \in SUBSET Orders
    BY <1>f, <1>8, <2>1
  <2>3. Total(w) = Total([x \in Ours |-> w[x]]) + Total([x \in Orders \ Ours |-> w[x]])
    BY ONLY <2>2, TotalOfParts
  <2> QED BY <2>1, <2>3
<1>11. Total(ownM) <= Total(b)
  <2>1. DOMAIN ownM \in SUBSET Orders
    BY ToGoParts
  <2>2. \A o \in DOMAIN ownM : o \in Orders /\ ownM[o] <= b[o] /\ ownM[o] \in Nat
    <3>1. \A o \in DOMAIN ownM : Counted(m, o) = ownM[o]
      BY DEF Counted
    <3> HIDE DEF ownM
    <3> QED BY <1>4, <1>f, <2>1, <3>1
  <2> HIDE DEF ownM, b
  <2>3. ownM \in [DOMAIN ownM -> Nat]
    BY <1>4, <1>f
  <2> QED BY <1>f, <1>8, <2>2, <2>3, TotalDominated
<1>12. Total(wOwn) <= Total(ownN)
  <2>1. ASSUME NEW o \in Ours PROVE wOwn[o] = 0 \/ (o \in DOMAIN ownN /\ wOwn[o] <= ownN[o])
    <3>1. Counted(n, o) \in Nat /\ Counted(m, o) + Had(B[m], o) <= Counted(n, o) + Had(B[n], o)
      BY <1>2, OwnBetween
    <3>2. wOwn[o] = Counted(m, o) + Qty(OfOrder(between, o)) /\ wOwn[o] \in Nat
      BY <1>8
    <3>3. Qty(OfOrder(between, o)) = Had(B[m], o) - Had(B[n], o) /\ Qty(OfOrder(between, o)) \in Nat
      BY <1>7
    <3>4. Counted(n, o) = IF o \in DOMAIN ownN THEN ownN[o] ELSE 0
      BY DEF Counted
    <3>5. Had(B[m], o) \in Nat /\ Had(B[n], o) \in Nat /\ Counted(m, o) \in Nat
      BY <1>1, <1>2, <1>8, HadMonotone
    <3> HIDE DEF wOwn, between, ownN
    <3>6. wOwn[o] <= Counted(n, o)
      BY <3>1, <3>2, <3>3, <3>5
    <3> QED BY <3>1, <3>2, <3>4, <3>6
  <2> HIDE DEF ownN, wOwn
  <2>2. ownN \in [DOMAIN ownN -> Nat]
    BY <1>3, <1>f
  <2> QED BY <1>3, <1>8, <2>1, <2>2, TotalDominated
<1>13. Total(wHand) <= Total(otherN)
  <2>1. ASSUME NEW h \in Hands PROVE wHand[h] = 0 \/ (h \in DOMAIN otherN /\ wHand[h] <= otherN[h])
    <3>1. Hand(h, L, RL) /\ Shown(L, B)
      BY DEF History
    <3>2. unknown[h] # <<>> => h \in DOMAIN otherN /\ otherN[h] = showsUnknown(ledger, h, At(n)) /\ otherN[h] # None
      BY ToGoParts DEF Asked
    <3>3. \/ Need(B[n], h) = 0
          \/ unknown[h] # <<>> /\ Need(B[n], h) <= showsUnknown(ledger, h, At(n))
      BY <1>1, <3>1, <3>2, HandCounted
    <3>4. h \notin DOMAIN ownM
      BY ToGoParts, LedgerAssumption, ZenonT(60)
    <3>5. wHand[h] = 0 + Qty(OfOrder(between, h))
      BY <3>4 DEF Counted
    <3>6. Qty(OfOrder(between, h)) \in Nat /\ Qty(OfOrder(between, h)) <= Need(B[n], h) /\ Need(B[n], h) \in Nat
      BY <1>1, <1>7, NeedFacts
    <3> HIDE DEF otherN, wHand, between
    <3>7. h \in DOMAIN otherN => otherN[h] \in Nat
      BY <1>3, <1>f
    <3> QED BY <3>2, <3>3, <3>5, <3>6, <3>7
  <2> HIDE DEF otherN, wHand
  <2>2. otherN \in [DOMAIN otherN -> Nat]
    BY <1>3, <1>f
  <2> QED BY <1>3, <1>8, <2>1, <2>2, TotalDominated
<1>14. Total(b) \in Nat /\ Total(wOwn) \in Nat /\ Total(wHand) \in Nat
  <2> HIDE DEF b, wOwn, wHand
  <2> QED BY <1>f, <1>8, UnitsFinite
<1> HIDE DEF ownN, ownM, otherN, otherM, between, b, w, wOwn, wHand
<1>15. Total(ownM) + Qty(between) <= Total(ownN) + Total(otherN) /\ views[n].held = views[m].held + Qty(between)
  BY <1>3, <1>4, <1>6, <1>9, <1>10, <1>11, <1>12, <1>13, <1>14, <1>f
<1> QED BY <1>3, <1>4, <1>5, <1>6, <1>15, <1>f DEF Capped

\* What a sell is credited with grows with its reports and its listings.
LEMMA FilledByGrows ==
    ASSUME NEW s, NEW t, NEW v, s.released \in 0..Top, t.released = s.released,
           FillSet(t.fills), s.fills \in SUBSET t.fills,
           s.listings \in SUBSET t.listings, \A x \in t.listings : x.quantity \in 0..Top
    PROVE  filledBy(s, v) <= filledBy(t, v) /\ filledBy(s, v) \in 0..s.released /\ filledBy(t, v) \in 0..s.released
<1>1. FillSet(s.fills)
  BY FillsPart
<1>2. ASSUME NEW after PROVE Reported(s, v, after) <= Reported(t, v, after)
  <2> DEFINE F == {f \in s.fills : after < f.at /\ f.at < v.at}
             G == {f \in t.fills : after < f.at /\ f.at < v.at}
  <2>1. F \in SUBSET G /\ FillSet(F) /\ FillSet(G)
    BY <1>1, FillsPart
  <2>2. Reported(s, v, after) = Shares(F) /\ Reported(t, v, after) = Shares(G)
    BY DEF Reported
  <2> HIDE DEF F, G
  <2>3. /\ Shares(F) = Capped(Qty(F)) /\ Shares(G) = Capped(Qty(G))
        /\ Qty(F) \in Nat /\ Qty(G) \in Nat /\ Qty(F) <= Qty(G)
    BY <2>1, QtyFacts, QtyMonotone
  <2> QED BY <2>2, <2>3, RuleAssumption DEF Capped
<1>3. ASSUME NEW b \in Best(s, v) PROVE \E c \in Best(t, v) : b <= c
  <2>1. CASE b = Reported(s, v, 0)
    BY <1>2, <2>1 DEF Best
  <2>2. CASE \E x \in s.listings : credits(v, x) /\ b = ShownBy(s, v, x)
    <3>1. PICK x \in s.listings : credits(v, x) /\ b = ShownBy(s, v, x)
      BY <2>2
    <3>2. x \in t.listings /\ ShownBy(t, v, x) \in Best(t, v)
      BY <3>1 DEF Best
    <3> DEFINE k == s.released - Min({x.quantity, s.released})
               p == Reported(s, v, x.at)
               q == Reported(t, v, x.at)
    <3>3. ShownBy(s, v, x) = addPending(k, p) /\ ShownBy(t, v, x) = addPending(k, q)
      BY DEF ShownBy
    <3>4. p \in 0..Top /\ q \in 0..Top /\ p <= q
      BY <1>1, <1>2, ReportedFacts
    <3>5. k \in Nat
      <4>1. x.quantity \in Int /\ s.released \in Int
        BY <3>2, RuleAssumption
      <4>2. Min({x.quantity, s.released}) = IF x.quantity <= s.released THEN x.quantity ELSE s.released
        BY <4>1, MinOfTwo
      <4>3. x.quantity \in Nat
        BY <3>2, RuleAssumption
      <4> QED BY <4>1, <4>2, <4>3
    <3> HIDE DEF k, p, q
    <3>6. addPending(k, p) <= addPending(k, q)
      BY <3>4, <3>5, RuleAssumption DEF addPending
    <3> QED BY <3>1, <3>2, <3>3, <3>6
  <2> QED BY <2>1, <2>2 DEF Best
<1>4. /\ filledBy(t, v) \in 0..s.released /\ Best(t, v) \subseteq 0..Top
      /\ filledBy(t, v) = s.released \/ \A c \in Best(t, v) : c <= filledBy(t, v)
  BY FilledByFacts
<1>5. filledBy(s, v) \in 0..s.released /\ Best(s, v) \subseteq 0..Top /\ \E b \in Best(s, v) : filledBy(s, v) <= b
  BY <1>1, FilledByFacts
<1>6. PICK b \in Best(s, v) : filledBy(s, v) <= b
  BY <1>5
<1>7. PICK c \in Best(t, v) : b <= c
  BY <1>3
<1>8. b \in Int /\ c \in Int /\ s.released \in Int
  BY <1>4, <1>5, RuleAssumption
<1> QED BY <1>4, <1>5, <1>6, <1>7, <1>8

\* The facts above without the history, so that they hold of the next state too.
BoundForm ==
    \A n \in Asked :
        LET own == ownLeft(ledger, At(n))
            other == unknownLeft(ledger, At(n))
        IN  /\ DOMAIN own = {p \in Ours : sells[p].released > 0 /\ ~endedBefore(sells[p], At(n))}
            /\ \A o \in DOMAIN own : own[o] = sells[o].released - filledBy(sells[o], At(n))
            /\ own \in [DOMAIN own -> 0..Top] /\ IsFiniteSet(DOMAIN own) /\ Total(own) \in Nat
            /\ other \in [DOMAIN other -> 0..Top] /\ IsFiniteSet(DOMAIN other) /\ Total(other) \in Nat
            /\ views[n].held \in 0..Start
            /\ Bound(n) = views[n].held - Capped(Total(own) + Total(other)) /\ Bound(n) \in Int

RemainsForm ==
    /\ Stop \in Nat /\ \A n \in Quiet : n \in Asked /\ views[n].at <= Stop
    /\ Stop = 0 \/ \E n \in Quiet : views[n].at = Stop
    /\ remains(ledger) \in Nat
    /\ \A n \in Asked : views[n].at \in Nat /\ (views[n].at >= Stop => Bound(n) <= remains(ledger))
    /\ remains(ledger) = 0 \/ \E n \in Asked : views[n].at >= Stop /\ remains(ledger) = Bound(n)

\* The reports the ledger has of a sell of the gate's are IBKR's.
ReportsForm ==
    \A o \in Ours :
        /\ FillSet(sells[o].fills) /\ sells[o].released \in 0..Top
        /\ \A x \in sells[o].listings : x.quantity \in 0..Top
        /\ sells[o].ended => \A f \in OfOrder(fills, o) : f.at <= sells[o].end

Dominated ==
    \A n \in Asked, m \in Quiet : views[n].at < views[m].at => Bound(n) <= Bound(m) \/ Bound(n) <= 0

LEMMA Forms == LedgerInv => BoundForm /\ RemainsForm /\ ReportsForm
<1> SUFFICES ASSUME LedgerInv PROVE BoundForm /\ RemainsForm /\ ReportsForm
  OBVIOUS
<1>1. PICK L, B \in [DOMAIN views -> SUBSET fills], RL, RB \in SUBSET fills : History(L, B, RL, RB)
  BY DEF LedgerInv
<1>2. WorldTypes /\ LedgerTypes
  BY DEF LedgerInv
<1>3. BoundForm
  BY <1>1, <1>2, BoundFacts, ToGoParts DEF BoundForm
<1>4. RemainsForm
  <2>1. \A n \in Asked : views[n].at \in Nat
    BY <1>2, LedgerValues DEF Asked
  <2>2. \A n \in Quiet : n \in Asked
    BY DEF Quiet
  <2> QED BY <1>1, <1>2, <2>1, <2>2, RemainsFacts DEF RemainsForm
<1>5. ReportsForm
  <2>1. ASSUME NEW o \in Ours
        PROVE  /\ FillSet(sells[o].fills) /\ sells[o].released \in 0..Top
               /\ \A x \in sells[o].listings : x.quantity \in 0..Top
               /\ sells[o].ended => \A f \in OfOrder(fills, o) : f.at <= sells[o].end
    <3>1. Own(o, L, B, RL, RB)
      BY <1>1 DEF History
    <3>2. FillSet(sells[o].fills)
      BY <1>2, <3>1, ReportedWithin
    <3>3. sells[o].released \in 0..Start /\ sells[o].listings \subseteq Listing
      BY <1>2, LedgerValues DEF Sell
    <3>4. \A x \in Listing : x.quantity \in 0..Top
      BY DEF Listing
    <3>5. sells[o].ended => \A f \in OfOrder(fills, o) : f.at <= sells[o].end
      BY <3>1 DEF Own, OwnReports
    <3>6. sells[o].released \in 0..Top
      BY <3>3, LedgerAssumption, RuleAssumption
    <3> QED BY <3>2, <3>3, <3>4, <3>5, <3>6
  <2> QED BY <2>1 DEF ReportsForm
<1> QED BY <1>3, <1>4, <1>5

LEMMA QuietDominates ==
    ASSUME ~SlowRead
    PROVE  LedgerInv /\ HandsShown => Dominated
<1> SUFFICES ASSUME LedgerInv, HandsShown PROVE Dominated
  OBVIOUS
<1>1. PICK L, B \in [DOMAIN views -> SUBSET fills], RL, RB \in SUBSET fills : History(L, B, RL, RB)
  BY DEF LedgerInv
<1>2. WorldTypes /\ LedgerTypes
  BY DEF LedgerInv
<1> QED BY <1>1, <1>2, QuietBound DEF Dominated

LEMMA NextForms ==
    ASSUME ~SlowRead
    PROVE  /\ LedgerInv' => BoundForm' /\ RemainsForm' /\ ReportsForm'
           /\ LedgerInv' /\ HandsShown' => Dominated'
BY Forms, QuietDominates, PTL

\* Listings the ledger now owns are no longer counted as of a sell it cannot name.
LEMMA UnknownKept ==
    ASSUME NEW l, NEW k, k.views = l.views, DOMAIN k.unknown = DOMAIN l.unknown,
           \A p \in DOMAIN l.unknown : k.unknown[p] \in {l.unknown[p], <<>>}, NEW v
    PROVE  /\ \A o \in DOMAIN unknownLeft(k, v) :
                  o \in DOMAIN unknownLeft(l, v) /\ unknownLeft(k, v)[o] = unknownLeft(l, v)[o]
           /\ toGo(l, v).ok => toGo(k, v).ok
<1>1. ASSUME NEW o \in DOMAIN unknownLeft(k, v)
      PROVE  o \in DOMAIN unknownLeft(l, v) /\ unknownLeft(k, v)[o] = unknownLeft(l, v)[o]
  <2>1. o \in DOMAIN k.unknown /\ k.unknown[o] # <<>>
    BY DEF unknownLeft
  <2>2. k.unknown[o] = l.unknown[o] /\ o \in DOMAIN unknownLeft(l, v)
    BY <2>1 DEF unknownLeft
  <2>3. latestList(k, v) = latestList(l, v)
    BY DEF latestList
  <2>4. showsUnknown(k, o, v) = showsUnknown(l, o, v)
    BY <2>2, <2>3 DEF showsUnknown
  <2>5. unknownLeft(k, v)[o] = showsUnknown(k, o, v) /\ unknownLeft(l, v)[o] = showsUnknown(l, o, v)
    BY <2>1, <2>2 DEF unknownLeft
  <2> QED BY <2>2, <2>4, <2>5
<1>2. /\ toGo(l, v).ok <=> \A o \in DOMAIN unknownLeft(l, v) : unknownLeft(l, v)[o] # None
      /\ toGo(k, v).ok <=> \A o \in DOMAIN unknownLeft(k, v) : unknownLeft(k, v)[o] # None
  BY DEF toGo
<1> QED BY <1>1, <1>2

\* What a report may change: it adds fills and listings to a sell of the gate's, or
\* ends it, or claims the listings of a sell the ledger could not name.
Reporting ==
    /\ views' = views /\ fills' = fills
    /\ \A o \in Ours :
           /\ sells'[o].released = sells[o].released
           /\ sells[o].fills \in SUBSET sells'[o].fills /\ sells'[o].fills \in SUBSET OfOrder(fills, o)
           /\ sells[o].listings \in SUBSET sells'[o].listings
           /\ sells[o].ended => sells'[o].ended /\ sells'[o].end <= sells[o].end
    /\ \A p \in Orders : unknown'[p] \in {unknown[p], <<>>}

LEMMA ReportRaisesBound ==
    ASSUME ~SlowRead, LedgerInv, LedgerInv', Reporting, NEW n \in Asked
    PROVE  n \in Asked' /\ Bound(n) <= Bound(n)'
<1> DEFINE v == At(n)
           own == ownLeft(ledger, v)
           other == unknownLeft(ledger, v)
           ownNext == ownLeft(ledger', v)
           otherNext == unknownLeft(ledger', v)
<1>1. /\ BoundForm /\ ReportsForm /\ BoundForm' /\ ReportsForm' /\ LedgerTypes /\ LedgerTypes'
  BY Forms, NextForms DEF LedgerInv
<1>2. At(n)' = v /\ n \in DOMAIN views /\ views' = views
  BY DEF At, Reporting, Asked
<1>3. /\ \A o \in DOMAIN otherNext : o \in DOMAIN other /\ otherNext[o] = other[o]
      /\ toGo(ledger, v).ok => toGo(ledger', v).ok
  <2>1. /\ (ledger').views = ledger.views /\ DOMAIN (ledger').unknown = DOMAIN ledger.unknown
        /\ \A p \in DOMAIN ledger.unknown : (ledger').unknown[p] \in {ledger.unknown[p], <<>>}
    BY <1>1 DEF ledger, Reporting, LedgerTypes
  <2> QED BY ONLY <2>1, UnknownKept
<1>4. n \in Asked'
  BY <1>2, <1>3 DEF Asked
<1>5. /\ DOMAIN own = {p \in Ours : sells[p].released > 0 /\ ~endedBefore(sells[p], v)}
      /\ \A o \in DOMAIN own : own[o] = sells[o].released - filledBy(sells[o], v)
      /\ own \in [DOMAIN own -> 0..Top] /\ IsFiniteSet(DOMAIN own) /\ Total(own) \in Nat
      /\ other \in [DOMAIN other -> 0..Top] /\ IsFiniteSet(DOMAIN other) /\ Total(other) \in Nat
      /\ views[n].held \in 0..Start
      /\ Bound(n) = views[n].held - Capped(Total(own) + Total(other))
  BY <1>1 DEF BoundForm
<1>6. /\ DOMAIN ownNext = {p \in Ours : sells'[p].released > 0 /\ ~endedBefore(sells'[p], v)}
      /\ \A o \in DOMAIN ownNext : ownNext[o] = sells'[o].released - filledBy(sells'[o], v)
      /\ ownNext \in [DOMAIN ownNext -> 0..Top] /\ Total(ownNext) \in Nat
      /\ otherNext \in [DOMAIN otherNext -> 0..Top] /\ Total(otherNext) \in Nat
      /\ Bound(n)' = views[n].held - Capped(Total(ownNext) + Total(otherNext))
  <2> DEFINE z == At(n)'
             ownZ == ownLeft(ledger', z)
             otherZ == unknownLeft(ledger', z)
  <2>1. /\ DOMAIN ownZ = {p \in Ours : sells'[p].released > 0 /\ ~endedBefore(sells'[p], z)}
        /\ \A o \in DOMAIN ownZ : ownZ[o] = sells'[o].released - filledBy(sells'[o], z)
        /\ ownZ \in [DOMAIN ownZ -> 0..Top] /\ Total(ownZ) \in Nat
        /\ otherZ \in [DOMAIN otherZ -> 0..Top] /\ Total(otherZ) \in Nat
        /\ Bound(n)' = views'[n].held - Capped(Total(ownZ) + Total(otherZ))
    BY <1>1, <1>4 DEF BoundForm
  <2>2. z = v /\ views' = views
    BY <1>2
  <2> HIDE DEF z, v
  <2> QED BY <2>1, <2>2
<1>7. ASSUME NEW o \in DOMAIN ownNext PROVE o \in DOMAIN own /\ ownNext[o] <= own[o]
  <2> DEFINE s == sells[o]
             t == sells'[o]
  <2>1. o \in Ours /\ t.released > 0 /\ ~endedBefore(t, v)
    BY <1>6
  <2>2. /\ t.released = s.released /\ s.fills \in SUBSET t.fills /\ t.fills \in SUBSET OfOrder(fills, o)
        /\ s.listings \in SUBSET t.listings /\ (s.ended => t.ended /\ t.end <= s.end)
    BY <2>1 DEF Reporting
  <2>3. /\ s.released \in 0..Top /\ FillSet(t.fills) /\ \A x \in t.listings : x.quantity \in 0..Top
    BY <1>1, <2>1 DEF ReportsForm
  <2>4. s.ended => \A f \in OfOrder(fills, o) : f.at <= s.end
    BY <1>1, <2>1 DEF ReportsForm
  <2>5. s.end \in Nat /\ t.end \in Nat /\ v.at \in Nat /\ \A f \in OfOrder(fills, o) : f.at \in Nat
    <3>1. v.at = views[n].at /\ views[n] \in View /\ s \in Sell /\ t \in Sell
      BY <1>1, <1>2, <2>1 DEF LedgerTypes, At
    <3>2. \A f \in OfOrder(fills, o) : f.at \in Nat
      BY DEF LedgerInv, WorldTypes, Execution, OfOrder
    <3> QED BY <3>1, <3>2 DEF View, Sell
  <2>6. ~endedBefore(s, v)
    <3> HIDE DEF s, t, v
    <3> QED BY <2>1, <2>2, <2>4, <2>5 DEF endedBefore
  <2>7. /\ filledBy(s, v) <= filledBy(t, v)
        /\ filledBy(s, v) \in 0..s.released /\ filledBy(t, v) \in 0..s.released
    <3> HIDE DEF s, t, v
    <3> QED BY <2>2, <2>3, FilledByGrows
  <2>8. o \in DOMAIN own
    BY <1>5, <2>1, <2>2, <2>6
  <2>9. own[o] = s.released - filledBy(s, v) /\ ownNext[o] = s.released - filledBy(t, v)
    BY <1>5, <1>6, <2>2, <2>8
  <2> DEFINE a == filledBy(s, v)
             b == filledBy(t, v)
             r == s.released
  <2>10. a <= b /\ a \in 0..r /\ b \in 0..r /\ r \in 0..Top /\ own[o] = r - a /\ ownNext[o] = r - b
    BY <2>3, <2>7, <2>9
  <2> HIDE DEF a, b, r, s, t, v, own, ownNext
  <2>11. ownNext[o] <= own[o]
    BY <2>10, RuleAssumption
  <2> QED BY <2>8, <2>11
<1> HIDE DEF own, other, ownNext, otherNext, v
<1>8. Total(ownNext) <= Total(own) /\ Total(otherNext) <= Total(other)
  <2>1. /\ own \in [DOMAIN own -> Nat] /\ ownNext \in [DOMAIN ownNext -> Nat]
        /\ other \in [DOMAIN other -> Nat] /\ otherNext \in [DOMAIN otherNext -> Nat]
    BY <1>5, <1>6, RuleAssumption
  <2>2. Total(ownNext) <= Total(own)
    BY <1>5, <1>7, <2>1, TotalDominated
  <2>3. \A o \in DOMAIN otherNext : o \in DOMAIN other /\ otherNext[o] <= other[o]
    BY <1>3, <2>1
  <2>4. Total(otherNext) <= Total(other)
    BY <1>5, <2>1, <2>3, TotalDominated
  <2> QED BY <2>2, <2>4
<1>9. Bound(n) <= Bound(n)'
  <2> DEFINE p == Total(own) + Total(other)
             q == Total(ownNext) + Total(otherNext)
  <2>1. p \in Nat /\ q \in Nat /\ q <= p
    BY <1>5, <1>6, <1>8
  <2>2. Bound(n) = views[n].held - Capped(p) /\ Bound(n)' = views[n].held - Capped(q) /\ views[n].held \in 0..Start
    BY <1>5, <1>6
  <2> HIDE DEF p, q
  <2> QED BY <2>1, <2>2, LedgerAssumption, RuleAssumption DEF Capped
<1> QED BY <1>4, <1>9

LEMMA ReportKeepsRemains ==
    ASSUME ~SlowRead, LedgerInv, LedgerInv', HandsShown', Reporting
    PROVE  remains(ledger) <= remains(ledger)'
<1>1. /\ BoundForm /\ RemainsForm /\ BoundForm' /\ RemainsForm' /\ Dominated' /\ views' = views
  BY Forms, NextForms DEF Reporting
<1>2. remains(ledger) \in Nat /\ remains(ledger)' \in Nat
  BY <1>1 DEF RemainsForm
<1>3. CASE remains(ledger) = 0
  BY <1>2, <1>3
<1>4. CASE \E n \in Asked : remains(ledger) = Bound(n)
  <2>1. PICK n \in Asked : remains(ledger) = Bound(n)
    BY <1>4
  <2>2. n \in Asked' /\ Bound(n) <= Bound(n)'
    BY ReportRaisesBound
  <2>3. Bound(n) \in Int /\ Bound(n)' \in Int
    BY <1>1, <2>2 DEF BoundForm
  <2>4. CASE views[n].at >= Stop'
    <3>1. Bound(n)' <= remains(ledger)'
      BY <1>1, <2>2, <2>4 DEF RemainsForm
    <3> QED BY <1>2, <2>1, <2>2, <2>3, <3>1
  <2>5. CASE ~(views[n].at >= Stop')
    <3>1. Stop' \in Nat /\ views[n].at \in Nat
      BY <1>1, <2>2 DEF RemainsForm
    <3>2. PICK m \in Quiet' : views[m].at = Stop'
      BY <1>1, <2>5, <3>1 DEF RemainsForm
    <3>3. m \in Asked' /\ Bound(m)' <= remains(ledger)'
      <4>1. m \in Asked'
        BY <1>1 DEF RemainsForm
      <4>2. views'[m].at >= Stop'
        BY <1>1, <3>1, <3>2
      <4> QED BY <1>1, <4>1, <4>2 DEF RemainsForm
    <3>4. Bound(m)' \in Int
      BY <1>1, <3>3 DEF BoundForm
    <3>5. views'[n].at < views'[m].at
      BY <1>1, <2>5, <3>1, <3>2
    <3>6. Bound(n)' <= Bound(m)' \/ Bound(n)' <= 0
      BY <1>1, <2>2, <3>5 DEF Dominated
    <3> QED BY <1>2, <2>1, <2>2, <2>3, <3>3, <3>4, <3>6
  <2> QED BY <2>4, <2>5
<1> QED BY <1>1, <1>3, <1>4 DEF RemainsForm

LEMMA ReportStep ==
    ASSUME ~SlowRead, LedgerInv, LedgerInv', Next, sells' # sells, views' = views, order' = order, HandsShown
    PROVE  remains([sells |-> sells', views |-> views', unknown |-> unknown']) >= remains(ledger)
<1> DEFINE after == [sells |-> sells', views |-> views', unknown |-> unknown']
<1> SUFFICES remains(after) >= remains(ledger)
  OBVIOUS
<1>t. WorldTypes /\ LedgerTypes /\ LedgerTypes'
  BY DEF LedgerInv
<1>r. remains(after) = remains(ledger)' /\ remains(ledger) \in Nat /\ remains(ledger)' \in Nat
  <2>1. after = ledger'
    BY DEF ledger
  <2>2. remains(ledger) \in Nat /\ remains(ledger)' \in Nat
    BY Forms, NextForms DEF RemainsForm
  <2> HIDE DEF after
  <2> QED BY <2>1, <2>2
<1>o. PICK L, B, RL, RB : \A o \in Ours : Own(o, L, B, RL, RB)
  BY DEF LedgerInv, History
<1>p. \A o \in Ours : sells[o].fills \subseteq OfOrder(fills, o)
  BY <1>o DEF Own, OwnReports
<1>1. ASSUME Reporting, worldVars' = worldVars, reading' = reading PROVE remains(after) >= remains(ledger)
  <2>1. HandsShown'
    BY <1>1 DEF HandsShown, worldVars, Reporting
  <2>2. remains(ledger) <= remains(ledger)'
    BY <1>1, <2>1, ReportKeepsRemains
  <2> HIDE DEF after
  <2> QED BY <1>r, <2>2
<1>2. ASSUME NEW f \in fills, ObserveFill(f) PROVE remains(after) >= remains(ledger)
  <2>1. /\ f.order \in Ours /\ \A p \in Ours : p # f.order => sells'[p] = sells[p]
        /\ sells'[f.order].released = sells[f.order].released
        /\ sells'[f.order].fills = sells[f.order].fills \cup {f}
        /\ sells'[f.order].listings = sells[f.order].listings
        /\ sells'[f.order].ended = sells[f.order].ended /\ sells'[f.order].end = sells[f.order].end
        /\ unknown' = unknown
    BY <1>2, <1>t, FillEffect
  <2>2. worldVars' = worldVars /\ reading' = reading
    BY <1>2 DEF ObserveFill, readVars
  <2>3. \A o \in Ours : sells[o].end \in Nat
    BY <1>t DEF LedgerTypes, Sell
  <2>4. f \in OfOrder(fills, f.order)
    BY DEF OfOrder
  <2>5. Reporting
    <3>1. ASSUME NEW o \in Ours
          PROVE  /\ sells'[o].released = sells[o].released
                 /\ sells[o].fills \in SUBSET sells'[o].fills /\ sells'[o].fills \in SUBSET OfOrder(fills, o)
                 /\ sells[o].listings \in SUBSET sells'[o].listings
                 /\ sells[o].ended => sells'[o].ended /\ sells'[o].end <= sells[o].end
      <4>1. CASE o = f.order
        BY <1>p, <2>1, <2>3, <2>4, <4>1
      <4>2. CASE o # f.order
        BY <1>p, <2>1, <2>3, <4>2
      <4> QED BY <4>1, <4>2
    <3> QED BY <2>1, <2>2, <3>1 DEF Reporting, worldVars
  <2> QED BY <1>1, <2>2, <2>5
<1>3. ASSUME NEW o \in Ours, ObserveLifecycle(o) PROVE remains(after) >= remains(ledger)
  <2>1. /\ \A p \in Ours : p # o => sells'[p] = sells[p]
        /\ sells'[o].released = sells[o].released /\ sells'[o].fills = sells[o].fills
        /\ sells[o].listings \subseteq sells'[o].listings
        /\ \/ sells'[o].ended = sells[o].ended /\ sells'[o].end = sells[o].end
           \/ sells'[o].ended /\ (sells[o].ended => sells'[o].end < sells[o].end)
        /\ \A p \in Orders : p # o => unknown'[p] = unknown[p]
        /\ unknown'[o] \in {unknown[o], <<>>}
    BY <1>3, <1>t, LifecycleEffect
  <2>2. worldVars' = worldVars /\ reading' = reading
    BY <1>3 DEF ObserveLifecycle, readVars
  <2>3. \A p \in Ours : sells[p].end \in Nat /\ sells'[p].end \in Nat
    BY <1>t DEF LedgerTypes, Sell
  <2>4. Reporting
    <3>1. ASSUME NEW p \in Ours
          PROVE  /\ sells'[p].released = sells[p].released
                 /\ sells[p].fills \in SUBSET sells'[p].fills /\ sells'[p].fills \in SUBSET OfOrder(fills, p)
                 /\ sells[p].listings \in SUBSET sells'[p].listings
                 /\ sells[p].ended => sells'[p].ended /\ sells'[p].end <= sells[p].end
      <4>1. CASE p = o
        BY <1>p, <2>1, <2>3, <4>1
      <4>2. CASE p # o
        BY <1>p, <2>1, <2>3, <4>2
      <4> QED BY <4>1, <4>2
    <3>2. \A p \in Orders : unknown'[p] \in {unknown[p], <<>>}
      BY <2>1
    <3> QED BY <2>2, <3>1, <3>2 DEF Reporting, worldVars
  <2> QED BY <1>1, <2>2, <2>4
<1>4. CASE RestoreRecovery
  <2>1. views = <<>>
    BY <1>4 DEF RestoreRecovery
  <2>2. Asked = {}
    BY <2>1 DEF Asked
  <2>3. remains(ledger) = 0
    BY <2>2, Forms DEF RemainsForm
  <2> HIDE DEF after
  <2> QED BY <1>r, <2>3
<1>5. ~ObserveReading
  <2>1. ASSUME ObserveReading PROVE FALSE
    <3>1. Len(views') = Len(views) + 1 /\ Len(views) \in Nat
      BY <1>t, <2>1, OneMoreView, LedgerValues
    <3> QED BY <3>1
  <2> QED BY <2>1
<1>6. \A o \in Ours, q \in 1..Start : ~release(o, q)
  <2>1. ASSUME NEW o \in Ours, NEW q \in 1..Start, release(o, q) PROVE FALSE
    <3>1. order'[o].stage = "sent" /\ order[o].stage = "none"
      BY <1>t, <2>1, ReleaseEffect DEF WorldTypes
    <3> QED BY <3>1
  <2> QED BY <2>1
<1> QED BY <1>2, <1>3, <1>4, <1>5, <1>6
      DEF Next, Release, ReadOrders, ReadPositions, Tick, Arrive, Fill, Cancel, PlaceByHand, RaiseByHand, ledgerVars

\* internal/risklimit/pending.go: a fill report or the end of a sell never lowers
\* what is sure to be held, so no report makes the gate hold more shares back, for
\* every number of sells, of hands and of readings.
THEOREM ReportsNeverRaiseAlways ==
    ASSUME ~SlowRead
    PROVE  Spec => ReportsNeverRaise
<1> DEFINE Kept == sells' # sells /\ views' = views /\ order' = order /\ HandsShown =>
                       remains([sells |-> sells', views |-> views', unknown |-> unknown']) >= remains(ledger)
<1>1. LedgerInv /\ LedgerInv' /\ [Next]_vars => [Kept]_vars
  <2>1. ASSUME LedgerInv, LedgerInv', Next PROVE Kept
    BY <2>1, ReportStep
  <2> QED BY <2>1 DEF vars
<1>2. ReportsNeverRaise <=> [][Kept]_vars
  BY DEF ReportsNeverRaise
<1> HIDE DEF Kept
<1> QED BY <1>1, <1>2, LedgerAlways, PTL DEF Spec
=============================================================================
