---------------------------- MODULE PendingRule ----------------------------
(***************************************************************************)
(* The sell ledger of internal/risklimit/pending.go for one instrument, as *)
(* operators on a ledger l: the sells released (l.sells), the snapshots    *)
(* observed, each with its time, holding and what it read (l.views), and   *)
(* the listings of sells the ledger cannot name (l.unknown).  From these   *)
(* facts, which arrive late and in any order, unshown says how many of the *)
(* shares a snapshot shows are already being sold.  IBKR gives each order  *)
(* one number of its own, so a sell either has learned it (venue) or not.  *)
(***************************************************************************)
EXTENDS Integers, Sequences, FiniteSets, FiniteSetsExt, Folds

CONSTANTS Top,   \* math.MaxInt64
          Later, \* endOfTime: a second after every fact's
          None   \* not read

ASSUME RuleAssumption == Top \in Nat /\ Later \in Nat /\ None \notin Int

Bottom == -(Top + 1)

----------------------------------------------------------------------------
(* Arithmetic at the int64 bounds *)

\* Mutant of addPending: an addition that wraps, as Go's + does.
MutantWraps(a, b) == ((a + b - Bottom) % (2 * (Top + 1))) + Bottom

addPending(a, b) == IF a > Top - b THEN Top ELSE a + b

subtractPending(n, pending) == IF n < Bottom + pending THEN Bottom ELSE n - pending

SumPending(w) == MapThenFoldSet(addPending, 0, LAMBDA x : w[x], LAMBDA T : CHOOSE x \in T : TRUE, DOMAIN w)

\* The shares of a set of fills.
Shares(F) == SumPending([f \in F |-> f.quantity])

----------------------------------------------------------------------------
(* What a view is credited with *)

\* The view now: later than any fact.
now == [at |-> Later, by |-> 0]

credits(v, x) == x.at < v.at \/ (x.by # 0 /\ x.by = v.by)

\* Mutant of endedBefore: a sell once released may sell for ever.
MutantNeverEnds(s, v) == FALSE

endedBefore(s, v) == s.ended /\ s.end < v.at /\ \A f \in s.fills : f.at < v.at

\* Mutant of filledBy: a fill that may be after the view hides those before it.
MutantLateHides(s, v) ==
    IF \A f \in s.fills : f.at < v.at THEN Min({s.released, Shares(s.fills)}) ELSE 0

filledBy(s, v) ==
    LET reported(after) == Shares({f \in s.fills : after < f.at /\ f.at < v.at})
        shown(x) == addPending(s.released - Min({x.quantity, s.released}), reported(x.at))
    IN  Min({s.released,
             Max({reported(0)} \cup {shown(x) : x \in {y \in s.listings : credits(v, y)}})})

raised(listings) == \E i \in 2..Len(listings) : listings[i].quantity > listings[i - 1].quantity

\* The number of the latest snapshot credited to v that read the open orders; 0 if none.
latestList(l, v) == Max({0} \cup {n \in DOMAIN l.views : l.views[n].lists /\ credits(v, [at |-> l.views[n].at, by |-> n])})

\* How many leading listings of an unknown sell v is credited with.
credited(listings, v) == Max({0} \cup {i \in DOMAIN listings : \A j \in 1..i : credits(v, listings[j])})

\* What v shows of unknown sell o: its remaining in the latest list credited to v,
\* nothing when that list has it no more, or, when v cannot bound what it sold, None.
showsUnknown(l, o, v) ==
    LET c == credited(l.unknown[o], v)
    IN  IF c > 0 /\ l.unknown[o][c].by = latestList(l, v)
        THEN IF raised(SubSeq(l.unknown[o], c, Len(l.unknown[o]))) THEN None ELSE l.unknown[o][c].quantity
        ELSE IF c < Len(l.unknown[o]) THEN None ELSE 0

\* What each sell of ours, and each the ledger cannot name, can still sell after v.
ownLeft(l, v) ==
    [o \in {p \in DOMAIN l.sells : l.sells[p].released > 0 /\ ~endedBefore(l.sells[p], v)} |->
        l.sells[o].released - filledBy(l.sells[o], v)]

unknownLeft(l, v) == [o \in {p \in DOMAIN l.unknown : l.unknown[p] # <<>>} |-> showsUnknown(l, o, v)]

toGo(l, v) ==
    LET own == ownLeft(l, v)
        other == unknownLeft(l, v)
        ok == \A o \in DOMAIN other : other[o] # None
    IN  [ok     |-> ok,
         shares |-> IF ok THEN addPending(SumPending(own), SumPending(other)) ELSE 0,
         quiet  |-> /\ \A o \in DOMAIN other : other[o] = 0
                    /\ \A o \in DOMAIN own : own[o] = 0 \/ l.sells[o].since >= v.by]

\* The snapshots that read the holding (and a broker's its open orders too), each
\* with the most that can still sell after it.
refs(l) == {[at |-> l.views[n].at, held |-> l.views[n].held, toGo |-> toGo(l, [at |-> l.views[n].at, by |-> n])] :
             n \in {m \in DOMAIN l.views : l.views[m].reference}}

\* The most that is sure to be held; a reference older than the latest quiet one is not asked.
remains(l) ==
    LET bounds == {r \in refs(l) : r.toGo.ok}
        stop == Max({0} \cup {r.at : r \in {q \in bounds : q.toGo.quiet}})
    IN  Max({0} \cup {subtractPending(r.held, r.toGo.shares) : r \in {q \in bounds : q.at >= stop}})

\* The shares already being sold that snapshot n cannot show.
unshown(l, n) ==
    IF n = 0 THEN toGo(l, now).shares
    ELSE Max({0, subtractPending(IF l.views[n].held = None THEN 0 ELSE l.views[n].held, remains(l))})

----------------------------------------------------------------------------
(* What the ledger is told *)

NoSell == [released |-> 0, since |-> 0, fills |-> {}, listings |-> {}, ended |-> FALSE, end |-> 0, endStatus |-> "", venue |-> FALSE]

newSellLedger == [sells |-> <<>>, views |-> <<>>, unknown |-> <<>>]

\* f with k mapped to x.
With(f, k, x) == [j \in DOMAIN f \cup {k} |-> IF j = k THEN x ELSE f[j]]

\* The listings recorded of order o without a name the ledger knew.
listingsOf(l, o) == IF o \in DOMAIN l.unknown THEN {l.unknown[o][i] : i \in DOMAIN l.unknown[o]} ELSE {}

knows(l, o) == o \in DOMAIN l.sells /\ l.sells[o].released > 0

\* A sell released after every snapshot so far.
released(l, o, q) ==
    [l EXCEPT !.sells = With(@, o, [NoSell EXCEPT !.released = q, !.since = Len(l.views)])]

\* A venue order ID learned for a sell claims the listings recorded under it.
learnVenue(l, o) ==
    IF l.sells[o].venue THEN l
    ELSE [l EXCEPT !.sells[o].venue = TRUE,
                   !.sells[o].listings = @ \cup listingsOf(l, o),
                   !.unknown = With(@, o, <<>>)]

\* A sell of an earlier run, counted at every snapshot, and the listings recorded of it.
restored(l, o, q, venue) ==
    [l EXCEPT !.sells = With(@, o, [NoSell EXCEPT !.released = q, !.venue = venue, !.listings = listingsOf(l, o)]),
              !.unknown = With(@, o, <<>>)]

filled(l, f) == [l EXCEPT !.sells[f.order].fills = @ \cup {f}]

\* A terminal report ends the sell, at the earliest second reported.
ended(l, o, at, status) ==
    IF ~l.sells[o].ended \/ at < l.sells[o].end
    THEN [l EXCEPT !.sells[o].ended = TRUE, !.sells[o].end = at, !.sells[o].endStatus = status] ELSE l

\* A snapshot: its time, what it holds (None unread) and the sells it lists, by
\* their remaining shares (None unread).  One that read its holding, and a
\* broker's its open orders too, bounds what is held.
snapshot(l, at, holding, list, kind) ==
    [l EXCEPT !.views = Append(@, [at |-> at, held |-> holding, lists |-> list # None,
                                   reference |-> holding # None /\ (kind = "account" \/ list # None)])]

\* A listed order is the ledger's own by its client order ID or, when the list
\* gives none, by a venue order ID the ledger learned.
byVenue(l, o, list) == knows(l, o) /\ (list.named \/ l.sells[o].venue)

\* The latest snapshot's list: the ledger's own sells, and the rest unknown.
listOpenOrders(l, list) ==
    LET n == Len(l.views)
        stamped(o) == [at |-> l.views[n].at, by |-> n, quantity |-> list.left[o]]
        own == {o \in DOMAIN list.left : byVenue(l, o, list)}
        learning == {o \in own : list.named /\ ~l.sells[o].venue}
    IN  [l EXCEPT
            !.sells = [o \in DOMAIN l.sells |->
                          IF o \notin own THEN l.sells[o]
                          ELSE [l.sells[o] EXCEPT !.venue = @ \/ list.named,
                                                  !.listings = @ \cup {stamped(o)} \cup
                                                               (IF o \in learning THEN listingsOf(l, o) ELSE {})]],
            !.unknown = [o \in DOMAIN l.unknown \cup DOMAIN list.left |->
                            CASE o \in learning -> <<>>
                              [] o \in DOMAIN list.left \ own ->
                                     Append(IF o \in DOMAIN l.unknown THEN l.unknown[o] ELSE <<>>, stamped(o))
                              [] OTHER -> IF o \in DOMAIN l.unknown THEN l.unknown[o] ELSE <<>>]]

\* ObserveAccount and recordBroker.
observed(l, at, holding, list, kind) ==
    LET seen == snapshot(l, at, holding, list, kind)
    IN  IF list = None THEN seen ELSE listOpenOrders(seen, list)
=============================================================================
