----------------------------- MODULE SellLedger -----------------------------
(***************************************************************************)
(* The pending rule of internal/risklimit/pending.go for one instrument:   *)
(* how many of the shares a snapshot shows are already being sold.  The    *)
(* gate works it out from fill reports, lifecycle reports and snapshots    *)
(* that reach it late, in any order and more than once, while IBKR fills,  *)
(* cancels and lists the orders.  The sells are the gate's own and those   *)
(* the owner places by hand; adapter/ibkr/snapshot.py reads the account in *)
(* three steps: the open orders, the positions, and then IBKR's time.      *)
(***************************************************************************)
EXTENDS PendingRule

CONSTANTS Ours,       \* client order IDs of the sells this gate may release
          Hands,      \* sells the owner may place by hand
          Start,      \* shares held at first
          HandSizes,  \* sizes of the owner's sells
          ListsTotal, \* whether a list gives an order's total (the adapter's does) or what is left of it
          SlowRead,   \* whether a broker snapshot's time may be asked in a later second than its positions
          MaxClock,   \* bound: seconds
          MaxReads,   \* bound: account readings
          MaxRestarts \* bound: restarts of the engine

ASSUME LedgerAssumption ==
    /\ Start \in 0..Top /\ Later > MaxClock
    /\ HandSizes \subseteq 1..Top /\ HandSizes # {}
    /\ ListsTotal \in BOOLEAN /\ SlowRead \in BOOLEAN
    /\ Ours \cap Hands = {} /\ IsFiniteSet(Ours) /\ IsFiniteSet(Hands)
    /\ MaxClock \in Nat \ {0} /\ MaxReads \in Nat /\ MaxRestarts \in Nat

\* A list of open orders: whether it names ours by their client order IDs, and the
\* shares it gives as left of each working sell.
Lists == UNION {[named : BOOLEAN, left : [D -> 0..Top]] : D \in SUBSET (Ours \cup Hands)}

ASSUME ListAssumption == None \notin Lists

VARIABLES
    clock,     \* IBKR's time, in whole seconds
    held,      \* shares IBKR holds for the account
    order,     \* what IBKR has of each sell: its stage, the shares it may still sell and its total
    fills,     \* executions, each reported to the gate late, in any order and again
    ends,      \* terminal lifecycle reports of our sells
    reading,   \* the account reading under way
    reads,     \* readings so far
    listed,    \* history: the owner's sells as last listed, None if listed at no size they still have
    sells,     \* sellLedger.sells
    views,     \* the snapshots observed: time, holding and whether it read the open orders
    unknown,   \* sellLedger.unknown: listings of sells the ledger cannot name
    account,   \* Gate.account: the latest account snapshot's number
    broker,    \* Gate.brokerView: the latest broker snapshot's number
    restarts   \* restarts so far

worldVars  == <<clock, held, order, fills, ends, listed>>
readVars   == <<reading, reads>>
ledgerVars == <<sells, views, unknown, account, broker>>
vars == <<worldVars, readVars, ledgerVars, restarts>>

Orders == Ours \cup Hands
Idle   == [phase |-> "idle"]

----------------------------------------------------------------------------
(* The gate *)

ledger == [sells |-> sells, views |-> views, unknown |-> unknown]

Becomes(l) == sells' = l.sells /\ views' = l.views /\ unknown' = l.unknown

\* The broker holding net of working sells bounds a sell when the latest broker
\* snapshot read both; the account snapshot's holding always does.
brokerReadable == broker # 0 /\ views[broker].reference

sellable(n) == subtractPending(views[n].held, unshown(ledger, n))

release(o, q) ==
    /\ sells[o].released = 0 /\ order[o].stage = "none"
    /\ account # 0
    /\ brokerReadable => q <= sellable(broker)
    /\ q <= sellable(account)
    /\ Becomes(released(ledger, o, q))
    /\ order' = [order EXCEPT ![o] = [stage |-> "sent", left |-> q, total |-> q]]
    /\ UNCHANGED <<clock, held, fills, ends, listed, readVars, account, broker, restarts>>

\* Mutant of ObserveFill: a redelivered fill is counted again.
MutantRedelivered(f) ==
    /\ f.order \in Ours /\ sells[f.order].released > 0
    /\ Becomes(filled(ledger, IF f \in sells[f.order].fills THEN [f EXCEPT !.number = @ + Start] ELSE f))
    /\ UNCHANGED <<worldVars, readVars, account, broker, restarts>>

\* A fill report; one redelivered changes nothing.
ObserveFill(f) ==
    /\ f.order \in Ours /\ sells[f.order].released > 0
    /\ f \notin sells[f.order].fills
    /\ Becomes(filled(ledger, f))
    /\ UNCHANGED <<worldVars, readVars, account, broker, restarts>>

\* A lifecycle report names the venue order; a terminal one ends the sell.
ObserveLifecycle(o) ==
    /\ sells[o].released > 0 /\ order[o].stage # "none" /\ order[o].stage # "sent"
    /\ \/ Becomes(learnVenue(ledger, o))
       \/ \E e \in ends : e.order = o /\ Becomes(ended(learnVenue(ledger, o), o, e.at, "canceled"))
    /\ UNCHANGED <<worldVars, readVars, account, broker, restarts>>

\* And then IBKR's time, the snapshot's as_of; ObserveAccount and recordBroker
\* take the snapshot.
ObserveReading ==
    /\ reading.phase = "positions"
    /\ Becomes(observed(ledger, clock, reading.held, reading.list, reading.kind))
    /\ account' = IF reading.kind = "account" THEN Len(views) + 1 ELSE account
    /\ broker' = IF reading.kind = "broker" THEN Len(views) + 1 ELSE broker
    /\ reading' = Idle
    /\ UNCHANGED <<worldVars, reads, restarts>>

\* A new run: the sells not filled in full are restored with their fills, their
\* end and their venue order, and nothing else of the ledger; the adapter's reading
\* under way belongs to the run that stopped.
RestoreRecovery ==
    /\ restarts < MaxRestarts
    /\ restarts' = restarts + 1
    /\ sells' = [o \in Ours |->
                    IF Shares(sells[o].fills) < sells[o].released
                    THEN [sells[o] EXCEPT !.since = 0, !.listings = {}] ELSE NoSell]
    /\ views' = <<>> /\ unknown' = [o \in Orders |-> <<>>]
    /\ account' = 0 /\ broker' = 0
    /\ listed' = [h \in Hands |-> None] /\ reading' = Idle
    /\ UNCHANGED <<clock, held, order, fills, ends, reads>>

----------------------------------------------------------------------------
(* The adapter's reading of the account *)

\* What a list gives as the remaining quantity of an open order: IBKR's openOrder
\* carries the total, never less than what is left.
remaining(o) == IF ListsTotal THEN order[o].total ELSE order[o].left

\* The open orders first, for a broker snapshot; the list may be unread, and may
\* name our orders by their venue order IDs only.  A broker snapshot that does not
\* follow the last is refused (checkBroker), so none is begun in its second.
ReadOrders ==
    /\ reading = Idle /\ reads < MaxReads
    /\ broker # 0 => views[broker].at < clock
    /\ reads' = reads + 1
    /\ LET working == {o \in Orders : order[o].stage = "working"}
           list(named) == [named |-> named, left |-> [o \in working |-> remaining(o)]]
       IN  \/ /\ reading' = [phase |-> "orders", kind |-> "broker", list |-> None]
              /\ UNCHANGED listed
           \/ /\ \E named \in {TRUE} \cup (IF working \cap Ours = {} THEN {} ELSE {FALSE}) :
                     reading' = [phase |-> "orders", kind |-> "broker", list |-> list(named)]
              /\ listed' = [h \in Hands |-> IF h \in working THEN remaining(h) ELSE listed[h]]
    /\ UNCHANGED <<clock, held, order, fills, ends, ledgerVars, restarts>>

\* Then the positions: of an account snapshot the only part, and for a broker
\* snapshot perhaps unread.
ReadPositions ==
    /\ \/ /\ reading = Idle /\ reads < MaxReads
          /\ reads' = reads + 1
          /\ reading' = [phase |-> "positions", kind |-> "account", list |-> None, held |-> held]
       \/ /\ reading.phase = "orders"
          /\ \E n \in {held, None} :
                 reading' = [phase |-> "positions", kind |-> "broker", list |-> reading.list, held |-> n]
          /\ UNCHANGED reads
    /\ UNCHANGED <<worldVars, ledgerVars, restarts>>

----------------------------------------------------------------------------
(* IBKR and the owner: code outside the repository *)

Tick ==
    /\ clock < MaxClock
    /\ reading # Idle => SlowRead /\ reading.kind = "broker"
    /\ clock' = clock + 1
    /\ UNCHANGED <<held, order, fills, ends, listed, readVars, ledgerVars, restarts>>

\* IBKR accepts a sell the gate released.
Arrive(o) ==
    /\ order[o].stage = "sent"
    /\ order' = [order EXCEPT ![o].stage = "working"]
    /\ UNCHANGED <<clock, held, fills, ends, listed, readVars, ledgerVars, restarts>>

\* A sell placed or raised by hand does not fill until a list of the open orders
\* shows it, unless no reading is there to bound it: facts "true and complete".
Seen(o) == o \in Hands /\ listed[o] = None => views = <<>> /\ reading = Idle

Fill(o, q) ==
    /\ order[o].stage = "working" /\ q <= order[o].left /\ q <= held /\ Seen(o)
    /\ held' = held - q
    /\ order' = [order EXCEPT ![o].stage = IF q = order[o].left THEN "over" ELSE @, ![o].left = @ - q]
    /\ fills' = fills \cup {[order |-> o, number |-> Cardinality({f \in fills : f.order = o}), at |-> clock, quantity |-> q]}
    /\ UNCHANGED <<clock, ends, listed, readVars, ledgerVars, restarts>>

Cancel(o) ==
    /\ order[o].stage = "working"
    /\ order' = [order EXCEPT ![o].stage = "over", ![o].left = 0]
    /\ ends' = IF o \in Ours THEN ends \cup {[order |-> o, at |-> clock]} ELSE ends
    /\ UNCHANGED <<clock, held, fills, listed, readVars, ledgerVars, restarts>>

PlaceByHand(h, q) ==
    /\ order[h].stage = "none"
    /\ order' = [order EXCEPT ![h] = [stage |-> "working", left |-> q, total |-> q]]
    /\ UNCHANGED <<clock, held, fills, ends, listed, readVars, ledgerVars, restarts>>

\* The owner raises a sell's size.  Were the lists to give what is left, only before
\* it fills below the size last listed: a rise that fills offset is one no two show.
RaiseByHand(h) ==
    /\ order[h].stage = "working" /\ order[h].total < Max(HandSizes)
    /\ LET rise == Max(HandSizes) - order[h].total
       IN  order' = [order EXCEPT ![h].left = @ + rise, ![h].total = @ + rise]
    /\ listed[h] \in {remaining(h), None}
    /\ listed' = [listed EXCEPT ![h] = None]
    /\ UNCHANGED <<clock, held, fills, ends, readVars, ledgerVars, restarts>>

----------------------------------------------------------------------------
Init ==
    /\ clock = 1 /\ held = Start
    /\ order = [o \in Orders |-> [stage |-> "none", left |-> 0, total |-> 0]]
    /\ fills = {} /\ ends = {} /\ listed = [h \in Hands |-> None]
    /\ reading = Idle /\ reads = 0
    /\ sells = [o \in Ours |-> NoSell] /\ views = <<>> /\ unknown = [o \in Orders |-> <<>>]
    /\ account = 0 /\ broker = 0 /\ restarts = 0

Release == \E o \in Ours, q \in 1..Start : release(o, q)

Next ==
    \/ Release
    \/ \E f \in fills : ObserveFill(f)
    \/ \E o \in Ours : ObserveLifecycle(o)
    \/ ObserveReading
    \/ RestoreRecovery
    \/ ReadOrders
    \/ ReadPositions
    \/ Tick
    \/ \E o \in Ours : Arrive(o)
    \/ \E o \in Orders, q \in 1..Start : Fill(o, q)
    \/ \E o \in Orders : Cancel(o)
    \/ \E h \in Hands, q \in HandSizes : PlaceByHand(h, q)
    \/ \E h \in Hands : RaiseByHand(h)

Spec == Init /\ [][Next]_vars

----------------------------------------------------------------------------
(* Properties *)

\* Every variable keeps its type; no sell is credited with more than it released.
TypeOK ==
    /\ clock \in 1..MaxClock /\ held \in 0..Start
    /\ order \in [Orders -> [stage : {"none", "sent", "working", "over"}, left : 0..Top, total : 0..Top]]
    /\ reads \in 0..MaxReads /\ restarts \in 0..MaxRestarts
    /\ account \in 0..Len(views) /\ broker \in 0..Len(views)
    /\ \A o \in Ours : /\ sells[o].released \in 0..Start
                       /\ Shares(sells[o].fills) <= sells[o].released

\* What is sure to be held once every sell still working has filled.
TrulyRemains ==
    Max({0, held - SumPending([o \in {p \in Orders : order[p].stage \in {"sent", "working"}} |-> order[o].left])})

\* The gate was given a listing of every sell placed by hand, at the size it has.
HandsShown ==
    /\ \A h \in Hands :
           /\ order[h].stage = "working" => listed[h] # None
           /\ order[h].stage # "none" /\ reading # Idle =>
                  reading.list = None \/ h \notin DOMAIN reading.list.left

\* pending.go:53: remains is never above what will truly be held, so a sell sized
\* net of unshown never sells a share that a working sell has sold or may still sell.
RemainsWithinTruth == HandsShown => remains(ledger) <= TrulyRemains

\* pending.go:58: a fill report or a lifecycle end only adds to what is known, so
\* it never raises unshown at a view: a step that changes only the sells the gate
\* knows, neither releasing one nor observing a snapshot, lowers remains never.
ReportsNeverRaise ==
    [][sells' # sells /\ views' = views /\ order' = order /\ HandsShown
           => remains([sells |-> sells', views |-> views', unknown |-> unknown']) >= remains(ledger)]_vars

\* Every sell is over, all that IBKR reported of ours has reached the gate, and
\* snapshot n and a list of the open orders were taken in a later second.
SettledBefore(n) ==
    /\ \A o \in Orders : order[o].stage \in {"none", "over"}
    /\ \A f \in fills : f.at < views[n].at /\ (f.order \in Ours => f \in sells[f.order].fills)
    /\ \A e \in ends : e.at < views[n].at /\ sells[e.order].ended
    /\ \A o \in Orders : unknown[o] # <<>> => unknown[o][Len(unknown[o])].by < latestList(ledger, [at |-> views[n].at, by |-> n])

\* The rule does not hold shares back for ever: once every sell is over and the
\* gate was told, a later snapshot shows them all free to sell.
SettledFreesAll == account # 0 /\ SettledBefore(account) => unshown(ledger, account) = 0
=============================================================================
