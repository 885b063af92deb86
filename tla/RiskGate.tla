------------------------------ MODULE RiskGate ------------------------------
(***************************************************************************)
(* The risk gate of internal/risklimit, for the margin account's one       *)
(* instrument, as operators on a gate record g: what it checks before an   *)
(* order is released, the account's state (normal, degraded on a scope,    *)
(* halted) and the incident that began it, the kill switch, the margin     *)
(* alarm, the one sale back to the unboosted holding that each incident,   *)
(* kill-switch engagement and urgent alarm may fire (states.go), what a    *)
(* restart restores (recovery.go) and the comparison of holdings with the  *)
(* journalled fills (reconcile.go, internal/reconcile).                    *)
(*                                                                         *)
(* A share costs 1 and net liquidation is fixed, so that a target weight   *)
(* is a number of shares; limit prices are left out.  Identities are       *)
(* tuples that begin with what they name.                                  *)
(***************************************************************************)
EXTENDS PendingRule, SequencesExt

CONSTANTS Instrument,     \* the instrument Boost trades
          Instruments,    \* every instrument the account may hold
          Keep,           \* invested_fraction: the unboosted target, which a sale goes back to
          MaxOrder,       \* max_order_fraction
          MaxExposure,    \* max_exposure
          MaxSnapshotAge, \* max_snapshot_age
          StaleAfter      \* excess_liquidity_stale_minutes

ASSUME GateAssumption ==
    /\ Instrument \in Instruments
    /\ Keep \in Nat \ {0} /\ MaxOrder \in Nat \ {0} /\ MaxExposure \in Nat \ {0}
    /\ MaxSnapshotAge \in Nat \ {0} /\ StaleAfter \in Nat \ {0}

NoTag == <<"none">>

Fold(S, f(_)) == MapThenFoldSet(LAMBDA a, b : a + b, 0, f, LAMBDA T : CHOOSE x \in T : TRUE, S)

ClientOrderID(tag, phase) == <<"order", tag, phase, 0>>

SaleAttemptClientOrderID(tag, retired) == <<"order", tag, "sale", retired>>

NewGate(mode) ==
    [mode |-> mode, decided |-> {}, state |-> "normal", scope |-> {}, incident |-> NoTag,
     killEngaged |-> FALSE, killID |-> NoTag, killAlerted |-> FALSE, lastKillAt |-> 0,
     broker |-> None, firstBroker |-> 0, staleOpen |-> FALSE,
     urgentRetry |-> FALSE, urgentWithheld |-> None, exitRetry |-> FALSE, exitWithheld |-> None,
     alarmLevel |-> "clear", alarmID |-> NoTag, lastReading |-> None,
     saleTags |-> {}, attempts |-> <<>>, pending |-> {}, retiredSales |-> <<>>, restored |-> NoTag,
     ledger |-> newSellLedger, account |-> 0, brokerView |-> 0, orders |-> <<>>,
     book |-> None, changes |-> {}, classified |-> None, classifiedAsOf |-> 0, latestReadAsOf |-> 0,
     reported |-> <<>>, reportedAsOf |-> <<>>, haltedOn |-> {}]

----------------------------------------------------------------------------
(* The account's state *)

\* The first step out of normal names the incident and its sale's tag.
move(g, state, cause) ==
    LET id == <<"engine-state", cause>>
        first == g.state = "normal"
    IN  [g EXCEPT !.state = state,
                  !.incident = IF first THEN id ELSE @,
                  !.saleTags = IF first THEN @ \cup {id} ELSE @]

halt(g, cause) == [move(g, "halted", cause) EXCEPT !.scope = {}]

\* Mutant of degrade: the state is in force with the scope of its latest cause only.
MutantLatestScope(g, scope, cause) == [move(g, "degraded", cause) EXCEPT !.scope = scope]

degrade(g, scope, cause) == [move(g, "degraded", cause) EXCEPT !.scope = @ \cup scope]

\* What engine.state records of the gate's state.
EngineState(g, cause) == [id |-> <<"engine-state", cause>>, state |-> g.state, scope |-> g.scope]

\* A recorded engine.state only ever tightens.
tighten(g, id, state, scope) ==
    IF state # "halted" /\ g.state = "halted" THEN g
    ELSE LET first == g.state = "normal"
         IN  [g EXCEPT !.incident = IF first THEN id ELSE @,
                       !.saleTags = IF first THEN @ \cup {id} ELSE @,
                       !.state = state,
                       !.scope = IF state = "halted" THEN {} ELSE @ \cup scope]

RestoreState(g, p) == tighten(g, p.id, p.state, p.scope)

\* Whether an instruction is older than the one in force.
refusesKillSwitch(g, p) == p.asOf < g.lastKillAt

\* Mutant of SetKillSwitch: an engagement is recorded and not put in force.
MutantNotInForce(g, id, p) == [g EXCEPT !.lastKillAt = p.asOf, !.killAlerted = FALSE, !.saleTags = IF p.engaged THEN @ \cup {id} ELSE @]

SetKillSwitch(g, id, p) ==
    LET engages == p.engaged /\ ~g.killEngaged
    IN  [g EXCEPT !.lastKillAt = p.asOf,
                  !.killEngaged = p.engaged,
                  !.killID = IF engages THEN id ELSE IF p.engaged THEN @ ELSE NoTag,
                  !.killAlerted = IF engages THEN FALSE ELSE @,
                  !.saleTags = IF engages THEN @ \cup {id} ELSE @]

----------------------------------------------------------------------------
(* Broker snapshots *)

Readable(s, component) == component \notin s.unreadable

\* The holding the latest broker snapshot shows and the sells it cannot show.
brokerHolding(g) ==
    LET ok == g.broker # None => Readable(g.broker, "positions") /\ Readable(g.broker, "open-orders")
    IN  IF g.broker = None \/ ~ok THEN [ok |-> FALSE, holding |-> 0, working |-> 0]
        ELSE [ok |-> TRUE, holding |-> g.broker.positions[Instrument], working |-> unshown(g.ledger, g.brokerView)]

\* A snapshot taken after the trigger, or too long before it.
StaleDetail(s, at) == at < s.asOf \/ at - s.asOf > MaxSnapshotAge

sizable(s) ==
    /\ \A c \in {"net-liquidation", "open-orders", "positions"} : Readable(s, c)
    /\ s.net
    /\ s.positions[Instrument] # 0 => s.mark = "set"

refusesExit(g) == g.state = "halted" \/ (g.state = "degraded" /\ Instrument \in g.scope) \/ g.killEngaged

\* A withheld sale that waits for a snapshot it can be sized from.
armed(withheld, id) == withheld # None /\ withheld.id = id

\* Mutant of disarm: the sale decided by one trigger still waits under the other.
MutantWaitsOn(g, id) == [g EXCEPT !.urgentRetry = @ /\ ~armed(g.urgentWithheld, id), !.urgentWithheld = IF armed(@, id) THEN None ELSE @]

disarm(g, id) ==
    LET urgent == armed(g.urgentWithheld, id)
        exit == armed(g.exitWithheld, id)
    IN  [g EXCEPT !.urgentRetry = @ /\ ~urgent, !.urgentWithheld = IF urgent THEN None ELSE @,
                  !.exitRetry = @ /\ ~exit, !.exitWithheld = IF exit THEN None ELSE @]

\* The exit's waiting sale is dropped: what is journalled of it (None when the
\* alarm still waits for the same sale).
lapseExit(g) ==
    [gate   |-> [g EXCEPT !.exitRetry = FALSE, !.exitWithheld = None],
     lapsed |-> IF g.exitWithheld = None THEN None
                ELSE IF armed(g.urgentWithheld, g.exitWithheld.id) THEN None ELSE g.exitWithheld]

LapseExitSale(g) == IF g.exitRetry THEN lapseExit(g) ELSE [gate |-> g, lapsed |-> None]

\* The alarm a snapshot decides: its level, and whether it read the ratio at all.
alarmFor(g, s) ==
    LET since == IF g.broker = None THEN s.asOf ELSE IF g.lastReading # None THEN g.lastReading ELSE g.firstBroker
        reading == Readable(s, "excess-liquidity") /\ Readable(s, "net-liquidation")
    IN  [reading |-> reading,
         decided |-> reading \/ (s.open /\ s.asOf - since >= StaleAfter),
         level   |-> IF reading /\ s.net THEN s.level ELSE "urgent"]

\* Which sales a snapshot fires: the urgent alarm's, else the waiting exit's.
fires(g, s, level, changed, retryExit) ==
    LET urgent == IF changed THEN level = "urgent"
                  ELSE g.alarmLevel = "urgent" /\ g.urgentRetry /\ sizable(s)
    IN  [urgent |-> urgent, exit |-> retryExit /\ ~urgent]

retriesExit(g, s) == g.exitRetry /\ refusesExit(g) /\ sizable(s)

\* The list the pending rule reads: the sells of the instrument.
listedSells(s) ==
    IF ~Readable(s, "open-orders") THEN None
    ELSE LET sells == {o \in DOMAIN s.left : s.left[o].side = "sell"}
         IN  [named |-> s.named, left |-> [o \in sells |-> s.left[o].left]]

recordBroker(g, s) ==
    LET holding == IF Readable(s, "positions") THEN s.positions[Instrument] ELSE None
        l == observed(g.ledger, s.asOf, holding, listedSells(s), "broker")
    IN  [g EXCEPT !.ledger = l, !.brokerView = Len(l.views)]

ObserveAccount(g, p) ==
    LET l == observed(g.ledger, p.asOf, p.positions[Instrument], None, "account")
    IN  [g EXCEPT !.ledger = l, !.account = Len(l.views)]

refusesBroker(g, s) == g.broker # None /\ s.asOf <= g.broker.asOf

\* A broker snapshot: the gate after it, the sales it fires, the alarm it
\* changes to and the waiting sales it lets lapse.
ObserveBroker(g0, s) ==
    LET first == g0.broker = None
        g1 == [recordBroker(g0, s) EXCEPT !.firstBroker = IF first THEN s.asOf ELSE @, !.broker = s, !.staleOpen = FALSE]
        retryExit == retriesExit(g1, s)
        over == g1.exitRetry /\ ~refusesExit(g1)
        exit == IF over THEN lapseExit(g1) ELSE [gate |-> g1, lapsed |-> None]
        alarm == alarmFor(g1, s)
        g2 == [exit.gate EXCEPT !.lastReading = IF alarm.reading THEN s.asOf ELSE @]
        changed == alarm.decided /\ alarm.level # g2.alarmLevel
        fired == fires(g2, s, alarm.level, changed, retryExit)
        dropped == /\ changed /\ g2.urgentRetry /\ alarm.level # "urgent" /\ g2.urgentWithheld # None
                   /\ ~armed(g2.exitWithheld, g2.urgentWithheld.id)
        id == <<"margin-alarm", s.asOf>>
        urgent == changed /\ alarm.level = "urgent"
    IN  [gate   |-> IF ~changed THEN g2
                    ELSE [g2 EXCEPT !.urgentRetry = FALSE,
                                    !.urgentWithheld = IF g2.urgentRetry THEN None ELSE @,
                                    !.alarmLevel = alarm.level,
                                    !.alarmID = IF urgent THEN id ELSE @,
                                    !.saleTags = IF urgent THEN @ \cup {id} ELSE @],
         urgent |-> fired.urgent,
         exit   |-> fired.exit,
         lapsed |-> [exit |-> exit.lapsed, urgent |-> IF dropped THEN g2.urgentWithheld ELSE None]]

----------------------------------------------------------------------------
(* What is checked before an order is released *)

\* A sell of what the broker (or, unread, the book) shows to be held.
riskReducing(g, p) ==
    LET b == brokerHolding(g)
    IN  /\ p.side = "sell"
        /\ IF b.ok THEN b.holding > 0 /\ p.quantity <= subtractPending(b.holding, b.working)
           ELSE p.quantity <= p.held

staleFor(g, p, at) == p.side = "sell" /\ brokerHolding(g).ok /\ StaleDetail(g.broker, at)

\* A check against a readable, fresh snapshot ends the episode of stale ones.
freshCheck(g, at) == IF brokerHolding(g).ok /\ ~StaleDetail(g.broker, at) THEN [g EXCEPT !.staleOpen = FALSE] ELSE g

\* The limits in the order they are read; the holdings are the book's.
breach(g, p, mark, holdings) ==
    LET b == brokerHolding(g)
        held == holdings[Instrument]
        after == IF p.side = "buy" THEN held + p.quantity ELSE held - p.quantity
        increases == (IF after < 0 THEN -after ELSE after) > (IF held < 0 THEN -held ELSE held)
        unvalued == \E i \in Instruments \ {Instrument} : holdings[i] # 0
    IN  IF p.side = "sell" /\ b.ok /\ p.quantity > subtractPending(b.holding, b.working) THEN "broker-holding"
        ELSE IF p.side = "sell" /\ p.quantity > held THEN "sell-exceeds-holding"
        ELSE IF riskReducing(g, p) THEN ""
        ELSE IF mark = "none" THEN "missing-mark"
        ELSE IF mark = "far" THEN "price-band"
        ELSE IF p.quantity > MaxOrder THEN "order-size"
        ELSE IF increases /\ unvalued THEN "unvalued-holding"
        ELSE IF increases /\ after > MaxExposure THEN "margin-exposure"
        ELSE ""

\* An order the gate lets through, and the ledger when it is a sell.
release(g, p) ==
    [g EXCEPT !.orders = With(@, p.id, [tag |-> p.tag, side |-> p.side, quantity |-> p.quantity, sale |-> p.sale, fills |-> {}]),
              !.ledger = IF p.side = "sell" THEN released(@, p.id, p.quantity) ELSE @]

\* What a verdict was reached from.
figures(g, p) ==
    LET b == brokerHolding(g)
    IN  [broker |-> b.ok, holding |-> b.holding, working |-> b.working, reducing |-> riskReducing(g, p)]

Outcome(g, reason, states) == [gate |-> g, reason |-> reason, states |-> states]

\* A sale: only the one the gate fired for this tag, only once, and only of
\* what the broker shows.
checkSale(g, p) ==
    LET b == brokerHolding(g)
        spent == [g EXCEPT !.pending = @ \ {p.id}]
        reason == IF p.tag \notin g.saleTags THEN "undecided-order"
                  ELSE IF p.id \notin g.pending THEN "sale-attempted"
                  ELSE IF ~b.ok \/ p.quantity > subtractPending(b.holding, b.working) THEN "broker-holding"
                  ELSE ""
    IN  CASE reason = "undecided-order" /\ g.state # "halted" -> Outcome(halt(g, p.id), reason, <<EngineState(halt(g, p.id), p.id)>>)
          [] reason = "undecided-order" /\ g.state = "halted" -> Outcome(g, reason, <<>>)
          [] reason = "sale-attempted" -> Outcome(g, reason, <<>>)
          [] reason = "broker-holding" -> Outcome(spent, reason, <<>>)
          [] reason = "" -> Outcome(release(spent, p), reason, <<>>)

\* One planned order.  A refusal by a limit degrades the account on the instrument.
checkOrder(g, p, mark, holdings, at) ==
    LET limit == breach(g, p, mark, holdings)
        reason == IF g.state = "halted" THEN "engine-halted"
                  ELSE IF p.tag \notin g.decided THEN "undecided-order"
                  ELSE IF g.killEngaged THEN "kill-switch"
                  ELSE IF g.state = "degraded" /\ (p.side = "buy" \/ Instrument \in g.scope) THEN "engine-degraded"
                  ELSE IF g.state = "degraded" /\ ~brokerHolding(g).ok THEN "broker-unread"
                  ELSE IF staleFor(g, p, at) THEN "stale-broker-snapshot"
                  ELSE IF limit # "" THEN "limit"
                  ELSE ""
        degraded == degrade(g, {Instrument}, p.id)
    IN  CASE reason = "undecided-order" -> Outcome(halt(g, p.id), reason, <<EngineState(halt(g, p.id), p.id)>>)
          [] reason = "kill-switch" -> Outcome([g EXCEPT !.killAlerted = TRUE], reason, <<>>)
          [] reason = "stale-broker-snapshot" -> Outcome([g EXCEPT !.staleOpen = TRUE], reason, <<>>)
          [] reason = "broker-unread" -> Outcome(g, "broker-holding", <<>>)
          [] reason = "limit" -> Outcome(degraded, limit, <<EngineState(degraded, p.id)>>)
          [] reason = "" -> Outcome(release(g, p), reason, <<>>)
          [] OTHER -> Outcome(g, reason, <<>>)

Check(g, p, mark, holdings, at) ==
    IF p.sale # None THEN checkSale(freshCheck(g, at), p) ELSE checkOrder(freshCheck(g, at), p, mark, holdings, at)

----------------------------------------------------------------------------
(* The sale back to the unboosted holding *)

\* What fires a sale: the incident, the kill switch or the urgent alarm.
saleTag(g, trigger) ==
    IF g.state = "halted" \/ (g.state = "degraded" /\ Instrument \in g.scope) THEN [tag |-> g.incident, kind |-> "incident"]
    ELSE IF g.killEngaged THEN [tag |-> g.killID, kind |-> "incident"]
    ELSE IF trigger = "margin-urgent" /\ g.alarmLevel = "urgent" THEN [tag |-> g.alarmID, kind |-> "urgent"]
    ELSE [tag |-> NoTag, kind |-> ""]

restoredRetired(g, tag) == IF tag \in DOMAIN g.attempts THEN g.attempts[tag].retired ELSE 0

retiredCount(g, tag) == restoredRetired(g, tag) + (IF tag \in DOMAIN g.retiredSales THEN g.retiredSales[tag] ELSE 0)

\* Mutant of saleAttemptedFor: only an attempt of an earlier run counts.
MutantEarlierOnly(g, tag) == tag \in DOMAIN g.attempts /\ g.attempts[tag].earlier

saleAttemptedFor(g, tag) == tag \in DOMAIN g.attempts /\ (g.attempts[tag].earlier \/ g.attempts[tag].own)

recordAttempt(g, tag) ==
    [g EXCEPT !.attempts = With(@, tag, [earlier |-> FALSE, retired |-> restoredRetired(g, tag), own |-> TRUE])]

\* Mutant of saleQuantity: the sells already working are not counted.
MutantSellsAgain(holding, working) == holding - Keep

\* The smallest of the three bounds on a sale.
saleQuantity(holding, working) == Min({holding - Keep, holding - working, holding - working - Keep})

\* Sized from the latest broker snapshot, never below the shares to keep and
\* never into shares already being sold; or why it is withheld.
PlanSale(g, tag, kind, trigger, at) ==
    LET s == g.broker
        id == SaleAttemptClientOrderID(tag, retiredCount(g, tag))
        holding == s.positions[Instrument]
        working == brokerHolding(g).working
        quantity == saleQuantity(holding, working)
        stranger == \E o \in DOMAIN s.left : s.left[o].side = "sell" /\ (s.named => o \notin DOMAIN g.orders)
        unread == \E c \in {"net-liquidation", "open-orders", "positions"} : ~Readable(s, c)
        reason == IF s = None THEN "broker-values-unreadable"
                  ELSE IF unread THEN "broker-values-unreadable"
                  ELSE IF StaleDetail(s, at) THEN "stale-broker-snapshot"
                  ELSE IF ~s.net THEN "non-positive-broker-values"
                  ELSE IF holding # 0 /\ s.mark = "zero" THEN "non-positive-broker-values"
                  ELSE IF holding <= 0 THEN "nothing-to-sell"
                  ELSE IF s.mark = "none" THEN "broker-values-unreadable"
                  ELSE IF kind = "incident" /\ stranger THEN "unknown-working-sell"
                  ELSE IF quantity <= 0 THEN "nothing-to-sell"
                  ELSE ""
    IN  [order    |-> IF reason # "" THEN None
                      ELSE [id |-> id, tag |-> tag, side |-> "sell", quantity |-> quantity, held |-> holding,
                            sale |-> [kind |-> kind, trigger |-> trigger, working |-> working]],
         withheld |-> IF reason = "" THEN None ELSE [id |-> id, tag |-> tag, kind |-> kind, trigger |-> trigger, reason |-> reason]]

Attempted(w) == w.reason \in {"broker-values-unreadable", "unknown-working-sell"}

\* The sale a trigger fires.  ok is false when there is nothing to fire for or it
\* has been fired.
Sale(g, trigger, at) ==
    LET t == saleTag(g, trigger)
        plan == PlanSale(g, t.tag, t.kind, trigger, at)
        w == plan.withheld
        spends == IF w = None THEN TRUE ELSE Attempted(w)
        retry == IF w = None THEN FALSE ELSE w.reason \in {"stale-broker-snapshot", "non-positive-broker-values"}
        g1 == IF spends THEN recordAttempt(g, t.tag) ELSE g
        g2 == IF w = None THEN [g1 EXCEPT !.pending = @ \cup {plan.order.id}] ELSE g1
        g3 == freshCheck(g2, at)
        stale == IF w = None THEN FALSE ELSE w.reason = "stale-broker-snapshot"
        g4 == [g3 EXCEPT !.staleOpen = @ \/ stale]
        g5 == IF trigger = "margin-urgent" THEN [g4 EXCEPT !.urgentRetry = retry, !.urgentWithheld = IF retry THEN w ELSE None]
              ELSE [g4 EXCEPT !.exitRetry = retry, !.exitWithheld = IF retry THEN w ELSE None]
        id == SaleAttemptClientOrderID(t.tag, retiredCount(g, t.tag))
    IN  IF t.tag = NoTag THEN [gate |-> g, ok |-> FALSE, order |-> None, withheld |-> None]
        ELSE IF saleAttemptedFor(g, t.tag) THEN [gate |-> disarm(g, id), ok |-> FALSE, order |-> None, withheld |-> None]
        ELSE [gate |-> IF spends THEN disarm(g5, id) ELSE g5, ok |-> TRUE, order |-> plan.order, withheld |-> w]

\* A sale that was never sent gives its attempt back, and waits to be sized anew.
RetireSale(g, id) ==
    LET o == g.orders[id]
        given == [g EXCEPT !.attempts = IF o.tag \in DOMAIN @ THEN [@ EXCEPT ![o.tag].own = FALSE] ELSE @,
                           !.retiredSales = With(@, o.tag, 1 + (IF o.tag \in DOMAIN @ THEN @[o.tag] ELSE 0))]
        urgent == o.sale.trigger = "margin-urgent" /\ g.alarmLevel = "urgent"
        exit == o.sale.trigger = "exit" /\ refusesExit(g)
    IN  [gate    |-> [given EXCEPT !.urgentRetry = @ \/ urgent, !.urgentWithheld = IF urgent THEN None ELSE @,
                                   !.exitRetry = @ \/ exit, !.exitWithheld = IF exit THEN None ELSE @],
         tag     |-> o.tag,
         attempt |-> retiredCount(given, o.tag)]

isSale(g, id) == IF id \in DOMAIN g.orders THEN g.orders[id].sale # None ELSE FALSE

----------------------------------------------------------------------------
(* Reports on released orders *)

Filled(g, id) == IF id \in DOMAIN g.orders THEN Fold(g.orders[id].fills, LAMBDA f : f.quantity) ELSE 0

Fills(g, id) == IF id \in DOMAIN g.orders THEN g.orders[id].fills ELSE {}

\* A fill of an order the gate does not know, or of more than it released.
refusesFill(g, f) ==
    \/ f.order \notin DOMAIN g.orders
    \/ f \notin g.orders[f.order].fills /\ f.quantity > g.orders[f.order].quantity - Filled(g, f.order)

\* A fill as a change of the book.
FillChange(f, side) ==
    [kind |-> "fill", id |-> <<"fill", f.order, f.number>>, at |-> f.at,
     shares |-> IF side = "sell" THEN -f.quantity ELSE f.quantity]

\* A fill delivered again changes nothing.
ObserveFill(g, f) ==
    IF f \in g.orders[f.order].fills THEN g
    ELSE LET sold == g.orders[f.order].side = "sell"
         IN  [g EXCEPT !.orders[f.order].fills = @ \cup {f},
                       !.changes = @ \cup {FillChange(f, g.orders[f.order].side)},
                       !.classified = None,
                       !.ledger = IF sold THEN filled(@, f) ELSE @]

Terminal(status) == status \in {"canceled", "invalid"}

\* A lifecycle report.  A retirement names no venue order.
ObserveLifecycle(g, id, status, at, named) ==
    IF g.orders[id].side # "sell" THEN g
    ELSE LET l == IF named THEN learnVenue(g.ledger, id) ELSE g.ledger
         IN  [g EXCEPT !.ledger = IF Terminal(status) THEN ended(l, id, at, status) ELSE l]

----------------------------------------------------------------------------
(* What a restarted run restores from a decision *)

\* The incident's sale attempt a decision records: the one restored, or the
\* incident in force on the instrument.
RestoredSaleAttempt(g) ==
    LET inForce == g.state = "halted" \/ (g.state = "degraded" /\ Instrument \in g.scope)
        incident == IF g.restored # NoTag THEN g.restored ELSE IF inForce THEN g.incident ELSE NoTag
    IN  [incident |-> incident, attempted |-> saleAttemptedFor(g, incident), retired |-> restoredRetired(g, incident)]

\* The sale this run released for a tag: None when there is none.
OwnReleasedSale(g, tag) ==
    LET attempt == retiredCount(g, tag)
        id == SaleAttemptClientOrderID(tag, attempt)
        own == tag \in DOMAIN g.attempts => g.attempts[tag].own /\ ~g.attempts[tag].earlier
    IN  IF tag \notin DOMAIN g.attempts \/ ~own \/ ~isSale(g, id) THEN None
        ELSE LET sell == g.ledger.sells[id]
             IN  [id |-> id, quantity |-> g.orders[id].quantity, trigger |-> g.orders[id].sale.trigger, attempt |-> attempt + 1,
                  venue |-> sell.venue, fills |-> Fills(g, id), ended |-> IF sell.ended THEN sell.end ELSE 0, status |-> sell.endStatus]

Live(s) == s.ended = 0 /\ Fold(s.fills, LAMBDA f : f.quantity) < s.quantity

\* One order restored: known, in the ledger when it is a sell, with its fills and end.
applyReleased(g, r) ==
    LET o == r.order
        g1 == [g EXCEPT !.orders = With(@, o.id, [tag |-> o.tag, side |-> o.side, quantity |-> o.quantity, sale |-> None, fills |-> {}])]
        l == restored(g.ledger, o.id, o.quantity, r.venue)
        closed == [l EXCEPT !.sells[o.id].ended = TRUE, !.sells[o.id].end = r.ended]
        g2 == IF o.side = "sell" THEN [g1 EXCEPT !.ledger = IF r.ended # 0 THEN closed ELSE l] ELSE g1
    IN  [g2 EXCEPT !.orders[o.id].fills = r.fills,
                   !.changes = @ \cup {FillChange(f, o.side) : f \in r.fills},
                   !.ledger = IF o.side = "sell" THEN [@ EXCEPT !.sells[o.id].fills = r.fills] ELSE @]

\* An order is restored once, released some shares and was filled in part at most
\* (in full only as the incident's own sale).
checkRestored(g, r, filledInFull) ==
    LET sum == Fold(r.fills, LAMBDA f : f.quantity)
    IN  /\ r.order.id \notin DOMAIN g.orders /\ r.order.quantity > 0
        /\ sum < r.order.quantity \/ (filledInFull /\ sum = r.order.quantity)
        /\ \A f \in r.fills : f.order = r.order.id

\* The incident's own sale is the next attempt of the incident restored.
checkOwnSale(g, s) ==
    /\ s.order.tag # NoTag /\ s.order.tag = g.restored /\ ~saleAttemptedFor(g, s.order.tag)
    /\ s.order.side = "sell"
    /\ (s.ended = 0) = (s.status = "")
    /\ s.order.id = SaleAttemptClientOrderID(s.order.tag, retiredCount(g, s.order.tag))
    /\ s.attempt = retiredCount(g, s.order.tag) + 1
    /\ checkRestored(g, s, TRUE)

\* The orders of rs restored one after the other; ok while each passes its check.
RestoreAll(st, rs) ==
    FoldLeft(LAMBDA acc, r : [ok |-> acc.ok /\ checkRestored(acc.gate, r, FALSE), gate |-> applyReleased(acc.gate, r)], st, rs)

\* The attempt at an incident's sale an earlier run made, and how many it retired.
restoreAttempt(st, a) ==
    LET known == With(st.gate.attempts, a.incident, [earlier |-> a.attempted, retired |-> a.retired, own |-> FALSE])
    IN  IF a = None THEN st ELSE [st EXCEPT !.gate = [st.gate EXCEPT !.attempts = known, !.restored = a.incident]]

\* The sales the run itself retired, beyond those restored with the attempt.
restoreRetired(st, sales) ==
    LET tags == {r.tag : r \in sales}
        count(tag) == Max({0} \cup {r.attempt - restoredRetired(st.gate, tag) : r \in {q \in sales : q.tag = tag}})
    IN  [st EXCEPT !.gate.retiredSales = [t \in DOMAIN @ \cup tags |-> IF t \in tags THEN count(t) ELSE @[t]]]

\* The sale of the incident that the run itself released.
restoreOwn(st, own) ==
    IF own = None THEN st
    ELSE [ok |-> st.ok /\ checkOwnSale(st.gate, own),
          gate |-> recordAttempt([applyReleased(st.gate, own) EXCEPT
                       !.orders[own.order.id].sale = [kind |-> "incident", trigger |-> own.trigger, working |-> 0],
                       !.ledger.sells[own.order.id].endStatus = own.status], own.order.tag)]

\* A whole recovery: the released orders, the sale attempt, the retired sales, the
\* incident's own sale and the working orders.
RestoreRecovery(g, rec) ==
    RestoreAll(restoreOwn(restoreRetired(restoreAttempt(RestoreAll([ok |-> TRUE, gate |-> g], rec.released),
                                                        rec.attempt),
                                         rec.retiredSales),
                          rec.own),
               rec.working)

----------------------------------------------------------------------------
(* Holdings compared with the journal *)

\* The shares held after the fills among the changes applied; a dividend moves none.
sharesAfter(held, applied) == held + Fold({c \in applied : c.kind = "fill"}, LAMBDA c : c.shares)

\* The book's positions and the journalled changes since it against what was
\* read: the residual of each instrument compared and why nothing can be.
classify(book, changes, obs) ==
    LET since == {c \in changes : book.asOf <= c.at /\ c.at < obs.asOf}
        applied == {c \in since : c.kind \in {"fill", "dividend"}}
        expected(i) == IF i = Instrument THEN sharesAfter(book.positions[i], applied) ELSE book.positions[i]
        compared == {i \in Instruments : book.positions[i] # 0 \/ obs.positions[i] # 0 \/ (i = Instrument /\ applied # {})}
        unread == IF obs.positions = None THEN {<<"positions-unread">>} ELSE {}
        reasons == IF book = None THEN unread \cup {<<"no-book">>}
                   ELSE unread \cup (IF obs.asOf < book.asOf THEN {<<"precedes-book">>} ELSE {})
                               \cup {<<"unapplied", c.id>> : c \in since \ applied}
    IN  [reasons  |-> reasons,
         residual |-> IF book = None \/ obs.positions = None THEN <<>>
                      ELSE [i \in compared |-> obs.positions[i] - expected(i)]]

Differs(r) == {i \in DOMAIN r.residual : r.residual[i] # 0}

Action(r) == IF r.reasons # {} THEN "halt" ELSE IF Differs(r) # {} THEN "degrade" ELSE "continue"

\* What a result does to the account's state; the states journalled with it.
consequence(g0, id, r) ==
    LET g == IF Action(r) = "halt" THEN [g0 EXCEPT !.haltedOn = @ \cup r.reasons] ELSE g0
        halts == Action(r) = "halt" /\ g.state # "halted"
        widens == /\ Action(r) = "degrade" /\ g.state # "halted"
                  /\ g.state = "degraded" => ~(Differs(r) \subseteq g.scope)
        next == IF halts THEN halt(g, id) ELSE IF widens THEN degrade(g, Differs(r), id) ELSE g
    IN  [gate |-> next, states |-> IF halts \/ widens THEN <<EngineState(next, id)>> ELSE <<>>]

\* The residuals a read reported, each until a later read explains it.
report(g, r, asOf, compared) ==
    LET gone == IF compared THEN {i \in DOMAIN g.reported \ DOMAIN r.residual : asOf >= g.reportedAsOf[i]} ELSE {}
        fresh == {i \in DOMAIN r.residual : i \in DOMAIN g.reportedAsOf => asOf >= g.reportedAsOf[i]}
    IN  [g EXCEPT !.reported = [i \in (DOMAIN @ \ (gone \cup fresh)) \cup (fresh \cap Differs(r)) |->
                                   IF i \in fresh THEN r.residual[i] ELSE @[i]],
                  !.reportedAsOf = [i \in DOMAIN @ \cup fresh |-> IF i \in gone \cup fresh THEN asOf ELSE @[i]]]

alreadyReported(g, r) == \A i \in Differs(r) : i \in DOMAIN g.reported /\ g.reported[i] = r.residual[i]

alreadyHaltedOn(g, r) == g.state = "halted" /\ r.reasons # {} /\ r.reasons \subseteq g.haltedOn

\* Whether the positions classified last stand for those of b.
classifiedStandsFor(g, b) ==
    LET lo == Min({g.classifiedAsOf, b.asOf})
        hi == Max({g.classifiedAsOf, b.asOf})
    IN  /\ g.classified = b.positions
        /\ \A c \in g.changes : ~(c.at >= g.book.asOf /\ c.at >= lo /\ c.at < hi)

\* The book a new account snapshot starts.
SetBook(g, b) ==
    [g EXCEPT !.book = b, !.classified = None, !.latestReadAsOf = 0, !.reported = <<>>, !.reportedAsOf = <<>>]

\* An account snapshot against the book before it; what was said already is not
\* said again.
CheckBook(g, b) ==
    LET r == classify(g.book, g.changes, b)
        quiet == \/ g.book = None
                 \/ Action(r) = "continue"
                 \/ Action(r) = "halt" /\ alreadyHaltedOn(g, r) /\ alreadyReported(g, r)
                 \/ Action(r) = "degrade" /\ (classifiedStandsFor(g, b) \/ alreadyReported(g, r))
        c == consequence(g, b.anchor, r)
    IN  IF quiet THEN [gate |-> SetBook(g, b), states |-> <<>>] ELSE [gate |-> SetBook(c.gate, b), states |-> c.states]

\* A reconciliation input.
Reconcile(g, id, obs) ==
    LET r == classify(g.book, g.changes, obs)
        read == g.book # None /\ obs.positions # None
        g1 == IF read /\ obs.asOf >= g.latestReadAsOf
              THEN [g EXCEPT !.latestReadAsOf = obs.asOf, !.classified = obs.positions, !.classifiedAsOf = obs.asOf] ELSE g
        compared == IF read THEN obs.asOf >= g.book.asOf ELSE FALSE
    IN  consequence(report(g1, r, obs.asOf, compared), id, r)

ObserveCorporateAction(g, c) == [g EXCEPT !.changes = @ \cup {c}, !.classified = None]
=============================================================================
