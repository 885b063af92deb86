---------------------------- MODULE BoostHandler ---------------------------
(***************************************************************************)
(* The handler of a Boost run (internal/targetweight/handler.go and        *)
(* verdicts.go) as operators on a handler record h: each apply... takes    *)
(* one input and returns the handler after it, with what it wrote in       *)
(* h.out, in order, and with h.fault set when it refused the input or      *)
(* would have written an event that is not valid (either ends the run).    *)
(*                                                                         *)
(* At each session the run decides a target from the latch, plans at most  *)
(* one order towards it and watches that order until it ends; the venue's  *)
(* words on its orders arrive late and in any order, and two rejections in *)
(* a row stop its buys.  A decision records all of it, so that a restarted *)
(* run goes on from the decision (applyRecovery).                          *)
(*                                                                         *)
(* The indicators are their readings: whether the entry and the exit rule  *)
(* hold.  The released orders are the gate's, which are kept in step.      *)
(***************************************************************************)
EXTENDS BoostEvents

NoVerdicts == [rejections |-> 0, inARow |-> <<>>, undecided |-> <<>>, older |-> 0, whileStopped |-> 0]

\* A handler straight after its configuration.
New(mode) ==
    [mode |-> mode, recovered |-> FALSE, approved |-> FALSE, started |-> FALSE, quietUntil |-> 0,
     latched |-> FALSE, inForce |-> 0, replan |-> FALSE, cause |-> NoReplan, watch |-> None,
     verdicts |-> NoVerdicts, cleared |-> <<>>, retired |-> <<>>, named |-> {}, working |-> <<>>,
     withheld |-> NoReplan, stoppedRejections |-> <<>>, gap |-> <<>>, lastPeriod |-> 0,
     snapshot |-> None, mark |-> None, gate |-> NewGate(mode), out |-> <<>>, fault |-> ""]

Fail(h, why) == [h EXCEPT !.fault = IF @ = "" THEN why ELSE @]

\* An event is written only when it is valid.
add(h, valid, e) == [(IF valid THEN h ELSE Fail(h, "invalid event")) EXCEPT !.out = Append(@, e)]

\* The states a verdict or a comparison leaves behind.
addStates(h, states) ==
    FoldLeft(LAMBDA acc, s : add(acc, ValidEngineState(s), [type |-> "engine.state", state |-> s]), h, states)

orderOf(h, id) == h.gate.orders[id]

IndexOf(orders, id) == Max({0} \cup {i \in DOMAIN orders : orders[i].id = id})

Without(orders, id) == SelectSeq(orders, LAMBDA o : o.id # id)

----------------------------------------------------------------------------
(* The venue's rejections in a row (verdicts.go) *)

Stopped(v) == v.rejections >= RejectionLimit

Holds(v, id) == id \in Ids(v.undecided)

Release(v, id) == IF Holds(v, id) THEN v ELSE [v EXCEPT !.undecided = Append(@, [id |-> id, venue |-> FALSE])]

\* The i-th undecided order leaves the list.
leave(v, i) ==
    [v EXCEPT !.undecided = RemoveAt(@, i), !.older = IF i <= @ THEN @ - 1 ELSE @]

\* Mutant of observe: the orders older than a rejection are one too many.
MutantOffByOne(v, id, rejected) ==
    LET i == IndexOf(v.undecided, id)
    IN  IF i = 0 THEN [verdicts |-> v, word |-> "none"]
        ELSE IF ~rejected THEN [verdicts |-> leave(v, i), word |-> "accepted"]
        ELSE [verdicts |-> [leave(v, i) EXCEPT !.rejections = @ + 1, !.inARow = Append(@, [id |-> id]), !.older = i], word |-> "rejected"]

\* Mutant of observe: a rejection delivered again is counted again.
MutantCountsAgain(v, id, rejected) ==
    LET i == IndexOf(v.undecided, id)
    IN  IF i = 0 \/ Stopped(v) THEN [verdicts |-> v, word |-> "none"]
        ELSE IF ~rejected THEN [verdicts |-> [leave(v, i) EXCEPT !.rejections = 0, !.inARow = <<>>, !.older = 0], word |-> "accepted"]
        ELSE [verdicts |-> [v EXCEPT !.rejections = @ + 1, !.inARow = Append(@, [id |-> id]), !.older = i - 1], word |-> "rejected"]

\* The venue's first word on an order.  An acceptance ends the run of rejections
\* unless a rejection counted was released after it.
observe(v, id, rejected) ==
    LET i == IndexOf(v.undecided, id)
        older == i <= v.older
        left == leave(v, i)
    IN  IF i = 0 THEN [verdicts |-> v, word |-> "none"]
        ELSE IF ~rejected
        THEN [verdicts |-> IF ~Stopped(v) /\ ~older THEN [left EXCEPT !.rejections = 0, !.inARow = <<>>, !.older = 0] ELSE left,
              word |-> "accepted"]
        ELSE IF Stopped(v) THEN [verdicts |-> [left EXCEPT !.whileStopped = @ + 1], word |-> "rejected-while-stopped"]
        ELSE [verdicts |-> [left EXCEPT !.rejections = @ + 1, !.inARow = Append(@, [id |-> id]),
                                        !.older = IF older THEN @ ELSE i - 1],
              word |-> "rejected"]

\* invalid rejects; submitted decides nothing; every other word accepts.
BoostLifecycleWord(status) == [rejected |-> status = "invalid", decides |-> status # "submitted"]

\* The owner settles orders as never sent: each awaits the venue's word, was never
\* named by it and is of the decision the settlement names.
refusesClearance(h, c) ==
    \E id \in c.ids :
        LET i == IndexOf(h.verdicts.undecided, id)
        IN  \/ i = 0
            \/ h.verdicts.undecided[i].venue
            \/ id # ClientOrderID(c.decision, orderOf(h, id).side)

ClearNeverSent(v, ids) == FoldSet(LAMBDA id, acc : leave(acc, IndexOf(acc.undecided, id)), v, ids)

\* What is done with an order retired as never sent: "held" when the venue's word
\* on it was awaited, "free" when not, "" when it is refused.
RetirementVerdict(h, r) ==
    LET id == r.order
        i == IndexOf(h.verdicts.undecided, id)
        refused == \/ h.mode = "dry-run" \/ id \notin DOMAIN h.gate.orders
                   \/ id \in Ids(h.cleared) \/ id \in Ids(h.retired)
                   \/ orderOf(h, id).side # r.side \/ orderOf(h, id).quantity # r.quantity
    IN  IF refused THEN ""
        ELSE IF i > 0 THEN IF h.verdicts.undecided[i].venue THEN "" ELSE "held"
        ELSE IF id \in h.named THEN "" ELSE "free"

----------------------------------------------------------------------------
(* What a decision records of the run *)

\* An order as a decision records it.
orderFigures(h, id, venue, status, end, afterRejection) ==
    [id |-> id, side |-> orderOf(h, id).side, released |-> orderOf(h, id).quantity, fills |-> Fills(h.gate, id),
     status |-> status, ended |-> end, afterRejection |-> afterRejection, venue |-> venue]

watchedFigures(h) ==
    IF h.watch = None THEN None
    ELSE LET w == h.watch IN orderFigures(h, w.id, w.venue, w.status, w.ended, w.afterRejection)

isWatched(h, id) == IF h.watch = None THEN FALSE ELSE h.watch.id = id

\* Mutant of swept: an order filled in full stays listed.
MutantNeverSwept(h) == h

\* An accepted order filled in full is not working any more.
swept(h) == [h EXCEPT !.working = SelectSeq(@, LAMBDA o : Filled(h.gate, o.id) < orderOf(h, o.id).quantity)]

workingFigures(h) ==
    LET others == SelectSeq(swept(h).working, LAMBDA o : ~isWatched(h, o.id))
    IN  [i \in DOMAIN others |-> orderFigures(h, others[i].id, others[i].venue, "", 0, FALSE)]

\* The watched order's release is recorded as watched.
undecidedFigures(h) ==
    [i \in DOMAIN h.verdicts.undecided |->
        LET o == h.verdicts.undecided[i]
        IN  [id |-> o.id, venue |-> ~isWatched(h, o.id) /\ o.venue,
             side |-> IF isWatched(h, o.id) THEN "" ELSE orderOf(h, o.id).side,
             released |-> IF isWatched(h, o.id) THEN 0 ELSE orderOf(h, o.id).quantity]]

clearedFigures(h) ==
    [i \in DOMAIN h.cleared |->
        LET id == h.cleared[i].id
        IN  [id |-> id, side |-> orderOf(h, id).side, released |-> orderOf(h, id).quantity, venue |-> FALSE]]

\* The incident's sale attempt, with its order while it is live or known to the venue.
restoredSale(h) ==
    LET a == RestoredSaleAttempt(h.gate)
        s == OwnReleasedSale(h.gate, a.incident)
        carried == IF s = None THEN FALSE ELSE a.attempted /\ (Live(s) \/ s.venue)
    IN  IF a.incident = NoTag THEN None
        ELSE [incident |-> a.incident, attempted |-> a.attempted, retired |-> a.retired,
              order |-> IF ~carried THEN None
                        ELSE [id |-> s.id, side |-> "sell", released |-> s.quantity, trigger |-> s.trigger, attempt |-> s.attempt,
                              named |-> s.id \in h.named, venue |-> s.venue, status |-> s.status, ended |-> s.ended, fills |-> s.fills]]

\* The orders listed that a venue has named.
namedFigures(h, b) ==
    h.named \cap (Ids(b.undecided) \cup Ids(b.working) \cup (IF b.watched = None THEN {} ELSE {b.watched.id}))

\* The parts of a decision that an order placed by it changes.
settledFigures(h, b) ==
    LET next == [b EXCEPT !.replanPending = h.replan, !.watched = watchedFigures(h), !.undecided = undecidedFigures(h),
                          !.working = workingFigures(h), !.sale = restoredSale(h)]
    IN  [next EXCEPT !.named = namedFigures(h, next)]

boostFigures(h, before) ==
    settledFigures(h,
        [missing |-> FALSE, gaps |-> <<>>, before |-> before, after |-> h.latched, inForce |-> h.inForce,
         replanPending |-> h.replan, replan |-> h.cause, watched |-> None, working |-> <<>>, undecided |-> <<>>,
         rejections |-> h.verdicts.rejections, inARow |-> h.verdicts.inARow, older |-> h.verdicts.older,
         whileStopped |-> h.verdicts.whileStopped, cleared |-> clearedFigures(h), retired |-> h.retired, sale |-> None,
         named |-> {}, noVenue |-> h.mode = "dry-run", withheld |-> NoReplan, stoppedRejections |-> <<>>])

\* The rejections since the last decision, recorded once.
recordRejections(h, b) == [b EXCEPT !.withheld = h.withheld, !.stoppedRejections = h.stoppedRejections]

recorded(h) == [swept(h) EXCEPT !.withheld = NoReplan, !.stoppedRejections = <<>>]

----------------------------------------------------------------------------
(* Orders and sales *)

\* A dry-run ends each order it releases itself.
endUnsent(h, p, at) ==
    IF h.mode # "dry-run" THEN h
    ELSE [add(h, TRUE, [type |-> "order.lifecycle", id |-> p.id]) EXCEPT !.gate = ObserveLifecycle(@, p.id, "canceled", at, FALSE)]

\* A planned order through the gate.
order(h, p, mark, holdings, at) ==
    LET h1 == add(h, ValidPlanned(p), [type |-> "order.planned", order |-> p])
        c == Check(h1.gate, p, mark, holdings, at)
        f == figures(h1.gate, p)
        h2 == [h1 EXCEPT !.gate = c.gate]
        h3 == IF c.reason = ""
              THEN endUnsent(add(h2, ValidReleased(p, f, h.mode), [type |-> "order.released", order |-> p]), p, at)
              ELSE add(h2, ValidRefused(p, c.reason, f), [type |-> "order.refused", order |-> p, reason |-> c.reason])
    IN  [handler |-> addStates(h3, c.states), reason |-> c.reason]

\* A waiting sale that lapsed, if any, is journalled.
lapsed(h, w) ==
    IF w = None THEN h
    ELSE add(h, ValidWithheld([w EXCEPT !.reason = "lapsed"]), [type |-> "sale.lapsed", sale |-> w])

\* The one sale back to the unboosted target.
sale(h, trigger, at) ==
    LET s == Sale(h.gate, trigger, at)
        h1 == [h EXCEPT !.gate = s.gate]
        holdings == [i \in Instruments |-> IF i = Instrument THEN s.order.held ELSE 0]
    IN  IF ~s.ok THEN h1
        ELSE IF s.withheld # None THEN add(h1, ValidWithheld(s.withheld), [type |-> "sale.withheld", sale |-> s.withheld])
        ELSE order(h1, s.order, "none", holdings, at).handler

----------------------------------------------------------------------------
(* A session's close *)

\* Next of boost.go: the latch, from the entry and the exit rule.
NextLatch(latched, reading) == IF latched THEN ~reading.exit ELSE reading.entry

Target(latched) == IF latched THEN Boosted ELSE Keep

\* What became of the order watched: filled, to be planned again, or, rejected when
\* buys are stopped, given up (a sell is still planned again).
settleWatch(h) ==
    LET w == h.watch
        sold == Filled(h.gate, w.id)
        own == h.cause.order = w.id
        dropped == [h EXCEPT !.replan = FALSE, !.cause = NoReplan]
        again(cause) == [h EXCEPT !.replan = TRUE, !.cause = ReplanOf(cause, w.id, sold, w.released)]
        outcome == IF sold >= w.released THEN "filled"
                   ELSE IF w.status = "invalid" /\ Stopped(h.verdicts) THEN "stopped"
                   ELSE IF w.status = "" \/ (h.replan /\ ~own) THEN "waits"
                   ELSE IF w.status = "invalid" THEN "rejected"
                   ELSE IF sold = 0 THEN "unfilled"
                   ELSE "part-filled"
    IN  IF w = None THEN h
        ELSE CASE outcome = "filled" -> [(IF own THEN dropped ELSE h) EXCEPT !.watch = None]
               [] outcome = "stopped" -> [(IF w.side = "sell" THEN again("rejected") ELSE dropped) EXCEPT !.watch = None]
               [] outcome = "waits" -> h
               [] OTHER -> again(outcome)

\* The watched order, working still, becomes the latest of the working ones.
unwatch(h) ==
    LET i == IF h.watch = None THEN 0 ELSE IndexOf(h.working, h.watch.id)
    IN  IF i = 0 THEN h ELSE [h EXCEPT !.working = Append(Without(@, h.watch.id), h.working[i])]

\* One order towards a target that is new or to be planned again; a sell is
\* reduced by what is being sold already.
PlanBoost(tag, d, held, workingSells, replan) ==
    LET delta == d.target - held
        side == IF delta > 0 THEN "buy" ELSE "sell"
        quantity == IF delta > 0 THEN delta ELSE -delta - workingSells
    IN  IF (d.boost.inForce = d.target /\ ~replan) \/ delta = 0 \/ quantity <= 0 THEN None
        ELSE [id |-> ClientOrderID(tag, side), tag |-> tag, side |-> side, quantity |-> quantity, held |-> held, sale |-> None]

PendingSells(g) == unshown(g.ledger, g.account)

\* The decision: b its figures, reason why it is withheld.
targets(h, b, period, reason) ==
    LET d == [outcome |-> IF reason = "" THEN "decided" ELSE "withheld", reason |-> reason, session |-> period,
              target |-> IF reason = "" THEN Target(h.latched) ELSE 0, boost |-> b]
    IN  add(h, ValidDecision(d), [type |-> "targets.decided", decision |-> d])

\* The decision rewritten with what its own order left.
settleReplan(h, at) ==
    LET d == [h.out[at].decision EXCEPT !.boost = settledFigures(h, @)]
    IN  [(IF ValidDecision(d) THEN swept(h) ELSE Fail(swept(h), "invalid decision")) EXCEPT !.out[at].decision = d]

\* The order a decided session plans, what the gate says to it, and what follows.
trade(h, period) ==
    LET tag == <<"targets-decided", period>>
        at == Len(h.out)
        d == h.out[at].decision
        held == h.snapshot.positions[Instrument]
        sameTarget == h.inForce = d.target
        plan == PlanBoost(tag, d, held, PendingSells(h.gate), h.replan)
        stopped == IF plan = None THEN FALSE ELSE Stopped(h.verdicts) /\ plan.side # "sell"
        p == IF stopped THEN None ELSE plan
        sells == IF p = None THEN FALSE ELSE p.side = "sell"
        afterRejection == h.replan /\ h.cause.cause = "rejected" /\ sameTarget
        h1 == [h EXCEPT !.inForce = d.target, !.gate.decided = @ \cup {tag}, !.replan = FALSE, !.cause = NoReplan,
                        !.watch = IF @ = None THEN None ELSE IF @.status # "" THEN None ELSE @]
        lapse == IF sells THEN [gate |-> h1.gate, lapsed |-> None] ELSE LapseExitSale(h1.gate)
        h3 == lapsed([h1 EXCEPT !.gate = lapse.gate], lapse.lapsed)
        marked == IF h.mark = None THEN "none" ELSE IF h.mark.asOf < period THEN "none" ELSE h.mark.price
        o == order(h3, p, marked, h.snapshot.positions, period)
        again == o.reason # "" /\ o.handler.gate.state = "normal"
        h4 == [o.handler EXCEPT !.replan = again,
                                !.cause = IF ~again THEN @ ELSE IF afterRejection THEN h.cause ELSE Refusal]
        h5 == IF o.reason # "" \/ h.mode = "dry-run" THEN h4
              ELSE [unwatch(h4) EXCEPT
                       !.watch = [id |-> p.id, side |-> p.side, released |-> p.quantity, status |-> "", ended |-> 0,
                                  afterRejection |-> afterRejection, venue |-> FALSE],
                       !.verdicts = Release(@, p.id)]
        h6 == IF sells /\ o.reason # "" THEN sale(h5, "exit", period) ELSE h5
    IN  settleReplan(IF p = None THEN h3 ELSE h6, at)

\* session.closed, with or without the instrument's bar.
applySession(h0, s) ==
    LET h == settleWatch([h0 EXCEPT !.started = TRUE, !.lastPeriod = s.period])
        quiet == s.period <= h0.quietUntil
        missed == [h EXCEPT !.gap = Append(@, s.period)]
        b0 == [recordRejections(missed, boostFigures(missed, missed.latched)) EXCEPT !.missing = TRUE]
        read == [h EXCEPT !.latched = NextLatch(@, s.reading), !.gap = <<>>]
        b1 == [recordRejections(read, boostFigures(read, h.latched)) EXCEPT !.gaps = h.gap]
        stale == h.snapshot = None \/ h.snapshot.asOf # s.period
        decided == targets(recorded(read), b1, s.period, "")
    IN  IF s.period <= h0.lastPeriod THEN Fail(h0, "session out of order")
        ELSE IF ~s.bar THEN IF quiet THEN missed ELSE targets(recorded(missed), b0, s.period, "missing-bars")
        ELSE IF quiet THEN [h EXCEPT !.gap = <<>>]
        ELSE IF stale THEN targets(recorded(read), b1, s.period, "stale-account-snapshot")
        ELSE IF h.snapshot.positions[Instrument] < 0 THEN Fail(h, "planned against a short")
        ELSE trade(decided, s.period)

----------------------------------------------------------------------------
(* Snapshots, marks and instructions *)

\* account.snapshot: the new book, compared with the one before it.
applySnapshot(h, s) ==
    LET c == CheckBook(ObserveAccount(h.gate, s), [anchor |-> <<"book", s.asOf>>, asOf |-> s.asOf, positions |-> s.positions])
        old == IF h.snapshot = None THEN FALSE ELSE s.asOf <= h.snapshot.asOf
    IN  IF old \/ ~ValidAccount(s) THEN Fail(h, "account snapshot")
        ELSE addStates([h EXCEPT !.snapshot = s, !.gate = c.gate], c.states)

applyMark(h, m) ==
    IF h.mark # None /\ m.asOf <= h.mark.asOf THEN Fail(h, "mark out of order") ELSE [h EXCEPT !.mark = m]

applyKillSwitch(h, k) ==
    IF refusesKillSwitch(h.gate, k) THEN Fail(h, "kill switch out of order")
    ELSE [h EXCEPT !.gate = SetKillSwitch(@, k.id, k)]

\* The venue named these orders.
name(h, ids) == [h EXCEPT !.named = @ \cup ids]

\* The venue's numbers of these orders, wherever the orders are kept.
learnVenueID(h, ids) ==
    LET learn(orders) == [i \in DOMAIN orders |-> IF orders[i].id \in ids THEN [orders[i] EXCEPT !.venue = TRUE] ELSE orders[i]]
        watched == IF h.watch = None THEN FALSE ELSE h.watch.id \in ids
    IN  [h EXCEPT !.watch = IF watched THEN [@ EXCEPT !.venue = TRUE] ELSE @,
                  !.verdicts.undecided = learn(@), !.working = learn(@)]

\* The run's own orders a broker snapshot lists by the names it gave them.
learnListings(h, s) ==
    LET own == IF s.named THEN DOMAIN s.left \cap DOMAIN h.gate.orders ELSE {}
    IN  learnVenueID(name(h, own), own)

\* The alarm journalled when a snapshot changes its level.
alarmOf(g, s) ==
    [level |-> g.alarmLevel, reading |-> Readable(s, "excess-liquidity") /\ Readable(s, "net-liquidation"),
     cause |-> IF ~(Readable(s, "excess-liquidity") /\ Readable(s, "net-liquidation")) THEN "no-reading"
               ELSE IF s.net THEN "ratio" ELSE "non-positive-net-liquidation"]

\* broker.snapshot: the alarm it changes, the waiting sales it lets lapse, and the
\* sale it fires.
applyBrokerSnapshot(h, s) ==
    LET o == ObserveBroker(h.gate, s)
        alarmed == o.gate.alarmLevel # h.gate.alarmLevel
        h1 == learnListings([h EXCEPT !.gate = o.gate], s)
        alarm == alarmOf(o.gate, s)
        h2 == IF alarmed THEN add(h1, ValidAlarm(alarm), [type |-> "margin.alarm", alarm |-> alarm]) ELSE h1
        h3 == lapsed(lapsed(h2, o.lapsed.exit), o.lapsed.urgent)
        h4 == IF o.urgent THEN sale(h3, "margin-urgent", s.asOf) ELSE h3
    IN  IF refusesBroker(h.gate, s) \/ ~ValidBroker(s) THEN Fail(h, "broker snapshot")
        ELSE IF o.exit THEN sale(h4, "exit", s.asOf) ELSE h4

\* operations.reconciliation
applyReconciliation(h, id, obs) ==
    LET c == Reconcile(h.gate, id, obs)
    IN  addStates(add([h EXCEPT !.gate = c.gate], TRUE, [type |-> "reconciliation.result", id |-> id]), c.states)

applyCorporateAction(h, c) == [h EXCEPT !.gate = ObserveCorporateAction(@, c)]

----------------------------------------------------------------------------
(* Reports on orders *)

refuseDryRunReport(h) == h.mode = "dry-run"

\* A report on an order that was settled or retired as never sent contradicts it.
contradicts(h, id) == id \in Ids(h.cleared) \/ id \in Ids(h.retired)

\* The venue's first word: an accepted order works; a rejection that stops buys, and
\* each one after it, is recorded with the next decision.
observeOutcome(h, id, rejected) ==
    LET o == observe(h.verdicts, id, rejected)
        i == IndexOf(h.verdicts.undecided, id)
        note == ReplanOf("rejected", id, Filled(h.gate, id), orderOf(h, id).quantity)
        h1 == [h EXCEPT !.verdicts = o.verdicts]
    IN  CASE o.word = "none" -> h
          [] o.word = "accepted" -> [h1 EXCEPT !.working = Append(@, h.verdicts.undecided[i])]
          [] o.word = "rejected-while-stopped" -> [h1 EXCEPT !.stoppedRejections = Append(@, note)]
          [] o.word = "rejected" -> IF Stopped(o.verdicts) THEN [h1 EXCEPT !.withheld = note] ELSE h1

\* execution.fill
applyFill(h, f) ==
    IF refuseDryRunReport(h) \/ contradicts(h, f.order) \/ refusesFill(h.gate, f) THEN Fail(h, "fill refused")
    ELSE observeOutcome(name([h EXCEPT !.gate = ObserveFill(@, f)], {f.order}), f.order, FALSE)

\* order.lifecycle
applyLifecycle(h, r) ==
    LET refused == refuseDryRunReport(h) \/ r.order \notin DOMAIN h.gate.orders \/ contradicts(h, r.order)
        h1 == learnVenueID(name([h EXCEPT !.gate = ObserveLifecycle(@, r.order, r.status, r.at, TRUE)], {r.order}), {r.order})
        ends == isWatched(h1, r.order) /\ Terminal(r.status) /\ (IF h1.watch = None THEN FALSE ELSE h1.watch.status = "")
        h2 == IF ends THEN [h1 EXCEPT !.watch.status = r.status, !.watch.ended = r.at] ELSE h1
        word == BoostLifecycleWord(r.status)
        h3 == IF word.decides THEN observeOutcome(h2, r.order, word.rejected) ELSE h2
    IN  IF refused THEN Fail(h, "lifecycle refused")
        ELSE IF Terminal(r.status) THEN [h3 EXCEPT !.working = Without(@, r.order)] ELSE h3

\* operator.rebalance.cleared
applyClearance(h, c) ==
    IF refusesClearance(h, c) THEN Fail(h, "clearance refused")
    ELSE [h EXCEPT !.verdicts = ClearNeverSent(@, c.ids),
                   !.cleared = @ \o SetToSeq({[id |-> id] : id \in c.ids})]

\* execution.order.retired: the order ended when it was retired; a sale's attempt is
\* given back.
applyRetired(h, r) ==
    LET verdict == RetirementVerdict(h, r)
        v == IF verdict = "held" THEN leave(h.verdicts, IndexOf(h.verdicts.undecided, r.order)) ELSE h.verdicts
        g1 == ObserveLifecycle(h.gate, r.order, "canceled", r.at, FALSE)
        isSold == verdict = "free" /\ isSale(g1, r.order)
        s == RetireSale(g1, r.order)
        note == [id |-> r.order, side |-> r.side, released |-> r.quantity, at |-> r.at,
                 tag |-> IF isSold THEN s.tag ELSE NoTag, attempt |-> IF isSold THEN s.attempt ELSE 0]
        ends == IF isWatched(h, r.order) THEN h.watch.status = "" ELSE FALSE
        h1 == [h EXCEPT !.verdicts = v, !.gate = IF isSold THEN s.gate ELSE g1, !.retired = Append(@, note)]
    IN  IF verdict = "" \/ ~ValidRetirement(r) THEN Fail(h, "retirement refused")
        ELSE IF ends THEN [h1 EXCEPT !.watch.status = "canceled", !.watch.ended = r.at] ELSE h1

----------------------------------------------------------------------------
(* The start of a run *)

\* What an earlier run's decision restores to the gate.
recovery(d) ==
    LET b == d.boost
        watchedID == IF b.watched = None THEN NoTag ELSE b.watched.id
        entry(o, sold, end, venue) ==
            [order |-> [id |-> o.id, tag |-> NoTag, side |-> o.side, quantity |-> o.released], fills |-> sold, ended |-> end, venue |-> venue]
        others(orders) == SelectSeq(orders, LAMBDA o : o.id # watchedID)
        each(orders, f(_)) == [i \in DOMAIN orders |-> f(orders[i])]
        sold == IF b.sale = None THEN None ELSE b.sale.order
    IN  [released     |-> (IF b.watched = None THEN <<>> ELSE <<entry(b.watched, b.watched.fills, b.watched.ended, b.watched.venue)>>)
                          \o each(Reverse(others(b.undecided)), LAMBDA o : entry(o, {}, 0, o.venue))
                          \o each(others(b.cleared), LAMBDA o : entry(o, {}, 0, FALSE))
                          \o each(others(b.retired), LAMBDA o : entry(o, {}, o.at, FALSE)),
         attempt      |-> IF b.sale = None THEN None
                          ELSE [incident |-> b.sale.incident, attempted |-> b.sale.attempted /\ sold = None, retired |-> b.sale.retired],
         retiredSales |-> {[tag |-> b.retired[i].tag, attempt |-> b.retired[i].attempt] :
                              i \in {j \in DOMAIN b.retired : b.retired[j].tag # NoTag}},
         own          |-> IF sold = None THEN None
                          ELSE [order |-> [id |-> sold.id, tag |-> b.sale.incident, side |-> "sell", quantity |-> sold.released],
                                fills |-> sold.fills, ended |-> sold.ended, venue |-> sold.venue,
                                trigger |-> sold.trigger, attempt |-> sold.attempt, status |-> sold.status],
         working      |-> each(Reverse(b.working), LAMBDA o : entry(o, o.fills, 0, o.venue))]

\* Mutant of Recover: the rejections are counted anew after a restart.
MutantCountsAnew(b) ==
    [rejections |-> 0, inARow |-> <<>>, older |-> 0, whileStopped |-> b.whileStopped,
     undecided |-> [i \in DOMAIN b.undecided |-> [id |-> b.undecided[i].id, venue |-> b.undecided[i].venue]]]

\* Recover of verdicts.go.
Recover(b) ==
    [rejections |-> b.rejections, inARow |-> b.inARow, older |-> b.older, whileStopped |-> b.whileStopped,
     undecided |-> [i \in DOMAIN b.undecided |->
                       LET u == b.undecided[i]
                           watched == IF b.watched = None THEN FALSE ELSE b.watched.id = u.id
                       IN  [id |-> u.id, venue |-> IF watched THEN b.watched.venue ELSE u.venue]]]

\* The earlier run's last decision, straight after the configuration.
applyRecovery(h, d) ==
    LET b == d.boost
        w == b.watched
        r == RestoreRecovery(h.gate, recovery(d))
        decided == d.outcome = "decided"
        sameTarget == decided /\ b.inForce = d.target
        keeps == (~decided /\ b.replan.cause # "") \/ (b.replan.cause = "rejected" /\ sameTarget)
        accepted == IF w = None THEN FALSE
                    ELSE w.status = "" /\ ~b.noVenue /\ w.id \notin Ids(b.undecided) \cup Ids(b.cleared)
        works == [i \in DOMAIN b.working |-> [id |-> b.working[i].id, venue |-> b.working[i].venue]]
        soldNamed == IF b.sale = None THEN FALSE ELSE IF b.sale.order = None THEN FALSE ELSE b.sale.order.named
    IN  IF h.recovered \/ h.approved \/ h.started \/ ~r.ok THEN Fail(h, "recovery refused")
        ELSE [h EXCEPT !.recovered = TRUE, !.gate = r.gate, !.latched = b.after,
                       !.inForce = IF decided THEN d.target ELSE b.inForce,
                       !.replan = b.replanPending, !.verdicts = Recover(b),
                       !.cause = IF ~b.replanPending THEN NoReplan ELSE IF keeps THEN b.replan ELSE Refusal,
                       !.watch = IF w = None THEN None
                                 ELSE [id |-> w.id, side |-> w.side, released |-> w.released, status |-> w.status,
                                       ended |-> w.ended, afterRejection |-> w.afterRejection, venue |-> w.venue],
                       !.cleared = [i \in DOMAIN b.cleared |-> [id |-> b.cleared[i].id]],
                       !.retired = b.retired,
                       !.named = b.named \cup (IF soldNamed THEN {b.sale.order.id} ELSE {}),
                       !.working = IF accepted THEN Append(works, [id |-> w.id, venue |-> w.venue]) ELSE works,
                       !.quietUntil = d.session]

\* The owner's approval of a fresh run: the latch, and the incident in force.
applyApproval(h, a) ==
    LET g == RestoreRecovery(h.gate, [released |-> <<>>, attempt |-> [incident |-> a.incident, attempted |-> a.attempted, retired |-> a.retired],
                                      retiredSales |-> {}, own |-> None, working |-> <<>>]).gate
    IN  IF h.approved \/ h.recovered \/ h.started THEN Fail(h, "approval refused")
        ELSE [h EXCEPT !.approved = TRUE, !.latched = a.latched,
                       !.gate = IF a.incident = NoTag THEN @ ELSE tighten(g, a.incident, a.state, a.scope)]

applyRecordedState(h, s) ==
    IF h.started THEN Fail(h, "recorded state after the start") ELSE [h EXCEPT !.gate = RestoreState(@, s)]

\* One input of a run whose configuration was read.
Apply(h, in) ==
    CASE in.event = "targets.decided"   -> applyRecovery(h, in.decision)
      [] in.event = "run.approved"      -> applyApproval(h, in.approval)
      [] in.event = "engine.state"      -> applyRecordedState(h, in.state)
      [] in.event = "kill.switch"       -> applyKillSwitch(h, in.kill)
      [] in.event = "broker.snapshot"   -> applyBrokerSnapshot(h, in.snapshot)
      [] in.event = "account.snapshot"  -> applySnapshot(h, in.snapshot)
      [] in.event = "mark.recorded"     -> applyMark(h, in.mark)
      [] in.event = "session.closed"    -> applySession(h, in.session)
      [] in.event = "fill"              -> applyFill(h, in.fill)
      [] in.event = "order.lifecycle"   -> applyLifecycle(h, in.report)
      [] in.event = "reconciliation"    -> applyReconciliation(h, in.id, in.observed)
      [] in.event = "corporate.action"  -> applyCorporateAction(h, in.action)
      [] in.event = "rebalance.cleared" -> applyClearance(h, in.clearance)
      [] in.event = "order.retired"     -> applyRetired(h, in.retirement)
=============================================================================
