---------------------------- MODULE BoostEvents ----------------------------
(***************************************************************************)
(* The payloads a Boost run reads and writes (internal/event) and what     *)
(* their Validate methods ask of them.  The handler refuses an input that  *)
(* is not valid and stops before it writes an event that is not, so every  *)
(* consistency rule between the parts of a decision is one the handler's   *)
(* own bookkeeping has to keep.  Identities, prices and texts whose form a *)
(* rule checks are left out; an order the venue has named carries TRUE for *)
(* the number, which is its own.                                           *)
(***************************************************************************)
EXTENDS RiskGate

CONSTANT Boosted   \* invested_fraction x boost_size: the target while latched

ASSUME BoostAssumption == Boosted \in Nat /\ Boosted > Keep

Modes == {"dry-run", "paper"}
Sides == {"buy", "sell"}
Triggers == {"exit", "margin-urgent"}
Components == {"excess-liquidity", "net-liquidation", "open-orders", "positions"}

RejectionLimit == 2   \* BoostVenueRejectionLimit

\* The identities of a sequence of orders.
Ids(orders) == {orders[i].id : i \in DOMAIN orders}

Distinct(orders) == Cardinality(Ids(orders)) = Len(orders)

FilledOf(o) == Fold(o.fills, LAMBDA f : f.quantity)

----------------------------------------------------------------------------
(* What a decision carries *)

NoReplan == [cause |-> "", order |-> NoTag, filled |-> 0, released |-> 0]
Refusal == [NoReplan EXCEPT !.cause = "refused"]

ReplanOf(cause, id, sold, quantity) == [cause |-> cause, order |-> id, filled |-> sold, released |-> quantity]

ValidReplan(r) ==
    /\ r.cause \in {"", "refused", "part-filled", "rejected", "unfilled"}
    /\ r.cause \in {"", "refused"} => r = [NoReplan EXCEPT !.cause = r.cause]
    /\ r.cause \in {"part-filled", "rejected", "unfilled"} => r.order # NoTag /\ 0 <= r.filled /\ r.filled < r.released
    /\ r.cause = "part-filled" => r.filled > 0
    /\ r.cause = "unfilled" => r.filled = 0

\* A watched or working order, or the incident's own sale (which may be filled in full).
ValidWatched(w, filledInFull) ==
    w = None \/
        /\ w.side \in Sides /\ w.released > 0
        /\ FilledOf(w) <= w.released /\ (FilledOf(w) = w.released => filledInFull)
        /\ w.status \in {"", "canceled", "invalid"}
        /\ (w.status = "") = (w.ended = 0)
        /\ \A f \in w.fills : f.quantity > 0

ValidSale(s, taken) ==
    s = None \/
        /\ s.incident # NoTag /\ s.retired >= 0
        /\ s.order # None =>
            LET o == s.order
                live == o.ended = 0 /\ FilledOf(o) < o.released
            IN  /\ s.attempted
                /\ o.trigger \in Triggers /\ o.attempt > 0
                /\ (o.fills # {} \/ o.venue) => o.named
                /\ live \/ o.venue
                /\ ValidWatched(o, TRUE)
                /\ o.id \notin taken

\* The lists of a decision against each other: no order is in two of them, the
\* watched one is the latest released, and what is older than the rejections
\* counted is listed before it.
ValidRejections(b) ==
    LET undecided == Ids(b.undecided)
        settled == Ids(b.cleared)
        gone == Ids(b.retired)
        rejected == Ids(b.inARow)
        working == Ids(b.working)
        watchedID == IF b.watched = None THEN NoTag ELSE b.watched.id
        n == Len(b.undecided)
        last == IF n > 0 THEN b.undecided[n].id = watchedID ELSE FALSE
        dryRun == <<>> = b.undecided \o b.cleared \o b.retired \o b.working /\ b.rejections = 0 /\ b.named = {}
    IN  /\ Len(b.inARow) = b.rejections /\ Distinct(b.inARow)
        /\ Distinct(b.undecided) /\ undecided \cap rejected = {}
        /\ watchedID \in undecided => last /\ b.watched.fills = {} /\ b.watched.status = ""
        /\ Distinct(b.cleared) /\ settled \cap undecided = {}
        /\ \A i \in DOMAIN b.cleared : ~b.cleared[i].venue
        /\ b.older \in 0..(IF last THEN n - 1 ELSE n)
        /\ b.older > 0 => b.rejections > 0
        /\ b.noVenue => dryRun
        /\ Distinct(b.retired) /\ gone \cap (undecided \cup settled \cup rejected) = {}
        /\ \A i \in DOMAIN b.retired : b.retired[i].at # 0 /\ (b.retired[i].tag = NoTag) = (b.retired[i].attempt = 0)
        /\ watchedID \in gone => b.watched.fills = {} /\ b.watched.status = "canceled"
        /\ Distinct(b.working) /\ working \cap ({watchedID} \cup undecided \cup settled \cup rejected \cup gone) = {}
        /\ \A i \in DOMAIN b.working : ValidWatched(b.working[i], FALSE) /\ b.working[i].status = ""
        /\ ValidSale(b.sale, {watchedID} \cup undecided \cup settled \cup rejected \cup gone \cup working)
        /\ b.named \subseteq ({watchedID} \cup undecided \cup working)

ValidFigures(b) ==
    /\ b.inForce \in {0, Keep, Boosted}
    /\ ValidReplan(b.replan) /\ ValidWatched(b.watched, FALSE)
    /\ b.rejections \in 0..RejectionLimit
    /\ ValidRejections(b)
    /\ b.whileStopped > 0 => b.rejections = RejectionLimit
    /\ Len(b.stoppedRejections) <= b.whileStopped
    /\ \A i \in DOMAIN b.stoppedRejections : b.stoppedRejections[i].cause = "rejected" /\ ValidReplan(b.stoppedRejections[i])
    /\ b.withheld.cause \in {"", "rejected"} /\ ValidReplan(b.withheld)

\* The sessions without a bar since the last that had one, each once and in order.
ValidGaps(gaps, session) ==
    \A i \in DOMAIN gaps : gaps[i] < session /\ (i > 1 => gaps[i - 1] < gaps[i])

\* targets.decided
ValidDecision(d) ==
    /\ d.outcome \in {"decided", "withheld"}
    /\ d.outcome = "decided" => d.reason = "" /\ d.target \in {Keep, Boosted} /\ ~d.boost.missing
    /\ d.outcome = "withheld" => d.reason \in {"missing-bars", "stale-account-snapshot"} /\ d.target = 0
    /\ ValidFigures(d.boost) /\ ValidGaps(d.boost.gaps, d.session)

----------------------------------------------------------------------------
(* The other events *)

\* The sale back to the unboosted target: the smallest of three bounds.
ValidSaleFigures(p) ==
    /\ p.side = "sell" /\ p.sale.kind \in {"incident", "urgent"} /\ p.sale.trigger \in Triggers
    /\ p.sale.working >= 0
    /\ p.quantity = Min({p.held - Keep, p.held - p.sale.working, p.held - p.sale.working - Keep})

\* order.planned
ValidPlanned(p) ==
    /\ p.tag # NoTag /\ p.side \in Sides /\ p.quantity > 0 /\ p.held >= 0
    /\ p.sale # None => ValidSaleFigures(p)

\* The figures a verdict was reached from.
ValidRiskFigures(f, side) ==
    /\ f.working >= 0
    /\ f.reducing => side = "sell"
    /\ ~f.broker => f.holding = 0 /\ f.working = 0

\* risk.order.released: in a dry-run never to be sent.
ValidReleased(p, f, mode) == p.tag # NoTag /\ p.quantity > 0 /\ mode \in Modes /\ ValidRiskFigures(f, p.side)

RefusalReasons ==
    {"undecided-order", "margin-exposure", "order-size", "price-band", "missing-mark", "engine-degraded", "engine-halted",
     "sell-exceeds-holding", "unvalued-holding", "kill-switch", "broker-holding", "sale-attempted", "stale-broker-snapshot"}

\* risk.order.refused
ValidRefused(p, reason, f) == p.quantity > 0 /\ reason \in RefusalReasons /\ ValidRiskFigures(f, p.side)

\* risk.sale.withheld
ValidWithheld(w) ==
    /\ w.tag # NoTag /\ w.kind \in {"incident", "urgent"} /\ w.trigger \in Triggers
    /\ w.reason \in {"broker-values-unreadable", "unknown-working-sell", "nothing-to-sell", "stale-broker-snapshot",
                     "non-positive-broker-values", "lapsed"}

\* risk.margin.alarm
ValidAlarm(a) ==
    /\ a.level \in {"clear", "warning", "urgent"}
    /\ a.cause \in {"ratio", "non-positive-net-liquidation", "no-reading"}
    /\ a.reading = (a.cause # "no-reading")
    /\ a.cause # "ratio" => a.level = "urgent"

\* engine.state: a halt has no scope, a degradation has one.
ValidEngineState(s) == s.state \in {"degraded", "halted"} /\ (s.scope = {}) = (s.state = "halted")

----------------------------------------------------------------------------
(* The inputs *)

\* broker.snapshot: what is unreadable carries no value.
ValidBroker(s) ==
    /\ s.unreadable \subseteq Components
    /\ ~Readable(s, "positions") => \A i \in Instruments : s.positions[i] = 0
    /\ ~Readable(s, "open-orders") => DOMAIN s.left = {}
    /\ \A o \in DOMAIN s.left : s.left[o].side \in Sides /\ s.left[o].left > 0

\* account.snapshot: the margin account's positions; an IRA's shares would be whole and not short.
ValidAccount(s) == DOMAIN s.positions = Instruments

\* execution.order.retired
ValidRetirement(r) == r.quantity > 0 /\ r.side \in Sides /\ r.at # 0
=============================================================================
