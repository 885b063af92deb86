------------------------------ MODULE BoostRun -----------------------------
(***************************************************************************)
(* A Boost run (BoostHandler) with the account it trades: sessions close,  *)
(* snapshots are read, the venue accepts, rejects, fills and cancels its   *)
(* orders and the reports arrive late and in any order, some twice; orders *)
(* are settled or retired as never sent; the owner engages the kill switch *)
(* or trades by hand; the account is reconciled.                           *)
(*                                                                         *)
(* twin is the run restarted from the last decision: the decision, the     *)
(* engine states journalled, the kill switch in force and the sessions     *)
(* replayed, then every input the continuing run reads.  It is followed    *)
(* for as long as its orders and states are the continuing run's, which    *)
(* read snapshots the restarted one did not.                               *)
(*                                                                         *)
(* A session closes every Day seconds; in the second of the close only     *)
(* snapshots and the session itself are read.  The venue, the adapter and  *)
(* the owner are modelled from how the handler reads their reports.        *)
(***************************************************************************)
EXTENDS EndState

CONSTANTS Day,       \* seconds from one close to the next
          Starts     \* what a fresh run starts with: its mode, approval and holding, and, as
                     \* bounds, its sessions and the number and kinds of the inputs out of the
                     \* ordinary that it may meet

\* What is out of the ordinary: a report more, a cancellation or a part fill ("venue"), a
\* report again, an order never sent, the kill switch, a trade by hand, a reconciliation,
\* a corporate action, a restart, a session without its bar, mark or snapshot, a broker
\* snapshot.  Rejections and executions in full are not counted.
Kinds == {"reject", "fill", "venue", "again", "unsent", "kill", "hand", "reconcile", "corporate", "restart", "session", "broker"}

ASSUME RunAssumption ==
    Day \in Nat \ {0, 1}
    /\ \A s \in Starts :
        /\ s.sessions \in Nat /\ Later > Day * (s.sessions + 1)
        /\ s.mode \in Modes /\ s.held \in Nat /\ s.extras \in Nat /\ s.kinds \subseteq Kinds
        /\ s.approval.latched \in BOOLEAN /\ s.approval.retired \in Nat /\ s.approval.scope \subseteq Instruments
        /\ s.approval.incident # NoTag => s.approval.state \in {"degraded", "halted"}

VARIABLES h,       \* the run
          twin,    \* the run restarted from the last decision; None while there is none
          clock,
          held,    \* what the account holds
          venue,   \* the orders sent: the total, what is left of it and whether it is sent, open or done
          mail,    \* reports not delivered yet
          journal, \* what the run wrote, and what a restart reads
          budget   \* the inputs out of the ordinary left, their kinds, and the sessions

vars == <<h, twin, clock, held, venue, mail, journal, budget>>

NoIncident == [latched |-> FALSE, incident |-> NoTag, attempted |-> FALSE, retired |-> 0, state |-> "normal", scope |-> {}]

NoJournal == [releases |-> <<>>, waiting |-> {}, words |-> <<>>, decision |-> None, fresh |-> FALSE,
              states |-> <<>>, kill |-> None, sessions |-> <<>>, byHand |-> FALSE, end |-> AtStart("paper", NoIncident)]

Init ==
    \E s \in Starts :
        LET a == s.approval IN
        /\ h = applyApproval(New(s.mode), a)
        /\ twin = None
        /\ clock = 1
        /\ held = [i \in Instruments |-> IF i = Instrument THEN s.held ELSE 0]
        /\ venue = <<>> /\ mail = {}
        /\ journal = [NoJournal EXCEPT !.end = AtStart(s.mode, a), !.states = IF a.incident = NoTag THEN <<>>
                                                  ELSE <<[id |-> a.incident, state |-> a.state, scope |-> a.scope]>>]
        /\ budget = [left |-> s.extras, kinds |-> s.kinds, sessions |-> s.sessions]

----------------------------------------------------------------------------
(* What an input does *)

\* What the run wrote of one type, in order.
Wrote(out, type) ==
    LET at == {i \in DOMAIN out : out[i].type = type}
        nth(n) == Min({i \in at : Cardinality({j \in at : j <= i}) = n})
    IN  [n \in 1..Cardinality(at) |-> out[nth(n)]]

Each(s, f(_)) == [i \in DOMAIN s |-> f(s[i])]

\* The orders, sales and states two runs wrote, by which they are followed together.
Effects(out) ==
    LET kept == SelectSeq(out, LAMBDA e : e.type \in {"order.planned", "order.released", "order.refused", "sale.withheld", "engine.state"})
    IN  Each(kept, LAMBDA e : CASE e.type = "engine.state" -> <<e.type, e.state>>
                                [] e.type = "sale.withheld" -> <<e.type, e.sale>>
                                [] OTHER -> <<e.type, e.order.id, e.order.quantity>>)

\* A sale journalled as withheld until a snapshot can size it.
Retryable(w) == w.reason \in {"stale-broker-snapshot", "non-positive-broker-values"}

\* What an event tells a reader of the sales that wait: the one withheld from now on, and
\* whether w waits no more, since it or another of its trigger was decided, or it lapsed.
Opens(e) == IF e.type = "sale.withheld" /\ Retryable(e.sale) THEN {[id |-> e.sale.id, trigger |-> e.sale.trigger]} ELSE {}

Closes(e, w) ==
    CASE e.type = "sale.withheld" -> w.trigger = e.sale.trigger \/ (Attempted(e.sale) /\ w.id = e.sale.id)
      [] e.type = "sale.lapsed" -> w.id = e.sale.id
      [] e.type = "order.planned" -> w.id = e.order.id \/ (IF e.order.sale = None THEN FALSE ELSE w.trigger = e.order.sale.trigger)
      [] OTHER -> FALSE

\* The sales a reader of the journal takes to be waiting after the events of out.
Waiting(waits, out) ==
    LET opened(n) == IF n = 0 THEN waits ELSE Opens(out[n])
    IN  UNION {{w \in opened(n) : \A k \in (n + 1)..Len(out) : ~Closes(out[k], w)} : n \in 0..Len(out)}

\* An order released, as the properties read it.
releaseOf(e) == [id |-> e.order.id, tag |-> e.order.tag, side |-> e.order.side, sale |-> e.order.sale # None]

Journalled(j, a) ==
    LET decisions == Wrote(a.out, "targets.decided")
    IN  [j EXCEPT
            !.releases = @ \o Each(Wrote(a.out, "order.released"), releaseOf),
            !.waiting = Waiting(@, a.out),
            !.decision = IF decisions = <<>> THEN @ ELSE decisions[1].decision,
            !.fresh = decisions # <<>>,
            !.end = FoldLeft(ReadDecision, @, a.out),
            !.states = @ \o Each(Wrote(a.out, "engine.state"), LAMBDA e : e.state)]

\* The twin after an input the run read as a: gone when their effects differ, or when
\* it is told of an order its decision did not carry.
Followed(a, b, about) ==
    IF about # NoTag /\ about \notin DOMAIN twin.gate.orders THEN None
    ELSE IF Effects(a.out) # Effects(b.out) THEN None ELSE [b EXCEPT !.out = <<>>]

\* The run and its twin read an input about an order (NoTag for none) and answer a and b;
\* what is written is journalled in j and the orders released join those of v.
Input(a, b, about, v, j) ==
    LET sent == IF h.mode = "dry-run" THEN {} ELSE {e.order : e \in Range(Wrote(a.out, "order.released"))}
    IN  /\ h.fault = ""
        /\ h' = [a EXCEPT !.out = <<>>]
        /\ twin' = IF twin = None THEN None ELSE IF twin.fault # "" THEN twin ELSE Followed(a, b, about)
        /\ venue' = [o \in DOMAIN v \cup {p.id : p \in sent} |->
                        IF o \in DOMAIN v THEN v[o]
                        ELSE LET p == CHOOSE p \in sent : p.id = o
                             IN  [side |-> p.side, left |-> p.quantity, total |-> p.quantity, number |-> 0, state |-> "sent"]]
        /\ journal' = Journalled(j, a)

\* An input out of the ordinary.
Extra(kind) == kind \in budget.kinds /\ budget.left > 0 /\ budget' = [budget EXCEPT !.left = @ - 1]

\* One that is out of the ordinary unless ordinary holds.
ExtraUnless(ordinary, kind) == IF ordinary THEN UNCHANGED budget ELSE Extra(kind)

----------------------------------------------------------------------------
(* The clock, sessions and snapshots *)

Close == clock % Day = 0

Tick ==
    /\ clock <= Day * budget.sessions
    /\ Close => h.lastPeriod = clock
    /\ clock' = clock + 1
    /\ UNCHANGED <<h, twin, held, venue, mail, journal, budget>>

accountSnapshot == [event |-> "account.snapshot", snapshot |-> [asOf |-> clock, positions |-> held]]

AccountSnapshot(a, b) ==
    /\ Close /\ h.lastPeriod < clock
    /\ h.snapshot # None => h.snapshot.asOf < clock
    /\ Input(a, b, NoTag, venue, journal)
    /\ UNCHANGED <<clock, held, mail, budget>>

Readings == {[entry |-> FALSE, exit |-> FALSE], [entry |-> TRUE, exit |-> TRUE]}

\* What a session may bring: its bar or none, a mark or none, and the bar's reading.
SessionKinds == [bar : BOOLEAN, price : {"none", "near", "far"}, reading : Readings]

markRecorded(price) == [event |-> "mark.recorded", mark |-> [asOf |-> clock, price |-> price]]

sessionClosed(k) == [event |-> "session.closed", session |-> [period |-> clock, bar |-> k.bar, reading |-> k.reading]]

\* The session's mark (when there is one), its bar (when there is one) and its close.
CloseSession(k, a, b) ==
    LET fresh == IF h.snapshot = None THEN FALSE ELSE h.snapshot.asOf = clock
    IN  /\ Close /\ h.lastPeriod < clock
        /\ ~k.bar => k.price = "near" /\ ~k.reading.entry
        /\ ExtraUnless(k.bar /\ fresh /\ k.price = "near", "session")
        /\ Input(a, b, NoTag, venue, [journal EXCEPT !.sessions = Append(@, sessionClosed(k).session)])
        /\ UNCHANGED <<clock, held, mail>>

\* What a broker snapshot may have read: all of it, or not all.
Reads == [unreadable : {{}, {"positions"}, {"excess-liquidity"}}, level : {"clear", "urgent"}, named : BOOLEAN, net : BOOLEAN]

Listed == {o \in DOMAIN venue : venue[o].state = "open" /\ venue[o].left > 0}

\* IBKR lists an open order at its total, never less than what is left.
brokerSnapshot(r) ==
    [event |-> "broker.snapshot",
     snapshot |-> [asOf |-> clock, unreadable |-> r.unreadable, mark |-> "set", net |-> r.net, level |-> r.level, open |-> ~Close,
                   named |-> r.named,
                   positions |-> [i \in Instruments |-> IF "positions" \in r.unreadable THEN 0 ELSE held[i]],
                   left |-> [o \in Listed |-> [side |-> venue[o].side, left |-> venue[o].total]]]]

BrokerSnapshot(r, a, b) ==
    /\ h.gate.broker # None => h.gate.broker.asOf < clock
    /\ Extra("broker")
    /\ r.unreadable # {} => r.level = "clear" /\ r.named /\ r.net
    /\ ~r.net => r.level = "clear" /\ r.named
    /\ Listed = {} => r.named
    /\ Input(a, b, NoTag, venue, [journal EXCEPT !.end = ReadListing(@, IF r.named THEN Listed ELSE {})])
    /\ UNCHANGED <<clock, held, mail>>

----------------------------------------------------------------------------
(* The venue *)

Lifecycle(o, status) == [kind |-> "lifecycle", order |-> o, number |-> 0, quantity |-> 0, status |-> status, at |-> clock]

Accept ==
    /\ ~Close
    /\ \E o \in {p \in DOMAIN venue : venue[p].state = "sent"} :
        /\ venue' = [venue EXCEPT ![o].state = "open"]
        /\ mail' = mail \cup {Lifecycle(o, "submitted")}
    /\ UNCHANGED <<h, twin, clock, held, journal, budget>>

\* A report that shows the venue accepted the order.
Update ==
    /\ ~Close
    /\ Extra("venue")
    /\ \E o \in {p \in DOMAIN venue : venue[p].state = "open"} : mail' = mail \cup {Lifecycle(o, "updated")}
    /\ UNCHANGED <<h, twin, clock, held, venue, journal>>

\* An order the venue rejects, even one it reported as submitted.
Reject ==
    /\ ~Close /\ "reject" \in budget.kinds
    /\ \E o \in {p \in DOMAIN venue : venue[p].state \in {"sent", "open"} /\ venue[p].number = 0} :
        /\ \A m \in mail : m.order = o => m.status # "updated"
        /\ \A i \in DOMAIN journal.words : journal.words[i].id # o
        /\ venue' = [venue EXCEPT ![o].state = "done"]
        /\ mail' = mail \cup {Lifecycle(o, "invalid")}
    /\ UNCHANGED <<h, twin, clock, held, journal, budget>>

\* An execution, of all that is left of the order or, out of the ordinary, of one share.
Execute ==
    /\ ~Close /\ "fill" \in budget.kinds
    /\ \E o \in {p \in DOMAIN venue : venue[p].state = "open"} : \E q \in {1, venue[o].left} :
        LET n == venue[o].number + 1
        IN  /\ ExtraUnless(q = venue[o].left, "venue")
            /\ venue' = [venue EXCEPT ![o] = [@ EXCEPT !.left = @ - q, !.number = n, !.state = IF venue[o].left = q THEN "done" ELSE @]]
            /\ held' = [held EXCEPT ![Instrument] = IF venue[o].side = "sell" THEN @ - q ELSE @ + q]
            /\ mail' = mail \cup {[kind |-> "fill", order |-> o, number |-> n, quantity |-> q, status |-> "", at |-> clock]}
    /\ UNCHANGED <<h, twin, clock, journal>>

Cancel ==
    /\ ~Close
    /\ Extra("venue")
    /\ \E o \in {p \in DOMAIN venue : venue[p].state = "open"} :
        /\ venue' = [venue EXCEPT ![o].state = "done"]
        /\ mail' = mail \cup {Lifecycle(o, "canceled")}
    /\ UNCHANGED <<h, twin, clock, held, journal>>

Report(m) ==
    IF m.kind = "fill"
    THEN [event |-> "fill", fill |-> [order |-> m.order, number |-> m.number, at |-> m.at, quantity |-> m.quantity]]
    ELSE [event |-> "order.lifecycle", report |-> [order |-> m.order, status |-> m.status, at |-> m.at]]

\* The venue's words on the orders of decisions, each with the first that decides.
Heard(m) ==
    LET decides == m.kind = "fill" \/ m.status # "submitted"
        known == \E i \in DOMAIN journal.words : journal.words[i].id = m.order
        counts == decides /\ ~known /\ m.order[3] # "sale"
    IN  [journal EXCEPT !.end = ReadReport(@, m.order),
                        !.words = IF counts THEN Append(@, [id |-> m.order, rejected |-> m.status = "invalid"]) ELSE @]

\* A report arrives, in any order; it may arrive again.
Deliver(m, again, a, b) ==
    /\ ~Close
    /\ ExtraUnless(~again, "again")
    /\ mail' = IF again THEN mail ELSE mail \ {m}
    /\ Input(a, b, m.order, venue, Heard(m))
    /\ UNCHANGED <<clock, held>>

----------------------------------------------------------------------------
(* Orders never sent *)

\* An order that never reached the venue is gone for good.
Unsent(o) == venue[o].state = "sent"

Gone(o) == [venue EXCEPT ![o].state = "done"]

orderRetired(o) ==
    [event |-> "order.retired", retirement |-> [order |-> o, side |-> venue[o].side, quantity |-> venue[o].left, at |-> clock]]

Retire(o, a, b) ==
    /\ ~Close
    /\ Extra("unsent")
    /\ Unsent(o)
    /\ Input(a, b, o, Gone(o), [journal EXCEPT !.end = ReadRetirement(@, orderRetired(o).retirement)])
    /\ UNCHANGED <<clock, held, mail>>

rebalanceCleared(o) == [event |-> "rebalance.cleared", clearance |-> [decision |-> o[2], ids |-> {o}]]

ClearOrder(o, a, b) ==
    /\ ~Close
    /\ Extra("unsent")
    /\ Unsent(o) /\ ~isSale(h.gate, o)
    /\ Input(a, b, o, Gone(o), journal)
    /\ UNCHANGED <<clock, held, mail>>

----------------------------------------------------------------------------
(* The owner, reconciliation and restarts *)

killSwitch(engaged) ==
    [event |-> "kill.switch", kill |-> [id |-> <<"kill-switch", budget.left>>, asOf |-> clock, engaged |-> engaged]]

KillSwitch(engaged, a, b) ==
    LET k == killSwitch(engaged).kill
    IN  /\ ~Close
        /\ Extra("kill")
        /\ engaged # h.gate.killEngaged
        /\ Input(a, b, NoTag, venue, [journal EXCEPT !.kill = k, !.end = ReadKillSwitch(@, k)])
        /\ UNCHANGED <<clock, held, mail>>

HandTrade ==
    /\ ~Close
    /\ Extra("hand")
    /\ \E i \in Instruments, d \in {-1, 1} :
        /\ held[i] + d >= 0
        /\ held' = [held EXCEPT ![i] = @ + d]
    /\ journal' = [journal EXCEPT !.byHand = TRUE]
    /\ UNCHANGED <<h, twin, clock, venue, mail>>

reconciliation(read) ==
    [event |-> "reconciliation", id |-> <<"reconciliation", budget.left>>,
     observed |-> [asOf |-> clock, positions |-> IF read THEN held ELSE None]]

ReconcileAccount(a, b) ==
    /\ Extra("reconcile")
    /\ Input(a, b, NoTag, venue, journal)
    /\ UNCHANGED <<clock, held, mail>>

corporateAction(kind) ==
    [event |-> "corporate.action",
     action |-> [kind |-> kind, id |-> <<"corporate-action", budget.left>>, at |-> clock, shares |-> 0]]

CorporateAction(a, b) ==
    /\ ~Close
    /\ Extra("corporate")
    /\ Input(a, b, NoTag, venue, journal)
    /\ UNCHANGED <<clock, held, mail>>

\* What a restart replays to a new run: its last decision, the engine states, the kill
\* switch in force and the sessions.
Replayed ==
    <<[event |-> "targets.decided", decision |-> journal.decision]>>
    \o Each(journal.states, LAMBDA s : [event |-> "engine.state", state |-> s])
    \o (IF journal.kill = None THEN <<>> ELSE <<[event |-> "kill.switch", kill |-> journal.kill]>>)
    \o Each(journal.sessions, LAMBDA s : [event |-> "session.closed", session |-> s])

Restart(restarted) ==
    /\ journal.fresh
    /\ Extra("restart")
    /\ twin' = restarted
    /\ journal' = [journal EXCEPT !.fresh = FALSE]
    /\ UNCHANGED <<h, clock, held, venue, mail>>

\* The run and its twin driven by a handler, which answers an input.
Driven(handler(_, _)) ==
    LET a(in) == handler(h, in)
        b(in) == handler(twin, in)
        marked(x, price) == IF price = "none" THEN x ELSE handler(x, markRecorded(price))
        closed(x, k) == handler(marked(x, k.price), sessionClosed(k))
    IN  \/ Tick
        \/ AccountSnapshot(a(accountSnapshot), b(accountSnapshot))
        \/ \E k \in SessionKinds : CloseSession(k, closed(h, k), closed(twin, k))
        \/ \E r \in Reads : BrokerSnapshot(r, a(brokerSnapshot(r)), b(brokerSnapshot(r)))
        \/ Accept \/ Update \/ Reject \/ Execute \/ Cancel
        \/ \E m \in mail, again \in BOOLEAN : Deliver(m, again, a(Report(m)), b(Report(m)))
        \/ \E o \in DOMAIN venue : Retire(o, a(orderRetired(o)), b(orderRetired(o)))
        \/ \E o \in DOMAIN venue : ClearOrder(o, a(rebalanceCleared(o)), b(rebalanceCleared(o)))
        \/ \E engaged \in BOOLEAN : KillSwitch(engaged, a(killSwitch(engaged)), b(killSwitch(engaged)))
        \/ HandTrade
        \/ \E read \in BOOLEAN : ReconcileAccount(a(reconciliation(read)), b(reconciliation(read)))
        \/ \E kind \in {"dividend", "other"} : CorporateAction(a(corporateAction(kind)), b(corporateAction(kind)))
        \/ Restart(FoldLeft(handler, New(h.mode), Replayed))

Next == Driven(Apply)

Spec == Init /\ [][Next]_vars

----------------------------------------------------------------------------
(* Properties *)

\* The gate's states, kill switch and ledger, the verdicts counted and the account are
\* in their domains.
TypeOK ==
    /\ clock \in 0..(Day * budget.sessions + Day) /\ budget.left \in Nat
    /\ h.mode \in Modes /\ h.inForce \in {0, Keep, Boosted} /\ h.latched \in BOOLEAN
    /\ h.gate.state \in {"normal", "degraded", "halted"} /\ h.gate.scope \subseteq Instruments
    /\ h.verdicts.rejections \in 0..RejectionLimit /\ h.verdicts.older \in 0..Len(h.verdicts.undecided)
    /\ held \in [Instruments -> Int]
    /\ \A o \in DOMAIN venue : venue[o].left \in 0..venue[o].total /\ venue[o].state \in {"sent", "open", "done"}

\* The run reads every report the venue, the adapter and the owner may send it, in the
\* order it arrives, and whatever the order the event it writes next is valid: the lists of
\* a decision (watched, working, undecided, cleared, retired, rejected) never disagree.
\* The one thing that ends it is a short, which its planner refuses and which only a trade
\* by hand can bring about.
NeverStopped == h.fault = "" \/ (h.fault = "planned against a short" /\ journal.byHand)

\* The state of a run that its decisions record.
Carried(x) == [figures |-> recordRejections(x, boostFigures(x, x.latched)), gap |-> x.gap, period |-> x.lastPeriod,
               state |-> x.gate.state, scope |-> x.gate.scope, kill |-> x.gate.killEngaged]

\* A run restarted from its last decision reads every later report as the run that went
\* on does, and what its decisions would record is the same: the latch, the target in
\* force, the order watched, the verdicts awaited, the rejections counted, the incident
\* and its sale; it ends where that run ends.
RestartContinues == twin # None => twin.fault = h.fault /\ Carried(twin) = Carried(h)

\* An incident, an engagement of the kill switch or an urgent alarm sells once: a second
\* sale of the same tag is released only when the first was retired as never sent, and no
\* client order ID is released twice.
SaleOnce ==
    LET of(tag) == {i \in DOMAIN journal.releases : journal.releases[i].sale /\ journal.releases[i].tag = tag}
        live(tag) == {i \in of(tag) : journal.releases[i].id \notin Ids(h.retired)}
    IN  /\ Distinct(journal.releases)
        /\ \A i \in DOMAIN journal.releases : Cardinality(live(journal.releases[i].tag)) <= 1

\* The sales the gate holds back until a snapshot can size them.
Armed(g) ==
    (IF g.exitWithheld = None THEN {} ELSE {[id |-> g.exitWithheld.id, trigger |-> "exit"]}) \cup
    (IF g.urgentWithheld = None THEN {} ELSE {[id |-> g.urgentWithheld.id, trigger |-> "margin-urgent"]})

\* A sale the gate would fire again at the next snapshot was journalled as withheld by its
\* trigger, and nothing journalled since says it was planned, spent, superseded or lapsed:
\* whichever of the two triggers decides it, the other one does not sell for it again.
ArmedSaleWaits == Armed(h.gate) \subseteq journal.waiting

\* What the manual says of a withheld sale: it is decided again at the next snapshot that
\* can size it, or the journal shows that it will not be.
WithheldLapses == journal.waiting # {} => h.gate.exitRetry \/ h.gate.urgentRetry

\* Two orders rejected in a row, as the venue's words were read: no order released after
\* the first of them was accepted in between.
TwoInARow ==
    LET w == journal.words
        place(id) == CHOOSE i \in DOMAIN journal.releases : journal.releases[i].id = id
    IN  \E i, j \in DOMAIN w :
            /\ i < j /\ w[i].rejected /\ w[j].rejected
            /\ \A k \in i..j : w[k].rejected \/ place(w[k].id) < place(w[i].id)

\* However late and in whatever order the words on its orders arrive, the run stops its
\* buys exactly when two orders were rejected in a row.
StoppedByTwoInARow == Stopped(h.verdicts) <=> TwoInARow

\* While nobody trades by hand, the sells the venue may still fill never take the account
\* below the unboosted holding, whichever of the session's sell and the incident's, the
\* kill switch's and the alarm's sales were released.
SoldToTheTarget ==
    LET selling == {o \in DOMAIN venue : venue[o].side = "sell" /\ venue[o].state # "done"}
    IN  journal.byHand \/ held[Instrument] - Fold(selling, LAMBDA o : venue[o].left) >= Keep

Rank(state) == CASE state = "normal" -> 0 [] state = "degraded" -> 1 [] state = "halted" -> 2

\* What the owner may approve: the approval proposed, or one that differs from it.
Approvals(p) ==
    {p, [p EXCEPT !.latched = ~@], [p EXCEPT !.clears = <<"another">>]} \cup
    (IF p.incident = NoTag THEN {[p EXCEPT !.incident = <<"another">>, !.state = "halted"]}
     ELSE {[p EXCEPT !.attempted = ~@, !.order = NoTag], [p EXCEPT !.retired = 0], [p EXCEPT !.settled = {}],
           [p EXCEPT !.state = "halted", !.scope = {}],
           [p EXCEPT !.state = "degraded", !.scope = {Instrument}], [p EXCEPT !.state = "degraded", !.scope = Instruments]})

\* A fresh run f, approved with p, is no looser than the run that ended and would not sell
\* a second time for its incident, nor under a client order ID used before.
CarriesOn(f, p) ==
    LET tag == h.gate.incident
        sold == {journal.releases[i].id : i \in {k \in DOMAIN journal.releases : journal.releases[k].sale /\ journal.releases[k].tag = tag}}
        next == SaleAttemptClientOrderID(tag, retiredCount(f.gate, tag))
    IN  /\ f.latched = h.latched
        /\ p.clears = NoTag =>
            /\ Rank(f.gate.state) >= Rank(h.gate.state) /\ f.gate.incident = tag
            /\ f.gate.state = "degraded" => h.gate.scope \subseteq f.gate.scope
            /\ tag # NoTag /\ ~saleAttemptedFor(f.gate, tag) =>
                sold \subseteq Ids(h.retired) \cup p.settled /\ next \notin sold

\* The state of the account that an approval states, as a gate holds it.
Stated(g) == <<g.state, g.scope, g.incident, saleAttemptedFor(g, g.incident), retiredCount(g, g.incident)>>

\* Whenever the run ends, the engine reads of its log the state the run was in, so that the
\* approval proposed starts a fresh run in that state; it accepts that approval, also when
\* the owner clears the incident or settles sales as never sent, and every approval it
\* accepts carries on.
NextRunCarriesOn ==
    LET end == journal.end
        unsent == {o \in DOMAIN venue : Unsent(o) /\ o \in end.sales}
        fresh(p) == applyApproval(New(h.mode), p)
    IN  /\ end.kill = h.gate.killEngaged
        /\ Stated(fresh(ProposeApproval(end, {}, NoTag)).gate) = Stated(h.gate)
        /\ \A settled \in SUBSET unsent, clears \in {NoTag, h.gate.incident} :
            LET p == ProposeApproval(end, settled, clears)
            IN  /\ Accepts(end, p)
                /\ \A q \in Approvals(p) : Accepts(end, q) => CarriesOn(fresh(q), q)

BuysOf(j) == {i \in DOMAIN j.releases : j.releases[i].side = "buy"}

KillEngaged == IF journal.kill = None THEN FALSE ELSE journal.kill.engaged

\* No buy is released out of the normal state, under an engaged kill switch or after two
\* orders rejected in a row.
NoBuyWhileBarred ==
    [][BuysOf(journal') # BuysOf(journal) => h.gate.state = "normal" /\ ~KillEngaged /\ ~TwoInARow]_vars

\* No looser a state, of the same incident and, while degraded, on no fewer instruments.
NoLooser(g, k) ==
    /\ Rank(k.state) >= Rank(g.state)
    /\ g.state # "normal" => k.incident = g.incident
    /\ g.state = "degraded" /\ k.state = "degraded" => g.scope \subseteq k.scope

\* Leaving a state is never automatic: whatever the run reads, it ends in no looser a state
\* than it was in, of the incident that began it and with every instrument of its scope.
NeverLoosens == [][NoLooser(h.gate, h'.gate)]_vars
=============================================================================
