------------------------------ MODULE EndState ------------------------------
(***************************************************************************)
(* What the operator tool and the engine read of a Boost log that ended    *)
(* (internal/restart): the latch in force, the incident it ended in and    *)
(* whether its one sale was attempted, folded from the log's records in    *)
(* order into a record e, without the handler.  ProposeApproval builds the *)
(* owner's approval of a fresh run from it, and the engine checks whatever *)
(* approval it is given against the same reading.                          *)
(*                                                                         *)
(* A settlement is the adapter's statement, after the run ended, that it   *)
(* never sent an order; it is modelled by its order.  Records that do not  *)
(* decode, other accounts and the momentum run are left out.               *)
(***************************************************************************)
EXTENDS BoostHandler

\* The log's own approval: the state it starts in.
AtStart(mode, a) ==
    [mode |-> mode, latched |-> a.latched, incident |-> a.incident, state |-> a.state, scope |-> a.scope,
     attempted |-> a.attempted, order |-> NoTag, retired |-> a.retired,
     sales |-> {}, released |-> <<>>, gone |-> {}, named |-> {}, kill |-> FALSE, killAt |-> 0]

\* One engine.state: the first names the incident; halted overrides, degraded widens.
foldState(e, s) ==
    LET halted == s.state = "halted" \/ e.state = "halted"
    IN  [e EXCEPT !.incident = IF @ = NoTag THEN s.id ELSE @,
                  !.state = IF halted THEN "halted" ELSE "degraded",
                  !.scope = IF halted THEN {} ELSE @ \cup s.scope]

\* One record among the decisions of an input.
ReadDecision(e, r) ==
    CASE r.type = "targets.decided" -> [e EXCEPT !.latched = r.decision.boost.after]
      [] r.type = "engine.state" -> foldState(e, r.state)
      [] r.type = "order.planned" ->
            IF r.order.sale # None /\ r.order.tag = e.incident
            THEN [e EXCEPT !.attempted = TRUE, !.order = r.order.id, !.sales = @ \cup {r.order.id}] ELSE e
      [] r.type = "sale.withheld" -> IF r.sale.tag = e.incident /\ Attempted(r.sale) THEN [e EXCEPT !.attempted = TRUE] ELSE e
      [] r.type = "order.released" ->
            [e EXCEPT !.released = With(@, r.order.id, [side |-> r.order.side, quantity |-> r.order.quantity])]
      [] OTHER -> e

\* An order a report or an execution names was sent, unless it contradicts a retirement.
ReadReport(e, id) == IF id \in DOMAIN e.released /\ id \notin e.gone THEN [e EXCEPT !.named = @ \cup {id}] ELSE e

\* The orders a broker snapshot lists by name.
ReadListing(e, ids) == [e EXCEPT !.named = @ \cup (ids \cap DOMAIN e.released)]

\* The engine's own rule on a retirement, on what the log says of the order.
Retirable(e, r) ==
    /\ e.mode # "dry-run"
    /\ r.order \in DOMAIN e.released /\ r.order \notin e.gone /\ r.order \notin e.named
    /\ e.released[r.order] = [side |-> r.side, quantity |-> r.quantity]

\* Mutant of retireSale: the attempt is given back and not counted.
MutantNotCounted(e, id) == [e EXCEPT !.attempted = FALSE, !.order = NoTag]

\* One of the incident's sales was never sent: it was no attempt.
retireSale(e, id) ==
    LET own == e.attempted /\ id = e.order
    IN  [e EXCEPT !.retired = @ + 1, !.attempted = @ /\ ~own, !.order = IF own THEN NoTag ELSE @]

ReadRetirement(e, r) ==
    IF ~Retirable(e, r) THEN e
    ELSE LET gone == [e EXCEPT !.gone = @ \cup {r.order}]
         IN  IF r.order \in e.sales THEN retireSale(gone, r.order) ELSE gone

\* An instruction older than the one accepted last was refused.
ReadKillSwitch(e, k) == IF k.asOf < e.killAt THEN e ELSE [e EXCEPT !.kill = k.engaged, !.killAt = k.asOf]

----------------------------------------------------------------------------
(* After the log's last record *)

\* The adapter's settlement of an order the log released: a retirement of all of it.
NeverSentSettlement(e, id) ==
    [order |-> id, side |-> e.released[id].side, quantity |-> e.released[id].quantity]

\* The orders of a set settled as never sent, after the log's last record; refused
\* when the log does not bear one out.
Settle(e, ids) ==
    FoldSet(LAMBDA id, acc :
                LET r == NeverSentSettlement(e, id)
                IN  [ok |-> acc.ok /\ Retirable(acc.end, r), end |-> ReadRetirement(acc.end, r)],
            [ok |-> ids \subseteq DOMAIN e.released, end |-> e], ids \cap DOMAIN e.released)

\* The approval of a fresh run that carries the log's state on, with the settlements of
\* the incident's sales; clears is the incident the owner clears, if any.
ProposeApproval(e, settled, clears) ==
    LET end == Settle(e, settled).end
        inForce == end.incident # NoTag /\ clears = NoTag
    IN  [latched |-> end.latched, clears |-> clears,
         incident |-> IF inForce THEN end.incident ELSE NoTag,
         state |-> IF inForce THEN end.state ELSE "normal", scope |-> IF inForce THEN end.scope ELSE {},
         attempted |-> inForce /\ end.attempted, order |-> IF inForce THEN end.order ELSE NoTag,
         retired |-> IF inForce THEN end.retired ELSE 0, settled |-> IF inForce THEN settled \cap end.sales ELSE {}]

\* operator.run.approved: what Validate asks of it.
ValidApproval(p) ==
    p.incident # NoTag =>
        /\ p.incident # p.clears
        /\ p.state \in {"degraded", "halted"} /\ (p.scope = {}) = (p.state = "halted")
        /\ ~p.attempted => p.order = NoTag
        /\ p.retired >= Cardinality(p.settled)

\* The latch is restored, never changed.
CheckApprovedLatch(e, p) == p.latched = e.latched

\* The incident is cleared by its name, or carried in force no looser than it was.
CheckIncidentInForce(e, p) ==
    IF e.state = "normal" THEN p.clears = NoTag /\ p.incident = NoTag
    ELSE /\ p.clears \in {NoTag, e.incident}
         /\ p.incident \in {NoTag, e.incident}
         /\ p.clears = NoTag =>
                /\ p.incident # NoTag
                /\ p.state # "halted" => e.state # "halted" /\ e.scope \subseteq p.scope

\* A sale the log shows attempted is stated as attempted, and every sale retired is counted.
CheckSaleAttempt(e, p) ==
    LET s == Settle(e, p.settled)
    IN  p.incident = NoTag \/ (p.attempted /\ p.settled = {})
        \/ /\ s.ok /\ p.settled \subseteq e.sales
           /\ p.attempted \/ (~s.end.attempted /\ p.retired >= s.end.retired)

\* Whether the engine starts a fresh run with the approval.
Accepts(e, p) == ValidApproval(p) /\ CheckApprovedLatch(e, p) /\ CheckIncidentInForce(e, p) /\ CheckSaleAttempt(e, p)
=============================================================================
