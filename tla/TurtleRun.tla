------------------------------ MODULE TurtleRun ------------------------------
(***************************************************************************)
(* A backtest of the turtle strategy: the reducer (TurtleReducer) and the  *)
(* simulated broker (FillSimulator) driven through sessions by             *)
(* internal/fills runbar.go.  A session is a protocol of many deliveries:  *)
(* fills at the open, the statement of the session before, every bar, the  *)
(* session's close, and fills inside the bars until none is left.  Between *)
(* sessions the owner moves cash and the exchange announces corporate      *)
(* actions.  An error anywhere halts the run.                              *)
(*                                                                         *)
(* Session s ends at time 2s; what happens after it is stamped 2s + 1.     *)
(***************************************************************************)
EXTENDS TurtleReducer, FillSimulator

CONSTANTS
  Instruments,      \* the instruments a run starts with, numbers
  NewID,            \* the identity a renamed instrument continues under
  Shapes,           \* the bars that may happen: open, high, low, close
  WarmUp,           \* the shape of every bar while the readings fill
  WarmUpSessions,   \* how many sessions that takes
  MaxSessions,      \* bound: sessions of a run
  MaxEvents,        \* bound: deliveries between sessions
  Movements,        \* deposits and withdrawals the owner may make
  OpeningCash       \* the -cash flag: what the simulated account opens with

ASSUME RunAssumption ==
  /\ Instruments \subseteq Nat \ {0, NewID} /\ Instruments # {}
  /\ WarmUpSessions \in Nat /\ MaxSessions \in Nat /\ MaxEvents \in Nat
  /\ OpeningCash \in Nat
  /\ Movements \subseteq Int \ {0}

VARIABLES
  r,         \* the reducer
  sim,       \* the simulator: its book of resting orders and its account
  phase,     \* where RunSession stands
  session,   \* the bars of the session in the order they are delivered
  at,        \* the position in the session a pass has reached
  fills,     \* fills delivered per bar of the session
  events,    \* deliveries made between sessions so far
  err,       \* why the run halted
  ledger,    \* what the exits, the charges and the outside world add up to
  carried    \* the cash and units the session opened with, and units it sold inside its bars

vars == <<r, sim, phase, session, at, fills, events, err, ledger, carried>>

maxFillsPerBar == 64

sessionNumber == r.sessionGeneration

tracked == DOMAIN r.instruments

-----------------------------------------------------------------------------
\* One input the reducer answered with res: the account takes it, then the book takes
\* the decisions one by one.
observed(res, took, ref) ==
  FoldLeft(LAMBDA acc, e : IF acc.err # NoError THEN acc ELSE observe(acc.sim, e, ref), took, res.out)

answered(res, seen) == [r |-> res.r, sim |-> seen.sim, out |-> res.out, err |-> seen.err]

deliver(res, sim0, input, ref) ==
  answered(res, observed(res, CASE res.err # NoError -> SimFail(sim0, res.err)
                                [] res.err = NoError /\ input.event = "fill" -> recordFill(sim0, input.fill)
                                [] res.err = NoError /\ input.event = "cash.movement" -> recordMovement(sim0, input.movement)
                                [] OTHER -> SimOk(sim0), ref))

undelivered(e) == [r |-> r, sim |-> sim, out |-> <<>>, err |-> e]

\* statePendingClose: the statement of the last session, once.
pendingStatement == [event |-> "account.snapshot", snapshot |-> sim.account.pending]

statePendingClose(res) ==
  IF sim.account.pending = None THEN undelivered(NoError)
  ELSE deliver(res, [sim EXCEPT !.account.pending = None], pendingStatement, noReference)

\* Two deliveries in a row: res answers the second.
thenDeliver(d, res, input) ==
  IF d.err # NoError THEN d
  ELSE LET e == deliver(res, d.sim, input, noReference) IN [e EXCEPT !.out = d.out \o @]

\* What a delivery's decisions add to the ledger.
booked(out) ==
  FoldLeft(LAMBDA sum, e : sum + (CASE e.type = "CampaignExited"   -> e.realisedResult
                                    [] e.type = "CampaignDividend" -> e.cashAmount
                                    [] OTHER -> 0), 0, out)

\* The run after a delivery.
Delivered(d) == r' = d.r /\ sim' = d.sim /\ err' = d.err

Halting(d, next) == IF d.err = NoError THEN next ELSE "halted"

-----------------------------------------------------------------------------
Init ==
  /\ r = applyConfiguration(NewReducer)
  /\ sim = NewSimulator(OpeningCash)
  /\ phase = "between"
  /\ session = <<>> /\ at = 0 /\ fills = <<>> /\ events = 0
  /\ err = NoError
  /\ ledger = 0
  /\ carried = [cash |-> OpeningCash, units |-> <<>>, sold |-> 0]

\* The instruments that trade; a renamed one trades under its new identity.
Listed == (Instruments \ DOMAIN r.renamed) \union {r.renamed[id] : id \in DOMAIN r.renamed}

barOf(id, shape) ==
  [id |-> id, periodEnd |-> 2 * (sessionNumber + 1), open |-> shape.open, high |-> shape.high,
   low |-> shape.low, close |-> shape.close, rawClose |-> shape.close, volume |-> 10]

\* sessionBars: one bar each for the instruments that trade that day.
StartSession ==
  /\ phase = "between"
  /\ sessionNumber < MaxSessions
  /\ \E ids \in SUBSET Listed : \E shape \in [ids -> Shapes] :
       /\ ids # {}
       /\ sessionNumber < WarmUpSessions => ids = Listed /\ \A id \in ids : shape[id] = WarmUp
       /\ session' = [i \in DOMAIN SetToSortSeq(ids, <) |->
                        barOf(SetToSortSeq(ids, <)[i], shape[SetToSortSeq(ids, <)[i]])]
       /\ fills' = [i \in 1..Cardinality(ids) |-> 0]
  /\ phase' = "gap" /\ at' = 1
  /\ carried' = [cash |-> sim.account.cash, units |-> [id \in tracked |-> openUnits(r, id)], sold |-> 0]
  /\ UNCHANGED <<r, sim, events, err, ledger>>

\* The fill a pass makes next, of what the bar it has reached covers.
nextFill(reach, onlyGapped) ==
  fillEnvelopeFor(session[at], pick(reach.candidates, onlyGapped), fills[at] + 1)

fillReference(fill) == [bar |-> session[at].periodEnd, price |-> fill.price]

\* fillPass: one fill of the bar the pass has reached, whose delivery is d, or the next bar.
fillPass(reach, fill, d, onlyGapped, next) ==
  LET x   == pick(reach.candidates, onlyGapped)
      n   == fills[at] + 1
      did == IF reach.err # NoError THEN undelivered(reach.err)
             ELSE IF n > maxFillsPerBar THEN undelivered("an order refilled") ELSE d
  IN  \/ /\ at <= Len(session)
         /\ reach.err # NoError \/ x # None
         /\ Delivered(did)
         /\ fills' = [fills EXCEPT ![at] = n]
         /\ phase' = Halting(did, phase)
         /\ ledger' = IF did.err # NoError THEN ledger ELSE ledger + booked(did.out) - fill.commission
         /\ carried' = [carried EXCEPT !.sold = IF onlyGapped \/ did.err # NoError THEN @
                                                ELSE @ + Max({0, openUnits(r, session[at].id) - openUnits(did.r, session[at].id)})]
         /\ UNCHANGED <<session, at, events>>
      \/ /\ at <= Len(session)
         /\ reach.err = NoError /\ x = None
         /\ at' = at + 1
         /\ UNCHANGED <<r, sim, phase, session, fills, events, err, ledger, carried>>
      \/ /\ at > Len(session)
         /\ at' = 1 /\ phase' = next
         /\ UNCHANGED <<r, sim, session, fills, events, err, ledger, carried>>

\* The open-instant pass, in delivery order.
FillAtOpen(reach, fill, d) == phase = "gap" /\ fillPass(reach, fill, d, TRUE, "statement")

StatePendingClose(d) ==
  /\ phase = "statement"
  /\ Delivered(d) /\ phase' = Halting(d, "bars")
  /\ UNCHANGED <<session, at, fills, events, ledger, carried>>

completedBar == [event |-> "bar.completed", bar |-> session[at]]

DeliverBar(d) ==
  /\ phase = "bars" /\ at <= Len(session)
  /\ Delivered([d EXCEPT !.sim = IF d.err = NoError THEN recordClose(@, session[at]) ELSE @])
  /\ phase' = Halting(d, phase)
  /\ at' = at + 1
  /\ UNCHANGED <<session, fills, events, ledger, carried>>

\* sessionClosedFor names every instrument that had a bar.
sessionClosedFor ==
  [event |-> "session.closed", periodEnd |-> session[1].periodEnd,
   named |-> {session[i].id : i \in DOMAIN session}]

DeliverSessionClosed(d) ==
  /\ phase = "bars" /\ at > Len(session)
  /\ Delivered(d) /\ phase' = Halting(d, "range")
  /\ at' = 1
  /\ UNCHANGED <<session, fills, events, ledger, carried>>

\* The intrabar fixpoint, in the order of the identities.
FillInRange(reach, fill, d) == phase = "range" /\ fillPass(reach, fill, d, FALSE, "close")

\* Mutant of CloseOf: the counts of fills are kept for the next session.
MutantKeepsCounts ==
  /\ phase = "close"
  /\ LET d == closeOf(sim, session[1].periodEnd) IN
       sim' = d.sim /\ err' = d.err /\ phase' = Halting(d, "between")
  /\ session' = <<>> /\ at' = 0
  /\ UNCHANGED <<r, fills, events, ledger, carried>>

CloseOf ==
  /\ phase = "close"
  /\ LET d == closeOf(sim, session[1].periodEnd) IN
       sim' = d.sim /\ err' = d.err /\ phase' = Halting(d, "between")
  /\ session' = <<>> /\ fills' = <<>> /\ at' = 0
  /\ UNCHANGED <<r, events, ledger, carried>>

-----------------------------------------------------------------------------
\* Between sessions.

Between ==
  /\ phase = "between"
  /\ sessionNumber >= WarmUpSessions /\ sessionNumber < MaxSessions
  /\ events < MaxEvents

now == 2 * sessionNumber + 1

Handed(d, outside) ==
  /\ Delivered(d)
  /\ phase' = Halting(d, phase)
  /\ events' = events + 1
  /\ ledger' = ledger + booked(d.out) + outside
  /\ UNCHANGED <<session, at, fills, carried>>

cashMovement(amount) ==
  [event |-> "cash.movement",
   movement |-> [asOf |-> now, amount |-> amount, equityBefore |-> equity(sim.account)]]

\* Deliver states the pending close before a movement.  The owner leaves the cash
\* that standing orders may still take.
MoveCash(amount, d) ==
  /\ Between
  /\ r.lastAccountEventAt < now
  /\ amount > 0 \/ sim.account.cash - holdTotal(r) + amount >= 0
  /\ Handed(d, amount)

corporateAction(kind, id) ==
  [event |-> "corporate.action",
   action |-> [kind |-> kind, id |-> id, actionID |-> <<id, now, 0>>, effectiveAt |-> now, newShares |-> 1,
               oldShares |-> 2, enginePerRaw |-> 1, rawSharesLost |-> 0, cashInLieu |-> 0,
               newID |-> None, cashAmount |-> 0]]

holdingCampaign(id) == id \in DOMAIN r.instruments /\ r.instruments[id].campaign # None

Delist(id, d) == Between /\ id \in Listed \ DOMAIN r.delisted /\ Handed(d, 0)

\* A split that leaves the holder a share short pays for it.
split(id) == [corporateAction("split", id) EXCEPT !.action.rawSharesLost = 1, !.action.cashInLieu = 7]

Split(id, d) ==
  /\ Between
  /\ id \in Listed \ DOMAIN r.delisted
  /\ holdingCampaign(id)
  /\ r.instruments[id].lastSplitAt < now
  /\ Last(r.instruments[id].campaign.units).quantity > 1
  /\ Handed(d, 0)

dividend(id) == [corporateAction("dividend", id) EXCEPT !.action.cashAmount = 3]

PayDividend(id, d) ==
  /\ Between
  /\ id \in Listed \ DOMAIN r.delisted
  /\ holdingCampaign(id)
  /\ r.instruments[id].lastDividendAt < now
  /\ Handed(d, 0)

symbolChange(id) == [corporateAction("symbol_change", id) EXCEPT !.action.newID = NewID]

Rename(id, d) ==
  /\ Between
  /\ id \in Instruments \ (DOMAIN r.delisted \union DOMAIN r.renamed)
  /\ NewID \notin Listed
  /\ Handed(d, 0)

\* The driver states the last close and ends the input.
runCompleted == [event |-> "run.completed", at |-> now]

Complete(d) ==
  /\ phase = "between" /\ sessionNumber = MaxSessions
  /\ Delivered(d) /\ phase' = Halting(d, "ended")
  /\ UNCHANGED <<session, at, fills, events, ledger, carried>>

\* An ended run stays as it is.
Ended == phase \in {"ended", "halted"} /\ UNCHANGED vars

\* The run driven by a reducer (handler answers an input) and a broker (reached is what a
\* bar covers of the orders resting in its book).
Driven(handler(_, _), reached(_, _)) ==
  LET reach         == reached(sim, session[at])
      to(input)     == deliver(handler(r, input), sim, input, noReference)
      fillTo(fill)  == deliver(handler(r, [event |-> "fill", fill |-> fill]), sim,
                               [event |-> "fill", fill |-> fill], fillReference(fill))
      stated        == statePendingClose(handler(r, pendingStatement))
      andTo(input)  == thenDeliver(stated, handler(stated.r, input), input)
  IN  \/ StartSession
      \/ FillAtOpen(reach, nextFill(reach, TRUE), fillTo(nextFill(reach, TRUE)))
      \/ StatePendingClose(stated)
      \/ DeliverBar(to(completedBar))
      \/ DeliverSessionClosed(to(sessionClosedFor))
      \/ FillInRange(reach, nextFill(reach, FALSE), fillTo(nextFill(reach, FALSE)))
      \/ CloseOf
      \/ \E amount \in Movements : MoveCash(amount, andTo(cashMovement(amount)))
      \/ \E id \in Instruments \union {NewID} :
           \/ Delist(id, to(corporateAction("delisting", id)))
           \/ Split(id, to(split(id)))
           \/ PayDividend(id, to(dividend(id)))
           \/ Rename(id, to(symbolChange(id)))
      \/ Complete(andTo(runCompleted))
      \/ Ended

Next == Driven(Apply, covered)

Spec == Init /\ [][Next]_vars

-----------------------------------------------------------------------------
proposalsOf(s) ==
  {p.proposalID : p \in {s.pendingProposal, s.pendingAddProposal} \ {None}}

unitsIn(s) == IF s.campaign = None THEN <<>> ELSE s.campaign.units

TypeOK ==
  /\ phase \in {"between", "gap", "statement", "bars", "range", "close", "ended", "halted"}
  /\ at \in Nat /\ events \in 0..MaxEvents /\ ledger \in Int
  /\ DOMAIN session = DOMAIN fills
  /\ r.sessionGeneration \in 0..MaxSessions
  /\ tracked \subseteq Instruments \union {NewID}
  /\ (phase = "halted") = (err # NoError)

\* What a decision made without an eligible cash figure ends in (reducer.go
\* cashAtPreviousClose): a bar after a missed session, or an add chained to a
\* fill after a cash movement had the last session stated early.
NoBasis == "cash not known at the previous close"

\* The reducer accepts every fill the simulator makes and the simulator every
\* decision of the reducer, and neither ever refuses itself: no order the book
\* does not hold, no exit off its proposal, no sale of more than is held, no
\* statement of cash the account did not have (reducer.go, campaign.go,
\* fills.go, account.go).  The only halt is the missing cash figure.
BothSidesAgree == err \in {NoError, NoBasis}

\* Every buy the reducer stands behind has exactly one hold and every hold such
\* a buy, through fills, expiries, stops, delistings and renames (campaign.go,
\* delisting.go, symbol_change.go), so that cash and cap headroom neither leak
\* nor are promised twice.
HoldsMatchProposals ==
  /\ \A i, j \in DOMAIN r.holds : i # j => r.holds[i].proposalID # r.holds[j].proposalID
  /\ \A id \in tracked :
       proposalsOf(r.instruments[id]) =
         {r.holds[i].proposalID : i \in {k \in DOMAIN r.holds : r.holds[k].id = id}}
  /\ \A i \in DOMAIN r.holds : r.holds[i].id \in tracked

\* The buys of the session under way, of the instruments given.
boughtNow(ids) ==
  {f \in r.acceptedFills : /\ session # <<>> /\ f.filledAt = session[1].periodEnd
                           /\ f.kind \in {"entry", "add"} /\ f.id \in ids}

\* Whatever is sold during a session, its buys are paid from the cash the account
\* opened the session with, and so is every standing buy should it fill at its
\* worst; affordability is checked one proposal at a time, against a statement
\* that arrives in the middle of the session (reducer.go cashAtPreviousClose,
\* ADR 0010, ADR 0020).
StandingBuysAreFunded ==
  LET basis == IF session = <<>> THEN sim.account.cash ELSE carried.cash
      spent == FoldSet(LAMBDA f, sum : sum + f.quantity * f.price * Config.dollarsPerPoint + f.commission,
                       0, boughtNow(tracked))
  IN  basis - spent >= holdTotal(r)

\* The units a session opens with, those it buys and those still promised.
committed(ids) ==
  (IF session = <<>> THEN FoldSet(LAMBDA id, sum : sum + openUnits(r, id), 0, ids)
   ELSE FoldSet(LAMBDA id, sum : sum + carried.units[id], 0, ids \intersect DOMAIN carried.units)
          + Cardinality(boughtNow(ids)))
  + reservedUnits(r, ids)

insideGroupCaps(units) == units <= Config.maxUnitsPerSector /\ units <= Config.maxUnitsTotalLong

\* A unit sold at the open of a session frees no headroom in that session, for
\* its own instrument or another, however the fills, the bars and the close
\* interleave; one sold inside a bar frees none for its own instrument
\* (unit_caps.go, session.go; ADR 0008, ADR 0010).
UnitsInsideCaps ==
  /\ \A id \in tracked : committed({id}) <= Config.maxUnits
  /\ insideGroupCaps(committed(tracked) - (IF session = <<>> THEN 0 ELSE carried.sold))

\* "Exits in bar t free capital and headroom for bar t+1, never for bar t" (ADR
\* 0010), and so of the units sold inside the bars (unit_caps.go
\* protectedSessionGeneration).
HeadroomFreedNextBar == insideGroupCaps(committed(tracked))

\* The resting order a slot of the book and a proposal of the reducer stand for.
sameOrder(slot, p) ==
  /\ (slot = None) = (p = None)
  /\ slot # None => slot.proposalID = p.proposalID

\* The simulator's book is the reducer's: the same proposals rest, and every unit
\* held has one sell order for exactly its shares at the higher of its stop and
\* the exit its campaign proposed (fills.go observe, exit_order.go; ADR 0005).
BookMirrorsReducer ==
  \A id \in tracked :
    LET s == r.instruments[id]
        b == bookFor(sim, id)
        u == unitsIn(s)
        level(k) == IF s.pendingExitProposal = None THEN u[k].protectiveStop
                    ELSE IF s.pendingExitProposal.campaignID # s.campaign.campaignID
                    THEN u[k].protectiveStop
                    ELSE Max({u[k].protectiveStop, s.pendingExitProposal.level})
    IN  err = NoError =>
        /\ sameOrder(b.entry, s.pendingProposal) /\ sameOrder(b.add, s.pendingAddProposal)
        /\ (b.campaign = None) = (s.campaign = None)
        /\ heldOf(sim.account, id) = filledQuantity(u)
        /\ s.campaign # None =>
             /\ Len(b.campaign.units) = Len(u)
             /\ \A k \in DOMAIN u :
                  /\ b.campaign.units[k].openingFillID = u[k].openingFillID
                  /\ b.campaign.units[k].quantity = u[k].quantity
                  /\ b.campaign.units[k].exitLevel = level(k)

\* Money is conserved: the account's cash is what it opened with, what came from
\* outside, the results of campaigns closed and the charges paid, less what the
\* open campaigns have cost so far (campaign.go lifeAggregate, split.go,
\* delisting.go, account.go).
MoneyConserved ==
  LET spent(c) == IF c = None THEN 0
                  ELSE entryWeighted(c.units) + c.closedEntryWeightedSum - c.closedExitWeightedSum
      open == FoldSet(LAMBDA id, sum : sum + spent(r.instruments[id].campaign), 0, tracked)
  IN  err = NoError => sim.account.cash = OpeningCash + ledger - open * Config.dollarsPerPoint

\* No order outlives the bar after the one it was decided at, and nothing rests
\* once the input has ended (campaign.go expire*, end_of_stream.go; ADR 0011).
NoOrderOutlivesItsBar ==
  \A id \in tracked :
    LET s == r.instruments[id] IN
    /\ \A p \in {s.pendingProposal, s.pendingExitProposal} \ {None} : p.periodEnd = s.lastBarPeriodEnd
    /\ s.pendingAddProposal # None =>
         s.pendingAddProposal.periodEnd \in {s.lastBarPeriodEnd, s.lastBarEarliestFillAt}
    /\ phase = "ended" =>
         proposalsOf(s) = {} /\ s.pendingExitProposal = None /\ bookFor(sim, id).entry = None

=============================================================================
