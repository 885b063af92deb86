--------------------------- MODULE TurtleCampaign ---------------------------
(***************************************************************************)
(* A campaign from its first fill to its close: internal/strategy          *)
(* campaign.go and exit_order.go.  Values the configuration fixes for      *)
(* every campaign alike (the stop multiple, the direction, the rules and   *)
(* decision records a payload cites) are read from Config or left out.     *)
(***************************************************************************)
EXTENDS TurtleState

filledQuantity(units) == FoldLeft(LAMBDA sum, u : sum + u.quantity, 0, units)

\* The units' cost: entryPrice is this over filledQuantity.
entryWeighted(units) == FoldLeft(LAMBDA sum, u : sum + u.quantity * u.fillPrice, 0, units)

unitStops(units) == {units[i].protectiveStop : i \in DOMAIN units}

protectiveStop(campaign) == LowestProtectiveStop(unitStops(campaign.units))

\* Mutant of lifeAggregate: units stopped earlier are left out of the result.
MutantLastUnitsOnly(campaign, closing, price) ==
  [quantity |-> filledQuantity(closing), entrySum |-> entryWeighted(closing),
   exitSum |-> filledQuantity(closing) * price]

\* What the whole life of a campaign comes to when its last units close.
lifeAggregate(campaign, closing, price) ==
  [quantity |-> campaign.closedQuantity + filledQuantity(closing),
   entrySum |-> campaign.closedEntryWeightedSum + entryWeighted(closing),
   exitSum  |-> campaign.closedExitWeightedSum + filledQuantity(closing) * price]

\* The units a closing fill names, in unit order.
resolveUnits(campaign, ids) == SelectSeq(campaign.units, LAMBDA u : u.openingFillID \in ids)

removeUnits(campaign, ids) == SelectSeq(campaign.units, LAMBDA u : u.openingFillID \notin ids)

newUnit(index, fill, stop) ==
  [index |-> index, openingFillID |-> fill.fillID, fillPrice |-> fill.price,
   quantity |-> fill.quantity, protectiveStop |-> stop, filledAt |-> fill.filledAt,
   exitOrderLevel |-> 0, exitOrderSource |-> "none"]

\* Whether a fill is the very fact accepted before: every field it states is the same.
acceptedBefore(r, fill) == fill \in r.acceptedFills

recordAcceptedFill(r, fill) == [r EXCEPT !.acceptedFills = @ \union {fill}]

-----------------------------------------------------------------------------
\* Exit orders: each unit rests at the higher of its stop and an outstanding
\* exit proposal of its own campaign.
exitOrderFor(u, campaignID, pending) ==
  IF pending = None THEN
    [level |-> u.protectiveStop, source |-> "protective_stop", exitLevel |-> 0]
  ELSE IF pending.campaignID # campaignID THEN
    [level |-> u.protectiveStop, source |-> "protective_stop", exitLevel |-> 0]
  ELSE IF pending.level > u.protectiveStop THEN
    [level |-> pending.level, source |-> "exit_channel", exitLevel |-> pending.level]
  ELSE
    [level |-> u.protectiveStop, source |-> "protective_stop", exitLevel |-> pending.level]

exitOrderSet(campaignID, id, u, order, asOf, cause) ==
  [type |-> "ExitOrderSet",
   decision |-> unitDecisionID("exit-order-set", u.index, cause, id, asOf),
   campaignID |-> campaignID, id |-> id, unitIndex |-> u.index,
   level |-> order.level, quantity |-> u.quantity, source |-> order.source,
   protectiveStop |-> u.protectiveStop, exitChannelLevel |-> order.exitLevel, at |-> asOf]

\* Mutant of exitOrderChanges: only the newest unit's order is moved.
MutantMovesOne(r, campaignID, id, units, pending, asOf, cause) ==
  emit(r, exitOrderSet(campaignID, id, Head(units), exitOrderFor(Head(units), campaignID, pending), asOf, cause))

\* One decision for every unit whose order moves.
exitOrderChanges(r, campaignID, id, units, pending, asOf, cause) ==
  LET moved(u) == LET o == exitOrderFor(u, campaignID, pending)
                  IN  o.level # u.exitOrderLevel \/ o.source # u.exitOrderSource
  IN  FoldLeft(LAMBDA res, u :
                 Then(res, LAMBDA q :
                   emit(q, exitOrderSet(campaignID, id, u, exitOrderFor(u, campaignID, pending), asOf, cause))),
               Ok(r, <<>>), SelectSeq(units, moved))

recordExitOrders(units, campaignID, pending) ==
  [i \in DOMAIN units |->
     LET o == exitOrderFor(units[i], campaignID, pending)
     IN  [units[i] EXCEPT !.exitOrderLevel = o.level, !.exitOrderSource = o.source]]

emitExitOrderChanges(r, id, asOf, cause) ==
  LET s == r.instruments[id] IN
  IF s.campaign = None THEN Ok(r, <<>>)
  ELSE Then(exitOrderChanges(r, s.campaign.campaignID, id, s.campaign.units,
                             s.pendingExitProposal, asOf, cause),
            LAMBDA q : Ok([q EXCEPT !.instruments[id].campaign.units =
                              recordExitOrders(@, s.campaign.campaignID, s.pendingExitProposal)], <<>>))

-----------------------------------------------------------------------------
\* Proposals end: an entry or exit proposal with the next bar, an add proposal
\* with the bar after the ones it is valid for, or when a stop is hit.
proposalExpired(kind, decision, id, pending, level, signalID, at, reason) ==
  [type |-> "ProposalExpired", decision |-> decision, kind |-> kind, id |-> id,
   proposalID |-> pending.proposalID, signalID |-> signalID,
   periodEnd |-> pending.periodEnd, at |-> at, earliestFillAt |-> pending.earliestFillAt,
   reason |-> reason, quantity |-> pending.quantity, level |-> level]

\* Mutant of expireEntryProposal: the hold is left standing.
MutantKeepsHold(r, id, at) ==
  LET p == r.instruments[id].pendingProposal IN
  emit([r EXCEPT !.instruments[id].pendingProposal = None],
       proposalExpired("entry", decisionID("proposal-expired", id, at), id, p,
                       p.entryLevel, p.signalID, at, "superseded_by_next_bar"))

expireEntryProposal(r, id, at) ==
  LET p == r.instruments[id].pendingProposal IN
  Then(releaseHold([r EXCEPT !.instruments[id].pendingProposal = None], p.proposalID),
       LAMBDA q : emit(q, proposalExpired("entry", decisionID("proposal-expired", id, at), id, p,
                                          p.entryLevel, p.signalID, at, "superseded_by_next_bar")))

expireExitProposal(r, id, at) ==
  LET p == r.instruments[id].pendingExitProposal IN
  emit([r EXCEPT !.instruments[id].pendingExitProposal = None],
       proposalExpired("exit", decisionID("exit-proposal-expired", id, at), id, p,
                       p.level, None, at, "superseded_by_next_bar"))

expireAddProposal(r, id, at) ==
  LET p == r.instruments[id].pendingAddProposal IN
  Then(releaseHold([r EXCEPT !.instruments[id].pendingAddProposal = None], p.proposalID),
       LAMBDA q : emit(q, proposalExpired("add", decisionID("add-proposal-expired", id, at), id, p,
                                          p.level, None, at, "superseded_by_next_bar")))

expireAddProposalForStop(r, id, fill) ==
  LET p == r.instruments[id].pendingAddProposal IN
  Then(releaseHold([r EXCEPT !.instruments[id].pendingAddProposal = None], p.proposalID),
       LAMBDA q : emit(q, proposalExpired("add",
                            unitDecisionID("add-proposal-expired-by-stop", 0, fill.fillID, id, fill.filledAt),
                            id, p, p.level, None, fill.filledAt, "superseded_by_stop")))

-----------------------------------------------------------------------------
\* What the exit proposal just emitted leaves outstanding.
pendingExitProposalState(p, earliestFillAt) ==
  [proposalID |-> p.decision, campaignID |-> p.campaignID, periodEnd |-> p.at,
   quantity |-> p.quantity, level |-> p.level, earliestFillAt |-> earliestFillAt]

\* A bar of an instrument in a campaign states where the campaign stands and,
\* below the exit channel, proposes to close it.
evaluateCampaign(r, bar, exitChannel, previousPeriodEnd) ==
  LET id  == bar.id
      c   == r.instruments[id].campaign
      met == exitChannel.ready /\ bar.low < exitChannel.value
      pid == decisionID("exit-proposal", id, bar.periodEnd)
      evaluated ==
        [type |-> "CampaignEvaluated", decision |-> decisionID("campaign-evaluated", id, bar.periodEnd),
         campaignID |-> c.campaignID, id |-> id, at |-> bar.periodEnd,
         protectiveStop |-> protectiveStop(c), units |-> c.units,
         exitChannelLow |-> IF exitChannel.ready THEN exitChannel.value ELSE 0,
         exitChannelReady |-> exitChannel.ready, exitConditionMet |-> met,
         aggregateOpenRisk |-> AggregateOpenRisk(c.units, Config.dollarsPerPoint),
         notionalAccount |-> r.notional.current]
      proposal ==
        [type |-> "ExitProposal", decision |-> pid, campaignID |-> c.campaignID, id |-> id,
         at |-> bar.periodEnd, level |-> exitChannel.value, quantity |-> filledQuantity(c.units)]
  IN  IF protectiveStop(c) = Unusable THEN Fail(r, "no protective stop")
      ELSE Then(emit(r, evaluated),
             LAMBDA q : When(met, q, LAMBDA p :
               emit([p EXCEPT !.instruments[id].pendingExitProposal =
                                  pendingExitProposalState(proposal, previousPeriodEnd)], proposal)))

\* What the add proposal just emitted leaves outstanding.
pendingAddProposalState(p, survives, earliestFillAt) ==
  [addN |-> p.addN, survivesNextBar |-> survives, proposalID |-> p.decision, periodEnd |-> p.at,
   unitIndex |-> p.unitIndex, quantity |-> p.quantity, level |-> p.level, earliestFillAt |-> earliestFillAt]

addDeclined(r, id, unitIndex, reason) ==
  LET s == r.instruments[id] IN
  [type |-> "ProposalDeclined", kind |-> "add",
   decision |-> unitDecisionID("add-proposal-declined", unitIndex, <<>>, id, s.lastBarPeriodEnd),
   id |-> id, at |-> s.lastBarPeriodEnd, signalID |-> None, campaignID |-> s.campaign.campaignID,
   reason |-> reason, requiredCash |-> 0, availableCash |-> 0,
   cap |-> "none", capLimit |-> 0, postTradeExposure |-> 0, strength |-> <<0, 1>>]

\* From a fill the proposal also outlives the next bar.
proposeAdd(r, id, rung, n, quantity, hold, fromFill) ==
  LET s    == r.instruments[id]
      c    == s.campaign
      unitIndex == Len(c.units) + 1
      pid  == unitDecisionID("add-proposal", unitIndex, <<>>, id, s.lastBarPeriodEnd)
      addN == IF Config.recomputeNAtAdd THEN n ELSE 0
      payload ==
        [type |-> "AddProposal", decision |-> pid, campaignID |-> c.campaignID, id |-> id,
         at |-> s.lastBarPeriodEnd, validForSessions |-> IF fromFill THEN 2 ELSE 1,
         unitIndex |-> unitIndex, level |-> rung, quantity |-> quantity, addN |-> addN,
         previousUnitFill |-> Last(c.units).fillPrice, campaignN |-> c.campaignN,
         orderType |-> Config.buyOrderType, priceCap |-> hold.priceCap]
      pending == pendingAddProposalState(payload, fromFill, s.lastBarEarliestFillAt)
  IN  Then(emit([r EXCEPT !.instruments[id].pendingAddProposal = pending], payload),
           LAMBDA q : placeHold(q, pid, id, hold.cost))

\* Whether the last bar reached the next rung of the ladder, and whether caps
\* and cash allow the unit.  From a fill the proposal also outlives the next bar.
evaluateAdd(r, id, fromFill) ==
  LET s    == r.instruments[id]
      c    == s.campaign
      n    == IF Config.recomputeNAtAdd THEN s.lastBarN ELSE c.campaignN
      rung == NextAddLevel(Last(c.units).fillPrice, n)
      unitIndex == Len(c.units) + 1
      cap  == capExceeded(r, id)
      quantity == IF Config.recomputeNAtAdd
                  THEN SizeUnit(Config, c.sizingAccount, Config.stopMultiple, n)
                  ELSE c.unitQuantity
      cash == cashAtPreviousClose(r, s.lastBarEarliestFillAt)
      hold == buyHold(quantity, rung, n)
      decline(reason) == emit(r, addDeclined(r, id, unitIndex, reason))
  IN  IF s.pendingAddProposal # None \/ c.partiallyStopped THEN Ok(r, <<>>)
      ELSE IF rung = Unusable THEN Fail(r, "no next rung")
      ELSE IF s.lastBarHigh < rung THEN Ok(r, <<>>)
      ELSE IF cap # None THEN
        emit(r, [addDeclined(r, id, unitIndex, "unit_cap_exceeded") EXCEPT
                   !.cap = cap.cap, !.capLimit = cap.limit, !.postTradeExposure = cap.exposure])
      ELSE IF quantity = Unusable THEN Fail(r, "no unit size")
      ELSE IF Config.recomputeNAtAdd /\ quantity = 0 THEN decline("quantity_below_one_unit")
      ELSE IF Config.recomputeNAtAdd /\ rung - Product(Config.stopMultiple, n) <= 0
        THEN decline("stop_intent_not_positive")
      ELSE IF cash.err # NoError THEN Fail(r, cash.err)
      ELSE IF hold.cost > cash.cash THEN
        emit(r, [addDeclined(r, id, unitIndex, "insufficient_cash") EXCEPT
                   !.requiredCash = hold.cost, !.availableCash = cash.cash])
      ELSE proposeAdd(r, id, rung, n, quantity, hold, fromFill)

-----------------------------------------------------------------------------
stopSet(decision, campaignID, id, unitIndex, reason, level, previous, entryPrice, n, fill) ==
  [type |-> "ProtectiveStopSet", decision |-> decision, campaignID |-> campaignID, id |-> id,
   unitIndex |-> unitIndex, reason |-> reason, at |-> fill.filledAt, level |-> level,
   previousLevel |-> previous, entryPrice |-> entryPrice, n |-> n]

\* The entry's fill opens the campaign, sets the first stop and may chain into an
\* add proposal at once.
openCampaign(r, id, pending, fill) ==
  LET cid  == decisionID("campaign", id, fill.filledAt)
      stop == ProtectiveStopLevel(fill.price, pending.n, Config.stopMultiple)
      unit == newUnit(1, fill, stop)
      opened ==
        [type |-> "CampaignOpened", decision |-> cid, id |-> id, campaignID |-> cid,
         proposalID |-> pending.proposalID, signalID |-> pending.signalID, fillID |-> fill.fillID,
         campaignN |-> pending.n, unitQuantity |-> pending.quantity, filledQuantity |-> fill.quantity,
         entryPrice |-> fill.price, protectiveStop |-> stop, at |-> fill.filledAt]
      campaign ==
        [campaignID |-> cid, proposalID |-> pending.proposalID, signalID |-> pending.signalID,
         campaignN |-> pending.n, unitQuantity |-> pending.quantity,
         sizingAccount |-> pending.sizingAccount, openedAt |-> fill.filledAt,
         units |-> recordExitOrders(<<unit>>, cid, None), unitsOpened |-> 1,
         partiallyStopped |-> FALSE, closedQuantity |-> 0, closedEntryWeightedSum |-> 0,
         closedExitWeightedSum |-> 0, lastCloseFillAt |-> 0]
  IN  IF stop = Unusable THEN Fail(r, "no protective stop")
      ELSE Then(emit(r, opened), LAMBDA r1 :
           Then(emit(r1, stopSet(decisionID("protective-stop-set", id, fill.filledAt), cid, id, 1,
                                 "initial", stop, 0, fill.price, pending.n, fill)), LAMBDA r2 :
           Then(exitOrderChanges(r2, cid, id, <<unit>>, None, fill.filledAt, fill.fillID), LAMBDA r3 :
           Then(releaseHold(recordAcceptedFill(
                              [r3 EXCEPT !.instruments[id].campaign = campaign,
                                         !.instruments[id].pendingProposal = None], fill),
                            pending.proposalID), LAMBDA r4 :
           evaluateAdd(debitFill(r4, fill), id, TRUE)))))

\* What a fill of an open campaign is refused for, whatever its kind.
campaignFillRefused(c, fill) ==
  CASE c = None -> "no open campaign"
    [] c # None /\ c.campaignID # fill.campaignID -> "another campaign"
    [] OTHER -> NoError

closeRefused(c, fill) ==
  CASE fill.filledAt < c.openedAt -> "closed before it opened"
    [] fill.filledAt >= c.openedAt /\ fill.filledAt < c.lastCloseFillAt -> "closed before an earlier close"
    [] OTHER -> NoError

campaignExited(id, c, fill, reason, stopLevel, life) ==
  [type |-> "CampaignExited", decision |-> decisionID("campaign-exited", id, fill.filledAt),
   campaignID |-> c.campaignID, id |-> id, fillID |-> fill.fillID, at |-> fill.filledAt,
   reason |-> reason, entrySum |-> life.entrySum, exitSum |-> life.exitSum,
   quantity |-> life.quantity, campaignN |-> c.campaignN, unitQuantity |-> c.unitQuantity,
   protectiveStopLevel |-> stopLevel,
   realisedResult |-> (life.exitSum - life.entrySum) * Config.dollarsPerPoint,
   units |-> c.unitsOpened]

\* A stop fill names units it closes whole.
stopFillRefused(c, fill) ==
  LET closing == resolveUnits(c, ToSet(fill.unitIDs))
  IN  IF campaignFillRefused(c, fill) # NoError THEN campaignFillRefused(c, fill)
      ELSE IF closeRefused(c, fill) # NoError THEN closeRefused(c, fill)
      ELSE IF Len(closing) # Len(fill.unitIDs) THEN "unit unknown or already closed"
      ELSE IF fill.quantity # filledQuantity(closing) THEN "partial stop fill"
      ELSE IF LowestProtectiveStop(unitStops(closing)) = Unusable THEN "no protective stop"
      ELSE NoError

unitsStopped(id, c, closing, rest, fill) ==
  [type |-> "CampaignUnitsStopped",
   decision |-> unitDecisionID("units-stopped", 0, fill.fillID, id, fill.filledAt),
   campaignID |-> c.campaignID, id |-> id, fillID |-> fill.fillID, at |-> fill.filledAt,
   unitIndexes |-> [i \in DOMAIN closing |-> closing[i].index], fillPrice |-> fill.price,
   quantityClosed |-> filledQuantity(closing), entrySum |-> entryWeighted(closing),
   campaignN |-> c.campaignN,
   realisedResult |-> (filledQuantity(closing) * fill.price - entryWeighted(closing))
                        * Config.dollarsPerPoint,
   remainingUnits |-> Len(rest),
   aggregateOpenRiskAfter |-> AggregateOpenRisk(rest, Config.dollarsPerPoint)]

\* A standing add proposal goes with the units a stop closes, and the last units
\* take the campaign along.
applyStopFill(r, id, fill) ==
  LET c       == r.instruments[id].campaign
      closing == resolveUnits(c, ToSet(fill.unitIDs))
      rest    == removeUnits(c, ToSet(fill.unitIDs))
      closed ==
        [c EXCEPT !.closedQuantity = @ + filledQuantity(closing),
                  !.closedEntryWeightedSum = @ + entryWeighted(closing),
                  !.closedExitWeightedSum = @ + filledQuantity(closing) * fill.price,
                  !.lastCloseFillAt = fill.filledAt, !.units = rest]
      settle(q) ==
        IF rest = <<>>
        THEN emit([q EXCEPT !.instruments[id].campaign = None,
                            !.instruments[id].lastClosingFillAt = fill.filledAt],
                  campaignExited(id, c, fill, "stop", LowestProtectiveStop(unitStops(closing)),
                                 lifeAggregate(c, closing, fill.price)))
        ELSE Ok([q EXCEPT !.instruments[id].campaign.partiallyStopped = TRUE], <<>>)
  IN  IF stopFillRefused(c, fill) # NoError THEN Fail(r, stopFillRefused(c, fill))
      ELSE Then(emit(recordUnitsFreedThisSession(
                       recordAcceptedFill([r EXCEPT !.instruments[id].campaign = closed], fill),
                       id, Len(closing), fill.filledAt),
                     unitsStopped(id, c, closing, rest, fill)), LAMBDA r1 :
           Then(When(r1.instruments[id].pendingAddProposal # None, r1,
                     LAMBDA q : expireAddProposalForStop(q, id, fill)), settle))

\* An exit fill is of the standing exit proposal and of every share held.
exitFillRefused(s, fill) ==
  LET c == s.campaign
      p == s.pendingExitProposal
  IN  IF campaignFillRefused(c, fill) # NoError THEN campaignFillRefused(c, fill)
      ELSE IF p = None THEN "no exit proposal"
      ELSE IF p.proposalID # fill.proposalID THEN "another exit proposal"
      ELSE IF fill.quantity # filledQuantity(c.units) THEN "partial exit fill"
      ELSE IF closeRefused(c, fill) # NoError THEN closeRefused(c, fill)
      ELSE IF fill.filledAt <= p.earliestFillAt THEN "filled before it was proposed"
      ELSE IF protectiveStop(c) = Unusable THEN "no protective stop"
      ELSE NoError

\* An exit closes every unit together.
applyExitFill(r, id, fill) ==
  LET s == r.instruments[id]
      c == s.campaign
      q == recordUnitsFreedThisSession(recordAcceptedFill(r, fill), id, Len(c.units), fill.filledAt)
  IN  IF exitFillRefused(s, fill) # NoError THEN Fail(r, exitFillRefused(s, fill))
      ELSE emit([q EXCEPT !.instruments[id].campaign = None,
                          !.instruments[id].pendingExitProposal = None,
                          !.instruments[id].lastClosingFillAt = fill.filledAt],
                campaignExited(id, c, fill, "exit_channel", protectiveStop(c),
                               lifeAggregate(c, c.units, fill.price)))

\* An add fill is of the standing add proposal, of a campaign still building.
addFillRefused(s, fill) ==
  LET c == s.campaign
      p == s.pendingAddProposal
  IN  IF campaignFillRefused(c, fill) # NoError THEN campaignFillRefused(c, fill)
      ELSE IF c.partiallyStopped THEN "already coming off"
      ELSE IF Len(c.units) >= Config.maxUnits THEN "more than the maximum of units"
      ELSE IF p = None THEN "no add proposal"
      ELSE IF p.proposalID # fill.proposalID THEN "another add proposal"
      ELSE IF fill.quantity > p.quantity THEN "over-execution"
      ELSE IF fill.filledAt <= p.earliestFillAt THEN "filled before it was proposed"
      ELSE IF fill.filledAt < Last(c.units).filledAt THEN "before the unit before it"
      ELSE NoError

unitAdded(id, c, index, fill, n, stop) ==
  [type |-> "CampaignUnitAdded", decision |-> unitDecisionID("unit-added", index, <<>>, id, fill.filledAt),
   campaignID |-> c.campaignID, id |-> id, unitIndex |-> index, fillID |-> fill.fillID,
   fillPrice |-> fill.price, quantity |-> fill.quantity, n |-> n,
   protectiveStop |-> stop, units |-> Len(c.units) + 1, at |-> fill.filledAt]

\* Every earlier unit's stop goes up by N/2, each with its own decision.
raiseStops(r, id, c, raised, index, fill, n) ==
  LET raise(q, i) ==
        emit(q, stopSet(unitDecisionID("protective-stop-raised", c.units[i].index, <<index>>, id, fill.filledAt),
                        c.campaignID, id, c.units[i].index, "add_ladder", raised[i].protectiveStop,
                        c.units[i].protectiveStop, c.units[i].fillPrice, n, fill))
  IN  FoldLeft(LAMBDA res, i : Then(res, LAMBDA q : raise(q, i)), Ok(r, <<>>), [i \in DOMAIN c.units |-> i])

\* An add's fill brings the new unit and its stop and may chain into the next add.
applyAddFill(r, id, fill) ==
  LET s    == r.instruments[id]
      c    == s.campaign
      p    == s.pendingAddProposal
      n    == IF p.addN # 0 THEN p.addN ELSE c.campaignN
      stop == ProtectiveStopLevel(fill.price, n, Config.stopMultiple)
      raised == [i \in DOMAIN c.units |-> [c.units[i] EXCEPT !.protectiveStop = RaisedStop(@, n)]]
      unit == newUnit(p.unitIndex, fill, stop)
  IN  IF addFillRefused(s, fill) # NoError THEN Fail(r, addFillRefused(s, fill))
      ELSE IF stop = Unusable THEN Fail(r, "no protective stop")
      ELSE Then(emit(r, unitAdded(id, c, p.unitIndex, fill, n, stop)), LAMBDA r1 :
           Then(emit(r1, stopSet(unitDecisionID("protective-stop-set", p.unitIndex, <<>>, id, fill.filledAt),
                                 c.campaignID, id, p.unitIndex, "initial", stop, 0, fill.price, n, fill)), LAMBDA r2 :
           Then(raiseStops(r2, id, c, raised, p.unitIndex, fill, n), LAMBDA r3 :
           Then(exitOrderChanges(r3, c.campaignID, id, <<unit>> \o raised, s.pendingExitProposal,
                                 fill.filledAt, fill.fillID), LAMBDA r4 :
           Then(releaseHold(recordAcceptedFill(
                  [r4 EXCEPT !.instruments[id].campaign.units =
                                recordExitOrders(Append(raised, unit), c.campaignID, s.pendingExitProposal),
                             !.instruments[id].campaign.unitsOpened = @ + 1,
                             !.instruments[id].pendingAddProposal = None], fill), p.proposalID), LAMBDA r5 :
           evaluateAdd(debitFill(r5, fill), id, TRUE))))))

-----------------------------------------------------------------------------
\* A fill delivered again changes nothing; one that reuses an identity for other
\* contents is refused, like one for an order the reducer does not stand behind.
applyFill(r, fill) ==
  LET id == fill.id
      p  == r.instruments[id].pendingProposal
      c  == r.instruments[id].campaign
      entry == CASE c # None -> Fail(r, "campaign already open")
                 [] c = None /\ p = None -> Fail(r, "no pending proposal")
                 [] c = None /\ p # None /\ p.proposalID # fill.proposalID -> Fail(r, "another proposal")
                 [] OTHER -> IF fill.quantity > p.quantity THEN Fail(r, "over-execution")
                             ELSE IF fill.filledAt <= p.earliestFillAt
                             THEN Fail(r, "filled before it was proposed")
                             ELSE openCampaign(r, id, p, fill)
  IN  IF ~ ValidFill(fill) THEN Fail(r, "invalid fill")
      ELSE IF acceptedBefore(r, fill) THEN Ok(r, <<>>)
      ELSE IF \E f \in r.acceptedFills : f.fillID = fill.fillID THEN Fail(r, "fill identity reused")
      ELSE IF id \in DOMAIN r.delisted THEN Fail(r, "delisted")
      ELSE IF id \in DOMAIN r.renamed THEN Fail(r, "renamed")
      ELSE IF id \notin DOMAIN r.instruments THEN Fail(r, "instrument never evaluated")
      ELSE CASE fill.kind = "stop"  -> applyStopFill(r, id, fill)
             [] fill.kind = "exit"  -> applyExitFill(r, id, fill)
             [] fill.kind = "add"   -> applyAddFill(r, id, fill)
             [] fill.kind = "entry" -> entry

\* An execution cannot have happened after a bar that had not completed yet.
checkBarConfirmsCampaignOpening(s, bar) ==
  s.campaign = None \/ bar.periodEnd >= Last(s.campaign.units).filledAt

checkBarConfirmsCampaignClosing(s, bar) == bar.periodEnd >= s.lastClosingFillAt

\* The capital-safety invariant that halts the engine.
checkCampaignHasAProtectiveStop(s) ==
  s.campaign # None =>
    \A i \in DOMAIN s.campaign.units :
      ValidStopLevel(s.campaign.units[i].fillPrice, s.campaign.units[i].protectiveStop, "raised")
=============================================================================
