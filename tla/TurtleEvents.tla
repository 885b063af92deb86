---------------------------- MODULE TurtleEvents ----------------------------
(***************************************************************************)
(* The payloads of the turtle strategy and what their Validate methods     *)
(* demand (internal/event).  An invalid decision fails the handler that    *)
(* emits it.  Presence of an identity is # None, a time is present when it *)
(* is not 0; the rule and decision-record citations, currencies and texts  *)
(* are constants of the code and are left out.                             *)
(***************************************************************************)
EXTENDS Integers, Sequences, SequencesExt, TurtleConfig, Sizing

Present(x) == x # None

\* The cap of a buy, derived from its level.
validatePriceCap(orderType, priceCap, level, n) ==
  IF orderType = "stop_limit"
  THEN priceCap > 0 /\ priceCap >= level /\ priceCap = PriceCap(level, Config.gapBufferN, n)
  ELSE priceCap = 0

-----------------------------------------------------------------------------
\* What the reducer is given.

ValidBar(b) ==
  /\ b.periodEnd > 0
  /\ b.open > 0 /\ b.high > 0 /\ b.low > 0 /\ b.close > 0 /\ b.rawClose > 0 /\ b.volume >= 0
  /\ b.high >= b.low
  /\ b.open \in b.low..b.high
  /\ b.close \in b.low..b.high

ValidFill(f) ==
  /\ f.kind \in {"entry", "stop", "exit", "add"}
  /\ Present(f.proposalID) <=> f.kind # "stop"
  /\ Present(f.campaignID) <=> f.kind # "entry"
  /\ f.unitIDs # <<>> <=> f.kind = "stop"
  /\ \A i, j \in DOMAIN f.unitIDs : i # j => f.unitIDs[i] # f.unitIDs[j]
  /\ f.quantity > 0 /\ f.price > 0 /\ f.filledAt > 0 /\ f.level > 0
  /\ f.slippage >= 0 /\ f.commission >= 0

\* Fields of a snapshot: when, the account's equity and its spendable cash.
ValidSnapshot(s) == s.asOf > 0 /\ s.equity > 0 /\ s.availableCash >= 0

ValidCashMovement(m) ==
  m.asOf > 0 /\ m.amount # 0 /\ m.equityBefore > 0 /\ m.equityBefore + m.amount > 0

\* The terms of a split, a rename or a dividend; each kind has only its own.
splitRatioErrors(new, old, perRaw) == new < 1 \/ old < 1 \/ new = old \/ perRaw < 1

ValidCorporateAction(a) ==
  /\ a.effectiveAt > 0
  /\ \/ a.kind = "delisting"
     \/ /\ a.kind = "split" /\ ~ splitRatioErrors(a.newShares, a.oldShares, a.enginePerRaw)
        /\ a.rawSharesLost >= 0 /\ a.cashInLieu >= 0
        /\ a.rawSharesLost > 0 => a.cashInLieu > 0
     \/ a.kind = "symbol_change" /\ Present(a.newID) /\ a.newID # a.id
     \/ a.kind = "dividend" /\ a.cashAmount > 0

ValidClassification(c) ==
  c.effectiveAt > 0 /\ c.classification \in {"common_stock", "etf", "adr", "spac"}

-----------------------------------------------------------------------------
\* What it decides.

tierMatches(tier, distance) ==
  CASE tier = "A" -> distance[1] < 0
    [] tier = "B" -> distance[1] >= 0
    [] OTHER      -> distance[1] > 0

SetupEvaluatedPayload(p) ==
  /\ p.at > 0 /\ p.n >= 0
  /\ p.nReady => p.n > 0
  /\ p.entryChannelReady <=> p.entryChannelHigh > 0
  /\ p.tier \in {"A", "B", "none"}
  /\ IF p.nReady /\ p.entryChannelReady THEN tierMatches(p.tier, p.distanceToEntryInN)
     ELSE p.tier = "none" /\ p.distanceToEntryInN[1] = 0

SignalPayload(p) ==
  p.at > 0 /\ p.entryChannelHigh > 0 /\ p.breakoutHigh > p.entryChannelHigh /\ p.n > 0

\* Truncation may only ever risk less than the budget.
withinRiskBudget(quantity, n, notional) ==
  IF Config.sizingMode = "volatility-normalised"
  THEN quantity * n * Config.dollarsPerPoint * Config.unitVolatilityFraction[2]
         <= notional * Config.unitVolatilityFraction[1]
  ELSE quantity * Config.stopMultiple[1] * n * Config.dollarsPerPoint * Config.riskAtStopFraction[2]
         <= notional * Config.riskAtStopFraction[1] * Config.stopMultiple[2]

TradeProposalPayload(p) ==
  /\ p.at > 0 /\ Present(p.signalID)
  /\ p.quantity > 0 /\ p.entryLevel > 0 /\ p.n > 0 /\ p.notionalAccount > 0
  /\ p.protectiveStopIntent > 0 /\ p.protectiveStopIntent < p.entryLevel
  /\ p.protectiveStopIntent = p.entryLevel - Product(Config.stopMultiple, p.n)
  /\ validatePriceCap(p.orderType, p.priceCap, p.entryLevel, p.n)
  /\ withinRiskBudget(p.quantity, p.n, p.notionalAccount)

DeclineReasons ==
  {"n_not_ready", "quantity_below_one_unit", "stop_intent_not_positive", "insufficient_cash",
   "unit_cap_exceeded", "insufficient_history", "ineligible"}

ProposalDeclinedPayload(p) ==
  /\ p.at > 0
  /\ Present(p.signalID) <=> p.kind = "entry"
  /\ Present(p.campaignID) <=> p.kind = "add"
  /\ p.reason \in DeclineReasons
  /\ IF p.reason = "insufficient_cash" THEN p.requiredCash >= 0 /\ p.requiredCash > p.availableCash
     ELSE p.requiredCash = 0 /\ p.availableCash = 0
  /\ IF p.reason = "unit_cap_exceeded" THEN p.capLimit > 0 /\ p.postTradeExposure > p.capLimit
     ELSE p.cap = "none" /\ p.capLimit = 0 /\ p.postTradeExposure = 0
  /\ (p.kind = "add" \/ p.reason \in {"insufficient_history", "ineligible"}) => p.strength[1] = 0

ProposalExpiredPayload(p) ==
  /\ Present(p.proposalID)
  /\ Present(p.signalID) <=> p.kind = "entry"
  /\ p.periodEnd > 0 /\ p.at > p.earliestFillAt
  /\ p.reason = "superseded_by_next_bar" => p.at > p.periodEnd
  /\ p.reason = "input_stream_ended" => p.at >= p.periodEnd
  /\ p.reason = "superseded_by_stop" => p.kind = "add"
  /\ p.quantity > 0 /\ p.level > 0

CampaignOpenedPayload(p) ==
  /\ Present(p.proposalID) /\ Present(p.signalID) /\ p.at > 0
  /\ p.campaignN > 0 /\ p.filledQuantity > 0 /\ p.filledQuantity <= p.unitQuantity
  /\ ValidStopLevel(p.entryPrice, p.protectiveStop, "initial")
  /\ p.protectiveStop = p.entryPrice - Product(Config.stopMultiple, p.campaignN)

ProtectiveStopSetPayload(p) ==
  /\ Present(p.campaignID) /\ p.unitIndex >= 1 /\ p.at > 0 /\ p.n > 0 /\ p.level > 0
  /\ p.previousLevel > 0 => p.previousLevel < p.level
  /\ \/ /\ p.reason = "initial" /\ p.previousLevel = 0
        /\ ValidStopLevel(p.entryPrice, p.level, "initial")
        /\ p.level = p.entryPrice - Product(Config.stopMultiple, p.n)
     \/ /\ p.reason = "add_ladder" /\ p.previousLevel > 0
        /\ ValidStopLevel(p.entryPrice, p.level, "raised")
        /\ p.level = RaisedStop(p.previousLevel, p.n)

ExitOrderSetPayload(p) ==
  /\ Present(p.campaignID) /\ p.unitIndex >= 1 /\ p.quantity > 0 /\ p.at > 0
  /\ p.protectiveStop > 0 /\ p.exitChannelLevel >= 0
  /\ IF p.exitChannelLevel > p.protectiveStop
     THEN p.level = p.exitChannelLevel /\ p.source = "exit_channel"
     ELSE p.level = p.protectiveStop /\ p.source = "protective_stop"

CampaignEvaluatedPayload(p) ==
  /\ Present(p.campaignID) /\ p.at > 0 /\ p.units # <<>> /\ p.notionalAccount > 0
  /\ \A i \in DOMAIN p.units :
       /\ p.units[i].quantity > 0
       /\ ValidStopLevel(p.units[i].fillPrice, p.units[i].protectiveStop, "raised")
       /\ i > 1 => p.units[i - 1].index < p.units[i].index
  /\ p.protectiveStop = LowestProtectiveStop({p.units[i].protectiveStop : i \in DOMAIN p.units})
  /\ p.exitChannelReady <=> p.exitChannelLow > 0
  /\ p.exitConditionMet => p.exitChannelReady
  /\ p.aggregateOpenRisk = AggregateOpenRisk(p.units, Config.dollarsPerPoint)

ExitProposalPayload(p) == Present(p.campaignID) /\ p.at > 0 /\ p.level > 0 /\ p.quantity > 0

\* EffectiveN: the N an add was measured with, its own or its campaign's.
EffectiveN(addN, campaignN) == IF addN # 0 THEN addN ELSE campaignN

AddProposalPayload(p) ==
  /\ Present(p.campaignID) /\ p.at > 0 /\ p.addN >= 0 /\ p.validForSessions \in {1, 2}
  /\ p.unitIndex >= 2 /\ p.quantity > 0 /\ p.previousUnitFill > 0 /\ p.campaignN > 0
  /\ p.level = NextAddLevel(p.previousUnitFill, EffectiveN(p.addN, p.campaignN))
  /\ validatePriceCap(p.orderType, p.priceCap, p.level, EffectiveN(p.addN, p.campaignN))

CampaignUnitAddedPayload(p) ==
  /\ Present(p.campaignID) /\ p.at > 0 /\ p.unitIndex >= 2 /\ p.units = p.unitIndex
  /\ p.fillPrice > 0 /\ p.quantity > 0 /\ p.n > 0
  /\ p.protectiveStop > 0 /\ p.protectiveStop < p.fillPrice
  /\ p.protectiveStop = p.fillPrice - Product(Config.stopMultiple, p.n)

CampaignUnitsStoppedPayload(p) ==
  /\ Present(p.campaignID) /\ p.at > 0 /\ p.unitIndexes # <<>>
  /\ \A i \in DOMAIN p.unitIndexes :
       p.unitIndexes[i] >= 1 /\ (i > 1 => p.unitIndexes[i - 1] < p.unitIndexes[i])
  /\ p.fillPrice > 0 /\ p.quantityClosed > 0 /\ p.entrySum > 0 /\ p.campaignN > 0
  /\ p.realisedResult = (p.quantityClosed * p.fillPrice - p.entrySum) * Config.dollarsPerPoint
  /\ p.remainingUnits >= 0 /\ p.aggregateOpenRiskAfter >= 0
  /\ p.remainingUnits = 0 => p.aggregateOpenRiskAfter = 0

CampaignExitedPayload(p) ==
  /\ Present(p.campaignID) /\ p.at > 0 /\ p.reason \in {"stop", "exit_channel", "delisting"}
  /\ p.quantity > 0 /\ p.entrySum > 0 /\ p.exitSum > 0 /\ p.unitQuantity > 0 /\ p.campaignN > 0
  /\ p.protectiveStopLevel > 0 /\ p.units > 0
  /\ p.realisedResult = (p.exitSum - p.entrySum) * Config.dollarsPerPoint

UniverseEligibilityPayload(p) ==
  p.at > 0 /\ (p.result.eligible <=> /\ p.result.classification /\ p.result.price
                                     /\ p.result.volume /\ p.result.history)

\* No instrument twice, tiers that match their distances, strongest first.
WatchlistPublishedPayload(p) ==
  /\ p.at > 0
  /\ \A i \in DOMAIN p.entries :
       /\ p.entries[i].tier \in {"A", "B"} /\ tierMatches(p.entries[i].tier, p.entries[i].distance)
       /\ \A j \in 1..(i - 1) :
            /\ p.entries[j].id # p.entries[i].id
            /\ p.entries[i].strength[1] * p.entries[j].strength[2]
                 <= p.entries[j].strength[1] * p.entries[i].strength[2]

DrawdownStepAppliedPayload(p) ==
  /\ p.at > 0 /\ p.equity > 0 /\ p.threshold > 0 /\ p.stepNumber >= 1
  /\ p.notionalAfter > 0 /\ p.notionalAfter < p.notionalBefore
  /\ p.notionalAfter = DrawdownSteppedNotional(p.notionalBefore)
  /\ p.equity <= p.threshold

NotionalAccountRebasedPayload(p) ==
  p.at > 0 /\ p.previousStartingFigure > 0 /\ p.equity > 0 /\ p.newStartingFigure = p.equity

NotionalAccountRecoveredPayload(p) ==
  /\ p.at > 0 /\ p.notionalBefore > 0 /\ p.notionalBefore < p.startingFigure
  /\ p.equity >= p.startingFigure /\ p.stepsCleared >= 1

NotionalAccountCashAdjustedPayload(p) ==
  /\ p.at > 0 /\ p.amount # 0 /\ p.equityBefore > 0 /\ p.equityAfter > 0
  /\ p.equityAfter = p.equityBefore + p.amount
  /\ p.startingFigureAfter > 0 /\ p.notionalAfter > 0
  /\ p.startingFigureAfter = CashMovementScaledFigure(p.startingFigureBefore, p.equityBefore, p.equityAfter)
  /\ p.notionalAfter = CashMovementScaledFigure(p.notionalBefore, p.equityBefore, p.equityAfter)

CampaignCashInLieuPayload(p) ==
  /\ Present(p.campaignID) /\ p.at > 0 /\ p.perRaw >= 1 /\ p.rawSharesLost >= 0 /\ p.cashInLieu > 0
  /\ Len(p.reductions) = p.rawSharesLost
  /\ \A i \in DOMAIN p.reductions :
       /\ p.reductions[i].quantityAfter >= 1
       /\ p.reductions[i].quantityBefore - p.reductions[i].quantityAfter = p.perRaw
       /\ i > 1 => p.reductions[i - 1].unitIndex > p.reductions[i].unitIndex
  /\ p.quantityAfter >= 1 /\ p.quantityBefore - p.quantityAfter = p.rawSharesLost * p.perRaw

CampaignDividendPayload(p) == Present(p.campaignID) /\ p.at > 0 /\ p.cashAmount > 0

InstrumentSymbolChangedPayload(p) == p.at > 0 /\ Present(p.newID) /\ p.newID # p.id

-----------------------------------------------------------------------------
\* The Validate method of whatever payload a decision carries.
Valid(e) ==
  CASE e.type = "SetupEvaluated"       -> SetupEvaluatedPayload(e)
    [] e.type = "Signal"               -> SignalPayload(e)
    [] e.type = "TradeProposal"        -> TradeProposalPayload(e)
    [] e.type = "ProposalDeclined"     -> ProposalDeclinedPayload(e)
    [] e.type = "ProposalExpired"      -> ProposalExpiredPayload(e)
    [] e.type = "CampaignOpened"       -> CampaignOpenedPayload(e)
    [] e.type = "ProtectiveStopSet"    -> ProtectiveStopSetPayload(e)
    [] e.type = "ExitOrderSet"         -> ExitOrderSetPayload(e)
    [] e.type = "CampaignEvaluated"    -> CampaignEvaluatedPayload(e)
    [] e.type = "ExitProposal"         -> ExitProposalPayload(e)
    [] e.type = "AddProposal"          -> AddProposalPayload(e)
    [] e.type = "CampaignUnitAdded"    -> CampaignUnitAddedPayload(e)
    [] e.type = "CampaignUnitsStopped" -> CampaignUnitsStoppedPayload(e)
    [] e.type = "CampaignExited"       -> CampaignExitedPayload(e)
    [] e.type = "UniverseEligibility"  -> UniverseEligibilityPayload(e)
    [] e.type = "WatchlistPublished"   -> WatchlistPublishedPayload(e)
    [] e.type = "DrawdownStepApplied"  -> DrawdownStepAppliedPayload(e)
    [] e.type = "NotionalAccountRebased"      -> NotionalAccountRebasedPayload(e)
    [] e.type = "NotionalAccountRecovered"    -> NotionalAccountRecoveredPayload(e)
    [] e.type = "NotionalAccountCashAdjusted" -> NotionalAccountCashAdjustedPayload(e)
    [] e.type = "CampaignCashInLieu"      -> CampaignCashInLieuPayload(e)
    [] e.type = "CampaignDividend"        -> CampaignDividendPayload(e)
    [] e.type = "InstrumentSymbolChanged" -> InstrumentSymbolChangedPayload(e)
=============================================================================
