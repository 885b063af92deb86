---------------------------- MODULE TurtleSession ----------------------------
(***************************************************************************)
(* A trading session of the turtle reducer: bars of one period end arrive  *)
(* per instrument (reducer.go), and the session's close ranks the signals  *)
(* they raised and sizes units in that order (session.go), after the       *)
(* universe (universe.go) and the watchlist (watchlist.go).                *)
(***************************************************************************)
EXTENDS TurtleCampaign

CONSTANT Month(_)     \* the calendar month a period end falls in

\* An instrument the gate leaves out is not a candidate for a new campaign.
universeGateOn == Config.universeMinPrice > 0

universeIneligible(r, id) ==
  universeGateOn /\ r.instruments[id].universe # "eligible"

-----------------------------------------------------------------------------
sessionRefused(r, bar) ==
  IF r.sessionOpen THEN bar.periodEnd # r.sessionPeriodEnd
  ELSE r.lastClosedSession # 0 /\ bar.periodEnd <= r.lastClosedSession

\* The first bar after a close opens the next session.
admitToSession(r, bar) ==
  IF r.sessionOpen THEN r
  ELSE [r EXCEPT !.sessionOpen = TRUE, !.sessionPeriodEnd = bar.periodEnd, !.sessionGeneration = @ + 1]

\* A delisted instrument's bar is only counted, once a session.
admitDelistedBar(r, bar) ==
  IF bar.id \in ToSet(r.sessionDelistedBars) THEN Fail(r, "two bars in a session")
  ELSE Ok([r EXCEPT !.sessionDelistedBars = Append(@, bar.id)], <<>>)

barRefused(r, bar) ==
  LET s == stateFor(r, bar.id).instruments[bar.id] IN
  IF bar.id \in DOMAIN r.renamed THEN "renamed"
  ELSE IF s.lastPeriodEnd # 0 /\ bar.periodEnd <= s.lastPeriodEnd THEN "bar out of order"
  ELSE IF ~ checkBarConfirmsCampaignOpening(s, bar) THEN "fill after the bar"
  ELSE IF ~ checkBarConfirmsCampaignClosing(s, bar) THEN "fill after the bar"
  ELSE IF ~ checkCampaignHasAProtectiveStop(s) THEN "campaign without a protective stop"
  ELSE NoError

\* Every reading takes the bar, and what later decisions of this bar use is kept.
recordBar(r, bar, tr, decisionN) ==
  LET s == r.instruments[bar.id] IN
  [r EXCEPT !.instruments[bar.id] =
     [s EXCEPT !.n = WilderAdd(@, tr),
               !.highs = push(@, bar.high, Config.entryChannelLength),
               !.lows = push(@, bar.low, Config.exitChannelLength),
               !.previousClose = bar.close, !.lastPeriodEnd = bar.periodEnd,
               !.splitAdjustedCloses = push(@, bar.close, StrengthLookbackBars + 1),
               !.rawCloses = push(@, bar.rawClose, DollarVolumeWindow),
               !.rawVolumes = push(@, bar.volume, DollarVolumeWindow),
               !.completedBars = @ + 1,
               !.lastBarN = decisionN, !.lastBarHigh = bar.high,
               !.lastBarPeriodEnd = bar.periodEnd, !.lastBarEarliestFillAt = s.lastPeriodEnd]]

\* Mutant of expireProposals: a proposal stands until it is filled.
MutantGoodTillFilled(r, id, at) == Ok(r, <<>>)

\* Proposals of the bar before end here, except an add proposed from a fill.
expireProposals(r, id, at) ==
  Then(When(r.instruments[id].pendingProposal # None, r,
            LAMBDA q : expireEntryProposal(q, id, at)), LAMBDA r1 :
  Then(When(r1.instruments[id].pendingExitProposal # None, r1,
            LAMBDA q : expireExitProposal(q, id, at)), LAMBDA r2 :
  LET p == r2.instruments[id].pendingAddProposal IN
  IF p = None THEN Ok(r2, <<>>)
  ELSE IF p.survivesNextBar /\ r2.instruments[id].campaign # None
  THEN Ok([r2 EXCEPT !.instruments[id].pendingAddProposal.survivesNextBar = FALSE], <<>>)
  ELSE expireAddProposal(r2, id, at)))

\* In a campaign: where it stands; an exit proposal takes an add's place, and
\* exit orders follow.  The add itself waits for the session's close.
barInCampaign(r, bar, exitChannel, previousPeriodEnd) ==
  LET id == bar.id IN
  Then(evaluateCampaign(r, bar, exitChannel, previousPeriodEnd), LAMBDA r1 :
  Then(When(r1.instruments[id].pendingAddProposal # None /\ r1.instruments[id].pendingExitProposal # None,
            r1, LAMBDA q : expireAddProposal(q, id, bar.periodEnd)), LAMBDA r2 :
  Then(emitExitOrderChanges(r2, id, bar.periodEnd, <<>>), LAMBDA r3 :
  Ok([r3 EXCEPT !.instruments[id].addDue = r3.instruments[id].pendingExitProposal = None], <<>>))))

\* Out of a campaign: the setup, and on a breakout a signal to rank at the close.
barOutOfCampaign(r, bar, decisionN, nReady, entryChannel, previousPeriodEnd) ==
  LET id       == bar.id
      ready    == nReady /\ entryChannel.ready
      distance == IF ready THEN <<entryChannel.value - bar.high, decisionN>> ELSE <<0, 1>>
      tier     == CASE ready /\ bar.high > entryChannel.value -> "A"
                    [] ready /\ distance[1] >= 0
                       /\ distance[1] * Config.tierBDistanceInN[2]
                            <= Config.tierBDistanceInN[1] * distance[2] -> "B"
                    [] OTHER -> "none"
      sid      == decisionID("signal", id, bar.periodEnd)
      setup ==
        [type |-> "SetupEvaluated", decision |-> decisionID("setup-evaluated", id, bar.periodEnd),
         id |-> id, at |-> bar.periodEnd, n |-> decisionN, nReady |-> nReady,
         entryChannelHigh |-> IF entryChannel.ready THEN entryChannel.value ELSE 0,
         entryChannelReady |-> entryChannel.ready, tier |-> tier, distanceToEntryInN |-> distance]
      signal ==
        [type |-> "Signal", decision |-> sid, id |-> id, at |-> bar.periodEnd,
         entryChannelHigh |-> entryChannel.value, breakoutHigh |-> bar.high, n |-> decisionN]
      pending ==
        [signalID |-> sid, periodEnd |-> bar.periodEnd, entryLevel |-> entryChannel.value,
         n |-> decisionN, nReady |-> nReady, earliestFillAt |-> previousPeriodEnd]
      noted == [r EXCEPT !.instruments[id].lastSetupTier = tier,
                         !.instruments[id].lastSetupDistanceToEntryInN = distance,
                         !.instruments[id].lastSetupPeriodEnd = bar.periodEnd]
  IN  Then(emit(noted, setup), LAMBDA q :
        When(tier = "A", q, LAMBDA p :
          emit([p EXCEPT !.instruments[id].pendingSignal = pending], signal)))

\* Decisions of a bar use N and the channels as they stood before it.
applyCompletedBar(r, bar) ==
  LET r1   == stateFor(admitToSession(r, bar), bar.id)
      s    == r1.instruments[bar.id]
      decisionN    == s.n.value
      nReady       == WilderReady(s.n) /\ decisionN > 0
      entryChannel == EntryExtreme(s.highs, Config.entryChannelLength)
      exitChannel  == ExitExtreme(s.lows, Config.exitChannelLength)
      tr   == TrueRange(bar.high, bar.low, s.previousClose)
  IN  IF ~ ValidBar(bar) THEN Fail(r, "invalid bar")
      ELSE IF sessionRefused(r, bar) THEN Fail(r, "bar of another session")
      ELSE IF bar.id \in DOMAIN r.delisted THEN admitDelistedBar(admitToSession(r, bar), bar)
      ELSE IF barRefused(r1, bar) # NoError THEN Fail(r, barRefused(r1, bar))
      ELSE Then(expireProposals(recordBar(r1, bar, tr, decisionN), bar.id, bar.periodEnd), LAMBDA r2 :
           IF r2.instruments[bar.id].campaign # None
           THEN barInCampaign(r2, bar, exitChannel, s.lastPeriodEnd)
           ELSE barOutOfCampaign(r2, bar, decisionN, nReady, entryChannel, s.lastPeriodEnd))

-----------------------------------------------------------------------------
\* Sizing a ranked signal, or saying why not.

entryDeclined(id, signal, reason, strength) ==
  [type |-> "ProposalDeclined", kind |-> "entry",
   decision |-> decisionID("proposal-declined", id, signal.periodEnd),
   id |-> id, at |-> signal.periodEnd, signalID |-> signal.signalID, campaignID |-> None,
   reason |-> reason, requiredCash |-> 0, availableCash |-> 0,
   cap |-> "none", capLimit |-> 0, postTradeExposure |-> 0, strength |-> strength]

declineCap(id, signal, cap, strength) ==
  [entryDeclined(id, signal, "unit_cap_exceeded", strength) EXCEPT
     !.cap = cap.cap, !.capLimit = cap.limit, !.postTradeExposure = cap.exposure]

\* The proposal just emitted stands until the next bar, with the figures it froze.
rememberPendingProposal(r, p, earliestFillAt) ==
  [r EXCEPT !.instruments[p.id].pendingProposal =
     [proposalID |-> p.decision, signalID |-> p.signalID, periodEnd |-> p.at,
      earliestFillAt |-> earliestFillAt, quantity |-> p.quantity, n |-> p.n,
      entryLevel |-> p.entryLevel, sizingAccount |-> p.notionalAccount]]

sizeUnit(r, id, signal, strength) ==
  LET quantity == SizeUnit(Config, r.notional.current, Config.stopMultiple, signal.n)
      intent   == signal.entryLevel - Product(Config.stopMultiple, signal.n)
      cap      == capExceeded(r, id)
      cash     == cashAtPreviousClose(r, signal.earliestFillAt)
      hold     == buyHold(quantity, signal.entryLevel, signal.n)
      pid      == decisionID("proposal", id, signal.periodEnd)
      decline(reason) == emit(r, entryDeclined(id, signal, reason, strength))
      proposal ==
        [type |-> "TradeProposal", decision |-> pid, id |-> id, at |-> signal.periodEnd,
         signalID |-> signal.signalID, entryLevel |-> signal.entryLevel, quantity |-> quantity,
         n |-> signal.n, notionalAccount |-> r.notional.current, protectiveStopIntent |-> intent,
         orderType |-> Config.buyOrderType, priceCap |-> hold.priceCap, strength |-> strength]
  IN  IF ~ signal.nReady THEN decline("n_not_ready")
      ELSE IF quantity = Unusable THEN Fail(r, "no unit size")
      ELSE IF quantity <= 0 THEN decline("quantity_below_one_unit")
      ELSE IF intent <= 0 THEN decline("stop_intent_not_positive")
      ELSE IF cap # None THEN emit(r, declineCap(id, signal, cap, strength))
      ELSE IF cash.err # NoError THEN Fail(r, cash.err)
      ELSE IF hold.cost > cash.cash THEN
        emit(r, [entryDeclined(id, signal, "insufficient_cash", strength) EXCEPT
                   !.requiredCash = hold.cost, !.availableCash = cash.cash])
      ELSE Then(emit(rememberPendingProposal(r, proposal, signal.earliestFillAt), proposal),
                LAMBDA q : placeHold(q, pid, id, hold.cost))

-----------------------------------------------------------------------------
\* Ranking: by strength, then dollar volume, then identity; None without the
\* history to rank by.
rankSignal(r, id) ==
  LET s == r.instruments[id]
      strength == Strength(s.splitAdjustedCloses, s.n.value)
      volume   == MedianDollarVolume(s.rawCloses, s.rawVolumes)
  IN  IF WilderReady(s.n) /\ s.n.value > 0 /\ strength.ready /\ volume.ready
      THEN [id |-> id, strength |-> strength.value, dollarVolume |-> volume.value]
      ELSE None

rankSignals(rankings) ==
  SetToSortSeq(rankings, LAMBDA a, b :
    LET x == a.strength[1] * b.strength[2]
        y == b.strength[1] * a.strength[2]
    IN  \/ x > y
        \/ x = y /\ a.dollarVolume > b.dollarVolume
        \/ x = y /\ a.dollarVolume = b.dollarVolume /\ a.id < b.id)

sessionLiveInstruments(r) ==
  SelectSeq(instrumentIDs(r), LAMBDA id : r.instruments[id].lastPeriodEnd = r.sessionPeriodEnd)

checkSessionNamesItsBars(r, named) ==
  named = ToSet(sessionLiveInstruments(r)) \union ToSet(r.sessionDelistedBars)

emitWatchlist(r, live) ==
  LET candidates == {id \in ToSet(live) :
                       /\ r.instruments[id].lastSetupTier # "none"
                       /\ r.instruments[id].lastSetupPeriodEnd = r.sessionPeriodEnd
                       /\ ~ universeIneligible(r, id)
                       /\ rankSignal(r, id) # None}
      ranked == rankSignals({rankSignal(r, id) : id \in candidates})
  IN  emit(r, [type |-> "WatchlistPublished", decision |-> decisionID("watchlist", 0, r.sessionPeriodEnd),
               at |-> r.sessionPeriodEnd,
               entries |-> [i \in DOMAIN ranked |->
                  [id |-> ranked[i].id, tier |-> r.instruments[ranked[i].id].lastSetupTier,
                   distance |-> r.instruments[ranked[i].id].lastSetupDistanceToEntryInN,
                   strength |-> ranked[i].strength]]])

-----------------------------------------------------------------------------
\* The baseline universe is evaluated with the first session of a month, and
\* with the session in which a declared classification takes effect.
universeEvaluate(s, classification) ==
  LET price  == IF s.rawCloses = <<>> THEN 0 ELSE Last(s.rawCloses)
      volume == MedianDollarVolume(s.rawCloses, s.rawVolumes)
      result == [classification |-> classification = "common_stock",
                 price |-> price >= Config.universeMinPrice,
                 volume |-> volume.ready /\ volume.value >= Config.universeMinDollarVolume,
                 history |-> s.completedBars >= Config.universeMinHistoryBars]
  IN  result @@ [eligible |-> \A k \in DOMAIN result : result[k]]

firstOfMonth(r) ==
  r.lastClosedSession = 0 \/ Month(r.lastClosedSession) # Month(r.sessionPeriodEnd)

\* Pending declarations that have taken effect become the active one.
activate(record, at) ==
  LET due == SelectSeq(record.pending, LAMBDA p : p.effectiveAt <= at)
  IN  IF due = <<>> THEN record
      ELSE [active |-> Last(due).classification, activeEffectiveAt |-> Last(due).effectiveAt,
            pending |-> SubSeq(record.pending, Len(due) + 1, Len(record.pending)),
            pendingEvaluation |-> TRUE]

evaluateUniverse(r) ==
  LET evaluate(q, id) ==
        LET record == activate(q.classifications[id], q.sessionPeriodEnd)
            q1     == stateFor(q, id)
            result == universeEvaluate(q1.instruments[id], record.active)
        IN  IF record.activeEffectiveAt = 0 \/ ~ (record.pendingEvaluation \/ firstOfMonth(q))
            THEN Ok([q EXCEPT !.classifications[id] = record], <<>>)
            ELSE emit([q1 EXCEPT !.classifications[id] = [record EXCEPT !.pendingEvaluation = FALSE],
                                 !.instruments[id].universe = IF result.eligible THEN "eligible" ELSE "ineligible"],
                      [type |-> "UniverseEligibility",
                       decision |-> decisionID("universe-eligibility", id, q.sessionPeriodEnd),
                       id |-> id, at |-> q.sessionPeriodEnd, result |-> result])
  IN  IF ~ universeGateOn THEN Ok(r, <<>>)
      ELSE FoldLeft(LAMBDA res, id : Then(res, LAMBDA q : evaluate(q, id)),
                    Ok(r, <<>>), SetToSortSeq(DOMAIN r.classifications, <))

\* A declaration waits for the session it takes effect in; one may not be
\* restated out of order.
applyInstrumentClassification(r, id, classification, effectiveAt) ==
  LET record == IF id \in DOMAIN r.classifications THEN r.classifications[id]
                ELSE [active |-> "none", activeEffectiveAt |-> 0, pending |-> <<>>, pendingEvaluation |-> FALSE]
      lastDeclared == IF record.pending = <<>> THEN record.activeEffectiveAt
                      ELSE Last(record.pending).effectiveAt
      restated == [record EXCEPT !.pending = Append(@, [classification |-> classification, effectiveAt |-> effectiveAt])]
  IN  IF effectiveAt < lastDeclared THEN Fail(r, "classification out of order")
      ELSE Ok([r EXCEPT !.classifications = (id :> restated) @@ @], <<>>)

-----------------------------------------------------------------------------
\* The close of a session: universe, watchlist, adds, then the signals.
applySessionClosed(r, periodEnd, named) ==
  LET live == sessionLiveInstruments(r)
      add(q, id) ==
        LET s == q.instruments[id]
            p == [q EXCEPT !.instruments[id].addDue = FALSE]
        IN  IF ~ s.addDue THEN Ok(q, <<>>)
            ELSE IF s.campaign = None \/ s.pendingExitProposal # None THEN Ok(p, <<>>)
            ELSE evaluateAdd(p, id, FALSE)
      \* A signal that may not be ranked is declined before any is sized.
      filter(q, id, reason) ==
        LET signal == q.instruments[id].pendingSignal
        IN  emit([q EXCEPT !.instruments[id].pendingSignal = None],
                 entryDeclined(id, signal, reason, <<0, 1>>))
      ineligible(q, id) ==
        When(q.instruments[id].pendingSignal # None /\ universeIneligible(q, id), q,
             LAMBDA p : filter(p, id, "ineligible"))
      unranked(q, id) ==
        When(q.instruments[id].pendingSignal # None /\ rankSignal(q, id) = None, q,
             LAMBDA p : filter(p, id, "insufficient_history"))
      size(q, ranking) ==
        LET signal == q.instruments[ranking.id].pendingSignal
        IN  sizeUnit([q EXCEPT !.instruments[ranking.id].pendingSignal = None],
                     ranking.id, signal, ranking.strength)
      rankings(q) == {rankSignal(q, id) : id \in {i \in ToSet(live) : q.instruments[i].pendingSignal # None}}
      each(q, ids, F(_, _)) ==
        FoldLeft(LAMBDA res, id : Then(res, LAMBDA p : F(p, id)), Ok(q, <<>>), ids)
      closed(q) == [q EXCEPT !.sessionOpen = FALSE, !.lastClosedSession = q.sessionPeriodEnd,
                             !.sessionPeriodEnd = 0, !.sessionDelistedBars = <<>>]
  IN  IF ~ r.sessionOpen THEN Fail(r, "no session open")
      ELSE IF periodEnd # r.sessionPeriodEnd THEN Fail(r, "another session")
      ELSE IF ~ checkSessionNamesItsBars(r, named) THEN Fail(r, "session does not name its bars")
      ELSE Then(evaluateUniverse(r), LAMBDA r1 :
           Then(emitWatchlist(r1, live), LAMBDA r2 :
           Then(each(r2, live, add), LAMBDA r3 :
           Then(each(r3, live, ineligible), LAMBDA r4 :
           Then(each(r4, live, unranked), LAMBDA r5 :
           Then(each(r5, rankSignals(rankings(r5)), size), LAMBDA r6 :
           Ok(closed(r6), <<>>)))))))
=============================================================================
