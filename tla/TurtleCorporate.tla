--------------------------- MODULE TurtleCorporate ---------------------------
(***************************************************************************)
(* What happens to an instrument from outside its bars: delisting.go,      *)
(* split.go, dividend.go, symbol_change.go, and the end of the stream      *)
(* (end_of_stream.go, run_stopped.go).                                     *)
(***************************************************************************)
EXTENDS TurtleCampaign

barReceivedInOpenSession(r, id) ==
  r.sessionOpen /\ id \in DOMAIN r.instruments
    /\ r.instruments[id].lastPeriodEnd = r.sessionPeriodEnd

\* latestFillAt: the last fill a campaign has seen.
latestFillAt(c) == Max({Last(c.units).filledAt, c.lastCloseFillAt})

hasOutstandingBusiness(s) ==
  \/ s.campaign # None \/ s.pendingProposal # None
  \/ s.pendingExitProposal # None \/ s.pendingAddProposal # None

\* Every proposal still outstanding is closed out: exit, add, entry.
closeOutProposals(r, id, at, kinds, reason) ==
  LET s == r.instruments[id]
      expired(q, kind, p, level, signalID) ==
        emit(q, proposalExpired(kind, decisionID(kinds[kind], id, at), id, p, level, signalID, at, reason))
  IN  Then(When(s.pendingExitProposal # None, r, LAMBDA q :
             expired([q EXCEPT !.instruments[id].pendingExitProposal = None],
                     "exit", s.pendingExitProposal, s.pendingExitProposal.level, None)), LAMBDA r1 :
      Then(When(s.pendingAddProposal # None, r1, LAMBDA q :
             Then(releaseHold([q EXCEPT !.instruments[id].pendingAddProposal = None],
                              s.pendingAddProposal.proposalID), LAMBDA p :
                  expired(p, "add", s.pendingAddProposal, s.pendingAddProposal.level, None))), LAMBDA r2 :
      When(s.pendingProposal # None, r2, LAMBDA q :
             Then(releaseHold([q EXCEPT !.instruments[id].pendingProposal = None],
                              s.pendingProposal.proposalID), LAMBDA p :
                  expired(p, "entry", s.pendingProposal, s.pendingProposal.entryLevel,
                          s.pendingProposal.signalID)))))

delistingExpiry == [exit  |-> "exit-proposal-expired-by-delisting",
                    add   |-> "add-proposal-expired-by-delisting",
                    entry |-> "entry-proposal-expired-by-delisting"]

endOfStreamExpiry == [exit  |-> "exit-proposal-expired-at-end-of-stream",
                      add   |-> "add-proposal-expired-at-end-of-stream",
                      entry |-> "proposal-expired-at-end-of-stream"]

\* The campaign of a delisted instrument ends at the last close anyone saw.
closeCampaignForDelisting(r, id, a) ==
  LET s    == r.instruments[id]
      c    == s.campaign
      fill == [fillID |-> a.actionID, filledAt |-> a.effectiveAt]
  IN  IF closeRefused(c, fill) # NoError THEN Fail(r, closeRefused(c, fill))
      ELSE IF protectiveStop(c) = Unusable THEN Fail(r, "no protective stop")
      ELSE emit([r EXCEPT !.instruments[id].campaign = None,
                          !.instruments[id].lastClosingFillAt = a.effectiveAt],
                campaignExited(id, c, fill, "delisting", protectiveStop(c),
                               lifeAggregate(c, c.units, s.previousClose)))

applyDelisting(r, a) ==
  LET s == r.instruments[a.id]
      marked == [r EXCEPT !.delisted = @ @@ (a.id :> a.effectiveAt)]
  IN  IF a.id \in DOMAIN r.delisted THEN Ok(r, <<>>)
      ELSE IF a.id \notin DOMAIN r.instruments THEN Ok(marked, <<>>)
      ELSE IF s.previousClose = 0 \/ a.effectiveAt < s.lastPeriodEnd THEN Fail(r, "delisted before its last bar")
      ELSE IF ~ hasOutstandingBusiness(s) THEN Ok(marked, <<>>)
      ELSE Then(closeOutProposals(marked, a.id, a.effectiveAt, delistingExpiry, "superseded_by_delisting"),
                LAMBDA q : When(s.campaign # None, q, LAMBDA p : closeCampaignForDelisting(p, a.id, a)))

-----------------------------------------------------------------------------
\* Prices and quantities arrive split-adjusted, so a split itself moves nothing.
\* Whole raw shares lost to it come off the most recent units, one each, and are
\* paid in cash; the orders of those units are restated.
applySplit(r, a) ==
  LET s      == r.instruments[a.id]
      c      == s.campaign
      claims == a.rawSharesLost > 0 \/ a.cashInLieu > 0
      kept   == Len(c.units) - a.rawSharesLost
      reduced == SubSeq(c.units, kept + 1, Len(c.units))
      after   == [i \in DOMAIN reduced |-> [reduced[i] EXCEPT !.quantity = @ - a.enginePerRaw]]
      noted   == [r EXCEPT !.instruments[a.id].lastSplitAt = a.effectiveAt]
      cashInLieu ==
        [type |-> "CampaignCashInLieu", decision |-> decisionID("cash-in-lieu", a.id, a.effectiveAt),
         campaignID |-> c.campaignID, id |-> a.id, at |-> a.effectiveAt, perRaw |-> a.enginePerRaw,
         rawSharesLost |-> a.rawSharesLost, cashInLieu |-> a.cashInLieu,
         reductions |-> Reverse([i \in DOMAIN reduced |->
                          [unitIndex |-> reduced[i].index, quantityBefore |-> reduced[i].quantity,
                           quantityAfter |-> reduced[i].quantity - a.enginePerRaw]]),
         quantityBefore |-> filledQuantity(c.units),
         quantityAfter |-> filledQuantity(c.units) - a.rawSharesLost * a.enginePerRaw]
      shrunk ==
        [noted EXCEPT !.instruments[a.id].campaign =
           [c EXCEPT !.units = SubSeq(@, 1, kept) \o after,
                     !.closedQuantity = @ + a.rawSharesLost * a.enginePerRaw,
                     !.closedEntryWeightedSum =
                        @ + FoldLeft(LAMBDA sum, u : sum + a.enginePerRaw * u.fillPrice, 0, reduced),
                     !.closedExitWeightedSum = @ + a.cashInLieu \div Config.dollarsPerPoint]]
      restate(q, u) ==
        emit(q, exitOrderSet(c.campaignID, a.id, u, exitOrderFor(u, c.campaignID, s.pendingExitProposal),
                             a.effectiveAt, <<0>>))
  IN  IF a.id \in DOMAIN r.delisted THEN Fail(r, "delisted")
      ELSE IF a.id \notin DOMAIN r.instruments THEN
        IF claims THEN Fail(r, "nothing held") ELSE Ok(r, <<>>)
      ELSE IF a.effectiveAt < s.lastPeriodEnd THEN Fail(r, "split before the last bar")
      ELSE IF s.lastSplitAt # 0 /\ a.effectiveAt <= s.lastSplitAt THEN Fail(r, "split out of order")
      ELSE IF c = None THEN IF claims THEN Fail(r, "nothing held") ELSE Ok(noted, <<>>)
      ELSE IF a.effectiveAt < latestFillAt(c) THEN Fail(r, "split before a fill")
      ELSE IF ~ claims THEN Ok(noted, <<>>)
      ELSE IF a.rawSharesLost > Len(c.units) THEN Fail(r, "more shares lost than units held")
      ELSE IF \E i \in DOMAIN reduced : reduced[i].quantity <= a.enginePerRaw
        THEN Fail(r, "a unit lost whole")
      ELSE Then(emit(shrunk, cashInLieu), LAMBDA r1 :
           FoldLeft(LAMBDA res, u : Then(res, LAMBDA q : restate(q, u)), Ok(r1, <<>>), after))

\* A dividend is credited outside the reducer, which only records it.
applyDividend(r, a) ==
  LET s == r.instruments[a.id] IN
  IF a.id \in DOMAIN r.delisted THEN Fail(r, "delisted")
  ELSE IF a.id \notin DOMAIN r.instruments THEN Fail(r, "nothing held")
  ELSE IF a.effectiveAt < s.lastPeriodEnd THEN Fail(r, "dividend before the last bar")
  ELSE IF s.lastDividendAt # 0 /\ a.effectiveAt <= s.lastDividendAt THEN Fail(r, "dividend out of order")
  ELSE IF s.campaign = None THEN Fail(r, "nothing held")
  ELSE IF a.effectiveAt < latestFillAt(s.campaign) THEN Fail(r, "dividend before a fill")
  ELSE emit([r EXCEPT !.instruments[a.id].lastDividendAt = a.effectiveAt],
            [type |-> "CampaignDividend", decision |-> decisionID("dividend", a.id, a.effectiveAt),
             campaignID |-> s.campaign.campaignID, id |-> a.id, at |-> a.effectiveAt,
             cashAmount |-> a.cashAmount])

\* renameInstrument: a state moves to its new identity.
moved(f, old, new) ==
  [k \in (DOMAIN f \ {old}) \union (IF old \in DOMAIN f THEN {new} ELSE {}) |->
     IF k = new THEN f[old] ELSE f[k]]

\* A rename carries the state, the holds and the classification along; the old
\* identity is retired for good.  Identities already issued keep their names.
applySymbolChange(r, a) ==
  LET s == r.instruments[a.id]
      renamed == [r EXCEPT !.renamed = @ @@ (a.id :> a.newID)]
  IN  IF {a.id, a.newID} \intersect DOMAIN r.delisted # {} THEN Fail(r, "delisted")
      ELSE IF {a.id, a.newID} \intersect DOMAIN r.renamed # {} THEN Fail(r, "renamed")
      ELSE IF barReceivedInOpenSession(r, a.newID) THEN Fail(r, "bar received")
      ELSE IF a.newID \in DOMAIN r.instruments THEN Fail(r, "already tracked")
      ELSE IF a.newID \in DOMAIN r.classifications THEN Fail(r, "already classified")
      ELSE IF a.id \notin DOMAIN r.instruments THEN Ok(renamed, <<>>)
      ELSE IF a.effectiveAt < s.lastPeriodEnd THEN Fail(r, "rename before the last bar")
      ELSE emit([renamed EXCEPT
                   !.instruments = moved(@, a.id, a.newID),
                   !.classifications = moved(@, a.id, a.newID),
                   !.holds = [i \in DOMAIN @ |->
                                IF @[i].id = a.id THEN [@[i] EXCEPT !.id = a.newID] ELSE @[i]]],
                [type |-> "InstrumentSymbolChanged",
                 decision |-> decisionID("symbol-changed", a.id, a.effectiveAt),
                 id |-> a.id, newID |-> a.newID, at |-> a.effectiveAt,
                 campaignID |-> IF s.campaign = None THEN None ELSE s.campaign.campaignID])

\* An action arrives before the bar it is effective for, never after.
applyCorporateAction(r, a) ==
  IF ~ ValidCorporateAction(a) THEN Fail(r, "invalid corporate action")
  ELSE IF barReceivedInOpenSession(r, a.id) THEN Fail(r, "bar received")
  ELSE CASE a.kind = "delisting"     -> applyDelisting(r, a)
         [] a.kind = "split"         -> applySplit(r, a)
         [] a.kind = "symbol_change" -> applySymbolChange(r, a)
         [] a.kind = "dividend"      -> applyDividend(r, a)

-----------------------------------------------------------------------------
beforeABar(r, at) == \E id \in DOMAIN r.instruments : at < r.instruments[id].lastPeriodEnd

\* The input ends: nothing is left outstanding.
applyRunCompleted(r, completedAt) ==
  LET close(q, id) ==
        Then(closeOutProposals(q, id, completedAt, endOfStreamExpiry, "input_stream_ended"),
             LAMBDA p : emitExitOrderChanges(p, id, completedAt, <<1>>))
  IN  IF r.sessionOpen THEN Fail(r, "session still open")
      ELSE IF beforeABar(r, completedAt) THEN Fail(r, "completed before a bar")
      ELSE FoldLeft(LAMBDA res, id : Then(res, LAMBDA q : close(q, id)),
                    Ok([r EXCEPT !.streamEnded = TRUE], <<>>), instrumentIDs(r))

applyAdapterRunStopped(r, at) ==
  IF beforeABar(r, at) THEN Fail(r, "stopped before a bar")
  ELSE Ok([r EXCEPT !.runStopped = TRUE], <<>>)
=============================================================================
