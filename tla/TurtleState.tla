----------------------------- MODULE TurtleState -----------------------------
(***************************************************************************)
(* What the turtle reducer of internal/strategy remembers, the cash and    *)
(* the unit counts it decides from, and how a handler answers: it returns  *)
(* the reducer after it, the decisions it emits in order, and an error     *)
(* after which the reducer is as it was (transact).  A time of 0 is Go's   *)
(* zero time and a price of 0 a price not yet known.                       *)
(***************************************************************************)
EXTENDS Integers, Sequences, SequencesExt, FiniteSetsExt, TLC,
        TurtleEvents, Indicators, Sizing

NoError == "none"

Ok(r, out)   == [r |-> r, out |-> out, err |-> NoError]
Fail(r, why) == [r |-> r, out |-> <<>>, err |-> why]

\* One handler's steps in a row: the decisions add up until one step fails.
Then(res, F(_)) ==
  IF res.err # NoError THEN res
  ELSE LET next == F(res.r) IN [next EXCEPT !.out = res.out \o @]

When(cond, r, F(_)) == IF cond THEN F(r) ELSE Ok(r, <<>>)

\* A payload is validated before it is stamped.
emit(r, e) == IF Valid(e) THEN Ok(r, <<e>>) ELSE Fail(r, "invalid payload")

\* transact: a failed handler leaves the reducer alone.
transact(r, res) == IF res.err = NoError THEN res ELSE [res EXCEPT !.r = r]

decisionID(kind, id, at) == <<kind, id, at, 0, <<>>>>

\* An identity that also names a unit, or the fill that caused the decision.
unitDecisionID(kind, unit, cause, id, at) == <<kind, id, at, unit, cause>>

-----------------------------------------------------------------------------
\* instrumentState, as stateFor makes it.
newInstrument ==
  [previousClose |-> 0, lastPeriodEnd |-> 0,
   n |-> NewWilderAverage, highs |-> <<>>, lows |-> <<>>,
   splitAdjustedCloses |-> <<>>, rawCloses |-> <<>>, rawVolumes |-> <<>>,
   completedBars |-> 0, universe |-> "unevaluated",
   pendingProposal |-> None, campaign |-> None, pendingSignal |-> None,
   addDue |-> FALSE, pendingExitProposal |-> None, pendingAddProposal |-> None,
   lastBarN |-> 0, lastBarHigh |-> 0, lastBarPeriodEnd |-> 0, lastBarEarliestFillAt |-> 0,
   lastClosingFillAt |-> 0,
   unitsFreedThisSession |-> 0, unitsFreedThisSessionGeneration |-> 0,
   lastSplitAt |-> 0, lastDividendAt |-> 0,
   lastSetupTier |-> "none", lastSetupDistanceToEntryInN |-> <<0, 1>>, lastSetupPeriodEnd |-> 0]

stateFor(r, id) ==
  IF id \in DOMAIN r.instruments THEN r
  ELSE [r EXCEPT !.instruments = @ @@ (id :> newInstrument)]

instrumentIDs(r) == SetToSortSeq(DOMAIN r.instruments, <)

-----------------------------------------------------------------------------
\* Holds: what every outstanding entry and add proposal may still cost.

placeHold(r, proposalID, id, cost) ==
  IF \E i \in DOMAIN r.holds : r.holds[i].proposalID = proposalID
  THEN Fail(r, "proposal already held")
  ELSE Ok([r EXCEPT !.holds = Append(@, [proposalID |-> proposalID, id |-> id, cost |-> cost])], <<>>)

releaseHold(r, proposalID) ==
  IF \A i \in DOMAIN r.holds : r.holds[i].proposalID # proposalID
  THEN Fail(r, "no hold to release")
  ELSE Ok([r EXCEPT !.holds = SelectSeq(@, LAMBDA h : h.proposalID # proposalID)], <<>>)

holdTotal(r) == FoldLeft(LAMBDA sum, h : sum + h.cost, 0, r.holds)

reservedUnits(r, ids) == Len(SelectSeq(r.holds, LAMBDA h : h.id \in ids))

unitCost(quantity, level) == quantity * level * Config.dollarsPerPoint

\* What a buy reserves: its level, or for a stop-limit the worst its cap allows.
buyHold(quantity, level, n) ==
  IF Config.buyOrderType = "stop_market"
  THEN [cost |-> unitCost(quantity, level), priceCap |-> 0]
  ELSE LET cap == PriceCap(level, Config.gapBufferN, n)
       IN  [cost |-> WorstCaseBuyCost(quantity, cap, Config.slippageN, n,
                                      Config.dollarsPerPoint, Config.commission),
            priceCap |-> cap]

-----------------------------------------------------------------------------
\* Unit caps.  No instrument is classified yet, so all of them share the
\* unclassified group.

\* The session a closing fill's units still count against.
protectedSessionGeneration(r, filledAt) ==
  CASE r.sessionOpen -> r.sessionGeneration
    [] ~ r.sessionOpen /\ (r.lastClosedSession = 0 \/ filledAt > r.lastClosedSession) ->
         r.sessionGeneration + 1
    [] OTHER -> None

recordUnitsFreedThisSession(r, id, count, filledAt) ==
  LET generation == protectedSessionGeneration(r, filledAt)
      s == r.instruments[id]
  IN  IF generation = None THEN r
      ELSE [r EXCEPT !.instruments[id].unitsFreedThisSession =
                        count + (IF s.unitsFreedThisSessionGeneration = generation
                                 THEN s.unitsFreedThisSession ELSE 0),
                     !.instruments[id].unitsFreedThisSessionGeneration = generation]

\* Mutant of freedThisSessionUnits: units sold at the open are free at once.
MutantFreesAtOnce(r, id) == 0

freedThisSessionUnits(r, id) ==
  IF r.instruments[id].unitsFreedThisSessionGeneration # r.sessionGeneration THEN 0
  ELSE r.instruments[id].unitsFreedThisSession

openUnits(r, id) ==
  IF r.instruments[id].campaign = None THEN 0 ELSE Len(r.instruments[id].campaign.units)

instrumentUnits(r, id) ==
  reservedUnits(r, {id}) + freedThisSessionUnits(r, id) + openUnits(r, id)

\* unclassifiedGroupUnits and totalLongUnits, which agree while no instrument
\* is classified.
groupUnits(r) ==
  Len(r.holds) +
  FoldLeft(LAMBDA sum, id : sum + openUnits(r, id) + freedThisSessionUnits(r, id), 0, instrumentIDs(r))

\* The first cap one more unit would break.
capExceeded(r, id) ==
  LET exposure == instrumentUnits(r, id) + 1
      group    == groupUnits(r) + 1
  IN  CASE exposure > Config.maxUnits ->
             [cap |-> "instrument", limit |-> Config.maxUnits, exposure |-> exposure]
        [] exposure <= Config.maxUnits /\ group > Config.maxUnitsPerSector ->
             [cap |-> "unclassified_group", limit |-> Config.maxUnitsPerSector, exposure |-> group]
        [] exposure <= Config.maxUnits /\ group <= Config.maxUnitsPerSector
           /\ group > Config.maxUnitsTotalLong ->
             [cap |-> "total_long", limit |-> Config.maxUnitsTotalLong, exposure |-> group]
        [] OTHER -> None

-----------------------------------------------------------------------------
\* Cash.

fillDebitTotal(r) == FoldLeft(LAMBDA sum, d : sum + d.cost, 0, r.fillDebits)

\* A fill the cash figure already reflects is not debited again.
debitFill(r, fill) ==
  IF fill.filledAt <= r.availableCashAsOf THEN r
  ELSE [r EXCEPT !.fillDebits =
          Append(@, [filledAt |-> fill.filledAt,
                     cost |-> fill.quantity * fill.price * Config.dollarsPerPoint + fill.commission])]

dropReflectedFillDebits(r) ==
  [r EXCEPT !.fillDebits = SelectSeq(@, LAMBDA d : d.filledAt > r.availableCashAsOf)]

\* Mutant of cashAtPreviousClose: standing holds are not taken off.
MutantSpendsHeldCash(r, previousClose) ==
  IF r.availableCashAsOf = 0 \/ r.availableCashAsOf > previousClose
  THEN [err |-> "no cash figure", cash |-> 0]
  ELSE [err |-> NoError, cash |-> r.availableCash - fillDebitTotal(r)]

\* Cash a decision of the bar after previousClose may spend; the error names why
\* there is none.
cashAtPreviousClose(r, previousClose) ==
  CASE r.availableCashAsOf = 0 -> [err |-> "no account snapshot", cash |-> 0]
    [] r.availableCashAsOf > previousClose /\ r.availableCashAsOf # 0 ->
         [err |-> "cash not known at the previous close", cash |-> 0]
    [] OTHER -> [err |-> NoError,
                 cash |-> r.availableCash - fillDebitTotal(r) - holdTotal(r)]
=============================================================================
