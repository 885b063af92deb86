---------------------------- MODULE TurtleReducer ----------------------------
(***************************************************************************)
(* internal/strategy reducer.go: the reducer as its caller sees it.  An    *)
(* input is a record with its event type; apply is one call of Apply.      *)
(***************************************************************************)
EXTENDS TurtleSession, TurtleAccount, TurtleCorporate

NewReducer ==
  [streamEnded |-> FALSE, runStopped |-> FALSE,
   notional |-> None, drawdownStepsSeen |-> 0,
   lastAccountEventAt |-> 0, availableCash |-> 0, availableCashAsOf |-> 0,
   fillDebits |-> <<>>, holds |-> <<>>,
   instruments |-> <<>>, delisted |-> <<>>, renamed |-> <<>>, classifications |-> <<>>,
   acceptedFills |-> {},
   sessionOpen |-> FALSE, sessionPeriodEnd |-> 0, sessionGeneration |-> 0,
   lastClosedSession |-> 0, sessionDelistedBars |-> <<>>]

\* The one configuration a run accepts; its other parameters are read from Config.
applyConfiguration(r) == [r EXCEPT !.notional = NewNotionalAccount(Config.startingEquity)]

\* Lifecycle reports of orders are validated and change nothing.
applyOrderLifecycle(r) == Ok(r, <<>>)

apply(r, input) ==
  IF r.streamEnded THEN Fail(r, "stream ended")
  ELSE IF r.runStopped /\ input.event # "run.completed" THEN Fail(r, "run stopped")
  ELSE CASE input.event = "bar.completed"    -> applyCompletedBar(r, input.bar)
         [] input.event = "session.closed"   -> applySessionClosed(r, input.periodEnd, input.named)
         [] input.event = "fill"             -> applyFill(r, input.fill)
         [] input.event = "account.snapshot" -> applyAccountSnapshot(r, input.snapshot)
         [] input.event = "cash.movement"    -> applyCashMovement(r, input.movement)
         [] input.event = "corporate.action" -> applyCorporateAction(r, input.action)
         [] input.event = "classification"   -> applyInstrumentClassification(r, input.id, input.classification, input.effectiveAt)
         [] input.event = "run.completed"    -> applyRunCompleted(r, input.at)
         [] input.event = "run.stopped"      -> applyAdapterRunStopped(r, input.at)
         [] input.event = "order.lifecycle"  -> applyOrderLifecycle(r)

Apply(r, input) == transact(r, apply(r, input))
=============================================================================
