---------------------------- MODULE TurtleAccount ----------------------------
(***************************************************************************)
(* The notional account units are sized from (internal/strategy            *)
(* notional.go): it steps down with a drawdown, recovers at the yearly     *)
(* starting figure, is re-based once a year, and scales with deposits and  *)
(* withdrawals.  One currency, so pinning it is left out.                  *)
(***************************************************************************)
EXTENDS TurtleState

CONSTANT RebasingLabel(_)   \* rebasingLabelFor: the yearly period a time falls in

maxDrawdownStepsPerObservation == 1024

NewNotionalAccount(starting) ==
  [base |-> starting, current |-> starting, startingFigure |-> starting,
   periodLabel |-> 0, stepsInEpisode |-> 0]

\* The rule is undefined from here on down: base less half the account.
undefinedAt(n) == n.base - Product(<<1, 2>>, n.current)

\* Every tenth of the account below its base costs the account a fifth.
drawdownSteps(n, equity) ==
  LET ladder[base \in Int, current \in Int, taken \in 0..maxDrawdownStepsPerObservation] ==
        LET threshold == base - Product(<<1, 10>>, current)
            to        == DrawdownSteppedNotional(current)
        IN  IF equity > threshold \/ taken = maxDrawdownStepsPerObservation THEN <<>>
            ELSE <<[from |-> current, to |-> to, threshold |-> threshold]>>
                   \o ladder[threshold, to, taken + 1]
  IN  ladder[n.base, n.current, 0]

\* Observe, with the steps it returns.
Observe(n, equity) ==
  LET steps == drawdownSteps(n, equity)
  IN  IF equity <= 0 \/ equity <= undefinedAt(n) \/ Len(steps) = maxDrawdownStepsPerObservation
      THEN [n |-> n, steps |-> <<>>, err |-> "drawdown rule undefined"]
      ELSE [n |-> IF steps = <<>> THEN n
                  ELSE [n EXCEPT !.base = Last(steps).threshold, !.current = Last(steps).to],
            steps |-> steps, err |-> NoError]

\* Re-base first, then the ladder, then recovery.
ObserveSnapshot(n, asOf, equity) ==
  LET label    == RebasingLabel(asOf)
      rebased  == n.periodLabel # 0 /\ label > n.periodLabel
      n1 == IF rebased THEN [base |-> equity, current |-> equity, startingFigure |-> equity,
                             periodLabel |-> label, stepsInEpisode |-> 0]
            ELSE IF n.periodLabel = 0 THEN [n EXCEPT !.periodLabel = label]
            ELSE n
      seen == Observe(n1, equity)
      n2   == [seen.n EXCEPT !.stepsInEpisode = @ + Len(seen.steps)]
      recovered == n2.current < n2.startingFigure /\ equity >= n2.startingFigure
      n3   == IF recovered
              THEN [n2 EXCEPT !.current = n2.startingFigure, !.base = n2.startingFigure, !.stepsInEpisode = 0]
              ELSE n2
  IN  [n |-> n3, before |-> n2, rebased |-> rebased, steps |-> seen.steps,
       recovered |-> recovered, err |-> seen.err]

-----------------------------------------------------------------------------
applyAccountSnapshot(r, s) ==
  LET seen == ObserveSnapshot(r.notional, s.asOf, s.equity)
      r1   == dropReflectedFillDebits(
                [r EXCEPT !.notional = seen.n, !.lastAccountEventAt = s.asOf,
                          !.availableCash = s.availableCash, !.availableCashAsOf = s.asOf])
      rebase(q) ==
        emit([q EXCEPT !.drawdownStepsSeen = 0],
             [type |-> "NotionalAccountRebased",
              decision |-> decisionID("notional-account-rebased", 0, s.asOf), at |-> s.asOf,
              previousStartingFigure |-> r.notional.startingFigure,
              newStartingFigure |-> s.equity, equity |-> s.equity])
      step(q, t) ==
        emit([q EXCEPT !.drawdownStepsSeen = @ + 1],
             [type |-> "DrawdownStepApplied",
              decision |-> unitDecisionID("drawdown-step", q.drawdownStepsSeen + 1, <<>>, 0, s.asOf),
              at |-> s.asOf, equity |-> s.equity, threshold |-> t.threshold,
              notionalBefore |-> t.from, notionalAfter |-> t.to, stepNumber |-> q.drawdownStepsSeen + 1])
      recover(q) ==
        emit([q EXCEPT !.drawdownStepsSeen = 0],
             [type |-> "NotionalAccountRecovered",
              decision |-> decisionID("notional-account-recovered", 0, s.asOf), at |-> s.asOf,
              equity |-> s.equity, startingFigure |-> seen.n.startingFigure,
              notionalBefore |-> seen.before.current, stepsCleared |-> seen.before.stepsInEpisode])
  IN  IF ~ ValidSnapshot(s) THEN Fail(r, "invalid snapshot")
      ELSE IF s.asOf <= r.lastAccountEventAt THEN Fail(r, "account event out of order")
      ELSE IF seen.err # NoError THEN Fail(r, seen.err)
      ELSE Then(When(seen.rebased, r1, rebase), LAMBDA r2 :
           Then(FoldLeft(LAMBDA res, t : Then(res, LAMBDA q : step(q, t)), Ok(r2, <<>>), seen.steps),
                LAMBDA r3 : When(seen.recovered, r3, recover)))

\* A deposit or withdrawal scales the three figures alike.
ApplyCashMovement(n, equityBefore, amount) ==
  LET scaled(v) == CashMovementScaledFigure(v, equityBefore, equityBefore + amount)
  IN  [n EXCEPT !.startingFigure = scaled(@), !.base = scaled(@), !.current = scaled(@)]

\* Only a withdrawal moves the spendable cash, which stays as of the snapshot it
\* came with.
applyCashMovement(r, m) ==
  LET after == m.equityBefore + m.amount
      n == ApplyCashMovement(r.notional, m.equityBefore, m.amount)
  IN  IF ~ ValidCashMovement(m) THEN Fail(r, "invalid cash movement")
      ELSE IF m.asOf <= r.lastAccountEventAt THEN Fail(r, "account event out of order")
      ELSE IF n.startingFigure <= 0 \/ n.base <= 0 \/ n.current <= 0 THEN Fail(r, "account scaled to nothing")
      ELSE emit([r EXCEPT !.notional = n, !.lastAccountEventAt = m.asOf,
                          !.availableCash = IF r.availableCashAsOf # 0 /\ m.amount < 0
                                            THEN Max({0, @ + m.amount}) ELSE @],
                [type |-> "NotionalAccountCashAdjusted",
                 decision |-> decisionID("notional-account-cash-adjusted", 0, m.asOf), at |-> m.asOf,
                 amount |-> m.amount, equityBefore |-> m.equityBefore, equityAfter |-> after,
                 startingFigureBefore |-> r.notional.startingFigure, startingFigureAfter |-> n.startingFigure,
                 notionalBefore |-> r.notional.current, notionalAfter |-> n.current])
=============================================================================
