------------------------------- MODULE Sizing -------------------------------
(***************************************************************************)
(* internal/sizing: how large a unit is, where its stop and the next add   *)
(* go, what a buy can cost at worst.  A ratio of the configuration is a    *)
(* pair <<numerator, denominator>>; Unusable is the error of a Go function *)
(* that refuses its inputs.  The prices of a run are small, so the checks  *)
(* for infinities and for quantities past 2^53 have no counterpart.        *)
(***************************************************************************)
EXTENDS Integers, Sequences, SequencesExt, FiniteSetsExt

Unusable == -1

\* Product: a ratio of the configuration times a whole figure, rounded down.
Product(q, x) == (q[1] * x) \div q[2]

\* checkN, checkEntryPrice, checkNotionalAccount, checkDollarsPerPoint.
Usable(v) == v > 0

\* floor(budget / cost): a budget is compared with a cost by cross
\* multiplication, so no step-back after rounding is needed.
truncate(budget, cost) ==
  IF cost[1] <= 0 THEN Unusable
  ELSE (budget[1] * cost[2]) \div (budget[2] * cost[1])

UnitQuantity(notional, fraction, n, dollarsPerPoint) ==
  IF ~ (Usable(notional) /\ Usable(n) /\ Usable(dollarsPerPoint)) THEN Unusable
  ELSE truncate(<<notional * fraction[1], fraction[2]>>, <<n * dollarsPerPoint, 1>>)

FixedRiskAtStopQuantity(notional, fraction, stopMultiple, n, dollarsPerPoint) ==
  IF ~ (Usable(notional) /\ Usable(n) /\ Usable(dollarsPerPoint)) THEN Unusable
  ELSE truncate(<<notional * fraction[1], fraction[2]>>,
                <<stopMultiple[1] * n * dollarsPerPoint, stopMultiple[2]>>)

\* The fraction of the account a unit loses at its stop: derived in one mode,
\* configured in the other; <<0, 1>> where the code refuses.
RiskAtStop(mode, unitVolatilityFraction, stopMultiple, riskAtStopFraction) ==
  LET derived == <<unitVolatilityFraction[1] * stopMultiple[1],
                   unitVolatilityFraction[2] * stopMultiple[2]>>
  IN  CASE mode = "volatility-normalised" ->
             IF riskAtStopFraction[1] = 0 /\ derived[1] \in 1..derived[2]
             THEN derived ELSE <<0, 1>>
        [] mode = "fixed-risk-at-stop" -> riskAtStopFraction

\* SizeUnit: the whole quantity one unit holds.
SizeUnit(c, notional, stopMultiple, n) ==
  IF RiskAtStop(c.sizingMode, c.unitVolatilityFraction, stopMultiple, c.riskAtStopFraction)[1] = 0
  THEN Unusable
  ELSE IF c.sizingMode = "volatility-normalised"
  THEN UnitQuantity(notional, c.unitVolatilityFraction, n, c.dollarsPerPoint)
  ELSE FixedRiskAtStopQuantity(notional, c.riskAtStopFraction, stopMultiple, n, c.dollarsPerPoint)

\* A long unit's stop; Unusable at or below zero.
ProtectiveStopLevel(entryPrice, n, stopMultiple) ==
  LET level == entryPrice - Product(stopMultiple, n)
  IN  IF Usable(entryPrice) /\ Usable(n) /\ level > 0 THEN level ELSE Unusable

\* An initial stop lies below the entry price, a raised one need not.
ValidStopLevel(entryPrice, level, kind) ==
  /\ entryPrice > 0
  /\ level > 0
  /\ kind = "initial" => level < entryPrice

RaisedStop(previousStop, n) ==
  IF Usable(n) /\ Usable(previousStop) THEN previousStop + Product(<<1, 2>>, n) ELSE Unusable

LowestProtectiveStop(stops) ==
  IF stops = {} \/ \E s \in stops : ~ Usable(s) THEN Unusable ELSE Min(stops)

NextAddLevel(previousFill, n) ==
  IF Usable(previousFill) /\ Usable(n) THEN previousFill + Product(<<1, 2>>, n) ELSE Unusable

\* What the open units lose if every stop is hit.
AggregateOpenRisk(units, dollarsPerPoint) ==
  FoldLeft(LAMBDA sum, u : sum + Max({0, u.fillPrice - u.protectiveStop}) * u.quantity * dollarsPerPoint,
           0, units)

\* IBKR's schedule: a charge per share, at least the minimum of an order and at
\* most a fraction of the trade's value.
Commission(quantity, price, dollarsPerPoint, schedule) ==
  Min({Max({quantity * schedule.perShare, schedule.minimumPerOrder}),
       Product(schedule.maximumFraction, quantity * price * dollarsPerPoint)})

PriceCap(level, gapBufferN, n) == level + Product(gapBufferN, n)

WorstCaseBuyCost(quantity, priceCap, slippageN, n, dollarsPerPoint, schedule) ==
  LET price == priceCap + Product(slippageN, n)
  IN  quantity * price * dollarsPerPoint
        + Commission(quantity, price, dollarsPerPoint, schedule)

\* The notional account keeps four fifths of itself at each drawdown step.
DrawdownSteppedNotional(before) == Product(<<4, 5>>, before)

CashMovementScaledFigure(before, equityBefore, equityAfter) ==
  Product(<<equityAfter, equityBefore>>, before)
=============================================================================
