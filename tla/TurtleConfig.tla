---------------------------- MODULE TurtleConfig ----------------------------
(***************************************************************************)
(* The configuration a turtle run is frozen with (internal/event           *)
(* configuration.go).  Ratios are pairs <<numerator, denominator>>, prices *)
(* whole ticks and money whole ticks times shares.  Config is declared     *)
(* here once for every module of the reducer, the simulator and the run.   *)
(***************************************************************************)
EXTENDS Integers

CONSTANTS Config,     \* the ConfigurationPayload
          None        \* an absent identity, proposal or campaign

Positive(q) == q[1] > 0 /\ q[2] > 0

AtMostOne(q) == q[1] <= q[2]

\* A price cap belongs to a stop-limit buy and to no other.
validateGapBuffer(orderType, gapBufferN) ==
  \/ orderType = "stop_limit" /\ gapBufferN[1] >= 0 /\ gapBufferN[2] > 0
  \/ orderType = "stop_market" /\ gapBufferN[1] = 0

\* Sizing: a fraction of the account per N, or a configured risk at the stop.
validateSizing(c) ==
  /\ c.sizingMode \in {"volatility-normalised", "fixed-risk-at-stop"}
  /\ Positive(c.unitVolatilityFraction) /\ AtMostOne(c.unitVolatilityFraction)
  /\ Positive(c.stopMultiple)
  /\ c.dollarsPerPoint > 0
  /\ c.sizingMode = "volatility-normalised" => c.riskAtStopFraction[1] = 0
  /\ c.sizingMode = "fixed-risk-at-stop" =>
       Positive(c.riskAtStopFraction) /\ AtMostOne(c.riskAtStopFraction)

\* The universe thresholds are all set or all left at zero.
validateUniverse(c) ==
  LET thresholds == {c.universeMinPrice, c.universeMinDollarVolume, c.universeMinHistoryBars}
  IN  thresholds = {0} \/ \A t \in thresholds : t > 0

Validate(c) ==
  /\ validateSizing(c)
  /\ c.entryChannelLength > 0 /\ c.exitChannelLength > 0
  /\ c.maxUnits > 0 /\ c.maxUnitsPerSector > 0 /\ c.maxUnitsTotalLong > 0
  /\ Positive(c.slippageN)
  /\ c.tierBDistanceInN[1] >= 0 /\ c.tierBDistanceInN[2] > 0
  /\ c.startingEquity > 0
  /\ c.commission.perShare >= 0 /\ c.commission.minimumPerOrder >= 0
  /\ Positive(c.commission.maximumFraction) /\ AtMostOne(c.commission.maximumFraction)
  /\ validateGapBuffer(c.buyOrderType, c.gapBufferN)
  /\ validateUniverse(c)

ASSUME ConfigAssumption == Validate(Config)
=============================================================================
