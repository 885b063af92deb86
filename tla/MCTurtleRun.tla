----------------------------- MODULE MCTurtleRun -----------------------------
EXTENDS TurtleRun

bar(o, h, l, c) == [open |-> o, high |-> h, low |-> l, close |-> c]

MCQuiet == bar(30, 32, 28, 30)

\* A breakout that falls back through the stops of what it bought.
MCReversal == bar(31, 40, 20, 24)

\* Also a breakout that holds, one that opens and stays inside the price cap, a
\* fall at the open, and an open above every cap.
MCShapes == {MCQuiet, MCReversal, bar(34, 38, 32, 37), bar(34, 36, 33, 35),
             bar(22, 24, 20, 22), bar(45, 47, 44, 45)}

MCReversals == {MCQuiet, MCReversal}

\* A deposit and a withdrawal.
MCMovements == {50, -40}

\* The calendar: months of two sessions, years of four.
MCMonth(t) == t \div 4
MCRebasingLabel(t) == 1 + t \div 8

\* Buys are stop-limit orders sized at the configuration's default mode.
MCStopLimit ==
  [entryChannelLength |-> 2, exitChannelLength |-> 1, tierBDistanceInN |-> <<1, 1>>,
   recomputeNAtAdd |-> FALSE, sizingMode |-> "volatility-normalised",
   unitVolatilityFraction |-> <<1, 50>>, stopMultiple |-> <<2, 1>>, riskAtStopFraction |-> <<0, 1>>,
   dollarsPerPoint |-> 1, maxUnits |-> 3, maxUnitsPerSector |-> 4, maxUnitsTotalLong |-> 5,
   buyOrderType |-> "stop_limit", gapBufferN |-> <<1, 1>>, slippageN |-> <<1, 4>>,
   commission |-> [perShare |-> 1, minimumPerOrder |-> 1, maximumFraction |-> <<1, 2>>],
   startingEquity |-> 400, universeMinPrice |-> 0, universeMinDollarVolume |-> 0,
   universeMinHistoryBars |-> 0]

=============================================================================
