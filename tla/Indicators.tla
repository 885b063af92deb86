----------------------------- MODULE Indicators -----------------------------
(***************************************************************************)
(* The rolling readings of internal/indicator.  A ring buffer is the       *)
(* sequence of the values it holds, oldest first; a quotient that is only  *)
(* compared is a pair <<numerator, denominator>>.  Prices are whole ticks  *)
(* and a price that is divided is rounded down.                            *)
(***************************************************************************)
EXTENDS Integers, Sequences, SequencesExt, FiniteSetsExt

CONSTANTS NPeriod,               \* DefaultPeriod: bars in the average of N
          StrengthLookbackBars,  \* bars strength looks back over
          DollarVolumeWindow     \* bars the median dollar volume is taken over

ASSUME WindowAssumption ==
  /\ NPeriod \in Nat \ {0}
  /\ StrengthLookbackBars \in Nat \ {0}
  /\ DollarVolumeWindow \in Nat \ {0}

\* A window of the given capacity takes a value and drops its oldest.
push(window, v, capacity) ==
  LET w == Append(window, v)
  IN  IF Len(w) <= capacity THEN w ELSE Tail(w)

\* The highest High of the bars before this one, ready once the window is full.
EntryExtreme(highs, length) ==
  [value |-> IF highs = <<>> THEN 0 ELSE Max(ToSet(highs)),
   ready |-> Len(highs) >= length]

\* The lowest Low of the bars before this one.
ExitExtreme(lows, length) ==
  [value |-> IF lows = <<>> THEN 0 ELSE Min(ToSet(lows)),
   ready |-> Len(lows) >= length]

\* A price of 0 stands for "no previous close".
TrueRange(high, low, previousClose) ==
  IF previousClose = 0 THEN high - low
  ELSE Max({high - low, high - previousClose, previousClose - low})

SMASeed(values) == FoldSeq(LAMBDA v, sum : v + sum, 0, values) \div Len(values)

WilderNext(previousN, tr, period) == ((period - 1) * previousN + tr) \div period

\* The average: the True Ranges buffered until the seed, and its value after.
\* The count saturates at the period, beyond which the code never tells counts
\* apart.
NewWilderAverage == [count |-> 0, seed |-> <<>>, value |-> 0]

WilderAdd(w, tr) ==
  CASE w.count + 1 < NPeriod ->
         [w EXCEPT !.count = @ + 1, !.seed = Append(@, tr)]
    [] w.count + 1 = NPeriod ->
         [count |-> NPeriod, seed |-> <<>>, value |-> SMASeed(Append(w.seed, tr))]
    [] OTHER -> [w EXCEPT !.value = WilderNext(@, tr, NPeriod)]

WilderReady(w) == w.count >= NPeriod

\* The change of the close over the lookback, in units of N.
Strength(closes, n) ==
  [value |-> IF Len(closes) < StrengthLookbackBars + 1 THEN <<0, 1>>
             ELSE <<Last(closes) - closes[Len(closes) - StrengthLookbackBars], n>>,
   ready |-> Len(closes) >= StrengthLookbackBars + 1]

medianOf(values) ==
  LET sorted == SortSeq(values, <)
      mid    == Len(sorted) \div 2
  IN  IF Len(sorted) % 2 = 1 THEN sorted[mid + 1]
      ELSE (sorted[mid] + sorted[mid + 1]) \div 2

\* Closes and volumes are pushed in lockstep, so the two windows are as long.
MedianDollarVolume(closes, volumes) ==
  LET start == Len(closes) - DollarVolumeWindow
  IN  [value |-> IF start < 0 THEN 0
                 ELSE medianOf([i \in 1..DollarVolumeWindow |->
                                  closes[start + i] * volumes[start + i]]),
       ready |-> start >= 0]
=============================================================================
