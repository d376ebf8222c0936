------------------------------ MODULE Indicator ------------------------------
(***************************************************************************)
(* The indicators: pure functions of sequences of prices. A loop that      *)
(* pushes values is a recursive function: the array after so many values.  *)
(* Indices start from 1, and the numbers are exact.                        *)
(***************************************************************************)
EXTENDS Integers, Sequences, Fraction

Percent(a) == Whole(100) ** a

First(s, n) == SubSeq(s, 1, n)
From(s, n) == SubSeq(s, n, Len(s))

-----------------------------------------------------------------------------
(* Moving averages. A series that is not longer than length comes back as  *)
(* it is.                                                                  *)

\* Mutant of SMA: the window drops the value after the one that leaves it.
SMADropsLate(series, length) ==
  IF Len(series) <= length THEN series
  ELSE LET sum[i \in length..Len(series)] ==
             IF i = length THEN Total(First(series, length))
             ELSE (sum[i - 1] -- series[i - length + 1]) ++ series[i]
       IN  [j \in 1..(Len(series) - length + 1) |-> sum[j + length - 1] // Whole(length)]

SMA(series, length) ==
  IF Len(series) <= length THEN series
  ELSE LET sum[i \in length..Len(series)] ==
             IF i = length THEN Total(First(series, length))
             ELSE (sum[i - 1] -- series[i - length]) ++ series[i]
       IN  [j \in 1..(Len(series) - length + 1) |-> sum[j + length - 1] // Whole(length)]

\* Mutant of Smoothed: the mean of the whole series is the first value.
SmoothedFromMean(series, length, alpha) ==
  LET result[j \in 1..(Len(series) - length + 1)] ==
        IF j = 1 THEN <<Mean(series)>>
        ELSE LET before == result[j - 1]
             IN  Append(before, (series[length + j - 1] ** alpha)
                                  ++ (before[j - 1] ** (Whole(1) -- alpha)))
  IN  IF Len(series) <= length THEN series ELSE result[Len(series) - length + 1]

\* The mean of the first values, then each value with weight alpha.
Smoothed(series, length, alpha) ==
  LET result[j \in 1..(Len(series) - length + 1)] ==
        IF j = 1 THEN <<Mean(First(series, length))>>
        ELSE LET before == result[j - 1]
             IN  Append(before, (series[length + j - 1] ** alpha)
                                  ++ (before[j - 1] ** (Whole(1) -- alpha)))
  IN  IF Len(series) <= length THEN series ELSE result[Len(series) - length + 1]

EMA(series, length) == Smoothed(series, length, Frac(2, length + 1))
RMA(series, length) == Smoothed(series, length, Frac(1, length))

\* Bands around the mean of a window. The standard deviation is given by its
\* square, the unbiased variance: width2 is the square of upper - basis.
BollingerBands(series, length, multiplier) ==
  LET Window(j) == SubSeq(series, j, j + length - 1)
      Square(a) == a ** a
      Variance(w, mean) == Total([i \in DOMAIN w |-> Square(w[i] -- mean)]) // Whole(length - 1)
      Band(w, mean) == [basis |-> mean, width2 |-> Square(multiplier) ** Variance(w, mean)]
  IN  [j \in 1..(Len(series) - length + 1) |-> Band(Window(j), Mean(Window(j)))]

-----------------------------------------------------------------------------
(* MACD. Values of different lines are paired by their positions.          *)

\* A missing element makes the difference NaN.
Minus(a, b, i) == IF i \in DOMAIN a /\ i \in DOMAIN b THEN a[i] -- b[i] ELSE NaN

MACDThrows(series, fastLength, slowLength, length) ==
  \E n \in {fastLength, slowLength, length} : Len(series) < n

\* Fast minus slow average; the fast one starts earlier and is cut.
MacdLine(series, fastLength, slowLength) ==
  LET Difference(fast, slow) == [i \in DOMAIN slow |-> Minus(fast, slow, i)]
  IN  Difference(From(EMA(series, fastLength), slowLength - fastLength + 1), EMA(series, slowLength))

MACD(series, fastLength, slowLength, length) ==
  LET Lines(macd, signal) ==
        [macd |-> macd, signal |-> signal, hist |-> [i \in DOMAIN signal |-> Minus(macd, signal, i)]]
      WithSignal(line) == Lines(From(line, length), EMA(line, length))
  IN  WithSignal(MacdLine(series, fastLength, slowLength))

-----------------------------------------------------------------------------
(* Relative strength.                                                      *)

\* What a series gained from i to i + 1, and lost.
Gain(series, i) == Larger(series[i + 1] -- series[i], Zero)
Loss(series, i) == Larger(series[i] -- series[i + 1], Zero)

\* Wilder's smoothing of a series: the mean of the first values, then each counts for
\* one of length.
Wilder(series, length) ==
  LET average[j \in 1..(Len(series) - length + 1)] ==
        IF j = 1 THEN <<Mean(First(series, length))>>
        ELSE LET before == average[j - 1]
             IN  Append(before, ((before[j - 1] ** Whole(length - 1)) ++ series[length + j - 1])
                                  // Whole(length))
  IN  average[Len(series) - length + 1]

CalculateRSI(gain, loss) ==
  IF loss = Zero THEN Whole(100)
  ELSE Whole(100) -- (Whole(100) // (Whole(1) ++ (gain // loss)))

RSI(series, length) ==
  IF Len(series) <= length THEN <<>>
  ELSE LET avgGain == Wilder([i \in 1..(Len(series) - 1) |-> Gain(series, i)], length)
           avgLoss == Wilder([i \in 1..(Len(series) - 1) |-> Loss(series, i)], length)
       IN  [j \in DOMAIN avgGain |-> CalculateRSI(avgGain[j], avgLoss[j])]

-----------------------------------------------------------------------------
(* True range and direction, of candles with high, low and close.          *)

TrueRange(kLines, i) ==
  LET close == kLines[i - 1].close
  IN  Larger(kLines[i].high -- kLines[i].low,
             Larger(AbsFrac(kLines[i].high -- close), AbsFrac(kLines[i].low -- close)))

ATRThrows(kLines, length) == Len(kLines) <= length

\* From the candle at length on. The first candle has no true range: high - low.
ATR(kLines, length) ==
  Wilder([i \in DOMAIN kLines |-> IF i = 1 THEN kLines[1].high -- kLines[1].low
                                  ELSE TrueRange(kLines, i)], length)

\* Mutant of DownMove: its sign is that of the move up.
DownMoveUpward(kLines, i) == kLines[i + 1].low -- kLines[i].low

UpMove(kLines, i) == kLines[i + 1].high -- kLines[i].high
DownMove(kLines, i) == kLines[i].low -- kLines[i + 1].low

\* The larger of the two moves counts, and only if it is one.
DirectionalMove(move, other) == IF Less(other, move) /\ Less(Zero, move) THEN move ELSE Zero

ADXThrows(kLines, length) == Len(kLines) < 2 * length

\* dx from the smoothed moves: their difference relative to their sum.
DX(plus, minus, range) ==
  IF range = Zero \/ plus ++ minus = Zero THEN Zero
  ELSE Percent(AbsFrac(plus -- minus) // (plus ++ minus))

\* One value for each candle; those before the first valid one are zero.
ADX(kLines, length) ==
  LET moves == 1..(Len(kLines) - 1)
      Up(i) == UpMove(kLines, i)
      Down(i) == DownMove(kLines, i)
      range == Wilder([i \in moves |-> TrueRange(kLines, i + 1)], length)
      plus == Wilder([i \in moves |-> DirectionalMove(Up(i), Down(i))], length)
      minus == Wilder([i \in moves |-> DirectionalMove(Down(i), Up(i))], length)
      adx == Wilder([k \in 1..(Len(kLines) - length) |-> DX(plus[k], minus[k], range[k])], length)
  IN  [i \in DOMAIN kLines |-> IF i < 2 * length THEN Zero ELSE adx[i - 2 * length + 1]]

-----------------------------------------------------------------------------
(* SuperTrend: two bands that follow the candles, and the trend that picks *)
(* one of them.                                                            *)

\* Mutant of FinalLower: the lower band does not stick.
FinalLowerLoose(basic, lower, close) == basic

\* The bands stick: the upper one only falls, the lower one only rises, unless
\* the candle before has closed beyond it.
FinalUpper(basic, upper, close) == IF Less(basic, upper) \/ Less(upper, close) THEN basic ELSE upper
FinalLower(basic, lower, close) == IF Less(lower, basic) \/ Less(close, lower) THEN basic ELSE lower

\* The trend turns when a candle closes beyond the band it follows.
Trend(trend, close, upper, lower) ==
  IF trend = "up" THEN IF Less(close, lower) THEN "down" ELSE "up"
  ELSE IF Less(upper, close) THEN "up" ELSE "down"

FirstTrend(close, upper, lower) ==
  IF Less(upper, close) THEN "up" ELSE IF Less(close, lower) THEN "down" ELSE "up"

BasicBands(candle, width) ==
  LET mid == (candle.high ++ candle.low) // Whole(2)
  IN  [upper |-> mid ++ width, lower |-> mid -- width]

FirstState(basic, close) ==
  [upper |-> basic.upper, lower |-> basic.lower, trend |-> FirstTrend(close, basic.upper, basic.lower)]

NextState(before, basic, closeBefore, close) ==
  LET Turned(upper, lower) ==
        [upper |-> upper, lower |-> lower, trend |-> Trend(before.trend, close, upper, lower)]
  IN  Turned(FinalUpper(basic.upper, before.upper, closeBefore),
             FinalLower(basic.lower, before.lower, closeBefore))

\* The loop of SuperTrend: bands and trend at each of some candles, from basic bands.
TrendLoop(candles, basic) ==
  LET states[j \in DOMAIN candles] ==
        IF j = 1 THEN <<FirstState(basic[1], candles[1].close)>>
        ELSE LET before == states[j - 1]
             IN  Append(before, NextState(before[j - 1], basic[j], candles[j - 1].close, candles[j].close))
  IN  states[Len(candles)]

\* The candles from length on have an average range.
TrendStates(kLines, factor, length) ==
  LET Basic(candles, atr) == [j \in DOMAIN atr |-> BasicBands(candles[j], factor ** atr[j])]
      candles == From(kLines, length)
  IN  TrendLoop(candles, Basic(candles, ATR(kLines, length)))

Line(state) == IF state.trend = "up" THEN state.lower ELSE state.upper

SuperTrend(kLines, factor, length) ==
  LET Lines(states) == [j \in DOMAIN states |-> Line(states[j])]
  IN  Lines(TrendStates(kLines, factor, length))
=============================================================================
