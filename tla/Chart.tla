-------------------------------- MODULE Chart --------------------------------
(***************************************************************************)
(* K-lines arrive one at a time, and a strategy computes its indicators    *)
(* anew from all of them, compares series, and looks for the grid level    *)
(* nearest to the close.                                                   *)
(***************************************************************************)
EXTENDS Indicator, Series, GridLevels

CONSTANTS KLine,      \* k-lines: [high, low, close], fractions
          MaxKLines,  \* bound: k-lines of a chart
          Length,     \* length of the averages, of RSI, ATR, ADX and SuperTrend
          SlowLength, \* slow length of MACD, Length is its fast one
          SignalLengths, \* signal lengths of MACD
          Factor,     \* factor of SuperTrend, multiplier of BollingerBands
          Grid        \* grids

ASSUME ChartAssumption ==
  /\ MaxKLines \in Nat
  /\ Length \in Nat \ {0, 1} /\ SlowLength \in Nat /\ SlowLength > Length
  /\ SignalLengths \subseteq Nat \ {0}
  /\ Grid \subseteq Grids
  /\ IsFraction(Factor)
  /\ \A k \in KLine : /\ IsFraction(k.high) /\ IsFraction(k.low) /\ IsFraction(k.close)
                      /\ AtMost(k.low, k.close) /\ AtMost(k.close, k.high)

VARIABLE kLines

Init == kLines = <<>>

KLineArrives == \E k \in KLine : Len(kLines) < MaxKLines /\ kLines' = Append(kLines, k)

Next == KLineArrives

Spec == Init /\ [][Next]_kLines

High(ks) == [i \in DOMAIN ks |-> ks[i].high]
Low(ks) == [i \in DOMAIN ks |-> ks[i].low]
Close(ks) == [i \in DOMAIN ks |-> ks[i].close]

-----------------------------------------------------------------------------
(* Definitions without loops.                                              *)

Power(a, n) == LET power[i \in 0..n] == IF i = 0 THEN Whole(1) ELSE a ** power[i - 1] IN power[n]

\* A value at index i with weight alpha, each before it with 1 - alpha of the next
\* one's; the mean of the first length values has the rest.
Weighted(s, length, alpha, i) ==
  LET rest == Whole(1) -- alpha
  IN  (Power(rest, i - length) ** Mean(First(s, length)))
        ++ Total([k \in 1..(i - length) |-> (alpha ** Power(rest, i - length - k)) ** s[length + k]])

Wilders(s, i) == Weighted(s, Length, Frac(1, Length), i)

\* A series that is not longer than Length is its own average.
MeansMatch(s) ==
  LET Match(sma, ema, rma) == \A j \in 1..(Len(s) - Length + 1) :
        LET i == Length + j - 1
        IN  /\ sma[j] = Mean(SubSeq(s, j, i))
            /\ ema[j] = Weighted(s, Length, Frac(2, Length + 1), i)
            /\ rma[j] = Wilders(s, i)
  IN  Len(s) > Length => Match(SMA(s, Length), EMA(s, Length), RMA(s, Length))

RSIMatches(s) ==
  LET change == [k \in 1..(Len(s) - 1) |-> s[k + 1] -- s[k]]
      gains == [k \in DOMAIN change |-> Larger(change[k], Zero)]
      moves == [k \in DOMAIN change |-> AbsFrac(change[k])]
      Strength(gain, move) == IF move = Zero THEN Whole(100) ELSE Percent(gain // move)
  IN  RSI(s, Length) = [j \in 1..(Len(s) - Length) |->
                          Strength(Wilders(gains, Length + j - 1), Wilders(moves, Length + j - 1))]

\* From the higher to the lower end of a candle together with the close before it.
Spread(ks, i) ==
  IF i = 1 THEN ks[1].high -- ks[1].low
  ELSE Larger(ks[i].high, ks[i - 1].close) -- Smaller(ks[i].low, ks[i - 1].close)

\* ATR throws until there is a second value.
ATRMatches(ks) ==
  LET ranges == [i \in DOMAIN ks |-> Spread(ks, i)]
      atr == [j \in 1..(Len(ks) - Length + 1) |-> Wilders(ranges, Length + j - 1)]
  IN  IF ATRThrows(ks, Length) THEN Len(atr) <= 1 ELSE ATR(ks, Length) = atr

\* Steps of the directional index: (+DI - DI) / (+DI + -DI) of the averages, averaged.
\* ADX throws while there are too few steps to average.
ADXMatches(ks) ==
  LET up == [i \in 1..(Len(ks) - 1) |-> ks[i + 1].high -- ks[i].high]
      down == [i \in DOMAIN up |-> ks[i].low -- ks[i + 1].low]
      plus == [i \in DOMAIN up |-> IF Less(Larger(down[i], Zero), up[i]) THEN up[i] ELSE Zero]
      minus == [i \in DOMAIN up |-> IF Less(Larger(up[i], Zero), down[i]) THEN down[i] ELSE Zero]
      Directed(p, m) == IF p ++ m = Zero THEN Zero ELSE Percent(AbsFrac(p -- m) // (p ++ m))
      dx == [k \in 1..(Len(up) - Length + 1) |->
               Directed(Wilders(plus, Length + k - 1), Wilders(minus, Length + k - 1))]
      Match(adx) == /\ Len(adx) = Len(ks)
                    /\ \A i \in 2 * Length..Len(ks) : adx[i] = Wilders(dx, i - Length)
  IN  IF ADXThrows(ks, Length) THEN Len(dx) < Length ELSE Match(ADX(ks, Length))

\* From SlowLength + signal closes on the three arrays of MACD end with the last close
\* and have a value for each of the last closes. MACD throws only where its line has not
\* the values for one of the signal; of its answers in between nothing is said.
MACDMatches(s, signal) ==
  LET Average(x, length, i) == Weighted(x, length, Frac(2, length + 1), i)
      Aligned(m, line) ==
        /\ m.macd = From(line, signal)
        /\ m.signal = [j \in DOMAIN m.macd |-> Average(line, signal, signal + j - 1)]
        /\ m.hist = [j \in DOMAIN m.macd |-> m.macd[j] -- m.signal[j]]
      line == [k \in 1..(Len(s) - SlowLength + 1) |->
                 Average(s, Length, SlowLength + k - 1) -- Average(s, SlowLength, SlowLength + k - 1)]
  IN  /\ MACDThrows(s, Length, SlowLength, signal) => Len(line) < signal
      /\ Len(s) >= SlowLength + signal => Aligned(MACD(s, Length, SlowLength, signal), line)

-----------------------------------------------------------------------------
\* The averages, RSI, ATR, ADX and MACD, each computed in one pass with a running
\* value, are what their definitions say of every window. RSI is empty and ADX and MACD
\* throw only where the definition has no value; ATR throws also where it has one, the
\* first, which its loop computes (indicator.ts:255, :266-278). Not covered are averages
\* of a series that is not longer than Length, and MACD with fewer closes than
\* SlowLength + signal, whose arrays differ in length although indicator.ts:163 calls
\* them aligned. (indicator.ts)
IndicatorsMatchDefinitions ==
  /\ MeansMatch(Close(kLines)) /\ RSIMatches(Close(kLines))
  /\ \A signal \in SignalLengths : MACDMatches(Close(kLines), signal)
  /\ ATRMatches(kLines) /\ ADXMatches(kLines)

Extends(s, t) == SubSeq(t, 1, Len(s)) = s

\* A value once given is never changed by a later k-line: a signal in a backtest is the
\* signal that was given live. Averages of a series that is too short are the series
\* itself, and change once.
HistoryIsKept ==
  [][LET before == Close(kLines)
         after == Close(kLines')
     IN  /\ Len(kLines) > Length =>
              /\ Extends(SMA(before, Length), SMA(after, Length))
              /\ Extends(EMA(before, Length), EMA(after, Length))
              /\ Extends(RMA(before, Length), RMA(after, Length))
              /\ Extends(ATR(kLines, Length), ATR(kLines', Length))
              /\ Extends(SuperTrend(kLines, Factor, Length), SuperTrend(kLines', Factor, Length))
         /\ Len(kLines) >= 2 * Length => Extends(ADX(kLines, Length), ADX(kLines', Length))
         /\ \A signal \in SignalLengths : Len(kLines) >= SlowLength + signal =>
              Extends(MACD(before, Length, SlowLength, signal).hist,
                      MACD(after, Length, SlowLength, signal).hist)
         /\ Extends(RSI(before, Length), RSI(after, Length))
         /\ Extends(BollingerBands(before, Length, Factor), BollingerBands(after, Length, Factor))
    ]_kLines

Negative(a) == Zero -- a
Mirror(ks) == [i \in DOMAIN ks |-> [high |-> Negative(ks[i].low), low |-> Negative(ks[i].high),
                                    close |-> Negative(ks[i].close)]]

\* A chart upside down: strength is 100 less the strength, a market that never moved
\* being all strong either way; range and direction are the same; averages, bands and
\* MACD change their sign. So up and down are treated alike, step by step.
MirrorSymmetry ==
  LET up == Close(kLines)
      down == Close(Mirror(kLines))
      rsiUp == RSI(up, Length)
      rsiDown == RSI(down, Length)
      Hist(closes, signal) == MACD(closes, Length, SlowLength, signal).hist
      Opposite(a, b) == b = [j \in DOMAIN a |-> Negative(a[j])]
      Flipped(bands) == [j \in DOMAIN bands |-> [bands[j] EXCEPT !.basis = Negative(@)]]
  IN  /\ \A j \in DOMAIN rsiUp :
           LET flat == \A i \in 2..(Length + j) : up[i] = up[1]
           IN  IF flat THEN rsiDown[j] = rsiUp[j] ELSE rsiUp[j] ++ rsiDown[j] = Whole(100)
      /\ BollingerBands(down, Length, Factor) = Flipped(BollingerBands(up, Length, Factor))
      /\ Len(kLines) > Length => ATR(Mirror(kLines), Length) = ATR(kLines, Length)
      /\ Len(kLines) >= 2 * Length => ADX(Mirror(kLines), Length) = ADX(kLines, Length)
      /\ \A signal \in SignalLengths : Len(kLines) >= SlowLength + signal =>
           Opposite(Hist(up, signal), Hist(down, signal))

\* The line of SuperTrend is on the far side of the close from the trend, and goes only
\* its way while the trend lasts: a stop that trails. Both hold as long as the bands
\* have not crossed, which a jump of the price over both of them may do.
SuperTrendFollowsClose ==
  LET Beyond(trend, a, b) == IF trend = "up" THEN AtMost(a, b) ELSE AtMost(b, a)
      Crossed(state) == Less(state.upper, state.lower)
      Follows(states) == \A j \in DOMAIN states : ~Crossed(states[j]) =>
        /\ Beyond(states[j].trend, Line(states[j]), kLines[Length + j - 1].close)
        /\ (j > 1 /\ ~Crossed(states[j - 1]) /\ states[j - 1].trend = states[j].trend) =>
             Beyond(states[j].trend, Line(states[j - 1]), Line(states[j]))
  IN  Len(kLines) > Length => Follows(TrendStates(kLines, Factor, Length))

\* What a strategy is told at the i-th k-line about the close and its average.
Report(i) ==
  LET close == First(Close(kLines), i)
      average == SMA(close, Length)
  IN  IF CrossingOver(close, average) THEN "over"
      ELSE IF CrossingUnder(close, average) THEN "under" ELSE "none"

\* The last crossing that was reported tells on which side of its average the close is
\* now, also after it has touched the average; and a crossing of two series is a
\* crossing of their difference and zero.
CrossingsTellTheSide ==
  LET close == Close(kLines)
      average == SMA(close, Length)
      reports == {i \in DOMAIN kLines : Report(i) # "none"}
      last == CHOOSE i \in reports : \A k \in reports : k <= i
      difference == Sub(From(close, Length), average)
  IN  Len(kLines) > Length =>
        /\ reports # {} /\ Last(close) # Last(average) =>
             Report(last) = IF Less(Last(average), Last(close)) THEN "over" ELSE "under"
        /\ CrossingOver(close, average) <=> CrossingOver(difference, <<Zero>>)
        /\ CrossingUnder(close, average) <=> CrossingUnder(difference, <<Zero>>)

\* The close finds the level nearest to it, as far as the rounding of the interval
\* allows; where rounding has opened a gap below the upper price, it finds none.
\* (state_manager.ts: init, getNearestLevel)
NearestLevelIsFound ==
  kLines # <<>> =>
    LET price == Last(kLines).close.num
    IN  \A g \in Grid : FindsLevel(g, price) /\ FindsNearest(g, price)
=============================================================================
