---------------------------- MODULE BacktestFeeder ---------------------------
(***************************************************************************)
(* The feeder that reads candles from data files, one for each interval,   *)
(* through a cache. A call that the cache does not cover awaits the file,  *)
(* fills the cache and only then reads it: between the two, a concurrent   *)
(* call may have filled it again. A candle is its close time.              *)
(***************************************************************************)
EXTENDS Integers, Sequences, SequencesExt, FiniteSetsExt

CONSTANTS Call,        \* concurrent calls of getBinanceKLines
          Interval,    \* candle lengths, a data file for each
          FirstFile,   \* contents of a data file at the start; None: there is none
          CacheSize,   \* dataCacheSize
          None

ASSUME IntervalAssumption == Interval \subseteq Nat \ {0}
ASSUME CacheSizeAssumption == CacheSize \in Nat

\* Candles come in order, an interval or more apart.
IsCandles(candles, interval) ==
  /\ candles \in Seq(Nat)
  /\ \A j, k \in DOMAIN candles : j < k => candles[k] - candles[j] >= interval * (k - j)

ASSUME FileAssumption ==
  \A i \in Interval : \A candles \in FirstFile \ {None} : IsCandles(candles, i)
ASSUME NoneAssumption == None \notin Seq(Nat)

VARIABLES
  file,       \* data file of an interval: candles, or None
  cache,      \* candles of an interval in memory
  source,     \* history: the file the cache was filled from; None: of no one file
  calls       \* [state, window, answer]; rows: read from files that have been
              \* written since, or None; history: raced, windows that others have
              \* loaded between this call's load and its answer; source of the answer

memoryVars == <<cache, source, calls>>
feederVars == <<file, memoryVars>>

Window == [clock : Nat, interval : Interval, limit : Nat]

Start(w) == w.clock - w.interval * w.limit

Idle == [state |-> "idle", window |-> None, answer |-> <<>>, rows |-> None,
         raced |-> {}, source |-> None]

FeederInit ==
  /\ file \in [Interval -> FirstFile]
  /\ cache = [i \in Interval |-> <<>>]
  /\ source = [i \in Interval |-> None]
  /\ calls = [c \in Call |-> Idle]

\* The candles up to the first that is later than the clock.
Past(candles, clock) ==
  LET later == {k \in DOMAIN candles : candles[k] > clock}
  IN  IF later = {} THEN candles ELSE SubSeq(candles, 1, Min(later) - 1)

LastOnes(s, n) == IF Len(s) <= n THEN s ELSE SubSeq(s, Len(s) - n + 1, Len(s))
FirstOnes(s, n) == IF Len(s) <= n THEN s ELSE SubSeq(s, 1, n)

After(candles, start) ==
  LET kept[k \in 0..Len(candles)] ==
        IF k = 0 THEN <<>>
        ELSE IF candles[k] > start THEN Append(kept[k - 1], candles[k])
        ELSE kept[k - 1]
  IN  kept[Len(candles)]

\* Mutant of Observed: the oldest candle is dropped as soon as the limit is reached.
ObservedOneLess(candles, w) == LastOnes(After(Past(candles, w.clock), Start(w)), w.limit - 1)

\* Candles of the window, the newest of them if there are too many.
Observed(candles, w) == LastOnes(After(Past(candles, w.clock), Start(w)), w.limit)

\* The cache begins before the window and ends after it.
Covers(w) ==
  LET candles == cache[w.interval]
  IN  candles # <<>> /\ Head(candles) < Start(w) /\ Last(candles) > w.clock

Answering(call) ==
  LET w == call.window
  IN  [call EXCEPT !.state = "answered", !.answer = Observed(cache[w.interval], w),
                   !.rows = None, !.source = source[w.interval]]

\* getBinanceKLines: answered from the cache, or loadKLinesFromBinanceCSV is
\* awaited.
Ask(c, w) ==
  LET call == [Idle EXCEPT !.window = w]
  IN  /\ calls[c].state = "idle"
      /\ \/ Covers(w) /\ calls' = [calls EXCEPT ![c] = Answering(call)]
         \/ ~Covers(w) /\ calls' = [calls EXCEPT ![c] = [call EXCEPT !.state = "loading"]]
      /\ UNCHANGED <<file, cache, source>>

\* Mutants of Loaded: the last candle that fits is left out, one more is kept, or the
\* first candle of the window is left out.
LoadedOneLess(rows, w) == FirstOnes(After(rows, Start(w)), CacheSize)
LoadedFromLater(rows, w) == FirstOnes(After(rows, Start(w) + w.interval), CacheSize + 1)
LoadedOneMore(rows, w) == FirstOnes(After(rows, Start(w)), CacheSize + 2)

\* What rows give from the start of the window on: at most one more than
\* dataCacheSize, which is compared before a candle is added.
Loaded(rows, w) == FirstOnes(After(rows, Start(w)), CacheSize + 1)

Pieces(s) == {SubSeq(s, k, n) : k \in 1..(Len(s) + 1), n \in 0..Len(s)}

\* The rows a call gets: the file's, or those read before it was written and a
\* piece of what it is now. (A row that is cut there is left out, or throws.)
RowsRead(call) ==
  LET now == file[call.window.interval]
  IN  IF call.rows = None THEN {now} ELSE {call.rows \o piece : piece \in Pieces(now)}

\* The file has been read: the cache is replaced.
Load(c) ==
  LET w == calls[c].window
      Races(d) == calls[d].state = "loaded" /\ calls[d].window.interval = w.interval
  IN  /\ calls[c].state = "loading"
      /\ file[w.interval] # None
      /\ \E rows \in RowsRead(calls[c]) :
           cache' = [cache EXCEPT ![w.interval] = Loaded(rows, w)]
      /\ source' = [source EXCEPT ![w.interval] =
                      IF calls[c].rows = None THEN file[w.interval] ELSE None]
      /\ calls' = [d \in Call |->
                     IF d = c THEN [calls[c] EXCEPT !.state = "loaded"]
                     ELSE IF Races(d) THEN [calls[d] EXCEPT !.raced = @ \cup {w}]
                     ELSE calls[d]]
      /\ UNCHANGED file

\* The call goes on and reads the cache, whoever has filled it last.
Answer(c) ==
  /\ calls[c].state = "loaded"
  /\ calls' = [calls EXCEPT ![c] = Answering(@)]
  /\ UNCHANGED <<file, cache, source>>

-----------------------------------------------------------------------------
\* The cache keeps its limit, too.
FeederTypeOK ==
  /\ \A i \in Interval : cache[i] \in Seq(Nat) /\ Len(cache[i]) <= CacheSize + 1
  /\ \A c \in Call :
       /\ calls[c].state \in {"idle", "loading", "loaded", "answered", "failed"}
       /\ calls[c].window \in Window \cup {None}
       /\ calls[c].raced \subseteq Window

Answered(c) == calls[c].state = "answered" /\ calls[c].source # None
Expected(c) == Observed(calls[c].source, calls[c].window)
Fits(w) == w.limit <= CacheSize + 1

\* The cache does not show: an answer is what the file said of the window when the
\* cache was filled, however calls have filled it before and builds have written the
\* file since, unless another call has filled the cache while this one was waiting,
\* or the file was written while it was read. (getBinanceKLines)
AnswersAreExact ==
  \A c \in Call :
    (Answered(c) /\ Fits(calls[c].window) /\ calls[c].raced = {}) =>
      calls[c].answer = Expected(c)

\* Calls that race for windows of one clock (a strategy's calls of one next())
\* lose at most the oldest candles: the newest one is always there, so that the
\* market price is right.
AnswersAreRecent ==
  \A c \in Call :
    (/\ Answered(c)
     /\ \A w \in calls[c].raced \cup {calls[c].window} :
          Fits(w) /\ w.clock = calls[c].window.clock /\ w.limit > 0)
    => LET answer == ToSet(calls[c].answer)
           expected == ToSet(Expected(c))
       IN  /\ answer \subseteq expected
           /\ \A t \in answer, u \in expected : t < u => u \in answer
           /\ \A u \in expected :
                u > calls[c].window.clock - calls[c].window.interval => u \in answer
=============================================================================
