------------------------------ MODULE DataBuild ------------------------------
(***************************************************************************)
(* Building a data file: the archive of each day is downloaded, one after  *)
(* the other, into a file of its own, then the data file is written anew   *)
(* from them. Builds that overlap write to the same files.                 *)
(*                                                                         *)
(* Meanwhile calls of the feeder read the data file.                       *)
(*                                                                         *)
(* Opening a day's file for writing empties it; it is whole when all of it *)
(* has come since. A download that hangs is one that makes no step.        *)
(***************************************************************************)
EXTENDS BacktestFeeder

CONSTANTS Build,       \* builds requested
          Day,
          WindowAsked, \* windows of calls
          Stretch,     \* [interval, first, last]: days asked for
          Archive      \* candles of the days published, of an interval

ASSUME DayAssumption == Day \subseteq Nat
ASSUME WindowAssumption == WindowAsked \subseteq Window
ASSUME StretchAssumption ==
  \A s \in Stretch : s \in [interval : Interval, first : Nat, last : Nat] /\ s.first..s.last \subseteq Day

VARIABLES
  archives,   \* [writer, whole]: file of a day; writer has opened it last
  builds,     \* [state, stretch, day]
  collided    \* history: builds that have written, while both were downloading, a
              \* day's file of another

buildVars == <<archives, builds, collided>>
dataVars == <<feederVars, buildVars>>

NoBuild == [state |-> "idle", stretch |-> None, day |-> 0]

DataInit ==
  /\ FeederInit
  /\ archives = [i \in Interval |-> [d \in Day |-> [writer |-> None, whole |-> FALSE]]]
  /\ builds = [b \in Build |-> NoBuild]
  /\ collided = {}

DaysOf(s) == s.first..s.last

Downloading == {b \in Build : builds[b].state = "downloading"}

\* Builds that are downloading some of the days of a stretch, too.
Rivals(s) ==
  {b \in Downloading : /\ builds[b].stretch.interval = s.interval
                       /\ DaysOf(builds[b].stretch) \cap DaysOf(s) # {}}

\* The candles of days, each of them less the header of its archive.
Content(i, first, last) == FlattenSeq([k \in 1..(last - first + 1) |-> Archive[i][first + k - 1]])

Whole(s) == Content(s.interval, s.first, s.last)

\* The candles of published days in a row are candles, put together.
ASSUME ArchiveAssumption ==
  \A s \in Stretch : \A last \in (s.first - 1)..s.last :
    s.first..last \subseteq DOMAIN Archive[s.interval] =>
      IsCandles(Content(s.interval, s.first, last), s.interval)

\* createWriteStream, for the day of a build.
Opened(b, s, day) == [archives EXCEPT ![s.interval][day] = [writer |-> b, whole |-> FALSE]]

\* A file is written while a call is loading: it has read none of it, or some rows
\* from its beginning, or from where the file written before had left it.
Overtaken(call) ==
  LET old == file[call.window.interval]
      before == IF old = None THEN {<<>>} ELSE IF call.rows = None THEN Prefixes(old) ELSE Pieces(old)
      rows == IF call.rows = None THEN <<>> ELSE call.rows
  IN  {call} \cup {[call EXCEPT !.rows = rows \o piece] : piece \in before}

FileIsWritten(i) ==
  LET Becomes(c) == IF calls[c].state = "loading" /\ calls[c].window.interval = i
                    THEN Overtaken(calls[c]) ELSE {calls[c]}
  IN  /\ calls' \in {after \in [Call -> UNION {Becomes(c) : c \in Call}] :
                       \A c \in Call : after[c] \in Becomes(c)}
      /\ UNCHANGED <<cache, source>>

\* buildBinanceKLineData is called, for some days.
BuildStarts(b, s) ==
  /\ builds[b].state = "idle"
  /\ s.first <= s.last
  /\ builds' = [builds EXCEPT ![b] = [state |-> "downloading", stretch |-> s, day |-> s.first]]
  /\ archives' = Opened(b, s, s.first)
  /\ collided' = IF Rivals(s) = {} THEN collided ELSE collided \cup Rivals(s) \cup {b}
  /\ UNCHANGED feederVars

\* The same for none, as when a date is not one: the file is its header.
NothingToBuild(b, s) ==
  /\ builds[b].state = "idle"
  /\ s.first > s.last
  /\ builds' = [builds EXCEPT ![b] = [state |-> "built", stretch |-> s, day |-> 0]]
  /\ file' = [file EXCEPT ![s.interval] = <<>>]
  /\ FileIsWritten(s.interval)
  /\ UNCHANGED <<archives, collided>>

\* What a build's download leaves of the day's file when it ends, if the day is
\* published: another download that has opened it since may have emptied it before
\* or after the candles came.
DayArrives(b) ==
  LET s == builds[b].stretch
      day == builds[b].day
      archive == archives[s.interval][day]
      outcomes == IF archive.writer = b \/ archive.whole THEN {TRUE} ELSE BOOLEAN
  IN  IF day \in DOMAIN Archive[s.interval]
      THEN {[archive EXCEPT !.whole = whole] : whole \in outcomes} ELSE {}

\* Mutant of Written: what the file had before is not cleared.
WrittenAfterOld(s, days) ==
  LET broken == {d \in DaysOf(s) : ~days[d].whole}
      last == IF broken = {} THEN s.last ELSE (CHOOSE d \in broken : \A e \in broken : d <= e) - 1
      old == IF file[s.interval] = None THEN <<>> ELSE file[s.interval]
  IN  old \o Content(s.interval, s.first, last)

\* The header, then the days in turn; a day's file that is not whole throws.
Written(s, days) ==
  LET broken == {d \in DaysOf(s) : ~days[d].whole}
      last == IF broken = {} THEN s.last ELSE (CHOOSE d \in broken : \A e \in broken : d <= e) - 1
  IN  Content(s.interval, s.first, last)

\* A download ends, and the next one begins.
DownloadEnds(b) ==
  LET s == builds[b].stretch
      next == builds[b].day + 1
  IN  /\ b \in Downloading /\ builds[b].day < s.last
      /\ \E archive \in DayArrives(b) :
           archives' = [archives EXCEPT ![s.interval] =
                          [@ EXCEPT ![builds[b].day] = archive, ![next] = [writer |-> b, whole |-> FALSE]]]
      /\ builds' = [builds EXCEPT ![b].day = next]
      /\ UNCHANGED <<feederVars, collided>>

\* The last download ends, and the data file is written, at one go.
FileIsBuilt(b) ==
  LET s == builds[b].stretch
  IN  /\ b \in Downloading /\ builds[b].day = s.last
      /\ \E archive \in DayArrives(b) :
           LET days == [archives[s.interval] EXCEPT ![s.last] = archive]
           IN  /\ archives' = [archives EXCEPT ![s.interval] = days]
               /\ file' = [file EXCEPT ![s.interval] = Written(s, days)]
               /\ builds' = [builds EXCEPT ![b].state =
                               IF \A d \in DaysOf(s) : days[d].whole THEN "built" ELSE "failed"]
      /\ FileIsWritten(s.interval)
      /\ UNCHANGED collided

\* The request for a day fails, as it does for one that is not published: the data
\* file stays, and the day's file is left as it is.
DownloadFails(b) ==
  /\ b \in Downloading
  /\ builds' = [builds EXCEPT ![b] = [NoBuild EXCEPT !.state = "failed"]]
  /\ UNCHANGED <<feederVars, archives, collided>>

\* The parser throws at a row that is cut.
LoadThrows(c) ==
  /\ calls[c].state = "loading" /\ calls[c].rows # None
  /\ calls' = [calls EXCEPT ![c] = [Idle EXCEPT !.state = "failed"]]
  /\ UNCHANGED <<file, cache, source>>

\* The stream of a file that does not exist has no listener for its error.
FileIsMissing(c) == calls[c].state = "loading" /\ file[calls[c].window.interval] = None

\* Nor has a download's: the answer's stream never has one, the file's only once the
\* answer has come.
DownloadMayBreak == Downloading # {}

\* When an error that nothing catches has ended the process, it is started again: the
\* files are as they were left, open to nobody, and nothing else is.
Restart ==
  /\ DownloadMayBreak \/ \E c \in Call : FileIsMissing(c)
  /\ builds' = [b \in Build |-> NoBuild] /\ collided' = {}
  /\ cache' = [i \in Interval |-> <<>>] /\ source' = [i \in Interval |-> None]
  /\ calls' = [c \in Call |-> Idle]
  /\ archives' = [i \in Interval |-> [d \in Day |-> [archives[i][d] EXCEPT !.writer = None]]]
  /\ UNCHANGED file

DataNext ==
  \/ \E c \in Call :
       /\ (\E w \in WindowAsked : Ask(c, w)) \/ Load(c) \/ LoadThrows(c) \/ Answer(c)
       /\ UNCHANGED buildVars
  \/ \E b \in Build :
       \/ \E s \in Stretch : BuildStarts(b, s) \/ NothingToBuild(b, s)
       \/ DownloadEnds(b) \/ FileIsBuilt(b) \/ DownloadFails(b)
  \/ Restart

DataSpec == DataInit /\ [][DataNext]_dataVars

-----------------------------------------------------------------------------
DataTypeOK ==
  /\ FeederTypeOK
  /\ \A i \in Interval : \A d \in Day : archives[i][d].writer \in Build \cup {None}
  /\ \A b \in Build :
       /\ builds[b].state \in {"idle", "downloading", "built", "failed"}
       /\ b \in Downloading => builds[b].day \in DaysOf(builds[b].stretch)

\* A data file only ever changes to all candles of one build's days, unless builds
\* have downloaded the same day at the same time: a failed one leaves the file alone,
\* and what earlier ones have left of a day's file does not get into it.
\* (buildBinanceKLineData)
OnlyCollisionsSpoilFile ==
  [][\A i \in Interval : file'[i] # file[i] =>
       \E b \in Build : /\ builds'[b] # builds[b]
                        /\ builds'[b].stretch.interval = i
                        /\ b \in collided \/ file'[i] = Whole(builds'[b].stretch)]_file
=============================================================================
