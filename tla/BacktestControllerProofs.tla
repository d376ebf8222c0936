---------------------- MODULE BacktestControllerProofs ----------------------
(***************************************************************************)
(* Proofs about what the controller of backtests is asked for.             *)
(*                                                                         *)
(* Data files, for any number of builds, days and candles: a build that    *)
(* shares no day with another one while both are downloading finds the     *)
(* days' files as it has left them.                                        *)
(*                                                                         *)
(* Backtests, for any number of them, any strategies, intervals and ends:  *)
(* alone, a backtest keeps its brokers on the clock of the service,        *)
(* reaches its end and has a record for every interval. That it is alone   *)
(* is all the argument needs of the others. The drawdown reported is the   *)
(* worst streak of any records.                                            *)
(*                                                                         *)
(* The feeder, for any files of candles, any calls, builds and restarts:   *)
(* what it gives is a piece of the file, and the same piece as without a   *)
(* cache. The pages of backtests follow from both.                         *)
(***************************************************************************)
EXTENDS BacktestController, DataBuild, DataLemmas, SequenceTheorems, TLAPS

-----------------------------------------------------------------------------
(* Data files.                                                             *)

ArchiveFile == [writer : Build \cup {None}, whole : BOOLEAN]
BuildStates == {"idle", "downloading", "built", "failed"}
BuildRecord == [state : BuildStates, stretch : Stretch \cup {None}, day : Nat]

BuildsOK ==
  /\ archives \in [Interval -> [Day -> ArchiveFile]]
  /\ builds \in [Build -> BuildRecord]
  /\ \A b \in Downloading : /\ builds[b].stretch \in Stretch
                            /\ builds[b].day \in DaysOf(builds[b].stretch)

Disjoint(s, t) == s.interval # t.interval \/ DaysOf(s) \cap DaysOf(t) = {}

\* What a build that has not collided knows of its days' files.
OwnDays(b) ==
  LET s == builds[b].stretch
      day == builds[b].day
  IN  /\ archives[s.interval][day].writer = b
      /\ \A d \in s.first..(day - 1) : archives[s.interval][d].whole
      /\ \A q \in Downloading \ {b} : Disjoint(s, builds[q].stretch)

\* The inductive invariant.
DataIInv == BuildsOK /\ \A b \in Downloading \ collided : OwnDays(b)

Spoils == \A i \in Interval : file'[i] # file[i] =>
            \E b \in Build : /\ builds'[b] # builds[b]
                             /\ builds'[b].stretch.interval = i
                             /\ b \in collided \/ file'[i] = Whole(builds'[b].stretch)

-----------------------------------------------------------------------------
\* The days of a stretch.
LEMMA StretchTypes ==
  ASSUME NEW s \in Stretch
  PROVE  /\ s.interval \in Interval /\ s.first \in Nat /\ s.last \in Nat
         /\ DaysOf(s) \subseteq Day /\ DaysOf(s) = s.first..s.last
         /\ \A d \in DaysOf(s) : d \in Nat
  BY StretchAssumption DEF DaysOf

\* No days have no candles.
LEMMA NothingIsWhole ==
  ASSUME NEW s \in Stretch, s.first > s.last
  PROVE  Whole(s) = <<>>
<1> DEFINE n == s.last - s.first + 1
           days == [k \in 1..n |-> Archive[s.interval][s.first + k - 1]]
<1>1. 1..n = {}
  BY StretchTypes
<1>2. days = <<>>
  BY <1>1
<1> HIDE DEF days
<1>3. Len(days) = 0
  <2>1. Len(<<>>) = 0
    OBVIOUS
  <2> QED
    BY <1>2, <2>1
<1>4. FlattenSeq(days) = <<>>
  BY SMTT(30), <1>2, <1>3 DEF FlattenSeq
<1> QED
  BY <1>4 DEF Whole, Content, days

\* A build that has opened its day's file last finds it whole.
LEMMA DayArrivesWhole ==
  ASSUME BuildsOK, NEW b \in Downloading, NEW archive \in DayArrives(b)
  PROVE  LET before == archives[builds[b].stretch.interval][builds[b].day]
         IN  /\ before \in ArchiveFile /\ archive \in ArchiveFile
             /\ archive.writer = before.writer
             /\ before.writer = b => archive.whole
<1> DEFINE s == builds[b].stretch
           before == archives[s.interval][builds[b].day]
<1>1. s \in Stretch /\ builds[b].day \in DaysOf(s)
  BY DEF BuildsOK
<1>2. s.interval \in Interval /\ builds[b].day \in Day
  BY <1>1, StretchTypes
<1>3. before \in ArchiveFile
  BY SMTT(30), <1>2 DEF BuildsOK
<1>4. PICK whole \in BOOLEAN : /\ archive = [before EXCEPT !.whole = whole]
                               /\ before.writer = b => whole = TRUE
  BY DEF DayArrives
<1> HIDE DEF before
<1>5. archive \in ArchiveFile /\ archive.writer = before.writer /\ archive.whole = whole
  BY <1>3, <1>4 DEF ArchiveFile
<1> QED
  BY Zenon, <1>3, <1>4, <1>5 DEF before

\* If all days are whole, all of them are written.
LEMMA WrittenWhole ==
  ASSUME NEW s \in Stretch, NEW days, \A d \in DaysOf(s) : days[d].whole
  PROVE  Written(s, days) = Whole(s)
<1>1. {d \in DaysOf(s) : ~days[d].whole} = {}
  OBVIOUS
<1> QED
  BY <1>1 DEF Written, Whole

-----------------------------------------------------------------------------
\* A build that starts collides with those that share a day with it.
LEMMA BuildStartsKeepsIInv ==
  ASSUME DataIInv, NEW b \in Build, NEW s \in Stretch, BuildStarts(b, s)
  PROVE  DataIInv'
<1> DEFINE build == [state |-> "downloading", stretch |-> s, day |-> s.first]
           opened == [writer |-> b, whole |-> FALSE]
<1>0. /\ s.interval \in Interval /\ s.first \in Day /\ s.first \in DaysOf(s)
      /\ s.first \in Nat /\ s.last \in Nat
  BY StretchTypes DEF BuildStarts
<1>1. /\ builds \in [Build -> BuildRecord] /\ b \notin Downloading
      /\ archives \in [Interval -> [Day -> ArchiveFile]]
  BY DEF DataIInv, BuildsOK, BuildStarts, Downloading
<1>2. /\ builds'[b] = build /\ \A q \in Build \ {b} : builds'[q] = builds[q]
      /\ builds' \in [Build -> BuildRecord]
  <2>1. build \in BuildRecord
    BY <1>0 DEF BuildRecord, BuildStates
  <2> QED
    BY <1>1, <2>1 DEF BuildStarts
<1>3. Downloading' = Downloading \cup {b}
  BY <1>1, <1>2 DEF Downloading
<1>4. /\ archives'[s.interval][s.first] = opened
      /\ archives' \in [Interval -> [Day -> ArchiveFile]]
      /\ \A i \in Interval, d \in Day :
           (i # s.interval \/ d # s.first) => archives'[i][d] = archives[i][d]
  <2>1. opened \in ArchiveFile
    BY DEF ArchiveFile
  <2>2. archives' = [archives EXCEPT ![s.interval] = [archives[s.interval] EXCEPT ![s.first] = opened]]
    BY <1>0, <1>1 DEF BuildStarts, Opened
  <2> HIDE DEF opened
  <2>3. archives[s.interval] \in [Day -> ArchiveFile]
    BY <1>0, <1>1
  <2> DEFINE days == [archives[s.interval] EXCEPT ![s.first] = opened]
  <2>4. days \in [Day -> ArchiveFile] /\ days[s.first] = opened
        /\ \A d \in Day : d # s.first => days[d] = archives[s.interval][d]
    BY <1>0, <2>1, <2>3
  <2> HIDE DEF days
  <2>5. archives' = [archives EXCEPT ![s.interval] = days]
    BY <2>2 DEF days
  <2> QED
    BY <1>0, <1>1, <2>4, <2>5
<1>5. BuildsOK'
  <2> SUFFICES ASSUME NEW q \in Downloading'
               PROVE  builds'[q].stretch \in Stretch /\ builds'[q].day \in DaysOf(builds'[q].stretch)
    BY <1>2, <1>4 DEF BuildsOK, Downloading
  <2>1. CASE q = b
    BY <1>0, <1>2, <2>1
  <2>2. CASE q # b
    BY <1>2, <1>3, <2>2 DEF DataIInv, BuildsOK, Downloading
  <2> QED
    BY <2>1, <2>2
<1>6. /\ \A q \in Rivals(s) : q \in collided'
      /\ Rivals(s) # {} => b \in collided'
      /\ collided \subseteq collided'
  BY DEF BuildStarts
<1>7. \A q \in Downloading \ Rivals(s) : Disjoint(builds[q].stretch, s)
  BY DEF Rivals, Disjoint
<1>8. ASSUME NEW q \in Downloading' \ collided'
      PROVE  OwnDays(q)'
  <2>1. CASE q = b
    <3>1. Rivals(s) = {}
      BY <1>6, <1>8, <2>1
    <3>2. \A p \in Downloading' \ {b} : Disjoint(s, builds'[p].stretch)
      BY <1>2, <1>3, <1>7, <3>1 DEF Disjoint, Downloading
    <3>3. s.first..(s.first - 1) = {}
      BY <1>0
    <3> QED
      BY <1>2, <1>4, <2>1, <3>2, <3>3 DEF OwnDays, Disjoint
  <2>2. CASE q # b
    <3> DEFINE t == builds[q].stretch
    <3>1. q \in Downloading \ Rivals(s) /\ OwnDays(q)
      BY <1>3, <1>6, <1>8, <2>2 DEF DataIInv
    <3>2. q \in Build /\ builds'[q] = builds[q] /\ t \in Stretch /\ builds[q].day \in DaysOf(t)
      BY <1>2, <2>2, <3>1 DEF Downloading, DataIInv, BuildsOK
    <3>3. t.interval \in Interval /\ DaysOf(t) \subseteq Day /\ DaysOf(t) = t.first..t.last
          /\ t.first \in Nat /\ t.last \in Nat /\ builds[q].day \in Nat
      BY <3>2, StretchTypes
    <3>4. \A d \in DaysOf(t) : archives'[t.interval][d] = archives[t.interval][d]
      BY <1>0, <1>4, <1>7, <3>1, <3>3 DEF Disjoint
    <3>5. \A d \in t.first..(builds[q].day - 1) : d \in DaysOf(t)
      BY <3>2, <3>3
    <3>6. \A p \in Downloading' \ {q} : Disjoint(t, builds'[p].stretch)
      <4> TAKE p \in Downloading' \ {q}
      <4>1. CASE p = b
        BY <1>2, <1>7, <3>1, <4>1 DEF Disjoint
      <4>2. CASE p # b
        BY <1>2, <1>3, <3>1, <4>2 DEF OwnDays, Downloading
      <4> QED
        BY <4>1, <4>2
    <3> QED
      BY <3>1, <3>2, <3>4, <3>5, <3>6 DEF OwnDays, Disjoint
  <2> QED
    BY <2>1, <2>2
<1> QED
  BY <1>5, <1>8 DEF DataIInv

\* A build goes on or stops; the others have days of their own.
LEMMA OthersKeepTheirDays ==
  ASSUME DataIInv, NEW b \in Downloading, collided' = collided,
         archives' \in [Interval -> [Day -> ArchiveFile]], builds' \in [Build -> BuildRecord],
         \A q \in Build \ {b} : builds'[q] = builds[q],
         \A i \in Interval, d \in Day :
           (i # builds[b].stretch.interval \/ d \notin DaysOf(builds[b].stretch)) =>
             archives'[i][d] = archives[i][d],
         b \in Downloading' => /\ builds'[b].stretch = builds[b].stretch
                               /\ builds'[b].day \in DaysOf(builds[b].stretch)
                               /\ b \notin collided => OwnDays(b)'
  PROVE  DataIInv'
<1> DEFINE s == builds[b].stretch
<1>1. Downloading' \subseteq Downloading \cup {b} /\ b \in Build
  BY DEF Downloading
<1>2. BuildsOK'
  <2> SUFFICES ASSUME NEW q \in Downloading'
               PROVE  builds'[q].stretch \in Stretch /\ builds'[q].day \in DaysOf(builds'[q].stretch)
    BY DEF BuildsOK
  <2>1. CASE q = b
    BY <2>1 DEF DataIInv, BuildsOK
  <2>2. CASE q # b
    BY SMTT(30), <1>1, <2>2 DEF DataIInv, BuildsOK, Downloading
  <2> QED
    BY <2>1, <2>2
<1>3. ASSUME NEW q \in Downloading' \ collided', q # b
      PROVE  OwnDays(q)'
  <2> DEFINE t == builds[q].stretch
  <2>1. q \in Downloading /\ OwnDays(q) /\ q \in Build
    BY <1>1, <1>3 DEF DataIInv, Downloading
  <2>2. builds'[q] = builds[q] /\ t \in Stretch /\ builds[q].day \in DaysOf(t)
    BY <1>3, <2>1 DEF DataIInv, BuildsOK
  <2>3. /\ t.interval \in Interval /\ DaysOf(t) \subseteq Day /\ DaysOf(t) = t.first..t.last
        /\ t.first \in Nat /\ t.last \in Nat /\ builds[q].day \in Nat
    BY <2>2, StretchTypes
  <2>4. Disjoint(t, s)
    BY <1>3, <2>1 DEF OwnDays
  <2>5. \A d \in DaysOf(t) : archives'[t.interval][d] = archives[t.interval][d]
    BY <2>3, <2>4 DEF Disjoint
  <2>6. \A d \in t.first..(builds[q].day - 1) : d \in DaysOf(t)
    BY <2>2, <2>3
  <2>7. \A p \in Downloading' \ {q} : Disjoint(t, builds'[p].stretch)
    <3> TAKE p \in Downloading' \ {q}
    <3>1. CASE p = b
      BY <2>4, <3>1
    <3>2. CASE p # b
      BY <1>1, <2>1, <3>2 DEF OwnDays, Downloading
    <3> QED
      BY <3>1, <3>2
  <2> QED
    BY <2>1, <2>2, <2>5, <2>6, <2>7 DEF OwnDays, Disjoint
<1> QED
  BY <1>2, <1>3 DEF DataIInv

\* Facts of a build that is downloading.
LEMMA DownloadTypes ==
  ASSUME DataIInv, NEW b \in Downloading
  PROVE  LET s == builds[b].stretch
         IN  /\ b \in Build /\ s \in Stretch /\ s.interval \in Interval
             /\ s.first \in Nat /\ s.last \in Nat
             /\ DaysOf(s) \subseteq Day /\ DaysOf(s) = s.first..s.last
             /\ builds[b].day \in s.first..s.last /\ builds[b].day \in Nat
             /\ builds \in [Build -> BuildRecord]
             /\ archives \in [Interval -> [Day -> ArchiveFile]]
             /\ archives[s.interval] \in [Day -> ArchiveFile]
<1>1. b \in Build /\ builds[b].stretch \in Stretch /\ builds[b].day \in DaysOf(builds[b].stretch)
  BY DEF DataIInv, BuildsOK, Downloading
<1> QED
  BY <1>1, StretchTypes DEF DataIInv, BuildsOK

\* A download that ends finishes a file of the build's own days, and opens the next.
LEMMA DownloadEndsKeepsIInv ==
  ASSUME DataIInv, NEW b \in Build, DownloadEnds(b)
  PROVE  DataIInv'
<1> DEFINE s == builds[b].stretch
           i == s.interval
           day == builds[b].day
           opened == [writer |-> b, whole |-> FALSE]
           build == [builds[b] EXCEPT !.day = day + 1]
<1>0. b \in Downloading
  BY DEF DownloadEnds
<1>1. /\ s \in Stretch /\ i \in Interval /\ s.first \in Nat /\ s.last \in Nat
      /\ DaysOf(s) \subseteq Day /\ DaysOf(s) = s.first..s.last
      /\ day \in s.first..s.last /\ day \in Nat
      /\ builds \in [Build -> BuildRecord] /\ builds[b] \in BuildRecord
      /\ archives \in [Interval -> [Day -> ArchiveFile]]
      /\ archives[i] \in [Day -> ArchiveFile]
  BY <1>0, DownloadTypes
<1>2. day < s.last
  BY DEF DownloadEnds
<1>3. /\ day \in DaysOf(s) /\ day + 1 \in DaysOf(s) /\ day \in Day /\ day + 1 \in Day
      /\ day # day + 1
  BY <1>1, <1>2
<1>4. PICK archive \in DayArrives(b) :
        archives' = [archives EXCEPT ![i] = [archives[i] EXCEPT ![day] = archive, ![day + 1] = opened]]
  BY <1>1 DEF DownloadEnds
<1>5. /\ archive \in ArchiveFile
      /\ archives[i][day].writer = b => archive.whole
  BY <1>0, DayArrivesWhole DEF DataIInv
<1>6. opened \in ArchiveFile /\ opened.writer = b
  BY DEF ArchiveFile
<1> HIDE DEF opened
<1> DEFINE days == [archives[i] EXCEPT ![day] = archive, ![day + 1] = opened]
<1>7. /\ days \in [Day -> ArchiveFile] /\ days[day] = archive /\ days[day + 1] = opened
      /\ \A d \in Day : d # day /\ d # day + 1 => days[d] = archives[i][d]
  BY <1>1, <1>3, <1>5, <1>6
<1> HIDE DEF days
<1>8. /\ archives' \in [Interval -> [Day -> ArchiveFile]] /\ archives'[i] = days
      /\ \A j \in Interval : j # i => archives'[j] = archives[j]
  <2>1. archives' = [archives EXCEPT ![i] = days]
    BY <1>4 DEF days
  <2> QED
    BY <1>1, <1>7, <2>1
<1>9. \A j \in Interval, d \in Day : (j # i \/ d \notin DaysOf(s)) => archives'[j][d] = archives[j][d]
  BY <1>3, <1>7, <1>8
<1>10. build \in BuildRecord /\ build.stretch = s /\ build.day = day + 1 /\ build.state = builds[b].state
  BY <1>1 DEF BuildRecord
<1>11. builds' = [builds EXCEPT ![b] = build] /\ collided' = collided
  BY <1>1 DEF DownloadEnds
<1> HIDE DEF build
<1>12. /\ builds' \in [Build -> BuildRecord] /\ builds'[b] = build
       /\ \A q \in Build \ {b} : builds'[q] = builds[q]
  BY <1>1, <1>10, <1>11
<1>13. Downloading' = Downloading
  BY <1>0, <1>10, <1>12 DEF Downloading
<1>14. ASSUME b \notin collided
       PROVE  OwnDays(b)'
  <2>1. OwnDays(b)
    BY <1>0, <1>14 DEF DataIInv
  <2>2. archive.whole
    BY <1>5, <2>1 DEF OwnDays
  <2>3. \A d \in s.first..day : archives'[i][d].whole
    <3> TAKE d \in s.first..day
    <3>1. CASE d = day
      BY <1>7, <1>8, <2>2, <3>1
    <3>2. CASE d # day
      <4>1. d \in s.first..(day - 1) /\ d \in Day /\ d # day + 1
        BY <1>1, <3>2
      <4> QED
        BY <1>7, <1>8, <2>1, <3>2, <4>1 DEF OwnDays
    <3> QED
      BY <3>1, <3>2
  <2>4. (day + 1) - 1 = day
    BY <1>1
  <2>5. \A q \in Downloading' \ {b} : Disjoint(s, builds'[q].stretch)
    BY <1>12, <1>13, <2>1 DEF OwnDays, Downloading
  <2> QED
    BY <1>6, <1>7, <1>8, <1>10, <1>12, <2>3, <2>4, <2>5 DEF OwnDays, Disjoint
<1> QED
  BY <1>0, <1>3, <1>8, <1>9, <1>10, <1>11, <1>12, <1>14, OthersKeepTheirDays

\* A file is written of days that are whole, unless the build has collided.
LEMMA FileIsBuiltKeepsIInv ==
  ASSUME DataIInv, NEW b \in Build, FileIsBuilt(b)
  PROVE  DataIInv' /\ Spoils
<1> DEFINE s == builds[b].stretch
           i == s.interval
           state == IF \A d \in DaysOf(s) : archives'[i][d].whole THEN "built" ELSE "failed"
           build == [builds[b] EXCEPT !.state = state]
<1>0. b \in Downloading /\ builds[b].day = s.last
  BY DEF FileIsBuilt
<1>1. /\ s \in Stretch /\ i \in Interval /\ s.first \in Nat /\ s.last \in Nat
      /\ DaysOf(s) \subseteq Day /\ DaysOf(s) = s.first..s.last
      /\ s.last \in DaysOf(s) /\ s.last \in Day
      /\ builds \in [Build -> BuildRecord] /\ builds[b] \in BuildRecord
      /\ archives \in [Interval -> [Day -> ArchiveFile]]
      /\ archives[i] \in [Day -> ArchiveFile]
  BY SMTT(30), <1>0, DownloadTypes
<1> DEFINE days(archive) == [archives[i] EXCEPT ![s.last] = archive]
<1>2. PICK archive \in DayArrives(b) :
        /\ archives' = [archives EXCEPT ![i] = days(archive)]
        /\ file' = [file EXCEPT ![i] = Written(s, days(archive))]
        /\ builds' = [builds EXCEPT ![b].state =
                        IF \A d \in DaysOf(s) : days(archive)[d].whole THEN "built" ELSE "failed"]
  BY Zenon DEF FileIsBuilt
<1>3. /\ archive \in ArchiveFile
      /\ archives[i][s.last].writer = b => archive.whole
  BY <1>0, DayArrivesWhole DEF DataIInv
<1>4. /\ days(archive) \in [Day -> ArchiveFile] /\ days(archive)[s.last] = archive
      /\ \A d \in Day : d # s.last => days(archive)[d] = archives[i][d]
  BY <1>1, <1>3
<1> DEFINE after == days(archive)
<1> HIDE DEF days
<1>5. /\ archives' \in [Interval -> [Day -> ArchiveFile]] /\ archives'[i] = after
      /\ \A j \in Interval : j # i => archives'[j] = archives[j]
  BY <1>1, <1>2, <1>4
<1>6. \A j \in Interval, d \in Day : (j # i \/ d \notin DaysOf(s)) => archives'[j][d] = archives[j][d]
  BY SMTT(30), <1>1, <1>4, <1>5
<1>7. builds' = [builds EXCEPT ![b] = build] /\ collided' = collided
  BY <1>1, <1>2, <1>5 DEF FileIsBuilt
<1>8. build \in BuildRecord /\ build.stretch = s /\ build.state # "downloading"
  BY <1>1 DEF BuildRecord, BuildStates
<1> HIDE DEF build
<1>9. /\ builds' \in [Build -> BuildRecord] /\ builds'[b] = build
      /\ \A q \in Build \ {b} : builds'[q] = builds[q]
  BY <1>1, <1>7, <1>8
<1>10. b \notin Downloading'
  BY <1>8, <1>9 DEF Downloading
<1>11. DataIInv'
  BY <1>0, <1>5, <1>6, <1>7, <1>9, <1>10, OthersKeepTheirDays
<1>12. b \notin collided => Written(s, after) = Whole(s)
  <2> SUFFICES ASSUME b \notin collided
               PROVE  \A d \in DaysOf(s) : after[d].whole
    BY <1>1, WrittenWhole
  <2>1. OwnDays(b)
    BY <1>0 DEF DataIInv
  <2>2. archive.whole
    BY <1>0, <1>3, <2>1 DEF OwnDays
  <2> TAKE d \in DaysOf(s)
  <2>3. CASE d = s.last
    BY <1>4, <2>2, <2>3
  <2>4. CASE d # s.last
    <3>1. d \in s.first..(s.last - 1) /\ d \in Day
      BY <1>1, <2>4
    <3> QED
      BY <1>0, <1>4, <2>1, <2>4, <3>1 DEF OwnDays
  <2> QED
    BY <2>3, <2>4
<1>13. build # builds[b]
  BY <1>0, <1>8 DEF Downloading
<1>14. Spoils
  <2> SUFFICES ASSUME NEW j \in Interval, file'[j] # file[j]
               PROVE  /\ builds'[b] # builds[b]
                      /\ builds'[b].stretch.interval = j
                      /\ b \in collided \/ file'[j] = Whole(builds'[b].stretch)
    BY DEF Spoils
  <2>1. j = i /\ file'[i] = Written(s, after)
    BY <1>2
  <2> QED
    BY <1>8, <1>9, <1>12, <1>13, <2>1
<1> QED
  BY <1>11, <1>14

\* A build that fails is not downloading any more.
LEMMA DownloadFailsKeepsIInv ==
  ASSUME DataIInv, NEW b \in Build, DownloadFails(b)
  PROVE  DataIInv'
<1> DEFINE build == [NoBuild EXCEPT !.state = "failed"]
<1>0. b \in Downloading /\ builds \in [Build -> BuildRecord]
  BY DEF DownloadFails, DataIInv, BuildsOK
<1>1. build \in BuildRecord /\ build.state # "downloading"
  BY DEF NoBuild, BuildRecord, BuildStates
<1>2. /\ builds' = [builds EXCEPT ![b] = build]
      /\ UNCHANGED <<archives, collided>>
  BY DEF DownloadFails
<1> HIDE DEF build
<1>3. /\ builds' \in [Build -> BuildRecord] /\ builds'[b] = build
      /\ \A q \in Build \ {b} : builds'[q] = builds[q]
  BY <1>0, <1>1, <1>2
<1>4. b \notin Downloading'
  BY <1>1, <1>3 DEF Downloading
<1>5. archives' \in [Interval -> [Day -> ArchiveFile]]
  BY <1>2 DEF DataIInv, BuildsOK
<1> QED
  BY <1>0, <1>2, <1>3, <1>4, <1>5, OthersKeepTheirDays

\* A build of no days is not one that downloads.
LEMMA NothingToBuildKeepsIInv ==
  ASSUME DataIInv, NEW b \in Build, NEW s \in Stretch, NothingToBuild(b, s)
  PROVE  DataIInv' /\ Spoils
<1> DEFINE build == [state |-> "built", stretch |-> s, day |-> 0]
<1>0. builds \in [Build -> BuildRecord] /\ builds[b].state = "idle" /\ b \notin Downloading
  BY DEF NothingToBuild, DataIInv, BuildsOK, Downloading
<1>1. build \in BuildRecord /\ build.state = "built" /\ build.stretch = s
  BY DEF BuildRecord, BuildStates
<1>2. /\ builds' = [builds EXCEPT ![b] = build]
      /\ UNCHANGED <<archives, collided>>
      /\ file' = [file EXCEPT ![s.interval] = <<>>]
  BY DEF NothingToBuild
<1> HIDE DEF build
<1>3. /\ builds' \in [Build -> BuildRecord] /\ builds'[b] = build
      /\ \A q \in Build \ {b} : builds'[q] = builds[q]
  BY <1>0, <1>1, <1>2
<1>4. Downloading' = Downloading
  BY <1>0, <1>1, <1>3 DEF Downloading
<1>5. \A q \in Downloading : q # b /\ q \in Build /\ builds'[q] = builds[q]
  BY <1>0, <1>3 DEF Downloading
<1>6. DataIInv'
  <2>1. BuildsOK'
    BY <1>2, <1>3, <1>4, <1>5 DEF DataIInv, BuildsOK
  <2>2. ASSUME NEW q \in Downloading' \ collided'
        PROVE  OwnDays(q)'
    <3>1. q \in Downloading /\ OwnDays(q) /\ builds'[q] = builds[q]
      BY <1>2, <1>4, <1>5, <2>2 DEF DataIInv
    <3>2. \A p \in Downloading' \ {q} : Disjoint(builds[q].stretch, builds'[p].stretch)
      BY <1>4, <1>5, <3>1 DEF OwnDays
    <3> QED
      BY <1>2, <3>1, <3>2 DEF OwnDays, Disjoint
  <2> QED
    BY <2>1, <2>2 DEF DataIInv
<1>7. Spoils
  <2>1. Whole(s) = <<>>
    BY NothingIsWhole DEF NothingToBuild
  <2>2. builds'[b] # builds[b]
    BY <1>0, <1>1, <1>3
  <2> QED
    BY <1>1, <1>2, <1>3, <2>1, <2>2 DEF Spoils
<1> QED
  BY <1>6, <1>7

\* A restart leaves each day's file whole or not, as it was.
LEMMA RestartLeavesArchives ==
  ASSUME DataIInv, Restart, NEW i \in Interval, NEW d \in Day
  PROVE  archives'[i][d] \in ArchiveFile /\ archives'[i][d].whole = archives[i][d].whole
<1>1. archives'[i][d] = [archives[i][d] EXCEPT !.writer = None]
  BY DEF Restart
<1>2. archives[i][d] \in ArchiveFile
  BY DEF DataIInv, BuildsOK
<1> QED
  BY <1>1, <1>2 DEF ArchiveFile

\* A restart stops every build.
LEMMA RestartKeepsIInv ==
  ASSUME DataIInv, Restart
  PROVE  DataIInv'
<1>1. builds' = [b \in Build |-> NoBuild]
  BY DEF Restart
<1>2. archives' \in [Interval -> [Day -> ArchiveFile]]
  <2>1. archives' = [i \in Interval |-> [d \in Day |-> archives'[i][d]]]
    BY DEF Restart
  <2> QED
    BY <2>1, RestartLeavesArchives
<1>3. NoBuild \in BuildRecord /\ NoBuild.state = "idle"
  BY DEF NoBuild, BuildRecord, BuildStates
<1>4. Downloading' = {}
  BY <1>1, <1>3 DEF Downloading
<1> QED
  BY <1>1, <1>2, <1>3, <1>4 DEF DataIInv, BuildsOK

\* Nothing is downloading at the start.
LEMMA DataInitEstablishesIInv ==
  ASSUME DataInit
  PROVE  DataIInv
<1>1. /\ builds = [b \in Build |-> NoBuild]
      /\ archives = [i \in Interval |-> [d \in Day |-> [writer |-> None, whole |-> FALSE]]]
  BY DEF DataInit
<1>2. NoBuild \in BuildRecord /\ NoBuild.state = "idle"
  BY DEF NoBuild, BuildRecord, BuildStates
<1>3. Downloading = {}
  BY <1>1, <1>2 DEF Downloading
<1>4. [writer |-> None, whole |-> FALSE] \in ArchiveFile
  BY DEF ArchiveFile
<1> QED
  BY <1>1, <1>2, <1>3, <1>4 DEF DataIInv, BuildsOK

\* A step that leaves builds alone.
LEMMA BuildsStay ==
  ASSUME DataIInv, UNCHANGED buildVars
  PROVE  DataIInv'
  BY DEF DataIInv, buildVars, BuildsOK, Downloading, OwnDays

\* Every step keeps the invariant, and only a collision spoils a file.
LEMMA DataNextKeepsIInv ==
  ASSUME DataIInv, [DataNext]_dataVars
  PROVE  DataIInv' /\ (Spoils \/ UNCHANGED file)
<1>1. CASE UNCHANGED dataVars
  BY <1>1, BuildsStay DEF dataVars, feederVars
<1>2. CASE \E c \in Call : /\ (\E w \in WindowAsked : Ask(c, w)) \/ Load(c) \/ LoadThrows(c) \/ Answer(c)
                           /\ UNCHANGED buildVars
  <2>1. UNCHANGED file
    BY <1>2 DEF Ask, Load, LoadThrows, Answer
  <2> QED
    BY SMTT(30), <1>2, <2>1, BuildsStay
<1>3. ASSUME NEW b \in Build, NEW s \in Stretch, BuildStarts(b, s)
      PROVE  DataIInv' /\ UNCHANGED file
  BY <1>3, BuildStartsKeepsIInv DEF BuildStarts, feederVars
<1>4. ASSUME NEW b \in Build, NEW s \in Stretch, NothingToBuild(b, s)
      PROVE  DataIInv' /\ Spoils
  BY <1>4, NothingToBuildKeepsIInv
<1>5. ASSUME NEW b \in Build, DownloadEnds(b)
      PROVE  DataIInv' /\ UNCHANGED file
  BY <1>5, DownloadEndsKeepsIInv DEF DownloadEnds, feederVars
<1>6. ASSUME NEW b \in Build, FileIsBuilt(b)
      PROVE  DataIInv' /\ Spoils
  BY <1>6, FileIsBuiltKeepsIInv
<1>7. ASSUME NEW b \in Build, DownloadFails(b)
      PROVE  DataIInv' /\ UNCHANGED file
  BY <1>7, DownloadFailsKeepsIInv DEF DownloadFails, feederVars
<1>8. CASE Restart
  BY <1>8, RestartKeepsIInv DEF Restart
<1> QED
  BY <1>1, <1>2, <1>3, <1>4, <1>5, <1>6, <1>7, <1>8 DEF DataNext

\* A build that shares no day with another at the same time leaves a data file of all
\* its candles, whatever failed before, and a build that fails leaves the data file
\* alone. (buildBinanceKLineData)
THEOREM FilesAreSpoiledByCollisions == DataSpec => OnlyCollisionsSpoilFile
<1>1. DataIInv /\ [DataNext]_dataVars => [Spoils]_file
  BY DataNextKeepsIInv
<1>2. DataSpec => []DataIInv
  BY DataInitEstablishesIInv, DataNextKeepsIInv, PTL DEF DataSpec
<1>3. DataSpec => [][Spoils]_file
  BY <1>1, <1>2, PTL DEF DataSpec
<1> QED
  BY <1>3 DEF OnlyCollisionsSpoilFile, Spoils

-----------------------------------------------------------------------------
(* Backtests.                                                              *)

Record == [timestamp : Int, balance : Int, profit : Int]
Broker == [clock : Int, balance : Int, records : Seq(Record), current : Record]
States == {"none", "init", "next", "clock", "done", "failed"}
RequestType == [start : Nat, end : Nat, interval : Nat \ {0}, brokers : Nat]
RunRecord == [state : States, request : RequestType, brokers : Seq(Broker), ticking : Nat]

RunsOK ==
  /\ currentClock \in Nat /\ clockInterval \in Nat \ {0}
  /\ overlapped \subseteq Run
  /\ runs \in [Run -> RunRecord]
  /\ \A r \in Run : runs[r].state = "clock" => runs[r].ticking < Len(runs[r].brokers)

\* A run that was never overlapped is the only active one.
AloneIsOnly == \A r \in Active : r \in overlapped \/ Active = {r}

\* Then the service's clock is its own, and so are its brokers' clocks: those that
\* have moved in this round agree with the service, the others are an interval behind.
\* A round begins only before the end.
ClocksFollow(r) ==
  LET run == runs[r]
      interval == run.request.interval
  IN  /\ run.state \in {"init", "next", "clock"} => clockInterval = interval
      /\ run.state = "init" => currentClock = run.request.start
      /\ run.state = "next" =>
           /\ currentClock < run.request.end
           /\ \A b \in DOMAIN run.brokers : run.brokers[b].clock = currentClock
      /\ run.state = "clock" =>
           /\ currentClock - interval < run.request.end
           /\ \A b \in DOMAIN run.brokers :
                run.brokers[b].clock = IF b <= run.ticking THEN currentClock
                                       ELSE currentClock - interval
      /\ run.state = "done" =>
           \A b \in DOMAIN run.brokers :
             /\ run.brokers[b].clock >= run.request.end
             /\ run.brokers[b].records # <<>> => run.brokers[b].clock - interval < run.request.end

\* The inductive invariant.
IInv == RunsOK /\ AloneIsOnly /\ \A r \in Run \ overlapped : ClocksFollow(r)

USE RequestAssumption, ProfitAssumption, BalanceAssumption

-----------------------------------------------------------------------------
\* Brokers are created on the start, and keep their type while they earn and move.
LEMMA NewBrokerIsBroker ==
  ASSUME NEW req \in RequestType
  PROVE  /\ NewBroker(req) \in Broker /\ NewBroker(req).clock = req.start
         /\ NewBroker(req).records = <<>>
<1>1. <<>> \in Seq(Record)
  OBVIOUS
<1> QED
  BY <1>1 DEF NewBroker, Broker, Record, RequestType

\* A broker's clock.
LEMMA BrokerHasClock ==
  ASSUME NEW broker \in Broker
  PROVE  broker.clock \in Int
  BY DEF Broker

\* A broker that has earned and moved.
LEMMA FlushedIsBroker ==
  ASSUME NEW broker \in Broker, NEW profit \in Int, NEW clock \in Int
  PROVE  LET moved == Flushed(Earned(broker, profit), clock)
         IN  moved \in Broker /\ moved.clock = clock
<1> DEFINE earned == Earned(broker, profit)
<1>1. earned \in Broker
  <2>1. broker.current \in Record /\ broker.balance \in Int
    BY DEF Broker
  <2>2. broker.current.profit + profit \in Int /\ broker.balance + profit \in Int
    BY <2>1 DEF Record
  <2>3. [broker.current EXCEPT !.profit = @ + profit] \in Record
    BY <2>1, <2>2 DEF Record
  <2>4. earned = [broker EXCEPT !.balance = broker.balance + profit,
                                !.current = [broker.current EXCEPT !.profit = @ + profit]]
    BY <2>1 DEF Earned, Broker
  <2> QED
    BY <2>2, <2>3, <2>4 DEF Broker
<1> HIDE DEF earned
<1>2. earned.current \in Record /\ earned.records \in Seq(Record) /\ earned.balance \in Int
  BY <1>1 DEF Broker
<1>3. Append(earned.records, earned.current) \in Seq(Record)
  BY <1>2
<1>4. [timestamp |-> clock, balance |-> earned.balance, profit |-> 0] \in Record
  BY <1>2 DEF Record
<1>5. Flushed(earned, clock) \in Broker /\ Flushed(earned, clock).clock = clock
  BY <1>1, <1>3, <1>4 DEF Flushed, Broker
<1> QED
  BY <1>5 DEF earned

-----------------------------------------------------------------------------
\* A run that changes only itself, and does not become active, leaves the others
\* alone.
LEMMA OthersStay ==
  ASSUME IInv, NEW r \in Run, NEW run \in RunRecord,
         runs' = [runs EXCEPT ![r] = run],
         run.state = "clock" => run.ticking < Len(run.brokers),
         run.state \in {"init", "next", "clock"} => r \in Active,
         currentClock' \in Nat, clockInterval' = clockInterval, overlapped' = overlapped,
         currentClock' = currentClock \/ r \in Active,
         r \notin overlapped => ClocksFollow(r)'
  PROVE  IInv'
<1>0. RunsOK /\ AloneIsOnly
  BY DEF IInv
<1>1. RunsOK'
  BY <1>0 DEF RunsOK
<1>2. Active' \subseteq Active /\ runs'[r] = run
  BY <1>0 DEF Active, RunsOK
<1>3. AloneIsOnly'
  BY <1>0, <1>2 DEF AloneIsOnly
<1>4. ASSUME NEW q \in Run \ overlapped, q # r
      PROVE  ClocksFollow(q)'
  <2>1. runs'[q] = runs[q] /\ ClocksFollow(q)
    BY <1>0, <1>4 DEF RunsOK, IInv
  <2>2. CASE runs[q].state \in {"init", "next", "clock"}
    <3>1. q \in Active
      BY <2>2 DEF Active
    <3>2. r \notin Active
      BY <1>0, <1>4, <3>1 DEF AloneIsOnly
    <3> QED
      BY <2>1, <3>2 DEF ClocksFollow
  <2>3. CASE runs[q].state \notin {"init", "next", "clock"}
    BY <2>1, <2>3 DEF ClocksFollow
  <2> QED
    BY <2>2, <2>3
<1> QED
  BY <1>1, <1>3, <1>4 DEF IInv

\* A new run makes every active one, and itself beside them, overlapped.
LEMMA BeginKeepsIInv ==
  ASSUME IInv, NEW r \in Run, NEW req \in Request, Begin(r, req)
  PROVE  IInv'
<1>0. RunsOK /\ AloneIsOnly /\ req \in RequestType
  BY DEF IInv, RequestType
<1> DEFINE run == [NoRun EXCEPT !.state = "init", !.request = req]
<1>1. run \in RunRecord /\ run.state = "init" /\ run.request = req
  <2>1. <<>> \in Seq(Broker)
    OBVIOUS
  <2> QED
    BY <1>0, <2>1 DEF NoRun, RunRecord, States
<1>2. runs' = [runs EXCEPT ![r] = run] /\ runs[r].state = "none"
  BY DEF Begin
<1> HIDE DEF run
<1>3. /\ runs'[r] = run /\ r \notin Active
      /\ \A q \in Run : q # r => runs'[q] = runs[q]
  BY <1>0, <1>2 DEF RunsOK, Active
<1>4. Active' = Active \cup {r}
  BY <1>1, <1>3 DEF Active
<1>5. currentClock' = req.start /\ clockInterval' = req.interval
  BY DEF Begin
<1>6. overlapped' \subseteq Run /\ overlapped \subseteq overlapped'
  BY <1>0 DEF Begin, RunsOK, Active
<1>7. RunsOK'
  BY <1>0, <1>1, <1>2, <1>5, <1>6 DEF RunsOK, RequestType
<1>8. AloneIsOnly'
  <2>1. CASE Active = {}
    BY <1>4, <2>1 DEF AloneIsOnly
  <2>2. CASE Active # {}
    BY <1>4, <2>2 DEF AloneIsOnly, Begin
  <2> QED
    BY <2>1, <2>2
<1>9. ASSUME NEW q \in Run \ overlapped'
      PROVE  ClocksFollow(q)'
  <2>1. CASE q = r
    BY <1>1, <1>3, <1>5, <2>1 DEF ClocksFollow
  <2>2. CASE q # r
    <3>1. runs'[q] = runs[q] /\ ClocksFollow(q)
      BY <1>3, <1>6, <2>2 DEF IInv
    <3>2. q \notin Active
      BY <2>2, <1>9 DEF Begin
    <3>3. runs[q].state \notin {"init", "next", "clock"}
      BY <3>2 DEF Active
    <3> QED
      BY <3>1, <3>3 DEF ClocksFollow
  <2> QED
    BY <2>1, <2>2
<1> QED
  BY <1>7, <1>8, <1>9 DEF IInv

\* One that fails at once has set the clock of the active ones.
LEMMA BeginThrowsKeepsIInv ==
  ASSUME IInv, NEW r \in Run, NEW req \in Request, BeginThrows(r, req.start)
  PROVE  IInv'
<1>0. RunsOK /\ AloneIsOnly /\ req.start \in Nat
  BY DEF IInv
<1> DEFINE run == [runs[r] EXCEPT !.state = "failed"]
<1>1. run \in RunRecord /\ run.state = "failed"
  BY <1>0 DEF RunsOK, RunRecord, States
<1>2. runs' = [runs EXCEPT ![r] = run] /\ runs[r].state = "none"
  BY <1>0 DEF BeginThrows, RunsOK
<1> HIDE DEF run
<1>3. /\ runs'[r] = run /\ r \notin Active
      /\ \A q \in Run : q # r => runs'[q] = runs[q]
  BY <1>0, <1>2 DEF RunsOK, Active
<1>4. Active' = Active
  BY <1>1, <1>3 DEF Active
<1>5. currentClock' = req.start /\ UNCHANGED clockInterval /\ overlapped' = overlapped \cup Active
  BY DEF BeginThrows
<1>6. RunsOK'
  BY <1>0, <1>1, <1>2, <1>5 DEF RunsOK, Active
<1>7. AloneIsOnly'
  BY <1>4, <1>5 DEF AloneIsOnly
<1>8. ASSUME NEW q \in Run \ overlapped'
      PROVE  ClocksFollow(q)'
  <2>1. CASE q = r
    BY <1>1, <1>3, <2>1 DEF ClocksFollow
  <2>2. CASE q # r
    <3>1. runs'[q] = runs[q] /\ ClocksFollow(q)
      BY <1>3, <1>5, <2>2 DEF IInv
    <3>2. runs[q].state \notin {"init", "next", "clock"}
      BY <1>5, <1>8 DEF Active
    <3> QED
      BY <3>1, <3>2 DEF ClocksFollow
  <2> QED
    BY <2>1, <2>2
<1> QED
  BY <1>6, <1>7, <1>8 DEF IInv

\* What is known of a run in progress.
LEMMA RunTypes ==
  ASSUME RunsOK, NEW r \in Run
  PROVE  /\ runs[r] \in RunRecord /\ runs[r].request \in RequestType
         /\ runs[r].brokers \in Seq(Broker) /\ runs[r].ticking \in Nat
         /\ runs[r].request.start \in Nat /\ runs[r].request.end \in Nat
         /\ runs[r].request.interval \in Nat \ {0} /\ runs[r].request.brokers \in Nat
<1>1. runs[r] \in RunRecord
  BY DEF RunsOK
<1>2. runs[r].request \in RequestType /\ runs[r].brokers \in Seq(Broker) /\ runs[r].ticking \in Nat
  BY <1>1 DEF RunRecord
<1> QED
  BY <1>1, <1>2 DEF RequestType

\* Brokers are created on the clock of the service, which is the start.
LEMMA InitReturnsKeepsIInv ==
  ASSUME IInv, NEW r \in Run, InitReturns(r)
  PROVE  IInv'
<1> DEFINE req == runs[r].request
           created == [b \in 1..req.brokers |-> NewBroker(req)]
           run == [runs[r] EXCEPT !.brokers = created, !.state = LoopState(r, currentClock)]
<1>0. RunsOK
  BY DEF IInv
<1>1. /\ runs[r] \in RunRecord /\ req \in RequestType /\ req.brokers \in Nat
      /\ req.start \in Nat /\ req.end \in Nat /\ currentClock \in Nat
  BY <1>0, RunTypes DEF RunsOK
<1>2. r \in Active /\ runs[r].state = "init"
  BY DEF InitReturns, Active
<1>3. /\ created \in Seq(Broker) /\ DOMAIN created = 1..req.brokers
      /\ \A b \in 1..req.brokers : created[b].clock = req.start /\ created[b].records = <<>>
  <2>1. \A b \in 1..req.brokers : /\ created[b] \in Broker /\ created[b].clock = req.start
                                  /\ created[b].records = <<>>
    BY <1>1, NewBrokerIsBroker
  <2>2. created \in [1..req.brokers -> Broker] /\ DOMAIN created = 1..req.brokers
    BY <2>1
  <2>3. created \in Seq(Broker)
    <3> HIDE DEF created
    <3> QED
      BY <1>1, <2>2
  <2> QED
    BY Zenon, <2>1, <2>2, <2>3
<1>4. LoopState(r, currentClock) \in {"next", "done"}
  BY DEF LoopState
<1> HIDE DEF created
<1>5. /\ run \in RunRecord /\ run.brokers = created /\ run.request = req
      /\ run.state = LoopState(r, currentClock)
  BY <1>1, <1>3, <1>4 DEF RunRecord, States
<1>6. runs' = [runs EXCEPT ![r] = run]
  BY <1>0 DEF InitReturns, RunsOK, created
<1> HIDE DEF run
<1>7. runs'[r] = run
  BY <1>0, <1>6 DEF RunsOK
<1>8. UNCHANGED <<currentClock, clockInterval, overlapped>>
  BY DEF InitReturns
<1>9. r \notin overlapped => ClocksFollow(r)'
  <2> SUFFICES ASSUME r \notin overlapped
               PROVE  ClocksFollow(r)'
    OBVIOUS
  <2>1. currentClock = req.start /\ clockInterval = req.interval
    BY <1>2 DEF IInv, ClocksFollow
  <2>2. CASE currentClock < req.end
    <3>1. run.state = "next"
      BY <1>5, <2>2 DEF LoopState
    <3> QED
      BY <1>3, <1>5, <1>7, <1>8, <2>1, <2>2, <3>1 DEF ClocksFollow
  <2>3. CASE ~(currentClock < req.end)
    <3>1. run.state = "done"
      BY <1>5, <2>3 DEF LoopState
    <3>2. req.start >= req.end
      BY <1>1, <2>1, <2>3
    <3> QED
      BY <1>3, <1>5, <1>7, <1>8, <3>1, <3>2 DEF ClocksFollow
  <2> QED
    BY <2>2, <2>3
<1>10. run.state \in {"next", "done"}
  BY <1>4, <1>5
<1> QED
  BY <1>0, <1>2, <1>5, <1>6, <1>8, <1>9, <1>10, OthersStay DEF RunsOK

\* The service's clock moves, and every broker is an interval behind.
LEMMA NextReturnsKeepsIInv ==
  ASSUME IInv, NEW r \in Run, NextReturns(r)
  PROVE  IInv'
<1> DEFINE clock == currentClock + clockInterval
           state == IF runs[r].brokers = <<>> THEN LoopState(r, clock) ELSE "clock"
           run == [runs[r] EXCEPT !.ticking = 0, !.state = state]
<1>0. RunsOK
  BY DEF IInv
<1>1. /\ runs[r] \in RunRecord /\ runs[r].brokers \in Seq(Broker)
      /\ runs[r].request.interval \in Nat \ {0}
  BY <1>0, RunTypes
<1>2. r \in Active /\ runs[r].state = "next"
  BY DEF NextReturns, Active
<1>3. state \in {"next", "done", "clock"} /\ clock \in Nat /\ currentClock' = clock
  BY <1>0 DEF LoopState, RunsOK, NextReturns
<1>4. /\ run \in RunRecord /\ run.brokers = runs[r].brokers /\ run.request = runs[r].request
      /\ run.ticking = 0 /\ run.state = state
  BY <1>1, <1>3 DEF RunRecord, States
<1>5. runs' = [runs EXCEPT ![r] = run]
  BY <1>0 DEF NextReturns, RunsOK
<1>6. UNCHANGED <<clockInterval, overlapped>>
  BY DEF NextReturns
<1> HIDE DEF run
<1>7. runs'[r] = run
  BY <1>0, <1>5 DEF RunsOK
<1>8. r \notin overlapped => ClocksFollow(r)'
  <2> SUFFICES ASSUME r \notin overlapped
               PROVE  ClocksFollow(r)'
    OBVIOUS
  <2>1. /\ clockInterval = runs[r].request.interval
        /\ currentClock < runs[r].request.end
        /\ \A b \in DOMAIN runs[r].brokers : runs[r].brokers[b].clock = currentClock
    BY <1>2 DEF IInv, ClocksFollow
  <2>2. CASE runs[r].brokers = <<>>
    <3>1. DOMAIN run.brokers = {} /\ run.state = LoopState(r, clock)
      BY <1>4, <2>2
    <3>2. CASE clock < runs[r].request.end
      <4>1. run.state = "next"
        BY <3>1, <3>2 DEF LoopState
      <4> QED
        BY <1>3, <1>4, <1>6, <1>7, <2>1, <3>1, <3>2, <4>1 DEF ClocksFollow
    <3>3. CASE ~(clock < runs[r].request.end)
      <4>1. run.state = "done"
        BY <3>1, <3>3 DEF LoopState
      <4> QED
        BY <1>7, <3>1, <4>1 DEF ClocksFollow
    <3> QED
      BY <3>2, <3>3
  <2>3. CASE runs[r].brokers # <<>>
    <3>1. run.state = "clock"
      BY <1>4, <2>3
    <3>2. 0 < Len(run.brokers) /\ DOMAIN run.brokers = 1..Len(run.brokers)
      BY <1>1, <1>4, <2>3
    <3>3. currentClock = clock - runs[r].request.interval
      BY <1>0, <1>1, <2>1 DEF RunsOK
    <3>4. \A b \in DOMAIN run.brokers :
            ~(b <= 0) /\ run.brokers[b].clock = clock - runs[r].request.interval
      BY <1>4, <2>1, <3>2, <3>3
    <3>5. /\ currentClock' - runs[r].request.interval < runs[r].request.end
          /\ clockInterval' = runs[r].request.interval
      BY <1>3, <1>6, <2>1, <3>3
    <3>6. /\ run.request = runs[r].request /\ run.ticking = 0 /\ run.state = "clock"
          /\ currentClock' = clock
      BY <1>3, <1>4, <3>1
    <3> QED
      BY SMTT(30), <1>7, <3>4, <3>5, <3>6 DEF ClocksFollow
  <2> QED
    BY <2>2, <2>3
<1>9. run.state = "clock" => run.ticking < Len(run.brokers)
  BY <1>1, <1>4 DEF LoopState
<1> QED
  BY <1>2, <1>3, <1>4, <1>5, <1>6, <1>8, <1>9, OthersStay

\* A broker catches up with the service.
LEMMA NextClockReturnsKeepsIInv ==
  ASSUME IInv, NEW r \in Run, NEW profit \in Profit, NextClockReturns(r, profit)
  PROVE  IInv'
<1> DEFINE b == runs[r].ticking + 1
           interval == runs[r].request.interval
           clock == runs[r].brokers[b].clock + interval
           moved == Flushed(Earned(runs[r].brokers[b], profit), clock)
           brokers == [runs[r].brokers EXCEPT ![b] = moved]
           state == IF b < Len(runs[r].brokers) THEN "clock" ELSE LoopState(r, currentClock)
           run == [runs[r] EXCEPT !.brokers = brokers, !.ticking = b, !.state = state]
<1>0. RunsOK /\ currentClock \in Nat
  BY DEF IInv, RunsOK
<1>1. /\ runs[r] \in RunRecord /\ runs[r].brokers \in Seq(Broker) /\ runs[r].ticking \in Nat
      /\ interval \in Nat \ {0} /\ runs[r].request.end \in Nat
  BY <1>0, RunTypes
<1>2. r \in Active /\ runs[r].state = "clock"
  BY DEF NextClockReturns, Active
<1>3. b \in 1..Len(runs[r].brokers) /\ b \in Nat /\ runs[r].brokers[b] \in Broker
  <2>1. runs[r].ticking < Len(runs[r].brokers)
    BY <1>0, <1>2 DEF RunsOK
  <2> QED
    BY <1>1, <2>1
<1>4. runs[r].brokers[b].clock \in Int /\ clock \in Int
  <2>1. runs[r].brokers[b].clock \in Int
    BY <1>3, BrokerHasClock
  <2> QED
    BY <1>1, <2>1
<1>5. moved \in Broker /\ moved.clock = clock
  BY <1>3, <1>4, FlushedIsBroker
<1> HIDE DEF moved
<1>6. /\ brokers \in Seq(Broker) /\ Len(brokers) = Len(runs[r].brokers)
      /\ DOMAIN brokers = 1..Len(runs[r].brokers) /\ DOMAIN runs[r].brokers = 1..Len(runs[r].brokers)
      /\ brokers[b] = moved
      /\ \A k \in 1..Len(runs[r].brokers) : k # b => brokers[k] = runs[r].brokers[k]
  BY <1>1, <1>3, <1>5
<1>7. state \in {"clock", "next", "done"}
  BY DEF LoopState
<1>8. runs' = [runs EXCEPT ![r] = run]
  BY <1>0 DEF NextClockReturns, RunsOK, moved
<1> HIDE DEF brokers
<1>9. /\ run \in RunRecord /\ run.brokers = brokers /\ run.request = runs[r].request
      /\ run.ticking = b /\ run.state = state
  BY <1>1, <1>3, <1>6, <1>7 DEF RunRecord, States
<1>10. UNCHANGED <<currentClock, clockInterval, overlapped>>
  BY DEF NextClockReturns
<1> HIDE DEF run
<1>11. runs'[r] = run
  BY <1>0, <1>8 DEF RunsOK
<1>12. r \notin overlapped => ClocksFollow(r)'
  <2> SUFFICES ASSUME r \notin overlapped
               PROVE  ClocksFollow(r)'
    OBVIOUS
  <2>1. /\ clockInterval = interval
        /\ currentClock - interval < runs[r].request.end
        /\ \A k \in DOMAIN runs[r].brokers :
             runs[r].brokers[k].clock = IF k <= runs[r].ticking THEN currentClock
                                        ELSE currentClock - interval
    BY <1>2 DEF IInv, ClocksFollow
  <2>2. runs[r].brokers[b].clock = currentClock - interval
    BY <1>1, <1>3, <1>6, <2>1
  <2>3. brokers[b].clock = currentClock
    BY <1>0, <1>1, <1>5, <1>6, <2>2
  <2>4. \A k \in DOMAIN brokers :
          brokers[k].clock = IF k <= b THEN currentClock ELSE currentClock - interval
    <3> SUFFICES ASSUME NEW k \in 1..Len(runs[r].brokers)
                 PROVE  brokers[k].clock = IF k <= b THEN currentClock ELSE currentClock - interval
      BY <1>6
    <3>1. CASE k = b
      BY <2>3, <3>1
    <3>2. CASE k # b
      <4>1. brokers[k] = runs[r].brokers[k]
        BY <1>6, <3>2
      <4>2. k <= b <=> k <= runs[r].ticking
        BY <1>1, <3>2
      <4> QED
        BY <1>6, <2>1, <4>1, <4>2
    <3> QED
      BY <3>1, <3>2
  <2>5. CASE b < Len(runs[r].brokers)
    <3>1. run.state = "clock" /\ b < Len(run.brokers)
      BY <1>6, <1>9, <2>5
    <3> QED
      BY <1>9, <1>10, <1>11, <2>1, <2>4, <3>1 DEF ClocksFollow
  <2>6. CASE ~(b < Len(runs[r].brokers))
    <3>1. \A k \in DOMAIN brokers : brokers[k].clock = currentClock
      BY <1>1, <1>3, <1>6, <2>4, <2>6
    <3>2. CASE currentClock < runs[r].request.end
      <4>1. run.state = "next"
        BY <1>9, <2>6, <3>2 DEF LoopState
      <4> QED
        BY <1>9, <1>10, <1>11, <2>1, <3>1, <3>2, <4>1 DEF ClocksFollow
    <3>3. CASE ~(currentClock < runs[r].request.end)
      <4>1. run.state = "done"
        BY <1>9, <2>6, <3>3 DEF LoopState
      <4>2. currentClock >= runs[r].request.end
        BY <1>0, <1>1, <3>3
      <4> QED
        BY <1>9, <1>10, <1>11, <2>1, <3>1, <4>1, <4>2 DEF ClocksFollow
    <3> QED
      BY <3>2, <3>3
  <2> QED
    BY <2>5, <2>6
<1>13. run.state = "clock" => run.ticking < Len(run.brokers)
  BY <1>6, <1>9 DEF LoopState
<1> QED
  BY <1>0, <1>2, <1>8, <1>9, <1>10, <1>12, <1>13, OthersStay

\* A run that fails, or whose page does.
LEMMA FailureKeepsIInv ==
  ASSUME IInv, NEW r \in Run, runs' = [runs EXCEPT ![r].state = "failed"],
         UNCHANGED <<currentClock, clockInterval, overlapped>>
  PROVE  IInv'
<1> DEFINE run == [runs[r] EXCEPT !.state = "failed"]
<1>0. RunsOK /\ runs[r] \in RunRecord
  BY RunTypes DEF IInv
<1>1. run \in RunRecord /\ run.state = "failed"
  BY <1>0 DEF RunRecord, States
<1>2. runs' = [runs EXCEPT ![r] = run] /\ runs'[r] = run
  BY <1>0 DEF RunsOK
<1> HIDE DEF run
<1>3. ClocksFollow(r)'
  BY <1>1, <1>2 DEF ClocksFollow
<1> QED
  BY <1>0, <1>1, <1>2, <1>3, OthersStay DEF RunsOK

\* A step that leaves the service alone.
LEMMA FeederKeepsIInv ==
  ASSUME IInv, UNCHANGED serviceVars
  PROVE  IInv'
  BY DEF IInv, serviceVars, RunsOK, AloneIsOnly, Active, ClocksFollow

-----------------------------------------------------------------------------
\* No backtest has run at the start.
LEMMA InitEstablishesIInv ==
  ASSUME Init
  PROVE  IInv
<1>1. currentClock = 0 /\ clockInterval = 1 /\ overlapped = {} /\ runs = [r \in Run |-> NoRun]
  BY DEF Init, ServiceInit
<1>2. NoRun \in RunRecord /\ NoRun.state = "none"
  <2>1. <<>> \in Seq(Broker)
    OBVIOUS
  <2> QED
    BY <2>1 DEF NoRun, RunRecord, States, RequestType
<1>3. Active = {}
  BY <1>1, <1>2 DEF Active
<1> QED
  BY <1>1, <1>2, <1>3 DEF IInv, RunsOK, AloneIsOnly, ClocksFollow

\* Every step keeps the invariant.
LEMMA NextKeepsIInv ==
  ASSUME IInv, [Next]_vars
  PROVE  IInv'
<1>1. CASE UNCHANGED vars
  BY <1>1, FeederKeepsIInv DEF vars, serviceVars
<1>2. CASE Next
  <2> PICK r \in Run :
        \/ \E req \in Request : BacktestStrategy(r, req) \/ BacktestFails(r, req)
                                \/ UnknownStrategy(r, req)
        \/ ServiceStep(r) \/ ShowPage(r) \/ PageFails(r) \/ FeederStep(r)
    BY <1>2 DEF Next
  <2>1. CASE \E req \in Request : BacktestStrategy(r, req)
    BY <2>1, BeginKeepsIInv DEF BacktestStrategy
  <2>2. CASE ServiceStep(r)
    <3>1. CASE CallReturns(r)
      BY <3>1, InitReturnsKeepsIInv, NextReturnsKeepsIInv, NextClockReturnsKeepsIInv
         DEF CallReturns
    <3>2. CASE CallThrows(r)
      BY <3>2, FailureKeepsIInv DEF CallThrows
    <3> QED
      BY <2>2, <3>1, <3>2 DEF ServiceStep
  <2>3. CASE PageFails(r)
    BY <2>3, FailureKeepsIInv DEF PageFails
  <2>4. CASE (\E req \in Request : UnknownStrategy(r, req)) \/ ShowPage(r) \/ FeederStep(r)
    BY <2>4, FeederKeepsIInv DEF UnknownStrategy, ShowPage, FeederStep
  <2>5. CASE \E req \in Request : BacktestFails(r, req)
    BY <2>5, BeginThrowsKeepsIInv DEF BacktestFails
  <2> QED
    BY <2>1, <2>2, <2>3, <2>4, <2>5
<1> QED
  BY <1>1, <1>2

\* The invariant holds however requests overlap.
THEOREM IInvHolds == Spec => []IInv
  BY InitEstablishesIInv, NextKeepsIInv, PTL DEF Spec

\* Whenever next() runs, a strategy sees all its brokers on the clock of the service
\* (BacktestService.run), unless another backtest has run meanwhile.
THEOREM ClocksOfOneRun == Spec => []ClocksAgree
<1>1. IInv => ClocksAgree
  BY DEF IInv, ClocksFollow, ClocksAgree, Brokers
<1> QED
  BY <1>1, IInvHolds, PTL

\* A backtest that is done and was alone has reached its end with every broker:
\* what BacktestReachesEnd says of all backtests is true of these.
AloneReachesEnd ==
  \A r \in Run \ overlapped :
    runs[r].state = "done" =>
      \A broker \in Brokers(r) : broker.clock >= runs[r].request.end

\* The loop of BacktestService.run ends no sooner than its comment says.
THEOREM LoneRunReachesEnd == Spec => []AloneReachesEnd
<1>1. IInv => AloneReachesEnd
  BY DEF IInv, ClocksFollow, AloneReachesEnd, Brokers
<1> QED
  BY <1>1, IInvHolds, PTL

-----------------------------------------------------------------------------
(* Records.                                                                *)

\* A broker has a record for every interval from the start to its clock.
BrokerFollows(broker, req) ==
  /\ broker.clock = req.start + Len(broker.records) * req.interval
  /\ broker.current.timestamp = broker.clock
  /\ \A k \in DOMAIN broker.records :
       broker.records[k].timestamp = req.start + (k - 1) * req.interval

RunFollows(run) ==
  /\ run.request \in Request \cup {NoRun.request}
  /\ run.ticking \in 0..Len(run.brokers)
  /\ run.state \in {"none", "init"} => run.ticking = 0 /\ run.brokers = <<>>
  /\ \A b \in DOMAIN run.brokers : BrokerFollows(run.brokers[b], run.request)

\* This one holds of every run, overlapped or not.
RecordsIInv == IInv /\ \A r \in Run : RunFollows(runs[r])

\* A new broker has no records, and its clock is the start.
LEMMA NewBrokerFollows ==
  ASSUME NEW req \in RequestType
  PROVE  BrokerFollows(NewBroker(req), req)
<1>1. Len(<<>>) = 0 /\ DOMAIN <<>> = {}
  OBVIOUS
<1>2. req.start \in Nat /\ req.interval \in Nat
  BY DEF RequestType
<1>3. /\ NewBroker(req).clock = req.start /\ NewBroker(req).records = <<>>
      /\ NewBroker(req).current.timestamp = req.start
  BY DEF NewBroker
<1>4. req.start + 0 * req.interval = req.start
  BY SMTT(30), <1>2
<1> QED
  BY <1>1, <1>3, <1>4 DEF BrokerFollows

\* The next record begins where the one before has ended.
LEMMA FlushedFollows ==
  ASSUME NEW broker \in Broker, NEW profit \in Int, NEW req \in RequestType,
         BrokerFollows(broker, req)
  PROVE  BrokerFollows(Flushed(Earned(broker, profit), broker.clock + req.interval), req)
<1> DEFINE records == broker.records
           earned == Earned(broker, profit)
           clock == broker.clock + req.interval
           moved == Flushed(earned, clock)
           n == Len(records)
<1>1. /\ records \in Seq(Record) /\ n \in Nat /\ DOMAIN records = 1..n
      /\ broker.clock \in Int /\ broker.current \in Record
  BY DEF Broker
<1>2. req.start \in Nat /\ req.interval \in Nat
  BY DEF RequestType
<1>3. earned.records = records /\ earned.current.timestamp = broker.current.timestamp
      /\ earned.current \in Record
  <2> DEFINE current == [broker.current EXCEPT !.profit = @ + profit]
  <2>1. current \in Record /\ current.timestamp = broker.current.timestamp
    <3>1. broker.current.profit + profit \in Int
      BY <1>1 DEF Record
    <3> QED
      BY <1>1, <3>1 DEF Record
  <2>2. earned = [broker EXCEPT !.balance = broker.balance + profit, !.current = current]
    BY <1>1 DEF Earned, Broker
  <2> HIDE DEF current
  <2> QED
    BY <2>1, <2>2 DEF Broker
<1> HIDE DEF earned
<1>4. /\ moved.clock = clock /\ moved.records = Append(earned.records, earned.current)
      /\ moved.current.timestamp = clock
  <2>1. earned = Earned(broker, profit)
    BY DEF earned
  <2>2. earned \in [clock : Int, balance : Int, records : Seq(Record), current : Record]
    <3>1. broker.balance + profit \in Int /\ broker.current.profit + profit \in Int
      BY DEF Broker, Record
    <3> QED
      BY <1>1, <3>1 DEF earned, Earned, Broker, Record
  <2> QED
    BY <2>2 DEF Flushed
<1> HIDE DEF moved, records
<1>5. /\ Len(moved.records) = n + 1 /\ DOMAIN moved.records = 1..(n + 1)
      /\ moved.records[n + 1] = earned.current
      /\ \A k \in 1..n : moved.records[k] = records[k]
  BY <1>1, <1>3, <1>4
<1>6. broker.clock = req.start + n * req.interval /\ broker.current.timestamp = broker.clock
      /\ \A k \in 1..n : records[k].timestamp = req.start + (k - 1) * req.interval
  BY <1>1 DEF BrokerFollows, records
<1> HIDE DEF n
<1>7. clock = req.start + (n + 1) * req.interval
  <2>1. (n + 1) * req.interval = n * req.interval + req.interval
    BY SMTT(30), <1>1, <1>2
  <2>2. n * req.interval \in Int
    BY <1>1, <1>2
  <2> QED
    BY SMTT(30), <1>1, <1>2, <1>6, <2>1, <2>2
<1>8. moved.records[n + 1].timestamp = req.start + n * req.interval
  BY <1>3, <1>5, <1>6
<1>9. ASSUME NEW k \in 1..(n + 1)
      PROVE  moved.records[k].timestamp = req.start + (k - 1) * req.interval
  <2>1. CASE k = n + 1
    <3>1. k - 1 = n
      BY <1>1, <2>1
    <3> QED
      BY <1>8, <2>1, <3>1
  <2>2. CASE k # n + 1
    <3>1. k \in 1..n
      BY <1>1, <2>2
    <3> QED
      BY <1>5, <1>6, <3>1
  <2> QED
    BY <2>1, <2>2
<1> QED
  BY <1>4, <1>5, <1>7, <1>9 DEF BrokerFollows, moved, earned

\* A step of one run.
LEMMA OneRunFollows ==
  ASSUME RecordsIInv, IInv', NEW r \in Run, \A q \in Run \ {r} : runs'[q] = runs[q],
         RunFollows(runs'[r])
  PROVE  RecordsIInv'
  BY DEF RecordsIInv

\* A run that begins has no brokers yet.
LEMMA BeginFollows ==
  ASSUME RecordsIInv, NEW r \in Run, NEW req \in Request, Begin(r, req)
  PROVE  RecordsIInv'
<1> DEFINE run == [NoRun EXCEPT !.state = "init", !.request = req]
<1>1. /\ run.request = req /\ run.ticking = 0 /\ run.brokers = <<>>
  BY DEF NoRun
<1>2. runs' = [runs EXCEPT ![r] = run] /\ runs \in [Run -> RunRecord]
  BY DEF Begin, RecordsIInv, IInv, RunsOK
<1> HIDE DEF run
<1>3. RunFollows(run)
  BY <1>1 DEF RunFollows
<1>4. IInv'
  BY BeginKeepsIInv DEF RecordsIInv
<1> QED
  BY <1>2, <1>3, <1>4, OneRunFollows

\* A run that fails keeps its records.
LEMMA FailureFollows ==
  ASSUME RecordsIInv, IInv', NEW r \in Run, runs' = [runs EXCEPT ![r].state = "failed"]
  PROVE  RecordsIInv'
<1> DEFINE run == [runs[r] EXCEPT !.state = "failed"]
<1>1. runs \in [Run -> RunRecord] /\ runs[r] \in RunRecord /\ RunFollows(runs[r])
  BY DEF RecordsIInv, IInv, RunsOK
<1>2. /\ run.request = runs[r].request /\ run.ticking = runs[r].ticking
      /\ run.brokers = runs[r].brokers /\ run.state = "failed"
  BY <1>1 DEF RunRecord
<1>3. runs' = [runs EXCEPT ![r] = run]
  BY <1>1
<1> HIDE DEF run
<1>4. RunFollows(run)
  BY <1>1, <1>2 DEF RunFollows
<1> QED
  BY <1>1, <1>3, <1>4, OneRunFollows

\* The brokers of init() are new ones.
LEMMA InitReturnsFollows ==
  ASSUME RecordsIInv, NEW r \in Run, InitReturns(r)
  PROVE  RecordsIInv'
<1> DEFINE req == runs[r].request
           created == [b \in 1..req.brokers |-> NewBroker(req)]
           state == LoopState(r, currentClock)
           run == [runs[r] EXCEPT !.brokers = created, !.state = state]
<1>0. runs \in [Run -> RunRecord] /\ RunFollows(runs[r]) /\ RunsOK
  BY DEF RecordsIInv, IInv, RunsOK
<1>1. /\ runs[r] \in RunRecord /\ req \in RequestType /\ req.brokers \in Nat
  BY <1>0, RunTypes
<1>2. runs' = [runs EXCEPT ![r] = run]
  BY <1>0 DEF InitReturns
<1>3. state \in {"next", "done"}
  BY DEF LoopState
<1>4. /\ DOMAIN created = 1..req.brokers
      /\ \A b \in 1..req.brokers : created[b] = NewBroker(req)
  OBVIOUS
<1>5. created \in Seq({NewBroker(req)}) /\ Len(created) = req.brokers
  BY <1>1
<1> HIDE DEF created
<1>6. /\ run.request = req /\ run.brokers = created /\ run.state \in {"next", "done"}
      /\ run.ticking = 0
  BY <1>0, <1>1, <1>3 DEF RunFollows, InitReturns, RunRecord
<1> HIDE DEF run
<1>7. run.ticking \in 0..Len(run.brokers)
  BY <1>1, <1>5, <1>6
<1>8. \A b \in DOMAIN run.brokers : BrokerFollows(run.brokers[b], run.request)
  BY <1>1, <1>4, <1>6, NewBrokerFollows
<1>9. RunFollows(run)
  BY <1>0, <1>6, <1>7, <1>8 DEF RunFollows
<1>10. IInv'
  BY InitReturnsKeepsIInv DEF RecordsIInv
<1> QED
  BY <1>0, <1>2, <1>9, <1>10, OneRunFollows

\* next() leaves records and brokers' clocks alone.
LEMMA NextReturnsFollows ==
  ASSUME RecordsIInv, NEW r \in Run, NextReturns(r)
  PROVE  RecordsIInv'
<1> DEFINE clock == currentClock + clockInterval
           state == IF runs[r].brokers = <<>> THEN LoopState(r, clock) ELSE "clock"
           run == [runs[r] EXCEPT !.ticking = 0, !.state = state]
<1>0. runs \in [Run -> RunRecord] /\ RunFollows(runs[r]) /\ RunsOK
  BY DEF RecordsIInv, IInv, RunsOK
<1>1. runs[r] \in RunRecord /\ runs[r].brokers \in Seq(Broker)
  BY <1>0, RunTypes
<1>2. runs' = [runs EXCEPT ![r] = run]
  BY <1>0 DEF NextReturns
<1>3. state \in {"next", "done", "clock"}
  BY DEF LoopState
<1> HIDE DEF state
<1>4. /\ run.request = runs[r].request /\ run.brokers = runs[r].brokers
      /\ run.state \in {"next", "done", "clock"} /\ run.ticking = 0
  BY <1>1, <1>3 DEF RunRecord
<1> HIDE DEF run
<1>5. run.ticking \in 0..Len(run.brokers)
  BY <1>1, <1>4
<1>6. RunFollows(run)
  BY <1>0, <1>4, <1>5 DEF RunFollows
<1>7. IInv'
  BY NextReturnsKeepsIInv DEF RecordsIInv
<1> QED
  BY <1>0, <1>2, <1>6, <1>7, OneRunFollows DEF state

\* nextClock() finishes a record of one broker.
LEMMA NextClockReturnsFollows ==
  ASSUME RecordsIInv, NEW r \in Run, NEW profit \in Profit, NextClockReturns(r, profit)
  PROVE  RecordsIInv'
<1> DEFINE b == runs[r].ticking + 1
           broker == runs[r].brokers[b]
           req == runs[r].request
           moved == Flushed(Earned(broker, profit), broker.clock + req.interval)
           brokers == [runs[r].brokers EXCEPT ![b] = moved]
           state == IF b < Len(runs[r].brokers) THEN "clock" ELSE LoopState(r, currentClock)
           run == [runs[r] EXCEPT !.brokers = brokers, !.ticking = b, !.state = state]
<1>0. runs \in [Run -> RunRecord] /\ RunFollows(runs[r]) /\ RunsOK
  BY DEF RecordsIInv, IInv, RunsOK
<1>1. /\ runs[r] \in RunRecord /\ runs[r].brokers \in Seq(Broker) /\ runs[r].ticking \in Nat
      /\ req \in RequestType
  BY <1>0, RunTypes
<1>2. b \in 1..Len(runs[r].brokers) /\ DOMAIN runs[r].brokers = 1..Len(runs[r].brokers)
      /\ broker \in Broker
  <2>1. runs[r].ticking < Len(runs[r].brokers)
    BY <1>0 DEF RunsOK, NextClockReturns
  <2>2. b \in 1..Len(runs[r].brokers)
    BY <1>1, <2>1
  <2> QED
    BY <1>1, <2>2
<1>3. BrokerFollows(broker, req)
  BY <1>0, <1>2 DEF RunFollows
<1>4. BrokerFollows(moved, req)
  BY <1>1, <1>2, <1>3, FlushedFollows
<1>5. runs' = [runs EXCEPT ![r] = run]
  BY <1>0 DEF NextClockReturns
<1>6. state \in {"next", "done", "clock"}
  BY DEF LoopState
<1> HIDE DEF moved
<1>7. /\ DOMAIN brokers = 1..Len(runs[r].brokers) /\ Len(brokers) = Len(runs[r].brokers)
      /\ brokers[b] = moved
      /\ \A k \in 1..Len(runs[r].brokers) : k # b => brokers[k] = runs[r].brokers[k]
  BY <1>1, <1>2
<1> HIDE DEF brokers, state
<1>8. /\ run.request = req /\ run.brokers = brokers
      /\ run.state \in {"next", "done", "clock"} /\ run.ticking = b
  BY <1>1, <1>6 DEF RunRecord
<1> HIDE DEF run
<1>9. run.ticking \in 0..Len(run.brokers)
  BY <1>1, <1>2, <1>7, <1>8
<1>10. \A k \in DOMAIN run.brokers : BrokerFollows(run.brokers[k], run.request)
  <2> SUFFICES ASSUME NEW k \in 1..Len(runs[r].brokers)
               PROVE  BrokerFollows(brokers[k], req)
    BY <1>7, <1>8
  <2>1. CASE k = b
    BY <1>4, <1>7, <2>1
  <2>2. CASE k # b
    BY <1>0, <1>2, <1>7, <2>2 DEF RunFollows
  <2> QED
    BY <2>1, <2>2
<1>11. RunFollows(run)
  BY <1>0, <1>8, <1>9, <1>10 DEF RunFollows
<1>12. IInv'
  BY NextClockReturnsKeepsIInv DEF RecordsIInv
<1> QED
  BY <1>0, <1>5, <1>11, <1>12, OneRunFollows DEF state, brokers, moved

\* Every step keeps the records in order.
LEMMA NextKeepsRecords ==
  ASSUME RecordsIInv, [Next]_vars
  PROVE  RecordsIInv'
<1>0. IInv'
  BY NextKeepsIInv DEF RecordsIInv
<1>1. CASE UNCHANGED runs
  BY <1>0, <1>1 DEF RecordsIInv
<1>2. CASE Next
  <2> PICK r \in Run :
        \/ \E req \in Request : BacktestStrategy(r, req) \/ BacktestFails(r, req)
                                \/ UnknownStrategy(r, req)
        \/ ServiceStep(r) \/ ShowPage(r) \/ PageFails(r) \/ FeederStep(r)
    BY <1>2 DEF Next
  <2>1. CASE \E req \in Request : BacktestStrategy(r, req)
    BY <2>1, BeginFollows DEF BacktestStrategy
  <2>2. CASE ServiceStep(r)
    <3>1. CASE CallReturns(r)
      BY <3>1, InitReturnsFollows, NextReturnsFollows, NextClockReturnsFollows DEF CallReturns
    <3>2. CASE CallThrows(r)
      BY <1>0, <3>2, FailureFollows DEF CallThrows
    <3> QED
      BY <2>2, <3>1, <3>2 DEF ServiceStep
  <2>3. CASE PageFails(r)
    BY <1>0, <2>3, FailureFollows DEF PageFails
  <2>4. CASE (\E req \in Request : UnknownStrategy(r, req)) \/ ShowPage(r) \/ FeederStep(r)
    BY <1>1, <2>4 DEF UnknownStrategy, ShowPage, FeederStep, serviceVars
  <2>5. CASE \E req \in Request : BacktestFails(r, req)
    BY <1>0, <2>5, FailureFollows DEF BacktestFails, BeginThrows
  <2> QED
    BY <2>1, <2>2, <2>3, <2>4, <2>5
<1> QED
  BY <1>1, <1>2 DEF vars, serviceVars

\* There are no records at the start.
LEMMA InitEstablishesRecords ==
  ASSUME Init
  PROVE  RecordsIInv
<1>1. IInv /\ runs = [r \in Run |-> NoRun]
  BY InitEstablishesIInv DEF Init, ServiceInit
<1>2. NoRun.ticking = 0 /\ NoRun.brokers = <<>> /\ Len(<<>>) = 0 /\ DOMAIN <<>> = {}
  BY DEF NoRun
<1>3. RunFollows(NoRun)
  BY <1>2 DEF RunFollows
<1> QED
  BY <1>1, <1>3 DEF RecordsIInv

\* Records are in order however requests overlap.
LEMMA RecordsIInvHolds == Spec => []RecordsIInv
  BY InitEstablishesRecords, NextKeepsRecords, PTL DEF Spec

Stamps(start, interval, n) == {start + (k - 1) * interval : k \in 1..n}
Begins(start, end, interval) == {t \in start..(end - 1) : (t - start) % interval = 0}

\* The intervals from a start up to an end, when the first clock not before it is
\* reached after n of them.
LEMMA TimestampsCover ==
  ASSUME NEW start \in Nat, NEW end \in Nat, NEW interval \in Nat \ {0}, NEW n \in Nat,
         start + n * interval >= end, n > 0 => start + n * interval - interval < end
  PROVE  Stamps(start, interval, n) = Begins(start, end, interval)
<1>1. ASSUME NEW k \in 1..n
      PROVE  LET t == start + (k - 1) * interval
             IN  t \in start..(end - 1) /\ (t - start) % interval = 0
  <2>1. PICK q \in Nat : q = k - 1 /\ q < n /\ n > 0
    BY <1>1
  <2>2. PICK d \in Nat : d = q * interval
    BY <2>1
  <2>3. PICK m \in Nat : m = n * interval
    OBVIOUS
  <2>4. d <= m - interval
    <3>1. q + 1 <= n
      BY <2>1
    <3>2. (q + 1) * interval <= n * interval
      BY <3>1
    <3>3. (q + 1) * interval = d + interval
      BY <2>2
    <3> QED
      BY <2>3, <3>2, <3>3
  <2>5. start + m - interval < end
    BY <2>1, <2>3
  <2>6. start + (k - 1) * interval = start + d
    BY <2>1, <2>2
  <2>7. d % interval = 0
    BY <2>2
  <2> QED
    BY <2>4, <2>5, <2>6, <2>7, <2>3
<1>2. ASSUME NEW t \in start..(end - 1), (t - start) % interval = 0
      PROVE  \E k \in 1..n : t = start + (k - 1) * interval
  <2>1. PICK d \in Nat : d = t - start
    OBVIOUS
  <2>2. PICK q \in Nat : q = d \div interval
    BY <2>1
  <2>3. d = q * interval
    BY <1>2, <2>1, <2>2
  <2>4. q < n
    <3>1. PICK m \in Nat : m = n * interval
      OBVIOUS
    <3>2. d < m
      BY <2>1, <3>1
    <3>3. n <= q => n * interval <= q * interval
      OBVIOUS
    <3> QED
      BY <2>3, <3>1, <3>2, <3>3
  <2>5. q + 1 \in 1..n /\ (q + 1) - 1 = q
    BY <2>4
  <2>6. t = start + q * interval
    BY <2>1, <2>3
  <2> QED
    BY <2>5, <2>6
<1> QED
  BY ZenonT(40), <1>1, <1>2 DEF Stamps, Begins

\* A backtest that was alone has a record for every interval from its start up to its
\* end, and for no other: none is lost or doubled where the loop of BacktestService.run
\* and nextClock() of a broker, each of which counts time for itself, come to an end.
THEOREM RecordsAreOfTheRun == Spec => []RecordsCoverRun
<1>1. ASSUME RecordsIInv, NEW r \in Run \ overlapped, runs[r].state = "done",
             NEW b \in DOMAIN runs[r].brokers
      PROVE  LET req == runs[r].request
                 broker == runs[r].brokers[b]
             IN  {broker.records[k].timestamp : k \in DOMAIN broker.records}
                   = {t \in req.start..(req.end - 1) : (t - req.start) % req.interval = 0}
  <2> DEFINE req == runs[r].request
             broker == runs[r].brokers[b]
             n == Len(broker.records)
  <2>1. /\ req.start \in Nat /\ req.end \in Nat /\ req.interval \in Nat \ {0}
        /\ runs[r].brokers \in Seq(Broker)
    BY <1>1, RunTypes DEF RecordsIInv, IInv
  <2>2. broker \in Broker /\ broker.records \in Seq(Record)
    <3>1. broker \in Broker
      BY <2>1
    <3> QED
      BY <3>1 DEF Broker
  <2>3. /\ n \in Nat /\ DOMAIN broker.records = 1..n
        /\ n > 0 => broker.records # <<>>
    BY <2>2
  <2>4. BrokerFollows(broker, req)
    BY <1>1 DEF RecordsIInv, RunFollows
  <2>5. /\ broker.clock >= req.end
        /\ broker.records # <<>> => broker.clock - req.interval < req.end
    BY <1>1 DEF RecordsIInv, IInv, ClocksFollow
  <2>6. /\ broker.clock = req.start + n * req.interval
        /\ \A k \in 1..n : broker.records[k].timestamp = req.start + (k - 1) * req.interval
    BY <2>3, <2>4 DEF BrokerFollows
  <2>7. {broker.records[k].timestamp : k \in DOMAIN broker.records}
          = Stamps(req.start, req.interval, n)
    BY <2>3, <2>6 DEF Stamps
  <2> HIDE DEF n
  <2>8. PICK m \in Nat : m = n * req.interval
    BY <2>1, <2>3
  <2>9. broker.clock = req.start + m
    BY <2>6, <2>8
  <2>10. req.start + m >= req.end /\ (n > 0 => req.start + m - req.interval < req.end)
    BY <2>1, <2>3, <2>5, <2>9
  <2>11. Stamps(req.start, req.interval, n) = Begins(req.start, req.end, req.interval)
    <3> HIDE DEF req
    <3> QED
      BY <2>1, <2>3, <2>8, <2>10, TimestampsCover
  <2> QED
    BY <2>7, <2>11 DEF Begins
<1>2. RecordsIInv => RecordsCoverRun
  BY <1>1 DEF RecordsCoverRun, Brokers
<1> QED
  BY <1>2, RecordsIInvHolds, PTL

-----------------------------------------------------------------------------
(* The greatest drawdown.                                                  *)

\* Losses of records from the i-th to the j-th.
Loss(f, i, j) == SumFunctionOnSet(f, i..j)

\* Losses are integers.
LEMMA LossType ==
  ASSUME NEW n \in Nat, NEW f \in [1..n -> Int], NEW i \in 1..(n + 1), NEW j \in 0..n
  PROVE  Loss(f, i, j) \in Int
<1>1. IsFiniteSet(i..j) /\ \A x \in i..j : f[x] \in Int
  BY FS_Interval
<1> QED
  BY <1>1, SumInt DEF Loss

\* Another record adds its loss.
LEMMA LossGoesOn ==
  ASSUME NEW n \in Nat, NEW f \in [1..n -> Int], NEW j \in 1..n, NEW i \in 1..(j + 1)
  PROVE  IF i = j + 1 THEN Loss(f, i, j) = 0 ELSE Loss(f, i, j) = Loss(f, i, j - 1) + f[j]
<1>1. CASE i = j + 1
  <2>1. i..j = {}
    BY <1>1
  <2> QED
    BY <1>1, <2>1, SumEmpty DEF Loss
<1>2. CASE i # j + 1
  <2>1. IsFiniteSet(i..j) /\ (\A x \in i..j : f[x] \in Int) /\ j \in i..j
    BY <1>2, FS_Interval
  <2>2. Loss(f, i, j) = f[j] + SumFunctionOnSet(f, (i..j) \ {j})
    <3> DEFINE S == i..j
    <3> HIDE DEF S
    <3>1. IsFiniteSet(S) /\ \A x \in S : f[x] \in Int
      BY <2>1 DEF S
    <3>2. PICK x \in S : x = j
      BY <2>1 DEF S
    <3>3. SumFunctionOnSet(f, S) = f[x] + SumFunctionOnSet(f, S \ {x})
      BY <3>1, SumTakeOut
    <3> QED
      BY <3>2, <3>3 DEF S, Loss
  <2>3. (i..j) \ {j} = i..(j - 1)
    OBVIOUS
  <2>4. Loss(f, i, j - 1) \in Int /\ f[j] \in Int
    BY <1>2, LossType
  <2>5. Loss(f, i, j) = f[j] + Loss(f, i, j - 1)
    BY <2>2, <2>3 DEF Loss
  <2> QED
    BY <1>2, <2>4, <2>5
<1> QED
  BY <1>1, <1>2

\* No records lose nothing.
LEMMA NoLoss ==
  ASSUME NEW f, NEW j \in Nat
  PROVE  Loss(f, j + 1, j) = 0
<1>1. (j + 1)..j = {}
  OBVIOUS
<1> QED
  BY <1>1, SumEmpty DEF Loss

AllLose(f, i, j) == i <= j /\ \A k \in i..j : f[k] < 0
Drawdowns == [max : Int, drawdown : Int]

IsDrawdownTrace(acc, f, n) ==
  /\ acc \in [0..n -> Drawdowns] /\ acc[0] = [max |-> 0, drawdown |-> 0]
  /\ \A k \in 1..n :
       acc[k] = IF f[k] < 0 THEN [max |-> acc[k - 1].max, drawdown |-> acc[k - 1].drawdown + f[k]]
                ELSE [max |-> Smaller(acc[k - 1].max, acc[k - 1].drawdown), drawdown |-> 0]

\* The streak that goes on after k records began with the c-th.
GoesOn(f, drawdown, k, c) ==
  /\ \A i \in c..k : f[i] < 0 /\ drawdown <= Loss(f, i, k)
  /\ c = 1 \/ f[c - 1] >= 0
  /\ drawdown = Loss(f, c, k)

IsLossOrNone(f, loss, k) ==
  loss = 0 \/ \E i, j \in 1..k : AllLose(f, i, j) /\ loss = Loss(f, i, j)

\* What is known after k records.
DrawdownFollows(acc, f, k) ==
  LET max == acc[k].max
      drawdown == acc[k].drawdown
  IN  /\ max <= 0 /\ drawdown <= 0
      /\ \E c \in 1..(k + 1) : GoesOn(f, drawdown, k, c)
      /\ IsLossOrNone(f, max, k)
      /\ \A i, j \in 1..k : AllLose(f, i, j) => Smaller(max, drawdown) <= Loss(f, i, j)

\* A record that loses.
LEMMA StreakGoesOn ==
  ASSUME NEW n \in Nat, NEW f \in [1..n -> Int], NEW k \in 0..(n - 1),
         NEW drawdown \in Int, drawdown <= 0, NEW c \in 1..(k + 1),
         GoesOn(f, drawdown, k, c), f[k + 1] < 0
  PROVE  GoesOn(f, drawdown + f[k + 1], k + 1, c)
<1>1. k + 1 \in 1..n /\ f[k + 1] \in Int /\ (k + 1) - 1 = k
  OBVIOUS
<1>2. ASSUME NEW i \in c..(k + 1)
      PROVE  Loss(f, i, k + 1) = Loss(f, i, k) + f[k + 1] /\ Loss(f, i, k) \in Int
  <2>1. i \in 1..((k + 1) + 1) /\ i # (k + 1) + 1 /\ i \in 1..(n + 1) /\ k \in 0..n
    OBVIOUS
  <2> QED
    BY ZenonT(40), <1>1, <2>1, LossGoesOn, LossType
<1>3. ASSUME NEW i \in c..(k + 1)
      PROVE  f[i] < 0 /\ drawdown + f[k + 1] <= Loss(f, i, k + 1)
  <2>1. CASE i = k + 1
    <3>1. Loss(f, i, k) = 0
      BY <2>1, NoLoss
    <3> QED
      BY <1>1, <1>2, <2>1, <3>1
  <2>2. CASE i # k + 1
    <3>1. i \in c..k
      BY <2>2
    <3>2. f[i] < 0 /\ drawdown <= Loss(f, i, k)
      BY <3>1 DEF GoesOn
    <3> QED
      BY <1>1, <1>2, <3>2
  <2> QED
    BY <2>1, <2>2
<1>4. drawdown + f[k + 1] = Loss(f, c, k + 1)
  <2>1. c \in c..(k + 1)
    OBVIOUS
  <2> QED
    BY <1>2, <2>1 DEF GoesOn
<1> QED
  BY <1>3, <1>4 DEF GoesOn

\* The loop of getMaxDrawdown takes one more record.
LEMMA DrawdownKeepsFollowing ==
  ASSUME NEW n \in Nat, NEW f \in [1..n -> Int], NEW acc, IsDrawdownTrace(acc, f, n),
         NEW k \in 0..(n - 1), DrawdownFollows(acc, f, k)
  PROVE  DrawdownFollows(acc, f, k + 1)
<1>1. k + 1 \in 1..n /\ f[k + 1] \in Int /\ (k + 1) - 1 = k /\ k \in 0..n
  OBVIOUS
<1>2. PICK max \in Int, drawdown \in Int : acc[k].max = max /\ acc[k].drawdown = drawdown
  BY <1>1 DEF IsDrawdownTrace, Drawdowns
<1>3. PICK c \in 1..(k + 1) : GoesOn(f, drawdown, k, c)
  BY <1>2 DEF DrawdownFollows
<1>4. /\ max <= 0 /\ drawdown <= 0
      /\ IsLossOrNone(f, max, k)
      /\ \A i, j \in 1..k : AllLose(f, i, j) => Smaller(max, drawdown) <= Loss(f, i, j)
  BY <1>2 DEF DrawdownFollows
<1>5. acc[k + 1] = IF f[k + 1] < 0 THEN [max |-> max, drawdown |-> drawdown + f[k + 1]]
                   ELSE [max |-> Smaller(max, drawdown), drawdown |-> 0]
  BY <1>1, <1>2 DEF IsDrawdownTrace
<1>6. CASE f[k + 1] < 0
  <2>1. acc[k + 1].max = max /\ acc[k + 1].drawdown = drawdown + f[k + 1]
    BY <1>5, <1>6
  <2>2. GoesOn(f, drawdown + f[k + 1], k + 1, c)
    BY <1>3, <1>4, <1>6, StreakGoesOn
  <2>3. IsLossOrNone(f, max, k + 1)
    BY <1>4 DEF IsLossOrNone
  <2>4. ASSUME NEW i \in 1..(k + 1), NEW j \in 1..(k + 1), AllLose(f, i, j)
        PROVE  Smaller(max, drawdown + f[k + 1]) <= Loss(f, i, j)
    <3>0. Loss(f, i, j) \in Int
      <4>1. i \in 1..(n + 1) /\ j \in 0..n
        BY <1>1
      <4> QED
        BY <4>1, LossType
    <3>1. CASE j = k + 1
      <4>1. i >= c
        BY <1>3, <2>4, <3>1 DEF GoesOn, AllLose
      <4>2. drawdown + f[k + 1] <= Loss(f, i, j)
        BY <2>2, <3>1, <4>1 DEF GoesOn
      <4> QED
        BY <1>1, <3>0, <4>2 DEF Smaller
    <3>2. CASE j # k + 1
      <4>1. i \in 1..k /\ j \in 1..k
        BY <2>4, <3>2 DEF AllLose
      <4>2. Smaller(max, drawdown) <= Loss(f, i, j)
        BY <1>4, <2>4, <4>1
      <4> QED
        BY <1>1, <1>6, <3>0, <4>2 DEF Smaller
    <3> QED
      BY <3>1, <3>2
  <2>5. drawdown + f[k + 1] <= 0 /\ c \in 1..((k + 1) + 1)
    BY <1>1, <1>4, <1>6
  <2> QED
    BY <1>4, <2>1, <2>2, <2>3, <2>4, <2>5 DEF DrawdownFollows
<1>7. CASE ~(f[k + 1] < 0)
  <2> DEFINE worst == Smaller(max, drawdown)
  <2>1. acc[k + 1].max = worst /\ acc[k + 1].drawdown = 0
    BY <1>5, <1>7
  <2>2. worst \in Int /\ worst <= 0 /\ Smaller(worst, 0) = worst
    BY <1>4 DEF Smaller
  <2>3. GoesOn(f, 0, k + 1, k + 2)
    <3>1. (k + 2)..(k + 1) = {} /\ (k + 2) - 1 = k + 1 /\ k + 2 = (k + 1) + 1
      OBVIOUS
    <3> DEFINE m == k + 1
    <3>0. m \in Nat
      OBVIOUS
    <3> HIDE DEF m
    <3>2. Loss(f, m + 1, m) = 0
      BY <3>0, NoLoss
    <3> USE DEF m
    <3> QED
      BY <1>1, <1>7, <3>1, <3>2 DEF GoesOn
  <2>4. IsLossOrNone(f, drawdown, k)
    <3>1. CASE c = k + 1
      BY <1>3, <3>1, NoLoss DEF GoesOn, IsLossOrNone
    <3>2. CASE c # k + 1
      <4>1. c \in 1..k /\ k \in 1..k
        BY <3>2
      <4> QED
        BY <1>3, <4>1 DEF GoesOn, IsLossOrNone, AllLose
    <3> QED
      BY <3>1, <3>2
  <2>5. worst = max \/ worst = drawdown
    BY DEF Smaller
  <2>6. IsLossOrNone(f, worst, k)
    BY <1>4, <2>4, <2>5
  <2> HIDE DEF worst
  <2>7. IsLossOrNone(f, worst, k + 1)
    BY <2>6 DEF IsLossOrNone
  <2>8. ASSUME NEW i \in 1..(k + 1), NEW j \in 1..(k + 1), AllLose(f, i, j)
        PROVE  worst <= Loss(f, i, j)
    <3>1. j # k + 1
      BY <1>7, <2>8 DEF AllLose
    <3>2. i \in 1..k /\ j \in 1..k
      BY <2>8, <3>1 DEF AllLose
    <3> QED
      BY <1>4, <2>8, <3>2 DEF worst
  <2>9. k + 2 \in 1..((k + 1) + 1)
    OBVIOUS
  <2> QED
    BY <2>1, <2>2, <2>3, <2>7, <2>8, <2>9 DEF DrawdownFollows
<1> QED
  BY <1>6, <1>7

\* So it follows the worst streak to the last record.
LEMMA DrawdownOfTrace ==
  ASSUME NEW n \in Nat, NEW f \in [1..n -> Int], NEW acc, IsDrawdownTrace(acc, f, n)
  PROVE  DrawdownFollows(acc, f, n)
<1> DEFINE N == {k \in Nat : k <= n => DrawdownFollows(acc, f, k)}
<1>1. 0 \in N
  <2>1. acc[0].max = 0 /\ acc[0].drawdown = 0
    BY DEF IsDrawdownTrace
  <2>2. GoesOn(f, 0, 0, 1)
    <3>1. 1..0 = {} /\ 0 + 1 = 1
      OBVIOUS
    <3>2. Loss(f, 0 + 1, 0) = 0
      BY NoLoss
    <3> QED
      BY <3>1, <3>2 DEF GoesOn
  <2> QED
    BY <2>1, <2>2 DEF DrawdownFollows, IsLossOrNone
<1>2. ASSUME NEW k \in N
      PROVE  k + 1 \in N
  <2> SUFFICES ASSUME k + 1 <= n
               PROVE  DrawdownFollows(acc, f, k + 1)
    OBVIOUS
  <2>1. k \in 0..(n - 1) /\ DrawdownFollows(acc, f, k)
    OBVIOUS
  <2> QED
    BY <2>1, DrawdownKeepsFollowing
<1>3. N = Nat
  <2> HIDE DEF N
  <2>1. N \subseteq Nat
    BY DEF N
  <2> QED
    BY <1>1, <1>2, <2>1, NatSetInduction
<1>4. n \in N
  BY <1>3
<1> QED
  BY <1>4

\* getMaxDrawdown is a trace.
LEMMA DrawdownUnfolds ==
  ASSUME NEW records, NEW n \in Nat, Len(records) = n, NEW f \in [1..n -> Int],
         \A k \in 1..n : records[k].profit = f[k]
  PROVE  \E acc : IsDrawdownTrace(acc, f, n) /\ DrawdownAfter(records) = acc[n]
<1> DEFINE base == [max |-> 0, drawdown |-> 0]
           Fun(acc) == [k \in 0..n |-> IF k = 0 THEN base ELSE DrawdownStep(acc[k - 1], records[k])]
           chosen == CHOOSE acc : acc = Fun(acc)
           step == [k \in 1..n |-> [a \in Drawdowns |-> DrawdownStep(a, records[k])]]
<1>1. base \in Drawdowns
  BY DEF Drawdowns
<1>2. ASSUME NEW a \in Drawdowns, NEW k \in 1..n
      PROVE  /\ DrawdownStep(a, records[k]) \in Drawdowns
             /\ DrawdownStep(a, records[k])
                  = IF f[k] < 0 THEN [max |-> a.max, drawdown |-> a.drawdown + f[k]]
                    ELSE [max |-> Smaller(a.max, a.drawdown), drawdown |-> 0]
  <2>1. a.max \in Int /\ a.drawdown \in Int /\ f[k] \in Int
    BY DEF Drawdowns
  <2> QED
    BY <2>1 DEF DrawdownStep, Smaller, Drawdowns
<1>3. step \in [1..n -> [Drawdowns -> Drawdowns]]
  BY <1>2
<1>4. PICK g \in [0..n -> Drawdowns] : g[0] = base /\ \A k \in 1..n : g[k] = step[k][g[k - 1]]
  <2> HIDE DEF step, base, Fun, chosen
  <2>1. \E g : IsLoop(g, Drawdowns, base, step, n)
    BY Zenon, <1>1, <1>3, LoopExists
  <2> QED
    BY <2>1 DEF IsLoop
<1>5. ASSUME NEW k \in 1..n
      PROVE  g[k] = DrawdownStep(g[k - 1], records[k])
  <2>1. g[k - 1] \in Drawdowns
    OBVIOUS
  <2> QED
    BY <1>4, <2>1
<1>6. g = Fun(g)
  BY <1>4, <1>5
<1>7. chosen = Fun(chosen)
  BY <1>6
<1>8. DrawdownAfter(records) = chosen[n]
  BY DEF DrawdownAfter
<1> HIDE DEF chosen
<1>9. /\ chosen[0] = base
      /\ \A k \in 1..n : chosen[k] = DrawdownStep(chosen[k - 1], records[k])
      /\ DOMAIN chosen = 0..n /\ chosen = [k \in 0..n |-> chosen[k]]
  BY <1>7
<1>10. chosen = g
  <2> DEFINE N == {k \in Nat : k <= n => chosen[k] = g[k]}
  <2>1. 0 \in N
    BY <1>4, <1>9
  <2>2. ASSUME NEW k \in N
        PROVE  k + 1 \in N
    <3> SUFFICES ASSUME k + 1 <= n
                 PROVE  chosen[k + 1] = g[k + 1]
      OBVIOUS
    <3>1. PICK m \in 1..n : m = k + 1 /\ m - 1 = k
      OBVIOUS
    <3>2. chosen[m - 1] = g[m - 1]
      BY <3>1
    <3>3. chosen[m] = DrawdownStep(chosen[m - 1], records[m])
      BY <1>9
    <3>4. g[m] = DrawdownStep(g[m - 1], records[m])
      BY <1>5
    <3> QED
      BY Zenon, <3>1, <3>2, <3>3, <3>4
  <2>3. N = Nat
    <3> HIDE DEF N
    <3>1. N \subseteq Nat
      BY DEF N
    <3> QED
      BY <2>1, <2>2, <3>1, NatSetInduction
  <2>4. \A k \in 0..n : k \in Nat /\ k <= n
    OBVIOUS
  <2>5. \A k \in 0..n : chosen[k] = g[k]
    BY <2>3, <2>4
  <2> QED
    BY <1>9, <2>5
<1>11. IsDrawdownTrace(g, f, n)
  BY <1>2, <1>4, <1>5 DEF IsDrawdownTrace
<1> QED
  BY <1>8, <1>10, <1>11

\* For any records.
LEMMA MaxDrawdownIsWorst ==
  ASSUME NEW records \in Seq(Record)
  PROVE  LET losses == {ProfitOver(records, s) : s \in LosingStreaks(records)}
             drawdown == MaxDrawdown(records)
         IN  drawdown \in losses \cup {0} /\ \A loss \in losses : drawdown <= loss
<1> DEFINE n == Len(records)
           f == [k \in DOMAIN records |-> records[k].profit]
           drawdown == MaxDrawdown(records)
<1>1. n \in Nat /\ DOMAIN records = 1..n
  OBVIOUS
<1>2. f \in [1..n -> Int] /\ \A k \in 1..n : records[k].profit = f[k]
  <2>1. \A k \in 1..n : records[k] \in Record
    BY <1>1
  <2> QED
    BY <1>1, <2>1 DEF Record
<1>3. \A s : ProfitOver(records, s) = Loss(f, s[1], s[2])
  BY DEF ProfitOver, Loss
<1>4. \A i, j \in 1..n : <<i, j>> \in LosingStreaks(records) <=> AllLose(f, i, j)
  <2> SUFFICES ASSUME NEW i \in 1..n, NEW j \in 1..n
               PROVE  <<i, j>> \in LosingStreaks(records) <=> AllLose(f, i, j)
    OBVIOUS
  <2>1. i..j \subseteq 1..n
    BY <1>1
  <2>2. <<i, j>> \in LosingStreaks(records)
          <=> i <= j /\ \A k \in i..j : records[k].profit < 0
    BY <1>1 DEF LosingStreaks
  <2> QED
    BY <1>2, <2>1, <2>2 DEF AllLose
<1>5. LosingStreaks(records) \subseteq (1..n) \X (1..n)
  BY <1>1 DEF LosingStreaks
<1> HIDE DEF f, n
<1>6. PICK acc : IsDrawdownTrace(acc, f, n) /\ DrawdownAfter(records) = acc[n]
  BY <1>1, <1>2, DrawdownUnfolds DEF n
<1>7. DrawdownFollows(acc, f, n)
  BY <1>1, <1>2, <1>6, DrawdownOfTrace
<1>8. PICK max \in Int, last \in Int : acc[n].max = max /\ acc[n].drawdown = last
  BY <1>1, <1>6 DEF IsDrawdownTrace, Drawdowns
<1>9. drawdown = Smaller(max, last)
  BY <1>6, <1>8 DEF MaxDrawdown
<1> HIDE DEF drawdown
<1>10. IsLossOrNone(f, last, n)
  <2>1. PICK c \in 1..(n + 1) : GoesOn(f, last, n, c)
    BY <1>7, <1>8 DEF DrawdownFollows
  <2>2. CASE c = n + 1
    BY <1>1, <2>1, <2>2, NoLoss DEF GoesOn, IsLossOrNone
  <2>3. CASE c # n + 1
    <3>1. c \in 1..n /\ n \in 1..n
      BY <1>1, <2>3
    <3> QED
      BY <2>1, <3>1 DEF GoesOn, IsLossOrNone, AllLose
  <2> QED
    BY <2>2, <2>3
<1>11. IsLossOrNone(f, drawdown, n)
  <2>1. IsLossOrNone(f, max, n)
    BY <1>7, <1>8 DEF DrawdownFollows
  <2>2. drawdown = max \/ drawdown = last
    BY <1>9 DEF Smaller
  <2> QED
    BY <1>10, <2>1, <2>2
<1>12. \A i, j \in 1..n : AllLose(f, i, j) => drawdown <= Loss(f, i, j)
  BY <1>7, <1>8, <1>9 DEF DrawdownFollows
<1>13. drawdown = 0 \/ \E s \in LosingStreaks(records) : drawdown = ProfitOver(records, s)
  <2>1. CASE \E i, j \in 1..n : AllLose(f, i, j) /\ drawdown = Loss(f, i, j)
    <3>1. PICK i \in 1..n, j \in 1..n : AllLose(f, i, j) /\ drawdown = Loss(f, i, j)
      BY <2>1
    <3>2. <<i, j>> \in LosingStreaks(records)
      BY <1>4, <3>1
    <3>3. ProfitOver(records, <<i, j>>) = Loss(f, i, j)
      BY <1>3
    <3> QED
      BY <3>1, <3>2, <3>3
  <2> QED
    BY <1>11, <2>1 DEF IsLossOrNone
<1>14. ASSUME NEW s \in LosingStreaks(records)
       PROVE  drawdown <= ProfitOver(records, s)
  <2>1. PICK i \in 1..n, j \in 1..n : s = <<i, j>>
    BY <1>5
  <2>2. AllLose(f, i, j)
    BY <1>4, <2>1
  <2>3. ProfitOver(records, s) = Loss(f, i, j)
    BY <1>3, <2>1
  <2> QED
    BY <1>12, <2>2, <2>3
<1> QED
  BY <1>13, <1>14 DEF drawdown

\* The drawdown reported is the greatest loss over records in a row that all lose,
\* for any number of records. (BacktestResult.getMaxDrawdown)
THEOREM DrawdownIsCorrect == Spec => []DrawdownIsWorstStreak
<1>1. ASSUME IInv, NEW r \in Run, NEW b \in DOMAIN runs[r].brokers
      PROVE  runs[r].brokers[b].records \in Seq(Record)
  <2>1. runs[r].brokers \in Seq(Broker)
    BY <1>1, RunTypes DEF IInv
  <2>2. runs[r].brokers[b] \in Broker
    BY <2>1
  <2> QED
    BY <2>2 DEF Broker
<1>2. IInv => DrawdownIsWorstStreak
  BY <1>1, MaxDrawdownIsWorst DEF DrawdownIsWorstStreak, Brokers
<1> QED
  BY <1>2, IInvHolds, PTL

-----------------------------------------------------------------------------
(* Candles.                                                                *)

\* The candles from the one after the x-th to the y-th.
IsPiece(c, s, x, y) ==
  /\ x \in Nat /\ y \in Nat /\ x <= y /\ y <= Len(s)
  /\ c \in Seq(Nat) /\ Len(c) = y - x
  /\ \A i \in 1..(y - x) : c[i] = s[x + i]

\* k candles are not later than t.
Split(s, t, k) == k \in 0..Len(s) /\ \A j \in 1..Len(s) : s[j] <= t <=> j <= k

\* SubSeq gives a piece.
LEMMA PieceExists ==
  ASSUME NEW s \in Seq(Nat), NEW x \in Nat, NEW y \in Nat, x <= y, y <= Len(s)
  PROVE  IsPiece(SubSeq(s, x + 1, y), s, x, y)
<1> DEFINE c == SubSeq(s, x + 1, y)
<1>1. x + 1 \in Int /\ y \in Int /\ Len(s) \in Nat
  OBVIOUS
<1>2. \A i \in (x + 1)..y : s[i] \in Nat
  OBVIOUS
<1>3. /\ c \in Seq(Nat)
      /\ Len(c) = IF x + 1 <= y THEN y - (x + 1) + 1 ELSE 0
      /\ \A i \in 1..(y - (x + 1) + 1) : c[i] = s[(x + 1) + i - 1]
  BY <1>1, <1>2, SubSeqProperties
<1> HIDE DEF c
<1>4. Len(c) = y - x
  BY <1>3
<1>5. ASSUME NEW i \in 1..(y - x)
      PROVE  c[i] = s[x + i]
  <2>1. i \in 1..(y - (x + 1) + 1) /\ (x + 1) + i - 1 = x + i
    OBVIOUS
  <2>2. c[i] = s[(x + 1) + i - 1]
    BY <1>3, <2>1
  <2> QED
    BY <2>1, <2>2
<1> QED
  BY <1>3, <1>4, <1>5 DEF IsPiece, c

\* There is one piece for each two places.
LEMMA PieceIsUnique ==
  ASSUME NEW s, NEW c, NEW e, NEW x, NEW y, IsPiece(c, s, x, y), IsPiece(e, s, x, y)
  PROVE  c = e
<1>1. /\ c \in Seq(Nat) /\ e \in Seq(Nat) /\ Len(c) = Len(e)
      /\ \A i \in 1..Len(c) : c[i] = e[i]
  BY DEF IsPiece
<1> QED
  BY <1>1, SeqEqual

\* Candles are a piece of themselves.
LEMMA WholePiece ==
  ASSUME NEW s \in Seq(Nat)
  PROVE  IsPiece(s, s, 0, Len(s))
  BY DEF IsPiece

\* A piece of a piece is a piece.
LEMMA PieceOfPiece ==
  ASSUME NEW s, NEW c, NEW e, NEW x, NEW y, NEW i, NEW j,
         IsPiece(c, s, x, y), IsPiece(e, c, i, j)
  PROVE  IsPiece(e, s, x + i, x + j)
<1>1. /\ x \in Nat /\ y \in Nat /\ i \in Nat /\ j \in Nat
      /\ x <= y /\ i <= j /\ j <= y - x /\ Len(c) = y - x
  BY DEF IsPiece
<1>2. Len(e) = (x + j) - (x + i)
  BY <1>1 DEF IsPiece
<1>3. x + j <= y /\ y <= Len(s)
  BY <1>1 DEF IsPiece
<1>4. ASSUME NEW n \in 1..((x + j) - (x + i))
      PROVE  e[n] = s[(x + i) + n]
  <2>1. n \in 1..(j - i) /\ i + n \in 1..(y - x) /\ x + (i + n) = (x + i) + n
    BY <1>1
  <2>2. e[n] = c[i + n]
    BY <2>1 DEF IsPiece
  <2>3. c[i + n] = s[x + (i + n)]
    BY <2>1 DEF IsPiece
  <2> QED
    BY <2>1, <2>2, <2>3
<1>5. x + i <= x + j /\ x + i \in Nat /\ x + j \in Nat /\ e \in Seq(Nat)
  BY <1>1 DEF IsPiece
<1>6. x + j <= Len(s)
  <2>1. Len(s) \in Int \/ Len(s) \notin Int
    OBVIOUS
  <2> QED
    BY <1>1, <1>3 DEF IsPiece
<1> QED
  BY <1>2, <1>4, <1>5, <1>6 DEF IsPiece

\* A multiple is not less than what is multiplied.
LEMMA Grows ==
  ASSUME NEW d \in Nat \ {0}, NEW m \in Nat
  PROVE  d * m >= m /\ d * m \in Nat
<1>1. d * m = m + (d - 1) * m /\ (d - 1) * m \in Nat
  OBVIOUS
<1> QED
  BY <1>1

\* Candles come in order.
LEMMA CandlesAscend ==
  ASSUME NEW d \in Nat \ {0}, NEW s, IsCandles(s, d)
  PROVE  /\ s \in Seq(Nat) /\ Len(s) \in Nat /\ DOMAIN s = 1..Len(s)
         /\ \A j, k \in 1..Len(s) : s[j] \in Nat /\ (j < k <=> s[j] < s[k])
<1>1. s \in Seq(Nat) /\ Len(s) \in Nat /\ DOMAIN s = 1..Len(s) /\ \A j \in 1..Len(s) : s[j] \in Nat
  BY DEF IsCandles
<1>2. ASSUME NEW j \in 1..Len(s), NEW k \in 1..Len(s), j < k
      PROVE  s[j] < s[k]
  <2>1. s[k] - s[j] >= d * (k - j)
    BY <1>1, <1>2 DEF IsCandles
  <2>2. k - j \in Nat /\ k - j >= 1
    BY <1>2
  <2>3. d * (k - j) >= k - j /\ d * (k - j) \in Nat
    BY <2>2, Grows
  <2> QED
    BY <1>1, <2>1, <2>2, <2>3
<1>3. ASSUME NEW j \in 1..Len(s), NEW k \in 1..Len(s), s[j] < s[k]
      PROVE  j < k
  BY <1>1, <1>2, <1>3
<1> QED
  BY <1>1, <1>2, <1>3

\* Any time splits candles into those not later and those later.
LEMMA SplitExists ==
  ASSUME NEW d \in Nat \ {0}, NEW s, IsCandles(s, d), NEW t \in Int
  PROVE  \E k : Split(s, t, k)
<1>1. /\ s \in Seq(Nat) /\ Len(s) \in Nat
      /\ \A j, k \in 1..Len(s) : s[j] \in Nat /\ (j < k <=> s[j] < s[k])
  BY CandlesAscend
<1> DEFINE later == {k \in 1..Len(s) : s[k] > t}
<1>2. CASE later = {}
  <2>1. Split(s, t, Len(s))
    BY <1>1, <1>2 DEF Split
  <2> QED
    BY <2>1
<1>3. CASE later # {}
  <2>1. PICK k \in later : \A j \in later : k <= j
    <3>1. later \subseteq Nat
      OBVIOUS
    <3> HIDE DEF later
    <3> QED
      BY <1>3, <3>1, LeastExists
  <2>2. Split(s, t, k - 1)
    <3>1. ASSUME NEW j \in 1..Len(s)
          PROVE  s[j] <= t <=> j <= k - 1
      <4>1. CASE j < k
        BY <1>1, <2>1, <4>1
      <4>2. CASE j = k
        BY <1>1, <4>2
      <4>3. CASE j > k
        <5>1. s[k] < s[j] /\ s[k] > t
          BY <1>1, <4>3
        <5> QED
          BY <1>1, <4>3, <5>1
      <4> QED
        BY <4>1, <4>2, <4>3
    <3> QED
      BY <3>1 DEF Split
  <2> QED
    BY <2>2
<1> QED
  BY <1>2, <1>3

\* A later time splits them later.
LEMMA SplitsInOrder ==
  ASSUME NEW d \in Nat \ {0}, NEW s, IsCandles(s, d), NEW t \in Int, NEW u \in Int, t <= u,
         NEW k, NEW m, Split(s, t, k), Split(s, u, m)
  PROVE  k <= m /\ k \in Nat /\ m \in Nat /\ m <= Len(s)
<1>1. /\ Len(s) \in Nat /\ \A j \in 1..Len(s) : s[j] \in Nat
  BY CandlesAscend
<1>2. k \in 0..Len(s) /\ m \in 0..Len(s)
  BY DEF Split
<1>3. CASE k = 0
  BY <1>1, <1>2, <1>3
<1>4. CASE k # 0
  <2>1. k \in 1..Len(s) /\ s[k] <= t
    BY <1>1, <1>2, <1>4 DEF Split
  <2>2. s[k] <= u
    BY <1>1, <2>1
  <2> QED
    BY <1>1, <1>2, <2>1, <2>2 DEF Split
<1> QED
  BY <1>3, <1>4

\* At most as many candles of an interval as fit.
LEMMA SpacingBounds ==
  ASSUME NEW d \in Nat \ {0}, NEW s, IsCandles(s, d), NEW t \in Int, NEW n \in Nat,
         NEW k, NEW m, Split(s, t - d * n, k), Split(s, t, m)
  PROVE  m - k <= n
<1>0. d * n \in Nat
  BY Grows
<1>1. k <= m /\ k \in Nat /\ m \in Nat /\ m <= Len(s)
  <2>1. t - d * n \in Int /\ t - d * n <= t
    BY <1>0
  <2> QED
    BY Zenon, <2>1, SplitsInOrder
<1>2. /\ Len(s) \in Nat /\ DOMAIN s = 1..Len(s) /\ \A j \in 1..Len(s) : s[j] \in Nat
  BY CandlesAscend
<1>3. CASE m <= k + 1
  <2>1. CASE n = 0
    <3>1. d * n = 0
      BY <2>1
    <3>2. k = m
      <4>1. CASE m = 0
        BY <1>1, <4>1
      <4>2. CASE m # 0
        <5>1. m \in 1..Len(s) /\ s[m] <= t
          BY <1>1, <1>2, <4>2 DEF Split
        <5>2. s[m] <= t - d * n
          BY <3>1, <5>1
        <5> QED
          BY <1>1, <5>1, <5>2 DEF Split
      <4> QED
        BY <4>1, <4>2
    <3> QED
      BY <1>1, <2>1, <3>2
  <2>2. CASE n # 0
    BY <1>1, <1>3, <2>2
  <2> QED
    BY <2>1, <2>2
<1>4. CASE ~(m <= k + 1)
  <2>1. k + 1 \in 1..Len(s) /\ m \in 1..Len(s) /\ k + 1 < m
    BY <1>1, <1>2, <1>4
  <2>2. s[k + 1] > t - d * n /\ s[m] <= t
    BY <1>0, <1>1, <1>2, <2>1 DEF Split
  <2>3. s[m] - s[k + 1] >= d * (m - (k + 1))
    BY <1>2, <2>1 DEF IsCandles
  <2>4. d * (m - (k + 1)) < d * n
    <3>1. PICK p \in Nat, q \in Nat : p = m - (k + 1) /\ q = d * p
      BY <1>1, <2>1, Grows
    <3>2. d * (m - (k + 1)) = q
      BY <3>1
    <3> QED
      BY <1>0, <1>2, <2>1, <2>2, <2>3, <3>2
  <2>5. m - (k + 1) < n
    <3>1. PICK p \in Nat : p = m - (k + 1)
      BY <1>1, <2>1
    <3>2. d * p < d * n
      BY <2>4, <3>1
    <3>3. p >= n => d * p >= d * n
      OBVIOUS
    <3>4. d * p \in Nat
      BY Grows
    <3> QED
      BY <1>0, <3>1, <3>2, <3>3, <3>4
  <2> QED
    BY <1>1, <2>5
<1> QED
  BY <1>3, <1>4

\* A piece of candles is candles.
LEMMA PieceIsCandles ==
  ASSUME NEW d \in Nat \ {0}, NEW s, IsCandles(s, d), NEW c, NEW x, NEW y, IsPiece(c, s, x, y)
  PROVE  IsCandles(c, d)
<1>1. /\ x \in Nat /\ y \in Nat /\ x <= y /\ y <= Len(s) /\ Len(s) \in Nat /\ DOMAIN s = 1..Len(s)
      /\ c \in Seq(Nat) /\ DOMAIN c = 1..(y - x)
  BY CandlesAscend DEF IsPiece
<1>2. ASSUME NEW j \in 1..(y - x), NEW k \in 1..(y - x), j < k
      PROVE  c[k] - c[j] >= d * (k - j)
  <2>1. c[j] = s[x + j] /\ c[k] = s[x + k]
    BY DEF IsPiece
  <2>2. x + j \in 1..Len(s) /\ x + k \in 1..Len(s) /\ x + j < x + k
    BY <1>1, <1>2
  <2>3. s[x + k] - s[x + j] >= d * ((x + k) - (x + j))
    BY <1>1, <2>2 DEF IsCandles
  <2>4. (x + k) - (x + j) = k - j
    BY <1>1
  <2> QED
    BY <2>1, <2>3, <2>4
<1> QED
  BY <1>1, <1>2 DEF IsCandles

\* Where a piece splits.
LEMMA SplitOfPiece ==
  ASSUME NEW d \in Nat \ {0}, NEW s, IsCandles(s, d), NEW c, NEW x, NEW y, IsPiece(c, s, x, y),
         NEW t, NEW k, Split(s, t, k)
  PROVE  Split(c, t, IF k < x THEN 0 ELSE IF k > y THEN y - x ELSE k - x)
<1>1. /\ x \in Nat /\ y \in Nat /\ x <= y /\ y <= Len(s) /\ Len(s) \in Nat
      /\ Len(c) = y - x /\ k \in 0..Len(s)
  BY CandlesAscend DEF IsPiece, Split
<1>2. ASSUME NEW i \in 1..(y - x)
      PROVE  c[i] <= t <=> x + i <= k
  <2>1. c[i] = s[x + i] /\ x + i \in 1..Len(s)
    BY <1>1 DEF IsPiece
  <2> QED
    BY <2>1 DEF Split
<1> QED
  BY <1>1, <1>2 DEF Split

-----------------------------------------------------------------------------
\* Past keeps the candles up to the split.
LEMMA PastIsPiece ==
  ASSUME NEW d \in Nat \ {0}, NEW s, IsCandles(s, d), NEW t \in Int, NEW m, Split(s, t, m)
  PROVE  IsPiece(Past(s, t), s, 0, m)
<1>1. /\ s \in Seq(Nat) /\ Len(s) \in Nat /\ DOMAIN s = 1..Len(s)
      /\ \A j \in 1..Len(s) : s[j] \in Nat
      /\ m \in 0..Len(s)
  BY CandlesAscend DEF Split
<1> DEFINE later == {k \in DOMAIN s : s[k] > t}
<1>2. \A k \in 1..Len(s) : k \in later <=> k > m
  BY <1>1 DEF Split
<1>3. CASE m = Len(s)
  <2>1. later = {}
    BY <1>1, <1>2, <1>3
  <2>2. Past(s, t) = s
    BY <2>1 DEF Past
  <2> QED
    BY <1>1, <1>3, <2>2, WholePiece
<1>4. CASE m # Len(s)
  <2>a. Len(s) \in Nat /\ m \in 0..Len(s)
    BY <1>1
  <2>b. m + 1 \in 1..Len(s)
    BY <1>4, <2>a
  <2>0. later \subseteq 1..Len(s) /\ m + 1 \in 1..Len(s)
    BY <1>1, <2>b
  <2>1. m + 1 \in later /\ \A k \in later : m + 1 <= k
    <3> HIDE DEF later
    <3> QED
      BY <1>1, <1>2, <2>0
  <2>2. Min(later) = m + 1
    <3> HIDE DEF later
    <3>1. Min(later) \in later /\ \A y \in later : Min(later) <= y
      BY Zenon, <2>1 DEF Min
    <3>2. m + 1 <= Min(later) /\ Min(later) <= m + 1 /\ Min(later) \in 1..Len(s)
      BY <2>0, <2>1, <3>1
    <3> QED
      BY <2>a, <3>2
  <2>3. Past(s, t) = SubSeq(s, 1, (m + 1) - 1)
    BY <2>1, <2>2 DEF Past
  <2>4. (m + 1) - 1 = m /\ 1 = 0 + 1
    BY <1>1
  <2>5. Past(s, t) = SubSeq(s, 0 + 1, m)
    BY <2>3, <2>4
  <2> QED
    BY <1>1, <2>5, PieceExists
<1> QED
  BY <1>3, <1>4

\* What After has kept of the first k candles.
Keeps(kept, s, t) ==
  /\ kept[0] = <<>>
  /\ \A k \in 1..Len(s) : kept[k] = IF s[k] > t THEN Append(kept[k - 1], s[k]) ELSE kept[k - 1]

\* After is the last state of its loop.
LEMMA AfterUnfolds ==
  ASSUME NEW s \in Seq(Nat), NEW t \in Int
  PROVE  \E kept \in [0..Len(s) -> Seq(Nat)] : Keeps(kept, s, t) /\ After(s, t) = kept[Len(s)]
<1> DEFINE n == Len(s)
           step == [k \in 1..n |-> [a \in Seq(Nat) |-> IF s[k] > t THEN Append(a, s[k]) ELSE a]]
           Fun(kept) == [k \in 0..n |-> IF k = 0 THEN <<>>
                                        ELSE IF s[k] > t THEN Append(kept[k - 1], s[k])
                                        ELSE kept[k - 1]]
           chosen == CHOOSE kept : kept = Fun(kept)
<1>0. n \in Nat /\ \A k \in 1..n : s[k] \in Nat
  OBVIOUS
<1>1. <<>> \in Seq(Nat)
  OBVIOUS
<1>2. \A k \in 1..n : \A a \in Seq(Nat) : Append(a, s[k]) \in Seq(Nat)
  BY <1>0
<1>3. step \in [1..n -> [Seq(Nat) -> Seq(Nat)]]
  BY <1>2
<1>4. PICK g : IsLoop(g, Seq(Nat), <<>>, step, n)
  <2> HIDE DEF step, n
  <2> QED
    BY Zenon, <1>0, <1>1, <1>3, LoopExists
<1>5. g \in [0..n -> Seq(Nat)] /\ g[0] = <<>>
  BY <1>4 DEF IsLoop
<1>6. ASSUME NEW k \in 1..n
      PROVE  g[k] = IF s[k] > t THEN Append(g[k - 1], s[k]) ELSE g[k - 1]
  <2>1. g[k] = step[k][g[k - 1]]
    BY <1>4 DEF IsLoop
  <2>2. g[k - 1] \in Seq(Nat)
    <3>1. k - 1 \in 0..n
      BY <1>0
    <3> QED
      BY Zenon, <1>5, <3>1
  <2> QED
    BY <2>1, <2>2
<1> HIDE DEF step
<1>7. g = Fun(g)
  <2>1. \A k \in 0..n : k # 0 => k \in 1..n
    OBVIOUS
  <2>2. \A k \in 0..n : g[k] = Fun(g)[k]
    BY ZenonT(40), <1>5, <1>6, <2>1
  <2> QED
    BY Zenon, <1>5, <2>2
<1>8. chosen = Fun(chosen)
  BY Zenon, <1>7
<1>9. After(s, t) = chosen[n]
  BY DEF After
<1> HIDE DEF chosen
<1>10. /\ chosen[0] = <<>> /\ DOMAIN chosen = 0..n /\ chosen = [k \in 0..n |-> chosen[k]]
       /\ \A k \in 1..n : chosen[k] = IF s[k] > t THEN Append(chosen[k - 1], s[k]) ELSE chosen[k - 1]
  <2>1. \A k \in 1..n : k \in 0..n /\ k # 0
    OBVIOUS
  <2>2. 0 \in 0..n
    BY <1>0
  <2>3. DOMAIN chosen = 0..n /\ chosen = [k \in 0..n |-> chosen[k]]
    BY Zenon, <1>8
  <2>4. \A k \in 0..n : chosen[k] = IF k = 0 THEN <<>>
                                    ELSE IF s[k] > t THEN Append(chosen[k - 1], s[k])
                                    ELSE chosen[k - 1]
    BY Zenon, <1>8
  <2> QED
    BY Zenon, <2>1, <2>2, <2>3, <2>4
<1> HIDE DEF Fun
<1>11. \A k \in 0..n : chosen[k] = g[k]
  <2> DEFINE N == {k \in Nat : k <= n => chosen[k] = g[k]}
  <2>1. 0 \in N
    BY <1>5, <1>10
  <2>2. ASSUME NEW k \in N
        PROVE  k + 1 \in N
    <3> SUFFICES ASSUME k + 1 <= n
                 PROVE  chosen[k + 1] = g[k + 1]
      OBVIOUS
    <3>1. PICK m \in 1..n : m = k + 1 /\ m - 1 = k
      OBVIOUS
    <3>2. chosen[m - 1] = g[m - 1]
      BY <3>1
    <3>3. chosen[m] = g[m]
      BY Zenon, <1>6, <1>10, <3>2
    <3> QED
      BY <3>1, <3>3
  <2>3. N = Nat
    <3> HIDE DEF N
    <3>1. N \subseteq Nat
      BY DEF N
    <3> QED
      BY <2>1, <2>2, <3>1, NatSetInduction
  <2> QED
    BY <2>3
<1>12. chosen = g
  BY <1>5, <1>10, <1>11
<1>13. Keeps(g, s, t)
  BY <1>5, <1>6 DEF Keeps
<1> QED
  BY <1>5, <1>9, <1>12, <1>13

\* After gives candles.
LEMMA AfterType ==
  ASSUME NEW s \in Seq(Nat), NEW t \in Int
  PROVE  After(s, t) \in Seq(Nat)
<1>1. PICK kept \in [0..Len(s) -> Seq(Nat)] : After(s, t) = kept[Len(s)]
  BY AfterUnfolds
<1>2. Len(s) \in 0..Len(s)
  OBVIOUS
<1> QED
  BY <1>1, <1>2

\* After keeps the candles from the split on.
LEMMA AfterIsPiece ==
  ASSUME NEW d \in Nat \ {0}, NEW s, IsCandles(s, d), NEW t \in Int, NEW k, Split(s, t, k)
  PROVE  IsPiece(After(s, t), s, k, Len(s))
<1>1. /\ s \in Seq(Nat) /\ Len(s) \in Nat /\ DOMAIN s = 1..Len(s)
      /\ \A j \in 1..Len(s) : s[j] \in Nat
      /\ k \in 0..Len(s)
  BY CandlesAscend DEF Split
<1>2. PICK kept \in [0..Len(s) -> Seq(Nat)] : Keeps(kept, s, t) /\ After(s, t) = kept[Len(s)]
  BY <1>1, AfterUnfolds
<1> DEFINE Good(j) == IF j <= k THEN kept[j] = <<>> ELSE IsPiece(kept[j], s, k, j)
           N == {j \in Nat : j <= Len(s) => Good(j)}
<1>3. 0 \in N
  BY <1>1, <1>2 DEF Keeps
<1>4. ASSUME NEW j \in N
      PROVE  j + 1 \in N
  <2> SUFFICES ASSUME j + 1 <= Len(s)
               PROVE  Good(j + 1)
    OBVIOUS
  <2>1. j + 1 \in 1..Len(s) /\ (j + 1) - 1 = j /\ j <= Len(s) /\ Good(j) /\ j \in 0..Len(s)
    BY <1>1
  <2>2. kept[j + 1] = IF s[j + 1] > t THEN Append(kept[j], s[j + 1]) ELSE kept[j]
    <3>1. PICK i \in 1..Len(s) : i = j + 1 /\ i - 1 = j
      BY <2>1
    <3>2. kept[i] = IF s[i] > t THEN Append(kept[i - 1], s[i]) ELSE kept[i - 1]
      BY <1>2 DEF Keeps
    <3> QED
      BY Zenon, <3>1, <3>2
  <2>3. s[j + 1] > t <=> j + 1 > k
    BY <1>1, <2>1 DEF Split
  <2>4. CASE j + 1 <= k
    BY <1>1, <2>1, <2>2, <2>3, <2>4
  <2>5. CASE ~(j + 1 <= k)
    <3>1. kept[j + 1] = Append(kept[j], s[j + 1]) /\ k <= j
      BY <1>1, <2>1, <2>2, <2>3, <2>5
    <3>2. IsPiece(kept[j], s, k, j)
      <4>1. CASE j = k
        <5>1. kept[j] = <<>>
          BY <2>1, <4>1
        <5> QED
          BY <1>1, <2>1, <4>1, <5>1 DEF IsPiece
      <4>2. CASE j # k
        BY <1>1, <2>1, <3>1, <4>2
      <4> QED
        BY <4>1, <4>2
    <3>3. kept[j] \in Seq(Nat) /\ Len(kept[j]) = j - k /\ \A i \in 1..(j - k) : kept[j][i] = s[k + i]
      BY <3>2 DEF IsPiece
    <3> DEFINE longer == Append(kept[j], s[j + 1])
    <3>4. /\ longer \in Seq(Nat) /\ Len(longer) = (j - k) + 1
          /\ \A i \in 1..(j - k) : longer[i] = kept[j][i]
          /\ longer[(j - k) + 1] = s[j + 1]
      <4>1. s[j + 1] \in Nat
        BY <1>1, <2>1
      <4> QED
        BY <3>3, <4>1, AppendProperties
    <3> HIDE DEF longer
    <3>5. \A i \in 1..((j + 1) - k) : longer[i] = s[k + i]
      <4> SUFFICES ASSUME NEW i \in 1..((j + 1) - k)
                   PROVE  longer[i] = s[k + i]
        OBVIOUS
      <4>1. CASE i = (j - k) + 1
        <5>1. k + i = j + 1
          BY <1>1, <4>1
        <5> QED
          BY <3>4, <4>1, <5>1
      <4>2. CASE i # (j - k) + 1
        <5>1. i \in 1..(j - k)
          BY <1>1, <4>2
        <5> QED
          BY <3>3, <3>4, <5>1
      <4> QED
        BY <4>1, <4>2
    <3>6. IsPiece(longer, s, k, j + 1)
      BY <1>1, <2>1, <3>1, <3>4, <3>5 DEF IsPiece
    <3> QED
      BY <2>5, <3>1, <3>6 DEF longer
  <2> QED
    BY <2>4, <2>5
<1>5. N = Nat
  <2> HIDE DEF N
  <2>1. N \subseteq Nat
    BY DEF N
  <2> QED
    BY <1>3, <1>4, <2>1, NatSetInduction
<1>6. Good(Len(s))
  <2>1. Len(s) \in N
    BY <1>1, <1>5
  <2> QED
    BY <1>1, <2>1
<1>7. CASE k = Len(s)
  <2>1. After(s, t) = <<>>
    BY <1>1, <1>2, <1>6, <1>7
  <2> QED
    BY <1>1, <1>7, <2>1 DEF IsPiece
<1>8. CASE k # Len(s)
  <2>0. Len(s) \in Nat /\ k \in 0..Len(s)
    BY <1>1
  <2>1. ~(Len(s) <= k)
    BY <1>8, <2>0
  <2> QED
    BY Zenon, <1>2, <1>6, <2>1
<1> QED
  BY <1>7, <1>8

-----------------------------------------------------------------------------
\* The parts of a window.
LEMMA WindowTypes ==
  ASSUME NEW w \in Window
  PROVE  /\ w.clock \in Nat /\ w.interval \in Interval /\ w.interval \in Nat \ {0} /\ w.limit \in Nat
         /\ w.interval * w.limit \in Nat
         /\ Start(w) \in Int /\ Start(w) = w.clock - w.interval * w.limit /\ Start(w) <= w.clock
<1>1. w.clock \in Nat /\ w.interval \in Interval /\ w.interval \in Nat \ {0} /\ w.limit \in Nat
  BY IntervalAssumption DEF Window
<1>2. w.interval * w.limit \in Nat
  BY <1>1, Grows
<1> QED
  BY <1>1, <1>2 DEF Start

Later(x, y) == IF x <= y THEN y ELSE x

\* What a piece of the candles that ends after the window shows of it.
LEMMA ObservedOfPiece ==
  ASSUME NEW w \in Window, NEW s, IsCandles(s, w.interval), NEW k, NEW m,
         Split(s, Start(w), k), Split(s, w.clock, m),
         NEW c, NEW x, NEW y, IsPiece(c, s, x, y), x <= m, m <= y
  PROVE  IsPiece(Observed(c, w), s, Later(x, k), m)
<1> DEFINE d == w.interval
           lo == Later(x, k)
           past == Past(c, w.clock)
           after == After(past, Start(w))
<1>1. /\ w.clock \in Int /\ d \in Nat \ {0} /\ w.limit \in Nat
      /\ Start(w) \in Int /\ Start(w) <= w.clock
  BY WindowTypes
<1>2. k <= m /\ k \in Nat /\ m \in Nat /\ m <= Len(s)
  BY <1>1, SplitsInOrder
<1>3. x \in Nat /\ y \in Nat /\ x <= y
  BY DEF IsPiece
<1>4. lo \in Nat /\ k <= lo /\ x <= lo /\ lo <= m
  BY <1>2, <1>3 DEF Later
<1>5. IsCandles(c, d)
  BY <1>1, PieceIsCandles
<1>6. Split(c, w.clock, m - x)
  <2>1. Split(c, w.clock, IF m < x THEN 0 ELSE IF m > y THEN y - x ELSE m - x)
    BY <1>1, SplitOfPiece
  <2>2. ~(m < x) /\ ~(m > y)
    BY <1>2, <1>3
  <2> QED
    BY <2>1, <2>2
<1>7. Split(c, Start(w), lo - x)
  <2>1. Split(c, Start(w), IF k < x THEN 0 ELSE IF k > y THEN y - x ELSE k - x)
    BY <1>1, SplitOfPiece
  <2>2. (IF k < x THEN 0 ELSE IF k > y THEN y - x ELSE k - x) = lo - x
    BY <1>2, <1>3 DEF Later
  <2> QED
    BY <2>1, <2>2
<1>8. IsPiece(past, c, 0, m - x)
  BY <1>1, <1>5, <1>6, PastIsPiece
<1> HIDE DEF past, lo
<1>9. IsCandles(past, d) /\ Len(past) = m - x
  <2>1. IsCandles(past, d)
    BY <1>1, <1>5, <1>8, PieceIsCandles
  <2>2. Len(past) = (m - x) - 0
    BY <1>8 DEF IsPiece
  <2> QED
    BY <1>2, <1>3, <2>1, <2>2
<1>10. Split(past, Start(w), lo - x)
  <2> DEFINE h == lo - x
             j == m - x
  <2>0. h \in Nat /\ j \in Nat /\ h <= j
    BY <1>2, <1>3, <1>4
  <2> HIDE DEF h, j
  <2>1. Split(past, Start(w), IF h < 0 THEN 0 ELSE IF h > j THEN j - 0 ELSE h - 0)
    BY <1>1, <1>5, <1>7, <1>8, SplitOfPiece DEF h, j
  <2>2. (IF h < 0 THEN 0 ELSE IF h > j THEN j - 0 ELSE h - 0) = h
    BY <2>0
  <2> QED
    BY <2>1, <2>2 DEF h
<1>11. IsPiece(after, past, lo - x, m - x)
  BY <1>1, <1>9, <1>10, AfterIsPiece
<1> HIDE DEF after
<1>12. IsPiece(after, s, lo, m)
  <2>1. IsPiece(after, c, 0 + (lo - x), 0 + (m - x))
    BY <1>8, <1>11, PieceOfPiece
  <2>2. 0 + (lo - x) = lo - x /\ 0 + (m - x) = m - x
    BY <1>2, <1>3, <1>4
  <2>3. IsPiece(after, s, x + (lo - x), x + (m - x))
    BY <2>1, <2>2, PieceOfPiece
  <2>4. x + (lo - x) = lo /\ x + (m - x) = m
    BY <1>2, <1>3, <1>4
  <2> QED
    BY <2>3, <2>4
<1>13. m - k <= w.limit
  <2>1. Split(s, w.clock - d * w.limit, k)
    BY DEF Start
  <2> QED
    BY <1>1, <2>1, SpacingBounds
<1>14. Len(after) <= w.limit
  <2>1. Len(after) = m - lo
    BY <1>12 DEF IsPiece
  <2> QED
    BY <1>1, <1>2, <1>4, <1>13, <2>1
<1>15. Observed(c, w) = after
  BY <1>14 DEF Observed, LastOnes, after, past
<1> QED
  BY <1>12, <1>15 DEF lo

\* What the file itself shows of it.
LEMMA ObservedOfAll ==
  ASSUME NEW w \in Window, NEW s, IsCandles(s, w.interval), NEW k, NEW m,
         Split(s, Start(w), k), Split(s, w.clock, m)
  PROVE  IsPiece(Observed(s, w), s, k, m)
<1>1. s \in Seq(Nat) /\ IsPiece(s, s, 0, Len(s))
  BY WholePiece DEF IsCandles
<1>2. w.interval \in Nat \ {0} /\ w.clock \in Int /\ Start(w) \in Int /\ Start(w) <= w.clock
  BY WindowTypes
<1>3. k \in Nat /\ m \in Nat /\ m <= Len(s) /\ 0 <= m /\ Later(0, k) = k
  <2>1. k <= m /\ k \in Nat /\ m \in Nat /\ m <= Len(s)
    BY <1>2, SplitsInOrder
  <2> QED
    BY <2>1 DEF Later
<1>4. IsPiece(Observed(s, w), s, Later(0, k), m)
  BY <1>1, <1>3, ObservedOfPiece
<1> QED
  BY <1>3, <1>4

-----------------------------------------------------------------------------
Lesser(x, y) == IF x <= y THEN x ELSE y

\* What is loaded from a file of candles.
LEMMA LoadedIsPiece ==
  ASSUME NEW w \in Window, NEW s, IsCandles(s, w.interval), NEW k, Split(s, Start(w), k)
  PROVE  IsPiece(Loaded(s, w), s, k, Lesser(Len(s), k + CacheSize + 1))
<1> DEFINE after == After(s, Start(w))
           n == CacheSize + 1
<1>1. w.interval \in Nat \ {0} /\ Start(w) \in Int /\ n \in Nat /\ CacheSize \in Nat
  BY WindowTypes, CacheSizeAssumption
<1>2. IsPiece(after, s, k, Len(s))
  BY <1>1, AfterIsPiece
<1> HIDE DEF after
<1>3. k \in Nat /\ Len(s) \in Nat /\ k <= Len(s) /\ after \in Seq(Nat) /\ Len(after) = Len(s) - k
  BY <1>2 DEF IsPiece
<1>4. CASE Len(after) <= n
  <2>1. Loaded(s, w) = after
    BY <1>4 DEF Loaded, FirstOnes, after
  <2>2. Lesser(Len(s), k + CacheSize + 1) = Len(s)
    BY <1>1, <1>3, <1>4 DEF Lesser
  <2> QED
    BY <1>2, <2>1, <2>2
<1>5. CASE ~(Len(after) <= n)
  <2>0. Loaded(s, w) = SubSeq(after, 1, n)
    BY Zenon, <1>5 DEF Loaded, FirstOnes, after
  <2>1. Loaded(s, w) = SubSeq(after, 0 + 1, n)
    BY <2>0
  <2>2. IsPiece(SubSeq(after, 0 + 1, n), after, 0, n)
    BY <1>1, <1>3, <1>5, PieceExists
  <2>3. IsPiece(Loaded(s, w), s, k + 0, k + n)
    BY <1>2, <2>1, <2>2, PieceOfPiece
  <2>4. k + 0 = k /\ Lesser(Len(s), k + CacheSize + 1) = k + n
    BY <1>1, <1>3, <1>5 DEF Lesser
  <2> QED
    BY <2>3, <2>4
<1> QED
  BY <1>4, <1>5

\* Whatever is loaded fits into the cache.
LEMMA LoadedType ==
  ASSUME NEW w \in Window, NEW rows \in Seq(Nat)
  PROVE  Loaded(rows, w) \in Seq(Nat) /\ Len(Loaded(rows, w)) <= CacheSize + 1
<1> DEFINE after == After(rows, Start(w))
           n == CacheSize + 1
<1>1. after \in Seq(Nat) /\ n \in Nat
  BY WindowTypes, AfterType, CacheSizeAssumption
<1> HIDE DEF after
<1>2. CASE Len(after) <= n
  BY <1>1, <1>2 DEF Loaded, FirstOnes, after
<1>3. CASE ~(Len(after) <= n)
  <2>0. Loaded(rows, w) = SubSeq(after, 1, n)
    BY Zenon, <1>3 DEF Loaded, FirstOnes, after
  <2>1. Loaded(rows, w) = SubSeq(after, 0 + 1, n)
    BY <2>0
  <2>2. IsPiece(SubSeq(after, 0 + 1, n), after, 0, n)
    BY <1>1, <1>3, PieceExists
  <2>3. Loaded(rows, w) \in Seq(Nat) /\ Len(Loaded(rows, w)) = n - 0
    BY <2>1, <2>2 DEF IsPiece
  <2> QED
    BY <1>1, <2>3
<1> QED
  BY <1>2, <1>3

\* Any answer is a sequence.
LEMMA ObservedType ==
  ASSUME NEW w \in Window, NEW c \in Seq(Nat)
  PROVE  Observed(c, w) \in Seq(Nat)
<1> DEFINE past == Past(c, w.clock)
           after == After(past, Start(w))
<1>0. w.clock \in Nat /\ Start(w) \in Int /\ w.limit \in Nat
  BY WindowTypes
<1>1. past \in Seq(Nat)
  <2> DEFINE later == {k \in DOMAIN c : c[k] > w.clock}
  <2>1. CASE later = {}
    BY <2>1 DEF Past
  <2>2. CASE later # {}
    <3>1. past = SubSeq(c, 1, Min(later) - 1)
      BY <2>2 DEF Past
    <3>2. later \subseteq 1..Len(c) /\ Len(c) \in Nat
      OBVIOUS
    <3> HIDE DEF later
    <3>3. later \subseteq Nat
      BY <3>2
    <3>4. \E x \in later : \A y \in later : x <= y
      BY <2>2, <3>3, LeastExists
    <3>5. Min(later) \in later
      BY Zenon, <3>4 DEF Min
    <3>6. Min(later) \in 1..Len(c)
      BY <3>2, <3>5
    <3> DEFINE n == Min(later) - 1
    <3>7. n \in Nat /\ n <= Len(c)
      BY <3>2, <3>6
    <3> HIDE DEF n
    <3>8. IsPiece(SubSeq(c, 0 + 1, n), c, 0, n)
      BY <3>7, PieceExists
    <3>9. SubSeq(c, 0 + 1, n) \in Seq(Nat)
      BY <3>8 DEF IsPiece
    <3> QED
      BY <3>1, <3>9 DEF n
  <2> QED
    BY <2>1, <2>2
<1> HIDE DEF past
<1>2. after \in Seq(Nat)
  BY <1>0, <1>1, AfterType
<1>3. Observed(c, w) = LastOnes(after, w.limit)
  BY DEF Observed, past
<1> HIDE DEF after
<1>4. CASE Len(after) <= w.limit
  BY <1>2, <1>3, <1>4 DEF LastOnes
<1>5. CASE ~(Len(after) <= w.limit)
  <2> DEFINE x == Len(after) - w.limit
  <2>1. x \in Nat /\ x <= Len(after) /\ Len(after) \in Nat
    BY <1>0, <1>2, <1>5
  <2>2. Observed(c, w) = SubSeq(after, x + 1, Len(after))
    BY <1>3, <1>5 DEF LastOnes
  <2> HIDE DEF x
  <2>3. IsPiece(SubSeq(after, x + 1, Len(after)), after, x, Len(after))
    BY <1>2, <2>1, PieceExists
  <2> QED
    BY <2>2, <2>3 DEF IsPiece
<1> QED
  BY <1>4, <1>5

-----------------------------------------------------------------------------
\* What the cache has been filled with, from a file and for a window.
LEMMA LoadedShowsWindow ==
  ASSUME NEW w \in Window, NEW s, IsCandles(s, w.interval), w.limit <= CacheSize + 1,
         NEW k, NEW m, Split(s, Start(w), k), Split(s, w.clock, m)
  PROVE  m <= Lesser(Len(s), k + CacheSize + 1)
<1>1. /\ w.interval \in Nat \ {0} /\ w.clock \in Int /\ w.limit \in Nat
      /\ Start(w) \in Int /\ Start(w) <= w.clock /\ CacheSize \in Nat
  BY WindowTypes, CacheSizeAssumption
<1>2. k <= m /\ k \in Nat /\ m \in Nat /\ m <= Len(s)
  BY <1>1, SplitsInOrder
<1>3. m - k <= w.limit
  BY <1>1, SpacingBounds DEF Start
<1> QED
  BY <1>1, <1>2, <1>3 DEF Lesser

\* An answer from what was loaded for the call.
LEMMA OwnLoadIsExact ==
  ASSUME NEW w \in Window, NEW s, IsCandles(s, w.interval), w.limit <= CacheSize + 1
  PROVE  Observed(Loaded(s, w), w) = Observed(s, w)
<1>1. /\ w.interval \in Nat \ {0} /\ w.clock \in Int /\ Start(w) \in Int /\ Start(w) <= w.clock
  BY WindowTypes
<1>2. PICK k, m : Split(s, Start(w), k) /\ Split(s, w.clock, m)
  BY <1>1, SplitExists
<1>3. k <= m /\ k \in Nat /\ m \in Nat
  BY <1>1, <1>2, SplitsInOrder
<1>4. IsPiece(Loaded(s, w), s, k, Lesser(Len(s), k + CacheSize + 1))
  BY <1>2, LoadedIsPiece
<1>5. m <= Lesser(Len(s), k + CacheSize + 1)
  BY <1>2, LoadedShowsWindow
<1>6. IsPiece(Observed(Loaded(s, w), w), s, Later(k, k), m)
  BY <1>2, <1>3, <1>4, <1>5, ObservedOfPiece
<1>7. Later(k, k) = k
  BY <1>3 DEF Later
<1>8. IsPiece(Observed(s, w), s, k, m)
  BY <1>2, ObservedOfAll
<1> QED
  BY <1>6, <1>7, <1>8, PieceIsUnique

\* One from a cache that covers the window.
LEMMA CoveringCacheIsExact ==
  ASSUME NEW w \in Window, NEW s, IsCandles(s, w.interval),
         NEW c, NEW x, NEW y, IsPiece(c, s, x, y),
         c # <<>>, Head(c) < Start(w), Last(c) > w.clock
  PROVE  Observed(c, w) = Observed(s, w)
<1>1. /\ w.interval \in Nat \ {0} /\ w.clock \in Int /\ Start(w) \in Int /\ Start(w) <= w.clock
  BY WindowTypes
<1>2. PICK k, m : Split(s, Start(w), k) /\ Split(s, w.clock, m)
  BY <1>1, SplitExists
<1>3. k <= m /\ k \in Nat /\ m \in Nat /\ m <= Len(s)
  BY <1>1, <1>2, SplitsInOrder
<1>4. /\ x \in Nat /\ y \in Nat /\ x <= y /\ y <= Len(s) /\ Len(s) \in Nat
      /\ c \in Seq(Nat) /\ Len(c) = y - x
      /\ \A i \in 1..(y - x) : c[i] = s[x + i]
  BY <1>1, CandlesAscend DEF IsPiece
<1>5. \A i \in 1..Len(s) : s[i] \in Nat
  BY <1>1, CandlesAscend
<1>6. y - x \in Nat /\ y - x >= 1
  <2>1. Len(c) # 0
    BY <1>4, EmptySeq
  <2> QED
    BY <1>4, <2>1
<1>7. Head(c) = s[x + 1] /\ Last(c) = s[y] /\ x + 1 \in 1..Len(s) /\ y \in 1..Len(s)
  <2>1. Head(c) = c[1] /\ Last(c) = c[y - x]
    BY <1>4 DEF Last
  <2>2. 1 \in 1..(y - x) /\ y - x \in 1..(y - x) /\ x + (y - x) = y
    BY <1>4, <1>6
  <2>3. x + 1 \in 1..Len(s) /\ y \in 1..Len(s)
    BY <1>4, <1>6
  <2> QED
    BY <1>4, <2>1, <2>2, <2>3
<1>8. x + 1 <= k
  BY <1>1, <1>2, <1>5, <1>7 DEF Split
<1>9. m < y
  BY SMTT(30), <1>1, <1>2, <1>3, <1>4, <1>5, <1>7 DEF Split
<1>10. x <= m /\ m <= y /\ Later(x, k) = k
  BY <1>3, <1>4, <1>8, <1>9 DEF Later
<1>11. IsPiece(Observed(c, w), s, k, m)
  <2>1. IsPiece(Observed(c, w), s, Later(x, k), m)
    BY <1>2, <1>10, ObservedOfPiece
  <2> QED
    BY <1>10, <2>1
<1>12. IsPiece(Observed(s, w), s, k, m)
  BY <1>2, ObservedOfAll
<1> QED
  BY <1>11, <1>12, PieceIsUnique

\* What AnswersAreRecent says of an answer.
IsRecent(answer, expected, w) ==
  /\ ToSet(answer) \subseteq ToSet(expected)
  /\ \A t \in ToSet(answer), u \in ToSet(expected) : t < u => u \in ToSet(answer)
  /\ \A u \in ToSet(expected) : u > w.clock - w.interval => u \in ToSet(answer)

\* The candles of a piece, as a set.
LEMMA PieceElements ==
  ASSUME NEW d \in Nat \ {0}, NEW s, IsCandles(s, d), NEW c, NEW x, NEW y, IsPiece(c, s, x, y)
  PROVE  ToSet(c) = {s[j] : j \in (x + 1)..y}
<1>1. /\ x \in Nat /\ y \in Nat /\ x <= y /\ y - x \in Nat
      /\ c \in Seq(Nat) /\ DOMAIN c = 1..(y - x)
  BY DEF IsPiece
<1>2. \A i \in 1..(y - x) : c[i] = s[x + i] /\ x + i \in (x + 1)..y
  BY <1>1 DEF IsPiece
<1>3. ASSUME NEW j \in (x + 1)..y
      PROVE  j - x \in 1..(y - x) /\ x + (j - x) = j
  BY <1>1
<1>4. ASSUME NEW j \in (x + 1)..y
      PROVE  \E i \in DOMAIN c : c[i] = s[j]
  <2>1. PICK i \in 1..(y - x) : i = j - x /\ x + i = j
    BY <1>3
  <2> QED
    BY <1>1, <1>2, <2>1
<1>5. ASSUME NEW i \in DOMAIN c
      PROVE  \E j \in (x + 1)..y : c[i] = s[j]
  BY <1>1, <1>2
<1>6. ToSet(c) = {c[i] : i \in DOMAIN c}
  BY DEF ToSet
<1> DEFINE D == DOMAIN c
           P == (x + 1)..y
<1>7. \A e : e \in {c[i] : i \in D} <=> e \in {s[j] : j \in P}
  <2>1. (\A i \in D : \E j \in P : c[i] = s[j]) /\ \A j \in P : \E i \in D : c[i] = s[j]
    BY <1>4, <1>5
  <2> HIDE DEF D, P
  <2> QED
    BY <2>1
<1> HIDE DEF D, P
<1>8. {c[i] : i \in D} = {s[j] : j \in P}
  BY Zenon, <1>7
<1> QED
  BY <1>6, <1>8 DEF D, P

\* One from what was loaded for another window of the same clock.
LEMMA OthersLoadIsRecent ==
  ASSUME NEW w \in Window, NEW v \in Window, NEW s, IsCandles(s, w.interval),
         v.interval = w.interval, v.clock = w.clock, v.limit <= CacheSize + 1, v.limit > 0
  PROVE  IsRecent(Observed(Loaded(s, v), w), Observed(s, w), w)
<1> DEFINE d == w.interval
           answer == Observed(Loaded(s, v), w)
           expected == Observed(s, w)
<1>1. /\ d \in Nat \ {0} /\ w.clock \in Int /\ Start(w) \in Int /\ Start(w) <= w.clock
      /\ Start(v) \in Int /\ v.limit \in Nat /\ Start(v) <= w.clock
      /\ Start(v) = w.clock - d * v.limit
  BY WindowTypes
<1>2. PICK k, m, x : Split(s, Start(w), k) /\ Split(s, w.clock, m) /\ Split(s, Start(v), x)
  BY <1>1, SplitExists
<1>3. /\ k <= m /\ x <= m /\ k \in Nat /\ m \in Nat /\ x \in Nat /\ m <= Len(s) /\ Len(s) \in Nat
  <2>1. k <= m /\ k \in Nat /\ m \in Nat /\ m <= Len(s)
    BY <1>1, <1>2, SplitsInOrder
  <2>2. x <= m /\ x \in Nat
    BY <1>1, <1>2, SplitsInOrder
  <2>3. Len(s) \in Nat
    BY <1>1, CandlesAscend
  <2> QED
    BY <2>1, <2>2, <2>3
<1>4. IsPiece(Loaded(s, v), s, x, Lesser(Len(s), x + CacheSize + 1))
  BY <1>2, LoadedIsPiece
<1>5. m <= Lesser(Len(s), x + CacheSize + 1)
  BY <1>2, LoadedShowsWindow
<1>6. IsPiece(answer, s, Later(x, k), m)
  BY <1>2, <1>3, <1>4, <1>5, ObservedOfPiece
<1>7. IsPiece(expected, s, k, m)
  BY <1>2, ObservedOfAll
<1> HIDE DEF answer, expected
<1> DEFINE lo == Later(x, k)
<1>8. lo \in Nat /\ k <= lo /\ (k < lo => lo = x)
  BY <1>3 DEF Later
<1>9. ToSet(answer) = {s[j] : j \in (lo + 1)..m} /\ ToSet(expected) = {s[j] : j \in (k + 1)..m}
  BY <1>1, <1>6, <1>7, PieceElements
<1> HIDE DEF lo
<1>10. \A i, j \in 1..Len(s) : s[j] \in Nat /\ (i < j <=> s[i] < s[j])
  BY <1>1, CandlesAscend
<1>11. ToSet(answer) \subseteq ToSet(expected)
  BY <1>3, <1>8, <1>9
<1>12. ASSUME NEW t \in ToSet(answer), NEW u \in ToSet(expected), t < u
       PROVE  u \in ToSet(answer)
  <2>1. PICK i \in (lo + 1)..m, j \in (k + 1)..m : t = s[i] /\ u = s[j]
    BY <1>9
  <2>2. i \in 1..Len(s) /\ j \in 1..Len(s)
    BY <1>3, <1>8
  <2>3. i < j
    BY <1>10, <1>12, <2>1, <2>2
  <2>4. j \in (lo + 1)..m
    BY <1>8, <2>3
  <2> QED
    BY <1>9, <2>1, <2>4
<1>13. ASSUME NEW u \in ToSet(expected), u > w.clock - w.interval
       PROVE  u \in ToSet(answer)
  <2>1. PICK j \in (k + 1)..m : u = s[j]
    BY <1>9
  <2>2. j \in 1..Len(s) /\ s[j] \in Nat
    BY <1>3, <1>10
  <2>3. s[j] > Start(v)
    <3>1. PICK q \in Nat : q = v.limit /\ q >= 1
      BY <1>1
    <3>2. d * q >= d /\ d * q \in Nat
      <4>1. d * q = d + d * (q - 1) /\ q - 1 \in Nat
        BY <1>1, <3>1
      <4>2. d * (q - 1) \in Nat
        BY <1>1, <4>1, Grows
      <4> QED
        BY <1>1, <4>1, <4>2
    <3> QED
      BY SMTT(30), <1>1, <1>13, <2>1, <2>2, <3>1, <3>2
  <2>4. x < j
    BY <1>1, <1>2, <1>3, <2>2, <2>3 DEF Split
  <2>5. j \in (lo + 1)..m
    BY <1>3, <1>8, <2>4
  <2> QED
    BY <1>9, <2>1, <2>5
<1>14. IsRecent(answer, expected, w)
  BY <1>11, <1>12, <1>13 DEF IsRecent
<1> QED
  BY <1>14 DEF answer, expected

-----------------------------------------------------------------------------
(* The feeder.                                                             *)

CallStates == {"idle", "loading", "loaded", "answered", "failed"}
CallRecord == [state : CallStates, window : Window \cup {None}, answer : Seq(Nat),
               rows : Seq(Nat) \cup {None}, raced : SUBSET Window, source : Seq(Nat) \cup {None}]

FilesOK ==
  /\ file \in [Interval -> Seq(Nat) \cup {None}]
  /\ \A i \in Interval : file[i] # None => IsCandles(file[i], i)

\* The cache is what the history says it was filled with, for some window.
CacheOK ==
  /\ cache \in [Interval -> Seq(Nat)]
  /\ source \in [Interval -> Seq(Nat) \cup {None}]
  /\ \A i \in Interval : Len(cache[i]) <= CacheSize + 1
  /\ \A i \in Interval : source[i] # None =>
       /\ IsCandles(source[i], i)
       /\ \E w \in Window : w.interval = i /\ cache[i] = Loaded(source[i], w)

\* A call that has loaded finds what it has loaded, or what one that raced has.
LoadedOK(call) ==
  LET i == call.window.interval
  IN  source[i] # None =>
        \E w \in call.raced \cup {call.window} : w.interval = i /\ cache[i] = Loaded(source[i], w)

AnswerOK(call) ==
  call.source # None =>
    LET expected == Observed(call.source, call.window)
    IN  /\ IsCandles(call.source, call.window.interval)
        /\ (Fits(call.window) /\ call.raced = {}) => call.answer = expected
        /\ (\A w \in call.raced \cup {call.window} :
              Fits(w) /\ w.clock = call.window.clock /\ w.limit > 0)
             => IsRecent(call.answer, expected, call.window)

CallOK(call) ==
  /\ call.state \in {"loading", "loaded", "answered"} => call.window \in Window
  /\ call.state = "loaded" => LoadedOK(call)
  /\ call.state = "answered" => AnswerOK(call)

FeederInv ==
  /\ FilesOK
  /\ CacheOK
  /\ calls \in [Call -> CallRecord]
  /\ \A c \in Call : CallOK(calls[c])

-----------------------------------------------------------------------------
\* A call that has not been made.
LEMMA IdleIsCall ==
  Idle \in CallRecord /\ Idle.state = "idle"
<1>1. <<>> \in Seq(Nat) /\ {} \in SUBSET Window
  OBVIOUS
<1> QED
  BY <1>1 DEF Idle, CallRecord, CallStates

\* The parts of a call.
LEMMA CallTypes ==
  ASSUME NEW call \in CallRecord
  PROVE  /\ call.state \in CallStates /\ call.answer \in Seq(Nat) /\ call.raced \subseteq Window
         /\ call.rows \in Seq(Nat) \cup {None} /\ call.source \in Seq(Nat) \cup {None}
         /\ call.window \in Window \cup {None}
  BY DEF CallRecord

\* An answer that is exact is recent.
LEMMA ExactIsRecent ==
  ASSUME NEW expected, NEW w
  PROVE  IsRecent(expected, expected, w)
  BY DEF IsRecent

\* What a call is answered with.
LEMMA AnsweringTypes ==
  ASSUME CacheOK, NEW call \in CallRecord, call.window \in Window
  PROVE  LET after == Answering(call)
             i == call.window.interval
         IN  /\ after \in CallRecord /\ after.state = "answered"
             /\ after.window = call.window /\ after.raced = call.raced
             /\ after.answer = Observed(cache[i], call.window) /\ after.source = source[i]
<1> DEFINE i == call.window.interval
           answer == Observed(cache[i], call.window)
<1>1. i \in Interval
  BY WindowTypes
<1>2. cache[i] \in Seq(Nat) /\ source[i] \in Seq(Nat) \cup {None}
  BY <1>1 DEF CacheOK
<1>3. answer \in Seq(Nat)
  BY <1>2, ObservedType
<1>4. Answering(call) = [call EXCEPT !.state = "answered", !.answer = answer, !.rows = None,
                                     !.source = source[i]]
  BY DEF Answering
<1> HIDE DEF answer
<1>5. Answering(call) \in CallRecord /\ Answering(call).answer = answer
  BY <1>2, <1>3, <1>4 DEF CallRecord, CallStates
<1> QED
  BY <1>4, <1>5 DEF CallRecord, answer

\* An answer from a cache that covers the window.
LEMMA CoveredAnswerOK ==
  ASSUME CacheOK, NEW call \in CallRecord, call.window \in Window, Covers(call.window)
  PROVE  AnswerOK(Answering(call))
<1> DEFINE w == call.window
           i == w.interval
           after == Answering(call)
<1>1. i \in Interval
  BY WindowTypes
<1>2. /\ after.window = w /\ after.answer = Observed(cache[i], w) /\ after.source = source[i]
  BY AnsweringTypes
<1> HIDE DEF after
<1>3. SUFFICES ASSUME source[i] # None
               PROVE  Observed(cache[i], w) = Observed(source[i], w)
  <2>1. source[i] # None => IsCandles(source[i], i)
    BY <1>1 DEF CacheOK
  <2> QED
    BY <1>2, <2>1, ExactIsRecent DEF AnswerOK, after
<1>4. PICK v \in Window : /\ v.interval = i /\ cache[i] = Loaded(source[i], v)
                          /\ IsCandles(source[i], i)
  BY <1>1, <1>3 DEF CacheOK
<1>5. v.interval \in Nat \ {0} /\ Start(v) \in Int
  BY WindowTypes
<1>6. PICK k : Split(source[i], Start(v), k)
  BY <1>4, <1>5, SplitExists
<1>7. IsPiece(cache[i], source[i], k, Lesser(Len(source[i]), k + CacheSize + 1))
  BY <1>4, <1>6, LoadedIsPiece
<1>8. cache[i] # <<>> /\ Head(cache[i]) < Start(w) /\ Last(cache[i]) > w.clock
  BY DEF Covers
<1> QED
  BY <1>4, <1>7, <1>8, CoveringCacheIsExact

\* An answer from what has been loaded for this call or for one that raced with it.
LEMMA LoadedAnswerOK ==
  ASSUME CacheOK, NEW call \in CallRecord, call.window \in Window, LoadedOK(call)
  PROVE  AnswerOK(Answering(call))
<1> DEFINE w == call.window
           i == w.interval
           after == Answering(call)
           expected == Observed(source[i], w)
<1>1. i \in Interval
  BY WindowTypes
<1>2. /\ after.window = w /\ after.answer = Observed(cache[i], w) /\ after.source = source[i]
      /\ after.raced = call.raced
  BY AnsweringTypes
<1> HIDE DEF after
<1>3. SUFFICES ASSUME source[i] # None
               PROVE  /\ (Fits(w) /\ call.raced = {}) => Observed(cache[i], w) = expected
                      /\ (\A v \in call.raced \cup {w} : Fits(v) /\ v.clock = w.clock /\ v.limit > 0)
                           => IsRecent(Observed(cache[i], w), expected, w)
  <2>1. source[i] # None => IsCandles(source[i], i)
    BY <1>1 DEF CacheOK
  <2> QED
    BY <1>2, <2>1 DEF AnswerOK, after
<1>4. PICK v \in call.raced \cup {w} : v.interval = i /\ cache[i] = Loaded(source[i], v)
  BY <1>3 DEF LoadedOK
<1>5. IsCandles(source[i], i) /\ v \in Window
  BY <1>1, <1>3, CallTypes DEF CacheOK
<1>6. ASSUME Fits(w), call.raced = {}
      PROVE  Observed(cache[i], w) = expected
  <2>1. v = w
    BY <1>6
  <2> QED
    BY <1>4, <1>5, <1>6, <2>1, OwnLoadIsExact DEF Fits
<1>7. ASSUME \A u \in call.raced \cup {w} : Fits(u) /\ u.clock = w.clock /\ u.limit > 0
      PROVE  IsRecent(Observed(cache[i], w), expected, w)
  <2>1. Fits(v) /\ v.clock = w.clock /\ v.limit > 0
    BY <1>7
  <2>2. IsRecent(Observed(Loaded(source[i], v), w), expected, w)
    BY <1>4, <1>5, <2>1, OthersLoadIsRecent DEF Fits
  <2> QED
    BY <1>4, <2>2
<1> QED
  BY <1>6, <1>7

-----------------------------------------------------------------------------
\* A call that changes alone.
LEMMA OneCallChanges ==
  ASSUME FeederInv, NEW c \in Call, NEW call \in CallRecord, UNCHANGED <<file, cache, source>>,
         calls' = [calls EXCEPT ![c] = call], CallOK(call)
  PROVE  FeederInv'
<1>1. FilesOK' /\ CacheOK'
  BY DEF FeederInv, FilesOK, CacheOK
<1>2. /\ calls' \in [Call -> CallRecord]
      /\ \A d \in Call : calls'[d] = IF d = c THEN call ELSE calls[d]
  BY DEF FeederInv
<1>3. \A d \in Call : CallOK(calls'[d])
  BY <1>2 DEF FeederInv
<1>4. \A d \in Call : CallOK(calls[d])'
  BY <1>3 DEF CallOK, LoadedOK, AnswerOK
<1> QED
  BY <1>1, <1>2, <1>4 DEF FeederInv

\* A call is answered from the cache, or awaits the file.
LEMMA AskKeeps ==
  ASSUME FeederInv, NEW c \in Call, NEW w \in Window, Ask(c, w)
  PROVE  FeederInv'
<1> DEFINE call == [Idle EXCEPT !.window = w]
           loading == [call EXCEPT !.state = "loading"]
<1>1. call \in CallRecord /\ call.window = w
  BY IdleIsCall DEF CallRecord
<1>2. UNCHANGED <<file, cache, source>>
  BY DEF Ask
<1>3. CASE Covers(w) /\ calls' = [calls EXCEPT ![c] = Answering(call)]
  <2> DEFINE after == Answering(call)
  <2> HIDE DEF call
  <2>1. AnswerOK(after)
    BY <1>1, <1>3, CoveredAnswerOK DEF FeederInv
  <2>2. after \in CallRecord /\ after.state = "answered" /\ after.window = w
    BY <1>1, AnsweringTypes DEF FeederInv
  <2>3. CallOK(after)
    <3> HIDE DEF after
    <3> QED
      BY <2>1, <2>2 DEF CallOK
  <2> QED
    BY <1>2, <1>3, <2>2, <2>3, OneCallChanges
<1>4. CASE calls' = [calls EXCEPT ![c] = loading]
  <2>1. loading \in CallRecord /\ loading.state = "loading" /\ loading.window = w
    <3> HIDE DEF call
    <3> QED
      BY <1>1 DEF CallRecord, CallStates
  <2> HIDE DEF loading
  <2>2. CallOK(loading)
    BY <2>1 DEF CallOK
  <2> QED
    BY <1>2, <1>4, <2>1, <2>2, OneCallChanges
<1> QED
  BY <1>3, <1>4 DEF Ask

\* A call that has loaded reads the cache, whoever has filled it last.
LEMMA AnswerKeeps ==
  ASSUME FeederInv, NEW c \in Call, Answer(c)
  PROVE  FeederInv'
<1> DEFINE call == calls[c]
           after == Answering(call)
<1>1. call \in CallRecord /\ call.state = "loaded" /\ call.window \in Window /\ LoadedOK(call)
  BY DEF FeederInv, CallOK, Answer
<1>2. UNCHANGED <<file, cache, source>> /\ calls' = [calls EXCEPT ![c] = after]
  BY DEF Answer, FeederInv
<1> HIDE DEF call
<1>3. AnswerOK(after)
  BY <1>1, LoadedAnswerOK DEF FeederInv
<1>4. after \in CallRecord /\ after.state = "answered" /\ after.window = call.window
  BY <1>1, AnsweringTypes DEF FeederInv
<1> HIDE DEF after
<1>5. CallOK(after)
  BY <1>1, <1>3, <1>4 DEF CallOK
<1> QED
  BY <1>2, <1>4, <1>5, OneCallChanges

\* Rows that are read are rows.
LEMMA RowsReadType ==
  ASSUME FeederInv, NEW call \in CallRecord, call.window \in Window,
         file[call.window.interval] # None, NEW rows \in RowsRead(call)
  PROVE  /\ rows \in Seq(Nat)
         /\ call.rows = None => rows = file[call.window.interval]
<1> DEFINE now == file[call.window.interval]
<1>1. now \in Seq(Nat)
  BY WindowTypes DEF FeederInv, FilesOK
<1>2. CASE call.rows = None
  BY <1>1, <1>2 DEF RowsRead
<1>3. CASE call.rows # None
  <2>1. call.rows \in Seq(Nat)
    BY <1>3, CallTypes
  <2>2. PICK piece \in Pieces(now) : rows = call.rows \o piece
    BY <1>3 DEF RowsRead
  <2> HIDE DEF now
  <2>3. PICK k \in 1..(Len(now) + 1), n \in 0..Len(now) : piece = SubSeq(now, k, n)
    BY DEF Pieces
  <2>4. piece \in Seq(Nat)
    <3>1. \A j \in k..n : now[j] \in Nat
      BY <1>1
    <3>2. k \in Int /\ n \in Int
      OBVIOUS
    <3> QED
      BY <2>3, <3>1, <3>2, SubSeqProperties
  <2> QED
    BY <1>3, <2>1, <2>2, <2>4, ConcatProperties
<1> QED
  BY <1>2, <1>3

\* The cache is filled: the calls that have loaded and not answered are raced.
LEMMA LoadKeeps ==
  ASSUME FeederInv, NEW c \in Call, Load(c)
  PROVE  FeederInv'
<1> DEFINE w == calls[c].window
           i == w.interval
           Races(d) == calls[d].state = "loaded" /\ calls[d].window.interval = i
           loaded == [calls[c] EXCEPT !.state = "loaded"]
           from == IF calls[c].rows = None THEN file[i] ELSE None
<1>1. /\ calls \in [Call -> CallRecord] /\ calls[c] \in CallRecord
      /\ w \in Window /\ i \in Interval /\ calls[c].state = "loading"
      /\ file[i] # None /\ UNCHANGED file
  BY WindowTypes DEF FeederInv, CallOK, Load
<1>2. PICK rows \in RowsRead(calls[c]) : cache' = [cache EXCEPT ![i] = Loaded(rows, w)]
  BY DEF Load
<1>3. /\ source' = [source EXCEPT ![i] = from]
      /\ calls' = [d \in Call |-> IF d = c THEN loaded
                                  ELSE IF Races(d) THEN [calls[d] EXCEPT !.raced = @ \cup {w}]
                                  ELSE calls[d]]
  BY DEF Load
<1>4. rows \in Seq(Nat) /\ (calls[c].rows = None => rows = file[i])
  BY <1>1, RowsReadType
<1>5. from \in Seq(Nat) \cup {None} /\ (from # None => IsCandles(from, i) /\ rows = from)
  BY <1>1, <1>4 DEF FeederInv, FilesOK
<1>6. Loaded(rows, w) \in Seq(Nat) /\ Len(Loaded(rows, w)) <= CacheSize + 1
  BY <1>1, <1>4, LoadedType
<1> HIDE DEF from
<1>7. /\ cache'[i] = Loaded(rows, w) /\ source'[i] = from
      /\ \A j \in Interval : j # i => cache'[j] = cache[j] /\ source'[j] = source[j]
      /\ cache' \in [Interval -> Seq(Nat)] /\ source' \in [Interval -> Seq(Nat) \cup {None}]
  BY <1>1, <1>2, <1>3, <1>5, <1>6 DEF FeederInv, CacheOK
<1>8. CacheOK'
  <2>1. ASSUME NEW j \in Interval
        PROVE  /\ Len(cache'[j]) <= CacheSize + 1
               /\ source'[j] # None =>
                    /\ IsCandles(source'[j], j)
                    /\ \E v \in Window : v.interval = j /\ cache'[j] = Loaded(source'[j], v)
    <3>1. CASE j = i
      BY <1>1, <1>5, <1>6, <1>7, <3>1
    <3>2. CASE j # i
      BY <1>7, <3>2 DEF FeederInv, CacheOK
    <3> QED
      BY <3>1, <3>2
  <2> QED
    BY <1>7, <2>1 DEF CacheOK
<1>9. FilesOK'
  BY <1>1 DEF FeederInv, FilesOK
<1>10. loaded \in CallRecord /\ loaded.state = "loaded" /\ loaded.window = w
  BY <1>1 DEF CallRecord, CallStates
<1> HIDE DEF loaded
<1>11. ASSUME NEW d \in Call
       PROVE  calls'[d] \in CallRecord /\ CallOK(calls[d])'
  <2>1. CASE d = c
    <3>1. calls'[d] = loaded
      BY <1>3, <2>1
    <3>2. source'[i] # None => cache'[i] = Loaded(source'[i], w)
      BY <1>5, <1>7
    <3> QED
      BY <1>1, <1>10, <3>1, <3>2 DEF CallOK, LoadedOK
  <2>2. CASE d # c /\ Races(d)
    <3> DEFINE raced == [calls[d] EXCEPT !.raced = @ \cup {w}]
    <3>1. calls'[d] = raced
      BY <1>3, <2>2
    <3>2. /\ raced \in CallRecord /\ raced.state = "loaded" /\ raced.window = calls[d].window
          /\ w \in raced.raced
      BY <1>1, <2>2 DEF CallRecord
    <3> HIDE DEF raced
    <3>3. raced.window \in Window /\ raced.window.interval = i
      BY <2>2, <3>2 DEF FeederInv, CallOK
    <3>4. source'[i] # None => cache'[i] = Loaded(source'[i], w)
      BY <1>5, <1>7
    <3> QED
      BY <1>1, <3>1, <3>2, <3>3, <3>4 DEF CallOK, LoadedOK
  <2>3. CASE d # c /\ ~Races(d)
    <3>1. calls'[d] = calls[d] /\ CallOK(calls[d])
      BY <1>3, <2>3 DEF FeederInv
    <3>2. ASSUME calls[d].state = "loaded"
          PROVE  LoadedOK(calls[d])'
      <4>1. calls[d].window \in Window /\ calls[d].window.interval # i
        BY <2>3, <3>1, <3>2 DEF CallOK
      <4>2. calls[d].window.interval \in Interval
        BY <4>1, WindowTypes
      <4>3. LoadedOK(calls[d])
        BY <3>1, <3>2 DEF CallOK
      <4> QED
        BY <1>7, <3>1, <4>1, <4>2, <4>3 DEF LoadedOK
    <3> QED
      BY <1>1, <3>1, <3>2 DEF CallOK, AnswerOK
  <2> QED
    BY <2>1, <2>2, <2>3
<1>12. calls' \in [Call -> CallRecord]
  <2>1. DOMAIN calls' = Call /\ calls' = [d \in Call |-> calls'[d]]
    BY <1>3
  <2> QED
    BY <1>11, <2>1
<1> QED
  BY <1>8, <1>9, <1>11, <1>12 DEF FeederInv

\* Steps of others.
LEMMA FeederStays ==
  ASSUME FeederInv, UNCHANGED feederVars
  PROVE  FeederInv'
  BY DEF FeederInv, feederVars, memoryVars, FilesOK, CacheOK, CallOK, LoadedOK, AnswerOK

\* The cache is empty and no call made at the start.
LEMMA FeederInitEstablishes ==
  ASSUME FeederInit
  PROVE  FeederInv
<1>1. FilesOK
  BY FileAssumption DEF FeederInit, FilesOK, IsCandles
<1>2. CacheOK
  <2>1. \A i \in Interval : cache[i] = <<>> /\ source[i] = None
    BY DEF FeederInit
  <2>2. <<>> \in Seq(Nat) /\ Len(<<>>) = 0
    OBVIOUS
  <2> QED
    BY <2>1, <2>2, CacheSizeAssumption DEF FeederInit, CacheOK
<1>3. \A c \in Call : calls[c] = Idle
  BY DEF FeederInit
<1>4. CallOK(Idle)
  BY IdleIsCall DEF CallOK
<1> QED
  BY <1>1, <1>2, <1>3, <1>4, IdleIsCall DEF FeederInv, FeederInit

-----------------------------------------------------------------------------
(* Data files with the feeder.                                             *)

\* A day's file that is whole is one of a day that is published.
PublishedOK == \A i \in Interval, d \in Day : archives[i][d].whole => d \in DOMAIN Archive[i]

\* Nothing but candles gets into data files.
FilesIInv == DataIInv /\ PublishedOK /\ FeederInv

\* The file is written while calls load.
LEMMA FileIsWrittenKeeps ==
  ASSUME FeederInv, NEW i \in Interval, NEW candles, IsCandles(candles, i),
         file' = [file EXCEPT ![i] = candles], FileIsWritten(i)
  PROVE  FeederInv'
<1> DEFINE Becomes(c) == IF calls[c].state = "loading" /\ calls[c].window.interval = i
                         THEN Overtaken(calls[c]) ELSE {calls[c]}
<1>1. UNCHANGED <<cache, source>> /\ calls \in [Call -> CallRecord] /\ FilesOK
  BY DEF FileIsWritten, FeederInv
<1>2. FilesOK'
  <2>1. candles \in Seq(Nat)
    BY DEF IsCandles
  <2>2. \A j \in Interval : file'[j] = IF j = i THEN candles ELSE file[j]
    BY <1>1 DEF FilesOK
  <2>3. file' \in [Interval -> Seq(Nat) \cup {None}]
    BY <1>1, <2>1 DEF FilesOK
  <2> QED
    BY <1>1, <2>2, <2>3 DEF FilesOK
<1>3. CacheOK'
  BY <1>1 DEF FeederInv, CacheOK
<1>4. DOMAIN calls' = Call /\ calls' = [c \in Call |-> calls'[c]] /\ \A c \in Call : calls'[c] \in Becomes(c)
  BY DEF FileIsWritten
<1>5. ASSUME NEW c \in Call
      PROVE  calls'[c] \in CallRecord /\ CallOK(calls[c])'
  <2>1. CASE calls'[c] = calls[c]
    BY <1>1, <2>1 DEF FeederInv, CallOK, LoadedOK, AnswerOK
  <2>2. CASE calls'[c] # calls[c]
    <3> DEFINE call == calls[c]
               old == file[call.window.interval]
               rows == IF call.rows = None THEN <<>> ELSE call.rows
               before == IF old = None THEN {<<>>}
                         ELSE IF call.rows = None THEN Prefixes(old) ELSE Pieces(old)
    <3>1. call.state = "loading" /\ call.window \in Window /\ call \in CallRecord
          /\ calls'[c] \in Overtaken(call)
      BY <1>1, <1>4, <2>2 DEF FeederInv, CallOK
    <3>2. old \in Seq(Nat) \cup {None}
      BY <1>1, <3>1, WindowTypes DEF FilesOK
    <3>3. rows \in Seq(Nat)
      BY <3>1, CallTypes
    <3>4. PICK piece \in before : calls'[c] = [call EXCEPT !.rows = rows \o piece]
      BY <2>2, <3>1 DEF Overtaken
    <3> HIDE DEF call, old, rows
    <3>5. piece \in Seq(Nat)
      <4>1. CASE old = None
        BY <4>1
      <4>2. CASE old # None /\ call.rows = None
        <5>1. PICK n \in 0..Len(old) : piece = SubSeq(old, 1, n)
          BY <4>2 DEF Prefixes
        <5>2. \A j \in 1..n : old[j] \in Nat
          BY <3>2, <4>2
        <5>3. 1 \in Int /\ n \in Int
          OBVIOUS
        <5> QED
          BY <5>1, <5>2, <5>3, SubSeqProperties
      <4>3. CASE old # None /\ call.rows # None
        <5>1. PICK k \in 1..(Len(old) + 1), n \in 0..Len(old) : piece = SubSeq(old, k, n)
          BY <4>3 DEF Pieces
        <5>2. \A j \in k..n : old[j] \in Nat
          BY <3>2, <4>3
        <5>3. k \in Int /\ n \in Int
          OBVIOUS
        <5> QED
          BY <5>1, <5>2, <5>3, SubSeqProperties
      <4> QED
        BY <4>1, <4>2, <4>3
    <3>6. rows \o piece \in Seq(Nat)
      BY <3>3, <3>5, ConcatProperties
    <3>7. /\ calls'[c] \in CallRecord /\ calls'[c].state = "loading"
          /\ calls'[c].window = call.window
      BY <3>1, <3>4, <3>6 DEF CallRecord
    <3>8. CallOK(calls'[c])
      BY <3>1, <3>7 DEF CallOK
    <3> QED
      BY <3>7, <3>8, <3>1 DEF CallOK
  <2> QED
    BY <2>1, <2>2
<1>6. calls' \in [Call -> CallRecord]
  BY <1>4, <1>5
<1> QED
  BY <1>2, <1>3, <1>5, <1>6 DEF FeederInv

\* A call for a file that is not there fails.
LEMMA LoadThrowsKeeps ==
  ASSUME FeederInv, NEW c \in Call, LoadThrows(c)
  PROVE  FeederInv'
<1> DEFINE call == [Idle EXCEPT !.state = "failed"]
<1>1. call \in CallRecord /\ call.state = "failed"
  BY IdleIsCall DEF CallRecord, CallStates
<1>2. calls' = [calls EXCEPT ![c] = call] /\ UNCHANGED <<file, cache, source>>
  BY DEF LoadThrows
<1> HIDE DEF call
<1>3. CallOK(call)
  BY <1>1 DEF CallOK
<1> QED
  BY <1>1, <1>2, <1>3, OneCallChanges

\* A restart empties the cache and forgets the calls; the files stay.
LEMMA RestartKeepsFeeder ==
  ASSUME FeederInv, Restart
  PROVE  FeederInv'
<1>1. /\ cache' = [i \in Interval |-> <<>>] /\ source' = [i \in Interval |-> None]
      /\ calls' = [c \in Call |-> Idle] /\ UNCHANGED file
  BY DEF Restart
<1>2. FilesOK'
  BY <1>1 DEF FeederInv, FilesOK
<1>3. <<>> \in Seq(Nat) /\ Len(<<>>) = 0
  OBVIOUS
<1>4. CacheOK'
  BY <1>1, <1>3, CacheSizeAssumption DEF CacheOK
<1>5. \A c \in Call : CallOK(calls[c])'
  BY <1>1, IdleIsCall DEF CallOK
<1>6. calls' \in [Call -> CallRecord]
  BY <1>1, IdleIsCall
<1> QED
  BY <1>2, <1>4, <1>5, <1>6 DEF FeederInv

-----------------------------------------------------------------------------
\* What arrives is a day that is published.
LEMMA ArrivedIsPublished ==
  ASSUME NEW b, NEW archive \in DayArrives(b)
  PROVE  builds[b].day \in DOMAIN Archive[builds[b].stretch.interval]
  BY DEF DayArrives

\* A build that starts opens a day's file, which is not whole.
LEMMA BuildStartsPublished ==
  ASSUME FilesIInv, NEW b \in Build, NEW s \in Stretch, BuildStarts(b, s)
  PROVE  PublishedOK'
<1> DEFINE opened == [writer |-> b, whole |-> FALSE]
           days == [archives[s.interval] EXCEPT ![s.first] = opened]
<1>1. /\ archives \in [Interval -> [Day -> ArchiveFile]] /\ s.interval \in Interval
      /\ s.first \in Day
  BY StretchTypes DEF FilesIInv, DataIInv, BuildsOK, BuildStarts
<1>2. archives' = [archives EXCEPT ![s.interval] = days]
  BY <1>1 DEF BuildStarts, Opened
<1>3. \A d \in Day : days[d] = IF d = s.first THEN opened ELSE archives[s.interval][d]
  BY <1>1
<1>4. opened.whole = FALSE
  OBVIOUS
<1> HIDE DEF days, opened
<1>5. \A i \in Interval : archives'[i] = IF i = s.interval THEN days ELSE archives[i]
  BY <1>1, <1>2
<1> QED
  BY <1>3, <1>4, <1>5 DEF FilesIInv, PublishedOK

\* A day's file that arrives whole is one of a published day.
LEMMA DownloadEndsPublished ==
  ASSUME FilesIInv, NEW b \in Build, DownloadEnds(b)
  PROVE  PublishedOK'
<1> DEFINE s == builds[b].stretch
           i == s.interval
           day == builds[b].day
           opened == [writer |-> b, whole |-> FALSE]
<1>1. b \in Downloading /\ day < s.last
  BY DEF DownloadEnds
<1>2. /\ i \in Interval /\ archives \in [Interval -> [Day -> ArchiveFile]] /\ s.last \in Nat
      /\ DaysOf(s) \subseteq Day /\ DaysOf(s) = s.first..s.last /\ day \in s.first..s.last
      /\ s.first \in Nat
  BY <1>1, DownloadTypes DEF FilesIInv
<1>3. day \in Day /\ day + 1 \in Day
  BY SMTT(30), <1>1, <1>2
<1>4. PICK archive \in DayArrives(b) :
        archives' = [archives EXCEPT ![i] = [archives[i] EXCEPT ![day] = archive, ![day + 1] = opened]]
  BY <1>2 DEF DownloadEnds
<1> DEFINE days == [archives[i] EXCEPT ![day] = archive, ![day + 1] = opened]
<1>5. \A d \in Day : days[d] = IF d = day + 1 THEN opened ELSE IF d = day THEN archive
                               ELSE archives[i][d]
  BY <1>2, <1>3
<1>6. opened.whole = FALSE /\ day \in DOMAIN Archive[i]
  BY ArrivedIsPublished
<1> HIDE DEF days, opened
<1>7. \A j \in Interval : archives'[j] = IF j = i THEN days ELSE archives[j]
  BY <1>2, <1>4 DEF days, opened
<1> QED
  BY <1>5, <1>6, <1>7 DEF FilesIInv, PublishedOK

\* What is written of days that are whole is candles.
LEMMA WrittenIsCandles ==
  ASSUME NEW s \in Stretch, NEW days,
         \A d \in DaysOf(s) : days[d].whole => d \in DOMAIN Archive[s.interval]
  PROVE  s.first <= s.last => IsCandles(Written(s, days), s.interval)
<1> DEFINE broken == {d \in DaysOf(s) : ~days[d].whole}
<1>1. s.first \in Nat /\ s.last \in Nat /\ DaysOf(s) = s.first..s.last
  BY StretchTypes
<1>2. SUFFICES ASSUME s.first <= s.last
               PROVE  IsCandles(Written(s, days), s.interval)
  OBVIOUS
<1>3. CASE broken = {}
  <2>1. s.last \in (s.first - 1)..s.last
    BY <1>1, <1>2
  <2>2. s.first..s.last \subseteq DOMAIN Archive[s.interval]
    BY <1>1, <1>3
  <2>3. Written(s, days) = Content(s.interval, s.first, s.last)
    BY <1>3 DEF Written
  <2> QED
    BY <2>1, <2>2, <2>3, ArchiveAssumption
<1>4. CASE broken # {}
  <2> DEFINE first == CHOOSE d \in broken : \A e \in broken : d <= e
  <2>1. broken \subseteq Nat
    BY <1>1
  <2>2. \E d \in broken : \A e \in broken : d <= e
    <3> HIDE DEF broken
    <3> QED
      BY <1>4, <2>1, LeastExists
  <2>3. first \in broken /\ \A e \in broken : first <= e
    BY Zenon, <2>2
  <2>4. Written(s, days) = Content(s.interval, s.first, first - 1)
    BY <1>4 DEF Written
  <2> HIDE DEF first
  <2>5. first \in s.first..s.last
    BY <1>1, <2>3
  <2>6. first - 1 \in (s.first - 1)..s.last
    BY <1>1, <2>5
  <2>7. s.first..(first - 1) \subseteq DOMAIN Archive[s.interval]
    <3> SUFFICES ASSUME NEW d \in s.first..(first - 1)
                 PROVE  d \in DOMAIN Archive[s.interval]
      OBVIOUS
    <3>1. d \in DaysOf(s) /\ ~(first <= d)
      BY <1>1, <2>5
    <3> QED
      BY <2>3, <3>1
  <2> QED
    BY <2>4, <2>6, <2>7, ArchiveAssumption
<1> QED
  BY <1>3, <1>4

\* The file that is built is candles.
LEMMA FileIsBuiltKeepsFiles ==
  ASSUME FilesIInv, NEW b \in Build, FileIsBuilt(b)
  PROVE  PublishedOK' /\ FeederInv'
<1> DEFINE s == builds[b].stretch
           i == s.interval
<1>1. b \in Downloading /\ builds[b].day = s.last
  BY DEF FileIsBuilt
<1>2. /\ s \in Stretch /\ i \in Interval /\ archives \in [Interval -> [Day -> ArchiveFile]]
      /\ s.last \in Nat /\ s.first \in Nat /\ s.first <= s.last
      /\ DaysOf(s) \subseteq Day /\ s.last \in Day
  BY SMTT(30), <1>1, DownloadTypes DEF FilesIInv
<1> DEFINE days(archive) == [archives[i] EXCEPT ![s.last] = archive]
<1>3. PICK archive \in DayArrives(b) :
        /\ archives' = [archives EXCEPT ![i] = days(archive)]
        /\ file' = [file EXCEPT ![i] = Written(s, days(archive))]
  BY DEF FileIsBuilt
<1>4. s.last \in DOMAIN Archive[i]
  BY <1>1, ArrivedIsPublished
<1> DEFINE after == days(archive)
<1>5. \A d \in Day : after[d] = IF d = s.last THEN archive ELSE archives[i][d]
  BY <1>2
<1> HIDE DEF days
<1>6. \A d \in Day : after[d].whole => d \in DOMAIN Archive[i]
  BY <1>2, <1>4, <1>5 DEF FilesIInv, PublishedOK
<1>7. \A j \in Interval : archives'[j] = IF j = i THEN after ELSE archives[j]
  BY <1>2, <1>3
<1>8. PublishedOK'
  BY <1>6, <1>7 DEF FilesIInv, PublishedOK
<1>9. IsCandles(Written(s, after), i)
  BY <1>2, <1>6, WrittenIsCandles
<1>10. FileIsWritten(i)
  BY DEF FileIsBuilt
<1> QED
  BY <1>2, <1>3, <1>8, <1>9, <1>10, FileIsWrittenKeeps DEF FilesIInv

\* A file of no days is no candles.
LEMMA NothingToBuildKeepsFiles ==
  ASSUME FilesIInv, NEW b \in Build, NEW s \in Stretch, NothingToBuild(b, s)
  PROVE  PublishedOK' /\ FeederInv'
<1>1. s.interval \in Interval /\ UNCHANGED archives
  BY StretchTypes DEF NothingToBuild
<1>2. PublishedOK'
  BY <1>1 DEF FilesIInv, PublishedOK
<1>3. IsCandles(<<>>, s.interval)
  BY DEF IsCandles
<1> QED
  BY <1>1, <1>2, <1>3, FileIsWrittenKeeps DEF FilesIInv, NothingToBuild

\* Every step keeps it.
LEMMA DataNextKeepsFiles ==
  ASSUME FilesIInv, [DataNext]_dataVars
  PROVE  FilesIInv'
<1>0. DataIInv'
  BY DataNextKeepsIInv DEF FilesIInv
<1>a. UNCHANGED archives => PublishedOK'
  BY DEF FilesIInv, PublishedOK
<1>1. CASE UNCHANGED dataVars
  BY <1>0, <1>1, <1>a, FeederStays DEF FilesIInv, dataVars, buildVars
<1>2. CASE \E c \in Call : /\ (\E w \in WindowAsked : Ask(c, w)) \/ Load(c) \/ LoadThrows(c) \/ Answer(c)
                           /\ UNCHANGED buildVars
  <2>1. PICK c \in Call : /\ (\E w \in WindowAsked : Ask(c, w)) \/ Load(c) \/ LoadThrows(c) \/ Answer(c)
                          /\ UNCHANGED buildVars
    BY <1>2
  <2>2. FeederInv /\ PublishedOK'
    BY <1>a, <2>1 DEF FilesIInv, buildVars
  <2>3. ASSUME NEW w \in WindowAsked, Ask(c, w)
        PROVE  FeederInv'
    BY <2>2, <2>3, WindowAssumption, AskKeeps
  <2> QED
    BY <1>0, <2>1, <2>2, <2>3, LoadKeeps, LoadThrowsKeeps, AnswerKeeps DEF FilesIInv
<1>3. ASSUME NEW b \in Build, NEW s \in Stretch, BuildStarts(b, s)
      PROVE  FilesIInv'
  BY <1>0, <1>3, BuildStartsPublished, FeederStays DEF BuildStarts, FilesIInv
<1>4. ASSUME NEW b \in Build, NEW s \in Stretch, NothingToBuild(b, s)
      PROVE  FilesIInv'
  BY <1>0, <1>4, NothingToBuildKeepsFiles DEF FilesIInv
<1>5. ASSUME NEW b \in Build, DownloadEnds(b)
      PROVE  FilesIInv'
  BY <1>0, <1>5, DownloadEndsPublished, FeederStays DEF DownloadEnds, FilesIInv
<1>6. ASSUME NEW b \in Build, FileIsBuilt(b)
      PROVE  FilesIInv'
  BY <1>0, <1>6, FileIsBuiltKeepsFiles DEF FilesIInv
<1>7. ASSUME NEW b \in Build, DownloadFails(b)
      PROVE  FilesIInv'
  BY <1>0, <1>a, <1>7, FeederStays DEF DownloadFails, FilesIInv
<1>8. CASE Restart
  <2>1. PublishedOK'
    BY <1>8, RestartLeavesArchives DEF FilesIInv, PublishedOK
  <2> QED
    BY <1>0, <1>8, <2>1, RestartKeepsFeeder DEF FilesIInv
<1> QED
  BY <1>1, <1>2, <1>3, <1>4, <1>5, <1>6, <1>7, <1>8 DEF DataNext

\* Nothing is downloaded at the start.
LEMMA DataInitEstablishesFiles ==
  ASSUME DataInit
  PROVE  FilesIInv
<1>1. DataIInv /\ FeederInv
  BY DataInitEstablishesIInv, FeederInitEstablishes DEF DataInit
<1>2. PublishedOK
  BY DEF DataInit, PublishedOK
<1> QED
  BY <1>1, <1>2 DEF FilesIInv

\* Nothing but candles gets into data files, whatever builds collide.
LEMMA FilesIInvHolds == DataSpec => []FilesIInv
  BY DataInitEstablishesFiles, DataNextKeepsFiles, PTL DEF DataSpec

\* What the feeder's invariant says of its answers.
LEMMA AnswersFollow ==
  ASSUME FeederInv
  PROVE  AnswersAreExact /\ AnswersAreRecent /\ FeederTypeOK
<1>1. AnswersAreExact
  BY DEF FeederInv, CallOK, AnswerOK, AnswersAreExact, Answered, Expected
<1>2. AnswersAreRecent
  <2> SUFFICES ASSUME NEW c \in Call, Answered(c),
                      \A w \in calls[c].raced \cup {calls[c].window} :
                        Fits(w) /\ w.clock = calls[c].window.clock /\ w.limit > 0
               PROVE  IsRecent(calls[c].answer, Expected(c), calls[c].window)
    BY DEF AnswersAreRecent, IsRecent
  <2>1. AnswerOK(calls[c]) /\ calls[c].source # None
    BY DEF FeederInv, CallOK, Answered
  <2> QED
    BY <2>1 DEF AnswerOK, Expected
<1>3. FeederTypeOK
  <2>1. ASSUME NEW c \in Call
        PROVE  /\ calls[c].state \in CallStates
               /\ calls[c].window \in Window \cup {None}
               /\ calls[c].raced \subseteq Window
    BY CallTypes DEF FeederInv
  <2> QED
    BY <2>1 DEF FeederTypeOK, FeederInv, CacheOK, CallStates
<1> QED
  BY <1>1, <1>2, <1>3

\* The cache does not show, for any files, builds, restarts and any number of calls:
\* an answer is what the file said of the window, unless the call has raced with
\* another or the file was written meanwhile. (getBinanceKLines)
THEOREM CacheIsTransparent == DataSpec => []AnswersAreExact
  BY FilesIInvHolds, AnswersFollow, PTL DEF FilesIInv

\* A race among calls of one clock costs the oldest candles at most, never the newest.
THEOREM RacesKeepNewest == DataSpec => []AnswersAreRecent
  BY FilesIInvHolds, AnswersFollow, PTL DEF FilesIInv

\* Every variable keeps its type, and the cache its limit.
THEOREM DataTypeCorrect == DataSpec => []DataTypeOK
<1>1. FilesIInv => DataTypeOK
  <2> SUFFICES ASSUME FilesIInv
               PROVE  DataTypeOK
    OBVIOUS
  <2>1. FeederTypeOK
    BY AnswersFollow DEF FilesIInv
  <2>2. \A i \in Interval : \A d \in Day : archives[i][d].writer \in Build \cup {None}
    BY DEF FilesIInv, DataIInv, BuildsOK, ArchiveFile
  <2>3. \A b \in Build : builds[b].state \in {"idle", "downloading", "built", "failed"}
    BY DEF FilesIInv, DataIInv, BuildsOK, BuildRecord, BuildStates
  <2> QED
    BY <2>1, <2>2, <2>3 DEF DataTypeOK, FilesIInv, DataIInv, BuildsOK
<1> QED
  BY <1>1, FilesIInvHolds, PTL

-----------------------------------------------------------------------------
(* Pages.                                                                  *)

\* A page is asked for once its backtest is over, for a record of the first broker each.
PageFollows(r) ==
  LET run == runs[r]
  IN  /\ run.state \in {"init", "next", "clock", "done"} => run.request \in Request
      /\ calls[r].state # "idle" => r \notin Active
      /\ (calls[r].state # "idle" /\ run.state = "done") =>
           /\ run.brokers # <<>>
           /\ calls[r].window = PageWindow(run.request, Len(run.brokers[1].records))

\* The inductive invariant of backtests with their pages.
PageIInv == RecordsIInv /\ FeederInv /\ \A r \in Run : PageFollows(r)

\* A page asks for a window.
LEMMA PageWindowType ==
  ASSUME NEW req \in Request, NEW limit \in Nat
  PROVE  PageWindow(req, limit) \in Window
  BY PageAssumption DEF PageWindow, Window

\* The calls of other runs.
LEMMA OtherCalls ==
  ASSUME FeederInv, NEW r \in Run, NEW w, Ask(r, w) \/ Load(r) \/ Answer(r)
  PROVE  /\ \A q \in Run \ {r} : /\ calls'[q].state = calls[q].state
                                 /\ calls'[q].window = calls[q].window
         /\ (Load(r) \/ Answer(r)) => calls[r].state # "idle" /\ calls'[r].window = calls[r].window
         /\ Ask(r, w) => calls[r].state = "idle" /\ calls'[r].window = w
<1>0. calls \in [Run -> CallRecord] /\ calls[r] \in CallRecord /\ r \in Call
  BY OneCallPerRun DEF FeederInv
<1>1. CASE Ask(r, w)
  <2>1. PICK call : calls' = [calls EXCEPT ![r] = call] /\ call.window = w
    <3>1. Idle \in [state : {"idle"}, window : {None}, answer : {<<>>}, rows : {None},
                    raced : {{}}, source : {None}]
      BY DEF Idle
    <3>2. [Idle EXCEPT !.window = w].window = w /\ [[Idle EXCEPT !.window = w] EXCEPT !.state = "loading"].window = w
      BY <3>1
    <3>3. Answering([Idle EXCEPT !.window = w]).window = w
      BY <3>1 DEF Answering
    <3> QED
      BY <1>1, <3>2, <3>3 DEF Ask
  <2>2. calls[r].state = "idle"
    BY <1>1 DEF Ask
  <2>3. ~Load(r) /\ ~Answer(r)
    BY <2>2 DEF Load, Answer
  <2> QED
    BY <1>0, <2>1, <2>2, <2>3
<1>2. CASE Load(r)
  <2> DEFINE w0 == calls[r].window
             Races(d) == calls[d].state = "loaded" /\ calls[d].window.interval = w0.interval
  <2>1. calls' = [d \in Run |-> IF d = r THEN [calls[r] EXCEPT !.state = "loaded"]
                                ELSE IF Races(d) THEN [calls[d] EXCEPT !.raced = @ \cup {w0}]
                                ELSE calls[d]]
    BY <1>2, OneCallPerRun DEF Load
  <2>2. calls[r].state = "loading"
    BY <1>2 DEF Load
  <2>3. \A q \in Run \ {r} : calls'[q].state = calls[q].state /\ calls'[q].window = calls[q].window
    <3> SUFFICES ASSUME NEW q \in Run \ {r}
                 PROVE  calls'[q].state = calls[q].state /\ calls'[q].window = calls[q].window
      OBVIOUS
    <3>1. calls[q] \in CallRecord
      BY <1>0
    <3>2. calls'[q] = [calls[q] EXCEPT !.raced = @ \cup {w0}] \/ calls'[q] = calls[q]
      BY <2>1
    <3> QED
      BY <3>1, <3>2 DEF CallRecord
  <2>4. calls'[r].window = calls[r].window
    BY <1>0, <2>1 DEF CallRecord
  <2> QED
    BY <2>2, <2>3, <2>4 DEF Ask
<1>3. CASE Answer(r)
  <2>1. calls' = [calls EXCEPT ![r] = Answering(calls[r])] /\ calls[r].state = "loaded"
    BY <1>0, <1>3 DEF Answer
  <2>2. Answering(calls[r]).window = calls[r].window
    BY <1>0 DEF Answering, CallRecord
  <2> QED
    BY <1>0, <2>1, <2>2 DEF Ask
<1> QED
  BY <1>1, <1>2, <1>3

\* Of a run that changes while its page has not been asked for, and of one that fails
\* with it.
LEMMA RunsKeepPages ==
  ASSUME PageIInv, RecordsIInv', UNCHANGED feederVars, NEW r \in Run,
         \A q \in Run \ {r} : runs'[q] = runs[q], PageFollows(r)'
  PROVE  PageIInv'
<1>1. FeederInv'
  BY FeederStays DEF PageIInv
<1>2. ASSUME NEW q \in Run \ {r}
      PROVE  PageFollows(q)'
  <2>1. runs'[q] = runs[q] /\ calls'[q] = calls[q] /\ (q \in Active' <=> q \in Active)
    BY <1>2 DEF feederVars, memoryVars, Active
  <2>2. PageFollows(q)
    BY DEF PageIInv
  <2> QED
    BY <2>1, <2>2 DEF PageFollows
<1> QED
  BY <1>1, <1>2 DEF PageIInv

\* A run begins that has not asked for a page.
LEMMA BeginKeepsPages ==
  ASSUME PageIInv, RecordsIInv', NEW r \in Run, NEW req \in Request, BacktestStrategy(r, req)
  PROVE  PageIInv'
<1>1. runs \in [Run -> RunRecord] /\ calls[r].state = "idle"
  BY DEF PageIInv, RecordsIInv, IInv, RunsOK, BacktestStrategy
<1> DEFINE run == [NoRun EXCEPT !.state = "init", !.request = req]
<1>2. run.request = req
  BY DEF NoRun
<1>3. runs' = [runs EXCEPT ![r] = run] /\ UNCHANGED feederVars
  BY DEF BacktestStrategy, Begin
<1> HIDE DEF run
<1>4. runs'[r] = run /\ \A q \in Run \ {r} : runs'[q] = runs[q]
  BY <1>1, <1>3
<1>5. calls'[r].state = "idle"
  BY <1>1, <1>3 DEF feederVars, memoryVars
<1>6. PageFollows(r)'
  BY <1>2, <1>4, <1>5 DEF PageFollows
<1> QED
  BY <1>3, <1>4, <1>6, RunsKeepPages

\* A run fails: its page is of no account.
LEMMA FailureKeepsPages ==
  ASSUME PageIInv, RecordsIInv', NEW r \in Run, runs' = [runs EXCEPT ![r].state = "failed"],
         UNCHANGED feederVars
  PROVE  PageIInv'
<1>1. runs \in [Run -> RunRecord] /\ runs[r] \in RunRecord
  BY DEF PageIInv, RecordsIInv, IInv, RunsOK
<1>2. runs'[r].state = "failed" /\ \A q \in Run \ {r} : runs'[q] = runs[q]
  BY <1>1 DEF RunRecord
<1>3. PageFollows(r)'
  BY <1>2 DEF PageFollows, Active
<1> QED
  BY <1>2, <1>3, RunsKeepPages

\* A run goes on that has not asked for its page.
LEMMA ServiceStepKeepsPages ==
  ASSUME PageIInv, RecordsIInv', NEW r \in Run, CallReturns(r), UNCHANGED feederVars
  PROVE  PageIInv'
<1>1. /\ runs \in [Run -> RunRecord] /\ runs[r] \in RunRecord
      /\ runs[r].brokers \in Seq(Broker) /\ r \in Active
  BY Zenon DEF PageIInv, RecordsIInv, IInv, RunsOK, RunRecord, CallReturns, InitReturns, NextReturns,
         NextClockReturns, Active
<1>2. /\ \A q \in Run \ {r} : runs'[q] = runs[q]
      /\ runs'[r].request = runs[r].request
  <2>1. CASE InitReturns(r)
    BY <1>1, <2>1 DEF InitReturns, RunRecord
  <2>2. CASE NextReturns(r)
    BY <1>1, <2>2 DEF NextReturns, RunRecord
  <2>3. ASSUME NEW profit \in Profit, NextClockReturns(r, profit)
        PROVE  /\ \A q \in Run \ {r} : runs'[q] = runs[q]
               /\ runs'[r].request = runs[r].request
    <3> DEFINE b == runs[r].ticking + 1
               broker == runs[r].brokers[b]
               moved == Flushed(Earned(broker, profit), broker.clock + runs[r].request.interval)
               state == IF b < Len(runs[r].brokers) THEN "clock" ELSE LoopState(r, currentClock)
    <3>1. runs' = [runs EXCEPT ![r].brokers[b] = moved, ![r].ticking = b, ![r].state = state]
      BY <2>3 DEF NextClockReturns
    <3> HIDE DEF moved, state
    <3> QED
      BY <1>1, <3>1 DEF RunRecord
  <2> QED
    BY <2>1, <2>2, <2>3 DEF CallReturns
<1>3. calls[r].state = "idle" /\ runs[r].request \in Request
  BY <1>1 DEF PageIInv, PageFollows, Active
<1>4. calls'[r].state = "idle"
  BY <1>3 DEF feederVars, memoryVars
<1>5. PageFollows(r)'
  BY <1>2, <1>3, <1>4 DEF PageFollows
<1> QED
  BY SMTT(30), <1>2, <1>5, RunsKeepPages

\* The page of a run that is over, or of none, is asked for.
LEMMA AskKeepsPages ==
  ASSUME PageIInv, RecordsIInv', NEW r \in Run, NEW w \in Window, Ask(r, w), UNCHANGED serviceVars,
         r \notin Active,
         runs[r].state = "done" => /\ runs[r].brokers # <<>>
                                   /\ w = PageWindow(runs[r].request, Len(runs[r].brokers[1].records))
  PROVE  PageIInv'
<1>1. FeederInv'
  BY AskKeeps, OneCallPerRun DEF PageIInv
<1>2. /\ \A q \in Run \ {r} : calls'[q].state = calls[q].state /\ calls'[q].window = calls[q].window
      /\ calls'[r].window = w
  BY OtherCalls DEF PageIInv
<1>3. runs' = runs /\ Active' = Active
  BY DEF serviceVars, Active
<1>4. ASSUME NEW q \in Run
      PROVE  PageFollows(q)'
  <2>1. PageFollows(q)
    BY DEF PageIInv
  <2> QED
    BY <1>2, <1>3, <2>1 DEF PageFollows
<1> QED
  BY <1>1, <1>4 DEF PageIInv

\* The feeder leaves the windows of calls alone.
LEMMA FeederStepKeepsPages ==
  ASSUME PageIInv, RecordsIInv', NEW r \in Run, FeederStep(r)
  PROVE  PageIInv'
<1>1. FeederInv'
  BY LoadKeeps, AnswerKeeps, OneCallPerRun DEF PageIInv, FeederStep
<1>2. /\ \A q \in Run \ {r} : calls'[q].state = calls[q].state /\ calls'[q].window = calls[q].window
      /\ calls[r].state # "idle" /\ calls'[r].window = calls[r].window
  BY OtherCalls DEF PageIInv, FeederStep
<1>3. runs' = runs /\ Active' = Active
  BY DEF FeederStep, serviceVars, Active
<1>4. ASSUME NEW q \in Run
      PROVE  PageFollows(q)'
  <2>1. PageFollows(q)
    BY DEF PageIInv
  <2> QED
    BY <1>2, <1>3, <2>1 DEF PageFollows
<1> QED
  BY <1>1, <1>4 DEF PageIInv

\* Every step keeps it.
LEMMA NextKeepsPages ==
  ASSUME PageIInv, [Next]_vars
  PROVE  PageIInv'
<1>0. RecordsIInv'
  BY NextKeepsRecords DEF PageIInv
<1>1. CASE UNCHANGED vars
  <2>1. FeederInv'
    BY <1>1, FeederStays DEF vars, PageIInv
  <2> QED
    BY <1>0, <1>1, <2>1 DEF PageIInv, PageFollows, vars, serviceVars, feederVars, memoryVars, Active
<1>2. CASE Next
  <2> PICK r \in Run :
        \/ \E req \in Request : BacktestStrategy(r, req) \/ BacktestFails(r, req)
                                \/ UnknownStrategy(r, req)
        \/ ServiceStep(r) \/ ShowPage(r) \/ PageFails(r) \/ FeederStep(r)
    BY <1>2 DEF Next
  <2>1. CASE \E req \in Request : BacktestStrategy(r, req)
    BY <1>0, <2>1, BeginKeepsPages
  <2>2. CASE \E req \in Request : BacktestFails(r, req)
    BY <1>0, <2>2, FailureKeepsPages DEF BacktestFails, BeginThrows
  <2>3. ASSUME NEW req \in Request, UnknownStrategy(r, req)
        PROVE  PageIInv'
    <3>1. PageWindow(req, 0) \in Window /\ r \notin Active /\ runs[r].state # "done"
      BY <2>3, PageWindowType DEF UnknownStrategy, Active
    <3> QED
      BY <1>0, <2>3, <3>1, AskKeepsPages DEF UnknownStrategy
  <2>4. CASE ServiceStep(r)
    BY <1>0, <2>4, ServiceStepKeepsPages, FailureKeepsPages DEF ServiceStep, CallThrows
  <2>5. CASE ShowPage(r)
    <3> DEFINE n == Len(runs[r].brokers[1].records)
    <3>1. runs[r].request \in Request /\ r \notin Active /\ runs[r].brokers \in Seq(Broker)
          /\ runs[r].brokers # <<>>
      BY <2>5, RunTypes DEF ShowPage, PageIInv, PageFollows, Active, RecordsIInv, IInv
    <3>2. runs[r].brokers[1] \in Broker
      BY <3>1
    <3>3. n \in Nat
      BY <3>2 DEF Broker
    <3>4. PageWindow(runs[r].request, n) \in Window
      BY <3>1, <3>3, PageWindowType
    <3> QED
      BY <1>0, <2>5, <3>1, <3>4, AskKeepsPages DEF ShowPage
  <2>6. CASE PageFails(r)
    BY <1>0, <2>6, FailureKeepsPages DEF PageFails
  <2>7. CASE FeederStep(r)
    BY <1>0, <2>7, FeederStepKeepsPages
  <2> QED
    BY <2>1, <2>2, <2>3, <2>4, <2>5, <2>6, <2>7
<1> QED
  BY <1>1, <1>2

\* No page has been asked for at the start.
LEMMA InitEstablishesPages ==
  ASSUME Init
  PROVE  PageIInv
<1>1. RecordsIInv /\ FeederInv
  BY InitEstablishesRecords, FeederInitEstablishes DEF Init
<1>2. NoRun.state = "none"
  BY DEF NoRun
<1>3. \A r \in Run : runs[r].state = "none" /\ calls[r].state = "idle"
  BY <1>2, IdleIsCall, OneCallPerRun DEF Init, ServiceInit, FeederInit
<1> QED
  BY <1>1, <1>3 DEF PageIInv, PageFollows

\* It holds however requests overlap.
LEMMA PageIInvHolds == Spec => []PageIInv
  BY InitEstablishesPages, NextKeepsPages, PTL DEF Spec

\* Every variable keeps its type, and the cache its limit, however requests overlap.
THEOREM TypeCorrect == Spec => []TypeOK
<1>1. ASSUME PageIInv
      PROVE  TypeOK
  <2>1. FeederTypeOK
    BY <1>1, AnswersFollow DEF PageIInv
  <2>2. /\ currentClock \in Nat /\ clockInterval \in Nat \ {0}
        /\ overlapped \subseteq Run /\ RunsOK
    BY <1>1 DEF PageIInv, RecordsIInv, IInv, RunsOK
  <2>3. ASSUME NEW r \in Run
        PROVE  /\ runs[r].state \in {"none", "init", "next", "clock", "done", "failed"}
               /\ runs[r].request \in Request \cup {NoRun.request}
               /\ runs[r].ticking \in 0..Len(runs[r].brokers)
               /\ \A b \in DOMAIN runs[r].brokers : runs[r].brokers[b].balance \in Int
    <3>1. RunFollows(runs[r])
      BY <1>1 DEF PageIInv, RecordsIInv
    <3>2. runs[r].state \in States /\ runs[r].brokers \in Seq(Broker)
      BY <2>2 DEF RunsOK, RunRecord
    <3>3. \A b \in DOMAIN runs[r].brokers : runs[r].brokers[b] \in Broker
      BY <3>2
    <3>4. \A b \in DOMAIN runs[r].brokers : runs[r].brokers[b].balance \in Int
      BY <3>3 DEF Broker
    <3> QED
      BY <3>1, <3>2, <3>4 DEF RunFollows, States
  <2> QED
    BY <2>1, <2>2, <2>3 DEF TypeOK, ServiceTypeOK
<1> QED
  BY <1>1, PageIInvHolds, PTL

\* The close times of candles after t and up to u.
Closes(t, u, d) == {x \in (t + 1)..u : (x + 1) % d = 0}

\* Of n intervals, n candles close: the first is a time t0.
LEMMA FirstCloses ==
  ASSUME NEW d \in Nat \ {0}, NEW t \in Int
  PROVE  \E x \in Int : t < x /\ x <= t + d /\ (x + 1) % d = 0
<1>1. PICK q \in Int, r \in 0..(d - 1) : t + 1 = d * q + r /\ q = (t + 1) \div d
  <2>1. (t + 1) % d \in 0..(d - 1) /\ (t + 1) \div d \in Int
    OBVIOUS
  <2>2. t + 1 = d * ((t + 1) \div d) + ((t + 1) % d)
    OBVIOUS
  <2> QED
    BY <2>1, <2>2
<1> DEFINE x == t + d - r
<1>2. x \in Int /\ t < x /\ x <= t + d
  BY <1>1
<1>3. x + 1 = d * (q + 1)
  <2>1. d * (q + 1) = d * q + d
    BY <1>1
  <2>2. d * q \in Int
    BY <1>1
  <2> QED
    BY <1>1, <2>1, <2>2
<1>4. (x + 1) % d = 0
  <2>1. q + 1 \in Int
    BY <1>1
  <2>2. (d * (q + 1)) % d = 0
    BY <2>1
  <2> QED
    BY <1>3, <2>2
<1> QED
  BY <1>2, <1>4

\* Candles that hold every time of n intervals are n of them at least.
LEMMA CompleteIsMany ==
  ASSUME NEW d \in Nat \ {0}, NEW s, IsCandles(s, d), NEW u \in Int, NEW n \in Nat,
         NEW k, NEW m, Split(s, u - d * n, k), Split(s, u, m),
         Closes(u - d * n, u, d) \subseteq ToSet(s)
  PROVE  m - k >= n
<1> DEFINE t == u - d * n
<1>0. d * n \in Nat
  BY Grows
<1>1. t \in Int /\ t + d * n = u
  BY <1>0
<1>2. PICK x \in Int : t < x /\ x <= t + d /\ (x + 1) % d = 0
  BY <1>1, FirstCloses
<1>3. /\ s \in Seq(Nat) /\ Len(s) \in Nat /\ DOMAIN s = 1..Len(s)
      /\ \A i, j \in 1..Len(s) : s[j] \in Nat /\ (i < j <=> s[i] < s[j])
  BY CandlesAscend
<1>4. k \in Nat /\ m \in Nat /\ k <= m /\ m <= Len(s)
  BY <1>0, <1>1, SplitsInOrder
<1> HIDE DEF t
\* The q-th of them is not before the q-th place after k.
<1> DEFINE Placed(q) == \E j \in 1..Len(s) : s[j] = x + d * q /\ j > k + q
           T == {q \in Nat : q < n => Placed(q)}
<1>5. ASSUME NEW q \in Nat, q < n
      PROVE  \E j \in 1..Len(s) : s[j] = x + d * q /\ s[j] <= u
  <2>1. d * q \in Nat /\ d * (q + 1) <= d * n /\ d * (q + 1) = d * q + d
    BY <1>5
  <2>2. PICK e \in Nat : e = d * q
    BY <2>1
  <2>3. t < x + e /\ x + e <= u
    BY <1>0, <1>1, <1>2, <2>1, <2>2
  <2>4. ((x + e) + 1) % d = 0
    <3>1. (x + 1) = d * ((x + 1) \div d)
      BY <1>2
    <3>2. PICK c \in Int : x + 1 = d * c
      BY <1>2, <3>1
    <3>3. (x + e) + 1 = d * (c + q)
      <4>1. d * (c + q) = d * c + d * q
        OBVIOUS
      <4> QED
        BY <1>2, <2>2, <3>2, <4>1
    <3>4. (d * (c + q)) % d = 0
      OBVIOUS
    <3> QED
      BY <3>3, <3>4
  <2>5. x + e \in Closes(t, u, d)
    BY <1>1, <1>2, <2>3, <2>4 DEF Closes
  <2>6. x + e \in ToSet(s)
    BY <2>5 DEF t
  <2>7. PICK j \in DOMAIN s : s[j] = x + e
    BY <2>6 DEF ToSet
  <2> QED
    BY <1>3, <2>2, <2>3, <2>7
<1>6. 0 \in T
  <2> SUFFICES ASSUME 0 < n
               PROVE  Placed(0)
    OBVIOUS
  <2>1. PICK j \in 1..Len(s) : s[j] = x + d * 0 /\ s[j] <= u
    BY <1>5
  <2>2. s[j] = x
    BY <1>2, <2>1
  <2>3. ~(j <= k)
    BY <1>1, <1>2, <2>2 DEF Split, t
  <2> QED
    BY <1>4, <2>1, <2>3
<1>7. ASSUME NEW q \in T
      PROVE  q + 1 \in T
  <2> SUFFICES ASSUME q + 1 < n
               PROVE  Placed(q + 1)
    OBVIOUS
  <2>1. q \in Nat /\ q < n /\ Placed(q)
    OBVIOUS
  <2>2. PICK i \in 1..Len(s) : s[i] = x + d * q /\ i > k + q
    BY <2>1
  <2>3. PICK j \in 1..Len(s) : s[j] = x + d * (q + 1) /\ s[j] <= u
    <3>1. PICK p \in Nat : p = q + 1 /\ p < n
      BY <2>1
    <3>2. \E j \in 1..Len(s) : s[j] = x + d * p /\ s[j] <= u
      BY <1>5, <3>1
    <3> QED
      BY <3>1, <3>2
  <2>4. s[i] < s[j]
    <3>1. d * (q + 1) = d * q + d /\ d * q \in Nat
      BY <2>1
    <3> QED
      BY <1>2, <2>2, <2>3, <3>1
  <2>5. i < j
    BY <1>3, <2>4
  <2> QED
    BY <1>4, <2>1, <2>2, <2>3, <2>5
<1>8. T = Nat
  <2>1. T \subseteq Nat /\ \A q \in T : q + 1 \in T
    BY <1>7
  <2> HIDE DEF T
  <2> QED
    BY <1>6, <2>1, NatSetInduction
<1>9. CASE n = 0
  BY <1>4, <1>9
<1>10. CASE n # 0
  <2>1. PICK q \in Nat : n = q + 1
    BY <1>10
  <2>2. q \in T /\ q < n
    BY <1>8, <2>1
  <2>3. PICK j \in 1..Len(s) : s[j] = x + d * q /\ j > k + q
    BY <2>2
  <2>4. s[j] <= u
    <3>1. PICK i \in 1..Len(s) : s[i] = x + d * q /\ s[i] <= u
      BY <1>5, <2>2
    <3> QED
      BY <2>3, <3>1
  <2>5. j <= m
    BY <2>4 DEF Split
  <2> QED
    BY <1>4, <2>1, <2>3, <2>5
<1> QED
  BY <1>9, <1>10

\* What a window of n intervals shows of candles that have every time of it.
LEMMA CompleteIsShown ==
  ASSUME NEW w \in Window, NEW s, IsCandles(s, w.interval),
         Closes(Start(w), w.clock, w.interval) \subseteq ToSet(s)
  PROVE  LET answer == Observed(s, w)
         IN  /\ answer \in Seq(Nat) /\ Len(answer) = w.limit
             /\ IsCandles(answer, w.interval)
             /\ \A k \in 1..w.limit : Start(w) < answer[k] /\ answer[k] <= w.clock
<1> DEFINE d == w.interval
           n == w.limit
           answer == Observed(s, w)
<1>1. /\ w.clock \in Nat /\ d \in Nat \ {0} /\ n \in Nat
      /\ Start(w) \in Int /\ Start(w) = w.clock - d * n
  BY WindowTypes
<1>2. PICK k : Split(s, w.clock - d * n, k)
  BY <1>1, SplitExists
<1>3. PICK m : Split(s, w.clock, m)
  BY <1>1, SplitExists
<1>4. m - k <= n /\ m - k >= n
  <2>1. m - k <= n
    BY <1>1, <1>2, <1>3, SpacingBounds
  <2>2. m - k >= n
    BY <1>1, <1>2, <1>3, CompleteIsMany
  <2> QED
    BY <2>1, <2>2
<1>5. IsPiece(answer, s, k, m)
  BY <1>1, <1>2, <1>3, ObservedOfAll
<1> HIDE DEF answer
<1>6. /\ k \in Nat /\ m \in Nat /\ k <= m /\ m <= Len(s)
      /\ answer \in Seq(Nat) /\ Len(answer) = m - k
      /\ \A i \in 1..(m - k) : answer[i] = s[k + i]
  BY <1>5 DEF IsPiece
<1>7. m - k = n
  <2>1. n \in Nat
    BY <1>1
  <2> HIDE DEF n
  <2> QED
    BY <1>4, <1>6, <2>1
<1>8. IsCandles(answer, d)
  BY <1>1, <1>5, PieceIsCandles
<1>9. ASSUME NEW i \in 1..n
      PROVE  Start(w) < answer[i] /\ answer[i] <= w.clock
  <2>0. Len(s) \in Nat /\ \A j \in 1..Len(s) : s[j] \in Nat
    BY <1>1, CandlesAscend
  <2>1. PICK j \in 1..Len(s) : j = k + i /\ j <= m /\ ~(j <= k)
    BY <1>6, <1>7, <2>0
  <2>2. s[j] <= w.clock
    BY <1>3, <2>1 DEF Split
  <2>3. ~(s[j] <= Start(w))
    BY <1>1, <1>2, <2>1 DEF Split
  <2> QED
    BY <1>1, <1>6, <1>7, <2>0, <2>1, <2>2, <2>3
<1> QED
  BY <1>6, <1>7, <1>8, <1>9 DEF answer

\* Candles of as many intervals are one in each.
LEMMA OneInEach ==
  ASSUME NEW d \in Nat \ {0}, NEW n \in Nat, NEW c, IsCandles(c, d), Len(c) = n,
         NEW start \in Int, NEW end \in Int, end = start + d * n,
         \A k \in 1..n : start < c[k] /\ c[k] <= end,
         NEW k \in 1..n
  PROVE  start + (k - 1) * d < c[k] /\ c[k] <= start + (k - 1) * d + d
<1>1. DOMAIN c = 1..n /\ \A j \in 1..n : c[j] \in Nat
  BY CandlesAscend
<1>2. PICK p \in Nat : p = k - 1
  OBVIOUS
<1>3. PICK q \in Nat : q = n - k
  OBVIOUS
<1>4. PICK x \in Nat : x = d * p
  BY Grows
<1>5. PICK y \in Nat : y = d * q
  BY Grows
<1>6. 1 \in 1..n /\ n \in 1..n
  OBVIOUS
<1>7. c[k] - c[1] >= x
  <2>1. CASE k = 1
    BY <1>1, <1>2, <1>4, <2>1
  <2>2. CASE k # 1
    <3>1. c[k] - c[1] >= d * (k - 1)
      <4>1. 1 \in DOMAIN c /\ k \in DOMAIN c /\ 1 < k
        BY <1>1, <1>6, <2>2
      <4> QED
        BY Zenon, <4>1 DEF IsCandles
    <3> QED
      BY <1>2, <1>4, <3>1
  <2> QED
    BY <2>1, <2>2
<1>8. c[n] - c[k] >= y
  <2>1. CASE k = n
    BY <1>1, <1>3, <1>5, <2>1
  <2>2. CASE k # n
    <3>1. c[n] - c[k] >= d * (n - k)
      <4>1. n \in DOMAIN c /\ k \in DOMAIN c /\ k < n
        BY <1>1, <1>6, <2>2
      <4> QED
        BY Zenon, <4>1 DEF IsCandles
    <3> QED
      BY <1>3, <1>5, <3>1
  <2> QED
    BY <2>1, <2>2
<1>9. d * n = x + d + y
  <2>1. n = p + 1 + q
    BY <1>2, <1>3
  <2>2. d * (p + 1 + q) = d * p + d + d * q
    OBVIOUS
  <2> QED
    BY <1>4, <1>5, <2>1, <2>2
<1>10. (k - 1) * d = x
  <2>1. p * d = d * p
    OBVIOUS
  <2> QED
    BY <1>2, <1>4, <2>1
<1> QED
  BY SMTT(30), <1>1, <1>6, <1>7, <1>8, <1>9, <1>10

\* A run that ends with an interval is as long as its intervals.
LEMMA WholeIntervals ==
  ASSUME NEW d \in Nat \ {0}, NEW n \in Nat, NEW start \in Nat, NEW end \in Nat,
         (end - start) % d = 0, start + n * d >= end, start + n * d - d < end
  PROVE  end = start + d * n
<1>1. PICK l \in Int : l = end - start
  OBVIOUS
<1>2. PICK c \in Int : l = d * c
  <2>1. l % d = 0
    BY <1>1
  <2>2. l = d * (l \div d)
    BY <2>1
  <2>3. l \div d \in Int
    OBVIOUS
  <2> QED
    BY Zenon, <2>2, <2>3
<1>3. PICK e \in Int : e = d * n /\ n * d = e
  OBVIOUS
<1>4. e >= l /\ e - d < l
  BY <1>1, <1>3
<1>5. n >= c
  <2> SUFFICES ASSUME c >= n + 1
               PROVE  FALSE
    OBVIOUS
  <2>1. PICK p \in Int : p = n + 1
    OBVIOUS
  <2>2. c >= p => d * c >= d * p
    OBVIOUS
  <2>3. d * p = e + d
    BY <1>3, <2>1
  <2> QED
    BY <1>2, <1>4, <2>1, <2>2, <2>3
<1>6. c >= n
  <2> SUFFICES ASSUME n >= c + 1
               PROVE  FALSE
    OBVIOUS
  <2>1. PICK p \in Int : p = c + 1
    OBVIOUS
  <2>2. n >= p => d * n >= d * p
    OBVIOUS
  <2>3. d * p = l + d
    BY <1>2, <2>1
  <2> QED
    BY <1>3, <1>4, <2>1, <2>2, <2>3
<1>7. l = e
  BY SMTT(30), <1>2, <1>3, <1>5, <1>6
<1> QED
  BY <1>1, <1>3, <1>7

\* A backtest that was alone shows a candle for each of its records, and that of the
\* record's interval when it ends with one.
THEOREM PagesShowCandles == Spec => []PageHasCandles
<1>1. ASSUME PageIInv, NEW r \in Run \ overlapped, Answered(r), runs[r].state = "done",
             calls[r].raced = {}, Fits(calls[r].window),
             Closes(Start(calls[r].window), calls[r].window.clock, calls[r].window.interval)
               \subseteq ToSet(calls[r].source)
      PROVE  LET req == runs[r].request
                 answer == calls[r].answer
                 records == runs[r].brokers[1].records
             IN  /\ Len(answer) = Len(records)
                 /\ (req.end - req.start) % req.interval = 0 =>
                      \A k \in DOMAIN records :
                        /\ records[k].timestamp < answer[k]
                        /\ answer[k] <= records[k].timestamp + req.interval
  <2> DEFINE req == runs[r].request
             w == calls[r].window
             answer == calls[r].answer
             broker == runs[r].brokers[1]
             records == broker.records
             n == Len(records)
             d == req.interval
  <2>1. /\ calls[r].state = "answered" /\ calls[r].source # None /\ r \in Call
    BY <1>1, OneCallPerRun DEF Answered
  <2>2. /\ w \in Window /\ IsCandles(calls[r].source, w.interval)
        /\ answer = Observed(calls[r].source, w)
    BY <1>1, <2>1 DEF PageIInv, FeederInv, CallOK, AnswerOK
  <2>3. runs[r].brokers # <<>> /\ w = PageWindow(req, n)
    BY <1>1, <2>1 DEF PageIInv, PageFollows
  <2>4. w.clock = req.end /\ w.interval = d /\ w.limit = n
    BY <2>3 DEF PageWindow
  <2>5. /\ req.start \in Nat /\ req.end \in Nat /\ d \in Nat \ {0}
        /\ runs[r].brokers \in Seq(Broker)
    BY <1>1, RunTypes DEF PageIInv, RecordsIInv, IInv
  <2>6. 1 \in DOMAIN runs[r].brokers /\ broker \in Broker
    BY <2>3, <2>5
  <2>7. n \in Nat /\ DOMAIN records = 1..n /\ (n > 0 => records # <<>>)
    BY <2>6 DEF Broker
  <2>8. BrokerFollows(broker, req)
    BY <1>1, <2>6 DEF PageIInv, RecordsIInv, RunFollows
  <2>9. /\ broker.clock >= req.end
        /\ records # <<>> => broker.clock - d < req.end
    BY <1>1, <2>6 DEF PageIInv, RecordsIInv, IInv, ClocksFollow
  <2>10. /\ broker.clock = req.start + n * d
         /\ \A k \in 1..n : records[k].timestamp = req.start + (k - 1) * d
    BY <2>7, <2>8 DEF BrokerFollows
  <2>11. /\ answer \in Seq(Nat) /\ Len(answer) = n /\ IsCandles(answer, d)
         /\ \A k \in 1..n : Start(w) < answer[k] /\ answer[k] <= req.end
    BY SMTT(30), <1>1, <2>2, <2>4, CompleteIsShown
  <2>12. Start(w) = req.end - d * n
    BY <2>4 DEF Start
  <2> HIDE DEF req, w, answer, records, n
  <2>13. ASSUME (req.end - req.start) % d = 0, NEW k \in 1..n
         PROVE  /\ records[k].timestamp < answer[k]
                /\ answer[k] <= records[k].timestamp + d
    <3> DEFINE start == req.start
               end == req.end
    <3>1. start \in Nat /\ end \in Nat
      BY <2>5
    <3>2. start + n * d >= end /\ start + n * d - d < end
      <4>1. n > 0 /\ records # <<>>
        BY <2>7
      <4>2. broker.clock >= end /\ broker.clock - d < end /\ broker.clock = start + n * d
        BY <2>9, <2>10, <4>1
      <4> HIDE DEF start, end, d, broker
      <4>3. PICK e \in Nat : e = n * d
        BY <2>5, <2>7
      <4> QED
        BY <2>5, <3>1, <4>2, <4>3
    <3>3. (end - start) % d = 0
      BY <2>13
    <3>4. Start(w) = end - d * n /\ \A i \in 1..n : Start(w) < answer[i] /\ answer[i] <= end
      BY <2>11, <2>12
    <3> HIDE DEF start, end, d
    <3>5. end = start + d * n
      BY <2>5, <2>7, <3>1, <3>2, <3>3, WholeIntervals
    <3>6. end - d * n = start
      <4>1. PICK e \in Int : e = d * n
        BY <2>5, <2>7
      <4> QED
        BY <3>1, <3>5, <4>1
    <3>7. \A i \in 1..n : start < answer[i] /\ answer[i] <= end
      BY <3>4, <3>6
    <3>8. start + (k - 1) * d < answer[k] /\ answer[k] <= start + (k - 1) * d + d
      <4>1. /\ d \in Nat \ {0} /\ n \in Nat /\ IsCandles(answer, d) /\ Len(answer) = n
            /\ start \in Int /\ end \in Int
        BY <2>5, <2>7, <2>11, <3>1
      <4> QED
        BY Zenon, <3>5, <3>7, <4>1, OneInEach
    <3>9. records[k].timestamp = start + (k - 1) * d
      BY <2>10 DEF start, d
    <3> QED
      BY <3>8, <3>9
  <2> QED
    BY <2>7, <2>11, <2>13 DEF req, answer, records, n
<1>2. PageIInv => PageHasCandles
  <2> SUFFICES ASSUME PageIInv
               PROVE  PageHasCandles
    OBVIOUS
  <2> QED
    BY <1>1 DEF PageHasCandles, Closes
<1> QED
  BY <1>2, PageIInvHolds, PTL
=============================================================================
