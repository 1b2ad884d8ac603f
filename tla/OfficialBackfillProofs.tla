------------------------ MODULE OfficialBackfillProofs ------------------------
(***************************************************************************)
(* However runs are interrupted, resumed and repeated, the official        *)
(* history is read without a hole, for every set of regions, every         *)
(* retention and every size of a request.                                  *)
(***************************************************************************)
EXTENDS OfficialBackfill, WellFoundedInduction, TLAPS

\* Nothing is asked for that lies ahead.
TargetsArePast ==
    \A j \in {journal, disk}, r \in Region : j.target[r] =< now

\* A run begins no later than where each of its regions still has to read: at its
\* cursor, or where the retention begins.
RunBeginsInTime ==
    run.at \in {"fetching", "flushing", "finishing"} =>
        \A r \in run.windows : run.start =< journal.cursor[r]
                               \/ run.start =< now - MAX_HISTORY_DAYS

\* Only the journal in memory advances by itself.
DiskIsBehind == \A r \in Region : disk.cursor[r] =< journal.cursor[r]

IInv ==
    /\ TypeOK
    /\ NothingSkipped
    /\ TargetsArePast
    /\ RunBeginsInTime
    /\ DiskIsBehind

-----------------------------------------------------------------------------
(* Least and greatest members.                                             *)

Less == {p \in Nat \X Nat : p[1] < p[2]}

LEMMA LessIsWellFounded == IsWellFoundedOn(Less, Nat)
BY NatLessThanWellFounded DEF OpToRel, Less

LEMMA LeastOf ==
    ASSUME NEW S, S \subseteq Nat, S # {}
    PROVE  Min(S) \in S /\ \A y \in S : Min(S) =< y
<1>1. PICK x \in S : \A y \in S : ~(<<y, x>> \in Less)
  BY LessIsWellFounded, WFMin
<1>2. ASSUME NEW y \in S
      PROVE  x =< y
  <2>1. x \in Nat /\ y \in Nat
    BY <1>1
  <2>2. <<y, x>> \in Less <=> y < x
    BY <2>1 DEF Less
  <2> QED
    BY <1>1, <2>1, <2>2
<1> QED
  BY <1>1, <1>2 DEF Min

LEMMA GreatestOf ==
    ASSUME NEW S, NEW n \in Nat, S \subseteq 0 .. n, S # {}
    PROVE  Max(S) \in S /\ \A y \in S : y =< Max(S)
<1> DEFINE R == {n - x : x \in S}
<1>1. R \subseteq Nat
  OBVIOUS
<1>2. R # {}
  OBVIOUS
<1>3. Min(R) \in R /\ \A y \in R : Min(R) =< y
  <2> HIDE DEF R
  <2> QED
    BY <1>1, <1>2, LeastOf
<1>4. PICK x \in S : Min(R) = n - x
  BY <1>3
<1>5. ASSUME NEW y \in S
      PROVE  x >= y
  <2>1. n - y \in R
    OBVIOUS
  <2>2. n - x =< n - y
    BY <1>3, <1>4, <2>1
  <2> QED
    BY <2>2
<1> QED
  BY <1>4, <1>5 DEF Max

LEMMA GreaterOfTwo ==
    ASSUME NEW a \in Int, NEW b \in Int
    PROVE  Max({a, b}) = IF a >= b THEN a ELSE b
<1>1. \E x \in {a, b} : \A y \in {a, b} : x >= y
  OBVIOUS
<1>2. /\ Max({a, b}) \in {a, b}
      /\ Max({a, b}) >= a /\ Max({a, b}) >= b
  BY <1>1 DEF Max
<1> QED
  BY <1>2

LEMMA LesserOfTwo ==
    ASSUME NEW a \in Int, NEW b \in Int
    PROVE  Min({a, b}) = IF a =< b THEN a ELSE b
<1>1. \E x \in {a, b} : \A y \in {a, b} : x =< y
  OBVIOUS
<1>2. /\ Min({a, b}) \in {a, b}
      /\ Min({a, b}) =< a /\ Min({a, b}) =< b
  BY <1>1 DEF Min
<1> QED
  BY <1>2

-----------------------------------------------------------------------------
(* The window of a region.                                                 *)

LEMMA Intervals ==
    /\ MAX_HISTORY_DAYS \in Nat \ {0} /\ CHUNK \in Nat \ {0} /\ REFRESH \in Nat \ {0}
    /\ OVERLAP \in Nat /\ MaxNow \in Nat /\ MAX_HISTORY_DAYS =< MaxNow
BY IntervalsAssumption

\* A region's cursor is not before the retention, and its window begins at the
\* cursor or before, and ends in the past and after its beginning.
LEMMA WindowOfRegion ==
    ASSUME TypeOK, TargetsArePast, NEW r \in Region,
           NEW today \in MAX_HISTORY_DAYS .. now, Due(r, today)
    PROVE  /\ Window(r, today).lo \in 0 .. now
           /\ Window(r, today).hi \in 0 .. now
           /\ Window(r, today).lo =< Window(r, today).hi
           /\ Window(r, today).lo =< journal.cursor[r]
              \/ Window(r, today).lo =< today - MAX_HISTORY_DAYS
<1>1. /\ journal.cursor[r] \in 0 .. MaxNow \cup {None}
      /\ journal.target[r] \in 0 .. MaxNow \cup {None}
      /\ journal.target[r] =< now
      /\ now \in MAX_HISTORY_DAYS .. MaxNow
  BY DEF TypeOK, Journal, TargetsArePast
<1>2. journal.cursor[r] \in Int /\ journal.target[r] \in Int /\ now \in Nat /\ today \in Nat
  BY <1>1, Intervals DEF None
<1>3. Cursor(r, today) = IF today - MAX_HISTORY_DAYS >= journal.cursor[r]
                           THEN today - MAX_HISTORY_DAYS ELSE journal.cursor[r]
  BY <1>2, Intervals, GreaterOfTwo DEF Cursor
<1>4. Cursor(r, today) \in Nat /\ Cursor(r, today) >= today - MAX_HISTORY_DAYS
  BY <1>1, <1>2, <1>3, Intervals DEF None
<1>5. CASE Unfinished(r, today)
  <2>1. Window(r, today) = [lo |-> Cursor(r, today), hi |-> journal.target[r]]
    BY <1>5 DEF Window
  <2>2. Cursor(r, today) < journal.target[r]
    BY <1>5 DEF Unfinished
  <2> QED
    BY <1>1, <1>2, <1>3, <1>4, <2>1, <2>2, Intervals
<1>6. CASE ~Unfinished(r, today)
  <2>1. Cursor(r, today) < today - REFRESH
    BY <1>6 DEF Due
  <2>2. Max({today - MAX_HISTORY_DAYS, Cursor(r, today) - OVERLAP}) =
          IF today - MAX_HISTORY_DAYS >= Cursor(r, today) - OVERLAP
            THEN today - MAX_HISTORY_DAYS ELSE Cursor(r, today) - OVERLAP
    BY <1>2, <1>4, Intervals, GreaterOfTwo
  <2>3. Window(r, today) =
          [lo |-> Max({today - MAX_HISTORY_DAYS, Cursor(r, today) - OVERLAP}), hi |-> today]
    BY <1>6 DEF Window
  <2>4. Window(r, today).lo =< Cursor(r, today)
    BY <1>2, <1>4, <2>2, <2>3, Intervals
  <2>5. Window(r, today).lo >= 0 /\ Window(r, today).lo \in Int
    BY <1>2, <1>4, <2>2, <2>3, Intervals
  <2> QED
    BY <1>1, <1>2, <1>3, <1>4, <2>1, <2>3, <2>4, <2>5, Intervals
<1> QED
  BY <1>5, <1>6

\* The root is read from a day at or before each window, to the end of the last.
LEMMA RootOfWindows ==
    ASSUME TypeOK, TargetsArePast, NEW today \in MAX_HISTORY_DAYS .. now,
           NEW windows \in SUBSET Region, windows # {},
           \A r \in windows : Due(r, today)
    PROVE  LET target == Max({Window(r, today).hi : r \in windows})
           IN  /\ First(windows, today) \in 0 .. now
               /\ target \in 0 .. now
               /\ First(windows, today) =< target
               /\ \A r \in windows : First(windows, today) =< Window(r, today).lo
<1> DEFINE Lows  == {Window(r, today).lo : r \in windows}
           Highs == {Window(r, today).hi : r \in windows}
<1>1. \A r \in windows : /\ Window(r, today).lo \in 0 .. now
                         /\ Window(r, today).hi \in 0 .. now
                         /\ Window(r, today).lo =< Window(r, today).hi
  BY WindowOfRegion
<1>2. now \in Nat
  BY Intervals DEF TypeOK
<1>3. Lows \subseteq 0 .. now /\ Highs \subseteq 0 .. now
  BY <1>1
<1>4. Lows # {} /\ Highs # {}
  OBVIOUS
<1>5. Min(Lows) \in Lows /\ \A y \in Lows : Min(Lows) =< y
  <2>1. Lows \subseteq Nat
    BY <1>2, <1>3
  <2> HIDE DEF Lows
  <2> QED
    BY <1>4, <2>1, LeastOf
<1>6. Max(Highs) \in Highs /\ \A y \in Highs : y =< Max(Highs)
  <2> HIDE DEF Highs
  <2> QED
    BY <1>2, <1>3, <1>4, GreatestOf
<1>7. First(windows, today) = Min(Lows)
  BY DEF First
<1>8. \A r \in windows : Min(Lows) =< Window(r, today).lo /\ Window(r, today).hi =< Max(Highs)
  BY <1>5, <1>6
<1>9. Min(Lows) \in 0 .. now /\ Max(Highs) \in 0 .. now
  BY <1>3, <1>5, <1>6
<1>10. Min(Lows) =< Max(Highs)
  <2> HIDE DEF Lows, Highs
  <2>1. PICK r \in windows : TRUE
    OBVIOUS
  <2> QED
    BY <1>1, <1>2, <1>8, <1>9, <2>1
<1> QED
  BY <1>7, <1>8, <1>9, <1>10

-----------------------------------------------------------------------------
(* What each action does to the parts that are not plain counters.         *)

Busy == run.at \in {"fetching", "flushing", "finishing"}

\* What is known of a run, and of a journal.
LEMMA RunOfType ==
    ASSUME TypeOK, Busy
    PROVE  /\ run = [at |-> run.at, windows |-> run.windows,
                     start |-> run.start, target |-> run.target]
           /\ run.windows \in SUBSET selected
           /\ run.start \in 0 .. now /\ run.target \in 0 .. now
           /\ run.start =< run.target
BY DEF TypeOK, Busy, Idle

LEMMA WatchedOfType ==
    ASSUME NEW j \in Journal, NEW regions \in SUBSET Region, NEW today \in Created .. MaxNow
    PROVE  /\ Watched(j, regions, today) \in Journal
           /\ Watched(j, regions, today).cursor = j.cursor
           /\ Watched(j, regions, today).target = j.target
           /\ Watched(j, regions, today).read = j.read
<1>1. j = [cursor |-> j.cursor, target |-> j.target, official |-> j.official,
           since |-> j.since, read |-> j.read]
  BY DEF Journal
<1>2. [r \in Region |-> IF r \in regions /\ j.since[r] = None THEN today ELSE j.since[r]]
         \in [Region -> (Created .. MaxNow) \cup {None}]
  BY DEF Journal
<1>3. Watched(j, regions, today) =
        [cursor |-> j.cursor, target |-> j.target, official |-> j.official,
         since |-> [r \in Region |-> IF r \in regions /\ j.since[r] = None
                                       THEN today ELSE j.since[r]],
         read |-> j.read]
  BY <1>1 DEF Watched
<1> QED
  BY <1>1, <1>2, <1>3 DEF Journal

LEMMA InitHolds == Init => IInv
<1> SUFFICES ASSUME Init PROVE IInv
  OBVIOUS
<1> DEFINE j0 == [cursor |-> [r \in Region |-> None], target |-> [r \in Region |-> None],
                  official |-> [r \in Region |-> None],
                  since |-> [r \in Region |-> None],
                  read |-> [r \in Region |-> [d \in Day |-> Never]]]
<1>1. now = MAX_HISTORY_DAYS /\ crashes = 0 /\ selected \in SUBSET Region /\ run = Idle
      /\ journal = Watched(j0, selected, now) /\ disk = journal
  BY DEF Init
<1>2. now \in Created .. MaxNow /\ now \in MAX_HISTORY_DAYS .. MaxNow
  BY <1>1, Intervals DEF Created
<1>3. j0 \in Journal
  BY Intervals DEF Journal, None, Never
<1>4. /\ journal \in Journal
      /\ journal.cursor = j0.cursor /\ journal.target = j0.target
  <2> HIDE DEF j0
  <2> QED
    BY <1>1, <1>2, <1>3, WatchedOfType
<1>5. \A r \in Region : journal.cursor[r] = None /\ journal.target[r] = None
  BY <1>4
<1> HIDE DEF j0
<1>6. crashes \in 0 .. MaxCrashes
  BY <1>1, BoundsAssumption
<1>7. TypeOK
  BY <1>1, <1>2, <1>4, <1>6 DEF TypeOK
<1>8. NothingSkipped
  BY <1>1, <1>5 DEF NothingSkipped, None, Day
<1>9. TargetsArePast
  BY <1>1, <1>2, <1>5, Intervals DEF TargetsArePast, None
<1>10. RunBeginsInTime
  BY <1>1 DEF RunBeginsInTime, Idle
<1>11. DiskIsBehind
  BY <1>1, <1>5 DEF DiskIsBehind, None
<1> QED
  BY <1>7, <1>8, <1>9, <1>10, <1>11 DEF IInv

\* A step that reads no day and ends before the next: at most the disk follows.
LEMMA NothingRead ==
    ASSUME IInv, now' = now,
           journal'.cursor = journal.cursor, journal'.read = journal.read,
           disk' \in {disk, journal}
    PROVE  NothingSkipped' /\ DiskIsBehind'
<1>1. NothingSkipped'
  <2> SUFFICES ASSUME NEW j \in {journal', disk'}, NEW r \in Region, NEW d \in Day,
                      now - MAX_HISTORY_DAYS =< d /\ d < j.cursor[r]
               PROVE  j.read[r][d] > d
    BY DEF NothingSkipped
  <2>1. \/ j.cursor = journal.cursor /\ j.read = journal.read
        \/ j.cursor = disk.cursor /\ j.read = disk.read
    OBVIOUS
  <2> QED
    BY <2>1 DEF IInv, NothingSkipped
<1>2. DiskIsBehind'
  <2>1. \A r \in Region : journal.cursor[r] \in Int
    BY Intervals DEF IInv, TypeOK, Journal, None
  <2> QED
    BY <2>1 DEF IInv, DiskIsBehind
<1> QED
  BY <1>1, <1>2

\* Targets that are put to days of the past.
LEMMA Retarget ==
    ASSUME IInv, NEW t \in [Region -> 0 .. now \cup {None}],
           journal' = [journal EXCEPT !.target = t]
    PROVE  /\ journal' \in Journal
           /\ journal'.cursor = journal.cursor /\ journal'.read = journal.read
           /\ journal'.target = t
           /\ \A r \in Region : t[r] =< now
<1>1. now \in Nat /\ now =< MaxNow /\ journal \in Journal
  BY Intervals DEF IInv, TypeOK
<1>2. t \in [Region -> 0 .. MaxNow \cup {None}]
  BY <1>1, Intervals
<1>3. \A r \in Region : t[r] =< now
  BY <1>1 DEF None
<1> QED
  BY <1>1, <1>2, <1>3 DEF Journal

\* A run that a step leaves at its place, or moves within its chunk.
LEMMA RunGoesOn ==
    ASSUME IInv, Busy, now' = now, selected' = selected,
           journal'.cursor = journal.cursor,
           NEW place \in {"fetching", "flushing", "finishing"},
           run' = [run EXCEPT !.at = place]
    PROVE  /\ run' \in [at : {"fetching", "flushing", "finishing"}, windows : SUBSET selected',
                        start : 0 .. now', target : 0 .. now']
           /\ run'.start =< run'.target
           /\ RunBeginsInTime'
<1>1. run = [at |-> run.at, windows |-> run.windows, start |-> run.start, target |-> run.target]
      /\ run.windows \in SUBSET selected
      /\ run.start \in 0 .. now /\ run.target \in 0 .. now /\ run.start =< run.target
  BY RunOfType DEF IInv
<1>2. run' = [at |-> place, windows |-> run.windows, start |-> run.start, target |-> run.target]
  BY <1>1
<1>3. \A r \in run.windows : run.start =< journal.cursor[r]
                             \/ run.start =< now - MAX_HISTORY_DAYS
  BY DEF IInv, RunBeginsInTime, Busy
<1> QED
  BY <1>1, <1>2, <1>3 DEF RunBeginsInTime

\* Every kind of run that a state may have.
LEMMA TypeFromParts ==
    ASSUME now' \in MAX_HISTORY_DAYS .. MaxNow, crashes' \in 0 .. MaxCrashes,
           selected' \in SUBSET Region, journal' \in Journal, disk' \in Journal,
           \/ run' = Idle
           \/ run' \in [at : {"queued"}, asked : MAX_HISTORY_DAYS .. now']
           \/ /\ run' \in [at : {"fetching", "flushing", "finishing"},
                           windows : SUBSET selected', start : 0 .. now', target : 0 .. now']
              /\ run'.start =< run'.target
    PROVE  TypeOK'
BY DEF TypeOK

LEMMA StartStep == ASSUME IInv, Start PROVE IInv'
<1>1. /\ run' = [at |-> "queued", asked |-> now]
      /\ now' = now /\ crashes' = crashes /\ selected' = selected
      /\ journal' = journal /\ disk' = disk
  BY DEF Start
<1>2. NothingSkipped' /\ DiskIsBehind'
  BY <1>1, NothingRead
<1>3. TypeOK'
  <2>1. now \in MAX_HISTORY_DAYS .. now
    BY Intervals DEF IInv, TypeOK
  <2> QED
    BY <1>1, <2>1 DEF IInv, TypeOK
<1>4. TargetsArePast' /\ RunBeginsInTime'
  BY <1>1 DEF IInv, TargetsArePast, RunBeginsInTime
<1> QED
  BY <1>2, <1>3, <1>4 DEF IInv

LEMMA IdleStep ==
    ASSUME IInv, run' = Idle, UNCHANGED <<now, crashes, selected, journal, disk>>
    PROVE  IInv'
<1>1. NothingSkipped' /\ DiskIsBehind'
  BY NothingRead
<1>2. TypeOK'
  BY DEF IInv, TypeOK
<1>3. TargetsArePast' /\ RunBeginsInTime'
  BY DEF IInv, TargetsArePast, RunBeginsInTime, Idle
<1> QED
  BY <1>1, <1>2, <1>3 DEF IInv

LEMMA OpenRootStep == ASSUME IInv, OpenRoot PROVE IInv'
<1> DEFINE today   == run.asked
           windows == {r \in selected : Due(r, today)}
           target  == Max({Window(r, today).hi : r \in windows})
           t == [r \in Region |-> IF r \in windows THEN target
                                  ELSE IF r \in selected THEN Healed(r, today)
                                  ELSE journal.target[r]]
<1>1. /\ run.at = "queued"
      /\ journal' = [journal EXCEPT !.target = t]
      /\ run' = IF windows = {} THEN Idle
                ELSE [at |-> "fetching", windows |-> windows,
                      start |-> First(windows, today), target |-> target]
      /\ now' = now /\ crashes' = crashes /\ selected' = selected /\ disk' = disk
  BY DEF OpenRoot
<1>2. today \in MAX_HISTORY_DAYS .. now
  BY <1>1 DEF IInv, TypeOK, Idle
<1>3. windows \in SUBSET Region /\ windows \in SUBSET selected
      /\ \A r \in windows : Due(r, today)
  BY DEF IInv, TypeOK
<1>4. ASSUME windows # {}
      PROVE  /\ First(windows, today) \in 0 .. now
             /\ target \in 0 .. now
             /\ First(windows, today) =< target
             /\ \A r \in windows : First(windows, today) =< Window(r, today).lo
  <2> HIDE DEF windows, today
  <2> QED
    BY <1>2, <1>3, <1>4, RootOfWindows DEF IInv
<1>5. t \in [Region -> 0 .. now \cup {None}]
  <2>1. \A r \in Region : journal.target[r] \in 0 .. now \cup {None}
    <3>1. \A r \in Region : journal.target[r] \in 0 .. MaxNow \cup {None}
                            /\ journal.target[r] =< now
      BY DEF IInv, TypeOK, Journal, TargetsArePast
    <3>2. now \in Nat
      BY Intervals DEF IInv, TypeOK
    <3> QED
      BY <3>1, <3>2, Intervals DEF None
  <2>2. \A r \in Region : Healed(r, today) \in 0 .. now \cup {None}
    BY <2>1 DEF Healed
  <2>3. \A r \in windows : target \in 0 .. now
    BY <1>4
  <2> HIDE DEF windows, target, today
  <2> QED
    BY <2>1, <2>2, <2>3
<1>6. /\ journal' \in Journal
      /\ journal'.cursor = journal.cursor /\ journal'.read = journal.read
      /\ journal'.target = t /\ \A r \in Region : t[r] =< now
  <2> HIDE DEF t
  <2> QED
    BY <1>1, <1>5, Retarget
<1>7. NothingSkipped' /\ DiskIsBehind'
  BY <1>1, <1>6, NothingRead
<1>8. TypeOK' /\ RunBeginsInTime'
  <2>1. CASE windows = {}
    <3>1. run' = Idle
      BY <1>1, <2>1
    <3> QED
      BY <1>1, <1>6, <3>1 DEF IInv, TypeOK, RunBeginsInTime, Idle
  <2>2. CASE windows # {}
    <3>1. run' = [at |-> "fetching", windows |-> windows,
                  start |-> First(windows, today), target |-> target]
      BY <1>1, <2>2
    <3>2. ASSUME NEW r \in windows
          PROVE  First(windows, today) =< journal.cursor[r]
                 \/ First(windows, today) =< now - MAX_HISTORY_DAYS
      <4>1. /\ Window(r, today).lo \in 0 .. now
            /\ \/ Window(r, today).lo =< journal.cursor[r]
               \/ Window(r, today).lo =< today - MAX_HISTORY_DAYS
        <5> HIDE DEF windows, today
        <5> QED
          BY <1>2, <1>3, <3>2, WindowOfRegion DEF IInv
      <4>2. First(windows, today) \in 0 .. now /\ First(windows, today) =< Window(r, today).lo
        BY <1>4, <2>2, <3>2
      <4>3. journal.cursor[r] \in Int /\ now \in Nat /\ today \in Nat /\ today =< now
        BY <1>2, <1>3, <3>2, Intervals DEF IInv, TypeOK, Journal, None
      <4> HIDE DEF windows, today
      <4> QED
        BY <4>1, <4>2, <4>3, Intervals
    <3> HIDE DEF windows, target, today, t
    <3>3. RunBeginsInTime'
      BY <1>1, <1>6, <3>1, <3>2 DEF RunBeginsInTime
    <3>4. /\ run' \in [at : {"fetching", "flushing", "finishing"}, windows : SUBSET selected',
                       start : 0 .. now', target : 0 .. now']
          /\ run'.start =< run'.target
      BY <1>1, <1>3, <1>4, <2>2, <3>1
    <3>5. TypeOK'
      BY <1>1, <1>6, <3>4, TypeFromParts DEF IInv, TypeOK
    <3> QED
      BY <3>3, <3>5
  <2> QED
    BY <2>1, <2>2
<1>9. TargetsArePast'
  <2> HIDE DEF t
  <2> QED
    BY <1>1, <1>6 DEF IInv, TargetsArePast
<1> QED
  BY <1>7, <1>8, <1>9 DEF IInv

\* The end of a chunk lies between its start and the run's target.
LEMMA ChunkEnds ==
    ASSUME TypeOK, Busy
    PROVE  End \in 0 .. now /\ run.start =< End /\ End =< run.target
<1>1. /\ run.start \in 0 .. now /\ run.target \in 0 .. now /\ run.start =< run.target
      /\ now \in Nat
  BY RunOfType, Intervals DEF TypeOK
<1>2. End = IF run.start + CHUNK =< run.target THEN run.start + CHUNK ELSE run.target
  BY <1>1, Intervals, LesserOfTwo DEF End
<1> QED
  BY <1>1, <1>2, Intervals

\* A cursor goes to the end of the chunk, or stays beyond it.
LEMMA CursorAdvances ==
    ASSUME TypeOK, NEW r \in Region, NEW end \in 0 .. now
    PROVE  /\ Advanced(r, end) = IF journal.cursor[r] >= end THEN journal.cursor[r] ELSE end
           /\ Advanced(r, end) \in 0 .. MaxNow
           /\ Advanced(r, end) >= journal.cursor[r]
<1>1. /\ journal.cursor[r] \in 0 .. MaxNow \cup {None} /\ journal.cursor[r] \in Int
      /\ now \in Nat /\ now =< MaxNow
  BY Intervals DEF TypeOK, Journal, None
<1>2. Advanced(r, end) = IF journal.cursor[r] >= end THEN journal.cursor[r] ELSE end
  BY <1>1, GreaterOfTwo DEF Advanced
<1> QED
  BY <1>1, <1>2, Intervals DEF None

LEMMA FetchOkStep == ASSUME IInv, FetchOk PROVE IInv'
<1> DEFINE readings == [r \in Region |-> IF r \notin run.windows THEN journal.read[r] ELSE
                          [d \in Day |-> IF run.start =< d /\ d < End THEN now
                                         ELSE journal.read[r][d]]]
           starts   == [r \in Region |-> IF r \in run.windows THEN Reaches(r, run.start)
                                         ELSE journal.official[r]]
           cursors  == [r \in Region |-> IF r \in run.windows THEN Advanced(r, End)
                                         ELSE journal.cursor[r]]
<1>1. /\ Busy
      /\ journal' = [journal EXCEPT !.read = readings, !.official = starts, !.cursor = cursors]
      /\ run' = [run EXCEPT !.at = "flushing", !.start = End]
      /\ now' = now /\ crashes' = crashes /\ selected' = selected /\ disk' = disk
  BY DEF FetchOk, Busy
<1>2. /\ run = [at |-> run.at, windows |-> run.windows,
                start |-> run.start, target |-> run.target]
      /\ run.windows \in SUBSET selected
      /\ run.start \in 0 .. now /\ run.target \in 0 .. now /\ run.start =< run.target
  BY <1>1, RunOfType DEF IInv
<1>3. End \in 0 .. now /\ run.start =< End /\ End =< run.target
  BY <1>1, ChunkEnds DEF IInv
<1>4. /\ now \in Nat /\ now =< MaxNow /\ now >= MAX_HISTORY_DAYS
      /\ journal \in Journal /\ disk \in Journal
  BY Intervals DEF IInv, TypeOK
<1>5. \A r \in Region :
         /\ Advanced(r, End) = IF journal.cursor[r] >= End THEN journal.cursor[r] ELSE End
         /\ Advanced(r, End) \in 0 .. MaxNow
         /\ Advanced(r, End) >= journal.cursor[r]
  BY <1>3, CursorAdvances DEF IInv
<1>6. readings \in [Region -> [Day -> 0 .. MaxNow]]
  <2>1. \A r \in Region : journal.read[r] \in [Day -> 0 .. MaxNow]
    BY <1>4 DEF Journal
  <2>2. now \in 0 .. MaxNow
    BY <1>4
  <2> QED
    BY <2>1, <2>2
<1>7. starts \in [Region -> Day \cup {None}]
  <2>1. ASSUME NEW r \in Region
        PROVE  Reaches(r, run.start) \in Day \cup {None}
    <3>1. journal.official[r] \in Day \cup {None}
      BY <1>4 DEF Journal
    <3>2. CASE journal.official[r] = None
      <4>1. Reaches(r, run.start) = IF run.start < Created THEN run.start ELSE None
        BY <3>2 DEF Reaches
      <4> QED
        BY <1>2, <1>4, <4>1, Intervals DEF Created, Day
    <3>3. CASE journal.official[r] # None
      <4>1. Reaches(r, run.start) = IF run.start < journal.official[r] THEN run.start
                                    ELSE journal.official[r]
        BY <3>3 DEF Reaches
      <4>2. journal.official[r] \in Day
        BY <3>1, <3>3
      <4> QED
        BY <1>2, <1>4, <4>1, <4>2, Intervals DEF Day
    <3> QED
      BY <3>2, <3>3
  <2>2. \A r \in Region : journal.official[r] \in Day \cup {None}
    BY <1>4 DEF Journal
  <2> QED
    BY <2>1, <2>2
<1>8. cursors \in [Region -> 0 .. MaxNow \cup {None}]
  <2>1. \A r \in Region : journal.cursor[r] \in 0 .. MaxNow \cup {None}
    BY <1>4 DEF Journal
  <2> QED
    BY <1>5, <2>1
<1> HIDE DEF readings, starts, cursors
<1>9. /\ journal' \in Journal
      /\ journal'.read = readings /\ journal'.cursor = cursors
      /\ journal'.target = journal.target
  BY <1>1, <1>4, <1>6, <1>7, <1>8 DEF Journal
<1>10. run' = [at |-> "flushing", windows |-> run.windows, start |-> End, target |-> run.target]
  BY <1>1, <1>2
<1>11. TypeOK'
  <2>1. /\ run' \in [at : {"fetching", "flushing", "finishing"}, windows : SUBSET selected',
                     start : 0 .. now', target : 0 .. now']
        /\ run'.start =< run'.target
    BY <1>1, <1>2, <1>3, <1>10
  <2> QED
    BY <1>1, <1>9, <2>1, TypeFromParts DEF IInv, TypeOK
<1>12. ASSUME NEW r \in Region, NEW d \in Day,
              now - MAX_HISTORY_DAYS =< d, d < cursors[r]
       PROVE  readings[r][d] > d
  <2>1. d \in Nat /\ journal.cursor[r] \in Int
    BY <1>4, Intervals DEF Day, Journal, None
  <2>2. CASE r \notin run.windows
    <3>1. cursors[r] = journal.cursor[r] /\ readings[r] = journal.read[r]
      BY <2>2 DEF cursors, readings
    <3> QED
      BY <1>12, <3>1 DEF IInv, NothingSkipped
  <2>3. CASE r \in run.windows
    <3>1. /\ cursors[r] = Advanced(r, End)
          /\ readings[r][d] = IF run.start =< d /\ d < End THEN now ELSE journal.read[r][d]
      BY <2>3 DEF cursors, readings
    <3>2. CASE run.start =< d /\ d < End
      BY <1>3, <1>4, <2>1, <3>1, <3>2
    <3>3. CASE ~(run.start =< d /\ d < End)
      <4>1. d < journal.cursor[r]
        <5>1. run.start =< journal.cursor[r] \/ run.start =< now - MAX_HISTORY_DAYS
          BY <1>1, <2>3 DEF IInv, RunBeginsInTime, Busy
        <5>2. d < journal.cursor[r] \/ d < End
          BY <1>5, <1>12, <3>1
        <5> QED
          BY <1>2, <1>3, <1>4, <1>12, <2>1, <3>3, <5>1, <5>2, Intervals
      <4>2. journal.read[r][d] > d
        BY <1>12, <4>1 DEF IInv, NothingSkipped
      <4>3. readings[r][d] = journal.read[r][d]
        BY <3>1, <3>3
      <4> QED
        BY <4>2, <4>3
    <3> QED
      BY <3>2, <3>3
  <2> QED
    BY <2>2, <2>3
<1>13. NothingSkipped'
  <2> SUFFICES ASSUME NEW j \in {journal', disk'}, NEW r \in Region, NEW d \in Day,
                      now - MAX_HISTORY_DAYS =< d /\ d < j.cursor[r]
               PROVE  j.read[r][d] > d
    BY <1>1 DEF NothingSkipped
  <2>1. CASE j = journal'
    BY <1>9, <1>12, <2>1
  <2>2. CASE j = disk'
    BY <1>1, <2>2 DEF IInv, NothingSkipped
  <2> QED
    BY <2>1, <2>2
<1>14. \A r \in Region : cursors[r] >= journal.cursor[r]
  <2>1. \A r \in Region : journal.cursor[r] \in Int
    BY <1>4, Intervals DEF Journal, None
  <2> QED
    BY <1>5, <2>1 DEF cursors
<1>15. DiskIsBehind'
  <2>1. \A r \in Region : /\ journal.cursor[r] \in Int /\ disk.cursor[r] \in Int
                          /\ cursors[r] \in Int
    BY <1>4, <1>8, Intervals DEF Journal, None
  <2> QED
    BY <1>1, <1>9, <1>14, <2>1 DEF IInv, DiskIsBehind
<1>16. RunBeginsInTime'
  <2>1. ASSUME NEW r \in run.windows
        PROVE  End =< cursors[r]
    <3>1. r \in Region /\ cursors[r] = Advanced(r, End)
      BY <1>2 DEF IInv, TypeOK, cursors
    <3>2. journal.cursor[r] \in Int
      BY <1>4, <3>1, Intervals DEF Journal, None
    <3> QED
      BY <1>3, <1>4, <1>5, <3>1, <3>2
  <2> QED
    BY <1>1, <1>9, <1>10, <2>1 DEF RunBeginsInTime
<1>17. TargetsArePast'
  BY <1>1, <1>9 DEF IInv, TargetsArePast
<1> QED
  BY <1>11, <1>13, <1>15, <1>16, <1>17 DEF IInv

\* What follows a write moves the run and clears targets.
LEMMA AfterWriteStep ==
    ASSUME IInv, run.at \in {"flushing", "finishing"}, AfterWrite,
           disk' \in {disk, journal}, UNCHANGED <<now, crashes, selected>>
    PROVE  IInv'
<1> DEFINE t == [r \in Region |-> IF r \in run.windows THEN None ELSE journal.target[r]]
<1>1. Busy /\ now' = now /\ selected' = selected /\ crashes' = crashes
  BY DEF Busy
<1>2. \/ run' = Idle /\ journal' = journal
      \/ run' = [run EXCEPT !.at = "fetching"] /\ journal' = journal
      \/ run' = [run EXCEPT !.at = "finishing"] /\ journal' = [journal EXCEPT !.target = t]
  BY DEF AfterWrite
<1>3. t \in [Region -> 0 .. now \cup {None}]
  <2>1. \A r \in Region : journal.target[r] \in 0 .. MaxNow \cup {None}
                          /\ journal.target[r] =< now
    BY DEF IInv, TypeOK, Journal, TargetsArePast
  <2>2. now \in Nat
    BY Intervals DEF IInv, TypeOK
  <2>3. \A r \in Region : journal.target[r] \in 0 .. now \cup {None}
    BY <2>1, <2>2, Intervals DEF None
  <2> QED
    BY <2>3
<1> HIDE DEF t
<1>4. /\ journal' \in Journal /\ disk' \in Journal
      /\ journal'.cursor = journal.cursor /\ journal'.read = journal.read
      /\ \A r \in Region : journal'.target[r] =< now
  <2>1. journal \in Journal /\ disk \in Journal
        /\ \A r \in Region : journal.target[r] =< now
    BY DEF IInv, TypeOK, TargetsArePast
  <2>2. CASE journal' = journal
    BY <2>1, <2>2
  <2>3. CASE journal' = [journal EXCEPT !.target = t]
    BY <1>3, <2>1, <2>3, Retarget
  <2> QED
    BY <1>2, <2>2, <2>3
<1>5. NothingSkipped' /\ DiskIsBehind'
  BY <1>1, <1>4, NothingRead
<1>6. TargetsArePast'
  BY <1>1, <1>4 DEF IInv, TargetsArePast
<1>7. TypeOK' /\ RunBeginsInTime'
  <2>1. now' \in MAX_HISTORY_DAYS .. MaxNow /\ crashes' \in 0 .. MaxCrashes
        /\ selected' \in SUBSET Region
    BY <1>1 DEF IInv, TypeOK
  <2>2. CASE run' = Idle
    <3>1. TypeOK'
      BY <1>4, <2>1, <2>2, TypeFromParts
    <3> QED
      BY <2>2, <3>1 DEF RunBeginsInTime, Idle
  <2>3. CASE \E place \in {"fetching", "flushing", "finishing"} : run' = [run EXCEPT !.at = place]
    BY <1>1, <1>4, <2>1, <2>3, RunGoesOn, TypeFromParts
  <2> QED
    BY <1>2, <2>2, <2>3
<1> QED
  BY <1>5, <1>6, <1>7 DEF IInv

LEMMA PeriodicFlushStep == ASSUME IInv, PeriodicFlush PROVE IInv'
<1>1. /\ disk' = journal /\ journal' = journal
      /\ now' = now /\ crashes' = crashes /\ selected' = selected /\ run' = run
  BY DEF PeriodicFlush
<1>2. NothingSkipped' /\ DiskIsBehind'
  BY <1>1, NothingRead
<1>3. TypeOK'
  BY <1>1 DEF IInv, TypeOK
<1>4. TargetsArePast' /\ RunBeginsInTime'
  BY <1>1 DEF IInv, TargetsArePast, RunBeginsInTime
<1> QED
  BY <1>2, <1>3, <1>4 DEF IInv

LEMMA RestartStep == ASSUME IInv, Restart PROVE IInv'
<1>1. /\ selected' \in SUBSET Region /\ journal' = Watched(disk, selected', now)
      /\ run' = Idle /\ now' = now /\ disk' = disk
      /\ crashes < MaxCrashes /\ crashes' = crashes + 1
  BY DEF Restart
<1>2. now \in Created .. MaxNow /\ now \in MAX_HISTORY_DAYS .. MaxNow /\ disk \in Journal
  BY DEF IInv, TypeOK, Created
<1>3. /\ journal' \in Journal
      /\ journal'.cursor = disk.cursor /\ journal'.target = disk.target
      /\ journal'.read = disk.read
  BY <1>1, <1>2, WatchedOfType
<1>4. crashes' \in 0 .. MaxCrashes
  BY <1>1, BoundsAssumption DEF IInv, TypeOK
<1>5. TypeOK'
  BY <1>1, <1>2, <1>3, <1>4, TypeFromParts
<1>6. NothingSkipped'
  <2> SUFFICES ASSUME NEW j \in {journal', disk'}, NEW r \in Region, NEW d \in Day,
                      now - MAX_HISTORY_DAYS =< d /\ d < j.cursor[r]
               PROVE  j.read[r][d] > d
    BY <1>1 DEF NothingSkipped
  <2>1. j.cursor = disk.cursor /\ j.read = disk.read
    BY <1>1, <1>3
  <2> QED
    BY <2>1 DEF IInv, NothingSkipped
<1>7. TargetsArePast'
  BY <1>1, <1>3 DEF IInv, TargetsArePast
<1>8. DiskIsBehind'
  <2>1. \A r \in Region : disk.cursor[r] \in Int
    BY <1>2, Intervals DEF Journal, None
  <2> QED
    BY <1>1, <1>3, <2>1 DEF DiskIsBehind
<1>9. RunBeginsInTime'
  BY <1>1 DEF RunBeginsInTime, Idle
<1> QED
  BY <1>5, <1>6, <1>7, <1>8, <1>9 DEF IInv

\* The retention only moves on.
LEMMA LaterBegins ==
    ASSUME NEW a \in Nat, NEW b \in Nat, a =< b, NEW m \in Nat
    PROVE  \A x \in Int : b - m =< x => a - m =< x
OBVIOUS

LEMMA TickStep == ASSUME IInv, Tick PROVE IInv'
<1>1. /\ now < MaxNow /\ now' = now + 1
      /\ UNCHANGED <<crashes, selected, journal, disk, run>>
  BY DEF Tick
<1>2. now \in Nat /\ now' \in Nat /\ now' \in MAX_HISTORY_DAYS .. MaxNow /\ now =< now'
  BY <1>1, Intervals DEF IInv, TypeOK
<1>3. TypeOK'
  <2>1. CASE run = Idle
    BY <1>1, <1>2, <2>1, TypeFromParts DEF IInv, TypeOK
  <2>2. CASE run \in [at : {"queued"}, asked : MAX_HISTORY_DAYS .. now]
    <3>1. run' \in [at : {"queued"}, asked : MAX_HISTORY_DAYS .. now']
      BY <1>1, <1>2, <2>2, Intervals
    <3> QED
      BY <1>1, <1>2, <3>1, TypeFromParts DEF IInv, TypeOK
  <2>3. CASE /\ run \in [at : {"fetching", "flushing", "finishing"}, windows : SUBSET selected,
                         start : 0 .. now, target : 0 .. now]
             /\ run.start =< run.target
    <3>1. /\ run' \in [at : {"fetching", "flushing", "finishing"}, windows : SUBSET selected',
                       start : 0 .. now', target : 0 .. now']
          /\ run'.start =< run'.target
      BY <1>1, <1>2, <2>3
    <3> QED
      BY <1>1, <1>2, <3>1, TypeFromParts DEF IInv, TypeOK
  <2> QED
    BY <2>1, <2>2, <2>3 DEF IInv, TypeOK
<1>4. \A x \in Int : now' - MAX_HISTORY_DAYS =< x => now - MAX_HISTORY_DAYS =< x
  BY <1>1, <1>2, Intervals, LaterBegins
<1>5. NothingSkipped'
  <2> SUFFICES ASSUME NEW j \in {journal, disk}, NEW r \in Region, NEW d \in Day,
                      now' - MAX_HISTORY_DAYS =< d /\ d < j.cursor[r]
               PROVE  j.read[r][d] > d
    BY <1>1 DEF NothingSkipped
  <2>1. d \in Int
    BY Intervals DEF Day
  <2>2. now - MAX_HISTORY_DAYS =< d
    BY <1>4, <2>1
  <2> QED
    BY <2>2 DEF IInv, NothingSkipped
<1>6. TargetsArePast'
  <2>1. \A j \in {journal, disk}, r \in Region : j.target[r] \in Int
    BY Intervals DEF IInv, TypeOK, Journal, None
  <2> QED
    BY <1>1, <1>2, <2>1 DEF IInv, TargetsArePast
<1>7. DiskIsBehind'
  BY <1>1 DEF IInv, DiskIsBehind
<1>8. RunBeginsInTime'
  <2> SUFFICES ASSUME Busy, NEW r \in run.windows
               PROVE  run.start =< journal.cursor[r] \/ run.start =< now' - MAX_HISTORY_DAYS
    BY <1>1 DEF RunBeginsInTime, Busy
  <2>1. run.start =< journal.cursor[r] \/ run.start =< now - MAX_HISTORY_DAYS
    BY DEF IInv, RunBeginsInTime, Busy
  <2>2. run.start \in Int
    BY RunOfType DEF IInv
  <2> QED
    BY <1>2, <2>1, <2>2, Intervals
<1> QED
  BY <1>3, <1>5, <1>6, <1>7, <1>8 DEF IInv

LEMMA StepKeeps == IInv /\ [Next]_vars => IInv'
<1> SUFFICES ASSUME IInv, [Next]_vars PROVE IInv'
  OBVIOUS
<1>1. CASE Start
  BY <1>1, StartStep
<1>2. CASE OpenRoot
  BY <1>2, OpenRootStep
<1>3. CASE FetchOk
  BY <1>3, FetchOkStep
<1>4. CASE FetchFail
  BY <1>4, IdleStep DEF FetchFail
<1>5. CASE FlushOk
  BY <1>5, AfterWriteStep DEF FlushOk
<1>6. CASE FlushFail
  BY <1>6, AfterWriteStep DEF FlushFail
<1>7. CASE PeriodicFlush
  BY <1>7, PeriodicFlushStep
<1>8. CASE Restart
  BY <1>8, RestartStep
<1>9. CASE Tick
  BY <1>9, TickStep
<1>10. CASE UNCHANGED vars
  <2> USE <1>10 DEF vars
  <2>1. TypeOK'
    BY DEF IInv, TypeOK
  <2>2. NothingSkipped' /\ TargetsArePast' /\ RunBeginsInTime' /\ DiskIsBehind'
    BY DEF IInv, NothingSkipped, TargetsArePast, RunBeginsInTime, DiskIsBehind
  <2> QED
    BY <2>1, <2>2 DEF IInv
<1> QED
  BY <1>1, <1>2, <1>3, <1>4, <1>5, <1>6, <1>7, <1>8, <1>9, <1>10 DEF Next

-----------------------------------------------------------------------------
(* Theorems                                                                *)

\* The strengthened invariant, for all regions, intervals and crashes.
THEOREM Invariance == Spec => []IInv
BY InitHolds, StepKeeps, PTL DEF Spec

\* Journal, disk and run keep their types; in particular no run has its start
\* behind its target (coordinator.py:426-447).
THEOREM TypeCorrect == Spec => []TypeOK
<1>1. IInv => TypeOK
  BY DEF IInv
<1> QED
  BY <1>1, Invariance, PTL

\* Whatever is interrupted, retried or deselected: a day behind a cursor was read
\* after it was over.
THEOREM NoDayIsSkipped == Spec => []NothingSkipped
<1>1. IInv => NothingSkipped
  BY DEF IInv
<1> QED
  BY <1>1, Invariance, PTL

\* A chunk that is on disk is not requested again (README): cursors on disk only
\* advance.
THEOREM ProgressSurvives == Spec => ProgressIsKept
<1>1. IInv /\ IInv' /\ [Next]_vars =>
        [\A r \in Region : disk'.cursor[r] >= disk.cursor[r]]_vars
  <2> SUFFICES ASSUME IInv, Next
               PROVE  \A r \in Region : disk'.cursor[r] >= disk.cursor[r]
    OBVIOUS
  <2>1. disk' = disk \/ disk' = journal
    BY DEF Next, Start, OpenRoot, FetchOk, FetchFail, FlushOk, FlushFail, PeriodicFlush,
           Restart, Tick
  <2>2. \A r \in Region : journal.cursor[r] \in Int /\ disk.cursor[r] \in Int
    BY Intervals DEF IInv, TypeOK, Journal, None
  <2> QED
    BY <2>1, <2>2 DEF IInv, DiskIsBehind
<1> QED
  BY <1>1, Invariance, PTL DEF Spec, ProgressIsKept

=============================================================================
