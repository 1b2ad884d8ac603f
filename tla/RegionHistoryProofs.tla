-------------------------- MODULE RegionHistoryProofs --------------------------
(***************************************************************************)
(* What RegionHistory says of one instance, for every retention, cap and   *)
(* length of time.                                                         *)
(*                                                                         *)
(* No two finished episodes end at the same instant: what is observed ends *)
(* later than all that came before, and an interval of the official        *)
(* history is added only where no episode is.  So their order is total,    *)
(* and what _prune keeps is no more than the cap.                          *)
(***************************************************************************)
EXTENDS RegionHistory, FiniteSetTheorems, TLAPS

\* What is kept of a region at time t.
Formed(j, t) ==
    /\ j \in Journal
    /\ \A e, f \in j.completed : e.end = f.end => e = f
    /\ \A e, f \in j.active : e = f
    /\ \A e \in j.completed : e.end # None /\ e.start < e.end /\ e.end =< t
    /\ \A e \in j.active : e.end = None /\ e.start =< t
    /\ j.spans \subseteq 0 .. t - 1

\* In the time that is kept, j tells of the units in K and of no others.
Tells(j, t, K) ==
    \A u \in Unit :
        j.retained =< u /\ t - MAX_HISTORY_DAYS =< u /\ u < t => (u \in Told(j, t) <=> u \in K)

Inv ==
    /\ now \in Time
    /\ Formed(journal, now)
    /\ Cardinality(journal.completed) =< MAX_HISTORY_EPISODES
    /\ known \subseteq 0 .. now - 1
    /\ Tells(journal, now, known)

-----------------------------------------------------------------------------
(* Least and greatest members.                                             *)

Less == {p \in Nat \X Nat : p[1] < p[2]}

LEMMA Least ==
    ASSUME NEW S, S \subseteq Nat, S # {}
    PROVE  \E x \in S : \A y \in S : x =< y
<1>1. IsWellFoundedOn(Less, Nat)
  BY NatLessThanWellFounded DEF OpToRel, Less
<1>2. PICK x \in S : \A y \in S : ~(<<y, x>> \in Less)
  BY <1>1, WFMin
<1>3. ASSUME NEW y \in S PROVE x =< y
  <2>1. x \in Nat /\ y \in Nat
    BY <1>2
  <2>2. <<y, x>> \in Less <=> y < x
    BY <2>1 DEF Less
  <2> QED
    BY <1>2, <2>1, <2>2
<1> QED
  BY <1>2, <1>3

LEMMA GreatestBelow ==
    ASSUME NEW S, S \subseteq Int, S # {}, NEW b \in Int, \A x \in S : x =< b
    PROVE  /\ MaxOf(S) \in S
           /\ \A y \in S : y =< MaxOf(S)
<1> DEFINE D == {b - x : x \in S}
<1>1. D \subseteq Nat
  BY DEF D
<1>2. D # {}
  BY DEF D
<1> HIDE DEF D
<1>3. PICK d \in D : \A y \in D : d =< y
  BY <1>1, <1>2, Least
<1>4. PICK m \in S : d = b - m
  BY <1>3 DEF D
<1>5. ASSUME NEW y \in S PROVE y =< m
  <2>1. b - y \in D
    BY DEF D
  <2>2. b - m =< b - y
    BY <1>3, <1>4, <2>1
  <2>3. y \in Int /\ m \in Int
    OBVIOUS
  <2> QED
    BY <2>2, <2>3
<1> QED
  BY <1>4, <1>5 DEF MaxOf

-----------------------------------------------------------------------------
(* The maximal intervals of a set of units.                                *)

LEMMA UnionFields ==
    ASSUME NEW units, units \subseteq Unit, NEW i \in Union(units)
    PROVE  /\ i.start \in units /\ i.start \in Time
           /\ i.end \in Time /\ i.end # None /\ i.end - 1 \in units
           /\ i.start < i.end
           /\ \A u \in Unit : i.start =< u /\ u < i.end => u \in units
           /\ i.start - 1 \notin units /\ i.end \notin units
<1>1. i \in [start : units, end : {u + 1 : u \in units}]
  BY DEF Union
<1>2. PICK w \in units : i.end = w + 1
  BY <1>1
<1>3. /\ i.start < i.end /\ UnitsOf(i, i.end) \subseteq units
      /\ i.start - 1 \notin units /\ i.end \notin units
  BY DEF Union
<1>4. i.start \in units
  BY <1>1
<1>5. /\ i.start \in Time /\ i.end \in Time /\ i.end # None /\ i.end - 1 \in units
  <2>1. w \in 0 .. MaxTime - 1 /\ i.start \in 0 .. MaxTime - 1 /\ MaxTime \in Nat
    BY <1>4, HistoryAssumption DEF Unit
  <2>2. w + 1 \in 0 .. MaxTime /\ w + 1 # -1 /\ (w + 1) - 1 = w
    BY <2>1
  <2>3. i.start \in 0 .. MaxTime
    BY <2>1
  <2> QED
    BY <1>2, <2>2, <2>3 DEF Time, None
<1>6. UnitsOf(i, i.end) = i.start .. i.end - 1
  BY <1>5 DEF UnitsOf, EndOf
<1>7. \A u \in Unit : i.start =< u /\ u < i.end => u \in units
  BY <1>3, <1>5, <1>6, HistoryAssumption DEF Unit, Time
<1> QED
  BY <1>3, <1>4, <1>5, <1>7

LEMMA UnionEnds ==
    ASSUME NEW units, units \subseteq Unit, NEW i \in Union(units), NEW k \in Union(units),
           i.end = k.end
    PROVE  i = k
<1>1. i \in [start : units, end : {u + 1 : u \in units}] /\ k \in [start : units, end : {u + 1 : u \in units}]
  BY DEF Union
<1>2. ~(i.start < k.start)
  <2> SUFFICES ASSUME i.start < k.start PROVE FALSE
    OBVIOUS
  <2>1. i.start \in Time /\ k.start \in Unit /\ k.start < k.end /\ k.end \in Time
    BY UnionFields
  <2>2. k.start - 1 \in Unit /\ i.start =< k.start - 1 /\ k.start - 1 < i.end
    BY <2>1, HistoryAssumption DEF Unit, Time
  <2>3. k.start - 1 \in units
    BY <2>2, UnionFields
  <2> QED
    BY <2>3, UnionFields
<1>3. ~(k.start < i.start)
  <2> SUFFICES ASSUME k.start < i.start PROVE FALSE
    OBVIOUS
  <2>1. k.start \in Time /\ i.start \in Unit /\ i.start < i.end /\ i.end \in Time
    BY UnionFields
  <2>2. i.start - 1 \in Unit /\ k.start =< i.start - 1 /\ i.start - 1 < k.end
    BY <2>1, HistoryAssumption DEF Unit, Time
  <2>3. i.start - 1 \in units
    BY <2>2, UnionFields
  <2> QED
    BY <2>3, UnionFields
<1>4. i.start \in Int /\ k.start \in Int
  BY UnionFields DEF Time
<1>5. i.start = k.start
  BY <1>2, <1>3, <1>4
<1> QED
  BY <1>1, <1>5

LEMMA UnionCovers ==
    ASSUME NEW units, units \subseteq Unit, NEW u \in units
    PROVE  \E i \in Union(units) : i.start =< u /\ u < i.end
<1> USE HistoryAssumption DEF Unit, Time
<1> DEFINE After == {v \in Nat : u < v /\ v \notin units}
           Behind == {d \in Nat : d =< u /\ u - d - 1 \notin units}
<1>1. MaxTime \in After
  OBVIOUS
<1>2. u \in Behind
  OBVIOUS
<1>3. PICK e \in After : \A v \in After : e =< v
  BY <1>1, Least
<1>4. PICK d \in Behind : \A v \in Behind : d =< v
  BY <1>2, Least
<1>5. e =< MaxTime
  BY <1>1, <1>3
<1>6. \A v \in Nat : u < v /\ v < e => v \in units
  BY <1>3
<1>7. \A v \in Nat : v < d => u - v - 1 \in units
  BY <1>4
<1> DEFINE i == [start |-> u - d, end |-> e]
<1>8. \A v \in u - d .. e - 1 : v \in units
  <2> TAKE v \in u - d .. e - 1
  <2>1. CASE v > u
    BY <1>6, <2>1
  <2>2. CASE v = u
    BY <2>2
  <2>3. CASE v < u
    <3>1. u - v - 1 \in Nat /\ u - v - 1 < d /\ u - (u - v - 1) - 1 = v
      BY <1>4, <2>3
    <3> QED
      BY <1>7, <3>1
  <2> QED
    BY <2>1, <2>2, <2>3
<1>9. u - d \in units /\ e - 1 \in units
  BY <1>3, <1>4, <1>8
<1>10. i.start < i.end /\ i.start =< u /\ u < i.end /\ i.end # None
  BY <1>3, <1>4 DEF None
<1>11. UnitsOf(i, i.end) \subseteq units
  BY <1>8, <1>10 DEF UnitsOf, EndOf
<1>12. i.start - 1 \notin units /\ i.end \notin units
  BY <1>3, <1>4
<1>13. i.end = (e - 1) + 1
  BY <1>3
<1>14. i \in [start : units, end : {w + 1 : w \in units}]
  BY <1>9, <1>13
<1> HIDE DEF i
<1>15. i \in Union(units)
  BY <1>10, <1>11, <1>12, <1>14 DEF Union
<1> QED
  BY <1>10, <1>15

\* Some of the intervals, as units again.
LEMMA UnitsOfSome ==
    ASSUME NEW units, units \subseteq Unit, NEW I, I \subseteq Union(units), NEW t
    PROVE  /\ AllUnits(I, t) \subseteq units
           /\ \A u \in Unit : u \in AllUnits(I, t) <=> \E i \in I : i.start =< u /\ u < i.end
<1>1. ASSUME NEW i \in I
      PROVE  UnitsOf(i, t) = i.start .. i.end - 1 /\ i.start \in Int /\ i.end \in Int /\ UnitsOf(i, t) \subseteq units
  <2>1. i \in Union(units)
    OBVIOUS
  <2>2. UnitsOf(i, t) = i.start .. i.end - 1 /\ i.start \in Time /\ i.end \in Time
    BY <2>1, UnionFields DEF UnitsOf, EndOf
  <2>3. \A u \in i.start .. i.end - 1 : u \in Unit /\ u < i.end
    BY <2>2, HistoryAssumption DEF Time, Unit
  <2>4. \A u \in i.start .. i.end - 1 : u \in units
    BY <2>1, <2>2, <2>3, UnionFields
  <2> QED
    BY <2>2, <2>4 DEF Time
<1>2. AllUnits(I, t) \subseteq units
  BY <1>1 DEF AllUnits
<1>3. ASSUME NEW u \in Unit
      PROVE  u \in AllUnits(I, t) <=> \E i \in I : i.start =< u /\ u < i.end
  <2>1. u \in Int
    BY DEF Unit
  <2>2. u \in AllUnits(I, t) <=> \E i \in I : u \in i.start .. i.end - 1
    BY <1>1 DEF AllUnits
  <2>3. \A i \in I : u \in i.start .. i.end - 1 <=> i.start =< u /\ u < i.end
    BY <1>1, <2>1
  <2> QED
    BY <2>2, <2>3
<1> QED
  BY <1>2, <1>3

-----------------------------------------------------------------------------
(* The caps.                                                               *)

LEMMA EpisodeFields ==
    ASSUME NEW e \in Episode
    PROVE  /\ e.start \in Time /\ e.start \in Nat
           /\ e.end \in Time \cup {None} /\ e.end \in Int
           /\ e.end # None => e.end \in Time
           /\ e.known \in BOOLEAN /\ e.air \in BOOLEAN
BY HistoryAssumption DEF Episode, Time, None

\* Episodes that end at different instants are finitely many.
LEMMA DistinctIsFinite ==
    ASSUME NEW S, S \subseteq Episode, \A e \in S : e.end # None,
           \A e, f \in S : e.end = f.end => e = f
    PROVE  IsFiniteSet(S)
<1> DEFINE h == [e \in S |-> e.end]
<1>1. h \in [S -> Time]
  BY EpisodeFields
<1>2. \A e, f \in S : h[e] = h[f] => e = f
  OBVIOUS
<1>3. h \in Injection(S, Time)
  BY <1>1, <1>2 DEF Injection, IsInjective
<1>4. IsFiniteSet(Time)
  BY FS_Interval, HistoryAssumption DEF Time
<1> QED
  BY <1>3, <1>4, FS_Injection

\* All but the newest: what is kept of a set that Before orders is within the cap.
LEMMA KeptIsCapped ==
    ASSUME NEW S, S \subseteq Episode, \A e \in S : e.end # None,
           \A e, f \in S : e.end = f.end => e = f
    PROVE  /\ IsFiniteSet(S \ Excess(S))
           /\ Cardinality(S \ Excess(S)) =< MAX_HISTORY_EPISODES
<1> DEFINE K == S \ Excess(S)
           later(x) == {y \in S : Before(x, y)}
<1>1. IsFiniteSet(S)
  BY DistinctIsFinite
<1>2. IsFiniteSet(K) /\ Cardinality(K) \in Nat
  BY <1>1, FS_Subset, FS_CardinalityType
<1>3. MAX_HISTORY_EPISODES \in Nat \ {0}
  BY HistoryAssumption
<1>4. CASE K = {}
  BY <1>2, <1>3, <1>4, FS_EmptySet
<1>5. CASE K # {}
  <2> DEFINE Starts == {e.start : e \in K}
  <2>1. Starts \subseteq Nat /\ Starts # {}
    BY <1>5, EpisodeFields
  <2> HIDE DEF Starts
  <2>2. PICK s \in Starts : \A r \in Starts : s =< r
    BY <2>1, Least
  <2> DEFINE Ends == {e.end : e \in {f \in K : f.start = s}}
  <2>3. Ends \subseteq Nat /\ Ends # {}
    <3>1. \A e \in K : e \in Episode /\ e.end # None
      OBVIOUS
    <3>2. \A e \in K : e.end \in Nat
      BY <3>1, EpisodeFields DEF Time
    <3>3. \E e \in K : e.start = s
      BY <2>2 DEF Starts
    <3> QED
      BY <3>2, <3>3
  <2> HIDE DEF Ends
  <2>4. PICK n \in Ends : \A r \in Ends : n =< r
    BY <2>3, Least
  <2>5. PICK x \in K : x.start = s /\ x.end = n
    BY <2>4 DEF Ends
  <2>6. \A y \in K \ {x} : Before(x, y)
    <3> TAKE y \in K \ {x}
    <3>1. x \in Episode /\ y \in Episode /\ x.end # y.end
      OBVIOUS
    <3>2. x.start \in Int /\ y.start \in Int /\ x.end \in Int /\ y.end \in Int
      BY <3>1, EpisodeFields
    <3>3. x.start =< y.start
      BY <2>2, <2>5 DEF Starts
    <3>4. y.start = x.start => x.end =< y.end
      BY <2>4, <2>5 DEF Ends
    <3> QED
      BY <3>1, <3>2, <3>3, <3>4 DEF Before
  <2>7. K \ {x} \subseteq later(x)
    BY <2>6
  <2>8. IsFiniteSet(later(x)) /\ Cardinality(later(x)) \in Nat
    BY <1>1, FS_Subset, FS_CardinalityType
  <2>9. Cardinality(K \ {x}) =< Cardinality(later(x))
    BY <2>7, <2>8, FS_Subset
  <2>10. Cardinality(later(x)) < MAX_HISTORY_EPISODES
    <3>1. ~(Cardinality(later(x)) >= MAX_HISTORY_EPISODES)
      BY DEF Excess
    <3> QED
      BY <1>3, <2>8, <3>1
  <2>11. Cardinality(K \ {x}) = Cardinality(K) - 1
    BY <1>2, FS_RemoveElement
  <2> QED
    BY <1>2, <1>3, <2>8, <2>9, <2>10, <2>11
<1> QED
  BY <1>2, <1>4, <1>5

LEMMA TodayIsTime ==
    ASSUME NEW t \in Time PROVE Today(t) \in Time
BY HistoryAssumption DEF Today, Time

\* What is retained afterwards begins after all that was dropped, and not earlier.
LEMMA RetainedAfter ==
    ASSUME NEW j \in Journal, NEW t \in Time, NEW dropped,
           \A x \in dropped : x.end \in Time
    PROVE  LET k == RetainedFrom(j, t - MAX_HISTORY_DAYS, dropped)
           IN  /\ k \in Time \cup {None}
               /\ j.retained =< k
               /\ \A x \in dropped : x.end =< k
<1>1. j.retained \in Time \cup {None} /\ j.retained \in Int
  BY HistoryAssumption DEF Journal, Time, None
<1>2. CASE dropped = {}
  BY <1>1, <1>2 DEF RetainedFrom
<1>3. CASE dropped # {}
  <2> DEFINE c == IF j.retained = None THEN t - MAX_HISTORY_DAYS ELSE j.retained
             S == {x.end : x \in dropped} \cup {c}
  <2>1. c \in Int /\ c =< MaxTime /\ MaxTime \in Int
    BY <1>1, HistoryAssumption DEF Time, None
  <2>2. \A x \in dropped : x.end \in 0 .. MaxTime
    BY DEF Time
  <2>3. S \subseteq Int /\ S # {} /\ \A y \in S : y =< MaxTime
    BY <2>1, <2>2
  <2>4. MaxOf(S) \in S /\ \A y \in S : y =< MaxOf(S)
    BY <2>1, <2>3, GreatestBelow
  <2>5. RetainedFrom(j, t - MAX_HISTORY_DAYS, dropped) = MaxOf(S)
    BY <1>3 DEF RetainedFrom
  <2>6. \A x \in dropped : x.end =< MaxOf(S)
    BY <2>4
  <2>7. MaxOf(S) \in Int /\ MaxOf(S) =< MaxTime
    BY <2>3, <2>4
  <2>8. MaxOf(S) >= 0
    BY <1>3, <2>2, <2>6, <2>7
  <2>9. MaxOf(S) \in Time
    BY <2>7, <2>8, HistoryAssumption DEF Time
  <2>10. j.retained =< MaxOf(S)
    <3>1. c =< MaxOf(S)
      BY <2>4
    <3> QED
      BY <1>1, <2>7, <2>8, <3>1 DEF None
  <2> QED
    BY <2>5, <2>6, <2>9, <2>10
<1> QED
  BY <1>2, <1>3

-----------------------------------------------------------------------------
(* What is told, and what pruning leaves of it.                            *)

LEMMA UnitsOfAll ==
    ASSUME NEW E, NEW t, NEW u
    PROVE  u \in AllUnits(E, t) <=> \E e \in E : u \in UnitsOf(e, t)
BY Zenon DEF AllUnits

LEMMA ToldBy ==
    ASSUME NEW t \in Time, NEW j, Formed(j, t), NEW u \in Unit
    PROVE  u \in Told(j, t) <=> \/ \E e \in j.completed : e.start =< u /\ u < e.end
                                \/ \E e \in j.active : e.start =< u /\ u < t
                                \/ u \in j.spans
<1>1. u \in Int /\ t \in Int
  BY HistoryAssumption DEF Unit, Time
<1>2. ASSUME NEW e \in j.completed
      PROVE  u \in UnitsOf(e, t) <=> e.start =< u /\ u < e.end
  <2>1. e \in Episode /\ e.end # None
    BY DEF Formed, Journal
  <2>2. e.start \in Int /\ e.end \in Int
    BY <2>1, EpisodeFields
  <2> QED
    BY <1>1, <2>1, <2>2 DEF UnitsOf, EndOf
<1>3. ASSUME NEW e \in j.active
      PROVE  u \in UnitsOf(e, t) <=> e.start =< u /\ u < t
  <2>1. e \in Episode /\ e.end = None
    BY DEF Formed, Journal
  <2>2. e.start \in Int
    BY <2>1, EpisodeFields
  <2> QED
    BY <1>1, <2>1, <2>2 DEF UnitsOf, EndOf
<1>4. u \in Told(j, t) <=> \/ \E e \in j.completed : u \in UnitsOf(e, t)
                           \/ \E e \in j.active : u \in UnitsOf(e, t)
                           \/ u \in j.spans
  <2>1. u \in AllUnits(Episodes(j), t) <=> \E e \in Episodes(j) : u \in UnitsOf(e, t)
    BY UnitsOfAll
  <2> QED
    BY <2>1 DEF Told, Episodes
<1> QED
  BY <1>2, <1>3, <1>4

\* Pruning takes away what is older than the retention, or than what is retained
\* from then on, and adds nothing.
LEMMA PrunedFacts ==
    ASSUME NEW t \in Time, NEW j, Formed(j, t), NEW daily \in BOOLEAN
    PROVE  LET k == Pruned(j, t, daily)
           IN  /\ Formed(k, t)
               /\ Cardinality(k.completed) =< MAX_HISTORY_EPISODES
               /\ k.completed \subseteq j.completed /\ k.active = j.active
               /\ k.spans \subseteq j.spans
               /\ j.retained =< k.retained
               /\ \A e \in j.completed \ k.completed :
                     e.end < t - MAX_HISTORY_DAYS \/ e.end =< k.retained
               /\ \A u \in j.spans \ k.spans :
                     u < t - MAX_HISTORY_DAYS \/ u < k.retained
<1> DEFINE cutoff   == t - MAX_HISTORY_DAYS
           recent   == {ep \in j.completed : daily => ep.end >= cutoff}
           dropped  == Excess(recent)
           official == {i \in Union(j.spans) : i.end >= cutoff}
           cut      == Excess(official)
           gone     == dropped \cup (IF daily THEN cut ELSE {})
           kept     == IF daily THEN AllUnits(official \ cut, t) ELSE j.spans
           k        == Pruned(j, t, daily)
<1>1. /\ j \in Journal /\ j.completed \subseteq Episode /\ j.active \subseteq Episode
      /\ j.spans \subseteq Unit /\ t \in Int /\ MAX_HISTORY_DAYS \in Int /\ cutoff \in Int
  BY HistoryAssumption DEF Formed, Journal, Time
<1>2. /\ recent \subseteq j.completed /\ dropped \subseteq recent
      /\ official \subseteq Union(j.spans) /\ cut \subseteq official
  BY DEF Excess
<1>3. \A x \in gone : x.end \in Time
  <2>1. \A x \in j.completed : x.end \in Time
    BY <1>1, EpisodeFields DEF Formed
  <2>2. \A x \in Union(j.spans) : x.end \in Time
    BY <1>1, UnionFields
  <2> QED
    BY <1>2, <2>1, <2>2
<1>4. /\ k = [j EXCEPT !.completed = recent \ dropped, !.spans = kept,
                       !.retained = RetainedFrom(j, cutoff, gone), !.prunedOn = Today(t)]
  BY DEF Pruned
<1> HIDE DEF gone, kept, k, dropped, cut
<1>5. /\ k.completed = recent \ dropped /\ k.active = j.active /\ k.spans = kept
      /\ k.retained = RetainedFrom(j, cutoff, gone) /\ k.prunedOn = Today(t)
  BY <1>1, <1>4 DEF Journal
<1>6. /\ k.retained \in Time \cup {None} /\ j.retained =< k.retained
      /\ \A x \in gone : x.end =< k.retained
  BY <1>1, <1>3, <1>5, RetainedAfter
<1>7. kept \subseteq j.spans
  <2>1. AllUnits(official \ cut, t) \subseteq j.spans
    BY <1>1, <1>2, UnitsOfSome
  <2> QED
    BY <2>1 DEF kept
<1>8. k \in Journal
  <2>1. Today(t) \in Time
    BY TodayIsTime
  <2>2. recent \ dropped \subseteq Episode /\ kept \subseteq Unit
    BY <1>1, <1>2, <1>7
  <2> HIDE DEF recent
  <2> QED
    BY <1>1, <1>4, <1>5, <1>6, <2>1, <2>2 DEF Journal
<1>9. Formed(k, t)
  BY <1>2, <1>5, <1>7, <1>8 DEF Formed
<1>10. Cardinality(k.completed) =< MAX_HISTORY_EPISODES
  <2>1. recent \subseteq Episode /\ (\A e \in recent : e.end # None)
        /\ \A e, f \in recent : e.end = f.end => e = f
    BY <1>1, <1>2 DEF Formed
  <2> HIDE DEF recent
  <2> QED
    BY <1>5, <2>1, KeptIsCapped DEF dropped
<1>11. ASSUME NEW e \in j.completed \ k.completed
       PROVE  e.end < cutoff \/ e.end =< k.retained
  <2>1. e.end \in Int
    BY <1>1, EpisodeFields
  <2>2. CASE e \in recent
    <3>1. e \in gone
      BY <1>5, <2>2 DEF gone
    <3> QED
      BY <1>6, <3>1
  <2>3. CASE e \notin recent
    BY <1>1, <2>1, <2>3
  <2> QED
    BY <2>2, <2>3
<1>12. ASSUME NEW u \in j.spans \ k.spans
       PROVE  u < cutoff \/ u < k.retained
  <2>1. daily /\ u \notin AllUnits(official \ cut, t)
    BY <1>5 DEF kept
  <2>2. u \in Unit /\ u \in Int
    BY <1>1 DEF Unit
  <2>3. PICK i \in Union(j.spans) : i.start =< u /\ u < i.end
    BY <1>1, UnionCovers
  <2>4. i.end \in Int
    BY <1>1, UnionFields DEF Time
  <2>5. i \notin official \ cut
    BY <1>1, <1>2, <2>1, <2>2, <2>3, UnitsOfSome
  <2>6. CASE i \notin official
    <3>1. i.end < cutoff
      BY <1>1, <2>4, <2>6
    <3> QED
      BY <1>1, <2>2, <2>3, <2>4, <3>1
  <2>7. CASE i \in cut
    <3>1. i \in gone
      BY <2>1, <2>7 DEF gone
    <3>2. i.end =< k.retained
      BY <1>6, <3>1
    <3>3. k.retained \in Int
      BY <1>6, HistoryAssumption DEF Time, None
    <3> QED
      BY <2>2, <2>3, <2>4, <3>2, <3>3
  <2> QED
    BY <2>5, <2>6, <2>7
<1> QED
  BY <1>2, <1>5, <1>6, <1>7, <1>9, <1>10, <1>11, <1>12 DEF k

LEMMA PruneTells ==
    ASSUME NEW t \in Time, NEW j, Formed(j, t), NEW daily \in BOOLEAN, NEW K, Tells(j, t, K)
    PROVE  Tells(Pruned(j, t, daily), t, K)
<1> DEFINE k == Pruned(j, t, daily)
<1>1. /\ Formed(k, t) /\ k.completed \subseteq j.completed /\ k.active = j.active
      /\ k.spans \subseteq j.spans /\ j.retained =< k.retained
      /\ \A e \in j.completed \ k.completed :
            e.end < t - MAX_HISTORY_DAYS \/ e.end =< k.retained
      /\ \A u \in j.spans \ k.spans : u < t - MAX_HISTORY_DAYS \/ u < k.retained
  BY PrunedFacts
<1> HIDE DEF k
<1>2. /\ k.retained \in Int /\ j.retained \in Int /\ t - MAX_HISTORY_DAYS \in Int
  BY <1>1, HistoryAssumption DEF Formed, Journal, Time, None
<1>3. ASSUME NEW u \in Unit, k.retained =< u, t - MAX_HISTORY_DAYS =< u, u < t
      PROVE  u \in Told(k, t) <=> u \in K
  <2>1. u \in Int
    BY DEF Unit
  <2>2. j.retained =< u
    BY <1>1, <1>2, <1>3, <2>1
  <2>3. u \in Told(j, t) <=> u \in K
    BY <1>3, <2>2 DEF Tells
  <2>4. u \in Told(k, t) => u \in Told(j, t)
    BY <1>1, ToldBy
  <2>5. u \in Told(j, t) => u \in Told(k, t)
    <3>1. ASSUME NEW e \in j.completed, e.start =< u, u < e.end PROVE e \in k.completed
      <4>1. e.end \in Int
        BY EpisodeFields DEF Formed, Journal
      <4> QED
        BY <1>1, <1>2, <1>3, <2>1, <3>1, <4>1
    <3>2. u \in j.spans => u \in k.spans
      BY <1>1, <1>2, <1>3, <2>1
    <3> QED
      BY <1>1, <3>1, <3>2, ToldBy
  <2> QED
    BY <2>3, <2>4, <2>5
<1> QED
  BY <1>3 DEF Tells, k

-----------------------------------------------------------------------------
(* What is observed.                                                       *)

\* The units in which an alert is known to have been, after a unit of time.
Passed(j, t, K) == K \cup (IF j.active = {} THEN {} ELSE {t})

LEMMA PassTells ==
    ASSUME NEW t \in Time, t + 1 \in Time, NEW j, Formed(j, t), NEW K, K \subseteq 0 .. t - 1,
           Tells(j, t, K)
    PROVE  /\ Formed(j, t + 1)
           /\ Tells(j, t + 1, Passed(j, t, K))
           /\ Passed(j, t, K) \subseteq 0 .. (t + 1) - 1
<1>1. t \in Nat /\ MAX_HISTORY_DAYS \in Nat
  BY HistoryAssumption DEF Time
<1>2. /\ \A e \in j.completed : e.end # None /\ e.start \in Int /\ e.end \in Int /\ e.end =< t
      /\ \A e \in j.active : e.end = None /\ e.start \in Int /\ e.start =< t
      /\ j.spans \subseteq 0 .. t - 1
  BY EpisodeFields DEF Formed, Journal
<1>3. Formed(j, t + 1)
  BY <1>1, <1>2 DEF Formed
<1>4. ASSUME NEW u \in Unit, j.retained =< u, (t + 1) - MAX_HISTORY_DAYS =< u, u < t + 1
      PROVE  u \in Told(j, t + 1) <=> u \in Passed(j, t, K)
  <2>1. u \in Int
    BY DEF Unit
  <2>2. CASE u < t
    <3>1. u \in Told(j, t) <=> u \in K
      BY <1>1, <1>4, <2>1, <2>2 DEF Tells
    <3>2. u \in Told(j, t) <=> u \in Told(j, t + 1)
      BY <1>1, <1>2, <1>3, <2>1, <2>2, ToldBy
    <3> QED
      BY <2>1, <2>2, <3>1, <3>2, <1>1 DEF Passed
  <2>3. CASE u = t
    <3>1. u \notin K
      BY <1>1, <2>3
    <3>2. u \in Told(j, t + 1) <=> j.active # {}
      BY <1>1, <1>2, <1>3, <2>1, <2>3, ToldBy
    <3> QED
      BY <2>3, <3>1, <3>2 DEF Passed
  <2> QED
    BY <1>1, <1>4, <2>1, <2>2, <2>3
<1>5. Passed(j, t, K) \subseteq 0 .. (t + 1) - 1
  BY <1>1 DEF Passed
<1> QED
  BY <1>3, <1>4, <1>5 DEF Tells

\* An event opens an episode that has no unit yet, or closes the one under way where
\* it is: what is told stays.
LEMMA ObservedFacts ==
    ASSUME NEW t \in Time, t + 1 \in Time, NEW j, Formed(j, t),
           NEW alert \in BOOLEAN, NEW live \in BOOLEAN, NEW air \in BOOLEAN
    PROVE  LET k == Observed(j, t + 1, alert, live, air)
           IN  /\ Formed(k, t + 1)
               /\ j.completed \subseteq k.completed /\ k.retained = j.retained
               /\ \A u \in Unit : u \in Told(k, t + 1) <=> u \in Told(j, t + 1)
<1> DEFINE k == Observed(j, t + 1, alert, live, air)
<1>1. /\ j \in Journal /\ j.completed \subseteq Episode /\ j.active \subseteq Episode /\ t \in Nat
      /\ t + 1 # None
  BY HistoryAssumption DEF Formed, Journal, Time, None
<1>2. Formed(j, t + 1)
  <2>1. /\ \A e \in j.completed : e.end \in Int /\ e.end =< t
        /\ \A e \in j.active : e.start \in Int /\ e.start =< t
        /\ j.spans \subseteq 0 .. t - 1
    BY EpisodeFields DEF Formed, Journal
  <2> QED
    BY <1>1, <2>1 DEF Formed
<1>3. CASE alert
  <2> DEFINE A == IF j.active = {} THEN {Open(t + 1, live, air)}
                  ELSE {[ep EXCEPT !.air = @ /\ air] : ep \in j.active}
  <2>1. k = [j EXCEPT !.active = A]
    BY <1>3 DEF Observed
  <2>2. ASSUME NEW e \in A
        PROVE  /\ e \in Episode /\ e.end = None /\ e.start =< t + 1
               /\ e.start = t + 1 \/ \E f \in j.active : f.start = e.start
    <3>1. CASE j.active = {}
      <4>1. e = Open(t + 1, live, air)
        BY <3>1
      <4> QED
        BY <1>1, <4>1 DEF Open, Episode
    <3>2. CASE j.active # {}
      <4>1. PICK f \in j.active : e = [f EXCEPT !.air = @ /\ air]
        BY <3>2
      <4>2. f \in Episode /\ f.end = None /\ f.start =< t /\ f.start \in Int
        BY <1>1, EpisodeFields DEF Formed
      <4>3. (f.air /\ air) \in BOOLEAN
        BY Zenon
      <4>4. e.start = f.start /\ e.end = f.end /\ e \in Episode
        BY <4>1, <4>2, <4>3 DEF Episode
      <4> QED
        BY <1>1, <4>2, <4>4
    <3> QED
      BY <3>1, <3>2
  <2>3. \A e, f \in A : e = f
    BY DEF Formed
  <2>4. \A e \in j.active : \E f \in A : f.start = e.start
    <3> TAKE e \in j.active
    <3>1. [e EXCEPT !.air = @ /\ air] \in A
      OBVIOUS
    <3>2. [e EXCEPT !.air = @ /\ air].start = e.start
      BY <1>1 DEF Episode
    <3> QED
      BY <3>1, <3>2
  <2> HIDE DEF A, k
  <2>5. /\ k \in Journal /\ k.active = A /\ k.completed = j.completed /\ k.spans = j.spans
        /\ k.retained = j.retained
    BY <1>1, <2>1, <2>2 DEF Journal
  <2>6. Formed(k, t + 1)
    BY <1>2, <2>2, <2>3, <2>5 DEF Formed
  <2>7. ASSUME NEW u \in Unit
        PROVE  u \in Told(k, t + 1) <=> u \in Told(j, t + 1)
    <3>1. u \in Int
      BY DEF Unit
    <3>2. (\E e \in A : e.start =< u /\ u < t + 1) <=> \E e \in j.active : e.start =< u /\ u < t + 1
      BY <1>1, <2>2, <2>4, <3>1
    <3> QED
      BY <1>2, <2>5, <2>6, <3>2, ToldBy
  <2> QED
    BY <2>5, <2>6, <2>7 DEF k
<1>4. CASE ~alert
  <2> DEFINE C == {[ep EXCEPT !.end = t + 1] : ep \in j.active}
  <2>1. k = [j EXCEPT !.active = {}, !.completed = @ \cup C]
    BY <1>4 DEF Observed
  <2>2. ASSUME NEW e \in C
        PROVE  /\ e \in Episode /\ e.end = t + 1 /\ e.start =< t
               /\ \E f \in j.active : f.start = e.start
    <3>1. PICK f \in j.active : e = [f EXCEPT !.end = t + 1]
      OBVIOUS
    <3>2. f \in Episode /\ f.start =< t
      BY <1>1 DEF Formed
    <3>3. e.start = f.start /\ e.end = t + 1 /\ e \in Episode
      BY <3>1, <3>2 DEF Episode
    <3> QED
      BY <3>2, <3>3
  <2>3. \A e, f \in C : e = f
    BY DEF Formed
  <2>4. \A e \in j.active : \E f \in C : f.start = e.start
    <3> TAKE e \in j.active
    <3>1. [e EXCEPT !.end = t + 1].start = e.start
      BY <1>1 DEF Episode
    <3> QED
      BY <3>1
  <2> HIDE DEF C, k
  <2>5. /\ k \in Journal /\ k.active = {} /\ k.completed = j.completed \cup C
        /\ k.spans = j.spans /\ k.retained = j.retained
    BY <1>1, <2>1, <2>2 DEF Journal
  <2>6. \A e \in j.completed : e.end \in Int /\ e.end =< t
    BY <1>1, EpisodeFields DEF Formed
  <2>7. \A e \in C : e.end # None /\ e.start < e.end /\ e.end =< t + 1
    BY <1>1, <2>2, EpisodeFields
  <2>8. \A e, f \in k.completed : e.end = f.end => e = f
    <3>1. \A e \in j.completed : \A f \in C : e.end # f.end
      BY <1>1, <2>2, <2>6
    <3> QED
      BY <2>3, <2>5, <3>1 DEF Formed
  <2>9. Formed(k, t + 1)
    BY <1>2, <2>5, <2>7, <2>8 DEF Formed
  <2>10. ASSUME NEW u \in Unit
         PROVE  u \in Told(k, t + 1) <=> u \in Told(j, t + 1)
    <3>1. (\E e \in C : e.start =< u /\ u < e.end) <=> \E e \in j.active : e.start =< u /\ u < t + 1
      BY <2>2, <2>4
    <3> QED
      BY <1>2, <2>5, <2>9, <3>1, ToldBy
  <2> QED
    BY <2>5, <2>9, <2>10 DEF k
<1> QED
  BY <1>3, <1>4

-----------------------------------------------------------------------------
(* What is told officially.                                                *)

\* The units that an answer adds at time t.
Official(units, t) == AllUnits(Finished(units, t), t)

LEMMA FinishedFields ==
    ASSUME NEW t \in Time, NEW units, units \subseteq Unit, NEW i \in Finished(units, t)
    PROVE  /\ i \in Union(units)
           /\ i.start \in Time /\ i.start \in Int /\ i.end \in Time /\ i.end \in Int
           /\ i.end # None /\ i.start < i.end /\ i.end =< t
           /\ \A u \in Unit : i.start =< u /\ u < i.end => u \in Official(units, t)
<1>1. i \in Union(units) /\ i.end =< t
  BY DEF Finished
<1>2. /\ i.start \in Time /\ i.end \in Time /\ i.end # None /\ i.start < i.end
  BY <1>1, UnionFields
<1>3. Finished(units, t) \subseteq Union(units)
  BY DEF Finished
<1>4. \A u \in Unit : i.start =< u /\ u < i.end => u \in Official(units, t)
  BY <1>3, UnitsOfSome DEF Official
<1> QED
  BY <1>1, <1>2, <1>4 DEF Time

LEMMA OfficialIsPast ==
    ASSUME NEW t \in Time, NEW units, units \subseteq Unit
    PROVE  Official(units, t) \subseteq units \cap 0 .. t - 1
<1>1. Finished(units, t) \subseteq Union(units)
  BY DEF Finished
<1>2. Official(units, t) \subseteq units
  BY <1>1, UnitsOfSome DEF Official
<1>3. ASSUME NEW u \in Official(units, t) PROVE u \in 0 .. t - 1
  <2>1. u \in Unit
    BY <1>2
  <2>2. PICK i \in Finished(units, t) : i.start =< u /\ u < i.end
    BY <1>1, <2>1, UnitsOfSome DEF Official
  <2>3. i.end =< t /\ i.end \in Int
    BY FinishedFields
  <2> QED
    BY <2>1, <2>2, <2>3, HistoryAssumption DEF Unit, Time
<1> QED
  BY <1>2, <1>3

\* An episode keeps its end; its start may become an official one, if nobody saw it.
LEMMA RefinedFields ==
    ASSUME NEW t \in Time, NEW units, units \subseteq Unit, NEW e \in Episode,
           e.end # None => e.start < e.end
    PROVE  LET r == Refined(e, Finished(units, t), t)
           IN  /\ r \in Episode /\ r.end = e.end /\ r.start =< e.start
               /\ r.start = e.start \/ (~e.known /\ e.air /\ r.start < e.start)
               /\ \A u \in Unit : r.start =< u /\ u < e.start => u \in Official(units, t)
<1> DEFINE I  == Finished(units, t)
           by == {i \in I : Overlaps(i, e, t) /\ i.start < e.start}
           r  == Refined(e, I, t)
<1>1. e.start \in Int
  BY EpisodeFields
<1>2. CASE Refinable(e) /\ by # {}
  <2> DEFINE i == CHOOSE k \in by : TRUE
  <2>1. i \in by
    BY <1>2
  <2>2. r = [e EXCEPT !.start = i.start, !.known = TRUE]
    BY <1>2 DEF Refined
  <2> HIDE DEF i, r
  <2>3. i \in I /\ i.end > e.start /\ i.start < e.start
    BY <2>1 DEF Overlaps
  <2>4. /\ i.start \in Time /\ i.start \in Int /\ i.end \in Int
        /\ \A u \in Unit : i.start =< u /\ u < i.end => u \in Official(units, t)
    BY <2>3, FinishedFields
  <2>5. r \in Episode /\ r.end = e.end /\ r.start = i.start
    BY <2>2, <2>4 DEF Episode
  <2>6. \A u \in Unit : r.start =< u /\ u < e.start => u \in Official(units, t)
    BY <1>1, <2>3, <2>4, <2>5 DEF Unit
  <2>7. ~e.known /\ e.air
    BY <1>2 DEF Refinable
  <2> QED
    BY <1>1, <2>3, <2>4, <2>5, <2>6, <2>7 DEF r
<1>3. CASE ~(Refinable(e) /\ by # {})
  <2>1. r = e
    BY <1>3 DEF Refined
  <2> HIDE DEF r
  <2>2. \A u \in Unit : ~(e.start =< u /\ u < e.start)
    BY <1>1 DEF Unit
  <2> QED
    BY <1>1, <2>1, <2>2 DEF r
<1> QED
  BY <1>2, <1>3

LEMMA AddedFields ==
    ASSUME NEW t \in Time, NEW units, units \subseteq Unit, NEW j,
           NEW a \in Added(j, Finished(units, t), t)
    PROVE  /\ a \in Episode /\ a.end # None /\ a.start < a.end /\ a.end =< t
           /\ \E i \in Finished(units, t) :
                 /\ i.start = a.start /\ i.end = a.end /\ Unobserved(j, i, t)
                 /\ a = [start |-> i.start, end |-> i.end, known |-> TRUE, air |-> TRUE]
<1>1. PICK i \in Finished(units, t) :
        /\ Unobserved(j, i, t)
        /\ a = [start |-> i.start, end |-> i.end, known |-> TRUE, air |-> TRUE]
  BY DEF Added
<1>2. i.start \in Time /\ i.end \in Time /\ i.end # None /\ i.start < i.end /\ i.end =< t
  BY FinishedFields
<1> QED
  BY <1>1, <1>2 DEF Episode

\* Joining adds the units of the answer and no others.
LEMMA JoinedFacts ==
    ASSUME NEW t \in Time, NEW j, Formed(j, t), NEW units, units \subseteq Unit
    PROVE  LET I == Finished(units, t)
               k == Joined(j, I, t)
           IN  /\ Formed(k, t) /\ k.retained = j.retained
               /\ \A e \in j.completed : Refined(e, I, t) \in k.completed
               /\ \A e \in j.active : Refined(e, I, t) \in k.active
               /\ Added(j, I, t) \subseteq k.completed
               /\ k.completed = {Refined(e, I, t) : e \in j.completed} \cup Added(j, I, t)
               /\ \A u \in Unit : u \in Told(k, t) <=> u \in Told(j, t) \/ u \in Official(units, t)
<1> DEFINE I == Finished(units, t)
           R == {Refined(e, I, t) : e \in j.completed}
           A == {Refined(e, I, t) : e \in j.active}
           N == Added(j, I, t)
           k == Joined(j, I, t)
<1>1. /\ j \in Journal /\ j.completed \subseteq Episode /\ j.active \subseteq Episode
      /\ j.spans \subseteq Unit /\ t \in Int
  BY DEF Formed, Journal, Time
<1>2. k = [j EXCEPT !.completed = R \cup N, !.active = A, !.spans = @ \cup Official(units, t)]
  BY <1>1 DEF Joined, Official, Journal
<1>3. ASSUME NEW e \in j.completed
      PROVE  LET r == Refined(e, I, t)
             IN  /\ r \in Episode /\ r.end = e.end /\ r.start =< e.start
                 /\ r.end # None /\ r.start < r.end /\ r.end =< t
                 /\ r.start \in Int /\ e.start \in Int /\ e.end \in Int /\ e.start < e.end
                 /\ \A u \in Unit : r.start =< u /\ u < e.start => u \in Official(units, t)
  <2>1. e \in Episode /\ e.end # None /\ e.start < e.end /\ e.end =< t
    BY <1>1 DEF Formed
  <2>2. LET r == Refined(e, I, t)
        IN  /\ r \in Episode /\ r.end = e.end /\ r.start =< e.start
            /\ \A u \in Unit : r.start =< u /\ u < e.start => u \in Official(units, t)
    BY <2>1, RefinedFields
  <2> QED
    BY <2>1, <2>2, EpisodeFields
<1>4. ASSUME NEW e \in j.active
      PROVE  LET r == Refined(e, I, t)
             IN  /\ r \in Episode /\ r.end = None /\ r.start =< e.start /\ r.start =< t
                 /\ r.start \in Int /\ e.start \in Int
                 /\ \A u \in Unit : r.start =< u /\ u < e.start => u \in Official(units, t)
  <2>1. e \in Episode /\ e.end = None /\ e.start =< t
    BY <1>1 DEF Formed
  <2>2. LET r == Refined(e, I, t)
        IN  /\ r \in Episode /\ r.end = e.end /\ r.start =< e.start
            /\ \A u \in Unit : r.start =< u /\ u < e.start => u \in Official(units, t)
    BY <2>1, RefinedFields
  <2> QED
    BY <1>1, <2>1, <2>2, EpisodeFields
<1>5. ASSUME NEW a \in N
      PROVE  /\ a \in Episode /\ a.end # None /\ a.start < a.end /\ a.end =< t
             /\ \E i \in I : /\ i.start = a.start /\ i.end = a.end /\ Unobserved(j, i, t)
                            /\ a = [start |-> i.start, end |-> i.end, known |-> TRUE, air |-> TRUE]
  BY AddedFields
<1>6. Official(units, t) \subseteq Unit /\ Official(units, t) \subseteq 0 .. t - 1
  BY OfficialIsPast
<1>7. R \subseteq Episode /\ A \subseteq Episode /\ N \subseteq Episode
  BY <1>3, <1>4, <1>5
<1> HIDE DEF k, N
<1>8. /\ k \in Journal /\ k.completed = R \cup N /\ k.active = A
      /\ k.spans = j.spans \cup Official(units, t) /\ k.retained = j.retained
  <2> HIDE DEF R, A
  <2> QED
    BY <1>1, <1>2, <1>6, <1>7 DEF Journal
<1>9. \A e, f \in R \cup N : e.end = f.end => e = f
  <2>1. ASSUME NEW e \in R, NEW f \in R, e.end = f.end PROVE e = f
    BY <1>3, <2>1 DEF Formed
  <2>2. ASSUME NEW e \in N, NEW f \in N, e.end = f.end PROVE e = f
    <3>1. PICK i \in I : /\ i.end = e.end
                        /\ e = [start |-> i.start, end |-> i.end, known |-> TRUE, air |-> TRUE]
      BY <1>5
    <3>2. PICK l \in I : /\ l.end = f.end
                        /\ f = [start |-> l.start, end |-> l.end, known |-> TRUE, air |-> TRUE]
      BY <1>5
    <3>3. i = l
      BY <2>2, <3>1, <3>2, FinishedFields, UnionEnds
    <3> QED
      BY <3>1, <3>2, <3>3
  <2>3. ASSUME NEW e \in R, NEW f \in N PROVE e.end # f.end
    <3> SUFFICES ASSUME e.end = f.end PROVE FALSE
      OBVIOUS
    <3>1. PICK p \in j.completed : e = Refined(p, I, t)
      OBVIOUS
    <3>2. p.end = e.end /\ p.start < p.end /\ p.start \in Int /\ p.end \in Int /\ p.end # None
      BY <1>3, <3>1 DEF Formed
    <3>3. PICK i \in I : i.end = f.end /\ Unobserved(j, i, t)
      BY <1>5
    <3>4. i.start \in Int /\ i.end \in Int /\ i.start < i.end
      BY FinishedFields
    <3>5. ~Overlaps(i, p, t)
      BY <3>3 DEF Unobserved, Episodes
    <3> QED
      BY <3>2, <3>3, <3>4, <3>5 DEF Overlaps, EndOf
  <2> QED
    BY <2>1, <2>2, <2>3
<1>10. \A e, f \in A : e = f
  BY DEF Formed
<1>11. Formed(k, t)
  <2>1. \A e \in R \cup N : e.end # None /\ e.start < e.end /\ e.end =< t
    BY <1>3, <1>5
  <2>2. \A e \in A : e.end = None /\ e.start =< t
    BY <1>4
  <2>3. k.spans \subseteq 0 .. t - 1
    BY <1>6, <1>8 DEF Formed
  <2> HIDE DEF R, A
  <2> QED
    BY <1>8, <1>9, <1>10, <2>1, <2>2, <2>3 DEF Formed
<1>12. ASSUME NEW u \in Unit
       PROVE  u \in Told(k, t) <=> u \in Told(j, t) \/ u \in Official(units, t)
  <2>1. u \in Int
    BY DEF Unit
  <2>2. ASSUME NEW e \in j.completed
        PROVE  LET r == Refined(e, I, t)
               IN  /\ e.start =< u /\ u < e.end => r.start =< u /\ u < r.end
                   /\ r.start =< u /\ u < r.end => (e.start =< u /\ u < e.end) \/ u \in Official(units, t)
    BY <1>3, <2>1
  <2>3. ASSUME NEW e \in j.active
        PROVE  LET r == Refined(e, I, t)
               IN  /\ e.start =< u /\ u < t => r.start =< u /\ u < t
                   /\ r.start =< u /\ u < t => (e.start =< u /\ u < t) \/ u \in Official(units, t)
    BY <1>4, <2>1
  <2>4. ASSUME NEW a \in N, a.start =< u, u < a.end PROVE u \in Official(units, t)
    BY <1>5, <2>4, FinishedFields
  <2>5. u \in Told(j, t) \/ u \in Official(units, t) => u \in Told(k, t)
    BY <1>8, <1>11, <2>2, <2>3, ToldBy
  <2>6. ASSUME u \in Told(k, t) PROVE u \in Told(j, t) \/ u \in Official(units, t)
    <3>1. CASE \E e \in R : e.start =< u /\ u < e.end
      BY <2>2, <3>1, ToldBy
    <3>2. CASE \E e \in N : e.start =< u /\ u < e.end
      BY <2>4, <3>2
    <3>3. CASE \E e \in A : e.start =< u /\ u < t
      BY <2>3, <3>3, ToldBy
    <3>4. CASE u \in j.spans \cup Official(units, t)
      BY <3>4, ToldBy
    <3> QED
      BY <1>8, <1>11, <2>6, <3>1, <3>2, <3>3, <3>4, ToldBy
  <2> QED
    BY <2>5, <2>6
<1>13. R \subseteq k.completed /\ A \subseteq k.active /\ N \subseteq k.completed
  BY <1>8
<1> QED
  BY <1>8, <1>11, <1>12, <1>13 DEF k, N

LEMMA RefinedAreAsMany ==
    ASSUME NEW t \in Time, NEW j, Formed(j, t), NEW I
    PROVE  LET R == {Refined(e, I, t) : e \in j.completed}
           IN  Cardinality(R) =< Cardinality(j.completed)
<1> DEFINE R == {Refined(e, I, t) : e \in j.completed}
           h == [e \in j.completed |-> Refined(e, I, t)]
<1>1. IsFiniteSet(j.completed)
  BY DistinctIsFinite DEF Formed, Journal
<1>2. h \in [j.completed -> R] /\ \A r \in R : \E e \in j.completed : h[e] = r
  OBVIOUS
<1>3. h \in Surjection(j.completed, R)
  BY <1>2 DEF Surjection
<1> QED
  BY <1>1, <1>3, FS_Surjection

LEMMA MergedFacts ==
    ASSUME NEW t \in Time, NEW j, Formed(j, t),
           Cardinality(j.completed) =< MAX_HISTORY_EPISODES,
           NEW units, units \subseteq Unit, NEW K, Tells(j, t, K)
    PROVE  LET k == Merged(j, units, t)
           IN  /\ Formed(k, t)
               /\ Cardinality(k.completed) =< MAX_HISTORY_EPISODES
               /\ Tells(k, t, K \cup Official(units, t))
<1> DEFINE I == Finished(units, t)
           joined == Joined(j, I, t)
           k == Merged(j, units, t)
<1>1. /\ Formed(joined, t) /\ joined.retained = j.retained
      /\ joined.completed = {Refined(e, I, t) : e \in j.completed} \cup Added(j, I, t)
      /\ \A u \in Unit : u \in Told(joined, t) <=> u \in Told(j, t) \/ u \in Official(units, t)
  BY JoinedFacts
<1>2. k = IF Added(j, I, t) = {} THEN joined ELSE Prune(joined, t)
  BY DEF Merged
<1> HIDE DEF joined, k
<1>3. Tells(joined, t, K \cup Official(units, t))
  BY <1>1 DEF Tells
<1>4. CASE Added(j, I, t) = {}
  <2>1. Cardinality({Refined(e, I, t) : e \in j.completed}) =< Cardinality(j.completed)
    BY RefinedAreAsMany
  <2>2. joined.completed = {Refined(e, I, t) : e \in j.completed}
    BY <1>1, <1>4
  <2>3. Cardinality(joined.completed) \in Nat /\ Cardinality(j.completed) \in Nat
    BY <1>1, DistinctIsFinite, FS_CardinalityType DEF Formed, Journal
  <2>4. Cardinality(joined.completed) =< MAX_HISTORY_EPISODES
    BY <2>1, <2>2, <2>3, HistoryAssumption
  <2> QED
    BY <1>1, <1>2, <1>3, <1>4, <2>4 DEF k
<1>5. CASE Added(j, I, t) # {}
  <2>1. k = Pruned(joined, t, joined.prunedOn # Today(t))
    BY <1>2, <1>5 DEF Prune
  <2>2. Formed(k, t) /\ Cardinality(k.completed) =< MAX_HISTORY_EPISODES
    BY <1>1, <2>1, PrunedFacts
  <2>3. Tells(k, t, K \cup Official(units, t))
    BY <1>1, <1>3, <2>1, PruneTells
  <2> QED
    BY <2>2, <2>3 DEF k
<1> QED
  BY <1>4, <1>5

-----------------------------------------------------------------------------
(* The inductive invariant.                                                *)

LEMMA InitIsInv == Init => Inv
<1> SUFFICES ASSUME Init PROVE Inv
  OBVIOUS
<1>1. now = 0 /\ now \in Time /\ known = {}
  BY HistoryAssumption DEF Init, Time
<1>2. /\ journal \in Journal /\ journal.completed = {} /\ journal.active = {}
      /\ journal.spans = {}
  BY DEF Init, Journal
<1>3. Formed(journal, now)
  BY <1>2 DEF Formed
<1>4. Cardinality(journal.completed) =< MAX_HISTORY_EPISODES
  BY <1>2, FS_EmptySet, HistoryAssumption
<1>5. Tells(journal, now, known)
  BY <1>1 DEF Tells, Unit
<1> QED
  BY <1>1, <1>3, <1>4, <1>5 DEF Inv

LEMMA PassStep ==
    ASSUME Inv, Pass
    PROVE  /\ now' = now + 1 /\ now' \in Time /\ now + 1 \in Time
           /\ known' = Passed(journal, now, known) /\ known' \subseteq 0 .. now' - 1
           /\ Formed(journal, now') /\ Tells(journal, now', known')
<1>1. now' = now + 1 /\ now + 1 \in Time
  BY HistoryAssumption DEF Inv, Pass, Time
<1>2. known' = Passed(journal, now, known)
  BY DEF Pass, Passed
<1> QED
  BY <1>1, <1>2, PassTells DEF Inv

LEMMA EventStep ==
    ASSUME Inv, NEW alert \in BOOLEAN, NEW live \in BOOLEAN, NEW air \in BOOLEAN,
           Event(alert, live, air)
    PROVE  Inv'
<1> DEFINE k == Observed(journal, now + 1, alert, live, air)
<1>1. /\ now' = now + 1 /\ now + 1 \in Time /\ known' \subseteq 0 .. now' - 1
      /\ Tells(journal, now + 1, known')
  BY PassStep DEF Event
<1>2. /\ Formed(k, now + 1) /\ k.retained = journal.retained
      /\ \A u \in Unit : u \in Told(k, now + 1) <=> u \in Told(journal, now + 1)
  BY <1>1, ObservedFacts DEF Inv
<1>3. journal' = Pruned(k, now + 1, k.prunedOn # Today(now + 1))
  BY <1>1 DEF Event, Prune
<1> HIDE DEF k
<1>4. Tells(k, now + 1, known')
  BY <1>1, <1>2 DEF Tells
<1>5. Formed(journal', now + 1) /\ Cardinality(journal'.completed) =< MAX_HISTORY_EPISODES
  BY <1>1, <1>2, <1>3, PrunedFacts
<1>6. Tells(journal', now + 1, known')
  BY <1>1, <1>2, <1>3, <1>4, PruneTells
<1> QED
  BY <1>1, <1>5, <1>6 DEF Inv

LEMMA PrunedStep ==
    ASSUME Inv, NEW daily \in BOOLEAN, journal' = Pruned(journal, now, daily),
           UNCHANGED <<now, known>>
    PROVE  Inv'
<1>1. Formed(journal', now) /\ Cardinality(journal'.completed) =< MAX_HISTORY_EPISODES
  BY PrunedFacts DEF Inv
<1>2. Tells(journal', now, known)
  BY PruneTells DEF Inv
<1> QED
  BY <1>1, <1>2 DEF Inv

LEMMA MergeStep ==
    ASSUME Inv, NEW units \in SUBSET Unit, MergeOfficial(units) PROVE Inv'
<1>1. /\ journal' = Merged(journal, units, now) /\ now' = now
      /\ known' = known \cup Official(units, now)
  BY DEF MergeOfficial, Official
<1>2. /\ Formed(journal', now) /\ Cardinality(journal'.completed) =< MAX_HISTORY_EPISODES
      /\ Tells(journal', now, known \cup Official(units, now))
  BY <1>1, MergedFacts DEF Inv
<1>3. known' \subseteq 0 .. now - 1
  BY <1>1, OfficialIsPast DEF Inv
<1> QED
  BY <1>1, <1>2, <1>3 DEF Inv

LEMMA StepIsInv == Inv /\ [Next]_vars => Inv'
<1> SUFFICES ASSUME Inv, [Next]_vars PROVE Inv'
  OBVIOUS
<1>1. CASE Tick
  <2>1. /\ now' \in Time /\ known' \subseteq 0 .. now' - 1 /\ journal' = journal
        /\ Formed(journal, now') /\ Tells(journal, now', known')
    BY <1>1, PassStep DEF Tick
  <2> QED
    BY <2>1 DEF Inv
<1>2. CASE Flush
  <2>1. (journal.prunedOn # Today(now)) \in BOOLEAN
    OBVIOUS
  <2> QED
    BY <1>2, <2>1, PrunedStep DEF Flush, Prune
<1>3. CASE Restart
  BY <1>3, PrunedStep DEF Restart
<1>4. ASSUME NEW alert \in BOOLEAN, NEW live \in BOOLEAN, NEW air \in BOOLEAN,
             Event(alert, live, air)
      PROVE  Inv'
  BY <1>4, EventStep
<1>5. ASSUME NEW units \in SUBSET Unit, MergeOfficial(units) PROVE Inv'
  BY <1>5, MergeStep
<1>6. CASE UNCHANGED vars
  BY <1>6 DEF vars, Inv
<1> QED
  BY <1>1, <1>2, <1>3, <1>4, <1>5, <1>6 DEF Next

-----------------------------------------------------------------------------
(* Theorems.                                                               *)

THEOREM Invariance == Spec => []Inv
BY InitIsInv, StepIsInv, PTL DEF Spec

\* No number of events, merges, flushes and restarts leaves more episodes than the cap,
\* two alerts under way, or an episode that ends before it begins or after now.
THEOREM TypeCorrect == Spec => []TypeOK
<1>1. Inv => TypeOK
  <2> SUFFICES ASSUME Inv PROVE TypeOK
    OBVIOUS
  <2>1. Cardinality(journal.active) =< 1
    <3>1. CASE journal.active = {}
      BY <3>1, FS_EmptySet
    <3>2. CASE journal.active # {}
      <4>1. PICK e \in journal.active : TRUE
        BY <3>2
      <4>2. journal.active = {e}
        BY <4>1 DEF Inv, Formed
      <4> QED
        BY <4>2, FS_Singleton
    <3> QED
      BY <3>1, <3>2
  <2>2. known \subseteq Unit
    <3>1. 0 .. now - 1 \subseteq Unit
      BY HistoryAssumption DEF Inv, Unit, Time
    <3> QED
      BY <3>1 DEF Inv
  <2> QED
    BY <2>1, <2>2 DEF Inv, Formed, TypeOK
<1> QED
  BY <1>1, Invariance, PTL

\* Within what it claims to retain the journal tells exactly of the alerts that were
\* observed or that the source told of, whatever was merged, refined, cut to the cap or
\* dropped for its age, in whatever order (merge_official, _prune).
THEOREM NothingIsLostOrMadeUp == Spec => []ToldIsKnown
<1>1. Inv => ToldIsKnown
  BY DEF Inv, Tells, ToldIsKnown, Kept
<1> QED
  BY <1>1, Invariance, PTL

\* A second merge of an answer finds an episode at each of its intervals
\* (merge_official: "a re-run ... never duplicates an episode").
LEMMA OverlapStays ==
    ASSUME NEW t \in Time, NEW e \in Episode, NEW r \in Episode, r.end = e.end,
           r.start =< e.start, NEW i, i.start \in Int, i.end \in Int, Overlaps(i, e, t)
    PROVE  Overlaps(i, r, t)
<1>1. e.start \in Int /\ r.start \in Int /\ EndOf(r, t) = EndOf(e, t)
  BY EpisodeFields DEF EndOf
<1> QED
  BY <1>1 DEF Overlaps

THEOREM RerunsAddNothing == Spec => []RerunAddsNothing
<1>1. Inv => RerunAddsNothing
  <2> SUFFICES ASSUME Inv, NEW units \in SUBSET (0 .. now - 1),
                      Merged(journal, units, now).completed
                         = Joined(journal, Finished(units, now), now).completed,
                      NEW i \in Finished(units, now),
                      Unobserved(Merged(journal, units, now), i, now)
               PROVE  FALSE
    BY DEF RerunAddsNothing, Added
  <2> DEFINE I == Finished(units, now)
             joined == Joined(journal, I, now)
             once == Merged(journal, units, now)
  <2>1. units \subseteq Unit /\ now \in Time /\ Formed(journal, now)
    BY HistoryAssumption DEF Inv, Unit, Time
  <2>2. i.start \in Int /\ i.end \in Int /\ i.start < i.end /\ i.end # None
    BY <2>1, FinishedFields
  <2>3. /\ Formed(joined, now)
        /\ \A e \in journal.completed : Refined(e, I, now) \in joined.completed
        /\ \A e \in journal.active : Refined(e, I, now) \in joined.active
        /\ Added(journal, I, now) \subseteq joined.completed
    BY <2>1, JoinedFacts
  <2>4. once.completed = joined.completed /\ once.active = joined.active
    <3>1. CASE Added(journal, I, now) = {}
      BY <3>1 DEF Merged
    <3>2. CASE Added(journal, I, now) # {}
      <4>1. once = Pruned(joined, now, joined.prunedOn # Today(now))
        BY <3>2 DEF Merged, Prune
      <4> HIDE DEF joined, once
      <4>2. once.active = joined.active
        BY <2>1, <2>3, <4>1, PrunedFacts
      <4> QED
        BY <4>2 DEF joined, once
    <3> QED
      BY <3>1, <3>2
  <2>5. \A e \in joined.completed \cup joined.active : ~Overlaps(i, e, now)
    BY <2>4 DEF Unobserved, Episodes
  <2>6. CASE Unobserved(journal, i, now)
    <3> DEFINE a == [start |-> i.start, end |-> i.end, known |-> TRUE, air |-> TRUE]
    <3>1. a \in Added(journal, I, now)
      BY <2>6 DEF Added
    <3>2. Overlaps(i, a, now)
      BY <2>2 DEF Overlaps, EndOf
    <3> HIDE DEF a, joined
    <3> QED
      BY <2>3, <2>5, <3>1, <3>2
  <2>7. CASE ~Unobserved(journal, i, now)
    <3>1. PICK e \in Episodes(journal) : Overlaps(i, e, now)
      BY <2>7 DEF Unobserved
    <3> DEFINE r == Refined(e, I, now)
    <3>2. e \in Episode /\ (e.end # None => e.start < e.end)
      BY <2>1 DEF Formed, Journal, Episodes
    <3>3. r \in Episode /\ r.end = e.end /\ r.start =< e.start
      BY <2>1, <3>2, RefinedFields
    <3>4. r \in joined.completed \cup joined.active
      BY <2>3 DEF Episodes
    <3> HIDE DEF r, joined
    <3>5. Overlaps(i, r, now)
      BY <2>1, <2>2, <3>1, <3>2, <3>3, OverlapStays
    <3> QED
      BY <2>5, <3>4, <3>5
  <2> QED
    BY <2>6, <2>7
<1> QED
  BY <1>1, Invariance, PTL

\* Of a finished episode only an unseen start of an air alert ever changes, and only to
\* an earlier official one; it goes only by its age or by the cap, which is told.
THEOREM BoundariesStay == Spec => BoundariesArePreserved
<1> DEFINE Stays(ep, j, t) ==
             \/ \E e \in j.completed :
                   /\ e.end = ep.end
                   /\ e.start = ep.start \/ (~ep.known /\ ep.air /\ e.start < ep.start)
             \/ ep.end < t - MAX_HISTORY_DAYS
             \/ ep.end =< j.retained
<1>1. ASSUME NEW t \in Time, NEW j, Formed(j, t), NEW daily \in BOOLEAN, NEW ep, NEW e \in j.completed,
             e.end = ep.end, e.start = ep.start \/ (~ep.known /\ ep.air /\ e.start < ep.start)
      PROVE  Stays(ep, Pruned(j, t, daily), t)
  <2>1. e \notin Pruned(j, t, daily).completed =>
          e.end < t - MAX_HISTORY_DAYS \/ e.end =< Pruned(j, t, daily).retained
    BY <1>1, PrunedFacts
  <2> QED
    BY <1>1, <2>1
<1>2. ASSUME Inv, [Next]_vars, NEW ep \in journal.completed
      PROVE  Stays(ep, journal', now')
  <2>1. now \in Time /\ Formed(journal, now)
    BY <1>2 DEF Inv
  <2>2. CASE UNCHANGED journal
    BY <2>2
  <2>3. CASE Flush \/ Restart
    <3>1. PICK daily \in BOOLEAN : journal' = Pruned(journal, now, daily)
      <4>1. (journal.prunedOn # Today(now)) \in BOOLEAN
        OBVIOUS
      <4> QED
        BY <2>3, <4>1 DEF Flush, Restart, Prune
    <3>2. now' = now
      BY <2>3 DEF Flush, Restart
    <3> QED
      BY <1>1, <2>1, <3>1, <3>2
  <2>4. ASSUME NEW alert \in BOOLEAN, NEW live \in BOOLEAN, NEW air \in BOOLEAN,
               Event(alert, live, air)
        PROVE  Stays(ep, journal', now')
    <3> DEFINE k == Observed(journal, now + 1, alert, live, air)
    <3>1. now' = now + 1 /\ now + 1 \in Time
      BY <1>2, <2>4, PassStep DEF Event
    <3>2. Formed(k, now + 1) /\ ep \in k.completed
      BY <2>1, <3>1, ObservedFacts
    <3>3. journal' = Pruned(k, now + 1, k.prunedOn # Today(now + 1))
      BY <2>4, <3>1 DEF Event, Prune
    <3> HIDE DEF k
    <3>4. (k.prunedOn # Today(now + 1)) \in BOOLEAN
      OBVIOUS
    <3> QED
      BY <1>1, <3>1, <3>2, <3>3, <3>4
  <2>5. ASSUME NEW units \in SUBSET Unit, MergeOfficial(units)
        PROVE  Stays(ep, journal', now')
    <3> DEFINE I == Finished(units, now)
               joined == Joined(journal, I, now)
               r == Refined(ep, I, now)
    <3>1. /\ now' = now
          /\ journal' = IF Added(journal, I, now) = {} THEN joined ELSE Prune(joined, now)
      BY <2>5 DEF MergeOfficial, Merged
    <3>2. Formed(joined, now) /\ r \in joined.completed
      BY <2>1, JoinedFacts
    <3>3. /\ r.end = ep.end
          /\ r.start = ep.start \/ (~ep.known /\ ep.air /\ r.start < ep.start)
      <4>1. ep \in Episode /\ ep.start < ep.end
        BY <2>1 DEF Formed, Journal
      <4> QED
        BY <2>1, <4>1, RefinedFields
    <3> HIDE DEF joined, r
    <3>4. CASE journal' = joined
      BY <3>2, <3>3, <3>4
    <3>5. CASE journal' = Pruned(joined, now, joined.prunedOn # Today(now))
      <4>1. (joined.prunedOn # Today(now)) \in BOOLEAN
        OBVIOUS
      <4> QED
        BY <1>1, <2>1, <3>1, <3>2, <3>3, <3>5, <4>1
    <3> QED
      BY <3>1, <3>4, <3>5 DEF Prune
  <2> QED
    BY <1>2, <2>2, <2>3, <2>4, <2>5 DEF Next, Tick, vars
<1>3. Inv /\ [Next]_vars => [\A ep \in journal.completed : Stays(ep, journal', now')]_vars
  BY <1>2
<1> QED
  BY <1>3, Invariance, PTL DEF Spec, BoundariesArePreserved
================================================================================
