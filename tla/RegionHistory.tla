---------------------------- MODULE RegionHistory ----------------------------
(* history.py: what the journal tells of one region.  Episodes that were   *)
(* observed meet the intervals of the official history (merge_official),   *)
(* and both are cut to a number and an age (_prune).  How the journal      *)
(* watches and what survives a crash is AlertJournal's; which chunks of    *)
(* the official history are read is OfficialBackfill's.                    *)
(* Unit u is the time from instant u to u + 1.                             *)
EXTENDS Integers, FiniteSets

CONSTANTS
    MAX_HISTORY_DAYS, MAX_HISTORY_EPISODES,
    DAY,       \* instants of a calendar day, after which _prune looks at ages
    MaxTime    \* bound

ASSUME HistoryAssumption ==
    /\ MaxTime \in Nat /\ MAX_HISTORY_DAYS \in Nat
    /\ MAX_HISTORY_EPISODES \in Nat \ {0} /\ DAY \in Nat \ {0}

VARIABLES
    now,
    journal,   \* what is kept of the region
    known      \* ghost: units of an alert that was observed or officially told

vars == <<now, journal, known>>

None == -1
Time == 0 .. MaxTime
Unit == 0 .. MaxTime - 1
Today(t) == t \div DAY

\* known: source_start_known; air: active_types_seen is just ["air"].
Episode == [start : Time, end : Time \cup {None}, known : BOOLEAN, air : BOOLEAN]

\* _index of the region, _active, _official_spans (as units: _union keeps them
\* disjoint and joins what touches), _retained_from and _last_prune_day.
Journal == [completed : SUBSET Episode, active : SUBSET Episode, spans : SUBSET Unit,
            retained : Time \cup {None}, prunedOn : Time \cup {None}]

EndOf(ep, t)   == IF ep.end = None THEN t ELSE ep.end
UnitsOf(ep, t) == ep.start .. EndOf(ep, t) - 1
AllUnits(eps, t) == UNION {UnitsOf(ep, t) : ep \in eps}
Episodes(j) == j.completed \cup j.active

\* _spans: the alerts that the journal tells of.
Told(j, t) == AllUnits(Episodes(j), t) \cup j.spans

\* _union: the maximal intervals of a set of units.
Union(units) ==
    {i \in [start : units, end : {u + 1 : u \in units}] :
        /\ i.start < i.end /\ UnitsOf(i, i.end) \subseteq units
        /\ i.start - 1 \notin units /\ i.end \notin units}

MaxOf(S) == CHOOSE x \in S : \A y \in S : y =< x

TypeOK ==
    /\ now \in Time
    /\ journal \in Journal
    /\ Cardinality(journal.completed) =< MAX_HISTORY_EPISODES
    /\ Cardinality(journal.active) =< 1
    /\ \A ep \in journal.completed : ep.start < ep.end /\ ep.end =< now
    /\ \A ep \in journal.active : ep.end = None /\ ep.start =< now
    /\ known \subseteq Unit

Init ==
    /\ now = 0
    /\ journal = [completed |-> {}, active |-> {}, spans |-> {},
                  retained |-> None, prunedOn |-> None]
    /\ known = {}

-----------------------------------------------------------------------------
(* Pruning *)

Before(x, y) == x.start < y.start \/ (x.start = y.start /\ x.end < y.end)

\* Mutated form of Excess: one more is kept.
ExcessOffByOne(S) ==
    {x \in S : Cardinality({y \in S : Before(x, y)}) > MAX_HISTORY_EPISODES}

\* All but the newest MAX_HISTORY_EPISODES.
Excess(S) ==
    {x \in S : Cardinality({y \in S : Before(x, y)}) >= MAX_HISTORY_EPISODES}

\* Mutated form of RetainedFrom: episodes are dropped without a word.
RetainedFromSilent(j, cutoff, dropped) == j.retained

\* What is claimed shrinks with what is dropped.
RetainedFrom(j, cutoff, dropped) ==
    IF dropped = {} THEN j.retained
    ELSE MaxOf({x.end : x \in dropped} \cup {IF j.retained = None THEN cutoff ELSE j.retained})

\* _prune: the number always, the age on the first call of a day.
Pruned(j, t, daily) ==
    LET cutoff   == t - MAX_HISTORY_DAYS
        recent   == {ep \in j.completed : daily => ep.end >= cutoff}
        dropped  == Excess(recent)
        official == {i \in Union(j.spans) : i.end >= cutoff}
        cut      == Excess(official)
    IN  [j EXCEPT !.completed = recent \ dropped,
                  !.spans     = IF daily THEN AllUnits(official \ cut, t) ELSE @,
                  !.retained  = RetainedFrom(j, cutoff, dropped \cup (IF daily THEN cut ELSE {})),
                  !.prunedOn  = Today(t)]

Prune(j, t) == Pruned(j, t, j.prunedOn # Today(t))

-----------------------------------------------------------------------------
(* What is observed (handle_event) *)

Open(start, live, air) == [start |-> start, end |-> None, known |-> live, air |-> air]

\* The journal after an event at time t: a map with or without an alert, on a feed
\* that was live before it or not.
Observed(j, t, alert, live, air) ==
    IF alert
    THEN [j EXCEPT !.active = IF @ = {} THEN {Open(t, live, air)}
                              ELSE {[ep EXCEPT !.air = @ /\ air] : ep \in @}]
    ELSE [j EXCEPT !.active = {},
                   !.completed = @ \cup {[ep EXCEPT !.end = t] : ep \in j.active}]

\* Time passes; an alert under way goes on.
Pass ==
    /\ now < MaxTime
    /\ now' = now + 1
    /\ known' = known \cup (IF journal.active = {} THEN {} ELSE {now})

Tick == Pass /\ UNCHANGED journal

Event(alert, live, air) ==
    /\ Pass
    /\ alert \/ journal.active # {}
    /\ journal' = Prune(Observed(journal, now', alert, live, air), now')

-----------------------------------------------------------------------------
(* What is told officially (merge_official) *)

\* Mutated form of Overlaps: an interval counts that begins inside the episode.
OverlapsInside(i, ep, t) == ep.start < i.start /\ i.start < EndOf(ep, t)

Overlaps(i, ep, t) == i.start < EndOf(ep, t) /\ i.end > ep.start

\* Mutated form of Refinable: official times replace observed ones.
RefinableAny(ep) == TRUE

\* An official start takes the place of one that nobody saw.
Refinable(ep) == ~ep.known /\ ep.air

Refined(ep, intervals, t) ==
    LET by == {i \in intervals : Overlaps(i, ep, t) /\ i.start < ep.start}
    IN  IF Refinable(ep) /\ by # {}
        THEN [ep EXCEPT !.start = (CHOOSE i \in by : TRUE).start, !.known = TRUE]
        ELSE ep

\* No episode overlaps the interval.
Unobserved(j, i, t) == \A ep \in Episodes(j) : ~Overlaps(i, ep, t)

\* The intervals that are over.
Finished(units, t) == {i \in Union(units) : i.end =< t}

Added(j, intervals, t) ==
    {[start |-> i.start, end |-> i.end, known |-> TRUE, air |-> TRUE] :
        i \in {k \in intervals : Unobserved(j, k, t)}}

\* The journal with a set of disjoint intervals; their order does not matter then.
Joined(j, intervals, t) ==
    LET refined(eps) == {Refined(ep, intervals, t) : ep \in eps}
    IN  [j EXCEPT !.completed = refined(@) \cup Added(j, intervals, t),
                  !.active    = refined(@),
                  !.spans     = @ \cup AllUnits(intervals, t)]

\* merge_official at time t, of the union of what the source tells.
Merged(j, units, t) ==
    LET intervals == Finished(units, t)
        joined    == Joined(j, intervals, t)
    IN  IF Added(j, intervals, t) = {} THEN joined ELSE Prune(joined, t)

MergeOfficial(units) ==
    /\ journal' = Merged(journal, units, now)
    /\ known' = known \cup AllUnits(Finished(units, now), now)
    /\ UNCHANGED now

-----------------------------------------------------------------------------

\* async_flush prunes; a load prunes as on a new day.
Flush   == journal' = Prune(journal, now) /\ UNCHANGED <<now, known>>
Restart == journal' = Pruned(journal, now, TRUE) /\ UNCHANGED <<now, known>>

Next ==
    \/ Tick \/ Flush \/ Restart
    \/ \E alert, live, air \in BOOLEAN : Event(alert, live, air)
    \/ \E units \in SUBSET Unit : units \subseteq 0 .. now /\ MergeOfficial(units)

Spec == Init /\ [][Next]_vars

-----------------------------------------------------------------------------
(* Properties *)

\* The time that _window reports without calling it truncated, within the retention.
Kept(u) == journal.retained =< u /\ now - MAX_HISTORY_DAYS =< u /\ u < now

\* Within it the journal tells exactly of the alerts that were observed or that the
\* source told of: none is lost to the caps, none made up by a merge.
ToldIsKnown == \A u \in Unit : Kept(u) => (u \in Told(journal, now) <=> u \in known)

\* merge_official: "a re-run ... never duplicates an episode".  A second merge of an
\* answer adds nothing, unless the first one dropped something to make room.
RerunAddsNothing ==
    \A units \in SUBSET (0 .. now - 1) :
        LET intervals == Finished(units, now)
            once      == Merged(journal, units, now)
            Dropped   == once.completed # Joined(journal, intervals, now).completed
        IN  ~Dropped => Added(once, intervals, now) = {}

\* README: "Observed boundaries are preserved; official history may refine an unknown
\* air-alert start".  An episode goes only by its age or by the caps.
BoundariesArePreserved ==
    [][\A ep \in journal.completed :
          \/ \E e \in journal'.completed :
                /\ e.end = ep.end
                /\ e.start = ep.start \/ (~ep.known /\ ep.air /\ e.start < ep.start)
          \/ ep.end < now' - MAX_HISTORY_DAYS
          \/ ep.end =< journal'.retained]_vars
=============================================================================
