------------------------------ MODULE RegionView ------------------------------
(***************************************************************************)
(* models.py: what a map of alerts means for one region.  A region is      *)
(* affected by the alerts found under itself, its ancestors and its        *)
(* descendants.  A map repeats an alert under every region it affects, so  *)
(* what identifies one is who declared it, its type and when.              *)
(***************************************************************************)
EXTENDS Integers, FiniteSetsExt

CONSTANTS
    Place,        \* the administrative regions of the country
    Region,       \* the monitored ones
    Ancestors,    \* of a monitored region
    Descendants,
    Threat,       \* types of alerts
    Stamp,        \* times of declaration
    Name          \* names of regions

ASSUME TreeAssumption ==
    /\ Region \subseteq Place
    /\ Ancestors \in [Region -> SUBSET Place]
    /\ Descendants \in [Region -> SUBSET Place]
    /\ "AIR" \in Threat
    /\ Stamp \subseteq Nat \ {0}

\* Levels of an air alert as the feed spells them; "other" is any further one.
Level == {"red", "yellow", "other"}

Alert == [by : Place, type : Threat, declared : Stamp, levels : SUBSET Level]

\* A snapshot of the feed.
Map == [alerts : [Place -> SUBSET Alert], names : [Place -> Name]]

\* The places whose alerts affect a region.
Own(r)     == {r} \cup Ancestors[r]
Sources(r) == Own(r) \cup Descendants[r]

-----------------------------------------------------------------------------

Found(m, r) == UNION {m.alerts[p] : p \in Sources(r)}

SameAlert(a, b) == a.by = b.by /\ a.type = b.type /\ a.declared = b.declared

\* region_alerts: every declared alert once, with the levels of all its copies.
RegionAlerts(m, r) ==
    {[a EXCEPT !.levels = UNION {b.levels : b \in {c \in Found(m, r) : SameAlert(a, c)}}]
        : a \in Found(m, r)}

\* air_alert_levels
AirLevels(found) ==
    UNION {IF a.levels = {} THEN {"unrecognized"}
           ELSE {IF l = "other" THEN "unrecognized" ELSE l : l \in a.levels}
              : a \in {b \in found : b.type = "AIR"}}

None == 0

\* _coverage of one alert, by rank.
Partial      == 1
Unrecognized == 2
Whole        == 3

CoverageOf(a, r) ==
    IF a.by \in Own(r) THEN Whole
    ELSE IF a.by \in Descendants[r] THEN Partial
    ELSE Unrecognized

\* The widest coverage of each type.
CoverageByType(found, r) ==
    [t \in {a.type : a \in found} |->
        Max({CoverageOf(a, r) : a \in {b \in found : b.type = t}})]

\* region_view: the aggregation that all entities of a region read.
View(m, r) ==
    LET found == RegionAlerts(m, r)
    IN  [alerts   |-> found,
         coverage |-> CoverageByType(found, r),
         affected |-> {<<a.by, m.names[a.by]>> : a \in found}]

-----------------------------------------------------------------------------
(* events.py: the compact picture of a region that events carry *)

\* air_levels[0]: the highest known level first.
TopLevel(levels) ==
    IF "red" \in levels THEN "red"
    ELSE IF "yellow" \in levels THEN "yellow"
    ELSE IF levels # {} THEN "unrecognized" ELSE "none"

AirRank == [none |-> 0, unrecognized |-> 1, yellow |-> 2, red |-> 3]

Known == {"yellow", "red"}

Picture(alerts, coverage) ==
    [active   |-> alerts # {},
     types    |-> DOMAIN coverage,
     level    |-> TopLevel(AirLevels(alerts)),
     coverage |-> Max({None} \cup {coverage[t] : t \in DOMAIN coverage}),
     started  |-> IF alerts = {} THEN None ELSE Min({a.declared : a \in alerts})]

\* RegionState.from_view
RegionState(v) == Picture(v.alerts, v.coverage)

StateIn(m, r) == RegionState(View(m, r))
=============================================================================
