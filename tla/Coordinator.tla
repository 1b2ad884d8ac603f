----------------------------- MODULE Coordinator -----------------------------
(***************************************************************************)
(* coordinator.py: accepted maps on their way to the entities and to the   *)
(* hub.  A map is compared with the last one; only regions that depend on  *)
(* what changed are aggregated again, shown and told.  The other regions   *)
(* keep a cached view.                                                     *)
(***************************************************************************)
EXTENDS AlertEventHub

CONSTANTS
    Maps,     \* snapshots the feed may publish
    NoMap

ASSUME MapsAssumption ==
    /\ Maps \subseteq Map
    /\ NoMap \notin Maps

VARIABLES
    data,      \* the last map, or NoMap
    received,  \* last_push is set
    expired,   \* its age exceeds STALE_AFTER_SECONDS
    views,     \* _views, or NoView
    present,   \* regions whose state entities were added
    shown      \* the view they wrote last, or NoView

coordinatorVars == <<data, received, expired, views, present, shown>>
vars == <<coordinatorVars, hubVars>>

NoView == [alerts |-> "none"]

CoordinatorTypeOK ==
    /\ data \in Maps \cup {NoMap}
    /\ received \in BOOLEAN
    /\ expired \in BOOLEAN
    /\ present \in SUBSET Region

TypeOK == CoordinatorTypeOK /\ HubTypeOK

\* async_restore: the map of the last run, if it is recent; last_push stays unset.
Init ==
    /\ data \in Maps \cup {NoMap}
    /\ received = FALSE /\ expired = FALSE
    /\ views = [r \in Region |-> NoView]
    /\ present = {}
    /\ shown = [r \in Region |-> NoView]
    /\ HubInit

-----------------------------------------------------------------------------

\* is_stale
IsStale == ~received \/ expired

\* region_view: the cached view or a new one, which is cached.
Cached(cache, m, r) == IF cache[r] = NoView THEN View(m, r) ELSE cache[r]

\* The cache after the views of some regions were read.
Read(cache, m, rs) == [r \in Region |-> IF r \in rs THEN Cached(cache, m, r) ELSE cache[r]]

\* Mutated form of Dependents: a region does not follow its descendants.
DependentsAbove(places) == {r \in Region : Own(r) \cap places # {}}

\* _dependents of the changed sources.
Dependents(places) == {r \in Region : Sources(r) \cap places # {}}

\* Mutated form of ChangedSources: what the new map leaves out has not changed.
ChangedSourcesListed(m) ==
    {p \in Place : \/ data = NoMap
                   \/ m.alerts[p] # {} /\ m.alerts[p] # data.alerts[p]
                   \/ m.names[p] # data.names[p]}

\* changed_sources: the alerts or the name of a place differ.
ChangedSources(m) ==
    {p \in Place : data = NoMap \/ m.alerts[p] # data.alerts[p] \/ m.names[p] # data.names[p]}

\* Regions whose view is dropped, whose entities are called and which are told.
Affected(m) == IF data = NoMap \/ IsStale THEN Region ELSE Dependents(ChangedSources(m))

\* UapEntity: an entity writes its state if its region changed, or all are called.
Shows(cache, rs) == [r \in Region |-> IF r \in rs \cap present THEN cache[r] ELSE shown[r]]

\* There is something to write: the coordinator's listeners are called.
Changed(m) == data = NoMap \/ ChangedSources(m) # {}
Called(m)  == IF Changed(m) \/ IsStale THEN present ELSE {}

\* The cache after its affected views were dropped, and after the listeners read it.
Dropped(m)  == [r \in Region |-> IF r \in Affected(m) THEN NoView ELSE views[r]]
Listened(m) == Read(Dropped(m), m, Called(m))

\* The origin is live: neither the first map of a run nor the first after a gap.
Live == bootstrapped /\ ~IsStale /\ ~staleAnnounced

\* The regions whose states _publish_events collects, and the cache then.
Asked(m)     == IF Live THEN Affected(m) ELSE Region
Collected(m) == Read(Listened(m), m, Asked(m))

\* _publish_events
PublishEvents(m) ==
    IF Live /\ ~Changed(m)
    THEN /\ views' = Listened(m)
         /\ NoEvents
         /\ UNCHANGED <<states, since, knownLevel, undelivered, listening,
                        bootstrapped, staleAnnounced, heard>>
    ELSE /\ views' = Collected(m)
         /\ Accept([r \in Asked(m) |-> RegionState(Collected(m)[r])], Live)

\* handle_snapshot
Snapshot(m) ==
    /\ data' = m
    /\ received' = TRUE /\ expired' = FALSE
    /\ shown' = IF Called(m) = {} THEN shown ELSE Shows(Listened(m), Affected(m))
    /\ PublishEvents(m)
    /\ UNCHANGED present

\* Time passes without a map.
GoStale ==
    /\ received /\ ~expired
    /\ expired' = TRUE
    /\ NoEvents
    /\ UNCHANGED <<data, received, views, present, shown, states, since, knownLevel,
                   undelivered, listening, bootstrapped, staleAnnounced, heard>>

\* async_check_stale, when it has something to tell.
CheckStale ==
    /\ IsStale
    /\ AnnounceStale
    /\ UNCHANGED coordinatorVars

\* handle_mode_change, and a manual update_entity (_async_update_data): all
\* entities are called although no map came.
Refresh ==
    /\ data # NoMap
    /\ views' = Read(views, data, present)
    /\ shown' = Shows(views', Region)
    /\ NoEvents
    /\ UNCHANGED <<data, received, expired, present, states, since, knownLevel,
                   undelivered, listening, bootstrapped, staleAnnounced, heard>>

\* Home Assistant adds the state entities of a region, which show what is there.
AddEntity(r) ==
    /\ r \notin present
    /\ present' = present \cup {r}
    /\ views' = IF data = NoMap THEN views ELSE Read(views, data, {r})
    /\ shown' = [shown EXCEPT ![r] = IF data = NoMap THEN NoView ELSE views'[r]]
    /\ NoEvents
    /\ UNCHANGED <<data, received, expired, states, since, knownLevel, undelivered,
                   listening, bootstrapped, staleAnnounced, heard>>

Next ==
    \/ \E m \in Maps : Snapshot(m)
    \/ GoStale \/ CheckStale \/ Refresh
    \/ \E r \in Region : AddEntity(r)
    \/ \E r \in Region : (AddListener(r) \/ RemoveListener(r)) /\ UNCHANGED coordinatorVars

Spec == Init /\ [][Next]_vars

\* async_check_stale runs every minute.
FairSpec == Spec /\ WF_vars(CheckStale)

-----------------------------------------------------------------------------
(* Properties *)

\* A view says of the alerts, their coverage and the names of places around the
\* region what a map says.
SaysWhat(v, m, r) ==
    /\ v # NoView
    /\ v.alerts = RegionAlerts(m, r)
    /\ v.coverage = CoverageByType(v.alerts, r)
    /\ \A a \in v.alerts : a.by \in Sources(r) => <<a.by, m.names[a.by]>> \in v.affected

\* A cached view is the one that the current map gives, however many maps it has
\* survived (_views is emptied region by region, handle_snapshot).
ViewsAreCurrent == \A r \in Region : views[r] # NoView => SaysWhat(views[r], data, r)

\* What the entities of a region wrote last is what the current map says: the
\* gates of UapEntity and of the sensors withhold nothing.
EntitiesAreCurrent == \A r \in present : data # NoMap => SaysWhat(shown[r], data, r)

\* The last event an event entity heard, or will hear when it is added, carries
\* the state of the current map: no transition is lost to a listener that
\* comes late or leaves, whatever was told before it came.
EventsAreCurrent ==
    \A r \in Region :
        /\ heard[r] # Silent => heard[r].state = StateIn(data, r)
        /\ undelivered[r] # Silent => r \notin listening /\ undelivered[r].state = StateIn(data, r)

\* The events are those of AlertEvents, which compares whole maps.
Events == INSTANCE AlertEvents WITH
    map <- data, watched <- ~IsStale, seen <- received, announced <- staleAnnounced,
    rising <- knownLevel

TellsEveryChange == Events!EventsSafety

StaleIsAnnounced == Events!EventsSpec

\* An alert's start counts as known only if the region was seen quiet on the live
\* map before it (events.py: "a bootstrap start does not").
KnownStartWasSeen ==
    [][\A r \in Region :
          since[r] # "start" /\ since'[r] = "start" =>
              ~IsStale /\ ~StateIn(data, r).active /\ StateIn(data', r).active]_vars

\* README.en.md: active_since_known says whether observed_active_since was the
\* real start of the current alert.  If after a gap none of the alerts is left
\* that was there before, it cannot be.
KnownStartIsOfThisAlert ==
    [][\A r \in Region :
          IsStale /\ received /\ ~IsStale' /\ since'[r] = "start" =>
              \E a \in RegionAlerts(data, r), b \in RegionAlerts(data', r) :
                  SameAlert(a, b)]_vars
=============================================================================
