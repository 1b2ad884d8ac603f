-------------------------- MODULE CoordinatorProofs --------------------------
(***************************************************************************)
(* What Coordinator updates region by region equals what a comparison of   *)
(* whole maps would give, for every tree of regions and every set of maps. *)
(***************************************************************************)
EXTENDS Coordinator, WellFoundedInduction, TLAPS

\* The flags of the hub follow those of the coordinator.
FlagsAgree ==
    /\ received \in BOOLEAN /\ expired \in BOOLEAN /\ staleAnnounced \in BOOLEAN
    /\ bootstrapped = received
    /\ expired => received
    /\ staleAnnounced => expired
    /\ received => data # NoMap

\* The hub holds the state of the current map for every region, or of none.
StatesAreCurrent ==
    \A r \in Region : states[r] = IF received THEN StateIn(data, r) ELSE Unseen

\* Before the first map there is nothing to tell; later, what was told is current.
ToldIsCurrent ==
    \A r \in Region :
        /\ heard[r] # Silent =>
              /\ received /\ r \in listening
              /\ heard[r].state = StateIn(data, r)
        /\ undelivered[r] # Silent =>
              /\ received /\ r \notin listening
              /\ undelivered[r].state = StateIn(data, r)

Shape ==
    /\ data \in Maps \cup {NoMap}
    /\ knownLevel = [r \in Region |-> knownLevel[r]]
    /\ DOMAIN heard = Region /\ DOMAIN undelivered = Region /\ DOMAIN shown = Region
    /\ data = NoMap => \A r \in Region : views[r] = NoView
    /\ listening \subseteq Region /\ present \subseteq Region

\* The last known level is what remembering the current state again would leave.
LevelsAgree ==
    \A r \in Region :
        received => knownLevel[r] = LevelAfter(knownLevel[r], StateIn(data, r).level)

Inv ==
    /\ Shape
    /\ FlagsAgree
    /\ ViewsAreCurrent
    /\ EntitiesAreCurrent
    /\ StatesAreCurrent
    /\ ToldIsCurrent
    /\ LevelsAgree

-----------------------------------------------------------------------------
(* Views *)

\* An aggregated view is none of the placeholders.
LEMMA ViewIsAView == ASSUME NEW m, NEW r PROVE View(m, r) # NoView
BY DEF View, NoView

LEMMA StateIsAState ==
    /\ \A v : RegionState(v) # Unseen
    /\ \A m, r : StateIn(m, r) # Unseen /\ StateIn(m, r).active \in BOOLEAN
BY DEF StateIn, RegionState, Picture, Unseen

\* What classify makes of two states is the change that is told of them.
LEMMA ClassifyIsChange ==
    ASSUME NEW a, NEW b, NEW k, a.active \in BOOLEAN, b.active \in BOOLEAN
    PROVE  Events!Change(a, b, k) =
              IF Classify(a, b, k) = "none" THEN Silent
              ELSE [type |-> Classify(a, b, k), state |-> b]
<1>1. (b.types \ a.types # {}) = ~(b.types \subseteq a.types)
  OBVIOUS
<1> QED
  BY <1>1 DEF Classify, Events!Change, Events!Tells, Events!Silent, Silent,
              Known, Events!Known, AirRank, Events!AirRank

\* A new view says what its map says.
LEMMA NewViewSays == ASSUME NEW m, NEW r PROVE SaysWhat(View(m, r), m, r)
<1>1. View(m, r) # NoView
  BY ViewIsAView
<1>2. /\ View(m, r).alerts = RegionAlerts(m, r)
      /\ View(m, r).coverage = CoverageByType(View(m, r).alerts, r)
      /\ View(m, r).affected = {<<a.by, m.names[a.by]>> : a \in View(m, r).alerts}
  BY DEF View
<1> QED
  BY <1>1, <1>2 DEF SaysWhat

\* A region's alerts depend on its sources only.
LEMMA AlertsOfSources ==
    ASSUME NEW m, NEW n, NEW r \in Region,
           \A p \in Sources(r) : m.alerts[p] = n.alerts[p]
    PROVE  RegionAlerts(m, r) = RegionAlerts(n, r)
<1>1. Found(m, r) = Found(n, r)
  BY DEF Found
<1> QED
  BY <1>1 DEF RegionAlerts

\* A view survives a map in which the region's sources did not change.
LEMMA ViewSurvives ==
    ASSUME NEW v, NEW m, NEW n, NEW r \in Region,
           \A p \in Sources(r) : m.alerts[p] = n.alerts[p] /\ m.names[p] = n.names[p],
           SaysWhat(v, m, r)
    PROVE  SaysWhat(v, n, r)
<1>1. RegionAlerts(m, r) = RegionAlerts(n, r)
  BY AlertsOfSources
<1> QED
  BY <1>1 DEF SaysWhat

\* What a view says determines the state that events carry.
LEMMA SaysState ==
    ASSUME NEW v, NEW m, NEW r, SaysWhat(v, m, r)
    PROVE  RegionState(v) = StateIn(m, r)
<1>1. /\ v.alerts = View(m, r).alerts
      /\ v.coverage = View(m, r).coverage
  BY DEF SaysWhat, View
<1> QED
  BY <1>1 DEF RegionState, StateIn

\* Reading a cache whose views are current gives current views.
LEMMA ReadIsCurrent ==
    ASSUME NEW cache, NEW m, NEW rs,
           \A r \in Region : cache[r] # NoView => SaysWhat(cache[r], m, r)
    PROVE  /\ \A r \in Region : Read(cache, m, rs)[r] # NoView =>
                 SaysWhat(Read(cache, m, rs)[r], m, r)
           /\ \A r \in Region \cap rs : SaysWhat(Read(cache, m, rs)[r], m, r)
<1> SUFFICES ASSUME NEW r \in Region
             PROVE  /\ Read(cache, m, rs)[r] # NoView => SaysWhat(Read(cache, m, rs)[r], m, r)
                    /\ r \in rs => SaysWhat(Read(cache, m, rs)[r], m, r)
  OBVIOUS
<1>1. SaysWhat(Cached(cache, m, r), m, r)
  BY NewViewSays DEF Cached
<1>2. Read(cache, m, rs)[r] = IF r \in rs THEN Cached(cache, m, r) ELSE cache[r]
  BY DEF Read
<1> QED
  BY <1>1, <1>2

\* What _dependents leaves out has the same sources on both maps.
LEMMA UnaffectedSources ==
    ASSUME Shape, NEW m \in Maps, NEW r \in Region, r \notin Affected(m)
    PROVE  /\ data # NoMap /\ ~IsStale
           /\ \A p \in Sources(r) : data.alerts[p] = m.alerts[p] /\ data.names[p] = m.names[p]
<1>1. data # NoMap /\ ~IsStale /\ Sources(r) \cap ChangedSources(m) = {}
  BY DEF Affected, Dependents
<1>2. Sources(r) \subseteq Place
  BY TreeAssumption DEF Sources, Own
<1> QED
  BY <1>1, <1>2 DEF ChangedSources

\* A region that is not affected has the same state on both maps.
LEMMA UnaffectedState ==
    ASSUME Shape, NEW m \in Maps, NEW r \in Region, r \notin Affected(m)
    PROVE  StateIn(data, r) = StateIn(m, r)
<1>1. \A p \in Sources(r) : data.alerts[p] = m.alerts[p] /\ data.names[p] = m.names[p]
  BY UnaffectedSources
<1>2. SaysWhat(View(data, r), data, r)
  BY NewViewSays
<1>3. SaysWhat(View(data, r), m, r)
  BY <1>1, <1>2, ViewSurvives
<1> QED
  BY <1>3, SaysState DEF StateIn

\* If nothing changed and nothing was missed, nobody is affected.
LEMMA UnchangedAffectsNobody ==
    ASSUME NEW m \in Maps, ~Changed(m), ~IsStale
    PROVE  Affected(m) = {}
BY DEF Changed, Affected, Dependents

-----------------------------------------------------------------------------
(* A map arrives *)

\* The cache never holds a view that the new map refutes.
LEMMA SnapshotCache ==
    ASSUME Shape, ViewsAreCurrent, NEW m \in Maps
    PROVE  /\ \A r \in Region : Listened(m)[r] # NoView => SaysWhat(Listened(m)[r], m, r)
           /\ \A r \in Region \cap Called(m) : SaysWhat(Listened(m)[r], m, r)
           /\ \A r \in Region : Collected(m)[r] # NoView => SaysWhat(Collected(m)[r], m, r)
           /\ \A r \in Region \cap Asked(m) : SaysWhat(Collected(m)[r], m, r)
<1>1. \A r \in Region : Dropped(m)[r] # NoView => SaysWhat(Dropped(m)[r], m, r)
  <2> SUFFICES ASSUME NEW r \in Region, Dropped(m)[r] # NoView
               PROVE  SaysWhat(Dropped(m)[r], m, r)
    OBVIOUS
  <2>1. r \notin Affected(m) /\ Dropped(m)[r] = views[r]
    BY DEF Dropped
  <2>2. \A p \in Sources(r) : data.alerts[p] = m.alerts[p] /\ data.names[p] = m.names[p]
    BY <2>1, UnaffectedSources
  <2>3. SaysWhat(views[r], data, r)
    BY <2>1 DEF ViewsAreCurrent
  <2> QED
    BY <2>1, <2>2, <2>3, ViewSurvives
<1>2. /\ \A r \in Region : Listened(m)[r] # NoView => SaysWhat(Listened(m)[r], m, r)
      /\ \A r \in Region \cap Called(m) : SaysWhat(Listened(m)[r], m, r)
  BY <1>1, ReadIsCurrent DEF Listened
<1>3. /\ \A r \in Region : Collected(m)[r] # NoView => SaysWhat(Collected(m)[r], m, r)
      /\ \A r \in Region \cap Asked(m) : SaysWhat(Collected(m)[r], m, r)
  BY <1>2, ReadIsCurrent DEF Collected
<1> QED
  BY <1>2, <1>3

\* What the hub is given is the state of the new map; of the regions it is not
\* asked about nothing changed.
LEMMA SnapshotNews ==
    ASSUME Shape, ViewsAreCurrent, NEW m \in Maps, NEW r \in Region
    PROVE  /\ r \in Asked(m) => RegionState(Collected(m)[r]) = StateIn(m, r)
           /\ r \notin Asked(m) => Live /\ StateIn(data, r) = StateIn(m, r)
<1>1. ASSUME r \in Asked(m) PROVE RegionState(Collected(m)[r]) = StateIn(m, r)
  <2>1. SaysWhat(Collected(m)[r], m, r)
    BY <1>1, SnapshotCache
  <2> QED
    BY <2>1, SaysState
<1>2. ASSUME r \notin Asked(m) PROVE Live /\ StateIn(data, r) = StateIn(m, r)
  <2>1. Live /\ r \notin Affected(m)
    BY <1>2 DEF Asked
  <2> QED
    BY <2>1, UnaffectedState
<1> QED
  BY <1>1, <1>2

\* Without news the states are those of the new map already.
LEMMA SnapshotQuiet ==
    ASSUME Inv, NEW m \in Maps, Live, ~Changed(m)
    PROVE  received /\ \A r \in Region : StateIn(data, r) = StateIn(m, r)
<1>1. Affected(m) = {}
  BY UnchangedAffectsNobody DEF Live
<1>2. received
  BY DEF Live, IsStale
<1> QED
  BY <1>1, <1>2, UnaffectedState DEF Inv

\* What a map publishes, and what stays as it was.
LEMMA SnapshotTells ==
    ASSUME Inv, NEW m \in Maps, Snapshot(m), NEW r \in Region
    PROVE  /\ states'[r] = StateIn(m, r)
           /\ knownLevel'[r] = LevelAfter(knownLevel[r], StateIn(m, r).level)
           /\ published'[r] =
                IF Live THEN Events!Change(StateIn(data, r), StateIn(m, r), knownLevel[r])
                ELSE Events!Tells("resynced", StateIn(m, r))
           /\ Live => received
<1>0. Live => received /\ states[r] = StateIn(data, r) /\ states[r] # Unseen
  <2>1. Live => received
    BY DEF Live, IsStale
  <2>2. StateIn(data, r) # Unseen
    BY StateIsAState
  <2> QED
    BY <2>1, <2>2 DEF Inv, StatesAreCurrent
<1>1. CASE Live /\ ~Changed(m)
  <2>1. received /\ StateIn(data, r) = StateIn(m, r)
    BY <1>1, SnapshotQuiet
  <2>2. published'[r] = Silent /\ states' = states /\ knownLevel' = knownLevel
    BY <1>1 DEF Snapshot, PublishEvents, NoEvents
  <2>3. knownLevel[r] = LevelAfter(knownLevel[r], StateIn(data, r).level)
    BY <2>1 DEF Inv, LevelsAgree
  <2>4. Events!Change(StateIn(data, r), StateIn(m, r), knownLevel[r]) = Silent
    BY <2>1 DEF Events!Change, Events!Silent, Silent
  <2> QED
    BY <1>0, <1>1, <2>1, <2>2, <2>3, <2>4
<1>2. CASE ~(Live /\ ~Changed(m))
  <2> DEFINE news == [s \in Asked(m) |-> RegionState(Collected(m)[s])]
             kind == Kind(news, Live, r)
  <2>1. Accept(news, Live)
    BY <1>2 DEF Snapshot, PublishEvents
  <2>2. /\ r \in Asked(m) => news[r] = StateIn(m, r)
        /\ r \notin Asked(m) => Live /\ StateIn(data, r) = StateIn(m, r)
    BY SnapshotNews DEF Inv
  <2>3. DOMAIN news = Asked(m)
    OBVIOUS
  <2> HIDE DEF news
  <2>4. states'[r] = StateIn(m, r)
    BY <1>0, <2>1, <2>2, <2>3 DEF Accept
  <2>5. knownLevel'[r] = LevelAfter(knownLevel[r], StateIn(m, r).level)
    <3>1. CASE r \in Asked(m)
      BY <3>1, <2>1, <2>2, <2>3 DEF Accept
    <3>2. CASE r \notin Asked(m)
      <4>1. knownLevel'[r] = knownLevel[r]
        BY <3>2, <2>1, <2>3 DEF Accept
      <4> QED
        BY <3>2, <4>1, <2>2, <1>0 DEF Inv, LevelsAgree
    <3> QED
      BY <3>1, <3>2
  <2>6. published'[r] = IF kind = "none" THEN Silent ELSE [type |-> kind, state |-> news[r]]
    BY <2>1 DEF Accept, Publish
  <2>7. CASE r \notin Asked(m)
    <3>1. kind = "none"
      BY <2>7, <2>3 DEF Kind
    <3>2. Events!Change(StateIn(data, r), StateIn(m, r), knownLevel[r]) = Silent
      BY <2>7, <2>2 DEF Events!Change, Events!Silent, Silent
    <3> QED
      BY <3>1, <3>2, <1>0, <2>2, <2>4, <2>5, <2>6, <2>7
  <2>8. CASE r \in Asked(m) /\ ~Live
    <3>1. kind = "resynced"
      BY <2>8, <2>3 DEF Kind
    <3> QED
      BY <3>1, <2>2, <2>4, <2>5, <2>6, <2>8 DEF Events!Tells
  <2>9. CASE r \in Asked(m) /\ Live
    <3>1. kind = Classify(StateIn(data, r), StateIn(m, r), knownLevel[r])
      BY <1>0, <2>2, <2>3, <2>9 DEF Kind
    <3>2. published'[r] = Events!Change(StateIn(data, r), StateIn(m, r), knownLevel[r])
      BY <3>1, <2>2, <2>6, <2>9, StateIsAState, ClassifyIsChange
    <3> QED
      BY <3>2, <1>0, <2>4, <2>5, <2>9
  <2> QED
    BY <2>7, <2>8, <2>9
<1> QED
  BY <1>1, <1>2

\* The entities that a map does not call show what it says already.
LEMMA SnapshotShows ==
    ASSUME Inv, NEW m \in Maps, Snapshot(m), NEW r \in present
    PROVE  SaysWhat(shown'[r], m, r)
<1>0. r \in Region
  BY DEF Inv, Shape
<1>1. ASSUME r \notin Affected(m) PROVE SaysWhat(shown[r], m, r)
  <2>1. /\ data # NoMap
        /\ \A p \in Sources(r) : data.alerts[p] = m.alerts[p] /\ data.names[p] = m.names[p]
    BY <1>0, <1>1, UnaffectedSources DEF Inv
  <2>2. SaysWhat(shown[r], data, r)
    BY <2>1 DEF Inv, EntitiesAreCurrent
  <2> QED
    BY <1>0, <2>1, <2>2, ViewSurvives
<1>2. CASE Called(m) = {}
  <2>1. ~Changed(m) /\ ~IsStale
    BY <1>2 DEF Called
  <2>2. Affected(m) = {}
    BY <2>1, UnchangedAffectsNobody
  <2>3. shown' = shown
    BY <1>2 DEF Snapshot
  <2> QED
    BY <1>1, <2>2, <2>3
<1>3. CASE Called(m) # {}
  <2>1. Called(m) = present
    BY <1>3 DEF Called
  <2>2. SaysWhat(Listened(m)[r], m, r)
    BY <1>0, <2>1, SnapshotCache DEF Inv
  <2>3. shown'[r] = IF r \in Affected(m) THEN Listened(m)[r] ELSE shown[r]
    BY <1>0, <1>3 DEF Snapshot, Shows
  <2> QED
    BY <1>1, <2>2, <2>3
<1> QED
  BY <1>2, <1>3

LEMMA SnapshotInv ==
    ASSUME Inv, NEW m \in Maps, Snapshot(m)
    PROVE  Inv'
<1>1. /\ data' = m /\ received' = TRUE /\ expired' = FALSE /\ present' = present
      /\ m # NoMap
  BY MapsAssumption DEF Snapshot
<1>2. /\ bootstrapped' = TRUE /\ staleAnnounced' = FALSE /\ listening' = listening
      /\ views' = Listened(m) \/ views' = Collected(m)
  <2>1. CASE Live /\ ~Changed(m)
    BY <2>1 DEF Snapshot, PublishEvents, Live, Inv, FlagsAgree
  <2>2. CASE ~(Live /\ ~Changed(m))
    BY <2>2 DEF Snapshot, PublishEvents, Accept
  <2> QED
    BY <2>1, <2>2
<1>3. Shape'
  <2>1. DOMAIN shown' = Region
    BY DEF Snapshot, Shows, Inv, Shape
  <2>2. DOMAIN heard' = Region /\ DOMAIN undelivered' = Region
    BY DEF Snapshot, PublishEvents, Accept, Publish, Inv, Shape
  <2>3. knownLevel' = [r \in Region |-> knownLevel'[r]]
    BY DEF Snapshot, PublishEvents, Accept, Inv, Shape
  <2> QED
    BY <1>1, <1>2, <2>1, <2>2, <2>3 DEF Shape, Inv
<1>4. FlagsAgree'
  BY <1>1, <1>2 DEF FlagsAgree
<1>5. ViewsAreCurrent'
  <2>1. \A r \in Region : views'[r] # NoView => SaysWhat(views'[r], m, r)
    BY <1>2, SnapshotCache DEF Inv
  <2> QED
    BY <1>1, <2>1 DEF ViewsAreCurrent, SaysWhat
<1>6. EntitiesAreCurrent'
  BY <1>1, SnapshotShows DEF EntitiesAreCurrent, SaysWhat
<1>7. StatesAreCurrent'
  BY <1>1, SnapshotTells DEF StatesAreCurrent
<1>8. ToldIsCurrent'
  <2> SUFFICES ASSUME NEW r \in Region
               PROVE  /\ heard'[r] # Silent =>
                            r \in listening /\ heard'[r].state = StateIn(m, r)
                      /\ undelivered'[r] # Silent =>
                            r \notin listening /\ undelivered'[r].state = StateIn(m, r)
    BY <1>1, <1>2 DEF ToldIsCurrent
  <2>0. /\ published'[r] =
             IF Live THEN Events!Change(StateIn(data, r), StateIn(m, r), knownLevel[r])
             ELSE [type |-> "resynced", state |-> StateIn(m, r)]
        /\ Events!Change(StateIn(data, r), StateIn(m, r), knownLevel[r]) =
             LET c == Classify(StateIn(data, r), StateIn(m, r), knownLevel[r])
             IN  IF c = "none" THEN Silent ELSE [type |-> c, state |-> StateIn(m, r)]
    BY SnapshotTells, StateIsAState, ClassifyIsChange DEF Events!Tells
  <2>1. published'[r] # Silent => published'[r].state = StateIn(m, r)
    BY <2>0
  <2>2. published'[r] = Silent => StateIn(data, r) = StateIn(m, r)
    <3>1. SUFFICES ASSUME published'[r] = Silent PROVE StateIn(data, r) = StateIn(m, r)
      OBVIOUS
    <3>2. Live
      BY <2>0, <3>1 DEF Silent
    <3>3. Classify(StateIn(data, r), StateIn(m, r), knownLevel[r]) = "none"
      BY <2>0, <3>1, <3>2 DEF Silent
    <3> QED
      BY <3>3 DEF Classify
  <2>3. CASE Live /\ ~Changed(m)
    <3>1. heard' = heard /\ undelivered' = undelivered
      BY <2>3 DEF Snapshot, PublishEvents
    <3> QED
      BY <2>3, <3>1, SnapshotQuiet DEF Inv, ToldIsCurrent
  <2>4. CASE ~(Live /\ ~Changed(m))
    <3>1. PICK events : Publish(events)
      BY <2>4 DEF Snapshot, PublishEvents, Accept
    <3>2. /\ undelivered'[r] = IF published'[r] = Silent THEN undelivered[r]
                                ELSE IF r \in listening THEN Silent ELSE published'[r]
          /\ heard'[r] = IF published'[r] # Silent /\ r \in listening
                          THEN published'[r] ELSE heard[r]
      BY <3>1 DEF Publish
    <3> QED
      BY <2>1, <2>2, <3>2 DEF Inv, ToldIsCurrent
  <2> QED
    BY <2>3, <2>4
<1>9. LevelsAgree'
  <2>1. \A r \in Region :
          knownLevel'[r] = LevelAfter(knownLevel[r], StateIn(m, r).level)
    BY SnapshotTells
  <2> QED
    BY <1>1, <2>1 DEF LevelsAgree, LevelAfter
<1> QED
  BY <1>3, <1>4, <1>5, <1>6, <1>7, <1>8, <1>9 DEF Inv

-----------------------------------------------------------------------------
(* The other steps *)

LEMMA InvInit == Init => Inv
BY DEF Init, HubInit, Inv, Shape, FlagsAgree, ViewsAreCurrent, EntitiesAreCurrent,
       StatesAreCurrent, ToldIsCurrent, LevelsAgree

\* Steps that leave the map and the hub's memory alone keep what is said of them.
LEMMA CheckStaleInv == Inv /\ CheckStale => Inv'
<1> SUFFICES ASSUME Inv, CheckStale PROVE Inv'
  OBVIOUS
<1> USE DEF CheckStale, AnnounceStale, coordinatorVars, StaleIsTold, IsStale
<1>1. Shape'
  BY DEF Inv, Shape, Publish
<1>2. FlagsAgree'
  BY DEF Inv, FlagsAgree
<1>3. ViewsAreCurrent' /\ EntitiesAreCurrent' /\ StatesAreCurrent' /\ LevelsAgree'
  BY DEF Inv, ViewsAreCurrent, EntitiesAreCurrent, StatesAreCurrent, LevelsAgree
<1>4. ToldIsCurrent'
  <2> SUFFICES ASSUME NEW r \in Region
               PROVE  /\ heard'[r] # Silent =>
                            /\ received' /\ r \in listening'
                            /\ heard'[r].state = StateIn(data, r)
                      /\ undelivered'[r] # Silent =>
                            /\ received' /\ r \notin listening'
                            /\ undelivered'[r].state = StateIn(data, r)
    BY DEF ToldIsCurrent
  <2>1. received /\ states[r] = StateIn(data, r) /\ states[r] # Unseen
    BY StateIsAState DEF Inv, FlagsAgree, StatesAreCurrent
  <2>2. PICK events : Publish(events) /\ events[r] = [type |-> "data_stale", state |-> states[r]]
    BY <2>1
  <2>3. /\ undelivered'[r] = IF r \in listening THEN Silent ELSE events[r]
        /\ heard'[r] = IF r \in listening THEN events[r] ELSE heard[r]
    BY <2>2 DEF Publish, Silent
  <2> QED
    BY <2>1, <2>2, <2>3 DEF Inv, ToldIsCurrent
<1> QED
  BY <1>1, <1>2, <1>3, <1>4 DEF Inv

LEMMA GoStaleInv == Inv /\ GoStale => Inv'
BY DEF Inv, GoStale, Shape, FlagsAgree, ViewsAreCurrent, EntitiesAreCurrent,
       StatesAreCurrent, ToldIsCurrent, LevelsAgree

LEMMA RefreshInv == Inv /\ Refresh => Inv'
<1> SUFFICES ASSUME Inv, Refresh PROVE Inv'
  OBVIOUS
<1>1. /\ \A r \in Region : views'[r] # NoView => SaysWhat(views'[r], data, r)
      /\ \A r \in Region \cap present : SaysWhat(views'[r], data, r)
  BY ReadIsCurrent DEF Refresh, Inv, ViewsAreCurrent
<1>2. Shape' /\ FlagsAgree' /\ StatesAreCurrent' /\ ToldIsCurrent' /\ LevelsAgree'
  BY DEF Refresh, Shows, Inv, Shape, FlagsAgree, StatesAreCurrent, ToldIsCurrent, LevelsAgree
<1>3. ViewsAreCurrent'
  BY <1>1 DEF Refresh, ViewsAreCurrent, SaysWhat
<1>4. EntitiesAreCurrent'
  BY <1>1 DEF Refresh, Shows, EntitiesAreCurrent, SaysWhat, Inv, Shape
<1> QED
  BY <1>2, <1>3, <1>4 DEF Inv

LEMMA AddEntityInv == ASSUME Inv, NEW r \in Region, AddEntity(r) PROVE Inv'
<1>1. Shape' /\ FlagsAgree' /\ StatesAreCurrent' /\ ToldIsCurrent' /\ LevelsAgree'
  BY DEF AddEntity, Inv, Shape, FlagsAgree, StatesAreCurrent, ToldIsCurrent, LevelsAgree
<1>2. CASE data = NoMap
  BY <1>1, <1>2 DEF AddEntity, Inv, ViewsAreCurrent, EntitiesAreCurrent
<1>3. CASE data # NoMap
  <2>1. /\ \A s \in Region : views'[s] # NoView => SaysWhat(views'[s], data, s)
        /\ SaysWhat(views'[r], data, r)
    BY <1>3, ReadIsCurrent DEF AddEntity, Inv, ViewsAreCurrent
  <2>2. ViewsAreCurrent'
    BY <2>1 DEF AddEntity, ViewsAreCurrent, SaysWhat
  <2>3. \A s \in present' : SaysWhat(shown'[s], data, s)
    BY <1>3, <2>1 DEF AddEntity, Inv, Shape, EntitiesAreCurrent
  <2> QED
    BY <1>1, <2>2, <2>3 DEF AddEntity, EntitiesAreCurrent, SaysWhat, Inv
<1> QED
  BY <1>2, <1>3

LEMMA ListenerInv ==
    ASSUME Inv, NEW r \in Region, AddListener(r) \/ RemoveListener(r),
           UNCHANGED coordinatorVars
    PROVE  Inv'
<1> USE DEF coordinatorVars
<1>1. Shape' /\ FlagsAgree' /\ StatesAreCurrent' /\ LevelsAgree'
  BY DEF AddListener, RemoveListener, Inv, Shape, FlagsAgree, StatesAreCurrent, LevelsAgree
<1>2. ViewsAreCurrent' /\ EntitiesAreCurrent'
  BY DEF Inv, ViewsAreCurrent, EntitiesAreCurrent
<1>3. ToldIsCurrent'
  <2>1. CASE AddListener(r)
    BY <2>1 DEF AddListener, Inv, Shape, ToldIsCurrent
  <2>2. CASE RemoveListener(r)
    BY <2>2 DEF RemoveListener, Inv, Shape, ToldIsCurrent
  <2> QED
    BY <2>1, <2>2
<1> QED
  BY <1>1, <1>2, <1>3 DEF Inv

LEMMA InvNext == Inv /\ [Next]_vars => Inv'
<1> SUFFICES ASSUME Inv, [Next]_vars PROVE Inv'
  OBVIOUS
<1>1. ASSUME NEW m \in Maps, Snapshot(m) PROVE Inv'
  BY <1>1, SnapshotInv
<1>2. CASE GoStale
  BY <1>2, GoStaleInv
<1>3. CASE CheckStale
  BY <1>3, CheckStaleInv
<1>4. CASE Refresh
  BY <1>4, RefreshInv
<1>5. ASSUME NEW r \in Region, AddEntity(r) PROVE Inv'
  BY <1>5, AddEntityInv
<1>6. ASSUME NEW r \in Region, AddListener(r) \/ RemoveListener(r),
             UNCHANGED coordinatorVars
      PROVE  Inv'
  BY <1>6, ListenerInv
<1>7. CASE UNCHANGED vars
  BY <1>7 DEF vars, hubVars, coordinatorVars, Inv, Shape, FlagsAgree, ViewsAreCurrent,
              EntitiesAreCurrent, StatesAreCurrent, ToldIsCurrent, LevelsAgree
<1> QED
  BY <1>1, <1>2, <1>3, <1>4, <1>5, <1>6, <1>7 DEF Next

LEMMA Invariance == Spec => []Inv
BY InvInit, InvNext, PTL DEF Spec

-----------------------------------------------------------------------------
(* Theorems *)

\* handle_snapshot: a cached view is what the whole map would give.
THEOREM ViewsCurrent == Spec => []ViewsAreCurrent
<1>1. Inv => ViewsAreCurrent
  BY DEF Inv
<1> QED
  BY <1>1, Invariance, PTL

\* UapEntity._handle_coordinator_update: the gates withhold nothing.
THEOREM EntitiesCurrent == Spec => []EntitiesAreCurrent
<1>1. Inv => EntitiesAreCurrent
  BY DEF Inv
<1> QED
  BY <1>1, Invariance, PTL

\* AlertEventHub: the last event of an entity carries the current state.
THEOREM EventsCurrent == Spec => []EventsAreCurrent
<1>1. Inv => EventsAreCurrent
  BY DEF Inv, ToldIsCurrent, EventsAreCurrent
<1> QED
  BY <1>1, Invariance, PTL

\* The abstract specification reads maps as this module does.
LEMMA SameReading ==
    /\ \A m, r : Events!StateIn(m, r) = StateIn(m, r)
    /\ \A k, s : Events!LevelAfter(k, s) = LevelAfter(k, s.level)
<1>1. ASSUME NEW m, NEW r PROVE Events!View(m, r) = View(m, r)
  BY DEF Events!View, View, Events!CoverageByType, CoverageByType,
         Events!RegionAlerts, RegionAlerts, Events!SameAlert, SameAlert,
         Events!Found, Found, Events!Sources, Sources, Events!Own, Own,
         Events!CoverageOf, CoverageOf, Events!Max, Max, Events!None, None,
         Events!Partial, Partial, Events!Unrecognized, Unrecognized, Events!Whole, Whole
<1>2. ASSUME NEW v PROVE Events!RegionState(v) = RegionState(v)
  BY DEF Events!RegionState, RegionState, Events!Picture, Picture,
         Events!TopLevel, TopLevel, Events!AirLevels, AirLevels,
         Events!Max, Max, Events!Min, Min, Events!None, None
<1>3. ASSUME NEW k, NEW s PROVE Events!LevelAfter(k, s) = LevelAfter(k, s.level)
  BY DEF Events!LevelAfter, LevelAfter, Events!Known, Known
<1> QED
  BY <1>1, <1>2, <1>3 DEF Events!StateIn, StateIn

\* handle_snapshot is Receive.
LEMMA SnapshotReceives ==
    ASSUME Inv, NEW m \in Maps, Snapshot(m)
    PROVE  Events!Receive
<1>1. /\ data' = m /\ received' = TRUE /\ expired' = FALSE /\ staleAnnounced' = FALSE
      /\ knownLevel' = [r \in Region |-> knownLevel'[r]]
  BY SnapshotInv DEF Snapshot, Inv, FlagsAgree, Shape
<1>2. Live = ~IsStale
  BY DEF Live, IsStale, Inv, FlagsAgree
<1>3. knownLevel' =
        [r \in Region |-> Events!LevelAfter(knownLevel[r], Events!StateIn(data', r))]
  <2>1. \A r \in Region :
          knownLevel'[r] = Events!LevelAfter(knownLevel[r], Events!StateIn(data', r))
    BY <1>1, SnapshotTells, SameReading
  <2> QED
    BY <1>1, <2>1
<1>4. published' =
        [r \in Region |->
           IF ~IsStale
           THEN Events!Change(Events!StateIn(data, r), Events!StateIn(data', r), knownLevel[r])
           ELSE Events!Tells("resynced", Events!StateIn(data', r))]
  <2>1. \A r \in Region :
          published'[r] =
            IF ~IsStale
            THEN Events!Change(Events!StateIn(data, r), Events!StateIn(data', r), knownLevel[r])
            ELSE Events!Tells("resynced", Events!StateIn(data', r))
    BY <1>1, <1>2, SnapshotTells, SameReading
  <2>2. published' = [r \in Region |-> published'[r]]
    BY DEF Snapshot, PublishEvents, NoEvents, Accept, Publish
  <2> QED
    BY <2>1, <2>2
<1> QED
  BY <1>1, <1>3, <1>4 DEF Events!Receive, IsStale

\* async_check_stale is Announce.
LEMMA CheckStaleAnnounces ==
    ASSUME Inv, CheckStale
    PROVE  Events!Announce
<1>1. /\ received /\ IsStale /\ ~staleAnnounced /\ staleAnnounced' = TRUE
      /\ UNCHANGED <<data, received, expired, knownLevel>>
  BY DEF CheckStale, AnnounceStale, StaleIsTold, coordinatorVars, Inv, FlagsAgree
<1>2. published' = [r \in Region |->
                      IF states[r] = Unseen THEN Silent
                      ELSE [type |-> "data_stale", state |-> states[r]]]
  BY DEF CheckStale, AnnounceStale, Publish
<1>3. \A r \in Region : states[r] = Events!StateIn(data, r) /\ states[r] # Unseen
  BY <1>1, StateIsAState, SameReading DEF Inv, StatesAreCurrent
<1>4. published' = [r \in Region |-> Events!Tells("data_stale", Events!StateIn(data, r))]
  BY <1>2, <1>3 DEF Events!Tells
<1> QED
  BY <1>1, <1>4 DEF Events!Announce, IsStale

\* The coordinator and the hub implement AlertEvents: every change between two
\* watched maps is told once and as what it is, and nothing else is told.
THEOREM ImplementsEvents == Spec => TellsEveryChange
<1>1. Init => Events!FeedInit
  BY DEF Init, HubInit, Events!FeedInit, IsStale, Silent, Events!Silent
<1>2. ASSUME Inv, [Next]_vars PROVE [Events!FeedNext]_(Events!feedState)
  <2>1. ASSUME NEW m \in Maps, Snapshot(m) PROVE Events!Receive
    BY <1>2, <2>1, SnapshotReceives
  <2>2. CASE GoStale
    <3>1. Events!Lapse
      BY <1>2, <2>2 DEF GoStale, NoEvents, IsStale, Silent, Inv, FlagsAgree,
                  Events!Lapse, Events!Silent
    <3> QED
      BY <3>1 DEF Events!FeedNext
  <2>3. CASE CheckStale
    BY <1>2, <2>3, CheckStaleAnnounces DEF Events!FeedNext
  <2>4. CASE Refresh
    <3>1. Events!Quiet
      BY <2>4 DEF Refresh, NoEvents, IsStale, Silent, Events!Quiet, Events!Silent
    <3> QED
      BY <3>1 DEF Events!FeedNext
  <2>5. ASSUME NEW r \in Region, AddEntity(r) PROVE Events!Quiet
    BY <2>5 DEF AddEntity, NoEvents, IsStale, Silent, Events!Quiet, Events!Silent
  <2>6. ASSUME NEW r \in Region, AddListener(r) \/ RemoveListener(r),
               UNCHANGED coordinatorVars
        PROVE  Events!Quiet
    <3>1. NoEvents /\ UNCHANGED <<knownLevel, staleAnnounced>>
      BY <2>6 DEF AddListener, RemoveListener
    <3> QED
      BY <2>6, <3>1 DEF coordinatorVars, NoEvents, IsStale, Silent,
                        Events!Quiet, Events!Silent
  <2>7. CASE UNCHANGED vars
    BY <2>7 DEF vars, hubVars, coordinatorVars, IsStale, Events!feedState
  <2> QED
    BY <2>1, <2>2, <2>3, <2>4, <2>5, <2>6, <2>7, <1>2 DEF Next, Events!FeedNext
<1> QED
  BY <1>1, <1>2, Invariance, PTL DEF Spec, TellsEveryChange, Events!EventsSafety

\* AlertEventHub.accept: a start counts as known only after a live map on which
\* the region was quiet.
THEOREM KnownStartSeen == Spec => KnownStartWasSeen
<1> DEFINE Start(r) == since[r] # "start" /\ since'[r] = "start"
           Seen(r)  == ~IsStale /\ ~StateIn(data, r).active /\ StateIn(data', r).active
<1>1. ASSUME Inv, NEW m \in Maps, Snapshot(m), NEW r \in Region, Start(r) PROVE Seen(r)
  <2> DEFINE news == [s \in Asked(m) |-> RegionState(Collected(m)[s])]
  <2>1. ~(Live /\ ~Changed(m))
    BY <1>1 DEF Snapshot, PublishEvents
  <2>2. Accept(news, Live)
    BY <1>1, <2>1 DEF Snapshot, PublishEvents
  <2>3. DOMAIN news = Asked(m)
    OBVIOUS
  <2>4. r \in Asked(m) => news[r] = StateIn(m, r)
    BY <1>1, SnapshotNews DEF Inv
  <2> HIDE DEF news
  <2>5. since'[r] = IF r \notin DOMAIN news THEN since[r]
                    ELSE SinceAfter(since[r], Kind(news, Live, r), news[r].active)
    BY <2>2 DEF Accept
  <2>6. r \in Asked(m) /\ Kind(news, Live, r) = "started"
    BY <1>1, <2>3, <2>5 DEF SinceAfter
  <2>7. Live /\ Classify(states[r], StateIn(m, r), knownLevel[r]) = "started"
    BY <2>3, <2>4, <2>6 DEF Kind
  <2>8. ~IsStale /\ received /\ states[r] = StateIn(data, r)
    BY <1>1, <2>7 DEF Live, IsStale, Inv, StatesAreCurrent
  <2>9. ~StateIn(data, r).active /\ StateIn(m, r).active
    BY <2>7, <2>8, StateIsAState DEF Classify
  <2> QED
    BY <1>1, <2>8, <2>9 DEF Snapshot
<1>2. ASSUME Inv, [Next]_vars, NEW r \in Region, Start(r) PROVE Seen(r)
  <2>1. CASE \E m \in Maps : Snapshot(m)
    BY <1>1, <1>2, <2>1
  <2>2. CASE ~\E m \in Maps : Snapshot(m)
    <3>1. since' = since
      BY <1>2, <2>2 DEF Next, GoStale, CheckStale, AnnounceStale, Refresh, AddEntity,
                        AddListener, RemoveListener, vars, hubVars
    <3> QED
      BY <1>2, <3>1
  <2> QED
    BY <2>1, <2>2
<1>3. Inv /\ [Next]_vars => [\A r \in Region : Start(r) => Seen(r)]_vars
  BY <1>2
<1> QED
  BY <1>3, Invariance, PTL DEF Spec, KnownStartWasSeen

-----------------------------------------------------------------------------
(* Types: what is aggregated from a map is a state that events may carry.   *)

Less == {p \in Nat \X Nat : p[1] < p[2]}

LEMMA LeastOf ==
    ASSUME NEW S, S \subseteq Nat, S # {}
    PROVE  Min(S) \in S
<1>1. IsWellFoundedOn(Less, Nat)
  BY NatLessThanWellFounded DEF OpToRel, Less
<1>2. PICK x \in S : \A y \in S : ~(<<y, x>> \in Less)
  BY <1>1, WFMin
<1>3. ASSUME NEW y \in S
      PROVE  x =< y
  <2>1. x \in Nat /\ y \in Nat
    BY <1>2
  <2>2. <<y, x>> \in Less <=> y < x
    BY <2>1 DEF Less
  <2> QED
    BY <1>2, <2>1, <2>2
<1> QED
  BY <1>2, <1>3 DEF Min

Ranks == {None, Partial, Unrecognized, Whole}

LEMMA GreatestRank ==
    ASSUME NEW S, S \subseteq Ranks, S # {}
    PROVE  Max(S) \in S
<1> USE DEF Ranks, None, Partial, Unrecognized, Whole
<1>1. \E x \in S : \A y \in S : x >= y
  <2>1. CASE 3 \in S
    BY <2>1
  <2>2. CASE 3 \notin S /\ 2 \in S
    BY <2>2
  <2>3. CASE 3 \notin S /\ 2 \notin S /\ 1 \in S
    BY <2>3
  <2>4. CASE 3 \notin S /\ 2 \notin S /\ 1 \notin S
    <3>1. \A x \in S : x = 0
      BY <2>4
    <3>2. 0 \in S
      BY <3>1
    <3> QED
      BY <3>1, <3>2
  <2> QED
    BY <2>1, <2>2, <2>3, <2>4
<1> QED
  BY <1>1 DEF Max

\* Alerts stay alerts when their copies are joined.
LEMMA AlertsOfType ==
    ASSUME NEW m \in Map, NEW r \in Region
    PROVE  RegionAlerts(m, r) \subseteq Alert
<1>1. Found(m, r) \subseteq Alert
  <2>1. \A p \in Sources(r) : p \in Place
    BY TreeAssumption DEF Sources, Own
  <2>2. \A p \in Place : m.alerts[p] \subseteq Alert
    BY DEF Map
  <2> QED
    BY <2>1, <2>2 DEF Found
<1> SUFFICES ASSUME NEW a \in Found(m, r)
             PROVE  [a EXCEPT !.levels =
                       UNION {b.levels : b \in {c \in Found(m, r) : SameAlert(a, c)}}] \in Alert
  BY DEF RegionAlerts
<1>2. UNION {b.levels : b \in {c \in Found(m, r) : SameAlert(a, c)}} \in SUBSET Level
  BY <1>1 DEF Alert
<1> HIDE DEF SameAlert
<1> QED
  BY <1>1, <1>2 DEF Alert

LEMMA CoverageOfType ==
    ASSUME NEW found \in SUBSET Alert, NEW r \in Region
    PROVE  CoverageByType(found, r) \in [{a.type : a \in found} -> Ranks]
<1> SUFFICES ASSUME NEW t \in {a.type : a \in found}
             PROVE  Max({CoverageOf(a, r) : a \in {b \in found : b.type = t}}) \in Ranks
  BY DEF CoverageByType
<1> DEFINE S == {CoverageOf(a, r) : a \in {b \in found : b.type = t}}
<1>1. S \subseteq Ranks /\ S # {}
  BY DEF CoverageOf, Ranks
<1> HIDE DEF S
<1>2. Max(S) \in Ranks
  BY <1>1, GreatestRank
<1> QED
  BY <1>2 DEF S

LEMMA PictureOfType ==
    ASSUME NEW found \in SUBSET Alert, NEW r \in Region
    PROVE  Picture(found, CoverageByType(found, r)) \in State
<1> DEFINE coverage == CoverageByType(found, r)
           top      == Max({None} \cup {coverage[t] : t \in DOMAIN coverage})
           first    == IF found = {} THEN None ELSE Min({a.declared : a \in found})
<1>1. coverage \in [{a.type : a \in found} -> Ranks]
  BY CoverageOfType
<1>2. DOMAIN coverage \subseteq Threat
  BY <1>1 DEF Alert
<1>3. top \in Ranks
  <2> DEFINE S == {None} \cup {coverage[t] : t \in DOMAIN coverage}
  <2>1. S \subseteq Ranks /\ S # {}
    <3> HIDE DEF coverage
    <3> QED
      BY <1>1 DEF Ranks
  <2> HIDE DEF S
  <2>2. Max(S) \in S
    BY <2>1, GreatestRank
  <2> QED
    BY <2>1, <2>2 DEF S
<1>4. first \in Stamp \cup {None}
  <2> SUFFICES ASSUME found # {}
               PROVE  Min({a.declared : a \in found}) \in Stamp
    OBVIOUS
  <2> DEFINE S == {a.declared : a \in found}
  <2>1. S \subseteq Stamp /\ S # {}
    BY DEF Alert
  <2>2. Stamp \subseteq Nat
    BY TreeAssumption
  <2> HIDE DEF S
  <2>3. Min(S) \in S
    BY <2>1, <2>2, LeastOf
  <2> QED
    BY <2>1, <2>3 DEF S
<1>5. (found # {}) \in BOOLEAN
  OBVIOUS
<1>6. TopLevel(AirLevels(found)) \in {"none", "unrecognized", "yellow", "red"}
  BY DEF TopLevel
<1>7. Picture(found, coverage) =
        [active |-> found # {}, types |-> DOMAIN coverage,
         level |-> TopLevel(AirLevels(found)), coverage |-> top, started |-> first]
  BY DEF Picture
<1> HIDE DEF coverage, top, first
<1>8. Picture(found, coverage) \in State
  BY <1>2, <1>3, <1>4, <1>5, <1>6, <1>7 DEF State, Ranks
<1> QED
  BY <1>8 DEF coverage

LEMMA StateInOfType ==
    ASSUME NEW m \in Maps, NEW r \in Region
    PROVE  StateIn(m, r) \in State
<1>1. RegionAlerts(m, r) \in SUBSET Alert
  BY AlertsOfType, MapsAssumption
<1>2. StateIn(m, r) = Picture(RegionAlerts(m, r), CoverageByType(RegionAlerts(m, r), r))
  BY DEF StateIn, RegionState, View
<1> QED
  BY <1>1, <1>2, PictureOfType

\* What the hub keeps and what it hands out.
HubMemory ==
    /\ since \in [Region -> {"none", "look", "start"}]
    /\ knownLevel \in [Region -> {"none"} \cup Known]
    /\ states \in [Region -> State \cup {Unseen}]

HubOutbox ==
    /\ undelivered \in [Region -> Event \cup {Silent}]
    /\ published \in [Region -> Event \cup {Silent}]
    /\ heard \in [Region -> Event \cup {Silent}]

LEMMA TypeFromParts == Inv /\ HubMemory /\ HubOutbox => TypeOK
<1> SUFFICES ASSUME Inv, HubMemory, HubOutbox PROVE TypeOK
  OBVIOUS
<1>1. CoordinatorTypeOK
  BY DEF Inv, Shape, FlagsAgree, CoordinatorTypeOK
<1>2. bootstrapped \in BOOLEAN /\ staleAnnounced \in BOOLEAN /\ listening \in SUBSET Region
  BY DEF Inv, Shape, FlagsAgree
<1> QED
  BY <1>1, <1>2 DEF TypeOK, HubTypeOK, HubMemory, HubOutbox

\* Events are handed out, kept or replaced as they are.
LEMMA PublishType ==
    ASSUME HubOutbox, NEW events \in [Region -> Event \cup {Silent}], Publish(events)
    PROVE  HubOutbox'
<1>1. published' \in [Region -> Event \cup {Silent}]
  BY DEF Publish
<1>2. undelivered' \in [Region -> Event \cup {Silent}]
  BY DEF Publish, HubOutbox
<1>3. heard' \in [Region -> Event \cup {Silent}]
  BY DEF Publish, HubOutbox
<1> QED
  BY <1>1, <1>2, <1>3 DEF HubOutbox

LEMMA NoEventsType ==
    ASSUME HubOutbox, NoEvents,
           undelivered' \in [Region -> Event \cup {Silent}],
           heard' \in [Region -> Event \cup {Silent}]
    PROVE  HubOutbox'
BY DEF HubOutbox, NoEvents

LEMMA AcceptType ==
    ASSUME HubMemory, HubOutbox, NEW rs \in SUBSET Region, NEW news \in [rs -> State],
           NEW live \in BOOLEAN, Accept(news, live)
    PROVE  HubMemory' /\ HubOutbox'
<1>1. DOMAIN news = rs
  OBVIOUS
<1>2. \A r \in Region : Kind(news, live, r) \in {"none"} \cup EventType
  BY DEF Kind, Classify, EventType
<1>3. states' \in [Region -> State \cup {Unseen}]
  BY <1>1 DEF Accept, HubMemory
<1>4. knownLevel' \in [Region -> {"none"} \cup Known]
  BY <1>1 DEF Accept, HubMemory, LevelAfter
<1>5. since' \in [Region -> {"none", "look", "start"}]
  <2>1. \A r \in Region : r \in rs =>
          SinceAfter(since[r], Kind(news, live, r), news[r].active) \in {"none", "look", "start"}
    BY DEF SinceAfter, HubMemory
  <2>2. since' = [r \in Region |-> IF r \notin DOMAIN news THEN since[r]
                     ELSE SinceAfter(since[r], Kind(news, live, r), news[r].active)]
    BY DEF Accept
  <2> QED
    BY <1>1, <2>1, <2>2 DEF HubMemory
<1>6. HubOutbox'
  <2> DEFINE events == [r \in Region |-> IF Kind(news, live, r) = "none" THEN Silent
                          ELSE [type |-> Kind(news, live, r), state |-> news[r]]]
  <2>1. events \in [Region -> Event \cup {Silent}]
    <3> SUFFICES ASSUME NEW r \in Region, Kind(news, live, r) # "none"
                 PROVE  [type |-> Kind(news, live, r), state |-> news[r]] \in Event
      OBVIOUS
    <3>1. r \in rs
      BY <1>1 DEF Kind
    <3> QED
      BY <1>2, <3>1 DEF Event
  <2>2. Publish(events)
    BY DEF Accept
  <2> HIDE DEF events
  <2> QED
    BY <2>1, <2>2, PublishType
<1> QED
  BY <1>3, <1>4, <1>5, <1>6 DEF HubMemory

LEMMA SnapshotType ==
    ASSUME Inv, HubMemory, HubOutbox, NEW m \in Maps, Snapshot(m)
    PROVE  HubMemory' /\ HubOutbox'
<1>1. CASE Live /\ ~Changed(m)
  <2>1. NoEvents /\ UNCHANGED <<states, since, knownLevel, undelivered, heard>>
    BY <1>1 DEF Snapshot, PublishEvents
  <2> QED
    BY <2>1, NoEventsType DEF HubMemory, HubOutbox
<1>2. CASE ~(Live /\ ~Changed(m))
  <2> DEFINE news == [r \in Asked(m) |-> RegionState(Collected(m)[r])]
  <2>1. Accept(news, Live)
    BY <1>2 DEF Snapshot, PublishEvents
  <2>2. Asked(m) \in SUBSET Region
    BY DEF Asked, Affected, Dependents
  <2>3. \A r \in Asked(m) : RegionState(Collected(m)[r]) \in State
    BY <2>2, SnapshotNews, StateInOfType DEF Inv
  <2>4. news \in [Asked(m) -> State]
    BY <2>3
  <2>5. Live \in BOOLEAN
    BY DEF Live, IsStale, Inv, FlagsAgree
  <2> HIDE DEF news
  <2> QED
    BY <2>1, <2>2, <2>4, <2>5, AcceptType
<1> QED
  BY <1>1, <1>2

LEMMA CheckStaleType ==
    ASSUME Inv, HubMemory, HubOutbox, CheckStale
    PROVE  HubMemory' /\ HubOutbox'
<1> DEFINE events == [r \in Region |-> IF states[r] = Unseen THEN Silent
                        ELSE [type |-> "data_stale", state |-> states[r]]]
<1>1. Publish(events) /\ UNCHANGED <<states, since, knownLevel>>
  BY DEF CheckStale, AnnounceStale
<1>2. events \in [Region -> Event \cup {Silent}]
  BY DEF HubMemory, Event, EventType
<1> HIDE DEF events
<1> QED
  BY <1>1, <1>2, PublishType DEF HubMemory

LEMMA ListenerType ==
    ASSUME HubMemory, HubOutbox, NEW r \in Region, AddListener(r) \/ RemoveListener(r)
    PROVE  HubMemory' /\ HubOutbox'
<1>1. NoEvents /\ UNCHANGED <<states, since, knownLevel>>
  BY DEF AddListener, RemoveListener
<1>2. /\ undelivered' \in [Region -> Event \cup {Silent}]
      /\ heard' \in [Region -> Event \cup {Silent}]
  BY DEF AddListener, RemoveListener, HubOutbox
<1> QED
  BY <1>1, <1>2, NoEventsType DEF HubMemory

LEMMA HubStep == Inv /\ HubMemory /\ HubOutbox /\ [Next]_vars => HubMemory' /\ HubOutbox'
<1> SUFFICES ASSUME Inv, HubMemory, HubOutbox, [Next]_vars
             PROVE  HubMemory' /\ HubOutbox'
  OBVIOUS
<1>1. ASSUME NEW m \in Maps, Snapshot(m) PROVE HubMemory' /\ HubOutbox'
  BY <1>1, SnapshotType
<1>2. CASE CheckStale
  BY <1>2, CheckStaleType
<1>3. ASSUME NEW r \in Region, AddListener(r) \/ RemoveListener(r)
      PROVE  HubMemory' /\ HubOutbox'
  BY <1>3, ListenerType
<1>4. ASSUME NoEvents, UNCHANGED <<states, since, knownLevel, undelivered, heard>>
      PROVE  HubMemory' /\ HubOutbox'
  BY <1>4, NoEventsType DEF HubMemory, HubOutbox
<1>5. CASE GoStale \/ Refresh \/ \E r \in Region : AddEntity(r)
  BY <1>4, <1>5 DEF GoStale, Refresh, AddEntity
<1>6. CASE UNCHANGED vars
  BY <1>6 DEF vars, hubVars, HubMemory, HubOutbox
<1> QED
  BY <1>1, <1>2, <1>3, <1>5, <1>6 DEF Next

\* Coordinator, hub and every event keep their types; in particular the aggregation
\* of any map is a state that events may carry.
THEOREM TypeCorrect == Spec => []TypeOK
<1>1. Init => HubMemory /\ HubOutbox
  BY DEF Init, HubInit, HubMemory, HubOutbox
<1>2. HubMemory /\ HubOutbox /\ Inv /\ [Next]_vars => HubMemory' /\ HubOutbox'
  BY HubStep
<1> QED
  BY <1>1, <1>2, Invariance, TypeFromParts, PTL DEF Spec

=============================================================================
