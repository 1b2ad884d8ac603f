----------------------------- MODULE AlertEvents -----------------------------
(***************************************************************************)
(* What automations are promised of a region's events, whatever is cached, *)
(* skipped or computed incrementally underneath: each accepted map is      *)
(* compared with the one before it, every difference is one event, what    *)
(* happened while nobody watched is never guessed, and data that goes      *)
(* stale is told once.                                                     *)
(***************************************************************************)
EXTENDS RegionView

CONSTANTS Maps, NoMap

VARIABLES
    map,        \* the last map
    watched,    \* it is live: the next difference is a change that was seen
    seen,       \* a map was received in this run
    announced,  \* that the map is stale was told
    rising,     \* per region, the last known level of the ongoing air alert
    published   \* the events of this step, per region

feedState == <<map, watched, seen, announced, rising, published>>

\* No event.
Silent == [type |-> "none"]

Tells(type, state) == [type |-> type, state |-> state]

\* What is told of a change that was seen.
Change(old, new, known) ==
    CASE old = new                          -> Silent
      [] ~old.active /\ new.active          -> Tells("started", new)
      [] old.active /\ ~new.active          -> Tells("cleared", new)
      [] OTHER ->
           IF /\ old.level # "none" /\ new.level \in Known
              /\ AirRank[new.level] > AirRank[IF known = "none" THEN old.level ELSE known]
           THEN Tells("escalated", new)
           ELSE Tells(IF new.types \subseteq old.types THEN "updated" ELSE "threat_added", new)

\* The last known level lives as long as the air alert.
LevelAfter(known, new) ==
    IF new.level \in Known THEN new.level
    ELSE IF new.level = "none" THEN "none" ELSE known

FeedInit ==
    /\ map \in Maps \cup {NoMap}
    /\ watched = FALSE /\ seen = FALSE /\ announced = FALSE
    /\ rising = [r \in Region |-> "none"]
    /\ published = [r \in Region |-> Silent]

Receive ==
    /\ map' \in Maps
    /\ watched' = TRUE /\ seen' = TRUE /\ announced' = FALSE
    /\ rising' = [r \in Region |-> LevelAfter(rising[r], StateIn(map', r))]
    /\ published' = [r \in Region |->
          IF watched THEN Change(StateIn(map, r), StateIn(map', r), rising[r])
          ELSE Tells("resynced", StateIn(map', r))]

\* Nobody has watched for too long.
Lapse ==
    /\ watched
    /\ watched' = FALSE
    /\ published' = [r \in Region |-> Silent]
    /\ UNCHANGED <<map, seen, announced, rising>>

Announce ==
    /\ seen /\ ~watched /\ ~announced
    /\ announced' = TRUE
    /\ published' = [r \in Region |-> Tells("data_stale", StateIn(map, r))]
    /\ UNCHANGED <<map, watched, seen, rising>>

\* The events of the last step are over.
Quiet ==
    /\ published' = [r \in Region |-> Silent]
    /\ UNCHANGED <<map, watched, seen, announced, rising>>

FeedNext == Receive \/ Lapse \/ Announce \/ Quiet

EventsSafety == FeedInit /\ [][FeedNext]_feedState
EventsSpec   == EventsSafety /\ WF_feedState(Announce)
=============================================================================
