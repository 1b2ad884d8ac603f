---------------------------- MODULE AlertEventHub ----------------------------
(***************************************************************************)
(* events.py: the hub that turns accepted region states into events.  The  *)
(* coordinator says when (Coordinator); the hub remembers what it told,    *)
(* and keeps an event for which nobody listens yet.                        *)
(***************************************************************************)
EXTENDS RegionView

VARIABLES
    states,          \* _states, or Unseen
    since,           \* _since: how the ongoing alert was first seen
    knownLevel,      \* _known_level
    undelivered,     \* _undelivered, or Silent
    listening,       \* regions whose event entity listens
    bootstrapped,
    staleAnnounced,
    published,       \* the events of this step, per region; the journal gets them all
    heard            \* the last event of each listening entity

hubVars == <<states, since, knownLevel, undelivered, listening, bootstrapped,
             staleAnnounced, published, heard>>

Unseen == [active |-> "unseen"]
Silent == [type |-> "none"]

EventType == {"started", "cleared", "threat_added", "escalated", "updated",
              "data_stale", "resynced"}

State == [active : BOOLEAN, types : SUBSET Threat,
          level : {"none", "unrecognized", "yellow", "red"},
          coverage : {None, Partial, Unrecognized, Whole}, started : Stamp \cup {None}]

Event == [type : EventType, state : State]

HubTypeOK ==
    /\ states \in [Region -> State \cup {Unseen}]
    /\ since \in [Region -> {"none", "look", "start"}]
    /\ knownLevel \in [Region -> {"none"} \cup Known]
    /\ undelivered \in [Region -> Event \cup {Silent}]
    /\ listening \in SUBSET Region
    /\ bootstrapped \in BOOLEAN
    /\ staleAnnounced \in BOOLEAN
    /\ published \in [Region -> Event \cup {Silent}]
    /\ heard \in [Region -> Event \cup {Silent}]

HubInit ==
    /\ states = [r \in Region |-> Unseen]
    /\ since = [r \in Region |-> "none"]
    /\ knownLevel = [r \in Region |-> "none"]
    /\ undelivered = [r \in Region |-> Silent]
    /\ listening = {}
    /\ bootstrapped = FALSE /\ staleAnnounced = FALSE
    /\ published = [r \in Region |-> Silent]
    /\ heard = [r \in Region |-> Silent]

-----------------------------------------------------------------------------

\* Mutated form of Classify: the last known level is not looked at.
ClassifyByLastMap(old, new, known) ==
    IF old = new THEN "none"
    ELSE IF new.active # old.active THEN IF new.active THEN "started" ELSE "cleared"
    ELSE IF /\ old.level # "none" /\ new.level \in Known
            /\ AirRank[new.level] > AirRank[old.level]
    THEN "escalated"
    ELSE IF new.types \ old.types # {} THEN "threat_added" ELSE "updated"

\* classify: the one event type of a live change, or "none".
Classify(old, new, known) ==
    IF old = new THEN "none"
    ELSE IF new.active # old.active THEN IF new.active THEN "started" ELSE "cleared"
    ELSE IF /\ old.level # "none" /\ new.level \in Known
            /\ AirRank[new.level] > AirRank[IF known = "none" THEN old.level ELSE known]
    THEN "escalated"
    ELSE IF new.types \ old.types # {} THEN "threat_added" ELSE "updated"

\* Mutated form of Publish: an event that waits for its listener is not replaced.
PublishKeepsFirst(events) ==
    /\ published' = events
    /\ undelivered' = [r \in Region |->
          IF events[r] = Silent \/ undelivered[r] # Silent THEN undelivered[r]
          ELSE IF r \in listening THEN Silent ELSE events[r]]
    /\ heard' = [r \in Region |->
          IF events[r] # Silent /\ r \in listening THEN events[r] ELSE heard[r]]

\* _publish: to the region's listener, or kept for it.
Publish(events) ==
    /\ published' = events
    /\ undelivered' = [r \in Region |->
          IF events[r] = Silent THEN undelivered[r]
          ELSE IF r \in listening THEN Silent ELSE events[r]]
    /\ heard' = [r \in Region |->
          IF events[r] # Silent /\ r \in listening THEN events[r] ELSE heard[r]]

\* Mutated form of LevelAfter: any level is remembered.
LastLevel(known, level) == level

\* The last known level, which lives as long as the air alert.
LevelAfter(known, level) ==
    IF level \in Known THEN level ELSE IF level = "none" THEN "none" ELSE known

\* How the ongoing alert was first seen.
SinceAfter(first, kind, active) ==
    IF kind = "none" THEN first
    ELSE IF ~active THEN "none"
    ELSE IF first # "none" THEN first ELSE IF kind = "started" THEN "start" ELSE "look"

\* The type of the event of one region.
Kind(news, live, r) ==
    IF r \notin DOMAIN news THEN "none"
    ELSE IF live /\ states[r] # Unseen THEN Classify(states[r], news[r], knownLevel[r])
    ELSE "resynced"

\* accept: `news` are the states of some regions.
Accept(news, live) ==
    /\ states' = [r \in Region |-> IF r \in DOMAIN news THEN news[r] ELSE states[r]]
    /\ knownLevel' = [r \in Region |->
          IF r \notin DOMAIN news THEN knownLevel[r]
          ELSE LevelAfter(knownLevel[r], news[r].level)]
    /\ since' = [r \in Region |->
          IF r \notin DOMAIN news THEN since[r]
          ELSE SinceAfter(since[r], Kind(news, live, r), news[r].active)]
    /\ Publish([r \in Region |-> IF Kind(news, live, r) = "none" THEN Silent
                                 ELSE [type |-> Kind(news, live, r), state |-> news[r]]])
    /\ bootstrapped' = TRUE /\ staleAnnounced' = FALSE
    /\ UNCHANGED listening

NoEvents == published' = [r \in Region |-> Silent]

\* Mutated form of StaleIsTold: it is told again and again.
StaleIsNeverTold == ~bootstrapped

\* announce_stale returns early if it has nothing to tell.
StaleIsTold == staleAnnounced \/ ~bootstrapped

\* announce_stale
AnnounceStale ==
    /\ ~StaleIsTold
    /\ staleAnnounced' = TRUE
    /\ Publish([r \in Region |-> IF states[r] = Unseen THEN Silent
                                 ELSE [type |-> "data_stale", state |-> states[r]]])
    /\ UNCHANGED <<states, since, knownLevel, listening, bootstrapped>>

\* add_listener: what waited is delivered.
AddListener(r) ==
    /\ r \notin listening
    /\ listening' = listening \cup {r}
    /\ heard' = [heard EXCEPT ![r] = undelivered[r]]
    /\ undelivered' = [undelivered EXCEPT ![r] = Silent]
    /\ NoEvents
    /\ UNCHANGED <<states, since, knownLevel, bootstrapped, staleAnnounced>>

\* The entity goes away.
RemoveListener(r) ==
    /\ r \in listening
    /\ listening' = listening \ {r}
    /\ heard' = [heard EXCEPT ![r] = Silent]
    /\ NoEvents
    /\ UNCHANGED <<states, since, knownLevel, undelivered, bootstrapped, staleAnnounced>>
=============================================================================
