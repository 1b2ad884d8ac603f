------------------------------- MODULE MigStatus -------------------------------
(***************************************************************************)
(* What only the WebSocket carries: the flights of MiG-31K aircraft.  The  *)
(* coordinator keeps the last status (_accept_mig, mig_state), a sensor    *)
(* shows it while the socket is in use and the data are fresh, and an event *)
(* entity announces transitions.  Sensors whose value ages (entity.py) are *)
(* written when a listener is called and on a tick of their own.           *)
(*                                                                         *)
(* This extends FeedFreshness, whose steps move the mode and the ages.     *)
(***************************************************************************)
EXTENDS FeedFreshness

CONSTANTS
    TickInterval,   \* STALENESS_TICK of the entities
    MaxFlights, MaxReloads   \* bounds

ASSUME MigAssumption ==
    TickInterval \in Nat \ {0} /\ MaxFlights \in Nat /\ MaxReloads \in Nat

VARIABLES
    sky,        \* what the official map says now
    flights,    \* how many flights there were
    mig,        \* _mig, and with it _mig_announced, or Unknown
    shown,      \* the state of the MiG sensor
    verdict,    \* the state of the data_stale sensor, and the mode it names
    baseline,   \* _published of both sensors
    nextTick,   \* time until the entities' tick
    fired,      \* the event of the last step, or Unknown
    told,       \* ghost: the flight was announced, or was there before the start
    startups    \* how often the entry was reloaded

migVars  == <<sky, flights, mig, shown, verdict, baseline, nextTick, fired, told, startups>>
allVars  == <<vars, migVars>>

Unknown  == "unknown"
Statuses == {"none", "takeoff", "launch"}

IsStale == WasStale

MigTypeOK ==
    /\ sky \in Statuses /\ flights \in 0 .. MaxFlights
    /\ mig \in Statuses \cup {Unknown}
    /\ shown \in Statuses \cup {Unknown}
    /\ verdict \in BOOLEAN \X {"websocket", "polling"}
    /\ baseline = <<shown, verdict>>
    /\ nextTick \in 0 .. TickInterval
    /\ fired \in {"takeoff", "launch", "cleared", Unknown}
    /\ told \in BOOLEAN /\ startups \in 0 .. MaxReloads

\* The types of FeedFreshness, too.
AllTypesOK == TypeOK /\ MigTypeOK

\* mig_state, for a mode, a staleness and a last status.
MigState(m, stale, last) == IF m # "websocket" \/ stale THEN Unknown ELSE last

MigNow == MigState(mode, IsStale, mig)

MigInit ==
    /\ Init
    /\ sky \in {"none", "takeoff"} /\ flights = 0
    /\ mig = Unknown /\ shown = Unknown
    /\ verdict = <<TRUE, "websocket">>
    /\ baseline = <<shown, verdict>>
    /\ nextTick = TickInterval
    /\ fired = Unknown /\ told = (sky # "none") /\ startups = 0

-----------------------------------------------------------------------------
(* The sensors.                                                            *)

\* What the sensors would show.
Keys == <<MigNow, <<IsStale, mode>>>>

\* A sensor that is called by a listener takes the key for published.
Followed(keys) == keys

\* The sensors are called: one whose key is the published one writes nothing.
WriteSensors(published) ==
    /\ shown' = IF Keys'[1] = baseline[1] THEN shown ELSE Keys'[1]
    /\ verdict' = IF Keys'[2] = baseline[2] THEN verdict ELSE Keys'[2]
    /\ baseline' = published

HearSensors == WriteSensors(Followed(Keys'))

SensorsRest == UNCHANGED <<shown, verdict, baseline>>

\* Mutated form of Called: a feed that recovers with the same map calls nobody.
CalledOnChange(changed) == changed

\* handle_snapshot calls the listeners.
Called(changed) == changed \/ WasStale

-----------------------------------------------------------------------------

\* Mutated form of Transition: a launch flag that goes down is a take-off.
TransitionAny(previous, status) == previous \notin {Unknown, status}

\* _accept_mig announces a change of the status, but not the first status of a
\* run and not the end of a launch.
Transition(previous, status) ==
    /\ previous \notin {Unknown, status}
    /\ ~(previous = "launch" /\ status = "takeoff")

\* Mutated form of EventOf: the status is announced as it is.
EventOfStatus(status) == status

\* Takeoff, launch or cleared.
EventOf(status) == IF status = "none" THEN "cleared" ELSE status

\* What parse_mig reads from a publication: the status, or nothing if its fields
\* are missing or damaged.
Published == {sky, Unknown}

\* A publication, with the status of the sky or with none.  Within the step the mode
\* changes first, and the sensors that hear of it may write the status from before
\* an outage; what they write last is what is modelled.
PushMig(changed, says) ==
    /\ Push
    /\ mig' = IF says = Unknown THEN mig ELSE says
    /\ IF Called(changed) \/ mode # "websocket" \/ mig' # mig
         THEN HearSensors ELSE SensorsRest
    /\ fired' = IF says # Unknown /\ Transition(mig, says) THEN EventOf(says) ELSE Unknown
    /\ told' = (told \/ fired' = "takeoff")
    /\ UNCHANGED <<sky, flights, nextTick, startups>>

\* A map comes by HTTP, and perhaps with it the change to polling.
HttpMig(changed) ==
    /\ SeedOk \/ RequestOk
    /\ UNCHANGED <<sky, flights, mig, nextTick, told, startups>>
    /\ IF Called(changed) \/ mode' # mode
         THEN HearSensors ELSE SensorsRest
    /\ fired' = Unknown

\* handle_mode_change
DegradeMig ==
    /\ Degrade
    /\ UNCHANGED <<sky, flights, mig, nextTick, told, startups>>
    /\ HearSensors
    /\ fired' = Unknown

\* _async_tick of the sensors.
Tick ==
    /\ nextTick = 0
    /\ nextTick' = TickInterval
    /\ UNCHANGED <<vars, sky, flights, mig, told, startups>>
    /\ WriteSensors(Keys')
    /\ fired' = Unknown

ElapseMig ==
    /\ Elapse
    /\ nextTick > 0 /\ nextTick' = nextTick - 1
    /\ SensorsRest /\ fired' = Unknown
    /\ UNCHANGED <<sky, flights, mig, told, startups>>

\* Steps that bring no map and change no mode.
OtherMig ==
    /\ SeedFail \/ WatchdogLook \/ PollAsk \/ RequestSuperseded \/ RequestFail \/ CheckStale
    /\ SensorsRest /\ fired' = Unknown
    /\ UNCHANGED <<sky, flights, mig, nextTick, told, startups>>

\* A take-off, a launch, the end of the launch flag, the end of the flight.
SkyChanges ==
    /\ \/ /\ sky = "none" /\ flights < MaxFlights
          /\ sky' = "takeoff" /\ flights' = flights + 1 /\ told' = FALSE
       \/ /\ sky # "none"
          /\ sky' \in Statuses \ {sky}
          /\ UNCHANGED <<flights, told>>
    /\ SensorsRest /\ fired' = Unknown
    /\ UNCHANGED <<vars, mig, nextTick, startups>>

\* The entry is reloaded: coordinator, transports and entities begin anew.
Reload ==
    /\ startups < MaxReloads
    /\ startups' = startups + 1
    /\ age' = 0 /\ have' = FALSE /\ mode' = "websocket" /\ failed' = FALSE
    /\ watch' = WatchdogInterval /\ watching' = FALSE /\ sinceCheck' = Old
    /\ pause' = 0 /\ asking' = FALSE
    /\ request' = NoRequest /\ outdated' = FALSE /\ blocked' = 0
    /\ nextStale' = StaleInterval /\ issue' = FALSE
    /\ mig' = Unknown
    /\ shown' = Unknown
    /\ verdict' = <<TRUE, "websocket">> /\ baseline' = <<shown', verdict'>>
    /\ nextTick' = TickInterval
    /\ fired' = Unknown /\ told' = (sky # "none")
    /\ UNCHANGED <<sky, flights>>

MigNext ==
    \/ \E changed \in BOOLEAN, says \in Published : PushMig(changed, says)
    \/ \E changed \in BOOLEAN : HttpMig(changed)
    \/ DegradeMig \/ Tick \/ ElapseMig \/ OtherMig
    \/ SkyChanges \/ Reload

MigSpec == MigInit /\ [][MigNext]_allVars

-----------------------------------------------------------------------------
(* Properties.                                                             *)

\* The time since the data went stale is at most a tick.
JustStale == age \in StaleAfter + 1 .. StaleAfter + TickInterval

\* The sensor shows what is known of the sky, whatever called it last; only
\* that the data went stale may wait for the sensor's tick (entity.py:67-96).
MigIsShown == shown = MigNow \/ (JustStale /\ MigNow = Unknown)

\* data_stale tells the verdict and the mode, within a tick.
StaleIsShown == verdict = <<IsStale, mode>> \/ (JustStale /\ verdict[2] = mode)

\* No gate withholds what either sensor has to tell.
SensorsAreCurrent == MigIsShown /\ StaleIsShown

\* A flight is announced once, and not at all if it was under way when the entry
\* was loaded, whatever publications were missed (coordinator.py:293-308).
OneTakeoffPerFlight == [][fired' = "takeoff" => ~told]_allVars
=============================================================================
