---------------------------- MODULE FeedFreshness ----------------------------
(***************************************************************************)
(* The clocks that TransportSupervisor abstracts from: how old the newest  *)
(* alert map can get before somebody asks for a newer one, and when the    *)
(* coordinator calls the feed stale.  Time passes in steps of one unit;    *)
(* a timer that is due is served before time passes on.                    *)
(*                                                                         *)
(* The socket, the failures of the WebSocket and the order of wake-ups are *)
(* those of TransportSupervisor; here a publication may come at any time,  *)
(* and the transport may degrade to polling at any time.                   *)
(***************************************************************************)
EXTENDS Integers

CONSTANTS
    StaleAfter,        \* STALE_AFTER_SECONDS of the coordinator
    CheckAfter,        \* CROSS_CHECK_AFTER_SECONDS, stale_after of the supervisor
    WatchdogInterval,  \* watchdog_interval
    Timeout,           \* DEFAULT_TIMEOUT of the request
    PollInterval,      \* poll_interval
    MaxBackoff,        \* the longest pause of a poll loop that failed
    MaxRetryAfter,     \* the longest Retry-After accepted
    StaleInterval      \* how often async_check_stale runs

ASSUME IntervalAssumption ==
    /\ StaleAfter \in Nat /\ CheckAfter \in Nat
    /\ WatchdogInterval \in Nat \ {0} /\ Timeout \in Nat \ {0}
    /\ PollInterval \in Nat \ {0} /\ MaxBackoff \in Nat /\ MaxRetryAfter \in Nat
    /\ StaleInterval \in Nat \ {0}
    /\ PollInterval <= MaxBackoff

\* const.py: "one watchdog tick plus a request timeout fit in the margin".
ASSUME MarginAssumption == CheckAfter + WatchdogInterval + Timeout <= StaleAfter

\* A poll loop that lost a request pauses for less than the quiet a cross-check
\* waits for: 30 s and 300 s against 720 s.
ASSUME BackoffAssumption == Timeout + MaxBackoff <= CheckAfter

NoRequest == -1

\* Ages beyond this are all alike: the feed is stale and was reported.
Old == StaleAfter + StaleInterval + CheckAfter + 1

VARIABLES
    age,        \* time since the last success, or since the start
    have,       \* some map was accepted
    mode,
    watch,      \* time until the watchdog looks again
    watching,   \* the watchdog awaits a request
    sinceCheck, \* time since _last_check
    pause,      \* time until the poll loop asks again
    asking,     \* the poll loop awaits a request
    request,    \* how long the shared request has been out, or NoRequest
    outdated,   \* a map was accepted since that request was sent
    blocked,    \* time until _retry_at
    failed,     \* history: a request failed since the last success
    nextStale,  \* time until async_check_stale runs again
    issue       \* the repair issue "feed_unavailable" exists

feed    == <<age, have, mode, failed>>
dog     == <<watch, watching, sinceCheck>>
poller  == <<pause, asking>>
health  == <<nextStale, issue>>
http    == <<request, outdated>>
vars    == <<feed, dog, poller, http, blocked, health>>

TypeOK ==
    /\ age \in 0 .. Old
    /\ have \in BOOLEAN
    /\ mode \in {"websocket", "polling"}
    /\ watch \in 0 .. WatchdogInterval
    /\ watching \in BOOLEAN
    /\ sinceCheck \in 0 .. Old
    /\ pause \in Nat
    /\ asking \in BOOLEAN
    /\ request \in {NoRequest} \cup 0 .. Timeout
    /\ outdated \in BOOLEAN
    /\ blocked \in 0 .. MaxRetryAfter
    /\ failed \in BOOLEAN
    /\ nextStale \in 0 .. StaleInterval
    /\ issue \in BOOLEAN

Init ==
    /\ age = 0 /\ have = FALSE /\ mode = "websocket" /\ failed = FALSE
    /\ watch = WatchdogInterval /\ watching = FALSE /\ sinceCheck = Old
    /\ pause = 0 /\ asking = FALSE
    /\ request = NoRequest /\ outdated = FALSE /\ blocked = 0
    /\ nextStale = StaleInterval /\ issue = FALSE

-----------------------------------------------------------------------------

Later(clock)  == IF clock < Old THEN clock + 1 ELSE Old
Sooner(timer) == IF timer > 0 THEN timer - 1 ELSE 0

WatchdogDue == watch = 0 /\ ~watching
PollDue     == mode = "polling" /\ pause = 0 /\ ~asking
StaleDue    == nextStale = 0

\* One unit of time.  Nothing that is due is kept waiting, and a request that is
\* out ends within its timeout.
Elapse ==
    /\ ~WatchdogDue /\ ~PollDue /\ ~StaleDue
    /\ request < Timeout
    /\ age' = Later(age)
    /\ sinceCheck' = Later(sinceCheck)
    /\ watch' = IF watching THEN watch ELSE Sooner(watch)
    /\ pause' = IF asking THEN pause ELSE Sooner(pause)
    /\ request' = IF request = NoRequest THEN NoRequest ELSE request + 1
    /\ blocked' = Sooner(blocked)
    /\ nextStale' = Sooner(nextStale)
    /\ UNCHANGED <<have, mode, failed, watching, asking, outdated, issue>>

\* A map is accepted (_emit and handle_snapshot): the ages restart, and the
\* issue is deleted if the feed was stale.
WasStale == ~have \/ age > StaleAfter

\* Mutated form of Accept: the issue outlives the outage.
AcceptKeepsIssue ==
    /\ age' = 0
    /\ have' = TRUE
    /\ failed' = FALSE
    /\ UNCHANGED issue

Accept ==
    /\ age' = 0
    /\ have' = TRUE
    /\ failed' = FALSE
    /\ issue' = (issue /\ ~WasStale)

\* The WebSocket publishes: the poll loop is cancelled, and an answer that is
\* still out will be discarded.
Push ==
    /\ Accept
    /\ mode' = "websocket"
    /\ asking' = FALSE
    /\ pause' = 0
    /\ outdated' = (request # NoRequest)
    /\ UNCHANGED <<dog, request, blocked, nextStale>>

\* max_ws_failures in a row: the poll loop starts.
Degrade ==
    /\ mode = "websocket"
    /\ mode' = "polling"
    /\ pause' = 0
    /\ UNCHANGED <<age, have, failed, dog, asking, http, blocked, health>>

\* The seed's request succeeds.
SeedOk ==
    /\ ~have /\ request = NoRequest /\ blocked = 0
    /\ Accept
    /\ UNCHANGED <<mode, dog, poller, http, blocked, nextStale>>

\* A seed's request fails, perhaps with a Retry-After.
SeedFail ==
    /\ ~have /\ request = NoRequest
    /\ failed' = TRUE
    /\ blocked' \in IF blocked > 0 THEN {blocked} ELSE {0, MaxRetryAfter}
    /\ UNCHANGED <<age, have, mode, dog, poller, http, health>>

\* The poll loop sleeps again.
Pause(longest) == pause' \in PollInterval .. longest

\* Join the request that is out, or send one.
Ask ==
    /\ request' = IF request = NoRequest THEN 0 ELSE request
    /\ outdated' = (outdated /\ request # NoRequest)

\* While Retry-After holds, fetch() raises without asking.
RateLimited == request = NoRequest /\ blocked > 0

\* Mutated form of CheckNeeded: the coordinator's threshold limits the rate.
CheckNeededRare == age >= CheckAfter /\ sinceCheck >= StaleAfter

\* The watchdog looks: the feed is quiet enough, and the last look long enough ago.
CheckNeeded == age >= CheckAfter /\ sinceCheck >= CheckAfter

WatchdogLook ==
    /\ WatchdogDue
    /\ sinceCheck' = IF CheckNeeded THEN 0 ELSE sinceCheck
    /\ IF ~CheckNeeded \/ ~have \/ mode # "websocket"
         THEN /\ watch' = WatchdogInterval
              /\ UNCHANGED <<watching, http, failed>>
         ELSE IF RateLimited
         THEN /\ watch' = WatchdogInterval
              /\ failed' = TRUE
              /\ UNCHANGED <<watching, http>>
         ELSE /\ watching' = TRUE
              /\ Ask
              /\ UNCHANGED <<watch, failed>>
    /\ UNCHANGED <<age, have, mode, poller, blocked, health>>

PollAsk ==
    /\ PollDue
    /\ IF RateLimited
         THEN /\ failed' = TRUE
              /\ Pause(IF blocked > MaxBackoff THEN blocked ELSE MaxBackoff)
              /\ UNCHANGED <<asking, http>>
         ELSE /\ asking' = TRUE
              /\ Ask
              /\ UNCHANGED <<pause, failed>>
    /\ UNCHANGED <<age, have, mode, dog, blocked, health>>

\* Those who awaited the request go back to sleep.
WaitersSleep(longest) ==
    /\ request' = NoRequest /\ outdated' = FALSE
    /\ watching' = FALSE
    /\ watch' = IF watching THEN WatchdogInterval ELSE watch
    /\ asking' = FALSE
    /\ IF asking THEN Pause(longest) ELSE UNCHANGED pause

\* The shared request succeeds.  A watchdog that finds another map than the last
\* one switches to polling.  A poll loop whose answer the watchdog accepted first
\* takes it for a failure and may pause for longer.
RequestOk ==
    /\ request # NoRequest /\ ~outdated
    /\ Accept
    /\ mode' \in IF watching THEN {mode, "polling"} ELSE {mode}
    /\ WaitersSleep(MaxBackoff)
    /\ UNCHANGED <<sinceCheck, blocked, nextStale>>

\* It succeeds, but a map was accepted while it was out: the answer is discarded.
RequestSuperseded ==
    /\ request # NoRequest /\ outdated
    /\ WaitersSleep(MaxBackoff)
    /\ UNCHANGED <<feed, sinceCheck, blocked, health>>

\* It fails, perhaps with a Retry-After.
RequestFail ==
    /\ request # NoRequest
    /\ failed' = TRUE
    /\ blocked' \in {0, MaxRetryAfter}
    /\ WaitersSleep(IF blocked' > MaxBackoff THEN blocked' ELSE MaxBackoff)
    /\ UNCHANGED <<age, have, mode, sinceCheck, health>>

\* async_check_stale with _async_report_feed_health.
CheckStale ==
    /\ StaleDue
    /\ nextStale' = StaleInterval
    /\ issue' = (age > StaleAfter)
    /\ UNCHANGED <<feed, dog, poller, http, blocked>>

Next ==
    \/ Elapse
    \/ Push \/ Degrade
    \/ SeedOk \/ SeedFail
    \/ WatchdogLook \/ PollAsk
    \/ RequestOk \/ RequestSuperseded \/ RequestFail
    \/ CheckStale

Spec == Init /\ [][Next]_vars

-----------------------------------------------------------------------------
(* Properties *)

\* A feed whose fallback answers is refreshed before it counts as stale, however
\* silent the WebSocket is: between two publications no map gets older than the
\* cross-check's threshold, one watchdog tick and one request (const.py).
RefreshedInTime ==
    have /\ ~failed =>
        /\ age <= CheckAfter + WatchdogInterval + Timeout
        /\ ~WasStale

\* However often cross-checks fail or are refused by Retry-After, the watchdog
\* checks again within a window and a tick for as long as the silence lasts.
RetriedEachWindow ==
    age > CheckAfter + WatchdogInterval => sinceCheck <= CheckAfter + WatchdogInterval

RefreshedBeforeStale == RefreshedInTime /\ RetriedEachWindow

\* The repair issue says what it says: it exists only while no source has
\* delivered for StaleAfter, and a feed that is silent for that long is reported
\* by the next check.
IssueTellsTheTruth ==
    /\ issue => age > StaleAfter
    /\ age > StaleAfter + StaleInterval => issue
=============================================================================
