------------------------- MODULE TransportSupervisor -------------------------
(***************************************************************************)
(* The WS-primary / poll-fallback supervisor of api/supervisor.py with the *)
(* WebSocket transport of api/ws.py and the shared HTTP request of         *)
(* api/poll.py, at the granularity of the asyncio event loop: a step is    *)
(* what one task runs between two awaits.                                  *)
(*                                                                         *)
(* The provider's successive alert maps are numbered; the content of a map *)
(* matters only to the watchdog, which compares signatures.  Clocks are    *)
(* abstracted to the conditions the code derives from them (quiet, checked,*)
(* long); FeedFreshness models the seconds themselves.                     *)
(*                                                                         *)
(* `snapshot_revision` only ever grows and is only ever compared for       *)
(* equality with a captured value, so the model keeps the outcome of these *)
(* comparisons: the tasks whose captured revision is still the current one.*)
(***************************************************************************)
EXTENDS Integers, Sequences

CONSTANTS
    MaxVersion,       \* bound: the provider publishes maps 0 .. MaxVersion
    Signature,        \* Signature[v]: what Snapshot.signature tells of map v
    MaxWsFailures     \* max_ws_failures

ASSUME VersionAssumption == MaxVersion \in Nat
ASSUME FailureAssumption == MaxWsFailures \in Nat \ {0}

Version == 0 .. MaxVersion
NoMap   == -1         \* None: no snapshot was accepted, or a fetch gave none
Failed  == -1         \* the request raised
Pending == -2         \* the request is still out

Tasks == {"seed", "poll", "watchdog"}     \* the callers of _fetch_poll

VARIABLES
    truth,         \* newest map of the provider (external)
    snap,          \* _last_snap; NoMap exactly while _last_success is None
    mode,          \* mode
    running,       \* _running
    run,           \* where _run and the stream() it consumes are suspended
    failures,      \* `failures` of _run, saturated at MaxWsFailures
    long,          \* healthy_session has passed since `started`
    dropped,       \* close() pulled the socket from under the run task
    frames,        \* received, not yet consumed publications
    pc,            \* pc[t]: where the task t is suspended
    current,       \* tasks whose `revision` is still snapshot_revision
    fresh,         \* tasks whose copy of _http_revision still is
    answer,        \* answer[t]: what the awaited request gave
    ahead,         \* ahead[t]: tasks the event loop resumes before t
    inflight,      \* _http_task is not done
    httpFresh,     \* _http_revision is still snapshot_revision
    floor,         \* truth when the request was sent
    previous,      \* `previous` of _watchdog
    quiet,         \* the age of the last success reached stale_after
    checked        \* _last_check lies within the last stale_after seconds

feedVars  == <<truth, snap, running>>
runVars   == <<run, failures, long, dropped, frames>>
waitVars  == <<pc, current, fresh, answer, ahead>>
httpVars  == <<inflight, httpFresh, floor>>
checkVars == <<previous, quiet, checked>>
vars == <<feedVars, mode, runVars, waitVars, httpVars, checkVars>>

\* Which positions a task can be in: the seed ends when there is a map, the poll
\* task exists or not and is only ever cancelled, and the watchdog loops until
\* the stop.
Lifecycle ==
    /\ pc["seed"]     \in {"idle", "wait", "done", "off"}
    /\ pc["poll"]     \in {"none", "idle", "wait", "off"}
    /\ pc["watchdog"] \in {"idle", "wait", "off"}

TypeOK ==
    /\ Lifecycle
    /\ truth \in Version
    /\ snap \in Version \cup {NoMap}
    /\ mode \in {"websocket", "polling"}
    /\ running \in BOOLEAN
    /\ run \in {"mint", "handshake", "stream", "backoff", "off"}
    /\ failures \in 0 .. MaxWsFailures
    /\ long \in BOOLEAN
    /\ dropped \in BOOLEAN
    /\ frames \in Seq(Version)
    /\ pc \in [Tasks -> {"none", "idle", "wait", "done", "off"}]
    /\ current \in SUBSET Tasks
    /\ fresh \in SUBSET Tasks
    /\ answer \in [Tasks -> Version \cup {Failed, Pending}]
    /\ ahead \in [Tasks -> SUBSET Tasks]
    /\ inflight \in BOOLEAN
    /\ httpFresh \in BOOLEAN
    /\ floor \in Version
    /\ previous \in Version \cup {NoMap}
    /\ quiet \in BOOLEAN
    /\ checked \in BOOLEAN

\* The state start() leaves behind: three tasks created, none has run yet.
Init ==
    /\ truth = 0
    /\ snap = NoMap
    /\ mode = "websocket"
    /\ running = TRUE
    /\ run = "mint"
    /\ failures = 0
    /\ long = FALSE
    /\ dropped = FALSE
    /\ frames = <<>>
    /\ pc = [t \in Tasks |-> IF t = "poll" THEN "none" ELSE "idle"]
    /\ current = {}
    /\ fresh = {}
    /\ answer = [t \in Tasks |-> Pending]
    /\ ahead = [t \in Tasks |-> {}]
    /\ inflight = FALSE
    /\ httpFresh = FALSE
    /\ floor = 0
    /\ previous = NoMap
    /\ quiet = FALSE
    /\ checked = FALSE

-----------------------------------------------------------------------------
(* Helpers *)

\* The code counts on; the only question it asks of the count is whether it has
\* reached the bound.
AtMost(n, bound) == IF n > bound THEN bound ELSE n

Waiters == {t \in Tasks : pc[t] = "wait"}

\* _emit: every revision captured before it is superseded.
Emit(v) ==
    /\ snap' = v
    /\ quiet' = FALSE
    /\ current' = {}
    /\ fresh' = {}
    /\ httpFresh' = FALSE

\* The part of the tasks' positions that _set_mode decides: it starts the poll
\* task if there is none and cancels the one there is.
PollUnder(m) ==
    IF m = mode                                     THEN pc["poll"]
    ELSE IF m = "polling" /\ pc["poll"] = "none"      THEN "idle"
    ELSE IF m = "websocket" /\ pc["poll"] # "none"    THEN "none"
    ELSE pc["poll"]

\* The tasks in S stop waiting, whether resumed or cancelled.
NoLongerWaiting(S) ==
    /\ answer' = [t \in Tasks |-> IF t \in S THEN Pending ELSE answer[t]]
    /\ ahead'  = [t \in Tasks |-> IF t \in S THEN {} ELSE ahead[t] \ S]

\* Mutated form of FetchPoll: the revision is taken when the task joins, not when
\* the request was sent.
FetchPollAtJoin(t) ==
    /\ pc' = [pc EXCEPT ![t] = "wait"]
    /\ current' = current \cup {t}
    /\ answer' = [answer EXCEPT ![t] = Pending]
    /\ ahead' = [ahead EXCEPT ![t] = Waiters]
    /\ inflight' = TRUE
    /\ httpFresh' = (inflight => httpFresh)
    /\ floor' = IF inflight THEN floor ELSE truth
    /\ fresh' = fresh \cup {t}

\* _fetch_poll up to its await: join the request that is out, or send one.
FetchPoll(t) ==
    /\ pc' = [pc EXCEPT ![t] = "wait"]
    /\ current' = current \cup {t}
    /\ answer' = [answer EXCEPT ![t] = Pending]
    /\ ahead' = [ahead EXCEPT ![t] = Waiters]
    /\ inflight' = TRUE
    /\ httpFresh' = (inflight => httpFresh)
    /\ floor' = IF inflight THEN floor ELSE truth
    /\ fresh' = IF inflight /\ ~httpFresh THEN fresh \ {t} ELSE fresh \cup {t}

\* The event loop resumes the waiters of a request in the order they joined.
Ready(t) == pc[t] = "wait" /\ answer[t] # Pending /\ ahead[t] = {}

\* What _fetch_poll returns: an answer superseded since it was sent is None.
Fetched(t) == IF t \in fresh THEN answer[t] ELSE NoMap

\* _emit_if_current accepts.
Accepts(t) == running /\ t \in current /\ Fetched(t) # NoMap

\* The wait is over and nothing was accepted.
Discard(t) ==
    /\ current' = current \ {t}
    /\ fresh' = fresh \ {t}
    /\ UNCHANGED <<snap, quiet, httpFresh>>

-----------------------------------------------------------------------------
(* The outside world: the provider, the network, and time *)

\* The map changes; a healthy socket carries the new one, a silent socket does
\* not, and neither side notices.
TruthChange ==
    /\ truth < MaxVersion
    /\ truth' = truth + 1
    /\ \/ /\ run \in {"handshake", "stream"} /\ ~dropped
          /\ frames' = Append(frames, truth + 1)
       \/ UNCHANGED frames
    /\ UNCHANGED <<snap, running, mode, run, failures, long, dropped, waitVars,
                   httpVars, checkVars>>

\* Mutated form of Complete: an outdated request wakes nobody.
CompleteFreshOnly(a) ==
    /\ inflight
    /\ inflight' = FALSE
    /\ answer' = [t \in Tasks |->
                    IF t \in fresh /\ answer[t] = Pending THEN a ELSE answer[t]]
    /\ UNCHANGED <<feedVars, mode, runVars, pc, current, fresh, ahead,
                   httpFresh, floor, checkVars>>

\* The request ends: every task that still awaits it gets the same outcome.
Complete(a) ==
    /\ inflight
    /\ inflight' = FALSE
    /\ answer' = [t \in Tasks |->
                    IF pc[t] = "wait" /\ answer[t] = Pending THEN a ELSE answer[t]]
    /\ UNCHANGED <<feedVars, mode, runVars, pc, current, fresh, ahead,
                   httpFresh, floor, checkVars>>

\* fetch() returns; the proxy serves a map no older than the one that was
\* current when it was asked.
HttpOk == \E v \in floor .. truth : Complete(v)

\* fetch() raises: timeout, refused, rate limited, unusable payload.
HttpFail == Complete(Failed)

\* stale_after seconds without a success.  A request lives at most its timeout,
\* far less than stale_after, and a resolved waiter runs at once: whatever was
\* out when the last snapshot was accepted is over by now, and so is the window
\* of any check made before it.
Silence ==
    /\ running /\ ~quiet
    /\ \A t \in Waiters : answer[t] = Pending
    /\ inflight => httpFresh
    /\ quiet' = TRUE
    /\ checked' = FALSE
    /\ UNCHANGED <<feedVars, mode, runVars, waitVars, httpVars, previous>>

\* stale_after seconds since the last check, which is long over.
WindowElapsed ==
    /\ checked /\ pc["watchdog"] = "idle"
    /\ checked' = FALSE
    /\ UNCHANGED <<feedVars, mode, runVars, waitVars, httpVars, previous, quiet>>

\* healthy_session seconds since `started`, which is read before stream() mints
\* its token.
LongSession ==
    /\ run \in {"mint", "handshake", "stream"} /\ ~long
    /\ long' = TRUE
    /\ UNCHANGED <<feedVars, mode, run, failures, dropped, frames, waitVars,
                   httpVars, checkVars>>

-----------------------------------------------------------------------------
(* _run and stream() *)

\* _mint_token and ws_connect succeed; only now is there a socket to close.
SocketOpen ==
    /\ run = "mint"
    /\ run' = "handshake"
    /\ UNCHANGED <<feedVars, mode, failures, long, dropped, frames, waitVars,
                   httpVars, checkVars>>

\* Mutated form of HandshakeOk: a subscribed socket is trusted at once.
HandshakeTrusted ==
    /\ run = "handshake" /\ ~dropped
    /\ run' = "stream"
    /\ mode' = "websocket"
    /\ pc' = [pc EXCEPT !["poll"] = PollUnder("websocket")]
    /\ NoLongerWaiting(IF mode = "websocket" THEN {} ELSE {"poll"})
    /\ current' = current \ {"poll"} /\ fresh' = fresh \ {"poll"}
    /\ UNCHANGED <<feedVars, failures, long, dropped, frames, httpVars,
                   checkVars>>

\* Connect, subscribe and history are answered: the newest publication of the
\* history, if there is one, precedes the publications received meanwhile.
HandshakeOk ==
    /\ run = "handshake" /\ ~dropped
    /\ run' = "stream"
    /\ \E history \in {<<>>, <<truth>>} : frames' = history \o frames
    /\ UNCHANGED <<feedVars, mode, failures, long, dropped, waitVars, httpVars,
                   checkVars>>

\* stream() yields: _run resets its failures, returns to the WebSocket and
\* accepts.  A publication the receive already holds is still yielded after the
\* socket was dropped.
RunFrame ==
    /\ run = "stream" /\ frames # <<>>
    /\ frames' = Tail(frames)
    /\ failures' = 0
    /\ mode' = "websocket"
    /\ pc' = [pc EXCEPT !["poll"] = PollUnder("websocket")]
    /\ NoLongerWaiting(IF mode = "websocket" THEN {} ELSE {"poll"})
    /\ Emit(Head(frames))
    /\ UNCHANGED <<truth, running, run, long, dropped, inflight, floor, previous,
                   checked>>

\* _count_failure
CountFailure == IF long THEN 1 ELSE AtMost(failures + 1, MaxWsFailures)

\* stream() raises, its socket is closed, and _run goes to sleep.
RunFail ==
    /\ run \in {"mint", "handshake", "stream"}
    /\ run' = "backoff"
    /\ dropped' = FALSE
    /\ frames' = <<>>
    /\ failures' = CountFailure
    /\ mode' = IF failures' >= MaxWsFailures THEN "polling" ELSE mode
    /\ pc' = [pc EXCEPT !["poll"] = PollUnder(mode')]
    /\ UNCHANGED <<feedVars, long, current, fresh, answer, ahead, httpVars,
                   checkVars>>

\* The sleep ends and the loop takes a new `started`.
Reconnect ==
    /\ run = "backoff"
    /\ run' = "mint"
    /\ long' = FALSE
    /\ UNCHANGED <<feedVars, mode, failures, dropped, frames, waitVars, httpVars,
                   checkVars>>

-----------------------------------------------------------------------------
(* _seed *)

SeedWake ==
    /\ pc["seed"] = "idle"
    /\ IF snap # NoMap
         THEN /\ pc' = [pc EXCEPT !["seed"] = "done"]
              /\ UNCHANGED <<current, fresh, answer, ahead, httpVars>>
         ELSE FetchPoll("seed")
    /\ UNCHANGED <<feedVars, mode, runVars, checkVars>>

\* Mutated form of SeedAnswer: one attempt, no retry.
SeedAnswerOnce ==
    /\ Ready("seed")
    /\ IF Accepts("seed") THEN Emit(Fetched("seed")) ELSE Discard("seed")
    /\ pc' = [pc EXCEPT !["seed"] = "done"]
    /\ NoLongerWaiting({"seed"})
    /\ UNCHANGED <<truth, running, mode, runVars, inflight, floor, previous,
                   checked>>

SeedAnswer ==
    /\ Ready("seed")
    /\ IF Accepts("seed") THEN Emit(Fetched("seed")) ELSE Discard("seed")
    /\ pc' = [pc EXCEPT !["seed"] =
                IF Accepts("seed") \/ snap # NoMap THEN "done" ELSE "idle"]
    /\ NoLongerWaiting({"seed"})
    /\ UNCHANGED <<truth, running, mode, runVars, inflight, floor, previous,
                   checked>>

-----------------------------------------------------------------------------
(* _poll_loop *)

PollWake ==
    /\ pc["poll"] = "idle"
    /\ FetchPoll("poll")
    /\ UNCHANGED <<feedVars, mode, runVars, checkVars>>

\* The failures it counts only select its next pause, which is FeedFreshness's.
PollAnswer ==
    /\ Ready("poll")
    /\ IF Accepts("poll") THEN Emit(Fetched("poll")) ELSE Discard("poll")
    /\ pc' = [pc EXCEPT !["poll"] = "idle"]
    /\ NoLongerWaiting({"poll"})
    /\ UNCHANGED <<truth, running, mode, runVars, inflight, floor, previous,
                   checked>>

-----------------------------------------------------------------------------
(* _watchdog *)

\* Mutated form of WatchdogTick: the warning ends the loop instead of the turn.
WatchdogTickReturns ==
    /\ pc["watchdog"] = "idle" /\ quiet /\ ~checked
    /\ checked' = TRUE
    /\ IF snap = NoMap \/ mode # "websocket"
         THEN /\ pc' = [pc EXCEPT !["watchdog"] = "done"]
              /\ UNCHANGED <<current, fresh, answer, ahead, httpVars, previous>>
         ELSE previous' = snap /\ FetchPoll("watchdog")
    /\ UNCHANGED <<feedVars, mode, runVars, quiet>>

\* A tick that gets past both age guards.  Without a snapshot, or while polling,
\* it only warns.
WatchdogTick ==
    /\ pc["watchdog"] = "idle" /\ quiet /\ ~checked
    /\ checked' = TRUE
    /\ IF snap = NoMap \/ mode # "websocket"
         THEN UNCHANGED <<waitVars, httpVars, previous>>
         ELSE previous' = snap /\ FetchPoll("watchdog")
    /\ UNCHANGED <<feedVars, mode, runVars, quiet>>

\* The feed has what the last push said.
Agrees == Accepts("watchdog") /\ Signature[Fetched("watchdog")] = Signature[previous]

\* The feed has moved on while the socket said nothing.
Disagrees == Accepts("watchdog") /\ ~Agrees

\* close() finds a socket only once ws_connect returned it.
CloseSocket ==
    dropped' = (dropped \/ run \in {"handshake", "stream"})

\* Mutated form of WatchdogAnswer: a superseded cross-check is not recognised.
WatchdogAnswerUnguarded ==
    /\ Ready("watchdog")
    /\ IF Accepts("watchdog") THEN Emit(Fetched("watchdog")) ELSE Discard("watchdog")
    /\ mode' = IF Disagrees THEN "polling" ELSE mode
    /\ pc' = [pc EXCEPT !["watchdog"] = "idle", !["poll"] = PollUnder(mode')]
    /\ NoLongerWaiting({"watchdog"})
    /\ IF ~Agrees THEN CloseSocket ELSE UNCHANGED dropped
    /\ UNCHANGED <<truth, running, run, failures, long, frames, inflight, floor,
                   previous, checked>>

WatchdogAnswer ==
    /\ Ready("watchdog")
    /\ IF Accepts("watchdog") THEN Emit(Fetched("watchdog")) ELSE Discard("watchdog")
    /\ mode' = IF Disagrees THEN "polling" ELSE mode
    /\ pc' = [pc EXCEPT !["watchdog"] = "idle", !["poll"] = PollUnder(mode')]
    /\ NoLongerWaiting({"watchdog"})
    /\ IF "watchdog" \in current /\ ~Agrees THEN CloseSocket ELSE UNCHANGED dropped
    /\ UNCHANGED <<truth, running, run, failures, long, frames, inflight, floor,
                   previous, checked>>

-----------------------------------------------------------------------------
(* stop: every task and the request are cancelled, and the socket closed *)

Stop ==
    /\ running
    /\ running' = FALSE
    /\ run' = "off"
    /\ frames' = <<>>
    /\ dropped' = FALSE
    /\ pc' = [t \in Tasks |-> "off"]
    /\ NoLongerWaiting(Tasks)
    /\ current' = {}
    /\ fresh' = {}
    /\ inflight' = FALSE
    /\ UNCHANGED <<truth, snap, mode, failures, long, httpFresh, floor, checkVars>>

-----------------------------------------------------------------------------

Next ==
    \/ TruthChange \/ HttpOk \/ HttpFail
    \/ Silence \/ WindowElapsed \/ LongSession
    \/ SocketOpen \/ HandshakeOk \/ RunFrame \/ RunFail \/ Reconnect
    \/ SeedWake \/ SeedAnswer
    \/ PollWake \/ PollAnswer
    \/ WatchdogTick \/ WatchdogAnswer
    \/ Stop

Spec == Init /\ [][Next]_vars

-----------------------------------------------------------------------------
(* Fairness.  The event loop resumes what is ready, sleeps and timeouts end,  *)
(* and a provider that is asked again and again answers in the end.  Nothing  *)
(* obliges a socket to carry a publication, to live or to fail, the provider  *)
(* to publish, or the user to unload.                                         *)

ConnectEnds   == (SocketOpen \/ RunFail) /\ run = "mint"
HandshakeEnds == (HandshakeOk \/ RunFail) /\ run = "handshake"
DropNoticed   == RunFail /\ dropped

Fairness ==
    /\ WF_vars(ConnectEnds) /\ WF_vars(HandshakeEnds) /\ WF_vars(DropNoticed)
    /\ WF_vars(RunFrame) /\ WF_vars(Reconnect)
    /\ WF_vars(SeedWake) /\ WF_vars(SeedAnswer)
    /\ WF_vars(PollWake) /\ WF_vars(PollAnswer)
    /\ WF_vars(WatchdogTick) /\ WF_vars(WatchdogAnswer)
    /\ WF_vars(HttpOk \/ HttpFail) /\ SF_vars(HttpOk)
    /\ WF_vars(Silence) /\ WF_vars(WindowElapsed)

FairSpec == Spec /\ Fairness

-----------------------------------------------------------------------------
(* Properties *)

\* The fallback runs exactly while the transport is in polling mode: no second
\* loop is left asking the volunteer-run proxy beside a live socket, and no
\* polling mode is left without a loop (_set_mode against stop and cancelled
\* waits).
PollTaskIffPolling ==
    running => (mode = "polling" <=> pc["poll"] # "none")

\* Until a first snapshot was accepted somebody still tries to get one: the seed
\* task may end only because there is a map to show (_seed's two returns).
SeedAliveUntilFirstSnapshot ==
    running /\ snap = NoMap => pc["seed"] \in {"idle", "wait"}

\* Everyone who waits for a request has one to wait for: no task awaits a
\* request that is already over without its outcome (_fetch_poll's sharing).
NobodyWaitsForNothing ==
    \A t \in Waiters : answer[t] = Pending => inflight

\* The tasks are where the mode, the map and the request need them.
TasksInPosition ==
    /\ PollTaskIffPolling
    /\ SeedAliveUntilFirstSnapshot
    /\ NobodyWaitsForNothing

\* An answer of the polling endpoint never replaces a newer map with an older
\* one, whatever arrived while it was out (_emit_if_current: "publishing the
\* older answer afterwards would roll the map back").
HttpNeverRollsBack ==
    [][snap' # snap /\ frames' = frames => snap' > snap]_vars

\* The watchdog pulls a socket only on evidence: no publication came during its
\* request, and the request itself failed or showed another map than the last
\* one accepted.  An answer that was merely superseded is no such evidence.
DroppedOnEvidence ==
    [][~dropped /\ dropped' =>
         /\ "watchdog" \in current
         /\ \/ answer["watchdog"] = Failed
            \/ Signature[answer["watchdog"]] # Signature[previous]]_vars

\* The socket is not trusted again before it publishes: the transport leaves
\* polling only in a step that accepts a publication (_set_mode's callers).
PollUntilPublication ==
    [][mode = "polling" /\ mode' = "websocket" =>
         frames # <<>> /\ snap' = Head(frames)]_vars

\* The listener is called with published maps only, is silent after stop, and
\* in the end has the newest map for as long as the transport is open: a silent
\* socket, a lost publication, a discarded answer and a failed request all only
\* delay it (the watchdog's purpose: otherwise "the integration would serve a
\* frozen alert map forever").
Feed == INSTANCE AlertFeed WITH shown <- snap, open <- running
ServesTheFeed == Feed!FeedSpec

\* A start is never left without a map: the first snapshot comes even if the
\* WebSocket stays silent (_seed's retries).
StartIsSeeded == (running /\ snap = NoMap) ~> (snap # NoMap \/ ~running)
=============================================================================
