---------------------- MODULE TransportSupervisorProofs ----------------------
(***************************************************************************)
(* Theorems about TransportSupervisor for every value of its constants.    *)
(*                                                                         *)
(* One inductive invariant carries them: the types, what a captured        *)
(* revision that is still current says about the answer that goes with it, *)
(* and the few facts about the tasks' positions that the steps rely on.    *)
(***************************************************************************)
EXTENDS TransportSupervisor, TLAPS

\* What is shown, and what is still to be consumed, was published.
Published ==
    /\ snap <= truth
    /\ \A i \in 1 .. Len(frames) : frames[i] <= truth
    /\ \A t \in Tasks : answer[t] <= truth

\* A request sent in the current revision cannot return less than what is shown.
RequestCurrent ==
    /\ floor <= truth
    /\ inflight /\ httpFresh => snap <= floor

\* The same for the tasks whose copy of the request's revision is current.
AnswerCurrent ==
    \A t \in fresh :
        /\ pc[t] = "wait"
        /\ answer[t] = Pending => inflight /\ httpFresh
        /\ answer[t] \in Version => snap <= answer[t]

\* When the feed has been quiet for stale_after, nothing older is out, so the
\* watchdog always joins a request of its own revision.
WatchdogCurrent ==
    /\ quiet /\ inflight => httpFresh
    /\ "watchdog" \in current => "watchdog" \in fresh

\* Where the tasks are.
Positions ==
    /\ PollTaskIffPolling
    /\ SeedAliveUntilFirstSnapshot
    /\ NobodyWaitsForNothing
    /\ ~running => /\ run = "off" /\ ~inflight
                   /\ \A t \in Tasks : pc[t] = "off"

Inv ==
    /\ TypeOK
    /\ Published
    /\ RequestCurrent
    /\ AnswerCurrent
    /\ WatchdogCurrent
    /\ Positions

-----------------------------------------------------------------------------
(* The helpers the actions share, typed. *)

LEMMA TaskNames == /\ "seed" \in Tasks /\ "poll" \in Tasks /\ "watchdog" \in Tasks
                   /\ \A t \in Tasks : t \in {"seed", "poll", "watchdog"}
BY DEF Tasks

\* Writing an element of a function's range keeps the function's type.
LEMMA ExceptType ==
  ASSUME NEW D, NEW R, NEW f \in [D -> R], NEW d \in D, NEW r \in R
  PROVE  [f EXCEPT ![d] = r] \in [D -> R]
OBVIOUS

PcType == [Tasks -> {"none", "idle", "wait", "done", "off"}]
AnswerType == [Tasks -> Version \cup {Failed, Pending}]
AheadType == [Tasks -> SUBSET Tasks]

\* What _set_mode leaves of the poll task is a position.
LEMMA PollUnderType ==
  ASSUME TypeOK, NEW m
  PROVE  PollUnder(m) \in {"none", "idle", "wait", "done", "off"}
BY TaskNames DEF TypeOK, PollUnder

LEMMA PollUnderPosition ==
  ASSUME TypeOK, NEW m
  PROVE  PollUnder(m) \in {"none", "idle", "wait", "off"}
BY DEF TypeOK, Lifecycle, PollUnder

LEMMA NoLongerWaitingType ==
  ASSUME TypeOK, NEW S, NoLongerWaiting(S)
  PROVE  answer' \in AnswerType /\ ahead' \in AheadType
<1>1. answer' \in AnswerType
  BY DEF TypeOK, NoLongerWaiting, AnswerType
<1>2. ahead' \in AheadType
  BY DEF TypeOK, NoLongerWaiting, AheadType
<1> QED
  BY <1>1, <1>2

LEMMA FetchPollType ==
  ASSUME TypeOK, NEW t \in Tasks, FetchPoll(t)
  PROVE  /\ pc' \in PcType /\ answer' \in AnswerType /\ ahead' \in AheadType
         /\ current' \in SUBSET Tasks /\ fresh' \in SUBSET Tasks
         /\ inflight' \in BOOLEAN /\ httpFresh' \in BOOLEAN /\ floor' \in Version
<1>1. pc' \in PcType
  BY DEF TypeOK, FetchPoll, PcType
<1>2. answer' \in AnswerType
  BY DEF TypeOK, FetchPoll, AnswerType
<1>3. ahead' \in AheadType
  BY DEF TypeOK, FetchPoll, AheadType, Waiters
<1>4. current' \in SUBSET Tasks /\ fresh' \in SUBSET Tasks
  BY DEF TypeOK, FetchPoll
<1>5. inflight' \in BOOLEAN /\ httpFresh' \in BOOLEAN /\ floor' \in Version
  BY DEF TypeOK, FetchPoll
<1> QED
  BY <1>1, <1>2, <1>3, <1>4, <1>5

LEMMA CompleteType ==
  ASSUME TypeOK, NEW a \in Version \cup {Failed}, Complete(a)
  PROVE  answer' \in AnswerType
BY DEF TypeOK, Complete, AnswerType

\* What a task accepts is a published map's number.
LEMMA AcceptedType ==
  ASSUME TypeOK, NEW t \in Tasks, Ready(t), Accepts(t)
  PROVE  /\ t \in fresh
         /\ Fetched(t) = answer[t]
         /\ answer[t] \in Version
BY DEF TypeOK, Ready, Accepts, Fetched, Failed, Pending, NoMap

\* A task that was answered either emits or leaves the map alone.
LEMMA AnsweredType ==
  ASSUME TypeOK, NEW t \in Tasks, Ready(t),
         IF Accepts(t) THEN Emit(Fetched(t)) ELSE Discard(t)
  PROVE  /\ snap' \in Version \cup {NoMap}
         /\ quiet' \in BOOLEAN /\ httpFresh' \in BOOLEAN
         /\ current' \in SUBSET Tasks /\ fresh' \in SUBSET Tasks
<1>1. CASE Accepts(t)
  <2>1. Fetched(t) \in Version
    BY <1>1, AcceptedType
  <2> QED
    BY <1>1, <2>1 DEF Emit
<1>2. CASE ~Accepts(t)
  BY <1>2 DEF TypeOK, Discard
<1> QED
  BY <1>1, <1>2

-----------------------------------------------------------------------------
(* Type correctness *)

LEMMA TypeInit == Init => TypeOK
<1> SUFFICES ASSUME Init PROVE TypeOK
  OBVIOUS
<1>1. pc \in PcType
  BY DEF Init, PcType
<1>2. answer \in AnswerType /\ ahead \in AheadType
  BY DEF Init, AnswerType, AheadType
<1>3. /\ truth \in Version /\ floor \in Version
      /\ failures \in 0 .. MaxWsFailures
  BY VersionAssumption, FailureAssumption DEF Init, Version
<1>4. frames \in Seq(Version)
  BY DEF Init
<1>5. /\ running \in BOOLEAN /\ long \in BOOLEAN /\ dropped \in BOOLEAN
      /\ inflight \in BOOLEAN /\ httpFresh \in BOOLEAN
      /\ quiet \in BOOLEAN /\ checked \in BOOLEAN
  BY DEF Init
<1>6. Lifecycle
  BY TaskNames DEF Init, Lifecycle
<1> QED
  BY <1>1, <1>2, <1>3, <1>4, <1>5, <1>6
  DEF Init, TypeOK, PcType, AnswerType, AheadType

\* What one step does to the positions: each task's own steps, the poll task's
\* start and cancellation, and the stop.
LEMMA LifecycleStep == TypeOK /\ [Next]_vars => Lifecycle'
<1> SUFFICES ASSUME TypeOK, [Next]_vars PROVE Lifecycle'
  OBVIOUS
<1> USE TaskNames DEF feedVars, runVars, waitVars, httpVars, checkVars
<1>1. CASE UNCHANGED pc
  BY <1>1 DEF TypeOK, Lifecycle
<1>2. CASE TruthChange \/ Silence \/ WindowElapsed \/ LongSession \/ SocketOpen
  BY <1>1, <1>2 DEF TruthChange, Silence, WindowElapsed, LongSession, SocketOpen
<1>3. CASE HttpOk \/ HttpFail \/ HandshakeOk \/ Reconnect
  BY <1>1, <1>3 DEF HttpOk, HttpFail, Complete, HandshakeOk, Reconnect
<1>4. CASE RunFrame
  BY <1>4, PollUnderPosition DEF TypeOK, Lifecycle, RunFrame
<1>5. CASE RunFail
  BY <1>5, PollUnderPosition DEF TypeOK, Lifecycle, RunFail
<1>6. CASE SeedWake
  BY <1>1, <1>6 DEF TypeOK, Lifecycle, SeedWake, FetchPoll
<1>7. CASE SeedAnswer
  BY <1>7 DEF TypeOK, Lifecycle, SeedAnswer
<1>8. CASE PollWake
  BY <1>8 DEF TypeOK, Lifecycle, PollWake, FetchPoll
<1>9. CASE PollAnswer
  BY <1>9 DEF TypeOK, Lifecycle, PollAnswer
<1>10. CASE WatchdogTick
  BY <1>1, <1>10 DEF TypeOK, Lifecycle, WatchdogTick, FetchPoll
<1>11. CASE WatchdogAnswer
  BY <1>11, PollUnderPosition DEF TypeOK, Lifecycle, WatchdogAnswer
<1>12. CASE Stop
  BY <1>12 DEF Lifecycle, Stop
<1> QED
  BY <1>1, <1>2, <1>3, <1>4, <1>5, <1>6, <1>7, <1>8, <1>9, <1>10, <1>11, <1>12
  DEF Next, vars

LEMMA TypeStep == TypeOK /\ [Next]_vars => TypeOK'
<1> SUFFICES ASSUME TypeOK, [Next]_vars PROVE TypeOK'
  OBVIOUS
<1> USE DEF feedVars, runVars, waitVars, httpVars, checkVars
<1>0. Lifecycle'
  BY LifecycleStep
<1> USE <1>0
<1>1. CASE TruthChange
  <2>1. truth' \in Version
    BY <1>1, VersionAssumption DEF TypeOK, TruthChange, Version
  <2>2. frames' \in Seq(Version)
    BY <1>1, <2>1 DEF TypeOK, TruthChange
  <2> QED
    BY <1>1, <2>1, <2>2 DEF TypeOK, TruthChange
<1>2. CASE HttpOk
  <2>1. PICK v \in floor .. truth : Complete(v)
    BY <1>2 DEF HttpOk
  <2>2. v \in Version
    BY VersionAssumption DEF TypeOK, Version
  <2>3. answer' \in AnswerType
    BY <2>1, <2>2, CompleteType
  <2>4. inflight' \in BOOLEAN
    BY <2>1 DEF Complete
  <2> QED
    BY <2>1, <2>3, <2>4 DEF TypeOK, Complete, AnswerType
<1>3. CASE HttpFail
  <2>1. answer' \in AnswerType
    BY <1>3, CompleteType DEF HttpFail
  <2>2. inflight' \in BOOLEAN
    BY <1>3 DEF HttpFail, Complete
  <2> QED
    BY <1>3, <2>1, <2>2 DEF TypeOK, HttpFail, Complete, AnswerType
<1>4. CASE Silence
  BY <1>4 DEF TypeOK, Silence
<1>5. CASE WindowElapsed
  <2>1. checked' \in BOOLEAN
    BY <1>5 DEF WindowElapsed
  <2> QED
    BY <1>5, <2>1 DEF TypeOK, WindowElapsed
<1>6. CASE LongSession
  BY <1>6 DEF TypeOK, LongSession
<1>7. CASE SocketOpen
  BY <1>7 DEF TypeOK, SocketOpen
<1>8. CASE HandshakeOk
  <2>1. frames' \in Seq(Version)
    <3>1. PICK history \in {<<>>, <<truth>>} : frames' = history \o frames
      BY <1>8 DEF HandshakeOk
    <3>2. <<>> \in Seq(Version)
      OBVIOUS
    <3>3. <<truth>> \in Seq(Version)
      BY DEF TypeOK
    <3>4. frames \in Seq(Version) /\ history \in Seq(Version)
      BY <3>1, <3>2, <3>3 DEF TypeOK
    <3> QED
      BY <3>1, <3>4
  <2> QED
    BY <1>8, <2>1 DEF TypeOK, HandshakeOk
<1>9. CASE RunFrame
  <2>1. frames' \in Seq(Version) /\ Head(frames) \in Version
    BY <1>9 DEF TypeOK, RunFrame
  <2>2. failures' \in 0 .. MaxWsFailures
    BY <1>9, FailureAssumption DEF RunFrame
  <2>3. pc' \in PcType
    BY <1>9, PollUnderType, TaskNames DEF TypeOK, RunFrame, PcType
  <2>4. answer' \in AnswerType /\ ahead' \in AheadType
    BY <1>9, NoLongerWaitingType DEF RunFrame
  <2> QED
    BY <1>9, <2>1, <2>2, <2>3, <2>4
    DEF TypeOK, RunFrame, Emit, PcType, AnswerType, AheadType
<1>10. CASE RunFail
  <2>1. failures' \in 0 .. MaxWsFailures
    BY <1>10, FailureAssumption DEF TypeOK, RunFail, CountFailure, AtMost
  <2>2. pc' \in PcType
    BY <1>10, PollUnderType, TaskNames DEF TypeOK, RunFail, PcType
  <2>3. frames' \in Seq(Version) /\ mode' \in {"websocket", "polling"}
    BY <1>10 DEF TypeOK, RunFail
  <2> QED
    BY <1>10, <2>1, <2>2, <2>3 DEF TypeOK, RunFail, PcType
<1>11. CASE Reconnect
  BY <1>11 DEF TypeOK, Reconnect
<1>12. CASE SeedWake
  <2>1. CASE snap # NoMap
    <3>1. pc' \in PcType
      BY <1>12, <2>1, TaskNames DEF TypeOK, SeedWake, PcType
    <3> QED
      BY <1>12, <2>1, <3>1 DEF TypeOK, SeedWake, PcType
  <2>2. CASE snap = NoMap
    BY <1>12, <2>2, TaskNames, FetchPollType
    DEF TypeOK, SeedWake, PcType, AnswerType, AheadType
  <2> QED
    BY <2>1, <2>2
<1>13. CASE SeedAnswer
  <2>1. pc' \in PcType
    BY <1>13, TaskNames DEF TypeOK, SeedAnswer, PcType
  <2>2. answer' \in AnswerType /\ ahead' \in AheadType
    BY <1>13, NoLongerWaitingType DEF SeedAnswer
  <2>3. /\ snap' \in Version \cup {NoMap}
        /\ quiet' \in BOOLEAN /\ httpFresh' \in BOOLEAN
        /\ current' \in SUBSET Tasks /\ fresh' \in SUBSET Tasks
    BY <1>13, TaskNames, AnsweredType DEF SeedAnswer
  <2> QED
    BY <1>13, <2>1, <2>2, <2>3 DEF TypeOK, SeedAnswer, PcType, AnswerType, AheadType
<1>14. CASE PollWake
  BY <1>14, TaskNames, FetchPollType DEF TypeOK, PollWake, PcType, AnswerType, AheadType
<1>15. CASE PollAnswer
  <2>1. pc' \in PcType
    BY <1>15, TaskNames DEF TypeOK, PollAnswer, PcType
  <2>2. answer' \in AnswerType /\ ahead' \in AheadType
    BY <1>15, NoLongerWaitingType DEF PollAnswer
  <2>3. /\ snap' \in Version \cup {NoMap}
        /\ quiet' \in BOOLEAN /\ httpFresh' \in BOOLEAN
        /\ current' \in SUBSET Tasks /\ fresh' \in SUBSET Tasks
    BY <1>15, TaskNames, AnsweredType DEF PollAnswer
  <2> QED
    BY <1>15, <2>1, <2>2, <2>3
    DEF TypeOK, PollAnswer, PcType, AnswerType, AheadType
<1>16. CASE WatchdogTick
  <2>1. CASE snap = NoMap \/ mode # "websocket"
    BY <1>16, <2>1 DEF TypeOK, WatchdogTick
  <2>2. CASE ~(snap = NoMap \/ mode # "websocket")
    BY <1>16, <2>2, TaskNames, FetchPollType
    DEF TypeOK, WatchdogTick, PcType, AnswerType, AheadType
  <2> QED
    BY <2>1, <2>2
<1>17. CASE WatchdogAnswer
  <2>1. pc' \in PcType
    BY <1>17, TaskNames, PollUnderType DEF TypeOK, WatchdogAnswer, PcType
  <2>2. answer' \in AnswerType /\ ahead' \in AheadType
    BY <1>17, NoLongerWaitingType DEF WatchdogAnswer
  <2>3. /\ snap' \in Version \cup {NoMap}
        /\ quiet' \in BOOLEAN /\ httpFresh' \in BOOLEAN
        /\ current' \in SUBSET Tasks /\ fresh' \in SUBSET Tasks
    BY <1>17, TaskNames, AnsweredType DEF WatchdogAnswer
  <2>4. mode' \in {"websocket", "polling"} /\ dropped' \in BOOLEAN
    BY <1>17 DEF TypeOK, WatchdogAnswer, CloseSocket
  <2> QED
    BY <1>17, <2>1, <2>2, <2>3, <2>4
    DEF TypeOK, WatchdogAnswer, PcType, AnswerType, AheadType
<1>18. CASE Stop
  <2>1. pc' \in PcType
    BY <1>18 DEF Stop, PcType
  <2>2. answer' \in AnswerType /\ ahead' \in AheadType
    BY <1>18, NoLongerWaitingType DEF Stop
  <2>3. frames' \in Seq(Version)
    BY <1>18 DEF Stop
  <2> QED
    BY <1>18, <2>1, <2>2, <2>3 DEF TypeOK, Stop, PcType, AnswerType, AheadType
<1>19. CASE UNCHANGED vars
  BY <1>19 DEF TypeOK, vars
<1> QED
  BY <1>1, <1>2, <1>3, <1>4, <1>5, <1>6, <1>7, <1>8, <1>9, <1>10, <1>11, <1>12,
     <1>13, <1>14, <1>15, <1>16, <1>17, <1>18, <1>19 DEF Next

\* Every variable keeps its type in every behaviour.
THEOREM TypeCorrect == Spec => []TypeOK
<1>1. Init => TypeOK
  BY TypeInit
<1>2. TypeOK /\ [Next]_vars => TypeOK'
  BY TypeStep
<1> QED
  BY <1>1, <1>2, PTL DEF Spec

-----------------------------------------------------------------------------
(* Published: only the provider makes maps. *)

\* A task that is resumed either emits an answer no older than what is shown, or
\* leaves everything but its own captured revisions alone.
LEMMA AnsweredEffect ==
  ASSUME TypeOK, Published, AnswerCurrent, NEW t \in Tasks, Ready(t),
         IF Accepts(t) THEN Emit(Fetched(t)) ELSE Discard(t)
  PROVE  \/ /\ Accepts(t)
            /\ snap' = answer[t] /\ answer[t] \in Version
            /\ snap <= answer[t] /\ answer[t] <= truth
            /\ fresh' = {} /\ current' = {}
            /\ ~httpFresh' /\ ~quiet'
         \/ /\ ~Accepts(t)
            /\ snap' = snap /\ httpFresh' = httpFresh /\ quiet' = quiet
            /\ fresh' = fresh \ {t} /\ current' = current \ {t}
<1>1. CASE Accepts(t)
  <2>1. t \in fresh /\ Fetched(t) = answer[t] /\ answer[t] \in Version
    BY <1>1, AcceptedType
  <2>2. snap <= answer[t] /\ answer[t] <= truth
    BY <2>1 DEF AnswerCurrent, Published
  <2> QED
    BY <1>1, <2>1, <2>2 DEF Emit
<1>2. CASE ~Accepts(t)
  BY <1>2 DEF Discard
<1> QED
  BY <1>1, <1>2

\* Forgetting an answer leaves no answer above truth.
LEMMA NoLongerWaitingPublished ==
  ASSUME TypeOK, Published, NEW S, NoLongerWaiting(S), truth' = truth
  PROVE  \A t \in Tasks : answer'[t] <= truth'
BY VersionAssumption DEF TypeOK, Published, NoLongerWaiting, Version, Failed, Pending

LEMMA FetchPollPublished ==
  ASSUME TypeOK, Published, NEW t \in Tasks, FetchPoll(t), truth' = truth
  PROVE  \A u \in Tasks : answer'[u] <= truth'
BY VersionAssumption DEF TypeOK, Published, FetchPoll, Version, Failed, Pending

LEMMA PublishedStep ==
  TypeOK /\ Published /\ RequestCurrent /\ AnswerCurrent /\ [Next]_vars => Published'
<1> SUFFICES ASSUME TypeOK, Published, RequestCurrent, AnswerCurrent, [Next]_vars
             PROVE  Published'
  OBVIOUS
<1> USE DEF feedVars, runVars, waitVars, httpVars, checkVars
<1>1. CASE TruthChange
  <2>1. truth' = truth + 1 /\ truth \in Int /\ snap \in Int
    BY <1>1, VersionAssumption DEF TruthChange, TypeOK, Version, NoMap
  <2>2. \A i \in 1 .. Len(frames) : frames[i] \in Int
    <3>1. \A i \in 1 .. Len(frames) : frames[i] \in Version
      BY DEF TypeOK
    <3> QED
      BY <3>1, VersionAssumption DEF Version
  <2>3. \A i \in 1 .. Len(frames') : frames'[i] <= truth'
    <3>1. \A i \in 1 .. Len(frames) : frames[i] <= truth + 1
      BY <2>1, <2>2 DEF Published
    <3>2. CASE UNCHANGED frames
      BY <2>1, <3>1, <3>2
    <3>3. CASE frames' = Append(frames, truth + 1)
      <4>1. frames \in Seq(Version)
        BY DEF TypeOK
      <4>2. /\ Len(frames') = Len(frames) + 1
            /\ \A i \in 1 .. Len(frames') :
                  frames'[i] = IF i = Len(frames) + 1 THEN truth + 1 ELSE frames[i]
        BY <3>3, <4>1
      <4>3. Len(frames) \in Nat
        BY <4>1
      <4> QED
        BY <2>1, <3>1, <4>2, <4>3
    <3> QED
      BY <1>1, <3>2, <3>3 DEF TruthChange
  <2>4. \A t \in Tasks : answer'[t] <= truth'
    BY <1>1, <2>1 DEF TruthChange, Published, TypeOK, Version, Failed, Pending
  <2> QED
    BY <1>1, <2>1, <2>3, <2>4 DEF TruthChange, Published
<1>2. CASE HttpOk
  <2>1. PICK v \in floor .. truth : Complete(v)
    BY <1>2 DEF HttpOk
  <2>2. \A t \in Tasks : answer'[t] <= truth
    BY <2>1 DEF Complete, Published, TypeOK, Version
  <2> QED
    BY <2>1, <2>2 DEF Complete, Published
<1>3. CASE HttpFail
  <2>1. \A t \in Tasks : answer'[t] <= truth
    BY <1>3 DEF HttpFail, Complete, Published, TypeOK, Version, Failed
  <2> QED
    BY <1>3, <2>1 DEF HttpFail, Complete, Published
<1>4. CASE HandshakeOk
  <2>1. PICK history \in {<<>>, <<truth>>} : frames' = history \o frames
    BY <1>4 DEF HandshakeOk
  <2>2. \A i \in 1 .. Len(frames') : frames'[i] <= truth
    <3>1. CASE history = <<>>
      <4>1. frames' = frames
        BY <2>1, <3>1 DEF TypeOK
      <4> QED
        BY <4>1 DEF Published
    <3>2. CASE history = <<truth>>
      BY <2>1, <3>2 DEF TypeOK, Published, Version
    <3> QED
      BY <3>1, <3>2
  <2> QED
    BY <1>4, <2>2 DEF HandshakeOk, Published
<1>5. CASE RunFrame
  <2>1. \A i \in 1 .. Len(frames') : frames'[i] <= truth
    BY <1>5 DEF RunFrame, Published, TypeOK
  <2>2. Head(frames) <= truth
    BY <1>5 DEF RunFrame, Published, TypeOK
  <2>3. \A t \in Tasks : answer'[t] <= truth'
    BY <1>5, NoLongerWaitingPublished DEF RunFrame
  <2> QED
    BY <1>5, <2>1, <2>2, <2>3 DEF RunFrame, Emit, Published
<1>6. CASE RunFail
  BY <1>6 DEF RunFail, Published
<1>7. CASE SeedWake
  <2>1. \A t \in Tasks : answer'[t] <= truth'
    BY <1>7, TaskNames, FetchPollPublished DEF SeedWake, Published
  <2> QED
    BY <1>7, <2>1 DEF SeedWake, Published
<1>8. CASE PollWake
  <2>1. \A t \in Tasks : answer'[t] <= truth'
    BY <1>8, TaskNames, FetchPollPublished DEF PollWake
  <2> QED
    BY <1>8, <2>1 DEF PollWake, Published
<1>9. CASE WatchdogTick
  <2>1. \A t \in Tasks : answer'[t] <= truth'
    BY <1>9, TaskNames, FetchPollPublished DEF WatchdogTick, Published
  <2> QED
    BY <1>9, <2>1 DEF WatchdogTick, Published
<1>10. CASE SeedAnswer
  <2>1. snap' <= truth
    BY <1>10, TaskNames, AnsweredEffect DEF SeedAnswer, Published
  <2>2. \A t \in Tasks : answer'[t] <= truth'
    BY <1>10, NoLongerWaitingPublished DEF SeedAnswer
  <2> QED
    BY <1>10, <2>1, <2>2 DEF SeedAnswer, Published
<1>11. CASE PollAnswer
  <2>1. snap' <= truth
    BY <1>11, TaskNames, AnsweredEffect DEF PollAnswer, Published
  <2>2. \A t \in Tasks : answer'[t] <= truth'
    BY <1>11, NoLongerWaitingPublished DEF PollAnswer
  <2> QED
    BY <1>11, <2>1, <2>2 DEF PollAnswer, Published
<1>12. CASE WatchdogAnswer
  <2>1. snap' <= truth
    BY <1>12, TaskNames, AnsweredEffect DEF WatchdogAnswer, Published
  <2>2. \A t \in Tasks : answer'[t] <= truth'
    BY <1>12, NoLongerWaitingPublished DEF WatchdogAnswer
  <2> QED
    BY <1>12, <2>1, <2>2 DEF WatchdogAnswer, Published
<1>13. CASE Stop
  <2>1. \A t \in Tasks : answer'[t] <= truth'
    BY <1>13, NoLongerWaitingPublished DEF Stop
  <2> QED
    BY <1>13, <2>1 DEF Stop, Published
<1>14. CASE \/ Silence \/ WindowElapsed \/ LongSession \/ SocketOpen \/ Reconnect
            \/ UNCHANGED vars
  BY <1>14
  DEF Silence, WindowElapsed, LongSession, SocketOpen, Reconnect, vars, Published
<1> QED
  BY <1>1, <1>2, <1>3, <1>4, <1>5, <1>6, <1>7, <1>8, <1>9, <1>10, <1>11, <1>12,
     <1>13, <1>14 DEF Next

-----------------------------------------------------------------------------
(* RequestCurrent and AnswerCurrent: what a current revision guarantees. *)

LEMMA RequestStep ==
  TypeOK /\ Published /\ RequestCurrent /\ AnswerCurrent /\ [Next]_vars
    => RequestCurrent'
<1> SUFFICES ASSUME TypeOK, Published, RequestCurrent, AnswerCurrent, [Next]_vars
             PROVE  RequestCurrent'
  OBVIOUS
<1> USE DEF feedVars, runVars, waitVars, httpVars, checkVars
<1>1. ASSUME NEW t \in Tasks, FetchPoll(t), UNCHANGED <<truth, snap>>
      PROVE  RequestCurrent'
  <2>1. CASE inflight
    BY <1>1, <2>1 DEF FetchPoll, RequestCurrent
  <2>2. CASE ~inflight
    BY <1>1, <2>2 DEF FetchPoll, RequestCurrent, Published, TypeOK, Version
  <2> QED
    BY <2>1, <2>2
<1>2. ASSUME NEW t \in Tasks, Ready(t),
             IF Accepts(t) THEN Emit(Fetched(t)) ELSE Discard(t),
             UNCHANGED <<truth, inflight, floor>>
      PROVE  RequestCurrent'
  BY <1>2, AnsweredEffect DEF RequestCurrent
<1>3. CASE TruthChange
  BY <1>3 DEF TruthChange, RequestCurrent, TypeOK, Version
<1>4. CASE HttpOk \/ HttpFail
  BY <1>4 DEF HttpOk, HttpFail, Complete, RequestCurrent
<1>5. CASE RunFrame
  BY <1>5 DEF RunFrame, Emit, RequestCurrent
<1>6. CASE SeedWake
  BY <1>1, <1>6, TaskNames DEF SeedWake, RequestCurrent
<1>7. CASE PollWake
  BY <1>1, <1>7, TaskNames DEF PollWake
<1>8. CASE WatchdogTick
  BY <1>1, <1>8, TaskNames DEF WatchdogTick, RequestCurrent
<1>9. CASE SeedAnswer
  BY <1>2, <1>9, TaskNames DEF SeedAnswer
<1>10. CASE PollAnswer
  BY <1>2, <1>10, TaskNames DEF PollAnswer
<1>11. CASE WatchdogAnswer
  BY <1>2, <1>11, TaskNames DEF WatchdogAnswer
<1>12. CASE Stop
  BY <1>12 DEF Stop, RequestCurrent
<1>13. CASE \/ Silence \/ WindowElapsed \/ LongSession \/ SocketOpen \/ HandshakeOk
            \/ RunFail \/ Reconnect \/ UNCHANGED vars
  BY <1>13
  DEF Silence, WindowElapsed, LongSession, SocketOpen, HandshakeOk, RunFail,
      Reconnect, vars, RequestCurrent
<1> QED
  BY <1>3, <1>4, <1>5, <1>6, <1>7, <1>8, <1>9, <1>10, <1>11, <1>12, <1>13 DEF Next


\* Nobody but the task t starts or stops waiting, and no answer but its changes.
OthersWait(t) ==
    \A u \in Tasks \ {t} : pc'[u] = pc[u] /\ answer'[u] = answer[u]

LEMMA FetchPollEffect ==
  ASSUME TypeOK, NEW t \in Tasks, FetchPoll(t)
  PROVE  /\ OthersWait(t)
         /\ pc'[t] = "wait" /\ answer'[t] = Pending
         /\ inflight' /\ (inflight => httpFresh' = httpFresh)
         /\ t \in fresh' <=> httpFresh'
         /\ \A u \in Tasks \ {t} : u \in fresh' <=> u \in fresh
         /\ current' = current \cup {t}
BY DEF TypeOK, FetchPoll, OthersWait

LEMMA AnswerStep ==
  TypeOK /\ Published /\ RequestCurrent /\ AnswerCurrent /\ [Next]_vars
    => AnswerCurrent'
<1> SUFFICES ASSUME TypeOK, Published, RequestCurrent, AnswerCurrent, [Next]_vars
             PROVE  AnswerCurrent'
  OBVIOUS
<1> USE DEF feedVars, runVars, waitVars, httpVars, checkVars
<1>1. ASSUME NEW t \in Tasks, FetchPoll(t), UNCHANGED snap
      PROVE  AnswerCurrent'
  <2>1. Pending \notin Version
    BY DEF Pending, Version
  <2>2. SUFFICES ASSUME NEW u \in fresh'
                 PROVE  /\ pc'[u] = "wait"
                        /\ answer'[u] = Pending => inflight' /\ httpFresh'
                        /\ answer'[u] \in Version => snap' <= answer'[u]
    BY DEF AnswerCurrent
  <2>3. CASE u = t
    BY <1>1, <2>1, <2>3, FetchPollEffect
  <2>4. CASE u # t
    <3>1. u \in fresh /\ u \in Tasks \ {t}
      BY <1>1, <2>4, FetchPollEffect DEF TypeOK, FetchPoll
    <3>2. pc'[u] = pc[u] /\ answer'[u] = answer[u]
      BY <1>1, <3>1, FetchPollEffect DEF OthersWait
    <3>3. inflight /\ httpFresh => inflight' /\ httpFresh'
      BY <1>1, FetchPollEffect
    <3> QED
      BY <1>1, <3>1, <3>2, <3>3 DEF AnswerCurrent
  <2> QED
    BY <2>3, <2>4
<1>2. ASSUME NEW t \in Tasks, Ready(t),
             IF Accepts(t) THEN Emit(Fetched(t)) ELSE Discard(t),
             ~Accepts(t) => OthersWait(t) /\ UNCHANGED inflight
      PROVE  AnswerCurrent'
  <2>1. CASE Accepts(t)
    BY <1>2, <2>1, AnsweredEffect DEF AnswerCurrent
  <2>2. CASE ~Accepts(t)
    BY <1>2, <2>2, AnsweredEffect DEF OthersWait, AnswerCurrent, TypeOK
  <2> QED
    BY <2>1, <2>2
<1>3. ASSUME NEW a \in Version \cup {Failed}, Complete(a),
             a \in Version => floor <= a
      PROVE  AnswerCurrent'
  <2>1. SUFFICES ASSUME NEW t \in fresh
                 PROVE  /\ pc[t] = "wait"
                        /\ answer'[t] # Pending
                        /\ answer'[t] \in Version => snap <= answer'[t]
    BY <1>3 DEF Complete, AnswerCurrent
  <2>2. t \in Tasks /\ pc[t] = "wait"
    BY DEF AnswerCurrent, TypeOK
  <2>3. CASE answer[t] = Pending
    <3>1. answer'[t] = a
      BY <1>3, <2>2, <2>3 DEF Complete
    <3>2. snap <= floor
      BY <2>3 DEF AnswerCurrent, RequestCurrent
    <3>3. snap \in Int /\ floor \in Int /\ a \in Int
      BY VersionAssumption DEF TypeOK, Version, NoMap, Failed
    <3>4. a # Pending
      BY DEF Version, Failed, Pending
    <3> QED
      BY <1>3, <2>2, <3>1, <3>2, <3>3, <3>4
  <2>4. CASE answer[t] # Pending
    BY <1>3, <2>2, <2>4 DEF Complete, AnswerCurrent
  <2> QED
    BY <2>2, <2>3, <2>4
<1>4. CASE HttpOk
  <2>1. PICK v \in floor .. truth : Complete(v)
    BY <1>4 DEF HttpOk
  <2>2. v \in Version /\ floor <= v
    BY VersionAssumption DEF TypeOK, Version
  <2> QED
    BY <1>3, <2>1, <2>2
<1>5. CASE HttpFail
  <2>1. Failed \notin Version
    BY DEF Failed, Version
  <2> QED
    BY <1>3, <1>5, <2>1 DEF HttpFail
<1>6. CASE RunFrame
  BY <1>6 DEF RunFrame, Emit, AnswerCurrent
<1>7. CASE RunFail
  <2>1. pc["poll"] = "wait" => PollUnder(mode') = "wait"
    BY <1>7 DEF RunFail, PollUnder, TypeOK
  <2>2. \A t \in Tasks : pc[t] = "wait" => pc'[t] = "wait"
    BY <1>7, <2>1 DEF RunFail, TypeOK
  <2> QED
    BY <1>7, <2>2 DEF RunFail, AnswerCurrent, TypeOK
<1>8. CASE SeedWake
  <2>1. CASE snap # NoMap
    BY <1>8, <2>1, TaskNames DEF SeedWake, AnswerCurrent, TypeOK
  <2>2. CASE snap = NoMap
    BY <1>1, <1>8, <2>2, TaskNames DEF SeedWake
  <2> QED
    BY <2>1, <2>2
<1>9. CASE PollWake
  BY <1>1, <1>9, TaskNames DEF PollWake
<1>10. CASE WatchdogTick
  BY <1>1, <1>10, TaskNames DEF WatchdogTick, AnswerCurrent
<1>11. CASE SeedAnswer
  <2>1. OthersWait("seed")
    BY <1>11, TaskNames DEF SeedAnswer, NoLongerWaiting, OthersWait, TypeOK
  <2> QED
    BY <1>2, <1>11, <2>1, TaskNames DEF SeedAnswer
<1>12. CASE PollAnswer
  <2>1. OthersWait("poll")
    BY <1>12, TaskNames DEF PollAnswer, NoLongerWaiting, OthersWait, TypeOK
  <2> QED
    BY <1>2, <1>12, <2>1, TaskNames DEF PollAnswer
<1>13. CASE WatchdogAnswer
  <2>1. ~Accepts("watchdog") => PollUnder(mode') = pc["poll"]
    BY <1>13 DEF WatchdogAnswer, Disagrees, PollUnder
  <2>2. ~Accepts("watchdog") => OthersWait("watchdog")
    BY <1>13, <2>1, TaskNames DEF WatchdogAnswer, NoLongerWaiting, OthersWait, TypeOK
  <2> QED
    BY <1>2, <1>13, <2>2, TaskNames DEF WatchdogAnswer
<1>14. CASE Stop
  BY <1>14 DEF Stop, AnswerCurrent
<1>15. CASE \/ TruthChange \/ Silence \/ WindowElapsed \/ LongSession \/ SocketOpen
            \/ HandshakeOk \/ Reconnect \/ UNCHANGED vars
  BY <1>15
  DEF TruthChange, Silence, WindowElapsed, LongSession, SocketOpen, HandshakeOk,
      Reconnect, vars, AnswerCurrent
<1> QED
  BY <1>4, <1>5, <1>6, <1>7, <1>8, <1>9, <1>10, <1>11, <1>12, <1>13, <1>14, <1>15
  DEF Next


-----------------------------------------------------------------------------
(* WatchdogCurrent *)

LEMMA WatchdogStep ==
  TypeOK /\ Published /\ AnswerCurrent /\ WatchdogCurrent /\ [Next]_vars
    => WatchdogCurrent'
<1> SUFFICES ASSUME TypeOK, Published, AnswerCurrent, WatchdogCurrent, [Next]_vars
             PROVE  WatchdogCurrent'
  OBVIOUS
<1> USE DEF feedVars, runVars, waitVars, httpVars, checkVars
<1>1. ASSUME NEW t \in Tasks, FetchPoll(t), UNCHANGED quiet,
             t = "watchdog" => quiet
      PROVE  WatchdogCurrent'
  BY <1>1 DEF FetchPoll, WatchdogCurrent
<1>2. ASSUME NEW t \in Tasks, Ready(t),
             IF Accepts(t) THEN Emit(Fetched(t)) ELSE Discard(t),
             UNCHANGED inflight
      PROVE  WatchdogCurrent'
  BY <1>2, AnsweredEffect DEF WatchdogCurrent
<1>3. CASE HttpOk \/ HttpFail
  BY <1>3 DEF HttpOk, HttpFail, Complete, WatchdogCurrent
<1>4. CASE Silence
  BY <1>4 DEF Silence, WatchdogCurrent
<1>5. CASE RunFrame
  BY <1>5 DEF RunFrame, Emit, WatchdogCurrent
<1>6. CASE SeedWake
  BY <1>1, <1>6, TaskNames DEF SeedWake, WatchdogCurrent
<1>7. CASE PollWake
  BY <1>1, <1>7, TaskNames DEF PollWake
<1>8. CASE WatchdogTick
  BY <1>1, <1>8, TaskNames DEF WatchdogTick, WatchdogCurrent
<1>9. CASE SeedAnswer
  BY <1>2, <1>9, TaskNames DEF SeedAnswer
<1>10. CASE PollAnswer
  BY <1>2, <1>10, TaskNames DEF PollAnswer
<1>11. CASE WatchdogAnswer
  BY <1>2, <1>11, TaskNames DEF WatchdogAnswer
<1>12. CASE Stop
  BY <1>12 DEF Stop, WatchdogCurrent
<1>13. CASE \/ TruthChange \/ WindowElapsed \/ LongSession \/ SocketOpen
            \/ HandshakeOk \/ RunFail \/ Reconnect \/ UNCHANGED vars
  BY <1>13
  DEF TruthChange, WindowElapsed, LongSession, SocketOpen, HandshakeOk, RunFail,
      Reconnect, vars, WatchdogCurrent
<1> QED
  BY <1>3, <1>4, <1>5, <1>6, <1>7, <1>8, <1>9, <1>10, <1>11, <1>12, <1>13 DEF Next

-----------------------------------------------------------------------------
(* Positions *)

\* A poll task there is, before and after: _set_mode keeps task and mode in step.
LEMMA PollUnderPolling ==
  ASSUME TypeOK, mode = "polling" <=> pc["poll"] # "none",
         NEW m \in {"websocket", "polling"}
  PROVE  /\ m = "polling" <=> PollUnder(m) # "none"
         /\ PollUnder(m) = "wait" => pc["poll"] = "wait"
BY DEF TypeOK, PollUnder

LEMMA PositionsStep ==
  TypeOK /\ Published /\ AnswerCurrent /\ Positions /\ [Next]_vars => Positions'
<1> SUFFICES ASSUME TypeOK, Published, AnswerCurrent, Positions, [Next]_vars
             PROVE  Positions'
  OBVIOUS
<1> USE DEF feedVars, runVars, waitVars, httpVars, checkVars
<1>1. NoMap \notin Version /\ Failed # Pending
  BY DEF NoMap, Version, Failed, Pending
<1>2. CASE ~running
  <2>1. CASE TruthChange
    BY <1>2, <2>1
    DEF TruthChange, Positions, PollTaskIffPolling, SeedAliveUntilFirstSnapshot,
        NobodyWaitsForNothing, Waiters
  <2>2. CASE UNCHANGED vars
    BY <1>2, <2>2
    DEF vars, Positions, PollTaskIffPolling, SeedAliveUntilFirstSnapshot,
        NobodyWaitsForNothing, Waiters
  <2>3. \/ TruthChange \/ UNCHANGED vars
    BY <1>2, TaskNames
    DEF Next, Positions, HttpOk, HttpFail, Complete, Silence, WindowElapsed,
        LongSession, SocketOpen, HandshakeOk, RunFrame, RunFail, Reconnect,
        SeedWake, SeedAnswer, PollWake, PollAnswer, WatchdogTick, WatchdogAnswer,
        Ready, Stop
  <2> QED
    BY <2>1, <2>2, <2>3
<1>3. CASE running /\ Stop
  BY <1>3
  DEF Stop, Positions, PollTaskIffPolling, SeedAliveUntilFirstSnapshot,
      NobodyWaitsForNothing, Waiters
<1>4. CASE running /\ ~Stop
  <2>1. running'
    BY <1>4
    DEF Next, vars, TruthChange, HttpOk, HttpFail, Complete, Silence, WindowElapsed,
        LongSession, SocketOpen, HandshakeOk, RunFrame, RunFail, Reconnect,
        SeedWake, SeedAnswer, PollWake, PollAnswer, WatchdogTick, WatchdogAnswer
  <2>2. PollTaskIffPolling'
    <3>1. mode = "polling" <=> pc["poll"] # "none"
      BY <1>4 DEF Positions, PollTaskIffPolling
    <3>2. CASE RunFrame
      BY <3>1, <3>2, PollUnderPolling, TaskNames
      DEF RunFrame, PollTaskIffPolling, TypeOK
    <3>3. CASE RunFail
      <4>1. mode' \in {"websocket", "polling"}
        BY <3>3 DEF RunFail, TypeOK
      <4> QED
        BY <3>1, <3>3, <4>1, PollUnderPolling, TaskNames
        DEF RunFail, PollTaskIffPolling, TypeOK
    <3>4. CASE WatchdogAnswer
      <4>1. mode' \in {"websocket", "polling"}
        BY <3>4 DEF WatchdogAnswer, TypeOK
      <4> QED
        BY <3>1, <3>4, <4>1, PollUnderPolling, TaskNames
        DEF WatchdogAnswer, PollTaskIffPolling, TypeOK
    <3>5. CASE SeedWake \/ PollWake \/ WatchdogTick
      BY <3>1, <3>5, TaskNames
      DEF SeedWake, PollWake, WatchdogTick, FetchPoll, PollTaskIffPolling, TypeOK
    <3>6. CASE SeedAnswer \/ PollAnswer
      BY <3>1, <3>6, TaskNames
      DEF SeedAnswer, PollAnswer, Ready, PollTaskIffPolling, TypeOK
    <3>7. CASE \/ TruthChange \/ HttpOk \/ HttpFail \/ Silence \/ WindowElapsed
               \/ LongSession \/ SocketOpen \/ HandshakeOk \/ Reconnect
               \/ UNCHANGED vars
      BY <3>1, <3>7
      DEF TruthChange, HttpOk, HttpFail, Complete, Silence, WindowElapsed,
          LongSession, SocketOpen, HandshakeOk, Reconnect, vars, PollTaskIffPolling
    <3> QED
      BY <1>4, <3>2, <3>3, <3>4, <3>5, <3>6, <3>7 DEF Next
  <2>3. SeedAliveUntilFirstSnapshot'
    <3>1. snap = NoMap => pc["seed"] \in {"idle", "wait"}
      BY <1>4 DEF Positions, SeedAliveUntilFirstSnapshot
    <3>2. CASE RunFrame
      <4>1. Head(frames) \in Version
        BY <3>2 DEF RunFrame, TypeOK
      <4> QED
        BY <1>1, <3>2, <4>1 DEF RunFrame, Emit, SeedAliveUntilFirstSnapshot
    <3>3. CASE SeedWake \/ PollWake \/ WatchdogTick
      BY <3>1, <3>3, TaskNames
      DEF SeedWake, PollWake, WatchdogTick, FetchPoll, SeedAliveUntilFirstSnapshot,
          TypeOK
    <3>4. CASE SeedAnswer
      BY <1>1, <3>4, TaskNames, AnsweredEffect
      DEF SeedAnswer, SeedAliveUntilFirstSnapshot, TypeOK
    <3>5. CASE PollAnswer
      BY <1>1, <3>1, <3>5, TaskNames, AnsweredEffect
      DEF PollAnswer, SeedAliveUntilFirstSnapshot, TypeOK
    <3>6. CASE WatchdogAnswer
      BY <1>1, <3>1, <3>6, TaskNames, AnsweredEffect
      DEF WatchdogAnswer, SeedAliveUntilFirstSnapshot, TypeOK
    <3>7. CASE RunFail
      BY <3>1, <3>7, TaskNames DEF RunFail, SeedAliveUntilFirstSnapshot, TypeOK
    <3>8. CASE \/ TruthChange \/ HttpOk \/ HttpFail \/ Silence \/ WindowElapsed
               \/ LongSession \/ SocketOpen \/ HandshakeOk \/ Reconnect
               \/ UNCHANGED vars
      BY <3>1, <3>8
      DEF TruthChange, HttpOk, HttpFail, Complete, Silence, WindowElapsed,
          LongSession, SocketOpen, HandshakeOk, Reconnect, vars,
          SeedAliveUntilFirstSnapshot
    <3> QED
      BY <1>4, <3>2, <3>3, <3>4, <3>5, <3>6, <3>7, <3>8 DEF Next
  <2>4. NobodyWaitsForNothing'
    <3>1. \A t \in Tasks : pc[t] = "wait" /\ answer[t] = Pending => inflight
      BY DEF Positions, NobodyWaitsForNothing, Waiters
    <3>2. SUFFICES ASSUME NEW t \in Tasks, pc'[t] = "wait", answer'[t] = Pending
                   PROVE  inflight'
      BY DEF NobodyWaitsForNothing, Waiters
    <3>3. CASE SeedWake \/ PollWake \/ WatchdogTick
      BY <3>1, <3>2, <3>3, TaskNames
      DEF SeedWake, PollWake, WatchdogTick, FetchPoll, TypeOK
    <3>4. CASE HttpOk \/ HttpFail
      <4>1. PICK a \in (floor .. truth) \cup {Failed} : Complete(a)
        BY <3>4 DEF HttpOk, HttpFail
      <4>2. a # Pending
        BY DEF TypeOK, Version, Failed, Pending
      <4> QED
        BY <3>2, <4>1, <4>2 DEF Complete
    <3>5. CASE RunFrame
      <4>1. mode = "polling" <=> pc["poll"] # "none"
        BY <1>4 DEF Positions, PollTaskIffPolling
      <4>2. t # "poll"
        BY <3>2, <3>5, <4>1, TaskNames DEF RunFrame, PollUnder, TypeOK
      <4> QED
        BY <3>1, <3>2, <3>5, <4>2 DEF RunFrame, NoLongerWaiting, TypeOK
    <3>6. CASE RunFail
      <4>1. PollUnder(mode') = "wait" => pc["poll"] = "wait"
        BY <3>6 DEF RunFail, PollUnder, TypeOK
      <4>2. pc[t] = "wait"
        BY <3>2, <3>6, <4>1 DEF RunFail, TypeOK
      <4> QED
        BY <3>1, <3>2, <3>6, <4>2 DEF RunFail
    <3>7. CASE SeedAnswer \/ PollAnswer
      BY <3>1, <3>2, <3>7, TaskNames
      DEF SeedAnswer, PollAnswer, NoLongerWaiting, TypeOK
    <3>8. CASE WatchdogAnswer
      <4>1. PollUnder(mode') = "wait" => pc["poll"] = "wait"
        BY <3>8 DEF WatchdogAnswer, PollUnder, TypeOK
      <4>2. t # "watchdog" /\ pc[t] = "wait"
        BY <3>2, <3>8, <4>1, TaskNames DEF WatchdogAnswer, TypeOK
      <4> QED
        BY <3>1, <3>2, <3>8, <4>2 DEF WatchdogAnswer, NoLongerWaiting, TypeOK
    <3>9. CASE \/ TruthChange \/ Silence \/ WindowElapsed \/ LongSession
               \/ SocketOpen \/ HandshakeOk \/ Reconnect \/ UNCHANGED vars
      BY <3>1, <3>2, <3>9
      DEF TruthChange, Silence, WindowElapsed, LongSession, SocketOpen, HandshakeOk,
          Reconnect, vars
    <3> QED
      BY <1>4, <3>3, <3>4, <3>5, <3>6, <3>7, <3>8, <3>9 DEF Next
  <2> QED
    BY <2>1, <2>2, <2>3, <2>4 DEF Positions
<1> QED
  BY <1>2, <1>3, <1>4

-----------------------------------------------------------------------------
(* The inductive invariant *)

LEMMA InvInit == Init => Inv
<1> SUFFICES ASSUME Init PROVE Inv
  OBVIOUS
<1>1. TypeOK
  BY TypeInit
<1>2. Published /\ RequestCurrent /\ AnswerCurrent /\ WatchdogCurrent
  BY DEF Init, Published, RequestCurrent, AnswerCurrent, WatchdogCurrent, NoMap,
         Pending
<1>3. Positions
  BY TaskNames
  DEF Init, Positions, PollTaskIffPolling, SeedAliveUntilFirstSnapshot,
      NobodyWaitsForNothing, Waiters
<1> QED
  BY <1>1, <1>2, <1>3 DEF Inv

LEMMA InvStep == Inv /\ [Next]_vars => Inv'
BY TypeStep, PublishedStep, RequestStep, AnswerStep, WatchdogStep, PositionsStep
DEF Inv

\* The inductive invariant holds in every behaviour, and with it everything that
\* is read off it.
THEOREM Invariance == Spec => []Inv
BY InvInit, InvStep, PTL DEF Spec

\* One poll loop exactly while polling; whatever joins, fails or is superseded, the
\* seed does not give up before there is a map; a task waits for a request only while
\* there is one, or its outcome is at hand.
THEOREM InPosition == Spec => []TasksInPosition
<1>1. Inv => TasksInPosition
  BY DEF Inv, Positions, TasksInPosition
<1> QED
  BY <1>1, Invariance, PTL

-----------------------------------------------------------------------------
(* Action properties *)

\* The polling endpoint never takes the map back, whatever joins, supersedes,
\* fails or is cancelled while a request is out.
THEOREM HttpMonotonic == Spec => HttpNeverRollsBack
<1>1. Inv /\ [Next]_vars => (snap' # snap /\ frames' = frames => snap' > snap)
  <2> SUFFICES ASSUME Inv, [Next]_vars, snap' # snap, frames' = frames
               PROVE  snap' > snap
    OBVIOUS
  <2> USE DEF feedVars, runVars, waitVars, httpVars, checkVars
  <2>1. ASSUME NEW t \in Tasks, Ready(t),
               IF Accepts(t) THEN Emit(Fetched(t)) ELSE Discard(t)
        PROVE  snap' > snap
    <3>1. snap' \in Int /\ snap \in Int
      BY <2>1, AnsweredEffect, VersionAssumption DEF Inv, TypeOK, Version, NoMap
    <3> QED
      BY <2>1, <3>1, AnsweredEffect DEF Inv
  <2>2. CASE SeedAnswer
    BY <2>1, <2>2, TaskNames DEF SeedAnswer
  <2>3. CASE PollAnswer
    BY <2>1, <2>3, TaskNames DEF PollAnswer
  <2>4. CASE WatchdogAnswer
    BY <2>1, <2>4, TaskNames DEF WatchdogAnswer
  <2>5. ~RunFrame
    BY DEF RunFrame, Inv, TypeOK
  <2>6. SeedAnswer \/ PollAnswer \/ WatchdogAnswer
    BY <2>5
    DEF Next, vars, TruthChange, HttpOk, HttpFail, Complete, Silence, WindowElapsed,
        LongSession, SocketOpen, HandshakeOk, RunFail, Reconnect, SeedWake, PollWake,
        WatchdogTick, Stop
  <2> QED
    BY <2>2, <2>3, <2>4, <2>6
<1> QED
  BY <1>1, Invariance, PTL DEF Spec, HttpNeverRollsBack

\* A live socket is never pulled because of an answer that was only superseded.
THEOREM DropsNeedEvidence == Spec => DroppedOnEvidence
<1>1. Inv /\ [Next]_vars =>
        (~dropped /\ dropped' =>
           /\ "watchdog" \in current
           /\ \/ answer["watchdog"] = Failed
              \/ Signature[answer["watchdog"]] # Signature[previous])
  <2> SUFFICES ASSUME Inv, [Next]_vars, ~dropped, dropped'
               PROVE  /\ "watchdog" \in current
                      /\ \/ answer["watchdog"] = Failed
                         \/ Signature[answer["watchdog"]] # Signature[previous]
    OBVIOUS
  <2> USE DEF feedVars, runVars, waitVars, httpVars, checkVars
  <2>1. WatchdogAnswer
    BY DEF Next, vars, TruthChange, HttpOk, HttpFail, Complete, Silence,
           WindowElapsed, LongSession, SocketOpen, HandshakeOk, RunFrame, RunFail,
           Reconnect, SeedWake, SeedAnswer, PollWake, PollAnswer, WatchdogTick, Stop
  <2>2. "watchdog" \in current /\ ~Agrees
    BY <2>1 DEF WatchdogAnswer
  <2>3. running /\ Ready("watchdog") /\ "watchdog" \in fresh
    BY <2>1, <2>2, TaskNames
    DEF WatchdogAnswer, Inv, WatchdogCurrent, Positions, Ready
  <2>4. CASE Accepts("watchdog")
    BY <2>2, <2>3, <2>4 DEF Agrees, Fetched
  <2>5. CASE ~Accepts("watchdog")
    BY <2>2, <2>3, <2>5 DEF Accepts, Fetched, NoMap, Failed
  <2> QED
    BY <2>2, <2>4, <2>5
<1> QED
  BY <1>1, Invariance, PTL DEF Spec, DroppedOnEvidence

\* Polling ends with an accepted publication and with nothing less.
THEOREM PollingEndsWithPublication == Spec => PollUntilPublication
<1>1. Inv /\ [Next]_vars =>
        (mode = "polling" /\ mode' = "websocket" =>
           frames # <<>> /\ snap' = Head(frames))
  <2> SUFFICES ASSUME Inv, [Next]_vars, mode = "polling", mode' = "websocket"
               PROVE  frames # <<>> /\ snap' = Head(frames)
    OBVIOUS
  <2>1. RunFrame
    BY DEF feedVars, runVars, waitVars, httpVars, checkVars, Next, vars,
           TruthChange, HttpOk, HttpFail, Complete, Silence, WindowElapsed,
           LongSession, SocketOpen, HandshakeOk, RunFail, Reconnect, SeedWake,
           SeedAnswer, PollWake, PollAnswer, WatchdogTick, WatchdogAnswer, Stop
  <2> QED
    BY <2>1 DEF RunFrame, Emit
<1> QED
  BY <1>1, Invariance, PTL DEF Spec, PollUntilPublication

-----------------------------------------------------------------------------
(* Refinement: the supervisor is an AlertFeed, but for the liveness *)

\* The listener is given published maps only, and nothing after stop().
THEOREM ImplementsFeed == Spec => Feed!FeedSafety
<1>1. Init => Feed!FeedInit
  BY DEF Init, Feed!FeedInit
<1>2. Inv /\ Inv' /\ [Next]_vars => [Feed!FeedNext]_(Feed!feedState)
  <2> SUFFICES ASSUME Inv, Inv', [Next]_vars
               PROVE  [Feed!FeedNext]_(Feed!feedState)
    OBVIOUS
  <2> USE DEF feedVars, runVars, waitVars, httpVars, checkVars, Feed!feedState,
              Feed!FeedNext
  <2>1. ASSUME NEW t \in Tasks, Ready(t),
               IF Accepts(t) THEN Emit(Fetched(t)) ELSE Discard(t),
               UNCHANGED <<truth, running>>
        PROVE  UNCHANGED Feed!feedState \/ Feed!Show
    <3>1. CASE Accepts(t)
      <4>1. running
        BY <3>1 DEF Accepts
      <4>2. snap' \in 0 .. truth
        BY <2>1, <3>1, AnsweredEffect, VersionAssumption
        DEF Inv, TypeOK, Version
      <4> QED
        BY <2>1, <4>1, <4>2 DEF Feed!Show
    <3>2. CASE ~Accepts(t)
      BY <2>1, <3>2 DEF Discard
    <3> QED
      BY <3>1, <3>2
  <2>2. CASE TruthChange
    BY <2>2 DEF TruthChange, Feed!Publish
  <2>3. CASE RunFrame
    <3>1. running
      BY <2>3 DEF RunFrame, Inv, Positions
    <3>2. Head(frames) \in Version /\ Head(frames) <= truth
      BY <2>3 DEF RunFrame, Inv, TypeOK, Published
    <3>3. snap' \in 0 .. truth
      BY <2>3, <3>2, VersionAssumption DEF RunFrame, Emit, Inv, TypeOK, Version
    <3> QED
      BY <2>3, <3>1, <3>3 DEF RunFrame, Feed!Show
  <2>4. CASE SeedAnswer
    BY <2>1, <2>4, TaskNames DEF SeedAnswer
  <2>5. CASE PollAnswer
    BY <2>1, <2>5, TaskNames DEF PollAnswer
  <2>6. CASE WatchdogAnswer
    BY <2>1, <2>6, TaskNames DEF WatchdogAnswer
  <2>7. CASE Stop
    BY <2>7 DEF Stop, Feed!Close
  <2>8. CASE \/ HttpOk \/ HttpFail \/ Silence \/ WindowElapsed \/ LongSession
             \/ SocketOpen \/ HandshakeOk \/ RunFail \/ Reconnect
             \/ SeedWake \/ PollWake \/ WatchdogTick \/ UNCHANGED vars
    BY <2>8
    DEF HttpOk, HttpFail, Complete, Silence, WindowElapsed, LongSession, SocketOpen,
        HandshakeOk, RunFail, Reconnect, SeedWake, PollWake, WatchdogTick, vars
  <2> QED
    BY <2>2, <2>3, <2>4, <2>5, <2>6, <2>7, <2>8 DEF Next
<1> QED
  BY <1>1, <1>2, Invariance, PTL DEF Spec, Feed!FeedSafety
=============================================================================
