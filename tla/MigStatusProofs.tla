---------------------------- MODULE MigStatusProofs ----------------------------
(***************************************************************************)
(* The bounds of FeedFreshness for all intervals that satisfy its          *)
(* assumptions: while nothing failed, the silence so far plus the time     *)
(* until somebody asks never exceeds the cross-check's threshold plus one  *)
(* watchdog tick; a request then takes at most its timeout.                *)
(*                                                                         *)
(* Then MigStatus: what the sensors show lags behind what the coordinator  *)
(* knows by at most one tick and only when the data went stale, and no     *)
(* flight is announced twice, for any number of flights and reloads.       *)
(***************************************************************************)
EXTENDS MigStatus, TLAPS

Threshold == CheckAfter + WatchdogInterval

\* Nothing failed since the last accepted map.
Untroubled == have /\ ~failed

\* Who awaits what.
Awaiting ==
    /\ watching \/ asking => request # NoRequest
    /\ asking => mode = "polling" /\ pause = 0
    /\ mode = "websocket" => pause = 0 /\ ~asking
    /\ request # NoRequest => blocked = 0
    /\ pause <= MaxBackoff \/ pause <= blocked

\* An answer that will be discarded belongs to a young map.
OutdatedIsYoung ==
    outdated => request # NoRequest /\ age <= request

\* In a silence that nothing has troubled, no check was made yet.
CheckStillDue ==
    Untroubled /\ mode = "websocket" /\ (watching => outdated) => age <= sinceCheck

\* Somebody asks before the threshold is passed.
AskedInTime ==
    /\ Untroubled /\ request # NoRequest => age <= Threshold + request
    /\ Untroubled /\ mode = "websocket" /\ ~watching => age + watch <= Threshold
    /\ Untroubled /\ mode = "polling" /\ ~asking =>
          \/ age + pause <= Threshold
          \/ pause = 0 /\ request # NoRequest

\* The next check comes in time after the last one, or the silence is too short.
RetriedInTime ==
    /\ watching => sinceCheck <= request
    /\ ~watching => \/ age + watch <= Threshold
                    \/ sinceCheck + watch <= Threshold

\* async_check_stale will run before the feed has been silent for too long.
IssueInTime ==
    /\ issue => age > StaleAfter
    /\ ~issue => age + nextStale <= StaleAfter + StaleInterval

Inv ==
    /\ TypeOK
    /\ Awaiting
    /\ OutdatedIsYoung
    /\ CheckStillDue
    /\ AskedInTime
    /\ RetriedInTime
    /\ IssueInTime

-----------------------------------------------------------------------------

LEMMA InvInit == Init => Inv
<1> SUFFICES ASSUME Init PROVE Inv
  OBVIOUS
<1> USE IntervalAssumption, MarginAssumption, BackoffAssumption DEF Init, NoRequest, Old
<1>1. TypeOK
  <2>1. /\ have \in BOOLEAN /\ failed \in BOOLEAN /\ watching \in BOOLEAN
        /\ asking \in BOOLEAN /\ outdated \in BOOLEAN /\ issue \in BOOLEAN
    OBVIOUS
  <2> QED
    BY <2>1 DEF TypeOK
<1>2. Awaiting /\ OutdatedIsYoung
  BY DEF Awaiting, OutdatedIsYoung
<1>3. CheckStillDue /\ AskedInTime
  BY DEF CheckStillDue, AskedInTime, Untroubled, Threshold
<1>4. IssueInTime
  BY DEF IssueInTime
<1>5. RetriedInTime
  BY DEF RetriedInTime, Threshold
<1> QED
  BY <1>1, <1>2, <1>3, <1>4, <1>5 DEF Inv

LEMMA TypeStep == TypeOK /\ [Next]_vars => TypeOK'
<1> SUFFICES ASSUME TypeOK, [Next]_vars PROVE TypeOK'
  OBVIOUS
<1> USE IntervalAssumption, MarginAssumption, BackoffAssumption
    DEF TypeOK,
        feed, dog, poller, http, health, NoRequest, Old
<1>1. CASE Elapse
  BY <1>1 DEF Elapse, Later, Sooner, WatchdogDue, PollDue, StaleDue
<1>2. CASE Push
  <2>1. have' \in BOOLEAN /\ failed' \in BOOLEAN /\ issue' \in BOOLEAN
    BY <1>2 DEF Push, Accept, WasStale
  <2>2. asking' \in BOOLEAN /\ outdated' \in BOOLEAN
    BY <1>2 DEF Push, Accept, WasStale
  <2> QED
    BY <1>2, <2>1, <2>2 DEF Push, Accept, WasStale
<1>3. CASE Degrade
  BY <1>3 DEF Degrade
<1>4. CASE SeedOk
  <2>1. have' \in BOOLEAN /\ failed' \in BOOLEAN /\ issue' \in BOOLEAN
    BY <1>4 DEF SeedOk, Accept, WasStale
  <2> QED
    BY <1>4, <2>1 DEF SeedOk, Accept, WasStale
<1>5. CASE SeedFail
  BY <1>5 DEF SeedFail
<1>6. CASE WatchdogLook
  <2>1. watching' \in BOOLEAN /\ outdated' \in BOOLEAN /\ failed' \in BOOLEAN
    BY <1>6 DEF WatchdogLook, WatchdogDue, CheckNeeded, RateLimited, Ask
  <2>2. watch' \in 0 .. WatchdogInterval /\ sinceCheck' \in 0 .. Old
    BY <1>6 DEF WatchdogLook, WatchdogDue, CheckNeeded, RateLimited, Ask
  <2>3. request' \in {NoRequest} \cup 0 .. Timeout
    BY <1>6 DEF WatchdogLook, WatchdogDue, CheckNeeded, RateLimited, Ask
  <2> QED
    BY <1>6, <2>1, <2>2, <2>3 DEF WatchdogLook, WatchdogDue, CheckNeeded, RateLimited, Ask
<1>7. CASE PollAsk
  <2>1. asking' \in BOOLEAN /\ outdated' \in BOOLEAN /\ failed' \in BOOLEAN
    BY <1>7 DEF PollAsk, PollDue, RateLimited, Pause, Ask
  <2>2. pause' \in Nat
    BY <1>7 DEF PollAsk, PollDue, RateLimited, Pause, Ask
  <2>3. request' \in {NoRequest} \cup 0 .. Timeout
    BY <1>7 DEF PollAsk, PollDue, RateLimited, Pause, Ask
  <2> QED
    BY <1>7, <2>1, <2>2, <2>3 DEF PollAsk, PollDue, RateLimited, Pause, Ask
<1>8. CASE RequestOk
  <2>1. have' \in BOOLEAN /\ failed' \in BOOLEAN /\ issue' \in BOOLEAN
    BY <1>8 DEF RequestOk, Accept, WasStale, WaitersSleep, Pause
  <2>2. watching' \in BOOLEAN /\ asking' \in BOOLEAN /\ outdated' \in BOOLEAN
    BY <1>8 DEF RequestOk, Accept, WasStale, WaitersSleep, Pause
  <2>3. pause' \in Nat /\ watch' \in 0 .. WatchdogInterval
    BY <1>8 DEF RequestOk, Accept, WasStale, WaitersSleep, Pause
  <2> QED
    BY <1>8, <2>1, <2>2, <2>3 DEF RequestOk, Accept, WasStale, WaitersSleep, Pause
<1>9. CASE RequestSuperseded
  <2>1. watching' \in BOOLEAN /\ asking' \in BOOLEAN /\ outdated' \in BOOLEAN
    BY <1>9 DEF RequestSuperseded, WaitersSleep, Pause
  <2>2. pause' \in Nat /\ watch' \in 0 .. WatchdogInterval
    BY <1>9 DEF RequestSuperseded, WaitersSleep, Pause
  <2> QED
    BY <1>9, <2>1, <2>2 DEF RequestSuperseded, WaitersSleep, Pause
<1>10. CASE RequestFail
  <2>1. failed' \in BOOLEAN
    BY <1>10 DEF RequestFail, WaitersSleep, Pause
  <2>2. watching' \in BOOLEAN /\ asking' \in BOOLEAN /\ outdated' \in BOOLEAN
    BY <1>10 DEF RequestFail, WaitersSleep, Pause
  <2>3. pause' \in Nat /\ watch' \in 0 .. WatchdogInterval
    BY <1>10 DEF RequestFail, WaitersSleep, Pause
  <2> QED
    BY <1>10, <2>1, <2>2, <2>3 DEF RequestFail, WaitersSleep, Pause
<1>11. CASE CheckStale
  BY <1>11 DEF CheckStale, StaleDue
<1>12. CASE UNCHANGED vars
  BY <1>12 DEF vars
<1> QED
  BY <1>1, <1>2, <1>3, <1>4, <1>5, <1>6, <1>7, <1>8, <1>9, <1>10, <1>11, <1>12 DEF Next

LEMMA AwaitingStep == TypeOK /\ Awaiting /\ [Next]_vars => Awaiting'
<1> SUFFICES ASSUME TypeOK, Awaiting, [Next]_vars PROVE Awaiting'
  OBVIOUS
<1> USE IntervalAssumption, MarginAssumption, BackoffAssumption
    DEF TypeOK, Awaiting,
        feed, dog, poller, http, health, NoRequest, Old
<1>1. CASE Elapse
  BY <1>1 DEF Elapse, Later, Sooner, WatchdogDue, PollDue, StaleDue
<1>2. CASE Push
  BY <1>2 DEF Push, Accept, WasStale
<1>3. CASE Degrade
  BY <1>3 DEF Degrade
<1>4. CASE SeedOk
  BY <1>4 DEF SeedOk, Accept, WasStale
<1>5. CASE SeedFail
  BY <1>5 DEF SeedFail
<1>6. CASE WatchdogLook
  BY <1>6 DEF WatchdogLook, WatchdogDue, CheckNeeded, RateLimited, Ask
<1>7. CASE PollAsk
  BY <1>7 DEF PollAsk, PollDue, RateLimited, Pause, Ask
<1>8. CASE RequestOk
  BY <1>8 DEF RequestOk, Accept, WasStale, WaitersSleep, Pause
<1>9. CASE RequestSuperseded
  BY <1>9 DEF RequestSuperseded, WaitersSleep, Pause
<1>10. CASE RequestFail
  BY <1>10 DEF RequestFail, WaitersSleep, Pause
<1>11. CASE CheckStale
  BY <1>11 DEF CheckStale, StaleDue
<1>12. CASE UNCHANGED vars
  BY <1>12 DEF vars
<1> QED
  BY <1>1, <1>2, <1>3, <1>4, <1>5, <1>6, <1>7, <1>8, <1>9, <1>10, <1>11, <1>12 DEF Next

LEMMA OutdatedStep == TypeOK /\ Awaiting /\ OutdatedIsYoung /\ [Next]_vars => OutdatedIsYoung'
<1> SUFFICES ASSUME TypeOK, Awaiting, OutdatedIsYoung, [Next]_vars PROVE OutdatedIsYoung'
  OBVIOUS
<1> USE IntervalAssumption, MarginAssumption, BackoffAssumption
    DEF TypeOK, Awaiting, OutdatedIsYoung,
        feed, dog, poller, http, health, NoRequest, Old
<1>1. CASE Elapse
  BY <1>1 DEF Elapse, Later, Sooner, WatchdogDue, PollDue, StaleDue
<1>2. CASE Push
  BY <1>2 DEF Push, Accept, WasStale
<1>3. CASE Degrade
  BY <1>3 DEF Degrade
<1>4. CASE SeedOk
  BY <1>4 DEF SeedOk, Accept, WasStale
<1>5. CASE SeedFail
  BY <1>5 DEF SeedFail
<1>6. CASE WatchdogLook
  BY <1>6 DEF WatchdogLook, WatchdogDue, CheckNeeded, RateLimited, Ask
<1>7. CASE PollAsk
  BY <1>7 DEF PollAsk, PollDue, RateLimited, Pause, Ask
<1>8. CASE RequestOk
  BY <1>8 DEF RequestOk, Accept, WasStale, WaitersSleep, Pause
<1>9. CASE RequestSuperseded
  BY <1>9 DEF RequestSuperseded, WaitersSleep, Pause
<1>10. CASE RequestFail
  BY <1>10 DEF RequestFail, WaitersSleep, Pause
<1>11. CASE CheckStale
  BY <1>11 DEF CheckStale, StaleDue
<1>12. CASE UNCHANGED vars
  BY <1>12 DEF vars
<1> QED
  BY <1>1, <1>2, <1>3, <1>4, <1>5, <1>6, <1>7, <1>8, <1>9, <1>10, <1>11, <1>12 DEF Next

LEMMA CheckStep == TypeOK /\ Awaiting /\ OutdatedIsYoung /\ CheckStillDue /\ [Next]_vars => CheckStillDue'
<1> SUFFICES ASSUME TypeOK, Awaiting, OutdatedIsYoung, CheckStillDue, [Next]_vars PROVE CheckStillDue'
  OBVIOUS
<1> USE IntervalAssumption, MarginAssumption, BackoffAssumption
    DEF TypeOK, Awaiting, OutdatedIsYoung, CheckStillDue, Untroubled,
        feed, dog, poller, http, health, NoRequest, Old
<1>1. CASE Elapse
  BY <1>1 DEF Elapse, Later, Sooner, WatchdogDue, PollDue, StaleDue
<1>2. CASE Push
  BY <1>2 DEF Push, Accept, WasStale
<1>3. CASE Degrade
  BY <1>3 DEF Degrade
<1>4. CASE SeedOk
  BY <1>4 DEF SeedOk, Accept, WasStale
<1>5. CASE SeedFail
  BY <1>5 DEF SeedFail
<1>6. CASE WatchdogLook
  BY <1>6 DEF WatchdogLook, WatchdogDue, CheckNeeded, RateLimited, Ask
<1>7. CASE PollAsk
  BY <1>7 DEF PollAsk, PollDue, RateLimited, Pause, Ask
<1>8. CASE RequestOk
  BY <1>8 DEF RequestOk, Accept, WasStale, WaitersSleep, Pause
<1>9. CASE RequestSuperseded
  BY <1>9 DEF RequestSuperseded, WaitersSleep, Pause
<1>10. CASE RequestFail
  BY <1>10 DEF RequestFail, WaitersSleep, Pause
<1>11. CASE CheckStale
  BY <1>11 DEF CheckStale, StaleDue
<1>12. CASE UNCHANGED vars
  BY <1>12 DEF vars
<1> QED
  BY <1>1, <1>2, <1>3, <1>4, <1>5, <1>6, <1>7, <1>8, <1>9, <1>10, <1>11, <1>12 DEF Next

LEMMA AskedStep == TypeOK /\ Awaiting /\ OutdatedIsYoung /\ CheckStillDue /\ AskedInTime /\ [Next]_vars => AskedInTime'
<1> SUFFICES ASSUME TypeOK, Awaiting, OutdatedIsYoung, CheckStillDue, AskedInTime, [Next]_vars PROVE AskedInTime'
  OBVIOUS
<1> USE IntervalAssumption, MarginAssumption, BackoffAssumption
    DEF TypeOK, Awaiting, OutdatedIsYoung, CheckStillDue,
        AskedInTime, Untroubled, Threshold,
        feed, dog, poller, http, health, NoRequest, Old
<1>1. CASE Elapse
  BY <1>1 DEF Elapse, Later, Sooner, WatchdogDue, PollDue, StaleDue
<1>2. CASE Push
  BY <1>2 DEF Push, Accept, WasStale
<1>3. CASE Degrade
  BY <1>3 DEF Degrade
<1>4. CASE SeedOk
  BY <1>4 DEF SeedOk, Accept, WasStale
<1>5. CASE SeedFail
  BY <1>5 DEF SeedFail
<1>6. CASE WatchdogLook
  BY <1>6 DEF WatchdogLook, WatchdogDue, CheckNeeded, RateLimited, Ask
<1>7. CASE PollAsk
  BY <1>7 DEF PollAsk, PollDue, RateLimited, Pause, Ask
<1>8. CASE RequestOk
  BY <1>8 DEF RequestOk, Accept, WasStale, WaitersSleep, Pause
<1>9. CASE RequestSuperseded
  BY <1>9 DEF RequestSuperseded, WaitersSleep, Pause
<1>10. CASE RequestFail
  BY <1>10 DEF RequestFail, WaitersSleep, Pause
<1>11. CASE CheckStale
  BY <1>11 DEF CheckStale, StaleDue
<1>12. CASE UNCHANGED vars
  BY <1>12 DEF vars
<1> QED
  BY <1>1, <1>2, <1>3, <1>4, <1>5, <1>6, <1>7, <1>8, <1>9, <1>10, <1>11, <1>12 DEF Next

LEMMA RetriedStep == TypeOK /\ Awaiting /\ RetriedInTime /\ [Next]_vars => RetriedInTime'
<1> SUFFICES ASSUME TypeOK, Awaiting, RetriedInTime, [Next]_vars PROVE RetriedInTime'
  OBVIOUS
<1> USE IntervalAssumption, MarginAssumption, BackoffAssumption
    DEF TypeOK, Awaiting, RetriedInTime, Threshold,
        feed, dog, poller, http, health, NoRequest, Old
<1>1. CASE Elapse
  BY <1>1 DEF Elapse, Later, Sooner, WatchdogDue, PollDue, StaleDue
<1>2. CASE Push
  BY <1>2 DEF Push, Accept, WasStale
<1>3. CASE Degrade
  BY <1>3 DEF Degrade
<1>4. CASE SeedOk
  BY <1>4 DEF SeedOk, Accept, WasStale
<1>5. CASE SeedFail
  BY <1>5 DEF SeedFail
<1>6. CASE WatchdogLook
  BY <1>6 DEF WatchdogLook, WatchdogDue, CheckNeeded, RateLimited, Ask
<1>7. CASE PollAsk
  BY <1>7 DEF PollAsk, PollDue, RateLimited, Pause, Ask
<1>8. CASE RequestOk
  BY <1>8 DEF RequestOk, Accept, WasStale, WaitersSleep, Pause
<1>9. CASE RequestSuperseded
  BY <1>9 DEF RequestSuperseded, WaitersSleep, Pause
<1>10. CASE RequestFail
  BY <1>10 DEF RequestFail, WaitersSleep, Pause
<1>11. CASE CheckStale
  BY <1>11 DEF CheckStale, StaleDue
<1>12. CASE UNCHANGED vars
  BY <1>12 DEF vars
<1> QED
  BY <1>1, <1>2, <1>3, <1>4, <1>5, <1>6, <1>7, <1>8, <1>9, <1>10, <1>11, <1>12 DEF Next

LEMMA IssueStep == TypeOK /\ IssueInTime /\ [Next]_vars => IssueInTime'
<1> SUFFICES ASSUME TypeOK, IssueInTime, [Next]_vars PROVE IssueInTime'
  OBVIOUS
<1> USE IntervalAssumption, MarginAssumption, BackoffAssumption
    DEF TypeOK, IssueInTime,
        feed, dog, poller, http, health, NoRequest, Old
<1>1. CASE Elapse
  BY <1>1 DEF Elapse, Later, Sooner, WatchdogDue, PollDue, StaleDue
<1>2. CASE Push
  <2>1. ~issue' /\ age' = 0 /\ nextStale' = nextStale
    BY <1>2 DEF Push, Accept, WasStale
  <2> QED
    BY <1>2, <2>1 DEF Push, Accept, WasStale
<1>3. CASE Degrade
  BY <1>3 DEF Degrade
<1>4. CASE SeedOk
  BY <1>4 DEF SeedOk, Accept, WasStale
<1>5. CASE SeedFail
  BY <1>5 DEF SeedFail
<1>6. CASE WatchdogLook
  BY <1>6 DEF WatchdogLook, WatchdogDue, CheckNeeded, RateLimited, Ask
<1>7. CASE PollAsk
  BY <1>7 DEF PollAsk, PollDue, RateLimited, Pause, Ask
<1>8. CASE RequestOk
  BY <1>8 DEF RequestOk, Accept, WasStale, WaitersSleep, Pause
<1>9. CASE RequestSuperseded
  BY <1>9 DEF RequestSuperseded, WaitersSleep, Pause
<1>10. CASE RequestFail
  BY <1>10 DEF RequestFail, WaitersSleep, Pause
<1>11. CASE CheckStale
  <2>1. age' = age /\ nextStale' = StaleInterval
    BY <1>11 DEF CheckStale, StaleDue
  <2>2. issue' <=> age > StaleAfter
    BY <1>11 DEF CheckStale, StaleDue
  <2> QED
    BY <1>11, <2>1, <2>2 DEF CheckStale, StaleDue
<1>12. CASE UNCHANGED vars
  BY <1>12 DEF vars
<1> QED
  BY <1>1, <1>2, <1>3, <1>4, <1>5, <1>6, <1>7, <1>8, <1>9, <1>10, <1>11, <1>12 DEF Next

-----------------------------------------------------------------------------

LEMMA InvStep == Inv /\ [Next]_vars => Inv'
BY TypeStep, AwaitingStep, OutdatedStep, CheckStep, AskedStep, RetriedStep, IssueStep DEF Inv

THEOREM Invariance == Spec => []Inv
BY InvInit, InvStep, PTL DEF Spec

\* Every variable keeps its type, whatever the intervals.
THEOREM TypeCorrect == Spec => []TypeOK
<1>1. Inv => TypeOK
  BY DEF Inv
<1> QED
  BY <1>1, Invariance, PTL

\* A request is under way or will be asked for in time.
LEMMA InvRefreshes == Inv => RefreshedInTime
<1> SUFFICES ASSUME Inv, have, ~failed
             PROVE  /\ age <= CheckAfter + WatchdogInterval + Timeout
                    /\ ~WasStale
  BY DEF RefreshedInTime
<1> USE IntervalAssumption, MarginAssumption DEF Inv, TypeOK, Threshold, Untroubled
<1>1. CASE request # NoRequest
  BY <1>1 DEF AskedInTime, WasStale
<1>2. CASE request = NoRequest /\ mode = "websocket"
  <2>1. ~watching
    BY <1>2 DEF Awaiting
  <2> QED
    BY <1>2, <2>1 DEF AskedInTime, WasStale
<1>3. CASE request = NoRequest /\ mode = "polling"
  <2>1. ~asking
    BY <1>3 DEF Awaiting
  <2> QED
    BY <1>3, <2>1 DEF AskedInTime, WasStale
<1> QED
  BY <1>1, <1>2, <1>3

\* A request is out for less than a window, and a watchdog that does not await one
\* looks again within a tick.
LEMMA InvRetries == Inv => RetriedEachWindow
<1> SUFFICES ASSUME Inv, age > CheckAfter + WatchdogInterval
             PROVE  sinceCheck <= CheckAfter + WatchdogInterval
  BY DEF RetriedEachWindow
<1> USE IntervalAssumption, BackoffAssumption DEF Inv, TypeOK, RetriedInTime, Threshold
<1>1. CASE watching
  BY <1>1 DEF Awaiting, NoRequest
<1>2. CASE ~watching
  BY <1>2
<1> QED
  BY <1>1, <1>2

LEMMA InvRefreshedBeforeStale == Inv => RefreshedBeforeStale
BY InvRefreshes, InvRetries DEF RefreshedBeforeStale

LEMMA InvTellsIssue == Inv => IssueTellsTheTruth
BY IntervalAssumption DEF Inv, TypeOK, IssueInTime, IssueTellsTheTruth

\* The margin of const.py is enough: for any intervals that fit in it, a feed
\* whose fallback answers never counts as stale, and its map is at most one
\* threshold, one tick and one timeout old.
THEOREM MarginSuffices == Spec => []RefreshedBeforeStale
BY InvRefreshedBeforeStale, Invariance, PTL

\* The repair issue exists only in a silence, and a silence does not go
\* unreported for longer than one interval of async_check_stale.
THEOREM IssueTruth == Spec => []IssueTellsTheTruth
BY InvTellsIssue, Invariance, PTL

-----------------------------------------------------------------------------
(* MigStatus.                                                              *)

\* A sensor that lags missed only that the data went stale, and its tick is to
\* come in what is left of a tick since then.
LagIsShort ==
    shown # MigNow \/ verdict # <<IsStale, mode>> =>
        /\ age > StaleAfter
        /\ age + nextTick =< StaleAfter + TickInterval

\* A flight that was told is remembered while it lasts.
Remembered == told /\ sky # "none" => mig # "none"

MigInv ==
    /\ Inv
    /\ MigTypeOK
    /\ verdict[2] = mode
    /\ LagIsShort
    /\ Remembered

-----------------------------------------------------------------------------

LEMMA StatusShown ==
    ASSUME NEW m \in {"websocket", "polling"}, NEW stale \in BOOLEAN,
           NEW last \in Statuses \cup {Unknown}
    PROVE  MigState(m, stale, last) \in Statuses \cup {Unknown}
BY DEF MigState

\* Sensors that are called, or tick, show what is known then.
LEMMA Written ==
    ASSUME baseline = <<shown, verdict>>, WriteSensors(Keys')
    PROVE  /\ shown' = MigNow' /\ verdict' = <<IsStale', mode'>>
           /\ baseline' = <<shown', verdict'>>
BY DEF WriteSensors, Keys

\* So their types are right, and they do not lag.
LEMMA WrittenIsCurrent ==
    ASSUME MigInv, WriteSensors(Keys'), TypeOK', mig' \in Statuses \cup {Unknown}
    PROVE  /\ shown' \in Statuses \cup {Unknown}
           /\ verdict' \in BOOLEAN \X {"websocket", "polling"}
           /\ baseline' = <<shown', verdict'>>
           /\ verdict'[2] = mode'
           /\ LagIsShort'
<1>1. /\ shown' = MigNow' /\ verdict' = <<IsStale', mode'>>
      /\ baseline' = <<shown', verdict'>>
  BY Written DEF MigInv, MigTypeOK
<1>2. mode' \in {"websocket", "polling"} /\ have' \in BOOLEAN
  BY DEF TypeOK
<1>3. IsStale' \in BOOLEAN
  BY <1>2 DEF IsStale, WasStale
<1>4. MigNow' \in Statuses \cup {Unknown}
  BY <1>2, <1>3 DEF MigNow, MigState
<1>5. LagIsShort'
  BY <1>1 DEF LagIsShort
<1> QED
  BY <1>1, <1>2, <1>3, <1>4, <1>5

\* Sensors that rest, while nothing of what they show has changed.
LEMMA RestIsCurrent ==
    ASSUME MigInv, SensorsRest, MigNow' = MigNow, IsStale' = IsStale, mode' = mode,
           \/ age' = age /\ nextTick' = nextTick
           \/ ~IsStale
    PROVE  /\ shown' \in Statuses \cup {Unknown}
           /\ verdict' \in BOOLEAN \X {"websocket", "polling"}
           /\ baseline' = <<shown', verdict'>>
           /\ verdict'[2] = mode'
           /\ LagIsShort'
<1>1. shown' = shown /\ verdict' = verdict /\ baseline' = baseline
  BY DEF SensorsRest
<1>2. CASE age' = age /\ nextTick' = nextTick
  BY <1>1, <1>2 DEF MigInv, MigTypeOK, LagIsShort
<1>3. CASE ~IsStale
  <2>1. ~(age > StaleAfter)
    BY <1>3 DEF IsStale, WasStale
  <2>2. shown = MigNow /\ verdict = <<IsStale, mode>>
    BY <2>1 DEF MigInv, LagIsShort
  <2>3. LagIsShort'
    BY <1>1, <2>2 DEF LagIsShort
  <2> QED
    BY <1>1, <2>3 DEF MigInv, MigTypeOK
<1> QED
  BY <1>2, <1>3

\* What a step leaves to the sensors.
LEMMA PartsMake ==
    ASSUME Inv',
           sky' \in Statuses, flights' \in 0 .. MaxFlights,
           mig' \in Statuses \cup {Unknown}, nextTick' \in 0 .. TickInterval,
           fired' \in {"takeoff", "launch", "cleared", Unknown},
           told' \in BOOLEAN, startups' \in 0 .. MaxReloads,
           shown' \in Statuses \cup {Unknown},
           verdict' \in BOOLEAN \X {"websocket", "polling"},
           baseline' = <<shown', verdict'>>, verdict'[2] = mode',
           LagIsShort', Remembered'
    PROVE  MigInv'
BY DEF MigInv, MigTypeOK

LEMMA InitIsMigInv == MigInit => MigInv
<1> SUFFICES ASSUME MigInit PROVE MigInv
  OBVIOUS
<1>1. Inv
  BY InvInit DEF MigInit
<1>2. /\ sky \in {"none", "takeoff"} /\ flights = 0 /\ startups = 0
      /\ mig = Unknown /\ shown = Unknown /\ fired = Unknown
      /\ verdict = <<TRUE, "websocket">> /\ baseline = <<shown, verdict>>
      /\ nextTick = TickInterval /\ told = (sky # "none")
      /\ mode = "websocket" /\ have = FALSE
  BY DEF MigInit, Init
<1>3. 0 \in 0 .. MaxFlights /\ 0 \in 0 .. MaxReloads /\ TickInterval \in 0 .. TickInterval
  BY MigAssumption
<1>4. told \in BOOLEAN
  BY <1>2
<1>5. MigTypeOK
  BY <1>2, <1>3, <1>4 DEF MigTypeOK, Statuses
<1>6. IsStale /\ MigNow = Unknown
  BY <1>2 DEF IsStale, WasStale, MigNow, MigState
<1>7. IsStale = TRUE
  BY <1>6 DEF IsStale, WasStale
<1>8. LagIsShort
  BY <1>2, <1>6, <1>7 DEF LagIsShort
<1>9. Remembered
  BY <1>2 DEF Remembered, Unknown
<1> QED
  BY <1>1, <1>2, <1>5, <1>8, <1>9 DEF MigInv

-----------------------------------------------------------------------------
(* One lemma per action.                                                   *)

\* Whether a map's acceptance leaves the sensors alone.
LEMMA AcceptedQuietly ==
    ASSUME MigInv, Accept, mode' = mode, mig' = mig, ~WasStale
    PROVE  MigNow' = MigNow /\ IsStale' = IsStale
<1>1. have' = TRUE /\ age' = 0
  BY DEF Accept
<1>2. IsStale' = FALSE
  BY <1>1, IntervalAssumption DEF IsStale, WasStale
<1>3. IsStale = FALSE
  BY DEF IsStale, WasStale
<1> QED
  BY <1>2, <1>3 DEF MigNow, MigState

LEMMA PushMigStep ==
    ASSUME MigInv, NEW changed \in BOOLEAN, NEW says \in Published, PushMig(changed, says)
    PROVE  MigInv'
<1>1. Push /\ mode' = "websocket" /\ Accept
  BY DEF PushMig, Push
<1>2. Inv'
  BY <1>1, InvStep DEF MigInv, Next
<1>3. /\ mig' = IF says = Unknown THEN mig ELSE says
      /\ sky' = sky /\ flights' = flights /\ nextTick' = nextTick /\ startups' = startups
      /\ fired' = IF says # Unknown /\ Transition(mig, says) THEN EventOf(says) ELSE Unknown
      /\ told' = (told \/ fired' = "takeoff")
  BY DEF PushMig
<1>4. says \in {sky, Unknown} /\ sky \in Statuses /\ mig \in Statuses \cup {Unknown}
  BY DEF Published, MigInv, MigTypeOK
<1>5. mig' \in Statuses \cup {Unknown}
  BY <1>3, <1>4
<1>6. fired' \in {"takeoff", "launch", "cleared", Unknown}
  BY <1>3, <1>4 DEF EventOf, Statuses
<1>7. told' \in BOOLEAN
  BY <1>3
<1>8. Remembered'
  <2>1. CASE says = Unknown
    BY <1>3, <2>1 DEF MigInv, Remembered, Unknown
  <2>2. CASE says # Unknown
    BY <1>3, <1>4, <2>2 DEF Remembered
  <2> QED
    BY <2>1, <2>2
<1>9. /\ shown' \in Statuses \cup {Unknown}
      /\ verdict' \in BOOLEAN \X {"websocket", "polling"}
      /\ baseline' = <<shown', verdict'>> /\ verdict'[2] = mode' /\ LagIsShort'
  <2>1. CASE Called(changed) \/ mode # "websocket" \/ mig' # mig
    <3>1. WriteSensors(Keys')
      BY <2>1 DEF PushMig, HearSensors, Followed
    <3> QED
      BY <1>2, <1>5, <3>1, WrittenIsCurrent DEF Inv
  <2>2. CASE ~(Called(changed) \/ mode # "websocket" \/ mig' # mig)
    <3>1. SensorsRest
      BY <2>2 DEF PushMig
    <3>2. ~WasStale /\ mode' = mode /\ mig' = mig
      BY <1>1, <2>2 DEF Called
    <3>3. MigNow' = MigNow /\ IsStale' = IsStale /\ ~IsStale
      BY <1>1, <3>2, AcceptedQuietly DEF IsStale
    <3> QED
      BY <3>1, <3>2, <3>3, RestIsCurrent
  <2> QED
    BY <2>1, <2>2
<1> QED
  BY <1>2, <1>3, <1>5, <1>6, <1>7, <1>8, <1>9, PartsMake DEF MigInv, MigTypeOK

LEMMA HttpMigStep ==
    ASSUME MigInv, NEW changed \in BOOLEAN, HttpMig(changed)
    PROVE  MigInv'
<1>1. Accept
  BY DEF HttpMig, SeedOk, RequestOk
<1>2. Inv'
  BY InvStep DEF MigInv, HttpMig, Next
<1>3. /\ sky' = sky /\ flights' = flights /\ mig' = mig /\ nextTick' = nextTick
      /\ told' = told /\ startups' = startups /\ fired' = Unknown
  BY DEF HttpMig
<1>4. Remembered'
  BY <1>3 DEF MigInv, Remembered
<1>5. /\ shown' \in Statuses \cup {Unknown}
      /\ verdict' \in BOOLEAN \X {"websocket", "polling"}
      /\ baseline' = <<shown', verdict'>> /\ verdict'[2] = mode' /\ LagIsShort'
  <2>1. CASE Called(changed) \/ mode' # mode
    <3>1. WriteSensors(Keys')
      BY <2>1 DEF HttpMig, HearSensors, Followed
    <3> QED
      BY <1>2, <1>3, <3>1, WrittenIsCurrent DEF Inv, MigInv, MigTypeOK
  <2>2. CASE ~(Called(changed) \/ mode' # mode)
    <3>1. SensorsRest
      BY <2>2 DEF HttpMig
    <3>2. ~WasStale /\ mode' = mode
      BY <2>2 DEF Called
    <3>3. MigNow' = MigNow /\ IsStale' = IsStale /\ ~IsStale
      BY <1>1, <1>3, <3>2, AcceptedQuietly DEF IsStale
    <3> QED
      BY <3>1, <3>2, <3>3, RestIsCurrent
  <2> QED
    BY <2>1, <2>2
<1> QED
  BY <1>2, <1>3, <1>4, <1>5, PartsMake DEF MigInv, MigTypeOK

LEMMA DegradeMigStep == ASSUME MigInv, DegradeMig PROVE MigInv'
<1>1. Inv'
  BY InvStep DEF MigInv, DegradeMig, Next
<1>2. /\ sky' = sky /\ flights' = flights /\ mig' = mig /\ nextTick' = nextTick
      /\ told' = told /\ startups' = startups /\ fired' = Unknown
      /\ WriteSensors(Keys')
  BY DEF DegradeMig, HearSensors, Followed
<1>3. Remembered'
  BY <1>2 DEF MigInv, Remembered
<1>4. /\ shown' \in Statuses \cup {Unknown}
      /\ verdict' \in BOOLEAN \X {"websocket", "polling"}
      /\ baseline' = <<shown', verdict'>> /\ verdict'[2] = mode' /\ LagIsShort'
  BY <1>1, <1>2, WrittenIsCurrent DEF Inv, MigInv, MigTypeOK
<1> QED
  BY <1>1, <1>2, <1>3, <1>4, PartsMake DEF MigInv, MigTypeOK

LEMMA TickStep == ASSUME MigInv, Tick PROVE MigInv'
<1>1. /\ vars' = vars /\ sky' = sky /\ flights' = flights /\ mig' = mig
      /\ nextTick' = TickInterval /\ told' = told /\ startups' = startups
      /\ fired' = Unknown /\ WriteSensors(Keys')
  BY DEF Tick
<1>2. Inv'
  BY <1>1, InvStep DEF MigInv
<1>3. Remembered'
  BY <1>1 DEF MigInv, Remembered
<1>4. /\ shown' \in Statuses \cup {Unknown}
      /\ verdict' \in BOOLEAN \X {"websocket", "polling"}
      /\ baseline' = <<shown', verdict'>> /\ verdict'[2] = mode' /\ LagIsShort'
  BY <1>1, <1>2, WrittenIsCurrent DEF Inv, MigInv, MigTypeOK
<1>5. nextTick' \in 0 .. TickInterval
  BY <1>1, MigAssumption
<1> QED
  BY <1>1, <1>2, <1>3, <1>4, <1>5, PartsMake DEF MigInv, MigTypeOK

LEMMA LagGoesOn ==
    ASSUME NEW a \in Nat, NEW b \in Nat, b = a \/ b = a + 1,
           NEW n \in Nat, NEW c, c = n - 1,
           NEW s \in Nat, NEW t \in Nat, a > s, a + n =< s + t
    PROVE  b + c =< s + t
OBVIOUS

LEMMA LagBegins ==
    ASSUME NEW a \in Nat, NEW b \in Nat, b = a \/ b = a + 1,
           NEW n \in Nat, NEW c, c = n - 1,
           NEW s \in Nat, NEW t \in Nat, ~(a > s), n =< t
    PROVE  b + c =< s + t
OBVIOUS

\* Time passes: a sensor may begin to lag when the data go stale, and until its
\* tick it lags on.
LEMMA ElapseMigStep == ASSUME MigInv, ElapseMig PROVE MigInv'
<1>1. /\ Elapse
      /\ nextTick > 0 /\ nextTick' = nextTick - 1
      /\ shown' = shown /\ verdict' = verdict /\ baseline' = baseline /\ fired' = Unknown
      /\ sky' = sky /\ flights' = flights /\ mig' = mig
      /\ told' = told /\ startups' = startups
  BY DEF ElapseMig, SensorsRest
<1>2. Inv'
  BY <1>1, InvStep DEF MigInv, Next
<1>3. have' = have /\ mode' = mode /\ age' = Later(age)
  BY <1>1 DEF Elapse
<1>4. /\ age \in 0 .. Old /\ nextTick \in 0 .. TickInterval
      /\ TickInterval \in Nat /\ StaleAfter \in Nat /\ Old \in Nat
  BY IntervalAssumption, MigAssumption DEF MigInv, Inv, TypeOK, MigTypeOK, Old
<1>5. nextTick' \in 0 .. TickInterval
  BY <1>1, <1>4
<1>6. /\ age \in Nat /\ age' \in Nat /\ (age' = age \/ age' = age + 1)
      /\ nextTick \in Nat /\ nextTick =< TickInterval
  BY <1>3, <1>4 DEF Later
<1>7. LagIsShort'
  <2> SUFFICES ASSUME shown' # MigNow' \/ verdict' # <<IsStale', mode'>>
               PROVE  age' > StaleAfter /\ age' + nextTick' =< StaleAfter + TickInterval
    BY DEF LagIsShort
  <2>1. CASE IsStale' = IsStale
    <3>1. MigNow' = MigNow
      BY <1>1, <1>3, <2>1 DEF MigNow, MigState
    <3>2. age > StaleAfter /\ age + nextTick =< StaleAfter + TickInterval
      BY <1>1, <1>3, <2>1, <3>1 DEF MigInv, LagIsShort
    <3>3. age' > StaleAfter
      BY <1>4, <1>6, <3>2
    <3>4. age' + nextTick' =< StaleAfter + TickInterval
      BY <1>1, <1>4, <1>6, <3>2, LagGoesOn, Zenon
    <3> QED
      BY <3>3, <3>4
  <2>2. CASE IsStale' # IsStale
    <3>1. ~(age > StaleAfter) /\ age' > StaleAfter
      BY <1>3, <1>4, <1>6, <2>2 DEF IsStale, WasStale
    <3> QED
      BY <1>1, <1>4, <1>6, <3>1, LagBegins, Zenon
  <2> QED
    BY <2>1, <2>2
<1>8. Remembered'
  BY <1>1 DEF MigInv, Remembered
<1>9. verdict'[2] = mode'
  BY <1>1, <1>3 DEF MigInv
<1> QED
  BY <1>1, <1>2, <1>5, <1>7, <1>8, <1>9, PartsMake DEF MigInv, MigTypeOK

\* A step after which the sensors rest and show what they showed.
LEMMA OtherMigStep == ASSUME MigInv, OtherMig PROVE MigInv'
<1>1. /\ age' = age /\ have' = have /\ mode' = mode
      /\ SensorsRest /\ fired' = Unknown
      /\ sky' = sky /\ flights' = flights /\ mig' = mig /\ nextTick' = nextTick
      /\ told' = told /\ startups' = startups
  BY DEF OtherMig, SeedFail, WatchdogLook, PollAsk, RequestSuperseded, RequestFail,
         CheckStale, feed
<1>2. Inv'
  BY InvStep DEF MigInv, OtherMig, Next
<1>3. MigNow' = MigNow /\ IsStale' = IsStale
  BY <1>1 DEF MigNow, MigState, IsStale, WasStale
<1>4. /\ shown' \in Statuses \cup {Unknown}
      /\ verdict' \in BOOLEAN \X {"websocket", "polling"}
      /\ baseline' = <<shown', verdict'>> /\ verdict'[2] = mode' /\ LagIsShort'
  BY <1>1, <1>3, RestIsCurrent
<1>5. Remembered'
  BY <1>1 DEF MigInv, Remembered
<1> QED
  BY <1>1, <1>2, <1>4, <1>5, PartsMake DEF MigInv, MigTypeOK

LEMMA SkyStep == ASSUME MigInv, SkyChanges PROVE MigInv'
<1>1. /\ vars' = vars /\ SensorsRest /\ fired' = Unknown
      /\ mig' = mig /\ nextTick' = nextTick /\ startups' = startups
  BY DEF SkyChanges
<1>2. Inv'
  BY <1>1, InvStep DEF MigInv
<1>3. age' = age /\ have' = have /\ mode' = mode
  BY <1>1 DEF vars, feed
<1>4. MigNow' = MigNow /\ IsStale' = IsStale
  BY <1>1, <1>3 DEF MigNow, MigState, IsStale, WasStale
<1>5. /\ shown' \in Statuses \cup {Unknown}
      /\ verdict' \in BOOLEAN \X {"websocket", "polling"}
      /\ baseline' = <<shown', verdict'>> /\ verdict'[2] = mode' /\ LagIsShort'
  BY <1>1, <1>3, <1>4, RestIsCurrent
<1>6. sky' \in Statuses /\ flights' \in 0 .. MaxFlights /\ told' \in BOOLEAN /\ Remembered'
  <2>1. CASE sky = "none" /\ flights < MaxFlights /\ sky' = "takeoff"
             /\ flights' = flights + 1 /\ told' = FALSE
    <3>1. flights \in 0 .. MaxFlights
      BY DEF MigInv, MigTypeOK
    <3>2. flights' \in 0 .. MaxFlights
      BY <2>1, <3>1, MigAssumption
    <3>3. told' \in BOOLEAN /\ Remembered'
      BY <2>1 DEF Remembered
    <3> QED
      BY <2>1, <3>2, <3>3 DEF Statuses
  <2>2. CASE sky # "none" /\ sky' \in Statuses \ {sky} /\ flights' = flights /\ told' = told
    BY <1>1, <2>2 DEF MigInv, MigTypeOK, Remembered
  <2> QED
    BY <2>1, <2>2 DEF SkyChanges
<1> QED
  BY <1>1, <1>2, <1>5, <1>6, PartsMake DEF MigInv, MigTypeOK

LEMMA StartAgain == Init' => Inv'
BY InvInit, PTL

\* A reload puts everything to its start but the sky.
LEMMA ReloadStep == ASSUME MigInv, Reload PROVE MigInv'
<1>1. /\ mig' = Unknown /\ shown' = Unknown
      /\ verdict' = <<TRUE, "websocket">> /\ baseline' = <<shown', verdict'>>
      /\ nextTick' = TickInterval /\ fired' = Unknown /\ told' = (sky # "none")
      /\ sky' = sky /\ flights' = flights
      /\ startups < MaxReloads /\ startups' = startups + 1
      /\ mode' = "websocket" /\ have' = FALSE
  BY DEF Reload
<1>2. Inv'
  <2>1. Init'
    BY DEF Reload, Init
  <2> QED
    BY <2>1, StartAgain
<1>3. IsStale' = TRUE /\ MigNow' = Unknown
  BY <1>1 DEF IsStale, WasStale, MigNow, MigState
<1>4. LagIsShort'
  BY <1>1, <1>3 DEF LagIsShort
<1>5. Remembered'
  BY <1>1 DEF Remembered, Unknown
<1>6. startups' \in 0 .. MaxReloads
  BY <1>1, MigAssumption DEF MigInv, MigTypeOK
<1>7. nextTick' \in 0 .. TickInterval /\ told' \in BOOLEAN
  BY <1>1, MigAssumption
<1>8. /\ shown' \in Statuses \cup {Unknown}
      /\ verdict' \in BOOLEAN \X {"websocket", "polling"} /\ verdict'[2] = mode'
  BY <1>1
<1> QED
  BY <1>1, <1>2, <1>4, <1>5, <1>6, <1>7, <1>8, PartsMake DEF MigInv, MigTypeOK

LEMMA RestStep == ASSUME MigInv, UNCHANGED allVars PROVE MigInv'
<1>1. /\ vars' = vars /\ migVars' = migVars
  BY DEF allVars
<1>2. Inv'
  BY <1>1, InvStep DEF MigInv
<1>3. age' = age /\ have' = have /\ mode' = mode
  BY <1>1 DEF vars, feed
<1>4. MigNow' = MigNow /\ IsStale' = IsStale /\ SensorsRest
  BY <1>1, <1>3 DEF MigNow, MigState, IsStale, WasStale, SensorsRest, migVars
<1>5. /\ shown' \in Statuses \cup {Unknown}
      /\ verdict' \in BOOLEAN \X {"websocket", "polling"}
      /\ baseline' = <<shown', verdict'>> /\ verdict'[2] = mode' /\ LagIsShort'
  <2>1. nextTick' = nextTick
    BY <1>1 DEF migVars
  <2> QED
    BY <1>3, <1>4, <2>1, RestIsCurrent
<1>6. Remembered'
  BY <1>1 DEF MigInv, Remembered, migVars
<1> QED
  BY <1>1, <1>2, <1>5, <1>6, PartsMake DEF MigInv, MigTypeOK, migVars

LEMMA StepIsMigInv == MigInv /\ [MigNext]_allVars => MigInv'
<1> SUFFICES ASSUME MigInv, [MigNext]_allVars PROVE MigInv'
  OBVIOUS
<1>1. CASE \E changed \in BOOLEAN, says \in Published : PushMig(changed, says)
  BY <1>1, PushMigStep
<1>2. CASE \E changed \in BOOLEAN : HttpMig(changed)
  BY <1>2, HttpMigStep
<1>3. CASE DegradeMig
  BY <1>3, DegradeMigStep
<1>4. CASE Tick
  BY <1>4, TickStep
<1>5. CASE ElapseMig
  BY <1>5, ElapseMigStep
<1>6. CASE OtherMig
  BY <1>6, OtherMigStep
<1>7. CASE SkyChanges
  BY <1>7, SkyStep
<1>8. CASE Reload
  BY <1>8, ReloadStep
<1>9. CASE UNCHANGED allVars
  BY <1>9, RestStep
<1> QED
  BY <1>1, <1>2, <1>3, <1>4, <1>5, <1>6, <1>7, <1>8, <1>9 DEF MigNext

-----------------------------------------------------------------------------
(* Theorems                                                                *)

\* Types, the verdict's mode is the mode, and the sensors lag by less than a tick; the
\* last two theorems need what was remembered of the flight.
THEOREM MigInvariance == MigSpec => []MigInv
BY InitIsMigInv, StepIsMigInv, PTL DEF MigSpec

\* Every variable keeps its type.
THEOREM MigTypeCorrect == MigSpec => []AllTypesOK
<1>1. MigInv => AllTypesOK
  BY DEF MigInv, Inv, AllTypesOK
<1> QED
  BY <1>1, MigInvariance, PTL

\* The same margin, however often the entry is reloaded: a reload forgets the map and
\* all timers, and none of them comes too late for the maps of the next run.
THEOREM MarginSufficesAcrossReloads == MigSpec => []RefreshedBeforeStale
<1>1. MigInv => RefreshedBeforeStale
  BY InvRefreshedBeforeStale DEF MigInv
<1> QED
  BY <1>1, MigInvariance, PTL

\* No reload leaves an issue of the last run behind, or loses one that is due.
THEOREM IssueTruthAcrossReloads == MigSpec => []IssueTellsTheTruth
<1>1. MigInv => IssueTellsTheTruth
  BY InvTellsIssue DEF MigInv
<1> QED
  BY <1>1, MigInvariance, PTL

\* A lag of a sensor is one that JustStale names.
LEMMA LagIsJustStale ==
    ASSUME MigInv, shown # MigNow \/ verdict # <<IsStale, mode>>
    PROVE  JustStale /\ MigNow = Unknown
<1>1. age > StaleAfter /\ age + nextTick =< StaleAfter + TickInterval
  BY DEF MigInv, LagIsShort
<1>2. age \in Nat /\ nextTick \in Nat /\ StaleAfter \in Nat /\ TickInterval \in Nat
  BY IntervalAssumption, MigAssumption DEF MigInv, Inv, TypeOK, MigTypeOK
<1>3. JustStale
  BY <1>1, <1>2 DEF JustStale
<1>4. MigNow = Unknown
  BY <1>1 DEF MigNow, MigState, IsStale, WasStale
<1> QED
  BY <1>3, <1>4

\* The MiG sensor shows the last status while it is to be trusted, and nothing
\* otherwise, and data_stale the verdict and the mode, at most one tick late, however
\* the mode, the map and the status change (coordinator.py:315-320, entity.py:58-96).
THEOREM SensorsCurrent == MigSpec => []SensorsAreCurrent
<1>1. MigInv => MigIsShown
  BY LagIsJustStale DEF MigIsShown
<1>2. MigInv => StaleIsShown
  BY LagIsJustStale DEF StaleIsShown, MigInv
<1>3. MigInv => SensorsAreCurrent
  BY <1>1, <1>2 DEF SensorsAreCurrent
<1> QED
  BY <1>3, MigInvariance, PTL

\* However often the launch flag comes and goes, and whatever publications are
\* missed or carry no status, a flight is announced once.
THEOREM TakeoffOnce == MigSpec => OneTakeoffPerFlight
<1>1. MigInv /\ [MigNext]_allVars => [fired' = "takeoff" => ~told]_allVars
  <2> SUFFICES ASSUME MigInv, MigNext, fired' = "takeoff", told
               PROVE  FALSE
    OBVIOUS
  <2>1. PICK changed \in BOOLEAN, says \in Published : PushMig(changed, says)
    BY DEF MigNext, HttpMig, DegradeMig, Tick, ElapseMig, OtherMig, SkyChanges, Reload, Unknown
  <2>2. says # Unknown /\ Transition(mig, says) /\ EventOf(says) = "takeoff"
    BY <2>1 DEF PushMig, Unknown
  <2>3. says = sky /\ sky = "takeoff"
    BY <2>2 DEF Published, EventOf, MigInv, MigTypeOK, Statuses
  <2>4. mig \in {"none"}
    BY <2>2, <2>3 DEF Transition, MigInv, MigTypeOK, Statuses, Unknown
  <2> QED
    BY <2>3, <2>4 DEF MigInv, Remembered
<1> QED
  BY <1>1, MigInvariance, PTL DEF MigSpec, OneTakeoffPerFlight
=============================================================================
