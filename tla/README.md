# Verification of Ukraine Alarm Pro

A formal model of the Home Assistant integration in
`src/custom_components/ukraine_alarm_pro`: TLA+ modules translated from its
Python source, TLC runs over small instances, and TLAPS proofs for every value
of the constants. Paths below are relative to that directory.

The integration shows the air-raid alerts of Ukraine. What makes it correct is
not an algorithm but the interplay of tasks on one event loop: a push socket
that may go silent without closing, a fallback that is asked only when
needed, answers that arrive after something newer was shown, a journal that must
not claim to have watched while it did not, and crashes between two writes.

## 1. Inventory

| Component | State it keeps | Operations | Talks to | Correct when |
|---|---|---|---|---|
| `api/supervisor.py` `TransportSupervisor` | mode, five tasks, `snapshot_revision`, `_last_success`, `_last_check`, `_last_snap`, failure counts | `start`, `stop`, `_run`, `_seed`, `_poll_loop`, `_watchdog`, the shared `_fetch_poll` | consumes `WsTransport.stream()`, awaits `PollTransport.fetch()`, calls the coordinator's listeners | an older HTTP answer never replaces a newer map; a silent feed is noticed; a live socket is not dropped; the fallback runs exactly while polling; something is shown in the end |
| `api/ws.py` `WsTransport` | the socket | `stream` (token, connect, three commands, history, publications), `close` | the provider's Centrifugo server | publications in order, every failure is a `TransportError`, a closed socket ends the stream |
| `api/poll.py` `PollTransport` | `_retry_at` | `fetch` | the volunteer-run proxy | 429/503 are respected by every caller |
| `coordinator.py` `AlarmCoordinator` | the current map, `last_push`, the view cache, percentages, MiG state, two locks | `handle_snapshot`, `async_check_stale`, `async_save_now`, `async_restore`, backfill, listeners | called by the supervisor; calls the hub, the journal, the stores, the entities | incremental updates equal a full recomputation; stale is told once; a restored map is never renewed; a take-off is announced once |
| `events.py` `AlertEventHub` | last state, known level, active-since per region, undelivered events, `bootstrapped`, `stale_announced` | `accept`, `announce_stale`, `add_listener` | called by the coordinator; feeds event entities and the journal | no transition lost or invented; one event per change; a gap is a resync and never a replay |
| `history.py` `AlertHistory` | open and finished episodes, confirmations, gaps, cursors, two versions | `confirm`, `mark_gap`, `handle_event`, `merge_official`, `async_flush`, `async_load`, `_prune`, queries | fed by the hub and the coordinator; two files | no silent hole: time nobody watched is a gap, across crashes and failed writes |
| `backfill.py` and the coordinator's chunks | cursors and targets in the journal | windows of seven days per root region | the official history service | no chunk skipped, an interrupted run resumes |
| `models.py` | none (pure) | parsing, `region_alerts`, `region_view`, coverage, levels | everyone | one alert counted once, the severest kept |
| `regions.py`, `config_flow.py`, `__init__.py` | the region tree's cache, the entry's selection | options flow, descendant backfill, cache refresh, setup and unload | Home Assistant's config entries | entities, registry and coordinator follow the entry; a background write undoes a user's choice at most while the reload of that choice is under way; a broken tree never replaces a good copy |
| entities (`sensor.py`, `binary_sensor.py`, `event.py`, `entity.py`) | last published values | publish gates | coordinator listeners | a change is never withheld by a gate, and ageing data are shown as such within a tick |
| `diagnostics.py`, the Lovelace card, blueprints, translations | none | presentation | | not modelled: no state of the system |

Everything runs on one asyncio event loop, so the atomic step is what a task
runs between two awaits. The hard behaviours are: state read before an await
and used after it (the revisions of the supervisor, the maps captured by
`async_save_now`, the region dictionary of the descendant backfill); one
request shared by three tasks; tasks cancelled while they wait; timers against
each other; crashes between the journal, its heartbeat and the map's store;
events for which nobody listens yet. `PROJECT.json` lists them at their lines.

## 2. Modules

| Module | Stands for |
|---|---|
| `AlertFeed` | abstract specification: what the transport promises to its listener |
| `TransportSupervisor` | `api/supervisor.py` with `stream()`, `close()` and `fetch()` |
| `TransportSupervisorProofs` | its inductive invariant, theorems and the refinement of `AlertFeed` |
| `MCTransportSupervisor` | the instance TLC checks |
| `FeedFreshness` | the same component's clocks, with `is_stale` and the repair issue |
| `MigStatus` | the MiG status from the socket to its sensor and event, and the staleness sensor; extends `FeedFreshness` (section 11) |
| `MigStatusProofs`, `MCMigStatus` | the inductive invariants and theorems of both modules; the instance TLC checks, of both modules |
| `AlertJournal` | `history.py`, driven by the coordinator, with its two files (section 6) |
| `JournalWindow` | what the journal answers for a window of time; extends `AlertJournal` |
| `AlertJournalProofs`, `MCAlertJournal` | the journal's inductive invariant and theorems; the instance TLC checks, of both modules |
| `RegionView` | `models.py`: what a map means for one region (pure) |
| `AlertEvents` | abstract specification: what automations are told, from whole maps |
| `AlertEventHub` | `events.py`: the hub's state and operations |
| `Coordinator` | `coordinator.py` from a map to entities and hub; extends `AlertEventHub` (section 7) |
| `CoordinatorProofs` | its inductive invariant, theorems and the refinement of `AlertEvents` |
| `MCCoordinator` | the instance TLC checks |
| `SnapshotStore` | the map on disk: `async_save_now`, the last save, `async_restore` (section 8) |
| `SnapshotStoreProofs`, `MCSnapshotStore` | its inductive invariant and theorems; the instance TLC checks |
| `OfficialBackfill` | the official history: runs, chunks, cursors, targets (section 9) |
| `OfficialBackfillProofs`, `MCOfficialBackfill` | its inductive invariant and theorems; the instance TLC checks |
| `RegionHistory` | observed and official episodes of a region, merged and pruned (section 10) |
| `RegionHistoryProofs`, `MCRegionHistory` | its inductive invariant and theorems; the instance TLC checks |
| `RegionTree` | `validate_region_tree` as a function, beside a definition without a walk; proved equal in `RegionConfigProofs` |
| `RegionConfig` | the entry, its forms, setup and reloads, the tree's copy, the descendant backfill (section 12) |
| `RegionConfigProofs`, `MCRegionConfig` | its inductive invariant and theorems; the instance TLC checks |

### TransportSupervisor

The provider's successive maps are numbered `0 .. MaxVersion`; the code never
orders maps itself, so a number is only what the properties need to say "older".
What the code does compare, `Snapshot.signature`, is the constant `Signature`.

| Variable | Code |
|---|---|
| `truth` | the provider's newest map (outside) |
| `snap` | `_last_snap`; `NoMap` is `_last_success is None` |
| `mode`, `running` | `mode`, `_running` |
| `run`, `failures`, `long`, `dropped`, `frames` | the `_run` task: which await of `stream()` or of the retry sleep it is in, `failures`, whether `healthy_session` has passed since `started`, whether `close()` took the socket away, the publications that were received and not yet yielded |
| `pc[t]` | the await at which the seed, poll or watchdog task is suspended (`none` only for a poll task that does not exist) |
| `current`, `fresh`, `httpFresh` | tasks whose local `revision`, whose copy of `_http_revision`, and whether `_http_revision` itself, still equal `snapshot_revision` |
| `answer`, `ahead`, `inflight`, `floor` | the shared request: its outcome for each waiter, the order in which the loop resumes them, whether it is out, and the map that was current when it was sent |
| `previous` | the watchdog's `previous` |
| `quiet`, `checked` | the two ages the watchdog compares with `stale_after` |

`snapshot_revision` is a counter that is only compared for equality with an
earlier copy of itself and is incremented by every `_emit`. The model keeps the
outcome of these comparisons: `Emit` empties `current` and `fresh`. This is
exact and needs no bound. `failures` is unbounded in the code, which asks only whether it
has reached `max_ws_failures`; the model stops counting there (`AtMost`), which is exact too.

An action is one stretch between awaits: `SeedWake`, `SeedAnswer`, `PollWake`,
`PollAnswer`, `WatchdogTick`, `WatchdogAnswer`, `RunFrame` (one iteration of
the `async for`), `RunFail`, `Reconnect`, `SocketOpen`, `HandshakeOk`, `Stop`.
`HttpOk` and `HttpFail` end the shared request for all that wait; they are then
resumed one by one, in the order in which they joined, and what the first
accepts makes the answer superseded for the second, as in the code.
`TruthChange`, `Silence`, `WindowElapsed` and `LongSession` are the outside world
and the clocks.

What is assumed of the outside, each with its reason:

* An HTTP answer is a map no older than the one that was current when the
  request was sent (the proxy may be behind, in reality; then no code could
  tell).
* The history of a new subscription may be empty; the comments of `ws.py` say it
  is in practice. A socket may deliver any subset of the later publications, in
  order.
* A socket that `close()` took away may still yield a publication that the
  receive already holds.
* A request is over, by answer or timeout (30 s), long before `stale_after`
  (720 s): `Silence` waits for the requests that were out at the last
  acceptance, and `WindowElapsed` for the check it limits.

### FeedFreshness

Time passes in units (`Elapse`), ages saturate at `Old`, and a timer that is due
is served before time passes. The causes of a publication or of a degradation
are those of TransportSupervisor and left open here: `Push` and `Degrade` may
happen at any time. The constants have the code's meaning, and three named
assumptions: the ranges, the margin (`CROSS_CHECK_AFTER_SECONDS` + watchdog
tick + request timeout `<=` `STALE_AFTER_SECONDS`, the comment of `const.py`), and that
the longest pause of the poll loop plus a timeout is at most the cross-check's
threshold (300 s + 30 s against 720 s).

## 3. Runs

| Run | Question | Bounds, and why they suffice |
|---|---|---|
| `transport` | every interleaving of the four tasks and the request: is anything rolled back, dropped or forgotten, and does the transport catch up, whatever the socket does? | three maps of which two look alike (a rollback needs two, a misleading signature three); two failures before polling instead of three: one that is counted and does not switch, and one that does |
| `mig_status` | is a silent feed refreshed before it is called stale, do the repair issue and the ageing sensors tell the truth, is a flight announced once? | thresholds of five and three units over a watchdog, request, tick and poll of one: the margin of `const.py` is met exactly, so a unit less would break it; backoff of two, Retry-After of three; one flight, whose launch flag may come and go, and one reload |

Deadlock checking stays on except where stopping is the design: after `Stop`
nothing happens any more.

The properties of the transport:

* `HttpNeverRollsBack` (action property): only a WebSocket publication may
  replace a map by an older one. The guard for HTTP answers has two layers, the
  revision of the request and the revision of the waiter, and both are needed: a
  task that joins a request late has a current revision and a superseded request.
* `DroppedOnEvidence`: the watchdog closes a socket only after its own
  cross-check failed or showed another map, and nothing came meanwhile.
* `TypeOK` also says where each task may stand at all (`Lifecycle`): a watchdog or a run task that
  ends for good is visible in no other property until the socket is silent.
* `TasksInPosition`: the fallback's task exists exactly in polling mode, the seed tries
  until there is a map, and no task waits for a request that is over.
* `ServesTheFeed`: refinement of `AlertFeed` with its fairness: the listener gets
  published maps only, nothing after `stop`, and in the end the newest map. A socket that
  is trusted on connect, before it publishes, freezes the map and violates it.
  `StartIsSeeded`: a start is not left without a map.

`RefreshedBeforeStale` and `IssueTellsTheTruth` are the timed ones. The first has two parts. While
no request failed, a map is replaced before it counts as stale (`RefreshedInTime`). Whatever fails, and
also if Retry-After refuses to ask, the watchdog checks again within a window and a tick for as long as the silence
lasts (`RetriedEachWindow`): a failed check blocks the next one for one window, never for longer.
`ServesTheFeed` permits a publication that was received before an HTTP answer and yielded after it to
show the older map for a moment (`RunFrame` checks no revision, as the code does not); it requires that
this ends.

**Fairness.** `FairSpec` is weak fairness of what the event loop owes (a ready
task runs, a sleep ends, a connect or a handshake ends by success or timeout, a
dropped socket is noticed, a request ends) and strong fairness of `HttpOk`: a
fallback asked again and again answers in the end. Nothing is assumed of the
provider, of a socket's publications or of its failures. Without strong fairness of
the fallback and with a silent socket nobody could catch up.

## 4. Findings

Runs that find a statement of the repository violated:

1. `known_start`. `accept` (`events.py:179`) sets `_since` only if there is none, and
   a region that is in alert before and after a gap never passes through "none". An
   alert that is declared after the one before the gap is over is thus reported with
   the earlier `observed_active_since` and `active_since_known = true`. The English
   README (line 318) describes the two fields as the time the integration first saw
   the current alert and whether that was its real start.
2. `late_start`. `_window` (`history.py:824`) lets a region be covered from the earliest of
   three starts: its own first confirmation, its oldest official chunk, and the creation of
   the journal's file. A region that is selected months after the installation therefore
   counts as covered, and quiet, from the installation on, and one whose first download broke
   off after a chunk from that chunk on. Line 727 says that a late start "does not read as quiet time".
3. `journal_share`. `_period` (`history.py:729`) divides the duration of the episodes by the
   covered time. An alert that is on before and after a gap is one episode over the gap
   (`handle_event` sets `had_gap` and keeps it open), and counts with the gap, which the covered
   time leaves out: a region under a lasting alert reads more than 100 % for the day or the month after an
   outage that is too long to be bridged. Line 727 calls the value a share of the covered time.

Disagreements that the models show and no run is spent on:

* `handle_event` (`history.py:301`) moves the start of an open episode back to the
  event's time whenever the clock is behind it, also for `data_stale`. The gap that is
  recorded begins at the last confirmation, so after the clock was set back during a
  silent feed the journal tells, outside of every gap, of an alert in time in which it had
  observed none, where line 6 of the same file says that times are what the integration
  observed: `EpisodesTellTheTruth` fails in `AlertJournal` once the clock is set back. It is
  checked for a clock that is not set, and proved for one that is never set back.
* `_count_failure` (`api/supervisor.py:272`) measures from before the token is minted,
  so a connection attempt that hangs for 120 s and then fails is forgiven like the
  session "that streamed for this long" of line 38: a server that accepts and
  stalls is retried for ever without the switch to polling. The watchdog limits the
  damage, since its cross-check still refreshes the map.
* `_fetch_poll` returns `None` also for a request that succeeded but was superseded;
  `_poll_loop` (line 297) counts that as a failure and doubles its pause, where the
  README speaks of backoff after failures. `TransportSupervisor` has no such count, which only
  selects the pause; `FeedFreshness` lets a lost request's pause be any up to the longest.
* A refresh shall re-read the days before the cursor (`history.py:424`, README line 385).
  `begin_backfill` stores the target before the first chunk is read, and `backfill_window`
  (`history.py:401`) resumes a standing target from the cursor: if the first chunk of a refresh
  fails, the retry skips those days, and the next refresh begins two days before the new
  cursor. An alert that was under way at the old cursor is then never asked for again by its first day.
* `merge_official` (`history.py:479`) moves the unknown start of an episode back to the
  start of the official interval that overlaps it, without a look at the other episodes that
  the same interval overlaps. An interval over a short observed alert and a later one
  whose start nobody saw makes the later one cover the earlier, and a summary, which
  lists episodes, counts their time twice. README line 391 says that overlaps do not create duplicates.
* The MiG state is "known only on a live WebSocket", says the docstring of `mig_state`
  (`coordinator.py:317`); the code asks whether the mode is `ws` and the data are fresh (line 318). Cross-checks
  keep the data fresh while the socket is silent and do not carry the status, so the last status is shown for as
  long as the socket stays open. Nothing in the code bounds its age, and no property here does.
* On the return from polling, `_run` changes the mode before it hands the publication on
  (`api/supervisor.py:229-232`): the MiG sensor first writes the status from before the
  outage, if the data are fresh, and the new one in the same step. Actions see the second write only.
* An update of the entry between the coordinator's constructor and `add_update_listener`
  (`__init__.py:211-276`, while map and journal are read) is heard by nobody: entities and
  registry follow it, but the coordinator keeps the tree it was built with, where `coordinator.py:472`
  says that trees "only change through a reload". `HeardChangeIsBuilt` excludes it with the ghost `missed`.
* The descendant backfill (`__init__.py:451`) writes the selection it was started with. A choice
  made while it awaits the tree is undone if the tree arrives before the reload has cancelled
  the task; the reload then builds the old selection. `UndoOnlyDuringReload` bounds this to that window.
* The same write gives a region that the tree no longer has an empty list of descendants,
  which counts as known from then on: such a region is never looked up again.
* `config_flow.py:143` says that an entry without a region "looks installed and warns about nothing" and
  refuses it. The options form refuses an empty choice as well, but keeps only those chosen regions
  that the tree it was given has, or the entry; two forms that are open at once can so leave an empty selection.
* The copy of the tree (`regions.py:157`) is as old as the clock says: after the clock was set back
  a copy with a stamp in the future is not refreshed until the clock has caught up.
* A heartbeat that cannot be read, together with a clock that was set back, can hide a
  hole: the journal's own stamp may lie after the restart. The runs exclude every combination of
  damage and a set clock; the theorem excludes no more than damage with a clock set back.

## 5. Proofs

TLAPS proves, for all constants that satisfy the named assumptions:

* `TransportSupervisorProofs`. `Inv` is inductive: `TypeOK`, `Published` (what
  is shown, answered or received was published), `RequestCurrent`,
  `AnswerCurrent` and `WatchdogCurrent` (a revision that is still current means
  that nothing newer than `floor`, and so than the answer, has been shown), and
  `Positions` (tasks against mode and request). Why it is needed:
  `HttpNeverRollsBack` speaks of one step, but the step is safe only because of
  what has been true since the request was sent; `AnswerCurrent` carries that
  from `FetchPoll` to the answer. From it follow `TypeCorrect`,
  `InPosition`, `HttpMonotonic`, `DropsNeedEvidence`,
  `PollingEndsWithPublication` and `ImplementsFeed` (every step of the
  supervisor is a step of `AlertFeed` or a stutter).
* `CoordinatorProofs`, for every region tree, set of maps and set of threats. `Inv` is
  inductive: the shapes of the variables, `FlagsAgree` (bootstrapped exactly if
  something was received; announced only while stale), `ViewsAreCurrent`,
  `EntitiesAreCurrent`, and that the hub's states, its known levels and the states in
  its last events are those of the current map. The central lemma, `ViewSurvives`: a
  view whose sources did not change says of the new map what it said of the old one.
  It makes skipped regions harmless; without `StatesAreCurrent` a skipped region
  could be compared with an older map when its turn comes. From `Inv` follow
  `ViewsCurrent`, `EntitiesCurrent`, `EventsCurrent`, `ImplementsEvents` (each step of
  the coordinator is a step of `AlertEvents` or a stutter) and `KnownStartSeen` (no start is
  called known that was only a first look). `TypeCorrect` needs no more
  than itself, and that the greatest of a set of levels is one of them.
* `SnapshotStoreProofs`. `Inv` says of everything that carries a stamp (the file, the write
  under way, the map the next write would take) that it was live at that time, and that
  what the process remembers as written is on disk. The first half is needed because a
  write takes its map before it awaits the disk; the second because a stop that has
  nothing to write relies on it. From it follow `DiskTruth`, `RestoreRecent`
  and `CleanStop`.

* `MigStatusProofs`, of `FeedFreshness` first. While nothing failed, the age of the map plus the
  time until somebody asks is at most threshold plus tick (`AskedInTime`), a request adds at most its
  timeout, and an answer that will be discarded belongs to a map younger than the request
  (`OutdatedIsYoung`). Whether or not something failed, the age of the last check plus the time to the next tick is at
  most threshold plus tick (`RetriedInTime`). From it: `MarginSuffices` (the margin of `const.py` suffices for every choice
  of intervals, and every window has its check) and `IssueTruth`. Then of `MigStatus`, whose steps keep that invariant, reloads included
  (`MarginSufficesAcrossReloads`, `IssueTruthAcrossReloads`). The gate of a sensor compares with
  what it wrote last, and the moment at which data go stale calls nobody. `LagIsShort`
  therefore relates two clocks: a sensor that lags missed only that moment, and the age of the data plus
  the time to its tick is at most threshold plus tick. From it follows `SensorsCurrent`.
  `Remembered` (the coordinator knows of a flight while it lasts, if it was told) gives `TakeoffOnce`.
* `AlertJournalProofs`, for every number of regions, length of time, staleness and number of clock
  changes. `NoSilentHole` speaks of memory only; the invariant has to speak of everything a load may
  find. `Sounds`: memory, disk and the write under way claim only what was seen, *also with the
  heartbeat's stamp put on them*, since a load does that. `Synced`: what counts as written is on disk
  but for newer stamps, so that a heartbeat, which is written only then, does not vouch for a journal
  that is not there. `Knowns`: a stamp newer than an entry's own lies behind a gap. `Fresh`: while the
  feed is not stale, the last confirmation is the last push. With readable files this is inductive by
  itself (`Invariance`). If files may be lost, it needs `Past`: no stamp lies ahead of the clock, which
  holds on a clock that is never set back (`ClockRunsOn`; it may be set forward).

  `EpisodesTellTheTruth` needs that clock in any case (section 4), and a second
  invariant on top, `TInv`. `Truths`: of every unit that memory, disk or the write
  under way would claim, also under the heartbeat's stamp, they tell what was seen in it. A push moves
  the claim over time of which only the last map is known, so `Tracks` says that what is told from the last
  confirmation on is what the map shows; `Bounds` keeps episodes behind the clock; and
  `SyncedTales` extends `Synced` to episodes, without which a crash could load an alert that a
  later write removed. From these follow `TypeCorrect` (of every behaviour), `NoHoleIsHidden` (files that
  stay readable, or `ClockRunsOn`), `EpisodesAreTrue`, `SavedSurvivesCrash` and
  `CompleteWasWatched` (all three under `ClockRunsOn`). The last one argues about the units of a bridged gap: if one of
  them were told otherwise than the first after it, an episode would have an edge in between, and the gap
  would not count as bridged. `UnsetRunsOn` ties the hypothesis to the runs, which do not set the clock.
* `RegionHistoryProofs`, for every length of time, retention, cap and length of a day. Finished episodes
  have distinct ends: `handle_event` closes one at the current time, and `merge_official` adds
  an interval only where no episode is. That makes the order in which `_prune` cuts to the cap total, so that what it
  keeps is what ends after `_retained_from`. `Tells`: what is told between that stamp and
  now is exactly `known`; a refined start covers only units that the source told. From the invariant follow `TypeCorrect`,
  `NothingIsLostOrMadeUp`, `RerunsAddNothing` (an interval that found an episode finds it, perhaps
  with an earlier start, again) and `BoundariesStay`.
* `OfficialBackfillProofs`, for every set of regions, retention, chunk, overlap and refresh
  interval. `RunBeginsInTime` is what makes a chunk safe to merge into regions that stand
  elsewhere: a run begins no later than each of its regions' cursors, or than the
  retention. `TargetsArePast` and `DiskIsBehind` support it. From it follow
  `TypeCorrect`, `NoDayIsSkipped`, `ProgressSurvives`.
* `RegionConfigProofs`, for every tree, number of dialogs, writes, reloads and restarts. First the walk
  over an answer, by induction on its nodes (`Upwards`, from the least member of a set of naturals): a
  walk that has accepted k nodes knows what is above each of them, and its path holds one node of
  every depth down to the last (`Found`); of the nodes a node is nested in, no two are of the same depth, so the part
  of the path above the next node is exactly what encloses it. From it follows `WalkIsAlwaysRight`:
  `validate_region_tree` accepts exactly the answers that are usable as a whole, of any size and
  depth, and finds what is above and below each region. Then the entry. A write that is
  heard of leaves a reload behind, and until it has run nothing is claimed; one that is
  not heard of comes before the purge and the platforms, which read the entry as it is then
  (`PurgedIsClean`, `EntitiesFollow`, `BuiltFollows`), unless an unload failed; the backfill of a settled setup completes the
  selection that is monitored (`CapturedFollows`), and while a setup stands an entry that lacks
  descendants is being looked up or no tree was to be had (`TriedWhileUp`). From it follow `TypeCorrect`,
  `SetupsFollowTheEntry`, `LegacyEntriesAreTried`, `UndoneOnlyDuringReload`.

The assumptions are the named `ASSUME`s of the modules: for the coordinator,
`TreeAssumption` (monitored regions, ancestors and descendants are places; times are
positive) and `MapsAssumption` (maps are maps, `NoMap` is none); for the region tree,
`RawAssumption` (answers are nested lists, whatever their ids), which TLC evaluates; elsewhere bounds and intervals are naturals, and the margin of `FeedFreshness`.

Model-checked only: liveness (`ServesTheFeed` with its fairness, the fair part of
`StaleIsAnnounced`, `StartIsSeeded`, `GapsReachTheDisk`, `EveryMapIsSaved`, `CatchesUp`,
`ReloadsEnd`), which is out of the prover's reach. Every invariant and every step property of a
passing run is stated by a theorem.

## 6. The journal

`AlertJournal` models `history.py` from the two places that drive it:
`handle_snapshot` and `async_check_stale` of the coordinator. What the hub
decides in between (which regions it tells the journal of) is `Told` and
`Announces`.

| Variable | Code |
|---|---|
| `now`, `jumps` | the wall clock, and how often it was set |
| `up` | the entry is set up |
| `selected` | the selected regions of this run |
| `age`, `skew` | the monotonic age of `last_push`, and how much more the wall clock moved since than the monotonic one (`_clock_jumped`) |
| `shown`, `announced` | regions in alert on the current map; the hub's `stale_announced` |
| `journal[r]` | per region `_confirmed`, `_live_since`, `_open_gaps`, `_gaps`, the active episode and the finished ones |
| `resync` | `_resync`: regions that a load restored and no push has confirmed yet |
| `pending`, `beatPending` | `_version != _saved_version`, `_beat_version != _beat_saved` |
| `flush` | the write `async_flush` awaits: the content it took, and whether its versions are still the latest |
| `disk`, `written`, `beat` | the journal's file, whether it exists, and the heartbeat's file |
| `alertSeen`, `quietSeen` | ghosts: units in which the alert, or its absence, was really watched |

`age` is unbounded in the code, which asks only whether the feed is stale; the model stops
counting once it is (`Aged`), which is exact. `TypeOK` says, beside the shapes, that recorded gaps
have a length.

A unit of time stands for a stretch between two instants, and episodes and gaps
are sets of units, so "overlap" and "union" are set operations. The two versions
are counters only compared for equality with an earlier copy; the model keeps
the outcome (`latest`). A file is replaced as a whole, which is what Home
Assistant's `Store` does, so a crash during a write leaves the old or the new one.

`Claimed(r)` is what `_window` presents as observed: from `_live_since` to the last
confirmation, without the gaps, and nothing when the stamp lies in the future
(which it reports as a clock jump). `Witness` records what is really known: a push
that arrives while the feed is neither stale nor broken by a clock jump vouches
for the time since the one before it. The ghosts are written by no guard and read
by none.

| Run | Question | Bounds, and why they suffice |
|---|---|---|
| `journal_crashes` | do crashes, failed writes and damaged files ever create a silent hole, or an episode that was not seen? | one region (regions share only the flush and the two files; a region that changes beside another is `Touch` of a write under way), three units, staleness after one: quiet, stale and a restart fit in between |
| `journal_flush` | is there a silent hole when the clock is set, and do gaps reach the disk? | one unit between two instants, two settings of the clock: back and forth; events may go on for ever |
| `journal_share` | is the percentage a share of the covered time? (violated: finding 3) | three units, files readable |

The properties:

* `NoSilentHole`: every unit that is claimed was watched. It takes several steps to
  violate, e.g. a heartbeat on disk that is newer than the journal beside it.
* `EpisodesTellTheTruth`: inside the claimed units, an alert is told exactly where one
  was seen.
* `CompleteIsWatched` (`JournalWindow`): an answer that `_window` calls complete leaves out
  nothing but gaps short enough to be bridged, and of those it tells what was seen right after
  them. An edge just after such a gap shows that something happened inside; a gap that is bridged
  although there is one would hide an alert.
* `GapsReachTheDisk`: a recorded gap is written, even one recorded during a write.
* `ShareIsAShare`: finding 3.

Fairness of `journal_flush`: `FlushBegin` is weakly fair because it runs on a fixed
interval (never a debounce), a write ends, and writing works in the end if it is
tried again and again (strong fairness of `FlushOk`).

Kept out of the model: `_prune` and the official history (sections 9 and 10; all instants
lie within the retention here), the types and levels of an episode and
`had_gap`, which only decorate what is told. `JournalWindow` has the quality, the
bridged gaps and the covered time of `_window`; the rendering of its intervals is left out.

`Damage` and clock changes are not combined in a run; the theorems combine it with a clock that is set
forward, which only adds time that nobody watched (section 4, last entry).

## 7. The coordinator and the hub

A map arrives in `handle_snapshot`. It is compared with the last one region by region;
only monitored regions that depend on a changed place are aggregated again, only
their entities write, and only they are handed to the hub. `AlertEvents` knows nothing
of this: it compares the pictures that two whole maps give of a region.

| Variable | Code |
|---|---|
| `data`, `received`, `expired` | `data`; `last_push is not None`; its age exceeds `STALE_AFTER_SECONDS` |
| `views` | `_views`, where `NoView` is a missing entry |
| `present`, `shown` | regions whose state entities were added; the view they wrote last |
| `states`, `since`, `knownLevel`, `undelivered` | `_states`, `_since` (`look` or `start`: its second component), `_known_level`, `_undelivered` |
| `listening`, `bootstrapped`, `staleAnnounced` | `_listeners`, `bootstrapped`, `stale_announced` |
| `published`, `heard` | the events of the step, as the journal gets them; what the event entity of a region shows |

A behaviour is one run of the config entry, and `Init` holds `async_restore`: the stored map is
there, `last_push` is not. `handle_snapshot`, `async_check_stale`, a mode change and
adding an entity each run without an await, so each is one action. `changed_regions`
lives only inside `handle_snapshot` and is the argument of `Shows`. `_views_of` never
differs from the map when views are read, except after the restore, when there are
none. `View` keeps what the properties tell apart: alerts, coverage, and who is
named. `RegionAlerts` is written as the set of declared alerts with the union of the levels of their
copies; `AirLevels`, `CoverageByType` and the rest of `region_view` follow the code.

| Run | Question | Bounds, and why they suffice |
|---|---|---|
| `coordinator_maps` | are views, entities and last events current, is stale data announced, and is every change told as whole maps tell it? | an oblast, a hromada below it and a place outside the tree: an ancestor, a descendant and a stranger; fourteen maps: eight in which an alert, its time of declaration or a name differ, and six with every air level above and a copy below that knows more. A level may be briefly unspecified and come back. The data goes stale and recovers any number of times |
| `known_start` | is a known start the start of the current alert? (violated: finding 1) | the same maps |

The properties:

* `ViewsAreCurrent`, `EntitiesAreCurrent`: what was cached or shown before any number of
  maps is what the current map says. It takes at least two maps, and a wrong
  dependency only shows for a region that is not the one that changed.
* `EventsAreCurrent`: the same for the last event of an entity that comes late or
  leaves in between.
* `TellsEveryChange`: refinement of `AlertEvents`; `StaleIsAnnounced` adds its fairness.

Fairness: `CheckStale`, because `async_check_stale` runs each minute on a fixed
interval. Nothing is assumed of the feed.

Left out: reasons and the payload fields that follow from others, the percentages, the
journal (section 6) and MiG status (section 11). The name of a declaring region outside the tree may change
without affecting the region; `SaysWhat` speaks of places around the region only.

## 8. The map on disk

| Variable | Code |
|---|---|
| `data`, `pushed` | `data`, `last_push` |
| `saved` | `_saved_active` with `_saved_confirmed` |
| `saving` | the map and stamp that `async_save_now` took before it awaits the disk; the lock lets one write through |
| `disk` | the file: a map and its `confirmed_at` |
| `phase` | `stopping` and `closing` are `_async_save_on_stop` or an unload, before and during its write |
| `liveAt` | ghost: the maps that transports delivered at a time |

| Run | Question | Bounds, and why they suffice |
|---|---|---|
| `store_truth` | does the disk tell the truth, does a stop keep it, does a map that stays reach it, and do writes go on while it changes? | two maps; three instants with a save interval of two and a maximal age of one, so that a stamp may be fresh, due and expired; two crashes, one setting of the clock |

* `DiskTellsTheTruth`: the stamp on disk is a time at which that map was live. That a restart shows
  only a map that was live recently follows and is proved (`RestoredIsRecent`).
* `CleanStopKeepsTheMap`: the last save of a stop waits for an older write and still writes.
* `EveryMapIsSaved`: a map that stays is on disk in the end, also if it came during the write of another; and
  as long as there is something to save, writes are completed again and again. It does not say that each of
  several maps that come and go reaches the disk: the code promises no such thing.

A save that is cancelled when Home Assistant shuts down, while its thread still writes, is `Crash`, after which the
file is the old one or the one being written; so it is for the journal's flush in section 6.

Fairness of `store_truth`: the save runs on a fixed interval, and writing works in the
end if it is tried again and again (`SF` of `SaveOk`).

## 9. The official history

One day is a unit, and the model is of the regions of one root, which share their chunks; other
roots only delay (`Start` notes the time, `OpenRoot` may come later). `journal` and
`disk` hold the cursors, targets, official starts and, as a ghost that lives and dies with the
journal, when each day was merged last; `since` is the day of a region's first confirmation (`_live_since`). `run` is the background task: the chunk it
awaits or the write. A reload and a power failure are both `Restart`: a reload writes
the journal first, which is `PeriodicFlush`.

| Run | Question | Bounds, and why they suffice |
|---|---|---|
| `backfill_progress` | is a day passed over, or progress undone, and is an interrupted history completed? | two regions; retention of five days, chunks of two, overlap of two, refresh after one; seven days, so that a refresh follows a first download and days expire; two restarts: one to add a region, one to drop it or to interrupt again |
| `late_start` | was a covered day watched or read? (violated: finding 2) | the same |

Fairness of `backfill_progress`: the job is scheduled each hour, its steps end, and the source and
the disk answer in the end if asked again and again.

Left out: what a chunk contains and how its episodes are merged with observed ones, which is
section 10.

## 10. What a region's history tells

`RegionHistory` is the journal of one region as data: the episodes that `handle_event` opens
and closes, the intervals that `merge_official` is given, and what `_prune` drops. Crashes and
chunks are left to sections 6 and 9; here an official answer may be any set of intervals, may come
at any time and may be repeated, and may contradict what was observed.

| Variable | Code |
|---|---|
| `now` | the wall clock, which only moves on here (a clock that is set back: section 4) |
| `journal` | `_index` and `_active` of the region, `_official_spans` as a set of units (`_union` keeps them disjoint and joined), `_retained_from`, `_last_prune_day` |
| `known` | ghost: the units of an alert that was observed or officially told |

`Episode` keeps the boundaries, `source_start_known` and whether the types seen are just
`["air"]`, the two conditions on which `merge_official` replaces a start. `Pruned` applies the cap at
every call and the age once a day, as the code does; `Kept` is the time that `_window` presents
without calling it truncated.

| Run | Question | Bounds, and why they suffice |
|---|---|---|
| `history_merge` | does the journal tell of each alert, and of no other, within what it presents as complete? Does a second merge add anything, and do observed boundaries stay? | five instants, retention three, two episodes, days of two instants: a third episode exceeds the cap, the age limit bites within the run, and a prune may be or not be the first of its day |

* `ToldIsKnown`: the caps may drop episodes only if `_retained_from` says so, and a merge may
  move a start only over time that the source called an alert.
* `RerunAddsNothing`: an answer merged again adds no episode, whatever is in the journal; the one
  exception is an answer so long that the cap drops a part of it at once.
* `BoundariesArePreserved`: ends never move, a start only if nobody saw it, and only backwards.

Left out: levels and reasons, `had_gap`, the gaps (section 6) and their share of `_prune`, the
queries' rendering and sums.

## 11. The MiG status

`MigStatus` extends `FeedFreshness`: every action of that module is taken here together with
what it does to the status. `Push` and `Http...` become `PushMig` and `HttpMig`, `Degrade` becomes `DegradeMig`, the
others `OtherMig`; each calls the sensors as `async_update_listeners` does, in the same step.

| Variable | Code |
|---|---|
| `mig` | the status of `_mig`, and `_mig_announced`, which HTTP answers do not carry |
| `shown`, `verdict` | what the MiG sensor and `data_stale` wrote last |
| `baseline` | `_published` of both: their keys when they wrote last |
| `nextTick` | the time until their `_async_tick` |
| `fired` | the event of the step |
| `sky`, `flights`, `told` | the flights as the provider sees them; ghost: this flight was told or was under way at the start |

`Reload` makes coordinator, transports and entities anew. A publication may carry no status, may
change nothing else (`changed` is false: the other listeners are not called, unless data were
stale before), and the launch flag may go up and down in flight.

* `SensorsAreCurrent`: both sensors show what holds now, and only "the data went stale" may wait for
  the tick. To break it takes two of: a push that changes nothing after an outage, a
  mode change, a tick that comes first.
* `OneTakeoffPerFlight`: outages, modes, missed publications and reloads announce no flight twice.
* `RefreshedBeforeStale`, `IssueTellsTheTruth`: of `FeedFreshness`.

## 12. Regions and their configuration

| Variable | Code |
|---|---|
| `entry` | `entry.data[CONF_REGIONS]`; `Missing` is an absent `descendants` |
| `phase`, `listening`, `reloads` | where `async_setup_entry` or the unload awaits; `_async_reload_entry` is registered; reloads that wait for Home Assistant's setup lock |
| `built` | what the coordinator's constructor read |
| `shown`, `registry` | regions with entities, and in the entity registry |
| `call` | per caller of `async_get_region_tree` (forms, descendant backfill, cache refresh): request, save or copy |
| `options`, `captured` | what a form offers; what the backfill was started with |
| `copy`, `old` | the tree on disk; it is older than a day |
| `missed`, `gaveUp`, `stuck` | ghosts: an update nobody heard of; the backfill found no tree; the last unload failed |

`EndUnload` and `UnloadFails` are the two branches of `if ok:` (`__init__.py:290`). After a failed
unload the coordinator, its listeners and its tasks stay as they are, nothing is saved, and Home Assistant
sets nothing up again; a later reload may fail in the same way. The old setup then does not follow the
entry, and the code can do nothing about it: `SetupFollowsEntry` claims nothing while
`stuck`, and a choice that the backfill undid before the failure stays undone. Everything else holds regardless.

A tree is the preorder sequence of its nodes with their depths. `Walk` is `validate_region_tree`
as a fold; `WalkIsRight` compares it with a definition by enclosure, in TLC on every answer of up to four
nodes, with ids that repeat or cannot be used, and in a theorem on every answer. The saved copy is replaced only by a tree that
passed (`Believed`).

| Run | Question | Bounds, and why they suffice |
|---|---|---|
| `region_config` | do entities, registry and coordinator follow the entry, is an old entry completed, is a choice undone, do reloads end? | two regions, one below the other; three answers: a tree, a smaller one after a reform, and a broken one; one dialog that is submitted twice, so that a write can meet the reload of another; one restart, one day |

* `SetupFollowsEntry`: `RegistryFollows` and `HeardChangeIsBuilt`.
* `LegacyEntryIsTried`: a reload cancels the look-up of missing descendants, and the next setup starts another.
* `UndoOnlyDuringReload`: the backfill's write over a newer choice, bounded (section 4).
* `ReloadsEnd`: every write asks for a reload, and the backfill of a reload writes again; this
  ends because the second write changes nothing. Fairness: steps of a setup or an unload and requests end,
  which Home Assistant's setup lock and the 30 s timeout ensure. An unload may end by failing.

Deadlock is not checked: once the bounded writes, restarts and days are used up and the
entry is settled, nothing need happen.

## 13. Plan

All modules of the plan are written. What could follow, the most valuable first: the percentage sensors with the schedule that
recomputes them; several roots in `OfficialBackfill`; the disjointness of episodes that
section 4 denies, once `merge_official` looks at its neighbours.

## 14. Not modelled

* Card registration, the Lovelace card, blueprints, translations, diagnostics:
  presentation without state of its own.
* The framing of Centrifugo replies and the parsing of JSON: every outcome
  appears as a publication or a failure of the stream.
* Home Assistant's own machinery (config entries, `Store`, the issue registry):
  modelled from how the code uses it.
* Percentage and last-cleared sensors: they render what `_window` answers, without a gate of their own;
  the rounding and rendering of summaries and calendars.
* Service schemas, form labels, translations and migration of entity names: no state of the system.
* A listener that raises: `_emit` runs the coordinator inside the calling task,
  and only `_run` catches everything. No exception of the coordinator is known,
  so none is modelled.
