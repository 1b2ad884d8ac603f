----------------------------- MODULE AlertJournal -----------------------------
(***************************************************************************)
(* The alert journal of history.py: what it claims to have watched, what   *)
(* it tells of that time, and what of both survives a crash.  It is driven *)
(* as the coordinator and the event hub drive it, by handle_snapshot and   *)
(* async_check_stale, and written by async_flush to two files: the journal *)
(* itself, and a small heartbeat with the confirmation stamps alone.       *)
(*                                                                         *)
(* Time is the wall clock in units of a flush interval; unit u stands for  *)
(* the time from u to u + 1.  Episodes are kept as sets of units.  Of a    *)
(* region's state only "any alert on" is kept.  Everything happens within  *)
(* the retention period, so _prune finds nothing to drop.                  *)
(***************************************************************************)
EXTENDS Integers

CONSTANTS
    Region,       \* some of the regions a user may select
    MaxTime,      \* bound: the last instant of the wall clock
    StaleAfter,   \* STALE_AFTER_SECONDS, on the monotonic clock
    MaxJumps,     \* bound: how often the wall clock is set
    Damage        \* the files may be unreadable

ASSUME JournalAssumption ==
    /\ MaxTime \in Nat
    /\ StaleAfter \in Nat
    /\ MaxJumps \in Nat
    /\ Damage \in BOOLEAN

Time == 0 .. MaxTime
Unit == 0 .. MaxTime - 1
None == -1            \* no such time

VARIABLES
    now,         \* dt_util.utcnow()
    jumps,       \* how often the wall clock was set
    up,          \* the entry is set up
    selected,    \* the regions of the entry
    age,         \* monotonic age of the last push of this run, or None
    skew,        \* how far the wall clock was set since that push
    shown,       \* hub: regions whose last accepted state is active
    announced,   \* hub: stale_announced
    journal,     \* AlertHistory, per region
    resync,      \* _resync
    pending,     \* _version # _saved_version
    beatPending, \* _beat_version # _beat_saved
    flush,       \* the write that is under way
    disk,        \* the journal's file
    written,     \* there is such a file
    beat,        \* the heartbeat's file
    alertSeen,   \* history: units in which an alert was watched
    quietSeen    \* history: units in which its absence was watched

clocks  == <<now, jumps>>
feed    == <<selected, age, skew, shown, announced>>
memory  == <<journal, resync, pending, beatPending>>
files   == <<disk, written, beat>>
history == <<alertSeen, quietSeen>>
vars    == <<clocks, up, feed, memory, flush, files, history>>

\* A recorded gap has a length.
Gap == {g \in [lo : Time, hi : Time] : g.lo < g.hi}

\* What the journal keeps of a region.
Entry == [confirmed : Time \cup {None},  \* _confirmed
          since     : Time \cup {None},  \* _live_since
          open      : Time \cup {None},  \* _open_gaps
          gaps      : SUBSET Gap,        \* _gaps
          started   : Time \cup {None},  \* _active
          alerts    : SUBSET Unit]       \* _completed

Blank == [confirmed |-> None, since |-> None, open |-> None, gaps |-> {},
          started |-> None, alerts |-> {}]

Stamps == [Region -> Time \cup {None}]

TypeOK ==
    /\ now \in Time
    /\ jumps \in 0 .. MaxJumps
    /\ up \in BOOLEAN
    /\ selected \in SUBSET Region
    /\ age \in {None} \cup 0 .. StaleAfter + 1
    /\ skew \in Int
    /\ shown \in SUBSET Region
    /\ announced \in BOOLEAN
    /\ journal \in [Region -> Entry]
    /\ resync \in SUBSET Region
    /\ pending \in BOOLEAN
    /\ beatPending \in BOOLEAN
    /\ flush \in [kind : {"none", "journal", "beat"}, content : [Region -> Entry],
                  latest : BOOLEAN, latestBeat : BOOLEAN]
    /\ disk \in [Region -> Entry]
    /\ written \in BOOLEAN
    /\ beat \in Stamps
    /\ alertSeen \in [Region -> SUBSET Unit]
    /\ quietSeen \in [Region -> SUBSET Unit]

NoFlush == [kind |-> "none", content |-> [r \in Region |-> Blank],
            latest |-> FALSE, latestBeat |-> FALSE]

Init ==
    /\ now = 0 /\ jumps = 0 /\ up = FALSE
    /\ selected = {} /\ age = None /\ skew = 0 /\ shown = {} /\ announced = FALSE
    /\ journal = [r \in Region |-> Blank]
    /\ resync = {} /\ pending = FALSE /\ beatPending = FALSE
    /\ flush = NoFlush
    /\ disk = [r \in Region |-> Blank]
    /\ written = FALSE
    /\ beat = [r \in Region |-> None]
    /\ alertSeen = [r \in Region |-> {}]
    /\ quietSeen = [r \in Region |-> {}]

-----------------------------------------------------------------------------
(* Operations on a region's entry *)

\* The units between two instants.
Between(a, b) == a .. b - 1

\* mark_gap
GapOpens(e) == e.confirmed # None /\ e.open = None
MarkGap(e)  == IF GapOpens(e) THEN [e EXCEPT !.open = e.confirmed] ELSE e

\* Where the gap that confirm() closes began: a restored region resumes at its
\* last confirmation.
Opened(e, restored) ==
    IF restored /\ GapOpens(e) THEN e.confirmed ELSE e.open

\* Mutated form of Confirm: a gap of no length is recorded too.
ConfirmEmptyGap(e, restored, at) ==
    LET opened == Opened(e, restored)
        hole   == IF opened # None /\ opened <= at THEN {[lo |-> opened, hi |-> at]} ELSE {}
        undone == IF at < e.confirmed THEN {[lo |-> at, hi |-> e.confirmed]} ELSE {}
    IN  [e EXCEPT !.open = None,
                  !.gaps = @ \cup hole \cup undone,
                  !.since = IF @ = None THEN at ELSE @,
                  !.confirmed = at]

\* confirm
Confirm(e, restored, at) ==
    LET opened == Opened(e, restored)
        hole   == IF opened # None /\ opened < at THEN {[lo |-> opened, hi |-> at]} ELSE {}
        undone == IF at < e.confirmed THEN {[lo |-> at, hi |-> e.confirmed]} ELSE {}
    IN  [e EXCEPT !.open = None,
                  !.gaps = @ \cup hole \cup undone,
                  !.since = IF @ = None THEN at ELSE @,
                  !.confirmed = at]

\* More than the confirmation stamp moved.
ConfirmChanges(e, restored, at) ==
    Opened(e, restored) # None \/ e.confirmed = None \/ at < e.confirmed

\* handle_event, after its confirm or mark_gap.  A clock that was set back takes
\* the start of an open episode with it.
Tell(e, active, at) ==
    LET start == IF e.started # None /\ at < e.started THEN at ELSE e.started
    IN  IF active THEN [e EXCEPT !.started = IF start = None THEN at ELSE start]
        ELSE IF start # None THEN [e EXCEPT !.started = None,
                                            !.alerts = @ \cup Between(start, at)]
        ELSE e

TellChanges(e, active) == active \/ e.started # None

-----------------------------------------------------------------------------
(* Clocks *)

\* The age grows on; the code asks no more of it than whether it is stale.
Aged == IF age = None THEN None ELSE IF age > StaleAfter THEN age ELSE age + 1

Tick ==
    /\ now < MaxTime
    /\ now' = now + 1
    /\ age' = Aged
    /\ UNCHANGED <<jumps, up, selected, skew, shown, announced, memory, flush, files,
                   history>>

\* The wall clock is set.
SetClock ==
    /\ jumps < MaxJumps
    /\ jumps' = jumps + 1
    /\ now' \in Time \ {now}
    /\ skew' = IF age = None THEN skew ELSE skew + (now' - now)
    /\ UNCHANGED <<up, selected, age, shown, announced, memory, flush, files, history>>

-----------------------------------------------------------------------------
(* The feed *)

IsStale   == age = None \/ age > StaleAfter

\* The wall clock and the monotonic one disagree on the time since the last push.
ClockJump == age # None /\ skew # 0

\* Mutated form of Interrupted: the clock is not looked at.
InterruptedByFeed == IsStale

\* handle_snapshot opens a gap before it confirms.
Interrupted == IsStale \/ ClockJump

\* A change of the journal during a write outdates that write.
Touch(content, stamps) ==
    /\ pending' = (pending \/ content)
    /\ beatPending' = (beatPending \/ stamps)
    /\ flush' = [flush EXCEPT !.latest = @ /\ ~content, !.latestBeat = @ /\ ~stamps]

\* What was really watched, whatever the journal makes of it: the time since the
\* last push of this run, unless the feed or the clock broke off in between.
Witness ==
    LET watched(r) == IF r \in selected /\ ~IsStale /\ ~ClockJump
                      THEN Between(now - age, now) ELSE {}
    IN  /\ alertSeen' = [r \in Region |->
              IF r \in shown THEN alertSeen[r] \cup watched(r) ELSE alertSeen[r]]
        /\ quietSeen' = [r \in Region |->
              IF r \notin shown THEN quietSeen[r] \cup watched(r) ELSE quietSeen[r]]

\* Regions of which the hub tells the journal: all after a start or a gap, those
\* that changed otherwise.
Told(touched) == IF IsStale \/ announced THEN selected ELSE touched

\* handle_snapshot: `active` regions are in alert, `touched` ones changed.
Snapshot ==
    /\ up
    /\ \E active \in SUBSET selected, touched \in SUBSET selected :
         /\ {r \in selected : (r \in active) # (r \in shown)} \subseteq touched
         /\ LET marked    == [r \in Region |->
                               IF r \in selected /\ Interrupted
                               THEN MarkGap(journal[r]) ELSE journal[r]]
                confirmed == [r \in Region |->
                               IF r \in selected
                               THEN Confirm(marked[r], r \in resync, now) ELSE marked[r]]
                told      == [r \in Region |->
                               IF r \in Told(touched)
                               THEN Tell(confirmed[r], r \in active, now)
                               ELSE confirmed[r]]
            IN  /\ journal' = told
                /\ Touch(\/ \E r \in selected :
                              ConfirmChanges(marked[r], r \in resync, now)
                         \/ \E r \in Told(touched) : TellChanges(journal[r], r \in active),
                         TRUE)
         /\ shown' = active
    /\ resync' = {r \in resync : r \notin selected}
    /\ Witness
    /\ age' = 0 /\ skew' = 0 /\ announced' = FALSE
    /\ UNCHANGED <<clocks, up, selected, files>>

\* announce_stale tells the journal: once, and only if the run has shown anything.
Announces == ~announced /\ age # None

\* async_check_stale
CheckStale ==
    /\ up /\ IsStale
    /\ LET marked == [r \in Region |->
                       IF r \in selected THEN MarkGap(journal[r]) ELSE journal[r]]
       IN  /\ journal' = [r \in Region |->
                           IF r \in selected /\ Announces
                           THEN Tell(marked[r], r \in shown, now) ELSE marked[r]]
           /\ Touch(\E r \in selected :
                      \/ GapOpens(journal[r])
                      \/ Announces /\ TellChanges(journal[r], r \in shown),
                    FALSE)
    /\ announced' = (announced \/ age # None)
    /\ UNCHANGED <<clocks, up, selected, age, skew, shown, resync, files, history>>

-----------------------------------------------------------------------------
(* async_flush *)

\* Mutated form of FlushBegin: a moved stamp is written before the journal is.
FlushBeginStampFirst ==
    /\ up /\ flush.kind = "none"
    /\ pending \/ beatPending
    /\ flush' = IF beatPending
                THEN [kind |-> "beat", content |-> journal,
                      latest |-> FALSE, latestBeat |-> TRUE]
                ELSE [kind |-> "journal", content |-> journal,
                      latest |-> TRUE, latestBeat |-> TRUE]
    /\ UNCHANGED <<clocks, up, feed, memory, files, history>>

Stamp(e) == [Blank EXCEPT !.confirmed = e.confirmed]

FlushBegin ==
    /\ up /\ flush.kind = "none"
    /\ pending \/ beatPending
    /\ flush' = IF pending
                THEN [kind |-> "journal", content |-> journal,
                      latest |-> TRUE, latestBeat |-> TRUE]
                ELSE [kind |-> "beat", content |-> [r \in Region |-> Stamp(journal[r])],
                      latest |-> FALSE, latestBeat |-> TRUE]
    /\ UNCHANGED <<clocks, up, feed, memory, files, history>>

\* The file that is being written is replaced as a whole.
Replaced ==
    /\ disk'    = IF flush.kind = "journal" THEN flush.content ELSE disk
    /\ written' = (written \/ flush.kind = "journal")
    /\ beat'    = IF flush.kind = "beat"
                  THEN [r \in Region |-> flush.content[r].confirmed] ELSE beat

\* Mutated form of FlushOk: what came during the write counts as written.
FlushOkForgets ==
    /\ flush.kind # "none"
    /\ Replaced
    /\ pending' = FALSE /\ beatPending' = FALSE
    /\ flush' = NoFlush
    /\ UNCHANGED <<clocks, up, feed, journal, resync, history>>

FlushOk ==
    /\ flush.kind # "none"
    /\ Replaced
    /\ pending' = IF flush.kind = "journal" THEN ~flush.latest ELSE pending
    /\ beatPending' = ~flush.latestBeat
    /\ flush' = NoFlush
    /\ UNCHANGED <<clocks, up, feed, journal, resync, history>>

FlushFail ==
    /\ flush.kind # "none"
    /\ flush' = NoFlush
    /\ UNCHANGED <<clocks, up, feed, memory, files, history>>

-----------------------------------------------------------------------------
(* Restarts *)

\* Power fails, or the entry is unloaded after its last flush: what is only in
\* memory is gone.  A write under way has reached its file or has not.
Crash ==
    /\ up
    /\ up' = FALSE
    /\ Replaced \/ UNCHANGED files
    /\ flush' = NoFlush
    /\ journal' = [r \in Region |-> Blank]
    /\ selected' = {} /\ age' = None /\ skew' = 0 /\ shown' = {} /\ announced' = FALSE
    /\ resync' = {} /\ pending' = FALSE /\ beatPending' = FALSE
    /\ UNCHANGED <<clocks, history>>

\* _async_load_heartbeat: the newer stamp of the two files.
Freshened(e, stamp) ==
    IF e.confirmed # None /\ stamp > e.confirmed THEN [e EXCEPT !.confirmed = stamp] ELSE e

\* async_load: a damaged journal starts a new one, a damaged heartbeat is ignored.
Start ==
    /\ ~up
    /\ up' = TRUE
    /\ selected' \in SUBSET Region
    /\ \E readable \in {written, written /\ ~Damage}, beatReadable \in {TRUE, ~Damage} :
         LET stored == IF readable THEN disk ELSE [r \in Region |-> Blank]
         IN  /\ journal' = [r \in Region |->
                             IF beatReadable THEN Freshened(stored[r], beat[r])
                             ELSE stored[r]]
             /\ resync' = {r \in Region : stored[r].confirmed # None}
             /\ pending' = ~readable
    /\ UNCHANGED <<clocks, age, skew, shown, announced, beatPending, flush, files,
                   history>>

-----------------------------------------------------------------------------

Next ==
    \/ Tick \/ SetClock
    \/ Snapshot \/ CheckStale
    \/ FlushBegin \/ FlushOk \/ FlushFail
    \/ Crash \/ Start

Spec == Init /\ [][Next]_vars

\* The flush runs on a fixed interval, and a disk that is tried again and again
\* works in the end.
Fairness == WF_vars(FlushBegin) /\ WF_vars(FlushOk \/ FlushFail) /\ SF_vars(FlushOk)

FairSpec == Spec /\ Fairness

-----------------------------------------------------------------------------
(* Properties *)

\* The units inside of gaps.
Holes(e) == {u \in Unit : \E g \in e.gaps : g.lo <= u /\ u < g.hi}

\* The units for which the journal claims to know the region's state.  A stamp
\* in the future is told as a clock jump (_window) and claims nothing.
Claimed(r) ==
    LET e == journal[r]
    IN  {u \in Unit : /\ e.since # None /\ e.since <= u
                      /\ u < e.confirmed /\ e.confirmed <= now
                      /\ u \notin Holes(e)
                      /\ e.open = None \/ u < e.open}

\* The units in which it says there was an alert.
AlertTold(r) ==
    LET e == journal[r]
    IN  e.alerts \cup {u \in Unit : e.started # None /\ e.started <= u}

\* history.py: "a gap is marked, never filled in".  The journal claims no time
\* in which nobody watched, whatever was lost in crashes, failed writes and
\* clock changes.
NoSilentHole ==
    \A r \in Region : Claimed(r) \subseteq alertSeen[r] \cup quietSeen[r]

\* Of the time it claims, the journal tells what was seen (history.py: "Times are
\* what the integration observed; a gap is marked, never filled in").
EpisodesTellTheTruth ==
    \A r \in Region : \A u \in Claimed(r) :
        IF u \in AlertTold(r) THEN u \in alertSeen[r] ELSE u \in quietSeen[r]

\* A gap that is recorded reaches the disk, however steady the stream of events
\* is (async_flush: never "a trailing debounce that a steady stream of events
\* could postpone forever").
GapsReachTheDisk ==
    \A r \in Region, g \in Gap :
        (up /\ g \in journal[r].gaps) ~> (~up \/ g \in disk[r].gaps)
=============================================================================
