---------------------------- MODULE OfficialBackfill ----------------------------
(***************************************************************************)
(* Official history (coordinator.py, history.py): what the source tells of *)
(* the last months is read oldest first, chunk by chunk, into the journal. *)
(* A run may fail at any chunk and is resumed by a later one; the process  *)
(* may die between two writes of the journal.  Modelled for the monitored  *)
(* regions of one root, since each root has chunks of its own; time is in  *)
(* days.                                                                   *)
(***************************************************************************)
EXTENDS Integers, FiniteSetsExt

CONSTANTS
    Region,            \* regions of the root
    MAX_HISTORY_DAYS,  \* retention
    CHUNK,             \* days of one request
    OVERLAP,           \* days read again by a refresh
    REFRESH,           \* a region is complete if its cursor is younger
    MaxNow,            \* bound: the last day
    MaxCrashes         \* bound

ASSUME IntervalsAssumption ==
    /\ {MAX_HISTORY_DAYS, CHUNK, REFRESH} \subseteq Nat \ {0}
    /\ OVERLAP \in Nat
    /\ MaxNow \in Nat /\ MAX_HISTORY_DAYS =< MaxNow

ASSUME BoundsAssumption == MaxCrashes \in Nat

VARIABLES
    now,
    crashes,
    selected,  \* monitored regions of this run
    journal,   \* the official part of the journal, in memory
    disk,      \* and on disk
    run        \* the backfill task

vars == <<now, crashes, selected, journal, disk, run>>

None  == -1
Never == 0      \* no day is read before it is over
Day   == 0 .. MaxNow - 1
Created == MAX_HISTORY_DAYS   \* _created_at: the day of the first start

Journal == [cursor : [Region -> 0 .. MaxNow \cup {None}],   \* _cursors
            target : [Region -> 0 .. MaxNow \cup {None}],   \* _backfill_targets
            official : [Region -> Day \cup {None}],         \* _official_since
            since : [Region -> (Created .. MaxNow) \cup {None}],  \* _live_since
            read : [Region -> [Day -> 0 .. MaxNow]]]        \* when a day was merged last

Idle == [at |-> "idle"]

TypeOK ==
    /\ now \in MAX_HISTORY_DAYS .. MaxNow
    /\ crashes \in 0 .. MaxCrashes
    /\ selected \in SUBSET Region
    /\ journal \in Journal /\ disk \in Journal
    /\ \/ run = Idle
       \/ run \in [at : {"queued"}, asked : MAX_HISTORY_DAYS .. now]
       \/ /\ run \in [at : {"fetching", "flushing", "finishing"}, windows : SUBSET selected,
                      start : 0 .. now, target : 0 .. now]
          /\ run.start =< run.target

\* confirm: the feed tells of the selected regions from the day of the start on.
Watched(j, regions, today) ==
    [j EXCEPT !.since = [r \in Region |->
        IF r \in regions /\ @[r] = None THEN today ELSE @[r]]]

Init ==
    /\ now = MAX_HISTORY_DAYS
    /\ crashes = 0
    /\ selected \in (SUBSET Region) \ {{}}
    /\ journal = Watched([cursor |-> [r \in Region |-> None], target |-> [r \in Region |-> None],
                          official |-> [r \in Region |-> None],
                          since |-> [r \in Region |-> None],
                          read |-> [r \in Region |-> [d \in Day |-> Never]]], selected, now)
    /\ disk = journal
    /\ run = Idle

-----------------------------------------------------------------------------

\* cursor: nothing before the retention is asked for.
Cursor(r, today) == Max({today - MAX_HISTORY_DAYS, journal.cursor[r]})

\* An interrupted run of the region is not at its target yet.
Unfinished(r, today) == journal.target[r] # None /\ Cursor(r, today) < journal.target[r]

\* The region has something to read.
Due(r, today) == Unfinished(r, today) \/ Cursor(r, today) < today - REFRESH

\* backfill_window: the first and the last day to read.
Window(r, today) ==
    IF Unfinished(r, today) THEN [lo |-> Cursor(r, today), hi |-> journal.target[r]]
    ELSE [lo |-> Max({today - MAX_HISTORY_DAYS, Cursor(r, today) - OVERLAP}), hi |-> today]

\* Mutated form of Healed: a target that was reached stays.
Unhealed(r, today) == journal.target[r]

\* A target that was reached before the completion marker was written is dropped.
Healed(r, today) == IF Unfinished(r, today) THEN journal.target[r] ELSE None

\* Mutated form of First: where the last region has to begin.
FirstOfLast(windows, today) == Max({Window(r, today).lo : r \in windows})

\* The root is read from where the first of its regions has to begin.
First(windows, today) == Min({Window(r, today).lo : r \in windows})

\* async_backfill_history: the lock lets one run through.  Other roots may come first.
Start ==
    /\ run = Idle /\ selected # {}
    /\ run' = [at |-> "queued", asked |-> now]
    /\ UNCHANGED <<now, crashes, selected, journal, disk>>

\* The root's turn in _async_backfill_chunks.
OpenRoot ==
    /\ run.at = "queued"
    /\ LET today   == run.asked
           windows == {r \in selected : Due(r, today)}
           target  == Max({Window(r, today).hi : r \in windows})
       IN  /\ journal' = [journal EXCEPT !.target = [r \in Region |->
                 IF r \in windows THEN target
                 ELSE IF r \in selected THEN Healed(r, today) ELSE @[r]]]
           /\ run' = IF windows = {} THEN Idle
                     ELSE [at |-> "fetching", windows |-> windows,
                           start |-> First(windows, today), target |-> target]
    /\ UNCHANGED <<now, crashes, selected, disk>>

\* Mutated form of End: a whole chunk is always read.
EndOfChunk == run.start + CHUNK

End == Min({run.start + CHUNK, run.target})

\* Mutated form of Advanced: the cursor of every region is put to the chunk's end.
AdvancedTo(r, end) == end

\* advance_cursor
Advanced(r, end) == Max({journal.cursor[r], end})

\* merge_official moves the start of the region's official history.
Reaches(r, start) ==
    LET since == IF journal.official[r] = None THEN Created ELSE journal.official[r]
    IN  IF start < since THEN start ELSE journal.official[r]

\* A chunk arrives and is merged.
FetchOk ==
    /\ run.at = "fetching"
    /\ journal' = [journal EXCEPT
          !.read = [r \in Region |-> IF r \notin run.windows THEN @[r] ELSE
                       [d \in Day |-> IF run.start =< d /\ d < End THEN now ELSE @[r][d]]],
          !.official = [r \in Region |->
                           IF r \in run.windows THEN Reaches(r, run.start) ELSE @[r]],
          !.cursor = [r \in Region |-> IF r \in run.windows THEN Advanced(r, End) ELSE @[r]]]
    /\ run' = [run EXCEPT !.at = "flushing", !.start = End]
    /\ UNCHANGED <<now, crashes, selected, disk>>

\* The source fails: this root waits for the next run.
FetchFail ==
    /\ run.at = "fetching"
    /\ run' = Idle
    /\ UNCHANGED <<now, crashes, selected, journal, disk>>

\* What follows a write: the next chunk, the completion marker, or the end.
AfterWrite ==
    IF run.at = "finishing" THEN run' = Idle /\ UNCHANGED journal
    ELSE IF run.start < run.target
    THEN run' = [run EXCEPT !.at = "fetching"] /\ UNCHANGED journal
    ELSE /\ run' = [run EXCEPT !.at = "finishing"]
         /\ journal' = [journal EXCEPT !.target =
                           [r \in Region |-> IF r \in run.windows THEN None ELSE @[r]]]

\* async_flush_history succeeds, or leaves the journal to the next attempt.
FlushOk ==
    /\ run.at \in {"flushing", "finishing"}
    /\ disk' = journal
    /\ AfterWrite
    /\ UNCHANGED <<now, crashes, selected>>

FlushFail ==
    /\ run.at \in {"flushing", "finishing"}
    /\ AfterWrite
    /\ UNCHANGED <<now, crashes, selected, disk>>

\* The journal is written on a timer of its own, too.
PeriodicFlush ==
    /\ disk # journal
    /\ disk' = journal
    /\ UNCHANGED <<now, crashes, selected, journal, run>>

\* A power failure, or a reload after the selection was changed.
Restart ==
    /\ crashes < MaxCrashes
    /\ crashes' = crashes + 1
    /\ selected' \in (SUBSET Region) \ {{}}
    /\ journal' = Watched(disk, selected', now)
    /\ run' = Idle
    /\ UNCHANGED <<now, disk>>

Tick ==
    /\ now < MaxNow
    /\ now' = now + 1
    /\ UNCHANGED <<crashes, selected, journal, disk, run>>

Next ==
    \/ Start \/ OpenRoot \/ FetchOk \/ FetchFail \/ FlushOk \/ FlushFail \/ PeriodicFlush
    \/ Restart \/ Tick

Spec == Init /\ [][Next]_vars

\* The job is scheduled every hour and its steps end; a source that is asked again
\* and again answers in the end, and so does the disk.
FairSpec ==
    /\ Spec
    /\ WF_vars(Start) /\ WF_vars(OpenRoot) /\ WF_vars(FlushOk \/ FlushFail)
    /\ SF_vars(FetchOk) /\ SF_vars(PeriodicFlush)

-----------------------------------------------------------------------------
(* Properties *)

\* No day is passed over: every retained day behind a cursor was read after it was
\* over, in memory and on disk, whatever was interrupted and which regions came and
\* went.
NothingSkipped ==
    \A j \in {journal, disk}, r \in Region, d \in Day :
        now - MAX_HISTORY_DAYS =< d /\ d < j.cursor[r] => j.read[r][d] > d

\* README: "successful chunks are not requested again".  What is on disk does not
\* go back, also when a region with an older cursor is read along.
ProgressIsKept == [][\A r \in Region : disk'.cursor[r] >= disk.cursor[r]]_vars

\* An interrupted history is completed in the end, and its marker is cleared, also
\* if the process died just before that.
CatchesUp ==
    <>[](\A r \in selected : /\ journal.cursor[r] >= now - REFRESH
                             /\ disk.cursor[r] >= now - REFRESH
                             /\ journal.target[r] = None)

\* _window's floor: where the journal's coverage of a region begins.
Floor(r) == Min({journal.since[r], journal.official[r], Created} \ {None})

\* history.py:727, "Share of the time the journal covers, so a gap or a late start
\* does not read as quiet time": a covered day was watched or read.
CoveredIsKnown ==
    \A r \in selected, d \in Day :
        now - MAX_HISTORY_DAYS =< d /\ d < now /\ Floor(r) =< d
            => journal.since[r] =< d \/ journal.read[r][d] > d
=============================================================================
