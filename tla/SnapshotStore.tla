----------------------------- MODULE SnapshotStore -----------------------------
(***************************************************************************)
(* The map on disk (coordinator.py): it is written on a timer and when     *)
(* Home Assistant stops, stamped with the time a transport confirmed it    *)
(* last, and shown after a restart if that was not long ago.               *)
(***************************************************************************)
EXTENDS Integers

CONSTANTS
    Maps, NoMap,
    SAVE_DELAY_SECONDS,       \* a confirmation younger than this is not written anew
    RESTORE_MAX_AGE_SECONDS,  \* an older map is not shown again
    MaxNow, MaxCrashes, MaxJumps   \* bounds

ASSUME StoreAssumption ==
    /\ NoMap \notin Maps /\ NoMap \notin [map : Maps, at : 0 .. MaxNow]
    /\ SAVE_DELAY_SECONDS \in Nat \ {0} /\ RESTORE_MAX_AGE_SECONDS \in Nat
    /\ MaxNow \in Nat /\ MaxCrashes \in Nat /\ MaxJumps \in Nat

VARIABLES
    now,       \* wall clock
    jumps,     \* how often it was set
    crashes,   \* how often the process ended
    phase,     \* of the process; "stopping" until the last write, "closing" during it
    data,      \* the map, or NoMap
    pushed,    \* last_push, or None
    saved,     \* _saved_active and _saved_confirmed, or NoMap
    saving,    \* what the write that async_save_now awaits took, or NoMap
    disk,      \* the file, or NoMap
    liveAt     \* ghost: the maps that transports delivered at a time

vars == <<now, jumps, crashes, phase, data, pushed, saved, saving, disk, liveAt>>

None == -1
Time == 0 .. MaxNow

Saved == [map : Maps, at : Time]

TypeOK ==
    /\ now \in Time /\ jumps \in 0 .. MaxJumps /\ crashes \in 0 .. MaxCrashes
    /\ phase \in {"up", "stopping", "closing", "down"}
    /\ data \in Maps \cup {NoMap}
    /\ pushed \in Time \cup {None} /\ (pushed # None => data # NoMap)
    /\ {saved, saving, disk} \subseteq Saved \cup {NoMap}
    /\ (phase = "closing" => saving # NoMap)
    /\ liveAt \in [Time -> SUBSET Maps]

Init ==
    /\ now \in Time /\ jumps = 0 /\ crashes = 0
    /\ phase = "up"
    /\ data = NoMap /\ pushed = None
    /\ saved = NoMap /\ saving = NoMap /\ disk = NoMap
    /\ liveAt = [t \in Time |-> {}]

-----------------------------------------------------------------------------

\* A transport delivers a map (handle_snapshot).
Push(m) ==
    /\ phase = "up"
    /\ data' = m /\ pushed' = now
    /\ liveAt' = [liveAt EXCEPT ![now] = @ \cup {m}]
    /\ UNCHANGED <<now, jumps, crashes, phase, saved, saving, disk>>

\* Mutated form of NeedsSave: only the time of the last write counts.
NeedsSaveByAge ==
    /\ pushed # None
    /\ saved # NoMap => pushed - saved.at \notin 0 .. SAVE_DELAY_SECONDS - 1

\* There is a map that a transport confirmed, and it or its confirmation is news.
NeedsSave ==
    /\ pushed # None
    /\ ~ /\ saved # NoMap
         /\ saved.map = data
         /\ pushed - saved.at \in 0 .. SAVE_DELAY_SECONDS - 1

\* What a write takes before it awaits the disk.
Captured == [map |-> data, at |-> pushed]

\* async_save_now, up to the write; the lock lets one through.
SaveBegin ==
    /\ phase \in {"up", "stopping"} /\ saving = NoMap /\ NeedsSave
    /\ saving' = Captured
    /\ UNCHANGED <<now, jumps, crashes, phase, data, pushed, saved, disk, liveAt>>

\* Mutated form of AfterWrite: a stop waits for ever.
AfterWriteWait == phase

\* A stop is over with its write.
AfterWrite == IF phase = "closing" THEN "down" ELSE phase

\* Mutated form of Written: the map is stamped when it is written.
WrittenNow == [saving EXCEPT !.at = now]

\* The file's new content.
Written == saving

\* Mutated form of Remembered: the current map is taken for the written one.
RememberedCurrent == Captured

\* _saved_active, _saved_confirmed after a write.
Remembered == saving

SaveOk ==
    /\ saving # NoMap
    /\ disk' = Written
    /\ saved' = Remembered
    /\ saving' = NoMap
    /\ phase' = AfterWrite
    /\ UNCHANGED <<now, jumps, crashes, data, pushed, liveAt>>

SaveFail ==
    /\ saving # NoMap
    /\ saving' = NoMap
    /\ phase' = AfterWrite
    /\ UNCHANGED <<now, jumps, crashes, data, pushed, saved, disk, liveAt>>

\* _async_save_on_stop, async_unload_entry: no transport delivers any more.
Stop ==
    /\ phase = "up"
    /\ phase' = "stopping"
    /\ UNCHANGED <<now, jumps, crashes, data, pushed, saved, saving, disk, liveAt>>

\* Their async_save_now waits for a write under way.
LastSave ==
    /\ phase = "stopping" /\ saving = NoMap
    /\ IF NeedsSave THEN phase' = "closing" /\ saving' = Captured
       ELSE phase' = "down" /\ UNCHANGED saving
    /\ UNCHANGED <<now, jumps, crashes, data, pushed, saved, disk, liveAt>>

\* The power fails; a write under way has replaced the file or not.
Crash ==
    /\ phase # "down" /\ crashes < MaxCrashes
    /\ phase' = "down"
    /\ crashes' = crashes + 1
    /\ disk' \in {disk} \cup (IF saving = NoMap THEN {} ELSE {Written})
    /\ saving' = NoMap
    /\ UNCHANGED <<now, jumps, data, pushed, saved, liveAt>>

\* The file is damaged while the process is down.
Damage ==
    /\ phase = "down" /\ disk # NoMap
    /\ disk' = NoMap
    /\ UNCHANGED <<now, jumps, crashes, phase, data, pushed, saved, saving, liveAt>>

\* async_restore accepts a map of a plausible age.
Restorable == disk # NoMap /\ now - disk.at \in 0 .. RESTORE_MAX_AGE_SECONDS

\* A new process; last_push stays unset.
Restart ==
    /\ phase = "down"
    /\ phase' = "up"
    /\ data' = IF Restorable THEN disk.map ELSE NoMap
    /\ pushed' = None /\ saved' = NoMap /\ saving' = NoMap
    /\ UNCHANGED <<now, jumps, crashes, disk, liveAt>>

Tick ==
    /\ now < MaxNow
    /\ now' = now + 1
    /\ UNCHANGED <<jumps, crashes, phase, data, pushed, saved, saving, disk, liveAt>>

\* The clock is set.
SetClock ==
    /\ jumps < MaxJumps
    /\ jumps' = jumps + 1
    /\ now' \in Time \ {now}
    /\ UNCHANGED <<crashes, phase, data, pushed, saved, saving, disk, liveAt>>

Next ==
    \/ \E m \in Maps : Push(m)
    \/ SaveBegin \/ SaveOk \/ SaveFail \/ Stop \/ LastSave
    \/ Crash \/ Damage \/ Restart \/ Tick \/ SetClock

Spec == Init /\ [][Next]_vars

\* The save runs on a fixed interval, never after a pause in the pushes; a disk that
\* is written to again and again takes it in the end.
FairSpec == Spec /\ WF_vars(SaveBegin) /\ SF_vars(SaveOk)

-----------------------------------------------------------------------------
(* Properties *)

\* The map on disk was the live one at the time it is stamped with: restoring,
\* restarting or writing does not renew it ("would never expire it"), and a push
\* during a write does not lend it its stamp.
DiskTellsTheTruth == disk # NoMap => disk.map \in liveAt[disk.at]

\* A restart shows only a map that was live within RESTORE_MAX_AGE_SECONDS.
RestoredIsRecent ==
    [][phase = "down" /\ phase' = "up" /\ data' # NoMap =>
          \E t \in Time : /\ now - t \in 0 .. RESTORE_MAX_AGE_SECONDS
                          /\ data' \in liveAt[t]]_vars

\* A map that stays is on disk in the end, also if it came while another one was
\* being written; and while the map changes before every write is done, the writes
\* go on ("nothing ever reached the disk", which a save after a pause would risk).
EveryMapIsSaved ==
    /\ \A m \in Maps :
          <>[](phase = "up" /\ data = m /\ pushed # None)
              => <>[](disk # NoMap /\ disk.map = m)
    /\ <>[](phase = "up" /\ NeedsSave) => []<><<SaveOk>>_vars

\* A stop that ends without a failed write leaves the last map on disk.
CleanStopKeepsTheMap ==
    [][/\ phase \in {"stopping", "closing"} /\ phase' = "down" /\ crashes' = crashes
       /\ pushed # None /\ (disk' = saving \/ saving = NoMap)
       => disk'.map = data /\ pushed - disk'.at < SAVE_DELAY_SECONDS]_vars
=============================================================================
