-------------------------- MODULE SnapshotStoreProofs --------------------------
(* What is proved about the map on disk. *)
EXTENDS SnapshotStore, TLAPS

\* Whatever carries a stamp was live at that time: the file, the write under way, and
\* the map that the next write would take.
Stamped ==
    /\ disk # NoMap => disk.map \in liveAt[disk.at]
    /\ saving # NoMap => saving.map \in liveAt[saving.at]
    /\ pushed # None => data \in liveAt[pushed]

\* What the process remembers as written is on disk, and the last write takes the
\* last map.
Remembers ==
    /\ phase # "down" /\ saved # NoMap => disk = saved
    /\ phase = "closing" => saving = Captured

Inv == TypeOK /\ Stamped /\ Remembers

LEMMA InvInit == Init => Inv
  BY StoreAssumption DEF Init, Inv, TypeOK, Stamped, Remembers, Time, None, Saved

LEMMA CapturedIsSaved ==
  ASSUME TypeOK, NeedsSave PROVE Captured \in Saved /\ Captured # NoMap
  BY StoreAssumption DEF TypeOK, NeedsSave, Captured, Saved, Time, None

LEMMA PushInv == ASSUME Inv, NEW m \in Maps, Push(m) PROVE Inv'
  <1> USE StoreAssumption DEF Inv, Push, Time, None, Saved
  <1>1. TypeOK'
    BY DEF TypeOK
  <1>2. \A t \in Time : liveAt[t] \subseteq liveAt'[t]
    BY DEF TypeOK
  <1>3. data' \in liveAt'[pushed']
    BY DEF TypeOK
  <1>4. Stamped'
    BY <1>2, <1>3 DEF Stamped, TypeOK
  <1>5. Remembers'
    BY DEF Remembers
  <1> QED BY <1>1, <1>4, <1>5

LEMMA WriteBeginInv == Inv /\ (SaveBegin \/ LastSave) => Inv'
  <1> SUFFICES ASSUME Inv, SaveBegin \/ LastSave PROVE Inv'
    OBVIOUS
  <1> USE StoreAssumption DEF Inv
  <1>1. CASE ~NeedsSave
    BY <1>1 DEF SaveBegin, LastSave, TypeOK, Stamped, Remembers, Captured, Time, None, Saved
  <1>2. CASE NeedsSave
    <2>1. NeedsSave /\ saving' = Captured
      BY <1>2 DEF SaveBegin, LastSave
    <2>2. Captured \in Saved /\ Captured # NoMap
      BY <2>1, CapturedIsSaved
    <2>3. TypeOK'
      BY <2>1, <2>2 DEF SaveBegin, LastSave, TypeOK
    <2>4. Stamped'
      BY <2>1, <2>2 DEF SaveBegin, LastSave, Stamped, NeedsSave, Captured
    <2>5. Remembers'
      BY <2>1 DEF SaveBegin, LastSave, Remembers, Captured
    <2> QED BY <2>3, <2>4, <2>5
  <1> QED BY <1>1, <1>2

LEMMA WriteEndInv == Inv /\ (SaveOk \/ SaveFail) => Inv'
  <1> SUFFICES ASSUME Inv, SaveOk \/ SaveFail PROVE Inv'
    OBVIOUS
  <1> USE StoreAssumption DEF Inv, SaveOk, SaveFail, Written, Remembered, AfterWrite
  <1>1. TypeOK'
    BY DEF TypeOK, Time, None, Saved
  <1>2. Stamped'
    BY DEF Stamped
  <1>3. Remembers'
    BY DEF Remembers, Captured, TypeOK
  <1> QED BY <1>1, <1>2, <1>3

LEMMA ProcessInv == Inv /\ (Stop \/ Crash \/ Damage \/ Restart) => Inv'
  <1> SUFFICES ASSUME Inv, Stop \/ Crash \/ Damage \/ Restart PROVE Inv'
    OBVIOUS
  <1> USE StoreAssumption DEF Inv
  <1>1. CASE Stop
    BY <1>1 DEF Stop, TypeOK, Stamped, Remembers, Captured
  <1>2. CASE Crash
    BY <1>2 DEF Crash, Written, TypeOK, Stamped, Remembers, Captured, Saved
  <1>3. CASE Damage
    BY <1>3 DEF Damage, TypeOK, Stamped, Remembers, Captured, Saved
  <1>4. CASE Restart
    BY <1>4 DEF Restart, Restorable, TypeOK, Stamped, Remembers, Saved, None
  <1> QED BY <1>1, <1>2, <1>3, <1>4

LEMMA ClockInv == Inv /\ (Tick \/ SetClock) => Inv'
  BY StoreAssumption DEF Inv, Tick, SetClock, TypeOK, Stamped, Remembers, Captured, Time

LEMMA InvNext == Inv /\ [Next]_vars => Inv'
  <1> SUFFICES ASSUME Inv, [Next]_vars PROVE Inv'
    OBVIOUS
  <1>1. CASE UNCHANGED vars
    BY <1>1 DEF Inv, vars, TypeOK, Stamped, Remembers, Captured
  <1>2. CASE \E m \in Maps : Push(m)
    BY <1>2, PushInv
  <1>3. CASE SaveBegin \/ LastSave
    BY <1>3, WriteBeginInv
  <1>4. CASE SaveOk \/ SaveFail
    BY <1>4, WriteEndInv
  <1>5. CASE Stop \/ Crash \/ Damage \/ Restart
    BY <1>5, ProcessInv
  <1>6. CASE Tick \/ SetClock
    BY <1>6, ClockInv
  <1> QED BY <1>1, <1>2, <1>3, <1>4, <1>5, <1>6 DEF Next

LEMMA Invariance == Spec => []Inv
  BY InvInit, InvNext, PTL DEF Spec

-----------------------------------------------------------------------------

\* Types and phases of the saving process (coordinator.py: async_save_now).
THEOREM TypeCorrect == Spec => []TypeOK
  <1>1. Inv => TypeOK
    BY DEF Inv
  <1> QED BY <1>1, Invariance, PTL

\* The stamp on disk is the time at which the map was live, for every interval, number
\* of crashes, failed writes and settings of the clock.
THEOREM DiskTruth == Spec => []DiskTellsTheTruth
  <1>1. Inv => DiskTellsTheTruth
    BY DEF Inv, Stamped, DiskTellsTheTruth
  <1> QED BY <1>1, Invariance, PTL

\* A restart shows no map that was live too long ago (async_restore).
THEOREM RestoreRecent == Spec => RestoredIsRecent
  <1>1. Inv /\ [Next]_vars =>
          [phase = "down" /\ phase' = "up" /\ data' # NoMap =>
              \E t \in Time : /\ now - t \in 0 .. RESTORE_MAX_AGE_SECONDS
                              /\ data' \in liveAt[t]]_vars
    <2> SUFFICES ASSUME Inv, Next, phase = "down", phase' = "up", data' # NoMap
                 PROVE  \E t \in Time : /\ now - t \in 0 .. RESTORE_MAX_AGE_SECONDS
                                        /\ data' \in liveAt[t]
      OBVIOUS
    <2>1. Restart
      BY DEF Next, Push, SaveBegin, SaveOk, SaveFail, Stop, LastSave, Crash, Damage, Tick,
             SetClock, AfterWrite, Inv, TypeOK
    <2>2. Restorable /\ data' = disk.map
      BY <2>1 DEF Restart
    <2>3. disk \in Saved /\ disk # NoMap
      BY <2>2 DEF Inv, TypeOK, Restorable
    <2>4. disk.at \in Time
      BY <2>3 DEF Saved
    <2> QED BY <2>2, <2>3, <2>4 DEF Restorable, Inv, Stamped
  <1> QED BY <1>1, Invariance, PTL DEF Spec, RestoredIsRecent

\* What a stop leaves on disk if its write succeeds (_async_save_on_stop).
THEOREM CleanStop == Spec => CleanStopKeepsTheMap
  <1>1. Inv /\ [Next]_vars =>
          [/\ phase \in {"stopping", "closing"} /\ phase' = "down" /\ crashes' = crashes
           /\ pushed # None /\ (disk' = saving \/ saving = NoMap)
           => disk'.map = data /\ pushed - disk'.at < SAVE_DELAY_SECONDS]_vars
    <2> SUFFICES ASSUME Inv, Next, phase \in {"stopping", "closing"}, phase' = "down",
                        crashes' = crashes, pushed # None, disk' = saving \/ saving = NoMap
                 PROVE  disk'.map = data /\ pushed - disk'.at < SAVE_DELAY_SECONDS
      OBVIOUS
    <2>1. ~Crash
      BY DEF Crash, Inv, TypeOK
    <2>2. CASE phase = "closing"
      <3>1. disk' = Captured
        BY <2>2 DEF Inv, Remembers, TypeOK
      <3> QED BY <3>1, StoreAssumption DEF Captured, Inv, TypeOK, Time
    <2>3. CASE phase = "stopping"
      <3>1. LastSave /\ ~NeedsSave
        BY <2>1, <2>3 DEF Next, Push, SaveBegin, SaveOk, SaveFail, Stop, LastSave, Damage,
                          Restart, Tick, SetClock, AfterWrite
      <3>2. disk' = saved /\ saved # NoMap
        BY <2>3, <3>1 DEF LastSave, NeedsSave, Inv, Remembers
      <3>3. saved.map = data /\ pushed - saved.at \in 0 .. SAVE_DELAY_SECONDS - 1
        BY <3>1 DEF NeedsSave
      <3> QED BY <3>2, <3>3, StoreAssumption
    <2> QED BY <2>2, <2>3
  <1> QED BY <1>1, Invariance, PTL DEF Spec, CleanStopKeepsTheMap
=============================================================================
