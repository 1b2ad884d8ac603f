------------------------------ MODULE RegionConfig ------------------------------
(***************************************************************************)
(* The regions the user monitors: chosen in a form over the region tree    *)
(* (config_flow.py, regions.py), kept in the config entry, completed by a   *)
(* background task that awaits the tree, and followed by reloading the      *)
(* entry, which builds a new coordinator and new entities (__init__.py).    *)
(***************************************************************************)
EXTENDS RegionTree, FiniteSets

CONSTANTS
    Forms,            \* open configuration dialogs
    Backfill,         \* the task _async_backfill_descendants
    Refresh,          \* the task async_refresh_region_cache
    Answers,          \* the trees that the proxy may answer with
    NoTree, NoEntry, Missing,
    MaxSubmits, MaxRestarts, MaxDays   \* bounds

Callers == Forms \cup {Backfill, Refresh}

ASSUME ConfigAssumption ==
    /\ Backfill \notin Forms /\ Refresh \notin Forms /\ Backfill # Refresh
    /\ NoTree \notin Answers
    /\ \A s \in SUBSET Regions : Missing # s
    /\ MaxSubmits \in Nat /\ MaxRestarts \in Nat /\ MaxDays \in Nat

ASSUME RawAssumption == \A t \in Answers : IsRaw(t)

\* The answers as validate_region_tree flattens them.
Tree == [t \in Answers |-> Flat(t)]

\* Regions as the entry keeps them; those of an old entry lack what is below.
Infos == [ancestors : SUBSET Regions, descendants : (SUBSET Regions) \cup {Missing}]

IsSelection(e) == DOMAIN e \subseteq Regions /\ \A r \in DOMAIN e : e[r] \in Infos

VARIABLES
    entry,       \* entry.data[CONF_REGIONS]: region -> info, or NoEntry
    phase,       \* of the entry's setup
    listening,   \* _async_reload_entry hears of updates
    reloads,     \* reloads that wait for the setup lock
    built,       \* the regions as the coordinator's constructor read them
    shown,       \* the regions that have entities
    registry,    \* the regions that have entries in the entity registry
    call,        \* per caller: where async_get_region_tree stands, with which tree
    options,     \* per form: what it offers
    captured,    \* the regions that the backfill was started with
    copy,        \* the tree on disk, or NoTree
    old,         \* the copy is a day old
    missed,      \* ghost: an update since the constructor that nobody heard of
    gaveUp,      \* ghost: the backfill of this setup found no tree
    stuck,       \* ghost: the last unload of this setup failed
    submits, restarts, days            \* bounded counters

entryVars == <<entry, reloads, missed>>
ghosts == <<gaveUp, stuck>>
setupVars == <<phase, listening, built, shown, registry>>
treeVars == <<copy, old>>
counters == <<submits, restarts, days>>
vars == <<entryVars, setupVars, call, options, captured, treeVars, ghosts, counters>>

Nothing == [r \in {} |-> {}]

Idle == [at |-> "idle", tree |-> NoTree]

Selection == IF entry = NoEntry THEN Nothing ELSE entry

\* Who awaits what of async_get_region_tree.
CallsOK ==
    /\ call \in [Callers -> [at : {"idle", "fetch", "copy", "save", "shown"},
                             tree : Answers \cup {NoTree}]]
    /\ \A c \in Callers : call[c].tree # NoTree <=> call[c].at \in {"save", "shown"}
    /\ \A c \in {Backfill, Refresh} :
          call[c] # Idle => call[c].at # "shown" /\ phase \in {"up", "unloading"}
    /\ captured # Nothing => call[Backfill] # Idle

TypeOK ==
    /\ CallsOK
    /\ entry # NoEntry => IsSelection(entry)
    /\ phase \in {"down", "restoring", "forwarding", "starting", "up", "unloading"}
    /\ listening \in BOOLEAN /\ (listening <=> phase \notin {"down", "restoring"})
    /\ reloads \in Nat
    /\ IsSelection(built) /\ IsSelection(captured)
    /\ shown \subseteq Regions /\ registry \subseteq Regions
    /\ options \in [Forms -> SUBSET Regions]
    /\ copy \in Answers \cup {NoTree} /\ old \in BOOLEAN
    /\ missed \in BOOLEAN /\ gaveUp \in BOOLEAN
    /\ stuck \in BOOLEAN /\ (stuck => phase \in {"up", "unloading"})
    /\ submits \in 0 .. MaxSubmits /\ restarts \in 0 .. MaxRestarts /\ days \in 0 .. MaxDays

\* An entry from before descendants were stored, or none yet.
LegacyEntries ==
    UNION {{[r \in s |-> [ancestors |-> Tree[t][r].ancestors, descendants |-> Missing]] :
                s \in (SUBSET DOMAIN Tree[t]) \ {{}}} : t \in {t \in Answers : Validates(t)}}

Init ==
    /\ entry \in LegacyEntries \cup {NoEntry}
    /\ phase = "down" /\ listening = FALSE /\ reloads = 0
    /\ built = Nothing /\ shown = {} /\ registry = DOMAIN Selection
    /\ call = [c \in Callers |-> Idle]
    /\ options = [f \in Forms |-> {}]
    /\ captured = Nothing
    /\ copy = NoTree /\ old = FALSE
    /\ missed = FALSE /\ gaveUp = FALSE /\ stuck = FALSE
    /\ submits = 0 /\ restarts = 0 /\ days = 0

-----------------------------------------------------------------------------
(* The entry.                                                              *)

\* Mutated form of Heard: an update is heard of once the setup is over.
HeardWhenUp == phase = "up"

\* The update listener is registered.
Heard == listening

\* async_update_entry: Home Assistant calls the update listener if the data
\* changed, and the listener asks for a reload.
Write(regions) ==
    /\ entry' = regions
    /\ reloads' = reloads + (IF Heard /\ regions # entry THEN 1 ELSE 0)
    /\ missed' = (missed \/ (phase = "restoring" /\ regions # entry))

\* _selected_regions
Chosen(flat, ids, stored) ==
    [r \in ids \cap (DOMAIN flat \cup DOMAIN stored) |->
        IF r \in DOMAIN flat THEN flat[r] ELSE stored[r]]

\* What _async_backfill_descendants writes.
Completed(flat, regions) ==
    [r \in DOMAIN regions |->
        [regions[r] EXCEPT !.descendants =
            IF r \in DOMAIN flat THEN flat[r].descendants ELSE {}]]

Offered(tree, regions) == DOMAIN Tree[tree] \cup DOMAIN regions

-----------------------------------------------------------------------------
(* async_get_region_tree, for its three kinds of caller.                   *)

\* The user opens the form (async_step_user, async_step_init).
OpenForm(f) ==
    /\ call[f].at = "idle" /\ submits < MaxSubmits
    /\ call' = [call EXCEPT ![f].at = "fetch"]
    /\ UNCHANGED <<entryVars, setupVars, options, captured, treeVars, ghosts, counters>>

\* The hourly look at the copy (async_refresh_region_cache).
RefreshTick ==
    /\ phase \in {"up", "unloading"} /\ call[Refresh].at = "idle"
    /\ copy = NoTree \/ old
    /\ call' = [call EXCEPT ![Refresh].at = "fetch"]
    /\ UNCHANGED <<entryVars, setupVars, options, captured, treeVars, ghosts, counters>>

\* The answer passes validation.
Believed(t) == Validates(t)

\* The proxy answers.
Answered(c, t) ==
    /\ call[c].at = "fetch"
    /\ call' = [call EXCEPT ![c] = IF Believed(t) THEN [at |-> "save", tree |-> t]
                                                  ELSE [at |-> "copy", tree |-> NoTree]]
    /\ UNCHANGED <<entryVars, setupVars, options, captured, treeVars, ghosts, counters>>

\* The proxy does not answer within 30 s.
Unanswered(c) ==
    /\ call[c].at = "fetch"
    /\ call' = [call EXCEPT ![c].at = "copy"]
    /\ UNCHANGED <<entryVars, setupVars, options, captured, treeVars, ghosts, counters>>

\* The caller goes on with a tree.
Deliver(c, t) ==
    \/ /\ c \in Forms
       /\ call' = [call EXCEPT ![c] = [at |-> "shown", tree |-> t]]
       /\ options' = [options EXCEPT ![c] = Offered(t, Selection)]
       /\ UNCHANGED <<entryVars, captured>>
    \/ /\ c = Backfill
       /\ Write(Completed(Tree[t], captured))
       /\ captured' = Nothing
       /\ call' = [call EXCEPT ![c] = Idle]
       /\ UNCHANGED options
    \/ /\ c = Refresh
       /\ call' = [call EXCEPT ![c] = Idle]
       /\ UNCHANGED <<entryVars, options, captured>>

\* The tree is saved, or the save fails and is logged.
Kept(c) ==
    /\ call[c].at = "save"
    /\ \/ copy' = call[c].tree /\ old' = FALSE
       \/ UNCHANGED treeVars
    /\ Deliver(c, call[c].tree)
    /\ UNCHANGED <<setupVars, ghosts, counters>>

\* The copy stands in for the proxy.
CopyUsed(c) ==
    /\ call[c].at = "copy" /\ copy # NoTree
    /\ Deliver(c, copy)
    /\ UNCHANGED <<setupVars, treeVars, ghosts, counters>>

\* There is no copy, or it cannot be read: the caller ends without a tree.
CopyMissing(c) ==
    /\ call[c].at = "copy"
    /\ call' = [call EXCEPT ![c] = Idle]
    /\ captured' = IF c = Backfill THEN Nothing ELSE captured
    /\ gaveUp' = (gaveUp \/ c = Backfill)
    /\ UNCHANGED <<entryVars, setupVars, options, treeVars, stuck, counters>>

-----------------------------------------------------------------------------
(* The dialogs.                                                            *)

\* The user submits a selection.  The first one creates the entry, and Home
\* Assistant sets it up; a second first one is aborted.
Submit(f, ids) ==
    /\ call[f].at = "shown" /\ submits < MaxSubmits
    /\ ids # {} /\ ids \subseteq options[f]
    /\ Write(Chosen(Tree[call[f].tree], ids, Selection))
    /\ call' = [call EXCEPT ![f] = Idle]
    /\ options' = [options EXCEPT ![f] = {}]
    /\ submits' = submits + 1
    /\ UNCHANGED <<setupVars, captured, treeVars, ghosts, restarts, days>>

\* An empty selection shows the form again, with what is stored by then.
SubmitNothing(f) ==
    /\ call[f].at = "shown" /\ entry # NoEntry
    /\ options' = [options EXCEPT ![f] = Offered(call[f].tree, entry)]
    /\ UNCHANGED <<entryVars, setupVars, call, captured, treeVars, ghosts, counters>>

-----------------------------------------------------------------------------
(* Setting the entry up and unloading it, under the entry's setup lock.    *)

\* async_setup_entry up to its first await: the coordinator is built.
Construct ==
    /\ phase = "down" /\ entry # NoEntry
    /\ phase' = "restoring"
    /\ built' = entry
    /\ missed' = FALSE /\ gaveUp' = FALSE
    /\ UNCHANGED <<entry, reloads, listening, shown, registry, call, options, captured,
                   treeVars, stuck, counters>>

\* _async_purge_deselected_regions
Purged == registry \cap DOMAIN entry

\* Map and journal are read: the update listener is registered, deselected
\* regions are purged.
Listen ==
    /\ phase = "restoring"
    /\ phase' = "forwarding" /\ listening' = TRUE
    /\ registry' = Purged
    /\ UNCHANGED <<entryVars, built, shown, call, options, captured, treeVars, ghosts, counters>>

\* async_forward_entry_setups: the platforms read the entry as it is now.
Forward ==
    /\ phase = "forwarding"
    /\ phase' = "starting"
    /\ shown' = DOMAIN entry
    /\ registry' = registry \cup DOMAIN entry
    /\ UNCHANGED <<entryVars, listening, built, call, options, captured, treeVars, ghosts,
                   counters>>

\* Mutated form of NeedsBackfill: one completed region counts for all.
NeedsBackfillAll(regions) ==
    regions # Nothing /\ \A r \in DOMAIN regions : regions[r].descendants = Missing

\* _async_schedule_descendant_backfill
NeedsBackfill(regions) == \E r \in DOMAIN regions : regions[r].descendants = Missing

Start ==
    /\ phase = "starting"
    /\ phase' = "up"
    /\ IF NeedsBackfill(entry)
       THEN /\ call' = [call EXCEPT ![Backfill].at = "fetch"]
            /\ captured' = entry
       ELSE UNCHANGED <<call, captured>>
    /\ UNCHANGED <<entryVars, listening, built, shown, registry, options, treeVars, ghosts,
                   counters>>

\* A reload gets the setup lock and starts to unload the platforms.
BeginReload ==
    /\ phase = "up" /\ reloads > 0
    /\ reloads' = reloads - 1
    /\ phase' = "unloading"
    /\ UNCHANGED <<entry, missed, listening, built, shown, registry, call, options, captured,
                   treeVars, ghosts, counters>>

\* Mutated form of Cancelled: the backfill outlives the entry's unload.
CancelledButBackfill == [call EXCEPT ![Refresh] = Idle]

\* The entry owns its background tasks.
Cancelled == [call EXCEPT ![Backfill] = Idle, ![Refresh] = Idle]

\* Mutated form of AfterUnload: stopping the transports never ends.
AfterUnloadStuck == phase

\* The entry can be set up again.
AfterUnload == "down"

\* Platforms unloaded, transports stopped and files written: listeners are gone,
\* background tasks cancelled.  The setup that follows in the same reload is
\* Construct.
EndUnload ==
    /\ phase = "unloading"
    /\ phase' = AfterUnload /\ listening' = FALSE
    /\ shown' = {} /\ stuck' = FALSE
    /\ call' = Cancelled
    /\ captured' = IF Cancelled[Backfill] = Idle THEN Nothing ELSE captured
    /\ UNCHANGED <<entryVars, built, registry, options, treeVars, gaveUp, counters>>

\* A platform does not unload and keeps its entities, or Home Assistant refuses a
\* reload after such a failure: the entry stays set up, with its listeners and its
\* tasks.
UnloadFails ==
    /\ phase = "unloading"
    /\ phase' = "up" /\ stuck' = TRUE
    /\ UNCHANGED <<entryVars, listening, built, shown, registry, call, options, captured,
                   treeVars, gaveUp, counters>>

\* The process ends and starts again; the entry and the registry are on disk.
Restart ==
    /\ restarts < MaxRestarts
    /\ restarts' = restarts + 1
    /\ phase' = "down" /\ listening' = FALSE /\ reloads' = 0
    /\ built' = Nothing /\ shown' = {} /\ missed' = FALSE /\ gaveUp' = FALSE
    /\ stuck' = FALSE
    /\ call' = [c \in Callers |-> Idle]
    /\ options' = [f \in Forms |-> {}]
    /\ captured' = Nothing
    /\ UNCHANGED <<entry, registry, treeVars, submits, days>>

\* The copy is a day old.
Day ==
    /\ days < MaxDays /\ copy # NoTree /\ ~old
    /\ days' = days + 1 /\ old' = TRUE
    /\ UNCHANGED <<entryVars, setupVars, call, options, captured, copy, ghosts, submits, restarts>>

-----------------------------------------------------------------------------

Setup == Construct \/ Listen \/ Forward \/ Start

Submits == \E f \in Forms, ids \in SUBSET Regions : Submit(f, ids)

TreeStep ==
    \E c \in Callers : \/ \E t \in Answers : Answered(c, t)
                       \/ Unanswered(c) \/ Kept(c) \/ CopyUsed(c) \/ CopyMissing(c)

Next ==
    \/ Setup \/ BeginReload \/ EndUnload \/ UnloadFails
    \/ TreeStep \/ RefreshTick
    \/ Submits \/ \E f \in Forms : OpenForm(f) \/ SubmitNothing(f)
    \/ Restart \/ Day

Spec == Init /\ [][Next]_vars

\* A setup goes on, a reload gets the lock, an unload that does not fail ends, a
\* request ends within its timeout; the user and the process owe nothing.
FairSpec == Spec /\ WF_vars(Setup) /\ WF_vars(BeginReload) /\ WF_vars(EndUnload)
                 /\ WF_vars(TreeStep)

-----------------------------------------------------------------------------
(* Properties.                                                             *)

\* The setup is over and no reload is due.
Settled == phase = "up" /\ reloads = 0

\* Once everything settled, the regions with entities, those in the registry and
\* the selected ones are the same, whichever writes raced with the setup; a failed
\* unload leaves the old setup behind.
RegistryFollows == Settled /\ ~stuck => registry = DOMAIN entry /\ shown = DOMAIN entry

\* Once everything settled, the coordinator was built from the entry as it is,
\* unless an update came after the constructor read the entry and before the
\* update listener was there (__init__.py:211-278).
HeardChangeIsBuilt == Settled /\ ~stuck /\ ~missed => built = entry

\* What a setup leaves behind agrees with the entry.
SetupFollowsEntry == RegistryFollows /\ HeardChangeIsBuilt

\* A region without descendants is being looked up, or the look-up of this
\* setup found no tree: a reload that cancels the look-up starts another.
LegacyEntryIsTried ==
    Settled /\ (\E r \in DOMAIN entry : entry[r].descendants = Missing)
        => call[Backfill] # Idle \/ gaveUp

\* The backfill replaces a selection by an older one only while a reload is due,
\* under way or has failed, never in a later setup: the entry owns the task.
UndoOnlyDuringReload ==
    [][entry # NoEntry /\ DOMAIN entry' # DOMAIN entry /\ ~Submits
          => reloads > 0 \/ phase = "unloading" \/ stuck]_vars

\* Whatever is written while, the reloads it asks for, also those whose unload
\* fails, end in a setup that is over (the setup lock, the update listener and the tasks do not chase each other).
ReloadsEnd == []<>(entry = NoEntry \/ Settled)

=============================================================================
