---------------------------- MODULE JournalWindow ----------------------------
(***************************************************************************)
(* What the journal answers for a window of time (_window): the quality it *)
(* gives the answer, and the short gaps it takes for watched because no     *)
(* alert began or ended at or across them (_unbridged_gaps).  The official  *)
(* history and the caps, which the answer also reads, are RegionHistory's.  *)
(***************************************************************************)
EXTENDS AlertJournal, FiniteSets

CONSTANT Bridgeable     \* BRIDGEABLE_GAP_SECONDS, in units

ASSUME BridgeAssumption == Bridgeable \in Nat

\* When an alert began or ended; an episode ends where its last unit does.
Edges(e) ==
    {u \in Time : u = e.started \/ ((u \in e.alerts) # (u - 1 \in e.alerts))}

\* Mutated form of Quiet: an alert that is first seen after the gap is no edge.
QuietInside(e, g) == \A t \in Edges(e) : ~(g.lo < t /\ t < g.hi)

\* No edge at or across the gap; one at its start is the last confirmed state.
Quiet(e, g) == \A t \in Edges(e) : ~(g.lo < t /\ t <= g.hi)

\* Mutated form of Short: a gap of any length is bridged.
ShortAny(g) == TRUE

Short(g) == g.hi - g.lo <= Bridgeable

Bridged(e, g) == Short(g) /\ Quiet(e, g)

\* _unbridged_gaps, and the one that is open.
Uncertain(e) ==
    {g \in e.gaps : ~Bridged(e, g)} \cup
    (IF e.open = None THEN {} ELSE {[lo |-> e.open, hi |-> now]})

\* _window calls its answer from lo until now complete: no other quality applies.
Complete(r, lo) ==
    LET e == journal[r]
    IN  /\ e.since # None /\ e.since <= lo
        /\ e.open = None /\ r \notin resync
        /\ e.confirmed <= now
        /\ \A g \in Uncertain(e) : g.hi <= lo \/ now < g.lo

\* The units from lo until now in a gap that counts, and those of an alert.
GapUnits(r, lo) ==
    (lo .. now - 1) \cap UNION {Between(g.lo, g.hi) : g \in Uncertain(journal[r])}

AlertUnits(r, lo) == (lo .. now - 1) \cap AlertTold(r)

\* covered_seconds of a window that begins after the live feed was first seen.
Covered(r, lo) == now - lo - Cardinality(GapUnits(r, lo))

-----------------------------------------------------------------------------

\* Unit u was seen as it is told for another one.
SeenAsTold(r, u, told) == u \in IF told \in AlertTold(r) THEN alertSeen[r] ELSE quietSeen[r]

\* An answer that is called complete leaves nothing out but short gaps, and tells of
\* those what was seen right after them: all else that was confirmed in its window
\* was watched, and is told as it was seen, whatever was lost in crashes and failed
\* writes (history.py:861, "the state on both sides was the same").
CompleteIsWatched ==
    \A r \in Region : \A lo \in 0 .. now - 1 :
        Complete(r, lo) =>
            \A u \in lo .. journal[r].confirmed - 1 :
                \/ SeenAsTold(r, u, u)
                \/ \E g \in journal[r].gaps :
                       /\ g.lo <= u /\ u < g.hi /\ g.hi - g.lo <= Bridgeable
                       /\ g.hi \in Claimed(r) => SeenAsTold(r, g.hi, u)

\* The percentage of a day or a month (_period) is a share of the covered time
\* (history.py:727, "Share of the time the journal covers"), so the alerts it
\* counts lie in that time.
ShareIsAShare ==
    \A r \in Region : \A lo \in 0 .. now - 1 :
        journal[r].since \in 0 .. lo /\ Covered(r, lo) > 0 =>
            Cardinality(AlertUnits(r, lo)) <= Covered(r, lo)
=============================================================================
