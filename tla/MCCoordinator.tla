---------------------------- MODULE MCCoordinator ----------------------------
(* Coordinator for an oblast, a hromada below it, and a region elsewhere.  *)
EXTENDS Coordinator

MCPlace       == {"oblast", "hromada", "elsewhere"}
MCRegion      == {"oblast", "hromada"}
MCAncestors   == [oblast |-> {}, hromada |-> {"oblast"}]
MCDescendants == [oblast |-> {"hromada"}, hromada |-> {}]
MCThreat      == {"AIR", "ARTILLERY"}

Declared(by, type, at, levels) == [by |-> by, type |-> type, declared |-> at, levels |-> levels]
Air(by, levels) == Declared(by, "AIR", 1, levels)

NamesGiven == [p \in MCPlace |-> "given"]

MapOf(above, below, n) ==
    [alerts |-> [oblast |-> {Air("oblast", l) : l \in above}, hromada |-> below,
                 elsewhere |-> {}], names |-> n]

\* An alert of the hromada's own that may be declared again, one that was declared
\* elsewhere, and a name that changes; and air alerts of the oblast with every kind
\* of level, of which the hromada may hold a copy that knows more.
MCMaps ==
    {MapOf({}, below, n) :
        below \in {{}, {Declared("hromada", "ARTILLERY", 1, {})},
                   {Declared("hromada", "ARTILLERY", 2, {})}, {Air("elsewhere", {})}},
        n \in {NamesGiven, [NamesGiven EXCEPT !["hromada"] = "other"]}}
    \union {MapOf(above, below, NamesGiven) :
        above \in {{{}}, {{"yellow"}}, {{"red"}}},
        below \in {{}, {Air("oblast", {"red"})}}}
=============================================================================
