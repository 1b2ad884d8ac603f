------------------------------- MODULE RegionTree -------------------------------
(***************************************************************************)
(* The region tree that the public proxy answers with (regions.py): oblast,*)
(* raion, hromada.  A tree is the preorder sequence of its nodes, each with *)
(* its id and its depth, which says the same as the nested lists.          *)
(***************************************************************************)
EXTENDS Integers, SequencesExt

CONSTANTS
    Regions,          \* region ids
    NoId,             \* an id that cannot be used: missing, blank, of a wrong type
    MAX_TREE_DEPTH

ASSUME TreeAssumption == NoId \notin Regions /\ MAX_TREE_DEPTH \in Nat \ {0}

-----------------------------------------------------------------------------

\* The node does not make validate_region_tree raise; w is what the walk has so far.
Acceptable(w, node) ==
    /\ node.id \in Regions
    /\ node.id \notin DOMAIN w.ancestors
    /\ node.depth <= MAX_TREE_DEPTH

\* The ids on the path that leads to the node.
Above(path, node) == SubSeq(path, 1, node.depth - 1)

\* One call of walk.
Visit(w, node) ==
    LET above == Above(w.path, node)
    IN  IF w.ok /\ Acceptable(w, node)
        THEN [ok |-> TRUE,
              path |-> Append(above, node.id),
              ancestors |-> [r \in DOMAIN w.ancestors \cup {node.id} |->
                                IF r = node.id THEN ToSet(above) ELSE w.ancestors[r]]]
        ELSE [w EXCEPT !.ok = FALSE]

Walk(t) ==
    FoldLeft(Visit, [ok |-> TRUE, path |-> <<>>, ancestors |-> [r \in {} |-> {}]], t)

\* validate_region_tree returns, and what it returns.
Validates(t) == Walk(t).ok /\ t # <<>>

Flat(t) ==
    LET anc == Walk(t).ancestors
    IN  [r \in DOMAIN anc |->
            [ancestors |-> anc[r], descendants |-> {d \in DOMAIN anc : r \in anc[d]}]]

-----------------------------------------------------------------------------

\* The same without a walk: the nodes that a node is nested in.
Encloses(t, i, j) == i < j /\ \A k \in i + 1 .. j : t[k].depth > t[i].depth

WellFormed(t) ==
    /\ t # <<>>
    /\ \A i \in DOMAIN t : t[i].id \in Regions /\ t[i].depth <= MAX_TREE_DEPTH
    /\ \A i, j \in DOMAIN t : t[i].id = t[j].id => i = j

TreeOf(t) ==
    [r \in {t[i].id : i \in DOMAIN t} |->
        LET at == CHOOSE i \in DOMAIN t : t[i].id = r
        IN  [ancestors |-> {t[i].id : i \in {k \in DOMAIN t : Encloses(t, k, at)}},
             descendants |-> {t[i].id : i \in {k \in DOMAIN t : Encloses(t, at, k)}}]]

\* What the lists of a JSON answer can be: a child follows its parent, one level
\* deeper; up to n nodes and depth d.
Node == [id : Regions \cup {NoId}, depth : Nat \ {0}]

IsRaw(t) ==
    /\ t \in Seq(Node)
    /\ \A i \in DOMAIN t : t[i].depth <= IF i = 1 THEN 1 ELSE t[i - 1].depth + 1

RawTrees(n, d) ==
    {t \in UNION {[1 .. k -> [id : Regions \cup {NoId}, depth : 1 .. d]] : k \in 0 .. n} :
        IsRaw(t)}

\* The walk accepts exactly the trees that are usable as a whole, and finds for
\* every region what is above and below it.
WalkIsRight(n, d) ==
    \A t \in RawTrees(n, d) :
        /\ Validates(t) <=> WellFormed(t)
        /\ Validates(t) => Flat(t) = TreeOf(t)
=============================================================================
