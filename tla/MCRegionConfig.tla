----------------------------- MODULE MCRegionConfig -----------------------------
(* RegionConfig with an oblast, its raion and a region that comes and goes. *)
EXTENDS RegionConfigProofs

CONSTANTS oblast, raion

N(r, d) == [id |-> r, depth |-> d]

\* The walk over every answer of up to four nodes.
ASSUME WalkIsRight(4, 3)

\* The tree, the tree after a reform, and one that names a region twice.
MCAnswers ==
    {<<N(oblast, 1), N(raion, 2)>>,
     <<N(oblast, 1)>>,
     <<N(oblast, 1), N(raion, 2), N(oblast, 1)>>}
=============================================================================
