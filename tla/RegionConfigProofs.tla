-------------------------- MODULE RegionConfigProofs --------------------------
(***************************************************************************)
(* For every region tree, number of dialogs, writes, reloads and restarts: *)
(* a write that the update listener hears of leaves a reload behind, and    *)
(* until that reload has run nothing is claimed of the setup.  A write      *)
(* that it cannot hear of comes before the purge and the platforms, which   *)
(* read the entry as it is then.  Before that, the walk over an answer: by *)
(* induction on its nodes, what it has found, and the path it is on.        *)
(***************************************************************************)
EXTENDS RegionConfig, WellFoundedInduction, TLAPS

\* Only an entry is set up.
SetUpIsEntry == phase # "down" => IsSelection(entry)

\* Between the purge and the platforms no region is left over.
PurgedIsClean == phase = "forwarding" /\ reloads = 0 => registry \subseteq DOMAIN entry

\* The platforms read the entry as it is.
EntitiesFollow ==
    phase \in {"starting", "up"} /\ reloads = 0 /\ ~stuck
        => registry = DOMAIN entry /\ shown = DOMAIN entry

\* The coordinator's copy is the entry, or an update is due or was missed.
BuiltFollows ==
    phase \in {"restoring", "forwarding", "starting", "up"} /\ reloads = 0 /\ ~stuck /\ ~missed
        => built = entry

\* The backfill completes the selection that is monitored.
CapturedFollows ==
    phase = "up" /\ reloads = 0 /\ ~stuck /\ call[Backfill] # Idle
        => DOMAIN captured = DOMAIN entry

\* Some region was never completed.
Lacks(e) == \E r \in DOMAIN e : e[r].descendants = Missing

\* Also while reloads are due or an unload is under way, which may fail.
TriedWhileUp ==
    phase \in {"up", "unloading"} /\ Lacks(entry) => call[Backfill] # Idle \/ gaveUp

IInv ==
    /\ TypeOK
    /\ SetUpIsEntry
    /\ PurgedIsClean
    /\ EntitiesFollow
    /\ BuiltFollows
    /\ CapturedFollows
    /\ TriedWhileUp

-----------------------------------------------------------------------------
(* The walk of validate_region_tree, over answers of every size and depth.  *)

\* Regions with what is above and below them.
IsFlat(e) ==
    /\ DOMAIN e \subseteq Regions
    /\ \A r \in DOMAIN e : e[r] \in [ancestors : SUBSET Regions, descendants : SUBSET Regions]

Less == {p \in Nat \X Nat : p[1] < p[2]}

\* A set of naturals has a least member.
LEMMA Least ==
    ASSUME NEW S, S \subseteq Nat, S # {}
    PROVE  \E x \in S : \A y \in S : x <= y
<1>1. IsWellFoundedOn(Less, Nat)
  BY NatLessThanWellFounded DEF OpToRel, Less
<1>2. PICK x \in S : \A y \in S : ~(<<y, x>> \in Less)
  BY <1>1, WFMin
<1>3. ASSUME NEW y \in S PROVE x <= y
  <2>1. x \in Nat /\ y \in Nat
    BY <1>2
  <2>2. <<y, x>> \in Less <=> y < x
    BY <2>1 DEF Less
  <2> QED
    BY <1>2, <2>1, <2>2
<1> QED
  BY <1>2, <1>3

\* What holds of 0 and of the next of each holds of all.
LEMMA Upwards ==
    ASSUME NEW S, 0 \in S, \A k \in Nat : k \in S => k + 1 \in S
    PROVE  \A k \in Nat : k \in S
<1> DEFINE Bad == {k \in Nat : k \notin S}
<1> SUFFICES ASSUME Bad # {} PROVE FALSE
  OBVIOUS
<1>1. PICK b \in Bad : \A y \in Bad : b <= y
  <2>1. Bad \subseteq Nat
    OBVIOUS
  <2> HIDE DEF Bad
  <2> QED
    BY <2>1, Least
<1>2. b \in Nat /\ b # 0
  BY <1>1
<1>3. b - 1 \in Nat /\ b - 1 \notin Bad
  BY <1>1, <1>2
<1>4. b - 1 \in S /\ (b - 1) + 1 = b
  BY <1>2, <1>3
<1> QED
  BY <1>1, <1>3, <1>4

-----------------------------------------------------------------------------

\* What the walk starts with.
Base == [ok |-> TRUE, path |-> <<>>, ancestors |-> [r \in {} |-> {}]]

\* g is the walk over each subset of the first k nodes.
IsFold(t, g, k) ==
    g = [s \in SUBSET (1 .. k) |->
            IF s = {} THEN Base ELSE Visit(g[s \ {Max(s)}], t[Max(s)])]

\* The fold takes the last node of a prefix off.
LEMMA LastOf ==
    ASSUME NEW k \in Nat, NEW s, s \subseteq 1 .. k, k \in s PROVE Max(s) = k
<1>1. \A y \in s : k >= y
  OBVIOUS
<1>2. \A x \in s : (\A y \in s : x >= y) => x = k
  BY <1>1
<1> QED
  BY <1>1, <1>2 DEF Max

\* What folds the first k nodes extends to one more; so the walk, a CHOOSE in the
\* definition of FoldLeft, chooses a function that exists.
LEMMA OneMore ==
    ASSUME NEW t, NEW k \in Nat, NEW g, IsFold(t, g, k) PROVE \E h : IsFold(t, h, k + 1)
<1> DEFINE h == [s \in SUBSET (1 .. k + 1) |->
                    IF s \subseteq 1 .. k THEN g[s] ELSE Visit(g[s \ {k + 1}], t[k + 1])]
<1>1. ASSUME NEW s \in SUBSET (1 .. k + 1)
      PROVE  h[s] = IF s = {} THEN Base ELSE Visit(h[s \ {Max(s)}], t[Max(s)])
  <2>1. CASE s \subseteq 1 .. k
    <3>1. h[s] = g[s] /\ h[s \ {Max(s)}] = g[s \ {Max(s)}]
      BY <2>1
    <3>2. g[s] = IF s = {} THEN Base ELSE Visit(g[s \ {Max(s)}], t[Max(s)])
      BY <2>1 DEF IsFold
    <3> QED
      BY <3>1, <3>2
  <2>2. CASE ~(s \subseteq 1 .. k)
    <3>1. k + 1 \in s /\ s \ {k + 1} \subseteq 1 .. k
      BY <2>2
    <3>2. Max(s) = k + 1
      <4>1. k + 1 \in Nat /\ s \subseteq 1 .. k + 1
        OBVIOUS
      <4> QED
        BY <3>1, <4>1, LastOf
    <3>3. h[s] = Visit(g[s \ {k + 1}], t[k + 1]) /\ h[s \ {k + 1}] = g[s \ {k + 1}]
      BY <2>2, <3>1
    <3> QED
      BY <3>1, <3>2, <3>3
  <2> QED
    BY <2>1, <2>2
<1>2. h = [s \in SUBSET (1 .. k + 1) |-> h[s]]
  OBVIOUS
<1> HIDE DEF h
<1>3. IsFold(t, h, k + 1)
  BY <1>1, <1>2, Zenon DEF IsFold
<1> QED
  BY <1>3

\* However many nodes there are.
LEMMA FoldExists == ASSUME NEW t PROVE \A k \in Nat : \E g : IsFold(t, g, k)
<1> DEFINE S == {k \in Nat : \E g : IsFold(t, g, k)}
<1>1. 0 \in S
  <2> DEFINE g == [s \in SUBSET (1 .. 0) |-> Base]
  <2>1. g = [s \in SUBSET (1 .. 0) |->
               IF s = {} THEN Base ELSE Visit(g[s \ {Max(s)}], t[Max(s)])]
    OBVIOUS
  <2> HIDE DEF g
  <2>2. IsFold(t, g, 0)
    BY <2>1, Zenon DEF IsFold
  <2> QED
    BY <2>2
<1>2. ASSUME NEW k \in Nat, k \in S PROVE k + 1 \in S
  BY <1>2, OneMore
<1> HIDE DEF S
<1>3. \A k \in Nat : k \in S
  BY <1>1, <1>2, Upwards
<1> QED
  BY <1>3 DEF S

\* The walk, node by node.
LEMMA WalkSteps ==
    ASSUME NEW n \in Nat, NEW t, DOMAIN t = 1 .. n
    PROVE  \E w : /\ w[0] = Base
                  /\ \A k \in 1 .. n : w[k] = Visit(w[k - 1], t[k])
                  /\ Walk(t) = w[n]
<1> DEFINE f == CHOOSE f : f = [s \in SUBSET DOMAIN t |->
                      IF s = {} THEN Base ELSE Visit(f[s \ {Max(s)}], t[Max(s)])]
           w == [k \in 0 .. n |-> f[1 .. k]]
<1>1. Walk(t) = f[DOMAIN t]
  BY DEF Walk, FoldLeft, MapThenFoldSet, Base
<1>2. \E g : g = [s \in SUBSET DOMAIN t |->
                      IF s = {} THEN Base ELSE Visit(g[s \ {Max(s)}], t[Max(s)])]
  <2>1. PICK g : IsFold(t, g, n)
    BY FoldExists
  <2>2. g = [s \in SUBSET DOMAIN t |->
                      IF s = {} THEN Base ELSE Visit(g[s \ {Max(s)}], t[Max(s)])]
    BY <2>1 DEF IsFold
  <2> QED
    BY <2>2
<1>3. f = [s \in SUBSET DOMAIN t |->
                      IF s = {} THEN Base ELSE Visit(f[s \ {Max(s)}], t[Max(s)])]
  BY <1>2
<1> HIDE DEF f
<1>4. \A s \in SUBSET (1 .. n) :
         f[s] = IF s = {} THEN Base ELSE Visit(f[s \ {Max(s)}], t[Max(s)])
  BY <1>3
<1>5. w[0] = Base
  <2>1. 1 .. 0 = {} /\ 1 .. 0 \in SUBSET (1 .. n) /\ 0 \in 0 .. n
    OBVIOUS
  <2>2. f[{}] = Base
    BY <1>4
  <2> QED
    BY <2>1, <2>2
<1>6. ASSUME NEW k \in 1 .. n PROVE w[k] = Visit(w[k - 1], t[k])
  <2>1. 1 .. k \in SUBSET (1 .. n) /\ k \in 1 .. k /\ (1 .. k) \ {k} = 1 .. k - 1
    OBVIOUS
  <2>2. Max(1 .. k) = k
    BY <2>1, LastOf
  <2>3. f[1 .. k] = Visit(f[1 .. k - 1], t[k])
    BY <1>4, <2>1, <2>2
  <2> QED
    BY <2>3
<1>7. Walk(t) = w[n]
  BY <1>1
<1> HIDE DEF w
<1> QED
  BY <1>5, <1>6, <1>7

-----------------------------------------------------------------------------

\* The first k nodes are usable.
Usable(t, k) ==
    /\ \A i \in 1 .. k : t[i].id \in Regions /\ t[i].depth <= MAX_TREE_DEPTH
    /\ \A i, j \in 1 .. k : t[i].id = t[j].id => i = j

\* Node i is on the path to node k.
Leads(t, i, k) == i = k \/ Encloses(t, i, k)

\* The ids of the first k nodes that node j is nested in.
Enclosing(t, k, j) == {t[i].id : i \in {m \in 1 .. k : Encloses(t, m, j)}}

\* What the walk has found after k nodes, if it accepted them: what is above each, and
\* the path to the last one, which has a node of every depth.
Found(t, v, k) ==
    /\ \A j \in 1 .. k : v.ancestors[t[j].id] = Enclosing(t, k, j)
    /\ Len(v.path) = IF k = 0 THEN 0 ELSE t[k].depth
    /\ \A d \in 1 .. Len(v.path) :
           \E i \in 1 .. k : Leads(t, i, k) /\ t[i].depth = d /\ v.path[d] = t[i].id

\* What the walk has after k nodes, accepted or not.
Walked(t, v, k) ==
    /\ DOMAIN v = {"ok", "path", "ancestors"} /\ v.ok \in BOOLEAN
    /\ v.ok <=> Usable(t, k)
    /\ v.path \in Seq(Regions)
    /\ DOMAIN v.ancestors \subseteq Regions
    /\ \A r \in DOMAIN v.ancestors : v.ancestors[r] \subseteq Regions
    /\ v.ok => DOMAIN v.ancestors = {t[i].id : i \in 1 .. k} /\ Found(t, v, k)

\* A node's id and depth, and how deep it may follow the one before.
LEMMA NodeFields ==
    ASSUME NEW t, IsRaw(t), NEW i \in DOMAIN t
    PROVE  /\ t[i].id \in Regions \cup {NoId} /\ t[i].depth \in Nat \ {0}
           /\ i = 1 => t[i].depth = 1
           /\ i # 1 => t[i].depth <= t[i - 1].depth + 1
<1>1. t[i] \in Node
  BY DEF IsRaw
<1>2. t[i].depth <= IF i = 1 THEN 1 ELSE t[i - 1].depth + 1
  BY DEF IsRaw
<1>3. t[i].id \in Regions \cup {NoId} /\ t[i].depth \in Nat \ {0}
  BY <1>1 DEF Node
<1> QED
  BY <1>2, <1>3

\* Of the nodes that lead to one, no two are of the same depth.
LEMMA OneOfADepth ==
    ASSUME NEW t, NEW k \in Nat, NEW i \in 1 .. k, NEW j \in 1 .. k, Leads(t, i, k), Leads(t, j, k),
           \A m \in 1 .. k : t[m].depth \in Nat, t[i].depth = t[j].depth
    PROVE  i = j
<1>1. i < j => j \in i + 1 .. k /\ i # k
  OBVIOUS
<1>2. j < i => i \in j + 1 .. k /\ j # k
  OBVIOUS
<1>3. ~(i < j)
  BY <1>1 DEF Leads, Encloses
<1>4. ~(j < i)
  BY <1>2 DEF Leads, Encloses
<1> QED
  BY <1>3, <1>4

\* What leads to a node leads to the next, if that is deeper.
LEMMA LeadsOn ==
    ASSUME NEW t, NEW k \in Nat, NEW i \in 1 .. k
    PROVE  Encloses(t, i, k + 1) <=> Leads(t, i, k) /\ t[k + 1].depth > t[i].depth
<1>1. i + 1 .. k + 1 = (i + 1 .. k) \cup {k + 1}
  OBVIOUS
<1>2. i = k => i + 1 .. k = {}
  OBVIOUS
<1>3. i # k => i < k
  OBVIOUS
<1> QED
  BY <1>1, <1>2, <1>3 DEF Encloses, Leads

\* The path is cut to what is above the node.
LEMMA AboveFacts ==
    ASSUME NEW p \in Seq(Regions), NEW node, node.depth \in Nat \ {0}, node.depth - 1 <= Len(p)
    PROVE  /\ Above(p, node) \in Seq(Regions) /\ Len(Above(p, node)) = node.depth - 1
           /\ \A d \in 1 .. node.depth - 1 : Above(p, node)[d] = p[d]
BY DEF Above

\* A node that is accepted.
LEMMA AcceptedNode ==
    ASSUME NEW n \in Nat, NEW t, IsRaw(t), DOMAIN t = 1 .. n, NEW k \in 0 .. n - 1, NEW v, Walked(t, v, k),
           v.ok, Acceptable(v, t[k + 1])
    PROVE  Walked(t, Visit(v, t[k + 1]), k + 1)
<1> DEFINE node == t[k + 1]
           above == Above(v.path, node)
           x == Visit(v, node)
<1>1. /\ k \in Nat /\ k + 1 \in DOMAIN t /\ k + 1 \in 1 .. n
      /\ \A m \in 1 .. k + 1 : t[m].depth \in Nat \ {0} /\ t[m].id \in Regions \cup {NoId}
  BY NodeFields
<1>2. /\ DOMAIN v.ancestors = {t[i].id : i \in 1 .. k} /\ Found(t, v, k) /\ Usable(t, k)
      /\ v.path \in Seq(Regions)
  BY DEF Walked
<1>3. node.id \in Regions /\ node.id \notin DOMAIN v.ancestors /\ node.depth <= MAX_TREE_DEPTH
  BY DEF Acceptable
<1>4. node.depth \in Nat \ {0} /\ node.depth - 1 <= Len(v.path)
  <2>1. CASE k = 0
    BY <1>1, <1>2, <2>1, NodeFields DEF Found
  <2>2. CASE k # 0
    <3>1. Len(v.path) = t[k].depth /\ t[k].depth \in Nat
      BY <1>1, <1>2, <2>2 DEF Found
    <3>2. k + 1 # 1 /\ (k + 1) - 1 = k
      BY <1>1, <2>2
    <3>3. node.depth <= t[k].depth + 1
      BY <1>1, <3>2, NodeFields
    <3> QED
      BY <1>1, <3>1, <3>3
  <2> QED
    BY <2>1, <2>2
<1>5. /\ above \in Seq(Regions) /\ Len(above) = node.depth - 1
      /\ \A d \in 1 .. node.depth - 1 : above[d] = v.path[d]
  BY <1>2, <1>4, AboveFacts
<1>6. /\ DOMAIN x = {"ok", "path", "ancestors"} /\ x.ok = TRUE
      /\ x.path = Append(above, node.id)
      /\ x.ancestors = [r \in DOMAIN v.ancestors \cup {node.id} |->
                           IF r = node.id THEN ToSet(above) ELSE v.ancestors[r]]
  BY DEF Visit
<1> HIDE DEF x, above
<1>7. /\ x.path \in Seq(Regions) /\ Len(x.path) = node.depth /\ x.path[node.depth] = node.id
      /\ \A d \in 1 .. node.depth - 1 : x.path[d] = v.path[d]
  BY <1>3, <1>4, <1>5, <1>6
<1>8. ToSet(above) = {v.path[d] : d \in 1 .. node.depth - 1}
  <2>1. DOMAIN above = 1 .. node.depth - 1
    BY <1>4, <1>5
  <2>2. ToSet(above) = {above[d] : d \in 1 .. node.depth - 1}
    BY <2>1 DEF ToSet
  <2> QED
    BY <1>5, <2>2
<1>9. Usable(t, k + 1)
  <2>1. 1 .. k + 1 = (1 .. k) \cup {k + 1}
    BY <1>1
  <2>2. \A i \in 1 .. k : t[i].id # node.id
    BY <1>2, <1>3
  <2> QED
    BY <1>2, <1>3, <2>1, <2>2 DEF Usable
<1>10. \A d \in 1 .. node.depth - 1 : \E i \in 1 .. k :
          Leads(t, i, k) /\ t[i].depth = d /\ v.path[d] = t[i].id
  <2>1. \A d \in 1 .. node.depth - 1 : d \in 1 .. Len(v.path)
    BY <1>2, <1>4
  <2> QED
    BY <1>2, <2>1 DEF Found
<1>11. ToSet(above) = Enclosing(t, k + 1, k + 1)
  <2>1. ASSUME NEW d \in 1 .. node.depth - 1
        PROVE  v.path[d] \in Enclosing(t, k + 1, k + 1)
    <3>1. PICK i \in 1 .. k : Leads(t, i, k) /\ t[i].depth = d /\ v.path[d] = t[i].id
      BY <1>10
    <3>2. t[k + 1].depth > t[i].depth
      BY <1>4, <3>1
    <3>3. Encloses(t, i, k + 1)
      BY <1>1, <3>1, <3>2, LeadsOn
    <3>4. i \in 1 .. k + 1
      BY <1>1
    <3> QED
      BY <3>1, <3>3, <3>4 DEF Enclosing
  <2>2. ASSUME NEW i \in 1 .. k + 1, Encloses(t, i, k + 1)
        PROVE  t[i].id \in {v.path[d] : d \in 1 .. node.depth - 1}
    <3>1. i \in 1 .. k
      BY <1>1, <2>2 DEF Encloses
    <3>2. Leads(t, i, k) /\ t[k + 1].depth > t[i].depth
      BY <1>1, <2>2, <3>1, LeadsOn
    <3>3. t[i].depth \in 1 .. node.depth - 1
      BY <1>1, <1>4, <3>1, <3>2
    <3>4. PICK j \in 1 .. k : Leads(t, j, k) /\ t[j].depth = t[i].depth /\ v.path[t[i].depth] = t[j].id
      BY <1>10, <3>3
    <3>5. k \in Nat /\ (\A m \in 1 .. k : t[m].depth \in Nat)
      BY <1>1
    <3>6. Leads(t, i, k) /\ Leads(t, j, k) /\ t[i].depth = t[j].depth
      BY <3>2, <3>4
    <3>7. i = j
      BY <3>1, <3>5, <3>6, OneOfADepth
    <3> QED
      BY <3>3, <3>4, <3>7
  <2> QED
    BY <1>8, <2>1, <2>2 DEF Enclosing
<1>12. \A j \in 1 .. k : Enclosing(t, k + 1, j) = Enclosing(t, k, j)
  <2>1. \A j \in 1 .. k : \A m \in 1 .. k + 1 : Encloses(t, m, j) => m \in 1 .. k
    BY <1>1 DEF Encloses
  <2>2. 1 .. k \subseteq 1 .. k + 1
    BY <1>1
  <2> QED
    BY <2>1, <2>2 DEF Enclosing
<1>13. \A j \in 1 .. k + 1 : x.ancestors[t[j].id] = Enclosing(t, k + 1, j)
  <2>1. ASSUME NEW j \in 1 .. k PROVE x.ancestors[t[j].id] = Enclosing(t, k + 1, j)
    <3>1. t[j].id \in DOMAIN v.ancestors /\ t[j].id # node.id
      BY <1>2, <1>3
    <3>2. x.ancestors[t[j].id] = v.ancestors[t[j].id]
      BY <1>6, <3>1
    <3> QED
      BY <1>2, <1>12, <3>2 DEF Found
  <2>2. x.ancestors[node.id] = Enclosing(t, k + 1, k + 1)
    BY <1>6, <1>11
  <2>3. 1 .. k + 1 = (1 .. k) \cup {k + 1}
    BY <1>1
  <2> QED
    BY <2>1, <2>2, <2>3
<1>14. ASSUME NEW d \in 1 .. Len(x.path)
       PROVE  \E i \in 1 .. k + 1 : Leads(t, i, k + 1) /\ t[i].depth = d /\ x.path[d] = t[i].id
  <2>1. CASE d = node.depth
    <3>1. Leads(t, k + 1, k + 1) /\ k + 1 \in 1 .. k + 1
      BY <1>1 DEF Leads
    <3> QED
      BY <1>7, <2>1, <3>1
  <2>2. CASE d # node.depth
    <3>1. d \in 1 .. node.depth - 1
      BY <1>4, <1>7, <2>2
    <3>2. PICK i \in 1 .. k : Leads(t, i, k) /\ t[i].depth = d /\ v.path[d] = t[i].id
      BY <1>10, <3>1
    <3>3. t[k + 1].depth > t[i].depth
      BY <1>4, <3>1, <3>2
    <3>4. Encloses(t, i, k + 1)
      BY <1>1, <3>2, <3>3, LeadsOn
    <3>5. i \in 1 .. k + 1
      BY <1>1
    <3> QED
      BY <1>7, <3>1, <3>2, <3>4, <3>5 DEF Leads
  <2> QED
    BY <2>1, <2>2
<1>15. DOMAIN x.ancestors = {t[i].id : i \in 1 .. k + 1}
  <2>1. 1 .. k + 1 = (1 .. k) \cup {k + 1}
    BY <1>1
  <2>2. {t[i].id : i \in 1 .. k + 1} = {t[i].id : i \in 1 .. k} \cup {node.id}
    BY <2>1
  <2>3. DOMAIN x.ancestors = DOMAIN v.ancestors \cup {node.id}
    BY <1>6
  <2> QED
    BY <1>2, <2>2, <2>3
<1>16. /\ DOMAIN x.ancestors \subseteq Regions
       /\ \A r \in DOMAIN x.ancestors : x.ancestors[r] \subseteq Regions
  <2>1. ToSet(above) \subseteq Regions
    BY <1>5 DEF ToSet
  <2> QED
    BY <1>3, <1>6, <2>1 DEF Walked
<1>17. Found(t, x, k + 1)
  BY <1>1, <1>7, <1>13, <1>14 DEF Found
<1> QED
  BY <1>6, <1>7, <1>9, <1>15, <1>16, <1>17 DEF Walked, x

\* A node that makes validate_region_tree raise.
LEMMA RejectedNode ==
    ASSUME NEW n \in Nat, NEW t, IsRaw(t), DOMAIN t = 1 .. n, NEW k \in 0 .. n - 1, NEW v, Walked(t, v, k),
           ~(v.ok /\ Acceptable(v, t[k + 1]))
    PROVE  Walked(t, Visit(v, t[k + 1]), k + 1)
<1>1. k \in Nat /\ 1 .. k \subseteq 1 .. k + 1 /\ k + 1 \in 1 .. k + 1 /\ k + 1 \notin 1 .. k
  OBVIOUS
<1>2. Visit(v, t[k + 1]) = [v EXCEPT !.ok = FALSE]
  BY DEF Visit
<1>3. ~Usable(t, k + 1)
  <2>1. CASE ~v.ok
    BY <1>1, <2>1 DEF Walked, Usable
  <2>2. CASE v.ok
    <3>1. \/ t[k + 1].id \notin Regions
          \/ \E i \in 1 .. k : t[i].id = t[k + 1].id
          \/ ~(t[k + 1].depth <= MAX_TREE_DEPTH)
      BY <2>2 DEF Acceptable, Walked
    <3> QED
      BY <1>1, <3>1 DEF Usable
  <2> QED
    BY <2>1, <2>2 DEF Walked
<1> QED
  BY <1>2, <1>3 DEF Walked

\* Node by node, over the whole answer.
LEMMA WalkedAll ==
    ASSUME NEW t, IsRaw(t) PROVE Walked(t, Walk(t), Len(t))
<1>1. PICK n \in Nat : DOMAIN t = 1 .. n /\ n = Len(t)
  BY DEF IsRaw
<1>2. PICK w : w[0] = Base /\ (\A k \in 1 .. n : w[k] = Visit(w[k - 1], t[k])) /\ Walk(t) = w[n]
  BY <1>1, WalkSteps
<1> DEFINE S == {k \in Nat : k <= n => Walked(t, w[k], k)}
<1>3. 0 \in S
  <2>1. 1 .. 0 = {}
    OBVIOUS
  <2>2. Walked(t, Base, 0)
    BY <2>1 DEF Walked, Usable, Found, Base
  <2> QED
    BY <1>2, <2>2
<1>4. ASSUME NEW k \in Nat, k \in S PROVE k + 1 \in S
  <2> SUFFICES ASSUME k + 1 <= n PROVE Walked(t, w[k + 1], k + 1)
    OBVIOUS
  <2>1. k \in 0 .. n - 1 /\ Walked(t, w[k], k) /\ k + 1 \in 1 .. n /\ (k + 1) - 1 = k
    BY <1>1, <1>4
  <2>2. w[k + 1] = Visit(w[k], t[k + 1])
    BY <1>2, <2>1
  <2> QED
    BY <1>1, <2>1, <2>2, AcceptedNode, RejectedNode
<1> HIDE DEF S
<1>5. n \in S
  BY <1>3, <1>4, Upwards
<1> QED
  BY <1>1, <1>2, <1>5 DEF S

\* Whatever a walk accepts or not, it flattens to regions.
LEMMA FlatOfRaw == ASSUME NEW t, IsRaw(t) PROVE IsFlat(Flat(t))
BY WalkedAll DEF Walked, Flat, IsFlat

\* Usable to the last node is usable as a whole.
LEMMA UsableIsWellFormed ==
    ASSUME NEW t, IsRaw(t), t # <<>> PROVE Usable(t, Len(t)) <=> WellFormed(t)
<1>1. DOMAIN t = 1 .. Len(t)
  BY DEF IsRaw
<1> QED
  BY <1>1 DEF Usable, WellFormed

\* validate_region_tree accepts a tree exactly if all of it is usable, and finds for
\* every region what is above and below it, for trees of every size and depth.
THEOREM WalkIsAlwaysRight ==
    ASSUME NEW t, IsRaw(t)
    PROVE  (Validates(t) <=> WellFormed(t)) /\ (Validates(t) => Flat(t) = TreeOf(t))
<1> DEFINE n == Len(t)
           v == Walk(t)
<1>1. Walked(t, v, n) /\ n \in Nat /\ DOMAIN t = 1 .. n
  BY WalkedAll DEF IsRaw
<1>2. Validates(t) <=> WellFormed(t)
  BY <1>1, UsableIsWellFormed DEF Validates, Walked, WellFormed
<1>3. ASSUME Validates(t) PROVE Flat(t) = TreeOf(t)
  <2>1. v.ok /\ DOMAIN v.ancestors = {t[i].id : i \in DOMAIN t} /\ Found(t, v, n) /\ Usable(t, n)
    BY <1>1, <1>3 DEF Validates, Walked
  <2> HIDE DEF v
  <2> DEFINE anc == v.ancestors
  <2>2. \A j \in DOMAIN t : anc[t[j].id] = {t[i].id : i \in {k \in DOMAIN t : Encloses(t, k, j)}}
    BY <1>1, <2>1 DEF Found, Enclosing
  <2>3. \A i, j \in DOMAIN t : t[i].id = t[j].id => i = j
    BY <1>1, <2>1 DEF Usable
  <2>4. Flat(t) = [r \in DOMAIN anc |->
            [ancestors |-> anc[r], descendants |-> {d \in DOMAIN anc : r \in anc[d]}]]
    BY DEF Flat, v
  <2>5. ASSUME NEW a \in DOMAIN t
        PROVE  {d \in DOMAIN anc : t[a].id \in anc[d]}
                 = {t[i].id : i \in {k \in DOMAIN t : Encloses(t, a, k)}}
    <3>1. ASSUME NEW j \in DOMAIN t PROVE t[a].id \in anc[t[j].id] <=> Encloses(t, a, j)
      BY <2>2, <2>3
    <3> QED
      BY <2>1, <3>1
  <2>6. ASSUME NEW r \in DOMAIN anc
        PROVE  [ancestors |-> anc[r], descendants |-> {d \in DOMAIN anc : r \in anc[d]}] = TreeOf(t)[r]
    <3> DEFINE at == CHOOSE i \in DOMAIN t : t[i].id = r
    <3>1. at \in DOMAIN t /\ t[at].id = r
      BY <2>1
    <3>2. TreeOf(t)[r] =
            [ancestors |-> {t[i].id : i \in {k \in DOMAIN t : Encloses(t, k, at)}},
             descendants |-> {t[i].id : i \in {k \in DOMAIN t : Encloses(t, at, k)}}]
      BY <2>1 DEF TreeOf
    <3> HIDE DEF at
    <3> QED
      BY <2>2, <2>5, <3>1, <3>2
  <2>7. DOMAIN TreeOf(t) = DOMAIN anc /\ TreeOf(t) = [r \in DOMAIN TreeOf(t) |-> TreeOf(t)[r]]
    BY <2>1 DEF TreeOf
  <2> QED
    BY <2>4, <2>6, <2>7
<1> QED
  BY <1>2, <1>3

\* What TLC compares over small answers holds over all.
COROLLARY EveryWalkIsRight == \A n, d \in Nat : WalkIsRight(n, d)
BY WalkIsAlwaysRight DEF WalkIsRight, RawTrees

\* The answers of an instance, flattened, name its regions.
LEMMA TreeIsFlat == \A t \in Answers : IsFlat(Tree[t])
BY RawAssumption, FlatOfRaw DEF Tree

-----------------------------------------------------------------------------

\* A submitted selection is one, from whichever tree the form was filled.
LEMMA ChosenIsSelection ==
    ASSUME NEW t \in Answers, NEW ids, NEW e, IsSelection(e)
    PROVE  IsSelection(Chosen(Tree[t], ids, e))
<1>1. IsFlat(Tree[t])
  BY TreeIsFlat
<1> QED
  BY <1>1, IsSelection(e) DEF Chosen, IsSelection, IsFlat, Infos

\* The backfill keeps the regions it was started with and completes each.
LEMMA CompletedIsComplete ==
    ASSUME NEW t \in Answers, NEW e, IsSelection(e)
    PROVE  /\ IsSelection(Completed(Tree[t], e))
           /\ DOMAIN Completed(Tree[t], e) = DOMAIN e
           /\ \A r \in DOMAIN e : Completed(Tree[t], e)[r].descendants # Missing
<1>1. IsFlat(Tree[t])
  BY TreeIsFlat
<1>2. ASSUME NEW r \in DOMAIN e
      PROVE  /\ Completed(Tree[t], e)[r] \in [ancestors : SUBSET Regions, descendants : SUBSET Regions]
  BY <1>1, <1>2, IsSelection(e) DEF Completed, IsSelection, IsFlat, Infos
<1>3. DOMAIN Completed(Tree[t], e) = DOMAIN e
  BY DEF Completed
<1>4. IsSelection(Completed(Tree[t], e))
  BY <1>2, <1>3, IsSelection(e) DEF IsSelection, Infos
<1>5. \A r \in DOMAIN e : Completed(Tree[t], e)[r].descendants # Missing
  BY <1>2, ConfigAssumption
<1> QED
  BY <1>3, <1>4, <1>5

\* A choice from a tree lacks only what the entry lacked before.
LEMMA ChosenLacksNoMore ==
    ASSUME NEW t \in Answers, NEW ids, NEW e, Lacks(Chosen(Tree[t], ids, e))
    PROVE  Lacks(e)
<1>1. IsFlat(Tree[t])
  BY TreeIsFlat
<1>2. PICK r \in DOMAIN Chosen(Tree[t], ids, e) :
          Chosen(Tree[t], ids, e)[r].descendants = Missing
  BY DEF Lacks
<1>3. r \notin DOMAIN Tree[t]
  <2> SUFFICES ASSUME r \in DOMAIN Tree[t] PROVE FALSE
    OBVIOUS
  <2>1. Tree[t][r].descendants = Missing
    BY <1>2 DEF Chosen
  <2>2. Tree[t][r].descendants \in SUBSET Regions
    BY <1>1 DEF IsFlat
  <2> QED
    BY <2>1, <2>2, ConfigAssumption
<1> QED
  BY <1>2, <1>3 DEF Chosen, Lacks

LEMMA NothingIsSelection == IsSelection(Nothing) /\ DOMAIN Nothing = {}
BY DEF IsSelection, Nothing

LEMMA SelectionIsSelection == TypeOK => IsSelection(Selection)
BY NothingIsSelection DEF TypeOK, Selection

LEMMA InvInit == Init => IInv
<1> SUFFICES ASSUME Init PROVE IInv
  OBVIOUS
<1>1. entry # NoEntry => IsSelection(entry)
  <2> SUFFICES ASSUME entry # NoEntry PROVE IsSelection(entry)
    OBVIOUS
  <2>1. PICK t \in Answers : \E s \in SUBSET (DOMAIN Tree[t]) :
          entry = [r \in s |-> [ancestors |-> Tree[t][r].ancestors, descendants |-> Missing]]
    BY DEF Init, LegacyEntries
  <2>2. IsFlat(Tree[t])
    BY TreeIsFlat
  <2> QED
    BY <2>1, <2>2 DEF IsSelection, IsFlat, Infos
<1>2. DOMAIN Selection \subseteq Regions
  BY <1>1, NothingIsSelection DEF Selection, IsSelection
<1>3. CallsOK
  BY ConfigAssumption DEF CallsOK, Init, Idle, Callers
<1>4. TypeOK
  <2>1. IsSelection(built) /\ IsSelection(captured)
    BY NothingIsSelection DEF Init
  <2>2. shown \subseteq Regions /\ registry \subseteq Regions
    BY <1>2 DEF Init
  <2>3. options \in [Forms -> SUBSET Regions]
    BY DEF Init
  <2>4. /\ phase \in {"down", "restoring", "forwarding", "starting", "up", "unloading"}
        /\ listening \in BOOLEAN /\ (listening <=> phase \notin {"down", "restoring"})
        /\ reloads \in Nat /\ copy \in Answers \cup {NoTree} /\ old \in BOOLEAN
        /\ missed \in BOOLEAN /\ gaveUp \in BOOLEAN
        /\ stuck \in BOOLEAN /\ (stuck => phase \in {"up", "unloading"})
    BY DEF Init
  <2>5. submits \in 0 .. MaxSubmits /\ restarts \in 0 .. MaxRestarts /\ days \in 0 .. MaxDays
    BY ConfigAssumption DEF Init
  <2> QED
    BY <1>1, <1>3, <2>1, <2>2, <2>3, <2>4, <2>5 DEF TypeOK
<1>5. SetUpIsEntry /\ PurgedIsClean /\ EntitiesFollow /\ BuiltFollows /\ CapturedFollows
  BY DEF Init, SetUpIsEntry, PurgedIsClean, EntitiesFollow, BuiltFollows, CapturedFollows
<1>6. TriedWhileUp
  BY DEF Init, TriedWhileUp
<1> QED
  BY <1>4, <1>5, <1>6 DEF IInv

-----------------------------------------------------------------------------
(* Types.                                                                  *)

\* A delivery writes a selection, or nothing.
LEMMA DeliverWrites ==
    ASSUME TypeOK, NEW c \in Callers, NEW t \in Answers, Deliver(c, t)
    PROVE  /\ entry' # NoEntry => IsSelection(entry')
           /\ reloads' \in Nat /\ missed' \in BOOLEAN
           /\ IsSelection(captured')
<1>1. CASE c = Backfill /\ Write(Completed(Tree[t], captured)) /\ captured' = Nothing
  <2>1. IsSelection(Completed(Tree[t], captured))
    BY CompletedIsComplete DEF TypeOK
  <2> QED
    BY <1>1, <2>1, NothingIsSelection DEF TypeOK, Write
<1>2. CASE UNCHANGED <<entryVars, captured>>
  BY <1>2 DEF TypeOK, entryVars
<1> QED
  BY <1>1, <1>2 DEF Deliver, entryVars

LEMMA OfferedIsRegions ==
    ASSUME NEW t \in Answers, NEW e, IsSelection(e)
    PROVE  Offered(t, e) \subseteq Regions
BY TreeIsFlat DEF Offered, IsFlat, IsSelection

LEMMA DeliverCalls ==
    ASSUME TypeOK, NEW c \in Callers, NEW t \in Answers, Deliver(c, t), UNCHANGED phase,
           call[c].at # "idle"
    PROVE  CallsOK' /\ options' \in [Forms -> SUBSET Regions]
<1> USE ConfigAssumption DEF TypeOK, CallsOK, Idle
<1>1. CASE c \in Forms /\ call' = [call EXCEPT ![c] = [at |-> "shown", tree |-> t]]
           /\ options' = [options EXCEPT ![c] = Offered(t, Selection)] /\ captured' = captured
  <2>1. Offered(t, Selection) \subseteq Regions
    BY SelectionIsSelection, OfferedIsRegions
  <2>2. options' \in [Forms -> SUBSET Regions]
    BY <1>1, <2>1
  <2>3. c # Backfill /\ c # Refresh
    BY <1>1
  <2> QED
    BY <1>1, <2>2, <2>3 DEF Callers
<1>2. CASE c \in {Backfill, Refresh} /\ call' = [call EXCEPT ![c] = Idle] /\ UNCHANGED options
           /\ (\/ c = Backfill /\ captured' = Nothing
               \/ c = Refresh /\ captured' = captured)
  BY <1>2 DEF Callers
<1>3. CASE c \in Forms
  BY <1>1, <1>3 DEF Deliver
<1>4. CASE c = Backfill
  <2>1. call' = [call EXCEPT ![c] = Idle] /\ UNCHANGED options /\ captured' = Nothing
    BY <1>4 DEF Deliver
  <2> QED
    BY <1>2, <1>4, <2>1
<1>5. CASE c = Refresh
  <2>1. call' = [call EXCEPT ![c] = Idle] /\ UNCHANGED options /\ captured' = captured
    BY <1>5 DEF Deliver
  <2> QED
    BY <1>2, <1>5, <2>1
<1> QED
  BY <1>3, <1>4, <1>5 DEF Callers

\* One step of one caller.
LEMMA TreeTypes ==
    ASSUME TypeOK, NEW c \in Callers,
           \/ \E t \in Answers : Answered(c, t)
           \/ Unanswered(c) \/ Kept(c) \/ CopyUsed(c) \/ CopyMissing(c)
    PROVE  TypeOK'
<1> USE ConfigAssumption
    DEF entryVars, setupVars, treeVars, ghosts, counters
<1>1. ASSUME NEW t \in Answers, Answered(c, t) PROVE TypeOK'
  <2>1. CallsOK'
    BY <1>1 DEF Answered, TypeOK, CallsOK, Idle, Callers
  <2> QED
    BY <1>1, <2>1 DEF Answered, TypeOK
<1>2. CASE Unanswered(c)
  <2>1. CallsOK'
    BY <1>2 DEF Unanswered, TypeOK, CallsOK, Idle, Callers
  <2> QED
    BY <1>2, <2>1 DEF Unanswered, TypeOK
<1>3. CASE Kept(c)
  <2>1. call[c].tree \in Answers /\ call[c].at # "idle"
    BY <1>3 DEF Kept, TypeOK, CallsOK
  <2>2. CallsOK' /\ options' \in [Forms -> SUBSET Regions]
    BY <1>3, <2>1, DeliverCalls DEF Kept
  <2>3. /\ entry' # NoEntry => IsSelection(entry')
        /\ reloads' \in Nat /\ missed' \in BOOLEAN /\ IsSelection(captured')
    BY <1>3, <2>1, DeliverWrites DEF Kept
  <2> QED
    BY <1>3, <2>1, <2>2, <2>3 DEF Kept, TypeOK
<1>4. CASE CopyUsed(c)
  <2>1. copy \in Answers /\ call[c].at # "idle"
    BY <1>4 DEF CopyUsed, TypeOK
  <2>2. CallsOK' /\ options' \in [Forms -> SUBSET Regions]
    BY <1>4, <2>1, DeliverCalls DEF CopyUsed
  <2>3. /\ entry' # NoEntry => IsSelection(entry')
        /\ reloads' \in Nat /\ missed' \in BOOLEAN /\ IsSelection(captured')
    BY <1>4, <2>1, DeliverWrites DEF CopyUsed
  <2> QED
    BY <1>4, <2>2, <2>3 DEF CopyUsed, TypeOK
<1>5. CASE CopyMissing(c)
  <2>1. CallsOK'
    BY <1>5 DEF CopyMissing, TypeOK, CallsOK, Idle, Callers
  <2> QED
    BY <1>5, <2>1, NothingIsSelection DEF CopyMissing, TypeOK
<1> QED
  BY <1>1, <1>2, <1>3, <1>4, <1>5

LEMMA TypeStep == TypeOK /\ SetUpIsEntry /\ [Next]_vars => TypeOK'
<1> SUFFICES ASSUME TypeOK, SetUpIsEntry, [Next]_vars PROVE TypeOK'
  OBVIOUS
<1> USE ConfigAssumption DEF entryVars, setupVars, treeVars, ghosts, counters
<1>1. CASE TreeStep
  BY <1>1, TreeTypes DEF TreeStep
<1>2. CASE RefreshTick
  <2>1. CallsOK'
    BY <1>2 DEF RefreshTick, TypeOK, CallsOK, Idle, Callers
  <2> QED
    BY <1>2, <2>1 DEF RefreshTick, TypeOK
<1>3. ASSUME NEW f \in Forms, OpenForm(f) PROVE TypeOK'
  <2>1. CallsOK'
    BY <1>3 DEF OpenForm, TypeOK, CallsOK, Idle, Callers
  <2> QED
    BY <1>3, <2>1 DEF OpenForm, TypeOK
<1>4. ASSUME NEW f \in Forms, SubmitNothing(f) PROVE TypeOK'
  <2>1. CallsOK'
    BY <1>4 DEF SubmitNothing, TypeOK, CallsOK, Idle, Callers
  <2>2. call[f].tree \in Answers
    BY <1>4 DEF SubmitNothing, TypeOK, CallsOK, Callers
  <2>3. Offered(call[f].tree, entry) \subseteq Regions
    BY <1>4, <2>2, OfferedIsRegions DEF SubmitNothing, TypeOK
  <2> QED
    BY <1>4, <2>1, <2>3 DEF SubmitNothing, TypeOK
<1>5. ASSUME NEW f \in Forms, NEW ids \in SUBSET Regions, Submit(f, ids) PROVE TypeOK'
  <2>1. CallsOK'
    BY <1>5 DEF Submit, TypeOK, CallsOK, Idle, Callers
  <2>2. call[f].tree \in Answers
    BY <1>5 DEF Submit, TypeOK, CallsOK, Callers
  <2>3. IsSelection(Chosen(Tree[call[f].tree], ids, Selection))
    BY <2>2, ChosenIsSelection, SelectionIsSelection
  <2>4. IsSelection(entry') /\ reloads' \in Nat /\ missed' \in BOOLEAN
    BY <1>5, <2>3 DEF Submit, Write, TypeOK
  <2>5. options' \in [Forms -> SUBSET Regions] /\ submits' \in 0 .. MaxSubmits
    BY <1>5 DEF Submit, TypeOK
  <2> QED
    BY <1>5, <2>1, <2>4, <2>5 DEF Submit, TypeOK
<1>6. CASE Construct
  <2>1. CallsOK'
    BY <1>6 DEF Construct, TypeOK, CallsOK, Idle, Callers
  <2> QED
    BY <1>6, <2>1 DEF Construct, TypeOK
<1>7. CASE Listen
  <2>1. CallsOK'
    BY <1>7 DEF Listen, TypeOK, CallsOK, Idle, Callers
  <2> QED
    BY <1>7, <2>1 DEF Listen, TypeOK, Purged
<1>8. CASE Forward
  <2>1. CallsOK'
    BY <1>8 DEF Forward, TypeOK, CallsOK, Idle, Callers
  <2>2. DOMAIN entry \subseteq Regions
    BY <1>8 DEF Forward, SetUpIsEntry, IsSelection
  <2> QED
    BY <1>8, <2>1, <2>2 DEF Forward, TypeOK
<1>9. CASE Start
  <2>1. CallsOK'
    BY <1>9 DEF Start, TypeOK, CallsOK, Idle, Callers
  <2>2. IsSelection(entry)
    BY <1>9 DEF Start, SetUpIsEntry
  <2> QED
    BY <1>9, <2>1, <2>2 DEF Start, TypeOK
<1>10. CASE BeginReload
  <2>1. CallsOK'
    BY <1>10 DEF BeginReload, TypeOK, CallsOK, Idle, Callers
  <2> QED
    BY <1>10, <2>1 DEF BeginReload, TypeOK
<1>11. CASE EndUnload
  <2>1. CallsOK'
    BY <1>11 DEF EndUnload, Cancelled, AfterUnload, TypeOK, CallsOK, Idle, Callers
  <2> QED
    BY <1>11, <2>1, NothingIsSelection DEF EndUnload, AfterUnload, TypeOK
<1>12. CASE UnloadFails
  <2>1. CallsOK'
    BY <1>12 DEF UnloadFails, TypeOK, CallsOK, Idle, Callers
  <2> QED
    BY <1>12, <2>1 DEF UnloadFails, TypeOK
<1>13. CASE Restart
  <2>1. CallsOK'
    BY <1>13 DEF Restart, TypeOK, CallsOK, Idle, Callers
  <2>2. options' \in [Forms -> SUBSET Regions] /\ restarts' \in 0 .. MaxRestarts
    BY <1>13 DEF Restart, TypeOK
  <2> QED
    BY <1>13, <2>1, <2>2, NothingIsSelection DEF Restart, TypeOK
<1>14. CASE Day
  <2>1. CallsOK'
    BY <1>14 DEF Day, TypeOK, CallsOK, Idle, Callers
  <2> QED
    BY <1>14, <2>1 DEF Day, TypeOK
<1>15. CASE UNCHANGED vars
  <2>1. CallsOK'
    BY <1>15 DEF vars, TypeOK, CallsOK
  <2> QED
    BY <1>15, <2>1 DEF vars, TypeOK
<1> QED
  BY <1>1, <1>2, <1>3, <1>4, <1>5, <1>6, <1>7, <1>8, <1>9, <1>10, <1>11, <1>12, <1>13, <1>14,
     <1>15
  DEF Next, Setup, Submits

-----------------------------------------------------------------------------
(* Writes.                                                                 *)

\* A write that leaves no reload behind left the entry alone, or the setup still
\* has the purge and the platforms before it.
LEMMA WriteIsHeard ==
    ASSUME TypeOK, NEW regions, Write(regions), reloads' = 0
    PROVE  /\ reloads = 0
           /\ \/ entry' = entry /\ missed' = missed
              \/ phase = "down"
              \/ phase = "restoring" /\ missed'
<1>1. reloads \in Nat /\ missed \in BOOLEAN /\ (listening <=> phase \notin {"down", "restoring"})
  BY DEF TypeOK
<1>2. reloads = 0 /\ ~(listening /\ regions # entry)
  BY <1>1 DEF Write, Heard
<1>3. CASE regions = entry
  BY <1>1, <1>2, <1>3 DEF Write
<1>4. CASE phase \in {"down", "restoring"} /\ regions # entry
  BY <1>1, <1>2, <1>4 DEF Write
<1> QED
  BY <1>1, <1>2, <1>3, <1>4

\* What holds of the setup holds after a write.
LEMMA WriteKeeps ==
    ASSUME IInv, NEW regions, Write(regions), IsSelection(regions), UNCHANGED setupVars,
           UNCHANGED stuck
    PROVE  /\ SetUpIsEntry' /\ PurgedIsClean' /\ EntitiesFollow' /\ BuiltFollows'
<1>1. SetUpIsEntry'
  BY DEF Write, SetUpIsEntry
<1>2. reloads' = 0 => /\ reloads = 0
                      /\ \/ entry' = entry /\ missed' = missed
                         \/ phase = "down"
                         \/ phase = "restoring" /\ missed'
  BY WriteIsHeard DEF IInv
<1>3. PurgedIsClean' /\ EntitiesFollow'
  BY <1>2 DEF IInv, PurgedIsClean, EntitiesFollow, setupVars
<1>4. BuiltFollows'
  BY <1>2 DEF IInv, BuiltFollows, setupVars
<1> QED
  BY <1>1, <1>3, <1>4

\* Whatever tree a caller goes on with, the setup is as before or a reload is due.
LEMMA DeliverKeeps ==
    ASSUME IInv, NEW c \in Callers, NEW t \in Answers, Deliver(c, t), UNCHANGED setupVars,
           UNCHANGED ghosts, call[c].at # "idle"
    PROVE  /\ SetUpIsEntry' /\ PurgedIsClean' /\ EntitiesFollow' /\ BuiltFollows'
           /\ CapturedFollows' /\ TriedWhileUp'
<1> USE ConfigAssumption DEF setupVars, ghosts
<1>1. CASE c = Backfill
  <2>1. /\ Write(Completed(Tree[t], captured)) /\ captured' = Nothing
        /\ call' = [call EXCEPT ![c] = Idle]
    BY <1>1 DEF Deliver
  <2>2. /\ IsSelection(Completed(Tree[t], captured))
        /\ DOMAIN Completed(Tree[t], captured) = DOMAIN captured
        /\ \A r \in DOMAIN captured : Completed(Tree[t], captured)[r].descendants # Missing
    BY CompletedIsComplete DEF IInv, TypeOK
  <2>3. SetUpIsEntry' /\ PurgedIsClean' /\ EntitiesFollow' /\ BuiltFollows'
    BY <2>1, <2>2, WriteKeeps DEF setupVars
  <2>4. call'[Backfill] = Idle
    BY <1>1, <2>1 DEF IInv, TypeOK, CallsOK, Callers
  <2>5. ~ \E r \in DOMAIN entry' : entry'[r].descendants = Missing
    BY <2>1, <2>2 DEF Write
  <2> QED
    BY <2>3, <2>4, <2>5 DEF CapturedFollows, TriedWhileUp, Lacks
<1>2. CASE c # Backfill
  <2>1. UNCHANGED <<entryVars, captured>>
    BY <1>2 DEF Deliver
  <2>2. call' = [call EXCEPT ![c] = [at |-> "shown", tree |-> t]] \/ call' = [call EXCEPT ![c] = Idle]
    BY <1>2 DEF Deliver
  <2>3. call'[Backfill] = call[Backfill]
    BY <1>2, <2>2 DEF IInv, TypeOK, CallsOK, Callers
  <2> QED
    BY <2>1, <2>3
    DEF IInv, entryVars, Settled,
        SetUpIsEntry, PurgedIsClean, EntitiesFollow, BuiltFollows, CapturedFollows,
        TriedWhileUp
<1> QED
  BY <1>1, <1>2

LEMMA FollowStep ==
    ASSUME IInv, [Next]_vars
    PROVE  /\ SetUpIsEntry' /\ PurgedIsClean' /\ EntitiesFollow' /\ BuiltFollows'
           /\ CapturedFollows' /\ TriedWhileUp'
<1> USE ConfigAssumption DEF entryVars, setupVars, treeVars, ghosts, counters
<1> DEFINE Kept0 == /\ UNCHANGED <<entry, reloads, missed, ghosts, phase, built, shown, registry>>
                    /\ call'[Backfill] = call[Backfill] /\ captured' = captured
<1>1. ASSUME Kept0
      PROVE  /\ SetUpIsEntry' /\ PurgedIsClean' /\ EntitiesFollow' /\ BuiltFollows'
             /\ CapturedFollows' /\ TriedWhileUp'
  BY <1>1
  DEF IInv, Settled, SetUpIsEntry, PurgedIsClean, EntitiesFollow, BuiltFollows,
      CapturedFollows, TriedWhileUp
<1> USE DEF IInv
<1>2. CASE TreeStep
  <2> PICK c \in Callers : \/ \E t \in Answers : Answered(c, t)
                           \/ Unanswered(c) \/ Kept(c) \/ CopyUsed(c) \/ CopyMissing(c)
    BY <1>2 DEF TreeStep
  <2>1. CASE (\E t \in Answers : Answered(c, t)) \/ Unanswered(c)
    <3>1. /\ UNCHANGED <<entryVars, setupVars, captured, ghosts>>
          /\ call[Backfill] # Idle => call'[Backfill] # Idle
          /\ call'[Backfill] # Idle => call[Backfill] # Idle
      BY <2>1 DEF Answered, Unanswered, TypeOK, CallsOK, Callers, Idle
    <3> QED
      BY <3>1
      DEF Settled, SetUpIsEntry, PurgedIsClean, EntitiesFollow, BuiltFollows,
          CapturedFollows, TriedWhileUp
  <2>2. CASE Kept(c)
    <3>1. call[c].tree \in Answers /\ call[c].at # "idle"
      BY <2>2 DEF Kept, TypeOK, CallsOK
    <3> QED
      BY <2>2, <3>1, DeliverKeeps DEF Kept
  <2>3. CASE CopyUsed(c)
    <3>1. copy \in Answers /\ call[c].at # "idle"
      BY <2>3 DEF CopyUsed, TypeOK
    <3> QED
      BY <2>3, <3>1, DeliverKeeps DEF CopyUsed
  <2>4. CASE CopyMissing(c) /\ c # Backfill
    BY <1>1, <2>4 DEF CopyMissing, TypeOK, CallsOK
  <2>5. CASE CopyMissing(c) /\ c = Backfill
    <3>1. call'[Backfill] = Idle /\ gaveUp'
      BY <2>5 DEF CopyMissing, TypeOK, CallsOK, Callers
    <3> QED
      BY <2>5, <3>1
      DEF CopyMissing, Settled, SetUpIsEntry, PurgedIsClean, EntitiesFollow, BuiltFollows,
          CapturedFollows, TriedWhileUp
  <2> QED
    BY <2>1, <2>2, <2>3, <2>4, <2>5
<1>3. CASE RefreshTick
  BY <1>1, <1>3 DEF RefreshTick, TypeOK, CallsOK
<1>4. ASSUME NEW f \in Forms, OpenForm(f) \/ SubmitNothing(f) PROVE Kept0
  <2>1. f # Backfill
    OBVIOUS
  <2>2. CASE OpenForm(f)
    BY <2>1, <2>2 DEF OpenForm, TypeOK, CallsOK
  <2>3. CASE SubmitNothing(f)
    BY <2>3 DEF SubmitNothing
  <2> QED
    BY <1>4, <2>2, <2>3
<1>5. ASSUME NEW f \in Forms, NEW ids \in SUBSET Regions, Submit(f, ids)
      PROVE  /\ SetUpIsEntry' /\ PurgedIsClean' /\ EntitiesFollow' /\ BuiltFollows'
             /\ CapturedFollows' /\ TriedWhileUp'
  <2> DEFINE new == Chosen(Tree[call[f].tree], ids, Selection)
  <2>1. call[f].tree \in Answers
    BY <1>5 DEF Submit, TypeOK, CallsOK, Callers
  <2>2. IsSelection(new)
    BY <2>1, ChosenIsSelection, SelectionIsSelection
  <2>3. Write(new)
    BY <1>5 DEF Submit
  <2>4. SetUpIsEntry' /\ PurgedIsClean' /\ EntitiesFollow' /\ BuiltFollows'
    BY <1>5, <2>2, <2>3, WriteKeeps DEF Submit
  <2>5. call'[Backfill] = call[Backfill] /\ captured' = captured /\ UNCHANGED <<ghosts, phase>>
    BY <1>5 DEF Submit, TypeOK, CallsOK
  <2>6. phase = "up" /\ reloads' = 0 => entry' = entry /\ reloads = 0
    BY <2>3, WriteIsHeard
  <2>7. Lacks(new) => Lacks(entry)
    <3>1. Lacks(new) => Lacks(Selection)
      <4> SUFFICES ASSUME Lacks(new) PROVE Lacks(Selection)
        OBVIOUS
      <4> QED
        BY <2>1, ChosenLacksNoMore
    <3>2. ~Lacks(Nothing)
      BY NothingIsSelection DEF Lacks
    <3> QED
      BY <3>1, <3>2 DEF Selection
  <2>8. entry' = new
    BY <2>3 DEF Write
  <2> HIDE DEF new
  <2>9. CapturedFollows'
    BY <2>5, <2>6 DEF CapturedFollows
  <2>10. TriedWhileUp'
    BY <2>5, <2>7, <2>8 DEF TriedWhileUp
  <2> QED
    BY <2>4, <2>9, <2>10
<1>6. CASE Construct
  BY <1>6
  DEF Construct, TypeOK, Settled, SetUpIsEntry, PurgedIsClean, EntitiesFollow, BuiltFollows,
      CapturedFollows, TriedWhileUp
<1>7. CASE Listen
  BY <1>7
  DEF Listen, Purged, Settled, SetUpIsEntry, PurgedIsClean, EntitiesFollow, BuiltFollows,
      CapturedFollows, TriedWhileUp
<1>8. CASE Forward
  BY <1>8
  DEF Forward, Settled, SetUpIsEntry, PurgedIsClean, EntitiesFollow, BuiltFollows,
      CapturedFollows, TriedWhileUp
<1>9. CASE Start
  <2>1. SetUpIsEntry' /\ PurgedIsClean' /\ EntitiesFollow' /\ BuiltFollows'
    BY <1>9
    DEF Start, Settled, SetUpIsEntry, PurgedIsClean, EntitiesFollow, BuiltFollows
  <2>2. call[Backfill] = Idle
    BY <1>9 DEF Start, TypeOK, CallsOK
  <2>3. CASE NeedsBackfill(entry)
    <3>1. call'[Backfill] # Idle /\ captured' = entry /\ entry' = entry
      BY <1>9, <2>3 DEF Start, TypeOK, CallsOK, Callers, Idle
    <3> QED
      BY <2>1, <3>1 DEF CapturedFollows, TriedWhileUp
  <2>4. CASE ~NeedsBackfill(entry)
    <3>1. call'[Backfill] = Idle /\ entry' = entry
      BY <1>9, <2>2, <2>4 DEF Start
    <3> QED
      BY <2>1, <2>4, <3>1 DEF CapturedFollows, TriedWhileUp, Lacks, NeedsBackfill
  <2> QED
    BY <2>3, <2>4
<1>10. CASE BeginReload
  BY <1>10
  DEF BeginReload, Settled, SetUpIsEntry, PurgedIsClean, EntitiesFollow, BuiltFollows,
      CapturedFollows, TriedWhileUp
<1>11. CASE EndUnload
  BY <1>11
  DEF EndUnload, AfterUnload, Settled, SetUpIsEntry, PurgedIsClean, EntitiesFollow,
      BuiltFollows, CapturedFollows, TriedWhileUp
<1>12. CASE UnloadFails
  BY <1>12
  DEF UnloadFails, SetUpIsEntry, PurgedIsClean, EntitiesFollow, BuiltFollows,
      CapturedFollows, TriedWhileUp
<1>13. CASE Restart
  BY <1>13
  DEF Restart, Settled, SetUpIsEntry, PurgedIsClean, EntitiesFollow,
      BuiltFollows, CapturedFollows, TriedWhileUp
<1>14. CASE Day
  BY <1>1, <1>14 DEF Day
<1>15. CASE UNCHANGED vars
  BY <1>1, <1>15 DEF vars
<1> QED
  BY <1>1, <1>2, <1>3, <1>4, <1>5, <1>6, <1>7, <1>8, <1>9, <1>10, <1>11, <1>12, <1>13, <1>14,
     <1>15
  DEF Next, Setup, Submits

-----------------------------------------------------------------------------
(* The theorems.                                                           *)

\* The strengthened invariant holds in every reachable state.
THEOREM Invariance == Spec => []IInv
<1>1. IInv /\ [Next]_vars => IInv'
  BY TypeStep, FollowStep DEF IInv
<1> QED
  BY InvInit, <1>1, PTL DEF Spec

\* The variables keep their types, and only a set-up entry has background tasks.
THEOREM TypeCorrect == Spec => []TypeOK
<1>1. IInv => TypeOK
  BY DEF IInv
<1> QED
  BY Invariance, <1>1, PTL

\* Entities, registry and selection agree once everything settled (the purge and
\* the platforms of async_setup_entry, __init__.py:276-278), and the coordinator works
\* with the entry as it is, unless an update was missed between its constructor and
\* add_update_listener (__init__.py:211-276).
THEOREM SetupsFollowTheEntry == Spec => []SetupFollowsEntry
<1>1. IInv => RegistryFollows
  BY DEF IInv, EntitiesFollow, RegistryFollows, Settled
<1>2. IInv => HeardChangeIsBuilt
  BY DEF IInv, BuiltFollows, HeardChangeIsBuilt, Settled
<1>3. IInv => SetupFollowsEntry
  BY <1>1, <1>2 DEF SetupFollowsEntry
<1> QED
  BY Invariance, <1>3, PTL

\* Every setup of an entry without descendants looks them up (__init__.py:404-424).
THEOREM LegacyEntriesAreTried == Spec => []LegacyEntryIsTried
<1>1. IInv => LegacyEntryIsTried
  BY DEF IInv, TriedWhileUp, Lacks, LegacyEntryIsTried, Settled
<1> QED
  BY Invariance, <1>1, PTL

\* The backfill undoes a choice at most while the reload that the choice asked
\* for is due or under way (__init__.py:427-457).
THEOREM UndoneOnlyDuringReload == Spec => UndoOnlyDuringReload
<1>1. ASSUME IInv, [Next]_vars, entry # NoEntry, DOMAIN entry' # DOMAIN entry, ~Submits
      PROVE  reloads > 0 \/ phase = "unloading" \/ stuck
  <2> USE <1>1 DEF entryVars, setupVars, treeVars, ghosts, counters
  <2>1. PICK c \in Callers, t \in Answers : Deliver(c, t) /\ call[c].at # "idle"
    <3>1. TreeStep
      BY DEF Next, vars, Setup, RefreshTick, OpenForm, SubmitNothing, Construct, Listen,
             Forward, Start, BeginReload, EndUnload, UnloadFails, Restart, Day
    <3>2. PICK c \in Callers : Kept(c) \/ CopyUsed(c)
      BY <3>1 DEF TreeStep, Answered, Unanswered, CopyMissing
    <3>3. CASE Kept(c)
      BY <3>2, <3>3 DEF Kept, IInv, TypeOK, CallsOK
    <3>4. CASE CopyUsed(c)
      BY <3>2, <3>4 DEF CopyUsed, IInv, TypeOK
    <3> QED
      BY <3>2, <3>3, <3>4
  <2>2. c = Backfill /\ entry' = Completed(Tree[t], captured)
    BY <2>1 DEF Deliver, Write
  <2>3. DOMAIN entry' = DOMAIN captured
    BY <2>2 DEF Completed
  <2>4. call[Backfill] # Idle
    BY <2>1, <2>2 DEF Idle
  <2>5. phase \in {"up", "unloading"} /\ reloads \in Nat
    BY <2>4 DEF IInv, TypeOK, CallsOK
  <2>6. ~(phase = "up" /\ reloads = 0 /\ ~stuck)
    BY <2>3, <2>4 DEF IInv, CapturedFollows
  <2> QED
    BY <2>5, <2>6
<1>2. IInv /\ [Next]_vars
        => [entry # NoEntry /\ DOMAIN entry' # DOMAIN entry /\ ~Submits
               => reloads > 0 \/ phase = "unloading" \/ stuck]_vars
  BY <1>1
<1> QED
  BY Invariance, <1>2, PTL DEF Spec, UndoOnlyDuringReload
===============================================================================
