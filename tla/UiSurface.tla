------------------------------ MODULE UiSurface ------------------------------
(***************************************************************************)
(* A portable surface and its patches: crates/ui-runtime/src/runtime.rs    *)
(* and validation.rs.  A snapshot is a function from node identities to    *)
(* the sequence of their children; a node's kind is a function of its      *)
(* identity, and only the capability it needs is told apart.               *)
(***************************************************************************)
EXTENDS Naturals, Sequences, FiniteSets, SequencesExt, Functions

CONSTANTS
    Nodes,      \* node identities
    Root,       \* UiSurfaceSnapshot::root, the same for every snapshot
    Inputs,     \* the nodes of a kind that not every layer renders
    Leaves      \* the nodes of a kind that has no children

ASSUME NodesAssumption ==
    /\ Root \in Nodes \ Leaves
    /\ Inputs \subseteq Nodes /\ Leaves \subseteq Nodes /\ IsFiniteSet(Nodes)

\* UiSurfaceSnapshot: any node table; the children of a node may be any nodes.
IsSnapshot(t) == DOMAIN t \subseteq Nodes /\ t \in [DOMAIN t -> Seq(Nodes)]

\* UiPatch.
UpsertNode(n, children) == [op |-> "upsert", node |-> n, children |-> children]
RemoveNode(n) == [op |-> "remove", node |-> n]
InsertChild(p, i, c) == [op |-> "insert", parent |-> p, index |-> i, child |-> c]
RemoveChild(p, c) == [op |-> "detach", parent |-> p, child |-> c]
MoveChild(p, c, i) == [op |-> "move", parent |-> p, index |-> i, child |-> c]
Patches ==
    [op : {"upsert"}, node : Nodes, children : Seq(Nodes)]
    \cup [op : {"remove"}, node : Nodes]
    \cup [op : {"insert", "move"}, parent : Nodes, index : Nat, child : Nodes]
    \cup [op : {"detach"}, parent : Nodes, child : Nodes]

Holds(t, p, c) == p \in DOMAIN t \ Leaves /\ Contains(t[p], c)

\* The child put before position index, counted from 0; past the end is an error.
Placed(t, p, children, index, c) ==
    IF index > Len(children) THEN {} ELSE {[t EXCEPT ![p] = InsertAt(children, index + 1, c)]}

\* apply_patch_operations, one patch: the snapshot it leads to, or none.  Between
\* two patches of a batch the nodes need not form a tree.
ApplyPatch(t, patch) ==
    CASE patch.op = "upsert" ->
            {[n \in DOMAIN t \cup {patch.node} |-> IF n = patch.node THEN patch.children ELSE t[n]]}
      [] patch.op = "remove" ->
            {Restrict(t, DOMAIN t \ {n}) : n \in {patch.node} \cap DOMAIN t}
      [] patch.op = "insert" ->
            IF patch.child \in DOMAIN t /\ patch.parent \in DOMAIN t \ Leaves
            THEN Placed(t, patch.parent, t[patch.parent], patch.index, patch.child)
            ELSE {}
      [] patch.op = "detach" ->
            IF Holds(t, patch.parent, patch.child)
            THEN {[t EXCEPT ![patch.parent] = RemoveFirst(@, patch.child)]}
            ELSE {}
      [] patch.op = "move" ->
            IF Holds(t, patch.parent, patch.child)
            THEN Placed(t, patch.parent, RemoveFirst(t[patch.parent], patch.child),
                        patch.index, patch.child)
            ELSE {}

\* How often a node is named as a child.
Parents(t, n) ==
    SumFunction([m \in DOMAIN t |-> Cardinality({i \in DOMAIN t[m] : t[m][i] = n})])

\* What a walk from the root visits (validate_reachability).
Reached(t) ==
    LET Within[k \in 0..Cardinality(Nodes)] ==
            IF k = 0 THEN {Root}
            ELSE Within[k - 1] \cup UNION {ToSet(t[n]) : n \in Within[k - 1] \cap DOMAIN t}
    IN Within[Cardinality(Nodes)]

\* Faulty: a second parent goes unnoticed.
ValidSnapshot_AnyParents(t) ==
    /\ Root \in DOMAIN t
    /\ \A n \in DOMAIN t : ToSet(t[n]) \subseteq DOMAIN t
    /\ Reached(t) = DOMAIN t

\* validate_snapshot: a single parent each, none for the root, nothing orphaned.
\* With these the walk up the parents that detect_cycles makes cannot turn.
ValidSnapshot(t) ==
    /\ Root \in DOMAIN t
    /\ \A n \in DOMAIN t : ToSet(t[n]) \subseteq DOMAIN t
    /\ \A n \in DOMAIN t : Parents(t, n) <= 1
    /\ Parents(t, Root) = 0
    /\ Reached(t) = DOMAIN t

\* What a batch can have led to, if anything, after each of its patches.
ApplyAll(ts, patch) == UNION {ApplyPatch(s, patch) : s \in ts}
Applied(t, batch) ==
    LET after[k \in 0 .. Len(batch)] ==
            IF k = 0 THEN {t} ELSE ApplyAll(after[k - 1], batch[k])
    IN  after

\* apply_patches: the whole batch or nothing.
Patched(t, batch) == {next \in Applied(t, batch)[Len(batch)] : ValidSnapshot(next)}

\* ensure_surface_supported, for a layer that renders every kind or all but Inputs.
Supports(rich, t) == rich \/ DOMAIN t \cap Inputs = {}

\* For the properties: all nodes are reached, over one edge less than nodes.
IsTree(t) ==
    /\ Reached(t) = DOMAIN t
    /\ SumFunction([n \in DOMAIN t |-> Len(t[n])]) = Cardinality(DOMAIN t) - 1
=============================================================================
