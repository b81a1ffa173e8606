----------------------------- MODULE WorldState -----------------------------
(***************************************************************************)
(* The current-state tables of one world database and what one             *)
(* WorldMutation does to them: crates/storage/src/sqlite/commit.rs         *)
(* (apply_mutation and its helpers) over the tables of migration.rs.       *)
(*                                                                         *)
(* A table keyed by an identity is a function whose domain is the set of   *)
(* rows.  An optional column is a set with at most one element.            *)
(***************************************************************************)
EXTENDS Integers, Sequences, Functions

NoRows == [k \in {} |-> k]

\* Inserts the row k, or replaces it (INSERT ... ON CONFLICT DO UPDATE).
Upsert(table, k, row) ==
    [x \in DOMAIN table \cup {k} |-> IF x = k THEN row ELSE table[x]]

\* The table without the rows whose key is in keys.
Without(table, keys) == Restrict(table, DOMAIN table \ keys)

\* A freshly initialised world: every table is empty.
EmptyWorld ==
    [entities |-> {}, relations |-> NoRows, facets |-> NoRows, grants |-> NoRows]

WorldTarget == <<"world">>
EntityTarget(e) == <<"entity", e>>
RelationTarget(r) == <<"relation", r>>

\* A facet is attached to the world itself, to an entity or to a relation.
TargetExists(st, target) ==
    \/ target = WorldTarget
    \/ \E e \in st.entities : target = EntityTarget(e)
    \/ \E r \in DOMAIN st.relations : target = RelationTarget(r)

FacetsOn(st, targets) == {k \in DOMAIN st.facets : k.target \in targets}

-----------------------------------------------------------------------------
(* Mutations.  Each is a record whose field "op" is the variant's name.    *)

CreateEntity(e, schema) == [op |-> "CreateEntity", entity |-> e, schema |-> schema]
DeleteEntity(e) == [op |-> "DeleteEntity", entity |-> e]
CreateRelation(r, schema, from, to) ==
    [op |-> "CreateRelation", relation |-> r, schema |-> schema, ends |-> <<from, to>>]
DeleteRelation(r) == [op |-> "DeleteRelation", relation |-> r]
SetFacet(target, schema, payload) ==
    [op |-> "SetFacet", key |-> [target |-> target, schema |-> schema], payload |-> payload]
RemoveFacet(target, schema) ==
    [op |-> "RemoveFacet", key |-> [target |-> target, schema |-> schema]]
GrantControl(g, grant) == [op |-> "GrantControl", id |-> g, grant |-> grant]
RevokeControl(g) == [op |-> "RevokeControl", id |-> g]

Operations ==
    {"CreateEntity", "DeleteEntity", "CreateRelation", "DeleteRelation",
     "SetFacet", "RemoveFacet", "GrantControl", "RevokeControl"}

IsAuthorityMutation(m) == m.op \in {"GrantControl", "RevokeControl"}

\* The existence checks that make a mutation an error, and with it the whole
\* transaction.
CanApply(st, m) ==
    CASE m.op = "CreateEntity"   -> m.entity \notin st.entities
      [] m.op = "DeleteEntity"   -> m.entity \in st.entities
      [] m.op = "CreateRelation" -> /\ m.relation \notin DOMAIN st.relations
                                    /\ {m.ends[1], m.ends[2]} \subseteq st.entities
      [] m.op = "DeleteRelation" -> m.relation \in DOMAIN st.relations
      [] m.op \in {"SetFacet", "RemoveFacet"} -> TargetExists(st, m.key.target)
      [] m.op = "GrantControl"   -> /\ m.grant.actor \in st.entities
                                    /\ m.id \notin DOMAIN st.grants
      [] m.op = "RevokeControl"  -> m.id \in DOMAIN st.grants

\* Deleting a relation takes its facets along (ON DELETE CASCADE).
DropRelations(st, rs) ==
    [st EXCEPT !.relations = Without(@, rs),
               !.facets = Without(@, FacetsOn(st, {RelationTarget(r) : r \in rs}))]

RelationsAt(st, e) ==
    {r \in DOMAIN st.relations : e \in {st.relations[r][1], st.relations[r][2]}}

\* Faulty: the grants over a deleted entity stay behind.
GrantsFor_NoCascade(st, e) == {}

GrantsFor(st, e) == {g \in DOMAIN st.grants : st.grants[g].actor = e}

\* Deleting an entity cascades to its facets, to the grants over it and to the
\* relations at either end, and from these to their facets.
DropEntity(st, e) ==
    [DropRelations(st, RelationsAt(st, e)) EXCEPT
        !.entities = @ \ {e},
        !.facets = Without(@, FacetsOn(st, {EntityTarget(e)})),
        !.grants = Without(@, GrantsFor(st, e))]

\* The tables after one mutation that passed CanApply.
ApplyMutation(st, m) ==
    CASE m.op = "CreateEntity"   -> [st EXCEPT !.entities = @ \cup {m.entity}]
      [] m.op = "DeleteEntity"   -> DropEntity(st, m.entity)
      [] m.op = "CreateRelation" -> [st EXCEPT !.relations = Upsert(@, m.relation, m.ends)]
      [] m.op = "DeleteRelation" -> DropRelations(st, {m.relation})
      [] m.op = "SetFacet"       -> [st EXCEPT !.facets = Upsert(@, m.key, m.payload)]
      [] m.op = "RemoveFacet"    -> [st EXCEPT !.facets = Without(@, {m.key})]
      [] m.op = "GrantControl"   -> [st EXCEPT !.grants = Upsert(@, m.id, m.grant)]
      [] m.op = "RevokeControl"  -> [st EXCEPT !.grants = Without(@, {m.id})]

\* The tables before the first mutation of a list and after each of them.
StatesOf(st, mutations) ==
    LET after[i \in 0 .. Len(mutations)] ==
            IF i = 0 THEN st ELSE ApplyMutation(after[i - 1], mutations[i])
    IN  after

\* The tables after the whole list.
ApplyAll(st, mutations) == StatesOf(st, mutations)[Len(mutations)]

\* An append-only log holds one list of mutations per position: the tables at
\* position 0 and after each entry.
WorldsOf(entries) ==
    LET after[pos \in 0 .. Len(entries)] ==
            IF pos = 0 THEN EmptyWorld ELSE ApplyAll(after[pos - 1], entries[pos])
    IN  after

-----------------------------------------------------------------------------
(* Authority.                                                              *)

PrincipalActor(p) == <<"principal", p>>
EntityActor(e) == <<"entity", e>>

\* principal_can_control: one grant row gives the principal the entity, is not
\* past its last position, and is for any command or lists this schema.
PrincipalCanControl(st, p, e, schema, pos) ==
    \E g \in DOMAIN st.grants :
        LET grant == st.grants[g] IN
        /\ grant.principal = p
        /\ grant.actor = e
        /\ \A last \in grant.through : pos <= last
        /\ \A exact \in grant.scope : schema \in exact

\* authorize_command: a principal acts as itself or as an entity it controls.
Authorized(st, c, pos) ==
    \/ c.actor = PrincipalActor(c.principal)
    \/ \E e \in st.entities :
          /\ c.actor = EntityActor(e)
          /\ PrincipalCanControl(st, c.principal, e, c.schema, pos)

-----------------------------------------------------------------------------
(* The foreign keys of the tables: nothing points at a row that is gone.   *)
ReferentialIntegrity(st) ==
    /\ \A r \in DOMAIN st.relations :
          {st.relations[r][1], st.relations[r][2]} \subseteq st.entities
    /\ \A k \in DOMAIN st.facets : TargetExists(st, k.target)
    /\ \A g \in DOMAIN st.grants : st.grants[g].actor \in st.entities
=============================================================================
