---------------------------- MODULE WorldProofs -----------------------------
(***************************************************************************)
(* Proofs about WorldState and WorldStore, for any commands, proposals,    *)
(* schemas, number of connections and bound on positions; then about       *)
(* WorldRuntime and WorldServices over it, for any number of runtimes and  *)
(* tickets, any commands and Systems, and a queue of any capacity.         *)
(***************************************************************************)
EXTENDS WorldServices, FiniteSetTheorems, WellFoundedInduction, TLAPS

-----------------------------------------------------------------------------
\* A state is a record of its four tables.
IsState(st) ==
    st = [entities |-> st.entities, relations |-> st.relations,
          facets |-> st.facets, grants |-> st.grants]

Sound(st) == IsState(st) /\ ReferentialIntegrity(st)

-----------------------------------------------------------------------------
(* One mutation keeps every reference alive.                               *)

\* A new entity disturbs no reference.
LEMMA CreateEntitySound ==
    ASSUME NEW st, Sound(st), NEW m, m.op = "CreateEntity"
    PROVE  Sound(ApplyMutation(st, m))
<1> DEFINE t == [st EXCEPT !.entities = @ \cup {m.entity}]
<1>1. ApplyMutation(st, m) = t BY DEF ApplyMutation
<1>2. /\ IsState(t)
      /\ t.entities = st.entities \cup {m.entity}
      /\ t.relations = st.relations /\ t.facets = st.facets /\ t.grants = st.grants
  BY DEF Sound, IsState
<1> HIDE DEF t
<1> QED BY <1>1, <1>2 DEF Sound, ReferentialIntegrity, TargetExists

\* A new relation has both its ends (ensure_relation_endpoint).
LEMMA CreateRelationSound ==
    ASSUME NEW st, Sound(st), NEW m, m.op = "CreateRelation", CanApply(st, m)
    PROVE  Sound(ApplyMutation(st, m))
<1> DEFINE t == [st EXCEPT !.relations = Upsert(@, m.relation, m.ends)]
<1>1. ApplyMutation(st, m) = t BY DEF ApplyMutation
<1>2. /\ IsState(t)
      /\ t.relations = Upsert(st.relations, m.relation, m.ends)
      /\ t.entities = st.entities /\ t.facets = st.facets /\ t.grants = st.grants
  BY DEF Sound, IsState
<1>3. {m.ends[1], m.ends[2]} \subseteq st.entities BY DEF CanApply
<1> HIDE DEF t
<1>4. /\ DOMAIN t.relations = DOMAIN st.relations \cup {m.relation}
      /\ t.relations[m.relation] = m.ends
      /\ \A r \in DOMAIN st.relations : r # m.relation => t.relations[r] = st.relations[r]
  BY <1>2 DEF Upsert
<1> QED BY <1>1, <1>2, <1>3, <1>4 DEF Sound, ReferentialIntegrity, TargetExists

\* A facet is set on a target that exists.
LEMMA SetFacetSound ==
    ASSUME NEW st, Sound(st), NEW m, m.op = "SetFacet", CanApply(st, m)
    PROVE  Sound(ApplyMutation(st, m))
<1> DEFINE t == [st EXCEPT !.facets = Upsert(@, m.key, m.payload)]
<1>1. ApplyMutation(st, m) = t BY DEF ApplyMutation
<1>2. /\ IsState(t)
      /\ t.facets = Upsert(st.facets, m.key, m.payload)
      /\ t.entities = st.entities /\ t.relations = st.relations /\ t.grants = st.grants
  BY DEF Sound, IsState
<1>3. TargetExists(st, m.key.target) BY DEF CanApply
<1> HIDE DEF t
<1>4. DOMAIN t.facets = DOMAIN st.facets \cup {m.key} BY <1>2 DEF Upsert
<1> QED BY <1>1, <1>2, <1>3, <1>4 DEF Sound, ReferentialIntegrity, TargetExists

\* Removing a facet takes no reference target away.
LEMMA RemoveFacetSound ==
    ASSUME NEW st, Sound(st), NEW m, m.op = "RemoveFacet"
    PROVE  Sound(ApplyMutation(st, m))
<1> DEFINE t == [st EXCEPT !.facets = Without(@, {m.key})]
<1>1. ApplyMutation(st, m) = t BY DEF ApplyMutation
<1>2. /\ IsState(t)
      /\ t.facets = Without(st.facets, {m.key})
      /\ t.entities = st.entities /\ t.relations = st.relations /\ t.grants = st.grants
  BY DEF Sound, IsState
<1> HIDE DEF t
<1>3. DOMAIN t.facets \subseteq DOMAIN st.facets BY <1>2 DEF Without, Restrict
<1>4. ReferentialIntegrity(t) BY <1>2, <1>3 DEF Sound, ReferentialIntegrity, TargetExists
<1> QED BY <1>1, <1>2, <1>4 DEF Sound

\* A grant is given over an entity that exists.
LEMMA GrantControlSound ==
    ASSUME NEW st, Sound(st), NEW m, m.op = "GrantControl", CanApply(st, m)
    PROVE  Sound(ApplyMutation(st, m))
<1> DEFINE t == [st EXCEPT !.grants = Upsert(@, m.id, m.grant)]
<1>1. ApplyMutation(st, m) = t BY DEF ApplyMutation
<1>2. /\ IsState(t)
      /\ t.grants = Upsert(st.grants, m.id, m.grant)
      /\ t.entities = st.entities /\ t.relations = st.relations /\ t.facets = st.facets
  BY DEF Sound, IsState
<1>3. m.grant.actor \in st.entities BY DEF CanApply
<1> HIDE DEF t
<1>4. /\ DOMAIN t.grants = DOMAIN st.grants \cup {m.id}
      /\ t.grants[m.id] = m.grant
      /\ \A g \in DOMAIN st.grants : g # m.id => t.grants[g] = st.grants[g]
  BY <1>2 DEF Upsert
<1> QED BY <1>1, <1>2, <1>3, <1>4 DEF Sound, ReferentialIntegrity, TargetExists

\* Revoking a grant takes no reference target away.
LEMMA RevokeControlSound ==
    ASSUME NEW st, Sound(st), NEW m, m.op = "RevokeControl"
    PROVE  Sound(ApplyMutation(st, m))
<1> DEFINE t == [st EXCEPT !.grants = Without(@, {m.id})]
<1>1. ApplyMutation(st, m) = t BY DEF ApplyMutation
<1>2. /\ IsState(t)
      /\ t.grants = Without(st.grants, {m.id})
      /\ t.entities = st.entities /\ t.relations = st.relations /\ t.facets = st.facets
  BY DEF Sound, IsState
<1> HIDE DEF t
<1>3. /\ DOMAIN t.grants \subseteq DOMAIN st.grants
      /\ \A g \in DOMAIN t.grants : t.grants[g] = st.grants[g]
  BY <1>2 DEF Without, Restrict
<1>4. \A k \in DOMAIN t.facets : TargetExists(t, k.target)
  BY <1>2 DEF Sound, ReferentialIntegrity, TargetExists
<1>5. \A g \in DOMAIN t.grants : t.grants[g].actor \in t.entities
  BY <1>2, <1>3 DEF Sound, ReferentialIntegrity
<1>6. \A r \in DOMAIN t.relations : {t.relations[r][1], t.relations[r][2]} \subseteq t.entities
  BY <1>2 DEF Sound, ReferentialIntegrity
<1> QED BY <1>1, <1>2, <1>4, <1>5, <1>6 DEF Sound, ReferentialIntegrity

\* Dropping relations takes the facets on them along.
LEMMA DropRelationsSound ==
    ASSUME NEW st, Sound(st), NEW rs
    PROVE  LET t == DropRelations(st, rs) IN
           /\ Sound(t)
           /\ t.entities = st.entities /\ t.grants = st.grants
           /\ DOMAIN t.relations = DOMAIN st.relations \ rs
           /\ \A r \in DOMAIN t.relations : t.relations[r] = st.relations[r]
<1> DEFINE gone == FacetsOn(st, {RelationTarget(r) : r \in rs})
           t == DropRelations(st, rs)
<1>0. t = [st EXCEPT !.relations = Without(@, rs), !.facets = Without(@, gone)]
  BY DEF DropRelations
<1> HIDE DEF t, gone
<1>1. /\ IsState(t)
      /\ t.entities = st.entities /\ t.grants = st.grants
      /\ t.relations = Without(st.relations, rs)
      /\ t.facets = Without(st.facets, gone)
  BY <1>0 DEF Sound, IsState
<1>2. /\ DOMAIN t.relations = DOMAIN st.relations \ rs
      /\ \A r \in DOMAIN t.relations : t.relations[r] = st.relations[r]
      /\ DOMAIN t.facets = DOMAIN st.facets \ gone
  BY <1>1 DEF Without, Restrict
<1>3. \A k \in DOMAIN t.facets : k.target \notin {RelationTarget(r) : r \in rs}
  BY <1>2 DEF FacetsOn, gone
<1>4. \A k \in DOMAIN t.facets : TargetExists(t, k.target)
  <2> SUFFICES ASSUME NEW k \in DOMAIN t.facets PROVE TargetExists(t, k.target)
    OBVIOUS
  <2>1. TargetExists(st, k.target) BY <1>2 DEF Sound, ReferentialIntegrity
  <2>2. ASSUME NEW r \in DOMAIN st.relations, k.target = RelationTarget(r)
        PROVE  r \in DOMAIN t.relations
    BY <1>2, <1>3, <2>2
  <2> QED BY <2>1, <2>2, <1>1 DEF TargetExists
<1>5. ReferentialIntegrity(t)
  BY <1>1, <1>2, <1>4 DEF Sound, ReferentialIntegrity
<1> QED BY <1>1, <1>2, <1>5 DEF Sound, t

\* Deleting an entity leaves nothing that points at it.
LEMMA DropEntitySound ==
    ASSUME NEW st, Sound(st), NEW e PROVE Sound(DropEntity(st, e))
<1> DEFINE s == DropRelations(st, RelationsAt(st, e))
           gone == FacetsOn(st, {EntityTarget(e)})
           t == DropEntity(st, e)
<1>1. /\ Sound(s)
      /\ s.entities = st.entities /\ s.grants = st.grants
      /\ DOMAIN s.relations = DOMAIN st.relations \ RelationsAt(st, e)
      /\ \A r \in DOMAIN s.relations : s.relations[r] = st.relations[r]
  BY DropRelationsSound
<1>2. DOMAIN s.facets \subseteq DOMAIN st.facets
  BY DEF DropRelations, Sound, IsState, Without, Restrict
<1> HIDE DEF s
<1>3. t = [s EXCEPT !.entities = @ \ {e},
                    !.facets = Without(@, gone),
                    !.grants = Without(@, GrantsFor(st, e))]
  BY DEF DropEntity, s
<1> HIDE DEF t
<1>4. /\ IsState(t)
      /\ t.entities = st.entities \ {e}
      /\ t.relations = s.relations
      /\ t.facets = Without(s.facets, gone)
      /\ t.grants = Without(st.grants, GrantsFor(st, e))
  BY <1>1, <1>3 DEF Sound, IsState
<1>5. /\ DOMAIN t.facets = DOMAIN s.facets \ gone
      /\ DOMAIN t.grants = DOMAIN st.grants \ GrantsFor(st, e)
      /\ \A g \in DOMAIN t.grants : t.grants[g] = st.grants[g]
  BY <1>4 DEF Without, Restrict
<1>6. \A r \in DOMAIN t.relations : {t.relations[r][1], t.relations[r][2]} \subseteq t.entities
  BY <1>1, <1>4 DEF Sound, ReferentialIntegrity, RelationsAt
<1>7. \A g \in DOMAIN t.grants : t.grants[g].actor \in t.entities
  BY <1>4, <1>5 DEF Sound, ReferentialIntegrity, GrantsFor
<1>8. \A k \in DOMAIN t.facets : TargetExists(t, k.target)
  <2> SUFFICES ASSUME NEW k \in DOMAIN t.facets PROVE TargetExists(t, k.target)
    OBVIOUS
  <2>1. TargetExists(s, k.target) BY <1>1, <1>5 DEF Sound, ReferentialIntegrity
  <2>2. k.target # EntityTarget(e) BY <1>2, <1>5 DEF FacetsOn
  <2> QED BY <2>1, <2>2, <1>1, <1>4 DEF TargetExists
<1> QED BY <1>4, <1>6, <1>7, <1>8 DEF Sound, ReferentialIntegrity, t

\* Every mutation that passed its checks keeps every reference alive.
LEMMA ApplySound ==
    ASSUME NEW st, Sound(st), NEW m, m.op \in Operations, CanApply(st, m)
    PROVE  Sound(ApplyMutation(st, m))
<1>1. CASE m.op = "DeleteEntity"
  BY <1>1, DropEntitySound DEF ApplyMutation
<1>2. CASE m.op = "DeleteRelation"
  BY <1>2, DropRelationsSound DEF ApplyMutation
<1> QED BY <1>1, <1>2, CreateEntitySound, CreateRelationSound, SetFacetSound,
           RemoveFacetSound, GrantControlSound, RevokeControlSound DEF Operations

-----------------------------------------------------------------------------
(* The inductive invariant.                                                *)

\* The open transaction: checked against the published tables, which cannot
\* have changed since, because nobody else can write.
OpenTransaction ==
    /\ sql = [open |-> TRUE, owner |-> sql.owner, command |-> sql.command,
              tx |-> sql.tx, next |-> sql.next, staged |-> sql.staged]
    /\ sql.owner \in Writers
    /\ sql.command \in Commands
    /\ sql.tx \in Transactions
    /\ sql.next \in 1 .. Len(sql.tx.mutations) + 1
    /\ Sound(sql.staged)
    /\ sql.command.id \notin DOMAIN commits
    /\ Ids(sql.tx.events) \cap DOMAIN events = {}
    /\ Ids(sql.tx.effects) \cap DOMAIN jobs = {}
    /\ position < MaxPosition

\* Commits and positions are in one-to-one correspondence.
PositionsMatch ==
    /\ \A id \in DOMAIN commits : commits[id].position \in 1 .. position
    /\ \A p \in 1 .. position : \E id \in DOMAIN commits : commits[id].position = p
    /\ \A a, b \in DOMAIN commits : commits[a].position = commits[b].position => a = b
    /\ \A e \in DOMAIN events : events[e] \in 1 .. position
    /\ \A j \in DOMAIN jobs : jobs[j] \in 1 .. position

StoreInv ==
    /\ position \in 0 .. MaxPosition
    /\ Sound(world)
    /\ PositionsMatch
    /\ sql = NoTransaction \/ OpenTransaction

\* An open transaction is one that was opened.
LEMMA OpenIsOpen ==
    ASSUME StoreInv PROVE sql.open => OpenTransaction
<1>1. NoTransaction.open = FALSE BY DEF NoTransaction
<1> QED BY <1>1 DEF StoreInv

\* The empty world satisfies the invariant.
LEMMA StoreInitInv == StoreInit => StoreInv
<1> SUFFICES ASSUME StoreInit PROVE StoreInv OBVIOUS
<1>1. Sound(EmptyWorld)
  BY DEF Sound, IsState, ReferentialIntegrity, EmptyWorld, NoRows
<1>2. PositionsMatch BY DEF StoreInit, PositionsMatch, NoRows
<1> QED BY <1>1, <1>2, PositionAssumption DEF StoreInit, StoreInv

\* A step that leaves the published tables and the transaction alone.
LEMMA SameStore ==
    ASSUME StoreInv, UNCHANGED <<world, position, commits, events, jobs, sql>>
    PROVE  StoreInv'
  BY DEF StoreInv, PositionsMatch, OpenTransaction, Sound, NoTransaction

\* A step that ends the transaction without publishing anything.
LEMMA Discarded ==
    ASSUME StoreInv, UNCHANGED <<world, position, commits, events, jobs>>, sql' = NoTransaction
    PROVE  StoreInv'
  BY DEF StoreInv, PositionsMatch, Sound, NoTransaction

\* A transaction opens on the published tables.
LEMMA BeginInv ==
    ASSUME StoreInv, NEW w \in Writers, NEW c \in Commands, NEW tx \in Transactions,
           NEW evaluated, CommitBegin(w, c, tx, evaluated)
    PROVE  StoreInv'
<1>1. /\ sql' = [open |-> TRUE, owner |-> w, command |-> c, tx |-> tx,
                 next |-> 1, staged |-> world]
      /\ UNCHANGED <<world, position, commits, events, jobs>>
      /\ c.id \notin DOMAIN commits
      /\ Ids(tx.events) \cap DOMAIN events = {}
      /\ Ids(tx.effects) \cap DOMAIN jobs = {}
      /\ position < MaxPosition
  BY DEF CommitBegin, durable, Known, CommitAllowed
<1>2. 1 \in 1 .. Len(tx.mutations) + 1
  <2>1. tx.mutations \in Seq(ToSet(tx.mutations)) BY TransactionAssumption
  <2>2. Len(tx.mutations) \in Nat BY <2>1
  <2> QED BY <2>2
<1>3. OpenTransaction'
  BY <1>1, <1>2 DEF OpenTransaction, StoreInv, Sound
<1> QED BY <1>1, <1>3 DEF StoreInv, PositionsMatch, Sound

\* One more mutation on the staged tables.
LEMMA MutationInv ==
    ASSUME StoreInv, NEW w \in Writers, CommitMutation(w) PROVE StoreInv'
<1>1. OpenTransaction BY OpenIsOpen DEF CommitMutation
<1>2. sql.tx.mutations \in Seq(ToSet(sql.tx.mutations))
  BY <1>1, TransactionAssumption DEF OpenTransaction
<1>3. Len(sql.tx.mutations) \in Nat /\ DOMAIN sql.tx.mutations = 1 .. Len(sql.tx.mutations)
  BY <1>2
<1>4. sql.next \in 1 .. Len(sql.tx.mutations)
  BY <1>1, <1>3 DEF OpenTransaction, CommitMutation, MutationsLeft
<1>5. NextMutation \in ToSet(sql.tx.mutations)
  BY <1>3, <1>4 DEF NextMutation, ToSet
<1>6. NextMutation.op \in Operations
  BY <1>1, <1>5, TransactionAssumption DEF OpenTransaction
<1>7. Sound(ApplyMutation(sql.staged, NextMutation))
  BY <1>1, <1>6, ApplySound DEF OpenTransaction, CommitMutation
<1>8. sql' = [open |-> TRUE, owner |-> sql.owner, command |-> sql.command, tx |-> sql.tx,
              next |-> sql.next + 1, staged |-> ApplyMutation(sql.staged, NextMutation)]
  BY <1>1 DEF OpenTransaction, CommitMutation
<1>9. UNCHANGED <<world, position, commits, events, jobs>> BY DEF CommitMutation, durable
<1>10. sql.next + 1 \in 1 .. Len(sql.tx.mutations) + 1 BY <1>3, <1>4
<1> HIDE DEF NextMutation
<1>11. OpenTransaction'
  BY <1>1, <1>7, <1>8, <1>9, <1>10 DEF OpenTransaction, Sound
<1> QED BY <1>9, <1>11 DEF StoreInv, PositionsMatch, Sound

\* Publishing adds one commit at the next position, its events and its jobs.
LEMMA FinishTables ==
    ASSUME StoreInv, NEW w \in Writers, CommitFinish(w)
    PROVE  /\ DOMAIN commits' = DOMAIN commits \cup {sql.command.id}
           /\ commits'[sql.command.id] = [command |-> sql.command, position |-> position + 1]
           /\ \A id \in DOMAIN commits : commits'[id] = commits[id]
           /\ DOMAIN events' = DOMAIN events \cup Ids(sql.tx.events)
           /\ \A e \in Ids(sql.tx.events) : events'[e] = position + 1
           /\ \A e \in DOMAIN events : events'[e] = events[e]
           /\ DOMAIN jobs' = DOMAIN jobs \cup Ids(sql.tx.effects)
           /\ \A j \in Ids(sql.tx.effects) : jobs'[j] = position + 1
           /\ \A j \in DOMAIN jobs : jobs'[j] = jobs[j]
<1>1. OpenTransaction BY OpenIsOpen DEF CommitFinish
<1>2. /\ commits' = Upsert(commits, sql.command.id,
                           [command |-> sql.command, position |-> position + 1])
      /\ events' = Merge(events, AtPosition(sql.tx.events, position + 1))
      /\ jobs' = Merge(jobs, AtPosition(sql.tx.effects, position + 1))
  BY DEF CommitFinish, NextPosition
<1>3. sql.command.id \notin DOMAIN commits BY <1>1 DEF OpenTransaction
<1>4. /\ DOMAIN commits' = DOMAIN commits \cup {sql.command.id}
      /\ commits'[sql.command.id] = [command |-> sql.command, position |-> position + 1]
      /\ \A id \in DOMAIN commits : commits'[id] = commits[id]
  BY <1>2, <1>3 DEF Upsert
<1>5. /\ DOMAIN events' = DOMAIN events \cup Ids(sql.tx.events)
      /\ \A e \in Ids(sql.tx.events) : events'[e] = position + 1
  BY <1>2 DEF Merge, AtPosition
<1>6. \A e \in DOMAIN events : events'[e] = events[e]
  BY <1>1, <1>2 DEF Merge, AtPosition, OpenTransaction
<1>7. /\ DOMAIN jobs' = DOMAIN jobs \cup Ids(sql.tx.effects)
      /\ \A j \in Ids(sql.tx.effects) : jobs'[j] = position + 1
  BY <1>2 DEF Merge, AtPosition
<1>8. \A j \in DOMAIN jobs : jobs'[j] = jobs[j]
  BY <1>1, <1>2 DEF Merge, AtPosition, OpenTransaction
<1> QED BY <1>4, <1>5, <1>6, <1>7, <1>8

\* COMMIT publishes a sound state under the next position, used by no commit yet.
LEMMA FinishInv ==
    ASSUME StoreInv, NEW w \in Writers, CommitFinish(w) PROVE StoreInv'
<1>1. OpenTransaction BY OpenIsOpen DEF CommitFinish
<1>2. position' = position + 1 /\ world' = sql.staged /\ sql' = NoTransaction
  BY DEF CommitFinish, NextPosition
<1>3. position \in Nat /\ position < MaxPosition /\ position' \in 0 .. MaxPosition
  BY <1>1, <1>2, PositionAssumption DEF StoreInv, OpenTransaction
<1>4. Sound(world)' BY <1>1, <1>2 DEF OpenTransaction, Sound
<1>5. PositionsMatch
  BY DEF StoreInv
<1>6. \A id \in DOMAIN commits' : commits'[id].position \in 1 .. position'
  BY <1>2, <1>3, <1>5, FinishTables DEF PositionsMatch
<1>7. \A p \in 1 .. position' : \E id \in DOMAIN commits' : commits'[id].position = p
  <2> SUFFICES ASSUME NEW p \in 1 .. position'
               PROVE  \E id \in DOMAIN commits' : commits'[id].position = p
    OBVIOUS
  <2>1. CASE p = position + 1
    BY <2>1, FinishTables
  <2>2. CASE p # position + 1
    <3>1. p \in 1 .. position BY <2>2, <1>2, <1>3
    <3>2. PICK id \in DOMAIN commits : commits[id].position = p
      BY <3>1, <1>5 DEF PositionsMatch
    <3> QED BY <3>2, FinishTables
  <2> QED BY <2>1, <2>2
<1>8. \A a, b \in DOMAIN commits' : commits'[a].position = commits'[b].position => a = b
  BY <1>3, <1>5, FinishTables DEF PositionsMatch
<1>9. \A e \in DOMAIN events' : events'[e] \in 1 .. position'
  BY <1>2, <1>3, <1>5, FinishTables DEF PositionsMatch
<1>10. \A j \in DOMAIN jobs' : jobs'[j] \in 1 .. position'
  BY <1>2, <1>3, <1>5, FinishTables DEF PositionsMatch
<1>11. PositionsMatch' BY <1>6, <1>7, <1>8, <1>9, <1>10 DEF PositionsMatch
<1> QED BY <1>2, <1>3, <1>4, <1>11 DEF StoreInv

\* Every step keeps the inductive invariant.
LEMMA StoreStepInv == StoreInv /\ [StoreNext]_storeVars => StoreInv'
<1> SUFFICES ASSUME StoreInv, [StoreNext]_storeVars PROVE StoreInv'
  OBVIOUS
<1>1. ASSUME NEW batch \in SchemaBatches, RegisterSchemas(batch) PROVE StoreInv'
  BY <1>1, SameStore DEF RegisterSchemas
<1>2. ASSUME NEW w \in Writers, NEW c \in Commands, NEW tx \in Transactions, NEW evaluated,
             Commit(w, c, tx, evaluated)
      PROVE  StoreInv'
  <2>1. CASE CommitBusy(w) BY <2>1, SameStore DEF CommitBusy, durable
  <2>2. CASE CommitReplay(w, c) BY <2>2, SameStore DEF CommitReplay, durable
  <2>3. CASE CommitRejected(w, c, tx, evaluated) BY <2>3, SameStore DEF CommitRejected, durable
  <2>4. CASE CommitBegin(w, c, tx, evaluated) BY <2>4, BeginInv
  <2> QED BY <1>2, <2>1, <2>2, <2>3, <2>4 DEF Commit
<1>3. ASSUME NEW w \in Writers, CommitMutation(w) PROVE StoreInv' BY <1>3, MutationInv
<1>4. ASSUME NEW w \in Writers, CommitRollback(w) PROVE StoreInv'
  BY <1>4, Discarded DEF CommitRollback, durable
<1>5. ASSUME NEW w \in Writers, CommitFinish(w) PROVE StoreInv' BY <1>5, FinishInv
<1>6. ASSUME NEW w \in Writers, CloseConnection(w) PROVE StoreInv'
  BY <1>6, Discarded, SameStore DEF CloseConnection, durable
<1>7. CASE UNCHANGED storeVars BY <1>7, SameStore DEF storeVars
<1> QED BY <1>1, <1>2, <1>3, <1>4, <1>5, <1>6, <1>7 DEF StoreNext

\* The inductive invariant holds of every behaviour of the store.
THEOREM StoreInvHolds == StoreSpec => []StoreInv
<1> QED BY StoreInitInv, StoreStepInv, PTL DEF StoreSpec

\* No relation, facet or grant ever points at a deleted row, published or staged:
\* the cascades of apply_mutation are complete.
THEOREM ReferencesHold == StoreSpec => []Referential
<1>1. StoreInv => Referential
  BY OpenIsOpen DEF StoreInv, OpenTransaction, Sound, Referential
<1> QED BY <1>1, StoreInvHolds, PTL

\* Every position belongs to exactly one command (insert_commit).
THEOREM PositionsOneToOne == StoreSpec => []OnePositionPerCommand
<1>1. ASSUME StoreInv PROVE OnePositionPerCommand
  <2>1. PositionsMatch BY <1>1 DEF StoreInv
  <2>2. {commits[id].position : id \in DOMAIN commits} = 1 .. position
    BY <2>1 DEF PositionsMatch
  <2> QED BY <2>1, <2>2 DEF PositionsMatch, OnePositionPerCommand
<1> QED BY <1>1, StoreInvHolds, PTL

\* What an identity stands for never changes once it is committed
\* (committed_receipt, reject_reused).
THEOREM IdentitiesKept == StoreSpec => IdentitiesFinal
<1> DEFINE Kept == Keeps(commits, commits') /\ Keeps(events, events') /\ Keeps(jobs, jobs')
<1>1. ASSUME StoreInv, [StoreNext]_storeVars PROVE Kept
  <2>1. CASE UNCHANGED <<commits, events, jobs>> BY <2>1 DEF Keeps
  <2>2. ASSUME NEW w \in Writers, CommitFinish(w) PROVE Kept
    BY <1>1, <2>2, FinishTables DEF Keeps
  <2> QED BY <1>1, <2>1, <2>2
          DEF StoreNext, storeVars, durable, RegisterSchemas, Commit, CommitBusy, CommitReplay,
              CommitRejected, CommitBegin, CommitMutation, CommitRollback, CloseConnection
<1>2. StoreInv /\ [StoreNext]_storeVars => [Kept]_storeVars BY <1>1
<1> QED BY <1>2, StoreInvHolds, PTL DEF StoreSpec, IdentitiesFinal

-----------------------------------------------------------------------------
(* Type correctness, given the inductive invariant.                        *)

\* What may be stored comes from the proposals.
LEMMA ProposedParts ==
    ASSUME NEW tx \in Transactions
    PROVE  /\ tx.mutations \in Seq(Proposed)
           /\ Ids(tx.events) \subseteq EventIds
           /\ Ids(tx.effects) \subseteq JobIds
<1>1. ToSet(tx.mutations) \subseteq Proposed BY DEF Proposed
<1>2. tx.mutations \in Seq(ToSet(tx.mutations)) BY TransactionAssumption
<1>3. tx.mutations \in Seq(Proposed) BY <1>1, <1>2
<1> QED BY <1>3 DEF EventIds, JobIds

\* The types that only the published tables have.
DurableTypes ==
    /\ registry \subseteq Definitions
    /\ IsTable(commits, CommandIds, [command : Commands, position : Positions])
    /\ log \in Seq(Seq(Proposed)) /\ Len(log) = position
    /\ IsTable(events, EventIds, Positions)
    /\ IsTable(jobs, JobIds, Positions)
    /\ DOMAIN reply = Writers

\* COMMIT adds one well-typed row to each table it touches.
LEMMA FinishTypes ==
    ASSUME StoreInv, DurableTypes, NEW w \in Writers, CommitFinish(w) PROVE DurableTypes'
<1>1. OpenTransaction BY OpenIsOpen DEF CommitFinish
<1>2. sql.tx \in Transactions /\ sql.command \in Commands BY <1>1 DEF OpenTransaction
<1>3. position' = position + 1 /\ position \in Nat /\ position + 1 \in Positions
  BY <1>1, PositionAssumption DEF StoreInv, OpenTransaction, CommitFinish, NextPosition, Positions
<1>4. IsTable(commits, CommandIds, [command : Commands, position : Positions])'
  <2>1. commits' = [id \in DOMAIN commits \cup {sql.command.id} |->
                      IF id = sql.command.id
                      THEN [command |-> sql.command, position |-> position + 1]
                      ELSE commits[id]]
    BY DEF CommitFinish, NextPosition, Upsert
  <2>2. sql.command.id \in CommandIds BY <1>2 DEF CommandIds
  <2>3. [command |-> sql.command, position |-> position + 1]
           \in [command : Commands, position : Positions]
    BY <1>2, <1>3
  <2> QED BY <2>1, <2>2, <2>3 DEF DurableTypes, IsTable
<1>5. IsTable(events, EventIds, Positions)'
  <2>1. events' = Merge(events, AtPosition(sql.tx.events, position + 1))
    BY DEF CommitFinish, NextPosition
  <2>2. Ids(sql.tx.events) \subseteq EventIds BY <1>2, ProposedParts
  <2> HIDE DEF Positions
  <2> QED BY <2>1, <2>2, <1>3 DEF DurableTypes, IsTable, Merge, AtPosition
<1>6. IsTable(jobs, JobIds, Positions)'
  <2>1. jobs' = Merge(jobs, AtPosition(sql.tx.effects, position + 1))
    BY DEF CommitFinish, NextPosition
  <2>2. Ids(sql.tx.effects) \subseteq JobIds BY <1>2, ProposedParts
  <2> QED BY <2>1, <2>2, <1>3 DEF DurableTypes, IsTable, Merge, AtPosition
<1>7. log' \in Seq(Seq(Proposed)) /\ Len(log') = position'
  BY <1>2, <1>3, ProposedParts DEF DurableTypes, CommitFinish
<1>8. registry' \subseteq Definitions /\ DOMAIN reply' = Writers
  BY DEF DurableTypes, CommitFinish, Answer
<1> QED BY <1>4, <1>5, <1>6, <1>7, <1>8 DEF DurableTypes

\* No step of the store adds a row of another type.
LEMMA TypesStep == StoreInv /\ DurableTypes /\ [StoreNext]_storeVars => DurableTypes'
<1> SUFFICES ASSUME StoreInv, DurableTypes, [StoreNext]_storeVars PROVE DurableTypes'
  OBVIOUS
<1> DEFINE Same == UNCHANGED <<registry, position, commits, log, events, jobs>>
<1>1. ASSUME Same, DOMAIN reply' = Writers PROVE DurableTypes'
  BY <1>1 DEF DurableTypes, IsTable
<1>2. DOMAIN reply = Writers BY DEF DurableTypes
<1>3. ASSUME NEW w, NEW r, Answer(w, r) PROVE DOMAIN reply' = Writers
  BY <1>2, <1>3 DEF Answer
<1>4. ASSUME NEW batch \in SchemaBatches, RegisterSchemas(batch) PROVE DurableTypes'
  BY <1>4 DEF RegisterSchemas, DurableTypes, Definitions, IsTable
<1>5. ASSUME NEW w \in Writers, NEW c \in Commands, NEW tx \in Transactions, NEW evaluated,
             Commit(w, c, tx, evaluated)
      PROVE  DurableTypes'
  BY <1>1, <1>3, <1>5
     DEF Commit, CommitBusy, CommitReplay, CommitRejected, CommitBegin, durable
<1>6. ASSUME NEW w \in Writers, CommitMutation(w) PROVE DurableTypes'
  BY <1>1, <1>2, <1>6 DEF CommitMutation, durable
<1>7. ASSUME NEW w \in Writers, CommitRollback(w) \/ CloseConnection(w) PROVE DurableTypes'
  BY <1>1, <1>3, <1>7 DEF CommitRollback, CloseConnection, durable
<1>8. ASSUME NEW w \in Writers, CommitFinish(w) PROVE DurableTypes' BY <1>8, FinishTypes
<1>9. CASE UNCHANGED storeVars BY <1>1, <1>2, <1>9 DEF storeVars
<1> QED BY <1>4, <1>5, <1>6, <1>7, <1>8, <1>9 DEF StoreNext

\* Empty tables are well typed.
LEMMA DurableTypesInit == StoreInit => DurableTypes
  BY DEF StoreInit, DurableTypes, IsTable, NoRows

\* The published tables have the types only they have.
THEOREM DurableTypesHold == StoreSpec => []DurableTypes
<1> QED BY DurableTypesInit, TypesStep, StoreInvHolds, PTL DEF StoreSpec

\* The tables always have their shape, and the log one entry per position.
THEOREM StoreTypeCorrect == StoreSpec => []StoreTypeOK
<1>1. StoreInv /\ DurableTypes => StoreTypeOK
  <2> SUFFICES ASSUME StoreInv, DurableTypes PROVE StoreTypeOK OBVIOUS
  <2>1. position \in Positions BY DEF StoreInv, Positions
  <2>2. sql.open \in BOOLEAN
    <3>1. CASE sql = NoTransaction BY <3>1 DEF NoTransaction
    <3>2. CASE OpenTransaction
      <4> DEFINE row == [open |-> TRUE, owner |-> sql.owner, command |-> sql.command,
                         tx |-> sql.tx, next |-> sql.next, staged |-> sql.staged]
      <4>1. sql = row BY <3>2, Zenon DEF OpenTransaction
      <4>2. row.open = TRUE OBVIOUS
      <4> HIDE DEF row
      <4>3. sql.open = row.open BY <4>1, Zenon
      <4> QED BY <4>2, <4>3, Zenon
    <3> QED BY <3>1, <3>2 DEF StoreInv
  <2>3. sql.open => /\ sql.owner \in Writers
                    /\ sql.command \in Commands
                    /\ sql.tx \in Transactions
                    /\ sql.next \in 1 .. Len(sql.tx.mutations) + 1
    BY OpenIsOpen DEF OpenTransaction
  <2> QED BY <2>1, <2>2, <2>3 DEF DurableTypes, StoreTypeOK
<1> QED BY <1>1, DurableTypesHold, StoreInvHolds, PTL

-----------------------------------------------------------------------------
(* Induction.  The least element of a set of numbers is the minimum, under *)
(* strict inclusion, among the intervals that end in it; so a property of  *)
(* all numbers is proved by showing that the set where it fails is empty.  *)

LEMMA LeastNumber ==
    ASSUME NEW T, T \subseteq Nat, T # {}
    PROVE  \E n \in T : \A m \in T : n <= m
<1> DEFINE Intervals == {1 .. n : n \in T}
<1>1. IsWellFoundedOn(StrictSubsetOrdering(Nat), FiniteSubsetsOf(Nat))
  BY FS_StrictSubsetOrderingWellFounded
<1>2. Intervals \subseteq FiniteSubsetsOf(Nat)
  BY FS_Interval DEF FiniteSubsetsOf
<1>3. Intervals # {} OBVIOUS
<1> HIDE DEF Intervals
<1>4. PICK s \in Intervals : \A t \in Intervals : ~(<<t, s>> \in StrictSubsetOrdering(Nat))
  BY <1>1, <1>2, <1>3, WFMin
<1> USE DEF Intervals
<1>5. PICK n \in T : s = 1 .. n BY <1>4
<1>6. ASSUME NEW m \in T, m < n PROVE FALSE
  <2>1. 1 .. m \in Intervals OBVIOUS
  <2>2. <<1 .. m, s>> \in StrictSubsetOrdering(Nat)
    BY <1>5, <1>6 DEF StrictSubsetOrdering
  <2> QED BY <2>1, <2>2, <1>4
<1> QED BY <1>6

\* A set with 0 and the successor of each of its numbers has all of them.
LEMMA NumberInduction ==
    ASSUME NEW S, 0 \in S, \A n \in Nat : n \in S => n + 1 \in S
    PROVE  Nat \subseteq S
<1> SUFFICES ASSUME ~(Nat \subseteq S) PROVE FALSE
  OBVIOUS
<1>1. PICK n \in Nat \ S : \A m \in Nat \ S : n <= m
  BY LeastNumber
<1>2. n # 0 /\ n - 1 \in Nat /\ ~(n <= n - 1) OBVIOUS
<1> QED BY <1>1, <1>2

-----------------------------------------------------------------------------
(* Replaying mutations.                                                    *)

\* f holds the tables before a list of mutations and after each of the first n.
Replays(f, st, mutations, n) ==
    f = [i \in 0 .. n |-> IF i = 0 THEN st ELSE ApplyMutation(f[i - 1], mutations[i])]

\* The recursive definition of StatesOf defines a function.
LEMMA StatesOfDef ==
    ASSUME NEW st, NEW mutations, Len(mutations) \in Nat
    PROVE  Replays(StatesOf(st, mutations), st, mutations, Len(mutations))
<1> DEFINE S == {n \in Nat : \E f : Replays(f, st, mutations, n)}
<1>1. 0 \in S
  <2>1. Replays([i \in 0 .. 0 |-> st], st, mutations, 0) BY DEF Replays
  <2> QED BY <2>1
<1>2. ASSUME NEW n \in Nat, n \in S PROVE n + 1 \in S
  <2>1. PICK f : Replays(f, st, mutations, n) BY <1>2
  <2> DEFINE g == [i \in 0 .. n + 1 |-> IF i = n + 1 THEN ApplyMutation(f[n], mutations[n + 1])
                                                     ELSE f[i]]
  <2>2. ASSUME NEW i \in 0 .. n + 1
        PROVE  g[i] = IF i = 0 THEN st ELSE ApplyMutation(g[i - 1], mutations[i])
    BY <2>1 DEF Replays
  <2> HIDE DEF g
  <2>3. g = [i \in 0 .. n + 1 |-> g[i]] BY DEF g
  <2>4. Replays(g, st, mutations, n + 1) BY <2>2, <2>3 DEF Replays
  <2> QED BY <2>4
<1>3. Nat \subseteq S BY <1>1, <1>2, NumberInduction
<1>4. \E f : Replays(f, st, mutations, Len(mutations)) BY <1>3
<1> QED BY <1>4 DEF StatesOf, Replays

\* The first tables are those before the list; each mutation makes the next.
LEMMA StatesOfSteps ==
    ASSUME NEW st, NEW mutations, Len(mutations) \in Nat
    PROVE  /\ StatesOf(st, mutations)[0] = st
           /\ \A i \in 1 .. Len(mutations) :
                 StatesOf(st, mutations)[i] = ApplyMutation(StatesOf(st, mutations)[i - 1], mutations[i])
<1> DEFINE f == StatesOf(st, mutations)
<1>1. Replays(f, st, mutations, Len(mutations)) BY StatesOfDef
<1> HIDE DEF f
<1>2. /\ f[0] = st
      /\ \A i \in 1 .. Len(mutations) : f[i] = ApplyMutation(f[i - 1], mutations[i])
  BY <1>1 DEF Replays
<1> QED BY <1>2 DEF f

\* f holds the worlds at position 0 and after each of the first n log entries.
Rebuilds(f, entries, n) ==
    f = [pos \in 0 .. n |-> IF pos = 0 THEN EmptyWorld ELSE ApplyAll(f[pos - 1], entries[pos])]

\* The recursive definition of WorldsOf defines a function.
LEMMA WorldsOfDef ==
    ASSUME NEW entries, Len(entries) \in Nat
    PROVE  Rebuilds(WorldsOf(entries), entries, Len(entries))
<1> DEFINE S == {n \in Nat : \E f : Rebuilds(f, entries, n)}
<1>1. 0 \in S
  <2>1. Rebuilds([pos \in 0 .. 0 |-> EmptyWorld], entries, 0) BY DEF Rebuilds
  <2> QED BY <2>1
<1>2. ASSUME NEW n \in Nat, n \in S PROVE n + 1 \in S
  <2>1. PICK f : Rebuilds(f, entries, n) BY <1>2
  <2> DEFINE g == [pos \in 0 .. n + 1 |-> IF pos = n + 1 THEN ApplyAll(f[n], entries[n + 1])
                                                         ELSE f[pos]]
  <2>2. ASSUME NEW pos \in 0 .. n + 1
        PROVE  g[pos] = IF pos = 0 THEN EmptyWorld ELSE ApplyAll(g[pos - 1], entries[pos])
    BY <2>1 DEF Rebuilds
  <2> HIDE DEF g
  <2>3. g = [pos \in 0 .. n + 1 |-> g[pos]] BY DEF g
  <2>4. Rebuilds(g, entries, n + 1) BY <2>2, <2>3 DEF Rebuilds
  <2> QED BY <2>4
<1>3. Nat \subseteq S BY <1>1, <1>2, NumberInduction
<1>4. \E f : Rebuilds(f, entries, Len(entries)) BY <1>3
<1> QED BY <1>4 DEF WorldsOf, Rebuilds

\* The world is empty at position 0, and each log entry makes the next.
LEMMA WorldsOfSteps ==
    ASSUME NEW entries, Len(entries) \in Nat
    PROVE  /\ WorldsOf(entries)[0] = EmptyWorld
           /\ \A pos \in 1 .. Len(entries) :
                 WorldsOf(entries)[pos] = ApplyAll(WorldsOf(entries)[pos - 1], entries[pos])
<1> DEFINE f == WorldsOf(entries)
<1>1. Rebuilds(f, entries, Len(entries)) BY WorldsOfDef
<1> HIDE DEF f
<1>2. /\ f[0] = EmptyWorld
      /\ \A pos \in 1 .. Len(entries) : f[pos] = ApplyAll(f[pos - 1], entries[pos])
  BY <1>1 DEF Rebuilds
<1> QED BY <1>2 DEF f

\* A new log entry leaves the earlier positions as they were and makes the last.
LEMMA WorldsOfAppend ==
    ASSUME NEW M, NEW entries \in Seq(M), NEW mutations \in M
    PROVE  /\ \A pos \in 0 .. Len(entries) :
                 WorldsOf(Append(entries, mutations))[pos] = WorldsOf(entries)[pos]
           /\ WorldsOf(Append(entries, mutations))[Len(entries) + 1]
                 = ApplyAll(WorldsOf(entries)[Len(entries)], mutations)
<1> DEFINE longer == Append(entries, mutations)
           S == {pos \in Nat : pos <= Len(entries) =>
                    WorldsOf(longer)[pos] = WorldsOf(entries)[pos]}
<1>1. /\ Len(entries) \in Nat /\ Len(longer) = Len(entries) + 1
      /\ \A pos \in 1 .. Len(entries) : longer[pos] = entries[pos]
      /\ longer[Len(entries) + 1] = mutations
  OBVIOUS
<1> HIDE DEF longer
<1>2. 0 \in S BY <1>1, WorldsOfSteps
<1>3. ASSUME NEW n \in Nat, n \in S PROVE n + 1 \in S
  <2> SUFFICES ASSUME n + 1 <= Len(entries)
               PROVE  WorldsOf(longer)[n + 1] = WorldsOf(entries)[n + 1]
    OBVIOUS
  <2>1. WorldsOf(longer)[n] = WorldsOf(entries)[n] BY <1>1, <1>3
  <2>2. n + 1 \in 1 .. Len(entries) /\ n + 1 \in 1 .. Len(longer) /\ (n + 1) - 1 = n BY <1>1
  <2>3. WorldsOf(longer)[n + 1] = ApplyAll(WorldsOf(longer)[n], longer[n + 1])
    <3>1. Len(longer) \in Nat BY <1>1
    <3>2. \A pos \in 1 .. Len(longer) :
             WorldsOf(longer)[pos] = ApplyAll(WorldsOf(longer)[pos - 1], longer[pos])
      BY <3>1, WorldsOfSteps
    <3> QED BY <2>2, <3>2
  <2>4. WorldsOf(entries)[n + 1] = ApplyAll(WorldsOf(entries)[n], entries[n + 1])
    BY <1>1, <2>2, WorldsOfSteps
  <2> QED BY <1>1, <2>1, <2>2, <2>3, <2>4
<1>4. Nat \subseteq S BY <1>2, <1>3, NumberInduction
<1>5. \A pos \in 0 .. Len(entries) : WorldsOf(longer)[pos] = WorldsOf(entries)[pos]
  BY <1>1, <1>4
<1>6. WorldsOf(longer)[Len(entries) + 1] = ApplyAll(WorldsOf(longer)[Len(entries)], mutations)
  <2>1. /\ Len(entries) + 1 \in 1 .. Len(longer) /\ (Len(entries) + 1) - 1 = Len(entries)
        /\ Len(longer) \in Nat
    BY <1>1
  <2> QED BY <1>1, <2>1, WorldsOfSteps
<1> QED BY <1>1, <1>5, <1>6 DEF longer

-----------------------------------------------------------------------------
(* The log and the tables.                                                 *)

\* While a transaction is open, its staged tables are the published ones after
\* the mutations it has applied, and its command is authorised in them.
StagedFromLog ==
    /\ sql.staged = StatesOf(world, sql.tx.mutations)[sql.next - 1]
    /\ Authorized(world, sql.command, position)

HistoryInv ==
    /\ LogRebuildsWorld
    /\ AuthorizedWhenCommitted
    /\ sql = NoTransaction \/ StagedFromLog

\* The empty log gives the empty world.
LEMMA HistoryInit == StoreInit => HistoryInv
<1> SUFFICES ASSUME StoreInit PROVE HistoryInv OBVIOUS
<1>1. log = <<>> /\ Len(log) = 0 BY DEF StoreInit
<1>2. WorldsOf(log)[0] = EmptyWorld BY <1>1, WorldsOfSteps
<1> QED BY <1>2
        DEF StoreInit, HistoryInv, LogRebuildsWorld, RebuiltAt, AuthorizedWhenCommitted, NoRows

\* COMMIT appends the mutations it staged to the log.
LEMMA HistoryFinish ==
    ASSUME StoreInv, DurableTypes, HistoryInv, NEW w \in Writers, CommitFinish(w)
    PROVE  HistoryInv'
<1>1. OpenTransaction BY OpenIsOpen DEF CommitFinish
<1>2. StagedFromLog
  <2>1. sql # NoTransaction BY DEF CommitFinish, NoTransaction
  <2> QED BY <2>1 DEF HistoryInv
<1> DEFINE ms == sql.tx.mutations
<1>3. /\ position' = position + 1 /\ world' = sql.staged /\ sql' = NoTransaction
      /\ log' = Append(log, ms)
  BY DEF CommitFinish, NextPosition
<1>4. ms \in Seq(Proposed) /\ Len(ms) \in Nat
  BY <1>1, ProposedParts DEF OpenTransaction
<1>5. log \in Seq(Seq(Proposed)) /\ Len(log) = position /\ position \in Nat
  BY DEF DurableTypes
<1>6. sql.next - 1 = Len(ms)
  BY <1>1, <1>4 DEF OpenTransaction, CommitFinish, MutationsLeft
<1>7. world' = ApplyAll(world, ms)
  BY <1>2, <1>3, <1>6 DEF StagedFromLog, ApplyAll
<1> HIDE DEF ms
<1>8. /\ \A pos \in 0 .. position : WorldsOf(log')[pos] = WorldsOf(log)[pos]
      /\ WorldsOf(log')[position + 1] = ApplyAll(WorldsOf(log)[position], ms)
  BY <1>3, <1>4, <1>5, WorldsOfAppend
<1>9. LogRebuildsWorld'
  BY <1>3, <1>7, <1>8 DEF HistoryInv, LogRebuildsWorld, RebuiltAt
<1>10. AuthorizedWhenCommitted'
  <2> SUFFICES ASSUME NEW id \in DOMAIN commits'
               PROVE  LET before == commits'[id].position - 1
                      IN  Authorized(WorldsOf(log')[before], commits'[id].command, before)
    BY DEF AuthorizedWhenCommitted, RebuiltAt
  <2>1. CASE id = sql.command.id
    <3>1. commits'[id] = [command |-> sql.command, position |-> position + 1]
      BY <2>1, FinishTables
    <3>2. commits'[id].position - 1 = position /\ commits'[id].command = sql.command
      BY <1>5, <3>1
    <3>3. WorldsOf(log')[position] = world
      BY <1>5, <1>8 DEF HistoryInv, LogRebuildsWorld, RebuiltAt
    <3> QED BY <3>2, <3>3, <1>2 DEF StagedFromLog
  <2>2. CASE id # sql.command.id
    <3>1. id \in DOMAIN commits /\ commits'[id] = commits[id] BY <2>2, FinishTables
    <3>2. commits[id].position - 1 \in 0 .. position
      BY <3>1, <1>5 DEF StoreInv, PositionsMatch
    <3>3. Authorized(WorldsOf(log)[commits[id].position - 1], commits[id].command,
                     commits[id].position - 1)
      BY <3>1 DEF HistoryInv, AuthorizedWhenCommitted, RebuiltAt
    <3> QED BY <3>1, <3>2, <3>3, <1>8
  <2> QED BY <2>1, <2>2
<1> QED BY <1>3, <1>9, <1>10 DEF HistoryInv

\* A mutation of the loop is the next one of the replay.
LEMMA HistoryMutation ==
    ASSUME StoreInv, HistoryInv, NEW w \in Writers, CommitMutation(w) PROVE HistoryInv'
<1>1. OpenTransaction BY OpenIsOpen DEF CommitMutation
<1>2. StagedFromLog
  <2>1. sql # NoTransaction BY DEF CommitMutation, NoTransaction
  <2> QED BY <2>1 DEF HistoryInv
<1>3. sql' = [open |-> TRUE, owner |-> sql.owner, command |-> sql.command, tx |-> sql.tx,
              next |-> sql.next + 1, staged |-> ApplyMutation(sql.staged, NextMutation)]
  BY <1>1 DEF OpenTransaction, CommitMutation
<1>4. UNCHANGED <<world, position, commits, log>> BY DEF CommitMutation, durable
<1>5. Len(sql.tx.mutations) \in Nat
  BY <1>1, ProposedParts DEF OpenTransaction
<1>6. sql.next \in 1 .. Len(sql.tx.mutations) /\ (sql.next + 1) - 1 = sql.next
  BY <1>1, <1>5 DEF OpenTransaction, CommitMutation, MutationsLeft
<1>7. ApplyMutation(sql.staged, NextMutation) = StatesOf(world, sql.tx.mutations)[sql.next]
  BY <1>2, <1>5, <1>6, StatesOfSteps DEF StagedFromLog, NextMutation
<1>8. StagedFromLog'
  BY <1>2, <1>3, <1>4, <1>6, <1>7 DEF StagedFromLog
<1> QED BY <1>4, <1>8 DEF HistoryInv, LogRebuildsWorld, AuthorizedWhenCommitted, RebuiltAt

\* A step that leaves the log, the tables and the transaction as they were, or
\* drops the transaction.
LEMMA HistorySame ==
    ASSUME HistoryInv, UNCHANGED <<world, position, commits, log>>,
           sql' = sql \/ sql' = NoTransaction
    PROVE  HistoryInv'
  BY DEF HistoryInv, LogRebuildsWorld, AuthorizedWhenCommitted, RebuiltAt, StagedFromLog,
         NoTransaction

\* A transaction starts from the published tables, where its command is valid.
LEMMA HistoryBegin ==
    ASSUME HistoryInv, NEW w \in Writers, NEW c \in Commands, NEW tx \in Transactions,
           NEW evaluated, CommitBegin(w, c, tx, evaluated)
    PROVE  HistoryInv'
<1>1. /\ sql' = [open |-> TRUE, owner |-> w, command |-> c, tx |-> tx,
                 next |-> 1, staged |-> world]
      /\ UNCHANGED <<world, position, commits, log>>
      /\ Authorized(world, c, position)
  BY DEF CommitBegin, durable, CommitAllowed, CommandValid
<1>2. StatesOf(world, tx.mutations)[0] = world
  BY ProposedParts, StatesOfSteps
<1>3. StagedFromLog' BY <1>1, <1>2 DEF StagedFromLog
<1> QED BY <1>1, <1>3 DEF HistoryInv, LogRebuildsWorld, AuthorizedWhenCommitted, RebuiltAt

\* Every step keeps the log and the tables together.
LEMMA HistoryStep ==
    StoreInv /\ DurableTypes /\ HistoryInv /\ [StoreNext]_storeVars => HistoryInv'
<1> SUFFICES ASSUME StoreInv, DurableTypes, HistoryInv, [StoreNext]_storeVars PROVE HistoryInv'
  OBVIOUS
<1>1. ASSUME NEW batch \in SchemaBatches, RegisterSchemas(batch) PROVE HistoryInv'
  BY <1>1, HistorySame DEF RegisterSchemas
<1>2. ASSUME NEW w \in Writers, NEW c \in Commands, NEW tx \in Transactions, NEW evaluated,
             Commit(w, c, tx, evaluated)
      PROVE  HistoryInv'
  BY <1>2, HistorySame, HistoryBegin
     DEF Commit, CommitBusy, CommitReplay, CommitRejected, durable
<1>3. ASSUME NEW w \in Writers, CommitMutation(w) PROVE HistoryInv' BY <1>3, HistoryMutation
<1>4. ASSUME NEW w \in Writers, CommitRollback(w) \/ CloseConnection(w) PROVE HistoryInv'
  BY <1>4, HistorySame DEF CommitRollback, CloseConnection, durable
<1>5. ASSUME NEW w \in Writers, CommitFinish(w) PROVE HistoryInv' BY <1>5, HistoryFinish
<1>6. CASE UNCHANGED storeVars BY <1>6, HistorySame DEF storeVars
<1> QED BY <1>1, <1>2, <1>3, <1>4, <1>5, <1>6 DEF StoreNext

\* The history invariant holds of every behaviour of the store.
THEOREM HistoryHolds == StoreSpec => []HistoryInv
<1> QED BY HistoryInit, HistoryStep, StoreInvHolds, DurableTypesHold, PTL DEF StoreSpec

\* Replaying the mutation log gives the current tables: no failed commit left
\* anything behind and no mutation is missing from the log (append_mutation).
THEOREM LogIsTheWorld == StoreSpec => []LogRebuildsWorld
<1>1. HistoryInv => LogRebuildsWorld BY DEF HistoryInv
<1> QED BY <1>1, HistoryHolds, PTL

\* No command took effect without authority at its own position
\* (authorize_command inside the commit transaction).
THEOREM AuthorityHolds == StoreSpec => []AuthorizedWhenCommitted
<1>1. HistoryInv => AuthorizedWhenCommitted BY DEF HistoryInv
<1> QED BY <1>1, HistoryHolds, PTL

-----------------------------------------------------------------------------
(* The runtimes over the store: the invariants.                            *)

\* What is proved of the store holds under its runtimes too.
StoreFacts == StoreInv /\ DurableTypes /\ HistoryInv

Results ==
    {Pending, Lost, Failed, Failure("CommandIdConflict")}
        \cup [kind : {"Committed", "AlreadyCommitted"}, position : Nat]

Row == [runtime : Runtimes, command : Commands, result : Results]
Answers == Results \ {Pending, Lost}
Phases == {"down", "running", "draining"}
Busy == {"lookup", "snapshot", "evaluate", "commit", "committing"}

RuntimeTypes ==
    /\ phase \in [Runtimes -> Phases]
    /\ queue \in [Runtimes -> Seq(Nat)]
    /\ tickets \in Seq(Row)
    /\ DOMAIN worker = Runtimes
    /\ \A r \in Runtimes : worker[r] = Idle \/ worker[r].pc \in Busy
    /\ \A r \in Runtimes :
          At(r, "lookup") => worker[r] = [pc |-> "lookup", ticket |-> worker[r].ticket]

PendingOf(r) == {n \in TicketNumbers : tickets[n].runtime = r /\ tickets[n].result = Pending}

\* What PendingTicketsAreHeld says of one runtime.
Held(r) ==
    /\ HeldBy(r) = PendingOf(r)
    /\ IsInjective(queue[r])
    /\ worker[r] # Idle => worker[r].ticket \notin ToSet(queue[r])
    /\ phase[r] = "down" => HeldBy(r) = {}

LEMMA HeldIsPending == PendingTicketsAreHeld <=> \A r \in Runtimes : Held(r)
  BY DEF PendingTicketsAreHeld, Held, PendingOf

-----------------------------------------------------------------------------
(* Channels: what the first and the last element do to the elements.       *)

LEMMA SequenceElements ==
    ASSUME NEW S, NEW q \in Seq(S)
    PROVE  /\ DOMAIN q = 1 .. Len(q) /\ Len(q) \in Nat
           /\ \A x : x \in ToSet(q) <=> \E i \in 1 .. Len(q) : x = q[i]
           /\ IsInjective(q) <=> \A i, j \in 1 .. Len(q) : q[i] = q[j] => i = j
  BY DEF ToSet, IsInjective

\* Receiving takes one element, the oldest, out of the channel.
LEMMA TailElements ==
    ASSUME NEW S, NEW q \in Seq(S), q # <<>>, IsInjective(q)
    PROVE  /\ Tail(q) \in Seq(S) /\ IsInjective(Tail(q))
           /\ Head(q) \notin ToSet(Tail(q))
           /\ ToSet(q) = ToSet(Tail(q)) \cup {Head(q)}
<1> DEFINE p == Tail(q)
<1>1. /\ p \in Seq(S) /\ Len(q) \in Nat \ {0} /\ Len(p) = Len(q) - 1
      /\ \A i \in 1 .. Len(q) - 1 : p[i] = q[i + 1]
      /\ Head(q) = q[1]
  OBVIOUS
<1> HIDE DEF p
<1>2. \A i, j \in 1 .. Len(q) : q[i] = q[j] => i = j BY SequenceElements
<1>3. \A i \in 1 .. Len(p) : i + 1 \in 1 .. Len(q) /\ p[i] = q[i + 1] /\ i + 1 # 1 BY <1>1
<1>4. \A i, j \in 1 .. Len(p) : p[i] = p[j] => i = j BY <1>1, <1>2, <1>3
<1>5. IsInjective(p) BY <1>1, <1>4, SequenceElements
<1>6. ASSUME Head(q) \in ToSet(p) PROVE FALSE
  <2>1. PICK i \in 1 .. Len(p) : q[1] = p[i] BY <1>1, <1>6, SequenceElements
  <2> QED BY <2>1, <1>1, <1>2, <1>3
<1>7. ASSUME NEW x \in ToSet(q), x # q[1] PROVE x \in ToSet(p)
  <2>1. PICK i \in 1 .. Len(q) : x = q[i] BY SequenceElements
  <2>2. i - 1 \in 1 .. Len(p) /\ (i - 1) + 1 = i BY <2>1, <1>1, <1>7
  <2>3. x = p[i - 1] BY <2>1, <2>2, <1>3
  <2> QED BY <2>2, <2>3, <1>1, SequenceElements
<1>8. ASSUME NEW x \in ToSet(p) PROVE x \in ToSet(q)
  <2>1. PICK i \in 1 .. Len(p) : x = p[i] BY <1>1, SequenceElements
  <2> QED BY <2>1, <1>3, SequenceElements
<1>9. q[1] \in ToSet(q)
  <2>1. 1 \in 1 .. Len(q) BY <1>1
  <2> QED BY <2>1, SequenceElements
<1>10. ToSet(q) = ToSet(p) \cup {Head(q)} BY <1>1, <1>7, <1>8, <1>9
<1> QED BY <1>1, <1>5, <1>6, <1>10 DEF p

\* Sending puts one new element at its end.
LEMMA AppendElements ==
    ASSUME NEW S, NEW q \in Seq(S), NEW x \in S
    PROVE  /\ Append(q, x) \in Seq(S)
           /\ ToSet(Append(q, x)) = ToSet(q) \cup {x}
           /\ IsInjective(q) /\ x \notin ToSet(q) => IsInjective(Append(q, x))
<1> DEFINE p == Append(q, x)
<1>1. /\ p \in Seq(S) /\ Len(q) \in Nat /\ Len(p) = Len(q) + 1
      /\ \A i \in 1 .. Len(q) : p[i] = q[i]
      /\ p[Len(q) + 1] = x
  OBVIOUS
<1> HIDE DEF p
<1>2. \A i \in 1 .. Len(p) : i \in 1 .. Len(q) \/ i = Len(q) + 1 BY <1>1
<1>3. \A i \in 1 .. Len(q) : i \in 1 .. Len(p) BY <1>1
<1>4. Len(q) + 1 \in 1 .. Len(p) BY <1>1
<1>5. ASSUME NEW y \in ToSet(p) PROVE y \in ToSet(q) \cup {x}
  <2>1. PICK i \in 1 .. Len(p) : y = p[i] BY <1>1, SequenceElements
  <2> QED BY <2>1, <1>1, <1>2, SequenceElements
<1>6. ASSUME NEW y \in ToSet(q) PROVE y \in ToSet(p)
  <2>1. PICK i \in 1 .. Len(q) : y = q[i] BY SequenceElements
  <2> QED BY <2>1, <1>1, <1>3, SequenceElements
<1>7. x \in ToSet(p) BY <1>1, <1>4, SequenceElements
<1>8. ASSUME IsInjective(q), x \notin ToSet(q) PROVE IsInjective(p)
  <2>1. \A i, j \in 1 .. Len(q) : q[i] = q[j] => i = j BY <1>8, SequenceElements
  <2>2. \A i \in 1 .. Len(q) : q[i] # x BY <1>8, SequenceElements
  <2>3. \A i, j \in 1 .. Len(p) : p[i] = p[j] => i = j BY <1>1, <1>2, <2>1, <2>2
  <2> QED BY <1>1, <2>3, SequenceElements
<1> QED BY <1>1, <1>5, <1>6, <1>7, <1>8 DEF p

\* Changing the result of one ticket.
LEMMA ResultSet ==
    ASSUME tickets \in Seq(Row), NEW t \in TicketNumbers, NEW outcome \in Results,
           tickets' = [tickets EXCEPT ![t].result = outcome]
    PROVE  /\ tickets' \in Seq(Row) /\ TicketNumbers' = TicketNumbers
           /\ tickets'[t].result = outcome
           /\ \A n \in TicketNumbers : /\ tickets'[n].runtime = tickets[n].runtime
                                       /\ tickets'[n].command = tickets[n].command
                                       /\ n # t => tickets'[n] = tickets[n]
<1>1. tickets[t] \in Row BY DEF TicketNumbers
<1> DEFINE row == [tickets[t] EXCEPT !.result = outcome]
<1>2. /\ row \in Row /\ row.result = outcome
      /\ row.runtime = tickets[t].runtime /\ row.command = tickets[t].command
  BY <1>1 DEF Row
<1>3. tickets' = [tickets EXCEPT ![t] = row] OBVIOUS
<1> HIDE DEF row, Row
<1>4. tickets' \in Seq(Row) /\ TicketNumbers' = TicketNumbers BY <1>2, <1>3 DEF TicketNumbers
<1>5. tickets'[t] = row /\ \A n \in TicketNumbers : n # t => tickets'[n] = tickets[n]
  BY <1>3 DEF TicketNumbers
<1> QED BY <1>2, <1>4, <1>5

-----------------------------------------------------------------------------
(* Tickets.                                                                *)

LEMMA BusyIsNotIdle == \A pc \in Busy : pc # Idle.pc
  BY DEF Busy, Idle

\* A busy worker holds a pending ticket of its own runtime.
LEMMA WorkerHolds ==
    ASSUME NEW r \in Runtimes, Held(r), worker[r] # Idle
    PROVE  /\ worker[r].ticket \in TicketNumbers
           /\ tickets[worker[r].ticket].runtime = r
           /\ tickets[worker[r].ticket].result = Pending
  BY DEF Held, HeldBy, PendingOf

\* The worker answers its ticket.
LEMMA TellHeld ==
    ASSUME RuntimeTypes, \A r \in Runtimes : Held(r),
           NEW r \in Runtimes, worker[r] # Idle, NEW result \in Answers, Tell(r, result),
           UNCHANGED <<phase, queue>>
    PROVE  RuntimeTypes' /\ \A s \in Runtimes : Held(s)'
<1> DEFINE t == worker[r].ticket
<1>1. t \in TicketNumbers /\ tickets[t].runtime = r /\ tickets[t].result = Pending
  BY WorkerHolds
<1>2. PICK outcome \in Answers : tickets' = [tickets EXCEPT ![t].result = outcome]
  <2>1. Outcomes(result) \subseteq Answers
    BY DEF Outcomes, Answers, Results, Failed, Failure, Pending, Lost
  <2> QED BY <2>1 DEF Tell
<1>3. worker' = [worker EXCEPT ![r] = Idle] BY DEF Tell, Goto
<1> HIDE DEF t
<1>4. /\ TicketNumbers' = TicketNumbers
      /\ \A n \in TicketNumbers : /\ tickets'[n].runtime = tickets[n].runtime
                                  /\ n # t => tickets'[n] = tickets[n]
      /\ tickets'[t].result = outcome
      /\ tickets' \in Seq(Row)
  BY <1>1, <1>2, ResultSet DEF RuntimeTypes, Answers
<1>5. RuntimeTypes' BY <1>3, <1>4 DEF RuntimeTypes, At, Idle
<1>6. outcome # Pending BY DEF Answers
<1>7. \A s \in Runtimes : PendingOf(s)' = PendingOf(s) \ {t}
  BY <1>1, <1>4, <1>6 DEF PendingOf, TicketNumbers
<1>8. \A s \in Runtimes : s # r => HeldBy(s)' = HeldBy(s) /\ t \notin PendingOf(s)
  BY <1>1, <1>3 DEF HeldBy, PendingOf, RuntimeTypes
<1>9. /\ worker'[r] = Idle /\ t \notin ToSet(queue[r])
      /\ HeldBy(r)' = HeldBy(r) \ {t}
  BY <1>3 DEF HeldBy, RuntimeTypes, Held, t
<1>10. ASSUME NEW s \in Runtimes PROVE Held(s)'
  <2>1. CASE s = r
    <3>1. HeldBy(r)' = PendingOf(r)' BY <1>7, <1>9 DEF Held
    <3>2. phase[r] # "down" BY DEF Held, HeldBy
    <3> QED BY <2>1, <3>1, <3>2, <1>9 DEF Held
  <2>2. CASE s # r
    <3>1. HeldBy(s)' = HeldBy(s) /\ PendingOf(s)' = PendingOf(s) BY <2>2, <1>7, <1>8
    <3>2. worker'[s] = worker[s] /\ queue'[s] = queue[s] /\ phase'[s] = phase[s]
      BY <2>2, <1>3 DEF RuntimeTypes
    <3> QED BY <3>1, <3>2 DEF Held
  <2> QED BY <2>1, <2>2
<1> QED BY <1>5, <1>10

\* The worker goes on with the ticket in its hands.
LEMMA ContinueHeld ==
    ASSUME RuntimeTypes, \A r \in Runtimes : Held(r),
           NEW r \in Runtimes, worker[r] # Idle, NEW w, Goto(r, w),
           w.pc \in Busy \ {"lookup"}, w.ticket = worker[r].ticket,
           UNCHANGED <<phase, queue, tickets>>
    PROVE  RuntimeTypes' /\ \A s \in Runtimes : Held(s)'
<1>1. w # Idle BY BusyIsNotIdle
<1>2. worker' = [worker EXCEPT ![r] = w] BY DEF Goto
<1>3. RuntimeTypes' BY <1>2 DEF RuntimeTypes, At
<1>4. \A s \in Runtimes : HeldBy(s)' = HeldBy(s) BY <1>1, <1>2 DEF HeldBy, RuntimeTypes
<1>5. ASSUME NEW s \in Runtimes PROVE Held(s)'
  BY <1>1, <1>2, <1>4 DEF Held, PendingOf, TicketNumbers, RuntimeTypes
<1> QED BY <1>3, <1>5

\* The worker takes the oldest ticket out of its channel.
LEMMA TakeHeld ==
    ASSUME RuntimeTypes, \A r \in Runtimes : Held(r), NEW r \in Runtimes, Take(r)
    PROVE  RuntimeTypes' /\ \A s \in Runtimes : Held(s)'
<1> DEFINE t == Head(queue[r])
           w == [pc |-> "lookup", ticket |-> t]
<1>1. /\ worker' = [worker EXCEPT ![r] = w]
      /\ queue' = [queue EXCEPT ![r] = Tail(@)]
      /\ UNCHANGED <<phase, tickets>>
      /\ queue[r] # <<>>
  BY DEF Take, Goto
<1>2. worker[r] = Idle BY DEF RuntimeTypes, Take, At, Busy
<1>3. w # Idle /\ w.pc = "lookup" /\ w.ticket = t BY DEF Idle
<1>4. queue[r] \in Seq(Nat) BY DEF RuntimeTypes
<1>5. IsInjective(queue[r]) BY DEF Held
<1>6. /\ Tail(queue[r]) \in Seq(Nat)
      /\ IsInjective(Tail(queue[r])) /\ t \notin ToSet(Tail(queue[r]))
      /\ ToSet(queue[r]) = ToSet(Tail(queue[r])) \cup {t}
  BY <1>1, <1>4, <1>5, TailElements
<1> HIDE DEF t
<1> HIDE DEF w
<1>9. \A s \in Runtimes : HeldBy(s)' = HeldBy(s)
  BY <1>1, <1>2, <1>3, <1>6 DEF HeldBy, RuntimeTypes
<1>10. RuntimeTypes'
  BY <1>1, <1>3, <1>6 DEF RuntimeTypes, At, Busy, w
<1>11. ASSUME NEW s \in Runtimes PROVE Held(s)'
  BY <1>1, <1>3, <1>6, <1>9 DEF Held, PendingOf, TicketNumbers, RuntimeTypes
<1> QED BY <1>10, <1>11

\* A new ticket is the last in the channel.
LEMMA SubmitHeld ==
    ASSUME RuntimeTypes, \A r \in Runtimes : Held(r), NEW r \in Runtimes, NEW c \in Commands,
           Submit(r, c)
    PROVE  RuntimeTypes' /\ \A s \in Runtimes : Held(s)'
<1> DEFINE t == Len(tickets) + 1
           row == [runtime |-> r, command |-> c, result |-> Pending]
<1>1. /\ tickets' = Append(tickets, row)
      /\ queue' = [queue EXCEPT ![r] = Append(@, t)]
      /\ UNCHANGED <<phase, worker>>
      /\ phase[r] = "running"
  BY DEF Submit
<1>2. row \in Row /\ row.runtime = r /\ row.result = Pending BY DEF Row, Results
<1> HIDE DEF row
<1>3. /\ TicketNumbers = 1 .. Len(tickets) /\ t \in Nat /\ t \notin TicketNumbers
      /\ tickets' \in Seq(Row) /\ DOMAIN tickets' = TicketNumbers \cup {t}
      /\ tickets'[t] = row /\ \A n \in TicketNumbers : tickets'[n] = tickets[n]
  BY <1>1, <1>2 DEF RuntimeTypes, TicketNumbers
<1> HIDE DEF t
<1>4. queue[r] \in Seq(Nat) BY DEF RuntimeTypes
<1>5. t \notin ToSet(queue[r]) /\ IsInjective(queue[r])
  BY <1>3 DEF Held, HeldBy, PendingOf
<1>6. /\ Append(queue[r], t) \in Seq(Nat)
      /\ ToSet(Append(queue[r], t)) = ToSet(queue[r]) \cup {t}
      /\ IsInjective(Append(queue[r], t))
  BY <1>3, <1>4, <1>5, AppendElements
<1>9. RuntimeTypes' BY <1>1, <1>3, <1>6 DEF RuntimeTypes, At
<1>10. \A s \in Runtimes : PendingOf(s)' = IF s = r THEN PendingOf(s) \cup {t} ELSE PendingOf(s)
  BY <1>2, <1>3 DEF PendingOf, TicketNumbers
<1>11. \A s \in Runtimes : HeldBy(s)' = IF s = r THEN HeldBy(s) \cup {t} ELSE HeldBy(s)
  BY <1>1, <1>6 DEF HeldBy, RuntimeTypes
<1>12. worker[r] # Idle => worker[r].ticket # t BY <1>3, WorkerHolds
<1>13. ASSUME NEW s \in Runtimes PROVE Held(s)'
  <2>1. CASE s = r
    BY <2>1, <1>1, <1>6, <1>10, <1>11, <1>12 DEF Held, RuntimeTypes
  <2>2. CASE s # r
    BY <2>2, <1>1, <1>10, <1>11 DEF Held, RuntimeTypes
  <2> QED BY <2>1, <2>2
<1> QED BY <1>9, <1>13

\* A crash loses exactly the tickets its runtime held.
LEMMA CrashHeld ==
    ASSUME RuntimeTypes, \A r \in Runtimes : Held(r), NEW r \in Runtimes, Crash(r)
    PROVE  RuntimeTypes' /\ \A s \in Runtimes : Held(s)'
<1>1. /\ phase' = [phase EXCEPT ![r] = "down"]
      /\ queue' = [queue EXCEPT ![r] = <<>>]
      /\ worker' = [worker EXCEPT ![r] = Idle]
      /\ tickets' = [n \in DOMAIN tickets |->
                       IF tickets[n].runtime = r /\ tickets[n].result = Pending
                       THEN [tickets[n] EXCEPT !.result = Lost] ELSE tickets[n]]
  BY DEF Crash
<1>2. Lost # Pending /\ Lost \in Results BY DEF Lost, Pending, Results
<1>3. /\ DOMAIN tickets' = TicketNumbers
      /\ \A n \in TicketNumbers :
            /\ tickets'[n] \in Row
            /\ tickets'[n].runtime = tickets[n].runtime
            /\ n \in PendingOf(r) => tickets'[n].result = Lost
            /\ n \notin PendingOf(r) => tickets'[n] = tickets[n]
  <2>1. \A n \in TicketNumbers : tickets[n] \in Row BY DEF RuntimeTypes, TicketNumbers
  <2> QED BY <1>1, <1>2, <2>1 DEF TicketNumbers, Row, PendingOf
<1>4. tickets' \in Seq(Row)
  <2>1. TicketNumbers = 1 .. Len(tickets) /\ Len(tickets) \in Nat
    BY DEF RuntimeTypes, TicketNumbers
  <2>2. tickets' = [n \in 1 .. Len(tickets) |-> tickets'[n]] BY <1>1, <2>1 DEF TicketNumbers
  <2> QED BY <2>1, <2>2, <1>3
<1>5. <<>> \in Seq(Nat) /\ ToSet(<<>>) = {} /\ IsInjective(<<>>) BY DEF ToSet, IsInjective
<1>6. RuntimeTypes' BY <1>1, <1>4, <1>5 DEF RuntimeTypes, At, Phases, Idle
<1>7. \A s \in Runtimes : PendingOf(s)' = IF s = r THEN {} ELSE PendingOf(s)
  BY <1>2, <1>3 DEF PendingOf, TicketNumbers
<1>8. \A s \in Runtimes : HeldBy(s)' = IF s = r THEN {} ELSE HeldBy(s)
  BY <1>1, <1>5 DEF HeldBy, RuntimeTypes
<1>9. ASSUME NEW s \in Runtimes PROVE Held(s)'
  BY <1>1, <1>5, <1>7, <1>8 DEF Held, RuntimeTypes
<1> QED BY <1>6, <1>9

\* A step that leaves tickets, channels and workers alone takes no runtime down.
LEMMA SameHeld ==
    ASSUME RuntimeTypes, \A r \in Runtimes : Held(r), UNCHANGED <<queue, worker, tickets>>,
           phase' \in [Runtimes -> Phases],
           \A r \in Runtimes : phase'[r] = "down" => phase[r] = "down" \/ HeldBy(r) = {}
    PROVE  RuntimeTypes' /\ \A s \in Runtimes : Held(s)'
<1>1. RuntimeTypes' BY DEF RuntimeTypes, At
<1>2. ASSUME NEW s \in Runtimes PROVE Held(s)'
  BY DEF Held, HeldBy, PendingOf, TicketNumbers
<1> QED BY <1>1, <1>2

-----------------------------------------------------------------------------
(* Evaluations: what a worker commits was evaluated in the state that its   *)
(* transaction starts from.                                                *)

\* What the worker of a runtime holds: a view of one position of the log, then
\* a proposal of its System for that view, then an answer or an open transaction.
Evaluation(r) ==
    /\ At(r, "evaluate") =>
          /\ worker[r].evaluated \in 0 .. position
          /\ worker[r].view = RebuiltAt(worker[r].evaluated)
    /\ At(r, "commit") =>
          /\ worker[r].evaluated \in 0 .. position
          /\ worker[r].tx \in Transactions
          /\ worker[r].tx \in Evaluate(CommandOf(r), RebuiltAt(worker[r].evaluated))
          /\ OutputAllowed(CommandOf(r), worker[r].tx)
    /\ reply[r] # NoReply => At(r, "committing")
    /\ reply[r] \in Answers \cup {NoReply}

\* The open transaction is the one of its owner's worker, evaluated in the
\* published tables; the mutations it has staged applied one after the other.
Transaction ==
    LET r == sql.owner
        mutations == sql.tx.mutations
    IN /\ At(r, "committing") /\ reply[r] = NoReply
       /\ sql.command = CommandOf(r)
       /\ sql.tx \in Evaluate(sql.command, world)
       /\ OutputAllowed(sql.command, sql.tx)
       /\ \A e \in sql.command.expected : e = position
       /\ \A i \in 1 .. sql.next - 1 : CanApply(StatesOf(world, mutations)[i - 1], mutations[i])

\* Nobody is told of a commit that is not there, and nobody but one.
Claims ==
    /\ \A n \in TicketNumbers :
          tickets[n].result.kind = "Committed" => tickets[n].command.id \in DOMAIN commits
    /\ CommittedIsToldOnce
    /\ \A r \in Runtimes : reply[r].kind = "Committed" =>
          /\ CommandOf(r).id \in DOMAIN commits
          /\ \A n \in TicketNumbers :
                tickets[n].result.kind = "Committed" => tickets[n].command.id # CommandOf(r).id
    /\ \A r, s \in Runtimes :
          reply[r].kind = "Committed" /\ reply[s].kind = "Committed" /\ CommandOf(r).id = CommandOf(s).id
             => r = s

RuntimeInv ==
    /\ RuntimeTypes
    /\ \A r \in Runtimes : Held(r)
    /\ \A r \in Runtimes : Evaluation(r)
    /\ sql = NoTransaction \/ Transaction
    /\ \A id \in DOMAIN commits : commits[id].command.id = id

Inv == StoreFacts /\ RuntimeInv

\* Nothing runs yet.
LEMMA RuntimeInitInv == Init => Inv /\ Claims
<1> SUFFICES ASSUME Init PROVE Inv /\ Claims OBVIOUS
<1>1. StoreInit BY DEF Init
<1>2. StoreFacts BY <1>1, StoreInitInv, HistoryInit, DurableTypesInit DEF StoreFacts
<1>3. RuntimeTypes
  <2>1. <<>> \in Seq(Nat) /\ <<>> \in Seq(Row) OBVIOUS
  <2> QED BY <2>1 DEF Init, RuntimeTypes, At, Idle, Phases
<1>4. tickets = <<>> /\ TicketNumbers = {} BY DEF Init, TicketNumbers
<1>5. ASSUME NEW r \in Runtimes PROVE Held(r)
  <2>1. ToSet(<<>>) = {} /\ IsInjective(<<>>) BY DEF ToSet, IsInjective
  <2> QED BY <2>1, <1>4 DEF Init, Held, HeldBy, PendingOf
<1>6. ASSUME NEW r \in Runtimes PROVE Evaluation(r)
  BY <1>1 DEF Init, StoreInit, Evaluation, At, Idle, Runtimes
<1>7. sql = NoTransaction /\ commits = NoRows /\ \A r \in Runtimes : reply[r] = NoReply
  BY <1>1 DEF StoreInit, Runtimes
<1>8. Claims
  BY <1>4, <1>7 DEF Claims, CommittedIsToldOnce, NoReply
<1> QED BY <1>2, <1>3, <1>5, <1>6, <1>7, <1>8 DEF Inv, RuntimeInv, NoRows

-----------------------------------------------------------------------------
(* The store under its runtimes.                                           *)

\* A step that at most takes a reply.
LEMMA ReplyTaken ==
    ASSUME StoreFacts, UNCHANGED <<durable, sql>>, DOMAIN reply' = Writers
    PROVE  StoreFacts'
<1>1. UNCHANGED <<registry, world, position, commits, log, events, jobs, sql>>
  BY DEF durable
<1>2. DurableTypes' BY <1>1 DEF StoreFacts, DurableTypes, IsTable
<1> QED BY <1>1, <1>2, SameStore, HistorySame DEF StoreFacts

\* A step of the store.
LEMMA StoreFactsKept == StoreFacts /\ [StoreNext]_storeVars => StoreFacts'
  BY StoreStepInv, TypesStep, HistoryStep DEF StoreFacts

\* The commit call of a worker is one the store allows.
LEMMA CallIsStoreStep ==
    ASSUME Inv, NEW r \in Runtimes, CommitCall(r)
    PROVE  /\ StoreNext
           /\ worker[r].tx \in Transactions /\ CommandOf(r) \in Commands
           /\ worker[r].evaluated \in 0 .. position
<1>1. worker[r] # Idle BY DEF CommitCall, At, Idle
<1>2. worker[r].ticket \in TicketNumbers BY <1>1, WorkerHolds DEF Inv, RuntimeInv
<1>3. CommandOf(r) \in Commands
  <2>1. tickets[worker[r].ticket] \in Row
    BY <1>2 DEF Inv, RuntimeInv, RuntimeTypes, TicketNumbers
  <2> QED BY <2>1 DEF Row, CommandOf
<1>4. worker[r].tx \in Transactions /\ worker[r].evaluated \in 0 .. position
  BY DEF Inv, RuntimeInv, Evaluation, CommitCall
<1> QED BY <1>3, <1>4 DEF CommitCall, StoreNext, Runtimes

\* Every step keeps what is proved of the store.
LEMMA StoreFactsStep == Inv /\ [Next]_vars => StoreFacts'
<1> SUFFICES ASSUME Inv, [Next]_vars PROVE StoreFacts' OBVIOUS
<1> USE DEF Runtimes
<1>1. StoreFacts BY DEF Inv
<1>2. CASE UNCHANGED storeVars BY <1>1, <1>2, StoreFactsKept
<1>3. ASSUME NEW batch \in SchemaBatches, RegisterSchemas(batch) PROVE StoreFacts'
  BY <1>1, <1>3, StoreFactsKept DEF StoreNext
<1>4. ASSUME NEW r \in Runtimes, Crash(r) PROVE StoreFacts'
  BY <1>1, <1>4, StoreFactsKept DEF StoreNext, Crash
<1>5. ASSUME NEW r \in Runtimes, CommitCall(r) PROVE StoreFacts'
  BY <1>1, <1>5, CallIsStoreStep, StoreFactsKept
<1>6. ASSUME NEW r \in Runtimes, CommitStep(r) PROVE StoreFacts'
  BY <1>1, <1>6, StoreFactsKept DEF StoreNext, CommitStep
<1>7. ASSUME NEW r \in Runtimes, CommitReturns(r) PROVE StoreFacts'
  <2>1. DOMAIN reply' = Writers BY <1>1, <1>7 DEF CommitReturns, Answer, StoreFacts, DurableTypes
  <2> QED BY <1>1, <1>7, <2>1, ReplyTaken DEF CommitReturns
<1>8. ASSUME NEW r \in Runtimes, NEW c, 
             \/ Start(r) \/ Shutdown(r) \/ Joined(r) \/ Submit(r, c)
             \/ Take(r) \/ Lookup(r) \/ TakeSnapshot(r) \/ EvaluateSystem(r)
      PROVE  UNCHANGED storeVars
  BY <1>8 DEF Start, Shutdown, Joined, Submit, Take, Lookup, TakeSnapshot, EvaluateSystem
<1> QED BY <1>2, <1>3, <1>4, <1>5, <1>6, <1>7, <1>8 DEF Next, vars, WorkerStep

-----------------------------------------------------------------------------
(* Steps of the runtimes.                                                  *)

\* A ticket keeps its command.
CommandsStay ==
    \A n \in TicketNumbers : n \in TicketNumbers' /\ tickets'[n].command = tickets[n].command

\* Nobody is told, or about to be told, of a commit who was not before.
NoNewClaim ==
    /\ CommandsStay
    /\ DOMAIN commits \subseteq DOMAIN commits'
    /\ \A n \in TicketNumbers' : tickets'[n].result.kind = "Committed" =>
          n \in TicketNumbers /\ tickets[n].result.kind = "Committed"
    /\ \A r \in Runtimes : reply'[r].kind = "Committed" =>
          reply[r].kind = "Committed" /\ worker'[r].ticket = worker[r].ticket

LEMMA RowsAreRows ==
    ASSUME RuntimeTypes, NEW n \in TicketNumbers
    PROVE  /\ tickets[n] \in Row /\ tickets[n].command \in Commands
           /\ tickets[n].result \in Results
<1>1. tickets[n] \in Row BY DEF RuntimeTypes, TicketNumbers
<1> QED BY <1>1 DEF Row

\* The command of a busy worker stays the same while it holds its ticket.
LEMMA CommandStays ==
    ASSUME Inv, CommandsStay, NEW r \in Runtimes, worker[r] # Idle,
           worker'[r].ticket = worker[r].ticket
    PROVE  CommandOf(r)' = CommandOf(r)
<1>1. worker[r].ticket \in TicketNumbers BY WorkerHolds DEF Inv, RuntimeInv
<1> QED BY <1>1 DEF CommandsStay, CommandOf

LEMMA PcIsBusy ==
    ASSUME NEW r \in Runtimes, NEW pc \in Busy, At(r, pc) PROVE worker[r] # Idle
  BY BusyIsNotIdle DEF At

\* A reply is of a call under way.
LEMMA ReplyIsBusy ==
    ASSUME Inv, NEW r \in Runtimes, reply[r] # NoReply PROVE At(r, "committing") /\ worker[r] # Idle
  BY PcIsBusy DEF Inv, RuntimeInv, Evaluation, Busy

LEMMA ClaimsKept ==
    ASSUME Inv, Claims, NoNewClaim PROVE Claims'
<1>1. CommandsStay BY DEF NoNewClaim
<1>2. \A n \in TicketNumbers' : tickets'[n].result.kind = "Committed" =>
         /\ n \in TicketNumbers /\ tickets[n].result.kind = "Committed"
         /\ tickets'[n].command = tickets[n].command
  BY DEF NoNewClaim, CommandsStay
<1>3. \A r \in Runtimes : reply'[r].kind = "Committed" =>
         /\ reply[r].kind = "Committed" /\ CommandOf(r)' = CommandOf(r)
  <2> SUFFICES ASSUME NEW r \in Runtimes, reply'[r].kind = "Committed"
               PROVE  reply[r].kind = "Committed" /\ CommandOf(r)' = CommandOf(r)
    OBVIOUS
  <2>1. reply[r].kind = "Committed" /\ worker'[r].ticket = worker[r].ticket BY DEF NoNewClaim
  <2>2. reply[r] # NoReply BY <2>1 DEF NoReply
  <2>3. worker[r] # Idle BY <2>2, ReplyIsBusy
  <2> QED BY <1>1, <2>1, <2>3, CommandStays
<1>4. DOMAIN commits \subseteq DOMAIN commits' BY DEF NoNewClaim
<1>5. (\A n \in TicketNumbers :
          tickets[n].result.kind = "Committed" => tickets[n].command.id \in DOMAIN commits)'
  BY <1>2, <1>4 DEF Claims
<1>6. CommittedIsToldOnce' BY <1>2 DEF Claims, CommittedIsToldOnce
<1>7. (\A r \in Runtimes : reply[r].kind = "Committed" =>
          /\ CommandOf(r).id \in DOMAIN commits
          /\ \A n \in TicketNumbers :
                tickets[n].result.kind = "Committed" => tickets[n].command.id # CommandOf(r).id)'
  BY <1>2, <1>3, <1>4 DEF Claims
<1>8. (\A r, s \in Runtimes :
          reply[r].kind = "Committed" /\ reply[s].kind = "Committed" /\ CommandOf(r).id = CommandOf(s).id
             => r = s)'
  BY <1>3 DEF Claims
<1> QED BY <1>5, <1>6, <1>7, <1>8 DEF Claims

\* The evaluation of a runtime that does nothing while the log stays as it is.
LEMMA EvaluationStays ==
    ASSUME Inv, CommandsStay, UNCHANGED <<log, position>>, NEW s \in Runtimes,
           worker'[s] = worker[s], reply'[s] = reply[s]
    PROVE  Evaluation(s)'
<1>1. Evaluation(s) BY DEF Inv, RuntimeInv
<1>2. \A pc : At(s, pc)' <=> At(s, pc) BY DEF At
<1>3. At(s, "commit") => CommandOf(s)' = CommandOf(s)
  <2>1. "commit" \in Busy BY DEF Busy
  <2> QED BY <2>1, CommandStays, PcIsBusy
<1>4. \A pos : RebuiltAt(pos)' = RebuiltAt(pos) BY DEF RebuiltAt
<1> QED BY <1>1, <1>2, <1>3, <1>4 DEF Evaluation

\* The transaction stays as it is while its owner does nothing.
LEMMA TransactionStays ==
    ASSUME Inv, CommandsStay, UNCHANGED <<world, position, sql>>,
           sql # NoTransaction => worker'[sql.owner] = worker[sql.owner]
                                  /\ reply'[sql.owner] = reply[sql.owner]
    PROVE  sql' = NoTransaction' \/ Transaction'
<1> SUFFICES ASSUME sql # NoTransaction PROVE Transaction'
  BY DEF NoTransaction
<1>1. Transaction BY DEF Inv, RuntimeInv
<1>2. sql.owner \in Runtimes BY DEF Inv, StoreFacts, StoreInv, OpenTransaction, Runtimes
<1>3. CommandOf(sql.owner)' = CommandOf(sql.owner)
  <2>1. "committing" \in Busy BY DEF Busy
  <2> QED BY <1>1, <1>2, <2>1, CommandStays, PcIsBusy DEF Transaction
<1> QED BY <1>1, <1>3 DEF Transaction, At

\* The owner of the transaction is in its commit call.
LEMMA OwnerIsCommitting ==
    ASSUME Inv, sql # NoTransaction
    PROVE  sql.owner \in Runtimes /\ At(sql.owner, "committing") /\ reply[sql.owner] = NoReply
  BY DEF Inv, RuntimeInv, Transaction, StoreFacts, StoreInv, OpenTransaction, Runtimes

\* A step of one runtime outside its commit call that leaves the store alone.
LEMMA OneWorker ==
    ASSUME Inv, CommandsStay, UNCHANGED <<world, position, commits, log, sql, reply>>,
           NEW r \in Runtimes, ~At(r, "committing"), Evaluation(r)',
           \A s \in Runtimes : s # r => worker'[s] = worker[s],
           RuntimeTypes', \A s \in Runtimes : Held(s)'
    PROVE  RuntimeInv'
<1>1. \A s \in Runtimes : Evaluation(s)'
  BY EvaluationStays
<1>2. sql' = NoTransaction' \/ Transaction'
  BY OwnerIsCommitting, TransactionStays
<1>3. \A id \in DOMAIN commits' : commits'[id].command.id = id BY DEF Inv, RuntimeInv
<1> QED BY <1>1, <1>2, <1>3 DEF RuntimeInv

\* A step in which no worker moves and the store stays, but for its definitions.
LEMMA NoWorker ==
    ASSUME Inv, CommandsStay, UNCHANGED <<world, position, commits, log, sql, reply, worker>>,
           RuntimeTypes', \A s \in Runtimes : Held(s)'
    PROVE  RuntimeInv'
<1>1. \A s \in Runtimes : Evaluation(s)' BY EvaluationStays
<1>2. sql' = NoTransaction' \/ Transaction' BY TransactionStays
<1>3. \A id \in DOMAIN commits' : commits'[id].command.id = id BY DEF Inv, RuntimeInv
<1> QED BY <1>1, <1>2, <1>3 DEF RuntimeInv

\* What an answer changes: one result.
LEMMA TellEffect ==
    ASSUME Inv, NEW r \in Runtimes, worker[r] # Idle, NEW result \in Answers, Tell(r, result)
    PROVE  /\ CommandsStay /\ TicketNumbers' = TicketNumbers
           /\ worker' = [worker EXCEPT ![r] = Idle]
           /\ worker[r].ticket \in TicketNumbers
           /\ tickets'[worker[r].ticket].result \in Outcomes(result)
           /\ \A n \in TicketNumbers : n # worker[r].ticket => tickets'[n] = tickets[n]
<1>1. worker[r].ticket \in TicketNumbers BY WorkerHolds DEF Inv, RuntimeInv
<1>2. PICK outcome \in Outcomes(result) :
         tickets' = [tickets EXCEPT ![worker[r].ticket].result = outcome]
  BY DEF Tell
<1>3. outcome \in Results
  BY <1>2 DEF Outcomes, Answers, Results, Failed, Failure
<1>4. tickets \in Seq(Row) BY DEF Inv, RuntimeInv, RuntimeTypes
<1>5. worker' = [worker EXCEPT ![r] = Idle] BY DEF Tell, Goto
<1>6. PICK n : n = worker[r].ticket OBVIOUS
<1>7. /\ TicketNumbers' = TicketNumbers
      /\ \A m \in TicketNumbers : tickets'[m].command = tickets[m].command
      /\ tickets'[n].result = outcome
      /\ \A m \in TicketNumbers : m # n => tickets'[m] = tickets[m]
  <2>1. n \in TicketNumbers /\ tickets' = [tickets EXCEPT ![n].result = outcome]
    BY <1>1, <1>2, <1>6
  <2> QED BY ONLY <2>1, <1>3, <1>4, ResultSet
<1> QED BY <1>1, <1>2, <1>5, <1>6, <1>7 DEF CommandsStay

\* An answer other than a commit makes no claim.
LEMMA TellNoClaim ==
    ASSUME Inv, NEW r \in Runtimes, worker[r] # Idle, NEW result \in Answers, Tell(r, result),
           result.kind # "Committed", UNCHANGED <<commits, reply>>, ~At(r, "committing")
    PROVE  NoNewClaim
<1>1. \A outcome \in Outcomes(result) : outcome.kind # "Committed"
  BY DEF Outcomes, Failed, Failure
<1>2. \A s \in Runtimes : reply[s].kind = "Committed" => s # r
  BY ReplyIsBusy DEF NoReply
<1>3. \A s \in Runtimes : s # r => worker'[s] = worker[s]
  BY TellEffect DEF Inv, RuntimeInv, RuntimeTypes
<1> QED BY <1>1, <1>2, <1>3, TellEffect DEF NoNewClaim

\* A worker outside its commit call that answers something else than a commit.
LEMMA TellInv ==
    ASSUME Inv, NEW r \in Runtimes, worker[r] # Idle, ~At(r, "committing"),
           NEW result \in Answers, Tell(r, result), result.kind # "Committed",
           UNCHANGED <<storeVars, phase, queue>>
    PROVE  RuntimeInv' /\ NoNewClaim
<1>1. UNCHANGED <<world, position, commits, log, sql, reply>> BY DEF storeVars
<1>2. RuntimeTypes' /\ \A s \in Runtimes : Held(s)' BY TellHeld DEF Inv, RuntimeInv
<1>3. /\ CommandsStay
      /\ worker'[r] = Idle /\ \A s \in Runtimes : s # r => worker'[s] = worker[s]
  BY TellEffect DEF Inv, RuntimeInv, RuntimeTypes
<1>4. Evaluation(r)' BY <1>1, <1>3 DEF Inv, RuntimeInv, Evaluation, At, Idle
<1>5. RuntimeInv' BY <1>1, <1>2, <1>3, <1>4, OneWorker
<1>6. NoNewClaim BY <1>1, TellNoClaim
<1> QED BY <1>5, <1>6

\* A worker outside its commit call that goes on.
LEMMA ContinueInv ==
    ASSUME Inv, NEW r \in Runtimes, worker[r] # Idle, ~At(r, "committing"),
           NEW w, Continue(r, w), w.pc \in {"snapshot", "evaluate", "commit"},
           w.ticket = worker[r].ticket,
           UNCHANGED <<storeVars, phase, queue>>, Evaluation(r)'
    PROVE  RuntimeInv' /\ NoNewClaim
<1>1. UNCHANGED <<world, position, commits, log, sql, reply, tickets>>
  BY DEF storeVars, Continue
<1>2. w.pc \in Busy \ {"lookup"} BY DEF Busy
<1>3. RuntimeTypes' /\ \A s \in Runtimes : Held(s)'
  BY <1>2, ContinueHeld DEF Inv, RuntimeInv, Continue
<1>4. worker'[r] = w /\ \A s \in Runtimes : s # r => worker'[s] = worker[s]
  BY DEF Inv, RuntimeInv, RuntimeTypes, Continue, Goto
<1>5. CommandsStay BY <1>1 DEF CommandsStay, TicketNumbers
<1>6. RuntimeInv' BY <1>1, <1>3, <1>4, <1>5, OneWorker
<1>7. NoNewClaim BY <1>1, <1>4, <1>5 DEF NoNewClaim, TicketNumbers
<1> QED BY <1>6, <1>7

LEMMA AnswerKinds ==
    /\ Failed \in Answers /\ Failed.kind # "Committed"
    /\ Failure("CommandIdConflict") \in Answers /\ Failure("CommandIdConflict").kind # "Committed"
    /\ \A pos \in Nat : /\ Receipt("AlreadyCommitted", pos) \in Answers
                        /\ Receipt("AlreadyCommitted", pos).kind # "Committed"
                        /\ Receipt("Committed", pos) \in Answers
    /\ \A answer \in Answers : answer # NoReply
  BY DEF Failed, Failure, Answers, Results, Receipt, Pending, Lost, NoReply

\* The stored receipt of a known command is not a first commit.
LEMMA ExistingAnswer ==
    ASSUME StoreFacts, NEW c, Known(c)
    PROVE  ExistingReceipt(c) \in Answers /\ ExistingReceipt(c).kind # "Committed"
<1>1. commits[c.id].position \in Nat
  BY DEF StoreFacts, StoreInv, PositionsMatch, Known
<1> QED BY <1>1, AnswerKinds DEF ExistingReceipt

LEMMA LookupInv ==
    ASSUME Inv, NEW r \in Runtimes, Lookup(r) PROVE RuntimeInv' /\ NoNewClaim
<1>1. worker[r] # Idle /\ ~At(r, "committing") /\ At(r, "lookup")
  BY PcIsBusy DEF Lookup, At, Busy
<1>2. UNCHANGED <<storeVars, phase, queue>> BY DEF Lookup
<1>3. CASE Known(CommandOf(r)) /\ Tell(r, ExistingReceipt(CommandOf(r)))
  BY <1>1, <1>2, <1>3, ExistingAnswer, TellInv DEF Inv
<1>4. CASE Tell(r, Failed) BY <1>1, <1>2, <1>4, AnswerKinds, TellInv
<1>5. CASE Continue(r, [worker[r] EXCEPT !.pc = "snapshot"])
  <2> DEFINE w == [worker[r] EXCEPT !.pc = "snapshot"]
  <2>1. w.pc = "snapshot" /\ w.ticket = worker[r].ticket
    BY <1>1 DEF Inv, RuntimeInv, RuntimeTypes
  <2> HIDE DEF w
  <2>2. worker'[r] = w /\ reply'[r] = reply[r]
    BY <1>2, <1>5 DEF Continue, Goto, Inv, RuntimeInv, RuntimeTypes, storeVars, w
  <2>3. Evaluation(r)'
    BY <1>1, <2>1, <2>2 DEF Evaluation, At, Inv, RuntimeInv
  <2> QED BY <1>1, <1>2, <1>5, <2>1, <2>3, ContinueInv DEF w
<1> QED BY <1>3, <1>4, <1>5 DEF Lookup

LEMMA SnapshotInv ==
    ASSUME Inv, NEW r \in Runtimes, TakeSnapshot(r) PROVE RuntimeInv' /\ NoNewClaim
<1>1. worker[r] # Idle /\ ~At(r, "committing") /\ At(r, "snapshot")
  BY PcIsBusy DEF TakeSnapshot, At, Busy
<1>2. UNCHANGED <<storeVars, phase, queue>> BY DEF TakeSnapshot
<1>3. CASE Tell(r, Failed) BY <1>1, <1>2, <1>3, AnswerKinds, TellInv
<1> DEFINE w == [pc |-> "evaluate", ticket |-> worker[r].ticket,
                 view |-> world, evaluated |-> position]
<1>4. CASE Continue(r, w)
  <2>1. w.pc = "evaluate" /\ w.ticket = worker[r].ticket /\ w.view = world /\ w.evaluated = position
    OBVIOUS
  <2> HIDE DEF w
  <2>2. worker'[r] = w /\ reply'[r] = reply[r] /\ UNCHANGED <<log, position, world>>
    BY <1>2, <1>4 DEF Continue, Goto, Inv, RuntimeInv, RuntimeTypes, storeVars
  <2>3. position \in 0 .. position /\ world = RebuiltAt(position)
    BY DEF Inv, StoreFacts, StoreInv, HistoryInv, LogRebuildsWorld
  <2>4. Evaluation(r)'
    BY <1>1, <2>1, <2>2, <2>3 DEF Evaluation, At, Inv, RuntimeInv, RebuiltAt
  <2> QED BY <1>1, <1>2, <1>4, <2>1, <2>4, ContinueInv
<1> QED BY <1>3, <1>4 DEF TakeSnapshot

LEMMA EvaluateInv ==
    ASSUME Inv, NEW r \in Runtimes, EvaluateSystem(r) PROVE RuntimeInv' /\ NoNewClaim
<1>1. worker[r] # Idle /\ ~At(r, "committing") /\ At(r, "evaluate")
  BY PcIsBusy DEF EvaluateSystem, At, Busy
<1>2. UNCHANGED <<storeVars, phase, queue>> BY DEF EvaluateSystem
<1>3. CASE Tell(r, Failed) BY <1>1, <1>2, <1>3, AnswerKinds, TellInv
<1>4. ASSUME NEW tx \in Transactions, tx \in Evaluate(CommandOf(r), worker[r].view),
             OutputAllowed(CommandOf(r), tx),
             Continue(r, [pc |-> "commit", ticket |-> worker[r].ticket,
                          tx |-> tx, evaluated |-> worker[r].evaluated])
      PROVE  RuntimeInv' /\ NoNewClaim
  <2> DEFINE w == [pc |-> "commit", ticket |-> worker[r].ticket,
                   tx |-> tx, evaluated |-> worker[r].evaluated]
  <2>1. w.pc = "commit" /\ w.ticket = worker[r].ticket /\ w.tx = tx
        /\ w.evaluated = worker[r].evaluated
    OBVIOUS
  <2> HIDE DEF w
  <2>2. worker'[r] = w /\ reply'[r] = reply[r] /\ UNCHANGED <<log, position, tickets>>
    BY <1>2, <1>4 DEF Continue, Goto, Inv, RuntimeInv, RuntimeTypes, storeVars, w
  <2>3. CommandOf(r)' = CommandOf(r) BY <2>1, <2>2 DEF CommandOf
  <2>4. /\ worker[r].evaluated \in 0 .. position
        /\ worker[r].view = RebuiltAt(worker[r].evaluated)
        /\ reply[r] = NoReply
    BY <1>1 DEF Evaluation, Inv, RuntimeInv
  <2>5. Evaluation(r)'
    BY <1>4, <2>1, <2>2, <2>3, <2>4 DEF Evaluation, At, RebuiltAt
  <2> QED BY <1>1, <1>2, <1>4, <2>1, <2>5, ContinueInv DEF w
<1> QED BY <1>3, <1>4 DEF EvaluateSystem

LEMMA TakeInv ==
    ASSUME Inv, NEW r \in Runtimes, Take(r) PROVE RuntimeInv' /\ NoNewClaim
<1>1. UNCHANGED <<world, position, commits, log, sql, reply, tickets>>
  BY DEF Take, storeVars
<1>2. ~At(r, "committing") /\ worker[r] = Idle
  BY DEF Take, At, Inv, RuntimeInv, RuntimeTypes, Busy
<1>3. RuntimeTypes' /\ \A s \in Runtimes : Held(s)' BY TakeHeld DEF Inv, RuntimeInv
<1>4. worker'[r].pc = "lookup" /\ \A s \in Runtimes : s # r => worker'[s] = worker[s]
  BY DEF Inv, RuntimeInv, RuntimeTypes, Take, Goto
<1>5. Evaluation(r)' BY <1>1, <1>2, <1>4 DEF Evaluation, At, Inv, RuntimeInv
<1>6. CommandsStay BY <1>1 DEF CommandsStay, TicketNumbers
<1>7. RuntimeInv' BY <1>1, <1>2, <1>3, <1>4, <1>5, <1>6, OneWorker
<1>8. reply[r].kind # "Committed"
  BY <1>2, ReplyIsBusy DEF NoReply
<1>9. NoNewClaim BY <1>1, <1>4, <1>6, <1>8 DEF NoNewClaim, TicketNumbers
<1> QED BY <1>7, <1>9

\* A step in which no worker, no ticket's result and no reply changes.
LEMMA QuietInv ==
    ASSUME Inv, CommandsStay, UNCHANGED <<world, position, commits, log, sql, reply, worker>>,
           RuntimeTypes', \A s \in Runtimes : Held(s)',
           \A n \in TicketNumbers' : tickets'[n].result.kind = "Committed" =>
              n \in TicketNumbers /\ tickets[n].result.kind = "Committed"
    PROVE  RuntimeInv' /\ NoNewClaim
  BY NoWorker DEF NoNewClaim

LEMMA SubmitInv ==
    ASSUME Inv, NEW r \in Runtimes, NEW c \in Commands, Submit(r, c)
    PROVE  RuntimeInv' /\ NoNewClaim
<1>1. UNCHANGED <<world, position, commits, log, sql, reply, worker>>
  BY DEF Submit, storeVars
<1>2. RuntimeTypes' /\ \A s \in Runtimes : Held(s)' BY SubmitHeld DEF Inv, RuntimeInv
<1>3. tickets \in Seq(Row) BY DEF Inv, RuntimeInv, RuntimeTypes
<1> DEFINE row == [runtime |-> r, command |-> c, result |-> Pending]
<1>4. tickets' = Append(tickets, row) /\ row \in Row /\ row.result.kind # "Committed"
  BY DEF Submit, Row, Results, Pending
<1> HIDE DEF row
<1>5. /\ \A n \in TicketNumbers : n \in TicketNumbers' /\ tickets'[n] = tickets[n]
      /\ \A n \in TicketNumbers' : n \in TicketNumbers \/ tickets'[n] = row
  BY <1>3, <1>4 DEF TicketNumbers
<1> QED BY <1>1, <1>2, <1>4, <1>5, QuietInv DEF CommandsStay

LEMMA PhaseInv ==
    ASSUME Inv, NEW r \in Runtimes, Start(r) \/ Shutdown(r) \/ Joined(r)
    PROVE  RuntimeInv' /\ NoNewClaim
<1>1. UNCHANGED <<world, position, commits, log, sql, reply, worker, tickets, queue>>
  BY DEF Start, Shutdown, Joined, storeVars
<1>2. RuntimeTypes /\ \A s \in Runtimes : Held(s) BY DEF Inv, RuntimeInv
<1>3. phase' \in [Runtimes -> Phases]
  BY <1>2 DEF Start, Shutdown, Joined, RuntimeTypes, Phases
<1>4. ASSUME NEW s \in Runtimes, phase'[s] = "down" PROVE phase[s] = "down" \/ HeldBy(s) = {}
  <2>1. ToSet(<<>>) = {} BY DEF ToSet
  <2> QED BY <1>2, <1>4, <2>1 DEF Start, Shutdown, Joined, RuntimeTypes, HeldBy
<1>5. RuntimeTypes' /\ \A s \in Runtimes : Held(s)' BY <1>1, <1>2, <1>3, <1>4, SameHeld
<1> QED BY <1>1, <1>5, QuietInv DEF CommandsStay, TicketNumbers

LEMMA RegisterInv ==
    ASSUME Inv, NEW batch \in SchemaBatches, RegisterSchemas(batch), UNCHANGED runtimeVars
    PROVE  RuntimeInv' /\ NoNewClaim
<1>1. UNCHANGED <<world, position, commits, log, sql, reply, worker, tickets, queue, phase>>
  BY DEF RegisterSchemas, runtimeVars
<1>2. RuntimeTypes /\ \A s \in Runtimes : Held(s) BY DEF Inv, RuntimeInv
<1>3. RuntimeTypes' /\ \A s \in Runtimes : Held(s)'
  <2>1. phase' \in [Runtimes -> Phases] BY <1>1, <1>2 DEF RuntimeTypes
  <2>2. \A s \in Runtimes : phase'[s] = "down" => phase[s] = "down" \/ HeldBy(s) = {} BY <1>1
  <2> QED BY <1>1, <1>2, <2>1, <2>2, SameHeld
<1> QED BY <1>1, <1>3, QuietInv DEF CommandsStay, TicketNumbers

\* A crash drops the transaction of its runtime and nobody else's.
LEMMA CrashInv ==
    ASSUME Inv, NEW r \in Runtimes, Crash(r) PROVE RuntimeInv' /\ NoNewClaim
<1>1. /\ UNCHANGED <<world, position, commits, log>>
      /\ sql' = IF sql.open /\ sql.owner = r THEN NoTransaction ELSE sql
      /\ reply' = [reply EXCEPT ![r] = NoReply]
      /\ worker' = [worker EXCEPT ![r] = Idle]
  BY DEF Crash, CloseConnection, durable, Answer
<1>2. DOMAIN reply = Runtimes /\ DOMAIN worker = Runtimes
  BY DEF Inv, StoreFacts, DurableTypes, RuntimeInv, RuntimeTypes, Runtimes
<1>3. RuntimeTypes' /\ \A s \in Runtimes : Held(s)' BY CrashHeld DEF Inv, RuntimeInv
<1>4. /\ TicketNumbers' = TicketNumbers
      /\ \A n \in TicketNumbers :
            /\ tickets'[n].command = tickets[n].command
            /\ tickets'[n].result = tickets[n].result \/ tickets'[n].result = Lost
  <2>1. \A n \in TicketNumbers : tickets[n] \in Row BY RowsAreRows DEF Inv, RuntimeInv
  <2> QED BY <2>1 DEF Crash, TicketNumbers, Row
<1>5. CommandsStay BY <1>4 DEF CommandsStay
<1>6. ASSUME NEW s \in Runtimes PROVE Evaluation(s)'
  <2>1. CASE s = r
    BY <2>1, <1>1, <1>2 DEF Evaluation, At, Idle
  <2>2. CASE s # r
    BY <2>2, <1>1, <1>2, <1>5, EvaluationStays
  <2> QED BY <2>1, <2>2
<1>7. sql' = NoTransaction' \/ Transaction'
  <2>1. CASE sql = NoTransaction BY <2>1, <1>1 DEF NoTransaction
  <2>2. CASE sql # NoTransaction /\ sql.owner # r
    <3>1. sql' = sql BY <2>2, <1>1
    <3>2. sql.owner \in Runtimes BY <2>2, OwnerIsCommitting
    <3> QED BY <2>2, <3>1, <3>2, <1>1, <1>2, <1>5, TransactionStays
  <2>3. CASE sql # NoTransaction /\ sql.owner = r
    <3>1. sql.open BY <2>3 DEF Inv, StoreFacts, StoreInv, OpenTransaction
    <3> QED BY <2>3, <3>1, <1>1 DEF NoTransaction
  <2> QED BY <2>1, <2>2, <2>3
<1>8. NoNewClaim
  <2>1. Lost.kind # "Committed" /\ NoReply.kind # "Committed" BY DEF Lost, NoReply
  <2> QED BY <2>1, <1>1, <1>2, <1>4, <1>5 DEF NoNewClaim
<1>9. \A id \in DOMAIN commits' : commits'[id].command.id = id BY <1>1 DEF Inv, RuntimeInv
<1> QED BY <1>3, <1>6, <1>7, <1>8, <1>9 DEF RuntimeInv

\* The commit call: its transaction is of the state its proposal was evaluated in.
LEMMA CallInv ==
    ASSUME Inv, NEW r \in Runtimes, CommitCall(r) PROVE RuntimeInv' /\ NoNewClaim
<1> DEFINE w == [pc |-> "committing", ticket |-> worker[r].ticket]
           c == CommandOf(r)
           tx == worker[r].tx
<1>1. worker[r] # Idle /\ ~At(r, "committing") /\ At(r, "commit")
  BY PcIsBusy DEF CommitCall, At, Busy
<1>2. /\ w.pc = "committing" /\ w.ticket = worker[r].ticket
      /\ Goto(r, w) /\ UNCHANGED <<phase, queue, tickets>>
  BY DEF CommitCall
<1> HIDE DEF w
<1>3. w.pc \in Busy \ {"lookup"} BY <1>2 DEF Busy
<1>4. RuntimeTypes' /\ \A s \in Runtimes : Held(s)'
  BY <1>1, <1>2, <1>3, ContinueHeld DEF Inv, RuntimeInv
<1>5. worker'[r] = w /\ \A s \in Runtimes : s # r => worker'[s] = worker[s]
  BY <1>2 DEF Inv, RuntimeInv, RuntimeTypes, Goto
<1>6. CommandsStay BY <1>2 DEF CommandsStay, TicketNumbers
<1>7. CommandOf(r)' = c BY <1>2, <1>5 DEF CommandOf
<1>8. /\ worker[r].evaluated \in 0 .. position
      /\ tx \in Transactions /\ tx \in Evaluate(c, RebuiltAt(worker[r].evaluated))
      /\ OutputAllowed(c, tx) /\ reply[r] = NoReply
  BY <1>1 DEF Inv, RuntimeInv, Evaluation
<1>9. DOMAIN reply = Runtimes BY DEF Inv, StoreFacts, DurableTypes, Runtimes
<1>10. UNCHANGED <<world, position, commits, log>>
  BY DEF CommitCall, Commit, CommitBusy, CommitReplay, CommitRejected, CommitBegin, durable
<1> DEFINE Called(a) == /\ a \in Answers \cup {NoReply}
                       /\ reply' = [reply EXCEPT ![r] = a]
                       /\ a.kind # "Committed"
                       /\ \/ sql' = sql
                          \/ a = NoReply /\ CommitBegin(r, c, tx, worker[r].evaluated)
<1>11. PICK answer : Called(answer)
  <2>1. CASE CommitBusy(r)
    <3>1. Called(Failed) BY <2>1, AnswerKinds DEF CommitBusy, Answer, Failed
    <3> QED BY <3>1
  <2>2. CASE CommitReplay(r, c)
    <3>1. Called(ExistingReceipt(c)) BY <2>2, ExistingAnswer DEF CommitReplay, Answer, Inv
    <3> QED BY <3>1
  <2>3. CASE CommitRejected(r, c, tx, worker[r].evaluated)
    <3>1. Called(Failed) BY <2>3, AnswerKinds DEF CommitRejected, Answer, Failed
    <3> QED BY <3>1
  <2>4. CASE CommitBegin(r, c, tx, worker[r].evaluated)
    <3>1. Called(NoReply) BY <2>4 DEF CommitBegin, Answer, NoReply
    <3> QED BY <3>1
  <2> QED BY <2>1, <2>2, <2>3, <2>4 DEF CommitCall, Commit
<1>12. reply'[r] = answer /\ \A s \in Runtimes : s # r => reply'[s] = reply[s]
  BY <1>9, <1>11
<1>13. ASSUME NEW s \in Runtimes PROVE Evaluation(s)'
  <2>1. CASE s = r
    BY <2>1, <1>2, <1>5, <1>11, <1>12 DEF Evaluation, At
  <2>2. CASE s # r
    BY <2>2, <1>5, <1>6, <1>10, <1>12, EvaluationStays
  <2> QED BY <2>1, <2>2
<1>14. sql' = NoTransaction' \/ Transaction'
  <2>1. CASE sql' = sql
    <3>1. sql # NoTransaction => sql.owner \in Runtimes /\ sql.owner # r
      BY <1>1, OwnerIsCommitting DEF At
    <3> QED BY <2>1, <3>1, <1>5, <1>6, <1>10, <1>12, TransactionStays
  <2>2. CASE answer = NoReply /\ CommitBegin(r, c, tx, worker[r].evaluated)
    <3>1. /\ sql' = [open |-> TRUE, owner |-> r, command |-> c, tx |-> tx,
                     next |-> 1, staged |-> world]
          /\ \A e \in c.expected : e = position
          /\ position = worker[r].evaluated
      BY <2>2 DEF CommitBegin, CommitAllowed, CommandValid
    <3>2. /\ sql'.owner = r /\ sql'.command = c /\ sql'.tx = tx /\ sql'.next = 1
      BY <3>1
    <3>3. world = RebuiltAt(position)
      BY DEF Inv, StoreFacts, HistoryInv, LogRebuildsWorld
    <3>4. reply'[r] = NoReply /\ At(r, "committing")'
      BY <2>2, <1>2, <1>5, <1>12 DEF At
    <3>5. \A i \in 1 .. sql'.next - 1 : FALSE BY <3>2
    <3> QED BY <1>7, <1>8, <1>10, <3>1, <3>2, <3>3, <3>4, <3>5 DEF Transaction
  <2> QED BY <1>11, <2>1, <2>2
<1>15. NoNewClaim
  BY <1>2, <1>5, <1>6, <1>10, <1>11, <1>12 DEF NoNewClaim, TicketNumbers
<1>16. \A id \in DOMAIN commits' : commits'[id].command.id = id
  BY <1>10 DEF Inv, RuntimeInv
<1> QED BY <1>4, <1>13, <1>14, <1>15, <1>16 DEF RuntimeInv

\* The statements of the commit call leave the runtime alone.
LEMMA RuntimeUntouched ==
    ASSUME Inv, UNCHANGED runtimeVars
    PROVE  /\ UNCHANGED <<phase, queue, worker, tickets>>
           /\ RuntimeTypes' /\ \A s \in Runtimes : Held(s)'
           /\ CommandsStay
<1>1. UNCHANGED <<phase, queue, worker, tickets>> BY DEF runtimeVars
<1>2. RuntimeTypes /\ \A s \in Runtimes : Held(s) BY DEF Inv, RuntimeInv
<1>3. phase' \in [Runtimes -> Phases] BY <1>1, <1>2 DEF RuntimeTypes
<1>4. \A s \in Runtimes : phase'[s] = "down" => phase[s] = "down" \/ HeldBy(s) = {} BY <1>1
<1>5. RuntimeTypes' /\ \A s \in Runtimes : Held(s)' BY <1>1, <1>2, <1>3, <1>4, SameHeld
<1> QED BY <1>1, <1>5 DEF CommandsStay, TicketNumbers

\* An open transaction belongs to a worker in its commit call.
LEMMA OpenTransactionFacts ==
    ASSUME Inv, sql.open
    PROVE  /\ sql # NoTransaction /\ Transaction /\ OpenTransaction /\ StagedFromLog
           /\ sql.owner \in Runtimes
<1>1. sql # NoTransaction BY DEF NoTransaction
<1> QED BY <1>1, OwnerIsCommitting DEF Inv, RuntimeInv, StoreFacts, StoreInv, HistoryInv

LEMMA MutationStepInv ==
    ASSUME Inv, NEW r \in Runtimes, CommitMutation(r), UNCHANGED runtimeVars
    PROVE  RuntimeInv' /\ NoNewClaim
<1>1. Transaction /\ OpenTransaction /\ StagedFromLog
  BY OpenTransactionFacts DEF CommitMutation
<1>2. UNCHANGED <<world, position, commits, log, reply>> BY DEF CommitMutation, durable
<1>3. /\ UNCHANGED <<phase, queue, worker, tickets>> /\ CommandsStay
      /\ RuntimeTypes' /\ \A s \in Runtimes : Held(s)'
  BY RuntimeUntouched
<1>4. \A s \in Runtimes : Evaluation(s)' BY <1>2, <1>3, EvaluationStays
<1>5. /\ sql'.owner = sql.owner /\ sql'.command = sql.command /\ sql'.tx = sql.tx
      /\ sql'.next = sql.next + 1
  <2>1. sql' = [open |-> TRUE, owner |-> sql.owner, command |-> sql.command, tx |-> sql.tx,
                next |-> sql.next + 1, staged |-> ApplyMutation(sql.staged, NextMutation)]
    BY <1>1 DEF OpenTransaction, CommitMutation
  <2> QED BY <2>1
<1>6. Len(sql.tx.mutations) \in Nat /\ sql.next \in Nat
  BY <1>1, ProposedParts DEF OpenTransaction
<1>7. CanApply(StatesOf(world, sql.tx.mutations)[sql.next - 1], sql.tx.mutations[sql.next])
  BY <1>1 DEF StagedFromLog, CommitMutation, NextMutation
<1>8. \A i \in 1 .. sql'.next - 1 : i \in 1 .. sql.next - 1 \/ i = sql.next
  BY <1>5, <1>6
<1>9. CommandOf(sql.owner)' = CommandOf(sql.owner) BY <1>3, <1>5 DEF CommandOf
<1>10. Transaction'
  BY <1>1, <1>2, <1>3, <1>5, <1>7, <1>8, <1>9 DEF Transaction, At
<1>11. NoNewClaim BY <1>2, <1>3 DEF NoNewClaim, TicketNumbers
<1>12. \A id \in DOMAIN commits' : commits'[id].command.id = id
  BY <1>2 DEF Inv, RuntimeInv
<1> QED BY <1>3, <1>4, <1>10, <1>11, <1>12 DEF RuntimeInv

LEMMA RollbackStepInv ==
    ASSUME Inv, NEW r \in Runtimes, CommitRollback(r), UNCHANGED runtimeVars
    PROVE  RuntimeInv' /\ NoNewClaim
<1>1. Transaction /\ sql.owner = r BY OpenTransactionFacts DEF CommitRollback
<1>2. /\ UNCHANGED <<world, position, commits, log>>
      /\ reply' = [reply EXCEPT ![r] = Failed] /\ sql' = NoTransaction
  BY DEF CommitRollback, durable, Answer, Failed
<1>3. /\ UNCHANGED <<phase, queue, worker, tickets>> /\ CommandsStay
      /\ RuntimeTypes' /\ \A s \in Runtimes : Held(s)'
  BY RuntimeUntouched
<1>4. DOMAIN reply = Runtimes BY DEF Inv, StoreFacts, DurableTypes, Runtimes
<1>5. ASSUME NEW s \in Runtimes PROVE Evaluation(s)'
  <2>1. CASE s = r
    <3>1. reply'[r] = Failed /\ Failed \in Answers BY <1>2, <1>4, AnswerKinds
    <3>2. worker'[r].pc = "committing" BY <1>1, <1>3 DEF Transaction, At
    <3> QED BY <2>1, <3>1, <3>2 DEF Evaluation, At
  <2>2. CASE s # r BY <2>2, <1>2, <1>3, <1>4, EvaluationStays
  <2> QED BY <2>1, <2>2
<1>6. NoNewClaim BY <1>2, <1>3, <1>4, AnswerKinds DEF NoNewClaim, TicketNumbers
<1>7. \A id \in DOMAIN commits' : commits'[id].command.id = id
  BY <1>2 DEF Inv, RuntimeInv
<1> QED BY <1>2, <1>3, <1>5, <1>6, <1>7 DEF RuntimeInv, NoTransaction

\* A commit leaves the earlier positions as they were.
LEMMA PastIsKept ==
    ASSUME Inv, NEW r \in Runtimes, CommitFinish(r)
    PROVE  /\ position \in Nat /\ position' = position + 1
           /\ \A pos \in 0 .. position : RebuiltAt(pos)' = RebuiltAt(pos)
<1>1. /\ position' = position + 1 /\ log' = Append(log, sql.tx.mutations)
  BY DEF CommitFinish, NextPosition
<1>2. sql.tx.mutations \in Seq(Proposed)
  BY OpenTransactionFacts, ProposedParts DEF CommitFinish, OpenTransaction
<1>3. log \in Seq(Seq(Proposed)) /\ Len(log) = position /\ position \in Nat
  BY DEF Inv, StoreFacts, DurableTypes
<1> DEFINE lists == Seq(Proposed)
<1> HIDE DEF lists
<1>4. \A pos \in 0 .. Len(log) : WorldsOf(Append(log, sql.tx.mutations))[pos] = WorldsOf(log)[pos]
  BY <1>2, <1>3, WorldsOfAppend DEF lists
<1> QED BY <1>1, <1>3, <1>4 DEF RebuiltAt

LEMMA FinishStepInv ==
    ASSUME Inv, Claims, NEW r \in Runtimes, CommitFinish(r), UNCHANGED runtimeVars
    PROVE  RuntimeInv' /\ Claims'
<1> DEFINE receipt == Receipt("Committed", position + 1)
           id == sql.command.id
<1>0. /\ position \in Nat /\ position' = position + 1
      /\ \A pos \in 0 .. position : RebuiltAt(pos)' = RebuiltAt(pos)
  BY PastIsKept
<1>1. /\ Transaction /\ OpenTransaction /\ sql.owner = r
      /\ At(r, "committing") /\ sql.command = CommandOf(r)
  BY OpenTransactionFacts DEF CommitFinish, Transaction
<1>2. reply' = [reply EXCEPT ![r] = receipt] /\ sql' = NoTransaction
  BY DEF CommitFinish, Answer, NextPosition
<1>3. /\ UNCHANGED <<phase, queue, worker, tickets>>
      /\ RuntimeTypes' /\ \A s \in Runtimes : Held(s)'
  BY RuntimeUntouched
<1>4. DOMAIN reply = Runtimes BY DEF Inv, StoreFacts, DurableTypes, Runtimes
<1>5. receipt \in Answers /\ receipt.kind = "Committed" /\ receipt # NoReply
  <2>1. position + 1 \in Nat BY <1>0
  <2>2. receipt \in Answers BY <2>1, AnswerKinds
  <2> QED BY <2>2, AnswerKinds DEF Receipt
<1> HIDE DEF receipt
<1>6. /\ StoreInv /\ DOMAIN commits' = DOMAIN commits \cup {id}
      /\ commits'[id].command = sql.command
      /\ \A k \in DOMAIN commits : commits'[k] = commits[k]
      /\ id \notin DOMAIN commits
  <2>1. StoreInv /\ r \in Writers BY DEF Inv, StoreFacts, Runtimes
  <2>2. commits'[id] = [command |-> sql.command, position |-> position + 1]
    BY <2>1, FinishTables
  <2>3. DOMAIN commits' = DOMAIN commits \cup {id} /\ \A k \in DOMAIN commits : commits'[k] = commits[k]
    BY <2>1, FinishTables
  <2> QED BY <1>1, <2>1, <2>2, <2>3 DEF OpenTransaction
<1>7. ASSUME NEW s \in Runtimes PROVE Evaluation(s)'
  <2>1. Evaluation(s) BY DEF Inv, RuntimeInv
  <2>2. reply'[s] = IF s = r THEN receipt ELSE reply[s] BY <1>2, <1>4
  <2>3. CommandOf(s)' = CommandOf(s) /\ \A pc : At(s, pc)' <=> At(s, pc)
    BY <1>3 DEF CommandOf, At
  <2>4. At(s, "evaluate") =>
          /\ worker[s].evaluated \in 0 .. position'
          /\ worker[s].view = RebuiltAt(worker[s].evaluated)'
    BY <2>1, <1>0, <1>3 DEF Evaluation
  <2>5. At(s, "commit") =>
          /\ worker[s].evaluated \in 0 .. position'
          /\ RebuiltAt(worker[s].evaluated)' = RebuiltAt(worker[s].evaluated)
    BY <2>1, <1>0, <1>3 DEF Evaluation
  <2> QED BY <1>1, <1>3, <1>5, <2>1, <2>2, <2>3, <2>4, <2>5 DEF Evaluation
<1>8. \A k \in DOMAIN commits' : commits'[k].command.id = k
  BY <1>6 DEF Inv, RuntimeInv
<1>9. RuntimeInv' BY <1>2, <1>3, <1>7, <1>8 DEF RuntimeInv, NoTransaction
<1>10. TicketNumbers' = TicketNumbers /\ \A s \in Runtimes : CommandOf(s)' = CommandOf(s)
  BY <1>3 DEF TicketNumbers, CommandOf
<1>11. \A s \in Runtimes : s # r => reply'[s] = reply[s]
  BY <1>2, <1>4
<1>12. /\ \A n \in TicketNumbers :
             tickets[n].result.kind = "Committed" => tickets[n].command.id # id
       /\ \A s \in Runtimes : reply[s].kind = "Committed" => CommandOf(s).id # id
  BY <1>6 DEF Claims
<1>13. CommandOf(r).id = id BY <1>1
<1> HIDE DEF id
<1>14. (\A n \in TicketNumbers :
          tickets[n].result.kind = "Committed" => tickets[n].command.id \in DOMAIN commits)'
  BY <1>3, <1>6, <1>10 DEF Claims
<1>15. CommittedIsToldOnce' BY <1>3, <1>10 DEF Claims, CommittedIsToldOnce
<1>16. (\A s \in Runtimes : reply[s].kind = "Committed" =>
          /\ CommandOf(s).id \in DOMAIN commits
          /\ \A n \in TicketNumbers :
                tickets[n].result.kind = "Committed" => tickets[n].command.id # CommandOf(s).id)'
  BY <1>3, <1>6, <1>10, <1>11, <1>12, <1>13 DEF Claims
<1>17. (\A s, u \in Runtimes :
          reply[s].kind = "Committed" /\ reply[u].kind = "Committed" /\ CommandOf(s).id = CommandOf(u).id
             => s = u)'
  BY <1>10, <1>11, <1>12, <1>13 DEF Claims
<1>18. Claims' BY <1>14, <1>15, <1>16, <1>17 DEF Claims
<1> QED BY <1>9, <1>18

\* The ticket takes over the claim of the reply.
LEMMA ReturnInv ==
    ASSUME Inv, Claims, NEW r \in Runtimes, CommitReturns(r)
    PROVE  RuntimeInv' /\ Claims'
<1> DEFINE t == worker[r].ticket
<1>1. /\ At(r, "committing") /\ reply[r] # NoReply /\ Tell(r, reply[r])
      /\ reply' = [reply EXCEPT ![r] = NoReply]
      /\ UNCHANGED <<world, position, commits, log, sql, phase, queue>>
  BY DEF CommitReturns, durable, Answer
<1>2. worker[r] # Idle BY <1>1, PcIsBusy DEF Busy
<1>3. reply[r] \in Answers BY <1>1 DEF Inv, RuntimeInv, Evaluation
<1>4. RuntimeTypes' /\ \A s \in Runtimes : Held(s)'
  BY <1>1, <1>2, <1>3, TellHeld DEF Inv, RuntimeInv
<1>5. /\ CommandsStay /\ TicketNumbers' = TicketNumbers
      /\ worker'[r] = Idle /\ \A s \in Runtimes : s # r => worker'[s] = worker[s]
      /\ t \in TicketNumbers /\ tickets'[t].result \in Outcomes(reply[r])
      /\ \A n \in TicketNumbers : n # t => tickets'[n] = tickets[n]
  BY <1>1, <1>2, <1>3, TellEffect DEF Inv, RuntimeInv, RuntimeTypes
<1>6. reply'[r] = NoReply /\ \A s \in Runtimes : s # r => reply'[s] = reply[s]
  BY <1>1 DEF Inv, StoreFacts, DurableTypes, Runtimes
<1>7. ASSUME NEW s \in Runtimes PROVE Evaluation(s)'
  <2>1. CASE s = r BY <2>1, <1>5, <1>6 DEF Evaluation, At, Idle
  <2>2. CASE s # r BY <2>2, <1>1, <1>5, <1>6, EvaluationStays
  <2> QED BY <2>1, <2>2
<1>8. sql' = NoTransaction' \/ Transaction'
  <2>1. sql # NoTransaction => sql.owner \in Runtimes /\ sql.owner # r
    BY <1>1, OwnerIsCommitting
  <2> QED BY <2>1, <1>1, <1>5, <1>6, TransactionStays
<1>9. \A id \in DOMAIN commits' : commits'[id].command.id = id
  BY <1>1 DEF Inv, RuntimeInv
<1>10. RuntimeInv' BY <1>4, <1>7, <1>8, <1>9 DEF RuntimeInv
<1> HIDE DEF t
<1>11. \A n \in TicketNumbers : tickets'[n].command = tickets[n].command
  BY <1>5 DEF CommandsStay
<1>12. tickets'[t].result.kind = "Committed" => reply[r].kind = "Committed"
  BY <1>5, AnswerKinds DEF Outcomes
<1>13. CommandOf(r) = tickets[t].command BY DEF CommandOf, t
<1>14. \A s \in Runtimes : reply'[s].kind = "Committed" =>
          s # r /\ reply[s].kind = "Committed" /\ CommandOf(s)' = CommandOf(s)
  <2> SUFFICES ASSUME NEW s \in Runtimes, reply'[s].kind = "Committed"
               PROVE  s # r /\ reply[s].kind = "Committed" /\ CommandOf(s)' = CommandOf(s)
    OBVIOUS
  <2>1. s # r /\ reply[s].kind = "Committed" BY <1>6 DEF NoReply
  <2>2. worker[s] # Idle BY <2>1, ReplyIsBusy DEF NoReply
  <2>3. CommandOf(s)' = CommandOf(s) BY <1>5, <2>1, <2>2, CommandStays
  <2> QED BY <2>1, <2>3
<1>15. (\A n \in TicketNumbers :
          tickets[n].result.kind = "Committed" => tickets[n].command.id \in DOMAIN commits)'
  BY <1>1, <1>5, <1>11, <1>12, <1>13 DEF Claims
<1>16. CommittedIsToldOnce'
  BY <1>5, <1>11, <1>12, <1>13 DEF Claims, CommittedIsToldOnce
<1>17. (\A s \in Runtimes : reply[s].kind = "Committed" =>
          /\ CommandOf(s).id \in DOMAIN commits
          /\ \A n \in TicketNumbers :
                tickets[n].result.kind = "Committed" => tickets[n].command.id # CommandOf(s).id)'
  BY <1>1, <1>5, <1>11, <1>12, <1>13, <1>14 DEF Claims
<1>18. (\A s, u \in Runtimes :
          reply[s].kind = "Committed" /\ reply[u].kind = "Committed" /\ CommandOf(s).id = CommandOf(u).id
             => s = u)'
  BY <1>14 DEF Claims
<1>19. Claims' BY <1>15, <1>16, <1>17, <1>18 DEF Claims
<1> QED BY <1>10, <1>19

\* Every step keeps the invariant and the claims.
LEMMA RuntimeStepInv == Inv /\ Claims /\ [Next]_vars => Inv' /\ Claims'
<1> SUFFICES ASSUME Inv, Claims, [Next]_vars PROVE RuntimeInv' /\ Claims'
  BY StoreFactsStep DEF Inv
<1>1. ASSUME NEW batch \in SchemaBatches, RegisterSchemas(batch), UNCHANGED runtimeVars
      PROVE  RuntimeInv' /\ Claims'
  BY <1>1, RegisterInv, ClaimsKept
<1>2. ASSUME NEW r \in Runtimes, Start(r) \/ Shutdown(r) \/ Joined(r)
      PROVE  RuntimeInv' /\ Claims'
  BY <1>2, PhaseInv, ClaimsKept
<1>3. ASSUME NEW r \in Runtimes, Crash(r) PROVE RuntimeInv' /\ Claims'
  BY <1>3, CrashInv, ClaimsKept
<1>4. ASSUME NEW r \in Runtimes, NEW c \in Commands, Submit(r, c) PROVE RuntimeInv' /\ Claims'
  BY <1>4, SubmitInv, ClaimsKept
<1>5. ASSUME NEW r \in Runtimes, Take(r) PROVE RuntimeInv' /\ Claims'
  BY <1>5, TakeInv, ClaimsKept
<1>6. ASSUME NEW r \in Runtimes, Lookup(r) PROVE RuntimeInv' /\ Claims'
  BY <1>6, LookupInv, ClaimsKept
<1>7. ASSUME NEW r \in Runtimes, TakeSnapshot(r) PROVE RuntimeInv' /\ Claims'
  BY <1>7, SnapshotInv, ClaimsKept
<1>8. ASSUME NEW r \in Runtimes, EvaluateSystem(r) PROVE RuntimeInv' /\ Claims'
  BY <1>8, EvaluateInv, ClaimsKept
<1>9. ASSUME NEW r \in Runtimes, CommitCall(r) PROVE RuntimeInv' /\ Claims'
  BY <1>9, CallInv, ClaimsKept
<1>10. ASSUME NEW r \in Runtimes, CommitStep(r) PROVE RuntimeInv' /\ Claims'
  <2>1. UNCHANGED runtimeVars BY <1>10 DEF CommitStep
  <2>2. CASE CommitMutation(r) BY <2>1, <2>2, MutationStepInv, ClaimsKept
  <2>3. CASE CommitRollback(r) BY <2>1, <2>3, RollbackStepInv, ClaimsKept
  <2>4. CASE CommitFinish(r) BY <2>1, <2>4, FinishStepInv
  <2> QED BY <1>10, <2>2, <2>3, <2>4 DEF CommitStep
<1>11. ASSUME NEW r \in Runtimes, CommitReturns(r) PROVE RuntimeInv' /\ Claims'
  BY <1>11, ReturnInv
<1>12. CASE UNCHANGED vars
  <2>1. UNCHANGED <<world, position, commits, log, sql, reply, worker>> /\ UNCHANGED runtimeVars
    BY <1>12 DEF vars, storeVars, runtimeVars
  <2>2. UNCHANGED tickets BY <2>1 DEF runtimeVars
  <2>3. RuntimeInv' /\ NoNewClaim
    BY <2>1, <2>2, RuntimeUntouched, QuietInv DEF TicketNumbers
  <2> QED BY <2>3, ClaimsKept
<1> QED BY <1>1, <1>2, <1>3, <1>4, <1>5, <1>6, <1>7, <1>8, <1>9, <1>10, <1>11, <1>12
        DEF Next, WorkerStep

-----------------------------------------------------------------------------
(* What holds of every behaviour.                                          *)

\* A runtime whose Systems and views are services takes steps of a runtime.
LEMMA ServicesStep == [ServicesNext]_allVars => [Next]_vars
<1> SUFFICES ASSUME [ServicesNext]_allVars PROVE [Next]_vars OBVIOUS
<1>1. CASE UNCHANGED allVars BY <1>1 DEF allVars
<1>2. ASSUME NEW batch \in SchemaBatches, RegisterSchemas(batch),
             UNCHANGED <<runtimeVars, serviceVars>>
      PROVE  Next
  BY <1>2 DEF Next
<1>3. ASSUME NEW r \in Runtimes, Start(r) \/ Shutdown(r) \/ JoinedStep(r) \/ ProcessCrash(r)
      PROVE  Next
  BY <1>3 DEF Next, JoinedStep, ProcessCrash
<1>4. ASSUME NEW r \in Runtimes, NEW c \in Commands, Submit(r, c) PROVE Next
  BY <1>4 DEF Next
<1>5. ASSUME NEW r \in Runtimes, WorkerSteps(r) PROVE Next
  BY <1>5 DEF Next, WorkerStep, WorkerSteps, OtherWorkerStep, SystemAnswers
<1>6. ASSUME NEW r \in Runtimes, AskSystem(r) \/ Project(r) \/ AskProjection(r) \/ ProjectionEnds(r)
      PROVE  UNCHANGED vars
  BY <1>6 DEF AskSystem, Project, AskProjection, ProjectionEnds
<1> QED BY <1>1, <1>2, <1>3, <1>4, <1>5, <1>6 DEF ServicesNext

\* The invariant holds of runtimes, with services or without.
THEOREM RuntimeInvHolds == Spec \/ ServicesSpec => [](Inv /\ Claims)
<1>1. Spec => [](Inv /\ Claims)
  BY RuntimeInitInv, RuntimeStepInv, PTL DEF Spec
<1>2. ServicesInit => Inv /\ Claims BY RuntimeInitInv DEF ServicesInit
<1>3. ServicesSpec => [](Inv /\ Claims)
  BY <1>2, RuntimeStepInv, ServicesStep, PTL DEF ServicesSpec
<1> QED BY <1>1, <1>3, PTL

\* Nobody waits for a ticket that no worker will answer: no ticket is lost between
\* try_send, recv, the drain after shutdown and a crash.
THEOREM TicketsAreHeld == Spec \/ ServicesSpec => []PendingTicketsAreHeld
<1>1. Inv => PendingTicketsAreHeld BY HeldIsPending DEF Inv, RuntimeInv
<1> QED BY <1>1, RuntimeInvHolds, PTL

\* At most one ticket of an identity is told "Committed", whatever runtimes it is
\* submitted to and however their commits interleave (committed_receipt, commit).
THEOREM CommittedOnce == Spec \/ ServicesSpec => []CommittedIsToldOnce
<1>1. Claims => CommittedIsToldOnce BY DEF Claims
<1> QED BY <1>1, RuntimeInvHolds, PTL

\* The store's own invariants hold under its runtimes.
THEOREM StoreUnderRuntimes ==
    Spec \/ ServicesSpec => [](LogRebuildsWorld /\ AuthorizedWhenCommitted /\ Referential)
<1>1. StoreInv => Referential
  BY OpenIsOpen DEF StoreInv, OpenTransaction, Sound, Referential
<1>2. Inv => LogRebuildsWorld /\ AuthorizedWhenCommitted /\ Referential
  BY <1>1 DEF Inv, StoreFacts, HistoryInv
<1> QED BY <1>2, RuntimeInvHolds, PTL

-----------------------------------------------------------------------------
(* The runtimes implement the ledger.                                      *)

\* The ledger speaks of mutations and authority in the same words.
LEMMA SameWords ==
    /\ Ledger!EmptyWorld = EmptyWorld
    /\ \A st, m : Ledger!CanApply(st, m) = CanApply(st, m)
    /\ \A st, mutations : Ledger!StatesOf(st, mutations) = StatesOf(st, mutations)
    /\ \A st, c, pos : Ledger!Authorized(st, c, pos) = Authorized(st, c, pos)
    /\ \A m : Ledger!IsAuthorityMutation(m) = IsAuthorityMutation(m)
<1>1. Ledger!EmptyWorld = EmptyWorld BY DEF Ledger!EmptyWorld, EmptyWorld, Ledger!NoRows, NoRows
<1>2. ASSUME NEW st, NEW m PROVE Ledger!CanApply(st, m) = CanApply(st, m)
  BY DEF Ledger!CanApply, CanApply, Ledger!TargetExists, TargetExists, 
     Ledger!WorldTarget, Ledger!EntityTarget, Ledger!RelationTarget,
     WorldTarget, EntityTarget, RelationTarget
<1>3. ASSUME NEW st, NEW mutations PROVE Ledger!StatesOf(st, mutations) = StatesOf(st, mutations)
  BY DEF Ledger!StatesOf, StatesOf, Ledger!ApplyMutation, ApplyMutation, Ledger!Upsert, Upsert,
     Ledger!Without, Without, Ledger!DropEntity, DropEntity, Ledger!DropRelations, DropRelations,
     Ledger!RelationsAt, RelationsAt, Ledger!FacetsOn, FacetsOn, Ledger!GrantsFor, GrantsFor,
     Ledger!EntityTarget, Ledger!RelationTarget, EntityTarget, RelationTarget, Ledger!Restrict, Restrict
<1>4. ASSUME NEW st, NEW c, NEW pos PROVE Ledger!Authorized(st, c, pos) = Authorized(st, c, pos)
  BY DEF Ledger!Authorized, Authorized, Ledger!PrincipalActor, PrincipalActor,
     Ledger!EntityActor, EntityActor, Ledger!PrincipalCanControl, PrincipalCanControl
<1>5. ASSUME NEW m PROVE Ledger!IsAuthorityMutation(m) = IsAuthorityMutation(m)
  BY DEF Ledger!IsAuthorityMutation, IsAuthorityMutation
<1> QED BY <1>1, <1>2, <1>3, <1>4, <1>5

\* One row of a table has each position.
LEMMA RowAtPosition ==
    ASSUME NEW table, NEW id \in DOMAIN table,
           \A k \in DOMAIN table : table[k].position = table[id].position => k = id
    PROVE  (CHOOSE entry \in {table[k] : k \in DOMAIN table} : entry.position = table[id].position)
             = table[id]
<1> DEFINE entries == {table[k] : k \in DOMAIN table}
<1>1. \A entry \in entries : entry.position = table[id].position => entry = table[id] OBVIOUS
<1>2. table[id] \in entries OBVIOUS
<1> HIDE DEF entries
<1>3. (CHOOSE entry \in entries : entry.position = table[id].position) = table[id]
  BY <1>1, <1>2
<1> QED BY <1>3 DEF entries

\* Each position has its commit.
LEMMA CommitAtIs ==
    ASSUME StoreInv, NEW id \in DOMAIN commits
    PROVE  CommitAt(commits[id].position) = commits[id]
<1>1. \A k \in DOMAIN commits : commits[k].position = commits[id].position => k = id
  BY DEF StoreInv, PositionsMatch
<1> QED BY <1>1, RowAtPosition DEF CommitAt

\* The ledger so far, command by command.
LEMMA ExecutedIs ==
    ASSUME StoreInv, NEW pos \in 1 .. position
    PROVE  \E id \in DOMAIN commits : commits[id].position = pos /\ Executed[pos] = commits[id].command
<1>1. PICK id \in DOMAIN commits : commits[id].position = pos BY DEF StoreInv, PositionsMatch
<1>2. CommitAt(pos) = commits[id] BY <1>1, CommitAtIs
<1> QED BY <1>1, <1>2 DEF Executed

\* COMMIT appends its command to the ledger.
LEMMA ExecutedAppends ==
    ASSUME Inv, NEW r \in Runtimes, CommitFinish(r)
    PROVE  /\ Executed \in Seq(Commands) /\ Len(Executed) = position
           /\ Executed' = Append(Executed, sql.command)
<1>1. StoreInv /\ OpenTransaction /\ position \in Nat /\ position' = position + 1
  BY PastIsKept, OpenTransactionFacts DEF Inv, StoreFacts, CommitFinish
<1>2. /\ commits'[sql.command.id] = [command |-> sql.command, position |-> position + 1]
      /\ DOMAIN commits' = DOMAIN commits \cup {sql.command.id}
      /\ \A k \in DOMAIN commits : commits'[k] = commits[k]
  BY <1>1, FinishTables DEF Runtimes
<1>3. \A pos : \A id \in DOMAIN commits' :
         commits'[id].position = pos => CommitAt(pos)' = commits'[id]
  <2>1. StoreInv' BY StoreFactsKept DEF Inv, StoreFacts, StoreNext, Runtimes
  <2> SUFFICES ASSUME NEW pos, NEW id \in DOMAIN commits', commits'[id].position = pos
               PROVE  (CHOOSE entry \in {commits'[k] : k \in DOMAIN commits'} :
                          entry.position = pos) = commits'[id]
    BY DEF CommitAt
  <2>2. \A k \in DOMAIN commits' : commits'[k].position = commits'[id].position => k = id
    BY <2>1 DEF StoreInv, PositionsMatch
  <2> QED BY <2>2, RowAtPosition
<1>4. \A id \in DOMAIN commits : commits[id].command \in Commands
  BY DEF Inv, StoreFacts, DurableTypes, IsTable
<1>5. \A pos \in 1 .. position : Executed[pos] \in Commands BY <1>1, <1>4, ExecutedIs
<1>6. Executed = [pos \in 1 .. position |-> Executed[pos]] BY DEF Executed
<1>7. Executed \in Seq(Commands) /\ Len(Executed) = position
  BY <1>1, <1>5, <1>6
<1>8. \A pos \in 1 .. position + 1 :
         Executed'[pos] = IF pos = position + 1 THEN sql.command ELSE Executed[pos]
  <2> SUFFICES ASSUME NEW pos \in 1 .. position + 1
               PROVE  Executed'[pos] = IF pos = position + 1 THEN sql.command ELSE Executed[pos]
    OBVIOUS
  <2>1. Executed'[pos] = CommitAt(pos)'.command BY <1>1 DEF Executed
  <2>2. CASE pos = position + 1
    <3>1. sql.command.id \in DOMAIN commits' BY <1>2
    <3>2. commits'[sql.command.id].position = pos BY <2>2, <1>2
    <3>3. CommitAt(pos)' = commits'[sql.command.id] BY <3>1, <3>2, <1>3
    <3> QED BY <2>1, <2>2, <3>3, <1>2
  <2>3. CASE pos # position + 1
    <3>1. pos \in 1 .. position BY <2>3, <1>1
    <3>2. PICK id \in DOMAIN commits : commits[id].position = pos /\ Executed[pos] = commits[id].command
      BY <3>1, <1>1, ExecutedIs
    <3>3. id \in DOMAIN commits' /\ commits'[id] = commits[id] BY <3>2, <1>2
    <3>4. CommitAt(pos)' = commits[id] BY <3>2, <3>3, <1>3
    <3> QED BY <2>1, <2>3, <3>2, <3>4
  <2> QED BY <2>2, <2>3
<1>9. Executed' = [pos \in 1 .. position + 1 |-> Executed'[pos]]
  BY <1>1 DEF Executed
<1>10. sql.command \in Commands BY <1>1 DEF OpenTransaction
<1>11. Executed' = Append(Executed, sql.command)
  <2> HIDE DEF Executed
  <2>1. Append(Executed, sql.command) =
          [pos \in 1 .. position + 1 |-> IF pos = position + 1 THEN sql.command ELSE Executed[pos]]
    BY <1>1, <1>7
  <2> QED BY <2>1, <1>8, <1>9
<1> QED BY <1>7, <1>11

\* COMMIT is the step in which the ledger executes the command.
LEMMA FinishExecutes ==
    ASSUME Inv, NEW r \in Runtimes, CommitFinish(r)
    PROVE  Ledger!Next
<1> DEFINE c == sql.command
           tx == sql.tx
           ms == tx.mutations
<1>1. Transaction /\ OpenTransaction /\ StagedFromLog BY OpenTransactionFacts DEF CommitFinish
<1>2. /\ Executed \in Seq(Commands) /\ Len(Executed) = position
      /\ Executed' = Append(Executed, c)
  BY ExecutedAppends
<1>3. \A i \in DOMAIN Executed : Executed[i].id # c.id
  <2> SUFFICES ASSUME NEW i \in DOMAIN Executed PROVE Executed[i].id # c.id OBVIOUS
  <2>1. i \in 1 .. position BY DEF Executed
  <2>2. PICK id \in DOMAIN commits : Executed[i] = commits[id].command
    BY <2>1, ExecutedIs DEF Inv, StoreFacts
  <2>3. commits[id].command.id = id BY DEF Inv, RuntimeInv
  <2> QED BY <2>2, <2>3, <1>1 DEF OpenTransaction
<1>4. \A e \in c.expected : e = Len(Executed) BY <1>1, <1>2 DEF Transaction
<1>5. Ledger!Authorized(world, c, Len(Executed)) BY <1>1, <1>2, SameWords DEF StagedFromLog
<1>6. Len(ms) \in Nat /\ DOMAIN ms = 1 .. Len(ms) /\ sql.next - 1 = Len(ms)
  <2>1. ms \in Seq(Proposed) BY <1>1, ProposedParts DEF OpenTransaction
  <2>2. Len(ms) \in Nat /\ DOMAIN ms = 1 .. Len(ms) BY <2>1
  <2> QED BY <1>1, <2>2 DEF OpenTransaction, CommitFinish, MutationsLeft
<1>7. Ledger!Applicable(world, ms)
  BY <1>1, <1>6, SameWords DEF Ledger!Applicable, Transaction
<1>8. world' = Ledger!ApplyAll(world, ms)
  BY <1>1, <1>6, SameWords DEF Ledger!ApplyAll, StagedFromLog, CommitFinish
<1>9. tx \in Evaluate(c, world)
      /\ (c.schema \in Privileged
          \/ \A i \in DOMAIN ms : ~Ledger!IsAuthorityMutation(ms[i]))
  BY <1>1, SameWords DEF Transaction, OutputAllowed
<1>10. Ledger!Execute(c)
  BY <1>2, <1>3, <1>4, <1>5, <1>7, <1>8, <1>9 DEF Ledger!Execute
<1> QED BY <1>1, <1>10 DEF Ledger!Next, OpenTransaction

\* Every step of the runtimes executes one command in the ledger or none.
LEMMA StepExecutes == Inv /\ [Next]_vars => [Ledger!Next]_(Ledger!ledgerVars)
<1> SUFFICES ASSUME Inv, [Next]_vars PROVE Ledger!Next \/ UNCHANGED Ledger!ledgerVars
  OBVIOUS
<1>1. ASSUME UNCHANGED <<world, position, commits>> PROVE UNCHANGED Ledger!ledgerVars
  BY <1>1 DEF Ledger!ledgerVars, Executed, CommitAt
<1>2. ASSUME NEW r \in Runtimes, CommitFinish(r) PROVE Ledger!Next BY <1>2, FinishExecutes
<1>3. CASE UNCHANGED vars BY <1>1, <1>3 DEF vars, storeVars
<1>4. ASSUME NEW batch \in SchemaBatches, RegisterSchemas(batch) PROVE UNCHANGED Ledger!ledgerVars
  BY <1>1, <1>4 DEF RegisterSchemas
<1>5. ASSUME NEW r \in Runtimes, NEW c,
             \/ Start(r) \/ Shutdown(r) \/ Joined(r) \/ Submit(r, c)
             \/ Take(r) \/ Lookup(r) \/ TakeSnapshot(r) \/ EvaluateSystem(r)
      PROVE  UNCHANGED Ledger!ledgerVars
  BY <1>1, <1>5 DEF Start, Shutdown, Joined, Submit, Take, Lookup, TakeSnapshot, EvaluateSystem,
                    storeVars
<1>6. ASSUME NEW r \in Runtimes, Crash(r) \/ CommitReturns(r) PROVE UNCHANGED Ledger!ledgerVars
  BY <1>1, <1>6 DEF Crash, CloseConnection, CommitReturns, durable
<1>7. ASSUME NEW r \in Runtimes, CommitCall(r) PROVE UNCHANGED Ledger!ledgerVars
  BY <1>1, <1>7 DEF CommitCall, Commit, CommitBusy, CommitReplay, CommitRejected, CommitBegin, durable
<1>8. ASSUME NEW r \in Runtimes, CommitMutation(r) \/ CommitRollback(r)
      PROVE  UNCHANGED Ledger!ledgerVars
  BY <1>1, <1>8 DEF CommitMutation, CommitRollback, durable
<1> QED BY <1>2, <1>3, <1>4, <1>5, <1>6, <1>7, <1>8 DEF Next, WorkerStep, CommitStep

\* The empty world has an empty ledger.
LEMMA InitExecutes == Init => Ledger!Init
<1> SUFFICES ASSUME Init PROVE Ledger!Init OBVIOUS
<1>1. world = EmptyWorld /\ position = 0 BY DEF Init, StoreInit
<1>2. Executed = <<>> BY <1>1 DEF Executed
<1> QED BY <1>1, <1>2, SameWords DEF Ledger!Init

\* The runtimes and their store, whatever their interleaving and wherever they crash,
\* execute one command at a time: each identity at most once, evaluated by its System
\* in the state it is applied to, authorised there, and wholly (process_command, commit).
THEOREM RuntimesImplementLedger == Spec \/ ServicesSpec => ExecutesOneAtATime
<1>1. Inv /\ [Next]_vars => [Ledger!Next]_(Ledger!ledgerVars) BY StepExecutes
<1>2. Spec => Ledger!Spec
  BY <1>1, InitExecutes, RuntimeInvHolds, PTL DEF Spec, Ledger!Spec
<1>3. ServicesInit => Ledger!Init BY InitExecutes DEF ServicesInit
<1>4. ServicesSpec => Ledger!Spec
  BY <1>1, <1>3, ServicesStep, RuntimeInvHolds, PTL DEF ServicesSpec, Ledger!Spec
<1> QED BY <1>2, <1>4, PTL DEF ExecutesOneAtATime

-----------------------------------------------------------------------------
(* Reads of a snapshot.                                                    *)

\* The schema a row was last created with, as a list of log entries has it.
SchemaIn(entries, op, key) ==
    LET history == Reverse(FlattenSeq(entries))
        Creates(m) == m.op = op /\ (IF op = "CreateEntity" THEN m.entity ELSE m.relation) = key
    IN history[SelectInSeq(history, Creates)].schema

LEMMA CreatedIs ==
    ASSUME NEW pos, NEW op, NEW key
    PROVE  CreatedAs(pos, op, key) = SchemaIn(SubSeq(log, 1, pos), op, key)
  BY DEF CreatedAs, SchemaIn, SelectInSeq

\* A later log has the same schemas of the rows of an earlier position.
LEMMA CreatedStays ==
    ASSUME NEW pos, SubSeq(log, 1, pos)' = SubSeq(log, 1, pos), NEW op, NEW key
    PROVE  CreatedAs(pos, op, key)' = CreatedAs(pos, op, key)
<1>1. CreatedAs(pos, op, key)' = SchemaIn(SubSeq(log', 1, pos), op, key)
  BY DEF CreatedAs, SchemaIn, SelectInSeq
<1> QED BY <1>1, CreatedIs

\* What is read of a position depends on nothing but its tables and the log up to it.
LEMMA ReadStays ==
    ASSUME NEW s, NEW t, s.tables = t.tables, s.position = t.position,
           SubSeq(log, 1, s.position)' = SubSeq(log, 1, s.position),
           NEW q, q.read \in {"entity", "relation", "facet"}
    PROVE  SystemRead(t, q)' = SystemRead(s, q)
<1> DEFINE pos == s.position
<1>1. \A op, key : CreatedAs(pos, op, key)' = CreatedAs(pos, op, key) BY CreatedStays
<1>2. CASE q.read = "entity"
  BY <1>1, <1>2 DEF SystemRead, LoadEntity
<1>3. CASE q.read = "relation"
  BY <1>1, <1>3 DEF SystemRead, LoadRelation
<1>4. CASE q.read = "facet"
  BY <1>4 DEF SystemRead, LoadFacet
<1> QED BY <1>2, <1>3, <1>4

\* The same for a projection, whose snapshot also has its definitions pinned.
LEMMA ProjectionReadStays ==
    ASSUME NEW s, SubSeq(log, 1, s.position)' = SubSeq(log, 1, s.position),
           NEW q, q.read \in {"entity", "relation", "facet", "control"}, NEW owner, NEW principal
    PROVE  ProjectionRead(s, q, owner, principal)' = ProjectionRead(s, q, owner, principal)
<1>1. \A op, key : CreatedAs(s.position, op, key)' = CreatedAs(s.position, op, key)
  BY CreatedStays
<1>2. CASE q.read = "entity"
  BY <1>1, <1>2 DEF ProjectionRead, LoadEntity, SchemaOwnedBy, LoadSchema
<1>3. CASE q.read = "relation"
  BY <1>1, <1>3 DEF ProjectionRead, LoadRelation, SchemaOwnedBy, LoadSchema
<1>4. CASE q.read \in {"facet", "control"}
  BY <1>4 DEF ProjectionRead, LoadFacet, SchemaOwnedBy, LoadSchema, PrincipalCanControl
<1> QED BY <1>2, <1>3, <1>4

\* The answer of a world that holds nothing but the rows of an owner.
OwnRead(whole, q, owner, principal) ==
    LET own == Redacted(whole, owner)
    IN IF q.read # "control" THEN SystemRead(own, q)
       ELSE {a \in {Allowed} :
               /\ q.schema \in OwnKeys(whole.definitions, owner, "Command")
               /\ PrincipalCanControl(own.tables, principal, q.entity, q.schema, own.position)}

\* What a projection is told is what would be left if the world held nothing but
\* the rows of its owner.
LEMMA ProjectionReadsOwn ==
    ASSUME NEW tables, NEW definitions, NEW pos, NEW owner, NEW principal,
           NEW q, q.read \in {"entity", "relation", "facet", "control"}
    PROVE  LET whole == [tables |-> tables, definitions |-> definitions, position |-> pos]
           IN ProjectionRead(whole, q, owner, principal) = OwnRead(whole, q, owner, principal)
<1> DEFINE whole == [tables |-> tables, definitions |-> definitions, position |-> pos]
           own == Redacted(whole, owner)
           keys(kind) == OwnKeys(definitions, owner, kind)
           mine(e) == CreatedAs(pos, "CreateEntity", e) \in keys("Entity")
           linked(n) == CreatedAs(pos, "CreateRelation", n) \in keys("Relation")
<1>1. \A schema, kind : SchemaOwnedBy(whole, schema, owner, kind) <=> schema \in keys(kind)
  BY DEF SchemaOwnedBy, LoadSchema, OwnKeys
<1>2. \A e \in tables.entities : LoadEntity(whole, e) \subseteq keys("Entity") <=> mine(e)
  BY DEF LoadEntity
<1>3. \A n \in DOMAIN tables.relations :
         (\A row \in LoadRelation(whole, n) : row.schema \in keys("Relation")) <=> linked(n)
  <2> SUFFICES ASSUME NEW n \in DOMAIN tables.relations
               PROVE  (\A row \in LoadRelation(whole, n) : row.schema \in keys("Relation")) <=> linked(n)
    OBVIOUS
  <2> DEFINE row == [schema |-> CreatedAs(pos, "CreateRelation", n), ends |-> tables.relations[n]]
  <2>1. LoadRelation(whole, n) = {row} BY DEF LoadRelation
  <2>2. row.schema = CreatedAs(pos, "CreateRelation", n) OBVIOUS
  <2> HIDE DEF row, keys
  <2> QED BY <2>1, <2>2
<1>4. /\ own.position = pos
      /\ own.tables.entities = {e \in tables.entities : mine(e)}
      /\ own.tables.relations = Without(tables.relations, {n \in DOMAIN tables.relations : ~linked(n)})
      /\ own.tables.facets =
            Without(tables.facets, {k \in DOMAIN tables.facets : k.schema \notin keys("Facet")})
      /\ own.tables.grants = tables.grants
  BY <1>2, <1>3 DEF Redacted
<1> HIDE DEF own, mine, linked, keys
<1>5. CASE q.read = "entity"
  <2>1. ProjectionRead(whole, q, owner, principal)
          = {s \in LoadEntity(whole, q.entity) : s \in keys("Entity")}
    BY <1>1, <1>5 DEF ProjectionRead
  <2>2. SystemRead(own, q) = LoadEntity(own, q.entity) BY <1>5 DEF SystemRead
  <2>3. LoadEntity(own, q.entity) = {s \in LoadEntity(whole, q.entity) : s \in keys("Entity")}
    BY <1>4 DEF LoadEntity, mine
  <2> QED BY <1>5, <2>1, <2>2, <2>3 DEF own, OwnRead
<1>6. CASE q.read = "relation"
  <2>1. ProjectionRead(whole, q, owner, principal)
          = {row \in LoadRelation(whole, q.relation) : row.schema \in keys("Relation")}
    BY <1>1, <1>6 DEF ProjectionRead
  <2>2. SystemRead(own, q) = LoadRelation(own, q.relation) BY <1>6 DEF SystemRead
  <2>3. LoadRelation(own, q.relation)
          = {row \in LoadRelation(whole, q.relation) : row.schema \in keys("Relation")}
    BY <1>4 DEF LoadRelation, linked, Without, Restrict
  <2> QED BY <1>6, <2>1, <2>2, <2>3 DEF own, OwnRead
<1>7. CASE q.read = "facet"
  <2>1. ProjectionRead(whole, q, owner, principal)
          = IF q.schema \in keys("Facet") THEN LoadFacet(whole, q.target, q.schema) ELSE {}
    BY <1>1, <1>7 DEF ProjectionRead
  <2>2. SystemRead(own, q) = LoadFacet(own, q.target, q.schema) BY <1>7 DEF SystemRead
  <2>3. LoadFacet(own, q.target, q.schema)
          = IF q.schema \in keys("Facet") THEN LoadFacet(whole, q.target, q.schema) ELSE {}
    BY <1>4 DEF LoadFacet, Without, Restrict
  <2> QED BY <1>7, <2>1, <2>2, <2>3 DEF own, OwnRead
<1>8. CASE q.read = "control"
  <2>1. PrincipalCanControl(own.tables, principal, q.entity, q.schema, own.position)
          <=> PrincipalCanControl(tables, principal, q.entity, q.schema, pos)
    BY <1>4 DEF PrincipalCanControl
  <2> QED BY <1>1, <1>8, <2>1 DEF ProjectionRead, OwnRead, own, keys
<1> QED BY <1>5, <1>6, <1>7, <1>8

-----------------------------------------------------------------------------
(* What a service is told stays what it was.                               *)

\* The reads of an evaluation under way are of the position it evaluates.
Asked(r) ==
    /\ asking[r].reads # {} => At(r, "evaluate")
    /\ \A known \in asking[r].reads :
          /\ known.request \in Requests /\ known.request.read # "control"
          /\ known.value = SystemRead(WorldAt(worker[r].evaluated, registry), known.request)

\* Those of a view are of the snapshot it has pinned, which is of one position.
Viewed(r) ==
    view[r] # NoView =>
        LET v == view[r] IN
        /\ DOMAIN v = {"pc", "owner", "principal", "snap", "rounds", "reads"}
        /\ v.snap.position \in 0 .. position
        /\ v.snap = WorldAt(v.snap.position, v.snap.definitions)
        /\ \A known \in v.reads :
              /\ known.request \in Requests
              /\ known.value = ProjectionRead(v.snap, known.request, v.owner, v.principal)

ReadsInv ==
    /\ DOMAIN asking = Runtimes /\ DOMAIN view = Runtimes
    /\ \A r \in Runtimes : Asked(r) /\ Viewed(r)

\* No step of a runtime changes the log up to a position it has reached.
LEMMA PastStays ==
    ASSUME Inv, [Next]_vars
    PROVE  /\ position \in Nat /\ position' \in Nat /\ position <= position'
           /\ \A pos \in 0 .. position : /\ RebuiltAt(pos)' = RebuiltAt(pos)
                                         /\ SubSeq(log, 1, pos)' = SubSeq(log, 1, pos)
<1>1. log \in Seq(Seq(Proposed)) /\ Len(log) = position /\ position \in Nat
  BY DEF Inv, StoreFacts, DurableTypes
<1>2. CASE UNCHANGED <<log, position>>
  BY <1>1, <1>2 DEF RebuiltAt
<1>3. ASSUME NEW r \in Runtimes, CommitFinish(r)
      PROVE  /\ position' = position + 1
             /\ \A pos \in 0 .. position : /\ RebuiltAt(pos)' = RebuiltAt(pos)
                                           /\ SubSeq(log, 1, pos)' = SubSeq(log, 1, pos)
  <2>1. log' = Append(log, sql.tx.mutations) BY <1>3 DEF CommitFinish
  <2>2. sql.tx.mutations \in Seq(Proposed)
    BY <1>3, OpenTransactionFacts, ProposedParts DEF CommitFinish, OpenTransaction
  <2> DEFINE lists == Seq(Proposed)
  <2> HIDE DEF lists
  <2>3. \A pos \in 0 .. position :
           SubSeq(Append(log, sql.tx.mutations), 1, pos) = SubSeq(log, 1, pos)
    <3> SUFFICES ASSUME NEW pos \in 0 .. position
                 PROVE  SubSeq(Append(log, sql.tx.mutations), 1, pos) = SubSeq(log, 1, pos)
      OBVIOUS
    <3> DEFINE longer == Append(log, sql.tx.mutations)
    <3>1. \A i \in 1 .. pos : longer[i] = log[i] BY <1>1, <2>2 DEF lists
    <3>2. longer \in Seq(lists) /\ log \in Seq(lists) BY <1>1, <2>2 DEF lists
    <3> HIDE DEF longer
    <3>3. /\ SubSeq(longer, 1, pos) = [i \in 1 .. pos |-> longer[i]]
          /\ SubSeq(log, 1, pos) = [i \in 1 .. pos |-> log[i]]
      BY <1>1, <3>2
    <3>4. SubSeq(longer, 1, pos) = SubSeq(log, 1, pos) BY <3>1, <3>3
    <3> QED BY <3>4 DEF longer
  <2> QED BY <1>3, <2>1, <2>3, PastIsKept
<1>4. (UNCHANGED <<log, position>>) \/ \E r \in Runtimes : CommitFinish(r)
  <2>1. CASE UNCHANGED vars BY <2>1 DEF vars, storeVars
  <2>2. ASSUME NEW batch \in SchemaBatches, RegisterSchemas(batch) PROVE UNCHANGED <<log, position>>
    BY <2>2 DEF RegisterSchemas
  <2>3. ASSUME NEW r \in Runtimes, NEW c,
               \/ Start(r) \/ Shutdown(r) \/ Joined(r) \/ Submit(r, c)
               \/ Take(r) \/ Lookup(r) \/ TakeSnapshot(r) \/ EvaluateSystem(r)
        PROVE  UNCHANGED <<log, position>>
    BY <2>3 DEF Start, Shutdown, Joined, Submit, Take, Lookup, TakeSnapshot, EvaluateSystem, storeVars
  <2>4. ASSUME NEW r \in Runtimes, Crash(r) \/ CommitReturns(r) PROVE UNCHANGED <<log, position>>
    BY <2>4 DEF Crash, CloseConnection, CommitReturns, durable
  <2>5. ASSUME NEW r \in Runtimes, CommitCall(r) PROVE UNCHANGED <<log, position>>
    BY <2>5 DEF CommitCall, Commit, CommitBusy, CommitReplay, CommitRejected, CommitBegin, durable
  <2>6. ASSUME NEW r \in Runtimes, CommitMutation(r) \/ CommitRollback(r)
        PROVE  UNCHANGED <<log, position>>
    BY <2>6 DEF CommitMutation, CommitRollback, durable
  <2> QED BY <2>1, <2>2, <2>3, <2>4, <2>5, <2>6 DEF Next, WorkerStep, CommitStep
<1> QED BY <1>1, <1>2, <1>3, <1>4

\* What a System was told stays true while its worker evaluates.
LEMMA AskedStays ==
    ASSUME Inv, [Next]_vars, NEW r \in Runtimes, Asked(r),
           asking'[r] = asking[r], asking[r].reads # {} => worker'[r] = worker[r]
    PROVE  Asked(r)'
<1> SUFFICES ASSUME asking[r].reads # {} PROVE Asked(r)'
  BY DEF Asked
<1>0. PICK now : now = WorldAt(worker[r].evaluated, registry) OBVIOUS
<1>1. At(r, "evaluate") /\ worker'[r] = worker[r] BY DEF Asked
<1>2. PICK pos \in 0 .. position : pos = worker[r].evaluated
  BY <1>1 DEF Inv, RuntimeInv, Evaluation
<1>3. SubSeq(log, 1, pos)' = SubSeq(log, 1, pos) /\ RebuiltAt(pos)' = RebuiltAt(pos)
  BY <1>2, PastStays
<1>4. now.tables = RebuiltAt(pos) /\ now.position = pos BY <1>0, <1>2 DEF WorldAt
<1>5. /\ WorldAt(worker[r].evaluated, registry)'.tables = RebuiltAt(pos)
      /\ WorldAt(worker[r].evaluated, registry)'.position = pos
  BY <1>1, <1>2, <1>3 DEF WorldAt
<1>6. ASSUME NEW t, t.tables = RebuiltAt(pos), t.position = pos, NEW q,
             q.read \in {"entity", "relation", "facet"}
      PROVE  SystemRead(t, q)' = SystemRead(now, q)
  <2>1. SubSeq(log, 1, now.position)' = SubSeq(log, 1, now.position)
    BY <1>3, <1>4
  <2> QED BY <1>3, <1>4, <1>6, ReadStays
<1>7. ASSUME NEW known \in asking[r].reads
      PROVE  /\ known.request \in Requests /\ known.request.read # "control"
             /\ known.value = SystemRead(WorldAt(worker[r].evaluated, registry), known.request)'
  <2>1. known.request.read \in {"entity", "relation", "facet"}
    BY <1>7, RequestsAssumption DEF Asked
  <2>2. SystemRead(WorldAt(worker[r].evaluated, registry), known.request)' = SystemRead(now, known.request)
    BY <2>1, <1>5, <1>6
  <2> QED BY <2>2, <1>2, <1>0, <1>7 DEF Asked
<1> QED BY <1>1, <1>7 DEF Asked, At

\* What the provider of a view was told stays what its pinned snapshot has.
LEMMA ViewedStays ==
    ASSUME Inv, [Next]_vars, NEW r \in Runtimes, Viewed(r), view'[r] = view[r]
    PROVE  Viewed(r)'
<1> SUFFICES ASSUME view[r] # NoView PROVE Viewed(r)'
  BY DEF Viewed
<1>1. PICK v : v = view[r] OBVIOUS
<1>2. /\ DOMAIN v = {"pc", "owner", "principal", "snap", "rounds", "reads"}
      /\ v.snap.position \in 0 .. position
      /\ v.snap = WorldAt(v.snap.position, v.snap.definitions)
      /\ \A known \in v.reads :
            /\ known.request \in Requests
            /\ known.value = ProjectionRead(v.snap, known.request, v.owner, v.principal)
  BY <1>1 DEF Viewed
<1>3. /\ v.snap.position \in 0 .. position'
      /\ RebuiltAt(v.snap.position)' = RebuiltAt(v.snap.position)
      /\ SubSeq(log, 1, v.snap.position)' = SubSeq(log, 1, v.snap.position)
  BY <1>2, PastStays
<1>4. WorldAt(v.snap.position, v.snap.definitions)' = WorldAt(v.snap.position, v.snap.definitions)
  BY <1>3 DEF WorldAt
<1>5. ASSUME NEW known \in v.reads
      PROVE  known.value = ProjectionRead(v.snap, known.request, v.owner, v.principal)'
  <2>1. known.request.read \in {"entity", "relation", "facet", "control"}
    BY <1>2, <1>5, RequestsAssumption
  <2> QED BY <1>2, <1>3, <1>5, <2>1, ProjectionReadStays
<1>6. view'[r] = v BY <1>1
<1> QED BY <1>2, <1>3, <1>4, <1>5, <1>6 DEF Viewed

\* Nobody has been told anything yet.
LEMMA ReadsInit == ServicesInit => ReadsInv
  BY DEF ServicesInit, ReadsInv, Asked, Viewed, NotAsked

\* A round of reads of a System is of the position its command was validated at.
LEMMA AskSystemReads ==
    ASSUME Inv, [Next]_vars, ReadsInv, NEW r \in Runtimes, AskSystem(r)
    PROVE  ReadsInv'
<1>0. UNCHANGED vars /\ UNCHANGED view BY DEF AskSystem
<1>1. PICK round \in SUBSET {q \in Requests : q.read # "control"} :
         asking' = [asking EXCEPT ![r] =
            [rounds |-> @.rounds + 1,
             reads |-> @.reads \cup {Resolved(q, SystemRead(SystemSees(r), q)) : q \in round}]]
  BY DEF AskSystem
<1>2. SystemSees(r) = WorldAt(worker[r].evaluated, registry)
  BY DEF SystemSees, WorldAt, AskSystem, Inv, RuntimeInv, Evaluation
<1>3. asking'[r].reads = asking[r].reads \cup {Resolved(q, SystemRead(SystemSees(r), q)) : q \in round}
  BY <1>1 DEF ReadsInv
<1>4. \A s \in Runtimes \ {r} : asking'[s] = asking[s] BY <1>1 DEF ReadsInv
<1>5. At(r, "evaluate") BY DEF AskSystem
<1>6. ASSUME NEW known \in asking'[r].reads
      PROVE  /\ known.request \in Requests /\ known.request.read # "control"
             /\ known.value = SystemRead(WorldAt(worker[r].evaluated, registry), known.request)
  <2>1. CASE known \in asking[r].reads BY <2>1 DEF ReadsInv, Asked
  <2>2. CASE \E q \in round : known = Resolved(q, SystemRead(SystemSees(r), q))
    BY <1>2, <2>2 DEF Resolved
  <2> QED BY <1>3, <1>6, <2>1, <2>2
<1>7. /\ worker' = worker
      /\ \A t, q : SystemRead(t, q)' = SystemRead(t, q)
      /\ WorldAt(worker[r].evaluated, registry)' = WorldAt(worker[r].evaluated, registry)
  <2>1. UNCHANGED <<worker, log, registry>> BY <1>0 DEF vars, storeVars, runtimeVars
  <2>2. \A pos, op, key : CreatedAs(pos, op, key)' = CreatedAs(pos, op, key)
    BY <2>1, CreatedStays
  <2>3. \A t, q : SystemRead(t, q)' = SystemRead(t, q)
    BY <2>2 DEF SystemRead, LoadEntity, LoadRelation, LoadFacet
  <2>4. WorldAt(worker[r].evaluated, registry)' = WorldAt(worker[r].evaluated, registry)
    BY <2>1 DEF WorldAt, RebuiltAt
  <2> QED BY <2>1, <2>3, <2>4
<1>8. Asked(r)' BY <1>5, <1>6, <1>7 DEF Asked, At
<1>9. \A s \in Runtimes \ {r} : Asked(s)' BY <1>4, <1>7, AskedStays DEF ReadsInv
<1>10. \A s \in Runtimes : Viewed(s)' BY <1>0, ViewedStays DEF ReadsInv
<1> QED BY <1>0, <1>1, <1>8, <1>9, <1>10 DEF ReadsInv

\* A new view pins the tables of the position the store is at.
LEMMA ProjectReads ==
    ASSUME Inv, [Next]_vars, ReadsInv, NEW r \in Runtimes, Project(r)
    PROVE  ReadsInv'
<1>0. UNCHANGED vars /\ UNCHANGED asking BY DEF Project
<1>1. PICK owner, principal :
         view' = [view EXCEPT ![r] =
            [pc |-> "ask", owner |-> owner, principal |-> principal,
             snap |-> Snapshot, rounds |-> 0, reads |-> {}]]
  BY DEF Project, Show
<1>2. \A s \in Runtimes \ {r} : view'[s] = view[s] BY <1>1 DEF ReadsInv
<1>3. view'[r] = [pc |-> "ask", owner |-> owner, principal |-> principal,
                  snap |-> Snapshot, rounds |-> 0, reads |-> {}]
  BY <1>1 DEF ReadsInv
<1>4. PICK snap : snap = Snapshot OBVIOUS
<1>5. Viewed(r)'
  <2>1. /\ snap.position \in 0 .. position'
        /\ snap = WorldAt(snap.position, snap.definitions)'
    BY <1>0, <1>4, PastStays
       DEF Snapshot, WorldAt, vars, storeVars, RebuiltAt, Inv, StoreFacts, HistoryInv, LogRebuildsWorld
  <2>2. PICK v : v = view'[r] OBVIOUS
  <2>3. /\ DOMAIN v = {"pc", "owner", "principal", "snap", "rounds", "reads"}
        /\ v.snap = snap /\ v.reads = {}
    BY <1>3, <1>4, <2>2
  <2> QED BY <2>1, <2>2, <2>3 DEF Viewed
<1>6. \A s \in Runtimes \ {r} : Viewed(s)' BY <1>2, ViewedStays DEF ReadsInv
<1>7. \A s \in Runtimes : Asked(s)' 
  BY <1>0, AskedStays DEF ReadsInv, vars, runtimeVars
<1> QED BY <1>0, <1>1, <1>5, <1>6, <1>7 DEF ReadsInv

\* A round of reads of a view is of the snapshot pinned when it began.
LEMMA AskProjectionReads ==
    ASSUME Inv, [Next]_vars, ReadsInv, NEW r \in Runtimes, AskProjection(r)
    PROVE  ReadsInv'
<1>0. UNCHANGED vars /\ UNCHANGED asking BY DEF AskProjection
<1>1. PICK v : v = view[r] OBVIOUS
<1>2. PICK round \in SUBSET Requests :
         view' = [view EXCEPT ![r] =
            [view[r] EXCEPT
               !.rounds = @ + 1,
               !.reads = @ \cup
                  {Resolved(q, ProjectionRead(ViewSees(r), q, view[r].owner, view[r].principal))
                     : q \in round}]]
  BY DEF AskProjection, Show
<1>3. /\ DOMAIN v = {"pc", "owner", "principal", "snap", "rounds", "reads"}
      /\ v.snap.position \in 0 .. position
      /\ v.snap = WorldAt(v.snap.position, v.snap.definitions)
      /\ \A known \in v.reads :
            /\ known.request \in Requests
            /\ known.value = ProjectionRead(v.snap, known.request, v.owner, v.principal)
  BY <1>1 DEF AskProjection, NoView, ReadsInv, Viewed
<1>4. PICK w : w = view'[r] OBVIOUS
<1> DEFINE told == {Resolved(q, ProjectionRead(v.snap, q, v.owner, v.principal)) : q \in round}
<1>5. w = [v EXCEPT !.rounds = @ + 1, !.reads = @ \cup told] 
  <2> DEFINE new == {Resolved(q, ProjectionRead(ViewSees(r), q, view[r].owner, view[r].principal))
                       : q \in round}
  <2>1. told = new BY <1>1 DEF ViewSees
  <2> HIDE DEF told, new
  <2>2. view' = [view EXCEPT ![r] = [view[r] EXCEPT !.rounds = @ + 1, !.reads = @ \cup new]]
    BY <1>2 DEF new
  <2>3. view'[r] = [view[r] EXCEPT !.rounds = @ + 1, !.reads = @ \cup new] BY <2>2 DEF ReadsInv
  <2> QED BY <1>1, <1>4, <2>1, <2>3
<1> HIDE DEF told
<1>6. /\ DOMAIN w = DOMAIN v /\ w.snap = v.snap /\ w.owner = v.owner /\ w.principal = v.principal
      /\ w.reads = v.reads \cup told
  BY <1>3, <1>5
<1>7. ASSUME NEW known \in w.reads
      PROVE  /\ known.request \in Requests
             /\ known.value = ProjectionRead(w.snap, known.request, w.owner, w.principal)
  <2>1. CASE known \in v.reads BY <1>3, <1>6, <2>1
  <2>2. CASE known \in told BY <1>6, <2>2 DEF Resolved, told
  <2> QED BY <1>6, <1>7, <2>1, <2>2
<1>8. Viewed(r)'
  <2>1. UNCHANGED <<log, position>> BY <1>0 DEF vars, storeVars
  <2>2. \A known \in w.reads :
           known.value = ProjectionRead(w.snap, known.request, w.owner, w.principal)'
    BY <1>3, <1>6, <1>7, <2>1, PastStays, RequestsAssumption, ProjectionReadStays
  <2>3. w.snap = WorldAt(w.snap.position, w.snap.definitions)'
    BY <1>3, <1>6, <2>1 DEF WorldAt, RebuiltAt
  <2> QED BY <1>3, <1>4, <1>6, <1>7, <2>1, <2>2, <2>3 DEF Viewed
<1>9. \A s \in Runtimes \ {r} : Viewed(s)' BY <1>2, ViewedStays DEF ReadsInv
<1>10. \A s \in Runtimes : Asked(s)' 
  BY <1>0, AskedStays DEF ReadsInv, vars, runtimeVars
<1> QED BY <1>0, <1>2, <1>8, <1>9, <1>10 DEF ReadsInv

\* A view that is shown, or an error: nothing more is told.
LEMMA ProjectionEndsReads ==
    ASSUME Inv, [Next]_vars, ReadsInv, NEW r \in Runtimes, ProjectionEnds(r)
    PROVE  ReadsInv'
<1>0. UNCHANGED vars /\ UNCHANGED asking BY DEF ProjectionEnds
<1>1. PICK v : v = view[r] OBVIOUS
<1>2. PICK w : view' = [view EXCEPT ![r] = w] /\ (w = NoView \/ w = [v EXCEPT !.pc = "shown"])
  BY <1>1 DEF ProjectionEnds, Show
<1>3. w = view'[r] BY <1>2 DEF ReadsInv
<1>4. Viewed(r)'
  <2>1. CASE w = NoView BY <1>3, <2>1 DEF Viewed
  <2>2. CASE w = [v EXCEPT !.pc = "shown"]
    <3>1. /\ DOMAIN v = {"pc", "owner", "principal", "snap", "rounds", "reads"}
          /\ v.snap.position \in 0 .. position
          /\ v.snap = WorldAt(v.snap.position, v.snap.definitions)
          /\ \A known \in v.reads :
                /\ known.request \in Requests
                /\ known.value = ProjectionRead(v.snap, known.request, v.owner, v.principal)
      BY <1>1 DEF ProjectionEnds, NoView, ReadsInv, Viewed
    <3>2. /\ DOMAIN w = DOMAIN v /\ w.snap = v.snap /\ w.owner = v.owner
          /\ w.principal = v.principal /\ w.reads = v.reads
      BY <2>2, <3>1
    <3>3. UNCHANGED <<log, position>> BY <1>0 DEF vars, storeVars
    <3>4. \A known \in w.reads :
             known.value = ProjectionRead(w.snap, known.request, w.owner, w.principal)'
      BY <3>1, <3>2, <3>3, PastStays, RequestsAssumption, ProjectionReadStays
    <3>5. w.snap = WorldAt(w.snap.position, w.snap.definitions)'
      BY <3>1, <3>2, <3>3 DEF WorldAt, RebuiltAt
    <3> QED BY <1>3, <3>1, <3>2, <3>3, <3>4, <3>5 DEF Viewed
  <2> QED BY <1>2, <2>1, <2>2
<1>5. \A s \in Runtimes \ {r} : Viewed(s)' BY <1>2, ViewedStays DEF ReadsInv
<1>6. \A s \in Runtimes : Asked(s)' 
  BY <1>0, AskedStays DEF ReadsInv, vars, runtimeVars
<1> QED BY <1>0, <1>2, <1>4, <1>5, <1>6 DEF ReadsInv

\* The other steps of a worker: only one that evaluates nothing moves on.
LEMMA WorkerMoves ==
    ASSUME Inv, NEW r \in Runtimes, OtherWorkerStep(r), NEW s \in Runtimes
    PROVE  worker'[s] = worker[s] \/ ~At(s, "evaluate")
<1>0. DOMAIN worker = Runtimes BY DEF Inv, RuntimeInv, RuntimeTypes
<1>1. CASE s = r
  <2>1. CASE Take(r) \/ Lookup(r) \/ TakeSnapshot(r) \/ CommitCall(r) \/ CommitReturns(r)
    BY <1>1, <2>1 DEF Take, Lookup, TakeSnapshot, CommitCall, CommitReturns, At
  <2>2. CASE CommitStep(r) BY <2>2 DEF CommitStep, runtimeVars
  <2> QED BY <2>1, <2>2 DEF OtherWorkerStep
<1>2. CASE s # r
  <2>1. ASSUME NEW w, Goto(r, w) PROVE worker'[s] = worker[s]
    BY <1>0, <1>2, <2>1 DEF Goto
  <2>2. CASE Take(r) \/ CommitCall(r) BY <2>1, <2>2 DEF Take, CommitCall
  <2>3. CASE Lookup(r) \/ TakeSnapshot(r) \/ CommitReturns(r)
    BY <2>1, <2>3 DEF Lookup, TakeSnapshot, CommitReturns, Tell, Continue
  <2>4. CASE CommitStep(r) BY <2>4 DEF CommitStep, runtimeVars
  <2> QED BY <2>2, <2>3, <2>4 DEF OtherWorkerStep
<1> QED BY <1>1, <1>2

\* A System's answer, or a crash, ends what it was told.
LEMMA AskingEnds ==
    ASSUME Inv, [Next]_vars, ReadsInv, NEW r \in Runtimes, NEW w,
           worker' = [worker EXCEPT ![r] = w],
           asking' = [asking EXCEPT ![r] = NotAsked]
    PROVE  DOMAIN asking' = Runtimes /\ \A s \in Runtimes : Asked(s)'
<1>0. DOMAIN worker = Runtimes BY DEF Inv, RuntimeInv, RuntimeTypes
<1>1. asking'[r].reads = {} BY DEF ReadsInv, NotAsked
<1>2. Asked(r)' BY <1>1 DEF Asked
<1>3. \A s \in Runtimes \ {r} : asking'[s] = asking[s] /\ worker'[s] = worker[s]
  BY <1>0 DEF ReadsInv
<1>4. \A s \in Runtimes \ {r} : Asked(s)' BY <1>3, AskedStays DEF ReadsInv
<1> QED BY <1>2, <1>4 DEF ReadsInv

LEMMA ReadsStep == Inv /\ ReadsInv /\ [ServicesNext]_allVars => ReadsInv'
<1> SUFFICES ASSUME Inv, ReadsInv, [ServicesNext]_allVars PROVE ReadsInv' OBVIOUS
<1>0. [Next]_vars BY ServicesStep
<1>1. ASSUME UNCHANGED serviceVars,
             \A s \in Runtimes : worker'[s] = worker[s] \/ ~At(s, "evaluate")
      PROVE  ReadsInv'
  <2>1. \A s \in Runtimes : asking'[s] = asking[s] /\ view'[s] = view[s]
    BY <1>1 DEF serviceVars
  <2>2. \A s \in Runtimes : Asked(s)'
    BY <1>0, <1>1, <2>1, AskedStays DEF ReadsInv, Asked
  <2>3. \A s \in Runtimes : Viewed(s)'
    BY <1>0, <2>1, ViewedStays DEF ReadsInv
  <2> QED BY <1>1, <2>2, <2>3 DEF ReadsInv, serviceVars
<1>2. CASE UNCHANGED allVars
  BY <1>1, <1>2 DEF allVars, vars, runtimeVars
<1>3. ASSUME NEW batch \in SchemaBatches, RegisterSchemas(batch),
             UNCHANGED <<runtimeVars, serviceVars>>
      PROVE  ReadsInv'
  BY <1>1, <1>3 DEF runtimeVars
<1>4. ASSUME NEW r \in Runtimes, NEW c,
             Start(r) \/ Shutdown(r) \/ Joined(r) \/ Submit(r, c),
             UNCHANGED serviceVars
      PROVE  ReadsInv'
  <2>1. UNCHANGED worker BY <1>4 DEF Start, Shutdown, Joined, Submit
  <2> QED BY <1>1, <1>4, <2>1
<1>5. ASSUME NEW r \in Runtimes, OtherWorkerStep(r), UNCHANGED serviceVars PROVE ReadsInv'
  BY <1>1, <1>5, WorkerMoves
<1>6. ASSUME NEW r \in Runtimes, SystemAnswers(r) PROVE ReadsInv'
  <2>1. asking' = [asking EXCEPT ![r] = NotAsked] /\ UNCHANGED view
    BY <1>6 DEF SystemAnswers
  <2>2. \E w : worker' = [worker EXCEPT ![r] = w]
    <3> DEFINE Moves == \E w : Goto(r, w)
    <3>1. \A result : Tell(r, result) => Moves BY DEF Tell
    <3>2. \A w : Continue(r, w) => Moves BY DEF Continue
    <3> HIDE DEF Moves
    <3>3. Moves BY <1>6, <3>1, <3>2 DEF SystemAnswers, EvaluateSystem
    <3> QED BY <3>3 DEF Moves, Goto
  <2>3. \A s \in Runtimes : Viewed(s)'
    BY <1>0, <2>1, ViewedStays DEF ReadsInv
  <2> QED BY <1>0, <2>1, <2>2, <2>3, AskingEnds DEF ReadsInv
<1>7. ASSUME NEW r \in Runtimes, ProcessCrash(r) PROVE ReadsInv'
  <2>1. /\ asking' = [asking EXCEPT ![r] = NotAsked]
        /\ view' = [view EXCEPT ![r] = NoView]
        /\ worker' = [worker EXCEPT ![r] = Idle]
    BY <1>7 DEF ProcessCrash, Crash, Show
  <2>2. Viewed(r)' BY <2>1 DEF Viewed, ReadsInv
  <2>3. \A s \in Runtimes \ {r} : view'[s] = view[s] BY <2>1 DEF ReadsInv
  <2>4. \A s \in Runtimes \ {r} : Viewed(s)'
    BY <1>0, <2>3, ViewedStays DEF ReadsInv
  <2> QED BY <1>0, <2>1, <2>2, <2>4, AskingEnds DEF ReadsInv
<1>8. ASSUME NEW r \in Runtimes, AskSystem(r) \/ Project(r) \/ AskProjection(r) \/ ProjectionEnds(r)
      PROVE  ReadsInv'
  BY <1>0, <1>8, AskSystemReads, ProjectReads, AskProjectionReads, ProjectionEndsReads
<1> QED BY <1>2, <1>3, <1>4, <1>5, <1>6, <1>7, <1>8
        DEF ServicesNext, WorkerSteps, JoinedStep

\* What a service was told, in however many rounds, is what the world was at one
\* position, redacted for a view to what is its owner's (resolve_read, twice).
THEOREM ReadsOfOnePosition == ServicesSpec => []ReadsAreOfOnePosition
<1>1. Inv /\ ReadsInv => ReadsAreOfOnePosition
  <2> SUFFICES ASSUME Inv, ReadsInv, NEW r \in Runtimes
               PROVE  /\ \A known \in asking[r].reads :
                            known.value = SystemRead(WorldAt(worker[r].evaluated, registry), known.request)
                      /\ view[r] # NoView => \A known \in view[r].reads :
                            known.value = OwnRead(WorldAt(view[r].snap.position, view[r].snap.definitions),
                                                  known.request, view[r].owner, view[r].principal)
    BY DEF ReadsAreOfOnePosition, OwnRead, WorldAt
  <2>1. \A known \in asking[r].reads :
           known.value = SystemRead(WorldAt(worker[r].evaluated, registry), known.request)
    BY DEF ReadsInv, Asked
  <2>2. ASSUME view[r] # NoView, NEW known \in view[r].reads
        PROVE  known.value = OwnRead(WorldAt(view[r].snap.position, view[r].snap.definitions),
                                     known.request, view[r].owner, view[r].principal)
    <3>1. known.request.read \in {"entity", "relation", "facet", "control"}
      BY <2>2, RequestsAssumption DEF ReadsInv, Viewed
    <3>2. /\ known.value = ProjectionRead(view[r].snap, known.request, view[r].owner, view[r].principal)
          /\ view[r].snap = WorldAt(view[r].snap.position, view[r].snap.definitions)
      BY <2>2 DEF ReadsInv, Viewed
    <3> QED BY <3>1, <3>2, ProjectionReadsOwn DEF WorldAt
  <2> QED BY <2>1, <2>2
<1>2. ServicesSpec => []ReadsInv
  BY ReadsInit, ReadsStep, RuntimeInvHolds, PTL DEF ServicesSpec
<1> QED BY <1>1, <1>2, RuntimeInvHolds, PTL
=============================================================================
