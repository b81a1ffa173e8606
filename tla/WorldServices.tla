---------------------------- MODULE WorldServices -----------------------------
(***************************************************************************)
(* What the services of a world are told: ServiceWorldSystem and           *)
(* ServiceWorldProjection (crates/world-runtime/src/service.rs and         *)
(* projection.rs) over WorldRuntime.                                       *)
(*                                                                         *)
(* The host calls a provider again and again.  Each answer is the result,  *)
(* or a round of reads that the host resolves in a snapshot it has pinned  *)
(* and puts into the next request.  A System is asked by the worker and    *)
(* may read everything; a projection is asked by the thread of the host,   *)
(* while the worker commits, and its provider is told only what is of the  *)
(* projection's owner.                                                     *)
(*                                                                         *)
(* What is read is a set: its order does not matter.  A value is a set of  *)
(* at most one element.                                                    *)
(***************************************************************************)
EXTENDS WorldRuntime

CONSTANTS
    Viewers,        \* the principals views are made for
    Requests,       \* the reads a provider may ask for
    MaxRounds,      \* MAX_WORLD_SYSTEM_ and MAX_WORLD_PROJECTION_SERVICE_ROUNDS
    MaxReads,       \* MAX_WORLD_SYSTEM_ and MAX_WORLD_PROJECTION_SERVICE_READS
    MaxViews        \* bound on the views begun

ASSUME ServicesAssumption == MaxRounds \in Nat \ {0} /\ {MaxReads, MaxViews} \subseteq Nat
ASSUME RequestsAssumption ==
    \A q \in Requests : q.read \in {"entity", "relation", "facet", "control"}

VARIABLES
    asking,     \* of each runtime: the rounds and reads of the evaluation under way
    view,       \* of each runtime: the projection its host is making, or made last
    views       \* how many were begun

serviceVars == <<asking, view, views>>
allVars == <<vars, serviceVars>>

NotAsked == [rounds |-> 0, reads |-> {}]
NoView == [pc |-> "none"]

ServicesInit ==
    /\ Init
    /\ asking = [r \in Runtimes |-> NotAsked]
    /\ view = [r \in Runtimes |-> NoView]
    /\ views = 0

-----------------------------------------------------------------------------
(* Reading a snapshot.                                                     *)

\* SqliteWorldStorage::snapshot: the first statement of the read transaction
\* pins tables, definitions and position together.
Snapshot == [tables |-> world, definitions |-> registry, position |-> position]

\* The schema column of a row, which the tables of WorldState leave out: the one
\* the row was last created with.
CreatedAs(pos, op, key) ==
    LET history == Reverse(FlattenSeq(SubSeq(log, 1, pos)))
        Creates(m) == m.op = op /\ (IF op = "CreateEntity" THEN m.entity ELSE m.relation) = key
    IN history[SelectInSeq(history, Creates)].schema

LoadEntity(snap, e) ==
    {CreatedAs(snap.position, "CreateEntity", x) : x \in snap.tables.entities \cap {e}}

LoadRelation(snap, n) ==
    {[schema |-> CreatedAs(snap.position, "CreateRelation", x), ends |-> snap.tables.relations[x]]
        : x \in DOMAIN snap.tables.relations \cap {n}}

LoadFacet(snap, target, schema) ==
    {snap.tables.facets[k] :
        k \in DOMAIN snap.tables.facets \cap {[target |-> target, schema |-> schema]}}

Allowed == [allowed |-> TRUE]

LoadSchema(snap, schema) == {d \in snap.definitions : d.key = schema}

SchemaOwnedBy(snap, schema, owner, kind) ==
    \E d \in LoadSchema(snap, schema) : d.kind = kind /\ d.owner = owner

\* bind_world_system and bind_world_projection: the services of a world are those of
\* its registered schemas, each pinned to the extension that owns the schema.  A
\* definition never changes, so what is bound is still registered.
Bindings(kind) == {[schema |-> d.key, owner |-> d.owner] : d \in {x \in registry : x.kind = kind}}

\* resolve_read of service.rs.
SystemRead(snap, q) ==
    CASE q.read = "entity" -> LoadEntity(snap, q.entity)
      [] q.read = "relation" -> LoadRelation(snap, q.relation)
      [] q.read = "facet" -> LoadFacet(snap, q.target, q.schema)

\* resolve_read of projection.rs: a row of another owner is as if it were not there,
\* and authority is asked about for the one the view is for.
ProjectionRead(snap, q, owner, principal) ==
    CASE q.read = "entity" ->
            {s \in LoadEntity(snap, q.entity) : SchemaOwnedBy(snap, s, owner, "Entity")}
      [] q.read = "relation" ->
            {row \in LoadRelation(snap, q.relation) : SchemaOwnedBy(snap, row.schema, owner, "Relation")}
      [] q.read = "facet" ->
            IF SchemaOwnedBy(snap, q.schema, owner, "Facet")
            THEN LoadFacet(snap, q.target, q.schema) ELSE {}
      [] q.read = "control" ->
            IF /\ SchemaOwnedBy(snap, q.schema, owner, "Command")
               /\ PrincipalCanControl(snap.tables, principal, q.entity, q.schema, snap.position)
            THEN {Allowed} ELSE {}

\* A read with its answer, as the next request has it.
Resolved(q, value) == [request |-> q, value |-> value]

\* One more round of reads, none of which was resolved before.
NewRound(dialog, round) ==
    /\ dialog.rounds < MaxRounds
    /\ round # {} /\ Cardinality(dialog.reads) + Cardinality(round) <= MaxReads
    /\ \A q \in round : \A known \in dialog.reads : known.request # q

-----------------------------------------------------------------------------
(* Systems.                                                                *)

\* The snapshot the command was validated in.
SystemSees(r) ==
    [tables |-> worker[r].view, definitions |-> registry, position |-> worker[r].evaluated]

\* ServiceWorldSystem::evaluate: the provider wants to read on.
AskSystem(r) ==
    /\ At(r, "evaluate")
    /\ \E b \in Bindings("Command") : b.schema = CommandOf(r).schema
    /\ \E round \in SUBSET {q \in Requests : q.read # "control"} :
          /\ NewRound(asking[r], round)
          /\ asking' = [asking EXCEPT ![r] =
                [rounds |-> @.rounds + 1,
                 reads |-> @.reads \cup
                    {Resolved(q, SystemRead(SystemSees(r), q)) : q \in round}]]
    /\ UNCHANGED <<vars, view, views>>

\* It proposes a transaction, rejects, fails, or breaks the protocol; after the
\* last round it can only have failed.
SystemAnswers(r) ==
    /\ EvaluateSystem(r)
    /\ asking[r].rounds = MaxRounds => worker'[r] = Idle
    /\ asking' = [asking EXCEPT ![r] = NotAsked]
    /\ UNCHANGED <<view, views>>

-----------------------------------------------------------------------------
(* Projections.                                                            *)

Show(r, v) == view' = [view EXCEPT ![r] = v]

\* project_world of an active world.
Project(r) ==
    /\ phase[r] = "running" /\ view[r].pc # "ask" /\ views < MaxViews
    /\ \E p \in Bindings("Projection"), viewer \in Viewers :
          Show(r, [pc |-> "ask", owner |-> p.owner, principal |-> viewer,
                   snap |-> Snapshot, rounds |-> 0, reads |-> {}])
    /\ views' = views + 1
    /\ UNCHANGED <<vars, asking>>

\* Faulty: each round reads what is there by then.
ViewSees_Now(r) == Snapshot

\* Raw reads come from the one snapshot of the call.
ViewSees(r) == view[r].snap

\* ServiceWorldProjection::project: the provider wants to read on.
AskProjection(r) ==
    /\ view[r].pc = "ask"
    /\ \E round \in SUBSET Requests :
          /\ NewRound(view[r], round)
          /\ Show(r, [view[r] EXCEPT
                !.rounds = @ + 1,
                !.reads = @ \cup 
                    {Resolved(q, ProjectionRead(ViewSees(r), q, view[r].owner, view[r].principal))
                        : q \in round}])
    /\ UNCHANGED <<vars, asking, views>>

\* A view that validates, unless it took too many rounds, or an error.
ProjectionEnds(r) ==
    /\ view[r].pc = "ask"
    /\ \/ view[r].rounds < MaxRounds /\ Show(r, [view[r] EXCEPT !.pc = "shown"])
       \/ Show(r, NoView)
    /\ UNCHANGED <<vars, asking, views>>

-----------------------------------------------------------------------------
\* The process dies with its worker and with its host.
ProcessCrash(r) ==
    /\ Crash(r)
    /\ asking' = [asking EXCEPT ![r] = NotAsked]
    /\ Show(r, NoView)
    /\ UNCHANGED views

OtherWorkerStep(r) ==
    \/ Take(r) \/ Lookup(r) \/ TakeSnapshot(r)
    \/ CommitCall(r) \/ CommitStep(r) \/ CommitReturns(r)

WorkerSteps(r) == SystemAnswers(r) \/ (OtherWorkerStep(r) /\ UNCHANGED serviceVars)
JoinedStep(r) == Joined(r) /\ UNCHANGED serviceVars

ServicesNext ==
    \/ \E batch \in SchemaBatches : RegisterSchemas(batch) /\ UNCHANGED <<runtimeVars, serviceVars>>
    \/ \E r \in Runtimes :
          \/ (Start(r) \/ Shutdown(r)) /\ UNCHANGED serviceVars
          \/ JoinedStep(r)
          \/ ProcessCrash(r)
          \/ \E c \in Commands : Submit(r, c) /\ UNCHANGED serviceVars
          \/ WorkerSteps(r) \/ AskSystem(r)
          \/ Project(r) \/ AskProjection(r) \/ ProjectionEnds(r)

\* A worker that can run does run, its providers answer, and a join returns.
ServicesFairness ==
    \A r \in Runtimes : WF_allVars(WorkerSteps(r)) /\ WF_allVars(JoinedStep(r))

ServicesSpec == ServicesInit /\ [][ServicesNext]_allVars /\ ServicesFairness
-----------------------------------------------------------------------------
(* Properties.                                                             *)

\* The world as the log has it at a position, and what of it is an owner's by the
\* given definitions.
WorldAt(pos, definitions) ==
    [tables |-> RebuiltAt(pos), definitions |-> definitions, position |-> pos]
OwnKeys(definitions, owner, kind) ==
    {d.key : d \in {x \in definitions : x.owner = owner /\ x.kind = kind}}

Redacted(whole, owner) ==
    LET st == whole.tables
        mine(e) == LoadEntity(whole, e) \subseteq OwnKeys(whole.definitions, owner, "Entity")
        linked(n) == \A row \in LoadRelation(whole, n) :
                        row.schema \in OwnKeys(whole.definitions, owner, "Relation")
    IN [whole EXCEPT !.tables =
          [entities |-> {e \in st.entities : mine(e)},
           relations |-> Without(st.relations, {n \in DOMAIN st.relations : ~linked(n)}),
           facets |-> Without(st.facets, {k \in DOMAIN st.facets :
                                            k.schema \notin OwnKeys(whole.definitions, owner, "Facet")}),
           grants |-> st.grants]]

\* What a provider has been told is what the world was at the one position of the
\* evaluation, however many commits come between the rounds: a System is told all of
\* it, and the provider of a view what would be left if the world held nothing but
\* its owner's rows, whatever it asks for (resolve_read, twice; SqliteWorldSnapshot).
\* Definitions registered since the view began make no row the owner's.
ReadsAreOfOnePosition ==
    \A r \in Runtimes :
        /\ \A known \in asking[r].reads :
              known.value = SystemRead(WorldAt(worker[r].evaluated, registry), known.request)
        /\ view[r] # NoView =>
              LET v == view[r]
                  definitions == v.snap.definitions
                  own == Redacted(WorldAt(v.snap.position, definitions), v.owner)
              IN \A known \in v.reads :
                    LET q == known.request IN
                    known.value =
                       IF q.read # "control" THEN SystemRead(own, q)
                       ELSE {a \in {Allowed} :
                               /\ q.schema \in OwnKeys(definitions, v.owner, "Command")
                               /\ PrincipalCanControl(own.tables, v.principal, q.entity, q.schema,
                                                      own.position)}
=============================================================================
