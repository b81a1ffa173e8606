----------------------------- MODULE WorldStore -----------------------------
(***************************************************************************)
(* The authoritative storage of one world: SqliteWorldStorage and its      *)
(* commit transaction (crates/storage/src/sqlite/{mod,commit}.rs).         *)
(*                                                                         *)
(* Several connections may hold the same database open.  A commit opens an *)
(* IMMEDIATE transaction, so one write transaction is open at a time; it   *)
(* applies its mutations one by one to staged tables that nobody else sees *)
(* and publishes them, the log, the command identity, the events and the   *)
(* effect jobs at COMMIT.  An error or a crash before COMMIT discards the  *)
(* staged tables.                                                          *)
(***************************************************************************)
EXTENDS WorldState, SequencesExt

CONSTANTS
    Writers,        \* open connections to the database
    Commands,       \* the commands a client may issue
    Transactions,   \* what Systems may propose for them
    SchemaBatches,  \* the batches of schema definitions extensions register
    MaxPosition     \* bound on the commit position (i64::MAX in the code)

ASSUME PositionAssumption == MaxPosition \in Nat
ASSUME CommandAssumption ==
    \A c \in Commands :
        /\ DOMAIN c = {"id", "schema", "principal", "actor", "expected", "payload"}
        /\ c.expected \subseteq Nat
ASSUME TransactionAssumption ==
    \A tx \in Transactions :
        /\ DOMAIN tx = {"mutations", "events", "effects"}
        /\ tx.mutations \in Seq(ToSet(tx.mutations))
        /\ \A m \in ToSet(tx.mutations) : m.op \in Operations

CommandIds == {c.id : c \in Commands}
Definitions == UNION SchemaBatches

VARIABLES
    registry,   \* world_schemas: the registered definitions
    world,      \* the current-state tables
    position,   \* world_metadata.commit_position
    commits,    \* world_commits: command identity -> the committed command
    log,        \* world_mutations: the mutations of each position, in order
    events,     \* world_events: event identity -> position
    jobs,       \* effect_jobs: job identity -> position
    sql,        \* the open write transaction, if any
    reply       \* what the last commit call of each connection returned

durable == <<registry, world, position, commits, log, events, jobs>>
storeVars == <<registry, world, position, commits, log, events, jobs, sql, reply>>

NoTransaction == [open |-> FALSE]
NoReply == [kind |-> "none"]
Failure(kind) == [kind |-> kind]
Receipt(disposition, pos) == [kind |-> disposition, position |-> pos]

StoreInit ==
    /\ registry = {}
    /\ world = EmptyWorld
    /\ position = 0
    /\ commits = NoRows
    /\ log = <<>>
    /\ events = NoRows
    /\ jobs = NoRows
    /\ sql = NoTransaction
    /\ reply = [w \in Writers |-> NoReply]

-----------------------------------------------------------------------------
(* Schemas.                                                                *)

\* A key has one definition for ever; registering the same one again is a no-op.
Compatible(definitions) ==
    \A d1, d2 \in definitions : d1.key = d2.key => d1 = d2

\* register_schemas: the whole batch, or a conflict and nothing.
RegisterSchemas(batch) ==
    /\ ~sql.open
    /\ Compatible(registry \cup batch)
    /\ registry' = registry \cup batch
    /\ UNCHANGED <<world, position, commits, log, events, jobs, sql, reply>>

HasKind(key, kind) == \E d \in registry : d.key = key /\ d.kind = kind

\* The kind of schema each mutation needs.
MutationKindsKnown(m) ==
    CASE m.op = "CreateEntity" -> HasKind(m.schema, "Entity")
      [] m.op = "CreateRelation" -> HasKind(m.schema, "Relation")
      [] m.op \in {"SetFacet", "RemoveFacet"} -> HasKind(m.key.schema, "Facet")
      [] m.op = "GrantControl" ->
            \A exact \in m.grant.scope :
                exact # {} /\ \A s \in exact : HasKind(s, "Command")
      [] OTHER -> TRUE

\* Event and effect drafts: each has an identity and a schema.
Ids(drafts) == {d.id : d \in ToSet(drafts)}
Distinct(drafts) ==
    \A i, k \in DOMAIN drafts : drafts[i].id = drafts[k].id => i = k

\* WorldTransaction::validate_schemas.
TransactionValid(tx) ==
    /\ tx.mutations # <<>> \/ tx.events # <<>> \/ tx.effects # <<>>
    /\ Distinct(tx.events) /\ Distinct(tx.effects)
    /\ \A i \in DOMAIN tx.mutations : MutationKindsKnown(tx.mutations[i])
    /\ \A d \in ToSet(tx.events) : HasKind(d.schema, "Event")
    /\ \A d \in ToSet(tx.effects) : HasKind(d.schema, "Effect")

-----------------------------------------------------------------------------
(* Reads and the checks before a write.                                    *)

\* Faulty: looks for the same command instead of the same identity.
Known_SameContent(c) == \E id \in DOMAIN commits : commits[id].command = c

\* The primary key of world_commits is the command's identity alone.
Known(c) == c.id \in DOMAIN commits

\* Faulty: a replay is reported like the first commit.
ExistingReceipt_AsFirst(c) ==
    IF commits[c.id].command = c
    THEN Receipt("Committed", commits[c.id].position)
    ELSE Failure("CommandIdConflict")

\* committed_receipt: the digest covers the whole command, so the same
\* identity with any other content is a conflict.
ExistingReceipt(c) ==
    IF commits[c.id].command = c
    THEN Receipt("AlreadyCommitted", commits[c.id].position)
    ELSE Failure("CommandIdConflict")

\* Faulty: a grant is still good one position past its last.
CommandValid_OnePositionLate(c) ==
    /\ HasKind(c.schema, "Command")
    /\ \A e \in c.expected : e = position
    /\ Authorized(world, c, position - 1)

\* validate_command, against the current tables.
CommandValid(c) ==
    /\ HasKind(c.schema, "Command")
    /\ \A e \in c.expected : e = position
    /\ Authorized(world, c, position)

\* Faulty: commits an evaluation of an older state.
CommitAllowed_StaleEvaluation(c, tx, evaluated) ==
    /\ CommandValid(c)
    /\ TransactionValid(tx)
    /\ Ids(tx.events) \cap DOMAIN events = {}
    /\ Ids(tx.effects) \cap DOMAIN jobs = {}
    /\ position < MaxPosition

\* Everything commit() checks before its first INSERT.
CommitAllowed(c, tx, evaluated) ==
    /\ CommandValid(c)
    /\ TransactionValid(tx)
    /\ Ids(tx.events) \cap DOMAIN events = {}
    /\ Ids(tx.effects) \cap DOMAIN jobs = {}
    /\ position = evaluated
    /\ position < MaxPosition

-----------------------------------------------------------------------------
(* The commit transaction of connection w.                                 *)

Answer(w, r) == reply' = [reply EXCEPT ![w] = r]

\* The identity was committed before: answer from the stored receipt.
CommitReplay(w, c) ==
    /\ ~sql.open
    /\ Known(c)
    /\ Answer(w, ExistingReceipt(c))
    /\ UNCHANGED <<durable, sql>>

\* A check fails: the call returns its error and the transaction is dropped.
CommitRejected(w, c, tx, evaluated) ==
    /\ ~sql.open
    /\ ~Known(c)
    /\ ~CommitAllowed(c, tx, evaluated)
    /\ Answer(w, Failure("Rejected"))
    /\ UNCHANGED <<durable, sql>>

\* Another connection holds the write lock past the busy timeout.
CommitBusy(w) ==
    /\ sql.open /\ sql.owner # w
    /\ Answer(w, Failure("Rejected"))
    /\ UNCHANGED <<durable, sql>>

\* BEGIN IMMEDIATE and the checks pass; mutations start on a private copy.
CommitBegin(w, c, tx, evaluated) ==
    /\ ~sql.open
    /\ ~Known(c)
    /\ CommitAllowed(c, tx, evaluated)
    /\ sql' = [open |-> TRUE, owner |-> w, command |-> c, tx |-> tx,
               next |-> 1, staged |-> world]
    /\ Answer(w, NoReply)
    /\ UNCHANGED durable

\* Faulty: stops before the last mutation.
MutationsLeft_OffByOne == sql.next < Len(sql.tx.mutations)

\* The for loop over world_transaction.mutations().
MutationsLeft == sql.next <= Len(sql.tx.mutations)
NextMutation == sql.tx.mutations[sql.next]

\* One turn of the loop: apply_mutation on the staged tables.
CommitMutation(w) ==
    /\ sql.open /\ sql.owner = w
    /\ MutationsLeft
    /\ CanApply(sql.staged, NextMutation)
    /\ sql' = [sql EXCEPT !.staged = ApplyMutation(@, NextMutation), !.next = @ + 1]
    /\ UNCHANGED <<durable, reply>>

\* A mutation that does not apply, or an SQLite error at any statement, drops
\* the SQLite transaction, which rolls it back.
CommitRollback(w) ==
    /\ sql.open /\ sql.owner = w
    /\ sql' = NoTransaction
    /\ Answer(w, Failure("Rejected"))
    /\ UNCHANGED durable

AtPosition(drafts, pos) == [id \in Ids(drafts) |-> pos]
Merge(table, rows) ==
    [k \in DOMAIN table \cup DOMAIN rows |->
        IF k \in DOMAIN rows THEN rows[k] ELSE table[k]]

\* current_position.checked_add(1): MaxPosition guards the overflow.
NextPosition == position + 1

\* Events, effect jobs, the metadata row, COMMIT.
CommitFinish(w) ==
    /\ sql.open /\ sql.owner = w
    /\ ~MutationsLeft
    /\ position' = NextPosition
    /\ world' = sql.staged
    /\ commits' = Upsert(commits, sql.command.id,
                         [command |-> sql.command, position |-> NextPosition])
    /\ log' = Append(log, sql.tx.mutations)
    /\ events' = Merge(events, AtPosition(sql.tx.events, NextPosition))
    /\ jobs' = Merge(jobs, AtPosition(sql.tx.effects, NextPosition))
    /\ sql' = NoTransaction
    /\ Answer(w, Receipt("Committed", NextPosition))
    /\ UNCHANGED registry

\* The process of connection w dies: SQLite discards its open transaction.
CloseConnection(w) ==
    /\ sql' = IF sql.open /\ sql.owner = w THEN NoTransaction ELSE sql
    /\ Answer(w, NoReply)
    /\ UNCHANGED durable

Commit(w, c, tx, evaluated) ==
    \/ CommitBusy(w)
    \/ CommitReplay(w, c)
    \/ CommitRejected(w, c, tx, evaluated)
    \/ CommitBegin(w, c, tx, evaluated)

StoreNext ==
    \/ \E batch \in SchemaBatches : RegisterSchemas(batch)
    \/ \E w \in Writers :
          \/ \E c \in Commands, tx \in Transactions, evaluated \in 0 .. position :
                Commit(w, c, tx, evaluated)
          \/ CommitMutation(w)
          \/ CommitRollback(w)
          \/ CommitFinish(w)
          \/ CloseConnection(w)

StoreSpec == StoreInit /\ [][StoreNext]_storeVars
-----------------------------------------------------------------------------
(* Properties.                                                             *)

\* Every stored mutation is one a System proposed.
Proposed == UNION {ToSet(tx.mutations) : tx \in Transactions}
EventIds == UNION {Ids(tx.events) : tx \in Transactions}
JobIds == UNION {Ids(tx.effects) : tx \in Transactions}

IsTable(table, keys, rows) ==
    DOMAIN table \subseteq keys /\ table \in [DOMAIN table -> rows]
Positions == 0 .. MaxPosition

\* The shape of the stored data: identities keep their kind, positions stay in
\* range, and a write transaction belongs to one connection and one command.
StoreTypeOK ==
    /\ registry \subseteq Definitions
    /\ position \in Positions
    /\ IsTable(commits, CommandIds, [command : Commands, position : Positions])
    /\ log \in Seq(Seq(Proposed)) /\ Len(log) = position
    /\ IsTable(events, EventIds, Positions)
    /\ IsTable(jobs, JobIds, Positions)
    /\ sql.open \in BOOLEAN
    /\ sql.open => /\ sql.owner \in Writers
                   /\ sql.command \in Commands
                   /\ sql.tx \in Transactions
                   /\ sql.next \in 1 .. Len(sql.tx.mutations) + 1
    /\ DOMAIN reply = Writers

\* Cascading deletes keep every reference alive: no relation, facet or control
\* grant ever points at a row that is gone, in the published tables and in the
\* staged ones (the foreign keys of migration.rs, apply_mutation).
Referential ==
    /\ ReferentialIntegrity(world)
    /\ sql.open => ReferentialIntegrity(sql.staged)

\* The state the mutation log describes up to a position.
RebuiltAt(pos) == WorldsOf(log)[pos]

\* The append-only mutation log and the current-state tables never diverge:
\* replaying the log from an empty world gives the tables, so no failed commit
\* left anything behind and no published mutation is missing from the log.
LogRebuildsWorld == world = RebuiltAt(position)

\* A command identity is committed at one position, and the positions are
\* 1 .. position without a gap: every event and effect job belongs to a commit.
OnePositionPerCommand ==
    /\ {commits[id].position : id \in DOMAIN commits} = 1 .. position
    /\ \A a, b \in DOMAIN commits : commits[a].position = commits[b].position => a = b
    /\ \A e \in DOMAIN events : events[e] \in 1 .. position
    /\ \A j \in DOMAIN jobs : jobs[j] \in 1 .. position

\* No command ever took effect without authority: its actor was authorised by
\* the state and at the position just before its own commit, whatever grants
\* were revoked, expired, or created by the command itself (authorize_command).
AuthorizedWhenCommitted ==
    \A id \in DOMAIN commits :
        LET before == commits[id].position - 1 IN
        Authorized(RebuiltAt(before), commits[id].command, before)

Keeps(old, new) == \A k \in DOMAIN old : k \in DOMAIN new /\ new[k] = old[k]

\* What was committed stays committed: the command an identity stands for, its
\* position, and the position of every event and effect job never change, however
\* often and with whatever content the identities are submitted again.
IdentitiesFinal ==
    [][Keeps(commits, commits') /\ Keeps(events, events') /\ Keeps(jobs, jobs')]_storeVars
=============================================================================
