# Rintawa in TLA+

Rintawa runs persistent *worlds*: each world is an authoritative SQLite database
that changes only through commands, and extensions (mostly WASM) supply the
systems that evaluate commands, the handlers that carry out effects, and the
interfaces that show the world.  This directory models the parts whose
correctness rests on order, failure and concurrency, checks them with TLC, and
proves the main results with TLAPS.

## The system

| Part (under `src/crates`) | State it keeps | Operations | Talks to |
|---|---|---|---|
| World model (`world`) | none: mutations, schemas, grants, transactions | validate, authorise | used by storage and runtime |
| World storage (`storage/src/sqlite`) | tables, mutation log, command identities, events, effect jobs | create, open, register schemas, receipt lookup, snapshot, commit | every process that opened the world |
| Effect outbox (`storage/src/sqlite/outbox.rs`) | status, attempt, lease and availability of each job | claim, complete, retry, cancel | filled by commits, emptied by pumps |
| World runtime (`world-runtime/src/runtime.rs`) | a bounded queue, a worker thread | submit, evaluate, commit, shutdown | storage; systems |
| World services (`service.rs`, `projection.rs`) | the rounds of one evaluation | ask, resolve reads, answer | pinned snapshots; providers through the router |
| Effect pump (`host/src/runtime.rs` 2210-2350) | the claim in hand | claim, execute handler, submit follow-up, settle | outbox, world runtime, live subscribers |
| Host runtime (`host/src/runtime.rs`) | active worlds, request queues and statuses, signals | activate, deactivate, poll, pumps | engine, runtimes, home |
| Host home (`host/src/lib.rs`, `profile.rs`, `user_content.rs`) | directories of worlds, composition profiles, user content, artifacts | create, delete, import, select, enable, grant, prefer | file system, storage |
| Extension engine (`extension-engine/src/engine.rs`) | instances and their state, subscriptions, tasks | register, start, stop, quarantine, poll, dispatch | services, UI runtime, host |
| Activation plans (`activation.rs`, `composition.rs`) | none | resolve contracts, plan an order | engine, host |
| Service routing (`services.rs`) | services, route cache, handles, calls in progress | register, bind, resolve, call | engine |
| WASM runtime (`runtime/wasm.rs`, `wasm/*.rs`) | one store for a provider and its delegates: effects, tasks, sockets, uploads | register, call back, poll, fail, stop | engine, host access |
| UI runtime (`ui-runtime`) | layers, surfaces, queued actions, focus | mount, patch, attach, queue, route | engine, host |
| Artifacts, SDK, loaders, application | content-addressed files; bindings; command line | pack, load, link, run loop | engine, home |

**Concurrency.**  A process has one host thread, which runs the loop of
`main.rs`, and one worker thread per active world.  All host access (starting a
world, submitting a command, changing the home) happens inside callbacks of
components on the host thread.  A worker runs services only: they may call other
services and change the surface of their instance, nothing else.  What meets is
therefore: a worker and the host thread, on the store of a WASM provider, on the
router and on the UI; callbacks and half-drained lists, on the host thread; and
several processes, on one database, where commits race (`BEGIN IMMEDIATE`, 5 s
busy timeout, a position check at commit).  Extension code may fail, panic, or
answer differently each time.

**What makes each part correct**

* Storage: a commit is all or nothing; the log and the tables agree; an identity
  is committed once; authority is checked against the state the command commits in.
* Runtime: commands execute one at a time on a state that is not stale; every
  ticket is answered; what a provider is told is of one position.
* Outbox and pump: an effect is executed at least once, by one worker at a time
  within a lease; late answers are fenced; a follow-up is durable before its job
  is complete; live events are delivered at most once.
* Host: an accepted request is dealt with and its status kept; a running world
  keeps its files; an activation that fails leaves nothing; one that can succeed
  is not refused.
* Home: approvals belong to what is installed; a crash or an error loses nothing
  that was there and leaves no half world that an operation believes in.
* Engine, routing, guests: nothing reaches a stopped provider; a failed start or
  callback leaves nothing behind; the engine and the store of the guests agree.
* UI: what is shown can be rendered; an action reaches what the user saw.

## Modules

| Module | Models | Lines of code it stands for |
|---|---|---|
| `WorldState` | what one mutation does to the tables, the cascades, authority | `commit.rs`, `query.rs`, `migration.rs` (foreign keys) |
| `WorldStore` | the commit transaction, step by step, over several connections | `commit.rs`, `mod.rs`, `transaction.rs`, `schema.rs` |
| `CommandLedger` | the promise of store and runtime: one command at a time | abstract |
| `WorldRuntime` | runtimes with their queues and workers over `WorldStore` | `world-runtime/src/runtime.rs` |
| `WorldServices` | what System services and projections are told, over `WorldRuntime` | `service.rs`, `projection.rs`, `snapshot.rs` |
| `EffectOutbox` | the job table and the claims held in memory | `sqlite/outbox.rs` |
| `EffectPump` | the host's pump over `EffectOutbox` | `host/src/runtime.rs` |
| `HostControl` | requests of components, their queues and statuses, and `poll_runtime` | `host/src/runtime.rs` |
| `HostBootstrap` | activation of a composition, rollback, deactivation, shutdown | `host/src/runtime.rs`, `activation.rs`, `artifact_loader.rs`, `engine.rs` |
| `HostHome` | the files of a host home and everything that changes them | `host/src/lib.rs`, `profile.rs`, `user_content.rs`, `world_catalog.rs`, `host_access.rs`, `main.rs`, `migration.rs` |
| `GuestAccess` | uploads in pieces, by store, and the pool of user resources, over `HostHome` | `control_plane.rs`, `host/src/runtime.rs` |
| `ServiceRouting` | how calls between components find their provider, and the calls in progress | `services.rs`, `composition.rs`, `secrets.rs` |
| `EngineLifecycle` | instances from registration to unregistration, quarantine, polls and dispatches | `engine.rs`, `runtime_effects.rs`, `execution_targets.rs` |
| `GuestRuntime` | the store that a WASM provider shares with its delegates | `wasm.rs`, `target_provider.rs`, `network.rs`, `engine.rs` |
| `UiSurface` | a surface as a tree, and its patches | `ui-runtime/src/runtime.rs`, `validation.rs` |
| `UiRuntime` | layers, focus, surfaces and queued actions over the life of instances | `ui-runtime/src/runtime.rs`, `engine.rs`, `host/src/runtime.rs` |
| `WorldProofs` | the theorems about `WorldStore`, `WorldRuntime` and `WorldServices` | |
| `HostRuntimeProofs` | the theorems about `HostControl` and `HostBootstrap` | |
| `HostHomeProofs` | the theorems about `HostHome` and `GuestAccess` | |
| `EffectPumpProofs`, `EngineLifecycleProofs`, `GuestRuntimeProofs`, `UiRuntimeProofs`, `ServiceRoutingProofs` | the theorems about the module of that name | |
| `MC*` | small instances for TLC | |

`PROJECT.json` gives the exact lines of every definition.

Definitions whose name ends in `_Something` next to the definition they are named
after (`Known_SameContent` beside `Known`) are deliberate mistakes, marked
*Faulty*.  Nothing uses them; put in the place of the right definition, each
breaks the property that is there to catch it.

Composition: `WorldServices` extends `WorldRuntime` extends `WorldStore` extends
`WorldState`; `EffectPump` extends `EffectOutbox`; `GuestAccess` extends
`HostHome`; `UiRuntime` extends `UiSurface`.  `WorldRuntime` is shown to
implement `CommandLedger` by the refinement mapping `Ledger` (property
`ExecutesOneAtATime`).  The modules of the host meet in their interfaces:
`HostControl` knows of an activation that it starts callbacks, then succeeds or
fails, which `HostBootstrap` spells out; of effects that they deliver events,
which is `EffectPump`; of the home that worlds are created and deleted at once,
which is `HostHome`.  `EngineLifecycle` treats a component's callback as a step
that succeeds or fails; `GuestRuntime` is what such a step is for a WASM
component.

### How state and actions correspond to the code

*Tables.*  A table is a function from its key; rows are records.  `world` holds
`entities`, `relations`, `facets` and `grants`; `commits`, `log`, `events` and
`jobs` are `world_commits`, `world_mutations`, `world_events` and the identities
in `effect_jobs`; `position` is the metadata row.  An optional column is a set of
at most one element.  JSON payloads are model values and always valid against
their schema; the kinds of schemas are checked as in `validate_schemas`.

*A commit* is `CommitBegin` (BEGIN IMMEDIATE and every check), one
`CommitMutation` for each mutation, on `sql.staged`, and `CommitFinish` (events,
jobs, metadata, COMMIT).  `CommitRollback` may happen at any point between: it is
a mutation that does not apply and equally an SQLite error.  `CloseConnection` is
the death of the process.  `CommitReplay`, `CommitRejected` and `CommitBusy` are
the calls that end before they write.

*The command digest* stands for all fields of the command, so two commands have
the same digest exactly when they are equal.  Collisions of SHA-256 are left out.

*The runtime's worker* is a program counter: `lookup`, `snapshot`, `evaluate`,
`commit`, `committing`.  Between any two of them another runtime may commit.
`Evaluate(c, state)` is the set of transactions the system of the command may
propose, of those in `Transactions`, whose shape is assumed; systems may also fail or panic.  A ticket is a channel; its `result` is
what the caller gets.  All errors but `CommandIdConflict` are one value, because
no property tells them apart.

*World services.*  While a worker is at `evaluate`, the provider of its System may
ask for rounds of reads (`AskSystem`), resolved in the snapshot the command was
validated in; `asking` is what it has been told.  A host makes a `view` for a
principal: the snapshot is pinned by `Project`, each `AskProjection` resolves a
round in it, filtered by the owner of the projection.  A service is bound to the
owner of the schema, whose definition never changes; a view filters by the
definitions pinned with its snapshot.

*Time in the outbox* is what is left of it: `wait` counts the ticks until a
lease or a backoff ends, `age` the ticks since a claim was taken.  A late worker
still holds its `claim`, which is how late completions arise.

*The pump* sees of the world runtime only the identity of the follow-up
(`followup[j]`), whose behaviour `WorldRuntime` establishes: new, known with the
same content, known with another content, or an error before or after the commit.

*The host's requests.*  `control.active`, `.pending` and `.failed` are the three
maps of `WorldSessionRuntimeState`; `commands`, `table["content"]` and
`table["projection"]` the bounded queues, the last two with statuses and the order
of completion; `running` is `active_worlds` with the signals waiting in each.
`poll` is where `poll_runtime` is: the pump (`at`), whether it has drained its
queue, the entries still in its hands (`todo`) and the callback that one of them
runs.  Requests are made only while `poll.callback` is a callback.  `Down` is the
end of the loop, an error out of `poll_runtime` and the death of the process.

*An activation* is `job`: `load` (one activation at a time, those whose target is
missing are deferred to the next round), `boot` (passes over the instances that
may publish a target and what they need, one start and the pass begins again),
`plan`, `batch`, and `undo` with the cleanup list.  `StepFails` is an artifact
that does not load, a callback that fails or a database that does not open, at
any step.  Instances are numbers because the code orders their identifiers; the
contracts of a scope are resolved as in `composition.rs`, the targets belong to
the engine and are shared by all scopes.

*The home* is `profiles` (the compositions of the host, of the recipe for new
worlds and of each world, with activations, grants, preferred providers and
preferences), `dirs` (how far a world's directory got), `library` and `stored`.
Files are replaced by renaming, so a step is one file.  Operations are written
once, without saying who may call them; the callers are layers above: the
interfaces of `LocalHostAccess`, the host functions that check the permissions a
running composition was activated with, and the commands of the application.  An
operation that writes twice leaves a `job`, which a crash or an error cuts.
An upload (`GuestAccess`) belongs to the `WasmHostState` of its store, which a target
provider shares with the components it hosts (`Store`): they share its handles and
its limit, and what a component leaves there when it stops stays until the store
goes, so the reservation of a stopped delegate still counts.

*Service routing.*  A thread's `call` is the request it is routing, with a program
counter between any two lock operations; `writer` and `readers` are the RwLock.
A resolution runs under that lock, but the grants have another one, so it reads
them one component at a time (`ReadGrant`), and `ChangeGrants` may come between.
`exec` and `stack` are the component a thread executes and the providers it is
inside of: the component mutexes are held exactly by those.  `seen` is history:
the answers an instantaneous resolution would have given since the request began.
Who calls from an execution is an inactive caller allowed for (`executing`).

*The engine.*  An operation is a value of `op`, and each of its callbacks into
extension code a step that may succeed, fail, and add or revoke effects.
`running` is what the callbacks amount to: a component runs from the call of its
`start`, failed or not, to the call of its `stop`.  `contributions`, `effects`,
`hosts` and `uses` are `active_contributions`, the runtime effects, the published
execution targets and the dependencies bound at loading; `serving` and `shown`
are `is_active` in the service runtime and the UI.  A quarantine keeps its call
stack in `op.chain`, and `todo` is the snapshot that a poll or dispatch has yet
to visit, in any order.  Every callback may fail at any time, so the refusals of
the activation plan and of the target hosts need no actions of their own.

*A guest store.*  `call` is the callback the host thread is in, with what it has
asked for and not yet been given: subscriptions, revocations, declarations.
`handles` is what the guest holds, `registry` what the engine holds; a callback
commits to both (`Return`) or neither (`Fail`).  `due` is the list of tasks a poll
found due, `stopping` the components a stop or a quarantine has still to reach,
the provider last.  `service` is the delegate whose service a worker runs: it
holds the lock that every entry of the host thread only tries to take.

*The UI.*  `life` is what the engine tells the UI of an instance, `mounted` its
surface, `layer` the one layer with what it can render (`rich`), its focus and the
focus it asked for (`pending`); `work` is a queue the host has drained.  `sessions`
in a queued action or focus request is history: how often layer and target had been
started.  What is handled in later sessions than it was queued in is kept in `strayed`.

## Runs

| Run | Question | Instance | Distinct states |
|---|---|---|---|
| `world_store` | is a commit atomic, durable, authorised, once per identity? | 2 connections, 6 commands (two share an identity, one is forged, one expects position 1), 8 proposals, 4 positions | 30 thousand |
| `world_runtime` | do several runtimes behave as one ledger and tell the truth; are services told of one position; is every ticket answered? | 2 runtimes, 2 submissions, queue of 2, 3 positions; or 1 runtime with 1 view, 2 rounds, 2 reads | 0.16 million |
| `effect_pump` | do leases protect a job, are follow-ups durable first and live at most once, does every job settle? | 2 jobs, 2 pumps, 4 attempts, 3 faults, lease of 2 ticks | 0.8 million |
| `effect_replay` | does a replay always resolve to `AlreadyCommitted`? | 1 job, 1 pump, 2 follow-ups, 1 fault | violated |
| `services` | is an answer of the router ever stale, does a handle lead astray, does every call end? | 2 components, a Single and a Multiple contract; 1 change of topology, 2 of grants, around 1 caller; or 2 threads whose calls nest | 1.2 million |
| `engine_lifecycle` | does every rollback, stop and quarantine finish the job, in order? | 4 instances: a provider of two components, one loaded through it that provides too, one loaded through both, one independent; 2 targets; 1 contribution | 0.35 million |
| `engine_contributions` | is a contribution owned once? | the same | violated |
| `guest_runtime` | do engine, guests and store agree on who holds what? | a provider and 2 delegates, tasks and sockets, 1 declaration, 2 handles, 5 callbacks | 1.2 million |
| `host_control` | is every request dealt with, whatever callbacks ask for in between? | 2 worlds, queues of 2, tables of 2, signal queues of 1, 8 kinds of request, 4 requests | 0.4 million |
| `host_bootstrap` | are refusals just, rollbacks complete and in order? | every composition of 3 instances with 1 contract and 1 target; 2 worlds, of 2 instances and 1; 4 activations, 1 fault | 2.3 million |
| `host_home` | are approvals grounded and worlds whole, whatever fails? | 1 manager in 2 versions, documents of 2 types, an image, 2 worlds, one of which shares the store of the host's manager; 3 operations, 1 fault | 0.4 million |
| `ui_runtime` | can what is shown be rendered, does an action or a focus request reach what the user saw, or wait in vain? | 1 layer, 2 worlds of which 1 has a surface, 3 nodes, 2 batches per mount, 2 queued actions, 2 starts of each | 1.0 million |

**Bounds and why they are enough.**  `MaxPosition` (for `i64::MAX`): four
positions let a grant be created, used at its last position, expire, and its
entity be deleted and recreated; the guard is the code's overflow check.
`MaxSubmissions` bounds the tickets ever issued: two are what it takes for two
runtimes to race on one identity.  The queue holds two, so that it fills and a
shutdown finds commands in it.  `MaxViews`, `MaxRounds` and `MaxReads`: two rounds
of two reads are the least that a commit can come between.  `MaxAttempt` (for
`u32::MAX`): a late worker, its successor, another, and one in reserve; a job at
the bound is not claimed, as in the code, where the claim is an error.  `MaxAge`
caps the age of a claim where nothing distinguishes older ones.  `MaxFaults`
bounds crashes and failures, which liveness needs (an effect whose handler always
fails is retried for ever, as it should be).  The backoff is scaled to ticks of
the size of the lease (`Lease`, `RetryBase`, `RetryMax`).

In `services` one run holds two systems (`MCSpec` keeps them apart): changes
around one caller, and threads that nest.  Two changes of a grant restore it,
which is the case a check of the grants without a revision would miss; the engine
is new, configured or running at first, so that one change of the topology is of
every kind.  Two executions and two calls are what a circle over two threads
needs.  `EngineLifecycle` needs no bound but its instances, three of which make a
chain and a diamond of providers.

`host_control`: with four requests a world is asked for, deleted, asked for again
and used; a table of two evicts at the third operation.  `host_bootstrap`: three
instances are a provider, its definer and a dependent, for each of which every
role is tried, in the host scope, or one in each of three scopes that share a
target, or two in one world and one in another; a fourth activation is that of a
world which was deactivated while another still held its publisher.
`host_home`: three operations are an import, a selection or grant, and the
exchange that may leave it ungrounded, or the creation of a world and of another
with a fault; `Negotiated` names the one permission that is granted and revoked
one by one, the others being treated alike.  Worlds of a session start with the
permissions their composition grants.  `ui_runtime`: a second start of layer and
target is what a stale action or request would meet; `MaxRevision` of two lets one
batch be applied to what another left, and a patched surface be told from a fresh one.  `guest_runtime`: five callbacks let three
components start, one fail in a poll, and another act after it; two handles are
two effects or an effect and a resource of different owners.

`CHECK_DEADLOCK FALSE` stands where a bound ends the behaviour: callbacks, calls,
sessions, operations or activations used up.

**Fairness.**  `WorldRuntime` and `WorldServices`: weak fairness of each worker's
steps and of the join: threads run, and a call into SQLite, a system or a service
returns.  Nothing is assumed of submissions, shutdowns, views or crashes.
`EffectPump`: weak fairness of each pump and of the clock; the application's loop
calls `poll_runtime` until it ends (`apps/rintawa/src/main.rs`), and
`next_effect_wakeup` bounds its sleep.  `ServiceRouting`: weak fairness of each
thread's routing steps and of the return of callbacks, which end by contract or
because their budget runs out.  The loops of the routing functions end because the
grants change finitely often.  `HostControl`: weak fairness of the loop's steps,
the same loop; that a callback ends is one of them.  `HostBootstrap`: weak
fairness of the steps of an operation under way, that is, calls return.

**The violated properties.**  The documentation of
`effect_completion_command_id` says that a replay after a committed follow-up
idempotently resolves to `AlreadyCommitted`.  That is so only when the handler
builds the same command again.  The trace of `effect_replay`: the pump claims,
the handler answers with one follow-up, it commits, the process dies before
`complete_effect`; after the lease the job is claimed again, the handler answers
with another follow-up under the same identity, and the store answers
`CommandIdConflict`, which the pump turns into another retry.

`RegistrationContext::register` promises an error when another active
registration owns the contribution.  The trace of `engine_contributions`: `tool`
registers `menu` and is stopped, which frees it; `lone` registers `menu`; `tool`,
still stopped, is unregistered, which removes the entry that is now `lone`'s;
`tool` registers `menu` again without an error, and both start.
Only the entry for contributions is shared between instances; every other
registry is keyed by its owner, and `engine_lifecycle` shows those sound.

### What the models show besides

These follow from the modelled code; the properties are stated so as to allow
them, and a reader who changes the code should know them.

* `engine.rs:1540` says that a component callback *failure* is contained by
  quarantine.  An event or a poll that finds the store locked by a worker's
  service is an error of the same kind, so a component none of whose callbacks
  failed is quarantined (`EventWhileBusy`, `PollWhileBusy`).
* `wit/engine.wit:180` says that remaining tasks are revoked on stop.  A stop that
  finds the store locked cleans up nothing in it; the engine counts the component
  as stopped and its tasks go on (`left` in `ResourcesHaveOwners`).
* Execution targets belong to the engine, not to a scope.  A world may publish one
  that a component of another world is loaded through; then its deactivation
  cannot stop the publisher (`ExecutionTargetProviderInUse`), the world counts as
  inactive all the same (`host/src/runtime.rs:2908`), and cannot be activated
  again while the publisher is there.  What the publisher itself requires is stopped
  all the same, and nobody stops the publisher when its last dependent has gone.
  `RollbackIsComplete` says which instances stay; what a failed activation finds
  there it leaves alone.
* A crash in the creation or deletion of a world leaves a directory without a
  database or a catalog; `list_worlds` then fails until somebody removes it by
  hand, which `delete_world` cannot (`Cut` in `WorldsAreWhole`).
* A crash between the two writes of `set_world_default` leaves the recipe's
  activation without the policy of the baseline's, and a retry does not copy it.
* A component whose activation was removed while it runs can write a preference
  for the instance it was; a bounded reply may fail with `MessageTooLarge` after
  the mutation it reports was done; a user resource may be released by any
  component that knows its identity, and stays when its importer goes.
* Two processes on one home lose updates: `HostHome` models one.

## What is proved

TLC checks the instances above; the theorems hold for every value of the
constants that satisfies the named assumptions.  Most of the properties are not
inductive, so each module has an invariant that is, and the argument is in what
it adds.

**`WorldProofs`, the store**, for any set of connections, commands, proposals and schema
batches and any bound on positions, assuming only the named assumptions of
`WorldStore` on the shape of commands and proposals: `ReferencesHold`
(`Referential`: what refers to an entity finds it), `LogIsTheWorld`
(`LogRebuildsWorld`), `AuthorityHolds` (`AuthorizedWhenCommitted`),
`IdentitiesKept` (`IdentitiesFinal`), and, stated for the proofs,
`StoreTypeCorrect` and `PositionsOneToOne` (a command has one position).  Each
mutation keeps the tables *sound* (well shaped and referentially whole) when it
passes its existence checks, one lemma per mutation; deletion needs the cascade in
full.  A COMMIT publishes whatever was checked when the transaction began, so the
inductive invariant `StoreInv` adds `OpenTransaction`: while a transaction is open
its command is still unknown, its events and jobs are still new, and the staged
tables are sound.  It holds because nobody else can write meanwhile.

The log is replayed by a recursive function (`WorldsOf`, over `StatesOf`).
`NumberInduction` derives induction over the numbers from the well-foundedness of
the finite sets, `StatesOfDef` and `WorldsOfDef` use it to show that the recursive
definitions define functions, and `WorldsOfAppend` that a new entry leaves the
earlier worlds as they were.  `HistoryInv` then adds `StagedFromLog`: the staged
tables are the published ones after the mutations applied so far, and the command is
authorised in the published ones, which are those of the position before its own.

**`WorldProofs`, the runtimes**, for any runtimes on one database, any commands, Systems and
proposals, queues of any capacity and any number of tickets, and for the runtimes
alone (`Spec`) as well as with their services (`ServicesSpec`): `TicketsAreHeld`
(`PendingTicketsAreHeld`), `CommittedOnce` (`CommittedIsToldOnce`),
`StoreUnderRuntimes` (what is proved of the store), `RuntimesImplementLedger`
(the refinement `ExecutesOneAtATime`) and `ReadsOfOnePosition`
(`ReadsAreOfOnePosition`).  The invariant `RuntimeInv` follows a command through
its worker: who holds which ticket (`Held`, one lemma for each way a ticket moves);
what a worker evaluates is the world of one position of the log, and what it
proposes is what its System proposed for that world (`Evaluation`); an open
transaction is the one of its owner's worker, its evaluation was at the very
position it commits to, and the mutations staged applied one after the other
(`Transaction`); who was told `Committed` has its identity in the commits, and a
reply on its way is to nobody who was told before (`Claims`).  The last is why a
crash between COMMIT and the answer loses a `Committed`, and never repeats one.  For
the refinement, `ExecutedAppends` shows that a COMMIT adds exactly its command to
the history, and `FinishExecutes` that this is a step of the ledger; every other
step is a stutter.  For the reads, `PastStays` says that no step changes the log up
to a position that was reached, so an answer stays true (`AskedStays`,
`ViewedStays`), and `ProjectionReadsOwn` that filtering each answer is the same as
asking a world that holds nothing but the owner's rows.

**`EffectPumpProofs`**, for any jobs, pumps, follow-up contents, lease, back-off and
bounds on attempts and faults: `LeaseExclusive` (`LeaseIsExclusive`), `SettledForGood`
(`SettledIsFinal`), `LiveOnce` (`LiveAtMostOnce`), `FollowupBeforeCompletion`
(`CompletedAfterCommit`), and `TypeCorrect`, `TokensUnique`, `HolderKeeps`.
`PumpStepsOutbox` shows that every step of a pump is a step of the outbox or leaves
it alone, so the theorems about the outbox hold for its specification and under the
pumps alike.  `LeaseIsExclusive` rests on two facts that the invariant `OutboxInv`
adds: what is left of the lease of the current claim and the age of that claim sum
to the lease at least (`LeaseCoversCurrent`), and a claim younger than its lease is
the job's latest (`YoungIsLatest`).  For the pumps, `PumpInv` follows a follow-up
from the handler to the completion: a pump about to tell subscribers has made the
follow-up of its job durable, nobody was told of it, and no other pump is at this
point with the same job (`Delivering`); one about to complete has no follow-up or the
durable one (`Completing`).  Only the pump that inserts the command gets to
dispatch, a replay goes straight on, and a pump that dies on the way takes the right
to dispatch with it: that is why subscribers may miss an event and never see one
twice.

**`EngineLifecycleProofs`**, for any instances with any number of components, any
targets and any relation of providers: `NothingIsLeft` (`NothingLeftBehind`),
`ProvidersRegistered` (`ProvidersStayRegistered`), `ProvidersLast`
(`ProvidersStopLast`), and `LifecycleTypeCorrect`, `ServesWhileStarted`.  Two
inductive invariants:

* `LifecycleInv`: everybody rests but the instance that is *busy*, that is,
  either runs in full or left nothing behind (`Settled`); the busy one is routed
  to by nobody and runs no component above the one the operation has reached
  (`Underway`); what an instance was loaded through is registered (`Bound`).
  `NothingLeftBehind` speaks of the time between operations only and says
  nothing about what a rollback or a stop starts from.
* `OrderInv`: no set of instances is such that each is the provider of another
  in it (`Acyclic`; registration goes by targets that are published, and an
  absent instance is nobody's provider); a quarantine's stack leads from
  providers to dependents, and whom it visited is on the stack or inactive
  (`Lineage`).  A dependent that is still active when its provider is stopped
  would be on the stack above it and close a circle.

**`GuestRuntimeProofs`**, for any provider and delegates and any bounds on handles
and callbacks: `EffectsAreHeld` (`EffectsHaveHandles`), `DeclarationsAreWhole`
(`DeclarationsComeWhole`), `ResourcesAreOwned` (`ResourcesHaveOwners`),
`ActiveAreHosted` (`ActiveComponentsHaveARuntime`) and `DroppedStayDropped`
(`DroppedTasksNeverRun`).  The properties of a store hold between operations; the
invariant `GuestInv` says what holds in the middle of one: in what state the
component is whose callback runs, and that what it has asked for is its own
(`Calls`); that nothing is stopped in the middle of a poll (`Polling`) and nothing
happens between loading a component and starting it (`Loaded`); that the provider
is stopped last, so that whoever is active and not about to be stopped has a live
store (`Hosted`); that what the engine holds for a component exceeds its guest's
handles only while that component is being stopped (`Effects`); who owns the
store's resources while a start is under way or after a stop that could not reach
the store (`Owners`); that handles are new, so that a resource once dropped is never
held again (`Fresh`); and that what was asked for is declared, but for the
registration under way (`Declared`).

**`HostRuntimeProofs`, the control side**, for any worlds, capacities and numbers of requests:
`WorldsInUseStayWhole` (`WorldsInUseExist`), `SessionRequestsAreAnswered`
(`RequestsAreAnswered`) and `WorkIsTracked` (`DeferredWorkIsTracked`).  A request that
was drained is protected by nothing: the world it is for may be asked for again, or
deleted by a callback of that very activation.  `ControlInv` therefore says of every entry in the pump's hands that it
is the newest request of its world or that a newer one is queued (`Newest`), of a
queued one that its world has files, and of the callbacks of a start that the entry
being worked on asks for a world that does not run (`Starting`).  The drained list
is the sorted domain of a map; `Ranks` and `SortedFacts` prove that sorting by rank
neither drops nor invents a world.  For deferred work `TrackInv` gives every
identity of an operation one place: the queue, the pump's hands, or the list of the
completed (`Tracked`), so what is evicted to make room is never pending and there is
always something to evict unless everything is; one lemma for each way an entry
moves.  Commands in hand are older than the queued ones and younger than those
handled (`InOrder`), also when a command's events queue more.

**`HostRuntimeProofs`, activations**, for any instances, targets, contracts and worlds and
any number of activations and faults: `RollbackCompletes` (`RollbackIsComplete`),
`RefusalsJust` (`RefusalsAreJust`) and `RequirementsOutlive`
(`RequirementsOutliveTheirUsers`).  `BootSpec` starts from any composition that is
`WellFormed`: a profile is a sequence of instances, and no instance is in two scopes
(the identity of an activation is the extension's subject in the baseline and a fresh
UUID in a world, `host/src/lib.rs:1182`).  `BootInv` has four parts.  `EngineInv` says
that a published target has an active publisher.  `UpInv` says of every scope that is
up that its record of starts is an order in which everybody comes after whom it was
loaded through and after who supplies its contracts (`InStartOrder`).  `WorkInv` says
of an activation what its rounds have established: who is registered, and that what
was there before is closed (`Lists`); that a round without progress has seen everybody
who still waits wait for a target (`Rounds`); that a pass without a start has seen
nobody in the bootstrap that may start (`Passes`); and that the plan's batch has no
circle (`Planned`).  `UndoInv` says that what is left to clean up is in an order in
which every instance goes before what it needs (`Ordered`): `CleanupFacts` and
`CleanupOrdered` derive it from the reversed record, and `RemoveNext` and `PassOver`
keep it when an instance is removed or, in use by another scope, passed over.

That refusals are just is the argument about the rounds.  When a bootstrap stalls,
everybody who is not loaded yet waits for a target of somebody else who waits, and
everybody who is in the bootstrap and not started for a supplier of a contract who
waits as well (`WaitsForSomebody`).  If the composition were `Possible`, all would
be waiting in a set without a first (`StalledIsImpossible`), which is what `Cyclic`
means; `RefusedPlanIsImpossible` says the same of the plan, after `AllLoaded`.  That
filtering and reversing sequences keeps their order is proved by induction over
numbers, from the well-foundedness of finite sets (`NumberInduction`).

Two things the properties must allow, and a composition with a fourth activation
shows: a stuck publisher may itself lose what it requires, and it stays when its last
dependent is gone.

**`UiRuntimeProofs`**, for any layers, worlds, surfaces and patches:
`ShownAreSupported` (`ShownSurfacesAreSupported`).  Attaching a layer looks only at
surfaces of active instances, and an instance mounts its surface before it is
active; that this leaves no gap is `UiInv`: a start is a callback, no layer is
attached and no world focused in the middle of one (`Callbacks`), a surface goes
when its instance is unregistered (`Owned`), so that what will be shown once the
start under way succeeds is supported already (`Supported`).
`QueuedWorkKeepsSessions` (`QueuedWorkStaysInItsSessions`) says that of restarts:
`QueuedInv` keeps, of every action in the queue or in what the host drained from it,
that its layer and its target are registered in the sessions the user saw.  A start
and an unregistration find nothing drained, and the latter takes along the actions
that name the instance; a quarantine keeps its session.  What `retain` leaves of a
queue is a recursive function of its length, so that it holds only what was to be
kept is proved by induction over numbers (`RetainFacts`).  Of focus requests
`AskedInv` keeps that there is at most one, queued or drained: that of the attached
layer, in its present session (`Ask`), and what a layer waits for is what it asks.
Whatever takes the layer away takes its request (`WithoutFacts`), and no callback runs
between the draining of requests and their answers.
`SurfacesAreTrees` (`MountedSurfacesAreTrees`) takes of snapshots and patches only what
their types say (`UiAssumption`: children may be any nodes, also such as the table lacks).
`PatchedTable` follows a batch patch by patch; what `validate_snapshot` then accepts is
a tree by a count: sending each place at which a child stands to that child is
one-to-one, since no node has two parents, and onto every node but the root, since
what the walk reaches is the root or a child (`ReachedFacts`, by induction over its
rounds), so there are as many places as other nodes (`PlacesAreNodes`).  Both counts
are sums over a fold, which `SumCountsPairs` turns into the size of a set of pairs.

**`ServiceRoutingProofs`**, for any threads, components, contracts and bounds (the
components are finitely many): `RoutesFresh` (`RoutesAreFresh`) and `HandlesFresh`
(`HandlesAreFresh`).  The run lets one thread call while the topology and the grants
change, or two threads while they stay; the theorems have any number of both.  What a
resolution reads of the grants, one component after the other, is what they are as
long as the revision it started from is the present one (`Reads`), because every change
moves the revision; the topology cannot change under the lock it holds (`Locks`).  An
answer depends only on what the caller and the candidates meet (`AnswerSame`), so a
resolution whose revision held answers what `Fresh` does.  A cached route may be hit
under a revision that is no longer the present one: it was right at some instant since
the request read that revision (`Cached`, in the two cases that the entry is older or
younger than the request), and the same is said of handles (`Handled`), whose table is
emptied whenever it is brought to another revision.  New handles get numbers by the
rank of their providers, which are different by a count of finite sets (`Numbers`).

**`HostHomeProofs`**, for any artifacts, permissions, worlds and limits, and from an
empty home or any home of an older release (`HomeSpec`; the run starts from three
homes): `PolicyStaysGrounded` (`PolicyIsGrounded`), `MarksSurvive`
(`MarksOutliveMigration`), `WorldsStayWhole` (`WorldsAreWhole`) and
`HeldBytesStayBounded` (`HeldBytesAreBounded`).  That a grant names an instance which
asks for it is not inductive: an artifact is replaced by the subject it stands for,
and a new activation gets a new identity.  So `HomeInv` says of every composition
that its activations are kept under the subject of their artifact, that identities
tell them apart and were given out already (`Named`); each way a composition is made
from another (`Selected`, `Materialized`, `WithPolicyOf`) has its lemma.  `JobInv` is
what lets the second write of an operation be made after anything else happened to the
home: nothing else can, but the process may die, and the next one starts without the
job.  `MarksInv` adds that nothing but the migration runs before the recipe exists.
For uploads and the pool, the sums are a fold over a finite set; `SumStep` says what
one more or one less contributes, by induction over the size of the set, and
`HeldInv` that a finished upload leaves its reservation and enters the pool at once,
for any assignment of components to stores.

**Only model-checked:** the liveness properties (`EveryTicketResolves`, `EveryJobSettles`,
`EveryCallEnds`, `EveryRequestEnds`, `EveryOperationEnds`), which need `ENABLED` and are
beyond the prover.  Every other property of a passing run is the property of a theorem.

## Not modelled

* **Contents**: JSON payloads against their schemas, the values in a projection's
  fields, text and style of UI nodes, command line and terminal.  A payload is a
  model value; validation that only looks at one value has no state.
* **Wire formats**: WIT bindings, canonical encodings, SHA-256, the packing of
  artifacts, SQL text.  An artifact is known by its digest.
* **Limits on single values**: fuel and time of a callback (it may fail at any
  point), bytes of memory, lengths of names.  Limits on how many are kept are
  modelled.
* **Secrets**: grants to read secrets take part in routing (`ServiceRouting`); where
  the values are kept and what a reader does with them are left out.  Optional
  consumers and requirements to read a secret are left out of `HostBootstrap`.
* **Attempts at `u32::MAX`**: `claim_next` fails on the oldest due job and with it
  on every job behind (`outbox.rs:64`).  It takes four thousand million claims of
  one job; the bound stands in `Claim`, and the error is left out.
* **The batch limit and the wake-up timer of the pump**: they bound how much of what
  is due one poll does; `EffectPump` takes one job at a time in every interleaving.
* **Old databases**: migrations of older schema versions with content.  Creation in
  steps, with crashes, is in `HostHome`.
* **The SDK**: types and macros of extension authors; it runs inside the guests.
* **UI layers of worlds, two processes on one home**: a scope has one layer, and
  `UiRuntime` models that of the host scope; nothing in
  the code keeps a second process from a home.  A second process on a database is in
  `WorldRuntime`.
