---------------------------- MODULE WorldRuntime ----------------------------
(***************************************************************************)
(* World runtimes: crates/world-runtime/src/runtime.rs over WorldStore.    *)
(*                                                                         *)
(* A runtime owns a bounded queue and one worker thread that takes its     *)
(* commands in order: look the identity up, snapshot, let the System       *)
(* evaluate, commit, answer the ticket.  Every step reads or writes the    *)
(* database on its own, and another runtime (another process with the same *)
(* database open) may commit between any two of them.                      *)
(***************************************************************************)
EXTENDS WorldStore

CONSTANTS
    Evaluate(_, _),   \* what the System of a command may propose in a state
    Systems,          \* command schemas that have a System
    Privileged,       \* those whose System may change authority
    QueueCapacity,    \* WorldRuntimePolicy.command_queue_capacity
    MaxSubmissions    \* bound on the tickets ever issued

ASSUME SystemsAssumption == Privileged \subseteq Systems
ASSUME CapacityAssumption == QueueCapacity \in Nat \ {0} /\ MaxSubmissions \in Nat

Runtimes == Writers

VARIABLES
    phase,     \* of each runtime: "down", "running", "draining" (sender dropped)
    queue,     \* of each runtime: the tickets waiting in the channel
    worker,    \* of each runtime: what its worker thread is doing
    tickets    \* every ticket issued: its runtime, its command and its result

runtimeVars == <<phase, queue, worker, tickets>>
vars == <<storeVars, runtimeVars>>

Idle == [pc |-> "idle"]
Pending == [kind |-> "pending"]
Lost == [kind |-> "lost"]
Failed == Failure("Rejected")    \* every error but CommandIdConflict

Init ==
    /\ StoreInit
    /\ phase = [r \in Runtimes |-> "down"]
    /\ queue = [r \in Runtimes |-> <<>>]
    /\ worker = [r \in Runtimes |-> Idle]
    /\ tickets = <<>>

-----------------------------------------------------------------------------
(* Lifecycle.                                                              *)

\* Every System's schema must be a registered command schema.
Start(r) ==
    /\ phase[r] = "down"
    /\ \A s \in Systems : HasKind(s, "Command")
    /\ phase' = [phase EXCEPT ![r] = "running"]
    /\ UNCHANGED <<storeVars, queue, worker, tickets>>

\* shutdown() drops the sender; the worker goes on until the channel is empty.
Shutdown(r) ==
    /\ phase[r] = "running"
    /\ phase' = [phase EXCEPT ![r] = "draining"]
    /\ UNCHANGED <<storeVars, queue, worker, tickets>>

\* Faulty: the worker ends with commands still in its channel.
Joined_WithoutDraining(r) ==
    /\ phase[r] = "draining"
    /\ worker[r] = Idle
    /\ phase' = [phase EXCEPT ![r] = "down"]
    /\ UNCHANGED <<storeVars, queue, worker, tickets>>

\* stop_worker: recv fails once the channel is empty, and the join returns.
Joined(r) ==
    /\ phase[r] = "draining"
    /\ worker[r] = Idle
    /\ queue[r] = <<>>
    /\ phase' = [phase EXCEPT ![r] = "down"]
    /\ UNCHANGED <<storeVars, queue, worker, tickets>>

\* The process dies: queue, worker and callers are gone, and SQLite drops the
\* open transaction.
Crash(r) ==
    /\ phase[r] # "down"
    /\ CloseConnection(r)
    /\ phase' = [phase EXCEPT ![r] = "down"]
    /\ queue' = [queue EXCEPT ![r] = <<>>]
    /\ worker' = [worker EXCEPT ![r] = Idle]
    /\ tickets' = [n \in DOMAIN tickets |->
                     IF tickets[n].runtime = r /\ tickets[n].result = Pending
                     THEN [tickets[n] EXCEPT !.result = Lost]
                     ELSE tickets[n]]

\* The channel holds as many commands as the policy allows.
QueueFull(r) == Len(queue[r]) >= QueueCapacity

\* submit(): try_send into the bounded channel.  QueueFull and RuntimeStopped
\* are errors that change nothing.
Submit(r, c) ==
    /\ phase[r] = "running"
    /\ ~QueueFull(r)
    /\ Len(tickets) < MaxSubmissions
    /\ tickets' = Append(tickets, [runtime |-> r, command |-> c, result |-> Pending])
    /\ queue' = [queue EXCEPT ![r] = Append(@, Len(tickets) + 1)]
    /\ UNCHANGED <<storeVars, phase, worker>>

-----------------------------------------------------------------------------
(* The worker: worker_loop and process_command.                            *)

At(r, pc) == worker[r].pc = pc
CommandOf(r) == tickets[worker[r].ticket].command
Goto(r, w) == worker' = [worker EXCEPT ![r] = w]

IsReceipt(result) == result.kind \in {"Committed", "AlreadyCommitted"}

\* A receipt is answered with the events of its position.  Reading them may
\* fail: the caller then sees an error for a command that is committed.
Outcomes(result) ==
    {result} \cup (IF IsReceipt(result) THEN {Failed} ELSE {})

\* The worker tells its ticket the result and is free again.  (The events of a
\* position never change, so reading them is no step of its own.)
Tell(r, result) ==
    /\ \E outcome \in Outcomes(result) :
          tickets' = [tickets EXCEPT ![worker[r].ticket].result = outcome]
    /\ Goto(r, Idle)

Continue(r, w) == Goto(r, w) /\ UNCHANGED tickets

\* Faulty: the worker stops taking commands once the sender is dropped.
Take_WhileRunning(r) ==
    /\ At(r, "idle")
    /\ phase[r] = "running"
    /\ queue[r] # <<>>
    /\ Goto(r, [pc |-> "lookup", ticket |-> Head(queue[r])])
    /\ queue' = [queue EXCEPT ![r] = Tail(@)]
    /\ UNCHANGED <<storeVars, phase, tickets>>

\* receiver.recv(): the oldest command, also after the sender is gone.
Take(r) ==
    /\ At(r, "idle")
    /\ queue[r] # <<>>
    /\ Goto(r, [pc |-> "lookup", ticket |-> Head(queue[r])])
    /\ queue' = [queue EXCEPT ![r] = Tail(@)]
    /\ UNCHANGED <<storeVars, phase, tickets>>

\* committed_receipt, before anything is evaluated; like any read of the database
\* it may fail.
Lookup(r) ==
    /\ At(r, "lookup")
    /\ LET c == CommandOf(r) IN
       \/ Known(c) /\ Tell(r, ExistingReceipt(c))
       \/ ~Known(c) /\ c.schema \in Systems /\ Continue(r, [worker[r] EXCEPT !.pc = "snapshot"])
       \/ Tell(r, Failed)    \* no System for the schema, or the read failed
    /\ UNCHANGED <<storeVars, phase, queue>>

\* snapshot_for_command validates the command in the read transaction that the
\* snapshot keeps open.
TakeSnapshot(r) ==
    /\ At(r, "snapshot")
    /\ \/ /\ CommandValid(CommandOf(r))
          /\ Continue(r, [pc |-> "evaluate", ticket |-> worker[r].ticket,
                          view |-> world, evaluated |-> position])
       \/ Tell(r, Failed)    \* not valid, or the read failed
    /\ UNCHANGED <<storeVars, phase, queue>>

\* reject_privileged_authority_output.
OutputAllowed(c, tx) ==
    c.schema \in Privileged
    \/ \A i \in DOMAIN tx.mutations : ~IsAuthorityMutation(tx.mutations[i])

\* system.evaluate on the snapshot, and the check of what it proposes.
EvaluateSystem(r) ==
    /\ At(r, "evaluate")
    /\ LET c == CommandOf(r) IN
       \/ Tell(r, Failed)      \* an error or a caught panic
       \/ \E tx \in Transactions \cap Evaluate(c, worker[r].view) :
             IF OutputAllowed(c, tx)
             THEN Continue(r, [pc |-> "commit", ticket |-> worker[r].ticket,
                               tx |-> tx, evaluated |-> worker[r].evaluated])
             ELSE Tell(r, Failed)               \* AuthorityMutationDenied
    /\ UNCHANGED <<storeVars, phase, queue>>

\* storage.commit: its answer is in reply[r] once no transaction is open.
CommitCall(r) ==
    /\ At(r, "commit")
    /\ Commit(r, CommandOf(r), worker[r].tx, worker[r].evaluated)
    /\ Goto(r, [pc |-> "committing", ticket |-> worker[r].ticket])
    /\ UNCHANGED <<phase, queue, tickets>>

\* The statements inside storage.commit.
CommitStep(r) ==
    /\ CommitMutation(r) \/ CommitRollback(r) \/ CommitFinish(r)
    /\ UNCHANGED runtimeVars

\* storage.commit returns to process_command.
CommitReturns(r) ==
    /\ At(r, "committing")
    /\ reply[r] # NoReply
    /\ Tell(r, reply[r])
    /\ Answer(r, NoReply)
    /\ UNCHANGED <<durable, sql, phase, queue>>

WorkerStep(r) ==
    \/ Take(r)
    \/ Lookup(r)
    \/ TakeSnapshot(r)
    \/ EvaluateSystem(r)
    \/ CommitCall(r)
    \/ CommitStep(r)
    \/ CommitReturns(r)

Next ==
    \/ \E batch \in SchemaBatches : RegisterSchemas(batch) /\ UNCHANGED runtimeVars
    \/ \E r \in Runtimes :
          \/ Start(r)
          \/ Shutdown(r)
          \/ Joined(r)
          \/ Crash(r)
          \/ \E c \in Commands : Submit(r, c)
          \/ WorkerStep(r)

\* A worker thread that can run does run, and a join returns.
Fairness == \A r \in Runtimes : WF_vars(WorkerStep(r)) /\ WF_vars(Joined(r))

Spec == Init /\ [][Next]_vars /\ Fairness
-----------------------------------------------------------------------------
(* Properties.                                                             *)

TicketNumbers == DOMAIN tickets
HeldBy(r) == ToSet(queue[r]) \cup (IF worker[r] = Idle THEN {} ELSE {worker[r].ticket})

\* Nobody waits for a ticket that no worker will answer: the pending tickets of
\* a runtime are those in its channel or in its worker's hands, each once, so a
\* runtime that is down after a shutdown or a crash has none.
PendingTicketsAreHeld ==
    \A r \in Runtimes :
        /\ HeldBy(r) = {n \in TicketNumbers : tickets[n].runtime = r /\ tickets[n].result = Pending}
        /\ IsInjective(queue[r])
        /\ worker[r] # Idle => worker[r].ticket \notin ToSet(queue[r])
        /\ phase[r] = "down" => HeldBy(r) = {}

\* Of all the tickets that ever carried a command, through any runtime, at most
\* one is told "Committed": a caller that delivers events on "Committed" delivers
\* them at most once (wait_outcome's advice to bridges).
CommittedIsToldOnce ==
    \A n, m \in TicketNumbers :
        /\ tickets[n].result.kind = "Committed"
        /\ tickets[m].result.kind = "Committed"
        /\ tickets[n].command.id = tickets[m].command.id
        => n = m

\* The commit of a position, and the commands committed so far, in order.
CommitAt(pos) ==
    CHOOSE entry \in {commits[id] : id \in DOMAIN commits} : entry.position = pos
Executed == [pos \in 1 .. position |-> CommitAt(pos).command]

\* Seen through their commits, the runtimes execute one command at a time, each
\* evaluated in the state it is applied to, each at most once.
Ledger == INSTANCE CommandLedger WITH state <- world, ledger <- Executed
ExecutesOneAtATime == Ledger!Spec

\* Every ticket is answered, or its process died.
EveryTicketResolves ==
    \A n \in 1 .. MaxSubmissions :
        (n \in TicketNumbers) ~> (n \in TicketNumbers /\ tickets[n].result # Pending)
=============================================================================
