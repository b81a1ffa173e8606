---------------------------- MODULE EffectOutbox ----------------------------
(***************************************************************************)
(* The durable effect outbox of one world: the effect_jobs table and its   *)
(* state transitions (crates/storage/src/sqlite/outbox.rs).                *)
(*                                                                         *)
(* A job is pending, running under a lease, completed or cancelled.  Each  *)
(* claim raises the job's attempt number; the number is the fencing token  *)
(* every later transition of that claim must show.  Time is kept as what   *)
(* is left of it: a timestamp column is the number of ticks until the      *)
(* clock reaches it.                                                       *)
(***************************************************************************)
EXTENDS Integers, Sequences, FiniteSets

CONSTANTS
    Jobs,         \* effect job identities
    Workers,      \* the processes that pump the outbox
    MaxAttempt,   \* bound on attempt_count (u32::MAX in the code)
    Lease,        \* how long a claim lasts
    MaxAge,       \* the age of a claim is counted up to here
    Waits         \* what a retry may leave until the job is due again

ASSUME AttemptAssumption == MaxAttempt \in Nat \ {0}
ASSUME LeaseAssumption == Lease \in Nat \ {0} /\ MaxAge \in Nat /\ Lease <= MaxAge
ASSUME WaitAssumption == Waits \subseteq Nat

VARIABLES
    order,   \* the jobs in the order of their commit position and index
    job,     \* the row of each job
    claim    \* the claim each worker holds in memory, current or not

outboxVars == <<order, job, claim>>

Statuses == {"absent", "pending", "running", "completed", "cancelled"}
Settled == {"completed", "cancelled"}
NoClaim == [held |-> FALSE]

OutboxInit ==
    /\ order = <<>>
    /\ job = [j \in Jobs |-> [status |-> "absent", attempt |-> 0, wait |-> 0]]
    /\ claim = [w \in Workers |-> NoClaim]

\* A commit inserts the job; it is due at once.
Enqueue(j) ==
    /\ job[j].status = "absent"
    /\ order' = Append(order, j)
    /\ job' = [job EXCEPT ![j].status = "pending"]
    /\ UNCHANGED claim

\* Faulty: a running job is up for grabs whatever is left of its lease.
Due_IgnoresLease(j) == job[j].status = "running" \/ (job[j].status = "pending" /\ job[j].wait = 0)

\* Faulty: nobody looks after the running jobs of a dead worker.
Due_PendingOnly(j) == job[j].status = "pending" /\ job[j].wait = 0

\* available_at, or the lease, has been reached.
Due(j) == job[j].status \in {"pending", "running"} /\ job[j].wait = 0

\* attempt_count.checked_add(1), also for a job whose lease ran out.
NextAttempt(j) == job[j].attempt + 1

\* claim_next: the oldest due job, under a new attempt number.  A job whose
\* number cannot grow is an error for the caller, and stays the oldest.
ClaimNext(w) ==
    /\ ~claim[w].held
    /\ \E i \in DOMAIN order :
          /\ Due(order[i])
          /\ \A older \in 1 .. i - 1 : ~Due(order[older])
          /\ job[order[i]].attempt < MaxAttempt
          /\ job' = [job EXCEPT ![order[i]] =
                        [status |-> "running", attempt |-> NextAttempt(order[i]), wait |-> Lease]]
          /\ claim' = [claim EXCEPT ![w] =
                        [held |-> TRUE, job |-> order[i],
                         attempt |-> NextAttempt(order[i]), age |-> 0]]
    /\ UNCHANGED order

\* Faulty: forgets that the job may have been settled meanwhile.
Current_AnyStatus(c) == job[c.job].attempt = c.attempt

\* transition_claim's WHERE: the job still runs under this very attempt.
Current(c) == job[c.job].status = "running" /\ job[c.job].attempt = c.attempt

\* The worker is done with its claim.  A claim that was lost (EffectJobClaimLost)
\* changes no row.
Settle(w, status, wait) ==
    /\ claim[w].held
    /\ LET j == claim[w].job IN
       job' = IF Current(claim[w])
              THEN [job EXCEPT ![j].status = status, ![j].wait = wait]
              ELSE job
    /\ claim' = [claim EXCEPT ![w] = NoClaim]
    /\ UNCHANGED order

Complete(w) == Settle(w, "completed", 0)
Retry(w, wait) == Settle(w, "pending", wait)
CancelClaimed(w) == Settle(w, "cancelled", 0)

\* cancel_effect, by an administrator: idempotent, refused once completed.
Cancel(j) ==
    /\ job[j].status \in {"pending", "running"}
    /\ job' = [job EXCEPT ![j].status = "cancelled", ![j].wait = 0]
    /\ UNCHANGED <<order, claim>>

\* The worker dies, or drops its claim on an error.
Forget(w) ==
    /\ claim[w].held
    /\ claim' = [claim EXCEPT ![w] = NoClaim]
    /\ UNCHANGED <<order, job>>

Less(n) == IF n = 0 THEN 0 ELSE n - 1
Older(c) == IF c.held /\ c.age < MaxAge THEN [c EXCEPT !.age = @ + 1] ELSE c

\* Time passes for the rows and for the workers alike.
Tick ==
    /\ job' = [j \in Jobs |-> [job[j] EXCEPT !.wait = Less(@)]]
    /\ claim' = [w \in Workers |-> Older(claim[w])]
    /\ UNCHANGED order

OutboxNext ==
    \/ \E j \in Jobs : Enqueue(j) \/ Cancel(j)
    \/ \E w \in Workers :
          \/ ClaimNext(w)
          \/ Complete(w)
          \/ \E wait \in Waits : Retry(w, wait)
          \/ CancelClaimed(w)
          \/ Forget(w)
    \/ Tick

OutboxSpec == OutboxInit /\ [][OutboxNext]_outboxVars
-----------------------------------------------------------------------------
(* Properties.                                                             *)

Row == [status : Statuses, attempt : 0 .. MaxAttempt, wait : Nat]
Claim == [held : {TRUE}, job : Jobs, attempt : 1 .. MaxAttempt, age : 0 .. MaxAge]

\* The shape of the rows and claims; every job that was enqueued is in the
\* order once, and only a job under lease or in backoff has anything to wait for.
OutboxTypeOK ==
    /\ order \in Seq(Jobs)
    /\ job \in [Jobs -> Row]
    /\ claim \in [Workers -> Claim \cup {NoClaim}]
    /\ \A j \in Jobs : job[j].status \notin {"pending", "running"} => job[j].wait = 0

\* A fencing token is never handed out twice: two workers that hold the same
\* job hold different attempts, and none is ahead of the row.
TokensAreUnique ==
    \A w \in Workers : claim[w].held =>
        /\ claim[w].attempt <= job[claim[w].job].attempt
        /\ \A v \in Workers \ {w} :
              claim[v].held /\ claim[v].job = claim[w].job => claim[v].attempt # claim[w].attempt

\* While a worker is inside its lease it is alone: another worker that holds
\* the same job has overrun its own lease, so two executions of one effect
\* overlap only when one of them took longer than the lease.
LeaseIsExclusive ==
    \A v, w \in Workers :
        v # w /\ claim[v].held /\ claim[w].held /\ claim[v].job = claim[w].job
        => claim[v].age >= Lease \/ claim[w].age >= Lease

\* A job that was completed or cancelled stays so, whatever a late worker, an
\* administrator or the clock does: a late completion cannot resurrect a
\* cancelled job, nor a late retry a completed one (cancel_effect, complete_effect).
SettledIsFinal ==
    [][\A j \in Jobs : job[j].status \in Settled => job'[j] = job[j]]_outboxVars

\* A job under an unexpired lease is taken from its holder by nobody but an
\* administrator or the holder itself: unless it is cancelled, its row changes
\* its status or attempt only in a step of the worker with the current token.
HolderKeepsJob ==
    [][\A j \in Jobs :
         job[j].status = "running" /\ job[j].wait > 0 =>
            \/ job'[j].status \in {"running", "cancelled"} /\ job'[j].attempt = job[j].attempt
            \/ \E w \in Workers : /\ claim[w].held /\ ~claim'[w].held
                                  /\ claim[w].job = j
                                  /\ claim[w].attempt = job[j].attempt]_outboxVars
=============================================================================
