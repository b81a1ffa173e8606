----------------------------- MODULE EffectPump -----------------------------
(***************************************************************************)
(* The effect pump of the host: pump_effect_outbox in                      *)
(* crates/host/src/runtime.rs, over the outbox and the world runtime.      *)
(*                                                                         *)
(* A pump claims a due job, lets the handler execute it, commits the       *)
(* handler's follow-up command, delivers the events of a new commit to the *)
(* live subscribers, and settles the claim.  The follow-up always has the  *)
(* identity of its job (effect_completion_command_id), so what the world   *)
(* store knows of it is one entry per job.  The process may die between    *)
(* any two steps; a handler may outlive its lease, and another process     *)
(* with the same database open then runs the job as well.                  *)
(***************************************************************************)
EXTENDS EffectOutbox

CONSTANTS
    Contents,     \* the follow-up commands a handler may come up with
    RetryBase,    \* EFFECT_RETRY_BASE_MILLIS, in ticks
    RetryMax,     \* EFFECT_RETRY_MAX_MILLIS, in ticks
    MaxFaults     \* bound on crashes, overrun leases, and failures of handlers and commands

ASSUME BackoffAssumption ==
    /\ RetryBase \in Nat \ {0} /\ RetryMax \in Nat /\ RetryMax <= MaxAge
    /\ 0 .. RetryMax \subseteq Waits
ASSUME FaultAssumption == MaxFaults \in Nat

NoCommand == "no command"
ASSUME ContentsAssumption == NoCommand \notin Contents

VARIABLES
    pump,       \* where each pump is with the job it claimed
    followup,   \* world_commits: the follow-up committed for each job, if any
    live,       \* how often the events of that commit were delivered
    faults      \* the faults so far

pumpVars == <<pump, followup, live, faults>>
vars == <<outboxVars, pumpVars>>

Idle == [pc |-> "idle"]

Init ==
    /\ OutboxInit
    /\ pump = [w \in Workers |-> Idle]
    /\ followup = [j \in Jobs |-> NoCommand]
    /\ live = [j \in Jobs |-> 0]
    /\ faults = 0

-----------------------------------------------------------------------------
At(w, pc) == pump[w].pc = pc
Goto(w, p) == pump' = [pump EXCEPT ![w] = p]
Fault == faults < MaxFaults /\ faults' = faults + 1

\* The next turn of the pump's loop: claim_next_effect.
PumpClaim(w) ==
    /\ At(w, "idle")
    /\ ClaimNext(w)
    /\ Goto(w, [pc |-> "execute"])
    /\ UNCHANGED <<followup, live, faults>>

\* WorldEffectServiceResponse.  What ties a follow-up command to a job, its
\* identity, principal, causation and correlation, is one value.
Responses ==
    [kind : {"Complete"}, content : Contents, tie : Jobs] \cup [kind : {"Complete", "Cancel"}]

\* validate_response: a follow-up belongs to the job that was claimed.
Valid(j, response) == "tie" \in DOMAIN response => response.tie = j

\* ServiceWorldEffectHandler::execute.
Answers(j) == {response \in Responses : Valid(j, response)}

\* A job without a handler, a failed call and an invalid response are all retried,
\* like an explicit Retry.
Execute(w) ==
    /\ At(w, "execute")
    /\ \/ /\ \E response \in Answers(claim[w].job) :
                Goto(w, IF response.kind = "Cancel" THEN [pc |-> "cancel"]
                        ELSE IF "content" \in DOMAIN response
                        THEN [pc |-> "submit", command |-> response.content]
                        ELSE [pc |-> "complete", command |-> NoCommand])
          /\ UNCHANGED faults
       \/ Goto(w, [pc |-> "retry"]) /\ Fault
    /\ UNCHANGED <<outboxVars, followup, live>>

\* Faulty: goes on to complete the job although its command failed.
AfterFailure_Ignored(w) == [pump[w] EXCEPT !.pc = "complete"]

\* The claim of a failed follow-up is retried.
AfterFailure(w) == [pc |-> "retry"]

\* Faulty: delivers the events of a replay as well.
AfterReplay_Delivers(w) == [pump[w] EXCEPT !.pc = "dispatch"]

\* A replay skips the delivery.
AfterReplay(w) == [pump[w] EXCEPT !.pc = "complete"]

\* submit_world_command: the world runtime answers from the committed command
\* of this identity, or evaluates and commits; it may fail before the commit,
\* and after it (the read of the committed events).
Submit(w) ==
    LET j == claim[w].job
        c == pump[w].command
    IN
    /\ At(w, "submit")
    /\ \/ /\ followup[j] = NoCommand                              \* Committed
          /\ followup' = [followup EXCEPT ![j] = c]
          /\ Goto(w, [pump[w] EXCEPT !.pc = "dispatch"])
          /\ UNCHANGED faults
       \/ /\ followup[j] = c                                      \* AlreadyCommitted
          /\ Goto(w, AfterReplay(w))
          /\ UNCHANGED <<followup, faults>>
       \/ /\ followup[j] \notin {NoCommand, c}                    \* CommandIdConflict
          /\ Goto(w, [pc |-> "retry", conflict |-> TRUE])
          /\ UNCHANGED <<followup, faults>>
       \/ /\ followup' \in {followup} \cup
                 (IF followup[j] = NoCommand THEN {[followup EXCEPT ![j] = c]} ELSE {})
          /\ Goto(w, AfterFailure(w))                            \* any other error
          /\ Fault
    /\ UNCHANGED <<outboxVars, live>>

\* dispatch_world_events, after a new commit only.  A failed delivery is
\* reported inside the outcome and changes nothing.
Dispatch(w) ==
    /\ At(w, "dispatch")
    /\ \E delivered \in {0, 1} : live' = [live EXCEPT ![claim[w].job] = @ + delivered]
    /\ Goto(w, [pump[w] EXCEPT !.pc = "complete"])
    /\ UNCHANGED <<outboxVars, followup, faults>>

\* A lost claim makes the pump call fail; that ends this pump's round too.
PumpComplete(w) ==
    /\ At(w, "complete")
    /\ Complete(w)
    /\ Goto(w, Idle)
    /\ UNCHANGED <<followup, live, faults>>

\* The handler abandons the job: cancel_claimed_effect.
PumpCancel(w) ==
    /\ At(w, "cancel")
    /\ CancelClaimed(w)
    /\ Goto(w, Idle)
    /\ UNCHANGED <<followup, live, faults>>

\* effect_retry_at: exponential backoff from the time of the claim, by a multiplier
\* of 1 << min(attempt - 1, 16).
Lesser(a, b) == IF a < b THEN a ELSE b
PowersOfTwo ==
    <<1, 2, 4, 8, 16, 32, 64, 128, 256, 512, 1024, 2048, 4096, 8192, 16384, 32768, 65536>>
RetryDelay(attempt) == Lesser(RetryBase * PowersOfTwo[Lesser(attempt, 17)], RetryMax)
WaitLeft(delay, age) == IF delay < age THEN 0 ELSE delay - age

\* retry_effect_claim.
PumpRetry(w) ==
    /\ At(w, "retry")
    /\ Retry(w, WaitLeft(RetryDelay(claim[w].attempt), claim[w].age))
    /\ Goto(w, Idle)
    /\ UNCHANGED <<followup, live, faults>>

\* The process dies; its claim is known to nobody until the lease runs out.
Crash(w) ==
    /\ Fault
    /\ Forget(w)
    /\ Goto(w, Idle)
    /\ UNCHANGED <<followup, live>>

\* Time passes.  A handler that outlives its lease is a fault.
Overruns == \E w \in Workers : claim[w].held /\ claim[w].age < Lease /\ claim'[w].age >= Lease
PumpTick ==
    /\ Tick
    /\ IF Overruns THEN Fault ELSE UNCHANGED faults
    /\ UNCHANGED <<pump, followup, live>>

PumpStep(w) ==
    \/ PumpClaim(w)
    \/ Execute(w)
    \/ Submit(w)
    \/ Dispatch(w)
    \/ PumpComplete(w)
    \/ PumpCancel(w)
    \/ PumpRetry(w)

Next ==
    \/ \E j \in Jobs : (Enqueue(j) \/ Cancel(j)) /\ UNCHANGED pumpVars
    \/ \E w \in Workers : PumpStep(w) \/ Crash(w)
    \/ PumpTick

\* The run loop keeps pumping, and the clock keeps ticking.
Fairness == (\A w \in Workers : WF_vars(PumpStep(w))) /\ WF_vars(PumpTick)

Spec == Init /\ [][Next]_vars /\ Fairness
-----------------------------------------------------------------------------
(* Properties.                                                             *)

\* The follow-up is durable before its job is completed: no crash between the
\* two can lose it (complete_effect comes after submit_world_command).
CompletedAfterCommit ==
    [][\A w \in Workers :
         /\ claim[w].held
         /\ job[claim[w].job].status = "running"
         /\ job'[claim[w].job].status = "completed"
         /\ claim[w].attempt = job[claim[w].job].attempt
         => pump[w].command \in {NoCommand, followup[claim[w].job]}]_vars

\* The events of a follow-up reach the live subscribers at most once, and only
\* after it is durable, however often the job is executed, by however many
\* pumps ("Idempotent replay is never redelivered").
LiveAtMostOnce == \A j \in Jobs : live[j] <= (IF followup[j] = NoCommand THEN 0 ELSE 1)

\* A due job is settled in the end, by its pump or by an administrator, when
\* faults end: retries wait for their backoff, never for ever.
EveryJobSettles ==
    \A j \in Jobs : (job[j].status = "pending") ~> (job[j].status \in Settled)

\* What effect.rs says of effect_completion_command_id: a replay after the
\* follow-up was committed resolves to AlreadyCommitted.
ReplayResolves == \A w \in Workers : "conflict" \notin DOMAIN pump[w]
=============================================================================
