------------------------- MODULE EffectPumpProofs ---------------------------
(***************************************************************************)
(* Proofs about EffectOutbox and about EffectPump over it, for any number  *)
(* of jobs and workers, any lease and any bound on attempts.               *)
(***************************************************************************)
EXTENDS EffectPump, TLAPS

\* A claim whose token is still current has its lease left, less its age.
LeaseCoversCurrent ==
    \A w \in Workers :
        claim[w].held /\ Current(claim[w]) => job[claim[w].job].wait + claim[w].age >= Lease

\* Within its lease a claim is the job's latest, and only a settled job can
\* have gone from under it.
YoungIsLatest ==
    \A w \in Workers :
        claim[w].held /\ claim[w].age < Lease =>
            /\ claim[w].attempt = job[claim[w].job].attempt
            /\ job[claim[w].job].status \in {"running"} \cup Settled

OutboxInv == OutboxTypeOK /\ TokensAreUnique /\ LeaseCoversCurrent /\ YoungIsLatest

-----------------------------------------------------------------------------
\* What a held claim is.
LEMMA HeldClaim ==
    ASSUME OutboxTypeOK, NEW w \in Workers, claim[w].held
    PROVE  /\ claim[w] \in Claim
           /\ claim[w].job \in Jobs
           /\ claim[w].attempt \in 1 .. MaxAttempt
           /\ claim[w].age \in 0 .. MaxAge
<1>1. claim[w] \in Claim \cup {NoClaim} BY DEF OutboxTypeOK
<1>2. NoClaim.held = FALSE BY DEF NoClaim
<1>3. claim[w] \in Claim BY <1>1, <1>2
<1> QED BY <1>3 DEF Claim

\* Initially no job is known and no claim is held.
LEMMA InitInv == OutboxInit => OutboxInv
  BY AttemptAssumption DEF OutboxInit, OutboxInv, OutboxTypeOK, TokensAreUnique,
     LeaseCoversCurrent, YoungIsLatest, Row, Statuses, NoClaim

\* A new job disturbs nobody: no claim is on an absent job, and the attempt
\* numbers stay.
LEMMA EnqueueInv ==
    ASSUME OutboxInv, NEW j \in Jobs, Enqueue(j) PROVE OutboxInv'
<1>1. OutboxTypeOK' BY DEF OutboxInv, OutboxTypeOK, Enqueue, Row, Statuses
<1>2. \A w \in Workers : claim[w].held => claim[w].job \in Jobs
  BY HeldClaim DEF OutboxInv
<1>3. TokensAreUnique'
  BY <1>2 DEF OutboxInv, OutboxTypeOK, TokensAreUnique, Enqueue, Row
<1>4. LeaseCoversCurrent'
  BY <1>2 DEF OutboxInv, OutboxTypeOK, LeaseCoversCurrent, Enqueue, Current, Row
<1>5. YoungIsLatest'
  BY <1>2 DEF OutboxInv, OutboxTypeOK, YoungIsLatest, Enqueue, Row, Settled
<1> QED BY <1>1, <1>3, <1>4, <1>5 DEF OutboxInv

\* Cancelling settles the job without touching attempts or claims.
LEMMA CancelInv ==
    ASSUME OutboxInv, NEW j \in Jobs, Cancel(j) PROVE OutboxInv'
<1>1. OutboxTypeOK' BY DEF OutboxInv, OutboxTypeOK, Cancel, Row, Statuses
<1>2. \A w \in Workers : claim[w].held => claim[w].job \in Jobs
  BY HeldClaim DEF OutboxInv
<1>3. TokensAreUnique'
  BY <1>2 DEF OutboxInv, OutboxTypeOK, TokensAreUnique, Cancel, Row
<1>4. LeaseCoversCurrent'
  BY <1>2 DEF OutboxInv, OutboxTypeOK, LeaseCoversCurrent, Cancel, Current, Row
<1>5. YoungIsLatest'
  BY <1>2 DEF OutboxInv, OutboxTypeOK, YoungIsLatest, Cancel, Row, Settled
<1> QED BY <1>1, <1>3, <1>4, <1>5 DEF OutboxInv

\* The claimed job was due, so no young claim was on it: the new claim is alone.
LEMMA ClaimInv ==
    ASSUME OutboxInv, NEW w \in Workers, ClaimNext(w) PROVE OutboxInv'
<1>1. PICK i \in DOMAIN order :
        /\ Due(order[i])
        /\ job[order[i]].attempt < MaxAttempt
        /\ job' = [job EXCEPT ![order[i]] =
                      [status |-> "running", attempt |-> NextAttempt(order[i]), wait |-> Lease]]
        /\ claim' = [claim EXCEPT ![w] =
                      [held |-> TRUE, job |-> order[i],
                       attempt |-> NextAttempt(order[i]), age |-> 0]]
  BY DEF ClaimNext
<1> DEFINE j == order[i]
<1>2. j \in Jobs BY DEF OutboxInv, OutboxTypeOK
<1>3. job[j] \in Row BY <1>2 DEF OutboxInv, OutboxTypeOK
<1>4. NextAttempt(j) \in 1 .. MaxAttempt /\ NextAttempt(j) = job[j].attempt + 1
  BY <1>1, <1>3, AttemptAssumption DEF NextAttempt, Row
<1>5. /\ job' \in [Jobs -> Row]
      /\ job'[j] = [status |-> "running", attempt |-> NextAttempt(j), wait |-> Lease]
      /\ \A k \in Jobs \ {j} : job'[k] = job[k]
  <2>1. [status |-> "running", attempt |-> NextAttempt(j), wait |-> Lease] \in Row
    BY <1>4, LeaseAssumption DEF Row, Statuses
  <2> QED BY <1>1, <1>2, <2>1 DEF OutboxInv, OutboxTypeOK
<1>6. /\ claim' \in [Workers -> Claim \cup {NoClaim}]
      /\ claim'[w] = [held |-> TRUE, job |-> j, attempt |-> NextAttempt(j), age |-> 0]
      /\ \A v \in Workers \ {w} : claim'[v] = claim[v]
  <2>1. [held |-> TRUE, job |-> j, attempt |-> NextAttempt(j), age |-> 0] \in Claim
    BY <1>2, <1>4, LeaseAssumption DEF Claim
  <2> QED BY <1>1, <2>1 DEF OutboxInv, OutboxTypeOK
<1>7. ~claim[w].held /\ UNCHANGED order BY DEF ClaimNext
<1> HIDE DEF j
<1>8. OutboxTypeOK'
  <2>1. \A k \in Jobs : job'[k].status \notin {"pending", "running"} => job'[k].wait = 0
    BY <1>5 DEF OutboxInv, OutboxTypeOK
  <2> QED BY <1>5, <1>6, <1>7, <2>1 DEF OutboxInv, OutboxTypeOK
<1>9. \A v \in Workers : claim[v].held =>
         /\ claim[v].job \in Jobs
         /\ claim[v].attempt \in Nat
         /\ claim[v].age \in Nat
         /\ job[claim[v].job] \in Row
         /\ claim[v].attempt <= job[claim[v].job].attempt
  BY HeldClaim DEF OutboxInv, OutboxTypeOK, TokensAreUnique
<1>10. \A v \in Workers : claim[v].held /\ claim[v].job = j => claim[v].age >= Lease
  \* otherwise the job would have lease left, or be settled, and not be due
  <2> SUFFICES ASSUME NEW v \in Workers, claim[v].held, claim[v].job = j, claim[v].age < Lease
               PROVE  FALSE
    BY <1>9, LeaseAssumption
  <2>1. claim[v].attempt = job[j].attempt /\ job[j].status \in {"running"} \cup Settled
    BY DEF OutboxInv, YoungIsLatest
  <2>2. job[j].status = "running" /\ job[j].wait = 0
    BY <1>1, <2>1 DEF Due, Settled, j
  <2>3. job[j].wait + claim[v].age >= Lease
    BY <2>1, <2>2 DEF OutboxInv, LeaseCoversCurrent, Current
  <2> QED BY <2>2, <2>3, <1>9, LeaseAssumption
<1>11. TokensAreUnique'
  <2> SUFFICES ASSUME NEW v \in Workers, claim'[v].held
               PROVE  /\ claim'[v].attempt <= job'[claim'[v].job].attempt
                      /\ \A u \in Workers \ {v} :
                            claim'[u].held /\ claim'[u].job = claim'[v].job
                            => claim'[u].attempt # claim'[v].attempt
    BY DEF TokensAreUnique
  <2>1. job[j].attempt \in Nat BY <1>3 DEF Row
  <2>2. CASE v = w
    BY <2>1, <2>2, <1>4, <1>5, <1>6, <1>9
  <2>3. CASE v # w
    <3>1. claim'[v] = claim[v] /\ claim[v].held BY <1>6, <2>3
    <3>2. claim[v].attempt <= job'[claim[v].job].attempt
      BY <2>1, <3>1, <1>4, <1>5, <1>9
    <3>3. claim'[w].job = claim[v].job => claim'[w].attempt # claim[v].attempt
      BY <2>1, <3>1, <1>4, <1>6, <1>9
    <3>4. \A u \in Workers \ {v, w} : claim[u].held /\ claim[u].job = claim[v].job
                                         => claim[u].attempt # claim[v].attempt
      BY <3>1 DEF OutboxInv, TokensAreUnique
    <3> QED BY <1>6, <3>1, <3>2, <3>3, <3>4
  <2> QED BY <2>2, <2>3
<1>12. LeaseCoversCurrent'
  <2> SUFFICES ASSUME NEW v \in Workers, claim'[v].held, Current(claim[v])'
               PROVE  job'[claim'[v].job].wait + claim'[v].age >= Lease
    BY DEF LeaseCoversCurrent
  <2>1. CASE v = w BY <2>1, <1>5, <1>6, LeaseAssumption
  <2>2. CASE v # w /\ claim[v].job = j
    <3>1. claim[v].attempt <= job[j].attempt /\ claim'[v] = claim[v] BY <2>2, <1>6, <1>9
    <3>2. job'[j].attempt = claim[v].attempt BY <2>2, <3>1 DEF Current
    <3> QED BY <3>1, <3>2, <2>2, <1>3, <1>4, <1>5, <1>6, <1>9 DEF Row
  <2>3. CASE v # w /\ claim[v].job # j
    BY <2>3, <1>5, <1>6, <1>9 DEF OutboxInv, LeaseCoversCurrent, Current
  <2> QED BY <2>1, <2>2, <2>3
<1>13. YoungIsLatest'
  <2> SUFFICES ASSUME NEW v \in Workers, claim'[v].held, claim'[v].age < Lease
               PROVE  /\ claim'[v].attempt = job'[claim'[v].job].attempt
                      /\ job'[claim'[v].job].status \in {"running"} \cup Settled
    BY DEF YoungIsLatest
  <2>1. CASE v = w BY <2>1, <1>5, <1>6
  <2>2. CASE v # w
    <3>1. claim'[v] = claim[v] /\ claim[v].job # j
      BY <2>2, <1>6, <1>9, <1>10, LeaseAssumption
    <3> QED BY <3>1, <1>5, <1>9 DEF OutboxInv, YoungIsLatest
  <2> QED BY <2>1, <2>2
<1> QED BY <1>8, <1>11, <1>12, <1>13 DEF OutboxInv

\* Only the holder of the current token changes the row, and its claim ends.
LEMMA SettleInv ==
    ASSUME OutboxInv, NEW w \in Workers,
           NEW status \in {"pending", "completed", "cancelled"},
           NEW wait \in Nat, status # "pending" => wait = 0,
           Settle(w, status, wait)
    PROVE  OutboxInv'
<1> DEFINE j == claim[w].job
<1>1. /\ claim[w].held /\ j \in Jobs
      /\ claim' = [claim EXCEPT ![w] = NoClaim]
      /\ job' = IF Current(claim[w])
                THEN [job EXCEPT ![j].status = status, ![j].wait = wait]
                ELSE job
      /\ order' = order
  BY HeldClaim DEF Settle, OutboxInv
<1>2. /\ job' \in [Jobs -> Row]
      /\ \A k \in Jobs : job'[k].attempt = job[k].attempt
      /\ \A k \in Jobs : job'[k] = job[k] \/ (k = j /\ Current(claim[w]) /\ job'[k].status = status)
      /\ \A k \in Jobs : job'[k].status \notin {"pending", "running"} => job'[k].wait = 0
  <2>1. job \in [Jobs -> Row] /\ job[j] \in Row BY <1>1 DEF OutboxInv, OutboxTypeOK
  <2>2. \A k \in Jobs : job[k].status \notin {"pending", "running"} => job[k].wait = 0
    BY DEF OutboxInv, OutboxTypeOK
  <2>3. CASE ~Current(claim[w]) BY <1>1, <2>1, <2>2, <2>3
  <2>4. CASE Current(claim[w])
    <3> DEFINE r == [status |-> status, attempt |-> job[j].attempt, wait |-> wait]
    <3>1. r \in Row /\ r.status = status /\ r.attempt = job[j].attempt /\ r.wait = wait
      BY <2>1 DEF Row, Statuses
    <3>2. job' = [job EXCEPT ![j] = r]
      <4> DEFINE u == [job[j] EXCEPT !.status = status]
      <4>1. u = [status |-> status, attempt |-> job[j].attempt, wait |-> job[j].wait]
        BY <2>1 DEF Row
      <4>2. job' = [job EXCEPT ![j] = [u EXCEPT !.wait = wait]] BY <1>1, <2>1, <2>4
      <4> HIDE DEF u
      <4>3. [u EXCEPT !.wait = wait] = r BY <4>1
      <4> QED BY <4>2, <4>3
    <3> HIDE DEF r, j
    <3> QED BY <1>1, <2>1, <2>2, <2>4, <3>1, <3>2
  <2> QED BY <2>3, <2>4
<1>3. /\ claim' \in [Workers -> Claim \cup {NoClaim}]
      /\ ~claim'[w].held
      /\ \A v \in Workers \ {w} : claim'[v] = claim[v]
  BY <1>1 DEF OutboxInv, OutboxTypeOK, NoClaim
<1>4. \A v \in Workers : claim[v].held => claim[v].job \in Jobs
  BY HeldClaim DEF OutboxInv
<1>5. OutboxTypeOK' BY <1>1, <1>2, <1>3 DEF OutboxInv, OutboxTypeOK
<1>6. TokensAreUnique'
  BY <1>2, <1>3, <1>4 DEF OutboxInv, TokensAreUnique
<1>8. \A v \in Workers \ {w} :
         claim[v].held /\ claim[v].job = j /\ Current(claim[w]) => claim[v].attempt # job[j].attempt
  BY <1>1 DEF OutboxInv, TokensAreUnique, Current
<1> HIDE DEF j
<1>9. LeaseCoversCurrent'
  <2> SUFFICES ASSUME NEW v \in Workers, claim'[v].held, Current(claim[v])'
               PROVE  job'[claim'[v].job].wait + claim'[v].age >= Lease
    BY DEF LeaseCoversCurrent
  <2>1. v # w /\ claim'[v] = claim[v] BY <1>3
  <2>2. job'[claim[v].job] = job[claim[v].job]
    BY <2>1, <1>2, <1>4, <1>8 DEF Current
  <2> QED BY <2>1, <2>2 DEF OutboxInv, LeaseCoversCurrent, Current
<1>10. YoungIsLatest'
  <2> SUFFICES ASSUME NEW v \in Workers, claim'[v].held, claim'[v].age < Lease
               PROVE  /\ claim'[v].attempt = job'[claim'[v].job].attempt
                      /\ job'[claim'[v].job].status \in {"running"} \cup Settled
    BY DEF YoungIsLatest
  <2>1. v # w /\ claim'[v] = claim[v] BY <1>3
  <2>2. /\ claim[v].attempt = job[claim[v].job].attempt
        /\ job[claim[v].job].status \in {"running"} \cup Settled
    BY <2>1 DEF OutboxInv, YoungIsLatest
  <2>3. job'[claim[v].job] = job[claim[v].job]
    BY <2>1, <2>2, <1>2, <1>4, <1>8
  <2> QED BY <2>1, <2>2, <2>3
<1> QED BY <1>5, <1>6, <1>9, <1>10 DEF OutboxInv

\* Losing a claim leaves fewer claims to speak about.
LEMMA ForgetInv ==
    ASSUME OutboxInv, NEW w \in Workers, Forget(w) PROVE OutboxInv'
<1>1. /\ claim' \in [Workers -> Claim \cup {NoClaim}]
      /\ ~claim'[w].held
      /\ \A v \in Workers \ {w} : claim'[v] = claim[v]
      /\ UNCHANGED <<order, job>>
  BY DEF Forget, OutboxInv, OutboxTypeOK, NoClaim
<1>2. OutboxTypeOK' BY <1>1 DEF OutboxInv, OutboxTypeOK
<1>3. TokensAreUnique' BY <1>1 DEF OutboxInv, TokensAreUnique
<1>4. LeaseCoversCurrent' BY <1>1 DEF OutboxInv, LeaseCoversCurrent, Current
<1>5. YoungIsLatest' BY <1>1 DEF OutboxInv, YoungIsLatest
<1> QED BY <1>2, <1>3, <1>4, <1>5 DEF OutboxInv

\* A tick takes one unit of waiting and adds one of age.
LEMMA TickInv == ASSUME OutboxInv, Tick PROVE OutboxInv'
<1>1. \A j \in Jobs :
         /\ job'[j] \in Row
         /\ job'[j].status = job[j].status
         /\ job'[j].attempt = job[j].attempt
         /\ job'[j].wait = Less(job[j].wait)
  <2> SUFFICES ASSUME NEW j \in Jobs
               PROVE  /\ job'[j] \in Row
                      /\ job'[j].status = job[j].status
                      /\ job'[j].attempt = job[j].attempt
                      /\ job'[j].wait = Less(job[j].wait)
    OBVIOUS
  <2>1. job'[j] = [job[j] EXCEPT !.wait = Less(@)] BY DEF Tick
  <2>2. job[j] \in Row BY DEF OutboxInv, OutboxTypeOK
  <2>3. Less(job[j].wait) \in Nat BY <2>2 DEF Less, Row
  <2> QED BY <2>1, <2>2, <2>3 DEF Row
<1>2. \A w \in Workers :
         /\ claim'[w] \in Claim \cup {NoClaim}
         /\ claim'[w].held => /\ claim[w].held
                              /\ claim'[w].job = claim[w].job
                              /\ claim'[w].attempt = claim[w].attempt
                              /\ claim'[w].age =
                                    IF claim[w].age < MaxAge THEN claim[w].age + 1 ELSE claim[w].age
  <2> SUFFICES ASSUME NEW w \in Workers
               PROVE  /\ claim'[w] \in Claim \cup {NoClaim}
                      /\ claim'[w].held => /\ claim[w].held
                                           /\ claim'[w].job = claim[w].job
                                           /\ claim'[w].attempt = claim[w].attempt
                                           /\ claim'[w].age =
                                                IF claim[w].age < MaxAge THEN claim[w].age + 1
                                                                         ELSE claim[w].age
    OBVIOUS
  <2>1. claim'[w] = Older(claim[w]) BY DEF Tick
  <2>2. CASE ~claim[w].held
    BY <2>1, <2>2 DEF OutboxInv, OutboxTypeOK, Older
  <2>3. CASE claim[w].held
    <3>1. claim[w] \in Claim /\ claim[w].age \in 0 .. MaxAge
      BY <2>3, HeldClaim DEF OutboxInv
    <3>2. CASE claim[w].age < MaxAge
      <4>1. claim'[w] = [claim[w] EXCEPT !.age = @ + 1] BY <2>1, <2>3, <3>2 DEF Older
      <4>2. claim[w].age + 1 \in 0 .. MaxAge BY <3>1, <3>2, LeaseAssumption
      <4> QED BY <4>1, <4>2, <3>1, <3>2, <2>3 DEF Claim
    <3>3. CASE ~(claim[w].age < MaxAge)
      BY <2>1, <2>3, <3>1, <3>3 DEF Older
    <3> QED BY <3>2, <3>3
  <2> QED BY <2>2, <2>3
<1>3. OutboxTypeOK'
  <2>1. job' \in [Jobs -> Row] BY <1>1 DEF Tick
  <2>2. claim' \in [Workers -> Claim \cup {NoClaim}] BY <1>2 DEF Tick
  <2>3. \A j \in Jobs : job'[j].status \notin {"pending", "running"} => job'[j].wait = 0
    BY <1>1 DEF OutboxInv, OutboxTypeOK, Less
  <2> QED BY <2>1, <2>2, <2>3 DEF Tick, OutboxInv, OutboxTypeOK
<1>4. \A w \in Workers : claim[w].held =>
         claim[w].job \in Jobs /\ claim[w].age \in 0 .. MaxAge /\ job[claim[w].job] \in Row
  BY HeldClaim DEF OutboxInv, OutboxTypeOK
<1>5. TokensAreUnique' BY <1>1, <1>2, <1>4 DEF OutboxInv, TokensAreUnique
<1>6. LeaseCoversCurrent'
  <2> SUFFICES ASSUME NEW w \in Workers, claim'[w].held, Current(claim[w])'
               PROVE  job'[claim'[w].job].wait + claim'[w].age >= Lease
    BY DEF LeaseCoversCurrent
  <2>1. claim[w].held /\ Current(claim[w]) BY <1>1, <1>2, <1>4 DEF Current
  <2>2. job[claim[w].job].wait + claim[w].age >= Lease
    BY <2>1 DEF OutboxInv, LeaseCoversCurrent
  <2>3. job[claim[w].job].wait \in Nat BY <1>4, <2>1 DEF Row
  <2> QED BY <2>1, <2>2, <2>3, <1>1, <1>2, <1>4, LeaseAssumption DEF Less
<1>7. YoungIsLatest'
  <2> SUFFICES ASSUME NEW w \in Workers, claim'[w].held, claim'[w].age < Lease
               PROVE  /\ claim'[w].attempt = job'[claim'[w].job].attempt
                      /\ job'[claim'[w].job].status \in {"running"} \cup Settled
    BY DEF YoungIsLatest
  <2>1. claim[w].held /\ claim[w].age < Lease BY <1>2, <1>4, LeaseAssumption
  <2> QED BY <2>1, <1>1, <1>2, <1>4 DEF OutboxInv, YoungIsLatest
<1> QED BY <1>3, <1>5, <1>6, <1>7 DEF OutboxInv

\* Every step keeps the inductive invariant.
LEMMA StepInv == OutboxInv /\ [OutboxNext]_outboxVars => OutboxInv'
<1> SUFFICES ASSUME OutboxInv, [OutboxNext]_outboxVars PROVE OutboxInv'
  OBVIOUS
<1>1. ASSUME NEW j \in Jobs, Enqueue(j) PROVE OutboxInv' BY <1>1, EnqueueInv
<1>2. ASSUME NEW j \in Jobs, Cancel(j) PROVE OutboxInv' BY <1>2, CancelInv
<1>3. ASSUME NEW w \in Workers, ClaimNext(w) PROVE OutboxInv' BY <1>3, ClaimInv
<1>4. ASSUME NEW w \in Workers, Complete(w) PROVE OutboxInv' BY <1>4, SettleInv DEF Complete
<1>5. ASSUME NEW w \in Workers, NEW wait \in Waits, Retry(w, wait) PROVE OutboxInv'
  <2>1. wait \in Nat BY WaitAssumption
  <2> QED BY <1>5, <2>1, SettleInv DEF Retry
<1>6. ASSUME NEW w \in Workers, CancelClaimed(w) PROVE OutboxInv'
  BY <1>6, SettleInv DEF CancelClaimed
<1>7. ASSUME NEW w \in Workers, Forget(w) PROVE OutboxInv' BY <1>7, ForgetInv
<1>8. CASE Tick BY <1>8, TickInv
<1>9. CASE UNCHANGED outboxVars
  BY <1>9 DEF outboxVars, OutboxInv, OutboxTypeOK, TokensAreUnique, LeaseCoversCurrent,
     YoungIsLatest, Current
<1> QED BY <1>1, <1>2, <1>3, <1>4, <1>5, <1>6, <1>7, <1>8, <1>9 DEF OutboxNext

-----------------------------------------------------------------------------
(* A pump uses the outbox as it is meant to be used.                       *)

\* A retry waits for a time a retry may wait.
LEMMA RetryWaits ==
    ASSUME OutboxInv, NEW w \in Workers, claim[w].held
    PROVE  WaitLeft(RetryDelay(claim[w].attempt), claim[w].age) \in Waits
<1>1. claim[w].attempt \in 1 .. MaxAttempt /\ claim[w].age \in 0 .. MaxAge
  BY HeldClaim DEF OutboxInv
<1>2. Lesser(claim[w].attempt, 17) \in 1 .. 17 BY <1>1, AttemptAssumption DEF Lesser
<1>3. PowersOfTwo[Lesser(claim[w].attempt, 17)] \in Nat BY <1>2 DEF PowersOfTwo
<1>4. \A m \in Nat : Lesser(RetryBase * m, RetryMax) \in 0 .. RetryMax
  BY BackoffAssumption DEF Lesser
<1>5. RetryDelay(claim[w].attempt) \in 0 .. RetryMax BY <1>3, <1>4 DEF RetryDelay
<1>6. WaitLeft(RetryDelay(claim[w].attempt), claim[w].age) \in 0 .. RetryMax
  BY <1>1, <1>5, LeaseAssumption, BackoffAssumption DEF WaitLeft
<1> QED BY <1>6, BackoffAssumption

\* Every step of the pumps is one of the outbox or leaves it alone.
LEMMA PumpStepsOutbox == OutboxInv /\ [Next]_vars => [OutboxNext]_outboxVars
<1> SUFFICES ASSUME OutboxInv, [Next]_vars PROVE [OutboxNext]_outboxVars OBVIOUS
<1>1. CASE UNCHANGED vars BY <1>1 DEF vars
<1>2. ASSUME NEW j \in Jobs, Enqueue(j) \/ Cancel(j) PROVE OutboxNext BY <1>2 DEF OutboxNext
<1>3. ASSUME NEW w \in Workers, PumpClaim(w) \/ PumpComplete(w) \/ PumpCancel(w) \/ Crash(w)
      PROVE  OutboxNext
  BY <1>3 DEF PumpClaim, PumpComplete, PumpCancel, Crash, OutboxNext
<1>4. ASSUME NEW w \in Workers, PumpRetry(w) PROVE OutboxNext
  BY <1>4, RetryWaits DEF PumpRetry, Retry, Settle, OutboxNext
<1>5. ASSUME NEW w \in Workers, Execute(w) \/ Submit(w) \/ Dispatch(w) PROVE UNCHANGED outboxVars
  BY <1>5 DEF Execute, Submit, Dispatch
<1>6. CASE PumpTick BY <1>6 DEF PumpTick, OutboxNext
<1> QED BY <1>1, <1>2, <1>3, <1>4, <1>5, <1>6 DEF Next, PumpStep

\* The inductive invariant holds of every behaviour of the outbox, with its pumps
\* or with anybody else who uses it.
THEOREM InvHolds == Spec \/ OutboxSpec => []OutboxInv
<1>1. OutboxSpec => []OutboxInv BY InitInv, StepInv, PTL DEF OutboxSpec
<1>2. Init => OutboxInv BY InitInv DEF Init
<1>3. OutboxInv /\ [Next]_vars => OutboxInv' BY StepInv, PumpStepsOutbox
<1>4. Spec => []OutboxInv BY <1>2, <1>3, PTL DEF Spec
<1> QED BY <1>1, <1>4, PTL

\* Every reachable row and claim has its shape (the effect_jobs table).
THEOREM TypeCorrect == Spec \/ OutboxSpec => []OutboxTypeOK
<1>1. OutboxInv => OutboxTypeOK BY DEF OutboxInv
<1> QED BY <1>1, InvHolds, PTL

\* A fencing token is never handed out twice (claim_next).
THEOREM TokensUnique == Spec \/ OutboxSpec => []TokensAreUnique
<1>1. OutboxInv => TokensAreUnique BY DEF OutboxInv
<1> QED BY <1>1, InvHolds, PTL

\* Inside its lease a worker is alone with its job: of two young claims on one
\* job both would be its latest, and tokens are unique.
THEOREM LeaseExclusive == Spec \/ OutboxSpec => []LeaseIsExclusive
<1>1. ASSUME OutboxInv PROVE LeaseIsExclusive
  <2> SUFFICES ASSUME NEW v \in Workers, NEW w \in Workers, v # w,
                      claim[v].held, claim[w].held, claim[v].job = claim[w].job,
                      ~(claim[v].age >= Lease), ~(claim[w].age >= Lease)
               PROVE  FALSE
    BY DEF LeaseIsExclusive
  <2>1. claim[v].age < Lease /\ claim[w].age < Lease
    BY <1>1, HeldClaim, LeaseAssumption DEF OutboxInv
  <2>2. claim[v].attempt = claim[w].attempt
    BY <1>1, <2>1 DEF OutboxInv, YoungIsLatest
  <2> QED BY <1>1, <2>2 DEF OutboxInv, TokensAreUnique
<1> QED BY <1>1, InvHolds, PTL

\* A settled job is settled for good, whoever comes late (transition_claim, cancel).
THEOREM SettledForGood == Spec \/ OutboxSpec => SettledIsFinal
<1>1. ASSUME OutboxInv, [OutboxNext]_outboxVars,
             NEW j \in Jobs, job[j].status \in Settled
      PROVE  job'[j] = job[j]
  <2>1. job[j] \in Row /\ job[j].wait = 0 /\ job \in [Jobs -> Row]
    BY <1>1 DEF OutboxInv, OutboxTypeOK, Settled
  <2>2. job[j].status \notin {"absent", "pending", "running"} BY <1>1 DEF Settled
  <2>3. ASSUME NEW k \in Jobs, Enqueue(k) \/ Cancel(k) PROVE job'[j] = job[j]
    BY <2>1, <2>2, <2>3 DEF Enqueue, Cancel
  <2>4. ASSUME NEW w \in Workers, ClaimNext(w) PROVE job'[j] = job[j]
    <3>1. PICK i \in DOMAIN order :
            /\ Due(order[i])
            /\ job' = [job EXCEPT ![order[i]] =
                        [status |-> "running", attempt |-> NextAttempt(order[i]), wait |-> Lease]]
      BY <2>4 DEF ClaimNext
    <3>2. order[i] # j BY <3>1, <2>2 DEF Due
    <3> QED BY <3>1, <3>2, <2>1
  <2>5. ASSUME NEW w \in Workers, NEW status, NEW wait, Settle(w, status, wait)
        PROVE  job'[j] = job[j]
    <3>1. Current(claim[w]) => claim[w].job # j BY <2>2 DEF Current
    <3> QED BY <2>5, <3>1, <2>1 DEF Settle
  <2>6. ASSUME Tick PROVE job'[j] = job[j]
    <3>1. job'[j] = [job[j] EXCEPT !.wait = Less(@)] BY <2>6 DEF Tick
    <3> QED BY <3>1, <2>1 DEF Less, Row
  <2>7. ASSUME NEW w \in Workers, Forget(w) PROVE job'[j] = job[j]
    BY <2>7 DEF Forget
  <2>8. ASSUME UNCHANGED outboxVars PROVE job'[j] = job[j] BY <2>8 DEF outboxVars
  <2> QED BY <1>1, <2>3, <2>4, <2>5, <2>6, <2>7, <2>8
             DEF OutboxNext, Complete, Retry, CancelClaimed
<1>2. OutboxInv /\ [OutboxNext]_outboxVars =>
        [\A j \in Jobs : job[j].status \in Settled => job'[j] = job[j]]_outboxVars
  BY <1>1
<1>3. OutboxSpec => SettledIsFinal BY <1>2, InvHolds, PTL DEF OutboxSpec, SettledIsFinal
<1>4. Spec => SettledIsFinal BY <1>2, PumpStepsOutbox, InvHolds, PTL DEF Spec, SettledIsFinal
<1> QED BY <1>3, <1>4, PTL

\* A running job with lease left leaves its holder only through the holder
\* itself or an administrator's cancel.
THEOREM HolderKeeps == Spec \/ OutboxSpec => HolderKeepsJob
<1> DEFINE Kept(j) ==
      \/ job'[j].status \in {"running", "cancelled"} /\ job'[j].attempt = job[j].attempt
      \/ \E w \in Workers : /\ claim[w].held /\ ~claim'[w].held
                            /\ claim[w].job = j
                            /\ claim[w].attempt = job[j].attempt
<1>1. ASSUME OutboxInv, [OutboxNext]_outboxVars,
             NEW j \in Jobs, job[j].status = "running", job[j].wait > 0
      PROVE  Kept(j)
  <2>1. job[j] \in Row /\ job \in [Jobs -> Row] /\ claim \in [Workers -> Claim \cup {NoClaim}]
    BY <1>1 DEF OutboxInv, OutboxTypeOK
  <2>2. job'[j] = job[j] => Kept(j) BY <1>1
  <2>3. ASSUME NEW k \in Jobs, Enqueue(k) PROVE Kept(j)
    <3>1. k # j BY <2>3, <1>1 DEF Enqueue
    <3> QED BY <2>3, <3>1, <2>1, <2>2 DEF Enqueue
  <2>4. ASSUME NEW k \in Jobs, Cancel(k) PROVE Kept(j)
    <3>1. job'[j].status \in {"running", "cancelled"} /\ job'[j].attempt = job[j].attempt
      BY <2>4, <2>1, <1>1 DEF Cancel, Row
    <3> QED BY <3>1
  <2>5. ASSUME NEW w \in Workers, ClaimNext(w) PROVE Kept(j)
    <3>1. PICK i \in DOMAIN order :
            /\ Due(order[i])
            /\ job' = [job EXCEPT ![order[i]] =
                        [status |-> "running", attempt |-> NextAttempt(order[i]), wait |-> Lease]]
      BY <2>5 DEF ClaimNext
    <3>2. order[i] # j BY <3>1, <1>1, <2>1 DEF Due, Row
    <3> QED BY <3>1, <3>2, <2>1, <2>2
  <2>6. ASSUME NEW w \in Workers, NEW status, NEW wait, Settle(w, status, wait) PROVE Kept(j)
    <3>1. CASE Current(claim[w]) /\ claim[w].job = j
      <4>1. claim'[w] = NoClaim /\ claim[w].held BY <2>6, <2>1 DEF Settle
      <4>2. ~claim'[w].held BY <4>1 DEF NoClaim
      <4> QED BY <3>1, <4>1, <4>2 DEF Current
    <3>2. CASE ~(Current(claim[w]) /\ claim[w].job = j)
      <4>1. job'[j] = job[j] BY <2>6, <3>2, <2>1 DEF Settle
      <4> QED BY <4>1, <2>2
    <3> QED BY <3>1, <3>2
  <2>7. ASSUME Tick PROVE Kept(j)
    <3>1. job'[j] = [job[j] EXCEPT !.wait = Less(@)] BY <2>7 DEF Tick
    <3>2. job'[j].status = job[j].status /\ job'[j].attempt = job[j].attempt
      BY <3>1, <2>1 DEF Row
    <3> QED BY <3>2, <1>1
  <2>8. ASSUME NEW w \in Workers, Forget(w) PROVE Kept(j) BY <2>8, <2>2 DEF Forget
  <2>9. ASSUME UNCHANGED outboxVars PROVE Kept(j) BY <2>9, <2>2 DEF outboxVars
  <2> HIDE DEF Kept
  <2> QED BY <1>1, <2>3, <2>4, <2>5, <2>6, <2>7, <2>8, <2>9
             DEF OutboxNext, Complete, Retry, CancelClaimed
<1>2. OutboxInv /\ [OutboxNext]_outboxVars =>
        [\A j \in Jobs : job[j].status = "running" /\ job[j].wait > 0 => Kept(j)]_outboxVars
  <2> HIDE DEF Kept
  <2> QED BY <1>1
<1>3. OutboxSpec => HolderKeepsJob BY <1>2, InvHolds, PTL DEF OutboxSpec, HolderKeepsJob
<1>4. Spec => HolderKeepsJob BY <1>2, PumpStepsOutbox, InvHolds, PTL DEF Spec, HolderKeepsJob
<1> QED BY <1>3, <1>4, PTL

-----------------------------------------------------------------------------
(* The pump: a follow-up is committed, then delivered, then its job settled. *)

PumpState ==
    [pc : {"idle", "execute", "cancel", "retry"}]
        \cup [pc : {"retry"}, conflict : {TRUE}]
        \cup [pc : {"submit"}, command : Contents]
        \cup [pc : {"dispatch", "complete"}, command : Contents \cup {NoCommand}]

PumpTypes ==
    /\ pump \in [Workers -> PumpState]
    /\ followup \in [Jobs -> Contents \cup {NoCommand}]
    /\ live \in [Jobs -> Nat]
    /\ \A w \in Workers : At(w, "idle") <=> ~claim[w].held

\* The pump that will deliver the events of a follow-up is the one that committed it,
\* and nobody has delivered them before.
Delivering ==
    \A w \in Workers : At(w, "dispatch") =>
        /\ followup[claim[w].job] = pump[w].command
        /\ followup[claim[w].job] # NoCommand
        /\ live[claim[w].job] = 0
        /\ \A v \in Workers \ {w} : At(v, "dispatch") => claim[v].job # claim[w].job

\* A pump that will complete a job has its follow-up committed, if there is one.
Completing ==
    \A w \in Workers : At(w, "complete") =>
        pump[w].command \in {NoCommand, followup[claim[w].job]}

PumpInv == PumpTypes /\ Delivering /\ Completing /\ LiveAtMostOnce

\* What the pumps look at of the outbox: which job each has claimed.
SameJobs(S) ==
    \A v \in S : /\ claim'[v].held = claim[v].held
                 /\ claim[v].held => claim'[v].job = claim[v].job

\* Where a pump is.
LEMMA PumpStates ==
    ASSUME PumpTypes, NEW w \in Workers
    PROVE  /\ At(w, "submit") => pump[w].command \in Contents
           /\ At(w, "dispatch") \/ At(w, "complete") => pump[w].command \in Contents \cup {NoCommand}
           /\ pump[w].pc \in {"idle", "execute", "cancel", "retry", "submit", "dispatch", "complete"}
<1>1. pump[w] \in PumpState BY DEF PumpTypes
<1> QED BY <1>1 DEF PumpState, At

\* A pump that goes on to a state in which it neither delivers nor completes.
LEMMA MovesOn ==
    ASSUME OutboxTypeOK, PumpInv, NEW w \in Workers, SameJobs(Workers \ {w}),
           NEW p \in PumpState, pump' = [pump EXCEPT ![w] = p],
           p.pc \notin {"dispatch", "complete"}, p.pc = "idle" <=> ~claim'[w].held,
           UNCHANGED <<followup, live>>
    PROVE  PumpInv'
<1>1. pump' \in [Workers -> PumpState] /\ pump'[w] = p /\ \A v \in Workers \ {w} : pump'[v] = pump[v]
  BY DEF PumpInv, PumpTypes
<1>2. \A v \in Workers \ {w} : At(v, "dispatch") \/ At(v, "complete") => claim[v].held
  BY DEF PumpInv, PumpTypes, At
<1>3. PumpTypes' BY <1>1 DEF PumpInv, PumpTypes, SameJobs, At
<1>4. Delivering' BY <1>1, <1>2 DEF PumpInv, Delivering, SameJobs, At
<1>5. Completing' BY <1>1, <1>2 DEF PumpInv, Completing, SameJobs, At
<1> QED BY <1>3, <1>4, <1>5 DEF PumpInv, LiveAtMostOnce

LEMMA PumpInit == Init => PumpInv
<1> SUFFICES ASSUME Init PROVE PumpInv OBVIOUS
<1>1. PumpTypes BY DEF Init, OutboxInit, PumpTypes, PumpState, Idle, NoClaim, At
<1>2. \A w \in Workers : pump[w].pc = "idle" BY DEF Init, Idle
<1> QED BY <1>1, <1>2 DEF PumpInv, Delivering, Completing, LiveAtMostOnce, Init, At

\* The claim is new and the handler has not been asked.
LEMMA PumpClaimInv ==
    ASSUME OutboxTypeOK, PumpInv, NEW w \in Workers, PumpClaim(w) PROVE PumpInv'
<1>1. pump' = [pump EXCEPT ![w] = [pc |-> "execute"]] /\ UNCHANGED <<followup, live>>
  BY DEF PumpClaim, Goto
<1>2. claim'[w].held /\ \A v \in Workers \ {w} : claim'[v] = claim[v]
  BY DEF PumpClaim, ClaimNext, OutboxTypeOK
<1>3. [pc |-> "execute"] \in PumpState BY DEF PumpState
<1> QED BY <1>1, <1>2, <1>3, MovesOn DEF SameJobs

\* The claim is settled, or its process died.
LEMMA PumpSettleInv ==
    ASSUME OutboxTypeOK, PumpInv, NEW w \in Workers,
           PumpComplete(w) \/ PumpCancel(w) \/ PumpRetry(w) \/ Crash(w)
    PROVE  PumpInv'
<1>1. pump' = [pump EXCEPT ![w] = Idle] /\ UNCHANGED <<followup, live>>
  BY DEF PumpComplete, PumpCancel, PumpRetry, Crash, Goto
<1>2. claim' = [claim EXCEPT ![w] = NoClaim]
  BY DEF PumpComplete, PumpCancel, PumpRetry, Crash, Complete, CancelClaimed, Retry, Settle, Forget
<1>3. ~claim'[w].held /\ \A v \in Workers \ {w} : claim'[v] = claim[v]
  BY <1>2 DEF OutboxTypeOK, NoClaim
<1>4. Idle \in PumpState /\ Idle.pc = "idle" BY DEF PumpState, Idle
<1> QED BY <1>1, <1>3, <1>4, MovesOn DEF SameJobs

\* The handler has answered.
LEMMA ExecuteInv ==
    ASSUME OutboxTypeOK, PumpInv, NEW w \in Workers, Execute(w) PROVE PumpInv'
<1>1. UNCHANGED <<claim, followup, live>> /\ pump[w].pc = "execute"
  BY DEF Execute, outboxVars, At
<1>2. SameJobs(Workers \ {w}) /\ claim[w].held BY <1>1 DEF SameJobs, PumpInv, PumpTypes, At
<1>3. ASSUME NEW p \in PumpState, Goto(w, p), p.pc \notin {"dispatch", "complete", "idle"}
      PROVE  PumpInv'
  BY <1>1, <1>2, <1>3, MovesOn DEF Goto
<1>4. ASSUME Goto(w, [pc |-> "complete", command |-> NoCommand]) PROVE PumpInv'
  <2>1. [pc |-> "complete", command |-> NoCommand] \in PumpState BY DEF PumpState
  <2>2. /\ pump' \in [Workers -> PumpState] /\ \A v \in Workers \ {w} : pump'[v] = pump[v]
        /\ pump'[w].pc = "complete" /\ pump'[w].command = NoCommand
    BY <1>4, <2>1 DEF Goto, PumpInv, PumpTypes
  <2>3. PumpTypes' BY <1>1, <1>2, <2>2 DEF PumpInv, PumpTypes, At
  <2>4. Delivering' BY <1>1, <2>2 DEF PumpInv, Delivering, At
  <2>5. Completing' BY <1>1, <2>2 DEF PumpInv, Completing, At
  <2> QED BY <1>1, <2>3, <2>4, <2>5 DEF PumpInv, LiveAtMostOnce
<1>5. CASE Goto(w, [pc |-> "retry"])
  <2>1. [pc |-> "retry"] \in PumpState BY DEF PumpState
  <2> QED BY <1>3, <1>5, <2>1
<1>6. CASE Goto(w, [pc |-> "cancel"])
  <2>1. [pc |-> "cancel"] \in PumpState BY DEF PumpState
  <2> QED BY <1>3, <1>6, <2>1
<1>7. ASSUME NEW response \in Responses, "content" \in DOMAIN response,
             Goto(w, [pc |-> "submit", command |-> response.content])
      PROVE  PumpInv'
  <2>1. response.content \in Contents BY <1>7 DEF Responses
  <2>2. [pc |-> "submit", command |-> response.content] \in PumpState BY <2>1 DEF PumpState
  <2> QED BY <1>3, <1>7, <2>2
<1> QED BY <1>4, <1>5, <1>6, <1>7 DEF Execute, Answers

\* The world runtime has answered: a new commit is this pump's to deliver.
LEMMA SubmitInv ==
    ASSUME OutboxTypeOK, PumpInv, NEW w \in Workers, Submit(w) PROVE PumpInv'
<1> DEFINE j == claim[w].job
           c == pump[w].command
<1>1. /\ UNCHANGED <<claim, live>> /\ At(w, "submit")
      /\ pump[w] = [pc |-> "submit", command |-> c] /\ c \in Contents /\ c # NoCommand
  <2>1. UNCHANGED <<claim, live>> /\ At(w, "submit") BY DEF Submit, outboxVars
  <2>2. pump[w] \in PumpState BY DEF PumpInv, PumpTypes
  <2>3. pump[w] = [pc |-> "submit", command |-> c] /\ c \in Contents
    BY <2>1, <2>2 DEF PumpState, At
  <2> QED BY <2>1, <2>3, ContentsAssumption
<1>2. claim[w].held /\ j \in Jobs
  BY <1>1, HeldClaim DEF PumpInv, PumpTypes, At
<1>3. \A v \in Workers : At(v, "dispatch") \/ At(v, "complete") => claim[v].held
  BY DEF PumpInv, PumpTypes, At
<1> HIDE DEF j, c
<1>4. ASSUME followup[j] = NoCommand
      PROVE  /\ live[j] = 0
             /\ \A v \in Workers : At(v, "dispatch") => claim[v].job # j
  BY <1>2, <1>4 DEF PumpInv, PumpTypes, LiveAtMostOnce, Delivering
<1>5. ASSUME followup' = followup \/ (followup[j] = NoCommand /\ followup' = [followup EXCEPT ![j] = c]),
             NEW p \in PumpState, pump' = [pump EXCEPT ![w] = p], p.pc # "idle",
             p.pc = "dispatch" => /\ p.command = c
                                  /\ followup[j] = NoCommand /\ followup' = [followup EXCEPT ![j] = c],
             p.pc = "complete" => p.command = c /\ followup[j] = c
      PROVE  PumpInv'
  <2>1. /\ pump' \in [Workers -> PumpState]
        /\ pump'[w] = p /\ \A v \in Workers \ {w} : pump'[v] = pump[v]
    BY <1>5 DEF PumpInv, PumpTypes
  <2>2. /\ followup' \in [Jobs -> Contents \cup {NoCommand}]
        /\ \A k \in Jobs : followup'[k] = followup[k] \/ (followup[k] = NoCommand /\ k = j)
    BY <1>1, <1>2, <1>5 DEF PumpInv, PumpTypes
  <2>3. PumpTypes' BY <1>1, <1>2, <1>5, <2>1, <2>2 DEF PumpInv, PumpTypes, At
  <2>4. LiveAtMostOnce'
    BY <1>1, <1>2, <1>4, <2>2 DEF PumpInv, PumpTypes, LiveAtMostOnce
  <2>5. \A v \in Workers : claim[v].held => claim[v].job \in Jobs
    BY HeldClaim
  <2>6. Delivering'
    <3> SUFFICES ASSUME NEW u \in Workers, At(u, "dispatch")'
                 PROVE  /\ followup'[claim'[u].job] = pump'[u].command
                        /\ followup'[claim'[u].job] # NoCommand
                        /\ live'[claim'[u].job] = 0
                        /\ \A v \in Workers \ {u} : At(v, "dispatch")' => claim'[v].job # claim'[u].job
      BY DEF Delivering
    <3>1. CASE u = w
      <4>1. p.pc = "dispatch" BY <2>1, <3>1 DEF At
      <4>2. followup'[j] = c /\ live[j] = 0 /\ p.command = c
        BY <4>1, <1>2, <1>4, <1>5 DEF PumpInv, PumpTypes
      <4>3. \A v \in Workers \ {u} : At(v, "dispatch")' => claim[v].job # j
        BY <3>1, <2>1, <1>4, <1>5, <4>1 DEF At
      <4> QED BY <1>1, <2>1, <3>1, <4>2, <4>3 DEF j
    <3>2. CASE u # w
      <4>1. pump'[u] = pump[u] /\ At(u, "dispatch") BY <2>1, <3>2 DEF At
      <4>2. /\ followup[claim[u].job] = pump[u].command /\ followup[claim[u].job] # NoCommand
            /\ live[claim[u].job] = 0 /\ claim[u].job \in Jobs
        BY <4>1, <1>3, <2>5 DEF PumpInv, Delivering
      <4>3. followup'[claim[u].job] = followup[claim[u].job] BY <2>2, <4>2
      <4>4. \A v \in Workers \ {u} : At(v, "dispatch")' => claim[v].job # claim[u].job
        <5> SUFFICES ASSUME NEW v \in Workers \ {u}, At(v, "dispatch")' PROVE claim[v].job # claim[u].job
          OBVIOUS
        <5>1. CASE v = w
          <6>1. p.pc = "dispatch" BY <2>1, <5>1 DEF At
          <6>2. claim[u].job # j BY <6>1, <1>4, <1>5, <4>1
          <6> QED BY <6>2, <5>1 DEF j
        <5>2. CASE v # w
          <6>1. At(v, "dispatch") BY <2>1, <5>2 DEF At
          <6> QED BY <6>1, <4>1 DEF PumpInv, Delivering
        <5> QED BY <5>1, <5>2
      <4> QED BY <1>1, <4>1, <4>2, <4>3, <4>4
    <3> QED BY <3>1, <3>2
  <2>7. Completing'
    <3> SUFFICES ASSUME NEW u \in Workers, At(u, "complete")'
                 PROVE  pump'[u].command \in {NoCommand, followup'[claim'[u].job]}
      BY DEF Completing
    <3>1. CASE u = w
      <4>1. p.command = c /\ followup[j] = c BY <1>5, <2>1, <3>1 DEF At
      <4>2. followup'[j] = c BY <4>1, <1>1, <1>2, <2>2
      <4> QED BY <1>1, <2>1, <3>1, <4>1, <4>2 DEF j
    <3>2. CASE u # w
      <4>1. pump'[u] = pump[u] /\ At(u, "complete") /\ claim[u].job \in Jobs
        BY <1>3, <2>1, <2>5, <3>2 DEF At
      <4>2. pump[u].command \in {NoCommand, followup[claim[u].job]}
        BY <4>1 DEF PumpInv, Completing
      <4>3. pump[u].command \in Contents \cup {NoCommand} BY <4>1, PumpStates DEF PumpInv
      <4> QED BY <1>1, <4>1, <4>2, <2>2
    <3> QED BY <3>1, <3>2
  <2> QED BY <2>3, <2>4, <2>6, <2>7 DEF PumpInv
<1>6. CASE /\ followup[j] = NoCommand
           /\ followup' = [followup EXCEPT ![j] = c]
           /\ pump' = [pump EXCEPT ![w] = [pump[w] EXCEPT !.pc = "dispatch"]]
  <2>1. [pump[w] EXCEPT !.pc = "dispatch"] = [pc |-> "dispatch", command |-> c] BY <1>1
  <2>2. [pc |-> "dispatch", command |-> c] \in PumpState BY <1>1 DEF PumpState
  <2> QED BY <1>5, <1>6, <2>1, <2>2
<1>7. CASE /\ followup[j] = c /\ UNCHANGED followup
           /\ pump' = [pump EXCEPT ![w] = [pump[w] EXCEPT !.pc = "complete"]]
  <2>1. [pump[w] EXCEPT !.pc = "complete"] = [pc |-> "complete", command |-> c] BY <1>1
  <2>2. [pc |-> "complete", command |-> c] \in PumpState BY <1>1 DEF PumpState
  <2> QED BY <1>5, <1>7, <2>1, <2>2
<1>8. CASE UNCHANGED followup /\ pump' = [pump EXCEPT ![w] = [pc |-> "retry", conflict |-> TRUE]]
  <2>1. [pc |-> "retry", conflict |-> TRUE] \in PumpState BY DEF PumpState
  <2> QED BY <1>5, <1>8, <2>1
<1>9. CASE /\ followup' = followup \/ (followup[j] = NoCommand /\ followup' = [followup EXCEPT ![j] = c])
           /\ pump' = [pump EXCEPT ![w] = [pc |-> "retry"]]
  <2>1. [pc |-> "retry"] \in PumpState BY DEF PumpState
  <2> QED BY <1>5, <1>9, <2>1
<1> QED BY <1>6, <1>7, <1>8, <1>9 DEF Submit, Goto, AfterReplay, AfterFailure, j, c

\* The events are delivered, or their delivery failed: either way once.
LEMMA DispatchInv ==
    ASSUME OutboxTypeOK, PumpInv, NEW w \in Workers, Dispatch(w) PROVE PumpInv'
<1> DEFINE j == claim[w].job
           c == pump[w].command
<1>1. /\ UNCHANGED <<claim, followup>> /\ At(w, "dispatch")
      /\ pump' = [pump EXCEPT ![w] = [pc |-> "complete", command |-> c]]
      /\ c \in Contents \cup {NoCommand}
  <2>1. UNCHANGED <<claim, followup>> /\ At(w, "dispatch") BY DEF Dispatch, outboxVars
  <2>2. pump[w] \in PumpState BY DEF PumpInv, PumpTypes
  <2>3. pump[w] = [pc |-> "dispatch", command |-> c] /\ c \in Contents \cup {NoCommand}
    BY <2>1, <2>2 DEF PumpState, At
  <2>4. [pump[w] EXCEPT !.pc = "complete"] = [pc |-> "complete", command |-> c] BY <2>3
  <2> QED BY <2>1, <2>3, <2>4 DEF Dispatch, Goto
<1>2. claim[w].held /\ j \in Jobs BY <1>1, HeldClaim DEF PumpInv, PumpTypes, At
<1>3. /\ followup[j] = c /\ followup[j] # NoCommand /\ live[j] = 0
      /\ \A v \in Workers \ {w} : At(v, "dispatch") => claim[v].job # j
  BY <1>1 DEF PumpInv, Delivering
<1>4. \A v \in Workers : claim[v].held => claim[v].job \in Jobs BY HeldClaim
<1>5. \A v \in Workers : At(v, "dispatch") \/ At(v, "complete") => claim[v].held
  BY DEF PumpInv, PumpTypes, At
<1>6. PICK delivered \in {0, 1} : live' = [live EXCEPT ![j] = @ + delivered] BY DEF Dispatch
<1> HIDE DEF j, c
<1>7. /\ pump' \in [Workers -> PumpState]
      /\ pump'[w] = [pc |-> "complete", command |-> c]
      /\ \A v \in Workers \ {w} : pump'[v] = pump[v]
  <2>1. [pc |-> "complete", command |-> c] \in PumpState BY <1>1 DEF PumpState
  <2> QED BY <1>1, <2>1 DEF PumpInv, PumpTypes
<1>8. /\ live' \in [Jobs -> Nat] /\ live'[j] \in {0, 1}
      /\ \A k \in Jobs \ {j} : live'[k] = live[k]
  BY <1>2, <1>3, <1>6 DEF PumpInv, PumpTypes
<1>9. PumpTypes' BY <1>1, <1>2, <1>7, <1>8 DEF PumpInv, PumpTypes, At
<1>10. LiveAtMostOnce' BY <1>1, <1>2, <1>3, <1>8 DEF PumpInv, PumpTypes, LiveAtMostOnce
<1>11. Delivering'
  <2>1. \A u \in Workers : At(u, "dispatch")' =>
           u # w /\ pump'[u] = pump[u] /\ At(u, "dispatch") /\ claim[u].job # j /\ claim[u].job \in Jobs
    BY <1>3, <1>4, <1>5, <1>7 DEF At
  <2> QED BY <2>1, <1>1, <1>8 DEF PumpInv, Delivering
<1>12. Completing'
  <2>1. \A u \in Workers \ {w} : At(u, "complete")' => pump'[u] = pump[u] /\ At(u, "complete")
    BY <1>7 DEF At
  <2>2. pump'[w].command = followup[j] BY <1>3, <1>7
  <2> QED BY <2>1, <2>2, <1>1 DEF PumpInv, Completing, j
<1> QED BY <1>9, <1>10, <1>11, <1>12 DEF PumpInv

\* Steps of others and of time leave a pump with its job.
LEMMA PumpsStay ==
    ASSUME PumpInv, SameJobs(Workers), UNCHANGED <<pump, followup, live>> PROVE PumpInv'
<1>1. \A v \in Workers : At(v, "dispatch") \/ At(v, "complete") => claim[v].held
  BY DEF PumpInv, PumpTypes, At
<1>2. PumpTypes' BY DEF PumpInv, PumpTypes, SameJobs, At
<1>3. Delivering' BY <1>1 DEF PumpInv, Delivering, SameJobs, At
<1>4. Completing' BY <1>1 DEF PumpInv, Completing, SameJobs, At
<1> QED BY <1>2, <1>3, <1>4 DEF PumpInv, LiveAtMostOnce

\* The clock changes the age of a claim and nothing else.
LEMMA TickKeepsJobs == ASSUME OutboxTypeOK, Tick PROVE SameJobs(Workers)
<1> SUFFICES ASSUME NEW w \in Workers
             PROVE  /\ claim'[w].held = claim[w].held
                    /\ claim[w].held => claim'[w].job = claim[w].job
  BY DEF SameJobs
<1>1. claim'[w] = Older(claim[w]) BY DEF Tick
<1>2. CASE ~claim[w].held BY <1>1, <1>2 DEF Older
<1>3. CASE claim[w].held
  <2>1. claim[w] \in Claim BY <1>3, HeldClaim
  <2> QED BY <1>1, <2>1 DEF Older, Claim
<1> QED BY <1>2, <1>3

LEMMA PumpStepInv == OutboxInv /\ PumpInv /\ [Next]_vars => PumpInv'
<1> SUFFICES ASSUME OutboxTypeOK, PumpInv, [Next]_vars PROVE PumpInv' BY DEF OutboxInv
<1>1. CASE UNCHANGED vars
  BY <1>1, PumpsStay DEF vars, outboxVars, pumpVars, SameJobs
<1>2. ASSUME NEW j \in Jobs, Enqueue(j) \/ Cancel(j), UNCHANGED pumpVars PROVE PumpInv'
  BY <1>2, PumpsStay DEF Enqueue, Cancel, pumpVars, SameJobs
<1>3. CASE PumpTick BY <1>3, PumpsStay, TickKeepsJobs DEF PumpTick
<1>4. ASSUME NEW w \in Workers, PumpStep(w) \/ Crash(w) PROVE PumpInv'
  BY <1>4, PumpClaimInv, ExecuteInv, SubmitInv, DispatchInv, PumpSettleInv DEF PumpStep
<1> QED BY <1>1, <1>2, <1>3, <1>4 DEF Next

\* The inductive invariant of the pumps.
THEOREM PumpInvHolds == Spec => []PumpInv
<1>1. Spec => []OutboxInv BY InvHolds, PTL
<1> QED BY <1>1, PumpInit, PumpStepInv, PTL DEF Spec

\* Live subscribers are told of a follow-up at most once, and of a durable one only,
\* however many pumps execute its job and wherever they die (dispatch_world_events).
THEOREM LiveOnce == Spec => []LiveAtMostOnce
<1>1. PumpInv => LiveAtMostOnce BY DEF PumpInv
<1> QED BY <1>1, PumpInvHolds, PTL

\* No pump completes a job before the follow-up of its handler is durable
\* (complete_effect after submit_world_command).
THEOREM FollowupBeforeCompletion == Spec => CompletedAfterCommit
<1>1. ASSUME OutboxInv, PumpInv, [Next]_vars, NEW w \in Workers,
             claim[w].held, job[claim[w].job].status = "running",
             job'[claim[w].job].status = "completed",
             claim[w].attempt = job[claim[w].job].attempt
      PROVE  pump[w].command \in {NoCommand, followup[claim[w].job]}
  <2> DEFINE j == claim[w].job
  <2>1. j \in Jobs /\ job[j] \in Row /\ job \in [Jobs -> Row]
    BY <1>1, HeldClaim DEF OutboxInv, OutboxTypeOK
  <2> HIDE DEF j
  <2>2. ASSUME NEW v \in Workers, NEW status, NEW wait, Settle(v, status, wait),
               job'[j].status = "completed"
        PROVE  v = w /\ status = "completed"
    <3>1. Current(claim[v]) /\ claim[v].job = j /\ claim[v].held
      BY <2>1, <2>2, <1>1 DEF Settle, j
    <3>2. v = w BY <3>1, <1>1 DEF OutboxInv, TokensAreUnique, Current, j
    <3>3. status = "completed" BY <2>1, <2>2, <3>1 DEF Settle, Row
    <3> QED BY <3>2, <3>3
  <2>3. ASSUME NEW v \in Workers, PumpComplete(v) PROVE At(w, "complete")
    BY <2>2, <2>3, <1>1 DEF PumpComplete, Complete, j
  <2>4. ASSUME NEW v \in Workers, PumpCancel(v) \/ PumpRetry(v) PROVE FALSE
    BY <2>2, <2>4, <1>1 DEF PumpCancel, CancelClaimed, PumpRetry, Retry, j
  <2>5. ASSUME NEW v \in Workers, PumpClaim(v) PROVE FALSE
    <3>1. PICK i \in DOMAIN order :
             job' = [job EXCEPT ![order[i]] =
                       [status |-> "running", attempt |-> NextAttempt(order[i]), wait |-> Lease]]
      BY <2>5 DEF PumpClaim, ClaimNext
    <3> QED BY <3>1, <2>1, <1>1 DEF j
  <2>6. ASSUME NEW k \in Jobs, Enqueue(k) \/ Cancel(k) PROVE FALSE
    BY <2>6, <2>1, <1>1 DEF Enqueue, Cancel, j, Row
  <2>7. ASSUME NEW v \in Workers, Execute(v) \/ Submit(v) \/ Dispatch(v) \/ Crash(v) PROVE FALSE
    <3>1. job' = job BY <2>7 DEF Execute, Submit, Dispatch, Crash, Forget, outboxVars
    <3> QED BY <3>1, <1>1
  <2>8. ASSUME PumpTick PROVE FALSE
    <3>1. job'[j] = [job[j] EXCEPT !.wait = Less(@)] BY <2>1, <2>8 DEF PumpTick, Tick
    <3> QED BY <3>1, <2>1, <1>1 DEF Row, j
  <2>9. ASSUME UNCHANGED vars PROVE FALSE BY <2>9, <1>1 DEF vars, outboxVars
  <2>10. ASSUME NEW v \in Workers, PumpStep(v) PROVE At(w, "complete")
    <3>1. CASE PumpComplete(v) BY <2>3, <3>1
    <3>2. CASE PumpCancel(v) \/ PumpRetry(v) BY <2>4, <3>2
    <3>3. CASE PumpClaim(v) BY <2>5, <3>3
    <3>4. CASE Execute(v) \/ Submit(v) \/ Dispatch(v) BY <2>7, <3>4
    <3> QED BY <2>10, <3>1, <3>2, <3>3, <3>4 DEF PumpStep
  <2>11. At(w, "complete")
    <3>1. CASE \E k \in Jobs : (Enqueue(k) \/ Cancel(k)) /\ UNCHANGED pumpVars
      BY <2>6, <3>1
    <3>2. CASE \E v \in Workers : PumpStep(v) \/ Crash(v) BY <2>7, <2>10, <3>2
    <3>3. Next \/ UNCHANGED vars BY <1>1
    <3> QED BY <2>8, <2>9, <3>1, <3>2, <3>3 DEF Next
  <2> QED BY <2>11, <1>1 DEF PumpInv, Completing
<1>2. OutboxInv /\ PumpInv /\ [Next]_vars =>
        [\A w \in Workers :
           /\ claim[w].held
           /\ job[claim[w].job].status = "running"
           /\ job'[claim[w].job].status = "completed"
           /\ claim[w].attempt = job[claim[w].job].attempt
           => pump[w].command \in {NoCommand, followup[claim[w].job]}]_vars
  BY <1>1
<1>3. Spec => []OutboxInv BY InvHolds, PTL
<1> QED BY <1>2, <1>3, PumpInvHolds, PTL DEF Spec, CompletedAfterCommit
=============================================================================
