------------------------ MODULE ServiceRoutingProofs ------------------------
(***************************************************************************)
(* Proofs about ServiceRouting, for any threads, components and contracts: *)
(* the cache, the handles and the revision of the grants never let a call  *)
(* be answered as it would have been before it was made.                   *)
(***************************************************************************)
EXTENDS ServiceRouting, FiniteSetTheorems, TLAPS

-----------------------------------------------------------------------------
(* Resolution.  An answer depends on who asks for which contract, and on   *)
(* the requirements of the caller and the candidates alone.                *)

\* Requests that ask the same.
Alike(r, q) ==
    /\ r.kind = q.kind /\ r.caller = q.caller
    /\ r.contract = q.contract /\ r.executing = q.executing

\* Who has to meet the requirements of a request.
Needed(r) == {r.caller} \union Candidates(r.contract)

Met(r) == {c \in Components : Eligible(c, r.contract)}

LEMMA SelectedSame ==
    ASSUME NEW k, NEW ok, NEW good, Candidates(k) \intersect ok = Candidates(k) \intersect good
    PROVE  Selected(k, ok) = Selected(k, good)
BY DEF Selected

LEMMA BindingSame ==
    ASSUME NEW r, NEW q, r.caller = q.caller, r.contract = q.contract, r.executing = q.executing,
           NEW ok, NEW good, \A c \in Needed(r) : c \in ok <=> c \in good
    PROVE  Binding(r, ok) = Binding(q, good)
<1>1. Selected(r.contract, ok) = Selected(q.contract, good)
  <2>1. Candidates(r.contract) \intersect ok = Candidates(r.contract) \intersect good
    BY DEF Needed
  <2> QED BY <2>1, SelectedSame
<1>2. r.caller \in ok <=> q.caller \in good
    BY DEF Needed
<1>3. Visible(r) = Visible(q)
    BY DEF Visible
<1>4. (Declared(r) <=> Declared(q)) /\ (Defined(r) <=> Defined(q))
    BY <1>3 DEF Declared, Defined
<1> QED BY <1>1, <1>2, <1>4 DEF Binding

LEMMA AnswerSame ==
    ASSUME NEW r, NEW q, Alike(r, q), NEW ok, NEW good, \A c \in Needed(r) : c \in ok <=> c \in good
    PROVE  Answer(r, ok) = Answer(q, good)
<1>1. Binding(r, ok) = Binding(q, good)
    BY BindingSame DEF Alike
<1> QED BY <1>1 DEF Answer, Alike

LEMMA FreshSame == ASSUME NEW r, NEW q, Alike(r, q) PROVE Fresh(r) = Fresh(q)
<1>1. Met(r) = Met(q)
    BY DEF Met, Alike
<1> QED BY <1>1, AnswerSame DEF Fresh, Met

\* What was read of the grants answers like a resolution now when it agrees with them.
LEMMA FreshRead ==
    ASSUME NEW r, NEW ok, ok \subseteq Components,
           \A c \in Needed(r) \intersect Components : c \in ok <=> Eligible(c, r.contract)
    PROVE  Answer(r, ok) = Fresh(r)
<1>1. \A c \in Needed(r) : c \in ok <=> c \in Met(r)
    BY DEF Met
<1>2. Alike(r, r)
    BY DEF Alike
<1> QED BY <1>1, <1>2, AnswerSame DEF Fresh, Met

LEMMA FreshStays ==
    ASSUME UNCHANGED <<topologyVars, grants>>
    PROVE  \A r : Fresh(r)' = Fresh(r)
<1> SUFFICES ASSUME NEW r PROVE Fresh(r)' = Fresh(r)
  OBVIOUS
<1>1. \A k : Candidates(k)' = Candidates(k)
    BY DEF Candidates, topologyVars
<1>2. \A k, ok : Selected(k, ok)' = Selected(k, ok)
    BY <1>1 DEF Selected, topologyVars
<1>3. Visible(r)' = Visible(r)
    BY DEF Visible, topologyVars
<1>4. (Declared(r)' <=> Declared(r)) /\ (Defined(r)' <=> Defined(r))
    BY <1>3 DEF Declared, Defined, topologyVars
<1>5. \A ok : Binding(r, ok)' = Binding(r, ok)
    BY <1>2, <1>4 DEF Binding, topologyVars
<1>6. ASSUME NEW ok PROVE Answer(r, ok)' = Answer(r, ok)
  <2> PICK b : b = Binding(r, ok)
    OBVIOUS
  <2>1. Binding(r, ok)' = b
    BY <1>5
  <2> QED BY <2>1 DEF Answer
<1>7. Met(r)' = Met(r)
    BY DEF Met, Eligible
<1> QED BY <1>6, <1>7 DEF Fresh, Met

\* A refusal names no provider, and what cannot be bound is refused.
LEMMA Refusals ==
    ASSUME NEW r, NEW ok
    PROVE  /\ Answer(r, ok).error # "none" => Answer(r, ok).providers = {}
           /\ Binding(r, ok).error # "none" => Answer(r, ok).error # "none"
           /\ Answer(r, ok).error = "none" => Answer(r, ok) = Binding(r, ok)
<1>1. \A k : Selected(k, ok).error # "none" => Selected(k, ok).providers = {}
    BY DEF Selected, Bound, Refused
<1>2. Binding(r, ok).error # "none" => Binding(r, ok).providers = {}
    BY <1>1 DEF Binding, Bound, Refused
<1> QED BY <1>2 DEF Answer, Refused

-----------------------------------------------------------------------------
(* The invariant.                                                          *)

Fields == {"pc", "kind", "caller", "contract", "handle", "executing", "rev", "unread", "ok", "answer"}

Requested(r) ==
    /\ DOMAIN r = Fields
    /\ r.kind \in {"call", "list", "handle", "platform"}
    /\ r.pc \in {"start", "lookup", "lock", "use", "resolve", "answer"}
    /\ r.pc = "lookup" => r.kind = "call"
    /\ r.pc = "use" => r.kind = "handle"
    /\ r.pc \in {"start", "lock", "resolve"} => r.kind # "handle"
    /\ r.rev \in Nat

Shapes ==
    /\ DOMAIN call = Threads /\ DOMAIN seen = Threads
    /\ policy \in Nat /\ handle_policy \in Nat /\ handle_policy <= policy /\ next_handle \in Nat
    /\ \A t \in Threads : call[t] # Idle => Requested(call[t]) /\ call[t].rev <= policy

\* Whoever resolves holds the lock, and a listing has brought the handles to the
\* revision it read.
Locks ==
    \A t \in Threads : At(t, "resolve") =>
        /\ IF call[t].kind = "platform" THEN t \in readers ELSE writer = t
        /\ call[t].kind = "list" => handle_policy = call[t].rev

\* While the revision holds, what was read of the grants is what they are.
Reads ==
    \A t \in Threads : At(t, "resolve") =>
        /\ call[t].unread \subseteq Components /\ call[t].ok \subseteq Components \ call[t].unread
        /\ call[t].rev = policy =>
              \A c \in (Needed(call[t]) \intersect Components) \ call[t].unread :
                  c \in call[t].ok <=> Eligible(c, call[t].contract)

\* What a resolution would answer now is a right answer.
Witnessed == \A t \in Threads : call[t] # Idle => Fresh(call[t]) \in seen[t]

FreshFor(kind, key) ==
    Fresh([kind |-> kind, caller |-> key.caller, contract |-> key.contract, executing |-> key.executing])

\* A route cached under the present revision is right now; one that a request under
\* way would hit was right at some instant since.
Cached ==
    \A e \in route_cache :
        /\ e.policy = policy => e.answer = FreshFor("call", e.key)
        /\ e.policy \in Nat /\ e.policy <= policy
        /\ \A t \in Threads :
              /\ call[t] # Idle /\ call[t].kind = "call"
              /\ e.policy = call[t].rev /\ e.key = RouteKey(call[t])
              => e.answer \in seen[t]

\* Numbers are given out once, and a request presents one that was.
Issued ==
    /\ provider_handles \subseteq issued
    /\ \A i \in issued : i.handle \in Nat /\ i.handle <= next_handle
    /\ \A b, d \in issued : b.handle = d.handle => b.key = d.key
    /\ \A t \in Threads : call[t] # Idle /\ call[t].kind = "handle" =>
          \E i \in issued : i.handle = call[t].handle /\ i.key.contract = call[t].contract

AsksFor(r, key) == key.caller = r.caller /\ key.contract = r.contract /\ key.executing = r.executing

\* The same of handles as of cached routes.
Handled ==
    \A b \in provider_handles :
        /\ handle_policy = policy => b.key.provider \in FreshFor("handle", b.key).providers
        /\ \A t \in Threads :
              /\ call[t] # Idle /\ call[t].kind = "handle"
              /\ handle_policy = call[t].rev /\ AsksFor(call[t], b.key)
              => \E s \in seen[t] : b.key.provider \in s.providers

\* What is asked of an answer by RoutesAreFresh and HandlesAreFresh.
Right(r, right) ==
    /\ r.kind = "call" => r.answer \in right
    /\ r.answer.error = "none" =>
          /\ r.kind \in {"list", "platform"} => r.answer \in right
          /\ r.kind = "handle" => \E s \in right : r.answer.providers \subseteq s.providers

Answers == \A t \in Threads : At(t, "answer") => Right(call[t], seen[t])

RoutingInv ==
    Shapes /\ Locks /\ Reads /\ Witnessed /\ Cached /\ Issued /\ Handled /\ Answers

LEMMA Meaning == RoutingInv => RoutesAreFresh /\ HandlesAreFresh
<1> SUFFICES ASSUME RoutingInv PROVE RoutesAreFresh /\ HandlesAreFresh
  OBVIOUS
<1>1. \A t \in Threads : At(t, "answer") =>
          call[t].kind \in {"call", "list", "handle", "platform"} /\ Right(call[t], seen[t])
    BY DEF RoutingInv, Answers, Shapes, Requested, At, Idle
<1>2. RoutesAreFresh
    BY <1>1 DEF Right, RoutesAreFresh
<1>3. HandlesAreFresh
    BY <1>1 DEF Right, HandlesAreFresh, RoutingInv, Issued
<1> QED BY <1>2, <1>3

LEMMA InitInv == Init => RoutingInv
<1> SUFFICES ASSUME Init PROVE RoutingInv
  OBVIOUS
<1>1. /\ DOMAIN call = Threads /\ DOMAIN seen = Threads /\ \A t \in Threads : call[t] = Idle
      /\ route_cache = {} /\ provider_handles = {} /\ issued = {}
      /\ policy = 0 /\ handle_policy = 0 /\ next_handle = 0
    BY DEF Init
<1>2. \A t \in Threads : ~At(t, "resolve") /\ ~At(t, "answer")
    BY <1>1 DEF At, Idle
<1> QED BY <1>1, <1>2 DEF RoutingInv, Shapes, Locks, Reads, Witnessed, Cached, Issued, Handled, Answers

-----------------------------------------------------------------------------
(* Steps of one thread, from call[t] to r, that leave topology and grants  *)
(* alone: what is asked stays, the revision stays or is read again.        *)

Step(t, r) ==
    /\ call[t] # Idle /\ call' = [call EXCEPT ![t] = r]
    /\ Requested(r) /\ Alike(r, call[t]) /\ r.handle = call[t].handle
    /\ r.rev \in {call[t].rev, policy}
    /\ UNCHANGED <<topologyVars, policyVars, seen>>

LEMMA StepFacts ==
    ASSUME RoutingInv, NEW t \in Threads, NEW r, Step(t, r)
    PROVE  /\ r # Idle /\ call'[t] = r
           /\ \A u \in Threads \ {t} : call'[u] = call[u]
           /\ DOMAIN call' = Threads
           /\ Fresh(r) \in seen[t]
           /\ \A q : Fresh(q)' = Fresh(q)
<1>1. r # Idle
    BY DEF Step, Requested, Idle
<1>2. \A q : Fresh(q)' = Fresh(q)
    BY FreshStays DEF Step, policyVars
<1>3. Fresh(r) = Fresh(call[t])
    BY FreshSame DEF Step
<1> QED BY <1>1, <1>2, <1>3 DEF Step, RoutingInv, Shapes, Witnessed

LEMMA StepShapes ==
    ASSUME RoutingInv, NEW t \in Threads, NEW r, Step(t, r),
           handle_policy' \in Nat, handle_policy' <= policy, next_handle' \in Nat
    PROVE  Shapes' /\ Witnessed'
<1>1. Shapes'
    BY StepFacts DEF Step, RoutingInv, Shapes, policyVars
<1>2. ASSUME NEW u \in Threads, call'[u] # Idle PROVE Fresh(call[u])' \in seen[u]
  <2> PICK q : q = call'[u]
    OBVIOUS
  <2>1. Fresh(q) \in seen[u]
    BY <1>2, StepFacts DEF RoutingInv, Witnessed
  <2>2. Fresh(q)' = Fresh(q)
    BY StepFacts
  <2> QED BY <2>1, <2>2
<1>3. seen' = seen
    BY DEF Step
<1>4. Witnessed'
    BY <1>2, <1>3 DEF Witnessed, Idle
<1> QED BY <1>1, <1>4

\* The locks of the others stay with them.
LEMMA StepLocks ==
    ASSUME RoutingInv, NEW t \in Threads, NEW r, Step(t, r), UNCHANGED handle_policy,
           \A u \in Threads \ {t} : (writer = u => writer' = u) /\ (u \in readers => u \in readers'),
           r.pc = "resolve" => /\ IF r.kind = "platform" THEN t \in readers' ELSE writer' = t
                               /\ r.kind = "list" => handle_policy = r.rev
    PROVE  Locks'
BY StepFacts DEF Step, RoutingInv, Locks, At

LEMMA StepReads ==
    ASSUME RoutingInv, NEW t \in Threads, NEW r, Step(t, r),
           r.pc = "resolve" =>
               /\ r.unread \subseteq Components /\ r.ok \subseteq Components \ r.unread
               /\ r.rev = policy =>
                     \A c \in (Needed(r) \intersect Components) \ r.unread :
                         c \in r.ok <=> Eligible(c, r.contract)
    PROVE  Reads'
<1>1. \A q : Needed(q)' = Needed(q)
    BY DEF Step, Needed, Candidates, topologyVars
<1>2. \A c, k : Eligible(c, k)' <=> Eligible(c, k)
    BY DEF Step, Eligible, policyVars
<1> QED BY <1>1, <1>2, StepFacts DEF Step, RoutingInv, Reads, At, policyVars

LEMMA FreshForRoute ==
    ASSUME NEW r, r.kind = "call"
    PROVE  FreshFor("call", RouteKey(r)) = Fresh(r)
<1> DEFINE q == [kind |-> "call", caller |-> RouteKey(r).caller, contract |-> RouteKey(r).contract,
                 executing |-> RouteKey(r).executing]
<1>1. Alike(q, r)
    BY DEF Alike, RouteKey
<1> HIDE DEF q
<1>2. Fresh(q) = Fresh(r)
    BY <1>1, FreshSame
<1> QED BY <1>2 DEF FreshFor, q

LEMMA FreshForHandle ==
    ASSUME NEW r, r.kind = "handle", NEW key, AsksFor(r, key)
    PROVE  FreshFor("handle", key) = Fresh(r)
<1> DEFINE q == [kind |-> "handle", caller |-> key.caller, contract |-> key.contract,
                 executing |-> key.executing]
<1>1. Alike(q, r)
    BY DEF Alike, AsksFor
<1> HIDE DEF q
<1>2. Fresh(q) = Fresh(r)
    BY <1>1, FreshSame
<1> QED BY <1>2 DEF FreshFor, q

LEMMA FreshForStays ==
    ASSUME UNCHANGED <<topologyVars, grants>>
    PROVE  \A kind, key : FreshFor(kind, key)' = FreshFor(kind, key)
<1>1. ASSUME NEW kind, NEW key PROVE FreshFor(kind, key)' = FreshFor(kind, key)
  <2> DEFINE q == [kind |-> kind, caller |-> key.caller, contract |-> key.contract,
                   executing |-> key.executing]
  <2>1. Fresh(q)' = Fresh(q)
      BY FreshStays
  <2> QED BY <2>1 DEF FreshFor
<1> QED BY <1>1

\* A request goes on with a route that is right for it.
LEMMA StepRoute ==
    ASSUME RoutingInv, NEW t \in Threads, NEW r, Step(t, r), NEW e \in route_cache,
           r.kind = "call", e.policy = r.rev, e.key = RouteKey(r)
    PROVE  e.answer \in seen[t]
<1>1. call[t].kind = "call" /\ RouteKey(call[t]) = RouteKey(r) /\ call[t] # Idle
    BY DEF Step, Alike, RouteKey
<1>2. CASE r.rev = call[t].rev
    BY <1>1, <1>2 DEF RoutingInv, Cached
<1>3. CASE r.rev = policy
  <2>1. e.answer = Fresh(r)
    BY <1>3, FreshForRoute DEF RoutingInv, Cached
  <2> QED BY <2>1, StepFacts
<1> QED BY <1>2, <1>3 DEF Step

\* Only routes that are right now are added.
RoutesGrow ==
    \A e \in route_cache' : \/ e \in route_cache
                            \/ e.policy = policy /\ e.answer = FreshFor("call", e.key)

LEMMA StepCached ==
    ASSUME RoutingInv, NEW t \in Threads, NEW r, Step(t, r),
           RoutesGrow
    PROVE  Cached'
<1>1. \A kind, key : FreshFor(kind, key)' = FreshFor(kind, key)
    BY FreshForStays DEF Step, policyVars
<1> SUFFICES ASSUME NEW e \in route_cache'
             PROVE  /\ e.policy = policy => e.answer = FreshFor("call", e.key)
                    /\ e.policy \in Nat /\ e.policy <= policy
                    /\ \A u \in Threads :
                          /\ call'[u] # Idle /\ call'[u].kind = "call"
                          /\ e.policy = call'[u].rev /\ e.key = RouteKey(call'[u])
                          => e.answer \in seen[u]
  BY <1>1 DEF Cached, Step, policyVars, RouteKey, Idle
<1>2. e \in route_cache \/ (e.policy = policy /\ e.answer = FreshFor("call", e.key))
    BY DEF RoutesGrow
<1>3. CASE e \in route_cache
  <2>1. ASSUME NEW u \in Threads, call'[u] # Idle, call'[u].kind = "call",
               e.policy = call'[u].rev, e.key = RouteKey(call'[u])
        PROVE  e.answer \in seen[u]
    <3>1. CASE u = t
      BY <1>3, <2>1, <3>1, StepFacts, StepRoute
    <3>2. CASE u # t
      BY <1>3, <2>1, <3>2, StepFacts DEF RoutingInv, Cached
    <3> QED BY <3>1, <3>2
  <2> QED BY <1>3, <2>1 DEF RoutingInv, Cached
<1>4. CASE e.policy = policy /\ e.answer = FreshFor("call", e.key)
  <2>1. ASSUME NEW u \in Threads, call'[u] # Idle, call'[u].kind = "call", e.key = RouteKey(call'[u])
        PROVE  e.answer \in seen[u]
    <3> PICK q : q = call'[u]
      OBVIOUS
    <3>1. Fresh(q) \in seen[u]
      BY <2>1, StepFacts DEF RoutingInv, Witnessed
    <3>2. e.answer = Fresh(q)
      BY <1>4, <2>1, FreshForRoute
    <3> QED BY <3>1, <3>2
  <2> QED BY <1>4, <2>1 DEF RoutingInv, Shapes
<1> QED BY <1>3, <1>4, <1>2

\* A request goes on with the handle that is right for it.
LEMMA StepHandle ==
    ASSUME RoutingInv, NEW t \in Threads, NEW r, Step(t, r), NEW b \in provider_handles,
           r.kind = "handle", handle_policy = r.rev, AsksFor(r, b.key)
    PROVE  \E s \in seen[t] : b.key.provider \in s.providers
<1>1. call[t].kind = "handle" /\ AsksFor(call[t], b.key) /\ call[t] # Idle
    BY DEF Step, Alike, AsksFor
<1>2. CASE r.rev = call[t].rev
    BY <1>1, <1>2 DEF RoutingInv, Handled
<1>3. CASE r.rev = policy
  <2>1. b.key.provider \in Fresh(r).providers
    BY <1>3, FreshForHandle DEF RoutingInv, Handled
  <2> QED BY <2>1, StepFacts
<1> QED BY <1>2, <1>3 DEF Step

\* Only handles that are right now are added.
HandlesGrow ==
    \A b \in provider_handles' : \/ b \in provider_handles
                                 \/ b.key.provider \in FreshFor("handle", b.key).providers

LEMMA StepHandled ==
    ASSUME RoutingInv, NEW t \in Threads, NEW r, Step(t, r), UNCHANGED handle_policy,
           HandlesGrow
    PROVE  Handled'
<1>1. \A kind, key : FreshFor(kind, key)' = FreshFor(kind, key)
    BY FreshForStays DEF Step, policyVars
<1> SUFFICES ASSUME NEW b \in provider_handles'
             PROVE  /\ handle_policy = policy => b.key.provider \in FreshFor("handle", b.key).providers
                    /\ \A u \in Threads :
                          /\ call'[u] # Idle /\ call'[u].kind = "handle"
                          /\ handle_policy = call'[u].rev /\ AsksFor(call'[u], b.key)
                          => \E s \in seen[u] : b.key.provider \in s.providers
  BY <1>1 DEF Handled, Step, policyVars, AsksFor, Idle
<1>2. CASE b \in provider_handles
  <2>1. ASSUME NEW u \in Threads, call'[u] # Idle, call'[u].kind = "handle",
               handle_policy = call'[u].rev, AsksFor(call'[u], b.key)
        PROVE  \E s \in seen[u] : b.key.provider \in s.providers
    <3>1. CASE u = t
      BY <1>2, <2>1, <3>1, StepFacts, StepHandle
    <3>2. CASE u # t
      BY <1>2, <2>1, <3>2, StepFacts DEF RoutingInv, Handled
    <3> QED BY <3>1, <3>2
  <2> QED BY <1>2, <2>1 DEF RoutingInv, Handled
<1>3. b \in provider_handles \/ b.key.provider \in FreshFor("handle", b.key).providers
    BY DEF HandlesGrow
<1>4. CASE b.key.provider \in FreshFor("handle", b.key).providers
  <2>1. ASSUME NEW u \in Threads, call'[u] # Idle, call'[u].kind = "handle", AsksFor(call'[u], b.key)
        PROVE  \E s \in seen[u] : b.key.provider \in s.providers
    <3> PICK q : q = call'[u]
      OBVIOUS
    <3>1. Fresh(q) \in seen[u]
      BY <2>1, StepFacts DEF RoutingInv, Witnessed
    <3>2. FreshFor("handle", b.key) = Fresh(q)
      BY <2>1, FreshForHandle
    <3> QED BY <1>4, <3>1, <3>2
  <2> QED BY <1>4, <2>1
<1> QED BY <1>2, <1>4, <1>3

LEMMA StepIssued ==
    ASSUME RoutingInv, NEW t \in Threads, NEW r, Step(t, r),
           issued \subseteq issued', provider_handles' \subseteq issued',
           \A i \in issued' : i.handle \in Nat /\ i.handle <= next_handle',
           \A b, d \in issued' : b.handle = d.handle => b.key = d.key
    PROVE  Issued'
<1>1. ASSUME NEW u \in Threads, call'[u] # Idle, call'[u].kind = "handle"
      PROVE  \E i \in issued : i.handle = call'[u].handle /\ i.key.contract = call'[u].contract
  <2>1. CASE u = t
    <3>1. call[t].kind = "handle" /\ call[t] # Idle /\ r.handle = call[t].handle /\ r.contract = call[t].contract
      BY <1>1, <2>1, StepFacts DEF Step, Alike
    <3> QED BY <2>1, <3>1, StepFacts DEF RoutingInv, Issued
  <2>2. CASE u # t
    BY <2>2, <1>1, StepFacts DEF RoutingInv, Issued
  <2> QED BY <2>1, <2>2
<1> QED BY <1>1 DEF RoutingInv, Issued, Idle

LEMMA StepAnswers ==
    ASSUME RoutingInv, NEW t \in Threads, NEW r, Step(t, r), r.pc = "answer" => Right(r, seen[t])
    PROVE  Answers'
BY StepFacts DEF Step, RoutingInv, Answers, At

\* What a step of a thread has to establish of its lock, what it read and its answer.
LEMMA StepInv ==
    ASSUME RoutingInv, NEW t \in Threads, NEW r, Step(t, r), UNCHANGED tableVars,
           \A u \in Threads \ {t} : (writer = u => writer' = u) /\ (u \in readers => u \in readers'),
           r.pc = "resolve" =>
               /\ IF r.kind = "platform" THEN t \in readers' ELSE writer' = t
               /\ r.kind = "list" => handle_policy = r.rev
               /\ r.unread \subseteq Components /\ r.ok \subseteq Components \ r.unread
               /\ r.rev = policy =>
                     \A c \in (Needed(r) \intersect Components) \ r.unread :
                         c \in r.ok <=> Eligible(c, r.contract),
           r.pc = "answer" => Right(r, seen[t])
    PROVE  RoutingInv'
<1>1. UNCHANGED <<route_cache, provider_handles, handle_policy, next_handle, issued>>
    BY DEF tableVars
<1>2. Shapes' /\ Witnessed'
  <2>1. handle_policy' \in Nat /\ handle_policy' <= policy /\ next_handle' \in Nat
    BY <1>1 DEF RoutingInv, Shapes
  <2> QED BY <2>1, StepShapes
<1>3. RoutesGrow
    BY <1>1 DEF RoutesGrow
<1>4. HandlesGrow
    BY <1>1 DEF HandlesGrow
<1>5. Cached'
    BY <1>3, StepCached
<1>6. Handled'
    BY <1>1, <1>4, StepHandled
<1>7. Issued'
    BY <1>1, StepIssued DEF RoutingInv, Issued
<1>8. Locks' /\ Reads' /\ Answers'
    BY <1>1, StepLocks, StepReads, StepAnswers
<1> QED BY <1>2, <1>8, <1>7, <1>5, <1>6 DEF RoutingInv

LEMMA UnderWay ==
    ASSUME RoutingInv, NEW t \in Threads, NEW pc, At(t, pc), pc # "idle"
    PROVE  call[t] # Idle /\ call[t].pc = pc /\ Requested(call[t]) /\ call[t].rev <= policy
BY DEF RoutingInv, Shapes, At, Idle

\* An answer is given, without a lock, or from a resolution that gives it up.
LEMMA AnsweredInv ==
    ASSUME RoutingInv, NEW t \in Threads, NEW a, call[t] # Idle, Update(t, Answered(t, a)),
           UNCHANGED <<topologyVars, tableVars, policyVars, seen>>,
           \A u \in Threads \ {t} : (writer = u => writer' = u) /\ (u \in readers => u \in readers'),
           \A r : r.kind = call[t].kind /\ r.answer = a => Right(r, seen[t])
    PROVE  RoutingInv'
<1> DEFINE r == Answered(t, a)
<1>1. Requested(call[t])
    BY DEF RoutingInv, Shapes
<1>2. /\ DOMAIN r = Fields /\ r.pc = "answer" /\ r.answer = a
      /\ r.kind = call[t].kind /\ r.caller = call[t].caller /\ r.contract = call[t].contract
      /\ r.executing = call[t].executing /\ r.handle = call[t].handle /\ r.rev = call[t].rev
    BY <1>1 DEF Requested, Fields, Answered
<1> HIDE DEF r
<1>3. Step(t, r)
    BY <1>1, <1>2 DEF Step, Requested, Alike, Update, r
<1> QED BY <1>2, <1>3, StepInv

LEMMA ReadRevisionInv == ASSUME RoutingInv, NEW t \in Threads, ReadRevision(t) PROVE RoutingInv'
<1> DEFINE r == [call[t] EXCEPT !.rev = policy, !.pc = FirstLock(call[t].kind)]
<1>1. call[t] # Idle /\ call[t].pc = "start" /\ Requested(call[t]) /\ policy \in Nat
    BY UnderWay DEF ReadRevision, RoutingInv, Shapes
<1>2. /\ DOMAIN r = Fields /\ r.pc = FirstLock(call[t].kind) /\ r.rev = policy
      /\ r.kind = call[t].kind /\ r.caller = call[t].caller /\ r.contract = call[t].contract
      /\ r.executing = call[t].executing /\ r.handle = call[t].handle
    BY <1>1 DEF Requested, Fields
<1>3. call' = [call EXCEPT ![t] = r]
    BY DEF ReadRevision, Update
<1> HIDE DEF r
<1>4. r.pc = IF r.kind = "call" THEN "lookup" ELSE "lock"
    BY <1>1, <1>2 DEF Requested, FirstLock
<1>5. Step(t, r)
    BY <1>1, <1>2, <1>3, <1>4 DEF Step, Requested, Alike, ReadRevision
<1> QED BY <1>4, <1>5, StepInv DEF ReadRevision

LEMMA LookUpInv == ASSUME RoutingInv, NEW t \in Threads, LookUp(t) PROVE RoutingInv'
<1>1. call[t] # Idle /\ call[t].pc = "lookup" /\ Requested(call[t]) /\ call[t].kind = "call"
    BY UnderWay DEF LookUp, Requested
<1>2. CASE Hits(call[t], call[t].rev) = {}
  <2> DEFINE r == [call[t] EXCEPT !.pc = "lock"]
  <2>1. /\ DOMAIN r = Fields /\ r.pc = "lock" /\ r.rev = call[t].rev
        /\ r.kind = call[t].kind /\ r.caller = call[t].caller /\ r.contract = call[t].contract
        /\ r.executing = call[t].executing /\ r.handle = call[t].handle
    BY <1>1 DEF Requested, Fields
  <2>2. call' = [call EXCEPT ![t] = r]
    BY <1>2 DEF LookUp, Goto, Update
  <2> HIDE DEF r
  <2>3. Step(t, r)
    BY <1>1, <2>1, <2>2 DEF Step, Requested, Alike, LookUp
  <2> QED BY <2>1, <2>3, StepInv DEF LookUp
<1>3. CASE Hits(call[t], call[t].rev) # {}
  <2>1. PICK e \in Hits(call[t], call[t].rev) : Update(t, Answered(t, e.answer))
    BY <1>3 DEF LookUp
  <2>2. e.answer \in seen[t]
    BY <1>1 DEF Hits, RoutingInv, Cached
  <2>3. \A r : r.kind = call[t].kind /\ r.answer = e.answer => Right(r, seen[t])
    BY <1>1, <2>2 DEF Right
  <2> QED BY <1>1, <2>1, <2>3, AnsweredInv DEF LookUp
<1> QED BY <1>2, <1>3

\* A resolution begins, with everything still to be read.
LEMMA ResolvingFacts ==
    ASSUME NEW t \in Threads, Requested(call[t]), NEW rev \in Nat, call[t].kind # "handle"
    PROVE  LET r == Resolving(t, rev) IN
           /\ Requested(r) /\ Alike(r, call[t]) /\ r.handle = call[t].handle /\ r.rev = rev
           /\ r.pc = "resolve"
           /\ r.unread \subseteq Components /\ r.ok \subseteq Components \ r.unread
           /\ \A c \in (Needed(r) \intersect Components) \ r.unread :
                  c \in r.ok <=> Eligible(c, r.contract)
<1> DEFINE r == Resolving(t, rev)
<1>1. /\ DOMAIN r = Fields /\ r.pc = "resolve" /\ r.rev = rev
      /\ r.kind = call[t].kind /\ r.caller = call[t].caller /\ r.contract = call[t].contract
      /\ r.executing = call[t].executing /\ r.handle = call[t].handle
      /\ r.unread = Consulted(call[t]) /\ r.ok = Components \ Consulted(call[t])
    BY DEF Resolving, Requested, Fields
<1> HIDE DEF r
<1>2. Consulted(call[t]) \subseteq Components
    BY RoutingAssumption DEF Consulted
<1>3. ASSUME NEW c \in Components, c \in Needed(r), c \notin r.unread PROVE Eligible(c, r.contract)
    BY <1>1, <1>3 DEF Needed, Consulted, Eligible
<1> QED BY <1>1, <1>2, <1>3 DEF r, Requested, Alike

LEMMA LockForCallInv == ASSUME RoutingInv, NEW t \in Threads, LockForCall(t) PROVE RoutingInv'
<1>1. /\ call[t] # Idle /\ call[t].pc = "lock" /\ Requested(call[t]) /\ call[t].kind = "call"
      /\ policy \in Nat
    BY UnderWay DEF LockForCall, RoutingInv, Shapes
<1>2. \A u \in Threads : writer # u /\ u \notin readers
    BY RoutingAssumption DEF LockForCall
<1>3. CASE Hits(call[t], policy) = {}
  <2> DEFINE r == Resolving(t, policy)
  <2>1. writer' = t /\ Update(t, r)
    BY <1>3 DEF LockForCall
  <2>2. /\ Requested(r) /\ Alike(r, call[t]) /\ r.handle = call[t].handle /\ r.rev = policy
        /\ r.pc = "resolve"
        /\ r.unread \subseteq Components /\ r.ok \subseteq Components \ r.unread
        /\ \A c \in (Needed(r) \intersect Components) \ r.unread :
               c \in r.ok <=> Eligible(c, r.contract)
    BY <1>1, ResolvingFacts
  <2> HIDE DEF r
  <2>3. Step(t, r)
    BY <1>1, <2>1, <2>2 DEF Step, Update, LockForCall
  <2>4. r.kind = "call"
    BY <1>1, <2>2 DEF Alike
  <2> QED BY <1>2, <2>1, <2>2, <2>3, <2>4, StepInv DEF LockForCall
<1>4. CASE Hits(call[t], policy) # {}
  <2>1. PICK e \in Hits(call[t], policy) : Update(t, Answered(t, e.answer)) /\ UNCHANGED writer
    BY <1>4 DEF LockForCall
  <2>2. e \in route_cache /\ e.policy = policy /\ e.key = RouteKey(call[t])
    BY DEF Hits
  <2>3. e.answer = Fresh(call[t])
    BY <1>1, <2>2, FreshForRoute DEF RoutingInv, Cached
  <2>4. e.answer \in seen[t]
    BY <1>1, <2>3 DEF RoutingInv, Witnessed
  <2>5. \A r : r.kind = call[t].kind /\ r.answer = e.answer => Right(r, seen[t])
    BY <1>1, <2>4 DEF Right
  <2> QED BY <1>1, <2>1, <2>5, AnsweredInv DEF LockForCall
<1> QED BY <1>3, <1>4

LEMMA LockForPlatformInv == ASSUME RoutingInv, NEW t \in Threads, LockForPlatform(t) PROVE RoutingInv'
<1> DEFINE r == Resolving(t, call[t].rev)
<1>1. /\ call[t] # Idle /\ Requested(call[t]) /\ call[t].kind = "platform" /\ call[t].rev \in Nat
    BY UnderWay DEF LockForPlatform, Requested
<1>2. /\ Requested(r) /\ Alike(r, call[t]) /\ r.handle = call[t].handle /\ r.rev = call[t].rev
      /\ r.pc = "resolve"
      /\ r.unread \subseteq Components /\ r.ok \subseteq Components \ r.unread
      /\ \A c \in (Needed(r) \intersect Components) \ r.unread :
             c \in r.ok <=> Eligible(c, r.contract)
    BY <1>1, ResolvingFacts
<1>3. Update(t, r)
    BY DEF LockForPlatform
<1> HIDE DEF r
<1>4. Step(t, r)
    BY <1>1, <1>2, <1>3 DEF Step, Update, LockForPlatform
<1>5. r.kind = "platform"
    BY <1>1, <1>2 DEF Alike
<1> QED BY <1>2, <1>4, <1>5, StepInv DEF LockForPlatform

LEMMA ReadGrantInv == ASSUME RoutingInv, NEW t \in Threads, ReadGrant(t) PROVE RoutingInv'
<1>1. PICK c \in call[t].unread :
          Update(t, [call[t] EXCEPT !.unread = @ \ {c},
                        !.ok = IF Eligible(c, call[t].contract) THEN @ \union {c} ELSE @])
    BY DEF ReadGrant
<1> DEFINE r == [call[t] EXCEPT !.unread = @ \ {c},
                        !.ok = IF Eligible(c, call[t].contract) THEN @ \union {c} ELSE @]
<1>2. call[t] # Idle /\ call[t].pc = "resolve" /\ Requested(call[t])
    BY UnderWay DEF ReadGrant
<1>3. /\ DOMAIN r = Fields /\ r.pc = "resolve" /\ r.rev = call[t].rev
      /\ r.kind = call[t].kind /\ r.caller = call[t].caller /\ r.contract = call[t].contract
      /\ r.executing = call[t].executing /\ r.handle = call[t].handle
      /\ r.unread = call[t].unread \ {c}
      /\ r.ok = IF Eligible(c, call[t].contract) THEN call[t].ok \union {c} ELSE call[t].ok
    BY <1>2 DEF Requested, Fields
<1>4. call' = [call EXCEPT ![t] = r]
    BY <1>1 DEF Update
<1> HIDE DEF r
<1>5. Step(t, r)
    BY <1>2, <1>3, <1>4 DEF Step, Requested, Alike, ReadGrant
<1>6. /\ IF r.kind = "platform" THEN t \in readers ELSE writer = t
      /\ r.kind = "list" => handle_policy = r.rev
    BY <1>2, <1>3 DEF RoutingInv, Locks, At
<1>7. /\ call[t].unread \subseteq Components /\ call[t].ok \subseteq Components \ call[t].unread
      /\ call[t].rev = policy =>
            \A d \in (Needed(call[t]) \intersect Components) \ call[t].unread :
                d \in call[t].ok <=> Eligible(d, call[t].contract)
    BY <1>2 DEF RoutingInv, Reads, At
<1>8. Needed(r) = Needed(call[t])
    BY <1>3 DEF Needed
<1>9. /\ r.unread \subseteq Components /\ r.ok \subseteq Components \ r.unread
      /\ r.rev = policy =>
            \A d \in (Needed(r) \intersect Components) \ r.unread :
                d \in r.ok <=> Eligible(d, r.contract)
    BY <1>3, <1>7, <1>8
<1> QED BY <1>3, <1>5, <1>6, <1>9, StepInv DEF ReadGrant

LEMMA ResolveAgainInv == ASSUME RoutingInv, NEW t \in Threads, ResolveAgain(t) PROVE RoutingInv'
<1> DEFINE r == [call[t] EXCEPT !.pc = "start"]
<1>1. call[t] # Idle /\ call[t].pc = "resolve" /\ Requested(call[t])
    BY UnderWay DEF ResolveAgain, Resolved
<1>2. /\ DOMAIN r = Fields /\ r.pc = "start" /\ r.rev = call[t].rev
      /\ r.kind = call[t].kind /\ r.caller = call[t].caller /\ r.contract = call[t].contract
      /\ r.executing = call[t].executing /\ r.handle = call[t].handle
    BY <1>1 DEF Requested, Fields
<1>3. call' = [call EXCEPT ![t] = r]
    BY DEF ResolveAgain, Goto, Update
<1> HIDE DEF r
<1>4. Step(t, r)
    BY <1>1, <1>2, <1>3 DEF Step, Requested, Alike, ResolveAgain
<1> QED BY <1>2, <1>4, StepInv DEF ResolveAgain, Unlock

\* What is resolved under a revision that held is what a resolution answers now.
LEMMA ResolvedIsFresh ==
    ASSUME RoutingInv, NEW t \in Threads, Resolved(t), PolicyHeld(t)
    PROVE  Answer(call[t], call[t].ok) = Fresh(call[t]) /\ Fresh(call[t]) \in seen[t]
<1>1. call[t] # Idle /\ call[t].pc = "resolve" /\ call[t].unread = {}
    BY UnderWay DEF Resolved
<1>2. /\ call[t].ok \subseteq Components
      /\ \A c \in Needed(call[t]) \intersect Components :
            c \in call[t].ok <=> Eligible(c, call[t].contract)
    BY <1>1 DEF RoutingInv, Reads, At, PolicyHeld
<1> QED BY <1>1, <1>2, FreshRead DEF RoutingInv, Witnessed

LEMMA ResolvePlatformInv == ASSUME RoutingInv, NEW t \in Threads, ResolvePlatform(t) PROVE RoutingInv'
<1> DEFINE a == Answer(call[t], call[t].ok)
<1>1. call[t] # Idle /\ call[t].kind = "platform"
    BY UnderWay DEF ResolvePlatform, Resolved
<1>2. a.error # "none" \/ a \in seen[t]
  <2>1. CASE GivesUp(t)
    BY <2>1, Refusals DEF GivesUp
  <2>2. CASE PolicyHeld(t)
    BY <2>2, ResolvedIsFresh DEF ResolvePlatform
  <2> QED BY <2>1, <2>2 DEF ResolvePlatform
<1>3. Update(t, Answered(t, a))
    BY DEF ResolvePlatform
<1> HIDE DEF a
<1>4. \A r : r.kind = call[t].kind /\ r.answer = a => Right(r, seen[t])
    BY <1>1, <1>2 DEF Right
<1> QED BY <1>1, <1>3, <1>4, AnsweredInv DEF ResolvePlatform, Unlock

LEMMA UseHandleInv == ASSUME RoutingInv, NEW t \in Threads, UseHandle(t) PROVE RoutingInv'
<1>1. call[t] # Idle /\ Requested(call[t]) /\ call[t].kind = "handle"
    BY UnderWay DEF UseHandle, Requested
<1>2. CASE handle_policy # call[t].rev \/ BindingsOf(call[t]) = {}
  <2>1. \A r : r.kind = call[t].kind /\ r.answer = Refused("unavailable") => Right(r, seen[t])
    BY <1>1 DEF Right, Refused
  <2> QED BY <1>1, <1>2, <2>1, AnsweredInv DEF UseHandle
<1>3. CASE ~(handle_policy # call[t].rev \/ BindingsOf(call[t]) = {})
  <2>1. PICK b \in BindingsOf(call[t]) : Update(t, Answered(t, Bound({b.key.provider})))
    BY <1>3 DEF UseHandle
  <2>2. /\ b \in provider_handles /\ b.handle = call[t].handle
        /\ b.key.caller = call[t].caller /\ b.key.executing = call[t].executing
    BY DEF BindingsOf
  <2>3. PICK i \in issued : i.handle = call[t].handle /\ i.key.contract = call[t].contract
    BY <1>1 DEF RoutingInv, Issued
  <2>4. b.key = i.key
    BY <2>2, <2>3 DEF RoutingInv, Issued
  <2>5. AsksFor(call[t], b.key)
    BY <2>2, <2>3, <2>4 DEF AsksFor
  <2>6. PICK s \in seen[t] : b.key.provider \in s.providers
    BY <1>1, <1>3, <2>2, <2>5 DEF RoutingInv, Handled
  <2>7. \A r : r.kind = call[t].kind /\ r.answer = Bound({b.key.provider}) => Right(r, seen[t])
    BY <1>1, <2>6 DEF Right, Bound
  <2> QED BY <1>1, <2>1, <2>7, AnsweredInv DEF UseHandle
<1> QED BY <1>2, <1>3

-----------------------------------------------------------------------------
(* The steps that change the tables.                                       *)

LEMMA LockForListInv == ASSUME RoutingInv, NEW t \in Threads, LockForList(t) PROVE RoutingInv'
<1> DEFINE r == Resolving(t, call[t].rev)
<1>1. /\ call[t] # Idle /\ Requested(call[t]) /\ call[t].kind = "list"
      /\ call[t].rev \in Nat /\ call[t].rev <= policy
    BY UnderWay DEF LockForList, Requested
<1>2. /\ Requested(r) /\ Alike(r, call[t]) /\ r.handle = call[t].handle /\ r.rev = call[t].rev
      /\ r.pc = "resolve"
      /\ r.unread \subseteq Components /\ r.ok \subseteq Components \ r.unread
      /\ \A c \in (Needed(r) \intersect Components) \ r.unread :
             c \in r.ok <=> Eligible(c, r.contract)
    BY <1>1, ResolvingFacts
<1>3. Update(t, r)
    BY DEF LockForList
<1> HIDE DEF r
<1>4. Step(t, r)
    BY <1>1, <1>2, <1>3 DEF Step, Update, LockForList
<1>5. r.kind = "list"
    BY <1>1, <1>2 DEF Alike
<1>6. /\ handle_policy' = call[t].rev /\ UNCHANGED <<route_cache, next_handle, issued>>
      /\ provider_handles' = IF handle_policy = call[t].rev THEN provider_handles ELSE {}
    BY DEF LockForList
<1>7. Shapes' /\ Witnessed' /\ Cached' /\ Reads' /\ Answers'
  <2>1. Shapes' /\ Witnessed'
    BY <1>1, <1>4, <1>6, StepShapes DEF RoutingInv, Shapes
  <2>2. RoutesGrow
    BY <1>6 DEF RoutesGrow
  <2>3. Cached'
    BY <1>4, <2>2, StepCached
  <2>4. Reads' /\ Answers'
    BY <1>2, <1>4, StepReads, StepAnswers
  <2> QED BY <2>1, <2>3, <2>4
<1>8. Issued'
    BY <1>4, <1>6, StepIssued DEF RoutingInv, Issued
<1>9. Handled'
  <2>1. CASE handle_policy = call[t].rev
    BY <1>4, <1>6, <2>1, StepHandled DEF HandlesGrow
  <2>2. CASE handle_policy # call[t].rev
    BY <1>6, <2>2 DEF Handled
  <2> QED BY <2>1, <2>2
<1>10. Locks'
  <2>1. \A u \in Threads : writer # u /\ u \notin readers
    BY RoutingAssumption DEF LockForList
  <2>2. \A u \in Threads \ {t} : ~At(u, "resolve")
    BY <2>1 DEF RoutingInv, Locks
  <2>3. \A u \in Threads \ {t} : call'[u].pc # "resolve"
    BY <1>4, <2>2, StepFacts DEF At
  <2>4. call'[t] = r /\ writer' = t
    BY <1>4, StepFacts DEF LockForList
  <2> QED BY <1>2, <1>5, <1>6, <2>3, <2>4 DEF Locks, At
<1> QED BY <1>7, <1>8, <1>9, <1>10 DEF RoutingInv

\* A resolution is left with an answer.
LEMMA AnswerStep ==
    ASSUME RoutingInv, NEW t \in Threads, NEW a, call[t] # Idle, Update(t, Answered(t, a)),
           UNCHANGED <<topologyVars, policyVars, seen>>
    PROVE  \E r : Step(t, r) /\ r.pc = "answer" /\ r.kind = call[t].kind /\ r.answer = a
<1> DEFINE r == Answered(t, a)
<1>1. Requested(call[t])
    BY DEF RoutingInv, Shapes
<1>2. /\ DOMAIN r = Fields /\ r.pc = "answer" /\ r.answer = a
      /\ r.kind = call[t].kind /\ r.caller = call[t].caller /\ r.contract = call[t].contract
      /\ r.executing = call[t].executing /\ r.handle = call[t].handle /\ r.rev = call[t].rev
    BY <1>1 DEF Requested, Fields, Answered
<1> HIDE DEF r
<1>3. Step(t, r)
    BY <1>1, <1>2 DEF Step, Requested, Alike, Update, r
<1> QED BY <1>2, <1>3

LEMMA ResolveCallInv == ASSUME RoutingInv, NEW t \in Threads, ResolveCall(t) PROVE RoutingInv'
<1> PICK a : a = Answer(call[t], call[t].ok)
  OBVIOUS
<1>1. call[t] # Idle /\ call[t].kind = "call" /\ Resolved(t) /\ PolicyHeld(t)
    BY UnderWay DEF ResolveCall, Resolved
<1>2. a = Fresh(call[t]) /\ a \in seen[t]
    BY <1>1, ResolvedIsFresh
<1>3. Update(t, Answered(t, a))
    BY DEF ResolveCall
<1>4. PICK r : Step(t, r) /\ r.pc = "answer" /\ r.kind = call[t].kind /\ r.answer = a
    BY <1>1, <1>3, AnswerStep DEF ResolveCall
<1> PICK key : key = RouteKey(call[t])
  OBVIOUS
<1> DEFINE entry == [key |-> key, topology |-> topology, policy |-> call[t].rev, answer |-> a]
<1>5. route_cache' \subseteq route_cache \union {entry}
    BY DEF ResolveCall, CacheRoute
<1>6. entry.policy = policy /\ entry.answer = FreshFor("call", entry.key)
    BY <1>1, <1>2, FreshForRoute DEF PolicyHeld
<1> HIDE DEF entry
<1>7. UNCHANGED <<provider_handles, handle_policy, next_handle, issued>>
    BY DEF ResolveCall
<1>8. Cached'
  <2>1. RoutesGrow
    BY <1>5, <1>6 DEF RoutesGrow
  <2> QED BY <2>1, <1>4, StepCached
<1>9. Shapes' /\ Witnessed'
  <2>1. handle_policy' \in Nat /\ handle_policy' <= policy /\ next_handle' \in Nat
    BY <1>7 DEF RoutingInv, Shapes
  <2> QED BY <2>1, <1>4, StepShapes
<1>10. Handled' /\ Issued'
    BY <1>4, <1>7, StepHandled, StepIssued DEF RoutingInv, Issued, HandlesGrow
<1>11. Locks'
    BY <1>4, <1>7, StepLocks DEF ResolveCall, Unlock
<1>12. Reads'
    BY <1>4, StepReads
<1>13. Right(r, seen[t])
    BY <1>1, <1>2, <1>4 DEF Right
<1>14. Answers'
    BY <1>4, <1>13, StepAnswers
<1> QED BY <1>8, <1>9, <1>10, <1>11, <1>12, <1>14 DEF RoutingInv

\* The numbers of new handles are new and different.
LEMMA Numbers ==
    ASSUME NEW new, new \subseteq Components, next_handle \in Nat
    PROVE  /\ Cardinality(new) \in Nat
           /\ \A p \in new : /\ HandleNumber(new, p) \in Nat /\ next_handle < HandleNumber(new, p)
                             /\ HandleNumber(new, p) <= next_handle + Cardinality(new)
           /\ \A p, q \in new : HandleNumber(new, p) = HandleNumber(new, q) => p = q
<1> DEFINE Below(p) == {q \in new : Rank[q] <= Rank[p]}
<1>1. IsFiniteSet(new) /\ Cardinality(new) \in Nat
    BY RoutingAssumption, FS_Subset, FS_CardinalityType
<1>2. \A p \in new : Rank[p] \in Nat
    BY RoutingAssumption
<1>3. ASSUME NEW p \in new
      PROVE  /\ IsFiniteSet(Below(p)) /\ Cardinality(Below(p)) \in Nat
             /\ Cardinality(Below(p)) <= Cardinality(new) /\ Cardinality(Below(p)) # 0
  <2>1. Below(p) \in SUBSET new /\ p \in Below(p)
    BY <1>2
  <2> HIDE DEF Below
  <2> QED BY <1>1, <2>1, FS_Subset, FS_CardinalityType, FS_EmptySet
<1>4. ASSUME NEW p \in new, NEW q \in new, Rank[p] < Rank[q]
      PROVE  Cardinality(Below(p)) # Cardinality(Below(q))
  <2>1. Below(p) \in SUBSET Below(q) /\ q \in Below(q) /\ q \notin Below(p)
    BY <1>2, <1>4
  <2> HIDE DEF Below
  <2> QED BY <1>3, <2>1, FS_Subset
<1>5. ASSUME NEW p \in new, NEW q \in new, p # q PROVE Rank[p] < Rank[q] \/ Rank[q] < Rank[p]
    BY <1>2, <1>5, RoutingAssumption DEF IsInjective
<1>6. \A p \in new : HandleNumber(new, p) = next_handle + Cardinality(Below(p))
    BY DEF HandleNumber
<1> HIDE DEF Below
<1>7. ASSUME NEW p \in new, NEW q \in new, HandleNumber(new, p) = HandleNumber(new, q) PROVE p = q
  <2>1. Cardinality(Below(p)) = Cardinality(Below(q))
    BY <1>3, <1>6, <1>7
  <2> QED BY <2>1, <1>4, <1>5
<1> QED BY <1>1, <1>3, <1>6, <1>7

\* A listing that succeeds lists what the requirements admit.
LEMMA ListProviders ==
    ASSUME NEW r, r.kind = "list", NEW ok, Answer(r, ok).error = "none"
    PROVE  Answer(r, ok).providers \subseteq ok
<1>1. Answer(r, ok) = Binding(r, ok) /\ r.contract \notin Single
  <2>1. Answer(r, ok) = Binding(r, ok)
    BY Refusals
  <2>2. ASSUME r.contract \in Single PROVE FALSE
    BY <2>1, <2>2 DEF Answer, Refused
  <2> QED BY <2>1, <2>2
<1>2. Binding(r, ok) = Selected(r.contract, ok)
  <2>1. Binding(r, ok).error = "none"
    BY <1>1
  <2>2. /\ Refused("unavailable").error # "none" /\ Refused("not a consumer").error # "none"
        /\ Refused("not a service").error # "none"
    BY DEF Refused
  <2> QED BY <2>1, <2>2 DEF Binding
<1> QED BY <1>1, <1>2 DEF Selected, Refused, Bound

\* What a listing finds is what its handles are bound to.
LEMMA ListedIsBound ==
    ASSUME NEW r, r.kind = "list", Fresh(r).error = "none", NEW key, AsksFor(r, key)
    PROVE  FreshFor("handle", key) = Fresh(r)
<1> DEFINE q == [kind |-> "handle", caller |-> key.caller, contract |-> key.contract,
                 executing |-> key.executing]
<1>1. /\ q.kind = "handle" /\ q.caller = r.caller /\ q.contract = r.contract
      /\ q.executing = r.executing
    BY DEF AsksFor
<1> HIDE DEF q
<1>2. Met(r) = Met(q)
    BY <1>1 DEF Met
<1>3. Fresh(r) = Binding(r, Met(r))
    BY Refusals DEF Fresh, Met
<1>4. Binding(q, Met(q)) = Binding(r, Met(r))
    BY <1>1, <1>2, BindingSame
<1>5. Answer(q, Met(q)) = Binding(q, Met(q))
    BY <1>1 DEF Answer
<1>6. Fresh(q) = Answer(q, Met(q))
    BY DEF Fresh, Met
<1> QED BY <1>3, <1>4, <1>5, <1>6 DEF FreshFor, q

LEMMA ResolveListInv == ASSUME RoutingInv, NEW t \in Threads, ResolveList(t) PROVE RoutingInv'
<1> PICK a : a = Answer(call[t], call[t].ok)
  OBVIOUS
<1>1. call[t] # Idle /\ call[t].pc = "resolve" /\ call[t].kind = "list" /\ Resolved(t)
    BY UnderWay DEF ResolveList, Resolved
<1>2. a.error = "none" => PolicyHeld(t) /\ a = Fresh(call[t]) /\ a \in seen[t]
    BY <1>1, ResolvedIsFresh DEF ResolveList
<1> DEFINE new == {p \in a.providers : HandleKey(call[t], p) \notin HandledKeys}
           bindings == {[handle |-> HandleNumber(new, p), key |-> HandleKey(call[t], p)] : p \in new}
<1>3. new \subseteq Components /\ (new # {} => a.error = "none")
  <2>1. CASE a.error = "none"
    <3>1. a.providers \subseteq call[t].ok
      BY <1>1, <2>1, ListProviders
    <3>2. call[t].ok \subseteq Components
      BY <1>1 DEF RoutingInv, Reads, At
    <3> QED BY <2>1, <3>1, <3>2
  <2>2. CASE a.error # "none"
    BY <2>2, Refusals
  <2> QED BY <2>1, <2>2
<1>4. /\ provider_handles' = provider_handles \union bindings
      /\ issued' = issued \union bindings
      /\ next_handle' = next_handle + Cardinality(new)
      /\ Update(t, Answered(t, a))
      /\ UNCHANGED <<route_cache, handle_policy>>
    BY DEF ResolveList
<1>5. next_handle \in Nat
    BY DEF RoutingInv, Shapes
<1> HIDE DEF new
<1>6. /\ Cardinality(new) \in Nat
      /\ \A p \in new : /\ HandleNumber(new, p) \in Nat /\ next_handle < HandleNumber(new, p)
                        /\ HandleNumber(new, p) <= next_handle + Cardinality(new)
      /\ \A p, q \in new : HandleNumber(new, p) = HandleNumber(new, q) => p = q
    BY <1>3, <1>5, Numbers
<1>7. \A b \in bindings : /\ b.handle \in Nat /\ next_handle < b.handle /\ b.handle <= next_handle'
                          /\ \A d \in bindings : b.handle = d.handle => b.key = d.key
    BY <1>4, <1>6
<1>8. \A b \in bindings : \E p \in new : b.key = HandleKey(call[t], p)
    OBVIOUS
<1> HIDE DEF bindings
<1>9. PICK r : Step(t, r) /\ r.pc = "answer" /\ r.kind = call[t].kind /\ r.answer = a
    BY <1>1, <1>4, AnswerStep DEF ResolveList
<1>10. Issued'
  <2>1. \A i \in issued : i.handle \in Nat /\ i.handle <= next_handle
    BY DEF RoutingInv, Issued
  <2>2. \A i \in issued' : i.handle \in Nat /\ i.handle <= next_handle'
    BY <1>4, <1>5, <1>6, <1>7, <2>1
  <2>3. ASSUME NEW b \in issued', NEW d \in issued', b.handle = d.handle PROVE b.key = d.key
    <3>1. CASE b \in issued /\ d \in issued
      BY <2>3, <3>1 DEF RoutingInv, Issued
    <3>2. CASE b \in bindings /\ d \in bindings
      BY <2>3, <3>2, <1>7
    <3>3. ASSUME NEW i \in issued, NEW j \in bindings PROVE i.handle # j.handle
      BY <1>5, <1>7, <2>1
    <3> QED BY <1>4, <2>3, <3>1, <3>2, <3>3
  <2>4. issued \subseteq issued' /\ provider_handles' \subseteq issued'
    BY <1>4 DEF RoutingInv, Issued
  <2> QED BY <1>9, <2>2, <2>3, <2>4, StepIssued
<1>11. Handled'
  <2>1. ASSUME NEW b \in bindings PROVE b.key.provider \in FreshFor("handle", b.key).providers
    <3>1. PICK p \in new : b.key = HandleKey(call[t], p)
      BY <1>8
    <3>2. b.key.provider = p /\ AsksFor(call[t], b.key)
      BY <3>1 DEF HandleKey, AsksFor
    <3>3. a.error = "none" /\ p \in a.providers
      BY <1>3 DEF new
    <3> QED BY <1>1, <1>2, <3>2, <3>3, ListedIsBound
  <2>2. HandlesGrow
    BY <1>4, <2>1 DEF HandlesGrow
  <2> QED BY <1>4, <1>9, <2>2, StepHandled
<1>12. Cached'
  <2>1. RoutesGrow
    BY <1>4 DEF RoutesGrow
  <2> QED BY <1>9, <2>1, StepCached
<1>13. Shapes' /\ Witnessed'
  <2>1. handle_policy' \in Nat /\ handle_policy' <= policy /\ next_handle' \in Nat
    BY <1>4, <1>6 DEF RoutingInv, Shapes
  <2> QED BY <2>1, <1>9, StepShapes
<1>14. Locks'
    BY <1>4, <1>9, StepLocks DEF ResolveList, Unlock
<1>15. Reads'
    BY <1>9, StepReads
<1>16. Right(r, seen[t])
    BY <1>1, <1>2, <1>9 DEF Right
<1>17. Answers'
    BY <1>9, <1>16, StepAnswers
<1> QED BY <1>10, <1>11, <1>12, <1>13, <1>14, <1>15, <1>17 DEF RoutingInv

-----------------------------------------------------------------------------
(* Requests begin and end, components run, topology and grants change.     *)

LEMMA RequestInv == ASSUME RoutingInv, NEW t \in Threads, Request(t) PROVE RoutingInv'
<1>1. PICK c \in Callers(t), k \in Contracts, h \in 0 .. next_handle,
           kind \in {"call", "list", "handle", "platform"} :
          /\ (c = NoComponent) <=> (kind = "platform")
          /\ h > 0 <=> kind = "handle"
          /\ kind = "handle" => \E i \in issued : i.handle = h /\ i.key.contract = k
          /\ call' = [call EXCEPT ![t] =
                [pc |-> FirstLock(kind), kind |-> kind, caller |-> c, contract |-> k, handle |-> h,
                 executing |-> exec[t] # NoComponent \/ stack[t] # <<>>,
                 rev |-> policy, unread |-> {}, ok |-> {}, answer |-> Refused("none")]]
          /\ seen' = [seen EXCEPT ![t] = {Fresh(call'[t])}]
    BY Zenon DEF Request
<1> PICK r : r = [pc |-> FirstLock(kind), kind |-> kind, caller |-> c, contract |-> k, handle |-> h,
                  executing |-> exec[t] # NoComponent \/ stack[t] # <<>>,
                  rev |-> policy, unread |-> {}, ok |-> {}, answer |-> Refused("none")]
  OBVIOUS
<1>2. /\ call[t] = Idle
      /\ UNCHANGED <<topologyVars, tableVars, writer, readers, policyVars>>
  <2>1. At(t, "idle")
    BY DEF Request
  <2> QED BY <2>1 DEF Request, At, RoutingInv, Shapes, Requested
<1>3. /\ DOMAIN r = Fields /\ r.kind = kind /\ r.rev = policy /\ r.handle = h /\ r.contract = k
      /\ r.pc = FirstLock(kind)
    BY DEF Fields
<1>4. policy \in Nat
    BY DEF RoutingInv, Shapes
<1>5. r.pc = IF kind = "call" THEN "lookup" ELSE IF kind = "handle" THEN "use" ELSE "lock"
    BY <1>3 DEF FirstLock
<1>6. Requested(r) /\ r # Idle
    BY <1>3, <1>4, <1>5 DEF Requested, Idle
<1>7. /\ DOMAIN call' = Threads /\ DOMAIN seen' = Threads /\ call'[t] = r /\ seen'[t] = {Fresh(r)}
      /\ \A u \in Threads \ {t} : call'[u] = call[u] /\ seen'[u] = seen[u]
    BY <1>1 DEF RoutingInv, Shapes
<1>8. /\ UNCHANGED <<topologyVars, grants, policy, writer, readers, route_cache, provider_handles,
                      handle_policy, next_handle, issued>>
    BY <1>2 DEF policyVars, tableVars
<1>9. /\ \A q : Fresh(q)' = Fresh(q)
      /\ \A a, key : FreshFor(a, key)' = FreshFor(a, key)
    BY <1>8, FreshStays, FreshForStays
<1>10. Shapes'
  <2>1. Requested(r) /\ r.rev <= policy
    BY <1>3, <1>4, <1>6
  <2>2. \A u \in Threads : call[u] # Idle => Requested(call[u]) /\ call[u].rev <= policy
    BY DEF RoutingInv, Shapes
  <2>3. ASSUME NEW u \in Threads, call'[u] # Idle PROVE Requested(call'[u]) /\ call'[u].rev <= policy
    <3>1. CASE u = t
      BY <1>7, <2>1, <3>1
    <3>2. CASE u # t
      BY <1>7, <2>3, <2>2, <3>2
    <3> QED BY <3>1, <3>2
  <2> QED BY <1>7, <1>8, <2>3 DEF RoutingInv, Shapes, Idle
<1>11. r.pc # "resolve" /\ r.pc # "answer"
    BY <1>5
<1>12. Locks' /\ Answers'
    BY <1>7, <1>8, <1>11 DEF RoutingInv, Locks, Answers, At
<1>13. Reads'
  <2>1. \A q : Needed(q)' = Needed(q)
    BY <1>8 DEF Needed, Candidates, topologyVars
  <2>2. \A d, l : Eligible(d, l)' <=> Eligible(d, l)
    BY <1>8 DEF Eligible
  <2> QED BY <1>7, <1>8, <1>11, <2>1, <2>2 DEF RoutingInv, Reads, At
<1>14. Witnessed'
    BY <1>7, <1>9 DEF RoutingInv, Witnessed, Idle
<1>15. Cached'
  <2> SUFFICES ASSUME NEW e \in route_cache
               PROVE  /\ e.policy = policy => e.answer = FreshFor("call", e.key)
                      /\ e.policy \in Nat /\ e.policy <= policy
                      /\ \A u \in Threads :
                            /\ call'[u] # Idle /\ call'[u].kind = "call"
                            /\ e.policy = call'[u].rev /\ e.key = RouteKey(call'[u])
                            => e.answer \in seen'[u]
    BY <1>8, <1>9 DEF Cached, RouteKey, Idle
  <2>1. ASSUME r.kind = "call", e.policy = r.rev, e.key = RouteKey(r)
        PROVE  e.answer \in seen'[t]
    BY <1>3, <1>7, <2>1, FreshForRoute DEF RoutingInv, Cached
  <2>2. ASSUME NEW u \in Threads, call'[u] # Idle, call'[u].kind = "call",
               e.policy = call'[u].rev, e.key = RouteKey(call'[u])
        PROVE  e.answer \in seen'[u]
    <3>1. CASE u = t
      BY <1>7, <2>1, <2>2, <3>1
    <3>2. CASE u # t
      BY <1>7, <2>2, <3>2 DEF RoutingInv, Cached
    <3> QED BY <3>1, <3>2
  <2> QED BY <2>2 DEF RoutingInv, Cached
<1>16. Issued'
  <2>1. kind = "handle" => \E i \in issued : i.handle = r.handle /\ i.key.contract = r.contract
    BY <1>1, <1>3
  <2>2. ASSUME NEW u \in Threads, call'[u] # Idle, call'[u].kind = "handle"
        PROVE  \E i \in issued : i.handle = call'[u].handle /\ i.key.contract = call'[u].contract
    BY <1>3, <1>7, <2>1, <2>2 DEF RoutingInv, Issued
  <2> QED BY <1>8, <2>2 DEF RoutingInv, Issued, Idle
<1>17. Handled'
  <2> SUFFICES ASSUME NEW b \in provider_handles
               PROVE  /\ handle_policy = policy => b.key.provider \in FreshFor("handle", b.key).providers
                      /\ \A u \in Threads :
                            /\ call'[u] # Idle /\ call'[u].kind = "handle"
                            /\ handle_policy = call'[u].rev /\ AsksFor(call'[u], b.key)
                            => \E s \in seen'[u] : b.key.provider \in s.providers
    BY <1>8, <1>9 DEF Handled, AsksFor, Idle
  <2>1. ASSUME r.kind = "handle", handle_policy = r.rev, AsksFor(r, b.key)
        PROVE  \E s \in seen'[t] : b.key.provider \in s.providers
    <3>1. b.key.provider \in Fresh(r).providers
      BY <1>3, <2>1, FreshForHandle DEF RoutingInv, Handled
    <3> QED BY <1>7, <3>1
  <2>2. ASSUME NEW u \in Threads, call'[u] # Idle, call'[u].kind = "handle",
               handle_policy = call'[u].rev, AsksFor(call'[u], b.key)
        PROVE  \E s \in seen'[u] : b.key.provider \in s.providers
    <3>1. CASE u = t
      BY <1>7, <2>1, <2>2, <3>1
    <3>2. CASE u # t
      BY <1>7, <2>2, <3>2 DEF RoutingInv, Handled
    <3> QED BY <3>1, <3>2
  <2> QED BY <2>2 DEF RoutingInv, Handled
<1> QED BY <1>10, <1>12, <1>13, <1>14, <1>15, <1>16, <1>17 DEF RoutingInv

\* Steps that may end requests and run components.
LEMMA UntouchedInv ==
    ASSUME RoutingInv, UNCHANGED <<topologyVars, tableVars, policyVars, writer, readers>>,
           DOMAIN call' = Threads, DOMAIN seen' = Threads,
           \A u \in Threads : call'[u] = Idle \/ (call'[u] = call[u] /\ seen'[u] = seen[u])
    PROVE  RoutingInv'
<1>1. UNCHANGED <<grants, policy, route_cache, provider_handles, handle_policy, next_handle, issued>>
    BY DEF policyVars, tableVars
<1>2. /\ \A q : Fresh(q)' = Fresh(q)
      /\ \A a, key : FreshFor(a, key)' = FreshFor(a, key)
    BY <1>1, FreshStays, FreshForStays
<1>3. \A u \in Threads : call'[u] = Idle => call'[u].pc # "resolve" /\ call'[u].pc # "answer"
    BY DEF Idle
<1>4. Shapes' /\ Issued'
    BY <1>1 DEF RoutingInv, Shapes, Issued, Idle
<1>5. Locks' /\ Answers'
    BY <1>1, <1>3 DEF RoutingInv, Locks, Answers, At
<1>6. Reads'
  <2>1. \A q : Needed(q)' = Needed(q)
    BY DEF Needed, Candidates, topologyVars
  <2>2. \A d, l : Eligible(d, l)' <=> Eligible(d, l)
    BY <1>1 DEF Eligible
  <2> QED BY <1>1, <1>3, <2>1, <2>2 DEF RoutingInv, Reads, At
<1>7. Witnessed'
    BY <1>2 DEF RoutingInv, Witnessed, Idle
<1>8. Cached'
    BY <1>1, <1>2 DEF RoutingInv, Cached, RouteKey, Idle
<1>9. Handled'
    BY <1>1, <1>2 DEF RoutingInv, Handled, AsksFor, Idle
<1> QED BY <1>4, <1>5, <1>6, <1>7, <1>8, <1>9 DEF RoutingInv

\* Requests under way when something changes have one more right answer.
LEMMA WitnessFacts ==
    ASSUME RoutingInv, Witness, UNCHANGED call
    PROVE  /\ DOMAIN seen' = Threads
           /\ \A u \in Threads : call[u] # Idle =>
                 seen[u] \subseteq seen'[u] /\ Fresh(call[u])' \in seen'[u]
BY DEF Witness

LEMMA RightGrows ==
    ASSUME NEW r, NEW few, NEW many, few \subseteq many, Right(r, few)
    PROVE  Right(r, many)
BY DEF Right

LEMMA ChangeTopologyInv == ASSUME RoutingInv, ChangeTopology PROVE RoutingInv'
<1>1. /\ route_cache' = {} /\ provider_handles' = {}
      /\ UNCHANGED <<call, handle_policy, next_handle, issued, policy>>
    BY DEF ChangeTopology, TopologyChanged, policyVars
<1>2. \A u \in Threads : ~At(u, "resolve")
    BY RoutingAssumption DEF ChangeTopology, RoutingInv, Locks
<1>3. /\ DOMAIN seen' = Threads
      /\ \A u \in Threads : call[u] # Idle =>
            seen[u] \subseteq seen'[u] /\ Fresh(call[u])' \in seen'[u]
    BY <1>1, WitnessFacts DEF ChangeTopology
<1>4. Shapes' /\ Issued'
    BY <1>1, <1>3 DEF RoutingInv, Shapes, Issued, Idle
<1>5. Locks' /\ Reads'
    BY <1>1, <1>2 DEF Locks, Reads, At
<1>6. Witnessed'
    BY <1>1, <1>3 DEF Witnessed, Idle
<1>7. Cached' /\ Handled'
    BY <1>1 DEF Cached, Handled
<1>8. Answers'
  <2>1. ASSUME NEW u \in Threads, At(u, "answer") PROVE Right(call[u], seen'[u])
    BY <1>3, <2>1, UnderWay, RightGrows DEF RoutingInv, Answers
  <2> QED BY <1>1, <2>1 DEF Answers, At
<1> QED BY <1>4, <1>5, <1>6, <1>7, <1>8 DEF RoutingInv

LEMMA ChangeGrantsInv == ASSUME RoutingInv, ChangeGrants PROVE RoutingInv'
<1>1. /\ policy' = policy + 1
      /\ UNCHANGED <<call, route_cache, provider_handles, handle_policy, next_handle, issued,
                      writer, readers>>
    BY DEF ChangeGrants, tableVars
<1>2. policy \in Nat /\ handle_policy \in Nat /\ handle_policy <= policy
    BY DEF RoutingInv, Shapes
<1>3. /\ DOMAIN seen' = Threads
      /\ \A u \in Threads : call[u] # Idle =>
            seen[u] \subseteq seen'[u] /\ Fresh(call[u])' \in seen'[u]
    BY <1>1, WitnessFacts DEF ChangeGrants
<1>4. \A u \in Threads : call[u] # Idle => Requested(call[u]) /\ call[u].rev \in Nat /\ call[u].rev <= policy
    BY DEF RoutingInv, Shapes, Requested
<1>5. Shapes'
    BY <1>1, <1>2, <1>3, <1>4 DEF RoutingInv, Shapes, Idle
<1>6. Issued' /\ Locks'
    BY <1>1 DEF RoutingInv, Issued, Locks, At, Idle
<1>7. Reads'
  <2>1. \A u \in Threads : At(u, "resolve") => call[u].rev # policy + 1
    BY <1>2, <1>4, UnderWay
  <2> QED BY <1>1, <2>1 DEF RoutingInv, Reads, At
<1>8. Witnessed'
    BY <1>1, <1>3 DEF Witnessed, Idle
<1>9. Cached'
  <2>1. \A e \in route_cache :
            /\ e.policy # policy + 1 /\ e.policy \in Nat /\ e.policy <= policy + 1
            /\ \A u \in Threads :
                  /\ call[u] # Idle /\ call[u].kind = "call"
                  /\ e.policy = call[u].rev /\ e.key = RouteKey(call[u])
                  => e.answer \in seen'[u]
    BY <1>2, <1>3 DEF RoutingInv, Cached
  <2> QED BY <1>1, <2>1 DEF Cached, RouteKey, Idle
<1>10. Handled'
  <2>1. \A b \in provider_handles :
            \A u \in Threads :
                /\ call[u] # Idle /\ call[u].kind = "handle"
                /\ handle_policy = call[u].rev /\ AsksFor(call[u], b.key)
                => \E s \in seen'[u] : b.key.provider \in s.providers
    BY <1>3 DEF RoutingInv, Handled
  <2>2. handle_policy # policy + 1
    BY <1>2
  <2> QED BY <1>1, <2>1, <2>2 DEF Handled, AsksFor, Idle
<1>11. Answers'
  <2>1. ASSUME NEW u \in Threads, At(u, "answer") PROVE Right(call[u], seen'[u])
    BY <1>3, <2>1, UnderWay, RightGrows DEF RoutingInv, Answers
  <2> QED BY <1>1, <2>1 DEF Answers, At
<1> QED BY <1>5, <1>6, <1>7, <1>8, <1>9, <1>10, <1>11 DEF RoutingInv

LEMMA RouteInv == ASSUME RoutingInv, NEW t \in Threads, Route(t) PROVE RoutingInv'
<1>1. CASE Deliver(t) \/ Invoke(t)
  <2>1. /\ UNCHANGED <<topologyVars, tableVars, policyVars, writer, readers>>
        /\ call' = [call EXCEPT ![t] = Idle] /\ seen' = [seen EXCEPT ![t] = {}]
    BY <1>1 DEF Deliver, Invoke, Forget
  <2> QED BY <2>1, UntouchedInv DEF RoutingInv, Shapes
<1>2. CASE \/ ReadRevision(t) \/ LookUp(t) \/ LockForCall(t) \/ LockForList(t) \/ LockForPlatform(t)
           \/ ReadGrant(t) \/ ResolveAgain(t) \/ UseHandle(t)
    BY <1>2, ReadRevisionInv, LookUpInv, LockForCallInv, LockForListInv, LockForPlatformInv,
       ReadGrantInv, ResolveAgainInv, UseHandleInv
<1>3. CASE ResolveCall(t) \/ ResolveList(t) \/ ResolvePlatform(t)
    BY <1>3, ResolveCallInv, ResolveListInv, ResolvePlatformInv
<1> QED BY <1>1, <1>2, <1>3 DEF Route

LEMMA NextInv == ASSUME RoutingInv, [Next]_vars PROVE RoutingInv'
<1>1. CASE \E t \in Threads : Request(t) \/ Route(t)
    BY <1>1, RequestInv, RouteInv
<1>2. CASE \/ \E t \in Threads : \/ Return(t) \/ ExecutionEnds(t) \/ Panic(t)
                                 \/ \E c \in Components : Execute(t, c)
           \/ UNCHANGED vars
  <2>1. UNCHANGED <<topologyVars, tableVars, policyVars, writer, readers, callVars>>
    BY <1>2 DEF Return, ExecutionEnds, Panic, Execute, vars
  <2> QED BY <2>1, UntouchedInv DEF callVars, RoutingInv, Shapes
<1> QED BY <1>1, <1>2, ChangeTopologyInv, ChangeGrantsInv DEF Next

\* The inductive invariant, for any threads, components, contracts and bounds.
THEOREM RoutingInvHolds == Spec => []RoutingInv
<1> QED BY InitInv, NextInv, PTL DEF Spec

\* With any number of threads that share the cache, and changes of topology and grants
\* at any instant between their locks, a call is answered as a resolution in one
\* instant since it was made would have answered it (resolve_provider).
THEOREM RoutesFresh == Spec => []RoutesAreFresh
<1> QED BY RoutingInvHolds, Meaning, PTL

\* Listings are right for one instant, handles lead where their contract led since
\* they were presented, and no number of a handle is given out twice, with any number
\* of providers and clearings of the table (list_providers_with_mode and
\* resolve_provider_handle).
THEOREM HandlesFresh == Spec => []HandlesAreFresh
<1> QED BY RoutingInvHolds, Meaning, PTL
=============================================================================
