--------------------------- MODULE ServiceRouting ---------------------------
(***************************************************************************)
(* Service calls between components: ServiceRuntime in                     *)
(* crates/extension-engine/src/services.rs, with the contract resolution   *)
(* of composition.rs and the grants of secrets.rs.                         *)
(*                                                                         *)
(* ServiceRuntime is cloned into every context, so several threads route   *)
(* calls while others change the topology or the grants.  The topology is  *)
(* guarded by one RwLock.  The grants have a lock of their own and are     *)
(* read one component at a time; a revision counter, read before and after *)
(* a resolution, says whether what was read belongs together.  A callback  *)
(* runs with its component's mutex held and the topology unlocked, and may *)
(* call on.                                                                *)
(*                                                                         *)
(* One runtime scope with one component per instance is modelled: scopes   *)
(* see nothing of each other but the revisions (ForeignChange).  The       *)
(* contracts a registered instance defines, provides and consumes never    *)
(* change.  A grant requirement is held or not held as a whole.  Messages, *)
(* their size limits and the filter of host calls by extension are left    *)
(* out.                                                                    *)
(***************************************************************************)
EXTENDS Naturals, FiniteSets, SequencesExt

CONSTANTS
    Threads,        \* the threads that execute components or call services
    Components,     \* the components of the scope
    Contracts,      \* the contracts they are about
    Single,         \* the contracts resolved to a single provider
    ServiceProtocol,\* the contracts with protocol Service
    Defines, Provides, Consumes,   \* per component: its registered contracts
    NeedsGrant,     \* the endpoints <<component, contract>> with requirements
    Rank,           \* the order of component_ref_key
    NoComponent, NoThread,         \* absent values
    MaxTopology, MaxPolicy,        \* bounds: the changes of each kind
    MaxCalls, MaxExecutions        \* bounds: requests, and executions by the engine

ASSUME RoutingAssumption ==
    /\ NoComponent \notin Components /\ NoThread \notin Threads /\ IsFiniteSet(Components)
    /\ Single \subseteq Contracts /\ ServiceProtocol \subseteq Contracts
    /\ \A d \in {Defines, Provides, Consumes} : d \in [Components -> SUBSET Contracts]
    /\ NeedsGrant \subseteq Components \X Contracts
    /\ Rank \in [Components -> Nat] /\ IsInjective(Rank)
    /\ {MaxTopology, MaxPolicy, MaxCalls, MaxExecutions} \subseteq Nat

VARIABLES
    registered, active,     \* instances, and which of them are active
    preferred,              \* preferred_providers
    platform,               \* platform_definitions
    topology,               \* topology_revision
    route_cache,            \* a set of [key, topology, policy, answer]
    provider_handles,       \* a set of [handle, key], with its inverse
    handle_policy,          \* provider_handle_policy_revision
    next_handle,            \* next_provider_handle
    writer, readers,        \* who holds the RwLock over all of the above
    grants, policy,         \* SecretManager: read_grants, policy_revision
    poisoned,               \* the components whose mutex is poisoned
    exec,                   \* the component a thread executes, if any
    stack,                  \* call_stack: the providers a thread is inside of
    call,                   \* the request a thread is routing
    calls, executions,      \* how many requests and executions there were
    issued,                 \* history: every [handle, key] ever issued
    seen                    \* history: the right answers since the request

topologyVars == <<registered, active, preferred, platform>>
tableVars == <<topology, route_cache, provider_handles, handle_policy, next_handle, issued>>
policyVars == <<grants, policy>>
chainVars == <<poisoned, exec, stack, executions>>
callVars == <<call, calls, seen>>
vars == <<topologyVars, tableVars, writer, readers, policyVars, chainVars, callVars>>

Idle == [pc |-> "idle"]

\* A new engine, one with everything registered and preferences chosen, or
\* one where everything runs; the revisions count from there.
Init ==
    /\ \/ registered = {} /\ platform = {}
       \/ registered = Components /\ platform = Contracts \ UNION {Defines[c] : c \in Components}
    /\ active \in {{}, registered}
    /\ \E c \in Components \union {NoComponent} :
          preferred = [k \in Contracts |-> IF active = {} THEN c ELSE NoComponent]
    /\ topology = 0 /\ route_cache = {}
    /\ provider_handles = {} /\ handle_policy = 0 /\ next_handle = 0
    /\ writer = NoThread /\ readers = {}
    /\ grants \in SUBSET {n[1] : n \in NeedsGrant} /\ policy = 0
    /\ poisoned = {}
    /\ exec = [t \in Threads |-> NoComponent] /\ stack = [t \in Threads |-> <<>>]
    /\ call = [t \in Threads |-> Idle] /\ calls = 0 /\ executions = 0
    /\ issued = {} /\ seen = [t \in Threads |-> {}]

-----------------------------------------------------------------------------
(* Resolution: what a contract is bound to, when the components in ok meet *)
(* the requirements of their endpoints.                                    *)

Bound(providers) == [error |-> "none", providers |-> providers]
Refused(error) == [error |-> error, providers |-> {}]

Eligible(c, k) == <<c, k>> \in NeedsGrant => c \in grants
Candidates(k) == {c \in active : k \in Provides[c]}

First(eligible) == CHOOSE c \in eligible : \A d \in eligible : Rank[c] <= Rank[d]

\* resolve_contract_providers: a preferred provider has no substitute.
Selected(k, ok) ==
    LET eligible == Candidates(k) \intersect ok
    IN  IF k \in Single /\ preferred[k] # NoComponent
        THEN IF preferred[k] \in eligible THEN Bound({preferred[k]}) ELSE Refused("unavailable")
        ELSE IF eligible = {} THEN Refused("unavailable")
        ELSE IF k \in Single
        THEN Bound({First(eligible)})
        ELSE Bound(eligible)

\* The metadata of an inactive caller counts for its own execution.
Visible(r) == active \union (IF r.executing THEN {r.caller} \intersect registered ELSE {})
Defined(r) == r.contract \in platform \union UNION {Defines[c] : c \in Visible(r)}

Declared(r) == r.caller \in Visible(r) /\ r.contract \in Consumes[r.caller]

\* The host calls without a caller, and platform contracts only.
Binding(r, ok) ==
    LET hosted == r.caller = NoComponent
    IN  IF IF hosted THEN r.contract \notin platform ELSE r.caller \notin registered
        THEN Refused("unavailable")
        ELSE IF ~hosted /\ ~Declared(r) THEN Refused("not a consumer")
        ELSE IF ~hosted /\ ~Defined(r) THEN Refused("unavailable")
        ELSE IF r.contract \notin ServiceProtocol THEN Refused("not a service")
        ELSE IF ~hosted /\ r.caller \notin ok THEN Refused("unavailable")
        ELSE Selected(r.contract, ok)

\* A unary call wants one provider; a listing wants a Multiple contract.
Answer(r, ok) ==
    LET b == Binding(r, ok)
    IN  IF b.error = "none" /\ ( \/ r.kind \in {"call", "platform"} /\ Cardinality(b.providers) # 1
                                 \/ r.kind = "list" /\ r.contract \in Single )
        THEN Refused("unsupported resolution")
        ELSE b

\* What a resolution made in one instant would answer.
Fresh(r) == Answer(r, {c \in Components : Eligible(c, r.contract)})
-----------------------------------------------------------------------------
(* Changes of the topology, each under the write lock, and of the grants.  *)

\* Every request under way has one more right answer.
Witness == seen' = [t \in Threads |-> IF call[t] = Idle THEN {} ELSE seen[t] \union {Fresh(call[t])'}]

\* Faulty: the handles survive a change of the topology.
TopologyChanged_KeepsHandles == topology' = topology + 1 /\ route_cache' = {} /\ UNCHANGED provider_handles

\* Clears the route cache and the handles, never the number of the next handle.
TopologyChanged == topology' = topology + 1 /\ route_cache' = {} /\ provider_handles' = {}

ActivateInstance(c) ==
    /\ c \in registered \ active
    /\ active' = active \union {c} /\ UNCHANGED <<registered, preferred, platform>>
DeactivateInstance(c) ==
    /\ c \in active
    /\ active' = active \ {c} /\ UNCHANGED <<registered, preferred, platform>>
RegisterInstance(c) ==
    /\ c \notin registered /\ Defines[c] \intersect platform = {}
    /\ registered' = registered \union {c} /\ UNCHANGED <<active, preferred, platform>>
UnregisterInstance(c) ==
    /\ c \in registered
    /\ registered' = registered \ {c} /\ active' = active \ {c} /\ UNCHANGED <<preferred, platform>>
SetPreferredProvider(k, c) ==
    /\ preferred[k] # c
    /\ preferred' = [preferred EXCEPT ![k] = c] /\ UNCHANGED <<registered, active, platform>>
ClearPreferredProvider(k) ==
    /\ preferred[k] # NoComponent
    /\ preferred' = [preferred EXCEPT ![k] = NoComponent] /\ UNCHANGED <<registered, active, platform>>
DefinePlatformContract(k) ==
    /\ k \notin platform /\ \A c \in registered : k \notin Defines[c]
    /\ platform' = platform \union {k} /\ UNCHANGED <<registered, active, preferred>>
ClearPlatformContracts ==
    /\ platform # {}
    /\ platform' = {} /\ UNCHANGED <<registered, active, preferred>>
ForeignChange == UNCHANGED topologyVars

ChangeTopology ==
    /\ writer = NoThread /\ readers = {} /\ topology < MaxTopology
    /\ \/ \E c \in Components :
             \/ ActivateInstance(c) \/ DeactivateInstance(c)
             \/ RegisterInstance(c) \/ UnregisterInstance(c)
       \/ \E k \in Contracts :
             \/ \E c \in Components : SetPreferredProvider(k, c)
             \/ ClearPreferredProvider(k) \/ DefinePlatformContract(k)
       \/ ClearPlatformContracts
       \/ ForeignChange
    /\ TopologyChanged
    /\ UNCHANGED <<handle_policy, next_handle, issued, writer, readers, policyVars, chainVars, call, calls>>
    /\ Witness

\* grant_read and revoke_component change the grants and the revision under
\* the lock that a reader of the grants needs.
ChangeGrants ==
    /\ policy < MaxPolicy
    /\ \E n \in NeedsGrant :
          grants' = IF n[1] \in grants THEN grants \ {n[1]} ELSE grants \union {n[1]}
    /\ policy' = policy + 1
    /\ UNCHANGED <<topologyVars, tableVars, writer, readers, chainVars, call, calls>>
    /\ Witness
-----------------------------------------------------------------------------
(* Routing one request: resolve_provider, list_providers_with_mode,        *)
(* resolve_provider_handle and resolve_platform_provider.                  *)

At(t, pc) == call[t].pc = pc
Update(t, r) == call' = [call EXCEPT ![t] = r]
Goto(t, pc) == Update(t, [call[t] EXCEPT !.pc = pc])
Answered(t, a) == [call[t] EXCEPT !.pc = "answer", !.answer = a]

\* Which lock a request of each kind takes first.
FirstLock(kind) == CASE kind = "call" -> "lookup" [] kind = "handle" -> "use" [] OTHER -> "lock"

\* A thread inside of a callback or an execution calls as that component; any
\* other calls through a BoundServiceCaller or as the host.
Callers(t) ==
    IF stack[t] # <<>> THEN {Last(stack[t])}
    ELSE IF exec[t] # NoComponent THEN {exec[t]}
    ELSE Components \union {NoComponent}

\* A new request; the policy revision is read before any lock is taken.
Request(t) ==
    /\ At(t, "idle") /\ calls < MaxCalls
    /\ \E c \in Callers(t), k \in Contracts, h \in 0 .. next_handle,
          kind \in {"call", "list", "handle", "platform"} :
          /\ (c = NoComponent) <=> (kind = "platform")
          /\ h > 0 <=> kind = "handle"
          /\ kind = "handle" => \E i \in issued : i.handle = h /\ i.key.contract = k
          /\ call' = [call EXCEPT ![t] =
                [pc |-> FirstLock(kind), kind |-> kind, caller |-> c, contract |-> k, handle |-> h,
                 executing |-> exec[t] # NoComponent \/ stack[t] # <<>>,
                 rev |-> policy, unread |-> {}, ok |-> {}, answer |-> Refused("none")]]
          /\ seen' = [seen EXCEPT ![t] = {Fresh(call'[t])}]
    /\ calls' = calls + 1
    /\ UNCHANGED <<topologyVars, tableVars, writer, readers, policyVars, chainVars>>

\* Another round begins like the first.
ReadRevision(t) ==
    /\ At(t, "start")
    /\ Update(t, [call[t] EXCEPT !.rev = policy, !.pc = FirstLock(call[t].kind)])
    /\ UNCHANGED <<topologyVars, tableVars, writer, readers, policyVars, chainVars, calls, seen>>

RouteKey(r) == [caller |-> r.caller, contract |-> r.contract, executing |-> r.executing]
Hits(r, rev) ==
    {e \in route_cache : e.key = RouteKey(r) /\ e.topology = topology /\ e.policy = rev}

\* A hit, or an error that was cached, under the read lock.
LookUp(t) ==
    /\ At(t, "lookup") /\ writer = NoThread
    /\ IF Hits(call[t], call[t].rev) = {} THEN Goto(t, "lock")
       ELSE \E e \in Hits(call[t], call[t].rev) : Update(t, Answered(t, e.answer))
    /\ UNCHANGED <<topologyVars, tableVars, writer, readers, policyVars, chainVars, calls, seen>>

\* The components whose grants a resolution has to read.
Consulted(r) == {c \in {r.caller} \union Candidates(r.contract) : <<c, r.contract>> \in NeedsGrant}

Resolving(t, rev) ==
    [call[t] EXCEPT !.pc = "resolve", !.rev = rev, !.unread = Consulted(call[t]),
                    !.ok = Components \ Consulted(call[t])]

\* Takes the write lock, and looks again before resolving.
LockForCall(t) ==
    /\ At(t, "lock") /\ call[t].kind = "call" /\ writer = NoThread /\ readers = {}
    /\ IF Hits(call[t], policy) = {}
       THEN writer' = t /\ Update(t, Resolving(t, policy))
       ELSE \E e \in Hits(call[t], policy) : Update(t, Answered(t, e.answer)) /\ UNCHANGED writer
    /\ UNCHANGED <<topologyVars, tableVars, readers, policyVars, chainVars, calls, seen>>

\* sync_provider_handle_policy, to the revision read before the lock.
LockForList(t) ==
    /\ At(t, "lock") /\ call[t].kind = "list" /\ writer = NoThread /\ readers = {}
    /\ writer' = t
    /\ handle_policy' = call[t].rev
    /\ provider_handles' = IF handle_policy = call[t].rev THEN provider_handles ELSE {}
    /\ Update(t, Resolving(t, call[t].rev))
    /\ UNCHANGED <<topologyVars, topology, route_cache, next_handle, issued, readers,
                   policyVars, chainVars, calls, seen>>

LockForPlatform(t) ==
    /\ At(t, "lock") /\ call[t].kind = "platform" /\ writer = NoThread
    /\ readers' = readers \union {t}
    /\ Update(t, Resolving(t, call[t].rev))
    /\ UNCHANGED <<topologyVars, tableVars, writer, policyVars, chainVars, calls, seen>>

\* has_read_grant, for one component after the other.
ReadGrant(t) ==
    /\ At(t, "resolve")
    /\ \E c \in call[t].unread :
          Update(t, [call[t] EXCEPT !.unread = @ \ {c},
                        !.ok = IF Eligible(c, call[t].contract) THEN @ \union {c} ELSE @])
    /\ UNCHANGED <<topologyVars, tableVars, writer, readers, policyVars, chainVars, calls, seen>>

Unlock(t) == writer' = (IF writer = t THEN NoThread ELSE writer) /\ readers' = readers \ {t}
-----------------------------------------------------------------------------
\* Faulty: what was read is taken to belong together.
PolicyHeld_NotChecked(t) == TRUE

\* The grants did not change since the revision was read.
PolicyHeld(t) == policy = call[t].rev

\* Listings and host calls give up on a refusal without that check.
GivesUp(t) == call[t].kind # "call" /\ Binding(call[t], call[t].ok).error # "none"

Resolved(t) == At(t, "resolve") /\ call[t].unread = {}

\* Another round: the locks are dropped and the revision is read again.
ResolveAgain(t) ==
    /\ Resolved(t) /\ ~GivesUp(t) /\ ~PolicyHeld(t)
    /\ ~(call[t].kind = "list" /\ call[t].contract \in Single)
    /\ Goto(t, "start")
    /\ Unlock(t)
    /\ UNCHANGED <<topologyVars, tableVars, policyVars, chainVars, calls, seen>>

CacheRoute(e) == route_cache' = {d \in route_cache : d.key # e.key} \union {e}

\* The error is cached like the provider.
ResolveCall(t) ==
    /\ Resolved(t) /\ call[t].kind = "call" /\ PolicyHeld(t)
    /\ LET a == Answer(call[t], call[t].ok)
       IN  /\ CacheRoute([key |-> RouteKey(call[t]), topology |-> topology,
                          policy |-> call[t].rev, answer |-> a])
           /\ Update(t, Answered(t, a))
    /\ Unlock(t)
    /\ UNCHANGED <<topologyVars, topology, provider_handles, handle_policy, next_handle, issued,
                   policyVars, chainVars, calls, seen>>

ResolvePlatform(t) ==
    /\ Resolved(t) /\ call[t].kind = "platform" /\ (GivesUp(t) \/ PolicyHeld(t))
    /\ Update(t, Answered(t, Answer(call[t], call[t].ok)))
    /\ Unlock(t)
    /\ UNCHANGED <<topologyVars, tableVars, policyVars, chainVars, calls, seen>>

HandleKey(r, p) ==
    [caller |-> r.caller, contract |-> r.contract, provider |-> p, executing |-> r.executing]
HandledKeys == {b.key : b \in provider_handles}

\* issue_provider_handle: new keys get the next numbers, in the order of providers.
HandleNumber(new, p) == next_handle + Cardinality({q \in new : Rank[q] <= Rank[p]})

ResolveList(t) ==
    /\ Resolved(t) /\ call[t].kind = "list"
    /\ LET a == Answer(call[t], call[t].ok)
           new == {p \in a.providers : HandleKey(call[t], p) \notin HandledKeys}
           bindings == {[handle |-> HandleNumber(new, p), key |-> HandleKey(call[t], p)] : p \in new}
       IN  /\ a.error = "none" => PolicyHeld(t)
           /\ provider_handles' = provider_handles \union bindings
           /\ issued' = issued \union bindings
           /\ next_handle' = next_handle + Cardinality(new)
           /\ Update(t, Answered(t, a))
    /\ Unlock(t)
    /\ UNCHANGED <<topologyVars, topology, route_cache, handle_policy, policyVars, chainVars, calls, seen>>

\* The binding of a handle, for its own caller and in the mode it was listed in.
BindingsOf(r) ==
    {b \in provider_handles : /\ b.handle = r.handle /\ b.key.caller = r.caller
                              /\ b.key.executing = r.executing /\ b.key.provider \in registered}

UseHandle(t) ==
    /\ At(t, "use") /\ writer = NoThread
    /\ IF handle_policy # call[t].rev \/ BindingsOf(call[t]) = {}
       THEN Update(t, Answered(t, Refused("unavailable")))
       ELSE \E b \in BindingsOf(call[t]) : Update(t, Answered(t, Bound({b.key.provider})))
    /\ UNCHANGED <<topologyVars, tableVars, writer, readers, policyVars, chainVars, calls, seen>>
-----------------------------------------------------------------------------
(* Running components: invoke_provider, and the engine's own executions.   *)

Inside(t) == ToSet(stack[t]) \union ({exec[t]} \ {NoComponent})
Locked(c) == \E t \in Threads : c \in Inside(t)

Forget(t) == call' = [call EXCEPT ![t] = Idle] /\ seen' = [seen EXCEPT ![t] = {}]

Deliver(t) ==
    /\ At(t, "answer") /\ (call[t].kind = "list" \/ call[t].answer.error # "none")
    /\ Forget(t)
    /\ UNCHANGED <<topologyVars, tableVars, writer, readers, policyVars, chainVars, calls>>

Enter(t, p) == stack' = [stack EXCEPT ![t] = Append(@, p)] /\ UNCHANGED <<poisoned, exec, executions>>

\* Faulty: waits for the provider's mutex.
EnterOrRefuse_Blocks(t, p) ==
    \/ p \in ToSet(stack[t]) /\ UNCHANGED chainVars
    \/ ~Locked(p) /\ Enter(t, p)

\* CyclicCall, ProviderBusy (try_lock) and ProviderFailed (poisoned) refuse.
EnterOrRefuse(t, p) ==
    IF p \in ToSet(stack[t]) \/ Locked(p) \/ p \in poisoned
    THEN UNCHANGED chainVars
    ELSE Enter(t, p)

Invoke(t) ==
    /\ At(t, "answer") /\ call[t].kind # "list"
    /\ \E p \in call[t].answer.providers : EnterOrRefuse(t, p)
    /\ Forget(t)
    /\ UNCHANGED <<topologyVars, tableVars, writer, readers, policyVars, calls>>

\* handle_service returns, with a response or an error.
Return(t) ==
    /\ At(t, "idle") /\ stack[t] # <<>>
    /\ stack' = [stack EXCEPT ![t] = Front(@)]
    /\ UNCHANGED <<topologyVars, tableVars, writer, readers, policyVars, poisoned, exec, executions, callVars>>

\* The engine waits for the mutex of a component it executes.
Execute(t, c) ==
    /\ At(t, "idle") /\ stack[t] = <<>> /\ exec[t] = NoComponent
    /\ c \in registered /\ ~Locked(c) /\ c \notin poisoned
    /\ executions < MaxExecutions /\ executions' = executions + 1
    /\ exec' = [exec EXCEPT ![t] = c]
    /\ UNCHANGED <<topologyVars, tableVars, writer, readers, policyVars, poisoned, stack, callVars>>

ExecutionEnds(t) ==
    /\ At(t, "idle") /\ stack[t] = <<>> /\ exec[t] # NoComponent
    /\ exec' = [exec EXCEPT ![t] = NoComponent]
    /\ UNCHANGED <<topologyVars, tableVars, writer, readers, policyVars, poisoned, stack, executions, callVars>>

\* A callback panics: every mutex of the thread is dropped while unwinding.
Panic(t) ==
    /\ At(t, "idle") /\ Inside(t) # {} /\ poisoned = {}
    /\ poisoned' = Inside(t)
    /\ stack' = [stack EXCEPT ![t] = <<>>] /\ exec' = [exec EXCEPT ![t] = NoComponent]
    /\ UNCHANGED <<topologyVars, tableVars, writer, readers, policyVars, executions, callVars>>

Route(t) ==
    \/ ReadRevision(t) \/ LookUp(t)
    \/ LockForCall(t) \/ LockForList(t) \/ LockForPlatform(t)
    \/ ReadGrant(t) \/ ResolveAgain(t)
    \/ ResolveCall(t) \/ ResolveList(t) \/ ResolvePlatform(t) \/ UseHandle(t)
    \/ Deliver(t) \/ Invoke(t)

Next ==
    \/ ChangeTopology \/ ChangeGrants
    \/ \E t \in Threads :
          \/ Request(t) \/ Route(t) \/ Return(t)
          \/ \E c \in Components : Execute(t, c)
          \/ ExecutionEnds(t) \/ Panic(t)

\* A thread routes its request to the end, and callbacks return: native ones
\* by contract, WASM ones because their budget runs out.
Fairness == \A t \in Threads : WF_vars(Route(t)) /\ WF_vars(Return(t)) /\ WF_vars(ExecutionEnds(t))

Spec == Init /\ [][Next]_vars /\ Fairness
-----------------------------------------------------------------------------
\* Whatever the revisions, locks and the cache do, a call is answered as a
\* resolution in one instant between its start and its end would answer it,
\* errors included; so is a call of the host, unless it is refused.
RoutesAreFresh ==
    \A t \in Threads : At(t, "answer") =>
        \/ call[t].kind \in {"list", "handle"}
        \/ call[t].kind = "platform" /\ call[t].answer.error # "none"
        \/ call[t].answer \in seen[t]

\* A listing that succeeds is right for one instant since it was asked for,
\* and a handle leads to a provider that its caller's contract was bound to at
\* some instant since the handle was presented.  A number once given out never
\* comes to mean another caller, contract or provider, however often the table of
\* handles is cleared in between.
HandlesAreFresh ==
    /\ \A b, d \in issued : b.handle = d.handle => b.key = d.key
    /\ \A t \in Threads : At(t, "answer") /\ call[t].answer.error = "none" =>
          /\ call[t].kind = "list" => call[t].answer \in seen[t]
          /\ call[t].kind = "handle" => \E s \in seen[t] : call[t].answer.providers \subseteq s.providers

\* Components of several threads may call each other in a circle, and still
\* every request comes to an end.
EveryCallEnds == \A t \in Threads : ~At(t, "idle") ~> At(t, "idle")
=============================================================================
