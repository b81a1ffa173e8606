---------------------------- MODULE GuestRuntime ----------------------------
(***************************************************************************)
(* The WASM runtime of an execution-target provider and the components it  *)
(* hosts: crates/extension-engine/src/runtime/wasm.rs, target_provider.rs, *)
(* network.rs and what engine.rs does with the outcome of a callback.      *)
(*                                                                         *)
(* The provider and its delegates share one store: the guest instance,     *)
(* the handles of runtime effects, the background tasks and the sockets of *)
(* all of them.  Every entry takes the lock of that store with try_lock.   *)
(* The host's thread runs lifecycle callbacks, events, UI actions and the  *)
(* tasks that are due; workers of the worlds run services of delegates.    *)
(***************************************************************************)
EXTENDS Naturals, Sequences, FiniteSets, SequencesExt

CONSTANTS
    Provider,       \* the component that publishes an execution target
    Delegates,      \* components loaded through that target, in worlds
    Resources,      \* kinds of what a callback can acquire: tasks, sockets
    Declarations,   \* what a registration can declare: contracts, schemas, surfaces
    Capabilities,   \* the declarations the guest can take back
    MaxHandles,     \* bound on the handles ever given out
    MaxCallbacks    \* bound on the callbacks of the host's thread

Components == {Provider} \cup Delegates
Nobody == "nobody"

ASSUME GuestAssumption ==
    /\ Nobody \notin Components
    /\ Provider \notin Delegates /\ Resources \subseteq {"task", "socket"}
    /\ Capabilities \subseteq Declarations
    /\ MaxHandles \in Nat /\ MaxCallbacks \in Nat

VARIABLES
    state,      \* of each component: none, loaded, active or stopped
    store,      \* WasmSharedRuntime: there is no instance yet, it is live, or discarded
    handles,    \* effect_handles: what the guest knows of its effects
    registry,   \* RuntimeEffectRegistry: the effects the engine knows
    declared,   \* of each component: what its registration handed to the engine
    resources,  \* active_tasks and network_handles
    call,       \* the callback the host's thread is in
    due,        \* the tasks of the poll under way that are still to run
    stopping,   \* the components the engine has still to stop
    service,    \* the delegate whose service a worker runs
    given,      \* how many handles were given out
    callbacks,  \* how many callbacks were begun
    left,       \* history: the components whose stop met a busy store
    dropped,    \* history: the resources cancelled or revoked
    asked       \* history: what each guest that is registered, or is just registering,
                \* declared and did not take back

engine == <<state, registry, stopping, left>>
guest == <<store, handles, resources, given, dropped>>
host == <<call, due, callbacks>>
declarations == <<declared, asked>>
vars == <<engine, guest, host, service, declarations>>

NoCall == [of |-> Nobody]

Owned(s, o) == {x \in s : x.owner = o}

Init ==
    /\ state = [o \in Components |-> "none"]
    /\ declared = [o \in Components |-> {}]
    /\ asked = [o \in Components |-> {}]
    /\ store = "empty"
    /\ handles = {} /\ registry = {} /\ resources = {}
    /\ call = NoCall /\ due = <<>> /\ stopping = {}
    /\ service = Nobody
    /\ given = 0 /\ callbacks = 0
    /\ left = {} /\ dropped = {}

\* The host's thread is between two callbacks, and in no poll or quarantine.
Idle == call = NoCall /\ due = <<>> /\ stopping = {}
\* The host starts what it loaded before it turns to anything else.
Free == Idle /\ \A d \in Delegates : state[d] # "loaded"
Busy == service # Nobody        \* another thread holds the lock of the store

Registering == call # NoCall /\ call.kind = "register"
\* A registration opens nothing but its own scope; any other callback, of a delegate
\* as of the provider, opens tasks and the network.
ResourcesOpen == call # NoCall /\ ~Registering
\* The tasks of a delegate run with the provider's context and may not touch effects.
EffectsOpen == ResourcesOpen /\ ~(call.kind = "task" /\ call.of # Provider)

Called(o, kind, task) ==
    [of |-> o, kind |-> kind, task |-> task, subscribes |-> {}, revokes |-> {}, declares |-> {}]

Begun(o, kind, task) ==
    /\ callbacks < MaxCallbacks
    /\ callbacks' = callbacks + 1
    /\ call' = Called(o, kind, task)
    /\ UNCHANGED declarations

\* An instance is made once; one that a failed callback discarded is not made again.
Instantiated == store # "discarded" /\ store' = "live"

\* A registration opens one scope, for all the store; nothing that an earlier callback
\* opened stays open.
OpenScope(o) == call' = Called(o, "register", {})

\* A new component of the provider's artifact: its register callback.
RegisterProvider ==
    /\ Idle
    /\ state[Provider] = "none"
    /\ Instantiated
    /\ OpenScope(Provider)
    /\ UNCHANGED <<engine, declarations, handles, resources, given, dropped, due, callbacks,
                   service>>

\* The provider has taken a component of its target in: register_component.
RegisterDelegate(d) ==
    /\ Idle /\ ~Busy
    /\ state[d] = "none" /\ state[Provider] = "active" /\ store = "live"
    /\ OpenScope(d)
    /\ UNCHANGED <<engine, declarations, guest, due, callbacks, service>>

\* start: the provider's and those of delegates.
Start(o) ==
    /\ Idle /\ ~Busy
    /\ state[o] = "loaded"
    /\ IF o = Provider THEN Instantiated ELSE store = "live" /\ UNCHANGED store
    /\ Begun(o, "start", {})
    /\ UNCHANGED <<engine, handles, resources, given, dropped, due, service>>

\* A delegate whose start finds the store locked has failed to start.
StartWhileBusy(d) ==
    /\ Idle /\ Busy
    /\ state[d] = "loaded"
    /\ state' = [state EXCEPT ![d] = "stopped"]
    /\ UNCHANGED <<registry, stopping, left, guest, host, service, declarations>>

\* An event or a UI action reaches an active component.
Callback(o, kind) ==
    /\ Free /\ ~Busy
    /\ state[o] = "active"
    /\ Begun(o, kind, {})
    /\ UNCHANGED <<engine, guest, due, service>>

\* Faulty: dependents are not looked for.
Quarantine_Alone(o) == stopping' = {o}

\* Stopping a component takes its dependents along: they are stopped first.
Quarantine(o) ==
    stopping' = {o} \cup {d \in Delegates : o = Provider /\ state[d] = "active"}

\* An event finds the store locked by the service of another delegate: the error
\* is taken for a failed callback.  (The component's own service it waits for.)
EventWhileBusy(o) ==
    /\ Free /\ Busy /\ service # o
    /\ state[o] = "active"
    /\ callbacks < MaxCallbacks
    /\ callbacks' = callbacks + 1
    /\ Quarantine(o)
    /\ UNCHANGED <<state, registry, left, guest, call, due, service, declarations>>

\* poll_runtime of the provider: the tasks that are due, by owner and handle.
Poll ==
    /\ Free /\ ~Busy
    /\ state[Provider] = "active"
    /\ callbacks < MaxCallbacks
    /\ \E tasks \in SUBSET {r \in resources : r.kind = "task"} :
        /\ tasks # {}
        /\ \E order \in SetToSeqs(tasks) : due' = order
    /\ UNCHANGED <<engine, guest, call, callbacks, service, declarations>>

PollWhileBusy ==
    /\ Free /\ Busy
    /\ state[Provider] = "active"
    /\ callbacks < MaxCallbacks
    /\ callbacks' = callbacks + 1
    /\ Quarantine(Provider)
    /\ UNCHANGED <<state, registry, left, guest, call, due, service, declarations>>

\* Faulty: the list is trusted.
StillOwned_Trusted(task) == TRUE

\* A task of the list may have been cancelled or revoked by the one before.
StillOwned(task) == task \in resources

RunTask ==
    /\ call = NoCall /\ due # <<>> /\ stopping = {}
    /\ due' = Tail(due)
    /\ IF StillOwned(Head(due)) /\ callbacks < MaxCallbacks
       THEN Begun(Head(due).owner, "task", {Head(due)})
       ELSE UNCHANGED <<call, callbacks>>
    /\ UNCHANGED <<engine, guest, service, declarations>>

-----------------------------------------------------------------------------
\* Faulty: what is declared reaches the engine at once.
Queued_AtOnce(x) ==
    /\ call' = [call EXCEPT !.declares = @ \cup {x}]
    /\ declared' = [declared EXCEPT ![call.of] = @ \cup {x}]

\* queue_*: each declaration waits in the scope for the callback to return; a second
\* one of a key is refused, a second one of a capability is ignored.
Queued(x) ==
    /\ call' = [call EXCEPT !.declares = @ \cup {x}]
    /\ UNCHANGED declared

Declare(x) ==
    /\ Registering
    /\ Queued(x)
    /\ asked' = [asked EXCEPT ![call.of] = @ \cup {x}]
    /\ UNCHANGED <<engine, guest, due, callbacks, service>>

\* remove_queued_capability
Withdraw(x) ==
    /\ Registering
    /\ call' = [call EXCEPT !.declares = @ \ {x}]
    /\ asked' = [asked EXCEPT ![call.of] = @ \ {x}]
    /\ UNCHANGED <<engine, declared, guest, due, callbacks, service>>

\* What the guest asks for during any other callback.
Subscribe ==
    /\ EffectsOpen
    /\ given < MaxHandles
    /\ given' = given + 1
    /\ call' = [call EXCEPT !.subscribes = @ \cup {[owner |-> call.of, handle |-> given]}]
    /\ UNCHANGED <<engine, store, handles, resources, dropped, due, callbacks, service, declarations>>

\* A pending subscription is dropped; an installed one is revoked at the end.
Unsubscribe(e) ==
    /\ EffectsOpen
    /\ \/ /\ e \in call.subscribes
          /\ call' = [call EXCEPT !.subscribes = @ \ {e}]
       \/ /\ e \in Owned(handles, call.of) \ call.revokes
          /\ call' = [call EXCEPT !.revokes = @ \cup {e}]
    /\ UNCHANGED <<engine, guest, due, callbacks, service, declarations>>

\* spawn_periodic, listen_loopback, connect_loopback.
Acquire(kind) ==
    /\ ResourcesOpen
    /\ given < MaxHandles
    /\ given' = given + 1
    /\ resources' = resources \cup {[owner |-> call.of, handle |-> given, kind |-> kind]}
    /\ UNCHANGED <<engine, store, handles, dropped, host, service, declarations>>

\* cancel, close: only what is its own.
Release(r) ==
    /\ ResourcesOpen
    /\ r \in Owned(resources, call.of)
    /\ resources' = resources \ {r}
    /\ dropped' = dropped \cup {r}
    /\ UNCHANGED <<engine, store, handles, given, host, service, declarations>>

Revoked(o) ==
    /\ resources' = resources \ Owned(resources, o)
    /\ dropped' = dropped \cup Owned(resources, o)
-----------------------------------------------------------------------------
\* Faulty, twice: the engine keeps the effects; the store keeps tasks and sockets.
Abort_KeepsEffects(o) ==
    /\ handles' = handles \ Owned(handles, o)
    /\ registry' = registry
    /\ Revoked(o)

Abort_KeepsResources(o) ==
    /\ handles' = handles \ Owned(handles, o)
    /\ registry' = registry \ Owned(registry, o)
    /\ UNCHANGED <<resources, dropped>>

\* abort_guest_execution: nothing the component holds is left, in the store or
\* in the engine.
Abort(o) ==
    /\ handles' = handles \ Owned(handles, o)
    /\ registry' = registry \ Owned(registry, o)
    /\ Revoked(o)

\* The instance of the provider is discarded, with everything in the store.
Discard ==
    /\ store' = "discarded"
    /\ handles' = {}
    /\ resources' = {}
    /\ dropped' = dropped \cup resources
    /\ registry' = registry \ Owned(registry, call.of)

\* commit_runtime_effects applies every operation or, on an error, none: the
\* engine may not know an effect any more whose handle survived a stop.
CanCommit == call.revokes \subseteq registry

\* finish_registration: the scope is taken whole and handed to the engine.
Registered ==
    /\ Registering
    /\ state' = [state EXCEPT ![call.of] = "loaded"]
    /\ declared' = [declared EXCEPT ![call.of] = call.declares]
    /\ call' = NoCall
    /\ UNCHANGED <<registry, stopping, left, guest, due, callbacks, service,
                   asked>>

Return ==
    /\ ResourcesOpen
    /\ CanCommit
    /\ handles' = (handles \cup call.subscribes) \ call.revokes
    /\ registry' = (registry \cup call.subscribes) \ call.revokes
    /\ state' = IF call.kind = "start" THEN [state EXCEPT ![call.of] = "active"] ELSE state
    /\ call' = NoCall
    /\ UNCHANGED <<stopping, left, store, resources, given, dropped,
                   due, callbacks, service, declarations>>

\* The register callback traps or errors, or the engine refuses a declaration and
\* withdraws the others: the scope is dropped, the component is not registered.  The
\* store of a provider that fails here goes with the component.
RegistrationFails ==
    /\ Registering
    /\ store' = IF call.of = Provider THEN "empty" ELSE store
    /\ call' = NoCall
    /\ asked' = [asked EXCEPT ![call.of] = {}]
    /\ UNCHANGED <<engine, handles, resources, given, dropped, due, callbacks, service,
                   declared>>

\* The callback traps, answers an error, or its effects cannot be committed.
Fail ==
    /\ ResourcesOpen
    /\ call' = NoCall
    /\ due' = <<>>
    /\ CASE call.kind = "start" ->
                /\ state' = [state EXCEPT ![call.of] = "stopped"]
                /\ IF call.of = Provider THEN Discard ELSE Abort(call.of) /\ UNCHANGED store
                /\ UNCHANGED stopping
         [] call.kind = "event" ->
                /\ Abort(call.of)
                /\ Quarantine(call.of)
                /\ UNCHANGED <<state, store>>
         [] call.kind = "action" /\ call.of # Provider ->
                /\ Abort(call.of)
                /\ UNCHANGED <<state, store, stopping>>
         [] call.kind \in {"action", "task"} /\ call.of = Provider ->
                /\ Discard
                /\ Quarantine(Provider)
                /\ UNCHANGED state
         [] call.kind = "task" /\ call.of # Provider ->
                /\ Revoked(call.of)
                /\ Quarantine(Provider)
                /\ UNCHANGED <<state, store, handles, registry>>
    /\ UNCHANGED <<left, given, callbacks, service, declarations>>

-----------------------------------------------------------------------------
\* The host stops a component; a provider in use it may not.
StopInstance(o) ==
    /\ Free
    /\ state[o] = "active"
    /\ o = Provider => \A d \in Delegates : state[d] = "none"
    /\ stopping' = {o}
    /\ UNCHANGED <<state, registry, left, guest, host, service, declarations>>

\* One stop callback, of the provider after its dependents.  With the store locked by
\* another thread nothing in it is cleaned up, but the engine counts the component as
\* stopped.
StopNext(o) ==
    /\ o \in stopping /\ service # o
    /\ o = Provider => stopping = {o}
    /\ stopping' = stopping \ {o}
    /\ state' = [state EXCEPT ![o] = "stopped"]
    /\ registry' = registry \ Owned(registry, o)
    /\ \/ /\ Busy
          /\ left' = left \cup {o}
          /\ UNCHANGED <<store, handles, resources, dropped>>
       \/ /\ ~Busy
          /\ handles' = IF o = Provider THEN {} ELSE handles \ Owned(handles, o)
          /\ Revoked(o)
          /\ store' \in IF o = Provider /\ store = "live" THEN {"live", "discarded"} ELSE {store}
          /\ UNCHANGED left
    /\ UNCHANGED <<given, host, service, declarations>>

\* The host unregisters a delegate after its stop or failed start.
Unregister(d) ==
    /\ Idle
    /\ state[d] \in {"loaded", "stopped"}
    /\ state' = [state EXCEPT ![d] = "none"]
    /\ declared' = [declared EXCEPT ![d] = {}]
    /\ asked' = [asked EXCEPT ![d] = {}]
    /\ UNCHANGED <<registry, stopping, left, guest, host, service>>

\* A worker runs a service of a delegate, or finds the store locked: also between two
\* steps of a stop or a quarantine that has still to reach the delegate.
BeginService(d) ==
    /\ service = Nobody /\ call = NoCall /\ due = <<>>
    /\ state[d] = "active" /\ store = "live"
    /\ service' = d
    /\ UNCHANGED <<engine, guest, host, declarations>>

EndService ==
    /\ service # Nobody
    /\ service' = Nobody
    /\ UNCHANGED <<engine, guest, host, declarations>>

Next ==
    \/ RegisterProvider \/ Registered \/ RegistrationFails
    \/ (\E x \in Declarations : Declare(x)) \/ (\E x \in Capabilities : Withdraw(x))
    \/ \E d \in Delegates : RegisterDelegate(d) \/ StartWhileBusy(d) \/ Unregister(d) \/ BeginService(d)
    \/ \E o \in Components :
        Start(o) \/ Callback(o, "event") \/ Callback(o, "action") \/ EventWhileBusy(o)
        \/ StopInstance(o) \/ StopNext(o)
    \/ Poll \/ PollWhileBusy \/ RunTask
    \/ Subscribe \/ (\E e \in handles : Unsubscribe(e))
    \/ (\E kind \in Resources : Acquire(kind)) \/ (\E r \in resources : Release(r))
    \/ Return \/ Fail \/ EndService

Spec == Init /\ [][Next]_vars
-----------------------------------------------------------------------------
\* The engine delivers to a component only through effects whose handles the guest
\* holds and can revoke: a commit, an abort, or a stop changes both or neither.
EffectsHaveHandles ==
    Idle => \A o \in Components : state[o] = "active" => Owned(registry, o) \subseteq handles

\* The engine holds of a component all that its registration declared and did not
\* take back, and nothing of a component whose registration failed: every guest of
\* the store declares through the same scope.
DeclarationsComeWhole == Idle => declared = asked

\* While the provider polls, every task and socket belongs to a component that is
\* active or in a callback, or whose stop found the store busy.
ResourcesHaveOwners ==
    Idle /\ state[Provider] = "active" =>
        \A r \in resources : state[r.owner] = "active" \/ r.owner \in left

\* A task that was cancelled or revoked never runs again, not even in the poll
\* that had already found it due.
DroppedTasksNeverRun ==
    [][call = NoCall /\ call' # NoCall /\ call'.kind = "task" => call'.task \cap dropped = {}]_vars

\* No component is active without the guest instance that runs its callbacks: a
\* discarded store takes its delegates along.
ActiveComponentsHaveARuntime ==
    Idle => \A o \in Components : state[o] = "active" => store = "live" /\ state[Provider] = "active"
=============================================================================
