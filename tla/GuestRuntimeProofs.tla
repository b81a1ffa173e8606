------------------------- MODULE GuestRuntimeProofs -------------------------
(***************************************************************************)
(* Proofs about GuestRuntime, for any provider and delegates and any       *)
(* bounds on handles and callbacks: what the components of one store hold  *)
(* of each other, of the engine and of the store.                          *)
(***************************************************************************)
EXTENDS GuestRuntime, TLAPS

Effect == [owner : Components, handle : Nat]
Resource == [owner : Components, handle : Nat, kind : Resources]
Call == [of : Components, kind : {"register", "start", "event", "action", "task"},
         task : SUBSET Resource, subscribes : SUBSET Effect, revokes : SUBSET Effect,
         declares : SUBSET Declarations]

\* The shape of the state.
GuestTypeOK ==
    /\ state \in [Components -> {"none", "loaded", "active", "stopped"}]
    /\ store \in {"empty", "live", "discarded"}
    /\ handles \subseteq Effect /\ registry \subseteq Effect
    /\ resources \subseteq Resource /\ dropped \subseteq Resource
    /\ call \in Call \cup {NoCall}
    /\ stopping \subseteq Components /\ left \subseteq Components
    /\ given \in Nat
    /\ declared \in [Components -> SUBSET Declarations]
    /\ asked \in [Components -> SUBSET Declarations]

\* Who can be in a callback, in what state, and what the callback may have asked for.
Calls ==
    call # NoCall =>
        /\ stopping = {} /\ store = "live"
        /\ call.of # Provider => state[Provider] = "active"
        /\ call.kind = "register" => state[call.of] = "none"
        /\ call.kind = "start" => state[call.of] = "loaded"
        /\ call.kind \in {"event", "action"} => state[call.of] = "active"
        /\ call.kind = "task" => state[call.of] = "active" \/ call.of \in left
        /\ call.kind = "task" => state[Provider] = "active"
        /\ call.kind # "task" => due = <<>>
        /\ call.kind = "task" /\ call.of # Provider => call.subscribes = {}
        /\ \A e \in call.subscribes : e.owner = call.of
        /\ call.kind = "register" => call.subscribes = {} /\ call.revokes = {}

\* Nothing is stopped in the middle of a poll.
Polling == due # <<>> => stopping = {} /\ state[Provider] = "active"

\* What was loaded is started before anything else happens.
Loaded ==
    \A d \in Delegates : state[d] = "loaded" =>
        /\ stopping = {} /\ due = <<>>
        /\ state[Provider] = "active" /\ store = "live"
        /\ call # NoCall => call.kind \in {"register", "start"}

\* Whoever is active is hosted by a live store, or among those being stopped; when the
\* provider is being stopped, so is everybody else.
Hosted ==
    /\ \A o \in Components : state[o] = "active" /\ o \notin stopping =>
            store = "live" /\ state[Provider] = "active"
    /\ Provider \in stopping => \A o \in Components : state[o] = "active" => o \in stopping

Effects ==
    /\ \A o \in Components : state[o] = "active" /\ o \notin stopping => Owned(registry, o) \subseteq handles
    /\ \A o \in Components : state[o] # "active" => Owned(registry, o) = {}

\* Until the provider is stopped, a resource belongs to a component that is active, is
\* starting, or was left when it was stopped.
Owners ==
    state[Provider] # "stopped" =>
        \A r \in resources :
            \/ state[r.owner] = "active" \/ r.owner \in left
            \/ call # NoCall /\ call.kind = "start" /\ call.of = r.owner

\* Handles are never given out twice.
Fresh ==
    /\ \A r \in resources \cup dropped : r.handle < given
    /\ resources \cap dropped = {}

\* What is asked for is declared, but for the registration under way.
Declared ==
    /\ \A o \in Components : state[o] = "none" => declared[o] = {}
    /\ \A o \in Components :
        asked[o] = IF call # NoCall /\ call.kind = "register" /\ call.of = o
                   THEN call.declares ELSE declared[o]

GuestInv ==
    /\ GuestTypeOK /\ Calls /\ Polling /\ Loaded /\ Hosted
    /\ Effects /\ Owners /\ Fresh /\ Declared

\* Registration begins: the scope of the store is open, and nothing else.
LEMMA RegisterProviderInv ==
    ASSUME GuestInv, RegisterProvider PROVE GuestInv'
<1>1. Polling' /\ Effects' /\ Fresh'
    BY DEF GuestInv, Polling, Effects, Fresh, Owned, RegisterProvider, engine, host,
       declarations, Instantiated
<1>2. GuestTypeOK'
    BY DEF GuestInv, GuestTypeOK, Effect, Resource, Call, Components, RegisterProvider,
       Instantiated, OpenScope, Called, engine, declarations
<1>3. Calls'
    BY GuestAssumption DEF GuestInv, Calls, RegisterProvider, Idle, Instantiated, OpenScope,
       Called, engine, host, declarations
<1>4. Loaded'
    BY GuestAssumption DEF GuestInv, Loaded, RegisterProvider, OpenScope, Called, engine,
       host, declarations
<1>5. Hosted'
    BY GuestAssumption DEF GuestInv, Hosted, RegisterProvider, OpenScope, Called, engine,
       declarations
<1>6. Owners'
    BY GuestAssumption DEF GuestInv, Owners, RegisterProvider, Idle, OpenScope, Called,
       engine, declarations
<1>7. Declared'
    BY GuestAssumption DEF GuestInv, Declared, RegisterProvider, Idle, OpenScope, Called,
       engine, declarations
<1> QED BY <1>1, <1>2, <1>3, <1>4, <1>5, <1>6, <1>7 DEF GuestInv

LEMMA RegisterDelegateInv ==
    ASSUME GuestInv, NEW d \in Delegates, RegisterDelegate(d) PROVE GuestInv'
<1>1. Polling' /\ Hosted' /\ Effects' /\ Fresh'
    BY DEF GuestInv, Polling, Hosted, Effects, Fresh, Owned, RegisterDelegate, engine,
       guest, host, declarations
<1>2. GuestTypeOK'
    BY DEF GuestInv, GuestTypeOK, Effect, Resource, Call, Components, RegisterDelegate,
       OpenScope, Called, engine, guest, declarations
<1>3. Calls'
    BY GuestAssumption DEF GuestInv, Calls, RegisterDelegate, Idle, OpenScope, Called,
       engine, guest, host, declarations
<1>4. Loaded'
    BY GuestAssumption DEF GuestInv, Loaded, RegisterDelegate, OpenScope, Called, engine,
       guest, host, declarations
<1>5. Owners'
    BY GuestAssumption DEF GuestInv, Owners, RegisterDelegate, Idle, OpenScope, Called,
       engine, guest, declarations
<1>6. Declared'
    BY GuestAssumption DEF GuestInv, Declared, RegisterDelegate, Idle, OpenScope, Called,
       engine, declarations
<1> QED BY <1>1, <1>2, <1>3, <1>4, <1>5, <1>6 DEF GuestInv

LEMMA RegisteredInv ==
    ASSUME GuestInv, Registered PROVE GuestInv'
<1>1. Fresh' BY DEF GuestInv, Fresh, Registered, guest
<1>2. GuestTypeOK'
    BY DEF GuestInv, GuestTypeOK, Effect, Resource, Call, Registered, Registering, guest
<1>3. Calls' BY GuestAssumption DEF GuestInv, Calls, Registered
<1>4. Polling' BY DEF GuestInv, Polling, Calls, Registered, Registering
<1>5. Loaded' BY GuestAssumption DEF GuestInv, Loaded, Calls, Registered, Registering, guest
<1>6. Hosted' BY DEF GuestInv, Hosted, Calls, Registered, Registering, guest
<1>7. Effects' BY DEF GuestInv, Effects, Calls, Registered, Registering, guest
<1>8. Owners' BY DEF GuestInv, Owners, Calls, Registered, Registering, guest
<1>9. Declared' BY DEF GuestInv, Declared, GuestTypeOK, Registered, Registering
<1> QED BY <1>1, <1>2, <1>3, <1>4, <1>5, <1>6, <1>7, <1>8, <1>9 DEF GuestInv

LEMMA RegistrationFailsInv ==
    ASSUME GuestInv, RegistrationFails PROVE GuestInv'
<1>1. Polling' /\ Effects' /\ Fresh'
    BY DEF GuestInv, Polling, Effects, Fresh, Owned, RegistrationFails, engine
<1>2. GuestTypeOK' BY DEF GuestInv, GuestTypeOK, RegistrationFails, engine
<1>3. Calls' BY GuestAssumption DEF GuestInv, Calls, RegistrationFails
<1>4. Loaded' BY DEF GuestInv, Loaded, Calls, RegistrationFails, Registering, engine
<1>5. Hosted' BY DEF GuestInv, Hosted, Calls, RegistrationFails, Registering, engine
<1>6. Owners' BY DEF GuestInv, Owners, RegistrationFails, Registering, engine
<1>7. Declared'
    BY DEF GuestInv, Declared, Calls, GuestTypeOK, RegistrationFails, Registering, engine
<1> QED BY <1>1, <1>2, <1>3, <1>4, <1>5, <1>6, <1>7 DEF GuestInv

\* Inside a registration.
LEMMA DeclareInv ==
    ASSUME GuestInv, NEW x \in Declarations, Declare(x) PROVE GuestInv'
<1>1. Polling' /\ Hosted' /\ Effects' /\ Fresh'
    BY DEF GuestInv, Polling, Hosted, Effects, Fresh, Owned, Declare, engine, guest
<1>2. GuestTypeOK'
    BY DEF GuestInv, GuestTypeOK, Effect, Resource, Call, Declare, Queued, Registering,
       engine, guest
<1>3. Calls' BY GuestAssumption DEF GuestInv, Calls, Declare, Queued, Registering, engine, guest
<1>4. Loaded'
    BY GuestAssumption DEF GuestInv, Loaded, Declare, Queued, Registering, engine, guest
<1>5. Owners' BY DEF GuestInv, Owners, Declare, Queued, Registering, engine, guest
<1>6. Declared'
    BY DEF GuestInv, Declared, GuestTypeOK, Effect, Resource, Call, NoCall, Declare, Queued,
       Registering, engine
<1> QED BY <1>1, <1>2, <1>3, <1>4, <1>5, <1>6 DEF GuestInv

LEMMA WithdrawInv ==
    ASSUME GuestInv, NEW x \in Capabilities, Withdraw(x) PROVE GuestInv'
<1>1. Polling' /\ Hosted' /\ Effects' /\ Fresh'
    BY DEF GuestInv, Polling, Hosted, Effects, Fresh, Owned, Withdraw, engine, guest
<1>2. GuestTypeOK'
    BY DEF GuestInv, GuestTypeOK, Effect, Resource, Call, Withdraw, Registering, engine,
       guest
<1>3. Calls' BY GuestAssumption DEF GuestInv, Calls, Withdraw, Registering, engine, guest
<1>4. Loaded' BY GuestAssumption DEF GuestInv, Loaded, Withdraw, Registering, engine, guest
<1>5. Owners' BY DEF GuestInv, Owners, Withdraw, Registering, engine, guest
<1>6. Declared'
    BY DEF GuestInv, Declared, GuestTypeOK, Effect, Resource, Call, NoCall, Withdraw,
       Registering, engine
<1> QED BY <1>1, <1>2, <1>3, <1>4, <1>5, <1>6 DEF GuestInv

\* Callbacks begin.
LEMMA StartInv ==
    ASSUME GuestInv, NEW o \in Components, Start(o) PROVE GuestInv'
<1>1. Polling' /\ Effects' /\ Fresh'
    BY DEF GuestInv, Polling, Effects, Fresh, Owned, Start, engine, host, declarations,
       Begun, Instantiated
<1>2. GuestTypeOK'
    BY DEF GuestInv, GuestTypeOK, Effect, Resource, Call, Start, Instantiated, Begun,
       Called, engine, declarations
<1>3. Calls'
    BY GuestAssumption DEF GuestInv, Calls, Loaded, Components, Start, Idle, Instantiated,
       Begun, Called, engine, host, declarations
<1>4. Loaded'
    BY GuestAssumption DEF GuestInv, Loaded, Start, Begun, Called, engine, host,
       declarations
<1>5. Hosted'
    BY GuestAssumption DEF GuestInv, Hosted, Start, Begun, Called, engine, declarations
<1>6. Owners'
    BY GuestAssumption DEF GuestInv, Owners, Start, Idle, Begun, Called, engine,
       declarations
<1>7. Declared'
    BY GuestAssumption DEF GuestInv, Declared, Start, Idle, Begun, Called, engine,
       declarations
<1> QED BY <1>1, <1>2, <1>3, <1>4, <1>5, <1>6, <1>7 DEF GuestInv

LEMMA StartWhileBusyInv ==
    ASSUME GuestInv, NEW d \in Delegates, StartWhileBusy(d) PROVE GuestInv'
<1>1. Fresh' BY DEF GuestInv, Fresh, StartWhileBusy, guest, host, declarations
<1>2. GuestTypeOK' BY DEF GuestInv, GuestTypeOK, StartWhileBusy, guest, host, declarations
<1>3. Calls' BY GuestAssumption DEF GuestInv, Calls, StartWhileBusy, Idle, host, declarations
<1>4. Polling' BY DEF GuestInv, Polling, StartWhileBusy, host
<1>5. Loaded' BY GuestAssumption DEF GuestInv, Loaded, StartWhileBusy, guest, host, declarations
<1>6. Hosted' BY GuestAssumption DEF GuestInv, Hosted, StartWhileBusy, guest
<1>7. Effects' BY GuestAssumption DEF GuestInv, Effects, StartWhileBusy, guest
<1>8. Owners' BY GuestAssumption DEF GuestInv, Owners, StartWhileBusy, guest, host
<1>9. Declared' BY DEF GuestInv, Declared, StartWhileBusy, host, declarations
<1> QED BY <1>1, <1>2, <1>3, <1>4, <1>5, <1>6, <1>7, <1>8, <1>9 DEF GuestInv

LEMMA CallbackInv ==
    ASSUME GuestInv, NEW o \in Components, NEW kind \in {"event", "action"}, Callback(o, kind) PROVE GuestInv'
<1>1. Polling' /\ Hosted' /\ Effects' /\ Fresh'
    BY DEF GuestInv, Polling, Hosted, Effects, Fresh, Owned, Callback, engine, guest, host,
       declarations, Begun
<1>2. GuestTypeOK'
    BY DEF GuestInv, GuestTypeOK, Effect, Resource, Call, Callback, Begun, Called, engine,
       guest, declarations
<1>3. Calls'
    BY GuestAssumption DEF GuestInv, Calls, Hosted, Callback, Free, Idle, Begun, Called,
       engine, guest, host, declarations
<1>4. Loaded'
    BY GuestAssumption DEF GuestInv, Loaded, Callback, Free, Begun, Called, engine, guest,
       host, declarations
<1>5. Owners'
    BY GuestAssumption DEF GuestInv, Owners, Callback, Free, Idle, Begun, Called, engine,
       guest, host, declarations
<1>6. Declared'
    BY GuestAssumption DEF GuestInv, Declared, Callback, Free, Idle, Begun, Called, engine,
       declarations
<1> QED BY <1>1, <1>2, <1>3, <1>4, <1>5, <1>6 DEF GuestInv

\* The store is locked by a worker: components are condemned, not yet stopped.
LEMMA EventWhileBusyInv ==
    ASSUME GuestInv, NEW o \in Components, EventWhileBusy(o) PROVE GuestInv'
<1>1. Owners' /\ Fresh' /\ Declared'
    BY DEF GuestInv, Owners, Fresh, Declared, EventWhileBusy, guest, host, declarations
<1>2. GuestTypeOK'
    BY DEF GuestInv, GuestTypeOK, Components, EventWhileBusy, Quarantine, guest,
       declarations
<1>3. Calls'
    BY GuestAssumption DEF GuestInv, Calls, EventWhileBusy, Free, Idle, Quarantine, guest,
       host, declarations
<1>4. Polling' BY GuestAssumption DEF GuestInv, Polling, EventWhileBusy, Free, Idle, Quarantine
<1>5. Loaded'
    BY GuestAssumption DEF GuestInv, Loaded, EventWhileBusy, Free, Quarantine, host,
       declarations
<1>6. Hosted'
    BY GuestAssumption DEF GuestInv, Hosted, Components, EventWhileBusy, Free, Idle,
       Quarantine, guest, declarations
<1>7. Effects'
    BY GuestAssumption DEF GuestInv, Effects, EventWhileBusy, Free, Idle, Quarantine, guest,
       declarations
<1> QED BY <1>1, <1>2, <1>3, <1>4, <1>5, <1>6, <1>7 DEF GuestInv

LEMMA PollInv ==
    ASSUME GuestInv, Poll PROVE GuestInv'
<1>1. Hosted' /\ Effects' /\ Owners' /\ Fresh' /\ Declared'
    BY DEF GuestInv, Hosted, Effects, Owners, Fresh, Declared, Owned, Poll, engine, guest,
       host, declarations
<1>2. GuestTypeOK' BY DEF GuestInv, GuestTypeOK, Poll, engine, guest, declarations
<1>3. Calls'
    BY GuestAssumption DEF GuestInv, Calls, Poll, Free, Idle, engine, guest, host,
       declarations
<1>4. Polling' BY GuestAssumption DEF GuestInv, Polling, Poll, Free, Idle, engine, declarations
<1>5. Loaded'
    BY GuestAssumption DEF GuestInv, Loaded, Poll, Free, engine, guest, host, declarations
<1> QED BY <1>1, <1>2, <1>3, <1>4, <1>5 DEF GuestInv

LEMMA PollWhileBusyInv ==
    ASSUME GuestInv, PollWhileBusy PROVE GuestInv'
<1>1. Owners' /\ Fresh' /\ Declared'
    BY DEF GuestInv, Owners, Fresh, Declared, PollWhileBusy, guest, host, declarations
<1>2. GuestTypeOK'
    BY DEF GuestInv, GuestTypeOK, Components, PollWhileBusy, Quarantine, guest, declarations
<1>3. Calls'
    BY GuestAssumption DEF GuestInv, Calls, PollWhileBusy, Free, Idle, Quarantine, guest,
       host, declarations
<1>4. Polling' BY GuestAssumption DEF GuestInv, Polling, PollWhileBusy, Free, Idle, Quarantine
<1>5. Loaded'
    BY GuestAssumption DEF GuestInv, Loaded, PollWhileBusy, Free, Quarantine, host,
       declarations
<1>6. Hosted'
    BY GuestAssumption DEF GuestInv, Hosted, Components, PollWhileBusy, Quarantine,
       declarations
<1>7. Effects'
    BY GuestAssumption DEF GuestInv, Effects, PollWhileBusy, Free, Idle, Quarantine, guest,
       declarations
<1> QED BY <1>1, <1>2, <1>3, <1>4, <1>5, <1>6, <1>7 DEF GuestInv

\* A task of the poll runs, if it is still owned.
LEMMA RunTaskInv ==
    ASSUME GuestInv, RunTask PROVE GuestInv'
<1>1. Hosted' /\ Effects' /\ Fresh'
    BY DEF GuestInv, Hosted, Effects, Fresh, Owned, RunTask, engine, guest, declarations,
       Begun
<1>2. GuestTypeOK'
    BY DEF GuestInv, GuestTypeOK, Effect, Resource, Call, RunTask, StillOwned, Begun,
       Called, engine, guest, declarations
<1>3. Calls'
    BY GuestAssumption DEF GuestInv, Calls, Polling, Hosted, Owners, Components, RunTask,
       StillOwned, Begun, Called, engine, guest, declarations
<1>4. Polling' BY DEF GuestInv, Polling, RunTask, Begun, Called, engine
<1>5. Loaded'
    BY GuestAssumption DEF GuestInv, Loaded, RunTask, Begun, Called, engine, declarations
<1>6. Owners' BY GuestAssumption DEF GuestInv, Owners, RunTask, Begun, Called, engine, guest
<1>7. Declared' BY DEF GuestInv, Declared, RunTask, Begun, Called, engine, declarations
<1> QED BY <1>1, <1>2, <1>3, <1>4, <1>5, <1>6, <1>7 DEF GuestInv

\* Inside a callback.
LEMMA SubscribeInv ==
    ASSUME GuestInv, Subscribe PROVE GuestInv'
<1>1. Polling' /\ Hosted' /\ Effects'
    BY DEF GuestInv, Polling, Hosted, Effects, Owned, Subscribe, engine, declarations
<1>2. GuestTypeOK'
    BY DEF GuestInv, GuestTypeOK, Effect, Resource, Call, Subscribe, EffectsOpen,
       ResourcesOpen, engine, declarations
<1>3. Calls'
    BY GuestAssumption DEF GuestInv, Calls, Subscribe, EffectsOpen, ResourcesOpen,
       Registering, engine, declarations
<1>4. Loaded'
    BY GuestAssumption DEF GuestInv, Loaded, Subscribe, EffectsOpen, ResourcesOpen, engine,
       declarations
<1>5. Owners'
    BY GuestAssumption DEF GuestInv, Owners, GuestTypeOK, Effect, Resource, Call, NoCall,
       Subscribe, engine, declarations
<1>6. Fresh' BY DEF GuestInv, Fresh, GuestTypeOK, Effect, Resource, Call, Subscribe
<1>7. Declared'
    BY GuestAssumption DEF GuestInv, Declared, Subscribe, EffectsOpen, ResourcesOpen,
       Registering, engine, declarations
<1> QED BY <1>1, <1>2, <1>3, <1>4, <1>5, <1>6, <1>7 DEF GuestInv

LEMMA UnsubscribeInv ==
    ASSUME GuestInv, NEW e \in handles, Unsubscribe(e) PROVE GuestInv'
<1>1. Polling' /\ Hosted' /\ Effects' /\ Fresh'
    BY DEF GuestInv, Polling, Hosted, Effects, Fresh, Owned, Unsubscribe, engine, guest,
       declarations
<1>2. GuestTypeOK'
    BY DEF GuestInv, GuestTypeOK, Effect, Resource, Call, Unsubscribe, EffectsOpen,
       ResourcesOpen, engine, guest, declarations
<1>3. Calls'
    BY GuestAssumption DEF GuestInv, Calls, GuestTypeOK, Call, Effect, Resource,
       Unsubscribe, EffectsOpen, ResourcesOpen, Registering, engine, guest, declarations
<1>4. Loaded'
    BY GuestAssumption DEF GuestInv, Loaded, GuestTypeOK, Effect, Resource, Call,
       Unsubscribe, EffectsOpen, ResourcesOpen, engine, guest, declarations
<1>5. Owners'
    BY GuestAssumption DEF GuestInv, Owners, GuestTypeOK, Effect, Resource, Call, NoCall,
       Unsubscribe, engine, guest, declarations
<1>6. Declared'
    BY GuestAssumption DEF GuestInv, Declared, GuestTypeOK, Effect, Resource, Call,
       Unsubscribe, EffectsOpen, ResourcesOpen, Registering, engine, declarations
<1> QED BY <1>1, <1>2, <1>3, <1>4, <1>5, <1>6 DEF GuestInv

LEMMA AcquireInv ==
    ASSUME GuestInv, NEW kind \in Resources, Acquire(kind) PROVE GuestInv'
<1>1. Calls' /\ Polling' /\ Loaded' /\ Hosted' /\ Effects' /\ Declared'
    BY DEF GuestInv, Calls, Polling, Loaded, Hosted, Effects, Declared, Owned, Acquire,
       engine, host, declarations
<1>2. GuestTypeOK'
    BY DEF GuestInv, GuestTypeOK, Effect, Resource, Call, Acquire, ResourcesOpen, engine,
       host, declarations
<1>3. Owners'
    BY GuestAssumption DEF GuestInv, Owners, Calls, GuestTypeOK, Effect, Resource, Call,
       Acquire, ResourcesOpen, Registering, engine, host, declarations
<1>4. Fresh' BY DEF GuestInv, Fresh, GuestTypeOK, Effect, Resource, Call, Acquire
<1> QED BY <1>1, <1>2, <1>3, <1>4 DEF GuestInv

LEMMA ReleaseInv ==
    ASSUME GuestInv, NEW r \in resources, Release(r) PROVE GuestInv'
<1>1. Calls' /\ Polling' /\ Loaded' /\ Hosted' /\ Effects' /\ Declared'
    BY DEF GuestInv, Calls, Polling, Loaded, Hosted, Effects, Declared, Owned, Release,
       engine, host, declarations
<1>2. GuestTypeOK' BY DEF GuestInv, GuestTypeOK, Release, engine, host, declarations
<1>3. Owners' BY GuestAssumption DEF GuestInv, Owners, Release, engine, host, declarations
<1>4. Fresh' BY DEF GuestInv, Fresh, Release
<1> QED BY <1>1, <1>2, <1>3, <1>4 DEF GuestInv

\* A callback ends.
LEMMA ReturnInv ==
    ASSUME GuestInv, Return PROVE GuestInv'
<1>1. Fresh' BY DEF GuestInv, Fresh, Return, declarations
<1>2. GuestTypeOK'
    BY DEF GuestInv, GuestTypeOK, Effect, Resource, Call, Return, ResourcesOpen,
       declarations
<1>3. Calls' BY GuestAssumption DEF GuestInv, Calls, Return, Registering, declarations
<1>4. Polling' BY DEF GuestInv, Polling, Return
<1>5. Loaded' BY GuestAssumption DEF GuestInv, Loaded, Return, declarations
<1>6. Hosted' BY GuestAssumption DEF GuestInv, Hosted, Calls, Return, ResourcesOpen
<1>7. Effects'
    BY GuestAssumption DEF GuestInv, Effects, Calls, GuestTypeOK, Effect, Resource, Call,
       Owned, Return, ResourcesOpen
<1>8. Owners'
    BY GuestAssumption DEF GuestInv, Owners, Calls, GuestTypeOK, Effect, Resource, Call,
       Return, ResourcesOpen
<1>9. Declared' BY DEF GuestInv, Declared, Return, ResourcesOpen, Registering, declarations
<1> QED BY <1>1, <1>2, <1>3, <1>4, <1>5, <1>6, <1>7, <1>8, <1>9 DEF GuestInv

\* How a failed callback ends depends on whose it was and on its kind.
LEMMA FailCases ==
    ASSUME GuestInv, Fail
    PROVE  /\ call \in Call /\ ~Registering /\ call # NoCall
           /\ call' = NoCall /\ due' = <<>>
           /\ UNCHANGED <<left, given, declarations>>
           /\ \/ /\ call.kind = "start" /\ call.of = Provider
                 /\ state' = [state EXCEPT ![Provider] = "stopped"]
                 /\ Discard /\ UNCHANGED stopping
              \/ /\ call.kind = "start" /\ call.of # Provider
                 /\ state' = [state EXCEPT ![call.of] = "stopped"]
                 /\ Abort(call.of) /\ UNCHANGED <<store, stopping>>
              \/ /\ call.kind = "event"
                 /\ Abort(call.of) /\ Quarantine(call.of) /\ UNCHANGED <<state, store>>
              \/ /\ call.kind = "action" /\ call.of # Provider
                 /\ Abort(call.of) /\ UNCHANGED <<state, store, stopping>>
              \/ /\ call.kind \in {"action", "task"} /\ call.of = Provider
                 /\ Discard /\ Quarantine(Provider) /\ UNCHANGED state
              \/ /\ call.kind = "task" /\ call.of # Provider
                 /\ Revoked(call.of) /\ Quarantine(Provider)
                 /\ UNCHANGED <<state, store, handles, registry>>
<1>1. call \in Call /\ ~Registering /\ call # NoCall
    BY DEF Fail, ResourcesOpen, GuestInv, GuestTypeOK
<1>2. call.kind \in {"start", "event", "action", "task"}
    BY <1>1 DEF Call, Registering
<1> QED BY <1>1, <1>2 DEF Fail

LEMMA FailInv ==
    ASSUME GuestInv, Fail PROVE GuestInv'
<1> USE DEF Call, Effect, Resource
<1>1. GuestTypeOK'
    BY FailCases DEF GuestInv, GuestTypeOK, Components, Owned, Abort, Discard, Revoked, Quarantine,
       declarations
<1>2. Calls' /\ Polling'
    BY FailCases DEF Calls, Polling
<1>3. Loaded'
    BY FailCases, GuestAssumption DEF GuestInv, GuestTypeOK, Calls, Loaded, Components, Registering,
       Quarantine, Abort, Discard, declarations
<1>4. Hosted'
    BY FailCases, GuestAssumption DEF GuestInv, GuestTypeOK, Calls, Hosted, Components, Quarantine,
       Discard, declarations
<1>5. Effects'
  <2>1. CASE call.kind = "start" /\ call.of = Provider
    <3>1. \A o \in Components : state[o] # "active"
        BY <2>1, FailCases DEF GuestInv, Calls, Hosted
    <3>2. registry = {}
        BY <3>1 DEF GuestInv, GuestTypeOK, Effects, Owned
    <3> QED BY <2>1, <3>1, <3>2, FailCases DEF GuestInv, GuestTypeOK, Effects, Components, Owned,
            Discard
  <2>2. CASE call.kind = "start" /\ call.of # Provider
    BY <2>2, FailCases DEF GuestInv, GuestTypeOK, Calls, Effects, Components, Owned, Abort
  <2>3. CASE call.kind = "event"
    BY <2>3, FailCases DEF GuestInv, GuestTypeOK, Calls, Effects, Hosted, Components, Owned, Abort,
       Quarantine
  <2>4. CASE call.kind = "action" /\ call.of # Provider
    BY <2>4, FailCases DEF GuestInv, GuestTypeOK, Calls, Effects, Components, Owned, Abort
  <2>5. CASE call.kind \in {"action", "task"} /\ call.of = Provider
    BY <2>5, FailCases DEF GuestInv, GuestTypeOK, Calls, Effects, Components, Owned, Discard,
       Quarantine
  <2>6. CASE call.kind = "task" /\ call.of # Provider
    BY <2>6, FailCases DEF GuestInv, GuestTypeOK, Calls, Effects, Components, Quarantine
  <2> QED BY <2>1, <2>2, <2>3, <2>4, <2>5, <2>6, FailCases DEF Registering
<1>6. Owners'
  <2>1. CASE call.kind = "start"
    BY <2>1, FailCases DEF GuestInv, GuestTypeOK, Calls, Owners, Owned, Abort, Discard, Revoked
  <2>2. CASE call.kind # "start"
    BY <2>2, FailCases DEF GuestInv, GuestTypeOK, Calls, Owners, Owned, Abort, Discard, Revoked
  <2> QED BY <2>1, <2>2
<1>7. Fresh'
    BY FailCases DEF GuestInv, GuestTypeOK, Fresh, Owned, Abort, Discard, Revoked
<1>8. Declared'
    BY FailCases, GuestAssumption DEF GuestInv, GuestTypeOK, Declared, Registering, Abort, Discard,
       declarations
<1> QED BY <1>1, <1>2, <1>3, <1>4, <1>5, <1>6, <1>7, <1>8 DEF GuestInv


\* Components are stopped.
LEMMA StopInstanceInv ==
    ASSUME GuestInv, NEW o \in Components, StopInstance(o) PROVE GuestInv'
<1>1. Owners' /\ Fresh' /\ Declared'
    BY DEF GuestInv, Owners, Fresh, Declared, StopInstance, guest, host, declarations
<1>2. GuestTypeOK' BY DEF GuestInv, GuestTypeOK, StopInstance, guest, host, declarations
<1>3. Calls'
    BY GuestAssumption DEF GuestInv, Calls, StopInstance, Free, Idle, guest, host,
       declarations
<1>4. Polling' BY GuestAssumption DEF GuestInv, Polling, StopInstance, Free, Idle, host
<1>5. Loaded' BY GuestAssumption DEF GuestInv, Loaded, StopInstance, Free, host, declarations
<1>6. Hosted'
    BY GuestAssumption DEF GuestInv, Hosted, Components, StopInstance, Free, Idle, guest,
       declarations
<1>7. Effects'
    BY GuestAssumption DEF GuestInv, Effects, StopInstance, Free, Idle, guest, declarations
<1> QED BY <1>1, <1>2, <1>3, <1>4, <1>5, <1>6, <1>7 DEF GuestInv

LEMMA StopNextInv ==
    ASSUME GuestInv, NEW o \in Components, StopNext(o) PROVE GuestInv'
<1>1. GuestTypeOK' BY DEF GuestInv, GuestTypeOK, Owned, StopNext, Revoked, host, declarations
<1>2. Calls' BY GuestAssumption DEF GuestInv, Calls, StopNext, Revoked, host, declarations
<1>3. Polling' BY DEF GuestInv, Polling, StopNext, Revoked, host
<1>4. Loaded' BY GuestAssumption DEF GuestInv, Loaded, StopNext, Revoked
<1>5. Hosted' BY DEF GuestInv, Hosted, GuestTypeOK, StopNext, Revoked
<1>6. Effects' BY DEF GuestInv, Effects, Hosted, Owned, StopNext, Revoked
<1>7. Owners' BY DEF GuestInv, Owners, Owned, StopNext, Revoked, host
<1>8. Fresh' BY DEF GuestInv, Fresh, Owned, StopNext, Revoked
<1>9. Declared' BY DEF GuestInv, Declared, StopNext, Revoked, host, declarations
<1> QED BY <1>1, <1>2, <1>3, <1>4, <1>5, <1>6, <1>7, <1>8, <1>9 DEF GuestInv

LEMMA UnregisterInv ==
    ASSUME GuestInv, NEW d \in Delegates, Unregister(d) PROVE GuestInv'
<1>1. Fresh' BY DEF GuestInv, Fresh, Unregister, guest, host
<1>2. GuestTypeOK' BY DEF GuestInv, GuestTypeOK, Unregister, guest, host
<1>3. Calls' BY GuestAssumption DEF GuestInv, Calls, Unregister, Idle, host
<1>4. Polling' BY DEF GuestInv, Polling, Unregister, host
<1>5. Loaded' BY GuestAssumption DEF GuestInv, Loaded, Unregister, guest, host
<1>6. Hosted' BY DEF GuestInv, Hosted, Unregister, guest
<1>7. Effects' BY DEF GuestInv, Effects, Unregister, guest
<1>8. Owners' BY GuestAssumption DEF GuestInv, Owners, Unregister, guest, host
<1>9. Declared' BY DEF GuestInv, Declared, GuestTypeOK, Unregister, Idle, host
<1> QED BY <1>1, <1>2, <1>3, <1>4, <1>5, <1>6, <1>7, <1>8, <1>9 DEF GuestInv

\* Workers only take the lock.
LEMMA BeginServiceInv ==
    ASSUME GuestInv, NEW d \in Delegates, BeginService(d) PROVE GuestInv'
<1>1. Calls' /\ Polling' /\ Loaded' /\ Hosted' /\ Effects' /\ Owners' /\ Fresh' /\ Declared'
    BY DEF GuestInv, Calls, Polling, Loaded, Hosted, Effects, Owners, Fresh, Declared,
       Owned, BeginService, engine, guest, host, declarations
<1>2. GuestTypeOK' BY DEF GuestInv, GuestTypeOK, BeginService, engine, guest, host, declarations
<1> QED BY <1>1, <1>2 DEF GuestInv

LEMMA EndServiceInv ==
    ASSUME GuestInv, EndService PROVE GuestInv'
<1>1. Calls' /\ Polling' /\ Loaded' /\ Hosted' /\ Effects' /\ Owners' /\ Fresh' /\ Declared'
    BY DEF GuestInv, Calls, Polling, Loaded, Hosted, Effects, Owners, Fresh, Declared,
       Owned, EndService, engine, guest, host, declarations
<1>2. GuestTypeOK' BY DEF GuestInv, GuestTypeOK, EndService, engine, guest, host, declarations
<1> QED BY <1>1, <1>2 DEF GuestInv

-----------------------------------------------------------------------------
LEMMA InitInv == Init => GuestInv
BY GuestAssumption DEF Init, GuestInv, GuestTypeOK, Calls, Polling, Loaded, Hosted, Effects, Owners,
    Fresh, Declared, NoCall, Components, Owned

LEMMA StutterInv == ASSUME GuestInv, UNCHANGED vars PROVE GuestInv'
BY DEF vars, engine, guest, host, declarations, GuestInv, GuestTypeOK, Calls, Polling, Loaded, Hosted,
    Effects, Owners, Fresh, Declared, Owned

LEMMA NextInv == ASSUME GuestInv, [Next]_vars PROVE GuestInv'
<1>1. CASE RegisterProvider \/ Registered \/ RegistrationFails
    BY <1>1, RegisterProviderInv, RegisteredInv, RegistrationFailsInv
<1>2. CASE (\E x \in Declarations : Declare(x)) \/ (\E x \in Capabilities : Withdraw(x))
    BY <1>2, DeclareInv, WithdrawInv
<1>3. CASE \E d \in Delegates :
            RegisterDelegate(d) \/ StartWhileBusy(d) \/ Unregister(d) \/ BeginService(d)
    BY <1>3, RegisterDelegateInv, StartWhileBusyInv, UnregisterInv, BeginServiceInv
<1>4. CASE \E o \in Components :
            Start(o) \/ Callback(o, "event") \/ Callback(o, "action") \/ EventWhileBusy(o)
            \/ StopInstance(o) \/ StopNext(o)
  <2> PICK o \in Components :
            Start(o) \/ Callback(o, "event") \/ Callback(o, "action") \/ EventWhileBusy(o)
            \/ StopInstance(o) \/ StopNext(o)
    BY <1>4
  <2>1. CASE Callback(o, "event") \/ Callback(o, "action")
    BY <2>1, CallbackInv
  <2> QED BY <2>1, StartInv, EventWhileBusyInv, StopInstanceInv, StopNextInv
<1>5. CASE Poll \/ PollWhileBusy \/ RunTask
    BY <1>5, PollInv, PollWhileBusyInv, RunTaskInv
<1>6. CASE Subscribe \/ (\E e \in handles : Unsubscribe(e))
    BY <1>6, SubscribeInv, UnsubscribeInv
<1>7. CASE (\E kind \in Resources : Acquire(kind)) \/ (\E r \in resources : Release(r))
    BY <1>7, AcquireInv, ReleaseInv
<1>8. CASE Return \/ Fail \/ EndService
    BY <1>8, ReturnInv, FailInv, EndServiceInv
<1>9. CASE UNCHANGED vars
    BY <1>9, StutterInv
<1> QED BY <1>1, <1>2, <1>3, <1>4, <1>5, <1>6, <1>7, <1>8, <1>9 DEF Next

\* The inductive invariant, for any provider, delegates and declarations.
THEOREM GuestInvHolds == Spec => []GuestInv
<1> QED BY InitInv, NextInv, PTL DEF Spec

\* Whatever callbacks returned, failed or were cut short by a stop, an active component
\* gets nothing from the engine that its guest cannot take back (commit_runtime_effects,
\* abort_guest_execution).
THEOREM EffectsAreHeld == Spec => []EffectsHaveHandles
<1>1. GuestInv => EffectsHaveHandles
    BY DEF GuestInv, Effects, EffectsHaveHandles, Idle
<1> QED BY <1>1, GuestInvHolds, PTL

\* Registrations of several guests of one store, failed ones among them, do not mix
\* (begin_registration, finish_registration).
THEOREM DeclarationsAreWhole == Spec => []DeclarationsComeWhole
<1>1. GuestInv => DeclarationsComeWhole
    BY DEF GuestInv, GuestTypeOK, Declared, DeclarationsComeWhole, Idle
<1> QED BY <1>1, GuestInvHolds, PTL

\* While the provider runs, the tasks and sockets of the store have an owner that runs,
\* or one whose stop could not reach the store.
THEOREM ResourcesAreOwned == Spec => []ResourcesHaveOwners
<1>1. GuestInv => ResourcesHaveOwners
    BY DEF GuestInv, Owners, ResourcesHaveOwners, Idle
<1> QED BY <1>1, GuestInvHolds, PTL

\* Nobody stays active when the store of its provider is discarded.
THEOREM ActiveAreHosted == Spec => []ActiveComponentsHaveARuntime
<1>1. GuestInv => ActiveComponentsHaveARuntime
    BY DEF GuestInv, Hosted, ActiveComponentsHaveARuntime, Idle
<1> QED BY <1>1, GuestInvHolds, PTL

\* Only RunTask enters a task, and only one the store still holds.
LEMMA TaskSteps ==
    ASSUME GuestInv, [Next]_vars, call = NoCall, call' # NoCall, call'.kind = "task"
    PROVE  call'.task \cap dropped = {}
<1>1. CASE RunTask
    BY <1>1 DEF RunTask, StillOwned, Begun, Called, GuestInv, Fresh
<1>2. CASE ~RunTask
    BY <1>2 DEF Next, vars, host, Registering, ResourcesOpen, EffectsOpen, RegisterProvider, Registered,
       RegistrationFails, Declare, Withdraw, RegisterDelegate, StartWhileBusy, Unregister, BeginService,
       Start, Callback, EventWhileBusy, StopInstance, StopNext, Poll, PollWhileBusy, Subscribe,
       Unsubscribe, Acquire, Release, Return, Fail, EndService, OpenScope, Called, Begun
<1> QED BY <1>1, <1>2

\* A task cancelled by the one that ran before it in the same poll, or revoked with its
\* owner, is skipped (the retain of the due list).
THEOREM DroppedStayDropped == Spec => DroppedTasksNeverRun
<1>1. GuestInv /\ [Next]_vars
        => [call = NoCall /\ call' # NoCall /\ call'.kind = "task" => call'.task \cap dropped = {}]_vars
    BY TaskSteps
<1> QED BY <1>1, GuestInvHolds, PTL DEF Spec, DroppedTasksNeverRun
=============================================================================
