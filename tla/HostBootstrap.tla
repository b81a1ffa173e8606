---------------------------- MODULE HostBootstrap ----------------------------
(***************************************************************************)
(* Activating a composition: activate_composition and cleanup_instances of *)
(* crates/host/src/runtime.rs over the activation plans and the loader of  *)
(* crates/extension-engine (activation.rs, artifact_loader.rs, engine.rs). *)
(*                                                                         *)
(* A composition starts in rounds.  What can be loaded is registered;      *)
(* while something waits for an execution target, the instances that may   *)
(* publish one, and what they need, are started one at a time; then the    *)
(* rest is started in the order of one plan.  Whatever fails, the          *)
(* activation is undone.  Contracts are resolved inside a scope, execution *)
(* targets are shared by the whole engine.                                 *)
(*                                                                         *)
(* An instance that registers targets exports the provider interface, and  *)
(* only required consumers count.  What a component does after its start   *)
(* is EngineLifecycle's; nothing is quarantined here.                      *)
(***************************************************************************)
EXTENDS Naturals, FiniteSets, SequencesExt, FiniteSetsExt

CONSTANTS
    Instances,      \* numbers: the order of the instance ids
    Host,           \* the scope of the host
    WorldScopes,    \* numbers: the scopes of worlds, in the order of their ids
    Targets,        \* execution targets
    MaxActivations, \* bound on the activations begun
    MaxFaults       \* bound on the callbacks, loads and openings that fail

Scopes == {Host} \cup WorldScopes

ASSUME BootstrapAssumption ==
    /\ Instances \subseteq Nat \ {0} /\ WorldScopes \subseteq Nat /\ Host \notin WorldScopes
    /\ MaxActivations \in Nat /\ MaxFaults \in Nat

VARIABLES
    composition,    \* the profiles and manifests: order, policy, declarations
    state,          \* of each instance: absent, registered or active
    hosts,          \* the owner of each published target
    uses,           \* of each instance: whose targets it was loaded through
    platform,       \* the scopes whose platform contracts and policy are set
    standing,       \* the compositions that are up: registered and started instances
    job,            \* the activation or the cleanup under way
    begun, faults

engine == <<state, hosts, uses>>
bootVars == <<composition, engine, platform, standing, job, begun, faults>>

NoJob == [phase |-> "idle"]
Idle == job = NoJob
Phase(p) == job.phase = p
Nobody == 0     \* not an instance

Present == {i \in Instances : state[i] # "absent"}
Active == {i \in Instances : state[i] = "active"}
Dependents(i) == {d \in Present : i \in uses[d] /\ d # i}

\* The activations of a scope, in the order of the profile, and what each declares.
Order(s) == composition.order[s]
Members(s) == ToSet(Order(s))
Defines(i) == composition.defines[i]
Provides(i) == composition.provides[i]
Requires(i) == composition.requires[i]
Publishes(i) == composition.publishes[i]
Needs(i) == composition.needs[i]

EngineInit ==
    /\ state = [i \in Instances |-> "absent"]
    /\ hosts = [t \in Targets |-> Nobody]
    /\ uses = [i \in Instances |-> {}]

InitWith(compositions) ==
    /\ composition \in compositions
    /\ EngineInit
    /\ platform = {} /\ standing = <<>> /\ job = NoJob
    /\ begun = 0 /\ faults = 0
-----------------------------------------------------------------------------
(* The resolution of contracts among the eligible instances of a scope.    *)

Platform(s, c) == c \in composition.platform /\ s \in platform
Definers(c, E) == {i \in E : c \in Defines(i)}

\* resolve_contract_providers: a preferred provider or none, else the first or all.
Providers(s, c, E) ==
    LET P == {i \in E : c \in Provides(i)}
        wanted == composition.preferred[s]
    IN IF c \in composition.multiple THEN P
       ELSE IF c \in DOMAIN wanted THEN P \cap {wanted[c]}
       ELSE IF P = {} THEN {} ELSE {Min(P)}

\* resolve_contracts: the contract is defined and has a provider.
Bound(s, c, E) == (Platform(s, c) \/ Definers(c, E) # {}) /\ Providers(s, c, E) # {}
Unresolved(s, i, E) == {c \in Requires(i) : ~Bound(s, c, E)}

InScope(s, S) == S \cap Members(s)

\* The plan of one instance, over the active ones.
MayStart(s, i) == Unresolved(s, i, InScope(s, Active) \cup {i}) = {}

\* The required dependencies inside a batch: on the providers, and on the first
\* definer of a contract that is not the platform's.
Edges(s, B, E) ==
    {e \in B \X B : e[1] # e[2] /\ \E c \in Requires(e[2]) :
        \/ e[1] \in Providers(s, c, E)
        \/ ~Platform(s, c) /\ Definers(c, E) # {} /\ e[1] = Min(Definers(c, E))}

\* Some of the nodes all have a predecessor among them.
Cyclic(B, edges) ==
    \E S \in SUBSET B : S # {} /\ \A y \in S : \E x \in S : <<x, y>> \in edges
-----------------------------------------------------------------------------
(* Loading and starting.                                                   *)

\* The policy and the platform contracts of the scope, then its activations.
Activate(s) ==
    /\ Idle /\ begun < MaxActivations
    /\ s \notin DOMAIN standing /\ (s = Host \/ Host \in DOMAIN standing)
    /\ begun' = begun + 1
    /\ platform' = platform \cup {s}
    /\ job' = [phase |-> "load", scope |-> s, todo |-> Order(s), next |-> <<>>,
               boot |-> {}, progress |-> FALSE, at |-> 0, expanded |-> FALSE,
               batch |-> {}, edges |-> {}, registered |-> <<>>, started |-> <<>>,
               before |-> Present]
    /\ UNCHANGED <<composition, engine, standing, faults>>

\* The instances of a sequence that are not in S, after each of its elements.
Skipping(before, i, S) == IF i \in S THEN before ELSE Append(before, i)
Remainders(seq, S) ==
    LET after[k \in 0 .. Len(seq)] ==
            IF k = 0 THEN <<>> ELSE Skipping(after[k - 1], seq[k], S)
    IN  after
Unstarted(registered, started) == Remainders(registered, ToSet(started))[Len(registered)]

\* Faulty: what was started goes first.
Cleanup_StartedFirst(registered, started) ==
    Reverse(started) \o Reverse(Unstarted(registered, started))

\* Faulty: in the order in which they were started.
Cleanup_Forward(registered, started) ==
    Reverse(Unstarted(registered, started)) \o started

\* cleanup_instances: what was never started, then what was, each latest first.
Cleanup(registered, started) ==
    Reverse(Unstarted(registered, started)) \o Reverse(started)

Undo(s, registered, started, why, before) ==
    [phase |-> "undo", scope |-> s, left |-> Cleanup(registered, started),
     why |-> why, before |-> before]
Abandon(why) == job' = Undo(job.scope, job.registered, job.started, why, job.before)

Missing(i) == {t \in Needs(i) : hosts[t] = Nobody}

\* register_extension_instance: an id that is there already, or the definition of
\* a contract that is the platform's, is refused.
Registrable(i) == state[i] = "absent" /\ \A c \in Defines(i) : ~Platform(job.scope, c)

\* try_load_stored_extension: deferred without effect, or registered with the
\* owners of its targets.
LoadNext ==
    /\ Phase("load") /\ job.todo # <<>>
    /\ LET i == Head(job.todo) IN
       CASE Missing(i) # {} ->
              /\ job' = [job EXCEPT !.todo = Tail(@), !.next = Append(@, i)]
              /\ UNCHANGED engine
         [] Missing(i) = {} /\ Registrable(i) ->
              /\ state' = [state EXCEPT ![i] = "registered"]
              /\ uses' = [uses EXCEPT ![i] = {hosts[t] : t \in Needs(i)}]
              /\ job' = [job EXCEPT !.todo = Tail(@), !.progress = TRUE,
                                    !.registered = Append(@, i),
                                    !.boot = @ \cup (IF Publishes(i) = {} THEN {} ELSE {i})]
              /\ UNCHANGED hosts
         [] OTHER -> Abandon("error") /\ UNCHANGED engine
    /\ UNCHANGED <<composition, platform, standing, begun, faults>>

\* Waiting activations are tried again after a round of bootstrap starts.
LoadEnds ==
    /\ Phase("load") /\ job.todo = <<>>
    /\ job' = IF job.next = <<>> THEN [job EXCEPT !.phase = "plan"]
              ELSE [job EXCEPT !.phase = "boot", !.at = 0, !.expanded = FALSE]
    /\ UNCHANGED <<composition, engine, platform, standing, begun, faults>>

\* start_extension_instance, of an instance whose plan holds: its targets are
\* published, unless one is taken.
Started(i) ==
    /\ state' = [state EXCEPT ![i] = "active"]
    /\ hosts' = [t \in Targets |-> IF t \in Publishes(i) THEN i ELSE hosts[t]]
    /\ UNCHANGED uses
Occupied(i) == \E t \in Publishes(i) : hosts[t] # Nobody

\* Faulty: only providers are fetched.
Expansion_ProvidersOnly(s, i) ==
    LET loaded == InScope(s, Present)
        c == Min(Unresolved(s, i, InScope(s, Active) \cup {i}))
    IN IF Bound(s, c, loaded)
       THEN (Providers(s, c, loaded) \ {i}) \cap ToSet(job.registered)
       ELSE {}

\* expand_bootstrap_dependencies: for the first contract that keeps i from starting,
\* whoever would provide and define it among what is loaded.
Expansion(s, i) ==
    LET loaded == InScope(s, Present)
        c == Min(Unresolved(s, i, InScope(s, Active) \cup {i}))
        definers == Definers(c, loaded)
        definer == IF definers = {} THEN {} ELSE {Min(definers)}
    IN IF Bound(s, c, loaded)
       THEN ((Providers(s, c, loaded) \cup definer) \ {i}) \cap ToSet(job.registered)
       ELSE {}

\* The activations a pass has still to look at.
Candidates ==
    {n \in DOMAIN Order(job.scope) :
        LET i == Order(job.scope)[n] IN
        n > job.at /\ i \in job.boot \cap ToSet(job.registered) /\ i \notin ToSet(job.started)}

\* One start begins the pass again; an instance that has to wait is passed over.
BootNext ==
    /\ Phase("boot") /\ Candidates # {}
    /\ LET n == Min(Candidates)
           i == Order(job.scope)[n]
           fetched == Expansion(job.scope, i)
       IN CASE ~MayStart(job.scope, i) ->
                 /\ job' = [job EXCEPT !.at = n, !.boot = @ \cup fetched,
                                       !.expanded = @ \/ ~(fetched \subseteq job.boot)]
                 /\ UNCHANGED engine
            [] MayStart(job.scope, i) /\ ~Occupied(i) ->
                 /\ Started(i)
                 /\ job' = [job EXCEPT !.at = 0, !.expanded = FALSE, !.progress = TRUE,
                                       !.started = Append(@, i)]
            [] OTHER -> Abandon("error") /\ UNCHANGED engine
    /\ UNCHANGED <<composition, platform, standing, begun, faults>>

\* Faulty: it is always worth another round.
NextRound_Always == [job EXCEPT !.phase = "load", !.todo = job.next, !.next = <<>>, !.progress = FALSE]

\* A round that loaded and started nothing has stalled.
NextRound ==
    IF job.progress
    THEN [job EXCEPT !.phase = "load", !.todo = job.next, !.next = <<>>, !.progress = FALSE]
    ELSE Undo(job.scope, job.registered, job.started, "refused", job.before)

BootEnds ==
    /\ Phase("boot") /\ Candidates = {}
    /\ job' = IF job.expanded THEN [job EXCEPT !.at = 0, !.expanded = FALSE] ELSE NextRound
    /\ UNCHANGED <<composition, engine, platform, standing, begun, faults>>

\* build_activation_plan over what is registered and not started.
Plan ==
    /\ Phase("plan")
    /\ LET s == job.scope
           B == ToSet(job.registered) \ ToSet(job.started)
           E == InScope(s, Active) \cup B
           edges == Edges(s, B, E)
       IN IF (\E i \in B : Unresolved(s, i, E) # {}) \/ Cyclic(B, edges)
          THEN Abandon("refused")
          ELSE job' = [job EXCEPT !.phase = "batch", !.batch = B, !.edges = edges]
    /\ UNCHANGED <<composition, engine, platform, standing, begun, faults>>

\* The first activation with nothing of the batch left to wait for.
Ready(i) == \A e \in job.edges : e[2] = i => e[1] \notin job.batch
NextOfBatch ==
    LET at == {n \in DOMAIN Order(job.scope) :
                  Order(job.scope)[n] \in job.batch /\ Ready(Order(job.scope)[n])}
    IN Order(job.scope)[Min(at)]

BatchNext ==
    /\ Phase("batch") /\ job.batch # {}
    /\ LET i == NextOfBatch IN
       IF MayStart(job.scope, i) /\ ~Occupied(i)
       THEN /\ Started(i)
            /\ job' = [job EXCEPT !.batch = @ \ {i}, !.started = Append(@, i)]
       ELSE /\ Abandon(IF Occupied(i) THEN "error" ELSE "refused")
            /\ UNCHANGED engine
    /\ UNCHANGED <<composition, platform, standing, begun, faults>>

\* The roles of the host, or the storage, the bindings and the worker of a world.
Up ==
    /\ Phase("batch") /\ job.batch = {}
    /\ standing' = [s \in DOMAIN standing \cup {job.scope} |->
          IF s = job.scope THEN [registered |-> job.registered, started |-> job.started]
          ELSE standing[s]]
    /\ job' = NoJob
    /\ UNCHANGED <<composition, engine, platform, begun, faults>>

\* An artifact that does not load, a callback that fails, storage that does not
\* open: the engine has undone the step, the host undoes the rest.
StepFails ==
    /\ \/ Phase("load") /\ job.todo # <<>>
       \/ Phase("boot") /\ Candidates # {}
       \/ Phase("batch")
    /\ faults < MaxFaults
    /\ faults' = faults + 1
    /\ Abandon("error")
    /\ UNCHANGED <<composition, engine, platform, standing, begun>>
-----------------------------------------------------------------------------
(* Cleaning up.                                                            *)

DeactivateWorld(w) ==
    /\ Idle /\ w \in DOMAIN standing \ {Host}
    /\ job' = Undo(w, standing[w].registered, standing[w].started, "down", {})
    /\ standing' = [s \in DOMAIN standing \ {w} |-> standing[s]]
    /\ UNCHANGED <<composition, engine, platform, begun, faults>>

\* The worlds, the last id first, then the baseline.
LastUp == IF DOMAIN standing = {Host} THEN Host ELSE Max(DOMAIN standing \ {Host})

Shutdown ==
    /\ Host \in DOMAIN standing
    /\ Idle \/ Phase("next")
    /\ job' = Undo(LastUp, standing[LastUp].registered, standing[LastUp].started, "shutdown", {})
    /\ standing' = [s \in DOMAIN standing \ {LastUp} |-> standing[s]]
    /\ UNCHANGED <<composition, engine, platform, begun, faults>>

\* stop_extension_instance and unregister_extension_instance; both refuse while
\* another instance was loaded through this one, and the host goes on.
CleanupNext ==
    /\ Phase("undo") /\ job.left # <<>>
    /\ LET i == Head(job.left) IN
       IF Dependents(i) = {}
       THEN /\ state' = [state EXCEPT ![i] = "absent"]
            /\ hosts' = [t \in Targets |-> IF hosts[t] = i THEN Nobody ELSE hosts[t]]
            /\ uses' = [uses EXCEPT ![i] = {}]
       ELSE UNCHANGED engine
    /\ job' = [job EXCEPT !.left = Tail(@)]
    /\ UNCHANGED <<composition, platform, standing, begun, faults>>

\* clear_world_scope_topology; with the host the engine goes.
CleanupEnds ==
    /\ Phase("undo") /\ job.left = <<>>
    /\ platform' = platform \ {job.scope}
    /\ IF job.scope = Host
       THEN /\ state' = [i \in Instances |-> "absent"]
            /\ hosts' = [t \in Targets |-> Nobody]
            /\ uses' = [i \in Instances |-> {}]
       ELSE UNCHANGED engine
    /\ job' = IF job.why = "shutdown" /\ standing # <<>> THEN [phase |-> "next"] ELSE NoJob
    /\ UNCHANGED <<composition, standing, begun, faults>>

Step ==
    \/ LoadNext \/ LoadEnds \/ BootNext \/ BootEnds \/ Plan \/ BatchNext \/ Up
    \/ CleanupNext \/ CleanupEnds \/ (Phase("next") /\ Shutdown)

BootstrapNext ==
    \/ Step \/ StepFails \/ Shutdown
    \/ \E s \in Scopes : Activate(s)
    \/ \E w \in WorldScopes : DeactivateWorld(w)

\* The thread of the host does not stop in the middle of an operation.
BootFairness == WF_bootVars(Step)
-----------------------------------------------------------------------------
(* Properties.                                                             *)

\* Whatever fails in an activation, and wherever, nothing of it stays: the engine
\* holds what it held before (cleanup_instances, which removes what was registered
\* and not started first because it may hold its provider).  Of a composition that
\* is taken down, an instance stays only while another that stays was loaded
\* through it.
RollbackIsComplete ==
    Phase("undo") /\ job.left = <<>> =>
        IF job.why \in {"refused", "error"} THEN Present = job.before
        ELSE \A i \in InScope(job.scope, Present) : Dependents(i) # {}

\* The targets that were published before the activation.
Outside == {t \in Targets : hosts[t] \in job.before}

\* The composition can start at all: targets have one owner each, contracts are
\* bound in it, and nobody waits for himself through the two.
Possible(s, outside) ==
    LET M == Members(s)
        Owners(t) == {i \in M : t \in Publishes(i)}
        edges == Edges(s, M, M) \cup
                 {e \in M \X M : \E t \in Needs(e[2]) \ outside : e[1] \in Owners(t)}
    IN /\ \A i \in M : Unresolved(s, i, M) = {} /\ \A c \in Defines(i) : ~Platform(s, c)
       /\ \A t \in Targets : Cardinality(Owners(t)) <= 1 /\ (t \in outside => Owners(t) = {})
       /\ \A i \in M : \A t \in Needs(i) \ outside : Owners(t) # {}
       /\ ~Cyclic(M, edges)

\* A composition that can start is not refused: the rounds of the bootstrap stall,
\* and the plan fails, only where no order of starts exists.
RefusalsAreJust ==
    Phase("undo") /\ job.why = "refused" => ~Possible(job.scope, Outside)

\* What an instance requires and was loaded through is there as long as it is: all
\* of a composition that is up is active, and whatever has to be stopped of one that
\* is taken down, or back, loses nothing before its turn (record of start order,
\* cleanup_instances).
RequirementsOutliveTheirUsers ==
    LET Supplied(s, i) == Unresolved(s, i, InScope(s, Active)) = {}
    IN /\ \A s \in DOMAIN standing : \A i \in Members(s) : i \in Active /\ Supplied(s, i)
       /\ Phase("undo") => \A i \in ToSet(job.left) \cap Active : Supplied(job.scope, i)
       /\ \A i \in Present : uses[i] \subseteq Active

\* Every activation, every rollback and every shutdown comes to an end.
EveryOperationEnds == []<>Idle
=============================================================================
