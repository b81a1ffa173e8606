-------------------------- MODULE EngineLifecycle --------------------------
(***************************************************************************)
(* The life of extension instances in ExtensionEngine,                     *)
(* crates/extension-engine/src/engine.rs: registration, start with its     *)
(* rollback, stop, quarantine, unregistration, and the callbacks that may  *)
(* end in a quarantine; with the registries of runtime effects and of      *)
(* execution targets.                                                      *)
(*                                                                         *)
(* Every operation has the engine to itself, but other threads see the     *)
(* service runtime and the UI between two of its steps, and each step may  *)
(* call extension code, which answers as it likes.  Execution targets bind *)
(* instances to each other: whoever was loaded through a target needs the  *)
(* instance that owned the target then.                                    *)
(*                                                                         *)
(* One runtime scope is modelled.  A start may be refused by the           *)
(* activation plan at any time; what is refused changes nothing and is no  *)
(* step.  A callback that panics ends the process and is left out.         *)
(***************************************************************************)
EXTENDS Naturals, FiniteSets, SequencesExt

CONSTANTS
    Instances,      \* extension instances
    Size,           \* how many components each has
    Contributes,    \* the contribution ids each registers
    Targets,        \* execution targets
    Publishes,      \* the targets the components of each may publish
    Needs,          \* the targets the components of each are loaded through
    NoOwner         \* an unpublished target

ASSUME LifecycleAssumption ==
    /\ Size \in [Instances -> Nat \ {0}]
    /\ DOMAIN Contributes = Instances
    /\ \A n \in {Publishes, Needs} : n \in [Instances -> SUBSET Targets]
    /\ NoOwner \notin Instances \X Nat

VARIABLES
    state,          \* the ExtensionState of each instance, or absent
    running,        \* the components started and not yet stopped
    contributions,  \* active_contributions
    effects,        \* the components that own a runtime effect
    hosts,          \* the owner of each published target
    uses,           \* the providers in execution_target_dependencies
    serving,        \* the instances the service runtime routes to
    shown,          \* the instances active in the UI
    op,             \* the operation under way
    todo            \* the components a poll or dispatch has still to visit

registries == <<contributions, effects, hosts, uses>>
visible == <<serving, shown>>
vars == <<state, running, registries, visible, op, todo>>

ComponentsOf(i) == {<<i, n>> : n \in 1 .. Size[i]}
Owned(i) == {c \in effects : c[1] = i}
Dependents(i) == {d \in Instances : i \in uses[d] /\ d # i}

Idle == [doing |-> "nothing"]
Free == op = Idle /\ todo = {}

\* Starting, rolling back or stopping i: the components up to at are started,
\* or have still to be stopped.
Doing(what, i, at) == [doing |-> what, inst |-> i, at |-> at, unregister |-> FALSE,
                       failed |-> FALSE, chain |-> <<>>, visited |-> {}]
Is(what) == op.doing = what

Init ==
    /\ state = [i \in Instances |-> "absent"] /\ running = {}
    /\ contributions = {} /\ effects = {}
    /\ hosts = [t \in Targets |-> NoOwner] /\ uses = [i \in Instances |-> {}]
    /\ serving = {} /\ shown = {}
    /\ op = Idle /\ todo = {}
-----------------------------------------------------------------------------
\* What a callback may leave of the effects of its component: nothing checks
\* that the component is not being stopped.
EffectsAfter(c) == {effects, effects \union {c}, effects \ {c}}

RevokeTargets(i) == hosts' = [t \in Targets |->
    IF hosts[t] # NoOwner /\ hosts[t][1] = i THEN NoOwner ELSE hosts[t]]

Revoke(i) == effects' = effects \ Owned(i) /\ RevokeTargets(i)

\* register_extension_instance_with_target_dependencies: the loader resolved
\* the targets, registration callbacks reject contributions that are taken.
Register(i) ==
    /\ Free /\ state[i] = "absent"
    /\ \A t \in Needs[i] : hosts[t] # NoOwner
    /\ Contributes[i] \intersect contributions = {}
    /\ state' = [state EXCEPT ![i] = "registered"]
    /\ contributions' = contributions \union Contributes[i]
    /\ uses' = [uses EXCEPT ![i] = {hosts[t][1] : t \in Needs[i]}]
    /\ UNCHANGED <<running, effects, hosts, visible, op, todo>>

\* register_execution_target_host
PublishTarget(c, t) ==
    /\ Free /\ c[1] \in Instances /\ state[c[1]] = "active"
    /\ t \in Publishes[c[1]] /\ hosts[t] = NoOwner
    /\ hosts' = [hosts EXCEPT ![t] = c]
    /\ UNCHANGED <<state, running, contributions, effects, uses, visible, op, todo>>
-----------------------------------------------------------------------------
(* start_extension_instance                                                *)

\* A stopped instance takes its contributions again, unless one is taken.
BeginStart(i) ==
    /\ Free /\ state[i] \in {"registered", "stopped"}
    /\ state[i] = "stopped" => Contributes[i] \intersect contributions = {}
    /\ contributions' = contributions \union (IF state[i] = "stopped" THEN Contributes[i] ELSE {})
    /\ op' = Doing("start", i, 0)
    /\ UNCHANGED <<state, running, effects, hosts, uses, visible, todo>>

\* The next component starts and publishes its targets.
StartComponent ==
    /\ Is("start") /\ op.at < Size[op.inst]
    /\ LET c == <<op.inst, op.at + 1>>
       IN  /\ running' = running \union {c}
           /\ effects' \in EffectsAfter(c)
           /\ \E T \in SUBSET {t \in Publishes[op.inst] : hosts[t] = NoOwner} :
                 hosts' = [t \in Targets |-> IF t \in T THEN c ELSE hosts[t]]
           /\ op' = [op EXCEPT !.at = @ + 1]
    /\ UNCHANGED <<state, contributions, uses, visible, todo>>

\* The callback fails, or one of its targets is taken: the targets of this
\* component are withdrawn and the rollback begins with it.
StartFails ==
    /\ Is("start") /\ op.at < Size[op.inst]
    /\ LET c == <<op.inst, op.at + 1>>
       IN  /\ running' = running \union {c}
           /\ effects' \in EffectsAfter(c)
           /\ op' = Doing("rollback", op.inst, op.at + 1)
    /\ UNCHANGED <<state, contributions, hosts, uses, visible, todo>>

FinishStart ==
    /\ Is("start") /\ op.at = Size[op.inst]
    /\ shown' = shown \union {op.inst} /\ serving' = serving \union {op.inst}
    /\ state' = [state EXCEPT ![op.inst] = "active"]
    /\ op' = Idle
    /\ UNCHANGED <<running, registries, todo>>

\* The UI is active when the service runtime turns out to be unavailable.
FinalizationFails ==
    /\ Is("start") /\ op.at = Size[op.inst]
    /\ shown' = shown \union {op.inst}
    /\ op' = Doing("rollback", op.inst, Size[op.inst])
    /\ UNCHANGED <<state, running, registries, serving, todo>>

\* Stop callbacks run in reverse; that they fail changes only the error.
RollBackComponent ==
    /\ Is("rollback") /\ op.at > 0
    /\ running' = running \ {<<op.inst, op.at>>}
    /\ effects' \in EffectsAfter(<<op.inst, op.at>>)
    /\ op' = [op EXCEPT !.at = @ - 1]
    /\ UNCHANGED <<state, contributions, hosts, uses, visible, todo>>

EndRollback ==
    /\ Is("rollback") /\ op.at = 0
    /\ Revoke(op.inst)
    /\ shown' = shown \ {op.inst} /\ serving' = serving \ {op.inst}
    /\ contributions' = IF state[op.inst] = "stopped" THEN contributions \ Contributes[op.inst]
                        ELSE contributions
    /\ op' = Idle
    /\ UNCHANGED <<state, running, uses, todo>>
-----------------------------------------------------------------------------
(* stop_extension_instance_inner, and unregister_extension_instance        *)

\* Faulty: only the dependents that are active count.
InUse_ActiveOnly(i) == \E d \in Dependents(i) : state[d] = "active"

\* ensure_execution_target_provider_not_in_use
InUse(i) == Dependents(i) # {}

Hide(i) == shown' = shown \ {i} /\ serving' = serving \ {i}

BeginStop(i, unregister) ==
    /\ Free /\ ~InUse(i)
    /\ state[i] \in (IF unregister THEN {"active"} ELSE {"registered", "active"})
    /\ Hide(i)
    /\ op' = [Doing("stop", i, Size[i]) EXCEPT !.unregister = unregister]
    /\ UNCHANGED <<state, running, registries, todo>>

StopComponent ==
    /\ Is("stop") /\ op.at > 0
    /\ running' = running \ {<<op.inst, op.at>>}
    /\ effects' \in EffectsAfter(<<op.inst, op.at>>)
    /\ \E fails \in BOOLEAN :
          op' = [op EXCEPT !.at = @ - 1, !.failed = @ \/ (fails /\ op.unregister)]
    /\ UNCHANGED <<state, contributions, hosts, uses, visible, todo>>

\* What is left of a quarantine when i is stopped.
Continue == IF Len(op.chain) <= 1 THEN Idle
            ELSE [Doing("quarantine", Last(Front(op.chain)), 0)
                    EXCEPT !.chain = Front(op.chain), !.visited = op.visited]

Release(i) == contributions' = contributions \ Contributes[i] /\ Revoke(i)

\* A failed callback keeps an instance from being unregistered, no more.
EndStop ==
    /\ Is("stop") /\ op.at = 0
    /\ Release(op.inst)
    /\ LET gone == op.unregister /\ ~op.failed
       IN  /\ state' = [state EXCEPT ![op.inst] = IF gone THEN "absent" ELSE "stopped"]
           /\ uses' = [uses EXCEPT ![op.inst] = IF gone THEN {} ELSE @]
    /\ op' = Continue
    /\ UNCHANGED <<running, visible, todo>>

\* An instance that is not active is only forgotten, contributions included.
Unregister(i) ==
    /\ Free /\ ~InUse(i) /\ state[i] \in {"registered", "stopped"}
    /\ state' = [state EXCEPT ![i] = "absent"]
    /\ contributions' = contributions \ Contributes[i]
    /\ uses' = [uses EXCEPT ![i] = {}]
    /\ Hide(i) /\ RevokeTargets(i)
    /\ UNCHANGED <<running, effects, op, todo>>
-----------------------------------------------------------------------------
(* quarantine_extension_instance_recursive: op.chain is the call stack.    *)

Quarantine(i) == op' = [Doing("quarantine", i, 0) EXCEPT !.chain = <<i>>, !.visited = {i}]

\* Faulty: the provider goes first.
Unvisited_None(i) == {}

Unvisited(i) == {d \in Dependents(i) : state[d] = "active"} \ op.visited

QuarantineDependent ==
    /\ Is("quarantine")
    /\ \E d \in Unvisited(op.inst) :
          op' = [op EXCEPT !.inst = d, !.chain = Append(@, d), !.visited = @ \union {d}]
    /\ UNCHANGED <<state, running, registries, visible, todo>>

QuarantineStop ==
    /\ Is("quarantine") /\ Unvisited(op.inst) = {}
    /\ IF state[op.inst] = "stopped"
       THEN op' = Continue /\ UNCHANGED visible
       ELSE Hide(op.inst) /\ op' = [op EXCEPT !.doing = "stop", !.at = Size[op.inst]]
    /\ UNCHANGED <<state, running, registries, todo>>
-----------------------------------------------------------------------------
(* poll_runtime, dispatch_runtime_subscribers and dispatch_ui_action visit *)
(* a snapshot of components.                                               *)

Active(c) == state[c[1]] = "active"

PollRuntime ==
    /\ Free
    /\ todo' = UNION {ComponentsOf(i) : i \in {j \in Instances : state[j] = "active"}}
    /\ UNCHANGED <<state, running, registries, visible, op>>

\* The subscribers of some topic.
DispatchEvent ==
    /\ Free
    /\ todo' \in SUBSET effects
    /\ UNCHANGED <<state, running, registries, visible, op>>

DispatchUiAction ==
    /\ Free
    /\ \E i \in shown : \E c \in ComponentsOf(i) : todo' = {c}
    /\ UNCHANGED <<state, running, registries, visible, op>>

\* Faulty: the snapshot is believed.
Reachable_InSnapshot(c) == TRUE

\* The snapshot is checked again before every callback.
Reachable(c) == Active(c)

\* One callback.  When it fails, its instance is quarantined; a UI action may
\* also be rejected without that.
Visit(c) ==
    /\ op = Idle /\ c \in todo
    /\ todo' = todo \ {c}
    /\ IF ~Reachable(c) THEN UNCHANGED <<effects, op>>
       ELSE /\ effects' \in EffectsAfter(c)
            /\ UNCHANGED op \/ Quarantine(c[1])
    /\ UNCHANGED <<state, running, contributions, hosts, uses, visible>>

Next ==
    \/ \E i \in Instances :
          \/ Register(i) \/ BeginStart(i) \/ Unregister(i)
          \/ \E unregister \in BOOLEAN : BeginStop(i, unregister)
          \/ \E c \in ComponentsOf(i), t \in Targets : PublishTarget(c, t)
    \/ StartComponent \/ StartFails \/ FinishStart \/ FinalizationFails
    \/ RollBackComponent \/ EndRollback
    \/ StopComponent \/ EndStop
    \/ QuarantineDependent \/ QuarantineStop
    \/ PollRuntime \/ DispatchEvent \/ DispatchUiAction
    \/ \E c \in todo : Visit(c)

Spec == Init /\ [][Next]_vars
-----------------------------------------------------------------------------
AllComponents == UNION {ComponentsOf(i) : i \in Instances}

\* The shape of the state; a target is published by a component of an
\* instance that may do so, and an absent instance is in no registry.
LifecycleTypeOK ==
    /\ state \in [Instances -> {"absent", "registered", "active", "stopped"}]
    /\ running \union effects \union todo \subseteq AllComponents
    /\ \A t \in Targets :
        hosts[t] = NoOwner \/ \E i \in Instances : t \in Publishes[i] /\ hosts[t] \in ComponentsOf(i)
    /\ uses \in [Instances -> SUBSET Instances]
    /\ contributions \subseteq UNION {Contributes[i] : i \in Instances}
    /\ serving \union shown \subseteq {i \in Instances : state[i] # "absent"}
    /\ op = Idle \/ (op.inst \in Instances /\ op.at \in 0 .. Size[op.inst])
    /\ todo # {} /\ op # Idle => op.chain # <<>>

\* Between operations, whatever failed in them, an instance that is not active
\* has no component running and owns no effect, no target, no service and no
\* part of the UI; an active one runs with all its components.
NothingLeftBehind ==
    op = Idle => \A i \in Instances :
        IF state[i] = "active"
        THEN ComponentsOf(i) \subseteq running /\ i \in serving \intersect shown
        ELSE /\ running \intersect ComponentsOf(i) = {} /\ Owned(i) = {}
             /\ \A t \in Targets : hosts[t] \notin ComponentsOf(i)
             /\ i \notin serving \union shown

\* Also in the middle of an operation, which other threads may observe, calls
\* are routed only to instances whose components all run.
ServesOnlyWhileStarted == \A i \in serving : ComponentsOf(i) \subseteq running

\* While the components of a target provider are stopped, nothing that was
\* loaded through it runs any more, along any chain or diamond of providers.
ProvidersStopLast ==
    op # Idle /\ op.doing = "stop" =>
        \A d \in Dependents(op.inst) : running \intersect ComponentsOf(d) = {}

\* What an instance was loaded through stays registered while it is.
ProvidersStayRegistered ==
    \A d \in Instances : state[d] # "absent" => \A p \in uses[d] : state[p] # "absent"

\* "Returns DuplicateContribution if another active registration already owns
\* the contribution identifier": no two active instances of a scope own one.
ContributionsExclusive ==
    \A i, j \in Instances :
        i # j /\ state[i] = "active" /\ state[j] = "active" => Contributes[i] \intersect Contributes[j] = {}
=============================================================================
