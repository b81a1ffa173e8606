----------------------- MODULE EngineLifecycleProofs ------------------------
(***************************************************************************)
(* Proofs about EngineLifecycle, for any instances with any number of      *)
(* components, any targets and any relation of providers.                  *)
(***************************************************************************)
EXTENDS EngineLifecycle, TLAPS

Doings == {"start", "rollback", "stop", "quarantine"}

Operations ==
    [doing : Doings, inst : Instances, at : Nat, unregister : BOOLEAN,
     failed : BOOLEAN, chain : Seq(Instances), visited : SUBSET Instances]

\* The instance whose components are being started or stopped.
Busy(i) == op.doing \in {"start", "rollback", "stop"} /\ op.inst = i

\* The shape of the state; only what a callback caused runs while there are
\* components left to visit, and a quarantine knows where it began.
Shapes ==
    /\ state \in [Instances -> {"absent", "registered", "active", "stopped"}]
    /\ running \subseteq AllComponents /\ effects \subseteq AllComponents
    /\ todo \subseteq AllComponents
    /\ hosts \in [Targets -> AllComponents \union {NoOwner}]
    /\ \A t \in Targets, i \in Instances : hosts[t] \in ComponentsOf(i) => t \in Publishes[i]
    /\ uses \in [Instances -> SUBSET Instances]
    /\ contributions \subseteq UNION {Contributes[i] : i \in Instances}
    /\ serving \subseteq Instances /\ shown \subseteq Instances
    /\ op = Idle \/ (op \in Operations /\ op.at <= Size[op.inst])
    /\ op.doing = "quarantine" => op.at = 0 /\ op.chain # <<>> /\ ~op.unregister
    /\ todo # {} /\ op # Idle => op.chain # <<>>

\* An instance with all that a start gives it, and one with nothing left of it.
Full(i) == ComponentsOf(i) \subseteq running /\ i \in serving /\ i \in shown

Clean(i) ==
    /\ running \intersect ComponentsOf(i) = {} /\ Owned(i) = {}
    /\ \A t \in Targets : hosts[t] \notin ComponentsOf(i)
    /\ i \notin serving /\ i \notin shown

Rest(i) == IF state[i] = "active" THEN Full(i) ELSE Clean(i)

\* Everybody is at rest but the instance that is busy.
Settled == \A i \in Instances : Busy(i) \/ Rest(i)

\* The components from first up to last, of an instance that is busy.
NoneAbove(i, last) == \A n \in 1 .. Size[i] : <<i, n>> \in running => n <= last

Underway ==
    \A i \in Instances : Busy(i) =>
        /\ i \notin serving
        /\ NoneAbove(i, op.at)
        /\ op.doing = "start" => \A n \in 1 .. op.at : <<i, n>> \in running
        /\ op.doing \in {"start", "rollback"} => state[i] \in {"registered", "stopped"} /\ todo = {}
        /\ op.doing = "stop" => i \notin shown
        /\ op.unregister => op.doing = "stop" /\ Dependents(i) = {}

\* An absent instance was loaded through nothing, and nothing through it.
Bound ==
    /\ \A d \in Instances : state[d] = "absent" => uses[d] = {}
    /\ \A d \in Instances : \A p \in uses[d] : state[p] # "absent"

LifecycleInv == Shapes /\ Settled /\ Underway /\ Bound

\* No instances were loaded through each other in a circle.
Acyclic ==
    \A S \in SUBSET Instances : (\A p \in S : \E d \in S : p \in uses[d]) => S = {}

\* v waits for the return of the call that quarantines it.
OnChain(v) == \E n \in 1 .. Len(op.chain) : v = op.chain[n]

\* The call stack of a quarantine descends from providers to what was loaded
\* through them; whom it visited is on the stack or stopped.
Lineage ==
    op.doing \in {"stop", "quarantine"} =>
        /\ op.unregister => op.chain = <<>>
        /\ op.chain # <<>> => op.inst = Last(op.chain)
        /\ \A n \in 1 .. Len(op.chain) - 1 : op.chain[n] \in uses[op.chain[n + 1]]
        /\ op.chain # <<>> => \A v \in op.visited : state[v] = "active" => OnChain(v)

\* A provider is stopped after all that were loaded through it.
DependentsFirst ==
    op.doing = "stop" => \A d \in Dependents(op.inst) : state[d] # "active"

OrderInv == Acyclic /\ Lineage /\ DependentsFirst

-----------------------------------------------------------------------------
\* Components are pairs, and tell to whom they belong.
LEMMA Components ==
    ASSUME NEW i \in Instances
    PROVE  /\ \A n : <<i, n>> \in ComponentsOf(i) <=> n \in 1 .. Size[i]
           /\ \A c \in ComponentsOf(i) : c = <<i, c[2]>> /\ c[1] = i /\ c[2] \in 1 .. Size[i]
           /\ \A j \in Instances : \A c \in ComponentsOf(i) : c \in ComponentsOf(j) => j = i
           /\ \A c \in ComponentsOf(i) : c \in AllComponents /\ c # NoOwner
<1>1. Size[i] \in Nat BY LifecycleAssumption
<1>2. \A n : <<i, n>> \in ComponentsOf(i) <=> n \in 1 .. Size[i] BY DEF ComponentsOf
<1>3. \A j \in Instances : \A c \in ComponentsOf(j) : \E n \in 1 .. Size[j] : c = <<j, n>>
  BY DEF ComponentsOf
<1>4. \A c \in ComponentsOf(i) : c \in Instances \X Nat BY <1>1, <1>3
<1>5. \A c \in ComponentsOf(i) : c \in AllComponents BY DEF AllComponents
<1> QED BY <1>2, <1>3, <1>4, <1>5, LifecycleAssumption

\* A known component belongs to a known instance.
LEMMA Owner ==
    ASSUME NEW c \in AllComponents
    PROVE  c[1] \in Instances /\ c \in ComponentsOf(c[1])
<1>1. PICK i \in Instances : c \in ComponentsOf(i) BY DEF AllComponents
<1> QED BY <1>1, Components

\* An operation is under way when it says what it does.
LEMMA IdleDoesNothing ==
    Shapes => /\ op = Idle <=> op.doing = "nothing"
              /\ op.doing \in Doings <=> op # Idle
              /\ op.doing \in Doings => op \in Operations
  BY DEF Shapes, Operations, Doings, Idle

\* What concerns j only is as it was, or there is less of it.
Untouched(j) ==
    /\ state'[j] = state[j]
    /\ \A c \in ComponentsOf(j) : c \in running' <=> c \in running
    /\ Owned(j)' \subseteq Owned(j)
    /\ \A t \in Targets : hosts'[t] \in ComponentsOf(j) => hosts[t] \in ComponentsOf(j)
    /\ j \in serving' <=> j \in serving
    /\ j \in shown' <=> j \in shown

\* Who is not concerned by a step stays at rest.
LEMMA UntouchedRests ==
    ASSUME NEW j \in Instances, Rest(j), Untouched(j) PROVE Rest(j)'
  BY DEF Rest, Full, Clean, Untouched

\* A callback of a component changes the effects of no other instance.
LEMMA OthersKeepEffects ==
    ASSUME NEW c, NEW j, c[1] # j, effects' \in EffectsAfter(c) PROVE Owned(j)' = Owned(j)
  BY DEF EffectsAfter, Owned

\* Revoking takes the effects and targets of an instance, and only them.
LEMMA RevokeSpares ==
    ASSUME Shapes, NEW i \in Instances, Revoke(i)
    PROVE  /\ Owned(i)' = {}
           /\ \A t \in Targets : hosts'[t] \notin ComponentsOf(i)
           /\ \A j \in Instances \ {i} : Owned(j)' = Owned(j)
           /\ \A t \in Targets : hosts'[t] \in {hosts[t], NoOwner}
           /\ hosts' \in [Targets -> AllComponents \union {NoOwner}]
<1>1. \A t \in Targets :
        hosts'[t] = IF hosts[t] # NoOwner /\ hosts[t][1] = i THEN NoOwner ELSE hosts[t]
  BY DEF Revoke, RevokeTargets
<1>2. \A t \in Targets : hosts'[t] \in {hosts[t], NoOwner} BY <1>1
<1>3. \A t \in Targets : hosts'[t] \notin ComponentsOf(i) BY <1>1, Components
<1>4. Owned(i)' = {} /\ \A j \in Instances \ {i} : Owned(j)' = Owned(j)
  BY DEF Revoke, Owned
<1>5. hosts' \in [Targets -> AllComponents \union {NoOwner}]
  BY <1>2 DEF Shapes, Revoke, RevokeTargets
<1> QED BY <1>2, <1>3, <1>4, <1>5

-----------------------------------------------------------------------------
\* At first nothing is registered.
LEMMA InitInv == Init => LifecycleInv
<1> SUFFICES ASSUME Init PROVE LifecycleInv OBVIOUS
<1>1. op.doing = "nothing" BY DEF Init, Idle
<1>2. \A i \in Instances : \A c \in ComponentsOf(i) : c # NoOwner BY Components
<1>3. Shapes BY <1>1, <1>2 DEF Init, Shapes
<1>4. Settled BY <1>2 DEF Init, Settled, Rest, Clean, Owned
<1>5. Underway BY <1>1 DEF Underway, Busy
<1>6. Bound BY DEF Init, Bound
<1> QED BY <1>3, <1>4, <1>5, <1>6 DEF LifecycleInv

\* Between operations everybody rests.
LEMMA FreeRests ==
    LifecycleInv /\ op = Idle => op.doing = "nothing" /\ \A i \in Instances : Rest(i)
  BY IdleDoesNothing DEF LifecycleInv, Settled, Busy

\* The owner of a target is active between operations, so that whoever is
\* loaded through it is bound to a registered instance.
LEMMA RegisterInv ==
    ASSUME LifecycleInv, NEW i \in Instances, Register(i) PROVE LifecycleInv'
<1>1. op = Idle /\ op.doing = "nothing" /\ op' = op /\ \A j \in Instances : Rest(j)
  BY FreeRests DEF Register, Free
<1>2. \A t \in Needs[i] : t \in Targets /\ hosts[t][1] \in Instances /\ state[hosts[t][1]] = "active"
  <2> SUFFICES ASSUME NEW t \in Needs[i]
               PROVE  t \in Targets /\ hosts[t][1] \in Instances /\ state[hosts[t][1]] = "active"
    OBVIOUS
  <2>1. t \in Targets BY LifecycleAssumption
  <2>2. hosts[t] \in AllComponents BY <2>1 DEF Register, LifecycleInv, Shapes
  <2> QED BY <2>1, <2>2, Owner, <1>1 DEF Rest, Clean
<1>3. {hosts[t][1] : t \in Needs[i]} \subseteq Instances BY <1>2
<1>4. Shapes'
  <2>1. state' \in [Instances -> {"absent", "registered", "active", "stopped"}]
    BY DEF Register, LifecycleInv, Shapes
  <2>2. uses' \in [Instances -> SUBSET Instances] BY <1>3 DEF Register, LifecycleInv, Shapes
  <2>3. contributions' \subseteq UNION {Contributes[j] : j \in Instances}
    BY DEF Register, LifecycleInv, Shapes
  <2> QED BY <2>1, <2>2, <2>3, <1>1 DEF Register, LifecycleInv, Shapes, visible
<1>5. Settled'
  BY <1>1 DEF Register, LifecycleInv, Shapes, Settled, Rest, Full, Clean, Owned, visible
<1>6. Underway' BY <1>1 DEF Underway, Busy
<1>7. Bound' BY <1>2, <1>3 DEF Register, LifecycleInv, Shapes, Bound
<1> QED BY <1>4, <1>5, <1>6, <1>7 DEF LifecycleInv

\* An active component publishes a target.
LEMMA PublishTargetInv ==
    ASSUME LifecycleInv, NEW i \in Instances, NEW c \in ComponentsOf(i), NEW t \in Targets,
           PublishTarget(c, t)
    PROVE  LifecycleInv'
<1>1. op = Idle /\ op.doing = "nothing" /\ op' = op /\ \A j \in Instances : Rest(j)
  BY FreeRests DEF PublishTarget, Free
<1>2. c[1] = i /\ c \in AllComponents /\ state[i] = "active" /\ t \in Publishes[i]
  BY Components DEF PublishTarget
<1>3. hosts' = [hosts EXCEPT ![t] = c] BY DEF PublishTarget
<1>4. Shapes'
  <2>1. hosts' \in [Targets -> AllComponents \union {NoOwner}]
    BY <1>2, <1>3 DEF LifecycleInv, Shapes
  <2>2. \A u \in Targets, j \in Instances : hosts'[u] \in ComponentsOf(j) => u \in Publishes[j]
    BY <1>2, <1>3, Components DEF LifecycleInv, Shapes
  <2> QED BY <2>1, <2>2 DEF PublishTarget, LifecycleInv, Shapes, visible
<1>5. Settled'
  <2> SUFFICES ASSUME NEW j \in Instances PROVE Rest(j)' BY DEF Settled
  <2>1. Rest(j) BY <1>1
  <2>2. CASE j = i BY <2>1, <2>2, <1>2 DEF PublishTarget, Rest, Full, visible
  <2>3. CASE j # i
    <3>1. Untouched(j)
      BY <2>3, <1>3, Components DEF PublishTarget, LifecycleInv, Shapes, Untouched, Owned, visible
    <3> QED BY <2>1, <3>1, UntouchedRests
  <2> QED BY <2>2, <2>3
<1>6. Underway' BY <1>1 DEF Underway, Busy
<1>7. Bound' BY DEF PublishTarget, LifecycleInv, Bound
<1> QED BY <1>4, <1>5, <1>6, <1>7 DEF LifecycleInv
-----------------------------------------------------------------------------
\* What an operation is at its begin.
LEMMA DoingType ==
    ASSUME NEW what \in Doings, NEW i \in Instances, NEW at \in Nat
    PROVE  Doing(what, i, at) \in Operations
<1>1. <<>> \in Seq(Instances) OBVIOUS
<1> QED BY <1>1 DEF Doing, Operations, Doings

\* A start begins with nothing running.
LEMMA BeginStartInv ==
    ASSUME LifecycleInv, NEW i \in Instances, BeginStart(i) PROVE LifecycleInv'
<1>1. op = Idle /\ todo = {} /\ \A j \in Instances : Rest(j)
  BY FreeRests DEF BeginStart, Free
<1>2. op' = Doing("start", i, 0) /\ op' \in Operations
  BY DoingType DEF BeginStart, Doings
<1>3. op'.doing = "start" /\ op'.inst = i /\ op'.at = 0 /\ ~op'.unregister
  BY <1>2 DEF Doing
<1>4. Shapes'
  <2>1. contributions' \subseteq UNION {Contributes[j] : j \in Instances}
    BY DEF BeginStart, LifecycleInv, Shapes
  <2>2. op'.at <= Size[op'.inst] BY <1>3, LifecycleAssumption
  <2> QED BY <1>1, <1>2, <1>3, <2>1, <2>2 DEF BeginStart, LifecycleInv, Shapes, visible
<1>5. Settled'
  BY <1>1 DEF BeginStart, Settled, Rest, Full, Clean, Owned, visible
<1>6. Underway'
  <2>1. Clean(i) /\ state[i] \in {"registered", "stopped"} BY <1>1 DEF BeginStart, Rest
  <2>2. \A n \in 1 .. Size[i] : <<i, n>> \notin running BY <2>1, Components DEF Clean
  <2> QED BY <1>1, <1>3, <2>1, <2>2 DEF BeginStart, Underway, Busy, NoneAbove, Clean, visible
<1>7. Bound' BY DEF BeginStart, LifecycleInv, Bound
<1> QED BY <1>4, <1>5, <1>6, <1>7 DEF LifecycleInv

\* While one instance is busy the others rest.
LEMMA AtWork ==
    ASSUME LifecycleInv, op.doing \in {"start", "rollback", "stop"}
    PROVE  /\ op \in Operations /\ op.inst \in Instances /\ op.at \in 0 .. Size[op.inst]
           /\ Size[op.inst] \in Nat /\ Busy(op.inst)
           /\ \A j \in Instances \ {op.inst} : Rest(j)
           /\ todo # {} => op.chain # <<>>
<1>1. op \in Operations /\ op # Idle
  BY IdleDoesNothing DEF LifecycleInv, Doings
<1>2. op.inst \in Instances /\ op.at \in Nat /\ op.at <= Size[op.inst]
  BY <1>1 DEF LifecycleInv, Shapes, Operations
<1>3. Size[op.inst] \in Nat BY <1>2, LifecycleAssumption
<1> QED BY <1>1, <1>2, <1>3 DEF LifecycleInv, Shapes, Settled, Busy

\* The effects of a callback are of known components.
LEMMA EffectsAfterType ==
    ASSUME Shapes, NEW c \in AllComponents, effects' \in EffectsAfter(c)
    PROVE  effects' \subseteq AllComponents
  BY DEF Shapes, EffectsAfter

\* The next component runs, and others are not concerned.
LEMMA StartComponentInv == ASSUME LifecycleInv, StartComponent PROVE LifecycleInv'
<1> DEFINE i == op.inst
           c == <<i, op.at + 1>>
<1>1. /\ op \in Operations /\ i \in Instances /\ op.at \in 0 .. Size[i] /\ Size[i] \in Nat
      /\ \A j \in Instances \ {i} : Rest(j)
      /\ todo # {} => op.chain # <<>>
      /\ Busy(i) /\ op.doing = "start" /\ op.at < Size[i]
  BY AtWork DEF StartComponent, Is
<1>2. c \in ComponentsOf(i) /\ c \in AllComponents /\ c[1] = i /\ c # NoOwner
  BY <1>1, Components
<1>3. running' = running \union {c} /\ effects' \in EffectsAfter(c)
  BY DEF StartComponent
<1>4. PICK T \in SUBSET {t \in Publishes[i] : hosts[t] = NoOwner} :
        hosts' = [t \in Targets |-> IF t \in T THEN c ELSE hosts[t]]
  BY DEF StartComponent
<1>5. op' = [op EXCEPT !.at = @ + 1] BY DEF StartComponent
<1>6. /\ op' \in Operations /\ op'.inst = i /\ op'.at = op.at + 1 /\ op'.doing = "start"
      /\ op'.chain = op.chain /\ op'.unregister = op.unregister
  BY <1>1, <1>5 DEF Operations
<1>7. Shapes'
  <2>1. running' \subseteq AllComponents /\ effects' \subseteq AllComponents
    BY <1>2, <1>3, EffectsAfterType DEF LifecycleInv, Shapes
  <2>2. hosts' \in [Targets -> AllComponents \union {NoOwner}]
    BY <1>2, <1>4 DEF LifecycleInv, Shapes
  <2>3. \A t \in Targets, j \in Instances : hosts'[t] \in ComponentsOf(j) => t \in Publishes[j]
    BY <1>1, <1>2, <1>4, Components DEF LifecycleInv, Shapes
  <2>4. op'.at <= Size[op'.inst] BY <1>1, <1>6
  <2> QED BY <1>1, <1>6, <2>1, <2>2, <2>3, <2>4 DEF StartComponent, LifecycleInv, Shapes, visible
<1>8. Settled'
  <2> SUFFICES ASSUME NEW j \in Instances, j # i PROVE Rest(j)'
    BY <1>6 DEF Settled, Busy
  <2>1. c \notin ComponentsOf(j) BY <1>1, <1>2, Components
  <2>2. Owned(j)' = Owned(j) BY <1>2, <1>3, OthersKeepEffects
  <2>3. Untouched(j) BY <1>3, <1>4, <2>1, <2>2 DEF StartComponent, Untouched, visible
  <2> QED BY <1>1, <2>3, UntouchedRests
<1>9. Underway'
  <2>1. Dependents(i)' = Dependents(i) BY DEF StartComponent, Dependents
  <2>2. NoneAbove(i, op.at) BY <1>1 DEF LifecycleInv, Underway
  <2>3. (NoneAbove(i, op.at))'
    BY <1>1, <1>3, <1>6, <2>2 DEF NoneAbove
  <2>4. \A n \in 1 .. op.at + 1 : <<i, n>> \in running'
    BY <1>1, <1>3 DEF LifecycleInv, Underway
  <2> QED BY <1>1, <1>6, <2>1, <2>3, <2>4
        DEF StartComponent, LifecycleInv, Underway, Busy, visible
<1>10. Bound' BY DEF StartComponent, LifecycleInv, Bound
<1> QED BY <1>7, <1>8, <1>9, <1>10 DEF LifecycleInv

\* The rollback begins above every component that runs.
LEMMA StartFailsInv == ASSUME LifecycleInv, StartFails PROVE LifecycleInv'
<1> DEFINE i == op.inst
           c == <<i, op.at + 1>>
<1>1. /\ i \in Instances /\ op.at \in 0 .. Size[i] /\ Size[i] \in Nat
      /\ \A j \in Instances \ {i} : Rest(j)
      /\ Busy(i) /\ op.doing = "start" /\ op.at < Size[i]
  BY AtWork DEF StartFails, Is
<1>2. c \in ComponentsOf(i) /\ c \in AllComponents /\ c[1] = i
  BY <1>1, Components
<1>3. running' = running \union {c} /\ effects' \in EffectsAfter(c)
  BY DEF StartFails
<1>4. op' = Doing("rollback", i, op.at + 1) /\ op' \in Operations
  BY <1>1, DoingType DEF StartFails, Doings
<1>5. op'.inst = i /\ op'.at = op.at + 1 /\ op'.doing = "rollback" /\ ~op'.unregister
  BY <1>4 DEF Doing
<1>6. todo = {} BY <1>1 DEF LifecycleInv, Underway
<1>7. Shapes'
  <2>1. running' \subseteq AllComponents /\ effects' \subseteq AllComponents
    BY <1>2, <1>3, EffectsAfterType DEF LifecycleInv, Shapes
  <2>2. op'.at <= Size[op'.inst] BY <1>1, <1>5
  <2> QED BY <1>4, <1>5, <1>6, <2>1, <2>2 DEF StartFails, LifecycleInv, Shapes, visible
<1>8. Settled'
  <2> SUFFICES ASSUME NEW j \in Instances, j # i PROVE Rest(j)'
    BY <1>5 DEF Settled, Busy
  <2>1. c \notin ComponentsOf(j) BY <1>1, <1>2, Components
  <2>2. Owned(j)' = Owned(j) BY <1>2, <1>3, OthersKeepEffects
  <2>3. Untouched(j) BY <1>3, <2>1, <2>2 DEF StartFails, Untouched, visible
  <2> QED BY <1>1, <2>3, UntouchedRests
<1>9. Underway'
  <2>1. NoneAbove(i, op.at) BY <1>1 DEF LifecycleInv, Underway
  <2>2. (NoneAbove(i, op.at))' BY <1>1, <1>3, <1>5, <2>1 DEF NoneAbove
  <2> QED BY <1>1, <1>5, <2>2 DEF StartFails, LifecycleInv, Underway, Busy, visible
<1>10. Bound' BY DEF StartFails, LifecycleInv, Bound
<1> QED BY <1>7, <1>8, <1>9, <1>10 DEF LifecycleInv

\* All components run when the instance becomes active.
LEMMA FinishStartInv == ASSUME LifecycleInv, FinishStart PROVE LifecycleInv'
<1>0. PICK i \in Instances : i = op.inst BY AtWork DEF FinishStart, Is
<1>1. /\ i \in Instances /\ \A j \in Instances \ {i} : Rest(j)
      /\ Busy(i) /\ op.doing = "start" /\ op.at = Size[i]
  BY <1>0, AtWork DEF FinishStart, Is
<1>2. op' = Idle /\ op'.doing = "nothing" BY DEF FinishStart, Idle
<1>3. state' = [state EXCEPT ![i] = "active"]
  BY <1>0 DEF FinishStart
<1>4. Shapes' BY <1>0, <1>1, <1>2, <1>3 DEF FinishStart, LifecycleInv, Shapes, registries
<1>5. Settled'
  <2>1. Rest(i)'
    <3>1. ComponentsOf(i) \subseteq running
      <4>1. \A n \in 1 .. Size[i] : <<i, n>> \in running BY <1>0, <1>1 DEF LifecycleInv, Underway
      <4> QED BY <1>1, <4>1, Components
    <3> QED BY <1>1, <1>3, <3>1, <1>0 DEF FinishStart, LifecycleInv, Shapes, Rest, Full, registries
  <2>2. ASSUME NEW j \in Instances, j # i PROVE Rest(j)'
    <3>1. Untouched(j)
      BY <1>0, <1>3, <2>2 DEF FinishStart, LifecycleInv, Shapes, Untouched, Owned, registries
    <3> QED BY <1>1, <2>2, <3>1, UntouchedRests
  <2> QED BY <2>1, <2>2 DEF Settled
<1>6. Underway' BY <1>2 DEF Underway, Busy
<1>7. Bound' BY <1>1, <1>3 DEF FinishStart, LifecycleInv, Shapes, Bound, Underway, registries
<1> QED BY <1>4, <1>5, <1>6, <1>7 DEF LifecycleInv

\* The rollback begins above every component, all of which run.
LEMMA FinalizationFailsInv == ASSUME LifecycleInv, FinalizationFails PROVE LifecycleInv'
<1> DEFINE i == op.inst
<1>1. /\ i \in Instances /\ \A j \in Instances \ {i} : Rest(j)
      /\ Size[i] \in Nat
      /\ Busy(i) /\ op.doing = "start" /\ op.at = Size[i]
      /\ todo = {} /\ i \notin serving /\ state[i] \in {"registered", "stopped"}
  BY AtWork DEF FinalizationFails, Is, LifecycleInv, Underway
<1>2. op' = Doing("rollback", i, Size[i]) /\ op' \in Operations
  BY <1>1, DoingType DEF FinalizationFails, Doings
<1>3. op'.inst = i /\ op'.at = Size[i] /\ op'.doing = "rollback" /\ ~op'.unregister
  BY <1>2 DEF Doing
<1>4. Shapes'
  BY <1>1, <1>2, <1>3 DEF FinalizationFails, LifecycleInv, Shapes, registries
<1>5. Settled'
  <2> SUFFICES ASSUME NEW j \in Instances, j # i PROVE Rest(j)'
    BY <1>3 DEF Settled, Busy
  <2>1. Untouched(j) BY DEF FinalizationFails, Untouched, Owned, registries
  <2> QED BY <1>1, <2>1, UntouchedRests
<1>6. Underway'
  BY <1>1, <1>3 DEF FinalizationFails, Underway, Busy, NoneAbove
<1>7. Bound' BY DEF FinalizationFails, LifecycleInv, Bound, registries
<1> QED BY <1>4, <1>5, <1>6, <1>7 DEF LifecycleInv

\* One component less of the instance that is busy.
LEMMA OneLess ==
    ASSUME LifecycleInv, op.doing \in {"rollback", "stop"}, op.at > 0,
           running' = running \ {<<op.inst, op.at>>},
           effects' \in EffectsAfter(<<op.inst, op.at>>),
           UNCHANGED <<state, contributions, hosts, uses, visible, todo>>,
           op' \in Operations,
           op'.doing = op.doing, op'.inst = op.inst, op'.at = op.at - 1,
           op'.chain = op.chain, op'.unregister = op.unregister
    PROVE  LifecycleInv'
<1> DEFINE i == op.inst
           c == <<i, op.at>>
<1>1. /\ i \in Instances /\ op.at \in 0 .. Size[i] /\ Size[i] \in Nat
      /\ \A j \in Instances \ {i} : Rest(j)
      /\ todo # {} => op.chain # <<>>
      /\ Busy(i)
  BY AtWork
<1>2. c \in ComponentsOf(i) /\ c \in AllComponents /\ c[1] = i BY <1>1, Components
<1>3. Shapes'
  <2>1. effects' \subseteq AllComponents BY <1>2, EffectsAfterType DEF LifecycleInv
  <2>2. running' \subseteq AllComponents BY DEF LifecycleInv, Shapes
  <2>3. op'.at <= Size[op'.inst] BY <1>1
  <2> QED BY <1>1, <2>1, <2>2, <2>3 DEF LifecycleInv, Shapes, visible
<1>4. Settled'
  <2> SUFFICES ASSUME NEW j \in Instances, j # i PROVE Rest(j)' BY DEF Settled, Busy
  <2>1. c \notin ComponentsOf(j) BY <1>1, <1>2, Components
  <2>2. Owned(j)' = Owned(j) BY <1>2, OthersKeepEffects
  <2>3. Untouched(j) BY <2>1, <2>2 DEF Untouched, visible
  <2> QED BY <1>1, <2>3, UntouchedRests
<1>5. Underway'
  <2>1. Dependents(i)' = Dependents(i) BY DEF Dependents
  <2>2. NoneAbove(i, op.at) BY <1>1 DEF LifecycleInv, Underway
  <2>3. (NoneAbove(i, op.at))' BY <1>1, <2>2 DEF NoneAbove
  <2> QED BY <1>1, <2>1, <2>3 DEF LifecycleInv, Underway, Busy, visible
<1>6. Bound' BY DEF LifecycleInv, Bound
<1> QED BY <1>3, <1>4, <1>5, <1>6 DEF LifecycleInv

\* Rolling back takes one component after another.
LEMMA RollBackComponentInv == ASSUME LifecycleInv, RollBackComponent PROVE LifecycleInv'
<1>1. op \in Operations /\ op.at \in Nat /\ op.at > 0 /\ op.doing = "rollback"
  BY AtWork DEF RollBackComponent, Is, Operations
<1>2. op' = [op EXCEPT !.at = @ - 1] BY DEF RollBackComponent
<1>3. /\ op' \in Operations /\ op'.doing = op.doing /\ op'.inst = op.inst
      /\ op'.at = op.at - 1 /\ op'.chain = op.chain /\ op'.unregister = op.unregister
  BY <1>1, <1>2 DEF Operations
<1> QED BY <1>1, <1>3, OneLess DEF RollBackComponent

\* Whether a callback failed is noted, and nothing else.
LEMMA NotesFailure ==
    ASSUME NEW o \in Operations, NEW failed \in BOOLEAN
    PROVE  LET noted == [o EXCEPT !.failed = failed]
           IN  /\ noted \in Operations /\ noted.doing = o.doing /\ noted.inst = o.inst
               /\ noted.at = o.at /\ noted.chain = o.chain /\ noted.unregister = o.unregister
  BY DEF Operations

\* So does stopping, whatever the callbacks say.
LEMMA StopComponentInv == ASSUME LifecycleInv, StopComponent PROVE LifecycleInv'
<1>1. op \in Operations /\ op.at \in Nat /\ op.at > 0 /\ op.doing = "stop"
  BY AtWork DEF StopComponent, Is, Operations
<1>2. PICK failed \in BOOLEAN : op' = [op EXCEPT !.at = @ - 1, !.failed = failed]
  <2>1. PICK fails \in BOOLEAN :
          op' = [op EXCEPT !.at = @ - 1, !.failed = @ \/ (fails /\ op.unregister)]
    BY DEF StopComponent
  <2>2. (op.failed \/ (fails /\ op.unregister)) \in BOOLEAN BY <2>1
  <2> QED BY <2>1, <2>2, Zenon
<1> DEFINE less == [op EXCEPT !.at = @ - 1]
<1>3. /\ less \in Operations /\ less.doing = op.doing /\ less.inst = op.inst
      /\ less.at = op.at - 1 /\ less.chain = op.chain /\ less.unregister = op.unregister
  BY <1>1 DEF Operations
<1>4. op' = [less EXCEPT !.failed = failed] BY <1>2
<1> HIDE DEF less
<1>5. /\ op' \in Operations /\ op'.doing = op.doing /\ op'.inst = op.inst
      /\ op'.at = op.at - 1 /\ op'.chain = op.chain /\ op'.unregister = op.unregister
  BY <1>3, <1>4, NotesFailure
<1> QED BY <1>1, <1>5, OneLess DEF StopComponent

\* Nothing runs when every component was visited.
LEMMA NothingRuns ==
    ASSUME LifecycleInv, op.doing \in {"rollback", "stop"}, op.at = 0
    PROVE  running \intersect ComponentsOf(op.inst) = {}
<1>1. op.inst \in Instances /\ NoneAbove(op.inst, 0) BY AtWork DEF LifecycleInv, Underway
<1> QED BY <1>1, Components DEF NoneAbove

\* The rolled back instance is clean, and as inactive as it was.
LEMMA EndRollbackInv == ASSUME LifecycleInv, EndRollback PROVE LifecycleInv'
<1>0. PICK i \in Instances : i = op.inst BY AtWork DEF EndRollback, Is
<1>1. /\ i \in Instances /\ \A j \in Instances \ {i} : Rest(j)
      /\ state[i] \in {"registered", "stopped"}
  BY <1>0, AtWork DEF EndRollback, Is, LifecycleInv, Underway
<1>2. op' = Idle /\ op'.doing = "nothing" BY DEF EndRollback, Idle
<1>3. /\ Owned(i)' = {}
      /\ \A t \in Targets : hosts'[t] \notin ComponentsOf(i)
      /\ \A j \in Instances \ {i} : Owned(j)' = Owned(j)
      /\ \A t \in Targets : hosts'[t] \in {hosts[t], NoOwner}
      /\ hosts' \in [Targets -> AllComponents \union {NoOwner}]
  BY <1>0, RevokeSpares DEF EndRollback, LifecycleInv
<1>4. \A j \in Instances, t \in Targets : hosts'[t] \in ComponentsOf(j) => hosts[t] \in ComponentsOf(j)
  BY <1>3, Components
<1>5. Shapes'
  <2>1. effects' \subseteq AllComponents
    BY DEF EndRollback, Revoke, LifecycleInv, Shapes
  <2>2. contributions' \subseteq UNION {Contributes[j] : j \in Instances}
    BY DEF EndRollback, LifecycleInv, Shapes
  <2>3. \A t \in Targets, j \in Instances : hosts'[t] \in ComponentsOf(j) => t \in Publishes[j]
    BY <1>4 DEF LifecycleInv, Shapes
  <2>4. todo = {} BY AtWork DEF EndRollback, Is, LifecycleInv, Underway
  <2> QED BY <1>2, <1>3, <2>1, <2>2, <2>3, <2>4 DEF EndRollback, LifecycleInv, Shapes
<1>6. Settled'
  <2>1. Rest(i)'
    <3>1. running \intersect ComponentsOf(i) = {} BY <1>0, NothingRuns DEF EndRollback, Is
    <3> QED BY <1>0, <1>1, <1>3, <3>1 DEF EndRollback, Rest, Clean
  <2>2. ASSUME NEW j \in Instances, j # i PROVE Rest(j)'
    <3>1. Untouched(j) BY <1>0, <1>3, <1>4, <2>2 DEF EndRollback, Untouched
    <3> QED BY <1>1, <2>2, <3>1, UntouchedRests
  <2> QED BY <2>1, <2>2 DEF Settled
<1>7. Underway' BY <1>2 DEF Underway, Busy
<1>8. Bound' BY DEF EndRollback, LifecycleInv, Bound
<1> QED BY <1>5, <1>6, <1>7, <1>8 DEF LifecycleInv

-----------------------------------------------------------------------------
\* A stop begins with an instance that nobody sees and, when it is to be
\* unregistered, nobody was loaded through.
LEMMA BeginStopInv ==
    ASSUME LifecycleInv, NEW i \in Instances, NEW unregister \in BOOLEAN, BeginStop(i, unregister)
    PROVE  LifecycleInv'
<1>1. op = Idle /\ todo = {} /\ \A j \in Instances : Rest(j)
  BY FreeRests DEF BeginStop, Free
<1>2. Size[i] \in Nat BY LifecycleAssumption
<1>3. op' = [Doing("stop", i, Size[i]) EXCEPT !.unregister = unregister] BY DEF BeginStop
<1>4. /\ op' \in Operations /\ op'.doing = "stop" /\ op'.inst = i /\ op'.at = Size[i]
  <2>1. Doing("stop", i, Size[i]) \in Operations BY <1>2, DoingType DEF Doings
  <2> QED BY <2>1, <1>3 DEF Doing, Operations
<1>5. Shapes'
  BY <1>1, <1>2, <1>4 DEF BeginStop, Hide, LifecycleInv, Shapes, registries
<1>6. Settled'
  <2> SUFFICES ASSUME NEW j \in Instances, j # i PROVE Rest(j)'
    BY <1>4 DEF Settled, Busy
  <2>1. Untouched(j) BY DEF BeginStop, Hide, Untouched, Owned, registries
  <2> QED BY <1>1, <2>1, UntouchedRests
<1>7. Underway'
  BY <1>2, <1>4 DEF BeginStop, Hide, InUse, Dependents, Underway, Busy, NoneAbove, registries
<1>8. Bound' BY DEF BeginStop, LifecycleInv, Bound, registries
<1> QED BY <1>5, <1>6, <1>7, <1>8 DEF LifecycleInv

\* The quarantine goes on with the instance it came from, if there is one.
LEMMA ContinueType ==
    ASSUME op \in Operations
    PROVE  \/ Continue = Idle
           \/ /\ Continue \in Operations /\ Continue.doing = "quarantine"
              /\ Continue.at = 0 /\ Continue.chain # <<>> /\ ~Continue.unregister
<1>1. op.chain \in Seq(Instances) /\ op.visited \subseteq Instances BY DEF Operations
<1>2. CASE Len(op.chain) <= 1 BY <1>2 DEF Continue
<1>3. CASE ~(Len(op.chain) <= 1)
  <2> DEFINE rest == Front(op.chain)
             last == Last(rest)
  <2>1. rest \in Seq(Instances) /\ Len(rest) \in Nat /\ Len(rest) >= 1 /\ rest # <<>>
    <3>1. rest \in Seq(Instances) /\ Len(rest) = Len(op.chain) - 1
      BY <1>1, <1>3 DEF Front
    <3> HIDE DEF rest
    <3> QED BY <3>1, <1>1, <1>3
  <2>2. last \in Instances
    <3> HIDE DEF rest
    <3> QED BY <2>1 DEF Last
  <2>3. Doing("quarantine", last, 0) \in Operations BY <2>2, DoingType DEF Doings
  <2>4. Continue = [Doing("quarantine", last, 0) EXCEPT !.chain = rest, !.visited = op.visited]
    BY <1>3 DEF Continue
  <2> HIDE DEF rest, last
  <2> QED BY <1>1, <2>1, <2>3, <2>4 DEF Doing, Operations
<1> QED BY <1>2, <1>3

\* What is stopped is clean; what is unregistered was nobody's provider.
LEMMA EndStopInv == ASSUME LifecycleInv, EndStop PROVE LifecycleInv'
<1>0. PICK i \in Instances : i = op.inst BY AtWork DEF EndStop, Is
<1> DEFINE gone == op.unregister /\ ~op.failed
<1>1. /\ \A j \in Instances \ {i} : Rest(j)
      /\ op \in Operations /\ i \notin serving /\ i \notin shown
      /\ gone => Dependents(i) = {}
      /\ todo # {} => op.chain # <<>>
  BY <1>0, AtWork DEF EndStop, Is, LifecycleInv, Underway
<1>2. /\ state' = [state EXCEPT ![i] = IF gone THEN "absent" ELSE "stopped"]
      /\ uses' = [uses EXCEPT ![i] = IF gone THEN {} ELSE @]
      /\ op' = Continue /\ Release(i)
  BY <1>0 DEF EndStop
<1> HIDE DEF gone
<1>3. \/ op' = Idle /\ op'.doing = "nothing"
      \/ op' \in Operations /\ op'.doing = "quarantine" /\ op'.at = 0 /\ op'.chain # <<>>
         /\ ~op'.unregister
  BY <1>1, <1>2, ContinueType DEF Idle
<1>4. /\ Owned(i)' = {}
      /\ \A t \in Targets : hosts'[t] \notin ComponentsOf(i)
      /\ \A j \in Instances \ {i} : Owned(j)' = Owned(j)
      /\ \A t \in Targets : hosts'[t] \in {hosts[t], NoOwner}
      /\ hosts' \in [Targets -> AllComponents \union {NoOwner}]
  BY <1>2, RevokeSpares DEF Release, LifecycleInv
<1>5. \A j \in Instances, t \in Targets : hosts'[t] \in ComponentsOf(j) => hosts[t] \in ComponentsOf(j)
  BY <1>4, Components
<1>6. Shapes'
  <2>1. effects' \subseteq AllComponents
    BY <1>2 DEF Release, Revoke, LifecycleInv, Shapes
  <2>2. contributions' \subseteq UNION {Contributes[j] : j \in Instances}
    BY <1>2 DEF Release, LifecycleInv, Shapes
  <2>3. \A t \in Targets, j \in Instances : hosts'[t] \in ComponentsOf(j) => t \in Publishes[j]
    BY <1>5 DEF LifecycleInv, Shapes
  <2>4. op'.doing = "quarantine" => op'.at <= Size[op'.inst]
    BY <1>3, LifecycleAssumption DEF Operations
  <2>5. /\ state' \in [Instances -> {"absent", "registered", "active", "stopped"}]
        /\ uses' \in [Instances -> SUBSET Instances]
    BY <1>2 DEF LifecycleInv, Shapes
  <2> QED BY <1>3, <1>4, <2>1, <2>2, <2>3, <2>4, <2>5 DEF EndStop, LifecycleInv, Shapes, visible
<1>7. Settled'
  <2>1. Rest(i)'
    <3>1. running \intersect ComponentsOf(i) = {} BY <1>0, NothingRuns DEF EndStop, Is
    <3>2. state'[i] # "active" BY <1>2 DEF LifecycleInv, Shapes
    <3> QED BY <1>1, <1>4, <3>1, <3>2 DEF EndStop, Rest, Clean, visible
  <2>2. ASSUME NEW j \in Instances, j # i PROVE Rest(j)'
    <3>1. Untouched(j) BY <1>2, <1>4, <1>5, <2>2 DEF EndStop, Untouched, visible, LifecycleInv, Shapes
    <3> QED BY <1>1, <2>2, <3>1, UntouchedRests
  <2> QED BY <2>1, <2>2 DEF Settled
<1>8. Underway' BY <1>3 DEF Underway, Busy
<1>9. Bound'
  <2>1. \A d \in Instances : d # i => state'[d] = state[d] /\ uses'[d] = uses[d]
    BY <1>2 DEF LifecycleInv, Shapes
  <2>2. /\ gone => state'[i] = "absent" /\ uses'[i] = {}
        /\ ~gone => state'[i] = "stopped" /\ uses'[i] = uses[i]
    BY <1>2 DEF LifecycleInv, Shapes
  <2> QED BY <1>1, <2>1, <2>2 DEF LifecycleInv, Shapes, Bound, Dependents
<1> QED BY <1>6, <1>7, <1>8, <1>9 DEF LifecycleInv

\* Nobody loses a provider: an instance that is in use is not forgotten.
LEMMA UnregisterInv ==
    ASSUME LifecycleInv, NEW i \in Instances, Unregister(i) PROVE LifecycleInv'
<1>1. op = Idle /\ op.doing = "nothing" /\ op' = op /\ \A j \in Instances : Rest(j)
  BY FreeRests DEF Unregister, Free
<1>2. \A t \in Targets : hosts'[t] \in {hosts[t], NoOwner}
  BY DEF Unregister, RevokeTargets
<1>3. hosts' \in [Targets -> AllComponents \union {NoOwner}]
  BY <1>2 DEF Unregister, RevokeTargets, LifecycleInv, Shapes
<1>4. \A j \in Instances, t \in Targets : hosts'[t] \in ComponentsOf(j) => hosts[t] \in ComponentsOf(j)
  BY <1>2, Components
<1>5. Shapes'
  <2>1. contributions' \subseteq UNION {Contributes[j] : j \in Instances}
    BY DEF Unregister, LifecycleInv, Shapes
  <2>2. \A t \in Targets, j \in Instances : hosts'[t] \in ComponentsOf(j) => t \in Publishes[j]
    BY <1>4 DEF LifecycleInv, Shapes
  <2>3. /\ state' \in [Instances -> {"absent", "registered", "active", "stopped"}]
        /\ uses' \in [Instances -> SUBSET Instances]
    BY DEF Unregister, LifecycleInv, Shapes
  <2> QED BY <1>1, <1>3, <2>1, <2>2, <2>3 DEF Unregister, Hide, LifecycleInv, Shapes
<1>6. Settled'
  <2> SUFFICES ASSUME NEW j \in Instances PROVE Rest(j)' BY DEF Settled
  <2>1. Rest(j) BY <1>1
  <2>2. CASE j = i
    <3>1. Clean(i) /\ state'[i] = "absent"
      BY <2>1, <2>2 DEF Unregister, Rest, LifecycleInv, Shapes
    <3> QED BY <1>4, <2>2, <3>1 DEF Unregister, Hide, Rest, Clean, Owned
  <2>3. CASE j # i
    <3>1. Untouched(j)
      BY <1>4, <2>3 DEF Unregister, Hide, Untouched, Owned, LifecycleInv, Shapes
    <3> QED BY <2>1, <3>1, UntouchedRests
  <2> QED BY <2>2, <2>3
<1>7. Underway' BY <1>1 DEF Underway, Busy
<1>8. Bound'
  <2>1. \A d \in Instances : d # i => state'[d] = state[d] /\ uses'[d] = uses[d] /\ i \notin uses[d]
    BY DEF Unregister, InUse, Dependents, LifecycleInv, Shapes
  <2>2. state'[i] = "absent" /\ uses'[i] = {} BY DEF Unregister, LifecycleInv, Shapes
  <2> QED BY <2>1, <2>2 DEF LifecycleInv, Shapes, Bound
<1> QED BY <1>5, <1>6, <1>7, <1>8 DEF LifecycleInv
-----------------------------------------------------------------------------
\* Descending to a dependent stops nothing yet.
LEMMA QuarantineDependentInv ==
    ASSUME LifecycleInv, QuarantineDependent PROVE LifecycleInv'
<1>1. /\ op \in Operations /\ op.doing = "quarantine" /\ op.at = 0 /\ op.chain # <<>>
      /\ ~op.unregister
  BY IdleDoesNothing DEF QuarantineDependent, Is, LifecycleInv, Shapes, Doings
<1>2. PICK d \in Instances :
        op' = [op EXCEPT !.inst = d, !.chain = Append(@, d), !.visited = @ \union {d}]
  BY DEF QuarantineDependent, Unvisited, Dependents
<1>3. Append(op.chain, d) \in Seq(Instances) /\ Append(op.chain, d) # <<>>
  BY <1>1 DEF Operations
<1>4. /\ op' \in Operations /\ op'.doing = "quarantine" /\ op'.at = 0 /\ op'.chain # <<>>
      /\ op'.inst = d /\ ~op'.unregister
  BY <1>1, <1>2, <1>3 DEF Operations
<1>5. Shapes'
  BY <1>4, LifecycleAssumption DEF QuarantineDependent, LifecycleInv, Shapes, registries, visible
<1>6. Settled'
  <2> SUFFICES ASSUME NEW j \in Instances PROVE Rest(j)' BY DEF Settled
  <2>1. Rest(j) BY <1>1 DEF LifecycleInv, Settled, Busy
  <2>2. Untouched(j) BY DEF QuarantineDependent, Untouched, Owned, registries, visible
  <2> QED BY <2>1, <2>2, UntouchedRests
<1>7. Underway' BY <1>4 DEF Underway, Busy
<1>8. Bound' BY DEF QuarantineDependent, LifecycleInv, Bound, registries
<1> QED BY <1>5, <1>6, <1>7, <1>8 DEF LifecycleInv

\* Once its dependents are done, an instance is hidden and stopped.
LEMMA QuarantineStopInv == ASSUME LifecycleInv, QuarantineStop PROVE LifecycleInv'
<1>1. /\ op \in Operations /\ op.doing = "quarantine" /\ op.at = 0 /\ op.chain # <<>>
      /\ ~op.unregister
  BY IdleDoesNothing DEF QuarantineStop, Is, LifecycleInv, Shapes, Doings
<1>2. PICK i \in Instances : i = op.inst BY <1>1 DEF Operations
<1>3. \A j \in Instances : Rest(j) BY <1>1 DEF LifecycleInv, Settled, Busy
<1>4. Bound' BY DEF QuarantineStop, LifecycleInv, Bound, registries
<1>5. CASE state[i] = "stopped"
  <2>1. op' = Continue /\ UNCHANGED visible BY <1>2, <1>5 DEF QuarantineStop
  <2>2. \/ op' = Idle /\ op'.doing = "nothing"
        \/ op' \in Operations /\ op'.doing = "quarantine" /\ op'.at = 0 /\ op'.chain # <<>>
           /\ ~op'.unregister
    BY <1>1, <2>1, ContinueType DEF Idle
  <2>3. Shapes'
    <3>1. op'.doing = "quarantine" => op'.at <= Size[op'.inst]
      BY <2>2, LifecycleAssumption DEF Operations
    <3> QED BY <2>1, <2>2, <3>1 DEF QuarantineStop, LifecycleInv, Shapes, registries, visible
  <2>4. Settled'
    <3> SUFFICES ASSUME NEW j \in Instances PROVE Rest(j)' BY DEF Settled
    <3>1. Untouched(j) BY <2>1 DEF QuarantineStop, Untouched, Owned, registries, visible
    <3> QED BY <1>3, <3>1, UntouchedRests
  <2>5. Underway' BY <2>2 DEF Underway, Busy
  <2> QED BY <1>4, <2>3, <2>4, <2>5 DEF LifecycleInv
<1>6. CASE state[i] # "stopped"
  <2>1. Hide(i) /\ op' = [op EXCEPT !.doing = "stop", !.at = Size[i]]
    BY <1>2, <1>6 DEF QuarantineStop
  <2>2. Size[i] \in Nat BY LifecycleAssumption
  <2>3. /\ op' \in Operations /\ op'.doing = "stop" /\ op'.inst = i /\ op'.at = Size[i]
        /\ op'.chain = op.chain /\ op'.unregister = op.unregister
    BY <1>1, <1>2, <2>1, <2>2 DEF Operations, Doings
  <2>4. Shapes'
    BY <1>1, <2>1, <2>2, <2>3 DEF QuarantineStop, Hide, LifecycleInv, Shapes, registries
  <2>5. Settled'
    <3> SUFFICES ASSUME NEW j \in Instances, j # i PROVE Rest(j)'
      BY <2>3 DEF Settled, Busy
    <3>1. Untouched(j) BY <2>1 DEF QuarantineStop, Hide, Untouched, Owned, registries
    <3> QED BY <1>3, <3>1, UntouchedRests
  <2>6. Underway'
    BY <1>1, <2>1, <2>2, <2>3 DEF Hide, Underway, Busy, NoneAbove
  <2> QED BY <1>4, <2>4, <2>5, <2>6 DEF LifecycleInv
<1> QED BY <1>5, <1>6

\* A snapshot of components disturbs nothing.
LEMMA SnapshotInv ==
    ASSUME LifecycleInv, op = Idle, todo' \subseteq AllComponents,
           UNCHANGED <<state, running, registries, visible, op>>
    PROVE  LifecycleInv'
<1>1. op.doing = "nothing" BY DEF Idle
<1>2. Shapes' BY DEF LifecycleInv, Shapes, registries, visible
<1>3. Settled'
  <2> SUFFICES ASSUME NEW j \in Instances PROVE Rest(j)' BY DEF Settled
  <2>1. Untouched(j) BY DEF Untouched, Owned, registries, visible
  <2> QED BY FreeRests, <2>1, UntouchedRests
<1>4. Underway' BY <1>1 DEF Underway, Busy
<1>5. Bound' BY DEF LifecycleInv, Bound, registries
<1> QED BY <1>2, <1>3, <1>4, <1>5 DEF LifecycleInv

\* A callback runs only in an active instance, whose effects are its own.
LEMMA VisitInv == ASSUME LifecycleInv, NEW c \in todo, Visit(c) PROVE LifecycleInv'
<1>1. op = Idle /\ \A j \in Instances : Rest(j) BY FreeRests DEF Visit
<1>2. c \in AllComponents /\ c[1] \in Instances BY Owner DEF LifecycleInv, Shapes
<1>3. todo' \subseteq todo /\ UNCHANGED <<state, running, contributions, hosts, uses, visible>>
  BY DEF Visit
<1>4. CASE ~Reachable(c)
  <2>1. UNCHANGED <<effects, op>> BY <1>4 DEF Visit
  <2> QED BY <1>1, <1>3, <2>1, SnapshotInv DEF LifecycleInv, Shapes, registries
<1>5. CASE Reachable(c)
  <2>1. effects' \in EffectsAfter(c) /\ (UNCHANGED op \/ Quarantine(c[1])) BY <1>5 DEF Visit
  <2>2. \/ op' = Idle /\ op'.doing = "nothing"
        \/ /\ op' \in Operations /\ op'.doing = "quarantine" /\ op'.at = 0
           /\ op'.chain # <<>> /\ ~op'.unregister
    <3>1. CASE UNCHANGED op BY <1>1, <3>1 DEF Idle
    <3>2. CASE Quarantine(c[1])
      <4>1. Doing("quarantine", c[1], 0) \in Operations BY <1>2, DoingType DEF Doings
      <4>2. <<c[1]>> \in Seq(Instances) /\ <<c[1]>> # <<>> BY <1>2
      <4> QED BY <1>2, <3>2, <4>1, <4>2 DEF Quarantine, Doing, Operations
    <3> QED BY <2>1, <3>1, <3>2
  <2>3. Shapes'
    <3>1. effects' \subseteq AllComponents BY <1>2, <2>1, EffectsAfterType DEF LifecycleInv
    <3>2. op'.doing = "quarantine" => op'.at <= Size[op'.inst]
      BY <2>2, LifecycleAssumption DEF Operations
    <3> QED BY <1>3, <2>2, <3>1, <3>2 DEF LifecycleInv, Shapes, visible
  <2>4. Settled'
    <3> SUFFICES ASSUME NEW j \in Instances PROVE Rest(j)' BY DEF Settled
    <3>1. CASE j = c[1]
      <4>1. Full(j) /\ state[j] = "active" BY <1>1, <1>5, <3>1 DEF Reachable, Active, Rest
      <4> QED BY <1>3, <4>1 DEF Rest, Full, visible
    <3>2. CASE j # c[1]
      <4>1. Untouched(j) BY <1>3, <2>1, <3>2, OthersKeepEffects DEF Untouched, visible
      <4> QED BY <1>1, <4>1, UntouchedRests
    <3> QED BY <3>1, <3>2
  <2>5. Underway' BY <2>2 DEF Underway, Busy
  <2>6. Bound' BY <1>3 DEF LifecycleInv, Bound
  <2> QED BY <2>3, <2>4, <2>5, <2>6 DEF LifecycleInv
<1> QED BY <1>4, <1>5

-----------------------------------------------------------------------------
\* Every step keeps the invariant.
LEMMA StepInv == LifecycleInv /\ [Next]_vars => LifecycleInv'
<1> SUFFICES ASSUME LifecycleInv, [Next]_vars PROVE LifecycleInv'
  OBVIOUS
<1>1. ASSUME NEW i \in Instances, Register(i) PROVE LifecycleInv' BY <1>1, RegisterInv
<1>2. ASSUME NEW i \in Instances, BeginStart(i) PROVE LifecycleInv' BY <1>2, BeginStartInv
<1>3. ASSUME NEW i \in Instances, Unregister(i) PROVE LifecycleInv' BY <1>3, UnregisterInv
<1>4. ASSUME NEW i \in Instances, NEW unregister \in BOOLEAN, BeginStop(i, unregister)
      PROVE  LifecycleInv'
  BY <1>4, BeginStopInv
<1>5. ASSUME NEW i \in Instances, NEW c \in ComponentsOf(i), NEW t \in Targets, PublishTarget(c, t)
      PROVE  LifecycleInv'
  BY <1>5, PublishTargetInv
<1>6. CASE StartComponent BY <1>6, StartComponentInv
<1>7. CASE StartFails BY <1>7, StartFailsInv
<1>8. CASE FinishStart BY <1>8, FinishStartInv
<1>9. CASE FinalizationFails BY <1>9, FinalizationFailsInv
<1>10. CASE RollBackComponent BY <1>10, RollBackComponentInv
<1>11. CASE EndRollback BY <1>11, EndRollbackInv
<1>12. CASE StopComponent BY <1>12, StopComponentInv
<1>13. CASE EndStop BY <1>13, EndStopInv
<1>14. CASE QuarantineDependent BY <1>14, QuarantineDependentInv
<1>15. CASE QuarantineStop BY <1>15, QuarantineStopInv
<1>16. CASE PollRuntime \/ DispatchEvent \/ DispatchUiAction
  <2>1. op = Idle /\ UNCHANGED <<state, running, registries, visible, op>>
    BY <1>16 DEF PollRuntime, DispatchEvent, DispatchUiAction, Free
  <2>2. todo' \subseteq AllComponents
    <3>1. CASE PollRuntime BY <3>1 DEF PollRuntime, AllComponents
    <3>2. CASE DispatchEvent BY <3>2 DEF DispatchEvent, LifecycleInv, Shapes
    <3>3. CASE DispatchUiAction BY <3>3 DEF DispatchUiAction, AllComponents, LifecycleInv, Shapes
    <3> QED BY <1>16, <3>1, <3>2, <3>3
  <2> QED BY <2>1, <2>2, SnapshotInv
<1>17. ASSUME NEW c \in todo, Visit(c) PROVE LifecycleInv' BY <1>17, VisitInv
<1>18. CASE UNCHANGED vars
  <2>1. UNCHANGED <<state, running, registries, visible, op, todo>> BY <1>18 DEF vars
  <2>2. UNCHANGED <<state, running, contributions, effects, hosts, uses, serving, shown, op, todo>>
    BY <2>1 DEF registries, visible
  <2>3. Shapes' BY <2>2 DEF LifecycleInv, Shapes
  <2>4. Settled' BY <2>2 DEF LifecycleInv, Settled, Busy, Rest, Full, Clean, Owned
  <2>5. Underway' BY <2>2 DEF LifecycleInv, Underway, Busy, NoneAbove, Dependents
  <2>6. Bound' BY <2>2 DEF LifecycleInv, Bound
  <2> QED BY <2>3, <2>4, <2>5, <2>6 DEF LifecycleInv
<1> QED BY <1>1, <1>2, <1>3, <1>4, <1>5, <1>6, <1>7, <1>8, <1>9, <1>10, <1>11, <1>12,
          <1>13, <1>14, <1>15, <1>16, <1>17, <1>18 DEF Next

\* The inductive invariant: whatever an operation met on its way, everybody
\* but the instance it works on is fully started or fully stopped.
THEOREM LifecycleInvHolds == Spec => []LifecycleInv
<1> QED BY InitInv, StepInv, PTL DEF Spec

\* The state keeps its shape.
THEOREM LifecycleTypeCorrect == Spec => []LifecycleTypeOK
<1>1. LifecycleInv => LifecycleTypeOK
  <2> SUFFICES ASSUME LifecycleInv PROVE LifecycleTypeOK OBVIOUS
  <2>1. \A t \in Targets :
          hosts[t] = NoOwner \/ \E i \in Instances : t \in Publishes[i] /\ hosts[t] \in ComponentsOf(i)
    BY Owner DEF LifecycleInv, Shapes
  <2>2. op = Idle \/ (op.inst \in Instances /\ op.at \in 0 .. Size[op.inst])
    BY LifecycleAssumption DEF LifecycleInv, Shapes, Operations
  <2>3. \A i \in Instances : i \in serving \/ i \in shown => state[i] # "absent"
    <3> SUFFICES ASSUME NEW i \in Instances, i \in serving \/ i \in shown, state[i] = "absent"
                 PROVE  FALSE
      OBVIOUS
    <3>1. Busy(i) BY DEF LifecycleInv, Settled, Rest, Clean
    <3> QED BY <3>1 DEF LifecycleInv, Underway, Busy
  <2> QED BY <2>1, <2>2, <2>3 DEF LifecycleInv, Shapes, LifecycleTypeOK
<1> QED BY <1>1, LifecycleInvHolds, PTL

\* However an operation ended, nothing of an inactive instance is left behind.
THEOREM NothingIsLeft == Spec => []NothingLeftBehind
<1>1. LifecycleInv => NothingLeftBehind
  BY FreeRests DEF NothingLeftBehind, Rest, Full, Clean
<1> QED BY <1>1, LifecycleInvHolds, PTL

\* At no moment is a call routed to an instance that is only partly started.
THEOREM ServesWhileStarted == Spec => []ServesOnlyWhileStarted
<1>1. LifecycleInv => ServesOnlyWhileStarted
  BY DEF LifecycleInv, Shapes, Settled, Underway, Rest, Full, Clean, ServesOnlyWhileStarted
<1> QED BY <1>1, LifecycleInvHolds, PTL

\* A registered instance keeps the registration of its target providers.
THEOREM ProvidersRegistered == Spec => []ProvidersStayRegistered
<1>1. LifecycleInv => ProvidersStayRegistered
  BY DEF LifecycleInv, Bound, ProvidersStayRegistered
<1> QED BY <1>1, LifecycleInvHolds, PTL

-----------------------------------------------------------------------------
\* A new instance is a provider of nobody, so it closes no circle.
LEMMA RegisterKeepsAcyclic ==
    ASSUME LifecycleInv, LifecycleInv', Acyclic, NEW i \in Instances, Register(i)
    PROVE  Acyclic'
<1>1. \A d \in Instances : d # i => uses'[d] = uses[d]
  BY DEF Register, LifecycleInv, Shapes
<1>2. \A d \in Instances : i \notin uses'[d]
  <2>1. state[i] = "absent" BY DEF Register
  <2>2. \A d \in Instances : i \notin uses[d] BY <2>1 DEF LifecycleInv, Bound
  <2>3. i \notin uses'[i]
    <3>1. uses'[i] = {hosts[t][1] : t \in Needs[i]} BY DEF Register, LifecycleInv, Shapes
    <3>2. \A t \in Needs[i] : state[hosts[t][1]] = "active"
      <4> SUFFICES ASSUME NEW t \in Needs[i] PROVE state[hosts[t][1]] = "active" OBVIOUS
      <4>1. t \in Targets /\ hosts[t] # NoOwner BY LifecycleAssumption DEF Register
      <4>2. hosts[t] \in AllComponents BY <4>1 DEF LifecycleInv, Shapes
      <4>3. \A j \in Instances : Rest(j) BY FreeRests DEF Register, Free
      <4> QED BY <4>1, <4>2, <4>3, Owner DEF Rest, Clean
    <3> QED BY <2>1, <3>1, <3>2
  <2> QED BY <1>1, <2>2, <2>3
<1> SUFFICES ASSUME NEW S \in SUBSET Instances, \A p \in S : \E d \in S : p \in uses'[d]
             PROVE  S = {}
  BY DEF Acyclic
<1>3. i \notin S BY <1>2
<1>4. \A p \in S : \E d \in S : p \in uses[d] BY <1>1, <1>3
<1> QED BY <1>4 DEF Acyclic

\* Forgetting providers closes no circle.
LEMMA FewerUsesKeepAcyclic ==
    ASSUME Acyclic, \A d \in Instances : uses'[d] \subseteq uses[d] PROVE Acyclic'
  BY DEF Acyclic

\* Whoever starts, rolls back or does nothing owes no order to anybody.
LEMMA NoOrderOwed ==
    ASSUME op'.doing \notin {"stop", "quarantine"}, Acyclic' PROVE OrderInv'
  BY DEF OrderInv, Lineage, DependentsFirst

\* An active dependent that was visited is on the stack, above its provider:
\* the circle that it closes does not exist.
LEMMA VisitedDependentsStopped ==
    ASSUME LifecycleInv, OrderInv, Is("quarantine"), Unvisited(op.inst) = {},
           NEW d \in Dependents(op.inst)
    PROVE  state[d] # "active"
<1>1. op \in Operations /\ op.chain # <<>> /\ op.doing = "quarantine"
  BY IdleDoesNothing DEF Is, LifecycleInv, Shapes, Doings
<1> SUFFICES ASSUME state[d] = "active" PROVE FALSE
  OBVIOUS
<1> DEFINE chain == op.chain
           last == Len(chain)
<1>2. chain \in Seq(Instances) /\ chain # <<>> /\ last \in Nat /\ last >= 1
  BY <1>1 DEF Operations
<1>3. /\ chain[last] = op.inst
      /\ \A n \in 1 .. last - 1 : chain[n] \in uses[chain[n + 1]]
      /\ \A v \in op.visited : state[v] = "active" => \E n \in 1 .. last : v = chain[n]
  BY <1>1 DEF OrderInv, Lineage, Last, OnChain
<1>4. d \in op.visited BY DEF Unvisited
<1>5. PICK m \in 1 .. last : d = chain[m] BY <1>3, <1>4
<1>6. d \in Instances /\ op.inst \in uses[d] BY DEF Dependents
<1> HIDE DEF chain, last
<1> DEFINE S == {chain[n] : n \in m .. last}
<1>7. S \in SUBSET Instances
  <2>1. \A n \in m .. last : n \in 1 .. last BY <1>2
  <2>2. \A n \in 1 .. last : chain[n] \in Instances BY <1>2 DEF last
  <2> QED BY <2>1, <2>2
<1>8. \A p \in S : \E e \in S : p \in uses[e]
  <2> SUFFICES ASSUME NEW n \in m .. last PROVE \E e \in S : chain[n] \in uses[e]
    OBVIOUS
  <2>1. CASE n = last
    <3>1. d \in S BY <1>2, <1>5
    <3> QED BY <1>3, <1>6, <2>1, <3>1
  <2>2. CASE n # last
    <3>1. n \in 1 .. last - 1 /\ n + 1 \in m .. last BY <1>2, <2>2
    <3>2. chain[n + 1] \in S BY <3>1
    <3> QED BY <1>3, <3>1, <3>2
  <2> QED BY <2>1, <2>2
<1>9. S = {} BY <1>7, <1>8 DEF OrderInv, Acyclic
<1>10. chain[m] \in S BY <1>2
<1> QED BY <1>9, <1>10

\* When the top of the stack is stopped, the rest of it is still in order.
LEMMA ContinueInOrder ==
    ASSUME LifecycleInv, OrderInv, op \in Operations, op.doing \in {"stop", "quarantine"},
           op' = Continue, state'[op.inst] # "active",
           \A j \in Instances : j # op.inst => state'[j] = state[j],
           op.chain # <<>> => uses' = uses,
           Acyclic'
    PROVE  OrderInv'
<1> DEFINE chain == op.chain
           rest == Front(chain)
<1>1. CASE Len(chain) <= 1
  <2>1. op'.doing = "nothing" BY <1>1 DEF Continue, Idle
  <2> QED BY <2>1, NoOrderOwed
<1>2. CASE ~(Len(chain) <= 1)
  <2>1. chain \in Seq(Instances) /\ Len(chain) \in Nat /\ Len(chain) >= 2 /\ chain # <<>>
    BY <1>2 DEF Operations
  <2>2. /\ rest \in Seq(Instances) /\ Len(rest) = Len(chain) - 1
        /\ \A n \in 1 .. Len(chain) - 1 : rest[n] = chain[n]
    BY <2>1 DEF Front
  <2>3. /\ op'.doing = "quarantine" /\ op'.inst = Last(rest) /\ op'.chain = rest
        /\ op'.visited = op.visited /\ op'.unregister = FALSE
    BY <1>2 DEF Continue, Doing
  <2>4. /\ op.inst = chain[Len(chain)]
        /\ \A n \in 1 .. Len(chain) - 1 : chain[n] \in uses[chain[n + 1]]
        /\ \A v \in op.visited : state[v] = "active" => \E n \in 1 .. Len(chain) : v = chain[n]
        /\ op.visited \subseteq Instances
    BY <2>1 DEF OrderInv, Lineage, OnChain, Last, Operations
  <2>5. uses' = uses BY <2>1
  <2> HIDE DEF chain, rest
  <2>6. \A n \in 1 .. Len(rest) - 1 : rest[n] \in uses'[rest[n + 1]]
    <3> SUFFICES ASSUME NEW n \in 1 .. Len(rest) - 1 PROVE rest[n] \in uses'[rest[n + 1]]
      OBVIOUS
    <3>1. n \in 1 .. Len(chain) - 1 /\ n + 1 \in 1 .. Len(chain) - 1 BY <2>1, <2>2
    <3> QED BY <2>2, <2>4, <2>5, <3>1
  <2>7. \A v \in op.visited : state'[v] = "active" => \E n \in 1 .. Len(rest) : v = rest[n]
    <3> SUFFICES ASSUME NEW v \in op.visited, state'[v] = "active"
                 PROVE  \E n \in 1 .. Len(rest) : v = rest[n]
      OBVIOUS
    <3>1. v \in Instances /\ v # op.inst /\ state[v] = "active" BY <2>4
    <3>2. PICK n \in 1 .. Len(chain) : v = chain[n] BY <2>4, <3>1
    <3>3. n # Len(chain) BY <2>4, <3>1, <3>2
    <3>4. n \in 1 .. Len(rest) /\ n \in 1 .. Len(chain) - 1 BY <2>1, <2>2, <3>3
    <3> QED BY <2>2, <3>2, <3>4
  <2>8. Lineage' BY <2>3, <2>6, <2>7 DEF Lineage, OnChain
  <2>9. DependentsFirst' BY <2>3 DEF DependentsFirst
  <2> QED BY <2>8, <2>9 DEF OrderInv
<1> QED BY <1>1, <1>2

\* The quarantine returns from the instance it stopped.
LEMMA EndStopInOrder ==
    ASSUME LifecycleInv, OrderInv, EndStop PROVE OrderInv'
<1>0. PICK i \in Instances : i = op.inst BY AtWork DEF EndStop, Is
<1> DEFINE gone == op.unregister /\ ~op.failed
<1>1. /\ state' = [state EXCEPT ![i] = IF gone THEN "absent" ELSE "stopped"]
      /\ uses' = [uses EXCEPT ![i] = IF gone THEN {} ELSE @]
      /\ op' = Continue
  BY <1>0 DEF EndStop
<1>2. op \in Operations /\ op.doing = "stop" BY AtWork DEF EndStop, Is
<1>3. gone => op.chain = <<>> BY <1>2 DEF OrderInv, Lineage
<1> HIDE DEF gone
<1>4. /\ state'[i] # "active" /\ \A j \in Instances : j # i => state'[j] = state[j]
  BY <1>1 DEF LifecycleInv, Shapes
<1>5. op.chain # <<>> => uses' = uses BY <1>1, <1>3 DEF LifecycleInv, Shapes
<1>6. Acyclic'
  <2>1. \A d \in Instances : uses'[d] \subseteq uses[d] BY <1>1 DEF LifecycleInv, Shapes
  <2> QED BY <2>1, FewerUsesKeepAcyclic DEF OrderInv
<1> QED BY <1>0, <1>1, <1>2, <1>4, <1>5, <1>6, ContinueInOrder

\* The quarantine descends to a dependent.
LEMMA QuarantineDependentInOrder ==
    ASSUME LifecycleInv, OrderInv, QuarantineDependent PROVE OrderInv'
<1>1. op \in Operations /\ op.doing = "quarantine" /\ op.chain # <<>> /\ ~op.unregister
  BY IdleDoesNothing DEF QuarantineDependent, Is, LifecycleInv, Shapes, Doings
<1>2. PICK d \in Dependents(op.inst) :
        op' = [op EXCEPT !.inst = d, !.chain = Append(@, d), !.visited = @ \union {d}]
  BY DEF QuarantineDependent, Unvisited
<1>3. d \in Instances /\ op.inst \in uses[d] BY DEF Dependents
<1> DEFINE chain == op.chain
           longer == Append(chain, d)
<1>4. /\ op'.doing = "quarantine" /\ op'.inst = d /\ op'.chain = longer
      /\ op'.visited = op.visited \union {d} /\ op'.unregister = op.unregister
  BY <1>1, <1>2 DEF Operations
<1>5. /\ chain \in Seq(Instances) /\ Len(chain) \in Nat /\ Len(chain) >= 1
      /\ chain[Len(chain)] = op.inst
      /\ \A n \in 1 .. Len(chain) - 1 : chain[n] \in uses[chain[n + 1]]
      /\ \A v \in op.visited : state[v] = "active" => \E n \in 1 .. Len(chain) : v = chain[n]
  BY <1>1 DEF OrderInv, Lineage, OnChain, Last, Operations
<1> HIDE DEF chain
<1>6. /\ Len(longer) = Len(chain) + 1 /\ longer[Len(chain) + 1] = d
      /\ \A n \in 1 .. Len(chain) : longer[n] = chain[n]
  BY <1>3, <1>5
<1> HIDE DEF longer
<1>7. UNCHANGED <<state, uses>> BY DEF QuarantineDependent, registries
<1>8. \A n \in 1 .. Len(longer) - 1 : longer[n] \in uses[longer[n + 1]]
  <2> SUFFICES ASSUME NEW n \in 1 .. Len(longer) - 1 PROVE longer[n] \in uses[longer[n + 1]]
    OBVIOUS
  <2>1. n \in 1 .. Len(chain) BY <1>5, <1>6
  <2>2. CASE n = Len(chain) BY <1>3, <1>5, <1>6, <2>1, <2>2
  <2>3. CASE n # Len(chain)
    <3>1. n \in 1 .. Len(chain) - 1 /\ n + 1 \in 1 .. Len(chain) BY <1>5, <2>1, <2>3
    <3> QED BY <1>5, <1>6, <2>1, <3>1
  <2> QED BY <2>2, <2>3
<1>9. \A v \in op'.visited : state[v] = "active" => \E n \in 1 .. Len(longer) : v = longer[n]
  <2> SUFFICES ASSUME NEW v \in op'.visited, state[v] = "active"
               PROVE  \E n \in 1 .. Len(longer) : v = longer[n]
    OBVIOUS
  <2>1. CASE v = d
    <3>1. Len(chain) + 1 \in 1 .. Len(longer) BY <1>5, <1>6
    <3> QED BY <1>6, <2>1, <3>1
  <2>2. CASE v # d
    <3>1. PICK n \in 1 .. Len(chain) : v = chain[n] BY <1>4, <1>5, <2>2
    <3>2. n \in 1 .. Len(longer) BY <1>5, <1>6
    <3> QED BY <1>6, <3>1, <3>2
  <2> QED BY <2>1, <2>2
<1>10. longer[Len(longer)] = d BY <1>6
<1>11. Lineage'
  BY <1>1, <1>4, <1>7, <1>8, <1>9, <1>10 DEF Lineage, OnChain, Last
<1>12. DependentsFirst' BY <1>4 DEF DependentsFirst
<1>13. Acyclic' BY <1>7 DEF OrderInv, Acyclic
<1> QED BY <1>11, <1>12, <1>13 DEF OrderInv

\* The quarantine stops the instance it reached.
LEMMA QuarantineStopInOrder ==
    ASSUME LifecycleInv, OrderInv, QuarantineStop PROVE OrderInv'
<1>1. op \in Operations /\ op.doing = "quarantine" /\ ~op.unregister
  BY IdleDoesNothing DEF QuarantineStop, Is, LifecycleInv, Shapes, Doings
<1>2. UNCHANGED <<state, uses>> BY DEF QuarantineStop, registries
<1>3. Acyclic' BY <1>2 DEF OrderInv, Acyclic
<1>4. CASE state[op.inst] = "stopped"
  <2>1. op' = Continue BY <1>4 DEF QuarantineStop
  <2> QED BY <1>1, <1>2, <1>3, <1>4, <2>1, ContinueInOrder
<1>5. CASE state[op.inst] # "stopped"
  <2>1. op' = [op EXCEPT !.doing = "stop", !.at = Size[op.inst]] BY <1>5 DEF QuarantineStop
  <2>2. /\ op'.doing = "stop" /\ op'.inst = op.inst /\ op'.chain = op.chain
        /\ op'.visited = op.visited /\ op'.unregister = op.unregister
    BY <1>1, <2>1 DEF Operations
  <2>3. Lineage' BY <1>1, <1>2, <2>2 DEF OrderInv, Lineage, OnChain
  <2>4. \A d \in Dependents(op.inst) : state[d] # "active"
    BY VisitedDependentsStopped DEF QuarantineStop
  <2>5. DependentsFirst' BY <1>2, <2>2, <2>4 DEF DependentsFirst, Dependents
  <2> QED BY <1>3, <2>3, <2>5 DEF OrderInv
<1> QED BY <1>4, <1>5

\* Every step keeps the order.
LEMMA StepInOrder ==
    LifecycleInv /\ LifecycleInv' /\ OrderInv /\ [Next]_vars => OrderInv'
<1> SUFFICES ASSUME LifecycleInv, LifecycleInv', OrderInv, [Next]_vars PROVE OrderInv'
  OBVIOUS
<1>1. ASSUME NEW i \in Instances, Register(i) PROVE OrderInv'
  <2>1. op'.doing = "nothing" BY <1>1 DEF Register, Free, Idle
  <2> QED BY <1>1, <2>1, RegisterKeepsAcyclic, NoOrderOwed DEF OrderInv
<1>2. ASSUME NEW i \in Instances, Unregister(i) PROVE OrderInv'
  <2>1. op'.doing = "nothing" BY <1>2 DEF Unregister, Free, Idle
  <2>2. \A d \in Instances : uses'[d] \subseteq uses[d]
    BY <1>2 DEF Unregister, LifecycleInv, Shapes
  <2> QED BY <2>1, <2>2, FewerUsesKeepAcyclic, NoOrderOwed DEF OrderInv
<1>3. ASSUME NEW i \in Instances, NEW unregister \in BOOLEAN, BeginStop(i, unregister)
      PROVE  OrderInv'
  <2>1. /\ op'.doing = "stop" /\ op'.inst = i /\ op'.chain = <<>>
    BY <1>3 DEF BeginStop, Doing
  <2>2. UNCHANGED <<state, uses>> /\ Dependents(i) = {}
    BY <1>3 DEF BeginStop, InUse, registries
  <2>3. Lineage' BY <2>1 DEF Lineage
  <2>4. DependentsFirst' BY <2>1, <2>2 DEF DependentsFirst, Dependents
  <2>5. Acyclic' BY <2>2 DEF OrderInv, Acyclic
  <2> QED BY <2>3, <2>4, <2>5 DEF OrderInv
<1>4. CASE StopComponent
  <2>1. op \in Operations /\ op.doing = "stop" BY <1>4, AtWork DEF StopComponent, Is
  <2>2. /\ op'.doing = op.doing /\ op'.inst = op.inst /\ op'.chain = op.chain
        /\ op'.visited = op.visited /\ op'.unregister = op.unregister
    BY <1>4, <2>1 DEF StopComponent, Operations
  <2>3. UNCHANGED <<state, uses>> BY <1>4 DEF StopComponent
  <2>4. Lineage' BY <2>2, <2>3 DEF OrderInv, Lineage, OnChain
  <2>5. DependentsFirst' BY <2>2, <2>3 DEF OrderInv, DependentsFirst, Dependents
  <2>6. Acyclic' BY <2>3 DEF OrderInv, Acyclic
  <2> QED BY <2>4, <2>5, <2>6 DEF OrderInv
<1>5. CASE EndStop BY <1>5, EndStopInOrder
<1>6. CASE QuarantineDependent BY <1>6, QuarantineDependentInOrder
<1>7. CASE QuarantineStop BY <1>7, QuarantineStopInOrder
<1>8. ASSUME NEW c \in todo, Visit(c) PROVE OrderInv'
  <2>1. UNCHANGED <<state, uses>> BY <1>8 DEF Visit
  <2>2. Acyclic' BY <2>1 DEF OrderInv, Acyclic
  <2>3. CASE UNCHANGED op
    <3>1. op'.doing = "nothing" BY <1>8, <2>3 DEF Visit, Idle
    <3> QED BY <2>2, <3>1, NoOrderOwed
  <2>4. CASE Quarantine(c[1])
    <3>1. /\ op'.doing = "quarantine" /\ op'.inst = c[1] /\ op'.chain = <<c[1]>>
          /\ op'.visited = {c[1]} /\ ~op'.unregister
      BY <2>4 DEF Quarantine, Doing
    <3>2. Len(op'.chain) = 1 /\ op'.chain[1] = c[1] BY <3>1
    <3>3. Lineage' BY <3>1, <3>2 DEF Lineage, OnChain, Last
    <3>4. DependentsFirst' BY <3>1 DEF DependentsFirst
    <3> QED BY <2>2, <3>3, <3>4 DEF OrderInv
  <2> QED BY <1>8, <2>3, <2>4 DEF Visit
<1>9. ASSUME UNCHANGED uses, op'.doing \notin {"stop", "quarantine"} PROVE OrderInv'
  BY <1>9, NoOrderOwed DEF OrderInv, Acyclic
<1>10. ASSUME NEW i \in Instances, NEW c \in ComponentsOf(i), NEW t \in Targets, PublishTarget(c, t)
       PROVE  OrderInv'
  BY <1>9, <1>10 DEF PublishTarget, Free, Idle
<1>11. ASSUME NEW i \in Instances, BeginStart(i) PROVE OrderInv'
  BY <1>9, <1>11 DEF BeginStart, Doing
<1>12. CASE StartComponent
  <2>1. op \in Operations BY <1>12, AtWork DEF StartComponent, Is
  <2>2. op'.doing = "start" BY <1>12, <2>1 DEF StartComponent, Is, Operations
  <2> QED BY <1>9, <1>12, <2>2 DEF StartComponent
<1>13. CASE StartFails BY <1>9, <1>13 DEF StartFails, Doing
<1>14. CASE FinishStart BY <1>9, <1>14 DEF FinishStart, Idle, registries
<1>15. CASE FinalizationFails BY <1>9, <1>15 DEF FinalizationFails, Doing, registries
<1>16. CASE RollBackComponent
  <2>1. op \in Operations BY <1>16, AtWork DEF RollBackComponent, Is
  <2>2. op'.doing = "rollback" BY <1>16, <2>1 DEF RollBackComponent, Is, Operations
  <2> QED BY <1>9, <1>16, <2>2 DEF RollBackComponent
<1>17. CASE EndRollback BY <1>9, <1>17 DEF EndRollback, Idle
<1>18. CASE PollRuntime \/ DispatchEvent \/ DispatchUiAction
  BY <1>9, <1>18 DEF PollRuntime, DispatchEvent, DispatchUiAction, Free, Idle, registries
<1>19. CASE UNCHANGED vars
  <2>1. UNCHANGED <<state, uses, op>> BY <1>19 DEF vars, registries
  <2>2. Lineage' BY <2>1 DEF OrderInv, Lineage, OnChain
  <2>3. DependentsFirst' BY <2>1 DEF OrderInv, DependentsFirst, Dependents
  <2>4. Acyclic' BY <2>1 DEF OrderInv, Acyclic
  <2> QED BY <2>2, <2>3, <2>4 DEF OrderInv
<1> QED BY <1>1, <1>2, <1>3, <1>4, <1>5, <1>6, <1>7, <1>8, <1>10, <1>11, <1>12, <1>13,
          <1>14, <1>15, <1>16, <1>17, <1>18, <1>19 DEF Next

\* Loading goes by providers that exist, so there are no circles, and a
\* quarantine descends to everybody who was loaded before it stops a provider.
THEOREM OrderHolds == Spec => []OrderInv
<1>1. Init => OrderInv
  <2> SUFFICES ASSUME Init PROVE OrderInv OBVIOUS
  <2>1. op.doing = "nothing" BY DEF Init, Idle
  <2>2. Acyclic BY DEF Init, Acyclic
  <2> QED BY <2>1, <2>2 DEF OrderInv, Lineage, DependentsFirst
<1> QED BY <1>1, StepInOrder, LifecycleInvHolds, PTL DEF Spec

\* While a provider is stopped, whatever was loaded through it has stopped.
THEOREM ProvidersLast == Spec => []ProvidersStopLast
<1>1. LifecycleInv /\ OrderInv => ProvidersStopLast
  <2> SUFFICES ASSUME LifecycleInv, OrderInv, op.doing = "stop", NEW d \in Dependents(op.inst)
               PROVE  running \intersect ComponentsOf(d) = {}
    BY DEF ProvidersStopLast
  <2>1. d \in Instances /\ d # op.inst /\ state[d] # "active"
    BY DEF Dependents, OrderInv, DependentsFirst
  <2>2. Rest(d) BY <2>1 DEF LifecycleInv, Settled, Busy
  <2> QED BY <2>1, <2>2 DEF Rest, Clean
<1> QED BY <1>1, LifecycleInvHolds, OrderHolds, PTL
=============================================================================
