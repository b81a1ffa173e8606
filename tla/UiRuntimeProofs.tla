--------------------------- MODULE UiRuntimeProofs ---------------------------
(***************************************************************************)
(* Proofs about UiRuntime, for any layers, worlds, surfaces and patches:   *)
(* a layer is never left with something to show that it cannot render,     *)
(* queued actions and focus requests reach the sessions they were made in  *)
(* or none, no layer waits for a focus in vain, and what is mounted is a   *)
(* tree.                                                                   *)
(***************************************************************************)
EXTENDS UiRuntime, FiniteSetTheorems, WellFoundedInduction, TLAPS

\* The shape of what the argument is about.
Shapes ==
    /\ life \in [Instances -> {"none", "starting", "active", "stopped"}]
    /\ DOMAIN mounted \subseteq Instances
    /\ layer = [owner |-> layer.owner, rich |-> layer.rich,
                focused |-> layer.focused, pending |-> layer.pending]

\* Whoever runs a callback is starting or active, and whoever is starting runs one:
\* no layer is attached and no world focused in the middle of a start.
Callbacks ==
    /\ callback # None => callback \in Instances /\ life[callback] \in {"starting", "active"}
    /\ \A i \in Instances : life[i] = "starting" => callback = i

\* Unregistering takes the surface along, so that a later start has none.
Owned == \A i \in DOMAIN mounted : life[i] # "none"

Shown(i) == layer.owner # None /\ (i \in Layers \/ layer.focused = i)

\* What is shown once the start under way has succeeded is supported already.
Supported ==
    \A i \in DOMAIN mounted :
        Shown(i) /\ life[i] \in {"starting", "active"} => Supports(layer.rich, mounted[i].nodes)

UiInv == Shapes /\ Callbacks /\ Owned /\ Supported

LEMMA InitInv == Init => UiInv
BY UiAssumption DEF Init, UiInv, Shapes, Callbacks, Owned, Supported, NoLayer

-----------------------------------------------------------------------------
\* The life of instances.
LEMMA LifeInv ==
    ASSUME UiInv, NEW i \in Instances, Start(i) \/ Call(i) \/ Return \/ Fail \/ Unregister(i)
    PROVE  UiInv'
<1> USE UiAssumption
<1>1. CASE Start(i)
    BY <1>1 DEF Start, Idle, UiInv, Shapes, Callbacks, Owned, Supported, Shown
<1>2. CASE Call(i)
    BY <1>2 DEF Call, Idle, UiInv, Shapes, Callbacks, Owned, Supported, Shown
<1>3. CASE Return
    BY <1>3 DEF Return, UiInv, Shapes, Callbacks, Owned, Supported, Shown
<1>4. CASE Fail
  <2>1. DOMAIN mounted' = DOMAIN mounted \ {callback}
        /\ \A j \in DOMAIN mounted' : mounted'[j] = mounted[j]
    BY <1>4 DEF Fail, Revoke, Restrict
  <2>2. layer' \in {layer, NoLayer}
    BY <1>4 DEF Fail, Unless
  <2> QED BY <1>4, <2>1, <2>2 DEF Fail, NoLayer, UiInv, Shapes, Callbacks, Owned, Supported, Shown
<1>5. CASE Unregister(i)
  <2>1. DOMAIN mounted' = DOMAIN mounted \ {i}
        /\ \A j \in DOMAIN mounted' : mounted'[j] = mounted[j]
    BY <1>5 DEF Unregister, Revoke, Restrict
  <2>2. layer' \in {layer, NoLayer, [layer EXCEPT !.focused = None]}
    BY <1>5 DEF Unregister, Unless
  <2> QED BY <1>5, <2>1, <2>2 DEF Unregister, Idle, NoLayer, UiInv, Shapes, Callbacks, Owned,
          Supported, Shown
<1> QED BY <1>1, <1>2, <1>3, <1>4, <1>5

\* What a component does to its surface.
LEMMA SurfaceInv ==
    ASSUME UiInv, NEW i \in Instances,
           (\E nodes \in Initial : Mount(i, nodes)) \/ (\E batch \in Batches : Patch(i, batch)) \/ Unmount(i)
    PROVE  UiInv'
<1>1. CASE \E nodes \in Initial : Mount(i, nodes)
  <2> PICK nodes \in Initial : Mount(i, nodes)
    BY <1>1
  <2>1. DOMAIN mounted' = DOMAIN mounted \cup {i}
        /\ mounted'[i].nodes = nodes
        /\ \A j \in DOMAIN mounted : mounted'[j] = mounted[j]
    BY DEF Mount
  <2>2. Shown(i) => Supports(layer.rich, nodes)
    BY DEF Mount, Shown, Visible, NoLayer
  <2> QED BY <2>1, <2>2 DEF Mount, UiInv, Shapes, Callbacks, Owned, Supported, Shown
<1>2. CASE \E batch \in Batches : Patch(i, batch)
  <2> PICK batch \in Batches : Patch(i, batch)
    BY <1>2
  <2>1. PICK nodes \in Patched(mounted[i].nodes, batch) :
            /\ Visible(i) => Supports(layer.rich, nodes)
            /\ mounted' = [mounted EXCEPT ![i] = [nodes |-> nodes, revision |-> mounted[i].revision + 1]]
    BY DEF Patch
  <2>2. DOMAIN mounted' = DOMAIN mounted
        /\ mounted'[i].nodes = nodes
        /\ \A j \in DOMAIN mounted \ {i} : mounted'[j] = mounted[j]
    BY <2>1 DEF Patch
  <2>3. Shown(i) => Supports(layer.rich, nodes)
    BY <2>1 DEF Shown, Visible, NoLayer
  <2> QED BY <2>2, <2>3 DEF Patch, UiInv, Shapes, Callbacks, Owned, Supported, Shown
<1>3. CASE Unmount(i)
    BY <1>3 DEF Unmount, Restrict, UiInv, Shapes, Callbacks, Owned, Supported, Shown
<1> QED BY <1>1, <1>2, <1>3

\* The layer and its focus.
LEMMA AttachInv ==
    ASSUME UiInv, NEW l \in Layers, NEW rich \in BOOLEAN, Attach(l, rich)
    PROVE  UiInv'
<1> QED BY UiAssumption DEF Attach, Idle, Instances, UiInv, Shapes, Callbacks, Owned, Supported, Shown

LEMMA DetachInv ==
    ASSUME UiInv, NEW l \in Layers, Detach(l) \/ ClearFocus(l)
    PROVE  UiInv'
<1>1. CASE Detach(l)
    BY <1>1, UiAssumption DEF Detach, Idle, NoLayer, UiInv, Shapes, Callbacks, Owned, Supported, Shown
<1>2. CASE ClearFocus(l)
    BY <1>2, UiAssumption DEF ClearFocus, UiInv, Shapes, Callbacks, Owned, Supported, Shown
<1> QED BY <1>1, <1>2

LEMMA FocusInv ==
    ASSUME UiInv, NEW l \in Layers, NEW w \in Worlds, RequestFocus(l, w) \/ FocusNow(l, w)
    PROVE  UiInv'
<1>1. CASE RequestFocus(l, w)
    BY <1>1, UiAssumption DEF RequestFocus, UiInv, Shapes, Callbacks, Owned, Supported, Shown
<1>2. CASE FocusNow(l, w)
    BY <1>2, UiAssumption DEF FocusNow, CanFocus, Idle, UiInv, Shapes, Callbacks, Owned, Supported, Shown
<1> QED BY <1>1, <1>2

\* The host and its queues, and the workers.
LEMMA HostInv ==
    ASSUME UiInv, DrainActions \/ DrainRequests \/ Dispatch \/ HandleRequest
    PROVE  UiInv'
<1> USE UiAssumption
<1>1. CASE DrainActions \/ DrainRequests
    BY <1>1 DEF DrainActions, DrainRequests, UiInv, Shapes, Callbacks, Owned, Supported, Shown
<1>2. CASE Dispatch
  <2>1. /\ callback = None
        /\ callback' # None => callback' \in DOMAIN mounted /\ life[callback'] = "active"
        /\ UNCHANGED <<life, mounted, layer>>
    BY <1>2 DEF Dispatch, Routes
  <2> QED BY <2>1 DEF UiInv, Shapes, Callbacks, Owned, Supported, Shown
<1>3. CASE HandleRequest
  <2> DEFINE r == Head(work.left)
  <2>1. /\ callback = None
        /\ UNCHANGED <<life, mounted, callback>>
        /\ \/ layer' = layer
           \/ layer' = [layer EXCEPT !.pending = Settled(r.world)]
           \/ CanFocus(r.layer, r.world)
              /\ layer' = [layer EXCEPT !.pending = Settled(r.world), !.focused = r.world]
    BY <1>3 DEF HandleRequest, UiInv, Shapes
  <2> QED BY <2>1 DEF CanFocus, UiInv, Shapes, Callbacks, Owned, Supported, Shown
<1> QED BY <1>1, <1>2, <1>3

LEMMA NextInv == ASSUME UiInv, [Next]_vars PROVE UiInv'
<1>1. CASE \/ \E i \in Instances : Start(i) \/ Call(i) \/ Unregister(i) \/ Unmount(i)
           \/ \E i \in Instances : (\E nodes \in Initial : Mount(i, nodes))
                                   \/ (\E batch \in Batches : Patch(i, batch))
    BY <1>1, LifeInv, SurfaceInv
<1>2. CASE Return \/ Fail
  <2>1. callback \in Instances
    BY <1>2 DEF Return, Fail, UiInv, Callbacks
  <2> QED BY <1>2, <2>1, LifeInv
<1>3. CASE \E l \in Layers :
              \/ \E rich \in BOOLEAN : Attach(l, rich)
              \/ Detach(l) \/ ClearFocus(l)
              \/ \E w \in Worlds : RequestFocus(l, w) \/ FocusNow(l, w)
  <2> PICK l \in Layers : \/ \E rich \in BOOLEAN : Attach(l, rich)
                         \/ Detach(l) \/ ClearFocus(l)
                         \/ \E w \in Worlds : RequestFocus(l, w) \/ FocusNow(l, w)
    BY <1>3
  <2>1. CASE \E rich \in BOOLEAN : Attach(l, rich)
    BY <2>1, AttachInv
  <2>2. CASE Detach(l) \/ ClearFocus(l)
    BY <2>2, DetachInv
  <2>3. CASE \E w \in Worlds : RequestFocus(l, w) \/ FocusNow(l, w)
    BY <2>3, FocusInv
  <2> QED BY <2>1, <2>2, <2>3
<1>4. CASE DrainActions \/ DrainRequests \/ Dispatch \/ HandleRequest
    BY <1>4, HostInv
<1>5. CASE \/ \E w \in Worlds : BeginService(w) \/ EndService(w)
           \/ \E l \in Layers, target \in Instances : QueueAction(l, target)
           \/ UNCHANGED vars
    BY <1>5 DEF BeginService, EndService, QueueAction, vars, UiInv, Shapes, Callbacks, Owned,
       Supported, Shown
<1> QED BY <1>1, <1>2, <1>3, <1>4, <1>5 DEF Next

\* The inductive invariant, for any layers, worlds, surfaces and patches.
THEOREM UiInvHolds == Spec => []UiInv
<1> QED BY InitInv, NextInv, PTL DEF Spec

\* Whatever is mounted, patched, attached, focused and started in whatever order, and
\* also by services of instances that were quarantined meanwhile, the layer can render
\* what it shows (ensure_surface_supported and its callers).
THEOREM ShownAreSupported == Spec => []ShownSurfacesAreSupported
<1>1. UiInv => ShownSurfacesAreSupported
    BY DEF UiInv, Supported, Shown, ShownSurfacesAreSupported
<1> QED BY <1>1, UiInvHolds, PTL

-----------------------------------------------------------------------------
\* Every set of numbers has a least one: no sequence of intervals shrinks for ever.
LEMMA LeastNumber ==
    ASSUME NEW T, T \subseteq Nat, T # {}
    PROVE  \E n \in T : \A m \in T : n <= m
<1> DEFINE Intervals == {1 .. n : n \in T}
<1>1. IsWellFoundedOn(StrictSubsetOrdering(Nat), FiniteSubsetsOf(Nat))
  BY FS_StrictSubsetOrderingWellFounded
<1>2. Intervals \subseteq FiniteSubsetsOf(Nat)
  BY FS_Interval DEF FiniteSubsetsOf
<1>3. Intervals # {}
  OBVIOUS
<1> HIDE DEF Intervals
<1>4. PICK s \in Intervals : \A t \in Intervals : ~(<<t, s>> \in StrictSubsetOrdering(Nat))
  BY <1>1, <1>2, <1>3, WFMin
<1> USE DEF Intervals
<1>5. PICK n \in T : s = 1 .. n
  BY <1>4
<1>6. ASSUME NEW m \in T, m < n PROVE FALSE
  <2>1. 1 .. m \in Intervals
    OBVIOUS
  <2>2. <<1 .. m, s>> \in StrictSubsetOrdering(Nat)
    BY <1>5, <1>6 DEF StrictSubsetOrdering
  <2> QED BY <2>1, <2>2, <1>4
<1> QED BY <1>6

\* A set with 0 and the successor of each of its numbers has all of them.
LEMMA NumberInduction ==
    ASSUME NEW S, 0 \in S, \A n \in Nat : n \in S => n + 1 \in S
    PROVE  Nat \subseteq S
<1> SUFFICES ASSUME ~(Nat \subseteq S) PROVE FALSE
  OBVIOUS
<1>1. PICK n \in Nat \ S : \A m \in Nat \ S : n <= m
  BY LeastNumber
<1>2. n # 0 /\ n - 1 \in Nat /\ ~(n <= n - 1)
  OBVIOUS
<1> QED BY <1>1, <1>2

\* f holds what is left of a queue after each of its first n entries.
Retains(f, queue, keep, n) ==
    f = [k \in 0 .. n |-> IF k = 0 THEN <<>> ELSE Kept(f[k - 1], queue[k], keep)]

\* The recursive definition of Retentions defines a function.
LEMMA RetentionsDef ==
    ASSUME NEW queue, NEW keep, Len(queue) \in Nat
    PROVE  Retains(Retentions(queue, keep), queue, keep, Len(queue))
<1> DEFINE S == {n \in Nat : \E f : Retains(f, queue, keep, n)}
<1>1. 0 \in S
  <2>1. Retains([k \in 0 .. 0 |-> <<>>], queue, keep, 0)
    BY DEF Retains
  <2> QED BY <2>1
<1>2. ASSUME NEW n \in Nat, n \in S PROVE n + 1 \in S
  <2>1. PICK f : Retains(f, queue, keep, n)
    BY <1>2
  <2> DEFINE g == [k \in 0 .. n + 1 |-> IF k = n + 1 THEN Kept(f[n], queue[n + 1], keep) ELSE f[k]]
  <2>2. ASSUME NEW k \in 0 .. n + 1
        PROVE  g[k] = IF k = 0 THEN <<>> ELSE Kept(g[k - 1], queue[k], keep)
    BY <2>1 DEF Retains
  <2> HIDE DEF g
  <2>3. g = [k \in 0 .. n + 1 |-> g[k]]
    BY DEF g
  <2>4. Retains(g, queue, keep, n + 1)
    BY <2>2, <2>3 DEF Retains
  <2> QED BY <2>4
<1>3. Nat \subseteq S
  BY <1>1, <1>2, NumberInduction
<1>4. \E f : Retains(f, queue, keep, Len(queue))
  BY <1>3
<1> QED BY <1>4 DEF Retentions, Retains

\* What is retained of a queue is what was to be kept.
LEMMA RetainFacts ==
    ASSUME NEW queue, NEW keep, Len(queue) \in Nat
    PROVE  Retain(queue, keep) \in Seq(keep)
<1> DEFINE f == Retentions(queue, keep)
           Lists == Seq(keep)
           S == {n \in Nat : n <= Len(queue) => f[n] \in Lists}
<1>1. Retains(f, queue, keep, Len(queue))
  BY RetentionsDef
<1> HIDE DEF f
<1>2. f[0] = <<>> /\ \A k \in 1 .. Len(queue) : f[k] = Kept(f[k - 1], queue[k], keep)
  BY <1>1 DEF Retains
<1>3. 0 \in S
  <2>1. <<>> \in Lists
    OBVIOUS
  <2> QED BY <1>2, <2>1
<1>4. ASSUME NEW n \in Nat, n \in S PROVE n + 1 \in S
  <2> SUFFICES ASSUME n + 1 <= Len(queue) PROVE f[n + 1] \in Lists
    OBVIOUS
  <2>1. n + 1 \in 1 .. Len(queue) /\ (n + 1) - 1 = n /\ f[n] \in Lists
    BY <1>4
  <2>2. f[n + 1] = Kept(f[n], queue[n + 1], keep)
    BY <1>2, <2>1
  <2>3. ASSUME NEW l \in Lists, NEW x PROVE Kept(l, x, keep) \in Lists
    BY DEF Kept
  <2> HIDE DEF Lists
  <2> QED BY <2>1, <2>2, <2>3
<1>5. Nat \subseteq S
  <2> HIDE DEF S
  <2> QED BY <1>3, <1>4, NumberInduction
<1>6. f[Len(queue)] \in Lists
  BY <1>5
<1> QED BY <1>6 DEF Retain, f

-----------------------------------------------------------------------------
\* The layer and the target of a queued action are registered, in the sessions in
\* which the user made it (in the states of life and session given).
Stands(a, lives, sessions) ==
    /\ a.layer \in Instances /\ lives[a.layer] # "none"
    /\ a.target \in Instances /\ lives[a.target] # "none"
    /\ a.sessions = <<sessions[a.layer], sessions[a.target]>>

Listed(queue, lives, sessions) ==
    /\ queue \in Seq(ToSet(queue))
    /\ \A a \in ToSet(queue) : Stands(a, lives, sessions)

\* Queued and drained actions stand; nothing is drained while an instance starts.
QueuedInv ==
    /\ session \in [Instances -> Nat]
    /\ Listed(actions, life, session)
    /\ work = [kind |-> work.kind, left |-> work.left]
    /\ work.kind = "actions" => work.left # <<>> /\ Listed(work.left, life, session)
    /\ strayed = {}

\* The request of the attached layer, in its present session.
Ask(w) == FocusRequest(layer.owner, w)
Asked(queue) == \E w \in Worlds : queue = <<Ask(w)>>

\* No queue holds more than the one request of the attached layer, which is
\* registered; what it waits for is that request; and no callback runs while a
\* drained request is handled.
AskedInv ==
    /\ layer.owner \in Layers \cup {None} /\ layer.focused \in Worlds \cup {None}
    /\ layer.owner # None => life[layer.owner] # "none"
    /\ requests # <<>> => Asked(requests) /\ layer.owner # None
    /\ work.kind = "requests" => Asked(work.left) /\ callback = None
    /\ layer.pending # None =>
          \/ requests = <<Ask(layer.pending)>>
          \/ work.kind = "requests" /\ work.left = <<Ask(layer.pending)>>

\* A sequence of actions that stand is a queue of such.
LEMMA ListedSeq ==
    ASSUME NEW R, NEW queue \in Seq(R), NEW lives, NEW sessions,
           \A a \in R : Stands(a, lives, sessions)
    PROVE  Listed(queue, lives, sessions)
<1>1. ToSet(queue) \subseteq R
    BY DEF ToSet
<1>2. queue \in Seq(ToSet(queue))
    BY DEF ToSet
<1> QED BY <1>1, <1>2 DEF Listed

LEMMA EmptyListed == ASSUME NEW lives, NEW sessions PROVE Listed(<<>>, lives, sessions)
<1>1. ToSet(<<>>) = {}
    BY DEF ToSet
<1> QED BY <1>1 DEF Listed

\* A queue keeps standing when what its actions name does.
LEMMA ListedKept ==
    ASSUME NEW queue, NEW lives, NEW sessions, NEW lives2, NEW sessions2,
           Listed(queue, lives, sessions),
           \A a \in ToSet(queue) : Stands(a, lives, sessions) => Stands(a, lives2, sessions2)
    PROVE  Listed(queue, lives2, sessions2)
BY DEF Listed

\* What is retained of a queue stands when what is to be kept does.
LEMMA ListedRetain ==
    ASSUME NEW queue, NEW lives, NEW sessions, NEW lives2, NEW sessions2, NEW keep,
           Listed(queue, lives, sessions),
           \A a \in keep : Stands(a, lives2, sessions2)
    PROVE  Listed(Retain(queue, keep), lives2, sessions2)
<1>1. Len(queue) \in Nat
    BY DEF Listed
<1> QED BY <1>1, RetainFacts, ListedSeq

LEMMA ListedAppend ==
    ASSUME NEW queue, NEW lives, NEW sessions, NEW a,
           Listed(queue, lives, sessions), Stands(a, lives, sessions)
    PROVE  Listed(Append(queue, a), lives, sessions)
<1> DEFINE R == ToSet(queue) \cup {a}
<1>1. queue \in Seq(R)
    BY DEF Listed
<1>2. \A b \in R : Stands(b, lives, sessions)
    BY DEF Listed
<1> HIDE DEF R
<1>3. a \in R
    BY DEF R
<1>4. Append(queue, a) \in Seq(R)
    BY <1>1, <1>3
<1> QED BY <1>2, <1>4, ListedSeq

LEMMA ListedTail ==
    ASSUME NEW queue, NEW lives, NEW sessions, Listed(queue, lives, sessions), queue # <<>>
    PROVE  /\ Stands(Head(queue), lives, sessions)
           /\ Listed(Tail(queue), lives, sessions)
           /\ Len(queue) # 1 => Tail(queue) # <<>>
<1> DEFINE R == ToSet(queue)
<1>1. queue \in Seq(R) /\ \A a \in R : Stands(a, lives, sessions)
    BY DEF Listed
<1> HIDE DEF R
<1>2. Head(queue) \in R /\ Tail(queue) \in Seq(R)
    BY <1>1
<1>3. Len(queue) # 1 => Tail(queue) # <<>>
  <2>1. Len(queue) \in Nat /\ Len(queue) # 0
    BY <1>1
  <2>2. Len(Tail(queue)) = Len(queue) - 1 /\ Len(<<>>) = 0
    BY <1>1
  <2> QED BY <2>1, <2>2
<1> QED BY <1>1, <1>2, <1>3, ListedSeq

-----------------------------------------------------------------------------
LEMMA InitQueued == Init => QueuedInv
<1> SUFFICES ASSUME Init PROVE QueuedInv
  OBVIOUS
<1>1. Listed(<<>>, life, session)
    BY EmptyListed
<1> QED BY <1>1, UiAssumption DEF Init, NoWork, None, QueuedInv

\* Steps that leave the queue, the sessions, and who is registered, alone.
LEMMA StandStill ==
    ASSUME QueuedInv, Shapes, Shapes', UNCHANGED <<session, work, strayed>>,
           \A i \in Instances : life[i] # "none" => life'[i] # "none",
           \/ UNCHANGED actions
           \/ \E keep \in SUBSET ToSet(actions) : actions' = Retain(actions, keep)
    PROVE  QueuedInv'
<1> PICK lives : lives = life'
  OBVIOUS
<1>1. \A a : Stands(a, life, session) => Stands(a, lives, session)
    BY DEF Stands
<1>2. Listed(actions', lives, session)
  <2>1. CASE UNCHANGED actions
    BY <2>1, <1>1, ListedKept DEF QueuedInv
  <2>2. CASE \E keep \in SUBSET ToSet(actions) : actions' = Retain(actions, keep)
    <3>1. PICK keep \in SUBSET ToSet(actions) : actions' = Retain(actions, keep)
      BY <2>2
    <3>2. \A a \in keep : Stands(a, lives, session)
      BY <1>1 DEF QueuedInv, Listed
    <3> QED BY <3>1, <3>2, ListedRetain DEF QueuedInv
  <2> QED BY <2>1, <2>2
<1>3. work.kind = "actions" => Listed(work.left, lives, session)
    BY <1>1, ListedKept DEF QueuedInv
<1> QED BY <1>2, <1>3 DEF QueuedInv

LEMMA LifeQueued ==
    ASSUME UiInv, UiInv', QueuedInv, NEW i \in Instances, Start(i) \/ Call(i) \/ Return \/ Fail \/ Unregister(i)
    PROVE  QueuedInv'
<1>1. CASE Start(i)
  <2> PICK lives, sessions : lives = life' /\ sessions = session'
    OBVIOUS
  <2>1. /\ life[i] = "none" /\ work' = work /\ work.kind # "actions"
        /\ UNCHANGED <<actions, strayed>>
    BY <1>1, UiAssumption DEF Start, Idle, NoWork, None
  <2>2. /\ sessions \in [Instances -> Nat]
        /\ \A j \in Instances \ {i} : lives[j] = life[j] /\ sessions[j] = session[j]
    BY <1>1 DEF Start, UiInv, Shapes, QueuedInv
  <2>3. \A a : Stands(a, life, session) => Stands(a, lives, sessions)
    BY <2>1, <2>2 DEF Stands
  <2>4. Listed(actions, lives, sessions)
    BY <2>3, ListedKept DEF QueuedInv
  <2> QED BY <2>1, <2>2, <2>4 DEF QueuedInv
<1>2. CASE Call(i)
    BY <1>2, StandStill DEF Call, UiInv
<1>3. CASE Return
    BY <1>3, StandStill DEF Return, UiInv, Shapes
<1>4. CASE Fail
  <2>1. \A j \in Instances : life[j] # "none" => life'[j] # "none"
    BY <1>4 DEF Fail, UiInv, Shapes
  <2> DEFINE keep == {a \in ToSet(actions) : a.layer # callback /\ a.target # callback}
  <2>2. keep \in SUBSET ToSet(actions) /\ actions' = Retain(actions, keep)
    BY <1>4 DEF Fail, Revoke
  <2> QED BY <1>4, <2>1, <2>2, StandStill DEF Fail, UiInv
<1>5. CASE Unregister(i)
  <2> PICK lives : lives = life'
    OBVIOUS
  <2> DEFINE keep == {a \in ToSet(actions) : a.layer # i /\ a.target # i}
  <2>1. /\ work' = work /\ work.kind # "actions"
        /\ actions' = Retain(actions, keep)
        /\ UNCHANGED <<session, strayed>>
    BY <1>5, UiAssumption DEF Unregister, Revoke, Idle, NoWork, None
  <2>2. \A j \in Instances \ {i} : lives[j] = life[j]
    BY <1>5 DEF Unregister, UiInv, Shapes
  <2>3. \A a \in keep : Stands(a, lives, session)
    BY <2>2 DEF Stands, Listed, QueuedInv
  <2> HIDE DEF keep
  <2>4. Listed(actions', lives, session)
    BY <2>1, <2>3, ListedRetain DEF QueuedInv
  <2> QED BY <2>1, <2>4 DEF QueuedInv
<1> QED BY <1>1, <1>2, <1>3, <1>4, <1>5

LEMMA QueueQueued ==
    ASSUME UiInv, QueuedInv, NEW l \in Layers, NEW target \in Instances, QueueAction(l, target)
    PROVE  QueuedInv'
<1> DEFINE a == [layer |-> l, target |-> target, revision |-> mounted[target].revision,
                 sessions |-> Sessions(l, target)]
<1>1. actions' = Append(actions, a) /\ UNCHANGED <<life, session, work, strayed>>
    BY DEF QueueAction
<1>2. Stands(a, life, session)
    BY UiAssumption DEF QueueAction, Routes, Sessions, Stands, Instances, UiInv, Callbacks
<1> HIDE DEF a
<1>3. Listed(actions', life, session)
    BY <1>1, <1>2, ListedAppend DEF QueuedInv
<1> QED BY <1>1, <1>3 DEF QueuedInv

LEMMA OneLess ==
    ASSUME NEW kind, NEW left, NEW rest, NEW record, record = [kind |-> kind, left |-> left]
    PROVE  [record EXCEPT !.left = rest] = [kind |-> kind, left |-> rest]
OBVIOUS

LEMMA Handled ==
    ASSUME work = [kind |-> work.kind, left |-> work.left], HandledOne
    PROVE  work' = IF Len(work.left) = 1 THEN NoWork ELSE [kind |-> work.kind, left |-> Tail(work.left)]
<1> DEFINE rest == Tail(work.left)
<1> HIDE DEF rest
<1>1. [work EXCEPT !.left = rest] = [kind |-> work.kind, left |-> rest]
    BY OneLess
<1> QED BY <1>1 DEF HandledOne, rest

LEMMA HostQueued ==
    ASSUME QueuedInv, AskedInv, DrainActions \/ DrainRequests \/ Dispatch \/ HandleRequest
    PROVE  QueuedInv'
<1>1. CASE DrainActions
  <2>1. Listed(<<>>, life, session)
    BY EmptyListed
  <2> QED BY <1>1, <2>1 DEF DrainActions, QueuedInv
<1>2. CASE DrainRequests
    BY <1>2 DEF DrainRequests, QueuedInv
<1>3. CASE Dispatch
  <2> DEFINE a == Head(work.left)
  <2>1. /\ Stands(a, life, session) /\ Listed(Tail(work.left), life, session)
        /\ Len(work.left) # 1 => Tail(work.left) # <<>>
    BY <1>3, ListedTail DEF Dispatch, QueuedInv
  <2>2. strayed' \in {strayed, Strays(a.sessions, Sessions(a.layer, a.target))}
    BY <1>3 DEF Dispatch
  <2>3. work' = IF Len(work.left) = 1 THEN NoWork ELSE [kind |-> work.kind, left |-> Tail(work.left)]
    BY <1>3, Handled DEF Dispatch, QueuedInv
  <2>4. /\ work' = [kind |-> work'.kind, left |-> work'.left]
        /\ work'.kind = "actions" => work'.left # <<>> /\ Listed(work'.left, life, session)
    BY <1>3, <2>1, <2>3 DEF Dispatch, NoWork, None
  <2>5. a.sessions = Sessions(a.layer, a.target)
    BY <2>1 DEF Stands, Sessions
  <2>6. strayed' = strayed
    BY <2>2, <2>5 DEF Strays
  <2> QED BY <1>3, <2>4, <2>6 DEF Dispatch, QueuedInv
<1>4. CASE HandleRequest
  <2>1. work' = IF Len(work.left) = 1 THEN NoWork ELSE [kind |-> work.kind, left |-> Tail(work.left)]
    BY <1>4, Handled DEF HandleRequest, QueuedInv
  <2>2. work' = [kind |-> work'.kind, left |-> work'.left] /\ work'.kind # "actions"
    BY <1>4, <2>1 DEF HandleRequest, NoWork, None
  <2>3. PICK w \in Worlds : Head(work.left) = Ask(w)
    BY <1>4 DEF HandleRequest, AskedInv, Asked
  <2>4. strayed' = strayed
    BY <1>4, <2>3 DEF HandleRequest, Strays, Ask, FocusRequest
  <2> QED BY <1>4, <2>2, <2>4 DEF HandleRequest, QueuedInv
<1> QED BY <1>1, <1>2, <1>3, <1>4

LEMMA NextQueued == ASSUME UiInv, UiInv', QueuedInv, AskedInv, [Next]_vars PROVE QueuedInv'
<1>1. CASE \E i \in Instances : Start(i) \/ Call(i) \/ Unregister(i)
    BY <1>1, LifeQueued
<1>2. CASE Return \/ Fail
  <2>1. callback \in Instances
    BY <1>2 DEF Return, Fail, UiInv, Callbacks
  <2> QED BY <1>2, <2>1, LifeQueued
<1>3. CASE DrainActions \/ DrainRequests \/ Dispatch \/ HandleRequest
    BY <1>3, HostQueued
<1>4. CASE \E l \in Layers, target \in Instances : QueueAction(l, target)
    BY <1>4, QueueQueued
<1>5. CASE \/ \E i \in Instances : \/ Unmount(i)
                                   \/ \E nodes \in Initial : Mount(i, nodes)
                                   \/ \E batch \in Batches : Patch(i, batch)
           \/ \E w \in Worlds : BeginService(w) \/ EndService(w)
           \/ \E l \in Layers : \/ \E rich \in BOOLEAN : Attach(l, rich)
                                \/ Detach(l) \/ ClearFocus(l)
                                \/ \E w \in Worlds : RequestFocus(l, w) \/ FocusNow(l, w)
           \/ UNCHANGED vars
  <2>1. UNCHANGED <<life, session, actions, work, strayed>>
    BY <1>5 DEF Unmount, Mount, Patch, BeginService, EndService, Attach, Detach, ClearFocus,
       RequestFocus, FocusNow, vars
  <2> QED BY <2>1, StandStill DEF UiInv
<1> QED BY <1>1, <1>2, <1>3, <1>4, <1>5 DEF Next

-----------------------------------------------------------------------------
(* Focus requests.                                                         *)

\* What a queue of none or of one request retains.
LEMMA RetainFew ==
    ASSUME NEW keep, NEW r
    PROVE  /\ Retain(<<>>, keep) = <<>>
           /\ Retain(<<r>>, keep) = IF r \in keep THEN <<r>> ELSE <<>>
<1>1. Retain(<<>>, keep) = <<>>
    BY RetentionsDef DEF Retains, Retain
<1>2. PICK queue : queue = <<r>>
    OBVIOUS
<1>3. Len(queue) = 1 /\ queue[1] = r
    BY <1>2
<1>4. PICK f : f = Retentions(queue, keep)
    OBVIOUS
<1>5. f = [k \in 0 .. 1 |-> IF k = 0 THEN <<>> ELSE Kept(f[k - 1], queue[k], keep)]
    BY <1>3, <1>4, RetentionsDef DEF Retains
<1>6. f[0] = <<>>
    BY <1>5
<1>7. f[1] = Kept(f[0], queue[1], keep)
    BY <1>5
<1>8. Retain(queue, keep) = Kept(<<>>, r, keep)
    BY <1>3, <1>4, <1>6, <1>7 DEF Retain
<1>9. Append(<<>>, r) = <<r>>
    OBVIOUS
<1> QED BY <1>1, <1>2, <1>8, <1>9 DEF Kept

\* Without the requests of one instance: none if it owns the layer, else all.
LEMMA WithoutFacts ==
    ASSUME AskedInv, NEW l
    PROVE  RequestsWithout(l) = IF layer.owner = l THEN <<>> ELSE requests
<1> DEFINE keep == {r \in ToSet(requests) : r.layer # l}
<1>1. RequestsWithout(l) = Retain(requests, keep)
    BY DEF RequestsWithout
<1>2. CASE requests = <<>>
    BY <1>1, <1>2, RetainFew
<1>3. CASE requests # <<>>
  <2>1. PICK w \in Worlds : requests = <<Ask(w)>>
    BY <1>3 DEF AskedInv, Asked
  <2>2. PICK r : r = Ask(w)
    OBVIOUS
  <2>3. ToSet(requests) = {r} /\ r.layer = layer.owner
    BY <2>1, <2>2 DEF ToSet, Ask, FocusRequest
  <2>4. r \in keep <=> layer.owner # l
    BY <2>3
  <2> HIDE DEF keep
  <2>5. Retain(<<r>>, keep) = IF r \in keep THEN <<r>> ELSE <<>>
    BY RetainFew
  <2> QED BY <1>1, <2>1, <2>2, <2>4, <2>5
<1> QED BY <1>2, <1>3

LEMMA InitAsked == Init => AskedInv
BY DEF Init, NoLayer, NoWork, None, AskedInv

\* The life of instances.
LEMMA LifeAsked ==
    ASSUME UiInv, QueuedInv, AskedInv, NEW i \in Instances,
           Start(i) \/ Call(i) \/ Return \/ Fail \/ Unregister(i)
    PROVE  AskedInv'
<1> USE UiAssumption
<1>1. CASE Start(i)
  <2>1. /\ life[i] = "none" /\ work.kind # "requests" /\ UNCHANGED <<layer, requests, work>>
    BY <1>1 DEF Start, Idle, NoWork, None
  <2>2. \A j \in Instances \ {i} : life'[j] = life[j] /\ session'[j] = session[j]
    BY <1>1 DEF Start, UiInv, Shapes, QueuedInv
  <2>3. layer.owner # None => layer.owner \in Instances \ {i}
    BY <2>1 DEF AskedInv, Instances
  <2>4. layer.owner # None => session'[layer.owner] = session[layer.owner]
    BY <2>2, <2>3
  <2>5. layer.owner # None => \A w : Ask(w)' = Ask(w)
    BY <2>1, <2>4 DEF Ask, FocusRequest
  <2>6. requests' # <<>> => Asked(requests)' /\ layer'.owner # None
    BY <2>1, <2>5 DEF AskedInv, Asked
  <2>7. layer.pending # None => requests = <<Ask(layer.pending)>> /\ layer.owner # None
    <3>1. \A r : <<r>> # <<>>
      OBVIOUS
    <3> QED BY <2>1, <3>1 DEF AskedInv
  <2> QED BY <2>1, <2>2, <2>3, <2>5, <2>6, <2>7 DEF AskedInv
<1>2. CASE Call(i)
    BY <1>2 DEF Call, Idle, NoWork, None, AskedInv, Asked, Ask, FocusRequest
<1>3. CASE Return
  <2>1. work.kind # "requests" /\ UNCHANGED <<layer, session, requests, work>>
    BY <1>3 DEF Return, AskedInv
  <2>2. layer.owner # None => layer.owner \in Instances
    BY DEF AskedInv, Instances
  <2>3. \A j \in Instances : life[j] # "none" => life'[j] # "none"
    BY <1>3 DEF Return, UiInv, Shapes
  <2> QED BY <2>1, <2>2, <2>3 DEF AskedInv, Asked, Ask, FocusRequest
<1>4. ASSUME NEW c \in Instances,
             work.kind # "requests", UNCHANGED <<session, work>>,
             requests' = RequestsWithout(c),
             \A j \in Instances \ {c} : life'[j] = life[j],
             \/ layer.owner = c /\ layer' = NoLayer
             \/ layer.owner # c /\ layer' \in {layer, [layer EXCEPT !.focused = None]}
      PROVE  AskedInv'
  <2>1. CASE layer.owner = c
    <3>1. requests' = <<>>
      BY <1>4, <2>1, WithoutFacts
    <3>2. /\ layer'.owner = None /\ layer'.focused = None /\ layer'.pending = None
      BY <1>4, <2>1 DEF NoLayer
    <3> QED BY <1>4, <3>1, <3>2 DEF AskedInv
  <2>2. CASE layer.owner # c
    <3>1. requests' = requests
      BY <1>4, <2>2, WithoutFacts
    <3>2. /\ layer'.owner = layer.owner /\ layer'.focused \in {layer.focused, None}
          /\ layer'.pending = layer.pending
      BY <1>4, <2>2 DEF UiInv, Shapes
    <3>3. \A w : Ask(w)' = Ask(w)
      BY <1>4, <3>2 DEF Ask, FocusRequest
    <3>4. layer.owner # None => life'[layer.owner] = life[layer.owner]
      BY <1>4, <2>2 DEF AskedInv, Instances
    <3>5. requests' # <<>> => Asked(requests)' /\ layer'.owner # None
      BY <3>1, <3>2, <3>3 DEF AskedInv, Asked
    <3> QED BY <1>4, <3>1, <3>2, <3>3, <3>4, <3>5 DEF AskedInv
  <2> QED BY <2>1, <2>2
<1>5. CASE Fail
  <2>1. callback \in Instances /\ work.kind # "requests"
    BY <1>5 DEF Fail, UiInv, Callbacks, AskedInv
  <2>2. /\ UNCHANGED <<session, work>> /\ requests' = RequestsWithout(callback)
        /\ \A j \in Instances \ {callback} : life'[j] = life[j]
        /\ \/ layer.owner = callback /\ layer' = NoLayer
           \/ layer.owner # callback /\ layer' = layer
    BY <1>5, <2>1 DEF Fail, Revoke, Unless, UiInv, Shapes
  <2> QED BY <1>4, <2>1, <2>2
<1>6. CASE Unregister(i)
  <2>1. work.kind # "requests" /\ ~(layer.focused = i /\ layer.owner = i)
    BY <1>6 DEF Unregister, Idle, NoWork, None, AskedInv
  <2>2. /\ UNCHANGED <<session, work>> /\ requests' = RequestsWithout(i)
        /\ \A j \in Instances \ {i} : life'[j] = life[j]
        /\ \/ layer.owner = i /\ layer' = NoLayer
           \/ layer.owner # i /\ layer' \in {layer, [layer EXCEPT !.focused = None]}
    BY <1>6, <2>1 DEF Unregister, Revoke, Unless, UiInv, Shapes
  <2> QED BY <1>4, <2>1, <2>2
<1> QED BY <1>1, <1>2, <1>3, <1>5, <1>6

\* The layer and its focus.
LEMMA LayerAsked ==
    ASSUME UiInv, AskedInv, NEW l \in Layers,
           (\E rich \in BOOLEAN : Attach(l, rich)) \/ Detach(l) \/ ClearFocus(l)
    PROVE  AskedInv'
<1> USE UiAssumption
<1>1. CASE \E rich \in BOOLEAN : Attach(l, rich)
  <2> PICK rich \in BOOLEAN : Attach(l, rich)
    BY <1>1
  <2>1. /\ l \in Instances /\ work.kind # "requests" /\ life[l] = "active"
        /\ layer.owner \in {None, l}
        /\ UNCHANGED <<life, session, requests, work>>
    BY DEF Attach, Idle, NoWork, None, Instances
  <2>2. /\ layer'.owner = l /\ layer'.focused = layer.focused /\ layer'.pending = layer.pending
    BY DEF Attach, UiInv, Shapes
  <2>3. layer.owner # None => \A w : Ask(w)' = Ask(w)
    BY <2>1, <2>2 DEF Ask, FocusRequest
  <2>4. layer.pending # None => requests = <<Ask(layer.pending)>> /\ layer.owner # None
    <3>1. \A r : <<r>> # <<>>
      OBVIOUS
    <3> QED BY <2>1, <3>1 DEF AskedInv
  <2>5. requests' # <<>> => Asked(requests)' /\ layer'.owner # None
    BY <2>1, <2>2, <2>3 DEF AskedInv, Asked, Instances
  <2> QED BY <2>1, <2>2, <2>3, <2>4, <2>5 DEF AskedInv
<1>2. CASE Detach(l)
  <2>1. layer.owner # l => requests = <<>>
    BY <1>2 DEF Detach, AskedInv
  <2>2. requests' = <<>>
    BY <1>2, <2>1, WithoutFacts DEF Detach
  <2> QED BY <1>2, <2>2 DEF Detach, Idle, NoLayer, NoWork, None, AskedInv
<1>3. CASE ClearFocus(l)
  <2>1. requests' = <<>>
    BY <1>3, WithoutFacts DEF ClearFocus
  <2>2. layer'.owner = layer.owner /\ layer'.focused = None /\ layer'.pending = None
    BY <1>3 DEF ClearFocus, UiInv, Shapes
  <2>3. work.kind # "requests"
    BY <1>3 DEF ClearFocus, AskedInv, Instances
  <2> QED BY <1>3, <2>1, <2>2, <2>3 DEF ClearFocus, AskedInv
<1> QED BY <1>1, <1>2, <1>3

LEMMA FocusAsked ==
    ASSUME UiInv, AskedInv, NEW l \in Layers, NEW w \in Worlds, RequestFocus(l, w) \/ FocusNow(l, w)
    PROVE  AskedInv'
<1> USE UiAssumption
<1>1. CASE RequestFocus(l, w)
  <2>1. /\ layer'.owner = l /\ layer.owner = l /\ layer'.focused = layer.focused /\ layer'.pending = w
        /\ UNCHANGED <<life, session, work, callback>>
    BY <1>1 DEF RequestFocus, UiInv, Shapes
  <2>2. work.kind # "requests"
    BY <1>1 DEF RequestFocus, AskedInv, Instances
  <2>3. PICK r : r = FocusRequest(l, w)
    OBVIOUS
  <2>4. requests' = <<r>>
    <3>1. CASE requests = <<>>
      <4>1. DOMAIN requests = {}
        BY <3>1
      <4>2. Append(<<>>, r) = <<r>>
        OBVIOUS
      <4> QED BY <1>1, <2>3, <3>1, <4>1, <4>2 DEF RequestFocus
    <3>2. CASE requests # <<>>
      <4>1. PICK v \in Worlds : requests = <<Ask(v)>>
        BY <3>2 DEF AskedInv, Asked
      <4>2. PICK o : o = Ask(v)
        OBVIOUS
      <4>3. requests = <<o>> /\ o.layer = l
        BY <2>1, <4>1, <4>2 DEF Ask, FocusRequest
      <4>4. DOMAIN requests = {1} /\ requests[1].layer = l
        BY <4>3
      <4>5. requests' = [k \in DOMAIN requests |-> IF requests[k].layer = l THEN r ELSE requests[k]]
        BY <1>1, <2>3, <4>4 DEF RequestFocus
      <4>6. requests' = [k \in {1} |-> r]
        BY <4>4, <4>5
      <4>7. [k \in {1} |-> r] = <<r>>
        OBVIOUS
      <4> QED BY <4>6, <4>7
    <3> QED BY <3>1, <3>2
  <2>5. Ask(w)' = r
    BY <2>1, <2>3 DEF Ask, FocusRequest
  <2>6. Asked(requests)' /\ layer'.owner # None
    BY <2>1, <2>4, <2>5 DEF Asked, Instances
  <2>7. life'[layer'.owner] # "none"
    BY <2>1 DEF AskedInv, Instances
  <2> QED BY <2>1, <2>2, <2>4, <2>5, <2>6, <2>7 DEF AskedInv
<1>2. CASE FocusNow(l, w)
  <2>1. /\ work.kind # "requests" /\ UNCHANGED <<life, session, requests, work>>
    BY <1>2 DEF FocusNow, Idle, NoWork, None
  <2>2. layer'.owner = layer.owner /\ layer'.focused = w /\ layer'.pending \in {layer.pending, None}
    BY <1>2 DEF FocusNow, Settled, UiInv, Shapes
  <2>3. \A v : Ask(v)' = Ask(v)
    BY <2>1, <2>2 DEF Ask, FocusRequest
  <2>4. Asked(requests)' <=> Asked(requests)
    BY <2>1, <2>3 DEF Asked
  <2> QED BY <2>1, <2>2, <2>3, <2>4 DEF AskedInv
<1> QED BY <1>1, <1>2

\* The host and its queues.
LEMMA HostAsked ==
    ASSUME UiInv, QueuedInv, AskedInv, DrainActions \/ DrainRequests \/ Dispatch \/ HandleRequest
    PROVE  AskedInv'
<1>1. CASE DrainActions
    BY <1>1 DEF DrainActions, Idle, NoWork, None, AskedInv, Asked, Ask, FocusRequest
<1>2. CASE DrainRequests
  <2>1. /\ callback' = None /\ work.kind # "requests" /\ Asked(requests)
        /\ work'.kind = "requests" /\ work'.left = requests /\ requests' = <<>>
        /\ UNCHANGED <<life, session, layer>>
    BY <1>2 DEF DrainRequests, Idle, NoWork, None, AskedInv
  <2>2. \A w : Ask(w)' = Ask(w)
    BY <2>1 DEF Ask, FocusRequest
  <2>3. Asked(work.left)'
    BY <2>1, <2>2 DEF Asked
  <2> QED BY <2>1, <2>2, <2>3 DEF AskedInv
<1>3. CASE Dispatch
  <2>1. work' = IF Len(work.left) = 1 THEN NoWork ELSE [kind |-> work.kind, left |-> Tail(work.left)]
    BY <1>3, Handled DEF Dispatch, QueuedInv
  <2>2. work.kind # "requests" /\ work'.kind # "requests"
    BY <1>3, <2>1 DEF Dispatch, NoWork, None
  <2> QED BY <1>3, <2>2 DEF Dispatch, AskedInv, Asked, Ask, FocusRequest
<1>4. CASE HandleRequest
  <2>1. PICK w \in Worlds : work.left = <<Ask(w)>>
    BY <1>4 DEF HandleRequest, AskedInv, Asked
  <2>2. PICK r : r = Ask(w)
    OBVIOUS
  <2>3. Len(work.left) = 1 /\ Head(work.left) = r
    BY <2>1, <2>2
  <2>4. r.world = w /\ r.layer = layer.owner
    BY <2>2 DEF Ask, FocusRequest
  <2>5. work' = NoWork /\ UNCHANGED <<life, session, requests, callback>>
    BY <1>4, <2>3 DEF HandleRequest, HandledOne
  <2>6. /\ layer'.owner = layer.owner /\ layer'.pending = Settled(w)
        /\ layer'.focused \in {layer.focused, w}
    BY <1>4, <2>3, <2>4 DEF HandleRequest, UiInv, Shapes
  <2>7. \A v : Ask(v)' = Ask(v)
    BY <2>5, <2>6 DEF Ask, FocusRequest
  <2>8. Asked(requests)' <=> Asked(requests)
    BY <2>5, <2>7 DEF Asked
  <2>9. layer'.pending # None => requests = <<Ask(layer.pending)>> /\ layer'.pending = layer.pending
    <3> SUFFICES ASSUME layer'.pending # None
                 PROVE  requests = <<Ask(layer.pending)>> /\ layer'.pending = layer.pending
      OBVIOUS
    <3>1. layer'.pending = layer.pending /\ layer.pending # w
      BY <2>6 DEF Settled
    <3>2. PICK p : p = layer.pending
      OBVIOUS
    <3>3. Ask(p).world = p
      BY DEF Ask, FocusRequest
    <3>4. Ask(p) # r
      BY <2>4, <3>1, <3>2, <3>3
    <3>5. PICK o : o = Ask(p)
      OBVIOUS
    <3>6. <<o>> # <<r>>
      <4>1. <<o>>[1] = o /\ <<r>>[1] = r
        OBVIOUS
      <4> QED BY <3>4, <3>5, <4>1
    <3>7. work.left # <<Ask(p)>>
      BY <2>1, <2>2, <3>5, <3>6
    <3> QED BY <3>1, <3>2, <3>7 DEF AskedInv
  <2>10. work'.kind # "requests"
    BY <2>5 DEF NoWork, None
  <2> QED BY <2>5, <2>6, <2>7, <2>8, <2>9, <2>10 DEF AskedInv
<1> QED BY <1>1, <1>2, <1>3, <1>4

LEMMA NextAsked == ASSUME UiInv, QueuedInv, AskedInv, [Next]_vars PROVE AskedInv'
<1>1. CASE \E i \in Instances : Start(i) \/ Call(i) \/ Unregister(i)
    BY <1>1, LifeAsked
<1>2. CASE Return \/ Fail
  <2>1. callback \in Instances
    BY <1>2 DEF Return, Fail, UiInv, Callbacks
  <2> QED BY <1>2, <2>1, LifeAsked
<1>3. CASE \E l \in Layers : (\E rich \in BOOLEAN : Attach(l, rich)) \/ Detach(l) \/ ClearFocus(l)
    BY <1>3, LayerAsked
<1>4. CASE \E l \in Layers, w \in Worlds : RequestFocus(l, w) \/ FocusNow(l, w)
    BY <1>4, FocusAsked
<1>5. CASE DrainActions \/ DrainRequests \/ Dispatch \/ HandleRequest
    BY <1>5, HostAsked
<1>6. CASE \/ \E i \in Instances : \/ Unmount(i)
                                   \/ \E nodes \in Initial : Mount(i, nodes)
                                   \/ \E batch \in Batches : Patch(i, batch)
           \/ \E w \in Worlds : BeginService(w) \/ EndService(w)
           \/ \E l \in Layers, target \in Instances : QueueAction(l, target)
           \/ UNCHANGED vars
  <2>1. UNCHANGED <<life, session, layer, requests, work, callback>>
    BY <1>6 DEF Unmount, Mount, Patch, BeginService, EndService, QueueAction, vars
  <2> QED BY <2>1 DEF AskedInv, Asked, Ask, FocusRequest
<1> QED BY <1>1, <1>2, <1>3, <1>4, <1>5, <1>6 DEF Next

-----------------------------------------------------------------------------
\* What is queued or drained names registered instances in the sessions in which the
\* user acted, and the one focus request is the attached layer's, for any layers,
\* worlds, surfaces and capacities.
THEOREM QueuedInvHolds == Spec => [](QueuedInv /\ AskedInv)
<1>1. UiInv /\ [Next]_vars => UiInv'
    BY NextInv
<1>2. UiInv /\ UiInv' /\ QueuedInv /\ AskedInv /\ [Next]_vars => QueuedInv' /\ AskedInv'
    BY NextQueued, NextAsked
<1> QED BY <1>1, <1>2, InitInv, InitQueued, InitAsked, PTL DEF Spec

\* No queued action reaches a target restarted since, nor comes from a layer restarted
\* since, although queued work is taken whole and revisions start over; no focus
\* request is answered to a later session of its layer, and each pending one is going
\* to be (unregister_instance, and the host's loops over drained work).
THEOREM QueuedWorkKeepsSessions == Spec => []QueuedWorkStaysInItsSessions
<1>1. QueuedInv /\ AskedInv => QueuedWorkStaysInItsSessions
  <2> SUFFICES ASSUME QueuedInv, AskedInv, layer.pending # None
               PROVE  \E r \in Unanswered : r.layer = layer.owner /\ r.world = layer.pending
    BY DEF QueuedInv, QueuedWorkStaysInItsSessions
  <2>1. PICK r : r = Ask(layer.pending)
    OBVIOUS
  <2>2. r.layer = layer.owner /\ r.world = layer.pending
    BY <2>1 DEF Ask, FocusRequest
  <2>3. r \in ToSet(<<r>>)
    BY DEF ToSet
  <2>4. r \in Unanswered
    BY <2>1, <2>3 DEF AskedInv, Unanswered
  <2> QED BY <2>2, <2>4
<1> QED BY <1>1, QueuedInvHolds, PTL

-----------------------------------------------------------------------------
(* Patches lead from node tables to node tables.                           *)

LEMMA RemoveFirstSeq ==
    ASSUME NEW seq \in Seq(Nodes), NEW x
    PROVE  RemoveFirst(seq, x) \in Seq(Nodes)
<1> DEFINE I == {i \in 1 .. Len(seq) : seq[i] = x}
<1>1. CASE I = {} BY <1>1 DEF RemoveFirst
<1>2. CASE I # {}
  <2>1. I \subseteq Nat OBVIOUS
  <2>2. \E k \in I : \A i \in I : k <= i
    <3> HIDE DEF I
    <3> QED BY <1>2, <2>1, LeastNumber
  <2>3. Min(I) \in I BY <2>2 DEF Min
  <2>4. RemoveFirst(seq, x) = RemoveAt(seq, Min(I))
    BY <1>2 DEF RemoveFirst, SelectInSeq
  <2>5. PICK m \in 1 .. Len(seq) : m = Min(I) BY <2>3
  <2>6. SubSeq(seq, 1, m - 1) \in Seq(Nodes) /\ SubSeq(seq, m + 1, Len(seq)) \in Seq(Nodes)
    OBVIOUS
  <2> QED BY <2>4, <2>5, <2>6 DEF RemoveAt
<1> QED BY <1>1, <1>2

LEMMA InsertAtSeq ==
    ASSUME NEW seq \in Seq(Nodes), NEW x \in Nodes, NEW k \in 1 .. Len(seq) + 1
    PROVE  InsertAt(seq, k, x) \in Seq(Nodes)
<1>1. SubSeq(seq, 1, k - 1) \in Seq(Nodes) /\ SubSeq(seq, k, Len(seq)) \in Seq(Nodes) /\ <<x>> \in Seq(Nodes)
  OBVIOUS
<1> QED BY <1>1 DEF InsertAt

LEMMA PlacedTable ==
    ASSUME NEW t, IsSnapshot(t), NEW p \in DOMAIN t, NEW seq \in Seq(Nodes), NEW k \in Nat, NEW c \in Nodes,
           NEW u \in Placed(t, p, seq, k, c)
    PROVE  IsSnapshot(u)
<1>1. k + 1 \in 1 .. Len(seq) + 1 /\ u = [t EXCEPT ![p] = InsertAt(seq, k + 1, c)] BY DEF Placed
<1>2. PICK l \in Seq(Nodes) : l = InsertAt(seq, k + 1, c) BY <1>1, InsertAtSeq
<1> QED BY <1>1, <1>2 DEF IsSnapshot

LEMMA PatchKeepsTable ==
    ASSUME NEW t, IsSnapshot(t), NEW patch \in Patches, NEW u \in ApplyPatch(t, patch)
    PROVE  IsSnapshot(u)
<1>1. CASE patch.op = "upsert"
  <2>1. patch.node \in Nodes /\ patch.children \in Seq(Nodes) BY <1>1 DEF Patches
  <2>2. u = [n \in DOMAIN t \cup {patch.node} |-> IF n = patch.node THEN patch.children ELSE t[n]]
    BY <1>1 DEF ApplyPatch
  <2> QED BY <2>1, <2>2 DEF IsSnapshot
<1>2. CASE patch.op = "remove"
  BY <1>2 DEF ApplyPatch, Restrict, IsSnapshot
<1>3. CASE patch.op = "insert"
  <2>1. patch.child \in Nodes /\ patch.index \in Nat BY <1>3 DEF Patches
  <2>2. patch.parent \in DOMAIN t /\ u \in Placed(t, patch.parent, t[patch.parent], patch.index, patch.child)
    BY <1>3 DEF ApplyPatch
  <2>3. t[patch.parent] \in Seq(Nodes) BY <2>2 DEF IsSnapshot
  <2> QED BY <2>1, <2>2, <2>3, PlacedTable
<1>4. CASE patch.op = "detach"
  <2>1. patch.parent \in DOMAIN t /\ u = [t EXCEPT ![patch.parent] = RemoveFirst(t[patch.parent], patch.child)]
    BY <1>4 DEF ApplyPatch, Holds
  <2>2. t[patch.parent] \in Seq(Nodes) BY <2>1 DEF IsSnapshot
  <2>3. PICK l \in Seq(Nodes) : l = RemoveFirst(t[patch.parent], patch.child) BY <2>2, RemoveFirstSeq
  <2> QED BY <2>1, <2>3 DEF IsSnapshot
<1>5. CASE patch.op = "move"
  <2>1. patch.child \in Nodes /\ patch.index \in Nat BY <1>5 DEF Patches
  <2>2. /\ patch.parent \in DOMAIN t
        /\ u \in Placed(t, patch.parent, RemoveFirst(t[patch.parent], patch.child), patch.index, patch.child)
    BY <1>5 DEF ApplyPatch, Holds
  <2>3. t[patch.parent] \in Seq(Nodes) BY <2>2 DEF IsSnapshot
  <2>4. RemoveFirst(t[patch.parent], patch.child) \in Seq(Nodes) BY <2>3, RemoveFirstSeq
  <2> QED BY <2>1, <2>2, <2>4, PlacedTable
<1> QED BY <1>1, <1>2, <1>3, <1>4, <1>5 DEF Patches

\* f holds what the batch has led to after each of its first n patches.
Applies(f, t, batch, n) ==
    f = [k \in 0 .. n |-> IF k = 0 THEN {t} ELSE ApplyAll(f[k - 1], batch[k])]

\* The recursive definition of Applied defines a function.
LEMMA AppliedDef ==
    ASSUME NEW t, NEW batch, Len(batch) \in Nat
    PROVE  Applies(Applied(t, batch), t, batch, Len(batch))
<1> DEFINE N == {n \in Nat : \E f : Applies(f, t, batch, n)}
<1>1. 0 \in N
  <2>1. Applies([k \in 0 .. 0 |-> {t}], t, batch, 0) BY DEF Applies
  <2> QED BY <2>1
<1>2. ASSUME NEW n \in Nat, n \in N PROVE n + 1 \in N
  <2>1. PICK f : Applies(f, t, batch, n) BY <1>2
  <2> DEFINE g == [k \in 0 .. n + 1 |-> IF k = n + 1 THEN ApplyAll(f[n], batch[n + 1]) ELSE f[k]]
  <2>2. ASSUME NEW k \in 0 .. n + 1
        PROVE  g[k] = IF k = 0 THEN {t} ELSE ApplyAll(g[k - 1], batch[k])
    <3>1. \A j \in 0 .. n : g[j] = f[j] OBVIOUS
    <3>2. CASE k = n + 1
      <4>1. k - 1 = n /\ k # 0 /\ n \in 0 .. n BY <3>2
      <4>2. g[k] = ApplyAll(f[n], batch[n + 1]) BY <3>2
      <4> HIDE DEF g
      <4> QED BY <3>1, <3>2, <4>1, <4>2
    <3>3. CASE k \in 0 .. n
      <4>1. f[k] = IF k = 0 THEN {t} ELSE ApplyAll(f[k - 1], batch[k]) BY <2>1, <3>3 DEF Applies
      <4>2. k # 0 => k - 1 \in 0 .. n BY <3>3
      <4> HIDE DEF g
      <4> QED BY <3>1, <3>3, <4>1, <4>2
    <3> QED BY <3>2, <3>3
  <2> HIDE DEF g
  <2>3. g = [k \in 0 .. n + 1 |-> g[k]] BY DEF g
  <2>4. Applies(g, t, batch, n + 1) BY <2>2, <2>3 DEF Applies
  <2> QED BY <2>4
<1>3. Nat \subseteq N
  <2> HIDE DEF N
  <2> QED BY <1>1, <1>2, NumberInduction
<1>4. \E f : Applies(f, t, batch, Len(batch)) BY <1>3
<1> QED BY <1>4 DEF Applied, Applies

LEMMA PatchedTable ==
    ASSUME NEW t, IsSnapshot(t), NEW batch \in Seq(Patches), NEW u \in Patched(t, batch)
    PROVE  IsSnapshot(u) /\ ValidSnapshot(u)
<1> DEFINE f == Applied(t, batch)
           Right(S) == \A s \in S : IsSnapshot(s)
           N == {n \in Nat : n <= Len(batch) => Right(f[n])}
<1>1. Len(batch) \in Nat /\ \A k \in 1 .. Len(batch) : batch[k] \in Patches OBVIOUS
<1>2. Applies(f, t, batch, Len(batch)) BY <1>1, AppliedDef
<1> HIDE DEF f
<1>3. f[0] = {t} /\ \A k \in 1 .. Len(batch) : f[k] = ApplyAll(f[k - 1], batch[k])
  BY <1>1, <1>2 DEF Applies
<1>4. 0 \in N BY <1>3
<1>5. ASSUME NEW n \in Nat, n \in N PROVE n + 1 \in N
  <2> SUFFICES ASSUME n + 1 <= Len(batch), NEW s \in f[n + 1] PROVE IsSnapshot(s) OBVIOUS
  <2>1. n + 1 \in 1 .. Len(batch) /\ (n + 1) - 1 = n /\ Right(f[n]) BY <1>1, <1>5
  <2>2. f[n + 1] = ApplyAll(f[n], batch[n + 1]) BY <1>3, <2>1
  <2>3. PICK r \in f[n] : s \in ApplyPatch(r, batch[n + 1]) BY <2>2 DEF ApplyAll
  <2>4. IsSnapshot(r) /\ batch[n + 1] \in Patches BY <1>1, <2>1
  <2> QED BY <2>3, <2>4, PatchKeepsTable
<1>6. Nat \subseteq N
  <2> HIDE DEF N
  <2> QED BY <1>4, <1>5, NumberInduction
<1>7. Right(f[Len(batch)]) BY <1>1, <1>6
<1> QED BY <1>7 DEF Patched, f

-----------------------------------------------------------------------------
(* What is reached is the root or a child.                                 *)

Children(t) == UNION {ToSet(t[n]) : n \in DOMAIN t}
Beyond(t, S) == S \cup UNION {ToSet(t[n]) : n \in S \cap DOMAIN t}

\* f holds what the walk has visited after each of its first n rounds.
Walks(f, t, n) == f = [k \in 0 .. n |-> IF k = 0 THEN {Root} ELSE Beyond(t, f[k - 1])]

\* The recursive definition in Reached defines a function.
LEMMA WalkExists ==
    ASSUME NEW t, NEW n \in Nat
    PROVE  \E f : Walks(f, t, n)
<1> DEFINE N == {m \in Nat : \E f : Walks(f, t, m)}
<1>1. 0 \in N
  <2>1. Walks([k \in 0 .. 0 |-> {Root}], t, 0) BY DEF Walks
  <2> QED BY <2>1
<1>2. ASSUME NEW m \in Nat, m \in N PROVE m + 1 \in N
  <2>1. PICK f : Walks(f, t, m) BY <1>2
  <2> DEFINE g == [k \in 0 .. m + 1 |-> IF k = m + 1 THEN Beyond(t, f[m]) ELSE f[k]]
  <2>2. ASSUME NEW k \in 0 .. m + 1
        PROVE  g[k] = IF k = 0 THEN {Root} ELSE Beyond(t, g[k - 1])
    <3>1. \A j \in 0 .. m : g[j] = f[j] OBVIOUS
    <3>2. CASE k = m + 1
      <4>1. k - 1 = m /\ k # 0 /\ m \in 0 .. m BY <3>2
      <4>2. g[k] = Beyond(t, f[m]) BY <3>2
      <4> HIDE DEF g
      <4> QED BY <3>1, <3>2, <4>1, <4>2
    <3>3. CASE k \in 0 .. m
      <4>1. f[k] = IF k = 0 THEN {Root} ELSE Beyond(t, f[k - 1]) BY <2>1, <3>3 DEF Walks
      <4>2. k # 0 => k - 1 \in 0 .. m BY <3>3
      <4> HIDE DEF g
      <4> QED BY <3>1, <3>3, <4>1, <4>2
    <3> QED BY <3>2, <3>3
  <2> HIDE DEF g
  <2>3. g = [k \in 0 .. m + 1 |-> g[k]] BY DEF g
  <2>4. Walks(g, t, m + 1) BY <2>2, <2>3 DEF Walks
  <2> QED BY <2>4
<1>3. Nat \subseteq N
  <2> HIDE DEF N
  <2> QED BY <1>1, <1>2, NumberInduction
<1> QED BY <1>3

LEMMA ReachedFacts ==
    ASSUME NEW t
    PROVE  Reached(t) \subseteq {Root} \cup Children(t)
<1> DEFINE K == Cardinality(Nodes)
           Is(f) == f = [k \in 0 .. K |->
                            IF k = 0 THEN {Root}
                            ELSE f[k - 1] \cup UNION {ToSet(t[n]) : n \in f[k - 1] \cap DOMAIN t}]
<1>1. K \in Nat BY NodesAssumption, FS_CardinalityType
<1>2. Reached(t) = (CHOOSE f : Is(f))[K] BY DEF Reached
<1> HIDE DEF K
<1>3. \A f : Is(f) <=> Walks(f, t, K) BY DEF Walks, Beyond
<1>4. \E f : Walks(f, t, K) BY <1>1, WalkExists
<1> HIDE DEF Is
<1>5. Is(CHOOSE f : Is(f)) BY <1>3, <1>4
<1>6. PICK f : Walks(f, t, K) /\ Reached(t) = f[K] BY <1>2, <1>3, <1>5
<1>7. f[0] = {Root} /\ \A k \in 1 .. K : f[k] = Beyond(t, f[k - 1])
  <2>1. \A k \in 0 .. K : f[k] = IF k = 0 THEN {Root} ELSE Beyond(t, f[k - 1]) BY <1>6 DEF Walks
  <2>2. 0 \in 0 .. K /\ \A k \in 1 .. K : k \in 0 .. K /\ k # 0 BY <1>1
  <2> QED BY <2>1, <2>2
<1> DEFINE N == {n \in Nat : n <= K => f[n] \subseteq {Root} \cup Children(t)}
<1>8. 0 \in N BY <1>7
<1>9. ASSUME NEW n \in Nat, n \in N PROVE n + 1 \in N
  <2> SUFFICES ASSUME n + 1 <= K PROVE f[n + 1] \subseteq {Root} \cup Children(t) OBVIOUS
  <2>1. n + 1 \in 1 .. K /\ (n + 1) - 1 = n /\ f[n] \subseteq {Root} \cup Children(t) BY <1>1, <1>9
  <2>2. f[n + 1] = Beyond(t, f[n]) BY <1>7, <2>1
  <2> QED BY <2>1, <2>2 DEF Beyond, Children
<1>10. Nat \subseteq N
  <2> HIDE DEF N
  <2> QED BY <1>8, <1>9, NumberInduction
<1> QED BY <1>1, <1>6, <1>10

-----------------------------------------------------------------------------
(* Sums of cardinalities count pairs.                                      *)

\* h is what the sum of g over a set is computed from: its sums over the subsets.
Sum(h, g, s) == IF s = {} THEN 0 ELSE LET x == CHOOSE y \in s : TRUE IN g[x] + h[s \ {x}]
Sums(h, g, S) == h = [s \in SUBSET S |-> Sum(h, g, s)]

LEMMA Smaller ==
    ASSUME NEW S, IsFiniteSet(S), NEW x \in S
    PROVE  /\ Cardinality(S) \in Nat /\ Cardinality(S) # 0
           /\ IsFiniteSet(S \ {x}) /\ Cardinality(S \ {x}) = Cardinality(S) - 1
  BY FS_CardinalityType, FS_EmptySet, FS_RemoveElement

LEMMA SumExists ==
    ASSUME NEW S, IsFiniteSet(S), NEW g
    PROVE  \E h : Sums(h, g, S)
<1> DEFINE Upto(h, n) == \A s \in SUBSET S : Cardinality(s) <= n => h[s] = Sum(h, g, s)
           N == {n \in Nat : \E h : Upto(h, n)}
<1>1. \A s \in SUBSET S : IsFiniteSet(s) /\ Cardinality(s) \in Nat /\ (Cardinality(s) = 0 <=> s = {})
  BY FS_Subset, FS_CardinalityType, FS_EmptySet
<1>2. 0 \in N
  <2>1. Upto([s \in SUBSET S |-> 0], 0) BY <1>1 DEF Sum
  <2> QED BY <2>1
<1>3. ASSUME NEW n \in Nat, n \in N PROVE n + 1 \in N
  <2>1. PICK h : Upto(h, n) BY <1>3
  <2> DEFINE k == [s \in SUBSET S |-> IF Cardinality(s) <= n THEN h[s] ELSE Sum(h, g, s)]
  <2>2. ASSUME NEW s \in SUBSET S, Cardinality(s) <= n + 1
        PROVE  k[s] = Sum(k, g, s)
    <3>1. k[s] = Sum(h, g, s) BY <2>1
    <3>2. CASE s = {} BY <3>1, <3>2 DEF Sum
    <3>3. CASE s # {}
      <4>1. PICK x \in s : x = CHOOSE y \in s : TRUE BY <3>3
      <4>2. Cardinality(s \ {x}) <= n /\ s \ {x} \in SUBSET S
        BY <1>1, <2>2, Smaller
      <4>3. k[s \ {x}] = h[s \ {x}] BY <4>2
      <4> HIDE DEF k
      <4> QED BY <3>1, <3>3, <4>1, <4>3 DEF Sum
    <3> QED BY <3>2, <3>3
  <2> HIDE DEF k
  <2>3. Upto(k, n + 1) BY <2>2
  <2> QED BY <2>3
<1> HIDE DEF N
<1>4. Nat \subseteq N BY <1>2, <1>3, NumberInduction
<1>5. PICK h : Upto(h, Cardinality(S)) BY <1>1, <1>4 DEF N
<1> DEFINE k == [s \in SUBSET S |-> h[s]]
<1>6. ASSUME NEW s \in SUBSET S PROVE k[s] = Sum(k, g, s)
  <2>1. k[s] = Sum(h, g, s) BY <1>5, <1>1, FS_Subset
  <2>2. CASE s = {} BY <2>1, <2>2 DEF Sum
  <2>3. CASE s # {} BY <2>1, <2>3 DEF Sum
  <2> QED BY <2>2, <2>3
<1> HIDE DEF k
<1>7. k = [s \in SUBSET S |-> k[s]] BY DEF k
<1>8. Sums(k, g, S) BY <1>6, <1>7 DEF Sums
<1> QED BY <1>8

\* The pairs of a member of s and a member of its set in P.
Pairs(P, s) == UNION {{x} \X P[x] : x \in s}

LEMMA SumCountsPairs ==
    ASSUME NEW S, IsFiniteSet(S), NEW P, \A x \in S : IsFiniteSet(P[x]),
           NEW g, \A x \in S : g[x] = Cardinality(P[x]), NEW h, Sums(h, g, S)
    PROVE  \A s \in SUBSET S : IsFiniteSet(Pairs(P, s)) /\ Cardinality(Pairs(P, s)) = h[s]
<1> DEFINE Right(s) == IsFiniteSet(Pairs(P, s)) /\ Cardinality(Pairs(P, s)) = h[s]
           N == {n \in Nat : \A s \in SUBSET S : Cardinality(s) = n => Right(s)}
<1>1. \A s \in SUBSET S : IsFiniteSet(s) /\ Cardinality(s) \in Nat /\ (Cardinality(s) = 0 <=> s = {})
  BY FS_Subset, FS_CardinalityType, FS_EmptySet
<1>2. 0 \in N
  <2>1. Pairs(P, {}) = {} BY DEF Pairs
  <2>2. h[{}] = 0 BY DEF Sums, Sum
  <2> QED BY <1>1, <2>1, <2>2, FS_EmptySet
<1>3. ASSUME NEW n \in Nat, n \in N PROVE n + 1 \in N
  <2>1. SUFFICES ASSUME NEW s \in SUBSET S, Cardinality(s) = n + 1 PROVE Right(s)
    OBVIOUS
  <2>2. s # {} BY <1>1, <2>1
  <2>3. PICK y \in s : y = CHOOSE x \in s : TRUE BY <2>2
  <2>4. h[s] = g[y] + h[s \ {y}] BY <2>2, <2>3 DEF Sums, Sum
  <2>5. Cardinality(s \ {y}) = n /\ s \ {y} \in SUBSET S
    <3>1. IsFiniteSet(s) BY <1>1
    <3>2. Cardinality(s \ {y}) = Cardinality(s) - 1 BY <3>1, Smaller
    <3> QED BY <2>1, <3>2
  <2>6. PICK rest : rest = Pairs(P, s \ {y}) OBVIOUS
  <2>7. IsFiniteSet(rest) /\ Cardinality(rest) = h[s \ {y}] BY <1>3, <2>5, <2>6
  <2>8. PICK mine : mine = {y} \X P[y] OBVIOUS
  <2>9. IsFiniteSet(mine) /\ Cardinality(mine) = Cardinality(P[y])
    <3>1. IsFiniteSet({y}) /\ Cardinality({y}) = 1 BY FS_Singleton
    <3>2. IsFiniteSet(P[y]) /\ Cardinality(P[y]) \in Nat BY FS_CardinalityType
    <3>3. PICK c \in Nat : c = Cardinality(P[y]) BY <3>2
    <3>4. IsFiniteSet(mine) /\ Cardinality(mine) = Cardinality({y}) * Cardinality(P[y])
      BY <2>8, <3>1, <3>2, FS_Product
    <3>5. Cardinality(mine) = 1 * c BY <3>1, <3>3, <3>4
    <3> QED BY <3>3, <3>4, <3>5
  <2>10. Pairs(P, s) = mine \cup rest BY <2>3, <2>6, <2>8 DEF Pairs
  <2>11. mine \cap rest = {} BY <2>6, <2>8 DEF Pairs
  <2>12. Cardinality(mine) \in Nat /\ Cardinality(rest) \in Nat BY <2>7, <2>9, FS_CardinalityType
  <2>13. IsFiniteSet(mine \cup rest) /\ Cardinality(mine \cup rest) = Cardinality(mine) + Cardinality(rest)
    <3>1. IsFiniteSet(mine \cup rest)
          /\ Cardinality(mine \cup rest)
             = Cardinality(mine) + Cardinality(rest) - Cardinality(mine \cap rest)
      BY <2>7, <2>9, FS_Union
    <3>2. Cardinality(mine \cap rest) = 0 BY <2>11, FS_EmptySet
    <3> QED BY <2>12, <3>1, <3>2
  <2>14. g[y] = Cardinality(P[y]) OBVIOUS
  <2> QED BY <2>4, <2>7, <2>9, <2>10, <2>13, <2>14
<1> HIDE DEF N
<1>4. Nat \subseteq N BY <1>2, <1>3, NumberInduction
<1> QED BY <1>1, <1>4 DEF N

LEMMA SumFunctionCounts ==
    ASSUME NEW S, IsFiniteSet(S), NEW P, \A x \in S : IsFiniteSet(P[x]),
           NEW g, DOMAIN g = S, \A x \in S : g[x] = Cardinality(P[x])
    PROVE  IsFiniteSet(Pairs(P, S)) /\ Cardinality(Pairs(P, S)) = SumFunction(g)
<1> DEFINE Is(h) == h = [s \in SUBSET S |-> IF s = {} THEN 0
                                            ELSE LET x == CHOOSE y \in s : TRUE IN g[x] + h[s \ {x}]]
<1>1. SumFunction(g) = (CHOOSE h : Is(h))[S]
  BY DEF SumFunction, SumFunctionOnSet, FoldFunctionOnSet, MapThenFoldSet
<1>2. \A h : Is(h) <=> Sums(h, g, S) BY DEF Sums, Sum
<1>3. \E h : Sums(h, g, S) BY SumExists
<1> HIDE DEF Is
<1>4. Is(CHOOSE h : Is(h)) BY <1>2, <1>3
<1>5. PICK h : Sums(h, g, S) /\ SumFunction(g) = h[S] BY <1>1, <1>2, <1>4
<1> QED BY <1>5, SumCountsPairs

-----------------------------------------------------------------------------
(* A valid snapshot is a tree.                                             *)

\* The positions at which children stand, in all and of one node.
Places(t) == [m \in DOMAIN t |-> DOMAIN t[m]]
PlacesOf(t, n) == [m \in DOMAIN t |-> {i \in DOMAIN t[m] : t[m][i] = n}]

LEMMA PlacesFacts ==
    ASSUME NEW t, IsSnapshot(t)
    PROVE  /\ IsFiniteSet(DOMAIN t)
           /\ \A m \in DOMAIN t :
                 /\ IsFiniteSet(Places(t)[m]) /\ Cardinality(Places(t)[m]) = Len(t[m])
                 /\ \A n : IsFiniteSet(PlacesOf(t, n)[m])
<1>1. IsFiniteSet(DOMAIN t) BY NodesAssumption, FS_Subset DEF IsSnapshot
<1>2. ASSUME NEW m \in DOMAIN t
      PROVE  /\ IsFiniteSet(DOMAIN t[m]) /\ Cardinality(DOMAIN t[m]) = Len(t[m])
             /\ \A n : IsFiniteSet({i \in DOMAIN t[m] : t[m][i] = n})
  <2>1. PICK l : l = Len(t[m]) OBVIOUS
  <2>2. l \in Nat /\ DOMAIN t[m] = 1 .. l BY <2>1 DEF IsSnapshot
  <2>3. IsFiniteSet(1 .. l) /\ Cardinality(1 .. l) = l BY <2>2, FS_Interval
  <2>4. \A n : {i \in DOMAIN t[m] : t[m][i] = n} \subseteq 1 .. l BY <2>2
  <2>5. \A n : IsFiniteSet({i \in DOMAIN t[m] : t[m][i] = n}) BY <2>3, <2>4, FS_Subset
  <2> QED BY <2>1, <2>2, <2>3, <2>5
<1> QED BY <1>1, <1>2 DEF Places, PlacesOf

\* A node is named once for each of its places.
LEMMA ParentsCount ==
    ASSUME NEW t, IsSnapshot(t), NEW n
    PROVE  LET named == Pairs(PlacesOf(t, n), DOMAIN t)
           IN  IsFiniteSet(named) /\ Cardinality(named) = Parents(t, n)
<1> DEFINE g == [m \in DOMAIN t |-> Cardinality({i \in DOMAIN t[m] : t[m][i] = n})]
           P == PlacesOf(t, n)
<1>1. Parents(t, n) = SumFunction(g) BY DEF Parents
<1>2. DOMAIN g = DOMAIN t /\ \A m \in DOMAIN t : g[m] = Cardinality(P[m]) BY DEF PlacesOf
<1>3. IsFiniteSet(DOMAIN t) /\ \A m \in DOMAIN t : IsFiniteSet(P[m]) BY PlacesFacts
<1> HIDE DEF g, P
<1>4. IsFiniteSet(Pairs(P, DOMAIN t)) /\ Cardinality(Pairs(P, DOMAIN t)) = SumFunction(g)
  BY <1>2, <1>3, SumFunctionCounts
<1> QED BY <1>1, <1>4 DEF P

\* Sending every place to the node that stands there is one-to-one and onto all nodes
\* but the root.
LEMMA PlacesAreNodes ==
    ASSUME NEW t, IsSnapshot(t), ValidSnapshot(t)
    PROVE  ExistsBijection(Pairs(Places(t), DOMAIN t), DOMAIN t \ {Root})
<1> DEFINE E == Pairs(Places(t), DOMAIN t)
           Named(n) == Pairs(PlacesOf(t, n), DOMAIN t)
           child == [e \in E |-> t[e[1]][e[2]]]
<1>1. \A e : e \in E <=> \E m \in DOMAIN t : \E i \in DOMAIN t[m] : e = <<m, i>>
  BY DEF Pairs, Places
<1>2. \A n, e : e \in Named(n) <=> \E m \in DOMAIN t : \E i \in DOMAIN t[m] : e = <<m, i>> /\ t[m][i] = n
  BY DEF Pairs, PlacesOf
<1>3. \A n, e : e \in Named(n) <=> e \in E /\ child[e] = n BY <1>1, <1>2
<1>4. \A n \in DOMAIN t : IsFiniteSet(Named(n)) /\ Cardinality(Named(n)) <= 1
  BY ParentsCount DEF ValidSnapshot
<1>5. IsFiniteSet(Named(Root)) /\ Cardinality(Named(Root)) = 0
  BY ParentsCount DEF ValidSnapshot
<1>6. \A e \in E : child[e] \in DOMAIN t
  BY <1>1 DEF ValidSnapshot, ToSet
<1>7. ASSUME NEW n \in DOMAIN t \ {Root} PROVE \E e \in E : child[e] = n
  <2>1. n \in Children(t) BY ReachedFacts DEF ValidSnapshot
  <2>2. PICK m \in DOMAIN t : \E i \in DOMAIN t[m] : t[m][i] = n BY <2>1 DEF Children, ToSet
  <2>3. PICK i \in DOMAIN t[m] : t[m][i] = n BY <2>2
  <2>4. <<m, i>> \in E BY <1>1
  <2> QED BY <2>3, <2>4
<1> HIDE DEF E, Named
<1>8. child \in [E -> DOMAIN t] BY <1>6
<1>9. ASSUME NEW e \in E PROVE child[e] # Root
  <2>1. Named(Root) = {} BY <1>5, FS_EmptySet
  <2> QED BY <1>3, <2>1
<1> HIDE DEF child
<1>10. ASSUME NEW e \in E, NEW f \in E, child[e] = child[f] PROVE e = f
  <2>1. PICK n \in DOMAIN t : n = child[e] BY <1>8
  <2>2. e \in Named(n) /\ f \in Named(n) BY <1>3, <1>10, <2>1
  <2>3. PICK S : S = Named(n) OBVIOUS
  <2>4. IsFiniteSet(S) /\ Cardinality(S) <= 1 /\ e \in S /\ f \in S BY <1>4, <2>2, <2>3
  <2>5. Cardinality(S) \in Nat /\ Cardinality(S) # 0 BY ONLY <2>4, FS_CardinalityType, FS_EmptySet
  <2>6. Cardinality(S) = 1 BY ONLY <2>4, <2>5
  <2>7. PICK x : S = {x} BY <2>4, <2>6, FS_Singleton
  <2> QED BY <2>4, <2>7
<1>11. child \in [E -> DOMAIN t \ {Root}] BY <1>8, <1>9
<1>12. child \in Bijection(E, DOMAIN t \ {Root})
  BY <1>7, <1>10, <1>11 DEF Bijection, Injection, Surjection, IsInjective
<1> QED BY <1>12 DEF ExistsBijection, E

\* What validate_snapshot accepts is a tree: it has one edge less than nodes, and all
\* are reached.
LEMMA ValidIsTree ==
    ASSUME NEW t, IsSnapshot(t), ValidSnapshot(t)
    PROVE  IsTree(t)
<1> DEFINE P == Places(t)
           g == [n \in DOMAIN t |-> Len(t[n])]
           others == DOMAIN t \ {Root}
<1>1. IsFiniteSet(DOMAIN t) /\ \A m \in DOMAIN t : IsFiniteSet(P[m]) /\ g[m] = Cardinality(P[m])
  BY PlacesFacts
<1>2. DOMAIN g = DOMAIN t OBVIOUS
<1>3. ExistsBijection(Pairs(P, DOMAIN t), others) BY PlacesAreNodes
<1>4. IsFiniteSet(others) /\ Cardinality(others) = Cardinality(DOMAIN t) - 1
  BY <1>1, FS_RemoveElement DEF ValidSnapshot
<1>5. Reached(t) = DOMAIN t BY DEF ValidSnapshot
<1> HIDE DEF P, g, others
<1>6. IsFiniteSet(Pairs(P, DOMAIN t)) /\ Cardinality(Pairs(P, DOMAIN t)) = SumFunction(g)
  BY <1>1, <1>2, SumFunctionCounts
<1>7. Cardinality(others) = Cardinality(Pairs(P, DOMAIN t)) BY <1>3, <1>6, FS_Bijection
<1>8. SumFunction(g) = Cardinality(DOMAIN t) - 1 BY <1>4, <1>6, <1>7
<1> QED BY <1>5, <1>8 DEF IsTree, g

-----------------------------------------------------------------------------
\* What is mounted was accepted, as it is.
SurfacesInv == \A i \in DOMAIN mounted : IsSnapshot(mounted[i].nodes) /\ ValidSnapshot(mounted[i].nodes)

LEMMA InitSurfaces == Init => SurfacesInv
BY DEF Init, SurfacesInv

LEMMA RestrictSurfaces ==
    ASSUME SurfacesInv, NEW i, mounted' = Restrict(mounted, DOMAIN mounted \ {i})
    PROVE  SurfacesInv'
BY DEF SurfacesInv, Restrict

LEMMA NextSurfaces == ASSUME SurfacesInv, [Next]_vars PROVE SurfacesInv'
<1>1. CASE \/ Fail
           \/ \E i \in Instances : Unregister(i) \/ Unmount(i)
    BY <1>1, RestrictSurfaces DEF Fail, Unregister, Unmount, Revoke
<1>2. ASSUME NEW i \in Instances, NEW nodes \in Initial, Mount(i, nodes) PROVE SurfacesInv'
  <2>1. /\ DOMAIN mounted' = DOMAIN mounted \cup {i}
        /\ mounted'[i].nodes = nodes
        /\ \A j \in DOMAIN mounted \ {i} : mounted'[j] = mounted[j]
    BY <1>2 DEF Mount
  <2>2. IsSnapshot(nodes) /\ ValidSnapshot(nodes) BY <1>2, UiAssumption DEF Mount
  <2> QED BY <2>1, <2>2 DEF SurfacesInv
<1>3. ASSUME NEW i \in Instances, NEW batch \in Batches, Patch(i, batch) PROVE SurfacesInv'
  <2>1. PICK nodes \in Patched(mounted[i].nodes, batch) :
            mounted' = [mounted EXCEPT ![i] = [nodes |-> nodes, revision |-> mounted[i].revision + 1]]
    BY <1>3 DEF Patch
  <2>2. /\ i \in DOMAIN mounted /\ DOMAIN mounted' = DOMAIN mounted
        /\ mounted'[i].nodes = nodes
        /\ \A j \in DOMAIN mounted \ {i} : mounted'[j] = mounted[j]
    BY <1>3, <2>1 DEF Patch
  <2>3. batch \in Seq(Patches) /\ IsSnapshot(mounted[i].nodes)
    BY <2>2, UiAssumption DEF SurfacesInv
  <2>4. IsSnapshot(nodes) /\ ValidSnapshot(nodes) BY <2>3, PatchedTable
  <2> QED BY <2>2, <2>4 DEF SurfacesInv
<1>4. CASE \/ \E i \in Instances : Start(i) \/ Call(i)
           \/ Return
           \/ \E w \in Worlds : BeginService(w) \/ EndService(w)
           \/ \E l \in Layers :
               \/ \E rich \in BOOLEAN : Attach(l, rich)
               \/ Detach(l) \/ ClearFocus(l)
               \/ \E target \in Instances : QueueAction(l, target)
               \/ \E w \in Worlds : RequestFocus(l, w) \/ FocusNow(l, w)
           \/ DrainActions \/ DrainRequests \/ Dispatch \/ HandleRequest
           \/ UNCHANGED vars
  <2>1. mounted' = mounted
    BY <1>4 DEF Start, Call, Return, BeginService, EndService, Attach, Detach, ClearFocus, QueueAction,
       RequestFocus, FocusNow, DrainActions, DrainRequests, Dispatch, HandleRequest, vars
  <2> QED BY <2>1 DEF SurfacesInv
<1> QED BY <1>1, <1>2, <1>3, <1>4 DEF Next

\* Whatever batches a component sends, for any nodes, kinds and snapshots: what is
\* mounted is a tree.  A batch may pass through tables that are none; that each node
\* has at most one parent, the root none and all are reached (validate_snapshot)
\* leaves one edge less than nodes.
THEOREM SurfacesAreTrees == Spec => []MountedSurfacesAreTrees
<1>1. SurfacesInv /\ [Next]_vars => SurfacesInv'
    BY NextSurfaces
<1>2. SurfacesInv => MountedSurfacesAreTrees
    BY ValidIsTree DEF SurfacesInv, MountedSurfacesAreTrees
<1> QED BY <1>1, <1>2, InitSurfaces, PTL DEF Spec
=============================================================================
