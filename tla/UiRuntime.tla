------------------------------ MODULE UiRuntime ------------------------------
(***************************************************************************)
(* Portable UI: crates/ui-runtime/src/runtime.rs and its callers in        *)
(* crates/extension-engine/src/engine.rs and host/src/runtime.rs.          *)
(*                                                                         *)
(* One UI layer is attached to the host scope.  It sees the surfaces of    *)
(* that scope and those of at most one focused world, queues the actions   *)
(* of the user and asks for worlds to be focused.  The host drains both    *)
(* queues between callbacks.  Callbacks run on the host's thread, except   *)
(* for services of a world's instance, which its workers run: they may     *)
(* change the instance's surface at any moment, even while the engine      *)
(* quarantines the instance.  A world is represented by the one instance   *)
(* that presents it, and has the runtime scope of that name.               *)
(***************************************************************************)
EXTENDS UiSurface

CONSTANTS
    Layers,         \* instances of the host scope that register a UI layer
    Worlds,         \* worlds, and the instances that present them
    Surfaced,       \* the instances that mount a surface
    Batches,        \* the patch batches components send
    Initial,        \* the snapshots components mount
    ActionCapacity, \* MAX_QUEUED_ACTIONS
    MaxRevision,    \* bound on the revision of a snapshot
    MaxSessions     \* bound on how often an instance is started

Instances == Layers \cup Worlds
None == "none"

ASSUME UiAssumption ==
    /\ None \notin Instances
    /\ Layers \cap Worlds = {} /\ Surfaced \subseteq Layers \cup Worlds
    /\ (\A t \in Initial : IsSnapshot(t)) /\ Batches \subseteq Seq(Patches)
    /\ ActionCapacity \in Nat /\ MaxRevision \in Nat /\ MaxSessions \in Nat

VARIABLES
    life,       \* of each instance: none, starting, active, or stopped by quarantine
    session,    \* history: how often each was started
    mounted,    \* mounted_surfaces: the snapshots there are
    layer,      \* the layer attached to the host scope
    actions,    \* queued_actions
    requests,   \* queued_world_focus_requests
    work,       \* what the host drained from a queue and has not handled yet
    callback,   \* the instance whose callback runs on the host's thread
    busy,       \* the instances with a service on a world's worker
    strayed     \* history: the sessions of queued work that was handled in other ones

vars == <<life, session, mounted, layer, actions, requests, work, callback, busy, strayed>>

NoLayer == [owner |-> None, rich |-> FALSE, focused |-> None, pending |-> None]
NoWork == [kind |-> None, left |-> <<>>]

Init ==
    /\ life = [i \in Instances |-> "none"]
    /\ session = [i \in Instances |-> 0]
    /\ mounted = << >>
    /\ layer = NoLayer
    /\ actions = <<>>
    /\ requests = <<>>
    /\ work = NoWork
    /\ callback = None
    /\ busy = {}
    /\ strayed = {}

Idle == callback = None /\ work = NoWork

\* ui_access_active: the instance's own callback runs.
CanCall(i) == callback = i \/ i \in busy

\* Faulty: the layer sees its own scope only.
Visible_OwnScope(i) == layer # NoLayer /\ i \in Layers

\* The layer sees its own scope and the focused world's.
Visible(i) == layer # NoLayer /\ (i \in Layers \/ layer.focused = i)

Unless(gone, s) == IF gone THEN NoLayer ELSE s

\* What is left of a queue of which only the entries in keep are retained, after
\* each of its entries.
Kept(before, entry, keep) == IF entry \in keep THEN Append(before, entry) ELSE before
Retentions(queue, keep) ==
    LET after[k \in 0 .. Len(queue)] ==
            IF k = 0 THEN <<>> ELSE Kept(after[k - 1], queue[k], keep)
    IN  after
Retain(queue, keep) == Retentions(queue, keep)[Len(queue)]

RequestsWithout(l) == Retain(requests, {r \in ToSet(requests) : r.layer # l})

\* Faulty: actions outlive the layer and the target.
Revoke_KeepsActions(i) ==
    /\ mounted' = Restrict(mounted, DOMAIN mounted \ {i})
    /\ actions' = actions
    /\ requests' = RequestsWithout(i)

\* Faulty: requests outlive the layer.
Revoke_KeepsRequests(i) ==
    /\ mounted' = Restrict(mounted, DOMAIN mounted \ {i})
    /\ actions' = Retain(actions, {a \in ToSet(actions) : a.layer # i /\ a.target # i})
    /\ requests' = requests

\* What unregister_instance and set_instance_active(false) take from the UI.
Revoke(i) ==
    /\ mounted' = Restrict(mounted, DOMAIN mounted \ {i})
    /\ actions' = Retain(actions, {a \in ToSet(actions) : a.layer # i /\ a.target # i})
    /\ requests' = RequestsWithout(i)

\* The engine registers an instance and starts it: its callback runs, inactive.
\* start_with would also start a stopped instance again, but the host unregisters
\* what it stopped and registers it anew.
Start(i) ==
    /\ Idle
    /\ life[i] = "none"
    /\ session[i] < MaxSessions
    /\ life' = [life EXCEPT ![i] = "starting"]
    /\ session' = [session EXCEPT ![i] = @ + 1]
    /\ callback' = i
    /\ UNCHANGED <<mounted, layer, actions, requests, work, busy, strayed>>

\* A callback returns: a start activates the instance.
Return ==
    /\ callback # None
    /\ life' = [life EXCEPT ![callback] = "active"]
    /\ callback' = None
    /\ UNCHANGED <<session, mounted, layer, actions, requests, work, busy, strayed>>

\* A callback fails and its instance is quarantined, or its start rolled back.  A
\* service still under way keeps its access, and mount_surface asks for no activity.
Fail ==
    /\ callback # None
    /\ life' = [life EXCEPT ![callback] = "stopped"]
    /\ Revoke(callback)
    /\ layer' = Unless(layer.owner = callback, layer)
    /\ callback' = None
    /\ UNCHANGED <<session, work, busy, strayed>>

\* Another of its callbacks begins: an event, a task or a signal.
Call(i) ==
    /\ Idle
    /\ life[i] = "active"
    /\ callback' = i
    /\ UNCHANGED <<life, session, mounted, layer, actions, requests, work, busy, strayed>>

\* The host stops and unregisters an instance.  For a world that is its
\* deactivation: the workers have ended, and no layer keeps its scope in focus.
Unregister(i) ==
    /\ Idle
    /\ life[i] \in {"active", "stopped"}
    /\ i \notin busy
    /\ life' = [life EXCEPT ![i] = "none"]
    /\ Revoke(i)
    /\ layer' = IF layer.focused = i THEN [layer EXCEPT !.focused = None]
                ELSE Unless(layer.owner = i, layer)
    /\ UNCHANGED <<session, work, callback, busy, strayed>>

\* A worker of the world runs a service of its instance.
BeginService(w) ==
    /\ life[w] = "active"
    /\ w \notin busy
    /\ busy' = busy \cup {w}
    /\ UNCHANGED <<life, session, mounted, layer, actions, requests, work, callback, strayed>>

EndService(w) ==
    /\ w \in busy
    /\ busy' = busy \ {w}
    /\ UNCHANGED <<life, session, mounted, layer, actions, requests, work, callback, strayed>>

\* attach_layer, or a refresh by the same owner, which may change what it renders.
Attach(i, rich) ==
    /\ Idle
    /\ life[i] = "active"
    /\ layer.owner \in {None, i}
    /\ \A j \in DOMAIN mounted :
        (j \in Layers \/ layer.focused = j) /\ life[j] = "active" =>
            Supports(rich, mounted[j].nodes)
    /\ layer' = [layer EXCEPT !.owner = i, !.rich = rich]
    /\ UNCHANGED <<life, session, mounted, actions, requests, work, callback, busy, strayed>>

\* detach_layer: the actions it queued stay, and are rejected when they come up.
Detach(i) ==
    /\ Idle
    /\ life[i] # "none"
    /\ layer.owner \in {None, i}
    /\ layer' = NoLayer
    /\ requests' = RequestsWithout(i)
    /\ UNCHANGED <<life, session, mounted, actions, work, callback, busy, strayed>>

\* mount_surface.  An instance that is not active yet, or no more, may mount.
Mount(i, nodes) ==
    /\ CanCall(i)
    /\ life[i] # "none"
    /\ i \in Surfaced \ DOMAIN mounted
    /\ ValidSnapshot(nodes)
    /\ Visible(i) => Supports(layer.rich, nodes)
    /\ mounted' = [j \in DOMAIN mounted \cup {i} |->
                       IF j = i THEN [nodes |-> nodes, revision |-> 0] ELSE mounted[j]]
    /\ UNCHANGED <<life, session, layer, actions, requests, work, callback, busy, strayed>>

\* apply_patches, with the revision the surface has and the next.
Patch(i, batch) ==
    /\ CanCall(i)
    /\ i \in DOMAIN mounted
    /\ mounted[i].revision < MaxRevision
    /\ \E nodes \in Patched(mounted[i].nodes, batch) :
        /\ Visible(i) => Supports(layer.rich, nodes)
        /\ mounted' = [mounted EXCEPT ![i] = [nodes |-> nodes, revision |-> @.revision + 1]]
    /\ UNCHANGED <<life, session, layer, actions, requests, work, callback, busy, strayed>>

Unmount(i) ==
    /\ CanCall(i)
    /\ i \in DOMAIN mounted
    /\ mounted' = Restrict(mounted, DOMAIN mounted \ {i})
    /\ UNCHANGED <<life, session, layer, actions, requests, work, callback, busy, strayed>>

\* route_action: the layer sees the target, which is active, and the surface has
\* the revision the user saw; the node then is what it was.
Routes(l, target, revision) ==
    /\ layer.owner = l
    /\ Visible(target)
    /\ life[target] = "active"
    /\ target \in DOMAIN mounted
    /\ mounted[target].revision = revision

Sessions(l, target) == <<session[l], session[target]>>

\* queue_action.  Only the layer's own callbacks queue, so that the check and the
\* push, each under its own lock, are one step.
QueueAction(l, target) ==
    /\ callback = l
    /\ target \in DOMAIN mounted
    /\ Routes(l, target, mounted[target].revision)
    /\ Len(actions) < ActionCapacity
    /\ actions' = Append(actions, [layer |-> l, target |-> target,
                                   revision |-> mounted[target].revision,
                                   sessions |-> Sessions(l, target)])
    /\ UNCHANGED <<life, session, mounted, layer, requests, work, callback, busy, strayed>>

FocusRequest(l, w) == [layer |-> l, world |-> w, sessions |-> <<session[l]>>]

\* queue_world_focus_request: one request of a layer, the last.
RequestFocus(l, w) ==
    /\ callback = l
    /\ layer.owner = l
    /\ requests' = IF \E k \in DOMAIN requests : requests[k].layer = l
                   THEN [k \in DOMAIN requests |->
                            IF requests[k].layer = l THEN FocusRequest(l, w) ELSE requests[k]]
                   ELSE Append(requests, FocusRequest(l, w))
    /\ layer' = [layer EXCEPT !.pending = w]
    /\ UNCHANGED <<life, session, mounted, actions, work, callback, busy, strayed>>

\* clear_focused_world_scope.
ClearFocus(l) ==
    /\ callback = l
    /\ layer.owner = l
    /\ layer' = [layer EXCEPT !.focused = None, !.pending = None]
    /\ requests' = RequestsWithout(l)
    /\ UNCHANGED <<life, session, mounted, actions, work, callback, busy, strayed>>

\* The host takes a queue whole.
DrainActions ==
    /\ Idle /\ actions # <<>>
    /\ work' = [kind |-> "actions", left |-> actions]
    /\ actions' = <<>>
    /\ UNCHANGED <<life, session, mounted, layer, requests, callback, busy, strayed>>

DrainRequests ==
    /\ Idle /\ requests # <<>>
    /\ work' = [kind |-> "requests", left |-> requests]
    /\ requests' = <<>>
    /\ UNCHANGED <<life, session, mounted, layer, actions, callback, busy, strayed>>

\* What has strayed once work of some sessions was handled in the present ones.
Strays(queued, now) == IF queued = now THEN strayed ELSE strayed \cup {<<queued, now>>}

HandledOne == work' = IF Len(work.left) = 1 THEN NoWork ELSE [work EXCEPT !.left = Tail(@)]

\* dispatch_ui_action for one drained action: routed again, its target's callback
\* runs; otherwise the rejection is contained.
Dispatch ==
    /\ callback = None /\ work.kind = "actions"
    /\ LET a == Head(work.left) IN
        IF Routes(a.layer, a.target, a.revision)
        THEN /\ callback' = a.target
             /\ strayed' = Strays(a.sessions, Sessions(a.layer, a.target))
        ELSE UNCHANGED <<callback, strayed>>
    /\ HandledOne
    /\ UNCHANGED <<life, session, mounted, layer, actions, requests, busy>>

\* focus_world_for_ui_layer: its presentation is active, its entry surface mounted
\* and rendered by the layer.
CanFocus(l, w) ==
    /\ layer.owner = l
    /\ life[w] = "active"
    /\ w \in DOMAIN mounted
    /\ Supports(layer.rich, mounted[w].nodes)

\* What is pending once w was handled.
Settled(w) == IF layer.pending = w THEN None ELSE layer.pending

\* One drained focus request: the focus is set, or its failure recorded.
HandleRequest ==
    /\ callback = None /\ work.kind = "requests"
    /\ LET r == Head(work.left) IN
        IF layer.owner = r.layer
        THEN /\ layer' = [layer EXCEPT !.pending = Settled(r.world),
                                       !.focused = IF CanFocus(r.layer, r.world) THEN r.world ELSE @]
             /\ strayed' = Strays(r.sessions, <<session[r.layer]>>)
        ELSE UNCHANGED <<layer, strayed>>
    /\ HandledOne
    /\ UNCHANGED <<life, session, mounted, actions, requests, callback, busy>>

\* The embedder focuses a world itself.
FocusNow(l, w) ==
    /\ Idle
    /\ CanFocus(l, w)
    /\ layer' = [layer EXCEPT !.focused = w, !.pending = Settled(w)]
    /\ UNCHANGED <<life, session, mounted, actions, requests, work, callback, busy, strayed>>

Next ==
    \/ \E i \in Instances : Start(i) \/ Call(i) \/ Unregister(i) \/ Unmount(i)
    \/ Return \/ Fail
    \/ \E w \in Worlds : BeginService(w) \/ EndService(w)
    \/ \E i \in Instances : (\E nodes \in Initial : Mount(i, nodes))
                            \/ (\E batch \in Batches : Patch(i, batch))
    \/ \E l \in Layers :
        \/ \E rich \in BOOLEAN : Attach(l, rich)
        \/ Detach(l) \/ ClearFocus(l)
        \/ \E target \in Instances : QueueAction(l, target)
        \/ \E w \in Worlds : RequestFocus(l, w) \/ FocusNow(l, w)
    \/ DrainActions \/ DrainRequests \/ Dispatch \/ HandleRequest

Spec == Init /\ [][Next]_vars
-----------------------------------------------------------------------------
\* A surface the layer shows needs nothing the layer cannot render, whichever of
\* mount, patch, attach, focus and activation came last (ensure_surface_supported).
ShownSurfacesAreSupported ==
    \A i \in DOMAIN mounted :
        layer.owner # None /\ (i \in Layers \/ layer.focused = i) /\ life[i] = "active" =>
            Supports(layer.rich, mounted[i].nodes)

\* The focus requests that are still to be answered, queued or drained.
Unanswered == ToSet(requests) \cup (IF work.kind = "requests" THEN ToSet(work.left) ELSE {})

\* Queued work belongs to the sessions it was queued in.  An action reaches its
\* target, and a focus request its layer, in the sessions of layer and target in
\* which the user made it: it does not outlive a restart of either, even though the
\* surface mounted afterwards may have the same revision.  And no layer waits for a
\* focus nobody is going to answer, whoever else failed or stopped meanwhile.
QueuedWorkStaysInItsSessions ==
    /\ strayed = {}
    /\ layer.pending # None =>
          \E r \in Unanswered : r.layer = layer.owner /\ r.world = layer.pending

\* Mounted surfaces are trees after any sequence of patch batches, although a
\* batch may pass through anything (apply_patch_operations, validate_snapshot).
MountedSurfacesAreTrees == \A i \in DOMAIN mounted : IsTree(mounted[i].nodes)
=============================================================================
