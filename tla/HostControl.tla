----------------------------- MODULE HostControl -----------------------------
(***************************************************************************)
(* The control side of the host runtime: crates/host/src/runtime.rs.       *)
(*                                                                         *)
(* Components ask for things while one of their callbacks runs: start or   *)
(* stop a world, delete one, submit a command, read a projection, write    *)
(* user content, focus a world.  All but creation and deletion are only    *)
(* queued; poll_runtime drains each queue into a list of its own and works *)
(* through it, and what it does there runs further callbacks that queue    *)
(* further requests.  Everything happens on the thread of the run loop:    *)
(* the interleavings are those of callbacks with half-drained lists.       *)
(***************************************************************************)
EXTENDS Integers, Sequences, FiniteSets, SequencesExt

CONSTANTS
    Worlds,             \* world identities; numbers, for the order of the maps
    SessionCapacity,    \* MAX_PENDING_WORLD_SESSION_REQUESTS
    CommandCapacity,    \* MAX_PENDING_WORLD_COMMAND_REQUESTS
    OperationCapacity,  \* MAX_PENDING_..._WRITES and ..._PROJECTION_REQUESTS
    Retained,           \* MAX_RETAINED_..._STATUSES
    SignalCapacity,     \* DEFAULT_RUNTIME_SIGNAL_QUEUE_CAPACITY
    Requests,           \* the kinds of request components make
    MaxRequests         \* bound on the requests ever made

ASSUME WorldsAssumption == Worlds \subseteq Nat \ {0} /\ IsFiniteSet(Worlds)
ASSUME CapacityAssumption ==
    /\ SessionCapacity \in Nat /\ CommandCapacity \in Nat /\ SignalCapacity \in Nat
    /\ OperationCapacity \in Nat /\ Retained \in Nat /\ MaxRequests \in Nat

Kinds == {"content", "projection"}    \* operations whose result is asked for later
NoWorld == 0

VARIABLES
    home,       \* the world directories there are, and those there ever were
    up,         \* whether a HostRuntime exists
    control,    \* WorldSessionRuntimeState: active, pending, last_errors
    running,    \* active_worlds: the signals waiting in each
    commands,   \* WorldCommandRuntimeControl.queue
    table,      \* of each kind: queue, statuses and completed
    focus,      \* the UI layer's queued request and the world it shows
    poll,       \* where poll_runtime is
    issued,     \* how many requests were made
    wanted,     \* history: the last state asked for, of each world
    handled     \* history: the commands taken from the queue, in order

vars == <<home, up, control, running, commands, table, focus, poll, issued, wanted, handled>>

EmptyTable == [queue |-> <<>>, statuses |-> <<>>, completed |-> <<>>]
NoFocus == [queued |-> NoWorld, shown |-> NoWorld]
NoCallback == "none"
Between == [at |-> 0, drained |-> FALSE, todo |-> <<>>, callback |-> NoCallback]

NoSessions == [active |-> {}, pending |-> <<>>, failed |-> {}]
NoOperations == [k \in Kinds |-> EmptyTable]

Init ==
    /\ \E worlds \in SUBSET Worlds : home = [now |-> worlds, ever |-> worlds]
    /\ up = FALSE
    /\ control = NoSessions
    /\ running = <<>>
    /\ commands = <<>>
    /\ table = NoOperations
    /\ focus = NoFocus
    /\ poll = Between
    /\ issued = 0
    /\ wanted = <<>>
    /\ handled = <<>>

\* HostRuntime::start: nothing of an earlier run is left but the home.
Boot ==
    /\ ~up
    /\ up' = TRUE
    /\ UNCHANGED <<home, control, running, commands, table, focus, poll, issued, wanted, handled>>

\* The run loop ends, or the process dies at any point of a poll.  An error out
\* of poll_runtime, after which requests drained but not handled are forgotten,
\* is one of these: the loop shuts the host down.  No callback of a shutdown can
\* reach the host.
Down ==
    /\ up
    /\ up' = FALSE
    /\ control' = NoSessions
    /\ running' = <<>>
    /\ commands' = <<>>
    /\ table' = NoOperations
    /\ focus' = NoFocus
    /\ poll' = Between
    /\ wanted' = <<>>
    /\ handled' = <<>>
    /\ UNCHANGED <<home, issued>>

-----------------------------------------------------------------------------
(* Requests of components, while a callback runs: LocalHostAccess.         *)

InCallback == up /\ poll.callback # NoCallback
Issue(kind) == kind \in Requests /\ InCallback /\ issued < MaxRequests /\ issued' = issued + 1
Put(f, x, y) == [z \in DOMAIN f \cup {x} |-> IF z = x THEN y ELSE f[z]]
Without(f, x) == [z \in DOMAIN f \ {x} |-> f[z]]

\* create_world: a new identity, at once.
CreateWorld(w) ==
    /\ Issue("create")
    /\ w \notin home.ever
    /\ home' = [now |-> home.now \cup {w}, ever |-> home.ever \cup {w}]
    /\ UNCHANGED <<up, control, running, commands, table, focus, poll, wanted, handled>>

\* Faulty: only looks at the requests.
Deletable_NotPending(w) == w \notin DOMAIN control.pending

\* delete_inactive: not while the world is active or a request for it is queued.
Deletable(w) == w \notin control.active /\ w \notin DOMAIN control.pending

\* delete_world, at once, under the lock of the control state.
DeleteWorld(w) ==
    /\ Issue("delete")
    /\ w \in home.now
    /\ Deletable(w)
    /\ home' = [home EXCEPT !.now = @ \ {w}]
    /\ control' = [control EXCEPT !.failed = @ \ {w}]
    /\ UNCHANGED <<up, running, commands, table, focus, poll, wanted, handled>>

\* set_active: the newest request replaces an older one that is still queued.
RequestActive(w, active) ==
    /\ Issue("session")
    /\ w \in home.now
    /\ w \in DOMAIN control.pending \/ Cardinality(DOMAIN control.pending) < SessionCapacity
    /\ control' = [control EXCEPT !.pending = Put(@, w, active), !.failed = @ \ {w}]
    /\ wanted' = Put(wanted, w, active)
    /\ UNCHANGED <<home, up, running, commands, table, focus, poll, handled>>

\* accepts_deferred_world_access: what a queued request will make of the world
\* counts, before what it is.
Accepts(w) == IF w \in DOMAIN control.pending THEN control.pending[w] ELSE w \in control.active

\* submit_world_command.
RequestCommand(w) ==
    /\ Issue("command")
    /\ w \in home.now
    /\ Accepts(w)
    /\ Len(commands) < CommandCapacity
    /\ commands' = Append(commands, [id |-> issued + 1, world |-> w])
    /\ UNCHANGED <<home, up, control, running, table, focus, poll, wanted, handled>>

\* Room for one more status: the oldest that is completed is forgotten.  (The
\* table never grows past its limit, so one is enough.)
Evict(t) ==
    IF Cardinality(DOMAIN t.statuses) < Retained THEN t
    ELSE [t EXCEPT !.statuses = Without(@, Head(t.completed)), !.completed = Tail(@)]

\* request: UserContentWriteRuntimeControl and WorldProjectionRuntimeControl
\* share the protocol.  A write names no world; a projection needs one.
RequestOperation(kind, w) ==
    LET t == table[kind]
        id == issued + 1
    IN
    /\ Issue(kind)
    /\ IF kind = "projection" THEN w \in home.now /\ Accepts(w) ELSE w = NoWorld
    /\ Len(t.queue) < OperationCapacity
    /\ Cardinality(DOMAIN t.statuses) < Retained \/ t.completed # <<>>
    /\ table' = [table EXCEPT ![kind] =
          [queue |-> Append(t.queue, [id |-> id, world |-> w]),
           statuses |-> Put(Evict(t).statuses, id, "pending"),
           completed |-> Evict(t).completed]]
    /\ UNCHANGED <<home, up, control, running, commands, focus, poll, wanted, handled>>

\* request_world_focus of the UI layer: one request at a time is kept.
RequestFocus(w) ==
    /\ Issue("focus")
    /\ focus' = [focus EXCEPT !.queued = w]
    /\ UNCHANGED <<home, up, control, running, commands, table, poll, wanted, handled>>

Request ==
    \E w \in Worlds :
       \/ CreateWorld(w)
       \/ DeleteWorld(w)
       \/ \E active \in BOOLEAN : RequestActive(w, active)
       \/ RequestCommand(w)
       \/ \E kind \in Kinds : RequestOperation(kind, w)
       \/ RequestFocus(w)

RequestContent == RequestOperation("content", NoWorld)

\* enqueue_runtime_signal, by the program that embeds the host, between polls.
EnqueueSignal(w) ==
    /\ "signal" \in Requests
    /\ up /\ poll = Between
    /\ w \in DOMAIN running
    /\ running[w] < SignalCapacity
    /\ issued < MaxRequests
    /\ issued' = issued + 1
    /\ running' = [running EXCEPT ![w] = @ + 1]
    /\ UNCHANGED <<home, up, control, commands, table, focus, poll, wanted, handled>>

-----------------------------------------------------------------------------
(* poll_runtime.                                                           *)

\* Faulty: projections are pumped nowhere.
Stages_NoProjections ==
    <<"sessions", "focus", "content", "commands", "signals", "effects", "engine",
      "sessions", "focus", "content", "commands">>

\* The pumps, in order; five of them again after the engine's tasks.
Stages ==
    <<"sessions", "focus", "content", "commands", "projection", "signals", "effects", "engine",
      "sessions", "focus", "content", "commands", "projection">>

Stage == IF poll.at = 0 THEN "between" ELSE Stages[poll.at]

\* A set of worlds in the order of the map.
Rank(S, w) == Cardinality({v \in S : v < w})
Sorted(S) == [i \in 1 .. Cardinality(S) |-> CHOOSE w \in S : Rank(S, w) = i - 1]

\* Ready to take the next entry of the current list.
Working(stage) ==
    /\ up /\ poll.callback = NoCallback
    /\ Stage = stage
    /\ poll.drained /\ poll.todo # <<>>
Entry == Head(poll.todo)
Done == poll' = [poll EXCEPT !.todo = Tail(@)]
Call(kind) == poll' = [poll EXCEPT !.callback = kind]

StartPoll ==
    /\ up /\ poll = Between
    /\ poll' = [poll EXCEPT !.at = 1]
    /\ UNCHANGED <<home, up, control, running, commands, table, focus, issued, wanted, handled>>

Drained(list) ==
    /\ up /\ ~poll.drained
    /\ poll' = [poll EXCEPT !.drained = TRUE, !.todo = list]

\* drain_pending of the world control, in the order of the identities.
DrainSessions ==
    /\ Stage = "sessions"
    /\ LET worlds == Sorted(DOMAIN control.pending) IN
       Drained([i \in DOMAIN worlds |-> <<worlds[i], control.pending[worlds[i]]>>])
    /\ control' = [control EXCEPT !.pending = <<>>]
    /\ UNCHANGED <<home, up, running, commands, table, focus, issued, wanted, handled>>

DrainFocus ==
    /\ Stage = "focus"
    /\ Drained(IF focus.queued = NoWorld THEN <<>> ELSE <<focus.queued>>)
    /\ focus' = [focus EXCEPT !.queued = NoWorld]
    /\ UNCHANGED <<home, up, control, running, commands, table, issued, wanted, handled>>

DrainOperations(kind) ==
    /\ Stage = kind
    /\ Drained(table[kind].queue)
    /\ table' = [table EXCEPT ![kind].queue = <<>>]
    /\ UNCHANGED <<home, up, control, running, commands, focus, issued, wanted, handled>>

DrainCommands ==
    /\ Stage = "commands"
    /\ Drained(commands)
    /\ commands' = <<>>
    /\ UNCHANGED <<home, up, control, running, table, focus, issued, wanted, handled>>

\* pump_all_runtime_signals and pump_all_effect_outboxes list the worlds first;
\* the engine polls its tasks.
ListWork ==
    /\ Stage \in {"signals", "effects", "engine"}
    /\ Drained(IF Stage = "engine" THEN <<0>> ELSE Sorted(DOMAIN running))
    /\ UNCHANGED <<home, up, control, running, commands, table, focus, issued, wanted, handled>>

\* A pump is through with its list: the next one, and after the last one the
\* call returns.
NextStage ==
    /\ up /\ poll.callback = NoCallback
    /\ poll.drained /\ poll.todo = <<>>
    /\ poll' = IF poll.at = Len(Stages) THEN Between
               ELSE [Between EXCEPT !.at = poll.at + 1]
    /\ UNCHANGED <<home, up, control, running, commands, table, focus, issued, wanted, handled>>

\* The guest's callback returns, or its budget ends.  (What a starting world
\* does then is ActivateRest.)
Return ==
    /\ InCallback /\ poll.callback # "start"
    /\ poll' = [poll EXCEPT !.callback = NoCallback]
    /\ UNCHANGED <<home, up, control, running, commands, table, focus, issued, wanted, handled>>

-----------------------------------------------------------------------------
(* Worlds: pump_world_session_requests, activate and deactivate.           *)

\* Faulty: forgets a request made during the transition as well.
Recorded_DropsPending(w, active, failed) ==
    [active |-> IF active THEN control.active \cup {w} ELSE control.active \ {w},
     pending |-> Without(control.pending, w),
     failed |-> IF failed THEN control.failed \cup {w} ELSE control.failed \ {w}]

\* record_outcome: what the world is now, and why it is not what was asked for.
Recorded(w, active, failed) ==
    [active |-> IF active THEN control.active \cup {w} ELSE control.active \ {w},
     pending |-> control.pending,
     failed |-> IF failed THEN control.failed \cup {w} ELSE control.failed \ {w}]

\* Already as it should be.
SessionAsWanted ==
    /\ Working("sessions")
    /\ LET w == Entry[1] IN
       /\ Entry[2] = (w \in DOMAIN running)
       /\ control' = Recorded(w, Entry[2], FALSE)
    /\ Done
    /\ UNCHANGED <<home, up, running, commands, table, focus, issued, wanted, handled>>

Activating(w) == Working("sessions") /\ Entry = <<w, TRUE>> /\ w \notin DOMAIN running

\* load_world_composition and activate_composition: the start callbacks of the
\* world's instances run, unless it fails before.
ActivateStart(w) ==
    /\ Activating(w)
    /\ w \in home.now
    /\ Call("start")
    /\ UNCHANGED <<home, up, control, running, commands, table, focus, issued, wanted, handled>>

ActivateFails(w) ==
    /\ Activating(w)
    /\ control' = Recorded(w, FALSE, TRUE)
    /\ Done
    /\ UNCHANGED <<home, up, running, commands, table, focus, issued, wanted, handled>>

\* open_world_storage, after the callbacks.
Openable(w) == w \in home.now

\* The rest of activate_world_inner: storage, schemas, services, the worker; or
\* any error, and cleanup_instances takes the composition down again.
ActivateRest(w) ==
    /\ up /\ poll.callback = "start" /\ Entry[1] = w
    /\ \/ /\ Openable(w)
          /\ running' = Put(running, w, 0)
          /\ control' = Recorded(w, TRUE, FALSE)
       \/ /\ control' = Recorded(w, FALSE, TRUE)
          /\ UNCHANGED running
    /\ poll' = [poll EXCEPT !.callback = NoCallback, !.todo = Tail(@)]
    /\ UNCHANGED <<home, up, commands, table, focus, issued, wanted, handled>>

\* clear_world_scope_topology takes the focus off the world's scope.
Unfocused(w) == IF focus.shown = w THEN [focus EXCEPT !.shown = NoWorld] ELSE focus

\* deactivate_world_inner: out of active_worlds first, its signals with it;
\* whatever fails in the cleanup is recorded.  No callback of it can ask for
\* anything.
Deactivate(w) ==
    /\ Working("sessions")
    /\ Entry = <<w, FALSE>> /\ w \in DOMAIN running
    /\ running' = Without(running, w)
    /\ \E failed \in BOOLEAN : control' = Recorded(w, FALSE, failed)
    /\ focus' = Unfocused(w)
    /\ Done
    /\ UNCHANGED <<home, up, commands, table, issued, wanted, handled>>

-----------------------------------------------------------------------------
(* The other pumps.                                                        *)

\* focus_world_for_ui_layer: refused unless the world runs; its presentation
\* may also be missing.
PumpFocus ==
    /\ Working("focus")
    /\ \/ Entry \in DOMAIN running /\ focus' = [focus EXCEPT !.shown = Entry]
       \/ UNCHANGED focus
    /\ Done
    /\ UNCHANGED <<home, up, control, running, commands, table, issued, wanted, handled>>

\* Faulty: an error leaves the operation as it is.
PumpOperation_Succeeds(kind) ==
    /\ Working(kind)
    /\ \/ /\ kind = "projection" => Entry.world \in DOMAIN running
          /\ table' = [table EXCEPT ![kind].statuses[Entry.id] = "succeeded",
                                    ![kind].completed = Append(@, Entry.id)]
       \/ UNCHANGED table
    /\ Done
    /\ UNCHANGED <<home, up, control, running, commands, focus, issued, wanted, handled>>

\* One write or one projection: its status is set whatever comes of it.  A
\* projection of a world that does not run any more fails.
PumpOperation(kind) ==
    /\ Working(kind)
    /\ \E result \in {"succeeded", "failed"} :
          /\ kind = "projection" /\ result = "succeeded" => Entry.world \in DOMAIN running
          /\ table' = [table EXCEPT ![kind].statuses[Entry.id] = result,
                                    ![kind].completed = Append(@, Entry.id)]
    /\ Done
    /\ UNCHANGED <<home, up, control, running, commands, focus, issued, wanted, handled>>

\* One command: WorldNotActive, a failure, or a commit whose events are then
\* delivered to live subscribers.  The outcome is only logged.
PumpCommand ==
    /\ Working("commands")
    /\ handled' = Append(handled, Entry.id)
    /\ \/ poll' = [poll EXCEPT !.todo = Tail(@)]
       \/ /\ Entry.world \in DOMAIN running
          /\ poll' = [poll EXCEPT !.todo = Tail(@), !.callback = "event"]
    /\ UNCHANGED <<home, up, control, running, commands, table, focus, issued, wanted>>

\* pump_runtime_signals: taken from the queue before it is delivered.
PumpSignal ==
    /\ Working("signals")
    /\ IF running[Entry] > 0
       THEN running' = [running EXCEPT ![Entry] = @ - 1] /\ Call("signal")
       ELSE UNCHANGED running /\ Done
    /\ UNCHANGED <<home, up, control, commands, table, focus, issued, wanted, handled>>

\* pump_effect_outbox (see EffectPump), of which some deliver events.
PumpEffects ==
    /\ Working("effects")
    /\ \/ Done
       \/ poll' = [poll EXCEPT !.todo = Tail(@), !.callback = "event"]
    /\ UNCHANGED <<home, up, control, running, commands, table, focus, issued, wanted, handled>>

\* engine.poll_runtime: due tasks and queued UI actions.
PollEngine ==
    /\ Working("engine")
    /\ poll' = [poll EXCEPT !.todo = Tail(@), !.callback = "task"]
    /\ UNCHANGED <<home, up, control, running, commands, table, focus, issued, wanted, handled>>

LoopStep ==
    \/ StartPoll \/ NextStage \/ Return
    \/ DrainSessions \/ DrainFocus \/ DrainCommands \/ ListWork
    \/ SessionAsWanted
    \/ \E w \in Worlds : ActivateStart(w) \/ ActivateFails(w) \/ ActivateRest(w) \/ Deactivate(w)
    \/ \E kind \in Kinds : DrainOperations(kind) \/ PumpOperation(kind)
    \/ PumpFocus \/ PumpCommand \/ PumpSignal \/ PumpEffects \/ PollEngine

Next ==
    \/ Boot
    \/ Down
    \/ Request
    \/ RequestContent
    \/ \E w \in Worlds : EnqueueSignal(w)
    \/ LoopStep

\* The run loop polls again and again, and every callback ends.
Fairness == WF_vars(LoopStep)

Spec == Init /\ [][Next]_vars /\ Fairness
-----------------------------------------------------------------------------
(* Properties.                                                             *)

\* The entries of the pump that is at work, if it is this one.
Taken(stage) == IF Stage = stage THEN poll.todo ELSE <<>>
Ids(list) == [i \in DOMAIN list |-> list[i].id]

\* No running world loses its files, the layer shows none that does not run, the
\* control state knows which run, and a pump that listed the running worlds
\* meets no other on its way (pump_runtime_signals would end the host with
\* WorldNotActive): callbacks between them may ask for anything.
WorldsInUseExist ==
    /\ DOMAIN running \subseteq home.now
    /\ control.active = DOMAIN running
    /\ focus.shown \in DOMAIN running \cup {NoWorld}
    /\ ToSet(Taken("signals")) \cup ToSet(Taken("effects")) \subseteq DOMAIN running

\* A request to start or stop a world is queued, being worked on, carried out
\* or reported as failed: none is lost, also when a newer one is made in the
\* middle of a transition ("Never remove a newer request").
RequestsAreAnswered ==
    \A w \in DOMAIN wanted \cap home.now :
        \/ w \in DOMAIN control.pending
        \/ \E i \in DOMAIN Taken("sessions") : Taken("sessions")[i][1] = w
        \/ w \in control.failed
        \/ wanted[w] = (w \in DOMAIN running)

\* An operation is pending exactly while it waits or is in the pump's hands, so
\* no status that its owner still waits for is forgotten; the completed ones
\* are the candidates for eviction, each once.  Commands are handled once each,
\* in the order they were accepted.
DeferredWorkIsTracked ==
    /\ \A kind \in Kinds :
          LET t == table[kind]
              pendingIds == {id \in DOMAIN t.statuses : t.statuses[id] = "pending"}
              waiting == Ids(t.queue) \o Ids(Taken(kind))
          IN
          /\ Cardinality(DOMAIN t.statuses) <= Retained
          /\ pendingIds = ToSet(waiting)
          /\ DOMAIN t.statuses \ pendingIds = ToSet(t.completed)
          /\ IsInjective(waiting) /\ IsInjective(t.completed)
    /\ LET order == handled \o Ids(Taken("commands")) \o Ids(commands) IN
       \A i, j \in DOMAIN order : i < j => order[i] < order[j]

\* While the host runs, every operation and every request for a world is dealt
\* with in the end, although handling one makes callbacks ask for more.
EveryRequestEnds ==
    /\ \A kind \in Kinds : \A id \in 1 .. MaxRequests :
          LET statuses == table[kind].statuses
              Waits == id \in DOMAIN statuses /\ statuses[id] = "pending"
          IN Waits ~> ~Waits
    /\ \A w \in Worlds : (w \in DOMAIN control.pending) ~> (w \notin DOMAIN control.pending)
=============================================================================
