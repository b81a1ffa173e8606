-------------------------- MODULE HostRuntimeProofs --------------------------
(***************************************************************************)
(* Proofs about the host's runtime: first HostControl, for any worlds,     *)
(* capacities and numbers of requests (what callbacks ask for between two  *)
(* steps of a half-done poll never leaves a world in use without files or  *)
(* a request unanswered), then HostBootstrap, for any instances, targets,  *)
(* worlds and compositions, and any number of activations and faults.      *)
(***************************************************************************)
EXTENDS HostControl, HostBootstrap, FiniteSetTheorems, WellFoundedInduction, TLAPS


\* A request for a command, a write or a projection.
Waiting == [id : Nat, world : Worlds \cup {NoWorld}]

\* What the list of a pump consists of.
Entries(stage) ==
    CASE stage = "sessions" -> Worlds \X BOOLEAN
      [] stage \in {"focus", "signals", "effects"} -> Worlds
      [] stage = "engine" -> {NoWorld}
      [] OTHER -> Waiting

Table(t) ==
    /\ t = [queue |-> t.queue, statuses |-> t.statuses, completed |-> t.completed]
    /\ t.queue \in Seq(Waiting)
Tables(ts) == ts = [kind \in Kinds |-> ts[kind]] /\ \A kind \in Kinds : Table(ts[kind])

\* The shape of the state the argument is about.
Shapes ==
    /\ home = [now |-> home.now, ever |-> home.ever]
    /\ home.now \subseteq home.ever /\ home.ever \subseteq Worlds
    /\ control = [active |-> control.active, pending |-> control.pending, failed |-> control.failed]
    /\ DOMAIN running \subseteq Worlds
    /\ \A w \in DOMAIN wanted : wanted[w] \in BOOLEAN
    /\ issued \in Nat
    /\ commands \in Seq(Waiting)
    /\ Tables(table)
    /\ focus = [queued |-> focus.queued, shown |-> focus.shown]
    /\ focus.queued \in Worlds \cup {NoWorld}
    /\ poll = [at |-> poll.at, drained |-> poll.drained, todo |-> poll.todo, callback |-> poll.callback]
    /\ poll.todo \in Seq(Entries(Stage))
    /\ ~poll.drained => poll.todo = <<>>

\* The callbacks of a starting world run while its request is at the head of the list.
Starting ==
    poll.callback = "start" =>
        /\ Stage = "sessions" /\ poll.todo # <<>>
        /\ Entry[2] = TRUE /\ Entry[1] \notin DOMAIN running

\* What runs has files and is known to run; the layer and the pumps look at nothing else.
InUse ==
    /\ DOMAIN running \subseteq home.now
    /\ control.active = DOMAIN running
    /\ focus.shown \in DOMAIN running \cup {NoWorld}
    /\ Stage \in {"signals", "effects"} =>
          \A i \in DOMAIN poll.todo : poll.todo[i] \in DOMAIN running

\* A queued request is the newest of its world, whose files it protects; one being
\* worked on is the newest as well, unless another is queued behind it.
Newest ==
    /\ DOMAIN wanted \subseteq home.ever
    /\ \A w \in DOMAIN control.pending :
          w \in DOMAIN wanted /\ w \in home.now /\ control.pending[w] = wanted[w]
    /\ Stage = "sessions" =>
          \A i \in DOMAIN poll.todo :
             /\ poll.todo[i][1] \in DOMAIN wanted
             /\ poll.todo[i][1] \in DOMAIN control.pending \/ poll.todo[i][2] = wanted[poll.todo[i][1]]

Answered ==
    \A w \in DOMAIN wanted \cap home.now :
        \/ w \in DOMAIN control.pending
        \/ Stage = "sessions" /\ \E i \in DOMAIN poll.todo : poll.todo[i][1] = w
        \/ w \in control.failed
        \/ wanted[w] = (w \in DOMAIN running)

ControlInv == Shapes /\ Starting /\ InUse /\ Newest /\ Answered

LEMMA TablesEmpty == Tables(NoOperations)
<1>1. <<>> \in Seq(Waiting)
    OBVIOUS
<1>2. Table(EmptyTable)
    BY <1>1 DEF Table, EmptyTable
<1> QED BY <1>2 DEF Tables, NoOperations

LEMMA InitInv == Init => ControlInv
<1> SUFFICES ASSUME Init PROVE ControlInv
    OBVIOUS
<1>1. commands = <<>> /\ poll = Between /\ issued = 0 /\ running = <<>> /\ wanted = <<>>
    BY DEF Init
<1>2. poll.todo \in Seq(Entries(Stage)) /\ poll.callback # "start" /\ Stage = "between"
    BY <1>1 DEF Between, Stage, NoCallback
<1>3. DOMAIN control.pending = {} /\ DOMAIN running = {} /\ DOMAIN wanted = {}
    BY <1>1 DEF Init, NoSessions
<1>4. Shapes
  <2>1. home = [now |-> home.now, ever |-> home.ever] /\ home.now = home.ever /\ home.ever \subseteq Worlds
    BY DEF Init
  <2>2. control = [active |-> control.active, pending |-> control.pending, failed |-> control.failed]
    BY DEF Init, NoSessions
  <2>3. focus = [queued |-> focus.queued, shown |-> focus.shown] /\ focus.queued = NoWorld
    BY DEF Init, NoFocus
  <2>4. poll = [at |-> poll.at, drained |-> poll.drained, todo |-> poll.todo, callback |-> poll.callback]
        /\ poll.todo = <<>>
    BY <1>1 DEF Between
  <2> DEFINE Lists == Seq(Waiting)
  <2>5. <<>> \in Lists
    OBVIOUS
  <2> HIDE DEF Lists
  <2>6. issued \in Nat /\ commands \in Lists
    BY <1>1, <2>5
  <2>7. Tables(table)
    BY TablesEmpty DEF Init
  <2> QED BY <1>2, <1>3, <2>1, <2>2, <2>3, <2>4, <2>6, <2>7 DEF Shapes, Lists
<1> QED BY <1>2, <1>3, <1>4 DEF Init, ControlInv, Starting, InUse, Newest, Answered, NoSessions, NoFocus

-----------------------------------------------------------------------------
\* Ranks tell the members of a finite set of numbers apart, and are all taken.
LEMMA RankBelow ==
    ASSUME NEW S, IsFiniteSet(S), S \subseteq Nat, NEW w \in S
    PROVE  /\ IsFiniteSet({v \in S : v < w})
           /\ Rank(S, w) \in 0 .. Cardinality(S) - 1
<1> DEFINE B == {v \in S : v < w}
<1>1. w \in Nat /\ ~(w < w)
    OBVIOUS
<1>2. B \subseteq S /\ w \notin B
    BY <1>1
<1>3. B \in SUBSET S /\ B # S
    BY <1>2
<1> HIDE DEF B
<1>4. IsFiniteSet(B) /\ Cardinality(B) <= Cardinality(S) /\ Cardinality(B) # Cardinality(S)
    BY <1>3, FS_Subset
<1>5. Cardinality(B) \in Nat /\ Cardinality(S) \in Nat
    BY <1>4, FS_CardinalityType
<1>6. Cardinality(B) \in 0 .. Cardinality(S) - 1
    BY <1>4, <1>5
<1> QED BY <1>4, <1>6 DEF Rank, B

LEMMA RankOrder ==
    ASSUME NEW S, IsFiniteSet(S), S \subseteq Nat, NEW v \in S, NEW w \in S, v < w
    PROVE  Rank(S, v) # Rank(S, w)
<1> DEFINE B(x) == {u \in S : u < x}
<1>1. v \in Nat /\ w \in Nat /\ ~(v < v)
    OBVIOUS
<1>2. \A u \in S : u \in Nat /\ (u < v => u < w)
    BY <1>1
<1>3. B(v) \subseteq B(w) /\ v \in B(w) /\ v \notin B(v)
    BY <1>1, <1>2
<1>4. B(v) \in SUBSET B(w) /\ B(v) # B(w)
    BY <1>3
<1>5. IsFiniteSet(B(w)) 
    BY RankBelow
<1> HIDE DEF B
<1>6. Cardinality(B(v)) # Cardinality(B(w))
    BY <1>4, <1>5, FS_Subset
<1> QED BY <1>6 DEF Rank, B

LEMMA Ranks ==
    ASSUME NEW S, IsFiniteSet(S), S \subseteq Nat
    PROVE  /\ \A v, w \in S : Rank(S, v) = Rank(S, w) => v = w
           /\ \A w \in S : Rank(S, w) \in 0 .. Cardinality(S) - 1
           /\ \A k \in 0 .. Cardinality(S) - 1 : \E w \in S : Rank(S, w) = k
<1> DEFINE R == 0 .. Cardinality(S) - 1
           f == [w \in S |-> Rank(S, w)]
<1>1. \A v, w \in S : Rank(S, v) = Rank(S, w) => v = w
  <2> SUFFICES ASSUME NEW v \in S, NEW w \in S, Rank(S, v) = Rank(S, w), v # w PROVE FALSE
    OBVIOUS
  <2>1. v < w \/ w < v
    OBVIOUS
  <2>2. CASE v < w
    BY <2>2, RankOrder
  <2>3. CASE w < v
    BY <2>3, RankOrder
  <2> QED BY <2>1, <2>2, <2>3
<1>2. \A w \in S : Rank(S, w) \in R
  BY RankBelow
<1>3. Cardinality(S) \in Nat
  BY FS_CardinalityType
<1>4. IsFiniteSet(R) /\ Cardinality(R) = Cardinality(S)
  <2>1. 0 \in Int /\ Cardinality(S) - 1 \in Int
    BY <1>3
  <2>2. IsFiniteSet(R) /\ Cardinality(R) = IF 0 > Cardinality(S) - 1 THEN 0 ELSE Cardinality(S) - 1 - 0 + 1
    BY <2>1, FS_Interval
  <2> HIDE DEF R
  <2> QED BY <2>2, <1>3
<1>5. f \in Injection(S, R)
  BY <1>1, <1>2 DEF Injection, IsInjective
<1> HIDE DEF R, f
<1>6. f \in Surjection(S, R)
  BY <1>4, <1>5, FS_Injection
<1>7. \A k \in R : \E w \in S : f[w] = k
  BY <1>6 DEF Surjection
<1> QED BY <1>1, <1>2, <1>7 DEF R, f

\* Sorting keeps the members.
LEMMA SortedFacts ==
    ASSUME NEW S, S \subseteq Worlds
    PROVE  /\ Sorted(S) \in Seq(S)
           /\ \A w \in S : \E i \in DOMAIN Sorted(S) : Sorted(S)[i] = w
<1> DEFINE n == Cardinality(S)
           At(i) == CHOOSE w \in S : Rank(S, w) = i - 1
<1>1. IsFiniteSet(S) /\ S \subseteq Nat
  BY WorldsAssumption, FS_Subset
<1>2. n \in Nat
  BY <1>1, FS_CardinalityType
<1>3. /\ \A v, w \in S : Rank(S, v) = Rank(S, w) => v = w
      /\ \A w \in S : Rank(S, w) \in 0 .. n - 1
      /\ \A k \in 0 .. n - 1 : \E w \in S : Rank(S, w) = k
  BY <1>1, Ranks
<1> HIDE DEF n
<1>4. ASSUME NEW i \in 1 .. n PROVE At(i) \in S /\ Rank(S, At(i)) = i - 1
  <2>1. i - 1 \in 0 .. n - 1
    BY <1>2
  <2>2. \E w \in S : Rank(S, w) = i - 1
    BY <2>1, <1>3
  <2> QED BY <2>2
<1>5. Sorted(S) = [i \in 1 .. n |-> At(i)]
  BY DEF Sorted, n
<1> HIDE DEF At
<1>6. Sorted(S) \in Seq(S)
  BY <1>2, <1>4, <1>5
<1>7. ASSUME NEW w \in S PROVE \E i \in DOMAIN Sorted(S) : Sorted(S)[i] = w
  <2>1. PICK i \in 1 .. n : i - 1 = Rank(S, w)
    <3>1. Rank(S, w) \in 0 .. n - 1
      BY <1>3
    <3>2. \A r \in 0 .. n - 1 : r + 1 \in 1 .. n /\ (r + 1) - 1 = r
      BY <1>2
    <3> QED BY <3>1, <3>2
  <2>2. At(i) = w
    BY <2>1, <1>3, <1>4
  <2> QED BY <2>2, <1>5
<1> QED BY <1>6, <1>7

LEMMA TailFacts ==
    ASSUME NEW S, NEW s \in Seq(S), s # <<>>
    PROVE  /\ Tail(s) \in Seq(S)
           /\ Head(s) = s[1] /\ s[1] \in S
           /\ \A i \in DOMAIN Tail(s) : i + 1 \in DOMAIN s /\ Tail(s)[i] = s[i + 1]
           /\ \A i \in DOMAIN s : i # 1 => i - 1 \in DOMAIN Tail(s) /\ Tail(s)[i - 1] = s[i]
OBVIOUS

-----------------------------------------------------------------------------
\* Requests of components.
LEMMA HomeSteps ==
    ASSUME ControlInv, NEW w \in Worlds, CreateWorld(w) \/ DeleteWorld(w)
    PROVE  ControlInv'
<1>1. CASE CreateWorld(w)
    BY <1>1 DEF CreateWorld, Issue, ControlInv, Shapes, Starting, InUse, Newest, Answered, Stage, Entry
<1>2. CASE DeleteWorld(w)
  <2>1. /\ home'.now = home.now \ {w} /\ home'.ever = home.ever
        /\ home' = [now |-> home'.now, ever |-> home'.ever]
    BY <1>2 DEF DeleteWorld, ControlInv, Shapes
  <2>2. /\ control'.active = control.active /\ control'.pending = control.pending
        /\ control'.failed = control.failed \ {w}
        /\ control' = [active |-> control'.active, pending |-> control'.pending,
                       failed |-> control'.failed]
    BY <1>2 DEF DeleteWorld, ControlInv, Shapes
  <2>3. /\ w \notin control.active /\ w \notin DOMAIN control.pending /\ issued' \in Nat
        /\ UNCHANGED <<running, commands, table, focus, poll, wanted>>
    BY <1>2 DEF DeleteWorld, Deletable, Issue, ControlInv, Shapes
  <2>4. Stage' = Stage
    BY <2>3 DEF Stage
  <2>5. Shapes' /\ Starting' /\ InUse'
    BY <2>1, <2>2, <2>3, <2>4 DEF ControlInv, Shapes, Starting, InUse, Entry
  <2> QED BY <2>1, <2>2, <2>3, <2>4, <2>5 DEF ControlInv, Shapes, Newest, Answered
<1> QED BY <1>1, <1>2

LEMMA SessionRequest ==
    ASSUME ControlInv, NEW w \in Worlds, NEW active \in BOOLEAN, RequestActive(w, active)
    PROVE  ControlInv'
<1>1. /\ home' = home /\ running' = running /\ poll' = poll /\ commands' = commands
      /\ table' = table /\ focus' = focus /\ issued' \in Nat /\ w \in home.now
    BY DEF RequestActive, Issue, ControlInv, Shapes
<1>2. /\ control'.active = control.active
      /\ DOMAIN control'.pending = DOMAIN control.pending \cup {w}
      /\ control'.pending[w] = active
      /\ \A v \in DOMAIN control.pending \ {w} : control'.pending[v] = control.pending[v]
      /\ control'.failed = control.failed \ {w}
      /\ control' = [active |-> control'.active, pending |-> control'.pending, failed |-> control'.failed]
    BY DEF RequestActive, Put, ControlInv, Shapes
<1>3. /\ DOMAIN wanted' = DOMAIN wanted \cup {w}
      /\ wanted'[w] = active
      /\ \A v \in DOMAIN wanted \ {w} : wanted'[v] = wanted[v]
    BY DEF RequestActive, Put
<1>4. Stage' = Stage
    BY <1>1 DEF Stage
<1>5. Shapes' /\ Starting' /\ InUse'
    BY <1>1, <1>2, <1>3, <1>4 DEF ControlInv, Shapes, Starting, InUse, Entry
<1>6. Newest'
    BY <1>1, <1>2, <1>3, <1>4 DEF ControlInv, Shapes, Newest
<1>7. Answered'
    BY <1>1, <1>2, <1>3, <1>4 DEF ControlInv, Answered
<1> QED BY <1>5, <1>6, <1>7 DEF ControlInv

\* What neither the worlds nor the pump's list notices.
LEMMA QuietSteps ==
    ASSUME ControlInv, UNCHANGED <<home, control, running, wanted>>,
           Shapes', Stage' = Stage, focus'.shown = focus.shown,
           Starting', poll'.todo = poll.todo
    PROVE  ControlInv'
<1> QED BY DEF ControlInv, InUse, Newest, Answered

LEMMA TableStep ==
    ASSUME NEW before, NEW after, NEW kind \in Kinds, NEW t,
           Tables(before), after = [before EXCEPT ![kind] = t], Table(t)
    PROVE  Tables(after)
<1>1. after = [k \in Kinds |-> IF k = kind THEN t ELSE before[k]]
    BY DEF Tables
<1> QED BY <1>1 DEF Tables

LEMMA QueueRequests ==
    ASSUME ControlInv, NEW w \in Worlds \cup {NoWorld}, NEW kind \in Kinds,
           \/ w \in Worlds /\ (RequestCommand(w) \/ RequestFocus(w))
           \/ RequestOperation(kind, w)
    PROVE  ControlInv'
<1>1. UNCHANGED <<home, control, running, wanted, poll>> /\ issued' \in Nat /\ Stage' = Stage
    BY DEF RequestCommand, RequestFocus, RequestOperation, Issue, Stage, ControlInv, Shapes
<1>2. [id |-> issued + 1, world |-> w] \in Waiting
    BY DEF ControlInv, Shapes, Waiting
<1>3. Shapes' /\ focus'.shown = focus.shown
  <2>1. CASE w \in Worlds /\ RequestCommand(w)
    BY <1>1, <1>2, <2>1 DEF RequestCommand, ControlInv, Shapes
  <2>2. CASE w \in Worlds /\ RequestFocus(w)
    BY <1>1, <2>2 DEF RequestFocus, ControlInv, Shapes
  <2>3. CASE RequestOperation(kind, w)
    <3> DEFINE queue == Append(table[kind].queue, [id |-> issued + 1, world |-> w])
    <3>1. /\ \E f, g : table' = [table EXCEPT ![kind] = [queue |-> queue, statuses |-> f, completed |-> g]]
      BY <2>3 DEF RequestOperation
    <3> PICK f, g : table' = [table EXCEPT ![kind] = [queue |-> queue, statuses |-> f, completed |-> g]]
      BY <3>1
    <3> DEFINE t == [queue |-> queue, statuses |-> f, completed |-> g]
    <3>2. queue \in Seq(Waiting)
      <4>1. table[kind].queue \in Seq(Waiting)
        BY DEF ControlInv, Shapes, Tables, Table
      <4> QED BY <4>1, <1>2
    <3> HIDE DEF queue
    <3>3. Table(t)
      BY <3>2 DEF Table
    <3>4. Tables(table')
      <4>1. Tables(table) /\ table' = [table EXCEPT ![kind] = t]
        BY DEF ControlInv, Shapes
      <4> HIDE DEF t
      <4> QED BY <4>1, <3>3, TableStep
    <3> QED BY <1>1, <2>3, <3>4 DEF RequestOperation, ControlInv, Shapes
  <2> QED BY <2>1, <2>2, <2>3
<1>4. Starting'
    BY <1>1 DEF ControlInv, Starting, Entry
<1> QED BY <1>1, <1>3, <1>4, QuietSteps

LEMMA SignalSteps ==
    ASSUME ControlInv, NEW w \in Worlds, EnqueueSignal(w)
    PROVE  ControlInv'
<1>1. DOMAIN running' = DOMAIN running /\ issued' \in Nat
    BY DEF EnqueueSignal, ControlInv, Shapes
<1>2. UNCHANGED <<home, control, wanted, poll, focus, commands, table>> /\ Stage' = Stage
    BY DEF EnqueueSignal, Stage
<1> QED BY <1>1, <1>2 DEF ControlInv, Shapes, Starting, InUse, Newest, Answered, Entry

-----------------------------------------------------------------------------
\* The pumps: how the list and the stage move.
LEMMA DrainedFacts ==
    ASSUME ControlInv, NEW list, Drained(list)
    PROVE  /\ poll' = [poll EXCEPT !.drained = TRUE, !.todo = list]
           /\ poll'.todo = list /\ poll'.drained /\ poll'.callback = poll.callback /\ poll.todo = <<>>
           /\ poll' = [at |-> poll'.at, drained |-> poll'.drained, todo |-> poll'.todo,
                       callback |-> poll'.callback]
           /\ Stage' = Stage
<1>1. poll' = [poll EXCEPT !.drained = TRUE, !.todo = list] /\ ~poll.drained
    BY DEF Drained
<1>2. poll'.at = poll.at
    BY <1>1 DEF ControlInv, Shapes
<1> QED BY <1>1, <1>2 DEF ControlInv, Shapes, Stage

\* A pump whose stage is not about worlds takes its list.
LEMMA ListSteps ==
    ASSUME ControlInv, NEW list, Drained(list), list \in Seq(Entries(Stage)), Stage # "sessions",
           Stage \in {"signals", "effects"} => list \in Seq(DOMAIN running),
           UNCHANGED <<home, control, running, wanted, issued>>,
           commands' \in Seq(Waiting), Tables(table'),
           focus'.shown = focus.shown, focus'.queued \in Worlds \cup {NoWorld},
           focus' = [queued |-> focus'.queued, shown |-> focus'.shown]
    PROVE  ControlInv'
<1>1. /\ poll'.todo = list /\ poll'.drained /\ poll'.callback = poll.callback /\ poll.todo = <<>>
      /\ poll' = [at |-> poll'.at, drained |-> poll'.drained, todo |-> poll'.todo,
                  callback |-> poll'.callback]
      /\ Stage' = Stage
    BY DrainedFacts
<1>2. poll'.callback # "start"
    BY <1>1 DEF ControlInv, Starting
<1>3. Shapes'
    BY <1>1 DEF ControlInv, Shapes
<1>4. InUse'
    BY <1>1 DEF ControlInv, InUse
<1> QED BY <1>1, <1>2, <1>3, <1>4 DEF ControlInv, Starting, Newest, Answered

LEMMA DrainSteps ==
    ASSUME ControlInv,
           DrainFocus \/ DrainCommands \/ ListWork \/ \E kind \in Kinds : DrainOperations(kind)
    PROVE  ControlInv'
<1>1. CASE DrainFocus
  <2> DEFINE list == IF focus.queued = NoWorld THEN <<>> ELSE <<focus.queued>>
  <2>1. Stage = "focus" /\ Drained(list) /\ Entries(Stage) = Worlds
    BY <1>1 DEF DrainFocus, Entries
  <2>2. list \in Seq(Worlds)
    BY DEF ControlInv, Shapes
  <2>3. /\ focus'.shown = focus.shown /\ focus'.queued = NoWorld
        /\ focus' = [queued |-> focus'.queued, shown |-> focus'.shown]
    BY <1>1 DEF DrainFocus, ControlInv, Shapes
  <2>4. /\ UNCHANGED <<home, control, running, wanted, issued>>
        /\ commands' \in Seq(Waiting) /\ Tables(table')
    BY <1>1 DEF DrainFocus, ControlInv, Shapes
  <2> HIDE DEF list
  <2> QED BY <2>1, <2>2, <2>3, <2>4, ListSteps
<1>2. CASE DrainCommands
  <2>1. Stage = "commands" /\ Drained(commands) /\ Entries(Stage) = Waiting
    BY <1>2 DEF DrainCommands, Entries
  <2>2. /\ UNCHANGED <<home, control, running, wanted, issued, focus>>
        /\ commands \in Seq(Waiting)
        /\ commands' \in Seq(Waiting) /\ Tables(table')
    BY <1>2 DEF DrainCommands, ControlInv, Shapes
  <2> QED BY <2>1, <2>2, ListSteps DEF ControlInv, Shapes
<1>3. CASE ListWork
  <2> DEFINE list == IF Stage = "engine" THEN <<0>> ELSE Sorted(DOMAIN running)
  <2>1. Stage \in {"signals", "effects", "engine"} /\ Drained(list)
    BY <1>3 DEF ListWork
  <2>2. /\ UNCHANGED <<home, control, running, wanted, issued, focus>>
        /\ commands' \in Seq(Waiting) /\ Tables(table')
    BY <1>3 DEF ListWork, ControlInv, Shapes
  <2>3. Sorted(DOMAIN running) \in Seq(DOMAIN running) /\ Sorted(DOMAIN running) \in Seq(Worlds)
    <3>1. Sorted(DOMAIN running) \in Seq(DOMAIN running) /\ DOMAIN running \subseteq Worlds
      BY SortedFacts DEF ControlInv, Shapes
    <3> QED BY <3>1
  <2>4. Stage # "engine" => list \in Seq(DOMAIN running) /\ Entries(Stage) = Worlds /\ list \in Seq(Worlds)
    BY <2>1, <2>3 DEF Entries
  <2>5. Stage = "engine" => list \in Seq({NoWorld}) /\ Entries(Stage) = {NoWorld}
    BY DEF Entries, NoWorld
  <2> HIDE DEF list
  <2> QED BY <2>1, <2>2, <2>4, <2>5, ListSteps DEF ControlInv, Shapes
<1>4. ASSUME NEW kind \in Kinds, DrainOperations(kind) PROVE ControlInv'
  <2>1. Stage = kind /\ Drained(table[kind].queue) /\ Entries(Stage) = Waiting
    BY <1>4 DEF DrainOperations, Entries, Kinds
  <2>2. Stage \notin {"sessions", "signals", "effects"}
    BY <2>1 DEF Kinds
  <2>3. UNCHANGED <<home, control, running, wanted, issued, focus, commands>>
    BY <1>4 DEF DrainOperations
  <2>4. table[kind].queue \in Seq(Waiting)
    BY DEF ControlInv, Shapes, Tables, Table
  <2>5. Tables(table')
    <3> DEFINE t == [queue |-> <<>>, statuses |-> table[kind].statuses, completed |-> table[kind].completed]
    <3>1. table' = [table EXCEPT ![kind] = t]
      <4>1. table = [k \in Kinds |-> table[k]] /\ Table(table[kind])
        BY DEF ControlInv, Shapes, Tables
      <4>2. table' = [table EXCEPT ![kind].queue = <<>>]
        BY <1>4 DEF DrainOperations
      <4>3. table' = [table EXCEPT ![kind] = [table[kind] EXCEPT !.queue = <<>>]]
        BY <4>2
      <4>4. t = [table[kind] EXCEPT !.queue = <<>>]
        BY <4>1 DEF Table
      <4> HIDE DEF t
      <4> QED BY <4>3, <4>4
    <3>2. t.queue = <<>> /\ <<>> \in Seq(Waiting)
      OBVIOUS
    <3>3. Table(t)
      BY <3>2 DEF Table
    <3> HIDE DEF t
    <3> QED BY <3>1, <3>3, TableStep DEF ControlInv, Shapes
  <2> QED BY <2>1, <2>2, <2>3, <2>4, <2>5, ListSteps DEF ControlInv, Shapes
<1> QED BY <1>1, <1>2, <1>3, <1>4

\* The sessions pump takes its list: what was queued is now being worked on.
LEMMA SessionDrain ==
    ASSUME ControlInv, DrainSessions
    PROVE  ControlInv'
<1> DEFINE P == DOMAIN control.pending
           worlds == Sorted(P)
           list == [i \in DOMAIN worlds |-> <<worlds[i], control.pending[worlds[i]]>>]
<1>1. Stage = "sessions" /\ Drained(list) /\ Entries(Stage) = Worlds \X BOOLEAN
  BY DEF DrainSessions, Entries
<1>2. P \subseteq Worlds /\ \A w \in P : control.pending[w] \in BOOLEAN
  BY DEF ControlInv, Shapes, Newest
<1>3. worlds \in Seq(P) /\ \A w \in P : \E i \in DOMAIN worlds : worlds[i] = w
  BY <1>2, SortedFacts
<1> HIDE DEF worlds
<1>4. \A i \in DOMAIN worlds : worlds[i] \in P
  BY <1>3
<1>5. list \in Seq(Worlds \X BOOLEAN)
  BY <1>2, <1>3, <1>4
<1>6. /\ DOMAIN list = DOMAIN worlds
      /\ \A i \in DOMAIN list : list[i][1] = worlds[i] /\ list[i][2] = control.pending[worlds[i]]
  OBVIOUS
<1> HIDE DEF list
<1>7. /\ control'.active = control.active /\ control'.failed = control.failed
      /\ DOMAIN control'.pending = {}
      /\ control' = [active |-> control'.active, pending |-> control'.pending, failed |-> control'.failed]
  BY DEF DrainSessions, ControlInv, Shapes
<1>8. UNCHANGED <<home, running, commands, table, focus, issued, wanted>>
  BY DEF DrainSessions
<1>9. /\ poll'.todo = list /\ poll'.drained /\ poll'.callback = poll.callback /\ poll.todo = <<>>
      /\ poll' = [at |-> poll'.at, drained |-> poll'.drained, todo |-> poll'.todo,
                  callback |-> poll'.callback]
      /\ Stage' = Stage
  BY <1>1, DrainedFacts
<1>10. Shapes'
  BY <1>1, <1>5, <1>7, <1>8, <1>9 DEF ControlInv, Shapes
<1>11. Starting' /\ InUse'
  BY <1>1, <1>7, <1>8, <1>9 DEF ControlInv, Starting, InUse
<1>12. Newest'
  BY <1>4, <1>6, <1>7, <1>8, <1>9 DEF ControlInv, Newest
<1>13. Answered'
  <2>1. \A w \in P : \E i \in DOMAIN poll'.todo : poll'.todo[i][1] = w
    BY <1>3, <1>6, <1>9
  <2>2. DOMAIN poll.todo = {}
    BY <1>9
  <2> QED BY <2>1, <2>2, <1>1, <1>7, <1>8, <1>9 DEF ControlInv, Answered
<1> QED BY <1>10, <1>11, <1>12, <1>13 DEF ControlInv

\* A session request is through: the world is as it was asked to be, or failed.
LEMMA SessionDone ==
    ASSUME ControlInv, NEW b \in BOOLEAN, NEW failed \in BOOLEAN,
           Stage = "sessions", poll.drained, poll.todo # <<>>,
           control' = Recorded(Entry[1], b, failed),
           DOMAIN running' = IF b THEN DOMAIN running \cup {Entry[1]} ELSE DOMAIN running \ {Entry[1]},
           b => Entry[1] \in home.now,
           failed \/ Entry[2] = b,
           focus' = focus \/ focus' = Unfocused(Entry[1]),
           focus' = focus => focus.shown # Entry[1] \/ b,
           poll' = [poll EXCEPT !.callback = poll'.callback, !.todo = Tail(@)],
           poll'.callback = NoCallback,
           UNCHANGED <<home, up, commands, table, issued, wanted>>
    PROVE  ControlInv'
<1> DEFINE w == Entry[1]
<1>1. /\ poll.todo \in Seq(Worlds \X BOOLEAN) /\ poll.todo # <<>> /\ Entry = Head(poll.todo)
  BY DEF ControlInv, Shapes, Entries, Entry
<1>2. /\ Tail(poll.todo) \in Seq(Worlds \X BOOLEAN)
      /\ Entry = poll.todo[1] /\ Entry \in Worlds \X BOOLEAN
      /\ \A i \in DOMAIN Tail(poll.todo) :
            i + 1 \in DOMAIN poll.todo /\ Tail(poll.todo)[i] = poll.todo[i + 1]
      /\ \A i \in DOMAIN poll.todo : i # 1 =>
            i - 1 \in DOMAIN Tail(poll.todo) /\ Tail(poll.todo)[i - 1] = poll.todo[i]
      /\ 1 \in DOMAIN poll.todo
  BY <1>1, TailFacts
<1>3. w \in Worlds
  BY <1>2
<1>4. /\ poll'.todo = Tail(poll.todo) /\ poll'.drained = poll.drained /\ poll'.at = poll.at
      /\ poll' = [at |-> poll'.at, drained |-> poll'.drained, todo |-> poll'.todo,
                  callback |-> poll'.callback]
  BY DEF ControlInv, Shapes
<1>5. Stage' = Stage
  BY <1>4 DEF Stage
<1>6. /\ control'.active = IF b THEN control.active \cup {w} ELSE control.active \ {w}
      /\ control'.pending = control.pending
      /\ control'.failed = IF failed THEN control.failed \cup {w} ELSE control.failed \ {w}
      /\ control' = [active |-> control'.active, pending |-> control'.pending, failed |-> control'.failed]
  BY DEF Recorded
<1>7. /\ focus' = [queued |-> focus'.queued, shown |-> focus'.shown]
      /\ focus'.queued = focus.queued
      /\ focus'.shown \in DOMAIN running' \cup {NoWorld}
  BY DEF Unfocused, ControlInv, Shapes, InUse, NoWorld
<1> HIDE DEF w
<1>8. Shapes'
  <2>1. Entries(Stage) = Worlds \X BOOLEAN
    BY DEF Entries
  <2>2. DOMAIN running' \subseteq Worlds
    BY <1>3 DEF ControlInv, Shapes, w
  <2> QED BY <1>2, <1>4, <1>5, <1>6, <1>7, <2>1, <2>2 DEF ControlInv, Shapes
<1>9. Starting'
  BY DEF Starting, NoCallback
<1>10. InUse'
  BY <1>5, <1>6, <1>7 DEF ControlInv, InUse, w
<1>11. Newest'
  <2>1. UNCHANGED <<wanted, home>> /\ control'.pending = control.pending BY <1>6
  <2>2. \A j \in DOMAIN poll'.todo : poll'.todo[j] \in {poll.todo[i] : i \in DOMAIN poll.todo}
    BY <1>2, <1>4
  <2>3. Newest BY DEF ControlInv
  <2> QED BY ONLY <2>1, <2>2, <2>3, <1>5 DEF Newest
<1>12. Answered'
  <2> SUFFICES ASSUME NEW v \in DOMAIN wanted \cap home.now
               PROVE  \/ v \in DOMAIN control.pending
                      \/ \E i \in DOMAIN poll'.todo : poll'.todo[i][1] = v
                      \/ v \in control'.failed
                      \/ wanted[v] = (v \in DOMAIN running')
    BY <1>5, <1>6 DEF Answered
  <2>1. CASE v = w
    <3>1. v \in DOMAIN control.pending \/ Entry[2] = wanted[v]
      BY <2>1, <1>2 DEF ControlInv, Newest, w
    <3>2. CASE failed
      BY <3>2, <2>1, <1>6
    <3>3. CASE ~failed
      <4>1. Entry[2] = b /\ (b <=> v \in DOMAIN running') /\ (v \in DOMAIN running') \in BOOLEAN
        BY <3>3, <2>1 DEF w
      <4> QED BY <3>1, <4>1
    <3> QED BY <3>2, <3>3
  <2>2. CASE v # w
    <3>1. v \in DOMAIN running' <=> v \in DOMAIN running
      BY <2>2 DEF w
    <3>2. v \in control.failed => v \in control'.failed
      BY <2>2, <1>6
    <3>3. ASSUME NEW i \in DOMAIN poll.todo, poll.todo[i][1] = v
          PROVE  \E j \in DOMAIN poll'.todo : poll'.todo[j][1] = v
      <4>1. i # 1
        BY <3>3, <2>2, <1>2 DEF w
      <4>2. i - 1 \in DOMAIN poll'.todo /\ poll'.todo[i - 1] = poll.todo[i]
        BY <4>1, <1>2, <1>4
      <4> QED BY <3>3, <4>2
    <3> QED BY <3>1, <3>2, <3>3 DEF ControlInv, Answered
  <2> QED BY <2>1, <2>2
<1> QED BY <1>8, <1>9, <1>10, <1>11, <1>12 DEF ControlInv

LEMMA EntryWorld ==
    ASSUME ControlInv, Stage = "sessions", poll.todo # <<>>
    PROVE  Entry[1] \in Worlds /\ Entry[1] # NoWorld
<1>1. poll.todo \in Seq(Worlds \X BOOLEAN)
  BY DEF ControlInv, Shapes, Entries
<1>2. Entry \in Worlds \X BOOLEAN
  BY <1>1, TailFacts DEF Entry
<1> QED BY <1>2, WorldsAssumption DEF NoWorld

LEMMA SessionSteps ==
    ASSUME ControlInv, NEW w \in Worlds,
           SessionAsWanted \/ ActivateFails(w) \/ ActivateRest(w) \/ Deactivate(w)
    PROVE  ControlInv'
<1>1. CASE SessionAsWanted
  <2>1. /\ Stage = "sessions" /\ poll.drained /\ poll.todo # <<>> /\ poll.callback = NoCallback
        /\ Entry[2] = (Entry[1] \in DOMAIN running)
        /\ control' = Recorded(Entry[1], Entry[2], FALSE)
        /\ poll' = [poll EXCEPT !.todo = Tail(@)]
        /\ UNCHANGED <<home, up, commands, table, issued, wanted, running, focus>>
    BY <1>1 DEF SessionAsWanted, Working, Done
  <2>2. Entry[2] \in BOOLEAN
    BY <2>1
  <2>3. /\ poll'.callback = NoCallback
        /\ poll' = [poll EXCEPT !.callback = poll'.callback, !.todo = Tail(@)]
    BY <2>1 DEF ControlInv, Shapes
  <2>4. /\ DOMAIN running' = IF Entry[2] THEN DOMAIN running \cup {Entry[1]} ELSE DOMAIN running \ {Entry[1]}
        /\ Entry[2] => Entry[1] \in home.now
    BY <2>1 DEF ControlInv, InUse
  <2>5. focus.shown # Entry[1] \/ Entry[2]
    BY <2>1, EntryWorld DEF ControlInv, InUse
  <2> QED BY <2>1, <2>2, <2>3, <2>4, <2>5, SessionDone
<1>2. CASE ActivateFails(w)
  <2>1. /\ Stage = "sessions" /\ poll.drained /\ poll.todo # <<>> /\ poll.callback = NoCallback
        /\ Entry[1] = w /\ Entry[1] \notin DOMAIN running
        /\ control' = Recorded(Entry[1], FALSE, TRUE)
        /\ poll' = [poll EXCEPT !.todo = Tail(@)]
        /\ UNCHANGED <<home, up, commands, table, issued, wanted, running, focus>>
    BY <1>2 DEF ActivateFails, Activating, Working, Done
  <2>2. /\ poll'.callback = NoCallback
        /\ poll' = [poll EXCEPT !.callback = poll'.callback, !.todo = Tail(@)]
    BY <2>1 DEF ControlInv, Shapes
  <2>3. focus.shown # Entry[1]
    BY <2>1, EntryWorld DEF ControlInv, InUse
  <2> QED BY <2>1, <2>2, <2>3, SessionDone
<1>3. CASE ActivateRest(w)
  <2>1. /\ poll.callback = "start" /\ Entry[1] = w
        /\ poll' = [poll EXCEPT !.callback = NoCallback, !.todo = Tail(@)]
        /\ UNCHANGED <<home, up, commands, table, issued, wanted, focus>>
    BY <1>3 DEF ActivateRest
  <2>2. Stage = "sessions" /\ poll.todo # <<>> /\ poll.drained /\ Entry[2] = TRUE
    BY <2>1 DEF ControlInv, Starting, Shapes
  <2>3. /\ poll'.callback = NoCallback
        /\ poll' = [poll EXCEPT !.callback = poll'.callback, !.todo = Tail(@)]
    BY <2>1 DEF ControlInv, Shapes
  <2>4. CASE w \in home.now /\ running' = Put(running, w, 0) /\ control' = Recorded(w, TRUE, FALSE)
    <3>1. DOMAIN running' = DOMAIN running \cup {Entry[1]}
      BY <2>1, <2>4 DEF Put
    <3> QED BY <2>1, <2>2, <2>3, <2>4, <3>1, SessionDone
  <2>5. CASE running' = running /\ control' = Recorded(w, FALSE, TRUE)
    <3>1. focus.shown # Entry[1] /\ Entry[1] \notin DOMAIN running
      BY <2>1, <2>2, EntryWorld DEF ControlInv, Starting, InUse
    <3> QED BY <2>1, <2>2, <2>3, <2>5, <3>1, SessionDone
  <2> QED BY <1>3, <2>4, <2>5 DEF ActivateRest, Openable
<1>4. CASE Deactivate(w)
  <2>1. /\ Stage = "sessions" /\ poll.drained /\ poll.todo # <<>> /\ poll.callback = NoCallback
        /\ Entry[1] = w /\ Entry[2] = FALSE
        /\ running' = Without(running, w)
        /\ focus' = Unfocused(w)
        /\ poll' = [poll EXCEPT !.todo = Tail(@)]
        /\ UNCHANGED <<home, up, commands, table, issued, wanted>>
    BY <1>4 DEF Deactivate, Working, Done
  <2>2. PICK failed \in BOOLEAN : control' = Recorded(w, FALSE, failed)
    BY <1>4 DEF Deactivate
  <2>3. /\ poll'.callback = NoCallback
        /\ poll' = [poll EXCEPT !.callback = poll'.callback, !.todo = Tail(@)]
    BY <2>1 DEF ControlInv, Shapes
  <2>4. DOMAIN running' = DOMAIN running \ {Entry[1]}
    BY <2>1 DEF Without
  <2>5. focus' = focus => focus.shown # Entry[1]
    BY <2>1, EntryWorld DEF Unfocused, ControlInv, Shapes
  <2> QED BY <2>1, <2>2, <2>3, <2>4, <2>5, SessionDone
<1> QED BY <1>1, <1>2, <1>3, <1>4

-----------------------------------------------------------------------------
\* A pump other than the sessions pump takes the next entry, or its callback begins.
LEMMA PumpDone ==
    ASSUME ControlInv, Stage # "sessions", poll.todo # <<>>, poll.drained,
           poll'.todo \in {poll.todo, Tail(poll.todo)}, poll'.callback # "start",
           poll'.at = poll.at, poll'.drained = poll.drained,
           poll' = [at |-> poll'.at, drained |-> poll'.drained, todo |-> poll'.todo,
                    callback |-> poll'.callback],
           UNCHANGED <<home, control, wanted, issued, commands>>,
           DOMAIN running' = DOMAIN running,
           Tables(table'),
           focus' = focus \/ focus' = [queued |-> focus.queued, shown |-> focus'.shown],
           focus'.shown \in DOMAIN running \cup {NoWorld}
    PROVE  ControlInv'
<1>1. poll.todo \in Seq(Entries(Stage))
  BY DEF ControlInv, Shapes
<1>2. /\ Tail(poll.todo) \in Seq(Entries(Stage))
      /\ \A i \in DOMAIN Tail(poll.todo) :
            i + 1 \in DOMAIN poll.todo /\ Tail(poll.todo)[i] = poll.todo[i + 1]
  BY <1>1, TailFacts
<1>3. Stage' = Stage
  BY DEF Stage
<1>4. Shapes'
  <2>1. poll'.todo \in Seq(Entries(Stage))
    BY <1>1, <1>2
  <2>2. /\ focus = [queued |-> focus.queued, shown |-> focus.shown]
        /\ focus.queued \in Worlds \cup {NoWorld}
    BY DEF ControlInv, Shapes
  <2>3. /\ focus' = [queued |-> focus'.queued, shown |-> focus'.shown]
        /\ focus'.queued \in Worlds \cup {NoWorld}
    BY <2>2
  <2> QED BY <1>3, <2>1, <2>3 DEF ControlInv, Shapes
<1>5. InUse'
  BY <1>1, <1>2, <1>3 DEF ControlInv, InUse
<1> QED BY <1>3, <1>4, <1>5 DEF ControlInv, Starting, Newest, Answered

LEMMA PumpSteps ==
    ASSUME ControlInv,
           \/ PumpFocus \/ PumpCommand \/ PumpSignal \/ PumpEffects \/ PollEngine
           \/ \E kind \in Kinds : PumpOperation(kind)
    PROVE  ControlInv'
<1>1. /\ poll = [at |-> poll.at, drained |-> poll.drained, todo |-> poll.todo, callback |-> poll.callback]
      /\ focus = [queued |-> focus.queued, shown |-> focus.shown]
      /\ focus.shown \in DOMAIN running \cup {NoWorld}
      /\ Tables(table)
  BY DEF ControlInv, Shapes, InUse
<1>2. CASE PumpFocus
  <2>1. /\ Stage = "focus" /\ poll.drained /\ poll.todo # <<>> /\ poll.callback = NoCallback
        /\ poll' = [poll EXCEPT !.todo = Tail(@)]
        /\ UNCHANGED <<home, control, running, commands, table, issued, wanted>>
    BY <1>2 DEF PumpFocus, Working, Done
  <2>2. /\ poll'.todo = Tail(poll.todo) /\ poll'.callback # "start"
        /\ poll'.at = poll.at /\ poll'.drained = poll.drained
        /\ poll' = [at |-> poll'.at, drained |-> poll'.drained, todo |-> poll'.todo,
                    callback |-> poll'.callback]
    BY <2>1, <1>1 DEF NoCallback
  <2>3. /\ focus' = focus \/ focus' = [queued |-> focus.queued, shown |-> focus'.shown]
        /\ focus'.shown \in DOMAIN running \cup {NoWorld}
    <3>1. CASE Entry \in DOMAIN running /\ focus' = [focus EXCEPT !.shown = Entry]
      BY <3>1, <1>1
    <3>2. CASE focus' = focus
      BY <3>2, <1>1
    <3> QED BY <1>2, <3>1, <3>2 DEF PumpFocus
  <2> QED BY <1>1, <2>1, <2>2, <2>3, PumpDone
<1>3. CASE PumpCommand \/ PumpEffects \/ PollEngine
  <2>1. /\ Stage \in {"commands", "effects", "engine"} /\ poll.drained /\ poll.todo # <<>>
        /\ UNCHANGED <<home, control, running, commands, table, focus, issued, wanted>>
    BY <1>3 DEF PumpCommand, PumpEffects, PollEngine, Working, Done
  <2>2. \/ poll.callback = NoCallback /\ poll' = [poll EXCEPT !.todo = Tail(@)]
        \/ poll' = [poll EXCEPT !.todo = Tail(@), !.callback = "event"]
        \/ poll' = [poll EXCEPT !.todo = Tail(@), !.callback = "task"]
    BY <1>3 DEF PumpCommand, PumpEffects, PollEngine, Working, Done
  <2>3. /\ poll'.todo = Tail(poll.todo) /\ poll'.callback # "start"
        /\ poll'.at = poll.at /\ poll'.drained = poll.drained
        /\ poll' = [at |-> poll'.at, drained |-> poll'.drained, todo |-> poll'.todo,
                    callback |-> poll'.callback]
    BY <2>2, <1>1 DEF NoCallback
  <2> QED BY <1>1, <2>1, <2>3, PumpDone
<1>4. CASE PumpSignal
  <2>1. /\ Stage = "signals" /\ poll.drained /\ poll.todo # <<>> /\ poll.callback = NoCallback
        /\ UNCHANGED <<home, control, commands, table, focus, issued, wanted>>
        /\ DOMAIN running' = DOMAIN running
        /\ \/ poll' = [poll EXCEPT !.todo = Tail(@)]
           \/ poll' = [poll EXCEPT !.callback = "signal"]
    BY <1>4 DEF PumpSignal, Working, Done, Call
  <2>2. /\ poll'.todo \in {poll.todo, Tail(poll.todo)} /\ poll'.callback # "start"
        /\ poll'.at = poll.at /\ poll'.drained = poll.drained
        /\ poll' = [at |-> poll'.at, drained |-> poll'.drained, todo |-> poll'.todo,
                    callback |-> poll'.callback]
    BY <2>1, <1>1 DEF NoCallback
  <2> QED BY <1>1, <2>1, <2>2, PumpDone
<1>5. ASSUME NEW kind \in Kinds, PumpOperation(kind) PROVE ControlInv'
  <2>1. /\ Stage = kind /\ poll.drained /\ poll.todo # <<>> /\ poll.callback = NoCallback
        /\ poll' = [poll EXCEPT !.todo = Tail(@)]
        /\ UNCHANGED <<home, control, running, commands, focus, issued, wanted>>
    BY <1>5 DEF PumpOperation, Working, Done
  <2>2. PICK result \in {"succeeded", "failed"} :
            table' = [table EXCEPT ![kind].statuses[Entry.id] = result,
                                   ![kind].completed = Append(@, Entry.id)]
    BY <1>5 DEF PumpOperation
  <2>3. Tables(table')
    <3> DEFINE t == [queue |-> table[kind].queue,
                     statuses |-> [table[kind].statuses EXCEPT ![Entry.id] = result],
                     completed |-> Append(table[kind].completed, Entry.id)]
    <3>1. table' = [table EXCEPT ![kind] = t]
      <4>1. table = [k \in Kinds |-> table[k]] /\ Table(table[kind])
        BY <1>1 DEF Tables
      <4>2. table' = [table EXCEPT ![kind] =
                         [[table[kind] EXCEPT !.statuses = [@ EXCEPT ![Entry.id] = result]]
                                       EXCEPT !.completed = Append(@, Entry.id)]]
        BY <2>2, <4>1
      <4>3. t = [[table[kind] EXCEPT !.statuses = [@ EXCEPT ![Entry.id] = result]]
                              EXCEPT !.completed = Append(@, Entry.id)]
        <5> DEFINE done == [table[kind].statuses EXCEPT ![Entry.id] = result]
                   u == [table[kind] EXCEPT !.statuses = done]
        <5>1. table[kind] = [queue |-> table[kind].queue, statuses |-> table[kind].statuses,
                             completed |-> table[kind].completed]
          BY <4>1 DEF Table
        <5> HIDE DEF done
        <5>2. u = [queue |-> table[kind].queue, statuses |-> done, completed |-> table[kind].completed]
          BY <5>1
        <5> HIDE DEF u
        <5> DEFINE c == Append(u.completed, Entry.id)
        <5>3. u.completed = table[kind].completed
          BY <5>2
        <5>4. c = Append(table[kind].completed, Entry.id)
          BY <5>3
        <5> HIDE DEF c
        <5>5. [u EXCEPT !.completed = c]
              = [queue |-> table[kind].queue, statuses |-> done, completed |-> c]
          BY <5>2
        <5> QED BY <5>4, <5>5 DEF done, u, c
      <4> HIDE DEF t
      <4> QED BY <4>2, <4>3
    <3>2. Table(t)
      BY DEF ControlInv, Shapes, Tables, Table
    <3> HIDE DEF t
    <3> QED BY <3>1, <3>2, TableStep DEF ControlInv, Shapes
  <2>4. Stage # "sessions"
    BY <2>1 DEF Kinds
  <2>5. /\ poll'.todo = Tail(poll.todo) /\ poll'.callback # "start"
        /\ poll'.at = poll.at /\ poll'.drained = poll.drained
        /\ poll' = [at |-> poll'.at, drained |-> poll'.drained, todo |-> poll'.todo,
                    callback |-> poll'.callback]
    BY <2>1, <1>1 DEF NoCallback
  <2> QED BY <1>1, <2>1, <2>3, <2>4, <2>5, PumpDone
<1> QED BY <1>2, <1>3, <1>4, <1>5

\* The loop begins a poll, goes to its next pump, and callbacks begin and return.
LEMMA LoopSteps ==
    ASSUME ControlInv, StartPoll \/ NextStage \/ Return \/ \E w \in Worlds : ActivateStart(w)
    PROVE  ControlInv'
<1>1. CASE StartPoll \/ NextStage
  <2>1. /\ poll.todo = <<>> /\ poll'.todo = <<>> /\ poll'.drained = FALSE /\ poll'.callback = NoCallback
        /\ poll' = [at |-> poll'.at, drained |-> poll'.drained, todo |-> poll'.todo,
                    callback |-> poll'.callback]
        /\ UNCHANGED <<home, control, running, commands, table, focus, issued, wanted>>
    BY <1>1 DEF StartPoll, NextStage, Between, ControlInv, Shapes
  <2>2. DOMAIN poll.todo = {} /\ DOMAIN poll'.todo = {} /\ poll'.todo \in Seq(Entries(Stage)')
    BY <2>1
  <2>3. Shapes'
    BY <2>1, <2>2 DEF ControlInv, Shapes
  <2>4. Starting' /\ InUse'
    BY <2>1, <2>2 DEF ControlInv, Starting, InUse, NoCallback
  <2>5. Newest' /\ Answered'
    BY <2>1, <2>2 DEF ControlInv, Newest, Answered
  <2> QED BY <2>3, <2>4, <2>5 DEF ControlInv
<1>2. CASE Return \/ \E w \in Worlds : ActivateStart(w)
  <2>1. /\ poll'.todo = poll.todo /\ poll'.drained = poll.drained /\ poll'.at = poll.at
        /\ poll' = [at |-> poll'.at, drained |-> poll'.drained, todo |-> poll'.todo,
                    callback |-> poll'.callback]
        /\ UNCHANGED <<home, control, running, commands, table, focus, issued, wanted>>
    BY <1>2 DEF Return, ActivateStart, Call, ControlInv, Shapes
  <2>2. Stage' = Stage
    BY <2>1 DEF Stage
  <2>3. Starting'
    <3>1. CASE Return
      BY <3>1 DEF Return, Starting, NoCallback, ControlInv, Shapes
    <3>2. CASE \E w \in Worlds : ActivateStart(w)
      <4>1. Stage = "sessions" /\ poll.todo # <<>> /\ Entry[2] = TRUE /\ Entry[1] \notin DOMAIN running
        BY <3>2 DEF ActivateStart, Activating, Working
      <4> QED BY <4>1, <2>1, <2>2 DEF Starting, Entry
    <3> QED BY <1>2, <3>1, <3>2
  <2> QED BY <2>1, <2>2, <2>3 DEF ControlInv, Shapes, InUse, Newest, Answered
<1> QED BY <1>1, <1>2

\* The host comes and goes; of what it held only the home is left.
LEMMA HostSteps ==
    ASSUME ControlInv, Boot \/ Down
    PROVE  ControlInv'
<1>1. CASE Boot
  BY <1>1 DEF Boot, ControlInv, Shapes, Starting, InUse, Newest, Answered, Stage, Entry
<1>2. CASE Down
  <2>1. home' = home /\ issued' = issued
    BY <1>2 DEF Down
  <2>2. /\ commands' = <<>> /\ poll' = Between /\ running' = <<>> /\ wanted' = <<>>
        /\ table' = NoOperations /\ control' = NoSessions /\ focus' = NoFocus
    BY <1>2 DEF Down
  <2>3. /\ poll'.todo = <<>> /\ poll'.callback # "start" /\ Stage' = "between"
        /\ DOMAIN control'.pending = {} /\ DOMAIN running' = {} /\ DOMAIN wanted' = {}
        /\ control'.active = {}
    BY <2>2 DEF Between, Stage, NoCallback, NoSessions
  <2>4. <<>> \in Seq(Waiting) /\ poll'.todo \in Seq(Entries(Stage)')
    BY <2>3
  <2>5. Shapes'
    <3> DEFINE Lists == Seq(Waiting)
    <3>1. <<>> \in Lists
      BY <2>4
    <3> HIDE DEF Lists
    <3>2. commands' \in Lists /\ Tables(table')
      BY <2>2, <3>1, TablesEmpty
    <3>3. control' = [active |-> control'.active, pending |-> control'.pending, failed |-> control'.failed]
      BY <2>2 DEF NoSessions
    <3>4. focus' = [queued |-> focus'.queued, shown |-> focus'.shown] /\ focus'.queued = NoWorld
      BY <2>2 DEF NoFocus
    <3>5. poll' = [at |-> poll'.at, drained |-> poll'.drained, todo |-> poll'.todo,
                   callback |-> poll'.callback]
      BY <2>2 DEF Between
    <3> QED BY <2>1, <2>3, <2>4, <3>2, <3>3, <3>4, <3>5 DEF ControlInv, Shapes, Lists
  <2> QED BY <2>2, <2>3, <2>5 DEF ControlInv, Starting, InUse, Newest, Answered, NoFocus
<1> QED BY <1>1, <1>2

LEMMA NextInv == ASSUME ControlInv, [Next]_vars PROVE ControlInv'
<1>1. CASE Boot \/ Down
  BY <1>1, HostSteps
<1>2. CASE Request \/ RequestContent
  <2>1. ASSUME NEW w \in Worlds, CreateWorld(w) \/ DeleteWorld(w) PROVE ControlInv'
    BY <2>1, HomeSteps
  <2>2. ASSUME NEW w \in Worlds, NEW active \in BOOLEAN, RequestActive(w, active) PROVE ControlInv'
    BY <2>2, SessionRequest
  <2>3. ASSUME NEW w \in Worlds, RequestCommand(w) \/ RequestFocus(w) PROVE ControlInv'
    <3>1. "content" \in Kinds
      BY DEF Kinds
    <3> QED BY <2>3, <3>1, QueueRequests
  <2>4. ASSUME NEW w \in Worlds \cup {NoWorld}, NEW kind \in Kinds, RequestOperation(kind, w)
        PROVE  ControlInv'
    BY <2>4, QueueRequests
  <2>5. CASE RequestContent
    BY <2>5, <2>4 DEF RequestContent, Kinds
  <2> QED BY <1>2, <2>1, <2>2, <2>3, <2>4, <2>5 DEF Request
<1>3. CASE \E w \in Worlds : EnqueueSignal(w)
  BY <1>3, SignalSteps
<1>4. CASE LoopStep
  <2>1. CASE StartPoll \/ NextStage \/ Return \/ \E w \in Worlds : ActivateStart(w)
    BY <2>1, LoopSteps
  <2>2. CASE DrainSessions
    BY <2>2, SessionDrain
  <2>3. CASE DrainFocus \/ DrainCommands \/ ListWork \/ \E kind \in Kinds : DrainOperations(kind)
    BY <2>3, DrainSteps
  <2>4. CASE SessionAsWanted
    <3>1. Stage = "sessions" /\ poll.todo # <<>>
      BY <2>4 DEF SessionAsWanted, Working
    <3> QED BY <2>4, <3>1, EntryWorld, SessionSteps
  <2>5. CASE \E w \in Worlds : ActivateFails(w) \/ ActivateRest(w) \/ Deactivate(w)
    BY <2>5, SessionSteps
  <2>6. CASE \/ PumpFocus \/ PumpCommand \/ PumpSignal \/ PumpEffects \/ PollEngine
             \/ \E kind \in Kinds : PumpOperation(kind)
    BY <2>6, PumpSteps
  <2> QED BY <1>4, <2>1, <2>2, <2>3, <2>4, <2>5, <2>6 DEF LoopStep
<1>5. CASE UNCHANGED vars
  BY <1>5 DEF vars, ControlInv, Shapes, Starting, InUse, Newest, Answered, Stage, Entry
<1> QED BY <1>1, <1>2, <1>3, <1>4, <1>5 DEF Next

\* The inductive invariant, for any worlds, capacities and requests.
THEOREM ControlInvHolds == Spec => []ControlInv
<1> QED BY InitInv, NextInv, PTL DEF Spec

\* Whatever callbacks ask for in the middle of a poll, deletion of worlds included, no
\* running world loses its files, the layer shows and the pumps visit running worlds only
\* (set_active, delete_inactive, poll_runtime).
THEOREM WorldsInUseStayWhole == Spec => []WorldsInUseExist
<1>1. ControlInv => WorldsInUseExist
  BY DEF ControlInv, InUse, WorldsInUseExist, Taken, ToSet
<1> QED BY <1>1, ControlInvHolds, PTL

\* A request to start or stop a world is queued, being worked on, carried out or reported as
\* failed, however requests and transitions interleave (drain_pending, record_outcome).
THEOREM SessionRequestsAreAnswered == Spec => []RequestsAreAnswered
<1>1. ControlInv => RequestsAreAnswered
  BY DEF ControlInv, Answered, RequestsAreAnswered, Taken
<1> QED BY <1>1, ControlInvHolds, PTL

-----------------------------------------------------------------------------
(* Deferred work: an operation waits in its queue, is in its pump's hands or is *)
(* done; commands keep the order they were accepted in.                     *)

Pending(statuses) == {id \in DOMAIN statuses : statuses[id] = "pending"}

\* One kind of operation: its table, what its pump has in hand, and the number of
\* requests made so far.
Tracked(queue, statuses, completed, hand, n) ==
    /\ queue \in Seq(Waiting) /\ hand \in Seq(Waiting) /\ completed \in Seq(Nat)
    /\ DOMAIN statuses \subseteq 1 .. n
    /\ IsFiniteSet(DOMAIN statuses) /\ Cardinality(DOMAIN statuses) <= Retained
    /\ \A i \in DOMAIN queue : queue[i].id \in Pending(statuses)
    /\ \A i \in DOMAIN hand : hand[i].id \in Pending(statuses)
    /\ \A id \in Pending(statuses) :
          (\E i \in DOMAIN queue : queue[i].id = id) \/ (\E i \in DOMAIN hand : hand[i].id = id)
    /\ \A i \in DOMAIN completed : completed[i] \in DOMAIN statuses \ Pending(statuses)
    /\ \A id \in DOMAIN statuses \ Pending(statuses) : \E i \in DOMAIN completed : completed[i] = id
    /\ \A i, j \in DOMAIN queue : queue[i].id = queue[j].id => i = j
    /\ \A i, j \in DOMAIN hand : hand[i].id = hand[j].id => i = j
    /\ \A i \in DOMAIN queue : \A j \in DOMAIN hand : queue[i].id # hand[j].id
    /\ \A i, j \in DOMAIN completed : completed[i] = completed[j] => i = j

LEMMA AppendFacts ==
    ASSUME NEW S, NEW s \in Seq(S), NEW x \in S
    PROVE  /\ Append(s, x) \in Seq(S)
           /\ \A i \in DOMAIN s : i \in DOMAIN Append(s, x) /\ Append(s, x)[i] = s[i]
           /\ Len(s) + 1 \in DOMAIN Append(s, x) /\ Append(s, x)[Len(s) + 1] = x
           /\ Len(s) + 1 \notin DOMAIN s
           /\ DOMAIN Append(s, x) = DOMAIN s \cup {Len(s) + 1}
OBVIOUS

LEMMA TrackEmpty == ASSUME NEW n \in Nat PROVE Tracked(<<>>, <<>>, <<>>, <<>>, n)
<1> DEFINE e == <<>>
<1>1. e \in Seq(Waiting) /\ e \in Seq(Nat) /\ DOMAIN e = {}
  OBVIOUS
<1>2. IsFiniteSet({}) /\ Cardinality({}) = 0
  BY FS_EmptySet
<1> HIDE DEF e
<1>3. Tracked(e, e, e, e, n)
  BY <1>1, <1>2, CapacityAssumption DEF Tracked, Pending
<1> QED BY <1>3 DEF e

LEMMA TrackLater ==
    ASSUME NEW n \in Nat, NEW m \in Nat, n <= m, NEW q, NEW s, NEW c, NEW h, Tracked(q, s, c, h, n)
    PROVE  Tracked(q, s, c, h, m)
<1>1. 1 .. n \subseteq 1 .. m
  OBVIOUS
<1> QED BY <1>1 DEF Tracked

\* The pump takes the queue in its hands.
LEMMA TrackDrain ==
    ASSUME NEW n \in Nat, NEW q, NEW s, NEW c, Tracked(q, s, c, <<>>, n)
    PROVE  Tracked(<<>>, s, c, q, n)
<1> DEFINE e == <<>>
<1>1. DOMAIN e = {} /\ e \in Seq(Waiting)
  OBVIOUS
<1>2. Tracked(q, s, c, e, n)
  OBVIOUS
<1> HIDE DEF e
<1>3. Tracked(e, s, c, q, n)
  BY <1>1, <1>2 DEF Tracked
<1> QED BY <1>3 DEF e

\* The oldest completed one is forgotten.
LEMMA TrackEvict ==
    ASSUME NEW n \in Nat, NEW q, NEW s, NEW c, NEW h, Tracked(q, s, c, h, n), c # <<>>
    PROVE  /\ Tracked(q, Without(s, Head(c)), Tail(c), h, n)
           /\ Cardinality(DOMAIN Without(s, Head(c))) < Retained
<1> DEFINE x == Head(c)
           r == Without(s, x)
           d == Tail(c)
<1>1. /\ d \in Seq(Nat) /\ x = c[1] /\ 1 \in DOMAIN c
      /\ \A i \in DOMAIN d : i + 1 \in DOMAIN c /\ d[i] = c[i + 1] /\ i + 1 # 1
      /\ \A i \in DOMAIN c : i # 1 => i - 1 \in DOMAIN d /\ d[i - 1] = c[i]
      /\ \A i, j \in DOMAIN d : i + 1 = j + 1 => i = j
  BY DEF Tracked
<1>2. /\ DOMAIN r = DOMAIN s \ {x} /\ \A id \in DOMAIN r : r[id] = s[id]
      /\ x \in DOMAIN s /\ x \notin Pending(s)
  BY <1>1 DEF Without, Tracked
<1>3. Pending(r) = Pending(s)
  BY <1>2 DEF Pending
<1> HIDE DEF x, d, r
<1>4. IsFiniteSet(DOMAIN r) /\ Cardinality(DOMAIN r) = Cardinality(DOMAIN s) - 1
  BY <1>2, FS_RemoveElement DEF Tracked
<1>5. Cardinality(DOMAIN r) < Retained
  <2>1. Cardinality(DOMAIN s) \in Nat
    BY FS_CardinalityType DEF Tracked
  <2> QED BY <2>1, <1>4, CapacityAssumption DEF Tracked
<1>6. Cardinality(DOMAIN r) <= Retained
  <2>1. Cardinality(DOMAIN r) \in Nat
    BY <1>4, FS_CardinalityType
  <2> QED BY <2>1, <1>5, CapacityAssumption
<1>7. \A i \in DOMAIN d : d[i] \in DOMAIN r \ Pending(r)
  BY <1>1, <1>2, <1>3 DEF Tracked
<1>8. ASSUME NEW id \in DOMAIN r \ Pending(r) PROVE \E i \in DOMAIN d : d[i] = id
  <2>1. PICK i \in DOMAIN c : c[i] = id
    BY <1>2, <1>3 DEF Tracked
  <2>2. i # 1
    BY <2>1, <1>1, <1>2
  <2> QED BY <2>1, <2>2, <1>1
<1>9. \A i, j \in DOMAIN d : d[i] = d[j] => i = j
  BY <1>1 DEF Tracked
<1>10. Tracked(q, r, d, h, n)
  BY <1>1, <1>2, <1>3, <1>4, <1>6, <1>7, <1>8, <1>9 DEF Tracked
<1> QED BY <1>5, <1>10 DEF x, d, r

\* A request is accepted; its status is new.
LEMMA TrackAdd ==
    ASSUME NEW n \in Nat, NEW q, NEW s, NEW c, NEW h, Tracked(q, s, c, h, n),
           Cardinality(DOMAIN s) < Retained, NEW w \in Worlds \cup {NoWorld}
    PROVE  Tracked(Append(q, [id |-> n + 1, world |-> w]), Put(s, n + 1, "pending"), c, h, n + 1)
<1> DEFINE e == [id |-> n + 1, world |-> w]
           p == Append(q, e)
           r == Put(s, n + 1, "pending")
<1>1. e \in Waiting /\ e.id = n + 1
  BY DEF Waiting
<1> HIDE DEF e
<1>2. /\ p \in Seq(Waiting)
      /\ \A i \in DOMAIN q : i \in DOMAIN p /\ p[i] = q[i]
      /\ Len(q) + 1 \in DOMAIN p /\ p[Len(q) + 1] = e
      /\ Len(q) + 1 \notin DOMAIN q
      /\ DOMAIN p = DOMAIN q \cup {Len(q) + 1}
  BY <1>1, AppendFacts DEF Tracked
<1>3. n + 1 \notin 1 .. n /\ n + 1 \in 1 .. n + 1 /\ 1 .. n \subseteq 1 .. n + 1
  OBVIOUS
<1>4. n + 1 \notin DOMAIN s
  BY <1>3 DEF Tracked
<1>5. /\ DOMAIN r = DOMAIN s \cup {n + 1} /\ r[n + 1] = "pending"
      /\ \A id \in DOMAIN s : r[id] = s[id]
  BY <1>4 DEF Put
<1>6. Pending(r) = Pending(s) \cup {n + 1} /\ DOMAIN r \ Pending(r) = DOMAIN s \ Pending(s)
  BY <1>4, <1>5 DEF Pending
<1>7. DOMAIN r \subseteq 1 .. n + 1
  BY <1>3, <1>5 DEF Tracked
<1>8. IsFiniteSet(DOMAIN r) /\ Cardinality(DOMAIN r) <= Retained
  <2>1. IsFiniteSet(DOMAIN r) /\ Cardinality(DOMAIN r) = Cardinality(DOMAIN s) + 1
    BY <1>4, <1>5, FS_AddElement DEF Tracked
  <2>2. Cardinality(DOMAIN s) \in Nat
    BY FS_CardinalityType DEF Tracked
  <2> QED BY <2>1, <2>2, CapacityAssumption
<1>9. n + 1 \notin Pending(s)
  BY <1>4 DEF Pending
<1> DEFINE last == Len(q) + 1
           new == n + 1
<1> HIDE DEF p, r, last, new
<1>10. /\ DOMAIN p = DOMAIN q \cup {last} /\ last \notin DOMAIN q /\ p[last].id = new
       /\ \A i \in DOMAIN q : p[i] = q[i]
       /\ Pending(r) = Pending(s) \cup {new} /\ new \notin Pending(s)
  BY <1>1, <1>2, <1>6, <1>9 DEF last, new
<1>11. \A i \in DOMAIN p : p[i].id \in Pending(r)
  BY <1>10 DEF Tracked
<1>12. \A i, j \in DOMAIN p : p[i].id = p[j].id => i = j
  BY <1>10 DEF Tracked
<1>13. \A i \in DOMAIN p : \A j \in DOMAIN h : p[i].id # h[j].id
  BY <1>10 DEF Tracked
<1>14. \A id \in Pending(r) : (\E i \in DOMAIN p : p[i].id = id) \/ (\E i \in DOMAIN h : h[i].id = id)
  BY <1>10 DEF Tracked
<1>15. Tracked(p, r, c, h, n + 1)
  BY <1>2, <1>6, <1>7, <1>8, <1>10, <1>11, <1>12, <1>13, <1>14 DEF Tracked
<1> QED BY <1>15 DEF e, p, r

\* The pump is through with the first operation in its hands.
LEMMA TrackFinish ==
    ASSUME NEW n \in Nat, NEW q, NEW s, NEW c, NEW h, Tracked(q, s, c, h, n), h # <<>>,
           NEW result, result # "pending"
    PROVE  Tracked(q, [s EXCEPT ![Head(h).id] = result], Append(c, Head(h).id), Tail(h), n)
<1> DEFINE x == Head(h).id
           r == [s EXCEPT ![x] = result]
           d == Append(c, x)
           g == Tail(h)
<1>1. /\ g \in Seq(Waiting) /\ x = h[1].id /\ 1 \in DOMAIN h
      /\ \A i \in DOMAIN g : i + 1 \in DOMAIN h /\ g[i] = h[i + 1] /\ i + 1 # 1
      /\ \A i \in DOMAIN h : i # 1 => i - 1 \in DOMAIN g /\ g[i - 1] = h[i]
      /\ \A i, j \in DOMAIN g : i + 1 = j + 1 => i = j
  BY DEF Tracked
<1>2. x \in Pending(s) /\ x \in DOMAIN s /\ x \in Nat
  <2>1. x \in Pending(s)
    BY <1>1 DEF Tracked
  <2> QED BY <2>1 DEF Tracked, Pending
<1>3. /\ d \in Seq(Nat)
      /\ \A i \in DOMAIN c : d[i] = c[i]
      /\ d[Len(c) + 1] = x
      /\ Len(c) + 1 \notin DOMAIN c
      /\ DOMAIN d = DOMAIN c \cup {Len(c) + 1}
  BY <1>2, AppendFacts DEF Tracked
<1>4. /\ DOMAIN r = DOMAIN s /\ r[x] = result
      /\ \A id \in DOMAIN s \ {x} : r[id] = s[id]
  BY <1>2
<1>5. Pending(r) = Pending(s) \ {x}
  BY <1>2, <1>4 DEF Pending
<1> DEFINE last == Len(c) + 1
<1>6. /\ DOMAIN d = DOMAIN c \cup {last} /\ last \notin DOMAIN c /\ d[last] = x
  BY <1>3
<1> HIDE DEF x, r, d, g, last
<1>7. \A i \in DOMAIN q : q[i].id # x
  BY <1>1 DEF Tracked
<1>8. \A i \in DOMAIN q : q[i].id \in Pending(r)
  BY <1>5, <1>7 DEF Tracked
<1>9. \A i \in DOMAIN g : g[i].id \in Pending(r)
  BY <1>1, <1>5 DEF Tracked
<1>10. ASSUME NEW id \in Pending(r), ~\E i \in DOMAIN q : q[i].id = id
       PROVE  \E i \in DOMAIN g : g[i].id = id
  <2>1. PICK i \in DOMAIN h : h[i].id = id
    BY <1>5, <1>10 DEF Tracked
  <2>2. i # 1
    BY <2>1, <1>1, <1>5
  <2> QED BY <2>1, <2>2, <1>1
<1>11. \A i \in DOMAIN d : d[i] \in DOMAIN r \ Pending(r)
  BY <1>2, <1>3, <1>4, <1>5, <1>6 DEF Tracked
<1>12. \A id \in DOMAIN r \ Pending(r) : \E i \in DOMAIN d : d[i] = id
  BY <1>3, <1>4, <1>5, <1>6 DEF Tracked
<1>13. \A i, j \in DOMAIN d : d[i] = d[j] => i = j
  BY <1>2, <1>3, <1>6 DEF Tracked
<1>14. ASSUME NEW i \in DOMAIN g, NEW j \in DOMAIN g, g[i].id = g[j].id PROVE i = j
  <2>1. \A m, k \in DOMAIN h : h[m].id = h[k].id => m = k
    BY DEF Tracked
  <2>2. /\ i + 1 \in DOMAIN h /\ j + 1 \in DOMAIN h
        /\ h[i + 1].id = h[j + 1].id
    BY <1>1, <1>14
  <2>3. i + 1 = j + 1
    BY ONLY <2>1, <2>2
  <2> QED BY <1>1, <2>3
<1>15. \A i \in DOMAIN q : \A j \in DOMAIN g : q[i].id # g[j].id
  BY <1>1 DEF Tracked
<1>16. Tracked(q, r, d, g, n)
  BY <1>1, <1>3, <1>4, <1>8, <1>9, <1>10, <1>11, <1>12, <1>13, <1>14, <1>15 DEF Tracked
<1> QED BY <1>16 DEF x, r, d, g

\* The commands that were handled, those in the pump's hands and those in the queue, in
\* the order of their requests.
InOrder(done, hand, queue, n) ==
    /\ done \in Seq(Nat) /\ hand \in Seq(Waiting) /\ queue \in Seq(Waiting)
    /\ \A i \in DOMAIN done : done[i] <= n
    /\ \A i \in DOMAIN hand : hand[i].id <= n
    /\ \A i \in DOMAIN queue : queue[i].id <= n
    /\ \A i, j \in DOMAIN done : i < j => done[i] < done[j]
    /\ \A i, j \in DOMAIN hand : i < j => hand[i].id < hand[j].id
    /\ \A i, j \in DOMAIN queue : i < j => queue[i].id < queue[j].id
    /\ \A i \in DOMAIN done : \A j \in DOMAIN hand : done[i] < hand[j].id
    /\ \A i \in DOMAIN done : \A j \in DOMAIN queue : done[i] < queue[j].id
    /\ \A i \in DOMAIN hand : \A j \in DOMAIN queue : hand[i].id < queue[j].id

TablesTracked ==
    \A kind \in Kinds :
        Tracked(table[kind].queue, table[kind].statuses, table[kind].completed, Taken(kind), issued)
CommandsInOrder == InOrder(handled, Taken("commands"), commands, issued)
TrackInv == TablesTracked /\ CommandsInOrder

LEMMA OrderEmpty == ASSUME NEW n \in Nat PROVE InOrder(<<>>, <<>>, <<>>, n)
<1> DEFINE e == <<>>
<1>1. e \in Seq(Waiting) /\ e \in Seq(Nat) /\ DOMAIN e = {}
  OBVIOUS
<1> HIDE DEF e
<1>2. InOrder(e, e, e, n)
  BY <1>1 DEF InOrder
<1> QED BY <1>2 DEF e

LEMMA IdsAreNumbers == ASSUME NEW s \in Seq(Waiting) PROVE \A i \in DOMAIN s : s[i].id \in Nat
<1>1. \A i \in DOMAIN s : s[i] \in Waiting
  OBVIOUS
<1> QED BY <1>1 DEF Waiting

LEMMA OrderLater ==
    ASSUME NEW n \in Nat, NEW m \in Nat, n <= m, NEW d, NEW h, NEW q, InOrder(d, h, q, n)
    PROVE  InOrder(d, h, q, m)
<1>1. \A i \in DOMAIN d : d[i] \in Nat
  BY DEF InOrder
<1>2. \A i \in DOMAIN h : h[i].id \in Nat
  BY IdsAreNumbers DEF InOrder
<1>3. \A i \in DOMAIN q : q[i].id \in Nat
  BY IdsAreNumbers DEF InOrder
<1> QED BY <1>1, <1>2, <1>3 DEF InOrder

LEMMA OrderDrain ==
    ASSUME NEW n \in Nat, NEW d, NEW q, InOrder(d, <<>>, q, n)
    PROVE  InOrder(d, q, <<>>, n)
<1> DEFINE e == <<>>
<1>1. DOMAIN e = {} /\ e \in Seq(Waiting)
  OBVIOUS
<1>2. InOrder(d, e, q, n)
  OBVIOUS
<1> HIDE DEF e
<1>3. InOrder(d, q, e, n)
  BY <1>1, <1>2 DEF InOrder
<1> QED BY <1>3 DEF e

LEMMA OrderAdd ==
    ASSUME NEW n \in Nat, NEW d, NEW h, NEW q, InOrder(d, h, q, n), NEW w \in Worlds \cup {NoWorld}
    PROVE  InOrder(d, h, Append(q, [id |-> n + 1, world |-> w]), n + 1)
<1> DEFINE e == [id |-> n + 1, world |-> w]
           p == Append(q, e)
<1>1. e \in Waiting /\ e.id = n + 1
  BY DEF Waiting
<1> HIDE DEF e
<1>2. InOrder(d, h, q, n + 1)
  BY OrderLater
<1>3. /\ p \in Seq(Waiting)
      /\ \A i \in DOMAIN q : p[i] = q[i] /\ i \in Nat /\ i <= Len(q) /\ ~(Len(q) + 1 < i)
      /\ p[Len(q) + 1].id = n + 1
      /\ DOMAIN p = DOMAIN q \cup {Len(q) + 1}
      /\ ~(Len(q) + 1 < Len(q) + 1)
  <2>1. q \in Seq(Waiting)
    BY DEF InOrder
  <2>2. \A i \in DOMAIN q : i \in Nat /\ i <= Len(q) /\ ~(Len(q) + 1 < i)
    BY <2>1
  <2>3. Len(q) \in Nat
    BY <2>1
  <2> QED BY <1>1, <2>1, <2>2, <2>3, AppendFacts
<1> HIDE DEF p
<1>4. /\ \A i \in DOMAIN d : d[i] \in Nat /\ d[i] < n + 1
      /\ \A i \in DOMAIN h : h[i].id \in Nat /\ h[i].id < n + 1
      /\ \A i \in DOMAIN q : q[i].id \in Nat /\ q[i].id < n + 1
  <2>1. \A i \in DOMAIN d : d[i] \in Nat
    BY DEF InOrder
  <2>2. \A i \in DOMAIN h : h[i].id \in Nat
    BY IdsAreNumbers DEF InOrder
  <2>3. \A i \in DOMAIN q : q[i].id \in Nat
    BY IdsAreNumbers DEF InOrder
  <2>4. \A k \in Nat : k <= n => k < n + 1
    OBVIOUS
  <2> QED BY <2>1, <2>2, <2>3, <2>4 DEF InOrder
<1>5. \A i, j \in DOMAIN p : i < j => p[i].id < p[j].id
  BY <1>3, <1>4 DEF InOrder
<1>6. /\ \A i \in DOMAIN p : p[i].id <= n + 1
      /\ \A i \in DOMAIN d : \A j \in DOMAIN p : d[i] < p[j].id
      /\ \A i \in DOMAIN h : \A j \in DOMAIN p : h[i].id < p[j].id
  BY <1>3, <1>4 DEF InOrder
<1>7. InOrder(d, h, p, n + 1)
  BY <1>2, <1>3, <1>5, <1>6 DEF InOrder
<1> QED BY <1>7 DEF p, e

LEMMA OrderHandle ==
    ASSUME NEW n \in Nat, NEW d, NEW h, NEW q, InOrder(d, h, q, n), h # <<>>
    PROVE  InOrder(Append(d, Head(h).id), Tail(h), q, n)
<1> DEFINE x == Head(h).id
           f == Append(d, x)
           g == Tail(h)
<1>1. /\ g \in Seq(Waiting) /\ x = h[1].id /\ 1 \in DOMAIN h /\ h[1] \in Waiting
      /\ \A i \in DOMAIN g : i + 1 \in DOMAIN h /\ g[i] = h[i + 1] /\ i \in Nat /\ 1 < i + 1
      /\ \A i, j \in DOMAIN g : i < j => i + 1 < j + 1
  BY DEF InOrder
<1>2. x \in Nat
  BY <1>1 DEF Waiting
<1>3. /\ f \in Seq(Nat)
      /\ \A i \in DOMAIN d : f[i] = d[i] /\ i \in Nat /\ i <= Len(d) /\ ~(Len(d) + 1 < i)
      /\ f[Len(d) + 1] = x
      /\ DOMAIN f = DOMAIN d \cup {Len(d) + 1}
      /\ ~(Len(d) + 1 < Len(d) + 1)
  <2>1. d \in Seq(Nat)
    BY DEF InOrder
  <2>2. \A i \in DOMAIN d : i \in Nat /\ i <= Len(d) /\ ~(Len(d) + 1 < i)
    BY <2>1
  <2>3. Len(d) \in Nat
    BY <2>1
  <2> QED BY <1>2, <2>1, <2>2, <2>3, AppendFacts
<1> HIDE DEF x, f, g
<1>4. \A i, j \in DOMAIN f : i < j => f[i] < f[j]
  BY <1>1, <1>3 DEF InOrder
<1>5. \A i, j \in DOMAIN g : i < j => g[i].id < g[j].id
  BY <1>1 DEF InOrder
<1>6. \A i \in DOMAIN f : \A j \in DOMAIN g : f[i] < g[j].id
  BY <1>1, <1>3 DEF InOrder
<1>7. \A i \in DOMAIN f : \A j \in DOMAIN q : f[i] < q[j].id
  BY <1>1, <1>3 DEF InOrder
<1>8. /\ \A i \in DOMAIN f : f[i] <= n
      /\ \A i \in DOMAIN g : g[i].id <= n
      /\ \A i \in DOMAIN g : \A j \in DOMAIN q : g[i].id < q[j].id
  BY <1>1, <1>3 DEF InOrder
<1>9. InOrder(f, g, q, n)
  BY <1>1, <1>3, <1>4, <1>5, <1>6, <1>7, <1>8 DEF InOrder
<1> QED BY <1>9 DEF x, f, g

\* What a pump of another stage has in hand is of no interest here.
LEMMA HandsStay ==
    ASSUME ControlInv,
           \/ poll'.at = poll.at /\ poll'.todo = poll.todo
           \/ poll'.at = poll.at /\ Stage \notin Kinds \cup {"commands"}
           \/ poll.todo = <<>> /\ poll'.todo = <<>>
    PROVE  \A stage \in Kinds \cup {"commands"} : Taken(stage)' = Taken(stage)
BY DEF Taken, Stage

LEMMA TrackQuiet ==
    ASSUME ControlInv, TrackInv, UNCHANGED <<table, commands, handled>>,
           issued' = issued \/ issued' = issued + 1,
           \A stage \in Kinds \cup {"commands"} : Taken(stage)' = Taken(stage)
    PROVE  TrackInv'
<1>1. issued \in Nat /\ issued' \in Nat /\ issued <= issued'
  BY DEF ControlInv, Shapes
<1>2. TablesTracked'
  <2> SUFFICES ASSUME NEW kind \in Kinds
               PROVE  Tracked(table[kind].queue, table[kind].statuses, table[kind].completed,
                              Taken(kind), issued')
    BY DEF TablesTracked
  <2>1. Tracked(table[kind].queue, table[kind].statuses, table[kind].completed, Taken(kind), issued)
    BY DEF TrackInv, TablesTracked
  <2> QED BY <1>1, <2>1, TrackLater
<1>3. CommandsInOrder'
  <2>1. InOrder(handled, Taken("commands"), commands, issued)
    BY DEF TrackInv, CommandsInOrder
  <2>2. InOrder(handled, Taken("commands"), commands, issued')
    BY <1>1, <2>1, OrderLater
  <2> QED BY <2>2 DEF CommandsInOrder
<1> QED BY <1>2, <1>3 DEF TrackInv

LEMMA TrackQuietSteps ==
    ASSUME ControlInv, TrackInv,
           \/ Boot \/ \E w \in Worlds : EnqueueSignal(w) \/ CreateWorld(w) \/ DeleteWorld(w) \/ RequestFocus(w)
           \/ \E w \in Worlds, active \in BOOLEAN : RequestActive(w, active)
           \/ StartPoll \/ NextStage \/ Return \/ DrainSessions \/ DrainFocus \/ ListWork
           \/ SessionAsWanted
           \/ \E w \in Worlds : ActivateStart(w) \/ ActivateFails(w) \/ ActivateRest(w) \/ Deactivate(w)
           \/ PumpFocus \/ PumpSignal \/ PumpEffects \/ PollEngine
           \/ UNCHANGED vars
    PROVE  TrackInv'
<1>1. /\ poll = [at |-> poll.at, drained |-> poll.drained, todo |-> poll.todo, callback |-> poll.callback]
      /\ ~poll.drained => poll.todo = <<>>
      /\ poll.callback = "start" => Stage = "sessions"
  BY DEF ControlInv, Shapes, Starting
<1>2. /\ UNCHANGED <<table, commands, handled>>
      /\ issued' = issued \/ issued' = issued + 1
  BY DEF Boot, EnqueueSignal, CreateWorld, DeleteWorld, RequestFocus, RequestActive, Issue, StartPoll,
         NextStage, Return, DrainSessions, DrainFocus, ListWork, SessionAsWanted, ActivateStart,
         ActivateFails, ActivateRest, Deactivate, PumpFocus, PumpSignal, PumpEffects, PollEngine, vars
<1>3. CASE \/ Boot \/ \E w \in Worlds : EnqueueSignal(w) \/ CreateWorld(w) \/ DeleteWorld(w) \/ RequestFocus(w)
           \/ \E w \in Worlds, active \in BOOLEAN : RequestActive(w, active)
           \/ UNCHANGED vars
  <2>1. poll' = poll
    BY <1>3 DEF Boot, EnqueueSignal, CreateWorld, DeleteWorld, RequestFocus, RequestActive, vars
  <2> QED BY <1>2, <2>1, HandsStay, TrackQuiet
<1>4. CASE Return \/ \E w \in Worlds : ActivateStart(w)
  <2>1. poll'.at = poll.at /\ poll'.todo = poll.todo
    BY <1>1, <1>4 DEF Return, ActivateStart, Call
  <2> QED BY <1>2, <2>1, HandsStay, TrackQuiet
<1>5. CASE StartPoll \/ NextStage
  <2>1. poll.todo = <<>> /\ poll'.todo = <<>>
    BY <1>5 DEF StartPoll, NextStage, Between
  <2> QED BY <1>2, <2>1, HandsStay, TrackQuiet
<1>6. CASE DrainSessions \/ DrainFocus \/ ListWork
  <2>1. poll'.at = poll.at
    BY <1>1, <1>6 DEF DrainSessions, DrainFocus, ListWork, Drained
  <2>2. Stage \notin Kinds \cup {"commands"}
    BY <1>6 DEF DrainSessions, DrainFocus, ListWork, Kinds
  <2> QED BY <1>2, <2>1, <2>2, HandsStay, TrackQuiet
<1>7. CASE SessionAsWanted \/ \E w \in Worlds : ActivateFails(w) \/ ActivateRest(w) \/ Deactivate(w)
  <2>1. poll'.at = poll.at
    BY <1>1, <1>7 DEF SessionAsWanted, ActivateFails, ActivateRest, Deactivate, Done
  <2>2. Stage = "sessions"
    BY <1>1, <1>7 DEF SessionAsWanted, ActivateFails, Activating, ActivateRest, Deactivate, Working
  <2>3. Stage \notin Kinds \cup {"commands"}
    BY <2>2 DEF Kinds
  <2> QED BY <1>2, <2>1, <2>3, HandsStay, TrackQuiet
<1>8. CASE PumpFocus \/ PumpSignal \/ PumpEffects \/ PollEngine
  <2>1. poll'.at = poll.at
    BY <1>1, <1>8 DEF PumpFocus, PumpSignal, PumpEffects, PollEngine, Done, Call
  <2>2. Stage \in {"focus", "signals", "effects", "engine"}
    BY <1>8 DEF PumpFocus, PumpSignal, PumpEffects, PollEngine, Working
  <2>3. Stage \notin Kinds \cup {"commands"}
    BY <2>2 DEF Kinds
  <2> QED BY <1>2, <2>1, <2>3, HandsStay, TrackQuiet
<1> QED BY <1>3, <1>4, <1>5, <1>6, <1>7, <1>8

\* All of the tables but one, and the commands, stay.
LEMMA OtherTables ==
    ASSUME ControlInv, TrackInv, NEW kind \in Kinds, NEW t,
           table' = [table EXCEPT ![kind] = t],
           Tracked(t.queue, t.statuses, t.completed, Taken(kind)', issued'),
           UNCHANGED <<commands, handled>>,
           issued' = issued \/ issued' = issued + 1,
           \A stage \in (Kinds \cup {"commands"}) \ {kind} : Taken(stage)' = Taken(stage)
    PROVE  TrackInv'
<1>1. issued \in Nat /\ issued' \in Nat /\ issued <= issued'
  BY DEF ControlInv, Shapes
<1>2. kind # "commands"
  BY DEF Kinds
<1>3. table'[kind] = t /\ \A k \in Kinds \ {kind} : table'[k] = table[k]
  <2>1. table = [k \in Kinds |-> table[k]]
    BY DEF ControlInv, Shapes, Tables
  <2> QED BY <2>1
<1>4. TablesTracked'
  <2> SUFFICES ASSUME NEW k \in Kinds
               PROVE  Tracked(table'[k].queue, table'[k].statuses, table'[k].completed,
                              Taken(k)', issued')
    BY DEF TablesTracked
  <2>1. CASE k = kind
    BY <1>3, <2>1
  <2>2. CASE k # kind
    <3>1. Tracked(table[k].queue, table[k].statuses, table[k].completed, Taken(k), issued)
      BY DEF TrackInv, TablesTracked
    <3>2. Tracked(table[k].queue, table[k].statuses, table[k].completed, Taken(k), issued')
      BY <1>1, <3>1, TrackLater
    <3>3. Taken(k)' = Taken(k) /\ table'[k] = table[k]
      BY <1>3, <2>2
    <3> QED BY <3>2, <3>3
  <2> QED BY <2>1, <2>2
<1>5. CommandsInOrder'
  <2>1. InOrder(handled, Taken("commands"), commands, issued)
    BY DEF TrackInv, CommandsInOrder
  <2>2. InOrder(handled, Taken("commands"), commands, issued')
    BY <1>1, <2>1, OrderLater
  <2>3. Taken("commands")' = Taken("commands")
    BY <1>2
  <2> QED BY <2>2, <2>3 DEF CommandsInOrder
<1> QED BY <1>4, <1>5 DEF TrackInv

\* All of the tables stay while commands move.
LEMMA OtherCommands ==
    ASSUME ControlInv, TrackInv, UNCHANGED table, CommandsInOrder',
           issued' = issued \/ issued' = issued + 1,
           \A stage \in Kinds : Taken(stage)' = Taken(stage)
    PROVE  TrackInv'
<1>1. issued \in Nat /\ issued' \in Nat /\ issued <= issued'
  BY DEF ControlInv, Shapes
<1>2. TablesTracked'
  <2> SUFFICES ASSUME NEW kind \in Kinds
               PROVE  Tracked(table[kind].queue, table[kind].statuses, table[kind].completed,
                              Taken(kind), issued')
    BY DEF TablesTracked
  <2>1. Tracked(table[kind].queue, table[kind].statuses, table[kind].completed, Taken(kind), issued)
    BY DEF TrackInv, TablesTracked
  <2> QED BY <1>1, <2>1, TrackLater
<1> QED BY <1>2 DEF TrackInv

LEMMA TrackInit == Init => TrackInv
<1> SUFFICES ASSUME Init PROVE TrackInv
  OBVIOUS
<1>1. /\ commands = <<>> /\ handled = <<>> /\ issued = 0 /\ table = NoOperations
      /\ \A stage : Taken(stage) = <<>>
  BY DEF Init, Taken, Between
<1>2. TablesTracked
  BY <1>1, TrackEmpty DEF TablesTracked, NoOperations, EmptyTable
<1>3. CommandsInOrder
  BY <1>1, OrderEmpty DEF CommandsInOrder
<1> QED BY <1>2, <1>3 DEF TrackInv

LEMMA TrackDown == ASSUME ControlInv, TrackInv, Down PROVE TrackInv'
<1>1. /\ commands' = <<>> /\ handled' = <<>> /\ issued' \in Nat /\ table' = NoOperations
      /\ \A stage : Taken(stage)' = <<>>
  BY DEF Down, Taken, Between, ControlInv, Shapes
<1>2. TablesTracked'
  BY <1>1, TrackEmpty DEF TablesTracked, NoOperations, EmptyTable
<1>3. CommandsInOrder'
  BY <1>1, OrderEmpty DEF CommandsInOrder
<1> QED BY <1>2, <1>3 DEF TrackInv

\* request and submit_world_command, in a callback.
LEMMA TrackRequests ==
    ASSUME ControlInv, TrackInv, NEW w \in Worlds \cup {NoWorld}, NEW kind \in Kinds,
           RequestCommand(w) \/ RequestOperation(kind, w)
    PROVE  TrackInv'
<1>1. /\ poll' = poll /\ issued \in Nat /\ issued' = issued + 1
  BY DEF RequestCommand, RequestOperation, Issue, ControlInv, Shapes
<1>2. \A stage : Taken(stage)' = Taken(stage)
  BY <1>1 DEF Taken, Stage
<1>3. CASE RequestCommand(w)
  <2>1. /\ UNCHANGED <<table, handled>>
        /\ commands' = Append(commands, [id |-> issued + 1, world |-> w])
    BY <1>3 DEF RequestCommand
  <2>2. InOrder(handled, Taken("commands"), commands', issued')
    BY <1>1, <2>1, OrderAdd DEF TrackInv, CommandsInOrder
  <2>3. CommandsInOrder'
    BY <1>2, <2>1, <2>2 DEF CommandsInOrder
  <2> QED BY <1>1, <1>2, <2>1, <2>3, OtherCommands
<1>4. CASE RequestOperation(kind, w)
  <2> DEFINE t == table[kind]
             queue == Append(t.queue, [id |-> issued + 1, world |-> w])
             hand == Taken(kind)
  <2>1. /\ UNCHANGED <<commands, handled>>
        /\ Cardinality(DOMAIN t.statuses) < Retained \/ t.completed # <<>>
        /\ table' = [table EXCEPT ![kind] =
              [queue |-> queue, statuses |-> Put(Evict(t).statuses, issued + 1, "pending"),
               completed |-> Evict(t).completed]]
    BY <1>4 DEF RequestOperation
  <2>2. Tracked(t.queue, t.statuses, t.completed, hand, issued) /\ Table(t)
    BY DEF TrackInv, TablesTracked, ControlInv, Shapes, Tables
  <2> HIDE DEF t, hand
  <2>3. /\ Tracked(t.queue, Evict(t).statuses, Evict(t).completed, hand, issued)
        /\ Cardinality(DOMAIN Evict(t).statuses) < Retained
    <3>1. CASE Cardinality(DOMAIN t.statuses) < Retained
      BY <2>2, <3>1 DEF Evict
    <3>2. CASE ~(Cardinality(DOMAIN t.statuses) < Retained)
      <4>1. /\ Evict(t).statuses = Without(t.statuses, Head(t.completed))
            /\ Evict(t).completed = Tail(t.completed)
        <5> DEFINE s == Without(t.statuses, Head(t.completed))
        <5>1. t = [queue |-> t.queue, statuses |-> t.statuses, completed |-> t.completed]
          BY <2>2 DEF Table
        <5>2. Evict(t) = [t EXCEPT !.statuses = s, !.completed = Tail(@)]
          BY <3>2 DEF Evict
        <5> HIDE DEF s
        <5>3. Evict(t).statuses = s /\ Evict(t).completed = Tail(t.completed)
          BY <5>1, <5>2
        <5> QED BY <5>3 DEF s
      <4> QED BY <1>1, <2>1, <2>2, <3>2, <4>1, TrackEvict
    <3> QED BY <3>1, <3>2
  <2> DEFINE s == Evict(t).statuses
             c == Evict(t).completed
             added == Put(s, issued + 1, "pending")
  <2> HIDE DEF s, c
  <2>4. Tracked(queue, added, c, hand, issued + 1)
    BY <1>1, <2>3, TrackAdd DEF s, c
  <2> DEFINE r == [queue |-> queue, statuses |-> added, completed |-> c]
  <2>5. table' = [table EXCEPT ![kind] = r]
    BY <2>1 DEF s, c
  <2> HIDE DEF queue, added
  <2>6. Tracked(r.queue, r.statuses, r.completed, hand, issued')
    BY <1>1, <2>4
  <2> HIDE DEF r
  <2>7. Tracked(r.queue, r.statuses, r.completed, Taken(kind)', issued')
    BY <1>2, <2>6 DEF hand
  <2> QED BY <1>1, <1>2, <2>1, <2>5, <2>7, OtherTables
<1> QED BY <1>3, <1>4

LEMMA TrackDrains ==
    ASSUME ControlInv, TrackInv, DrainCommands \/ \E kind \in Kinds : DrainOperations(kind)
    PROVE  TrackInv'
<1>1. CASE DrainCommands
  <2>1. Stage = "commands" /\ Drained(commands) /\ UNCHANGED <<table, handled, issued>> /\ commands' = <<>>
    BY <1>1 DEF DrainCommands
  <2>2. poll'.todo = commands /\ Stage' = Stage /\ poll.todo = <<>>
    BY <2>1, DrainedFacts
  <2>3. /\ Taken("commands") = <<>> /\ Taken("commands")' = commands
        /\ \A stage \in Kinds : Taken(stage)' = Taken(stage)
    BY <2>1, <2>2 DEF Taken, Kinds
  <2>4. issued \in Nat /\ InOrder(handled, <<>>, commands, issued)
    BY <2>3 DEF TrackInv, CommandsInOrder, ControlInv, Shapes
  <2>5. InOrder(handled, commands, <<>>, issued)
    BY <2>4, OrderDrain
  <2>6. CommandsInOrder'
    BY <2>1, <2>3, <2>5 DEF CommandsInOrder
  <2> QED BY <2>1, <2>3, <2>6, OtherCommands
<1>2. ASSUME NEW kind \in Kinds, DrainOperations(kind) PROVE TrackInv'
  <2> DEFINE t == table[kind]
             queue == t.queue
             none == <<>>
             r == [queue |-> none, statuses |-> t.statuses, completed |-> t.completed]
  <2>1. /\ Stage = kind /\ Drained(queue) /\ UNCHANGED <<commands, handled, issued>>
        /\ table' = [table EXCEPT ![kind] = [t EXCEPT !.queue = none]]
    BY <1>2 DEF DrainOperations
  <2>2. poll'.todo = queue /\ Stage' = Stage /\ poll.todo = <<>>
    BY <2>1, DrainedFacts
  <2>3. /\ Taken(kind) = <<>> /\ Taken(kind)' = queue
        /\ \A stage \in (Kinds \cup {"commands"}) \ {kind} : Taken(stage)' = Taken(stage)
    BY <2>1, <2>2 DEF Taken
  <2>4. /\ issued \in Nat /\ Tracked(queue, t.statuses, t.completed, <<>>, issued)
        /\ t = [queue |-> t.queue, statuses |-> t.statuses, completed |-> t.completed]
    BY <2>3 DEF TrackInv, TablesTracked, ControlInv, Shapes, Tables, Table
  <2> HIDE DEF t, queue
  <2>5. Tracked(<<>>, t.statuses, t.completed, queue, issued)
    BY <2>4, TrackDrain
  <2>6. Tracked(none, t.statuses, t.completed, queue, issued)
    BY <2>5
  <2> HIDE DEF none
  <2>7. [t EXCEPT !.queue = none] = r
    BY <2>4
  <2>8. table' = [table EXCEPT ![kind] = r]
    BY <2>1, <2>7
  <2>9. Tracked(r.queue, r.statuses, r.completed, Taken(kind)', issued')
    BY <2>1, <2>3, <2>6
  <2> HIDE DEF r
  <2> QED BY <2>1, <2>3, <2>8, <2>9, OtherTables
<1> QED BY <1>1, <1>2

LEMMA TrackPumps ==
    ASSUME ControlInv, TrackInv, PumpCommand \/ \E kind \in Kinds : PumpOperation(kind)
    PROVE  TrackInv'
<1>1. /\ poll = [at |-> poll.at, drained |-> poll.drained, todo |-> poll.todo, callback |-> poll.callback]
      /\ issued \in Nat
  BY DEF ControlInv, Shapes
<1>2. CASE PumpCommand
  <2>1. /\ Stage = "commands" /\ poll.todo # <<>> /\ UNCHANGED <<table, commands, issued>>
        /\ handled' = Append(handled, Head(poll.todo).id)
        /\ poll'.todo = Tail(poll.todo) /\ poll'.at = poll.at
    BY <1>1, <1>2 DEF PumpCommand, Working, Entry
  <2>2. Stage' = Stage
    BY <2>1 DEF Stage
  <2>3. /\ Taken("commands") = poll.todo /\ Taken("commands")' = Tail(poll.todo)
        /\ \A stage \in Kinds : Taken(stage)' = Taken(stage)
    BY <2>1, <2>2 DEF Taken, Kinds
  <2>4. InOrder(handled, poll.todo, commands, issued)
    BY <2>3 DEF TrackInv, CommandsInOrder
  <2>5. InOrder(Append(handled, Head(poll.todo).id), Tail(poll.todo), commands, issued)
    BY <1>1, <2>1, <2>4, OrderHandle
  <2>6. CommandsInOrder'
    BY <2>1, <2>3, <2>5 DEF CommandsInOrder
  <2> QED BY <2>1, <2>3, <2>6, OtherCommands
<1>3. ASSUME NEW kind \in Kinds, PumpOperation(kind) PROVE TrackInv'
  <2> DEFINE t == table[kind]
             hand == poll.todo
             id == Head(hand).id
  <2>1. PICK result \in {"succeeded", "failed"} :
            table' = [table EXCEPT ![kind].statuses[id] = result,
                                   ![kind].completed = Append(@, id)]
    BY <1>3 DEF PumpOperation, Entry
  <2>2. /\ Stage = kind /\ hand # <<>> /\ UNCHANGED <<commands, handled, issued>>
        /\ poll'.todo = Tail(hand) /\ poll'.at = poll.at
    BY <1>1, <1>3 DEF PumpOperation, Working, Done
  <2>3. Stage' = Stage
    BY <2>2 DEF Stage
  <2>4. /\ Taken(kind) = hand /\ Taken(kind)' = Tail(hand)
        /\ \A stage \in (Kinds \cup {"commands"}) \ {kind} : Taken(stage)' = Taken(stage)
    BY <2>2, <2>3 DEF Taken
  <2>5. /\ Tracked(t.queue, t.statuses, t.completed, hand, issued)
        /\ t = [queue |-> t.queue, statuses |-> t.statuses, completed |-> t.completed]
        /\ table = [k \in Kinds |-> table[k]]
    BY <2>4 DEF TrackInv, TablesTracked, ControlInv, Shapes, Tables, Table
  <2> HIDE DEF hand
  <2>6. Tracked(t.queue, [t.statuses EXCEPT ![id] = result], Append(t.completed, id), Tail(hand), issued)
    BY <1>1, <2>2, <2>5, TrackFinish
  <2> DEFINE s == [t.statuses EXCEPT ![id] = result]
             r == [queue |-> t.queue, statuses |-> s, completed |-> Append(t.completed, id)]
  <2> HIDE DEF id
  <2>7. table' = [table EXCEPT ![kind] = r]
    <3> DEFINE u == [t EXCEPT !.statuses = s]
    <3>1. table' = [table EXCEPT ![kind] = [u EXCEPT !.completed = Append(@, id)]]
      BY <2>1, <2>5
    <3> HIDE DEF t, s
    <3>2. u = [queue |-> t.queue, statuses |-> s, completed |-> t.completed]
      BY <2>5
    <3> HIDE DEF u
    <3> DEFINE c == Append(u.completed, id)
    <3>3. c = Append(t.completed, id)
      BY <3>2
    <3> HIDE DEF c
    <3>4. [u EXCEPT !.completed = c] = [queue |-> t.queue, statuses |-> s, completed |-> c]
      BY <3>2
    <3> QED BY <3>1, <3>3, <3>4 DEF c
  <2> HIDE DEF t, s
  <2>8. Tracked(r.queue, r.statuses, r.completed, Tail(hand), issued)
    BY <2>6 DEF s
  <2> HIDE DEF r
  <2>9. Tracked(r.queue, r.statuses, r.completed, Taken(kind)', issued')
    BY <2>2, <2>4, <2>8
  <2> QED BY <2>2, <2>4, <2>7, <2>9, OtherTables
<1> QED BY <1>2, <1>3

LEMMA TrackStep == ASSUME ControlInv, TrackInv, [Next]_vars PROVE TrackInv'
<1>1. CASE Boot \/ UNCHANGED vars
  BY <1>1, TrackQuietSteps
<1>2. CASE Down
  BY <1>2, TrackDown
<1>3. CASE Request \/ RequestContent
  <2>1. ASSUME NEW w \in Worlds \cup {NoWorld}, NEW kind \in Kinds, RequestOperation(kind, w)
        PROVE  TrackInv'
    BY <2>1, TrackRequests
  <2>2. ASSUME NEW w \in Worlds, RequestCommand(w) PROVE TrackInv'
    <3>1. "content" \in Kinds
      BY DEF Kinds
    <3> QED BY <2>2, <3>1, TrackRequests
  <2>3. ASSUME NEW w \in Worlds,
               CreateWorld(w) \/ DeleteWorld(w) \/ RequestFocus(w)
                 \/ \E active \in BOOLEAN : RequestActive(w, active)
        PROVE  TrackInv'
    BY <2>3, TrackQuietSteps
  <2>4. CASE RequestContent
    BY <2>1, <2>4 DEF RequestContent, Kinds
  <2> QED BY <1>3, <2>1, <2>2, <2>3, <2>4 DEF Request
<1>4. CASE \E w \in Worlds : EnqueueSignal(w)
  BY <1>4, TrackQuietSteps
<1>5. CASE LoopStep
  <2>1. CASE DrainCommands \/ \E kind \in Kinds : DrainOperations(kind)
    BY <2>1, TrackDrains
  <2>2. CASE PumpCommand \/ \E kind \in Kinds : PumpOperation(kind)
    BY <2>2, TrackPumps
  <2>3. CASE \/ StartPoll \/ NextStage \/ Return \/ DrainSessions \/ DrainFocus \/ ListWork
             \/ SessionAsWanted
             \/ \E w \in Worlds : ActivateStart(w) \/ ActivateFails(w) \/ ActivateRest(w) \/ Deactivate(w)
             \/ PumpFocus \/ PumpSignal \/ PumpEffects \/ PollEngine
    BY <2>3, TrackQuietSteps
  <2> QED BY <1>5, <2>1, <2>2, <2>3 DEF LoopStep
<1> QED BY <1>1, <1>2, <1>3, <1>4, <1>5 DEF Next

\* The inductive invariant of the tables and of the command queue.
THEOREM TrackInvHolds == Spec => []TrackInv
<1>1. ControlInv /\ TrackInv /\ [Next]_vars => TrackInv'
  BY TrackStep
<1> QED BY <1>1, TrackInit, ControlInvHolds, PTL DEF Spec

LEMMA IdsFacts ==
    ASSUME NEW s \in Seq(Waiting)
    PROVE  Ids(s) \in Seq(Nat) /\ DOMAIN Ids(s) = DOMAIN s /\ \A i \in DOMAIN s : Ids(s)[i] = s[i].id
<1>1. DOMAIN s = 1 .. Len(s) /\ Len(s) \in Nat
  OBVIOUS
<1>2. Ids(s) = [i \in 1 .. Len(s) |-> s[i].id]
  BY <1>1 DEF Ids
<1>3. \A i \in 1 .. Len(s) : s[i].id \in Nat
  BY <1>1, IdsAreNumbers
<1> QED BY <1>1, <1>2, <1>3

LEMMA JoinFacts ==
    ASSUME NEW a \in Seq(Nat), NEW b \in Seq(Nat)
    PROVE  /\ a \o b \in Seq(Nat)
           /\ \A i \in DOMAIN a : i \in DOMAIN (a \o b) /\ (a \o b)[i] = a[i]
           /\ \A i \in DOMAIN b : Len(a) + i \in DOMAIN (a \o b) /\ (a \o b)[Len(a) + i] = b[i]
           /\ \A i \in DOMAIN (a \o b) :
                 \/ i \in DOMAIN a /\ (a \o b)[i] = a[i]
                 \/ i > Len(a) /\ i - Len(a) \in DOMAIN b /\ (a \o b)[i] = b[i - Len(a)]
OBVIOUS

LEMMA JoinInjective ==
    ASSUME NEW a \in Seq(Nat), NEW b \in Seq(Nat), IsInjective(a), IsInjective(b),
           \A i \in DOMAIN a : \A j \in DOMAIN b : a[i] # b[j]
    PROVE  IsInjective(a \o b)
<1> DEFINE c == a \o b
<1> SUFFICES ASSUME NEW i \in DOMAIN c, NEW j \in DOMAIN c, c[i] = c[j] PROVE i = j
  BY DEF IsInjective
<1>1. Len(a) \in Nat /\ i \in Nat /\ j \in Nat
  BY JoinFacts
<1>2. /\ \/ i \in DOMAIN a /\ c[i] = a[i]
         \/ i > Len(a) /\ i - Len(a) \in DOMAIN b /\ c[i] = b[i - Len(a)]
      /\ \/ j \in DOMAIN a /\ c[j] = a[j]
         \/ j > Len(a) /\ j - Len(a) \in DOMAIN b /\ c[j] = b[j - Len(a)]
  BY JoinFacts
<1> HIDE DEF c
<1>3. CASE i \in DOMAIN a /\ c[i] = a[i] /\ j \in DOMAIN a /\ c[j] = a[j]
  BY <1>3 DEF IsInjective
<1>4. CASE i - Len(a) \in DOMAIN b /\ c[i] = b[i - Len(a)] /\ j - Len(a) \in DOMAIN b /\ c[j] = b[j - Len(a)]
  <2>1. i - Len(a) = j - Len(a)
    BY <1>4 DEF IsInjective
  <2> QED BY <2>1, <1>1
<1> QED BY <1>2, <1>3, <1>4

LEMMA JoinOrdered ==
    ASSUME NEW a \in Seq(Nat), NEW b \in Seq(Nat),
           \A i, j \in DOMAIN a : i < j => a[i] < a[j],
           \A i, j \in DOMAIN b : i < j => b[i] < b[j],
           \A i \in DOMAIN a : \A j \in DOMAIN b : a[i] < b[j]
    PROVE  \A i, j \in DOMAIN (a \o b) : i < j => (a \o b)[i] < (a \o b)[j]
<1> DEFINE c == a \o b
<1> SUFFICES ASSUME NEW i \in DOMAIN c, NEW j \in DOMAIN c, i < j PROVE c[i] < c[j]
  OBVIOUS
<1>1. Len(a) \in Nat /\ i \in Nat /\ j \in Nat /\ DOMAIN a = 1 .. Len(a)
  BY JoinFacts
<1>2. /\ \/ i \in DOMAIN a /\ c[i] = a[i]
         \/ i > Len(a) /\ i - Len(a) \in DOMAIN b /\ c[i] = b[i - Len(a)]
      /\ \/ j \in DOMAIN a /\ c[j] = a[j]
         \/ j > Len(a) /\ j - Len(a) \in DOMAIN b /\ c[j] = b[j - Len(a)]
  BY JoinFacts
<1> HIDE DEF c
<1>3. CASE j \in DOMAIN a
  BY <1>1, <1>2, <1>3
<1>4. CASE i \in DOMAIN a /\ j > Len(a)
  BY <1>1, <1>2, <1>4
<1>5. CASE i > Len(a) /\ j > Len(a)
  <2>1. i - Len(a) < j - Len(a)
    BY <1>1
  <2> QED BY <1>1, <1>2, <1>5, <2>1
<1> QED BY <1>1, <1>2, <1>3, <1>4, <1>5

LEMMA TrackedOperations ==
    ASSUME NEW q, NEW s, NEW c, NEW h, NEW n, Tracked(q, s, c, h, n)
    PROVE  /\ Cardinality(DOMAIN s) <= Retained
           /\ Pending(s) = ToSet(Ids(q) \o Ids(h))
           /\ DOMAIN s \ Pending(s) = ToSet(c)
           /\ IsInjective(Ids(q) \o Ids(h)) /\ IsInjective(c)
<1> DEFINE a == Ids(q)
           b == Ids(h)
           w == a \o b
<1>1. /\ a \in Seq(Nat) /\ DOMAIN a = DOMAIN q /\ \A i \in DOMAIN q : a[i] = q[i].id
      /\ b \in Seq(Nat) /\ DOMAIN b = DOMAIN h /\ \A i \in DOMAIN h : b[i] = h[i].id
  BY IdsFacts DEF Tracked
<1> HIDE DEF a, b
<1>2. /\ \A i, j \in DOMAIN a : a[i] = a[j] => i = j
      /\ \A i, j \in DOMAIN b : b[i] = b[j] => i = j
      /\ \A i \in DOMAIN a : \A j \in DOMAIN b : a[i] # b[j]
  <2>1. \A i, j \in DOMAIN a : a[i] = a[j] => i = j
    BY <1>1 DEF Tracked
  <2>2. \A i, j \in DOMAIN b : b[i] = b[j] => i = j
    BY <1>1 DEF Tracked
  <2>3. \A i \in DOMAIN a : \A j \in DOMAIN b : a[i] # b[j]
    <3>1. \A i \in DOMAIN q : \A j \in DOMAIN h : q[i].id # h[j].id
      BY DEF Tracked
    <3> QED BY <1>1, <3>1
  <2> QED BY <2>1, <2>2, <2>3
<1>3. IsInjective(w)
  <2>1. IsInjective(a) /\ IsInjective(b)
    BY <1>2 DEF IsInjective
  <2> QED BY <1>1, <1>2, <2>1, JoinInjective
<1>4. /\ \A i \in DOMAIN a : i \in DOMAIN w /\ w[i] = a[i]
      /\ \A i \in DOMAIN b : Len(a) + i \in DOMAIN w /\ w[Len(a) + i] = b[i]
      /\ \A i \in DOMAIN w : (i \in DOMAIN a /\ w[i] = a[i]) \/ (\E k \in DOMAIN b : w[i] = b[k])
  <2>1. \A i \in DOMAIN w : (i \in DOMAIN a /\ w[i] = a[i]) \/ (i - Len(a) \in DOMAIN b /\ w[i] = b[i - Len(a)])
    <3> TAKE i \in DOMAIN w
    <3> QED BY <1>1, JoinFacts
  <2>2. /\ \A i \in DOMAIN a : i \in DOMAIN w /\ w[i] = a[i]
        /\ \A i \in DOMAIN b : Len(a) + i \in DOMAIN w /\ w[Len(a) + i] = b[i]
    BY <1>1, JoinFacts
  <2> HIDE DEF w
  <2> QED BY <2>1, <2>2
<1> HIDE DEF w
<1>5. \A i \in DOMAIN w : w[i] \in Pending(s)
  <2>1. /\ \A i \in DOMAIN q : q[i].id \in Pending(s)
        /\ \A i \in DOMAIN h : h[i].id \in Pending(s)
    BY DEF Tracked
  <2> QED BY <1>1, <1>4, <2>1
<1>6. ASSUME NEW id \in Pending(s) PROVE \E i \in DOMAIN w : w[i] = id
  <2>1. CASE \E i \in DOMAIN q : q[i].id = id
    BY <2>1, <1>1, <1>4
  <2>2. CASE \E i \in DOMAIN h : h[i].id = id
    BY <2>2, <1>1, <1>4
  <2> QED BY <2>1, <2>2 DEF Tracked
<1>7. Pending(s) = ToSet(w)
  BY <1>5, <1>6 DEF ToSet
<1>8. DOMAIN s \ Pending(s) = ToSet(c) /\ IsInjective(c)
  BY DEF Tracked, ToSet, IsInjective
<1> QED BY <1>3, <1>7, <1>8 DEF Tracked, w, a, b

\* No status is forgotten while its owner waits, no operation or command is handled twice or
\* dropped, and commands are handled in the order they were accepted, whatever callbacks
\* queue while the pump works through its list (request, drain_pending, record_outcome).
THEOREM WorkIsTracked == Spec => []DeferredWorkIsTracked
<1> SUFFICES ASSUME TrackInv PROVE DeferredWorkIsTracked
  BY TrackInvHolds, PTL
<1>1. ASSUME NEW kind \in Kinds
      PROVE  LET t == table[kind]
                 waiting == Ids(t.queue) \o Ids(Taken(kind))
             IN
             /\ Cardinality(DOMAIN t.statuses) <= Retained
             /\ Pending(t.statuses) = ToSet(waiting)
             /\ DOMAIN t.statuses \ Pending(t.statuses) = ToSet(t.completed)
             /\ IsInjective(waiting) /\ IsInjective(t.completed)
  BY <1>1, TrackedOperations DEF TrackInv, TablesTracked
<1>2. LET order == handled \o Ids(Taken("commands")) \o Ids(commands) IN
      \A i, j \in DOMAIN order : i < j => order[i] < order[j]
  <2> DEFINE h == Taken("commands")
             a == Ids(h)
             b == Ids(commands)
             d == handled \o a
  <2>1. InOrder(handled, h, commands, issued)
    BY DEF TrackInv, CommandsInOrder
  <2> HIDE DEF h
  <2>2. /\ a \in Seq(Nat) /\ DOMAIN a = DOMAIN h /\ \A i \in DOMAIN h : a[i] = h[i].id
        /\ b \in Seq(Nat) /\ DOMAIN b = DOMAIN commands
        /\ \A i \in DOMAIN commands : b[i] = commands[i].id
        /\ handled \in Seq(Nat)
    BY <2>1, IdsFacts DEF InOrder
  <2> HIDE DEF a, b
  <2>3. /\ \A i, j \in DOMAIN handled : i < j => handled[i] < handled[j]
        /\ \A i, j \in DOMAIN a : i < j => a[i] < a[j]
        /\ \A i \in DOMAIN handled : \A j \in DOMAIN a : handled[i] < a[j]
        /\ \A i, j \in DOMAIN b : i < j => b[i] < b[j]
    BY <2>1, <2>2 DEF InOrder
  <2>4. d \in Seq(Nat) /\ \A i, j \in DOMAIN d : i < j => d[i] < d[j]
    BY <2>2, <2>3, JoinFacts, JoinOrdered
  <2>5. \A i \in DOMAIN d : \A j \in DOMAIN b : d[i] < b[j]
    <3>1. \A i \in DOMAIN d : (i \in DOMAIN handled /\ d[i] = handled[i]) \/ (i - Len(handled) \in DOMAIN a /\ d[i] = a[i - Len(handled)])
      <4> TAKE i \in DOMAIN d
      <4> QED BY <2>2, JoinFacts
    <3> HIDE DEF d
    <3>2. /\ \A i \in DOMAIN handled : \A j \in DOMAIN commands : handled[i] < commands[j].id
          /\ \A i \in DOMAIN h : \A j \in DOMAIN commands : h[i].id < commands[j].id
      BY <2>1 DEF InOrder
    <3>3. /\ \A i \in DOMAIN handled : \A j \in DOMAIN b : handled[i] < b[j]
          /\ \A i \in DOMAIN a : \A j \in DOMAIN b : a[i] < b[j]
      BY <2>2, <3>2
    <3> QED BY <3>1, <3>3
  <2> HIDE DEF d
  <2>6. \A i, j \in DOMAIN (d \o b) : i < j => (d \o b)[i] < (d \o b)[j]
    BY <2>2, <2>3, <2>4, <2>5, JoinOrdered
  <2> QED BY <2>6 DEF d, a, b, h
<1> QED BY <1>1, <1>2 DEF DeferredWorkIsTracked, Pending


-----------------------------------------------------------------------------
(* The specification: any profiles whose activations have an id each.      *)

WellFormed(c) ==
    /\ \A s \in Scopes : c.order[s] \in Seq(Instances)
    /\ \A r, s \in Scopes : r # s => ToSet(c.order[r]) \cap ToSet(c.order[s]) = {}
    /\ \A i \in Instances :
          c.publishes[i] \subseteq Targets /\ c.needs[i] \subseteq Targets /\ c.requires[i] \subseteq Nat

BootSpec ==
    WellFormed(composition) /\ InitWith({composition}) /\ [][BootstrapNext]_bootVars

-----------------------------------------------------------------------------
(* The invariant.                                                          *)

Distinct(seq) == \A m, n \in DOMAIN seq : seq[m] = seq[n] => m = n
Upto(seq, n) == {seq[k] : k \in 1 .. n}
From(seq, n) == {seq[k] : k \in n .. Len(seq)}

\* Targets are published by those who are active, and nobody was loaded through
\* anybody else.
EngineInv ==
    /\ state \in [Instances -> {"absent", "registered", "active"}]
    /\ hosts \in [Targets -> Instances \cup {Nobody}]
    /\ uses \in [Instances -> SUBSET Instances]
    /\ \A t \in Targets : hosts[t] # Nobody => hosts[t] \in Active /\ t \in Publishes(hosts[t])
    /\ \A i \in Active : \A t \in Publishes(i) : hosts[t] = i
    /\ \A i \in Instances : uses[i] \subseteq Active
    /\ \A i \in Instances : state[i] = "absent" => uses[i] = {}

\* What was started, in this order: after whom it was loaded through, and when what
\* it requires had been started (but for what the scope had before).
InStartOrder(s, registered, started) ==
    /\ registered \in Seq(Instances) /\ started \in Seq(Instances)
    /\ Distinct(registered) /\ Distinct(started)
    /\ ToSet(registered) \subseteq InScope(s, Present)
    /\ ToSet(started) = ToSet(registered) \cap Active
    /\ \A m, n \in DOMAIN started : started[m] \in uses[started[n]] => m < n
    /\ \A n \in DOMAIN started :
          Unresolved(s, started[n], Upto(started, n) \cup (InScope(s, Active) \ ToSet(registered))) = {}

UpInv ==
    /\ IsFiniteSet(DOMAIN standing) /\ DOMAIN standing \subseteq Scopes
    /\ DOMAIN standing # {} => Host \in DOMAIN standing
    /\ \A s \in DOMAIN standing :
          /\ s \in platform /\ Members(s) \subseteq Active
          /\ ToSet(standing[s].registered) = Members(s)
          /\ InStartOrder(s, standing[s].registered, standing[s].started)

\* A job works on a scope that is not up.
Alone(s) ==
    /\ s \in (Scopes \cap platform) \ DOMAIN standing
    /\ IF s = Host THEN DOMAIN standing = {} ELSE Host \in DOMAIN standing

\* What was there before is closed, and there with what the job has registered.
Added(before, mine) ==
    /\ before \subseteq Instances
    /\ Present = before \cup mine /\ before \cap mine = {}
    /\ \A d \in before : uses[d] \subseteq before

IsWork(j) ==
    j = [phase |-> j.phase, scope |-> j.scope, todo |-> j.todo, next |-> j.next, boot |-> j.boot,
         progress |-> j.progress, at |-> j.at, expanded |-> j.expanded, batch |-> j.batch,
         edges |-> j.edges, registered |-> j.registered, started |-> j.started,
         before |-> j.before]

\* The work of an activation: who is where.
Lists ==
    /\ IsWork(job) /\ Alone(job.scope)
    /\ InStartOrder(job.scope, job.registered, job.started)
    /\ Added(job.before, ToSet(job.registered))
    /\ job.todo \in Seq(Instances) /\ job.next \in Seq(Instances)
    /\ Members(job.scope) = ToSet(job.todo) \cup ToSet(job.next) \cup ToSet(job.registered)
    /\ job.phase # "load" => job.todo = <<>>
    /\ job.phase \in {"plan", "batch"} => job.next = <<>>

\* The rounds: publishers are in the bootstrap, and without progress everybody who
\* waits still does.
Rounds ==
    /\ job.boot \subseteq ToSet(job.registered)
    /\ \A i \in ToSet(job.registered) : Publishes(i) # {} => i \in job.boot
    /\ ~job.progress => \A i \in ToSet(job.next) : Missing(i) # {}
    /\ job.phase = "boot" => job.next # <<>> /\ job.at \in Nat

\* In a pass that has fetched nobody, those passed over cannot start, and whom they
\* wait for is in the bootstrap.
Passes ==
    job.phase = "boot" /\ ~job.expanded =>
        \A n \in DOMAIN Order(job.scope) :
            LET i == Order(job.scope)[n] IN
            n <= job.at /\ i \in job.boot \ ToSet(job.started) =>
                ~MayStart(job.scope, i) /\ Expansion(job.scope, i) \subseteq job.boot

\* The batch can be started in some order.
Planned ==
    job.phase = "batch" =>
        /\ job.batch = ToSet(job.registered) \ ToSet(job.started)
        /\ job.edges \subseteq Instances \X Instances
        /\ Edges(job.scope, job.batch, Members(job.scope)) \subseteq job.edges
        /\ ~Cyclic(job.batch, job.edges)
        /\ \A i \in job.batch : Unresolved(job.scope, i, Members(job.scope)) = {}

WorkInv == Lists /\ Rounds /\ Passes /\ Planned

\* What is to be cleaned up: dependents before those they were loaded through,
\* and whoever is active after those that need it.
Ordered(s, left) ==
    /\ left \in Seq(Instances) /\ Distinct(left) /\ ToSet(left) \subseteq InScope(s, Present)
    /\ \A m, n \in DOMAIN left : left[m] \in uses[left[n]] => n < m
    /\ \A n \in DOMAIN left :
          left[n] \in Active =>
             Unresolved(s, left[n], (From(left, n) \cap Active)
                                       \cup (InScope(s, Active) \ ToSet(left))) = {}

UndoInv ==
    /\ job = [phase |-> "undo", scope |-> job.scope, left |-> job.left, why |-> job.why,
              before |-> job.before]
    /\ Alone(job.scope) /\ Ordered(job.scope, job.left)
    /\ job.why \in {"refused", "error"} => Added(job.before, ToSet(job.left))
    /\ job.why \in {"down", "shutdown"} =>
          \A i \in InScope(job.scope, Present) \ ToSet(job.left) :
             \E d \in Dependents(i) : d \notin ToSet(job.left)
    /\ job.why \in {"refused", "error", "down", "shutdown"}
    /\ job.why = "refused" => ~Possible(job.scope, Outside)

Busy == {"load", "boot", "plan", "batch"}

BootInv ==
    /\ WellFormed(composition) /\ EngineInv /\ UpInv
    /\ job.phase \in {"idle", "next", "undo"} \cup Busy
    /\ job.phase \in Busy => WorkInv
    /\ job.phase = "undo" => UndoInv

-----------------------------------------------------------------------------
(* Numbers and sequences.                                                  *)

\* Every set of numbers has a least one: no sequence of intervals shrinks for ever.
LEMMA LeastNumber ==
    ASSUME NEW T, T \subseteq Nat, T # {}
    PROVE  \E n \in T : \A m \in T : n <= m
<1> DEFINE Intervals == {1 .. n : n \in T}
<1>1. IsWellFoundedOn(StrictSubsetOrdering(Nat), FiniteSubsetsOf(Nat))
  BY FS_StrictSubsetOrderingWellFounded
<1>2. Intervals \subseteq FiniteSubsetsOf(Nat)
  BY FS_Interval DEF FiniteSubsetsOf
<1>3. Intervals # {}
  OBVIOUS
<1> HIDE DEF Intervals
<1>4. PICK s \in Intervals : \A t \in Intervals : ~(<<t, s>> \in StrictSubsetOrdering(Nat))
  BY <1>1, <1>2, <1>3, WFMin
<1> USE DEF Intervals
<1>5. PICK n \in T : s = 1 .. n
  BY <1>4
<1>6. ASSUME NEW m \in T, m < n PROVE FALSE
  <2>1. 1 .. m \in Intervals
    OBVIOUS
  <2>2. <<1 .. m, s>> \in StrictSubsetOrdering(Nat)
    BY <1>5, <1>6 DEF StrictSubsetOrdering
  <2> QED BY <2>1, <2>2, <1>4
<1> QED BY <1>6

\* A set with 0 and the successor of each of its numbers has all of them.
LEMMA NumberInduction ==
    ASSUME NEW S, 0 \in S, \A n \in Nat : n \in S => n + 1 \in S
    PROVE  Nat \subseteq S
<1> SUFFICES ASSUME ~(Nat \subseteq S) PROVE FALSE
  OBVIOUS
<1>1. PICK n \in Nat \ S : \A m \in Nat \ S : n <= m
  BY LeastNumber
<1>2. n # 0 /\ n - 1 \in Nat /\ ~(n <= n - 1)
  OBVIOUS
<1> QED BY <1>1, <1>2

LEMMA SeqFacts ==
    ASSUME NEW seq \in Seq(Instances)
    PROVE  /\ Len(seq) \in Nat /\ DOMAIN seq = 1 .. Len(seq)
           /\ ToSet(seq) \subseteq Instances
           /\ \A n \in DOMAIN seq : seq[n] \in ToSet(seq)
           /\ \A x \in ToSet(seq) : \E n \in DOMAIN seq : seq[n] = x
           /\ seq = <<>> <=> ToSet(seq) = {}
  BY DEF ToSet

LEMMA LongerFacts ==
    ASSUME NEW seq \in Seq(Instances), NEW x \in Instances
    PROVE  /\ Append(seq, x) \in Seq(Instances)
           /\ Len(Append(seq, x)) = Len(seq) + 1
           /\ \A n \in 1 .. Len(seq) : Append(seq, x)[n] = seq[n]
           /\ Append(seq, x)[Len(seq) + 1] = x
           /\ ToSet(Append(seq, x)) = ToSet(seq) \cup {x}
           /\ Distinct(seq) /\ x \notin ToSet(seq) => Distinct(Append(seq, x))
<1> DEFINE longer == Append(seq, x)
<1>1. /\ longer \in Seq(Instances) /\ Len(longer) = Len(seq) + 1 /\ Len(seq) \in Nat
      /\ DOMAIN longer = 1 .. Len(seq) + 1 /\ DOMAIN seq = 1 .. Len(seq)
      /\ \A n \in 1 .. Len(seq) : longer[n] = seq[n]
      /\ longer[Len(seq) + 1] = x
  OBVIOUS
<1> HIDE DEF longer
<1>2. ToSet(longer) = ToSet(seq) \cup {x} BY <1>1 DEF ToSet
<1>3. Distinct(seq) /\ x \notin ToSet(seq) => Distinct(longer) BY <1>1 DEF ToSet, Distinct
<1> QED BY <1>1, <1>2, <1>3 DEF longer

LEMMA RestFacts ==
    ASSUME NEW seq \in Seq(Instances), seq # <<>>
    PROVE  /\ Tail(seq) \in Seq(Instances) /\ Head(seq) \in Instances
           /\ Len(Tail(seq)) = Len(seq) - 1
           /\ \A n \in 1 .. Len(seq) - 1 : Tail(seq)[n] = seq[n + 1]
           /\ Head(seq) = seq[1] /\ 1 \in DOMAIN seq
           /\ ToSet(seq) = ToSet(Tail(seq)) \cup {Head(seq)}
           /\ Distinct(seq) => Distinct(Tail(seq)) /\ Head(seq) \notin ToSet(Tail(seq))
<1> DEFINE rest == Tail(seq)
           first == Head(seq)
<1>1. /\ rest \in Seq(Instances) /\ Len(rest) = Len(seq) - 1 /\ Len(seq) \in Nat \ {0} /\ first \in Instances
      /\ DOMAIN rest = 1 .. Len(seq) - 1 /\ DOMAIN seq = 1 .. Len(seq)
      /\ \A n \in 1 .. Len(seq) - 1 : rest[n] = seq[n + 1]
      /\ first = seq[1]
  OBVIOUS
<1> HIDE DEF rest, first
<1>2. ToSet(seq) = ToSet(rest) \cup {first}
  <2>1. ASSUME NEW n \in DOMAIN seq, n # 1 PROVE n - 1 \in DOMAIN rest /\ seq[n] = rest[n - 1]
    <3>1. n - 1 \in 1 .. Len(seq) - 1 /\ (n - 1) + 1 = n BY <1>1, <2>1
    <3> QED BY <1>1, <3>1
  <2>2. \A n \in DOMAIN rest : n + 1 \in DOMAIN seq /\ rest[n] = seq[n + 1] BY <1>1
  <2>3. ToSet(seq) \subseteq ToSet(rest) \cup {first}
    BY <1>1, <2>1 DEF ToSet
  <2>4. ToSet(rest) \cup {first} \subseteq ToSet(seq)
    <3>1. 1 \in DOMAIN seq BY <1>1
    <3> QED BY <1>1, <2>2, <3>1 DEF ToSet
  <2> QED BY <2>3, <2>4
<1>3. Distinct(seq) => Distinct(rest) /\ first \notin ToSet(rest)
  <2>1. \A n \in DOMAIN rest : n + 1 \in DOMAIN seq /\ n + 1 # 1 /\ rest[n] = seq[n + 1] BY <1>1
  <2>2. \A m, n \in DOMAIN rest : m + 1 = n + 1 => m = n BY <1>1
  <2> QED BY <1>1, <2>1, <2>2 DEF ToSet, Distinct
<1> QED BY <1>1, <1>2, <1>3 DEF rest, first
-----------------------------------------------------------------------------
(* The order of a cleanup.                                                 *)

\* f holds what is left of a sequence after each of its first n elements.
Skips(f, seq, S, n) ==
    f = [k \in 0 .. n |-> IF k = 0 THEN <<>> ELSE Skipping(f[k - 1], seq[k], S)]

LEMMA RemaindersDef ==
    ASSUME NEW seq, NEW S, Len(seq) \in Nat
    PROVE  Skips(Remainders(seq, S), seq, S, Len(seq))
<1> DEFINE N == {n \in Nat : \E f : Skips(f, seq, S, n)}
<1>1. 0 \in N
  <2>1. Skips([k \in 0 .. 0 |-> <<>>], seq, S, 0) BY DEF Skips
  <2> QED BY <2>1
<1>2. ASSUME NEW n \in Nat, n \in N PROVE n + 1 \in N
  <2>1. PICK f : Skips(f, seq, S, n) BY <1>2
  <2> DEFINE g == [k \in 0 .. n + 1 |-> IF k = n + 1 THEN Skipping(f[n], seq[n + 1], S) ELSE f[k]]
  <2>2. ASSUME NEW k \in 0 .. n + 1
        PROVE  g[k] = IF k = 0 THEN <<>> ELSE Skipping(g[k - 1], seq[k], S)
    BY <2>1 DEF Skips
  <2> HIDE DEF g
  <2>3. g = [k \in 0 .. n + 1 |-> g[k]] BY DEF g
  <2>4. Skips(g, seq, S, n + 1) BY <2>2, <2>3 DEF Skips
  <2> QED BY <2>4
<1>3. Nat \subseteq N BY <1>1, <1>2, NumberInduction
<1>4. \E f : Skips(f, seq, S, Len(seq)) BY <1>3
<1> QED BY <1>4 DEF Remainders, Skips

\* What is left are the elements that are not in S, once each.
LEMMA RemaindersFacts ==
    ASSUME NEW seq \in Seq(Instances), Distinct(seq), NEW S
    PROVE  LET r == Remainders(seq, S)[Len(seq)]
           IN r \in Seq(Instances) /\ Distinct(r) /\ ToSet(r) = ToSet(seq) \ S
<1> DEFINE f == Remainders(seq, S)
           Orders == Seq(Instances)
           Right(n) == f[n] \in Orders /\ Distinct(f[n]) /\ ToSet(f[n]) = Upto(seq, n) \ S
           N == {n \in Nat : n <= Len(seq) => Right(n)}
<1>1. /\ Len(seq) \in Nat /\ DOMAIN seq = 1 .. Len(seq) /\ \A n \in 1 .. Len(seq) : seq[n] \in Instances
  BY SeqFacts
<1>2. Skips(f, seq, S, Len(seq)) BY <1>1, RemaindersDef
<1> HIDE DEF f
<1>3. f[0] = <<>> /\ \A k \in 1 .. Len(seq) : f[k] = Skipping(f[k - 1], seq[k], S)
  BY <1>1, <1>2 DEF Skips
<1>4. 0 \in N
  <2>1. <<>> \in Orders /\ DOMAIN <<>> = {} OBVIOUS
  <2>2. Upto(seq, 0) = {} BY DEF Upto
  <2>3. ToSet(<<>>) = {} /\ Distinct(<<>>) BY <2>1 DEF ToSet, Distinct
  <2>4. Right(0) BY <1>3, <2>1, <2>2, <2>3
  <2> QED BY <2>4
<1>5. ASSUME NEW n \in Nat, n \in N PROVE n + 1 \in N
  <2> SUFFICES ASSUME n + 1 <= Len(seq) PROVE Right(n + 1) OBVIOUS
  <2>1. n + 1 \in 1 .. Len(seq) /\ (n + 1) - 1 = n /\ Right(n) BY <1>1, <1>5
  <2>2. PICK x : x = seq[n + 1] OBVIOUS
  <2>3. x \in Instances /\ f[n + 1] = Skipping(f[n], x, S) BY <1>1, <1>3, <2>1, <2>2
  <2>4. Upto(seq, n + 1) = Upto(seq, n) \cup {x} BY <2>2 DEF Upto
  <2>5. x \notin Upto(seq, n)
    <3>1. \A k \in 1 .. n : k \in 1 .. Len(seq) /\ k # n + 1 BY <2>1, <1>1
    <3> QED BY <1>1, <2>1, <2>2, <3>1 DEF Upto, Distinct
  <2>6. PICK r : r = f[n] OBVIOUS
  <2>7. r \in Seq(Instances) /\ Distinct(r) /\ ToSet(r) = Upto(seq, n) \ S BY <2>1, <2>6
  <2>8. CASE x \in S
    <3>1. f[n + 1] = r BY <2>3, <2>6, <2>8 DEF Skipping
    <3>2. ToSet(r) = Upto(seq, n + 1) \ S BY <2>4, <2>7, <2>8
    <3> QED BY <3>1, <3>2, <2>7
  <2>9. CASE x \notin S
    <3>1. f[n + 1] = Append(r, x) BY <2>3, <2>6, <2>9 DEF Skipping
    <3>2. /\ Append(r, x) \in Seq(Instances) /\ ToSet(Append(r, x)) = ToSet(r) \cup {x}
          /\ Distinct(Append(r, x))
      BY <2>3, <2>5, <2>7, LongerFacts
    <3>3. ToSet(Append(r, x)) = Upto(seq, n + 1) \ S BY <2>4, <2>7, <2>9, <3>2
    <3> QED BY <3>1, <3>2, <3>3
  <2> QED BY <2>8, <2>9
<1>6. Nat \subseteq N
  <2> HIDE DEF N
  <2> QED BY <1>4, <1>5, NumberInduction
<1>7. Right(Len(seq)) BY <1>1, <1>6
<1>8. Upto(seq, Len(seq)) = ToSet(seq) BY <1>1 DEF Upto, ToSet
<1> QED BY <1>7, <1>8 DEF f

LEMMA ReverseFacts ==
    ASSUME NEW seq \in Seq(Instances), NEW r, r = Reverse(seq)
    PROVE  r \in Seq(Instances) /\ Len(r) = Len(seq) /\ \A n \in 1 .. Len(seq) : r[n] = seq[(Len(seq) - n) + 1]
<1>1. r = [n \in 1 .. Len(seq) |-> seq[(Len(seq) - n) + 1]] BY DEF Reverse
<1>2. \A n \in 1 .. Len(seq) : (Len(seq) - n) + 1 \in 1 .. Len(seq) /\ seq[(Len(seq) - n) + 1] \in Instances
  OBVIOUS
<1>3. r \in [1 .. Len(seq) -> Instances] BY <1>1, <1>2
<1> QED BY <1>1, <1>3

LEMMA ConcatLength ==
    ASSUME NEW r \in Seq(Instances), NEW s \in Seq(Instances)
    PROVE  Len(r \o s) = Len(r) + Len(s)
  OBVIOUS

\* One sequence after the other, each from its end.
LEMMA BackwardFacts ==
    ASSUME NEW u \in Seq(Instances), NEW v \in Seq(Instances), NEW c, c = Reverse(u) \o Reverse(v)
    PROVE  /\ c \in Seq(Instances) /\ Len(c) = Len(u) + Len(v)
           /\ \A n \in 1 .. Len(u) : c[n] = u[(Len(u) - n) + 1]
           /\ \A n \in Len(u) + 1 .. Len(u) + Len(v) : c[n] = v[(Len(u) + Len(v)) + 1 - n]
<1>1. PICK r, s : r = Reverse(u) /\ s = Reverse(v) OBVIOUS
<1>2. r \in Seq(Instances) /\ Len(r) = Len(u) BY <1>1, ReverseFacts
<1>3. \A n \in 1 .. Len(u) : r[n] = u[(Len(u) - n) + 1] BY <1>1, ReverseFacts
<1>4. s \in Seq(Instances) /\ Len(s) = Len(v) BY <1>1, ReverseFacts
<1>5. \A n \in 1 .. Len(v) : s[n] = v[(Len(v) - n) + 1] BY <1>1, ReverseFacts
<1>6. c = r \o s BY <1>1
<1>7. c \in Seq(Instances) /\ Len(c) = Len(u) + Len(v)
  <2>1. c \in Seq(Instances) BY <1>2, <1>4, <1>6
  <2>2. Len(c) = Len(r) + Len(s) BY <1>2, <1>4, <1>6, ConcatLength
  <2> QED BY <1>2, <1>4, <2>1, <2>2
<1>8. \A n \in 1 .. Len(u) : c[n] = r[n] BY <1>2, <1>4, <1>6
<1>9. \A n \in Len(u) + 1 .. Len(u) + Len(v) : c[n] = s[n - Len(u)] BY <1>2, <1>4, <1>6
<1>10. ASSUME NEW n \in Len(u) + 1 .. Len(u) + Len(v) PROVE c[n] = v[(Len(u) + Len(v)) + 1 - n]
  <2>1. n - Len(u) \in 1 .. Len(v) /\ (Len(v) - (n - Len(u))) + 1 = (Len(u) + Len(v)) + 1 - n OBVIOUS
  <2>2. s[n - Len(u)] = v[(Len(v) - (n - Len(u))) + 1] BY <1>5, <2>1
  <2> QED BY <1>9, <2>1, <2>2
<1> QED BY <1>3, <1>7, <1>8, <1>10

LEMMA BackwardLater ==
    ASSUME NEW u \in Seq(Instances), NEW v \in Seq(Instances), NEW c, c = Reverse(u) \o Reverse(v),
           NEW n \in Len(u) + 1 .. Len(u) + Len(v)
    PROVE  c[n] = v[(Len(u) + Len(v)) + 1 - n]
  BY BackwardFacts

\* What was never started comes first, then what was, the latest first.
LEMMA CleanupFacts ==
    ASSUME NEW R \in Seq(Instances), NEW St \in Seq(Instances), Distinct(R), Distinct(St),
           ToSet(St) \subseteq ToSet(R), NEW C, C = Cleanup(R, St)
    PROVE  /\ C \in Seq(Instances) /\ Distinct(C) /\ ToSet(C) = ToSet(R)
           /\ \A n \in DOMAIN C : C[n] \in ToSet(St) =>
                 \E j \in DOMAIN St : C[n] = St[j] /\ From(C, n) = Upto(St, j)
<1>1. PICK u : u = Unstarted(R, St) OBVIOUS
<1>2. u \in Seq(Instances) /\ Distinct(u) /\ ToSet(u) = ToSet(R) \ ToSet(St)
  BY <1>1, RemaindersFacts DEF Unstarted
<1>3. PICK a, b : a = Len(u) /\ b = Len(St) OBVIOUS
<1>4. /\ a \in Nat /\ DOMAIN u = 1 .. a
      /\ \A n \in 1 .. a : u[n] \in Instances /\ u[n] \in ToSet(u)
      /\ \A x \in ToSet(u) : \E n \in DOMAIN u : u[n] = x
  <2>1. a \in Nat /\ DOMAIN u = 1 .. a /\ \A n \in 1 .. a : u[n] \in Instances BY <1>2, <1>3
  <2>2. \A n \in DOMAIN u : u[n] \in ToSet(u) BY DEF ToSet
  <2>3. \A x \in ToSet(u) : \E n \in DOMAIN u : u[n] = x BY DEF ToSet
  <2> QED BY <2>1, <2>2, <2>3
<1>5. /\ b \in Nat /\ DOMAIN St = 1 .. b
      /\ \A n \in 1 .. b : St[n] \in Instances /\ St[n] \in ToSet(St)
      /\ \A x \in ToSet(St) : \E n \in DOMAIN St : St[n] = x
  <2>1. b \in Nat /\ DOMAIN St = 1 .. b /\ \A n \in 1 .. b : St[n] \in Instances BY <1>3
  <2>2. \A n \in DOMAIN St : St[n] \in ToSet(St) BY DEF ToSet
  <2>3. \A x \in ToSet(St) : \E n \in DOMAIN St : St[n] = x BY DEF ToSet
  <2> QED BY <2>1, <2>2, <2>3
<1>6. C = Reverse(u) \o Reverse(St) BY <1>1 DEF Cleanup
<1>7. \A n \in 1 .. a : (a - n) + 1 \in 1 .. a
  BY <1>4
<1>8. /\ C \in Seq(Instances) /\ Len(C) = a + b
      /\ \A n \in 1 .. a : C[n] = u[(a - n) + 1]
      /\ \A n \in a + 1 .. a + b : C[n] = St[(a + b) + 1 - n]
  <2>1. u \in Seq(Instances) BY <1>2
  <2>2. /\ C \in Seq(Instances) /\ Len(C) = Len(u) + Len(St)
        /\ \A n \in 1 .. Len(u) : C[n] = u[(Len(u) - n) + 1]
        /\ \A n \in Len(u) + 1 .. Len(u) + Len(St) : C[n] = St[(Len(u) + Len(St)) + 1 - n]
    <3>1. C \in Seq(Instances) /\ Len(C) = Len(u) + Len(St) BY <2>1, <1>6, BackwardFacts
    <3>2. ASSUME NEW n \in 1 .. Len(u) PROVE C[n] = u[(Len(u) - n) + 1]
      BY <2>1, <1>6, BackwardFacts
    <3>3. ASSUME NEW n \in Len(u) + 1 .. Len(u) + Len(St)
          PROVE  C[n] = St[(Len(u) + Len(St)) + 1 - n]
      BY <2>1, <1>6, BackwardLater
    <3> QED BY <3>1, <3>2, <3>3
  <2> QED BY <1>3, <2>2
<1>9. DOMAIN C = 1 .. a + b BY <1>4, <1>5, <1>8
<1>10. ASSUME NEW n \in a + 1 .. a + b
       PROVE  (a + b) + 1 - n \in 1 .. b /\ C[n] = St[(a + b) + 1 - n]
  BY <1>4, <1>5, <1>8, <1>9
<1> HIDE DEF Distinct
<1>11. \A n \in DOMAIN C : n \in 1 .. a \/ n \in a + 1 .. a + b
  BY <1>4, <1>5, <1>8, <1>9
<1>12. \A n \in 1 .. a : C[n] \in ToSet(R) \ ToSet(St)
  BY <1>2, <1>4, <1>5, <1>7, <1>8
<1>13. \A n \in a + 1 .. a + b : C[n] \in ToSet(St)
  BY <1>4, <1>5, <1>10
<1>14. Distinct(C)
  <2> SUFFICES ASSUME NEW m \in DOMAIN C, NEW n \in DOMAIN C, C[m] = C[n] PROVE m = n
    BY DEF Distinct
  <2>1. CASE m \in 1 .. a /\ n \in 1 .. a
    <3>1. /\ (a - m) + 1 \in DOMAIN u /\ (a - n) + 1 \in DOMAIN u
          /\ u[(a - m) + 1] = u[(a - n) + 1]
      BY <1>4, <1>7, <1>8, <2>1
    <3>2. (a - m) + 1 = (a - n) + 1 BY <1>2, <3>1 DEF Distinct
    <3> QED BY <1>4, <1>5, <2>1, <3>2
  <2>2. CASE m \in a + 1 .. a + b /\ n \in a + 1 .. a + b
    <3>1. /\ (a + b) + 1 - m \in DOMAIN St /\ (a + b) + 1 - n \in DOMAIN St
          /\ St[(a + b) + 1 - m] = St[(a + b) + 1 - n]
      BY <1>5, <1>10, <2>2
    <3>2. (a + b) + 1 - m = (a + b) + 1 - n BY <3>1 DEF Distinct
    <3> QED BY <1>4, <1>5, <2>2, <3>2
  <2> QED BY <1>11, <1>12, <1>13, <2>1, <2>2
<1>15. ToSet(C) \subseteq ToSet(R)
  BY <1>11, <1>12, <1>13 DEF ToSet
<1>16. ASSUME NEW x \in ToSet(R) PROVE x \in ToSet(C)
  <2>1. CASE x \in ToSet(St)
    <3>1. PICK j \in DOMAIN St : St[j] = x BY <2>1 DEF ToSet
    <3>2. PICK n : n = (a + b) + 1 - j OBVIOUS
    <3>3. n \in a + 1 .. a + b /\ (a + b) + 1 - n = j BY <1>4, <1>5, <3>1, <3>2
    <3>4. n \in DOMAIN C /\ C[n] = x BY <1>4, <1>5, <1>8, <1>9, <1>10, <3>1, <3>3
    <3> QED BY <3>4 DEF ToSet
  <2>2. CASE x \notin ToSet(St)
    <3>1. x \in ToSet(u) BY <1>2, <2>2
    <3>2. PICK j \in DOMAIN u : u[j] = x BY <3>1 DEF ToSet
    <3>3. PICK n : n = (a - j) + 1 OBVIOUS
    <3>4. n \in 1 .. a /\ (a - n) + 1 = j BY <1>4, <3>2, <3>3
    <3>5. n \in DOMAIN C /\ C[n] = x BY <1>4, <1>5, <1>8, <1>9, <3>2, <3>4
    <3> QED BY <3>5 DEF ToSet
  <2> QED BY <2>1, <2>2
<1>17. ASSUME NEW n \in DOMAIN C, C[n] \in ToSet(St)
       PROVE  \E j \in DOMAIN St : C[n] = St[j] /\ From(C, n) = Upto(St, j)
  <2>1. n \in a + 1 .. a + b BY <1>11, <1>12, <1>17
  <2>2. PICK j : j = (a + b) + 1 - n OBVIOUS
  <2>3. j \in 1 .. b /\ C[n] = St[j] BY <1>10, <2>1, <2>2
  <2>4. ASSUME NEW k \in n .. a + b PROVE C[k] \in Upto(St, j)
    <3>1. k \in a + 1 .. a + b /\ (a + b) + 1 - k \in 1 .. j BY <1>4, <1>5, <2>1, <2>2
    <3> QED BY <1>10, <3>1 DEF Upto
  <2>5. ASSUME NEW k \in 1 .. j PROVE St[k] \in From(C, n)
    <3>1. PICK m : m = (a + b) + 1 - k OBVIOUS
    <3>2. m \in n .. a + b /\ m \in a + 1 .. a + b /\ (a + b) + 1 - m = k BY <1>4, <1>5, <2>1, <2>2, <3>1
    <3>3. C[m] = St[k] BY <1>10, <3>2
    <3> QED BY <1>8, <3>2, <3>3 DEF From
  <2>6. From(C, n) = Upto(St, j) BY <1>8, <2>4, <2>5 DEF From, Upto
  <2> QED BY <1>4, <1>5, <2>3, <2>6
<1> QED BY <1>8, <1>14, <1>15, <1>16, <1>17
-----------------------------------------------------------------------------
(* Contracts.                                                              *)

\* More instances bind more contracts.
LEMMA BoundMore ==
    ASSUME NEW s, NEW c, NEW E, NEW F, E \subseteq F, Bound(s, c, E)
    PROVE  Bound(s, c, F)
<1>1. Platform(s, c) \/ Definers(c, F) # {}
  BY DEF Bound, Definers
<1>2. Providers(s, c, F) # {}
  <2>1. Providers(s, c, E) # {} BY DEF Bound
  <2>2. \E i \in E : c \in Provides(i) BY <2>1 DEF Providers
  <2>3. CASE c \in composition.multiple BY <2>2, <2>3 DEF Providers
  <2>4. CASE c \notin composition.multiple /\ c \in DOMAIN composition.preferred[s]
    BY <2>1, <2>4 DEF Providers
  <2>5. CASE c \notin composition.multiple /\ c \notin DOMAIN composition.preferred[s]
    BY <2>2, <2>5 DEF Providers
  <2> QED BY <2>3, <2>4, <2>5
<1> QED BY <1>1, <1>2 DEF Bound

LEMMA UnresolvedLess ==
    ASSUME NEW s, NEW i, NEW E, NEW F, E \subseteq F, Unresolved(s, i, E) = {}
    PROVE  Unresolved(s, i, F) = {}
<1> SUFFICES ASSUME NEW c \in Requires(i), ~Bound(s, c, F) PROVE FALSE
  BY DEF Unresolved
<1>1. Bound(s, c, E) BY DEF Unresolved
<1> QED BY <1>1, BoundMore

\* Who is bound to what depends on the profile and the platform of the scope only.
LEMMA UnresolvedSame ==
    ASSUME NEW s, NEW i, NEW E, composition' = composition, s \in platform' <=> s \in platform
    PROVE  Unresolved(s, i, E)' = Unresolved(s, i, E)
<1>1. \A c : Platform(s, c)' <=> Platform(s, c) BY DEF Platform
<1>2. \A c : Providers(s, c, E)' = Providers(s, c, E) BY DEF Providers, Provides
<1>3. \A c : Definers(c, E)' = Definers(c, E) BY DEF Definers, Defines
<1>4. Requires(i)' = Requires(i) BY DEF Requires
<1>5. \A c : Bound(s, c, E)' <=> Bound(s, c, E) BY <1>1, <1>2, <1>3 DEF Bound
<1> QED BY <1>4, <1>5 DEF Unresolved

-----------------------------------------------------------------------------
(* What stays.                                                             *)

LEMMA MembersFacts ==
    ASSUME WellFormed(composition), NEW s \in Scopes
    PROVE  /\ Order(s) \in Seq(Instances) /\ Members(s) \subseteq Instances
           /\ \A r \in Scopes : r # s => Members(r) \cap Members(s) = {}
<1>1. Order(s) \in Seq(Instances) BY DEF WellFormed, Order
<1>2. Members(s) \subseteq Instances BY <1>1, SeqFacts DEF Members
<1>3. \A r \in Scopes : r # s => Members(r) \cap Members(s) = {} BY DEF WellFormed, Order, Members
<1> QED BY <1>1, <1>2, <1>3

\* A record stays good while nobody of the scope is touched.
LEMMA RecordedStays ==
    ASSUME WellFormed(composition), composition' = composition, NEW s \in Scopes,
           s \in platform' <=> s \in platform,
           \A i \in Members(s) : state'[i] = state[i] /\ uses'[i] = uses[i],
           NEW R, NEW St, InStartOrder(s, R, St)
    PROVE  InStartOrder(s, R, St)'
<1>1. Members(s)' = Members(s) BY DEF Members, Order
<1>2. Members(s) \subseteq Instances BY MembersFacts
<1>3. InScope(s, Present)' = InScope(s, Present) /\ InScope(s, Active)' = InScope(s, Active)
  BY <1>1, <1>2 DEF InScope, Present, Active
<1>4. /\ R \in Seq(Instances) /\ St \in Seq(Instances) /\ Distinct(R) /\ Distinct(St)
      /\ ToSet(R) \subseteq InScope(s, Present)
      /\ ToSet(St) = ToSet(R) \cap Active
  BY DEF InStartOrder
<1>5. ToSet(R) \subseteq Members(s) /\ ToSet(R) \subseteq Instances BY <1>2, <1>4 DEF InScope
<1>6. ToSet(R) \cap Active' = ToSet(R) \cap Active BY <1>5 DEF Active
<1>7. ASSUME NEW m \in DOMAIN St, NEW n \in DOMAIN St, St[m] \in uses'[St[n]] PROVE m < n
  <2>1. St[n] \in Members(s) BY <1>4, <1>5 DEF ToSet
  <2> QED BY <1>7, <2>1 DEF InStartOrder
<1>8. ASSUME NEW n \in DOMAIN St
      PROVE  Unresolved(s, St[n], Upto(St, n) \cup (InScope(s, Active) \ ToSet(R)))' = {}
  <2>1. PICK E : E = Upto(St, n) \cup (InScope(s, Active) \ ToSet(R)) OBVIOUS
  <2>2. E = (Upto(St, n) \cup (InScope(s, Active) \ ToSet(R)))' BY <1>3, <2>1
  <2>3. Unresolved(s, St[n], E) = {} BY <2>1 DEF InStartOrder
  <2>4. Unresolved(s, St[n], E)' = {} BY <2>3, UnresolvedSame
  <2> QED BY <2>2, <2>4
<1> QED BY <1>3, <1>4, <1>6, <1>7, <1>8 DEF InStartOrder

\* So what is up stays as it is while others are worked on.
LEMMA UpStays ==
    ASSUME WellFormed(composition), UpInv, composition' = composition, NEW gone,
           DOMAIN standing' = DOMAIN standing \ gone, gone = {} \/ Host \notin gone \/ DOMAIN standing \subseteq gone,
           \A s \in DOMAIN standing' :
              /\ standing'[s] = standing[s] /\ s \in platform'
              /\ \A i \in Members(s) : state'[i] = state[i] /\ uses'[i] = uses[i]
    PROVE  UpInv'
<1>1. IsFiniteSet(DOMAIN standing') /\ DOMAIN standing' \subseteq Scopes BY FS_Subset DEF UpInv
<1>2. DOMAIN standing' # {} => Host \in DOMAIN standing' BY DEF UpInv
<1>3. ASSUME NEW s \in DOMAIN standing'
      PROVE  /\ s \in platform' /\ Members(s)' \subseteq Active'
             /\ ToSet(standing'[s].registered) = Members(s)'
             /\ InStartOrder(s, standing[s].registered, standing[s].started)'
  <2>1. s \in DOMAIN standing /\ s \in Scopes /\ s \in platform BY <1>1 DEF UpInv
  <2>2. Members(s)' = Members(s) /\ Members(s) \subseteq Instances
    BY <2>1, MembersFacts DEF Members, Order
  <2>3. Members(s) \subseteq Active' BY <2>1, <2>2 DEF UpInv, Active
  <2>4. PICK R, St : R = standing[s].registered /\ St = standing[s].started OBVIOUS
  <2>5. R = standing'[s].registered /\ St = standing'[s].started /\ s \in platform' BY <2>4
  <2>6. ToSet(R) = Members(s) /\ InStartOrder(s, R, St) BY <2>1, <2>4 DEF UpInv
  <2>7. InStartOrder(s, R, St)' BY <2>1, <2>5, <2>6, RecordedStays
  <2> QED BY <2>2, <2>3, <2>5, <2>6, <2>7
<1> QED BY <1>1, <1>2, <1>3 DEF UpInv
LEMMA MinFacts ==
    ASSUME NEW T, T \subseteq Nat, T # {}
    PROVE  Min(T) \in T /\ \A n \in T : Min(T) <= n
  BY LeastNumber DEF Min

\* A finite set of numbers has a greatest: a smallest set without one could lose a
\* number.
LEMMA GreatestNumber ==
    ASSUME NEW T, T \subseteq Nat, IsFiniteSet(T), T # {}
    PROVE  \E n \in T : \A m \in T : m <= n
<1> DEFINE Topless == {S \in FiniteSubsetsOf(Nat) : S # {} /\ ~\E n \in S : \A m \in S : m <= n}
<1> SUFFICES ASSUME T \in Topless PROVE FALSE
  BY DEF FiniteSubsetsOf
<1>1. IsWellFoundedOn(StrictSubsetOrdering(Nat), FiniteSubsetsOf(Nat))
  BY FS_StrictSubsetOrderingWellFounded
<1>2. Topless \subseteq FiniteSubsetsOf(Nat) /\ Topless # {}
  OBVIOUS
<1> HIDE DEF Topless
<1>3. PICK S \in Topless : \A R \in Topless : ~(<<R, S>> \in StrictSubsetOrdering(Nat))
  BY <1>1, <1>2, WFMin
<1>4. S \subseteq Nat /\ IsFiniteSet(S) /\ S # {} /\ ~\E n \in S : \A m \in S : m <= n
  BY <1>3 DEF Topless, FiniteSubsetsOf
<1>5. PICK x \in S : TRUE
  BY <1>4
<1>6. PICK R : R = S \ {x}
  OBVIOUS
<1>7. IsFiniteSet(R) /\ R \subseteq Nat
  BY <1>4, <1>6, FS_Subset
<1>8. R # {}
  BY <1>4, <1>5, <1>6
<1>9. R \notin Topless
  BY <1>3, <1>4, <1>5, <1>6 DEF StrictSubsetOrdering
<1>10. PICK y \in R : \A m \in R : m <= y
  BY <1>7, <1>8, <1>9 DEF Topless, FiniteSubsetsOf
<1>11. x <= y \/ y <= x
  BY <1>4, <1>6
<1>12. CASE x <= y
  BY <1>4, <1>6, <1>10, <1>12
<1>13. CASE y <= x
  <2>1. \A m \in S : m <= x
    BY <1>4, <1>6, <1>7, <1>10, <1>13
  <2> QED BY <1>4, <2>1
<1> QED BY <1>11, <1>12, <1>13

-----------------------------------------------------------------------------
(* What an operation leaves alone, and what it abandons.                   *)

LEMMA EngineStays ==
    ASSUME EngineInv, UNCHANGED <<composition, engine>>
    PROVE  EngineInv'
  BY DEF EngineInv, engine, Active, Publishes

LEMMA SameScope ==
    ASSUME UNCHANGED <<composition, engine>>, NEW s
    PROVE  /\ Members(s)' = Members(s) /\ Present' = Present /\ Active' = Active
           /\ InScope(s, Present)' = InScope(s, Present) /\ InScope(s, Active)' = InScope(s, Active)
  BY DEF engine, Members, Order, Present, Active, InScope

\* Whether a composition can start depends on the profile and the platform.
LEMMA PossibleSame ==
    ASSUME NEW s, NEW outside, composition' = composition, s \in platform' <=> s \in platform
    PROVE  Possible(s, outside)' <=> Possible(s, outside)
<1>1. \A c : Platform(s, c)' <=> Platform(s, c)
  BY DEF Platform
<1>2. \A i, E : Unresolved(s, i, E)' = Unresolved(s, i, E)
  BY UnresolvedSame
<1>3. \A i : /\ Requires(i)' = Requires(i) /\ Defines(i)' = Defines(i)
             /\ Publishes(i)' = Publishes(i) /\ Needs(i)' = Needs(i)
  BY DEF Requires, Defines, Publishes, Needs
<1>4. \A c, E : Providers(s, c, E)' = Providers(s, c, E) /\ Definers(c, E)' = Definers(c, E)
  BY DEF Providers, Definers, Provides, Defines
<1>5. \A B, E : Edges(s, B, E)' = Edges(s, B, E)
  BY <1>1, <1>3, <1>4 DEF Edges
<1>6. Members(s)' = Members(s)
  BY DEF Members, Order
<1> DEFINE M == Members(s)
           Owners(t) == {i \in M : t \in Publishes(i)}
           edges == Edges(s, M, M) \cup
                    {e \in M \X M : \E t \in Needs(e[2]) \ outside : e[1] \in Owners(t)}
<1>7. \A t : Owners(t)' = Owners(t)
  BY <1>3, <1>6
<1>8. edges' = edges
  <2>1. Edges(s, M, M)' = Edges(s, M, M) BY <1>5, <1>6
  <2> QED BY <1>3, <1>6, <1>7, <2>1
<1>9. Cyclic(M, edges)' <=> Cyclic(M, edges)
  <2>1. M' = M BY <1>6
  <2> HIDE DEF M, edges
  <2> QED BY <1>8, <2>1 DEF Cyclic
<1>10. \A i : Unresolved(s, i, M)' = Unresolved(s, i, M)
  <2>1. M' = M BY <1>6
  <2> HIDE DEF M
  <2> QED BY <1>2, <2>1
<1>11. M' = M
  BY <1>6
<1>12. Possible(s, outside) <=>
       /\ \A i \in M : Unresolved(s, i, M) = {} /\ \A c \in Defines(i) : ~Platform(s, c)
       /\ \A t \in Targets : Cardinality(Owners(t)) <= 1 /\ (t \in outside => Owners(t) = {})
       /\ \A i \in M : \A t \in Needs(i) \ outside : Owners(t) # {}
       /\ ~Cyclic(M, edges)
  BY DEF Possible
<1>13. Possible(s, outside)' <=>
       /\ \A i \in M' : Unresolved(s, i, M)' = {} /\ \A c \in Defines(i)' : ~Platform(s, c)'
       /\ \A t \in Targets : Cardinality(Owners(t)') <= 1 /\ (t \in outside => Owners(t)' = {})
       /\ \A i \in M' : \A t \in Needs(i)' \ outside : Owners(t)' # {}
       /\ ~Cyclic(M, edges)'
  BY DEF Possible
<1> HIDE DEF M, Owners, edges
<1> QED BY <1>1, <1>3, <1>7, <1>9, <1>10, <1>11, <1>12, <1>13

\* The order of a cleanup is right for what was recorded.
LEMMA CleanupOrdered ==
    ASSUME WellFormed(composition), EngineInv, NEW s \in Scopes,
           NEW R, NEW St, InStartOrder(s, R, St), NEW left, left = Cleanup(R, St)
    PROVE  Ordered(s, left) /\ ToSet(left) = ToSet(R)
<1>1. /\ R \in Seq(Instances) /\ St \in Seq(Instances) /\ Distinct(R) /\ Distinct(St)
      /\ ToSet(R) \subseteq InScope(s, Present) /\ ToSet(St) = ToSet(R) \cap Active
  BY DEF InStartOrder
<1>2. ToSet(St) \subseteq ToSet(R)
  BY <1>1
<1>3. left \in Seq(Instances) /\ Distinct(left) /\ ToSet(left) = ToSet(R)
  BY <1>1, <1>2, CleanupFacts
<1>4. ASSUME NEW n \in DOMAIN left, left[n] \in Active
      PROVE  \E j \in DOMAIN St : left[n] = St[j] /\ From(left, n) = Upto(St, j)
  <2>1. left[n] \in ToSet(left) BY DEF ToSet
  <2>2. left[n] \in ToSet(St) BY <2>1, <1>1, <1>3, <1>4
  <2> QED BY <1>1, <1>2, <2>2, CleanupFacts
<1>5. ASSUME NEW m \in DOMAIN left, NEW n \in DOMAIN left, left[m] \in uses[left[n]]
      PROVE  n < m
  <2>1. left[m] \in Active /\ left[n] \in Instances BY <1>3, <1>5 DEF EngineInv
  <2>2. PICK j \in DOMAIN St : left[m] = St[j] /\ From(left, m) = Upto(St, j) BY <1>4, <2>1
  <2> SUFFICES ASSUME ~(n < m) PROVE FALSE OBVIOUS
  <2>3. m \in Nat /\ n \in Nat /\ n <= Len(left) /\ m <= n BY <1>3
  <2>4. left[n] \in From(left, m) BY <2>3 DEF From
  <2>5. PICK k \in 1 .. j : left[n] = St[k] BY <2>2, <2>4 DEF Upto
  <2>6. k \in DOMAIN St /\ j \in Nat /\ k \in Nat BY <1>1, <2>5
  <2>7. St[j] \in uses[St[k]] BY <1>5, <2>2, <2>5
  <2>8. j < k BY <2>6, <2>7 DEF InStartOrder
  <2> QED BY <2>5, <2>6, <2>8
<1>6. ASSUME NEW n \in DOMAIN left, left[n] \in Active
      PROVE  Unresolved(s, left[n], (From(left, n) \cap Active)
                                       \cup (InScope(s, Active) \ ToSet(left))) = {}
  <2>1. PICK j \in DOMAIN St : left[n] = St[j] /\ From(left, n) = Upto(St, j) BY <1>4, <1>6
  <2>2. Upto(St, j) \subseteq ToSet(St) BY <1>1 DEF Upto, ToSet
  <2>3. From(left, n) \cap Active = Upto(St, j) BY <1>1, <2>1, <2>2
  <2>4. Unresolved(s, St[j], Upto(St, j) \cup (InScope(s, Active) \ ToSet(R))) = {}
    BY DEF InStartOrder
  <2> QED BY <1>3, <2>1, <2>3, <2>4
<1>7. ToSet(left) \subseteq InScope(s, Present) BY <1>1, <1>3
<1> QED BY <1>3, <1>5, <1>6, <1>7 DEF Ordered

LEMMA OrderedStays ==
    ASSUME UNCHANGED <<composition, engine>>, NEW s, s \in platform' <=> s \in platform,
           NEW left, Ordered(s, left)
    PROVE  Ordered(s, left)'
<1>1. /\ InScope(s, Present)' = InScope(s, Present) /\ InScope(s, Active)' = InScope(s, Active)
      /\ Active' = Active /\ uses' = uses
  BY SameScope DEF engine
<1>2. ASSUME NEW n \in DOMAIN left, left[n] \in Active
      PROVE  Unresolved(s, left[n], (From(left, n) \cap Active)
                                       \cup (InScope(s, Active) \ ToSet(left)))' = {}
  <2>1. PICK E : E = (From(left, n) \cap Active) \cup (InScope(s, Active) \ ToSet(left)) OBVIOUS
  <2>2. Unresolved(s, left[n], E) = {} BY <1>2, <2>1 DEF Ordered
  <2>3. Unresolved(s, left[n], E)' = {} BY <2>2, UnresolvedSame
  <2>4. E = ((From(left, n) \cap Active) \cup (InScope(s, Active) \ ToSet(left)))' BY <1>1, <2>1
  <2> QED BY <2>3, <2>4
<1> QED BY <1>1, <1>2 DEF Ordered

\* An activation that ends badly goes over into a cleanup of what it has done.
LEMMA AbandonStep ==
    ASSUME BootInv, job.phase \in Busy, UNCHANGED <<composition, engine, platform, standing>>,
           NEW why \in {"refused", "error"}, Abandon(why),
           why = "refused" => ~Possible(job.scope, Outside)
    PROVE  BootInv'
<1>1. /\ WellFormed(composition) /\ EngineInv /\ UpInv /\ IsWork(job) /\ Alone(job.scope)
      /\ InStartOrder(job.scope, job.registered, job.started)
      /\ Added(job.before, ToSet(job.registered))
  BY DEF BootInv, WorkInv, Lists
<1>2. PICK s, R, St, before : /\ s = job.scope /\ R = job.registered /\ St = job.started
                              /\ before = job.before
  OBVIOUS
<1>3. PICK left : left = Cleanup(R, St)
  OBVIOUS
<1>4. job' = [phase |-> "undo", scope |-> s, left |-> left, why |-> why, before |-> before]
  BY <1>2, <1>3 DEF Abandon, Undo
<1>5. /\ job'.phase = "undo" /\ job'.scope = s /\ job'.left = left /\ job'.why = why
      /\ job'.before = before
  BY <1>4
<1>6. s \in Scopes
  BY <1>1, <1>2 DEF Alone
<1>7. Ordered(s, left) /\ ToSet(left) = ToSet(R)
  BY <1>1, <1>2, <1>3, <1>6, CleanupOrdered
<1>8. Ordered(s, left)'
  BY <1>7, OrderedStays
<1>9. Alone(s)'
  BY <1>1, <1>2 DEF Alone
<1>10. Added(before, ToSet(left))'
  <2>1. Added(before, ToSet(left)) BY <1>1, <1>2, <1>7
  <2> QED BY <2>1 DEF Added, Present, engine
<1>11. why = "refused" => ~Possible(s, Outside)'
  <2>1. PICK outside : outside = Outside OBVIOUS
  <2>2. Outside' = outside BY <1>2, <1>5, <2>1 DEF Outside, engine
  <2>3. Possible(s, outside)' <=> Possible(s, outside) BY PossibleSame
  <2> QED BY <1>2, <2>1, <2>2, <2>3
<1>12. UndoInv'
  <2>1. job' = [phase |-> "undo", scope |-> job'.scope, left |-> job'.left, why |-> job'.why,
                before |-> job'.before]
    BY <1>4, <1>5
  <2> QED BY <1>5, <1>8, <1>9, <1>10, <1>11, <2>1 DEF UndoInv
<1>13. EngineInv' /\ WellFormed(composition)'
  BY <1>1, EngineStays DEF WellFormed
<1>14. UpInv'
  <2>1. \A r \in DOMAIN standing : r \in platform BY <1>1 DEF UpInv
  <2> QED BY <1>1, <2>1, UpStays DEF engine
<1> QED BY <1>5, <1>12, <1>13, <1>14 DEF BootInv, Busy
-----------------------------------------------------------------------------
(* Loading.                                                                *)

LEMMA WorkFields ==
    ASSUME NEW j, NEW phase, NEW scope, NEW todo, NEW next, NEW boot, NEW progress, NEW at,
           NEW expanded, NEW batch, NEW edges, NEW registered, NEW started, NEW before,
           j = [phase |-> phase, scope |-> scope, todo |-> todo, next |-> next, boot |-> boot,
                progress |-> progress, at |-> at, expanded |-> expanded, batch |-> batch,
                edges |-> edges, registered |-> registered, started |-> started,
                before |-> before]
    PROVE  /\ j.phase = phase /\ j.scope = scope /\ j.todo = todo /\ j.next = next
           /\ j.boot = boot /\ j.progress = progress /\ j.at = at /\ j.expanded = expanded
           /\ j.batch = batch /\ j.edges = edges /\ j.registered = registered
           /\ j.started = started /\ j.before = before /\ IsWork(j)
  BY DEF IsWork

\* Who works while the engine stays as it is keeps what he has.
LEMMA StillAtWork ==
    ASSUME BootInv, job.phase \in Busy, UNCHANGED <<composition, engine, platform, standing>>,
           NEW s, s = job.scope, NEW R, R = job.registered, NEW St, St = job.started,
           NEW before, before = job.before
    PROVE  /\ EngineInv' /\ UpInv' /\ WellFormed(composition)'
           /\ Alone(s)' /\ InStartOrder(s, R, St)' /\ Added(before, ToSet(R))'
<1>1. /\ WellFormed(composition) /\ EngineInv /\ UpInv /\ Alone(s) /\ InStartOrder(s, R, St)
      /\ Added(before, ToSet(R))
  BY DEF BootInv, WorkInv, Lists
<1>2. EngineInv' /\ WellFormed(composition)'
  BY <1>1, EngineStays DEF WellFormed
<1>3. UpInv'
  <2>1. \A r \in DOMAIN standing : r \in platform BY <1>1 DEF UpInv
  <2> QED BY <1>1, <2>1, UpStays DEF engine
<1>4. Alone(s)'
  BY <1>1 DEF Alone
<1>5. InStartOrder(s, R, St)'
  <2>1. s \in Scopes BY <1>1 DEF Alone
  <2> QED BY <1>1, <2>1, RecordedStays DEF engine
<1>6. Added(before, ToSet(R))'
  BY <1>1 DEF Added, Present, engine
<1> QED BY <1>2, <1>3, <1>4, <1>5, <1>6

\* An activation whose targets are not all there waits.
LEMMA LoadDefers ==
    ASSUME BootInv, job.phase = "load", job.todo # <<>>, Missing(Head(job.todo)) # {},
           job' = [job EXCEPT !.todo = Tail(@), !.next = Append(@, Head(job.todo))],
           UNCHANGED <<composition, engine, platform, standing>>
    PROVE  BootInv'
<1>1. WorkInv /\ IsWork(job)
  BY DEF BootInv, WorkInv, Lists, Busy
<1>2. PICK i, s, R, St, before, todo, next :
         /\ i = Head(job.todo) /\ s = job.scope /\ R = job.registered /\ St = job.started
         /\ before = job.before /\ todo = Tail(job.todo) /\ next = Append(job.next, i)
  OBVIOUS
<1>3. job' = [phase |-> "load", scope |-> s, todo |-> todo, next |-> next, boot |-> job.boot,
              progress |-> job.progress, at |-> job.at, expanded |-> job.expanded,
              batch |-> job.batch, edges |-> job.edges, registered |-> R, started |-> St,
              before |-> before]
  BY <1>1, <1>2 DEF IsWork
<1>4. /\ job'.phase = "load" /\ job'.scope = s /\ job'.todo = todo
      /\ job'.next = next /\ job'.boot = job.boot /\ job'.progress = job.progress
      /\ job'.registered = R /\ job'.started = St /\ job'.before = before /\ IsWork(job')
  BY ONLY <1>3, WorkFields
<1>5. /\ EngineInv' /\ UpInv' /\ WellFormed(composition)' /\ Alone(s)'
      /\ InStartOrder(s, R, St)' /\ Added(before, ToSet(R))'
  BY <1>2, StillAtWork DEF Busy
<1>6. /\ job.todo \in Seq(Instances) /\ job.next \in Seq(Instances)
      /\ Members(s) = ToSet(job.todo) \cup ToSet(job.next) \cup ToSet(R)
  BY <1>1, <1>2 DEF WorkInv, Lists
<1>7. /\ todo \in Seq(Instances) /\ i \in Instances
      /\ ToSet(job.todo) = ToSet(todo) \cup {i}
  BY <1>2, <1>6, RestFacts
<1>8. next \in Seq(Instances) /\ ToSet(next) = ToSet(job.next) \cup {i}
  BY <1>2, <1>6, <1>7, LongerFacts
<1>9. Members(s)' = Members(s)
  BY DEF Members, Order
<1>10. Lists'
  BY <1>4, <1>5, <1>6, <1>7, <1>8, <1>9 DEF Lists
<1>11. Rounds'
  <2>1. \A x : Missing(x)' = Missing(x) BY DEF Missing, Needs, engine
  <2>2. \A x : Publishes(x)' = Publishes(x) BY DEF Publishes
  <2>3. Rounds BY <1>1 DEF WorkInv
  <2> QED BY <1>2, <1>4, <1>8, <2>1, <2>2, <2>3 DEF Rounds
<1>12. WorkInv'
  BY <1>4, <1>10, <1>11 DEF WorkInv, Passes, Planned
<1> QED BY <1>4, <1>5, <1>12 DEF BootInv, Busy

\* One whose targets are there is registered with their owners.
LEMMA LoadRegisters ==
    ASSUME BootInv, job.phase = "load", job.todo # <<>>, NEW i, i = Head(job.todo),
           Missing(i) = {}, state[i] = "absent",
           state' = [state EXCEPT ![i] = "registered"],
           uses' = [uses EXCEPT ![i] = {hosts[t] : t \in Needs(i)}],
           job' = [job EXCEPT !.todo = Tail(@), !.progress = TRUE,
                                    !.registered = Append(@, i),
                                    !.boot = @ \cup (IF Publishes(i) = {} THEN {} ELSE {i})],
           UNCHANGED <<composition, hosts, platform, standing>>
    PROVE  BootInv'
<1>1. /\ WorkInv /\ IsWork(job) /\ WellFormed(composition) /\ EngineInv /\ UpInv
      /\ Alone(job.scope) /\ InStartOrder(job.scope, job.registered, job.started)
      /\ Added(job.before, ToSet(job.registered))
  BY DEF BootInv, WorkInv, Lists, Busy
<1>2. PICK s, R, St, before : /\ s = job.scope /\ R = job.registered /\ St = job.started
                              /\ before = job.before
  OBVIOUS
<1>3. PICK boot : boot = job.boot \cup (IF Publishes(i) = {} THEN {} ELSE {i})
  OBVIOUS
<1>4. PICK todo, longer : todo = Tail(job.todo) /\ longer = Append(R, i)
  OBVIOUS
<1>5. job' = [phase |-> "load", scope |-> s, todo |-> todo, next |-> job.next, boot |-> boot,
              progress |-> TRUE, at |-> job.at, expanded |-> job.expanded, batch |-> job.batch,
              edges |-> job.edges, registered |-> longer, started |-> St, before |-> before]
  BY <1>1, <1>2, <1>3, <1>4 DEF IsWork
<1>6. /\ job'.phase = "load" /\ job'.scope = s /\ job'.todo = todo
      /\ job'.next = job.next /\ job'.boot = boot /\ job'.progress = TRUE
      /\ job'.registered = longer /\ job'.started = St /\ job'.before = before /\ IsWork(job')
  BY ONLY <1>5, WorkFields
<1>7. /\ job.todo \in Seq(Instances) /\ job.next \in Seq(Instances)
      /\ Members(s) = ToSet(job.todo) \cup ToSet(job.next) \cup ToSet(R)
  BY <1>1, <1>2 DEF WorkInv, Lists
<1>8. /\ todo \in Seq(Instances) /\ i \in Instances
      /\ ToSet(job.todo) = ToSet(todo) \cup {i}
  BY <1>4, <1>7, RestFacts
<1>9. s \in Scopes /\ i \in Members(s) /\ i \notin Present /\ i \notin Active
  BY <1>1, <1>2, <1>7, <1>8 DEF Alone, Present, Active
<1>10. Present' = Present \cup {i} /\ Active' = Active
  BY <1>1, <1>8, <1>9 DEF Present, Active, EngineInv
<1>11. /\ R \in Seq(Instances) /\ St \in Seq(Instances) /\ Distinct(R) /\ Distinct(St)
       /\ ToSet(R) \subseteq InScope(s, Present) /\ ToSet(St) = ToSet(R) \cap Active
  BY <1>1, <1>2 DEF InStartOrder
<1>12. /\ longer \in Seq(Instances) /\ ToSet(longer) = ToSet(R) \cup {i}
       /\ Distinct(longer)
  BY <1>4, <1>8, <1>9, <1>11, LongerFacts DEF InScope
<1>13. Members(s)' = Members(s)
  BY DEF Members, Order
<1>14. EngineInv'
  <2>1. {hosts[t] : t \in Needs(i)} \subseteq Active
    <3>1. Needs(i) \subseteq Targets BY <1>1, <1>8 DEF WellFormed, Needs
    <3>2. \A t \in Needs(i) : hosts[t] # Nobody BY DEF Missing
    <3> QED BY <1>1, <3>1, <3>2 DEF EngineInv
  <2>2. Active \subseteq Instances BY DEF Active
  <2>3. \A j : Publishes(j)' = Publishes(j) BY DEF Publishes
  <2>4. state' \in [Instances -> {"absent", "registered", "active"}] BY <1>1 DEF EngineInv
  <2>5. uses' \in [Instances -> SUBSET Instances] BY <1>1, <2>1, <2>2 DEF EngineInv
  <2>6. \A j \in Instances : uses'[j] \subseteq Active BY <1>1, <2>1 DEF EngineInv
  <2>7. \A j \in Instances : state'[j] = "absent" => uses'[j] = {} BY <1>1 DEF EngineInv
  <2>8. /\ \A t \in Targets : hosts[t] # Nobody => hosts[t] \in Active /\ t \in Publishes(hosts[t])
        /\ \A j \in Active : \A t \in Publishes(j) : hosts[t] = j
        /\ hosts \in [Targets -> Instances \cup {Nobody}]
    BY <1>1 DEF EngineInv
  <2> QED BY <1>10, <2>3, <2>4, <2>5, <2>6, <2>7, <2>8 DEF EngineInv
<1>15. InStartOrder(s, longer, St)'
  <2>1. ToSet(longer) \subseteq InScope(s, Present)'
    BY <1>9, <1>10, <1>11, <1>12, <1>13 DEF InScope
  <2>2. ToSet(St) = ToSet(longer) \cap Active'
    BY <1>9, <1>10, <1>11, <1>12
  <2>3. ASSUME NEW m \in DOMAIN St, NEW n \in DOMAIN St, St[m] \in uses'[St[n]] PROVE m < n
    <3>1. St[n] \in Active /\ St[n] \in Instances
      <4>1. St[n] \in ToSet(St) BY DEF ToSet
      <4> QED BY <4>1, <1>11
    <3>2. St[m] \in uses[St[n]] BY <1>1, <1>9, <2>3, <3>1 DEF EngineInv
    <3> QED BY <1>1, <1>2, <3>2 DEF InStartOrder
  <2>4. ASSUME NEW n \in DOMAIN St
        PROVE  Unresolved(s, St[n], Upto(St, n) \cup (InScope(s, Active) \ ToSet(longer)))' = {}
    <3>1. PICK E : E = Upto(St, n) \cup (InScope(s, Active) \ ToSet(R)) OBVIOUS
    <3>2. E = (Upto(St, n) \cup (InScope(s, Active) \ ToSet(longer)))'
      BY <1>9, <1>10, <1>12, <1>13, <3>1 DEF InScope
    <3>3. Unresolved(s, St[n], E) = {} BY <1>1, <1>2, <3>1 DEF InStartOrder
    <3>4. Unresolved(s, St[n], E)' = {} BY <3>3, UnresolvedSame
    <3> QED BY <3>2, <3>4
  <2> QED BY <1>11, <1>12, <2>1, <2>2, <2>3, <2>4 DEF InStartOrder
<1>16. Added(before, ToSet(longer))'
  <2>1. Added(before, ToSet(R)) BY <1>1, <1>2
  <2>2. i \notin before BY <1>9, <2>1 DEF Added
  <2>3. \A d \in before : uses'[d] = uses[d] BY <1>1, <2>1, <2>2 DEF Added, EngineInv
  <2> QED BY <1>10, <1>12, <2>1, <2>2, <2>3 DEF Added
<1>17. UpInv'
  <2>1. ASSUME NEW r \in DOMAIN standing, NEW j \in Members(r)
        PROVE  state'[j] = state[j] /\ uses'[j] = uses[j]
    <3>1. r \in Scopes /\ r # s BY <1>1, <1>2 DEF UpInv, Alone
    <3>2. j # i /\ j \in Instances BY <1>1, <1>9, <3>1, MembersFacts
    <3> QED BY <1>1, <3>2 DEF EngineInv
  <2>2. \A r \in DOMAIN standing : r \in platform BY <1>1 DEF UpInv
  <2> QED BY <1>1, <2>1, <2>2, UpStays
<1>18. Alone(s)'
  BY <1>1, <1>2 DEF Alone
<1>19. Lists'
  BY <1>6, <1>4, <1>7, <1>8, <1>12, <1>13, <1>15, <1>16, <1>18 DEF Lists
<1>20. Rounds'
  <2>1. job.boot \subseteq ToSet(R) /\ \A x \in ToSet(R) : Publishes(x) # {} => x \in job.boot
    BY <1>1, <1>2 DEF WorkInv, Rounds
  <2>2. \A x : Publishes(x)' = Publishes(x) BY DEF Publishes
  <2>3. boot \subseteq ToSet(R) \cup {i} BY <1>3, <2>1
  <2>4. \A x \in ToSet(R) \cup {i} : Publishes(x) # {} => x \in boot BY <1>3, <2>1
  <2> QED BY <1>6, <1>12, <2>2, <2>3, <2>4 DEF Rounds
<1>21. WorkInv'
  BY <1>6, <1>19, <1>20 DEF WorkInv, Passes, Planned
<1>22. WellFormed(composition)'
  BY <1>1 DEF WellFormed
<1> QED BY <1>6, <1>14, <1>17, <1>21, <1>22 DEF BootInv, Busy

LEMMA LoadNextKeeps ==
    ASSUME BootInv, LoadNext
    PROVE  BootInv'
<1>1. PICK i : i = Head(job.todo)
  OBVIOUS
<1>2. job.phase = "load" /\ job.todo # <<>> /\ UNCHANGED <<composition, platform, standing>>
  BY DEF LoadNext, Phase
<1>3. CASE Missing(i) # {}
  <2>1. /\ job' = [job EXCEPT !.todo = Tail(@), !.next = Append(@, Head(job.todo))]
        /\ UNCHANGED engine
    BY <1>1, <1>3 DEF LoadNext
  <2> QED BY <1>1, <1>2, <1>3, <2>1, LoadDefers
<1>4. CASE Missing(i) = {} /\ Registrable(i)
  <2>1. /\ state' = [state EXCEPT ![i] = "registered"]
        /\ uses' = [uses EXCEPT ![i] = {hosts[t] : t \in Needs(i)}]
        /\ job' = [job EXCEPT !.todo = Tail(@), !.progress = TRUE,
                                    !.registered = Append(@, i),
                                    !.boot = @ \cup (IF Publishes(i) = {} THEN {} ELSE {i})]
        /\ UNCHANGED hosts
    BY <1>1, <1>4 DEF LoadNext
  <2>2. state[i] = "absent" BY <1>4 DEF Registrable
  <2> QED BY <1>1, <1>2, <1>4, <2>1, <2>2, LoadRegisters
<1>5. CASE Missing(i) = {} /\ ~Registrable(i)
  <2>1. Abandon("error") /\ UNCHANGED engine
    BY <1>1, <1>5 DEF LoadNext
  <2> QED BY <1>2, <2>1, AbandonStep DEF Busy
<1> QED BY <1>3, <1>4, <1>5
\* The end of a round of loading, and everything else that only moves on.
LEMMA MovesOn ==
    ASSUME BootInv, job.phase \in Busy, UNCHANGED <<composition, engine, platform, standing>>,
           NEW k, job' = k, IsWork(k), k.phase \in Busy, k.scope = job.scope,
           k.registered = job.registered, k.started = job.started, k.before = job.before,
           k.todo \in Seq(Instances), k.next \in Seq(Instances),
           ToSet(k.todo) \cup ToSet(k.next) = ToSet(job.todo) \cup ToSet(job.next),
           k.phase # "load" => k.todo = <<>>,
           k.phase \in {"plan", "batch"} => k.next = <<>>,
           Rounds', Passes', Planned'
    PROVE  BootInv'
<1>1. PICK s, R, St, before : /\ s = job.scope /\ R = job.registered /\ St = job.started
                              /\ before = job.before
  OBVIOUS
<1>2. /\ EngineInv' /\ UpInv' /\ WellFormed(composition)' /\ Alone(s)'
      /\ InStartOrder(s, R, St)' /\ Added(before, ToSet(R))'
  BY <1>1, StillAtWork
<1>3. Members(s) = ToSet(job.todo) \cup ToSet(job.next) \cup ToSet(R)
  BY <1>1 DEF BootInv, WorkInv, Lists
<1>4. Members(s)' = Members(s)
  BY DEF Members, Order
<1>5. Lists'
  BY <1>1, <1>2, <1>3, <1>4 DEF Lists
<1> QED BY <1>2, <1>5 DEF BootInv, WorkInv, Busy

LEMMA LoadEndsKeeps ==
    ASSUME BootInv, LoadEnds
    PROVE  BootInv'
<1>1. /\ job.phase = "load" /\ job.todo = <<>> /\ UNCHANGED <<composition, engine, platform, standing>>
      /\ job' = IF job.next = <<>> THEN [job EXCEPT !.phase = "plan"]
                ELSE [job EXCEPT !.phase = "boot", !.at = 0, !.expanded = FALSE]
  BY DEF LoadEnds, Phase
<1>2. /\ WorkInv /\ IsWork(job) /\ Rounds /\ job.todo \in Seq(Instances) /\ job.next \in Seq(Instances)
      /\ WellFormed(composition) /\ Alone(job.scope)
  BY <1>1 DEF BootInv, WorkInv, Lists, Busy
<1>3. \A x : Missing(x)' = Missing(x) /\ Publishes(x)' = Publishes(x)
  BY <1>1 DEF Missing, Needs, Publishes, engine
<1>4. PICK k : k = job'
  OBVIOUS
<1>5. CASE job.next = <<>>
  <2>1. k = [job EXCEPT !.phase = "plan"] BY <1>1, <1>4, <1>5
  <2>2. /\ k.phase = "plan" /\ k.scope = job.scope /\ k.todo = job.todo /\ k.next = job.next
        /\ k.boot = job.boot /\ k.progress = job.progress
        /\ k.registered = job.registered /\ k.started = job.started /\ k.before = job.before
        /\ IsWork(k)
    BY ONLY <1>2, <2>1 DEF IsWork
  <2>3. Rounds' /\ Passes' /\ Planned'
    BY <1>2, <1>3, <1>4, <2>2 DEF Rounds, Passes, Planned
  <2> QED BY <1>1, <1>2, <1>4, <1>5, <2>2, <2>3, MovesOn DEF Busy
<1>6. CASE job.next # <<>>
  <2>1. k = [job EXCEPT !.phase = "boot", !.at = 0, !.expanded = FALSE] BY <1>1, <1>4, <1>6
  <2>2. /\ k.phase = "boot" /\ k.scope = job.scope /\ k.todo = job.todo /\ k.next = job.next
        /\ k.boot = job.boot /\ k.progress = job.progress /\ k.at = 0
        /\ k.registered = job.registered /\ k.started = job.started /\ k.before = job.before
        /\ IsWork(k)
    BY ONLY <1>2, <2>1 DEF IsWork
  <2>3. Rounds'
    BY <1>2, <1>3, <1>4, <1>6, <2>2 DEF Rounds
  <2>4. Passes'
    <3>1. DOMAIN Order(job.scope)' = 1 .. Len(Order(job.scope))
      <4>1. Order(job.scope)' = Order(job'.scope) BY <1>1, <1>4, <2>2 DEF Order
      <4>2. Order(job.scope) \in Seq(Instances) BY <1>2, MembersFacts DEF Alone
      <4>3. Order(job'.scope) = Order(job.scope) BY <1>4, <2>2
      <4> QED BY <4>1, <4>2, <4>3
    <3>2. \A n \in 1 .. Len(Order(job.scope)) : ~(n <= 0) OBVIOUS
    <3> QED BY <1>4, <2>2, <3>1, <3>2 DEF Passes
  <2>5. Planned' BY <1>4, <2>2 DEF Planned
  <2> QED BY <1>1, <1>2, <1>4, <2>2, <2>3, <2>4, <2>5, MovesOn DEF Busy
<1> QED BY <1>5, <1>6

LEMMA StepFailsKeeps ==
    ASSUME BootInv, StepFails
    PROVE  BootInv'
<1>1. job.phase \in Busy
  BY DEF StepFails, Phase, Busy
<1>2. Abandon("error") /\ UNCHANGED <<composition, engine, platform, standing>>
  BY DEF StepFails
<1> QED BY <1>1, <1>2, AbandonStep

-----------------------------------------------------------------------------
(* Starting.                                                               *)

\* An instance whose plan holds, and whose targets are free, is started after
\* everybody it needs.
LEMMA StartStep ==
    ASSUME WellFormed(composition), EngineInv, NEW s \in Scopes,
           NEW R, NEW St, InStartOrder(s, R, St),
           NEW i \in ToSet(R) \ ToSet(St), MayStart(s, i), ~Occupied(i), Started(i),
           UNCHANGED <<composition, platform>>,
           NEW longer, longer = Append(St, i)
    PROVE  /\ EngineInv' /\ InStartOrder(s, R, longer)'
           /\ Present' = Present /\ Active' = Active \cup {i} /\ uses' = uses
           /\ \A j \in Instances \ {i} : state'[j] = state[j]
           /\ ToSet(longer) = ToSet(St) \cup {i}
<1>1. /\ R \in Seq(Instances) /\ St \in Seq(Instances) /\ Distinct(R) /\ Distinct(St)
      /\ ToSet(R) \subseteq InScope(s, Present) /\ ToSet(St) = ToSet(R) \cap Active
  BY DEF InStartOrder
<1>2. i \in Instances /\ i \in Present /\ i \in Members(s) /\ i \notin Active /\ state[i] # "absent"
  BY <1>1 DEF InScope, Present
<1>3. /\ state' = [state EXCEPT ![i] = "active"] /\ uses' = uses
      /\ hosts' = [t \in Targets |-> IF t \in Publishes(i) THEN i ELSE hosts[t]]
  BY DEF Started
<1>4. /\ Present' = Present /\ Active' = Active \cup {i}
      /\ \A j \in Instances \ {i} : state'[j] = state[j]
  BY <1>2, <1>3 DEF Present, Active, EngineInv
<1>5. EngineInv'
  <2>1. \A j : Publishes(j)' = Publishes(j) BY DEF Publishes
  <2>2. state' \in [Instances -> {"absent", "registered", "active"}] BY <1>3 DEF EngineInv
  <2>3. hosts' \in [Targets -> Instances \cup {Nobody}] BY <1>2, <1>3 DEF EngineInv
  <2>4. \A j \in Instances : uses[j] \subseteq Active' BY <1>4 DEF EngineInv
  <2>5. \A j \in Instances : state'[j] = "absent" => uses[j] = {} BY <1>2, <1>3 DEF EngineInv
  <2>6. ASSUME NEW t \in Targets, hosts'[t] # Nobody
        PROVE  hosts'[t] \in Active' /\ t \in Publishes(hosts'[t])
    BY <1>3, <1>4, <2>6 DEF EngineInv
  <2>7. ASSUME NEW j \in Active', NEW t \in Publishes(j) PROVE hosts'[t] = j
    <3>1. t \in Targets
      <4>1. j \in Instances BY <1>2, <1>4 DEF Active
      <4> QED BY <4>1 DEF WellFormed, Publishes
    <3>2. CASE t \in Publishes(i)
      <4>1. hosts[t] = Nobody BY <3>2 DEF Occupied
      <4>2. j \notin Active
        BY <4>1, BootstrapAssumption DEF EngineInv, Nobody, Active
      <4> QED BY <1>3, <1>4, <3>1, <3>2, <4>2
    <3>3. CASE t \notin Publishes(i)
      <4>1. j \in Active BY <1>4, <3>3
      <4> QED BY <1>3, <3>1, <3>3, <4>1 DEF EngineInv
    <3> QED BY <3>2, <3>3
  <2> QED BY <1>3, <2>1, <2>2, <2>3, <2>4, <2>5, <2>6, <2>7 DEF EngineInv
<1>6. /\ longer \in Seq(Instances) /\ Len(longer) = Len(St) + 1 /\ Distinct(longer)
      /\ ToSet(longer) = ToSet(St) \cup {i}
  BY <1>1, <1>2, LongerFacts
<1>7. longer[Len(St) + 1] = i /\ \A n \in 1 .. Len(St) : longer[n] = St[n]
  <2>1. longer[Len(St) + 1] = i BY <1>1, <1>2, LongerFacts
  <2>2. ASSUME NEW n \in 1 .. Len(St) PROVE longer[n] = St[n] BY <1>1, <1>2, LongerFacts
  <2> QED BY <2>1, <2>2
<1>8. Len(St) \in Nat /\ DOMAIN St = 1 .. Len(St) /\ DOMAIN longer = 1 .. Len(St) + 1
  BY <1>1, <1>6
<1>9. Members(s)' = Members(s) /\ InScope(s, Present)' = InScope(s, Present)
  BY <1>4 DEF Members, Order, InScope
<1>10. InScope(s, Active)' = InScope(s, Active) \cup {i}
  BY <1>2, <1>4, <1>9 DEF InScope
<1>11. InStartOrder(s, R, longer)'
  <2>1. ToSet(longer) = ToSet(R) \cap Active' BY <1>1, <1>4, <1>6
  <2>2. ASSUME NEW m \in DOMAIN longer, NEW n \in DOMAIN longer, longer[m] \in uses[longer[n]]
        PROVE  m < n
    <3>1. longer[n] \in Instances BY <1>6
    <3>2. longer[m] \in Active BY <2>2, <3>1 DEF EngineInv
    <3>3. m \in 1 .. Len(St) BY <1>2, <1>7, <1>8, <3>2
    <3>4. CASE n = Len(St) + 1 BY <1>8, <3>3, <3>4
    <3>5. CASE n \in 1 .. Len(St)
      <4>1. St[m] \in uses[St[n]] BY <1>7, <2>2, <3>3, <3>5
      <4> QED BY <1>8, <3>3, <3>5, <4>1 DEF InStartOrder
    <3> QED BY <1>8, <3>4, <3>5
  <2>3. ASSUME NEW n \in DOMAIN longer
        PROVE  Unresolved(s, longer[n], Upto(longer, n) \cup (InScope(s, Active) \ ToSet(R)))' = {}
    <3>1. InScope(s, Active)' \ ToSet(R) = InScope(s, Active) \ ToSet(R) BY <1>10
    <3>2. PICK E : E = Upto(longer, n) \cup (InScope(s, Active) \ ToSet(R)) OBVIOUS
    <3>3. E = (Upto(longer, n) \cup (InScope(s, Active) \ ToSet(R)))' BY <3>1, <3>2
    <3>4. Unresolved(s, longer[n], E) = {}
      <4>1. CASE n = Len(St) + 1
        <5>1. Upto(longer, n) = ToSet(longer) BY <1>8, <4>1 DEF Upto, ToSet
        <5>2. InScope(s, Active) \cup {i} \subseteq E
          BY <1>1, <1>6, <3>2, <5>1 DEF InScope
        <5>3. Unresolved(s, i, InScope(s, Active) \cup {i}) = {} BY DEF MayStart
        <5> QED BY <1>7, <4>1, <5>2, <5>3, UnresolvedLess
      <4>2. CASE n \in 1 .. Len(St)
        <5>1. \A k \in 1 .. n : k \in 1 .. Len(St) BY <1>8, <4>2
        <5>2. Upto(longer, n) = Upto(St, n) BY <1>7, <5>1 DEF Upto
        <5>3. Unresolved(s, St[n], Upto(St, n) \cup (InScope(s, Active) \ ToSet(R))) = {}
          BY <1>8, <4>2 DEF InStartOrder
        <5> QED BY <1>7, <3>2, <4>2, <5>2, <5>3
      <4> QED BY <1>8, <4>1, <4>2
    <3>5. Unresolved(s, longer[n], E)' = {} BY <3>4, UnresolvedSame
    <3> QED BY <3>3, <3>5
  <2> QED BY <1>1, <1>3, <1>6, <1>9, <2>1, <2>2, <2>3 DEF InStartOrder
<1> QED BY <1>3, <1>4, <1>5, <1>6, <1>11
LEMMA StartKeeps ==
    ASSUME BootInv, job.phase \in Busy, NEW i \in ToSet(job.registered) \ ToSet(job.started),
           MayStart(job.scope, i), ~Occupied(i), Started(i),
           UNCHANGED <<composition, platform, standing>>,
           NEW k, job' = k, IsWork(k), k.phase = job.phase, k.scope = job.scope,
           k.todo = job.todo, k.next = job.next,
           k.registered = job.registered, k.started = Append(job.started, i), k.before = job.before,
           Rounds', Passes', Planned'
    PROVE  BootInv'
<1>1. /\ WellFormed(composition) /\ EngineInv /\ UpInv /\ Lists
  BY DEF BootInv, WorkInv
<1>2. PICK s, R, St, before, longer :
          /\ s = job.scope /\ R = job.registered /\ St = job.started /\ before = job.before
          /\ longer = Append(job.started, i)
  OBVIOUS
<1>3. s \in Scopes /\ InStartOrder(s, R, St) /\ Alone(s) /\ Added(before, ToSet(R))
  BY <1>1, <1>2 DEF Lists, Alone
<1>4. i \in ToSet(R) \ ToSet(St) /\ MayStart(s, i) /\ longer = Append(St, i)
  BY <1>2
<1>5. /\ EngineInv' /\ InStartOrder(s, R, longer)' /\ Present' = Present /\ uses' = uses
      /\ \A j \in Instances \ {i} : state'[j] = state[j]
  <2>1. ~Occupied(i) /\ Started(i) /\ UNCHANGED <<composition, platform>> OBVIOUS
  <2> QED BY ONLY <1>1, <1>3, <1>4, <2>1, StartStep
<1>6. UpInv'
  <2>1. ASSUME NEW r \in DOMAIN standing, NEW j \in Members(r)
        PROVE  state'[j] = state[j] /\ uses'[j] = uses[j]
    <3>1. r \in Scopes /\ r # s BY <1>1, <1>3 DEF UpInv, Alone
    <3>2. i \in Members(s) BY <1>2, <1>3 DEF InStartOrder, InScope
    <3>3. j # i /\ j \in Instances BY <1>1, <1>3, <3>1, <3>2, MembersFacts
    <3> QED BY <1>5, <3>3
  <2>2. \A r \in DOMAIN standing : r \in platform BY <1>1 DEF UpInv
  <2> QED BY <1>1, <2>1, <2>2, UpStays
<1>7. Alone(s)' /\ Added(before, ToSet(R))' /\ WellFormed(composition)'
  BY <1>1, <1>3, <1>5 DEF Alone, Added, WellFormed
<1>8. Members(s)' = Members(s)
  BY DEF Members, Order
<1>9. Lists'
  BY <1>1, <1>2, <1>5, <1>7, <1>8 DEF Lists
<1> QED BY <1>5, <1>6, <1>7, <1>9 DEF BootInv, WorkInv, Busy

LEMMA LooksSame ==
    ASSUME UNCHANGED <<composition, engine, platform>>, job'.registered = job.registered,
           NEW s, NEW x
    PROVE  (MayStart(s, x)' <=> MayStart(s, x)) /\ Expansion(s, x)' = Expansion(s, x)
<1>1. InScope(s, Present)' = InScope(s, Present) /\ InScope(s, Active)' = InScope(s, Active)
  BY SameScope
<1>2. \A E : Unresolved(s, x, E)' = Unresolved(s, x, E)
  BY UnresolvedSame
<1>3. MayStart(s, x)' <=> MayStart(s, x)
  BY <1>1, <1>2 DEF MayStart
<1>4. \A c, E : Providers(s, c, E)' = Providers(s, c, E) /\ Definers(c, E)' = Definers(c, E)
  BY DEF Providers, Definers, Provides, Defines
<1>5. \A c, E : Bound(s, c, E)' <=> Bound(s, c, E)
  BY <1>4 DEF Bound, Platform
<1>6. Unresolved(s, x, InScope(s, Active) \cup {x})' = Unresolved(s, x, InScope(s, Active) \cup {x})
  BY <1>1, <1>2
<1>7. Expansion(s, x)' = Expansion(s, x)
  BY <1>1, <1>4, <1>5, <1>6 DEF Expansion
<1> QED BY <1>3, <1>7

LEMMA BootNextKeeps ==
    ASSUME BootInv, BootNext
    PROVE  BootInv'
<1>1. /\ job.phase = "boot" /\ Candidates # {} /\ UNCHANGED <<composition, platform, standing>>
  BY DEF BootNext, Phase
<1>2. /\ WorkInv /\ IsWork(job) /\ Rounds /\ Passes /\ Lists /\ WellFormed(composition)
      /\ EngineInv /\ InStartOrder(job.scope, job.registered, job.started)
  BY <1>1 DEF BootInv, WorkInv, Lists, Busy
<1>3. Order(job.scope) \in Seq(Instances)
  BY <1>2, MembersFacts DEF Lists, Alone
<1>4. PICK n, i, fetched : /\ n = Min(Candidates) /\ i = Order(job.scope)[n]
                           /\ fetched = Expansion(job.scope, i)
  OBVIOUS
<1>5. n \in Candidates /\ \A m \in Candidates : n <= m
  <2>1. Candidates \subseteq Nat BY <1>3 DEF Candidates
  <2> QED BY <1>1, <1>4, <2>1, MinFacts
<1>6. /\ n \in DOMAIN Order(job.scope) /\ n > job.at
      /\ i \in job.boot /\ i \in ToSet(job.registered) /\ i \notin ToSet(job.started)
  BY <1>4, <1>5 DEF Candidates
<1>7. n \in Nat
  BY <1>3, <1>6
<1>8. PICK k : k = job'
  OBVIOUS
<1>9. CASE ~MayStart(job.scope, i)
  <2>1. PICK boot, expanded : /\ boot = job.boot \cup fetched
                              /\ expanded = (job.expanded \/ ~(fetched \subseteq job.boot))
    OBVIOUS
  <2>2. k = [job EXCEPT !.at = n, !.boot = boot, !.expanded = expanded] /\ UNCHANGED engine
    BY <1>4, <1>8, <1>9, <2>1 DEF BootNext
  <2>3. /\ k.phase = job.phase /\ k.scope = job.scope /\ k.todo = job.todo /\ k.next = job.next
        /\ k.boot = boot /\ k.progress = job.progress /\ k.at = n
        /\ k.registered = job.registered /\ k.started = job.started /\ k.before = job.before
        /\ IsWork(k)
    BY ONLY <1>2, <2>2 DEF IsWork
  <2>4. k.expanded <=> expanded
    BY ONLY <1>2, <2>2 DEF IsWork
  <2>5. \A x : Missing(x)' = Missing(x) /\ Publishes(x)' = Publishes(x)
    BY <1>1, <2>2 DEF Missing, Needs, Publishes, engine
  <2>6. fetched \subseteq ToSet(job.registered)
    BY <1>4 DEF Expansion
  <2>7. Rounds'
    BY <1>1, <1>2, <1>7, <1>8, <2>1, <2>3, <2>5, <2>6 DEF Rounds
  <2>8. Passes'
    <3>1. PICK s : s = job.scope OBVIOUS
    <3> SUFFICES ASSUME ~k.expanded, NEW m \in DOMAIN Order(job.scope),
                        NEW x, x = Order(job.scope)[m],
                        m <= n, x \in boot \ ToSet(job.started)
                 PROVE  ~MayStart(s, x)' /\ Expansion(s, x)' \subseteq boot
      <4>1. job'.scope = s /\ job'.phase = "boot" /\ job'.at = n /\ job'.boot = boot
            /\ job'.started = job.started /\ (job'.expanded <=> k.expanded)
        BY <1>1, <1>8, <2>3, <3>1
      <4>2. Order(job.scope)' = Order(job.scope) BY <1>1, <3>1, <4>1 DEF Order
      <4> QED BY <4>1, <4>2 DEF Passes
    <3>2. ~job.expanded /\ fetched \subseteq job.boot /\ boot = job.boot BY <2>1, <2>4
    <3>3. ~MayStart(job.scope, x) /\ Expansion(job.scope, x) \subseteq boot
      <4>1. CASE m <= job.at BY <1>1, <1>2, <3>2, <4>1 DEF Passes
      <4>2. CASE ~(m <= job.at)
        <5>1. m \in Nat /\ job.at \in Nat BY <1>1, <1>2, <1>3 DEF Rounds
        <5>2. x \in ToSet(job.registered) BY <1>2, <3>2 DEF Rounds
        <5>3. m > job.at BY <4>2, <5>1
        <5>4. m \in Candidates BY <3>2, <5>2, <5>3 DEF Candidates
        <5>5. m = n BY <1>5, <1>7, <5>1, <5>4
        <5> QED BY <1>4, <1>9, <3>2, <5>5
      <4> QED BY <4>1, <4>2
    <3>4. (MayStart(s, x)' <=> MayStart(s, x)) /\ Expansion(s, x)' = Expansion(s, x)
      BY <1>1, <1>8, <2>2, <2>3, LooksSame
    <3> QED BY <3>3, <3>1, <3>4
  <2>9. Planned' BY <1>1, <1>8, <2>3 DEF Planned
  <2> QED BY <1>1, <1>2, <1>8, <2>2, <2>3, <2>7, <2>8, <2>9, MovesOn DEF Lists, Busy
<1>10. CASE MayStart(job.scope, i) /\ ~Occupied(i)
  <2>1. PICK longer : longer = Append(job.started, i) OBVIOUS
  <2>2. /\ k = [job EXCEPT !.at = 0, !.expanded = FALSE, !.progress = TRUE, !.started = longer]
        /\ Started(i)
    BY <1>4, <1>8, <1>10, <2>1 DEF BootNext
  <2>3. /\ k.phase = job.phase /\ k.scope = job.scope /\ k.todo = job.todo /\ k.next = job.next
        /\ k.boot = job.boot /\ k.progress = TRUE /\ k.at = 0
        /\ k.registered = job.registered /\ k.started = longer /\ k.before = job.before
        /\ IsWork(k)
    BY ONLY <1>2, <2>2 DEF IsWork
  <2>4. Rounds'
    <3>1. \A x : Publishes(x)' = Publishes(x) BY <1>1 DEF Publishes
    <3> QED BY <1>1, <1>2, <1>8, <2>3, <3>1 DEF Rounds
  <2>5. Passes'
    <3>1. Order(job.scope)' = Order(job.scope) BY <1>1, <1>8, <2>3 DEF Order
    <3>2. \A m \in DOMAIN Order(job.scope) : ~(m <= 0) BY <1>3
    <3> QED BY <1>8, <2>3, <3>1, <3>2 DEF Passes
  <2>6. Planned' BY <1>1, <1>8, <2>3 DEF Planned
  <2> QED BY <1>1, <1>6, <1>8, <1>10, <2>1, <2>2, <2>3, <2>4, <2>5, <2>6, StartKeeps DEF Busy
<1>11. CASE MayStart(job.scope, i) /\ Occupied(i)
  <2>1. Abandon("error") /\ UNCHANGED engine BY <1>4, <1>11 DEF BootNext
  <2> QED BY <1>1, <2>1, AbandonStep DEF Busy
<1> QED BY <1>9, <1>10, <1>11
-----------------------------------------------------------------------------
(* Who supplies a contract.                                                *)

\* Whom an instance that requires c waits for: its providers, and the first definer of
\* a contract that is not the platform's.
Suppliers(s, c, E) ==
    {x \in E : \/ x \in Providers(s, c, E)
               \/ ~Platform(s, c) /\ Definers(c, E) # {} /\ x = Min(Definers(c, E))}

LEMMA DefinersFacts ==
    ASSUME NEW c, NEW E, E \subseteq Instances, Definers(c, E) # {}
    PROVE  /\ Min(Definers(c, E)) \in Definers(c, E)
           /\ \A x \in Definers(c, E) : Min(Definers(c, E)) <= x
  BY MinFacts, BootstrapAssumption DEF Definers

LEMMA ProvidersInside ==
    ASSUME NEW s, NEW c, NEW E, E \subseteq Instances
    PROVE  Providers(s, c, E) \subseteq E
<1>1. PICK P : P = {i \in E : c \in Provides(i)}
  OBVIOUS
<1>2. P # {} => Min(P) \in P
  BY <1>1, MinFacts, BootstrapAssumption
<1> QED BY <1>1, <1>2 DEF Providers

\* Where all that supply a contract are, it is bound, and to the same.
LEMMA SuppliersSuffice ==
    ASSUME NEW s, NEW c, NEW E, E \subseteq Instances, Bound(s, c, E),
           NEW F, F \subseteq E, Suppliers(s, c, E) \subseteq F
    PROVE  /\ Bound(s, c, F) /\ Providers(s, c, E) \subseteq Providers(s, c, F)
           /\ ~Platform(s, c) => /\ Definers(c, E) # {} /\ Definers(c, F) # {}
                                 /\ Min(Definers(c, F)) = Min(Definers(c, E))
<1>1. PICK P, Q : P = {i \in E : c \in Provides(i)} /\ Q = {i \in F : c \in Provides(i)}
  OBVIOUS
<1>2. Providers(s, c, E) \subseteq F /\ Providers(s, c, E) # {}
  BY ProvidersInside DEF Suppliers, Bound
<1>3. Q = P \cap F
  BY <1>1
<1>4. Providers(s, c, E) \subseteq Providers(s, c, F)
  <2>1. CASE c \in composition.multiple
    BY <1>1, <1>2, <1>3, <2>1 DEF Providers
  <2>2. CASE c \notin composition.multiple /\ c \in DOMAIN composition.preferred[s]
    BY <1>1, <1>2, <1>3, <2>2 DEF Providers
  <2>3. CASE c \notin composition.multiple /\ c \notin DOMAIN composition.preferred[s]
    <3>1. P # {} /\ Providers(s, c, E) = {Min(P)} BY <1>1, <1>2, <2>3 DEF Providers
    <3>2. P \subseteq Nat BY <1>1, BootstrapAssumption
    <3>3. Min(P) \in Q BY <1>2, <1>3, <3>1, <3>2, MinFacts
    <3>4. Q \subseteq Nat /\ Q # {} BY <1>3, <3>2, <3>3
    <3>5. Min(Q) = Min(P)
      <4>1. Min(Q) \in Q /\ \A x \in Q : Min(Q) <= x BY <3>4, MinFacts
      <4>2. Min(P) \in P /\ \A x \in P : Min(P) <= x BY <3>1, <3>2, MinFacts
      <4>3. Min(Q) <= Min(P) /\ Min(P) <= Min(Q) BY <1>3, <3>3, <4>1, <4>2
      <4>4. Min(Q) \in Nat /\ Min(P) \in Nat BY <3>2, <3>4, <4>1, <4>2
      <4> QED BY <4>3, <4>4
    <3>6. Providers(s, c, F) = {Min(Q)} BY <1>1, <2>3, <3>4 DEF Providers
    <3> QED BY <3>1, <3>5, <3>6
  <2> QED BY <2>1, <2>2, <2>3
<1>5. ASSUME ~Platform(s, c)
      PROVE  /\ Definers(c, E) # {} /\ Definers(c, F) # {}
             /\ Min(Definers(c, F)) = Min(Definers(c, E))
  <2>1. Definers(c, E) # {} BY <1>5 DEF Bound
  <2>2. PICK d : d = Min(Definers(c, E)) OBVIOUS
  <2>3. d \in Definers(c, E) /\ \A x \in Definers(c, E) : d <= x BY <2>1, <2>2, DefinersFacts
  <2>4. d \in F BY <1>5, <2>1, <2>2, <2>3 DEF Suppliers, Definers
  <2>5. d \in Definers(c, F) /\ Definers(c, F) \subseteq Definers(c, E) BY <2>3, <2>4 DEF Definers
  <2>6. PICK e : e = Min(Definers(c, F)) OBVIOUS
  <2>7. e \in Definers(c, F) /\ \A x \in Definers(c, F) : e <= x
    BY <2>5, <2>6, DefinersFacts
  <2>8. d <= e /\ e <= d /\ d \in Nat /\ e \in Nat
    BY <2>3, <2>5, <2>7, BootstrapAssumption DEF Definers
  <2> QED BY <2>1, <2>2, <2>5, <2>6, <2>8
<1>6. Bound(s, c, F)
  BY <1>2, <1>4, <1>5 DEF Bound
<1> QED BY <1>4, <1>5, <1>6

\* Suppliers are the predecessors of whoever requires the contract.
LEMMA SuppliersPrecede ==
    ASSUME NEW s, NEW c, NEW E, NEW B, NEW i \in B, c \in Requires(i),
           NEW x \in Suppliers(s, c, E), x \in B, x # i
    PROVE  <<x, i>> \in Edges(s, B, E)
  BY DEF Suppliers, Edges

-----------------------------------------------------------------------------
(* Refusals.                                                               *)

LEMMA PossibleFacts ==
    ASSUME NEW s, NEW outside, Possible(s, outside)
    PROVE  /\ \A i \in Members(s) : Unresolved(s, i, Members(s)) = {}
           /\ \A i \in Members(s) : \A t \in Needs(i) \ outside :
                 \E o \in Members(s) : t \in Publishes(o)
           /\ \E edges : /\ ~Cyclic(Members(s), edges)
                         /\ Edges(s, Members(s), Members(s)) \subseteq edges
                         /\ \A o, i \in Members(s) : \A t \in Needs(i) \ outside :
                               t \in Publishes(o) => <<o, i>> \in edges
<1> DEFINE M == Members(s)
           Owners(t) == {i \in M : t \in Publishes(i)}
           edges == Edges(s, M, M) \cup
                    {e \in M \X M : \E t \in Needs(e[2]) \ outside : e[1] \in Owners(t)}
<1>1. /\ \A i \in M : Unresolved(s, i, M) = {} /\ \A c \in Defines(i) : ~Platform(s, c)
      /\ \A i \in M : \A t \in Needs(i) \ outside : Owners(t) # {}
      /\ ~Cyclic(M, edges)
  BY DEF Possible
<1>2. \A o, i \in M : \A t \in Needs(i) \ outside : t \in Publishes(o) => <<o, i>> \in edges
  OBVIOUS
<1>3. Edges(s, M, M) \subseteq edges
  OBVIOUS
<1>4. \A i \in M : \A t \in Needs(i) \ outside : \E o \in M : t \in Publishes(o)
  BY <1>1
<1> HIDE DEF edges
<1> QED BY <1>1, <1>2, <1>3, <1>4

\* Somebody on whom i waits for the first contract that keeps it from starting: he
\* waits himself, or he is in the bootstrap.
LEMMA WaitsForSomebody ==
    ASSUME BootInv, job.phase = "boot", NEW s, s = job.scope,
           \A j \in Members(s) : Unresolved(s, j, Members(s)) = {},
           NEW i \in job.boot \ ToSet(job.started), ~MayStart(s, i),
           Expansion(s, i) \subseteq job.boot
    PROVE  \E x \in ToSet(job.next) \cup (job.boot \ ToSet(job.started)) :
              <<x, i>> \in Edges(s, Members(s), Members(s))
<1>1. /\ WellFormed(composition) /\ EngineInv /\ Lists /\ Rounds
      /\ InStartOrder(s, job.registered, job.started)
  BY DEF BootInv, WorkInv, Lists, Busy
<1>2. PICK R, St, next, M : /\ R = ToSet(job.registered) /\ St = ToSet(job.started)
                            /\ next = ToSet(job.next) /\ M = Members(s)
  OBVIOUS
<1>3. s \in Scopes /\ M \subseteq Instances /\ M = next \cup R /\ job.boot \subseteq R
  <2>1. s \in Scopes BY <1>1 DEF Lists, Alone
  <2>2. M \subseteq Instances BY <1>1, <1>2, <2>1, MembersFacts
  <2>3. job.todo = <<>> BY <1>1 DEF Lists
  <2>4. ToSet(<<>>) = {} BY DEF ToSet
  <2> QED BY <1>1, <1>2, <2>1, <2>2, <2>3, <2>4 DEF Lists, Rounds
<1>4. i \in R /\ i \in M /\ i \notin St
  BY <1>2, <1>3
<1>5. St = R \cap Active /\ R \subseteq InScope(s, Present)
  BY <1>1, <1>2 DEF InStartOrder
<1>6. PICK loaded, A : loaded = InScope(s, Present) /\ A = InScope(s, Active) \cup {i}
  OBVIOUS
<1>7. /\ loaded \subseteq M /\ A \subseteq M /\ R \subseteq loaded /\ i \in loaded /\ St \subseteq A
  BY <1>2, <1>3, <1>4, <1>5, <1>6 DEF InScope
<1>8. PICK c : c = Min(Unresolved(s, i, A))
  OBVIOUS
<1>9. c \in Requires(i) /\ ~Bound(s, c, A)
  <2>1. Unresolved(s, i, A) # {} BY <1>6 DEF MayStart
  <2>2. Unresolved(s, i, A) \subseteq Nat
    BY <1>1, <1>3, <1>4 DEF Unresolved, Requires, WellFormed
  <2> QED BY <1>8, <2>1, <2>2, MinFacts DEF Unresolved
<1>10. Bound(s, c, M)
  BY <1>2, <1>4, <1>9 DEF Unresolved
<1>11. Suppliers(s, c, M) \subseteq M
  BY DEF Suppliers
<1>12. CASE \E x \in Suppliers(s, c, M) : x \notin loaded
  <2>1. PICK x \in Suppliers(s, c, M) : x \notin loaded BY <1>12
  <2>2. x \in next /\ x # i /\ x \in M BY <1>3, <1>7, <1>11, <2>1
  <2>3. <<x, i>> \in Edges(s, M, M) BY <1>4, <1>9, <2>1, <2>2, SuppliersPrecede
  <2> QED BY <1>2, <2>2, <2>3
<1>13. CASE Suppliers(s, c, M) \subseteq loaded
  <2>1. /\ Bound(s, c, loaded) /\ Providers(s, c, M) \subseteq Providers(s, c, loaded)
        /\ ~Platform(s, c) => /\ Definers(c, loaded) # {}
                              /\ Min(Definers(c, loaded)) = Min(Definers(c, M))
    BY <1>3, <1>7, <1>10, <1>13, SuppliersSuffice
  <2>2. ~(Suppliers(s, c, M) \subseteq A)
    BY <1>3, <1>7, <1>9, <1>10, SuppliersSuffice
  <2>3. PICK x \in Suppliers(s, c, M) : x \notin A
    BY <2>2
  <2>4. x \in M /\ x # i /\ x \notin St
    BY <1>6, <1>7, <1>11, <2>3
  <2>5. <<x, i>> \in Edges(s, M, M)
    BY <1>4, <1>9, <2>3, <2>4, SuppliersPrecede
  <2>6. CASE x \in next
    BY <1>2, <2>5, <2>6
  <2>7. CASE x \in R
    <3>1. x \in Expansion(s, i)
      <4>1. \/ x \in Providers(s, c, loaded)
            \/ Definers(c, loaded) # {} /\ x = Min(Definers(c, loaded))
        BY <2>1, <2>3 DEF Suppliers
      <4>2. x \in ToSet(job.registered) BY <1>2, <2>7
      <4> QED BY <1>6, <1>8, <2>1, <2>4, <4>1, <4>2 DEF Expansion
    <3> QED BY <1>2, <2>4, <2>5, <3>1
  <2> QED BY <1>3, <2>4, <2>6, <2>7
<1> QED BY <1>12, <1>13

\* A round that has stalled: whoever waits, and whoever cannot start, waits for another
\* of them.
LEMMA StalledIsImpossible ==
    ASSUME BootInv, job.phase = "boot", Candidates = {}, ~job.expanded, ~job.progress
    PROVE  ~Possible(job.scope, Outside)
<1> SUFFICES ASSUME Possible(job.scope, Outside) PROVE FALSE
  OBVIOUS
<1>1. /\ WellFormed(composition) /\ EngineInv /\ Lists /\ Rounds /\ Passes
      /\ InStartOrder(job.scope, job.registered, job.started)
      /\ Added(job.before, ToSet(job.registered))
  BY DEF BootInv, WorkInv, Lists, Busy
<1>2. PICK s, M, outside : s = job.scope /\ M = Members(s) /\ outside = Outside
  OBVIOUS
<1>3. s \in Scopes /\ M \subseteq Instances
  <2>1. s \in Scopes BY <1>1, <1>2 DEF Lists, Alone
  <2> QED BY <1>1, <1>2, <2>1, MembersFacts
<1>4. /\ \A i \in M : Unresolved(s, i, M) = {}
      /\ \A i \in M : \A t \in Needs(i) \ outside : \E o \in M : t \in Publishes(o)
      /\ \E edges : /\ ~Cyclic(M, edges) /\ Edges(s, M, M) \subseteq edges
                    /\ \A o, i \in M : \A t \in Needs(i) \ outside :
                          t \in Publishes(o) => <<o, i>> \in edges
  BY <1>2, PossibleFacts
<1>5. PICK edges : /\ ~Cyclic(M, edges) /\ Edges(s, M, M) \subseteq edges
                   /\ \A o, i \in M : \A t \in Needs(i) \ outside :
                         t \in Publishes(o) => <<o, i>> \in edges
  BY <1>4
<1>6. PICK W : W = ToSet(job.next) \cup (job.boot \ ToSet(job.started))
  OBVIOUS
<1>7. M = ToSet(job.next) \cup ToSet(job.registered) /\ job.boot \subseteq ToSet(job.registered)
  <2>1. job.todo = <<>> BY <1>1 DEF Lists
  <2>2. ToSet(<<>>) = {} BY DEF ToSet
  <2> QED BY <1>1, <1>2, <2>1, <2>2 DEF Lists, Rounds
<1>8. W \subseteq M /\ W # {}
  <2>1. job.next # <<>> /\ job.next \in Seq(Instances) BY <1>1 DEF Rounds, Lists
  <2>2. ToSet(job.next) # {} BY <2>1, SeqFacts
  <2> QED BY <1>6, <1>7, <2>2
<1>9. ASSUME NEW i \in ToSet(job.next) PROVE \E x \in W : <<x, i>> \in edges
  <2>1. i \in M /\ Missing(i) # {} BY <1>1, <1>7 DEF Rounds
  <2>2. PICK t \in Needs(i) : hosts[t] = Nobody BY <2>1 DEF Missing
  <2>3. t \notin outside
    <3>1. Nobody \notin Instances /\ job.before \subseteq Instances
      BY <1>1, BootstrapAssumption DEF Nobody, Added
    <3> QED BY <1>2, <2>2, <3>1 DEF Outside
  <2>4. PICK o \in M : t \in Publishes(o) BY <1>4, <2>1, <2>3
  <2>5. <<o, i>> \in edges BY <1>5, <2>1, <2>3, <2>4
  <2>6. CASE o \in ToSet(job.next) BY <1>6, <2>5, <2>6
  <2>7. CASE o \in ToSet(job.registered)
    <3>1. o \in job.boot BY <1>1, <2>4, <2>7 DEF Rounds
    <3>2. o \notin Active
      <4>1. o # Nobody BY <1>3, BootstrapAssumption DEF Nobody
      <4> QED BY <1>1, <2>2, <2>4, <4>1 DEF EngineInv
    <3>3. o \notin ToSet(job.started) BY <1>1, <3>2 DEF InStartOrder
    <3> QED BY <1>6, <2>5, <3>1, <3>3
  <2> QED BY <1>7, <2>6, <2>7
<1>10. ASSUME NEW i \in job.boot \ ToSet(job.started) PROVE \E x \in W : <<x, i>> \in edges
  <2>1. i \in M /\ i \in ToSet(job.registered) BY <1>7
  <2>2. Order(s) \in Seq(Instances) BY <1>1, <1>3, MembersFacts
  <2>3. PICK n \in DOMAIN Order(s) : Order(s)[n] = i
    <3>1. i \in ToSet(Order(s)) BY <1>2, <2>1 DEF Members
    <3> QED BY <3>1 DEF ToSet
  <2>4. n <= job.at
    <3>1. n \in Nat /\ job.at \in Nat BY <1>1, <2>2 DEF Rounds
    <3>2. ~(n > job.at) BY <1>2, <2>1, <2>3 DEF Candidates
    <3> QED BY <3>1, <3>2
  <2>5. ~MayStart(s, i) /\ Expansion(s, i) \subseteq job.boot
    BY <1>1, <1>2, <2>3, <2>4 DEF Passes
  <2>6. \A j \in Members(s) : Unresolved(s, j, Members(s)) = {} BY <1>2, <1>4
  <2>7. \E x \in ToSet(job.next) \cup (job.boot \ ToSet(job.started)) :
              <<x, i>> \in Edges(s, Members(s), Members(s))
    BY <1>2, <2>5, <2>6, WaitsForSomebody
  <2> QED BY <1>2, <1>5, <1>6, <2>7
<1>11. \A i \in W : \E x \in W : <<x, i>> \in edges
  BY <1>6, <1>9, <1>10
<1> QED BY <1>5, <1>8, <1>11 DEF Cyclic

\* A plan that is refused lacks a contract or has a circle.
LEMMA RefusedPlanIsImpossible ==
    ASSUME NEW s, NEW outside, NEW B, B \subseteq Members(s),
           \/ \E i \in B : Unresolved(s, i, Members(s)) # {}
           \/ Cyclic(B, Edges(s, B, Members(s)))
    PROVE  ~Possible(s, outside)
<1> SUFFICES ASSUME Possible(s, outside) PROVE FALSE
  OBVIOUS
<1>1. /\ \A i \in Members(s) : Unresolved(s, i, Members(s)) = {}
      /\ \E edges : /\ ~Cyclic(Members(s), edges)
                    /\ Edges(s, Members(s), Members(s)) \subseteq edges
  BY PossibleFacts
<1>2. PICK edges : /\ ~Cyclic(Members(s), edges)
                   /\ Edges(s, Members(s), Members(s)) \subseteq edges
  BY <1>1
<1>3. Edges(s, B, Members(s)) \subseteq Edges(s, Members(s), Members(s))
  BY DEF Edges
<1>4. Cyclic(B, Edges(s, B, Members(s)))
  BY <1>1
<1>5. PICK S \in SUBSET B : S # {} /\ \A y \in S : \E x \in S : <<x, y>> \in Edges(s, B, Members(s))
  BY <1>4 DEF Cyclic
<1> QED BY <1>2, <1>3, <1>5 DEF Cyclic
-----------------------------------------------------------------------------
(* The end of a pass, the plan and the batch.                              *)

LEMMA BootEndsKeeps ==
    ASSUME BootInv, BootEnds
    PROVE  BootInv'
<1>1. /\ job.phase = "boot" /\ Candidates = {} /\ UNCHANGED <<composition, engine, platform, standing>>
      /\ job' = IF job.expanded THEN [job EXCEPT !.at = 0, !.expanded = FALSE] ELSE NextRound
  BY DEF BootEnds, Phase
<1>2. /\ WorkInv /\ IsWork(job) /\ Rounds /\ Lists /\ WellFormed(composition) /\ Alone(job.scope)
      /\ job.todo \in Seq(Instances) /\ job.next \in Seq(Instances) /\ job.todo = <<>>
  BY <1>1 DEF BootInv, WorkInv, Lists, Busy
<1>3. \A x : Missing(x)' = Missing(x) /\ Publishes(x)' = Publishes(x)
  BY <1>1 DEF Missing, Needs, Publishes, engine
<1>4. PICK k : k = job'
  OBVIOUS
<1>5. CASE job.expanded
  <2>1. k = [job EXCEPT !.at = 0, !.expanded = FALSE] BY <1>1, <1>4, <1>5
  <2>2. /\ k.phase = job.phase /\ k.scope = job.scope /\ k.todo = job.todo /\ k.next = job.next
        /\ k.boot = job.boot /\ k.progress = job.progress /\ k.at = 0
        /\ k.registered = job.registered /\ k.started = job.started /\ k.before = job.before
        /\ IsWork(k)
    BY ONLY <1>2, <2>1 DEF IsWork
  <2>3. Rounds'
    BY <1>1, <1>2, <1>3, <1>4, <2>2 DEF Rounds
  <2>4. Passes'
    <3>1. Order(job.scope)' = Order(job.scope) BY <1>1, <1>4, <2>2 DEF Order
    <3>2. Order(job.scope) \in Seq(Instances) BY <1>2, MembersFacts DEF Alone
    <3>3. \A m \in DOMAIN Order(job.scope) : ~(m <= 0) BY <3>2
    <3> QED BY <1>4, <2>2, <3>1, <3>3 DEF Passes
  <2>5. Planned' BY <1>1, <1>4, <2>2 DEF Planned
  <2> QED BY <1>1, <1>2, <1>4, <2>2, <2>3, <2>4, <2>5, MovesOn DEF Busy
<1>6. CASE ~job.expanded /\ job.progress
  <2>1. k = [job EXCEPT !.phase = "load", !.todo = job.next, !.next = <<>>, !.progress = FALSE]
    BY <1>1, <1>4, <1>6 DEF NextRound
  <2>2. /\ k.phase = "load" /\ k.scope = job.scope /\ k.todo = job.next /\ k.next = <<>>
        /\ k.boot = job.boot
        /\ k.registered = job.registered /\ k.started = job.started /\ k.before = job.before
        /\ IsWork(k)
    BY ONLY <1>2, <2>1 DEF IsWork
  <2>3. ToSet(<<>>) = {} /\ <<>> \in Seq(Instances) BY DEF ToSet
  <2>4. Rounds'
    BY <1>2, <1>3, <1>4, <2>2, <2>3 DEF Rounds
  <2>5. Passes' /\ Planned' BY <1>4, <2>2 DEF Passes, Planned
  <2>6. ToSet(k.todo) \cup ToSet(k.next) = ToSet(job.todo) \cup ToSet(job.next)
    BY <1>2, <2>2, <2>3
  <2> QED BY <1>1, <1>2, <1>4, <2>2, <2>3, <2>4, <2>5, <2>6, MovesOn DEF Busy
<1>7. CASE ~job.expanded /\ ~job.progress
  <2>1. Abandon("refused") BY <1>1, <1>7 DEF NextRound, Abandon
  <2>2. ~Possible(job.scope, Outside) BY <1>1, <1>7, StalledIsImpossible
  <2> QED BY <1>1, <2>1, <2>2, AbandonStep DEF Busy
<1> QED BY <1>5, <1>6, <1>7

\* When all is loaded, what is active of the scope was started by the job.
LEMMA AllLoaded ==
    ASSUME BootInv, job.phase \in {"plan", "batch"}, NEW s, s = job.scope
    PROVE  /\ Members(s) = ToSet(job.registered) /\ Members(s) \subseteq Instances
           /\ InScope(s, Active) = ToSet(job.started) /\ s \in Scopes
<1>1. /\ WellFormed(composition) /\ Lists /\ InStartOrder(s, job.registered, job.started)
  BY DEF BootInv, WorkInv, Lists, Busy
<1>2. s \in Scopes
  BY <1>1 DEF Lists, Alone
<1>3. ToSet(<<>>) = {}
  BY DEF ToSet
<1>4. Members(s) = ToSet(job.registered)
  BY <1>1, <1>3 DEF Lists
<1>5. InScope(s, Active) = ToSet(job.started)
  BY <1>1, <1>4 DEF InStartOrder, InScope
<1> QED BY <1>1, <1>2, <1>4, <1>5, MembersFacts

LEMMA EdgesSame ==
    ASSUME NEW s, NEW B, NEW E, composition' = composition, s \in platform' <=> s \in platform
    PROVE  Edges(s, B, E)' = Edges(s, B, E)
<1>1. \A c : Platform(s, c)' <=> Platform(s, c)
  BY DEF Platform
<1>2. \A i : Requires(i)' = Requires(i)
  BY DEF Requires
<1>3. \A c : Providers(s, c, E)' = Providers(s, c, E) /\ Definers(c, E)' = Definers(c, E)
  BY DEF Providers, Definers, Provides, Defines
<1> QED BY <1>1, <1>2, <1>3 DEF Edges

LEMMA PlanKeeps ==
    ASSUME BootInv, Plan
    PROVE  BootInv'
<1>1. job.phase = "plan" /\ UNCHANGED <<composition, engine, platform, standing>>
  BY DEF Plan, Phase
<1>2. /\ WorkInv /\ IsWork(job) /\ Rounds /\ Lists /\ WellFormed(composition) /\ Alone(job.scope)
      /\ job.todo \in Seq(Instances) /\ job.next \in Seq(Instances)
      /\ job.todo = <<>> /\ job.next = <<>>
      /\ InStartOrder(job.scope, job.registered, job.started)
  BY <1>1 DEF BootInv, WorkInv, Lists, Busy
<1>3. PICK s, B, M, edges : /\ s = job.scope /\ B = ToSet(job.registered) \ ToSet(job.started)
                            /\ M = Members(s) /\ edges = Edges(s, B, M)
  OBVIOUS
<1>4. M = ToSet(job.registered) /\ InScope(s, Active) = ToSet(job.started)
  BY <1>1, <1>3, AllLoaded
<1>5. InScope(s, Active) \cup B = M /\ B \subseteq M
  <2>1. ToSet(job.started) \subseteq ToSet(job.registered) BY <1>2 DEF InStartOrder
  <2> QED BY <1>3, <1>4, <2>1
<1>6. IF (\E i \in B : Unresolved(s, i, M) # {}) \/ Cyclic(B, edges)
      THEN Abandon("refused")
      ELSE job' = [job EXCEPT !.phase = "batch", !.batch = B, !.edges = edges]
  BY <1>3, <1>5 DEF Plan
<1>7. CASE (\E i \in B : Unresolved(s, i, M) # {}) \/ Cyclic(B, edges)
  <2>1. ~Possible(s, Outside) BY <1>3, <1>5, <1>7, RefusedPlanIsImpossible
  <2> QED BY <1>1, <1>3, <1>6, <1>7, <2>1, AbandonStep DEF Busy
<1>8. CASE ~((\E i \in B : Unresolved(s, i, M) # {}) \/ Cyclic(B, edges))
  <2>1. PICK k : k = job' OBVIOUS
  <2>2. k = [job EXCEPT !.phase = "batch", !.batch = B, !.edges = edges] BY <1>6, <1>8, <2>1
  <2>3. /\ k.phase = "batch" /\ k.scope = job.scope /\ k.todo = job.todo /\ k.next = job.next
        /\ k.boot = job.boot /\ k.batch = B /\ k.edges = edges
        /\ k.registered = job.registered /\ k.started = job.started /\ k.before = job.before
        /\ IsWork(k)
    BY ONLY <1>2, <2>2 DEF IsWork
  <2>4. Rounds'
    <3>1. \A x : Publishes(x)' = Publishes(x) BY <1>1 DEF Publishes
    <3>2. ToSet(<<>>) = {} BY DEF ToSet
    <3> QED BY <1>2, <2>1, <2>3, <3>1, <3>2 DEF Rounds
  <2>5. Passes' BY <2>1, <2>3 DEF Passes
  <2>6. Planned'
    <3>1. Members(s)' = M BY <1>1, <1>3 DEF Members, Order
    <3>2. \A i : Unresolved(s, i, M)' = Unresolved(s, i, M) BY <1>1, UnresolvedSame
    <3>3. Edges(s, B, M)' = edges BY <1>1, <1>3, EdgesSame
    <3>4. ~Cyclic(B, edges) /\ \A i \in B : Unresolved(s, i, M) = {} BY <1>8
    <3>5. /\ job'.scope = s /\ job'.batch = B /\ job'.edges = edges
          /\ B = ToSet(job'.registered) \ ToSet(job'.started)
      BY <1>3, <2>1, <2>3
    <3>6. Cyclic(B, edges)' <=> Cyclic(B, edges) OBVIOUS
    <3>7. Members(s)' = Members(job.scope)' BY <3>5
    <3>8. Edges(s, B, Members(s))' = edges
      BY <3>1, <3>3
    <3>9. \A i \in B : Unresolved(s, i, Members(s))' = {}
      BY <3>1, <3>2, <3>4
    <3>10. edges \subseteq Instances \X Instances
      <4>1. B \subseteq Instances BY <1>1, <1>3, <1>5, AllLoaded
      <4> QED BY <1>3, <4>1 DEF Edges
    <3> QED BY <3>4, <3>5, <3>6, <3>8, <3>9, <3>10 DEF Planned
  <2> QED BY <1>1, <1>2, <2>1, <2>3, <2>4, <2>5, <2>6, MovesOn DEF Busy
<1> QED BY <1>7, <1>8

\* The plan has somebody to start, and he can be.
LEMMA BatchReady ==
    ASSUME BootInv, job.phase = "batch", job.batch # {}, NEW i, i = NextOfBatch
    PROVE  i \in job.batch /\ MayStart(job.scope, i)
<1>1. /\ WellFormed(composition) /\ Planned /\ Lists
      /\ InStartOrder(job.scope, job.registered, job.started)
  BY DEF BootInv, WorkInv, Lists, Busy
<1>2. PICK s, M, B, St : /\ s = job.scope /\ M = Members(s) /\ B = job.batch
                         /\ St = ToSet(job.started)
  OBVIOUS
<1>3. /\ M = ToSet(job.registered) /\ M \subseteq Instances /\ InScope(s, Active) = St
      /\ s \in Scopes
  BY <1>2, AllLoaded
<1>4. /\ B = M \ St /\ Edges(s, B, M) \subseteq job.edges /\ ~Cyclic(B, job.edges)
      /\ \A j \in B : Unresolved(s, j, M) = {}
  BY <1>1, <1>2, <1>3 DEF Planned
<1>5. Order(s) \in Seq(Instances)
  BY <1>1, <1>3, MembersFacts
<1>6. PICK j \in B : Ready(j)
  <2>1. ~\A y \in B : \E x \in B : <<x, y>> \in job.edges
    BY <1>2, <1>4 DEF Cyclic
  <2>2. PICK y \in B : \A x \in B : <<x, y>> \notin job.edges
    BY <2>1
  <2>3. Ready(y)
    <3> SUFFICES ASSUME NEW e \in job.edges, e[2] = y, e[1] \in B PROVE FALSE
      BY <1>2 DEF Ready
    <3>1. e = <<e[1], e[2]>>
      BY <1>1, <1>2 DEF Planned
    <3> QED BY <2>2, <3>1
  <2> QED BY <2>3
<1>7. PICK at : at = {n \in DOMAIN Order(s) : Order(s)[n] \in B /\ Ready(Order(s)[n])}
  OBVIOUS
<1>8. at # {}
  <2>1. j \in ToSet(Order(s)) BY <1>2, <1>4, <1>6 DEF Members
  <2>2. PICK n \in DOMAIN Order(s) : Order(s)[n] = j BY <2>1 DEF ToSet
  <2> QED BY <1>6, <1>7, <2>2
<1>9. Min(at) \in at
  <2>1. at \subseteq Nat BY <1>5, <1>7
  <2> QED BY <1>8, <2>1, MinFacts
<1>10. i = Order(s)[Min(at)]
  BY <1>2, <1>7 DEF NextOfBatch
<1>11. i \in B /\ Ready(i)
  BY <1>7, <1>9, <1>10
<1>12. ASSUME NEW c \in Requires(i) PROVE Bound(s, c, InScope(s, Active) \cup {i})
  <2>1. Bound(s, c, M) BY <1>4, <1>11 DEF Unresolved
  <2>2. ASSUME NEW x \in Suppliers(s, c, M), x # i PROVE x \in St
    <3>1. x \in M BY DEF Suppliers
    <3>2. ASSUME x \in B PROVE FALSE
      <4>1. <<x, i>> \in Edges(s, B, M)
        <5>1. i \in B /\ x \in B /\ c \in Requires(i) /\ x \in Suppliers(s, c, M) /\ x # i
          BY <1>11, <1>12, <2>2, <3>2
        <5> QED BY <5>1, SuppliersPrecede
      <4> QED BY <1>2, <1>4, <1>11, <3>2, <4>1 DEF Ready
    <3> QED BY <1>4, <3>1, <3>2
  <2>3. Suppliers(s, c, M) \subseteq St \cup {i} /\ St \cup {i} \subseteq M
    <3>1. St \subseteq M BY <1>1, <1>2, <1>3 DEF InStartOrder
    <3> QED BY <1>4, <1>11, <2>2, <3>1
  <2> QED BY <1>3, <2>1, <2>3, SuppliersSuffice
<1> QED BY <1>2, <1>11, <1>12 DEF MayStart, Unresolved
LEMMA BatchNextKeeps ==
    ASSUME BootInv, BatchNext
    PROVE  BootInv'
<1>1. job.phase = "batch" /\ job.batch # {} /\ UNCHANGED <<composition, platform, standing>>
  BY DEF BatchNext, Phase
<1>2. PICK i : i = NextOfBatch
  OBVIOUS
<1>3. i \in job.batch /\ MayStart(job.scope, i)
  BY <1>1, <1>2, BatchReady
<1>4. /\ IsWork(job) /\ Rounds /\ Lists /\ WellFormed(composition) /\ Planned /\ EngineInv
      /\ job.next = <<>> /\ InStartOrder(job.scope, job.registered, job.started)
  BY <1>1 DEF BootInv, WorkInv, Lists, Busy
<1>5. CASE Occupied(i)
  <2>1. Abandon("error") /\ UNCHANGED engine BY <1>2, <1>5 DEF BatchNext
  <2> QED BY <1>1, <2>1, AbandonStep DEF Busy
<1>6. CASE ~Occupied(i)
  <2>1. PICK k, s, B, M, longer :
            /\ k = job' /\ s = job.scope /\ B = job.batch \ {i} /\ M = Members(s)
            /\ longer = Append(job.started, i)
    OBVIOUS
  <2>2. k = [job EXCEPT !.batch = B, !.started = longer] /\ Started(i)
    BY <1>2, <1>3, <1>6, <2>1 DEF BatchNext
  <2>3. /\ k.phase = job.phase /\ k.scope = job.scope /\ k.todo = job.todo /\ k.next = job.next
        /\ k.boot = job.boot /\ k.batch = B /\ k.edges = job.edges
        /\ k.registered = job.registered /\ k.started = longer /\ k.before = job.before
        /\ IsWork(k)
    BY ONLY <1>4, <2>2 DEF IsWork
  <2>4. i \in ToSet(job.registered) \ ToSet(job.started) /\ i \in Instances
    <3>1. ToSet(job.registered) \subseteq Instances BY <1>1, AllLoaded
    <3> QED BY <1>1, <1>3, <1>4, <3>1 DEF Planned
  <2>5. ToSet(longer) = ToSet(job.started) \cup {i}
    <3>1. job.started \in Seq(Instances) BY <1>4 DEF InStartOrder
    <3> QED BY <2>1, <2>4, <3>1, LongerFacts
  <2>6. Rounds'
    <3>1. \A x : Publishes(x)' = Publishes(x) BY <1>1 DEF Publishes
    <3>2. ToSet(<<>>) = {} BY DEF ToSet
    <3> QED BY <1>1, <1>4, <2>1, <2>3, <3>1, <3>2 DEF Rounds
  <2>7. Passes' BY <1>1, <2>1, <2>3 DEF Passes
  <2>8. Planned'
    <3>1. Members(s)' = M BY <1>1, <2>1 DEF Members, Order
    <3>2. \A j : Unresolved(s, j, M)' = Unresolved(s, j, M) BY <1>1, UnresolvedSame
    <3>3. Edges(s, B, M)' = Edges(s, B, M) BY <1>1, EdgesSame
    <3>4. /\ job.batch = ToSet(job.registered) \ ToSet(job.started)
          /\ job.edges \subseteq Instances \X Instances
          /\ Edges(s, job.batch, M) \subseteq job.edges /\ ~Cyclic(job.batch, job.edges)
          /\ \A j \in job.batch : Unresolved(s, j, M) = {}
      BY <1>1, <1>4, <2>1 DEF Planned
    <3>5. Edges(s, B, M) \subseteq Edges(s, job.batch, M) BY <2>1 DEF Edges
    <3>6. ~Cyclic(B, job.edges)
      <4>1. B \subseteq job.batch BY <2>1
      <4> QED BY <3>4, <4>1 DEF Cyclic
    <3>7. /\ job'.scope = s /\ job'.batch = B /\ job'.edges = job.edges
          /\ B = ToSet(job'.registered) \ ToSet(job'.started)
      BY <2>1, <2>3, <2>5, <3>4
    <3>8. Edges(s, B, Members(s))' \subseteq job.edges
      BY <3>1, <3>3, <3>4, <3>5
    <3>9. \A j \in B : Unresolved(s, j, Members(s))' = {}
      BY <2>1, <3>1, <3>2, <3>4
    <3> QED BY <3>4, <3>6, <3>7, <3>8, <3>9 DEF Planned
  <2> QED BY <1>1, <1>3, <1>6, <2>1, <2>2, <2>3, <2>4, <2>6, <2>7, <2>8, StartKeeps DEF Busy
<1> QED BY <1>5, <1>6

\* When everything of the batch has been started, the composition is up.
LEMMA UpKeeps ==
    ASSUME BootInv, Up
    PROVE  BootInv'
<1>1. job.phase = "batch" /\ job.batch = {} /\ UNCHANGED <<composition, engine, platform>>
  BY DEF Up, Phase
<1>2. PICK s, R, St : s = job.scope /\ R = job.registered /\ St = job.started
  OBVIOUS
<1>3. /\ WellFormed(composition) /\ EngineInv /\ UpInv /\ Alone(s) /\ Planned /\ InStartOrder(s, R, St)
  BY <1>1, <1>2 DEF BootInv, WorkInv, Lists, Busy
<1>4. /\ Members(s) = ToSet(R) /\ InScope(s, Active) = ToSet(St) /\ s \in Scopes
      /\ Members(s) \subseteq Instances
  BY <1>1, <1>2, AllLoaded
<1>5. ToSet(St) = ToSet(R)
  BY <1>1, <1>2, <1>3 DEF Planned, InStartOrder
<1>6. /\ standing' = [r \in DOMAIN standing \cup {s} |->
                  IF r = s THEN [registered |-> R, started |-> St] ELSE standing[r]]
      /\ job' = NoJob
  BY <1>2 DEF Up
<1>7. DOMAIN standing' = DOMAIN standing \cup {s} /\ s \notin DOMAIN standing
  BY <1>3, <1>6 DEF Alone
<1>8. IsFiniteSet(DOMAIN standing') /\ DOMAIN standing' \subseteq Scopes /\ Host \in DOMAIN standing'
  <2>1. IsFiniteSet(DOMAIN standing') BY <1>3, <1>7, FS_AddElement DEF UpInv
  <2> QED BY <1>3, <1>4, <1>7, <2>1 DEF UpInv, Alone
<1>9. ASSUME NEW r \in DOMAIN standing'
      PROVE  /\ r \in platform' /\ Members(r)' \subseteq Active'
             /\ ToSet(standing'[r].registered) = Members(r)'
             /\ InStartOrder(r, standing[r].registered, standing[r].started)'
  <2>1. r \in Scopes /\ Members(r)' = Members(r) /\ Active' = Active
    BY <1>1, <1>8, SameScope
  <2>2. CASE r = s
    <3>1. standing'[r].registered = R /\ standing'[r].started = St BY <1>6, <2>2
    <3>2. Members(r) \subseteq Active BY <1>4, <1>5, <2>2 DEF InScope
    <3>3. InStartOrder(r, R, St)' BY <1>1, <1>3, <2>1, <2>2, RecordedStays DEF engine
    <3> QED BY <1>1, <1>3, <1>4, <2>1, <2>2, <3>1, <3>2, <3>3 DEF Alone
  <2>3. CASE r # s
    <3>1. r \in DOMAIN standing /\ standing'[r] = standing[r] BY <1>6, <1>7, <2>3
    <3>2. PICK Q, T : Q = standing[r].registered /\ T = standing[r].started OBVIOUS
    <3>3. r \in platform /\ Members(r) \subseteq Active /\ ToSet(Q) = Members(r) /\ InStartOrder(r, Q, T)
      BY <1>3, <3>1, <3>2 DEF UpInv
    <3>4. InStartOrder(r, Q, T)' BY <1>1, <1>3, <2>1, <3>3, RecordedStays DEF engine
    <3> QED BY <1>1, <2>1, <3>1, <3>2, <3>3, <3>4
  <2> QED BY <2>2, <2>3
<1>10. UpInv'
  BY <1>8, <1>9 DEF UpInv
<1>11. EngineInv' /\ WellFormed(composition)'
  BY <1>1, <1>3, EngineStays DEF WellFormed
<1>12. job'.phase = "idle"
  BY <1>6 DEF NoJob
<1> QED BY <1>10, <1>11, <1>12 DEF BootInv, Busy

-----------------------------------------------------------------------------
(* Activation and cleanup.                                                 *)

LEMMA ActivateKeeps ==
    ASSUME BootInv, NEW s \in Scopes, Activate(s)
    PROVE  BootInv'
<1>1. /\ s \notin DOMAIN standing /\ (s = Host \/ Host \in DOMAIN standing)
      /\ platform' = platform \cup {s} /\ UNCHANGED <<composition, engine, standing>>
  BY DEF Activate
<1>2. WellFormed(composition) /\ EngineInv /\ UpInv
  BY DEF BootInv
<1>3. PICK k, todo, before : k = job' /\ todo = Order(s) /\ before = Present
  OBVIOUS
<1>4. k = [phase |-> "load", scope |-> s, todo |-> todo, next |-> <<>>,
           boot |-> {}, progress |-> FALSE, at |-> 0, expanded |-> FALSE,
           batch |-> {}, edges |-> {}, registered |-> <<>>, started |-> <<>>,
           before |-> before]
  BY <1>3 DEF Activate
<1>5. /\ k.phase = "load" /\ k.scope = s /\ k.todo = todo /\ k.next = <<>> /\ k.boot = {}
      /\ k.registered = <<>> /\ k.started = <<>> /\ k.before = before
      /\ IsWork(k)
  BY ONLY <1>4, WorkFields
<1>6. /\ <<>> \in Seq(Instances) /\ ToSet(<<>>) = {} /\ DOMAIN <<>> = {}
  <2>1. DOMAIN <<>> = {} OBVIOUS
  <2> QED BY <2>1 DEF ToSet
<1>7. EngineInv' /\ WellFormed(composition)'
  BY <1>1, <1>2, EngineStays DEF WellFormed
<1>8. UpInv'
  <2>1. \A r \in DOMAIN standing : r \in platform' BY <1>1, <1>2 DEF UpInv
  <2>2. UNCHANGED <<composition, state, uses, standing>> BY <1>1 DEF engine
  <2> QED BY <1>2, <2>1, <2>2, UpStays
<1>9. Alone(s)'
  BY <1>1, <1>2 DEF Alone, UpInv
<1>10. InStartOrder(s, <<>>, <<>>)'
  BY <1>6 DEF InStartOrder, Distinct
<1>11. Added(before, {})'
  <2>1. Present' = Present /\ uses' = uses BY <1>1, SameScope DEF engine
  <2>2. before \subseteq Instances BY <1>3 DEF Present
  <2>3. Active \subseteq before BY <1>3 DEF Present, Active
  <2> QED BY <1>2, <1>3, <2>1, <2>2, <2>3 DEF Added, EngineInv
<1>12. todo \in Seq(Instances) /\ Members(s)' = ToSet(todo)
  <2>1. Members(s)' = Members(s) BY <1>1, SameScope
  <2> QED BY <1>2, <1>3, <2>1, MembersFacts DEF Members
<1>13. Lists'
  BY <1>3, <1>5, <1>6, <1>9, <1>10, <1>11, <1>12 DEF Lists
<1>14. Rounds'
  BY <1>3, <1>5, <1>6 DEF Rounds
<1>15. Passes' /\ Planned'
  BY <1>3, <1>5 DEF Passes, Planned
<1> QED BY <1>3, <1>5, <1>7, <1>8, <1>13, <1>14, <1>15 DEF BootInv, WorkInv, Busy
\* A composition that is taken down is cleaned up by its record.
LEMMA TakeDown ==
    ASSUME WellFormed(composition), EngineInv, UpInv, NEW s \in DOMAIN standing,
           s = Host => DOMAIN standing = {Host}, NEW why \in {"down", "shutdown"},
           job' = Undo(s, standing[s].registered, standing[s].started, why, {}),
           standing' = [r \in DOMAIN standing \ {s} |-> standing[r]],
           UNCHANGED <<composition, engine, platform>>
    PROVE  BootInv'
<1>1. PICK R, St, left, k : /\ R = standing[s].registered /\ St = standing[s].started
                            /\ left = Cleanup(R, St) /\ k = job'
  OBVIOUS
<1>2. /\ s \in Scopes /\ s \in platform /\ Members(s) \subseteq Active /\ ToSet(R) = Members(s)
      /\ InStartOrder(s, R, St)
  BY <1>1 DEF UpInv
<1>3. k = [phase |-> "undo", scope |-> s, left |-> left, why |-> why, before |-> {}]
  BY <1>1 DEF Undo
<1>4. k.phase = "undo" /\ k.scope = s /\ k.left = left /\ k.why = why /\ k.before = {}
  BY ONLY <1>3
<1>5. Ordered(s, left) /\ ToSet(left) = Members(s)
  BY <1>1, <1>2, CleanupOrdered
<1>6. Ordered(s, left)'
  BY <1>5, OrderedStays
<1>7. DOMAIN standing' = DOMAIN standing \ {s} /\ \A r \in DOMAIN standing' : standing'[r] = standing[r]
  OBVIOUS
<1>8. Alone(s)'
  <2>1. Host \in DOMAIN standing BY DEF UpInv
  <2> QED BY <1>2, <1>7, <2>1 DEF Alone
<1>9. UpInv'
  <2>1. \A r \in DOMAIN standing' : r \in platform' BY <1>7 DEF UpInv
  <2>2. UNCHANGED <<state, uses>> BY DEF engine
  <2>3. PICK gone : gone = {s} OBVIOUS
  <2>4. Host \notin gone \/ DOMAIN standing \subseteq gone BY <2>3
  <2> QED BY <1>7, <2>1, <2>2, <2>3, <2>4, UpStays
<1>10. InScope(s, Present)' \ ToSet(left) = {}
  BY <1>5, SameScope DEF InScope
<1>11. UndoInv'
  <2>1. job' = [phase |-> "undo", scope |-> job'.scope, left |-> job'.left, why |-> job'.why,
                before |-> job'.before]
    BY <1>1, <1>3, <1>4
  <2>2. \A i \in InScope(s, Present)' \ ToSet(left) : \E d \in Dependents(i)' : d \notin ToSet(left)
    BY <1>10
  <2> QED BY <1>1, <1>4, <1>6, <1>8, <2>1, <2>2 DEF UndoInv
<1>12. EngineInv' /\ WellFormed(composition)'
  BY EngineStays DEF WellFormed
<1> QED BY <1>1, <1>4, <1>9, <1>11, <1>12 DEF BootInv, Busy

LEMMA DeactivateKeeps ==
    ASSUME BootInv, NEW w, DeactivateWorld(w)
    PROVE  BootInv'
<1>1. /\ w \in DOMAIN standing /\ w # Host
      /\ job' = Undo(w, standing[w].registered, standing[w].started, "down", {})
      /\ standing' = [r \in DOMAIN standing \ {w} |-> standing[r]]
      /\ UNCHANGED <<composition, engine, platform>>
  BY DEF DeactivateWorld
<1>2. WellFormed(composition) /\ EngineInv /\ UpInv
  BY DEF BootInv
<1> QED BY <1>1, <1>2, TakeDown

LEMMA ShutdownKeeps ==
    ASSUME BootInv, Shutdown
    PROVE  BootInv'
<1>1. PICK s : s = LastUp
  OBVIOUS
<1>2. /\ Host \in DOMAIN standing
      /\ job' = Undo(s, standing[s].registered, standing[s].started, "shutdown", {})
      /\ standing' = [r \in DOMAIN standing \ {s} |-> standing[r]]
      /\ UNCHANGED <<composition, engine, platform>>
  BY <1>1 DEF Shutdown
<1>3. WellFormed(composition) /\ EngineInv /\ UpInv
  BY DEF BootInv
<1>4. s \in DOMAIN standing /\ (s = Host => DOMAIN standing = {Host})
  <2>1. CASE DOMAIN standing = {Host}
    BY <1>1, <1>2, <2>1 DEF LastUp
  <2>2. CASE DOMAIN standing # {Host}
    <3>1. PICK T : T = DOMAIN standing \ {Host} OBVIOUS
    <3>2. T \subseteq Nat /\ IsFiniteSet(T) /\ T # {}
      <4>1. T \subseteq WorldScopes BY <1>3, <3>1 DEF UpInv, Scopes
      <4>2. IsFiniteSet(T) BY <1>3, <3>1, FS_Subset DEF UpInv
      <4> QED BY <1>2, <2>2, <3>1, <4>1, <4>2, BootstrapAssumption
    <3>3. Max(T) \in T BY <3>2, GreatestNumber DEF Max
    <3> QED BY <1>1, <2>2, <3>1, <3>3 DEF LastUp
  <2> QED BY <2>1, <2>2
<1> QED BY <1>2, <1>3, <1>4, TakeDown

LEMMA RestFrom ==
    ASSUME NEW left \in Seq(Instances), left # <<>>, NEW rest, rest = Tail(left),
           NEW n \in DOMAIN rest
    PROVE  From(left, n + 1) = From(rest, n)
<1>1. /\ rest \in Seq(Instances) /\ Len(rest) = Len(left) - 1
      /\ DOMAIN left = 1 .. Len(left) /\ Len(left) \in Nat
  BY RestFacts
<1>2. \A k \in 1 .. Len(left) - 1 : rest[k] = left[k + 1]
  BY RestFacts
<1>3. n \in 1 .. Len(left) - 1
  BY <1>1
<1>4. ASSUME NEW x \in From(left, n + 1) PROVE x \in From(rest, n)
  <2>1. PICK k \in n + 1 .. Len(left) : x = left[k] BY <1>4 DEF From
  <2>2. k - 1 \in n .. Len(rest) /\ k - 1 \in 1 .. Len(left) - 1 /\ (k - 1) + 1 = k
    BY <1>1, <1>3, <2>1
  <2>3. x = rest[k - 1] BY <1>2, <2>1, <2>2
  <2> QED BY <2>2, <2>3 DEF From
<1>5. ASSUME NEW x \in From(rest, n) PROVE x \in From(left, n + 1)
  <2>1. PICK k \in n .. Len(rest) : x = rest[k] BY <1>5 DEF From
  <2>2. k + 1 \in n + 1 .. Len(left) /\ k \in 1 .. Len(left) - 1
    BY <1>1, <1>3, <2>1
  <2>3. x = left[k + 1] BY <1>2, <2>1, <2>2
  <2> QED BY <2>2, <2>3 DEF From
<1> QED BY <1>4, <1>5

\* Stopped and unregistered.
Removed(i) ==
    /\ state' = [state EXCEPT ![i] = "absent"]
    /\ hosts' = [t \in Targets |-> IF hosts[t] = i THEN Nobody ELSE hosts[t]]
    /\ uses' = [uses EXCEPT ![i] = {}]

\* What becomes of an instance whose turn it is: with nobody loaded through it, it goes,
\* and the rest of the order is right without it.
LEMMA RemoveNext ==
    ASSUME WellFormed(composition), EngineInv, NEW s \in Scopes,
           NEW left, left # <<>>, Ordered(s, left), NEW i, i = Head(left), NEW rest, rest = Tail(left),
           Dependents(i) = {}, Removed(i), UNCHANGED <<composition, platform>>
    PROVE  /\ EngineInv' /\ Ordered(s, rest)'
           /\ Present' = Present \ {i} /\ i \in InScope(s, Present)
           /\ ToSet(left) = ToSet(rest) \cup {i} /\ i \notin ToSet(rest)
           /\ \A j \in Instances \ {i} : state'[j] = state[j] /\ uses'[j] = uses[j]
<1>1. /\ state' = [state EXCEPT ![i] = "absent"]
      /\ hosts' = [t \in Targets |-> IF hosts[t] = i THEN Nobody ELSE hosts[t]]
      /\ uses' = [uses EXCEPT ![i] = {}]
  BY DEF Removed
<1>2. /\ left \in Seq(Instances) /\ Distinct(left) /\ ToSet(left) \subseteq InScope(s, Present)
  BY DEF Ordered
<1>3. /\ rest \in Seq(Instances) /\ i \in Instances /\ Len(rest) = Len(left) - 1
      /\ i = left[1] /\ 1 \in DOMAIN left /\ ToSet(left) = ToSet(rest) \cup {i}
      /\ Distinct(rest) /\ i \notin ToSet(rest)
  BY <1>2, RestFacts
<1>4. \A n \in 1 .. Len(left) - 1 : rest[n] = left[n + 1]
  BY <1>2, RestFacts
<1>5. /\ Len(left) \in Nat /\ DOMAIN left = 1 .. Len(left) /\ DOMAIN rest = 1 .. Len(left) - 1
  BY <1>2, <1>3
<1>6. i \in InScope(s, Present) /\ i \in Members(s) /\ i \in Present
  BY <1>2, <1>3 DEF InScope
<1>7. Present' = Present \ {i} /\ Active' = Active \ {i}
  BY <1>1, <1>3 DEF Present, Active, EngineInv
<1>8. \A j \in Instances \ {i} : state'[j] = state[j] /\ uses'[j] = uses[j]
  BY <1>1, <1>3 DEF EngineInv
<1>9. \A j \in Instances : uses'[j] \subseteq uses[j] /\ i \notin uses'[j]
  <2>1. ASSUME NEW j \in Instances, j # i PROVE i \notin uses[j]
    <3>1. CASE j \in Present BY <2>1, <3>1 DEF Dependents
    <3>2. CASE j \notin Present BY <3>2 DEF EngineInv, Present
    <3> QED BY <3>1, <3>2
  <2>2. uses'[i] = {} BY <1>1, <1>3 DEF EngineInv
  <2> QED BY <1>8, <2>1, <2>2
<1>10. EngineInv'
  <2>1. \A j : Publishes(j)' = Publishes(j) BY DEF Publishes
  <2>2. state' \in [Instances -> {"absent", "registered", "active"}] BY <1>1 DEF EngineInv
  <2>3. hosts' \in [Targets -> Instances \cup {Nobody}] BY <1>1 DEF EngineInv
  <2>4. uses' \in [Instances -> SUBSET Instances] BY <1>1 DEF EngineInv
  <2>5. \A j \in Instances : uses'[j] \subseteq Active'
    BY <1>7, <1>9 DEF EngineInv
  <2>6. \A j \in Instances : state'[j] = "absent" => uses'[j] = {}
    <3>1. uses'[i] = {} BY <1>1, <1>3 DEF EngineInv
    <3> QED BY <1>8, <3>1 DEF EngineInv
  <2>7. \A t \in Targets : hosts'[t] # Nobody => hosts'[t] \in Active' /\ t \in Publishes(hosts'[t])
    BY <1>1, <1>7 DEF EngineInv
  <2>8. ASSUME NEW j \in Active', NEW t \in Publishes(j) PROVE hosts'[t] = j
    <3>1. j \in Active /\ j # i BY <1>7
    <3>2. t \in Targets
      <4>1. j \in Instances BY <3>1 DEF Active
      <4> QED BY <4>1 DEF WellFormed, Publishes
    <3>3. hosts[t] = j BY <3>1 DEF EngineInv
    <3> QED BY <1>1, <3>1, <3>2, <3>3
  <2> QED BY <2>1, <2>2, <2>3, <2>4, <2>5, <2>6, <2>7, <2>8 DEF EngineInv
<1>11. Members(s)' = Members(s)
  BY DEF Members, Order
<1>12. Ordered(s, rest)'
  <2>1. ToSet(rest) \subseteq InScope(s, Present)'
    BY <1>2, <1>3, <1>7, <1>11 DEF InScope
  <2>2. ASSUME NEW m \in DOMAIN rest, NEW n \in DOMAIN rest, rest[m] \in uses'[rest[n]] PROVE n < m
    <3>1. /\ m + 1 \in DOMAIN left /\ n + 1 \in DOMAIN left /\ rest[m] = left[m + 1]
          /\ rest[n] = left[n + 1] /\ m \in Nat /\ n \in Nat
      BY <1>4, <1>5
    <3>2. rest[n] \in Instances BY <1>3
    <3>3. left[m + 1] \in uses[left[n + 1]] BY <1>9, <2>2, <3>1, <3>2
    <3>4. n + 1 < m + 1 BY <3>1, <3>3 DEF Ordered
    <3> QED BY <3>1, <3>4
  <2>3. ASSUME NEW n \in DOMAIN rest, rest[n] \in Active'
        PROVE  Unresolved(s, rest[n], (From(rest, n) \cap Active)
                                          \cup (InScope(s, Active) \ ToSet(rest)))' = {}
    <3>1. n \in Nat /\ n + 1 \in DOMAIN left /\ rest[n] = left[n + 1] BY <1>4, <1>5
    <3>2. PICK E : E = (From(left, n + 1) \cap Active) \cup (InScope(s, Active) \ ToSet(left)) OBVIOUS
    <3>3. Unresolved(s, rest[n], E) = {} BY <1>7, <2>3, <3>1, <3>2 DEF Ordered
    <3>4. Unresolved(s, rest[n], E)' = {} BY <3>3, UnresolvedSame
    <3>5. From(left, n + 1) = From(rest, n) BY <1>2, RestFrom
    <3>6. i \notin From(rest, n)
      <4>1. From(rest, n) \subseteq ToSet(rest)
        <5>1. \A k \in n .. Len(rest) : k \in DOMAIN rest BY <1>3, <1>5, <3>1
        <5> QED BY <5>1 DEF From, ToSet
      <4> QED BY <1>3, <4>1
    <3>7. E = ((From(rest, n) \cap Active) \cup (InScope(s, Active) \ ToSet(rest)))'
      BY <1>3, <1>7, <1>11, <3>2, <3>5, <3>6 DEF InScope
    <3> QED BY <3>4, <3>7
  <2> QED BY <1>3, <2>1, <2>2, <2>3 DEF Ordered
<1> QED BY <1>3, <1>6, <1>7, <1>8, <1>10, <1>12
\* An instance that somebody was loaded through stays, and is passed over.
LEMMA PassOver ==
    ASSUME WellFormed(composition), NEW s \in Scopes,
           NEW left, left # <<>>, Ordered(s, left), NEW i, i = Head(left), NEW rest, rest = Tail(left),
           UNCHANGED <<composition, engine, platform>>
    PROVE  /\ Ordered(s, rest)'
           /\ i \in InScope(s, Present) /\ ToSet(left) = ToSet(rest) \cup {i} /\ i \notin ToSet(rest)
<1>1. /\ left \in Seq(Instances) /\ Distinct(left) /\ ToSet(left) \subseteq InScope(s, Present)
  BY DEF Ordered
<1>2. /\ rest \in Seq(Instances) /\ i \in Instances /\ Len(rest) = Len(left) - 1
      /\ i = left[1] /\ 1 \in DOMAIN left /\ ToSet(left) = ToSet(rest) \cup {i}
      /\ Distinct(rest) /\ i \notin ToSet(rest)
  BY <1>1, RestFacts
<1>3. \A n \in 1 .. Len(left) - 1 : rest[n] = left[n + 1]
  BY <1>1, RestFacts
<1>4. /\ Len(left) \in Nat /\ DOMAIN left = 1 .. Len(left) /\ DOMAIN rest = 1 .. Len(left) - 1
  BY <1>1, <1>2
<1>5. Ordered(s, rest)
  <2>1. ASSUME NEW m \in DOMAIN rest, NEW n \in DOMAIN rest, rest[m] \in uses[rest[n]] PROVE n < m
    <3>1. /\ m + 1 \in DOMAIN left /\ n + 1 \in DOMAIN left /\ rest[m] = left[m + 1]
          /\ rest[n] = left[n + 1] /\ m \in Nat /\ n \in Nat
      BY <1>3, <1>4
    <3>2. left[m + 1] \in uses[left[n + 1]] BY <2>1, <3>1
    <3>3. n + 1 < m + 1 BY <3>1, <3>2 DEF Ordered
    <3> QED BY <3>1, <3>3
  <2>2. ASSUME NEW n \in DOMAIN rest, rest[n] \in Active
        PROVE  Unresolved(s, rest[n], (From(rest, n) \cap Active)
                                          \cup (InScope(s, Active) \ ToSet(rest))) = {}
    <3>1. n + 1 \in DOMAIN left /\ rest[n] = left[n + 1] BY <1>3, <1>4
    <3>2. Unresolved(s, rest[n], (From(left, n + 1) \cap Active)
                                          \cup (InScope(s, Active) \ ToSet(left))) = {}
      BY <2>2, <3>1 DEF Ordered
    <3>3. From(left, n + 1) = From(rest, n) BY <1>1, <1>2, RestFrom
    <3>4. ToSet(rest) \subseteq ToSet(left) BY <1>2
    <3> QED BY <3>2, <3>3, <3>4, UnresolvedLess
  <2>3. ToSet(rest) \subseteq InScope(s, Present) BY <1>1, <1>2
  <2> QED BY <1>2, <2>1, <2>2, <2>3 DEF Ordered
<1>6. Ordered(s, rest)'
  BY <1>5, OrderedStays
<1> QED BY <1>1, <1>2, <1>6

\* The cleanup looks at one more: what is left of it.
LEMMA CleanupGoesOn ==
    ASSUME BootInv, job.phase = "undo", UNCHANGED <<composition, platform, standing>>,
           NEW s, s = job.scope, NEW before, before = job.before, NEW why, why = job.why,
           NEW rest, job' = [job EXCEPT !.left = rest],
           EngineInv', Ordered(s, rest)',
           \A r \in DOMAIN standing : \A j \in Members(r) : state'[j] = state[j] /\ uses'[j] = uses[j],
           why \in {"refused", "error"} => Added(before, ToSet(rest))',
           why \in {"down", "shutdown"} =>
              \A x \in InScope(s, Present)' \ ToSet(rest) :
                 \E d \in Dependents(x)' : d \notin ToSet(rest),
           why = "refused" => \A t \in Targets : hosts'[t] \in before <=> hosts[t] \in before
    PROVE  BootInv'
<1>1. WellFormed(composition) /\ UpInv /\ UndoInv /\ Alone(s)
  BY DEF BootInv, UndoInv, Busy
<1>2. job = [phase |-> "undo", scope |-> s, left |-> job.left, why |-> why, before |-> before]
  BY <1>1 DEF UndoInv
<1>3. PICK k : k = job'
  OBVIOUS
<1>4. k = [job EXCEPT !.left = rest]
  BY <1>3
<1>5. /\ k.phase = "undo" /\ k.scope = s /\ k.why = why /\ k.before = before /\ k.left = rest
      /\ k = [phase |-> "undo", scope |-> k.scope, left |-> k.left, why |-> k.why,
              before |-> k.before]
  BY ONLY <1>2, <1>4
<1>6. Alone(s)'
  BY <1>1 DEF Alone
<1>7. UpInv'
  <2>1. \A r \in DOMAIN standing : r \in platform BY <1>1 DEF UpInv
  <2> QED BY <1>1, <2>1, UpStays
<1>8. why = "refused" => ~Possible(s, Outside)'
  <2> SUFFICES ASSUME why = "refused" PROVE ~Possible(s, Outside)'
    OBVIOUS
  <2>1. PICK outside : outside = Outside OBVIOUS
  <2>2. Outside' = outside BY <1>3, <1>5, <2>1 DEF Outside
  <2>3. Possible(s, outside)' <=> Possible(s, outside) BY PossibleSame
  <2>4. ~Possible(s, outside) BY <1>1, <2>1 DEF UndoInv
  <2> QED BY <2>2, <2>3, <2>4
<1>9. UndoInv'
  <2>1. why \in {"refused", "error", "down", "shutdown"} BY <1>1 DEF UndoInv
  <2> QED BY <1>3, <1>5, <1>6, <1>8, <2>1 DEF UndoInv
<1>10. WellFormed(composition)'
  BY <1>1 DEF WellFormed
<1> QED BY <1>3, <1>5, <1>7, <1>9, <1>10 DEF BootInv, Busy

LEMMA CleanupNextKeeps ==
    ASSUME BootInv, CleanupNext
    PROVE  BootInv'
<1>1. /\ job.phase = "undo" /\ job.left # <<>> /\ UNCHANGED <<composition, platform, standing>>
      /\ job' = [job EXCEPT !.left = Tail(@)]
  BY DEF CleanupNext, Phase
<1>2. /\ WellFormed(composition) /\ EngineInv /\ UpInv /\ UndoInv /\ Alone(job.scope)
      /\ Ordered(job.scope, job.left)
  BY <1>1 DEF BootInv, UndoInv, Busy
<1>3. PICK s, left, rest, i, before, why :
          /\ s = job.scope /\ left = job.left /\ rest = Tail(left) /\ i = Head(left)
          /\ before = job.before /\ why = job.why
  OBVIOUS
<1>4. job' = [job EXCEPT !.left = rest]
  BY <1>1, <1>3
<1>5. s \in Scopes
  BY <1>2, <1>3 DEF Alone
<1>6. \A r \in DOMAIN standing : r \in Scopes /\ Members(r) \subseteq Instances \ Members(s)
  <2>1. ASSUME NEW r \in DOMAIN standing
        PROVE  r \in Scopes /\ Members(r) \subseteq Instances \ Members(s)
    <3>1. r \in Scopes /\ r # s BY <1>2, <1>3 DEF UpInv, Alone
    <3> QED BY <1>2, <1>5, <3>1, MembersFacts
  <2> QED BY <2>1
<1>7. why \in {"refused", "error"} => Added(before, ToSet(left))
  BY <1>2, <1>3 DEF UndoInv
<1>8. why \in {"down", "shutdown"} =>
          \A x \in InScope(s, Present) \ ToSet(left) : \E d \in Dependents(x) : d \notin ToSet(left)
  BY <1>2, <1>3 DEF UndoInv
<1>9. CASE Dependents(i) = {}
  <2>1. /\ state' = [state EXCEPT ![i] = "absent"]
        /\ hosts' = [t \in Targets |-> IF hosts[t] = i THEN Nobody ELSE hosts[t]]
        /\ uses' = [uses EXCEPT ![i] = {}]
    BY <1>3, <1>9 DEF CleanupNext
  <2>2. Removed(i) BY <2>1 DEF Removed
  <2>3. /\ EngineInv' /\ Ordered(s, rest)'
        /\ Present' = Present \ {i} /\ i \in InScope(s, Present)
        /\ ToSet(left) = ToSet(rest) \cup {i} /\ i \notin ToSet(rest)
        /\ \A j \in Instances \ {i} : state'[j] = state[j] /\ uses'[j] = uses[j]
    <3>1. UNCHANGED <<composition, platform>> /\ Ordered(s, left) /\ left # <<>> BY <1>1, <1>2, <1>3
    <3>2. i = Head(left) /\ rest = Tail(left) /\ WellFormed(composition) /\ EngineInv BY <1>2, <1>3
    <3> QED BY ONLY <1>5, <1>9, <2>2, <3>1, <3>2, RemoveNext
  <2>4. i \in Members(s) /\ i \in Instances BY <2>3 DEF InScope, Present
  <2>5. \A r \in DOMAIN standing : \A j \in Members(r) : state'[j] = state[j] /\ uses'[j] = uses[j]
    BY <1>6, <2>3, <2>4
  <2>6. why \in {"refused", "error"} => Added(before, ToSet(rest))'
    <3> SUFFICES ASSUME Added(before, ToSet(left)) PROVE Added(before, ToSet(rest))'
      BY <1>7
    <3>1. i \notin before /\ before \subseteq Instances BY <2>3 DEF Added
    <3>2. \A d \in before : uses'[d] \subseteq before BY <2>3, <3>1 DEF Added
    <3> QED BY <2>3, <3>1, <3>2 DEF Added
  <2>7. ASSUME why \in {"down", "shutdown"}, NEW x \in InScope(s, Present)' \ ToSet(rest)
        PROVE  \E d \in Dependents(x)' : d \notin ToSet(rest)
    <3>1. x \in InScope(s, Present) \ ToSet(left)
      <4>1. Members(s)' = Members(s) BY <1>1 DEF Members, Order
      <4> QED BY <2>3, <2>7, <4>1 DEF InScope
    <3>2. PICK d \in Dependents(x) : d \notin ToSet(left) BY <1>8, <2>7, <3>1
    <3>3. d # i /\ d \in Instances BY <2>3, <3>2 DEF Dependents, Present
    <3>4. d \in Dependents(x)' BY <2>3, <3>2, <3>3 DEF Dependents
    <3> QED BY <2>3, <3>2, <3>4
  <2>8. why = "refused" => \A t \in Targets : hosts'[t] \in before <=> hosts[t] \in before
    <3> SUFFICES ASSUME Added(before, ToSet(left)), NEW t \in Targets
                 PROVE  hosts'[t] \in before <=> hosts[t] \in before
      BY <1>7
    <3>1. i \notin before /\ Nobody \notin before
      BY <2>3, BootstrapAssumption DEF Added, Nobody
    <3> QED BY <2>1, <3>1
  <2>9. /\ BootInv /\ job.phase = "undo" /\ UNCHANGED <<composition, platform, standing>>
        /\ s = job.scope /\ before = job.before /\ why = job.why
    BY <1>1, <1>3
  <2>10. EngineInv' /\ Ordered(s, rest)' BY <2>3
  <2> QED BY ONLY <1>4, <2>5, <2>6, <2>7, <2>8, <2>9, <2>10, CleanupGoesOn
<1>10. CASE Dependents(i) # {}
  <2>1. UNCHANGED engine BY <1>3, <1>10 DEF CleanupNext
  <2>2. UNCHANGED <<state, hosts, uses>> BY <2>1 DEF engine
  <2>3. /\ Ordered(s, rest)'
        /\ i \in InScope(s, Present) /\ ToSet(left) = ToSet(rest) \cup {i} /\ i \notin ToSet(rest)
    <3>1. UNCHANGED <<composition, engine, platform>> /\ Ordered(s, left) /\ left # <<>>
      BY <1>1, <1>2, <1>3, <2>1
    <3>2. i = Head(left) /\ rest = Tail(left) /\ WellFormed(composition) BY <1>2, <1>3
    <3> QED BY ONLY <1>5, <3>1, <3>2, PassOver
  <2>4. EngineInv' BY <1>1, <1>2, <2>1, EngineStays
  <2>5. PICK d : d \in Dependents(i) BY <1>10
  <2>6. d \notin ToSet(left) /\ d \in Present /\ i \in uses[d]
    <3>1. d \in Present /\ i \in uses[d] /\ d # i BY <2>5 DEF Dependents
    <3>2. ASSUME d \in ToSet(left) PROVE FALSE
      <4>1. PICK n \in DOMAIN left : left[n] = d BY <3>2 DEF ToSet
      <4>2. left \in Seq(Instances) /\ left # <<>> BY <1>1, <1>2, <1>3 DEF Ordered
      <4>3. 1 \in DOMAIN left /\ left[1] = i /\ n \in Nat \ {0} BY <1>3, <4>1, <4>2
      <4>4. n < 1 BY <1>2, <1>3, <3>1, <4>1, <4>3 DEF Ordered
      <4> QED BY <4>3, <4>4
    <3> QED BY <3>1, <3>2
  <2>7. why \notin {"refused", "error"}
    <3> SUFFICES ASSUME Added(before, ToSet(left)) PROVE FALSE
      BY <1>7
    <3>1. d \in before BY <2>6 DEF Added
    <3>2. i \in before BY <2>6, <3>1 DEF Added
    <3> QED BY <2>3, <3>2 DEF Added
  <2>8. ASSUME why \in {"down", "shutdown"}, NEW x \in InScope(s, Present)' \ ToSet(rest)
        PROVE  \E e \in Dependents(x)' : e \notin ToSet(rest)
    <3>1. Dependents(x)' = Dependents(x) /\ InScope(s, Present)' = InScope(s, Present)
      BY <1>1, <2>1, <2>2, SameScope DEF Dependents
    <3>2. CASE x = i BY <2>3, <2>5, <2>6, <3>1, <3>2
    <3>3. CASE x # i BY <1>8, <2>3, <2>8, <3>1, <3>3
    <3> QED BY <3>2, <3>3
  <2> QED BY <1>1, <1>3, <1>4, <2>2, <2>3, <2>4, <2>7, <2>8, CleanupGoesOn
<1> QED BY <1>9, <1>10

LEMMA CleanupEndsKeeps ==
    ASSUME BootInv, CleanupEnds
    PROVE  BootInv'
<1>1. /\ job.phase = "undo" /\ platform' = platform \ {job.scope}
      /\ UNCHANGED <<composition, standing>>
      /\ job' = IF job.why = "shutdown" /\ standing # <<>> THEN [phase |-> "next"] ELSE NoJob
  BY DEF CleanupEnds, Phase
<1>2. WellFormed(composition) /\ EngineInv /\ UpInv /\ Alone(job.scope)
  BY <1>1 DEF BootInv, UndoInv, Busy
<1>3. job'.phase \in {"next", "idle"}
  BY <1>1 DEF NoJob
<1>4. CASE job.scope = Host
  <2>1. /\ state' = [i \in Instances |-> "absent"]
        /\ hosts' = [t \in Targets |-> Nobody]
        /\ uses' = [i \in Instances |-> {}]
    BY <1>4 DEF CleanupEnds
  <2>2. Active' = {} BY <2>1 DEF Active
  <2>3. EngineInv' BY <2>1, <2>2 DEF EngineInv
  <2>4. DOMAIN standing = {} BY <1>2, <1>4 DEF Alone
  <2>5. UpInv' BY <1>1, <1>2, <2>4 DEF UpInv
  <2> QED BY <1>1, <1>2, <1>3, <2>3, <2>5 DEF BootInv, WellFormed, Busy
<1>5. CASE job.scope # Host
  <2>1. UNCHANGED engine BY <1>5 DEF CleanupEnds
  <2>2. EngineInv' BY <1>1, <1>2, <2>1, EngineStays
  <2>3. UpInv'
    <3>1. \A r \in DOMAIN standing : r \in platform' BY <1>1, <1>2 DEF UpInv, Alone
    <3>2. UNCHANGED <<composition, state, uses, standing>> BY <1>1, <2>1 DEF engine
    <3> QED BY <1>2, <3>1, <3>2, UpStays
  <2> QED BY <1>1, <1>2, <1>3, <2>2, <2>3 DEF BootInv, WellFormed, Busy
<1> QED BY <1>4, <1>5

-----------------------------------------------------------------------------
(* The invariant and the theorems.                                         *)

LEMMA BootInit ==
    ASSUME WellFormed(composition), InitWith({composition})
    PROVE  BootInv
<1>1. EngineInit /\ platform = {} /\ standing = <<>> /\ job = NoJob
  BY DEF InitWith
<1>2. Active = {}
  BY <1>1 DEF EngineInit, Active
<1>3. EngineInv
  BY <1>1, <1>2 DEF EngineInit, EngineInv
<1>4. UpInv
  <2>1. DOMAIN standing = {} BY <1>1
  <2> QED BY <2>1, FS_EmptySet DEF UpInv
<1>5. job.phase = "idle"
  BY <1>1 DEF NoJob
<1> QED BY <1>3, <1>4, <1>5 DEF BootInv, Busy

LEMMA StutterKeeps ==
    ASSUME BootInv, UNCHANGED bootVars
    PROVE  BootInv'
<1>1. UNCHANGED <<composition, engine, platform, standing, job>> /\ UNCHANGED <<state, hosts, uses>>
  BY DEF bootVars, engine
<1>2. WellFormed(composition)' /\ EngineInv'
  BY <1>1, EngineStays DEF BootInv, WellFormed
<1>3. UpInv'
  <2>1. \A r \in DOMAIN standing : r \in platform BY DEF BootInv, UpInv
  <2> QED BY <1>1, <2>1, UpStays DEF BootInv
<1>4. CASE job.phase \in Busy
  <2>1. IsWork(job) /\ Lists /\ Rounds /\ Passes /\ Planned /\ Alone(job.scope)
    BY <1>4 DEF BootInv, WorkInv, Lists
  <2>2. PICK s, M : s = job.scope /\ M = Members(s) OBVIOUS
  <2>3. Members(s)' = M /\ Order(s)' = Order(s) BY <1>1, <2>2 DEF Members, Order
  <2>4. Rounds'
    <3>1. \A x : Missing(x)' = Missing(x) /\ Publishes(x)' = Publishes(x)
      BY <1>1 DEF Missing, Needs, Publishes
    <3> QED BY <1>1, <2>1, <3>1 DEF Rounds
  <2>5. Passes'
    <3>1. \A x : (MayStart(s, x)' <=> MayStart(s, x)) /\ Expansion(s, x)' = Expansion(s, x)
      BY <1>1, LooksSame
    <3> QED BY <1>1, <2>1, <2>2, <2>3, <3>1 DEF Passes
  <2>6. Planned'
    <3>1. \A j : Unresolved(s, j, M)' = Unresolved(s, j, M) BY <1>1, UnresolvedSame
    <3>2. Edges(s, job.batch, M)' = Edges(s, job.batch, M)
      <4>1. PICK B : B = job.batch OBVIOUS
      <4>2. Edges(s, B, M)' = Edges(s, B, M) BY <1>1, EdgesSame
      <4> QED BY <1>1, <4>1, <4>2
    <3>3. \A j : Unresolved(s, j, Members(s))' = Unresolved(s, j, M) BY <2>3, <3>1
    <3>4. Edges(s, job.batch, Members(s))' = Edges(s, job.batch, M) BY <2>3, <3>2
    <3>5. Cyclic(job.batch, job.edges)' <=> Cyclic(job.batch, job.edges) BY <1>1 DEF Cyclic
    <3> QED BY <1>1, <2>1, <2>2, <3>3, <3>4, <3>5 DEF Planned
  <2>7. PICK k : k = job OBVIOUS
  <2>8. k.todo \in Seq(Instances) /\ k.next \in Seq(Instances)
    BY <2>1, <2>7 DEF Lists
  <2>9. (k.phase # "load" => k.todo = <<>>) /\ (k.phase \in {"plan", "batch"} => k.next = <<>>)
    BY <2>1, <2>7 DEF Lists
  <2> QED BY <1>1, <1>4, <2>1, <2>4, <2>5, <2>6, <2>7, <2>8, <2>9, MovesOn
<1>5. CASE job.phase = "undo"
  <2>1. UndoInv /\ Ordered(job.scope, job.left) BY <1>5 DEF BootInv, UndoInv, Busy
  <2>2. PICK s, left, before, why : /\ s = job.scope /\ left = job.left /\ before = job.before
                                    /\ why = job.why
    OBVIOUS
  <2>3. Ordered(s, left)' BY <1>1, <2>1, <2>2, OrderedStays
  <2>4. Alone(s)' BY <1>1, <2>1, <2>2 DEF Alone, UndoInv
  <2>5. why \in {"refused", "error"} => Added(before, ToSet(left))'
    BY <1>1, <2>1, <2>2 DEF UndoInv, Added, Present
  <2>6. why \in {"down", "shutdown"} =>
           \A x \in InScope(s, Present)' \ ToSet(left) : \E d \in Dependents(x)' : d \notin ToSet(left)
    <3>1. \A x : Dependents(x)' = Dependents(x) BY <1>1, SameScope DEF Dependents
    <3>2. InScope(s, Present)' = InScope(s, Present) BY <1>1, SameScope
    <3> QED BY <2>1, <2>2, <3>1, <3>2 DEF UndoInv
  <2>7. why = "refused" => ~Possible(s, Outside)'
    <3>1. PICK outside : outside = Outside OBVIOUS
    <3>2. Outside' = outside BY <1>1, <3>1 DEF Outside
    <3>3. Possible(s, outside)' <=> Possible(s, outside) BY <1>1, PossibleSame
    <3> QED BY <2>1, <2>2, <3>1, <3>2, <3>3 DEF UndoInv
  <2>8. UndoInv'
    <3>1. job = [phase |-> "undo", scope |-> job.scope, left |-> job.left, why |-> job.why,
                 before |-> job.before] /\ job.why \in {"refused", "error", "down", "shutdown"}
      BY <2>1 DEF UndoInv
    <3> QED BY <1>1, <2>2, <2>3, <2>4, <2>5, <2>6, <2>7, <3>1 DEF UndoInv
  <2> QED BY <1>1, <1>2, <1>3, <1>5, <2>8 DEF BootInv, Busy
<1>6. CASE job.phase \in {"idle", "next"}
  BY <1>1, <1>2, <1>3, <1>6 DEF BootInv, Busy
<1> QED BY <1>4, <1>5, <1>6 DEF BootInv

LEMMA BootStep ==
    ASSUME BootInv, [BootstrapNext]_bootVars
    PROVE  BootInv'
<1>1. CASE UNCHANGED bootVars BY <1>1, StutterKeeps
<1>2. CASE LoadNext BY <1>2, LoadNextKeeps
<1>3. CASE LoadEnds BY <1>3, LoadEndsKeeps
<1>4. CASE BootNext BY <1>4, BootNextKeeps
<1>5. CASE BootEnds BY <1>5, BootEndsKeeps
<1>6. CASE Plan BY <1>6, PlanKeeps
<1>7. CASE BatchNext BY <1>7, BatchNextKeeps
<1>8. CASE Up BY <1>8, UpKeeps
<1>9. CASE CleanupNext BY <1>9, CleanupNextKeeps
<1>10. CASE CleanupEnds BY <1>10, CleanupEndsKeeps
<1>11. CASE StepFails BY <1>11, StepFailsKeeps
<1>12. CASE Shutdown BY <1>12, ShutdownKeeps
<1>13. CASE \E s \in Scopes : Activate(s) BY <1>13, ActivateKeeps
<1>14. CASE \E w \in WorldScopes : DeactivateWorld(w) BY <1>14, DeactivateKeeps
<1> QED BY <1>1, <1>2, <1>3, <1>4, <1>5, <1>6, <1>7, <1>8, <1>9, <1>10, <1>11, <1>12, <1>13, <1>14
        DEF BootstrapNext, Step
\* Whatever is activated, fails and is taken down, in whatever order: the engine's
\* targets are hosted by who is active, what is up was started in an order in which
\* everybody found what he requires, and a cleanup goes back in it
\* (activate_composition, cleanup_instances).
THEOREM BootInvHolds == BootSpec => []BootInv
<1>1. WellFormed(composition) /\ InitWith({composition}) => BootInv
  BY BootInit
<1>2. BootInv /\ [BootstrapNext]_bootVars => BootInv'
  BY BootStep
<1> QED BY <1>1, <1>2, PTL DEF BootSpec

\* An activation that fails leaves the engine with what it had; what is taken down
\* leaves only instances that others were loaded through (the loop of
\* cleanup_instances goes on after a refusal, and is done).
THEOREM RollbackCompletes == BootSpec => []RollbackIsComplete
<1>1. BootInv => RollbackIsComplete
  <2> SUFFICES ASSUME BootInv, job.phase = "undo", job.left = <<>>
               PROVE  IF job.why \in {"refused", "error"} THEN Present = job.before
                      ELSE \A i \in InScope(job.scope, Present) : Dependents(i) # {}
    BY DEF RollbackIsComplete, Phase
  <2>1. UndoInv BY DEF BootInv, Busy
  <2>2. ToSet(job.left) = {} BY DEF ToSet
  <2>3. CASE job.why \in {"refused", "error"}
    BY <2>1, <2>2, <2>3 DEF UndoInv, Added
  <2>4. CASE job.why \in {"down", "shutdown"}
    BY <2>1, <2>2, <2>4 DEF UndoInv
  <2> QED BY <2>1, <2>3, <2>4 DEF UndoInv
<1> QED BY <1>1, BootInvHolds, PTL

\* A stalled round and a refused plan mean that no order of starts exists: in a
\* composition that can start, somebody of those who wait waits for none of them
\* (BootstrapStalled, expand_bootstrap_dependencies, build_activation_plan).
THEOREM RefusalsJust == BootSpec => []RefusalsAreJust
<1>1. BootInv => RefusalsAreJust
  <2> SUFFICES ASSUME BootInv, job.phase = "undo", job.why = "refused"
               PROVE  ~Possible(job.scope, Outside)
    BY DEF RefusalsAreJust, Phase
  <2> QED BY DEF BootInv, UndoInv, Busy
<1> QED BY <1>1, BootInvHolds, PTL

\* Nothing that an instance requires, or was loaded through, goes before it: not while
\* the composition is up, and not while it is taken down (started is recorded in the
\* order of the starts, and gone through backwards).
THEOREM RequirementsOutlive == BootSpec => []RequirementsOutliveTheirUsers
<1>1. BootInv => RequirementsOutliveTheirUsers
  <2> SUFFICES ASSUME BootInv PROVE RequirementsOutliveTheirUsers
    OBVIOUS
  <2>1. WellFormed(composition) /\ EngineInv /\ UpInv BY DEF BootInv
  <2>2. ASSUME NEW s \in DOMAIN standing, NEW i \in Members(s)
        PROVE  i \in Active /\ Unresolved(s, i, InScope(s, Active)) = {}
    <3>1. PICK R, St : R = standing[s].registered /\ St = standing[s].started OBVIOUS
    <3>2. Members(s) \subseteq Active /\ ToSet(R) = Members(s) /\ InStartOrder(s, R, St)
      BY <2>1, <3>1 DEF UpInv
    <3>3. ToSet(St) = Members(s) /\ St \in Seq(Instances) BY <3>2 DEF InStartOrder
    <3>4. PICK n \in DOMAIN St : St[n] = i
      <4>1. i \in ToSet(St) BY <3>3
      <4> QED BY <4>1 DEF ToSet
    <3>5. Unresolved(s, i, Upto(St, n) \cup (InScope(s, Active) \ ToSet(R))) = {}
      BY <3>2, <3>4 DEF InStartOrder
    <3>6. Upto(St, n) \subseteq ToSet(St)
      <4>1. \A k \in 1 .. n : k \in DOMAIN St BY <3>3, <3>4
      <4> QED BY <4>1 DEF Upto, ToSet
    <3>7. Upto(St, n) \cup (InScope(s, Active) \ ToSet(R)) \subseteq InScope(s, Active)
      BY <3>2, <3>3, <3>6 DEF InScope
    <3> QED BY <3>2, <3>5, <3>7, UnresolvedLess
  <2>3. ASSUME job.phase = "undo", NEW i \in ToSet(job.left) \cap Active
        PROVE  Unresolved(job.scope, i, InScope(job.scope, Active)) = {}
    <3>1. PICK s, left : s = job.scope /\ left = job.left OBVIOUS
    <3>2. Ordered(s, left) BY <2>3, <3>1 DEF BootInv, UndoInv, Busy
    <3>3. PICK n \in DOMAIN left : left[n] = i
      <4>1. i \in ToSet(left) BY <3>1
      <4> QED BY <4>1 DEF ToSet
    <3>4. Unresolved(s, i, (From(left, n) \cap Active) \cup (InScope(s, Active) \ ToSet(left))) = {}
      BY <3>2, <3>3 DEF Ordered
    <3>5. From(left, n) \subseteq ToSet(left)
      <4>1. left \in Seq(Instances) BY <3>2 DEF Ordered
      <4>2. \A k \in n .. Len(left) : k \in DOMAIN left BY <3>3, <4>1
      <4> QED BY <4>2 DEF From, ToSet
    <3>6. (From(left, n) \cap Active) \cup (InScope(s, Active) \ ToSet(left)) \subseteq InScope(s, Active)
      BY <3>2, <3>5 DEF Ordered, InScope
    <3> QED BY <3>1, <3>4, <3>6, UnresolvedLess
  <2>4. \A i \in Present : uses[i] \subseteq Active
    BY <2>1 DEF EngineInv, Present
  <2> QED BY <2>2, <2>3, <2>4 DEF RequirementsOutliveTheirUsers, Phase
<1> QED BY <1>1, BootInvHolds, PTL
=============================================================================
