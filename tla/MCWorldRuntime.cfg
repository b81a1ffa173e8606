\* Two submissions to two runtimes, with crashes and shutdowns at any time.
SPECIFICATION MCSpec
CONSTANTS
    ra = ra
    rb = rb
    e1 = e1
    n1 = n1
    g1 = g1
    alice = alice
    bob = bob
    act = act
    rule = rule
    note = note
    thing = thing
    link = link
    shown = shown
    ours = ours
    theirs = theirs
    one = one
    two = two
    Writers = {ra, rb}
    Commands <- MCCommands
    Transactions <- MCTransactions
    SchemaBatches <- MCSchemaBatches
    MaxPosition = 3
    Evaluate <- MCEvaluate
    Systems <- MCSystems
    Privileged <- MCPrivileged
    Viewers = {bob}
    Requests <- MCRequests
    MaxRounds = 2
    MaxReads = 2
    MaxViews = 1
    QueueCapacity = 2
    MaxSubmissions = 2
INVARIANTS
    ReadsAreOfOnePosition
    PendingTicketsAreHeld
    CommittedIsToldOnce
PROPERTIES
    ExecutesOneAtATime
    EveryTicketResolves
