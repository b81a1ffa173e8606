\* Changes of topology and grants around a caller; two threads of nested calls.
SPECIFICATION MCSpec
CONSTANTS
    p = p
    q = q
    one = one
    many = many
    t1 = t1
    t2 = t2
    NoComponent = NoComponent
    NoThread = NoThread
    Threads = {t1, t2}
    Components = {p, q}
    Contracts = {one, many}
    Single = {one}
    ServiceProtocol = {one, many}
    Defines <- Nothing
    Provides <- Both
    Consumes <- Both
    NeedsGrant <- AllNeedGrants
    Rank <- Ranks
    MaxTopology = 1
    MaxPolicy = 2
    MaxCalls = 2
    MaxExecutions = 2
CHECK_DEADLOCK FALSE
INVARIANTS
    RoutesAreFresh
    HandlesAreFresh
PROPERTIES
    EveryCallEnds
