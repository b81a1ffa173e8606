\* Two worlds, queues of one entry, tables of two.
SPECIFICATION Spec
CONSTANTS
    Worlds = {1, 2}
    SessionCapacity = 2
    CommandCapacity = 2
    OperationCapacity = 2
    Retained = 2
    SignalCapacity = 1
    Requests = {"create", "delete", "session", "command", "content", "projection", "focus", "signal"}
    MaxRequests = 4
INVARIANTS
    WorldsInUseExist
    RequestsAreAnswered
    DeferredWorkIsTracked
PROPERTIES
    EveryRequestEnds
