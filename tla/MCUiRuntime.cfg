\* A layer in the host scope; a world with a surface and one without.
\* The system stops where every instance was started as often as bounded.
SPECIFICATION Spec
CHECK_DEADLOCK FALSE
CONSTANTS
    root = root
    box = box
    field = field
    l1 = l1
    l2 = l2
    w1 = w1
    w2 = w2
    Nodes = {root, box, field}
    Root = root
    Inputs = {field}
    Leaves = {field}
    Layers = {l1}
    Worlds = {w1, w2}
    Surfaced = {w1}
    Batches <- MCBatches
    Initial <- MCInitial
    ActionCapacity = 2
    MaxRevision = 2
    MaxSessions = 2
INVARIANTS
    ShownSurfacesAreSupported
    QueuedWorkStaysInItsSessions
    MountedSurfacesAreTrees
