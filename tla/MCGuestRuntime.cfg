\* A provider and two delegates; the system stops where the callbacks are used up.
SPECIFICATION Spec
CHECK_DEADLOCK FALSE
CONSTANTS
    p = p
    d1 = d1
    d2 = d2
    Provider = p
    Delegates = {d1, d2}
    Resources = {"task", "socket"}
    c1 = c1
    Declarations = {c1}
    Capabilities = {c1}
    MaxHandles = 2
    MaxCallbacks = 5
INVARIANTS
    EffectsHaveHandles
    DeclarationsComeWhole
    ResourcesHaveOwners
    ActiveComponentsHaveARuntime
PROPERTIES
    DroppedTasksNeverRun
