\* Three instances, one contract, one target; two worlds.
SPECIFICATION MCSpec
CHECK_DEADLOCK FALSE
CONSTANTS
    target = target
    Host = Host
    Instances = {1, 2, 3}
    WorldScopes = {1, 2}
    Targets <- MCTargets
    MaxActivations = 4
    MaxFaults = 1
INVARIANTS
    RollbackIsComplete
    RefusalsAreJust
    RequirementsOutliveTheirUsers
PROPERTIES
    EveryOperationEnds
