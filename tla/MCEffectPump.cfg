\* Two pumps and two jobs with deterministic handlers.
SPECIFICATION Spec
CONSTANTS
    j1 = j1
    j2 = j2
    wa = wa
    wb = wb
    yes = yes
    no = no
    Jobs = {j1, j2}
    Workers = {wa, wb}
    Contents = {yes}
    MaxAttempt = 4
    MaxFaults = 3
    Lease = 2
    MaxAge = 2
    RetryBase = 1
    RetryMax = 2
    Waits = {0, 1, 2}
INVARIANTS
    LeaseIsExclusive
    LiveAtMostOnce
PROPERTIES
    SettledIsFinal
    CompletedAfterCommit
    EveryJobSettles
