\* A nondeterministic handler, one pump, one crash.
SPECIFICATION Spec
CONSTANTS
    j1 = j1
    j2 = j2
    wa = wa
    wb = wb
    yes = yes
    no = no
    Jobs = {j1}
    Workers = {wa}
    Contents = {yes, no}
    MaxAttempt = 4
    MaxFaults = 1
    Lease = 2
    MaxAge = 2
    RetryBase = 1
    RetryMax = 2
    Waits = {0, 1, 2}
INVARIANTS
    ReplayResolves
