\* One manager, in a shared store and in its own, two worlds, two documents, an image.
SPECIFICATION MCSpec
CHECK_DEADLOCK FALSE
CONSTANTS
    manager = manager
    m1 = m1
    m2 = m2
    doc = doc
    note = note
    image = image
    baseline = baseline
    template = template
    w1 = w1
    w2 = w2
    i1 = i1
    target = target
    Artifacts = {m1, m2, doc, note, image}
    Content <- MCContent
    Subject <- MCSubject
    Asks <- MCAsks
    Worlds = {w1, w2}
    Baseline = baseline
    DefaultWorld = template
    Contracts = {"shell"}
    Keys = {"key"}
    Items = {i1}
    MaxPreferences = 1
    MaxWrites = 1
    Negotiated = {"asset-import"}
    MaxOperations = 3
    MaxFaults = 1
    Store <- MCStore
    Shared <- MCShared
    UploadLimit = 2
    PoolLimit = 3
    PoolEntries = 2
INVARIANTS
    PolicyIsGrounded
    MarksOutliveMigration
    WorldsAreWhole
    HeldBytesAreBounded
