\* Two connections and every evaluation position a caller could claim: a stale
\* one is what a race of the connections comes down to.
SPECIFICATION StoreSpec
CONSTANTS
    w1 = w1
    w2 = w2
    e1 = e1
    e2 = e2
    r1 = r1
    g1 = g1
    g2 = g2
    alice = alice
    bob = bob
    act = act
    note = note
    thing = thing
    link = link
    happened = happened
    send = send
    one = one
    two = two
    Writers = {w1, w2}
    Commands <- MCCommands
    Transactions <- MCTransactions
    SchemaBatches <- MCSchemaBatches
    MaxPosition = 4
INVARIANTS
    Referential
    LogRebuildsWorld
    AuthorizedWhenCommitted
PROPERTIES
    IdentitiesFinal
