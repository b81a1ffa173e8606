--------------------------- MODULE CommandLedger ----------------------------
(***************************************************************************)
(* What the world runtimes and their store promise together: a ledger that *)
(* executes one command at a time.  A step takes a command whose identity  *)
(* is new, asks its System what to do in the state as it is now, and       *)
(* applies the whole answer; or it does nothing anybody can see.           *)
(***************************************************************************)
EXTENDS WorldState

CONSTANTS
    Commands,         \* the commands a client may issue
    Evaluate(_, _),   \* what the System of a command may propose in a state
    Privileged        \* command schemas whose System may change authority

VARIABLES
    state,     \* the world
    ledger     \* the executed commands, in order

ledgerVars == <<state, ledger>>

Init == state = EmptyWorld /\ ledger = <<>>

\* The whole proposal can be applied, one mutation after the other.
Applicable(st, mutations) ==
    \A i \in DOMAIN mutations :
        CanApply(StatesOf(st, mutations)[i - 1], mutations[i])

Execute(c) ==
    /\ \A i \in DOMAIN ledger : ledger[i].id # c.id
    /\ \A e \in c.expected : e = Len(ledger)
    /\ Authorized(state, c, Len(ledger))
    /\ \E tx \in Evaluate(c, state) :
          /\ c.schema \in Privileged
             \/ \A i \in DOMAIN tx.mutations : ~IsAuthorityMutation(tx.mutations[i])
          /\ Applicable(state, tx.mutations)
          /\ state' = ApplyAll(state, tx.mutations)
    /\ ledger' = Append(ledger, c)

Next == \E c \in Commands : Execute(c)

Spec == Init /\ [][Next]_ledgerVars
=============================================================================
