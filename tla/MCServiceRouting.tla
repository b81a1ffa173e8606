-------------------------- MODULE MCServiceRouting --------------------------
(* Two components that provide and consume both kinds of contract.  What is  *)
(* bounded beyond the constants: the topology and the grants change while    *)
(* one thread calls and nothing is executed, or they stay and two threads    *)
(* execute components that call on.                                          *)
EXTENDS ServiceRouting

CONSTANTS p, q, one, many, t1, t2

Nothing == [c \in {p, q} |-> {}]
Both == [c \in {p, q} |-> Contracts]
Ranks == (p :> 1) @@ (q :> 2)
AllNeedGrants == {p, q} \X Contracts

Changing == executions = 0 /\ call[t2] = Idle /\ poisoned = {} /\ \A t \in Threads : Len(stack[t]) <= 1
Chaining ==
    /\ topology = 0 /\ policy = 0 /\ issued = {}
    /\ grants = Components /\ active = Components /\ \A k \in Contracts : preferred[k] = NoComponent

MCInit == Init /\ p \in grants /\ \A k \in Contracts : preferred[k] # p
MCNext == Next /\ (Changing' \/ Chaining')
MCSpec == MCInit /\ [][MCNext]_vars /\ Fairness
=============================================================================
