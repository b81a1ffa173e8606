--------------------------- MODULE MCHostBootstrap ---------------------------
(* Every composition of three instances of the host around one contract and *)
(* one target, and two worlds that share a target.                             *)
EXTENDS HostBootstrap

CONSTANT target

MCTargets == {target}
None == [i \in Instances |-> {}]

\* What an instance does with the contract and with the target.
Roles == [provides : SUBSET {1}, requires : SUBSET {1},
          target : {"none", "publishes", "needs"}]
Only(what, roles) == [i \in Instances |-> IF roles[i].target = what THEN {target} ELSE {}]

\* Of the contract: who defines it, how it is resolved, and the profile's order.
Settings ==
    {[order |-> <<1, 2, 3>>, definers |-> D, platform |-> {}, multiple |-> {}, preferred |-> <<>>]
        : D \in {{1}, {2}, {3}, {2, 3}}}
    \cup {[order |-> <<3, 2, 1>>, definers |-> {2}, platform |-> {}, multiple |-> m, preferred |-> <<>>]
        : m \in {{}, {1}}}
    \cup {[order |-> <<1, 2, 3>>, definers |-> {}, platform |-> {1}, multiple |-> {}, preferred |-> q]
        : q \in {<<>>, <<3>>}}
    \cup {[order |-> <<1, 2, 3>>, definers |-> {3}, platform |-> {1}, multiple |-> {}, preferred |-> <<>>]}

HostOnly(setting, roles) ==
    [order |-> [s \in Scopes |-> IF s = Host THEN setting.order ELSE <<>>],
     defines |-> [i \in Instances |-> IF i \in setting.definers THEN {1} ELSE {}],
     provides |-> [i \in Instances |-> roles[i].provides],
     requires |-> [i \in Instances |-> roles[i].requires],
     publishes |-> Only("publishes", roles), needs |-> Only("needs", roles),
     platform |-> setting.platform, multiple |-> setting.multiple,
     preferred |-> [s \in Scopes |-> setting.preferred]]

ThreeScopes(roles) ==
    [order |-> [s \in Scopes |-> IF s = Host THEN <<3>> ELSE <<s>>],
     defines |-> None, provides |-> None, requires |-> None,
     publishes |-> Only("publishes", roles), needs |-> Only("needs", roles),
     platform |-> {}, multiple |-> {}, preferred |-> [s \in Scopes |-> <<>>]]

\* A world of two instances with the contract, one of which another world may use.
TwoWorlds(roles) ==
    [order |-> [s \in Scopes |-> IF s = Host THEN <<>> ELSE IF s = 1 THEN <<1, 2>> ELSE <<3>>],
     defines |-> [i \in Instances |-> IF i = 2 THEN {1} ELSE {}],
     provides |-> [i \in Instances |-> IF i = 3 THEN {} ELSE roles[i].provides],
     requires |-> [i \in Instances |-> IF i = 3 THEN {} ELSE roles[i].requires],
     publishes |-> Only("publishes", roles), needs |-> Only("needs", roles),
     platform |-> {}, multiple |-> {}, preferred |-> [s \in Scopes |-> <<>>]]

AllCompositions ==
    {HostOnly(setting, roles) : setting \in Settings, roles \in [Instances -> Roles]}
    \cup {ThreeScopes(roles) : roles \in [Instances ->
            [provides : {{}}, requires : {{}}, target : {"none", "publishes", "needs"}]]}
    \cup {TwoWorlds(roles) : roles \in [Instances -> Roles]}

MCSpec == InitWith(AllCompositions) /\ [][BootstrapNext]_bootVars /\ BootFairness
=============================================================================
