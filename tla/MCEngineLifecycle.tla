-------------------------- MODULE MCEngineLifecycle --------------------------
(* base has two components and publishes a target through which tool is    *)
(* loaded; tool publishes another, and app is loaded through both.  lone   *)
(* is on its own but registers the same contribution as tool.              *)
EXTENDS EngineLifecycle, TLC

CONSTANTS base, tool, app, lone, host, script, menu

Sizes == [i \in Instances |-> IF i = base THEN 2 ELSE 1]
DiamondPublishes == base :> {host} @@ tool :> {script} @@ app :> {} @@ lone :> {}
DiamondNeeds == base :> {} @@ tool :> {host} @@ app :> {host, script} @@ lone :> {}
DiamondContributes == base :> {} @@ tool :> {menu} @@ app :> {} @@ lone :> {menu}
=============================================================================
