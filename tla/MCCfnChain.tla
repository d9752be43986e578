---------------------------- MODULE MCCfnChain ----------------------------
(* Instances of CfnChain for TLC. *)
EXTENDS CfnChain

\* Two approved versions: another release, which also ends a generation earlier
MCPins == {"v1", "v2"}
MCRelease == [v \in MCPins |-> IF v = "v1" THEN "r1" ELSE "r2"]
MCMax == [v \in MCPins |-> IF v = "v1" THEN 2 ELSE 1]

MCMoves == {"stop", "start", "cleanup", "hold", "clear", "edit"}
MCFaults == {"crash", "call", "reject", "stack", "slow", "conflict"}

\* One handoff
MCOnePin == {"v1"}
MCOneRelease == [v \in MCOnePin |-> "r1"]
MCOne == [v \in MCOnePin |-> 1]
============================================================================
