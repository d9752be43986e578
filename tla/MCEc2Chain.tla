---------------------------- MODULE MCEc2Chain ----------------------------
(* Instances of Ec2Chain for TLC. *)
EXTENDS Ec2Chain

\* One approved CONTROL version
MCOnePin == {"v1"}
MCMax2 == [v \in {"v1"} |-> 2]
MCMax1 == [v \in {"v1"} |-> 1]

\* Two versions: the operator raises or lowers max_generation
MCTwoPins == {"v1", "v2"}
MCMax12 == [v \in {"v1", "v2"} |-> IF v = "v1" THEN 1 ELSE 2]

MCNoInstanceFault == {"crash", "call", "slow", "reject"}
============================================================================
