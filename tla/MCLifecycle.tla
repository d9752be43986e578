---------------------------- MODULE MCLifecycle ----------------------------
(* Instances of Lifecycle for TLC. *)
EXTENDS Lifecycle

\* What the operator and the chain may do
MCAllMoves == Switch \cup {"hold", "clear", "script", "launch"}
MCStartCleanup == {"start", "cleanup"}
MCHolding == MCStartCleanup \cup {"hold"}
MCLaunchingStops == Switch \cup {"launch"}

\* What may fail
MCAllFaults == {"call", "timeout", "conflict", "duplicate", "stack", "slow"}
MCTimeAndStacks == {"slow", "conflict", "stack"}
=============================================================================
