------------------------------ MODULE Lineage ------------------------------
(***************************************************************************)
(* What the propagation protocol promises, without its records, leases and  *)
(* daemons: one generation owns the cycle; it may bring up its successor,   *)
(* retire its predecessor, and pass ownership on once every generation      *)
(* older than itself is gone (docs/safety-contract.md, decision 0020).      *)
(***************************************************************************)
EXTENDS Integers

CONSTANT LastGen        \* the largest generation

VARIABLES
    owner,      \* the generation that owns the cycle
    life        \* each generation's instance, from its launch on

Gen == 0..LastGen
Life == {"absent", "present", "retiring", "gone"}

Init ==
    /\ owner = 0
    /\ life = [g \in Gen |-> IF g = 0 THEN "present" ELSE "absent"]

Becomes(g, from, to) ==
    /\ life[g] = from
    /\ life' = [life EXCEPT ![g] = to]
    /\ UNCHANGED owner

\* The owner requests its successor, once.
Launch(g) == g = owner + 1 /\ Becomes(g, "absent", "present")

\* The owner asks for the termination of its predecessor.
Retire(g) == g = owner - 1 /\ Becomes(g, "present", "retiring")

\* A termination completes; an instance is lost, or was never granted.
Finish(g) == Becomes(g, "retiring", "gone")
Lose(g) == Becomes(g, "present", "gone")

\* The owner passes ownership to the successor it has launched.
HandOver ==
    /\ owner < LastGen
    /\ life[owner + 1] # "absent"
    /\ \A g \in 0..(owner - 1) : life[g] = "gone"
    /\ owner' = owner + 1
    /\ UNCHANGED life

Next ==
    \/ \E g \in Gen : Launch(g) \/ Retire(g) \/ Finish(g) \/ Lose(g)
    \/ HandOver

Spec == Init /\ [][Next]_<<owner, life>>

-----------------------------------------------------------------------------

TypeOK == owner \in Gen /\ life \in [Gen -> Life]

\* Only the owner, its predecessor and its successor are alive, so three at most.
Window ==
    /\ \A g \in Gen : g > owner + 1 => life[g] = "absent"
    /\ \A g \in Gen : g < owner - 1 => life[g] = "gone"

=============================================================================
