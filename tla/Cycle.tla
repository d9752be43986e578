------------------------------- MODULE Cycle -------------------------------
(***************************************************************************)
(* What the lifecycle controller promises of a cycle: each of its things    *)
(* (the seed stack, a direct successor) is created at most once and never   *)
(* after a removal has begun, things are removed only during a cleanup, and *)
(* the next cycle starts when nothing of this one is alive.                 *)
(***************************************************************************)
EXTENDS Integers

CONSTANT Thing

VARIABLES
    rid,        \* the cycle's number
    cleaning,   \* whether it is being cleaned up
    thing       \* "none", "alive" or "gone" for each of its things

vars == <<rid, cleaning, thing>>

Nothing == [t \in Thing |-> "none"]

Init == rid = 1 /\ cleaning = FALSE /\ thing = Nothing

\* A launch that passed its gates may still arrive during a cleanup.
Launch(t) ==
    /\ thing[t] = "none" /\ \A u \in Thing : thing[u] # "gone"
    /\ thing' = [thing EXCEPT ![t] = "alive"]
    /\ UNCHANGED <<rid, cleaning>>

RequestCleanup ==
    /\ ~cleaning /\ cleaning' = TRUE
    /\ UNCHANGED <<rid, thing>>

Remove(t) ==
    /\ cleaning /\ thing[t] = "alive"
    /\ thing' = [thing EXCEPT ![t] = "gone"]
    /\ UNCHANGED <<rid, cleaning>>

NextCycle ==
    /\ cleaning /\ \A t \in Thing : thing[t] # "alive"
    /\ rid' = rid + 1 /\ cleaning' = FALSE /\ thing' = Nothing

Next == (\E t \in Thing : Launch(t) \/ Remove(t)) \/ RequestCleanup \/ NextCycle

Spec == Init /\ [][Next]_vars
=============================================================================
