--------------------------- MODULE LineageProofs ---------------------------
(* The window of live generations follows from Lineage alone. *)
EXTENDS Lineage, TLAPS

WindowInv == TypeOK /\ Window

\* Whatever implements Lineage never has more than the owner, its predecessor
\* and its successor alive.
THEOREM LineageWindow ==
    ASSUME LastGen \in Nat
    PROVE  Spec => []Window
<1>. USE DEF Gen
<1>1. Init => WindowInv
    BY DEF Init, WindowInv, TypeOK, Window, Life
<1>2. WindowInv /\ [Next]_<<owner, life>> => WindowInv'
    <2>. SUFFICES ASSUME WindowInv, [Next]_<<owner, life>> PROVE WindowInv'
        OBVIOUS
    <2>. USE DEF WindowInv, TypeOK, Window, Life
    <2>1. ASSUME NEW g \in Gen, Launch(g) \/ Retire(g) \/ Finish(g) \/ Lose(g)
          PROVE  WindowInv'
        BY <2>1 DEF Launch, Retire, Finish, Lose, Becomes
    <2>2. CASE HandOver
        BY <2>2 DEF HandOver
    <2>3. CASE UNCHANGED <<owner, life>>
        BY <2>3
    <2>. QED BY <2>1, <2>2, <2>3 DEF Next
<1>3. WindowInv => Window
    BY DEF WindowInv
<1>. QED BY <1>1, <1>2, <1>3, PTL DEF Spec

=============================================================================
