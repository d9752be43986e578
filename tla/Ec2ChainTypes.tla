---------------------------- MODULE Ec2ChainTypes ---------------------------
(***************************************************************************)
(* Type correctness of Ec2Chain for every number of generations, of CONTROL *)
(* versions, of daemons per instance and of upsets, and what a step of a    *)
(* daemon leaves alone.                                                     *)
(***************************************************************************)
EXTENDS Ec2Chain, TLAPS

-----------------------------------------------------------------------------
(* Where a daemon can be *)

RetirePc == {"retire", "retireLook", "retireControl", "terminate",
             "retireAlarm", "retireMark"}
HandoffPc == {"continue", "continueControl", "handoffLook", "handoffControl",
              "commit"}
IntentPc == {"lastControl", "run"}
ProvisionPc == {"find", "reconcile", "capacity", "provisionControl",
                "provisionRenew", "claim", "runWait", "record", "endMarker",
                "alarm", "wait", "waitLook"} \cup IntentPc \cup HandoffPc

\* A daemon is where its generation allows: the first generation retires
\* nobody, and no generation at the boundary provisions.
PlacedAt(p) ==
    /\ pc[p] \in ProvisionPc \/ mem[p].ready => p[1] < MaxGeneration[mem[p].pins]
    /\ pc[p] \in RetirePc \/ (pc[p] \in ProvisionPc /\ ~mem[p].retired) => p[1] > 0
    /\ pc[p] = "claimCurrent" => p[1] = 0
Placed == \A p \in Daemon : PlacedAt(p)

-----------------------------------------------------------------------------
(* Types *)

LEMMA Constants ==
    /\ LastGen \in Nat /\ Gen \subseteq Nat /\ 0 \in Gen /\ MaxUpsets \in Nat
    /\ \A v \in Pins : MaxGeneration[v] \in Gen
    /\ Uninitialized \in Current /\ Blank \in Memory /\ NoState \in GenState
BY LastGenAssumption, PinsAssumption, MaxUpsetsAssumption
   DEF Gen, Uninitialized, Blank, NoState, Current, Memory, GenState

THEOREM InitType == Init => TypeOK
<1>. SUFFICES ASSUME Init PROVE TypeOK
    OBVIOUS
<1>. USE Constants DEF Init
<1>1. ec2 \in [Gen -> InstanceState] /\ launches \in [Gen -> Nat]
    BY DEF InstanceState
<1>2. visible \subseteq Gen /\ upsets \in 0..MaxUpsets
    OBVIOUS
<1>3. state \in [Gen -> GenState] /\ mem \in [Daemon -> Memory]
    OBVIOUS
<1>4. pc \in [Daemon -> Pc]
    BY DEF Pc
<1>. QED BY <1>1, <1>2, <1>3, <1>4 DEF TypeOK

LEMMA HoldType ==
    ASSUME TypeOK, NEW g \in Gen, CreateHold(g)
    PROVE  state' \in [Gen -> GenState]
<1>1. [state[g] EXCEPT !.status = "ERROR"] \in GenState
    BY DEF TypeOK, GenState
<1>. QED BY <1>1 DEF TypeOK, CreateHold

LEMMA StartType ==
    ASSUME TypeOK, Placed, NEW p \in Daemon, Start(p)
    PROVE  TypeOK'
<1>. USE Constants DEF vars, ec2Vars, opVars, genVars
<1>1. CASE Boot(p)
    BY <1>1 DEF TypeOK, Boot, Goto, Pc
<1>2. CASE ClaimCurrent(p)
    BY ZenonT(60), <1>2 DEF TypeOK, ClaimCurrent, Goto, Pc, Current, At, Daemon
<1>3. CASE ReadCycleSnapshot(p)
    BY <1>3 DEF TypeOK, ReadCycleSnapshot, Goto, Pc, Remember, Memory, Blank, ProbePc
<1>4. CASE InvokeHold(p)
    BY <1>4, HoldType DEF TypeOK, InvokeHold, CreateHold, Goto, Pc, Forget, Daemon
<1>. QED BY <1>1, <1>2, <1>3, <1>4, Start(p) DEF Start

LEMMA MemoryUpdate ==
    ASSUME NEW m \in Memory, NEW b \in BOOLEAN
    PROVE  /\ [m EXCEPT !.retired = b] \in Memory
           /\ [m EXCEPT !.ready = b] \in Memory
           /\ [m EXCEPT !.leaseOK = b] \in Memory
BY DEF Memory

LEMMA PublishType ==
    ASSUME TypeOK, Placed, NEW p \in Daemon, Publish(p)
    PROVE  TypeOK'
<1>. USE Constants DEF vars, ec2Vars, opVars, genVars
<1>1. ASSUME NEW l, NEW c \in BOOLEAN, NEW n \in Pc, NEW r \in Proof \cup {None},
             Probe(p, l, c, n, r)
      PROVE  TypeOK'
    BY <1>1 DEF TypeOK, Probe, Goto, Remember, Memory, Pc
<1>2. {"probeControl", "probeFinal", "publish"} \subseteq Pc
    BY DEF Pc, ProbePc
<1>3. ASSUME NEW n
      PROVE  [pins |-> mem[p].pins, boundary |-> Boundary(n, mem[p].pins)] \in Proof
    BY DEF Proof, TypeOK, Memory, Boundary
<1>4. CASE ProbeCapacity(p)
    BY <1>1, <1>2, <1>4 DEF ProbeCapacity
<1>5. CASE ProbeControl(p)
    BY <1>1, <1>2, <1>5 DEF ProbeControl
<1>6. CASE ProbeFinal(p)
    BY <1>1, <1>2, <1>3, <1>6 DEF ProbeFinal
<1>7. CASE WriteHeartbeat(p)
    <2>1. mem[p].proof \in Proof \cup {None}
        BY DEF TypeOK, Memory
    <2>2. state' \in [Gen -> GenState] /\ fresh' \subseteq Gen
        <3>1. /\ p[1] \in Gen /\ state \in [Gen -> GenState] /\ fresh \subseteq Gen
            BY DEF TypeOK, Daemon
        <3>2. ASSUME NEW st \in {"CURRENT", "CANDIDATE"}
              PROVE  [status |-> st, proof |-> mem[p].proof] \in GenState
            BY <2>1 DEF GenState
        <3>3. state' = state \/ \E r \in GenState : state' = [state EXCEPT ![p[1]] = r]
            BY <1>7, <3>2 DEF WriteHeartbeat
        <3>4. state' \in [Gen -> GenState]
            BY <3>1, <3>3
        <3>5. fresh' \subseteq fresh \cup {p[1]}
            BY <1>7 DEF WriteHeartbeat
        <3>. QED BY <3>1, <3>4, <3>5
    <2>3. mem' \in [Daemon -> Memory] /\ pc' \in [Daemon -> Pc]
        BY <1>7 DEF TypeOK, WriteHeartbeat, Forget, Goto, Pc
    <2>. QED BY <1>7, <2>2, <2>3 DEF TypeOK, WriteHeartbeat
<1>. QED BY <1>4, <1>5, <1>6, <1>7, Publish(p) DEF Publish

LEMMA CheckType ==
    ASSUME TypeOK, NEW p \in Daemon, NEW l, NEW c, NEW n \in Pc, Check(p, l, c, n)
    PROVE  TypeOK'
BY DEF TypeOK, Check, Goto, Pc, EndPc, vars, ec2Vars, opVars, genVars

LEMMA RenewType ==
    ASSUME TypeOK, NEW p \in Daemon, NEW l, NEW c, NEW n \in Pc,
           RenewLease(p, l, c, n), mem' \in [Daemon -> Memory]
    PROVE  TypeOK'
<1>1. HoldsLease(p) => [lease EXCEPT !.expired = FALSE] \in Lease
    BY DEF TypeOK, HoldsLease, Lease
<1>. QED BY <1>1 DEF TypeOK, RenewLease, Goto, Pc, EndPc, ec2Vars, opVars, genVars

LEMMA AfterRetirePc == ASSUME NEW p, NEW r PROVE AfterRetire(p, r) \in Pc
BY DEF AfterRetire, Pc, LeasePc, EndPc

LEMMA HoldLeaseType ==
    ASSUME TypeOK, Placed, NEW p \in Daemon, HoldLease(p)
    PROVE  TypeOK'
<1>. USE Constants DEF vars, ec2Vars, opVars, genVars
<1>1. CASE AcquireLease(p)
    <2>1. lease' \in Lease \cup {None}
        <3>1. [owner |-> p, stale |-> FALSE, expired |-> FALSE] \in Lease
            BY DEF Lease
        <3>. QED BY <1>1, <3>1 DEF TypeOK, AcquireLease
    <2>2. mem' \in [Daemon -> Memory] /\ pc' \in [Daemon -> Pc]
        BY <1>1 DEF TypeOK, AcquireLease, Forget, Goto, Pc, LeasePc
    <2>. QED BY <1>1, <2>1, <2>2 DEF TypeOK, AcquireLease
<1>2. CASE ReleaseLease(p)
    BY <1>2 DEF TypeOK, ReleaseLease, Goto, Pc, Forget
<1>3. CASE CheckOwnership(p)
    <2>1. mem[p] \in Memory /\ {"deferred", "retire"} \subseteq Pc
        BY DEF TypeOK, Pc, LeasePc, EndPc
    <2>2. mem' \in [Daemon -> Memory] /\ pc' \in [Daemon -> Pc]
        <3>1. mem \in [Daemon -> Memory] /\ pc \in [Daemon -> Pc]
            BY DEF TypeOK
        <3>2. [mem[p] EXCEPT !.retired = TRUE] \in Memory
            BY <2>1, MemoryUpdate
        <3>3. AfterRetire(p, TRUE) \in Pc
            BY AfterRetirePc
        <3>. QED BY <1>3, <2>1, <3>1, <3>2, <3>3
                    DEF CheckOwnership, Goto, Remember
    <2>. QED BY <1>3, <2>2 DEF TypeOK, CheckOwnership
<1>. QED BY <1>1, <1>2, <1>3, HoldLease(p) DEF HoldLease

LEMMA RetireType ==
    ASSUME TypeOK, Placed, NEW p \in Daemon, Retire(p)
    PROVE  TypeOK'
<1>. USE Constants, AfterRetirePc DEF vars, ec2Vars, opVars, genVars
<1>1. CASE RetirePredecessor(p)
    <2>1. CASE RenewLease(p, "retire", TRUE, "retireLook") /\ UNCHANGED mem
        BY <2>1, RenewType DEF TypeOK, Pc, LeasePc
    <2>2. CASE ~(RenewLease(p, "retire", TRUE, "retireLook") /\ UNCHANGED mem)
        <3>1. mem[p] \in Memory /\ EndPc \subseteq Pc
            BY DEF TypeOK, Pc
        <3>2. mem' \in [Daemon -> Memory] /\ pc' \in [Daemon -> Pc]
            <4>1. mem \in [Daemon -> Memory] /\ pc \in [Daemon -> Pc]
                BY DEF TypeOK
            <4>2. [mem[p] EXCEPT !.retired = TRUE] \in Memory
                BY <3>1, MemoryUpdate
            <4>3. AfterRetire(p, TRUE) \in Pc
                BY AfterRetirePc
            <4>. QED BY <1>1, <2>2, <3>1, <4>1, <4>2, <4>3
                        DEF RetirePredecessor, Goto, Remember
        <3>. QED BY <1>1, <2>2, <3>2 DEF TypeOK, RetirePredecessor
    <2>. QED BY <2>1, <2>2
<1>2. CASE DescribePredecessor(p)
    BY <1>2, CheckType DEF DescribePredecessor, Pc, LeasePc
<1>3. CASE CheckRetirementControl(p)
    BY <1>3, CheckType DEF CheckRetirementControl, Pc, LeasePc
<1>4. CASE TerminatePredecessor(p)
    BY <1>4 DEF TypeOK, TerminatePredecessor, Goto, InstanceState
<1>5. CASE DeleteStatusAlarm(p)
    BY <1>5 DEF TypeOK, DeleteStatusAlarm, Goto, Pc, LeasePc
<1>6. CASE MarkRetirementCompleted(p)
    <2>1. mem[p] \in Memory /\ "deferred" \in Pc
        BY DEF TypeOK, Pc, EndPc
    <2>2. cur' \in Current
        BY <1>6 DEF TypeOK, MarkRetirementCompleted, Current
    <2>3. mem' \in [Daemon -> Memory]
        BY <1>6, <2>1, MemoryUpdate
           DEF TypeOK, MarkRetirementCompleted, Remember, IsCurrentOwner, Current
    <2>4. pc' \in [Daemon -> Pc]
        BY <1>6, <2>1 DEF TypeOK, MarkRetirementCompleted, Goto
    <2>. QED BY <1>6, <2>2, <2>3, <2>4 DEF TypeOK, MarkRetirementCompleted
<1>. QED BY <1>1, <1>2, <1>3, <1>4, <1>5, <1>6, Retire(p) DEF Retire

\* The successor's number of a daemon that provisions.
LEMMA Successor ==
    ASSUME TypeOK, Placed, NEW p \in Daemon, pc[p] \in ProvisionPc
    PROVE  p[1] \in Gen /\ p[1] + 1 \in Gen
<1>1. p[1] \in Gen /\ mem[p].pins \in Pins
    BY DEF TypeOK, Memory, Daemon
<1>. QED BY <1>1, Constants DEF Placed, PlacedAt, Gen

LEMMA ProvisionType ==
    ASSUME TypeOK, Placed, NEW p \in Daemon, Provision(p)
    PROVE  TypeOK'
<1>. USE Constants DEF vars, ec2Vars, opVars, genVars
<1>1. {"reconcile", "capacity", "provisionControl", "provisionRenew", "claim", "lastControl",
       "run", "runWait", "record", "endMarker", "alarm", "wait", "deferred"}
      \subseteq Pc
    BY DEF Pc, LeasePc, EndPc
<1>2. CASE FindSuccessor(p)
    BY <1>1, <1>2, CheckType DEF FindSuccessor
<1>3. CASE ReconcileSubmission(p)
    BY <1>1, <1>3, Successor DEF TypeOK, ReconcileSubmission, Goto, At, ProvisionPc
<1>4. CASE CheckCapacity(p) \/ CheckProvisionControl(p)
    BY <1>1, <1>4, CheckType DEF CheckCapacity, CheckProvisionControl
<1>5. CASE RenewForProvision(p)
    BY <1>1, <1>5, RenewType DEF RenewForProvision, TypeOK
<1>6. CASE ClaimSubmission(p)
    BY <1>1, <1>6, Successor DEF TypeOK, ClaimSubmission, Goto, At, ProvisionPc
<1>7. CASE CheckLastControl(p)
    BY <1>1, <1>7, CheckType DEF CheckLastControl
<1>8. CASE RunInstance(p)
    <2>1. p[1] + 1 \in Gen
        BY <1>8, Successor DEF RunInstance, At, ProvisionPc, IntentPc
    <2>2. launches' \in [Gen -> Nat] /\ inflight' \subseteq Gen
        <3>1. launches \in [Gen -> Nat] /\ inflight \subseteq Gen
            BY DEF TypeOK
        <3>2. \A n \in Gen : launches[n] + 1 \in Nat
            BY <3>1
        <3>. QED BY <1>8, <2>1, <3>1, <3>2 DEF RunInstance
    <2>. QED BY <1>1, <1>8, <2>2 DEF TypeOK, RunInstance, Goto
<1>9. CASE RunInstanceReturns(p)
    BY <1>1, <1>9, CheckType DEF RunInstanceReturns
<1>10. CASE RecordSubmission(p)
    BY <1>1, <1>10, Successor DEF TypeOK, RecordSubmission, Goto, At, ProvisionPc
<1>11. CASE EndProvisioning(p)
    BY <1>1, <1>11 DEF TypeOK, EndProvisioning, Goto
<1>12. CASE EnsureStatusAlarm(p)
    BY <1>1, <1>12, Successor DEF TypeOK, EnsureStatusAlarm, Goto, At, ProvisionPc
<1>. QED BY <1>2, <1>3, <1>4, <1>5, <1>6, <1>7, <1>8, <1>9, <1>10, <1>11, <1>12,
            Provision(p) DEF Provision

LEMMA HandoffType ==
    ASSUME TypeOK, Placed, NEW p \in Daemon, Handoff(p)
    PROVE  TypeOK'
<1>. USE Constants DEF vars, ec2Vars, opVars, genVars
<1>1. {"wait", "waitLook", "retire", "continue", "continueControl", "handoffLook",
       "handoffControl", "commit", "finished", "deferred"} \subseteq Pc
    BY DEF Pc, LeasePc, EndPc
<1>2. CASE WaitRenew(p)
    BY <1>1, <1>2, RenewType DEF WaitRenew, TypeOK
<1>3. CASE WaitLook(p)
    <2>1. mem[p] \in Memory
        BY DEF TypeOK
    <2>2. mem' \in [Daemon -> Memory] /\ pc' \in [Daemon -> Pc]
        BY ZenonT(60), <1>1, <1>3, <2>1, MemoryUpdate DEF TypeOK, WaitLook, Goto, Remember
    <2>. QED BY <1>3, <2>2 DEF TypeOK, WaitLook
<1>4. CASE CheckContinuation(p)
    BY <1>1, <1>4, CheckType DEF CheckContinuation
<1>5. CASE CheckContinuationControl(p)
    BY <1>1, <1>5, RenewType DEF CheckContinuationControl, TypeOK
<1>6. CASE ReadCandidate(p)
    <2>1. mem' \in [Daemon -> Memory]
        BY <1>6, Successor DEF ReadCandidate, RenewLease, At, ProvisionPc, HandoffPc,
                               TypeOK, Remember, Memory
    <2>. QED BY <1>1, <1>6, <2>1, RenewType DEF ReadCandidate
<1>7. CASE CheckHandoffControl(p)
    BY ZenonT(60), <1>1, <1>7 DEF TypeOK, CheckHandoffControl, Goto, Remember, Memory
<1>8. CASE ConditionalHandoff(p)
    BY <1>1, <1>8, Successor DEF TypeOK, ConditionalHandoff, Goto, At, Current,
       ProvisionPc, HandoffPc, Boundary, Memory
<1>. QED BY <1>2, <1>3, <1>4, <1>5, <1>6, <1>7, <1>8, Handoff(p) DEF Handoff
LEMMA UpsetType ==
    ASSUME TypeOK, Upset
    PROVE  upsets' \in 0..MaxUpsets
BY Constants DEF TypeOK, Upset

LEMMA FaultType ==
    ASSUME TypeOK, NEW kind, Fault(kind)
    PROVE  upsets' \in 0..MaxUpsets
BY UpsetType DEF Fault

LEMMA EnvironmentType ==
    ASSUME TypeOK,
           \/ OperatorStep \/ ConsumeCommand \/ LeaseLapses \/ FaultStep
           \/ \E n \in Gen : Ec2Step(n)
    PROVE  TypeOK'
<1>. USE Constants DEF vars, ec2Vars, opVars, genVars
<1>1. CASE OperatorStep
    <2>1. ASSUME NEW s \in Switch, RequestSwitch(s)
          PROVE  TypeOK'
        BY <2>1, UpsetType DEF TypeOK, RequestSwitch, Move
    <2>2. ASSUME NEW g \in Gen, OperatorHold(g)
          PROVE  TypeOK'
        BY <2>2, HoldType, UpsetType DEF TypeOK, OperatorHold, CreateHold, Move
    <2>3. CASE ClearHold
        BY <2>3, UpsetType DEF TypeOK, ClearHold, Move
    <2>4. ASSUME NEW v \in Pins, EditControl(v)
          PROVE  TypeOK'
        BY <2>4, UpsetType DEF TypeOK, EditControl, Move
    <2>. QED BY <1>1, <2>1, <2>2, <2>3, <2>4 DEF OperatorStep
<1>2. CASE ConsumeCommand
    BY <1>2 DEF TypeOK, ConsumeCommand
<1>3. CASE LeaseLapses \/ LeaseExpiresUnderHolder
    <2>1. lease # None => [lease EXCEPT !.expired = TRUE] \in Lease
        BY DEF TypeOK, Lease
    <2>2. lease' \in Lease \cup {None} /\ upsets' \in 0..MaxUpsets
        BY <1>3, <2>1, FaultType DEF TypeOK, LeaseLapses, LeaseExpiresUnderHolder
    <2>. QED BY <1>3, <2>2 DEF TypeOK, LeaseLapses, LeaseExpiresUnderHolder
<1>4. ASSUME NEW n \in Gen, InstanceEnds(n)
      PROVE  /\ ec2' \in [Gen -> InstanceState] /\ pc' \in [Daemon -> Pc]
             /\ mem' \in [Daemon -> Memory]
    BY <1>4 DEF TypeOK, InstanceEnds, InstanceState, Pc
<1>5. ASSUME NEW n \in Gen, Ec2Step(n)
      PROVE  TypeOK'
    <2>1. CASE AcceptLaunch(n)
        BY <2>1 DEF TypeOK, AcceptLaunch, InstanceState
    <2>2. CASE InventoryShows(n)
        BY <2>2 DEF TypeOK, InventoryShows
    <2>3. CASE InstanceRuns(n)
        BY <2>3 DEF TypeOK, InstanceRuns, InstanceState
    <2>4. CASE InstanceTerminates(n)
        BY <1>4, <2>4 DEF TypeOK, InstanceTerminates, InstanceEnds
    <2>. QED BY <1>5, <2>1, <2>2, <2>3, <2>4 DEF Ec2Step
<1>6. ASSUME NEW p \in Daemon, Crash(p)
      PROVE  TypeOK'
    <2>1. HoldsLease(p) => [lease EXCEPT !.stale = TRUE] \in Lease
        BY DEF TypeOK, Lease, HoldsLease
    <2>. QED BY <1>6, <2>1, FaultType DEF TypeOK, Crash, Goto, Forget, Pc
<1>7. ASSUME NEW p \in Daemon, CallFails(p)
      PROVE  TypeOK'
    <2>1. mem' \in [Daemon -> Memory] /\ pc' \in [Daemon -> Pc]
        BY <1>7 DEF TypeOK, CallFails, Goto, Forget, Pc, EndPc
    <2>. QED BY <1>7, <2>1, FaultType DEF TypeOK, CallFails
<1>8. ASSUME NEW n \in Gen, RejectLaunch(n) \/ ProofAges(n)
      PROVE  TypeOK'
    BY <1>8, FaultType DEF TypeOK, RejectLaunch, ProofAges
<1>9. ASSUME NEW n \in Gen, InstanceFails(n)
      PROVE  TypeOK'
    BY <1>4, <1>9, FaultType DEF TypeOK, InstanceFails, InstanceEnds
<1>. QED BY <1>1, <1>2, <1>3, <1>5, <1>6, <1>7, <1>8, <1>9 DEF FaultStep

LEMMA TypeStep == TypeOK /\ Placed /\ [Next]_vars => TypeOK'
<1>. SUFFICES ASSUME TypeOK, Placed, [Next]_vars PROVE TypeOK'
    OBVIOUS
<1>1. ASSUME NEW p \in Daemon, DaemonStep(p)
      PROVE  TypeOK'
    BY <1>1, StartType, PublishType, HoldLeaseType, RetireType, ProvisionType,
       HandoffType DEF DaemonStep
<1>2. CASE UNCHANGED vars
    BY <1>2 DEF TypeOK, vars, ec2Vars, opVars, genVars
<1>. QED BY <1>1, <1>2, EnvironmentType DEF Next

-----------------------------------------------------------------------------
(* A daemon's step changes its own place and memory only *)

LEMMA Local ==
    ASSUME TypeOK, NEW p \in Daemon, DaemonStep(p)
    PROVE  /\ pc' = [pc EXCEPT ![p] = pc'[p]]
           /\ mem' = [mem EXCEPT ![p] = mem'[p]]
<1>. USE DEF Goto, Remember, Forget, TypeOK, ec2Vars, opVars, genVars
<1>1. CASE Start(p)
    BY <1>1 DEF Start, Boot, ClaimCurrent, ReadCycleSnapshot, InvokeHold
<1>2. CASE Publish(p)
    <2>1. CASE ProbeCapacity(p) \/ ProbeControl(p) \/ ProbeFinal(p)
        BY <2>1 DEF Probe, ProbeCapacity, ProbeControl, ProbeFinal
    <2>2. CASE WriteHeartbeat(p)
        BY <2>2 DEF WriteHeartbeat
    <2>. QED BY <1>2, <2>1, <2>2 DEF Publish
<1>3. CASE HoldLease(p)
    <2>1. CASE AcquireLease(p)
        BY <2>1 DEF AcquireLease
    <2>2. CASE ReleaseLease(p)
        BY <2>2 DEF ReleaseLease
    <2>3. CASE CheckOwnership(p)
        BY <2>3 DEF CheckOwnership
    <2>. QED BY <1>3, <2>1, <2>2, <2>3 DEF HoldLease
<1>4. CASE Retire(p)
    BY <1>4 DEF Retire, RetirePredecessor, DescribePredecessor, Check, RenewLease,
       CheckRetirementControl, TerminatePredecessor, DeleteStatusAlarm,
       MarkRetirementCompleted
<1>5. CASE Provision(p)
    BY <1>5 DEF Provision, Check, RenewLease, FindSuccessor, ReconcileSubmission,
       CheckCapacity, CheckProvisionControl, RenewForProvision, ClaimSubmission,
       CheckLastControl, RunInstance, RunInstanceReturns, RecordSubmission,
       EndProvisioning, EnsureStatusAlarm
<1>6. CASE Handoff(p)
    BY <1>6 DEF Handoff, Check, RenewLease, WaitRenew, WaitLook, CheckContinuation,
       CheckContinuationControl, ReadCandidate, CheckHandoffControl,
       ConditionalHandoff
<1>. QED BY <1>1, <1>2, <1>3, <1>4, <1>5, <1>6 DEF DaemonStep

LEMMA LocalOthers ==
    ASSUME TypeOK, NEW p \in Daemon, DaemonStep(p), NEW q \in Daemon, q # p
    PROVE  pc'[q] = pc[q] /\ mem'[q] = mem[q]
BY Local DEF TypeOK

-----------------------------------------------------------------------------
(* Placed is inductive *)

LEMMA DaemonPlaced ==
    ASSUME TypeOK, Placed, NEW p \in Daemon, DaemonStep(p)
    PROVE  PlacedAt(p)'
<1>1. pc \in [Daemon -> Pc] /\ mem \in [Daemon -> Memory] /\ mem[p].ready \in BOOLEAN
    BY DEF TypeOK, Memory
<1>2. PlacedAt(p) /\ p[1] \in Nat
    BY Constants DEF Placed, Daemon
<1>3. mem[p].pins \in Pins /\ MaxGeneration[mem[p].pins] \in Nat
    BY Constants DEF TypeOK, Memory
<1>. USE <1>1, <1>2, <1>3
     DEF PlacedAt, Goto, Remember, Forget, Blank, At, ProvisionPc, IntentPc,
         HandoffPc, RetirePc, ProbePc, EndPc, ec2Vars, opVars, genVars
<1>4. CASE Start(p)
    <2>1. CASE Boot(p)
        BY <2>1 DEF Boot
    <2>2. CASE ClaimCurrent(p)
        BY <2>2 DEF ClaimCurrent
    <2>3. CASE ReadCycleSnapshot(p)
        BY <2>3 DEF ReadCycleSnapshot
    <2>4. CASE InvokeHold(p)
        BY <2>4 DEF InvokeHold
    <2>. QED BY <1>4, <2>1, <2>2, <2>3, <2>4 DEF Start
<1>5. CASE Publish(p)
    <2>1. CASE ProbeCapacity(p)
        BY <2>1 DEF ProbeCapacity, Probe
    <2>2. CASE ProbeControl(p)
        BY <2>2 DEF ProbeControl, Probe
    <2>3. CASE ProbeFinal(p)
        BY <2>3 DEF ProbeFinal, Probe
    <2>4. CASE WriteHeartbeat(p)
        BY <2>4 DEF WriteHeartbeat
    <2>. QED BY <1>5, <2>1, <2>2, <2>3, <2>4 DEF Publish
<1>6. CASE HoldLease(p)
    <2>1. CASE AcquireLease(p)
        BY <2>1 DEF AcquireLease
    <2>2. CASE ReleaseLease(p)
        BY <2>2 DEF ReleaseLease
    <2>3. CASE CheckOwnership(p)
        <3>1. mem[p] \in Memory
            BY DEF TypeOK
        <3>2. mem'[p].pins = mem[p].pins /\ mem'[p].ready = mem[p].ready
            BY ZenonT(60), <2>3, <3>1 DEF CheckOwnership, Memory
        <3>3. CASE p[1] = 0 /\ IsCurrentOwner(cur, p[1])
            <4>1. mem'[p].retired
                BY <2>3, <3>1, <3>3 DEF CheckOwnership, Memory
            <4>. QED BY <2>3, <3>2, <3>3, <4>1 DEF CheckOwnership, AfterRetire, Boundary
        <3>4. CASE ~IsCurrentOwner(cur, p[1])
            BY <2>3, <3>2, <3>4 DEF CheckOwnership
        <3>5. CASE p[1] # 0 /\ IsCurrentOwner(cur, p[1])
            BY <2>3, <3>2, <3>5 DEF CheckOwnership
        <3>. QED BY <3>3, <3>4, <3>5
    <2>. QED BY <1>6, <2>1, <2>2, <2>3 DEF HoldLease
<1>7. CASE Retire(p)
    <2>1. CASE RetirePredecessor(p)
        <3>1. mem[p] \in Memory
            BY DEF TypeOK
        <3>2. mem'[p].pins = mem[p].pins /\ mem'[p].ready = mem[p].ready
            BY ZenonT(60), <2>1, <3>1 DEF RetirePredecessor, Memory
        <3>. QED BY <2>1, <3>2 DEF RetirePredecessor, RenewLease, AfterRetire, Boundary
    <2>2. CASE DescribePredecessor(p)
        BY <2>2 DEF DescribePredecessor, Check, AfterRetire, Boundary
    <2>3. CASE CheckRetirementControl(p)
        BY <2>3 DEF CheckRetirementControl, Check
    <2>4. CASE TerminatePredecessor(p)
        BY <2>4 DEF TerminatePredecessor, AfterRetire, Boundary
    <2>5. CASE DeleteStatusAlarm(p)
        BY <2>5 DEF DeleteStatusAlarm
    <2>6. CASE MarkRetirementCompleted(p)
        BY <2>6 DEF MarkRetirementCompleted, AfterRetire, Boundary
    <2>. QED BY <1>7, <2>1, <2>2, <2>3, <2>4, <2>5, <2>6 DEF Retire
<1>8. CASE Provision(p)
    <2>1. CASE FindSuccessor(p)
        BY <2>1 DEF FindSuccessor, Check
    <2>2. CASE ReconcileSubmission(p)
        BY <2>2 DEF ReconcileSubmission
    <2>3. CASE CheckCapacity(p)
        BY <2>3 DEF CheckCapacity, Check
    <2>4. CASE CheckProvisionControl(p)
        BY <2>4 DEF CheckProvisionControl, Check
    <2>5. CASE RenewForProvision(p)
        BY <2>5 DEF RenewForProvision, RenewLease
    <2>6. CASE ClaimSubmission(p)
        BY <2>6 DEF ClaimSubmission
    <2>7. CASE CheckLastControl(p)
        BY <2>7 DEF CheckLastControl, Check
    <2>8. CASE RunInstance(p)
        BY <2>8 DEF RunInstance
    <2>9. CASE RunInstanceReturns(p)
        BY <2>9 DEF RunInstanceReturns, Check
    <2>10. CASE RecordSubmission(p)
        BY <2>10 DEF RecordSubmission
    <2>11. CASE EndProvisioning(p)
        BY <2>11 DEF EndProvisioning
    <2>12. CASE EnsureStatusAlarm(p)
        BY <2>12 DEF EnsureStatusAlarm
    <2>. QED BY <1>8, <2>1, <2>2, <2>3, <2>4, <2>5, <2>6, <2>7, <2>8, <2>9, <2>10, <2>11, <2>12 DEF Provision
<1>9. CASE Handoff(p)
    <2>1. CASE WaitRenew(p)
        BY <2>1 DEF WaitRenew, RenewLease
    <2>2. CASE WaitLook(p)
        <3>1. mem[p] \in Memory
            BY DEF TypeOK
        <3>2. mem'[p].pins = mem[p].pins /\ mem'[p].retired = mem[p].retired
            BY <2>2, <3>1 DEF WaitLook, Memory
        <3>. QED BY <2>2, <3>2 DEF WaitLook
    <2>3. CASE CheckContinuation(p)
        BY <2>3 DEF CheckContinuation, Check
    <2>4. CASE CheckContinuationControl(p)
        BY <2>4 DEF CheckContinuationControl, RenewLease
    <2>5. CASE ReadCandidate(p)
        BY <2>5 DEF ReadCandidate, RenewLease
    <2>6. CASE CheckHandoffControl(p)
        BY <2>6 DEF CheckHandoffControl
    <2>7. CASE ConditionalHandoff(p)
        BY <2>7 DEF ConditionalHandoff
    <2>. QED BY <1>9, <2>1, <2>2, <2>3, <2>4, <2>5, <2>6, <2>7 DEF Handoff
<1>. QED BY <1>4, <1>5, <1>6, <1>7, <1>8, <1>9 DEF DaemonStep

LEMMA EnvironmentLocal ==
    ASSUME TypeOK,
           \/ OperatorStep \/ ConsumeCommand \/ LeaseLapses \/ FaultStep
           \/ \E n \in Gen : Ec2Step(n)
    PROVE  \A q \in Daemon :
              \/ pc'[q] = pc[q] /\ mem'[q] = mem[q]
              \/ pc'[q] \in {"down", "gone", "deferred", "done", "idle", "publish"}
                 /\ mem'[q] \in {mem[q], Blank}
<1>. SUFFICES ASSUME NEW q \in Daemon
              PROVE  \/ pc'[q] = pc[q] /\ mem'[q] = mem[q]
                     \/ pc'[q] \in {"down", "gone", "deferred", "done", "idle", "publish"}
                        /\ mem'[q] \in {mem[q], Blank}
    OBVIOUS
<1>. USE DEF TypeOK
<1>1. CASE OperatorStep \/ ConsumeCommand \/ LeaseLapses
    BY <1>1 DEF OperatorStep, RequestSwitch, OperatorHold, ClearHold, EditControl,
                ConsumeCommand, LeaseLapses
<1>2. CASE \E n \in Gen : Ec2Step(n)
    BY <1>2 DEF Ec2Step, AcceptLaunch, InventoryShows, InstanceRuns,
                InstanceTerminates, InstanceEnds
<1>3. ASSUME NEW p \in Daemon, Crash(p) \/ CallFails(p)
      PROVE  \/ pc'[q] = pc[q] /\ mem'[q] = mem[q]
             \/ pc'[q] \in {"down", "gone", "deferred", "done", "idle", "publish"}
                /\ mem'[q] \in {mem[q], Blank}
    BY <1>3 DEF Crash, CallFails, Goto, Forget
<1>4. CASE FaultStep
    BY <1>3, <1>4 DEF FaultStep, RejectLaunch, InstanceFails, InstanceEnds, ProofAges,
                      LeaseExpiresUnderHolder
<1>. QED BY <1>1, <1>2, <1>4

LEMMA PlacedStep == TypeOK /\ Placed /\ [Next]_vars => Placed'
<1>. SUFFICES ASSUME TypeOK, Placed, [Next]_vars, NEW q \in Daemon PROVE PlacedAt(q)'
    BY DEF Placed
<1>1. ASSUME NEW p \in Daemon, DaemonStep(p)
      PROVE  PlacedAt(q)'
    BY <1>1, DaemonPlaced, LocalOthers DEF Placed, PlacedAt
<1>2. ASSUME \/ pc'[q] = pc[q] /\ mem'[q] = mem[q]
             \/ pc'[q] \in {"down", "gone", "deferred", "done", "idle", "publish"}
                /\ mem'[q] \in {mem[q], Blank}
      PROVE  PlacedAt(q)'
    BY <1>2 DEF Placed, PlacedAt, ProvisionPc, IntentPc, HandoffPc, RetirePc, Blank
<1>3. CASE UNCHANGED vars
    BY <1>2, <1>3 DEF vars
<1>. QED BY <1>1, <1>2, <1>3, EnvironmentLocal DEF Next

LEMMA InitPlaced == Init => Placed
BY DEF Init, Placed, PlacedAt, ProvisionPc, IntentPc, HandoffPc, RetirePc, Blank

\* Every reachable state is well-typed: no daemon ever names a generation beyond
\* the last approved one, or retires before generation one.
THEOREM TypeCorrect == Spec => []TypeOK
<1>1. Init => TypeOK /\ Placed
    BY InitType, InitPlaced
<1>2. TypeOK /\ Placed /\ [Next]_vars => TypeOK' /\ Placed'
    BY TypeStep, PlacedStep
<1>. QED BY <1>1, <1>2, PTL DEF Spec

=============================================================================
