--------------------------- MODULE Ec2ChainSafety ---------------------------
(***************************************************************************)
(* The safety of Ec2Chain for every number of generations, of CONTROL       *)
(* versions, of daemons per instance and of upsets: an inductive invariant  *)
(* and the properties that follow from it.                                  *)
(***************************************************************************)
EXTENDS Ec2ChainTypes, FiniteSetTheorems

-----------------------------------------------------------------------------
(* The inductive invariant: what the records and EC2 agree on *)

\* What CURRENT says of its own generation.
CurrentShape ==
    /\ cur.status = "UNINITIALIZED" => cur.gen = 0 /\ ~cur.completed
    /\ cur.gen > 0 => cur.authorized
    /\ cur.completed => cur.gen > 0

\* An instance exists only after its one request, and a request only after its
\* intent; everything up to CURRENT's generation was launched.
LaunchedAt(g) ==
    /\ launches[g] <= 1
    /\ g \in inflight => launches[g] = 1 /\ ec2[g] = "none"
    /\ g > 0 /\ ec2[g] # "none" => launches[g] = 1
    /\ launches[g] > 0 => g \in submission
    /\ g = 0 \/ g <= cur.gen \/ g \in visible => ec2[g] # "none"
Launched == \A g \in Gen : LaunchedAt(g)

\* Nothing exists beyond CURRENT's successor.
NothingAhead ==
    \A g \in Gen : g > cur.gen + 1 => launches[g] = 0 /\ g \notin submission

\* The marker covers everything that is not recorded.
Covered ==
    \A g \in Gen : g \in inflight \/ (launches[g] > 0 /\ g \notin resource)
                      => marker = g

\* Everything older than CURRENT's predecessor is terminated, and so is the
\* predecessor once its retirement is recorded.
Gone(g) == g >= 0 => ec2[g] = "terminated"
OldGone ==
    /\ \A g \in Gen : g < cur.gen - 1 => ec2[g] = "terminated"
    /\ cur.completed => Gone(cur.gen - 1)

\* No alarm of a retired generation is left; the seed never had one.
AlarmsGone ==
    /\ 0 \notin alarm
    /\ cur.completed => cur.gen - 1 \notin alarm

\* Under a ceiling of two, a launch waits for the predecessor's termination.
CeilingTwo ==
    MaxLive = 2 =>
        \A g \in Gen : g = cur.gen + 1 /\ launches[g] > 0 => Gone(cur.gen - 1)

-----------------------------------------------------------------------------
(* The inductive invariant: what a daemon's place says of them *)

\* A snapshot is never ahead of CURRENT, and whoever works under the lease took
\* a snapshot in which it was the owner.
SnapshotAt(p) ==
    /\ mem[p].cur.gen <= cur.gen
    /\ mem[p].cur.completed => mem[p].cur.gen > 0 /\ Gone(mem[p].cur.gen - 1)
    /\ pc[p] \in LeasePc \cup {"acquire"} => mem[p].cur.gen = p[1]

\* Between an intent and its request the marker is the daemon's own; behind the
\* request there is an instance.
IntentAt(p) ==
    /\ pc[p] \in IntentPc => /\ marker = p[1] + 1
                             /\ launches[p[1] + 1] = 0
                             /\ p[1] + 1 \in submission
    /\ pc[p] \in {"record", "endMarker", "reconcile", "handoffControl", "commit"}
          => ec2[p[1] + 1] # "none"
    /\ pc[p] = "endMarker" => p[1] + 1 \in resource

\* Who acts as if its predecessor were gone is right.
RetiredAt(p) ==
    \/ mem[p].retired
    \/ pc[p] \in HandoffPc \cup {"retireAlarm", "retireMark"}
    => Gone(p[1] - 1)

AlarmAt(p) == pc[p] = "retireMark" => p[1] - 1 \notin alarm

LaunchPc == {"provisionControl", "provisionRenew", "claim"} \cup IntentPc
CeilingAt(p) ==
    MaxLive = 2 /\ pc[p] \in LaunchPc /\ p[1] = cur.gen => Gone(cur.gen - 1)

AtPlace(p) ==
    /\ SnapshotAt(p) /\ IntentAt(p) /\ RetiredAt(p) /\ AlarmAt(p) /\ CeilingAt(p)

\* One daemon at a time is between an intent and its request.
OneIntent ==
    \A p, q \in Daemon : pc[p] \in IntentPc /\ pc[q] \in IntentPc => p = q

Records ==
    /\ CurrentShape /\ Launched /\ NothingAhead /\ Covered
    /\ OldGone /\ AlarmsGone /\ CeilingTwo
IInv ==
    /\ TypeOK /\ Placed /\ Records /\ OneIntent
    /\ \A p \in Daemon : AtPlace(p)

-----------------------------------------------------------------------------
(* Most steps leave the shared records alone *)

shared == <<ec2, visible, inflight, launches, alarm, cur, marker, submission, resource>>

LEMMA QuietDaemon ==
    ASSUME NEW p \in Daemon, DaemonStep(p)
    PROVE  \/ UNCHANGED shared
           \/ ClaimCurrent(p) \/ TerminatePredecessor(p) \/ DeleteStatusAlarm(p)
           \/ MarkRetirementCompleted(p) \/ ReconcileSubmission(p) \/ ClaimSubmission(p)
           \/ RunInstance(p) \/ RecordSubmission(p) \/ EndProvisioning(p)
           \/ EnsureStatusAlarm(p) \/ ConditionalHandoff(p)
<1>. USE DEF shared, vars, ec2Vars, opVars, genVars
<1>1. CASE Start(p)
    BY <1>1 DEF Start, Boot, ReadCycleSnapshot, InvokeHold, CreateHold
<1>2. CASE Publish(p)
    BY <1>2 DEF Publish, ProbeCapacity, ProbeControl, ProbeFinal, Probe, WriteHeartbeat
<1>3. CASE HoldLease(p)
    BY <1>3 DEF HoldLease, AcquireLease, ReleaseLease, CheckOwnership
<1>4. CASE Retire(p)
    BY <1>4 DEF Retire, RetirePredecessor, DescribePredecessor, CheckRetirementControl,
                Check, RenewLease
<1>5. CASE Provision(p)
    BY <1>5 DEF Provision, FindSuccessor, CheckCapacity, CheckProvisionControl,
                RenewForProvision, CheckLastControl, RunInstanceReturns, Check, RenewLease
<1>6. CASE Handoff(p)
    BY <1>6 DEF Handoff, WaitRenew, WaitLook, CheckContinuation,
                CheckContinuationControl, ReadCandidate, CheckHandoffControl, Check,
                RenewLease
<1>. QED BY <1>1, <1>2, <1>3, <1>4, <1>5, <1>6 DEF DaemonStep

LEMMA QuietEnvironment ==
    ASSUME \/ OperatorStep \/ ConsumeCommand \/ LeaseLapses \/ FaultStep
           \/ \E n \in Gen : Ec2Step(n)
    PROVE  \/ UNCHANGED shared
           \/ \E n \in Gen : \/ AcceptLaunch(n) \/ InventoryShows(n) \/ InstanceRuns(n)
                             \/ (InstanceEnds(n) /\ ec2[n] # "none") \/ RejectLaunch(n)
<1>. USE DEF shared, ec2Vars, opVars, genVars
<1>1. CASE OperatorStep
    BY <1>1 DEF OperatorStep, RequestSwitch, OperatorHold, CreateHold, ClearHold,
                EditControl
<1>2. CASE ConsumeCommand \/ LeaseLapses
    BY <1>2 DEF ConsumeCommand, LeaseLapses
<1>3. CASE \E n \in Gen : Ec2Step(n)
    BY <1>3 DEF Ec2Step, InstanceTerminates
<1>4. CASE FaultStep
    BY <1>4 DEF FaultStep, Crash, CallFails, InstanceFails, ProofAges,
                LeaseExpiresUnderHolder
<1>. QED BY <1>1, <1>2, <1>3, <1>4

-----------------------------------------------------------------------------
(* The steps that change the shared records preserve Records *)

LEMMA Basics ==
    ASSUME TypeOK
    PROVE  /\ cur.gen \in Nat /\ cur.gen \in Gen
           /\ \A p \in Daemon : /\ p[1] \in Nat /\ p[1] \in Gen
                                /\ mem[p].cur.gen \in Nat /\ mem[p] \in Memory
           /\ \A g \in Gen : launches[g] \in Nat
BY Constants DEF TypeOK, Current, Daemon, Memory

LEMMA Ec2Records ==
    ASSUME TypeOK, Records,
           UNCHANGED <<visible, inflight, launches, alarm, cur, marker, submission,
                       resource>>,
           \A g \in Gen : /\ ec2'[g] = "none" <=> ec2[g] = "none"
                          /\ ec2[g] = "terminated" => ec2'[g] = "terminated"
    PROVE  Records'
<1>. USE DEF Records
<1>1. CurrentShape' /\ NothingAhead' /\ Covered' /\ AlarmsGone'
    BY DEF CurrentShape, NothingAhead, Covered, AlarmsGone
<1>2. Launched'
    BY DEF Launched, LaunchedAt
<1>3. cur.gen \in Nat /\ (cur.gen - 1 >= 0 => cur.gen - 1 \in Gen)
    BY Basics, Constants DEF Gen
<1>4. OldGone' /\ CeilingTwo'
    BY <1>3 DEF OldGone, CeilingTwo, Gone
<1>. QED BY <1>1, <1>2, <1>4

LEMMA RunRecords ==
    ASSUME IInv, NEW p \in Daemon, RunInstance(p)
    PROVE  Records'
<1> DEFINE n == p[1] + 1
<1>. USE DEF IInv, Records
<1>1. /\ n \in Gen /\ p[1] \in Nat /\ cur.gen \in Nat /\ mem[p].cur.gen \in Nat
      /\ pc[p] = "run"
    BY Successor, Basics DEF RunInstance, At, ProvisionPc, IntentPc
<1>2. marker = n /\ launches[n] = 0 /\ n \in submission
    BY <1>1 DEF AtPlace, IntentAt, IntentPc
<1>3. /\ inflight' = inflight \cup {n}
      /\ launches' = [launches EXCEPT ![n] = launches[n] + 1]
      /\ UNCHANGED <<ec2, visible, alarm, cur, marker, submission, resource>>
    BY DEF RunInstance, opVars, genVars
<1>4. launches'[n] = 1 /\ \A g \in Gen \ {n} : launches'[g] = launches[g]
    BY <1>1, <1>2, <1>3 DEF TypeOK
<1>5. n > 0 /\ ec2[n] = "none"
    BY <1>1, <1>2 DEF Launched, LaunchedAt
<1>6. n = cur.gen + 1
    <2>1. p[1] <= cur.gen
        BY <1>1 DEF AtPlace, SnapshotAt, LeasePc
    <2>2. ~(n <= cur.gen)
        BY <1>1, <1>5 DEF Launched, LaunchedAt
    <2>. QED BY <1>1, <2>1, <2>2
<1>7. CurrentShape' /\ OldGone' /\ AlarmsGone'
    BY <1>3 DEF CurrentShape, OldGone, AlarmsGone, Gone
<1>8. Launched'
    BY <1>1, <1>2, <1>3, <1>4, <1>5 DEF Launched, LaunchedAt
<1>9. NothingAhead'
    BY <1>1, <1>3, <1>4, <1>6 DEF NothingAhead
<1>10. Covered'
    BY <1>1, <1>2, <1>3, <1>4 DEF Covered
<1>11. CeilingTwo'
    <2>1. MaxLive = 2 => Gone(cur.gen - 1)
        BY <1>1, <1>6 DEF AtPlace, CeilingAt, LaunchPc, IntentPc
    <2>. QED BY <1>3, <2>1 DEF CeilingTwo, Gone
<1>. QED BY <1>7, <1>8, <1>9, <1>10, <1>11

LEMMA ClaimRecords ==
    ASSUME IInv, NEW p \in Daemon, ClaimSubmission(p)
    PROVE  Records'
<1> DEFINE n == p[1] + 1
<1>. USE DEF IInv, Records
<1>1. /\ n \in Gen /\ p[1] \in Nat /\ cur.gen \in Nat /\ mem[p].cur.gen \in Nat
      /\ pc[p] = "claim"
    BY Successor, Basics DEF ClaimSubmission, At, ProvisionPc
<1>2. /\ UNCHANGED <<ec2, visible, inflight, launches, alarm, cur, resource>>
      /\ \/ UNCHANGED <<marker, submission>>
         \/ /\ marker = None /\ marker' = n /\ submission' = submission \cup {n}
    BY DEF ClaimSubmission, Unclaimed, ec2Vars, opVars
<1>3. p[1] <= cur.gen
    BY <1>1 DEF AtPlace, SnapshotAt, LeasePc
<1>4. CurrentShape' /\ OldGone' /\ AlarmsGone' /\ CeilingTwo'
    BY <1>2 DEF CurrentShape, OldGone, AlarmsGone, CeilingTwo, Gone
<1>5. Launched'
    BY <1>2 DEF Launched, LaunchedAt
<1>6. NothingAhead'
    BY <1>1, <1>2, <1>3 DEF NothingAhead
<1>7. Covered'
    BY <1>2, NoneAssumption DEF Covered
<1>. QED BY <1>4, <1>5, <1>6, <1>7

LEMMA MarkerRecords ==
    ASSUME IInv, NEW p \in Daemon,
           ReconcileSubmission(p) \/ RecordSubmission(p) \/ EndProvisioning(p)
    PROVE  Records'
<1>. USE DEF IInv, Records
<1>1. UNCHANGED <<ec2, visible, inflight, launches, alarm, cur, submission>>
    BY DEF ReconcileSubmission, RecordSubmission, EndProvisioning, ec2Vars, genVars
<1>2. CurrentShape' /\ OldGone' /\ AlarmsGone' /\ CeilingTwo' /\ NothingAhead'
    BY <1>1 DEF CurrentShape, OldGone, AlarmsGone, CeilingTwo, NothingAhead, Gone
<1>3. Launched'
    BY <1>1 DEF Launched, LaunchedAt
<1>4. CASE ReconcileSubmission(p) \/ RecordSubmission(p)
    <2>1. resource \subseteq resource' /\ marker' = marker
        BY <1>4 DEF ReconcileSubmission, RecordSubmission
    <2>. QED BY <1>1, <1>2, <1>3, <2>1 DEF Covered
<1>5. CASE EndProvisioning(p)
    <2> DEFINE n == p[1] + 1
    <2>1. /\ n \in Gen /\ pc[p] = "endMarker" /\ resource' = resource
          /\ marker' = IF marker = n THEN None ELSE marker
        BY <1>5, Successor DEF EndProvisioning, At, ProvisionPc, genVars
    <2>2. n \in resource /\ n \notin inflight
        BY <2>1 DEF AtPlace, IntentAt, Launched, LaunchedAt
    <2>. QED BY <1>1, <1>2, <1>3, <2>1, <2>2 DEF Covered
<1>. QED BY <1>4, <1>5

LEMMA AlarmRecords ==
    ASSUME IInv, NEW p \in Daemon, DeleteStatusAlarm(p) \/ EnsureStatusAlarm(p)
    PROVE  Records'
<1>. USE DEF IInv, Records
<1>1. UNCHANGED <<ec2, visible, inflight, launches, cur, marker, submission, resource>>
    BY DEF DeleteStatusAlarm, EnsureStatusAlarm, opVars, genVars
<1>2. CurrentShape' /\ OldGone' /\ CeilingTwo' /\ NothingAhead' /\ Covered'
    BY <1>1 DEF CurrentShape, OldGone, CeilingTwo, NothingAhead, Covered, Gone
<1>3. Launched'
    BY <1>1 DEF Launched, LaunchedAt
<1>4. p[1] \in Gen /\ p[1] \in Nat /\ cur.gen \in Nat
    BY Basics
<1>5. AlarmsGone'
    <2>1. CASE DeleteStatusAlarm(p)
        BY <1>1, <2>1 DEF AlarmsGone, DeleteStatusAlarm
    <2>2. CASE EnsureStatusAlarm(p)
        <3>1. ec2[p[1]] # "terminated" /\ alarm' = alarm \cup {p[1] + 1}
            BY <2>2 DEF EnsureStatusAlarm, At
        <3>2. cur.completed => p[1] + 1 # cur.gen - 1
            BY <1>4, <3>1 DEF OldGone
        <3>. QED BY <1>1, <1>4, <3>1, <3>2 DEF AlarmsGone
    <2>. QED BY <2>1, <2>2
<1>. QED BY <1>2, <1>3, <1>5

LEMMA CurrentRecords ==
    ASSUME IInv, NEW p \in Daemon, ClaimCurrent(p) \/ MarkRetirementCompleted(p)
    PROVE  Records' /\ cur'.gen = cur.gen
<1>. USE DEF IInv, Records
<1>1. UNCHANGED <<ec2, visible, inflight, launches, alarm, marker, submission, resource>>
    BY DEF ClaimCurrent, MarkRetirementCompleted, ec2Vars, opVars, genVars
<1>2. p[1] \in Gen /\ p[1] \in Nat /\ cur.gen \in Nat /\ cur \in Current
    BY Basics DEF TypeOK
<1>3. cur'.gen = cur.gen
    BY <1>2 DEF ClaimCurrent, MarkRetirementCompleted, CurrentShape, Current,
       Uninitialized, Placed, PlacedAt, At
<1>4. /\ cur'.status = "UNINITIALIZED" => cur.status = "UNINITIALIZED" /\ cur' = cur
      /\ cur'.gen > 0 => cur'.authorized
    <2>1. CASE ClaimCurrent(p)
        <3>1. cur' = cur \/ (cur'.status = "CURRENT" /\ cur'.gen = 0)
            BY <2>1 DEF ClaimCurrent, Uninitialized, Placed, PlacedAt, At
        <3>. QED BY <3>1 DEF CurrentShape
    <2>2. CASE MarkRetirementCompleted(p)
        <3>1. cur' = cur \/ (cur.status = "CURRENT" /\ cur' = [cur EXCEPT !.completed = TRUE])
            BY <2>2 DEF MarkRetirementCompleted, IsCurrentOwner
        <3>2. cur'.status = cur.status /\ cur'.authorized = cur.authorized
            BY <1>2, <3>1 DEF Current
        <3>. QED BY <1>3, <3>1, <3>2 DEF CurrentShape
    <2>. QED BY <2>1, <2>2
<1>5. cur'.completed => \/ cur.completed
                        \/ /\ cur.gen > 0 /\ Gone(cur.gen - 1)
                           /\ cur.gen - 1 \notin alarm
    <2>1. CASE ClaimCurrent(p)
        BY <1>2, <2>1 DEF ClaimCurrent, Uninitialized
    <2>2. CASE MarkRetirementCompleted(p)
        <3>1. pc[p] = "retireMark" /\ (cur' = cur \/ cur.gen = p[1])
            BY <2>2 DEF MarkRetirementCompleted, At, IsCurrentOwner
        <3>2. p[1] > 0 /\ Gone(p[1] - 1) /\ p[1] - 1 \notin alarm
            BY <3>1 DEF Placed, PlacedAt, RetirePc, AtPlace, RetiredAt, AlarmAt
        <3>. QED BY <3>1, <3>2
    <2>. QED BY <2>1, <2>2
<1>6. CurrentShape'
    BY <1>2, <1>3, <1>4, <1>5 DEF CurrentShape
<1>7. NothingAhead' /\ Covered'
    BY <1>1, <1>3 DEF NothingAhead, Covered
<1>8. Launched'
    BY <1>1, <1>3 DEF Launched, LaunchedAt
<1>9. OldGone' /\ AlarmsGone' /\ CeilingTwo'
    BY <1>1, <1>3, <1>5 DEF OldGone, AlarmsGone, CeilingTwo, Gone
<1>. QED BY <1>3, <1>6, <1>7, <1>8, <1>9

\* What a successful handoff has behind it.
LEMMA HandoffFacts ==
    ASSUME IInv, NEW p \in Daemon, ConditionalHandoff(p), cur' # cur
    PROVE  /\ cur.gen = p[1] /\ p[1] + 1 \in Gen
           /\ cur'.gen = p[1] + 1 /\ cur'.status = "CURRENT"
           /\ cur'.authorized /\ ~cur'.completed
           /\ ec2[p[1] + 1] # "none" /\ launches[p[1] + 1] = 1
           /\ \A g \in Gen : g < cur.gen => ec2[g] = "terminated"
           /\ Open
<1>. USE DEF IInv, Records
<1>1. pc[p] = "commit" /\ p[1] \in Nat /\ p[1] + 1 \in Gen
    BY Successor, Basics DEF ConditionalHandoff, At, ProvisionPc, HandoffPc
<1>2. /\ cur' = [status |-> "CURRENT", gen |-> p[1] + 1, pins |-> mem[p].pins,
                 boundary |-> Boundary(p[1] + 1, mem[p].pins),
                 authorized |-> TRUE, completed |-> FALSE]
      /\ cur.gen = p[1] /\ Open
    BY DEF ConditionalHandoff, HandoffConditions, IsCurrentOwner, SameOpenControl
<1>3. ec2[p[1] + 1] # "none" /\ Gone(p[1] - 1)
    BY <1>1 DEF AtPlace, IntentAt, RetiredAt, HandoffPc
<1>4. launches[p[1] + 1] = 1
    BY <1>1, <1>3 DEF Launched, LaunchedAt
<1>5. \A g \in Gen : g < cur.gen => ec2[g] = "terminated"
    <2>1. SUFFICES ASSUME NEW g \in Gen, g < cur.gen PROVE ec2[g] = "terminated"
        OBVIOUS
    <2>2. g \in Nat
        BY Constants
    <2>. QED BY <1>1, <1>2, <1>3, <2>1, <2>2 DEF OldGone, Gone
<1>. QED BY <1>1, <1>2, <1>3, <1>4, <1>5

LEMMA HandoffRecords ==
    ASSUME IInv, NEW p \in Daemon, ConditionalHandoff(p)
    PROVE  Records'
<1>. USE DEF IInv, Records
<1>1. UNCHANGED <<ec2, visible, inflight, launches, alarm, marker, submission, resource>>
    BY DEF ConditionalHandoff, ec2Vars, opVars, genVars
<1>2. CASE cur' = cur
    BY <1>1, <1>2 DEF CurrentShape, Launched, LaunchedAt, NothingAhead, Covered,
       OldGone, AlarmsGone, CeilingTwo, Gone
<1>3. CASE cur' # cur
    <2>. USE HandoffFacts, <1>3
    <2>1. cur.gen \in Nat /\ cur'.gen = cur.gen + 1
        BY Basics
    <2>2. CurrentShape' /\ AlarmsGone'
        BY <1>1, <2>1 DEF CurrentShape, AlarmsGone
    <2>3. NothingAhead' /\ Covered'
        BY <1>1, <2>1, Constants DEF NothingAhead, Covered
    <2>4. Launched'
        <3>1. SUFFICES ASSUME NEW g \in Gen PROVE LaunchedAt(g)'
            BY DEF Launched
        <3>2. g <= cur'.gen => ec2[g] # "none"
            <4>1. g \in Nat /\ (g <= cur'.gen => g <= cur.gen \/ g = p[1] + 1)
                BY <2>1, Constants
            <4>. QED BY <4>1 DEF Launched, LaunchedAt
        <3>. QED BY <1>1, <3>2 DEF Launched, LaunchedAt
    <2>5. OldGone'
        BY <1>1, <2>1, Constants DEF OldGone
    <2>6. CeilingTwo'
        BY <1>1, <2>1, Constants DEF CeilingTwo, NothingAhead
    <2>. QED BY <2>2, <2>3, <2>4, <2>5, <2>6
<1>. QED BY <1>2, <1>3

LEMMA TerminateRecords ==
    ASSUME IInv, NEW p \in Daemon, TerminatePredecessor(p)
    PROVE  /\ Records'
           /\ \A g \in Gen : /\ ec2'[g] = "none" <=> ec2[g] = "none"
                             /\ ec2[g] = "terminated" => ec2'[g] = "terminated"
<1> DEFINE old == p[1] - 1
<1>. USE DEF IInv, Records
<1>1. /\ p[1] \in Nat /\ cur.gen \in Nat /\ mem[p].cur.gen \in Nat
      /\ pc[p] = "terminate" /\ p[1] > 0 /\ old \in Gen
    BY Basics, Constants DEF TerminatePredecessor, At, Placed, PlacedAt, RetirePc, Gen
<1>2. p[1] <= cur.gen
    BY <1>1 DEF AtPlace, SnapshotAt, LeasePc
<1>3. ec2[old] # "none"
    BY <1>1, <1>2 DEF Launched, LaunchedAt
<1>4. /\ ec2' = [ec2 EXCEPT ![old] =
                    IF ec2[old] = "terminated" THEN ec2[old] ELSE "shutting-down"]
      /\ UNCHANGED <<visible, inflight, launches, alarm, cur, marker, submission,
                     resource>>
    BY DEF TerminatePredecessor, opVars, genVars
<1>5. \A g \in Gen : /\ ec2'[g] = "none" <=> ec2[g] = "none"
                     /\ ec2[g] = "terminated" => ec2'[g] = "terminated"
    BY <1>1, <1>3, <1>4 DEF TypeOK
<1>. QED BY <1>4, <1>5, Ec2Records

LEMMA EnvironmentRecords ==
    ASSUME IInv, NEW n \in Gen,
           \/ AcceptLaunch(n) \/ InventoryShows(n) \/ InstanceRuns(n)
           \/ (InstanceEnds(n) /\ ec2[n] # "none") \/ RejectLaunch(n)
    PROVE  /\ Records'
           /\ UNCHANGED <<alarm, cur, marker, submission, resource, launches>>
           /\ \A g \in Gen : /\ ec2[g] # "none" => ec2'[g] # "none"
                             /\ ec2[g] = "terminated" => ec2'[g] = "terminated"
<1>. USE DEF IInv, Records, opVars, genVars, TypeOK
<1>1. CASE InstanceRuns(n)
    <2>1. \A g \in Gen : /\ ec2'[g] = "none" <=> ec2[g] = "none"
                         /\ ec2[g] = "terminated" => ec2'[g] = "terminated"
        BY <1>1 DEF InstanceRuns
    <2>. QED BY <1>1, <2>1, Ec2Records DEF InstanceRuns
<1>2. CASE InstanceEnds(n) /\ ec2[n] # "none"
    <2>1. \A g \in Gen : /\ ec2'[g] = "none" <=> ec2[g] = "none"
                         /\ ec2[g] = "terminated" => ec2'[g] = "terminated"
        BY <1>2 DEF InstanceEnds
    <2>. QED BY <1>2, <2>1, Ec2Records DEF InstanceEnds
<1>3. CASE InventoryShows(n) \/ RejectLaunch(n)
    <2>1. /\ UNCHANGED <<ec2, launches, alarm, cur, marker, submission, resource>>
          /\ inflight' \subseteq inflight
          /\ \A g \in visible' : g \in visible \/ ec2[g] # "none"
        BY <1>3 DEF InventoryShows, RejectLaunch
    <2>2. CurrentShape' /\ NothingAhead' /\ OldGone' /\ AlarmsGone' /\ CeilingTwo'
        BY <2>1 DEF CurrentShape, NothingAhead, OldGone, AlarmsGone, CeilingTwo, Gone
    <2>3. Covered' /\ Launched'
        BY <2>1 DEF Covered, Launched, LaunchedAt
    <2>. QED BY <2>1, <2>2, <2>3
<1>4. CASE AcceptLaunch(n)
    <2>1. /\ UNCHANGED <<visible, launches, alarm, cur, marker, submission, resource>>
          /\ n \in inflight /\ inflight' = inflight \ {n}
          /\ ec2[n] = "none" /\ launches[n] = 1
          /\ ec2' = [ec2 EXCEPT ![n] = "pending"]
        BY <1>4 DEF AcceptLaunch, Launched, LaunchedAt
    <2>2. \A g \in Gen : /\ ec2'[g] = IF g = n THEN "pending" ELSE ec2[g]
        BY <2>1
    <2>3. CurrentShape' /\ NothingAhead' /\ Covered' /\ AlarmsGone'
        BY <2>1 DEF CurrentShape, NothingAhead, Covered, AlarmsGone
    <2>4. Launched'
        BY <2>1, <2>2 DEF Launched, LaunchedAt
    <2>5. cur.gen \in Nat /\ (cur.gen - 1 >= 0 => cur.gen - 1 \in Gen)
        BY Basics, Constants DEF Gen
    <2>6. OldGone' /\ CeilingTwo'
        BY <2>1, <2>2, <2>5 DEF OldGone, CeilingTwo, Gone
    <2>. QED BY <2>1, <2>2, <2>3, <2>4, <2>6
<1>. QED BY <1>1, <1>2, <1>3, <1>4

-----------------------------------------------------------------------------
(* Which action leads to which place *)

LEMMA RecordsStep == IInv /\ [Next]_vars => Records'
<1>. SUFFICES ASSUME IInv, [Next]_vars PROVE Records'
    OBVIOUS
<1>1. CASE UNCHANGED shared
    BY <1>1 DEF IInv, shared, Records, CurrentShape, Launched, LaunchedAt, NothingAhead,
       Covered, OldGone, AlarmsGone, CeilingTwo, Gone
<1>2. ASSUME NEW p \in Daemon, DaemonStep(p) PROVE Records'
    BY <1>1, <1>2, QuietDaemon, CurrentRecords, TerminateRecords, AlarmRecords,
       MarkerRecords, ClaimRecords, RunRecords, HandoffRecords
<1>3. CASE UNCHANGED vars
    BY <1>1, <1>3 DEF vars, ec2Vars, genVars, shared
<1>. QED BY <1>1, <1>2, <1>3, QuietEnvironment, EnvironmentRecords DEF Next

\* Ownership only advances, and nothing terminated, launched or recorded is undone.
Grows ==
    /\ cur.gen <= cur'.gen
    /\ \A g \in Gen : /\ ec2[g] # "none" => ec2'[g] # "none"
                      /\ ec2[g] = "terminated" => ec2'[g] = "terminated"
    /\ submission \subseteq submission' /\ resource \subseteq resource'

LEMMA GrowsStep == IInv /\ [Next]_vars => Grows
<1>. SUFFICES ASSUME IInv, [Next]_vars PROVE Grows
    OBVIOUS
<1>. USE DEF Grows
<1>1. cur.gen \in Nat
    BY Basics DEF IInv
<1>2. CASE UNCHANGED shared
    BY <1>1, <1>2 DEF shared
<1>3. ASSUME NEW p \in Daemon, DaemonStep(p) PROVE Grows
    <2>1. CASE ClaimCurrent(p) \/ MarkRetirementCompleted(p)
        <3>1. cur'.gen = cur.gen
            BY <2>1, CurrentRecords
        <3>2. UNCHANGED <<ec2, submission, resource>>
            BY <2>1 DEF ClaimCurrent, MarkRetirementCompleted, ec2Vars, genVars
        <3>. QED BY <1>1, <3>1, <3>2
    <2>2. CASE TerminatePredecessor(p)
        BY <1>1, <2>2, TerminateRecords DEF TerminatePredecessor, genVars
    <2>3. CASE ConditionalHandoff(p)
        BY <1>1, <2>3, HandoffFacts, Basics DEF IInv, ConditionalHandoff, ec2Vars, genVars
    <2>4. CASE \/ DeleteStatusAlarm(p) \/ EnsureStatusAlarm(p) \/ RunInstance(p)
        BY <1>1, <2>4 DEF DeleteStatusAlarm, EnsureStatusAlarm, RunInstance, genVars
    <2>5. CASE \/ ReconcileSubmission(p) \/ RecordSubmission(p) \/ EndProvisioning(p)
               \/ ClaimSubmission(p)
        BY <1>1, <2>5 DEF ReconcileSubmission, RecordSubmission, EndProvisioning,
           ClaimSubmission, ec2Vars, genVars
    <2>. QED BY <1>2, <1>3, <2>1, <2>2, <2>3, <2>4, <2>5, QuietDaemon
<1>4. CASE UNCHANGED vars
    BY <1>2, <1>4 DEF vars, ec2Vars, genVars, shared
<1>. QED BY <1>1, <1>2, <1>3, <1>4, QuietEnvironment, EnvironmentRecords DEF Next

FlowAt(p) ==
    /\ \/ mem'[p].cur = mem[p].cur \/ mem'[p] = Blank \/ ReadCycleSnapshot(p)
    /\ mem'[p].retired => \/ mem[p].retired \/ CheckOwnership(p)
                          \/ RetirePredecessor(p) \/ MarkRetirementCompleted(p)
    /\ pc'[p] = "acquire" => ReadCycleSnapshot(p) \/ WriteHeartbeat(p)
    /\ pc'[p] \in LeasePc => pc[p] \in LeasePc \cup {"acquire"} /\ mem'[p].cur = mem[p].cur
    /\ pc'[p] \in IntentPc => ClaimSubmission(p) \/ CheckLastControl(p)
    /\ pc'[p] = "reconcile" => FindSuccessor(p)
    /\ pc'[p] = "record" => RunInstanceReturns(p)
    /\ pc'[p] = "endMarker" => ReconcileSubmission(p) \/ RecordSubmission(p)
    /\ pc'[p] = "handoffControl" => ReadCandidate(p)
    /\ pc'[p] = "commit" => CheckHandoffControl(p)
    /\ pc'[p] = "retireAlarm" => DescribePredecessor(p)
    /\ pc'[p] = "retireMark" => DeleteStatusAlarm(p)
    /\ pc'[p] \in HandoffPc => \/ pc[p] \in HandoffPc \/ CheckOwnership(p) \/ WaitLook(p)
                               \/ RetirePredecessor(p) \/ MarkRetirementCompleted(p)
    /\ pc'[p] \in LaunchPc => pc[p] \in LaunchPc \/ CheckCapacity(p)

LEMMA Flow ==
    ASSUME TypeOK, NEW p \in Daemon, DaemonStep(p)
    PROVE  FlowAt(p)
<1>1. /\ pc \in [Daemon -> Pc] /\ mem \in [Daemon -> Memory] /\ mem[p] \in Memory
      /\ Blank.retired = FALSE
    BY DEF TypeOK, Blank
<1>. USE <1>1 DEF FlowAt, At, Goto, Remember, Forget, LeasePc, IntentPc, HandoffPc, LaunchPc,
         ec2Vars, opVars, genVars
<1>2. CASE Start(p)
    <2>1. CASE Boot(p)
        BY <2>1 DEF Boot
    <2>2. CASE ClaimCurrent(p)
        BY <2>2 DEF ClaimCurrent
    <2>3. CASE ReadCycleSnapshot(p)
        <3>1. mem'[p].retired = FALSE
            BY <2>3 DEF ReadCycleSnapshot, Blank
        <3>. QED BY <2>3, <3>1 DEF ReadCycleSnapshot
    <2>4. CASE InvokeHold(p)
        BY <2>4 DEF InvokeHold
    <2>. QED BY <1>2, <2>1, <2>2, <2>3, <2>4 DEF Start
<1>3. CASE Publish(p)
    <2>1. CASE ProbeCapacity(p)
        BY <2>1 DEF ProbeCapacity, Probe, Memory
    <2>2. CASE ProbeControl(p)
        BY <2>2 DEF ProbeControl, Probe, Memory
    <2>3. CASE ProbeFinal(p)
        BY <2>3 DEF ProbeFinal, Probe, Memory
    <2>4. CASE WriteHeartbeat(p)
        BY <2>4 DEF WriteHeartbeat
    <2>. QED BY <1>3, <2>1, <2>2, <2>3, <2>4 DEF Publish
<1>4. CASE HoldLease(p)
    <2>1. CASE AcquireLease(p)
        BY <2>1 DEF AcquireLease
    <2>2. CASE ReleaseLease(p)
        BY <2>2 DEF ReleaseLease, EndPc
    <2>3. CASE CheckOwnership(p)
        BY <2>3 DEF CheckOwnership, AfterRetire, Memory
    <2>. QED BY <1>4, <2>1, <2>2, <2>3 DEF HoldLease
<1>5. CASE Retire(p)
    <2>1. CASE RetirePredecessor(p)
        <3>1. mem'[p].cur = mem[p].cur /\ pc[p] = "retire"
            BY <2>1 DEF RetirePredecessor, RenewLease, Memory
        <3>2. pc'[p] \in {"retireLook", "deferred", "violated", AfterRetire(p, TRUE)}
            BY <2>1 DEF RetirePredecessor, RenewLease, EndPc, RetirementEvidence
        <3>. QED BY <2>1, <3>1, <3>2 DEF AfterRetire
    <2>2. CASE DescribePredecessor(p)
        BY <2>2 DEF DescribePredecessor, Check, AfterRetire
    <2>3. CASE CheckRetirementControl(p)
        BY <2>3 DEF CheckRetirementControl, Check
    <2>4. CASE TerminatePredecessor(p)
        BY <2>4 DEF TerminatePredecessor, AfterRetire
    <2>5. CASE DeleteStatusAlarm(p)
        BY <2>5 DEF DeleteStatusAlarm
    <2>6. CASE MarkRetirementCompleted(p)
        BY <2>6 DEF MarkRetirementCompleted, AfterRetire, Memory
    <2>. QED BY <1>5, <2>1, <2>2, <2>3, <2>4, <2>5, <2>6 DEF Retire
<1>6. CASE Provision(p)
    <2>1. CASE FindSuccessor(p)
        BY <2>1 DEF FindSuccessor, Check
    <2>2. CASE ReconcileSubmission(p)
        BY <2>2 DEF ReconcileSubmission
    <2>3. CASE CheckCapacity(p)
        BY <2>3 DEF CheckCapacity, Check
    <2>4. CASE CheckProvisionControl(p)
        BY <2>4 DEF CheckProvisionControl, Check
    <2>5. CASE RenewForProvision(p)
        BY <2>5 DEF RenewForProvision, RenewLease
    <2>6. CASE ClaimSubmission(p)
        BY <2>6 DEF ClaimSubmission
    <2>7. CASE CheckLastControl(p)
        BY <2>7 DEF CheckLastControl, Check
    <2>8. CASE RunInstance(p)
        BY <2>8 DEF RunInstance
    <2>9. CASE RunInstanceReturns(p)
        BY <2>9 DEF RunInstanceReturns, Check
    <2>10. CASE RecordSubmission(p)
        BY <2>10 DEF RecordSubmission
    <2>11. CASE EndProvisioning(p)
        BY <2>11 DEF EndProvisioning
    <2>12. CASE EnsureStatusAlarm(p)
        BY <2>12 DEF EnsureStatusAlarm
    <2>. QED BY <1>6, <2>1, <2>2, <2>3, <2>4, <2>5, <2>6, <2>7, <2>8, <2>9, <2>10, <2>11,
                <2>12 DEF Provision
<1>7. CASE Handoff(p)
    <2>1. CASE WaitRenew(p)
        BY <2>1 DEF WaitRenew, RenewLease
    <2>2. CASE WaitLook(p)
        BY <2>2 DEF WaitLook, Memory
    <2>3. CASE CheckContinuation(p)
        BY <2>3 DEF CheckContinuation, Check
    <2>4. CASE CheckContinuationControl(p)
        BY <2>4 DEF CheckContinuationControl, RenewLease
    <2>5. CASE ReadCandidate(p)
        BY <2>5 DEF ReadCandidate, RenewLease, Memory
    <2>6. CASE CheckHandoffControl(p)
        BY <2>6 DEF CheckHandoffControl, Memory
    <2>7. CASE ConditionalHandoff(p)
        BY <2>7 DEF ConditionalHandoff
    <2>. QED BY <1>7, <2>1, <2>2, <2>3, <2>4, <2>5, <2>6, <2>7 DEF Handoff
<1>. QED BY <1>2, <1>3, <1>4, <1>5, <1>6, <1>7 DEF DaemonStep

-----------------------------------------------------------------------------
(* AtPlace is preserved *)

LEMMA OwnSnapshot ==
    ASSUME IInv, Grows, NEW p \in Daemon, DaemonStep(p)
    PROVE  SnapshotAt(p)'
<1>. USE DEF IInv
<1>1. /\ FlowAt(p) /\ AtPlace(p) /\ mem \in [Daemon -> Memory] /\ p[1] \in Nat
      /\ mem[p].cur.gen \in Nat /\ cur.gen \in Nat /\ cur'.gen \in Nat
      /\ Blank.cur.gen = 0 /\ ~Blank.cur.completed
    <2>1. FlowAt(p) /\ AtPlace(p)
        BY Flow
    <2>2. TypeOK'
        BY TypeStep DEF Next
    <2>3. cur.gen \in Gen /\ cur'.gen \in Gen /\ mem \in [Daemon -> Memory]
        BY <2>2 DEF TypeOK, Current
    <2>4. Blank.cur.gen = 0 /\ ~Blank.cur.completed
        BY DEF Blank, Uninitialized
    <2>. QED BY <2>1, <2>3, <2>4, Basics, Constants
<1>2. CASE ReadCycleSnapshot(p)
    <2>1. /\ mem'[p].cur = cur /\ cur' = cur /\ ec2' = ec2
          /\ pc'[p] \in LeasePc \cup {"acquire"} => cur.gen = p[1]
        BY <1>1, <1>2 DEF ReadCycleSnapshot, Remember, Goto, IsCurrentOwner, ec2Vars,
           LeasePc, TypeOK, Memory, Blank
    <2>. QED BY <1>1, <2>1 DEF SnapshotAt, Records, CurrentShape, OldGone, Gone
<1>3. CASE mem'[p] = Blank /\ ~ReadCycleSnapshot(p)
    <2>1. pc'[p] \notin LeasePc \cup {"acquire"} \/ mem[p].cur = Blank.cur
        BY <1>1, <1>3 DEF FlowAt, WriteHeartbeat
    <2>2. pc'[p] = "acquire" => mem[p].cur.gen = p[1]
        BY <1>1, <1>3 DEF FlowAt, WriteHeartbeat, Goto, IsCurrentOwner, TypeOK
    <2>. QED BY <1>1, <1>3, <2>1, <2>2 DEF SnapshotAt, AtPlace, FlowAt
<1>4. CASE mem'[p].cur = mem[p].cur /\ ~ReadCycleSnapshot(p)
    <2>1. pc'[p] = "acquire" => mem[p].cur.gen = p[1]
        BY <1>1, <1>4 DEF FlowAt, WriteHeartbeat, Goto, IsCurrentOwner, TypeOK
    <2>2. mem[p].cur.completed => Gone(mem[p].cur.gen - 1)'
        <3>1. mem[p].cur.gen - 1 >= 0 => mem[p].cur.gen - 1 \in Gen
            BY <1>1, Basics, Constants DEF AtPlace, SnapshotAt, Gen
        <3>. QED BY <1>1, <1>4, <3>1 DEF AtPlace, SnapshotAt, Gone, Grows
    <2>. QED BY <1>1, <1>4, <2>1, <2>2 DEF SnapshotAt, AtPlace, FlowAt, Grows
<1>. QED BY <1>1, <1>2, <1>3, <1>4 DEF FlowAt

LEMMA OwnIntent ==
    ASSUME IInv, Grows, NEW p \in Daemon, DaemonStep(p)
    PROVE  IntentAt(p)'
<1>. USE DEF IInv
<1> DEFINE n == p[1] + 1
<1>1. FlowAt(p) /\ AtPlace(p) /\ PlacedAt(p) /\ PlacedAt(p)' /\ pc \in [Daemon -> Pc]
    BY Flow, PlacedStep DEF Placed, TypeOK, Next
<1>2. pc'[p] \in ProvisionPc => n \in Gen
    <2>1. TypeOK'
        BY TypeStep DEF Next
    <2>2. mem'[p].pins \in Pins
        BY <2>1 DEF TypeOK, Memory
    <2>3. MaxGeneration[mem'[p].pins] \in 0..LastGen
        BY <2>2, Constants DEF Gen
    <2>4. pc'[p] \in ProvisionPc => p[1] < MaxGeneration[mem'[p].pins]
        BY <1>1 DEF PlacedAt
    <2>5. p[1] \in 0..LastGen
        BY DEF Daemon, Gen
    <2>. QED BY <2>3, <2>4, <2>5, Constants DEF Gen
<1>3. pc'[p] \in IntentPc => /\ marker' = n /\ launches'[n] = 0 /\ n \in submission'
    <2>1. CASE ClaimSubmission(p) /\ pc'[p] \in IntentPc
        <3>1. /\ marker' = n /\ submission' = submission \cup {n}
              /\ launches' = launches /\ n \notin submission
            BY <1>1, <2>1 DEF ClaimSubmission, Goto, IntentPc, Unclaimed, ec2Vars
        <3>2. n \in Gen
            BY <1>2, <2>1 DEF ProvisionPc
        <3>. QED BY <3>1, <3>2, Basics DEF Records, Launched, LaunchedAt
    <2>2. CASE CheckLastControl(p)
        <3>1. pc[p] = "lastControl" /\ UNCHANGED <<marker, submission, launches>>
            BY <2>2 DEF CheckLastControl, Check, At, ec2Vars, genVars
        <3>. QED BY <1>1, <3>1 DEF AtPlace, IntentAt, IntentPc
    <2>. QED BY <1>1, <2>1, <2>2 DEF FlowAt
<1>4. pc'[p] = "reconcile" => ec2'[n] # "none"
    <2>1. SUFFICES ASSUME FindSuccessor(p), pc'[p] = "reconcile" PROVE ec2'[n] # "none"
        BY <1>1 DEF FlowAt
    <2>2. n \in visible /\ ec2' = ec2
        BY <1>1, <2>1 DEF FindSuccessor, Check, Goto, ec2Vars
    <2>. QED BY <2>2 DEF Records, Launched, LaunchedAt, TypeOK
<1>5. pc'[p] = "record" => ec2'[n] # "none"
    <2>1. SUFFICES ASSUME RunInstanceReturns(p), pc'[p] = "record" PROVE ec2'[n] # "none"
        BY <1>1 DEF FlowAt
    <2>. QED BY <1>1, <2>1 DEF RunInstanceReturns, Check, Goto, ec2Vars
<1>6. pc'[p] = "endMarker" => ec2'[n] # "none" /\ n \in resource'
    <2>1. SUFFICES ASSUME ReconcileSubmission(p) \/ RecordSubmission(p), pc'[p] = "endMarker"
                   PROVE  ec2'[n] # "none" /\ n \in resource'
        BY <1>1 DEF FlowAt
    <2>2. pc[p] \in {"reconcile", "record"} /\ ec2' = ec2 /\ n \in resource'
        BY <1>1, <2>1 DEF ReconcileSubmission, RecordSubmission, Goto, At, ec2Vars
    <2>. QED BY <1>1, <2>2 DEF AtPlace, IntentAt
<1>7. pc'[p] = "handoffControl" => ec2'[n] # "none"
    <2>1. SUFFICES ASSUME ReadCandidate(p), pc'[p] = "handoffControl" PROVE ec2'[n] # "none"
        BY <1>1 DEF FlowAt
    <2>. QED BY <1>1, <2>1 DEF ReadCandidate, RenewLease, Goto, ec2Vars
<1>8. pc'[p] = "commit" => ec2'[n] # "none"
    <2>1. SUFFICES ASSUME CheckHandoffControl(p), pc'[p] = "commit" PROVE ec2'[n] # "none"
        BY <1>1 DEF FlowAt
    <2>. QED BY <1>1, <2>1 DEF CheckHandoffControl, At, ec2Vars, AtPlace, IntentAt
<1>. QED BY <1>3, <1>4, <1>5, <1>6, <1>7, <1>8 DEF IntentAt

LEMMA OwnRetired ==
    ASSUME IInv, Grows, NEW p \in Daemon, DaemonStep(p)
    PROVE  RetiredAt(p)'
<1>. USE DEF IInv
<1>1. /\ FlowAt(p) /\ AtPlace(p) /\ pc \in [Daemon -> Pc] /\ mem[p] \in Memory
      /\ mem \in [Daemon -> Memory] /\ p[1] \in Nat
    BY Flow, Basics DEF TypeOK
<1>2. Gone(p[1] - 1) => Gone(p[1] - 1)'
    <2>1. p[1] - 1 >= 0 => p[1] - 1 \in Gen
        BY Basics, Constants DEF Gen
    <2>. QED BY <2>1 DEF Gone, Grows
<1>3. SUFFICES ASSUME \/ mem'[p].retired
                      \/ pc'[p] \in HandoffPc \cup {"retireAlarm", "retireMark"}
               PROVE  Gone(p[1] - 1)
    BY <1>2 DEF RetiredAt
<1>4. CASE mem[p].retired \/ pc[p] \in HandoffPc \cup {"retireAlarm", "retireMark"}
    BY <1>1, <1>4 DEF AtPlace, RetiredAt
<1>5. CASE CheckOwnership(p)
    <2>1. mem'[p].retired \/ pc'[p] \in HandoffPc \cup {"retireAlarm", "retireMark"}
             => mem[p].retired \/ p[1] = 0
        BY <1>1, <1>5 DEF CheckOwnership, Goto, HandoffPc
    <2>. QED BY <1>1, <1>3, <1>4, <2>1 DEF Gone
<1>6. CASE RetirePredecessor(p)
    <2>1. CASE RetirementEvidence(p) = "completed"
        <3>1. mem[p].cur.completed /\ pc[p] = "retire"
            BY <1>6, <2>1 DEF RetirementEvidence, RetirePredecessor, At
        <3>. QED BY <1>1, <3>1 DEF AtPlace, SnapshotAt, LeasePc
    <2>2. CASE RetirementEvidence(p) # "completed"
        <3>1. /\ mem'[p] = mem[p]
              /\ pc'[p] \notin HandoffPc \cup {"retireAlarm", "retireMark"}
            BY <1>1, <1>6, <2>2 DEF RetirePredecessor, RenewLease, Goto, EndPc, HandoffPc
        <3>. QED BY <1>3, <1>4, <3>1
    <2>. QED BY <2>1, <2>2
<1>7. CASE MarkRetirementCompleted(p)
    BY <1>4, <1>7 DEF MarkRetirementCompleted, At
<1>8. CASE WaitLook(p) /\ ~mem[p].retired
    <2>1. pc'[p] \in {"retire", "wait", "deferred"} /\ mem'[p].retired = mem[p].retired
        BY <1>1, <1>8 DEF WaitLook, Goto, Remember, Memory
    <2>. QED BY <1>3, <1>8, <2>1 DEF HandoffPc
<1>9. CASE DescribePredecessor(p) /\ pc'[p] = "retireAlarm"
    <2>1. ec2[p[1] - 1] = "terminated"
        BY <1>1, <1>9 DEF DescribePredecessor, Check, Goto, AfterRetire
    <2>. QED BY <2>1 DEF Gone
<1>10. CASE DeleteStatusAlarm(p)
    <2>1. pc[p] = "retireAlarm"
        BY <1>10 DEF DeleteStatusAlarm, At
    <2>. QED BY <1>4, <2>1
<1>. QED BY <1>1, <1>3, <1>4, <1>5, <1>6, <1>7, <1>8, <1>9, <1>10 DEF FlowAt

LEMMA OwnAlarm ==
    ASSUME IInv, NEW p \in Daemon, DaemonStep(p)
    PROVE  AlarmAt(p)'
<1>. USE DEF IInv
<1>1. SUFFICES ASSUME DeleteStatusAlarm(p) PROVE p[1] - 1 \notin alarm'
    BY Flow DEF AlarmAt, FlowAt
<1>2. p[1] > 0 /\ p[1] \in Nat
    BY <1>1, Basics DEF Placed, PlacedAt, DeleteStatusAlarm, At, RetirePc
<1>. QED BY <1>1, <1>2 DEF DeleteStatusAlarm, Records, AlarmsGone

\* With a slot free under a ceiling of two, CURRENT's predecessor is terminated:
\* the exact lookups of CURRENT and its predecessor fill both slots otherwise.
LEMMA CapacityTwo ==
    ASSUME IInv, MaxLive = 2, HasCapacity, ec2[cur.gen] # "terminated"
    PROVE  Gone(cur.gen - 1)
<1>. USE DEF IInv
<1>1. cur.gen \in Nat /\ cur.gen \in Gen
    BY Basics
<1>2. SUFFICES ASSUME cur.gen > 0, ec2[cur.gen - 1] # "terminated" PROVE FALSE
    BY <1>1 DEF Gone
<1>3. cur.status = "CURRENT" /\ cur.authorized /\ ~cur.completed
    BY <1>1, <1>2 DEF Records, CurrentShape, OldGone, Gone, TypeOK, Current
<1>4. {cur.gen, cur.gen - 1} \subseteq Occupied
    BY <1>1, <1>2, <1>3 DEF Occupied
<1>5. Occupied \subseteq 0..LastGen
    <2>1. visible \subseteq 0..LastGen
        BY DEF TypeOK, Gen
    <2>2. cur.gen \in 0..LastGen /\ cur.gen - 1 \in 0..LastGen
        BY <1>1, <1>2, Constants DEF Gen
    <2>. QED BY <2>1, <2>2 DEF Occupied
<1>6. IsFiniteSet(Occupied) /\ Cardinality(Occupied) \in Nat
    <2>1. IsFiniteSet(0..LastGen)
        BY Constants, FS_Interval
    <2>. QED BY <1>5, <2>1, FS_Subset, FS_CardinalityType
<1>7. Cardinality({cur.gen, cur.gen - 1}) = 2
    <2>1. IsFiniteSet({cur.gen - 1}) /\ Cardinality({cur.gen - 1}) = 1
        BY FS_Singleton
    <2>2. {cur.gen, cur.gen - 1} = {cur.gen - 1} \cup {cur.gen} /\ cur.gen \notin {cur.gen - 1}
        BY <1>1
    <2>. QED BY <2>1, <2>2, FS_AddElement
<1>8. Cardinality({cur.gen, cur.gen - 1}) <= Cardinality(Occupied)
    BY <1>4, <1>6, FS_Subset
<1>. QED BY <1>6, <1>7, <1>8 DEF HasCapacity

LEMMA OwnCeiling ==
    ASSUME IInv, Grows, NEW p \in Daemon, DaemonStep(p)
    PROVE  CeilingAt(p)'
<1>. USE DEF IInv
<1>1. /\ FlowAt(p) /\ AtPlace(p) /\ SnapshotAt(p)' /\ p[1] \in Nat /\ cur.gen \in Nat
      /\ mem[p].cur.gen \in Nat /\ cur'.gen \in Nat
    <2>1. TypeOK'
        BY TypeStep DEF Next
    <2>2. cur'.gen \in Nat
        BY <2>1, Constants DEF TypeOK, Current
    <2>. QED BY <2>2, Flow, Basics, OwnSnapshot
<1>2. SUFFICES ASSUME MaxLive = 2, pc'[p] \in LaunchPc, p[1] = cur'.gen
               PROVE  Gone(cur.gen - 1)'
    BY DEF CeilingAt
<1>3. p[1] = cur.gen
    <2>1. mem'[p].cur = mem[p].cur
        BY <1>1, <1>2 DEF FlowAt, LaunchPc, IntentPc, LeasePc
    <2>2. mem[p].cur.gen = p[1]
        BY <1>1, <1>2, <2>1 DEF SnapshotAt, LaunchPc, IntentPc, LeasePc
    <2>. QED BY <1>1, <1>2, <2>2 DEF AtPlace, SnapshotAt, Grows
<1>4. Gone(cur.gen - 1)
    <2>1. CASE pc[p] \in LaunchPc
        BY <1>1, <1>2, <1>3, <2>1 DEF AtPlace, CeilingAt
    <2>2. CASE CheckCapacity(p)
        <3>1. HasCapacity /\ ec2[p[1]] # "terminated"
            BY <1>2, <2>2 DEF CheckCapacity, Check, Goto, At, LaunchPc, IntentPc, TypeOK
        <3>. QED BY <1>2, <1>3, <3>1, CapacityTwo
    <2>. QED BY <1>1, <1>2, <2>1, <2>2 DEF FlowAt
<1>5. cur.gen - 1 >= 0 => cur.gen - 1 \in Gen
    BY Basics, Constants DEF Gen
<1>. QED BY <1>2, <1>3, <1>4, <1>5 DEF Gone, Grows

\* A daemon that a step leaves where it is.
LEMMA Undisturbed ==
    ASSUME IInv, Grows, cur'.gen \in Nat, NEW q \in Daemon, pc'[q] = pc[q], mem'[q] = mem[q],
           pc[q] \in IntentPc => /\ marker' = marker
                                 /\ launches'[q[1] + 1] = launches[q[1] + 1],
           pc[q] = "retireMark" /\ q[1] - 1 \in alarm' => q[1] - 1 \in alarm
    PROVE  AtPlace(q)'
<1>. USE DEF IInv
<1>1. AtPlace(q) /\ q[1] \in Nat /\ cur.gen \in Nat /\ mem[q].cur.gen \in Nat
    BY Basics
<1>2. \A g \in Nat : Gone(g - 1) /\ g \in Gen => Gone(g - 1)'
    BY Constants DEF Gone, Grows, Gen
<1>3. SnapshotAt(q)'
    BY <1>1, <1>2, Basics, Constants DEF AtPlace, SnapshotAt, Grows, TypeOK, Memory, Current
<1>4. IntentAt(q)'
    <2>1. pc[q] \in ProvisionPc => q[1] + 1 \in Gen
        BY Successor
    <2>. QED BY <1>1, <2>1 DEF AtPlace, IntentAt, Grows, ProvisionPc, IntentPc, HandoffPc
<1>5. RetiredAt(q)' /\ AlarmAt(q)'
    BY <1>1, <1>2, Basics DEF AtPlace, RetiredAt, AlarmAt
<1>6. CeilingAt(q)'
    <2>1. SUFFICES ASSUME MaxLive = 2, pc[q] \in LaunchPc, q[1] = cur'.gen
                   PROVE  Gone(cur.gen - 1)'
        BY DEF CeilingAt
    <2>2. q[1] = cur.gen
        BY <1>1, <2>1 DEF AtPlace, SnapshotAt, Grows, LaunchPc, IntentPc, LeasePc
    <2>. QED BY <1>1, <1>2, <2>1, <2>2, Basics DEF AtPlace, CeilingAt
<1>. QED BY <1>3, <1>4, <1>5, <1>6 DEF AtPlace

LEMMA OthersAtPlace ==
    ASSUME IInv, Grows, NEW p \in Daemon, DaemonStep(p), NEW q \in Daemon, q # p
    PROVE  AtPlace(q)'
<1>. USE DEF IInv
<1>1. pc'[q] = pc[q] /\ mem'[q] = mem[q]
    BY LocalOthers
<1>2. cur'.gen \in Nat /\ q[1] \in Nat /\ p[1] \in Nat /\ cur.gen \in Nat
    <2>1. TypeOK'
        BY TypeStep DEF Next
    <2>. QED BY <2>1, Basics, Constants DEF TypeOK, Current
<1>3. AtPlace(q) /\ AtPlace(p)
    OBVIOUS
<1>4. ASSUME pc[q] \in IntentPc
      PROVE  marker' = marker /\ launches'[q[1] + 1] = launches[q[1] + 1]
    <2>1. /\ q[1] + 1 \in Gen /\ marker = q[1] + 1 /\ launches[q[1] + 1] = 0
          /\ ec2[q[1] + 1] = "none"
        BY <1>2, <1>3, <1>4, Successor
           DEF AtPlace, IntentAt, ProvisionPc, Records, Launched, LaunchedAt
    <2>2. CASE ClaimSubmission(p)
        BY <2>1, <2>2, NoneAssumption DEF ClaimSubmission, Unclaimed, ec2Vars
    <2>3. CASE EndProvisioning(p)
        <3>1. pc[p] = "endMarker" /\ launches' = launches
            BY <2>3 DEF EndProvisioning, At, ec2Vars
        <3>2. ec2[p[1] + 1] # "none"
            BY <1>3, <3>1 DEF AtPlace, IntentAt
        <3>. QED BY <2>1, <2>3, <3>1, <3>2 DEF EndProvisioning
    <2>4. CASE RunInstance(p)
        <3>1. pc[p] \in IntentPc
            BY <2>4 DEF RunInstance, At, IntentPc
        <3>. QED BY <1>4, <3>1 DEF OneIntent
    <2>5. CASE UNCHANGED <<marker, launches>>
        BY <2>5
    <2>. QED BY <2>2, <2>3, <2>4, <2>5, QuietDaemon
             DEF shared, ClaimCurrent, TerminatePredecessor, DeleteStatusAlarm,
                 MarkRetirementCompleted, ReconcileSubmission, RecordSubmission,
                 EnsureStatusAlarm, ConditionalHandoff, ec2Vars, genVars
<1>5. ASSUME pc[q] = "retireMark", q[1] - 1 \in alarm'
      PROVE  q[1] - 1 \in alarm
    <2>1. CASE EnsureStatusAlarm(p)
        <3>1. alarm' = alarm \cup {p[1] + 1} /\ ec2[p[1]] # "terminated" /\ p[1] \in Gen
            BY <2>1, Basics DEF EnsureStatusAlarm, At
        <3>2. q[1] <= cur.gen
            BY <1>2, <1>3, <1>5, Basics DEF AtPlace, SnapshotAt, LeasePc
        <3>3. p[1] + 1 # q[1] - 1
            BY <1>2, <3>1, <3>2 DEF Records, OldGone
        <3>. QED BY <1>5, <3>1, <3>3
    <2>2. CASE DeleteStatusAlarm(p)
        BY <1>5, <2>2 DEF DeleteStatusAlarm
    <2>3. CASE alarm' = alarm
        BY <1>5, <2>3
    <2>. QED BY <2>1, <2>2, <2>3, QuietDaemon
             DEF shared, ClaimCurrent, TerminatePredecessor, ClaimSubmission, RunInstance,
                 MarkRetirementCompleted, ReconcileSubmission, RecordSubmission,
                 EndProvisioning, ConditionalHandoff, ec2Vars, genVars
<1>. QED BY <1>1, <1>2, <1>4, <1>5, Undisturbed

LEMMA EnvironmentAtPlace ==
    ASSUME IInv, Grows,
           \/ OperatorStep \/ ConsumeCommand \/ LeaseLapses \/ FaultStep
           \/ \E n \in Gen : Ec2Step(n),
           NEW q \in Daemon
    PROVE  AtPlace(q)'
<1>. USE DEF IInv
<1>1. UNCHANGED <<alarm, cur, marker, launches>>
    BY QuietEnvironment, EnvironmentRecords DEF shared
<1>2. AtPlace(q) /\ cur.gen \in Nat /\ q[1] \in Nat /\ mem[q].cur.gen \in Nat
    BY Basics
<1>3. CASE pc'[q] = pc[q] /\ mem'[q] = mem[q]
    BY <1>1, <1>2, <1>3, Undisturbed
<1>4. CASE /\ pc'[q] \in {"down", "gone", "deferred", "done", "idle", "publish"}
           /\ mem'[q] \in {mem[q], Blank}
    <2>1. /\ Blank.cur.gen = 0 /\ ~Blank.cur.completed /\ ~Blank.retired
        BY DEF Blank, Uninitialized
    <2>2. IntentAt(q)' /\ AlarmAt(q)' /\ CeilingAt(q)'
        BY <1>4 DEF IntentAt, AlarmAt, CeilingAt, LaunchPc, IntentPc
    <2>3. \A g \in Nat : Gone(g - 1) /\ g \in Gen => Gone(g - 1)'
        BY Constants DEF Gone, Grows, Gen
    <2>4. SnapshotAt(q)'
        BY <1>1, <1>2, <1>4, <2>1, <2>3, Basics, Constants
           DEF AtPlace, SnapshotAt, LeasePc, TypeOK, Memory, Current
    <2>5. RetiredAt(q)'
        BY <1>2, <1>4, <2>1, <2>3, Basics DEF AtPlace, RetiredAt, HandoffPc
    <2>. QED BY <2>2, <2>4, <2>5 DEF AtPlace
<1>. QED BY <1>3, <1>4, EnvironmentLocal

LEMMA OneIntentStep == IInv /\ [Next]_vars => OneIntent'
<1>. SUFFICES ASSUME IInv, [Next]_vars, NEW q \in Daemon, NEW r \in Daemon,
                     pc'[q] \in IntentPc, pc'[r] \in IntentPc
              PROVE  q = r
    BY DEF OneIntent
<1>. USE DEF IInv
<1>1. CASE pc[q] \in IntentPc /\ pc[r] \in IntentPc
    BY <1>1 DEF OneIntent
<1>2. ASSUME NEW p \in Daemon, DaemonStep(p), NEW o \in Daemon, o # p,
             pc'[p] \in IntentPc, pc'[o] \in IntentPc
      PROVE  FALSE
    <2>1. pc[o] \in IntentPc /\ IntentAt(o) /\ FlowAt(p) /\ pc \in [Daemon -> Pc]
        BY <1>2, LocalOthers, Flow DEF AtPlace, TypeOK
    <2>2. CASE CheckLastControl(p)
        BY <1>2, <2>1, <2>2 DEF CheckLastControl, Check, At, OneIntent, IntentPc
    <2>3. CASE ClaimSubmission(p)
        <3>1. marker = None
            BY <1>2, <2>1, <2>3 DEF ClaimSubmission, Goto, Unclaimed, IntentPc
        <3>2. marker = o[1] + 1 /\ o[1] + 1 \in Gen
            BY <2>1, Successor DEF IntentAt, ProvisionPc
        <3>. QED BY <3>1, <3>2, NoneAssumption
    <2>. QED BY <1>2, <2>1, <2>2, <2>3 DEF FlowAt
<1>3. ASSUME NEW p \in Daemon, DaemonStep(p)
      PROVE  q = r
    BY <1>1, <1>2, <1>3, LocalOthers
<1>4. CASE UNCHANGED vars
    BY <1>1, <1>4 DEF vars
<1>5. CASE \/ OperatorStep \/ ConsumeCommand \/ LeaseLapses \/ FaultStep
           \/ \E n \in Gen : Ec2Step(n)
    BY <1>1, <1>5, EnvironmentLocal DEF IntentPc
<1>. QED BY <1>3, <1>4, <1>5 DEF Next

-----------------------------------------------------------------------------
(* The invariant is inductive *)

LEMMA InitInv == Init => IInv
<1>. SUFFICES ASSUME Init PROVE IInv
    OBVIOUS
<1>1. TypeOK /\ Placed
    BY InitType, InitPlaced
<1>2. cur.gen = 0 /\ cur.status = "UNINITIALIZED" /\ ~cur.completed
    BY DEF Init, Uninitialized
<1>3. Blank.cur.gen = 0 /\ ~Blank.cur.completed /\ ~Blank.retired
    BY DEF Blank, Uninitialized
<1>4. Records
    <2>1. CurrentShape /\ NothingAhead /\ Covered /\ AlarmsGone /\ CeilingTwo
        BY <1>2, Constants
           DEF Init, CurrentShape, NothingAhead, Covered, AlarmsGone, CeilingTwo, Gone
    <2>2. Launched /\ OldGone
        BY <1>2, Constants DEF Init, Launched, LaunchedAt, OldGone
    <2>. QED BY <2>1, <2>2 DEF Records
<1>5. OneIntent
    BY DEF Init, OneIntent, IntentPc
<1>6. \A p \in Daemon : AtPlace(p)
    BY <1>2, <1>3 DEF Init, AtPlace, SnapshotAt, IntentAt, RetiredAt, AlarmAt, CeilingAt,
       LeasePc, IntentPc, HandoffPc, LaunchPc
<1>. QED BY <1>1, <1>4, <1>5, <1>6 DEF IInv

LEMMA InvStep == IInv /\ [Next]_vars => IInv'
<1>. SUFFICES ASSUME IInv, [Next]_vars PROVE IInv'
    OBVIOUS
<1>1. TypeOK' /\ Placed' /\ Records' /\ OneIntent' /\ Grows
    BY TypeStep, PlacedStep, RecordsStep, OneIntentStep, GrowsStep DEF IInv
<1>2. ASSUME NEW q \in Daemon PROVE AtPlace(q)'
    <2>1. ASSUME NEW p \in Daemon, DaemonStep(p) PROVE AtPlace(q)'
        <3>1. CASE q = p
            BY <1>1, <2>1, <3>1, OwnSnapshot, OwnIntent, OwnRetired, OwnAlarm, OwnCeiling
               DEF AtPlace
        <3>. QED BY <1>1, <2>1, <3>1, OthersAtPlace
    <2>2. CASE UNCHANGED vars
        <3>1. cur'.gen \in Nat
            BY <2>2, Basics DEF IInv, vars
        <3>. QED BY <1>1, <2>2, <3>1, Undisturbed DEF vars, ec2Vars
    <2>. QED BY <1>1, <2>1, <2>2, EnvironmentAtPlace DEF Next
<1>. QED BY <1>1, <1>2 DEF IInv

\* The records, EC2 and the daemons' places always agree as IInv says.
THEOREM Invariance == Spec => []IInv
BY InitInv, InvStep, PTL DEF Spec

-----------------------------------------------------------------------------
(* What follows from the invariant *)

\* No crash, lost answer, stall, duplicate daemon or stop makes a generation be
\* requested twice: claim_submission's SUBMISSION record outlives them.
THEOREM LaunchOnce == Spec => []OneLaunchPerGeneration
<1>1. IInv => OneLaunchPerGeneration
    BY DEF IInv, Records, Launched, LaunchedAt, OneLaunchPerGeneration
<1>. QED BY <1>1, Invariance, PTL

\* Without the provisioning marker nothing unrecorded exists or can appear.
THEOREM MarkerCovers == Spec => []MarkerCoversLaunch
<1>1. IInv => MarkerCoversLaunch
    BY DEF IInv, Records, Covered, MarkerCoversLaunch, AtPlace, IntentAt, IntentPc
<1>. QED BY <1>1, Invariance, PTL

LEMMA WindowInv == IInv => LiveWindow
<1>. SUFFICES ASSUME IInv, NEW g \in Occupying PROVE g \in (cur.gen - 1)..(cur.gen + 1)
    BY DEF LiveWindow
<1>. USE DEF IInv, Records
<1>1. /\ g \in Gen /\ g \in Nat /\ cur.gen \in Nat
      /\ ec2[g] # "terminated" /\ (ec2[g] # "none" \/ g \in inflight)
    BY Basics, Constants DEF Occupying, Alive, Launched, LaunchedAt
<1>2. ~(g < cur.gen - 1)
    BY <1>1 DEF OldGone
<1>3. ~(g > cur.gen + 1)
    BY <1>1 DEF NothingAhead, Launched, LaunchedAt
<1>. QED BY <1>1, <1>2, <1>3

\* Whatever fails, only CURRENT's generation and its two neighbours are alive.
THEOREM Window == Spec => []LiveWindow
BY WindowInv, Invariance, PTL

\* A recorded retirement is true, and leaves no alarm behind.
THEOREM RetirementTrue == Spec => []RetirementRecordTrue
<1>1. IInv => RetirementRecordTrue
    BY Basics DEF IInv, Records, CurrentShape, OldGone, AlarmsGone, Gone,
       RetirementRecordTrue
<1>. QED BY <1>1, Invariance, PTL

LEMMA AtMostThree ==
    ASSUME NEW S, NEW a, NEW b, NEW c, S \subseteq {a, b, c}
    PROVE  IsFiniteSet(S) /\ Cardinality(S) <= 3 /\ (c \notin S => Cardinality(S) <= 2)
<1>1. /\ IsFiniteSet({a}) /\ Cardinality({a}) = 1
    BY FS_Singleton
<1>2. IsFiniteSet({a, b}) /\ Cardinality({a, b}) <= 2
    <2>1. {a, b} = {a} \cup {b}
        OBVIOUS
    <2>. QED BY <1>1, <2>1, FS_AddElement
<1>3. IsFiniteSet({a, b, c}) /\ Cardinality({a, b, c}) <= 3
    <2> DEFINE T == {a, b}
    <2>1. {a, b, c} = T \cup {c}
        OBVIOUS
    <2>2. IsFiniteSet(T) /\ Cardinality(T) \in Nat /\ Cardinality(T) <= 2
        BY <1>2, FS_CardinalityType
    <2>. HIDE DEF T
    <2>3. /\ IsFiniteSet(T \cup {c})
          /\ Cardinality(T \cup {c}) = Cardinality(T) \/ Cardinality(T \cup {c}) = Cardinality(T) + 1
        BY <2>2, FS_AddElement
    <2>. QED BY <2>1, <2>2, <2>3
<1>4. IsFiniteSet(S) /\ Cardinality(S) <= Cardinality({a, b, c})
    BY <1>3, FS_Subset
<1>5. c \notin S => Cardinality(S) <= Cardinality({a, b})
    <2>1. c \notin S => S \subseteq {a, b}
        OBVIOUS
    <2>. QED BY <1>2, <2>1, FS_Subset
<1>6. Cardinality(S) \in Nat /\ Cardinality({a, b}) \in Nat /\ Cardinality({a, b, c}) \in Nat
    BY <1>2, <1>3, <1>4, FS_CardinalityType
<1>. QED BY <1>2, <1>3, <1>4, <1>5, <1>6

\* max_live_generations bounds the instances and unresolved launches together,
\* for both ceilings the code accepts.
THEOREM Ceiling == Spec => []LiveCeiling
<1>1. ASSUME IInv PROVE LiveCeiling
    <2>. USE <1>1 DEF IInv, Records
    <2> DEFINE c == cur.gen
    <2>1. c \in Nat
        BY Basics
    <2>2. Occupying \subseteq {c, c - 1, c + 1} /\ Occupying \subseteq {c, c + 1, c - 1}
        BY <2>1, WindowInv DEF LiveWindow
    <2>3. CASE MaxLive = 3
        BY <2>2, <2>3, AtMostThree DEF LiveCeiling
    <2>4. CASE MaxLive = 2
        <3>1. CASE c + 1 \notin Occupying
            BY <2>2, <2>4, <3>1, AtMostThree DEF LiveCeiling
        <3>2. CASE c + 1 \in Occupying
            <4>1. c + 1 \in Gen /\ launches[c + 1] > 0
                BY <2>1, <3>2 DEF Occupying, Alive, Launched, LaunchedAt
            <4>2. Gone(c - 1)
                BY <2>4, <4>1 DEF CeilingTwo
            <4>3. c - 1 \notin Occupying
                BY <2>1, <4>2, Constants DEF Occupying, Alive, Gone, Launched, LaunchedAt
            <4>. QED BY <2>2, <2>4, <4>3, AtMostThree DEF LiveCeiling
        <3>. QED BY <3>1, <3>2
    <2>. QED BY <2>3, <2>4, MaxLiveAssumption
<1>. QED BY <1>1, Invariance, PTL

-----------------------------------------------------------------------------
(* What a step may do *)

\* The only termination the code ever asks for.
LEMMA RetireFacts ==
    ASSUME IInv, NEW p \in Daemon, TerminatePredecessor(p)
    PROVE  /\ p[1] - 1 \in Gen /\ cur' = cur /\ inflight' = inflight /\ launches' = launches
           /\ \A g \in Gen : g # p[1] - 1 => ec2'[g] = ec2[g]
           /\ \/ ec2[p[1] - 1] = "terminated" /\ ec2' = ec2
              \/ /\ ec2[p[1] - 1] # "none" /\ ec2'[p[1] - 1] = "shutting-down"
                 /\ cur.gen = p[1] /\ cur.authorized /\ ~cur.completed
<1> DEFINE old == p[1] - 1
<1>. USE DEF IInv, Records
<1>1. /\ p[1] \in Nat /\ cur.gen \in Nat /\ mem[p].cur.gen \in Nat
      /\ pc[p] = "terminate" /\ p[1] > 0 /\ old \in Gen
    BY Basics, Constants DEF TerminatePredecessor, At, Placed, PlacedAt, RetirePc, Gen
<1>2. p[1] <= cur.gen
    BY <1>1 DEF AtPlace, SnapshotAt, LeasePc
<1>3. /\ ec2' = [ec2 EXCEPT ![old] =
                    IF ec2[old] = "terminated" THEN ec2[old] ELSE "shutting-down"]
      /\ cur' = cur /\ inflight' = inflight /\ launches' = launches
    BY DEF TerminatePredecessor
<1>4. ASSUME ec2[old] # "terminated"
      PROVE  /\ cur.gen = p[1] /\ cur.authorized /\ ~cur.completed /\ ec2[old] # "none"
    <2>1. cur.gen = p[1]
        BY <1>1, <1>2, <1>4 DEF OldGone
    <2>. QED BY <1>1, <1>4, <2>1 DEF OldGone, Gone, CurrentShape, Launched, LaunchedAt
<1>. QED BY <1>1, <1>3, <1>4 DEF TypeOK

\* Only CURRENT's predecessor is ever terminated, while CURRENT authorises it.
THEOREM RetirementAccepted == Spec => RetireOnlyAccepted
<1> DEFINE A == \A g \in Gen :
                   ec2[g] \in {"pending", "running"} /\ ec2'[g] = "shutting-down"
                      => cur.gen = g + 1 /\ cur.authorized /\ ~cur.completed
<1>1. ASSUME IInv, [Next]_vars PROVE [A]_vars
    <2>. USE <1>1
    <2>1. CASE ec2' = ec2
        BY <2>1
    <2>2. ASSUME NEW p \in Daemon, DaemonStep(p) PROVE A
        <3>1. CASE TerminatePredecessor(p)
            BY <3>1, RetireFacts, Basics DEF IInv
        <3>2. CASE ec2' = ec2
            BY <2>1, <3>2
        <3>. QED BY <2>2, <3>1, <3>2, QuietDaemon
                 DEF shared, ClaimCurrent, DeleteStatusAlarm, MarkRetirementCompleted,
                     ReconcileSubmission, ClaimSubmission, RunInstance, RecordSubmission,
                     EndProvisioning, EnsureStatusAlarm, ConditionalHandoff, ec2Vars
    <2>3. ASSUME NEW n \in Gen, \/ AcceptLaunch(n) \/ InventoryShows(n) \/ InstanceRuns(n)
                                \/ (InstanceEnds(n) /\ ec2[n] # "none") \/ RejectLaunch(n)
          PROVE  A
        BY <2>3 DEF IInv, TypeOK, AcceptLaunch, InventoryShows, InstanceRuns, InstanceEnds,
                    RejectLaunch
    <2>4. CASE UNCHANGED shared
        BY <2>1, <2>4 DEF shared
    <2>. QED BY <2>2, <2>3, <2>4, QuietEnvironment DEF Next
<1>. QED BY <1>1, Invariance, PTL DEF Spec, RetireOnlyAccepted

\* Every way CURRENT's generation can change is a handoff.
LEMMA OnlyHandoff ==
    ASSUME IInv, [Next]_vars, cur'.gen # cur.gen
    PROVE  \E p \in Daemon : ConditionalHandoff(p) /\ cur' # cur
<1>1. ASSUME NEW p \in Daemon, DaemonStep(p) PROVE ConditionalHandoff(p)
    BY <1>1, QuietDaemon, CurrentRecords
       DEF shared, TerminatePredecessor, DeleteStatusAlarm, ReconcileSubmission,
           ClaimSubmission, RunInstance, RecordSubmission, EndProvisioning,
           EnsureStatusAlarm
<1>2. UNCHANGED vars => FALSE
    BY DEF vars
<1>. QED BY <1>1, <1>2, QuietEnvironment, EnvironmentRecords DEF Next, shared

\* Ownership moves one generation at a time, to a launched successor, after the
\* older instances are terminated, and only through open gates.
THEOREM HandoffSafe == Spec => HandoffAfterRetirement
<1> DEFINE A == cur'.gen # cur.gen =>
                   /\ cur'.gen = cur.gen + 1 /\ launches[cur'.gen] = 1
                   /\ \A g \in 0..(cur.gen - 1) : ec2[g] = "terminated"
                   /\ Open
<1>1. ASSUME IInv, [Next]_vars, cur'.gen # cur.gen
      PROVE  /\ cur'.gen = cur.gen + 1 /\ launches[cur'.gen] = 1
             /\ \A g \in 0..(cur.gen - 1) : ec2[g] = "terminated"
             /\ Open
    <2>1. PICK p \in Daemon : ConditionalHandoff(p) /\ cur' # cur
        BY <1>1, OnlyHandoff
    <2>2. cur.gen \in Gen /\ \A g \in 0..(cur.gen - 1) : g \in Gen /\ g < cur.gen
        BY <1>1, Basics, Constants DEF IInv, Gen
    <2>. QED BY <1>1, <2>1, <2>2, HandoffFacts
<1>2. IInv /\ [Next]_vars => [A]_vars
    BY <1>1
<1>. QED BY <1>2, Invariance, PTL DEF Spec, HandoffAfterRetirement

-----------------------------------------------------------------------------
(* The chain implements Lineage *)

lineage == <<cur.gen, [g \in Gen |-> LifeOf(g)]>>

\* What LifeOf says in a state that satisfies the invariant.
LEMMA Lives ==
    ASSUME IInv, NEW g \in Gen
    PROVE  /\ LifeOf(g) = "absent" <=> g > 0 /\ launches[g] = 0
           /\ ec2[g] = "terminated" => LifeOf(g) = "gone"
           /\ ec2[g] = "shutting-down" => LifeOf(g) = "retiring"
           /\ ec2[g] \in {"pending", "running"} => LifeOf(g) = "present"
           /\ g \in inflight => LifeOf(g) = "present"
           /\ ec2[g] = "none" /\ g \notin inflight /\ launches[g] = 1 => LifeOf(g) = "gone"
<1>1. g \in Nat /\ launches[g] \in Nat /\ LaunchedAt(g) /\ ec2[g] \in InstanceState
    BY Basics, Constants DEF IInv, Records, Launched, TypeOK
<1>. QED BY <1>1 DEF LifeOf, LaunchedAt, InstanceState

\* One life changes, the others and the owner do not.
LEMMA OneLife ==
    ASSUME cur' = cur, NEW n \in Gen,
           \A g \in Gen \ {n} : /\ ec2'[g] = ec2[g] /\ launches'[g] = launches[g]
                                /\ g \in inflight' <=> g \in inflight
    PROVE  /\ cur'.gen = cur.gen
           /\ [g \in Gen |-> LifeOf(g)]'
                 = [[g \in Gen |-> LifeOf(g)] EXCEPT ![n] = LifeOf(n)']
BY DEF LifeOf

LEMMA LaunchMaps ==
    ASSUME IInv, IInv', NEW p \in Daemon, RunInstance(p)
    PROVE  Abstract!Launch(p[1] + 1) /\ p[1] + 1 \in Gen
<1> DEFINE n == p[1] + 1
<1>. USE DEF IInv
<1>1. n \in Gen /\ p[1] \in Nat /\ cur.gen \in Nat /\ mem[p].cur.gen \in Nat /\ pc[p] = "run"
    BY Successor, Basics DEF RunInstance, At, ProvisionPc, IntentPc
<1>2. launches[n] = 0
    BY <1>1 DEF AtPlace, IntentAt, IntentPc
<1>3. n = cur.gen + 1
    <2>1. p[1] <= cur.gen
        BY <1>1 DEF AtPlace, SnapshotAt, LeasePc
    <2>2. ~(n <= cur.gen)
        BY <1>1, <1>2 DEF Records, Launched, LaunchedAt
    <2>. QED BY <1>1, <2>1, <2>2
<1>4. /\ cur' = cur /\ ec2' = ec2 /\ inflight' = inflight \cup {n}
      /\ launches' = [launches EXCEPT ![n] = launches[n] + 1]
    BY DEF RunInstance
<1>5. LifeOf(n) = "absent"
    BY <1>1, <1>2, Lives
<1>6. LifeOf(n)' = "present"
    BY <1>4 DEF LifeOf
<1>7. \A g \in Gen \ {n} : /\ ec2'[g] = ec2[g] /\ launches'[g] = launches[g]
                           /\ g \in inflight' <=> g \in inflight
    BY <1>1, <1>4 DEF TypeOK
<1>. QED BY <1>1, <1>3, <1>4, <1>5, <1>6, <1>7, OneLife DEF Abstract!Launch, Abstract!Becomes

LEMMA RetireMaps ==
    ASSUME IInv, IInv', NEW p \in Daemon, TerminatePredecessor(p)
    PROVE  UNCHANGED lineage \/ \E g \in Gen : Abstract!Retire(g)
<1> DEFINE old == p[1] - 1
<1>1. /\ old \in Gen /\ cur' = cur /\ inflight' = inflight /\ launches' = launches
      /\ \A g \in Gen : g # old => ec2'[g] = ec2[g]
    BY RetireFacts
<1>2. /\ cur'.gen = cur.gen
      /\ [g \in Gen |-> LifeOf(g)]'
            = [[g \in Gen |-> LifeOf(g)] EXCEPT ![old] = LifeOf(old)']
    BY <1>1, OneLife
<1>3. CASE ec2' = ec2
    BY <1>1, <1>3 DEF lineage, LifeOf
<1>4. CASE ec2' # ec2
    <2>1. /\ ec2[old] # "none" /\ ec2[old] # "terminated" /\ cur.gen = p[1]
          /\ ec2'[old] = "shutting-down"
        <3>1. ec2[old] # "terminated"
            <4>1. ec2[old] = "terminated" => ec2' = ec2
                BY DEF TerminatePredecessor, IInv, TypeOK
            <4>. QED BY <1>4, <4>1
        <3>. QED BY <1>4, <3>1, RetireFacts
    <2>2. LifeOf(old)' = "retiring"
        BY <1>1, <2>1, Lives DEF LifeOf, IInv, Records, Launched, LaunchedAt
    <2>3. CASE ec2[old] = "shutting-down"
        <3>1. LifeOf(old) = "retiring"
            BY <1>1, <2>3, Lives
        <3>. QED BY <1>1, <1>2, <2>2, <3>1 DEF lineage
    <2>4. CASE ec2[old] \in {"pending", "running"}
        <3>1. LifeOf(old) = "present" /\ old = cur.gen - 1
            BY <1>1, <2>1, <2>4, Lives
        <3>. QED BY <1>1, <1>2, <2>2, <3>1 DEF Abstract!Retire, Abstract!Becomes
    <2>. QED BY <1>1, <2>1, <2>3, <2>4 DEF IInv, TypeOK, InstanceState
<1>. QED BY <1>3, <1>4

LEMMA HandoffMaps ==
    ASSUME IInv, IInv', NEW p \in Daemon, ConditionalHandoff(p)
    PROVE  UNCHANGED lineage \/ Abstract!HandOver
<1>1. UNCHANGED <<ec2, inflight, launches>>
    BY DEF ConditionalHandoff, ec2Vars
<1>2. [g \in Gen |-> LifeOf(g)]' = [g \in Gen |-> LifeOf(g)]
    BY <1>1 DEF LifeOf
<1>3. CASE cur' = cur
    BY <1>2, <1>3 DEF lineage
<1>4. CASE cur' # cur
    <2>1. /\ cur.gen = p[1] /\ p[1] + 1 \in Gen /\ cur'.gen = p[1] + 1
          /\ launches[p[1] + 1] = 1
          /\ \A g \in Gen : g < cur.gen => ec2[g] = "terminated"
        BY <1>4, HandoffFacts
    <2>2. cur.gen \in Nat /\ cur.gen < LastGen /\ cur.gen + 1 \in Gen
        BY <2>1, Basics, Constants DEF IInv, Gen
    <2>3. LifeOf(cur.gen + 1) # "absent"
        BY <2>1, <2>2, Lives
    <2>4. \A g \in 0..(cur.gen - 1) : g \in Gen /\ LifeOf(g) = "gone"
        BY <2>1, <2>2, Lives, Constants DEF Gen
    <2>. QED BY <1>2, <2>1, <2>2, <2>3, <2>4 DEF Abstract!HandOver
<1>. QED BY <1>3, <1>4

LEMMA EnvironmentMaps ==
    ASSUME IInv, IInv', NEW n \in Gen,
           \/ AcceptLaunch(n) \/ InventoryShows(n) \/ InstanceRuns(n)
           \/ (InstanceEnds(n) /\ ec2[n] # "none") \/ RejectLaunch(n)
    PROVE  UNCHANGED lineage \/ \E g \in Gen : Abstract!Finish(g) \/ Abstract!Lose(g)
<1>1. /\ cur' = cur /\ launches' = launches
      /\ \A g \in Gen \ {n} : ec2'[g] = ec2[g] /\ (g \in inflight' <=> g \in inflight)
    BY DEF IInv, TypeOK, AcceptLaunch, InventoryShows, InstanceRuns, InstanceEnds,
           RejectLaunch, opVars
<1>2. /\ cur'.gen = cur.gen
      /\ [g \in Gen |-> LifeOf(g)]'
            = [[g \in Gen |-> LifeOf(g)] EXCEPT ![n] = LifeOf(n)']
    BY <1>1, OneLife
<1>3. CASE LifeOf(n)' = LifeOf(n)
    BY <1>2, <1>3 DEF lineage
<1>4. CASE InventoryShows(n)
    BY <1>3, <1>4 DEF InventoryShows, LifeOf
<1>5. CASE AcceptLaunch(n)
    <2>1. LifeOf(n) = "present" /\ LifeOf(n)' = "present"
        <3>1. n \in inflight /\ ec2[n] = "none" /\ ec2'[n] = "pending"
            BY <1>5 DEF AcceptLaunch, IInv, TypeOK, Records, Launched, LaunchedAt
        <3>. QED BY <3>1 DEF LifeOf
    <2>. QED BY <1>3, <2>1
<1>6. CASE InstanceRuns(n)
    <2>1. ec2[n] = "pending" /\ ec2'[n] = "running"
        BY <1>6 DEF InstanceRuns, IInv, TypeOK
    <2>2. LifeOf(n) = "present" /\ LifeOf(n)' = "present"
        BY <2>1 DEF LifeOf
    <2>. QED BY <1>3, <2>2
<1>7. CASE RejectLaunch(n)
    <2>1. n \in inflight /\ n \notin inflight' /\ ec2'[n] = "none" /\ launches'[n] = 1
        BY <1>7 DEF RejectLaunch, IInv, Records, Launched, LaunchedAt
    <2>2. LifeOf(n) = "present" /\ LifeOf(n)' = "gone"
        BY <2>1 DEF LifeOf
    <2>. QED BY <1>2, <2>2 DEF Abstract!Lose, Abstract!Becomes
<1>8. CASE InstanceEnds(n) /\ ec2[n] # "none"
    <2>1. /\ ec2'[n] = "terminated" /\ n \notin inflight' /\ inflight' = inflight
          /\ n > 0 => launches'[n] = 1
        BY <1>8, Constants DEF InstanceEnds, IInv, TypeOK, Records, Launched, LaunchedAt
    <2>2. LifeOf(n)' = "gone"
        BY <2>1, Constants DEF LifeOf
    <2>3. LifeOf(n) \in {"present", "retiring", "gone"}
        BY <1>8, Lives DEF IInv, TypeOK, InstanceState
    <2>. QED BY <1>2, <1>3, <2>2, <2>3
             DEF Abstract!Finish, Abstract!Lose, Abstract!Becomes
<1>. QED BY <1>4, <1>5, <1>6, <1>7, <1>8

LEMMA StepMaps == IInv /\ IInv' /\ [Next]_vars => [Abstract!Next]_lineage
<1>. SUFFICES ASSUME IInv, IInv', [Next]_vars, ~UNCHANGED lineage PROVE Abstract!Next
    OBVIOUS
<1>. USE DEF Abstract!Next, Abstract!Gen, Gen
<1>1. ASSUME UNCHANGED <<cur, ec2, inflight, launches>> PROVE FALSE
    BY <1>1 DEF lineage, LifeOf
<1>2. ASSUME NEW p \in Daemon, ClaimCurrent(p) \/ MarkRetirementCompleted(p) PROVE FALSE
    BY <1>2, CurrentRecords
       DEF ClaimCurrent, MarkRetirementCompleted, ec2Vars, lineage, LifeOf
<1>3. ASSUME NEW p \in Daemon, DaemonStep(p) PROVE Abstract!Next
    <2>1. CASE RunInstance(p)
        BY <2>1, LaunchMaps
    <2>2. CASE TerminatePredecessor(p)
        BY <2>2, RetireMaps
    <2>3. CASE ConditionalHandoff(p)
        BY <2>3, HandoffMaps
    <2>. QED BY <1>1, <1>2, <1>3, <2>1, <2>2, <2>3, QuietDaemon
             DEF shared, DeleteStatusAlarm, ReconcileSubmission, ClaimSubmission,
                 RecordSubmission, EndProvisioning, EnsureStatusAlarm, ec2Vars
<1>4. CASE UNCHANGED vars
    BY <1>1, <1>4 DEF vars, ec2Vars
<1>. QED BY <1>1, <1>3, <1>4, QuietEnvironment, EnvironmentMaps DEF Next, shared

LEMMA InitMaps == Init => Abstract!Init
<1>. SUFFICES ASSUME Init PROVE Abstract!Init
    OBVIOUS
<1>1. cur.gen = 0
    BY DEF Init, Uninitialized
<1>2. \A g \in Gen : LifeOf(g) = IF g = 0 THEN "present" ELSE "absent"
    BY DEF Init, LifeOf
<1>. QED BY <1>1, <1>2 DEF Abstract!Init, Abstract!Gen, Gen

\* Daemons, records and EC2 together behave as one owner after the other would:
\* every step is a step of Lineage or changes neither ownership nor a life.
THEOREM Refinement == Spec => ImplementsLineage
<1>1. IInv /\ IInv' /\ [Next]_vars
         => [Abstract!Next]_<<cur.gen, [g \in Gen |-> LifeOf(g)]>>
    BY StepMaps DEF lineage
<1>. QED BY <1>1, InitMaps, Invariance, PTL DEF Spec, ImplementsLineage, Abstract!Spec

-----------------------------------------------------------------------------
(* The terminal owner: the version of CONTROL under which an owner works *)

\* retire_predecessor works only under the version that the handoff wrote to CURRENT;
\* generation zero, which retires nobody, under any.
OwnerPins == IF cur.gen = 0 THEN Pins ELSE {cur.pins}
VersionAt(p) ==
    /\ mem[p].cur.gen = cur.gen /\ cur.gen > 0 => mem[p].cur.pins = cur.pins
    /\ pc[p] \in LeasePc \ {"recheck", "retire"} => p[1] = 0 \/ mem[p].cur.pins = mem[p].pins

\* An owner that has ended was at the boundary, with its predecessor gone; one that
\* launches is not.
EndPlaces == {"finished", "done"}
EndAt(p) ==
    pc[p] \in EndPlaces =>
        /\ p[1] <= cur.gen
        /\ p[1] = cur.gen => /\ Gone(cur.gen - 1)
                             /\ \E v \in OwnerPins : cur.gen >= MaxGeneration[v]
Launching ==
    \A g \in Gen : g = cur.gen + 1 /\ launches[g] > 0 =>
        \E v \in OwnerPins : cur.gen < MaxGeneration[v]
Ends == Launching /\ \A p \in Daemon : VersionAt(p) /\ EndAt(p)

\* How a process reaches the places that Ends speaks of
EndFlowAt(p) ==
    /\ pc'[p] \in LeasePc \ {"recheck", "retire"} =>
          \/ pc[p] \in LeasePc \ {"recheck", "retire"} /\ mem'[p].pins = mem[p].pins
          \/ CheckOwnership(p) \/ RetirePredecessor(p)
    /\ pc'[p] \in EndPlaces =>
          \/ pc[p] \in EndPlaces \/ CheckOwnership(p) \/ RetirePredecessor(p)
          \/ MarkRetirementCompleted(p) \/ ConditionalHandoff(p)

LEMMA EndFlow ==
    ASSUME TypeOK, NEW p \in Daemon, DaemonStep(p)
    PROVE  EndFlowAt(p)
<1>1. /\ pc \in [Daemon -> Pc] /\ mem \in [Daemon -> Memory] /\ mem[p] \in Memory
    BY DEF TypeOK
<1>. USE <1>1 DEF EndFlowAt, EndPlaces, At, Goto, Remember, Forget, LeasePc, ec2Vars, opVars,
         genVars
<1>2. CASE Start(p)
    <2>1. CASE Boot(p)
        BY <2>1 DEF Boot
    <2>2. CASE ClaimCurrent(p)
        BY <2>2 DEF ClaimCurrent
    <2>3. CASE ReadCycleSnapshot(p)
        BY <2>3 DEF ReadCycleSnapshot
    <2>4. CASE InvokeHold(p)
        BY <2>4 DEF InvokeHold
    <2>. QED BY <1>2, <2>1, <2>2, <2>3, <2>4 DEF Start
<1>3. CASE Publish(p)
    <2>1. CASE ProbeCapacity(p)
        BY <2>1 DEF ProbeCapacity, Probe
    <2>2. CASE ProbeControl(p)
        BY <2>2 DEF ProbeControl, Probe
    <2>3. CASE ProbeFinal(p)
        BY <2>3 DEF ProbeFinal, Probe
    <2>4. CASE WriteHeartbeat(p)
        BY <2>4 DEF WriteHeartbeat
    <2>. QED BY <1>3, <2>1, <2>2, <2>3, <2>4 DEF Publish
<1>4. CASE HoldLease(p)
    <2>1. CASE AcquireLease(p)
        BY <2>1 DEF AcquireLease
    <2>2. CASE ReleaseLease(p)
        BY <2>2 DEF ReleaseLease, EndPc
    <2>3. CASE CheckOwnership(p)
        BY <2>3
    <2>. QED BY <1>4, <2>1, <2>2, <2>3 DEF HoldLease
<1>5. CASE Retire(p)
    <2>1. CASE RetirePredecessor(p)
        BY <2>1
    <2>6. CASE MarkRetirementCompleted(p)
        <3>1. pc[p] = "retireMark" /\ mem'[p].pins = mem[p].pins
            BY <2>6 DEF MarkRetirementCompleted, Memory
        <3>. QED BY <2>6, <3>1
    <2>2. CASE DescribePredecessor(p)
        BY <2>2 DEF DescribePredecessor, Check, AfterRetire
    <2>3. CASE CheckRetirementControl(p)
        BY <2>3 DEF CheckRetirementControl, Check
    <2>4. CASE TerminatePredecessor(p)
        BY <2>4 DEF TerminatePredecessor, AfterRetire
    <2>5. CASE DeleteStatusAlarm(p)
        BY <2>5 DEF DeleteStatusAlarm
    <2>. QED BY <1>5, <2>1, <2>2, <2>3, <2>4, <2>5, <2>6 DEF Retire
<1>6. CASE Provision(p)
    <2>1. CASE FindSuccessor(p) \/ CheckCapacity(p) \/ CheckProvisionControl(p)
        BY <2>1 DEF FindSuccessor, CheckCapacity, CheckProvisionControl, Check
    <2>2. CASE ReconcileSubmission(p)
        BY <2>2 DEF ReconcileSubmission
    <2>3. CASE RenewForProvision(p)
        BY <2>3 DEF RenewForProvision, RenewLease
    <2>4. CASE ClaimSubmission(p)
        BY <2>4 DEF ClaimSubmission
    <2>5. CASE CheckLastControl(p) \/ RunInstanceReturns(p)
        BY <2>5 DEF CheckLastControl, RunInstanceReturns, Check
    <2>6. CASE RunInstance(p)
        BY <2>6 DEF RunInstance
    <2>7. CASE RecordSubmission(p)
        BY <2>7 DEF RecordSubmission
    <2>8. CASE EndProvisioning(p)
        BY <2>8 DEF EndProvisioning
    <2>9. CASE EnsureStatusAlarm(p)
        BY <2>9 DEF EnsureStatusAlarm
    <2>. QED BY <1>6, <2>1, <2>2, <2>3, <2>4, <2>5, <2>6, <2>7, <2>8, <2>9 DEF Provision
<1>7. CASE Handoff(p)
    <2>1. CASE WaitRenew(p)
        BY <2>1 DEF WaitRenew, RenewLease
    <2>2. CASE WaitLook(p)
        BY <2>2 DEF WaitLook, Memory
    <2>3. CASE CheckContinuation(p)
        BY <2>3 DEF CheckContinuation, Check
    <2>4. CASE CheckContinuationControl(p)
        BY <2>4 DEF CheckContinuationControl, RenewLease
    <2>5. CASE ReadCandidate(p)
        BY <2>5 DEF ReadCandidate, RenewLease, Memory
    <2>6. CASE CheckHandoffControl(p)
        BY <2>6 DEF CheckHandoffControl, Memory
    <2>7. CASE ConditionalHandoff(p)
        BY <2>7 DEF ConditionalHandoff
    <2>. QED BY <1>7, <2>1, <2>2, <2>3, <2>4, <2>5, <2>6, <2>7 DEF Handoff
<1>. QED BY <1>2, <1>3, <1>4, <1>5, <1>6, <1>7 DEF DaemonStep

LEMMA EnvironmentEnds ==
    ASSUME TypeOK,
           \/ OperatorStep \/ ConsumeCommand \/ LeaseLapses \/ FaultStep
           \/ \E n \in Gen : Ec2Step(n)
    PROVE  \A q \in Daemon : pc'[q] \in EndPlaces => pc[q] \in EndPlaces
<1>. SUFFICES ASSUME NEW q \in Daemon, pc'[q] \in EndPlaces PROVE pc[q] \in EndPlaces
    OBVIOUS
<1>. USE DEF TypeOK, EndPlaces
<1>1. CASE OperatorStep \/ ConsumeCommand \/ LeaseLapses
    BY <1>1 DEF OperatorStep, RequestSwitch, OperatorHold, ClearHold, EditControl,
                ConsumeCommand, LeaseLapses
<1>2. CASE \E n \in Gen : Ec2Step(n)
    BY <1>2 DEF Ec2Step, AcceptLaunch, InventoryShows, InstanceRuns,
                InstanceTerminates, InstanceEnds
<1>3. ASSUME NEW p \in Daemon, Crash(p) \/ CallFails(p) PROVE pc[q] \in EndPlaces
    BY <1>3 DEF Crash, CallFails, Goto
<1>4. CASE FaultStep
    BY <1>3, <1>4 DEF FaultStep, RejectLaunch, InstanceFails, InstanceEnds, ProofAges,
                      LeaseExpiresUnderHolder
<1>. QED BY <1>1, <1>2, <1>4

\* CURRENT keeps its generation and the version of its handoff, or moves one on.
LEMMA CurrentMoves ==
    ASSUME IInv, [Next]_vars
    PROVE  \/ cur'.gen = cur.gen /\ (cur.gen > 0 => cur'.pins = cur.pins)
           \/ cur'.gen = cur.gen + 1
<1>. USE DEF IInv
<1>1. CASE UNCHANGED shared
    BY <1>1 DEF shared
<1>2. ASSUME NEW p \in Daemon, DaemonStep(p)
      PROVE  \/ cur'.gen = cur.gen /\ (cur.gen > 0 => cur'.pins = cur.pins)
             \/ cur'.gen = cur.gen + 1
    <2>1. CASE ClaimCurrent(p)
        <3>1. cur'.gen = cur.gen
            BY <2>1, CurrentRecords
        <3>2. cur.status = "UNINITIALIZED" => cur.gen = 0
            BY DEF Records, CurrentShape
        <3>. QED BY <2>1, <3>1, <3>2, Basics DEF ClaimCurrent
    <2>2. CASE MarkRetirementCompleted(p)
        BY <2>2 DEF MarkRetirementCompleted, TypeOK, Current
    <2>3. CASE ConditionalHandoff(p)
        BY <2>3, HandoffFacts
    <2>4. CASE \/ TerminatePredecessor(p) \/ DeleteStatusAlarm(p) \/ ReconcileSubmission(p)
               \/ ClaimSubmission(p) \/ RunInstance(p) \/ RecordSubmission(p)
               \/ EndProvisioning(p) \/ EnsureStatusAlarm(p)
        BY <2>4 DEF TerminatePredecessor, DeleteStatusAlarm, ReconcileSubmission,
           ClaimSubmission, RunInstance, RecordSubmission, EndProvisioning,
           EnsureStatusAlarm
    <2>. QED BY <1>1, <1>2, <2>1, <2>2, <2>3, <2>4, QuietDaemon
<1>3. CASE UNCHANGED vars
    BY <1>1, <1>3 DEF vars, ec2Vars, genVars, shared
<1>. QED BY <1>1, <1>2, <1>3, QuietEnvironment, EnvironmentRecords DEF Next

\* Who stands still keeps what Ends says of it.
LEMMA StillEnds ==
    ASSUME IInv, [Next]_vars, NEW q \in Daemon, VersionAt(q), EndAt(q),
           mem'[q] \in {mem[q], Blank},
           pc'[q] \in LeasePc => pc'[q] = pc[q] /\ mem'[q] = mem[q],
           pc'[q] \in EndPlaces => pc[q] \in EndPlaces
    PROVE  VersionAt(q)' /\ EndAt(q)'
<1>1. /\ cur.gen \in Nat /\ q[1] \in Nat /\ mem[q].cur.gen \in Nat /\ Blank.cur.gen = 0
      /\ mem[q].cur.gen <= cur.gen /\ cur.gen \in Gen
    BY Basics DEF IInv, AtPlace, SnapshotAt, Blank, Uninitialized
<1>2. /\ \/ cur'.gen = cur.gen /\ (cur.gen > 0 => cur'.pins = cur.pins)
         \/ cur'.gen = cur.gen + 1
      /\ \A g \in Gen : ec2[g] = "terminated" => ec2'[g] = "terminated"
    BY CurrentMoves, GrowsStep DEF Grows
<1>3. cur.gen - 1 >= 0 => cur.gen - 1 \in Gen
    BY <1>1, Constants DEF Gen
<1>4. VersionAt(q)'
    BY <1>1, <1>2 DEF VersionAt
<1>5. EndAt(q)'
    BY <1>1, <1>2, <1>3 DEF EndAt, Gone, OwnerPins
<1>. QED BY <1>4, <1>5

\* The process that acts: it works under the owner's version and ends at the boundary.
LEMMA OwnVersion ==
    ASSUME IInv, Ends, [Next]_vars, NEW p \in Daemon, DaemonStep(p)
    PROVE  VersionAt(p)'
<1>1. /\ cur.gen \in Nat /\ p[1] \in Nat /\ mem[p].cur.gen \in Nat /\ Blank.cur.gen = 0
      /\ mem[p].cur.gen <= cur.gen /\ mem[p] \in Memory /\ mem \in [Daemon -> Memory]
    BY Basics DEF IInv, AtPlace, SnapshotAt, Blank, Uninitialized, TypeOK
<1>2. FlowAt(p) /\ EndFlowAt(p) /\ VersionAt(p)
    BY Flow, EndFlow DEF IInv, Ends
<1>3. \/ cur'.gen = cur.gen /\ (cur.gen > 0 => cur'.pins = cur.pins)
      \/ cur'.gen = cur.gen + 1
    BY CurrentMoves
<1>4. mem'[p].cur.gen = cur'.gen /\ cur'.gen > 0 => mem'[p].cur.pins = cur'.pins
    <2>1. CASE ReadCycleSnapshot(p)
        BY <1>1, <2>1 DEF ReadCycleSnapshot, Remember, Memory, Blank
    <2>2. CASE mem'[p].cur = mem[p].cur \/ mem'[p] = Blank
        BY <1>1, <1>2, <1>3, <2>2 DEF VersionAt
    <2>. QED BY <1>2, <2>1, <2>2 DEF FlowAt
<1>5. ASSUME pc'[p] \in LeasePc \ {"recheck", "retire"}
      PROVE  p[1] = 0 \/ mem'[p].cur.pins = mem'[p].pins
    <2>1. mem'[p].cur = mem[p].cur
        BY <1>2, <1>5 DEF FlowAt
    <2>2. CASE pc[p] \in LeasePc \ {"recheck", "retire"} /\ mem'[p].pins = mem[p].pins
        BY <1>2, <2>1, <2>2 DEF VersionAt
    <2>3. CASE CheckOwnership(p)
        BY <1>5, <2>3 DEF CheckOwnership, Goto, IInv, TypeOK, LeasePc
    <2>4. CASE RetirePredecessor(p)
        <3>1. mem'[p].pins = mem[p].pins
            BY <1>1, <2>4 DEF RetirePredecessor, Remember, Memory
        <3>2. CASE RetirementEvidence(p) \in {"due", "completed"}
            BY <2>1, <3>1, <3>2 DEF RetirementEvidence
        <3>3. CASE RetirementEvidence(p) \in EndPc
            BY <1>5, <2>4, <3>3 DEF RetirePredecessor, Goto, IInv, TypeOK, LeasePc, EndPc
        <3>. QED BY <2>4, <3>2, <3>3 DEF RetirePredecessor
    <2>. QED BY <1>2, <1>5, <2>2, <2>3, <2>4 DEF EndFlowAt
<1>. QED BY <1>4, <1>5 DEF VersionAt

LEMMA OwnEnd ==
    ASSUME IInv, Ends, [Next]_vars, NEW p \in Daemon, DaemonStep(p)
    PROVE  EndAt(p)'
<1>. SUFFICES ASSUME pc'[p] \in EndPlaces
              PROVE  /\ p[1] <= cur'.gen
                     /\ p[1] = cur'.gen =>
                           /\ Gone(cur.gen - 1)'
                           /\ \E v \in OwnerPins' : cur'.gen >= MaxGeneration[v]
    BY DEF EndAt
<1>1. /\ cur.gen \in Nat /\ p[1] \in Nat /\ cur.gen \in Gen /\ p[1] \in Gen
      /\ mem[p].cur.gen \in Nat /\ mem[p].cur.gen <= cur.gen
      /\ mem \in [Daemon -> Memory] /\ mem[p] \in Memory /\ mem[p].pins \in Pins
      /\ pc \in [Daemon -> Pc] /\ MaxGeneration[mem[p].pins] \in Nat
    BY Basics, Constants DEF IInv, AtPlace, SnapshotAt, TypeOK, Memory
<1>2. VersionAt(p) /\ EndAt(p) /\ EndFlowAt(p) /\ PlacedAt(p) /\ AtPlace(p)
    BY EndFlow DEF IInv, Ends, Placed
<1>3. \/ cur'.gen = cur.gen /\ (cur.gen > 0 => cur'.pins = cur.pins)
      \/ cur'.gen = cur.gen + 1
    BY CurrentMoves
<1>4. /\ \A g \in Gen : ec2[g] = "terminated" => ec2'[g] = "terminated"
      /\ cur.gen - 1 >= 0 => cur.gen - 1 \in Gen
    BY <1>1, GrowsStep, Constants DEF Grows, Gen
<1>5. ASSUME pc[p] \in LeasePc, Gone(p[1] - 1), p[1] >= MaxGeneration[mem[p].pins],
             p[1] = 0 \/ mem[p].cur.pins = mem[p].pins, cur'.gen = cur.gen
      PROVE  /\ p[1] <= cur'.gen
             /\ p[1] = cur'.gen =>
                   /\ Gone(cur.gen - 1)'
                   /\ \E v \in OwnerPins' : cur'.gen >= MaxGeneration[v]
    <2>1. mem[p].cur.gen = p[1] /\ p[1] <= cur.gen
        BY <1>1, <1>2, <1>5 DEF AtPlace, SnapshotAt
    <2>2. ASSUME p[1] = cur.gen PROVE mem[p].pins \in OwnerPins'
        BY <1>1, <1>2, <1>3, <1>5, <2>1, <2>2 DEF VersionAt, OwnerPins
    <2>3. p[1] = cur.gen => Gone(cur.gen - 1)'
        BY <1>1, <1>4, <1>5 DEF Gone
    <2>. QED BY <1>1, <1>5, <2>1, <2>2, <2>3
<1>6. CASE pc[p] \in EndPlaces
    BY <1>1, <1>2, <1>3, <1>4, <1>6 DEF EndAt, Gone, OwnerPins
<1>7. CASE CheckOwnership(p)
    <2>1. /\ pc[p] = "recheck" /\ cur' = cur /\ p[1] = 0 /\ pc'[p] = AfterRetire(p, TRUE)
        BY <1>1, <1>7 DEF CheckOwnership, At, Goto, EndPlaces
    <2>2. p[1] >= MaxGeneration[mem[p].pins]
        BY <2>1 DEF AfterRetire, Boundary, EndPlaces
    <2>3. Gone(p[1] - 1)
        BY <2>1 DEF Gone
    <2>. QED BY <1>5, <2>1, <2>2, <2>3 DEF LeasePc
<1>8. CASE RetirePredecessor(p)
    <2>1. pc[p] = "retire" /\ cur' = cur
        BY <1>8 DEF RetirePredecessor, RenewLease, At
    <2>2. /\ RetirementEvidence(p) = "completed"
          /\ pc'[p] = AfterRetire(p, TRUE)
        BY <1>1, <1>8 DEF RetirePredecessor, RenewLease, Goto, RetirementEvidence, EndPlaces,
           EndPc
    <2>3. mem[p].cur.completed /\ mem[p].cur.pins = mem[p].pins
        BY <2>2 DEF RetirementEvidence
    <2>4. p[1] >= MaxGeneration[mem[p].pins]
        BY <2>2 DEF AfterRetire, Boundary, EndPlaces
    <2>5. Gone(p[1] - 1)
        BY <1>2, <2>1, <2>3 DEF AtPlace, SnapshotAt, LeasePc
    <2>. QED BY <1>5, <2>1, <2>3, <2>4, <2>5 DEF LeasePc
<1>9. CASE MarkRetirementCompleted(p)
    <2>1. /\ pc[p] = "retireMark" /\ pc'[p] = AfterRetire(p, TRUE)
          /\ cur' = [cur EXCEPT !.completed = TRUE]
        BY <1>1, <1>9 DEF MarkRetirementCompleted, At, Goto, EndPlaces
    <2>2. cur'.gen = cur.gen
        BY <2>1 DEF IInv, TypeOK, Current
    <2>3. p[1] >= MaxGeneration[mem[p].pins]
        BY <2>1 DEF AfterRetire, Boundary, EndPlaces
    <2>4. Gone(p[1] - 1) /\ (p[1] = 0 \/ mem[p].cur.pins = mem[p].pins)
        BY <1>2, <2>1 DEF AtPlace, RetiredAt, VersionAt, LeasePc
    <2>. QED BY <1>5, <2>1, <2>2, <2>3, <2>4 DEF LeasePc
<1>10. CASE ConditionalHandoff(p)
    <2>1. cur'.gen = p[1] + 1
        BY <1>1, <1>10 DEF ConditionalHandoff, Goto, EndPlaces
    <2>. QED BY <1>1, <2>1
<1>. QED BY <1>2, <1>6, <1>7, <1>8, <1>9, <1>10 DEF EndFlowAt

LEMMA LaunchingStep == IInv /\ Ends /\ [Next]_vars => Launching'
<1>. SUFFICES ASSUME IInv, Ends, [Next]_vars, NEW g \in Gen,
                     g = cur'.gen + 1, launches'[g] > 0
              PROVE  \E v \in OwnerPins' : cur'.gen < MaxGeneration[v]
    BY DEF Launching
<1>1. cur.gen \in Nat /\ launches[g] \in Nat /\ g \in Nat
    BY Basics, Constants DEF IInv
<1>2. \/ cur'.gen = cur.gen /\ (cur.gen > 0 => cur'.pins = cur.pins)
      \/ cur'.gen = cur.gen + 1
    BY CurrentMoves
<1>3. ASSUME NEW p \in Daemon, RunInstance(p), cur' = cur
      PROVE  \E v \in OwnerPins' : cur'.gen < MaxGeneration[v]
    <2>1. pc[p] = "run" /\ launches' = [launches EXCEPT ![p[1] + 1] = @ + 1]
        BY <1>3 DEF RunInstance, At
    <2>2. /\ p[1] \in Nat /\ mem[p].cur.gen = p[1] /\ mem[p].pins \in Pins
          /\ PlacedAt(p) /\ VersionAt(p)
        BY <2>1, Basics DEF IInv, AtPlace, SnapshotAt, LeasePc, Memory, Placed, Ends
    <2>3. CASE g # p[1] + 1
        <3>1. launches[g] > 0
            BY <2>1, <2>3 DEF IInv, TypeOK
        <3>. QED BY <1>3, <3>1 DEF Ends, Launching, OwnerPins
    <2>4. CASE g = p[1] + 1
        <3>1. p[1] = cur.gen
            BY <1>1, <1>3, <2>2, <2>4
        <3>2. mem[p].pins \in OwnerPins /\ p[1] < MaxGeneration[mem[p].pins]
            BY <2>1, <2>2, <3>1 DEF PlacedAt, VersionAt, OwnerPins, ProvisionPc, IntentPc,
               LeasePc
        <3>. QED BY <1>3, <3>1, <3>2 DEF OwnerPins
    <2>. QED BY <2>3, <2>4
<1>4. ASSUME launches' = launches
      PROVE  \E v \in OwnerPins' : cur'.gen < MaxGeneration[v]
    <2>1. g > cur.gen + 1 => launches[g] = 0
        BY DEF IInv, Records, NothingAhead
    <2>. QED BY <1>1, <1>2, <1>4, <2>1 DEF Ends, Launching, OwnerPins
<1>5. CASE UNCHANGED launches
    BY <1>4, <1>5
<1>6. ASSUME NEW p \in Daemon, DaemonStep(p), ~RunInstance(p) PROVE launches' = launches
    BY <1>6, QuietDaemon DEF shared, ClaimCurrent, TerminatePredecessor, DeleteStatusAlarm,
       MarkRetirementCompleted, ReconcileSubmission, ClaimSubmission, RecordSubmission,
       EndProvisioning, EnsureStatusAlarm, ConditionalHandoff, ec2Vars
<1>7. ASSUME NEW p \in Daemon, RunInstance(p) PROVE cur' = cur
    BY <1>7 DEF RunInstance
<1>8. CASE UNCHANGED vars
    BY <1>5, <1>8 DEF vars, ec2Vars
<1>9. CASE \/ OperatorStep \/ ConsumeCommand \/ LeaseLapses \/ FaultStep
           \/ \E n \in Gen : Ec2Step(n)
    BY <1>5, <1>9, QuietEnvironment, EnvironmentRecords DEF shared, IInv
<1>. QED BY <1>3, <1>5, <1>6, <1>7, <1>8, <1>9 DEF Next

LEMMA EndsStep == IInv /\ Ends /\ [Next]_vars => Ends'
<1>. SUFFICES ASSUME IInv, Ends, [Next]_vars PROVE Ends'
    OBVIOUS
<1>1. ASSUME NEW q \in Daemon PROVE VersionAt(q)' /\ EndAt(q)'
    <2>0. TypeOK /\ VersionAt(q) /\ EndAt(q)
        BY DEF IInv, Ends
    <2>1. CASE UNCHANGED vars
        BY <2>0, <2>1, StillEnds DEF vars
    <2>2. ASSUME NEW p \in Daemon, DaemonStep(p) PROVE VersionAt(q)' /\ EndAt(q)'
        <3>1. CASE q = p
            BY <2>2, <3>1, OwnVersion, OwnEnd
        <3>2. CASE q # p
            BY <2>0, <2>2, <3>2, StillEnds, LocalOthers
        <3>. QED BY <3>1, <3>2
    <2>3. CASE \/ OperatorStep \/ ConsumeCommand \/ LeaseLapses \/ FaultStep
               \/ \E n \in Gen : Ec2Step(n)
        BY <2>0, <2>3, StillEnds, EnvironmentLocal, EnvironmentEnds DEF LeasePc
    <2>. QED BY <2>1, <2>2, <2>3 DEF Next
<1>. QED BY <1>1, LaunchingStep DEF Ends

LEMMA EndsInit == Init => Ends
<1>1. Blank.cur.gen = 0
    BY DEF Blank, Uninitialized
<1>2. Init => cur.gen = 0 /\ \A p \in Daemon : mem[p] = Blank /\ pc[p] = "down"
    BY DEF Init, Uninitialized
<1>3. Init => \A g \in Gen : launches[g] = 0
    BY DEF Init
<1>. QED BY <1>1, <1>2, <1>3 DEF Ends, Launching, VersionAt, EndAt, EndPlaces, LeasePc

\* Whether generation zero is the last does not depend on the version.
OneBeginning == \A v, w \in Pins : MaxGeneration[v] = 0 <=> MaxGeneration[w] = 0

\* The terminal owner ends its process only when every other instance is gone and none
\* can appear, with any number of daemons and whatever edits, stops and faults come
\* between (cycle's "finished").  Generation zero does not compare versions, so an edit
\* that lowers max_generation to zero behind its launch is excluded.
THEOREM TerminalAlone == Spec => [](OneBeginning => TerminalOwnerAlone)
<1>1. ASSUME IInv, Ends, OneBeginning,
             NEW p \in Daemon, pc[p] = "done", IsCurrentOwner(cur, p[1]),
             NEW g \in Occupying
      PROVE  g = cur.gen
    <2>1. /\ cur.gen \in Nat /\ g \in Gen /\ g \in Nat /\ launches[g] \in Nat
          /\ cur.gen \in Gen /\ cur.pins \in Pins
        BY <1>1, Basics, Constants DEF IInv, TypeOK, Current, Occupying
    <2>2. /\ Gone(cur.gen - 1) /\ \E v \in OwnerPins : cur.gen >= MaxGeneration[v]
        BY <1>1 DEF Ends, EndAt, EndPlaces, IsCurrentOwner
    <2>3. ec2[g] # "terminated"
        BY <1>1, <2>1 DEF Occupying, Alive, IInv, Records, Launched, LaunchedAt
    <2>4. g >= cur.gen
        BY <1>1, <2>1, <2>2, <2>3 DEF IInv, Records, OldGone, Gone
    <2>5. g > cur.gen => launches[g] > 0
        BY <1>1, <2>1 DEF Occupying, Alive, IInv, Records, Launched, LaunchedAt
    <2>6. g <= cur.gen + 1
        BY <1>1, <2>1, <2>5 DEF IInv, Records, NothingAhead
    <2>7. ~(\E v \in OwnerPins : cur.gen < MaxGeneration[v])
        <3>1. \A v \in Pins : MaxGeneration[v] \in Nat
            BY Constants
        <3>. QED BY <1>1, <2>1, <2>2, <3>1 DEF OwnerPins, OneBeginning
    <2>. QED BY <1>1, <2>1, <2>4, <2>5, <2>6, <2>7 DEF Ends, Launching
<1>2. IInv /\ Ends => (OneBeginning => TerminalOwnerAlone)
    BY <1>1 DEF TerminalOwnerAlone
<1>. QED BY <1>2, EndsInit, EndsStep, Invariance, PTL DEF Spec

-----------------------------------------------------------------------------
(* Undisturbed daemons: NoSelfInflictedHold *)

\* One process per instance, and an operator who neither holds nor cleans up
Undisputed ==
    (\A c, d \in Copies : c = d) /\ "hold" \notin Moves /\ "cleanup" \notin Moves

\* What an ownership record says of the boundary is computed from its own version.
Evidence(c) ==
    c.gen > 0 => c.authorized /\ c.boundary = (c.gen >= MaxGeneration[c.pins])

\* The owner is its only process and keeps its lease, an expired one too, since nobody
\* else may take it; no ERROR is ever written.
PeaceAt(p) ==
    /\ pc[p] \notin {"violated", "hold"} /\ state[p[1]].status # "ERROR"
    /\ pc[p] \in LeasePc => HoldsLease(p)
    /\ pc[p] \in LeasePc \cup {"acquire"} => IsCurrentOwner(mem[p].cur, p[1])
    /\ pc[p] \notin EndPc /\ IsCurrentOwner(mem[p].cur, p[1]) => IsCurrentOwner(cur, p[1])
    /\ pc[p] = "claimCurrent" => cur.status = "UNINITIALIZED"
    /\ Evidence(mem[p].cur)
Gates == ~hold /\ ~cleaning /\ "cleanup" \notin switches
Beginning == cur.status = "UNINITIALIZED" => \A g \in Gen : launches[g] = 0
Peace == Gates /\ Evidence(cur) /\ Beginning /\ \A p \in Daemon : PeaceAt(p)

\* Every daemon step keeps the gates, raises no violation and loses nobody's lease, but
\* for the two steps that change hands.
PeacefulAt(p) ==
    /\ pc'[p] \notin {"violated", "hold"}
    /\ pc[p] \in EndPc => mem'[p] = Blank
    /\ pc'[p] \in LeasePc => pc[p] \in LeasePc \/ AcquireLease(p)
    /\ UNCHANGED <<hold, cleaning, switches>>
    /\ \A g \in Gen : state[g].status # "ERROR" => state'[g].status # "ERROR"
    /\ \/ AcquireLease(p) \/ ReleaseLease(p)
       \/ \A q \in Daemon : HoldsLease(q) => HoldsLease(q)'
    /\ pc'[p] = "claimCurrent" => cur.status = "UNINITIALIZED" /\ cur' = cur

LEMMA LeaseRenewed ==
    ASSUME TypeOK, lease # None, lease' = [lease EXCEPT !.expired = FALSE]
    PROVE  \A q \in Daemon : HoldsLease(q) => HoldsLease(q)'
<1>1. lease \in Lease /\ lease' \in Lease /\ lease'.owner = lease.owner
      /\ lease'.stale = lease.stale
    BY DEF TypeOK, Lease
<1>. QED BY <1>1, NoneAssumption DEF HoldsLease

LEMMA RenewPeaceful ==
    ASSUME TypeOK, Gates, NEW p \in Daemon, PeaceAt(p), NEW l \in LeasePc, NEW c,
           NEW n \in LeasePc, RenewLease(p, l, c, n)
    PROVE  PeacefulAt(p)
<1>1. pc[p] = l /\ ~cleaning /\ HoldsLease(p)
    BY DEF RenewLease, At, PeaceAt, Gates
<1>2. lease' = [lease EXCEPT !.expired = FALSE] /\ pc'[p] \in {n, "deferred"}
    BY <1>1 DEF RenewLease, Goto, TypeOK
<1>3. \A q \in Daemon : HoldsLease(q) => HoldsLease(q)'
    BY <1>1, <1>2, LeaseRenewed DEF HoldsLease
<1>. QED BY <1>1, <1>2, <1>3 DEF PeacefulAt, RenewLease, LeasePc, EndPc, opVars, genVars

LEMMA CheckPeaceful ==
    ASSUME TypeOK, NEW p \in Daemon, NEW l \in LeasePc, NEW c,
           NEW n \in LeasePc \cup {"finished", "deferred"}, Check(p, l, c, n)
    PROVE  PeacefulAt(p)
BY DEF Check, At, Goto, TypeOK, PeacefulAt, HoldsLease, LeasePc, EndPc, opVars, genVars

LEMMA AfterRetireEnds ==
    ASSUME NEW p \in Daemon, NEW r \in BOOLEAN
    PROVE  AfterRetire(p, r) \in LeasePc \cup {"finished", "deferred"}
BY DEF AfterRetire, LeasePc

LEMMA Peaceful ==
    ASSUME IInv, Peace, NEW p \in Daemon, DaemonStep(p)
    PROVE  PeacefulAt(p)
<1>1. /\ pc \in [Daemon -> Pc] /\ mem \in [Daemon -> Memory] /\ mem[p] \in Memory
      /\ state \in [Gen -> GenState] /\ p[1] \in Gen /\ p[1] \in Nat /\ TypeOK
      /\ PeaceAt(p) /\ Gates /\ PlacedAt(p)
    BY Basics DEF TypeOK, IInv, Peace, Placed
<1>. USE <1>1 DEF At, Goto, Remember, Forget, ec2Vars, opVars, genVars
<1>2. CASE Start(p)
    <2>1. CASE Boot(p)
        <3>1. cur.status # "CURRENT" => p[1] = 0
            BY <2>1, Constants DEF Boot, Peace, Beginning, IInv, Records, Launched, LaunchedAt,
               TypeOK, Current
        <3>2. cur.status # "CURRENT" => cur.status = "UNINITIALIZED"
            BY DEF TypeOK, Current
        <3>. QED BY <2>1, <3>1, <3>2 DEF Boot, PeacefulAt, HoldsLease, EndPc, LeasePc
    <2>2. CASE ClaimCurrent(p)
        <3>1. IsCurrentOwner(cur', p[1])
            BY <2>2 DEF ClaimCurrent, PeaceAt, Gates, IsCurrentOwner, Uninitialized
        <3>. QED BY <2>2, <3>1 DEF ClaimCurrent, PeacefulAt, HoldsLease, EndPc, LeasePc
    <2>3. CASE ReadCycleSnapshot(p)
        BY <2>3 DEF ReadCycleSnapshot, PeacefulAt, HoldsLease, EndPc, LeasePc
    <2>4. CASE InvokeHold(p)
        BY <2>4 DEF InvokeHold, PeaceAt
    <2>. QED BY <1>2, <2>1, <2>2, <2>3, <2>4 DEF Start
<1>3. CASE Publish(p)
    <2>1. CASE ProbeCapacity(p) \/ ProbeControl(p) \/ ProbeFinal(p)
        BY <2>1 DEF ProbeCapacity, ProbeControl, ProbeFinal, Probe, PeacefulAt, HoldsLease,
           EndPc, LeasePc
    <2>2. CASE WriteHeartbeat(p)
        <3>1. \A g \in Gen : state[g].status # "ERROR" => state'[g].status # "ERROR"
            BY <2>2 DEF WriteHeartbeat, GenState
        <3>. QED BY <2>2, <3>1 DEF WriteHeartbeat, PeacefulAt, PeaceAt, Gates, HoldsLease, EndPc,
                    LeasePc
    <2>. QED BY <1>3, <2>1, <2>2 DEF Publish
<1>4. CASE HoldLease(p)
    <2>1. CASE AcquireLease(p)
        BY <2>1 DEF AcquireLease, PeacefulAt, EndPc
    <2>2. CASE ReleaseLease(p)
        BY <2>2 DEF ReleaseLease, PeacefulAt, PeaceAt, EndPc, LeasePc
    <2>3. CASE CheckOwnership(p)
        BY <2>3, AfterRetireEnds DEF CheckOwnership, PeacefulAt, HoldsLease, EndPc, LeasePc
    <2>. QED BY <1>4, <2>1, <2>2, <2>3 DEF HoldLease
<1>5. CASE Retire(p)
    <2>1. CASE RetirePredecessor(p)
        <3>1. RetirementEvidence(p) # "violated"
            <4>1. mem[p].cur.gen = p[1] /\ p[1] > 0
                BY <2>1 DEF RetirePredecessor, RenewLease, PeaceAt, LeasePc, IsCurrentOwner,
                   PlacedAt, RetirePc
            <4>. QED BY <4>1 DEF RetirementEvidence, PeaceAt, Evidence, Boundary
        <3>2. CASE RenewLease(p, "retire", TRUE, "retireLook")
            BY <3>2, RenewPeaceful DEF LeasePc
        <3>3. CASE ~RenewLease(p, "retire", TRUE, "retireLook")
            <4>1. pc'[p] \in LeasePc \cup {"finished", "deferred"}
                BY <2>1, <3>1, <3>3, AfterRetireEnds
                DEF RetirePredecessor, RetirementEvidence, EndPc
            <4>. QED BY <2>1, <3>3, <4>1 DEF RetirePredecessor, PeacefulAt, HoldsLease, EndPc,
                     LeasePc
        <3>. QED BY <3>2, <3>3
    <2>2. CASE DescribePredecessor(p) \/ CheckRetirementControl(p)
        <3>1. AfterRetire(p, FALSE) \in LeasePc \cup {"finished", "deferred"}
            BY AfterRetireEnds
        <3>. QED BY <2>2, <3>1, CheckPeaceful
                 DEF DescribePredecessor, CheckRetirementControl, LeasePc
    <2>3. CASE TerminatePredecessor(p)
        BY <2>3, AfterRetireEnds DEF TerminatePredecessor, PeacefulAt, HoldsLease, EndPc, LeasePc
    <2>4. CASE DeleteStatusAlarm(p)
        BY <2>4 DEF DeleteStatusAlarm, PeacefulAt, HoldsLease, EndPc, LeasePc
    <2>5. CASE MarkRetirementCompleted(p)
        BY <2>5, AfterRetireEnds DEF MarkRetirementCompleted, PeacefulAt, HoldsLease, EndPc,
           LeasePc
    <2>. QED BY <1>5, <2>1, <2>2, <2>3, <2>4, <2>5 DEF Retire
<1>6. CASE Provision(p)
    <2>1. CASE \/ FindSuccessor(p) \/ CheckCapacity(p) \/ CheckProvisionControl(p)
               \/ CheckLastControl(p) \/ RunInstanceReturns(p)
        BY <2>1, CheckPeaceful DEF FindSuccessor, CheckCapacity, CheckProvisionControl,
           CheckLastControl, RunInstanceReturns, LeasePc
    <2>2. CASE ReconcileSubmission(p) \/ RecordSubmission(p)
        BY <2>2 DEF ReconcileSubmission, RecordSubmission, PeacefulAt, HoldsLease, EndPc, LeasePc
    <2>3. CASE RenewForProvision(p)
        BY <2>3, RenewPeaceful DEF RenewForProvision, LeasePc
    <2>4. CASE ClaimSubmission(p) \/ RunInstance(p)
        BY <2>4 DEF ClaimSubmission, RunInstance, PeacefulAt, HoldsLease, EndPc, LeasePc
    <2>5. CASE EndProvisioning(p) \/ EnsureStatusAlarm(p)
        BY <2>5 DEF EndProvisioning, EnsureStatusAlarm, PeacefulAt, HoldsLease, EndPc, LeasePc
    <2>. QED BY <1>6, <2>1, <2>2, <2>3, <2>4, <2>5 DEF Provision
<1>7. CASE Handoff(p)
    <2>1. CASE WaitRenew(p) \/ CheckContinuationControl(p) \/ ReadCandidate(p)
        BY <2>1, RenewPeaceful DEF WaitRenew, CheckContinuationControl, ReadCandidate, LeasePc
    <2>2. CASE WaitLook(p)
        BY <2>2 DEF WaitLook, PeacefulAt, HoldsLease, EndPc, LeasePc
    <2>3. CASE CheckContinuation(p)
        BY <2>3, CheckPeaceful DEF CheckContinuation, LeasePc
    <2>4. CASE CheckHandoffControl(p) \/ ConditionalHandoff(p)
        BY <2>4 DEF CheckHandoffControl, ConditionalHandoff, PeacefulAt, HoldsLease, EndPc, LeasePc
    <2>. QED BY <1>7, <2>1, <2>2, <2>3, <2>4 DEF Handoff
<1>. QED BY <1>2, <1>3, <1>4, <1>5, <1>6, <1>7 DEF DaemonStep

\* CURRENT changes hands only at a handoff, keeps what it says of its version, and is
\* claimed before anything is launched.
LEMMA CurrentCalm ==
    ASSUME IInv, Peace, Undisputed, NEW p \in Daemon, DaemonStep(p)
    PROVE  /\ Evidence(cur') /\ Beginning'
           /\ cur.status = "CURRENT" => cur'.status = "CURRENT"
           /\ \/ IsCurrentOwner(cur, p[1]) /\ pc'[p] \in EndPc
              \/ cur' = cur
              \/ cur'.gen = cur.gen /\ (pc[p] = "claimCurrent" \/ cur'.status = cur.status)
<1>1. /\ cur \in Current /\ p[1] \in Nat /\ PeaceAt(p) /\ Evidence(cur) /\ Beginning
      /\ pc \in [Daemon -> Pc] /\ cur.gen \in Nat /\ launches \in [Gen -> Nat]
    BY Basics DEF IInv, TypeOK, Peace
<1>2. CASE cur' = cur /\ launches' = launches
    BY <1>1, <1>2 DEF Beginning
<1>3. CASE ClaimCurrent(p)
    <2>1. cur'.gen = cur.gen /\ launches' = launches /\ pc[p] = "claimCurrent"
        BY <1>3, CurrentRecords DEF ClaimCurrent, ec2Vars, At
    <2>2. cur' = cur \/ (cur'.gen = 0 /\ cur'.status = "CURRENT")
        BY <1>1, <1>3, <2>1 DEF ClaimCurrent, Uninitialized, Records, CurrentShape, IInv, Current
    <2>. QED BY <1>1, <2>1, <2>2 DEF Evidence, Beginning
<1>4. CASE MarkRetirementCompleted(p)
    <2>1. /\ launches' = launches /\ cur'.gen = cur.gen /\ cur'.status = cur.status
          /\ cur'.authorized = cur.authorized /\ cur'.boundary = cur.boundary
          /\ cur'.pins = cur.pins
        BY <1>1, <1>4 DEF MarkRetirementCompleted, ec2Vars, Current
    <2>. QED BY <1>1, <2>1 DEF Evidence, Beginning
<1>5. CASE ConditionalHandoff(p) /\ cur' # cur
    <2>1. /\ cur'.gen = p[1] + 1 /\ cur'.status = "CURRENT" /\ cur'.authorized
          /\ cur'.boundary = (p[1] + 1 >= MaxGeneration[cur'.pins])
          /\ IsCurrentOwner(cur, p[1]) /\ pc'[p] = "finished"
        BY <1>1, <1>5 DEF ConditionalHandoff, HandoffConditions, Boundary, Goto
    <2>. QED BY <2>1 DEF Evidence, Beginning, EndPc
<1>6. CASE RunInstance(p)
    <2>1. cur' = cur /\ cur.status = "CURRENT"
        BY <1>1, <1>6 DEF RunInstance, At, PeaceAt, LeasePc, EndPc, IsCurrentOwner
    <2>. QED BY <1>1, <2>1 DEF Beginning
<1>7. CASE ConditionalHandoff(p) /\ cur' = cur
    BY <1>2, <1>7 DEF ConditionalHandoff, ec2Vars
<1>8. CASE \/ TerminatePredecessor(p) \/ DeleteStatusAlarm(p) \/ ReconcileSubmission(p)
           \/ ClaimSubmission(p) \/ RecordSubmission(p)
           \/ EndProvisioning(p) \/ EnsureStatusAlarm(p)
    BY <1>2, <1>8 DEF TerminatePredecessor, DeleteStatusAlarm, ReconcileSubmission,
       ClaimSubmission, RecordSubmission, EndProvisioning, EnsureStatusAlarm, ec2Vars
<1>. QED BY <1>2, <1>3, <1>4, <1>5, <1>6, <1>7, <1>8, QuietDaemon DEF shared

LEMMA DaemonCalm ==
    ASSUME IInv, Peace, Undisputed, NEW p \in Daemon, DaemonStep(p), NEW q \in Daemon
    PROVE  PeaceAt(q)'
<1>1. /\ PeacefulAt(p) /\ PeaceAt(p) /\ PeaceAt(q) /\ q[1] \in Gen /\ Evidence(cur)
      /\ pc \in [Daemon -> Pc] /\ cur.gen \in Nat /\ q[1] \in Nat /\ p[1] \in Nat /\ TypeOK
    BY Peaceful, Basics DEF IInv, Peace, TypeOK
<1>2. /\ cur.status = "CURRENT" => cur'.status = "CURRENT"
      /\ \/ IsCurrentOwner(cur, p[1]) /\ pc'[p] \in EndPc
         \/ cur' = cur
         \/ cur'.gen = cur.gen /\ (pc[p] = "claimCurrent" \/ cur'.status = cur.status)
    BY CurrentCalm
<1>3. p[1] = q[1] => p = q
    BY DEF Daemon, Undisputed
<1>4. CASE q # p
    <2>1. pc'[q] = pc[q] /\ mem'[q] = mem[q]
        BY <1>1, <1>4, LocalOthers
    <2>2. pc[q] \in LeasePc => HoldsLease(q)'
        <3>1. CASE pc[q] \in LeasePc /\ AcquireLease(p)
            BY <1>1, <1>3, <1>4, <3>1 DEF AcquireLease, At, PeaceAt, IsCurrentOwner, EndPc,
               LeasePc
        <3>2. CASE pc[q] \in LeasePc /\ ReleaseLease(p)
            BY <1>1, <1>4, <3>2 DEF ReleaseLease, PeaceAt, HoldsLease
        <3>. QED BY <1>1, <3>1, <3>2 DEF PeacefulAt, PeaceAt
    <2>3. pc[q] \notin EndPc /\ IsCurrentOwner(mem[q].cur, q[1]) => IsCurrentOwner(cur', q[1])
        BY <1>1, <1>2, <1>3, <1>4 DEF PeaceAt, IsCurrentOwner
    <2>4. pc[q] = "claimCurrent" => cur'.status = "UNINITIALIZED"
        <3>1. ~(pc[q] = "claimCurrent" /\ pc[p] = "claimCurrent")
            BY <1>1, <1>3, <1>4 DEF IInv, Placed, PlacedAt
        <3>. QED BY <1>1, <1>2, <3>1 DEF PeaceAt, IsCurrentOwner
    <2>. QED BY <1>1, <2>1, <2>2, <2>3, <2>4 DEF PeaceAt, PeacefulAt
<1>5. CASE q = p
    <2>1. FlowAt(p)
        BY <1>1, Flow
    <2>2. /\ mem \in [Daemon -> Memory] /\ Blank.cur.gen = 0
          /\ Blank.cur.status = "UNINITIALIZED"
        BY <1>1 DEF TypeOK, Blank, Uninitialized
    <2>3. mem'[p].cur = mem[p].cur \/ mem'[p].cur = Blank.cur
          \/ (mem'[p].cur = cur /\ cur' = cur)
        BY <2>1, <2>2 DEF FlowAt, ReadCycleSnapshot, Remember, Memory, Blank
    <2>4. Evidence(mem'[p].cur)
        BY <1>1, <2>2, <2>3 DEF PeaceAt, Evidence
    <2>5. pc'[p] \in LeasePc \cup {"acquire"} => IsCurrentOwner(mem'[p].cur, p[1])
        <3>1. CASE pc'[p] \in LeasePc
            BY <1>1, <2>1, <3>1 DEF FlowAt, PeaceAt
        <3>2. CASE pc'[p] = "acquire" /\ ReadCycleSnapshot(p)
            BY <1>1, <2>2, <3>2 DEF ReadCycleSnapshot, Remember, Goto, Memory, Blank
        <3>3. CASE pc'[p] = "acquire" /\ WriteHeartbeat(p)
            BY <1>1, <3>3 DEF WriteHeartbeat, Goto
        <3>. QED BY <2>1, <3>1, <3>2, <3>3 DEF FlowAt
    <2>6. ASSUME pc'[p] \notin EndPc, IsCurrentOwner(mem'[p].cur, p[1])
          PROVE  IsCurrentOwner(cur', p[1])
        <3>1. CASE mem'[p].cur = cur /\ cur' = cur
            BY <2>6, <3>1
        <3>2. CASE mem'[p].cur = mem[p].cur
            <4>1. pc[p] \notin EndPc
                BY <1>1, <2>2, <2>6 DEF PeacefulAt, IsCurrentOwner
            <4>2. IsCurrentOwner(cur, p[1])
                BY <1>1, <2>6, <3>2, <4>1 DEF PeaceAt
            <4>. QED BY <1>2, <2>6, <4>2 DEF IsCurrentOwner
        <3>. QED BY <2>2, <2>3, <2>6, <3>1, <3>2 DEF IsCurrentOwner
    <2>7. pc'[p] \in LeasePc => HoldsLease(p)'
        <3>1. CASE AcquireLease(p)
            <4>1. \/ lease' = [owner |-> p, stale |-> FALSE, expired |-> FALSE]
                  \/ pc'[p] = "idle"
                BY <1>1, <3>1 DEF AcquireLease, Goto
            <4>2. [owner |-> p, stale |-> FALSE, expired |-> FALSE] # None
                <5>1. [owner |-> p, stale |-> FALSE, expired |-> FALSE] \in Lease
                    BY DEF Lease
                <5>. QED BY <5>1, NoneAssumption
            <4>. QED BY <4>1, <4>2 DEF HoldsLease, LeasePc
        <3>2. CASE ReleaseLease(p)
            BY <1>1, <3>2 DEF ReleaseLease, Goto, LeasePc
        <3>3. CASE ~AcquireLease(p) /\ ~ReleaseLease(p) /\ pc'[p] \in LeasePc
            BY <1>1, <3>3 DEF PeacefulAt, PeaceAt
        <3>. QED BY <3>1, <3>2, <3>3
    <2>. QED BY <1>1, <1>5, <2>4, <2>5, <2>6, <2>7 DEF PeaceAt, PeacefulAt
<1>. QED BY <1>4, <1>5

LEMMA EnvironmentCalm ==
    ASSUME IInv, Peace, Undisputed,
           \/ OperatorStep \/ ConsumeCommand \/ LeaseLapses \/ FaultStep
           \/ \E n \in Gen : Ec2Step(n)
    PROVE  Peace'
<1>1. TypeOK /\ Gates /\ Evidence(cur) /\ Beginning /\ \A q \in Daemon : PeaceAt(q)
    BY DEF IInv, Peace
<1>2. cur' = cur /\ launches' = launches
    BY QuietEnvironment, EnvironmentRecords DEF shared
<1>3. Gates' /\ state' = state
    <2>1. ASSUME NEW s \in Switch, RequestSwitch(s) PROVE Gates' /\ state' = state
        BY <1>1, <2>1 DEF RequestSwitch, Move, Undisputed, Gates, genVars
    <2>2. ASSUME NEW g, OperatorHold(g) PROVE FALSE
        BY <2>2 DEF OperatorHold, Move, Undisputed
    <2>3. CASE OperatorStep
        BY <1>1, <2>1, <2>2, <2>3 DEF OperatorStep, ClearHold, EditControl, Gates, genVars
    <2>4. CASE ConsumeCommand \/ LeaseLapses
        <3>1. switches # {"cleanup"}
            BY <1>1 DEF Gates
        <3>2. CASE ConsumeCommand
            <4>1. cleaning' = (cleaning \/ switches = {"cleanup"})
                BY <3>2 DEF ConsumeCommand
            <4>2. ~cleaning'
                BY <1>1, <3>1, <4>1 DEF Gates
            <4>. QED BY <1>1, <3>2, <4>2 DEF ConsumeCommand, Gates, genVars
        <3>3. CASE LeaseLapses
            BY <1>1, <3>3 DEF LeaseLapses, Gates, opVars, genVars
        <3>. QED BY <2>4, <3>2, <3>3
    <2>5. ASSUME NEW n \in Gen, Ec2Step(n) PROVE Gates' /\ state' = state
        BY <1>1, <2>5 DEF Ec2Step, AcceptLaunch, InventoryShows, InstanceRuns,
           InstanceTerminates, InstanceEnds, Gates, opVars, genVars
    <2>6. CASE FaultStep
        BY <1>1, <2>6 DEF FaultStep, Crash, CallFails, RejectLaunch, InstanceFails,
           InstanceEnds, ProofAges, LeaseExpiresUnderHolder, Gates, opVars, genVars
    <2>. QED BY <2>3, <2>4, <2>5, <2>6
<1>4. ASSUME NEW q \in Daemon
      PROVE  /\ \/ pc'[q] = pc[q] /\ mem'[q] = mem[q]
                \/ /\ pc'[q] \in {"down", "gone", "deferred", "done", "idle", "publish"}
                   /\ \/ mem'[q] = Blank
                      \/ mem'[q] = mem[q] /\ (pc[q] \notin EndPc \/ pc'[q] \in EndPc)
             /\ HoldsLease(q) /\ pc'[q] \in LeasePc => HoldsLease(q)'
    <2>1. /\ pc \in [Daemon -> Pc] /\ mem \in [Daemon -> Memory] /\ lease \in Lease \cup {None}
        BY <1>1 DEF TypeOK
    <2>2. ASSUME lease # None, lease' = [lease EXCEPT !.expired = TRUE]
          PROVE  HoldsLease(q) => HoldsLease(q)'
        <3>1. lease \in Lease /\ lease' \in Lease /\ lease'.owner = lease.owner
              /\ lease'.stale = lease.stale
            BY <2>1, <2>2 DEF Lease
        <3>. QED BY <3>1, NoneAssumption DEF HoldsLease
    <2>3. lease' = lease => (HoldsLease(q) => HoldsLease(q)')
        BY DEF HoldsLease
    <2>4. CASE OperatorStep \/ ConsumeCommand
        BY <2>3, <2>4 DEF OperatorStep, RequestSwitch, OperatorHold, CreateHold, ClearHold,
           EditControl, ConsumeCommand
    <2>5. CASE LeaseLapses \/ LeaseExpiresUnderHolder
        BY <2>2, <2>5 DEF LeaseLapses, LeaseExpiresUnderHolder
    <2>6. ASSUME NEW n \in Gen, InstanceEnds(n) \/ AcceptLaunch(n) \/ InventoryShows(n)
                                \/ InstanceRuns(n) \/ RejectLaunch(n) \/ ProofAges(n)
          PROVE  /\ \/ pc'[q] = pc[q] /\ mem'[q] = mem[q]
                    \/ pc'[q] = "gone" /\ mem'[q] = Blank
                 /\ lease' = lease
        BY <2>6 DEF InstanceEnds, AcceptLaunch, InventoryShows, InstanceRuns, RejectLaunch,
           ProofAges
    <2>7. ASSUME NEW p \in Daemon, Crash(p)
          PROVE  /\ \/ pc'[q] = pc[q] /\ mem'[q] = mem[q]
                    \/ pc'[q] = "down" /\ mem'[q] = Blank
                 /\ HoldsLease(q) /\ pc'[q] \in LeasePc => HoldsLease(q)'
        <3>1. CASE q = p
            BY <2>1, <2>7, <3>1 DEF Crash, Goto, Forget, LeasePc
        <3>2. CASE q # p
            BY <2>1, <2>3, <2>7, <3>2 DEF Crash, Goto, Forget, HoldsLease
        <3>. QED BY <3>1, <3>2
    <2>8. ASSUME NEW p \in Daemon, CallFails(p)
          PROVE  /\ \/ pc'[q] = pc[q] /\ mem'[q] = mem[q]
                    \/ /\ pc'[q] \in {"down", "gone", "deferred", "done", "idle", "publish"}
                       /\ \/ mem'[q] = Blank
                          \/ mem'[q] = mem[q] /\ (pc[q] \notin EndPc \/ pc'[q] \in EndPc)
                 /\ lease' = lease
        BY <2>1, <2>8 DEF CallFails, Goto, Forget, EndPc, LeasePc, ProbePc
    <2>9. CASE FaultStep
        BY <2>3, <2>5, <2>6, <2>7, <2>8, <2>9 DEF FaultStep, InstanceFails
    <2>10. CASE \E n \in Gen : Ec2Step(n)
        BY <2>3, <2>6, <2>10 DEF Ec2Step, InstanceTerminates
    <2>. QED BY <2>4, <2>5, <2>9, <2>10
<1>5. Blank.cur.gen = 0 /\ Blank.cur.status = "UNINITIALIZED"
    BY DEF Blank, Uninitialized
<1>6. ASSUME NEW q \in Daemon PROVE PeaceAt(q)'
    <2>1. CASE pc'[q] = pc[q] /\ mem'[q] = mem[q]
        BY <1>1, <1>2, <1>3, <1>4, <2>1 DEF PeaceAt
    <2>2. CASE ~(pc'[q] = pc[q] /\ mem'[q] = mem[q])
        <3>1. /\ pc'[q] \in {"down", "gone", "deferred", "done", "idle", "publish"}
              /\ \/ mem'[q] = Blank
                 \/ mem'[q] = mem[q] /\ (pc[q] \notin EndPc \/ pc'[q] \in EndPc)
            BY <1>4, <2>2
        <3>. QED BY <1>1, <1>2, <1>3, <1>5, <3>1
                 DEF PeaceAt, Evidence, IsCurrentOwner, LeasePc
    <2>. QED BY <2>1, <2>2
<1>. QED BY <1>1, <1>2, <1>3, <1>6 DEF Peace, Beginning

LEMMA PeaceStep == IInv /\ Undisputed /\ Peace /\ [Next]_vars => Peace'
<1>. SUFFICES ASSUME IInv, Undisputed, Peace, [Next]_vars PROVE Peace'
    OBVIOUS
<1>1. ASSUME NEW p \in Daemon, DaemonStep(p) PROVE Peace'
    <2>1. Gates'
        BY <1>1, Peaceful DEF PeacefulAt, Gates, Peace
    <2>. QED BY <1>1, <2>1, CurrentCalm, DaemonCalm DEF Peace
<1>2. CASE UNCHANGED vars
    BY <1>2 DEF vars, ec2Vars, opVars, genVars, Peace, Gates, Beginning, PeaceAt, HoldsLease
<1>. QED BY <1>1, <1>2, EnvironmentCalm DEF Next

LEMMA PeaceInit == Init => Peace
<1>. SUFFICES ASSUME Init PROVE Peace
    OBVIOUS
<1>1. /\ cur = Uninitialized /\ Uninitialized.gen = 0 /\ Uninitialized.status = "UNINITIALIZED"
      /\ Blank.cur = Uninitialized /\ hold = FALSE /\ cleaning = FALSE /\ switches = {}
      /\ \A g \in Gen : launches[g] = 0 /\ state[g] = NoState
      /\ \A p \in Daemon : pc[p] = "down" /\ mem[p] = Blank /\ p[1] \in Gen
    BY DEF Init, Uninitialized, Blank, Daemon
<1>. QED BY <1>1 DEF Peace, Gates, Beginning, PeaceAt, Evidence, NoState, LeasePc, EndPc,
         IsCurrentOwner

\* With one process per instance, and an operator who neither holds nor cleans up, no
\* crash, lost answer, stall, rejected launch, lost instance, stop, restart or edit of
\* CONTROL ever makes a daemon raise a SafetyViolation, which would hold the environment.
THEOREM NoFaultHolds == Spec => [](Undisputed => NoSelfInflictedHold)
<1>1. IInv /\ (Undisputed => Peace) /\ [Next]_vars => (Undisputed => Peace)'
    BY PeaceStep DEF Undisputed
<1>2. Init => (Undisputed => Peace)
    BY PeaceInit
<1>3. (Undisputed => Peace) => (Undisputed => NoSelfInflictedHold)
    BY DEF Peace, PeaceAt, NoSelfInflictedHold
<1>. QED BY <1>1, <1>2, <1>3, Invariance, PTL DEF Spec

=============================================================================
