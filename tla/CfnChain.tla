------------------------------ MODULE CfnChain ------------------------------
(***************************************************************************)
(* The CloudFormation backend of the propagation chain: the daemons of one *)
(* cycle (daemon/cloud_glider/daemon.py) over the DynamoDB records and the *)
(* CloudFormation calls of their gateway (aws_sdk.py), with the operator's *)
(* switches, the emergency hold and cleanup's fence.                       *)
(*                                                                         *)
(* It differs from Ec2Chain in what makes a step safe: a generation is a   *)
(* stack found again by its name, readiness is a number of heartbeats, and *)
(* the owner deletes its own stack after the handoff, on no record's       *)
(* authority.  A step of a daemon is one AWS write, or the reads between   *)
(* two writes.  Generation g stands for its stack, its instance, the one   *)
(* daemon that runs there, and its handoff token.                          *)
(***************************************************************************)
EXTENDS Integers, FiniteSets

CONSTANTS
    LastGen,        \* the largest generation any approved CONTROL allows
    Pins,           \* approved versions of CONTROL's pinned fields
    Release,        \* the template and artifacts each version names
    MaxGeneration,  \* max_generation of each version
    MaxLive,        \* max_live_generations: _validated_control insists on 3
    Required,       \* readiness_required_heartbeats
    Moves,          \* operator moves: switches, "hold", "clear", "edit"
    FaultKinds,     \* fault kinds considered
    MaxUpsets,      \* bound on the operator moves and faults of a behaviour
    None            \* an absent record

ASSUME LastGenAssumption == LastGen \in Nat
ASSUME PinsAssumption == Pins # {} /\ MaxGeneration \in [Pins -> 0..LastGen]
ASSUME MaxLiveAssumption == MaxLive \in Nat \ {0, 1}
ASSUME RequiredAssumption == Required \in Nat \ {0}
ASSUME MaxUpsetsAssumption == MaxUpsets \in Nat

Gen == 0..LastGen
Releases == {Release[v] : v \in Pins}

VARIABLES
    \* CloudFormation and EC2
    stack,      \* state of each generation's stack
    built,      \* the release in its parameters
    ec2,        \* state of its instance
    inflight,   \* CreateStack requests sent and not yet decided
    requests,   \* CreateStack requests sent per generation
    \* CONTROL/GLOBAL, BOOTSTRAP/REQUEST and HOLD/ACTIVE
    pins, switches, enabled, cleaning, hold,
    \* CURRENT/GLOBAL, LOCK/PROPAGATION, LOCK/PROVISIONING
    cur, lease, marker,
    \* GEN#n RESOURCE# and STATE; STATEs within the freshness window, and
    \* those whose sequence number the predecessor has counted already
    resource, state, fresh, counted,
    \* daemons: where each is, and what it remembers within a cycle
    pc, mem,
    faults, cancels, moves  \* how many there were: cancels are handoff transactions
                            \* that DynamoDB cancelled although no condition was false

awsVars == <<stack, built, ec2, inflight, requests>>
opVars == <<pins, switches, enabled, cleaning, hold>>
genVars == <<resource, state, fresh, counted>>
budget == <<faults, cancels, moves>>
vars == <<awsVars, opVars, cur, lease, marker, genVars, pc, mem, budget>>

-----------------------------------------------------------------------------
(* Records *)

StackState == {"none", "creating", "complete", "failed", "deleting", "deleted"}
InstanceState == {"none", "running", "shutting-down", "terminated"}
GenState == [status : {"none", "CANDIDATE", "CURRENT", "ERROR"}, open : BOOLEAN]
Marker == [gen : Gen, release : Releases]
Lease == [owner : Gen, stale : BOOLEAN, expired : BOOLEAN]
Switch == {"start", "stop", "cleanup"}
Memory == [pins : Pins, open : BOOLEAN, owner : BOOLEAN, beats : 0..Required]

ASSUME NoneAssumption == None \notin Gen \cup Marker \cup Lease

LeasePc == {"recheck", "find", "capacity", "control", "begin", "create",
            "created", "record", "end", "wait", "look", "handoff", "commit",
            "delete"}
EndPc == {"deferred", "violated", "finished"}
Pc == {"down", "claim", "idle", "current", "publish", "acquire", "hold",
       "done", "gone"} \cup LeasePc \cup EndPc

NoState == [status |-> "none", open |-> FALSE]
Blank == [pins |-> CHOOSE v \in Pins : TRUE, open |-> FALSE, owner |-> FALSE,
          beats |-> 0]

-----------------------------------------------------------------------------
(* Conditions the code evaluates *)

\* What a read of CONTROL, BOOTSTRAP and HOLD shows: a pending stop counts
Enabled == enabled /\ switches \cap {"stop", "cleanup"} = {} /\ ~hold

\* _fresh_enabled_control, and its identity equal to the cycle's snapshot
SameOpenControl(g) == Enabled /\ ~cleaning /\ pins = mem[g].pins

\* lease_owner = :owner: the uuid belongs to this process, not to an earlier one
HoldsLive(g) ==   \* mutant: an expired lease counts as lost
    lease # None /\ lease.owner = g /\ ~lease.stale /\ ~lease.expired
HoldsLease(g) == lease # None /\ lease.owner = g /\ ~lease.stale

Boundary(g, v) == g >= MaxGeneration[v]

\* describe_stack by name no longer finds a stack whose deletion is complete
Exists(n) == stack[n] \notin {"none", "deleted"}

\* check_capacity counts pending, running, stopping and stopped instances only
HasCapacityFull ==   \* mutant: off by one
    Cardinality({x \in Gen : ec2[x] = "running"}) <= MaxLive
HasCapacity == Cardinality({x \in Gen : ec2[x] = "running"}) < MaxLive

\* _eligible_heartbeat of the STATE of n, under version v of CONTROL
Eligible(n, v) ==
    /\ state[n] = [status |-> "CANDIDATE", open |-> TRUE]
    /\ built[n] = Release[v] /\ n \in fresh

At(g, label) == pc[g] = label /\ ec2[g] \in {"running", "shutting-down"}
Goto(g, label) == pc' = [pc EXCEPT ![g] = label]
Remember(g, m) == mem' = [mem EXCEPT ![g] = m]
Forget(g) == mem' = [mem EXCEPT ![g] = Blank]

\* A read-only step of a cycle
Look(g, label, next) ==
    /\ At(g, label)
    /\ Goto(g, next)
    /\ UNCHANGED <<awsVars, opVars, cur, lease, marker, genVars, mem, budget>>

-----------------------------------------------------------------------------
(* Start-up, and the part of a cycle before the lease *)

\* systemd starts the process: verify_self, read_current
Boot(g) ==
    /\ ec2[g] = "running"
    /\ Look(g, "down", IF cur = None THEN "claim" ELSE "idle")

\* claim_initial_current: a lost claim is read again, and must have been ours
ClaimCurrent(g) ==
    /\ At(g, "claim")
    /\ cur' = IF ~cleaning /\ cur = None THEN g ELSE cur
    /\ Goto(g, IF cur' = g THEN "idle" ELSE "hold")
    /\ UNCHANGED <<awsVars, opVars, lease, marker, genVars, mem, budget>>

\* read_control_and_hold; under cleanup's fence the cycle ends here
ReadControl(g) ==
    /\ At(g, "idle") /\ ~cleaning
    /\ Goto(g, "current")
    /\ Remember(g, [Blank EXCEPT !.pins = pins, !.open = Enabled])
    /\ UNCHANGED <<awsVars, opVars, cur, lease, marker, genVars, budget>>

\* read_current, by a read of its own
ReadCurrent(g) ==
    /\ At(g, "current")
    /\ Goto(g, "publish")
    /\ Remember(g, [mem[g] EXCEPT !.owner = cur = g])
    /\ UNCHANGED <<awsVars, opVars, cur, lease, marker, genVars, budget>>

\* Where the cycle goes after its heartbeat
AfterHeartbeat(g) ==
    IF ~mem[g].owner THEN "idle"
    ELSE IF Boundary(g, mem[g].pins) THEN "done"   \* exit 0: not restarted
    ELSE IF mem[g].open THEN "acquire" ELSE "idle"

\* write_heartbeat under the lifecycle fence; ERROR is never overwritten
RepeatHeartbeat(g) ==   \* mutant: the sequence number is not advanced
    /\ At(g, "publish") /\ ~cleaning /\ state[g].status # "ERROR"
    /\ state' = [state EXCEPT ![g] =
           [status |-> IF mem[g].owner THEN "CURRENT" ELSE "CANDIDATE",
            open |-> mem[g].open]]
    /\ fresh' = fresh \cup {g}
    /\ Goto(g, AfterHeartbeat(g))
    /\ UNCHANGED <<awsVars, opVars, cur, lease, marker, resource, counted, mem,
                   budget>>
WriteHeartbeat(g) ==
    /\ At(g, "publish")
    /\ IF ~cleaning /\ state[g].status # "ERROR"
       THEN /\ state' = [state EXCEPT ![g] =
                   [status |-> IF mem[g].owner THEN "CURRENT" ELSE "CANDIDATE",
                    open |-> mem[g].open]]
            /\ fresh' = fresh \cup {g} /\ counted' = counted \ {g}
            /\ Goto(g, AfterHeartbeat(g))
       ELSE /\ Goto(g, IF cleaning THEN "idle" ELSE "hold")
            /\ UNCHANGED <<state, fresh, counted>>
    /\ IF pc'[g] = "acquire" THEN UNCHANGED mem ELSE Forget(g)
    /\ UNCHANGED <<awsVars, opVars, cur, lease, marker, resource, budget>>

-----------------------------------------------------------------------------
(* The lease *)

AcquireLease(g) ==
    LET free == lease = None \/ lease.expired \/ HoldsLease(g)
        ok == ~cleaning /\ free
    IN  /\ At(g, "acquire")
        /\ lease' = IF ok THEN [owner |-> g, stale |-> FALSE, expired |-> FALSE]
                    ELSE lease
        /\ Goto(g, IF ok THEN "recheck" ELSE "idle")
        /\ IF ok THEN UNCHANGED mem ELSE Forget(g)
        /\ UNCHANGED <<awsVars, opVars, cur, marker, genVars, budget>>

CheckOwnership(g) == Look(g, "recheck", IF cur = g THEN "find" ELSE "deferred")

\* the finally block of cycle(): delete the lease if it is still ours
ReleaseLease(g) ==
    /\ pc[g] \in EndPc
    /\ lease' = IF HoldsLease(g) THEN None ELSE lease
    /\ Goto(g, IF pc[g] = "violated" THEN "hold" ELSE "idle")
    /\ Forget(g)
    /\ UNCHANGED <<awsVars, opVars, cur, marker, genVars, budget>>

-----------------------------------------------------------------------------
(* provision_successor *)

\* describe_stack by the successor's name, then reconcile_submission
FoundSuccessor(g) ==
    LET n == g + 1
        own == marker = [gen |-> n, release |-> Release[mem[g].pins]]
    IN  IF built[n] # Release[mem[g].pins] THEN "violated"
        ELSE IF marker = None THEN "wait"
        ELSE IF own /\ stack[n] \in {"creating", "complete"} THEN "record"
        ELSE "deferred"

FindSuccessor(g) ==
    Look(g, "find", IF Exists(g + 1) THEN FoundSuccessor(g) ELSE "capacity")

CheckCapacity(g) ==
    Look(g, "capacity", IF HasCapacity THEN "control" ELSE "deferred")

\* the mandatory last read before CreateStack
CheckControl(g) ==
    Look(g, "control", IF SameOpenControl(g) THEN "begin" ELSE "deferred")

\* _begin_provisioning: the marker, in one transaction with the gates
BeginAgain(g) ==   \* mutant: an unsettled marker is replaced
    /\ At(g, "begin") /\ Enabled /\ ~cleaning
    /\ marker' = [gen |-> g + 1, release |-> Release[mem[g].pins]]
    /\ Goto(g, "create")
    /\ UNCHANGED <<awsVars, opVars, cur, lease, genVars, mem, budget>>
BeginProvisioning(g) ==
    LET ok == Enabled /\ ~cleaning /\ marker = None IN
    /\ At(g, "begin")
    /\ marker' = IF ok THEN [gen |-> g + 1, release |-> Release[mem[g].pins]]
                 ELSE marker
    /\ Goto(g, IF ok THEN "create" ELSE "deferred")
    /\ UNCHANGED <<awsVars, opVars, cur, lease, genVars, mem, budget>>

\* create_stack sends the request; CloudFormation answers when it has decided
SendCreate(g) ==
    /\ At(g, "create")
    /\ inflight' = inflight \cup {g + 1}
    /\ requests' = [requests EXCEPT ![g + 1] = @ + 1]
    /\ built' = [built EXCEPT ![g + 1] = Release[mem[g].pins]]
    /\ Goto(g, "created")
    /\ UNCHANGED <<stack, ec2, opVars, cur, lease, marker, genVars, mem, budget>>

CreateReturns(g) ==
    /\ g + 1 \notin inflight
    /\ Look(g, "created", IF Exists(g + 1) THEN "record" ELSE "deferred")

\* _record_submission: the stack's ARN, before the marker is released
RecordLater(g) == Look(g, "record", "end")   \* mutant: nothing is recorded
RecordSubmission(g) ==
    /\ At(g, "record")
    /\ resource' = resource \cup {g + 1}
    /\ Goto(g, "end")
    /\ UNCHANGED <<awsVars, opVars, cur, lease, marker, state, fresh, counted,
                   mem, budget>>

\* _end_provisioning: only the marker with this submission's token
EndProvisioning(g) ==
    LET ok == marker = [gen |-> g + 1, release |-> Release[mem[g].pins]] IN
    /\ At(g, "end")
    /\ marker' = IF ok THEN None ELSE marker
    /\ Goto(g, IF ok THEN "wait" ELSE "deferred")
    /\ UNCHANGED <<awsVars, opVars, cur, lease, genVars, mem, budget>>

-----------------------------------------------------------------------------
(* wait_for_healthy_successor and conditional_handoff *)

\* renew_lease: a lost lease is a safety violation, cleanup's fence is not
RenewLease(g) ==
    LET ok == ~cleaning /\ HoldsLease(g) IN
    /\ At(g, "wait")
    /\ lease' = IF ok THEN [lease EXCEPT !.expired = FALSE] ELSE lease
    /\ Goto(g, IF ok THEN "look" ELSE IF cleaning THEN "deferred" ELSE "violated")
    /\ UNCHANGED <<awsVars, opVars, cur, marker, genVars, mem, budget>>

Enough(beats) == beats >= Required

\* the heartbeat counts if it is the first, or another than the one counted last
PollSuccessor(g) ==
    LET n == g + 1
        counts == /\ stack[n] = "complete" /\ Eligible(n, mem[g].pins)
                  /\ mem[g].beats = 0 \/ n \notin counted
        beats == mem[g].beats + 1
    IN  /\ At(g, "look")
        /\ IF counts
           THEN /\ Remember(g, [mem[g] EXCEPT !.beats = beats])
                /\ counted' = counted \cup {n}
                /\ Goto(g, IF Enough(beats) THEN "handoff" ELSE "wait")
           ELSE /\ Goto(g, IF stack[n] \in {"creating", "complete"} THEN "wait"
                           ELSE "deferred")
                /\ UNCHANGED <<mem, counted>>
        /\ UNCHANGED <<awsVars, opVars, cur, lease, marker, resource, state,
                       fresh, budget>>

\* conditional_handoff's reads before the transaction, each with its own verdict
Verdict(g) ==
    IF ~SameOpenControl(g) THEN "deferred"
    ELSE IF stack[g + 1] # "complete" \/ built[g + 1] # Release[mem[g].pins]
         THEN "violated"
    ELSE IF Eligible(g + 1, mem[g].pins) THEN "commit" ELSE "deferred"

CheckHandoff(g) == Look(g, "handoff", Verdict(g))

\* The condition checks of the handoff transaction
HandoffUngated(g) ==   \* mutant: the gates are left to the reads before it
    HoldsLease(g) /\ cur = g /\ state[g + 1].status # "none"
HandoffConditions(g) ==
    /\ SameOpenControl(g) /\ HoldsLease(g) /\ cur = g
    /\ state[g + 1].status # "none"

\* A transaction cancelled by a false condition is taken for a lost ownership; so is
\* any other cancellation, see HandoffCancelled.
DeleteAnyway(g) ==   \* mutant: the result of the handoff is ignored
    /\ At(g, "commit")
    /\ cur' = IF HandoffConditions(g) THEN g + 1 ELSE cur
    /\ Goto(g, "delete")
    /\ UNCHANGED <<awsVars, opVars, lease, marker, genVars, mem, budget>>
ConditionalHandoff(g) ==
    LET ok == HandoffConditions(g) IN
    /\ At(g, "commit")
    /\ cur' = IF ok THEN g + 1 ELSE cur
    /\ state' = IF ok THEN [state EXCEPT ![g + 1].status = "CURRENT"] ELSE state
    /\ Goto(g, IF ok THEN "delete" ELSE "violated")
    /\ UNCHANGED <<awsVars, opVars, lease, marker, resource, fresh, counted, mem,
                   budget>>

\* delete_stack of the daemon's own stack; nothing records that it is due
DeleteDeferred(g) == Look(g, "delete", "finished")   \* mutant: left to cleanup
DeleteOwnStack(g) ==
    /\ At(g, "delete")
    /\ stack' = [stack EXCEPT ![g] = IF @ = "deleted" THEN @ ELSE "deleting"]
    /\ Goto(g, "finished")
    /\ UNCHANGED <<built, ec2, inflight, requests, opVars, cur, lease, marker,
                   genVars, mem, budget>>

-----------------------------------------------------------------------------
(* The emergency hold, the operator and the lifecycle Lambda *)

\* the hold function sets HOLD and marks the generation ERROR
CreateHold(g) ==
    /\ hold' = TRUE
    /\ state' = [state EXCEPT ![g].status = "ERROR"]
    /\ UNCHANGED <<awsVars, pins, switches, enabled, cleaning, cur, lease,
                   marker, resource, fresh, counted>>

\* run() returns 2 after a SafetyViolation, and systemd restarts the process
InvokeHold(g) ==
    /\ At(g, "hold")
    /\ IF cleaning
       THEN UNCHANGED <<awsVars, opVars, cur, lease, marker, genVars>>
       ELSE CreateHold(g)
    /\ Goto(g, "down") /\ Forget(g)
    /\ UNCHANGED budget

Upsets == faults + cancels + moves
Budget == Upsets < MaxUpsets
\* One clearance of a hold is allowed beyond the bound.
Move(kind) ==
    /\ kind \in Moves
    /\ Budget \/ (kind = "clear" /\ Upsets = MaxUpsets)
    /\ moves' = moves + 1
    /\ UNCHANGED <<awsVars, cur, lease, marker, resource, fresh, counted, pc, mem,
                   faults, cancels>>

\* By lifecycle.py, which adds nothing to a pending request, or in CONTROL/GLOBAL directly
RequestSwitch(s) ==
    /\ Move(s) /\ s \notin switches
    /\ switches' = switches \cup {s}
    /\ UNCHANGED <<pins, enabled, cleaning, hold, state>>

\* consume_command: two switches at once are both rejected
ConsumeCommand ==
    /\ switches # {}
    /\ switches' = {}
    /\ enabled' = CASE switches = {"start"} ->
                           enabled \/ (~cleaning /\ ~hold /\ cur # None)
                    [] switches \in {{"stop"}, {"cleanup"}} -> FALSE
                    [] OTHER -> enabled
    /\ cleaning' = (cleaning \/ switches = {"cleanup"})
    /\ UNCHANGED <<awsVars, pins, hold, cur, lease, marker, genVars, pc, mem,
                   budget>>

OperatorHold(g) ==
    /\ Move("hold") /\ ~cleaning /\ cur = g
    /\ hold' = TRUE
    /\ state' = [state EXCEPT ![g].status = "ERROR"]
    /\ UNCHANGED <<pins, switches, enabled, cleaning>>

\* clear_emergency_hold.py deletes HOLD/ACTIVE; the ERROR status stays
ClearHold ==
    /\ Move("clear") /\ hold
    /\ hold' = FALSE
    /\ UNCHANGED <<pins, switches, enabled, cleaning, state>>

\* An update of CONTROL's approved fields that _validated_control accepts
EditControl(v) ==
    /\ Move("edit") /\ pins # v
    /\ pins' = v
    /\ UNCHANGED <<switches, enabled, cleaning, hold, state>>

-----------------------------------------------------------------------------
(* CloudFormation, EC2 and time *)

Becomes(n, s, i) ==
    /\ stack' = [stack EXCEPT ![n] = s]
    /\ ec2' = [ec2 EXCEPT ![n] = i]
    /\ UNCHANGED <<built, requests, opVars, cur, lease, marker, genVars, mem>>

\* CreateStack is accepted, unless a stack of that name exists
AcceptCreate(n) ==
    /\ n \in inflight
    /\ inflight' = inflight \ {n}
    /\ Becomes(n, IF Exists(n) THEN stack[n] ELSE "creating", ec2[n])
    /\ UNCHANGED <<pc, budget>>

\* its instance is launched, and the stack completes
StackAdvances(n) ==
    /\ stack[n] = "creating"
    /\ Becomes(n, IF ec2[n] = "none" THEN "creating" ELSE "complete", "running")
    /\ UNCHANGED <<inflight, pc, budget>>

\* DeleteStack terminates the instance; its process ends with it
DeleteAdvances(n) ==
    /\ stack[n] = "deleting"
    /\ IF ec2[n] = "running"
       THEN Becomes(n, "deleting", "shutting-down") /\ UNCHANGED pc
       ELSE Becomes(n, "deleted", "terminated") /\ Goto(n, "gone")
    /\ UNCHANGED <<inflight, budget>>

\* A lease nobody will renew runs out
LeaseLapses ==
    /\ lease # None /\ ~lease.expired
    /\ lease.stale \/ pc[lease.owner] \notin LeasePc \cup EndPc
    /\ lease' = [lease EXCEPT !.expired = TRUE]
    /\ UNCHANGED <<awsVars, opVars, cur, marker, genVars, pc, mem, budget>>

-----------------------------------------------------------------------------
(* Faults *)

Fault(kind) ==
    /\ kind \in FaultKinds /\ Budget
    /\ faults' = faults + 1
    /\ UNCHANGED <<built, requests, opVars, cur, marker, resource, state, counted,
                   cancels, moves>>

\* The process exits: no finally block has run, and its lease uuid is lost
Crash(g) ==
    /\ Fault("crash")
    /\ pc[g] \notin {"down", "done", "gone"}
    /\ Goto(g, "down") /\ Forget(g)
    /\ lease' = IF HoldsLease(g) THEN [lease EXCEPT !.stale = TRUE] ELSE lease
    /\ UNCHANGED <<stack, ec2, inflight, fresh>>

\* DynamoDB cancels the handoff transaction for a reason of its own: a conflict with
\* the heartbeat that the successor writes to the same STATE item, or throttling.
\* handoff answers False as for a false condition, which is a SafetyViolation.
HandoffCancelled(g) ==
    /\ "conflict" \in FaultKinds /\ Budget /\ At(g, "commit")
    /\ cancels' = cancels + 1
    /\ Goto(g, "violated")
    /\ UNCHANGED <<awsVars, opVars, cur, lease, marker, genVars, mem, faults, moves>>

\* Any other failure of an AWS call, or the loss of its response.  The lost response
\* of a write is this fault at the step after the write.
CallFails(g) ==
    /\ Fault("call")
    /\ \/ /\ pc[g] \in LeasePc \cup {"finished"}
          /\ Goto(g, "deferred") /\ UNCHANGED mem
       \/ /\ pc[g] \in EndPc \cup {"current", "publish", "acquire", "recheck"}
          /\ Goto(g, IF pc[g] = "violated" THEN "hold" ELSE "idle") /\ Forget(g)
       \/ /\ pc[g] \in {"claim", "hold"}
          /\ Goto(g, "down") /\ UNCHANGED mem
    /\ UNCHANGED <<stack, ec2, inflight, lease, fresh>>

\* CloudFormation rejects the request before creating anything
RejectCreate(n) ==
    /\ Fault("reject")
    /\ n \in inflight
    /\ inflight' = inflight \ {n}
    /\ UNCHANGED <<stack, ec2, lease, fresh, pc, mem>>

\* The stack fails; OnFailure DO_NOTHING leaves what it has created
StackFails(n) ==
    /\ Fault("stack")
    /\ stack[n] = "creating"
    /\ stack' = [stack EXCEPT ![n] = "failed"]
    /\ UNCHANGED <<ec2, inflight, lease, fresh, pc, mem>>

\* readiness_timeout_seconds pass
ReadinessTimesOut(g) ==
    /\ Fault("slow")
    /\ pc[g] = "wait"
    /\ Goto(g, "deferred")
    /\ UNCHANGED <<stack, ec2, inflight, lease, fresh, mem>>

\* The heartbeat leaves its freshness window
HeartbeatAges(n) ==
    /\ Fault("slow")
    /\ n \in fresh
    /\ fresh' = fresh \ {n}
    /\ UNCHANGED <<stack, ec2, inflight, lease, pc, mem>>

\* The holder stalls past the expiry of its lease
LeaseExpiresUnderHolder ==
    /\ Fault("slow")
    /\ lease # None /\ ~lease.expired /\ ~lease.stale
    /\ pc[lease.owner] \in LeasePc \cup EndPc
    /\ lease' = [lease EXCEPT !.expired = TRUE]
    /\ UNCHANGED <<stack, ec2, inflight, fresh, pc, mem>>

-----------------------------------------------------------------------------

Init ==
    /\ stack = [g \in Gen |-> IF g = 0 THEN "complete" ELSE "none"]
    /\ ec2 = [g \in Gen |-> IF g = 0 THEN "running" ELSE "none"]
    /\ pins \in Pins
    /\ built = [g \in Gen |-> IF g = 0 THEN Release[pins] ELSE None]
    /\ inflight = {} /\ requests = [g \in Gen |-> 0]
    /\ switches = {} /\ enabled = TRUE /\ cleaning = FALSE /\ hold = FALSE
    /\ cur = None /\ lease = None /\ marker = None
    /\ resource = {0} /\ state = [g \in Gen |-> NoState]
    /\ fresh = {} /\ counted = {}
    /\ pc = [g \in Gen |-> "down"] /\ mem = [g \in Gen |-> Blank]
    /\ faults = 0 /\ cancels = 0 /\ moves = 0

Begin(g) ==
    \/ Boot(g) \/ ClaimCurrent(g) \/ InvokeHold(g)
    \/ ReadControl(g) \/ ReadCurrent(g) \/ WriteHeartbeat(g)
    \/ AcquireLease(g) \/ CheckOwnership(g) \/ ReleaseLease(g)
Provision(g) ==
    \/ FindSuccessor(g) \/ CheckCapacity(g) \/ CheckControl(g)
    \/ BeginProvisioning(g) \/ SendCreate(g) \/ CreateReturns(g)
    \/ RecordSubmission(g) \/ EndProvisioning(g)
Handoff(g) ==
    \/ RenewLease(g) \/ PollSuccessor(g) \/ CheckHandoff(g)
    \/ ConditionalHandoff(g) \/ DeleteOwnStack(g)

DaemonStep(g) == Begin(g) \/ Provision(g) \/ Handoff(g)

OperatorStep ==
    \/ \E s \in Switch : RequestSwitch(s)
    \/ \E g \in Gen : OperatorHold(g)
    \/ ClearHold
    \/ \E v \in Pins : EditControl(v)

AwsStep(n) == AcceptCreate(n) \/ StackAdvances(n) \/ DeleteAdvances(n)

FaultStep ==
    \/ \E g \in Gen : Crash(g) \/ CallFails(g) \/ ReadinessTimesOut(g) \/ HandoffCancelled(g)
    \/ \E n \in Gen : RejectCreate(n) \/ StackFails(n) \/ HeartbeatAges(n)
    \/ LeaseExpiresUnderHolder

Next ==
    \/ \E g \in Gen : DaemonStep(g) \/ AwsStep(g)
    \/ OperatorStep \/ ConsumeCommand \/ LeaseLapses \/ FaultStep

Spec == Init /\ [][Next]_vars

\* A running process takes its next step, systemd restarts a failed one,
\* CloudFormation does what it accepted, the stream delivers the operator's
\* command, and an abandoned lease runs out.
Fairness ==
    /\ \A g \in Gen : WF_vars(DaemonStep(g)) /\ WF_vars(AwsStep(g))
    /\ WF_vars(ConsumeCommand) /\ WF_vars(LeaseLapses)

FairSpec == Spec /\ Fairness

-----------------------------------------------------------------------------
(* Properties *)

\* Every variable has its type.
TypeOK ==
    /\ stack \in [Gen -> StackState] /\ ec2 \in [Gen -> InstanceState]
    /\ built \in [Gen -> Releases \cup {None}]
    /\ inflight \subseteq Gen /\ requests \in [Gen -> Nat]
    /\ pins \in Pins /\ switches \subseteq Switch
    /\ enabled \in BOOLEAN /\ cleaning \in BOOLEAN /\ hold \in BOOLEAN
    /\ cur \in Gen \cup {None} /\ lease \in Lease \cup {None}
    /\ marker \in Marker \cup {None}
    /\ resource \subseteq Gen /\ fresh \subseteq Gen /\ counted \subseteq Gen
    /\ state \in [Gen -> GenState]
    /\ pc \in [Gen -> Pc] /\ mem \in [Gen -> Memory]
    /\ faults \in Nat /\ cancels \in Nat /\ moves \in Nat /\ Upsets <= MaxUpsets + 1

\* Instances that no one has asked to terminate, and the instances of requests
\* that are undecided, never exceed three, although predecessors whose deletion
\* was lost stay behind and capacity is checked long before CreateStack.
LiveCeiling ==
    Cardinality({n \in Gen : \/ ec2[n] = "running" \/ stack[n] = "creating"
                             \/ n \in inflight}) <= MaxLive

\* One CreateStack per generation: neither a lost answer nor a rejection nor an
\* edit of CONTROL lets a second request out while the first may still act.
OneRequestPerGeneration == \A g \in Gen : requests[g] <= 1

\* A stack that may exist without a RESOURCE record is named by the provisioning
\* marker, so cleanup, which waits for the marker, misses none.
MarkerCoversStack ==
    \A n \in Gen : n \in inflight \/ (Exists(n) /\ n \notin resource)
                      => marker # None /\ marker.gen = n

\* Predecessors that nobody will delete: each is the work of a fault of its own,
\* as the deletion of a daemon's own stack has no durable intent behind it.
Abandoned == {g \in Gen : /\ cur # None /\ g < cur
                          /\ stack[g] = "complete" /\ pc[g] # "delete"}
LeftByFaultsOnly == Cardinality(Abandoned) <= faults

\* Without an operator's move and as long as DynamoDB cancels no handoff transaction
\* whose conditions hold, no crash, lost answer, failed stack or slow call is reported
\* as a SafetyViolation, which holds the whole environment.
NoSelfInflictedHold ==
    moves = 0 /\ cancels = 0 => \A g \in Gen : pc[g] \notin {"violated", "hold"}

\* Ownership moves to the next generation only, to a recorded and complete stack
\* of the release that CONTROL approves at that moment, with open gates.
HandoffIsApproved ==
    [][cur # None /\ cur' # cur =>
          /\ cur' = cur + 1 /\ cur' \in resource /\ stack[cur'] = "complete"
          /\ built[cur'] = Release[pins] /\ Enabled /\ ~cleaning]_vars

\* A stack is deleted only after its generation handed ownership over.
DeletesOnlyPredecessors ==
    [][\A g \in Gen : stack[g] # "deleting" /\ stack'[g] = "deleting"
                         => cur # None /\ g < cur]_vars

\* What stops a chain for good: a hold, the operator; a submission or a stack that only
\* an operator may resolve; predecessors left behind that, with the owner, fill the ceiling.
Halted ==
    \/ hold \/ cleaning \/ ~enabled
    \/ marker # None /\ stack[marker.gen] \in {"none", "failed"}
    \/ \E n \in Gen : stack[n] = "failed"
    \/ Cardinality(Abandoned) + 1 >= MaxLive

\* Left alone, the chain reaches its last generation, whose daemon exits, and
\* every predecessor that was not abandoned is deleted.
ChainCompletes ==
    <>[](\/ Halted
         \/ /\ cur # None /\ pc[cur] = "done"
            /\ \A g \in 0..(cur - 1) : stack[g] = "deleted" \/ g \in Abandoned)

\* A stop, which only fences the handoff, does not lead to an emergency hold.
FencingDefers == \A g \in Gen : pc[g] # "violated"

=============================================================================
