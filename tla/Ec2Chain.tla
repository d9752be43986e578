------------------------------ MODULE Ec2Chain ------------------------------
(***************************************************************************)
(* The direct-EC2 propagation protocol: the daemons of one cycle           *)
(* (daemon/cloud_glider/ec2_daemon.py) over the DynamoDB records and EC2    *)
(* calls of their gateway (ec2_sdk.py, aws_sdk.py), with the operator's     *)
(* switches (bootstrap/handler.py) and the emergency hold                   *)
(* (cfn/foundation.yaml, scripts/clear_emergency_hold.py).                  *)
(*                                                                         *)
(* A step of a daemon is one AWS write, or the reads between two writes,    *)
(* so that stop requests, holds, crashes, slow calls and other daemons can  *)
(* come in between a check and the call it guards.  Generation g runs on    *)
(* one instance, so g also stands for the instance, its handoff token and   *)
(* its client token.  Every operation fails closed: "deferred" is a         *)
(* TransientFailure, "violated" a SafetyViolation.                          *)
(***************************************************************************)
EXTENDS Integers, FiniteSets

CONSTANTS
    LastGen,        \* the largest generation any approved CONTROL allows
    Pins,           \* approved versions of CONTROL's pinned fields
    MaxGeneration,  \* max_generation of each version
    MaxLive,        \* max_live_generations
    Copies,         \* daemon processes that may run on one instance
    Moves,          \* operator moves considered: switches, "hold", "clear", "edit"
    FaultKinds,     \* fault kinds considered
    MaxUpsets,      \* bound on the operator moves and faults of a behaviour
    None            \* an absent record

ASSUME LastGenAssumption == LastGen \in Nat
ASSUME PinsAssumption == Pins # {} /\ MaxGeneration \in [Pins -> 0..LastGen]
ASSUME MaxLiveAssumption == MaxLive \in {2, 3}
ASSUME MaxUpsetsAssumption == MaxUpsets \in Nat

Gen == 0..LastGen
Daemon == Gen \X Copies

VARIABLES
    \* EC2
    ec2,        \* state of each generation's instance
    visible,    \* generations the filtered DescribeInstances shows
    inflight,   \* RunInstances requests sent and not yet decided
    launches,   \* RunInstances requests sent per generation
    alarm,      \* generations with a status-check alarm
    \* CONTROL/GLOBAL, BOOTSTRAP/REQUEST and HOLD/ACTIVE
    pins, switches, enabled, cleaning, hold,
    \* CURRENT/GLOBAL, LOCK/PROPAGATION, LOCK/PROVISIONING
    cur, lease, marker,
    \* GEN#n SUBMISSION, RESOURCE# and STATE, and which proofs are <= 15 s old
    submission, resource, state, fresh,
    \* daemons: where each is, and what it remembers within a cycle
    pc, mem,
    upsets      \* operator moves and faults so far

ec2Vars == <<ec2, visible, inflight, launches, alarm>>
opVars == <<pins, switches, enabled, cleaning, hold>>
genVars == <<submission, resource, state, fresh>>
vars == <<ec2Vars, opVars, cur, lease, marker, genVars, pc, mem, upsets>>

-----------------------------------------------------------------------------
(* Records *)

InstanceState == {"none", "pending", "running", "shutting-down", "terminated"}
Alive == {"pending", "running", "shutting-down"}   \* states that occupy a slot

Proof == [pins : Pins, boundary : BOOLEAN]
GenState == [status : {"none", "CANDIDATE", "CURRENT", "ERROR"},
             proof : Proof \cup {None}]
Current == [status : {"UNINITIALIZED", "CURRENT"}, gen : Gen, pins : Pins,
            boundary : BOOLEAN, authorized : BOOLEAN, completed : BOOLEAN]
Lease == [owner : Daemon, stale : BOOLEAN, expired : BOOLEAN]
Switch == {"start", "stop", "cleanup"}

ASSUME NoneAssumption == None \notin Gen \cup Proof \cup Lease

\* What a cycle holds in its locals: the snapshot, the proof it is producing,
\* the candidate STATE it read, and its progress through the cycle.
Memory == [pins : Pins, cur : Current, open : BOOLEAN,
           proof : Proof \cup {None}, st : GenState, retired : BOOLEAN,
           ready : BOOLEAN, leaseOK : BOOLEAN]

ProbePc == {"probeCapacity", "probeControl", "probeFinal"}
LeasePc == {"recheck", "retire", "retireLook", "retireControl", "terminate",
            "retireAlarm", "retireMark", "find", "reconcile", "capacity",
            "provisionControl", "provisionRenew", "claim", "lastControl", "run", "runWait",
            "record", "endMarker", "alarm", "wait", "waitLook", "continue",
            "continueControl", "handoffLook", "handoffControl", "commit"}
EndPc == {"deferred", "violated", "finished"}
Pc == {"down", "claimCurrent", "idle", "publish", "acquire", "hold",
       "done", "gone"} \cup ProbePc \cup LeasePc \cup EndPc

NoState == [status |-> "none", proof |-> None]
Uninitialized == [status |-> "UNINITIALIZED", gen |-> 0,
                  pins |-> CHOOSE v \in Pins : TRUE, boundary |-> FALSE,
                  authorized |-> FALSE, completed |-> FALSE]
Blank == [pins |-> CHOOSE v \in Pins : TRUE, cur |-> Uninitialized,
          open |-> FALSE, proof |-> None, st |-> NoState, retired |-> FALSE,
          ready |-> FALSE, leaseOK |-> FALSE]

-----------------------------------------------------------------------------
(* Conditions the code evaluates *)

Stopping == switches \cap {"stop", "cleanup"} # {}

\* read_control_and_hold, _validated_control and the test of _fresh_enabled_control
Open == enabled /\ ~cleaning /\ ~Stopping /\ ~hold

\* _fresh_enabled_control whose identity equals the cycle's snapshot
SameOpenControl(p) == Open /\ pins = mem[p].pins

IsCurrentOwner(c, g) == c.status = "CURRENT" /\ c.gen = g
CandidateParentMatches(c, g) == c.status = "CURRENT" /\ c.gen = g - 1

\* lease_owner = :owner: the uuid belongs to this process, not to an earlier one
AnyLease(p) == lease # None   \* mutant: the owner uuid is not compared
HoldsLease(p) == lease # None /\ lease.owner = p /\ ~lease.stale

Boundary(g, v) == g >= MaxGeneration[v]

\* check_capacity: the lagging inventory, plus exact lookups of CURRENT and of
\* its predecessor until its retirement is recorded as completed
Occupied ==
    {g \in visible : ec2[g] \in Alive}
    \cup {g \in {cur.gen} \cup (IF cur.authorized /\ ~cur.completed
                                THEN {cur.gen - 1} ELSE {}) :
             cur.status = "CURRENT" /\ ec2[g] # "terminated"}
HasCapacityFull == Cardinality(Occupied) <= MaxLive   \* mutant: off by one
HasCapacityShort ==   \* mutant: the launch asked for is counted as well
    Cardinality(Occupied) + 1 < MaxLive
HasCapacity == Cardinality(Occupied) < MaxLive

\* _eligible_functional_readiness of STATE record s of generation n
Eligible(s, n, v) ==
    /\ s.status = "CANDIDATE"
    /\ s.proof = [pins |-> v, boundary |-> Boundary(n, v)]
    /\ n \in fresh

At(p, label) == pc[p] = label /\ ec2[p[1]] \in {"running", "shutting-down"}
Goto(p, label) == pc' = [pc EXCEPT ![p] = label]
Remember(p, m) == mem' = [mem EXCEPT ![p] = m]
Forget(p) == mem' = [mem EXCEPT ![p] = Blank]

\* A read-only step: go on if the condition holds, defer the cycle otherwise.
Check(p, label, condition, next) ==
    /\ At(p, label)
    /\ Goto(p, IF condition THEN next ELSE "deferred")
    /\ UNCHANGED <<ec2Vars, opVars, cur, lease, marker, genVars, mem, upsets>>

\* renew_lease, then reads that must agree; a lost lease is a safety violation
RenewLease(p, label, condition, next) ==
    /\ At(p, label)
    /\ IF ~cleaning /\ HoldsLease(p)
       THEN /\ lease' = [lease EXCEPT !.expired = FALSE]
            /\ Goto(p, IF condition THEN next ELSE "deferred")
       ELSE /\ Goto(p, IF cleaning THEN "deferred" ELSE "violated")
            /\ UNCHANGED lease
    /\ UNCHANGED <<ec2Vars, opVars, cur, marker, genVars, upsets>>

-----------------------------------------------------------------------------
(* Start-up and the cycle's snapshot *)

\* systemd starts the process: verify_self, then the read of
\* ensure_bootstrap_ownership.  A cleanup fence makes the process exit again.
Boot(p) ==
    /\ pc[p] = "down" /\ ec2[p[1]] = "running" /\ ~cleaning
    /\ Goto(p, IF cur.status = "CURRENT" THEN "idle"
               ELSE IF p[1] = 0 THEN "claimCurrent" ELSE "hold")
    /\ UNCHANGED <<ec2Vars, opVars, cur, lease, marker, genVars, mem, upsets>>

\* claim_initial_current: only the first claim applies; the loser finds itself owner
ClaimCurrent(p) ==
    /\ At(p, "claimCurrent")
    /\ IF ~cleaning /\ cur.status = "UNINITIALIZED"
       THEN cur' = [Uninitialized EXCEPT !.status = "CURRENT", !.gen = p[1]]
       ELSE UNCHANGED cur
    /\ Goto(p, IF IsCurrentOwner(cur', p[1]) THEN "idle" ELSE "hold")
    /\ UNCHANGED <<ec2Vars, opVars, lease, marker, genVars, mem, upsets>>

\* cycle(): one transaction reads CONTROL, HOLD, BOOTSTRAP and CURRENT.  Then the
\* candidate probes, or a due heartbeat is published, or the owner goes on.
ReadCycleSnapshot(p) ==
    LET g == p[1]
        open == enabled /\ ~Stopping /\ ~hold
    IN  /\ At(p, "idle") /\ ~cleaning
        /\ Remember(p, [Blank EXCEPT !.pins = pins, !.cur = cur, !.open = open])
        /\ \/ /\ CandidateParentMatches(cur, g) /\ open
              /\ Goto(p, "probeCapacity")
           \/ /\ ~(CandidateParentMatches(cur, g) /\ open)
              /\ Goto(p, "publish")
           \/ /\ IsCurrentOwner(cur, g) /\ open
              /\ Goto(p, "acquire")
        /\ UNCHANGED <<ec2Vars, opVars, cur, lease, marker, genVars, upsets>>

-----------------------------------------------------------------------------
(* prove_functional_readiness and the heartbeat that publishes its result *)

\* One check of the probe: a failed one publishes no proof before it is retried.
Probe(p, label, condition, next, proof) ==
    /\ At(p, label)
    /\ Goto(p, IF condition THEN next ELSE "publish")
    /\ Remember(p, [mem[p] EXCEPT !.proof = IF condition THEN proof ELSE None])
    /\ UNCHANGED <<ec2Vars, opVars, cur, lease, marker, genVars, upsets>>

ProbeCapacity(p) ==
    Probe(p, "probeCapacity",
          /\ ec2[p[1]] = "running"
          /\ Boundary(p[1], mem[p].pins) \/ HasCapacity,
          "probeControl", None)

ProbeControl(p) ==
    Probe(p, "probeControl",
          CandidateParentMatches(cur, p[1]) /\ SameOpenControl(p),
          "probeFinal", None)

ProbeFinal(p) ==
    Probe(p, "probeFinal",
          SameOpenControl(p) /\ CandidateParentMatches(cur, p[1]),
          "publish",
          [pins |-> mem[p].pins, boundary |-> Boundary(p[1], mem[p].pins)])

\* write_heartbeat under the lifecycle fence; ERROR is never overwritten
WriteHeartbeat(p) ==
    LET g == p[1]
        owner == IsCurrentOwner(mem[p].cur, g)
    IN  /\ At(p, "publish")
        /\ IF ~cleaning /\ state[g].status # "ERROR"
           THEN /\ state' = [state EXCEPT ![g] =
                       [status |-> IF owner THEN "CURRENT" ELSE "CANDIDATE",
                        proof |-> mem[p].proof]]
                /\ fresh' = IF mem[p].proof = None THEN fresh \ {g}
                            ELSE fresh \cup {g}
                /\ Goto(p, IF owner /\ mem[p].open THEN "acquire" ELSE "idle")
           ELSE /\ Goto(p, IF cleaning THEN "idle" ELSE "hold")
                /\ UNCHANGED <<state, fresh>>
        /\ IF pc'[p] = "acquire" THEN UNCHANGED mem ELSE Forget(p)
        /\ UNCHANGED <<ec2Vars, opVars, cur, lease, marker, submission,
                       resource, upsets>>

-----------------------------------------------------------------------------
(* The propagation lease *)

AcquireLease(p) ==
    /\ At(p, "acquire")
    /\ IF ~cleaning /\ (lease = None \/ lease.expired \/ HoldsLease(p))
       THEN /\ lease' = [owner |-> p, stale |-> FALSE, expired |-> FALSE]
            /\ Goto(p, "recheck")
            /\ UNCHANGED mem
       ELSE /\ Goto(p, "idle") /\ Forget(p)
            /\ UNCHANGED lease
    /\ UNCHANGED <<ec2Vars, opVars, cur, marker, genVars, upsets>>

ReleaseStopsForGood(p) ==  \* mutant: a cycle that a stop ended ends the process
    /\ pc[p] \in EndPc
    /\ lease' = IF HoldsLease(p) THEN None ELSE lease
    /\ Goto(p, CASE pc[p] = "deferred" /\ enabled -> "idle"
                 [] pc[p] = "violated" -> "hold"
                 [] OTHER -> "done")
    /\ Forget(p)
    /\ UNCHANGED <<ec2Vars, opVars, cur, marker, genVars, upsets>>

\* the finally block of cycle(): delete the lease if it is still ours
ReleaseLease(p) ==
    /\ pc[p] \in EndPc
    /\ lease' = IF HoldsLease(p) THEN None ELSE lease
    /\ Goto(p, CASE pc[p] = "deferred" -> "idle"
                 [] pc[p] = "violated" -> "hold"
                 [] OTHER -> "done")
    /\ Forget(p)
    /\ UNCHANGED <<ec2Vars, opVars, cur, marker, genVars, upsets>>

-----------------------------------------------------------------------------
(* retire_predecessor *)

\* Where a cycle goes once retire_predecessor returned r: the first call comes
\* before provisioning, the second (mem.ready) before continuation and handoff.
AfterRetireUnproved(p, r) ==  \* mutant: goes on while the predecessor is alive
    IF mem[p].ready THEN "continue"
    ELSE IF Boundary(p[1], mem[p].pins) THEN "finished" ELSE "find"
AfterRetire(p, r) ==
    IF mem[p].ready THEN (IF r THEN "continue" ELSE "deferred")
    ELSE IF Boundary(p[1], mem[p].pins)
         THEN (IF r THEN "finished" ELSE "deferred")
         ELSE "find"

\* is_current_owner() after the lease; generation zero has nothing to retire
CheckOwnership(p) ==
    /\ At(p, "recheck")
    /\ IF ~IsCurrentOwner(cur, p[1])
       THEN Goto(p, "deferred") /\ UNCHANGED mem
       ELSE IF p[1] = 0
            THEN /\ Goto(p, AfterRetire(p, TRUE))
                 /\ Remember(p, [mem[p] EXCEPT !.retired = TRUE])
            ELSE Goto(p, "retire") /\ UNCHANGED mem
    /\ UNCHANGED <<ec2Vars, opVars, cur, lease, marker, genVars, upsets>>

\* What the snapshot's CURRENT says of the retirement: the code's checks in order
RetirementEvidence(p) ==
    LET c == mem[p].cur IN
    IF ~c.authorized THEN "violated"
    ELSE IF c.pins # mem[p].pins THEN "deferred"
    ELSE IF c.boundary # Boundary(p[1], mem[p].pins) THEN "violated"
    ELSE IF c.completed THEN "completed"
    ELSE IF ec2[p[1]] # "running" THEN "deferred"
    ELSE "due"

RetirePredecessor(p) ==
    /\ At(p, "retire")
    /\ \/ /\ RetirementEvidence(p) = "due"
          /\ RenewLease(p, "retire", TRUE, "retireLook")
          /\ UNCHANGED mem
       \/ /\ RetirementEvidence(p) = "completed"
          /\ Goto(p, AfterRetire(p, TRUE))
          /\ Remember(p, [mem[p] EXCEPT !.retired = TRUE])
          /\ UNCHANGED <<ec2Vars, opVars, cur, lease, marker, genVars, upsets>>
       \/ /\ RetirementEvidence(p) \in EndPc
          /\ Goto(p, RetirementEvidence(p))
          /\ UNCHANGED <<ec2Vars, opVars, cur, lease, marker, genVars, mem, upsets>>

\* Mutant: a dying predecessor counts as terminated
DescribeDyingAsDead(p) ==
    Check(p, "retireLook", ec2[p[1] - 1] # "none",
          IF ec2[p[1] - 1] \in {"pending", "running"} THEN "retireControl"
          ELSE "retireAlarm")

\* describe_instance of the predecessor: absence is never proof of termination
DescribePredecessor(p) ==
    LET old == ec2[p[1] - 1] IN
    Check(p, "retireLook", old # "none",
          CASE old \in {"pending", "running"} -> "retireControl"
            [] old = "terminated" -> "retireAlarm"
            [] OTHER -> AfterRetire(p, FALSE))

\* ownership and fresh controls: the last reads before TerminateInstances
CheckRetirementControl(p) ==
    Check(p, "retireControl", IsCurrentOwner(cur, p[1]) /\ SameOpenControl(p),
          "terminate")

TerminateSelf(p) ==  \* mutant: CURRENT's instance ID in place of its predecessor's
    /\ At(p, "terminate")
    /\ ec2' = [ec2 EXCEPT ![p[1]] = "shutting-down"]
    /\ Goto(p, AfterRetire(p, FALSE))
    /\ UNCHANGED <<visible, inflight, launches, alarm, opVars, cur, lease,
                   marker, genVars, mem, upsets>>
TerminatePredecessor(p) ==
    LET old == p[1] - 1 IN
    /\ At(p, "terminate")
    /\ ec2' = [ec2 EXCEPT ![old] =
                  IF @ = "terminated" THEN @ ELSE "shutting-down"]
    /\ Goto(p, AfterRetire(p, FALSE))
    /\ UNCHANGED <<visible, inflight, launches, alarm, opVars, cur, lease,
                   marker, genVars, mem, upsets>>

\* delete_status_alarm; generation zero's alarm belongs to the seed stack
DeleteStatusAlarm(p) ==
    /\ At(p, "retireAlarm")
    /\ alarm' = IF p[1] > 1 THEN alarm \ {p[1] - 1} ELSE alarm
    /\ Goto(p, "retireMark")
    /\ UNCHANGED <<ec2, visible, inflight, launches, opVars, cur, lease,
                   marker, genVars, mem, upsets>>

\* mark_retirement_completed: conditional on the exact CURRENT record
MarkRetirementCompleted(p) ==
    LET ok == ~cleaning /\ IsCurrentOwner(cur, p[1]) /\ cur.authorized IN
    /\ At(p, "retireMark")
    /\ cur' = IF ok THEN [cur EXCEPT !.completed = TRUE] ELSE cur
    /\ Goto(p, IF ok THEN AfterRetire(p, TRUE) ELSE "deferred")
    /\ Remember(p, [mem[p] EXCEPT !.retired = ok])
    /\ UNCHANGED <<ec2Vars, opVars, lease, marker, genVars, upsets>>

-----------------------------------------------------------------------------
(* provision_successor *)

\* find_successor: the filtered inventory may not show the instance yet
FindSuccessor(p) ==
    LET n == p[1] + 1 IN
    Check(p, "find", n \notin visible \/ ec2[n] \in {"pending", "running"},
          IF n \in visible THEN "reconcile" ELSE "capacity")

\* reconcile_ec2_submission up to the RESOURCE record
ReconcileSubmission(p) ==
    LET n == p[1] + 1
        ok == marker \in {None, n} /\ ~cleaning
    IN  /\ At(p, "reconcile")
        /\ resource' = IF ok THEN resource \cup {n} ELSE resource
        /\ Goto(p, IF ~ok THEN "deferred"
                   ELSE IF marker = n THEN "endMarker" ELSE "alarm")
        /\ UNCHANGED <<ec2Vars, opVars, cur, lease, marker, submission, state,
                       fresh, mem, upsets>>

CheckCapacity(p) == Check(p, "capacity", HasCapacity, "provisionControl")

CheckProvisionControl(p) ==
    Check(p, "provisionControl", SameOpenControl(p), "provisionRenew")

\* lease renewal, then ownership
RenewForProvision(p) ==
    /\ RenewLease(p, "provisionRenew", IsCurrentOwner(cur, p[1]), "claim")
    /\ UNCHANGED mem

\* The conditional puts of the marker and of GEN#n SUBMISSION
UnclaimedMarker(n) == marker = None   \* mutant: the marker alone is the intent
Unclaimed(n) == marker = None /\ n \notin submission

\* claim_submission: the durable intent precedes the request
ClaimSubmission(p) ==
    LET n == p[1] + 1
        ok == Open /\ Unclaimed(n)
    IN  /\ At(p, "claim")
        /\ marker' = IF ok THEN n ELSE marker
        /\ submission' = IF ok THEN submission \cup {n} ELSE submission
        /\ Goto(p, IF ok THEN "lastControl" ELSE "deferred")
        /\ UNCHANGED <<ec2Vars, opVars, cur, lease, resource, state, fresh,
                       mem, upsets>>

\* the last AWS operation before RunInstances
CheckLastControl(p) == Check(p, "lastControl", SameOpenControl(p), "run")

\* run_instance sends the request; EC2 decides it, perhaps after the caller gave up
RunInstance(p) ==
    LET n == p[1] + 1 IN
    /\ At(p, "run")
    /\ inflight' = inflight \cup {n}
    /\ launches' = [launches EXCEPT ![n] = @ + 1]
    /\ Goto(p, "runWait")
    /\ UNCHANGED <<ec2, visible, alarm, opVars, cur, lease, marker, genVars,
                   mem, upsets>>

ReturnsUnrecorded(p) ==  \* mutant: the marker is released before the record
    /\ p[1] + 1 \notin inflight
    /\ Check(p, "runWait", ec2[p[1] + 1] # "none", "endMarker")
RunInstanceReturns(p) ==
    /\ p[1] + 1 \notin inflight
    /\ Check(p, "runWait", ec2[p[1] + 1] # "none", "record")

\* _record_ec2_submission: the exact instance ID, before the marker is released
RecordSubmission(p) ==
    /\ At(p, "record")
    /\ resource' = IF cleaning THEN resource ELSE resource \cup {p[1] + 1}
    /\ Goto(p, IF cleaning THEN "deferred" ELSE "endMarker")
    /\ UNCHANGED <<ec2Vars, opVars, cur, lease, marker, submission, state,
                   fresh, mem, upsets>>

\* _end_provisioning: only the marker with this launch's token
EndProvisioning(p) ==
    LET ok == marker = p[1] + 1 IN
    /\ At(p, "endMarker")
    /\ marker' = IF ok THEN None ELSE marker
    /\ Goto(p, IF ok THEN "alarm" ELSE "deferred")
    /\ UNCHANGED <<ec2Vars, opVars, cur, lease, genVars, mem, upsets>>

EnsureStatusAlarm(p) ==
    /\ At(p, "alarm")
    /\ alarm' = alarm \cup {p[1] + 1}
    /\ Goto(p, "wait")
    /\ UNCHANGED <<ec2, visible, inflight, launches, opVars, cur, lease,
                   marker, genVars, mem, upsets>>

-----------------------------------------------------------------------------
(* wait_for_ready_successor, continuation_preflight, conditional_handoff *)

WaitRenew(p) ==
    /\ RenewLease(p, "wait", SameOpenControl(p), "waitLook")
    /\ UNCHANGED mem

\* Ready, unavailable, or poll again until the readiness timeout
WaitLook(p) ==
    LET n == p[1] + 1
        ready == ec2[n] = "running" /\ Eligible(state[n], n, mem[p].pins)
    IN  /\ At(p, "waitLook")
        /\ \/ /\ ready
              /\ Goto(p, IF mem[p].retired THEN "continue" ELSE "retire")
              /\ Remember(p, [mem[p] EXCEPT !.ready = TRUE])
           \/ /\ ~ready
              /\ \/ ec2[n] \in {"pending", "running"} /\ Goto(p, "wait")
                 \/ Goto(p, "deferred")
              /\ UNCHANGED mem
        /\ UNCHANGED <<ec2Vars, opVars, cur, lease, marker, genVars, upsets>>

\* continuation_preflight: capacity for the generation after the successor
CheckContinuation(p) ==
    Check(p, "continue", Boundary(p[1] + 1, mem[p].pins) \/ HasCapacity,
          IF Boundary(p[1] + 1, mem[p].pins) THEN "handoffLook"
          ELSE "continueControl")

\* renewal, fresh control and the unexecuted RunInstances of the next hop
CheckContinuationControl(p) ==
    /\ RenewLease(p, "continueControl", SameOpenControl(p), "handoffLook")
    /\ UNCHANGED mem

\* conditional_handoff: the successor's instance and STATE are read again
ReadCandidate(p) ==
    LET n == p[1] + 1 IN
    /\ RenewLease(p, "handoffLook",
                  ec2[n] = "running" /\ Eligible(state[n], n, mem[p].pins),
                  "handoffControl")
    /\ Remember(p, [mem[p] EXCEPT !.st = state[n]])

\* final controls; the proof must still be fresh; lease_now is sampled here
CheckHandoffControl(p) ==
    LET ok == SameOpenControl(p) /\ p[1] + 1 \in fresh IN
    /\ At(p, "handoffControl")
    /\ Goto(p, IF ok THEN "commit" ELSE "deferred")
    /\ Remember(p, [mem[p] EXCEPT !.leaseOK = lease # None /\ ~lease.expired])
    /\ UNCHANGED <<ec2Vars, opVars, cur, lease, marker, genVars, upsets>>

\* The condition checks of the handoff transaction
HandoffUnderOldControl(p) ==  \* mutant: the gates are not checked in the transaction
    HoldsLease(p) /\ IsCurrentOwner(cur, p[1]) /\ state[p[1] + 1] = mem[p].st
HandoffConditions(p) ==
    /\ SameOpenControl(p)
    /\ HoldsLease(p) /\ mem[p].leaseOK
    /\ IsCurrentOwner(cur, p[1])
    /\ state[p[1] + 1] = mem[p].st

\* handoff(): one transaction over lifecycle, CONTROL, HOLD, lease, CURRENT and
\* the exact candidate STATE.  The new CURRENT replaces every field of the old.
ConditionalHandoff(p) ==
    LET n == p[1] + 1
        ok == HandoffConditions(p)
    IN  /\ At(p, "commit")
        /\ cur' = IF ok THEN [status |-> "CURRENT", gen |-> n,
                              pins |-> mem[p].pins,
                              boundary |-> Boundary(n, mem[p].pins),
                              authorized |-> TRUE, completed |-> FALSE]
                  ELSE cur
        /\ Goto(p, IF ok THEN "finished" ELSE "deferred")
        /\ UNCHANGED <<ec2Vars, opVars, lease, marker, genVars, mem, upsets>>

-----------------------------------------------------------------------------
(* Emergency hold: the Lambda sets HOLD and marks the generation ERROR *)

CreateHold(g) ==
    /\ hold' = TRUE
    /\ state' = [state EXCEPT ![g].status = "ERROR"]
    /\ UNCHANGED <<ec2Vars, pins, switches, enabled, cleaning, cur, lease,
                   marker, submission, resource, fresh>>

\* run() returns 2 after a SafetyViolation, and systemd restarts the process
InvokeHold(p) ==
    /\ At(p, "hold")
    /\ IF cleaning
       THEN UNCHANGED <<ec2Vars, opVars, cur, lease, marker, genVars>>
       ELSE CreateHold(p[1])
    /\ Goto(p, "down") /\ Forget(p)
    /\ UNCHANGED upsets

-----------------------------------------------------------------------------
(* The operator and the lifecycle Lambda; with the faults, at most MaxUpsets *)

Upset == upsets < MaxUpsets /\ upsets' = upsets + 1

Move(kind) == kind \in Moves /\ Upset

\* A request may be added to a pending one: lifecycle.py (build_control_request) refuses
\* to, but the operator may also set the fields of CONTROL/GLOBAL directly.
RequestSwitch(s) ==
    /\ Move(s) /\ s \notin switches
    /\ switches' = switches \cup {s}
    /\ UNCHANGED <<ec2Vars, pins, enabled, cleaning, hold, cur, lease, marker,
                   genVars, pc, mem>>

\* consume_command: two switches at once are both rejected; start is refused
\* during cleanup, under a hold, or before the seed owns CURRENT
ConsumeCommand ==
    /\ switches # {}
    /\ switches' = {}
    /\ enabled' = CASE switches = {"start"} ->
                           enabled \/ (~cleaning /\ ~hold /\ cur.status = "CURRENT")
                    [] switches \in {{"stop"}, {"cleanup"}} -> FALSE
                    [] OTHER -> enabled
    /\ cleaning' = (cleaning \/ switches = {"cleanup"})
    /\ UNCHANGED <<ec2Vars, pins, hold, cur, lease, marker, genVars, pc, mem,
                   upsets>>

\* an operator invokes the hold function for the owner or for its candidate
OperatorHold(g) ==
    /\ Move("hold") /\ ~cleaning
    /\ CreateHold(g)
    /\ UNCHANGED <<pc, mem>>

\* clear_emergency_hold.py deletes HOLD/ACTIVE; the ERROR status stays
ClearHold ==
    /\ Move("clear") /\ hold
    /\ hold' = FALSE
    /\ UNCHANGED <<ec2Vars, pins, switches, enabled, cleaning, cur, lease,
                   marker, genVars, pc, mem>>

\* An update of CONTROL's approved fields that _validated_control accepts (one that it
\* rejects is a SafetyViolation of every daemon that reads it)
EditControl(v) ==
    /\ Move("edit") /\ pins # v
    /\ pins' = v
    /\ UNCHANGED <<ec2Vars, switches, enabled, cleaning, hold, cur, lease,
                   marker, genVars, pc, mem>>

-----------------------------------------------------------------------------
(* EC2 and time *)

\* EC2 accepts a submitted request; the filtered inventory shows it later
AcceptLaunch(n) ==
    /\ n \in inflight
    /\ inflight' = inflight \ {n}
    /\ ec2' = [ec2 EXCEPT ![n] = IF @ = "none" THEN "pending" ELSE @]
    /\ UNCHANGED <<visible, launches, alarm, opVars, cur, lease, marker,
                   genVars, pc, mem, upsets>>

InventoryShows(n) ==
    /\ ec2[n] # "none" /\ n \notin visible
    /\ visible' = visible \cup {n}
    /\ UNCHANGED <<ec2, inflight, launches, alarm, opVars, cur, lease, marker,
                   genVars, pc, mem, upsets>>

InstanceRuns(n) ==
    /\ ec2[n] = "pending"
    /\ ec2' = [ec2 EXCEPT ![n] = "running"]
    /\ UNCHANGED <<visible, inflight, launches, alarm, opVars, cur, lease,
                   marker, genVars, pc, mem, upsets>>

\* The instance is gone with its processes; a lease of theirs remains
InstanceEnds(n) ==
    /\ ec2' = [ec2 EXCEPT ![n] = "terminated"]
    /\ pc' = [p \in Daemon |-> IF p[1] = n THEN "gone" ELSE pc[p]]
    /\ mem' = [p \in Daemon |-> IF p[1] = n THEN Blank ELSE mem[p]]
    /\ UNCHANGED <<visible, inflight, launches, alarm, opVars, cur, lease,
                   marker, genVars>>

InstanceTerminates(n) ==
    /\ ec2[n] = "shutting-down"
    /\ InstanceEnds(n)
    /\ UNCHANGED upsets

\* A lease nobody will renew runs out
LeaseLapses ==
    /\ lease # None /\ ~lease.expired
    /\ lease.stale \/ pc[lease.owner] \notin LeasePc \cup EndPc
    /\ lease' = [lease EXCEPT !.expired = TRUE]
    /\ UNCHANGED <<ec2Vars, opVars, cur, marker, genVars, pc, mem, upsets>>

-----------------------------------------------------------------------------
(* Faults *)

Fault(kind) == kind \in FaultKinds /\ Upset

\* The process exits: no finally block has run, and its lease uuid is lost
Crash(p) ==
    /\ Fault("crash")
    /\ pc[p] \notin {"down", "done", "gone"}
    /\ Goto(p, "down") /\ Forget(p)
    /\ lease' = IF HoldsLease(p) THEN [lease EXCEPT !.stale = TRUE] ELSE lease
    /\ UNCHANGED <<ec2Vars, opVars, cur, marker, genVars>>

\* An AWS call fails, or succeeds and its response is lost.  The lost response of
\* a write is this fault at the step after the write.
CallFails(p) ==
    /\ Fault("call")
    /\ \/ pc[p] \in LeasePc /\ Goto(p, "deferred") /\ UNCHANGED mem
       \/ pc[p] \in EndPc \ {"violated"} /\ Forget(p)
          /\ Goto(p, IF pc[p] = "finished" THEN "done" ELSE "idle")
       \/ pc[p] = "finished" /\ Goto(p, "deferred") /\ UNCHANGED mem
       \/ pc[p] = "recheck" /\ Goto(p, "idle") /\ Forget(p)
       \/ pc[p] \in ProbePc /\ Goto(p, "publish") /\ UNCHANGED mem
       \/ pc[p] \in {"publish", "acquire"} /\ Goto(p, "idle") /\ Forget(p)
       \/ pc[p] \in {"claimCurrent", "hold"} /\ Goto(p, "down") /\ UNCHANGED mem
    /\ UNCHANGED <<ec2Vars, opVars, cur, lease, marker, genVars>>

\* EC2 rejects the request before creating anything
RejectLaunch(n) ==
    /\ Fault("reject")
    /\ n \in inflight
    /\ inflight' = inflight \ {n}
    /\ UNCHANGED <<ec2, visible, launches, alarm, opVars, cur, lease, marker,
                   genVars, pc, mem>>

\* An instance dies without being asked to
InstanceFails(n) ==
    /\ Fault("instance")
    /\ ec2[n] = "running"
    /\ InstanceEnds(n)

\* Fifteen seconds pass since the checks of a published proof began
ProofAges(n) ==
    /\ Fault("slow")
    /\ n \in fresh
    /\ fresh' = fresh \ {n}
    /\ UNCHANGED <<ec2Vars, opVars, cur, lease, marker, submission, resource,
                   state, pc, mem>>

\* The holder stalls past the expiry of its lease
LeaseExpiresUnderHolder ==
    /\ Fault("slow")
    /\ lease # None /\ ~lease.expired /\ ~lease.stale
    /\ pc[lease.owner] \in LeasePc \cup EndPc
    /\ lease' = [lease EXCEPT !.expired = TRUE]
    /\ UNCHANGED <<ec2Vars, opVars, cur, marker, genVars, pc, mem>>

-----------------------------------------------------------------------------

Init ==
    /\ ec2 = [g \in Gen |-> IF g = 0 THEN "running" ELSE "none"]
    /\ visible = {0} /\ inflight = {} /\ alarm = {}
    /\ launches = [g \in Gen |-> 0]
    /\ pins \in Pins /\ switches = {} /\ enabled = TRUE
    /\ cleaning = FALSE /\ hold = FALSE
    /\ cur = Uninitialized /\ lease = None /\ marker = None
    /\ submission = {} /\ resource = {} /\ fresh = {}
    /\ state = [g \in Gen |-> NoState]
    /\ pc = [p \in Daemon |-> "down"]
    /\ mem = [p \in Daemon |-> Blank]
    /\ upsets = 0

Start(p) == Boot(p) \/ ClaimCurrent(p) \/ ReadCycleSnapshot(p) \/ InvokeHold(p)
Publish(p) ==
    ProbeCapacity(p) \/ ProbeControl(p) \/ ProbeFinal(p) \/ WriteHeartbeat(p)
HoldLease(p) == AcquireLease(p) \/ ReleaseLease(p) \/ CheckOwnership(p)
Retire(p) ==
    \/ RetirePredecessor(p) \/ DescribePredecessor(p)
    \/ CheckRetirementControl(p) \/ TerminatePredecessor(p)
    \/ DeleteStatusAlarm(p) \/ MarkRetirementCompleted(p)
Provision(p) ==
    \/ FindSuccessor(p) \/ ReconcileSubmission(p) \/ CheckCapacity(p)
    \/ CheckProvisionControl(p) \/ RenewForProvision(p) \/ ClaimSubmission(p)
    \/ CheckLastControl(p) \/ RunInstance(p) \/ RunInstanceReturns(p) \/ RecordSubmission(p)
    \/ EndProvisioning(p) \/ EnsureStatusAlarm(p)
Handoff(p) ==
    \/ WaitRenew(p) \/ WaitLook(p) \/ CheckContinuation(p)
    \/ CheckContinuationControl(p) \/ ReadCandidate(p)
    \/ CheckHandoffControl(p) \/ ConditionalHandoff(p)

DaemonStep(p) ==
    Start(p) \/ Publish(p) \/ HoldLease(p) \/ Retire(p) \/ Provision(p) \/ Handoff(p)

OperatorStep ==
    \/ \E s \in Switch : RequestSwitch(s)
    \/ \E g \in {cur.gen, cur.gen + 1} \cap Gen : OperatorHold(g)
    \/ ClearHold
    \/ \E v \in Pins : EditControl(v)

Ec2Step(n) ==
    AcceptLaunch(n) \/ InventoryShows(n) \/ InstanceRuns(n) \/ InstanceTerminates(n)

FaultStep ==
    \/ \E p \in Daemon : Crash(p) \/ CallFails(p)
    \/ \E n \in Gen : RejectLaunch(n) \/ InstanceFails(n) \/ ProofAges(n)
    \/ LeaseExpiresUnderHolder

Next ==
    \/ \E p \in Daemon : DaemonStep(p)
    \/ \E n \in Gen : Ec2Step(n)
    \/ OperatorStep \/ ConsumeCommand \/ LeaseLapses \/ FaultStep

Spec == Init /\ [][Next]_vars

\* A running process takes its next step, systemd restarts a failed one, EC2
\* decides, starts, shows and terminates what it was asked to, the stream
\* delivers the operator's command, and an abandoned lease runs out.
Fairness ==
    /\ \A p \in Daemon : WF_vars(DaemonStep(p))
    /\ \A n \in Gen : /\ WF_vars(AcceptLaunch(n)) /\ WF_vars(InventoryShows(n))
                      /\ WF_vars(InstanceRuns(n)) /\ WF_vars(InstanceTerminates(n))
    /\ WF_vars(ConsumeCommand) /\ WF_vars(LeaseLapses)

FairSpec == Spec /\ Fairness

-----------------------------------------------------------------------------
(* Properties *)

\* Every variable has its type.
TypeOK ==
    /\ ec2 \in [Gen -> InstanceState]
    /\ visible \subseteq Gen /\ inflight \subseteq Gen /\ alarm \subseteq Gen
    /\ launches \in [Gen -> Nat]
    /\ pins \in Pins /\ switches \subseteq Switch
    /\ enabled \in BOOLEAN /\ cleaning \in BOOLEAN /\ hold \in BOOLEAN
    /\ cur \in Current /\ lease \in Lease \cup {None}
    /\ marker \in Gen \cup {None}
    /\ submission \subseteq Gen /\ resource \subseteq Gen /\ fresh \subseteq Gen
    /\ state \in [Gen -> GenState]
    /\ pc \in [Daemon -> Pc] /\ mem \in [Daemon -> Memory]
    /\ upsets \in 0..MaxUpsets

Occupying == {g \in Gen : ec2[g] \in Alive \/ g \in inflight}

\* Only CURRENT's generation, its predecessor and its successor can have an
\* instance or an unresolved launch: no ancestor outlives two handoffs, and no
\* launch runs ahead of ownership (decision 0020).
LiveWindow == \A g \in Occupying : g \in (cur.gen - 1)..(cur.gen + 1)

\* Instances and unresolved launches never exceed max_live_generations, although
\* capacity is checked long before RunInstances and against a lagging inventory.
LiveCeiling == Cardinality(Occupying) <= MaxLive

\* One RunInstances per generation, whatever crashes, lost answers and duplicate
\* daemons do: the SUBMISSION intent outlives them all.
OneLaunchPerGeneration == \A g \in Gen : launches[g] <= 1

\* While a launch may still be sent, is undecided, or has no RESOURCE record, the
\* provisioning marker names it: the marker's absence tells cleanup that nothing
\* unrecorded exists or can still appear.
MarkerCoversLaunch ==
    /\ \A g \in Gen : g \in inflight \/ (launches[g] > 0 /\ g \notin resource)
                         => marker = g
    /\ \A p \in Daemon : pc[p] \in {"lastControl", "run"} => marker = p[1] + 1

\* A recorded retirement is true: the predecessor is terminated and no alarm of
\* its generation is left (the seed's alarm belongs to its stack).
RetirementRecordTrue ==
    cur.completed => /\ ec2[cur.gen - 1] = "terminated"
                     /\ cur.gen - 1 \notin alarm

\* A daemon terminates only CURRENT's predecessor, while CURRENT still carries
\* the retirement authorised by the handoff (safety contract, invariant 4).
RetireOnlyAccepted ==
    [][\A g \in Gen :
          ec2[g] \in {"pending", "running"} /\ ec2'[g] = "shutting-down"
             => cur.gen = g + 1 /\ cur.authorized /\ ~cur.completed]_vars

\* Ownership moves to the next generation only, to one that was launched, once
\* every older instance is terminated, and never while stop, cleanup or hold is
\* in force: the retirement intent in CURRENT is not overwritten early.
HandoffAfterRetirement ==
    [][cur'.gen # cur.gen =>
          /\ cur'.gen = cur.gen + 1 /\ launches[cur'.gen] = 1
          /\ \A g \in 0..(cur.gen - 1) : ec2[g] = "terminated"
          /\ Open]_vars

\* With one daemon per instance, no crash, lost answer, slow call or stale
\* inventory makes a daemon raise a SafetyViolation.
NoSelfInflictedHold == \A p \in Daemon : pc[p] \notin {"violated", "hold"}

\* The terminal owner exits only when it is the last instance of the cycle.
TerminalOwnerAlone ==
    \A p \in Daemon : pc[p] = "done" /\ IsCurrentOwner(cur, p[1])
                         => Occupying \subseteq {cur.gen}

\* A chain whose gates finally stay open completes, or stops at a submission intent whose
\* instance never appeared, which only an operator may resolve.
Terminal == cur.status = "CURRENT" /\ Boundary(cur.gen, pins)
            /\ Occupying \subseteq {cur.gen}
UnresolvedIntent == marker # None /\ marker \notin inflight /\ ec2[marker] = "none"
ChainCompletes == <>[]Open => <>Terminal \/ <>[]UnresolvedIntent

-----------------------------------------------------------------------------
(* Refinement *)

\* The life of generation g's instance, from its RunInstances request on.
LifeOf(g) ==
    IF g \in inflight \/ ec2[g] \in {"pending", "running"} THEN "present"
    ELSE IF ec2[g] = "shutting-down" THEN "retiring"
    ELSE IF g # 0 /\ launches[g] = 0 THEN "absent"
    ELSE "gone"

\* The daemons, their records and EC2 together implement Lineage: ownership and
\* instances move as one owner after the other would move them.
Abstract == INSTANCE Lineage WITH owner <- cur.gen, life <- [g \in Gen |-> LifeOf(g)]
ImplementsLineage == Abstract!Spec

=============================================================================
