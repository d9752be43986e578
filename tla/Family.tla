------------------------------- MODULE Family -------------------------------
(***************************************************************************)
(* The family daemons (FamilyDaemon in family_daemon.py, FamilySdkGateway   *)
(* in family_sdk.py, inherited.py): a tree of instances, each of which      *)
(* launches its one or two children, proves that they were launched, accepts *)
(* them as owners, and terminates itself once its own parent is gone and    *)
(* its children have launched theirs.                                       *)
(*                                                                          *)
(* Node 1 is the path "r" and the children of path p are 2p ("p0") and       *)
(* 2p+1 ("p1").  Every transaction is one step, with the reads it rechecks;  *)
(* every call to EC2 is a step of its own.  A step that reads an instance's  *)
(* state just before it writes is one step too: the instance may fail right  *)
(* after the write as well as right before it.                              *)
(* Definitions marked "mutant" are used by no action.                       *)
(***************************************************************************)
EXTENDS Integers, FiniteSets

CONSTANTS
    Node,       \* the paths of the largest tree
    Shapes,     \* possible settings: records [binary, width, upsets]
    Faults      \* kinds of upsets, see Upset

ASSUME NodeAssumption ==
    Node \subseteq Nat \ {0} /\ 1 \in Node
\* binary: binary_fanout_enabled; width: the number of the first node at the depth
\* max_generation; upsets: a bound on faults and operator moves
ASSUME ShapeAssumption ==
    \A s \in Shapes :
        /\ s.binary \in BOOLEAN /\ s.width \in Nat \ {0} /\ s.upsets \in Nat
        /\ \A n \in Node : n < s.width =>
               /\ s.binary => {2 * n, 2 * n + 1} \subseteq Node
               /\ n = 1 \/ n % 2 = 0 => 2 * n \in Node

VARIABLES
    shape,
    db,         \* by path: records NODE, STATE, PROPAGATION, SUBMISSION, RESOURCE, STOP
    ec2,        \* by path: the state of its instance
    disk,       \* by path: is the local stop file there
    run,        \* by path: the daemon process
    work,       \* by path: the parent's worker that launches it
    accepted,   \* by path: launches EC2 has accepted or may yet accept (history)
    enabled, hold, phase,   \* propagation_enabled, HOLD, and the progress of cleanup
    invoked,    \* paths whose asynchronous call of the hold function is under way
    upsets, blame   \* the number of upsets so far, and their kinds (history)

controls == <<enabled, hold, phase>>
hosts == <<ec2, disk>>
log == <<upsets, blame>>
vars == <<shape, db, hosts, run, work, accepted, controls, invoked, log>>

Root == 1
Parent(n) == n \div 2
ChildrenBeyond(n) ==    \* mutant: a line is one generation too long
    IF shape.binary THEN IF n >= shape.width THEN {} ELSE {2 * n, 2 * n + 1}
    ELSE IF n > shape.width THEN {} ELSE {2 * n}
\* child_paths
Children(n) ==
    IF n >= shape.width THEN {}
    ELSE IF shape.binary THEN {2 * n, 2 * n + 1} ELSE {2 * n}
Tree == {n \in Node : n = Root \/ n \in Children(Parent(n))}

Exists == {"pending", "running", "shutting-down", "terminated", "lost"}
\* Instances that EC2 describes as terminated: by themselves, or by a failure or cleanup.
Gone == {"terminated", "lost"}
Owned == {"OWNER", "LEAF", "RETIRING"}
Off == [pc |-> "off", stopped |-> FALSE, recorded |-> FALSE, wait |-> "none"]

\* One upset of the given kind: crash, call (a call fails or its answer is lost),
\* throttle, unanswered (a launch without an answer), unconfirmed (a termination without
\* one, or a crash after it), exhausted (eight failures of one write in a row), slow (a
\* delay past a timeout), loss (of an instance), stop, hold, cleanup.
Upset(kind) ==
    /\ kind \in Faults /\ upsets < shape.upsets
    /\ upsets' = upsets + 1 /\ blame' = blame \cup {kind}

-----------------------------------------------------------------------------
(* Conditions of the transactions *)

\* cycle_check: plain, for bookkeeping, and with everything that transact adds if final
PlainGate == phase = "IDLE"
Bookkeeping == phase \in {"IDLE", "QUIESCING"}
FinalGate(n) == PlainGate /\ enabled /\ ~hold /\ ~db[n].stop

OwnerCheck(n) == db[n].node = "OWNER"

\* launch_evidence_checks of the children of n
Launched(n) ==
    \A c \in Children(n) :
        /\ db[c].sub = "settled" /\ db[c].res # "none"
        /\ ec2[c] \in {"pending", "running"}
\* propagation_checks of n
Continues(n) == Children(n) = {} \/ (db[n].prop /\ Launched(n))

Eligible(n) == db[n].state = "fresh" /\ ec2[n] = "running"

RemoteStopRecorded(n) ==    \* mutant: propagation_enabled is not read
    hold \/ db[n].stop \/ (n # Root /\ db[Parent(n)].stop)
\* poll_stopped, read by the monitor of n
RemoteStop(n) ==
    \/ ~enabled \/ hold \/ ~PlainGate \/ db[n].stop
    \/ n # Root /\ db[Parent(n)].stop

At(n, label) == run[n].pc = label /\ ec2[n] \in {"running", "shutting-down"}
Goto(n, label) == run' = [run EXCEPT ![n].pc = label]
Write(n, field, value) == db' = [db EXCEPT ![n][field] = value]

\* A tick of the monitor before a step lets it through.
Free(n, label) == At(n, label) /\ ~run[n].stopped

-----------------------------------------------------------------------------
(* Start-up and the head of a cycle *)

\* run: the stop file is read back, verify_family_self and initialize_node; when the
\* transaction is cancelled, the process exits and systemd starts it again.
Boot(n) ==
    /\ run[n].pc = "off" /\ ec2[n] = "running"
    /\ \/ db[n].node # "none" /\ UNCHANGED db
       \/ /\ db[n].node = "none" /\ PlainGate
          /\ db' = [db EXCEPT ![n].node = IF n = Root THEN "OWNER" ELSE "CANDIDATE",
                              ![n].res = "recorded"]
    /\ run' = [run EXCEPT ![n] = [Off EXCEPT !.pc = "top", !.stopped = disk[n]]]
    /\ UNCHANGED <<shape, hosts, work, accepted, controls, invoked, log>>

\* The same while the instance shuts down, when EC2 may already omit details of it that
\* verify_family_self compares.  Only a node of which NODE is written gets here.
BootDying(n) ==
    /\ run[n].pc = "off" /\ ec2[n] = "shutting-down"
    /\ \E next \in {"top", "violated"} :
           run' = [run EXCEPT ![n] = [Off EXCEPT !.pc = next, !.stopped = disk[n]]]
    /\ UNCHANGED <<shape, db, hosts, work, accepted, controls, invoked, log>>

\* ancestor_state: an ancestor that is not running must have a retirement receipt
Lawful(a) == ec2[a] \in {"pending", "running"} \/ db[a].node = "RETIRING"

\* single_launch_ready: below the root's child, the grandparent must be gone
GrandparentIgnored(n) == TRUE   \* mutant: launches one generation ahead
SingleLaunchReady(n) == Parent(n) = Root \/ ec2[Parent(Parent(n))] \in Gone

\* The owner goes on to its launches, unless it must wait or has waited too long.
BeginLaunch(n) ==
    LET above == ~shape.binary /\ n # Root /\ Parent(n) # Root
    IN  IF above /\ ~Lawful(Parent(Parent(n))) THEN Goto(n, "violated")
        ELSE IF above /\ ~SingleLaunchReady(n) THEN Goto(n, "top")
        ELSE IF run[n].wait = "over" /\ ~run[n].recorded THEN Goto(n, "violated")
        ELSE run' = [run EXCEPT ![n].pc = "launch",
                         ![n].wait = IF @ = "none" THEN "started" ELSE @]

\* cycle: publish_readiness, unless the last one is recent, then the owner's part
PublishReadiness(n) ==
    /\ Free(n, "top") /\ db[n].node # "RETIRING"
    /\ \/ PlainGate /\ db[n].state \in {"none", "stale"}
       \/ db[n].state = "fresh"
    /\ Write(n, "state", "fresh")
    /\ IF OwnerCheck(n) /\ Children(n) # {} THEN BeginLaunch(n) ELSE UNCHANGED run
    /\ UNCHANGED <<shape, hosts, work, accepted, controls, invoked, log>>

\* mark_leaf
MarkLeaf(n) ==
    /\ Free(n, "top") /\ db[n].state = "fresh" /\ Children(n) = {}
    /\ PlainGate /\ OwnerCheck(n) /\ Write(n, "node", "LEAF")
    /\ UNCHANGED <<shape, hosts, run, work, accepted, controls, invoked, log>>

-----------------------------------------------------------------------------
(* launch_child, submit_child and record_child, by one worker for each child *)

Busy == {"begin", "send", "reject", "record", "settle"}
Working(c, step) ==
    work[c] = step /\ ec2[Parent(c)] \in {"running", "shutting-down"}

\* The owner's thread ticks before it submits each child to a worker.
StartWorker(n, c) ==
    /\ Free(n, "launch") /\ c \in Children(n) /\ work[c] = "idle"
    /\ \A d \in Children(n) : d < c => work[d] # "idle"
    /\ work' = [work EXCEPT ![c] = "begin"]
    /\ UNCHANGED <<shape, db, hosts, run, accepted, controls, invoked, log>>

\* Nothing was ever submitted, or EC2 rejected it explicitly: the intent (without the
\* permission to repeat it) is written first.
AnyUnsettled(c) ==      \* mutant: whatever is not settled and not visible
    db[c].sub # "settled" /\ ec2[c] \notin Exists
MaySubmit(c) ==
    db[c].sub = "none" \/ (db[c].sub = "rejected" /\ ec2[c] \notin Exists)
LaunchIntent(c) ==
    LET p == Parent(c)
    IN  /\ Working(c, "begin") /\ MaySubmit(c)
        /\ IF OwnerCheck(p) /\ PlainGate
           THEN /\ Write(c, "sub", "intent")
                /\ work' = [work EXCEPT ![c] = "send"]
           ELSE work' = [work EXCEPT ![c] = "failed"] /\ UNCHANGED db
        /\ UNCHANGED <<shape, hosts, run, accepted, controls, invoked, log>>

ReconcileImpatiently(c) ==  \* mutant: an unknown outcome is a violation
    /\ Working(c, "begin") /\ ~MaySubmit(c)
    /\ work' = [work EXCEPT ![c] =
                   IF ec2[c] \notin Exists \cup {"requested"} THEN "violated"
                   ELSE IF db[c].sub = "settled" THEN "done" ELSE "record"]
    /\ UNCHANGED <<shape, db, hosts, run, accepted, controls, invoked, log>>
\* An earlier submission is looked up; a terminated instance no longer matches its
\* specification.
Reconcile(c) ==
    /\ Working(c, "begin") /\ ~MaySubmit(c)
    /\ work' = [work EXCEPT ![c] =
                   IF ec2[c] \notin Exists THEN "failed"
                   ELSE IF ec2[c] \in Gone THEN "violated"
                   ELSE IF db[c].sub = "settled" THEN "done" ELSE "record"]
    /\ UNCHANGED <<shape, db, hosts, run, accepted, controls, invoked, log>>

\* RunInstances: accepted; or refused by the request limit; or unanswered, to be
\* accepted later or not at all.
Send(c) ==
    /\ Working(c, "send")
    /\ \/ /\ ec2' = [ec2 EXCEPT ![c] = "pending"]
          /\ work' = [work EXCEPT ![c] = "record"]
          /\ accepted' = [accepted EXCEPT ![c] = @ + 1]
          /\ UNCHANGED log
       \/ /\ Upset("throttle")
          /\ work' = [work EXCEPT ![c] = "reject"]
          /\ UNCHANGED <<ec2, accepted>>
       \/ /\ Upset("unanswered")
          /\ ec2' = [ec2 EXCEPT ![c] = "requested"]
          /\ work' = [work EXCEPT ![c] = "failed"]
          /\ accepted' = [accepted EXCEPT ![c] = @ + 1]
    /\ UNCHANGED <<shape, db, disk, run, controls, invoked>>

\* The rejection is recorded, in up to eight attempts, before any other request.
RecordRejection(c) ==
    /\ Working(c, "reject")
    /\ IF Bookkeeping
       THEN Write(c, "sub", "rejected") /\ work' = [work EXCEPT ![c] = "failed"]
       ELSE work' = [work EXCEPT ![c] = "violated"] /\ UNCHANGED db
    /\ UNCHANGED <<shape, hosts, run, accepted, controls, invoked, log>>

SettlesFirst(c) ==      \* mutant: the submission is settled before the record
    /\ Working(c, "record") /\ Bookkeeping
    /\ Write(c, "sub", "settled") /\ work' = [work EXCEPT ![c] = "settle"]
    /\ UNCHANGED <<shape, hosts, run, accepted, controls, invoked, log>>
RecordChild(c) ==
    /\ Working(c, "record")
    /\ IF Bookkeeping
       THEN Write(c, "res", "recorded") /\ work' = [work EXCEPT ![c] = "settle"]
       ELSE work' = [work EXCEPT ![c] = "failed"] /\ UNCHANGED db
    /\ UNCHANGED <<shape, hosts, run, accepted, controls, invoked, log>>

\* After the alarm.
SettleChild(c) ==
    /\ Working(c, "settle")
    /\ IF Bookkeeping
       THEN Write(c, "sub", "settled") /\ work' = [work EXCEPT ![c] = "done"]
       ELSE work' = [work EXCEPT ![c] = "failed"] /\ UNCHANGED db
    /\ UNCHANGED <<shape, hosts, run, accepted, controls, invoked, log>>

\* A call of a worker fails, or its answer is lost after it took effect; recording a
\* rejection fails eight times.
WorkerFails(c) ==
    /\ \/ /\ work[c] \in {"begin", "record", "settle"} /\ Upset("call")
          /\ work' = [work EXCEPT ![c] = "failed"]
       \/ /\ work[c] = "reject" /\ Upset("exhausted")
          /\ work' = [work EXCEPT ![c] = "violated"]
    /\ UNCHANGED <<shape, db, hosts, run, accepted, controls, invoked>>

Quiet(n) == \A c \in Children(n) : work[c] \notin Busy
Dismiss(n) == work' = [c \in Node |-> IF c \in Children(n) THEN "idle" ELSE work[c]]

\* All workers have finished; the first result that is an error is the one raised.
AwaitWorkers(n) ==
    LET bad == {c \in Children(n) : work[c] # "done"}
    IN  /\ At(n, "launch") /\ Quiet(n) /\ \A c \in Children(n) : work[c] # "idle"
        /\ Goto(n, IF bad = {} THEN IF run[n].recorded THEN "accept" ELSE "propagate"
                   ELSE IF work[CHOOSE c \in bad : \A d \in bad : c <= d] = "violated"
                        THEN "violated" ELSE "top")
        /\ Dismiss(n)
        /\ UNCHANGED <<shape, db, hosts, accepted, controls, invoked, log>>

-----------------------------------------------------------------------------
(* Handing over to the children *)

PublishAnew(n) ==       \* mutant: an existing receipt is a conflict
    /\ Free(n, "propagate")
    /\ IF Launched(n) /\ ~db[n].prop /\ OwnerCheck(n) /\ FinalGate(n)
       THEN /\ Write(n, "prop", TRUE)
            /\ run' = [run EXCEPT ![n].pc = "accept", ![n].recorded = TRUE]
       ELSE Goto(n, "top") /\ UNCHANGED db
    /\ UNCHANGED <<shape, hosts, work, accepted, controls, invoked, log>>
\* publish_propagation: the receipt is written once, with fresh evidence
PublishPropagation(n) ==
    /\ Free(n, "propagate")
    /\ IF Launched(n) /\ (db[n].prop \/ (OwnerCheck(n) /\ FinalGate(n)))
       THEN /\ Write(n, "prop", TRUE)
            /\ run' = [run EXCEPT ![n].pc = "accept", ![n].recorded = TRUE]
       ELSE Goto(n, "top") /\ UNCHANGED db
    /\ UNCHANGED <<shape, hosts, work, accepted, controls, invoked, log>>

\* accept_child, child by child; the cycle ends at the first that is not eligible
AcceptChild(n, c) ==
    /\ Free(n, "accept") /\ c \in Children(n) /\ db[c].node = "CANDIDATE"
    /\ \A d \in Children(n) : d < c => Eligible(d) /\ db[d].node \in Owned
    /\ Eligible(c)
    /\ IF OwnerCheck(n) /\ FinalGate(n) /\ ~db[c].stop
       THEN Write(c, "node", "OWNER") /\ UNCHANGED run
       ELSE Goto(n, "top") /\ UNCHANGED db
    /\ UNCHANGED <<shape, hosts, work, accepted, controls, invoked, log>>
ChildNotReady(n) ==
    /\ Free(n, "accept")
    /\ \E c \in Children(n) : ~Eligible(c)
    /\ Goto(n, IF run[n].wait = "over" THEN "violated" ELSE "top")
    /\ UNCHANGED <<shape, db, hosts, work, accepted, controls, invoked, log>>

\* parent_terminated: the parent's termination is confirmed in its RESOURCE record
ParentGate(n, next) ==
    LET p == Parent(n)
    IN  IF n = Root THEN Goto(n, next) /\ UNCHANGED db
        ELSE IF ~Lawful(p) THEN Goto(n, "violated") /\ UNCHANGED db
        ELSE IF ec2[p] \in Gone /\ Bookkeeping
             THEN Write(p, "res", "gone") /\ Goto(n, next)
             ELSE Goto(n, "top") /\ UNCHANGED db
ChildrenAccepted(n) ==
    /\ Free(n, "accept")
    /\ \A c \in Children(n) : Eligible(c) /\ db[c].node \in Owned
    /\ ParentGate(n, "authorize")
    /\ UNCHANGED <<shape, hosts, work, accepted, controls, invoked, log>>

\* authorize_retirement of n, whose NODE must have the given status
Ready(n) ==
    \A c \in Children(n) :
        /\ Eligible(c) /\ db[c].node \in Owned
        /\ Children(c) # {} => db[c].prop
AuthorizedByReadiness(n, status) ==     \* mutant: no child needs to have launched
    /\ db[n].node = status /\ FinalGate(n)
    /\ \A c \in Children(n) :
           Eligible(c) /\ ~db[c].stop /\ db[c].node \in {"OWNER", "LEAF"}
Authorized(n, status) ==
    /\ db[n].node = status /\ FinalGate(n) /\ Ready(n)
    /\ \A c \in Children(n) :
           Continues(c) /\ ~db[c].stop /\ db[c].node \in {"OWNER", "LEAF"}
AuthorizeRetirement(n) ==
    /\ Free(n, "authorize")
    /\ IF Authorized(n, "OWNER")
       THEN Write(n, "node", "RETIRING") /\ Goto(n, "retire")
       ELSE /\ Goto(n, IF ~Ready(n) /\ run[n].wait = "over" THEN "violated" ELSE "top")
            /\ UNCHANGED db
    /\ UNCHANGED <<shape, hosts, work, accepted, controls, invoked, log>>

\* retire_self, in this cycle or in a later one of a node that is RETIRING: the parent
\* and the children are proved again
RetireSelf(n) ==
    /\ At(n, "retire") \/ (Free(n, "top") /\ db[n].node = "RETIRING")
    /\ ParentGate(n, IF Authorized(n, "RETIRING") THEN "terminate" ELSE "top")
    /\ UNCHANGED <<shape, hosts, work, accepted, controls, invoked, log>>

\* TerminateInstances of itself; if the answer is lost, the next cycle may find an
\* instance that no longer matches its specification.
TerminateSelf(n) ==
    /\ At(n, "terminate")
    /\ ec2' = [ec2 EXCEPT ![n] = "shutting-down"]
    /\ \/ Goto(n, "ended") /\ UNCHANGED log
       \/ Upset("unconfirmed") /\ \E next \in {"top", "violated"} : Goto(n, next)
    /\ UNCHANGED <<shape, db, disk, work, accepted, controls, invoked>>

-----------------------------------------------------------------------------
(* Stop and violation *)

\* The monitor's thread latches what it reads; or its last read is too old.
Latch(n) ==
    /\ run[n].pc \notin {"off", "ended"} /\ ~run[n].stopped
    /\ run' = [run EXCEPT ![n].stopped = TRUE]
    /\ UNCHANGED <<shape, db, hosts, work, accepted, controls, invoked>>
MonitorSees(n) == RemoteStop(n) /\ Latch(n) /\ UNCHANGED log
MonitorExpires(n) == ~RemoteStop(n) /\ Latch(n) /\ Upset("slow")

\* A tick that finds the stop; submitted launches go on.  stop_children writes the stop
\* file first, then the STOP records of the node and its children.
Stop(n) ==
    /\ run[n].stopped
    /\ \/ \E label \in {"top", "propagate", "accept", "authorize"} : At(n, label)
       \/ At(n, "launch") /\ \E c \in Children(n) : work[c] = "idle"
    /\ Goto(n, "stopping") /\ disk' = [disk EXCEPT ![n] = TRUE]
    /\ UNCHANGED <<shape, db, ec2, work, accepted, controls, invoked, log>>

\* SafetyViolation: once no worker runs any more, stop and report
Violate(n) ==
    /\ At(n, "violated")
    /\ run' = [run EXCEPT ![n].pc = "reporting", ![n].stopped = TRUE]
    /\ disk' = [disk EXCEPT ![n] = TRUE]
    /\ UNCHANGED <<shape, db, ec2, work, accepted, controls, invoked, log>>

Stopped(n) == At(n, "stopping") \/ At(n, "reporting")
Recipient(n, m) == m \in {n} \cup Children(n)
StopNode(n, m) ==
    /\ Stopped(n) /\ Recipient(n, m) /\ ~db[m].stop /\ Bookkeeping
    /\ \A k \in {n} \cup Children(n) : k < m => db[k].stop
    /\ Write(m, "stop", TRUE)
    /\ UNCHANGED <<shape, hosts, run, work, accepted, controls, invoked, log>>
AllStopped(n) == \A m \in Node : Recipient(n, m) => db[m].stop

\* The process exits normally, and systemd does not start it again.
FinishStop(n) ==
    /\ At(n, "stopping") /\ AllStopped(n) /\ Quiet(n)
    /\ Goto(n, "ended") /\ Dismiss(n)
    /\ UNCHANGED <<shape, db, hosts, accepted, controls, invoked, log>>

\* invoke_hold, after all STOP records or the first that could not be written; it may
\* fail itself.  The process exits with an error and is started again.
InvokeHold(n) ==
    /\ At(n, "reporting")
    /\ \/ (AllStopped(n) \/ ~Bookkeeping) /\ invoked' = invoked \cup {n} /\ UNCHANGED log
       \/ invoked' \in {invoked, invoked \cup {n}} /\ Upset("call")
    /\ run' = [run EXCEPT ![n] = Off]
    /\ UNCHANGED <<shape, db, hosts, work, accepted, controls>>

\* The hold function (foundation.yaml), invoked asynchronously
CreateHold(n) ==
    /\ n \in invoked /\ invoked' = invoked \ {n}
    /\ IF PlainGate
       THEN hold' = TRUE /\ Write(n, "state", "error")
       ELSE UNCHANGED <<hold, db>>
    /\ UNCHANGED <<shape, hosts, run, work, accepted, enabled, phase, log>>

-----------------------------------------------------------------------------
(* Faults and the passing of time *)

\* systemd restarts a process that failed, on its way out too.
Crash(n) ==
    /\ run[n].pc # "off" /\ ec2[n] \in {"running", "shutting-down"}
    /\ Upset(IF ec2[n] = "running" THEN "crash" ELSE "unconfirmed")
    /\ run' = [run EXCEPT ![n] = Off] /\ Dismiss(n)
    /\ UNCHANGED <<shape, db, hosts, accepted, controls, invoked>>

\* A call outside the workers fails, or its answer is lost after it took effect: the
\* cycle is tried again.
CallFails(n) ==
    /\ run[n].pc \in {"propagate", "accept", "authorize", "retire", "terminate"}
    /\ Goto(n, "top") /\ Upset("call")
    /\ UNCHANGED <<shape, db, hosts, work, accepted, controls, invoked>>

\* readiness_timeout_seconds pass
TimeOut(n) ==
    /\ run[n].wait = "started" /\ Upset("slow")
    /\ run' = [run EXCEPT ![n].wait = "over"]
    /\ UNCHANGED <<shape, db, hosts, work, accepted, controls, invoked>>

\* The last STATE is more than fifteen seconds old.
StateAges(n) ==
    /\ db[n].state = "fresh" /\ Upset("slow")
    /\ Write(n, "state", "stale")
    /\ UNCHANGED <<shape, hosts, run, work, accepted, controls, invoked>>

-----------------------------------------------------------------------------
(* EC2 and the operator *)

Becomes(n, state) == ec2' = [ec2 EXCEPT ![n] = state]
EndProcess(n) == run' = [run EXCEPT ![n] = [Off EXCEPT !.pc = "ended"]] /\ Dismiss(n)

InstanceStarts(n) ==
    /\ ec2[n] = "pending" /\ Becomes(n, "running")
    /\ UNCHANGED <<shape, db, disk, run, work, accepted, controls, invoked, log>>
RequestSettles(n) ==
    /\ ec2[n] = "requested" /\ \E state \in {"none", "pending"} : Becomes(n, state)
    /\ UNCHANGED <<shape, db, disk, run, work, accepted, controls, invoked, log>>
InstanceStops(n) ==
    /\ ec2[n] = "shutting-down" /\ Becomes(n, "terminated") /\ EndProcess(n)
    /\ UNCHANGED <<shape, db, disk, accepted, controls, invoked, log>>
InstanceIsLost(n) ==
    /\ ec2[n] \in {"pending", "running"} /\ Upset("loss")
    /\ Becomes(n, "lost") /\ EndProcess(n)
    /\ UNCHANGED <<shape, db, disk, accepted, controls, invoked>>

\* A stop disables the propagation of this family for good: START begins a new one.
StopFamily ==
    /\ enabled /\ phase = "IDLE" /\ Upset("stop") /\ enabled' = FALSE
    /\ UNCHANGED <<shape, db, hosts, run, work, accepted, hold, phase, invoked>>
HoldFamily ==
    /\ ~hold /\ phase = "IDLE" /\ Upset("hold") /\ hold' = TRUE
    /\ UNCHANGED <<shape, db, hosts, run, work, accepted, enabled, phase, invoked>>
\* The clearance of a hold is not counted: each follows a hold, which is.
ClearHold ==
    /\ hold /\ hold' = FALSE
    /\ UNCHANGED <<shape, db, hosts, run, work, accepted, enabled, phase, invoked, log>>
BeginCleanup ==
    /\ phase = "IDLE" /\ Upset("cleanup")
    /\ phase' = "QUIESCING" /\ enabled' = FALSE
    /\ UNCHANGED <<shape, db, hosts, run, work, accepted, hold, invoked>>

\* cleanup_step: no submission may be unsettled; then the recorded instances are
\* terminated (the root with its stack).
Unsettled == {n \in Tree : db[n].sub \in {"intent", "rejected"}}
StartDeleting ==
    /\ phase = "QUIESCING" /\ Unsettled = {} /\ phase' = "DELETING"
    /\ UNCHANGED <<shape, db, hosts, run, work, accepted, enabled, hold, invoked, log>>
Delete(n) ==
    /\ phase = "DELETING" /\ ec2[n] \in {"pending", "running"}
    /\ Becomes(n, "lost") /\ EndProcess(n)
    /\ UNCHANGED <<shape, db, disk, accepted, controls, invoked, log>>

-----------------------------------------------------------------------------
(* The specification *)

Init ==
    /\ shape \in Shapes
    /\ db = [n \in Node |-> [node |-> "none", state |-> "none", prop |-> FALSE,
                             sub |-> "none", res |-> "none", stop |-> FALSE]]
    /\ ec2 = [n \in Node |-> IF n = Root THEN "running" ELSE "none"]
    /\ disk = [n \in Node |-> FALSE]
    /\ run = [n \in Node |-> Off]
    /\ work = [n \in Node |-> "idle"]
    /\ accepted = [n \in Node |-> 0]
    /\ enabled = TRUE /\ hold = FALSE /\ phase = "IDLE"
    /\ invoked = {} /\ upsets = 0 /\ blame = {}

WorkerStep(c) ==
    \/ LaunchIntent(c) \/ Reconcile(c) \/ Send(c) \/ RecordRejection(c)
    \/ RecordChild(c) \/ SettleChild(c)

DaemonStep(n) ==
    \/ Boot(n) \/ BootDying(n) \/ PublishReadiness(n) \/ MarkLeaf(n) \/ AwaitWorkers(n)
    \/ PublishPropagation(n) \/ ChildNotReady(n) \/ ChildrenAccepted(n)
    \/ AuthorizeRetirement(n) \/ RetireSelf(n) \/ TerminateSelf(n)
    \/ Stop(n) \/ Violate(n) \/ FinishStop(n) \/ InvokeHold(n)
    \/ \E m \in Tree : StartWorker(n, m) \/ AcceptChild(n, m) \/ StopNode(n, m)

ProcessStep(n) ==
    n \in Tree /\ (DaemonStep(n) \/ \E c \in Tree : Parent(c) = n /\ WorkerStep(c))

EnvironmentStep(n) ==
    \/ CreateHold(n) \/ InstanceStarts(n) \/ RequestSettles(n) \/ InstanceStops(n)
    \/ Delete(n)

FaultStep(n) ==
    \/ WorkerFails(n) \/ MonitorExpires(n) \/ Crash(n) \/ CallFails(n) \/ TimeOut(n)
    \/ StateAges(n) \/ InstanceIsLost(n)

Operator == StopFamily \/ HoldFamily \/ ClearHold \/ BeginCleanup

Next ==
    \/ \E n \in Tree :
        ProcessStep(n) \/ MonitorSees(n) \/ EnvironmentStep(n) \/ FaultStep(n)
    \/ StartDeleting \/ Operator

Spec == Init /\ [][Next]_vars

\* A process that can go on does, one of its threads at a time; the monitors, EC2, the
\* hold function and the cleanup's retries act eventually.
FairSpec ==
    /\ Spec
    /\ \A n \in Node : WF_vars(ProcessStep(n))
    /\ WF_vars(\E n \in Tree : MonitorSees(n))
    /\ WF_vars((\E n \in Tree : EnvironmentStep(n)) \/ StartDeleting)

-----------------------------------------------------------------------------
(* Properties *)

\* Type invariant; no instance is launched beyond max_generation.
TypeOK ==
    /\ shape \in Shapes
    /\ db \in [Node -> [node : {"none", "CANDIDATE"} \cup Owned,
                        state : {"none", "fresh", "stale", "error"}, prop : BOOLEAN,
                        sub : {"none", "intent", "rejected", "settled"},
                        res : {"none", "recorded", "gone"}, stop : BOOLEAN]]
    /\ ec2 \in [Node -> {"none", "requested"} \cup Exists]
    /\ \A n \in Node : ec2[n] # "none" => n < 2 * shape.width
    /\ disk \in [Node -> BOOLEAN]
    /\ run \in [Node -> [pc : {"off", "top", "launch", "propagate", "accept",
                               "authorize", "retire", "terminate", "stopping",
                               "violated", "reporting", "ended"},
                         stopped : BOOLEAN, recorded : BOOLEAN,
                         wait : {"none", "started", "over"}]]
    /\ work \in [Node -> {"idle", "done", "failed", "violated"} \cup Busy]
    /\ accepted \in [Node -> Nat]
    /\ enabled \in BOOLEAN /\ hold \in BOOLEAN
    /\ phase \in {"IDLE", "QUIESCING", "DELETING"}
    /\ invoked \subseteq Node /\ upsets \in Nat /\ blame \subseteq Faults

\* A path is launched once, whatever crashes, lost answers and rejections come between:
\* launch_child "only an explicit throttle rejection permits another attempt".
LaunchedOnce == \A n \in Node : accepted[n] <= 1

\* Who is retiring has lost its parent, and all its children have taken over and have
\* launched theirs; no instance terminates itself that is not retiring.
RetiresInOrder ==
    \A n \in Tree :
        /\ ec2[n] \in {"shutting-down", "terminated"} => db[n].node = "RETIRING"
        /\ db[n].node = "RETIRING" =>
            /\ n # Root => ec2[Parent(n)] \in Gone /\ db[Parent(n)].res = "gone"
            /\ \A c \in Children(n) :
                db[c].node \in Owned /\ \A g \in Children(c) : db[g].sub = "settled"

\* With one child each, at most three instances exist or may yet appear at any time.
Occupied == {"requested", "pending", "running", "shutting-down"}
ThreeGenerations ==
    ~shape.binary => Cardinality({n \in Tree : ec2[n] \in Occupied}) <= 3

\* When cleanup finds every submission settled, every instance that exists is recorded
\* and none can appear any more: a complete inventory.
InventoryComplete ==
    phase # "IDLE" /\ Unsettled = {} =>
        \A n \in Tree \ {Root} :
            /\ ec2[n] \in Exists => db[n].res # "none"
            /\ ec2[n] # "requested" /\ work[n] # "send"

\* Crashes before the termination, single failed calls and rejected or unanswered
\* launches alone stop nobody and put nothing on hold.
Harmless == {"crash", "call", "throttle", "unanswered"}
NoSelfInflictedHold ==
    blame \subseteq Harmless => ~hold /\ \A n \in Tree : ~run[n].stopped /\ ~db[n].stop

\* Left alone, or under faults it can recover from, the family completes: every node
\* but the leaves is terminated and the leaves stay.  The operator is needed when a
\* submission has no instance and no rejection.
Complete ==
    \A n \in Tree : IF Children(n) = {} THEN db[n].node = "LEAF" ELSE ec2[n] = "terminated"
Ambiguous ==
    \E n \in Tree : db[n].sub = "intent" /\ ec2[n] = "none" /\ work[n] # "send"
FamilyCompletes ==
    <>[](Complete \/ Ambiguous \/ ~(blame \subseteq Harmless))

\* A stop ends every daemon for good, those of instances launched meanwhile too.
AtRest(n) ==
    /\ run[n].pc = "ended" \/ (run[n].pc = "off" /\ ec2[n] # "running")
       \/ (run[n].pc = "off" /\ db[n].node = "none" /\ ~PlainGate)
    /\ work[n] \notin Busy
StopReachesAll == <>[](~enabled) => <>[](\A n \in Tree : AtRest(n))
=============================================================================
