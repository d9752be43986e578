----------------------------- MODULE Lifecycle -----------------------------
(***************************************************************************)
(* The lifecycle controller (bootstrap/handler.py): one Lambda function,    *)
(* one invocation at a time, that consumes the operator's switches, submits *)
(* the seed stack, and cleans a cycle up until the next one can start.      *)
(*                                                                          *)
(* Its work arrives as records of the table's stream and as one-time        *)
(* schedules that it arms itself.  An invocation may raise, be killed at    *)
(* its time limit, and be delivered again.                                  *)
(*                                                                          *)
(* A step is one AWS write, or the reads between two writes.  The chain of  *)
(* daemons is reduced to what the controller sees of it: Ec2Chain models it.*)
(* Definitions marked "mutant" are used by no action.                       *)
(***************************************************************************)
EXTENDS Integers, Sequences, FiniteSets

CONSTANTS
    MaxCycle,       \* cycles (request IDs) explored
    MaxToken,       \* retry tokens in use at a time
    MaxMoves,       \* bound on the operator's moves
    MaxTries,       \* deliveries of a failing record or schedule
    Moves,          \* "start", "stop", "cleanup", "hold", "clear", "script", and
                    \* "launch": daemons launch a successor
    FaultKinds,     \* "call", "timeout", "conflict", "duplicate", "stack", "slow"
    MaxFaults       \* bound on faults ("slow" is not counted)

ASSUME MaxCycleAssumption == MaxCycle \in Nat \ {0}
ASSUME LimitAssumption == MaxToken \in Nat \ {0} /\ MaxTries \in Nat \ {0}
                          /\ MaxFaults \in Nat /\ MaxMoves \in Nat

Cycle == 1..MaxCycle
Token == 1..MaxToken        \* zero stands for the empty token

VARIABLES
    \* CONTROL/GLOBAL: request switches, active_command with its request ID
    switches, active,
    \* BOOTSTRAP/REQUEST, and whether its cleanup_retry_at has passed
    req, due,
    \* HOLD/ACTIVE, CURRENT/GLOBAL, LOCK/PROVISIONING, the GEN#n items
    hold, cur, marker, items,
    \* CloudFormation: the seed stack of each cycle; EC2: its direct successor
    stack, inst,
    \* stream records and fired schedules not yet processed, pending schedules
    stream, fired, schedules,
    lam,            \* the running invocation
    age,            \* since cleanup_started_at: 0, past 180 s, past 1800 s
    creates,        \* CreateStack requests per cycle (history)
    killed,         \* an invocation met the time limit (history)
    moves, faults   \* operator moves and faults so far

controlVars == <<switches, active>>
reqVars == <<req, due, age>>
cloudVars == <<stack, inst>>
eventVars == <<stream, fired, schedules>>
recordVars == <<hold, cur, marker, items>>
historyVars == <<creates, killed, moves, faults>>
world == <<controlVars, reqVars, recordVars, cloudVars, eventVars, historyVars>>
vars == <<world, lam>>

\* Frames: everything but the named variable (and lam) stays
OnlyRequest ==
    UNCHANGED <<controlVars, due, age, recordVars, cloudVars, eventVars, historyVars>>
OnlyMarker ==
    UNCHANGED <<controlVars, reqVars, hold, cur, items, cloudVars, eventVars, historyVars>>
OnlyItems ==
    UNCHANGED <<controlVars, reqVars, hold, cur, marker, cloudVars, eventVars, historyVars>>
OnlyStack ==
    UNCHANGED <<controlVars, reqVars, recordVars, inst, eventVars, historyVars>>
OnlyInstance ==
    UNCHANGED <<controlVars, reqVars, recordVars, stack, eventVars, historyVars>>
OnlySchedules ==
    UNCHANGED <<controlVars, reqVars, recordVars, cloudVars, stream, fired, historyVars>>
OnlyInvocation ==   \* and faults
    UNCHANGED <<controlVars, reqVars, recordVars, cloudVars, eventVars, creates, moves>>

-----------------------------------------------------------------------------
(* Records *)

Switch == {"start", "stop", "cleanup"}
ActiveCleanup == {"QUIESCING", "DELETING", "VERIFYING"}
CleanupStatus == ActiveCleanup \cup {"IDLE", "COMPLETE", "NEEDS_ATTENTION"}

Command == [cmd : {"NONE", "START", "CLEANUP"}, rid : 0..(MaxCycle + 1)]
NoCommand == [cmd |-> "NONE", rid |-> 0]

\* listed: cleanup_instance_ids is not empty; target: cleanup_target_request_id
Request == [rid : 1..(MaxCycle + 1), status : {"READY", "CREATING", "SUBMITTED"},
            bootstrap : BOOLEAN, enabled : BOOLEAN, cleanup : BOOLEAN,
            phase : CleanupStatus, token : Token \cup {0}, listed : BOOLEAN,
            target : 0..MaxCycle]
Prepared == [rid |-> 1, status |-> "READY", bootstrap |-> FALSE, enabled |-> FALSE,
             cleanup |-> FALSE, phase |-> "IDLE", token |-> 0, listed |-> FALSE,
             target |-> 0]

\* terminal: the last generation owns CURRENT and its predecessor is retired
Current == [status : {"UNINITIALIZED", "CURRENT"}, rid : 0..MaxCycle,
            terminal : BOOLEAN]
Uninitialized == [status |-> "UNINITIALIZED", rid |-> 0, terminal |-> FALSE]

\* A stream record, with the request ID of its image (zero in CONTROL) and whether
\* command_sequence is unchanged since; or a schedule's delivery.
EventKind == {"control", "bootstrap", "cleanup", "terminal", "retry"}
Event == [kind : EventKind, rid : 0..(MaxCycle + 1), token : Token \cup {0},
          fresh : BOOLEAN, tries : 0..MaxTries]
Record(k, r) == [kind |-> k, rid |-> r, token |-> 0, fresh |-> TRUE, tries |-> 0]
Schedule == [rid : Cycle, token : Token]

\* What consume_command and complete_cleanup compare their writes with
Snap == [switches |-> switches, active |-> active, req |-> req, cur |-> cur,
         hold |-> hold]
NoSnap == [switches |-> {}, active |-> NoCommand, req |-> Prepared,
           cur |-> Uninitialized, hold |-> FALSE]

\* An invocation: its step and event, the request before it (rid and token), the
\* cycle it works for, the command run_operator runs, the last snapshot, whether
\* it is the second consume_command, whether resources are left, whether the
\* command is finished, and whether it raised.
Idle == [pc |-> "idle", ev |-> Record("control", 0), beforeRid |-> 0, before |-> 0,
         rid |-> 0, cmd |-> NoCommand, snap |-> NoSnap, again |-> FALSE,
         left |-> FALSE, done |-> FALSE, failed |-> FALSE]

At(label) == lam.pc = label
Goto(label) == lam' = [lam EXCEPT !.pc = label]

StackState == {"none", "requested", "creating", "complete", "failed", "deleting",
               "undeleted", "deleted"}
StackListed(r) ==  \* mutant: a stack being deleted counts as gone
    stack[r] \notin {"none", "requested", "deleting", "deleted"}
StackExists(r) == stack[r] \notin {"none", "requested", "deleted"}
InstanceExists(r) == inst[r] \in {"running", "shutting-down"}

\* consume_command and cleanup_active: is a cleanup requested, is it under way
Cleaning == req.cleanup \/ req.phase \notin {"IDLE", "COMPLETE"}
CleanupActive(r) == req.cleanup /\ req.phase \in ActiveCleanup /\ req.rid = r

\* lifecycle_check: the fence of every write a daemon or a bootstrap makes
Fence(r) == req.rid = r /\ ~Cleaning

\* is_bootstrap_trigger and is_cleanup_trigger on a write to BOOTSTRAP/REQUEST
Triggered(old, new) ==
    IF ~old.bootstrap /\ new.bootstrap /\ new.status = "READY"
    THEN <<Record("bootstrap", new.rid)>>
    ELSE IF /\ new.cleanup
            /\ ~old.cleanup \/ (old.phase = "NEEDS_ATTENTION" /\ new.phase = "QUIESCING")
         THEN <<Record("cleanup", new.rid)>>
         ELSE <<>>

-----------------------------------------------------------------------------
(* Deliveries *)

\* handler and retry_cleanup: where an event's processing starts
FirstStep(ev) ==
    CASE ev.kind = "control" -> "consume"
      [] ev.kind = "bootstrap" -> "process"
      [] ev.kind = "cleanup" -> "cleanup"
      [] ev.kind = "terminal" -> "terminal"
      [] active = [cmd |-> "CLEANUP", rid |-> ev.rid] -> "consume"
      [] OTHER -> "cleanup"

\* (req.rid \in Cycle is the bound on cycles)
Invoke(ev) ==
    /\ At("idle") /\ req.rid \in Cycle
    /\ lam' = [Idle EXCEPT !.pc = FirstStep(ev), !.ev = ev, !.rid = ev.rid,
                           !.beforeRid = req.rid, !.before = req.token]
    /\ UNCHANGED world

\* The partition key of a record's item: records of one item stay in order
Item(ev) == CASE ev.kind = "control" -> "CONTROL"
              [] ev.kind = "terminal" -> "CURRENT"
              [] OTHER -> "BOOTSTRAP"
FirstOfItem(i) == \A j \in 1..(i - 1) : Item(stream[j]) # Item(stream[i])

DeliverRecord(i) == FirstOfItem(i) /\ Invoke(stream[i])

\* retry_cleanup: a retry whose cycle or token has been replaced does nothing
Matches(ev) == CleanupActive(ev.rid) /\ req.token = ev.token
DeliverRetry(ev) == Matches(ev) /\ Invoke(ev)
DropRetry(ev) ==
    /\ At("idle") /\ ~Matches(ev)
    /\ fired' = fired \ {ev}
    /\ UNCHANGED <<controlVars, reqVars, recordVars, cloudVars, stream, schedules,
                   historyVars, lam>>

\* A record that is processed, or has failed too often, leaves its queue.
Remove(q, i) == SubSeq(q, 1, i - 1) \o SubSeq(q, i + 1, Len(q))
Position(ev) == CHOOSE i \in DOMAIN stream : /\ FirstOfItem(i)
                                             /\ Item(stream[i]) = Item(ev)
Settle(again) ==
    LET ev == lam.ev IN
    IF ev.kind = "retry"
    THEN /\ fired' = (fired \ {ev})
                     \cup (IF again /\ ev.tries + 1 < MaxTries
                           THEN {[ev EXCEPT !.tries = @ + 1]} ELSE {})
         /\ UNCHANGED stream
    ELSE /\ stream' = IF again /\ ev.tries + 1 < MaxTries
                      THEN [stream EXCEPT ![Position(ev)].tries = @ + 1]
                      ELSE Remove(stream, Position(ev))
         /\ UNCHANGED fired

EndInvocation ==
    /\ At("end")
    /\ Settle(lam.failed)
    /\ lam' = Idle
    /\ UNCHANGED <<controlVars, reqVars, recordVars, cloudVars, schedules,
                   historyVars>>

\* Where a normal return leads, and where a step of each function returns to
Return == IF lam.ev.kind = "retry" THEN "clearToken" ELSE "finish"
LeaveProcess == [lam EXCEPT !.pc = IF lam.cmd # NoCommand THEN "feedback" ELSE Return,
                            !.done = TRUE]
LeaveCleanup == [lam EXCEPT !.pc = IF lam.cmd # NoCommand THEN "consume" ELSE Return,
                            !.again = TRUE]

\* Where an exception leads: the except clauses of run_operator, cleanup_step
\* and finish_cleanup_delivery.
ProcessPc == {"process", "claimMarker", "recheck", "createStack", "recordStack",
              "submit", "release"}
CleanupPc == {"settle", "inventory", "terminate", "deleteStack", "verify", "erase",
              "live", "reset"}
OtherPc == {"consume", "commit", "dispatch", "feedback", "pause", "attention",
            "cleanup", "terminal", "clearToken"}
SchedulePc == {"finish", "arm", "armCheck", "unscheduled"}
Pc == {"idle", "end"} \cup ProcessPc \cup CleanupPc \cup OtherPc \cup SchedulePc
Handler ==
    CASE lam.pc \in ProcessPc \cup {"feedback"} /\ lam.cmd.cmd = "START"
         /\ ~lam.failed -> "pause"
      [] lam.pc \in CleanupPc -> "attention"
      [] lam.pc \in {"finish", "arm", "armCheck"} -> "unscheduled"
      [] lam.pc = "unscheduled" -> "end"
      [] OTHER -> "finish"
Raise == lam' = [lam EXCEPT !.pc = Handler, !.failed = TRUE]

-----------------------------------------------------------------------------
(* consume_command *)

AfterConsume == [lam EXCEPT !.pc = IF lam.again THEN "feedback" ELSE "dispatch",
                            !.snap = NoSnap]

\* The snapshot; a duplicate or stale record cannot consume a later request.
ReadCommand ==
    /\ At("consume")
    /\ IF switches = {} \/ (lam.ev.kind = "control" /\ ~lam.again /\ ~lam.ev.fresh)
       THEN lam' = AfterConsume
       ELSE lam' = [lam EXCEPT !.pc = "commit", !.snap = Snap]
    /\ UNCHANGED world

\* What a start asks for, judged on the snapshot s
CleaningIn(r) == r.cleanup \/ r.phase \notin {"IDLE", "COMPLETE"}
StartsBootstrap(s) ==
    /\ s.req.status = "READY" /\ ~CleaningIn(s.req) /\ s.active.cmd # "CLEANUP"
    /\ ~s.hold /\ s.cur = Uninitialized
EnablesChain(s) ==
    /\ s.req.status = "SUBMITTED" /\ ~CleaningIn(s.req) /\ s.active.cmd # "CLEANUP"
    /\ ~s.hold /\ s.cur.status = "CURRENT" /\ s.cur.rid = s.req.rid

\* The request after an accepted command, and the command it makes active
Accepted(s) ==
    LET r == s.req IN
    CASE s.switches = {"start"} /\ StartsBootstrap(s) ->
            [ok |-> TRUE, active |-> [cmd |-> "START", rid |-> r.rid],
             req |-> [r EXCEPT !.bootstrap = TRUE, !.enabled = TRUE]]
      [] s.switches = {"start"} /\ EnablesChain(s) ->
            [ok |-> TRUE, active |-> s.active, req |-> [r EXCEPT !.enabled = TRUE]]
      [] s.switches = {"stop"} ->
            [ok |-> TRUE, active |-> s.active, req |-> [r EXCEPT !.enabled = FALSE]]
      [] s.switches = {"cleanup"} ->
            [ok |-> TRUE, active |-> [cmd |-> "CLEANUP", rid |-> r.rid],
             req |-> [r EXCEPT !.cleanup = TRUE, !.bootstrap = FALSE,
                               !.enabled = FALSE, !.token = 0,
                               !.phase = IF @ = "NEEDS_ATTENTION" THEN "QUIESCING"
                                         ELSE @]]
      [] OTHER -> [ok |-> FALSE, active |-> s.active, req |-> r]

\* A consumed command advances command_sequence: older images are stale.
Sequenced(q) == [i \in DOMAIN q |-> IF q[i].kind = "control"
                                    THEN [q[i] EXCEPT !.fresh = FALSE] ELSE q[i]]

\* The transaction compares CONTROL, and if it accepts also the request, CURRENT
\* and the hold, with the snapshot.
SameControl(s) == switches = s.switches /\ active = s.active
SameRecords(s) == req = s.req /\ cur = s.cur /\ ("start" \in s.switches => ~hold)
CommitCommand ==
    LET s == lam.snap
        a == Accepted(s)
        ok == SameControl(s) /\ (a.ok => SameRecords(s))
    IN  /\ At("commit")
        /\ lam' = AfterConsume
        /\ IF ok
           THEN /\ switches' = {}
                /\ active' = a.active
                /\ req' = (IF a.ok THEN a.req ELSE req)
                /\ due' = (due /\ req'.token # 0)
                /\ age' = IF req'.phase # req.phase THEN 0 ELSE age
                /\ stream' = Sequenced(stream) \o <<Record("control", 0)>>
                             \o (IF a.ok THEN Triggered(req, req') ELSE <<>>)
           ELSE UNCHANGED <<controlVars, reqVars, stream>>
        /\ UNCHANGED <<recordVars, cloudVars, fired, schedules, creates, killed, moves,
                       faults>>

-----------------------------------------------------------------------------
(* run_operator *)

Dispatch ==
    LET go(label) == [lam EXCEPT !.pc = label, !.cmd = active, !.rid = req.rid]
        waiting == switches = {} /\ active # NoCommand
        cleaned == /\ active.cmd = "CLEANUP" /\ req.phase = "COMPLETE"
                   /\ req.target = active.rid
    IN  /\ At("dispatch")
        /\ \/ ~waiting /\ lam' = [lam EXCEPT !.pc = Return]
           \/ /\ waiting /\ cleaned
              /\ lam' = [go("consume") EXCEPT !.again = TRUE, !.done = TRUE]
           \/ /\ waiting /\ ~cleaned /\ req.rid # active.rid
              /\ lam' = [go("feedback") EXCEPT !.done = TRUE]
           \/ /\ waiting /\ ~cleaned /\ req.rid = active.rid
              /\ lam' = go(IF active.cmd = "START" THEN "process" ELSE "cleanup")
        /\ UNCHANGED world

\* operation_feedback: only for the command that is still active
Feedback ==
    LET finished == IF lam.cmd.cmd = "START" THEN lam.done
                    ELSE lam.done \/ req.phase = "COMPLETE"
    IN  /\ At("feedback")
        /\ active' = IF active = lam.cmd /\ finished THEN NoCommand ELSE active
        /\ lam' = [lam EXCEPT !.pc = IF lam.failed THEN "finish" ELSE Return]
        /\ UNCHANGED <<switches, reqVars, recordVars, cloudVars, eventVars,
                       historyVars>>

\* The except clause of a START: launch permissions are paused, unless only the
\* bookkeeping of a submitted bootstrap is left to a retry.
Bookkeeping == req.rid = lam.cmd.rid /\ req.status = "SUBMITTED" /\ marker # "none"
PauseThen(finish) ==
    /\ At("pause")
    /\ req' = IF req.rid = lam.cmd.rid /\ ~Bookkeeping
              THEN [req EXCEPT !.bootstrap = FALSE, !.enabled = FALSE] ELSE req
    /\ lam' = [lam EXCEPT !.pc = "feedback", !.done = finish /\ ~Bookkeeping]
    /\ OnlyRequest
PauseKeepsActive == PauseThen(FALSE)    \* mutant: the failed start stays active
Pause == PauseThen(TRUE)

-----------------------------------------------------------------------------
(* process: the bootstrap of a cycle *)

\* guard, for the request's status
Guard(status) ==
    /\ req.status = status /\ req.bootstrap
    /\ "cleanup" \notin switches /\ ~Cleaning /\ ~hold
    /\ cur.status = "UNINITIALIZED"

\* verify_existing: the stack is being created, or is complete
StackVerified(r) == stack[r] \in {"creating", "complete"}

\* The snapshot's status decides.  READY is checked and claimed: the durable claim
\* precedes the submission.  CREATING and SUBMITTED only reconcile.
ProcessResubmits ==  \* mutant: a claimed request is submitted again
    /\ At("process")
    /\ IF Guard("READY") \/ (req.status = "CREATING" /\ ~StackVerified(req.rid))
       THEN req' = [req EXCEPT !.status = "CREATING"]
            /\ lam' = [lam EXCEPT !.pc = IF marker = "none" THEN "claimMarker"
                                         ELSE "createStack"]
       ELSE Raise /\ UNCHANGED req
    /\ OnlyRequest
Process ==
    /\ At("process")
    /\ \/ /\ req.rid = lam.rid /\ req.status = "READY" /\ Guard("READY")
          /\ \A r \in Cycle : ~StackExists(r) /\ ~InstanceExists(r)
          /\ req' = [req EXCEPT !.status = "CREATING"]
          /\ Goto("claimMarker")
       \/ /\ \/ req.rid # lam.rid
             \/ /\ req.status = "READY"
                /\ \/ ~Guard("READY")
                   \/ \E r \in Cycle : StackExists(r) \/ InstanceExists(r)
             \/ req.status = "CREATING" /\ ~StackVerified(req.rid)
             \/ /\ req.status = "SUBMITTED" /\ marker # "none"
                /\ marker # "bootstrap" \/ ~StackVerified(req.rid)
          /\ Raise /\ UNCHANGED req
       \/ /\ req.rid = lam.rid /\ req.status # "READY" /\ StackVerified(req.rid)
          /\ req.status = "CREATING" \/ marker = "bootstrap"
          /\ Goto("recordStack") /\ UNCHANGED req
       \/ /\ req.rid = lam.rid /\ req.status = "SUBMITTED" /\ marker = "none"
          /\ lam' = LeaveProcess /\ UNCHANGED req
    /\ OnlyRequest

\* claim_submission
ClaimMarker ==
    /\ At("claimMarker")
    /\ IF Fence(lam.rid) /\ "cleanup" \notin switches /\ ~hold /\ marker = "none"
       THEN marker' = "bootstrap" /\ Goto("recheck")
       ELSE Raise /\ UNCHANGED marker
    /\ OnlyMarker

\* the final reads before the submission
Recheck ==
    /\ At("recheck")
    /\ IF Guard("CREATING") THEN Goto("createStack") ELSE Raise
    /\ UNCHANGED world

CreateThen(label) ==
    /\ At("createStack")
    /\ creates' = [creates EXCEPT ![lam.rid] = @ + 1]
    /\ stack' = [stack EXCEPT ![lam.rid] = "creating"]
    /\ Goto(label)
    /\ UNCHANGED <<controlVars, reqVars, recordVars, inst, eventVars, killed,
                   moves, faults>>
CreateUnrecorded == CreateThen("submit")    \* mutant: the stack ID is not recorded
CreateStack == CreateThen("recordStack")

\* record_bootstrap_submission, then finish unless it is a reconciliation
RecordStack ==
    /\ At("recordStack")
    /\ items' = items \cup {<<lam.rid, "stack">>}
    /\ Goto(IF req.status = "CREATING" THEN "submit" ELSE "release")
    /\ OnlyItems

Submit ==
    /\ At("submit")
    /\ IF req.rid = lam.rid /\ req.status = "CREATING"
       THEN req' = [req EXCEPT !.status = "SUBMITTED"] /\ Goto("release")
       ELSE Raise /\ UNCHANGED req
    /\ OnlyRequest

\* release_submission: only the marker of this bootstrap
ReleaseMarker ==
    /\ At("release")
    /\ IF marker = "bootstrap" THEN marker' = "none" /\ lam' = LeaveProcess
       ELSE Raise /\ UNCHANGED marker
    /\ OnlyMarker

-----------------------------------------------------------------------------
(* cleanup_step *)

\* Old records cannot operate on a newer cycle.  begin_cleanup closes both launch
\* gates in one write, conditional on the phase that was read.
BeginCleanup ==
    /\ At("cleanup")
    /\ \/ /\ req.rid = lam.rid /\ req.cleanup /\ req.phase \in {"IDLE", "COMPLETE"}
          /\ req' = [req EXCEPT !.phase = "QUIESCING", !.enabled = FALSE,
                       !.bootstrap = FALSE, !.listed = FALSE, !.target = req.rid]
          /\ age' = 0
          /\ Goto("settle")
       \/ /\ req.rid = lam.rid /\ req.phase \in ActiveCleanup
          /\ Goto("settle") /\ UNCHANGED <<req, age>>
       \/ /\ \/ req.rid # lam.rid \/ req.phase = "NEEDS_ATTENTION"
             \/ req.phase \in {"IDLE", "COMPLETE"} /\ ~req.cleanup
          /\ lam' = LeaveCleanup /\ UNCHANGED <<req, age>>
    /\ UNCHANGED <<controlVars, due, recordVars, cloudVars, eventVars, historyVars>>

\* cleanup_guard
CleanupGuard ==
    /\ CleanupActive(lam.rid) /\ ~req.enabled /\ ~req.bootstrap
    /\ marker = "none"

\* A marker has three minutes to settle, the cleanup has thirty.
SettleIgnoresMarker ==  \* mutant: nobody waits for a submission in flight
    /\ At("settle")
    /\ IF age < 2 THEN Goto("inventory") ELSE Raise
    /\ UNCHANGED world
SettleMarker ==
    /\ At("settle")
    /\ IF marker # "none"
       THEN IF age = 0 THEN lam' = LeaveCleanup ELSE Raise
       ELSE IF age < 2 /\ CleanupGuard THEN Goto("inventory") ELSE Raise
    /\ UNCHANGED world

\* The whole inventory is verified before anything is deleted.  An item of another
\* cycle, an instance without its record, a listed instance whose record is gone, or
\* a failed deletion needs attention; a creation under way is waited for.
Recorded(r) == <<r, "inst">> \in items
InventoryWrong ==
    \/ \E i \in items : i[1] # req.rid
    \/ cur.status = "CURRENT" /\ cur.rid # req.rid
    \/ \E r \in Cycle : stack[r] = "undeleted" \/ (r # req.rid /\ StackExists(r))
    \/ \E r \in Cycle : InstanceExists(r) /\ ~(r = req.rid /\ Recorded(r))
    \/ req.listed /\ ~Recorded(req.rid)
Inventory ==
    /\ At("inventory")
    /\ \/ /\ \E r \in Cycle : stack[r] = "creating"
          /\ lam' = LeaveCleanup /\ UNCHANGED req
       \/ /\ \A r \in Cycle : stack[r] # "creating"
          /\ IF InventoryWrong \/ ~CleanupActive(lam.rid)
             THEN Raise /\ UNCHANGED req
             ELSE /\ req' = [req EXCEPT
                        !.listed = Recorded(req.rid),
                        !.phase = IF StackExists(req.rid) \/ Recorded(req.rid)
                                  THEN "DELETING" ELSE "VERIFYING"]
                  /\ Goto("terminate")
    /\ OnlyRequest

\* Each recorded instance that is not terminated yet
Terminate ==
    /\ At("terminate")
    /\ IF ~CleanupGuard /\ Recorded(lam.rid) THEN Raise /\ UNCHANGED inst
       ELSE /\ inst' = IF Recorded(lam.rid) /\ inst[lam.rid] = "running"
                       THEN [inst EXCEPT ![lam.rid] = "shutting-down"] ELSE inst
            /\ lam' = [lam EXCEPT !.pc = "deleteStack",
                         !.left = Recorded(lam.rid) /\ inst[lam.rid] # "terminated"]
    /\ OnlyInstance

\* delete_stack of each stack not yet being deleted; wait if anything is left
DeleteStacks ==
    LET exists == StackExists(lam.rid)
        delete == exists /\ stack[lam.rid] # "deleting"
    IN  /\ At("deleteStack")
        /\ IF delete /\ ~CleanupGuard THEN Raise /\ UNCHANGED stack
           ELSE /\ stack' = IF delete THEN [stack EXCEPT ![lam.rid] = "deleting"]
                            ELSE stack
                /\ IF exists \/ lam.left THEN lam' = LeaveCleanup ELSE Goto("verify")
        /\ OnlyStack

\* Recorded stacks are gone, nothing residual is alive; then the snapshot that the
\* reset will compare with, and the last guard.
Verify ==
    /\ At("verify")
    /\ IF CleanupGuard /\ \A r \in Cycle : ~StackExists(r) /\ ~InstanceExists(r)
       THEN lam' = [lam EXCEPT !.pc = "erase", !.snap = Snap] ELSE Raise
    /\ UNCHANGED world

\* complete_cleanup: the generation items, one transaction each, compared with the
\* exact request
EraseItem ==
    /\ At("erase")
    /\ \/ /\ items = {} /\ Goto("live") /\ UNCHANGED items
       \/ \E i \in items :
             IF req = lam.snap.req /\ i[1] = lam.rid
             THEN items' = items \ {i} /\ UNCHANGED lam
             ELSE Raise /\ UNCHANGED items
    /\ OnlyItems

\* the live CONTROL, with requests the operator has made in the meantime
ReadLiveControl ==
    /\ At("live")
    /\ lam' = [lam EXCEPT !.pc = "reset", !.snap.switches = switches,
                          !.snap.active = active]
    /\ UNCHANGED world

\* The reset of the cycle: request, CURRENT, and the active command, in one
\* transaction.  CONTROL's interface fields are compared when a command is
\* acknowledged.
Acknowledges == lam.snap.active = [cmd |-> "CLEANUP", rid |-> lam.rid]
ResetTo(current, command) ==
    /\ At("reset")
    /\ IF /\ Acknowledges => SameControl(lam.snap)
          /\ marker = "none" /\ cur = lam.snap.cur /\ req = lam.snap.req
       THEN /\ req' = [req EXCEPT !.rid = @ + 1, !.status = "READY",
                         !.bootstrap = FALSE, !.enabled = FALSE, !.cleanup = FALSE,
                         !.phase = "COMPLETE", !.token = 0]
            /\ due' = FALSE /\ age' = 0
            /\ cur' = current /\ active' = command
            /\ lam' = [LeaveCleanup EXCEPT !.snap = NoSnap]
       ELSE Raise /\ UNCHANGED <<active, req, due, age, cur>>
    /\ UNCHANGED <<switches, hold, marker, items, cloudVars, eventVars, historyVars>>
Acknowledged == IF Acknowledges THEN NoCommand ELSE active
ResetKeepsCurrent == ResetTo(cur, Acknowledged)         \* mutant: CURRENT is left
ResetKeepsCommand == ResetTo(Uninitialized, active)     \* mutant: and the command
ResetCycle == ResetTo(Uninitialized, Acknowledged)

\* The except clause: all gates stay closed for the operator's inspection.
Attention ==
    /\ At("attention")
    /\ req' = IF req.rid # lam.rid THEN req
              ELSE [req EXCEPT !.phase = "NEEDS_ATTENTION", !.cleanup = TRUE,
                               !.enabled = FALSE, !.bootstrap = FALSE]
    /\ Goto("finish")
    /\ OnlyRequest

-----------------------------------------------------------------------------
(* Retries: retry_cleanup and finish_cleanup_delivery *)

\* After a retry that succeeded its token is cleared, so that a new one is armed.
TokenStays ==  \* mutant: the token of a processed retry is kept
    At("clearToken") /\ Goto("finish") /\ UNCHANGED world
ClearToken ==
    /\ At("clearToken")
    /\ IF Matches(lam.ev)
       THEN req' = [req EXCEPT !.token = 0] /\ due' = FALSE
       ELSE UNCHANGED <<req, due>>
    /\ Goto("finish")
    /\ UNCHANGED <<controlVars, age, recordVars, cloudVars, eventVars, historyVars>>

\* A cleanup that is not active needs no schedule.  An active one keeps its token,
\* or takes the next; a schedule whose time has passed is never created again.
UsedTokens == {s.token : s \in schedules} \cup {e.token : e \in fired}
              \cup {lam.before, lam.ev.token}
Cancel(token) == schedules' = {s \in schedules : s.rid # lam.beforeRid
                                                 \/ s.token # token}
ScheduleRetry ==
    LET on == CleanupActive(lam.beforeRid)
        next == CHOOSE t \in Token : t \notin UsedTokens
    IN  /\ At("finish")
        /\ IF on /\ req.token = 0
           THEN /\ Token \ UsedTokens # {}
                /\ req' = [req EXCEPT !.token = next] /\ due' = FALSE
           ELSE UNCHANGED <<req, due>>
        /\ IF on THEN UNCHANGED schedules ELSE Cancel(lam.before)
        /\ Goto(IF ~on THEN "end" ELSE IF due' THEN "armCheck" ELSE "arm")
        /\ UNCHANGED <<controlVars, age, recordVars, cloudVars, stream, fired,
                       historyVars>>

\* create_schedule; the name makes a repetition harmless
CreateWith(token) ==
    /\ At("arm")
    /\ schedules' = schedules \cup {[rid |-> lam.beforeRid, token |-> token]}
    /\ Goto("armCheck")
    /\ OnlySchedules
CreateStale == CreateWith(lam.before)   \* mutant: the token read at the start
CreateSchedule == CreateWith(req.token)

\* cancel_cleanup_retry of a token that was replaced
CancelReplaced ==
    /\ At("armCheck")
    /\ IF lam.before # req.token THEN Cancel(lam.before) ELSE UNCHANGED schedules
    /\ Goto("end")
    /\ OnlySchedules

\* Scheduling failed: the cleanup reports it.
UnscheduledSilently ==  \* mutant: nothing is reported
    /\ At("unscheduled") /\ Goto("end") /\ UNCHANGED world
Unscheduled ==
    /\ At("unscheduled")
    /\ req' = IF CleanupActive(lam.beforeRid)
              THEN [req EXCEPT !.phase = "NEEDS_ATTENTION"] ELSE req
    /\ Goto("end")
    /\ OnlyRequest

\* request_terminal_cleanup: the last generation is done, so the controller sets
\* the operator's cleanup switch.
RequestTerminalCleanup ==
    LET ok == /\ cur.status = "CURRENT" /\ cur.terminal /\ cur.rid = lam.rid
              /\ Fence(cur.rid) /\ req.enabled /\ ~hold /\ switches = {}
    IN  /\ At("terminal")
        /\ switches' = IF ok THEN {"cleanup"} ELSE switches
        /\ stream' = IF ok THEN Append(stream, Record("control", 0)) ELSE stream
        /\ Goto("finish")
        /\ UNCHANGED <<active, reqVars, recordVars, cloudVars, fired, schedules,
                       historyVars>>

-----------------------------------------------------------------------------
(* Time, schedules and the cloud *)

\* cleanup_retry_at passes before its schedule exists, or the schedule fires then
NextRetry == [rid |-> req.rid, token |-> req.token]
DuePasses ==
    /\ req.token # 0 /\ ~due /\ NextRetry \notin schedules
    /\ due' = TRUE
    /\ UNCHANGED <<controlVars, req, age, recordVars, cloudVars, eventVars,
                   historyVars, lam>>

Fire(s) ==
    /\ due' = (due \/ s = NextRetry)
    /\ schedules' = schedules \ {s}
    /\ fired' = fired \cup {[Record("retry", s.rid) EXCEPT !.token = s.token]}
    /\ UNCHANGED <<controlVars, req, age, recordVars, cloudVars, stream, historyVars,
                   lam>>

TimePasses ==
    /\ "slow" \in FaultKinds /\ req.phase \in ActiveCleanup /\ age < 2
    /\ age' = age + 1
    /\ UNCHANGED <<controlVars, req, due, recordVars, cloudVars, eventVars,
                   historyVars, lam>>

\* CloudFormation settles a stack; a request whose answer was lost is decided too
StackSettles(r) ==
    /\ \/ stack[r] = "requested" /\ stack' = [stack EXCEPT ![r] = "creating"]
       \/ stack[r] = "creating" /\ stack' = [stack EXCEPT ![r] = "complete"]
       \/ stack[r] = "deleting" /\ stack' = [stack EXCEPT ![r] = "deleted"]
    /\ OnlyStack /\ UNCHANGED lam

InstanceTerminates(r) ==
    /\ inst[r] = "shutting-down"
    /\ inst' = [inst EXCEPT ![r] = "terminated"]
    /\ OnlyInstance /\ UNCHANGED lam

\* The chain of daemons: generation zero claims CURRENT, one successor is launched
\* under the marker and recorded, the last generation retires its predecessor.
SeedClaims(r) ==
    /\ stack[r] \in {"creating", "complete"} /\ Fence(r) /\ cur = Uninitialized
    /\ cur' = [Uninitialized EXCEPT !.status = "CURRENT", !.rid = r]
    /\ UNCHANGED <<controlVars, reqVars, hold, marker, items, cloudVars, eventVars,
                   historyVars, lam>>

ChainClaims(r) ==
    /\ cur.rid = r /\ Fence(r) /\ req.enabled /\ ~hold
    /\ switches \cap {"stop", "cleanup"} = {}
    /\ "launch" \in Moves /\ marker = "none" /\ inst[r] = "none"
    /\ marker' = "chain"
    /\ OnlyMarker /\ UNCHANGED lam

ChainLaunches(r) ==
    /\ cur.rid = r /\ marker = "chain" /\ inst[r] = "none"
    /\ inst' = [inst EXCEPT ![r] = "running"]
    /\ OnlyInstance /\ UNCHANGED lam

ChainRecords(r) ==
    /\ marker = "chain" /\ inst[r] # "none" /\ Fence(r)
    /\ items' = items \cup {<<r, "inst">>}
    /\ OnlyItems /\ UNCHANGED lam

ChainReleases(r) ==
    /\ marker = "chain" /\ Recorded(r)
    /\ marker' = "none"
    /\ OnlyMarker /\ UNCHANGED lam

ChainEnds(r) ==
    /\ cur.rid = r /\ ~cur.terminal /\ Fence(r) /\ inst[r] = "running"
    /\ marker = "none"
    /\ cur' = [cur EXCEPT !.terminal = TRUE]
    /\ stream' = Append(stream, Record("terminal", r))
    /\ UNCHANGED <<controlVars, reqVars, hold, marker, items, cloudVars, fired,
                   schedules, historyVars, lam>>

-----------------------------------------------------------------------------
(* The operator *)

OperatorMoves == moves < MaxMoves /\ moves' = moves + 1

\* By lifecycle.py, which adds nothing to a pending request, or in CONTROL/GLOBAL directly
RequestSwitch(s) ==
    /\ s \in Moves \cap Switch /\ s \notin switches /\ OperatorMoves
    /\ switches' = switches \cup {s}
    /\ stream' = Append(stream, Record("control", 0))
    /\ UNCHANGED <<active, reqVars, recordVars, cloudVars, fired, schedules, creates,
                   killed, faults, lam>>

\* The hold function, and scripts/clear_emergency_hold.py
SetHold ==
    /\ OperatorMoves
    /\ IF hold THEN "clear" \in Moves ELSE "hold" \in Moves
    /\ hold' = ~hold
    /\ UNCHANGED <<controlVars, reqVars, cur, marker, items, cloudVars, eventVars,
                   creates, killed, faults, lam>>

\* scripts/lifecycle.py cleanup and resume-cleanup write the request directly.
ScriptCleanup ==
    /\ "script" \in Moves /\ OperatorMoves
    /\ req.phase = "NEEDS_ATTENTION" \/ (req.phase \in {"IDLE", "COMPLETE"} /\ ~req.cleanup)
    /\ req' = [req EXCEPT !.cleanup = TRUE, !.enabled = FALSE, !.bootstrap = FALSE,
                 !.phase = IF @ = "NEEDS_ATTENTION" THEN "QUIESCING" ELSE @,
                 !.token = IF req.phase = "NEEDS_ATTENTION" THEN 0 ELSE @]
    /\ due' = (due /\ req'.token # 0)
    /\ age' = 0
    /\ stream' = stream \o Triggered(req, req')
    /\ UNCHANGED <<controlVars, recordVars, cloudVars, fired, schedules, creates,
                   killed, faults, lam>>

-----------------------------------------------------------------------------
(* Faults, at most MaxFaults of them *)

Fault(kind) ==
    /\ kind \in FaultKinds /\ faults < MaxFaults
    /\ faults' = faults + 1

Running == lam.pc \notin {"idle", "end"}

\* A call raises.  A write that succeeds while its answer is lost is this fault at
\* the next step.
CallFails ==
    /\ Fault("call") /\ Running
    /\ Raise
    /\ OnlyInvocation /\ UNCHANGED killed

\* The function's time limit: nothing more runs, and the event is delivered again.
Killed == lam' = [lam EXCEPT !.pc = "end", !.failed = TRUE] /\ killed' = TRUE
TimesOut ==
    /\ Fault("timeout") /\ Running
    /\ Killed
    /\ OnlyInvocation

\* The answer to CreateStack is lost, and the request is decided later.
SubmissionLost ==
    /\ At("createStack")
    /\ \/ Fault("call") /\ Raise /\ UNCHANGED killed
       \/ Fault("timeout") /\ Killed
    /\ creates' = [creates EXCEPT ![lam.rid] = @ + 1]
    /\ stack' = [stack EXCEPT ![lam.rid] = "requested"]
    /\ UNCHANGED <<controlVars, reqVars, recordVars, inst, eventVars, moves>>

\* A write of command_transaction is cancelled by a concurrent one.
Conflict ==
    /\ Fault("conflict")
    /\ \/ At("commit") /\ lam' = AfterConsume
       \/ At("feedback") /\ Goto(IF lam.failed THEN "finish" ELSE Return)
       \/ /\ At("pause") /\ req.rid = lam.cmd.rid /\ ~Bookkeeping
          /\ lam' = [lam EXCEPT !.pc = "feedback", !.done = TRUE]
       \/ At("terminal") /\ Goto("finish")
    /\ OnlyInvocation /\ UNCHANGED killed

\* An event that was processed is delivered once more.
Duplicate ==
    /\ Fault("duplicate") /\ At("end")
    /\ Settle(TRUE)
    /\ lam' = Idle
    /\ UNCHANGED <<controlVars, reqVars, recordVars, cloudVars, schedules, creates,
                   killed, moves>>

\* A stack fails to be created, or to be deleted.
StackFails(r) ==
    /\ Fault("stack")
    /\ \/ stack[r] = "creating" /\ stack' = [stack EXCEPT ![r] = "failed"]
       \/ stack[r] = "deleting" /\ stack' = [stack EXCEPT ![r] = "undeleted"]
    /\ UNCHANGED <<controlVars, reqVars, recordVars, inst, eventVars, creates,
                   killed, moves, lam>>

-----------------------------------------------------------------------------
(* The specification *)

Init ==
    /\ switches = {} /\ active = NoCommand
    /\ req = Prepared /\ due = FALSE /\ age = 0
    /\ hold = FALSE /\ cur = Uninitialized /\ marker = "none" /\ items = {}
    /\ stack = [r \in Cycle |-> "none"] /\ inst = [r \in Cycle |-> "none"]
    /\ stream = <<>> /\ fired = {} /\ schedules = {}
    /\ lam = Idle
    /\ creates = [r \in Cycle |-> 0] /\ killed = FALSE
    /\ moves = 0 /\ faults = 0

Deliver ==
    \/ \E i \in DOMAIN stream : DeliverRecord(i)
    \/ \E ev \in fired : DeliverRetry(ev) \/ DropRetry(ev)

OperatorCommand == ReadCommand \/ CommitCommand \/ Dispatch \/ Feedback \/ Pause

Bootstrap ==
    \/ Process \/ ClaimMarker \/ Recheck \/ CreateStack \/ RecordStack \/ Submit
    \/ ReleaseMarker

CleanupStep ==
    \/ BeginCleanup \/ SettleMarker \/ Inventory \/ Terminate \/ DeleteStacks
    \/ Verify \/ EraseItem \/ ReadLiveControl \/ ResetCycle \/ Attention

Scheduling ==
    \/ ClearToken \/ ScheduleRetry \/ CreateSchedule \/ CancelReplaced
    \/ Unscheduled \/ RequestTerminalCleanup

Invocation == OperatorCommand \/ Bootstrap \/ CleanupStep \/ Scheduling \/ EndInvocation

Chain(r) ==
    \/ SeedClaims(r) \/ ChainClaims(r) \/ ChainLaunches(r) \/ ChainRecords(r)
    \/ ChainReleases(r) \/ ChainEnds(r)

Operator == (\E s \in Switch : RequestSwitch(s)) \/ SetHold \/ ScriptCleanup

Faulty ==
    \/ CallFails \/ TimesOut \/ SubmissionLost \/ Conflict \/ Duplicate
    \/ \E r \in Cycle : StackFails(r)

Time == DuePasses \/ TimePasses \/ \E s \in schedules : Fire(s)

Next ==
    \/ Deliver \/ Invocation \/ Operator \/ Faulty \/ Time
    \/ \E r \in Cycle : StackSettles(r) \/ InstanceTerminates(r) \/ Chain(r)

Spec == Init /\ [][Next]_vars

\* The stream and the schedules deliver, an invocation goes on until it ends, time
\* passes and AWS decides.  Nothing is assumed of the daemons or of the operator.
Fairness ==
    /\ WF_vars(Deliver) /\ WF_vars(Invocation)
    /\ WF_vars(DuePasses) /\ WF_vars(TimePasses)
    /\ WF_vars(\E s \in schedules : Fire(s))
    /\ \A r \in Cycle : WF_vars(StackSettles(r)) /\ WF_vars(InstanceTerminates(r))
FairSpec == Spec /\ Fairness

-----------------------------------------------------------------------------
(* Properties *)

\* Type invariant of the controller's state and of what it reads.
TypeOK ==
    /\ switches \subseteq Switch /\ active \in Command
    /\ req \in Request /\ due \in BOOLEAN /\ age \in 0..2
    /\ hold \in BOOLEAN /\ cur \in Current
    /\ marker \in {"none", "bootstrap", "chain"}
    /\ items \subseteq Cycle \X {"stack", "inst"}
    /\ stack \in [Cycle -> StackState]
    /\ inst \in [Cycle -> {"none", "running", "shutting-down", "terminated"}]
    /\ stream \in Seq(Event) /\ fired \subseteq Event
    /\ schedules \subseteq Schedule
    /\ lam.pc \in Pc /\ lam.ev \in Event /\ lam.cmd \in Command
    /\ lam.beforeRid \in 0..(MaxCycle + 1) /\ lam.before \in Token \cup {0}
    /\ lam.rid \in 0..(MaxCycle + 1)
    /\ creates \in [Cycle -> Nat] /\ killed \in BOOLEAN
    /\ moves \in 0..MaxMoves /\ faults \in 0..MaxFaults

\* A cycle's stack is submitted at most once, however often the start, its records
\* and its failures are delivered (the durable claim in process).
OneBootstrapPerCycle == \A r \in Cycle : creates[r] <= 1

\* When the request moves on to the next cycle nothing of an earlier one is left or
\* can still appear: no stack, instance, submission, record or CURRENT
\* (cleanup_step and complete_cleanup against submissions in flight).
ResetLeavesNothing ==
    \A r \in Cycle : r < req.rid =>
        /\ stack[r] # "requested" /\ ~StackExists(r) /\ ~InstanceExists(r)
        /\ \A i \in items : i[1] # r
        /\ cur.rid # r

\* Whatever exists, or may still appear, without a record of it is covered by the
\* marker that cleanup waits for.
MarkerCoversUnrecorded ==
    \A r \in Cycle :
        /\ (stack[r] = "requested" \/ StackExists(r)) /\ <<r, "stack">> \notin items
           => marker = "bootstrap"
        /\ InstanceExists(r) /\ ~Recorded(r) => marker = "chain"

\* Once the inventory is taken nothing new appears in it: a launch that passed its
\* gates earlier holds the marker, and the inventory waits for the marker.
NothingNewAfterInventory ==
    [][req.phase \in {"DELETING", "VERIFYING"} =>
         \A r \in Cycle : (stack[r] \in {"none", "requested"} => stack'[r] = stack[r])
                          /\ (inst[r] = "none" => inst'[r] = "none")]_vars

\* The busy gate is true: while a cleanup command is active, its cycle is the
\* current one and is being cleaned (the reset acknowledges the command in the same
\* transaction).
BusyGateTrue == active.cmd = "CLEANUP" => active.rid = req.rid /\ Cleaning

\* Between invocations an active cleanup has its next delivery: a record, or the
\* schedule of the token it stores (finish_cleanup_delivery), unless an invocation was
\* killed between the end of one retry and the scheduling of the next.
RetryArmed ==
    ~killed /\ At("idle") /\ CleanupActive(req.rid) /\ stream = <<>> =>
        \/ NextRetry \in schedules
        \/ \E ev \in fired : ev.rid = req.rid /\ ev.token = req.token

\* docs/bootstrap.md: a failed cleanup can be requested again, which resumes it with
\* its inventory: the records of the instances it lists are still there.
InventoryRetained ==
    req.phase = "NEEDS_ATTENTION" /\ req.listed => Recorded(req.rid)

\* A cleanup that has begun ends: complete, or with the operator's attention.
CleanupSettles == req.phase \in ActiveCleanup ~> req.phase \notin ActiveCleanup

\* An accepted start ends: its bootstrap is submitted, or the failure is reported and
\* launch permissions are paused (run_operator's except clause).
StartSettles ==
    active.cmd = "START" /\ active.rid \in Cycle
        ~> active.cmd # "START" \/ req.status = "SUBMITTED"

\* The controller implements Cycle: one stack and one successor per cycle, removal
\* only during a cleanup, and the next cycle only after everything is gone.
Life(r, states, gone) ==
    IF r \notin Cycle \/ states[r] = "none" THEN "none"
    ELSE IF states[r] = gone THEN "gone" ELSE "alive"
Status(r) == [stack |-> Life(r, stack, "deleted"), inst |-> Life(r, inst, "terminated")]
C == INSTANCE Cycle WITH rid <- req.rid, cleaning <- Cleaning,
                         thing <- Status(req.rid), Thing <- {"stack", "inst"}
ImplementsCycle == C!Spec
=============================================================================
