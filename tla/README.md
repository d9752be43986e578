# Cloud Glider in TLA+

Cloud Glider runs a chain of EC2 instances ("generations") in which each
instance creates its successor, hands the ownership of the cycle to it, and is
terminated by it. Everything the instances agree on is in one DynamoDB table.
This directory holds TLA+ modules of that system, TLC configurations that check
them on small instances, and TLAPS proofs that hold for every instance. Paths
below are relative to the repository; `E` is `daemon/cloud_glider/ec2_daemon.py`,
`K` is `daemon/cloud_glider/ec2_sdk.py`, `A` is `daemon/cloud_glider/aws_sdk.py`,
`D` is `daemon/cloud_glider/daemon.py`, `F` is `daemon/cloud_glider/family_daemon.py`,
`G` is `daemon/cloud_glider/family_sdk.py` and `H` is `bootstrap/handler.py`.

## 1. Inventory

### Components, their state and their operations

| component | state | operations | modelled |
|---|---|---|---|
| EC2 propagation daemon (`E`, `K`, `A`, run by `ami/files/cloud-glider.service`) | process: lease token, current step, the control and CURRENT it last read; everything else is in the table or in EC2 | start-up, cycle, heartbeat, functional proof, lease, predecessor retirement, provisioning, readiness wait, handoff, request of a hold | `Ec2Chain` |
| DynamoDB coordination records | CONTROL/GLOBAL, HOLD/ACTIVE, BOOTSTRAP/REQUEST, CURRENT/GLOBAL, LOCK/PROPAGATION, LOCK/PROVISIONING, GEN#n SUBMISSION, RESOURCE and STATE, audit records | conditional writes and transactions of the others | partly, in `Ec2Chain`, `CfnChain`, `Family` and `Lifecycle` |
| Lifecycle controller (Lambda, `H`) | BOOTSTRAP status and pending command, cleanup phase, retry token and schedule | `consume_command`, `run_operator`, bootstrap submission, `cleanup_step` (QUIESCING, DELETING, VERIFYING, COMPLETE, NEEDS_ATTENTION), retry scheduling, terminal cleanup | `Lifecycle`, `Cycle` (`consume_command` also in `Ec2Chain`) |
| Emergency hold function (`cfn/foundation.yaml`) and its clearance (`scripts/clear_emergency_hold.py`) | HOLD/ACTIVE, and STATE forced to ERROR | create hold, clear hold | `Ec2Chain`, `CfnChain`, `Family` |
| CloudFormation propagation daemon (`D`, `A`) | as the EC2 daemon, with stacks for instances and heartbeats for proofs | cycle, `create_stack`, readiness by heartbeats, handoff, deletion of its own stack | `CfnChain` |
| Family daemon and control monitor (`F`, `G`, `inherited.py`) | NODE, STATE, PROPAGATION, SUBMISSION, RESOURCE and STOP of each path; the local stop file; the monitor's last good observation | poll controls, launch children, prove, accept, retire, stop | `ControlMonitor`, `Family` |
| Timing exporter (`timing_export.py`) | bounded queue, seal, counters | accept, drain, seal, completion marker | not modelled: best-effort diagnostics that no other component reads |
| Observer (`observer/server.py`) | snapshot per environment, sequence numbers, checkpoints | apply stream record, checkpoint, resume | not modelled: a display; each update is one SQLite transaction |
| Operator and release scripts | request switches in CONTROL, the table's initial items | start, stop, cleanup, edits of CONTROL, `lifecycle.py` cleanup and resume-cleanup | operator moves of `Ec2Chain` and `Lifecycle` |
| AMI build, IAM policies, templates | none | none | not modelled: declarations without a state machine |

`scripts/initialize_control.py` selects between the chain (existing
cycles) and the family backend (new EC2 cycles with inherited
configuration). The chain is where ownership, retirement and the safety contract
live, so it is modelled first.

### Interactions

* Daemons never talk to each other. A candidate publishes a heartbeat with a
  functional proof in GEN#n/STATE; the owner polls it; the owner's transaction
  in CURRENT makes the candidate the owner.
* A daemon takes LOCK/PROPAGATION for one cycle. Each transaction repeats the
  conditions it relies on (`control_gate_checks`, `current_check`, `lease_check`),
  since RunInstances and TerminateInstances cannot be part of a transaction.
* RunInstances is bracketed by records: SUBMISSION and LOCK/PROVISIONING in one
  transaction before it (`claim_submission`, `K`:277), RESOURCE after it, then the
  deletion of the marker. Cleanup waits for the marker.
* The operator's scripts set a request in CONTROL; the table's stream delivers it to
  the Lambda, which turns it into the gates that the daemons read.
* A daemon that sees a contradiction raises SafetyViolation, invokes the hold
  function and stops; the hold closes every gate until an operator clears it.

### What is hard, and what makes each component correct

* *EC2 daemon.* Reads several AWS calls old when a write that no condition can
  guard (RunInstances, TerminateInstances) is sent; expiry of the lease under a
  stalled holder; lost responses; crashes between records; EC2's
  inventory, which lags. Correct when: one launch per generation, no launch
  outside the marker, at most three instances and those adjacent, only the
  predecessor terminated, ownership passed on only after it is gone and under
  open gates, and the chain finishes once it is left alone.
* *Lifecycle controller.* Stream events, operator commands and fired schedules
  may each be duplicated, late or lost. Correct when: one cleanup runs per
  request, no resource outlives a COMPLETE cleanup, a retry always exists or
  the cleanup reports NEEDS_ATTENTION, and a new cycle starts from a
  reset CURRENT.
* *Control monitor.* Its reads hang, fail or answer late. Correct when a stop ends
  every permission within the maximum age of an observation, is never forgotten
  across a restart, and is never taken by a healthy monitor without one.
* *Family.* Every node acts on its own, from records of its parent, children and
  grandchildren; the monitor may stop it between two launches. Correct when: no
  path is launched twice, a node retires only after its parent is gone and its
  children have launched theirs, cleanup's inventory is complete, and a stop
  reaches every daemon.
* *CloudFormation daemon.* As the EC2 daemon, but the owner deletes its own stack
  after the handoff, and no record makes anyone repeat a deletion that failed.
  Correct when: one stack per generation, deletions only of handed-over
  generations, and a predecessor that is left behind cannot break the ceiling.

`PROJECT.json` lists each hazard at its line.

## 2. Plan

Written, in this order: `Ec2Chain` (the core) and `Lineage` (what it promises),
`Ec2ChainTypes`, `Ec2ChainSafety` and `LineageProofs` (proofs), `Lifecycle` (the
controller of a cycle) and `Cycle` (what it promises) with `LifecycleProofs`,
`ControlMonitor` with `ControlMonitorProofs`, `Family` with `FamilyTypes` and `FamilySafety`,
`CfnChain` with `CfnChainProofs`. Each `MC` module instantiates one of them.

What is left, in this order:

1. Family submissions and status alarms in the cleanup of `Lifecycle`, and with them the
   composition of `Lifecycle` with `Family`, which have only a reduced
   cleanup and a reduced chain of each other.
2. `TimingExport`: a bounded queue, its seal and the conservation of its records.

## 3. The models

### `Lineage.tla`, the promise

One generation owns the cycle. It may launch its successor once, retire its
predecessor, and hand over to a launched successor when every older generation
is gone. It says nothing of records, leases or daemons.

### `Ec2Chain.tla`, the protocol

State:

| variable | code |
|---|---|
| `ec2`, `inflight`, `visible`, `launches`, `alarm` | the instance of each generation, RunInstances calls EC2 has not decided, instances a filtered DescribeInstances shows, calls sent (history), status-check alarms |
| `pins`, `switches`, `enabled`, `cleaning`, `hold` | the approved fields of CONTROL, its requests not yet consumed, the gates that result, HOLD/ACTIVE |
| `cur`, `lease`, `marker` | CURRENT, LOCK/PROPAGATION, LOCK/PROVISIONING |
| `submission`, `resource`, `state`, `fresh` | GEN#n SUBMISSION, RESOURCE and STATE, and whether the proof in STATE is younger than its limit |
| `pc`, `mem` | of each daemon process: its next step, and what it has read and still relies on |
| `upsets` | operator moves and faults so far, which `MaxUpsets` bounds together |

A step is one AWS write, or the reads between two writes. Reads that are used
after a write or after a call that takes time are kept in `mem`, so a check that
is stale when it is used is stale in the model. The groups of `DaemonStep`
follow the functions:

| actions | functions |
|---|---|
| `Boot`, `ClaimCurrent`, `ReadCycleSnapshot`, `InvokeHold` | `main` and `run`, `initialize_current`, the head of `cycle`, `request_hold` |
| `ProbeCapacity`, `ProbeControl`, `ProbeFinal`, `WriteHeartbeat` | `prove_functional_readiness`, `heartbeat` |
| `AcquireLease`, `CheckOwnership`, `ReleaseLease` | `acquire_lease`, the ownership test, the `finally` of `cycle` |
| `RetirePredecessor`, `DescribePredecessor`, `CheckRetirementControl`, `TerminatePredecessor`, `DeleteStatusAlarm`, `MarkRetirementCompleted` | `retire_predecessor` |
| `FindSuccessor`, `ReconcileSubmission`, `CheckCapacity`, `CheckProvisionControl`, `RenewForProvision`, `ClaimSubmission`, `CheckLastControl`, `RunInstance`, `RunInstanceReturns`, `RecordSubmission`, `EndProvisioning`, `EnsureStatusAlarm` | `provision_successor` and the gateway calls below it |
| `WaitRenew`, `WaitLook`, `CheckContinuation`, `CheckContinuationControl`, `ReadCandidate` | `wait_for_readiness` and the retirement done while waiting |
| `CheckHandoffControl`, `ConditionalHandoff` | `conditional_handoff` |

The environment: `RequestSwitch`, `ConsumeCommand`, `OperatorHold`, `ClearHold`,
`EditControl` (operator and Lambda); `AcceptLaunch`, `InventoryShows`,
`InstanceRuns`, `InstanceEnds`, `InstanceTerminates`, `LeaseLapses` (AWS and
time); `Crash`, `CallFails`, `RejectLaunch`, `InstanceFails`, `ProofAges`,
`LeaseExpiresUnderHolder` (faults).

Abstractions:

* CONTROL's approved fields are one value, `pins`; the model needs only their
  equality and their `max_generation`. An edit (`EditControl`) is one that
  `_validated_control` (`E`:268-326) accepts: an edit of the ceiling, the launch template or the
  artifacts that it rejects is a SafetyViolation of every daemon that reads it. A fingerprint or proof made under other
  fields differs because its pins do.
* Time is not counted. A lease is free, held, held by a token that is no longer in any
  process (`stale`), or expired; a proof is fresh or not.
* `RequestSwitch` may add a request to a pending one. `lifecycle.py` refuses to, but the
  operator may also set the switches in the table (`docs/bootstrap.md`), where nothing does;
  `consume_command` rejects two at once. `CfnChain` and `Lifecycle` do the same.
* Telemetry is left out: a heartbeat that republishes the same status, proof and
  pins is a stutter. In the handoff's comparison of STATE, a heartbeat that
  lands between read and write and cancels the transaction is a `CallFails`.
* A write whose response is lost is a step followed by `CallFails` at the next
  one. A process killed by SIGTERM may release its lease first: that is a
  released lease followed by `Crash`.
* `Crash` turns the holder's lease stale instead of counting UUIDs, so any number
  of restarts fits in a finite state.
* Checks of an instance against tags, launch template, AMI and artifacts are assumed to
  pass: they are functions of data that no step of the chain changes.
* EC2's `stopping` and `stopped` states, and its forgetting of terminated
  instances after about an hour, are left out.
* One cycle: `cleaning` is never undone here. That is the subject of `Lifecycle`,
  which in turn reduces the chain to one successor. The two meet in the gates and the
  marker: `MarkerCoversLaunch` here is what `SettleMarker` there relies on.

`CHECK_DEADLOCK FALSE` is in every configuration because a finished chain stops.

### `Cycle.tla`, the promise of the controller

A cycle's things (the seed stack, a successor) are created at most once each and
never after a removal has begun, are removed only during a cleanup, and the next
cycle begins when nothing of this one is alive.

### `Lifecycle.tla`, the controller

State:

| variable | code |
|---|---|
| `switches`, `active` | CONTROL's request switches, `active_command` with its request ID |
| `req`, `due`, `age` | BOOTSTRAP/REQUEST; whether `cleanup_retry_at` has passed; how old `cleanup_started_at` is (under 180 s, under 1800 s, over) |
| `hold`, `cur`, `marker`, `items` | HOLD/ACTIVE, CURRENT, LOCK/PROVISIONING, the GEN# records of the stack and the successor |
| `stack`, `inst` | CloudFormation's and EC2's view of them, for each cycle |
| `stream`, `fired`, `schedules` | stream records and fired schedules waiting to be processed; one-time schedules |
| `lam` | the running invocation: its step, its event, and what it has read and relies on |
| `creates`, `queued`, `moves`, `faults` | history, and the bounded counters |

Reserved concurrency is one (`cfn/bootstrap.yaml`), so there is one invocation at a time;
what interleaves with it are the operator, the daemons, AWS and time. An
invocation is a walk over program counters: `Raise` follows the except clauses of
`run_operator`, `cleanup_step` and `finish_cleanup_delivery`, and `TimesOut` follows
none of them.

| actions | functions |
|---|---|
| `DeliverRecord`, `DeliverRetry`, `DropRetry`, `EndInvocation` | the event source mapping, `handler`, the early returns of `retry_cleanup` |
| `ReadCommand`, `CommitCommand` | `consume_command`: its snapshot, and the transaction that compares with it |
| `Dispatch`, `Feedback`, `Pause` | `run_operator`, `operation_feedback`, the except clause |
| `Process`, `ClaimMarker`, `Recheck`, `CreateStack`, `RecordStack`, `Submit`, `ReleaseMarker` | `process` with `guard`, `claim_submission`, `record_bootstrap_submission`, `finish`, `release_submission` and `reconcile_submitted_bootstrap` |
| `BeginCleanup`, `SettleMarker`, `Inventory`, `Terminate`, `DeleteStacks`, `Verify`, `Attention` | `cleanup_step` with `begin_cleanup`, `cleanup_guard` |
| `EraseItem`, `ReadLiveControl`, `ResetCycle` | `complete_cleanup` |
| `ClearToken`, `ScheduleRetry`, `CreateSchedule`, `CancelReplaced`, `Unscheduled` | `retry_cleanup`, `finish_cleanup_delivery`, `schedule_cleanup_retry` |
| `RequestTerminalCleanup` | `request_terminal_cleanup` |

Abstractions:

* Records of one item stay in order (they share a partition key), those of
  different items do not; a record that fails is delivered again before its
  successors. That is how a stream's shards behave with `BatchSize` 1.
* A stream record keeps only whether its `command_sequence` is still the current one.
* Retry tokens are reused once nothing refers to them; the code numbers them.
* `DuePasses` lets a token's time pass before its schedule exists; a schedule that
  exists fires first.
* The chain is one successor, launched under the marker (`ChainClaims` to
  `ChainReleases`), and the end of the last generation (`ChainEnds`). `Ec2Chain` is
  the whole.
* A terminated instance stays describable, so `recorded_instance` always finds it.
* `command_transaction` returning False because of a write in the same instant is the
  fault "conflict"; a comparison with a snapshot that is out of date is modelled as such.
* Unsettled family submissions, status alarms, volumes, retained stack resources,
  the digests of CONTROL, and every check of templates and artifacts are left out.
* `Invoke` stops at `req.rid` beyond `MaxCycle`: that is the bound on cycles.

### `CfnChain.tla`, the CloudFormation backend

It has the structure and the abstractions of `Ec2Chain`. What differs in the code
differs here:

| variable | code |
|---|---|
| `stack`, `built`, `ec2`, `inflight`, `requests` | the stack of each generation, the release in its parameters, its instance, CreateStack calls CloudFormation has not decided, calls sent (history) |
| `pins`, `switches`, `enabled`, `cleaning`, `hold` | CONTROL's approved fields (with the release they name), requests, gates, HOLD |
| `cur`, `lease`, `marker`, `resource`, `state`, `fresh`, `counted` | CURRENT and both LOCK records; RESOURCE and STATE; STATEs inside the freshness window, and those whose sequence number was counted already |
| `pc`, `mem` | of each daemon: its next step; the CONTROL of its cycle and the heartbeats it has counted |
| `faults`, `cancels`, `moves` | faults, cancelled handoff transactions and operator moves so far, which `MaxUpsets` bounds together |

| actions | functions |
|---|---|
| `Boot`, `ClaimCurrent`, `ReadControl`, `ReadCurrent`, `WriteHeartbeat`, `AfterHeartbeat` | `verify_self`, `ensure_bootstrap_ownership`, the head of `cycle`, `heartbeat` |
| `AcquireLease`, `CheckOwnership`, `ReleaseLease` | `acquire_lease`, the ownership test, the `finally` of `cycle` |
| `FindSuccessor`, `CheckCapacity`, `CheckControl`, `BeginProvisioning`, `SendCreate`, `CreateReturns`, `RecordSubmission`, `EndProvisioning` | `provision_successor` and the gateway's `_begin_provisioning`, `create_stack`, `_record_submission`, `_end_provisioning` |
| `RenewLease`, `PollSuccessor`, `Verdict` | `wait_for_healthy_successor`, `_eligible_heartbeat` |
| `CheckHandoff`, `ConditionalHandoff`, `DeleteOwnStack` | `conditional_handoff` and the deletion of its own stack that follows in `cycle` |
| `InvokeHold`, `CreateHold` | the SafetyViolation clause of `run`, and the hold function |

A generation has one daemon: its stack has one instance, and two processes on one
instance are kept apart by systemd. The comparison of a found stack's
parameters with CONTROL is one of releases.

Faults are a crash, a failed call or lost answer, slowness, a rejected CreateStack, a failed stack
(`Crash`, `CallFails`, `ReadinessTimesOut`, `HeartbeatAges`, `LeaseExpiresUnderHolder`,
`RejectCreate`, `StackFails`), and, counted apart, `HandoffCancelled`: DynamoDB cancels the handoff
transaction whose conditions hold, for a conflict with the successor's heartbeat, which writes
the STATE item that the handoff updates, or for throttling. `handoff` (`A`:781)
answers False for this as for a false condition, so it ends as a violation.

### `ControlMonitor.tla`, the monitor's thread

Real time, in whole seconds: `now`, `submitted`, `observed` and `nextPoll` are the
fields of `ControlMonitor` in `F`. `remote` is what `poll_stopped` would read.
`Tick` is `_tick`: it takes the answer of a finished read, whose age starts at
its submission, latches a stop, and submits the next read. `Read` and `ReadFails` are the
executor's thread; a read that never answers is one for which neither happens.
`StopChildren` is the daemon's reaction, which writes the local file. `Crash` replaces the
process by one that knows nothing: its thread ticks at once, and `ReadStopFile` is a later
step of `run`, before which nothing acts on a tick (`restored`). The two threads set
`stopped` without a common lock. In CPython (3.12 on the image) no assignment is lost, since the
interpreter switches threads only at calls and jumps, never inside
`self.stopped |= remote_stop` (`F`:54). The history variables `permitted`,
`since` and `boot` are what the properties compare. An undisturbed monitor ticks
once in every second and its reads answer at once (`Prompt`); every delay is an upset.

### `Family.tla`, the tree of instances

Node 1 is the path "r", and the children of a path p are 2p and 2p + 1. The
module models everything that the daemons of all paths do:

| variable | code |
|---|---|
| `shape` | the inherited configuration: width, fan-out |
| `db` | the items of each path: NODE, STATE, PROPAGATION, SUBMISSION, RESOURCE, STOP |
| `ec2`, `disk` | its instance and the local stop file |
| `run`, `work` | the daemon's step, its latch and its readiness clock; the worker of its parent that launches it |
| `enabled`, `hold`, `phase`, `invoked` | CONTROL's gate, HOLD, the request's phase, calls of the hold function under way |
| `accepted`, `upsets`, `blame` | history |

| actions | functions |
|---|---|
| `Boot`, `BootDying`, `BeginLaunch`, `PublishReadiness`, `MarkLeaf` | `run`, `initialize_node`, the head of `cycle`, `publish_readiness`, `mark_leaf` |
| `StartWorker`, `LaunchIntent`, `Reconcile`, `Send`, `RecordRejection`, `RecordChild`, `SettleChild`, `WorkerFails` | `launch_children` and its thread pool, `launch_child` |
| `AwaitWorkers`, `PublishPropagation`, `AcceptChild`, `ChildNotReady`, `ChildrenAccepted` | the collection of the workers' results, `publish_propagation`, `accept_child` |
| `AuthorizeRetirement`, `RetireSelf`, `TerminateSelf` | `authorize_retirement`, `retire_self` |
| `MonitorSees`, `MonitorExpires`, `Stop`, `StopNode`, `FinishStop` | the monitor of the daemon, `stop_children` |
| `Violate`, `InvokeHold`, `CreateHold` | `SafetyViolation` and `request_hold` |
| `BeginCleanup`, `StartDeleting`, `Delete` | the part of the controller's cleanup that reads families |

A transaction is one step with the conditions it rechecks; a call of EC2 is a step of
its own. The monitor is `ControlMonitor` without its clock: it stops a node when it
sees a stop, and may also stop one by an expired observation (the fault "slow").
Each upset has a kind. "exhausted" is a worker whose eight attempts of one write have failed
(`G`:187-194). "unconfirmed" is a node's own TerminateInstances without an answer, or a crash of
its process after it: while the instance shuts down the service starts the daemon again, and
`verify_family_self` (`G`:97-102) may find less than it compares (`BootDying`).
Artifacts, configuration digests and identity are assumed to match.

## 4. The runs

Twelve runs, one for each question. Sizes are distinct states, times are with two
workers.

| run | instance | what it shows | states | time |
|---|---|---|---|---|
| `chain_faults` | generations 0..2, ceiling 3, any one crash, failed call, slow step or rejection | every safety property of the EC2 chain that faults endanger; it implements `Lineage` and completes or halts at an intent left for the operator | 266,958 | 2.5 min |
| `chain_operator` | generations 0..2, ceiling 2, two versions of CONTROL, any two of edit, stop, hold, clear and a lost instance | the ceiling, the order of handoff and retirement, and the terminal owner, whatever the operator does meanwhile | 1,297,193 | 2.7 min |
| `chain_resume` | generations 0..1, any two of stop, start, hold, clear and a fault | a chain that is disturbed and left enabled completes | 120,261 | 0.8 min |
| `chain_two_stalls` | generations 0..2, ceiling 2, no fault, no move | violated: `ChainCompletes` (section 6) | | 4 s |
| `lifecycle_operator` | two cycles, two moves out of switches, hold, clear, the recovery script and a launching chain | a cycle starts with nothing left of the one before; the controller implements `Cycle` | 449,708 | 0.8 min |
| `lifecycle_faults` | a start and a cleanup, any one fault | one bootstrap, the marker's cover, and a retry that is always armed | 2,056,476 | 2 min |
| `lifecycle_live` | a start, a cleanup and holds, one slow step, conflict or failed stack | both commands settle | 169,253 | 1 min |
| `lifecycle_resume` | three moves out of switches and launches | violated: `InventoryRetained` (section 6) | | 22 s |
| `monitor` | 9 s of a monitor that polls every second with a maximum age of 4, any two upsets | a stop ends every permission in time, a written one for good; a healthy monitor stops nobody | 2,266,716 | 1.2 min |
| `family` | a line of four generations undisturbed; a line of three and a node with two children, one fault or move | single launches, the order of retirement, the inventory, completion and stop | 281,743 | 2.6 min |
| `cfn` | generations 0..2, ceiling 2, two releases, any one fault or move and the clearance of a hold | every property of the CloudFormation chain | 290,587 | 1.3 min |
| `cfn_stop` | generations 0..1, one stop | violated: `FencingDefers` (section 6) | | 1 s |

`CHECK_DEADLOCK FALSE` is in every configuration: a finished chain or family
stops, and a controller has nothing to do once the moves are used up.

### The properties of the chain

* `LiveCeiling`: how many instances can be alive. (`LiveWindow`, which of them, follows from
  `ImplementsLineage` and is proved.)
* `OneLaunchPerGeneration`: an intent is never retried, so a lost answer cannot
  become a second instance.
* `MarkerCoversLaunch`: while a launch may still appear or is unrecorded, the marker
  names it.
* `RetirementRecordTrue`: a retirement that is recorded happened, alarm included.
* `RetireOnlyAccepted`, `HandoffAfterRetirement`: what a step may never do, for
  the two irreversible steps of the protocol.
* `NoSelfInflictedHold`: with one process per instance, faults alone never look
  like a safety violation. (With two processes they may: that is what the
  violation is for.)
* `TerminalOwnerAlone`: the last owner exits only when nothing else is alive.
* `ImplementsLineage`: refinement, with `owner <- cur.gen` and `life` computed from
  the instance and the launches sent.
* `ChainCompletes`: liveness.

### The properties of the CloudFormation chain

* `LiveCeiling`, `OneRequestPerGeneration`, `MarkerCoversStack`: as above, for a backend
  that finds its successor again by the name of its stack.
* `LeftByFaultsOnly`: a predecessor that nobody will delete is the work of a fault; a
  stop, hold or edit between handoff and deletion leaves none.
* `HandoffIsApproved`, `DeletesOnlyPredecessors`: the two irreversible steps.
* `NoSelfInflictedHold`: without a move of the operator no fault ends in a hold, except a handoff
  transaction that DynamoDB cancels for a reason of its own. (That may, and so may a stop: section 6.)
* `ChainCompletes`: the chain completes, or halts at something only an operator may resolve.

### The properties of the lifecycle

* `OneBootstrapPerCycle`: the claim in `process` makes the submission single,
  whatever is delivered again.
* `MarkerCoversUnrecorded`: what exists without a record is covered by the marker.
* `NothingNewAfterInventory`: the wait for the marker makes the inventory complete.
* `ResetLeavesNothing`: nothing of an older cycle exists or can still appear.
* `BusyGateTrue`: the active cleanup command and the request's phase agree.
* `RetryArmed`: between invocations an active cleanup has a record, or a schedule of
  its own token.
* `CleanupSettles`, `StartSettles`: liveness of the two commands. A start whose
  bootstrap was submitted may stay active: while a marker is held its bookkeeping is left
  to the redeliveries, and after the last one to the operator.
* `ImplementsCycle`: refinement, with `thing` computed from `stack` and `inst`.

### The properties of monitor and family

* `StopInTime`, `NoFalseStop`: the monitor's promise in both directions, also under reads that
  never answer. A process that dies before it has written the stop file reads the stop again
  from the tables, and `StopInTime` counts its age from the restart.
* `StopSurvives`: once the file is written no tick of any process permits anything, also if the
  tables are cleared meanwhile and while a new monitor ticks before `run` has read the file.
* `LaunchedOnce`: only an explicit rejection permits another attempt.
* `RetiresInOrder`: who is retiring has lost its parent, and its children have
  taken over and launched theirs.
* `ThreeGenerations`: the bound that no daemon checks by counting; each keeps it
  by waiting for its grandparent's end.
* `InventoryComplete`: settled submissions mean that cleanup sees every instance.
* `NoSelfInflictedHold`, `FamilyCompletes`, `StopReachesAll`: faults the code handles stop
  nobody, the tree is built, and a stop ends every daemon, those of instances
  launched meanwhile too.

### Bounds

`LastGen` 2 is the least in which a generation has both a predecessor and a
successor, and the first in which a retirement and a launch overlap; `LastGen` 1
suffices for questions about one handoff. `MaxUpsets` bounds operator moves and faults
together; 2 allows an upset during the recovery from another. Restarts after
them are unbounded. The clearance of a hold is not counted in `Family`, and one is
allowed beyond the bound in `CfnChain`, so that a hold which used up the bound can be cleared. The runs have one daemon per instance; what two of them do to each other
when a lease expires under its holder is covered by the theorems, which hold for any
number of `Copies`.

`cfn` sets `MaxLive` to 2. `_validated_control` (`A`) insists on 3; with three
generations, 2 is the ceiling scaled down, so that one abandoned predecessor and the
owner fill it. The code's conditions do not depend on the number.

For the lifecycle: a start and a cleanup are two moves, and each further one is an
interference; `MaxTries` 2 lets a failed delivery be repeated once, and with one
fault no more is needed (the code allows three, `MaximumRetryAttempts: 2`, and says
that exhausted ones are the operator's: with `MaxTries` 1 `RetryArmed` fails);
`MaxToken` 4 is never exhausted. One successor stands for all direct instances,
each of which passes the same checks. `lifecycle_live` leaves the recovery script out: after a
cleanup by the script a START stays active until the operator's next request.

The monitor's `MaxAge` 4 and `Poll` 1 leave room for a read, a late answer and an
expiry, and `MaxTime` 9 for all of them and a restart. A line of four generations is
the first in which a node has a grandparent and grandchildren; the faulty line has three and
the binary node two children, whose workers race.

### Fairness

`Ec2Chain` and `CfnChain` assume weak fairness of each daemon's steps, of the delivery of a
command, of what EC2 and CloudFormation have accepted, and of the lapse of an abandoned lease. The
unit has `Restart=on-failure` with `RestartSec=15` and no start limit, so a process that
dies starts again; the daemon polls for ever and every call has a timeout; the
stream retries its records; EC2 decides a launch and finishes a termination; a
lease whose holder is gone passes its `expires_at`. Nothing is assumed of the operator
or of faults. Termination of the chain is required only when the gates
eventually stay open.

`Lifecycle` assumes weak fairness of deliveries, of the steps of an invocation, of
schedules and of time, and of CloudFormation and EC2 finishing what they have begun:
all are AWS's part. Nothing is assumed of the operator, of daemons, which
may hold the marker for ever, or of faults.

`ControlMonitor` needs none: its properties are about time that has passed. `Family` assumes weak fairness of each node's process and workers, of the
monitors, and of EC2, the hold function and the cleanup's retries.

## 5. The proofs

The chain's theorems hold for every `LastGen`, every non-empty set of `Pins` with any
`MaxGeneration`, `MaxLive` in {2, 3}, any set of `Copies`, any operator moves and any number
of upsets. The assumptions are `LastGenAssumption`, `PinsAssumption`,
`MaxLiveAssumption` (`E`:269 accepts no other), `MaxUpsetsAssumption` and
`NoneAssumption` (the missing value is no record).

* `Ec2ChainTypes`, `TypeCorrect`: the type invariant, one step per action.
* `Ec2ChainSafety`, `Invariance`: the inductive invariant `IInv`. The safety
  invariants are not inductive by themselves; what is missing is the knowledge
  that a process carries between its steps. `IInv` adds, in named parts:
  `Launched` and `NothingAhead` (an instance follows its one request, a request
  its intent, and nothing is launched beyond CURRENT's successor); `Covered` (the
  marker); `OldGone`, `AlarmsGone` (what CURRENT says of the predecessor is
  true); `CeilingTwo` (under a ceiling of two a launch follows the predecessor's
  termination); `OneIntent` (one process at a time is between an intent and
  its request); and, for each process, `AtPlace`: what the reads in `mem` still
  guarantee at its step. The last is where the argument lies: a process
  whose lease has expired still runs, so each fact at a step must be stable
  under everything another process does, or be rechecked by the transaction
  that uses it.
* `LaunchOnce`, `MarkerCovers`, `RetirementTrue`, `Ceiling`: the invariants that the
  runs check, as consequences, and `Window` (`LiveWindow`).
* `RetirementAccepted`, `HandoffSafe`: the action properties, from the invariant
  before the step.
* `Refinement`: each step of `Ec2Chain` is a step or a stutter of `Lineage`.
* `TerminalAlone`: for any number of `Copies`. A second invariant, `Ends`, says that an owner works
  under the version its handoff wrote (`VersionAt`, from the fingerprint comparison at `E`:778),
  that nothing is launched behind an owner which this version makes the last (`Launching`), and
  what a process that ends has seen (`EndAt`). Generation zero has no handoff and compares nothing
  (`E`:766), so the theorem asks that the versions agree on whether it is the last
  (`OneBeginning`). TLC finds a counterexample without this (section 6).
* `NoFaultHolds`: for one process per instance and an operator who neither holds nor cleans up
  (`Undisputed`), with edits that validation accepts. Its invariant `Peace`: the gates that a violation is compared with stay open
  (`Gates`), what CURRENT says of the boundary agrees with its own version (`Evidence`),
  and whoever is past `acquire_lease` still holds the lease and owns CURRENT
  (`PeaceAt`), since nobody else owns it and could take even an expired one. Two processes can take it
  from each other, which is why the hypothesis is there.
* `LineageProofs`, `LineageWindow`: whatever implements `Lineage` has only the
  owner and its two neighbours alive.

The monitor's theorems (`ControlMonitorProofs`) hold for every polling interval and maximum
age that validation accepts (`SettingsAssumption`, from `inherited.py`) and any number of
upsets:

* `StoppedInTime`: the invariant behind it is that what a read answers was true at
  or after its submission, so an observation without a stop cannot be younger than the stop.
* `NeverStopsFalsely`: without upsets, the last observation is at most one polling
  interval and a tick old. It needs `MaxAge > Poll + 2`, which the validation does not ask for
  (section 6).
* `TypeCorrect`, `FileStopsForGood`: types, and that a stop on the disk is latched by whoever has
  read it back (`Latched`), so no later tick permits anything.

The theorems about the CloudFormation chain (`CfnChainProofs`) hold for every `LastGen`, `Pins`,
`Release`, `MaxGeneration`, any `MaxLive` of at least 2, any `Required`, any operator moves and
faults and any number of them (`LastGenAssumption`, `PinsAssumption`,
`MaxLiveAssumption`, `RequiredAssumption`, `MaxUpsetsAssumption`, `NoneAssumption`):

* `TypeCorrect`: types, and that no daemon acts past the limit of the CONTROL it read.
* `Invariance`: the inductive invariant `IInv`. `Ledgers` says what the requests, the stacks and
  the records know of each other; `Places` what each daemon's step may still rely on; `Room`
  that the answer of `check_capacity` lasts until CreateStack is sent. That holds because a
  daemon works only while it owns CURRENT (`OneOwner`), and what is being created is
  always the owner's own successor (`Creating`): nobody else can fill the place meanwhile.
  The lease is not needed for any of it, which is why its expiry is harmless.
* `Ceiling`, `OneRequest`, `MarkerCovers`: the invariants the run checks, as consequences.
* `DeletesOnly`, `HandoffApproved`: the two irreversible steps, from the invariant before them.
* `NoFaultHolds`: as long as the operator has not moved and DynamoDB has cancelled no handoff
  transaction for a reason of its own (`cancels`), all gates are open and CONTROL is still
  the one each daemon read and each stack was built from (`Calm`), so no comparison fails.
  It needs to know which daemon holds the lease at which step (`Holders`): the conditional
  deletes and writes fail as violations when somebody else's token is there.
* `LeftByFaults`: the predecessors that nobody will delete are at most the faults so far.
  A handoff leaves its daemon at `delete`; only a step that spends a fault takes it away from
  there with the stack still complete, and it takes away one daemon.

The family's theorems hold for every set of `Node`s closed under the children that the
settings ask for, every binary or unary shape of any width of at least one, and any kinds and
number of upsets (`NodeAssumption`, `ShapeAssumption`: `width` is a power of
two in the code, so never zero).

* `FamilyTypes`, `TypeCorrect`: types, and that nothing is launched beyond `max_generation`.
  It also states once, as lemmas, what each kind of write does (`WriteNode`, `WriteRes`,
  `GotoPc`, ...), which `FamilySafety` cites throughout.
* `FamilySafety`, `SafeAlways`: the inductive invariant, in seven parts. `Submissions` (while a
  request may be sent none was accepted) and `Records` (what a worker has seen exists) make a
  launch single. `Heirs` (only a settled child owns, only an owner submits), `Receipts` (the
  PROPAGATION item stands for settled children) and `Retirements` (who has passed
  `authorize_retirement` has a parent that is gone for good) carry the order of
  retirement. `Generations` says that the launched nodes of a unary family are a line
  without gaps and that whoever may launch is two generations behind one that is gone.
  `Calm` says what harmless upsets never cause: a crash before the termination, single failed
  calls, and rejected or unanswered launches (`Harmless`).
* `LaunchesOnce`, `RetirementInOrder`, `NoMoreThanThree`, `CompleteInventory`, `HarmlessFaults`:
  the five invariants that the run checks. For the third, at most three of the nodes of a
  line lie within three generations of the youngest, and the rest are gone.

The controller's theorems (`LifecycleProofs`) hold for any number of cycles, tokens, deliveries,
operator moves and faults (`MaxCycleAssumption`, `LimitAssumption`):

* `TypeCorrect`: types. `Course` is what makes them inductive: while an invocation runs, its record
  is still the first of its item (which is what a duplicate is made from), and the
  request's number is one of the cycles until the reset.
* The other invariant is `Safe`. `Gates`: the active command and the request's phase agree, and no
  marker is left from the inventory on. `Cycles`: for each cycle, what was submitted, what is
  recorded, which marker covers the rest, that earlier cycles are empty and later ones
  untouched, and that nothing is removed but under a cleanup which waited for the marker.
  `Places`: what the running invocation established and still relies on; a bootstrap keeps its
  claim, and a cleanup past `verify` that every cycle is empty. It holds because only the invocation
  moves the request on, and the daemons and the operator cannot pass the fence of a cleanup.
* `OneSubmission`, `UnrecordedCovered`, `CleanReset`, `BusyGate`: the invariants, as consequences.
* `NothingAppears`: the action property. A step is steady (`Steady`: it creates and removes
  nothing, and ends no cleanup), a creation, a dismantling, or the reset (`StepKinds`); only creations could
  violate it, and both need a marker that the inventory waited for.
* `ControllerImplementsCycle`: the refinement, by the same kinds of steps.
* `Armed`: `RetryArmed` while at most one fault has happened and a failed delivery is repeated at
  all (`MaxTries >= 2`; the code allows three). Its invariant `Pending` has three parts. `Tokens`
  and `SameCycle`: only a cleanup that has begun stores a token, tokens in use are not
  given out again, so a delivery never comes to match again (`StillMatches`), and an invocation
  works on the cycle it began with or has just reset it. `Retried`: what a running retry that still matches
  can have behind it; without a fault it does not fail, but its cleanup can end in the operator's
  hands, and then it no longer matches. `ArmedAt`: the stored token has its schedule or its
  delivery, or gets its schedule next; without a token, another record is waiting or the
  invocation has yet to store one. Two faults defeat it, however often deliveries
  are repeated (section 6), so the bound on faults is part of the theorem.

Each inductive invariant was checked by TLC on the instances above before it was proved. The type
invariants of the chains and of the monitor, and `LiveWindow`, are proved, and no run spends time on them.

Only model-checked:

* All liveness (`ChainCompletes`, `CleanupSettles`, `StartSettles`, `FamilyCompletes`, `StopReachesAll`),
  since liveness under fairness is out of this prover's reach, and the three runs that find a violation.

## 6. Where the code and its documents differ

With a run that shows it:

* **A ceiling of two stalls.** `max_live_generations` 2 is accepted, and
  `docs/ec2-propagation.md`:67 and decision 0005 (lines 57-58) describe how a launch then waits for
  a termination. But the candidate proves its readiness by `check_capacity`
  (`E`:578), and before the handoff it and CURRENT hold both slots. No candidate
  below `max_generation` can ever publish a proof, and the owner waits for ever
  (`chain_two_stalls`).
* **A stop can become a hold.** Decision 0012 (line 101) says that lifecycle fencing
  and contention "defer the attempt instead of setting an emergency hold". In the
  CloudFormation backend every cancelled handoff transaction is False (`A`:781), which
  `D`:527 turns into a SafetyViolation: a stop saved between the last read of the controls and the
  transaction puts the environment on hold (`cfn_stop`). So does, without any move of the operator,
  a conflict with the successor's heartbeat or throttling inside the transaction
  (`HandoffCancelled`), which is why `NoSelfInflictedHold` excepts it. The EC2 backend defers.
* **A resumed cleanup can miss its inventory.** Decision 0012 (lines 53-55) says that a failed cleanup
  retains its inventory and can be resumed. The generation records are deleted
  (`H`:502) before the transaction that resets the cycle; if a switch saved after
  `H`:520 cancels it, the request still lists instances whose records are gone, and
  each resumed cleanup fails at `H`:674 (`lifecycle_resume`).

Seen while modelling, in the modules as the code has it, without a run of their own:

* **A stopped terminal owner does not exit.** `docs/safety-contract.md`:104-106 and
  decision 0010 say that the owner at the generation limit exits "including when
  propagation is disabled or held". The EC2 daemon tests the gates before the
  limit (`E`:935, `E`:951) and keeps polling. The
  CloudFormation daemon tests the limit first.
* **An edit to `max_generation` 0 can end generation zero beside its successor.** Generation zero
  returns from `retire_predecessor` (`E`:766) before the fingerprint comparison (`E`:778), so
  when the edit comes behind its launch, its next cycle ends as MAX_GENERATION_REACHED (`E`:951)
  while the successor lives. Later generations defer until the edit is undone.
* **A killed retry can lose its token.** Decision 0016 (`docs/decisions/0016-active-cleanup-retries.md`:10)
  says that a timeout preserves the token for the delivery's retries. The token is cleared
  (`H`:1060) before the next one is stored, so an invocation killed in between leaves an
  active cleanup without a token; its redelivery no longer matches and is dropped. Without
  further records the cleanup then waits until the operator requests it again.
* **A retry that could not be scheduled can be forgotten.** `schedule_cleanup_retry` stores the
  token before it creates the schedule, and returns when `cleanup_retry_at` has passed, because "a
  fired schedule may already have auto-deleted" (`H`:990-993). If creating the schedule fails and
  the write that reports this fails too (`H`:1035), the redelivered record finds the token
  past its time and nothing is scheduled: an active cleanup waits for the operator. It takes two
  faults, which is why `Armed` allows one.
* **A start can be queued.** Decision 0013 and `docs/bootstrap.md`:59 say that a start during cleanup is
  "rejected, never queued". `complete_cleanup` reads CONTROL again before the reset
  (`H`:520) and accepts a start switch that was saved meanwhile as part of what it
  compares with; the `consume_command` that follows (`H`:920) finds the cleanup
  complete and starts the next cycle.
* **The CloudFormation ceiling does not count instances that are shutting down**
  (`A`:617), against invariant 8 of the safety contract, which names this as a requirement of a
  later release.
* **A maximum age equal to the polling interval is accepted** (`inherited.py`:40), and
  then every observation has expired when the next one is due: the monitor stops
  its own family.
* **A lost answer to a node's own TerminateInstances** (`G`:457) makes its next cycle verify an
  instance that is shutting down; what EC2 no longer reports of it is a SafetyViolation and holds
  the family. A process that dies there and starts again while the instance shuts down is
  in the same place.
* **A hold that is cleared early stops only part of a family**: the daemons that have
  polled it keep their latch, the others go on.
* **A lost grandchild makes its grandparent wait for ever**: `authorize_retirement` raises a
  TransientFailure (`G`:320) before its timeout is looked at.

## 7. Not modelled

* The timing exporter and the observer: diagnostics and a display, whose state no
  other component reads.
* Release, rendering, validation and trial scripts, which run once and keep no state; AMI, IAM and
  templates, which are declarations; `lifecycle.py` bootstrap, enable and disable.
* Of the lifecycle, what its abstractions in section 3 name: unsettled family submissions,
  status alarms, volumes, retained resources, digests and templates.
* Of the chains and the family: audit records, telemetry, feedback texts, checks of
  artifacts, tags, templates and digests, and the abstractions listed in section 3.
