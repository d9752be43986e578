-------------------------- MODULE LifecycleProofs --------------------------
(***************************************************************************)
(* Safety of the lifecycle controller for every number of cycles, of retry  *)
(* tokens, of deliveries, of operator moves and of faults.  Only one        *)
(* invocation runs at a time and only it moves the request on, so what it   *)
(* has read of the cycle holds until it acts on it; the chain of daemons    *)
(* and the operator act beside it, but nothing passes the fence once a      *)
(* cleanup is requested.                                                    *)
(***************************************************************************)
EXTENDS Lifecycle, SequenceTheorems, TLAPS

-----------------------------------------------------------------------------
(* The inductive invariant: types *)

ControlOK == switches \subseteq Switch /\ active \in Command
RequestOK == req \in Request /\ due \in BOOLEAN /\ age \in 0..2
RecordsOK ==
    /\ hold \in BOOLEAN /\ cur \in Current
    /\ marker \in {"none", "bootstrap", "chain"}
    /\ items \subseteq Cycle \X {"stack", "inst"}
CloudOK ==
    /\ stack \in [Cycle -> StackState]
    /\ inst \in [Cycle -> {"none", "running", "shutting-down", "terminated"}]
EventsOK ==
    /\ stream \in Seq(Event) /\ schedules \subseteq Schedule
    /\ fired \subseteq {ev \in Event : ev.kind = "retry"}
HistoryOK ==
    /\ creates \in [Cycle -> Nat] /\ killed \in BOOLEAN
    /\ moves \in 0..MaxMoves /\ faults \in 0..MaxFaults
WorldOK == ControlOK /\ RequestOK /\ RecordsOK /\ CloudOK /\ EventsOK /\ HistoryOK

Snapshots == [switches : SUBSET Switch, active : Command, req : Request, cur : Current,
              hold : BOOLEAN]
Invocations ==
    [pc : Pc, ev : Event, beforeRid : 0..(MaxCycle + 1), before : Token \cup {0},
     rid : 0..(MaxCycle + 1), cmd : Command, snap : Snapshots, again : BOOLEAN,
     left : BOOLEAN, done : BOOLEAN, failed : BOOLEAN]

\* Only the second consume_command, and what follows it, may run after the reset.
InCycle ==
    \/ lam.pc \in ProcessPc \cup CleanupPc \cup {"cleanup", "dispatch", "terminal"}
    \/ lam.pc \in {"consume", "commit"} /\ ~lam.again
    => req.rid \in Cycle
Begun == lam.pc # "idle" => lam.beforeRid \in Cycle

\* The record of a running invocation is still the first of its item.
Queued ==
    lam.pc # "idle" /\ lam.ev.kind # "retry" =>
        \E i \in DOMAIN stream : /\ FirstOfItem(i) /\ Item(stream[i]) = Item(lam.ev)
                                 /\ stream[i].tries = lam.ev.tries
Arming == lam.pc = "arm" => CleanupActive(lam.beforeRid) /\ req.token # 0
Working == lam.pc \in ProcessPc \ {"process"} => lam.rid = req.rid
Course == InCycle /\ Begun /\ Queued /\ Arming /\ Working
Typed == WorldOK /\ lam \in Invocations /\ Course

-----------------------------------------------------------------------------
(* What a step does to the invocation *)

LEMMA Labels ==
    /\ {"idle", "end", "process", "claimMarker", "recheck", "createStack", "recordStack",
        "submit", "release", "settle", "inventory", "terminate", "deleteStack", "verify",
        "erase", "live", "reset", "consume", "commit", "dispatch", "feedback", "pause",
        "attention", "cleanup", "terminal", "clearToken", "finish", "arm", "armCheck",
        "unscheduled"} = Pc
BY DEF Pc, ProcessPc, CleanupPc, OtherPc, SchedulePc

Carries ==
    /\ lam' \in Invocations
    /\ lam'.ev = lam.ev /\ lam'.beforeRid = lam.beforeRid /\ lam'.before = lam.before
Keeps ==
    /\ Carries /\ lam'.rid = lam.rid /\ lam'.cmd = lam.cmd /\ lam'.snap = lam.snap
    /\ lam'.again = lam.again /\ lam'.left = lam.left

LEMMA Moved ==
    ASSUME lam \in Invocations, NEW p \in Pc, lam' = [lam EXCEPT !.pc = p]
    PROVE  Keeps /\ lam'.pc = p /\ lam'.done = lam.done /\ lam'.failed = lam.failed
BY DEF Keeps, Carries, Invocations

LEMMA MovedDone ==
    ASSUME lam \in Invocations, NEW p \in Pc, NEW b \in BOOLEAN,
           lam' = [lam EXCEPT !.pc = p, !.done = b]
    PROVE  Keeps /\ lam'.pc = p
BY DEF Keeps, Carries, Invocations

LEMMA Left ==
    ASSUME lam \in Invocations, lam' = LeaveProcess
    PROVE  Keeps /\ lam'.pc \in {"feedback", "clearToken", "finish"}
<1>1. PICK p \in {"feedback", "clearToken", "finish"} : lam' = [lam EXCEPT !.pc = p, !.done = TRUE]
    BY DEF LeaveProcess, Return
<1>. QED BY <1>1, MovedDone, Labels

LEMMA LeftCleanup ==
    ASSUME lam \in Invocations, lam' = LeaveCleanup
    PROVE  /\ Carries /\ lam'.rid = lam.rid /\ lam'.again = TRUE
           /\ lam'.pc \in {"consume", "clearToken", "finish"}
<1>1. PICK p \in {"consume", "clearToken", "finish"} : lam' = [lam EXCEPT !.pc = p, !.again = TRUE]
    BY DEF LeaveCleanup, Return
<1>. QED BY <1>1, Labels DEF Carries, Invocations

LEMMA Raised ==
    ASSUME lam \in Invocations, Raise
    PROVE  /\ Keeps /\ lam'.pc \in {"pause", "attention", "unscheduled", "end", "finish"}
           /\ lam'.pc = "attention" => lam.pc \in CleanupPc
           /\ lam'.pc = "unscheduled" => lam.pc \in {"finish", "arm", "armCheck"}
           /\ lam'.failed = TRUE
<1>1. /\ Handler \in {"pause", "attention", "unscheduled", "end", "finish"}
      /\ Handler = "attention" => lam.pc \in CleanupPc
      /\ Handler = "unscheduled" => lam.pc \in {"finish", "arm", "armCheck"}
    BY DEF Handler
<1>2. PICK p \in Pc : p = Handler /\ lam' = [lam EXCEPT !.pc = p, !.failed = TRUE]
    BY <1>1, Labels DEF Raise
<1>3. Keeps /\ lam'.pc = p /\ lam'.failed = TRUE
    BY <1>2 DEF Keeps, Carries, Invocations
<1>. QED BY <1>1, <1>2, <1>3

LEMMA Consumed ==
    ASSUME lam \in Invocations, lam' = AfterConsume
    PROVE  /\ Carries /\ lam'.rid = lam.rid /\ lam'.again = lam.again
           /\ lam'.pc = IF lam.again THEN "feedback" ELSE "dispatch"
<1>1. NoSnap \in Snapshots
    BY LimitAssumption, MaxCycleAssumption DEF NoSnap, Snapshots, NoCommand, Command, Prepared,
       Request, Uninitialized,
       Current, CleanupStatus, ActiveCleanup
<1>2. PICK p \in {"feedback", "dispatch"} :
        /\ p = IF lam.again THEN "feedback" ELSE "dispatch"
        /\ lam' = [lam EXCEPT !.pc = p, !.snap = NoSnap]
    BY DEF AfterConsume
<1>. QED BY <1>1, <1>2, Labels DEF Carries, Invocations

LEMMA SnapTyped == ControlOK /\ RequestOK /\ RecordsOK => Snap \in Snapshots
BY DEF ControlOK, RequestOK, RecordsOK, Snap, Snapshots

-----------------------------------------------------------------------------
(* The stream *)

Grows ==
    /\ DOMAIN stream \subseteq DOMAIN stream'
    /\ \A i \in DOMAIN stream : /\ stream'[i].kind = stream[i].kind
                                /\ stream'[i].tries = stream[i].tries

LEMMA RecordTyped ==
    ASSUME NEW k \in EventKind, NEW r \in 0..(MaxCycle + 1)
    PROVE  Record(k, r) \in Event /\ Record(k, r).kind = k /\ Record(k, r).tries = 0
BY LimitAssumption DEF Record, Event

LEMMA TriggeredTyped ==
    ASSUME NEW old \in Request, NEW new \in Request
    PROVE  Triggered(old, new) \in Seq(Event)
<1>1. /\ Record("bootstrap", new.rid) \in Event /\ Record("cleanup", new.rid) \in Event
    BY RecordTyped, MaxCycleAssumption DEF EventKind, Request
<1>. QED BY <1>1 DEF Triggered

LEMMA SequencedTyped ==
    ASSUME NEW q \in Seq(Event)
    PROVE  /\ Sequenced(q) \in Seq(Event) /\ Len(Sequenced(q)) = Len(q)
           /\ \A i \in 1..Len(q) : /\ Sequenced(q)[i].kind = q[i].kind
                                   /\ Sequenced(q)[i].tries = q[i].tries
<1>1. Len(q) \in Nat /\ DOMAIN q = 1..Len(q) /\ \A i \in 1..Len(q) : q[i] \in Event
    BY LenProperties
<1>2. \A i \in 1..Len(q) : /\ Sequenced(q)[i] \in Event
                           /\ Sequenced(q)[i].kind = q[i].kind
                           /\ Sequenced(q)[i].tries = q[i].tries
    BY <1>1 DEF Sequenced, Event
<1>3. Sequenced(q) \in [1..Len(q) -> Event]
    BY <1>1, <1>2 DEF Sequenced
<1>. QED BY <1>1, <1>2, <1>3, SeqDef

LEMMA Appended ==
    ASSUME NEW q \in Seq(Event), NEW t \in Seq(Event)
    PROVE  /\ q \o t \in Seq(Event) /\ DOMAIN q \subseteq DOMAIN (q \o t)
           /\ \A i \in DOMAIN q : (q \o t)[i] = q[i]
<1>1. /\ q \o t \in Seq(Event) /\ Len(q \o t) = Len(q) + Len(t)
      /\ \A i \in 1..(Len(q) + Len(t)) : (q \o t)[i] = IF i <= Len(q) THEN q[i] ELSE t[i - Len(q)]
    BY ConcatProperties
<1>2. Len(q) \in Nat /\ Len(t) \in Nat /\ DOMAIN q = 1..Len(q)
      /\ DOMAIN (q \o t) = 1..Len(q \o t)
    BY <1>1, LenProperties
<1>. QED BY <1>1, <1>2

LEMMA StreamAppends ==
    ASSUME stream \in Seq(Event), NEW e \in Event, stream' = Append(stream, e)
    PROVE  stream' \in Seq(Event) /\ Grows
<1>1. Append(stream, e) = stream \o <<e>> /\ <<e>> \in Seq(Event)
    BY AppendIsConcat
<1>. QED BY <1>1, Appended DEF Grows

LEMMA StreamExtends ==
    ASSUME stream \in Seq(Event), NEW t \in Seq(Event), stream' = stream \o t
    PROVE  stream' \in Seq(Event) /\ Grows
BY Appended DEF Grows

\* Records of one item are processed in order: the first of an item is unique.
LEMMA PositionKnown ==
    ASSUME stream \in Seq(Event), NEW ev, NEW i \in DOMAIN stream,
           FirstOfItem(i), Item(stream[i]) = Item(ev)
    PROVE  Position(ev) = i
<1>1. DOMAIN stream = 1..Len(stream) /\ Len(stream) \in Nat
    BY LenProperties
<1>2. ASSUME NEW j \in DOMAIN stream, FirstOfItem(j), Item(stream[j]) = Item(ev) PROVE j = i
    <2>1. ~(j < i) /\ ~(i < j)
        BY <1>1, <1>2 DEF FirstOfItem
    <2>. QED BY <1>1, <2>1
<1>. QED BY <1>2 DEF Position

LEMMA Removed ==
    ASSUME NEW q \in Seq(Event), NEW i \in DOMAIN q
    PROVE  Remove(q, i) \in Seq(Event)
<1>1. DOMAIN q = 1..Len(q) /\ Len(q) \in Nat /\ \A j \in 1..Len(q) : q[j] \in Event
    BY LenProperties
<1>2. SubSeq(q, 1, i - 1) \in Seq(Event)
    BY <1>1, SubSeqProperties
<1>3. SubSeq(q, i + 1, Len(q)) \in Seq(Event)
    BY <1>1, SubSeqProperties
<1>. QED BY <1>2, <1>3, ConcatProperties DEF Remove

LEMMA Settled ==
    ASSUME EventsOK, lam \in Invocations, lam.pc # "idle", Queued, NEW b \in BOOLEAN, Settle(b)
    PROVE  stream' \in Seq(Event) /\ fired' \subseteq {ev \in Event : ev.kind = "retry"}
<1>1. lam.ev \in Event /\ lam.ev.tries \in 0..MaxTries
    BY DEF Invocations, Event
<1>2. CASE lam.ev.kind = "retry"
    <2>1. b /\ lam.ev.tries + 1 < MaxTries =>
            /\ [lam.ev EXCEPT !.tries = @ + 1] \in Event
            /\ [lam.ev EXCEPT !.tries = @ + 1].kind = "retry"
        BY <1>1, <1>2, LimitAssumption DEF Event
    <2>. QED BY <1>2, <2>1 DEF Settle, EventsOK
<1>3. CASE lam.ev.kind # "retry"
    <2>1. PICK i \in DOMAIN stream : /\ FirstOfItem(i) /\ Item(stream[i]) = Item(lam.ev)
                                     /\ stream[i].tries = lam.ev.tries
        BY <1>3 DEF Queued
    <2>2. Position(lam.ev) = i
        BY <2>1, PositionKnown DEF EventsOK
    <2>3. fired' = fired
        BY <1>3 DEF Settle
    <2>4. CASE b /\ lam.ev.tries + 1 < MaxTries
        <3>1. stream' = [stream EXCEPT ![i].tries = @ + 1]
            BY <1>3, <2>2, <2>4 DEF Settle
        <3>2. stream[i] \in Event /\ i \in 1..Len(stream)
            BY ElementOfSeq, LenProperties DEF EventsOK
        <3>3. [stream[i] EXCEPT !.tries = @ + 1] \in Event
            BY <1>1, <2>1, <2>4, <3>2, LimitAssumption DEF Event
        <3>4. stream' = [stream EXCEPT ![i] = [stream[i] EXCEPT !.tries = @ + 1]]
            BY <3>1, <3>2
        <3>5. stream' \in Seq(Event)
            BY <3>2, <3>3, <3>4, ExceptSeq DEF EventsOK
        <3>. QED BY <2>3, <3>5 DEF EventsOK
    <2>5. CASE ~(b /\ lam.ev.tries + 1 < MaxTries)
        <3>1. stream' = Remove(stream, i)
            BY <1>3, <2>2, <2>5 DEF Settle
        <3>. QED BY <2>3, <3>1, Removed DEF EventsOK
    <2>. QED BY <2>4, <2>5
<1>. QED BY <1>2, <1>3

-----------------------------------------------------------------------------
(* Types: the course of an invocation, and frames *)

Outside == {"feedback", "pause", "attention", "clearToken", "finish", "armCheck",
            "unscheduled", "end"}

LEMMA StillQueued ==
    ASSUME Typed, lam.pc # "idle", lam'.ev = lam.ev, stream' = stream \/ Grows
    PROVE  Queued'
<1>. SUFFICES ASSUME lam.ev.kind # "retry"
              PROVE  \E i \in DOMAIN stream' :
                        /\ FirstOfItem(i)' /\ Item(stream'[i]) = Item(lam.ev)
                        /\ stream'[i].tries = lam.ev.tries
    BY DEF Queued
<1>1. PICK i \in DOMAIN stream : /\ FirstOfItem(i) /\ Item(stream[i]) = Item(lam.ev)
                                 /\ stream[i].tries = lam.ev.tries
    BY DEF Typed, Course, Queued
<1>2. CASE stream' = stream
    BY <1>1, <1>2 DEF FirstOfItem
<1>3. CASE Grows
    <2>1. DOMAIN stream = 1..Len(stream) /\ Len(stream) \in Nat
        BY LenProperties DEF Typed, WorldOK, EventsOK
    <2>2. \A j \in DOMAIN stream : Item(stream'[j]) = Item(stream[j])
        BY <1>3 DEF Grows, Item
    <2>3. FirstOfItem(i)'
        BY <1>1, <2>1, <2>2 DEF FirstOfItem
    <2>. QED BY <1>1, <1>3, <2>2, <2>3 DEF Grows
<1>. QED BY <1>2, <1>3

LEMMA Continued ==
    ASSUME Typed, lam.pc # "idle", Carries, stream' = stream \/ Grows, req'.rid = req.rid,
           lam'.pc # "arm",
           \/ lam'.pc \in Outside
           \/ /\ req.rid \in Cycle
              /\ lam'.pc \in ProcessPc \ {"process"} => lam'.rid = req.rid
           \/ lam'.pc \in {"consume", "commit"} /\ lam'.again
    PROVE  lam' \in Invocations /\ Course'
<1>1. InCycle' /\ Begun' /\ Arming'
    BY DEF Typed, Course, InCycle, Begun, Arming, Carries, Outside, ProcessPc, CleanupPc
<1>3. Working'
    BY DEF Working, Outside, ProcessPc
<1>2. Queued'
    BY StillQueued DEF Carries
<1>. QED BY <1>1, <1>2, <1>3 DEF Course, Carries

\* Within a cycle, what precedes the reset
LEMMA Inside ==
    ASSUME Typed, \/ lam.pc \in ProcessPc \cup CleanupPc \cup {"cleanup", "dispatch", "terminal"}
                  \/ lam.pc \in {"consume", "commit"} /\ ~lam.again
    PROVE  req.rid \in Cycle
BY DEF Typed, Course, InCycle

\* Steps beside the invocation
LEMMA Beside ==
    ASSUME Typed, lam' = lam, stream' = stream \/ Grows, req'.rid = req.rid,
           lam.pc = "arm" => CleanupActive(lam.beforeRid)' /\ req'.token # 0
    PROVE  lam' \in Invocations /\ Course'
<1>1. CASE lam.pc = "idle"
    BY <1>1 DEF Typed, Course, InCycle, Begun, Arming, Queued, Working, ProcessPc, CleanupPc
<1>2. CASE lam.pc # "idle"
    <2>1. Queued'
        BY <1>2, StillQueued
    <2>2. InCycle' /\ Begun' /\ Arming' /\ Working'
        BY DEF Typed, Course, InCycle, Begun, Arming, Working
    <2>. QED BY <2>1, <2>2 DEF Course, Typed
<1>. QED BY <1>1, <1>2

LEMMA FrameWorld ==
    ASSUME WorldOK, UNCHANGED world
    PROVE  WorldOK' /\ stream' = stream /\ req' = req
BY DEF WorldOK, ControlOK, RequestOK, RecordsOK, CloudOK, EventsOK, HistoryOK,
   world, controlVars, reqVars, recordVars, cloudVars, eventVars, historyVars

LEMMA FrameRequest ==
    ASSUME WorldOK, OnlyRequest, req' \in Request
    PROVE  WorldOK' /\ stream' = stream
BY DEF WorldOK, ControlOK, RequestOK, RecordsOK, CloudOK, EventsOK, HistoryOK, OnlyRequest,
   controlVars, recordVars, cloudVars, eventVars, historyVars

LEMMA FrameMarker ==
    ASSUME WorldOK, OnlyMarker, marker' \in {"none", "bootstrap", "chain"}
    PROVE  WorldOK' /\ stream' = stream /\ req' = req
BY DEF WorldOK, ControlOK, RequestOK, RecordsOK, CloudOK, EventsOK, HistoryOK, OnlyMarker,
   controlVars, reqVars, cloudVars, eventVars, historyVars

LEMMA FrameItems ==
    ASSUME WorldOK, OnlyItems, items' \subseteq Cycle \X {"stack", "inst"}
    PROVE  WorldOK' /\ stream' = stream /\ req' = req
BY DEF WorldOK, ControlOK, RequestOK, RecordsOK, CloudOK, EventsOK, HistoryOK, OnlyItems,
   controlVars, reqVars, cloudVars, eventVars, historyVars

LEMMA FrameStack ==
    ASSUME WorldOK, OnlyStack, stack' \in [Cycle -> StackState]
    PROVE  WorldOK' /\ stream' = stream /\ req' = req
BY DEF WorldOK, ControlOK, RequestOK, RecordsOK, CloudOK, EventsOK, HistoryOK, OnlyStack,
   controlVars, reqVars, recordVars, eventVars, historyVars

LEMMA FrameInstance ==
    ASSUME WorldOK, OnlyInstance,
           inst' \in [Cycle -> {"none", "running", "shutting-down", "terminated"}]
    PROVE  WorldOK' /\ stream' = stream /\ req' = req
BY DEF WorldOK, ControlOK, RequestOK, RecordsOK, CloudOK, EventsOK, HistoryOK, OnlyInstance,
   controlVars, reqVars, recordVars, eventVars, historyVars

LEMMA FrameSchedules ==
    ASSUME WorldOK, OnlySchedules, schedules' \subseteq Schedule
    PROVE  WorldOK' /\ stream' = stream /\ req' = req
BY DEF WorldOK, ControlOK, RequestOK, RecordsOK, CloudOK, EventsOK, HistoryOK, OnlySchedules,
   controlVars, reqVars, recordVars, cloudVars, historyVars

LEMMA FrameInvocation ==
    ASSUME WorldOK, OnlyInvocation, killed' \in BOOLEAN, faults' \in 0..MaxFaults
    PROVE  WorldOK' /\ stream' = stream /\ req' = req
BY DEF WorldOK, ControlOK, RequestOK, RecordsOK, CloudOK, EventsOK, HistoryOK, OnlyInvocation,
   controlVars, reqVars, recordVars, cloudVars, eventVars, historyVars

-----------------------------------------------------------------------------
(* Types: deliveries and commands *)

LEMMA IdleTyped == Idle \in Invocations
<1>1. Record("control", 0) \in Event /\ NoCommand \in Command
    BY RecordTyped, MaxCycleAssumption DEF EventKind, NoCommand, Command
<1>2. NoSnap \in Snapshots
    BY LimitAssumption, MaxCycleAssumption DEF NoSnap, Snapshots, NoCommand, Command, Prepared,
       Request, Uninitialized, Current, CleanupStatus, ActiveCleanup
<1>. QED BY <1>1, <1>2, Labels, MaxCycleAssumption DEF Idle, Invocations

LEMMA InvokeType ==
    ASSUME Typed, NEW ev \in Event, Invoke(ev),
           \/ ev.kind = "retry"
           \/ \E i \in DOMAIN stream : FirstOfItem(i) /\ stream[i] = ev
    PROVE  Typed'
<1>1. WorldOK' /\ stream' = stream /\ req' = req /\ req.rid \in Cycle
    BY FrameWorld DEF Typed, Invoke
<1>2. PICK p \in {"consume", "process", "cleanup", "terminal"} : p = FirstStep(ev)
    BY DEF FirstStep
<1>3. lam' = [Idle EXCEPT !.pc = p, !.ev = ev, !.rid = ev.rid, !.beforeRid = req.rid,
                          !.before = req.token]
    BY <1>2 DEF Invoke
<1>4. /\ ev.rid \in 0..(MaxCycle + 1) /\ req.token \in Token \cup {0} /\ p \in Pc
      /\ req.rid \in 0..(MaxCycle + 1)
    BY <1>1, <1>2, Labels, MaxCycleAssumption DEF Event, Typed, WorldOK, RequestOK, Request, Cycle
<1>5. lam' \in Invocations /\ lam'.pc = p /\ lam'.ev = ev /\ lam'.beforeRid = req.rid
    BY <1>3, <1>4, IdleTyped DEF Invocations
<1>6. InCycle' /\ Begun' /\ Arming' /\ Working'
    BY <1>1, <1>5 DEF InCycle, Begun, Arming, Working, ProcessPc
<1>7. Queued'
    BY <1>1, <1>5 DEF Queued, FirstOfItem
<1>. QED BY <1>1, <1>5, <1>6, <1>7 DEF Typed, Course

LEMMA DeliverType ==
    ASSUME Typed, Deliver
    PROVE  Typed'
<1>1. ASSUME NEW i \in DOMAIN stream, DeliverRecord(i) PROVE Typed'
    <2>1. stream[i] \in Event
        BY ElementOfSeq, LenProperties DEF Typed, WorldOK, EventsOK
    <2>. QED BY <1>1, <2>1, InvokeType DEF DeliverRecord
<1>2. ASSUME NEW ev \in fired, DeliverRetry(ev) PROVE Typed'
    BY <1>2, InvokeType DEF DeliverRetry, Typed, WorldOK, EventsOK
<1>3. ASSUME NEW ev \in fired, DropRetry(ev) PROVE Typed'
    <2>1. WorldOK'
        BY <1>3 DEF DropRetry, Typed, WorldOK, ControlOK, RequestOK, RecordsOK, CloudOK, EventsOK,
           HistoryOK, controlVars, reqVars, recordVars, cloudVars, historyVars
    <2>2. lam' = lam /\ stream' = stream /\ req' = req /\ lam.pc = "idle"
        BY <1>3 DEF DropRetry, At, reqVars
    <2>3. lam' \in Invocations /\ Course'
        BY <2>2, Beside
    <2>. QED BY <2>1, <2>3 DEF Typed
<1>. QED BY <1>1, <1>2, <1>3 DEF Deliver

\* What an accepted command makes of the request and of the active command
LEMMA AcceptedTyped ==
    ASSUME NEW s \in Snapshots
    PROVE  /\ Accepted(s).active \in Command /\ Accepted(s).req \in Request
           /\ Accepted(s).req.rid = s.req.rid /\ Accepted(s).req.status = s.req.status
           /\ s.req.cleanup => Accepted(s).req.cleanup
           /\ \/ Accepted(s).req.phase = s.req.phase
              \/ Accepted(s).req.phase = "QUIESCING" /\ Accepted(s).req.cleanup
           /\ \/ Accepted(s).active = s.active \/ Accepted(s).active.cmd = "START"
              \/ /\ Accepted(s).active = [cmd |-> "CLEANUP", rid |-> s.req.rid]
                 /\ Accepted(s).req.cleanup
           /\ ~Accepted(s).ok => Accepted(s).active = s.active
           /\ Accepted(s).active.cmd = "START" =>
                Accepted(s).active = s.active \/ Accepted(s).ok
<1>0. s.req \in Request /\ s.active \in Command /\ s.req.rid \in 0..(MaxCycle + 1)
    BY MaxCycleAssumption DEF Snapshots, Request
<1>. DEFINE r == s.req
<1>a. ASSUME NEW ok \in BOOLEAN, NEW act \in Command, NEW new \in Request,
             Accepted(s) = [ok |-> ok, active |-> act, req |-> new]
      PROVE  /\ Accepted(s).ok = ok /\ Accepted(s).active = act /\ Accepted(s).req = new
    BY <1>a
<1>b. ASSUME NEW b \in BOOLEAN, NEW e \in BOOLEAN
      PROVE  /\ [r EXCEPT !.bootstrap = b, !.enabled = e] \in Request
             /\ [r EXCEPT !.bootstrap = b, !.enabled = e].rid = r.rid
             /\ [r EXCEPT !.bootstrap = b, !.enabled = e].status = r.status
             /\ [r EXCEPT !.bootstrap = b, !.enabled = e].cleanup = r.cleanup
             /\ [r EXCEPT !.bootstrap = b, !.enabled = e].phase = r.phase
    BY <1>0 DEF Request
<1>c. ASSUME NEW e \in BOOLEAN
      PROVE  /\ [r EXCEPT !.enabled = e] \in Request
             /\ [r EXCEPT !.enabled = e].rid = r.rid
             /\ [r EXCEPT !.enabled = e].status = r.status
             /\ [r EXCEPT !.enabled = e].cleanup = r.cleanup
             /\ [r EXCEPT !.enabled = e].phase = r.phase
    BY <1>0 DEF Request
<1>d. \A c \in {"START", "CLEANUP"} :
        /\ [cmd |-> c, rid |-> r.rid] \in Command /\ [cmd |-> c, rid |-> r.rid].cmd = c
    BY <1>0 DEF Command
<1>1. CASE s.switches = {"start"} /\ StartsBootstrap(s)
    <2>. DEFINE act == [cmd |-> "START", rid |-> r.rid]
                new == [r EXCEPT !.bootstrap = TRUE, !.enabled = TRUE]
    <2>1. Accepted(s) = [ok |-> TRUE, active |-> act, req |-> new]
        <3>1. s.req.status # "SUBMITTED" /\ ~EnablesChain(s)
            BY <1>1 DEF StartsBootstrap, EnablesChain
        <3>2. s.switches # {"stop"} /\ s.switches # {"cleanup"}
            BY <1>1
        <3>. QED BY <1>1, <3>1, <3>2 DEF Accepted
    <2>2. /\ new \in Request /\ new.rid = r.rid /\ new.status = r.status
          /\ new.cleanup = r.cleanup /\ new.phase = r.phase
        BY <1>b
    <2>3. act \in Command /\ act.cmd = "START"
        BY <1>d
    <2>. HIDE DEF act, new
    <2>4. Accepted(s).ok = TRUE /\ Accepted(s).active = act /\ Accepted(s).req = new
        BY <2>1
    <2>. QED BY <2>2, <2>3, <2>4
<1>2. CASE s.switches = {"start"} /\ ~StartsBootstrap(s) /\ EnablesChain(s)
    <2>. DEFINE new == [r EXCEPT !.enabled = TRUE]
    <2>1. Accepted(s) = [ok |-> TRUE, active |-> s.active, req |-> new]
        BY <1>2 DEF Accepted
    <2>2. /\ new \in Request /\ new.rid = r.rid /\ new.status = r.status
          /\ new.cleanup = r.cleanup /\ new.phase = r.phase
        BY <1>c
    <2>. HIDE DEF new
    <2>4. Accepted(s).ok = TRUE /\ Accepted(s).active = s.active /\ Accepted(s).req = new
        BY <2>1
    <2>. QED BY <1>0, <2>2, <2>4
<1>3. CASE s.switches = {"stop"}
    <2>. DEFINE new == [r EXCEPT !.enabled = FALSE]
    <2>1. Accepted(s) = [ok |-> TRUE, active |-> s.active, req |-> new]
        BY <1>3 DEF Accepted
    <2>2. /\ new \in Request /\ new.rid = r.rid /\ new.status = r.status
          /\ new.cleanup = r.cleanup /\ new.phase = r.phase
        BY <1>c
    <2>. HIDE DEF new
    <2>4. Accepted(s).ok = TRUE /\ Accepted(s).active = s.active /\ Accepted(s).req = new
        BY <2>1
    <2>. QED BY <1>0, <2>2, <2>4
<1>4. CASE s.switches = {"cleanup"}
    <2>. DEFINE act == [cmd |-> "CLEANUP", rid |-> r.rid]
                ph == IF r.phase = "NEEDS_ATTENTION" THEN "QUIESCING" ELSE r.phase
                new == [r EXCEPT !.cleanup = TRUE, !.bootstrap = FALSE, !.enabled = FALSE,
                                 !.token = 0, !.phase = ph]
    <2>1. Accepted(s) = [ok |-> TRUE, active |-> act, req |-> new]
        BY <1>0, <1>4 DEF Accepted, Request
    <2>2. ph \in CleanupStatus /\ (ph = r.phase \/ ph = "QUIESCING")
        BY <1>0 DEF Request, CleanupStatus, ActiveCleanup
    <2>. HIDE DEF ph
    <2>3. /\ new \in Request /\ new.rid = r.rid /\ new.status = r.status
          /\ new.cleanup = TRUE /\ new.phase = ph
        BY <1>0, <2>2 DEF Request
    <2>4. act \in Command /\ act.cmd = "CLEANUP"
        BY <1>d
    <2>5. act = [cmd |-> "CLEANUP", rid |-> s.req.rid]
        OBVIOUS
    <2>. HIDE DEF act, new
    <2>6. Accepted(s).ok = TRUE /\ Accepted(s).active = act /\ Accepted(s).req = new
        BY <2>1
    <2>. QED BY <2>2, <2>3, <2>4, <2>5, <2>6
<1>5. CASE /\ ~(s.switches = {"start"} /\ StartsBootstrap(s))
           /\ ~(s.switches = {"start"} /\ EnablesChain(s))
           /\ s.switches # {"stop"} /\ s.switches # {"cleanup"}
    <2>1. Accepted(s) = [ok |-> FALSE, active |-> s.active, req |-> s.req]
        BY <1>5 DEF Accepted
    <2>. QED BY <1>0, <2>1
<1>. QED BY <1>1, <1>2, <1>3, <1>4, <1>5

LEMMA CommitType ==
    ASSUME Typed, CommitCommand
    PROVE  Typed' /\ req'.rid = req.rid /\ req'.status = req.status
<1>. DEFINE s == lam.snap
            a == Accepted(s)
            ok == SameControl(s) /\ (a.ok => SameRecords(s))
<1>0. /\ s \in Snapshots /\ lam.pc = "commit" /\ lam' = AfterConsume
      /\ UNCHANGED <<recordVars, cloudVars, fired, schedules, creates, killed, moves, faults>>
    BY DEF CommitCommand, At, Typed, Invocations
<1>1. /\ Carries /\ lam'.again = lam.again
      /\ lam'.pc = IF lam.again THEN "feedback" ELSE "dispatch"
    BY <1>0, Consumed DEF Typed
<1>2. CASE ok
    <2>1. /\ switches' = {} /\ active' = a.active
          /\ req' = IF a.ok THEN a.req ELSE req
          /\ due' = (due /\ req'.token # 0)
          /\ age' = IF req'.phase # req.phase THEN 0 ELSE age
          /\ stream' = Sequenced(stream) \o <<Record("control", 0)>>
                             \o (IF a.ok THEN Triggered(req, req') ELSE <<>>)
        BY <1>2 DEF CommitCommand
    <2>2. a.active \in Command /\ a.req \in Request /\ (a.ok => s.req = req)
          /\ a.req.rid = s.req.rid /\ a.req.status = s.req.status
        BY <1>0, <1>2, AcceptedTyped DEF SameRecords
    <2>3. req' \in Request /\ req'.rid = req.rid /\ req'.status = req.status
        BY <2>1, <2>2 DEF Typed, WorldOK, RequestOK
    <2>. HIDE DEF a, ok
    <2>4. stream' \in Seq(Event) /\ Grows
        <3>. DEFINE q == Sequenced(stream)
                    t == IF a.ok THEN Triggered(req, req') ELSE <<>>
        <3>1. q \in Seq(Event) /\ DOMAIN q = DOMAIN stream
              /\ \A i \in DOMAIN stream : q[i].kind = stream[i].kind /\ q[i].tries = stream[i].tries
            BY SequencedTyped, LenProperties DEF Typed, WorldOK, EventsOK
        <3>2. t \in Seq(Event) /\ <<Record("control", 0)>> \in Seq(Event)
            BY <2>3, TriggeredTyped, RecordTyped, MaxCycleAssumption
               DEF Typed, WorldOK, RequestOK, EventKind
        <3>3. stream' = (q \o <<Record("control", 0)>>) \o t
            BY <2>1
        <3>. HIDE DEF q, t
        <3>4. /\ q \o <<Record("control", 0)>> \in Seq(Event)
              /\ DOMAIN q \subseteq DOMAIN (q \o <<Record("control", 0)>>)
              /\ \A i \in DOMAIN q : (q \o <<Record("control", 0)>>)[i] = q[i]
            BY <3>1, <3>2, Appended
        <3>5. stream' \in Seq(Event) /\ DOMAIN q \subseteq DOMAIN stream'
              /\ \A i \in DOMAIN q : stream'[i] = q[i]
            BY <3>2, <3>3, <3>4, Appended
        <3>. QED BY <3>1, <3>5 DEF Grows
    <2>5. WorldOK'
        BY <1>0, <2>1, <2>2, <2>3, <2>4 DEF Typed, WorldOK, ControlOK, RequestOK, RecordsOK,
           CloudOK,
           EventsOK, HistoryOK, recordVars, cloudVars
    <2>6. ~lam.again => req.rid \in Cycle
        BY <1>0, Inside
    <2>7. lam' \in Invocations /\ Course'
        BY <1>0, <1>1, <2>3, <2>4, <2>6, Continued DEF Outside, ProcessPc
    <2>. QED BY <2>3, <2>5, <2>7 DEF Typed
<1>3. CASE ~ok
    <2>1. UNCHANGED <<controlVars, reqVars, stream>>
        BY <1>3 DEF CommitCommand
    <2>2. WorldOK' /\ req' = req
        BY <1>0, <2>1 DEF Typed, WorldOK, ControlOK, RequestOK, RecordsOK, CloudOK,
           EventsOK, HistoryOK, recordVars, cloudVars, controlVars, reqVars
    <2>3. ~lam.again => req.rid \in Cycle
        BY <1>0, Inside
    <2>4. lam' \in Invocations /\ Course'
        BY <1>0, <1>1, <2>1, <2>2, <2>3, Continued DEF Outside, ProcessPc
    <2>. QED BY <2>2, <2>4 DEF Typed
<1>. QED BY <1>2, <1>3

LEMMA CommandType ==
    ASSUME Typed, OperatorCommand
    PROVE  Typed'
<1>. USE DEF At, Goto
<1>1. CASE ReadCommand
    <2>1. /\ lam.pc = "consume" /\ WorldOK' /\ stream' = stream /\ req' = req
          /\ ~lam.again => req.rid \in Cycle
        BY <1>1, FrameWorld, Inside DEF ReadCommand, Typed
    <2>2. /\ Carries /\ lam'.again = lam.again
          /\ lam'.pc \in {"commit", IF lam.again THEN "feedback" ELSE "dispatch"}
        <3>1. CASE lam' = AfterConsume
            BY <3>1, Consumed DEF Typed
        <3>2. CASE lam' = [lam EXCEPT !.pc = "commit", !.snap = Snap]
            BY <3>2, SnapTyped, Labels DEF Typed, WorldOK, Carries, Invocations
        <3>. QED BY <1>1, <3>1, <3>2 DEF ReadCommand
    <2>3. lam' \in Invocations /\ Course'
        BY <2>1, <2>2, Continued DEF Outside, ProcessPc
    <2>. QED BY <2>1, <2>3 DEF Typed
<1>2. CASE CommitCommand
    BY <1>2, CommitType
<1>3. CASE Dispatch
    <2>1. lam.pc = "dispatch" /\ WorldOK' /\ stream' = stream /\ req' = req /\ req.rid \in Cycle
        BY <1>3, FrameWorld, Inside DEF Dispatch, Typed
    <2>2. Carries /\ lam'.pc \notin {"arm"} \cup (ProcessPc \ {"process"})
        <3>0. active \in Command /\ req.rid \in 0..(MaxCycle + 1)
            BY MaxCycleAssumption DEF Typed, WorldOK, ControlOK, RequestOK, Request
        <3>1. ASSUME NEW p \in {"clearToken", "finish"}, lam' = [lam EXCEPT !.pc = p]
              PROVE  Carries /\ lam'.pc \notin {"arm"} \cup (ProcessPc \ {"process"})
            BY <3>1, Moved, Labels DEF Typed, Keeps, ProcessPc
        <3>2. ASSUME NEW p \in {"feedback", "process", "cleanup", "consume"}, NEW b \in BOOLEAN,
                     NEW d \in BOOLEAN,
                     lam' = [lam EXCEPT !.pc = p, !.cmd = active, !.rid = req.rid,
                                        !.again = b, !.done = d]
              PROVE  Carries /\ lam'.pc \notin {"arm"} \cup (ProcessPc \ {"process"})
            <4>1. p \in Pc
                BY Labels
            <4>2. lam \in Invocations
                BY DEF Typed
            <4>3. lam' \in Invocations /\ lam'.pc = p
                BY <3>0, <3>2, <4>1, <4>2 DEF Invocations
            <4>4. lam'.ev = lam.ev /\ lam'.beforeRid = lam.beforeRid /\ lam'.before = lam.before
                BY <3>2, <4>2 DEF Invocations
            <4>. QED BY <4>3, <4>4 DEF Carries, ProcessPc
        <3>3. \/ lam' = [lam EXCEPT !.pc = Return]
              \/ \E p \in {"feedback", "process", "cleanup", "consume"}, b, d \in BOOLEAN :
                    lam' = [lam EXCEPT !.pc = p, !.cmd = active, !.rid = req.rid,
                                       !.again = b, !.done = d]
            <4>1. lam = [lam EXCEPT !.again = lam.again, !.done = lam.done]
                  /\ lam.again \in BOOLEAN /\ lam.done \in BOOLEAN
                BY DEF Typed, Invocations
            <4>. DEFINE go(p) == [lam EXCEPT !.pc = p, !.cmd = active, !.rid = req.rid]
                        to(p, b, d) == [lam EXCEPT !.pc = p, !.cmd = active, !.rid = req.rid,
                                                   !.again = b, !.done = d]
            <4>2. \A p \in {"feedback", "process", "cleanup", "consume"} :
                                    /\ go(p) = to(p, lam.again, lam.done)
                                    /\ [go(p) EXCEPT !.again = TRUE, !.done = TRUE] = to(p, TRUE, TRUE)
                                    /\ [go(p) EXCEPT !.done = TRUE] = to(p, lam.again, TRUE)
                BY <4>1 DEF Typed, Invocations
            <4>3. \/ lam' = [lam EXCEPT !.pc = Return]
                  \/ lam' = [go("consume") EXCEPT !.again = TRUE, !.done = TRUE]
                  \/ lam' = [go("feedback") EXCEPT !.done = TRUE]
                  \/ lam' = go("process")
                  \/ lam' = go("cleanup")
                BY <1>3 DEF Dispatch
            <4>. HIDE DEF go
            <4>4. \/ lam' = [lam EXCEPT !.pc = Return]
                  \/ lam' = to("consume", TRUE, TRUE)
                  \/ lam' = to("feedback", lam.again, TRUE)
                  \/ lam' = to("process", lam.again, lam.done)
                  \/ lam' = to("cleanup", lam.again, lam.done)
                BY <4>2, <4>3
            <4>. QED BY <4>1, <4>4
        <3>4. Return \in {"clearToken", "finish"}
            BY DEF Return
        <3>. QED BY <3>1, <3>2, <3>3, <3>4
    <2>3. lam' \in Invocations /\ Course'
        BY <2>1, <2>2, Continued DEF ProcessPc
    <2>. QED BY <2>1, <2>3 DEF Typed
<1>4. CASE Feedback
    <2>1. lam.pc = "feedback" /\ stream' = stream /\ req' = req
        BY <1>4 DEF Feedback, reqVars, eventVars
    <2>2. WorldOK'
        BY <1>4, MaxCycleAssumption DEF Feedback, NoCommand, Command, Typed, WorldOK, ControlOK,
           RequestOK, RecordsOK, CloudOK,
           EventsOK, HistoryOK, reqVars, recordVars, cloudVars, eventVars, historyVars
    <2>3. \E p \in {"finish", "clearToken"} : lam' = [lam EXCEPT !.pc = p]
        BY <1>4 DEF Feedback, Return
    <2>4. Carries /\ lam'.pc \in {"finish", "clearToken"}
        BY <2>3, Moved, Labels DEF Typed, Keeps
    <2>5. lam' \in Invocations /\ Course'
        BY <2>1, <2>4, Continued DEF Outside, ProcessPc
    <2>. QED BY <2>2, <2>5 DEF Typed
<1>5. CASE Pause
    <2>1. lam.pc = "pause" /\ OnlyRequest
        BY <1>5 DEF Pause, PauseThen
    <2>2. req' \in Request /\ req'.rid = req.rid
        BY <1>5 DEF Pause, PauseThen, Typed, WorldOK, RequestOK, Request
    <2>3. WorldOK' /\ stream' = stream
        BY <2>1, <2>2, FrameRequest DEF Typed
    <2>4. \E b \in BOOLEAN : lam' = [lam EXCEPT !.pc = "feedback", !.done = b]
        BY <1>5 DEF Pause, PauseThen
    <2>5. Carries /\ lam'.pc = "feedback"
        BY <2>4, MovedDone, Labels DEF Typed, Keeps
    <2>6. lam' \in Invocations /\ Course'
        BY <2>1, <2>2, <2>3, <2>5, Continued DEF Outside, ProcessPc
    <2>. QED BY <2>3, <2>6 DEF Typed
<1>. QED BY <1>1, <1>2, <1>3, <1>4, <1>5 DEF OperatorCommand

-----------------------------------------------------------------------------
(* Types: the bootstrap and the cleanup *)

\* However a step within a cycle goes on
LEMMA Proceeds ==
    ASSUME lam \in Invocations,
           \/ Raise \/ lam' = LeaveProcess \/ lam' = LeaveCleanup
           \/ \E p \in Pc \ {"arm"} : Goto(p)
    PROVE  Carries /\ lam'.pc # "arm" /\ lam'.rid = lam.rid
<1>1. CASE Raise
    BY <1>1, Raised DEF Keeps
<1>2. CASE lam' = LeaveProcess
    BY <1>2, Left DEF Keeps
<1>3. CASE lam' = LeaveCleanup
    BY <1>3, LeftCleanup
<1>4. CASE \E p \in Pc \ {"arm"} : Goto(p)
    BY <1>4, Moved DEF Goto, Keeps
<1>. QED BY <1>1, <1>2, <1>3, <1>4

LEMMA Advances ==
    ASSUME Typed, lam.pc \in ProcessPc \cup CleanupPc \cup {"cleanup", "dispatch", "terminal"},
           \/ Raise \/ lam' = LeaveProcess \/ lam' = LeaveCleanup
           \/ \E p \in Pc \ {"arm"} : Goto(p) /\ (p \in ProcessPc => lam.rid = req.rid),
           stream' = stream \/ Grows, req'.rid = req.rid
    PROVE  lam' \in Invocations /\ Course'
<1>1. req.rid \in Cycle /\ lam.pc # "idle" /\ lam \in Invocations
    BY Inside DEF Typed, ProcessPc, CleanupPc
<1>2. Carries /\ lam'.pc # "arm" /\ lam'.rid = lam.rid
    BY <1>1, Proceeds
<1>3. lam'.pc \in ProcessPc => lam.rid = req.rid
    <2>1. CASE \E p \in Pc \ {"arm"} : Goto(p) /\ (p \in ProcessPc => lam.rid = req.rid)
        BY <1>1, <2>1, Moved DEF Goto
    <2>2. CASE Raise
        BY <1>1, <2>2, Raised DEF ProcessPc
    <2>3. CASE lam' = LeaveProcess
        BY <1>1, <2>3, Left DEF ProcessPc
    <2>4. CASE lam' = LeaveCleanup
        BY <1>1, <2>4, LeftCleanup DEF ProcessPc
    <2>. QED BY <2>1, <2>2, <2>3, <2>4
<1>. QED BY <1>1, <1>2, <1>3, Continued

LEMMA RequestEdits ==
    ASSUME NEW r \in Request, NEW b \in BOOLEAN, NEW e \in BOOLEAN, NEW c \in BOOLEAN,
           NEW st \in {"READY", "CREATING", "SUBMITTED"}, NEW ph \in CleanupStatus,
           NEW t \in Token \cup {0}, NEW l \in BOOLEAN
    PROVE  /\ [r EXCEPT !.status = st] \in Request /\ [r EXCEPT !.status = st].rid = r.rid
           /\ [r EXCEPT !.listed = l, !.phase = ph] \in Request
           /\ [r EXCEPT !.listed = l, !.phase = ph].rid = r.rid
           /\ [r EXCEPT !.phase = ph] \in Request /\ [r EXCEPT !.phase = ph].rid = r.rid
           /\ [r EXCEPT !.token = t] \in Request /\ [r EXCEPT !.token = t].rid = r.rid
           /\ [r EXCEPT !.phase = ph, !.cleanup = c, !.enabled = e, !.bootstrap = b] \in Request
           /\ [r EXCEPT !.phase = ph, !.cleanup = c, !.enabled = e, !.bootstrap = b].rid = r.rid
           /\ [r EXCEPT !.cleanup = c, !.enabled = e, !.bootstrap = b, !.phase = ph,
                        !.token = t] \in Request
           /\ [r EXCEPT !.cleanup = c, !.enabled = e, !.bootstrap = b, !.phase = ph,
                        !.token = t].rid = r.rid
BY DEF Request

LEMMA BootstrapType ==
    ASSUME Typed, Bootstrap
    PROVE  Typed'
<1>. USE Labels DEF At
<1>w. WorldOK /\ req \in Request
    BY DEF Typed, WorldOK, RequestOK
<1>r. lam.pc \in ProcessPc \ {"process"} => lam.rid = req.rid /\ lam.rid \in Cycle
    BY Inside DEF Typed, Course, Working
<1>1. CASE Process
    <2>1. lam.pc \in ProcessPc /\ OnlyRequest
        BY <1>1 DEF Process, ProcessPc
    <2>2. req' = req \/ req' = [req EXCEPT !.status = "CREATING"]
        BY <1>1 DEF Process
    <2>3. req' \in Request /\ req'.rid = req.rid
        BY <1>w, <2>2 DEF Request
    <2>4. \/ Raise \/ lam' = LeaveProcess
          \/ (Goto("claimMarker") \/ Goto("recordStack")) /\ lam.rid = req.rid
        BY <1>1 DEF Process
    <2>5. WorldOK' /\ stream' = stream
        BY <1>w, <2>1, <2>3, FrameRequest
    <2>6. lam' \in Invocations /\ Course'
        BY <2>1, <2>3, <2>4, <2>5, Advances
    <2>. QED BY <2>5, <2>6 DEF Typed
<1>2. CASE ClaimMarker
    <2>1. lam.pc \in ProcessPc \ {"process"} /\ OnlyMarker /\ (Raise \/ Goto("recheck"))
          /\ (marker' = marker \/ marker' = "bootstrap")
        BY <1>2 DEF ClaimMarker, ProcessPc
    <2>2. WorldOK' /\ stream' = stream /\ req' = req
        BY <1>w, <2>1, FrameMarker DEF WorldOK, RecordsOK
    <2>3. lam' \in Invocations /\ Course'
        BY <2>1, <2>2, <1>r, Advances
    <2>. QED BY <2>2, <2>3 DEF Typed
<1>3. CASE Recheck
    <2>1. lam.pc \in ProcessPc \ {"process"} /\ UNCHANGED world /\ (Raise \/ Goto("createStack"))
        BY <1>3 DEF Recheck, ProcessPc
    <2>2. WorldOK' /\ stream' = stream /\ req' = req
        BY <1>w, <2>1, FrameWorld
    <2>3. lam' \in Invocations /\ Course'
        BY <2>1, <2>2, <1>r, Advances
    <2>. QED BY <2>2, <2>3 DEF Typed
<1>4. CASE CreateStack
    <2>1. lam.pc \in ProcessPc \ {"process"} /\ Goto("recordStack")
        BY <1>4 DEF CreateStack, CreateThen, ProcessPc
    <2>2. stack' = [stack EXCEPT ![lam.rid] = "creating"]
          /\ creates' = [creates EXCEPT ![lam.rid] = @ + 1]
          /\ UNCHANGED <<controlVars, reqVars, recordVars, inst, eventVars, killed, moves, faults>>
        BY <1>4 DEF CreateStack, CreateThen
    <2>3. stack' \in [Cycle -> StackState] /\ creates' \in [Cycle -> Nat]
        BY <1>w, <1>r, <2>1, <2>2 DEF WorldOK, CloudOK, HistoryOK, StackState
    <2>4. WorldOK' /\ stream' = stream /\ req' = req
        BY <1>w, <2>2, <2>3 DEF WorldOK, ControlOK, RequestOK, RecordsOK, CloudOK, EventsOK,
           HistoryOK, controlVars, reqVars, recordVars, eventVars
    <2>5. lam' \in Invocations /\ Course'
        BY <2>1, <2>4, <1>r, Advances
    <2>. QED BY <2>4, <2>5 DEF Typed
<1>5. CASE RecordStack
    <2>1. lam.pc \in ProcessPc \ {"process"} /\ OnlyItems /\ (Goto("submit") \/ Goto("release"))
          /\ items' = items \cup {<<lam.rid, "stack">>}
        BY <1>5 DEF RecordStack, ProcessPc
    <2>2. WorldOK' /\ stream' = stream /\ req' = req
        BY <1>w, <1>r, <2>1, FrameItems DEF WorldOK, RecordsOK
    <2>3. lam' \in Invocations /\ Course'
        BY <2>1, <2>2, <1>r, Advances
    <2>. QED BY <2>2, <2>3 DEF Typed
<1>6. CASE Submit
    <2>1. lam.pc \in ProcessPc \ {"process"} /\ OnlyRequest /\ (Raise \/ Goto("release"))
        BY <1>6 DEF Submit, ProcessPc
    <2>2. req' = req \/ req' = [req EXCEPT !.status = "SUBMITTED"]
        BY <1>6 DEF Submit
    <2>3. req' \in Request /\ req'.rid = req.rid
        BY <1>w, <2>2 DEF Request
    <2>4. WorldOK' /\ stream' = stream
        BY <1>w, <2>1, <2>3, FrameRequest
    <2>5. lam' \in Invocations /\ Course'
        BY <2>1, <2>3, <2>4, <1>r, Advances
    <2>. QED BY <2>4, <2>5 DEF Typed
<1>7. CASE ReleaseMarker
    <2>1. lam.pc \in ProcessPc \ {"process"} /\ OnlyMarker /\ (Raise \/ lam' = LeaveProcess)
          /\ (marker' = marker \/ marker' = "none")
        BY <1>7 DEF ReleaseMarker, ProcessPc
    <2>2. WorldOK' /\ stream' = stream /\ req' = req
        BY <1>w, <2>1, FrameMarker DEF WorldOK, RecordsOK
    <2>3. lam' \in Invocations /\ Course'
        BY <2>1, <2>2, <1>r, Advances
    <2>. QED BY <2>2, <2>3 DEF Typed
<1>. QED BY <1>1, <1>2, <1>3, <1>4, <1>5, <1>6, <1>7 DEF Bootstrap

LEMMA CleanupStepType ==
    ASSUME Typed, CleanupStep
    PROVE  Typed'
<1>. USE Labels DEF At
<1>w. WorldOK /\ req \in Request /\ lam \in Invocations
    BY DEF Typed, WorldOK, RequestOK
<1>p. \A p \in CleanupPc : p \notin ProcessPc /\ p # "arm"
    BY DEF ProcessPc, CleanupPc
<1>1. CASE BeginCleanup
    <2>1. lam.pc = "cleanup" /\ (lam' = LeaveCleanup \/ Goto("settle"))
          /\ UNCHANGED <<controlVars, due, recordVars, cloudVars, eventVars, historyVars>>
        BY <1>1 DEF BeginCleanup
    <2>2. /\ age' = age \/ age' = 0
          /\ \/ req' = req
             \/ req' = [req EXCEPT !.phase = "QUIESCING", !.enabled = FALSE, !.bootstrap = FALSE,
                                   !.listed = FALSE, !.target = req.rid]
        BY <1>1 DEF BeginCleanup
    <2>3. req.rid \in 0..MaxCycle
        BY <2>1, Inside, MaxCycleAssumption DEF Cycle
    <2>4. req' \in Request /\ req'.rid = req.rid
        BY <1>w, <2>2, <2>3 DEF Request, CleanupStatus, ActiveCleanup
    <2>5. WorldOK' /\ stream' = stream
        BY <1>w, <2>1, <2>2, <2>4 DEF WorldOK, ControlOK, RequestOK, RecordsOK, CloudOK, EventsOK,
           HistoryOK, controlVars, recordVars, cloudVars, eventVars, historyVars
    <2>6. lam' \in Invocations /\ Course'
        BY <2>1, <2>4, <2>5, Advances DEF ProcessPc
    <2>. QED BY <2>5, <2>6 DEF Typed
<1>2. CASE SettleMarker
    <2>1. lam.pc \in CleanupPc /\ UNCHANGED world
          /\ (Raise \/ lam' = LeaveCleanup \/ Goto("inventory"))
        BY <1>2 DEF SettleMarker, CleanupPc
    <2>2. WorldOK' /\ stream' = stream /\ req' = req
        BY <1>w, <2>1, FrameWorld
    <2>3. lam' \in Invocations /\ Course'
        BY <2>1, <2>2, Advances DEF ProcessPc
    <2>. QED BY <2>2, <2>3 DEF Typed
<1>3. CASE Inventory
    <2>1. lam.pc \in CleanupPc /\ OnlyRequest
          /\ (Raise \/ lam' = LeaveCleanup \/ Goto("terminate"))
        BY <1>3 DEF Inventory, CleanupPc
    <2>b. Recorded(req.rid) \in BOOLEAN
        BY DEF Recorded
    <2>2. PICK l \in BOOLEAN : l = Recorded(req.rid)
        BY <2>b, Zenon
    <2>a. \/ req' = req
          \/ req' = [req EXCEPT !.listed = l, !.phase = "DELETING"]
          \/ req' = [req EXCEPT !.listed = l, !.phase = "VERIFYING"]
        BY <1>3, <2>2 DEF Inventory
    <2>3. req' \in Request /\ req'.rid = req.rid
        BY <1>w, <2>a DEF Request, CleanupStatus, ActiveCleanup
    <2>4. WorldOK' /\ stream' = stream
        BY <1>w, <2>1, <2>3, FrameRequest
    <2>5. lam' \in Invocations /\ Course'
        BY <2>1, <2>3, <2>4, Advances DEF ProcessPc
    <2>. QED BY <2>4, <2>5 DEF Typed
<1>4. CASE Terminate
    <2>1. lam.pc \in CleanupPc /\ OnlyInstance
        BY <1>4 DEF Terminate, CleanupPc
    <2>2. inst' = inst \/ inst' = [inst EXCEPT ![lam.rid] = "shutting-down"]
        BY <1>4 DEF Terminate
    <2>3. Raise \/ \E b \in BOOLEAN : lam' = [lam EXCEPT !.pc = "deleteStack", !.left = b]
        BY <1>4 DEF Terminate, Recorded
    <2>4. WorldOK' /\ stream' = stream /\ req' = req
        BY <1>w, <2>1, <2>2, FrameInstance DEF WorldOK, CloudOK
    <2>5. Carries /\ lam'.pc \notin {"arm"} \cup ProcessPc
        <3>1. CASE Raise
            BY <1>w, <3>1, Raised DEF Keeps, ProcessPc
        <3>2. CASE \E b \in BOOLEAN : lam' = [lam EXCEPT !.pc = "deleteStack", !.left = b]
            BY <1>w, <3>2 DEF Carries, Invocations, ProcessPc
        <3>. QED BY <2>3, <3>1, <3>2
    <2>6. req.rid \in Cycle /\ lam.pc # "idle"
        BY <2>1, Inside DEF CleanupPc
    <2>7. lam' \in Invocations /\ Course'
        BY <2>4, <2>5, <2>6, Continued
    <2>. QED BY <2>4, <2>7 DEF Typed
<1>5. CASE DeleteStacks
    <2>1. lam.pc \in CleanupPc /\ OnlyStack
          /\ (Raise \/ lam' = LeaveCleanup \/ Goto("verify"))
        BY <1>5 DEF DeleteStacks, CleanupPc
    <2>2. stack' = stack \/ stack' = [stack EXCEPT ![lam.rid] = "deleting"]
        BY <1>5 DEF DeleteStacks
    <2>3. WorldOK' /\ stream' = stream /\ req' = req
        BY <1>w, <2>1, <2>2, FrameStack DEF WorldOK, CloudOK, StackState
    <2>4. lam' \in Invocations /\ Course'
        BY <2>1, <2>3, Advances DEF ProcessPc
    <2>. QED BY <2>3, <2>4 DEF Typed
<1>6. CASE Verify
    <2>1. lam.pc \in CleanupPc /\ UNCHANGED world
        BY <1>6 DEF Verify, CleanupPc
    <2>2. Raise \/ lam' = [lam EXCEPT !.pc = "erase", !.snap = Snap]
        BY <1>6 DEF Verify
    <2>3. Carries /\ lam'.pc \notin {"arm"} \cup ProcessPc
        <3>1. CASE Raise
            BY <1>w, <3>1, Raised DEF Keeps, ProcessPc
        <3>2. CASE lam' = [lam EXCEPT !.pc = "erase", !.snap = Snap]
            BY <1>w, <3>2, SnapTyped DEF WorldOK, Carries, Invocations, ProcessPc
        <3>. QED BY <2>2, <3>1, <3>2
    <2>4. WorldOK' /\ stream' = stream /\ req' = req
        BY <1>w, <2>1, FrameWorld
    <2>5. req.rid \in Cycle /\ lam.pc # "idle"
        BY <2>1, Inside DEF CleanupPc
    <2>6. lam' \in Invocations /\ Course'
        BY <2>3, <2>4, <2>5, Continued
    <2>. QED BY <2>4, <2>6 DEF Typed
<1>7. CASE EraseItem
    <2>1. lam.pc \in CleanupPc /\ OnlyItems /\ (Raise \/ lam' = lam \/ Goto("live"))
          /\ items' \subseteq items /\ lam.pc # "arm"
        BY <1>7 DEF EraseItem, CleanupPc
    <2>2. WorldOK' /\ stream' = stream /\ req' = req
        BY <1>w, <2>1, FrameItems DEF WorldOK, RecordsOK
    <2>3. CASE lam' = lam
        <3>1. lam' \in Invocations /\ Course'
            BY <2>1, <2>2, <2>3, Beside
        <3>. QED BY <2>2, <3>1 DEF Typed
    <2>4. CASE lam' # lam
        <3>1. lam' \in Invocations /\ Course'
            BY <2>1, <2>2, <2>4, Advances DEF ProcessPc
        <3>. QED BY <2>2, <3>1 DEF Typed
    <2>. QED BY <2>3, <2>4
<1>8. CASE ReadLiveControl
    <2>1. lam.pc \in CleanupPc /\ UNCHANGED world
        BY <1>8 DEF ReadLiveControl, CleanupPc
    <2>2. /\ lam.snap \in Snapshots
          /\ [lam.snap EXCEPT !.switches = switches, !.active = active] \in Snapshots
        BY <1>w DEF WorldOK, ControlOK, Invocations, Snapshots
    <2>3. lam' = [lam EXCEPT !.pc = "reset",
                             !.snap = [lam.snap EXCEPT !.switches = switches, !.active = active]]
        BY <1>8, <1>w, <2>2 DEF ReadLiveControl, Invocations, Snapshots
    <2>4. Carries /\ lam'.pc = "reset"
        BY <1>w, <2>2, <2>3 DEF Carries, Invocations
    <2>5. WorldOK' /\ stream' = stream /\ req' = req
        BY <1>w, <2>1, FrameWorld
    <2>6. req.rid \in Cycle /\ lam.pc # "idle"
        BY <2>1, Inside DEF CleanupPc
    <2>7. lam' \in Invocations /\ Course'
        BY <2>4, <2>5, <2>6, Continued DEF ProcessPc
    <2>. QED BY <2>5, <2>7 DEF Typed
<1>9. CASE ResetCycle
    <2>1. lam.pc \in CleanupPc /\ req.rid \in Cycle /\ lam.pc # "idle"
          /\ UNCHANGED <<switches, hold, marker, items, cloudVars, eventVars, historyVars>>
        BY <1>9, Inside DEF ResetCycle, ResetTo, CleanupPc
    <2>2. CASE Raise /\ UNCHANGED <<active, req, due, age, cur>>
        <3>1. WorldOK' /\ stream' = stream /\ req' = req
            BY <1>w, <2>1, <2>2 DEF WorldOK, ControlOK, RequestOK, RecordsOK, CloudOK, EventsOK,
               HistoryOK, cloudVars, eventVars, historyVars
        <3>2. lam' \in Invocations /\ Course'
            BY <2>1, <2>2, <3>1, Advances DEF ProcessPc
        <3>. QED BY <3>1, <3>2 DEF Typed
    <2>3. CASE ~(Raise /\ UNCHANGED <<active, req, due, age, cur>>)
        <3>1. /\ req' = [req EXCEPT !.rid = @ + 1, !.status = "READY", !.bootstrap = FALSE,
                           !.enabled = FALSE, !.cleanup = FALSE, !.phase = "COMPLETE", !.token = 0]
              /\ due' = FALSE /\ age' = 0 /\ cur' = Uninitialized /\ active' = Acknowledged
              /\ lam' = [LeaveCleanup EXCEPT !.snap = NoSnap]
            BY <1>9, <2>3 DEF ResetCycle, ResetTo
        <3>a. req.rid + 1 \in 1..(MaxCycle + 1)
            BY <2>1, MaxCycleAssumption DEF Cycle
        <3>2. req' \in Request
            BY <1>w, <3>1, <3>a DEF Request, CleanupStatus
        <3>3. NoCommand \in Command /\ Uninitialized \in Current /\ NoSnap \in Snapshots
            BY LimitAssumption, MaxCycleAssumption DEF NoSnap, Snapshots, NoCommand, Command,
               Prepared, Request, Uninitialized, Current, CleanupStatus, ActiveCleanup
        <3>b. ControlOK'
            BY <1>w, <2>1, <3>1, <3>3 DEF WorldOK, ControlOK, Acknowledged
        <3>e. RequestOK'
            <4>1. due' \in BOOLEAN
                BY <3>1
            <4>2. age' \in 0..2
                BY <3>1
            <4>. QED BY <3>2, <4>1, <4>2 DEF RequestOK
        <3>f. hold' = hold /\ cur' \in Current /\ marker' = marker /\ items' = items
            BY <2>1, <3>1, <3>3
        <3>c. RequestOK' /\ RecordsOK'
            BY <1>w, <3>e, <3>f DEF WorldOK, RecordsOK
        <3>d. CloudOK' /\ EventsOK' /\ HistoryOK' /\ stream' = stream
            BY <1>w, <2>1 DEF WorldOK, CloudOK, EventsOK, HistoryOK, cloudVars, eventVars,
               historyVars
        <3>4. WorldOK' /\ stream' = stream
            BY <3>b, <3>c, <3>d DEF WorldOK
        <3>5. PICK p \in {"consume", "clearToken", "finish"} :
                lam' = [lam EXCEPT !.pc = p, !.again = TRUE, !.snap = NoSnap]
            BY <1>w, <3>1 DEF LeaveCleanup, Return, Invocations
        <3>6. Carries /\ lam'.pc = p /\ lam'.again = TRUE
            BY <1>w, <3>3, <3>5 DEF Carries, Invocations
        <3>7. Queued'
            BY <2>1, <3>4, <3>6, StillQueued DEF Carries
        <3>8. InCycle' /\ Begun' /\ Arming' /\ Working'
            BY <2>1, <3>6 DEF InCycle, Begun, Arming, Working, Carries, ProcessPc, CleanupPc, Typed,
               Course
        <3>. QED BY <3>4, <3>6, <3>7, <3>8 DEF Typed, Course, Carries
    <2>. QED BY <2>2, <2>3
<1>10. CASE Attention
    <2>1. lam.pc = "attention" /\ OnlyRequest /\ Goto("finish")
        BY <1>10 DEF Attention
    <2>2. req' = req \/ req' = [req EXCEPT !.phase = "NEEDS_ATTENTION", !.cleanup = TRUE,
                               !.enabled = FALSE, !.bootstrap = FALSE]
        BY <1>10 DEF Attention
    <2>3. req' \in Request /\ req'.rid = req.rid
        BY <1>w, <2>2 DEF Request, CleanupStatus
    <2>4. WorldOK' /\ stream' = stream
        BY <1>w, <2>1, <2>3, FrameRequest
    <2>5. Carries /\ lam'.pc = "finish"
        BY <1>w, <2>1, Moved DEF Goto, Keeps
    <2>6. lam' \in Invocations /\ Course'
        BY <2>1, <2>3, <2>4, <2>5, Continued DEF Outside
    <2>. QED BY <2>4, <2>6 DEF Typed
<1>. QED BY <1>1, <1>2, <1>3, <1>4, <1>5, <1>6, <1>7, <1>8, <1>9, <1>10 DEF CleanupStep

-----------------------------------------------------------------------------
(* Types: schedules, the end of an invocation, and what happens beside it *)

LEMMA SchedulingType ==
    ASSUME Typed, Scheduling
    PROVE  Typed'
<1>. USE Labels DEF At
<1>w. WorldOK /\ req \in Request /\ lam \in Invocations
    BY DEF Typed, WorldOK, RequestOK
<1>1. CASE ClearToken
    <2>1. lam.pc = "clearToken" /\ Goto("finish") /\ req'.rid = req.rid
          /\ UNCHANGED <<controlVars, age, recordVars, cloudVars, eventVars, historyVars>>
          /\ (UNCHANGED <<req, due>> \/ (req' = [req EXCEPT !.token = 0] /\ due' = FALSE))
        BY <1>1, <1>w DEF ClearToken, Request
    <2>2. req' \in Request /\ due' \in BOOLEAN
        BY <1>w, <2>1 DEF WorldOK, RequestOK, Request
    <2>3. WorldOK' /\ stream' = stream
        BY <1>w, <2>1, <2>2 DEF WorldOK, ControlOK, RequestOK, RecordsOK, CloudOK, EventsOK,
           HistoryOK, controlVars, recordVars, cloudVars, eventVars, historyVars
    <2>4. Carries /\ lam'.pc = "finish"
        BY <1>w, <2>1, Moved DEF Goto, Keeps
    <2>5. lam' \in Invocations /\ Course'
        BY <2>1, <2>3, <2>4, Continued DEF Outside
    <2>. QED BY <2>3, <2>5 DEF Typed
<1>2. CASE ScheduleRetry
    <2>. DEFINE on == CleanupActive(lam.beforeRid)
                next == CHOOSE t \in Token : t \notin UsedTokens
    <2>1. lam.pc = "finish" /\ lam.pc # "idle"
          /\ UNCHANGED <<controlVars, age, recordVars, cloudVars, stream, fired, historyVars>>
        BY <1>2 DEF ScheduleRetry
    <2>2. \/ UNCHANGED <<req, due>> /\ ~(on /\ req.token = 0)
          \/ on /\ next \in Token /\ req' = [req EXCEPT !.token = next] /\ due' = FALSE
        BY <1>2 DEF ScheduleRetry
    <2>3. schedules' = schedules \/ Cancel(lam.before)
        BY <1>2 DEF ScheduleRetry
    <2>4. \E p \in {"end", "armCheck", "arm"} : Goto(p) /\ (p = "arm" => on)
        BY <1>2 DEF ScheduleRetry
    <2>. HIDE DEF next
    <2>5. /\ req' \in Request /\ due' \in BOOLEAN /\ req'.rid = req.rid
          /\ on => req'.token # 0
          /\ req'.cleanup = req.cleanup /\ req'.phase = req.phase
        <3>1. CASE UNCHANGED <<req, due>> /\ ~(on /\ req.token = 0)
            BY <1>w, <3>1 DEF WorldOK, RequestOK
        <3>2. CASE on /\ next \in Token /\ req' = [req EXCEPT !.token = next] /\ due' = FALSE
            <4>1. \A t \in Token : t # 0 /\ t \in Token \cup {0}
                BY LimitAssumption DEF Token
            <4>2. \A t \in Token \cup {0} :
                    /\ [req EXCEPT !.token = t] \in Request
                    /\ [req EXCEPT !.token = t].token = t
                    /\ [req EXCEPT !.token = t].rid = req.rid
                    /\ [req EXCEPT !.token = t].cleanup = req.cleanup
                    /\ [req EXCEPT !.token = t].phase = req.phase
                BY <1>w DEF Request
            <4>. QED BY <3>2, <4>1, <4>2
        <3>. QED BY <2>2, <3>1, <3>2
    <2>6. schedules' \subseteq Schedule
        BY <1>w, <2>3 DEF Cancel, WorldOK, EventsOK
    <2>7. WorldOK' /\ stream' = stream
        BY <1>w, <2>1, <2>5, <2>6 DEF WorldOK, ControlOK, RequestOK, RecordsOK, CloudOK, EventsOK,
           HistoryOK, controlVars, recordVars, cloudVars, historyVars
    <2>8. PICK p \in {"end", "armCheck", "arm"} : Goto(p) /\ (p = "arm" => on)
        BY <2>4
    <2>9. Carries /\ lam'.pc = p
        BY <1>w, <2>8, Moved DEF Goto, Keeps
    <2>10. Queued'
        BY <2>1, <2>7, <2>9, StillQueued DEF Carries
    <2>11. Arming'
        BY <2>5, <2>8, <2>9 DEF Arming, CleanupActive, Carries
    <2>12. InCycle' /\ Begun' /\ Working'
        BY <2>1, <2>9 DEF InCycle, Begun, Working, Carries, ProcessPc, CleanupPc, Typed, Course
    <2>. QED BY <2>7, <2>9, <2>10, <2>11, <2>12 DEF Typed, Course, Carries
<1>3. CASE CreateSchedule
    <2>1. lam.pc = "arm" /\ OnlySchedules /\ Goto("armCheck")
          /\ schedules' = schedules \cup {[rid |-> lam.beforeRid, token |-> req.token]}
        BY <1>3 DEF CreateSchedule, CreateWith
    <2>2. lam.beforeRid \in Cycle /\ req.token \in Token
        BY <1>w, <2>1 DEF Typed, Course, Begun, Arming, Request
    <2>3. schedules' \subseteq Schedule
        BY <1>w, <2>1, <2>2 DEF WorldOK, EventsOK, Schedule
    <2>4. WorldOK' /\ stream' = stream /\ req' = req
        BY <1>w, <2>1, <2>3, FrameSchedules
    <2>5. Carries /\ lam'.pc = "armCheck"
        BY <1>w, <2>1, Moved DEF Goto, Keeps
    <2>6. lam' \in Invocations /\ Course'
        BY <2>1, <2>4, <2>5, Continued DEF Outside
    <2>. QED BY <2>4, <2>6 DEF Typed
<1>4. CASE CancelReplaced
    <2>1. lam.pc = "armCheck" /\ OnlySchedules /\ Goto("end")
          /\ (schedules' = schedules \/ Cancel(lam.before))
        BY <1>4 DEF CancelReplaced
    <2>2. schedules' \subseteq Schedule
        BY <1>w, <2>1 DEF Cancel, WorldOK, EventsOK
    <2>3. WorldOK' /\ stream' = stream /\ req' = req
        BY <1>w, <2>1, <2>2, FrameSchedules
    <2>4. Carries /\ lam'.pc = "end"
        BY <1>w, <2>1, Moved DEF Goto, Keeps
    <2>5. lam' \in Invocations /\ Course'
        BY <2>1, <2>3, <2>4, Continued DEF Outside
    <2>. QED BY <2>3, <2>5 DEF Typed
<1>5. CASE Unscheduled
    <2>1. lam.pc = "unscheduled" /\ OnlyRequest /\ Goto("end")
          /\ (req' = req \/ req' = [req EXCEPT !.phase = "NEEDS_ATTENTION"])
        BY <1>5 DEF Unscheduled
    <2>2. req' \in Request /\ req'.rid = req.rid
        BY <1>w, <2>1 DEF Request, CleanupStatus
    <2>3. WorldOK' /\ stream' = stream
        BY <1>w, <2>1, <2>2, FrameRequest
    <2>4. Carries /\ lam'.pc = "end"
        BY <1>w, <2>1, Moved DEF Goto, Keeps
    <2>5. lam' \in Invocations /\ Course'
        BY <2>1, <2>2, <2>3, <2>4, Continued DEF Outside
    <2>. QED BY <2>3, <2>5 DEF Typed
<1>6. CASE RequestTerminalCleanup
    <2>1. lam.pc = "terminal" /\ Goto("finish")
          /\ UNCHANGED <<active, reqVars, recordVars, cloudVars, fired, schedules, historyVars>>
          /\ (switches' = switches \/ switches' = {"cleanup"})
          /\ (stream' = stream \/ stream' = Append(stream, Record("control", 0)))
        BY <1>6 DEF RequestTerminalCleanup
    <2>2. stream' \in Seq(Event) /\ (stream' = stream \/ Grows)
        BY <1>w, <2>1, StreamAppends, RecordTyped, MaxCycleAssumption
           DEF WorldOK, EventsOK, EventKind
    <2>3. WorldOK' /\ req' = req
        BY <1>w, <2>1, <2>2 DEF WorldOK, ControlOK, RequestOK, RecordsOK, CloudOK, EventsOK,
           HistoryOK, Switch, reqVars, recordVars, cloudVars, historyVars
    <2>4. Carries /\ lam'.pc = "finish"
        BY <1>w, <2>1, Moved DEF Goto, Keeps
    <2>5. lam' \in Invocations /\ Course'
        BY <2>1, <2>2, <2>3, <2>4, Continued DEF Outside
    <2>. QED BY <2>3, <2>5 DEF Typed
<1>. QED BY <1>1, <1>2, <1>3, <1>4, <1>5, <1>6 DEF Scheduling

LEMMA IdleCourse ==
    ASSUME lam' = Idle
    PROVE  lam' \in Invocations /\ Course' /\ lam'.pc = "idle"
<1>1. lam' \in Invocations /\ lam'.pc = "idle"
    BY IdleTyped DEF Idle
<1>. QED BY <1>1 DEF Course, InCycle, Begun, Queued, Arming, Working, ProcessPc, CleanupPc

LEMMA EndType ==
    ASSUME Typed, EndInvocation \/ Duplicate
    PROVE  Typed'
<1>1. /\ lam.pc = "end" /\ lam' = Idle
      /\ UNCHANGED <<controlVars, reqVars, recordVars, cloudVars, schedules, creates, killed, moves>>
      /\ Settle(lam.failed) \/ Settle(TRUE)
      /\ faults' = faults \/ (faults < MaxFaults /\ faults' = faults + 1)
    BY DEF EndInvocation, Duplicate, Fault, At, historyVars
<1>2. lam.failed \in BOOLEAN /\ EventsOK /\ Queued
    BY DEF Typed, WorldOK, Invocations, Course
<1>3. stream' \in Seq(Event) /\ fired' \subseteq {ev \in Event : ev.kind = "retry"}
    BY <1>1, <1>2, Settled DEF Typed
<1>4. faults' \in 0..MaxFaults
    BY <1>1, LimitAssumption DEF Typed, WorldOK, HistoryOK
<1>5. WorldOK'
    BY <1>1, <1>3, <1>4 DEF Typed, WorldOK, ControlOK, RequestOK, RecordsOK, CloudOK, EventsOK,
       HistoryOK, controlVars, reqVars, recordVars, cloudVars
<1>. QED BY <1>1, <1>5, IdleCourse DEF Typed

LEMMA ChainType ==
    ASSUME Typed, NEW r \in Cycle, Chain(r)
    PROVE  Typed'
<1>w. WorldOK /\ req \in Request
    BY DEF Typed, WorldOK, RequestOK
<1>. SUFFICES WorldOK' /\ lam' = lam /\ req' = req /\ (stream' = stream \/ Grows)
    BY Beside DEF Typed, Course, Arming, CleanupActive
<1>1. CASE SeedClaims(r)
    <2>1. cur' = [Uninitialized EXCEPT !.status = "CURRENT", !.rid = r]
          /\ UNCHANGED <<controlVars, reqVars, hold, marker, items, cloudVars, eventVars,
                         historyVars, lam>>
        BY <1>1 DEF SeedClaims
    <2>2. cur' \in Current
        <3>1. r \in 0..MaxCycle
            BY MaxCycleAssumption DEF Cycle
        <3>2. cur' = [status |-> "CURRENT", rid |-> r, terminal |-> FALSE]
            BY <2>1 DEF Uninitialized
        <3>. QED BY <3>1, <3>2 DEF Current
    <2>3. WorldOK'
        BY <1>w, <2>1, <2>2 DEF WorldOK, ControlOK, RequestOK, RecordsOK, CloudOK, EventsOK,
           HistoryOK, controlVars, reqVars, cloudVars, eventVars, historyVars
    <2>. QED BY <2>1, <2>3 DEF reqVars, eventVars
<1>2. CASE ChainClaims(r) \/ ChainReleases(r)
    <2>1. OnlyMarker /\ marker' \in {"none", "chain"} /\ lam' = lam
        BY <1>2 DEF ChainClaims, ChainReleases
    <2>. QED BY <1>w, <2>1, FrameMarker
<1>3. CASE ChainLaunches(r)
    <2>1. OnlyInstance /\ inst' = [inst EXCEPT ![r] = "running"] /\ lam' = lam
        BY <1>3 DEF ChainLaunches
    <2>. QED BY <1>w, <2>1, FrameInstance DEF WorldOK, CloudOK
<1>4. CASE ChainRecords(r)
    <2>1. OnlyItems /\ items' = items \cup {<<r, "inst">>} /\ lam' = lam
        BY <1>4 DEF ChainRecords
    <2>. QED BY <1>w, <2>1, FrameItems DEF WorldOK, RecordsOK
<1>5. CASE ChainEnds(r)
    <2>1. cur' = [cur EXCEPT !.terminal = TRUE] /\ stream' = Append(stream, Record("terminal", r))
          /\ UNCHANGED <<controlVars, reqVars, hold, marker, items, cloudVars, fired, schedules,
                         historyVars, lam>>
        BY <1>5 DEF ChainEnds
    <2>2. stream' \in Seq(Event) /\ Grows
        <3>1. r \in 0..(MaxCycle + 1)
            BY MaxCycleAssumption DEF Cycle
        <3>. QED BY <1>w, <2>1, <3>1, StreamAppends, RecordTyped DEF WorldOK, EventsOK, EventKind
    <2>3. cur' \in Current
        BY <1>w, <2>1 DEF WorldOK, RecordsOK, Current
    <2>4. WorldOK'
        BY <1>w, <2>1, <2>2, <2>3 DEF WorldOK, ControlOK, RequestOK, RecordsOK, CloudOK, EventsOK,
           HistoryOK, controlVars, reqVars, cloudVars, historyVars
    <2>. QED BY <2>1, <2>2, <2>4 DEF reqVars
<1>. QED BY <1>1, <1>2, <1>3, <1>4, <1>5 DEF Chain

LEMMA CloudType ==
    ASSUME Typed, NEW r \in Cycle, StackSettles(r) \/ InstanceTerminates(r) \/ StackFails(r)
    PROVE  Typed'
<1>w. WorldOK
    BY DEF Typed
<1>. SUFFICES WorldOK' /\ lam' = lam /\ req' = req /\ stream' = stream
    BY Beside DEF Typed, Course, Arming, CleanupActive
<1>1. CASE StackSettles(r)
    <2>1. OnlyStack /\ lam' = lam
          /\ \E v \in {"creating", "complete", "deleted"} : stack' = [stack EXCEPT ![r] = v]
        BY <1>1 DEF StackSettles
    <2>. QED BY <1>w, <2>1, FrameStack DEF WorldOK, CloudOK, StackState
<1>2. CASE InstanceTerminates(r)
    <2>1. OnlyInstance /\ lam' = lam /\ inst' = [inst EXCEPT ![r] = "terminated"]
        BY <1>2 DEF InstanceTerminates
    <2>. QED BY <1>w, <2>1, FrameInstance DEF WorldOK, CloudOK
<1>3. CASE StackFails(r)
    <2>1. /\ UNCHANGED <<controlVars, reqVars, recordVars, inst, eventVars, creates, killed,
                         moves, lam>>
          /\ faults < MaxFaults /\ faults' = faults + 1
          /\ \E v \in {"failed", "undeleted"} : stack' = [stack EXCEPT ![r] = v]
        BY <1>3 DEF StackFails, Fault
    <2>2. stack' \in [Cycle -> StackState]
        BY <1>w, <2>1 DEF WorldOK, CloudOK, StackState
    <2>3. faults' \in 0..MaxFaults
        BY <1>w, <2>1, LimitAssumption DEF WorldOK, HistoryOK
    <2>4. WorldOK'
        BY <1>w, <2>1, <2>2, <2>3 DEF WorldOK, ControlOK, RequestOK, RecordsOK, CloudOK, EventsOK,
           HistoryOK, controlVars, reqVars, recordVars, eventVars
    <2>. QED BY <2>1, <2>4 DEF reqVars, eventVars
<1>. QED BY <1>1, <1>2, <1>3

LEMMA OperatorType ==
    ASSUME Typed, Operator
    PROVE  Typed'
<1>w. WorldOK /\ req \in Request
    BY DEF Typed, WorldOK, RequestOK
<1>1. ASSUME NEW s \in Switch, RequestSwitch(s) PROVE Typed'
    <2>1. /\ switches' = switches \cup {s} /\ moves < MaxMoves /\ moves' = moves + 1
          /\ stream' = Append(stream, Record("control", 0))
          /\ UNCHANGED <<active, reqVars, recordVars, cloudVars, fired, schedules, creates, killed,
                         faults, lam>>
        BY <1>1 DEF RequestSwitch, OperatorMoves
    <2>2. stream' \in Seq(Event) /\ Grows
        BY <1>w, <2>1, StreamAppends, RecordTyped, MaxCycleAssumption
           DEF WorldOK, EventsOK, EventKind
    <2>3. moves' \in 0..MaxMoves
        BY <1>w, <2>1, LimitAssumption DEF WorldOK, HistoryOK
    <2>4. WorldOK'
        BY <1>w, <2>1, <2>2, <2>3 DEF WorldOK, ControlOK, RequestOK, RecordsOK, CloudOK, EventsOK,
           HistoryOK, reqVars, recordVars, cloudVars
    <2>5. lam' = lam /\ req' = req
        BY <2>1 DEF reqVars
    <2>6. lam' \in Invocations /\ Course'
        BY <2>2, <2>5, Beside DEF Typed, Course, Arming, CleanupActive
    <2>. QED BY <2>4, <2>6 DEF Typed
<1>2. CASE SetHold
    <2>1. /\ hold' = ~hold /\ moves < MaxMoves /\ moves' = moves + 1
          /\ UNCHANGED <<controlVars, reqVars, cur, marker, items, cloudVars, eventVars, creates,
                         killed, faults, lam>>
        BY <1>2 DEF SetHold, OperatorMoves
    <2>2. moves' \in 0..MaxMoves
        BY <1>w, <2>1, LimitAssumption DEF WorldOK, HistoryOK
    <2>3. WorldOK'
        BY <1>w, <2>1, <2>2 DEF WorldOK, ControlOK, RequestOK, RecordsOK, CloudOK, EventsOK,
           HistoryOK, controlVars, reqVars, cloudVars, eventVars
    <2>4. lam' = lam /\ req' = req /\ stream' = stream
        BY <2>1 DEF reqVars, eventVars
    <2>5. lam' \in Invocations /\ Course'
        BY <2>4, Beside DEF Typed, Course, Arming, CleanupActive
    <2>. QED BY <2>3, <2>5 DEF Typed
<1>3. CASE ScriptCleanup
    <2>1. /\ moves < MaxMoves /\ moves' = moves + 1
          /\ req.phase = "NEEDS_ATTENTION" \/ (req.phase \in {"IDLE", "COMPLETE"} /\ ~req.cleanup)
          /\ due' = (due /\ req'.token # 0) /\ age' = 0
          /\ stream' = stream \o Triggered(req, req')
          /\ UNCHANGED <<controlVars, recordVars, cloudVars, fired, schedules, creates, killed,
                         faults, lam>>
        BY <1>3 DEF ScriptCleanup, OperatorMoves
    <2>2. PICK ph \in CleanupStatus, t \in Token \cup {0} :
            req' = [req EXCEPT !.cleanup = TRUE, !.enabled = FALSE, !.bootstrap = FALSE,
                               !.phase = ph, !.token = t]
        <3>1. req' = [req EXCEPT !.cleanup = TRUE, !.enabled = FALSE, !.bootstrap = FALSE,
                 !.phase = IF req.phase = "NEEDS_ATTENTION" THEN "QUIESCING" ELSE req.phase,
                 !.token = IF req.phase = "NEEDS_ATTENTION" THEN 0 ELSE req.token]
            BY <1>3, <1>w DEF ScriptCleanup, Request
        <3>. QED BY <1>w, <3>1 DEF Request, CleanupStatus, ActiveCleanup
    <2>3. req' \in Request /\ req'.rid = req.rid
        BY <1>w, <2>2 DEF Request
    <2>4. stream' \in Seq(Event) /\ Grows
        BY <1>w, <2>1, <2>3, TriggeredTyped, StreamExtends DEF WorldOK, EventsOK
    <2>5. moves' \in 0..MaxMoves /\ due' \in BOOLEAN /\ age' \in 0..2
        <3>1. moves' \in 0..MaxMoves
            BY <1>w, <2>1, LimitAssumption DEF WorldOK, HistoryOK
        <3>2. due' \in BOOLEAN
            BY <2>1
        <3>3. age' \in 0..2
            BY <2>1
        <3>. QED BY <3>1, <3>2, <3>3
    <2>6. WorldOK'
        BY <1>w, <2>1, <2>3, <2>4, <2>5 DEF WorldOK, ControlOK, RequestOK, RecordsOK, CloudOK,
           EventsOK, HistoryOK, controlVars, recordVars, cloudVars
    <2>7. ~(lam.pc = "arm")
        BY <2>1 DEF Typed, Course, Arming, CleanupActive, ActiveCleanup
    <2>8. lam' \in Invocations /\ Course'
        BY <2>1, <2>3, <2>4, <2>7, Beside
    <2>. QED BY <2>6, <2>8 DEF Typed
<1>. QED BY <1>1, <1>2, <1>3 DEF Operator

LEMMA TimeType ==
    ASSUME Typed, Time
    PROVE  Typed'
<1>w. WorldOK
    BY DEF Typed
<1>. SUFFICES WorldOK' /\ lam' = lam /\ req' = req /\ stream' = stream
    BY Beside DEF Typed, Course, Arming, CleanupActive
<1>1. CASE DuePasses
    BY <1>1, <1>w DEF DuePasses, WorldOK, ControlOK, RequestOK, RecordsOK, CloudOK, EventsOK,
       HistoryOK, controlVars, recordVars, cloudVars, eventVars, historyVars
<1>2. CASE TimePasses
    <2>1. age' \in 0..2
        BY <1>2, <1>w DEF TimePasses, WorldOK, RequestOK
    <2>2. UNCHANGED <<controlVars, req, due, recordVars, cloudVars, eventVars, historyVars, lam>>
        BY <1>2 DEF TimePasses
    <2>. QED BY <1>w, <2>1, <2>2 DEF WorldOK, ControlOK, RequestOK, RecordsOK, CloudOK, EventsOK,
             HistoryOK, controlVars, recordVars, cloudVars, eventVars, historyVars
<1>3. ASSUME NEW s \in schedules, Fire(s)
      PROVE  WorldOK' /\ lam' = lam /\ req' = req /\ stream' = stream
    <2>1. /\ due' = (due \/ s = NextRetry) /\ schedules' = schedules \ {s}
          /\ fired' = fired \cup {[Record("retry", s.rid) EXCEPT !.token = s.token]}
          /\ UNCHANGED <<controlVars, req, age, recordVars, cloudVars, stream, historyVars, lam>>
        BY <1>3 DEF Fire
    <2>2. s.rid \in 0..(MaxCycle + 1) /\ s.token \in Token \cup {0}
        BY <1>w, MaxCycleAssumption DEF WorldOK, EventsOK, Schedule, Cycle
    <2>3. /\ [Record("retry", s.rid) EXCEPT !.token = s.token] \in Event
          /\ [Record("retry", s.rid) EXCEPT !.token = s.token].kind = "retry"
        <3>1. Record("retry", s.rid) \in Event /\ Record("retry", s.rid).kind = "retry"
            BY <2>2, RecordTyped DEF EventKind
        <3>. QED BY <2>2, <3>1 DEF Event
    <2>4. due' \in BOOLEAN
        BY <2>1
    <2>5. EventsOK'
        BY <1>w, <2>1, <2>3 DEF WorldOK, EventsOK
    <2>. QED BY <1>w, <2>1, <2>4, <2>5 DEF WorldOK, ControlOK, RequestOK, RecordsOK, CloudOK,
             HistoryOK, controlVars, recordVars, cloudVars, historyVars
<1>. QED BY <1>1, <1>2, <1>3 DEF Time

LEMMA FaultyType ==
    ASSUME Typed, Faulty
    PROVE  Typed'
<1>. USE Labels DEF At
<1>w. WorldOK /\ lam \in Invocations
    BY DEF Typed
<1>f. ASSUME faults < MaxFaults, faults' = faults + 1 PROVE faults' \in 0..MaxFaults
    BY <1>w, <1>f, LimitAssumption DEF WorldOK, HistoryOK
<1>k. ASSUME Killed
      PROVE  Carries /\ lam'.pc = "end" /\ killed' = TRUE
    BY <1>w, <1>k DEF Killed, Carries, Invocations
<1>r. ASSUME Raise
      PROVE  Carries /\ lam'.pc \in Outside
    BY <1>w, <1>r, Raised DEF Keeps, Outside
<1>1. CASE CallFails \/ TimesOut
    <2>1. /\ OnlyInvocation /\ ((Raise /\ killed' = killed) \/ Killed) /\ lam.pc # "idle"
          /\ faults < MaxFaults /\ faults' = faults + 1
        BY <1>1 DEF CallFails, TimesOut, Fault, Running
    <2>2. Carries /\ lam'.pc \in Outside /\ killed' \in BOOLEAN
        BY <1>w, <1>k, <1>r, <2>1 DEF Outside, WorldOK, HistoryOK
    <2>3. WorldOK' /\ stream' = stream /\ req' = req
        BY <1>w, <1>f, <2>1, <2>2, FrameInvocation
    <2>4. lam'.pc # "arm"
        BY <2>2 DEF Outside
    <2>5. lam' \in Invocations /\ Course'
        BY <2>1, <2>2, <2>3, <2>4, Continued
    <2>. QED BY <2>3, <2>5 DEF Typed
<1>2. CASE SubmissionLost
    <2>1. /\ lam.pc = "createStack" /\ ((Raise /\ killed' = killed) \/ Killed)
          /\ faults < MaxFaults /\ faults' = faults + 1
          /\ creates' = [creates EXCEPT ![lam.rid] = @ + 1]
          /\ stack' = [stack EXCEPT ![lam.rid] = "requested"]
          /\ UNCHANGED <<controlVars, reqVars, recordVars, inst, eventVars, moves>>
        BY <1>2 DEF SubmissionLost, Fault
    <2>2. lam.rid \in Cycle
        BY <2>1, Inside DEF Typed, Course, Working, ProcessPc
    <2>3. stack' \in [Cycle -> StackState] /\ creates' \in [Cycle -> Nat]
        BY <1>w, <2>1, <2>2 DEF WorldOK, CloudOK, HistoryOK, StackState
    <2>4. Carries /\ lam'.pc \in Outside /\ killed' \in BOOLEAN
        BY <1>w, <1>k, <1>r, <2>1 DEF Outside, WorldOK, HistoryOK
    <2>5. faults' \in 0..MaxFaults
        BY <1>f, <2>1
    <2>6. WorldOK' /\ stream' = stream /\ req' = req
        BY <1>w, <2>1, <2>3, <2>4, <2>5 DEF WorldOK, ControlOK, RequestOK, RecordsOK, CloudOK,
           EventsOK, HistoryOK, controlVars, reqVars, recordVars, eventVars
    <2>7. lam'.pc # "arm"
        BY <2>4 DEF Outside
    <2>8. lam' \in Invocations /\ Course'
        BY <2>1, <2>4, <2>6, <2>7, Continued
    <2>. QED BY <2>6, <2>8 DEF Typed
<1>3. CASE Conflict
    <2>1. /\ OnlyInvocation /\ killed' = killed /\ faults < MaxFaults /\ faults' = faults + 1
          /\ lam.pc \in {"commit", "feedback", "pause", "terminal"}
          /\ \/ lam.pc = "commit" /\ lam' = AfterConsume
             \/ Goto("finish") \/ Goto(Return)
             \/ lam' = [lam EXCEPT !.pc = "feedback", !.done = TRUE]
        BY <1>3 DEF Conflict, Fault
    <2>2. WorldOK' /\ stream' = stream /\ req' = req
        BY <1>w, <1>f, <2>1, FrameInvocation DEF WorldOK, HistoryOK
    <2>3. CASE lam.pc = "commit" /\ lam' = AfterConsume
        <3>1. Carries /\ lam'.pc \in {"feedback", "dispatch"} /\ (lam'.pc = "dispatch" => ~lam.again)
            BY <1>w, <2>3, Consumed
        <3>2. ~lam.again => req.rid \in Cycle
            BY <2>3, Inside
        <3>3. lam' \in Invocations /\ Course'
            BY <2>2, <2>3, <3>1, <3>2, Continued DEF Outside, ProcessPc
        <3>. QED BY <2>2, <3>3 DEF Typed
    <2>4. CASE \/ Goto("finish") \/ Goto(Return)
               \/ lam' = [lam EXCEPT !.pc = "feedback", !.done = TRUE]
        <3>1. Return \in {"clearToken", "finish"}
            BY DEF Return
        <3>2. Carries /\ lam'.pc \in {"finish", "clearToken", "feedback"}
            BY <1>w, <2>4, <3>1, Moved, MovedDone DEF Goto, Keeps
        <3>3. lam' \in Invocations /\ Course'
            BY <2>1, <2>2, <3>2, Continued DEF Outside
        <3>. QED BY <2>2, <3>3 DEF Typed
    <2>. QED BY <2>1, <2>3, <2>4
<1>4. CASE Duplicate
    BY <1>4, EndType
<1>5. CASE \E r \in Cycle : StackFails(r)
    BY <1>5, CloudType
<1>. QED BY <1>1, <1>2, <1>3, <1>4, <1>5 DEF Faulty

LEMMA InitType == Init => Typed
<1>. SUFFICES ASSUME Init PROVE Typed
    OBVIOUS
<1>1. ControlOK /\ RequestOK
    <2>1. NoCommand \in Command
        BY MaxCycleAssumption DEF NoCommand, Command
    <2>2. Prepared \in Request
        BY LimitAssumption, MaxCycleAssumption DEF Prepared, Request, CleanupStatus, ActiveCleanup
    <2>3. age = 0 /\ due = FALSE
        BY DEF Init
    <2>4. switches = {} /\ active = NoCommand /\ req = Prepared
        BY DEF Init
    <2>5. due \in BOOLEAN
        BY <2>3
    <2>6. age \in 0..2
        BY <2>3
    <2>. QED BY <2>1, <2>2, <2>4, <2>5, <2>6 DEF ControlOK, RequestOK
<1>2. RecordsOK /\ CloudOK
    <2>1. Uninitialized \in Current
        BY MaxCycleAssumption DEF Uninitialized, Current
    <2>. QED BY <2>1 DEF Init, RecordsOK, CloudOK, StackState
<1>3. EventsOK /\ HistoryOK
    <2>1. stream \in Seq(Event)
        BY EmptySeq DEF Init
    <2>2. moves \in 0..MaxMoves /\ faults \in 0..MaxFaults
        BY LimitAssumption DEF Init
    <2>. QED BY <2>1, <2>2 DEF Init, EventsOK, HistoryOK
<1>4. lam \in Invocations /\ lam.pc = "idle"
    BY IdleTyped DEF Init, Idle
<1>5. Course
    BY <1>4 DEF Course, InCycle, Begun, Queued, Arming, Working, ProcessPc, CleanupPc
<1>. QED BY <1>1, <1>2, <1>3, <1>4, <1>5 DEF Typed, WorldOK

LEMMA NextType ==
    ASSUME Typed, Next
    PROVE  Typed'
<1>1. CASE Invocation
    BY <1>1, CommandType, BootstrapType, CleanupStepType, SchedulingType, EndType DEF Invocation
<1>. QED BY <1>1, DeliverType, OperatorType, FaultyType, TimeType, CloudType, ChainType DEF Next

LEMMA TypedSteps == Typed /\ [Next]_vars => Typed'
<1>1. ASSUME Typed, UNCHANGED vars PROVE Typed'
    <2>1. UNCHANGED world /\ lam' = lam
        BY <1>1 DEF vars
    <2>2. WorldOK' /\ stream' = stream /\ req' = req
        BY <1>1, <2>1, FrameWorld DEF Typed
    <2>3. lam' \in Invocations /\ Course'
        BY <1>1, <2>1, <2>2, Beside DEF Typed, Course, Arming, CleanupActive
    <2>. QED BY <2>2, <2>3 DEF Typed
<1>. QED BY <1>1, NextType

LEMMA TypedAlways == Spec => []Typed
<1>. QED BY InitType, TypedSteps, PTL DEF Spec

\* The controller's records, what it reads and the running invocation have their
\* types in every reachable state (the type invariant of every run of Lifecycle).
THEOREM TypeCorrect == Spec => []TypeOK
<1>1. Typed => TypeOK
    BY DEF Typed, WorldOK, ControlOK, RequestOK, RecordsOK, CloudOK, EventsOK, HistoryOK,
       Invocations, TypeOK
<1>. QED BY <1>1, TypedAlways, PTL

-----------------------------------------------------------------------------
(* The inductive invariant: safety *)

\* A cleanup that has begun is requested, and takes its inventory without a marker.
Phases ==
    /\ req.phase \notin {"IDLE", "COMPLETE"} => req.cleanup
    /\ req.phase \in {"DELETING", "VERIFYING"} => marker = "none"
Gates == BusyGateTrue /\ Phases

StackCounts(r) == stack[r] = "requested" \/ StackExists(r)
Empty(r) == ~StackCounts(r) /\ ~InstanceExists(r)
Dying(r) == stack[r] \in {"deleting", "undeleted", "deleted"}
            \/ inst[r] \in {"shutting-down", "terminated"}

\* What exists of cycle r: its creation, its records and the marker before them, that
\* earlier cycles are empty and later ones untouched, and that nothing is removed
\* but under a cleanup that waited for the marker.
CycleAt(r) ==
    /\ creates[r] <= 1
    /\ creates[r] = 0 => stack[r] = "none"
    /\ stack[r] = "none" => inst[r] = "none" /\ cur.rid # r
    /\ stack[r] \in {"none", "requested"} => <<r, "stack">> \notin items
    /\ StackCounts(r) /\ <<r, "stack">> \notin items => marker = "bootstrap"
    /\ InstanceExists(r) /\ ~Recorded(r) => marker = "chain"
    /\ r < req.rid => Empty(r)
    /\ r > req.rid => creates[r] = 0
    /\ r = req.rid /\ req.status = "READY" => creates[r] = 0
    /\ r = req.rid /\ Dying(r) => Cleaning /\ marker = "none"
Pointers ==
    /\ \A i \in items : i[1] = req.rid
    /\ cur.rid \in {0, req.rid}
    /\ cur.status = "UNINITIALIZED" => cur = Uninitialized
Cycles == (\A r \in Cycle : CycleAt(r)) /\ Pointers

\* What the running invocation has established at its step.
BootstrapPlaces ==
    /\ lam.pc \in {"claimMarker", "recheck", "createStack"} =>
          req.status = "CREATING" /\ creates[lam.rid] = 0
    /\ lam.pc \in {"recheck", "createStack"} => marker = "bootstrap"
    /\ lam.pc = "recordStack" => stack[lam.rid] \in {"creating", "complete", "failed"}
    /\ lam.pc \in {"submit", "release"} => <<lam.rid, "stack">> \in items
CleanupPlaces ==
    /\ lam.pc \in CleanupPc => CleanupActive(lam.rid)
    /\ lam.pc \in CleanupPc \ {"settle"} => marker = "none"
    /\ lam.pc \in {"erase", "live", "reset"} => \A r \in Cycle : Empty(r)
    /\ lam.pc \in {"live", "reset"} => items = {}
    /\ lam.pc = "reset" => lam.snap.active = active
Places == BootstrapPlaces /\ CleanupPlaces
Safe == Gates /\ Cycles /\ Places

-----------------------------------------------------------------------------
(* What keeps each part *)

LEMMA GatesKept ==
    ASSUME Gates, active' = active \/ active' = NoCommand, req'.rid = req.rid,
           req'.cleanup = req.cleanup, req'.phase = req.phase,
           marker' = marker \/ marker' = "none"
    PROVE  Gates'
BY DEF Gates, BusyGateTrue, Phases, Cleaning, NoCommand

LEMMA CyclesKept ==
    ASSUME Cycles, UNCHANGED <<creates, stack, inst, cur, items, marker>>, req'.rid = req.rid,
           req'.status = req.status \/ req'.status # "READY", Cleaning => Cleaning'
    PROVE  Cycles'
<1>1. ASSUME NEW r \in Cycle PROVE CycleAt(r)'
    <2>1. CycleAt(r)
        BY DEF Cycles
    <2>2. (StackCounts(r)' <=> StackCounts(r)) /\ (InstanceExists(r)' <=> InstanceExists(r))
          /\ (Recorded(r)' <=> Recorded(r)) /\ (Dying(r)' <=> Dying(r))
        BY DEF StackCounts, StackExists, InstanceExists, Recorded, Dying
    <2>. QED BY <2>1, <2>2 DEF CycleAt, Empty
<1>2. Pointers'
    BY DEF Cycles, Pointers
<1>. QED BY <1>1, <1>2 DEF Cycles

LEMMA PlacesFree ==
    ASSUME lam'.pc \notin (ProcessPc \ {"process"}) \cup CleanupPc
    PROVE  Places'
BY DEF Places, BootstrapPlaces, CleanupPlaces, ProcessPc, CleanupPc

LEMMA PlacesKept ==
    ASSUME Places, lam' = lam, UNCHANGED <<active, creates, stack, inst, items, marker>>,
           req'.rid = req.rid, req'.status = req.status,
           (req'.cleanup = req.cleanup /\ req'.phase = req.phase) \/ lam.pc \notin CleanupPc
    PROVE  Places'
<1>1. BootstrapPlaces'
    BY DEF Places, BootstrapPlaces
<1>2. \A r : Empty(r)' <=> Empty(r)
    BY DEF Empty, StackCounts, StackExists, InstanceExists
<1>3. CleanupPlaces'
    BY <1>2 DEF Places, CleanupPlaces, CleanupActive, CleanupPc
<1>. QED BY <1>1, <1>3 DEF Places

\* A step that touches neither the cycle nor its gates, and leaves no place behind
LEMMA SafeOutside ==
    ASSUME Safe, UNCHANGED <<creates, stack, inst, cur, items, marker>>,
           active' = active \/ active' = NoCommand, req'.rid = req.rid,
           req'.status = req.status, req'.cleanup = req.cleanup, req'.phase = req.phase,
           lam'.pc \notin (ProcessPc \ {"process"}) \cup CleanupPc
    PROVE  Safe'
<1>1. Gates' /\ (Cleaning' <=> Cleaning)
    BY GatesKept DEF Safe, Cleaning
<1>2. Cycles'
    BY <1>1, CyclesKept DEF Safe
<1>. QED BY <1>1, <1>2, PlacesFree DEF Safe

LEMMA SafeBeside ==
    ASSUME Safe, UNCHANGED <<active, req, creates, stack, inst, cur, items, marker, lam>>
    PROVE  Safe'
<1>1. Gates' /\ (Cleaning' <=> Cleaning)
    BY GatesKept DEF Safe, Cleaning
<1>2. Cycles'
    BY <1>1, CyclesKept DEF Safe
<1>3. Places'
    BY PlacesKept DEF Safe
<1>. QED BY <1>1, <1>2, <1>3 DEF Safe

\* Only the current cycle has anything.
LEMMA OnlyCurrent ==
    ASSUME Typed, Cycles, NEW r \in Cycle, ~Empty(r)
    PROVE  r = req.rid
<1>1. CycleAt(r) /\ req.rid \in Nat /\ r \in Nat
    BY MaxCycleAssumption DEF Cycles, Typed, WorldOK, RequestOK, Request, Cycle
<1>2. ~(r < req.rid)
    BY <1>1 DEF CycleAt
<1>3. r > req.rid => Empty(r)
    BY <1>1 DEF CycleAt, Empty, StackCounts, StackExists, InstanceExists
<1>. QED BY <1>1, <1>2, <1>3

-----------------------------------------------------------------------------
(* Safety: deliveries, commands and schedules *)

LEMMA WorldQuiet ==
    ASSUME UNCHANGED world
    PROVE  UNCHANGED <<active, req, creates, stack, inst, cur, items, marker>>
BY DEF world, controlVars, reqVars, recordVars, cloudVars, historyVars

LEMMA DeliverSafe ==
    ASSUME Typed, Safe, Deliver
    PROVE  Safe'
<1>1. ASSUME NEW ev, Invoke(ev) PROVE Safe'
    <2>1. UNCHANGED <<active, req, creates, stack, inst, cur, items, marker>>
        BY <1>1, WorldQuiet DEF Invoke
    <2>2. lam'.pc \in {"consume", "process", "cleanup", "terminal"}
        <3>1. FirstStep(ev) \in {"consume", "process", "cleanup", "terminal"}
            BY DEF FirstStep
        <3>. QED BY <1>1, <3>1 DEF Invoke, Idle
    <2>. QED BY <2>1, <2>2, SafeOutside DEF ProcessPc, CleanupPc
<1>2. ASSUME NEW ev, DropRetry(ev) PROVE Safe'
    <2>1. UNCHANGED <<active, req, creates, stack, inst, cur, items, marker, lam>>
        BY <1>2 DEF DropRetry, controlVars, reqVars, recordVars, cloudVars, historyVars
    <2>. QED BY <2>1, SafeBeside
<1>. QED BY <1>1, <1>2 DEF Deliver, DeliverRecord, DeliverRetry

LEMMA CommitSafe ==
    ASSUME Typed, Safe, CommitCommand
    PROVE  Safe'
<1>. DEFINE s == lam.snap
            a == Accepted(s)
            ok == SameControl(s) /\ (a.ok => SameRecords(s))
<1>0. /\ s \in Snapshots /\ lam.pc = "commit" /\ lam' = AfterConsume
      /\ UNCHANGED <<recordVars, cloudVars, creates>>
    BY DEF CommitCommand, At, Typed, Invocations
<1>1. lam'.pc \in {"feedback", "dispatch"}
    BY <1>0, Consumed DEF Typed
<1>2. Places'
    BY <1>1, PlacesFree DEF ProcessPc, CleanupPc
<1>3. UNCHANGED <<creates, stack, inst, cur, items, marker>>
    BY <1>0 DEF recordVars, cloudVars
<1>4. CASE ok
    <2>1. active' = a.active /\ req' = (IF a.ok THEN a.req ELSE req)
        BY <1>4 DEF CommitCommand
    <2>2. /\ s.active = active
          /\ a.ok => s.req = req
        BY <1>4 DEF SameControl, SameRecords
    <2>3. /\ a.req.rid = s.req.rid /\ a.req.status = s.req.status
          /\ s.req.cleanup => a.req.cleanup
          /\ a.req.phase = s.req.phase \/ (a.req.phase = "QUIESCING" /\ a.req.cleanup)
          /\ \/ a.active = s.active \/ a.active.cmd = "START"
             \/ a.active = [cmd |-> "CLEANUP", rid |-> s.req.rid] /\ a.req.cleanup
          /\ ~a.ok => a.active = s.active
        BY <1>0, AcceptedTyped
    <2>. HIDE DEF a, ok, s
    <2>4. /\ req'.rid = req.rid /\ req'.status = req.status
          /\ req.cleanup => req'.cleanup
          /\ req'.phase = req.phase \/ (req'.phase = "QUIESCING" /\ req'.cleanup)
          /\ \/ active' = active \/ active'.cmd = "START"
             \/ active' = [cmd |-> "CLEANUP", rid |-> req.rid] /\ req'.cleanup
        BY <2>1, <2>2, <2>3
    <2>5. Cleaning => Cleaning'
        BY <2>4 DEF Cleaning
    <2>6. Gates'
        BY <1>3, <2>4, <2>5 DEF Safe, Gates, BusyGateTrue, Phases, Cleaning
    <2>7. Cycles'
        BY <1>3, <2>4, <2>5, CyclesKept DEF Safe
    <2>. QED BY <1>2, <2>6, <2>7 DEF Safe
<1>5. CASE ~ok
    <2>1. active' = active /\ req' = req
        BY <1>5 DEF CommitCommand, controlVars, reqVars
    <2>. QED BY <1>1, <1>3, <2>1, SafeOutside DEF ProcessPc, CleanupPc
<1>. QED BY <1>4, <1>5

LEMMA CommandSafe ==
    ASSUME Typed, Safe, OperatorCommand
    PROVE  Safe'
<1>. USE DEF At, Goto
<1>w. lam \in Invocations /\ req \in Request
    BY DEF Typed, WorldOK, RequestOK
<1>1. CASE ReadCommand
    <2>1. UNCHANGED <<active, req, creates, stack, inst, cur, items, marker>>
        BY <1>1, WorldQuiet DEF ReadCommand
    <2>2. lam'.pc \in {"feedback", "dispatch", "commit"}
        BY <1>1, <1>w, Consumed DEF ReadCommand, Invocations
    <2>. QED BY <2>1, <2>2, SafeOutside DEF ProcessPc, CleanupPc
<1>2. CASE CommitCommand
    BY <1>2, CommitSafe
<1>3. CASE Dispatch
    <2>1. UNCHANGED <<active, req, creates, stack, inst, cur, items, marker>>
        BY <1>3, WorldQuiet DEF Dispatch
    <2>2. lam'.pc \in {"clearToken", "finish", "consume", "feedback", "process", "cleanup"}
        BY <1>3, <1>w DEF Dispatch, Return, Invocations
    <2>. QED BY <2>1, <2>2, SafeOutside DEF ProcessPc, CleanupPc
<1>4. CASE Feedback
    <2>1. /\ active' = active \/ active' = NoCommand
          /\ UNCHANGED <<req, creates, stack, inst, cur, items, marker>>
        BY <1>4 DEF Feedback, reqVars, recordVars, cloudVars, historyVars
    <2>2. lam'.pc \in {"clearToken", "finish"}
        BY <1>4, <1>w DEF Feedback, Return, Invocations
    <2>. QED BY <2>1, <2>2, SafeOutside DEF ProcessPc, CleanupPc
<1>5. CASE Pause
    <2>1. UNCHANGED <<active, creates, stack, inst, cur, items, marker>>
        BY <1>5 DEF Pause, PauseThen, OnlyRequest, controlVars, recordVars, cloudVars, historyVars
    <2>2. /\ req'.rid = req.rid /\ req'.status = req.status /\ req'.cleanup = req.cleanup
          /\ req'.phase = req.phase
        BY <1>5, <1>w DEF Pause, PauseThen, Request
    <2>3. lam'.pc = "feedback"
        BY <1>5, <1>w DEF Pause, PauseThen, Invocations
    <2>. QED BY <2>1, <2>2, <2>3, SafeOutside DEF ProcessPc, CleanupPc
<1>. QED BY <1>1, <1>2, <1>3, <1>4, <1>5 DEF OperatorCommand

LEMMA SchedulingSafe ==
    ASSUME Typed, Safe, Scheduling
    PROVE  Safe'
<1>. USE DEF At
<1>w. lam \in Invocations /\ req \in Request
    BY DEF Typed, WorldOK, RequestOK
<1>0. ASSUME NEW p \in {"finish", "arm", "armCheck", "end"}, Goto(p)
      PROVE  lam'.pc \notin (ProcessPc \ {"process"}) \cup CleanupPc
    BY <1>w, <1>0 DEF Goto, Invocations, ProcessPc, CleanupPc
<1>1. CASE ClearToken
    <2>1. UNCHANGED <<active, creates, stack, inst, cur, items, marker>>
        BY <1>1 DEF ClearToken, controlVars, recordVars, cloudVars, historyVars
    <2>2. /\ req'.rid = req.rid /\ req'.status = req.status /\ req'.cleanup = req.cleanup
          /\ req'.phase = req.phase
        BY <1>1, <1>w DEF ClearToken, Request
    <2>3. Goto("finish")
        BY <1>1 DEF ClearToken
    <2>. QED BY <1>0, <2>1, <2>2, <2>3, SafeOutside
<1>2. CASE ScheduleRetry
    <2>1. UNCHANGED <<active, creates, stack, inst, cur, items, marker>>
        BY <1>2 DEF ScheduleRetry, controlVars, recordVars, cloudVars, historyVars
    <2>2. /\ req'.rid = req.rid /\ req'.status = req.status /\ req'.cleanup = req.cleanup
          /\ req'.phase = req.phase
        BY <1>2, <1>w DEF ScheduleRetry, Request
    <2>3. Goto("end") \/ Goto("armCheck") \/ Goto("arm")
        BY <1>2 DEF ScheduleRetry
    <2>. QED BY <1>0, <2>1, <2>2, <2>3, SafeOutside
<1>3. CASE CreateSchedule \/ CancelReplaced
    <2>1. UNCHANGED <<active, req, creates, stack, inst, cur, items, marker>>
        BY <1>3 DEF CreateSchedule, CreateWith, CancelReplaced, OnlySchedules, controlVars, reqVars,
           recordVars, cloudVars, historyVars
    <2>2. Goto("armCheck") \/ Goto("end")
        BY <1>3 DEF CreateSchedule, CreateWith, CancelReplaced
    <2>. QED BY <1>0, <2>1, <2>2, SafeOutside
<1>4. CASE Unscheduled
    <2>1. UNCHANGED <<active, creates, stack, inst, cur, items, marker>>
        BY <1>4 DEF Unscheduled, OnlyRequest, controlVars, recordVars, cloudVars, historyVars
    <2>2. req' = req \/ (req.cleanup /\ req' = [req EXCEPT !.phase = "NEEDS_ATTENTION"])
        BY <1>4 DEF Unscheduled, CleanupActive
    <2>3. /\ req'.rid = req.rid /\ req'.status = req.status /\ req'.cleanup = req.cleanup
          /\ req'.phase = req.phase \/ (req.cleanup /\ req'.phase = "NEEDS_ATTENTION")
        BY <1>w, <2>2 DEF Request
    <2>4. Cleaning => Cleaning'
        BY <2>3 DEF Cleaning
    <2>5. Gates'
        BY <2>1, <2>3, <2>4 DEF Safe, Gates, BusyGateTrue, Phases, Cleaning
    <2>6. Cycles'
        BY <2>1, <2>3, <2>4, CyclesKept DEF Safe
    <2>7. Places'
        BY <1>0, <1>4, PlacesFree DEF Unscheduled
    <2>. QED BY <2>5, <2>6, <2>7 DEF Safe
<1>5. CASE RequestTerminalCleanup
    <2>1. UNCHANGED <<active, req, creates, stack, inst, cur, items, marker>>
        BY <1>5 DEF RequestTerminalCleanup, reqVars, recordVars, cloudVars, historyVars
    <2>2. Goto("finish")
        BY <1>5 DEF RequestTerminalCleanup
    <2>. QED BY <1>0, <2>1, <2>2, SafeOutside
<1>. QED BY <1>1, <1>2, <1>3, <1>4, <1>5 DEF Scheduling

LEMMA EndSafe ==
    ASSUME Typed, Safe, EndInvocation \/ Duplicate
    PROVE  Safe'
<1>1. UNCHANGED <<active, req, creates, stack, inst, cur, items, marker>>
    BY DEF EndInvocation, Duplicate, controlVars, reqVars, recordVars, cloudVars, historyVars
<1>2. lam'.pc = "idle"
    BY IdleCourse DEF EndInvocation, Duplicate
<1>. QED BY <1>1, <1>2, SafeOutside DEF ProcessPc, CleanupPc

-----------------------------------------------------------------------------
(* Safety: the bootstrap *)

LEMMA BootstrapCycle ==
    ASSUME Typed, lam.pc \in ProcessPc \ {"process"}
    PROVE  lam.rid = req.rid /\ lam.rid \in Cycle
BY Inside DEF Typed, Course, Working

LEMMA RaisedPlaces ==
    ASSUME Typed, Raise
    PROVE  Places' /\ lam'.pc \notin ProcessPc \cup CleanupPc
<1>1. lam'.pc \notin ProcessPc \cup CleanupPc
    BY Raised DEF Typed, ProcessPc, CleanupPc
<1>. QED BY <1>1, PlacesFree

LEMMA ProcessSafe ==
    ASSUME Typed, Safe, Process
    PROVE  Safe'
<1>w. lam \in Invocations /\ req \in Request /\ req.rid \in Cycle /\ lam.pc = "process"
    BY Inside DEF Typed, WorldOK, RequestOK, Process, At, ProcessPc
<1>1. UNCHANGED <<active, creates, stack, inst, cur, items, marker>>
    BY DEF Process, OnlyRequest, controlVars, recordVars, cloudVars, historyVars
<1>2. /\ req'.rid = req.rid /\ req'.cleanup = req.cleanup /\ req'.phase = req.phase
      /\ req'.status = req.status \/ req'.status = "CREATING"
    BY <1>w DEF Process, Request
<1>3. Gates' /\ (Cleaning' <=> Cleaning)
    BY <1>1, <1>2, GatesKept DEF Safe, Cleaning
<1>4. Cycles'
    BY <1>1, <1>2, <1>3, CyclesKept DEF Safe
<1>5. Places'
    <2>1. CASE /\ req.rid = lam.rid /\ req.status = "READY"
               /\ req' = [req EXCEPT !.status = "CREATING"] /\ Goto("claimMarker")
        <3>1. creates[lam.rid] = 0
            BY <1>w, <2>1 DEF Safe, Cycles, CycleAt
        <3>2. lam'.pc = "claimMarker" /\ lam'.rid = lam.rid
            BY <1>w, <2>1, Moved, Labels DEF Goto, Keeps
        <3>3. req'.status = "CREATING"
            BY <1>w, <2>1 DEF Request
        <3>. QED BY <1>1, <3>1, <3>2, <3>3 DEF Places, BootstrapPlaces, CleanupPlaces, CleanupPc
    <2>2. CASE Raise
        BY <2>2, RaisedPlaces
    <2>3. CASE req.rid = lam.rid /\ StackVerified(req.rid) /\ Goto("recordStack")
        <3>1. lam'.pc = "recordStack" /\ lam'.rid = lam.rid
            BY <1>w, <2>3, Moved, Labels DEF Goto, Keeps
        <3>. QED BY <1>1, <2>3, <3>1 DEF StackVerified, Places, BootstrapPlaces, CleanupPlaces,
                 CleanupPc
    <2>4. CASE lam' = LeaveProcess
        <3>1. lam'.pc \in {"feedback", "clearToken", "finish"}
            BY <1>w, <2>4, Left
        <3>. QED BY <3>1, PlacesFree DEF ProcessPc, CleanupPc
    <2>. QED BY <2>1, <2>2, <2>3, <2>4 DEF Process
<1>. QED BY <1>3, <1>4, <1>5 DEF Safe

LEMMA ClaimMarkerSafe ==
    ASSUME Typed, Safe, ClaimMarker
    PROVE  Safe'
<1>w. lam \in Invocations /\ lam.pc = "claimMarker"
    BY DEF Typed, ClaimMarker, At
<1>1. UNCHANGED <<active, req, creates, stack, inst, cur, items>>
    BY DEF ClaimMarker, OnlyMarker, controlVars, reqVars, cloudVars, historyVars
<1>2. CASE Raise /\ marker' = marker
    <2>1. lam'.pc \notin ProcessPc \cup CleanupPc
        BY <1>2, RaisedPlaces
    <2>. QED BY <1>1, <1>2, <2>1, SafeOutside
<1>3. CASE Fence(lam.rid) /\ marker = "none" /\ marker' = "bootstrap" /\ Goto("recheck")
    <2>1. ~Cleaning /\ ~Cleaning'
        BY <1>1, <1>3 DEF Fence, Cleaning
    <2>2. Gates'
        BY <1>1, <1>3, <2>1 DEF Safe, Gates, BusyGateTrue, Phases, Cleaning
    <2>3. ASSUME NEW r \in Cycle PROVE CycleAt(r)'
        <3>1. CycleAt(r)
            BY DEF Safe, Cycles
        <3>2. (StackCounts(r)' <=> StackCounts(r)) /\ (InstanceExists(r)' <=> InstanceExists(r))
              /\ (Recorded(r)' <=> Recorded(r)) /\ (Dying(r)' <=> Dying(r))
            BY <1>1 DEF StackCounts, StackExists, InstanceExists, Recorded, Dying
        <3>. QED BY <1>1, <1>3, <2>1, <3>1, <3>2 DEF CycleAt, Empty
    <2>4. Cycles'
        BY <1>1, <2>3 DEF Safe, Cycles, Pointers
    <2>5. lam'.pc = "recheck" /\ lam'.rid = lam.rid
        BY <1>w, <1>3, Moved, Labels DEF Goto, Keeps
    <2>6. Places'
        BY <1>w, <1>1, <1>3, <2>5 DEF Safe, Places, BootstrapPlaces, CleanupPlaces, CleanupPc
    <2>. QED BY <2>2, <2>4, <2>6 DEF Safe
<1>. QED BY <1>2, <1>3 DEF ClaimMarker

\* A step of the bootstrap that only moves on
LEMMA MovesOn ==
    ASSUME Safe, UNCHANGED <<active, req, creates, stack, inst, cur, items, marker>>, Places'
    PROVE  Safe'
<1>1. Gates' /\ (Cleaning' <=> Cleaning)
    BY GatesKept DEF Safe, Cleaning
<1>2. Cycles'
    BY <1>1, CyclesKept DEF Safe
<1>. QED BY <1>1, <1>2 DEF Safe

LEMMA RecheckSafe ==
    ASSUME Typed, Safe, Recheck
    PROVE  Safe'
<1>w. lam \in Invocations /\ lam.pc = "recheck"
    BY DEF Typed, Recheck, At
<1>1. UNCHANGED <<active, req, creates, stack, inst, cur, items, marker>>
    BY WorldQuiet DEF Recheck
<1>2. CASE Raise
    BY <1>1, <1>2, RaisedPlaces, MovesOn
<1>3. CASE Goto("createStack")
    <2>1. lam'.pc = "createStack" /\ lam'.rid = lam.rid
        BY <1>w, <1>3, Moved, Labels DEF Goto, Keeps
    <2>2. Places'
        BY <1>w, <1>1, <2>1 DEF Safe, Places, BootstrapPlaces, CleanupPlaces, CleanupPc
    <2>. QED BY <1>1, <2>2, MovesOn
<1>. QED BY <1>2, <1>3 DEF Recheck

\* The one CreateStack of the cycle, whether its answer arrives or not
LEMMA Submitted ==
    ASSUME Typed, Safe, lam.pc = "createStack", NEW v \in {"creating", "requested"},
           creates' = [creates EXCEPT ![lam.rid] = @ + 1], stack' = [stack EXCEPT ![lam.rid] = v],
           UNCHANGED <<active, req, inst, cur, items, marker>>
    PROVE  Gates' /\ Cycles' /\ stack[lam.rid] = "none" /\ stack'[lam.rid] = v
<1>1. lam.rid = req.rid /\ lam.rid \in Cycle
    BY BootstrapCycle DEF ProcessPc
<1>2. creates[lam.rid] = 0 /\ marker = "bootstrap" /\ req.status = "CREATING"
    BY DEF Safe, Places, BootstrapPlaces
<1>3. /\ stack[lam.rid] = "none" /\ inst[lam.rid] = "none" /\ cur.rid # lam.rid
      /\ <<lam.rid, "stack">> \notin items
    BY <1>1, <1>2 DEF Safe, Cycles, CycleAt
<1>4. /\ stack'[lam.rid] = v /\ creates'[lam.rid] = 1
      /\ \A r \in Cycle : r # lam.rid => stack'[r] = stack[r] /\ creates'[r] = creates[r]
    BY <1>1, <1>2 DEF Typed, WorldOK, CloudOK, HistoryOK
<1>5. Gates' /\ (Cleaning' <=> Cleaning)
    BY GatesKept DEF Safe, Cleaning
<1>6. ASSUME NEW r \in Cycle PROVE CycleAt(r)'
    <2>0. CycleAt(r)
        BY DEF Safe, Cycles
    <2>1. CASE r = lam.rid
        <3>1. ~Dying(r)' /\ ~InstanceExists(r)'
            BY <1>3, <1>4, <2>1 DEF Dying, InstanceExists
        <3>2. r \in Nat
            BY DEF Cycle
        <3>. QED BY <1>1, <1>2, <1>3, <1>4, <2>1, <3>1, <3>2 DEF CycleAt
    <2>2. CASE r # lam.rid
        <3>1. (StackCounts(r)' <=> StackCounts(r)) /\ (InstanceExists(r)' <=> InstanceExists(r))
              /\ (Recorded(r)' <=> Recorded(r)) /\ (Dying(r)' <=> Dying(r))
            BY <1>4, <2>2 DEF StackCounts, StackExists, InstanceExists, Recorded, Dying
        <3>. QED BY <1>4, <1>5, <2>0, <2>2, <3>1 DEF CycleAt, Empty
    <2>. QED BY <2>1, <2>2
<1>7. Pointers'
    BY DEF Safe, Cycles, Pointers
<1>. QED BY <1>3, <1>4, <1>5, <1>6, <1>7 DEF Cycles

LEMMA CreateStackSafe ==
    ASSUME Typed, Safe, CreateStack
    PROVE  Safe'
<1>w. lam \in Invocations /\ lam.pc = "createStack"
    BY DEF Typed, CreateStack, CreateThen, At
<1>1. /\ creates' = [creates EXCEPT ![lam.rid] = @ + 1]
      /\ stack' = [stack EXCEPT ![lam.rid] = "creating"]
      /\ UNCHANGED <<active, req, inst, cur, items, marker>> /\ Goto("recordStack")
    BY DEF CreateStack, CreateThen, controlVars, reqVars, recordVars
<1>2. Gates' /\ Cycles' /\ stack'[lam.rid] = "creating"
    BY <1>w, <1>1, Submitted
<1>3. lam'.pc = "recordStack" /\ lam'.rid = lam.rid
    BY <1>w, <1>1, Moved, Labels DEF Goto, Keeps
<1>4. Places'
    BY <1>2, <1>3 DEF Places, BootstrapPlaces, CleanupPlaces, CleanupPc
<1>. QED BY <1>2, <1>4 DEF Safe

LEMMA RecordStackSafe ==
    ASSUME Typed, Safe, RecordStack
    PROVE  Safe'
<1>w. lam \in Invocations /\ lam.pc = "recordStack"
    BY DEF Typed, RecordStack, At
<1>1. /\ items' = items \cup {<<lam.rid, "stack">>} /\ (Goto("submit") \/ Goto("release"))
      /\ UNCHANGED <<active, req, creates, stack, inst, cur, marker>>
    BY DEF RecordStack, OnlyItems, controlVars, reqVars, cloudVars, historyVars
<1>2. lam.rid = req.rid /\ lam.rid \in Cycle
    BY <1>w, BootstrapCycle DEF ProcessPc
<1>3. stack[lam.rid] \in {"creating", "complete", "failed"}
    BY <1>w DEF Safe, Places, BootstrapPlaces
<1>4. Gates' /\ (Cleaning' <=> Cleaning)
    BY <1>1, GatesKept DEF Safe, Cleaning
<1>5. ASSUME NEW r \in Cycle PROVE CycleAt(r)'
    <2>1. CycleAt(r)
        BY DEF Safe, Cycles
    <2>2. (StackCounts(r)' <=> StackCounts(r)) /\ (InstanceExists(r)' <=> InstanceExists(r))
          /\ (Recorded(r)' <=> Recorded(r)) /\ (Dying(r)' <=> Dying(r))
        BY <1>1 DEF StackCounts, StackExists, InstanceExists, Recorded, Dying
    <2>3. /\ <<r, "stack">> \in items => <<r, "stack">> \in items'
          /\ <<r, "stack">> \in items' => <<r, "stack">> \in items \/ r = lam.rid
        BY <1>1
    <2>. QED BY <1>1, <1>3, <1>4, <2>1, <2>2, <2>3 DEF CycleAt, Empty
<1>6. Pointers'
    BY <1>1, <1>2 DEF Safe, Cycles, Pointers
<1>7. lam'.pc \in {"submit", "release"} /\ lam'.rid = lam.rid
    BY <1>w, <1>1, Moved, Labels DEF Goto, Keeps
<1>8. Places'
    BY <1>1, <1>7 DEF Places, BootstrapPlaces, CleanupPlaces, CleanupPc
<1>. QED BY <1>4, <1>5, <1>6, <1>8 DEF Safe, Cycles

LEMMA SubmitSafe ==
    ASSUME Typed, Safe, Submit
    PROVE  Safe'
<1>w. lam \in Invocations /\ lam.pc = "submit" /\ req \in Request
    BY DEF Typed, WorldOK, RequestOK, Submit, At
<1>1. UNCHANGED <<active, creates, stack, inst, cur, items, marker>>
    BY DEF Submit, OnlyRequest, controlVars, recordVars, cloudVars, historyVars
<1>2. /\ req'.rid = req.rid /\ req'.cleanup = req.cleanup /\ req'.phase = req.phase
      /\ req'.status = req.status \/ req'.status = "SUBMITTED"
    BY <1>w DEF Submit, Request
<1>3. Gates' /\ (Cleaning' <=> Cleaning)
    BY <1>1, <1>2, GatesKept DEF Safe, Cleaning
<1>4. Cycles'
    BY <1>1, <1>2, <1>3, CyclesKept DEF Safe
<1>5. Places'
    <2>1. CASE Raise
        BY <2>1, RaisedPlaces
    <2>2. CASE Goto("release")
        <3>1. lam'.pc = "release" /\ lam'.rid = lam.rid
            BY <1>w, <2>2, Moved, Labels DEF Goto, Keeps
        <3>. QED BY <1>w, <1>1, <3>1 DEF Safe, Places, BootstrapPlaces, CleanupPlaces, CleanupPc
    <2>. QED BY <2>1, <2>2 DEF Submit
<1>. QED BY <1>3, <1>4, <1>5 DEF Safe

\* A marker is released when everything it covers is recorded.
LEMMA Released ==
    ASSUME Typed, Safe, marker' = "none", marker # "none",
           UNCHANGED <<active, req, creates, stack, inst, cur, items>>,
           marker = "bootstrap" => <<req.rid, "stack">> \in items,
           marker = "chain" => Recorded(req.rid)
    PROVE  Gates' /\ Cycles'
<1>1. Gates' /\ (Cleaning' <=> Cleaning)
    BY GatesKept DEF Safe, Cleaning
<1>2. ASSUME NEW r \in Cycle PROVE CycleAt(r)'
    <2>1. CycleAt(r)
        BY DEF Safe, Cycles
    <2>2. (StackCounts(r)' <=> StackCounts(r)) /\ (InstanceExists(r)' <=> InstanceExists(r))
          /\ (Recorded(r)' <=> Recorded(r)) /\ (Dying(r)' <=> Dying(r))
        BY DEF StackCounts, StackExists, InstanceExists, Recorded, Dying
    <2>3. StackCounts(r) \/ InstanceExists(r) => r = req.rid
        BY OnlyCurrent DEF Safe, Empty
    <2>. QED BY <1>1, <2>1, <2>2, <2>3 DEF CycleAt, Empty
<1>3. Pointers'
    BY DEF Safe, Cycles, Pointers
<1>. QED BY <1>1, <1>2, <1>3 DEF Cycles

LEMMA ReleaseMarkerSafe ==
    ASSUME Typed, Safe, ReleaseMarker
    PROVE  Safe'
<1>w. lam \in Invocations /\ lam.pc = "release"
    BY DEF Typed, ReleaseMarker, At
<1>1. UNCHANGED <<active, req, creates, stack, inst, cur, items>>
    BY DEF ReleaseMarker, OnlyMarker, controlVars, reqVars, cloudVars, historyVars
<1>2. lam.rid = req.rid /\ <<lam.rid, "stack">> \in items
    BY <1>w, BootstrapCycle DEF Safe, Places, BootstrapPlaces, ProcessPc
<1>3. CASE Raise /\ marker' = marker
    BY <1>1, <1>3, RaisedPlaces, MovesOn
<1>4. CASE marker = "bootstrap" /\ marker' = "none" /\ lam' = LeaveProcess
    <2>1. Gates' /\ Cycles'
        BY <1>1, <1>2, <1>4, Released
    <2>2. lam'.pc \in {"feedback", "clearToken", "finish"}
        BY <1>w, <1>4, Left
    <2>. QED BY <2>1, <2>2, PlacesFree DEF Safe, ProcessPc, CleanupPc
<1>. QED BY <1>3, <1>4 DEF ReleaseMarker

LEMMA BootstrapSafe ==
    ASSUME Typed, Safe, Bootstrap
    PROVE  Safe'
BY ProcessSafe, ClaimMarkerSafe, RecheckSafe, CreateStackSafe, RecordStackSafe, SubmitSafe,
   ReleaseMarkerSafe DEF Bootstrap

-----------------------------------------------------------------------------
(* Safety: the cleanup *)

LEMMA CleanupCycle ==
    ASSUME Typed, Safe, lam.pc \in CleanupPc
    PROVE  /\ lam.rid = req.rid /\ lam.rid \in Cycle /\ Cleaning /\ req.cleanup
           /\ req.phase \in ActiveCleanup
BY Inside DEF Safe, Places, CleanupPlaces, CleanupActive, Cleaning

LEMMA LeftPlaces ==
    ASSUME Typed, lam' = LeaveCleanup
    PROVE  Places' /\ lam'.pc \notin ProcessPc \cup CleanupPc
<1>1. lam'.pc \in {"consume", "clearToken", "finish"}
    BY LeftCleanup DEF Typed
<1>. QED BY <1>1, PlacesFree DEF ProcessPc, CleanupPc

LEMMA BeginCleanupSafe ==
    ASSUME Typed, Safe, BeginCleanup
    PROVE  Safe'
<1>w. lam \in Invocations /\ req \in Request /\ lam.pc = "cleanup"
    BY DEF Typed, WorldOK, RequestOK, BeginCleanup, At
<1>1. UNCHANGED <<active, creates, stack, inst, cur, items, marker>>
    BY DEF BeginCleanup, controlVars, recordVars, cloudVars, historyVars
<1>2. /\ req'.rid = req.rid /\ req'.cleanup = req.cleanup /\ req'.status = req.status
      /\ req'.phase = req.phase \/ (req'.phase = "QUIESCING" /\ req.cleanup)
    BY <1>w DEF BeginCleanup, Request
<1>3. Cleaning => Cleaning'
    BY <1>2 DEF Cleaning
<1>4. Gates'
    BY <1>1, <1>2, <1>3 DEF Safe, Gates, BusyGateTrue, Phases, Cleaning
<1>5. Cycles'
    BY <1>1, <1>2, <1>3, CyclesKept DEF Safe
<1>6. Places'
    <2>1. CASE lam' = LeaveCleanup
        BY <2>1, LeftPlaces
    <2>2. CASE /\ req.rid = lam.rid /\ req.cleanup /\ Goto("settle")
               /\ req'.phase \in ActiveCleanup
        <3>1. lam'.pc = "settle" /\ lam'.rid = lam.rid
            BY <1>w, <2>2, Moved, Labels DEF Goto, Keeps
        <3>. QED BY <1>2, <2>2, <3>1 DEF Places, BootstrapPlaces, CleanupPlaces, CleanupActive,
                 CleanupPc
    <2>3. \/ lam' = LeaveCleanup
          \/ /\ req.rid = lam.rid /\ req.cleanup /\ Goto("settle")
             /\ req'.phase \in ActiveCleanup
        <3>1. req.phase \in ActiveCleanup => req.cleanup
            BY DEF Safe, Gates, Phases, ActiveCleanup
        <3>. QED BY <1>w, <3>1 DEF BeginCleanup, Request, ActiveCleanup
    <2>. QED BY <2>1, <2>2, <2>3
<1>. QED BY <1>4, <1>5, <1>6 DEF Safe

LEMMA SettleMarkerSafe ==
    ASSUME Typed, Safe, SettleMarker
    PROVE  Safe'
<1>w. lam \in Invocations /\ lam.pc = "settle"
    BY DEF Typed, SettleMarker, At
<1>1. UNCHANGED <<active, req, creates, stack, inst, cur, items, marker>>
    BY WorldQuiet DEF SettleMarker
<1>2. CASE Raise
    BY <1>1, <1>2, RaisedPlaces, MovesOn
<1>3. CASE lam' = LeaveCleanup
    BY <1>1, <1>3, LeftPlaces, MovesOn
<1>4. CASE marker = "none" /\ CleanupGuard /\ Goto("inventory")
    <2>1. lam'.pc = "inventory" /\ lam'.rid = lam.rid
        BY <1>w, <1>4, Moved, Labels DEF Goto, Keeps
    <2>2. CleanupActive(lam.rid)
        BY <1>4 DEF CleanupGuard
    <2>3. Places'
        BY <1>1, <1>4, <2>1, <2>2 DEF Places, BootstrapPlaces, CleanupPlaces, CleanupActive,
           ProcessPc
    <2>. QED BY <1>1, <2>3, MovesOn
<1>. QED BY <1>2, <1>3, <1>4 DEF SettleMarker

LEMMA InventorySafe ==
    ASSUME Typed, Safe, Inventory
    PROVE  Safe'
<1>w. lam \in Invocations /\ req \in Request /\ lam.pc = "inventory" /\ lam.pc \in CleanupPc
    BY DEF Typed, WorldOK, RequestOK, Inventory, At, CleanupPc
<1>1. UNCHANGED <<active, creates, stack, inst, cur, items, marker>>
    BY DEF Inventory, OnlyRequest, controlVars, recordVars, cloudVars, historyVars
<1>2. CASE req' = req /\ (Raise \/ lam' = LeaveCleanup)
    BY <1>1, <1>2, RaisedPlaces, LeftPlaces, MovesOn
<1>3. CASE /\ Goto("terminate")
           /\ req' = [req EXCEPT !.listed = Recorded(req.rid),
                        !.phase = IF StackExists(req.rid) \/ Recorded(req.rid)
                                  THEN "DELETING" ELSE "VERIFYING"]
    <2>1. /\ req'.rid = req.rid /\ req'.cleanup = req.cleanup /\ req'.status = req.status
          /\ req'.phase \in {"DELETING", "VERIFYING"}
        BY <1>w, <1>3 DEF Request
    <2>2. req.cleanup /\ marker = "none" /\ lam.rid = req.rid
        BY <1>w, CleanupCycle DEF Safe, Places, CleanupPlaces
    <2>3. Cleaning /\ Cleaning'
        BY <2>1, <2>2 DEF Cleaning
    <2>4. Gates'
        BY <1>1, <2>1, <2>2, <2>3 DEF Safe, Gates, BusyGateTrue, Phases, Cleaning
    <2>5. Cycles'
        BY <1>1, <2>1, <2>3, CyclesKept DEF Safe
    <2>6. lam'.pc = "terminate" /\ lam'.rid = lam.rid
        BY <1>w, <1>3, Moved, Labels DEF Goto, Keeps
    <2>7. Places'
        BY <1>1, <2>1, <2>2, <2>6 DEF Places, BootstrapPlaces, CleanupPlaces, CleanupActive,
           ActiveCleanup, ProcessPc
    <2>. QED BY <2>4, <2>5, <2>7 DEF Safe
<1>. QED BY <1>2, <1>3 DEF Inventory

\* Terminations and deletions of the cycle that is being cleaned up
LEMMA Dismantled ==
    ASSUME Typed, Safe, lam.pc \in CleanupPc \ {"settle"},
           UNCHANGED <<active, req, creates, cur, items, marker>>,
           stack' = stack \/ (StackExists(lam.rid) /\ stack' = [stack EXCEPT ![lam.rid] = "deleting"]),
           \/ inst' = inst
           \/ /\ inst[lam.rid] = "running" /\ Recorded(lam.rid)
              /\ inst' = [inst EXCEPT ![lam.rid] = "shutting-down"]
    PROVE  Gates' /\ Cycles'
<1>1. lam.rid = req.rid /\ lam.rid \in Cycle /\ Cleaning /\ marker = "none"
    BY CleanupCycle DEF Safe, Places, CleanupPlaces
<1>2. Gates' /\ (Cleaning' <=> Cleaning)
    BY GatesKept DEF Safe, Cleaning
<1>3. ASSUME NEW r \in Cycle PROVE CycleAt(r)'
    <2>0. CycleAt(r)
        BY DEF Safe, Cycles
    <2>1. CASE r = lam.rid
        <3>1. /\ stack'[r] = stack[r] \/ (StackExists(r) /\ stack'[r] = "deleting")
              /\ inst'[r] = inst[r] \/ (inst[r] = "running" /\ inst'[r] = "shutting-down")
            BY <1>1, <2>1 DEF Typed, WorldOK, CloudOK
        <3>2. /\ (StackCounts(r)' <=> StackCounts(r)) /\ (InstanceExists(r)' <=> InstanceExists(r))
              /\ (Recorded(r)' <=> Recorded(r))
            BY <3>1 DEF StackCounts, StackExists, InstanceExists, Recorded
        <3>3. /\ stack'[r] = "none" <=> stack[r] = "none"
              /\ stack'[r] = "requested" <=> stack[r] = "requested"
              /\ inst'[r] = "none" <=> inst[r] = "none"
            BY <3>1 DEF StackExists
        <3>. QED BY <1>1, <1>2, <2>0, <2>1, <3>2, <3>3 DEF CycleAt, Empty
    <2>2. CASE r # lam.rid
        <3>1. stack'[r] = stack[r] /\ inst'[r] = inst[r]
            BY <1>1, <2>2 DEF Typed, WorldOK, CloudOK
        <3>2. (StackCounts(r)' <=> StackCounts(r)) /\ (InstanceExists(r)' <=> InstanceExists(r))
              /\ (Recorded(r)' <=> Recorded(r)) /\ (Dying(r)' <=> Dying(r))
            BY <3>1 DEF StackCounts, StackExists, InstanceExists, Recorded, Dying
        <3>. QED BY <1>2, <2>0, <3>1, <3>2 DEF CycleAt, Empty
    <2>. QED BY <2>1, <2>2
<1>4. Pointers'
    BY DEF Safe, Cycles, Pointers
<1>. QED BY <1>2, <1>3, <1>4 DEF Cycles

LEMMA TerminateSafe ==
    ASSUME Typed, Safe, Terminate
    PROVE  Safe'
<1>w. lam \in Invocations /\ lam.pc = "terminate" /\ lam.pc \in CleanupPc \ {"settle"}
    BY DEF Typed, Terminate, At, CleanupPc
<1>1. UNCHANGED <<active, req, creates, stack, cur, items, marker>>
    BY DEF Terminate, OnlyInstance, controlVars, reqVars, recordVars, historyVars
<1>2. Gates' /\ Cycles'
    <2>1. \/ inst' = inst
          \/ /\ inst[lam.rid] = "running" /\ Recorded(lam.rid)
             /\ inst' = [inst EXCEPT ![lam.rid] = "shutting-down"]
        BY DEF Terminate
    <2>. QED BY <1>w, <1>1, <2>1, Dismantled
<1>3. CASE Raise
    BY <1>2, <1>3, RaisedPlaces DEF Safe
<1>4. CASE \E b \in BOOLEAN : lam' = [lam EXCEPT !.pc = "deleteStack", !.left = b]
    <2>1. lam'.pc = "deleteStack" /\ lam'.rid = lam.rid
        BY <1>w, <1>4 DEF Invocations
    <2>2. Places'
        BY <1>w, <1>1, <2>1 DEF Safe, Places, BootstrapPlaces, CleanupPlaces, CleanupActive,
           ProcessPc
    <2>. QED BY <1>2, <2>2 DEF Safe
<1>. QED BY <1>3, <1>4 DEF Terminate, Recorded

LEMMA DeleteStacksSafe ==
    ASSUME Typed, Safe, DeleteStacks
    PROVE  Safe'
<1>w. lam \in Invocations /\ lam.pc = "deleteStack" /\ lam.pc \in CleanupPc \ {"settle"}
    BY DEF Typed, DeleteStacks, At, CleanupPc
<1>1. UNCHANGED <<active, req, creates, inst, cur, items, marker>>
    BY DEF DeleteStacks, OnlyStack, controlVars, reqVars, recordVars, historyVars
<1>2. Gates' /\ Cycles'
    <2>1. \/ stack' = stack
          \/ StackExists(lam.rid) /\ stack' = [stack EXCEPT ![lam.rid] = "deleting"]
        BY DEF DeleteStacks
    <2>. QED BY <1>w, <1>1, <2>1, Dismantled
<1>3. CASE Raise
    BY <1>2, <1>3, RaisedPlaces DEF Safe
<1>4. CASE lam' = LeaveCleanup
    BY <1>2, <1>4, LeftPlaces DEF Safe
<1>5. CASE Goto("verify")
    <2>1. lam'.pc = "verify" /\ lam'.rid = lam.rid
        BY <1>w, <1>5, Moved, Labels DEF Goto, Keeps
    <2>2. Places'
        BY <1>w, <1>1, <2>1 DEF Safe, Places, BootstrapPlaces, CleanupPlaces, CleanupActive,
           ProcessPc
    <2>. QED BY <1>2, <2>2 DEF Safe
<1>. QED BY <1>3, <1>4, <1>5 DEF DeleteStacks

\* When no stack or instance is left, no submission is pending either: it would
\* have left the marker.
LEMMA VerifySafe ==
    ASSUME Typed, Safe, Verify
    PROVE  Safe'
<1>w. lam \in Invocations /\ lam.pc = "verify" /\ lam.pc \in CleanupPc \ {"settle"}
    BY DEF Typed, Verify, At, CleanupPc
<1>1. UNCHANGED <<active, req, creates, stack, inst, cur, items, marker>>
    BY WorldQuiet DEF Verify
<1>2. CASE Raise
    BY <1>1, <1>2, RaisedPlaces, MovesOn
<1>3. CASE /\ \A r \in Cycle : ~StackExists(r) /\ ~InstanceExists(r)
           /\ lam' = [lam EXCEPT !.pc = "erase", !.snap = Snap]
    <2>1. marker = "none"
        BY <1>w DEF Safe, Places, CleanupPlaces
    <2>2. \A r \in Cycle : Empty(r)
        BY <1>3, <2>1 DEF Safe, Cycles, CycleAt, Empty, StackCounts
    <2>3. \A r \in Cycle : Empty(r)'
        BY <1>1, <2>2 DEF Empty, StackCounts, StackExists, InstanceExists
    <2>4. lam'.pc = "erase" /\ lam'.rid = lam.rid
        BY <1>w, <1>3 DEF Invocations
    <2>5. Places'
        BY <1>w, <1>1, <2>3, <2>4 DEF Safe, Places, BootstrapPlaces, CleanupPlaces, CleanupActive,
           ProcessPc
    <2>. QED BY <1>1, <2>5, MovesOn
<1>. QED BY <1>2, <1>3 DEF Verify

LEMMA EraseItemSafe ==
    ASSUME Typed, Safe, EraseItem
    PROVE  Safe'
<1>w. lam \in Invocations /\ lam.pc = "erase" /\ lam.pc \in CleanupPc
    BY DEF Typed, EraseItem, At, CleanupPc
<1>1. UNCHANGED <<active, req, creates, stack, inst, cur, marker>> /\ items' \subseteq items
    BY DEF EraseItem, OnlyItems, controlVars, reqVars, cloudVars, historyVars
<1>2. Gates' /\ (Cleaning' <=> Cleaning)
    BY <1>1, GatesKept DEF Safe, Cleaning
<1>3. \A r \in Cycle : Empty(r) /\ Empty(r)'
    BY <1>w, <1>1 DEF Safe, Places, CleanupPlaces, Empty, StackCounts, StackExists, InstanceExists
<1>4. ASSUME NEW r \in Cycle PROVE CycleAt(r)'
    <2>1. CycleAt(r) /\ Empty(r)'
        BY <1>3 DEF Safe, Cycles
    <2>2. Dying(r)' <=> Dying(r)
        BY <1>1 DEF Dying
    <2>. QED BY <1>1, <1>2, <2>1, <2>2 DEF CycleAt, Empty
<1>5. Cycles'
    BY <1>1, <1>4 DEF Safe, Cycles, Pointers
<1>6. Places'
    <2>1. CASE Raise
        BY <2>1, RaisedPlaces
    <2>2. CASE lam' = lam
        BY <1>w, <1>1, <1>3, <2>2 DEF Safe, Places, BootstrapPlaces, CleanupPlaces, CleanupActive
    <2>3. CASE items' = {} /\ Goto("live")
        <3>1. lam'.pc = "live" /\ lam'.rid = lam.rid
            BY <1>w, <2>3, Moved, Labels DEF Goto, Keeps
        <3>. QED BY <1>w, <1>1, <1>3, <2>3, <3>1 DEF Safe, Places, BootstrapPlaces, CleanupPlaces,
                 CleanupActive, ProcessPc
    <2>. QED BY <2>1, <2>2, <2>3 DEF EraseItem
<1>. QED BY <1>2, <1>5, <1>6 DEF Safe

LEMMA ReadLiveControlSafe ==
    ASSUME Typed, Safe, ReadLiveControl
    PROVE  Safe'
<1>w. lam \in Invocations /\ lam.pc = "live" /\ lam.pc \in CleanupPc
    BY DEF Typed, ReadLiveControl, At, CleanupPc
<1>1. UNCHANGED <<active, req, creates, stack, inst, cur, items, marker>>
    BY WorldQuiet DEF ReadLiveControl
<1>2. lam'.pc = "reset" /\ lam'.rid = lam.rid /\ lam'.snap.active = active
    BY <1>w DEF ReadLiveControl, Invocations, Snapshots
<1>3. \A r \in Cycle : Empty(r)'
    BY <1>w, <1>1 DEF Safe, Places, CleanupPlaces, Empty, StackCounts, StackExists, InstanceExists
<1>4. Places'
    BY <1>w, <1>1, <1>2, <1>3 DEF Safe, Places, BootstrapPlaces, CleanupPlaces, CleanupActive,
       ProcessPc
<1>. QED BY <1>1, <1>4, MovesOn

LEMMA ResetCycleSafe ==
    ASSUME Typed, Safe, ResetCycle
    PROVE  Safe'
<1>w. lam \in Invocations /\ lam.pc = "reset" /\ lam.pc \in CleanupPc /\ req \in Request
    BY DEF Typed, WorldOK, RequestOK, ResetCycle, ResetTo, At, CleanupPc
<1>1. UNCHANGED <<creates, stack, inst, items, marker>>
    BY DEF ResetCycle, ResetTo, cloudVars, historyVars
<1>2. CASE Raise /\ UNCHANGED <<active, req, due, age, cur>>
    BY <1>1, <1>2, RaisedPlaces, MovesOn
<1>3. CASE ~(Raise /\ UNCHANGED <<active, req, due, age, cur>>)
    <2>1. /\ req' = [req EXCEPT !.rid = @ + 1, !.status = "READY", !.bootstrap = FALSE,
                       !.enabled = FALSE, !.cleanup = FALSE, !.phase = "COMPLETE", !.token = 0]
          /\ cur' = Uninitialized /\ active' = Acknowledged /\ marker = "none"
          /\ lam' = [LeaveCleanup EXCEPT !.snap = NoSnap]
        BY <1>3 DEF ResetCycle, ResetTo
    <2>2. /\ req'.rid = req.rid + 1 /\ req'.cleanup = FALSE /\ req'.phase = "COMPLETE"
          /\ req'.status = "READY"
        BY <1>w, <2>1 DEF Request
    <2>3. /\ lam.rid = req.rid /\ req.rid \in Cycle /\ items = {} /\ lam.snap.active = active
          /\ \A r \in Cycle : Empty(r)
        BY <1>w, CleanupCycle DEF Safe, Places, CleanupPlaces
    <2>4. active'.cmd # "CLEANUP"
        <3>1. CASE Acknowledges
            BY <2>1, <3>1 DEF Acknowledged, NoCommand
        <3>2. CASE ~Acknowledges
            <4>1. active # [cmd |-> "CLEANUP", rid |-> req.rid] /\ active' = active
                BY <2>1, <2>3, <3>2 DEF Acknowledges, Acknowledged
            <4>2. active.cmd = "CLEANUP" => active.rid = req.rid
                BY DEF Safe, Gates, BusyGateTrue
            <4>3. active = [cmd |-> active.cmd, rid |-> active.rid]
                BY DEF Typed, WorldOK, ControlOK, Command
            <4>. QED BY <4>1, <4>2, <4>3
        <3>. QED BY <3>1, <3>2
    <2>5. Gates'
        BY <2>2, <2>4 DEF Gates, BusyGateTrue, Phases
    <2>6. ASSUME NEW r \in Cycle PROVE CycleAt(r)'
        <3>1. CycleAt(r) /\ Empty(r) /\ r \in Nat /\ req.rid \in Nat
            BY <2>3 DEF Safe, Cycles, Cycle
        <3>2. Empty(r)' /\ (Dying(r)' <=> Dying(r)) /\ ~StackCounts(r)' /\ ~InstanceExists(r)'
            BY <1>1, <3>1 DEF Empty, StackCounts, StackExists, InstanceExists, Dying
        <3>3. r > req.rid => creates[r] = 0 /\ stack[r] = "none" /\ inst[r] = "none"
            BY <3>1 DEF CycleAt
        <3>4. r > req.rid => ~Dying(r)'
            BY <1>1, <3>3 DEF Dying
        <3>5. cur'.rid = 0 /\ r # 0
            BY <2>1 DEF Uninitialized, Cycle
        <3>6. r = req'.rid => r > req.rid
            BY <2>2, <3>1
        <3>7. r > req'.rid => r > req.rid
            BY <2>2, <3>1
        <3>. QED BY <1>1, <3>1, <3>2, <3>3, <3>4, <3>5, <3>6, <3>7 DEF CycleAt
    <2>7. Pointers'
        BY <1>1, <2>1, <2>3 DEF Pointers, Uninitialized
    <2>8. PICK p \in {"consume", "clearToken", "finish"} :
            lam' = [lam EXCEPT !.pc = p, !.again = TRUE, !.snap = NoSnap]
        BY <1>w, <2>1 DEF LeaveCleanup, Return, Invocations
    <2>9. lam'.pc = p
        BY <1>w, <2>8 DEF Invocations
    <2>10. Places'
        BY <2>9, PlacesFree DEF ProcessPc, CleanupPc
    <2>. QED BY <2>5, <2>6, <2>7, <2>10 DEF Safe, Cycles
<1>. QED BY <1>2, <1>3

LEMMA AttentionSafe ==
    ASSUME Typed, Safe, Attention
    PROVE  Safe'
<1>w. lam \in Invocations /\ req \in Request
    BY DEF Typed, WorldOK, RequestOK
<1>1. UNCHANGED <<active, creates, stack, inst, cur, items, marker>>
    BY DEF Attention, OnlyRequest, controlVars, recordVars, cloudVars, historyVars
<1>2. /\ req'.rid = req.rid /\ req'.status = req.status
      /\ \/ req'.phase = req.phase /\ req'.cleanup = req.cleanup
         \/ req'.phase = "NEEDS_ATTENTION" /\ req'.cleanup = TRUE
    BY <1>w DEF Attention, Request
<1>3. Cleaning => Cleaning'
    BY <1>2 DEF Cleaning
<1>4. Gates'
    BY <1>1, <1>2, <1>3 DEF Safe, Gates, BusyGateTrue, Phases, Cleaning
<1>5. Cycles'
    BY <1>1, <1>2, <1>3, CyclesKept DEF Safe
<1>6. lam'.pc = "finish"
    BY <1>w, Moved, Labels DEF Attention, Goto
<1>7. Places'
    BY <1>6, PlacesFree DEF ProcessPc, CleanupPc
<1>. QED BY <1>4, <1>5, <1>7 DEF Safe

LEMMA CleanupStepSafe ==
    ASSUME Typed, Safe, CleanupStep
    PROVE  Safe'
BY BeginCleanupSafe, SettleMarkerSafe, InventorySafe, TerminateSafe, DeleteStacksSafe, VerifySafe,
   EraseItemSafe, ReadLiveControlSafe, ResetCycleSafe, AttentionSafe DEF CleanupStep

-----------------------------------------------------------------------------
(* Safety: the chain, the cloud, the operator and the faults *)

\* Steps of the cloud and of the chain, beside the invocation
LEMMA CloudSafe ==
    ASSUME Typed, Safe, NEW r \in Cycle,
           StackSettles(r) \/ InstanceTerminates(r) \/ StackFails(r)
    PROVE  Safe'
<1>1. UNCHANGED <<active, req, creates, cur, items, marker, lam>>
    BY DEF StackSettles, InstanceTerminates, StackFails, OnlyStack, OnlyInstance, controlVars,
       reqVars, recordVars, historyVars
<1>2. Gates' /\ (Cleaning' <=> Cleaning)
    BY <1>1, GatesKept DEF Safe, Cleaning
<1>3. /\ \/ stack'[r] = stack[r]
         \/ stack[r] = "requested" /\ stack'[r] = "creating"
         \/ stack[r] = "creating" /\ stack'[r] \in {"complete", "failed"}
         \/ stack[r] = "deleting" /\ stack'[r] \in {"deleted", "undeleted"}
      /\ inst'[r] = inst[r] \/ (inst[r] = "shutting-down" /\ inst'[r] = "terminated")
      /\ \A q \in Cycle : q # r => stack'[q] = stack[q] /\ inst'[q] = inst[q]
    BY DEF StackSettles, InstanceTerminates, StackFails, OnlyStack, OnlyInstance, Typed, WorldOK,
       CloudOK
<1>4. Empty(r) => stack'[r] = stack[r] /\ inst'[r] = inst[r]
    BY <1>3 DEF Empty, StackCounts, StackExists, InstanceExists
<1>5. \A q \in Cycle : Empty(q) => Empty(q)'
    BY <1>3, <1>4 DEF Empty, StackCounts, StackExists, InstanceExists
<1>6. ASSUME NEW q \in Cycle PROVE CycleAt(q)'
    <2>0. CycleAt(q)
        BY DEF Safe, Cycles
    <2>1. Empty(q) => Empty(q)'
        BY <1>5
    <2>2. /\ StackCounts(q)' => StackCounts(q)
          /\ InstanceExists(q)' => InstanceExists(q)
          /\ Dying(q)' => Dying(q)
          /\ Recorded(q)' <=> Recorded(q)
        BY <1>1, <1>3 DEF StackCounts, StackExists, InstanceExists, Dying, Recorded
    <2>3. /\ stack'[q] = "none" => stack[q] = "none"
          /\ stack'[q] = "requested" => stack[q] = "requested"
          /\ stack[q] = "none" => stack'[q] = "none"
          /\ inst[q] = "none" => inst'[q] = "none"
        BY <1>3
    <2>. QED BY <1>1, <1>2, <2>0, <2>1, <2>2, <2>3 DEF CycleAt
<1>7. Pointers'
    BY <1>1 DEF Safe, Cycles, Pointers
<1>8. Places'
    <2>1. lam.pc = "recordStack" => stack'[lam.rid] \in {"creating", "complete", "failed"}
        <3>. SUFFICES ASSUME lam.pc = "recordStack"
                      PROVE  stack'[lam.rid] \in {"creating", "complete", "failed"}
            OBVIOUS
        <3>1. lam.rid \in Cycle /\ stack[lam.rid] \in {"creating", "complete", "failed"}
            BY BootstrapCycle DEF ProcessPc, Safe, Places, BootstrapPlaces
        <3>. QED BY <1>3, <3>1
    <2>2. BootstrapPlaces'
        BY <1>1, <2>1 DEF Safe, Places, BootstrapPlaces
    <2>3. CleanupPlaces'
        BY <1>1, <1>5 DEF Safe, Places, CleanupPlaces, CleanupActive
    <2>. QED BY <2>2, <2>3 DEF Places
<1>. QED BY <1>2, <1>6, <1>7, <1>8 DEF Safe, Cycles

LEMMA ChainSafe ==
    ASSUME Typed, Safe, NEW r \in Cycle, Chain(r)
    PROVE  Safe'
<1>1. CASE SeedClaims(r)
    <2>1. /\ UNCHANGED <<active, req, creates, stack, inst, items, marker, lam>>
          /\ cur' = [Uninitialized EXCEPT !.status = "CURRENT", !.rid = r]
          /\ stack[r] \in {"creating", "complete"} /\ r = req.rid
        BY <1>1 DEF SeedClaims, Fence, controlVars, reqVars, cloudVars, historyVars
    <2>2. cur'.status = "CURRENT" /\ cur'.rid = r
        BY <2>1 DEF Uninitialized
    <2>3. Gates' /\ (Cleaning' <=> Cleaning)
        BY <2>1, GatesKept DEF Safe, Cleaning
    <2>4. ASSUME NEW q \in Cycle PROVE CycleAt(q)'
        <3>1. CycleAt(q)
            BY DEF Safe, Cycles
        <3>2. (StackCounts(q)' <=> StackCounts(q)) /\ (InstanceExists(q)' <=> InstanceExists(q))
              /\ (Recorded(q)' <=> Recorded(q)) /\ (Dying(q)' <=> Dying(q))
            BY <2>1 DEF StackCounts, StackExists, InstanceExists, Recorded, Dying
        <3>3. stack'[q] = "none" => cur'.rid # q
            BY <2>1, <2>2
        <3>. QED BY <2>1, <2>3, <3>1, <3>2, <3>3 DEF CycleAt, Empty
    <2>5. Pointers'
        BY <2>1, <2>2 DEF Safe, Cycles, Pointers
    <2>6. Places'
        BY <2>1, PlacesKept DEF Safe
    <2>. QED BY <2>3, <2>4, <2>5, <2>6 DEF Safe, Cycles
<1>2. CASE ChainClaims(r)
    <2>1. /\ UNCHANGED <<active, req, creates, stack, inst, cur, items, lam>>
          /\ marker = "none" /\ marker' = "chain" /\ Fence(r)
        BY <1>2 DEF ChainClaims, OnlyMarker, controlVars, reqVars, cloudVars, historyVars
    <2>2. ~Cleaning /\ ~Cleaning' /\ ~req.cleanup /\ req.phase \in {"IDLE", "COMPLETE"}
        BY <2>1 DEF Fence, Cleaning
    <2>3. Gates'
        BY <2>1, <2>2 DEF Safe, Gates, BusyGateTrue, Phases, Cleaning
    <2>4. ASSUME NEW q \in Cycle PROVE CycleAt(q)'
        <3>1. CycleAt(q)
            BY DEF Safe, Cycles
        <3>2. (StackCounts(q)' <=> StackCounts(q)) /\ (InstanceExists(q)' <=> InstanceExists(q))
              /\ (Recorded(q)' <=> Recorded(q)) /\ (Dying(q)' <=> Dying(q))
            BY <2>1 DEF StackCounts, StackExists, InstanceExists, Recorded, Dying
        <3>. QED BY <2>1, <2>2, <3>1, <3>2 DEF CycleAt, Empty
    <2>5. Pointers'
        BY <2>1 DEF Safe, Cycles, Pointers
    <2>6. lam.pc \notin CleanupPc /\ lam.pc \notin {"recheck", "createStack"}
        BY <2>1, <2>2 DEF Safe, Places, BootstrapPlaces, CleanupPlaces, CleanupActive
    <2>7. Places'
        BY <2>1, <2>6 DEF Safe, Places, BootstrapPlaces, CleanupPlaces, CleanupPc
    <2>. QED BY <2>3, <2>4, <2>5, <2>7 DEF Safe, Cycles
<1>3. CASE ChainLaunches(r)
    <2>1. /\ UNCHANGED <<active, req, creates, stack, cur, items, marker, lam>>
          /\ inst[r] = "none" /\ inst' = [inst EXCEPT ![r] = "running"]
          /\ marker = "chain" /\ cur.rid = r
        BY <1>3 DEF ChainLaunches, OnlyInstance, controlVars, reqVars, recordVars, historyVars
    <2>2. r = req.rid /\ stack[r] # "none"
        <3>1. r = req.rid
            BY <2>1 DEF Safe, Cycles, Pointers, Cycle
        <3>2. CycleAt(r)
            BY DEF Safe, Cycles
        <3>. QED BY <2>1, <3>1, <3>2 DEF CycleAt
    <2>3. Gates' /\ (Cleaning' <=> Cleaning)
        BY <2>1, GatesKept DEF Safe, Cleaning
    <2>4. inst'[r] = "running" /\ \A q \in Cycle : q # r => inst'[q] = inst[q]
        BY <2>1 DEF Typed, WorldOK, CloudOK
    <2>5. ASSUME NEW q \in Cycle PROVE CycleAt(q)'
        <3>1. CycleAt(q)
            BY DEF Safe, Cycles
        <3>2. CASE q = r
            <4>1. (StackCounts(q)' <=> StackCounts(q)) /\ (Recorded(q)' <=> Recorded(q))
                  /\ (Dying(q)' => Dying(q))
                BY <2>1, <2>4, <3>2 DEF StackCounts, StackExists, Recorded, Dying
            <4>2. q \in Nat
                BY DEF Cycle
            <4>. QED BY <2>1, <2>2, <2>3, <3>1, <3>2, <4>1, <4>2 DEF CycleAt
        <3>3. CASE q # r
            <4>1. (StackCounts(q)' <=> StackCounts(q)) /\ (InstanceExists(q)' <=> InstanceExists(q))
                  /\ (Recorded(q)' <=> Recorded(q)) /\ (Dying(q)' <=> Dying(q))
                BY <2>1, <2>4, <3>3 DEF StackCounts, StackExists, InstanceExists, Recorded, Dying
            <4>. QED BY <2>1, <2>3, <2>4, <3>1, <3>3, <4>1 DEF CycleAt, Empty
        <3>. QED BY <3>2, <3>3
    <2>6. Pointers'
        BY <2>1 DEF Safe, Cycles, Pointers
    <2>7. lam.pc \notin CleanupPc \ {"settle"}
        BY <2>1 DEF Safe, Places, CleanupPlaces
    <2>8. Places'
        BY <2>1, <2>7 DEF Safe, Places, BootstrapPlaces, CleanupPlaces, CleanupActive, CleanupPc
    <2>. QED BY <2>3, <2>5, <2>6, <2>8 DEF Safe, Cycles
<1>4. CASE ChainRecords(r)
    <2>1. /\ UNCHANGED <<active, req, creates, stack, inst, cur, marker, lam>>
          /\ items' = items \cup {<<r, "inst">>} /\ Fence(r)
        BY <1>4 DEF ChainRecords, OnlyItems, controlVars, reqVars, cloudVars, historyVars
    <2>2. ~Cleaning /\ ~req.cleanup /\ r = req.rid
        BY <2>1 DEF Fence, Cleaning
    <2>3. Gates' /\ (Cleaning' <=> Cleaning)
        BY <2>1, GatesKept DEF Safe, Cleaning
    <2>4. ASSUME NEW q \in Cycle PROVE CycleAt(q)'
        <3>1. CycleAt(q)
            BY DEF Safe, Cycles
        <3>2. (StackCounts(q)' <=> StackCounts(q)) /\ (InstanceExists(q)' <=> InstanceExists(q))
              /\ (Recorded(q) => Recorded(q)') /\ (Dying(q)' <=> Dying(q))
              /\ (<<q, "stack">> \in items' <=> <<q, "stack">> \in items)
            BY <2>1 DEF StackCounts, StackExists, InstanceExists, Recorded, Dying
        <3>. QED BY <2>1, <2>3, <3>1, <3>2 DEF CycleAt, Empty
    <2>5. Pointers'
        BY <2>1, <2>2 DEF Safe, Cycles, Pointers
    <2>6. lam.pc \notin CleanupPc
        BY <2>2 DEF Safe, Places, CleanupPlaces, CleanupActive
    <2>7. Places'
        BY <2>1, <2>6 DEF Safe, Places, BootstrapPlaces, CleanupPlaces, CleanupPc
    <2>. QED BY <2>3, <2>4, <2>5, <2>7 DEF Safe, Cycles
<1>5. CASE ChainReleases(r)
    <2>1. /\ UNCHANGED <<active, req, creates, stack, inst, cur, items, lam>>
          /\ marker = "chain" /\ marker' = "none" /\ Recorded(r)
        BY <1>5 DEF ChainReleases, OnlyMarker, controlVars, reqVars, cloudVars, historyVars
    <2>2. r = req.rid
        BY <2>1 DEF Safe, Cycles, Pointers, Recorded
    <2>3. Gates' /\ Cycles'
        BY <2>1, <2>2, Released
    <2>4. lam.pc \notin {"recheck", "createStack"} /\ lam.pc \notin CleanupPc \ {"settle"}
        BY <2>1 DEF Safe, Places, BootstrapPlaces, CleanupPlaces
    <2>5. Places'
        BY <2>1, <2>4 DEF Safe, Places, BootstrapPlaces, CleanupPlaces, CleanupActive, CleanupPc
    <2>. QED BY <2>3, <2>5 DEF Safe
<1>6. CASE ChainEnds(r)
    <2>1. /\ UNCHANGED <<active, req, creates, stack, inst, items, marker, lam>>
          /\ cur' = [cur EXCEPT !.terminal = TRUE] /\ cur.rid = r
        BY <1>6 DEF ChainEnds, controlVars, reqVars, cloudVars, historyVars
    <2>2. /\ cur'.rid = cur.rid /\ cur'.status = cur.status
          /\ cur.status # "UNINITIALIZED"
        BY <2>1 DEF Typed, WorldOK, RecordsOK, Current, Safe, Cycles, Pointers, Uninitialized, Cycle
    <2>3. Gates' /\ (Cleaning' <=> Cleaning)
        BY <2>1, GatesKept DEF Safe, Cleaning
    <2>4. ASSUME NEW q \in Cycle PROVE CycleAt(q)'
        <3>1. CycleAt(q)
            BY DEF Safe, Cycles
        <3>2. (StackCounts(q)' <=> StackCounts(q)) /\ (InstanceExists(q)' <=> InstanceExists(q))
              /\ (Recorded(q)' <=> Recorded(q)) /\ (Dying(q)' <=> Dying(q))
            BY <2>1 DEF StackCounts, StackExists, InstanceExists, Recorded, Dying
        <3>. QED BY <2>1, <2>2, <2>3, <3>1, <3>2 DEF CycleAt, Empty
    <2>5. Pointers'
        BY <2>1, <2>2 DEF Safe, Cycles, Pointers
    <2>6. Places'
        BY <2>1, PlacesKept DEF Safe
    <2>. QED BY <2>3, <2>4, <2>5, <2>6 DEF Safe, Cycles
<1>. QED BY <1>1, <1>2, <1>3, <1>4, <1>5, <1>6 DEF Chain

LEMMA OperatorSafe ==
    ASSUME Typed, Safe, Operator
    PROVE  Safe'
<1>1. CASE (\E s \in Switch : RequestSwitch(s)) \/ SetHold
    <2>1. UNCHANGED <<active, req, creates, stack, inst, cur, items, marker, lam>>
        BY <1>1 DEF RequestSwitch, SetHold, controlVars, reqVars, recordVars, cloudVars
    <2>. QED BY <2>1, SafeBeside
<1>2. CASE ScriptCleanup
    <2>w. req \in Request
        BY DEF Typed, WorldOK, RequestOK
    <2>1. /\ UNCHANGED <<active, creates, stack, inst, cur, items, marker, lam>>
          /\ req.phase = "NEEDS_ATTENTION" \/ (req.phase \in {"IDLE", "COMPLETE"} /\ ~req.cleanup)
        BY <1>2 DEF ScriptCleanup, controlVars, recordVars, cloudVars
    <2>2. /\ req'.rid = req.rid /\ req'.status = req.status /\ req'.cleanup = TRUE
          /\ req'.phase = req.phase \/ req'.phase = "QUIESCING"
        BY <1>2, <2>w DEF ScriptCleanup, Request
    <2>3. Cleaning'
        BY <2>2 DEF Cleaning
    <2>4. Gates'
        BY <2>1, <2>2, <2>3 DEF Safe, Gates, BusyGateTrue, Phases, Cleaning
    <2>5. Cycles'
        BY <2>1, <2>2, <2>3, CyclesKept DEF Safe
    <2>6. lam.pc \notin CleanupPc
        BY <2>1 DEF Safe, Places, CleanupPlaces, CleanupActive, ActiveCleanup
    <2>7. Places'
        BY <2>1, <2>2, <2>6, PlacesKept DEF Safe
    <2>. QED BY <2>4, <2>5, <2>7 DEF Safe
<1>. QED BY <1>1, <1>2 DEF Operator

LEMMA TimeSafe ==
    ASSUME Typed, Safe, Time
    PROVE  Safe'
<1>1. UNCHANGED <<active, req, creates, stack, inst, cur, items, marker, lam>>
    BY DEF Time, DuePasses, TimePasses, Fire, controlVars, recordVars, cloudVars, historyVars
<1>. QED BY <1>1, SafeBeside

LEMMA FaultySafe ==
    ASSUME Typed, Safe, Faulty
    PROVE  Safe'
<1>w. lam \in Invocations
    BY DEF Typed
<1>k. Killed => lam'.pc = "end"
    BY <1>w DEF Killed, Invocations
<1>1. CASE CallFails \/ TimesOut
    <2>1. UNCHANGED <<active, req, creates, stack, inst, cur, items, marker>>
        BY <1>1 DEF CallFails, TimesOut, OnlyInvocation, controlVars, reqVars, recordVars, cloudVars
    <2>2. lam'.pc \notin ProcessPc \cup CleanupPc
        BY <1>1, <1>k, RaisedPlaces DEF CallFails, TimesOut, ProcessPc, CleanupPc
    <2>. QED BY <2>1, <2>2, SafeOutside
<1>2. CASE SubmissionLost
    <2>1. /\ lam.pc = "createStack"
          /\ creates' = [creates EXCEPT ![lam.rid] = @ + 1]
          /\ stack' = [stack EXCEPT ![lam.rid] = "requested"]
          /\ UNCHANGED <<active, req, inst, cur, items, marker>>
        BY <1>2 DEF SubmissionLost, At, controlVars, reqVars, recordVars
    <2>2. Gates' /\ Cycles'
        BY <2>1, Submitted
    <2>3. lam'.pc \notin ProcessPc \cup CleanupPc
        BY <1>2, <1>k, RaisedPlaces DEF SubmissionLost, ProcessPc, CleanupPc
    <2>. QED BY <2>2, <2>3, PlacesFree DEF Safe
<1>3. CASE Conflict
    <2>1. UNCHANGED <<active, req, creates, stack, inst, cur, items, marker>>
        BY <1>3 DEF Conflict, OnlyInvocation, controlVars, reqVars, recordVars, cloudVars
    <2>2. lam'.pc \in {"feedback", "dispatch", "finish", "clearToken"}
        <3>1. CASE lam' = AfterConsume
            BY <1>w, <3>1, Consumed
        <3>2. CASE \/ Goto("finish") \/ Goto(Return)
                   \/ lam' = [lam EXCEPT !.pc = "feedback", !.done = TRUE]
            BY <1>w, <3>2 DEF Goto, Return, Invocations
        <3>. QED BY <1>3, <3>1, <3>2 DEF Conflict
    <2>. QED BY <2>1, <2>2, SafeOutside DEF ProcessPc, CleanupPc
<1>4. CASE Duplicate
    BY <1>4, EndSafe
<1>5. CASE \E r \in Cycle : StackFails(r)
    BY <1>5, CloudSafe
<1>. QED BY <1>1, <1>2, <1>3, <1>4, <1>5 DEF Faulty

LEMMA InitSafe == Init => Safe
<1>. SUFFICES ASSUME Init PROVE Safe
    OBVIOUS
<1>1. /\ req.rid = 1 /\ req.phase = "IDLE" /\ active.cmd = "NONE" /\ marker = "none"
      /\ items = {} /\ cur = Uninitialized /\ cur.rid = 0 /\ lam.pc = "idle"
    BY DEF Init, Prepared, NoCommand, Uninitialized, Idle
<1>2. Gates
    BY <1>1 DEF Gates, BusyGateTrue, Phases
<1>3. ASSUME NEW r \in Cycle PROVE CycleAt(r)
    <2>1. stack[r] = "none" /\ inst[r] = "none" /\ creates[r] = 0 /\ r # 0
        BY DEF Init, Cycle
    <2>. QED BY <1>1, <2>1 DEF CycleAt, Empty, StackCounts, StackExists, InstanceExists, Dying
<1>4. Pointers
    BY <1>1 DEF Pointers
<1>5. Places
    BY <1>1 DEF Places, BootstrapPlaces, CleanupPlaces, CleanupPc
<1>. QED BY <1>2, <1>3, <1>4, <1>5 DEF Safe, Cycles

LEMMA NextSafe ==
    ASSUME Typed, Safe, Next
    PROVE  Safe'
<1>1. CASE Invocation
    BY <1>1, CommandSafe, BootstrapSafe, CleanupStepSafe, SchedulingSafe, EndSafe DEF Invocation
<1>. QED BY <1>1, DeliverSafe, OperatorSafe, FaultySafe, TimeSafe, CloudSafe, ChainSafe DEF Next

LEMMA SafeSteps == Typed /\ Safe /\ [Next]_vars => Safe'
<1>1. ASSUME Safe, UNCHANGED vars PROVE Safe'
    <2>1. UNCHANGED <<active, req, creates, stack, inst, cur, items, marker, lam>>
        BY <1>1, WorldQuiet DEF vars
    <2>. QED BY <1>1, <2>1, SafeBeside
<1>. QED BY <1>1, NextSafe

LEMMA SafeAlways == Spec => [](Typed /\ Safe)
<1>. QED BY InitType, InitSafe, TypedSteps, SafeSteps, PTL DEF Spec

-----------------------------------------------------------------------------
(* What the invariant says of the controller *)

\* A cycle's stack is submitted at most once, however often its start, the records of
\* it and its failures are delivered: process claims the request before it submits.
THEOREM OneSubmission == Spec => []OneBootstrapPerCycle
<1>1. Safe => OneBootstrapPerCycle
    BY DEF Safe, Cycles, CycleAt, OneBootstrapPerCycle
<1>. QED BY <1>1, SafeAlways, PTL

\* Whatever exists, or may still appear, without a record is covered by the marker
\* that cleanup_step waits for.
THEOREM UnrecordedCovered == Spec => []MarkerCoversUnrecorded
<1>1. Safe => MarkerCoversUnrecorded
    BY DEF Safe, Cycles, CycleAt, MarkerCoversUnrecorded, StackCounts
<1>. QED BY <1>1, SafeAlways, PTL

\* The request moves on to the next cycle only when nothing of an earlier one is left
\* or can still appear (complete_cleanup's reset).
THEOREM CleanReset == Spec => []ResetLeavesNothing
<1>1. ASSUME Typed, Safe PROVE ResetLeavesNothing
    <2>. SUFFICES ASSUME NEW r \in Cycle, r < req.rid
                  PROVE  /\ stack[r] # "requested" /\ ~StackExists(r) /\ ~InstanceExists(r)
                         /\ \A i \in items : i[1] # r
                         /\ cur.rid # r
        BY DEF ResetLeavesNothing
    <2>1. Empty(r)
        BY <1>1 DEF Safe, Cycles, CycleAt
    <2>2. r # req.rid /\ r # 0
        BY <1>1 DEF Typed, WorldOK, RequestOK, Request, Cycle
    <2>. QED BY <1>1, <2>1, <2>2 DEF Safe, Cycles, Pointers, Empty, StackCounts
<1>. QED BY <1>1, SafeAlways, PTL

\* While a cleanup command is active its cycle is the current one and is being
\* cleaned: the busy gate of consume_command never outlives the cleanup.
THEOREM BusyGate == Spec => []BusyGateTrue
<1>1. Safe => BusyGateTrue
    BY DEF Safe, Gates
<1>. QED BY <1>1, SafeAlways, PTL

-----------------------------------------------------------------------------
(* Steps of a cycle: nothing new after the inventory, and module Cycle *)

\* A step that neither creates nor removes anything and ends no cleanup
Steady ==
    UNCHANGED <<stack, inst>> /\ req'.rid = req.rid /\ (Cleaning => Cleaning')

LEMMA SteadyEdit ==
    ASSUME UNCHANGED <<stack, inst>>, req'.rid = req.rid,
           req'.cleanup = req.cleanup, req'.phase = req.phase
    PROVE  Steady
BY DEF Steady, Cleaning

LEMMA DeliverSteady ==
    ASSUME Typed, Deliver \/ EndInvocation \/ Duplicate \/ Time \/ CallFails \/ TimesOut \/ Conflict
    PROVE  Steady
<1>1. ASSUME NEW ev, Invoke(ev) \/ DropRetry(ev) PROVE UNCHANGED <<stack, inst, req>>
    BY <1>1 DEF Invoke, DropRetry, world, cloudVars, reqVars
<1>2. CASE EndInvocation \/ Duplicate
    BY <1>2, SteadyEdit DEF EndInvocation, Duplicate, cloudVars, reqVars
<1>3. CASE Time
    BY <1>3, SteadyEdit DEF Time, DuePasses, TimePasses, Fire, cloudVars
<1>4. CASE CallFails \/ TimesOut \/ Conflict
    BY <1>4, SteadyEdit DEF CallFails, TimesOut, Conflict, OnlyInvocation, cloudVars, reqVars
<1>. QED BY <1>1, <1>2, <1>3, <1>4, SteadyEdit DEF Deliver, DeliverRecord, DeliverRetry

LEMMA CommandSteady ==
    ASSUME Typed, OperatorCommand \/ Scheduling
    PROVE  Steady
<1>w. req \in Request /\ lam.snap \in Snapshots
    BY DEF Typed, WorldOK, RequestOK, Invocations
<1>1. CASE ReadCommand \/ Dispatch
    BY <1>1, SteadyEdit DEF ReadCommand, Dispatch, world, cloudVars, reqVars
<1>2. CASE CommitCommand
    <2>. DEFINE s == lam.snap
                a == Accepted(s)
    <2>1. /\ UNCHANGED <<stack, inst>>
          /\ req' = req \/ (a.ok /\ req' = a.req /\ req = s.req)
        BY <1>2 DEF CommitCommand, SameRecords, cloudVars, reqVars
    <2>2. /\ a.req.rid = s.req.rid
          /\ s.req.cleanup => a.req.cleanup
          /\ a.req.phase = s.req.phase \/ (a.req.phase = "QUIESCING" /\ a.req.cleanup)
        BY <1>w, AcceptedTyped
    <2>. HIDE DEF s, a
    <2>. QED BY <2>1, <2>2 DEF Steady, Cleaning
<1>3. CASE Feedback \/ CreateSchedule \/ CancelReplaced \/ RequestTerminalCleanup
    BY <1>3, SteadyEdit DEF Feedback, CreateSchedule, CreateWith, CancelReplaced, OnlySchedules,
       RequestTerminalCleanup, cloudVars, reqVars
<1>4. CASE Pause
    BY <1>4, <1>w, SteadyEdit DEF Pause, PauseThen, OnlyRequest, cloudVars, Request
<1>5. CASE ClearToken
    BY <1>5, <1>w, SteadyEdit DEF ClearToken, cloudVars, Request
<1>6. CASE ScheduleRetry
    BY <1>6, <1>w, SteadyEdit DEF ScheduleRetry, cloudVars, Request
<1>7. CASE Unscheduled
    <2>1. UNCHANGED <<stack, inst>>
          /\ (req' = req \/ (req.cleanup /\ req' = [req EXCEPT !.phase = "NEEDS_ATTENTION"]))
        BY <1>7 DEF Unscheduled, OnlyRequest, CleanupActive, cloudVars
    <2>. QED BY <1>w, <2>1 DEF Request, Steady, Cleaning
<1>. QED BY <1>1, <1>2, <1>3, <1>4, <1>5, <1>6, <1>7 DEF OperatorCommand, Scheduling

LEMMA OperatorSteady ==
    ASSUME Typed, Operator
    PROVE  Steady
<1>w. req \in Request
    BY DEF Typed, WorldOK, RequestOK
<1>1. CASE (\E s \in Switch : RequestSwitch(s)) \/ SetHold
    BY <1>1, SteadyEdit DEF RequestSwitch, SetHold, cloudVars, reqVars
<1>2. CASE ScriptCleanup
    <2>1. UNCHANGED <<stack, inst>> /\ req'.rid = req.rid /\ req'.cleanup = TRUE
        BY <1>2, <1>w DEF ScriptCleanup, cloudVars, Request
    <2>. QED BY <2>1 DEF Steady, Cleaning
<1>. QED BY <1>1, <1>2 DEF Operator

LEMMA BootstrapSteady ==
    ASSUME Typed, Bootstrap
    PROVE  Steady \/ CreateStack
<1>w. req \in Request
    BY DEF Typed, WorldOK, RequestOK
<1>1. CASE Process
    BY <1>1, <1>w, SteadyEdit DEF Process, OnlyRequest, cloudVars, Request
<1>2. CASE ClaimMarker \/ ReleaseMarker
    BY <1>2, SteadyEdit DEF ClaimMarker, ReleaseMarker, OnlyMarker, cloudVars, reqVars
<1>3. CASE Recheck
    BY <1>3, SteadyEdit DEF Recheck, world, cloudVars, reqVars
<1>4. CASE RecordStack
    BY <1>4, SteadyEdit DEF RecordStack, OnlyItems, cloudVars, reqVars
<1>5. CASE Submit
    BY <1>5, <1>w, SteadyEdit DEF Submit, OnlyRequest, cloudVars, Request
<1>. QED BY <1>1, <1>2, <1>3, <1>4, <1>5 DEF Bootstrap

LEMMA CleanupStepSteady ==
    ASSUME Typed, Safe, CleanupStep
    PROVE  Steady \/ Terminate \/ DeleteStacks \/ ResetCycle
<1>w. req \in Request
    BY DEF Typed, WorldOK, RequestOK
<1>1. CASE BeginCleanup
    <2>1. UNCHANGED <<stack, inst>>
        BY <1>1 DEF BeginCleanup, cloudVars
    <2>2. /\ req'.rid = req.rid /\ req'.cleanup = req.cleanup
          /\ req'.phase = req.phase \/ req.cleanup
        BY <1>1, <1>w DEF BeginCleanup, Request
    <2>. QED BY <2>1, <2>2 DEF Steady, Cleaning
<1>2. CASE SettleMarker \/ Verify \/ ReadLiveControl
    BY <1>2, SteadyEdit DEF SettleMarker, Verify, ReadLiveControl, world, cloudVars, reqVars
<1>3. CASE Inventory
    <2>1. UNCHANGED <<stack, inst>> /\ lam.pc \in CleanupPc
        BY <1>3 DEF Inventory, OnlyRequest, At, cloudVars, CleanupPc
    <2>2. req'.rid = req.rid /\ req'.cleanup = req.cleanup /\ req.cleanup
        BY <1>3, <1>w, <2>1, CleanupCycle DEF Inventory, Request
    <2>. QED BY <2>1, <2>2 DEF Steady, Cleaning
<1>4. CASE EraseItem
    BY <1>4, SteadyEdit DEF EraseItem, OnlyItems, cloudVars, reqVars
<1>5. CASE Attention
    <2>1. UNCHANGED <<stack, inst>>
        BY <1>5 DEF Attention, OnlyRequest, cloudVars
    <2>2. /\ req'.rid = req.rid
          /\ \/ req'.phase = req.phase /\ req'.cleanup = req.cleanup
             \/ req'.cleanup = TRUE
        BY <1>5, <1>w DEF Attention, Request
    <2>. QED BY <2>1, <2>2 DEF Steady, Cleaning
<1>. QED BY <1>1, <1>2, <1>3, <1>4, <1>5 DEF CleanupStep

LEMMA ChainSteady ==
    ASSUME NEW r \in Cycle, Chain(r)
    PROVE  Steady \/ ChainLaunches(r)
BY SteadyEdit DEF Chain, SeedClaims, ChainClaims, ChainRecords, ChainReleases, ChainEnds,
   OnlyMarker, OnlyItems, cloudVars, reqVars

\* The steps that create or remove something, and the reset
CycleStep(r) ==
    \/ ChainLaunches(r) \/ StackSettles(r) \/ StackFails(r) \/ InstanceTerminates(r)

LEMMA StepKinds ==
    ASSUME Typed, Safe, Next
    PROVE  \/ Steady \/ CreateStack \/ SubmissionLost \/ Terminate \/ DeleteStacks \/ ResetCycle
           \/ \E r \in Cycle : CycleStep(r)
<1>1. CASE Invocation
    BY <1>1, CommandSteady, BootstrapSteady, CleanupStepSteady, DeliverSteady DEF Invocation
<1>2. CASE Faulty
    BY <1>2, DeliverSteady DEF Faulty, CycleStep
<1>3. CASE Deliver \/ Operator \/ Time
    BY <1>3, DeliverSteady, OperatorSteady
<1>4. CASE \E r \in Cycle : StackSettles(r) \/ InstanceTerminates(r) \/ Chain(r)
    BY <1>4, ChainSteady DEF CycleStep
<1>. QED BY <1>1, <1>2, <1>3, <1>4 DEF Next

\* While the inventory is being worked off, no stack or instance is where there was
\* none: every creation still under way would hold the marker.
NothingNew ==
    \A r \in Cycle : (stack[r] \in {"none", "requested"} => stack'[r] = stack[r])
                     /\ (inst[r] = "none" => inst'[r] = "none")

LEMMA NothingNewStep ==
    ASSUME Typed, Safe, Next, req.phase \in {"DELETING", "VERIFYING"}
    PROVE  NothingNew
<1>1. marker = "none"
    BY DEF Safe, Gates, Phases
<1>2. CASE Steady
    BY <1>2 DEF Steady, NothingNew
<1>3. ~CreateStack /\ ~SubmissionLost
    BY <1>1 DEF CreateStack, CreateThen, SubmissionLost, At, Safe, Places, BootstrapPlaces
<1>4. CASE Terminate \/ DeleteStacks
    <2>1. /\ stack' = stack \/ (StackExists(lam.rid) /\ stack' = [stack EXCEPT ![lam.rid] = "deleting"])
          /\ inst' = inst \/ (inst[lam.rid] = "running" /\ inst' = [inst EXCEPT ![lam.rid] = "shutting-down"])
        BY <1>4 DEF Terminate, DeleteStacks, OnlyInstance, OnlyStack
    <2>. QED BY <2>1 DEF NothingNew, Typed, WorldOK, CloudOK, StackExists
<1>5. CASE ResetCycle
    BY <1>5 DEF ResetCycle, ResetTo, cloudVars, NothingNew
<1>6. ASSUME NEW r \in Cycle, CycleStep(r) PROVE NothingNew
    <2>1. ~ChainLaunches(r)
        BY <1>1 DEF ChainLaunches
    <2>2. stack[r] # "requested"
        BY <1>1 DEF Safe, Cycles, CycleAt, StackCounts
    <2>3. /\ stack' = stack \/ (stack[r] # "none" /\ \E v \in StackState : stack' = [stack EXCEPT ![r] = v])
          /\ inst' = inst \/ (inst[r] # "none" /\ inst' = [inst EXCEPT ![r] = "terminated"])
        BY <1>6, <2>1 DEF CycleStep, StackSettles, StackFails, InstanceTerminates, OnlyStack,
           OnlyInstance, StackState
    <2>. QED BY <2>2, <2>3 DEF NothingNew, Typed, WorldOK, CloudOK
<1>. QED BY <1>2, <1>3, <1>4, <1>5, <1>6, StepKinds

\* Once the inventory is taken nothing new appears in it (cleanup_step: an inventory is
\* taken without the marker, and the marker is claimed behind the fence).
THEOREM NothingAppears == Spec => NothingNewAfterInventory
<1>1. ASSUME Typed, Safe, [Next]_vars
      PROVE  [req.phase \in {"DELETING", "VERIFYING"} => NothingNew]_vars
    BY <1>1, NothingNewStep
<1>2. [req.phase \in {"DELETING", "VERIFYING"} => NothingNew]_vars
        => [req.phase \in {"DELETING", "VERIFYING"} =>
              \A r \in Cycle : (stack[r] \in {"none", "requested"} => stack'[r] = stack[r])
                               /\ (inst[r] = "none" => inst'[r] = "none")]_vars
    BY DEF NothingNew
<1>. QED BY <1>1, <1>2, SafeAlways, PTL DEF Spec, NothingNewAfterInventory

-----------------------------------------------------------------------------
(* The controller implements Cycle *)

LEMMA LifeIs ==
    ASSUME NEW r, NEW f, NEW gone
    PROVE  /\ Life(r, f, gone) \in {"none", "alive", "gone"}
           /\ r \in Cycle => /\ Life(r, f, gone) = "none" <=> f[r] = "none"
                             /\ f[r] # "none" => (Life(r, f, gone) = "gone" <=> f[r] = gone)
           /\ r \notin Cycle => Life(r, f, gone) = "none"
BY DEF Life

LEMMA LaunchesThing ==
    ASSUME NEW t \in {"stack", "inst"}, UNCHANGED <<req.rid, Cleaning>>,
           Status(req.rid)[t] = "none", \A u \in {"stack", "inst"} : Status(req.rid)[u] # "gone",
           Status(req.rid)' = [Status(req.rid) EXCEPT ![t] = "alive"]
    PROVE  C!Next
BY DEF C!Next, C!Launch

LEMMA RemovesThing ==
    ASSUME NEW t \in {"stack", "inst"}, UNCHANGED <<req.rid, Cleaning>>, Cleaning,
           Status(req.rid)[t] = "alive",
           Status(req.rid)' = [Status(req.rid) EXCEPT ![t] = "gone"]
    PROVE  C!Next
BY DEF C!Next, C!Remove

LEMMA CreationImplements ==
    ASSUME Typed, Safe, CreateStack \/ SubmissionLost
    PROVE  C!Next
<1>. DEFINE r == req.rid
<1>1. /\ lam.pc = "createStack" /\ UNCHANGED <<req, inst, cur, items, marker, active>>
      /\ creates' = [creates EXCEPT ![lam.rid] = @ + 1]
      /\ \E v \in {"creating", "requested"} : stack' = [stack EXCEPT ![lam.rid] = v]
    BY DEF CreateStack, CreateThen, SubmissionLost, At, reqVars, recordVars, controlVars
<1>2. lam.rid = r /\ r \in Cycle
    BY <1>1, BootstrapCycle DEF ProcessPc
<1>3. stack[r] = "none" /\ stack'[r] \in {"creating", "requested"}
    BY <1>1, <1>2, Submitted
<1>4. inst[r] = "none"
    BY <1>2, <1>3 DEF Safe, Cycles, CycleAt
<1>5. Status(r) = [stack |-> "none", inst |-> "none"]
    BY <1>2, <1>3, <1>4 DEF Status, Life
<1>6. Status(r)' = [stack |-> "alive", inst |-> "none"]
    BY <1>1, <1>2, <1>3, <1>4 DEF Status, Life
<1>7. UNCHANGED <<req.rid, Cleaning>>
    BY <1>1 DEF Cleaning
<1>. HIDE DEF r
<1>8. Status(r)["stack"] = "none" /\ \A u \in {"stack", "inst"} : Status(r)[u] # "gone"
    BY <1>5
<1>9. Status(r)' = [Status(r) EXCEPT !["stack"] = "alive"]
    BY <1>5, <1>6
<1>. QED BY <1>7, <1>8, <1>9, LaunchesThing DEF r

\* A thing that stays alive while it is being removed changes nothing yet.
LEMMA SameLives ==
    ASSUME UNCHANGED <<req.rid, Cleaning>>,
           req.rid \in Cycle =>
             /\ \/ stack'[req.rid] = stack[req.rid]
                \/ /\ stack[req.rid] # "none" /\ stack[req.rid] # "deleted"
                   /\ stack'[req.rid] # "none" /\ stack'[req.rid] # "deleted"
             /\ \/ inst'[req.rid] = inst[req.rid]
                \/ /\ inst[req.rid] # "none" /\ inst[req.rid] # "terminated"
                   /\ inst'[req.rid] # "none" /\ inst'[req.rid] # "terminated"
    PROVE  UNCHANGED C!vars
<1>1. Life(req.rid, stack, "deleted")' = Life(req.rid, stack, "deleted")
    BY DEF Life
<1>2. Life(req.rid, inst, "terminated")' = Life(req.rid, inst, "terminated")
    BY DEF Life
<1>3. Status(req.rid)' = Status(req.rid)
    BY <1>1, <1>2 DEF Status
<1>. QED BY <1>3 DEF C!vars

LEMMA SteadyImplements ==
    ASSUME Steady
    PROVE  C!Next \/ UNCHANGED C!vars
<1>1. CASE Cleaning' = Cleaning
    BY <1>1, SameLives DEF Steady
<1>2. CASE ~Cleaning /\ Cleaning'
    <2>1. Status(req.rid)' = Status(req.rid)
        BY DEF Steady, Status, Life
    <2>. QED BY <1>2, <2>1 DEF Steady, C!Next, C!RequestCleanup
<1>. QED BY <1>1, <1>2 DEF Steady, Cleaning

LEMMA DismantlingImplements ==
    ASSUME Typed, Safe, Terminate \/ DeleteStacks
    PROVE  UNCHANGED C!vars
<1>1. /\ stack' = stack \/ (StackExists(lam.rid) /\ stack' = [stack EXCEPT ![lam.rid] = "deleting"])
      /\ inst' = inst \/ (inst[lam.rid] = "running" /\ inst' = [inst EXCEPT ![lam.rid] = "shutting-down"])
      /\ req' = req
    BY DEF Terminate, DeleteStacks, OnlyInstance, OnlyStack, reqVars
<1>2. lam.rid = req.rid /\ lam.rid \in Cycle
    BY CleanupCycle DEF Terminate, DeleteStacks, At, CleanupPc
<1>3. /\ stack'[req.rid] = stack[req.rid] \/ (StackExists(req.rid) /\ stack'[req.rid] = "deleting")
      /\ inst'[req.rid] = inst[req.rid]
            \/ (inst[req.rid] = "running" /\ inst'[req.rid] = "shutting-down")
    BY <1>1, <1>2 DEF Typed, WorldOK, CloudOK
<1>4. UNCHANGED <<req.rid, Cleaning>>
    BY <1>1 DEF Cleaning
<1>. QED BY <1>3, <1>4, SameLives DEF StackExists

LEMMA ResetImplements ==
    ASSUME Typed, Safe, ResetCycle
    PROVE  C!Next \/ UNCHANGED C!vars
<1>w. req \in Request /\ lam.pc = "reset" /\ lam.pc \in CleanupPc /\ UNCHANGED <<stack, inst>>
    BY DEF Typed, WorldOK, RequestOK, ResetCycle, ResetTo, At, CleanupPc, cloudVars
<1>1. CASE req' = req
    BY <1>1, <1>w, SteadyImplements DEF Steady, Cleaning
<1>2. CASE req' # req
    <2>1. req' = [req EXCEPT !.rid = @ + 1, !.status = "READY", !.bootstrap = FALSE,
                    !.enabled = FALSE, !.cleanup = FALSE, !.phase = "COMPLETE", !.token = 0]
        BY <1>2 DEF ResetCycle, ResetTo
    <2>2. req'.rid = req.rid + 1 /\ req'.cleanup = FALSE /\ req'.phase = "COMPLETE"
        BY <1>w, <2>1 DEF Request
    <2>3. Cleaning /\ Cleaning' = FALSE
        BY <1>w, <2>2, CleanupCycle DEF Cleaning
    <2>4. req.rid \in Cycle /\ Empty(req.rid)
        BY <1>w, CleanupCycle DEF Safe, Places, CleanupPlaces
    <2>5. stack[req.rid] \in {"none", "deleted"} /\ inst[req.rid] \in {"none", "terminated"}
        BY <2>4 DEF Empty, StackCounts, StackExists, InstanceExists, Typed, WorldOK, CloudOK,
           StackState
    <2>6. /\ Life(req.rid, stack, "deleted") # "alive"
          /\ Life(req.rid, inst, "terminated") # "alive"
        BY <2>5 DEF Life
    <2>7. \A t \in {"stack", "inst"} : Status(req.rid)[t] # "alive"
        BY <2>6 DEF Status
    <2>8. req'.rid \in Cycle => stack'[req'.rid] = "none" /\ inst'[req'.rid] = "none"
        <3>. SUFFICES ASSUME req'.rid \in Cycle
                      PROVE  stack'[req'.rid] = "none" /\ inst'[req'.rid] = "none"
            OBVIOUS
        <3>1. req'.rid > req.rid
            BY <2>2, <2>4 DEF Cycle
        <3>2. CycleAt(req'.rid)
            BY DEF Safe, Cycles
        <3>. QED BY <1>w, <3>1, <3>2 DEF CycleAt
    <2>9. Status(req.rid)' = [stack |-> "none", inst |-> "none"]
        <3>1. Life(req.rid, stack, "deleted")' = "none" /\ Life(req.rid, inst, "terminated")' = "none"
            BY <2>8 DEF Life
        <3>. QED BY <3>1 DEF Status
    <2>10. Status(req.rid)' = C!Nothing
        BY <2>9 DEF C!Nothing
    <2>. QED BY <2>2, <2>3, <2>7, <2>10 DEF C!Next, C!NextCycle
<1>. QED BY <1>1, <1>2

LEMMA CycleStepImplements ==
    ASSUME Typed, Safe, NEW q \in Cycle, CycleStep(q)
    PROVE  C!Next \/ UNCHANGED C!vars
<1>1. req' = req /\ UNCHANGED <<req.rid, Cleaning>>
    BY DEF CycleStep, ChainLaunches, StackSettles, StackFails, InstanceTerminates, OnlyStack,
       OnlyInstance, reqVars, Cleaning
<1>. DEFINE s == Life(req.rid, stack, "deleted")
            i == Life(req.rid, inst, "terminated")
<1>2. Status(req.rid) = [stack |-> s, inst |-> i] /\ Status(req.rid)' = [stack |-> s', inst |-> i']
    BY DEF Status
<1>3. CASE ChainLaunches(q)
    <2>1. /\ stack' = stack /\ inst[q] = "none" /\ inst' = [inst EXCEPT ![q] = "running"]
          /\ marker = "chain" /\ cur.rid = q
        BY <1>3 DEF ChainLaunches, OnlyInstance
    <2>2. q = req.rid /\ stack[q] # "deleted" /\ inst'[q] = "running"
        <3>1. q = req.rid
            BY <2>1 DEF Safe, Cycles, Pointers, Cycle
        <3>2. ~Dying(q)
            BY <2>1, <3>1 DEF Safe, Cycles, CycleAt
        <3>. QED BY <2>1, <3>1, <3>2 DEF Dying, Typed, WorldOK, CloudOK
    <2>3. s # "gone" /\ s' = s /\ i = "none" /\ i' = "alive"
        BY <1>1, <2>1, <2>2 DEF Life
    <2>. HIDE DEF s, i
    <2>4. /\ Status(req.rid)["inst"] = "none"
          /\ \A u \in {"stack", "inst"} : Status(req.rid)[u] # "gone"
          /\ Status(req.rid)' = [Status(req.rid) EXCEPT !["inst"] = "alive"]
        BY <1>2, <2>3
    <2>. QED BY <1>1, <2>4, LaunchesThing
<1>4. CASE (StackSettles(q) /\ stack[q] = "deleting" /\ q = req.rid) \/ (InstanceTerminates(q) /\ q = req.rid)
    <2>1. Cleaning
        <3>1. Dying(q) /\ q = req.rid
            BY <1>4 DEF Dying, InstanceTerminates
        <3>. QED BY <3>1 DEF Safe, Cycles, CycleAt
    <2>2. CASE StackSettles(q) /\ stack[q] = "deleting" /\ q = req.rid
        <3>1. inst' = inst /\ stack'[q] = "deleted"
            BY <2>2 DEF StackSettles, OnlyStack, Typed, WorldOK, CloudOK
        <3>2. s = "alive" /\ s' = "gone" /\ i' = i
            BY <1>1, <2>2, <3>1 DEF Life
        <3>. HIDE DEF s, i
        <3>3. /\ Status(req.rid)["stack"] = "alive"
              /\ Status(req.rid)' = [Status(req.rid) EXCEPT !["stack"] = "gone"]
            BY <1>2, <3>2
        <3>. QED BY <1>1, <2>1, <3>3, RemovesThing
    <2>3. CASE InstanceTerminates(q) /\ q = req.rid
        <3>1. stack' = stack /\ inst[q] = "shutting-down" /\ inst'[q] = "terminated"
            BY <2>3 DEF InstanceTerminates, OnlyInstance, Typed, WorldOK, CloudOK
        <3>2. i = "alive" /\ i' = "gone" /\ s' = s
            BY <1>1, <2>3, <3>1 DEF Life
        <3>. HIDE DEF s, i
        <3>3. /\ Status(req.rid)["inst"] = "alive"
              /\ Status(req.rid)' = [Status(req.rid) EXCEPT !["inst"] = "gone"]
            BY <1>2, <3>2
        <3>. QED BY <1>1, <2>1, <3>3, RemovesThing
    <2>. QED BY <1>4, <2>2, <2>3
<1>5. CASE /\ ~ChainLaunches(q)
           /\ ~(StackSettles(q) /\ stack[q] = "deleting" /\ q = req.rid)
           /\ ~(InstanceTerminates(q) /\ q = req.rid)
    <2>1. CASE q # req.rid
        <3>1. req.rid \in Cycle => stack'[req.rid] = stack[req.rid] /\ inst'[req.rid] = inst[req.rid]
            BY <1>5, <2>1 DEF CycleStep, StackSettles, StackFails, InstanceTerminates, OnlyStack,
               OnlyInstance, Typed, WorldOK, CloudOK
        <3>. QED BY <1>1, <3>1, SameLives
    <2>2. CASE q = req.rid
        <3>1. /\ inst' = inst /\ stack[q] \in {"requested", "creating", "deleting"}
              /\ stack'[q] \in {"creating", "complete", "failed", "undeleted"}
            BY <1>5, <2>2 DEF CycleStep, StackSettles, StackFails, OnlyStack, Typed, WorldOK,
               CloudOK
        <3>. QED BY <1>1, <2>2, <3>1, SameLives
    <2>. QED BY <2>1, <2>2
<1>. QED BY <1>3, <1>4, <1>5

\* Every step of the controller, the chain, the cloud and the operator is a step of
\* Cycle or leaves the cycle as it is: one stack and one successor per cycle, removals
\* only under a cleanup, and the next cycle only when nothing is alive.
THEOREM ControllerImplementsCycle == Spec => ImplementsCycle
<1>1. Init => C!Init
    <2>. SUFFICES ASSUME Init PROVE C!Init
        OBVIOUS
    <2>1. req.rid = 1 /\ Cleaning = FALSE
        BY DEF Init, Prepared, Cleaning
    <2>2. Life(req.rid, stack, "deleted") = "none" /\ Life(req.rid, inst, "terminated") = "none"
        BY DEF Init, Life
    <2>3. Status(req.rid) = [stack |-> "none", inst |-> "none"]
        BY <2>2 DEF Status
    <2>4. Status(req.rid) = C!Nothing
        BY <2>3 DEF C!Nothing
    <2>. QED BY <2>1, <2>4 DEF C!Init
<1>2. Typed /\ Safe /\ [Next]_vars => [C!Next]_(C!vars)
    <2>1. ASSUME Typed, Safe, Next PROVE C!Next \/ UNCHANGED C!vars
        BY <2>1, StepKinds, SteadyImplements, CreationImplements, DismantlingImplements,
           ResetImplements, CycleStepImplements
    <2>2. ASSUME UNCHANGED vars PROVE UNCHANGED C!vars
        <3>1. UNCHANGED <<stack, inst, req>>
            BY <2>2 DEF vars, world, cloudVars, reqVars
        <3>2. UNCHANGED <<req.rid, Cleaning>>
            BY <3>1 DEF Cleaning
        <3>. QED BY <3>1, <3>2, SameLives
    <2>. QED BY <2>1, <2>2
<1>. QED BY <1>1, <1>2, SafeAlways, PTL DEF Spec, ImplementsCycle, C!Spec

-----------------------------------------------------------------------------
(* Retries: an active cleanup is armed *)

On == CleanupActive(req.rid)
Retrying == lam.pc # "idle" /\ lam.ev.kind = "retry"

\* A token is stored only while a cleanup is under way or needs attention, and the
\* deliveries of schedules, which are no records, have one.  An invocation works on the
\* cycle it began with, or has reset it.
Plain == {ev \in Event : ev.kind # "retry"}
AfterReset == {"feedback", "pause", "clearToken"} \cup SchedulePc \cup {"end"}
Tokens ==
    /\ req.token # 0 => req.phase \notin {"IDLE", "COMPLETE"}
    /\ \A ev \in fired : ev.token # 0
    /\ stream \in Seq(Plain)
    /\ Retrying => lam.ev.token # 0
Reset(l) == l.pc \in AfterReset \/ (l.pc \in {"consume", "commit"} /\ l.again)
SameCycle ==
    /\ lam.pc # "idle" =>
          req.rid = lam.beforeRid \/ (req.phase = "COMPLETE" /\ Reset(lam))
    /\ lam.pc = "attention" => lam.rid = req.rid

\* A retry that is delivered again, and one whose work has failed, is the work of a
\* fault, unless the failure ends in an operator's hands.
RetryAt ==
    Retrying /\ Matches(lam.ev) =>
        /\ lam.ev.tries > 0 => faults > 0
        /\ lam.failed /\ lam.pc # "attention" => faults > 0 /\ lam.ev.tries = 0
        /\ ~lam.failed => lam.pc \notin SchedulePc \cup {"end", "attention"}
        /\ lam.pc \notin ProcessPc \cup {"terminal"}
        /\ lam.pc = "dispatch" \/ (lam.pc \in {"consume", "commit"} /\ ~lam.again)
             => active.cmd = "CLEANUP"
Retried == RetryAt /\ \A ev \in fired : Matches(ev) /\ ev.tries > 0 => faults > 0

\* The stored token has its schedule or its delivery, or gets its schedule next; where
\* no token is stored, one will be: by the running invocation, or by another record.
Backed == NextRetry \in schedules \/ \E ev \in fired : Matches(ev)
Others == Len(stream) >= IF lam.pc = "idle" \/ lam.ev.kind = "retry" THEN 1 ELSE 2
ArmedAt ==
    /\ lam.pc = "unscheduled" => faults > 0
    /\ On /\ req.token # 0 => Backed \/ lam.pc \in {"arm", "unscheduled"}
    /\ On /\ req.token = 0 => Others \/ lam.pc \notin {"armCheck", "end", "idle"}
Quiet == ~killed /\ faults <= 1
Pending == Tokens /\ SameCycle /\ (MaxTries >= 2 /\ Quiet => Retried /\ ArmedAt)

\* What a step does to the request
Eased ==
    /\ req'.rid = req.rid /\ req'.token = req.token /\ (On' => On)
    /\ req'.phase \in {"IDLE", "COMPLETE"} => req'.phase = req.phase
Rearms(t) ==
    /\ ScheduleRetry /\ CleanupActive(lam.beforeRid) /\ t \in Token \ UsedTokens
    /\ req.token = 0 /\ req' = [req EXCEPT !.token = t]

LEMMA EasedSame ==
    ASSUME req'.rid = req.rid, req'.token = req.token, req'.cleanup = req.cleanup,
           req'.phase = req.phase
    PROVE  Eased
BY DEF Eased, On, CleanupActive

LEMMA AcceptedToken ==
    ASSUME NEW s, s.req \in Request, Accepted(s).ok
    PROVE  \/ /\ Accepted(s).req.token = 0
              /\ s.req.phase # "NEEDS_ATTENTION" => Accepted(s).req.phase = s.req.phase
           \/ /\ Accepted(s).req.token = s.req.token /\ Accepted(s).req.cleanup = s.req.cleanup
              /\ Accepted(s).req.phase = s.req.phase
<1>1. CASE s.switches = {"start"} /\ StartsBootstrap(s)
    <2>1. Accepted(s).req = [s.req EXCEPT !.bootstrap = TRUE, !.enabled = TRUE]
        BY <1>1 DEF Accepted, StartsBootstrap, EnablesChain
    <2>. QED BY <2>1 DEF Request
<1>2. CASE s.switches = {"start"} /\ ~StartsBootstrap(s) /\ EnablesChain(s)
    <2>1. Accepted(s).req = [s.req EXCEPT !.enabled = TRUE]
        BY <1>2 DEF Accepted
    <2>. QED BY <2>1 DEF Request
<1>3. CASE s.switches = {"stop"}
    <2>1. Accepted(s).req = [s.req EXCEPT !.enabled = FALSE]
        BY <1>3 DEF Accepted
    <2>. QED BY <2>1 DEF Request
<1>4. CASE s.switches = {"cleanup"}
    <2>1. /\ Accepted(s).req.token = 0
          /\ s.req.phase # "NEEDS_ATTENTION" => Accepted(s).req.phase = s.req.phase
        BY <1>4 DEF Accepted, Request
    <2>. QED BY <2>1
<1>5. CASE /\ ~(s.switches = {"start"} /\ StartsBootstrap(s))
           /\ ~(s.switches = {"start"} /\ EnablesChain(s))
           /\ s.switches # {"stop"} /\ s.switches # {"cleanup"}
    BY <1>5 DEF Accepted
<1>. QED BY <1>1, <1>2, <1>3, <1>4, <1>5

LEMMA RequestFlow ==
    ASSUME Typed, Safe, Tokens, [Next]_vars
    PROVE  \/ Eased \/ \E t \in Token : Rearms(t)
           \/ req'.token = 0 /\ (~On' \/ CommitCommand \/ ClearToken \/ BeginCleanup \/ ScriptCleanup)
<1>w. req \in Request /\ lam.snap.req \in Request
    BY DEF Typed, WorldOK, RequestOK, Invocations, Snapshots
<1>0. ASSUME req' = req PROVE Eased
    BY <1>0, EasedSame
<1>1. CASE OperatorCommand
    <2>1. CASE CommitCommand
        <3>1. req' = req \/ (/\ Accepted(lam.snap).ok /\ lam.snap.req = req
                             /\ req' = Accepted(lam.snap).req)
            BY <2>1 DEF CommitCommand, SameRecords, reqVars
        <3>2. lam.snap \in Snapshots
            BY DEF Typed, Invocations
        <3>3. CASE req' = Accepted(lam.snap).req /\ Accepted(lam.snap).ok /\ lam.snap.req = req
            BY <2>1, <1>w, <3>2, <3>3, AcceptedToken, AcceptedTyped, EasedSame
        <3>. QED BY <1>0, <3>1, <3>3
    <2>2. CASE Pause
        <3>1. req' = req \/ req' = [req EXCEPT !.bootstrap = FALSE, !.enabled = FALSE]
            BY <2>2 DEF Pause, PauseThen
        <3>. QED BY <1>w, <3>1, EasedSame DEF Request
    <2>3. CASE ReadCommand \/ Dispatch \/ Feedback
        BY <1>0, <2>3 DEF ReadCommand, Dispatch, Feedback, world, reqVars
    <2>. QED BY <1>1, <2>1, <2>2, <2>3 DEF OperatorCommand
<1>2. CASE Bootstrap
    <2>1. \/ req' = req \/ req' = [req EXCEPT !.status = "CREATING"]
          \/ req' = [req EXCEPT !.status = "SUBMITTED"]
        BY <1>2 DEF Bootstrap, Process, ClaimMarker, Recheck, CreateStack, CreateThen, RecordStack,
           Submit, ReleaseMarker, OnlyMarker, OnlyItems, world, reqVars
    <2>. QED BY <1>w, <2>1, EasedSame DEF Request
<1>3. CASE CleanupStep
    <2>1. CASE BeginCleanup
        <3>1. req' = req \/ (/\ req.phase \in {"IDLE", "COMPLETE"}
                             /\ req' = [req EXCEPT !.phase = "QUIESCING", !.enabled = FALSE,
                                   !.bootstrap = FALSE, !.listed = FALSE, !.target = req.rid])
            BY <2>1 DEF BeginCleanup
        <3>2. CASE req' # req
            BY <1>w, <2>1, <3>1, <3>2 DEF Tokens, Request
        <3>. QED BY <1>0, <3>2
    <2>2. CASE Inventory
        <3>1. lam.rid = req.rid /\ lam.pc = "inventory"
            BY <2>2, CleanupCycle DEF Inventory, At, CleanupPc
        <3>2. req' = req \/ (CleanupActive(lam.rid) /\ \E b \in BOOLEAN, ph \in {"DELETING", "VERIFYING"} :
                                req' = [req EXCEPT !.listed = b, !.phase = ph])
            <4>1. Recorded(req.rid) \in BOOLEAN
                BY DEF Recorded
            <4>. QED BY <2>2, <4>1 DEF Inventory
        <3>3. CASE req' # req
            BY <1>w, <3>1, <3>2, <3>3 DEF Eased, On, CleanupActive, Request
        <3>. QED BY <1>0, <3>3
    <2>3. CASE ResetCycle
        <3>1. req' = req \/ req' = [req EXCEPT !.rid = @ + 1, !.status = "READY",
                         !.bootstrap = FALSE, !.enabled = FALSE, !.cleanup = FALSE,
                         !.phase = "COMPLETE", !.token = 0]
            BY <2>3 DEF ResetCycle, ResetTo
        <3>2. CASE req' # req
            BY <1>w, <3>1, <3>2 DEF Request, On, CleanupActive, ActiveCleanup
        <3>. QED BY <1>0, <3>2
    <2>4. CASE Attention
        <3>1. req' = req \/ req' = [req EXCEPT !.phase = "NEEDS_ATTENTION", !.cleanup = TRUE,
                               !.enabled = FALSE, !.bootstrap = FALSE]
            BY <2>4 DEF Attention
        <3>2. CASE req' # req
            <4>1. /\ req'.rid = req.rid /\ req'.token = req.token
                  /\ req'.phase = "NEEDS_ATTENTION"
                BY <1>w, <3>1, <3>2 DEF Request
            <4>. QED BY <4>1 DEF Eased, On, CleanupActive, ActiveCleanup
        <3>. QED BY <1>0, <3>2
    <2>5. CASE SettleMarker \/ Terminate \/ DeleteStacks \/ Verify \/ EraseItem \/ ReadLiveControl
        BY <1>0, <2>5 DEF SettleMarker, Terminate, DeleteStacks, Verify, EraseItem, ReadLiveControl,
           OnlyInstance, OnlyStack, OnlyItems, world, reqVars
    <2>. QED BY <1>3, <2>1, <2>2, <2>3, <2>4, <2>5 DEF CleanupStep
<1>4. CASE Scheduling
    <2>1. CASE ClearToken
        <3>1. req' = req \/ req' = [req EXCEPT !.token = 0]
            BY <2>1 DEF ClearToken
        <3>. QED BY <2>1, <1>0, <1>w, <3>1 DEF Request
    <2>2. CASE ScheduleRetry
        <3>1. req' = req \/ \E t \in Token : Rearms(t)
            BY <2>2 DEF ScheduleRetry, Rearms
        <3>. QED BY <1>0, <3>1
    <2>3. CASE Unscheduled
        <3>1. req' = req \/ req' = [req EXCEPT !.phase = "NEEDS_ATTENTION"]
            BY <2>3 DEF Unscheduled
        <3>2. CASE req' # req
            BY <1>w, <3>1, <3>2 DEF Eased, On, CleanupActive, ActiveCleanup, Request
        <3>. QED BY <1>0, <3>2
    <2>4. CASE CreateSchedule \/ CancelReplaced \/ RequestTerminalCleanup
        BY <1>0, <2>4 DEF CreateSchedule, CreateWith, CancelReplaced, RequestTerminalCleanup,
           OnlySchedules, reqVars
    <2>. QED BY <1>4, <2>1, <2>2, <2>3, <2>4 DEF Scheduling
<1>5. CASE ScriptCleanup
    <2>1. \/ req.phase = "NEEDS_ATTENTION" /\ req'.token = 0
          \/ req.phase \in {"IDLE", "COMPLETE"} /\ req'.token = req.token
        BY <1>5, <1>w DEF ScriptCleanup, Request
    <2>. QED BY <1>5, <2>1 DEF Tokens
<1>6. CASE EndInvocation \/ Deliver \/ Faulty \/ Time
    BY <1>0, <1>6 DEF EndInvocation, Deliver, DeliverRecord, DeliverRetry, DropRetry, Invoke,
       Faulty,
       CallFails, TimesOut, SubmissionLost, Conflict, Duplicate, StackFails, OnlyInvocation,
       Time, DuePasses, TimePasses, Fire, world, reqVars
<1>7. CASE \/ (\E s \in Switch : RequestSwitch(s)) \/ SetHold \/ UNCHANGED vars
           \/ \E r \in Cycle : StackSettles(r) \/ InstanceTerminates(r) \/ Chain(r)
    BY <1>0, <1>7 DEF RequestSwitch, SetHold, StackSettles, InstanceTerminates, Chain, SeedClaims,
       ChainClaims, ChainLaunches, ChainRecords, ChainReleases, ChainEnds, OnlyStack,
       OnlyInstance, OnlyMarker, OnlyItems, vars, world, reqVars
<1>. QED BY <1>1, <1>2, <1>3, <1>4, <1>5, <1>6, <1>7 DEF Next, Invocation, Operator

-----------------------------------------------------------------------------
(* Retries: the course of an invocation *)

\* How an invocation goes on, other than by an exception or at its time limit
Walk ==
    /\ lam.pc \notin {"idle", "end"} /\ Carries /\ lam'.failed = lam.failed
    /\ lam'.pc \notin {"idle", "terminal", "attention", "unscheduled"}
    /\ lam'.pc \in ProcessPc =>
          lam.pc \in ProcessPc \/ (lam.pc = "dispatch" /\ active.cmd = "START")
    /\ lam'.pc \in {"consume", "commit"} =>
          lam'.again \/ (lam.pc \in {"consume", "commit"} /\ ~lam.again)
    /\ lam'.pc = "dispatch" => lam.pc \in {"consume", "commit"} /\ ~lam.again
    /\ lam'.pc = "finish" =>
          lam.ev.kind # "retry" \/ lam.failed \/ lam.pc \in {"attention", "clearToken", "terminal"}
    /\ lam'.pc \in {"arm", "armCheck", "end"} => lam.pc \in SchedulePc
    /\ Reset(lam) => Reset(lam')

LEMMA Returned ==
    /\ Return \in {"clearToken", "finish"} /\ (Return = "finish" => lam.ev.kind # "retry")
BY DEF Return

LEMMA WalkTo ==
    ASSUME Typed, NEW p \in Pc, NEW b \in BOOLEAN,
           \/ lam' = [lam EXCEPT !.pc = p]
           \/ lam' = [lam EXCEPT !.pc = p, !.done = b]
           \/ lam' = [lam EXCEPT !.pc = p, !.left = b]
           \/ lam' = [lam EXCEPT !.pc = p, !.snap = NoSnap]
           \/ lam' = [lam EXCEPT !.pc = p, !.snap = Snap]
    PROVE  /\ Carries /\ lam'.failed = lam.failed /\ lam'.pc = p /\ lam'.again = lam.again
<1>1. NoSnap \in Snapshots
    BY LimitAssumption, MaxCycleAssumption DEF NoSnap, Snapshots, NoCommand, Command, Prepared,
       Request, Uninitialized, Current, CleanupStatus, ActiveCleanup
<1>2. Snap \in Snapshots /\ lam \in Invocations
    BY SnapTyped DEF Typed, WorldOK
<1>. QED BY <1>1, <1>2 DEF Carries, Invocations

LEMMA CommandWalks ==
    ASSUME Typed, OperatorCommand
    PROVE  Walk
<1>. USE DEF At, Goto
<1>w. lam \in Invocations /\ active \in Command /\ req \in Request
    BY DEF Typed, WorldOK, ControlOK, RequestOK
<1>l. {"commit", "feedback", "dispatch", "finish", "clearToken"} \subseteq Pc
    BY Labels
<1>1. CASE ReadCommand \/ CommitCommand
    <2>1. PICK p \in {"commit", "feedback", "dispatch"} :
            /\ lam.pc \in {"consume", "commit"}
            /\ lam' = [lam EXCEPT !.pc = p, !.snap = NoSnap] \/ lam' = [lam EXCEPT !.pc = p, !.snap = Snap]
            /\ lam.again => p # "dispatch"
        BY <1>1 DEF ReadCommand, CommitCommand, AfterConsume
    <2>2. Carries /\ lam'.failed = lam.failed /\ lam'.pc = p /\ lam'.again = lam.again
        BY <1>l, <2>1, WalkTo
    <2>. QED BY <2>1, <2>2 DEF Walk, ProcessPc, SchedulePc, AfterReset, Reset
<1>2. CASE Dispatch
    <2>1. lam.pc = "dispatch"
        BY <1>2 DEF Dispatch
    <2>2. CASE switches # {} \/ active = NoCommand
        <3>1. lam' = [lam EXCEPT !.pc = Return]
            BY <1>2, <2>2 DEF Dispatch
        <3>2. Carries /\ lam'.failed = lam.failed /\ lam'.pc = Return /\ lam'.again = lam.again
            BY <1>l, <3>1, Returned, WalkTo
        <3>. QED BY <2>1, <3>2, Returned DEF Walk, ProcessPc, SchedulePc, AfterReset, Reset
    <2>3. CASE ~(switches # {} \/ active = NoCommand)
        <3>1. \E p \in {"consume", "feedback", "process", "cleanup"}, a, d \in BOOLEAN :
                /\ lam' = [lam EXCEPT !.pc = p, !.cmd = active, !.rid = req.rid, !.again = a, !.done = d]
                /\ p = "consume" => a
                /\ p = "process" => active.cmd = "START"
            <4>. DEFINE go(p) == [lam EXCEPT !.pc = p, !.cmd = active, !.rid = req.rid]
                        to(p, b, d) == [lam EXCEPT !.pc = p, !.cmd = active, !.rid = req.rid,
                                                   !.again = b, !.done = d]
            <4>1. lam.again \in BOOLEAN /\ lam.done \in BOOLEAN
                BY <1>w DEF Invocations
            <4>2. \A p \in {"feedback", "process", "cleanup", "consume"} :
                                    /\ go(p) = to(p, lam.again, lam.done)
                                    /\ [go(p) EXCEPT !.again = TRUE, !.done = TRUE] = to(p, TRUE, TRUE)
                                    /\ [go(p) EXCEPT !.done = TRUE] = to(p, lam.again, TRUE)
                BY <1>w DEF Invocations
            <4>3. \/ lam' = [go("consume") EXCEPT !.again = TRUE, !.done = TRUE]
                  \/ lam' = [go("feedback") EXCEPT !.done = TRUE]
                  \/ lam' = go("process") /\ active.cmd = "START"
                  \/ lam' = go("cleanup")
                BY <1>2, <2>3 DEF Dispatch
            <4>. HIDE DEF go
            <4>4. \/ lam' = to("consume", TRUE, TRUE)
                  \/ lam' = to("feedback", lam.again, TRUE)
                  \/ lam' = to("process", lam.again, lam.done) /\ active.cmd = "START"
                  \/ lam' = to("cleanup", lam.again, lam.done)
                BY <4>2, <4>3
            <4>. QED BY <4>1, <4>4
        <3>2. PICK p \in {"consume", "feedback", "process", "cleanup"}, a, d \in BOOLEAN :
                /\ lam' = [lam EXCEPT !.pc = p, !.cmd = active, !.rid = req.rid, !.again = a, !.done = d]
                /\ p = "consume" => a
                /\ p = "process" => active.cmd = "START"
            BY <3>1
        <3>3. p \in Pc /\ req.rid \in 0..(MaxCycle + 1)
            BY <1>w, Labels, MaxCycleAssumption DEF Request
        <3>4. Carries /\ lam'.failed = lam.failed /\ lam'.pc = p /\ lam'.again = a
            BY <1>w, <3>2, <3>3 DEF Carries, Invocations
        <3>. QED BY <2>1, <3>2, <3>4 DEF Walk, ProcessPc, SchedulePc, AfterReset, Reset
    <2>. QED BY <2>2, <2>3
<1>3. CASE Feedback
    <2>1. PICK p \in {"finish", "clearToken"} :
            /\ lam.pc = "feedback" /\ lam' = [lam EXCEPT !.pc = p]
            /\ p = "finish" => lam.failed \/ lam.ev.kind # "retry"
        BY <1>3, Returned DEF Feedback
    <2>2. Carries /\ lam'.failed = lam.failed /\ lam'.pc = p /\ lam'.again = lam.again
        BY <1>l, <2>1, WalkTo
    <2>. QED BY <2>1, <2>2 DEF Walk, ProcessPc, SchedulePc, AfterReset, Reset
<1>4. CASE Pause
    <2>1. lam.pc = "pause" /\ \E b \in BOOLEAN : lam' = [lam EXCEPT !.pc = "feedback", !.done = b]
        BY <1>4 DEF Pause, PauseThen, Bookkeeping
    <2>2. Carries /\ lam'.failed = lam.failed /\ lam'.pc = "feedback" /\ lam'.again = lam.again
        BY <1>l, <2>1, WalkTo
    <2>. QED BY <2>1, <2>2 DEF Walk, ProcessPc, SchedulePc, AfterReset, Reset
<1>. QED BY <1>1, <1>2, <1>3, <1>4 DEF OperatorCommand

LEMMA LeavesWalk ==
    ASSUME Typed, lam.pc \in ProcessPc \cup CleanupPc \cup {"cleanup"},
           \/ lam' = LeaveProcess /\ lam.pc \in ProcessPc
           \/ lam' = LeaveCleanup \/ lam' = [LeaveCleanup EXCEPT !.snap = NoSnap]
    PROVE  Walk /\ Reset(lam')
<1>w. lam \in Invocations
    BY DEF Typed
<1>1. PICK p \in {"feedback", "consume", "clearToken", "finish"} :
        /\ p = "finish" => lam.ev.kind # "retry"
        /\ \/ lam' = [lam EXCEPT !.pc = p, !.done = TRUE] /\ p # "consume"
           \/ lam' = [lam EXCEPT !.pc = p, !.again = TRUE]
           \/ lam' = [lam EXCEPT !.pc = p, !.again = TRUE, !.snap = NoSnap]
    BY Returned DEF LeaveProcess, LeaveCleanup
<1>2. /\ Carries /\ lam'.failed = lam.failed /\ lam'.pc = p /\ (p = "consume" => lam'.again)
    <2>1. NoSnap \in Snapshots
        BY LimitAssumption, MaxCycleAssumption DEF NoSnap, Snapshots, NoCommand, Command, Prepared,
           Request, Uninitialized, Current, CleanupStatus, ActiveCleanup
    <2>2. p \in Pc
        BY Labels
    <2>3. CASE lam' = [lam EXCEPT !.pc = p, !.done = TRUE] /\ p # "consume"
        BY <1>w, <2>2, <2>3 DEF Carries, Invocations
    <2>4. CASE lam' = [lam EXCEPT !.pc = p, !.again = TRUE]
        BY <1>w, <2>2, <2>4 DEF Carries, Invocations
    <2>5. CASE lam' = [lam EXCEPT !.pc = p, !.again = TRUE, !.snap = NoSnap]
        BY <1>w, <2>1, <2>2, <2>5 DEF Carries, Invocations
    <2>. QED BY <1>1, <2>3, <2>4, <2>5
<1>. QED BY <1>1, <1>2 DEF Walk, ProcessPc, CleanupPc, SchedulePc, AfterReset, Reset

LEMMA PlacesWalk ==
    ASSUME Typed, NEW p \in ProcessPc \cup CleanupPc, NEW b \in BOOLEAN,
           \/ lam.pc \in ProcessPc /\ p \in ProcessPc
           \/ lam.pc \in CleanupPc \cup {"cleanup"} /\ p \in CleanupPc,
           \/ Goto(p) \/ lam' = [lam EXCEPT !.pc = p, !.left = b]
           \/ lam' = [lam EXCEPT !.pc = p, !.snap = Snap]
           \/ lam' = [lam EXCEPT !.pc = p, !.snap.switches = switches, !.snap.active = active]
    PROVE  Walk
<1>w. lam \in Invocations /\ switches \in SUBSET Switch /\ active \in Command
    BY DEF Typed, WorldOK, ControlOK
<1>p. p \in Pc
    BY DEF Pc
<1>1. Carries /\ lam'.failed = lam.failed /\ lam'.pc = p
    <2>1. CASE lam' = [lam EXCEPT !.pc = p, !.snap.switches = switches, !.snap.active = active]
        <3>1. lam' = [lam EXCEPT !.pc = p, !.snap = [lam.snap EXCEPT !.switches = switches, !.active = active]]
            BY <1>w, <2>1 DEF Invocations
        <3>2. [lam.snap EXCEPT !.switches = switches, !.active = active] \in Snapshots
            BY <1>w DEF Invocations, Snapshots
        <3>. QED BY <1>w, <1>p, <3>1, <3>2 DEF Carries, Invocations
    <2>2. CASE lam' # [lam EXCEPT !.pc = p, !.snap.switches = switches, !.snap.active = active]
        BY <1>p, <2>2, WalkTo DEF Goto
    <2>. QED BY <2>1, <2>2
<1>. QED BY <1>1 DEF Walk, ProcessPc, CleanupPc, SchedulePc, AfterReset, Reset

LEMMA BootstrapWalks ==
    ASSUME Typed, Bootstrap
    PROVE  lam.pc \in ProcessPc /\ (Raise \/ Walk)
<1>1. lam.pc \in ProcessPc
    BY DEF Bootstrap, Process, ClaimMarker, Recheck, CreateStack, CreateThen, RecordStack, Submit,
       ReleaseMarker, ProcessPc, At
<1>2. Raise \/ lam' = LeaveProcess \/ \E p \in ProcessPc : Goto(p)
    BY DEF Bootstrap, Process, ClaimMarker, Recheck, CreateStack, CreateThen, RecordStack, Submit,
       ReleaseMarker, ProcessPc
<1>. QED BY <1>1, <1>2, LeavesWalk, PlacesWalk

LEMMA CleanupWalks ==
    ASSUME Typed, CleanupStep, ~Attention
    PROVE  \/ lam.pc \in CleanupPc /\ Raise
           \/ lam.pc \in CleanupPc \cup {"cleanup"} /\ Walk /\ (Reset(lam') \/ lam'.pc \in CleanupPc)
<1>1. \/ lam.pc \in CleanupPc /\ Raise
      \/ /\ lam.pc \in CleanupPc \cup {"cleanup"}
         /\ \/ lam' = LeaveCleanup \/ lam' = [LeaveCleanup EXCEPT !.snap = NoSnap]
            \/ \E p \in CleanupPc, b \in BOOLEAN :
                  \/ Goto(p) \/ lam' = [lam EXCEPT !.pc = p, !.left = b]
                  \/ lam' = [lam EXCEPT !.pc = p, !.snap = Snap]
                  \/ lam' = [lam EXCEPT !.pc = p, !.snap.switches = switches, !.snap.active = active]
    <2>1. CASE BeginCleanup \/ SettleMarker
        BY <2>1 DEF BeginCleanup, SettleMarker, CleanupPc, At
    <2>2. CASE Inventory
        BY <2>2 DEF Inventory, CleanupPc, At
    <2>3. CASE Terminate
        <3>1. (Recorded(lam.rid) /\ inst[lam.rid] # "terminated") \in BOOLEAN
            OBVIOUS
        <3>. QED BY <2>3, <3>1 DEF Terminate, CleanupPc, At
    <2>4. CASE DeleteStacks
        BY <2>4 DEF DeleteStacks, CleanupPc, At
    <2>5. CASE Verify \/ EraseItem
        <3>1. EraseItem => UNCHANGED lam \/ Raise \/ Goto("live")
            BY DEF EraseItem
        <3>2. UNCHANGED lam /\ EraseItem => Goto("erase")
            BY DEF EraseItem, At, Goto, Typed, Invocations
        <3>. QED BY <2>5, <3>1, <3>2 DEF Verify, EraseItem, CleanupPc, At
    <2>6. CASE ReadLiveControl
        BY <2>6 DEF ReadLiveControl, CleanupPc, At
    <2>7. CASE ResetCycle
        BY <2>7 DEF ResetCycle, ResetTo, CleanupPc, At
    <2>. QED BY <2>1, <2>2, <2>3, <2>4, <2>5, <2>6, <2>7 DEF CleanupStep
<1>2. ASSUME NEW p \in CleanupPc, NEW b \in BOOLEAN,
             \/ Goto(p) \/ lam' = [lam EXCEPT !.pc = p, !.left = b]
             \/ lam' = [lam EXCEPT !.pc = p, !.snap = Snap]
             \/ lam' = [lam EXCEPT !.pc = p, !.snap.switches = switches, !.snap.active = active]
      PROVE  lam'.pc = p
    BY <1>2 DEF Goto, Typed, Invocations
<1>. QED BY <1>1, <1>2, LeavesWalk, PlacesWalk

LEMMA ScheduleWalks ==
    ASSUME Typed, Scheduling \/ Attention
    PROVE  Walk
<1>1. PICK p \in {"finish", "arm", "armCheck", "end"} :
        /\ Goto(p)
        /\ \/ lam.pc \in {"attention", "clearToken", "terminal"} /\ p = "finish"
           \/ lam.pc \in SchedulePc /\ p # "finish"
    BY DEF Scheduling, Attention, ClearToken, ScheduleRetry, CreateSchedule, CreateWith,
       CancelReplaced, Unscheduled, RequestTerminalCleanup, At, SchedulePc
<1>2. /\ Carries /\ lam'.failed = lam.failed /\ lam'.pc = p /\ lam'.again = lam.again
    BY <1>1, Labels, WalkTo DEF Goto
<1>. QED BY <1>1, <1>2 DEF Walk, ProcessPc, SchedulePc, AfterReset, Reset

LEMMA ConflictWalks ==
    ASSUME Typed, Conflict
    PROVE  Walk
<1>1. PICK p \in {"feedback", "dispatch", "finish", "clearToken"} :
        /\ \/ lam' = [lam EXCEPT !.pc = p] \/ lam' = [lam EXCEPT !.pc = p, !.done = TRUE]
           \/ lam' = [lam EXCEPT !.pc = p, !.snap = NoSnap]
        /\ \/ lam.pc = "commit" /\ p \in {"feedback", "dispatch"} /\ (lam.again => p # "dispatch")
           \/ /\ lam.pc = "feedback" /\ p \in {"finish", "clearToken"}
              /\ p = "finish" => lam.failed \/ lam.ev.kind # "retry"
           \/ lam.pc = "pause" /\ p = "feedback"
           \/ lam.pc = "terminal" /\ p = "finish"
    BY Returned DEF Conflict, At, Goto, AfterConsume
<1>2. /\ Carries /\ lam'.failed = lam.failed /\ lam'.pc = p /\ lam'.again = lam.again
    BY <1>1, Labels, WalkTo
<1>. QED BY <1>1, <1>2 DEF Walk, ProcessPc, SchedulePc, AfterReset, Reset

\* A bootstrap or a cleanup raises, or a call fails.
Throws == Raise /\ (lam.pc \in ProcessPc \cup CleanupPc \/ faults' = faults + 1)

\* Every step of an invocation is of one of these kinds.
LEMMA LamFlow ==
    ASSUME Typed, [Next]_vars
    PROVE  \/ lam' = lam
           \/ \E i \in DOMAIN stream : DeliverRecord(i)
           \/ \E ev \in fired : DeliverRetry(ev)
           \/ EndInvocation \/ Duplicate
           \/ lam.pc \notin {"idle", "end"} /\ (Throws \/ Killed)
           \/ Walk
<1>1. CASE OperatorCommand
    BY <1>1, CommandWalks
<1>2. CASE Bootstrap
    BY <1>2, BootstrapWalks DEF ProcessPc, Throws
<1>3. CASE CleanupStep
    BY <1>3, CleanupWalks, ScheduleWalks DEF CleanupPc, Throws
<1>4. CASE Scheduling
    BY <1>4, ScheduleWalks
<1>5. CASE Faulty
    <2>1. CASE CallFails \/ TimesOut \/ SubmissionLost
        BY <2>1 DEF CallFails, TimesOut, SubmissionLost, Running, At, Fault, Throws
    <2>2. CASE \E r \in Cycle : StackFails(r)
        BY <2>2 DEF StackFails
    <2>. QED BY <1>5, <2>1, <2>2, ConflictWalks DEF Faulty
<1>6. CASE Deliver
    BY <1>6 DEF Deliver, DropRetry
<1>7. CASE Operator \/ Time \/ UNCHANGED vars
    BY <1>7 DEF Operator, RequestSwitch, SetHold, ScriptCleanup, Time, DuePasses, TimePasses,
       Fire, vars
<1>8. CASE \E r \in Cycle : StackSettles(r) \/ InstanceTerminates(r) \/ Chain(r)
    BY <1>8 DEF StackSettles, InstanceTerminates, Chain, SeedClaims, ChainClaims, ChainLaunches,
       ChainRecords, ChainReleases, ChainEnds
<1>. QED BY <1>1, <1>2, <1>3, <1>4, <1>5, <1>6, <1>7, <1>8 DEF Next, Invocation

LEMMA Invoked ==
    ASSUME Typed, NEW ev \in Event, Invoke(ev)
    PROVE  /\ lam'.pc = FirstStep(ev) /\ lam'.ev = ev /\ lam'.beforeRid = req.rid
           /\ lam'.pc \in {"consume", "process", "cleanup", "terminal"}
           /\ lam'.failed = FALSE /\ lam'.again = FALSE
           /\ lam.pc = "idle" /\ UNCHANGED world
BY DEF Invoke, Idle, FirstStep, At

-----------------------------------------------------------------------------
(* Retries: the history, the queues and the schedules *)

\* What becomes of the history, the queues and the schedules
LEMMA HistoryFlow ==
    ASSUME Typed, [Next]_vars
    PROVE  /\ faults \in Nat /\ faults' \in Nat /\ faults' >= faults /\ (killed => killed')
<1>1. faults \in Nat
    BY LimitAssumption DEF Typed, WorldOK, HistoryOK
<1>2. CASE Faulty
    <2>1. (\E k : Fault(k)) /\ (killed' = killed \/ killed')
        BY <1>2 DEF Faulty, CallFails, TimesOut, SubmissionLost, Conflict, Duplicate, StackFails,
           Killed
    <2>. QED BY <1>1, <2>1 DEF Fault
<1>3. CASE OperatorCommand \/ Bootstrap
    <2>1. faults' = faults /\ killed' = killed
      BY <1>3 DEF OperatorCommand, ReadCommand, CommitCommand, Dispatch, Feedback, Pause, PauseThen,
       Bootstrap, Process, ClaimMarker, Recheck, CreateStack, CreateThen, RecordStack, Submit,
       ReleaseMarker, OnlyRequest, OnlyMarker, OnlyItems, world, historyVars
    <2>. QED BY <1>1, <2>1
<1>4. CASE CleanupStep
    BY <1>1, <1>4 DEF CleanupStep, BeginCleanup, SettleMarker, Inventory, Terminate, DeleteStacks,
       Verify, EraseItem, ReadLiveControl, ResetCycle, ResetTo, Attention, OnlyRequest,
       OnlyInstance, OnlyStack, OnlyItems, world, historyVars
<1>5. CASE Scheduling \/ EndInvocation
    BY <1>1, <1>5 DEF Scheduling, ClearToken, ScheduleRetry, CreateSchedule, CreateWith,
       CancelReplaced, Unscheduled, RequestTerminalCleanup, EndInvocation, OnlySchedules,
       OnlyRequest, historyVars
<1>6. CASE Deliver \/ Operator \/ Time \/ UNCHANGED vars
    <2>1. faults' = faults /\ killed' = killed
      BY <1>6 DEF Deliver, DeliverRecord, DeliverRetry, DropRetry, Invoke, Operator,
       RequestSwitch,
       SetHold, ScriptCleanup, Time, DuePasses, TimePasses, Fire, vars, world, historyVars
    <2>. QED BY <1>1, <2>1
<1>7. CASE \E r \in Cycle : StackSettles(r) \/ InstanceTerminates(r) \/ Chain(r)
    BY <1>1, <1>7 DEF StackSettles, InstanceTerminates, Chain, SeedClaims, ChainClaims,
       ChainLaunches,
       ChainRecords, ChainReleases, ChainEnds, OnlyStack, OnlyInstance, OnlyMarker, OnlyItems,
       historyVars
<1>. QED BY <1>1, <1>2, <1>3, <1>4, <1>5, <1>6, <1>7 DEF Next, Invocation

LEMMA PlainRecord ==
    ASSUME NEW k \in EventKind \ {"retry"}, NEW r \in 0..(MaxCycle + 1)
    PROVE  Record(k, r) \in Plain
BY RecordTyped DEF Plain

LEMMA PlainTriggered ==
    ASSUME NEW old \in Request, NEW new \in Request
    PROVE  Triggered(old, new) \in Seq(Plain)
<1>1. Record("bootstrap", new.rid) \in Plain /\ Record("cleanup", new.rid) \in Plain
    BY PlainRecord, MaxCycleAssumption DEF EventKind, Request
<1>. QED BY <1>1 DEF Triggered

LEMMA PlainSequenced ==
    ASSUME NEW q \in Seq(Plain)
    PROVE  Sequenced(q) \in Seq(Plain)
<1>1. Len(q) \in Nat /\ DOMAIN q = 1..Len(q) /\ \A i \in 1..Len(q) : q[i] \in Plain
    BY LenProperties
<1>2. \A i \in 1..Len(q) : Sequenced(q)[i] \in Plain
    BY <1>1 DEF Sequenced, Plain, Event
<1>3. Sequenced(q) \in [1..Len(q) -> Plain]
    BY <1>1, <1>2 DEF Sequenced
<1>. QED BY <1>1, <1>3, SeqDef

LEMMA Joined ==
    ASSUME NEW q \in Seq(Plain), NEW t \in Seq(Plain)
    PROVE  /\ q \o t \in Seq(Plain) /\ Len(q) \in Nat /\ Len(t) \in Nat
           /\ Len(q \o t) \in Nat /\ Len(q \o t) = Len(q) + Len(t) /\ Len(q \o t) >= Len(q)
<1>1. q \o t \in Seq(Plain) /\ Len(q \o t) = Len(q) + Len(t)
    BY ConcatProperties
<1>2. Len(q) \in Nat /\ Len(t) \in Nat
    BY LenProperties
<1>. QED BY <1>1, <1>2

\* What the end of an invocation does to the queues
LEMMA Settling ==
    ASSUME Typed, Tokens, lam.pc = "end", NEW b \in BOOLEAN, Settle(b)
    PROVE  /\ stream' \in Seq(Plain)
           /\ Len(stream') >= Len(stream) - (IF lam.ev.kind = "retry" THEN 0 ELSE 1)
           /\ \A ev \in fired' : \/ ev \in fired
                                 \/ /\ b /\ lam.ev.kind = "retry"
                                    /\ ev = [lam.ev EXCEPT !.tries = @ + 1]
           /\ \A ev \in fired : ev \in fired' \/ (lam.ev.kind = "retry" /\ ev = lam.ev)
           /\ lam.ev.kind = "retry" /\ b /\ lam.ev.tries + 1 < MaxTries =>
                 [lam.ev EXCEPT !.tries = @ + 1] \in fired'
<1>0. stream \in Seq(Plain) /\ DOMAIN stream = 1..Len(stream) /\ Len(stream) \in Nat
    BY LenProperties DEF Tokens
<1>1. CASE lam.ev.kind = "retry"
    <2>1. stream' = stream
        BY <1>1 DEF Settle
    <2>2. fired' = (fired \ {lam.ev}) \cup (IF b /\ lam.ev.tries + 1 < MaxTries
                           THEN {[lam.ev EXCEPT !.tries = @ + 1]} ELSE {})
        BY <1>1 DEF Settle
    <2>. QED BY <1>0, <1>1, <2>1, <2>2
<1>2. CASE lam.ev.kind # "retry"
    <2>1. PICK i \in DOMAIN stream : /\ FirstOfItem(i) /\ Item(stream[i]) = Item(lam.ev)
                                     /\ stream[i].tries = lam.ev.tries
        BY <1>2 DEF Typed, Course, Queued
    <2>2. Position(lam.ev) = i
        BY <2>1, PositionKnown DEF Typed, WorldOK, EventsOK
    <2>3. fired' = fired
        BY <1>2 DEF Settle
    <2>4. CASE b /\ lam.ev.tries + 1 < MaxTries
        <3>1. stream' = [stream EXCEPT ![i].tries = @ + 1]
            BY <1>2, <2>2, <2>4 DEF Settle
        <3>2. stream[i] \in Plain /\ i \in 1..Len(stream) /\ lam.ev.tries \in 0..MaxTries
            BY <1>0, <2>1, ElementOfSeq DEF Typed, Invocations, Event
        <3>3. [stream[i] EXCEPT !.tries = @ + 1] \in Plain
            BY <2>1, <2>4, <3>2, LimitAssumption DEF Event, Plain
        <3>4. stream' = [stream EXCEPT ![i] = [stream[i] EXCEPT !.tries = @ + 1]]
            BY <3>1, <3>2
        <3>5. stream' \in Seq(Plain) /\ Len(stream') = Len(stream)
            BY <1>0, <3>2, <3>3, <3>4, ExceptSeq
        <3>. QED BY <1>0, <1>2, <2>3, <3>5
    <2>5. CASE ~(b /\ lam.ev.tries + 1 < MaxTries)
        <3>1. stream' = SubSeq(stream, 1, i - 1) \o SubSeq(stream, i + 1, Len(stream))
            BY <1>2, <2>2, <2>5 DEF Settle, Remove
        <3>2. /\ SubSeq(stream, 1, i - 1) \in Seq(Plain) /\ Len(SubSeq(stream, 1, i - 1)) = i - 1
            BY <1>0, <2>1, SubSeqProperties
        <3>3. /\ SubSeq(stream, i + 1, Len(stream)) \in Seq(Plain)
              /\ Len(SubSeq(stream, i + 1, Len(stream))) = Len(stream) - i
            BY <1>0, <2>1, SubSeqProperties
        <3>. DEFINE q == SubSeq(stream, 1, i - 1)
                    t == SubSeq(stream, i + 1, Len(stream))
        <3>4. stream' \in Seq(Plain) /\ Len(stream') = Len(q) + Len(t)
            <4>. HIDE DEF q, t
            <4>1. q \in Seq(Plain) /\ t \in Seq(Plain) /\ stream' = q \o t
                BY <3>1, <3>2, <3>3 DEF q, t
            <4>. QED BY <4>1, Joined
        <3>5. Len(stream') = Len(stream) - 1
            <4>. HIDE DEF q, t
            <4>1. Len(q) = i - 1 /\ Len(t) = Len(stream) - i /\ i \in Nat
                BY <1>0, <2>1, <3>2, <3>3 DEF q, t
            <4>. QED BY <1>0, <3>4, <4>1
        <3>. QED BY <1>0, <1>2, <2>3, <2>5, <3>4, <3>5
    <2>. QED BY <2>4, <2>5
<1>. QED BY <1>1, <1>2

LEMMA EndSettles ==
    ASSUME Typed, EndInvocation \/ Duplicate
    PROVE  /\ lam.pc = "end" /\ lam' = Idle /\ req' = req /\ schedules' = schedules
           /\ \E b \in BOOLEAN : Settle(b) /\ (lam.failed => b)
           /\ Duplicate => faults' = faults + 1
           /\ EndInvocation => faults' = faults /\ Settle(lam.failed)
BY DEF EndInvocation, Duplicate, At, Fault, Typed, Invocations, reqVars, historyVars

\* What becomes of the stream
LEMMA StreamGrows ==
    ASSUME Typed, Tokens, [Next]_vars
    PROVE  stream' \in Seq(Plain) /\ (Len(stream') >= Len(stream) \/ EndInvocation \/ Duplicate)
<1>0. stream \in Seq(Plain) /\ Len(stream) \in Nat
    BY LenProperties DEF Tokens
<1>1. ASSUME stream' = stream PROVE stream' \in Seq(Plain) /\ Len(stream') >= Len(stream)
    BY <1>0, <1>1
<1>2. ASSUME NEW e \in Plain, stream' = Append(stream, e)
      PROVE  stream' \in Seq(Plain) /\ Len(stream') >= Len(stream)
    BY <1>0, <1>2, AppendProperties
<1>3. Record("control", 0) \in Plain
    BY PlainRecord, MaxCycleAssumption DEF EventKind
<1>4. CASE OperatorCommand
    <2>1. CASE CommitCommand
        <3>1. CASE stream' = stream
            BY <1>1, <3>1
        <3>2. CASE stream' # stream
            <4>1. PICK b \in BOOLEAN : stream' = Sequenced(stream) \o <<Record("control", 0)>>
                             \o (IF b THEN Triggered(req, req') ELSE <<>>)
                <5>1. Accepted(lam.snap).ok \in BOOLEAN
                    BY DEF Accepted
                <5>. QED BY <2>1, <3>2, <5>1 DEF CommitCommand
            <4>2. req \in Request /\ req' \in Request
                BY <2>1, CommitType DEF Typed, WorldOK, RequestOK
            <4>3. Sequenced(stream) \in Seq(Plain) /\ Len(Sequenced(stream)) = Len(stream)
                BY <1>0, PlainSequenced, SequencedTyped DEF Typed, WorldOK, EventsOK
            <4>. DEFINE q == Sequenced(stream)
                        r == <<Record("control", 0)>>
                        t == IF b THEN Triggered(req, req') ELSE <<>>
            <4>4. r \in Seq(Plain) /\ Len(r) = 1
                BY <1>3
            <4>5. t \in Seq(Plain) /\ Len(t) \in Nat
                BY <4>2, PlainTriggered, LenProperties
            <4>. HIDE DEF q, r, t
            <4>6. q \in Seq(Plain) /\ Len(q) = Len(stream) /\ stream' = (q \o r) \o t
                BY <4>1, <4>3 DEF q, r, t
            <4>7. (q \o r) \in Seq(Plain) /\ Len(q \o r) \in Nat /\ Len(q \o r) >= Len(q)
                BY <4>4, <4>6, Joined
            <4>8. stream' \in Seq(Plain) /\ Len(stream') \in Nat /\ Len(stream') >= Len(q \o r)
                BY <4>5, <4>6, <4>7, Joined
            <4>. QED BY <1>0, <4>6, <4>7, <4>8
        <3>. QED BY <3>1, <3>2
    <2>2. CASE ReadCommand \/ Dispatch \/ Feedback \/ Pause
        BY <1>1, <2>2 DEF ReadCommand, Dispatch, Feedback, Pause, PauseThen, OnlyRequest, world,
           eventVars
    <2>. QED BY <1>4, <2>1, <2>2 DEF OperatorCommand
<1>5. CASE Bootstrap
    BY <1>1, <1>5 DEF Bootstrap, Process, ClaimMarker, Recheck, CreateStack, CreateThen,
       RecordStack,
       Submit, ReleaseMarker, OnlyRequest, OnlyMarker, OnlyItems, world, eventVars
<1>6. CASE CleanupStep
    BY <1>1, <1>6 DEF CleanupStep, BeginCleanup, SettleMarker, Inventory, Terminate, DeleteStacks,
       Verify, EraseItem, ReadLiveControl, ResetCycle, ResetTo, Attention, OnlyRequest,
       OnlyInstance, OnlyStack, OnlyItems, world, eventVars
<1>7. CASE Scheduling
    <2>1. stream' = stream \/ stream' = Append(stream, Record("control", 0))
        BY <1>7 DEF Scheduling, ClearToken, ScheduleRetry, CreateSchedule, CreateWith,
           CancelReplaced, Unscheduled, RequestTerminalCleanup, OnlySchedules, OnlyRequest,
           eventVars
    <2>. QED BY <1>1, <1>2, <1>3, <2>1
<1>8. CASE EndInvocation \/ Duplicate
    BY <1>8, EndSettles, Settling
<1>9. CASE Operator
    <2>1. CASE ScriptCleanup
        <3>1. stream' = stream \o Triggered(req, req')
            BY <2>1 DEF ScriptCleanup
        <3>2. req \in Request /\ req' \in Request
            BY <1>9, OperatorType DEF Typed, WorldOK, RequestOK
        <3>. QED BY <1>0, <3>1, <3>2, PlainTriggered, Joined
    <2>2. CASE ~ScriptCleanup
        BY <1>1, <1>2, <1>3, <1>9, <2>2 DEF Operator, RequestSwitch, SetHold, eventVars
    <2>. QED BY <2>1, <2>2
<1>10. CASE \E r \in Cycle : StackSettles(r) \/ InstanceTerminates(r) \/ Chain(r)
    <2>1. PICK r \in Cycle : StackSettles(r) \/ InstanceTerminates(r) \/ Chain(r)
        BY <1>10
    <2>2. Record("terminal", r) \in Plain
        BY PlainRecord, MaxCycleAssumption DEF EventKind, Cycle
    <2>3. stream' = stream \/ stream' = Append(stream, Record("terminal", r))
        BY <2>1 DEF StackSettles, InstanceTerminates, Chain, SeedClaims, ChainClaims, ChainLaunches,
           ChainRecords, ChainReleases, ChainEnds, OnlyStack, OnlyInstance, OnlyMarker, OnlyItems,
           eventVars
    <2>. QED BY <1>1, <1>2, <2>2, <2>3
<1>11. CASE Deliver \/ Time \/ UNCHANGED vars \/ (Faulty /\ ~Duplicate)
    BY <1>1, <1>11 DEF Deliver, DeliverRecord, DeliverRetry, DropRetry, Invoke, Time, DuePasses,
       TimePasses, Fire, Faulty, CallFails, TimesOut, SubmissionLost, Conflict, StackFails,
       OnlyInvocation, vars, world, eventVars
<1>. QED BY <1>4, <1>5, <1>6, <1>7, <1>8, <1>9, <1>10, <1>11 DEF Next, Invocation, Faulty

\* What becomes of the deliveries of schedules
LEMMA FiredFlow ==
    ASSUME Typed, [Next]_vars
    PROVE  \/ fired' = fired \/ EndInvocation \/ Duplicate
           \/ (\E s \in schedules : Fire(s)) \/ \E ev \in fired : DropRetry(ev)
<1>1. CASE OperatorCommand \/ Bootstrap
    BY <1>1 DEF OperatorCommand, ReadCommand, CommitCommand, Dispatch, Feedback, Pause, PauseThen,
       Bootstrap, Process, ClaimMarker, Recheck, CreateStack, CreateThen, RecordStack, Submit,
       ReleaseMarker, OnlyRequest, OnlyMarker, OnlyItems, world, eventVars
<1>2. CASE CleanupStep \/ Scheduling
    BY <1>2 DEF CleanupStep, BeginCleanup, SettleMarker, Inventory, Terminate, DeleteStacks,
       Verify, EraseItem, ReadLiveControl, ResetCycle, ResetTo, Attention, OnlyRequest,
       OnlyInstance, OnlyStack, OnlyItems, world, eventVars,
       Scheduling, ClearToken, ScheduleRetry, CreateSchedule, CreateWith,
       CancelReplaced, Unscheduled, RequestTerminalCleanup, OnlySchedules
<1>3. CASE Operator \/ \E r \in Cycle : StackSettles(r) \/ InstanceTerminates(r) \/ Chain(r)
    BY <1>3 DEF Operator, RequestSwitch, SetHold, ScriptCleanup,
       StackSettles, InstanceTerminates, Chain, SeedClaims, ChainClaims, ChainLaunches,
       ChainRecords, ChainReleases, ChainEnds, OnlyStack, OnlyInstance, OnlyMarker, OnlyItems,
       eventVars
<1>4. CASE Deliver \/ Time \/ UNCHANGED vars \/ Faulty
    BY <1>4 DEF Deliver, DeliverRecord, DeliverRetry, Invoke, Time, DuePasses,
       TimePasses, Faulty, CallFails, TimesOut, SubmissionLost, Conflict, StackFails,
       OnlyInvocation, vars, world, eventVars
<1>. QED BY <1>1, <1>2, <1>3, <1>4 DEF Next, Invocation

\* A delivery never comes to match again: tokens in use are not given out.
LEMMA StillMatches ==
    ASSUME Typed, Safe, Tokens, [Next]_vars, NEW ev, ev.token # 0,
           ev \in fired \/ ev = lam.ev, Matches(ev)'
    PROVE  Matches(ev) /\ Eased
<1>1. CASE Eased
    BY <1>1 DEF Eased, On, Matches, CleanupActive
<1>2. CASE req'.token = 0
    BY <1>2 DEF Matches
<1>3. ASSUME NEW t \in Token, Rearms(t) PROVE FALSE
    <2>1. req'.token = t
        BY <1>3 DEF Rearms, Typed, WorldOK, RequestOK, Request
    <2>2. ev.token \in UsedTokens
        BY DEF UsedTokens
    <2>. QED BY <1>3, <2>1, <2>2 DEF Matches, Rearms
<1>. QED BY <1>1, <1>2, <1>3, RequestFlow

-----------------------------------------------------------------------------
(* Retries: tokens and cycles *)

\* The request moves on only by the reset, and stays complete until a cleanup begins.
LEMMA CycleFlow ==
    ASSUME Typed, Safe, [Next]_vars
    PROVE  \/ ResetCycle /\ req'.phase = "COMPLETE" /\ Walk /\ Reset(lam')
           \/ /\ req'.rid = req.rid
              /\ req.phase = "COMPLETE" /\ Reset(lam) => req'.phase = "COMPLETE"
<1>w. req \in Request
    BY DEF Typed, WorldOK, RequestOK
<1>1. CASE ResetCycle
    <2>1. CASE lam' = [LeaveCleanup EXCEPT !.snap = NoSnap]
        <3>1. lam.pc \in CleanupPc
            BY <1>1 DEF ResetCycle, ResetTo, At, CleanupPc
        <3>2. Walk /\ Reset(lam')
            BY <2>1, <3>1, LeavesWalk
        <3>3. req' = req \/ req'.phase = "COMPLETE"
            BY <1>1, <1>w DEF ResetCycle, ResetTo, Request
        <3>4. lam.pc \notin AfterReset \cup {"consume", "commit"}
            BY <3>1 DEF CleanupPc, AfterReset, SchedulePc
        <3>. QED BY <1>1, <3>2, <3>3, <3>4 DEF Reset
    <2>2. CASE lam' # [LeaveCleanup EXCEPT !.snap = NoSnap]
        BY <1>1, <2>2 DEF ResetCycle, ResetTo
    <2>. QED BY <2>1, <2>2
<1>2. CASE ~ResetCycle
    <2>1. req'.rid = req.rid
        <3>1. CASE Steady
            BY <3>1 DEF Steady
        <3>2. CASE CreateStack \/ SubmissionLost \/ Terminate \/ DeleteStacks \/ UNCHANGED vars
            BY <3>2 DEF CreateStack, CreateThen, SubmissionLost, Terminate, DeleteStacks,
               OnlyInstance,
               OnlyStack, reqVars, vars, world
        <3>3. CASE \E r \in Cycle : CycleStep(r)
            BY <3>3 DEF CycleStep, ChainLaunches, StackSettles, StackFails, InstanceTerminates,
               OnlyInstance, OnlyStack, reqVars
        <3>. QED BY <1>2, <3>1, <3>2, <3>3, StepKinds
    <2>2. ASSUME req.phase = "COMPLETE", Reset(lam) PROVE req'.phase = "COMPLETE"
        <3>0. lam.pc \in AfterReset \cup {"consume", "commit"}
            BY <2>2 DEF Reset
        <3>1. CASE CommitCommand
            <4>1. lam.snap \in Snapshots
                BY DEF Typed, Invocations
            <4>2. req' = req \/ (/\ Accepted(lam.snap).ok /\ lam.snap.req = req
                                 /\ req' = Accepted(lam.snap).req)
                BY <3>1 DEF CommitCommand, SameRecords, reqVars
            <4>. QED BY <1>w, <2>2, <4>1, <4>2, AcceptedToken
        <3>2. CASE OperatorCommand /\ ~CommitCommand
            BY <1>w, <2>2, <3>2 DEF OperatorCommand, ReadCommand, Dispatch, Feedback, Pause,
               PauseThen,
               world, reqVars, Request
        <3>3. ~Bootstrap
            BY <3>0, BootstrapWalks DEF ProcessPc, AfterReset, SchedulePc
        <3>4. ~CleanupStep
            BY <3>0 DEF CleanupStep, BeginCleanup, SettleMarker, Inventory, Terminate, DeleteStacks,
               Verify, EraseItem, ReadLiveControl, ResetCycle, ResetTo, Attention, At, AfterReset,
               SchedulePc
        <3>5. CASE Scheduling
            BY <1>w, <2>2, <3>5 DEF Scheduling, ClearToken, ScheduleRetry, CreateSchedule,
               CreateWith,
               CancelReplaced, Unscheduled, RequestTerminalCleanup, OnlySchedules, reqVars,
               CleanupActive, ActiveCleanup, Request
        <3>6. CASE Operator
            BY <1>w, <2>2, <3>6 DEF Operator, RequestSwitch, SetHold, ScriptCleanup, reqVars,
               Request
        <3>7. CASE EndInvocation \/ Deliver \/ Faulty \/ Time \/ UNCHANGED vars
            <4>1. req' = req
                BY <3>7 DEF EndInvocation, Deliver, DeliverRecord, DeliverRetry, DropRetry,
                   Invoke, Faulty,
                   CallFails, TimesOut, SubmissionLost, Conflict, Duplicate, StackFails,
                   OnlyInvocation,
                   Time, DuePasses, TimePasses, Fire, vars, world, reqVars
            <4>. QED BY <2>2, <4>1
        <3>8. CASE \E r \in Cycle : StackSettles(r) \/ InstanceTerminates(r) \/ Chain(r)
            <4>1. req' = req
                BY <3>8 DEF StackSettles, InstanceTerminates, Chain, SeedClaims, ChainClaims,
                   ChainLaunches,
                   ChainRecords, ChainReleases, ChainEnds, OnlyStack, OnlyInstance, OnlyMarker,
                   OnlyItems,
                   reqVars
            <4>. QED BY <2>2, <4>1
        <3>. QED BY <3>1, <3>2, <3>3, <3>4, <3>5, <3>6, <3>7, <3>8 DEF Next, Invocation
    <2>. QED BY <2>1, <2>2
<1>. QED BY <1>1, <1>2

LEMMA TokensKept ==
    ASSUME Typed, Safe, Tokens, [Next]_vars
    PROVE  Tokens'
<1>w. req \in Request /\ lam.ev \in Event
    BY DEF Typed, WorldOK, RequestOK, Invocations
<1>1. req'.token # 0 => req'.phase \notin {"IDLE", "COMPLETE"}
    <2>1. CASE Eased
        BY <2>1 DEF Eased, Tokens
    <2>2. ASSUME NEW t \in Token, Rearms(t) PROVE req'.phase \notin {"IDLE", "COMPLETE"}
        <3>1. req'.phase = req.phase
            BY <1>w, <2>2 DEF Rearms, Request
        <3>. QED BY <2>2, <3>1 DEF Rearms, CleanupActive, ActiveCleanup
    <2>. QED BY <2>1, <2>2, RequestFlow
<1>2. ASSUME NEW ev \in fired' PROVE ev.token # 0
    <2>1. CASE fired' = fired \/ \E e \in fired : DropRetry(e)
        BY <1>2, <2>1 DEF DropRetry, Tokens
    <2>2. CASE \E s \in schedules : Fire(s)
        <3>1. PICK s \in schedules : fired' = fired \cup {[Record("retry", s.rid) EXCEPT !.token = s.token]}
            BY <2>2 DEF Fire
        <3>2. s.token \in Token
            BY DEF Typed, WorldOK, EventsOK, Schedule
        <3>3. [Record("retry", s.rid) EXCEPT !.token = s.token].token = s.token
            BY DEF Record
        <3>4. s.token # 0
            BY <3>2, LimitAssumption DEF Token
        <3>. QED BY <1>2, <3>1, <3>3, <3>4 DEF Tokens
    <2>3. CASE EndInvocation \/ Duplicate
        <3>1. PICK b \in BOOLEAN : lam.pc = "end" /\ Settle(b)
            BY <2>3, EndSettles
        <3>2. ev \in fired \/ (lam.ev.kind = "retry" /\ ev = [lam.ev EXCEPT !.tries = @ + 1])
            BY <1>2, <3>1, Settling
        <3>3. [lam.ev EXCEPT !.tries = @ + 1].token = lam.ev.token
            BY <1>w DEF Event
        <3>. QED BY <3>1, <3>2, <3>3 DEF Tokens, Retrying
    <2>. QED BY <2>1, <2>2, <2>3, FiredFlow
<1>3. stream' \in Seq(Plain)
    BY StreamGrows
<1>4. ASSUME Retrying' PROVE lam'.ev.token # 0
    <2>1. ASSUME NEW i \in DOMAIN stream, DeliverRecord(i) PROVE FALSE
        <3>1. stream[i] \in Plain
            BY ElementOfSeq DEF Tokens
        <3>2. lam'.ev = stream[i]
            BY <2>1, <3>1, Invoked DEF DeliverRecord, Plain
        <3>. QED BY <1>4, <3>1, <3>2 DEF Retrying, Plain
    <2>2. ASSUME NEW ev \in fired, DeliverRetry(ev) PROVE lam'.ev.token # 0
        <3>1. ev \in Event
            BY DEF Typed, WorldOK, EventsOK
        <3>. QED BY <2>2, <3>1, Invoked DEF DeliverRetry, Tokens
    <2>3. ~EndInvocation /\ ~Duplicate
        BY <1>4, EndSettles DEF Retrying, Idle
    <2>4. CASE lam.pc \notin {"idle", "end"} /\ (lam'.ev = lam.ev \/ Throws \/ Killed)
        <3>1. lam'.ev = lam.ev
            BY <2>4, Raised DEF Throws, Typed, Keeps, Carries, Killed, Invocations
        <3>. QED BY <1>4, <2>4, <3>1 DEF Retrying, Tokens
    <2>5. CASE lam' = lam
        BY <1>4, <2>5 DEF Retrying, Tokens
    <2>. QED BY <2>1, <2>2, <2>3, <2>4, <2>5, LamFlow DEF Walk, Carries
<1>. QED BY <1>1, <1>2, <1>3, <1>4 DEF Tokens

LEMMA SameCycleKept ==
    ASSUME Typed, Safe, SameCycle, [Next]_vars
    PROVE  SameCycle'
<1>0. lam \in Invocations
    BY DEF Typed
<1>1. CASE \/ \E i \in DOMAIN stream : DeliverRecord(i)
           \/ \E ev \in fired : DeliverRetry(ev)
    <2>1. PICK ev \in Event : Invoke(ev)
        BY <1>1, ElementOfSeq DEF DeliverRecord, DeliverRetry, Typed, WorldOK, EventsOK
    <2>2. lam'.beforeRid = req.rid /\ lam'.pc # "attention" /\ req' = req
        BY <2>1, Invoked DEF world, reqVars
    <2>. QED BY <2>2 DEF SameCycle
<1>2. CASE EndInvocation \/ Duplicate
    <2>1. lam'.pc = "idle"
        BY <1>2, EndSettles DEF Idle
    <2>. QED BY <2>1 DEF SameCycle
<1>3. CASE ResetCycle /\ req'.phase = "COMPLETE" /\ Walk /\ Reset(lam')
    BY <1>3 DEF SameCycle, Walk
<1>4. CASE /\ req'.rid = req.rid /\ (req.phase = "COMPLETE" /\ Reset(lam) => req'.phase = "COMPLETE")
           /\ lam' = lam \/ (lam.pc \notin {"idle", "end"} /\ (Raise \/ Killed)) \/ Walk
    <2>1. lam'.beforeRid = lam.beforeRid /\ (Reset(lam) => Reset(lam')) /\ (lam'.pc # "idle" => lam.pc # "idle")
        <3>1. CASE lam' = lam \/ Walk
            BY <3>1 DEF Walk, Carries
        <3>2. CASE Raise /\ lam.pc # "idle"
            BY <1>0, <3>2, Raised DEF Keeps, Carries, Reset, AfterReset, SchedulePc, CleanupPc
        <3>3. CASE Killed /\ lam.pc # "idle"
            BY <1>0, <3>3 DEF Killed, Invocations, Reset, AfterReset
        <3>. QED BY <1>4, <3>1, <3>2, <3>3
    <2>2. ASSUME lam'.pc = "attention" PROVE lam'.rid = req'.rid
        <3>1. CASE lam' = lam
            BY <1>4, <2>2, <3>1 DEF SameCycle
        <3>2. ~Walk
            BY <2>2 DEF Walk
        <3>3. ~Killed
            BY <1>0, <2>2 DEF Killed, Invocations
        <3>4. CASE Raise
            BY <1>0, <1>4, <2>2, <3>4, Raised, CleanupCycle DEF Keeps
        <3>. QED BY <1>4, <3>1, <3>2, <3>3, <3>4
    <2>. QED BY <1>4, <2>1, <2>2 DEF SameCycle
<1>. QED BY <1>1, <1>2, <1>3, <1>4, CycleFlow, LamFlow DEF Throws

\* What becomes of the schedules, of the active command while it is read, and what
\* runs at the last steps
LEMMA ScheduleFlow ==
    ASSUME Typed, [Next]_vars
    PROVE  \/ schedules' = schedules \/ CreateSchedule \/ ScheduleRetry \/ CancelReplaced
           \/ \E s \in schedules : Fire(s)
<1>1. CASE OperatorCommand \/ Bootstrap
    BY <1>1 DEF OperatorCommand, ReadCommand, CommitCommand, Dispatch, Feedback, Pause, PauseThen,
       Bootstrap, Process, ClaimMarker, Recheck, CreateStack, CreateThen, RecordStack, Submit,
       ReleaseMarker, OnlyRequest, OnlyMarker, OnlyItems, world, eventVars
<1>2. CASE CleanupStep \/ Scheduling
    BY <1>2 DEF CleanupStep, BeginCleanup, SettleMarker, Inventory, Terminate, DeleteStacks,
       Verify, EraseItem, ReadLiveControl, ResetCycle, ResetTo, Attention, OnlyRequest,
       OnlyInstance, OnlyStack, OnlyItems, world, eventVars,
       Scheduling, ClearToken, Unscheduled, RequestTerminalCleanup
<1>3. CASE Operator \/ \E r \in Cycle : StackSettles(r) \/ InstanceTerminates(r) \/ Chain(r)
    BY <1>3 DEF Operator, RequestSwitch, SetHold, ScriptCleanup,
       StackSettles, InstanceTerminates, Chain, SeedClaims, ChainClaims, ChainLaunches,
       ChainRecords, ChainReleases, ChainEnds, OnlyStack, OnlyInstance, OnlyMarker, OnlyItems,
       eventVars
<1>4. CASE Deliver \/ Time \/ UNCHANGED vars \/ Faulty \/ EndInvocation
    BY <1>4 DEF Deliver, DeliverRecord, DeliverRetry, DropRetry, Invoke, Time, DuePasses,
       TimePasses, Faulty, CallFails, TimesOut, SubmissionLost, Conflict, StackFails, Duplicate,
       EndInvocation, OnlyInvocation, vars, world, eventVars
<1>. QED BY <1>1, <1>2, <1>3, <1>4 DEF Next, Invocation

LEMMA ActiveKept ==
    ASSUME Typed, [Next]_vars, lam.pc \in {"consume", "commit", "dispatch"}, active.cmd = "CLEANUP"
    PROVE  active'.cmd = "CLEANUP"
<1>0. lam.snap \in Snapshots
    BY DEF Typed, Invocations
<1>1. CASE CommitCommand
    <2>1. active' = active \/ (active = lam.snap.active /\ active' = Accepted(lam.snap).active)
        BY <1>1 DEF CommitCommand, SameControl, controlVars
    <2>2. CASE active = lam.snap.active /\ active' = Accepted(lam.snap).active
        <3>1. ~StartsBootstrap(lam.snap)
            BY <2>2 DEF StartsBootstrap
        <3>2. \/ Accepted(lam.snap).active = lam.snap.active
              \/ Accepted(lam.snap).active = [cmd |-> "CLEANUP", rid |-> lam.snap.req.rid]
            BY <3>1 DEF Accepted
        <3>. QED BY <2>2, <3>2
    <2>. QED BY <2>1, <2>2
<1>2. CASE \/ ReadCommand \/ Dispatch \/ Pause \/ Bootstrap \/ Deliver \/ EndInvocation
           \/ Scheduling \/ Time \/ Faulty \/ UNCHANGED vars
    <2>1. active' = active
        BY <1>2 DEF ReadCommand, Dispatch, Pause, PauseThen, Bootstrap, Process, ClaimMarker,
           Recheck,
           CreateStack, CreateThen, RecordStack, Submit, ReleaseMarker, OnlyRequest, OnlyMarker,
           OnlyItems, Deliver, DeliverRecord, DeliverRetry, DropRetry, Invoke, EndInvocation,
           Scheduling, ClearToken, ScheduleRetry, CreateSchedule, CreateWith, CancelReplaced,
           Unscheduled, RequestTerminalCleanup, OnlySchedules, Time, DuePasses, TimePasses, Fire,
           Faulty, CallFails, TimesOut, SubmissionLost, Conflict, Duplicate, StackFails,
           OnlyInvocation, vars, world, controlVars
    <2>. QED BY <2>1
<1>3. ~Feedback /\ ~CleanupStep
    BY DEF Feedback, CleanupStep, BeginCleanup, SettleMarker, Inventory, Terminate, DeleteStacks,
       Verify, EraseItem, ReadLiveControl, ResetCycle, ResetTo, Attention, At
<1>4. CASE Operator \/ \E r \in Cycle : StackSettles(r) \/ InstanceTerminates(r) \/ Chain(r)
    <2>1. active' = active
        BY <1>4 DEF Operator, RequestSwitch, SetHold, ScriptCleanup, StackSettles,
           InstanceTerminates,
           Chain, SeedClaims, ChainClaims, ChainLaunches, ChainRecords, ChainReleases, ChainEnds,
           OnlyStack, OnlyInstance, OnlyMarker, OnlyItems, controlVars
    <2>. QED BY <2>1
<1>. QED BY <1>1, <1>2, <1>3, <1>4 DEF Next, Invocation, OperatorCommand

LEMMA LastSteps ==
    ASSUME Typed, [Next]_vars, lam.pc \in SchedulePc \cup {"attention", "clearToken"}
    PROVE  \/ lam' = lam \/ Throws \/ Killed \/ Attention \/ ClearToken
           \/ ScheduleRetry \/ CreateSchedule \/ CancelReplaced \/ Unscheduled
<1>1. ~OperatorCommand /\ (~CleanupStep \/ Attention)
    BY DEF OperatorCommand, ReadCommand, CommitCommand, Dispatch, Feedback, Pause, PauseThen,
       CleanupStep, BeginCleanup, SettleMarker, Inventory, Terminate, DeleteStacks,
       Verify, EraseItem, ReadLiveControl, ResetCycle, ResetTo, At, SchedulePc
<1>2. ~Bootstrap
    BY BootstrapWalks DEF ProcessPc, SchedulePc
<1>3. ~RequestTerminalCleanup /\ ~EndInvocation
    BY DEF RequestTerminalCleanup, EndInvocation, At, SchedulePc
<1>4. CASE Deliver
    BY <1>4 DEF Deliver, DeliverRecord, DeliverRetry, DropRetry, Invoke, At, SchedulePc
<1>5. CASE Faulty
    BY <1>5 DEF Faulty, CallFails, TimesOut, SubmissionLost, Conflict, Duplicate, StackFails, At,
       SchedulePc, Fault, Throws
<1>6. CASE Operator \/ Time \/ UNCHANGED vars
    BY <1>6 DEF Operator, RequestSwitch, SetHold, ScriptCleanup, Time, DuePasses, TimePasses,
       Fire, vars
<1>7. CASE \E r \in Cycle : StackSettles(r) \/ InstanceTerminates(r) \/ Chain(r)
    BY <1>7 DEF StackSettles, InstanceTerminates, Chain, SeedClaims, ChainClaims, ChainLaunches,
       ChainRecords, ChainReleases, ChainEnds
<1>. QED BY <1>1, <1>2, <1>3, <1>4, <1>5, <1>6, <1>7 DEF Next, Invocation, Scheduling

-----------------------------------------------------------------------------
(* Retries: the deliveries of schedules *)

\* A retry that reports its failure, or has done its work, no longer matches.
LEMMA LeavesRetry ==
    ASSUME Typed, Safe, Tokens, SameCycle, [Next]_vars, Retrying, Walk,
           NEW ev, ev = lam.ev, Matches(ev)', ~Throws, ~Killed
    PROVE  /\ lam.pc # "attention"
           /\ lam.pc = "clearToken" => lam'.pc = "clearToken"
<1>w. req \in Request /\ lam \in Invocations
    BY DEF Typed, WorldOK, RequestOK
<1>1. Matches(ev) /\ ev.token # 0
    BY StillMatches DEF Tokens
<1>2. ASSUME lam.pc = "attention" PROVE FALSE
    <2>1. Attention
        <3>1. lam' # lam
            BY <1>2 DEF Walk
        <3>. QED BY <1>2, <3>1, LastSteps DEF ClearToken, ScheduleRetry, CreateSchedule, CreateWith,
                  CancelReplaced, Unscheduled, At
    <2>2. req.rid = lam.rid
        BY <1>2 DEF SameCycle
    <2>3. req'.phase = "NEEDS_ATTENTION"
        BY <1>w, <2>1, <2>2 DEF Attention, Request
    <2>. QED BY <2>3 DEF Matches, CleanupActive, ActiveCleanup
<1>3. ASSUME lam.pc = "clearToken", lam'.pc # "clearToken" PROVE FALSE
    <2>1. ClearToken
        BY <1>3, LastSteps DEF Attention, ScheduleRetry, CreateSchedule, CreateWith,
                  CancelReplaced, Unscheduled, At
    <2>2. req'.token = 0
        BY <1>w, <1>1, <2>1 DEF ClearToken, Request
    <2>. QED BY <1>1, <2>2 DEF Matches
<1>. QED BY <1>2, <1>3

LEMMA RetryAtKept ==
    ASSUME Typed, Safe, Tokens, SameCycle, [Next]_vars, Quiet', Retried
    PROVE  RetryAt'
<1>0. /\ faults \in Nat /\ faults' \in Nat /\ faults' >= faults /\ faults' <= 1 /\ ~killed'
      /\ lam \in Invocations /\ lam.ev.tries \in Nat
    BY HistoryFlow DEF Quiet, Typed, Invocations, Event
<1>. SUFFICES ASSUME Retrying', Matches(lam.ev)'
     PROVE  /\ lam'.ev.tries > 0 => faults' > 0
            /\ lam'.failed /\ lam'.pc # "attention" => faults' > 0 /\ lam'.ev.tries = 0
            /\ ~lam'.failed => lam'.pc \notin SchedulePc \cup {"end", "attention"}
            /\ lam'.pc \notin ProcessPc \cup {"terminal"}
            /\ lam'.pc = "dispatch" \/ (lam'.pc \in {"consume", "commit"} /\ ~lam'.again)
                 => active'.cmd = "CLEANUP"
    BY DEF RetryAt
<1>1. ASSUME NEW i \in DOMAIN stream, DeliverRecord(i) PROVE FALSE
    <2>1. stream[i] \in Plain
        BY ElementOfSeq DEF Tokens
    <2>2. lam'.ev = stream[i]
        BY <1>1, <2>1, Invoked DEF DeliverRecord, Plain
    <2>. QED BY <2>1, <2>2 DEF Retrying, Plain
<1>2. CASE \E ev \in fired : DeliverRetry(ev)
    <2>1. PICK ev \in fired : Matches(ev) /\ Invoke(ev)
        BY <1>2 DEF DeliverRetry
    <2>2. ev \in Event /\ ev.kind = "retry"
        BY DEF Typed, WorldOK, EventsOK
    <2>3. /\ lam'.pc = FirstStep(ev) /\ lam'.ev = ev /\ ~lam'.failed
          /\ UNCHANGED <<active, faults>>
        BY <2>1, <2>2, Invoked DEF world, controlVars, historyVars
    <2>4. \/ FirstStep(ev) = "consume" /\ active.cmd = "CLEANUP"
          \/ FirstStep(ev) = "cleanup"
        BY <2>2 DEF FirstStep
    <2>. QED BY <2>1, <2>3, <2>4 DEF Retried, SchedulePc, ProcessPc
<1>3. ~EndInvocation /\ ~Duplicate
    BY EndSettles DEF Retrying, Idle
<1>4. ~Killed
    BY <1>0 DEF Killed
<1>. DEFINE Carried == lam' = lam \/ (lam.pc \notin {"idle", "end"} /\ Throws) \/ Walk
<1>5. ASSUME Carried
      PROVE  /\ lam'.ev = lam.ev /\ Retrying /\ Matches(lam.ev) /\ lam.ev.token # 0
             /\ lam.ev.tries > 0 => faults > 0
             /\ lam.failed /\ lam.pc # "attention" => faults > 0 /\ lam.ev.tries = 0
             /\ ~lam.failed => lam.pc \notin SchedulePc \cup {"end", "attention"}
             /\ lam.pc \notin ProcessPc \cup {"terminal"}
             /\ lam.pc = "dispatch" \/ (lam.pc \in {"consume", "commit"} /\ ~lam.again)
                 => active.cmd = "CLEANUP"
    <2>1. lam'.ev = lam.ev /\ Retrying
        BY <1>0, <1>5, Raised DEF Throws, Keeps, Walk, Carries, Retrying
    <2>2. Matches(lam.ev) /\ lam.ev.token # 0
        BY <2>1, StillMatches DEF Tokens
    <2>. QED BY <2>1, <2>2 DEF Retried, RetryAt
<1>6. CASE lam' = lam
    <2>1. lam.pc \in {"dispatch", "consume", "commit"} /\ active.cmd = "CLEANUP" => active'.cmd = "CLEANUP"
        BY ActiveKept
    <2>. QED BY <1>0, <1>5, <1>6, <2>1
<1>7. CASE lam.pc \notin {"idle", "end"} /\ Throws
    <2>1. /\ lam'.pc \in {"pause", "attention", "unscheduled", "end", "finish"}
          /\ lam'.failed = TRUE
        BY <1>0, <1>7, Raised DEF Throws
    <2>2. CASE lam.pc \in CleanupPc
        <3>1. lam.pc \notin ProcessPc \cup {"feedback"}
            BY <2>2 DEF CleanupPc, ProcessPc
        <3>2. Handler = "attention"
            BY <2>2, <3>1 DEF Handler, CleanupPc
        <3>3. lam'.pc = "attention"
            BY <1>0, <1>7, <3>2 DEF Throws, Raise, Invocations
        <3>. QED BY <1>0, <1>5, <1>7, <2>1, <3>3 DEF ProcessPc
    <2>3. CASE lam.pc \notin CleanupPc
        <3>1. faults' = faults + 1
            BY <1>5, <1>7, <2>3 DEF Throws
        <3>2. lam.ev.tries = 0 /\ faults' > 0
            BY <1>0, <1>5, <1>7, <3>1
        <3>. QED BY <1>5, <1>7, <2>1, <3>2 DEF ProcessPc
    <2>. QED BY <2>2, <2>3
<1>8. CASE Walk /\ ~Throws
    <2>1. lam.pc # "attention" /\ (lam.pc = "clearToken" => lam'.pc = "clearToken")
        <3>1. PICK ev : ev = lam.ev /\ ev = lam'.ev
            BY <1>5, <1>8
        <3>2. Matches(ev)'
            BY <3>1 DEF Matches, CleanupActive
        <3>. QED BY <1>4, <1>5, <1>8, <3>1, <3>2, LeavesRetry
    <2>2. lam'.failed = lam.failed
        BY <1>8 DEF Walk
    <2>3. lam'.ev.tries > 0 => faults' > 0
        BY <1>0, <1>5, <1>8
    <2>4. lam'.failed => faults' > 0 /\ lam'.ev.tries = 0
        BY <1>0, <1>5, <1>8, <2>1, <2>2
    <2>5. ~lam'.failed => lam'.pc \notin SchedulePc \cup {"end", "attention"}
        BY <1>5, <1>8, <2>1, <2>2 DEF Walk, SchedulePc, Retrying
    <2>6. lam'.pc \notin ProcessPc \cup {"terminal"}
        BY <1>5, <1>8 DEF Walk
    <2>7. lam'.pc = "dispatch" \/ (lam'.pc \in {"consume", "commit"} /\ ~lam'.again)
                 => active'.cmd = "CLEANUP"
        BY <1>5, <1>8, ActiveKept DEF Walk
    <2>. QED BY <2>3, <2>4, <2>5, <2>6, <2>7
<1>. QED BY <1>1, <1>2, <1>3, <1>4, <1>6, <1>7, <1>8, LamFlow DEF Walk

LEMMA RetriedKept ==
    ASSUME Typed, Safe, Tokens, SameCycle, [Next]_vars, Quiet', Retried
    PROVE  Retried'
<1>0. faults \in Nat /\ faults' \in Nat /\ faults' >= faults /\ lam.ev \in Event
    BY HistoryFlow DEF Typed, Invocations
<1>1. ASSUME NEW ev \in fired', Matches(ev)', ev.tries > 0 PROVE faults' > 0
    <2>1. CASE ev \in fired
        <3>1. Matches(ev)
            BY <1>1, <2>1, StillMatches DEF Tokens
        <3>. QED BY <1>0, <1>1, <2>1, <3>1 DEF Retried
    <2>2. CASE \E s \in schedules : Fire(s)
        <3>1. \A s : [Record("retry", s.rid) EXCEPT !.token = s.token].tries = 0
            BY DEF Record
        <3>2. PICK e : fired' = fired \cup {e} /\ e.tries = 0
            BY <2>2, <3>1 DEF Fire
        <3>3. ev \in fired
            BY <1>1, <3>2
        <3>. QED BY <2>1, <3>3
    <2>3. CASE (EndInvocation \/ Duplicate) /\ ev \notin fired
        <3>1. PICK b \in BOOLEAN : /\ lam.pc = "end" /\ Settle(b) /\ req' = req
                                   /\ Duplicate => faults' = faults + 1
                                   /\ EndInvocation /\ b => lam.failed
            <4>1. CASE EndInvocation
                BY <4>1, <2>3, EndSettles DEF Typed, Invocations, Duplicate, EndInvocation,
                   Fault, historyVars
            <4>2. CASE Duplicate /\ ~EndInvocation
                BY <4>2, EndSettles
            <4>. QED BY <2>3, <4>1, <4>2
        <3>2. b /\ lam.ev.kind = "retry" /\ ev = [lam.ev EXCEPT !.tries = @ + 1]
            BY <1>1, <2>3, <3>1, Settling
        <3>3. ev.token = lam.ev.token /\ ev.rid = lam.ev.rid
            BY <1>0, <3>2 DEF Event
        <3>4. Matches(lam.ev) /\ Retrying
            BY <1>1, <3>1, <3>2, <3>3 DEF Matches, CleanupActive, Retrying
        <3>5. lam.failed => faults > 0
            BY <3>1, <3>4 DEF Retried, RetryAt
        <3>. QED BY <1>0, <2>3, <3>1, <3>2, <3>5
    <2>4. CASE fired' = fired \/ \E e \in fired : DropRetry(e)
        <3>1. ev \in fired
            BY <1>1, <2>4 DEF DropRetry
        <3>. QED BY <2>1, <3>1
    <2>. QED BY <2>1, <2>2, <2>3, <2>4, FiredFlow
<1>. QED BY <1>1, RetryAtKept DEF Retried

-----------------------------------------------------------------------------
(* Retries: the next delivery *)

\* The schedule of the stored token, or its delivery, stays while the token does.
LEMMA BackedKept ==
    ASSUME Typed, Safe, Tokens, [Next]_vars, Eased, On', Backed, ~EndInvocation, ~Duplicate
    PROVE  Backed'
<1>0. On /\ req'.rid = req.rid /\ req'.token = req.token /\ NextRetry' = NextRetry
    BY DEF Eased, NextRetry
<1>1. ASSUME NEW ev, Matches(ev) PROVE Matches(ev)'
    BY <1>0, <1>1 DEF Matches, CleanupActive, On
<1>2. CASE \E s \in schedules : Fire(s)
    <2>1. PICK s \in schedules : Fire(s)
        BY <1>2
    <2>. DEFINE e == [Record("retry", s.rid) EXCEPT !.token = s.token]
    <2>2. schedules' = schedules \ {s} /\ fired' = fired \cup {e}
        BY <2>1 DEF Fire
    <2>3. CASE NextRetry = s
        <3>1. e.rid = req.rid /\ e.token = req.token
            BY <2>3 DEF NextRetry, Record
        <3>. HIDE DEF e
        <3>2. Matches(e)'
            BY <1>0, <3>1 DEF Matches, On, CleanupActive
        <3>. QED BY <2>2, <3>2 DEF Backed
    <2>. HIDE DEF e
    <2>. QED BY <1>0, <1>1, <2>2, <2>3 DEF Backed
<1>3. CASE \E ev \in fired : Matches(ev)
    <2>1. PICK ev \in fired : Matches(ev)
        BY <1>3
    <2>2. CASE \E e \in fired : DropRetry(e)
        BY <1>1, <2>1, <2>2 DEF DropRetry, Backed
    <2>3. CASE fired' = fired
        BY <1>1, <2>1, <2>3 DEF Backed
    <2>. QED BY <1>2, <2>2, <2>3, FiredFlow
<1>4. CASE NextRetry \in schedules
    <2>1. CASE CreateSchedule
        BY <1>0, <1>4, <2>1 DEF CreateSchedule, CreateWith, Backed
    <2>2. CASE ScheduleRetry \/ CancelReplaced
        <3>1. \/ schedules' = schedules
              \/ Cancel(lam.before) /\ (req.rid # lam.beforeRid \/ req.token # lam.before)
            BY <1>0, <2>2 DEF ScheduleRetry, CancelReplaced, On
        <3>. QED BY <1>0, <1>4, <3>1 DEF Cancel, Backed, NextRetry
    <2>3. CASE schedules' = schedules
        BY <1>0, <1>4, <2>3 DEF Backed
    <2>. QED BY <1>2, <2>1, <2>2, <2>3, ScheduleFlow
<1>. QED BY <1>3, <1>4 DEF Backed

LEMMA OthersKept ==
    ASSUME Typed, Tokens, [Next]_vars, Others, lam'.pc # "idle" => lam.pc # "idle",
           lam.pc # "idle" => lam'.ev.kind = lam.ev.kind, lam'.pc = "idle" => lam.pc = "idle",
           ~EndInvocation, ~Duplicate
    PROVE  Others'
<1>1. Len(stream) \in Nat /\ Len(stream') \in Nat /\ Len(stream') >= Len(stream)
    BY StreamGrows, LenProperties DEF Tokens
<1>. QED BY <1>1 DEF Others

\* A step beside the invocation
LEMMA ArmedBeside ==
    ASSUME Typed, Safe, Tokens, SameCycle, [Next]_vars, ArmedAt, lam' = lam,
           ~EndInvocation, ~Duplicate, faults \in Nat, faults' \in Nat, faults' >= faults
    PROVE  ArmedAt'
<1>1. lam'.pc = "unscheduled" => faults' > 0
    BY DEF ArmedAt
<1>2. ASSUME Eased, On' PROVE ArmedAt'
    <2>1. On /\ req'.token = req.token
        BY <1>2 DEF Eased
    <2>2. Backed => Backed'
        BY <1>2, BackedKept
    <2>3. Others => Others'
        BY OthersKept
    <2>. QED BY <1>1, <2>1, <2>2, <2>3 DEF ArmedAt
<1>3. CASE ScriptCleanup /\ On'
    <2>1. req \in Request
        BY DEF Typed, WorldOK, RequestOK
    <2>2. /\ req.phase = "NEEDS_ATTENTION" /\ req'.phase = "QUIESCING" /\ req'.cleanup = TRUE
          /\ req'.bootstrap = FALSE /\ req'.token = 0
        BY <1>3, <2>1 DEF ScriptCleanup, Request, On, CleanupActive, ActiveCleanup
    <2>3. stream' = Append(stream, Record("cleanup", req'.rid))
        <3>1. Triggered(req, req') = <<Record("cleanup", req'.rid)>>
            BY <2>2 DEF Triggered
        <3>2. req' \in Request
            BY <1>3, OperatorType DEF Operator, Typed, WorldOK, RequestOK
        <3>3. Record("cleanup", req'.rid) \in Event
            BY <3>2, RecordTyped, MaxCycleAssumption DEF EventKind, Request
        <3>. QED BY <1>3, <3>1, <3>3, AppendIsConcat DEF ScriptCleanup, Typed, WorldOK, EventsOK
    <2>4. Record("cleanup", req'.rid) \in Event
        <3>1. req' \in Request
            BY <1>3, OperatorType DEF Operator, Typed, WorldOK, RequestOK
        <3>. QED BY <3>1, RecordTyped, MaxCycleAssumption DEF EventKind, Request
    <2>5. Len(stream) \in Nat /\ DOMAIN stream = 1..Len(stream) /\ Len(stream') = Len(stream) + 1
        BY <2>3, <2>4, AppendProperties, LenProperties DEF Typed, WorldOK, EventsOK
    <2>6. lam.pc # "idle" /\ lam.ev.kind # "retry" => Len(stream) >= 1
        BY <2>5 DEF Typed, Course, Queued
    <2>. QED BY <1>1, <2>2, <2>5, <2>6 DEF ArmedAt, Others
<1>4. ~CommitCommand /\ ~ClearToken /\ ~BeginCleanup /\ ~ScheduleRetry
    <2>1. lam \in Invocations
        BY DEF Typed
    <2>2. ~CommitCommand
        BY Consumed, <2>1 DEF CommitCommand, At
    <2>3. ~ClearToken
        BY <2>1 DEF ClearToken, At, Goto, Invocations
    <2>4. ~BeginCleanup
        BY <2>1, LeftCleanup DEF BeginCleanup, At, Goto, Invocations
    <2>5. ~ScheduleRetry
        BY <2>1 DEF ScheduleRetry, At, Goto, Invocations
    <2>. QED BY <2>2, <2>3, <2>4, <2>5
<1>5. CASE ~On'
    BY <1>1, <1>5 DEF ArmedAt
<1>. QED BY <1>2, <1>3, <1>4, <1>5, RequestFlow DEF Rearms

\* The end of an invocation: a retry whose token is still stored has failed, for the
\* first time, and is delivered again.
LEMMA ArmedAtEnd ==
    ASSUME Typed, Tokens, Retried, ArmedAt, EndInvocation \/ Duplicate, MaxTries >= 2
    PROVE  ArmedAt'
<1>1. PICK b \in BOOLEAN : /\ Settle(b) /\ (lam.failed => b) /\ lam.pc = "end" /\ lam' = Idle
                           /\ req' = req /\ schedules' = schedules
    BY EndSettles
<1>2. lam'.pc = "idle"
    BY <1>1 DEF Idle
<1>3. ASSUME On, req.token # 0 PROVE Backed'
    <2>1. Backed
        BY <1>1, <1>3 DEF ArmedAt
    <2>2. CASE NextRetry \in schedules
        BY <1>1, <2>2 DEF Backed, NextRetry
    <2>3. ASSUME NEW ev \in fired, Matches(ev) PROVE Backed'
        <3>1. CASE ev \in fired'
            BY <1>1, <2>3, <3>1 DEF Backed, Matches, CleanupActive
        <3>2. CASE lam.ev.kind = "retry" /\ ev = lam.ev
            <4>1. lam.ev \in Event
                BY DEF Typed, Invocations
            <4>2. b /\ lam.ev.tries = 0
                BY <1>1, <2>3, <3>2 DEF Retried, RetryAt, Retrying
            <4>3. lam.ev.tries + 1 < MaxTries
                BY <4>2, LimitAssumption
            <4>4. [lam.ev EXCEPT !.tries = @ + 1] \in fired'
                BY <1>1, <3>2, <4>2, <4>3, Settling
            <4>5. /\ [lam.ev EXCEPT !.tries = @ + 1].rid = ev.rid
                  /\ [lam.ev EXCEPT !.tries = @ + 1].token = ev.token
                BY <3>2, <4>1 DEF Event
            <4>6. PICK e \in fired' : e.rid = ev.rid /\ e.token = ev.token
                BY <4>4, <4>5
            <4>7. Matches(e)'
                BY <1>1, <2>3, <4>6 DEF Matches, CleanupActive
            <4>. QED BY <4>7 DEF Backed
        <3>. QED BY <1>1, <3>1, <3>2, Settling
    <2>. QED BY <2>1, <2>2, <2>3 DEF Backed
<1>4. ASSUME On, req.token = 0 PROVE Others'
    <2>1. Others
        BY <1>1, <1>4 DEF ArmedAt
    <2>2. Len(stream) \in Nat /\ Len(stream') \in Nat
        BY <1>1, Settling, LenProperties DEF Tokens
    <2>3. Len(stream') >= Len(stream) - (IF lam.ev.kind = "retry" THEN 0 ELSE 1)
        BY <1>1, Settling
    <2>. QED BY <1>1, <1>2, <2>1, <2>2, <2>3 DEF Others
<1>. QED BY <1>1, <1>2, <1>3, <1>4 DEF ArmedAt, On, CleanupActive

\* An invocation that goes on: the token it stores gets its schedule before it ends.
LEMMA ArmedWalk ==
    ASSUME Typed, Safe, Tokens, SameCycle, [Next]_vars, ArmedAt, Walk, lam' # lam, ~Throws, ~Killed
    PROVE  ArmedAt'
<1>0. /\ req \in Request /\ lam \in Invocations
      /\ lam.pc \notin {"idle", "end"} /\ lam'.pc \notin {"idle", "unscheduled"} /\ lam'.ev = lam.ev
      /\ ~EndInvocation /\ ~Duplicate
    BY EndSettles DEF Typed, WorldOK, RequestOK, Walk, Carries
<1>1. On => lam.beforeRid = req.rid
    BY <1>0 DEF SameCycle, On, CleanupActive, ActiveCleanup
<1>2. ASSUME Unscheduled PROVE ~On'
    <2>1. req' = IF CleanupActive(lam.beforeRid) THEN [req EXCEPT !.phase = "NEEDS_ATTENTION"] ELSE req
        BY <1>2 DEF Unscheduled
    <2>2. CASE On
        <3>1. req'.phase = "NEEDS_ATTENTION"
            BY <1>0, <1>1, <2>1, <2>2 DEF On, Request
        <3>. QED BY <3>1 DEF On, CleanupActive, ActiveCleanup
    <2>3. CASE ~On
        <3>1. ~CleanupActive(lam.beforeRid)
            BY <2>3 DEF On, CleanupActive
        <3>. QED BY <2>1, <2>3, <3>1 DEF On, CleanupActive
    <2>. QED BY <2>2, <2>3
<1>3. ASSUME On', req'.token # 0 PROVE Backed' \/ lam'.pc = "arm"
    <2>1. CASE Eased
        <3>1. On /\ req.token # 0
            BY <1>3, <2>1 DEF Eased
        <3>2. CASE Backed
            BY <1>0, <1>3, <2>1, <3>2, BackedKept
        <3>3. CASE lam.pc = "arm"
            <4>1. CreateSchedule
                BY <3>3, LastSteps DEF Attention, ClearToken, ScheduleRetry, CancelReplaced,
                   Unscheduled,
                   At, SchedulePc
            <4>2. schedules' = schedules \cup {[rid |-> lam.beforeRid, token |-> req.token]}
                BY <4>1 DEF CreateSchedule, CreateWith
            <4>. QED BY <1>1, <2>1, <3>1, <4>2 DEF Backed, NextRetry, Eased
        <3>4. CASE lam.pc = "unscheduled"
            <4>1. Unscheduled
                BY <3>4, LastSteps DEF Attention, ClearToken, ScheduleRetry, CreateSchedule,
                   CreateWith,
                   CancelReplaced, At, SchedulePc
            <4>. QED BY <1>2, <1>3, <4>1
        <3>. QED BY <3>1, <3>2, <3>3, <3>4 DEF ArmedAt
    <2>2. ASSUME NEW t \in Token, Rearms(t) PROVE lam'.pc = "arm"
        BY <1>0, <2>2 DEF Rearms, ScheduleRetry, Goto, Invocations
    <2>. QED BY <1>3, <2>1, <2>2, RequestFlow
<1>4. ASSUME On', req'.token = 0, lam'.pc \in {"armCheck", "end"} PROVE Others'
    <2>1. lam.pc \in SchedulePc
        BY <1>4 DEF Walk
    <2>2. ScheduleRetry \/ CreateSchedule \/ CancelReplaced
        BY <1>2, <1>4, <2>1, LastSteps DEF Attention, ClearToken, At, SchedulePc
    <2>3. ~ScheduleRetry
        <3>1. ASSUME ScheduleRetry, CleanupActive(lam.beforeRid), req.token = 0 PROVE FALSE
            <4>. DEFINE next == CHOOSE t \in Token : t \notin UsedTokens
            <4>1. Token \ UsedTokens # {} /\ req' = [req EXCEPT !.token = next]
                BY <3>1 DEF ScheduleRetry
            <4>2. next \in Token
                BY <4>1
            <4>. HIDE DEF next
            <4>3. req'.token = next /\ next # 0
                BY <1>0, <4>1, <4>2, LimitAssumption DEF Token, Request
            <4>. QED BY <1>4, <4>3
        <3>2. ASSUME ScheduleRetry, ~(CleanupActive(lam.beforeRid) /\ req.token = 0) PROVE FALSE
            <4>1. req' = req
                BY <3>2 DEF ScheduleRetry
            <4>. QED BY <1>1, <1>4, <3>2, <4>1 DEF On, CleanupActive
        <3>. QED BY <3>1, <3>2
    <2>4. ~CreateSchedule
        <3>1. ASSUME CreateSchedule PROVE req'.token # 0
            BY <3>1 DEF CreateSchedule, CreateWith, OnlySchedules, reqVars, At, Typed, Course,
               Arming
        <3>. QED BY <1>4, <3>1
    <2>5. CancelReplaced
        BY <2>2, <2>3, <2>4
    <2>6. req' = req /\ lam.pc = "armCheck"
        BY <2>5 DEF CancelReplaced, OnlySchedules, reqVars, At
    <2>7. Others
        BY <1>4, <2>6 DEF ArmedAt, On, CleanupActive
    <2>. QED BY <1>0, <2>7, OthersKept
<1>. QED BY <1>0, <1>3, <1>4 DEF ArmedAt

LEMMA ArmedAtKept ==
    ASSUME Typed, Safe, Tokens, SameCycle, [Next]_vars, Quiet', MaxTries >= 2, Retried, ArmedAt
    PROVE  ArmedAt'
<1>0. /\ faults \in Nat /\ faults' \in Nat /\ faults' >= faults /\ faults' <= 1 /\ ~Killed
      /\ lam \in Invocations
    BY HistoryFlow DEF Quiet, Typed, Killed
<1>1. CASE EndInvocation \/ Duplicate
    BY <1>1, ArmedAtEnd
<1>2. CASE lam' = lam /\ ~EndInvocation /\ ~Duplicate
    BY <1>0, <1>2, ArmedBeside
<1>3. CASE Walk /\ lam' # lam /\ ~Throws
    BY <1>0, <1>3, ArmedWalk
<1>4. ASSUME NEW ev \in Event, Invoke(ev) PROVE ArmedAt'
    <2>1. /\ lam.pc = "idle" /\ lam'.pc \in {"consume", "process", "cleanup", "terminal"}
          /\ req' = req /\ schedules' = schedules /\ fired' = fired
        BY <1>4, Invoked DEF world, reqVars, eventVars
    <2>2. On /\ req.token # 0 => Backed
        BY <2>1 DEF ArmedAt
    <2>. QED BY <2>1, <2>2 DEF ArmedAt, On, Backed, NextRetry, Matches, CleanupActive
<1>5. CASE lam.pc \notin {"idle", "end"} /\ Throws
    <2>1. /\ lam'.pc \in {"pause", "attention", "unscheduled", "end", "finish"}
          /\ lam'.pc = "unscheduled" => lam.pc \in {"finish", "arm", "armCheck"}
        BY <1>0, <1>5, Raised DEF Throws
    <2>2. lam.pc \in SchedulePc => faults' = faults + 1
        BY <1>5 DEF Throws, ProcessPc, CleanupPc, SchedulePc
    <2>3. lam.pc # "unscheduled"
        BY <1>0, <2>2 DEF ArmedAt, SchedulePc
    <2>4. lam'.pc = Handler
        BY <1>0, <1>5 DEF Throws, Raise, Invocations
    <2>5. lam'.pc # "end"
        BY <2>3, <2>4 DEF Handler
    <2>6. lam.pc = "arm" => lam'.pc = "unscheduled"
        BY <2>4 DEF Handler, ProcessPc, CleanupPc
    <2>7. lam'.pc = "unscheduled" => faults' > 0
        BY <1>0, <2>1, <2>2 DEF SchedulePc
    <2>8. ASSUME On', req'.token # 0 PROVE Backed' \/ lam'.pc = "unscheduled"
        <3>1. CASE Eased
            <4>1. Backed \/ lam.pc = "arm"
                BY <2>3, <2>8, <3>1 DEF Eased, ArmedAt
            <4>2. ~EndInvocation /\ ~Duplicate
                BY <1>5, EndSettles
            <4>. QED BY <2>6, <2>8, <3>1, <4>1, <4>2, BackedKept
        <3>2. ASSUME NEW t \in Token, Rearms(t) PROVE FALSE
            <4>1. lam'.pc = "arm"
                BY <1>0, <3>2 DEF Rearms, ScheduleRetry, Goto, Invocations
            <4>. QED BY <2>1, <4>1
        <3>. QED BY <2>8, <3>1, <3>2, RequestFlow
    <2>. QED BY <2>1, <2>5, <2>7, <2>8 DEF ArmedAt
<1>6. ASSUME NEW i \in DOMAIN stream, DeliverRecord(i) PROVE ArmedAt'
    BY <1>4, <1>6, ElementOfSeq DEF DeliverRecord, Typed, WorldOK, EventsOK
<1>7. ASSUME NEW ev \in fired, DeliverRetry(ev) PROVE ArmedAt'
    BY <1>4, <1>7 DEF DeliverRetry, Typed, WorldOK, EventsOK
<1>. QED BY <1>0, <1>1, <1>2, <1>3, <1>5, <1>6, <1>7, LamFlow DEF Walk

LEMMA PendingSteps == Typed /\ Safe /\ Pending /\ [Next]_vars => Pending'
<1>. SUFFICES ASSUME Typed, Safe, Pending, [Next]_vars PROVE Pending'
    OBVIOUS
<1>1. Tokens' /\ SameCycle'
    BY TokensKept, SameCycleKept DEF Pending
<1>2. ASSUME MaxTries >= 2, Quiet' PROVE Retried' /\ ArmedAt'
    <2>1. Quiet
        BY <1>2, HistoryFlow DEF Quiet
    <2>2. Retried /\ ArmedAt
        BY <1>2, <2>1 DEF Pending
    <2>. QED BY <1>2, <2>2, RetriedKept, ArmedAtKept DEF Pending
<1>. QED BY <1>1, <1>2 DEF Pending

LEMMA InitPending == Init => Pending
<1>. SUFFICES ASSUME Init PROVE Pending
    OBVIOUS
<1>1. lam.pc = "idle" /\ req.phase = "IDLE" /\ req.token = 0 /\ fired = {} /\ stream = <<>>
    BY DEF Init, Idle, Prepared
<1>2. Tokens /\ SameCycle
    BY <1>1 DEF Tokens, SameCycle, Retrying
<1>3. Retried /\ ArmedAt
    BY <1>1 DEF Retried, RetryAt, Retrying, ArmedAt, On, CleanupActive, ActiveCleanup
<1>. QED BY <1>2, <1>3 DEF Pending

\* While at most one fault has happened, and a delivery is repeated at all, an active
\* cleanup between two invocations has its next delivery (finish_cleanup_delivery).
THEOREM Armed == Spec => [](MaxTries >= 2 /\ faults <= 1 => RetryArmed)
<1>1. Typed /\ Safe /\ Pending => (MaxTries >= 2 /\ faults <= 1 => RetryArmed)
    <2>. SUFFICES ASSUME Typed, Pending, MaxTries >= 2, faults <= 1, ~killed, lam.pc = "idle", On,
                         stream = <<>>
         PROVE  NextRetry \in schedules \/ \E ev \in fired : ev.rid = req.rid /\ ev.token = req.token
        BY DEF RetryArmed, At, On
    <2>1. ArmedAt
        BY DEF Pending, Quiet
    <2>2. ~Others
        <3>1. Len(stream) = 0
            OBVIOUS
        <3>. QED BY <3>1 DEF Others
    <2>3. Backed
        BY <2>1, <2>2 DEF ArmedAt
    <2>. QED BY <2>3 DEF Backed, Matches, CleanupActive
<1>2. Spec => []Pending
    <2>1. Pending /\ [](Typed /\ Safe) /\ [][Next]_vars => []Pending
        BY PendingSteps, PTL
    <2>. QED BY <2>1, InitPending, SafeAlways, PTL DEF Spec
<1>. QED BY <1>1, <1>2, SafeAlways, PTL
=============================================================================
