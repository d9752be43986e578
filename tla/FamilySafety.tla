---------------------------- MODULE FamilySafety ----------------------------
(***************************************************************************)
(* Safety of Family for every tree, setting and set of faults.  A launch    *)
(* has one outcome however often its worker is repeated; ownership passes   *)
(* from a path to its children only after their launches are settled; and   *)
(* a node retires only below a parent that is gone for good.                *)
(***************************************************************************)
EXTENDS FamilyTypes, FiniteSetTheorems

-----------------------------------------------------------------------------
(* The inductive invariant *)

\* RunInstances goes out once for a path: while it may still be sent nothing was accepted,
\* and whatever exists of a child was accepted.
SubmissionAt(c) ==
    /\ accepted[c] <= 1
    /\ db[c].sub \in {"none", "rejected"} \/ work[c] \in {"send", "reject"} => accepted[c] = 0
    /\ work[c] \in {"send", "reject", "record", "settle"} => db[c].sub = "intent"
    /\ c # Root /\ ec2[c] # "none" => accepted[c] = 1
Submissions == work[Root] = "idle" /\ \A c \in Node : SubmissionAt(c)

\* The worker records and settles what EC2 shows; a daemon runs on an instance that exists.
RecordAt(c) ==
    /\ work[c] \in {"record", "settle", "done"} => ec2[c] \in Exists
    /\ work[c] = "settle" => db[c].res # "none"
    /\ work[c] = "done" => db[c].sub = "settled"
    /\ db[c].sub = "settled" => ec2[c] \in Exists /\ db[c].res # "none"
    /\ ec2[c] = "requested" => db[c].sub = "intent"
    /\ run[c].pc # "off" => ec2[c] \in Exists
Records == ec2[Root] \in Exists /\ \A c \in Node : RecordAt(c)

\* Only owners submit launches, and only a child whose submission is settled is an owner.
HeirAt(n) ==
    /\ n # Root /\ db[n].sub # "none" => Parent(n) \in Tree /\ db[Parent(n)].node \in Owned
    /\ n # Root /\ db[n].node \in Owned => db[n].sub = "settled"
    /\ run[n].pc = "launch" => db[n].node \in Owned
Heirs == \A n \in Tree : HeirAt(n)

\* The receipt of a propagation stands for settled children.
ReceiptAt(n) ==
    /\ db[n].prop => \A c \in Children(n) : db[c].sub = "settled"
    /\ run[n].pc = "accept" \/ run[n].recorded => db[n].prop
Receipts == \A n \in Tree : ReceiptAt(n)

\* Who goes on to retire has proved its parent gone, in a record that nothing overwrites.
ParentGone(n) == n # Root => ec2[Parent(n)] \in Gone /\ db[Parent(n)].res = "gone"
RetirementAt(n) ==
    /\ run[n].pc \in {"authorize", "retire", "terminate"} => ParentGone(n)
    /\ run[n].pc \in {"retire", "terminate"} => db[n].node = "RETIRING"
    /\ db[n].res = "gone" => ec2[n] \in Gone /\ (n = Root \/ db[n].sub = "settled")
Retirements == RetiresInOrder /\ \A n \in Tree : RetirementAt(n)

\* With one child each, what was ever launched is a line 1, 2, 4, ... with no gap; who
\* launches is two generations behind an instance that is gone, so that everything three
\* generations behind the youngest is gone.
Line == {n \in Tree : n = Root \/ accepted[n] = 1}
IsLine(L) ==
    /\ \A x, y \in L : x < y => 2 * x \in L /\ 2 * x <= y
    /\ \E top \in L : \A y \in L : y <= top
MayLaunch(n) ==
    \/ n = Root \/ Parent(n) = Root
    \/ Parent(Parent(n)) \in Node /\ ec2[Parent(Parent(n))] \in Gone
Generations ==
    ~shape.binary =>
        /\ IsLine(Line)
        /\ \A x, y \in Line : 8 * x <= y => ec2[x] \in Gone
        /\ \A n \in Tree : run[n].pc = "launch" => MayLaunch(n)
        /\ \A c \in Tree : work[c] \in {"begin", "send"} => MayLaunch(Parent(c))

\* Nothing but harmless upsets: no stop, no violation, no timeout, no lost instance, and
\* nothing runs on an instance that shuts down
CalmAt(n) ==
    /\ ~run[n].stopped /\ run[n].wait # "over"
    /\ run[n].pc \notin {"violated", "reporting", "stopping"}
    /\ ~disk[n] /\ ~db[n].stop /\ work[n] # "violated" /\ ec2[n] # "lost"
    /\ ec2[n] = "shutting-down" => run[n].pc = "ended"
Peace ==
    /\ ~hold /\ enabled /\ phase = "IDLE" /\ invoked = {}
    /\ \A n \in Node : CalmAt(n)
Calm == blame \subseteq Harmless => Peace

Safe == Submissions /\ Records /\ Heirs /\ Receipts /\ Retirements /\ Generations /\ Calm

-----------------------------------------------------------------------------
(* Launches: Submissions and Records *)

\* What the steps that launch nothing leave alone
KeepsLaunches ==
    /\ UNCHANGED <<ec2, work, accepted>>
    /\ \A k \in Node :
        /\ db'[k].sub = db[k].sub
        /\ db[k].res # "none" => db'[k].res # "none"
        /\ run'[k].pc # "off" => run[k].pc # "off" \/ ec2[k] \in Exists

LEMMA LaunchFrame ==
  ASSUME Submissions, Records, KeepsLaunches
  PROVE  Submissions' /\ Records'
<1>1. Submissions' BY DEF Submissions, SubmissionAt, KeepsLaunches
<1>2. Records' BY DEF Records, RecordAt, KeepsLaunches
<1> QED BY <1>1, <1>2

LEMMA DaemonKeepsLaunches ==
  ASSUME Tables, Processes, Others, NEW n \in Tree,
         \/ Boot(n) \/ BootDying(n)
         \/ PublishReadiness(n) \/ MarkLeaf(n) \/ PublishPropagation(n)
         \/ ChildNotReady(n) \/ ChildrenAccepted(n) \/ AuthorizeRetirement(n)
         \/ RetireSelf(n) \/ Stop(n) \/ Violate(n) \/ InvokeHold(n)
         \/ \E m \in Tree : AcceptChild(n, m) \/ StopNode(n, m)
  PROVE  KeepsLaunches
<1> USE DEF KeepsLaunches, hosts, log, controls
<1>0. n \in Node BY DEF Tree
<1>1. CASE Boot(n)
  <2>1. /\ \A k \in Node :
             /\ db'[k].res = IF k = n THEN db'[n].res ELSE db[k].res
             /\ run'[k].pc = IF k = n THEN "top" ELSE run[k].pc
             /\ db'[k].sub = db[k].sub
        /\ db'[n].res \in {db[n].res, "recorded"} /\ ec2[n] = "running"
    BY <1>1, BootEffect
  <2> QED BY <1>0, <1>1, <2>1 DEF Boot, Exists
<1>0a. CASE BootDying(n)
  BY <1>0, <1>0a, BootDyingEffect DEF Exists
<1>2. CASE PublishReadiness(n)
  BY <1>0, <1>2, WriteState, BeginLaunchEffect DEF PublishReadiness, Free, At, Exists
<1>3. CASE MarkLeaf(n)
  BY <1>3, WriteNode DEF MarkLeaf, Owned
<1>4. CASE PublishPropagation(n)
  BY <1>0, <1>4, PublishEffect DEF PublishPropagation, Free, At, Exists
<1>5. CASE ChildNotReady(n)
  BY <1>0, <1>5, GotoPc DEF ChildNotReady, Free, At, Exists, Label
<1>6. CASE ChildrenAccepted(n)
  BY <1>0, <1>6, GateEffect DEF ChildrenAccepted, Free, At, Exists, Label
<1>7. CASE AuthorizeRetirement(n)
  BY <1>0, <1>7, WriteNode, GotoPc DEF AuthorizeRetirement, Free, At, Exists, Label, Owned
<1>8. CASE RetireSelf(n)
  BY <1>0, <1>8, GateEffect DEF RetireSelf, Free, At, Exists, Label
<1>9. CASE Stop(n)
  BY <1>0, <1>9, GotoPc DEF Stop, At, Exists, Label
<1>10. CASE Violate(n)
  BY <1>0, <1>10, ViolateEffect DEF Violate, At, Exists
<1>11. CASE InvokeHold(n)
  BY <1>0, <1>11, SetProcess, OffFacts DEF InvokeHold
<1>12. ASSUME NEW m \in Tree, AcceptChild(n, m) PROVE KeepsLaunches
  BY <1>0, <1>12, WriteNode, GotoPc DEF AcceptChild, Free, At, Exists, Label, Owned
<1>13. ASSUME NEW m \in Tree, StopNode(n, m) PROVE KeepsLaunches
  BY <1>0, <1>13, WriteStop DEF StopNode
<1> QED BY <1>0a, <1>1, <1>2, <1>3, <1>4, <1>5, <1>6, <1>7, <1>8, <1>9, <1>10, <1>11, <1>12, <1>13

LEMMA OthersKeepLaunches ==
  ASSUME Tables, Processes, Others,
         \/ \E n \in Tree : \/ MonitorSees(n) \/ MonitorExpires(n) \/ CreateHold(n)
                            \/ CallFails(n) \/ TimeOut(n) \/ StateAges(n)
         \/ StartDeleting \/ Operator \/ UNCHANGED vars
  PROVE  KeepsLaunches
<1> USE DEF KeepsLaunches, hosts, log, controls
<1>0. Tree \subseteq Node BY DEF Tree
<1>1. ASSUME NEW n \in Tree, MonitorSees(n) \/ MonitorExpires(n) PROVE KeepsLaunches
  BY <1>0, <1>1, LatchEffect DEF MonitorSees, MonitorExpires, Latch
<1>2. ASSUME NEW n \in Tree, CreateHold(n) PROVE KeepsLaunches
  BY <1>0, <1>2, WriteState DEF CreateHold
<1>3. ASSUME NEW n \in Tree, CallFails(n) PROVE KeepsLaunches
  BY <1>0, <1>3, GotoPc DEF CallFails, Label
<1>4. ASSUME NEW n \in Tree, TimeOut(n) PROVE KeepsLaunches
  BY <1>0, <1>4, TimeOutEffect DEF TimeOut
<1>5. ASSUME NEW n \in Tree, StateAges(n) PROVE KeepsLaunches
  BY <1>0, <1>5, WriteState DEF StateAges
<1>6. CASE StartDeleting \/ Operator \/ UNCHANGED vars
  BY <1>6 DEF StartDeleting, Operator, StopFamily, HoldFamily, ClearHold, BeginCleanup, vars
<1> QED BY <1>1, <1>2, <1>3, <1>4, <1>5, <1>6

\* The worker of a launch: intent, request, rejection, record and settlement
LEMMA WorkerLaunches ==
  ASSUME Tables, Processes, Others, Submissions, Records,
         NEW c \in Tree, WorkerStep(c) \/ WorkerFails(c)
  PROVE  Submissions' /\ Records'
<1> USE NodeAssumption DEF Submissions, SubmissionAt, Records, RecordAt, hosts, log, Root
<1>0. c \in Node BY DEF Tree
<1>1. CASE LaunchIntent(c)
  <2>1. Submissions' BY <1>0, <1>1, WriteSub DEF LaunchIntent, Working, MaySubmit, Others, Busy,
                        Exists, Tables
  <2>2. Records' BY <1>0, <1>1, WriteSub DEF LaunchIntent, Working, MaySubmit, Others, Busy, Exists
  <2> QED BY <2>1, <2>2
<1>2. CASE Reconcile(c)
  <2>0. db[c].sub \in {"none", "intent", "rejected", "settled"} BY <1>0 DEF Tables, Entry
  <2>1. Submissions' BY <1>0, <1>2, <2>0 DEF Reconcile, Working, MaySubmit, Others, Exists
  <2>2. Records' BY <1>0, <1>2 DEF Reconcile, Working, MaySubmit, Others, Busy, Exists
  <2> QED BY <2>1, <2>2
<1>3. CASE Send(c)
  <2>1. Submissions' BY <1>0, <1>3 DEF Send, Working, Others, Busy, Exists
  <2>2. Records' BY <1>0, <1>3 DEF Send, Working, Others, Busy, Exists
  <2> QED BY <2>1, <2>2
<1>4. CASE RecordRejection(c)
  <2>1. Submissions' BY <1>0, <1>4, WriteSub DEF RecordRejection, Working, Others, Busy, Exists
  <2>2. Records' BY <1>0, <1>4, WriteSub DEF RecordRejection, Working, Others, Busy, Exists
  <2> QED BY <2>1, <2>2
<1>5. CASE RecordChild(c)
  <2>1. Submissions' BY <1>0, <1>5, WriteRes DEF RecordChild, Working, Others, Busy, Exists
  <2>2. Records' BY <1>0, <1>5, WriteRes DEF RecordChild, Working, Others, Busy, Exists
  <2> QED BY <2>1, <2>2
<1>6. CASE SettleChild(c)
  <2>0. c # Root BY <1>6 DEF SettleChild, Working
  <2>1. Submissions'
    <3>1. ec2' = ec2 /\ accepted' = accepted BY <1>6 DEF SettleChild
    <3>2. \A k \in Node : work'[k] = work[k] \/ (k = c /\ work'[k] \in {"done", "failed"})
      BY <1>0, <1>6 DEF SettleChild, Others
    <3>3. \A k \in Node : db'[k].sub = db[k].sub \/ (k = c /\ db'[k].sub = "settled")
      BY <1>0, <1>6, WriteSub DEF SettleChild
    <3>4. work'[Root] = "idle" BY <1>0, <2>0, <3>2
    <3>5. db[c].sub = "intent" /\ work'[c] \in {"done", "failed"}
      BY <1>0, <1>6 DEF SettleChild, Working, Others
    <3> QED BY <3>1, <3>2, <3>3, <3>4, <3>5
  <2>2. Records' BY <1>0, <1>6, WriteSub DEF SettleChild, Working, Others, Busy, Exists
  <2> QED BY <2>1, <2>2
<1>7. CASE WorkerFails(c)
  <2>0. c # Root BY <1>7 DEF WorkerFails
  <2>1. Submissions' BY <1>0, <1>7, <2>0 DEF WorkerFails, Others
  <2>2. Records' BY <1>0, <1>7 DEF WorkerFails, Others, Busy, Exists
  <2> QED BY <2>1, <2>2
<1> QED BY <1>1, <1>2, <1>3, <1>4, <1>5, <1>6, <1>7 DEF WorkerStep

\* Workers start and are dismissed, instances start and end.
LEMMA HostLaunches ==
  ASSUME Tables, Processes, Others, Submissions, Records, NEW n \in Tree,
         \/ AwaitWorkers(n) \/ TerminateSelf(n) \/ FinishStop(n)
         \/ \E m \in Tree : StartWorker(n, m)
         \/ InstanceStarts(n) \/ RequestSettles(n) \/ InstanceStops(n) \/ Delete(n)
         \/ Crash(n) \/ InstanceIsLost(n)
  PROVE  Submissions' /\ Records'
<1> USE NodeAssumption DEF Submissions, SubmissionAt, Records, RecordAt, hosts, log, Root
<1>0. n \in Node BY DEF Tree
<1>1. CASE AwaitWorkers(n)
  <2>1. Submissions' BY <1>0, <1>1 DEF AwaitWorkers, Dismiss, Others
  <2>2. \A k \in Node : run'[k].pc = IF k = n THEN run'[n].pc ELSE run[k].pc
    BY <1>1, AwaitEffect
  <2>3. ec2[n] \in Exists BY <1>1 DEF AwaitWorkers, At, Exists
  <2>4. /\ UNCHANGED <<db, ec2>>
        /\ work' = [c \in Node |-> IF c \in Children(n) THEN "idle" ELSE work[c]]
    BY <1>1 DEF AwaitWorkers, Dismiss
  <2>5. Records' BY <1>0, <2>2, <2>3, <2>4 DEF Others
  <2> QED BY <2>1, <2>5
<1>2. CASE TerminateSelf(n)
  <2>1. Submissions' BY <1>0, <1>2 DEF TerminateSelf, At, Others, Exists
  <2>2. Records' BY <1>0, <1>2, GotoPc DEF TerminateSelf, At, Others, Exists, Label
  <2> QED BY <2>1, <2>2
<1>3. CASE FinishStop(n)
  <2>1. Submissions' BY <1>0, <1>3 DEF FinishStop, Dismiss, Others
  <2>2. Records' BY <1>0, <1>3, GotoPc DEF FinishStop, Dismiss, At, Others, Exists, Label
  <2> QED BY <2>1, <2>2
<1>4. ASSUME NEW m \in Tree, StartWorker(n, m) PROVE Submissions' /\ Records'
  <2>0. m \in Node /\ m # Root BY <1>4, TreeFacts DEF StartWorker, Others
  <2>1. Submissions' BY <1>4, <2>0 DEF StartWorker, Others
  <2>2. Records' BY <1>4, <2>0 DEF StartWorker, Others
  <2> QED BY <2>1, <2>2
<1>5. CASE InstanceStarts(n)
  <2>1. Submissions' BY <1>0, <1>5 DEF InstanceStarts, Becomes, Others
  <2>2. Records' BY <1>0, <1>5 DEF InstanceStarts, Becomes, Others, Exists
  <2> QED BY <2>1, <2>2
<1>6. CASE RequestSettles(n)
  <2>1. Submissions' BY <1>0, <1>6 DEF RequestSettles, Becomes, Others
  <2>2. Records' BY <1>0, <1>6 DEF RequestSettles, Becomes, Others, Exists
  <2> QED BY <2>1, <2>2
<1>7. CASE InstanceStops(n) \/ Delete(n) \/ InstanceIsLost(n)
  <2>1. /\ ec2[n] \in Exists /\ (Becomes(n, "terminated") \/ Becomes(n, "lost")) /\ EndProcess(n)
        /\ UNCHANGED <<db, accepted>>
    BY <1>7 DEF InstanceStops, Delete, InstanceIsLost, Exists
  <2>2. Submissions' BY <1>0, <2>1 DEF Becomes, EndProcess, Dismiss, Others, Exists
  <2>3. Records' BY <1>0, <2>1, SetProcess, OffFacts DEF Becomes, EndProcess, Dismiss, Others,
                    Exists
  <2> QED BY <2>2, <2>3
<1>8. CASE Crash(n)
  <2>1. Submissions' BY <1>0, <1>8 DEF Crash, Dismiss, Others
  <2>2. Records' BY <1>0, <1>8, SetProcess, OffFacts DEF Crash, Dismiss, Others, Exists
  <2> QED BY <2>1, <2>2
<1> QED BY <1>1, <1>2, <1>3, <1>4, <1>5, <1>6, <1>7, <1>8

\* Every step keeps what Submissions and Records say of a launch.
LEMMA LaunchStep ==
  ASSUME Tables, Processes, Others, Submissions, Records, [Next]_vars
  PROVE  Submissions' /\ Records'
BY LaunchFrame, DaemonKeepsLaunches, OthersKeepLaunches, WorkerLaunches, HostLaunches
   DEF Next, ProcessStep, DaemonStep, EnvironmentStep, FaultStep

-----------------------------------------------------------------------------
(* Handing over: Heirs and Receipts *)

\* What most steps leave alone; the root becomes an owner at its first start.
KeepsHandover ==
    /\ shape' = shape
    /\ \A k \in Node :
        /\ db'[k].sub = db[k].sub
        /\ db[k].node \in Owned => db'[k].node \in Owned
        /\ db'[k].node \in Owned => k = Root \/ db[k].node \in Owned
        /\ db'[k].prop <=> db[k].prop
        /\ run'[k].pc = "launch" => run[k].pc = "launch" \/ db[k].node \in Owned
        /\ run'[k].pc = "accept" => run[k].pc = "accept" \/ run[k].recorded
        /\ run'[k].recorded => run[k].recorded

LEMMA HandoverFrame ==
  ASSUME Others, Heirs, Receipts, KeepsHandover
  PROVE  Heirs' /\ Receipts'
<1>1. Tree' = Tree /\ \A k : Children(k)' = Children(k) BY SameTree DEF KeepsHandover
<1>2. Tree \subseteq Node /\ \A k \in Tree : \A c \in Children(k) : c \in Node
  BY TreeFacts DEF Others
<1>3. Heirs' BY <1>1, <1>2 DEF Heirs, HeirAt, KeepsHandover
<1>4. Receipts' BY <1>1, <1>2 DEF Receipts, ReceiptAt, KeepsHandover
<1> QED BY <1>3, <1>4

LEMMA DaemonKeepsHandover ==
  ASSUME Tables, Processes, Others, NEW n \in Tree,
         \/ Boot(n) \/ BootDying(n) \/ PublishReadiness(n) \/ MarkLeaf(n) \/ AwaitWorkers(n)
         \/ ChildNotReady(n) \/ ChildrenAccepted(n) \/ AuthorizeRetirement(n)
         \/ RetireSelf(n) \/ TerminateSelf(n) \/ Stop(n) \/ Violate(n) \/ FinishStop(n)
         \/ InvokeHold(n) \/ \E m \in Tree : StartWorker(n, m) \/ StopNode(n, m)
  PROVE  KeepsHandover
<1> USE DEF KeepsHandover, hosts, log, controls
<1>0. n \in Node BY DEF Tree
<1>1. CASE Boot(n)
  <2>1. \A k \in Node :
            /\ db'[k].node = IF k = n THEN db'[n].node ELSE db[k].node
            /\ run'[k].pc = IF k = n THEN "top" ELSE run[k].pc
            /\ IF k = n THEN ~run'[k].recorded ELSE run'[k].recorded <=> run[k].recorded
            /\ db'[k].sub = db[k].sub
            /\ db'[k].prop <=> db[k].prop
    BY <1>1, BootEffect
  <2>2. \/ db'[n].node = db[n].node
        \/ db[n].node = "none" /\ (n = Root \/ db'[n].node = "CANDIDATE")
    BY <1>1, BootEffect
  <2> QED BY <1>0, <1>1, <2>1, <2>2 DEF Boot, Owned
<1>0a. CASE BootDying(n)
  BY <1>0, <1>0a, BootDyingEffect
<1>2. CASE PublishReadiness(n)
  BY <1>0, <1>2, WriteState, BeginLaunchEffect DEF PublishReadiness, OwnerCheck, Owned
<1>3. CASE MarkLeaf(n)
  BY <1>3, WriteNode DEF MarkLeaf, OwnerCheck, Owned
<1>4. CASE AwaitWorkers(n)
  BY <1>0, <1>4, AwaitEffect DEF AwaitWorkers
<1>5. CASE ChildNotReady(n)
  BY <1>0, <1>5, GotoPc DEF ChildNotReady, Label
<1>6. CASE ChildrenAccepted(n)
  BY <1>0, <1>6, GateEffect DEF ChildrenAccepted, Label
<1>7. CASE AuthorizeRetirement(n)
  BY <1>0, <1>7, WriteNode, GotoPc DEF AuthorizeRetirement, Authorized, Label, Owned
<1>8. CASE RetireSelf(n)
  BY <1>0, <1>8, GateEffect DEF RetireSelf, Label
<1>9. CASE TerminateSelf(n)
  BY <1>0, <1>9, GotoPc DEF TerminateSelf, Label
<1>10. CASE Stop(n)
  BY <1>0, <1>10, GotoPc DEF Stop, Label
<1>11. CASE Violate(n)
  <2>1. \A k \in Node :
            /\ run'[k].pc = IF k = n THEN "reporting" ELSE run[k].pc
            /\ run'[k].recorded <=> run[k].recorded
    BY <1>0, <1>11, ViolateEffect
  <2>2. UNCHANGED <<shape, db>> BY <1>11 DEF Violate
  <2> QED BY <2>1, <2>2
<1>12. CASE FinishStop(n)
  BY <1>0, <1>12, GotoPc DEF FinishStop, Label
<1>13. CASE InvokeHold(n)
  BY <1>0, <1>13, SetProcess, OffFacts DEF InvokeHold
<1>14. ASSUME NEW m \in Tree, StartWorker(n, m) PROVE KeepsHandover
  BY <1>14 DEF StartWorker
<1>15. ASSUME NEW m \in Tree, StopNode(n, m) PROVE KeepsHandover
  BY <1>15, WriteStop DEF StopNode
<1> QED BY <1>0a, <1>1, <1>2, <1>3, <1>4, <1>5, <1>6, <1>7, <1>8, <1>9, <1>10, <1>11, <1>12,
           <1>13, <1>14, <1>15

LEMMA OthersKeepHandover ==
  ASSUME Tables, Processes, Others,
         \/ \E n \in Tree : \/ MonitorSees(n) \/ EnvironmentStep(n) \/ FaultStep(n)
                            \/ Reconcile(n) \/ Send(n) \/ RecordChild(n)
         \/ StartDeleting \/ Operator \/ UNCHANGED vars
  PROVE  KeepsHandover
<1> USE DEF KeepsHandover, hosts, log, controls
<1>0. Tree \subseteq Node BY DEF Tree
<1>1. ASSUME NEW n \in Tree, MonitorSees(n) \/ MonitorExpires(n) PROVE KeepsHandover
  BY <1>0, <1>1, LatchEffect DEF MonitorSees, MonitorExpires, Latch
<1>2. ASSUME NEW n \in Tree, CreateHold(n) PROVE KeepsHandover
  BY <1>0, <1>2, WriteState DEF CreateHold
<1>3. ASSUME NEW n \in Tree,
             InstanceStarts(n) \/ RequestSettles(n) \/ WorkerFails(n) \/ Reconcile(n) \/ Send(n)
      PROVE KeepsHandover
  BY <1>3 DEF InstanceStarts, RequestSettles, WorkerFails, Reconcile, Send
<1>4. ASSUME NEW n \in Tree, Crash(n) \/ InstanceStops(n) \/ Delete(n) \/ InstanceIsLost(n)
      PROVE KeepsHandover
  <2>1. /\ UNCHANGED <<db, shape>>
        /\ \E p \in {Off, [Off EXCEPT !.pc = "ended"]} : run' = [run EXCEPT ![n] = p]
    BY <1>4 DEF Crash, InstanceStops, Delete, InstanceIsLost, EndProcess
  <2>2. PICK p \in Process : /\ run' = [run EXCEPT ![n] = p] /\ ~p.recorded
                             /\ p.pc \in {"off", "ended"}
    BY <2>1, OffFacts
  <2>3. \A k \in Node : run'[k] = IF k = n THEN p ELSE run[k] BY <2>2, SetProcess
  <2> QED BY <1>0, <2>1, <2>2, <2>3
<1>5. ASSUME NEW n \in Tree, CallFails(n) PROVE KeepsHandover
  BY <1>0, <1>5, GotoPc DEF CallFails, Label
<1>6. ASSUME NEW n \in Tree, TimeOut(n) PROVE KeepsHandover
  BY <1>0, <1>6, TimeOutEffect DEF TimeOut
<1>7. ASSUME NEW n \in Tree, StateAges(n) PROVE KeepsHandover
  BY <1>0, <1>7, WriteState DEF StateAges
<1>8. ASSUME NEW n \in Tree, RecordChild(n) PROVE KeepsHandover
  BY <1>0, <1>8, WriteRes DEF RecordChild
<1>9. CASE StartDeleting \/ Operator \/ UNCHANGED vars
  BY <1>9 DEF StartDeleting, Operator, StopFamily, HoldFamily, ClearHold, BeginCleanup, vars
<1> QED BY <1>1, <1>2, <1>3, <1>4, <1>5, <1>6, <1>7, <1>8, <1>9 DEF EnvironmentStep, FaultStep

\* The steps that submit, settle, publish and accept
LEMMA HandoverStep ==
  ASSUME Tables, Processes, Others, Submissions, Records, Heirs, Receipts, [Next]_vars
  PROVE  Heirs' /\ Receipts'
<1> DEFINE Goal == Heirs' /\ Receipts'
<1>0. /\ Tree \subseteq Node
      /\ \A k \in Tree : \A c \in Children(k) : c \in Tree \ {Root} /\ Parent(c) = k
      /\ \A c \in Tree \ {Root} : c \in Children(Parent(c))
  BY TreeFacts DEF Others
<1>1. ASSUME NEW n \in Tree, PublishPropagation(n) PROVE Goal
  <2>1. Tree' = Tree /\ \A k : Children(k)' = Children(k)
    BY <1>1, SameTree DEF PublishPropagation
  <2>2. Heirs' BY <1>0, <1>1, <2>1, PublishEffect DEF Heirs, HeirAt
  <2>3. Receipts' BY <1>0, <1>1, <2>1, PublishEffect DEF Receipts, ReceiptAt, Launched
  <2> QED BY <2>2, <2>3
<1>2. ASSUME NEW n \in Tree, NEW m \in Tree, AcceptChild(n, m) PROVE Goal
  <2>1. Tree' = Tree /\ \A k : Children(k)' = Children(k)
    BY <1>2, SameTree DEF AcceptChild
  <2>2. db[m].sub = "settled" BY <1>0, <1>2 DEF AcceptChild, Free, At, Receipts, ReceiptAt
  <2>3. CASE Write(m, "node", "OWNER") /\ UNCHANGED run
    <3>1. Heirs' BY <1>0, <2>1, <2>2, <2>3, WriteNode DEF Heirs, HeirAt, Owned
    <3>2. Receipts' BY <1>0, <2>1, <2>3, WriteNode DEF Receipts, ReceiptAt, Owned
    <3> QED BY <3>1, <3>2
  <2>4. CASE Goto(n, "top") /\ UNCHANGED db
    <3>1. KeepsHandover BY <1>0, <1>2, <2>4, GotoPc DEF KeepsHandover, AcceptChild, Label
    <3> QED BY <3>1, HandoverFrame
  <2> QED BY <1>2, <2>3, <2>4 DEF AcceptChild
<1>3. ASSUME NEW n \in Tree, NEW c \in Tree, Parent(c) = n,
             LaunchIntent(c) \/ RecordRejection(c) \/ SettleChild(c) PROVE Goal
  <2>0. Tree' = Tree /\ \A k : Children(k)' = Children(k)
    BY <1>3, SameTree DEF LaunchIntent, RecordRejection, SettleChild
  <2>1. c # Root /\ db[c].sub # "settled"
    BY <1>0, <1>3 DEF LaunchIntent, RecordRejection, SettleChild, Working, MaySubmit,
                      Submissions, SubmissionAt
  <2>2. CASE UNCHANGED <<db, run>>
    <3>1. KeepsHandover
      BY <1>3, <2>2 DEF KeepsHandover, LaunchIntent, RecordRejection, SettleChild
    <3> QED BY <3>1, HandoverFrame
  <2>3. ASSUME NEW v \in {"intent", "rejected", "settled"}, Write(c, "sub", v), UNCHANGED run,
               db[n].node \in Owned
        PROVE  Goal
    <3>1. Heirs' BY <1>0, <1>3, <2>0, <2>1, <2>3, WriteSub DEF Heirs, HeirAt
    <3>2. Receipts' BY <1>0, <1>3, <2>0, <2>1, <2>3, WriteSub DEF Receipts, ReceiptAt
    <3> QED BY <3>1, <3>2
  <2>4. db[c].sub # "none" => db[n].node \in Owned BY <1>3, <2>1 DEF Heirs, HeirAt
  <2>5. CASE LaunchIntent(c)
    BY <1>3, <2>2, <2>3, <2>5 DEF LaunchIntent, OwnerCheck, Owned
  <2>6. CASE RecordRejection(c) \/ SettleChild(c)
    <3>1. db[c].sub # "none"
      BY <1>0, <2>6 DEF RecordRejection, SettleChild, Working, Submissions, SubmissionAt
    <3> QED BY <2>2, <2>3, <2>4, <2>6, <3>1 DEF RecordRejection, SettleChild
  <2> QED BY <1>3, <2>5, <2>6
<1> QED BY <1>1, <1>2, <1>3, HandoverFrame, DaemonKeepsHandover, OthersKeepHandover
        DEF Next, ProcessStep, DaemonStep, WorkerStep

-----------------------------------------------------------------------------
(* Retiring: RetiresInOrder *)

Ending == {"shutting-down", "terminated"}
RetiringPc == {"authorize", "retire", "terminate"}

\* What is gone stays gone, and what most steps leave alone
GoneStays == \A k \in Node : ec2[k] \in Gone => ec2'[k] \in Gone
KeepsRetirements ==
    /\ shape' = shape
    /\ \A k \in Node :
        /\ db[k].sub = "settled" => db'[k].sub = "settled"
        /\ db[k].node \in Owned => db'[k].node \in Owned
        /\ db'[k].node = "RETIRING" <=> db[k].node = "RETIRING"
        /\ db'[k].res = "gone" <=> db[k].res = "gone"
        /\ ec2'[k] \in Ending => ec2[k] \in Ending
        /\ run'[k].pc \in RetiringPc => run'[k].pc = run[k].pc

LEMMA RetirementFrame ==
  ASSUME Others, Heirs, Retirements, KeepsRetirements, GoneStays,
         \A n \in Tree : run[n].pc \in RetiringPc \/ db[n].node = "RETIRING"
                            => n = Root \/ Parent(n) \in Node
  PROVE  Retirements'
<1>1. Tree' = Tree /\ \A k : Children(k)' = Children(k) BY SameTree DEF KeepsRetirements
<1>2. Tree \subseteq Node /\ \A k \in Tree : \A c \in Children(k) : c \in Tree
  BY TreeFacts DEF Others
<1>3. \A k \in Tree : \A c \in Children(k) : c \in Node /\ \A g \in Children(c) : g \in Node
  BY <1>2
<1>4. RetiresInOrder'
  BY <1>1, <1>2, <1>3 DEF Retirements, RetiresInOrder, KeepsRetirements, GoneStays, Ending
<1>5. (\A n \in Tree : RetirementAt(n))'
  BY <1>1, <1>2 DEF Retirements, RetirementAt, ParentGone, KeepsRetirements, GoneStays, RetiringPc
<1> QED BY <1>4, <1>5 DEF Retirements

\* EC2 never brings an instance back: a path that is sent again has none yet.
LEMMA GoneStep ==
  ASSUME Others, Submissions, [Next]_vars
  PROVE  GoneStays
<1> USE DEF GoneStays, hosts, log, controls
<1>1. ASSUME NEW c \in Tree, Send(c) PROVE GoneStays
  <2>1. c \in Node /\ accepted[c] = 0 /\ c # Root
    BY <1>1 DEF Tree, Send, Working, Submissions, SubmissionAt
  <2>2. ec2[c] = "none" BY <2>1 DEF Submissions, SubmissionAt
  <2> QED BY <1>1, <2>1, <2>2 DEF Send, Others, Gone
<1>2. ASSUME NEW n \in Tree,
             TerminateSelf(n) \/ InstanceStarts(n) \/ RequestSettles(n) \/ InstanceStops(n)
             \/ InstanceIsLost(n) \/ Delete(n)
      PROVE  GoneStays
  <2>1. ec2[n] \notin Gone /\ \E s : ec2' = [ec2 EXCEPT ![n] = s]
    BY <1>2 DEF TerminateSelf, InstanceStarts, RequestSettles, InstanceStops, InstanceIsLost,
                Delete, Becomes, At, Gone
  <2> QED BY <2>1 DEF Others
<1>3. ASSUME NEW n \in Tree,
             \/ Boot(n) \/ BootDying(n) \/ PublishReadiness(n) \/ MarkLeaf(n) \/ AwaitWorkers(n)
             \/ PublishPropagation(n) \/ ChildNotReady(n) \/ ChildrenAccepted(n)
             \/ AuthorizeRetirement(n) \/ RetireSelf(n)
             \/ Stop(n) \/ Violate(n) \/ FinishStop(n) \/ InvokeHold(n)
             \/ \E m \in Tree : StartWorker(n, m) \/ AcceptChild(n, m) \/ StopNode(n, m)
      PROVE  UNCHANGED ec2
  BY <1>3 DEF Boot, BootDying, PublishReadiness, MarkLeaf, AwaitWorkers, PublishPropagation, ChildNotReady,
       ChildrenAccepted, AuthorizeRetirement, RetireSelf, Stop, Violate, FinishStop, InvokeHold,
       StartWorker, AcceptChild, StopNode
<1>4. ASSUME NEW n \in Tree,
             \/ LaunchIntent(n) \/ Reconcile(n) \/ RecordRejection(n) \/ RecordChild(n)
             \/ SettleChild(n) \/ MonitorSees(n) \/ CreateHold(n) \/ WorkerFails(n)
             \/ MonitorExpires(n) \/ Crash(n) \/ CallFails(n) \/ TimeOut(n) \/ StateAges(n)
      PROVE  UNCHANGED ec2
  BY <1>4 DEF LaunchIntent, Reconcile, RecordRejection, RecordChild, SettleChild, MonitorSees,
       CreateHold, WorkerFails, MonitorExpires, Crash, CallFails, TimeOut, StateAges, Latch
<1>5. CASE StartDeleting \/ Operator \/ UNCHANGED vars
  BY <1>5 DEF StartDeleting, Operator, StopFamily, HoldFamily, ClearHold, BeginCleanup, vars
<1> QED BY <1>1, <1>2, <1>3, <1>4, <1>5
        DEF Next, ProcessStep, DaemonStep, WorkerStep, EnvironmentStep, FaultStep

LEMMA DaemonKeepsRetirements ==
  ASSUME Tables, Processes, Others, Retirements, NEW n \in Tree,
         \/ Boot(n) \/ BootDying(n) \/ PublishReadiness(n) \/ MarkLeaf(n) \/ AwaitWorkers(n)
         \/ PublishPropagation(n) \/ ChildNotReady(n) \/ Stop(n) \/ Violate(n)
         \/ FinishStop(n) \/ InvokeHold(n)
         \/ \E m \in Tree : StartWorker(n, m) \/ AcceptChild(n, m) \/ StopNode(n, m)
  PROVE  KeepsRetirements
<1> USE DEF KeepsRetirements, hosts, log, controls, RetiringPc
<1>0. n \in Node BY DEF Tree
<1>1. CASE Boot(n)
  <2>1. \A k \in Node :
            /\ db'[k].node = IF k = n THEN db'[n].node ELSE db[k].node
            /\ db'[k].res = IF k = n THEN db'[n].res ELSE db[k].res
            /\ run'[k].pc = IF k = n THEN "top" ELSE run[k].pc
            /\ db'[k].sub = db[k].sub
    BY <1>1, BootEffect
  <2>2. /\ db'[n].node = db[n].node \/ (db[n].node = "none" /\ db'[n].node \in {"OWNER", "CANDIDATE"})
        /\ db'[n].res \in {db[n].res, "recorded"} /\ ec2[n] = "running"
    BY <1>1, BootEffect
  <2>3. db[n].res # "gone" BY <2>2 DEF Retirements, RetirementAt, Gone
  <2> QED BY <1>0, <1>1, <2>1, <2>2, <2>3 DEF Boot, Owned
<1>0a. CASE BootDying(n)
  BY <1>0, <1>0a, BootDyingEffect
<1>2. CASE PublishReadiness(n)
  BY <1>0, <1>2, WriteState, BeginLaunchEffect DEF PublishReadiness
<1>3. CASE MarkLeaf(n)
  BY <1>3, WriteNode DEF MarkLeaf, OwnerCheck, Owned
<1>4. CASE AwaitWorkers(n)
  BY <1>0, <1>4, AwaitEffect DEF AwaitWorkers
<1>5. CASE PublishPropagation(n)
  BY <1>0, <1>5, PublishEffect DEF PublishPropagation
<1>6. CASE ChildNotReady(n)
  BY <1>0, <1>6, GotoPc DEF ChildNotReady, Label
<1>10. CASE Stop(n)
  BY <1>0, <1>10, GotoPc DEF Stop, Label
<1>11. CASE Violate(n)
  <2>1. \A k \in Node : run'[k].pc = IF k = n THEN "reporting" ELSE run[k].pc
    BY <1>0, <1>11, ViolateEffect
  <2>2. UNCHANGED <<shape, db, ec2>> BY <1>11 DEF Violate
  <2> QED BY <2>1, <2>2
<1>12. CASE FinishStop(n)
  BY <1>0, <1>12, GotoPc DEF FinishStop, Label
<1>13. CASE InvokeHold(n)
  BY <1>0, <1>13, SetProcess, OffFacts DEF InvokeHold
<1>14. ASSUME NEW m \in Tree, StartWorker(n, m) PROVE KeepsRetirements
  BY <1>14 DEF StartWorker
<1>15. ASSUME NEW m \in Tree, AcceptChild(n, m) PROVE KeepsRetirements
  BY <1>0, <1>15, WriteNode, GotoPc DEF AcceptChild, Owned, Label
<1>16. ASSUME NEW m \in Tree, StopNode(n, m) PROVE KeepsRetirements
  BY <1>16, WriteStop DEF StopNode
<1> QED BY <1>0a, <1>1, <1>2, <1>3, <1>4, <1>5, <1>6, <1>10, <1>11, <1>12, <1>13, <1>14, <1>15, <1>16

LEMMA OthersKeepRetirements ==
  ASSUME Tables, Processes, Others, Submissions, Retirements,
         \/ \E n \in Tree : MonitorSees(n) \/ EnvironmentStep(n) \/ FaultStep(n) \/ WorkerStep(n)
         \/ StartDeleting \/ Operator \/ UNCHANGED vars
  PROVE  KeepsRetirements
<1> USE DEF KeepsRetirements, hosts, log, controls, RetiringPc
<1>0. Tree \subseteq Node BY DEF Tree
<1>1. ASSUME NEW n \in Tree, MonitorSees(n) \/ MonitorExpires(n) PROVE KeepsRetirements
  BY <1>0, <1>1, LatchEffect DEF MonitorSees, MonitorExpires, Latch
<1>2. ASSUME NEW n \in Tree, CreateHold(n) PROVE KeepsRetirements
  BY <1>0, <1>2, WriteState DEF CreateHold
<1>3. ASSUME NEW n \in Tree,
             InstanceStarts(n) \/ RequestSettles(n) \/ WorkerFails(n) \/ Reconcile(n) \/ Send(n)
      PROVE KeepsRetirements
  BY <1>3 DEF InstanceStarts, RequestSettles, WorkerFails, Reconcile, Send, Becomes, Others, Ending
<1>4. ASSUME NEW n \in Tree, Crash(n) \/ InstanceStops(n) \/ Delete(n) \/ InstanceIsLost(n)
      PROVE KeepsRetirements
  <2>1. /\ UNCHANGED <<db, shape>>
        /\ \E p \in {Off, [Off EXCEPT !.pc = "ended"]} : run' = [run EXCEPT ![n] = p]
        /\ \/ UNCHANGED ec2 \/ Becomes(n, "lost")
           \/ Becomes(n, "terminated") /\ ec2[n] = "shutting-down"
    BY <1>4 DEF Crash, InstanceStops, Delete, InstanceIsLost, EndProcess
  <2>2. PICK p \in Process : run' = [run EXCEPT ![n] = p] /\ p.pc \in {"off", "ended"}
    BY <2>1, OffFacts
  <2>3. \A k \in Node : run'[k] = IF k = n THEN p ELSE run[k] BY <2>2, SetProcess
  <2> QED BY <1>0, <2>1, <2>2, <2>3 DEF Becomes, Others, Ending
<1>5. ASSUME NEW n \in Tree, CallFails(n) PROVE KeepsRetirements
  BY <1>0, <1>5, GotoPc DEF CallFails, Label
<1>6. ASSUME NEW n \in Tree, TimeOut(n) PROVE KeepsRetirements
  BY <1>0, <1>6, TimeOutEffect DEF TimeOut
<1>7. ASSUME NEW n \in Tree, StateAges(n) PROVE KeepsRetirements
  BY <1>0, <1>7, WriteState DEF StateAges
<1>8. ASSUME NEW n \in Tree, RecordChild(n) PROVE KeepsRetirements
  <2>1. db[n].sub = "intent" /\ n # Root
    BY <1>0, <1>8 DEF RecordChild, Working, Submissions, SubmissionAt
  <2>2. db[n].res # "gone" BY <2>1 DEF Retirements, RetirementAt
  <2> QED BY <1>0, <1>8, <2>2, WriteRes DEF RecordChild
<1>9. ASSUME NEW n \in Tree, LaunchIntent(n) \/ RecordRejection(n) \/ SettleChild(n)
      PROVE  KeepsRetirements
  <2>1. db[n].sub # "settled"
    BY <1>0, <1>9 DEF LaunchIntent, RecordRejection, SettleChild, Working, MaySubmit,
                      Submissions, SubmissionAt
  <2> QED BY <1>9, <2>1, WriteSub DEF LaunchIntent, RecordRejection, SettleChild
<1>10. CASE StartDeleting \/ Operator \/ UNCHANGED vars
  BY <1>10 DEF StartDeleting, Operator, StopFamily, HoldFamily, ClearHold, BeginCleanup, vars
<1> QED BY <1>1, <1>2, <1>3, <1>4, <1>5, <1>6, <1>7, <1>8, <1>9, <1>10
        DEF EnvironmentStep, FaultStep, WorkerStep

\* Who exists, but for the root, has a parent that is an owner and was settled itself.
LEMMA ParentOwned ==
  ASSUME Others, Submissions, Records, Heirs, NEW n \in Tree, n # Root, ec2[n] # "none"
  PROVE  /\ Parent(n) \in Tree /\ Parent(n) \in Node /\ db[Parent(n)].node \in Owned
         /\ ec2[Parent(n)] \in Exists /\ (Parent(n) = Root \/ db[Parent(n)].sub = "settled")
<1>1. n \in Node /\ db[n].sub # "none" BY DEF Tree, Submissions, SubmissionAt
<1>2. Parent(n) \in Tree /\ Parent(n) \in Node /\ db[Parent(n)].node \in Owned
  BY <1>1 DEF Heirs, HeirAt, Tree
<1> QED BY <1>2 DEF Heirs, HeirAt, Records, RecordAt

\* The steps by which a node loses its parent, is retired and terminates itself
LEMMA RetirementStep ==
  ASSUME Tables, Processes, Others, Submissions, Records, Heirs, Receipts, Retirements, [Next]_vars
  PROVE  Retirements'
<1> USE DEF hosts, log, controls
<1>0. /\ Tree \subseteq Node
      /\ \A k \in Tree : \A c \in Children(k) : c \in Tree \ {Root} /\ Parent(c) = k
  BY TreeFacts DEF Others
<1>1. GoneStays BY GoneStep
<1>2. \A n \in Tree : run[n].pc \in RetiringPc \/ db[n].node = "RETIRING"
                         => n = Root \/ Parent(n) \in Node
  <2>1. \A n \in Tree : run[n].pc \in RetiringPc => ec2[n] # "none"
    BY <1>0 DEF RetiringPc, Records, RecordAt, Exists
  <2>2. \A n \in Tree : db[n].node = "RETIRING" => n = Root \/ ec2[n] # "none"
    BY <1>0 DEF Heirs, HeirAt, Records, RecordAt, Exists, Owned
  <2> QED BY <2>1, <2>2, ParentOwned
<1>3. KeepsRetirements => Retirements' BY <1>1, <1>2, RetirementFrame
<1>4. ASSUME NEW n \in Tree, NEW next \in {"authorize", "terminate", "top"}, ParentGate(n, next),
             UNCHANGED <<shape, ec2>>, At(n, run[n].pc),
             next = "terminate" => db[n].node = "RETIRING"
      PROVE  Retirements'
  <2>1. n = Root \/ (Parent(n) \in Tree /\ Parent(n) \in Node /\ (Parent(n) = Root \/ db[Parent(n)].sub = "settled"))
    BY <1>4, ParentOwned DEF At
  <2>2. Tree' = Tree /\ \A k : Children(k)' = Children(k) BY <1>4, SameTree
  <2>3. /\ \A k \in Node :
              /\ db'[k].node = db[k].node /\ db'[k].sub = db[k].sub
              /\ \/ db'[k].res = db[k].res
                 \/ /\ db'[k].res = "gone" /\ k = Parent(n)
                    /\ n # Root /\ ec2[Parent(n)] \in Gone
              /\ run'[k].pc = IF k = n THEN run'[n].pc ELSE run[k].pc
        /\ \/ run'[n].pc \in {"top", "violated"}
           \/ /\ run'[n].pc = next
              /\ n # Root => ec2[Parent(n)] \in Gone
              /\ n # Root /\ Parent(n) \in Node => db'[Parent(n)].res = "gone"
    BY <1>0, <1>4, GateEffect DEF Label
  <2>4. RetiresInOrder'
    BY <1>0, <1>2, <1>4, <2>2, <2>3 DEF Retirements, RetiresInOrder
  <2>5. ASSUME NEW k \in Tree PROVE RetirementAt(k)'
    BY <1>0, <1>2, <1>4, <2>1, <2>3, <2>5 DEF Retirements, RetirementAt, ParentGone, RetiringPc
  <2> QED BY <2>2, <2>4, <2>5 DEF Retirements
<1>5. ASSUME NEW n \in Tree, ChildrenAccepted(n) PROVE Retirements'
  BY <1>4, <1>5 DEF ChildrenAccepted, Free, At
<1>6. ASSUME NEW n \in Tree, RetireSelf(n) PROVE Retirements'
  <2>1. Authorized(n, "RETIRING") => db[n].node = "RETIRING" BY DEF Authorized
  <2> QED BY <1>4, <1>6, <2>1 DEF RetireSelf, Free, At
<1>7. ASSUME NEW n \in Tree, AuthorizeRetirement(n) PROVE Retirements'
  <2>1. CASE /\ Authorized(n, "OWNER") /\ Write(n, "node", "RETIRING") /\ Goto(n, "retire")
    <3>1. Tree' = Tree /\ \A k : Children(k)' = Children(k)
      BY <1>7, SameTree DEF AuthorizeRetirement
    <3>2. ParentGone(n)
      BY <1>7 DEF AuthorizeRetirement, Free, At, Retirements, RetirementAt
    <3>3. \A c \in Children(n) : db[c].node \in Owned /\ \A g \in Children(c) : db[g].sub = "settled"
      BY <1>0, <2>1 DEF Authorized, Continues, Receipts, ReceiptAt, Owned
    <3>4. n = Root \/ Parent(n) \in Node BY <1>2, <1>7 DEF AuthorizeRetirement, Free, At, RetiringPc
    <3>5. \A k \in Node :
              /\ db'[k].node = IF k = n THEN "RETIRING" ELSE db[k].node
              /\ db'[k].sub = db[k].sub /\ db'[k].res = db[k].res
              /\ run'[k].pc = IF k = n THEN "retire" ELSE run[k].pc
      BY <1>0, <2>1, WriteNode, GotoPc DEF Owned, Label
    <3>6. UNCHANGED ec2 BY <1>7 DEF AuthorizeRetirement
    <3>7. ASSUME NEW k \in Tree
          PROVE  (/\ ec2[k] \in {"shutting-down", "terminated"} => db[k].node = "RETIRING"
                  /\ db[k].node = "RETIRING" =>
                        /\ k # Root => ec2[Parent(k)] \in Gone /\ db[Parent(k)].res = "gone"
                        /\ \A c \in Children(k) :
                              db[c].node \in Owned /\ \A g \in Children(c) : db[g].sub = "settled")'
      <4>1. k \in Node /\ (db'[k].node = "RETIRING" => k = Root \/ Parent(k) \in Node)
        BY <1>0, <1>2, <3>4, <3>5
      <4>2. db'[k].node = "RETIRING" /\ k # Root
               => ec2[Parent(k)] \in Gone /\ db[Parent(k)].res = "gone"
        BY <1>0, <3>2, <3>5, <4>1 DEF Retirements, RetiresInOrder, ParentGone
      <4>3. db'[k].node = "RETIRING" => \A c \in Children(k) :
               c \in Node /\ db[c].node \in Owned
                          /\ \A g \in Children(c) : g \in Node /\ db[g].sub = "settled"
        BY <1>0, <3>3, <3>5, <4>1 DEF Retirements, RetiresInOrder
      <4>4. ec2[k] \in {"shutting-down", "terminated"} => db'[k].node = "RETIRING"
        BY <1>0, <3>5 DEF Retirements, RetiresInOrder
      <4> QED BY <3>1, <3>5, <3>6, <4>1, <4>2, <4>3, <4>4 DEF Owned
    <3>8. RetiresInOrder' BY <3>1, <3>7 DEF RetiresInOrder
    <3>9. ASSUME NEW k \in Tree PROVE RetirementAt(k)'
      BY <1>0, <1>2, <3>2, <3>4, <3>5, <3>6, <3>9
         DEF Retirements, RetirementAt, ParentGone, RetiringPc
    <3> QED BY <3>1, <3>8, <3>9 DEF Retirements
  <2>2. CASE (Goto(n, "top") \/ Goto(n, "violated")) /\ UNCHANGED db
    <3>1. KeepsRetirements
      BY <1>0, <1>7, <2>2, GotoPc DEF KeepsRetirements, AuthorizeRetirement, Label, RetiringPc
    <3> QED BY <1>3, <3>1
  <2> QED BY <1>7, <2>1, <2>2 DEF AuthorizeRetirement
<1>8. ASSUME NEW n \in Tree, TerminateSelf(n) PROVE Retirements'
  <2>1. Tree' = Tree /\ \A k : Children(k)' = Children(k) BY <1>8, SameTree DEF TerminateSelf
  <2>2. db[n].node = "RETIRING" BY <1>8 DEF TerminateSelf, At, Retirements, RetirementAt
  <2>3. /\ UNCHANGED db
        /\ \A k \in Node :
              /\ ec2'[k] \in Ending => k = n \/ ec2[k] \in Ending
              /\ run'[k].pc \in RetiringPc => run'[k].pc = run[k].pc
    BY <1>0, <1>8, GotoPc DEF TerminateSelf, Others, Label, RetiringPc, Ending
  <2>4. RetiresInOrder'
    BY <1>0, <1>1, <1>2, <2>1, <2>2, <2>3 DEF Retirements, RetiresInOrder, GoneStays, Ending
  <2>5. (\A k \in Tree : RetirementAt(k))'
    BY <1>0, <1>1, <1>2, <2>1, <2>3
       DEF Retirements, RetirementAt, ParentGone, GoneStays, RetiringPc
  <2> QED BY <2>4, <2>5 DEF Retirements
<1> QED BY <1>3, <1>5, <1>6, <1>7, <1>8, DaemonKeepsRetirements, OthersKeepRetirements
        DEF Next, ProcessStep, DaemonStep

-----------------------------------------------------------------------------
(* A line of single children: ThreeGenerations *)

\* A line grows at its end only.
LEMMA LineGrows ==
  ASSUME NEW L, L \subseteq Nat \ {0}, IsLine(L), NEW p \in L, 2 * p \notin L
  PROVE  /\ IsLine(L \cup {2 * p})
         /\ \A y \in L : y <= p
         /\ \A x \in L : 8 * x <= 2 * p => 8 * x <= p \/ p = 4 * x
<1>1. \A y \in L : y <= p BY DEF IsLine
<1>2. \A x, y \in L \cup {2 * p} : x < y => 2 * x \in L \cup {2 * p} /\ 2 * x <= y
  <2>1. ASSUME NEW x \in L, x < 2 * p PROVE 2 * x \in L \cup {2 * p} /\ 2 * x <= 2 * p
    <3>1. CASE x = p BY <3>1
    <3>2. CASE x < p BY <3>2 DEF IsLine
    <3> QED BY <1>1, <3>1, <3>2
  <2>2. \A y \in L : ~(2 * p < y) BY <1>1
  <2> QED BY <2>1, <2>2 DEF IsLine
<1>3. \E top \in L \cup {2 * p} : \A y \in L \cup {2 * p} : y <= top
  <2>1. \A y \in L \cup {2 * p} : y <= 2 * p BY <1>1
  <2> QED BY <2>1
<1>4. ASSUME NEW x \in L, 8 * x <= 2 * p PROVE 8 * x <= p \/ p = 4 * x
  <2>1. x < p /\ 2 * x \in L /\ 2 * x <= p BY <1>4 DEF IsLine
  <2>2. 2 * x < p BY <1>4, <2>1
  <2>3. 4 * x \in L /\ 4 * x <= p
    <3>1. 2 * (2 * x) \in L /\ 2 * (2 * x) <= p BY <2>1, <2>2 DEF IsLine
    <3> QED BY <3>1
  <2>4. CASE 4 * x < p
    <3>1. 2 * (4 * x) <= p BY <2>3, <2>4 DEF IsLine
    <3> QED BY <3>1
  <2> QED BY <2>3, <2>4
<1> QED BY <1>1, <1>2, <1>3, <1>4 DEF IsLine

KeepsLine ==
    /\ shape' = shape /\ accepted' = accepted
    /\ \A k \in Node :
        /\ run'[k].pc = "launch" => run[k].pc = "launch"
        /\ work'[k] \in {"begin", "send"} => work[k] \in {"begin", "send"}

LEMMA LineFrame ==
  ASSUME Generations, GoneStays, KeepsLine
  PROVE  Generations'
<1>1. Tree' = Tree BY SameTree DEF KeepsLine
<1>2. Line' = Line BY <1>1 DEF Line, KeepsLine
<1>3. Tree \subseteq Node /\ Line \subseteq Node BY DEF Tree, Line
<1>4. \A n : MayLaunch(n) => MayLaunch(n)' BY DEF MayLaunch, GoneStays
<1> QED BY <1>1, <1>2, <1>3, <1>4 DEF Generations, KeepsLine, GoneStays

LEMMA DaemonKeepsLine ==
  ASSUME Tables, Processes, Others, NEW n \in Tree,
         \/ Boot(n) \/ BootDying(n) \/ MarkLeaf(n) \/ AwaitWorkers(n)
         \/ PublishPropagation(n) \/ ChildNotReady(n) \/ ChildrenAccepted(n)
         \/ AuthorizeRetirement(n) \/ RetireSelf(n) \/ TerminateSelf(n)
         \/ Stop(n) \/ Violate(n) \/ FinishStop(n) \/ InvokeHold(n)
         \/ \E m \in Tree : AcceptChild(n, m) \/ StopNode(n, m)
  PROVE  KeepsLine
<1> USE DEF KeepsLine, hosts, log, controls
<1>0. n \in Node BY DEF Tree
<1>1. CASE Boot(n)
  <2>1. \A k \in Node : run'[k].pc = IF k = n THEN "top" ELSE run[k].pc BY <1>1, BootEffect
  <2> QED BY <1>1, <2>1 DEF Boot
<1>0a. CASE BootDying(n)
  BY <1>0, <1>0a, BootDyingEffect
<1>2. CASE MarkLeaf(n)
  BY <1>2 DEF MarkLeaf
<1>3. CASE AwaitWorkers(n)
  BY <1>0, <1>3, AwaitEffect DEF AwaitWorkers, Dismiss
<1>4. CASE PublishPropagation(n)
  BY <1>0, <1>4, PublishEffect DEF PublishPropagation
<1>5. CASE ChildNotReady(n)
  BY <1>0, <1>5, GotoPc DEF ChildNotReady, Label
<1>6. CASE ChildrenAccepted(n)
  BY <1>0, <1>6, GateEffect DEF ChildrenAccepted, Label
<1>7. CASE AuthorizeRetirement(n)
  BY <1>0, <1>7, GotoPc DEF AuthorizeRetirement, Label
<1>8. CASE RetireSelf(n)
  BY <1>0, <1>8, GateEffect DEF RetireSelf, Label
<1>9. CASE TerminateSelf(n)
  BY <1>0, <1>9, GotoPc DEF TerminateSelf, Label
<1>10. CASE Stop(n)
  BY <1>0, <1>10, GotoPc DEF Stop, Label
<1>11. CASE Violate(n)
  <2>1. \A k \in Node : run'[k].pc = IF k = n THEN "reporting" ELSE run[k].pc
    BY <1>0, <1>11, ViolateEffect
  <2>2. UNCHANGED <<shape, accepted, work>> BY <1>11 DEF Violate
  <2> QED BY <2>1, <2>2
<1>12. CASE FinishStop(n)
  BY <1>0, <1>12, GotoPc DEF FinishStop, Dismiss, Label
<1>13. CASE InvokeHold(n)
  BY <1>0, <1>13, SetProcess, OffFacts DEF InvokeHold
<1>14. ASSUME NEW m \in Tree, AcceptChild(n, m) PROVE KeepsLine
  BY <1>0, <1>14, GotoPc DEF AcceptChild, Label
<1>15. ASSUME NEW m \in Tree, StopNode(n, m) PROVE KeepsLine
  BY <1>15 DEF StopNode
<1> QED BY <1>0a, <1>1, <1>2, <1>3, <1>4, <1>5, <1>6, <1>7, <1>8, <1>9, <1>10, <1>11, <1>12,
           <1>13, <1>14, <1>15

LEMMA OthersKeepLine ==
  ASSUME Tables, Processes, Others,
         \/ \E n \in Tree : \/ MonitorSees(n) \/ EnvironmentStep(n) \/ FaultStep(n)
                            \/ LaunchIntent(n) \/ Reconcile(n) \/ RecordRejection(n)
                            \/ RecordChild(n) \/ SettleChild(n)
         \/ StartDeleting \/ Operator \/ UNCHANGED vars
  PROVE  KeepsLine
<1> USE DEF KeepsLine, hosts, log, controls
<1>0. Tree \subseteq Node BY DEF Tree
<1>1. ASSUME NEW n \in Tree, MonitorSees(n) \/ MonitorExpires(n) PROVE KeepsLine
  BY <1>0, <1>1, LatchEffect DEF MonitorSees, MonitorExpires, Latch
<1>2. ASSUME NEW n \in Tree,
             \/ CreateHold(n) \/ InstanceStarts(n) \/ RequestSettles(n) \/ StateAges(n)
             \/ WorkerFails(n) \/ Reconcile(n) \/ LaunchIntent(n) \/ RecordRejection(n)
             \/ RecordChild(n) \/ SettleChild(n)
      PROVE KeepsLine
  BY <1>0, <1>2 DEF CreateHold, InstanceStarts, RequestSettles, StateAges, WorkerFails, Reconcile,
       LaunchIntent, RecordRejection, RecordChild, SettleChild, Others, Working
<1>3. ASSUME NEW n \in Tree, Crash(n) \/ InstanceStops(n) \/ Delete(n) \/ InstanceIsLost(n)
      PROVE KeepsLine
  <2>1. /\ UNCHANGED <<accepted, shape>> /\ Dismiss(n)
        /\ \E p \in {Off, [Off EXCEPT !.pc = "ended"]} : run' = [run EXCEPT ![n] = p]
    BY <1>3 DEF Crash, InstanceStops, Delete, InstanceIsLost, EndProcess
  <2>2. PICK p \in Process : run' = [run EXCEPT ![n] = p] /\ p.pc \in {"off", "ended"}
    BY <2>1, OffFacts
  <2>3. \A k \in Node : run'[k] = IF k = n THEN p ELSE run[k] BY <2>2, SetProcess
  <2> QED BY <1>0, <2>1, <2>2, <2>3 DEF Dismiss
<1>4. ASSUME NEW n \in Tree, CallFails(n) PROVE KeepsLine
  BY <1>0, <1>4, GotoPc DEF CallFails, Label
<1>5. ASSUME NEW n \in Tree, TimeOut(n) PROVE KeepsLine
  BY <1>0, <1>5, TimeOutEffect DEF TimeOut
<1>6. CASE StartDeleting \/ Operator \/ UNCHANGED vars
  BY <1>6 DEF StartDeleting, Operator, StopFamily, HoldFamily, ClearHold, BeginCleanup, vars
<1> QED BY <1>1, <1>2, <1>3, <1>4, <1>5, <1>6 DEF EnvironmentStep, FaultStep

\* The steps that begin a launch, start its worker and send it
LEMMA LineStep ==
  ASSUME Tables, Processes, Others, Submissions, Records, Heirs, Generations, [Next]_vars
  PROVE  Generations'
<1> USE DEF hosts, log, controls
<1>0. /\ Tree \subseteq Node /\ Root \in Tree
      /\ \A k \in Tree : \A c \in Children(k) : c \in Tree \ {Root} /\ Parent(c) = k
      /\ \A c \in Tree \ {Root} : c \in Children(Parent(c))
      /\ \A k \in Tree : k \in Nat \ {0}
  BY TreeFacts, NodeAssumption DEF Others
<1>1. GoneStays BY GoneStep
<1>2. KeepsLine => Generations' BY <1>1, LineFrame
<1>3. \A n : MayLaunch(n) => MayLaunch(n)' BY <1>1 DEF MayLaunch, GoneStays
<1>4. ASSUME NEW n \in Tree, PublishReadiness(n) PROVE Generations'
  <2>1. CASE UNCHANGED run
    <3>1. KeepsLine BY <1>4, <2>1 DEF KeepsLine, PublishReadiness
    <3> QED BY <1>2, <3>1
  <2>2. CASE BeginLaunch(n)
    <3>1. Tree' = Tree BY <1>4, SameTree DEF PublishReadiness
    <3>2. Line' = Line BY <1>4, <3>1 DEF Line, PublishReadiness
    <3>3. \A k \in Node : run'[k].pc = IF k = n THEN run'[n].pc ELSE run[k].pc
      BY <1>0, <2>2, BeginLaunchEffect
    <3>4. ~shape.binary /\ run'[n].pc = "launch" => MayLaunch(n)
      <4>1. n = Root \/ Parent(n) = Root \/ Parent(Parent(n)) \in Node
        BY <1>0, <1>4, ParentOwned DEF PublishReadiness, Free, At, Exists
      <4> QED BY <1>0, <2>2, <4>1, BeginLaunchEffect DEF MayLaunch, SingleLaunchReady
    <3> QED BY <1>0, <1>1, <1>3, <1>4, <3>1, <3>2, <3>3, <3>4
            DEF Generations, PublishReadiness
  <2> QED BY <1>4, <2>1, <2>2 DEF PublishReadiness
<1>5. ASSUME NEW n \in Tree, NEW m \in Tree, StartWorker(n, m) PROVE Generations'
  <2>1. Tree' = Tree BY <1>5, SameTree DEF StartWorker
  <2>2. Line' = Line BY <1>5, <2>1 DEF Line, StartWorker
  <2>3. ~shape.binary => MayLaunch(Parent(m))
    BY <1>0, <1>5 DEF StartWorker, Free, At, Generations
  <2>4. \A k \in Node : work'[k] = IF k = m THEN "begin" ELSE work[k]
    BY <1>5 DEF StartWorker, Others
  <2> QED BY <1>0, <1>1, <1>3, <1>5, <2>1, <2>2, <2>3, <2>4 DEF Generations, StartWorker
<1>6. ASSUME NEW c \in Tree, Send(c) PROVE Generations'
  <2> DEFINE p == Parent(c)
  <2>1. /\ c # Root /\ accepted[c] = 0 /\ db[c].sub = "intent" /\ work[c] = "send"
    BY <1>0, <1>6 DEF Send, Working, Submissions, SubmissionAt
  <2>2. p \in Tree /\ db[p].node \in Owned BY <2>1 DEF Heirs, HeirAt
  <2>3. p \in Line
    BY <1>0, <2>2 DEF Line, Heirs, HeirAt, Records, RecordAt, Submissions, SubmissionAt, Exists
  <2>4. Tree' = Tree BY <1>6, SameTree DEF Send
  <2>5. CASE accepted' = accepted
    <3>1. KeepsLine BY <1>0, <1>6, <2>5 DEF KeepsLine, Send, Others
    <3> QED BY <1>2, <3>1
  <2>6. CASE accepted' = [accepted EXCEPT ![c] = @ + 1] /\ ~shape.binary
    <3>1. c = 2 * p BY <1>0, <2>1, <2>6 DEF Children
    <3>2. Line' = Line \cup {2 * p} /\ 2 * p \notin Line
      BY <1>0, <2>1, <2>4, <2>6, <3>1 DEF Line, Others
    <3>3. Line \subseteq Nat \ {0} /\ IsLine(Line) BY <1>0, <2>6 DEF Line, Generations
    <3>4. /\ IsLine(Line \cup {2 * p}) /\ \A y \in Line : y <= p
          /\ \A x \in Line : 8 * x <= 2 * p => 8 * x <= p \/ p = 4 * x
      <4> HIDE DEF p
      <4> QED BY <2>3, <3>2, <3>3, LineGrows
    <3>5. IsLine(Line)' BY <3>2, <3>4 DEF IsLine
    <3>6. ASSUME NEW x \in Line, NEW y \in Line', 8 * x <= y PROVE ec2[x] \in Gone
      <4>1. CASE y \in Line BY <2>6, <3>6, <4>1 DEF Generations
      <4>2. CASE y = 2 * p /\ 8 * x <= p BY <2>3, <2>6, <4>2 DEF Generations
      <4>3. CASE p = 4 * x
        <5>1. x \in Nat \ {0} BY <3>3
        <5>2. p # Root /\ Parent(p) # Root /\ Parent(Parent(p)) = x
          BY <4>3, <5>1 DEF Parent, Root
        <5>3. MayLaunch(p) BY <2>1, <2>6 DEF Generations
        <5> QED BY <5>2, <5>3 DEF MayLaunch
      <4> QED BY <3>2, <3>4, <3>6, <4>1, <4>2, <4>3
    <3>7. ASSUME NEW x \in Line', NEW y \in Line', 8 * x <= y PROVE ec2'[x] \in Gone
      <4>1. x \in Line
        <5>1. p \in Nat \ {0} /\ y \in Nat /\ y <= 2 * p
          <6> HIDE DEF p
          <6> QED BY <2>3, <3>2, <3>3, <3>4
        <5>2. x # 2 * p
          <6> HIDE DEF p
          <6> QED BY <3>7, <5>1
        <5> QED BY <3>2, <5>2
      <4> QED BY <1>0, <1>1, <3>6, <3>7, <4>1 DEF Line, GoneStays
    <3>8. \A k \in Node : work'[k] \in {"begin", "send"} => work[k] \in {"begin", "send"}
      BY <1>0, <1>6 DEF Send, Others
    <3> QED BY <1>0, <1>3, <1>6, <2>4, <3>5, <3>7, <3>8, <2>6 DEF Generations, Send
  <2>7. CASE shape.binary BY <1>6, <2>7 DEF Generations, Send
  <2> QED BY <1>6, <2>5, <2>6, <2>7 DEF Send
<1> QED BY <1>2, <1>4, <1>5, <1>6, DaemonKeepsLine, OthersKeepLine
        DEF Next, ProcessStep, DaemonStep, WorkerStep

\* Of a line without a gap at most the last three exist.
LEMMA LineBounds ==
  ASSUME Others, Submissions, Generations
  PROVE  ThreeGenerations
<1> SUFFICES ASSUME ~shape.binary
             PROVE  Cardinality({n \in Tree : ec2[n] \in Occupied}) <= 3
  BY DEF ThreeGenerations
<1> DEFINE S == {n \in Tree : ec2[n] \in Occupied}
<1>1. Line \subseteq Nat \ {0} /\ S \subseteq Line
  BY NodeAssumption DEF Line, Tree, Occupied, Submissions, SubmissionAt
<1>2. PICK t \in Line : \A y \in Line : y <= t BY DEF Generations, IsLine
<1>3. ASSUME NEW y \in S PROVE y \in {t, t \div 2, t \div 4}
  <2>1. y \in Line /\ y \in Nat \ {0} /\ t \in Nat \ {0} /\ y <= t BY <1>1, <1>2, <1>3
  <2>2. ~(8 * y <= t) BY <1>2, <1>3, <2>1 DEF Generations, Occupied, Gone
  <2>3. CASE y = t BY <2>3
  <2>4. CASE y < t
    <3>1. 2 * y \in Line /\ 2 * y <= t BY <1>2, <2>1, <2>4 DEF Generations, IsLine
    <3>2. CASE 2 * y = t BY <2>1, <3>2
    <3>3. CASE 2 * y < t
      <4>1. 2 * (2 * y) \in Line /\ 2 * (2 * y) <= t BY <1>2, <2>1, <3>1, <3>3 DEF Generations,
                                                        IsLine
      <4>2. CASE 4 * y < t
        <5>1. 2 * (2 * (2 * y)) <= t BY <1>2, <2>1, <4>1, <4>2 DEF Generations, IsLine
        <5> QED BY <2>1, <2>2, <5>1
      <4> QED BY <2>1, <4>1, <4>2
    <3> QED BY <2>1, <3>1, <3>2, <3>3
  <2> QED BY <2>1, <2>3, <2>4
<1>4. S \subseteq {t, t \div 2, t \div 4} BY <1>3
<1> HIDE DEF S
<1>5. IsFiniteSet({t, t \div 2, t \div 4}) /\ Cardinality({t, t \div 2, t \div 4}) <= 3
  <2>1. ASSUME NEW A, NEW k \in Nat, IsFiniteSet(A), Cardinality(A) <= k, NEW x
        PROVE  IsFiniteSet(A \cup {x}) /\ Cardinality(A \cup {x}) <= k + 1
    <3> DEFINE card(X) == Cardinality(X)
    <3>1. IsFiniteSet(A \cup {x}) BY <2>1, FS_AddElement
    <3>2. card(A) \in Nat BY <2>1, FS_CardinalityType
    <3>3. card(A \cup {x}) = card(A) \/ card(A \cup {x}) = card(A) + 1 BY <2>1, FS_AddElement
    <3>4. card(A) <= k BY <2>1
    <3> HIDE DEF card
    <3>5. card(A \cup {x}) <= k + 1 BY <3>2, <3>3, <3>4
    <3> QED BY <3>1, <3>5 DEF card
  <2>2. IsFiniteSet({t}) /\ Cardinality({t}) <= 1 BY FS_Singleton
  <2>3. IsFiniteSet({t} \cup {t \div 2}) /\ Cardinality({t} \cup {t \div 2}) <= 2
    <3>1. Cardinality({t} \cup {t \div 2}) <= 1 + 1 /\ IsFiniteSet({t} \cup {t \div 2})
      BY <2>1, <2>2
    <3> QED BY <3>1
  <2>5. IsFiniteSet(({t} \cup {t \div 2}) \cup {t \div 4})
        /\ Cardinality(({t} \cup {t \div 2}) \cup {t \div 4}) <= 3
    <3> DEFINE A == {t} \cup {t \div 2}
    <3>1. IsFiniteSet(A) /\ Cardinality(A) <= 2 BY <2>3
    <3> HIDE DEF A
    <3>2. IsFiniteSet(A \cup {t \div 4}) /\ Cardinality(A \cup {t \div 4}) <= 2 + 1 BY <2>1, <3>1
    <3>3. Cardinality(A \cup {t \div 4}) <= 3 BY <3>2
    <3> QED BY <3>2, <3>3 DEF A
  <2>4. ({t} \cup {t \div 2}) \cup {t \div 4} = {t, t \div 2, t \div 4} OBVIOUS
  <2> QED BY <2>5, <2>4
<1>6. Cardinality(S) <= Cardinality({t, t \div 2, t \div 4}) /\ IsFiniteSet(S)
  BY <1>4, <1>5, FS_Subset
<1>7. Cardinality(S) \in Nat /\ Cardinality({t, t \div 2, t \div 4}) \in Nat
  BY <1>5, <1>6, FS_CardinalityType
<1>8. Cardinality(S) <= 3 BY <1>5, <1>6, <1>7
<1> QED BY <1>8 DEF S

-----------------------------------------------------------------------------
(* Harmless upsets: NoSelfInflictedHold *)

\* Nobody ends but who is retiring, so that the ancestors of a node are lawful.
LEMMA LawfulParent ==
  ASSUME Others, Submissions, Records, Heirs, Retirements, Peace,
         NEW n \in Tree, n # Root, ec2[n] # "none"
  PROVE  Parent(n) \in Tree /\ ec2[Parent(n)] # "none" /\ Lawful(Parent(n))
<1>1. Parent(n) \in Tree /\ Parent(n) \in Node /\ ec2[Parent(n)] \in Exists BY ParentOwned
<1>2. ec2[Parent(n)] # "lost" BY <1>1 DEF Peace, CalmAt
<1> QED BY <1>1, <1>2 DEF Exists, Lawful, Retirements, RetiresInOrder

\* At peace no step of a daemon leads to a stop or a violation,
LEMMA DaemonKeepsPeace ==
  ASSUME Tables, Processes, Others, Submissions, Records, Heirs, Retirements, Peace,
         blame' \subseteq Harmless, NEW n \in Tree, DaemonStep(n)
  PROVE  Peace'
<1> USE DEF hosts, log, controls, Peace, CalmAt
<1>0. /\ n \in Node /\ run[n].pc \notin {"violated", "reporting", "stopping"}
      /\ ~run[n].stopped /\ run[n].wait # "over" /\ ~disk[n]
      /\ run[n].pc # "ended" => ec2[n] # "shutting-down"
  BY DEF Tree
<1>0a. ~BootDying(n) BY <1>0, BootDyingEffect
<1>1. CASE Boot(n)
  <2>1. \A k \in Node :
            /\ run'[k].pc = IF k = n THEN "top" ELSE run[k].pc
            /\ run'[k].wait = IF k = n THEN "none" ELSE run[k].wait
            /\ IF k = n THEN run'[k].stopped <=> disk[k] ELSE run'[k].stopped <=> run[k].stopped
            /\ db'[k].stop <=> db[k].stop
    BY <1>1, BootEffect
  <2>2. UNCHANGED <<hold, enabled, phase, invoked, disk, work, ec2>> /\ ec2[n] = "running"
    BY <1>1 DEF Boot
  <2> QED BY <1>0, <2>1, <2>2
<1>2. CASE PublishReadiness(n)
  <2>1. \A k \in Node : db'[k].stop <=> db[k].stop BY <1>2, WriteState DEF PublishReadiness
  <2>2. /\ UNCHANGED <<hold, enabled, phase, invoked, disk, work, ec2>>
        /\ ec2[n] # "shutting-down"
    BY <1>0, <1>2 DEF PublishReadiness, Free, At
  <2>3. CASE BeginLaunch(n)
    <3>1. n # Root /\ Parent(n) # Root => Lawful(Parent(Parent(n)))
      BY <1>2, LawfulParent DEF PublishReadiness, Free, At
    <3>2. \A k \in Node :
              /\ run'[k].pc = IF k = n THEN run'[n].pc ELSE run[k].pc
              /\ run'[k].stopped <=> run[k].stopped
              /\ run'[k].wait = "over" => run[k].wait = "over"
      BY <1>0, <2>3, BeginLaunchEffect
    <3>3. run'[n].pc \in {"top", "launch"} BY <1>0, <2>3, <3>1, BeginLaunchEffect
    <3> QED BY <2>1, <2>2, <3>2, <3>3
  <2>4. CASE UNCHANGED run BY <2>1, <2>2, <2>4
  <2> QED BY <1>2, <2>3, <2>4 DEF PublishReadiness
<1>3. CASE MarkLeaf(n)
  <2>1. \A k \in Node : db'[k].stop <=> db[k].stop BY <1>3, WriteNode DEF MarkLeaf, Owned
  <2> QED BY <1>3, <2>1 DEF MarkLeaf
<1>4. CASE AwaitWorkers(n)
  <2>1. \A c \in Children(n) : work[c] # "violated" BY TreeFacts DEF Others
  <2>2. /\ run'[n].pc \in {"top", "propagate", "accept"}
        /\ \A k \in Node :
              /\ run'[k].pc = IF k = n THEN run'[n].pc ELSE run[k].pc
              /\ run'[k].stopped <=> run[k].stopped
              /\ run'[k].wait = run[k].wait
    BY <1>4, <2>1, AwaitEffect
  <2>3. /\ UNCHANGED <<db, hold, enabled, phase, invoked, disk, ec2>>
        /\ \A k \in Node : work'[k] \in {"idle", work[k]}
        /\ ec2[n] # "shutting-down"
    BY <1>0, <1>4 DEF AwaitWorkers, Dismiss, At
  <2> QED BY <2>2, <2>3
<1>5. CASE PublishPropagation(n)
  <2>1. /\ run'[n].pc \in {"top", "accept"}
        /\ \A k \in Node :
              /\ run'[k].pc = IF k = n THEN run'[n].pc ELSE run[k].pc
              /\ run'[k].stopped <=> run[k].stopped
              /\ run'[k].wait = run[k].wait
              /\ db'[k].stop <=> db[k].stop
    BY <1>0, <1>5, PublishEffect
  <2>2. /\ UNCHANGED <<hold, enabled, phase, invoked, disk, work, ec2>>
        /\ ec2[n] # "shutting-down"
    BY <1>0, <1>5 DEF PublishPropagation, Free, At
  <2> QED BY <2>1, <2>2
<1>6. ASSUME NEW l \in {"top", "authorize", "terminate", "propagate", "retire", "ended"}, Goto(n, l),
             \A k \in Node : /\ db'[k].stop <=> db[k].stop
                             /\ work'[k] \in {"idle", work[k]}
                             /\ ec2'[k] # "lost"
                             /\ ec2'[k] = "shutting-down" =>
                                    IF k = n THEN l = "ended" ELSE ec2[k] = ec2'[k],
             UNCHANGED <<hold, enabled, phase, invoked, disk>>
      PROVE  Peace'
  <2>1. \A k \in Node :
            /\ run'[k].pc = IF k = n THEN l ELSE run[k].pc
            /\ run'[k].stopped <=> run[k].stopped
            /\ run'[k].wait = run[k].wait
    BY <1>6, GotoPc DEF Label
  <2> QED BY <1>6, <2>1
<1>7. CASE ChildNotReady(n)
  BY <1>0, <1>6, <1>7 DEF ChildNotReady, Free, At
<1>8. ASSUME NEW l \in {"top", "authorize", "terminate"}, ParentGate(n, l),
             ec2[n] = "running",
             UNCHANGED <<hold, enabled, phase, invoked, disk, work, ec2>>
      PROVE  Peace'
  <2>1. n # Root => Lawful(Parent(n)) BY <1>8, LawfulParent
  <2>2. /\ run'[n].pc \in {"top", "authorize", "terminate"}
        /\ \A k \in Node :
              /\ run'[k].pc = IF k = n THEN run'[n].pc ELSE run[k].pc
              /\ run'[k].stopped <=> run[k].stopped
              /\ run'[k].wait = run[k].wait
              /\ db'[k].stop <=> db[k].stop
    BY <1>0, <1>8, <2>1, GateEffect DEF Label
  <2> QED BY <1>8, <2>2
<1>9. CASE ChildrenAccepted(n)
  BY <1>0, <1>8, <1>9 DEF ChildrenAccepted, Free, At
<1>10. CASE RetireSelf(n)
  BY <1>0, <1>8, <1>10 DEF RetireSelf, Free, At
<1>11. CASE AuthorizeRetirement(n)
  <2>1. \A k \in Node : db'[k].stop <=> db[k].stop
    BY <1>11, WriteNode DEF AuthorizeRetirement, Owned
  <2> QED BY <1>0, <1>6, <1>11, <2>1 DEF AuthorizeRetirement, Free, At
<1>12. CASE TerminateSelf(n)
  <2>1. ~Upset("unconfirmed") BY DEF Upset, Harmless
  <2>2. \A k \in Node : ec2'[k] # "lost" /\ (k # n => ec2'[k] = ec2[k])
    BY <1>12 DEF TerminateSelf, Others
  <2> QED BY <1>6, <1>12, <2>1, <2>2 DEF TerminateSelf
<1>13. ~Stop(n) /\ ~Violate(n) /\ ~FinishStop(n) /\ ~InvokeHold(n)
  BY <1>0 DEF Stop, Violate, FinishStop, InvokeHold, At
<1>14. ASSUME NEW m \in Tree, StartWorker(n, m) PROVE Peace'
  BY <1>14 DEF StartWorker, Others, Tree
<1>15. ASSUME NEW m \in Tree, AcceptChild(n, m) PROVE Peace'
  <2>1. CASE Write(m, "node", "OWNER") /\ UNCHANGED run
    <3>1. \A k \in Node : db'[k].stop <=> db[k].stop BY <2>1, WriteNode DEF Owned
    <3> QED BY <1>15, <2>1, <3>1 DEF AcceptChild
  <2>2. CASE Goto(n, "top") /\ UNCHANGED db
    BY <1>0, <1>6, <1>15, <2>2 DEF AcceptChild, Free, At
  <2> QED BY <1>15, <2>1, <2>2 DEF AcceptChild
<1>16. ASSUME NEW m \in Tree PROVE ~StopNode(n, m)
  BY <1>0 DEF StopNode, Stopped, At
<1> QED BY <1>0a, <1>1, <1>2, <1>3, <1>4, <1>5, <1>7, <1>9, <1>10, <1>11, <1>12, <1>13, <1>14, <1>15,
           <1>16 DEF DaemonStep

\* nor does a worker, a monitor, the environment or a harmless upset.
LEMMA OthersKeepPeace ==
  ASSUME Tables, Processes, Others, Submissions, Records, Heirs, Retirements, Peace,
         blame' \subseteq Harmless,
         \/ \E n \in Tree : WorkerStep(n) \/ MonitorSees(n) \/ EnvironmentStep(n) \/ FaultStep(n)
         \/ StartDeleting \/ Operator \/ UNCHANGED vars
  PROVE  Peace'
<1> USE DEF hosts, log, controls, Peace, CalmAt
<1>0. Tree \subseteq Node BY DEF Tree
<1>1. ASSUME NEW kind \in {"slow", "loss", "stop", "hold", "cleanup", "unconfirmed", "exhausted"}
      PROVE  ~Upset(kind)
  BY DEF Upset, Harmless
<1>2. ASSUME NEW c \in Tree, WorkerStep(c) \/ WorkerFails(c) PROVE Peace'
  <2>1. \A k \in Node : db'[k].stop <=> db[k].stop
    BY <1>2, WriteSub, WriteRes DEF WorkerStep, LaunchIntent, Reconcile, Send, RecordRejection,
         RecordChild, SettleChild, WorkerFails
  <2>2. UNCHANGED <<hold, enabled, phase, invoked, disk, run>>
    BY <1>2 DEF WorkerStep, LaunchIntent, Reconcile, Send, RecordRejection,
         RecordChild, SettleChild, WorkerFails
  <2>3. \A k \in Node : ec2'[k] # "lost" /\ (ec2'[k] = "shutting-down" => ec2[k] = ec2'[k])
    BY <1>2 DEF WorkerStep, LaunchIntent, Reconcile, Send, RecordRejection,
         RecordChild, SettleChild, WorkerFails, Others
  <2>4. \A k \in Node : work'[k] # "violated"
    <3>1. CASE Reconcile(c)
      <4>1. c # Root /\ ec2[Parent(c)] \in {"running", "shutting-down"}
        BY <3>1 DEF Reconcile, Working, Submissions
      <4>2. ec2[c] \notin Gone
        BY <1>0, <4>1 DEF Retirements, RetiresInOrder, Gone
      <4> QED BY <1>0, <3>1, <4>2 DEF Reconcile, Others
    <3>2. CASE LaunchIntent(c) \/ Send(c) \/ SettleChild(c) \/ RecordChild(c)
      BY <1>0, <3>2 DEF LaunchIntent, Send, SettleChild, RecordChild, Others
    <3>3. CASE RecordRejection(c) BY <1>0, <3>3 DEF RecordRejection, Bookkeeping, Others
    <3>4. CASE WorkerFails(c) BY <1>0, <1>1, <3>4 DEF WorkerFails, Others
    <3> QED BY <1>2, <3>1, <3>2, <3>3, <3>4 DEF WorkerStep
  <2> QED BY <2>1, <2>2, <2>3, <2>4
<1>3. ASSUME NEW n \in Tree PROVE ~MonitorSees(n) /\ ~MonitorExpires(n)
  <2>1. ~MonitorExpires(n) BY <1>1 DEF MonitorExpires
  <2>2. ASSUME MonitorSees(n) PROVE FALSE
    <3>1. n \in Node /\ run[n].pc # "off" BY <1>0, <2>2 DEF MonitorSees, Latch
    <3>2. n # Root => Parent(n) \in Node
      BY <3>1, ParentOwned DEF Records, RecordAt, Exists
    <3> QED BY <2>2, <3>1, <3>2 DEF MonitorSees, RemoteStop, PlainGate
  <2> QED BY <2>1, <2>2
<1>4. ASSUME NEW n \in Tree PROVE ~CreateHold(n) /\ ~TimeOut(n) /\ ~StateAges(n) /\ ~InstanceIsLost(n) /\ ~Delete(n)
  BY <1>1 DEF CreateHold, TimeOut, StateAges, InstanceIsLost, Delete
<1>5. ~StartDeleting /\ ~Operator
  BY <1>1 DEF StartDeleting, Operator, StopFamily, HoldFamily, ClearHold, BeginCleanup
<1>6. ASSUME NEW n \in Tree, InstanceStarts(n) \/ RequestSettles(n) PROVE Peace'
  <2>1. /\ UNCHANGED <<db, disk, hold, enabled, phase, invoked, run, work>>
        /\ \E s \in {"none", "pending", "running"} : Becomes(n, s)
    BY <1>6 DEF InstanceStarts, RequestSettles
  <2>2. \A k \in Node : ec2'[k] # "lost" /\ (ec2'[k] = "shutting-down" => ec2[k] = ec2'[k])
    BY <2>1 DEF Becomes, Others
  <2> QED BY <2>1, <2>2
<1>7. ASSUME NEW n \in Tree, Crash(n) \/ InstanceStops(n) PROVE Peace'
  <2>1. /\ UNCHANGED <<db, disk, hold, enabled, phase, invoked>> /\ Dismiss(n)
        /\ \E p \in {Off, [Off EXCEPT !.pc = "ended"]} : run' = [run EXCEPT ![n] = p]
        /\ (UNCHANGED ec2 /\ ec2[n] = "running") \/ Becomes(n, "terminated")
    BY <1>1, <1>7 DEF Crash, InstanceStops, EndProcess
  <2>2. PICK p \in Process : /\ run' = [run EXCEPT ![n] = p] /\ p.pc \in {"off", "ended"}
                             /\ ~p.stopped /\ p.wait = "none"
    BY <2>1, OffFacts
  <2>3. \A k \in Node : run'[k] = IF k = n THEN p ELSE run[k] BY <2>2, SetProcess
  <2> QED BY <1>0, <2>1, <2>2, <2>3 DEF Dismiss, Becomes, Others
<1>8. ASSUME NEW n \in Tree, CallFails(n) PROVE Peace'
  <2>1. \A k \in Node :
            /\ run'[k].pc = IF k = n THEN "top" ELSE run[k].pc
            /\ run'[k].stopped <=> run[k].stopped
            /\ run'[k].wait = run[k].wait
    BY <1>0, <1>8, GotoPc DEF CallFails, Label
  <2> QED BY <1>0, <1>8, <2>1 DEF CallFails
<1>9. CASE UNCHANGED vars BY <1>9 DEF vars
<1> QED BY <1>2, <1>3, <1>4, <1>5, <1>6, <1>7, <1>8, <1>9 DEF EnvironmentStep, FaultStep

\* Upsets are never forgotten.
LEMMA BlameGrows ==
  ASSUME [Next]_vars
  PROVE  blame \subseteq blame'
<1> USE DEF log, Upset
<1>1. ASSUME NEW n \in Tree, DaemonStep(n) PROVE blame \subseteq blame'
  BY <1>1 DEF DaemonStep, Boot, BootDying, PublishReadiness, MarkLeaf, AwaitWorkers, PublishPropagation,
       ChildNotReady, ChildrenAccepted, AuthorizeRetirement, RetireSelf, TerminateSelf, Stop,
       Violate, FinishStop, InvokeHold, StartWorker, AcceptChild, StopNode
<1>2. ASSUME NEW n \in Tree, WorkerStep(n) PROVE blame \subseteq blame'
  BY <1>2 DEF WorkerStep, LaunchIntent, Reconcile, Send, RecordRejection, RecordChild, SettleChild
<1>3. ASSUME NEW n \in Tree, MonitorSees(n) \/ EnvironmentStep(n) PROVE blame \subseteq blame'
  BY <1>3 DEF MonitorSees, EnvironmentStep, CreateHold, InstanceStarts, RequestSettles,
       InstanceStops, Delete
<1>4. ASSUME NEW n \in Tree, FaultStep(n) PROVE blame \subseteq blame'
  BY <1>4 DEF FaultStep, WorkerFails, MonitorExpires, Crash, CallFails, TimeOut, StateAges,
       InstanceIsLost
<1>5. CASE StartDeleting \/ Operator \/ UNCHANGED vars
  BY <1>5 DEF StartDeleting, Operator, StopFamily, HoldFamily, ClearHold, BeginCleanup, vars
<1> QED BY <1>1, <1>2, <1>3, <1>4, <1>5 DEF Next, ProcessStep

LEMMA CalmStep ==
  ASSUME Tables, Processes, Others, Submissions, Records, Heirs, Retirements, Calm, [Next]_vars
  PROVE  Calm'
<1> SUFFICES ASSUME blame' \subseteq Harmless PROVE Peace' BY DEF Calm, Harmless
<1>1. Peace BY BlameGrows DEF Calm
<1> QED BY <1>1, DaemonKeepsPeace, OthersKeepPeace DEF Next, ProcessStep

-----------------------------------------------------------------------------
(* The theorems *)

LEMMA InitSafe == Init => Safe
<1> SUFFICES ASSUME Init PROVE Safe OBVIOUS
<1>0. Tree \subseteq Node /\ Root \in Node /\ Root \in Tree /\ Root = 1
  BY NodeAssumption DEF Tree, Root
<1>1. Submissions BY <1>0 DEF Init, Submissions, SubmissionAt
<1>2. Records BY <1>0 DEF Init, Records, RecordAt, Exists, Off
<1>3. Heirs BY <1>0 DEF Init, Heirs, HeirAt, Owned, Off
<1>4. Receipts BY <1>0 DEF Init, Receipts, ReceiptAt, Off
<1>5. Retirements BY <1>0 DEF Init, Retirements, RetiresInOrder, RetirementAt, ParentGone, Off
<1>6. Generations
  <2>0. \A n \in Tree : accepted[n] # 1 BY <1>0 DEF Init
  <2>1. Line = {Root} BY <1>0, <2>0 DEF Line
  <2>2. IsLine(Line) BY <1>0, <2>1 DEF IsLine
  <2> QED BY <1>0, <2>1, <2>2 DEF Init, Generations, Off
<1>7. Calm BY <1>0 DEF Init, Calm, Peace, CalmAt, Off
<1> QED BY <1>1, <1>2, <1>3, <1>4, <1>5, <1>6, <1>7 DEF Safe

LEMMA NextSafe == TypeOK /\ Safe /\ [Next]_vars => Safe'
<1> SUFFICES ASSUME TypeOK, Safe, [Next]_vars PROVE Safe' OBVIOUS
<1>1. Tables /\ Processes /\ Others BY TypeParts
<1> QED BY <1>1, LaunchStep, HandoverStep, RetirementStep, LineStep, CalmStep DEF Safe

\* The inductive invariant holds.
THEOREM SafeAlways == Spec => []Safe
<1> QED BY TypeCorrect, InitSafe, NextSafe, PTL DEF Spec

\* launch_child: a path is launched at most once, whatever crashes, lost answers, rejections
\* and restarts come between.
THEOREM LaunchesOnce == Spec => []LaunchedOnce
<1>1. TypeOK /\ Safe => LaunchedOnce BY DEF Safe, Submissions, SubmissionAt, LaunchedOnce
<1> QED BY <1>1, TypeCorrect, SafeAlways, PTL

\* authorize_retirement and retire_self: whoever retires has lost its parent for good and
\* its children own and have launched theirs; nobody terminates itself without that.
THEOREM RetirementInOrder == Spec => []RetiresInOrder
<1>1. Safe => RetiresInOrder BY DEF Safe, Retirements
<1> QED BY <1>1, SafeAlways, PTL

\* single_launch_ready: with one child each, at most three instances exist or may yet appear,
\* in a line of any length.
THEOREM NoMoreThanThree == Spec => []ThreeGenerations
<1>1. TypeOK /\ Safe => ThreeGenerations BY TypeParts, LineBounds DEF Safe
<1> QED BY <1>1, TypeCorrect, SafeAlways, PTL

\* cleanup_step: once no submission is unsettled, every instance is recorded and none
\* can appear any more.
THEOREM CompleteInventory == Spec => []InventoryComplete
<1>1. TypeOK /\ Safe => InventoryComplete
  <2> SUFFICES ASSUME TypeOK, Safe, Unsettled = {}, NEW n \in Tree \ {Root}
               PROVE  /\ ec2[n] \in Exists => db[n].res # "none"
                      /\ ec2[n] # "requested" /\ work[n] # "send"
    BY DEF InventoryComplete
  <2>1. n \in Node /\ n # Root /\ db[n].sub \notin {"intent", "rejected"} BY DEF Tree, Unsettled
  <2>2. db[n].sub \in {"none", "settled"} BY <2>1, TypeParts DEF Tables, Entry
  <2>3. SubmissionAt(n) /\ RecordAt(n) BY <2>1 DEF Safe, Submissions, Records
  <2> QED BY <2>1, <2>2, <2>3 DEF SubmissionAt, RecordAt, Exists
<1> QED BY <1>1, TypeCorrect, SafeAlways, PTL

\* Crashes before the termination, single failed calls and rejected or unanswered launches
\* alone stop nobody and put nothing on hold, however many there are.
THEOREM HarmlessFaults == Spec => []NoSelfInflictedHold
<1>1. Safe => NoSelfInflictedHold
  BY DEF Safe, Calm, Peace, CalmAt, NoSelfInflictedHold, Tree
<1> QED BY <1>1, SafeAlways, PTL
=============================================================================
