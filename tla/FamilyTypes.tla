---------------------------- MODULE FamilyTypes ----------------------------
(***************************************************************************)
(* Type correctness of Family for every tree, setting and set of faults,    *)
(* and what its steps write: lemmas about the records and the processes     *)
(* that the proofs of FamilySafety start from.                              *)
(***************************************************************************)
EXTENDS Family, TLAPS

-----------------------------------------------------------------------------
(* The types, part by part *)

\* A path's records, and the process on its instance
Entry == [node : {"none", "CANDIDATE"} \cup Owned,
          state : {"none", "fresh", "stale", "error"}, prop : BOOLEAN,
          sub : {"none", "intent", "rejected", "settled"},
          res : {"none", "recorded", "gone"}, stop : BOOLEAN]
Label == {"off", "top", "launch", "propagate", "accept", "authorize", "retire",
          "terminate", "stopping", "violated", "reporting", "ended"}
Process == [pc : Label, stopped : BOOLEAN, recorded : BOOLEAN,
            wait : {"none", "started", "over"}]
Tables == db \in [Node -> Entry]
Processes == run \in [Node -> Process]
Others ==
    /\ shape \in Shapes
    /\ ec2 \in [Node -> {"none", "requested"} \cup Exists]
    /\ disk \in [Node -> BOOLEAN]
    /\ work \in [Node -> {"idle", "done", "failed", "violated"} \cup Busy]
    /\ accepted \in [Node -> Nat]
    /\ enabled \in BOOLEAN /\ hold \in BOOLEAN
    /\ phase \in {"IDLE", "QUIESCING", "DELETING"}
    /\ invoked \subseteq Node /\ upsets \in Nat /\ blame \subseteq Faults
Within == \A n \in Node : ec2[n] # "none" => n < 2 * shape.width

\* TypeOK, part by part
LEMMA TypeParts == TypeOK <=> Tables /\ Processes /\ Others /\ Within
BY DEF TypeOK, Tables, Processes, Others, Within, Entry, Process, Label

\* What a write to one record of a path changes, and what it leaves alone
LEMMA WriteNode ==
  ASSUME Tables, NEW n, NEW v \in {"none", "CANDIDATE"} \cup Owned, Write(n, "node", v)
  PROVE  /\ Tables'
         /\ \A k \in Node :
                /\ db'[k].node = IF k = n THEN v ELSE db[k].node
                /\ db'[k].state = db[k].state
                /\ db'[k].sub = db[k].sub
                /\ db'[k].res = db[k].res
                /\ db'[k].prop <=> db[k].prop
                /\ db'[k].stop <=> db[k].stop
<1>1. Tables' BY DEF Tables, Write, Entry
<1>2. \A k \in Node : k # n => db'[k] = db[k] BY DEF Tables, Write
<1>3. n \in Node => db'[n] = [db[n] EXCEPT !["node"] = v] BY DEF Tables, Write
<1> QED BY <1>1, <1>2, <1>3 DEF Tables, Entry

LEMMA WriteState ==
  ASSUME Tables, NEW n, NEW v \in {"none", "fresh", "stale", "error"}, Write(n, "state", v)
  PROVE  /\ Tables'
         /\ \A k \in Node :
                /\ db'[k].state = IF k = n THEN v ELSE db[k].state
                /\ db'[k].node = db[k].node
                /\ db'[k].sub = db[k].sub
                /\ db'[k].res = db[k].res
                /\ db'[k].prop <=> db[k].prop
                /\ db'[k].stop <=> db[k].stop
<1>1. Tables' BY DEF Tables, Write, Entry
<1>2. \A k \in Node : k # n => db'[k] = db[k] BY DEF Tables, Write
<1>3. n \in Node => db'[n] = [db[n] EXCEPT !["state"] = v] BY DEF Tables, Write
<1> QED BY <1>1, <1>2, <1>3 DEF Tables, Entry

LEMMA WriteSub ==
  ASSUME Tables, NEW n, NEW v \in {"none", "intent", "rejected", "settled"}, Write(n, "sub", v)
  PROVE  /\ Tables'
         /\ \A k \in Node :
                /\ db'[k].sub = IF k = n THEN v ELSE db[k].sub
                /\ db'[k].node = db[k].node
                /\ db'[k].state = db[k].state
                /\ db'[k].res = db[k].res
                /\ db'[k].prop <=> db[k].prop
                /\ db'[k].stop <=> db[k].stop
<1>1. Tables' BY DEF Tables, Write, Entry
<1>2. \A k \in Node : k # n => db'[k] = db[k] BY DEF Tables, Write
<1>3. n \in Node => db'[n] = [db[n] EXCEPT !["sub"] = v] BY DEF Tables, Write
<1> QED BY <1>1, <1>2, <1>3 DEF Tables, Entry

LEMMA WriteRes ==
  ASSUME Tables, NEW n, NEW v \in {"none", "recorded", "gone"}, Write(n, "res", v)
  PROVE  /\ Tables'
         /\ \A k \in Node :
                /\ db'[k].res = IF k = n THEN v ELSE db[k].res
                /\ db'[k].node = db[k].node
                /\ db'[k].state = db[k].state
                /\ db'[k].sub = db[k].sub
                /\ db'[k].prop <=> db[k].prop
                /\ db'[k].stop <=> db[k].stop
<1>1. Tables' BY DEF Tables, Write, Entry
<1>2. \A k \in Node : k # n => db'[k] = db[k] BY DEF Tables, Write
<1>3. n \in Node => db'[n] = [db[n] EXCEPT !["res"] = v] BY DEF Tables, Write
<1> QED BY <1>1, <1>2, <1>3 DEF Tables, Entry

LEMMA WriteProp ==
  ASSUME Tables, NEW n, Write(n, "prop", TRUE)
  PROVE  /\ Tables'
         /\ \A k \in Node :
                /\ IF k = n THEN db'[k].prop ELSE (db'[k].prop <=> db[k].prop)
                /\ db'[k].node = db[k].node
                /\ db'[k].state = db[k].state
                /\ db'[k].sub = db[k].sub
                /\ db'[k].res = db[k].res
                /\ db'[k].stop <=> db[k].stop
<1>1. Tables' BY DEF Tables, Write, Entry
<1>2. \A k \in Node : k # n => db'[k] = db[k] BY DEF Tables, Write
<1>3. n \in Node => db'[n] = [db[n] EXCEPT !["prop"] = TRUE] BY DEF Tables, Write
<1> QED BY <1>1, <1>2, <1>3 DEF Tables, Entry

LEMMA WriteStop ==
  ASSUME Tables, NEW n, Write(n, "stop", TRUE)
  PROVE  /\ Tables'
         /\ \A k \in Node :
                /\ IF k = n THEN db'[k].stop ELSE (db'[k].stop <=> db[k].stop)
                /\ db'[k].node = db[k].node
                /\ db'[k].state = db[k].state
                /\ db'[k].sub = db[k].sub
                /\ db'[k].res = db[k].res
                /\ db'[k].prop <=> db[k].prop
<1>1. Tables' BY DEF Tables, Write, Entry
<1>2. \A k \in Node : k # n => db'[k] = db[k] BY DEF Tables, Write
<1>3. n \in Node => db'[n] = [db[n] EXCEPT !["stop"] = TRUE] BY DEF Tables, Write
<1> QED BY <1>1, <1>2, <1>3 DEF Tables, Entry

\* Goto moves one process and changes nothing else of it.
LEMMA GotoPc ==
  ASSUME Processes, NEW n, NEW l \in Label, Goto(n, l)
  PROVE  /\ Processes'
         /\ \A k \in Node :
                /\ run'[k].pc = IF k = n THEN l ELSE run[k].pc
                /\ run'[k].stopped <=> run[k].stopped
                /\ run'[k].recorded <=> run[k].recorded
                /\ run'[k].wait = run[k].wait
BY DEF Processes, Goto, Process

\* The tree depends on the setting alone, which never changes.
LEMMA SameTree == shape' = shape => Tree' = Tree /\ \A n : Children(n)' = Children(n)
BY DEF Tree, Children, Parent, Root

\* Children and parents belong together, in the tree of every setting.
LEMMA TreeFacts ==
  ASSUME shape \in Shapes
  PROVE  /\ Root \in Tree /\ Tree \subseteq Node /\ 0 \notin Tree
         /\ \A n \in Tree : \A c \in Children(n) : c \in Tree \ {Root} /\ Parent(c) = n
         /\ \A c \in Tree \ {Root} : c \in Children(Parent(c))
<1>1. Root \in Tree /\ Tree \subseteq Node /\ 0 \notin Tree BY NodeAssumption DEF Tree, Root
<1>2. \A c \in Tree \ {Root} : c \in Children(Parent(c)) BY DEF Tree
<1>3. ASSUME NEW n \in Tree, NEW c \in Children(n) PROVE c \in Tree \ {Root} /\ Parent(c) = n
  <2>1. n \in Nat \ {0} /\ n \in Node BY NodeAssumption DEF Tree
  <2>2. n < shape.width /\ shape.width \in Nat /\ shape.binary \in BOOLEAN
    BY ShapeAssumption, <1>3, <2>1 DEF Children
  <2>3. ~shape.binary => n = 1 \/ n % 2 = 0 BY <2>1 DEF Tree, Children, Root, Parent
  <2>4. c \in Node /\ (c = 2 * n \/ c = 2 * n + 1) BY <1>3, <2>1, <2>2, <2>3, ShapeAssumption
                                                      DEF Children
  <2>5. Parent(c) = n /\ c # Root BY <2>1, <2>4 DEF Parent, Root
  <2> QED BY <1>3, <2>4, <2>5 DEF Tree
<1> QED BY <1>1, <1>2, <1>3

-----------------------------------------------------------------------------
(* What a step writes to the records of a daemon *)

\* A process is replaced as a whole, by the crash or the end of one.
LEMMA SetProcess ==
  ASSUME Processes, NEW n, NEW p \in Process, run' = [run EXCEPT ![n] = p]
  PROVE  /\ Processes'
         /\ \A k \in Node : run'[k] = IF k = n THEN p ELSE run[k]
BY DEF Processes

LEMMA OffFacts ==
  /\ Off \in Process /\ Off.pc = "off" /\ ~Off.stopped /\ ~Off.recorded /\ Off.wait = "none"
  /\ [Off EXCEPT !.pc = "ended"] \in Process
  /\ [Off EXCEPT !.pc = "ended"].pc = "ended" /\ ~[Off EXCEPT !.pc = "ended"].stopped
  /\ ~[Off EXCEPT !.pc = "ended"].recorded /\ [Off EXCEPT !.pc = "ended"].wait = "none"
BY DEF Off, Process, Label

\* A first start writes the NODE and the RESOURCE record of a path that has none.
LEMMA BootEffect ==
  ASSUME Tables, Processes, Others, NEW n \in Tree, Boot(n)
  PROVE  /\ Tables' /\ Processes'
         /\ \A k \in Node :
                /\ db'[k].node = IF k = n THEN db'[n].node ELSE db[k].node
                /\ db'[k].res = IF k = n THEN db'[n].res ELSE db[k].res
                /\ run'[k].pc = IF k = n THEN "top" ELSE run[k].pc
                /\ run'[k].wait = IF k = n THEN "none" ELSE run[k].wait
                /\ IF k = n THEN run'[k].stopped <=> disk[k] ELSE run'[k].stopped <=> run[k].stopped
                /\ IF k = n THEN ~run'[k].recorded ELSE run'[k].recorded <=> run[k].recorded
                /\ db'[k].sub = db[k].sub /\ db'[k].state = db[k].state
                /\ db'[k].prop <=> db[k].prop
                /\ db'[k].stop <=> db[k].stop
         /\ \/ db'[n].node = db[n].node /\ db'[n].res = db[n].res
            \/ /\ db[n].node = "none" /\ db'[n].res = "recorded"
               /\ db'[n].node = IF n = Root THEN "OWNER" ELSE "CANDIDATE"
         /\ ec2[n] = "running"
<1>1. n \in Node /\ disk[n] \in BOOLEAN BY DEF Tree, Others
<1> DEFINE p == [Off EXCEPT !.pc = "top", !.stopped = disk[n]]
<1>2. /\ p \in Process /\ p.pc = "top" /\ ~p.recorded /\ p.wait = "none"
      /\ p.stopped <=> disk[n]
  BY <1>1 DEF Off, Process, Label
<1>3. Processes' /\ \A k \in Node : run'[k] = IF k = n THEN p ELSE run[k]
  <2>1. run' = [run EXCEPT ![n] = p] BY DEF Boot
  <2> HIDE DEF p
  <2> QED BY <1>2, <2>1, SetProcess
<1> HIDE DEF p
<1>6. \A k \in Node :
         /\ run'[k].pc = IF k = n THEN "top" ELSE run[k].pc
         /\ run'[k].wait = IF k = n THEN "none" ELSE run[k].wait
         /\ IF k = n THEN run'[k].stopped <=> disk[k] ELSE run'[k].stopped <=> run[k].stopped
         /\ IF k = n THEN ~run'[k].recorded ELSE run'[k].recorded <=> run[k].recorded
  BY <1>2, <1>3
<1>4. CASE db[n].node # "none" /\ UNCHANGED db
  <2>1. Tables' /\ ec2[n] = "running" BY <1>4 DEF Boot, Tables
  <2> QED BY <1>1, <1>3, <1>4, <1>6, <2>1
<1>5. CASE /\ db[n].node = "none"
           /\ db' = [db EXCEPT ![n].node = IF n = Root THEN "OWNER" ELSE "CANDIDATE",
                               ![n].res = "recorded"]
  <2> DEFINE status == IF n = Root THEN "OWNER" ELSE "CANDIDATE"
  <2>0. status \in {"OWNER", "CANDIDATE"} OBVIOUS
  <2>1. db' = [k \in Node |-> db'[k]] BY <1>5 DEF Tables
  <2>2. \A k \in Node : k # n => db'[k] = db[k] BY <1>5 DEF Tables
  <2>3. db'[n] = [db[n] EXCEPT !.node = status, !.res = "recorded"]
    BY <1>1, <1>5 DEF Tables
  <2>4. /\ db'[n].sub = db[n].sub /\ db'[n].state = db[n].state
        /\ db'[n].prop <=> db[n].prop
        /\ db'[n].stop <=> db[n].stop
        /\ db'[n].res = "recorded"
        /\ db'[n].node = status
    BY <1>1, <2>3 DEF Tables, Entry
  <2>5. db'[n] \in Entry
    <3> HIDE DEF status
    <3> QED BY <1>1, <2>0, <2>3 DEF Tables, Entry, Owned
  <2>6. Tables' BY <2>1, <2>2, <2>5 DEF Tables
  <2>7. \A k \in Node :
           /\ db'[k].node = IF k = n THEN db'[n].node ELSE db[k].node
           /\ db'[k].res = IF k = n THEN db'[n].res ELSE db[k].res
           /\ db'[k].sub = db[k].sub /\ db'[k].state = db[k].state
           /\ db'[k].prop <=> db[k].prop
           /\ db'[k].stop <=> db[k].stop
    BY <2>2, <2>4
  <2>8. ec2[n] = "running" BY DEF Boot
  <2> QED BY <1>3, <1>5, <1>6, <2>4, <2>6, <2>7, <2>8
<1> QED BY <1>4, <1>5 DEF Boot

\* A start on an instance that shuts down touches the process alone.
LEMMA BootDyingEffect ==
  ASSUME Processes, Others, NEW n \in Tree, BootDying(n)
  PROVE  /\ Processes'
         /\ UNCHANGED <<shape, db, hosts, work, accepted, controls, invoked, log>>
         /\ run[n].pc = "off" /\ ec2[n] = "shutting-down"
         /\ run'[n].pc \in {"top", "violated"} /\ ~run'[n].recorded
         /\ \A k \in Node : k # n => run'[k] = run[k]
<1>1. n \in Node /\ disk[n] \in BOOLEAN BY DEF Tree, Others
<1>2. PICK next \in {"top", "violated"} :
          run' = [run EXCEPT ![n] = [Off EXCEPT !.pc = next, !.stopped = disk[n]]]
  BY DEF BootDying
<1> DEFINE p == [Off EXCEPT !.pc = next, !.stopped = disk[n]]
<1>3. p \in Process /\ p.pc = next /\ ~p.recorded BY <1>1 DEF Off, Process, Label
<1>4. run' = [run EXCEPT ![n] = p] BY <1>2
<1> HIDE DEF p
<1>5. Processes' /\ \A k \in Node : run'[k] = IF k = n THEN p ELSE run[k]
  BY <1>3, <1>4, SetProcess
<1> QED BY <1>1, <1>3, <1>5 DEF BootDying

\* An owner begins to launch only below the root's child if its grandparent is gone; an
\* ancestor without a receipt, or too long a wait, is a violation.
LEMMA BeginLaunchEffect ==
  ASSUME Processes, NEW n \in Node, BeginLaunch(n)
  PROVE  /\ Processes'
         /\ \A k \in Node :
                /\ run'[k].pc = IF k = n THEN run'[n].pc ELSE run[k].pc
                /\ run'[k].stopped <=> run[k].stopped
                /\ run'[k].recorded <=> run[k].recorded
                /\ run'[k].wait = "over" => run[k].wait = "over"
         /\ \/ run'[n].pc = "top"
            \/ /\ run'[n].pc = "violated"
               /\ \/ n # Root /\ Parent(n) # Root /\ ~Lawful(Parent(Parent(n)))
                  \/ run[n].wait = "over"
            \/ /\ run'[n].pc = "launch"
               /\ shape.binary \/ n = Root \/ Parent(n) = Root \/ SingleLaunchReady(n)
<1> DEFINE above == ~shape.binary /\ n # Root /\ Parent(n) # Root
<1>1. CASE above /\ ~Lawful(Parent(Parent(n)))
  <2>1. Goto(n, "violated") BY <1>1 DEF BeginLaunch
  <2> QED BY <1>1, <2>1, GotoPc DEF Label
<1>2. CASE ~(above /\ ~Lawful(Parent(Parent(n)))) /\ above /\ ~SingleLaunchReady(n)
  <2>1. Goto(n, "top") BY <1>2 DEF BeginLaunch
  <2> QED BY <2>1, GotoPc DEF Label
<1>3. CASE /\ ~(above /\ ~Lawful(Parent(Parent(n)))) /\ ~(above /\ ~SingleLaunchReady(n))
           /\ run[n].wait = "over" /\ ~run[n].recorded
  <2>1. Goto(n, "violated") BY <1>3 DEF BeginLaunch
  <2> QED BY <1>3, <2>1, GotoPc DEF Label
<1>4. CASE /\ ~(above /\ ~Lawful(Parent(Parent(n)))) /\ ~(above /\ ~SingleLaunchReady(n))
           /\ ~(run[n].wait = "over" /\ ~run[n].recorded)
  <2>1. run' = [run EXCEPT ![n].pc = "launch",
                           ![n].wait = IF @ = "none" THEN "started" ELSE @]
    BY <1>4 DEF BeginLaunch
  <2>2. Processes'
    <3> DEFINE w == IF run[n].wait = "none" THEN "started" ELSE run[n].wait
    <3>1. w \in {"none", "started", "over"} BY DEF Processes, Process
    <3>2. run' = [run EXCEPT ![n].pc = "launch", ![n].wait = w] BY <2>1
    <3> HIDE DEF w
    <3> QED BY <3>1, <3>2 DEF Processes, Process, Label
  <2>3. \A k \in Node : k # n => run'[k] = run[k] BY <2>1 DEF Processes
  <2>4. /\ run'[n].pc = "launch" /\ (run'[n].wait = "over" => run[n].wait = "over")
        /\ run'[n].stopped <=> run[n].stopped
        /\ run'[n].recorded <=> run[n].recorded
    BY <2>1 DEF Processes, Process
  <2> QED BY <1>4, <2>2, <2>3, <2>4
<1> QED BY <1>1, <1>2, <1>3, <1>4

\* The propagation receipt follows fresh evidence of every child's launch.
LEMMA PublishEffect ==
  ASSUME Tables, Processes, NEW n \in Node, PublishPropagation(n)
  PROVE  /\ Tables' /\ Processes'
         /\ \A k \in Node :
                /\ db'[k].node = db[k].node /\ db'[k].state = db[k].state
                /\ db'[k].sub = db[k].sub /\ db'[k].res = db[k].res
                /\ db'[k].stop <=> db[k].stop
                /\ IF k = n THEN TRUE ELSE db'[k].prop <=> db[k].prop
                /\ run'[k].pc = IF k = n THEN run'[n].pc ELSE run[k].pc
                /\ IF k = n THEN TRUE ELSE run'[k].recorded <=> run[k].recorded
                /\ run'[k].stopped <=> run[k].stopped
                /\ run'[k].wait = run[k].wait
         /\ \/ /\ Launched(n) /\ db'[n].prop
               /\ run'[n].pc = "accept" /\ run'[n].recorded
            \/ /\ db'[n].prop <=> db[n].prop
               /\ run'[n].pc = "top" /\ (run'[n].recorded <=> run[n].recorded)
<1>1. CASE Write(n, "prop", TRUE)
             /\ run' = [run EXCEPT ![n].pc = "accept", ![n].recorded = TRUE] /\ Launched(n)
  <2>1. Processes' BY <1>1 DEF Processes, Process, Label
  <2>2. \A k \in Node : k # n => run'[k] = run[k] BY <1>1 DEF Processes
  <2>3. /\ run'[n].pc = "accept" /\ run'[n].wait = run[n].wait /\ run'[n].recorded
        /\ run'[n].stopped <=> run[n].stopped
    BY <1>1 DEF Processes, Process
  <2>4. /\ Tables'
        /\ \A k \in Node :
                /\ db'[k].node = db[k].node /\ db'[k].state = db[k].state
                /\ db'[k].sub = db[k].sub /\ db'[k].res = db[k].res
                /\ db'[k].stop <=> db[k].stop
                /\ IF k = n THEN db'[k].prop ELSE (db'[k].prop <=> db[k].prop)
    <3>1. Write(n, "prop", TRUE) BY <1>1
    <3> QED BY <3>1, WriteProp
  <2>5. \A k \in Node :
           /\ run'[k].pc = IF k = n THEN run'[n].pc ELSE run[k].pc
           /\ IF k = n THEN TRUE ELSE run'[k].recorded <=> run[k].recorded
           /\ run'[k].stopped <=> run[k].stopped
           /\ run'[k].wait = run[k].wait
    BY <2>2, <2>3
  <2> QED BY <1>1, <2>1, <2>3, <2>4, <2>5
<1>2. CASE Goto(n, "top") /\ UNCHANGED db
  <2>1. "top" \in Label BY DEF Label
  <2>2. Processes' /\ \A k \in Node :
                /\ run'[k].pc = IF k = n THEN "top" ELSE run[k].pc
                /\ run'[k].stopped <=> run[k].stopped
                /\ run'[k].recorded <=> run[k].recorded
                /\ run'[k].wait = run[k].wait
    BY <1>2, <2>1, GotoPc
  <2> QED BY <1>2, <2>2 DEF Tables
<1> QED BY <1>1, <1>2 DEF PublishPropagation

\* A latched stop moves no process.
LEMMA LatchEffect ==
  ASSUME Processes, NEW n \in Node, Latch(n)
  PROVE  /\ Processes'
         /\ \A k \in Node :
                /\ run'[k].pc = run[k].pc /\ run'[k].wait = run[k].wait
                /\ run'[k].recorded <=> run[k].recorded
<1>1. run' = [run EXCEPT ![n].stopped = TRUE] BY DEF Latch
<1>2. Processes' BY <1>1 DEF Processes, Process
<1>3. \A k \in Node : k # n => run'[k] = run[k] BY <1>1 DEF Processes
<1>4. run'[n].pc = run[n].pc /\ run'[n].wait = run[n].wait /\ (run'[n].recorded <=> run[n].recorded)
  BY <1>1 DEF Processes, Process
<1> QED BY <1>2, <1>3, <1>4

\* A timeout is noticed later: it moves no process.
LEMMA TimeOutEffect ==
  ASSUME Processes, NEW n \in Node, TimeOut(n)
  PROVE  /\ Processes'
         /\ \A k \in Node :
                /\ run'[k].pc = run[k].pc /\ (run'[k].recorded <=> run[k].recorded)
                /\ run'[k].stopped <=> run[k].stopped
<1>1. run' = [run EXCEPT ![n].wait = "over"] BY DEF TimeOut
<1>2. Processes' BY <1>1 DEF Processes, Process
<1>3. \A k \in Node : k # n => run'[k] = run[k] BY <1>1 DEF Processes
<1>4. run'[n].pc = run[n].pc /\ (run'[n].recorded <=> run[n].recorded)
      /\ (run'[n].stopped <=> run[n].stopped)
  BY <1>1 DEF Processes, Process
<1> QED BY <1>2, <1>3, <1>4

\* A violation is reported next.
LEMMA ViolateEffect ==
  ASSUME Processes, NEW n \in Node, Violate(n)
  PROVE  /\ Processes'
         /\ \A k \in Node :
                /\ run'[k].pc = IF k = n THEN "reporting" ELSE run[k].pc
                /\ run'[k].recorded <=> run[k].recorded
<1>1. run' = [run EXCEPT ![n].pc = "reporting", ![n].stopped = TRUE] BY DEF Violate
<1>2. Processes' BY <1>1 DEF Processes, Process, Label
<1>3. \A k \in Node : k # n => run'[k] = run[k] BY <1>1 DEF Processes
<1>4. run'[n].pc = "reporting" /\ (run'[n].recorded <=> run[n].recorded)
  BY <1>1 DEF Processes, Process
<1> QED BY <1>2, <1>3, <1>4

\* Who passes parent_terminated has recorded that its parent is gone.
LEMMA GateEffect ==
  ASSUME Tables, Processes, NEW n \in Node, NEW next \in Label, ParentGate(n, next)
  PROVE  /\ Tables' /\ Processes'
         /\ \A k \in Node :
                /\ db'[k].node = db[k].node /\ db'[k].state = db[k].state
                /\ db'[k].sub = db[k].sub
                /\ db'[k].prop <=> db[k].prop
                /\ db'[k].stop <=> db[k].stop
                /\ \/ db'[k].res = db[k].res
                   \/ /\ db'[k].res = "gone" /\ k = Parent(n)
                      /\ n # Root /\ ec2[Parent(n)] \in Gone
                /\ run'[k].pc = IF k = n THEN run'[n].pc ELSE run[k].pc
                /\ run'[k].stopped <=> run[k].stopped
                /\ run'[k].recorded <=> run[k].recorded
                /\ run'[k].wait = run[k].wait
         /\ \/ run'[n].pc = "top"
            \/ run'[n].pc = "violated" /\ n # Root /\ ~Lawful(Parent(n))
            \/ /\ run'[n].pc = next
               /\ n # Root => ec2[Parent(n)] \in Gone
               /\ n # Root /\ Parent(n) \in Node => db'[Parent(n)].res = "gone"
<1>1. CASE Goto(n, "top") /\ UNCHANGED db
  BY <1>1, GotoPc DEF Label, Tables
<1>2. CASE n = Root /\ Goto(n, next) /\ UNCHANGED db
  BY <1>2, GotoPc DEF Tables
<1>3. CASE n # Root /\ ~Lawful(Parent(n)) /\ Goto(n, "violated") /\ UNCHANGED db
  BY <1>3, GotoPc DEF Label, Tables
<1>4. CASE /\ n # Root /\ ec2[Parent(n)] \in Gone
           /\ Write(Parent(n), "res", "gone") /\ Goto(n, next)
  BY <1>4, GotoPc, WriteRes
<1> QED BY <1>1, <1>2, <1>3, <1>4 DEF ParentGate

\* Only a child's worker that found a violation makes its parent raise one.
LEMMA AwaitEffect ==
  ASSUME Processes, Others, NEW n \in Tree, AwaitWorkers(n)
  PROVE  /\ Processes'
         /\ \A k \in Node :
                /\ run'[k].pc = IF k = n THEN run'[n].pc ELSE run[k].pc
                /\ run'[k].stopped <=> run[k].stopped
                /\ run'[k].recorded <=> run[k].recorded
                /\ run'[k].wait = run[k].wait
         /\ \/ run'[n].pc \in {"top", "propagate"}
            \/ run'[n].pc = "violated" /\ \E c \in Children(n) : work[c] = "violated"
            \/ run'[n].pc = "accept" /\ run[n].recorded
<1> DEFINE bad == {c \in Children(n) : work[c] # "done"}
           first == CHOOSE c \in bad : \A d \in bad : c <= d
<1>0. n \in Node BY DEF Tree
<1>1. CASE Goto(n, "top") \/ Goto(n, "propagate")
  BY <1>0, <1>1, GotoPc DEF Label
<1>2. CASE Goto(n, "accept") /\ run[n].recorded
  BY <1>0, <1>2, GotoPc DEF Label
<1>3. CASE bad # {} /\ work[first] = "violated" /\ Goto(n, "violated")
  <2>1. \A c \in Children(n) : c \in Nat BY TreeFacts, NodeAssumption DEF Others
  <2>2. Children(n) = {} \/ \E a, b : Children(n) = {a, b} BY DEF Children
  <2>3. \E c \in bad : \A d \in bad : c <= d BY <1>3, <2>1, <2>2
  <2>4. first \in bad BY <2>3
  <2>5. \E c \in Children(n) : work[c] = "violated" BY <1>3, <2>4
  <2> QED BY <1>0, <1>3, <2>5, GotoPc DEF Label
<1> QED BY <1>1, <1>2, <1>3 DEF AwaitWorkers

-----------------------------------------------------------------------------
(* The types *)

\* Every step keeps the types of the records,
LEMMA TablesStep ==
  ASSUME Tables, Processes, Others, [Next]_vars
  PROVE  Tables'
<1> USE DEF hosts, log, controls
<1>0. Tree \subseteq Node BY DEF Tree
<1>1. ASSUME NEW n \in Tree,
             Boot(n) \/ PublishPropagation(n) \/ ChildrenAccepted(n) \/ RetireSelf(n)
      PROVE  Tables'
  BY <1>0, <1>1, BootEffect, PublishEffect, GateEffect DEF ChildrenAccepted, RetireSelf, Label
<1>2. ASSUME NEW n \in Tree,
             PublishReadiness(n) \/ CreateHold(n) \/ StateAges(n)
      PROVE  Tables'
  BY <1>2, WriteState DEF PublishReadiness, CreateHold, StateAges, Tables
<1>3. ASSUME NEW n \in Tree, NEW m \in Tree,
             MarkLeaf(n) \/ AuthorizeRetirement(n) \/ AcceptChild(n, m) \/ StopNode(n, m)
      PROVE  Tables'
  BY <1>3, WriteNode, WriteStop DEF MarkLeaf, AuthorizeRetirement, AcceptChild, StopNode, Owned,
       Tables
<1>4. ASSUME NEW c \in Tree,
             LaunchIntent(c) \/ RecordRejection(c) \/ RecordChild(c) \/ SettleChild(c)
      PROVE  Tables'
  BY <1>4, WriteSub, WriteRes DEF LaunchIntent, RecordRejection, RecordChild, SettleChild, Tables
<1>5. ASSUME NEW n \in Tree,
             \/ AwaitWorkers(n) \/ ChildNotReady(n) \/ TerminateSelf(n) \/ Stop(n) \/ Violate(n)
             \/ FinishStop(n) \/ InvokeHold(n) \/ \E m \in Tree : StartWorker(n, m)
             \/ Reconcile(n) \/ Send(n) \/ WorkerFails(n) \/ MonitorSees(n) \/ BootDying(n)
      PROVE  Tables'
  BY <1>5 DEF BootDying, AwaitWorkers, ChildNotReady, TerminateSelf, Stop, Violate, FinishStop, InvokeHold,
       StartWorker, Reconcile, Send, WorkerFails, MonitorSees, Latch, Tables
<1>6. ASSUME NEW n \in Tree,
             \/ InstanceStarts(n) \/ RequestSettles(n) \/ InstanceStops(n) \/ Delete(n)
             \/ MonitorExpires(n) \/ Crash(n) \/ CallFails(n) \/ TimeOut(n) \/ InstanceIsLost(n)
      PROVE  Tables'
  BY <1>6 DEF InstanceStarts, RequestSettles, InstanceStops, Delete, MonitorExpires, Latch, Crash,
       CallFails, TimeOut, InstanceIsLost, Tables
<1>7. CASE StartDeleting \/ Operator \/ UNCHANGED vars
  BY <1>7 DEF StartDeleting, Operator, StopFamily, HoldFamily, ClearHold, BeginCleanup, vars, Tables
<1> QED BY <1>1, <1>2, <1>3, <1>4, <1>5, <1>6, <1>7
        DEF Next, ProcessStep, DaemonStep, WorkerStep, EnvironmentStep, FaultStep

\* of the processes
LEMMA ProcessesStep ==
  ASSUME Tables, Processes, Others, [Next]_vars
  PROVE  Processes'
<1> USE DEF hosts, log, controls
<1>0. Tree \subseteq Node BY DEF Tree
<1>1. ASSUME NEW n \in Tree,
             \/ Boot(n) \/ PublishReadiness(n) \/ AwaitWorkers(n) \/ PublishPropagation(n)
             \/ ChildrenAccepted(n) \/ RetireSelf(n) \/ BootDying(n)
      PROVE  Processes'
  <2>1. CASE Boot(n) \/ BootDying(n) BY <2>1, BootEffect, BootDyingEffect
  <2>2. CASE PublishReadiness(n)
    BY <1>0, <2>2, BeginLaunchEffect DEF PublishReadiness, Processes
  <2>3. CASE AwaitWorkers(n) BY <2>3, AwaitEffect
  <2>4. CASE PublishPropagation(n) BY <1>0, <2>4, PublishEffect
  <2>5. CASE ChildrenAccepted(n) \/ RetireSelf(n)
    BY <1>0, <2>5, GateEffect DEF ChildrenAccepted, RetireSelf, Label
  <2> QED BY <1>1, <2>1, <2>2, <2>3, <2>4, <2>5
<1>2. ASSUME NEW n \in Tree, NEW l \in Label, Goto(n, l) PROVE Processes' BY <1>2, GotoPc
<1>3. ASSUME NEW n \in Tree, NEW m \in Tree,
             \/ ChildNotReady(n) \/ AuthorizeRetirement(n) \/ TerminateSelf(n) \/ Stop(n)
             \/ FinishStop(n) \/ CallFails(n) \/ AcceptChild(n, m)
      PROVE  Processes'
  BY <1>2, <1>3 DEF ChildNotReady, AuthorizeRetirement, TerminateSelf, Stop, FinishStop, CallFails,
       AcceptChild, Label, Processes
<1>4. ASSUME NEW n \in Tree,
             Violate(n) \/ MonitorSees(n) \/ MonitorExpires(n) \/ TimeOut(n)
      PROVE  Processes'
  BY <1>0, <1>4, ViolateEffect, LatchEffect, TimeOutEffect DEF MonitorSees, MonitorExpires
<1>5. ASSUME NEW n \in Tree,
             \/ InvokeHold(n) \/ Crash(n) \/ InstanceStops(n) \/ Delete(n) \/ InstanceIsLost(n)
      PROVE  Processes'
  <2>1. \E p \in {Off, [Off EXCEPT !.pc = "ended"]} : run' = [run EXCEPT ![n] = p]
    BY <1>5 DEF InvokeHold, Crash, InstanceStops, Delete, InstanceIsLost, EndProcess
  <2>2. PICK p \in Process : run' = [run EXCEPT ![n] = p] BY <2>1, OffFacts
  <2> QED BY <2>2, SetProcess
<1>6. ASSUME NEW n \in Tree, NEW m \in Tree,
             \/ MarkLeaf(n) \/ StartWorker(n, m) \/ StopNode(n, m) \/ WorkerStep(n)
             \/ WorkerFails(n) \/ StateAges(n) \/ CreateHold(n) \/ InstanceStarts(n)
             \/ RequestSettles(n)
      PROVE  Processes'
  BY <1>6 DEF MarkLeaf, StartWorker, StopNode, WorkerStep, LaunchIntent, Reconcile, Send,
       RecordRejection, RecordChild, SettleChild, WorkerFails, StateAges, CreateHold,
       InstanceStarts, RequestSettles, Processes
<1>7. CASE StartDeleting \/ Operator \/ UNCHANGED vars
  BY <1>7 DEF StartDeleting, Operator, StopFamily, HoldFamily, ClearHold, BeginCleanup, vars,
       Processes
<1> QED BY <1>1, <1>3, <1>4, <1>5, <1>6, <1>7
        DEF Next, ProcessStep, DaemonStep, EnvironmentStep, FaultStep

\* and of everything else.
LEMMA OthersStep ==
  ASSUME Others, [Next]_vars
  PROVE  Others'
<1> USE DEF hosts, log, controls, Others, Upset
<1>0. Tree \subseteq Node BY DEF Tree
<1>1. ASSUME NEW n \in Tree, NEW m \in Tree,
             \/ Boot(n) \/ PublishReadiness(n) \/ MarkLeaf(n) \/ PublishPropagation(n)
             \/ ChildNotReady(n) \/ ChildrenAccepted(n) \/ AuthorizeRetirement(n) \/ RetireSelf(n)
             \/ AcceptChild(n, m) \/ StopNode(n, m) \/ MonitorSees(n) \/ BootDying(n)
      PROVE  Others'
  BY <1>1 DEF Boot, BootDying, PublishReadiness, MarkLeaf, PublishPropagation, ChildNotReady,
       ChildrenAccepted, AuthorizeRetirement, RetireSelf, AcceptChild, StopNode, MonitorSees, Latch
<1>2. ASSUME NEW n \in Tree, NEW m \in Tree,
             AwaitWorkers(n) \/ FinishStop(n) \/ StartWorker(n, m) \/ Crash(n)
      PROVE  Others'
  BY <1>0, <1>2 DEF AwaitWorkers, FinishStop, StartWorker, Crash, Dismiss, Busy
<1>3. ASSUME NEW n \in Tree, WorkerStep(n) \/ WorkerFails(n) PROVE Others'
  <2>1. CASE LaunchIntent(n) \/ Reconcile(n) \/ RecordRejection(n) \/ RecordChild(n) \/ SettleChild(n)
    BY <2>1 DEF LaunchIntent, Reconcile, RecordRejection, RecordChild, SettleChild, Busy
  <2>2. CASE Send(n) BY <2>2 DEF Send, Busy, Exists
  <2>3. CASE WorkerFails(n) BY <2>3 DEF WorkerFails, Busy
  <2> QED BY <1>3, <2>1, <2>2, <2>3 DEF WorkerStep
<1>4. ASSUME NEW n \in Tree, InstanceStarts(n) \/ RequestSettles(n) \/ TerminateSelf(n) PROVE Others'
  BY <1>4 DEF InstanceStarts, RequestSettles, TerminateSelf, Becomes, Exists
<1>5. ASSUME NEW n \in Tree, InstanceStops(n) \/ Delete(n) \/ InstanceIsLost(n) PROVE Others'
  BY <1>5 DEF InstanceStops, Delete, InstanceIsLost, Becomes, EndProcess, Dismiss, Exists
<1>6. ASSUME NEW n \in Tree, MonitorExpires(n) \/ CallFails(n) \/ TimeOut(n) \/ StateAges(n)
      PROVE  Others'
  BY <1>6 DEF MonitorExpires, Latch, CallFails, TimeOut, StateAges
<1>7. ASSUME NEW n \in Tree, Stop(n) \/ Violate(n) \/ InvokeHold(n) PROVE Others'
  <2>1. CASE Stop(n) BY <1>0, <2>1 DEF Stop
  <2>2. CASE Violate(n) BY <1>0, <2>2 DEF Violate
  <2>3. CASE InvokeHold(n) BY <1>0, <2>3 DEF InvokeHold
  <2> QED BY <1>7, <2>1, <2>2, <2>3
<1>8. ASSUME NEW n \in Tree, CreateHold(n) PROVE Others'
  <2>1. hold' \in BOOLEAN /\ enabled' \in BOOLEAN BY <1>8, Zenon DEF CreateHold
  <2> QED BY <1>8, <2>1 DEF CreateHold
<1>9. CASE StartDeleting \/ Operator \/ UNCHANGED vars
  <2>1. hold' \in BOOLEAN /\ enabled' \in BOOLEAN
    BY <1>9, Zenon DEF StartDeleting, Operator, StopFamily, HoldFamily, ClearHold, BeginCleanup,
       vars
  <2> QED BY <1>9, <2>1
          DEF StartDeleting, Operator, StopFamily, HoldFamily, ClearHold, BeginCleanup, vars
<1> QED BY <1>1, <1>2, <1>3, <1>4, <1>5, <1>6, <1>7, <1>8, <1>9
        DEF Next, ProcessStep, DaemonStep, EnvironmentStep, FaultStep

\* A launch goes only to a child, and a path beyond the last generation is nobody's child.
LEMMA WithinStep ==
  ASSUME Others, Within, [Next]_vars
  PROVE  Within'
<1> USE DEF hosts, log, controls
<1>1. ASSUME NEW n \in Tree
      PROVE  n \in Node /\ n < 2 * shape.width /\ shape.width \in Nat
  <2>1. n \in Node /\ n \in Nat \ {0} /\ shape.width \in Nat \ {0}
    BY NodeAssumption, ShapeAssumption DEF Tree, Others
  <2>2. CASE n = Root BY <2>1, <2>2 DEF Root
  <2>3. CASE n # Root
    <3>1. n \div 2 < shape.width /\ n \div 2 \in Nat BY <2>1, <2>3 DEF Tree, Children, Parent
    <3>2. n <= 2 * (n \div 2) + 1 BY <2>1
    <3> QED BY <2>1, <3>1, <3>2
  <2> QED BY <2>2, <2>3
<1>2. ASSUME NEW n \in Tree, NEW s, ec2' = [ec2 EXCEPT ![n] = s], shape' = shape PROVE Within'
  BY <1>1, <1>2 DEF Within, Others
<1>3. ASSUME UNCHANGED <<ec2, shape>> PROVE Within' BY <1>3 DEF Within
<1>4. ASSUME NEW n \in Tree, DaemonStep(n) PROVE Within'
  BY <1>2, <1>3, <1>4 DEF DaemonStep, Boot, BootDying, PublishReadiness, MarkLeaf, AwaitWorkers,
       PublishPropagation, ChildNotReady, ChildrenAccepted, AuthorizeRetirement, RetireSelf,
       TerminateSelf, Stop, Violate, FinishStop, InvokeHold, StartWorker, AcceptChild, StopNode
<1>5. ASSUME NEW n \in Tree, WorkerStep(n) PROVE Within'
  BY <1>2, <1>3, <1>5 DEF WorkerStep, LaunchIntent, Reconcile, Send, RecordRejection, RecordChild,
       SettleChild
<1>6. ASSUME NEW n \in Tree, MonitorSees(n) \/ EnvironmentStep(n) PROVE Within'
  BY <1>2, <1>3, <1>6 DEF MonitorSees, Latch, EnvironmentStep, CreateHold, InstanceStarts,
       RequestSettles, InstanceStops, Delete, Becomes
<1>7. ASSUME NEW n \in Tree, FaultStep(n) PROVE Within'
  BY <1>2, <1>3, <1>7 DEF FaultStep, WorkerFails, MonitorExpires, Latch, Crash, CallFails, TimeOut,
       StateAges, InstanceIsLost, Becomes
<1>8. CASE StartDeleting \/ Operator \/ UNCHANGED vars
  BY <1>3, <1>8 DEF StartDeleting, Operator, StopFamily, HoldFamily, ClearHold, BeginCleanup, vars
<1> QED BY <1>4, <1>5, <1>6, <1>7, <1>8 DEF Next, ProcessStep
LEMMA InitTyped == Init => TypeOK
<1> SUFFICES ASSUME Init PROVE TypeOK OBVIOUS
<1>1. Tables BY DEF Init, Tables, Entry
<1>2. Processes BY DEF Init, Processes, Process, Label, Off
<1>3. Others BY DEF Init, Others, Exists, Busy
<1>4. Within BY NodeAssumption, ShapeAssumption DEF Init, Within, Root
<1> QED BY <1>1, <1>2, <1>3, <1>4, TypeParts

LEMMA NextTyped == TypeOK /\ [Next]_vars => TypeOK'
<1> SUFFICES ASSUME TypeOK, [Next]_vars PROVE TypeOK' OBVIOUS
<1>1. Tables /\ Processes /\ Others /\ Within BY TypeParts
<1>2. Tables' /\ Processes' /\ Others' /\ Within'
  BY <1>1, TablesStep, ProcessesStep, OthersStep, WithinStep
<1> QED BY <1>2 DEF TypeOK, Tables, Processes, Others, Within, Entry, Process, Label

\* Every variable keeps its type, and no instance is launched beyond max_generation.
THEOREM TypeCorrect == Spec => []TypeOK
<1> QED BY InitTyped, NextTyped, PTL DEF Spec
=============================================================================
