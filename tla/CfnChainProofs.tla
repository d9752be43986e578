--------------------------- MODULE CfnChainProofs ---------------------------
(***************************************************************************)
(* Safety of CfnChain for every number of generations, of CONTROL versions, *)
(* of required heartbeats and of upsets.  A generation's daemon is the only *)
(* one that asks for its successor, and only while it owns CURRENT; what it *)
(* has seen of the successor stays true because nobody else may undo it.    *)
(***************************************************************************)
EXTENDS CfnChain, FiniteSetTheorems, TLAPS

-----------------------------------------------------------------------------
(* The inductive invariant *)

MarkedFor(n) == marker # None /\ marker.gen = n

\* From the test of ownership to the handoff
OwnerPc == LeasePc \ {"recheck", "delete"}

\* Past the limit no daemon gets as far as the lease, and none counts too many
\* heartbeats.
CountingPc == {"current", "publish", "acquire"} \cup (LeasePc \ {"handoff", "commit", "delete"})
PlacedAt(g) ==
    /\ pc[g] \in LeasePc \cup {"acquire"} => g < MaxGeneration[mem[g].pins]
    /\ pc[g] \in CountingPc => mem[g].beats < Required
Placed == \A g \in Gen : PlacedAt(g)

\* What a daemon's step still knows from the steps before it
AtPlace(g) ==
    /\ pc[g] \in OwnerPc => cur = g
    /\ pc[g] = "delete" => cur # None /\ g < cur
    /\ pc[g] \in {"capacity", "control", "begin"} => requests[g + 1] = 0 \/ MarkedFor(g + 1)
    /\ pc[g] = "create" => requests[g + 1] = 0 /\ MarkedFor(g + 1)
    /\ pc[g] = "record" => stack[g + 1] # "none"
    /\ pc[g] \in {"end", "wait", "look", "handoff", "commit"} => g + 1 \in resource
    /\ pc[g] = "commit" =>
        stack[g + 1] = "complete" /\ built[g + 1] = Release[mem[g].pins]

\* The generations that have owned the cycle, and those nobody may ask for yet
Behind(n) == IF cur = None THEN n = 0 ELSE n <= cur
Ahead(n) == IF cur = None THEN n > 0 ELSE n > cur + 1

\* The requests, what became of them, and the records of both
Ledger(n) ==
    /\ requests[n] <= 1
    /\ n \in inflight => requests[n] = 1 /\ stack[n] = "none"
    /\ stack[n] # "none" /\ n # 0 => requests[n] = 1
    /\ n \in resource => stack[n] # "none"
    /\ requests[n] = 1 /\ n \notin resource => MarkedFor(n)
    /\ stack[n] \in {"deleting", "deleted"} => cur # None /\ n < cur
    /\ Behind(n) => stack[n] \in {"complete", "deleting", "deleted"}
    /\ Ahead(n) => requests[n] = 0
    /\ ec2[n] # "none" => stack[n] # "none"

Ledgers == 0 \in resource /\ \A n \in Gen : Ledger(n)
Places == \A g \in Gen : AtPlace(g)

\* The answer of check_capacity lasts until the request it is needed for.
Running == {n \in Gen : ec2[n] = "running"}
Room ==
    \A g \in Gen : pc[g] \in {"control", "begin", "create"} /\ requests[g + 1] = 0
                     => Cardinality(Running) < MaxLive

Safe == Places /\ Ledgers /\ Room /\ LiveCeiling
IInv == TypeOK /\ Placed /\ Safe

-----------------------------------------------------------------------------
(* Types *)

LEMMA Constants ==
    /\ LastGen \in Nat /\ Gen \subseteq Nat /\ 0 \in Gen /\ MaxUpsets \in Nat
    /\ \A v \in Pins : MaxGeneration[v] \in Gen /\ Release[v] \in Releases
    /\ \A v \in Pins, g \in Gen : g < MaxGeneration[v] => g + 1 \in Gen
    /\ Blank \in Memory /\ Blank.beats < Required /\ NoState \in GenState
    /\ Required \in Nat \ {0} /\ MaxLive \in Nat \ {0, 1}
<1>1. /\ LastGen \in Nat /\ Gen \subseteq Nat /\ 0 \in Gen /\ MaxUpsets \in Nat
      /\ \A v \in Pins : MaxGeneration[v] \in Gen
      /\ \A v \in Pins, g \in Gen : g < MaxGeneration[v] => g + 1 \in Gen
      /\ Required \in Nat \ {0} /\ MaxLive \in Nat \ {0, 1}
    BY LastGenAssumption, PinsAssumption, MaxUpsetsAssumption, RequiredAssumption,
       MaxLiveAssumption DEF Gen
<1>2. \A v \in Pins : Release[v] \in Releases
    BY DEF Releases
<1>3. Blank \in Memory /\ Blank.beats < Required /\ NoState \in GenState
    BY <1>1, PinsAssumption DEF Blank, Memory, NoState, GenState
<1>. QED BY <1>1, <1>2, <1>3

\* What a step that only moves one daemon on leaves of the types
LEMMA MoveType ==
    ASSUME TypeOK, Placed, NEW g \in Gen, NEW next \in Pc,
           pc' = [pc EXCEPT ![g] = next], mem' \in [Gen -> Memory],
           \A h \in Gen \ {g} : mem'[h] = mem[h],
           next \in LeasePc \cup {"acquire"} => g < MaxGeneration[mem'[g].pins],
           next \in CountingPc => mem'[g].beats < Required
    PROVE  pc' \in [Gen -> Pc] /\ Placed'
BY DEF TypeOK, Placed, PlacedAt

LEMMA LookType ==
    ASSUME TypeOK, Placed, NEW g \in Gen, NEW label, NEW next \in Pc,
           Look(g, label, next),
           next \in LeasePc \cup {"acquire"} => label \in LeasePc \cup {"acquire"},
           next \in CountingPc => label \in CountingPc
    PROVE  TypeOK' /\ Placed'
<1>1. /\ pc[g] = label /\ pc' = [pc EXCEPT ![g] = next] /\ mem' = mem
      /\ UNCHANGED <<awsVars, opVars, cur, lease, marker, genVars, budget>>
    BY DEF Look, At, Goto
<1>2. pc' \in [Gen -> Pc] /\ Placed'
    BY <1>1, MoveType DEF TypeOK, Placed, PlacedAt
<1>. QED BY <1>1, <1>2 DEF TypeOK, awsVars, opVars, genVars, budget, Upsets

LEMMA Places_Pc ==
    /\ LeasePc \subseteq Pc /\ EndPc \subseteq Pc /\ CountingPc \subseteq Pc
    /\ {"down", "claim", "idle", "current", "publish", "acquire", "hold", "done",
        "gone"} \subseteq Pc
BY DEF Pc, LeasePc, EndPc, CountingPc

LEMMA BeginType ==
    ASSUME TypeOK, Placed, NEW g \in Gen, Begin(g)
    PROVE  TypeOK' /\ Placed'
<1>. USE Constants, Places_Pc DEF awsVars, opVars, genVars, budget, Upsets, Goto, At
<1>1. CASE Boot(g)
    BY <1>1, LookType DEF Boot, LeasePc, CountingPc
<1>2. CASE ClaimCurrent(g)
    <2>1. pc' \in [Gen -> Pc] /\ Placed'
        <3>1. (\E next \in {"hold", "idle"} : pc' = [pc EXCEPT ![g] = next]) /\ mem' = mem
            BY <1>2 DEF ClaimCurrent
        <3>2. {"hold", "idle"} \cap (LeasePc \cup {"acquire"} \cup CountingPc) = {}
            BY DEF LeasePc, CountingPc
        <3>3. mem' \in [Gen -> Memory]
            BY <3>1 DEF TypeOK
        <3>. QED BY <3>1, <3>2, <3>3, MoveType
    <2>2. cur' \in Gen \cup {None}
        BY <1>2 DEF ClaimCurrent, TypeOK
    <2>. QED BY <1>2, <2>1, <2>2 DEF ClaimCurrent, TypeOK
<1>3. CASE InvokeHold(g)
    <2>1. mem' \in [Gen -> Memory] /\ state' \in [Gen -> GenState]
        BY <1>3 DEF InvokeHold, CreateHold, Forget, TypeOK, GenState
    <2>2. pc' \in [Gen -> Pc] /\ Placed'
        <3>1. "down" \notin LeasePc \cup {"acquire"} \cup CountingPc
            BY DEF LeasePc, CountingPc
        <3>2. pc' = [pc EXCEPT ![g] = "down"] /\ \A h \in Gen \ {g} : mem'[h] = mem[h]
            BY <1>3 DEF InvokeHold, Forget, TypeOK
        <3>. QED BY <2>1, <3>1, <3>2, MoveType
    <2>. QED BY <1>3, <2>1, <2>2 DEF InvokeHold, CreateHold, TypeOK
<1>4. CASE ReadControl(g)
    <2>1. mem' \in [Gen -> Memory] /\ mem'[g].beats < Required
        BY <1>4 DEF ReadControl, Remember, TypeOK, Memory, Enabled
    <2>2. pc' \in [Gen -> Pc] /\ Placed'
        <3>1. "current" \notin LeasePc \cup {"acquire"}
            BY DEF LeasePc
        <3>2. pc' = [pc EXCEPT ![g] = "current"] /\ \A h \in Gen \ {g} : mem'[h] = mem[h]
            BY <1>4 DEF ReadControl, Remember, TypeOK
        <3>. QED BY <2>1, <3>1, <3>2, MoveType
    <2>. QED BY <1>4, <2>1, <2>2 DEF ReadControl, TypeOK
<1>5. CASE ReadCurrent(g)
    <2>1. mem' \in [Gen -> Memory] /\ mem'[g].beats = mem[g].beats
        BY <1>5 DEF ReadCurrent, Remember, TypeOK, Memory
    <2>2. pc' \in [Gen -> Pc] /\ Placed'
        <3>1. "publish" \notin LeasePc \cup {"acquire"} /\ "current" \in CountingPc
            BY DEF LeasePc, CountingPc
        <3>2. /\ pc[g] = "current" /\ pc' = [pc EXCEPT ![g] = "publish"]
              /\ \A h \in Gen \ {g} : mem'[h] = mem[h]
            BY <1>5 DEF ReadCurrent, Remember, TypeOK
        <3>3. mem[g].beats < Required
            BY <3>1, <3>2 DEF Placed, PlacedAt
        <3>. QED BY <2>1, <3>1, <3>2, <3>3, MoveType
    <2>. QED BY <1>5, <2>1, <2>2 DEF ReadCurrent, TypeOK
<1>6. CASE WriteHeartbeat(g)
    <2>1. PICK next \in {"idle", "done", "acquire", "hold"} :
            /\ pc' = [pc EXCEPT ![g] = next]
            /\ next = "acquire" => ~Boundary(g, mem[g].pins) /\ mem' = mem
            /\ next # "acquire" => Forget(g)
        BY <1>6 DEF WriteHeartbeat, AfterHeartbeat, TypeOK
    <2>2. mem' \in [Gen -> Memory] /\ \A h \in Gen \ {g} : mem'[h] = mem[h]
        BY <2>1 DEF Forget, TypeOK
    <2>3. pc' \in [Gen -> Pc] /\ Placed'
        <3>1. next = "acquire" => g < MaxGeneration[mem'[g].pins] /\ mem'[g].beats < Required
            <4>1. pc[g] = "publish" /\ "publish" \in CountingPc
                BY <1>6 DEF WriteHeartbeat, CountingPc
            <4>2. mem[g].beats < Required
                BY <4>1 DEF Placed, PlacedAt
            <4>3. g \in Nat /\ MaxGeneration[mem[g].pins] \in Nat
                BY DEF TypeOK, Memory
            <4>4. ~Boundary(g, mem[g].pins) => g < MaxGeneration[mem[g].pins]
                BY <4>3 DEF Boundary
            <4>. QED BY <2>1, <4>2, <4>4
        <3>2. next # "acquire" => next \notin LeasePc \cup CountingPc
            BY <2>1 DEF LeasePc, CountingPc
        <3>. QED BY <2>1, <2>2, <3>1, <3>2, MoveType
    <2>4. state' \in [Gen -> GenState] /\ fresh' \subseteq Gen /\ counted' \subseteq Gen
        <3>1. mem[g].open \in BOOLEAN
            BY DEF TypeOK, Memory
        <3>2. \A s \in {"CURRENT", "CANDIDATE"} :
                [status |-> s, open |-> mem[g].open] \in GenState
            BY <3>1 DEF GenState
        <3>3. state' = state \/ \E r \in GenState : state' = [state EXCEPT ![g] = r]
            BY <1>6, <3>2 DEF WriteHeartbeat
        <3>4. state' \in [Gen -> GenState]
            BY <3>3 DEF TypeOK
        <3>5. fresh' \subseteq Gen /\ counted' \subseteq Gen
            BY <1>6 DEF WriteHeartbeat, TypeOK
        <3>. QED BY <3>4, <3>5
    <2>. QED BY <1>6, <2>2, <2>3, <2>4 DEF WriteHeartbeat, TypeOK
<1>7. CASE AcquireLease(g)
    <2>1. lease' \in Lease \cup {None} /\ mem' \in [Gen -> Memory]
        BY <1>7 DEF AcquireLease, Forget, TypeOK, Lease
    <2>2. pc' \in [Gen -> Pc] /\ Placed'
        <3>1. PICK next \in {"recheck", "idle"} :
                /\ pc' = [pc EXCEPT ![g] = next]
                /\ next = "recheck" => mem' = mem
                /\ \A h \in Gen \ {g} : mem'[h] = mem[h]
            BY <1>7 DEF AcquireLease, Forget, TypeOK
        <3>2. g < MaxGeneration[mem[g].pins] /\ mem[g].beats < Required
            BY <1>7 DEF AcquireLease, Placed, PlacedAt, CountingPc
        <3>3. next \in Pc /\ (next \in LeasePc \cup CountingPc => next = "recheck")
            BY <3>1 DEF LeasePc, CountingPc
        <3>. QED BY <2>1, <3>1, <3>2, <3>3, MoveType
    <2>. QED BY <1>7, <2>1, <2>2 DEF AcquireLease, TypeOK
<1>8. CASE CheckOwnership(g)
    BY <1>8, LookType DEF CheckOwnership, LeasePc, EndPc, CountingPc
<1>9. CASE ReleaseLease(g)
    <2>1. lease' \in Lease \cup {None} /\ mem' \in [Gen -> Memory]
        BY <1>9 DEF ReleaseLease, Forget, TypeOK
    <2>2. pc' \in [Gen -> Pc] /\ Placed'
        <3>1. PICK next \in {"hold", "idle"} : pc' = [pc EXCEPT ![g] = next]
            BY <1>9 DEF ReleaseLease
        <3>2. \A h \in Gen \ {g} : mem'[h] = mem[h]
            BY <1>9 DEF ReleaseLease, Forget, TypeOK
        <3>3. next \in Pc /\ next \notin LeasePc \cup {"acquire"} /\ next \notin CountingPc
            BY DEF LeasePc, CountingPc
        <3>. QED BY <2>1, <3>1, <3>2, <3>3, MoveType
    <2>. QED BY <1>9, <2>1, <2>2 DEF ReleaseLease, TypeOK
<1>. QED BY <1>1, <1>2, <1>3, <1>4, <1>5, <1>6, <1>7, <1>8, <1>9, Begin(g) DEF Begin

LEMMA ProvisionType ==
    ASSUME TypeOK, Placed, NEW g \in Gen, Provision(g)
    PROVE  TypeOK' /\ Placed'
<1>. USE Constants, Places_Pc DEF awsVars, opVars, genVars, budget, Upsets, Goto, At
<1>0. pc[g] \in LeasePc => g + 1 \in Gen /\ [gen |-> g + 1, release |-> Release[mem[g].pins]] \in Marker
    <2>1. mem[g].pins \in Pins
        BY DEF TypeOK, Memory
    <2>2. pc[g] \in LeasePc => g < MaxGeneration[mem[g].pins]
        BY DEF Placed, PlacedAt
    <2>3. pc[g] \in LeasePc => g + 1 \in Gen
        BY <2>1, <2>2
    <2>4. g + 1 \in Gen => [gen |-> g + 1, release |-> Release[mem[g].pins]] \in Marker
        BY <2>1 DEF Marker
    <2>. QED BY <2>3, <2>4
<1>1. CASE FindSuccessor(g)
    BY <1>1, LookType DEF FindSuccessor, FoundSuccessor, LeasePc, EndPc, CountingPc
<1>2. CASE CheckCapacity(g)
    BY <1>2, LookType DEF CheckCapacity, LeasePc, EndPc, CountingPc
<1>3. CASE CheckControl(g)
    BY <1>3, LookType DEF CheckControl, LeasePc, EndPc, CountingPc
<1>4. CASE BeginProvisioning(g)
    <2>1. marker' \in Marker \cup {None}
        BY <1>0, <1>4 DEF BeginProvisioning, TypeOK, LeasePc
    <2>2. pc' \in [Gen -> Pc] /\ Placed'
        <3>1. PICK next \in {"create", "deferred"} : pc' = [pc EXCEPT ![g] = next]
            BY <1>4 DEF BeginProvisioning
        <3>2. /\ next \in Pc /\ pc[g] \in LeasePc /\ pc[g] \in CountingPc
              /\ mem' = mem
            BY <1>4, <3>1 DEF BeginProvisioning, LeasePc, CountingPc, EndPc, Pc
        <3>. QED BY <3>1, <3>2, MoveType DEF TypeOK, Placed, PlacedAt
    <2>. QED BY <1>4, <2>1, <2>2 DEF BeginProvisioning, TypeOK
<1>5. CASE SendCreate(g)
    <2>1. /\ inflight' \subseteq Gen /\ requests' \in [Gen -> Nat]
          /\ built' \in [Gen -> Releases \cup {None}]
        <3>1. g + 1 \in Gen /\ Release[mem[g].pins] \in Releases
            BY <1>0, <1>5 DEF SendCreate, TypeOK, LeasePc, Memory
        <3>2. requests[g + 1] + 1 \in Nat
            BY <3>1 DEF TypeOK
        <3>3. requests' = [requests EXCEPT ![g + 1] = requests[g + 1] + 1]
            BY <1>5 DEF SendCreate
        <3>4. requests' \in [Gen -> Nat]
            BY <3>2, <3>3 DEF TypeOK
        <3>5. built' \in [Gen -> Releases \cup {None}]
            BY <1>5, <3>1 DEF SendCreate, TypeOK
        <3>6. inflight' \subseteq Gen
            BY <1>5, <3>1 DEF SendCreate, TypeOK
        <3>. QED BY <3>4, <3>5, <3>6
    <2>2. pc' \in [Gen -> Pc] /\ Placed'
        <3>1. /\ "created" \in Pc /\ pc[g] \in LeasePc /\ pc[g] \in CountingPc
              /\ mem' = mem
            BY <1>5 DEF SendCreate, LeasePc, CountingPc, EndPc, Pc
        <3>. QED BY <1>5, <3>1, MoveType DEF SendCreate, TypeOK, Placed, PlacedAt
    <2>. QED BY <1>5, <2>1, <2>2 DEF SendCreate, TypeOK
<1>6. CASE CreateReturns(g)
    BY <1>6, LookType DEF CreateReturns, LeasePc, EndPc, CountingPc
<1>7. CASE RecordSubmission(g)
    <2>1. pc' \in [Gen -> Pc] /\ Placed'
        <3>1. /\ "end" \in Pc /\ pc[g] \in LeasePc /\ pc[g] \in CountingPc
              /\ mem' = mem
            BY <1>7 DEF RecordSubmission, LeasePc, CountingPc, EndPc, Pc
        <3>. QED BY <1>7, <3>1, MoveType DEF RecordSubmission, TypeOK, Placed, PlacedAt
    <2>2. resource' \subseteq Gen
        BY <1>0, <1>7 DEF RecordSubmission, TypeOK, LeasePc
    <2>. QED BY <1>7, <2>1, <2>2 DEF RecordSubmission, TypeOK
<1>8. CASE EndProvisioning(g)
    <2>1. marker' \in Marker \cup {None}
        BY <1>8 DEF EndProvisioning, TypeOK
    <2>2. pc' \in [Gen -> Pc] /\ Placed'
        <3>1. PICK next \in {"wait", "deferred"} : pc' = [pc EXCEPT ![g] = next]
            BY <1>8 DEF EndProvisioning
        <3>2. /\ next \in Pc /\ pc[g] \in LeasePc /\ pc[g] \in CountingPc
              /\ mem' = mem
            BY <1>8, <3>1 DEF EndProvisioning, LeasePc, CountingPc, EndPc, Pc
        <3>. QED BY <3>1, <3>2, MoveType DEF TypeOK, Placed, PlacedAt
    <2>. QED BY <1>8, <2>1, <2>2 DEF EndProvisioning, TypeOK
<1>. QED BY <1>1, <1>2, <1>3, <1>4, <1>5, <1>6, <1>7, <1>8, Provision(g) DEF Provision

LEMMA HandoffType ==
    ASSUME TypeOK, Placed, NEW g \in Gen, Handoff(g)
    PROVE  TypeOK' /\ Placed'
<1>. USE Constants, Places_Pc DEF awsVars, opVars, genVars, budget, Upsets, Goto, At
<1>0. pc[g] \in LeasePc => g + 1 \in Gen
    BY DEF TypeOK, Memory, Placed, PlacedAt
<1>1. CASE RenewLease(g)
    <2>1. lease' \in Lease \cup {None}
        BY <1>1 DEF RenewLease, HoldsLease, TypeOK, Lease
    <2>2. pc' \in [Gen -> Pc] /\ Placed'
        <3>1. PICK next \in {"look", "deferred", "violated"} : pc' = [pc EXCEPT ![g] = next]
            BY <1>1 DEF RenewLease
        <3>2. /\ next \in Pc /\ pc[g] \in LeasePc /\ pc[g] \in CountingPc
              /\ mem' = mem
            BY <1>1, <3>1 DEF RenewLease, LeasePc, CountingPc, EndPc, Pc
        <3>. QED BY <3>1, <3>2, MoveType DEF TypeOK, Placed, PlacedAt
    <2>. QED BY <1>1, <2>1, <2>2 DEF RenewLease, TypeOK
<1>2. CASE PollSuccessor(g)
    <2>0. pc[g] \in LeasePc /\ mem[g].beats < Required /\ g < MaxGeneration[mem[g].pins]
        <3>1. pc[g] = "look" /\ "look" \in LeasePc /\ "look" \in CountingPc
            BY <1>2 DEF PollSuccessor, LeasePc, CountingPc
        <3>. QED BY <3>1 DEF Placed, PlacedAt
    <2>1. mem[g].beats \in Nat /\ mem[g] \in Memory
        BY DEF TypeOK, Memory
    <2>2. PICK next \in {"handoff", "wait", "deferred"} :
            /\ pc' = [pc EXCEPT ![g] = next]
            /\ \/ UNCHANGED <<mem, counted>>
               \/ /\ mem' = [mem EXCEPT ![g] = [mem[g] EXCEPT !.beats = @ + 1]]
                  /\ counted' = counted \cup {g + 1}
                  /\ next = IF mem[g].beats + 1 >= Required THEN "handoff" ELSE "wait"
        BY <1>2, <2>1 DEF PollSuccessor, Remember, Enough
    <2>3. mem' \in [Gen -> Memory] /\ counted' \subseteq Gen
        <3>1. mem[g].beats + 1 \in 0..Required
            BY <2>0, <2>1
        <3>2. [mem[g] EXCEPT !.beats = @ + 1] \in Memory
            BY <2>1, <3>1 DEF Memory
        <3>. QED BY <2>0, <2>2, <3>2, <1>0 DEF TypeOK
    <2>4. pc' \in [Gen -> Pc] /\ Placed'
        <3>1. /\ mem'[g].pins = mem[g].pins /\ \A h \in Gen \ {g} : mem'[h] = mem[h]
              /\ next \in CountingPc => mem'[g].beats < Required
            BY <2>0, <2>1, <2>2 DEF TypeOK, Memory, CountingPc
        <3>2. next \in Pc
            BY DEF Pc, LeasePc, EndPc
        <3>. QED BY <2>0, <2>2, <2>3, <3>1, <3>2, MoveType
    <2>. QED BY <1>2, <2>3, <2>4 DEF PollSuccessor, TypeOK
<1>3. CASE CheckHandoff(g)
    BY <1>3, LookType DEF CheckHandoff, Verdict, LeasePc, EndPc, CountingPc
<1>4. CASE ConditionalHandoff(g)
    <2>1. cur' \in Gen \cup {None} /\ state' \in [Gen -> GenState]
        BY <1>0, <1>4 DEF ConditionalHandoff, TypeOK, LeasePc, GenState
    <2>2. pc' \in [Gen -> Pc] /\ Placed'
        <3>1. PICK next \in {"delete", "violated"} : pc' = [pc EXCEPT ![g] = next]
            BY <1>4 DEF ConditionalHandoff
        <3>2. next \in Pc /\ pc[g] \in LeasePc /\ next \notin CountingPc /\ mem' = mem
            BY <1>4, <3>1 DEF ConditionalHandoff, LeasePc, CountingPc, EndPc, Pc
        <3>. QED BY <3>1, <3>2, MoveType DEF TypeOK, Placed, PlacedAt
    <2>. QED BY <1>4, <2>1, <2>2 DEF ConditionalHandoff, TypeOK
<1>5. CASE DeleteOwnStack(g)
    <2>1. stack' \in [Gen -> StackState]
        BY <1>5 DEF DeleteOwnStack, TypeOK, StackState
    <2>2. pc' \in [Gen -> Pc] /\ Placed'
        <3>1. "finished" \in Pc /\ "finished" \notin LeasePc \cup CountingPc /\ mem' = mem
            BY <1>5 DEF DeleteOwnStack, LeasePc, CountingPc, EndPc, Pc
        <3>. QED BY <1>5, <3>1, MoveType DEF DeleteOwnStack, TypeOK
    <2>. QED BY <1>5, <2>1, <2>2 DEF DeleteOwnStack, TypeOK
<1>. QED BY <1>1, <1>2, <1>3, <1>4, <1>5, Handoff(g) DEF Handoff

LEMMA OperatorType ==
    ASSUME TypeOK, Placed, OperatorStep \/ ConsumeCommand \/ LeaseLapses
    PROVE  TypeOK' /\ Placed'
<1>. USE Constants DEF awsVars, opVars, genVars, budget, Upsets
<1>1. ASSUME NEW kind, Move(kind) 
      PROVE  cancels' \in Nat /\ moves' \in Nat /\ Upsets' <= MaxUpsets + 1
    BY <1>1 DEF Move, Budget, Upsets, TypeOK
<1>2. ASSUME NEW s \in Switch, RequestSwitch(s) PROVE TypeOK' /\ Placed'
    BY <1>1, <1>2 DEF RequestSwitch, Move, TypeOK, Placed, PlacedAt
<1>3. ASSUME NEW g \in Gen, OperatorHold(g) PROVE TypeOK' /\ Placed'
    <2>1. state' \in [Gen -> GenState]
        BY <1>3 DEF OperatorHold, TypeOK, GenState
    <2>. QED BY <1>1, <1>3, <2>1 DEF OperatorHold, Move, TypeOK, Placed, PlacedAt
<1>4. ASSUME ClearHold PROVE TypeOK' /\ Placed'
    BY <1>1, <1>4 DEF ClearHold, Move, TypeOK, Placed, PlacedAt
<1>5. ASSUME NEW v \in Pins, EditControl(v) PROVE TypeOK' /\ Placed'
    BY <1>1, <1>5 DEF EditControl, Move, TypeOK, Placed, PlacedAt
<1>6. ASSUME ConsumeCommand PROVE TypeOK' /\ Placed'
    <2>1. enabled' \in BOOLEAN /\ cleaning' \in BOOLEAN /\ switches' \subseteq Switch
        <3>1. enabled' \in {enabled \/ (~cleaning /\ ~hold /\ cur # None), FALSE, enabled}
            BY <1>6 DEF ConsumeCommand
        <3>2. (enabled \/ (~cleaning /\ ~hold /\ cur # None)) \in BOOLEAN
            OBVIOUS
        <3>3. enabled' \in BOOLEAN
            BY <3>1, <3>2 DEF TypeOK
        <3>4. cleaning' \in BOOLEAN /\ switches' \subseteq Switch
            BY <1>6 DEF ConsumeCommand
        <3>. QED BY <3>3, <3>4
    <2>. QED BY <1>6, <2>1 DEF ConsumeCommand, TypeOK, Placed, PlacedAt
<1>7. ASSUME LeaseLapses PROVE TypeOK' /\ Placed'
    <2>1. lease' \in Lease \cup {None}
        BY <1>7 DEF LeaseLapses, TypeOK, Lease
    <2>. QED BY <1>7, <2>1 DEF LeaseLapses, TypeOK, Placed, PlacedAt
<1>. QED BY <1>2, <1>3, <1>4, <1>5, <1>6, <1>7 DEF OperatorStep

LEMMA AwsType ==
    ASSUME TypeOK, Placed, NEW n \in Gen, AwsStep(n)
    PROVE  TypeOK' /\ Placed'
<1>. USE Constants, Places_Pc DEF opVars, genVars, budget, Upsets
<1>1. ASSUME NEW s \in StackState, NEW i \in InstanceState, Becomes(n, s, i)
      PROVE  stack' \in [Gen -> StackState] /\ ec2' \in [Gen -> InstanceState]
    BY <1>1 DEF Becomes, TypeOK
<1>2. CASE AcceptCreate(n)
    <2>1. stack' \in [Gen -> StackState] /\ ec2' \in [Gen -> InstanceState]
        BY <1>1, <1>2 DEF AcceptCreate, TypeOK, StackState
    <2>. QED BY <1>2, <2>1 DEF AcceptCreate, Becomes, TypeOK, Placed, PlacedAt
<1>3. CASE StackAdvances(n)
    <2>1. stack' \in [Gen -> StackState] /\ ec2' \in [Gen -> InstanceState]
        BY <1>1, <1>3 DEF StackAdvances, StackState, InstanceState
    <2>. QED BY <1>3, <2>1 DEF StackAdvances, Becomes, TypeOK, Placed, PlacedAt
<1>4. CASE DeleteAdvances(n)
    <2>1. stack' \in [Gen -> StackState] /\ ec2' \in [Gen -> InstanceState]
        BY <1>1, <1>4 DEF DeleteAdvances, StackState, InstanceState
    <2>2. pc' \in [Gen -> Pc] /\ Placed'
        <3>1. mem' = mem /\ (pc' = pc \/ pc' = [pc EXCEPT ![n] = "gone"])
            BY <1>4 DEF DeleteAdvances, Becomes, Goto
        <3>2. "gone" \notin LeasePc \cup CountingPc
            BY DEF LeasePc, CountingPc
        <3>. QED BY <3>1, <3>2, MoveType DEF TypeOK, Placed, PlacedAt
    <2>. QED BY <1>4, <2>1, <2>2 DEF DeleteAdvances, Becomes, TypeOK
<1>. QED BY <1>2, <1>3, <1>4, AwsStep(n) DEF AwsStep

LEMMA FaultType ==
    ASSUME TypeOK, Placed, FaultStep
    PROVE  TypeOK' /\ Placed'
<1>. USE Constants, Places_Pc DEF opVars, Goto
<1>1. ASSUME NEW kind, Fault(kind) 
      PROVE  faults' \in Nat /\ cancels' \in Nat /\ Upsets' <= MaxUpsets + 1
    BY <1>1 DEF Fault, Budget, Upsets, TypeOK
<1>2. ASSUME NEW g \in Gen, Crash(g) PROVE TypeOK' /\ Placed'
    <2>1. lease' \in Lease \cup {None} /\ mem' \in [Gen -> Memory]
        <3>1. \A l \in Lease : [l EXCEPT !.stale = TRUE] \in Lease
            BY DEF Lease
        <3>2. lease' \in Lease \cup {None}
            BY <1>2, <3>1 DEF Crash, HoldsLease, TypeOK
        <3>. QED BY <1>2, <3>2 DEF Crash, Forget, TypeOK
    <2>2. pc' \in [Gen -> Pc] /\ Placed'
        <3>1. "down" \notin LeasePc \cup {"acquire"} \cup CountingPc
            BY DEF LeasePc, CountingPc
        <3>2. pc' = [pc EXCEPT ![g] = "down"] /\ \A h \in Gen \ {g} : mem'[h] = mem[h]
            BY <1>2 DEF Crash, Forget, TypeOK
        <3>. QED BY <2>1, <3>1, <3>2, MoveType
    <2>. QED BY <1>1, <1>2, <2>1, <2>2 DEF Crash, Fault, TypeOK
<1>3. ASSUME NEW g \in Gen, CallFails(g) PROVE TypeOK' /\ Placed'
    <2>1. /\ mem' \in [Gen -> Memory] /\ \A h \in Gen \ {g} : mem'[h] = mem[h]
          /\ \E next \in {"deferred", "hold", "idle", "down"} : pc' = [pc EXCEPT ![g] = next]
        BY <1>3 DEF CallFails, Forget, TypeOK
    <2>2. \A next \in {"deferred", "hold", "idle", "down"} :
            next \in Pc /\ next \notin LeasePc \cup CountingPc
        BY DEF LeasePc, CountingPc, EndPc, Pc
    <2>3. pc' \in [Gen -> Pc] /\ Placed'
        BY <2>1, <2>2, MoveType
    <2>. QED BY <1>1, <1>3, <2>1, <2>3 DEF CallFails, Fault, TypeOK
<1>4. ASSUME NEW g \in Gen, ReadinessTimesOut(g) PROVE TypeOK' /\ Placed'
    <2>1. "deferred" \in Pc /\ "deferred" \notin LeasePc \cup CountingPc
        BY DEF LeasePc, CountingPc, EndPc, Pc
    <2>2. pc' \in [Gen -> Pc] /\ Placed'
        BY <1>4, <2>1, MoveType DEF ReadinessTimesOut, TypeOK
    <2>. QED BY <1>1, <1>4, <2>2 DEF ReadinessTimesOut, Fault, TypeOK
<1>5. ASSUME NEW n \in Gen, RejectCreate(n) PROVE TypeOK' /\ Placed'
    BY <1>1, <1>5 DEF RejectCreate, Fault, TypeOK, Placed, PlacedAt
<1>6. ASSUME NEW n \in Gen, StackFails(n) PROVE TypeOK' /\ Placed'
    <2>1. stack' \in [Gen -> StackState]
        BY <1>6 DEF StackFails, TypeOK, StackState
    <2>. QED BY <1>1, <1>6, <2>1 DEF StackFails, Fault, TypeOK, Placed, PlacedAt
<1>7. ASSUME NEW n \in Gen, HeartbeatAges(n) PROVE TypeOK' /\ Placed'
    BY <1>1, <1>7 DEF HeartbeatAges, Fault, TypeOK, Placed, PlacedAt
<1>8. ASSUME LeaseExpiresUnderHolder PROVE TypeOK' /\ Placed'
    <2>1. lease' \in Lease \cup {None}
        BY <1>8 DEF LeaseExpiresUnderHolder, TypeOK, Lease
    <2>. QED BY <1>1, <1>8, <2>1 DEF LeaseExpiresUnderHolder, Fault, TypeOK, Placed, PlacedAt
<1>9. ASSUME NEW g \in Gen, HandoffCancelled(g) PROVE TypeOK' /\ Placed'
    <2>1. "violated" \in Pc /\ "violated" \notin LeasePc \cup CountingPc
        BY DEF LeasePc, CountingPc, EndPc, Pc
    <2>2. pc' \in [Gen -> Pc] /\ Placed'
        BY <1>9, <2>1, MoveType DEF HandoffCancelled, TypeOK
    <2>3. cancels' \in Nat /\ Upsets' <= MaxUpsets + 1
        BY <1>9 DEF HandoffCancelled, Budget, Upsets, TypeOK
    <2>. QED BY <1>9, <2>2, <2>3 DEF HandoffCancelled, awsVars, genVars, TypeOK
<1>. QED BY <1>2, <1>3, <1>4, <1>5, <1>6, <1>7, <1>8, <1>9 DEF FaultStep

LEMMA StutterType ==
    ASSUME TypeOK, Placed, UNCHANGED vars
    PROVE  TypeOK' /\ Placed'
BY DEF vars, awsVars, opVars, genVars, budget, Upsets, TypeOK, Placed, PlacedAt

LEMMA InitType == Init => TypeOK /\ Placed
<1>. SUFFICES ASSUME Init PROVE TypeOK /\ Placed
    OBVIOUS
<1>. USE Constants DEF Init
<1>1. pc \in [Gen -> Pc] /\ Placed
    BY Places_Pc DEF Placed, PlacedAt, LeasePc, CountingPc
<1>2. /\ stack \in [Gen -> StackState] /\ ec2 \in [Gen -> InstanceState]
      /\ built \in [Gen -> Releases \cup {None}] /\ requests \in [Gen -> Nat]
    BY DEF StackState, InstanceState
<1>3. /\ inflight \subseteq Gen /\ resource \subseteq Gen /\ fresh \subseteq Gen
      /\ counted \subseteq Gen /\ switches \subseteq Switch
      /\ state \in [Gen -> GenState] /\ mem \in [Gen -> Memory]
      /\ faults \in Nat /\ cancels \in Nat /\ moves \in Nat /\ Upsets <= MaxUpsets + 1
    BY DEF Upsets
<1>. QED BY <1>1, <1>2, <1>3 DEF TypeOK

\* Every variable keeps its type, and no daemon acts past the limit of its CONTROL.
THEOREM TypeCorrect == Spec => [](TypeOK /\ Placed)
<1>1. TypeOK /\ Placed /\ [Next]_vars => TypeOK' /\ Placed'
    <2>. SUFFICES ASSUME TypeOK, Placed, [Next]_vars PROVE TypeOK' /\ Placed'
        OBVIOUS
    <2>1. ASSUME NEW g \in Gen, DaemonStep(g) PROVE TypeOK' /\ Placed'
        BY <2>1, BeginType, ProvisionType, HandoffType DEF DaemonStep
    <2>. QED BY <2>1, AwsType, OperatorType, FaultType, StutterType DEF Next
<1>. QED BY <1>1, InitType, PTL DEF Spec

-----------------------------------------------------------------------------
(* What the invariant says of a state *)

Live == {n \in Gen : ec2[n] = "running" \/ stack[n] = "creating" \/ n \in inflight}

LEMMA GenFinite == IsFiniteSet(Gen) /\ \A S : S \subseteq Gen => IsFiniteSet(S) /\ Cardinality(S) \in Nat
<1>1. IsFiniteSet(Gen)
    BY LastGenAssumption, FS_Interval DEF Gen
<1>. QED BY <1>1, FS_Subset, FS_CardinalityType

LEMMA AddOne ==
    ASSUME NEW S, IsFiniteSet(S), NEW x
    PROVE  /\ IsFiniteSet(S \cup {x}) /\ Cardinality(S) \in Nat
           /\ Cardinality(S \cup {x}) <= Cardinality(S) + 1
<1>1. Cardinality(S) \in Nat
    BY FS_CardinalityType
<1>2. Cardinality(S \cup {x}) \in {Cardinality(S), Cardinality(S) + 1}
    BY FS_AddElement
<1>3. IsFiniteSet(S \cup {x})
    BY FS_AddElement
<1>. QED BY <1>1, <1>2, <1>3

\* The next generation exists wherever a daemon works for it.
LEMMA NextGen ==
    ASSUME TypeOK, Placed, NEW g \in Gen, pc[g] \in LeasePc
    PROVE  g + 1 \in Gen /\ g \in Nat
BY Constants DEF TypeOK, Memory, Placed, PlacedAt

\* Only one daemon works as the owner.
LEMMA OneOwner ==
    ASSUME TypeOK, Places, NEW g \in Gen, NEW h \in Gen, pc[h] \in OwnerPc, cur = g
    PROVE  h = g
BY DEF Places, AtPlace

LEMMA Elsewhere ==
    ASSUME NEW g \in Gen, pc'[g] \notin LeasePc
    PROVE  AtPlace(g)'
BY DEF AtPlace, OwnerPc, LeasePc

\* What is being created is the owner's successor.
LEMMA Creating ==
    ASSUME TypeOK, Ledgers, NEW n \in Gen, stack[n] = "creating" \/ n \in inflight
    PROVE  cur # None /\ n = cur + 1 /\ requests[n] = 1
<1>1. Ledger(n)
    BY DEF Ledgers
<1>2. ~Behind(n)
    BY <1>1 DEF Ledger
<1>3. n # 0
    <2>1. cur # None => cur \in Nat
        BY Constants DEF TypeOK
    <2>. QED BY <1>2, <2>1 DEF Behind
<1>4. requests[n] = 1
    BY <1>1, <1>3 DEF Ledger
<1>5. ~Ahead(n)
    BY <1>1, <1>4 DEF Ledger
<1>. QED BY <1>2, <1>3, <1>4, <1>5, Constants DEF Behind, Ahead, TypeOK

LEMMA LiveShrinks ==
    ASSUME LiveCeiling, Live' \subseteq Live
    PROVE  LiveCeiling'
<1>1. Live \subseteq Gen /\ Live' \subseteq Gen
    BY DEF Live
<1>2. Cardinality(Live') <= Cardinality(Live)
    BY <1>1, GenFinite, FS_Subset
<1>3. Cardinality(Live) \in Nat /\ Cardinality(Live') \in Nat
    BY <1>1, GenFinite
<1>. QED BY <1>2, <1>3, Constants DEF LiveCeiling, Live

LEMMA RunningShrinks ==
    ASSUME Running' \subseteq Running
    PROVE  Cardinality(Running) < MaxLive => Cardinality(Running') < MaxLive
<1>1. Running \subseteq Gen /\ Running' \subseteq Gen
    BY DEF Running
<1>2. Cardinality(Running') <= Cardinality(Running)
    BY <1>1, GenFinite, FS_Subset
<1>3. Cardinality(Running) \in Nat /\ Cardinality(Running') \in Nat
    BY <1>1, GenFinite
<1>. QED BY <1>2, <1>3, Constants

-----------------------------------------------------------------------------
(* Steps of a daemon that change nothing it shares with the others here *)

Shared == <<stack, built, ec2, inflight, requests, cur, marker, resource>>

LEMMA QuietStep ==
    ASSUME TypeOK, Placed, Safe, NEW g \in Gen, NEW next,
           pc' = [pc EXCEPT ![g] = next], \A h \in Gen \ {g} : mem'[h] = mem[h],
           UNCHANGED Shared, AtPlace(g)',
           next \in {"control", "begin", "create"} =>
                Cardinality(Running) < MaxLive \/ requests[g + 1] # 0
    PROVE  Safe'
<1>. USE DEF Shared, Safe
<1>1. Places'
    <2>1. ASSUME NEW h \in Gen \ {g} PROVE AtPlace(h)'
        BY <2>1 DEF Places, AtPlace, MarkedFor, TypeOK
    <2>. QED BY <2>1 DEF Places
<1>2. Ledgers'
    BY DEF Ledgers, Ledger, MarkedFor, Behind, Ahead
<1>3. Room'
    BY DEF Room, Running, TypeOK
<1>4. LiveCeiling'
    BY DEF LiveCeiling
<1>. QED BY <1>1, <1>2, <1>3, <1>4

LEMMA QuietExit ==
    ASSUME TypeOK, Placed, Safe, NEW g \in Gen, NEW next,
           pc' = [pc EXCEPT ![g] = next], \A h \in Gen \ {g} : mem'[h] = mem[h],
           UNCHANGED Shared, next \notin OwnerPc \cup {"delete"}
    PROVE  Safe'
<1>1. AtPlace(g)'
    BY DEF AtPlace, OwnerPc, LeasePc, TypeOK
<1>2. next \notin {"control", "begin", "create"}
    BY DEF OwnerPc, LeasePc
<1>. QED BY <1>1, <1>2, QuietStep

LEMMA StillStep ==
    ASSUME TypeOK, Placed, Safe, UNCHANGED <<Shared, pc, mem>>
    PROVE  Safe'
<1>. USE DEF Shared, Safe
<1>1. Places'
    BY DEF Places, AtPlace, MarkedFor
<1>2. Ledgers'
    BY DEF Ledgers, Ledger, MarkedFor, Behind, Ahead
<1>3. Room' /\ LiveCeiling'
    BY DEF Room, Running, LiveCeiling
<1>. QED BY <1>1, <1>2, <1>3

LEMMA BeginSafe ==
    ASSUME TypeOK, Placed, Safe, NEW g \in Gen, Begin(g)
    PROVE  Safe'
<1>. USE DEF awsVars, opVars, genVars, budget, Goto, At, Shared
<1>1. CASE Boot(g)
    BY <1>1, QuietExit DEF Boot, Look, OwnerPc, LeasePc
<1>2. CASE ClaimCurrent(g)
    <2>1. CASE ~cleaning /\ cur = None
        <3>1. g = 0
            <4>1. Ledger(g) /\ ec2[g] # "none"
                BY <1>2 DEF ClaimCurrent, Safe, Ledgers
            <4>2. g # 0 => Ahead(g)
                BY <2>1, Constants DEF Ahead
            <4>. QED BY <4>1, <4>2 DEF Ledger
        <3>2. cur' = 0 /\ cur' # None /\ UNCHANGED <<stack, built, ec2, inflight, requests, marker, resource, mem>>
            BY <1>2, <2>1, <3>1, NoneAssumption DEF ClaimCurrent
        <3>3. \A h \in Gen : pc[h] \notin OwnerPc \cup {"delete"}
            BY <2>1, NoneAssumption DEF Safe, Places, AtPlace
        <3>4. \A h \in Gen : pc'[h] \notin OwnerPc \cup {"delete"}
            BY <1>2, <3>3 DEF ClaimCurrent, TypeOK, OwnerPc, LeasePc
        <3>5. Places' /\ Room'
            BY <3>4 DEF Places, AtPlace, Room, OwnerPc, LeasePc
        <3>6. Ledgers'
            BY <2>1, <3>2, Constants DEF Safe, Ledgers, Ledger, Behind, Ahead, MarkedFor
        <3>7. LiveCeiling'
            BY <3>2 DEF Safe, LiveCeiling
        <3>. QED BY <3>5, <3>6, <3>7 DEF Safe
    <2>2. CASE ~(~cleaning /\ cur = None)
        BY <1>2, <2>2, QuietExit DEF ClaimCurrent, OwnerPc, LeasePc
    <2>. QED BY <2>1, <2>2
<1>3. CASE InvokeHold(g)
    BY <1>3, QuietExit DEF InvokeHold, CreateHold, Forget, TypeOK, OwnerPc, LeasePc
<1>4. CASE ReadControl(g)
    BY <1>4, QuietExit DEF ReadControl, Remember, TypeOK, OwnerPc, LeasePc
<1>5. CASE ReadCurrent(g)
    BY <1>5, QuietExit DEF ReadCurrent, Remember, TypeOK, OwnerPc, LeasePc
<1>6. CASE WriteHeartbeat(g)
    <2>1. PICK next \in {"idle", "done", "acquire", "hold"} : pc' = [pc EXCEPT ![g] = next]
        BY <1>6 DEF WriteHeartbeat, AfterHeartbeat
    <2>2. \A h \in Gen \ {g} : mem'[h] = mem[h]
        BY <1>6 DEF WriteHeartbeat, Forget, TypeOK
    <2>. QED BY <1>6, <2>1, <2>2, QuietExit DEF WriteHeartbeat, OwnerPc, LeasePc
<1>7. CASE AcquireLease(g)
    <2>1. PICK next \in {"recheck", "idle"} : pc' = [pc EXCEPT ![g] = next]
        BY <1>7 DEF AcquireLease
    <2>2. \A h \in Gen \ {g} : mem'[h] = mem[h]
        BY <1>7 DEF AcquireLease, Forget, TypeOK
    <2>. QED BY <1>7, <2>1, <2>2, QuietExit DEF AcquireLease, OwnerPc, LeasePc
<1>8. CASE CheckOwnership(g)
    <2>1. CASE cur = g
        <3>1. AtPlace(g)'
            BY <1>8, <2>1 DEF CheckOwnership, Look, AtPlace, TypeOK
        <3>. QED BY <1>8, <2>1, <3>1, QuietStep DEF CheckOwnership, Look
    <2>2. CASE cur # g
        BY <1>8, <2>2, QuietExit DEF CheckOwnership, Look, OwnerPc, LeasePc
    <2>. QED BY <2>1, <2>2
<1>9. CASE ReleaseLease(g)
    <2>1. PICK next \in {"hold", "idle"} : pc' = [pc EXCEPT ![g] = next]
        BY <1>9 DEF ReleaseLease
    <2>2. \A h \in Gen \ {g} : mem'[h] = mem[h]
        BY <1>9 DEF ReleaseLease, Forget, TypeOK
    <2>. QED BY <1>9, <2>1, <2>2, QuietExit DEF ReleaseLease, OwnerPc, LeasePc
<1>. QED BY <1>1, <1>2, <1>3, <1>4, <1>5, <1>6, <1>7, <1>8, <1>9, Begin(g) DEF Begin

LEMMA ProvisionSafe ==
    ASSUME TypeOK, Placed, Safe, NEW g \in Gen, Provision(g)
    PROVE  Safe'
<1>. USE DEF awsVars, opVars, genVars, budget, Goto, At, Shared
<1>0. /\ pc[g] \in OwnerPc /\ cur = g /\ g + 1 \in Gen /\ g \in Nat /\ g + 1 # 0
      /\ AtPlace(g) /\ Ledger(g + 1)
    <2>1. pc[g] \in OwnerPc /\ pc[g] \in LeasePc
        BY Provision(g) DEF Provision, FindSuccessor, CheckCapacity, CheckControl,
              BeginProvisioning, SendCreate, CreateReturns, RecordSubmission,
              EndProvisioning, Look, OwnerPc, LeasePc
    <2>2. g + 1 \in Gen /\ g \in Nat
        BY <2>1, NextGen
    <2>3. AtPlace(g) /\ Ledger(g + 1)
        BY <2>2 DEF Safe, Places, Ledgers
    <2>4. cur = g
        BY <2>1, <2>3 DEF AtPlace
    <2>. QED BY <2>1, <2>2, <2>3, <2>4
\* No other daemon is at a place that depends on what this one changes.
<1>o. \A h \in Gen \ {g} : pc[h] \notin OwnerPc
    BY <1>0, OneOwner DEF Safe
<1>1. CASE FindSuccessor(g)
    <2>1. PICK next \in {"capacity", "violated", "wait", "record", "deferred"} :
            /\ pc' = [pc EXCEPT ![g] = next] /\ mem' = mem /\ UNCHANGED Shared
            /\ next = "capacity" => ~Exists(g + 1)
            /\ next = "wait" => Exists(g + 1) /\ marker = None
            /\ next = "record" => Exists(g + 1)
        BY <1>1 DEF FindSuccessor, FoundSuccessor, Look
    <2>2. ~Exists(g + 1) => requests[g + 1] = 0 \/ MarkedFor(g + 1)
        <3>1. stack[g + 1] # "deleted"
            BY <1>0, NoneAssumption DEF Ledger
        <3>2. requests[g + 1] \in {0, 1}
            BY <1>0 DEF Ledger, TypeOK
        <3>. QED BY <1>0, <3>1, <3>2 DEF Ledger, Exists
    <2>3. Exists(g + 1) /\ marker = None => g + 1 \in resource
        BY <1>0 DEF Ledger, Exists, MarkedFor
    <2>4. pc'[g] = next
        BY <2>1 DEF TypeOK
    <2>5. AtPlace(g)'
        BY <1>0, <2>1, <2>2, <2>3, <2>4 DEF AtPlace, Exists, MarkedFor
    <2>. QED BY <2>1, <2>5, QuietStep
<1>2. CASE CheckCapacity(g)
    <2>1. PICK next \in {"control", "deferred"} :
            /\ pc' = [pc EXCEPT ![g] = next] /\ mem' = mem /\ UNCHANGED Shared
            /\ next = "control" => Cardinality(Running) < MaxLive
        BY <1>2 DEF CheckCapacity, HasCapacity, Look, Running
    <2>2. AtPlace(g)'
        BY <1>0, <1>2, <2>1 DEF CheckCapacity, Look, AtPlace, MarkedFor, TypeOK
    <2>. QED BY <2>1, <2>2, QuietStep
<1>3. CASE CheckControl(g)
    <2>1. PICK next \in {"begin", "deferred"} :
            pc' = [pc EXCEPT ![g] = next] /\ mem' = mem /\ UNCHANGED Shared
        BY <1>3 DEF CheckControl, Look
    <2>2. AtPlace(g)'
        BY <1>0, <1>3, <2>1 DEF CheckControl, Look, AtPlace, MarkedFor, TypeOK
    <2>3. Cardinality(Running) < MaxLive \/ requests[g + 1] # 0
        BY <1>3 DEF CheckControl, Look, Safe, Room
    <2>. QED BY <2>1, <2>2, <2>3, QuietStep
<1>4. CASE BeginProvisioning(g)
    <2>0. requests[g + 1] = 0 \/ MarkedFor(g + 1)
        BY <1>0, <1>4 DEF BeginProvisioning, AtPlace
    <2>1. CASE Enabled /\ ~cleaning /\ marker = None
        <3>0. [gen |-> g + 1, release |-> Release[mem[g].pins]] \in Marker
            BY <1>0, Constants DEF TypeOK, Memory, Marker
        <3>1. /\ pc' = [pc EXCEPT ![g] = "create"] /\ mem' = mem
              /\ marker' # None /\ marker'.gen = g + 1 /\ requests[g + 1] = 0
              /\ UNCHANGED <<stack, built, ec2, inflight, requests, cur, resource>>
            BY <1>4, <2>0, <2>1, <3>0, NoneAssumption DEF BeginProvisioning, MarkedFor
        <3>2. Places'
            <4>1. AtPlace(g)'
                BY <1>0, <3>1 DEF AtPlace, MarkedFor, TypeOK
            <4>2. ASSUME NEW h \in Gen \ {g} PROVE AtPlace(h)'
                BY <1>o, <3>1 DEF Safe, Places, AtPlace, TypeOK, OwnerPc, LeasePc
            <4>. QED BY <4>1, <4>2 DEF Places
        <3>3. Ledgers'
            BY <2>1, <3>1 DEF Safe, Ledgers, Ledger, MarkedFor, Behind, Ahead
        <3>4. Room'
            BY <1>4, <3>1 DEF BeginProvisioning, Safe, Room, Running, TypeOK
        <3>5. LiveCeiling'
            BY <3>1 DEF Safe, LiveCeiling
        <3>. QED BY <3>2, <3>3, <3>4, <3>5 DEF Safe
    <2>2. CASE ~(Enabled /\ ~cleaning /\ marker = None)
        BY <1>4, <2>2, QuietExit DEF BeginProvisioning, OwnerPc, LeasePc, EndPc
    <2>. QED BY <2>1, <2>2
<1>5. CASE SendCreate(g)
    <2>1. /\ requests[g + 1] = 0 /\ MarkedFor(g + 1) /\ stack[g + 1] = "none"
          /\ g + 1 \notin inflight /\ g + 1 \notin resource
          /\ Cardinality(Running) < MaxLive
        BY <1>0, <1>5 DEF SendCreate, AtPlace, Ledger, Safe, Room
    <2>2. /\ inflight' = inflight \cup {g + 1} /\ requests' = [requests EXCEPT ![g + 1] = 1]
          /\ pc' = [pc EXCEPT ![g] = "created"]
          /\ UNCHANGED <<stack, ec2, cur, marker, resource, mem>>
        BY <1>0, <1>5, <2>1 DEF SendCreate, TypeOK
    <2>3. Places'
        <3>1. AtPlace(g)'
            BY <1>0, <2>2 DEF AtPlace, TypeOK
        <3>2. ASSUME NEW h \in Gen \ {g} PROVE AtPlace(h)'
            BY <1>o, <2>2 DEF Safe, Places, AtPlace, TypeOK, OwnerPc, LeasePc
        <3>. QED BY <3>1, <3>2 DEF Places
    <2>4. Ledgers'
        <3>1. ASSUME NEW n \in Gen, n # g + 1 PROVE Ledger(n)'
            BY <2>2, <3>1 DEF Safe, Ledgers, Ledger, MarkedFor, Behind, Ahead, TypeOK
        <3>2. Ledger(g + 1)'
            BY <1>0, <2>1, <2>2, NoneAssumption DEF Ledger, MarkedFor, Behind, Ahead, TypeOK
        <3>. QED BY <2>2, <3>1, <3>2 DEF Safe, Ledgers
    <2>5. Room'
        BY <1>o, <2>2 DEF Room, TypeOK, OwnerPc, LeasePc
    <2>6. LiveCeiling'
        <3>1. Live' \subseteq Running \cup {g + 1}
            <4>1. ASSUME NEW n \in Gen, stack[n] = "creating" \/ n \in inflight PROVE FALSE
                BY <1>0, <2>1, <4>1, Creating DEF Safe
            <4>. QED BY <2>2, <4>1 DEF Live, Running
        <3>2. /\ IsFiniteSet(Running \cup {g + 1})
              /\ Cardinality(Running \cup {g + 1}) <= Cardinality(Running) + 1
              /\ Cardinality(Running) \in Nat
            BY GenFinite, AddOne DEF Running
        <3>3. Cardinality(Live') <= Cardinality(Running \cup {g + 1})
            BY <3>1, <3>2, FS_Subset
        <3>4. Cardinality(Running \cup {g + 1}) \in Nat /\ Cardinality(Live') \in Nat
            BY <3>1, <3>2, FS_Subset, FS_CardinalityType
        <3>5. Cardinality(Live') <= MaxLive
            BY <2>1, <3>2, <3>3, <3>4, Constants
        <3>. QED BY <3>5 DEF LiveCeiling, Live
    <2>. QED BY <2>3, <2>4, <2>5, <2>6 DEF Safe
<1>6. CASE CreateReturns(g)
    <2>1. PICK next \in {"record", "deferred"} :
            /\ pc' = [pc EXCEPT ![g] = next] /\ mem' = mem /\ UNCHANGED Shared
            /\ next = "record" => Exists(g + 1)
        BY <1>6 DEF CreateReturns, Look
    <2>2. AtPlace(g)'
        BY <1>0, <2>1 DEF AtPlace, Exists, TypeOK
    <2>. QED BY <2>1, <2>2, QuietStep
<1>7. CASE RecordSubmission(g)
    <2>1. /\ stack[g + 1] # "none" /\ resource' = resource \cup {g + 1}
          /\ pc' = [pc EXCEPT ![g] = "end"]
          /\ UNCHANGED <<stack, built, ec2, inflight, requests, cur, marker, mem>>
        BY <1>0, <1>7 DEF RecordSubmission, AtPlace
    <2>2. Places'
        <3>1. AtPlace(g)'
            BY <1>0, <2>1 DEF AtPlace, TypeOK
        <3>2. ASSUME NEW h \in Gen \ {g} PROVE AtPlace(h)'
            BY <1>o, <2>1 DEF Safe, Places, AtPlace, TypeOK, OwnerPc, LeasePc
        <3>. QED BY <3>1, <3>2 DEF Places
    <2>3. Ledgers'
        BY <2>1 DEF Safe, Ledgers, Ledger, MarkedFor, Behind, Ahead
    <2>4. Room' /\ LiveCeiling'
        BY <2>1 DEF Safe, Room, Running, LiveCeiling, TypeOK
    <2>. QED BY <2>2, <2>3, <2>4 DEF Safe
<1>8. CASE EndProvisioning(g)
    <2>0. g + 1 \in resource
        BY <1>0, <1>8 DEF EndProvisioning, AtPlace
    <2>1. CASE marker = [gen |-> g + 1, release |-> Release[mem[g].pins]]
        <3>1. /\ marker' = None /\ marker.gen = g + 1 /\ pc' = [pc EXCEPT ![g] = "wait"]
              /\ UNCHANGED <<stack, built, ec2, inflight, requests, cur, resource, mem>>
            BY <1>8, <2>1 DEF EndProvisioning
        <3>2. Places'
            <4>1. AtPlace(g)'
                BY <1>0, <2>0, <3>1 DEF AtPlace, TypeOK
            <4>2. ASSUME NEW h \in Gen \ {g} PROVE AtPlace(h)'
                BY <1>o, <3>1 DEF Safe, Places, AtPlace, TypeOK, OwnerPc, LeasePc
            <4>. QED BY <4>1, <4>2 DEF Places
        <3>3. Ledgers'
            BY <2>0, <3>1 DEF Safe, Ledgers, Ledger, MarkedFor, Behind, Ahead
        <3>4. Room' /\ LiveCeiling'
            BY <3>1 DEF Safe, Room, Running, LiveCeiling, TypeOK
        <3>. QED BY <3>2, <3>3, <3>4 DEF Safe
    <2>2. CASE marker # [gen |-> g + 1, release |-> Release[mem[g].pins]]
        BY <1>8, <2>2, QuietExit DEF EndProvisioning, OwnerPc, LeasePc, EndPc
    <2>. QED BY <2>1, <2>2
<1>. QED BY <1>1, <1>2, <1>3, <1>4, <1>5, <1>6, <1>7, <1>8, Provision(g) DEF Provision

LEMMA HandoffSafe ==
    ASSUME TypeOK, Placed, Safe, NEW g \in Gen, Handoff(g)
    PROVE  Safe'
<1>. USE DEF awsVars, opVars, genVars, budget, Goto, At, Shared
<1>0. /\ pc[g] \in LeasePc /\ g + 1 \in Gen /\ g \in Nat /\ AtPlace(g)
      /\ pc[g] # "delete" => pc[g] \in OwnerPc /\ cur = g /\ g + 1 \in resource
    <2>1. /\ pc[g] \in LeasePc
          /\ pc[g] # "delete" => pc[g] \in {"end", "wait", "look", "handoff", "commit"}
        BY Handoff(g) DEF Handoff, RenewLease, PollSuccessor, CheckHandoff,
              ConditionalHandoff, DeleteOwnStack, Look, LeasePc
    <2>2. g + 1 \in Gen /\ g \in Nat
        BY <2>1, NextGen
    <2>3. AtPlace(g)
        BY DEF Safe, Places
    <2>. QED BY <2>1, <2>2, <2>3 DEF AtPlace, OwnerPc, LeasePc
<1>1. CASE RenewLease(g)
    <2>1. PICK next \in {"look", "deferred", "violated"} :
            pc' = [pc EXCEPT ![g] = next] /\ mem' = mem /\ UNCHANGED Shared
        BY <1>1 DEF RenewLease
    <2>2. AtPlace(g)'
        BY <1>0, <1>1, <2>1 DEF RenewLease, AtPlace, TypeOK
    <2>. QED BY <2>1, <2>2, QuietStep
<1>2. CASE PollSuccessor(g)
    <2>1. PICK next \in {"handoff", "wait", "deferred"} :
            pc' = [pc EXCEPT ![g] = next] /\ UNCHANGED Shared
        BY <1>2 DEF PollSuccessor
    <2>2. AtPlace(g)'
        BY <1>0, <1>2, <2>1 DEF PollSuccessor, AtPlace, TypeOK
    <2>3. \A h \in Gen \ {g} : mem'[h] = mem[h]
        BY <1>2 DEF PollSuccessor, Remember, TypeOK
    <2>. QED BY <2>1, <2>2, <2>3, QuietStep
<1>3. CASE CheckHandoff(g)
    <2>1. PICK next \in {"commit", "deferred", "violated"} :
            /\ pc' = [pc EXCEPT ![g] = next] /\ mem' = mem /\ UNCHANGED Shared
            /\ next = "commit" => stack[g + 1] = "complete" /\ built[g + 1] = Release[mem[g].pins]
        BY <1>3 DEF CheckHandoff, Verdict, Look
    <2>2. AtPlace(g)'
        BY <1>0, <1>3, <2>1 DEF CheckHandoff, Look, AtPlace, TypeOK
    <2>. QED BY <2>1, <2>2, QuietStep
<1>4. CASE ConditionalHandoff(g)
    <2>1. CASE HandoffConditions(g)
        <3>1. /\ cur = g /\ cur' = g + 1 /\ pc' = [pc EXCEPT ![g] = "delete"]
              /\ stack[g + 1] = "complete" /\ cur # None /\ cur' # None
              /\ UNCHANGED <<stack, built, ec2, inflight, requests, marker, resource, mem>>
            BY <1>0, <1>4, <2>1, NoneAssumption DEF ConditionalHandoff, AtPlace
        <3>2. Places'
            <4>1. AtPlace(g)'
                BY <1>0, <3>1 DEF AtPlace, OwnerPc, LeasePc, TypeOK
            <4>2. ASSUME NEW h \in Gen \ {g} PROVE AtPlace(h)'
                <5>1. pc[h] \notin OwnerPc
                    BY <3>1, OneOwner DEF Safe
                <5>2. pc'[h] = pc[h] /\ AtPlace(h)
                    BY <3>1 DEF Safe, Places, TypeOK
                <5>3. pc[h] = "delete" => h < g + 1
                    BY <3>1, <5>2, Constants DEF AtPlace
                <5>. QED BY <3>1, <5>1, <5>2, <5>3 DEF AtPlace, OwnerPc, LeasePc
            <4>. QED BY <4>1, <4>2 DEF Places
        <3>3. Ledgers'
            <4>1. ASSUME NEW n \in Gen PROVE Ledger(n)'
                <5>1. Ledger(n) /\ n \in Nat
                    BY Constants DEF Safe, Ledgers
                <5>2. Behind(n)' => Behind(n) \/ n = g + 1
                    BY <1>0, <3>1, <5>1 DEF Behind
                <5>3. Ahead(n)' => Ahead(n)
                    BY <1>0, <3>1, <5>1 DEF Ahead
                <5>4. cur # None /\ n < cur => cur' # None /\ n < cur'
                    BY <1>0, <3>1, <5>1
                <5>. QED BY <3>1, <5>1, <5>2, <5>3, <5>4 DEF Ledger, MarkedFor
            <4>. QED BY <3>1, <4>1 DEF Safe, Ledgers
        <3>4. Room' /\ LiveCeiling'
            BY <3>1 DEF Safe, Room, Running, LiveCeiling, TypeOK
        <3>. QED BY <3>2, <3>3, <3>4 DEF Safe
    <2>2. CASE ~HandoffConditions(g)
        BY <1>4, <2>2, QuietExit DEF ConditionalHandoff, OwnerPc, LeasePc
    <2>. QED BY <2>1, <2>2
<1>5. CASE DeleteOwnStack(g)
    <2>1. /\ cur # None /\ g < cur /\ cur \in Nat
          /\ stack[g] \in {"complete", "deleting", "deleted"} /\ g \notin inflight
        <3>1. cur # None /\ g < cur /\ cur \in Nat
            BY <1>0, <1>5, Constants DEF DeleteOwnStack, AtPlace, TypeOK
        <3>2. Behind(g) /\ Ledger(g)
            BY <1>0, <3>1 DEF Behind, Safe, Ledgers
        <3>. QED BY <3>1, <3>2 DEF Ledger
    <2>2. PICK s \in {"deleting", "deleted"} : stack' = [stack EXCEPT ![g] = s]
        BY <1>5 DEF DeleteOwnStack
    <2>3. /\ pc' = [pc EXCEPT ![g] = "finished"]
          /\ UNCHANGED <<built, ec2, inflight, requests, cur, marker, resource, mem>>
        BY <1>5 DEF DeleteOwnStack
    <2>4. Places'
        <3>1. AtPlace(g)'
            BY <2>3, Elsewhere DEF LeasePc, TypeOK
        <3>2. ASSUME NEW h \in Gen \ {g} PROVE AtPlace(h)'
            <4>1. pc[h] = "commit" => h + 1 # g
                BY <1>0, <2>1, Constants DEF Safe, Places, AtPlace, OwnerPc, LeasePc
            <4>2. stack'[h + 1] = "none" <=> stack[h + 1] = "none"
                BY <2>1, <2>2 DEF TypeOK
            <4>3. pc[h] = "commit" => stack'[h + 1] = stack[h + 1]
                BY <2>2, <4>1 DEF TypeOK
            <4>. QED BY <2>3, <4>2, <4>3 DEF Safe, Places, AtPlace, MarkedFor, TypeOK
        <3>. QED BY <3>1, <3>2 DEF Places
    <2>5. Ledgers'
        BY <2>1, <2>2, <2>3 DEF Safe, Ledgers, Ledger, MarkedFor, Behind, Ahead, TypeOK
    <2>6. Room'
        BY <2>3 DEF Safe, Room, Running, TypeOK
    <2>7. LiveCeiling'
        <3>1. Live' \subseteq Live
            BY <2>2, <2>3 DEF Live, TypeOK
        <3>. QED BY <3>1, LiveShrinks DEF Safe
    <2>. QED BY <2>4, <2>5, <2>6, <2>7 DEF Safe
<1>. QED BY <1>1, <1>2, <1>3, <1>4, <1>5, Handoff(g) DEF Handoff

LEMMA OperatorSafe ==
    ASSUME TypeOK, Placed, Safe, OperatorStep \/ ConsumeCommand \/ LeaseLapses
    PROVE  Safe'
<1>1. UNCHANGED <<Shared, pc, mem>>
    BY DEF OperatorStep, RequestSwitch, OperatorHold, ClearHold, EditControl, Move,
        ConsumeCommand, LeaseLapses, awsVars, genVars, Shared
<1>. QED BY <1>1, StillStep

-----------------------------------------------------------------------------
(* CloudFormation, EC2 and faults *)

LEMMA AwsSafe ==
    ASSUME TypeOK, Placed, Safe, NEW n \in Gen, AwsStep(n)
    PROVE  Safe'
<1>. USE DEF opVars, genVars, budget, Becomes
<1>0. Ledger(n) /\ Ledgers /\ Places /\ LiveCeiling
    BY DEF Safe, Ledgers
<1>1. CASE AcceptCreate(n)
    <2>1. /\ cur # None /\ n = cur + 1 /\ requests[n] = 1 /\ stack[n] = "none"
          /\ cur \in Nat
        BY <1>0, <1>1, Creating, Constants DEF AcceptCreate, Ledger, TypeOK
    <2>2. /\ stack' = [stack EXCEPT ![n] = "creating"] /\ inflight' = inflight \ {n}
          /\ UNCHANGED <<ec2, built, requests, cur, marker, resource, pc, mem>>
        BY <1>1, <2>1 DEF AcceptCreate, Exists, TypeOK
    <2>3. Places'
        <3>1. ASSUME NEW g \in Gen PROVE AtPlace(g)'
            <4>1. stack[g + 1] # "none" => stack'[g + 1] = stack[g + 1]
                BY <2>1, <2>2 DEF TypeOK
            <4>. QED BY <1>0, <2>2, <4>1 DEF Places, AtPlace, MarkedFor
        <3>. QED BY <3>1 DEF Places
    <2>4. Ledgers'
        BY <1>0, <2>1, <2>2 DEF Ledgers, Ledger, MarkedFor, Behind, Ahead, TypeOK
    <2>5. Room'
        BY <2>2 DEF Safe, Room, Running
    <2>6. Live' \subseteq Live
        BY <1>1, <2>2 DEF AcceptCreate, Live, TypeOK
    <2>. QED BY <1>0, <2>3, <2>4, <2>5, <2>6, LiveShrinks DEF Safe
<1>2. CASE StackAdvances(n)
    <2>1. cur # None /\ n = cur + 1 /\ requests[n] = 1 /\ cur \in Nat /\ stack[n] = "creating"
        BY <1>0, <1>2, Creating, Constants DEF StackAdvances, TypeOK
    <2>2. PICK s \in {"creating", "complete"} : stack' = [stack EXCEPT ![n] = s]
        BY <1>2 DEF StackAdvances
    <2>3. /\ ec2' = [ec2 EXCEPT ![n] = "running"]
          /\ UNCHANGED <<inflight, built, requests, cur, marker, resource, pc, mem>>
        BY <1>2 DEF StackAdvances
    <2>4. Places'
        <3>1. ASSUME NEW g \in Gen PROVE AtPlace(g)'
            <4>1. /\ stack'[g + 1] = "none" <=> stack[g + 1] = "none"
                  /\ stack[g + 1] = "complete" => stack'[g + 1] = "complete"
                BY <2>1, <2>2 DEF TypeOK
            <4>. QED BY <1>0, <2>3, <4>1 DEF Places, AtPlace, MarkedFor
        <3>. QED BY <3>1 DEF Places
    <2>5. Ledgers'
        BY <1>0, <2>1, <2>2, <2>3 DEF Ledgers, Ledger, MarkedFor, Behind, Ahead, TypeOK
    \* The owner is beyond its check of the capacity: its request was sent.
    <2>6. Room'
        <3>1. ASSUME NEW g \in Gen, pc[g] \in {"control", "begin", "create"}
              PROVE  requests[g + 1] = 1
            BY <1>0, <2>1, <3>1 DEF Places, AtPlace, OwnerPc, LeasePc
        <3>. QED BY <2>3, <3>1 DEF Room
    <2>7. Live' \subseteq Live
        BY <2>1, <2>2, <2>3 DEF Live, TypeOK
    <2>. QED BY <1>0, <2>4, <2>5, <2>6, <2>7, LiveShrinks DEF Safe
<1>3. CASE DeleteAdvances(n)
    <2>1. PICK s \in {"deleting", "deleted"}, i \in {"shutting-down", "terminated"} :
            /\ stack' = [stack EXCEPT ![n] = s] /\ ec2' = [ec2 EXCEPT ![n] = i]
            /\ UNCHANGED <<inflight, built, requests, cur, marker, resource, mem>>
        BY <1>3 DEF DeleteAdvances
    <2>2. stack[n] = "deleting" /\ (pc' = pc \/ pc' = [pc EXCEPT ![n] = "gone"])
        BY <1>3 DEF DeleteAdvances, Goto
    <2>3. \A g \in Gen : pc'[g] = pc[g] \/ pc'[g] = "gone"
        BY <2>2 DEF TypeOK
    <2>4. Places'
        <3>1. ASSUME NEW g \in Gen, pc'[g] = "gone" PROVE AtPlace(g)'
            BY <3>1, Elsewhere DEF LeasePc
        <3>2. ASSUME NEW g \in Gen, pc'[g] = pc[g] PROVE AtPlace(g)'
            <4>1. stack'[g + 1] = "none" <=> stack[g + 1] = "none"
                BY <2>1, <2>2 DEF TypeOK
            <4>2. stack[g + 1] = "complete" => stack'[g + 1] = "complete"
                BY <2>1, <2>2 DEF TypeOK
            <4>. QED BY <1>0, <2>1, <3>2, <4>1, <4>2 DEF Places, AtPlace, MarkedFor
        <3>. QED BY <2>3, <3>1, <3>2 DEF Places
    <2>5. Ledgers'
        BY <1>0, <2>1, <2>2 DEF Ledgers, Ledger, MarkedFor, Behind, Ahead, TypeOK
    <2>6. Running' \subseteq Running /\ Live' \subseteq Live
        BY <2>1, <2>2 DEF Running, Live, TypeOK
    <2>7. Room'
        BY <2>1, <2>3, <2>6, RunningShrinks DEF Safe, Room
    <2>. QED BY <1>0, <2>4, <2>5, <2>6, <2>7, LiveShrinks DEF Safe
<1>. QED BY <1>1, <1>2, <1>3, AwsStep(n) DEF AwsStep

LEMMA FaultSafe ==
    ASSUME TypeOK, Placed, Safe, FaultStep
    PROVE  Safe'
<1>. USE DEF opVars, Shared, Goto
<1>1. ASSUME NEW g \in Gen, Crash(g) PROVE Safe'
    BY <1>1, QuietExit DEF Crash, Fault, Forget, TypeOK, OwnerPc, LeasePc
<1>2. ASSUME NEW g \in Gen, CallFails(g) PROVE Safe'
    <2>1. PICK next \in {"deferred", "hold", "idle", "down"} : pc' = [pc EXCEPT ![g] = next]
        BY <1>2 DEF CallFails
    <2>2. \A h \in Gen \ {g} : mem'[h] = mem[h]
        BY <1>2 DEF CallFails, Forget, TypeOK
    <2>. QED BY <1>2, <2>1, <2>2, QuietExit DEF CallFails, Fault, OwnerPc, LeasePc
<1>3. ASSUME NEW g \in Gen, ReadinessTimesOut(g) PROVE Safe'
    BY <1>3, QuietExit DEF ReadinessTimesOut, Fault, OwnerPc, LeasePc
<1>4. ASSUME NEW n \in Gen, RejectCreate(n) PROVE Safe'
    <2>1. /\ inflight' = inflight \ {n}
          /\ UNCHANGED <<stack, built, ec2, requests, cur, marker, resource, pc, mem>>
        BY <1>4 DEF RejectCreate, Fault
    <2>2. Places' /\ Ledgers' /\ Room'
        BY <2>1 DEF Safe, Places, AtPlace, Ledgers, Ledger, Room, Running, MarkedFor,
            Behind, Ahead
    <2>3. Live' \subseteq Live
        BY <2>1 DEF Live
    <2>. QED BY <2>2, <2>3, LiveShrinks DEF Safe
<1>5. ASSUME NEW n \in Gen, StackFails(n) PROVE Safe'
    <2>1. /\ stack[n] = "creating" /\ stack' = [stack EXCEPT ![n] = "failed"]
          /\ UNCHANGED <<built, ec2, inflight, requests, cur, marker, resource, pc, mem>>
        BY <1>5 DEF StackFails, Fault
    <2>2. Places' /\ Room'
        BY <2>1 DEF Safe, Places, AtPlace, Room, Running, MarkedFor, TypeOK
    <2>3. Ledgers'
        BY <2>1 DEF Safe, Ledgers, Ledger, MarkedFor, Behind, Ahead, TypeOK
    <2>4. Live' \subseteq Live
        BY <2>1 DEF Live, TypeOK
    <2>. QED BY <2>2, <2>3, <2>4, LiveShrinks DEF Safe
<1>6. ASSUME NEW n \in Gen, HeartbeatAges(n) PROVE Safe'
    BY <1>6, StillStep DEF HeartbeatAges, Fault
<1>7. ASSUME LeaseExpiresUnderHolder PROVE Safe'
    BY <1>7, StillStep DEF LeaseExpiresUnderHolder, Fault
<1>8. ASSUME NEW g \in Gen, HandoffCancelled(g) PROVE Safe'
    BY <1>8, QuietExit DEF HandoffCancelled, awsVars, genVars, OwnerPc, LeasePc
<1>. QED BY <1>1, <1>2, <1>3, <1>4, <1>5, <1>6, <1>7, <1>8 DEF FaultStep

LEMMA InitSafe == Init => Safe
<1>. SUFFICES ASSUME Init PROVE Safe
    OBVIOUS
<1>1. Places /\ Room
    BY DEF Init, Places, AtPlace, Room, OwnerPc, LeasePc
<1>2. Ledgers
    <2>1. ASSUME NEW n \in Gen PROVE Ledger(n)
        BY Constants DEF Init, Ledger, MarkedFor, Behind, Ahead
    <2>. QED BY <2>1 DEF Init, Ledgers
<1>3. LiveCeiling
    <2>1. Live = {0}
        BY Constants DEF Init, Live
    <2>2. Cardinality(Live) = 1
        BY <2>1, FS_Singleton
    <2>. QED BY <2>2, Constants DEF LiveCeiling, Live
<1>. QED BY <1>1, <1>2, <1>3 DEF Safe

-----------------------------------------------------------------------------
(* The results *)

LEMMA StepSafe == IInv /\ [Next]_vars => IInv'
<1>. SUFFICES ASSUME IInv, [Next]_vars PROVE IInv'
    OBVIOUS
<1>. USE DEF IInv
<1>1. ASSUME NEW g \in Gen, DaemonStep(g) PROVE IInv'
    BY <1>1, BeginType, ProvisionType, HandoffType, BeginSafe, ProvisionSafe,
       HandoffSafe DEF DaemonStep
<1>2. ASSUME NEW n \in Gen, AwsStep(n) PROVE IInv'
    BY <1>2, AwsType, AwsSafe
<1>3. ASSUME OperatorStep \/ ConsumeCommand \/ LeaseLapses PROVE IInv'
    BY <1>3, OperatorType, OperatorSafe
<1>4. ASSUME FaultStep PROVE IInv'
    BY <1>4, FaultType, FaultSafe
<1>5. ASSUME UNCHANGED vars PROVE IInv'
    <2>1. UNCHANGED <<Shared, pc, mem>>
        BY <1>5 DEF vars, awsVars, genVars, Shared
    <2>. QED BY <1>5, <2>1, StutterType, StillStep
<1>. QED BY <1>1, <1>2, <1>3, <1>4, <1>5 DEF Next

\* The records account for every request, and what a daemon has checked of its
\* successor holds until it acts on it.
THEOREM Invariance == Spec => []IInv
<1>1. Init => IInv
    BY InitType, InitSafe DEF IInv
<1>. QED BY <1>1, StepSafe, PTL DEF Spec

\* The ceiling of check_capacity holds for the instances of undecided requests
\* too, whatever ceiling of at least two is configured.
THEOREM Ceiling == Spec => []LiveCeiling
<1>1. IInv => LiveCeiling
    BY DEF IInv, Safe
<1>. QED BY <1>1, Invariance, PTL

\* No generation is asked for twice.
THEOREM OneRequest == Spec => []OneRequestPerGeneration
<1>1. IInv => OneRequestPerGeneration
    BY DEF IInv, Safe, Ledgers, Ledger, OneRequestPerGeneration
<1>. QED BY <1>1, Invariance, PTL

\* The provisioning marker names the stack that may exist without a record.
THEOREM MarkerCovers == Spec => []MarkerCoversStack
<1>1. IInv => MarkerCoversStack
    <2>. SUFFICES ASSUME IInv, NEW n \in Gen, n \in inflight \/ (Exists(n) /\ n \notin resource)
                  PROVE  MarkedFor(n)
        BY DEF MarkerCoversStack, MarkedFor
    <2>1. Ledger(n) /\ 0 \in resource
        BY DEF IInv, Safe, Ledgers
    <2>. QED BY <2>1 DEF Ledger, Exists
<1>. QED BY <1>1, Invariance, PTL

\* A daemon deletes its stack only after it has handed ownership over.
THEOREM DeletesOnly == Spec => DeletesOnlyPredecessors
<1>1. IInv /\ IInv' /\ [Next]_vars =>
        [\A g \in Gen : stack[g] # "deleting" /\ stack'[g] = "deleting"
                            => cur # None /\ g < cur]_vars
    <2>. SUFFICES ASSUME IInv, [Next]_vars, NEW g \in Gen,
                         stack[g] # "deleting", stack'[g] = "deleting"
                  PROVE  cur # None /\ g < cur
        OBVIOUS
    <2>1. TypeOK /\ AtPlace(g)
        BY DEF IInv, Safe, Places
    <2>2. pc[g] = "delete"
        <3>1. ASSUME NEW h \in Gen, DaemonStep(h) PROVE pc[g] = "delete"
            BY <2>1, <3>1 DEF DaemonStep, Begin, Provision, Handoff, Boot, ClaimCurrent,
                InvokeHold, CreateHold, ReadControl, ReadCurrent, WriteHeartbeat,
                AcquireLease, CheckOwnership, ReleaseLease, FindSuccessor, CheckCapacity,
                CheckControl, BeginProvisioning, SendCreate, CreateReturns,
                RecordSubmission, EndProvisioning, RenewLease, PollSuccessor, CheckHandoff,
                ConditionalHandoff, DeleteOwnStack, Look, At, awsVars, TypeOK
        <3>2. ASSUME NEW h \in Gen, AwsStep(h) PROVE FALSE
            BY <2>1, <3>2 DEF AwsStep, AcceptCreate, StackAdvances, DeleteAdvances,
                Becomes, Exists, TypeOK
        <3>3. ASSUME OperatorStep \/ ConsumeCommand \/ LeaseLapses PROVE FALSE
            BY <3>3 DEF OperatorStep, RequestSwitch, OperatorHold, ClearHold, EditControl,
                Move, ConsumeCommand, LeaseLapses, awsVars
        <3>4. ASSUME FaultStep PROVE FALSE
            BY <2>1, <3>4 DEF FaultStep, Crash, CallFails, ReadinessTimesOut, RejectCreate,
                StackFails, HeartbeatAges, LeaseExpiresUnderHolder, HandoffCancelled,
                awsVars, TypeOK
        <3>5. ~UNCHANGED vars
            BY DEF vars, awsVars
        <3>. QED BY <3>1, <3>2, <3>3, <3>4, <3>5 DEF Next
    <2>. QED BY <2>1, <2>2 DEF AtPlace
<1>. QED BY <1>1, Invariance, PTL DEF Spec, DeletesOnlyPredecessors

\* Ownership moves only to a recorded and complete stack of the approved release.
THEOREM HandoffApproved == Spec => HandoffIsApproved
<1>1. IInv /\ IInv' /\ [Next]_vars =>
        [cur # None /\ cur' # cur =>
            /\ cur' = cur + 1 /\ cur' \in resource /\ stack[cur'] = "complete"
            /\ built[cur'] = Release[pins] /\ Enabled /\ ~cleaning]_vars
    <2>. SUFFICES ASSUME IInv, [Next]_vars, cur # None, cur' # cur
                  PROVE  /\ cur' = cur + 1 /\ cur' \in resource /\ stack[cur'] = "complete"
                         /\ built[cur'] = Release[pins] /\ Enabled /\ ~cleaning
        OBVIOUS
    <2>1. PICK g \in Gen : ConditionalHandoff(g)
        <3>1. ASSUME NEW h \in Gen, DaemonStep(h) PROVE ConditionalHandoff(h)
            BY <3>1 DEF DaemonStep, Begin, Provision, Handoff, Boot, ClaimCurrent,
                InvokeHold, CreateHold, ReadControl, ReadCurrent, WriteHeartbeat,
                AcquireLease, CheckOwnership, ReleaseLease, FindSuccessor, CheckCapacity,
                CheckControl, BeginProvisioning, SendCreate, CreateReturns,
                RecordSubmission, EndProvisioning, RenewLease, PollSuccessor, CheckHandoff,
                DeleteOwnStack, Look
        <3>2. ASSUME NEW h \in Gen, AwsStep(h) PROVE FALSE
            BY <3>2 DEF AwsStep, AcceptCreate, StackAdvances, DeleteAdvances, Becomes
        <3>3. ASSUME OperatorStep \/ ConsumeCommand \/ LeaseLapses PROVE FALSE
            BY <3>3 DEF OperatorStep, RequestSwitch, OperatorHold, ClearHold, EditControl,
                Move, ConsumeCommand, LeaseLapses
        <3>4. ASSUME FaultStep PROVE FALSE
            BY <3>4 DEF FaultStep, Crash, CallFails, ReadinessTimesOut, RejectCreate,
                StackFails, HeartbeatAges, LeaseExpiresUnderHolder, HandoffCancelled, Fault
        <3>5. ~UNCHANGED vars
            BY DEF vars
        <3>. QED BY <3>1, <3>2, <3>3, <3>4, <3>5 DEF Next
    <2>2. HandoffConditions(g) /\ cur' = g + 1 /\ pc[g] = "commit" /\ AtPlace(g)
        BY <2>1 DEF ConditionalHandoff, At, IInv, Safe, Places
    <2>. QED BY <2>2 DEF HandoffConditions, SameOpenControl, AtPlace
<1>. QED BY <1>1, Invariance, PTL DEF Spec, HandoffIsApproved

-----------------------------------------------------------------------------
(* Nobody but the operator is to blame for a hold *)

\* Only the owner asks for the lease, and from then on it keeps it: nobody else may take
\* it, expired or not.  What it waited for is still there when it hands over.
ClaimAt(g) == pc[g] = "claim" => cur = None /\ g = 0
OwnerAt(g) ==
    \/ pc[g] \in {"acquire", "recheck"} \cup OwnerPc
    \/ pc[g] = "publish" /\ mem[g].owner
    => cur = g
HolderAt(g) ==
    /\ pc[g] \in OwnerPc \cup {"recheck"} => HoldsLease(g)
    /\ pc[g] = "handoff" => stack[g + 1] = "complete"
    /\ pc[g] = "commit" => state[g + 1].status # "none"
HoldsAt(g) == ClaimAt(g) /\ OwnerAt(g) /\ HolderAt(g)
Holders == \A g \in Gen : HoldsAt(g)

\* Without an operator and a cancelled handoff every gate is open, and CONTROL is the one each cycle has read and
\* each stack was built from.
CalmAt(g) ==
    /\ pc[g] \notin {"violated", "hold"} /\ state[g].status # "ERROR"
    /\ pc[g] \in LeasePc \cup {"current", "publish", "acquire"} => mem[g].pins = pins
    /\ g = 0 \/ requests[g] # 0 => built[g] = Release[pins]
Calm ==
    moves = 0 /\ cancels = 0 =>
        /\ enabled /\ switches = {} /\ ~cleaning /\ ~hold
        /\ \A g \in Gen : CalmAt(g)

LEMMA HoldersKept ==
    ASSUME TypeOK, Placed, Holders, cur' = cur,
           \A h \in Gen : \/ HoldsAt(h)'
                          \/ /\ pc'[h] = pc[h] /\ mem'[h] = mem[h]
                             /\ cur = h /\ HoldsLease(h) => HoldsLease(h)',
           \A n \in Gen : stack[n] = "complete" => stack'[n] = "complete" \/ n = cur,
           \A n \in Gen : state[n].status # "none" => state'[n].status # "none"
    PROVE  Holders'
<1>. SUFFICES ASSUME NEW h \in Gen, ~HoldsAt(h)' PROVE FALSE
    BY DEF Holders
<1>1. /\ pc'[h] = pc[h] /\ mem'[h] = mem[h] /\ HoldsAt(h)
      /\ cur = h /\ HoldsLease(h) => HoldsLease(h)'
    BY DEF Holders
<1>2. pc[h] \in LeasePc => h + 1 \in Gen /\ h \in Nat
    BY NextGen
<1>3. ClaimAt(h)' /\ OwnerAt(h)'
    BY <1>1 DEF HoldsAt, ClaimAt, OwnerAt
<1>4. HolderAt(h)'
    BY <1>1, <1>2 DEF HoldsAt, OwnerAt, HolderAt, OwnerPc, LeasePc
<1>. QED BY <1>3, <1>4 DEF HoldsAt

\* Where a daemon neither claims nor works as the owner
LEMMA Bystander ==
    ASSUME NEW g \in Gen,
           pc'[g] \notin LeasePc \cup {"claim", "acquire"},
           pc'[g] = "publish" => (mem'[g].owner => cur' = g)
    PROVE  HoldsAt(g)'
BY DEF HoldsAt, ClaimAt, OwnerAt, HolderAt, OwnerPc, LeasePc

LEMMA StateWritten ==
    ASSUME TypeOK, NEW g \in Gen, NEW s, state' = [state EXCEPT ![g].status = s]
    PROVE  \A n \in Gen : state'[n].status = IF n = g THEN s ELSE state[n].status
BY DEF TypeOK, GenState

\* While nobody owns the cycle, only the first instance exists.
LEMMA FirstAlone ==
    ASSUME TypeOK, Ledgers, NEW g \in Gen, cur = None, ec2[g] # "none"
    PROVE  g = 0
<1>1. Ledger(g)
    BY DEF Ledgers
<1>2. g # 0 => Ahead(g)
    BY Constants DEF Ahead
<1>. QED BY <1>1, <1>2 DEF Ledger

LEMMA BeginHolds ==
    ASSUME IInv, Holders, NEW g \in Gen, Begin(g)
    PROVE  Holders'
<1>. USE DEF awsVars, opVars, genVars, budget, Goto, At, IInv
<1>0. HoldsAt(g) /\ TypeOK /\ Placed
    BY DEF Holders
<1>1. CASE Boot(g)
    <2>1. HoldsAt(g)'
        BY <1>0, <1>1, FirstAlone DEF Boot, Look, Safe, HoldsAt, ClaimAt, OwnerAt, HolderAt,
           OwnerPc, LeasePc, TypeOK
    <2>. QED BY <1>0, <1>1, <2>1, HoldersKept DEF Boot, Look, TypeOK, HoldsLease
<1>2. CASE ClaimCurrent(g)
    <2>1. HoldsAt(g)'
        BY <1>0, <1>2 DEF ClaimCurrent, HoldsAt, ClaimAt, OwnerAt, HolderAt, OwnerPc, LeasePc,
           TypeOK
    <2>2. cur = None /\ g = 0
        BY <1>0, <1>2 DEF ClaimCurrent, HoldsAt, ClaimAt
    <2>3. ASSUME NEW h \in Gen \ {g} PROVE HoldsAt(h)'
        <3>1. HoldsAt(h) /\ pc'[h] = pc[h] /\ mem' = mem /\ cur # h
            BY <1>2, <2>2, NoneAssumption DEF ClaimCurrent, Holders, TypeOK
        <3>2. pc[h] \notin {"acquire", "recheck", "claim"} \cup OwnerPc /\ ~(pc[h] = "publish" /\ mem[h].owner)
            BY <2>2, <3>1 DEF HoldsAt, ClaimAt, OwnerAt
        <3>. QED BY <3>1, <3>2 DEF HoldsAt, ClaimAt, OwnerAt, HolderAt, OwnerPc, LeasePc
    <2>. QED BY <2>1, <2>3 DEF Holders
<1>3. CASE InvokeHold(g)
    <2>1. HoldsAt(g)'
        BY <1>0, <1>3, Bystander DEF InvokeHold, TypeOK, LeasePc
    <2>2. \A n \in Gen : state'[n].status \in {state[n].status, "ERROR"}
        <3>1. CASE cleaning
            BY <1>3, <3>1 DEF InvokeHold
        <3>2. CASE ~cleaning
            BY <1>0, <1>3, <3>2, StateWritten DEF InvokeHold, CreateHold
        <3>. QED BY <3>1, <3>2
    <2>3. \A h \in Gen \ {g} : pc'[h] = pc[h] /\ mem'[h] = mem[h]
        BY <1>0, <1>3 DEF InvokeHold, Forget, TypeOK
    <2>. QED BY <1>0, <1>3, <2>1, <2>2, <2>3, HoldersKept DEF InvokeHold, CreateHold, HoldsLease
<1>4. CASE ReadControl(g)
    <2>1. HoldsAt(g)'
        BY <1>0, <1>4, Bystander DEF ReadControl, TypeOK, LeasePc
    <2>3. \A h \in Gen \ {g} : pc'[h] = pc[h] /\ mem'[h] = mem[h]
        BY <1>0, <1>4 DEF ReadControl, Remember, TypeOK
    <2>. QED BY <1>0, <1>4, <2>1, <2>3, HoldersKept DEF ReadControl, HoldsLease
<1>5. CASE ReadCurrent(g)
    <2>0. mem'[g].owner <=> cur = g
        BY <1>0, <1>5 DEF ReadCurrent, Remember, TypeOK, Memory
    <2>1. HoldsAt(g)'
        BY <1>0, <1>5, <2>0, Bystander DEF ReadCurrent, TypeOK, LeasePc
    <2>3. \A h \in Gen \ {g} : pc'[h] = pc[h] /\ mem'[h] = mem[h]
        BY <1>0, <1>5 DEF ReadCurrent, Remember, TypeOK
    <2>. QED BY <1>0, <1>5, <2>1, <2>3, HoldersKept DEF ReadCurrent, HoldsLease
<1>6. CASE WriteHeartbeat(g)
    <2>1. /\ pc'[g] \in {"idle", "done", "hold", "acquire"}
          /\ pc'[g] = "acquire" => mem[g].owner
        BY <1>0, <1>6 DEF WriteHeartbeat, AfterHeartbeat, TypeOK
    <2>2. HoldsAt(g)'
        BY <1>0, <1>6, <2>1 DEF WriteHeartbeat, HoldsAt, ClaimAt, OwnerAt, HolderAt, OwnerPc,
           LeasePc
    <2>3. \A h \in Gen \ {g} : pc'[h] = pc[h] /\ mem'[h] = mem[h]
        BY <1>0, <1>6 DEF WriteHeartbeat, Forget, TypeOK
    <2>4. \A n \in Gen : state'[n].status = state[n].status \/ state'[n].status \in {"CURRENT", "CANDIDATE"}
        BY <1>0, <1>6 DEF WriteHeartbeat, TypeOK
    <2>. QED BY <1>0, <1>6, <2>2, <2>3, <2>4, HoldersKept DEF WriteHeartbeat, HoldsLease
<1>7. CASE AcquireLease(g)
    <2>1. cur = g
        BY <1>0, <1>7 DEF AcquireLease, HoldsAt, OwnerAt
    <2>2. \/ pc'[g] = "recheck" /\ lease' = [owner |-> g, stale |-> FALSE, expired |-> FALSE]
          \/ pc'[g] = "idle" /\ lease' = lease
        BY <1>0, <1>7 DEF AcquireLease, TypeOK
    <2>3. HoldsAt(g)'
        <3>1. CASE pc'[g] = "idle"
            BY <3>1, Bystander DEF LeasePc
        <3>2. CASE pc'[g] = "recheck"
            <4>1. HoldsLease(g)'
                <5>1. [owner |-> g, stale |-> FALSE, expired |-> FALSE] \in Lease
                    BY DEF Lease
                <5>2. lease' = [owner |-> g, stale |-> FALSE, expired |-> FALSE] /\ lease' # None
                    BY <2>2, <3>2, <5>1, NoneAssumption
                <5>. QED BY <5>2 DEF HoldsLease
            <4>. QED BY <1>7, <2>1, <3>2, <4>1
                     DEF AcquireLease, HoldsAt, ClaimAt, OwnerAt, HolderAt, OwnerPc, LeasePc
        <3>. QED BY <2>2, <3>1, <3>2
    <2>4. \A h \in Gen \ {g} : pc'[h] = pc[h] /\ mem'[h] = mem[h] /\ cur # h
        BY <1>0, <1>7, <2>1 DEF AcquireLease, Forget, TypeOK
    <2>. QED BY <1>0, <1>7, <2>3, <2>4, HoldersKept DEF AcquireLease
<1>8. CASE CheckOwnership(g)
    <2>1. HoldsAt(g)'
        BY <1>0, <1>8 DEF CheckOwnership, Look, HoldsAt, ClaimAt, OwnerAt, HolderAt, HoldsLease,
           OwnerPc, LeasePc, TypeOK
    <2>. QED BY <1>0, <1>8, <2>1, HoldersKept DEF CheckOwnership, Look, TypeOK, HoldsLease
<1>9. CASE ReleaseLease(g)
    <2>1. HoldsAt(g)'
        BY <1>0, <1>9, Bystander DEF ReleaseLease, TypeOK, LeasePc
    <2>2. \A h \in Gen \ {g} : pc'[h] = pc[h] /\ mem'[h] = mem[h]
        BY <1>0, <1>9 DEF ReleaseLease, Forget, TypeOK
    <2>3. \A h \in Gen \ {g} : HoldsLease(h) => HoldsLease(h)'
        BY <1>9 DEF ReleaseLease, HoldsLease
    <2>. QED BY <1>0, <1>9, <2>1, <2>2, <2>3, HoldersKept DEF ReleaseLease
<1>. QED BY <1>1, <1>2, <1>3, <1>4, <1>5, <1>6, <1>7, <1>8, <1>9, Begin(g) DEF Begin

LEMMA ProvisionHolds ==
    ASSUME IInv, Holders, NEW g \in Gen, Provision(g)
    PROVE  Holders'
<1>. USE DEF awsVars, opVars, genVars, budget, Goto, At, IInv
<1>1. /\ pc[g] \in OwnerPc /\ HoldsAt(g) /\ HoldsLease(g) /\ cur = g
      /\ pc' \in [Gen -> Pc] /\ \A h \in Gen \ {g} : pc'[h] = pc[h]
      /\ pc'[g] \in {"deferred", "violated"}
            \cup (OwnerPc \ {"handoff", "commit"})
    <2>1. /\ pc[g] \in {"find", "capacity", "control", "begin", "create", "created", "record", "end"}
          /\ \E next \in {"deferred", "violated", "wait", "record", "capacity", "control",
                          "begin", "create", "created", "end"} : pc' = [pc EXCEPT ![g] = next]
        BY Provision(g) DEF Provision, FindSuccessor, FoundSuccessor, CheckCapacity, CheckControl,
              BeginProvisioning, SendCreate, CreateReturns, RecordSubmission,
              EndProvisioning, Look
    <2>2. pc' \in [Gen -> Pc] /\ \A h \in Gen \ {g} : pc'[h] = pc[h]
        BY <2>1, Places_Pc DEF TypeOK, LeasePc, Pc, EndPc
    <2>3. pc[g] \in OwnerPc /\ HoldsAt(g)
        BY <2>1 DEF Holders, OwnerPc, LeasePc
    <2>4. pc'[g] \in {"deferred", "violated"} \cup (OwnerPc \ {"handoff", "commit"})
        BY <2>1 DEF OwnerPc, LeasePc, TypeOK
    <2>. QED BY <2>2, <2>3, <2>4 DEF HoldsAt, OwnerAt, HolderAt
<1>2. UNCHANGED <<mem, cur, lease, state, stack>>
    BY Provision(g) DEF Provision, FindSuccessor, FoundSuccessor, CheckCapacity, CheckControl,
          BeginProvisioning, SendCreate, CreateReturns, RecordSubmission,
          EndProvisioning, Look
<1>3. HoldsAt(g)'
    BY <1>1, <1>2 DEF HoldsAt, ClaimAt, OwnerAt, HolderAt, HoldsLease, OwnerPc, LeasePc
<1>. QED BY <1>1, <1>2, <1>3, HoldersKept DEF HoldsLease

LEMMA HandoffHolds ==
    ASSUME IInv, Holders, NEW g \in Gen, Handoff(g)
    PROVE  Holders'
<1>. USE DEF awsVars, opVars, genVars, budget, Goto, At, IInv
<1>0. HoldsAt(g) /\ AtPlace(g) /\ TypeOK /\ Placed
    BY DEF Holders, Safe, Places
<1>1. CASE RenewLease(g)
    <2>1. HoldsLease(g) /\ cur = g
        BY <1>0, <1>1 DEF RenewLease, HoldsAt, OwnerAt, HolderAt, OwnerPc, LeasePc
    <2>2. HoldsLease(g)'
        <3>1. CASE lease' = lease
            BY <2>1, <3>1 DEF HoldsLease
        <3>2. CASE lease' = [lease EXCEPT !.expired = FALSE]
            <4>1. lease \in Lease /\ lease # None
                BY <1>0, <2>1 DEF TypeOK, HoldsLease
            <4>2. lease' \in Lease /\ lease'.owner = lease.owner /\ lease'.stale = lease.stale
                BY <3>2, <4>1 DEF Lease
            <4>. QED BY <2>1, <4>2, NoneAssumption DEF HoldsLease
        <3>. QED BY <1>1, <3>1, <3>2 DEF RenewLease
    <2>3. pc'[g] \in {"look", "deferred", "violated"} /\ \A h \in Gen \ {g} : pc'[h] = pc[h]
        BY <1>0, <1>1 DEF RenewLease, TypeOK
    <2>4. HoldsAt(g)'
        BY <1>1, <2>1, <2>2, <2>3 DEF RenewLease, HoldsAt, ClaimAt, OwnerAt, HolderAt, OwnerPc,
           LeasePc
    <2>. QED BY <1>0, <1>1, <2>1, <2>3, <2>4, HoldersKept DEF RenewLease
<1>2. CASE PollSuccessor(g)
    <2>1. /\ pc'[g] \in {"handoff", "wait", "deferred"} /\ \A h \in Gen \ {g} : pc'[h] = pc[h]
          /\ pc'[g] = "handoff" => stack[g + 1] = "complete"
        BY <1>0, <1>2 DEF PollSuccessor, TypeOK
    <2>2. \A h \in Gen \ {g} : mem'[h] = mem[h]
        BY <1>0, <1>2 DEF PollSuccessor, Remember, TypeOK
    <2>3. cur = g /\ HoldsLease(g)
        BY <1>0, <1>2 DEF PollSuccessor, HoldsAt, OwnerAt, HolderAt, OwnerPc, LeasePc
    <2>4. HoldsAt(g)'
        BY <1>2, <2>1, <2>3 DEF PollSuccessor, HoldsAt, ClaimAt, OwnerAt, HolderAt, HoldsLease,
           OwnerPc, LeasePc
    <2>. QED BY <1>0, <1>2, <2>1, <2>2, <2>4, HoldersKept DEF PollSuccessor, HoldsLease
<1>3. CASE CheckHandoff(g)
    <2>1. /\ pc'[g] \in {"commit", "violated", "deferred"} /\ \A h \in Gen \ {g} : pc'[h] = pc[h]
          /\ pc'[g] = "commit" => state[g + 1].status # "none"
        BY <1>0, <1>3 DEF CheckHandoff, Verdict, Eligible, Look, TypeOK
    <2>3. cur = g /\ HoldsLease(g)
        BY <1>0, <1>3 DEF CheckHandoff, Look, HoldsAt, OwnerAt, HolderAt, OwnerPc, LeasePc
    <2>4. HoldsAt(g)'
        BY <1>3, <2>1, <2>3 DEF CheckHandoff, Look, HoldsAt, ClaimAt, OwnerAt, HolderAt,
           HoldsLease, OwnerPc, LeasePc
    <2>. QED BY <1>0, <1>3, <2>1, <2>4, HoldersKept DEF CheckHandoff, Look, HoldsLease
<1>4. CASE ConditionalHandoff(g)
    <2>0. cur = g /\ HoldsLease(g) /\ cur # None /\ g \in Nat /\ g + 1 \in Gen
        BY <1>0, <1>4, NoneAssumption, NextGen
           DEF ConditionalHandoff, HoldsAt, OwnerAt, HolderAt, OwnerPc, LeasePc
    <2>1. CASE HandoffConditions(g)
        <3>1. pc'[g] = "delete" /\ cur' = g + 1 /\ UNCHANGED <<stack, mem, lease>>
              /\ \A h \in Gen \ {g} : pc'[h] = pc[h]
            BY <1>0, <1>4, <2>1 DEF ConditionalHandoff, TypeOK
        <3>2. HoldsAt(g)'
            BY <3>1 DEF HoldsAt, ClaimAt, OwnerAt, HolderAt, OwnerPc, LeasePc
        <3>3. ASSUME NEW h \in Gen \ {g} PROVE HoldsAt(h)'
            <4>1. HoldsAt(h) /\ pc'[h] = pc[h] /\ mem'[h] = mem[h] /\ cur # h
                BY <2>0, <3>1 DEF Holders
            <4>2. pc[h] \notin {"acquire", "recheck", "claim"} \cup OwnerPc /\ ~(pc[h] = "publish" /\ mem[h].owner)
                BY <2>0, <4>1 DEF HoldsAt, ClaimAt, OwnerAt
            <4>. QED BY <4>1, <4>2 DEF HoldsAt, ClaimAt, OwnerAt, HolderAt, OwnerPc, LeasePc
        <3>. QED BY <3>2, <3>3 DEF Holders
    <2>2. CASE ~HandoffConditions(g)
        <3>1. pc'[g] = "violated" /\ UNCHANGED <<stack, mem, lease, cur, state>>
              /\ \A h \in Gen \ {g} : pc'[h] = pc[h]
            BY <1>0, <1>4, <2>2 DEF ConditionalHandoff, TypeOK
        <3>2. HoldsAt(g)'
            BY <3>1, Bystander DEF LeasePc
        <3>. QED BY <1>0, <3>1, <3>2, HoldersKept DEF HoldsLease
    <2>. QED BY <2>1, <2>2
<1>5. CASE DeleteOwnStack(g)
    <2>1. pc'[g] = "finished" /\ \A h \in Gen \ {g} : pc'[h] = pc[h]
        BY <1>0, <1>5 DEF DeleteOwnStack, TypeOK
    <2>2. HoldsAt(g)'
        BY <2>1, Bystander DEF LeasePc
    <2>3. cur # None /\ g < cur
        BY <1>0, <1>5 DEF DeleteOwnStack, AtPlace
    <2>4. \A n \in Gen : n # g => stack'[n] = stack[n]
        BY <1>0, <1>5 DEF DeleteOwnStack, TypeOK
    <2>5. ASSUME NEW h \in Gen \ {g} PROVE HoldsAt(h)'
        <3>1. HoldsAt(h) /\ pc'[h] = pc[h] /\ UNCHANGED <<mem, cur, lease, state>>
            BY <1>5, <2>1 DEF Holders, DeleteOwnStack
        <3>2. pc[h] = "handoff" => h + 1 \in Gen /\ h + 1 # g
            <4>. SUFFICES ASSUME pc[h] = "handoff" PROVE h + 1 \in Gen /\ h + 1 # g
                OBVIOUS
            <4>1. cur = h
                BY <3>1 DEF HoldsAt, OwnerAt, OwnerPc, LeasePc
            <4>2. h + 1 \in Gen /\ h \in Nat
                BY <1>0, NextGen DEF LeasePc
            <4>. QED BY <2>3, <4>1, <4>2
        <3>. QED BY <2>4, <3>1, <3>2 DEF HoldsAt, ClaimAt, OwnerAt, HolderAt, HoldsLease
    <2>. QED BY <2>2, <2>5 DEF Holders
<1>. QED BY <1>1, <1>2, <1>3, <1>4, <1>5, Handoff(g) DEF Handoff

LEMMA OperatorHolds ==
    ASSUME IInv, Holders, OperatorStep \/ ConsumeCommand \/ LeaseLapses
    PROVE  Holders'
<1>. USE DEF awsVars, opVars, genVars, budget, IInv
<1>1. ASSUME NEW g \in Gen, OperatorHold(g) PROVE Holders'
    <2>1. \A n \in Gen : state'[n].status \in {state[n].status, "ERROR"}
        BY <1>1, StateWritten DEF OperatorHold
    <2>. QED BY <1>1, <2>1, HoldersKept DEF OperatorHold, Move, HoldsLease
<1>2. ASSUME \/ ClearHold \/ ConsumeCommand
             \/ \E s \in Switch : RequestSwitch(s)
             \/ \E v \in Pins : EditControl(v)
      PROVE  Holders'
    <2>1. UNCHANGED <<pc, mem, cur, lease, stack, state>>
        BY <1>2 DEF ClearHold, ConsumeCommand, RequestSwitch, EditControl, Move
    <2>. QED BY <2>1, HoldersKept DEF HoldsLease
<1>3. CASE LeaseLapses
    <2>1. lease \in Lease /\ lease # None /\ lease' = [lease EXCEPT !.expired = TRUE]
        BY <1>3 DEF LeaseLapses, TypeOK
    <2>2. lease' \in Lease /\ lease'.owner = lease.owner /\ lease'.stale = lease.stale
        BY <2>1 DEF Lease
    <2>3. \A h \in Gen : HoldsLease(h) => HoldsLease(h)'
        BY <2>2, NoneAssumption DEF HoldsLease
    <2>. QED BY <1>3, <2>3, HoldersKept DEF LeaseLapses
<1>. QED BY <1>1, <1>2, <1>3, OperatorStep \/ ConsumeCommand \/ LeaseLapses DEF OperatorStep

LEMMA AwsHolds ==
    ASSUME IInv, Holders, NEW n \in Gen, AwsStep(n)
    PROVE  Holders'
<1>. USE DEF awsVars, opVars, genVars, budget, IInv, Becomes, Goto
<1>1. UNCHANGED <<cur, lease, mem, state>>
    BY AwsStep(n) DEF AwsStep, AcceptCreate, StackAdvances, DeleteAdvances
<1>2. \A m \in Gen : stack[m] = "complete" => stack'[m] = "complete"
    BY AwsStep(n) DEF AwsStep, AcceptCreate, StackAdvances, DeleteAdvances, Exists, TypeOK
<1>3. \A h \in Gen : pc'[h] = pc[h] \/ pc'[h] = "gone"
    BY AwsStep(n) DEF AwsStep, AcceptCreate, StackAdvances, DeleteAdvances, TypeOK
<1>4. \A h \in Gen : pc'[h] = "gone" => HoldsAt(h)'
    BY Bystander DEF LeasePc
<1>. QED BY <1>1, <1>2, <1>3, <1>4, HoldersKept DEF HoldsLease

LEMMA FaultHolds ==
    ASSUME IInv, Holders, FaultStep
    PROVE  Holders'
<1>. USE DEF awsVars, opVars, genVars, budget, IInv, Goto
<1>0. cur' = cur /\ state' = state
    BY FaultStep DEF FaultStep, Fault, Crash, CallFails, ReadinessTimesOut, RejectCreate,
       StackFails, HeartbeatAges, LeaseExpiresUnderHolder, HandoffCancelled
<1>1. ASSUME NEW g \in Gen, Crash(g) PROVE Holders'
    <2>1. HoldsAt(g)'
        BY <1>1, Bystander DEF Crash, TypeOK, LeasePc
    <2>2. \A h \in Gen \ {g} : pc'[h] = pc[h] /\ mem'[h] = mem[h]
        BY <1>1 DEF Crash, Forget, TypeOK
    <2>3. \A h \in Gen \ {g} : HoldsLease(h) => HoldsLease(h)'
        BY <1>1 DEF Crash, HoldsLease
    <2>. QED BY <1>0, <1>1, <2>1, <2>2, <2>3, HoldersKept DEF Crash
<1>2. ASSUME NEW g \in Gen, CallFails(g) \/ ReadinessTimesOut(g) \/ HandoffCancelled(g)
      PROVE  Holders'
    <2>1. /\ pc'[g] \in {"deferred", "violated", "hold", "idle", "down"}
          /\ \A h \in Gen \ {g} : pc'[h] = pc[h] /\ mem'[h] = mem[h]
        BY <1>2 DEF CallFails, ReadinessTimesOut, HandoffCancelled, Forget, TypeOK
    <2>2. HoldsAt(g)'
        BY <2>1, Bystander DEF LeasePc
    <2>3. UNCHANGED <<lease, stack>>
        BY <1>2 DEF CallFails, ReadinessTimesOut, HandoffCancelled
    <2>. QED BY <1>0, <2>1, <2>2, <2>3, HoldersKept DEF HoldsLease
<1>3. ASSUME NEW n \in Gen, RejectCreate(n) \/ StackFails(n) \/ HeartbeatAges(n) PROVE Holders'
    <2>1. UNCHANGED <<lease, pc, mem>>
        BY <1>3 DEF RejectCreate, StackFails, HeartbeatAges
    <2>2. \A m \in Gen : stack[m] = "complete" => stack'[m] = "complete"
        BY <1>3 DEF RejectCreate, StackFails, HeartbeatAges, TypeOK
    <2>. QED BY <1>0, <2>1, <2>2, HoldersKept DEF HoldsLease
<1>4. CASE LeaseExpiresUnderHolder
    <2>1. lease \in Lease /\ lease # None /\ lease' = [lease EXCEPT !.expired = TRUE]
        BY <1>4 DEF LeaseExpiresUnderHolder, TypeOK
    <2>2. lease' \in Lease /\ lease'.owner = lease.owner /\ lease'.stale = lease.stale
        BY <2>1 DEF Lease
    <2>3. \A h \in Gen : HoldsLease(h) => HoldsLease(h)'
        BY <2>2, NoneAssumption DEF HoldsLease
    <2>. QED BY <1>0, <1>4, <2>3, HoldersKept DEF LeaseExpiresUnderHolder
<1>. QED BY <1>1, <1>2, <1>3, <1>4, FaultStep DEF FaultStep

LEMMA HoldersAlways == Spec => []Holders
<1>1. Init => Holders
    BY DEF Init, Holders, HoldsAt, ClaimAt, OwnerAt, HolderAt, OwnerPc, LeasePc
<1>2. IInv /\ Holders /\ [Next]_vars => Holders'
    <2>. SUFFICES ASSUME IInv, Holders, [Next]_vars PROVE Holders'
        OBVIOUS
    <2>1. ASSUME UNCHANGED vars PROVE Holders'
        BY <2>1, HoldersKept DEF IInv, vars, awsVars, genVars, HoldsLease
    <2>. QED BY <2>1, BeginHolds, ProvisionHolds, HandoffHolds, OperatorHolds, AwsHolds,
                FaultHolds DEF Next, DaemonStep
<1>. QED BY <1>1, <1>2, Invariance, PTL DEF Spec

LEMMA CalmKept ==
    ASSUME Calm, moves = 0, cancels = 0, UNCHANGED <<opVars, moves, cancels>>,
           \A h \in Gen :
               \/ CalmAt(h)'
               \/ UNCHANGED <<pc[h], mem[h], state[h], built[h], requests[h]>>
    PROVE  Calm'
BY DEF Calm, CalmAt, opVars

LEMMA BeginCalm ==
    ASSUME IInv, Holders, Calm, moves = 0, cancels = 0, NEW g \in Gen, Begin(g)
    PROVE  Calm'
<1>. USE DEF awsVars, genVars, budget, Goto, At, IInv
<1>0. /\ HoldsAt(g) /\ TypeOK /\ CalmAt(g) /\ ~cleaning
      /\ \A h \in Gen : pc[h] \notin {"violated", "hold"}
    BY DEF Holders, Calm, CalmAt
<1>1. CASE Boot(g)
    <2>1. CalmAt(g)'
        BY <1>0, <1>1 DEF Boot, Look, CalmAt, opVars, LeasePc, TypeOK
    <2>. QED BY <1>0, <1>1, <2>1, CalmKept DEF Boot, Look, TypeOK
<1>2. CASE ClaimCurrent(g)
    <2>0. cur = None
        BY <1>0, <1>2 DEF ClaimCurrent, HoldsAt, ClaimAt
    <2>1. CalmAt(g)'
        BY <1>0, <1>2, <2>0 DEF ClaimCurrent, CalmAt, opVars, LeasePc, TypeOK
    <2>. QED BY <1>0, <1>2, <2>1, CalmKept DEF ClaimCurrent, TypeOK
<1>3. CASE InvokeHold(g)
    BY <1>0, <1>3 DEF InvokeHold
<1>4. CASE ReadControl(g)
    <2>0. mem'[g].pins = pins
        BY <1>0, <1>4 DEF ReadControl, Remember, Blank, TypeOK
    <2>1. CalmAt(g)'
        BY <1>0, <1>4, <2>0 DEF ReadControl, CalmAt, opVars, TypeOK
    <2>. QED BY <1>0, <1>4, <2>1, CalmKept DEF ReadControl, Remember, TypeOK
<1>5. CASE ReadCurrent(g)
    <2>0. mem'[g].pins = mem[g].pins
        BY <1>0, <1>5 DEF ReadCurrent, Remember, TypeOK, Memory
    <2>1. CalmAt(g)'
        BY <1>0, <1>5, <2>0 DEF ReadCurrent, CalmAt, opVars, TypeOK
    <2>. QED BY <1>0, <1>5, <2>1, CalmKept DEF ReadCurrent, Remember, TypeOK
<1>6. CASE WriteHeartbeat(g)
    <2>1. /\ pc'[g] \in {"idle", "done", "acquire"} /\ state'[g].status # "ERROR"
          /\ pc'[g] = "acquire" => mem' = mem
        BY <1>0, <1>6 DEF WriteHeartbeat, AfterHeartbeat, TypeOK, CalmAt
    <2>2. CalmAt(g)'
        BY <1>0, <1>6, <2>1 DEF WriteHeartbeat, CalmAt, opVars, LeasePc
    <2>3. \A h \in Gen \ {g} : UNCHANGED <<pc[h], mem[h], state[h]>>
        BY <1>0, <1>6 DEF WriteHeartbeat, Forget, TypeOK
    <2>. QED BY <1>0, <1>6, <2>2, <2>3, CalmKept DEF WriteHeartbeat
<1>7. CASE AcquireLease(g)
    <2>1. /\ pc'[g] \in {"idle", "recheck"}
          /\ pc'[g] = "recheck" => mem' = mem
          /\ \A h \in Gen \ {g} : UNCHANGED <<pc[h], mem[h]>>
        BY <1>0, <1>7 DEF AcquireLease, Forget, TypeOK
    <2>0. pc[g] = "acquire" /\ UNCHANGED <<opVars, state, built, requests, moves, cancels>>
        BY <1>7 DEF AcquireLease
    <2>2. CalmAt(g)'
        BY <1>0, <2>0, <2>1 DEF CalmAt, opVars, LeasePc
    <2>. QED BY <2>0, <2>1, <2>2, CalmKept
<1>8. CASE CheckOwnership(g)
    <2>2. CalmAt(g)'
        BY <1>0, <1>8 DEF CheckOwnership, Look, CalmAt, opVars, LeasePc, TypeOK
    <2>. QED BY <1>0, <1>8, <2>2, CalmKept DEF CheckOwnership, Look, TypeOK
<1>9. CASE ReleaseLease(g)
    <2>1. pc'[g] = "idle" /\ \A h \in Gen \ {g} : UNCHANGED <<pc[h], mem[h]>>
        BY <1>0, <1>9 DEF ReleaseLease, Forget, TypeOK
    <2>2. CalmAt(g)'
        BY <1>0, <1>9, <2>1 DEF ReleaseLease, CalmAt, opVars, LeasePc
    <2>. QED BY <1>0, <1>9, <2>1, <2>2, CalmKept DEF ReleaseLease
<1>. QED BY <1>1, <1>2, <1>3, <1>4, <1>5, <1>6, <1>7, <1>8, <1>9, Begin(g) DEF Begin

LEMMA ProvisionCalm ==
    ASSUME IInv, Holders, Calm, moves = 0, cancels = 0, NEW g \in Gen, Provision(g)
    PROVE  Calm'
<1>. USE DEF awsVars, genVars, budget, Goto, At, IInv
<1>0. /\ TypeOK /\ CalmAt(g) /\ pc[g] \in LeasePc /\ mem[g].pins = pins /\ AtPlace(g)
    <2>1. pc[g] \in LeasePc
        BY Provision(g) DEF Provision, FindSuccessor, FoundSuccessor, CheckCapacity, CheckControl,
              BeginProvisioning, SendCreate, CreateReturns, RecordSubmission,
              EndProvisioning, Look, LeasePc
    <2>. QED BY <2>1 DEF Calm, CalmAt, Safe, Places
<1>1. g \in Nat /\ g + 1 \in Gen /\ g + 1 # 0 /\ Ledger(g + 1) /\ CalmAt(g + 1)
    BY <1>0, NextGen, Constants DEF Safe, Ledgers, Calm
<1>2. Exists(g + 1) => built[g + 1] = Release[pins]
    BY <1>1 DEF Exists, Ledger, CalmAt
<1>3. /\ pc'[g] \in LeasePc \cup {"deferred"} /\ \A h \in Gen \ {g} : pc'[h] = pc[h]
    BY <1>0, <1>2, Provision(g) DEF Provision, FindSuccessor, FoundSuccessor, CheckCapacity,
          CheckControl, BeginProvisioning, SendCreate, CreateReturns, RecordSubmission,
          EndProvisioning, Look, LeasePc, TypeOK
<1>4. UNCHANGED <<mem, opVars, moves, cancels, state>>
    BY Provision(g) DEF Provision, FindSuccessor, FoundSuccessor, CheckCapacity, CheckControl,
          BeginProvisioning, SendCreate, CreateReturns, RecordSubmission,
          EndProvisioning, Look
<1>5. \A n \in Gen : n # g + 1 => UNCHANGED <<built[n], requests[n]>>
    BY <1>0, Provision(g) DEF Provision, FindSuccessor, FoundSuccessor, CheckCapacity, CheckControl,
          BeginProvisioning, SendCreate, CreateReturns, RecordSubmission,
          EndProvisioning, Look, TypeOK
<1>6. UNCHANGED <<built, requests>> \/ built'[g + 1] = Release[pins]
    BY <1>0, <1>1, Provision(g) DEF Provision, FindSuccessor, FoundSuccessor, CheckCapacity,
       CheckControl,
          BeginProvisioning, SendCreate, CreateReturns, RecordSubmission,
          EndProvisioning, Look, TypeOK
<1>7. CalmAt(g)'
    BY <1>0, <1>1, <1>3, <1>4, <1>5 DEF CalmAt, opVars, LeasePc
<1>8. CalmAt(g + 1)'
    BY <1>1, <1>3, <1>4, <1>6 DEF CalmAt, opVars
<1>. QED BY <1>3, <1>4, <1>5, <1>7, <1>8, CalmKept

LEMMA HandoffCalm ==
    ASSUME IInv, Holders, Calm, moves = 0, cancels = 0, NEW g \in Gen, Handoff(g)
    PROVE  Calm'
<1>. USE DEF awsVars, genVars, budget, Goto, At, IInv
<1>0. /\ TypeOK /\ CalmAt(g) /\ pc[g] \in LeasePc /\ mem[g].pins = pins
      /\ AtPlace(g) /\ HoldsAt(g) /\ ~cleaning /\ SameOpenControl(g)
    <2>1. pc[g] \in LeasePc
        BY Handoff(g) DEF Handoff, RenewLease, PollSuccessor, CheckHandoff, ConditionalHandoff,
              DeleteOwnStack, Look, LeasePc
    <2>. QED BY <2>1 DEF Calm, CalmAt, Safe, Places, Holders, SameOpenControl, Enabled
<1>1. g \in Nat /\ g + 1 \in Gen /\ g + 1 # 0 /\ Ledger(g + 1) /\ CalmAt(g + 1)
    BY <1>0, NextGen, Constants DEF Safe, Ledgers, Calm
<1>2. UNCHANGED <<opVars, moves, cancels, built, requests>>
    BY Handoff(g) DEF Handoff, RenewLease, PollSuccessor, CheckHandoff, ConditionalHandoff,
          DeleteOwnStack, Look
<1>3. pc'[g] \in LeasePc \cup {"deferred", "finished"} /\ \A h \in Gen \ {g} : pc'[h] = pc[h]
    <2>1. CASE RenewLease(g)
        BY <1>0, <2>1 DEF RenewLease, HoldsAt, HolderAt, OwnerPc, LeasePc, TypeOK
    <2>2. CASE PollSuccessor(g)
        BY <1>0, <2>2 DEF PollSuccessor, LeasePc, TypeOK
    <2>3. CASE CheckHandoff(g)
        <3>1. stack[g + 1] = "complete" /\ built[g + 1] = Release[mem[g].pins]
            BY <1>0, <1>1, <2>3 DEF CheckHandoff, Look, HoldsAt, HolderAt, Ledger, CalmAt
        <3>. QED BY <1>0, <2>3, <3>1 DEF CheckHandoff, Look, Verdict, LeasePc, TypeOK
    <2>4. CASE ConditionalHandoff(g)
        <3>1. HandoffConditions(g)
            BY <1>0, <2>4 DEF ConditionalHandoff, HandoffConditions, HoldsAt, OwnerAt, HolderAt,
               OwnerPc, LeasePc
        <3>. QED BY <1>0, <2>4, <3>1 DEF ConditionalHandoff, LeasePc, TypeOK
    <2>5. CASE DeleteOwnStack(g)
        BY <1>0, <2>5 DEF DeleteOwnStack, TypeOK
    <2>. QED BY <2>1, <2>2, <2>3, <2>4, <2>5, Handoff(g) DEF Handoff
<1>4. \A h \in Gen : mem'[h].pins = mem[h].pins /\ (h # g => mem'[h] = mem[h])
    BY <1>0, Handoff(g) DEF Handoff, RenewLease, PollSuccessor, CheckHandoff, ConditionalHandoff,
          DeleteOwnStack, Look, Remember, TypeOK, Memory
<1>5. \A n \in Gen : n # g + 1 => state'[n] = state[n]
    BY <1>0, Handoff(g) DEF Handoff, RenewLease, PollSuccessor, CheckHandoff, ConditionalHandoff,
          DeleteOwnStack, Look, TypeOK
<1>6. state'[g + 1].status # "ERROR"
    <2>1. \/ state' = state \/ state' = [state EXCEPT ![g + 1].status = "CURRENT"]
        BY Handoff(g) DEF Handoff, RenewLease, PollSuccessor, CheckHandoff, ConditionalHandoff,
              DeleteOwnStack, Look
    <2>2. state' = [state EXCEPT ![g + 1].status = "CURRENT"] => state'[g + 1].status = "CURRENT"
        BY <1>0, <1>1, StateWritten
    <2>. QED BY <1>1, <2>1, <2>2 DEF CalmAt
<1>7. CalmAt(g)'
    BY <1>0, <1>1, <1>2, <1>3, <1>4, <1>5 DEF CalmAt, opVars, LeasePc
<1>8. CalmAt(g + 1)'
    BY <1>1, <1>2, <1>3, <1>4, <1>6 DEF CalmAt, opVars
<1>. QED BY <1>2, <1>3, <1>4, <1>5, <1>7, <1>8, CalmKept

LEMMA OtherCalm ==
    ASSUME IInv, Calm, moves' = 0, cancels' = 0,
           OperatorStep \/ ConsumeCommand \/ LeaseLapses \/ (\E n \in Gen : AwsStep(n)) \/ FaultStep
    PROVE  Calm'
<1>. USE DEF awsVars, genVars, budget, IInv
<1>0. moves = 0 /\ cancels = 0 /\ ~OperatorStep /\ \A g \in Gen : ~HandoffCancelled(g)
    <2>0. moves \in Nat /\ cancels \in Nat
        BY DEF TypeOK
    <2>1. OperatorStep => moves' = moves + 1
        BY DEF OperatorStep, RequestSwitch, OperatorHold, ClearHold, EditControl, Move
    <2>2. \A g \in Gen : HandoffCancelled(g) => cancels' = cancels + 1
        BY DEF HandoffCancelled
    <2>3. ConsumeCommand \/ LeaseLapses => UNCHANGED <<moves, cancels>>
        BY DEF ConsumeCommand, LeaseLapses
    <2>4. (\E n \in Gen : AwsStep(n)) => UNCHANGED <<moves, cancels>>
        BY DEF AwsStep, AcceptCreate, StackAdvances, DeleteAdvances, Becomes
    <2>5. FaultStep => \/ \E g \in Gen : HandoffCancelled(g)
                       \/ UNCHANGED <<moves, cancels>>
        BY DEF FaultStep, Fault, Crash, CallFails, ReadinessTimesOut, RejectCreate,
           StackFails, HeartbeatAges, LeaseExpiresUnderHolder
    <2>. QED BY <2>0, <2>1, <2>2, <2>3, <2>4, <2>5
<1>1. ~ConsumeCommand
    BY <1>0 DEF Calm, ConsumeCommand
<1>2. CASE LeaseLapses
    BY <1>0, <1>2, CalmKept DEF LeaseLapses
<1>3. ASSUME NEW n \in Gen, AwsStep(n) PROVE Calm'
    <2>1. UNCHANGED <<opVars, moves, cancels, mem, state, built, requests>>
        BY <1>3 DEF AwsStep, AcceptCreate, StackAdvances, DeleteAdvances, Becomes
    <2>2. \A h \in Gen : pc'[h] = pc[h] \/ pc'[h] = "gone"
        BY <1>3 DEF AwsStep, AcceptCreate, StackAdvances, DeleteAdvances, Becomes, Goto, TypeOK
    <2>3. \A h \in Gen : pc'[h] = "gone" => CalmAt(h)'
        BY <1>0, <2>1 DEF Calm, CalmAt, opVars, LeasePc
    <2>. QED BY <1>0, <2>1, <2>2, <2>3, CalmKept
<1>4. CASE FaultStep
    <2>1. UNCHANGED <<opVars, moves, cancels, state, built, requests>>
        BY <1>0, <1>4 DEF FaultStep, Fault, Crash, CallFails, ReadinessTimesOut, RejectCreate,
           StackFails, HeartbeatAges, LeaseExpiresUnderHolder
    <2>2. \A h \in Gen : UNCHANGED <<pc[h], mem[h]>> \/ pc'[h] \in {"deferred", "idle", "down"}
        <3>1. ASSUME NEW g \in Gen, Crash(g) \/ CallFails(g) \/ ReadinessTimesOut(g)
              PROVE  /\ \A h \in Gen \ {g} : UNCHANGED <<pc[h], mem[h]>>
                     /\ pc'[g] \in {"deferred", "idle", "down"}
            BY <1>0, <3>1 DEF Crash, CallFails, ReadinessTimesOut, Goto, Forget, TypeOK, Calm,
               CalmAt
        <3>2. CASE \/ \E n \in Gen : RejectCreate(n) \/ StackFails(n) \/ HeartbeatAges(n)
                   \/ LeaseExpiresUnderHolder
            BY <3>2 DEF RejectCreate, StackFails, HeartbeatAges, LeaseExpiresUnderHolder
        <3>. QED BY <1>0, <1>4, <3>1, <3>2 DEF FaultStep
    <2>3. \A h \in Gen : pc'[h] \in {"deferred", "idle", "down"} => CalmAt(h)'
        BY <1>0, <2>1 DEF Calm, CalmAt, opVars, LeasePc
    <2>. QED BY <1>0, <2>1, <2>2, <2>3, CalmKept
<1>. QED BY <1>0, <1>1, <1>2, <1>3, <1>4

\* No crash, lost answer, failed stack or slow call is taken for a safety violation: only
\* an operator's move, or a handoff transaction that DynamoDB cancels for a reason of its
\* own, can lead to a hold.
THEOREM NoFaultHolds == Spec => []NoSelfInflictedHold
<1>1. Init => Calm
    BY DEF Init, Calm, CalmAt, NoState, LeasePc
<1>2. IInv /\ Holders /\ Calm /\ [Next]_vars => Calm'
    <2>. SUFFICES ASSUME IInv, Holders, Calm, [Next]_vars, moves' = 0, cancels' = 0
                  PROVE  Calm'
        BY DEF Calm
    <2>1. ASSUME UNCHANGED vars PROVE Calm'
        BY <2>1, CalmKept DEF vars, awsVars, genVars, budget
    <2>2. ASSUME NEW g \in Gen, DaemonStep(g) PROVE Calm'
        <3>1. moves = 0 /\ cancels = 0
            BY <2>2 DEF DaemonStep, Begin, Provision, Handoff, Boot, ClaimCurrent,
                InvokeHold, CreateHold, ReadControl, ReadCurrent, WriteHeartbeat,
                AcquireLease, CheckOwnership, ReleaseLease, FindSuccessor, CheckCapacity,
                CheckControl, BeginProvisioning, SendCreate, CreateReturns,
                RecordSubmission, EndProvisioning, RenewLease, PollSuccessor, CheckHandoff,
                ConditionalHandoff, DeleteOwnStack, Look, budget
        <3>. QED BY <2>2, <3>1, BeginCalm, ProvisionCalm, HandoffCalm DEF DaemonStep
    <2>. QED BY <2>1, <2>2, OtherCalm DEF Next
<1>3. Calm => NoSelfInflictedHold
    BY DEF Calm, CalmAt, NoSelfInflictedHold
<1>. QED BY <1>1, <1>2, <1>3, Invariance, HoldersAlways, PTL DEF Spec

-----------------------------------------------------------------------------
(* Predecessors left behind *)

LEMMA AbandonedCount ==
    ASSUME TypeOK, LeftByFaultsOnly, faults' \in Nat,
           \/ Abandoned' \subseteq Abandoned /\ faults <= faults'
           \/ \E g \in Gen : Abandoned' \subseteq Abandoned \cup {g} /\ faults' = faults + 1
    PROVE  LeftByFaultsOnly'
<1>1. /\ Abandoned \subseteq Gen /\ Abandoned' \subseteq Gen /\ IsFiniteSet(Abandoned)
      /\ Cardinality(Abandoned) \in Nat /\ Cardinality(Abandoned') \in Nat
    BY GenFinite DEF Abandoned
<1>2. Cardinality(Abandoned) <= faults /\ faults \in Nat
    BY DEF LeftByFaultsOnly, TypeOK
<1>3. CASE Abandoned' \subseteq Abandoned /\ faults <= faults'
    <2>1. Cardinality(Abandoned') <= Cardinality(Abandoned)
        BY <1>1, <1>3, FS_Subset
    <2>2. Cardinality(Abandoned') <= faults'
        BY <1>1, <1>2, <1>3, <2>1
    <2>. QED BY <2>2 DEF LeftByFaultsOnly
<1>4. ASSUME NEW g \in Gen, Abandoned' \subseteq Abandoned \cup {g}, faults' = faults + 1
      PROVE  LeftByFaultsOnly'
    <2>1. /\ IsFiniteSet(Abandoned \cup {g})
          /\ Cardinality(Abandoned \cup {g}) <= Cardinality(Abandoned) + 1
        BY <1>1, AddOne
    <2>2. Cardinality(Abandoned') <= Cardinality(Abandoned \cup {g})
        BY <1>4, <2>1, FS_Subset
    <2>3. Cardinality(Abandoned \cup {g}) \in Nat
        BY <2>1, FS_CardinalityType
    <2>4. Cardinality(Abandoned') <= faults'
        BY <1>1, <1>2, <1>4, <2>1, <2>2, <2>3
    <2>. QED BY <2>4 DEF LeftByFaultsOnly
<1>. QED BY <1>3, <1>4

\* A step that moves no ownership and lets no daemon give up a deletion that is due
LEMMA NoneLeft ==
    ASSUME TypeOK, cur' = cur,
           \A h \in Gen : stack'[h] = "complete" => stack[h] \in {"complete", "creating"},
           Ledgers,
           \A h \in Gen : pc[h] = "delete" => pc'[h] = "delete" \/ stack'[h] # "complete"
    PROVE  Abandoned' \subseteq Abandoned
<1>. SUFFICES ASSUME NEW h \in Gen, h \in Abandoned' PROVE h \in Abandoned
    BY DEF Abandoned
<1>1. cur # None /\ h < cur /\ stack'[h] = "complete" /\ pc'[h] # "delete"
    BY DEF Abandoned
<1>2. Ledger(h) /\ h <= cur
    BY <1>1, Constants DEF Ledgers, TypeOK
<1>3. stack[h] = "complete"
    BY <1>1, <1>2 DEF Ledger, Behind
<1>. QED BY <1>1, <1>3 DEF Abandoned

LEMMA DaemonLeaves ==
    ASSUME IInv, Holders, NEW g \in Gen, DaemonStep(g)
    PROVE  Abandoned' \subseteq Abandoned
<1>. USE DEF IInv, awsVars, genVars, opVars, budget, Goto, At
<1>0. TypeOK /\ Ledgers /\ HoldsAt(g)
    BY DEF Safe, Holders
<1>1. CASE ClaimCurrent(g) /\ cur' # cur
    <2>1. cur' = 0
        BY <1>0, <1>1 DEF ClaimCurrent, HoldsAt, ClaimAt
    <2>2. \A h \in Gen : ~(h < 0)
        BY Constants
    <2>. QED BY <2>1, <2>2 DEF Abandoned
<1>2. CASE ConditionalHandoff(g) /\ cur' # cur
    <2>1. cur = g /\ cur' = g + 1 /\ pc'[g] = "delete" /\ stack' = stack
          /\ (\A h \in Gen \ {g} : pc'[h] = pc[h]) /\ g \in Nat
        BY <1>0, <1>2, Constants DEF ConditionalHandoff, HandoffConditions, TypeOK
    <2>2. cur # None
        BY <2>1, NoneAssumption
    <2>3. \A h \in Gen : h < g + 1 => h < g \/ h = g
        BY <2>1, Constants
    <2>. QED BY <2>1, <2>2, <2>3 DEF Abandoned
<1>3. CASE ~(ClaimCurrent(g) /\ cur' # cur) /\ ~(ConditionalHandoff(g) /\ cur' # cur)
    <2>1. cur' = cur
        BY <1>3, DaemonStep(g) DEF DaemonStep, Begin, Provision, Handoff, Boot,
            InvokeHold, CreateHold, ReadControl, ReadCurrent, WriteHeartbeat,
            AcquireLease, CheckOwnership, ReleaseLease, FindSuccessor, CheckCapacity,
            CheckControl, BeginProvisioning, SendCreate, CreateReturns,
            RecordSubmission, EndProvisioning, RenewLease, PollSuccessor, CheckHandoff,
            DeleteOwnStack, Look
    <2>2. /\ \A h \in Gen : stack'[h] = stack[h] \/ stack'[h] \in {"deleting", "deleted"}
          /\ pc[g] = "delete" => stack'[g] # "complete"
          /\ \A h \in Gen \ {g} : pc'[h] = pc[h]
        <3>1. CASE DeleteOwnStack(g)
            BY <1>0, <3>1 DEF DeleteOwnStack, TypeOK
        <3>2. CASE ~DeleteOwnStack(g)
            <4>1. pc[g] # "delete" /\ stack' = stack
                BY <3>2, DaemonStep(g) DEF DaemonStep, Begin, Provision, Handoff, Boot,
                   ClaimCurrent,
                    InvokeHold, CreateHold, ReadControl, ReadCurrent, WriteHeartbeat,
                    AcquireLease, CheckOwnership, ReleaseLease, FindSuccessor, CheckCapacity,
                    CheckControl, BeginProvisioning, SendCreate, CreateReturns,
                    RecordSubmission, EndProvisioning, RenewLease, PollSuccessor, CheckHandoff,
                    ConditionalHandoff, Look, EndPc
            <4>2. \A h \in Gen \ {g} : pc'[h] = pc[h]
                BY <1>0, DaemonStep(g) DEF DaemonStep, Begin, Provision, Handoff, Boot,
                   ClaimCurrent,
                    InvokeHold, ReadControl, ReadCurrent, WriteHeartbeat,
                    AcquireLease, CheckOwnership, ReleaseLease, FindSuccessor, CheckCapacity,
                    CheckControl, BeginProvisioning, SendCreate, CreateReturns,
                    RecordSubmission, EndProvisioning, RenewLease, PollSuccessor, CheckHandoff,
                    ConditionalHandoff, DeleteOwnStack, Look, TypeOK
            <4>. QED BY <4>1, <4>2
        <3>. QED BY <3>1, <3>2
    <2>. QED BY <1>0, <2>1, <2>2, NoneLeft
<1>. QED BY <1>1, <1>2, <1>3

LEMMA OthersLeave ==
    ASSUME IInv,
    OperatorStep \/ ConsumeCommand \/ LeaseLapses \/ (\E n \in Gen : AwsStep(n)) \/ FaultStep
    PROVE  \/ Abandoned' \subseteq Abandoned /\ faults' \in {faults, faults + 1}
           \/ \E g \in Gen : Abandoned' \subseteq Abandoned \cup {g} /\ faults' = faults + 1
<1>. USE DEF IInv, awsVars, genVars, opVars, budget
<1>0. TypeOK /\ Ledgers
    BY DEF Safe
<1>1. CASE OperatorStep \/ ConsumeCommand \/ LeaseLapses
    <2>1. UNCHANGED <<cur, stack, pc, faults>>
        BY <1>1 DEF OperatorStep, RequestSwitch, OperatorHold, ClearHold, EditControl, Move,
           ConsumeCommand, LeaseLapses
    <2>. QED BY <1>0, <2>1, NoneLeft
<1>2. ASSUME NEW n \in Gen, AwsStep(n)
      PROVE  Abandoned' \subseteq Abandoned /\ faults' = faults
    <2>1. UNCHANGED <<cur, faults>>
        BY <1>2 DEF AwsStep, AcceptCreate, StackAdvances, DeleteAdvances, Becomes
    <2>2. /\ \A h \in Gen : stack'[h] = "complete" => stack[h] \in {"complete", "creating"}
          /\ \A h \in Gen : pc'[h] = pc[h] \/ stack'[h] = "deleted"
        BY <1>0, <1>2 DEF AwsStep, AcceptCreate, StackAdvances, DeleteAdvances, Becomes, Goto,
           Exists, TypeOK
    <2>. QED BY <1>0, <2>1, <2>2, NoneLeft
<1>3. CASE FaultStep
    <2>1. \/ \E g \in Gen : HandoffCancelled(g)
          \/ cur' = cur /\ faults' = faults + 1
        BY <1>3 DEF FaultStep, Fault, Crash, CallFails, ReadinessTimesOut, RejectCreate,
           StackFails, HeartbeatAges, LeaseExpiresUnderHolder
    <2>0. ASSUME NEW g \in Gen, HandoffCancelled(g)
          PROVE  Abandoned' \subseteq Abandoned /\ faults' = faults
        <3>1. /\ UNCHANGED <<cur, stack, faults>>
              /\ \A h \in Gen : pc[h] = "delete" => pc'[h] = "delete"
            BY <1>0, <2>0 DEF HandoffCancelled, Goto, At, TypeOK
        <3>. QED BY <1>0, <3>1, NoneLeft
    <2>2. ASSUME NEW g \in Gen, Crash(g) \/ CallFails(g) \/ ReadinessTimesOut(g)
          PROVE  Abandoned' \subseteq Abandoned \cup {g}
        <3>1. stack' = stack /\ \A h \in Gen \ {g} : pc'[h] = pc[h]
            BY <1>0, <2>2 DEF Crash, CallFails, ReadinessTimesOut, Goto, TypeOK
        <3>2. cur' = cur
            BY <2>2 DEF Crash, CallFails, ReadinessTimesOut, Fault
        <3>. QED BY <3>1, <3>2 DEF Abandoned
    <2>3. CASE \/ \E n \in Gen : RejectCreate(n) \/ StackFails(n) \/ HeartbeatAges(n)
               \/ LeaseExpiresUnderHolder
        <3>1. /\ pc' = pc
              /\ \A h \in Gen : stack'[h] = stack[h] \/ stack'[h] = "failed"
            BY <1>0, <2>3 DEF RejectCreate, StackFails, HeartbeatAges, LeaseExpiresUnderHolder,
               TypeOK
        <3>2. cur' = cur /\ faults' = faults + 1
            BY <2>3 DEF RejectCreate, StackFails, HeartbeatAges, LeaseExpiresUnderHolder, Fault
        <3>. QED BY <1>0, <3>1, <3>2, NoneLeft
    <2>. QED BY <1>3, <2>0, <2>1, <2>2, <2>3 DEF FaultStep
<1>. QED BY <1>1, <1>2, <1>3

\* Every predecessor that nobody will delete is the work of a fault of its own.
THEOREM LeftByFaults == Spec => []LeftByFaultsOnly
<1>1. Init => LeftByFaultsOnly
    <2>. SUFFICES ASSUME Init PROVE LeftByFaultsOnly
        OBVIOUS
    <2>1. Abandoned = {}
        BY DEF Init, Abandoned
    <2>. QED BY <2>1, FS_EmptySet DEF Init, LeftByFaultsOnly
<1>2. IInv /\ IInv' /\ Holders /\ LeftByFaultsOnly /\ [Next]_vars => LeftByFaultsOnly'
    <2>. SUFFICES ASSUME IInv, IInv', Holders, LeftByFaultsOnly, [Next]_vars
                  PROVE  LeftByFaultsOnly'
        OBVIOUS
    <2>0. TypeOK /\ faults \in Nat /\ faults' \in Nat
        BY DEF IInv, TypeOK
    <2>1. ASSUME NEW g \in Gen, DaemonStep(g) PROVE LeftByFaultsOnly'
        <3>1. faults' = faults
            BY <2>1 DEF DaemonStep, Begin, Provision, Handoff, Boot, ClaimCurrent,
                InvokeHold, CreateHold, ReadControl, ReadCurrent, WriteHeartbeat,
                AcquireLease, CheckOwnership, ReleaseLease, FindSuccessor, CheckCapacity,
                CheckControl, BeginProvisioning, SendCreate, CreateReturns,
                RecordSubmission, EndProvisioning, RenewLease, PollSuccessor, CheckHandoff,
                ConditionalHandoff, DeleteOwnStack, Look, budget
        <3>. QED BY <2>0, <2>1, <3>1, DaemonLeaves, AbandonedCount
    <2>2. ASSUME \/ OperatorStep \/ ConsumeCommand \/ LeaseLapses
                 \/ (\E n \in Gen : AwsStep(n)) \/ FaultStep
          PROVE  LeftByFaultsOnly'
        BY <2>0, <2>2, OthersLeave, AbandonedCount
    <2>3. ASSUME UNCHANGED vars PROVE LeftByFaultsOnly'
        BY <2>3 DEF vars, awsVars, budget, LeftByFaultsOnly, Abandoned
    <2>. QED BY <2>1, <2>2, <2>3 DEF Next
<1>. QED BY <1>1, <1>2, Invariance, HoldersAlways, PTL DEF Spec
=============================================================================
