----------------------- MODULE ControlMonitorProofs -----------------------
(***************************************************************************)
(* Proofs about ControlMonitor, for every polling interval, maximum age and *)
(* number of upsets.                                                        *)
(***************************************************************************)
EXTENDS ControlMonitor, TLAPS

\* Times of the past, and what the latch knows while a stop is in effect: neither
\* the last good observation nor a good answer on its way is younger than the stop.
Past ==
    /\ submitted <= now /\ observed <= now /\ boot <= now /\ since <= now
    /\ permitted <= now
Aware ==
    remote => /\ ~stopped => observed <= Later
              /\ pending = "run" => submitted <= Later

\* A healthy monitor: one interval between submissions, one instant for an answer.
Healthy == ~everRemote /\ upsets = 0
Schedule ==
    /\ remote => everRemote
    /\ Healthy =>
        /\ pending \in {"none", "asked", "run"} /\ nextPoll <= submitted + Poll
        /\ ticked <= now /\ now <= ticked + 1
        /\ pending = "none" => observed = submitted /\ ticked < submitted + Poll
        /\ pending = "asked" => now <= submitted + 1
        /\ pending # "none" => /\ submitted <= observed + Poll + 1
                               /\ ticked <= submitted + 1

\* The stop file comes from the latch and restores it.
Latched ==
    /\ file /\ restored => stopped
    /\ Healthy /\ MaxAge > Poll + 2 => ~file

\* The inductive invariant.
IInv == TypeOK /\ Past /\ Aware /\ StopInTime /\ Schedule /\ NoFalseStop /\ Latched

LEMMA InitIInv == Init => IInv
<1> SUFFICES ASSUME Init PROVE IInv
  OBVIOUS
<1> USE SettingsAssumption, BoundAssumption DEF Init, SettingsAssumption, BoundAssumption
<1>1. TypeOK
  <2>1. /\ remote \in BOOLEAN /\ everRemote \in BOOLEAN
        /\ stopped \in BOOLEAN /\ file \in BOOLEAN /\ restored \in BOOLEAN
    BY Zenon
  <2>2. /\ now \in Nat /\ since \in Nat /\ submitted \in Nat /\ observed \in Nat
        /\ nextPoll \in Nat /\ boot \in Nat /\ ticked \in Nat /\ permitted \in Nat
        /\ upsets \in 0..MaxUpsets
        /\ pending \in {"none", "asked", "run", "stop", "failed"}
    BY SMT
  <2> QED
    BY <2>1, <2>2 DEF TypeOK
<1>2. Past /\ Aware /\ StopInTime
  BY DEF Past, Aware, StopInTime, Later
<1>3. Schedule /\ NoFalseStop /\ Latched
  BY DEF Schedule, Healthy, NoFalseStop, Latched
<1> QED
  BY <1>1, <1>2, <1>3 DEF IInv

\* One tick keeps the invariant: a permission needs a fresh observation.
\* What a tick decides
LEMMA TickStops ==
    ASSUME Tick
    PROVE  /\ ~stopped' => ~stopped /\ pending # "stop" /\ ~Expired
           /\ stopped' => stopped \/ pending = "stop" \/ Expired
           /\ stopped => stopped'
  BY Zenon DEF Tick

LEMMA TickKeeps == IInv /\ Tick => IInv'
<1> SUFFICES ASSUME IInv, Tick PROVE IInv'
  OBVIOUS
<1> USE SettingsAssumption, BoundAssumption DEF SettingsAssumption, BoundAssumption
<1>1. TypeOK'
  BY DEF IInv, TypeOK, Tick, Observation, Expired, Answered, Done, remoteVars
<1>2. Past'
  BY DEF IInv, TypeOK, Past, Tick, Observation, Answered, Done, remoteVars
<1>3. Aware' /\ StopInTime'
  <2>1. remote' = remote /\ since' = since /\ boot' = boot /\ now' = now
    BY DEF Tick, remoteVars
  <2>2. remote /\ ~stopped' => Observation <= Later
    BY DEF Tick, IInv, Aware, Observation, Answered
  <2>3. ~stopped' => now < Observation + MaxAge
    <3>1. Observation \in Nat /\ now \in Nat
      BY DEF Observation, IInv, TypeOK
    <3>2. ~Expired => now < Observation + MaxAge
      BY <3>1 DEF Expired
    <3> QED
      BY <3>2, TickStops
  <2>4. Observation \in Nat /\ Later \in Nat
    BY DEF Observation, IInv, TypeOK, Later
  <2>5. Aware'
    BY <2>1, <2>2 DEF Aware, Tick, Later, Done, IInv
  <2>6. StopInTime'
    BY <2>1, <2>2, <2>3, <2>4 DEF StopInTime, Tick, Later, IInv, TypeOK
  <2> QED
    BY <2>5, <2>6
<1>4. Schedule'
  <2>1. /\ remote' = remote /\ everRemote' = everRemote /\ upsets' = upsets
        /\ now' = now /\ ticked' = now
    BY DEF Tick, remoteVars
  <2>2. ASSUME Healthy
        PROVE  pending \in {"none", "asked", "run"}
    BY <2>2 DEF IInv, Schedule
  <2>3. ASSUME Healthy, pending = "none", now >= nextPoll
        PROVE  /\ pending' = "asked" /\ submitted' = now /\ observed' = submitted
               /\ now <= submitted + Poll
    BY <2>3 DEF Tick, Observation, Answered, IInv, Schedule, TypeOK
  <2>4. ASSUME Healthy, pending = "none", ~(now >= nextPoll)
        PROVE  /\ pending' = "none" /\ submitted' = submitted /\ observed' = submitted
               /\ now < nextPoll
    BY <2>4 DEF Tick, Observation, Answered, Done, IInv, Schedule, TypeOK
  <2>5. ASSUME Healthy, pending = "asked"
        PROVE  /\ pending' = "asked" /\ submitted' = submitted /\ observed' = observed
               /\ nextPoll' = nextPoll
    BY <2>5 DEF Tick, Observation, Answered, Done
  <2>6. ASSUME Healthy, pending = "run"
        PROVE  /\ observed' = submitted /\ now <= submitted + 2
               /\ \/ pending' = "asked" /\ submitted' = now /\ nextPoll' = now + Poll
                  \/ pending' = "none" /\ submitted' = submitted /\ nextPoll' = nextPoll
                     /\ now < nextPoll
    BY <2>6 DEF Tick, Observation, Answered, Done, IInv, Schedule, TypeOK
  <2> QED
    BY <2>1, <2>2, <2>3, <2>4, <2>5, <2>6 DEF IInv, TypeOK, Schedule, Healthy, Tick
<1>5. Latched'
  <2>1. UNCHANGED <<file, restored, everRemote, upsets>>
    BY DEF Tick, remoteVars
  <2> QED
    BY <2>1, TickStops DEF IInv, Latched, Healthy
<1>6. NoFalseStop'
  <2>1. everRemote' = everRemote /\ upsets' = upsets
    BY DEF Tick, remoteVars
  <2>2. ASSUME Healthy, MaxAge > Poll + 2 PROVE ~Expired /\ pending # "stop" /\ ~stopped
    BY <2>2 DEF IInv, TypeOK, Schedule, Healthy, NoFalseStop, Expired,
                Observation, Answered
  <2> QED
    BY <2>1, <2>2, TickStops DEF NoFalseStop, Healthy
<1> QED
  BY <1>1, <1>2, <1>3, <1>4, <1>5, <1>6 DEF IInv

LEMMA StepIInv == IInv /\ [Next]_vars => IInv'
<1> SUFFICES ASSUME IInv, [Next]_vars PROVE IInv'
  OBVIOUS
<1> USE SettingsAssumption, BoundAssumption DEF SettingsAssumption, BoundAssumption
<1> USE DEF IInv, TypeOK, Past, Aware, StopInTime, Later, Schedule, Healthy, NoFalseStop,
            Latched, remoteVars, pollVars
<1>1. CASE Tick
  BY <1>1, TickKeeps
<1>2. CASE StopChildren
  BY <1>2 DEF StopChildren
<1>3. CASE Crash
  <2>0. Past' /\ upsets' \in 0..MaxUpsets
    BY <1>3 DEF Crash, Upset
  <2>1. TypeOK'
    BY <1>3, <2>0, Zenon DEF Crash
  <2>2. upsets' # 0 /\ ~restored' /\ ~stopped' /\ pending' = "none"
    BY <1>3 DEF Crash, Upset
  <2>3. UNCHANGED <<remote, everRemote, since, permitted>> /\ boot' = now /\ observed' = now
    BY <1>3 DEF Crash
  <2>4. Aware' /\ StopInTime'
    BY <2>2, <2>3
  <2>5. Schedule' /\ NoFalseStop' /\ Latched'
    BY <2>2, <2>3
  <2> QED
    BY <2>0, <2>1, <2>4, <2>5
<1>4. CASE Read
  BY <1>4 DEF Read
<1>5. CASE ReadFails
  BY <1>5 DEF ReadFails, Upset
<1>6. CASE StopTakesEffect
  BY <1>6 DEF StopTakesEffect
<1>7. CASE StopIsCleared
  BY <1>7 DEF StopIsCleared
<1>8. CASE Delay
  BY <1>8 DEF Delay, Upset
<1>9. CASE Advance
  BY <1>9 DEF Advance, Prompt
<1>10. CASE ReadStopFile
  BY <1>10 DEF ReadStopFile, Restored
<1>11. CASE UNCHANGED vars
  BY <1>11 DEF vars
<1> QED
  BY <1>1, <1>2, <1>3, <1>4, <1>5, <1>6, <1>7, <1>8, <1>9, <1>10, <1>11 DEF Next

LEMMA Invariance == Spec => []IInv
  BY InitIInv, StepIInv, PTL DEF Spec

\* A stop that stays in effect ends every permission within the maximum age.
THEOREM StoppedInTime == Spec => []StopInTime
<1>1. IInv => StopInTime
  BY DEF IInv
<1> QED
  BY <1>1, Invariance, PTL

\* A healthy monitor never stops its daemon of its own accord.
THEOREM NeverStopsFalsely == Spec => []NoFalseStop
<1>1. IInv => NoFalseStop
  BY DEF IInv
<1> QED
  BY <1>1, Invariance, PTL

\* Type correctness.
THEOREM TypeCorrect == Spec => []TypeOK
<1>1. IInv => TypeOK
  BY DEF IInv
<1> QED
  BY <1>1, Invariance, PTL

\* A stop that was written to the disk ends all permissions, over any number of restarts
\* and whatever the tables show later.
THEOREM FileStopsForGood == Spec => StopSurvives
<1>1. IInv /\ [Next]_vars => [file => UNCHANGED permitted]_vars
  <2> SUFFICES ASSUME IInv, [Next]_vars, file PROVE UNCHANGED permitted
    OBVIOUS
  <2>1. CASE Tick
    <3>1. stopped' \/ ~restored
      BY <2>1, TickStops DEF IInv, Latched
    <3> QED
      BY <2>1, <3>1, Zenon DEF Tick
  <2> QED
    BY <2>1 DEF Next, StopChildren, Crash, ReadStopFile, Restored, Read, ReadFails,
                StopTakesEffect, StopIsCleared, Delay, Advance, vars
<1> QED
  BY <1>1, Invariance, PTL DEF Spec, StopSurvives
=============================================================================
