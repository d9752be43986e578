-------------------------- MODULE ControlMonitor --------------------------
(***************************************************************************)
(* The control monitor of a family daemon (ControlMonitor in               *)
(* family_daemon.py): a thread that reads the operator's controls every few *)
(* seconds, with at most one read outstanding, and latches a stop when a    *)
(* read reports one or when its last good observation has grown too old.    *)
(*                                                                          *)
(* The remote state is one bit: poll_stopped reads CONTROL, HOLD, the       *)
(* request and the STOP records in one transaction.  The daemon's process   *)
(* may crash and restart at any time; a stop survives in a local file once  *)
(* stop_children has written it.                                            *)
(* Definitions marked "mutant" are used by no action.                       *)
(***************************************************************************)
EXTENDS Integers

CONSTANTS
    Poll,           \* control_poll_seconds
    MaxAge,         \* control_max_age_seconds
    MaxTime,        \* bound on the clock
    MaxUpsets       \* bound on failed reads, delays and crashes

\* inherited.py, validate
ASSUME SettingsAssumption ==
    Poll \in Nat \ {0} /\ MaxAge \in Nat /\ MaxAge >= Poll
ASSUME BoundAssumption == MaxTime \in Nat /\ MaxUpsets \in Nat

VARIABLES
    now,            \* the clock
    remote, since,  \* is a stop in effect at the tables, and since when
    everRemote,     \* has one ever been in effect (history)
    pending,        \* the outstanding read: none, asked, its answer, or failed
    submitted,      \* submitted_at
    observed,       \* observed_at
    nextPoll,       \* next_poll
    stopped,        \* the latch
    file,           \* the local stop file
    restored,       \* has run read the stop file back
    boot,           \* when this process started (history)
    ticked,         \* the time of the last tick (history)
    permitted,      \* the time of the last tick that let the daemon go on (history)
    upsets

remoteVars == <<remote, since, everRemote>>
pollVars == <<pending, submitted, observed, nextPoll>>
vars == <<now, remoteVars, pollVars, stopped, file, restored, boot, ticked, permitted, upsets>>

Done == pending \in {"run", "stop", "failed"}
Answered == pending \in {"run", "stop"}

Upset == upsets < MaxUpsets /\ upsets' = upsets + 1

-----------------------------------------------------------------------------
(* _tick *)

\* The age of an observation starts at the submission of its read; a failed read
\* refreshes nothing.
ObservedAtAnswer == IF Answered THEN now ELSE observed  \* mutant: at its answer
NeverObserved == observed                               \* mutant: not refreshed
Observation == IF Answered THEN submitted ELSE observed

\* The age is tested after the answer is taken and before the next read is submitted.
\* Nothing but run acts on a tick, and run first reads the stop file.
Expired == now - Observation >= MaxAge

Tick ==
    LET stop == stopped \/ pending = "stop" \/ Expired
        free == pending = "none" \/ Done
    IN  /\ stopped' = stop
        /\ observed' = Observation
        /\ IF free /\ now >= nextPoll
           THEN /\ pending' = "asked" /\ submitted' = now
                /\ nextPoll' = now + Poll
           ELSE /\ pending' = IF free THEN "none" ELSE pending
                /\ UNCHANGED <<submitted, nextPoll>>
        /\ ticked' = now
        /\ permitted' = IF stop \/ ~restored THEN permitted ELSE now
        /\ UNCHANGED <<now, remoteVars, file, restored, boot, upsets>>

\* stop_children, in the thread of run, publishes the latched stop to the disk.
StopChildren ==
    /\ restored /\ stopped /\ file' = TRUE
    /\ UNCHANGED <<now, remoteVars, pollVars, stopped, restored, boot, ticked, permitted,
                   upsets>>

\* __init__ and the start of the monitor's thread, which ticks before run has read the
\* stop file.
Crash ==
    /\ Upset /\ now + MaxAge <= MaxTime
    /\ stopped' = FALSE /\ restored' = FALSE
    /\ observed' = now /\ submitted' = now /\ nextPoll' = 0 /\ pending' = "none"
    /\ boot' = now /\ ticked' = now
    /\ UNCHANGED <<now, remoteVars, file, permitted>>

\* run sets the latch without the lock of _tick, but no assignment of either is lost:
\* CPython switches threads between the calls and loops of _tick only, never within
\* "self.stopped |= remote_stop".
Restored ==
    /\ ~restored /\ restored' = TRUE
    /\ UNCHANGED <<now, remoteVars, pollVars, file, boot, ticked, permitted, upsets>>
ForgetsFile == Restored /\ UNCHANGED stopped    \* mutant: the stop file is not read
ReadStopFile == Restored /\ stopped' = (stopped \/ file)

-----------------------------------------------------------------------------
(* The tables, the network and the clock *)

\* poll_stopped reads everything in one transaction, some time after it was asked to.
Read ==
    /\ pending = "asked"
    /\ pending' = IF remote THEN "stop" ELSE "run"
    /\ UNCHANGED <<now, remoteVars, submitted, observed, nextPoll, stopped, file, restored,
                   boot, ticked, permitted, upsets>>

ReadFails ==
    /\ pending = "asked" /\ Upset
    /\ pending' = "failed"
    /\ UNCHANGED <<now, remoteVars, submitted, observed, nextPoll, stopped, file, restored,
                   boot, ticked, permitted>>

\* A stop, hold, cleanup or STOP record takes effect; a hold may be cleared again.
\* (The last time that leaves room for an expiry is a bound.)
StopTakesEffect ==
    /\ ~remote /\ now + MaxAge <= MaxTime
    /\ remote' = TRUE /\ since' = now /\ everRemote' = TRUE
    /\ UNCHANGED <<now, pollVars, stopped, file, restored, boot, ticked, permitted, upsets>>
StopIsCleared ==
    /\ remote /\ remote' = FALSE
    /\ UNCHANGED <<now, since, everRemote, pollVars, stopped, file, restored, boot, ticked,
                   permitted, upsets>>

\* The thread ticks at every instant and a read is answered by the next one, until the
\* first upset; after it reads may hang and ticks may be late.
Prompt == ticked = now /\ (pending = "asked" => submitted = now)
Delay ==
    /\ ~Prompt /\ upsets = 0 /\ Upset
    /\ UNCHANGED <<now, remoteVars, pollVars, stopped, file, restored, boot, ticked,
                   permitted>>
Advance ==
    /\ now < MaxTime /\ (Prompt \/ upsets > 0)
    /\ now' = now + 1
    /\ UNCHANGED <<remoteVars, pollVars, stopped, file, restored, boot, ticked, permitted,
                   upsets>>

-----------------------------------------------------------------------------
(* The specification *)

Init ==
    /\ now = 0 /\ remote = FALSE /\ since = 0 /\ everRemote = FALSE
    /\ pending = "none" /\ submitted = 0 /\ observed = 0 /\ nextPoll = 0
    /\ stopped = FALSE /\ file = FALSE /\ restored = FALSE
    /\ boot = 0 /\ ticked = 0 /\ permitted = 0 /\ upsets = 0

Next ==
    \/ Tick \/ StopChildren \/ Crash \/ ReadStopFile \/ Read \/ ReadFails
    \/ StopTakesEffect \/ StopIsCleared \/ Delay \/ Advance

Spec == Init /\ [][Next]_vars

-----------------------------------------------------------------------------
(* Properties *)

\* Type invariant.
TypeOK ==
    /\ now \in Nat /\ remote \in BOOLEAN /\ since \in Nat /\ everRemote \in BOOLEAN
    /\ pending \in {"none", "asked", "run", "stop", "failed"}
    /\ submitted \in Nat /\ observed \in Nat /\ nextPoll \in Nat
    /\ stopped \in BOOLEAN /\ file \in BOOLEAN /\ restored \in BOOLEAN
    /\ boot \in Nat /\ ticked \in Nat /\ permitted \in Nat
    /\ upsets \in 0..MaxUpsets

\* A stop that stays in effect ends every permission within the maximum age, counted
\* from the stop or from the start of this process: whatever reads hang, fail or are
\* answered late (decision 0023: the maximum age is measured from read submission).
Later == IF since >= boot THEN since ELSE boot
StopInTime == remote => permitted < Later + MaxAge

\* Without a stop, a delay, a failed read or a crash, the monitor never stops its
\* daemon, if the maximum age leaves room for a read and its answer.
NoFalseStop ==
    MaxAge > Poll + 2 /\ ~everRemote /\ upsets = 0 => ~stopped

\* Once stop_children has written the stop file, no tick of this process or of one that
\* replaces it lets the daemon go on, also while the monitor of the new process already
\* ticks and finds the tables cleared (run reads the file before anything else it does).
StopSurvives == [][file => UNCHANGED permitted]_vars
=============================================================================
