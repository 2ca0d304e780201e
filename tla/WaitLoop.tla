------------------------------ MODULE WaitLoop ------------------------------
(***************************************************************************)
(* The two polling loops of a restore, with time                           *)
(* (internal/controller/phases.go: handleWaitingForAttachmentPhase,        *)
(* handleSSHConnectingPhase, incrementRetryAndRequeue).                    *)
(*                                                                         *)
(* FileRestore tells only whether a check is recent and whether a retry    *)
(* counter has reached its bound.  Here one restore is in one of the two   *)
(* phases, and the clock, the work queue with its delayed entries and the  *)
(* age of the cached copy decide when a check is made.  What a stale copy  *)
(* does to a restore that has left the phase is FileRestore's question.    *)
(*                                                                         *)
(* Time is counted in half seconds from the change to the phase, so that a *)
(* time stamp stored in whole seconds (metav1.Time) is different from the  *)
(* time it was taken at.                                                   *)
(***************************************************************************)
EXTENDS Integers

CONSTANTS
    MaxAttachmentWait,  \* attempts before the restore fails (60)
    MaxSSHWait,         \* (24)
    MaxDial,            \* the longest connection attempt, in half seconds
    MaxBusy,            \* the longest time another restore keeps the worker
    MaxLag,             \* the longest time the cache is behind
    MaxEdits,           \* bound on edits of the object by users
    MaxFaults           \* bound on refused patches and crashes

ASSUME WaitAssumption ==
    /\ MaxAttachmentWait \in Nat \ {0} /\ MaxSSHWait \in Nat \ {0}
    /\ MaxDial \in Nat /\ MaxBusy \in Nat /\ MaxLag \in Nat
    /\ MaxEdits \in Nat /\ MaxFaults \in Nat

Second == 2

Never == -1

\* The restore, as far as the loop uses it.
Restore == [phase : {"waiting", "next", "failed"},
            retries : Nat,
            stamp : Nat \cup {Never},
            edits : Nat]

VARIABLES
    loop,       \* the phase: "attachment" or "ssh"
    now,        \* the clock
    obj,        \* API: the restore
    cached,     \* the copy in the informer cache
    behind,     \* for how long the copy has been an old one
    queued,     \* the restore is in the work queue
    waited,     \* for how long
    due,        \* when the delayed entry is added to the queue, or Never
    pc,         \* the worker: what it does next
    begun,      \* time of the latest check, or Never
    stale,      \* number of checks made although the copy was an old one
    faults      \* number of faults so far

clockVars == <<loop, now, behind, waited>>
waitVars ==
    <<loop, now, obj, cached, behind, queued, waited, due, pc, begun, stale, faults>>

Waiting == obj.phase = "waiting"

MaxWait == IF loop = "attachment" THEN MaxAttachmentWait ELSE MaxSSHWait

----------------------------------------------------------------------------
(***************************************************************************)
(* The work queue, the API and the clock.                                  *)
(***************************************************************************)

\* A restore has one delayed entry: an earlier time replaces a later one.  A delay
\* that is not positive asks for nothing.
AddAfter(t) ==
    due' = IF t > now /\ (due = Never \/ t < due) THEN t ELSE due

\* Requeue, and an error: after a few milliseconds.
AddRateLimited == due' = now

Fault == faults < MaxFaults /\ faults' = faults + 1

\* A patch is refused: the handler returns the error.
PatchFails ==
    /\ Fault
    /\ AddRateLimited
    /\ pc' = "idle"
    /\ UNCHANGED obj

\* Mutant: only a change of the specification queues the restore.
SyncGenerationOnly ==
    /\ Waiting
    /\ cached # obj
    /\ cached' = obj /\ behind' = 0
    /\ UNCHANGED <<loop, now, obj, queued, waited, due, pc, begun, stale, faults>>

\* The watch event of any change, one of the status too, queues the restore.
Sync ==
    /\ Waiting
    /\ cached # obj
    /\ cached' = obj /\ behind' = 0
    /\ queued' = TRUE
    /\ UNCHANGED <<loop, now, obj, waited, due, pc, begun, stale, faults>>

DelayedAdd ==
    /\ Waiting
    /\ due # Never /\ due <= now
    /\ queued' = TRUE /\ due' = Never
    /\ UNCHANGED <<clockVars, obj, cached, pc, begun, stale, faults>>

UserEdit ==
    /\ Waiting
    /\ obj.edits < MaxEdits
    /\ obj' = [obj EXCEPT !.edits = @ + 1]
    /\ UNCHANGED <<clockVars, cached, queued, due, pc, begun, stale, faults>>

\* A new process lists the objects and queues each.
Crash ==
    /\ Waiting
    /\ Fault
    /\ pc' = "idle"
    /\ cached' = obj /\ behind' = 0
    /\ queued' = TRUE /\ waited' = 0 /\ due' = Never
    /\ UNCHANGED <<loop, now, obj, begun, stale>>

\* Time passes while the worker dials or has nothing to do, and only for as long as
\* the cache and the queue may take.
Tick ==
    /\ Waiting
    /\ \/ pc = "idle"
       \/ pc = "answer" /\ loop = "ssh" /\ now < begun + MaxDial
    /\ due = Never \/ now < due
    /\ cached = obj \/ behind < MaxLag
    /\ ~(queued /\ pc = "idle") \/ waited < MaxBusy
    /\ now' = now + 1
    /\ behind' = IF cached = obj THEN 0 ELSE behind + 1
    /\ waited' = IF queued /\ pc = "idle" THEN waited + 1 ELSE waited
    /\ UNCHANGED <<loop, obj, cached, queued, due, pc, begun, stale, faults>>

----------------------------------------------------------------------------
(***************************************************************************)
(* The handlers.                                                           *)
(***************************************************************************)

\* Mutant: every trigger makes a check.
NeverLimited(o) == FALSE

\* The latest check is less than five seconds old.
RateLimited(o) == o.stamp # Never /\ now - o.stamp < 5 * Second

\* The beginning of a reconcile: the bound on the attempts, the rate limit, and for
\* the attachment the instance, which may be gone.
Reconcile ==
    /\ Waiting
    /\ pc = "idle" /\ queued
    /\ queued' = FALSE /\ waited' = 0
    /\ LET timedOut == cached.retries >= MaxWait
       IN \/ /\ timedOut
             /\ pc' = "fail"
             /\ UNCHANGED <<due, stale>>
          \/ /\ ~timedOut /\ RateLimited(cached)
             /\ AddAfter(cached.stamp + 5 * Second)
             /\ UNCHANGED <<pc, stale>>
          \/ /\ ~timedOut /\ ~RateLimited(cached)
             /\ pc' = "stamp" \/ (loop = "attachment" /\ pc' = "fail")
             /\ stale' = IF cached.stamp = obj.stamp THEN stale ELSE stale + 1
             /\ UNCHANGED due
    /\ UNCHANGED <<loop, now, obj, cached, behind, begun, faults>>

\* metav1.Time is stored as RFC 3339, without a fraction.
WholeSeconds(t) == t - (t % Second)

\* Mutant: the time stamp is not written.
StampForgotten ==
    /\ pc = "stamp"
    /\ begun' = now
    /\ pc' = "answer"
    /\ UNCHANGED <<clockVars, obj, cached, queued, due, stale, faults>>

\* The time of the check is written before its outcome is known.  The response to
\* the patch replaces the copy in memory: what follows uses the stored object.
Stamp ==
    /\ pc = "stamp"
    /\ \/ /\ obj' = [obj EXCEPT !.stamp = WholeSeconds(now)]
          /\ begun' = now
          /\ pc' = "answer"
          /\ UNCHANGED <<due, faults>>
       \/ PatchFails /\ UNCHANGED begun
    /\ UNCHANGED <<clockVars, cached, queued, stale>>

\* Doubled after five and after ten attempts, and at most 30 seconds.
Delay(n) ==
    LET d == IF n >= 10 THEN 20 ELSE IF n >= 5 THEN 10 ELSE 5
    IN (IF d > 30 THEN 30 ELSE d) * Second

\* Not attached yet, or no connection: count the attempt.
NotYet ==
    /\ pc = "answer"
    /\ \/ /\ obj' = [obj EXCEPT !.retries = @ + 1]
          /\ AddAfter(now + Delay(obj.retries + 1))
          /\ pc' = "idle"
          /\ UNCHANGED faults
       \/ PatchFails
    /\ UNCHANGED <<clockVars, cached, queued, begun, stale>>

\* Mutant: a success takes one attempt back instead of all.
SucceedsByOne ==
    /\ pc = "answer"
    /\ obj' = [obj EXCEPT !.retries = @ - 1]
    /\ pc' = "transition"
    /\ UNCHANGED <<clockVars, cached, queued, due, begun, stale, faults>>

\* Attached, or connected: the counter is reset, which may fail unnoticed, and then
\* the phase changes.
Succeeds ==
    /\ pc = "answer"
    /\ \/ obj' = [obj EXCEPT !.retries = 0] /\ UNCHANGED faults
       \/ obj.retries > 0 /\ Fault /\ UNCHANGED obj
    /\ pc' = "transition"
    /\ UNCHANGED <<clockVars, cached, queued, due, begun, stale>>

Transition ==
    /\ pc = "transition"
    /\ \/ /\ obj' = [obj EXCEPT !.phase = "next"]
          /\ AddRateLimited
          /\ pc' = "idle"
          /\ UNCHANGED faults
       \/ PatchFails
    /\ UNCHANGED <<clockVars, cached, queued, begun, stale>>

\* The volume is not a hot-plugged one; no instance, address or key.
Broken ==
    /\ pc = "answer"
    /\ pc' = "fail"
    /\ UNCHANGED <<clockVars, obj, cached, queued, due, begun, stale, faults>>

FailRestore ==
    /\ pc = "fail"
    /\ \/ /\ obj' = [obj EXCEPT !.phase = "failed"]
          /\ pc' = "idle"
          /\ UNCHANGED <<due, faults>>
       \/ PatchFails
    /\ UNCHANGED <<clockVars, cached, queued, begun, stale>>

----------------------------------------------------------------------------
\* The event of the change to this phase has arrived; its own requeue follows.
Init ==
    /\ loop \in {"attachment", "ssh"}
    /\ now = 0 /\ behind = 0 /\ waited = 0
    /\ obj = [phase |-> "waiting", retries |-> 0, stamp |-> Never, edits |-> 0]
    /\ cached = obj
    /\ queued = TRUE /\ due = 0
    /\ pc = "idle" /\ begun = Never
    /\ stale = 0 /\ faults = 0

Worker == Reconcile \/ Stamp \/ NotYet \/ Succeeds \/ Transition \/ Broken \/ FailRestore

\* The phase is left, and nothing more happens here.
Left == ~Waiting /\ UNCHANGED waitVars

Next == Worker \/ Sync \/ DelayedAdd \/ UserEdit \/ Crash \/ Tick \/ Left

Spec == Init /\ [][Next]_waitVars

----------------------------------------------------------------------------
\* The type invariant.
WaitTypeOK ==
    /\ loop \in {"attachment", "ssh"}
    /\ now \in Nat /\ behind \in 0..MaxLag /\ waited \in 0..MaxBusy
    /\ obj \in Restore /\ cached \in Restore
    /\ queued \in BOOLEAN /\ due \in Nat \cup {Never}
    /\ pc \in {"idle", "stamp", "answer", "transition", "fail"}
    /\ begun \in Nat \cup {Never}
    /\ stale \in Nat /\ faults \in 0..MaxFaults

\* The retry counter is paced by the clock: between two checks that were made on a
\* current copy more than four seconds pass (five seconds of the rate limit, less
\* what the whole seconds of the time stamp cut off), so a counter that has
\* reached its bound stands for as much waiting.  The rate limit of both handlers,
\* with the stamp written before the check.
CounterIsPaced ==
    obj.retries > 0 => 9 * (obj.retries - 1 - stale) <= now

\* A check on an old copy, which the rate limit does not see, is rare while the
\* volume is awaited: it takes an entry of the queue from before the patches of the
\* previous check, left by the phase change (its event and its requeue), a user's
\* edit, an error or a restart.
StaleChecksAreFew ==
    loop = "attachment" => stale <= 1 + obj.edits + faults

\* The wait is bounded: at any time enough attempts have been counted for the time
\* that has passed.  The longer delays of incrementRetryAndRequeue would not allow
\* it; the watch event of the counter itself brings the next check forward.  A
\* success whose phase change is lost has reset the counter, and the wait starts
\* again.
WaitIsBounded ==
    LET round == (IF loop = "ssh" /\ MaxDial > 5 * Second THEN MaxDial ELSE 5 * Second)
                 + MaxLag + MaxBusy
    IN Waiting /\ pc # "transition" =>
           now <= (obj.retries + 1 + faults * (MaxWait + 1)) * round
=============================================================================
