--------------------------- MODULE WaitLoopProofs ---------------------------
(***************************************************************************)
(* The retry counters are paced by the clock, checks on an old copy are    *)
(* few and the wait ends in time, for every bound on the attempts, on the  *)
(* age of the cached copy and on the delays.                               *)
(***************************************************************************)
EXTENDS WaitLoop, TLAPS

\* A time stamp in whole seconds is less than a second before the time it was
\* taken at (metav1.Time, written by both handlers).
LEMMA StampIsClose ==
    ASSUME NEW t \in Nat
    PROVE  WholeSeconds(t) \in Nat /\ WholeSeconds(t) <= t /\ t - 1 <= WholeSeconds(t)
BY DEF WholeSeconds, Second

\* A later time has no earlier stamp.
LEMMA StampsAreOrdered ==
    ASSUME NEW t \in Nat, NEW u \in Nat, t <= u
    PROVE  WholeSeconds(t) <= WholeSeconds(u)
BY DEF WholeSeconds, Second

\* The delays of incrementRetryAndRequeue are natural numbers.
LEMMA DelayIsNat == \A n \in Nat : Delay(n) \in Nat
BY DEF Delay, Second

\* They are at least the rate limit.
LEMMA DelayIsLong == \A n \in Nat : Delay(n) \in Nat /\ Delay(n) >= 5 * Second
BY DEF Delay, Second

\* The shape of every state of both polling loops (handleWaitingForAttachmentPhase,
\* handleSSHConnectingPhase).
THEOREM WaitTypeCorrect == Spec => []WaitTypeOK
<1>1. Init => WaitTypeOK
  BY WaitAssumption DEF Init, WaitTypeOK, Restore, Never
<1>2. WaitTypeOK /\ [Next]_waitVars => WaitTypeOK'
  <2> SUFFICES ASSUME WaitTypeOK, [Next]_waitVars PROVE WaitTypeOK'
    OBVIOUS
  <2> USE WaitAssumption DEF WaitTypeOK
  <2>1. CASE Sync
    BY <2>1 DEF Sync
  <2>2. CASE DelayedAdd
    BY <2>2 DEF DelayedAdd, clockVars
  <2>3. CASE UserEdit
    BY <2>3 DEF UserEdit, clockVars, Restore
  <2>4. CASE Crash
    BY <2>4 DEF Crash, Fault
  <2>5. CASE Tick
    BY <2>5 DEF Tick
  <2>6. CASE Reconcile
    <3>1. cached.stamp + 5 * Second \in Nat \/ ~RateLimited(cached)
      BY DEF RateLimited, Restore, Second, Never
    <3>2. due' \in Nat \cup {Never}
      BY <2>6, <3>1 DEF Reconcile, AddAfter
    <3>3. pc' \in {"idle", "stamp", "answer", "transition", "fail"} /\ stale' \in Nat
      BY <2>6 DEF Reconcile
    <3>4. UNCHANGED <<loop, now, obj, cached, behind, begun, faults>> /\ waited' \in 0..MaxBusy
      BY <2>6 DEF Reconcile
    <3>5. queued' \in BOOLEAN
      BY <2>6 DEF Reconcile
    <3> QED
      BY <3>2, <3>3, <3>4, <3>5
  <2>7. CASE Stamp
    BY <2>7, StampIsClose DEF Stamp, PatchFails, AddRateLimited, Fault, clockVars, Restore
  <2>8. CASE NotYet
    <3>1. due' \in Nat \cup {Never}
      BY <2>8, DelayIsNat DEF NotYet, AddAfter, PatchFails, AddRateLimited, Restore
    <3> QED
      BY <2>8, <3>1 DEF NotYet, PatchFails, Fault, clockVars, Restore
  <2>9. CASE Succeeds
    BY <2>9 DEF Succeeds, Fault, clockVars, Restore
  <2>10. CASE Transition
    BY <2>10 DEF Transition, PatchFails, AddRateLimited, Fault, clockVars, Restore
  <2>11. CASE Broken
    BY <2>11 DEF Broken, clockVars
  <2>12. CASE FailRestore
    BY <2>12 DEF FailRestore, PatchFails, AddRateLimited, Fault, clockVars, Restore
  <2>13. CASE Left \/ UNCHANGED waitVars
    BY <2>13 DEF Left, waitVars
  <2> QED
    BY <2>1, <2>2, <2>3, <2>4, <2>5, <2>6, <2>7, <2>8, <2>9, <2>10, <2>11, <2>12, <2>13
       DEF Next, Worker
<1> QED
  BY <1>1, <1>2, PTL DEF Spec

----------------------------------------------------------------------------
\* The stored stamp is that of the latest check.
StampIsLatest ==
    /\ begun <= now
    /\ obj.stamp = Never => begun = Never
    /\ obj.stamp # Never => begun \in Nat /\ obj.stamp = WholeSeconds(begun)

\* The checks that are counted, and the one being made, are paced.
ChecksArePaced ==
    /\ obj.retries > 0 => begun \in Nat /\ 9 * (obj.retries - 1 - stale) <= begun
    /\ pc = "stamp" => 9 * (obj.retries - stale) <= now
    /\ pc = "answer" => begun \in Nat /\ 9 * (obj.retries - stale) <= begun

PacedInv == WaitTypeOK /\ StampIsLatest /\ ChecksArePaced

\* A check that passes the rate limit with a current copy is more than four
\* seconds after the latest one; with an old copy it is counted as stale.
LEMMA ReconcilePaced ==
    ASSUME PacedInv, Reconcile
    PROVE  StampIsLatest' /\ ChecksArePaced'
<1> USE DEF PacedInv, WaitTypeOK, Restore, Never
<1>1. /\ UNCHANGED <<obj, begun, now>>
      /\ pc = "idle"
      /\ stale' \in Nat /\ stale <= stale'
  BY DEF Reconcile
<1>2. StampIsLatest'
  BY <1>1 DEF StampIsLatest, WholeSeconds
<1>3. (obj.retries > 0 => begun \in Nat /\ 9 * (obj.retries - 1 - stale) <= begun)'
  BY <1>1 DEF ChecksArePaced
<1>4. ASSUME pc' = "stamp" PROVE 9 * (obj.retries - stale') <= now
  <2>1. ~RateLimited(cached)
    BY <1>4, <1>1 DEF Reconcile
  <2>2. CASE cached.stamp # obj.stamp
    <3>1. stale' = stale + 1
      BY <2>2, <1>4, <1>1 DEF Reconcile
    <3> QED
      BY <3>1 DEF ChecksArePaced, StampIsLatest
  <2>3. CASE cached.stamp = obj.stamp /\ obj.stamp = Never
    BY <2>3, <1>1 DEF ChecksArePaced, StampIsLatest
  <2>4. CASE cached.stamp = obj.stamp /\ obj.stamp # Never
    <3>1. now - obj.stamp >= 10
      BY <2>1, <2>4 DEF RateLimited, Second
    <3>2. begun \in Nat /\ begun - 1 <= obj.stamp
      BY <2>4, StampIsClose DEF StampIsLatest
    <3> QED
      BY <3>1, <3>2, <1>1 DEF ChecksArePaced
  <2> QED
    BY <2>2, <2>3, <2>4
<1>5. pc' # "answer"
  BY <1>1 DEF Reconcile
<1> QED
  BY <1>1, <1>2, <1>3, <1>4, <1>5 DEF ChecksArePaced

\* The inductive invariant behind the pace of the counters.
LEMMA AlwaysPaced == Spec => []PacedInv
<1>1. Init => StampIsLatest /\ ChecksArePaced
  BY DEF Init, StampIsLatest, ChecksArePaced, Never
<1>2. WaitTypeOK /\ WaitTypeOK' /\ PacedInv /\ [Next]_waitVars => PacedInv'
  <2> SUFFICES ASSUME PacedInv, WaitTypeOK', [Next]_waitVars
               PROVE  StampIsLatest' /\ ChecksArePaced'
    BY DEF PacedInv
  <2> USE DEF PacedInv, WaitTypeOK
  <2>1. CASE Sync \/ DelayedAdd \/ Left \/ UNCHANGED waitVars \/ Broken
    BY <2>1 DEF Sync, DelayedAdd, Left, waitVars, Broken, clockVars, StampIsLatest,
                ChecksArePaced
  <2>2. CASE UserEdit
    BY <2>2 DEF UserEdit, clockVars, Restore, StampIsLatest, ChecksArePaced
  <2>3. CASE Crash
    BY <2>3 DEF Crash, StampIsLatest, ChecksArePaced
  <2>4. CASE Tick
    BY <2>4 DEF Tick, StampIsLatest, ChecksArePaced, Restore, Never
  <2>5. CASE Reconcile
    BY <2>5, ReconcilePaced
  <2>6. CASE Stamp
    <3>1. CASE PatchFails /\ UNCHANGED begun
      BY <2>6, <3>1 DEF Stamp, PatchFails, clockVars, StampIsLatest, ChecksArePaced
    <3>2. CASE obj' = [obj EXCEPT !.stamp = WholeSeconds(now)] /\ begun' = now /\ pc' = "answer"
      <4>1. UNCHANGED <<now, stale>> /\ obj'.retries = obj.retries
            /\ obj'.stamp = WholeSeconds(now) /\ obj'.stamp # Never
        BY <2>6, <3>2, StampIsClose DEF Stamp, clockVars, Restore, Never
      <4> QED
        BY <2>6, <3>2, <4>1 DEF Stamp, StampIsLatest, ChecksArePaced, Restore
    <3> QED
      BY <2>6, <3>1, <3>2 DEF Stamp
  <2>7. CASE NotYet
    <3>1. CASE PatchFails
      BY <2>7, <3>1 DEF NotYet, PatchFails, clockVars, StampIsLatest, ChecksArePaced
    <3>2. CASE obj' = [obj EXCEPT !.retries = @ + 1] /\ pc' = "idle"
      BY <2>7, <3>2 DEF NotYet, clockVars, Restore, StampIsLatest, ChecksArePaced
    <3> QED
      BY <2>7, <3>1, <3>2 DEF NotYet
  <2>8. CASE Succeeds
    BY <2>8 DEF Succeeds, clockVars, Restore, StampIsLatest, ChecksArePaced
  <2>9. CASE Transition
    BY <2>9 DEF Transition, PatchFails, clockVars, Restore, StampIsLatest, ChecksArePaced
  <2>10. CASE FailRestore
    BY <2>10 DEF FailRestore, PatchFails, clockVars, Restore, StampIsLatest, ChecksArePaced
  <2> QED
    BY <2>1, <2>2, <2>3, <2>4, <2>5, <2>6, <2>7, <2>8, <2>9, <2>10 DEF Next, Worker
<1> QED
  BY <1>1, <1>2, WaitTypeCorrect, PTL DEF Spec, PacedInv

\* The retry counters of both polling loops are paced by the clock (the rate limit
\* of handleWaitingForAttachmentPhase and handleSSHConnectingPhase).
THEOREM Paced == Spec => []CounterIsPaced
<1>1. PacedInv => CounterIsPaced
  BY DEF PacedInv, WaitTypeOK, Restore, StampIsLatest, ChecksArePaced, CounterIsPaced
<1> QED
  BY <1>1, AlwaysPaced, PTL

\* The stored stamp is always that of the latest check.
LEMMA LatestStamp == Spec => []StampIsLatest
<1>1. PacedInv => StampIsLatest
  BY DEF PacedInv
<1> QED
  BY <1>1, AlwaysPaced, PTL

----------------------------------------------------------------------------
(***************************************************************************)
(* Checks on an old copy are few.                                          *)
(***************************************************************************)

\* The cache and the queue together take less than half of the rate limit, so that
\* the events of a check have been handled before the next check is allowed.
Timely == 2 * MaxLag + MaxBusy < 9

One(b) == IF b THEN 1 ELSE 0

\* The time t is within the rate limit of the stored stamp.
Before(t) == obj.stamp # Never /\ t < obj.stamp + 5 * Second

\* A change, or an entry of the queue, that may still be there when the rate limit
\* ends.
LastingChange == cached # obj /\ ~Before(now + (MaxLag - behind) + MaxBusy)
LastingEntry == queued /\ ~Before(now + (MaxBusy - waited))

\* The delayed entry may be added before the cache has the latest stamp.
Near == due # Never /\ due <= now + (MaxLag - behind)

OldStamp == cached.stamp = Never \/ begun - cached.stamp >= 5 * Second
RecentStamp == cached.stamp # Never /\ begun - cached.stamp <= MaxLag + 1

\* The number of entries that may still lead to a check on an old copy: those at
\* hand while the copy is old, and those in excess of the one that the next check
\* takes while it is current.
Leftover ==
    IF cached.stamp # obj.stamp
    THEN IF RecentStamp THEN 0 ELSE One(queued) + One(Near)
    ELSE IF pc = "stamp" /\ ~RateLimited(cached)
         THEN One(queued \/ cached # obj) + One(due # Never)
         ELSE One(LastingChange) + One(LastingEntry /\ due # Never)

\* How old a copy can be: its stamp is the stored one, that of a check shortly
\* before, or one from before the rate limit.
CopyAge ==
    /\ Waiting \/ pc = "idle"
    /\ pc \in {"answer", "transition"} => now = begun
    /\ cached.stamp <= obj.stamp
    /\ cached.stamp # obj.stamp =>
        /\ Waiting => now - begun <= behind
        /\ RecentStamp \/ OldStamp
        /\ pc = "stamp" => OldStamp
    /\ pc = "stamp" => ~RateLimited(cached) \/ now - begun <= MaxLag

\* Every leftover entry is paid for by the change to the phase, an edit or a fault.
FewLeftovers ==
    /\ stale <= 1 + obj.edits + faults
    /\ Waiting => stale + Leftover <= 1 + obj.edits + faults

StaleInv == WaitTypeOK /\ StampIsLatest /\ (loop = "attachment" => CopyAge /\ FewLeftovers)

\* The numbers and Booleans that the argument is about.
LEMMA StaleTypes ==
    ASSUME WaitTypeOK
    PROVE  /\ obj.stamp \in Int /\ cached.stamp \in Int /\ begun \in Int /\ due \in Int
           /\ obj.edits \in Nat /\ cached.edits \in Nat
           /\ obj.stamp >= -1 /\ cached.stamp >= -1 /\ due >= -1
           /\ now \in Nat /\ stale \in Nat /\ faults \in Nat /\ queued \in BOOLEAN
           /\ behind \in Nat /\ behind <= MaxLag /\ waited \in Nat /\ waited <= MaxBusy
           /\ MaxLag \in Nat /\ MaxBusy \in Nat
BY WaitAssumption DEF WaitTypeOK, Restore, Never

\* A stored stamp is less than a second before the latest check.
LEMMA StampBounds ==
    ASSUME WaitTypeOK, StampIsLatest, obj.stamp # Never
    PROVE  begun \in Nat /\ begun - 1 <= obj.stamp /\ obj.stamp <= begun /\ begun <= now
BY StampIsClose DEF StampIsLatest, WaitTypeOK

\* Shortly after a check no change and no entry lasts.
LEMMA NothingLasts ==
    ASSUME Timely, WaitTypeOK, StampIsLatest, obj.stamp # Never, now - begun <= MaxLag
    PROVE  ~LastingChange /\ ~LastingEntry
BY StaleTypes, StampBounds DEF LastingChange, LastingEntry, Before, Second, Timely

\* The watch event: an old copy becomes a current one.
LEMMA SyncLeftover ==
    ASSUME Timely, StaleInv, StampIsLatest', loop = "attachment", Sync, WaitTypeOK'
    PROVE  CopyAge' /\ FewLeftovers'
<1>0. WaitTypeOK /\ StampIsLatest /\ CopyAge /\ FewLeftovers
  BY DEF StaleInv
<1>1. /\ cached' = obj /\ behind' = 0 /\ queued' = TRUE /\ Waiting /\ cached # obj
      /\ UNCHANGED <<loop, now, obj, waited, due, pc, begun, stale, faults>>
  BY DEF Sync
<1>2. ASSUME cached.stamp # obj.stamp
      PROVE  obj.stamp # Never /\ now - begun <= MaxLag
  BY <1>0, <1>1, <1>2, StaleTypes DEF CopyAge, Never
<1>3. CopyAge'
  BY <1>0, <1>1, <1>2, StaleTypes DEF CopyAge, RateLimited, Waiting
<1>4. CASE cached.stamp # obj.stamp
  <2>1. ~LastingChange' /\ ~LastingEntry'
    BY <1>0, <1>1, <1>2, <1>4, NothingLasts, StaleTypes, StampBounds
       DEF LastingChange, LastingEntry, Before, Second, Timely
  <2>2. pc = "stamp" => RateLimited(cached)'
    BY <1>0, <1>1, <1>2, <1>4, StaleTypes, StampBounds DEF RateLimited, Second, Timely
  <2>3. Leftover' = 0
    BY <1>1, <2>1, <2>2 DEF Leftover, One
  <2> QED
    BY <1>0, <1>1, <1>3, <2>3, StaleTypes DEF FewLeftovers, Leftover, One, Waiting
<1>5. CASE cached.stamp = obj.stamp
  <2>1. RateLimited(cached)' = RateLimited(cached)
    BY <1>1, <1>5 DEF RateLimited
  <2>2. ~LastingChange' /\ (LastingEntry' => LastingEntry \/ LastingChange)
    BY <1>0, <1>1, StaleTypes DEF LastingChange, LastingEntry, Before, Second
  <2>3. Leftover' <= Leftover /\ Leftover' \in Int
    BY <1>1, <1>5, <2>1, <2>2 DEF Leftover, One
  <2> QED
    BY <1>0, <1>1, <1>3, <2>3, StaleTypes DEF FewLeftovers, Leftover, One, Waiting
<1> QED
  BY <1>4, <1>5

\* The delayed entry moves to the queue.
LEMMA DelayedLeftover ==
    ASSUME Timely, StaleInv, loop = "attachment", DelayedAdd
    PROVE  CopyAge' /\ FewLeftovers'
<1>0. WaitTypeOK /\ StampIsLatest /\ CopyAge /\ FewLeftovers
  BY DEF StaleInv
<1>1. /\ queued' = TRUE /\ due' = Never /\ due # Never /\ due <= now
      /\ UNCHANGED <<loop, now, behind, waited, obj, cached, pc, begun, stale, faults>>
  BY DEF DelayedAdd, clockVars
<1>2. CopyAge'
  BY <1>0, <1>1 DEF CopyAge, RateLimited, Waiting, RecentStamp, OldStamp
<1>3. /\ Near /\ ~Near'
      /\ UNCHANGED <<LastingChange, RecentStamp>> /\ RateLimited(cached)' = RateLimited(cached)
  BY <1>0, <1>1, StaleTypes DEF Near, LastingChange, RecentStamp, RateLimited, Before
<1>4. Leftover' <= Leftover /\ Leftover' \in Int /\ Leftover \in Int
  BY <1>1, <1>3 DEF Leftover, One
<1> QED
  BY <1>0, <1>1, <1>2, <1>4, StaleTypes DEF FewLeftovers, Waiting

\* An edit pays for the entry that its event makes.
LEMMA EditLeftover ==
    ASSUME Timely, StaleInv, loop = "attachment", UserEdit
    PROVE  CopyAge' /\ FewLeftovers'
<1>0. WaitTypeOK /\ StampIsLatest /\ CopyAge /\ FewLeftovers
  BY DEF StaleInv
<1>1. /\ obj'.edits = obj.edits + 1 /\ obj'.stamp = obj.stamp /\ obj'.phase = obj.phase
      /\ UNCHANGED <<loop, now, behind, waited, cached, queued, due, pc, begun, stale, faults>>
  BY <1>0 DEF UserEdit, clockVars, WaitTypeOK, Restore
<1>2. CopyAge'
  BY <1>0, <1>1 DEF CopyAge, RateLimited, Waiting, RecentStamp, OldStamp
<1>3. /\ Near' = Near /\ LastingEntry' = LastingEntry /\ RecentStamp' = RecentStamp
      /\ RateLimited(cached)' = RateLimited(cached)
  BY <1>1 DEF Near, LastingEntry, RecentStamp, RateLimited, Before
<1>4. Leftover' <= Leftover + 1 /\ Leftover' \in Int /\ Leftover \in Int
  BY <1>1, <1>3 DEF Leftover, One
<1> QED
  BY <1>0, <1>1, <1>2, <1>4, StaleTypes DEF FewLeftovers, Waiting

\* A new process starts with a current copy and one entry.
LEMMA CrashLeftover ==
    ASSUME Timely, StaleInv, loop = "attachment", Crash
    PROVE  CopyAge' /\ FewLeftovers'
<1>0. WaitTypeOK /\ StampIsLatest /\ CopyAge /\ FewLeftovers
  BY DEF StaleInv
<1>1. /\ cached' = obj /\ due' = Never /\ pc' = "idle" /\ faults' = faults + 1
      /\ UNCHANGED <<loop, obj, stale>>
  BY DEF Crash, Fault
<1>2. CopyAge'
  BY <1>0, <1>1, StaleTypes DEF CopyAge, Waiting
<1>3. Leftover' = 0
  BY <1>1 DEF Leftover, LastingChange, One
<1> QED
  BY <1>0, <1>1, <1>2, <1>3, StaleTypes DEF FewLeftovers, Waiting

\* Time passes only while the copy is young enough and the queue is served.
LEMMA TickLeftover ==
    ASSUME Timely, StaleInv, WaitTypeOK', loop = "attachment", Tick
    PROVE  CopyAge' /\ FewLeftovers'
<1>0. WaitTypeOK /\ StampIsLatest /\ CopyAge /\ FewLeftovers
  BY DEF StaleInv
<1>1. /\ pc = "idle" /\ now' = now + 1
      /\ behind' = IF cached = obj THEN 0 ELSE behind + 1
      /\ waited' = IF queued THEN waited + 1 ELSE waited
      /\ UNCHANGED <<loop, obj, cached, queued, due, pc, begun, stale, faults>>
  BY DEF Tick
<1>2. CopyAge'
  BY <1>0, <1>1, StaleTypes DEF CopyAge, Waiting, RecentStamp, OldStamp
<1>3. LastingEntry' = LastingEntry /\ LastingChange' = LastingChange
      /\ RecentStamp' = RecentStamp
  BY <1>0, <1>1, StaleTypes DEF LastingEntry, LastingChange, RecentStamp, Before
<1>4. cached.stamp # obj.stamp => Near' = Near
  BY <1>0, <1>1, StaleTypes DEF Near
<1>5. Leftover' = Leftover /\ Leftover \in Int
  BY <1>1, <1>3, <1>4 DEF Leftover, One
<1> QED
  BY <1>0, <1>1, <1>2, <1>5, StaleTypes DEF FewLeftovers, Waiting

\* A reconcile takes its entry from the queue; on an old copy it is one that was
\* left over.
LEMMA ReconcileLeftover ==
    ASSUME Timely, StaleInv, WaitTypeOK', loop = "attachment", Reconcile
    PROVE  CopyAge' /\ FewLeftovers'
<1>0. WaitTypeOK /\ StampIsLatest /\ CopyAge /\ FewLeftovers
  BY DEF StaleInv
<1>1. /\ Waiting /\ pc = "idle" /\ queued /\ queued' = FALSE
      /\ UNCHANGED <<loop, now, obj, cached, behind, begun, faults>>
  BY DEF Reconcile
<1>2. /\ RecentStamp' = RecentStamp /\ OldStamp' = OldStamp /\ Waiting' = Waiting
      /\ LastingChange' = LastingChange /\ ~LastingEntry'
  BY <1>1 DEF RecentStamp, OldStamp, Waiting, LastingChange, LastingEntry, Before
<1>3. ASSUME cached.stamp # obj.stamp
      PROVE  obj.stamp # Never /\ now - begun <= MaxLag
  BY <1>0, <1>1, <1>3, StaleTypes DEF CopyAge, Never
<1>4. CASE /\ cached.retries >= MaxWait /\ pc' = "fail" /\ UNCHANGED <<due, stale>>
  <2>1. CopyAge'
    BY <1>0, <1>1, <1>2, <1>4 DEF CopyAge
  <2>2. Leftover' <= Leftover /\ Leftover' \in Int /\ Leftover \in Int
    BY <1>1, <1>2, <1>4 DEF Leftover, One, Near
  <2> QED
    BY <1>0, <1>1, <1>2, <1>4, <2>1, <2>2, StaleTypes DEF FewLeftovers
<1>5. CASE /\ RateLimited(cached) /\ AddAfter(cached.stamp + 5 * Second)
           /\ UNCHANGED <<pc, stale>>
  <2>1. CopyAge'
    BY <1>0, <1>1, <1>2, <1>5 DEF CopyAge
  <2>2. cached.stamp # obj.stamp => RecentStamp
    BY <1>0, <1>1, <1>3, <1>5, StaleTypes, StampBounds
       DEF CopyAge, RateLimited, OldStamp, Second
  <2>3. Leftover' <= Leftover /\ Leftover' \in Int /\ Leftover \in Int
    BY <1>1, <1>2, <1>5, <2>2 DEF Leftover, One
  <2> QED
    BY <1>0, <1>1, <1>2, <1>5, <2>1, <2>3, StaleTypes DEF FewLeftovers
<1>6. CASE /\ ~RateLimited(cached) /\ pc' \in {"stamp", "fail"}
           /\ stale' = IF cached.stamp = obj.stamp THEN stale ELSE stale + 1
           /\ UNCHANGED due
  <2>1. cached.stamp # obj.stamp => ~RecentStamp /\ OldStamp
    BY <1>0, <1>1, <1>3, <1>6, StaleTypes, StampBounds
       DEF CopyAge, RateLimited, RecentStamp, Second, Timely
  <2>2. ~RateLimited(cached)'
    BY <1>1, <1>6 DEF RateLimited
  <2>3. CopyAge'
    BY <1>0, <1>1, <1>2, <1>6, <2>1, <2>2 DEF CopyAge
  <2>4. CASE cached.stamp # obj.stamp
    <3>1. Leftover' + 1 = Leftover /\ Leftover' \in Int /\ Leftover \in Int
      BY <1>1, <1>2, <1>6, <2>1, <2>4 DEF Leftover, One, Near
    <3>2. stale' = stale + 1 /\ obj'.edits = obj.edits /\ faults' = faults
      BY <1>1, <1>6, <2>4
    <3>3. stale' + Leftover' = stale + Leftover /\ Leftover' >= 0
      BY <1>0, <3>1, <3>2, StaleTypes DEF Leftover, One
    <3> QED
      BY <1>0, <1>1, <2>3, <3>1, <3>2, <3>3, StaleTypes DEF FewLeftovers
  <2>5. CASE cached.stamp = obj.stamp
    <3>1. LastingEntry /\ (cached # obj => LastingChange)
      BY <1>0, <1>1, <1>6, <2>5, StaleTypes
         DEF LastingEntry, LastingChange, Before, RateLimited, Second
    <3>2. Leftover' <= Leftover /\ Leftover' \in Int /\ Leftover \in Int
      BY <1>1, <1>2, <1>6, <2>2, <2>5, <3>1 DEF Leftover, One
    <3> QED
      BY <1>0, <1>1, <1>2, <1>6, <2>3, <2>5, <3>2, StaleTypes DEF FewLeftovers
  <2> QED
    BY <2>4, <2>5
<1> QED
  BY <1>4, <1>5, <1>6 DEF Reconcile

\* A refused patch adds an entry and is a fault.
LEMMA PatchFailsLeftover ==
    ASSUME Timely, StaleInv, loop = "attachment", Waiting, PatchFails,
           UNCHANGED <<loop, now, behind, waited, cached, queued, begun, stale>>
    PROVE  CopyAge' /\ FewLeftovers'
<1>0. WaitTypeOK /\ StampIsLatest /\ CopyAge /\ FewLeftovers
  BY DEF StaleInv
<1>1. due' = now /\ pc' = "idle" /\ faults' = faults + 1 /\ UNCHANGED obj
  BY DEF PatchFails, AddRateLimited, Fault
<1>2. /\ RecentStamp' = RecentStamp /\ OldStamp' = OldStamp /\ Waiting' = Waiting
      /\ LastingChange' = LastingChange /\ LastingEntry' = LastingEntry
  BY <1>1 DEF RecentStamp, OldStamp, Waiting, LastingChange, LastingEntry, Before
<1>3. CopyAge'
  BY <1>0, <1>1, <1>2 DEF CopyAge
<1>4. (LastingChange => cached # obj) /\ (LastingEntry => queued)
  BY DEF LastingChange, LastingEntry
<1>5. Leftover' <= Leftover + 1 /\ Leftover' \in Int /\ Leftover \in Int
  BY <1>1, <1>2, <1>4 DEF Leftover, One
<1> QED
  BY <1>0, <1>1, <1>2, <1>3, <1>5, StaleTypes DEF FewLeftovers

\* The new stamp makes the copy an old one, unless it has just been refreshed.
LEMMA StampLeftover ==
    ASSUME Timely, StaleInv, WaitTypeOK', StampIsLatest', loop = "attachment", Stamp
    PROVE  CopyAge' /\ FewLeftovers'
<1>0. WaitTypeOK /\ StampIsLatest /\ CopyAge /\ FewLeftovers
  BY DEF StaleInv
<1>1. CASE PatchFails /\ UNCHANGED begun
  BY <1>0, <1>1, PatchFailsLeftover DEF Stamp, clockVars, CopyAge
<1>2. CASE /\ obj' = [obj EXCEPT !.stamp = WholeSeconds(now)]
           /\ begun' = now /\ pc' = "answer" /\ UNCHANGED <<due, faults>>
  <2>1. /\ pc = "stamp" /\ Waiting /\ Waiting' /\ obj'.edits = obj.edits
        /\ obj'.stamp = WholeSeconds(now) /\ obj'.stamp # Never
        /\ UNCHANGED <<loop, now, behind, waited, cached, queued, stale>>
    BY <1>0, <1>2, StampIsClose DEF Stamp, clockVars, CopyAge, Waiting, WaitTypeOK, Restore, Never
  <2>2. obj'.stamp \in Nat /\ now - 1 <= obj'.stamp /\ obj'.stamp <= now
    BY <1>0, <2>1, StampIsClose, StaleTypes
  <2>3. obj.stamp <= now
    BY <1>0, StaleTypes, StampBounds DEF Never
  <2>4. ~RecentStamp' => ~RateLimited(cached)
    <3> SUFFICES ASSUME RateLimited(cached) PROVE RecentStamp'
      OBVIOUS
    <3>1. now - begun <= MaxLag /\ cached.stamp # Never /\ now - cached.stamp < 10
      BY <1>0, <2>1 DEF CopyAge, RateLimited, Second
    <3>2. obj.stamp # Never
      BY <1>0, <3>1, StaleTypes DEF CopyAge, Never
    <3>3. ~OldStamp
      BY <1>0, <3>1, <3>2, StaleTypes, StampBounds DEF OldStamp, Second
    <3>4. cached.stamp = obj.stamp
      BY <1>0, <2>1, <3>3 DEF CopyAge
    <3> QED
      BY <1>0, <1>2, <2>1, <3>1, <3>2, <3>4, StaleTypes, StampBounds DEF RecentStamp
  <2>5. cached.stamp <= obj'.stamp
    <3>1. CASE obj.stamp = Never
      BY <1>0, <2>1, <2>2, <3>1, StaleTypes DEF CopyAge, Never
    <3>2. CASE obj.stamp # Never
      <4>1. begun \in Nat /\ begun <= now /\ obj.stamp = WholeSeconds(begun)
        BY <1>0, <3>2, StampBounds DEF StampIsLatest
      <4>2. obj.stamp <= obj'.stamp
        BY <1>0, <2>1, <4>1, StaleTypes, StampsAreOrdered
      <4> QED
        BY <1>0, <2>2, <4>2, StaleTypes DEF CopyAge
    <3> QED
      BY <3>1, <3>2
  <2>6. CopyAge'
    BY <1>0, <1>2, <2>1, <2>2, <2>4, <2>5, StaleTypes
       DEF CopyAge, RateLimited, OldStamp, Second
  <2>7. ~LastingChange' /\ ~LastingEntry'
    BY <1>0, <1>2, <2>1, <2>2, StaleTypes
       DEF LastingChange, LastingEntry, Before, Second, Timely
  <2>8. Near' => due # Never
    BY <1>2 DEF Near
  <2>9. cached.stamp # obj.stamp => Near' = Near /\ ~RecentStamp
    BY <1>0, <1>2, <2>1, StaleTypes DEF Near, CopyAge, OldStamp, RecentStamp, Second, Timely
  <2>10. Leftover' <= Leftover /\ Leftover' \in Int /\ Leftover \in Int
    BY <1>0, <1>2, <2>1, <2>4, <2>7, <2>8, <2>9 DEF Leftover, One
  <2> QED
    BY <1>0, <1>2, <2>1, <2>6, <2>10, StaleTypes DEF FewLeftovers
<1> QED
  BY <1>1, <1>2 DEF Stamp

\* The other patches of a check follow its stamp at once, and no new delayed entry
\* is near.
LEMMA OutcomeLeftover ==
    ASSUME Timely, StaleInv, WaitTypeOK', StampIsLatest', loop = "attachment",
           NotYet \/ Succeeds \/ Broken \/ Transition \/ FailRestore
    PROVE  CopyAge' /\ FewLeftovers'
<1>0. WaitTypeOK /\ StampIsLatest /\ CopyAge /\ FewLeftovers
  BY DEF StaleInv
<1>1. /\ pc \in {"answer", "transition", "fail"} /\ Waiting
      /\ UNCHANGED <<loop, now, behind, waited, cached, queued, begun, stale>>
      /\ obj'.stamp = obj.stamp /\ obj'.edits = obj.edits
      /\ faults' \in Nat /\ faults <= faults'
  BY <1>0, StaleTypes
     DEF NotYet, Succeeds, Broken, Transition, FailRestore, PatchFails, Fault, clockVars,
         CopyAge, WaitTypeOK, Restore
<1>2. CASE PatchFails
  BY <1>1, <1>2, PatchFailsLeftover
<1>3. CASE ~PatchFails
  <2>1. pc' \in {"idle", "transition", "fail"} /\ (pc' # "idle" => Waiting')
    BY <1>0, <1>1, <1>3
       DEF NotYet, Succeeds, Broken, Transition, FailRestore, Waiting, WaitTypeOK, Restore
  <2>2. RecentStamp' = RecentStamp /\ OldStamp' = OldStamp
    BY <1>1 DEF RecentStamp, OldStamp
  <2>3. pc' = "transition" => pc = "answer"
    BY <1>1, <1>3 DEF NotYet, Succeeds, Broken, Transition, FailRestore
  <2>4. CopyAge'
    BY <1>0, <1>1, <2>1, <2>2, <2>3 DEF CopyAge
  <2>5. CASE ~Waiting'
    BY <1>0, <1>1, <2>4, <2>5, StaleTypes DEF FewLeftovers
  <2>6. CASE Waiting'
    <3>1. CASE pc = "answer"
      <4>1. now = begun
        BY <1>0, <3>1 DEF CopyAge
      <4>2. Near' => Near
        <5>1. \/ due' = due
              \/ due' > now + MaxLag /\ due' \in Int
          <6>1. CASE NotYet
            <7>1. obj.retries + 1 \in Nat
              BY <1>0 DEF WaitTypeOK, Restore
            <7>2. now + Delay(obj.retries + 1) > now + MaxLag
              BY <1>0, <7>1, DelayIsLong, StaleTypes DEF Timely, Second
            <7> QED
              BY <1>0, <1>3, <6>1, <7>1, <7>2, DelayIsLong, StaleTypes DEF NotYet, AddAfter
          <6>2. CASE ~NotYet
            BY <1>3, <3>1, <6>2 DEF Succeeds, Broken, Transition, FailRestore
          <6> QED
            BY <6>1, <6>2
        <5> QED
          BY <1>0, <1>1, <5>1, StaleTypes DEF Near
      <4>3. obj.stamp # Never => ~LastingChange' /\ ~LastingEntry'
        BY <1>0, <1>1, <4>1, NothingLasts, StaleTypes, StampBounds
           DEF LastingChange, LastingEntry, Before, Second, Timely
      <4>4. obj.stamp # Never
        BY <1>0, <4>1, StaleTypes DEF StampIsLatest, Never
      <4>5. Leftover' <= Leftover /\ Leftover' \in Int /\ Leftover \in Int
        BY <1>0, <1>1, <2>1, <2>2, <3>1, <4>2, <4>3, <4>4 DEF Leftover, One
      <4> QED
        BY <1>0, <1>1, <2>4, <2>6, <4>5, StaleTypes DEF FewLeftovers
    <3>2. CASE pc # "answer"
      <4>1. obj'.phase \in {"next", "failed"}
        BY <1>0, <1>1, <1>3, <3>2
           DEF NotYet, Succeeds, Broken, Transition, FailRestore, WaitTypeOK, Restore
      <4> QED
        BY <2>6, <4>1 DEF Waiting
    <3> QED
      BY <3>1, <3>2
  <2> QED
    BY <2>5, <2>6
<1> QED
  BY <1>2, <1>3

\* While the volume is awaited, a check on an old copy is rare
\* (handleWaitingForAttachmentPhase, phases.go:363), provided that the cache and the
\* queue are not slower than half of the rate limit.
THEOREM FewStaleChecks == Timely => (Spec => []StaleChecksAreFew)
<1> SUFFICES ASSUME Timely PROVE Spec => []StaleChecksAreFew
  OBVIOUS
<1>1. Init => StaleInv
  <2> SUFFICES ASSUME Init PROVE StaleInv
    OBVIOUS
  <2>1. WaitTypeOK /\ StampIsLatest
    BY WaitAssumption DEF Init, WaitTypeOK, Restore, StampIsLatest, Never
  <2>2. CopyAge
    BY DEF Init, CopyAge, Waiting, Never
  <2>3. Leftover <= 1 /\ Leftover \in Int
    BY DEF Init, Leftover, LastingChange, One
  <2> QED
    BY <2>1, <2>2, <2>3 DEF StaleInv, FewLeftovers, Init
<1>2. StaleInv /\ WaitTypeOK' /\ StampIsLatest' /\ [Next]_waitVars => StaleInv'
  <2> SUFFICES ASSUME StaleInv, WaitTypeOK', StampIsLatest', [Next]_waitVars
               PROVE  StaleInv'
    OBVIOUS
  <2>1. loop' = loop
    BY DEF Next, Worker, Reconcile, Stamp, NotYet, Succeeds, Transition, Broken, FailRestore,
           Sync, DelayedAdd, UserEdit, Crash, Tick, Left, waitVars, clockVars
  <2> SUFFICES ASSUME loop = "attachment" PROVE CopyAge' /\ FewLeftovers'
    BY <2>1 DEF StaleInv
  <2>2. CASE Left \/ UNCHANGED waitVars
    <3>1. UNCHANGED waitVars
      BY <2>2 DEF Left
    <3> QED
      BY <3>1 DEF waitVars, StaleInv, CopyAge, FewLeftovers, Leftover, LastingChange,
                  LastingEntry, Near, OldStamp, RecentStamp, Before, Waiting, RateLimited
  <2> QED
    BY <2>2, SyncLeftover, DelayedLeftover, EditLeftover, CrashLeftover, TickLeftover,
       ReconcileLeftover, StampLeftover, OutcomeLeftover DEF Next, Worker
<1>3. StaleInv => StaleChecksAreFew
  BY DEF StaleInv, FewLeftovers, StaleChecksAreFew
<1> QED
  BY <1>1, <1>2, <1>3, WaitTypeCorrect, LatestStamp, PTL DEF Spec

----------------------------------------------------------------------------
(***************************************************************************)
(* The wait is bounded.                                                    *)
(***************************************************************************)

\* The bound on the attempts and the longest attempt of a loop.
Attempts(l) == IF l = "attachment" THEN MaxAttachmentWait ELSE MaxSSHWait
Dial(l) == IF l = "ssh" THEN MaxDial ELSE 0

\* The longest time from one check to the next.
Round(l) == (IF l = "ssh" /\ MaxDial > 5 * Second THEN MaxDial ELSE 5 * Second)
            + MaxLag + MaxBusy

\* The time that n counted attempts and f faults stand for.
Spent(l, f, n) == (n + f * (Attempts(l) + 1)) * Round(l)

\* At most the number of attempts after which no check is made.
Capped(l, n) == IF n <= Attempts(l) THEN n ELSE Attempts(l)

\* What the copy and the delayed entry keep of the past.
CopyIsEarlier ==
    /\ Waiting \/ pc = "idle"
    /\ cached.edits <= obj.edits /\ cached.stamp <= obj.stamp
    /\ Waiting /\ due # Never => now <= due
    /\ pc = "stamp" /\ cached.retries > obj.retries => ~RateLimited(cached)
    /\ pc = "answer" /\ cached.retries > obj.retries => cached.stamp # obj.stamp

\* The copy does not have the latest attempts: it will in time, and no more time
\* passes until then, however many checks are made.
UnseenAttempts ==
    obj.retries > cached.retries =>
        now + (MaxLag - behind) <= Spent(loop, faults, cached.retries + 1)

\* An idle worker: an entry, an event or a delayed entry brings the next check.
NextCheckComes ==
    pc = "idle" /\ obj.retries <= cached.retries =>
        \/ queued /\ now <= waited + Spent(loop, faults, obj.retries)
        \/ cached # obj /\ now + (MaxLag - behind) <= Spent(loop, faults, obj.retries)
        \/ due # Never /\ due <= Spent(loop, faults, obj.retries)

\* When the latest check was made.
CheckInTime ==
    /\ pc \in {"idle", "stamp"} /\ obj.stamp # Never =>
        begun + 5 * Second <= Spent(loop, faults, obj.retries)
    /\ pc = "stamp" => now <= MaxBusy + Spent(loop, faults, Capped(loop, obj.retries))
    /\ pc = "answer" =>
        /\ begun \in Nat /\ now <= begun + Dial(loop)
        /\ begun <= MaxBusy + Spent(loop, faults, Capped(loop, obj.retries))
    /\ pc = "transition" =>
        /\ begun \in Nat /\ now <= begun + Dial(loop)
        /\ begun <= MaxBusy + Spent(loop, faults, Attempts(loop))
    /\ pc = "fail" => now <= Spent(loop, faults, obj.retries + 1)

InTime == Waiting => UnseenAttempts /\ NextCheckComes /\ CheckInTime

BoundInv == WaitTypeOK /\ StampIsLatest /\ CopyIsEarlier /\ InTime

\* A round has room for the longest attempt, the rate limit and both delays.
LEMMA RoundLength ==
    ASSUME NEW l \in {"attachment", "ssh"}
    PROVE  /\ Attempts(l) \in Nat /\ Attempts(l) >= 1 /\ Dial(l) \in Nat /\ Round(l) \in Nat
           /\ Dial(l) + MaxLag + MaxBusy <= Round(l)
           /\ 5 * Second + MaxLag + MaxBusy <= Round(l)
BY WaitAssumption DEF Attempts, Dial, Round, Second

\* Products of natural numbers, for the solver.
LEMMA Products ==
    /\ \A m, n \in Nat : m * n \in Nat
    /\ \A m, n, k \in Nat : m <= n => m * k <= n * k
    /\ \A n, k \in Nat : (n + 1) * k = n * k + k
OBVIOUS

\* One more attempt stands for one more round, one more fault for as many rounds as
\* there are attempts and one.
LEMMA SpentGrows ==
    ASSUME NEW l \in {"attachment", "ssh"}, NEW f \in Nat, NEW n \in Nat
    PROVE  /\ Spent(l, f, n) \in Nat
           /\ Spent(l, f, n + 1) = Spent(l, f, n) + Round(l)
           /\ Spent(l, f + 1, n) = Spent(l, f, n + Attempts(l) + 1)
           /\ \A m \in Nat : m <= n => Spent(l, f, m) <= Spent(l, f, n)
<1> DEFINE k == Attempts(l) + 1
<1>1. k \in Nat /\ Round(l) \in Nat
  BY RoundLength
<1>2. f * k \in Nat /\ (f + 1) * k = f * k + k
  BY <1>1, Products
<1> HIDE DEF k
<1> DEFINE F == f * k
<1>3. F \in Nat /\ (f + 1) * k = F + k
  BY <1>2
<1>4. \A m \in Nat : Spent(l, f, m) = (m + F) * Round(l)
  BY DEF Spent, k
<1>5. Spent(l, f + 1, n) = (n + (F + k)) * Round(l)
  BY <1>3 DEF Spent, k
<1> HIDE DEF F
<1>6. Spent(l, f, n) \in Nat
  BY <1>1, <1>3, <1>4, Products
<1>7. Spent(l, f, n + 1) = Spent(l, f, n) + Round(l)
  <2>1. n + 1 + F = (n + F) + 1 /\ n + F \in Nat /\ n + 1 \in Nat
    BY <1>3
  <2> QED
    BY <1>1, <1>4, <2>1, Products
<1>8. Spent(l, f + 1, n) = Spent(l, f, n + Attempts(l) + 1)
  <2>1. n + Attempts(l) + 1 \in Nat /\ n + Attempts(l) + 1 + F = n + (F + k)
    BY <1>3, RoundLength DEF k
  <2> QED
    BY <1>4, <1>5, <2>1
<1>9. ASSUME NEW m \in Nat, m <= n PROVE Spent(l, f, m) <= Spent(l, f, n)
  <2>1. m + F \in Nat /\ n + F \in Nat /\ m + F <= n + F
    BY <1>3, <1>9
  <2> QED
    BY <1>1, <1>4, <2>1, Products
<1> QED
  BY <1>6, <1>7, <1>8, <1>9

\* The numbers that the argument is about.
LEMMA BoundTypes ==
    ASSUME WaitTypeOK
    PROVE  /\ loop \in {"attachment", "ssh"} /\ obj.retries \in Nat /\ cached.retries \in Nat
           /\ Capped(loop, obj.retries) \in Nat /\ Capped(loop, obj.retries) <= obj.retries
           /\ Capped(loop, obj.retries) <= Attempts(loop)
           /\ obj.retries <= Attempts(loop) => Capped(loop, obj.retries) = obj.retries
           /\ obj.retries > Attempts(loop) => Capped(loop, obj.retries) = Attempts(loop)
<1>1. loop \in {"attachment", "ssh"} /\ obj.retries \in Nat /\ cached.retries \in Nat
  BY DEF WaitTypeOK, Restore
<1>2. Attempts(loop) \in Nat
  BY <1>1, RoundLength
<1> QED
  BY <1>1, <1>2 DEF Capped

\* An idle worker is in time.
LEMMA IdleInTime ==
    ASSUME BoundInv, Waiting, pc = "idle"
    PROVE  /\ now <= waited + Spent(loop, faults, obj.retries)
           /\ now <= MaxBusy + Spent(loop, faults, obj.retries)
           /\ obj.retries > cached.retries => now <= Spent(loop, faults, cached.retries + 1)
<1>0. WaitTypeOK /\ CopyIsEarlier /\ UnseenAttempts /\ NextCheckComes
  BY DEF BoundInv, InTime
<1> DEFINE S(n) == Spent(loop, faults, n)
           c == cached.retries + 1
<1>a. c \in Nat /\ obj.retries \in Nat
  BY <1>0, BoundTypes
<1>b. \A n \in Nat : S(n) \in Nat /\ \A m \in Nat : m <= n => S(m) <= S(n)
  BY <1>0, StaleTypes, BoundTypes, SpentGrows
<1>1. S(obj.retries) \in Nat /\ S(c) \in Nat
  <2> HIDE DEF S, c
  <2> QED
    BY <1>a, <1>b
<1>2. CASE obj.retries > cached.retries
  <2>1. now <= Spent(loop, faults, cached.retries + 1)
    BY <1>0, <1>1, <1>2, StaleTypes DEF UnseenAttempts
  <2>2. S(c) <= S(obj.retries)
    <3>1. c <= obj.retries
      BY <1>0, <1>2, BoundTypes
    <3> HIDE DEF S, c
    <3> QED
      BY <1>a, <1>b, <3>1
  <2> QED
    BY <1>0, <1>1, <2>1, <2>2, StaleTypes
<1>3. CASE obj.retries <= cached.retries
  BY <1>0, <1>1, <1>3, StaleTypes, BoundTypes DEF NextCheckComes, CopyIsEarlier
<1> QED
  BY <1>0, <1>2, <1>3, BoundTypes

\* A fault pays for all the time since the counter was reset.
LEMMA FaultPays ==
    ASSUME BoundInv, Waiting
    PROVE  /\ now <= Spent(loop, faults + 1, obj.retries)
           /\ obj.stamp # Never => begun + 5 * Second <= Spent(loop, faults + 1, obj.retries)
<1>0. WaitTypeOK /\ StampIsLatest /\ CheckInTime
  BY DEF BoundInv, InTime
<1> DEFINE A == Attempts(loop)
           r == obj.retries
           S(n) == Spent(loop, faults, n)
<1>1. /\ r \in Nat /\ A \in Nat /\ A >= 1 /\ faults \in Nat /\ loop \in {"attachment", "ssh"}
      /\ Capped(loop, r) \in Nat /\ Capped(loop, r) <= r
  BY <1>0, BoundTypes, RoundLength, StaleTypes
<1>2. /\ S(r) \in Nat /\ S(r + 1) = S(r) + Round(loop) /\ S(r + 2) = S(r) + 2 * Round(loop)
      /\ S(r + 2) <= Spent(loop, faults + 1, r)
      /\ S(A) \in Nat /\ S(A) + Round(loop) <= Spent(loop, faults + 1, r)
      /\ S(Capped(loop, r)) \in Nat /\ S(Capped(loop, r)) <= S(r)
      /\ Spent(loop, faults + 1, r) \in Nat
  <2>1. S(r) \in Nat /\ S(r + 1) = S(r) + Round(loop)
    BY <1>1, SpentGrows
  <2>2. r + 1 \in Nat /\ (r + 1) + 1 = r + 2 /\ r + 2 \in Nat /\ A + 1 \in Nat
        /\ r + A + 1 \in Nat /\ r + 2 <= r + A + 1 /\ A + 1 <= r + A + 1
    BY <1>1
  <2>a. \A n \in Nat : S(n + 1) = S(n) + Round(loop)
    BY <1>1, SpentGrows, ZenonT(60)
  <2>3. S((r + 1) + 1) = S(r + 1) + Round(loop)
    <3> HIDE DEF S, r
    <3> QED
      BY <2>a, <2>2, Zenon
  <2>4. Spent(loop, faults + 1, r) = S(r + A + 1)
    BY <1>1, SpentGrows
  <2>5. S(r + 2) <= S(r + A + 1) /\ S(A + 1) <= S(r + A + 1) /\ S(r + A + 1) \in Nat
    BY <1>1, <2>2, SpentGrows
  <2>6. S(A) \in Nat /\ S(A + 1) = S(A) + Round(loop)
    BY <1>1, SpentGrows
  <2>7. S(Capped(loop, r)) \in Nat /\ S(Capped(loop, r)) <= S(r)
    BY <1>1, SpentGrows
  <2>8. Round(loop) \in Nat
    BY <1>1, RoundLength
  <2> HIDE DEF A, r, S
  <2> QED
    BY <2>1, <2>2, <2>3, <2>4, <2>5, <2>6, <2>7, <2>8
<1>3. /\ Round(loop) \in Nat /\ Dial(loop) \in Nat /\ MaxBusy <= Round(loop)
      /\ Dial(loop) + MaxBusy <= Round(loop) /\ 5 * Second + MaxBusy <= Round(loop)
  BY <1>0, BoundTypes, RoundLength, StaleTypes DEF Second
<1>4. now \in Nat /\ MaxBusy \in Nat /\ begun \in Int /\ begun <= now
  BY <1>0, StaleTypes DEF StampIsLatest
<1>5. pc \in {"idle", "stamp", "answer", "transition", "fail"}
  BY <1>0 DEF WaitTypeOK
<1>6. CASE pc = "idle"
  <2>1. now <= MaxBusy + S(r)
    BY <1>6, IdleInTime
  <2>2. obj.stamp # Never => begun + 10 <= S(r)
    BY <1>0, <1>6 DEF CheckInTime, Second
  <2> HIDE DEF A, r, S
  <2> QED
    BY <1>2, <1>3, <1>4, <2>1, <2>2 DEF r, Second
<1>7. CASE pc = "stamp"
  <2>1. now <= MaxBusy + S(Capped(loop, r)) /\ (obj.stamp # Never => begun + 10 <= S(r))
    BY <1>0, <1>7 DEF CheckInTime, Second
  <2> HIDE DEF A, r, S
  <2> QED
    BY <1>2, <1>3, <1>4, <2>1 DEF r, Second
<1>8. CASE pc = "answer"
  <2>1. now <= begun + Dial(loop) /\ begun <= MaxBusy + S(Capped(loop, r))
    BY <1>0, <1>8 DEF CheckInTime
  <2> HIDE DEF A, r, S
  <2> QED
    BY <1>2, <1>3, <1>4, <2>1 DEF r, Second
<1>9. CASE pc = "transition"
  <2>1. now <= begun + Dial(loop) /\ begun <= MaxBusy + S(A)
    BY <1>0, <1>9 DEF CheckInTime
  <2> HIDE DEF A, r, S
  <2> QED
    BY <1>2, <1>3, <1>4, <2>1 DEF r, Second
<1>10. CASE pc = "fail"
  <2>1. now <= S(r + 1)
    BY <1>0, <1>10 DEF CheckInTime
  <2> HIDE DEF A, r, S
  <2> QED
    BY <1>2, <1>3, <1>4, <2>1 DEF r, Second
<1> QED
  BY <1>5, <1>6, <1>7, <1>8, <1>9, <1>10

\* The watch event brings the entry that a check takes.
LEMMA SyncInTime ==
    ASSUME BoundInv, Sync
    PROVE  CopyIsEarlier' /\ InTime'
<1>0. WaitTypeOK /\ CopyIsEarlier /\ CheckInTime
  BY DEF BoundInv, InTime, Sync
<1>1. /\ cached' = obj /\ queued' = TRUE /\ Waiting
      /\ UNCHANGED <<loop, now, obj, waited, due, pc, begun, faults>>
  BY DEF Sync
<1>2. CopyIsEarlier'
  BY <1>0, <1>1, StaleTypes, BoundTypes DEF CopyIsEarlier, Waiting
<1>3. UnseenAttempts'
  BY <1>0, <1>1, BoundTypes DEF UnseenAttempts
<1>4. NextCheckComes'
  BY <1>1, IdleInTime DEF NextCheckComes
<1>5. CheckInTime'
  BY <1>0, <1>1 DEF CheckInTime
<1> QED
  BY <1>2, <1>3, <1>4, <1>5 DEF InTime

\* The delayed entry is added no later than it is due.
LEMMA DelayedInTime ==
    ASSUME BoundInv, DelayedAdd
    PROVE  CopyIsEarlier' /\ InTime'
<1>0. WaitTypeOK /\ CopyIsEarlier /\ UnseenAttempts /\ CheckInTime
  BY DEF BoundInv, InTime, DelayedAdd
<1>1. /\ queued' = TRUE /\ due' = Never /\ Waiting
      /\ UNCHANGED <<loop, now, behind, waited, obj, cached, pc, begun, faults>>
  BY DEF DelayedAdd, clockVars
<1>2. CopyIsEarlier'
  BY <1>0, <1>1 DEF CopyIsEarlier, Waiting, RateLimited
<1>3. UnseenAttempts'
  BY <1>0, <1>1 DEF UnseenAttempts
<1>4. NextCheckComes'
  BY <1>1, IdleInTime DEF NextCheckComes
<1>5. CheckInTime'
  BY <1>0, <1>1 DEF CheckInTime
<1> QED
  BY <1>2, <1>3, <1>4, <1>5 DEF InTime

\* An edit delays nothing.
LEMMA EditInTime ==
    ASSUME BoundInv, UserEdit
    PROVE  CopyIsEarlier' /\ InTime'
<1>0. WaitTypeOK /\ CopyIsEarlier /\ UnseenAttempts /\ NextCheckComes /\ CheckInTime
  BY DEF BoundInv, InTime, UserEdit
<1>1. /\ obj'.edits = obj.edits + 1 /\ obj'.stamp = obj.stamp /\ obj'.phase = obj.phase
      /\ obj'.retries = obj.retries /\ Waiting
      /\ UNCHANGED <<loop, now, behind, waited, cached, queued, due, pc, begun, faults>>
  BY <1>0 DEF UserEdit, clockVars, WaitTypeOK, Restore
<1>2. CopyIsEarlier'
  BY <1>0, <1>1, StaleTypes DEF CopyIsEarlier, Waiting, RateLimited
<1>3. UnseenAttempts'
  BY <1>0, <1>1 DEF UnseenAttempts
<1>4. NextCheckComes'
  <2>1. cached' # obj'
    BY <1>0, <1>1, StaleTypes DEF CopyIsEarlier
  <2> QED
    BY <1>0, <1>1, <2>1 DEF NextCheckComes
<1>5. CheckInTime'
  BY <1>0, <1>1 DEF CheckInTime
<1> QED
  BY <1>2, <1>3, <1>4, <1>5 DEF InTime

\* A crash is a fault, and pays for the time before it.
LEMMA CrashInTime ==
    ASSUME BoundInv, Crash
    PROVE  CopyIsEarlier' /\ InTime'
<1>0. WaitTypeOK
  BY DEF BoundInv
<1>1. /\ cached' = obj /\ due' = Never /\ pc' = "idle" /\ faults' = faults + 1
      /\ queued' = TRUE /\ waited' = 0 /\ Waiting /\ UNCHANGED <<loop, now, obj, begun>>
  BY DEF Crash, Fault
<1>2. CopyIsEarlier'
  BY <1>0, <1>1, StaleTypes DEF CopyIsEarlier, Waiting
<1>3. UnseenAttempts'
  BY <1>0, <1>1, BoundTypes DEF UnseenAttempts
<1>4. /\ now <= Spent(loop, faults + 1, obj.retries)
      /\ obj.stamp # Never => begun + 5 * Second <= Spent(loop, faults + 1, obj.retries)
      /\ Spent(loop, faults + 1, obj.retries) \in Nat
  <2>1. faults + 1 \in Nat
    BY <1>0, StaleTypes
  <2> QED
    BY <1>0, <1>1, <2>1, FaultPays, BoundTypes, SpentGrows
<1>5. NextCheckComes' /\ CheckInTime'
  BY <1>1, <1>4 DEF NextCheckComes, CheckInTime
<1> QED
  BY <1>2, <1>3, <1>5 DEF InTime

\* Time stops for the entry, the event and the delayed entry alike.
LEMMA TickInTime ==
    ASSUME BoundInv, Tick, WaitTypeOK'
    PROVE  CopyIsEarlier' /\ InTime'
<1>0. WaitTypeOK /\ CopyIsEarlier /\ UnseenAttempts /\ NextCheckComes /\ CheckInTime
  BY DEF BoundInv, InTime, Tick
<1>1. /\ pc = "idle" \/ (pc = "answer" /\ loop = "ssh" /\ now < begun + MaxDial)
      /\ due = Never \/ now < due
      /\ now' = now + 1
      /\ cached # obj => behind' = behind + 1
      /\ pc = "idle" => waited' = IF queued THEN waited + 1 ELSE waited
      /\ Waiting
      /\ UNCHANGED <<loop, obj, cached, queued, due, pc, begun, faults>>
  BY DEF Tick
<1>2. CopyIsEarlier'
  BY <1>0, <1>1, StaleTypes DEF CopyIsEarlier, Waiting
<1>3. Spent(loop, faults, obj.retries) \in Nat
  BY <1>0, StaleTypes, BoundTypes, SpentGrows
<1>4. UnseenAttempts'
  <2> SUFFICES ASSUME obj.retries > cached.retries
               PROVE  now' + (MaxLag - behind') <= Spent(loop, faults, cached.retries + 1)
    BY <1>1 DEF UnseenAttempts
  <2>1. cached # obj
    BY <1>0, BoundTypes
  <2> QED
    BY <1>0, <1>1, <2>1, StaleTypes DEF UnseenAttempts
<1>5. NextCheckComes'
  BY <1>0, <1>1, <1>3, StaleTypes DEF NextCheckComes
<1>6. CheckInTime'
  BY <1>0, <1>1, StaleTypes, WaitAssumption DEF CheckInTime, Dial
<1> QED
  BY <1>2, <1>4, <1>5, <1>6 DEF InTime

\* A reconcile makes the check, gives up, or leaves a delayed entry for the end of
\* the rate limit.
LEMMA ReconcileInTime ==
    ASSUME BoundInv, Reconcile, WaitTypeOK'
    PROVE  CopyIsEarlier' /\ InTime'
<1>0. WaitTypeOK /\ StampIsLatest /\ CopyIsEarlier /\ UnseenAttempts /\ CheckInTime
  BY DEF BoundInv, InTime, Reconcile
<1>1. /\ Waiting /\ pc = "idle"
      /\ UNCHANGED <<loop, now, obj, cached, behind, begun, faults>>
  BY DEF Reconcile
<1>2. UnseenAttempts'
  BY <1>0, <1>1 DEF UnseenAttempts
<1>3. /\ now <= MaxBusy + Spent(loop, faults, obj.retries)
      /\ obj.retries > cached.retries => now <= Spent(loop, faults, cached.retries + 1)
  BY <1>1, IdleInTime
<1>4. /\ Spent(loop, faults, obj.retries) \in Nat
      /\ Spent(loop, faults, obj.retries + 1) = Spent(loop, faults, obj.retries) + Round(loop)
  <2>1. loop \in {"attachment", "ssh"} /\ faults \in Nat /\ obj.retries \in Nat
    BY <1>0, StaleTypes, BoundTypes
  <2> QED
    BY <2>1, SpentGrows
<1>5. MaxBusy <= Round(loop) /\ Round(loop) \in Nat /\ Attempts(loop) = MaxWait
  BY <1>0, StaleTypes, BoundTypes, RoundLength DEF Second, Attempts, MaxWait
<1>6. CASE pc' = "fail" /\ UNCHANGED due
  <2>1. now <= Spent(loop, faults, obj.retries + 1)
    BY <1>0, <1>3, <1>4, <1>5, StaleTypes
  <2>2. CopyIsEarlier'
    BY <1>0, <1>1, <1>6 DEF CopyIsEarlier, Waiting
  <2> QED
    BY <1>1, <1>2, <1>6, <2>1, <2>2 DEF InTime, NextCheckComes, CheckInTime
<1>7. CASE /\ RateLimited(cached) /\ AddAfter(cached.stamp + 5 * Second) /\ UNCHANGED pc
  <2>1. /\ now < cached.stamp + 10 /\ cached.stamp # Never /\ obj.stamp # Never
        /\ cached.stamp + 10 <= begun + 10 /\ cached.stamp + 10 \in Nat
    BY <1>0, <1>7, StaleTypes, StampBounds DEF RateLimited, Second, CopyIsEarlier, Never
  <2>2. due' # Never /\ due' <= cached.stamp + 10 /\ (now <= due' \/ ~(now <= due \/ due = Never))
    BY <1>0, <1>7, <2>1, StaleTypes DEF AddAfter, Second, Never
  <2>3. CopyIsEarlier'
    BY <1>0, <1>1, <1>7, <2>2 DEF CopyIsEarlier, Waiting, RateLimited
  <2>4. due' <= Spent(loop, faults, obj.retries)
    <3>1. begun + 10 <= Spent(loop, faults, obj.retries)
      BY <1>0, <1>1, <2>1 DEF CheckInTime, Second
    <3>2. due' \in Int /\ begun \in Int /\ cached.stamp \in Int
      BY <1>0, <1>7, <2>1, StaleTypes DEF AddAfter, Second
    <3> QED
      BY <1>4, <2>1, <2>2, <3>1, <3>2
  <2>5. NextCheckComes'
    BY <1>1, <1>7, <2>2, <2>4 DEF NextCheckComes
  <2>6. CheckInTime'
    BY <1>0, <1>1, <1>7 DEF CheckInTime
  <2> QED
    BY <1>2, <2>3, <2>5, <2>6 DEF InTime
<1>8. CASE /\ cached.retries < MaxWait /\ ~RateLimited(cached) /\ pc' = "stamp" /\ UNCHANGED due
  <2>1. CopyIsEarlier'
    BY <1>0, <1>1, <1>8 DEF CopyIsEarlier, Waiting, RateLimited
  <2>2. now <= MaxBusy + Spent(loop, faults, Capped(loop, obj.retries))
    <3> DEFINE S(n) == Spent(loop, faults, n)
               c == cached.retries + 1
               A == Attempts(loop)
    <3>1. c \in Nat /\ A \in Nat /\ c <= A
      BY <1>0, <1>5, <1>8, BoundTypes, RoundLength
    <3>2. \A n \in Nat : S(n) \in Nat /\ \A m \in Nat : m <= n => S(m) <= S(n)
      BY <1>0, StaleTypes, BoundTypes, SpentGrows
    <3>3. CASE obj.retries <= A
      BY <1>0, <1>3, <3>3, BoundTypes
    <3>4. CASE obj.retries > A
      <4>1. now <= S(c)
        BY <1>0, <1>3, <3>1, <3>4, BoundTypes, RoundLength
      <4>2. S(c) <= S(A) /\ S(c) \in Nat /\ S(A) \in Nat
        <5> HIDE DEF S, c, A
        <5> QED
          BY <3>1, <3>2
      <4>3. Capped(loop, obj.retries) = A
        BY <1>0, <3>4, BoundTypes
      <4> HIDE DEF S, c, A
      <4>4. now <= MaxBusy + S(A)
        BY <1>0, <4>1, <4>2, StaleTypes
      <4> QED
        BY <4>3, <4>4 DEF S
    <3> QED
      BY <1>0, <3>1, <3>3, <3>4, BoundTypes
  <2>3. NextCheckComes' /\ CheckInTime'
    BY <1>0, <1>1, <1>8, <2>2 DEF NextCheckComes, CheckInTime
  <2> QED
    BY <1>2, <2>1, <2>3 DEF InTime
<1>9. MaxWait \in Nat /\ cached.retries \in Nat
  BY <1>0, WaitAssumption, BoundTypes DEF MaxWait
<1> QED
  BY <1>1, <1>6, <1>7, <1>8, <1>9 DEF Reconcile

\* A refused patch is a fault, and pays for the time before it.
LEMMA PatchFailsInTime ==
    ASSUME BoundInv, Waiting, PatchFails,
           UNCHANGED <<loop, now, behind, waited, cached, queued, begun>>
    PROVE  CopyIsEarlier' /\ InTime'
<1>0. WaitTypeOK /\ CopyIsEarlier /\ UnseenAttempts
  BY DEF BoundInv, InTime
<1>1. due' = now /\ pc' = "idle" /\ faults' = faults + 1 /\ UNCHANGED obj
  BY DEF PatchFails, AddRateLimited, Fault
<1>2. CopyIsEarlier'
  BY <1>0, <1>1, StaleTypes DEF CopyIsEarlier, Waiting
<1>3. UnseenAttempts'
  <2> SUFFICES ASSUME obj.retries > cached.retries
               PROVE  now + (MaxLag - behind) <= Spent(loop, faults + 1, cached.retries + 1)
    BY <1>1 DEF UnseenAttempts
  <2> DEFINE S(n) == Spent(loop, faults, n)
             c == cached.retries + 1
             d == c + Attempts(loop) + 1
  <2>1. now + (MaxLag - behind) <= S(c)
    BY <1>0 DEF UnseenAttempts
  <2>2. c \in Nat /\ d \in Nat /\ c <= d
    BY <1>0, BoundTypes, RoundLength
  <2>3. \A n \in Nat : /\ S(n) \in Nat /\ \A m \in Nat : m <= n => S(m) <= S(n)
                       /\ Spent(loop, faults + 1, n) = S(n + Attempts(loop) + 1)
    <3>1. loop \in {"attachment", "ssh"} /\ faults \in Nat
      BY <1>0, StaleTypes, BoundTypes
    <3> QED
      BY <3>1, SpentGrows
  <2>4. Spent(loop, faults + 1, c) = S(d)
    <3> HIDE DEF S, c
    <3> QED
      BY <2>2, <2>3, Zenon
  <2>5. S(c) \in Nat /\ S(d) \in Nat /\ S(c) <= S(d)
    <3> HIDE DEF S, c, d
    <3> QED
      BY <2>2, <2>3
  <2> HIDE DEF S, d
  <2> QED
    BY <1>0, <2>1, <2>4, <2>5, StaleTypes
<1>4. /\ now <= Spent(loop, faults + 1, obj.retries)
      /\ obj.stamp # Never => begun + 5 * Second <= Spent(loop, faults + 1, obj.retries)
  BY FaultPays
<1>5. NextCheckComes' /\ CheckInTime'
  BY <1>0, <1>1, <1>4, StaleTypes DEF NextCheckComes, CheckInTime, Never
<1> QED
  BY <1>2, <1>3, <1>5 DEF InTime

\* The stamp is written at the time of the check.
LEMMA StampInTime ==
    ASSUME BoundInv, Stamp, WaitTypeOK'
    PROVE  CopyIsEarlier' /\ InTime'
<1>0. /\ WaitTypeOK /\ StampIsLatest /\ CopyIsEarlier /\ UnseenAttempts /\ CheckInTime
      /\ Waiting /\ pc = "stamp"
  BY DEF BoundInv, InTime, Stamp, CopyIsEarlier
<1>1. CASE PatchFails /\ UNCHANGED begun
  BY <1>0, <1>1, PatchFailsInTime DEF Stamp, clockVars
<1>2. CASE /\ obj' = [obj EXCEPT !.stamp = WholeSeconds(now)]
           /\ begun' = now /\ pc' = "answer" /\ UNCHANGED <<due, faults>>
  <2>1. /\ Waiting' /\ obj'.edits = obj.edits /\ obj'.retries = obj.retries
        /\ obj'.stamp = WholeSeconds(now)
        /\ UNCHANGED <<loop, now, behind, waited, cached, queued>>
    BY <1>0, <1>2 DEF Stamp, clockVars, Waiting, WaitTypeOK, Restore
  <2>2. obj'.stamp \in Nat /\ now - 1 <= obj'.stamp /\ obj'.stamp <= now
    BY <1>0, <2>1, StampIsClose, StaleTypes
  <2>3. obj.stamp <= obj'.stamp
    <3>1. CASE obj.stamp = Never
      BY <2>2, <3>1 DEF Never
    <3>2. CASE obj.stamp # Never
      <4>1. begun \in Nat /\ begun <= now /\ obj.stamp = WholeSeconds(begun)
        BY <1>0, <3>2, StampBounds DEF StampIsLatest
      <4> QED
        BY <1>0, <2>1, <4>1, StaleTypes, StampsAreOrdered
    <3> QED
      BY <3>1, <3>2
  <2>4. cached.retries > obj.retries => cached.stamp # obj'.stamp
    BY <1>0, <2>2, StaleTypes DEF CopyIsEarlier, RateLimited, Second, Never
  <2>5. CopyIsEarlier'
    BY <1>0, <1>2, <2>1, <2>2, <2>3, <2>4, StaleTypes DEF CopyIsEarlier, Waiting
  <2>6. UnseenAttempts'
    BY <1>0, <1>2, <2>1 DEF UnseenAttempts
  <2>7. NextCheckComes' /\ CheckInTime'
    BY <1>0, <1>2, <2>1, StaleTypes, BoundTypes, RoundLength DEF NextCheckComes, CheckInTime
  <2> QED
    BY <2>5, <2>6, <2>7 DEF InTime
<1> QED
  BY <1>1, <1>2 DEF Stamp

\* An attempt is counted at the end of its round.
LEMMA NotYetInTime ==
    ASSUME BoundInv, NotYet, WaitTypeOK'
    PROVE  CopyIsEarlier' /\ InTime'
<1>0. /\ WaitTypeOK /\ StampIsLatest /\ CopyIsEarlier /\ UnseenAttempts /\ CheckInTime
      /\ Waiting /\ pc = "answer"
  BY DEF BoundInv, InTime, NotYet, CopyIsEarlier
<1>1. CASE PatchFails
  BY <1>0, <1>1, PatchFailsInTime DEF NotYet, clockVars
<1>2. CASE /\ obj' = [obj EXCEPT !.retries = @ + 1]
           /\ AddAfter(now + Delay(obj.retries + 1))
           /\ pc' = "idle" /\ UNCHANGED faults
  <2> DEFINE S(n) == Spent(loop, faults, n)
             r == obj.retries
             c == cached.retries
  <2>1. /\ Waiting' /\ obj'.edits = obj.edits /\ obj'.retries = r + 1
        /\ obj'.stamp = obj.stamp
        /\ UNCHANGED <<loop, now, behind, waited, cached, queued, begun>>
    BY <1>0, <1>2 DEF NotYet, clockVars, Waiting, WaitTypeOK, Restore
  <2>2. Waiting' /\ due' # Never => now <= due'
    <3>1. obj.retries + 1 \in Nat
      BY <1>0 DEF WaitTypeOK, Restore
    <3> QED
      BY <1>0, <1>2, <3>1, DelayIsLong, StaleTypes DEF AddAfter, CopyIsEarlier, Second
  <2>3. CopyIsEarlier'
    BY <1>0, <1>2, <2>1, <2>2 DEF CopyIsEarlier
  <2>4. r \in Nat /\ c \in Nat /\ loop \in {"attachment", "ssh"} /\ faults \in Nat
    BY <1>0, BoundTypes, StaleTypes
  <2>5. S(r) \in Nat /\ S(r + 1) = S(r) + Round(loop)
    BY <2>4, SpentGrows
  <2>6. begun \in Nat /\ now <= begun + Dial(loop) /\ begun <= MaxBusy + S(r)
    <3>1. S(Capped(loop, r)) <= S(r) /\ S(Capped(loop, r)) \in Nat
      BY <1>0, <2>4, BoundTypes, SpentGrows
    <3> HIDE DEF S
    <3>2. begun \in Nat /\ now <= begun + Dial(loop) /\ begun <= MaxBusy + S(Capped(loop, r))
      BY <1>0 DEF CheckInTime, S
    <3> QED
      BY <1>0, <2>5, <3>1, <3>2, StaleTypes
  <2>7. /\ now + (MaxLag - behind) <= S(r + 1)
        /\ begun + 10 <= S(r + 1)
    <3>1. /\ Dial(loop) \in Nat /\ Round(loop) \in Nat
          /\ Dial(loop) + MaxLag + MaxBusy <= Round(loop)
          /\ 10 + MaxLag + MaxBusy <= Round(loop)
      BY <2>4, RoundLength DEF Second
    <3> HIDE DEF S
    <3> QED
      BY <1>0, <2>5, <2>6, <3>1, StaleTypes
  <2>8. UnseenAttempts'
    <3> SUFFICES ASSUME r + 1 > c PROVE now + (MaxLag - behind) <= S(c + 1)
      BY <1>2, <2>1 DEF UnseenAttempts
    <3>1. CASE r = c
      BY <2>7, <3>1
    <3>2. CASE r > c
      BY <1>0, <3>2 DEF UnseenAttempts
    <3> QED
      BY <2>4, <3>1, <3>2
  <2>9. NextCheckComes'
    <3> SUFFICES ASSUME r + 1 <= c
                 PROVE  cached # obj' /\ now + (MaxLag - behind) <= S(r + 1)
      BY <1>2, <2>1 DEF NextCheckComes
    <3>1. cached.stamp # obj'.stamp
      BY <1>0, <2>1, <2>4 DEF CopyIsEarlier
    <3> QED
      BY <2>7, <3>1
  <2>10. CheckInTime'
    BY <1>2, <2>1, <2>7 DEF CheckInTime, Second
  <2> QED
    BY <2>3, <2>8, <2>9, <2>10 DEF InTime
<1> QED
  BY <1>1, <1>2 DEF NotYet

\* A success, and a failure of the restore, end the wait, or are refused.
LEMMA EndInTime ==
    ASSUME BoundInv, Succeeds \/ Broken \/ Transition \/ FailRestore, WaitTypeOK'
    PROVE  CopyIsEarlier' /\ InTime'
<1>0. WaitTypeOK /\ StampIsLatest /\ CopyIsEarlier /\ UnseenAttempts /\ CheckInTime /\ Waiting
  BY DEF BoundInv, InTime, Succeeds, Broken, Transition, FailRestore, CopyIsEarlier
<1>1. /\ UNCHANGED <<loop, now, behind, waited, cached, queued, begun>>
      /\ obj'.stamp = obj.stamp /\ obj'.edits = obj.edits
  BY <1>0 DEF Succeeds, Broken, Transition, FailRestore, PatchFails, clockVars, WaitTypeOK,
              Restore
<1> DEFINE S(n) == Spent(loop, faults, n)
           r == obj.retries
           A == Attempts(loop)
<1>2. r \in Nat /\ A \in Nat /\ loop \in {"attachment", "ssh"} /\ faults \in Nat
  BY <1>0, BoundTypes, StaleTypes, RoundLength
<1>3. CASE PatchFails
  BY <1>0, <1>1, <1>3, PatchFailsInTime
<1>4. CASE Succeeds
  <2>1. /\ pc = "answer" /\ pc' = "transition" /\ UNCHANGED due
        /\ obj'.retries = 0 \/ (obj'.retries = r /\ faults' = faults + 1)
        /\ faults' \in {faults, faults + 1} /\ obj'.phase = obj.phase
    BY <1>0, <1>4 DEF Succeeds, Fault, WaitTypeOK, Restore
  <2>2. CopyIsEarlier'
    BY <1>0, <1>1, <2>1 DEF CopyIsEarlier, Waiting
  <2>3. \A n \in Nat : S(n) \in Nat /\ S(n) <= Spent(loop, faults', n)
    <3> SUFFICES ASSUME NEW n \in Nat PROVE S(n) \in Nat /\ S(n) <= Spent(loop, faults', n)
      OBVIOUS
    <3>1. S(n) \in Nat /\ Spent(loop, faults + 1, n) = S(n + A + 1)
      BY <1>2, SpentGrows
    <3>2. n + A + 1 \in Nat /\ n <= n + A + 1
      BY <1>2
    <3>3. S(n) <= S(n + A + 1)
      BY <1>2, <3>2, SpentGrows
    <3> QED
      BY <2>1, <3>1, <3>3
  <2>4. begun \in Nat /\ now <= begun + Dial(loop) /\ begun <= MaxBusy + S(A)
    <3>1. S(Capped(loop, r)) <= S(A) /\ S(Capped(loop, r)) \in Nat /\ S(A) \in Nat
      BY <1>0, <1>2, BoundTypes, SpentGrows
    <3> HIDE DEF S
    <3>2. begun \in Nat /\ now <= begun + Dial(loop) /\ begun <= MaxBusy + S(Capped(loop, r))
      BY <1>0, <2>1 DEF CheckInTime, S
    <3> QED
      BY <1>0, <3>1, <3>2, StaleTypes
  <2>5. CheckInTime'
    <3>1. begun <= MaxBusy + Spent(loop, faults', A)
      <4>1. S(A) \in Nat /\ S(A) <= Spent(loop, faults', A) /\ Spent(loop, faults', A) \in Nat
        <5>1. faults' \in Nat
          BY <1>2, <2>1
        <5> QED
          BY <1>2, <2>3, <5>1, SpentGrows
      <4> HIDE DEF S
      <4> QED
        BY <1>0, <2>4, <4>1, StaleTypes
    <3> QED
      BY <1>1, <2>1, <2>4, <3>1 DEF CheckInTime
  <2>6. UnseenAttempts'
    <3> SUFFICES ASSUME obj'.retries > cached.retries
                 PROVE  now + (MaxLag - behind) <= Spent(loop, faults', cached.retries + 1)
      BY <1>1 DEF UnseenAttempts
    <3>1. obj'.retries = r
      BY <1>0, <2>1, BoundTypes
    <3>2. now + (MaxLag - behind) <= S(cached.retries + 1)
      BY <1>0, <3>1 DEF UnseenAttempts
    <3> DEFINE c == cached.retries + 1
    <3>3. c \in Nat
      BY <1>0, BoundTypes
    <3>4. faults' \in Nat
      BY <1>2, <2>1
    <3>5. S(c) \in Nat /\ S(c) <= Spent(loop, faults', c) /\ Spent(loop, faults', c) \in Nat
      <4> HIDE DEF c
      <4> QED
        BY <1>2, <2>3, <3>3, <3>4, SpentGrows
    <3> HIDE DEF S
    <3> QED
      BY <1>0, <3>2, <3>5, StaleTypes
  <2> QED
    BY <2>1, <2>2, <2>5, <2>6 DEF InTime, NextCheckComes
<1>5. CASE Broken
  <2>1. pc = "answer" /\ pc' = "fail" /\ UNCHANGED <<obj, due, faults>>
    BY <1>5 DEF Broken
  <2>2. CopyIsEarlier' /\ UnseenAttempts' /\ NextCheckComes'
    BY <1>0, <1>1, <2>1 DEF CopyIsEarlier, UnseenAttempts, NextCheckComes, Waiting
  <2>3. now <= S(r + 1)
    <3>1. /\ S(Capped(loop, r)) <= S(r) /\ S(Capped(loop, r)) \in Nat /\ S(r) \in Nat
          /\ S(r + 1) = S(r) + Round(loop)
      BY <1>0, <1>2, BoundTypes, SpentGrows, ZenonT(60)
    <3>2. begun \in Nat /\ now <= begun + Dial(loop) /\ begun <= MaxBusy + S(Capped(loop, r))
      BY <1>0, <2>1 DEF CheckInTime
    <3>3. Dial(loop) \in Nat /\ Round(loop) \in Nat /\ Dial(loop) + MaxLag + MaxBusy <= Round(loop)
      BY <1>2, RoundLength
    <3> HIDE DEF S
    <3> QED
      BY <1>0, <3>1, <3>2, <3>3, StaleTypes
  <2> QED
    BY <1>1, <2>1, <2>2, <2>3 DEF InTime, CheckInTime
<1>6. CASE (Transition \/ FailRestore) /\ ~PatchFails
  <2>1. pc' = "idle" /\ ~Waiting'
    BY <1>0, <1>6 DEF Transition, FailRestore, Waiting, WaitTypeOK, Restore
  <2> QED
    BY <1>0, <1>1, <2>1 DEF CopyIsEarlier, InTime
<1> QED
  BY <1>3, <1>4, <1>5, <1>6

\* The wait for the volume and for SSH is bounded by the number of attempts
\* (handleWaitingForAttachmentPhase, handleSSHConnectingPhase and
\* incrementRetryAndRequeue), for all bounds, delays, edits and faults.
THEOREM BoundedWait == Spec => []WaitIsBounded
<1>1. Init => CopyIsEarlier /\ InTime
  <2> SUFFICES ASSUME Init PROVE CopyIsEarlier /\ InTime
    OBVIOUS
  <2>1. CopyIsEarlier
    BY DEF Init, CopyIsEarlier, Waiting, Never
  <2>2. Spent(loop, faults, obj.retries) \in Nat
    BY SpentGrows DEF Init
  <2>3. UnseenAttempts /\ NextCheckComes /\ CheckInTime
    BY <2>2 DEF Init, UnseenAttempts, NextCheckComes, CheckInTime, Never
  <2> QED
    BY <2>1, <2>3 DEF InTime
<1>2. BoundInv /\ WaitTypeOK' /\ StampIsLatest' /\ [Next]_waitVars => BoundInv'
  <2> SUFFICES ASSUME BoundInv, WaitTypeOK', StampIsLatest', [Next]_waitVars
               PROVE  CopyIsEarlier' /\ InTime'
    BY DEF BoundInv
  <2>1. CASE Left \/ UNCHANGED waitVars
    <3>1. UNCHANGED waitVars
      BY <2>1 DEF Left
    <3> QED
      BY <3>1 DEF waitVars, BoundInv, CopyIsEarlier, InTime, UnseenAttempts, NextCheckComes,
                  CheckInTime, Waiting, RateLimited
  <2> QED
    BY <2>1, SyncInTime, DelayedInTime, EditInTime, CrashInTime, TickInTime, ReconcileInTime,
       StampInTime, NotYetInTime, EndInTime DEF Next, Worker
<1>3. BoundInv => WaitIsBounded
  <2> SUFFICES ASSUME BoundInv, Waiting, pc # "transition"
               PROVE  now <= Spent(loop, faults, obj.retries + 1)
    BY DEF WaitIsBounded, Spent, Round, Attempts, MaxWait
  <2>0. WaitTypeOK /\ CheckInTime
    BY DEF BoundInv, InTime
  <2> DEFINE S(n) == Spent(loop, faults, n)
             r == obj.retries
  <2>1. r \in Nat /\ loop \in {"attachment", "ssh"} /\ faults \in Nat
    BY <2>0, BoundTypes, StaleTypes
  <2>2. /\ S(Capped(loop, r)) <= S(r) /\ S(Capped(loop, r)) \in Nat /\ S(r) \in Nat
        /\ S(r + 1) = S(r) + Round(loop)
    BY <2>0, <2>1, BoundTypes, SpentGrows, ZenonT(60)
  <2>3. Dial(loop) \in Nat /\ Round(loop) \in Nat /\ Dial(loop) + MaxLag + MaxBusy <= Round(loop)
    BY <2>1, RoundLength
  <2>4. pc \in {"idle", "stamp", "answer", "fail"}
    BY <2>0 DEF WaitTypeOK
  <2>5. CASE pc = "idle"
    <3>1. now <= MaxBusy + S(r)
      BY <2>5, IdleInTime
    <3> HIDE DEF S
    <3> QED
      BY <2>0, <2>2, <2>3, <3>1, StaleTypes DEF S
  <2>6. CASE pc = "stamp"
    <3>1. now <= MaxBusy + S(Capped(loop, r))
      BY <2>0, <2>6 DEF CheckInTime
    <3> HIDE DEF S
    <3> QED
      BY <2>0, <2>2, <2>3, <3>1, StaleTypes DEF S
  <2>7. CASE pc = "answer"
    <3>1. begun \in Nat /\ now <= begun + Dial(loop) /\ begun <= MaxBusy + S(Capped(loop, r))
      BY <2>0, <2>7 DEF CheckInTime
    <3> HIDE DEF S
    <3> QED
      BY <2>0, <2>2, <2>3, <3>1, StaleTypes DEF S
  <2>8. CASE pc = "fail"
    BY <2>0, <2>8 DEF CheckInTime
  <2> QED
    BY <2>4, <2>5, <2>6, <2>7, <2>8
<1> QED
  BY <1>1, <1>2, <1>3, WaitTypeCorrect, LatestStamp, PTL DEF Spec, BoundInv
=============================================================================
