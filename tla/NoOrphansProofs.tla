------------------------- MODULE NoOrphansProofs --------------------------
(***************************************************************************)
(* Nothing is left behind.  NoOrphans is about the stored objects; what    *)
(* makes it inductive is what the worker may conclude from a copy that can *)
(* be old.  Two facts carry the proof:                                     *)
(*                                                                         *)
(*  - a worker that goes on to the phase handlers holds a copy with the    *)
(*    finalizer, and then the stored object still has it (WorkIsAnchored), *)
(*    because only a worker that has seen the deletion removes it;         *)
(*  - a worker that has seen the deletion never meets, under the same      *)
(*    name, an object that acts again (DeletionIsFinal): a new object gets *)
(*    its finalizer only from a copy that is exactly the stored object.    *)
(***************************************************************************)
EXTENDS FileRestoreProofs

\* An object for which the reconciler would run a phase handler.
Acts(o) == o.exists /\ ~o.deleting /\ o.finalizer

Anchored(r) == vmfr[r].exists /\ vmfr[r].finalizer

\* The worker is on its way to the removal of the finalizer.
Finalizing == pc = "finalize" \/ then = "finalize" \/ (pc = "dispatch" /\ loc.deleting)

Unprotected == pc = "dispatch" /\ ~loc.finalizer

UidsBounded ==
    /\ loc.uid <= creates
    /\ \A r \in Restores : vmfr[r].uid <= creates /\ cvmfr[r].uid <= creates

CacheUnused ==
    "vmfr" \notin Lagging => \A r \in Restores : ~cvmfr[r].exists /\ ~cvmfr[r].deleting

CachedIsAnchored == \A r \in Restores : Acts(cvmfr[r]) => Anchored(r)

WorkIsAnchored == cur # None /\ ~Finalizing /\ ~Unprotected => Anchored(cur)

DeletionIsSeen == \A r \in Restores : cvmfr[r].deleting => ~Acts(vmfr[r])

DeletionIsFinal == cur # None /\ Finalizing => ~Acts(vmfr[cur]) /\ ~Acts(cvmfr[cur])

CopyIsOlder ==
    pc = "dispatch" /\ ~loc.deleting /\ cvmfr[cur].deleting
        /\ vmfr[cur].exists /\ vmfr[cur].uid = loc.uid => vmfr[cur].deleting

\* What the worker and the cache may know of the stored objects.
ObjectInv ==
    /\ UidsBounded /\ CacheUnused
    /\ CachedIsAnchored /\ WorkIsAnchored
    /\ DeletionIsSeen /\ DeletionIsFinal /\ CopyIsOlder

OnlySnapshotsHaveDVs == \A r \in Restores : dv[r] # "none" => Kind[r] = "snapshot"

CleanBeforeRemoval ==
    /\ pc = "deleteDV" /\ then = "finalize" => cur \notin vm.volumes \cup vm.disks
    /\ pc = "finalize" => ~Holds(cur)

\* What the restores hold.
HoldInv == vm.exists /\ OnlySnapshotsHaveDVs /\ CleanBeforeRemoval /\ NoOrphans

\* The reads of the VM are coherent and its writes succeed.
CoherentVM == "vm" \notin Lagging /\ Faults \cap {"vmapi", "dvapi", "vmdelete"} = {}

(***************************************************************************)
(* Most steps leave the keys of all objects alone.                         *)
(***************************************************************************)
KeysKept ==
    /\ \A r \in Restores : SameKey(vmfr'[r], vmfr[r]) /\ SameKey(cvmfr'[r], cvmfr[r])
    /\ creates' = creates

WorkerReturns == pc' = "idle" /\ cur' = None /\ loc' = NoVMFR /\ then' = "none"

WorkerGoesOn ==
    /\ cur \in Restores /\ cur' = cur /\ pc' # "dispatch" /\ ~Unprotected
    /\ SameKey(loc', loc) \/ SameKey(loc', vmfr[cur])
    /\ Finalizing' <=> Finalizing

WorkerRests == pc' = pc /\ cur' = cur /\ then' = then /\ SameKey(loc', loc)

\* Such a step keeps what is known of the stored objects.
LEMMA ObjectInvKept ==
    ASSUME TypeOK, ObjectInv, KeysKept,
           WorkerReturns \/ WorkerGoesOn \/ WorkerRests
    PROVE  ObjectInv'
<1> USE DEF TypeOK, KeysKept, SameKey
<1>1. (cur' = None /\ loc' = NoVMFR /\ pc' = "idle") \/ cur' = cur
  BY DEF WorkerReturns, WorkerGoesOn, WorkerRests
<1>2. UidsBounded'
  <2>1. loc'.uid <= creates'
    <3>1. CASE WorkerReturns
      BY <3>1, NoVMFRKey DEF WorkerReturns
    <3>2. CASE WorkerGoesOn
      BY <3>2 DEF WorkerGoesOn, ObjectInv, UidsBounded
    <3>3. CASE WorkerRests
      BY <3>3 DEF WorkerRests, ObjectInv, UidsBounded
    <3> QED BY <3>1, <3>2, <3>3
  <2> QED BY <2>1 DEF ObjectInv, UidsBounded
<1>3. CacheUnused' /\ CachedIsAnchored' /\ DeletionIsSeen'
  BY DEF ObjectInv, CacheUnused, CachedIsAnchored, DeletionIsSeen, Acts, Anchored
<1>4. WorkIsAnchored' /\ DeletionIsFinal'
  <2>1. CASE WorkerReturns
    BY <2>1 DEF WorkerReturns, WorkIsAnchored, DeletionIsFinal
  <2>2. CASE WorkerGoesOn
    BY <2>2 DEF WorkerGoesOn, ObjectInv, WorkIsAnchored, DeletionIsFinal, Acts, Anchored
  <2>3. CASE WorkerRests
    <3>1. (Finalizing' <=> Finalizing) /\ (Unprotected' <=> Unprotected)
      BY <2>3 DEF WorkerRests, Finalizing, Unprotected
    <3> QED
      BY <2>3, <3>1 DEF WorkerRests, ObjectInv, WorkIsAnchored, DeletionIsFinal, Acts, Anchored
  <2> QED BY <2>1, <2>2, <2>3
<1>5. CopyIsOlder'
  <2>1. CASE WorkerReturns \/ WorkerGoesOn
    BY <2>1 DEF WorkerReturns, WorkerGoesOn, CopyIsOlder
  <2>2. CASE WorkerRests
    BY <2>2 DEF WorkerRests, ObjectInv, CopyIsOlder, ControlOK
  <2> QED BY <2>1, <2>2
<1> QED
  BY <1>2, <1>3, <1>4, <1>5 DEF ObjectInv

\* Such a step keeps what the restores hold when it leaves the VM and the
\* DataVolumes alone and does not come nearer to the removal of the finalizer.
LEMMA HoldInvKept ==
    ASSUME TypeOK, HoldInv, KeysKept, vm' = vm, dv' = dv,
           pc' \in {"deleteDV", "finalize"} => UNCHANGED <<pc, cur, then>>
    PROVE  HoldInv'
<1>1. OnlySnapshotsHaveDVs'
  BY DEF HoldInv, OnlySnapshotsHaveDVs
<1>2. NoOrphans'
  BY DEF HoldInv, NoOrphans, Holds, KeysKept, SameKey
<1>3. CleanBeforeRemoval'
  BY DEF HoldInv, CleanBeforeRemoval, Holds
<1> QED
  BY <1>1, <1>2, <1>3 DEF HoldInv

\* A step that leaves the stored and the cached objects alone keeps their keys.
LEMMA UnchangedKeys ==
    ASSUME UNCHANGED <<vmfr, cvmfr, creates>>
    PROVE  KeysKept
  BY DEF KeysKept, SameKey

\* So does a status update of the object in work.
LEMMA UpdatedKeys ==
    ASSUME TypeOK, cur \in Restores, NEW new, SameKey(new, vmfr[cur]),
           vmfr' = [vmfr EXCEPT ![cur] = new], UNCHANGED <<cvmfr, creates>>
    PROVE  KeysKept
  BY DEF KeysKept, SameKey, TypeOK

\* A step of the environment keeps both invariants.
LEMMA QuietStep ==
    ASSUME TypeOK, ObjectInv,
           UNCHANGED <<vmfr, cvmfr, creates, vm, dv, pc, cur, then, loc>>
    PROVE  ObjectInv' /\ (HoldInv => HoldInv')
<1>1. KeysKept /\ WorkerRests
  BY UnchangedKeys DEF WorkerRests, SameKey
<1> QED
  BY <1>1, ObjectInvKept, HoldInvKept

\* A step of the worker that writes neither the VM nor a DataVolume keeps them.
LEMMA WorkerStepKept ==
    ASSUME TypeOK, ObjectInv, KeysKept, WorkerReturns \/ WorkerGoesOn,
           UNCHANGED <<vm, dv>>, pc' \notin {"deleteDV", "finalize"}
    PROVE  ObjectInv' /\ (HoldInv => HoldInv')
  BY ObjectInvKept, HoldInvKept

\* The phase handlers that do not write the VM, and their helpers, keep them.
LEMMA HandlerSteps ==
    ASSUME TypeOK, ObjectInv,
           \/ Settled \/ TransitionPhase \/ FailRestore \/ HandleInit
           \/ HandleHotplugging \/ HandleWaitingForAttachment \/ HandleSSHConnecting
           \/ HandleRestoring \/ RestoreDone \/ RestoreTimeout \/ HandleCleanup
           \/ VerifyUnplug
    PROVE  ObjectInv' /\ (HoldInv => HoldInv')
<1> DEFINE Goes == WorkerReturns \/ WorkerGoesOn
           Frame == UNCHANGED <<vm, dv, cvmfr, creates>> /\ pc' \notin {"deleteDV", "finalize"}
<1> USE DEF TypeOK, ControlOK, Dispatched, Return, Continue, ContinueWithVM, PatchStatus,
        PatchFails, api, caches, WorkerReturns, WorkerGoesOn, Finalizing, Unprotected, SameKey
<1>1. CASE Settled
  <2>1. Goes /\ Frame /\ vmfr' = vmfr
    BY <1>1 DEF Settled
  <2> QED
    BY <2>1, UnchangedKeys, WorkerStepKept
<1>2. CASE TransitionPhase
  <2> DEFINE new == WithPhase(vmfr[cur], then)
  <2>1. cur \in Restores /\ SameKey(new, vmfr[cur])
    BY <1>2, UpdateKey DEF TransitionPhase, Phases
  <2> HIDE DEF new
  <2>2. Goes /\ Frame
    BY <1>2, <2>1 DEF TransitionPhase, new
  <2>3. vmfr' = vmfr \/ vmfr' = [vmfr EXCEPT ![cur] = new]
    BY <1>2 DEF TransitionPhase, new
  <2> QED
    BY <2>1, <2>2, <2>3, UnchangedKeys, UpdatedKeys, WorkerStepKept
<1>3. CASE FailRestore
  <2> DEFINE new == WithPhase(vmfr[cur], "Failed")
  <2>1. cur \in Restores /\ SameKey(new, vmfr[cur])
    BY <1>3, UpdateKey DEF FailRestore, Phases
  <2> HIDE DEF new
  <2>2. Goes /\ Frame
    BY <1>3, <2>1 DEF FailRestore, new
  <2>3. vmfr' = vmfr \/ vmfr' = [vmfr EXCEPT ![cur] = new]
    BY <1>3 DEF FailRestore, new
  <2> QED
    BY <2>1, <2>2, <2>3, UnchangedKeys, UpdatedKeys, WorkerStepKept
<1>4. CASE HandleInit
  <2> DEFINE new == WithMountPath(vmfr[cur])
  <2>1. cur \in Restores /\ SameKey(new, vmfr[cur])
    BY <1>4, UpdateKey DEF HandleInit, Phases
  <2> HIDE DEF new
  <2>2. Goes /\ Frame
    BY <1>4, <2>1 DEF HandleInit, new
  <2>3. vmfr' = vmfr \/ vmfr' = [vmfr EXCEPT ![cur] = new]
    BY <1>4 DEF HandleInit, new
  <2> QED
    BY <2>1, <2>2, <2>3, UnchangedKeys, UpdatedKeys, WorkerStepKept
<1>5. CASE HandleRestoring
  <2>1. Goes /\ Frame /\ vmfr' = vmfr
    BY <1>5 DEF HandleRestoring
  <2> QED
    BY <2>1, UnchangedKeys, WorkerStepKept
<1>6. CASE RestoreDone
  <2> DEFINE new == Restored(vmfr[cur], cur \in Automatic)
  <2>1. cur \in Restores /\ SameKey(new, vmfr[cur])
    BY <1>6, UpdateKey DEF RestoreDone
  <2> HIDE DEF new
  <2>2. Goes /\ Frame
    BY <1>6, <2>1 DEF RestoreDone, new
  <2>3. vmfr' = vmfr \/ vmfr' = [vmfr EXCEPT ![cur] = new]
    BY <1>6 DEF RestoreDone, new
  <2> QED
    BY <2>1, <2>2, <2>3, UnchangedKeys, UpdatedKeys, WorkerStepKept
<1>7. CASE RestoreTimeout
  <2>1. Goes /\ Frame /\ vmfr' = vmfr
    BY <1>7 DEF RestoreTimeout
  <2> QED
    BY <2>1, UnchangedKeys, WorkerStepKept
<1>8. CASE HandleCleanup
  <2>1. Goes /\ Frame /\ vmfr' = vmfr
    BY <1>8 DEF HandleCleanup
  <2> QED
    BY <2>1, UnchangedKeys, WorkerStepKept
<1>9. CASE VerifyUnplug
  <2>1. Goes /\ Frame /\ vmfr' = vmfr
    BY <1>9 DEF VerifyUnplug
  <2> QED
    BY <2>1, UnchangedKeys, WorkerStepKept
<1>10. CASE HandleHotplugging
  <2>1. Goes /\ Frame /\ vmfr' = vmfr
    BY <1>10 DEF HandleHotplugging
  <2> QED
    BY <2>1, UnchangedKeys, WorkerStepKept
<1>11. CASE HandleWaitingForAttachment
  <2> DEFINE stamped == Stamped(vmfr[cur], "attachment")
             retried == Retried(stamped, "attachment")
             reset == RetriesReset(stamped, "attachment")
  <2>1. cur \in Restores /\ vmfr[cur] \in VMFR
    BY <1>11 DEF HandleWaitingForAttachment
  <2>2. SameKey(stamped, vmfr[cur]) /\ stamped \in VMFR
    BY <2>1, UpdateKey, UpdateType DEF Checks
  <2>3. SameKey(retried, vmfr[cur]) /\ SameKey(reset, vmfr[cur])
    <3> HIDE DEF stamped
    <3> QED BY <2>2, UpdateKey DEF Checks
  <2> HIDE DEF stamped, retried, reset
  <2>4. Goes /\ Frame
    BY <1>11, <2>1, <2>2, <2>3 DEF HandleWaitingForAttachment, stamped, retried, reset
  <2>5. vmfr' = vmfr \/ \E new \in {stamped, retried, reset} : vmfr' = [vmfr EXCEPT ![cur] = new]
    BY <1>11 DEF HandleWaitingForAttachment, stamped, retried, reset
  <2> QED
    BY <2>1, <2>2, <2>3, <2>4, <2>5, UnchangedKeys, UpdatedKeys, WorkerStepKept
<1>12. CASE HandleSSHConnecting
  <2> DEFINE stamped == Stamped(vmfr[cur], "ssh")
             retried == Retried(stamped, "ssh")
             reset == RetriesReset(stamped, "ssh")
  <2>1. cur \in Restores /\ vmfr[cur] \in VMFR
    BY <1>12 DEF HandleSSHConnecting
  <2>2. SameKey(stamped, vmfr[cur]) /\ stamped \in VMFR
    BY <2>1, UpdateKey, UpdateType DEF Checks
  <2>3. SameKey(retried, vmfr[cur]) /\ SameKey(reset, vmfr[cur])
    <3> HIDE DEF stamped
    <3> QED BY <2>2, UpdateKey DEF Checks
  <2> HIDE DEF stamped, retried, reset
  <2>4. Goes /\ Frame
    BY <1>12, <2>1, <2>2, <2>3 DEF HandleSSHConnecting, stamped, retried, reset
  <2>5. vmfr' = vmfr \/ \E new \in {stamped, retried, reset} : vmfr' = [vmfr EXCEPT ![cur] = new]
    BY <1>12 DEF HandleSSHConnecting, stamped, retried, reset
  <2> QED
    BY <2>1, <2>2, <2>3, <2>4, <2>5, UnchangedKeys, UpdatedKeys, WorkerStepKept
<1> QED
  BY <1>1, <1>2, <1>3, <1>4, <1>5, <1>6, <1>7, <1>8, <1>9, <1>10, <1>11, <1>12

\* The reading of an object, its deletion, and the two writes of the finalizer.
LEMMA ReconcileSteps ==
    ASSUME TypeOK, ObjectInv,
           \/ \E r \in Restores : Reconcile(r)
           \/ HandleDeletion \/ AddFinalizer \/ RemoveFinalizer
    PROVE  ObjectInv' /\ (HoldInv => HoldInv')
<1>1. ASSUME NEW r \in Restores, Reconcile(r) PROVE ObjectInv' /\ (HoldInv => HoldInv')
  <2>1. /\ UNCHANGED <<vmfr, cvmfr, creates, vm, dv, then>> /\ pc = "idle" /\ then = "none"
        /\ KeysKept
    BY <1>1, UnchangedKeys DEF Reconcile, api, caches, worker, TypeOK, ControlOK
  <2>2. HoldInv => HoldInv'
    BY <1>1, <2>1, HoldInvKept DEF Reconcile, worker
  <2>3. CASE ~CachedVMFR(r).exists
    BY <1>1, <2>1, <2>2, <2>3, QuietStep DEF Reconcile, worker
  <2>4. CASE CachedVMFR(r).exists
    <3>1. pc' = "dispatch" /\ cur' = r /\ loc' = CachedVMFR(r)
      BY <1>1, <2>4 DEF Reconcile
    <3>2. UidsBounded'
      BY <2>1, <3>1 DEF ObjectInv, UidsBounded, CachedVMFR
    <3>3. CacheUnused' /\ CachedIsAnchored' /\ DeletionIsSeen'
      BY <2>1 DEF ObjectInv, CacheUnused, CachedIsAnchored, DeletionIsSeen, Anchored
    <3>4. WorkIsAnchored'
      BY <2>1, <2>4, <3>1 DEF ObjectInv, CachedIsAnchored, WorkIsAnchored, Finalizing,
         Unprotected, Anchored, Acts, CachedVMFR
    <3>5. DeletionIsFinal'
      BY <2>1, <3>1 DEF ObjectInv, CacheUnused, DeletionIsSeen, DeletionIsFinal, Finalizing,
         Acts, CachedVMFR
    <3>6. CopyIsOlder'
      BY <2>1, <3>1 DEF ObjectInv, CacheUnused, CopyIsOlder, CachedVMFR
    <3> QED
      BY <2>2, <3>2, <3>3, <3>4, <3>5, <3>6 DEF ObjectInv
  <2> QED
    BY <2>3, <2>4
<1>2. CASE HandleDeletion
  <2>1. WorkerReturns \/ WorkerGoesOn
    BY <1>2 DEF HandleDeletion, TypeOK, ControlOK, Return, Continue, WorkerReturns,
       WorkerGoesOn, Finalizing, Unprotected, SameKey
  <2>2. /\ UNCHANGED <<vmfr, cvmfr, creates, vm, dv>>
        /\ pc' \notin {"deleteDV", "finalize"}
    BY <1>2 DEF HandleDeletion, api, caches, Return, Continue
  <2> QED
    BY <2>1, <2>2, UnchangedKeys, WorkerStepKept
<1>3. CASE AddFinalizer
  <2>1. /\ WorkerReturns /\ UNCHANGED <<cvmfr, creates, vm, dv>>
        /\ cur \in Restores /\ pc = "dispatch" /\ ~loc.deleting
    BY <1>3 DEF AddFinalizer, Return, WorkerReturns, caches, TypeOK, ControlOK
  <2>2. CASE vmfr' = vmfr
    BY <2>1, <2>2, UnchangedKeys, WorkerStepKept DEF WorkerReturns
  <2>3. CASE vmfr[cur] = loc /\ vmfr' = [vmfr EXCEPT ![cur] = WithFinalizer(vmfr[cur])]
    <3>1. /\ \A r \in Restores \ {cur} : vmfr'[r] = vmfr[r]
          /\ vmfr'[cur] = WithFinalizer(vmfr[cur]) /\ vmfr[cur] \in VMFR
      BY <2>1, <2>3 DEF TypeOK
    <3>2. /\ vmfr'[cur].finalizer /\ vmfr'[cur].exists = vmfr[cur].exists
          /\ vmfr'[cur].uid = vmfr[cur].uid /\ vmfr'[cur].deleting = vmfr[cur].deleting
      BY <3>1, WithFinalizerKey
    <3>3. UidsBounded'
      BY <2>1, <3>1, <3>2, NoVMFRKey DEF ObjectInv, UidsBounded, WorkerReturns, TypeOK
    <3>4. CacheUnused' /\ CachedIsAnchored'
      BY <2>1, <3>1, <3>2 DEF ObjectInv, CacheUnused, CachedIsAnchored, Anchored
    <3>5. DeletionIsSeen'
      BY <2>1, <2>3, <3>1, <3>2 DEF ObjectInv, DeletionIsSeen, CopyIsOlder, Acts
    <3>6. WorkIsAnchored' /\ DeletionIsFinal' /\ CopyIsOlder'
      BY <2>1 DEF WorkerReturns, WorkIsAnchored, DeletionIsFinal, CopyIsOlder
    <3>7. HoldInv => HoldInv'
      BY <2>1, <3>1, <3>2 DEF HoldInv, OnlySnapshotsHaveDVs, CleanBeforeRemoval, NoOrphans,
         Holds, WorkerReturns
    <3> QED
      BY <3>3, <3>4, <3>5, <3>6, <3>7 DEF ObjectInv
  <2> QED
    BY <1>3, <2>2, <2>3 DEF AddFinalizer
<1>4. CASE RemoveFinalizer
  <2>1. /\ WorkerReturns /\ UNCHANGED <<cvmfr, creates, vm, dv>>
        /\ cur \in Restores /\ pc = "finalize"
    BY <1>4 DEF RemoveFinalizer, Return, WorkerReturns, caches, TypeOK, ControlOK
  <2>2. CASE vmfr' = vmfr
    BY <2>1, <2>2, UnchangedKeys, WorkerStepKept DEF WorkerReturns
  <2>3. CASE vmfr' = [vmfr EXCEPT ![cur] = WithoutFinalizer(vmfr[cur])]
    <3>1. /\ \A r \in Restores \ {cur} : vmfr'[r] = vmfr[r]
          /\ vmfr'[cur] = WithoutFinalizer(vmfr[cur]) /\ vmfr[cur] \in VMFR
      BY <2>1, <2>3 DEF TypeOK
    <3>0. ~vmfr'[cur].finalizer /\ vmfr'[cur].uid \in {vmfr[cur].uid, 0}
      BY <3>1, WithoutFinalizerKey, NoVMFRKey
    <3>2. (HoldInv => ~Holds(cur)) /\ ~Acts(cvmfr[cur])
      BY <2>1, ConstantsAssumption DEF HoldInv, CleanBeforeRemoval, ObjectInv,
         DeletionIsFinal, Finalizing
    <3>3. UidsBounded'
      BY <2>1, <3>0, <3>1, NoVMFRKey DEF ObjectInv, UidsBounded, WorkerReturns, TypeOK
    <3>4. CacheUnused' /\ CachedIsAnchored'
      BY <2>1, <3>1, <3>2 DEF ObjectInv, CacheUnused, CachedIsAnchored, Anchored
    <3>5. DeletionIsSeen'
      BY <2>1, <3>0, <3>1 DEF ObjectInv, DeletionIsSeen, Acts
    <3>6. WorkIsAnchored' /\ DeletionIsFinal' /\ CopyIsOlder'
      BY <2>1 DEF WorkerReturns, WorkIsAnchored, DeletionIsFinal, CopyIsOlder
    <3>7. HoldInv => HoldInv'
      BY <2>1, <3>1, <3>2 DEF HoldInv, OnlySnapshotsHaveDVs, CleanBeforeRemoval, NoOrphans,
         Holds, WorkerReturns
    <3> QED
      BY <3>3, <3>4, <3>5, <3>6, <3>7 DEF ObjectInv
  <2> QED
    BY <1>4, <2>2, <2>3 DEF RemoveFinalizer
<1> QED
  BY <1>1, <1>2, <1>3, <1>4

\* The clean-up and the steps that write the VM or a DataVolume leave the objects
\* alone, also when they fail.
LEMMA VolumeObjects ==
    ASSUME TypeOK, ObjectInv,
           CleanupUnmount \/ HotplugVolume \/ UnplugVolume \/ DeleteDataVolume
    PROVE  ObjectInv'
<1> USE DEF TypeOK, ControlOK, Return, Continue, ContinueWithVM, Resume, ResumeAfterError,
        WorkerReturns, WorkerGoesOn, Finalizing, Unprotected, SameKey, caches, api
<1>1. CASE HotplugVolume
  <2>1. UNCHANGED <<vmfr, cvmfr, creates>> /\ (WorkerReturns \/ WorkerGoesOn)
    BY <1>1 DEF HotplugVolume
  <2> QED
    BY <2>1, UnchangedKeys, ObjectInvKept
<1>2. CASE UnplugVolume
  <2>1. UNCHANGED <<vmfr, cvmfr, creates>> /\ (WorkerReturns \/ WorkerGoesOn)
    BY <1>2 DEF UnplugVolume
  <2> QED
    BY <2>1, UnchangedKeys, ObjectInvKept
<1>3. CASE DeleteDataVolume
  <2>1. UNCHANGED <<vmfr, cvmfr, creates>> /\ (WorkerReturns \/ WorkerGoesOn)
    BY <1>3 DEF DeleteDataVolume
  <2> QED
    BY <2>1, UnchangedKeys, ObjectInvKept
<1>4. CASE CleanupUnmount
  <2>1. UNCHANGED <<vmfr, cvmfr, creates>> /\ (WorkerReturns \/ WorkerGoesOn)
    BY <1>4 DEF CleanupUnmount
  <2> QED
    BY <2>1, UnchangedKeys, ObjectInvKept
<1> QED
  BY <1>1, <1>2, <1>3, <1>4

\* With a coherent VM they leave no orphan.
LEMMA VolumeSteps ==
    ASSUME TypeOK, ObjectInv, HoldInv, OneRestoreInv, SeenInv, CoherentVM, [Next]_vars,
           CleanupUnmount \/ HotplugVolume \/ UnplugVolume \/ DeleteDataVolume
    PROVE  HoldInv'
<1>1. /\ CachedVM = vm /\ vm \in VM /\ vm.exists
      /\ ~MayFault("vmapi") /\ ~MayFault("dvapi")
  BY DEF CoherentVM, CachedVM, TypeOK, HoldInv, MayFault
<1>2. CASE HotplugVolume
  <2>1. /\ UNCHANGED <<vmfr, cvmfr, creates>> /\ cur \in Restores /\ then = "none"
        /\ pc = "plug" /\ pc' \notin {"deleteDV", "finalize"}
    BY <1>2 DEF HotplugVolume, TypeOK, ControlOK, caches, Return, Continue
  <2>2. Anchored(cur)
    BY <2>1, ConstantsAssumption DEF ObjectInv, WorkIsAnchored, Finalizing, Unprotected
  <2>3. vm' = vm \/ Plugs
    <3>1. ~UnplugVolume
      BY <2>1 DEF UnplugVolume
    <3>2. ~UserEditVM /\ ~DeleteVM
      BY <1>2, <2>1 DEF HotplugVolume, Return, Continue, UserEditVM, DeleteVM, GuestGone, worker
    <3> QED BY <3>1, <3>2, VMWrites DEF Unplugs, Edits, Deletes
  <2>4. dv' = dv \/ (Kind[cur] = "snapshot" /\ dv' = [dv EXCEPT ![cur] = "provisioning"])
    BY <1>2 DEF HotplugVolume, AwaitsDV
  <2>5. /\ vm'.exists
        /\ \A r \in Restores \ {cur} : /\ r \in vm'.volumes => r \in vm.volumes
                                       /\ r \in vm'.disks => r \in vm.disks
    BY <1>1, <2>3 DEF Plugs
  <2>6. \A r \in Restores \ {cur} : dv'[r] = dv[r]
    BY <2>4 DEF TypeOK
  <2>7. OnlySnapshotsHaveDVs'
    BY <2>4 DEF HoldInv, OnlySnapshotsHaveDVs, TypeOK
  <2>8. NoOrphans'
    BY <2>1, <2>2, <2>5, <2>6 DEF HoldInv, NoOrphans, Holds, Anchored
  <2> QED
    BY <2>1, <2>5, <2>7, <2>8 DEF HoldInv, CleanBeforeRemoval
<1>3. CASE UnplugVolume
  <2>1. /\ UNCHANGED <<vmfr, cvmfr, creates, dv>> /\ cur \in Restores /\ pc = "unplug"
        /\ then \in {"return", "finalize", "verify"}
    BY <1>3 DEF UnplugVolume, TypeOK, ControlOK, caches
  <2>2. /\ PatchVM(Without(seen))
        /\ \/ Kind[cur] = "snapshot" /\ Continue("deleteDV", then) /\ UNCHANGED loc
           \/ Kind[cur] # "snapshot" /\ Resume
    BY <1>1, <1>3 DEF UnplugVolume, WriteFails, Fault
  <2>3. Unplugs
    BY <1>3, <2>2, PatchedOut
  <2>4. /\ cur \notin vm'.volumes \cup vm'.disks
        /\ \A r \in Restores : Holds(r)' => Holds(r)
    BY <2>1, <2>3 DEF Unplugs, Holds
  <2>5. NoOrphans'
    BY <2>1, <2>4 DEF HoldInv, NoOrphans
  <2>6. OnlySnapshotsHaveDVs'
    BY <2>1 DEF HoldInv, OnlySnapshotsHaveDVs
  <2>7. Kind[cur] # "snapshot" => dv[cur] = "none"
    BY <2>1 DEF HoldInv, OnlySnapshotsHaveDVs
  <2>8. CleanBeforeRemoval'
    BY <2>1, <2>2, <2>4, <2>7 DEF CleanBeforeRemoval, Holds, Resume, Return, Continue
  <2> QED
    BY <2>3, <2>5, <2>6, <2>8 DEF HoldInv, Unplugs
<1>4. CASE DeleteDataVolume
  <2>1. /\ UNCHANGED <<vmfr, cvmfr, creates, vm>> /\ cur \in Restores /\ pc = "deleteDV"
        /\ then \in {"return", "finalize", "verify"}
        /\ dv' = [dv EXCEPT ![cur] = "none"] /\ Resume
    BY <1>1, <1>4 DEF DeleteDataVolume, TypeOK, ControlOK, caches, Fault
  <2>4. dv'[cur] = "none" /\ \A r \in Restores \ {cur} : dv'[r] = dv[r]
    BY <2>1 DEF TypeOK
  <2>5. NoOrphans' /\ OnlySnapshotsHaveDVs'
    BY <2>1, <2>4 DEF HoldInv, NoOrphans, OnlySnapshotsHaveDVs, Holds
  <2>6. CleanBeforeRemoval'
    BY <2>1, <2>4 DEF HoldInv, CleanBeforeRemoval, Holds, Resume, Return, Continue
  <2> QED
    BY <2>1, <2>5, <2>6 DEF HoldInv
<1>5. CASE CleanupUnmount
  <2>1. UNCHANGED <<vmfr, cvmfr, creates, vm, dv>> /\ pc' = "unplug"
    BY <1>1, <1>5 DEF CleanupUnmount, ContinueWithVM, api, caches
  <2> QED
    BY <2>1, UnchangedKeys, HoldInvKept
<1> QED
  BY <1>2, <1>3, <1>4, <1>5

\* Users, crashes, watch events and the passing of time.
LEMMA ObjectSteps ==
    ASSUME TypeOK, ObjectInv,
           \/ \E r \in Restores : \/ UserCreate(r) \/ UserDelete(r)
                                  \/ SyncVMFR(r) \/ TimePasses(r)
           \/ Crash
    PROVE  ObjectInv' /\ (HoldInv => HoldInv')
<1> USE DEF caches, worker, api, guest
<1>1. ASSUME NEW r \in Restores, UserCreate(r) PROVE ObjectInv' /\ (HoldInv => HoldInv')
  <2>1. /\ UNCHANGED <<cvmfr, vm, dv, pc, cur, then, loc>> /\ creates' = creates + 1
        /\ creates \in Nat /\ ~vmfr[r].exists
    BY <1>1 DEF UserCreate, TypeOK
  <2>2. /\ \A s \in Restores \ {r} : vmfr'[s] = vmfr[s]
        /\ vmfr'[r] = Created(creates + 1)
    BY <1>1 DEF UserCreate, TypeOK
  <2>3. /\ vmfr'[r].uid = creates + 1
        /\ vmfr'[r].exists /\ ~vmfr'[r].deleting /\ ~vmfr'[r].finalizer
    BY <2>1, <2>2, CreatedKey
  <2>4. UidsBounded'
    BY <2>1, <2>2, <2>3 DEF ObjectInv, UidsBounded, TypeOK, VMFR
  <2>5. CacheUnused' /\ CachedIsAnchored' /\ DeletionIsSeen'
    BY <2>1, <2>2, <2>3 DEF ObjectInv, CacheUnused, CachedIsAnchored, DeletionIsSeen, Acts,
       Anchored
  <2>6. WorkIsAnchored' /\ DeletionIsFinal'
    BY <2>1, <2>2, <2>3 DEF ObjectInv, WorkIsAnchored, DeletionIsFinal, Finalizing,
       Unprotected, Acts, Anchored, TypeOK
  <2>7. CopyIsOlder'
    <3>1. loc.uid # creates + 1
      BY <2>1 DEF ObjectInv, UidsBounded, TypeOK, VMFR
    <3> QED BY <2>1, <2>2, <2>3, <3>1 DEF ObjectInv, CopyIsOlder, TypeOK, ControlOK
  <2>8. HoldInv => HoldInv'
    BY <2>1, <2>2, <2>3 DEF HoldInv, OnlySnapshotsHaveDVs, CleanBeforeRemoval, NoOrphans,
       Holds
  <2> QED
    BY <2>4, <2>5, <2>6, <2>7, <2>8 DEF ObjectInv
<1>2. ASSUME NEW r \in Restores, UserDelete(r) PROVE ObjectInv' /\ (HoldInv => HoldInv')
  <2>1. UNCHANGED <<cvmfr, vm, dv, pc, cur, then, loc, creates>> /\ vmfr[r] \in VMFR
    BY <1>2 DEF UserDelete, TypeOK
  <2>2. /\ \A s \in Restores \ {r} : vmfr'[s] = vmfr[s]
        /\ vmfr'[r] = Marked(vmfr[r])
    BY <1>2 DEF UserDelete, TypeOK
  <2>3. /\ vmfr[r].finalizer => /\ vmfr'[r].exists = vmfr[r].exists
                                /\ vmfr'[r].uid = vmfr[r].uid
                                /\ vmfr'[r].deleting /\ vmfr'[r].finalizer
        /\ ~vmfr[r].finalizer => vmfr'[r] = NoVMFR
    BY <2>1, <2>2, MarkedKey
  <2>4. UidsBounded'
    BY <2>1, <2>2, <2>3, NoVMFRKey DEF ObjectInv, UidsBounded, TypeOK
  <2>5. CacheUnused' /\ CachedIsAnchored' /\ DeletionIsSeen'
    BY <2>1, <2>2, <2>3, NoVMFRKey DEF ObjectInv, CacheUnused, CachedIsAnchored,
       DeletionIsSeen, Acts, Anchored
  <2>6. WorkIsAnchored' /\ DeletionIsFinal'
    BY <2>1, <2>2, <2>3, NoVMFRKey DEF ObjectInv, WorkIsAnchored, DeletionIsFinal,
       Finalizing, Unprotected, Acts, Anchored, TypeOK
  <2>7. CopyIsOlder'
    BY <2>1, <2>2, <2>3, NoVMFRKey DEF ObjectInv, CopyIsOlder, TypeOK, ControlOK
  <2>8. HoldInv => HoldInv'
    BY <2>1, <2>2, <2>3 DEF HoldInv, OnlySnapshotsHaveDVs, CleanBeforeRemoval, NoOrphans,
       Holds
  <2> QED
    BY <2>4, <2>5, <2>6, <2>7, <2>8 DEF ObjectInv
<1>3. ASSUME NEW r \in Restores, SyncVMFR(r) PROVE ObjectInv' /\ (HoldInv => HoldInv')
  <2>1. UNCHANGED <<vmfr, vm, dv, pc, cur, then, loc, creates>> /\ "vmfr" \in Lagging
    BY <1>3 DEF SyncVMFR
  <2>2. /\ \A s \in Restores \ {r} : cvmfr'[s] = cvmfr[s]
        /\ cvmfr'[r] = vmfr[r]
    BY <1>3 DEF SyncVMFR, TypeOK
  <2>3. UidsBounded' /\ CacheUnused'
    BY <2>1, <2>2 DEF ObjectInv, UidsBounded, CacheUnused
  <2>4. CachedIsAnchored' /\ DeletionIsSeen'
    BY <2>1, <2>2 DEF ObjectInv, CachedIsAnchored, DeletionIsSeen, Acts, Anchored
  <2>5. WorkIsAnchored' /\ DeletionIsFinal'
    BY <2>1, <2>2 DEF ObjectInv, WorkIsAnchored, DeletionIsFinal, Finalizing,
       Unprotected, Acts, Anchored, TypeOK
  <2>6. CopyIsOlder'
    BY <2>1, <2>2 DEF ObjectInv, CopyIsOlder, TypeOK, ControlOK
  <2>7. HoldInv => HoldInv'
    BY <2>1 DEF HoldInv, OnlySnapshotsHaveDVs, CleanBeforeRemoval, NoOrphans, Holds
  <2> QED
    BY <2>3, <2>4, <2>5, <2>6, <2>7 DEF ObjectInv
<1>4. ASSUME NEW r \in Restores, TimePasses(r) PROVE ObjectInv' /\ (HoldInv => HoldInv')
  <2>1. UNCHANGED <<vm, dv, pc, cur, then, creates>>
    BY <1>4 DEF TimePasses
  <2>2. \A s \in Restores : vmfr'[s] \in {vmfr[s], Aged(vmfr[s])}
                         /\ cvmfr'[s] \in {cvmfr[s], Aged(cvmfr[s])}
    BY <1>4 DEF TimePasses, TypeOK
  <2>3. \A s \in Restores : SameKey(Aged(vmfr[s]), vmfr[s]) /\ SameKey(Aged(cvmfr[s]), cvmfr[s])
    BY UpdateKey DEF TypeOK
  <2>4. SameKey(loc', loc)
    BY <1>4, UpdateKey DEF TimePasses, TypeOK, SameKey
  <2>5. KeysKept
    BY <2>1, <2>2, <2>3 DEF KeysKept, SameKey
  <2> QED
    BY <2>1, <2>4, <2>5, ObjectInvKept, HoldInvKept DEF WorkerRests
<1>5. CASE Crash
  <2>1. UNCHANGED <<vmfr, vm, dv, creates>> /\ WorkerReturns
    BY <1>5 DEF Crash, WorkerReturns
  <2>2. cvmfr' = IF "vmfr" \in Lagging THEN vmfr ELSE cvmfr
    BY <1>5 DEF Crash
  <2>3. UidsBounded' /\ CacheUnused'
    BY <2>1, <2>2, NoVMFRKey DEF ObjectInv, UidsBounded, CacheUnused, WorkerReturns, TypeOK
  <2>4. CachedIsAnchored' /\ DeletionIsSeen'
    BY <2>1, <2>2 DEF ObjectInv, CachedIsAnchored, DeletionIsSeen, Acts, Anchored
  <2>5. WorkIsAnchored' /\ DeletionIsFinal' /\ CopyIsOlder'
    BY <2>1 DEF WorkerReturns, WorkIsAnchored, DeletionIsFinal, CopyIsOlder
  <2>6. HoldInv => HoldInv'
    BY <2>1 DEF HoldInv, OnlySnapshotsHaveDVs, CleanBeforeRemoval, NoOrphans, Holds,
       WorkerReturns
  <2> QED
    BY <2>3, <2>4, <2>5, <2>6 DEF ObjectInv
<1> QED
  BY <1>1, <1>2, <1>3, <1>4, <1>5

\* The other steps of the users, KubeVirt, CDI, the guest and the caches.
LEMMA OtherObjects ==
    ASSUME TypeOK, ObjectInv,
           \/ UserEditVM \/ StopVMI \/ DeleteVM \/ StartVMI
           \/ \E r \in Restores : \/ Attach(r) \/ Detach(r) \/ ProvisionDV(r)
                                  \/ OrphanMount(r) \/ OrphanCopy(r) \/ OrphanDies(r)
           \/ HelperMount \/ HelperCopy \/ SyncVM \/ SyncVMI
           \/ UNCHANGED vars
    PROVE  ObjectInv'
<1>1. UNCHANGED <<vmfr, cvmfr, creates, pc, cur, then, loc>>
  BY DEF UserEditVM, DeleteVM, ProvisionDV, StopVMI, GuestGone, StartVMI, Attach, Detach,
     OrphanMount, OrphanCopy, OrphanDies, HelperMount, HelperCopy, SyncVM, SyncVMI, vars,
     api, caches, worker
<1> QED
  BY <1>1, UnchangedKeys, ObjectInvKept DEF WorkerRests, SameKey

\* They leave no orphan either, as long as the VM is there.
LEMMA OtherSteps ==
    ASSUME TypeOK, ObjectInv, HoldInv, CoherentVM,
           \/ UserEditVM \/ StopVMI \/ DeleteVM \/ StartVMI
           \/ \E r \in Restores : \/ Attach(r) \/ Detach(r) \/ ProvisionDV(r)
                                  \/ OrphanMount(r) \/ OrphanCopy(r) \/ OrphanDies(r)
           \/ HelperMount \/ HelperCopy \/ SyncVM \/ SyncVMI
           \/ UNCHANGED vars
    PROVE  HoldInv'
<1>1. CASE UserEditVM
  <2>1. UNCHANGED <<vmfr, cvmfr, creates, dv, pc, cur, then, loc>>
    BY <1>1 DEF UserEditVM, caches, worker
  <2>2. Edits
    BY <1>1, EditResult
  <2>3. NoOrphans' /\ OnlySnapshotsHaveDVs'
    BY <2>1, <2>2 DEF Edits, HoldInv, NoOrphans, OnlySnapshotsHaveDVs, Holds
  <2>4. CleanBeforeRemoval'
    BY <2>1, <2>2 DEF Edits, HoldInv, CleanBeforeRemoval, Holds, TypeOK, ControlOK
  <2> QED
    BY <2>2, <2>3, <2>4 DEF Edits, HoldInv
<1>2. CASE DeleteVM
  BY <1>2 DEF DeleteVM, Fault, MayFault, CoherentVM
<1>3. ASSUME NEW r \in Restores, ProvisionDV(r) PROVE HoldInv'
  <2>1. UNCHANGED <<vmfr, cvmfr, creates, vm, pc, cur, then, loc>>
    BY <1>3 DEF ProvisionDV, caches, worker
  <2>2. \A s \in Restores : dv'[s] = "none" <=> dv[s] = "none"
    BY <1>3 DEF ProvisionDV, TypeOK
  <2>4. NoOrphans' /\ OnlySnapshotsHaveDVs'
    BY <2>1, <2>2 DEF HoldInv, NoOrphans, OnlySnapshotsHaveDVs, Holds
  <2>5. CleanBeforeRemoval'
    BY <2>1, <2>2 DEF HoldInv, CleanBeforeRemoval, Holds, TypeOK, ControlOK
  <2> QED
    BY <2>1, <2>4, <2>5 DEF HoldInv
<1>4. ASSUME ~UserEditVM, ~DeleteVM, \A r \in Restores : ~ProvisionDV(r)
      PROVE  UNCHANGED <<vmfr, cvmfr, creates, vm, dv, pc, cur, then, loc>>
  BY <1>4 DEF StopVMI, GuestGone, StartVMI, Attach, Detach, OrphanMount, OrphanCopy,
     OrphanDies, HelperMount, HelperCopy, SyncVM, SyncVMI, vars, api, caches, worker
<1> QED
  BY <1>1, <1>2, <1>3, <1>4, QuietStep

\* What is known of the stored objects holds at every moment, whatever lags and
\* whatever fails.
LEMMA AlwaysObjects == Spec => []ObjectInv
<1>1. Init => ObjectInv
  BY NoVMFRKey DEF Init, ObjectInv, UidsBounded, CacheUnused, CachedIsAnchored,
     WorkIsAnchored, DeletionIsSeen, DeletionIsFinal, CopyIsOlder, Acts, Anchored
<1>2. TypeOK /\ ObjectInv /\ [Next]_vars => ObjectInv'
  BY HandlerSteps, ReconcileSteps, VolumeObjects, ObjectSteps, OtherObjects
     DEF Next, Step, Disturbance, Environment
<1> QED
  BY <1>1, <1>2, TypeCorrect, PTL DEF Spec

\* Deleting a restore object at any moment never leaves its volume in the VM spec
\* or its DataVolume behind: for every number of restores, with stale copies of the
\* objects and of the VMI, through crashes, failed status writes, lost SSH sessions,
\* restarts of the VM and edits of its spec, as long as the VM is not deleted, is
\* not read from a stale cache, and its patches and those of DataVolumes succeed.
THEOREM NothingLeftBehind ==
    ASSUME CoherentVM
    PROVE  Spec => []NoOrphans
<1>1. Init => HoldInv
  BY ConstantsAssumption DEF Init, HoldInv, OnlySnapshotsHaveDVs, CleanBeforeRemoval,
     NoOrphans, Holds
<1>2. TypeOK /\ ObjectInv /\ OneRestoreInv /\ SeenInv /\ HoldInv /\ [Next]_vars => HoldInv'
  BY HandlerSteps, ReconcileSteps, VolumeSteps, ObjectSteps, OtherSteps
     DEF Next, Step, Disturbance, Environment
<1>3. HoldInv => NoOrphans
  BY DEF HoldInv
<1>4. Spec => []SeenInv
  BY AlwaysSeen DEF CoherentVM, CurrentVM
<1> QED
  BY <1>1, <1>2, <1>3, <1>4, TypeCorrect, AlwaysOneRestore, AlwaysObjects, PTL DEF Spec
=============================================================================
