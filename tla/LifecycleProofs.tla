-------------------------- MODULE LifecycleProofs --------------------------
(***************************************************************************)
(* What the reconciler achieves when it reads current objects: terminal    *)
(* phases are final, a restore that has succeeded is detached, one that    *)
(* has failed is clean, one that reports VolumeReady is mounted, and the   *)
(* reconciler implements the abstract life cycle.  Each theorem names the  *)
(* caches and the faults that it excludes.                                 *)
(*                                                                         *)
(* All of them rest on CurrentInv.  While the worker is past the check of  *)
(* the finalizer, nobody else writes the status of the object and nobody   *)
(* can remove the object, so its copy agrees with the stored one in phase, *)
(* mount path and count of files, and the point that the worker has        *)
(* reached tells which phase that is.                                      *)
(***************************************************************************)
EXTENDS ReportsProofs

CurrentObjects == "vmfr" \notin Lagging

ObjectsWellFormed ==
    \A r \in Restores : /\ ~vmfr[r].exists => vmfr[r] = NoVMFR
                        /\ vmfr[r].exists => vmfr[r].uid > 0
                        /\ vmfr[r].deleting => vmfr[r].finalizer

LocExists == pc = "dispatch" => loc.exists

LocIsCurrent ==
    cur # None /\ ~Unprotected =>
        /\ vmfr[cur].exists /\ vmfr[cur].finalizer
        /\ SameReport(loc, vmfr[cur])
        /\ Finalizing => vmfr[cur].deleting

\* The phases that transitionPhase may write, and from which.
Follows(next, phase) ==
    \/ phase = "New" /\ next = "Hotplugging"
    \/ phase = "Hotplugging" /\ next = "WaitingForAttachment"
    \/ phase = "WaitingForAttachment" /\ next = "SSHConnecting"
    \/ phase = "SSHConnecting" /\ next = "Restoring"
    \/ phase = "Cleanup" /\ next = "Succeeded"

PlansFollowPhase ==
    /\ pc = "transition" => Follows(then, loc.phase)
    /\ pc = "fail" => loc.phase \notin Terminal \cup {"VolumeReady"}
    /\ pc = "plug" => loc.phase = "Hotplugging"
    /\ pc = "helper" => loc.phase = "Restoring"
    /\ pc = "verify" \/ then = "verify" => loc.phase = "Cleanup"
    /\ then = "return" => loc.phase = "Failed"

CurrentInv == ObjectsWellFormed /\ LocExists /\ LocIsCurrent /\ PlansFollowPhase

----------------------------------------------------------------------------
(***************************************************************************)
(* Who writes the objects.                                                 *)
(***************************************************************************)

\* No write that the API server, the finalizer logic or a reader of the status
\* could tell from none: time passes, or a check is recorded.
Untouched(r) == SameKey(vmfr'[r], vmfr[r]) /\ SameReport(vmfr'[r], vmfr[r])

\* Every step leaves an object untouched or is one of eight writes.
ObjectWrite(r) ==
    \/ Untouched(r)
    \/ cur = r /\ TransitionPhase /\ vmfr'[r] = WithPhase(vmfr[r], then)
    \/ cur = r /\ FailRestore /\ vmfr'[r] = WithPhase(vmfr[r], "Failed")
    \/ cur = r /\ HandleInit /\ vmfr'[r] = WithMountPath(vmfr[r])
    \/ /\ cur = r /\ RestoreDone /\ helper = "ok"
       /\ vmfr'[r] = Restored(vmfr[r], r \in Automatic)
    \/ cur = r /\ AddFinalizer /\ vmfr[r] = loc /\ vmfr'[r] = WithFinalizer(vmfr[r])
    \/ /\ cur = r /\ RemoveFinalizer /\ vmfr[r].exists
       /\ vmfr'[r] = WithoutFinalizer(vmfr[r])
    \/ UserCreate(r) /\ vmfr'[r] = Created(creates + 1)
    \/ UserDelete(r) /\ vmfr'[r] = Marked(vmfr[r])

\* The two handlers that poll leave every object untouched.
LEMMA PollingWrites ==
    ASSUME TypeOK, HandleWaitingForAttachment \/ HandleSSHConnecting, NEW r \in Restores
    PROVE  Untouched(r)
<1>1. cur \in Restores /\ vmfr[cur] \in VMFR /\ vmfr[r] \in VMFR
  BY DEF HandleWaitingForAttachment, HandleSSHConnecting, Dispatched, TypeOK
<1> DEFINE stamped(check) == Stamped(vmfr[cur], check)
<1>2. ASSUME NEW check \in Checks
      PROVE  /\ SameKey(stamped(check), vmfr[cur]) /\ SameReport(stamped(check), vmfr[cur])
             /\ SameKey(Retried(stamped(check), check), vmfr[cur])
             /\ SameReport(Retried(stamped(check), check), vmfr[cur])
             /\ SameKey(RetriesReset(stamped(check), check), vmfr[cur])
             /\ SameReport(RetriesReset(stamped(check), check), vmfr[cur])
  <2>1. /\ stamped(check) \in VMFR
        /\ SameKey(stamped(check), vmfr[cur]) /\ SameReport(stamped(check), vmfr[cur])
    BY <1>1, UpdateType, UpdateKey, UpdateReport
  <2> HIDE DEF stamped
  <2> QED
    BY <2>1, UpdateKey, UpdateReport DEF SameKey, SameReport
<1>3. CASE vmfr' = vmfr
  BY <1>3 DEF Untouched, SameKey, SameReport
<1>4. ASSUME NEW check \in Checks,
             \E new \in {stamped(check), Retried(stamped(check), check),
                         RetriesReset(stamped(check), check)} :
                 vmfr' = [vmfr EXCEPT ![cur] = new]
      PROVE  Untouched(r)
  <2> HIDE DEF stamped
  <2>1. PICK new : /\ vmfr' = [vmfr EXCEPT ![cur] = new]
                   /\ SameKey(new, vmfr[cur]) /\ SameReport(new, vmfr[cur])
    BY <1>2, <1>4
  <2> QED
    BY <2>1 DEF TypeOK, Untouched, SameKey, SameReport
<1>5. \/ vmfr' = vmfr
      \/ \E check \in Checks :
            \E new \in {stamped(check), Retried(stamped(check), check),
                        RetriesReset(stamped(check), check)} :
                vmfr' = [vmfr EXCEPT ![cur] = new]
  <2>1. CASE HandleWaitingForAttachment
    <3>1. \/ vmfr' = vmfr
          \/ \E new \in {stamped("attachment"), Retried(stamped("attachment"), "attachment"),
                         RetriesReset(stamped("attachment"), "attachment")} :
                vmfr' = [vmfr EXCEPT ![cur] = new]
      BY <2>1 DEF HandleWaitingForAttachment, PatchStatus, PatchFails
    <3> QED BY <3>1 DEF Checks
  <2>2. CASE HandleSSHConnecting
    <3>1. \/ vmfr' = vmfr
          \/ \E new \in {stamped("ssh"), Retried(stamped("ssh"), "ssh"),
                         RetriesReset(stamped("ssh"), "ssh")} :
                vmfr' = [vmfr EXCEPT ![cur] = new]
      BY <2>2 DEF HandleSSHConnecting, PatchStatus, PatchFails
    <3> QED BY <3>1 DEF Checks
  <2> QED BY <2>1, <2>2
<1> QED
  BY <1>3, <1>4, <1>5

\* Every step is one of the writes of ObjectWrite.
LEMMA ObjectWrites ==
    ASSUME TypeOK, [Next]_vars, NEW r \in Restores
    PROVE  ObjectWrite(r)
<1> USE DEF api
<1>0. ASSUME vmfr' = vmfr PROVE ObjectWrite(r)
  BY <1>0 DEF ObjectWrite, Untouched, SameKey, SameReport
<1>1. ASSUME NEW s \in Restores, Reconcile(s) PROVE ObjectWrite(r)
  BY <1>0, <1>1 DEF Reconcile
<1>2. CASE TransitionPhase
  <2>1. vmfr' = vmfr \/ vmfr' = [vmfr EXCEPT ![cur] = WithPhase(vmfr[cur], then)]
    BY <1>2 DEF TransitionPhase, PatchFails
  <2>2. vmfr'[r] = vmfr[r] \/ (cur = r /\ vmfr'[r] = WithPhase(vmfr[r], then))
    BY <2>1 DEF TypeOK
  <2> QED BY <1>2, <2>2 DEF ObjectWrite, Untouched, SameKey, SameReport
<1>3. CASE FailRestore
  <2>1. vmfr' = vmfr \/ vmfr' = [vmfr EXCEPT ![cur] = WithPhase(vmfr[cur], "Failed")]
    BY <1>3 DEF FailRestore, PatchStatus, PatchFails
  <2>2. vmfr'[r] = vmfr[r] \/ (cur = r /\ vmfr'[r] = WithPhase(vmfr[r], "Failed"))
    BY <2>1 DEF TypeOK
  <2> QED BY <1>3, <2>2 DEF ObjectWrite, Untouched, SameKey, SameReport
<1>4. CASE HandleInit
  <2>1. vmfr' = vmfr \/ vmfr' = [vmfr EXCEPT ![cur] = WithMountPath(vmfr[cur])]
    BY <1>4 DEF HandleInit, PatchStatus, PatchFails
  <2>2. vmfr'[r] = vmfr[r] \/ (cur = r /\ vmfr'[r] = WithMountPath(vmfr[r]))
    BY <2>1 DEF TypeOK
  <2> QED BY <1>4, <2>2 DEF ObjectWrite, Untouched, SameKey, SameReport
<1>5. CASE RestoreDone
  <2>1. \/ vmfr' = vmfr
        \/ /\ helper = "ok"
           /\ vmfr' = [vmfr EXCEPT ![cur] = Restored(vmfr[cur], cur \in Automatic)]
    BY <1>5 DEF RestoreDone, PatchFails
  <2>2. \/ vmfr'[r] = vmfr[r]
        \/ cur = r /\ helper = "ok" /\ vmfr'[r] = Restored(vmfr[r], r \in Automatic)
    BY <2>1 DEF TypeOK
  <2> QED BY <1>5, <2>2 DEF ObjectWrite, Untouched, SameKey, SameReport
<1>6. CASE AddFinalizer
  <2>1. \/ vmfr' = vmfr
        \/ vmfr[cur] = loc /\ vmfr' = [vmfr EXCEPT ![cur] = WithFinalizer(vmfr[cur])]
    BY <1>6 DEF AddFinalizer
  <2>2. \/ vmfr'[r] = vmfr[r]
        \/ cur = r /\ vmfr[r] = loc /\ vmfr'[r] = WithFinalizer(vmfr[r])
    BY <2>1 DEF TypeOK
  <2> QED BY <1>6, <2>2 DEF ObjectWrite, Untouched, SameKey, SameReport
<1>7. CASE RemoveFinalizer
  <2>1. \/ vmfr' = vmfr
        \/ vmfr[cur].exists /\ vmfr' = [vmfr EXCEPT ![cur] = WithoutFinalizer(vmfr[cur])]
    BY <1>7 DEF RemoveFinalizer, CopyIsCurrent
  <2>2. \/ vmfr'[r] = vmfr[r]
        \/ cur = r /\ vmfr[r].exists /\ vmfr'[r] = WithoutFinalizer(vmfr[r])
    BY <2>1 DEF TypeOK
  <2> QED BY <1>7, <2>2 DEF ObjectWrite, Untouched, SameKey, SameReport
<1>8. ASSUME NEW s \in Restores, UserCreate(s) PROVE ObjectWrite(r)
  <2>1. vmfr'[r] = vmfr[r] \/ (s = r /\ vmfr'[r] = Created(creates + 1))
    BY <1>8 DEF UserCreate, TypeOK
  <2> QED BY <1>8, <2>1 DEF ObjectWrite, Untouched, SameKey, SameReport
<1>9. ASSUME NEW s \in Restores, UserDelete(s) PROVE ObjectWrite(r)
  <2>1. vmfr'[r] = vmfr[r] \/ (s = r /\ vmfr'[r] = Marked(vmfr[r]))
    BY <1>9 DEF UserDelete, TypeOK
  <2> QED BY <1>9, <2>1 DEF ObjectWrite, Untouched, SameKey, SameReport
<1>10. ASSUME NEW s \in Restores, TimePasses(s) PROVE ObjectWrite(r)
  <2>1. vmfr'[r] = vmfr[r] \/ vmfr'[r] = Aged(vmfr[r])
    BY <1>10 DEF TimePasses, TypeOK
  <2>2. Untouched(r)
    BY <2>1, UpdateKey, UpdateReport DEF TypeOK, Untouched, SameKey, SameReport
  <2> QED BY <2>2 DEF ObjectWrite
<1>11. CASE HandleWaitingForAttachment \/ HandleSSHConnecting
  BY <1>11, PollingWrites DEF ObjectWrite
<1>12. CASE \/ HandleDeletion \/ Settled \/ HandleHotplugging \/ HandleRestoring
            \/ RestoreTimeout \/ HandleCleanup \/ VerifyUnplug \/ CleanupUnmount
            \/ HotplugVolume \/ UnplugVolume \/ DeleteDataVolume
  <2>1. vmfr' = vmfr
    BY <1>12 DEF HandleDeletion, Settled, HandleHotplugging, HandleRestoring, RestoreTimeout,
       HandleCleanup, VerifyUnplug, CleanupUnmount, HotplugVolume, UnplugVolume,
       DeleteDataVolume
  <2> QED BY <1>0, <2>1
<1>13. CASE \/ UserEditVM \/ StopVMI \/ DeleteVM \/ Crash \/ StartVMI
            \/ \E s \in Restores : \/ Attach(s) \/ Detach(s) \/ ProvisionDV(s)
                                   \/ OrphanMount(s) \/ OrphanCopy(s) \/ OrphanDies(s)
                                   \/ SyncVMFR(s)
            \/ HelperMount \/ HelperCopy \/ SyncVM \/ SyncVMI
            \/ UNCHANGED vars
  <2>1. vmfr' = vmfr
    BY <1>13 DEF UserEditVM, DeleteVM, ProvisionDV, StopVMI, GuestGone, StartVMI, Attach,
       Detach, OrphanMount, OrphanCopy, OrphanDies, HelperMount, HelperCopy, SyncVM,
       SyncVMI, SyncVMFR, Crash, vars
  <2> QED BY <1>0, <2>1
<1> QED
  BY <1>1, <1>2, <1>3, <1>4, <1>5, <1>6, <1>7, <1>8, <1>9, <1>10, <1>11, <1>12, <1>13
     DEF Next, Step, Disturbance, Environment

\* The phase of an object changes only by transitionPhase, failRestore, the result of
\* the helper, or because the object goes away.
LEMMA PhaseWrites ==
    ASSUME TypeOK, [Next]_vars, NEW r \in Restores, vmfr'[r].phase # vmfr[r].phase
    PROVE  \/ cur = r /\ TransitionPhase /\ vmfr'[r].phase = then
           \/ cur = r /\ FailRestore /\ vmfr'[r].phase = "Failed"
           \/ /\ cur = r /\ RestoreDone /\ helper = "ok"
              /\ vmfr'[r].phase = IF r \in Automatic THEN "Cleanup" ELSE "VolumeReady"
           \/ vmfr'[r].phase = "New" /\ ~vmfr'[r].restoredFilesCount
<1>1. ObjectWrite(r) /\ vmfr[r] \in VMFR /\ creates + 1 \in Nat
  BY ObjectWrites DEF TypeOK
<1>2. TransitionPhase => then \in Phases
  BY DEF TransitionPhase, TypeOK, ControlOK
<1>3. /\ \A uid \in Nat : Created(uid).phase = "New" /\ ~Created(uid).restoredFilesCount
      /\ NoVMFR.phase = "New" /\ ~NoVMFR.restoredFilesCount
  BY DEF Created, NoVMFR
<1>4. CASE Untouched(r)
  BY <1>4 DEF Untouched, SameReport
<1>5. CASE cur = r /\ TransitionPhase /\ vmfr'[r] = WithPhase(vmfr[r], then)
  BY <1>1, <1>2, <1>5, NewReport
<1>6. CASE cur = r /\ FailRestore /\ vmfr'[r] = WithPhase(vmfr[r], "Failed")
  BY <1>1, <1>6, NewReport DEF Phases
<1>7. CASE vmfr'[r] = WithMountPath(vmfr[r])
  BY <1>1, <1>7, NewReport
<1>8. CASE /\ cur = r /\ RestoreDone /\ helper = "ok"
           /\ vmfr'[r] = Restored(vmfr[r], r \in Automatic)
  BY <1>1, <1>8, NewReport
<1>9. CASE vmfr'[r] = WithFinalizer(vmfr[r])
  BY <1>1, <1>9, UpdateReport DEF SameReport
<1>10. CASE vmfr'[r] = WithoutFinalizer(vmfr[r])
  BY <1>1, <1>3, <1>10, UpdateReport, WithoutFinalizerKey DEF SameReport
<1>11. CASE vmfr'[r] = Created(creates + 1)
  BY <1>1, <1>3, <1>11
<1>12. CASE vmfr'[r] = Marked(vmfr[r])
  BY <1>1, <1>3, <1>12, UpdateReport, MarkedKey DEF SameReport
<1> QED
  BY <1>1, <1>4, <1>5, <1>6, <1>7, <1>8, <1>9, <1>10, <1>11, <1>12 DEF ObjectWrite

\* A deletion is not taken back, other than by the object going away.
LEMMA DeletionKept ==
    ASSUME TypeOK, [Next]_vars, NEW r \in Restores, vmfr'[r].phase # "New", ~vmfr'[r].deleting
    PROVE  ~vmfr[r].deleting
<1>1. vmfr[r] \in VMFR /\ ObjectWrite(r) /\ creates + 1 \in Nat
  BY ObjectWrites DEF TypeOK
<1>2. NoVMFR.phase = "New" /\ \A uid \in Nat : Created(uid).phase = "New"
  BY DEF NoVMFR, Created
<1>3. "Failed" \in Phases /\ (TransitionPhase => then \in Phases)
  BY DEF Phases, TransitionPhase, TypeOK, ControlOK
<1>4. CASE \/ Untouched(r) \/ vmfr'[r] = WithMountPath(vmfr[r])
           \/ TransitionPhase /\ vmfr'[r] = WithPhase(vmfr[r], then)
           \/ vmfr'[r] = WithPhase(vmfr[r], "Failed")
           \/ vmfr'[r] = Restored(vmfr[r], r \in Automatic)
  <2>1. SameKey(vmfr'[r], vmfr[r])
    BY <1>1, <1>3, <1>4, UpdateKey DEF Untouched
  <2> QED BY <2>1 DEF SameKey
<1>5. CASE vmfr'[r] = WithFinalizer(vmfr[r])
  BY <1>1, <1>5, WithFinalizerKey
<1>6. CASE vmfr'[r] = WithoutFinalizer(vmfr[r])
  BY <1>1, <1>2, <1>6, WithoutFinalizerKey
<1>7. CASE vmfr'[r] = Created(creates + 1)
  BY <1>1, <1>2, <1>7
<1>8. CASE vmfr'[r] = Marked(vmfr[r])
  BY <1>1, <1>2, <1>8, MarkedKey
<1> QED
  BY <1>1, <1>4, <1>5, <1>6, <1>7, <1>8 DEF ObjectWrite

\* An object that has the finalizer stays, with its finalizer and its mount path, until
\* the worker removes the finalizer.
LEMMA FinalizerKept ==
    ASSUME TypeOK, [Next]_vars, NEW r \in Restores, vmfr[r].exists, vmfr[r].finalizer,
           ~(cur = r /\ RemoveFinalizer)
    PROVE  /\ vmfr'[r].exists /\ vmfr'[r].finalizer
           /\ vmfr[r].mountPath => vmfr'[r].mountPath
<1>1. vmfr[r] \in VMFR /\ ObjectWrite(r) /\ ~UserCreate(r)
  BY ObjectWrites DEF TypeOK, UserCreate
<1>2. "Failed" \in Phases /\ (TransitionPhase => then \in Phases)
  BY DEF Phases, TransitionPhase, TypeOK, ControlOK
<1>3. CASE \/ Untouched(r) \/ vmfr'[r] = WithMountPath(vmfr[r])
           \/ TransitionPhase /\ vmfr'[r] = WithPhase(vmfr[r], then)
           \/ vmfr'[r] = WithPhase(vmfr[r], "Failed")
           \/ vmfr'[r] = Restored(vmfr[r], r \in Automatic)
  <2>1. SameKey(vmfr'[r], vmfr[r])
    BY <1>1, <1>2, <1>3, UpdateKey DEF Untouched
  <2>2. vmfr[r].mountPath => vmfr'[r].mountPath
    <3>1. CASE Untouched(r)
      BY <3>1 DEF Untouched, SameReport
    <3>2. CASE vmfr'[r] = WithMountPath(vmfr[r])
      BY <1>1, <3>2, NewReport
    <3>3. CASE TransitionPhase /\ vmfr'[r] = WithPhase(vmfr[r], then)
      BY <1>1, <1>2, <3>3, NewReport
    <3>4. CASE vmfr'[r] = WithPhase(vmfr[r], "Failed")
      BY <1>1, <1>2, <3>4, NewReport
    <3>5. CASE vmfr'[r] = Restored(vmfr[r], r \in Automatic)
      BY <1>1, <3>5, NewReport
    <3> QED BY <1>3, <3>1, <3>2, <3>3, <3>4, <3>5
  <2> QED BY <2>1, <2>2 DEF SameKey
<1>4. CASE vmfr'[r] = WithFinalizer(vmfr[r]) \/ vmfr'[r] = Marked(vmfr[r])
  <2>1. SameReport(vmfr'[r], vmfr[r])
    BY <1>1, <1>4, UpdateReport
  <2> QED BY <1>1, <1>4, <2>1, WithFinalizerKey, MarkedKey DEF SameReport
<1> QED
  BY <1>1, <1>3, <1>4 DEF ObjectWrite

----------------------------------------------------------------------------
(***************************************************************************)
(* The copy of the worker is current.                                      *)
(***************************************************************************)

\* A step of a handler keeps CurrentInv when what it writes becomes its copy, or it
\* returns, and its next plan follows from the phase.
LEMMA HandlerCurrent ==
    ASSUME TypeOK, CurrentInv, cur \in Restores, ~Unprotected,
           PlansFollowPhase', pc' # "dispatch",
           \/ vmfr' = vmfr
           \/ \E new : SameKey(new, vmfr[cur]) /\ vmfr' = [vmfr EXCEPT ![cur] = new],
           \/ WorkerReturns
           \/ /\ cur' = cur /\ (Finalizing' => Finalizing)
              /\ \/ loc' = loc /\ vmfr' = vmfr
                 \/ SameKey(loc', vmfr[cur]) /\ vmfr' = [vmfr EXCEPT ![cur] = loc']
    PROVE  CurrentInv'
<1>1. \A r \in Restores : SameKey(vmfr'[r], vmfr[r]) /\ (r # cur => vmfr'[r] = vmfr[r])
  BY DEF TypeOK, SameKey
<1>2. vmfr[cur].exists
  BY ConstantsAssumption DEF CurrentInv, LocIsCurrent
<1>3. ObjectsWellFormed'
  BY <1>1, <1>2 DEF CurrentInv, ObjectsWellFormed, SameKey
<1>4. LocIsCurrent'
  <2>1. CASE WorkerReturns
    BY <2>1 DEF WorkerReturns, LocIsCurrent
  <2>2. CASE cur' = cur /\ (Finalizing' => Finalizing) /\ loc' = loc /\ vmfr' = vmfr
    BY <2>2 DEF CurrentInv, LocIsCurrent
  <2>3. CASE /\ cur' = cur /\ (Finalizing' => Finalizing) /\ SameKey(loc', vmfr[cur])
             /\ vmfr' = [vmfr EXCEPT ![cur] = loc']
    BY <2>3 DEF TypeOK, CurrentInv, LocIsCurrent, SameKey, SameReport
  <2> QED BY <2>1, <2>2, <2>3
<1> QED
  BY <1>3, <1>4 DEF CurrentInv, LocExists

\* The handlers, cleanup and UnplugVolume, one case per action.
LEMMA StepCurrent ==
    ASSUME TypeOK, CurrentInv, Step, ~AddFinalizer, ~RemoveFinalizer
    PROVE  CurrentInv'
<1> DEFINE Ready == cur \in Restores /\ ~Unprotected
           Goes == \/ WorkerReturns
                   \/ cur' = cur /\ (Finalizing' => Finalizing) /\ loc' = loc
           Writes(new) == /\ vmfr' = [vmfr EXCEPT ![cur] = new]
                          /\ \/ WorkerReturns
                             \/ cur' = cur /\ (Finalizing' => Finalizing) /\ loc' = new
<1>. pc' # "dispatch"
  BY DEF Step, HandleDeletion, Settled, TransitionPhase, FailRestore, HandleInit,
     HandleHotplugging, HotplugVolume, HandleWaitingForAttachment, HandleSSHConnecting,
     HandleRestoring, RestoreDone, RestoreTimeout, HandleCleanup, VerifyUnplug,
     CleanupUnmount, UnplugVolume, DeleteDataVolume, Return, Continue, ContinueWithVM,
     PatchFails, Resume, ResumeAfterError
<1>a. ASSUME Ready, PlansFollowPhase', Goes, vmfr' = vmfr PROVE CurrentInv'
  BY <1>a, HandlerCurrent
<1>b. ASSUME Ready, PlansFollowPhase', NEW new, SameKey(new, vmfr[cur]), Writes(new)
      PROVE  CurrentInv'
  BY <1>b, HandlerCurrent
<1>c. Ready => vmfr[cur] \in VMFR /\ SameReport(loc, vmfr[cur])
  BY ConstantsAssumption DEF TypeOK, CurrentInv, LocIsCurrent
<1> HIDE DEF Goes, Writes
<1> USE DEF Dispatched, Return, Continue, ContinueWithVM, PatchStatus, PatchFails,
        WorkerReturns, api, caches, guest
<1>0. Ready \/ HandleDeletion
  BY DEF Step, Settled, TransitionPhase, FailRestore, HandleInit, HandleHotplugging,
     HotplugVolume, HandleWaitingForAttachment, HandleSSHConnecting, HandleRestoring, RestoreDone,
     RestoreTimeout, HandleCleanup, VerifyUnplug, CleanupUnmount, UnplugVolume,
     DeleteDataVolume, Unprotected, TypeOK
<1>1. CASE Settled
  <2>1. Ready /\ Goes /\ PlansFollowPhase' /\ vmfr' = vmfr
    BY <1>1 DEF Settled, Goes, PlansFollowPhase, TypeOK, Unprotected
  <2> QED BY <2>1, <1>a
<1>2. CASE HandleDeletion
  <2>1. CASE loc.finalizer
    <3>1. Ready /\ Goes /\ PlansFollowPhase' /\ vmfr' = vmfr
      BY <1>2, <2>1 DEF HandleDeletion, Goes, PlansFollowPhase, TypeOK, Unprotected,
         Finalizing
    <3> QED BY <3>1, <1>a
  <2>2. CASE ~loc.finalizer
    BY <1>2, <2>2 DEF HandleDeletion, CurrentInv, ObjectsWellFormed, LocExists,
       LocIsCurrent, PlansFollowPhase
  <2> QED BY <2>1, <2>2
<1>3. CASE TransitionPhase
  <2> DEFINE new == WithPhase(vmfr[cur], then)
  <2>1. Ready
    BY <1>3 DEF TransitionPhase, TypeOK, Unprotected
  <2>2. SameKey(new, vmfr[cur])
    BY <1>3, <1>c, <2>1, UpdateKey DEF TransitionPhase, TypeOK, ControlOK
  <2> HIDE DEF new
  <2>3. PlansFollowPhase' /\ ((Goes /\ vmfr' = vmfr) \/ Writes(new))
    BY <1>3 DEF TransitionPhase, Goes, Writes, PlansFollowPhase, new
  <2> QED BY <2>1, <2>2, <2>3, <1>a, <1>b
<1>4. CASE FailRestore
  <2> DEFINE new == WithPhase(vmfr[cur], "Failed")
  <2>1. Ready
    BY <1>4 DEF FailRestore, TypeOK, Unprotected
  <2>2. SameKey(new, vmfr[cur]) /\ new.phase = "Failed"
    BY <1>c, <2>1, UpdateKey, NewReport DEF Phases
  <2> HIDE DEF new
  <2>3. PlansFollowPhase'
    BY <1>4, <2>2 DEF FailRestore, PlansFollowPhase, new
  <2>4. (Goes /\ vmfr' = vmfr) \/ Writes(new)
    BY <1>4 DEF FailRestore, Goes, Writes, Finalizing, new
  <2> QED BY <2>1, <2>2, <2>3, <2>4, <1>a, <1>b
<1>5. CASE HandleInit
  <2> DEFINE new == WithMountPath(vmfr[cur])
  <2>1. Ready /\ loc.phase = "New"
    BY <1>5 DEF HandleInit, TypeOK, Unprotected
  <2>2. SameKey(new, vmfr[cur]) /\ new.phase = "New"
    BY <1>c, <2>1, UpdateKey, NewReport DEF SameReport
  <2> HIDE DEF new
  <2>3. PlansFollowPhase'
    BY <1>5, <2>1, <2>2 DEF HandleInit, PlansFollowPhase, Follows, Terminal, new
  <2>4. (Goes /\ vmfr' = vmfr) \/ Writes(new)
    BY <1>5 DEF HandleInit, Goes, Writes, Finalizing, new
  <2> QED BY <2>1, <2>2, <2>3, <2>4, <1>a, <1>b
<1>6. CASE HandleHotplugging
  <2>1. Ready /\ loc.phase = "Hotplugging"
    BY <1>6 DEF HandleHotplugging, TypeOK, Unprotected
  <2>2. Goes /\ vmfr' = vmfr
    BY <1>6 DEF HandleHotplugging, Goes, Finalizing
  <2>3. PlansFollowPhase'
    BY <1>6, <2>1 DEF HandleHotplugging, PlansFollowPhase, Follows, Terminal
  <2> QED BY <2>1, <2>2, <2>3, <1>a
<1>7. CASE HandleWaitingForAttachment
  <2> DEFINE stamped == Stamped(vmfr[cur], "attachment")
             retried == Retried(stamped, "attachment")
             reset == RetriesReset(stamped, "attachment")
  <2>1. Ready /\ loc.phase = "WaitingForAttachment"
    BY <1>7 DEF HandleWaitingForAttachment, TypeOK, Unprotected
  <2>2. /\ stamped \in VMFR /\ SameReport(stamped, vmfr[cur]) /\ SameKey(stamped, vmfr[cur])
    BY <1>c, <2>1, UpdateType, UpdateReport, UpdateKey DEF Checks
  <2>3. /\ SameKey(retried, vmfr[cur]) /\ SameKey(reset, vmfr[cur])
        /\ SameReport(reset, vmfr[cur])
    <3> HIDE DEF stamped
    <3> QED BY <2>2, UpdateKey, UpdateReport DEF Checks, SameReport, SameKey
  <2>4. stamped.phase = "WaitingForAttachment" /\ reset.phase = "WaitingForAttachment"
    BY <1>c, <2>1, <2>2, <2>3 DEF SameReport
  <2> HIDE DEF stamped, retried, reset
  <2>5. PlansFollowPhase'
    BY <1>7, <2>1, <2>4 DEF HandleWaitingForAttachment, PlansFollowPhase, Follows, Terminal,
       stamped, reset
  <2>6. (Goes /\ vmfr' = vmfr) \/ \E new \in {stamped, retried, reset} : Writes(new)
    BY <1>7 DEF HandleWaitingForAttachment, Goes, Writes, Finalizing, stamped, retried, reset
  <2> QED BY <2>1, <2>2, <2>3, <2>5, <2>6, <1>a, <1>b
<1>8. CASE HandleSSHConnecting
  <2> DEFINE stamped == Stamped(vmfr[cur], "ssh")
             retried == Retried(stamped, "ssh")
             reset == RetriesReset(stamped, "ssh")
  <2>1. Ready /\ loc.phase = "SSHConnecting"
    BY <1>8 DEF HandleSSHConnecting, TypeOK, Unprotected
  <2>2. /\ stamped \in VMFR /\ SameReport(stamped, vmfr[cur]) /\ SameKey(stamped, vmfr[cur])
    BY <1>c, <2>1, UpdateType, UpdateReport, UpdateKey DEF Checks
  <2>3. /\ SameKey(retried, vmfr[cur]) /\ SameKey(reset, vmfr[cur])
        /\ SameReport(reset, vmfr[cur])
    <3> HIDE DEF stamped
    <3> QED BY <2>2, UpdateKey, UpdateReport DEF Checks, SameReport, SameKey
  <2>4. stamped.phase = "SSHConnecting" /\ reset.phase = "SSHConnecting"
    BY <1>c, <2>1, <2>2, <2>3 DEF SameReport
  <2> HIDE DEF stamped, retried, reset
  <2>5. PlansFollowPhase'
    BY <1>8, <2>1, <2>4 DEF HandleSSHConnecting, PlansFollowPhase, Follows, Terminal,
       stamped, reset
  <2>6. (Goes /\ vmfr' = vmfr) \/ \E new \in {stamped, retried, reset} : Writes(new)
    BY <1>8 DEF HandleSSHConnecting, Goes, Writes, Finalizing, stamped, retried, reset
  <2> QED BY <2>1, <2>2, <2>3, <2>5, <2>6, <1>a, <1>b
<1>9. CASE HandleRestoring
  <2>1. Ready /\ loc.phase = "Restoring"
    BY <1>9 DEF HandleRestoring, TypeOK, Unprotected
  <2>2. Goes /\ vmfr' = vmfr /\ PlansFollowPhase'
    BY <1>9, <2>1 DEF HandleRestoring, Goes, Finalizing, PlansFollowPhase, Terminal
  <2> QED BY <2>1, <2>2, <1>a
<1>10. CASE RestoreDone
  <2> DEFINE new == Restored(vmfr[cur], cur \in Automatic)
  <2>1. Ready /\ loc.phase = "Restoring"
    BY <1>10 DEF RestoreDone, TypeOK, Unprotected, CurrentInv, PlansFollowPhase
  <2>2. SameKey(new, vmfr[cur])
    BY <1>c, <2>1, UpdateKey
  <2> HIDE DEF new
  <2>3. PlansFollowPhase'
    BY <1>10, <2>1 DEF RestoreDone, PlansFollowPhase, Terminal
  <2>4. (Goes /\ vmfr' = vmfr) \/ Writes(new)
    BY <1>10 DEF RestoreDone, Goes, Writes, Finalizing, new
  <2> QED BY <2>1, <2>2, <2>3, <2>4, <1>a, <1>b
<1>11. CASE RestoreTimeout
  <2>1. Ready /\ loc.phase = "Restoring"
    BY <1>11 DEF RestoreTimeout, TypeOK, Unprotected, CurrentInv, PlansFollowPhase
  <2>2. Goes /\ vmfr' = vmfr /\ PlansFollowPhase'
    BY <1>11, <2>1 DEF RestoreTimeout, Goes, Finalizing, PlansFollowPhase, Terminal
  <2> QED BY <2>1, <2>2, <1>a
<1>12. CASE HandleCleanup
  <2>1. Ready /\ loc.phase = "Cleanup"
    BY <1>12 DEF HandleCleanup, TypeOK, Unprotected
  <2>2. Goes /\ vmfr' = vmfr /\ PlansFollowPhase'
    BY <1>12, <2>1 DEF HandleCleanup, Goes, Finalizing, PlansFollowPhase, Follows, Terminal
  <2> QED BY <2>1, <2>2, <1>a
<1>13. CASE VerifyUnplug
  <2>1. Ready /\ loc.phase = "Cleanup"
    BY <1>13 DEF VerifyUnplug, TypeOK, Unprotected, CurrentInv, PlansFollowPhase
  <2>2. Goes /\ vmfr' = vmfr /\ PlansFollowPhase'
    BY <1>13, <2>1 DEF VerifyUnplug, Goes, Finalizing, PlansFollowPhase, Follows
  <2> QED BY <2>1, <2>2, <1>a
<1>14. CASE CleanupUnmount
  <2>1. Ready /\ then # "verify" /\ (then = "return" => loc.phase = "Failed")
    BY <1>14 DEF CleanupUnmount, TypeOK, ControlOK, Unprotected, CurrentInv, PlansFollowPhase
  <2>2. Goes /\ vmfr' = vmfr /\ PlansFollowPhase'
    BY <1>14, <2>1 DEF CleanupUnmount, Resume, Goes, Finalizing, PlansFollowPhase
  <2> QED BY <2>1, <2>2, <1>a
<1>15. CASE UnplugVolume \/ DeleteDataVolume
  <2>1. /\ Ready /\ (then = "return" => loc.phase = "Failed")
        /\ (then = "verify" => loc.phase = "Cleanup")
    BY <1>0, <1>15 DEF UnplugVolume, DeleteDataVolume, HandleDeletion, CurrentInv,
       PlansFollowPhase
  <2>2. Goes /\ vmfr' = vmfr
    BY <1>15 DEF UnplugVolume, DeleteDataVolume, Resume, ResumeAfterError, Goes, Finalizing
  <2>3. PlansFollowPhase'
    BY <1>15, <2>1 DEF UnplugVolume, DeleteDataVolume, Resume, ResumeAfterError,
       PlansFollowPhase, Terminal
  <2> QED BY <2>1, <2>2, <2>3, <1>a
<1>16. CASE HotplugVolume
  <2>1. Ready /\ loc.phase = "Hotplugging"
    BY <1>16 DEF HotplugVolume, TypeOK, Unprotected, CurrentInv, PlansFollowPhase
  <2>2. Goes /\ vmfr' = vmfr
    BY <1>16 DEF HotplugVolume, Goes, Finalizing
  <2>3. PlansFollowPhase'
    BY <1>16, <2>1 DEF HotplugVolume, PlansFollowPhase, Follows, Terminal
  <2> QED BY <2>1, <2>2, <2>3, <1>a
<1> QED
  BY <1>1, <1>2, <1>3, <1>4, <1>5, <1>6, <1>7, <1>8, <1>9, <1>10, <1>11, <1>12, <1>13,
     <1>14, <1>15, <1>16 DEF Step

\* The steps that leave every object untouched and the worker where it is.
LEMMA RestingCurrent ==
    ASSUME TypeOK, CurrentInv, WorkerRests, SameReport(loc', loc),
           \A r \in Restores : Untouched(r) /\ (~vmfr[r].exists => vmfr'[r] = vmfr[r])
    PROVE  CurrentInv'
<1> USE DEF WorkerRests, Untouched, SameKey, SameReport
<1>1. ObjectsWellFormed'
  BY DEF CurrentInv, ObjectsWellFormed
<1>2. LocExists' /\ (Finalizing' <=> Finalizing) /\ (Unprotected' <=> Unprotected)
  BY DEF CurrentInv, LocExists, Finalizing, Unprotected
<1>3. LocIsCurrent'
  BY <1>2 DEF CurrentInv, LocIsCurrent, TypeOK
<1>4. PlansFollowPhase'
  BY DEF CurrentInv, PlansFollowPhase
<1> QED
  BY <1>1, <1>2, <1>3, <1>4 DEF CurrentInv

\* The other steps, one case per action.
LEMMA NextCurrent ==
    ASSUME TypeOK, CurrentInv, CurrentObjects, [Next]_vars
    PROVE  CurrentInv'
<1> USE DEF api, caches, guest, worker, Return
<1>0. /\ pc = "idle" => cur = None /\ then = "none"
      /\ cur # None => cur \in Restores
  BY DEF TypeOK, ControlOK
<1>1. ASSUME NEW r \in Restores, Reconcile(r) PROVE CurrentInv'
  <2>1. vmfr' = vmfr /\ CachedVMFR(r) = vmfr[r]
    BY <1>1 DEF Reconcile, CachedVMFR, CurrentObjects
  <2>2. CASE ~vmfr[r].exists
    BY <1>1, <2>1, <2>2 DEF Reconcile, CurrentInv, ObjectsWellFormed, LocExists,
       LocIsCurrent, PlansFollowPhase, Unprotected, Finalizing
  <2>3. CASE vmfr[r].exists
    <3>1. pc' = "dispatch" /\ cur' = r /\ loc' = vmfr[r] /\ then' = "none"
      BY <1>0, <1>1, <2>1, <2>3 DEF Reconcile
    <3>2. LocExists' /\ LocIsCurrent'
      BY <2>1, <2>3, <3>1 DEF LocExists, LocIsCurrent, Unprotected, Finalizing, SameReport
    <3> QED
      BY <2>1, <3>1, <3>2 DEF CurrentInv, ObjectsWellFormed, PlansFollowPhase
  <2> QED BY <2>2, <2>3
<1>r. ASSUME WorkerReturns, ObjectsWellFormed' PROVE CurrentInv'
  BY <1>r DEF WorkerReturns, CurrentInv, LocExists, LocIsCurrent, PlansFollowPhase
<1>2. CASE AddFinalizer
  <2>1. WorkerReturns /\ cur \in Restores /\ loc.exists
    BY <1>0, <1>2 DEF AddFinalizer, WorkerReturns, TypeOK, CurrentInv, LocExists
  <2>2. \/ vmfr' = vmfr
        \/ loc = vmfr[cur] /\ vmfr' = [vmfr EXCEPT ![cur] = WithFinalizer(vmfr[cur])]
    BY <1>2 DEF AddFinalizer
  <2>3. ASSUME NEW r \in Restores
        PROVE  \/ vmfr'[r] = vmfr[r]
               \/ vmfr[r].exists /\ vmfr'[r] = WithFinalizer(vmfr[r])
    BY <2>1, <2>2 DEF TypeOK
  <2>4. ObjectsWellFormed'
    BY <2>3, WithFinalizerKey DEF TypeOK, CurrentInv, ObjectsWellFormed
  <2> QED
    BY <2>1, <2>4, <1>r
<1>3. CASE RemoveFinalizer
  <2>1. WorkerReturns
    BY <1>3 DEF RemoveFinalizer, WorkerReturns
  <2>2. \/ vmfr' = vmfr
        \/ /\ vmfr[cur].exists /\ vmfr[cur].deleting
           /\ vmfr' = [vmfr EXCEPT ![cur] = WithoutFinalizer(vmfr[cur])]
    BY <1>0, <1>3 DEF RemoveFinalizer, CopyIsCurrent, TypeOK, CurrentInv, LocIsCurrent,
       Unprotected, Finalizing
  <2>3. ASSUME NEW r \in Restores
        PROVE  vmfr'[r] = vmfr[r] \/ vmfr'[r] = NoVMFR
    BY <2>2, WithoutFinalizerKey DEF TypeOK
  <2>4. ObjectsWellFormed'
    BY <2>3, NoVMFRKey DEF TypeOK, CurrentInv, ObjectsWellFormed
  <2> QED
    BY <2>1, <2>4, <1>r
<1>4. ASSUME NEW r \in Restores, UserCreate(r) PROVE CurrentInv'
  <2>1. /\ UNCHANGED <<pc, cur, then, loc>> /\ creates + 1 \in Nat /\ creates + 1 > 0
        /\ ~vmfr[r].exists /\ vmfr'[r] = Created(creates + 1)
        /\ \A s \in Restores \ {r} : vmfr'[s] = vmfr[s]
    BY <1>4 DEF UserCreate, TypeOK
  <2>2. ObjectsWellFormed'
    BY <2>1, CreatedKey DEF CurrentInv, ObjectsWellFormed
  <2>3. LocIsCurrent'
    BY <1>0, <2>1 DEF CurrentInv, LocIsCurrent, Unprotected, Finalizing
  <2> QED
    BY <2>1, <2>2, <2>3 DEF CurrentInv, LocExists, PlansFollowPhase
<1>5. ASSUME NEW r \in Restores, UserDelete(r) PROVE CurrentInv'
  <2>1. /\ UNCHANGED <<pc, cur, then, loc>> /\ vmfr[r] \in VMFR
        /\ vmfr[r].exists /\ vmfr'[r] = Marked(vmfr[r])
        /\ \A s \in Restores \ {r} : vmfr'[s] = vmfr[s]
    BY <1>5 DEF UserDelete, TypeOK
  <2>2. /\ ~vmfr[r].finalizer => vmfr'[r] = NoVMFR
        /\ vmfr[r].finalizer => /\ vmfr'[r].exists /\ vmfr'[r].uid = vmfr[r].uid
                                /\ vmfr'[r].deleting /\ vmfr'[r].finalizer
                                /\ SameReport(vmfr'[r], vmfr[r])
    BY <2>1, MarkedKey, UpdateReport
  <2>3. ObjectsWellFormed'
    BY <2>1, <2>2, NoVMFRKey DEF CurrentInv, ObjectsWellFormed
  <2>4. LocIsCurrent'
    BY <1>0, <2>1, <2>2 DEF CurrentInv, LocIsCurrent, Unprotected, Finalizing, SameReport
  <2> QED
    BY <2>1, <2>3, <2>4 DEF CurrentInv, LocExists, PlansFollowPhase
<1>6. ASSUME NEW r \in Restores, TimePasses(r) PROVE CurrentInv'
  <2>1. UNCHANGED <<pc, cur, then>>
    BY <1>6 DEF TimePasses
  <2>2. SameReport(loc', loc) /\ SameKey(loc', loc)
    BY <1>6, UpdateReport, UpdateKey DEF TimePasses, TypeOK, SameReport, SameKey
  <2>3. \A s \in Restores : vmfr'[s] \in {vmfr[s], Aged(vmfr[s])} /\ vmfr[s] \in VMFR
    BY <1>6 DEF TimePasses, TypeOK
  <2>4. Aged(NoVMFR) = NoVMFR
    BY DEF Aged, NoVMFR
  <2>5. \A s \in Restores : Untouched(s) /\ (~vmfr[s].exists => vmfr'[s] = vmfr[s])
    BY <2>3, <2>4, UpdateReport, UpdateKey DEF Untouched, SameReport, SameKey, CurrentInv,
       ObjectsWellFormed
  <2> QED
    BY <2>1, <2>2, <2>5, RestingCurrent DEF WorkerRests
<1>7. CASE Crash
  BY <1>7, <1>r DEF Crash, WorkerReturns, CurrentInv, ObjectsWellFormed
<1>8. CASE \/ UserEditVM \/ StopVMI \/ DeleteVM \/ StartVMI
           \/ \E s \in Restores : \/ Attach(s) \/ Detach(s) \/ ProvisionDV(s)
                                  \/ OrphanMount(s) \/ OrphanCopy(s) \/ OrphanDies(s)
                                  \/ SyncVMFR(s)
           \/ HelperMount \/ HelperCopy \/ SyncVM \/ SyncVMI
           \/ UNCHANGED vars
  <2>1. UNCHANGED <<vmfr, pc, cur, then, loc>>
    BY <1>8 DEF UserEditVM, DeleteVM, ProvisionDV, StopVMI, GuestGone, StartVMI, Attach,
       Detach, OrphanMount, OrphanCopy, OrphanDies, HelperMount, HelperCopy, SyncVM,
       SyncVMI, SyncVMFR, vars
  <2> QED
    BY <2>1, RestingCurrent DEF WorkerRests, Untouched, SameKey, SameReport
<1> QED
  BY <1>1, <1>2, <1>3, <1>4, <1>5, <1>6, <1>7, <1>8, StepCurrent
     DEF Next, Disturbance, Environment

\* With current reads of the objects CurrentInv holds at every moment.
LEMMA AlwaysCurrent ==
    ASSUME CurrentObjects
    PROVE  Spec => []CurrentInv
<1>1. Init => CurrentInv
  BY NoVMFRKey DEF Init, CurrentInv, ObjectsWellFormed, LocExists, LocIsCurrent,
     PlansFollowPhase
<1>2. TypeOK /\ CurrentInv /\ [Next]_vars => CurrentInv'
  BY NextCurrent
<1> QED
  BY <1>1, <1>2, TypeCorrect, PTL DEF Spec

\* Succeeded and Failed are final, for every fault and however stale the VM and the
\* VMI are, as long as the objects are read current: no later reconcile, retry,
\* crash or late answer of a helper gives a finished restore another phase.
THEOREM TerminalFinal ==
    ASSUME CurrentObjects
    PROVE  Spec => TerminalIsFinal
<1> DEFINE Final(r) == vmfr[r].phase \in Terminal /\ vmfr'[r].uid = vmfr[r].uid
                          => vmfr'[r].phase = vmfr[r].phase
<1>1. ASSUME TypeOK, ObjectInv, CurrentInv, [Next]_vars, NEW r \in Restores
      PROVE  Final(r)
  <2>1. ObjectWrite(r)
    BY <1>1, ObjectWrites
  <2>2. /\ vmfr[r] \in VMFR /\ creates \in Nat /\ vmfr[r].uid <= creates
        /\ vmfr[r].phase \in Terminal => vmfr[r].uid > 0
    BY <1>1 DEF TypeOK, ObjectInv, UidsBounded, CurrentInv, ObjectsWellFormed, NoVMFR,
       Terminal
  <2>3. cur = r /\ ~Unprotected => loc.phase = vmfr[r].phase
    BY <1>1, ConstantsAssumption DEF CurrentInv, LocIsCurrent, SameReport
  <2>4. CASE Untouched(r)
    BY <2>4 DEF Untouched, SameReport
  <2>5. CASE cur = r /\ (TransitionPhase \/ FailRestore \/ RestoreDone \/ HandleInit)
    <3>1. ~Unprotected /\ loc.phase \notin Terminal
      BY <1>1, <2>5 DEF TransitionPhase, FailRestore, RestoreDone, HandleInit, Dispatched,
         Unprotected, CurrentInv, PlansFollowPhase, Follows, Terminal
    <3> QED BY <2>3, <2>5, <3>1
  <2>6. CASE vmfr'[r] = WithFinalizer(vmfr[r])
    BY <2>2, <2>6, UpdateReport DEF SameReport
  <2>7. CASE vmfr'[r] = WithoutFinalizer(vmfr[r])
    BY <2>2, <2>7, UpdateReport, WithoutFinalizerKey, NoVMFRKey DEF SameReport
  <2>8. CASE vmfr'[r] = Created(creates + 1)
    <3>1. vmfr'[r].uid = creates + 1
      BY <2>2, <2>8, CreatedKey
    <3> QED BY <2>2, <3>1 DEF VMFR
  <2>9. CASE vmfr'[r] = Marked(vmfr[r])
    BY <2>2, <2>9, UpdateReport, MarkedKey, NoVMFRKey DEF SameReport
  <2> QED
    BY <2>1, <2>4, <2>5, <2>6, <2>7, <2>8, <2>9 DEF ObjectWrite
<1>2. TypeOK /\ ObjectInv /\ CurrentInv /\ [Next]_vars => [\A r \in Restores : Final(r)]_vars
  BY <1>1
<1> QED
  BY <1>2, TypeCorrect, AlwaysObjects, AlwaysCurrent, PTL DEF Spec, TerminalIsFinal

----------------------------------------------------------------------------
(***************************************************************************)
(* Who writes the DataVolumes and the VMI, and how the worker comes to     *)
(* each point of a reconcile.                                              *)
(***************************************************************************)
InSpec(r) == r \in vm.volumes \cup vm.disks

\* The DataVolume of a restore is created by its hotplug, deleted by its clean-up,
\* and filled by CDI.
LEMMA DVWrites ==
    ASSUME TypeOK, [Next]_vars, NEW r \in Restores
    PROVE  \/ dv'[r] = dv[r]
           \/ HotplugVolume /\ cur = r /\ Kind[r] = "snapshot"
           \/ DeleteDataVolume /\ cur = r /\ dv'[r] = "none"
           \/ dv[r] # "none" /\ dv'[r] # "none"
<1> USE DEF api
<1>1. CASE HotplugVolume
  <2>1. dv' = dv \/ (Kind[cur] = "snapshot" /\ dv' = [dv EXCEPT ![cur] = "provisioning"])
    BY <1>1 DEF HotplugVolume, AwaitsDV
  <2> QED BY <1>1, <2>1 DEF TypeOK
<1>2. CASE DeleteDataVolume
  <2>1. dv' = dv \/ dv' = [dv EXCEPT ![cur] = "none"]
    BY <1>2 DEF DeleteDataVolume
  <2> QED BY <1>2, <2>1 DEF TypeOK
<1>3. ASSUME NEW s \in Restores, ProvisionDV(s)
      PROVE  dv'[r] = dv[r] \/ (dv[r] # "none" /\ dv'[r] # "none")
  BY <1>3 DEF ProvisionDV, TypeOK
<1>4. ASSUME NEW s \in Restores, Reconcile(s) PROVE dv' = dv
  BY <1>4 DEF Reconcile
<1>5. ASSUME Step, ~HotplugVolume, ~DeleteDataVolume PROVE dv' = dv
  BY <1>5 DEF Step, HandleDeletion, AddFinalizer, RemoveFinalizer, Settled,
     TransitionPhase, FailRestore, HandleInit, HandleHotplugging,
     HandleWaitingForAttachment, HandleSSHConnecting, HandleRestoring, RestoreDone, RestoreTimeout,
     HandleCleanup, VerifyUnplug, CleanupUnmount, UnplugVolume
<1>6. ASSUME Disturbance PROVE dv' = dv
  BY <1>6 DEF Disturbance, UserCreate, UserDelete, UserEditVM, StopVMI, DeleteVM, GuestGone,
     Crash
<1>7. ASSUME Environment, \A s \in Restores : ~ProvisionDV(s) PROVE dv' = dv
  BY <1>7 DEF Environment, StartVMI, Attach, Detach, HelperMount, HelperCopy, OrphanMount,
     OrphanCopy, OrphanDies, SyncVMFR, TimePasses, SyncVM, SyncVMI
<1>8. CASE UNCHANGED vars
  BY <1>8 DEF vars
<1> QED
  BY <1>1, <1>2, <1>3, <1>4, <1>5, <1>6, <1>7, <1>8 DEF Next

\* The VMI lists a volume only when the VM spec does, and none when it is stopped.
LEMMA VMIWrites ==
    ASSUME TypeOK, [Next]_vars
    PROVE  \/ vmi' = vmi
           \/ /\ ~vmi'.running /\ mounts' = {}
              /\ \A r \in Restores : vmi'.status[r] = "absent"
           \/ /\ vmi'.running
              /\ \A r \in Restores : vmi'.status[r] # "absent"
                                        => vmi.status[r] # "absent" \/ r \in vm.volumes
<1> USE DEF api
<1>1. CASE StopVMI \/ DeleteVM
  BY <1>1 DEF StopVMI, DeleteVM, GuestGone, Stopped
<1>2. CASE StartVMI
  BY <1>2 DEF StartVMI
<1>3. ASSUME NEW s \in Restores, Attach(s) \/ Detach(s)
      PROVE  /\ vmi'.running
             /\ \A r \in Restores : vmi'.status[r] # "absent"
                                       => vmi.status[r] # "absent" \/ r \in vm.volumes
  BY <1>3 DEF Attach, Detach, TypeOK, VMI
<1>4. ASSUME NEW s \in Restores, Reconcile(s) PROVE vmi' = vmi
  BY <1>4 DEF Reconcile
<1>5. ASSUME Step PROVE vmi' = vmi
  BY <1>5 DEF Step, HandleDeletion, AddFinalizer, RemoveFinalizer, Settled,
     TransitionPhase, FailRestore, HandleInit, HandleHotplugging, HotplugVolume,
     HandleWaitingForAttachment, HandleSSHConnecting, HandleRestoring, RestoreDone,
     RestoreTimeout, HandleCleanup, VerifyUnplug, CleanupUnmount, UnplugVolume, DeleteDataVolume
<1>6. ASSUME Disturbance, ~StopVMI, ~DeleteVM PROVE vmi' = vmi
  BY <1>6 DEF Disturbance, UserCreate, UserDelete, UserEditVM, Crash
<1>7. ASSUME Environment, ~StartVMI, \A s \in Restores : ~Attach(s) /\ ~Detach(s)
      PROVE  vmi' = vmi
  BY <1>7 DEF Environment, ProvisionDV, HelperMount, HelperCopy, OrphanMount,
     OrphanCopy, OrphanDies, SyncVMFR, TimePasses, SyncVM, SyncVMI
<1>8. CASE UNCHANGED vars
  BY <1>8 DEF vars
<1> QED
  BY <1>1, <1>2, <1>3, <1>4, <1>5, <1>6, <1>7, <1>8 DEF Next

\* How the worker comes to the points after the dispatch.
LEMMA WorkerMoves ==
    ASSUME TypeOK, [Next]_vars
    PROVE  \/ UNCHANGED <<pc, cur, then>>
           \/ pc' \in {"idle", "dispatch", "fail", "unmount"}
           \/ /\ cur' = cur /\ pc' = "unplug"
              /\ (CleanupUnmount /\ then' = then) \/ (HandleCleanup /\ then' = "verify")
           \/ cur' = cur /\ pc' = "deleteDV" /\ then' = then /\ UnplugVolume
           \/ /\ cur' = cur /\ pc' \in {"verify", "finalize"} /\ pc' = then /\ then' = "none"
              /\ \/ UnplugVolume \/ DeleteDataVolume
                 \/ CleanupUnmount /\ ~CachedVM.exists
           \/ cur' = cur /\ pc' = "plug" /\ then' = "none" /\ HandleHotplugging
           \/ cur' = cur /\ pc' = "helper" /\ then' = "none" /\ HandleRestoring
           \/ /\ cur' = cur /\ pc' = "transition"
              /\ \/ then' = "Hotplugging" /\ HandleInit
                 \/ /\ then' = "WaitingForAttachment"
                    /\ HandleHotplugging \/ HotplugVolume
                 \/ then' = "SSHConnecting" /\ HandleWaitingForAttachment
                 \/ then' = "Restoring" /\ HandleSSHConnecting
                 \/ then' = "Succeeded" /\ (HandleCleanup \/ VerifyUnplug)
<1> USE DEF Return, Continue, ContinueWithVM, worker
<1>1. ASSUME NEW s \in Restores, Reconcile(s)
      PROVE  UNCHANGED <<pc, cur, then>> \/ pc' = "dispatch"
  BY <1>1 DEF Reconcile
<1>2. CASE HandleDeletion \/ AddFinalizer \/ RemoveFinalizer \/ Settled \/ TransitionPhase
           \/ FailRestore \/ RestoreDone \/ RestoreTimeout
  <2>1. pc' \in {"idle", "fail", "unmount"}
    BY <1>2 DEF HandleDeletion, AddFinalizer, RemoveFinalizer, Settled, TransitionPhase,
       FailRestore, RestoreDone, RestoreTimeout, PatchFails
  <2> QED BY <2>1
<1>3. CASE HandleInit
  BY <1>3 DEF HandleInit, PatchFails
<1>4. CASE HandleHotplugging
  BY <1>4 DEF HandleHotplugging
<1>5. CASE HandleWaitingForAttachment
  BY <1>5 DEF HandleWaitingForAttachment, PatchFails
<1>6. CASE HandleSSHConnecting
  BY <1>6 DEF HandleSSHConnecting, PatchFails
<1>7. CASE HandleRestoring
  BY <1>7 DEF HandleRestoring
<1>8. CASE HandleCleanup
  BY <1>8 DEF HandleCleanup
<1>9. CASE VerifyUnplug
  BY <1>9 DEF VerifyUnplug
<1>10. CASE CleanupUnmount
  BY <1>10 DEF CleanupUnmount, Resume, TypeOK, ControlOK
<1>11. CASE UnplugVolume
  BY <1>11 DEF UnplugVolume, Resume, ResumeAfterError
<1>12. CASE DeleteDataVolume
  BY <1>12 DEF DeleteDataVolume, Resume, ResumeAfterError
<1>13. ASSUME Disturbance PROVE UNCHANGED <<pc, cur, then>> \/ pc' = "idle"
  BY <1>13 DEF Disturbance, UserCreate, UserDelete, UserEditVM, StopVMI, DeleteVM, GuestGone,
     Crash
<1>14. ASSUME Environment PROVE UNCHANGED <<pc, cur, then>>
  BY <1>14 DEF Environment, StartVMI, Attach, Detach, ProvisionDV, HelperMount, HelperCopy,
     OrphanMount, OrphanCopy, OrphanDies, SyncVMFR, TimePasses, SyncVM, SyncVMI
<1>15. CASE UNCHANGED vars
  BY <1>15 DEF vars
<1>16. CASE HotplugVolume
  BY <1>16 DEF HotplugVolume
<1> QED
  BY <1>1, <1>2, <1>3, <1>4, <1>5, <1>6, <1>7, <1>8, <1>9, <1>10, <1>11, <1>12, <1>13,
     <1>14, <1>15, <1>16 DEF Next, Step

\* The worker is at the dispatch because it has just read the object, or it has not
\* moved since.
LEMMA WorkerDispatches ==
    ASSUME TypeOK, [Next]_vars, pc' = "dispatch"
    PROVE  \/ /\ cur' \in Restores /\ Reconcile(cur') /\ loc' = CachedVMFR(cur')
              /\ UNCHANGED <<vmfr, vm>>
           \/ UNCHANGED <<pc, cur>> /\ SameKey(loc', loc) /\ SameReport(loc', loc)
<1> USE DEF worker, api
<1>1. ASSUME NEW s \in Restores, Reconcile(s)
      PROVE  \/ cur' = s /\ loc' = CachedVMFR(s) /\ UNCHANGED <<vmfr, vm>>
             \/ UNCHANGED <<pc, cur, loc>>
  BY <1>1 DEF Reconcile
<1>2. ~Step
  BY DEF Step, HandleDeletion, AddFinalizer, RemoveFinalizer, Settled, TransitionPhase,
     FailRestore, HandleInit, HandleHotplugging, HotplugVolume, HandleWaitingForAttachment,
     HandleSSHConnecting, HandleRestoring, RestoreDone, RestoreTimeout, HandleCleanup,
     VerifyUnplug, CleanupUnmount, UnplugVolume, DeleteDataVolume, Return, Continue,
     ContinueWithVM, PatchFails, Resume, ResumeAfterError
<1>3. ASSUME Disturbance PROVE UNCHANGED <<pc, cur, loc>>
  BY <1>3 DEF Disturbance, UserCreate, UserDelete, UserEditVM, StopVMI, DeleteVM, GuestGone,
     Crash
<1>4. ASSUME NEW s \in Restores, TimePasses(s)
      PROVE  UNCHANGED <<pc, cur>> /\ (loc' = loc \/ loc' = Aged(loc))
  BY <1>4 DEF TimePasses
<1>5. ASSUME Environment, \A s \in Restores : ~TimePasses(s)
      PROVE  UNCHANGED <<pc, cur, loc>>
  BY <1>5 DEF Environment, StartVMI, Attach, Detach, ProvisionDV, HelperMount, HelperCopy,
     OrphanMount, OrphanCopy, OrphanDies, SyncVMFR, SyncVM, SyncVMI
<1>6. CASE UNCHANGED vars
  BY <1>6 DEF vars, SameKey, SameReport
<1>7. ASSUME loc' = loc \/ loc' = Aged(loc) PROVE SameKey(loc', loc) /\ SameReport(loc', loc)
  BY <1>7, UpdateKey, UpdateReport DEF TypeOK, SameKey, SameReport
<1> QED
  BY <1>1, <1>2, <1>3, <1>4, <1>5, <1>6, <1>7 DEF Next

\* How the worker leaves the points of a clean-up.
LEMMA WorkerLeaves ==
    ASSUME [Next]_vars, pc \in {"unmount", "unplug", "deleteDV"}
    PROVE  \/ UNCHANGED <<pc, cur, then>>
           \/ Crash /\ "crash" \in Faults
           \/ pc = "unmount" /\ CleanupUnmount
           \/ pc = "unplug" /\ UnplugVolume
           \/ pc = "deleteDV" /\ DeleteDataVolume
<1> USE DEF worker
<1>1. \A s \in Restores : ~Reconcile(s)
  BY DEF Reconcile
<1>2. ASSUME Step
      PROVE  \/ pc = "unmount" /\ CleanupUnmount
             \/ pc = "unplug" /\ UnplugVolume
             \/ pc = "deleteDV" /\ DeleteDataVolume
  BY <1>2 DEF Step, HandleDeletion, AddFinalizer, RemoveFinalizer, Settled, TransitionPhase,
     FailRestore, HandleInit, HandleHotplugging, HotplugVolume, HandleWaitingForAttachment,
     HandleSSHConnecting, HandleRestoring, RestoreDone, RestoreTimeout, HandleCleanup,
     VerifyUnplug, CleanupUnmount, UnplugVolume, DeleteDataVolume, Dispatched
<1>3. ASSUME Disturbance PROVE UNCHANGED <<pc, cur, then>> \/ (Crash /\ "crash" \in Faults)
  BY <1>3 DEF Disturbance, UserCreate, UserDelete, UserEditVM, StopVMI, DeleteVM, GuestGone,
     Crash, Fault, MayFault
<1>4. ASSUME Environment PROVE UNCHANGED <<pc, cur, then>>
  BY <1>4 DEF Environment, StartVMI, Attach, Detach, ProvisionDV, HelperMount, HelperCopy,
     OrphanMount, OrphanCopy, OrphanDies, SyncVMFR, TimePasses, SyncVM, SyncVMI
<1>5. CASE UNCHANGED vars
  BY <1>5 DEF vars
<1> QED
  BY <1>1, <1>2, <1>3, <1>4, <1>5 DEF Next

\* A restore gets something to hold only by its own hotplug, and entries in the VM
\* spec only on the way to WaitingForAttachment.
LEMMA HoldsGrows ==
    ASSUME TypeOK, OneRestoreInv, SeenInv, [Next]_vars, NEW r \in Restores
    PROVE  /\ Holds(r)' => Holds(r) \/ (HotplugVolume /\ cur = r)
           /\ InSpec(r)' => InSpec(r) \/ (Plugs /\ cur = r)
<1>1. InSpec(r)' => InSpec(r) \/ (Plugs /\ cur = r)
  BY VMWrites DEF InSpec, Plugs, Unplugs, Edits, Deletes
<1>2. dv'[r] # "none" => dv[r] # "none" \/ (HotplugVolume /\ cur = r)
  BY DVWrites
<1> QED
  BY <1>1, <1>2 DEF Holds, InSpec, Plugs

\* What UnplugVolume does with a VM that was read current: it takes the entries out,
\* or leaves the VM as it is because it is gone or its patch fails.
LEMMA UnplugResult ==
    ASSUME TypeOK, OneRestoreInv, SeenInv, UnplugVolume
    PROVE  /\ cur \in Restores /\ UNCHANGED <<vmfr, vmi, dv, mounts>>
           /\ then \in {"return", "finalize", "verify"}
           /\ \/ /\ Unplugs
                 /\ IF Kind[cur] = "snapshot"
                    THEN pc' = "deleteDV" /\ then' = then /\ cur' = cur
                    ELSE Resume
              \/ /\ vm' = vm /\ (~vm.exists \/ "vmapi" \in Faults)
                 /\ ResumeAfterError
<1>1. /\ cur \in Restores /\ UNCHANGED <<vmfr, vmi, dv, mounts>>
      /\ then \in {"return", "finalize", "verify"}
  BY DEF TypeOK, ControlOK, UnplugVolume, guest
<1>2. \/ /\ PatchVM(Without(seen))
         /\ IF Kind[cur] = "snapshot"
            THEN pc' = "deleteDV" /\ then' = then /\ cur' = cur
            ELSE Resume
      \/ /\ vm' = vm /\ (~vm.exists \/ "vmapi" \in Faults)
         /\ ResumeAfterError
  BY DEF UnplugVolume, Continue, WriteFails, Fault, MayFault
<1> QED
  BY <1>1, <1>2, PatchedOut

\* What the deletion of the DataVolume does.
LEMMA DeleteResult ==
    ASSUME TypeOK, DeleteDataVolume
    PROVE  /\ cur \in Restores /\ UNCHANGED <<vmfr, vm, vmi, mounts>> /\ pc = "deleteDV"
           /\ then \in {"return", "finalize", "verify"}
           /\ \/ dv'[cur] = "none" /\ Resume
              \/ "dvapi" \in Faults /\ ResumeAfterError
  BY DEF DeleteDataVolume, TypeOK, ControlOK, Fault, MayFault, guest

----------------------------------------------------------------------------
(***************************************************************************)
(* A restore that has succeeded is detached.                               *)
(***************************************************************************)
DetachInv ==
    /\ vm.exists /\ OnlySnapshotsHaveDVs
    /\ ~vmi.running => \A r \in Restores : vmi.status[r] = "absent"
    /\ pc = "deleteDV" /\ then = "verify" => ~InSpec(cur)
    /\ pc = "verify" => ~Holds(cur)
    /\ pc = "transition" /\ then = "Succeeded" => ~Holds(cur) /\ vmi.status[cur] = "absent"
    /\ SucceededIsDetached

\* Every step keeps it.
LEMMA DetachStep ==
    ASSUME TypeOK, OneRestoreInv, SeenInv, CurrentInv, DetachInv,
           Lagging = {}, "vmdelete" \notin Faults, [Next]_vars
    PROVE  DetachInv'
<1>1. /\ CachedVM = vm /\ CachedVMI = vmi /\ CurrentVM /\ ~DeleteVM /\ vm.exists
      /\ cur # None => cur \in Restores
  BY DEF CachedVM, CachedVMI, CurrentVM, DeleteVM, Fault, MayFault, DetachInv, TypeOK
<1>2. vm'.exists
  BY <1>1, VMWrites DEF Plugs, Unplugs, Edits, Deletes
<1>3. OnlySnapshotsHaveDVs'
  BY DVWrites DEF DetachInv, OnlySnapshotsHaveDVs
<1>4. (~vmi.running => \A r \in Restores : vmi.status[r] = "absent")'
  BY VMIWrites DEF DetachInv
<1>5. ASSUME NEW r \in Restores, ~Holds(r), vmi.status[r] = "absent"
      PROVE  vmi'.status[r] = "absent"
  BY <1>5, VMIWrites DEF Holds
<1>6. HotplugVolume => /\ pc = "plug" /\ vmfr[cur].phase = "Hotplugging"
                       /\ pc' \notin {"deleteDV", "verify"}
                       /\ ~(pc' = "transition" /\ then' = "Succeeded")
  <2>1. HotplugVolume => loc.phase = "Hotplugging" /\ cur # None /\ ~Unprotected
                         /\ pc = "plug"
    BY DEF HotplugVolume, Unprotected, TypeOK, CurrentInv, PlansFollowPhase
  <2>2. HotplugVolume => /\ pc' \notin {"deleteDV", "verify"}
                         /\ ~(pc' = "transition" /\ then' = "Succeeded")
    BY DEF HotplugVolume, Return, Continue
  <2> QED
    BY <2>1, <2>2 DEF CurrentInv, LocIsCurrent, SameReport
<1>7. (pc = "deleteDV" /\ then = "verify" => ~InSpec(cur))'
  <2> SUFFICES ASSUME pc' = "deleteDV", then' = "verify" PROVE ~InSpec(cur)'
    OBVIOUS
  <2>1. CASE UNCHANGED <<pc, cur, then>>
    <3>1. cur \in Restores /\ cur' = cur /\ ~InSpec(cur) /\ ~HotplugVolume
      BY <1>1, <1>6, <2>1 DEF DetachInv, TypeOK
    <3> QED BY <1>1, <3>1, HoldsGrows DEF InSpec, Plugs
  <2>2. CASE cur' = cur /\ UnplugVolume
    BY <1>1, <2>2, UnplugResult DEF Unplugs, InSpec, Resume, ResumeAfterError, Return,
       Continue
  <2> QED BY <2>1, <2>2, WorkerMoves
<1>8. (pc = "verify" => ~Holds(cur))'
  <2> SUFFICES ASSUME pc' = "verify" PROVE ~Holds(cur)'
    OBVIOUS
  <2>1. CASE UNCHANGED <<pc, cur, then>>
    <3>1. cur \in Restores /\ cur' = cur /\ ~Holds(cur) /\ ~HotplugVolume
      BY <1>1, <1>6, <2>1 DEF DetachInv, TypeOK
    <3> QED BY <1>1, <3>1, HoldsGrows DEF Holds
  <2>2. CASE cur' = cur /\ then = "verify" /\ UnplugVolume
    <3>1. Unplugs /\ Kind[cur] # "snapshot" /\ dv' = dv /\ cur \in Restores
      BY <1>1, <2>2, UnplugResult DEF Resume, ResumeAfterError, Return, Continue
    <3> QED BY <2>2, <3>1 DEF DetachInv, OnlySnapshotsHaveDVs, Unplugs, Holds
  <2>3. CASE cur' = cur /\ then = "verify" /\ DeleteDataVolume
    <3>1. vm' = vm /\ dv'[cur] = "none" /\ ~InSpec(cur)
      BY <1>1, <2>3, DeleteResult DEF DetachInv, ResumeAfterError, Return, Continue
    <3> QED BY <2>3, <3>1 DEF InSpec, Holds
  <2> QED BY <1>1, <2>1, <2>2, <2>3, WorkerMoves
<1>9. (pc = "transition" /\ then = "Succeeded" => ~Holds(cur) /\ vmi.status[cur] = "absent")'
  <2> SUFFICES ASSUME pc' = "transition", then' = "Succeeded"
               PROVE  ~Holds(cur)' /\ vmi'.status[cur'] = "absent"
    OBVIOUS
  <2>1. CASE UNCHANGED <<pc, cur, then>>
    <3>1. /\ cur \in Restores /\ cur' = cur /\ ~Holds(cur) /\ ~HotplugVolume
          /\ vmi.status[cur] = "absent"
      BY <1>1, <1>6, <2>1 DEF DetachInv, TypeOK
    <3> QED BY <1>1, <1>5, <3>1, HoldsGrows DEF Holds
  <2>2. CASE cur' = cur /\ VerifyUnplug
    <3>1. /\ UNCHANGED <<vm, vmi, dv>> /\ pc = "verify" /\ cur \in Restores
          /\ ~vmi.running \/ vmi.status[cur] = "absent"
      BY <1>1, <2>2 DEF VerifyUnplug, api, Return, Continue, TypeOK
    <3> QED BY <2>2, <3>1 DEF DetachInv, Holds
  <2>3. CASE HandleCleanup
    BY <1>1, <2>3 DEF HandleCleanup, ContinueWithVM
  <2> QED BY <2>1, <2>2, <2>3, WorkerMoves
<1>10. SucceededIsDetached'
  <2> SUFFICES ASSUME NEW r \in Restores, vmfr'[r].phase = "Succeeded"
               PROVE  ~Holds(r)' /\ vmi'.status[r] = "absent"
    BY DEF SucceededIsDetached, Holds
  <2>1. CASE vmfr[r].phase = "Succeeded"
    <3>1. ~Holds(r) /\ vmi.status[r] = "absent"
      BY <2>1 DEF DetachInv, SucceededIsDetached
    <3>2. ~(HotplugVolume /\ cur = r)
      BY <1>6, <2>1
    <3> QED BY <1>1, <1>5, <3>1, <3>2, HoldsGrows
  <2>2. CASE vmfr[r].phase # "Succeeded"
    <3>1. cur = r /\ TransitionPhase /\ then = "Succeeded"
      BY <2>2, PhaseWrites
    <3>2. UNCHANGED <<vm, vmi, dv>> /\ pc = "transition"
      BY <3>1 DEF TransitionPhase
    <3> QED BY <3>1, <3>2 DEF DetachInv, Holds
  <2> QED BY <2>1, <2>2
<1> QED
  BY <1>2, <1>3, <1>4, <1>7, <1>8, <1>9, <1>10 DEF DetachInv, InSpec, Holds

\* When Succeeded is reported the volume is out of the VM spec and detached from the
\* running instance and the DataVolume is gone, and it stays so: through restarts of
\* the VM, edits of its spec, crashes, failed writes and new restores, as long as the
\* caches are current and the VM is not deleted.
THEOREM SucceededDetached ==
    ASSUME Lagging = {}, "vmdelete" \notin Faults
    PROVE  Spec => []SucceededIsDetached
<1>1. Init => DetachInv
  BY ConstantsAssumption, NoVMFRKey DEF Init, DetachInv, OnlySnapshotsHaveDVs,
     SucceededIsDetached, NoVMFR
<1>2. TypeOK /\ OneRestoreInv /\ SeenInv /\ CurrentInv /\ DetachInv /\ [Next]_vars
         => DetachInv'
  BY DetachStep
<1>3. DetachInv => SucceededIsDetached
  BY DEF DetachInv
<1>4. (Spec => []CurrentInv) /\ (Spec => []SeenInv)
  BY AlwaysCurrent, AlwaysSeen DEF CurrentObjects, CurrentVM
<1> QED
  BY <1>1, <1>2, <1>3, <1>4, TypeCorrect, AlwaysOneRestore, PTL DEF Spec

----------------------------------------------------------------------------
(***************************************************************************)
(* A restore that has failed is clean.                                     *)
(***************************************************************************)
Cleaning(r) == cur = r /\ pc \in {"unmount", "unplug", "deleteDV"}

FailInv ==
    /\ vm.exists /\ OnlySnapshotsHaveDVs
    /\ pc = "deleteDV" => ~InSpec(cur)
    /\ \A r \in Restores : vmfr[r].phase = "Failed" => ~Holds(r) \/ Cleaning(r)

CleanupSucceeds ==
    CurrentObjects /\ CurrentVM /\ Faults \cap {"crash", "vmapi", "dvapi", "vmdelete"} = {}

\* Every step keeps it.
LEMMA FailStep ==
    ASSUME TypeOK, OneRestoreInv, SeenInv, CurrentInv, FailInv, CleanupSucceeds, [Next]_vars
    PROVE  FailInv'
<1>1. /\ CurrentVM /\ ~DeleteVM /\ ~Crash /\ vm.exists /\ "vmapi" \notin Faults
      /\ "dvapi" \notin Faults /\ (cur # None => cur \in Restores)
  BY DEF CleanupSucceeds, DeleteVM, Crash, Fault, MayFault, FailInv, TypeOK
<1>2. vm'.exists
  BY <1>1, VMWrites DEF Plugs, Unplugs, Edits, Deletes
<1>3. OnlySnapshotsHaveDVs'
  BY DVWrites DEF FailInv, OnlySnapshotsHaveDVs
<1>4. HotplugVolume => /\ pc = "plug" /\ vmfr[cur].phase = "Hotplugging"
                       /\ pc' # "deleteDV"
  <2>1. HotplugVolume => /\ loc.phase = "Hotplugging" /\ cur # None /\ ~Unprotected
                         /\ pc = "plug" /\ pc' # "deleteDV"
    BY DEF HotplugVolume, Unprotected, Return, Continue, TypeOK, CurrentInv,
       PlansFollowPhase
  <2> QED
    BY <2>1 DEF CurrentInv, LocIsCurrent, SameReport
<1>5. (pc = "deleteDV" => ~InSpec(cur))'
  <2> SUFFICES ASSUME pc' = "deleteDV" PROVE ~InSpec(cur)'
    OBVIOUS
  <2>1. CASE UNCHANGED <<pc, cur, then>>
    <3>1. cur \in Restores /\ cur' = cur /\ ~InSpec(cur) /\ ~HotplugVolume
      BY <1>1, <1>4, <2>1 DEF FailInv, TypeOK
    <3> QED BY <1>1, <3>1, HoldsGrows DEF InSpec, Plugs
  <2>2. CASE cur' = cur /\ UnplugVolume
    BY <1>1, <2>2, UnplugResult DEF Unplugs, InSpec
  <2> QED BY <2>1, <2>2, WorkerMoves
<1>6. ASSUME NEW r \in Restores, vmfr'[r].phase = "Failed"
      PROVE  ~Holds(r)' \/ Cleaning(r)'
  <2>1. CASE vmfr[r].phase # "Failed"
    <3>1. ~(TransitionPhase /\ then = "Failed")
      BY DEF TransitionPhase, CurrentInv, PlansFollowPhase, Follows
    <3>2. cur = r /\ FailRestore
      BY <1>6, <2>1, <3>1, PhaseWrites
    <3>3. vmfr' # vmfr
      BY <1>6, <2>1
    <3> QED BY <3>2, <3>3 DEF FailRestore, PatchFails, Continue, Cleaning
  <2>2. CASE ~Holds(r)
    <3>1. CASE vmfr[r].phase = "Failed"
      BY <1>1, <1>4, <2>2, <3>1, HoldsGrows
    <3> QED BY <2>1, <3>1
  <2>3. CASE Cleaning(r) /\ UNCHANGED <<pc, cur, then>>
    BY <2>3 DEF Cleaning
  <2>4. CASE cur = r /\ CleanupUnmount
    BY <1>1, <2>4 DEF CleanupUnmount, ContinueWithVM, CachedVM, CurrentVM, Cleaning
  <2>5. CASE cur = r /\ UnplugVolume
    <3>1. /\ Unplugs /\ dv' = dv
          /\ IF Kind[cur] = "snapshot" THEN pc' = "deleteDV" /\ cur' = cur ELSE Resume
      BY <1>1, <2>5, UnplugResult
    <3>2. CASE Kind[r] = "snapshot"
      BY <2>5, <3>1, <3>2 DEF Cleaning
    <3>3. CASE Kind[r] # "snapshot"
      BY <2>5, <3>1, <3>3 DEF FailInv, OnlySnapshotsHaveDVs, Unplugs, Holds
    <3> QED BY <3>2, <3>3
  <2>6. CASE cur = r /\ DeleteDataVolume
    BY <1>1, <2>6, DeleteResult DEF FailInv, InSpec, Holds
  <2>7. CASE vmfr[r].phase = "Failed" /\ Holds(r)
    <3>1. Cleaning(r)
      BY <2>7 DEF FailInv
    <3> QED BY <1>1, <3>1, <2>3, <2>4, <2>5, <2>6, WorkerLeaves DEF Cleaning
  <2> QED BY <2>1, <2>2, <2>7
<1> QED
  BY <1>2, <1>3, <1>5, <1>6 DEF FailInv, Cleaning, InSpec, Holds

\* A restore that has failed, once the worker is done with it, has nothing left in the
\* cluster: through lost sessions, timeouts, failed copies and status writes, restarts
\* of the VM and a stale VMI, as long as objects and VM are read current, the patches
\* of the clean-up succeed, and neither the operator nor the VM goes away in between.
THEOREM FailedClean ==
    ASSUME CleanupSucceeds
    PROVE  Spec => []FailedIsClean
<1>1. Init => FailInv
  BY ConstantsAssumption DEF Init, FailInv, OnlySnapshotsHaveDVs, NoVMFR
<1>2. TypeOK /\ OneRestoreInv /\ SeenInv /\ CurrentInv /\ FailInv /\ [Next]_vars
         => FailInv'
  BY FailStep
<1>3. FailInv => FailedIsClean
  BY DEF FailInv, FailedIsClean, Cleaning
<1>4. (Spec => []CurrentInv) /\ (Spec => []SeenInv)
  BY AlwaysCurrent, AlwaysSeen DEF CleanupSucceeds
<1> QED
  BY <1>1, <1>2, <1>3, <1>4, TypeCorrect, AlwaysOneRestore, PTL DEF Spec

----------------------------------------------------------------------------
(***************************************************************************)
(* The slot of the VM: which restores have their volume in the VM spec.    *)
(***************************************************************************)
Plugged == {"WaitingForAttachment", "SSHConnecting", "Restoring", "VolumeReady"}

SlotTaken ==
    /\ pc = "dispatch" /\ ~loc.deleting /\ loc.phase \in Plugged => cur \in vm.volumes
    /\ pc = "helper" \/ (pc = "transition" /\ then = "WaitingForAttachment")
          => cur \in vm.volumes
    /\ \A r \in Restores :
          vmfr[r].phase \in Plugged /\ ~vmfr[r].deleting => r \in vm.volumes

TakenInv == vm.exists /\ SlotTaken

VolumesAnchored == \A r \in Restores : r \in vm.volumes => vmfr[r].exists /\ vmfr[r].finalizer

SlotGivenBack ==
    pc \in {"deleteDV", "verify", "finalize"} \/ (pc = "transition" /\ then = "Succeeded")
        => cur \notin vm.volumes

SlotInv == TakenInv /\ VolumesAnchored /\ SlotGivenBack

VMStays == CurrentObjects /\ CurrentVM /\ "vmdelete" \notin Faults

PatchesSucceed == VMStays /\ "vmapi" \notin Faults

\* Who shall have the volume has it, also when patches are refused.
LEMMA TakenStep ==
    ASSUME TypeOK, OneRestoreInv, SeenInv, CurrentInv, TakenInv, VMStays, [Next]_vars
    PROVE  TakenInv'
<1>1. /\ CachedVM = vm /\ CurrentVM /\ ~DeleteVM /\ vm.exists
      /\ (cur # None => cur \in Restores)
  BY DEF VMStays, CurrentVM, CachedVM, DeleteVM, Fault, MayFault, TakenInv, TypeOK
<1>2. vm' = vm \/ Plugs \/ Unplugs \/ Edits
  BY <1>1, VMWrites DEF Deletes
<1>3. vm'.exists
  BY <1>1, <1>2 DEF Plugs, Unplugs, Edits
<1>4. ASSUME NEW r \in Restores
      PROVE  /\ r \in vm'.volumes => r \in vm.volumes \/ (Plugs /\ cur = r)
             /\ r \in vm.volumes => r \in vm'.volumes \/ (Unplugs /\ cur = r)
  BY <1>2 DEF Plugs, Unplugs, Edits
<1>5. cur # None /\ ~Unprotected => /\ vmfr[cur].exists /\ vmfr[cur].finalizer
                                    /\ loc.phase = vmfr[cur].phase
                                    /\ Finalizing => vmfr[cur].deleting
  BY DEF CurrentInv, LocIsCurrent, SameReport
<1>6. ASSUME NEW r \in Restores, vmfr[r].phase \in Plugged, ~vmfr[r].deleting
      PROVE  r \in vm.volumes /\ ~(Unplugs /\ cur = r)
  <2>1. r \in vm.volumes
    BY <1>6 DEF TakenInv, SlotTaken
  <2>2. ASSUME Unplugs, cur = r PROVE FALSE
    <3>1. cur # None /\ ~Unprotected /\ then \in {"return", "finalize", "verify"}
      BY <2>2, ConstantsAssumption DEF Unplugs, UnplugVolume, Unprotected, TypeOK, ControlOK
    <3>2. then # "finalize"
      BY <1>5, <1>6, <2>2, <3>1 DEF Finalizing
    <3>3. loc.phase \in {"Failed", "Cleanup"}
      BY <3>1, <3>2 DEF CurrentInv, PlansFollowPhase
    <3> QED BY <1>5, <1>6, <2>2, <3>1, <3>3 DEF Plugged
  <2> QED BY <2>1, <2>2
<1>7. ASSUME pc' = "dispatch", ~loc'.deleting, loc'.phase \in Plugged
      PROVE  cur' \in vm'.volumes
  <2>1. CASE /\ cur' \in Restores /\ loc' = CachedVMFR(cur') /\ UNCHANGED <<vmfr, vm>>
    BY <1>6, <1>7, <2>1 DEF CachedVMFR, VMStays, CurrentObjects
  <2>2. CASE UNCHANGED <<pc, cur>> /\ SameKey(loc', loc) /\ SameReport(loc', loc)
    <3>1. cur \in Restores /\ cur' = cur /\ cur \in vm.volumes
      BY <1>7, <2>2 DEF TakenInv, SlotTaken, SameKey, SameReport, TypeOK
    <3>2. ~Unplugs
      BY <1>7, <2>2 DEF Unplugs, UnplugVolume
    <3> QED BY <1>4, <3>1, <3>2
  <2> QED BY <1>7, <2>1, <2>2, WorkerDispatches
<1>8. ASSUME pc' = "helper" \/ (pc' = "transition" /\ then' = "WaitingForAttachment")
       PROVE  cur' \in vm'.volumes
  <2>1. CASE UNCHANGED <<pc, cur, then>>
    <3>1. cur \in Restores /\ cur' = cur /\ cur \in vm.volumes
      BY <1>1, <1>8, <2>1 DEF TakenInv, SlotTaken, TypeOK
    <3>2. ~Unplugs
      BY <1>8, <2>1 DEF Unplugs, UnplugVolume
    <3> QED BY <1>4, <3>1, <3>2
  <2>2. CASE cur' = cur /\ HandleHotplugging
    BY <1>1, <1>8, <2>2 DEF HandleHotplugging, Continue, ContinueWithVM, api
  <2>4. CASE cur' = cur /\ HotplugVolume
    <3>1. PatchVM(Added(seen, {cur}))
      BY <1>8, <2>4 DEF HotplugVolume, Return, Continue
    <3> QED BY <2>4, <3>1, PatchedIn
  <2>3. CASE cur' = cur /\ HandleRestoring
    BY <2>3 DEF HandleRestoring, Dispatched, api, TakenInv, SlotTaken, Plugged
  <2> QED BY <1>8, <2>1, <2>2, <2>3, <2>4, WorkerMoves
<1>9. ASSUME NEW r \in Restores, vmfr'[r].phase \in Plugged, ~vmfr'[r].deleting
       PROVE  r \in vm'.volumes
  <2>3. ~vmfr[r].deleting
    BY <1>9, DeletionKept DEF Plugged
  <2>4. CASE vmfr[r].phase \in Plugged
    BY <1>4, <1>6, <2>3, <2>4
  <2>5. CASE vmfr[r].phase \notin Plugged
    <3>1. vmfr'[r].phase # vmfr[r].phase
      BY <1>9, <2>5
    <3>2. \/ cur = r /\ TransitionPhase /\ vmfr'[r].phase = then
          \/ cur = r /\ RestoreDone
      BY <1>9, <3>1, PhaseWrites DEF Plugged
    <3>3. CASE cur = r /\ RestoreDone
      BY <3>3 DEF RestoreDone, TakenInv, SlotTaken
    <3>4. CASE cur = r /\ TransitionPhase /\ vmfr'[r].phase = then
      <4>1. loc.phase = vmfr[r].phase /\ vm' = vm
        BY <1>5, <3>4, ConstantsAssumption DEF TransitionPhase, Unprotected
      <4>2. then = "WaitingForAttachment"
        BY <1>9, <2>5, <3>4, <4>1 DEF TransitionPhase, CurrentInv, PlansFollowPhase,
           Follows, Plugged
      <4> QED BY <3>4, <4>1, <4>2 DEF TransitionPhase, TakenInv, SlotTaken
    <3> QED BY <3>2, <3>3, <3>4
  <2> QED BY <2>4, <2>5
<1> QED
  BY <1>3, <1>7, <1>8, <1>9 DEF TakenInv, SlotTaken

\* Who has it has the finalizer, and who is done with the unplug has it no more.
LEMMA SlotStep ==
    ASSUME TypeOK, OneRestoreInv, SeenInv, CurrentInv, SlotInv, PatchesSucceed, [Next]_vars
    PROVE  SlotInv'
<1>1. /\ CachedVM = vm /\ CurrentVM /\ ~DeleteVM /\ vm.exists /\ "vmapi" \notin Faults
      /\ (cur # None => cur \in Restores)
  BY DEF PatchesSucceed, VMStays, CurrentVM, CachedVM, DeleteVM, Fault, MayFault, SlotInv,
     TakenInv, TypeOK
<1>2. vm' = vm \/ Plugs \/ Unplugs \/ Edits
  BY <1>1, VMWrites DEF Deletes
<1>3. ASSUME NEW r \in Restores
      PROVE  /\ r \in vm'.volumes => r \in vm.volumes \/ (Plugs /\ cur = r)
             /\ r \in vm.volumes => r \in vm'.volumes \/ (Unplugs /\ cur = r)
  BY <1>2 DEF Plugs, Unplugs, Edits
<1>4. cur # None /\ ~Unprotected => /\ vmfr[cur].exists /\ vmfr[cur].finalizer
                                    /\ loc.phase = vmfr[cur].phase
                                    /\ Finalizing => vmfr[cur].deleting
  BY DEF CurrentInv, LocIsCurrent, SameReport
<1>5. VolumesAnchored'
  <2> SUFFICES ASSUME NEW r \in Restores, r \in vm'.volumes
               PROVE  vmfr'[r].exists /\ vmfr'[r].finalizer
    BY DEF VolumesAnchored
  <2>1. vmfr[r].exists /\ vmfr[r].finalizer
    <3>1. CASE r \in vm.volumes
      BY <3>1 DEF SlotInv, VolumesAnchored
    <3>2. CASE Plugs /\ cur = r
      BY <1>4, <3>2, ConstantsAssumption DEF Plugs, HotplugVolume, Unprotected
    <3> QED BY <1>3, <3>1, <3>2
  <2>2. ~(cur = r /\ RemoveFinalizer)
    <3>1. RemoveFinalizer => pc = "finalize" /\ vm' = vm
      BY DEF RemoveFinalizer
    <3> QED BY <3>1 DEF SlotInv, SlotGivenBack
  <2> QED
    BY <2>1, <2>2, FinalizerKept
<1>6. SlotGivenBack'
  <2> SUFFICES ASSUME \/ pc' \in {"deleteDV", "verify", "finalize"}
                      \/ pc' = "transition" /\ then' = "Succeeded"
               PROVE  cur' \notin vm'.volumes
    BY DEF SlotGivenBack
  <2>1. CASE UNCHANGED <<pc, cur, then>>
    <3>1. cur \in Restores /\ cur' = cur /\ cur \notin vm.volumes
      BY <1>1, <2>1 DEF SlotInv, SlotGivenBack, TypeOK
    <3>2. ~Plugs
      BY <2>1 DEF Plugs
    <3> QED BY <1>3, <3>1, <3>2
  <2>2. CASE cur' = cur /\ UnplugVolume
    BY <1>1, <2>2, UnplugResult DEF Unplugs
  <2>3. CASE cur' = cur /\ DeleteDataVolume
    BY <2>3, DeleteResult DEF SlotInv, SlotGivenBack
  <2>4. CASE cur' = cur /\ VerifyUnplug
    BY <2>4 DEF VerifyUnplug, api, SlotInv, SlotGivenBack
  <2>5. CASE HandleCleanup
    BY <1>1, <2>5 DEF HandleCleanup, ContinueWithVM
  <2> QED BY <1>1, <2>1, <2>2, <2>3, <2>4, <2>5, WorkerMoves
<1>7. TakenInv'
  BY TakenStep DEF SlotInv, PatchesSucceed
<1> QED
  BY <1>5, <1>6, <1>7 DEF SlotInv

\* Both hold at every moment.
LEMMA AlwaysTaken ==
    ASSUME VMStays
    PROVE  Spec => []TakenInv
<1>1. Init => TakenInv
  BY ConstantsAssumption DEF Init, TakenInv, SlotTaken, NoVMFR, Plugged
<1>2. TypeOK /\ OneRestoreInv /\ SeenInv /\ CurrentInv /\ TakenInv /\ [Next]_vars
         => TakenInv'
  BY TakenStep
<1>3. (Spec => []CurrentInv) /\ (Spec => []SeenInv)
  BY AlwaysCurrent, AlwaysSeen DEF VMStays
<1> QED
  BY <1>1, <1>2, <1>3, TypeCorrect, AlwaysOneRestore, PTL DEF Spec

\* With patches that succeed the volume also goes with the restore.
LEMMA AlwaysSlot ==
    ASSUME PatchesSucceed
    PROVE  Spec => []SlotInv
<1>1. Init => SlotInv
  BY ConstantsAssumption DEF Init, SlotInv, TakenInv, VolumesAnchored, SlotGivenBack,
     SlotTaken, NoVMFR, Plugged
<1>2. TypeOK /\ OneRestoreInv /\ SeenInv /\ CurrentInv /\ SlotInv /\ [Next]_vars
         => SlotInv'
  BY SlotStep
<1>3. (Spec => []CurrentInv) /\ (Spec => []SeenInv)
  BY AlwaysCurrent, AlwaysSeen DEF PatchesSucceed, VMStays
<1> QED
  BY <1>1, <1>2, <1>3, TypeCorrect, AlwaysOneRestore, PTL DEF Spec

----------------------------------------------------------------------------
(***************************************************************************)
(* The guest: who mounts, unmounts, and leaves helpers behind.             *)
(***************************************************************************)
DistinctPathsOf == \A r, s \in Restores : PathOf[r] = PathOf[s] => r = s

\* An unmount of a path takes at most one volume away, one mounted at that path.
LEMMA UnmountEffect ==
    ASSUME TypeOK, DistinctPathsOf, NEW c \in Restores, NEW m \in Unmounted(PathOf[c])
    PROVE  m = mounts \ {c}
<1> DEFINE here == {s \in mounts : PathOf[s] = PathOf[c]}
<1>1. here \subseteq {c} /\ mounts \subseteq Restores
  BY DEF DistinctPathsOf, TypeOK
<1>2. CASE here = {}
  BY <1>2 DEF Unmounted
<1>3. CASE here # {}
  BY <1>1, <1>3 DEF Unmounted
<1> QED BY <1>2, <1>3

\* The steps that change the mount table.
LEMMA MountWrites ==
    ASSUME TypeOK, DistinctPathsOf, [Next]_vars
    PROVE  \/ mounts' = mounts
           \/ HelperMount /\ cur \in Restores /\ mounts' = mounts \cup {cur}
           \/ HelperCopy /\ cur \in Restores /\ mounts' = mounts \ {cur}
           \/ CleanupUnmount /\ cur \in Restores /\ mounts' = mounts \ {cur}
           \/ \E r \in Restores :
                 \/ OrphanMount(r) /\ mounts' = mounts \cup {r}
                 \/ OrphanCopy(r) /\ mounts' = mounts \ {r}
                 \/ Detach(r) /\ mounts' = mounts \ {r}
           \/ (StopVMI \/ DeleteVM) /\ mounts' = {}
<1> USE DEF guest
<1>1. CASE HelperMount
  BY <1>1 DEF HelperMount, TypeOK
<1>2. CASE HelperCopy
  <2>1. cur \in Restores
    BY <1>2 DEF HelperCopy, TypeOK
  <2>2. mounts' = mounts \/ mounts' \in Unmounted(PathOf[cur])
    BY <1>2 DEF HelperCopy
  <2> QED BY <1>2, <2>1, <2>2, UnmountEffect
<1>3. CASE CleanupUnmount
  <2>1. cur \in Restores
    BY <1>3 DEF CleanupUnmount, TypeOK
  <2>2. mounts' = mounts \/ mounts' \in Unmounted(PathOf[cur])
    BY <1>3 DEF CleanupUnmount
  <2> QED BY <1>3, <2>1, <2>2, UnmountEffect
<1>4. ASSUME NEW r \in Restores, OrphanMount(r)
      PROVE  mounts' = mounts \/ mounts' = mounts \cup {r}
  BY <1>4 DEF OrphanMount
<1>5. ASSUME NEW r \in Restores, OrphanCopy(r)
      PROVE  mounts' = mounts \ {r}
  BY <1>5, UnmountEffect DEF OrphanCopy
<1>6. ASSUME NEW r \in Restores, Detach(r)
      PROVE  mounts' = mounts \ {r}
  BY <1>6 DEF Detach
<1>7. CASE StopVMI \/ DeleteVM
  BY <1>7 DEF StopVMI, DeleteVM, GuestGone
<1>8. ASSUME NEW s \in Restores, Reconcile(s) PROVE mounts' = mounts
  BY <1>8 DEF Reconcile
<1>9. ASSUME Step, ~CleanupUnmount PROVE mounts' = mounts
  BY <1>9 DEF Step, HandleDeletion, AddFinalizer, RemoveFinalizer, Settled, TransitionPhase,
     FailRestore, HandleInit, HandleHotplugging, HotplugVolume, HandleWaitingForAttachment,
     HandleSSHConnecting, HandleRestoring, RestoreDone, RestoreTimeout, HandleCleanup,
     VerifyUnplug, UnplugVolume, DeleteDataVolume
<1>10. ASSUME Disturbance, ~StopVMI, ~DeleteVM PROVE mounts' = mounts
  BY <1>10 DEF Disturbance, UserCreate, UserDelete, UserEditVM, Crash
<1>11. ASSUME Environment, ~HelperMount, ~HelperCopy,
              \A r \in Restores : ~OrphanMount(r) /\ ~OrphanCopy(r) /\ ~Detach(r)
       PROVE  mounts' = mounts
  BY <1>11 DEF Environment, StartVMI, Attach, ProvisionDV, OrphanDies, SyncVMFR,
     TimePasses, SyncVM, SyncVMI
<1>12. CASE UNCHANGED vars
  BY <1>12 DEF vars
<1> QED
  BY <1>1, <1>2, <1>3, <1>4, <1>5, <1>6, <1>7, <1>8, <1>9, <1>10, <1>11, <1>12 DEF Next

\* The steps that change the state of the helper, and leave helpers behind.
LEMMA HelperWrites ==
    ASSUME TypeOK, [Next]_vars
    PROVE  /\ \/ helper' = helper
              \/ helper' \in {"none", "started", "failed"}
              \/ /\ HelperMount /\ cur' = cur /\ cur \in mounts'
                 /\ helper' = IF cur \in Automatic THEN "mounted" ELSE "ok"
              \/ HelperCopy /\ cur' = cur /\ helper' = "ok" /\ helper = "mounted"
           /\ \/ orphans' \subseteq orphans
              \/ /\ (RestoreTimeout /\ "timeout" \in Faults) \/ (Crash /\ "crash" \in Faults)
                 /\ helper \in {"started", "mounted"} /\ orphans' = orphans \cup {<<cur, helper>>}
              \/ \E r \in Automatic : /\ OrphanMount(r)
                                      /\ orphans' \subseteq orphans \cup {<<r, "mounted">>}
<1> USE DEF guest, worker
<1>1. CASE HelperMount
  BY <1>1 DEF HelperMount
<1>2. CASE HelperCopy
  BY <1>2 DEF HelperCopy
<1>3. CASE RestoreTimeout \/ Crash
  BY <1>3 DEF RestoreTimeout, Crash, Abandoned, Fault, MayFault
<1>4. CASE HandleRestoring \/ RestoreDone
  BY <1>4 DEF HandleRestoring, RestoreDone
<1>5. ASSUME NEW r \in Restores, OrphanMount(r)
      PROVE  /\ helper' = helper
             /\ \/ orphans' \subseteq orphans
                \/ r \in Automatic /\ orphans' \subseteq orphans \cup {<<r, "mounted">>}
  BY <1>5 DEF OrphanMount
<1>6. ASSUME NEW r \in Restores, OrphanCopy(r) \/ OrphanDies(r)
      PROVE  helper' = helper /\ orphans' \subseteq orphans
  BY <1>6 DEF OrphanCopy, OrphanDies
<1>7. CASE StopVMI \/ DeleteVM
  BY <1>7 DEF StopVMI, DeleteVM, GuestGone
<1>8. ASSUME NEW s \in Restores, Reconcile(s) PROVE UNCHANGED <<helper, orphans>>
  BY <1>8 DEF Reconcile
<1>9. ASSUME Step, ~HandleRestoring, ~RestoreDone, ~RestoreTimeout
      PROVE  UNCHANGED <<helper, orphans>>
  BY <1>9 DEF Step, HandleDeletion, AddFinalizer, RemoveFinalizer, Settled, TransitionPhase,
     FailRestore, HandleInit, HandleHotplugging, HotplugVolume, HandleWaitingForAttachment,
     HandleSSHConnecting, HandleCleanup, VerifyUnplug, CleanupUnmount, UnplugVolume,
     DeleteDataVolume
<1>10. ASSUME Disturbance, ~StopVMI, ~DeleteVM, ~Crash PROVE UNCHANGED <<helper, orphans>>
  BY <1>10 DEF Disturbance, UserCreate, UserDelete, UserEditVM
<1>11. ASSUME Environment, ~HelperMount, ~HelperCopy,
              \A r \in Restores : ~OrphanMount(r) /\ ~OrphanCopy(r) /\ ~OrphanDies(r)
       PROVE  UNCHANGED <<helper, orphans>>
  BY <1>11 DEF Environment, StartVMI, Attach, Detach, ProvisionDV, SyncVMFR, TimePasses,
     SyncVM, SyncVMI
<1>12. CASE UNCHANGED vars
  BY <1>12 DEF vars
<1> QED
  BY <1>1, <1>2, <1>3, <1>4, <1>5, <1>6, <1>7, <1>8, <1>9, <1>10, <1>11, <1>12 DEF Next

----------------------------------------------------------------------------
(***************************************************************************)
(* VolumeReady.  The volume stays mounted: only the helpers of automatic   *)
(* restores unmount by themselves, the clean-up of another restore names   *)
(* another path, the clean-up of this one follows its failure or its       *)
(* deletion, and a volume in the VM spec is not detached.                  *)
(***************************************************************************)
OnlyAutomaticUnmounts ==
    /\ \A r \in Restores : <<r, "mounted">> \in orphans => r \in Automatic
    /\ helper = "mounted" => cur \in Automatic

ReadyIsMounted ==
    /\ helper = "ok" /\ cur \notin Automatic => cur \in mounts
    /\ \A r \in Restores : vmfr[r].phase = "VolumeReady" =>
          r \notin Automatic /\ (~vmfr[r].deleting => r \in mounts)

ReadyInv == OnlyAutomaticUnmounts /\ ReadyIsMounted

GuestStays == VMStays /\ "vmstop" \notin Faults /\ DistinctPathsOf

\* Every step keeps it.
LEMMA ReadyStep ==
    ASSUME TypeOK, TypeOK', CurrentInv, TakenInv, ReadyInv, GuestStays, [Next]_vars
    PROVE  ReadyInv'
<1>1. ~StopVMI /\ ~DeleteVM
  BY DEF GuestStays, VMStays, StopVMI, DeleteVM, Fault, MayFault
<1>2. OnlyAutomaticUnmounts'
  <2>1. \A r \in Restores : <<r, "mounted">> \in orphans' => r \in Automatic
    BY HelperWrites DEF ReadyInv, OnlyAutomaticUnmounts
  <2>2. ASSUME helper' = "mounted" PROVE cur' \in Automatic
    <3>1. CASE helper' = helper
      <4>1. pc = "helper" /\ pc' = "helper"
        BY <2>2, <3>1 DEF TypeOK
      <4>2. cur' = cur
        BY <4>1, WorkerMoves
      <4> QED BY <2>2, <3>1, <4>2 DEF ReadyInv, OnlyAutomaticUnmounts
    <3> QED BY <2>2, <3>1, HelperWrites
  <2> QED BY <2>1, <2>2 DEF OnlyAutomaticUnmounts
<1>3. ASSUME NEW r \in Restores, r \in mounts, r \notin Automatic, r \in vm.volumes,
             CleanupUnmount => cur # r
      PROVE  r \in mounts'
  <2>1. ~(HelperCopy /\ cur = r)
    BY <1>3 DEF HelperCopy, ReadyInv, OnlyAutomaticUnmounts
  <2>2. ~OrphanCopy(r)
    BY <1>3 DEF OrphanCopy, ReadyInv, OnlyAutomaticUnmounts
  <2>3. ~Detach(r)
    BY <1>3 DEF Detach
  <2> QED BY <1>1, <1>3, <2>1, <2>2, <2>3, MountWrites DEF GuestStays
<1>4. ASSUME helper' = "ok", cur' \notin Automatic PROVE cur' \in mounts'
  <2>1. CASE helper' = helper
    <3>1. pc = "helper" /\ pc' = "helper" /\ cur \in Restores
      BY <1>4, <2>1, ConstantsAssumption DEF TypeOK
    <3>2. cur' = cur
      BY <3>1, WorkerMoves
    <3>3. cur \in mounts /\ cur \in vm.volumes /\ ~CleanupUnmount
      BY <1>4, <2>1, <3>1, <3>2
         DEF ReadyInv, ReadyIsMounted, TakenInv, SlotTaken, CleanupUnmount
    <3> QED BY <1>3, <1>4, <3>1, <3>2, <3>3
  <2>2. CASE HelperMount /\ cur' = cur /\ cur \in mounts'
    BY <2>2
  <2>3. CASE HelperCopy /\ cur' = cur /\ helper = "mounted"
    BY <1>4, <2>3 DEF ReadyInv, OnlyAutomaticUnmounts
  <2> QED BY <1>4, <2>1, <2>2, <2>3, HelperWrites
<1>5. ASSUME NEW r \in Restores, vmfr'[r].phase = "VolumeReady"
      PROVE  r \notin Automatic /\ (~vmfr'[r].deleting => r \in mounts')
  <2>1. CASE vmfr[r].phase = "VolumeReady"
    <3>1. r \notin Automatic
      BY <2>1 DEF ReadyInv, ReadyIsMounted
    <3>2. ASSUME ~vmfr'[r].deleting PROVE r \in mounts'
      <4>1. ~vmfr[r].deleting
        BY <1>5, <3>2, DeletionKept
      <4>2. r \in mounts /\ r \in vm.volumes
        BY <2>1, <4>1 DEF ReadyInv, ReadyIsMounted, TakenInv, SlotTaken, Plugged
      <4>3. ASSUME CleanupUnmount, cur = r PROVE FALSE
        <5>1. cur # None /\ ~Unprotected /\ then \in {"return", "finalize"}
          BY <4>3, ConstantsAssumption DEF CleanupUnmount, Unprotected, TypeOK, ControlOK
        <5>2. then # "finalize"
          BY <4>1, <4>3, <5>1 DEF CleanupUnmount, Finalizing, CurrentInv, LocIsCurrent
        <5> QED
          BY <2>1, <4>3, <5>1, <5>2 DEF CurrentInv, LocIsCurrent, PlansFollowPhase, SameReport
      <4> QED BY <1>3, <3>1, <4>2, <4>3
    <3> QED BY <3>1, <3>2
  <2>2. CASE vmfr[r].phase # "VolumeReady"
    <3>1. \/ cur = r /\ TransitionPhase /\ then = "VolumeReady"
          \/ cur = r /\ RestoreDone /\ helper = "ok" /\ r \notin Automatic
      BY <1>5, <2>2, PhaseWrites
    <3>2. ~(TransitionPhase /\ then = "VolumeReady")
      BY DEF TransitionPhase, CurrentInv, PlansFollowPhase, Follows
    <3>3. mounts' = mounts
      BY <3>1, <3>2 DEF RestoreDone
    <3> QED BY <3>1, <3>2, <3>3 DEF ReadyInv, ReadyIsMounted
  <2> QED BY <2>1, <2>2
<1> QED
  BY <1>2, <1>4, <1>5 DEF ReadyInv, ReadyIsMounted

\* VolumeReadyIsMounted: while a manual restore reports VolumeReady its volume is in the
\* VM spec and mounted at its path, until its user deletes it.  The worker has to read the
\* current objects and VM (a patch of a stale one may drop the volume), the VM has to stay
\* up, and no two restores may use one path (the unmount of one would take the mount of
\* the other away).  The VMI may be stale, any call may fail, and the operator may crash.
THEOREM ReadyStaysMounted ==
    ASSUME GuestStays
    PROVE  Spec => []VolumeReadyIsMounted
<1>1. Init => ReadyInv
  BY DEF Init, ReadyInv, OnlyAutomaticUnmounts, ReadyIsMounted, NoVMFR
<1>2. TypeOK /\ TypeOK' /\ CurrentInv /\ TakenInv /\ ReadyInv /\ [Next]_vars => ReadyInv'
  BY ReadyStep
<1>3. TakenInv /\ ReadyInv => VolumeReadyIsMounted
  BY DEF TakenInv, SlotTaken, Plugged, ReadyInv, ReadyIsMounted, VolumeReadyIsMounted
<1>4. Spec => []CurrentInv /\ []TakenInv
  BY AlwaysCurrent, AlwaysTaken DEF GuestStays, VMStays
<1> QED
  BY <1>1, <1>2, <1>3, <1>4, TypeCorrect, PTL DEF Spec

----------------------------------------------------------------------------
(***************************************************************************)
(* The abstract life cycle.  Its slot is the one restore in the VM spec    *)
(* (OneRestorePerVM), SlotInv tells when that is the restore at hand, and  *)
(* CurrentInv that the phase the worker acts on is the stored one.  No     *)
(* step changes both the life of a restore and the slot.                   *)
(***************************************************************************)

\* The life of a restore depends on whether it exists and on its phase.
LEMMA LifeOfPhase ==
    ASSUME NEW o \in VMFR
    PROVE  /\ ~o.exists => LifeOf(o) = "absent"
           /\ o.exists =>
                 /\ o.phase = "New" => LifeOf(o) = "new"
                 /\ o.phase = "VolumeReady" => LifeOf(o) = "ready"
                 /\ o.phase = "Succeeded" => LifeOf(o) = "succeeded"
                 /\ o.phase = "Failed" => LifeOf(o) = "failed"
                 /\ o.phase \notin {"New", "VolumeReady", "Succeeded", "Failed"}
                       => LifeOf(o) = "active"
  BY DEF LifeOf, VMFR

\* No two volumes: the slot is the restore whose volume is there.
LEMMA SlotChoice ==
    ASSUME NEW V, \A r, s \in Restores : r \in V /\ s \in V => r = s, NEW S,
           S = IF \E r \in Restores : r \in V THEN CHOOSE r \in Restores : r \in V ELSE None
    PROVE  /\ S \in Restores \cup {None}
           /\ \A r \in Restores : S = r <=> r \in V
<1>1. CASE \E r \in Restores : r \in V
  BY <1>1
<1>2. CASE ~\E r \in Restores : r \in V
  BY <1>2, ConstantsAssumption
<1> QED BY <1>1, <1>2

\* The steps that change a life, and where the slot is then.
LifeMoves(r) ==
    LET from == LifeOf(vmfr[r])
        to == LifeOf(vmfr'[r])
    IN  \/ from = "absent" /\ to = "new"
        \/ from = "new" /\ to = "active"
        \/ from = "active" /\ to = "ready" /\ r \in vm.volumes
        \/ from = "active" /\ to = "succeeded" /\ r \notin vm.volumes
        \/ from \in {"new", "active"} /\ to = "failed"
        \/ from # "absent" /\ to = "absent" /\ r \notin vm.volumes

\* Such a step is one of the life cycle, and it changes nothing else.
LEMMA LifeWrites ==
    ASSUME TypeOK, TypeOK', CurrentInv, SlotInv, [Next]_vars, NEW r \in Restores,
           LifeOf(vmfr'[r]) # LifeOf(vmfr[r])
    PROVE  /\ vm' = vm /\ \A s \in Restores \ {r} : vmfr'[s] = vmfr[s]
           /\ LifeMoves(r)
<1>1. vmfr[r] \in VMFR /\ vmfr'[r] \in VMFR /\ ObjectWrite(r) /\ creates + 1 \in Nat
  BY ObjectWrites DEF TypeOK
<1>2. cur = r /\ pc # "dispatch" =>
          vmfr[r].exists /\ loc.phase = vmfr[r].phase /\ (Finalizing => vmfr[r].deleting)
  BY ConstantsAssumption DEF CurrentInv, LocIsCurrent, SameReport, Unprotected
<1>3. ~(SameKey(vmfr'[r], vmfr[r]) /\ vmfr'[r].phase = vmfr[r].phase)
  BY <1>1, LifeOfPhase DEF SameKey
<1>4. "Failed" \in Phases /\ (TransitionPhase => then \in Phases)
  BY DEF Phases, TransitionPhase, TypeOK, ControlOK
<1>5. CASE Untouched(r)
  BY <1>3, <1>5 DEF Untouched, SameReport
<1>6. CASE cur = r /\ TransitionPhase /\ vmfr'[r] = WithPhase(vmfr[r], then)
  <2>1. vm' = vm /\ (\A s \in Restores \ {r} : vmfr'[s] = vmfr[s]) /\ pc = "transition"
    BY <1>6 DEF TransitionPhase, PatchFails, TypeOK
  <2>2. vmfr'[r].exists /\ vmfr'[r].phase = then
    BY <1>1, <1>2, <1>4, <1>6, <2>1, UpdateKey, NewReport DEF SameKey
  <2>3. vmfr[r].exists /\ Follows(then, vmfr[r].phase)
    BY <1>2, <1>6, <2>1 DEF CurrentInv, PlansFollowPhase
  <2>4. then = "Succeeded" => r \notin vm.volumes
    BY <1>6, <2>1 DEF SlotInv, SlotGivenBack
  <2> QED
    BY <1>1, <2>1, <2>2, <2>3, <2>4, LifeOfPhase DEF Follows, LifeMoves
<1>7. CASE cur = r /\ FailRestore /\ vmfr'[r] = WithPhase(vmfr[r], "Failed")
  <2>1. vm' = vm /\ (\A s \in Restores \ {r} : vmfr'[s] = vmfr[s]) /\ pc = "fail"
    BY <1>7 DEF FailRestore, PatchStatus, PatchFails, TypeOK
  <2>2. vmfr'[r].exists /\ vmfr'[r].phase = "Failed"
    BY <1>1, <1>2, <1>4, <1>7, <2>1, UpdateKey, NewReport DEF SameKey
  <2>3. vmfr[r].exists /\ vmfr[r].phase \notin Terminal \cup {"VolumeReady"}
    BY <1>2, <1>7, <2>1 DEF CurrentInv, PlansFollowPhase
  <2> QED
    BY <1>1, <2>1, <2>2, <2>3, LifeOfPhase DEF Terminal, LifeMoves
<1>8. CASE vmfr'[r] = WithMountPath(vmfr[r])
  BY <1>1, <1>3, <1>8, UpdateKey, NewReport
<1>9. CASE /\ cur = r /\ RestoreDone /\ helper = "ok"
           /\ vmfr'[r] = Restored(vmfr[r], r \in Automatic)
  <2>1. vm' = vm /\ (\A s \in Restores \ {r} : vmfr'[s] = vmfr[s]) /\ pc = "helper"
    BY <1>9 DEF RestoreDone, PatchFails, TypeOK
  <2>2. vmfr[r].exists /\ vmfr[r].phase = "Restoring" /\ r \in vm.volumes
    BY <1>2, <1>9, <2>1 DEF CurrentInv, PlansFollowPhase, SlotInv, TakenInv,
       SlotTaken
  <2>3. vmfr'[r].exists
    BY <1>1, <1>9, <2>2, UpdateKey DEF SameKey
  <2>4. vmfr'[r].phase \in {"Cleanup", "VolumeReady"}
    BY <1>1, <1>9, NewReport
  <2> QED
    BY <1>1, <2>1, <2>2, <2>3, <2>4, LifeOfPhase DEF LifeMoves
<1>10. CASE vmfr'[r] = WithFinalizer(vmfr[r])
  <2>1. vmfr'[r].exists = vmfr[r].exists /\ vmfr'[r].phase = vmfr[r].phase
    BY <1>1, <1>10, WithFinalizerKey, UpdateReport DEF SameReport
  <2> QED BY <1>1, <2>1, LifeOfPhase
<1>11. CASE /\ cur = r /\ RemoveFinalizer /\ vmfr[r].exists
            /\ vmfr'[r] = WithoutFinalizer(vmfr[r])
  <2>1. vm' = vm /\ (\A s \in Restores \ {r} : vmfr'[s] = vmfr[s]) /\ pc = "finalize"
    BY <1>11 DEF RemoveFinalizer, TypeOK
  <2>2. vmfr[r].deleting /\ r \notin vm.volumes
    BY <1>2, <1>11, <2>1 DEF Finalizing, SlotInv, SlotGivenBack
  <2>3. ~vmfr'[r].exists
    BY <1>1, <1>11, <2>2, WithoutFinalizerKey, NoVMFRKey
  <2> QED
    BY <1>1, <2>1, <2>2, <2>3, LifeOfPhase DEF LifeMoves
<1>12. CASE UserCreate(r) /\ vmfr'[r] = Created(creates + 1)
  <2>1. vm' = vm /\ (\A s \in Restores \ {r} : vmfr'[s] = vmfr[s]) /\ ~vmfr[r].exists
    BY <1>12 DEF UserCreate, TypeOK
  <2>2. vmfr'[r].exists /\ vmfr'[r].phase = "New"
    <3>1. \A uid \in Nat : Created(uid).exists /\ Created(uid).phase = "New"
      BY DEF Created, NoVMFR
    <3> QED BY <1>1, <1>12, <3>1
  <2> QED
    BY <1>1, <2>1, <2>2, LifeOfPhase DEF LifeMoves
<1>13. CASE UserDelete(r) /\ vmfr'[r] = Marked(vmfr[r])
  <2>1. vm' = vm /\ (\A s \in Restores \ {r} : vmfr'[s] = vmfr[s]) /\ vmfr[r].exists
    BY <1>13 DEF UserDelete, TypeOK
  <2>2. ~vmfr[r].finalizer
    <3>1. ASSUME vmfr[r].finalizer
          PROVE  vmfr'[r].exists = vmfr[r].exists /\ vmfr'[r].phase = vmfr[r].phase
      BY <1>1, <1>13, <3>1, MarkedKey, UpdateReport DEF SameReport
    <3> QED BY <1>1, <3>1, LifeOfPhase
  <2>3. ~vmfr'[r].exists /\ r \notin vm.volumes
    BY <1>1, <1>13, <2>2, MarkedKey, NoVMFRKey DEF SlotInv, VolumesAnchored
  <2> QED
    BY <1>1, <2>1, <2>3, LifeOfPhase DEF LifeMoves
<1> QED
  BY <1>1, <1>5, <1>6, <1>7, <1>8, <1>9, <1>10, <1>11, <1>12, <1>13 DEF ObjectWrite

\* The volume of a restore enters and leaves the VM spec as in the life cycle, and lives
\* do not change then.
LEMMA SlotWrites ==
    ASSUME TypeOK, CurrentInv, OneRestoreInv, SeenInv, SlotInv, OneRestorePerVM,
           PatchesSucceed, [Next]_vars
    PROVE  \/ \A r \in Restores : r \in vm'.volumes <=> r \in vm.volumes
           \/ /\ vmfr' = vmfr /\ cur \in Restores
              /\ \/ /\ LifeOf(vmfr[cur]) = "active"
                    /\ \A r \in Restores : r \notin vm.volumes
                    /\ \A r \in Restores : r \in vm'.volumes <=> r = cur
                 \/ /\ cur \in vm.volumes
                    /\ \A r \in Restores : r \notin vm'.volumes
<1>1. CachedVM = vm /\ CurrentVM /\ ~Deletes
  BY DEF PatchesSucceed, VMStays, CurrentVM, CachedVM, Deletes, DeleteVM, Fault, MayFault
<1>2. vm' = vm \/ Plugs \/ Unplugs \/ Edits
  BY <1>1, VMWrites
<1>3. CASE vm' = vm \/ Edits
  BY <1>3 DEF Edits
<1>4. CASE Plugs
  <2>1. /\ cur \in Restores /\ pc = "plug" /\ vmfr' = vmfr
        /\ \A r \in Restores : r \notin vm.volumes /\ (r \in vm'.volumes <=> r = cur)
    BY <1>4 DEF Plugs, HotplugVolume
  <2>2. loc.phase = "Hotplugging" /\ ~Unprotected
    BY <1>4, <2>1 DEF CurrentInv, PlansFollowPhase, Unprotected
  <2>3. vmfr[cur] \in VMFR /\ vmfr[cur].exists /\ vmfr[cur].phase = "Hotplugging"
    BY <2>1, <2>2, ConstantsAssumption DEF CurrentInv, LocIsCurrent, SameReport, TypeOK
  <2>4. LifeOf(vmfr[cur]) = "active"
    BY <2>3, LifeOfPhase
  <2> QED BY <2>1, <2>4
<1>5. CASE Unplugs
  <2>1. CASE cur \notin vm.volumes
    BY <1>5, <2>1 DEF Unplugs
  <2>2. CASE cur \in vm.volumes
    <3>1. vmfr' = vmfr
      BY <1>5 DEF Unplugs, UnplugVolume
    <3> QED BY <1>5, <2>2, <3>1 DEF Unplugs, OneRestorePerVM
  <2> QED BY <2>1, <2>2
<1> QED
  BY <1>2, <1>3, <1>4, <1>5

\* Every step of the reconciler is a step of the life cycle, or leaves it alone.
LEMMA LifecycleStep ==
    ASSUME TypeOK, TypeOK', CurrentInv, OneRestoreInv, SeenInv, SlotInv, OneRestorePerVM,
           OneRestorePerVM', PatchesSucceed, [Next]_vars
    PROVE  [Lifecycle!Next]_(Lifecycle!lifecycleVars)
<1> DEFINE life == [r \in Restores |-> LifeOf(vmfr[r])]
           lifeN == [r \in Restores |-> LifeOf(vmfr'[r])]
<1>1. Slot \in Restores \cup {None} /\ \A r \in Restores : Slot = r <=> r \in vm.volumes
  BY SlotChoice DEF Slot, OneRestorePerVM
<1>2. Slot' \in Restores \cup {None} /\ \A r \in Restores : Slot' = r <=> r \in vm'.volumes
  BY SlotChoice DEF Slot, OneRestorePerVM
<1>3. ASSUME \A r \in Restores : r \in vm'.volumes <=> r \in vm.volumes PROVE Slot' = Slot
  BY <1>1, <1>2, <1>3
<1>4. ASSUME NEW r \in Restores, LifeOf(vmfr'[r]) # LifeOf(vmfr[r])
      PROVE  Lifecycle!Next
  <2>1. /\ vm' = vm /\ \A s \in Restores \ {r} : vmfr'[s] = vmfr[s]
        /\ LifeMoves(r)
    BY <1>4, LifeWrites
  <2>2. Slot' = Slot
    BY <1>3, <2>1
  <2>3. lifeN = [life EXCEPT ![r] = LifeOf(vmfr'[r])]
    BY <2>1
  <2>4. LifeOf(vmfr[r]) # "absent" => LifeOf(vmfr[r]) \in Lifecycle!Lives \ {"absent"}
    <3>1. vmfr[r] \in VMFR
      BY DEF TypeOK
    <3> QED BY <3>1, LifeOfPhase DEF Lifecycle!Lives
  <2>5. life[r] = LifeOf(vmfr[r]) /\ (Slot = r <=> r \in vm.volumes)
    BY <1>1
  <2>6. \/ Lifecycle!Create(r) \/ Lifecycle!Begin(r) \/ Lifecycle!Ready(r)
        \/ Lifecycle!Succeed(r) \/ Lifecycle!Fail(r) \/ Lifecycle!Remove(r)
    BY <2>1, <2>2, <2>3, <2>4, <2>5
       DEF LifeMoves, Lifecycle!Become, Lifecycle!Create, Lifecycle!Begin, Lifecycle!Ready,
           Lifecycle!Succeed, Lifecycle!Fail, Lifecycle!Remove
  <2> QED BY <2>6 DEF Lifecycle!Next
<1>5. ASSUME \A r \in Restores : LifeOf(vmfr'[r]) = LifeOf(vmfr[r])
      PROVE  [Lifecycle!Next]_(Lifecycle!lifecycleVars)
  <2>1. lifeN = life
    BY <1>5
  <2>2. CASE \A r \in Restores : r \in vm'.volumes <=> r \in vm.volumes
    BY <1>3, <2>1, <2>2 DEF Lifecycle!lifecycleVars
  <2>3. ASSUME cur \in Restores, LifeOf(vmfr[cur]) = "active",
               \A r \in Restores : r \notin vm.volumes,
               \A r \in Restores : r \in vm'.volumes <=> r = cur
        PROVE  Lifecycle!Plug(cur)
    <3>1. Slot = None /\ Slot' = cur /\ life[cur] = "active"
      BY <1>1, <1>2, <2>3
    <3> QED BY <2>1, <3>1 DEF Lifecycle!Plug
  <2>4. ASSUME cur \in Restores, cur \in vm.volumes, \A r \in Restores : r \notin vm'.volumes
        PROVE  Lifecycle!Unplug(cur)
    <3>1. Slot = cur /\ Slot' = None
      BY <1>1, <1>2, <2>4
    <3> QED BY <2>1, <3>1 DEF Lifecycle!Unplug
  <2>5. CASE cur \in Restores /\ (Lifecycle!Plug(cur) \/ Lifecycle!Unplug(cur))
    BY <2>5 DEF Lifecycle!Next
  <2> QED BY <2>2, <2>3, <2>4, <2>5, SlotWrites
<1> QED
  BY <1>4, <1>5

\* ImplementsLifecycle: seen through LifeOf and Slot, every behaviour of the reconciler is
\* one of RestoreLifecycle, for any number of restores, faults and creations.  The cache
\* of the VMI may lag and the operator may crash; the caches of the objects and of the VM
\* are current, patches of the VM succeed, and the VM is not deleted under its restores.
THEOREM LifecycleImplemented ==
    ASSUME PatchesSucceed
    PROVE  Spec => ImplementsLifecycle
<1>1. Init => Lifecycle!Init
  <2> SUFFICES ASSUME Init PROVE Lifecycle!Init
    OBVIOUS
  <2>1. \A r \in Restores : r \notin vm.volumes
    BY ConstantsAssumption DEF Init
  <2>2. Slot = None
    BY <2>1 DEF Slot
  <2>3. NoVMFR \in VMFR /\ LifeOf(NoVMFR) = "absent"
    BY NoVMFRKey, LifeOfPhase
  <2>4. [r \in Restores |-> LifeOf(vmfr[r])] = [r \in Restores |-> "absent"]
    BY <2>3 DEF Init
  <2> QED BY <2>2, <2>4 DEF Lifecycle!Init
<1>2. /\ TypeOK /\ TypeOK' /\ CurrentInv /\ OneRestoreInv /\ SeenInv /\ SlotInv
      /\ OneRestorePerVM /\ OneRestorePerVM' /\ [Next]_vars
      => [Lifecycle!Next]_(Lifecycle!lifecycleVars)
  BY LifecycleStep
<1>3. Spec => []CurrentInv /\ []SlotInv /\ []SeenInv
  BY AlwaysCurrent, AlwaysSlot, AlwaysSeen DEF PatchesSucceed, VMStays
<1> QED
  BY <1>1, <1>2, <1>3, AlwaysOneRestore, OneRestore, TypeCorrect, PTL
     DEF Spec, ImplementsLifecycle, Lifecycle!Spec
=============================================================================
