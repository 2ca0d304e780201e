---------------------------- MODULE FileRestore ----------------------------
(***************************************************************************)
(* The reconciler of VirtualMachineFileRestore objects:                    *)
(* internal/controller/virtualmachinefilerestore_controller.go, phases.go  *)
(* and hotplug.go.                                                         *)
(*                                                                         *)
(* One worker reconciles one object at a time (MaxConcurrentReconciles is  *)
(* left at its default).  pc is the point the worker has reached, cur the  *)
(* object, loc its in-memory copy, seen the copy of the VM it has read,    *)
(* and then what follows:                                                  *)
(*                                                                         *)
(*   "dispatch"    Reconcile has read the object                           *)
(*   "transition"  transitionPhase(then) is about to be called             *)
(*   "fail"        failRestore is about to be called                       *)
(*   "helper"      RunCommand waits for the restore command                *)
(*   "plug"        HotplugVolume: DataVolume and patch of the VM           *)
(*   "unmount"     cleanup: SSH clean-up command                           *)
(*   "unplug"      UnplugVolume: patch of the VM                           *)
(*   "deleteDV"    UnplugVolume: deletion of the DataVolume                *)
(*   "verify"      handleCleanupPhase: is the volume gone from the VMI?    *)
(*   "finalize"    removal of the finalizer                                *)
(*                                                                         *)
(* UnplugVolume is called from cleanup, whose caller then returns          *)
(* (then = "return") or removes the finalizer ("finalize"), and from       *)
(* handleCleanupPhase ("verify").  A step is one API write or one exchange *)
(* with the guest; users, KubeVirt, CDI, the guest, the caches and a crash *)
(* of the operator interleave between steps.  The VM is read in a step     *)
(* before the one that patches it.                                         *)
(***************************************************************************)
EXTENDS Guest

Continue(label, next) ==
    pc' = label /\ then' = next /\ seen' = NoVM /\ UNCHANGED cur

\* The same, with the VM just read.
ContinueWithVM(label, next) ==
    pc' = label /\ then' = next /\ seen' = CachedVM /\ UNCHANGED cur

\* Mutant: the worker keeps the restore it has finished with.
ReturnKeepsRestore(requeue) ==
    /\ pc' = "idle" /\ loc' = NoVMFR /\ seen' = NoVM /\ then' = "none"
    /\ queue' = queue \cup requeue
    /\ UNCHANGED cur

\* The reconcile ends; requeue is what it puts back into the work queue, either
\* by its result (Requeue, RequeueAfter, error) or by the change it made.
Return(requeue) ==
    /\ pc' = "idle" /\ cur' = None /\ loc' = NoVMFR /\ seen' = NoVM /\ then' = "none"
    /\ queue' = queue \cup requeue

\* The status updates of the handlers.
WithPhase(o, phase) == [o EXCEPT !.phase = phase]
WithMountPath(o) == [o EXCEPT !.mountPath = TRUE]
Stamped(o, check) == [o EXCEPT !.recent = @ \cup {check}]

\* Mutant: the retry is not counted.
RetryNotCounted(o, check) == o

\* incrementRetryAndRequeue.  A counter matters only up to the bound it is
\* compared with.
Retried(o, check) ==
    LET Increment(retries, bound) == IF retries < bound THEN retries + 1 ELSE retries
    IN  IF check = "attachment"
        THEN [o EXCEPT !.attachmentRetries = Increment(@, MaxAttachmentWait)]
        ELSE [o EXCEPT !.sshRetries = Increment(@, MaxSSHWait)]

RetriesReset(o, check) ==
    IF check = "attachment" THEN [o EXCEPT !.attachmentRetries = 0]
                            ELSE [o EXCEPT !.sshRetries = 0]

\* The result of the helper: files restored, or a volume mounted for the user.
Restored(o, automatic) ==
    IF automatic THEN [o EXCEPT !.restoredFilesCount = TRUE, !.phase = "Cleanup"]
                 ELSE [o EXCEPT !.phase = "VolumeReady"]

\* Status().Patch of the fields that make the stored object new.  The response
\* becomes the in-memory copy.
PatchStatus(new) ==
    /\ vmfr[cur].exists
    /\ vmfr' = [vmfr EXCEPT ![cur] = new]
    /\ loc' = new
    /\ queue' = queue \cup Notified(cur)

\* A write that fails: the object is gone, or the API server refuses.
WriteFails(kind, exists) ==
    \/ ~exists /\ UNCHANGED faults
    \/ Fault(kind)

\* The patch of a handler fails: the handler returns the error.
PatchFails ==
    /\ WriteFails("api", vmfr[cur].exists)
    /\ Return({cur})
    /\ UNCHANGED vmfr

\* Mutant: a failed restore is dispatched like a new one.
DispatchedAgain(phase) ==
    /\ pc = "dispatch"
    /\ ~loc.deleting /\ loc.finalizer
    /\ \/ loc.phase = phase
       \/ loc.phase = "Failed" /\ phase = "New"

\* The reconcile has come to the phase handlers, with the object in this phase.
Dispatched(phase) ==
    /\ pc = "dispatch"
    /\ ~loc.deleting /\ loc.finalizer
    /\ loc.phase = phase

----------------------------------------------------------------------------
(***************************************************************************)
(* Reconcile.                                                              *)
(***************************************************************************)

\* Take a name from the queue and read the object through the cache.
Reconcile(r) ==
    /\ pc = "idle"
    /\ r \in queue
    /\ queue' = queue \ {r}
    /\ IF CachedVMFR(r).exists
       THEN pc' = "dispatch" /\ cur' = r /\ loc' = CachedVMFR(r)
            /\ UNCHANGED <<seen, then>>
       ELSE UNCHANGED worker
    /\ UNCHANGED <<api, caches, guest, faults, creates>>

\* Mutant: the finalizer is removed without the clean-up.
DeletionSkipsCleanup ==
    /\ pc = "dispatch"
    /\ loc.deleting
    /\ \/ loc.finalizer /\ Continue("finalize", "none") /\ UNCHANGED <<loc, queue>>
       \/ ~loc.finalizer /\ Return({})
    /\ UNCHANGED <<api, caches, guest, faults, creates>>

\* A deleted object with our finalizer is cleaned up first.
HandleDeletion ==
    /\ pc = "dispatch"
    /\ loc.deleting
    /\ \/ loc.finalizer /\ Continue("unmount", "finalize") /\ UNCHANGED <<loc, queue>>
       \/ ~loc.finalizer /\ Return({})
    /\ UNCHANGED <<api, caches, guest, faults, creates>>

\* Update carries the resource version: it conflicts when the copy is stale.
AddFinalizer ==
    /\ pc = "dispatch"
    /\ ~loc.deleting /\ ~loc.finalizer
    /\ \/ /\ vmfr[cur] = loc
          /\ vmfr' = [vmfr EXCEPT ![cur] = WithFinalizer(vmfr[cur])]
          /\ UNCHANGED faults
       \/ WriteFails("api", vmfr[cur] = loc) /\ UNCHANGED vmfr
    /\ Return({cur})
    /\ UNCHANGED <<vm, vmi, dv, caches, guest, creates>>

\* The copy in memory, or the one read again from the cache, is the stored object.
CopyIsCurrent == vmfr[cur].exists /\ vmfr[cur] \in {loc, CachedVMFR(cur)}

\* Mutant: a failed removal is not tried again.
RemoveFinalizerOnce ==
    /\ pc = "finalize"
    /\ \/ /\ CopyIsCurrent
          /\ vmfr' = [vmfr EXCEPT ![cur] = WithoutFinalizer(vmfr[cur])]
          /\ UNCHANGED faults
       \/ /\ WriteFails("api", CopyIsCurrent)
          /\ UNCHANGED vmfr
    /\ Return({})
    /\ UNCHANGED <<vm, vmi, dv, caches, guest, creates>>

\* Up to three attempts, the later ones with the object read again from the
\* cache: by then that may be a new object of the same name.
RemoveFinalizer ==
    /\ pc = "finalize"
    /\ \/ /\ CopyIsCurrent
          /\ vmfr' = [vmfr EXCEPT ![cur] = WithoutFinalizer(vmfr[cur])]
          /\ Return(Notified(cur))
          /\ UNCHANGED faults
       \/ /\ WriteFails("api", CopyIsCurrent)
          /\ Return({cur})
          /\ UNCHANGED vmfr
    /\ UNCHANGED <<vm, vmi, dv, caches, guest, creates>>

\* A restore in a terminal phase, and one that waits for its user, is left alone.
Settled ==
    /\ \E phase \in Terminal \cup {"VolumeReady"} : Dispatched(phase)
    /\ Return({})
    /\ UNCHANGED <<api, caches, guest, faults, creates>>

----------------------------------------------------------------------------
(***************************************************************************)
(* transitionPhase and failRestore.                                        *)
(***************************************************************************)

TransitionPhase ==
    /\ pc = "transition"
    /\ \/ /\ vmfr[cur].exists
          /\ vmfr' = [vmfr EXCEPT ![cur] = WithPhase(vmfr[cur], then)]
          /\ Return({cur})
          /\ UNCHANGED faults
       \/ PatchFails
    /\ UNCHANGED <<vm, vmi, dv, caches, guest, creates>>

\* Mutant: no clean-up after a failure.
FailWithoutCleanup ==
    /\ pc = "fail"
    /\ \/ /\ vmfr[cur].exists
          /\ vmfr' = [vmfr EXCEPT ![cur] = WithPhase(vmfr[cur], "Failed")]
          /\ Return({cur})
          /\ UNCHANGED faults
       \/ PatchFails
    /\ UNCHANGED <<vm, vmi, dv, caches, guest, creates>>

\* The phase is written before the clean-up is attempted.
FailRestore ==
    /\ pc = "fail"
    /\ \/ /\ PatchStatus(WithPhase(vmfr[cur], "Failed"))
          /\ Continue("unmount", "return")
          /\ UNCHANGED faults
       \/ PatchFails
    /\ UNCHANGED <<vm, vmi, dv, caches, guest, creates>>

----------------------------------------------------------------------------
(***************************************************************************)
(* The phase handlers.                                                     *)
(***************************************************************************)

\* Mutant: the mount path is not recorded.
InitWithoutMountPath ==
    /\ Dispatched("New")
    /\ \/ /\ Kind[cur] = "unusable" \/ ~CachedVM.exists \/ ~CachedVMI.running
          /\ Continue("fail", "none")
       \/ /\ Kind[cur] # "unusable" /\ CachedVM.exists /\ CachedVMI.running
          /\ Continue("transition", "Hotplugging")
    /\ UNCHANGED <<api, caches, guest, loc, queue, faults, creates>>

\* Validate; record the mount path; go on to Hotplugging.
HandleInit ==
    /\ Dispatched("New")
    /\ \/ /\ \/ Kind[cur] = "unusable"
             \/ ~CachedVM.exists
             \/ ~CachedVMI.running
          /\ Continue("fail", "none")
          /\ UNCHANGED <<vmfr, loc, queue, faults>>
       \/ /\ Kind[cur] # "unusable"
          /\ CachedVM.exists /\ CachedVMI.running
          /\ \/ /\ PatchStatus(WithMountPath(vmfr[cur]))
                /\ Continue("transition", "Hotplugging")
                /\ UNCHANGED faults
             \/ PatchFails
    /\ UNCHANGED <<vm, vmi, dv, caches, guest, creates>>

\* Mutant: other restores of the VM are not looked for.
OtherRestoreIgnored(spec) == FALSE

\* HotplugVolume refuses to run beside another restore of the VM (issue #16), on
\* half of an earlier hotplug (issue #15), and for a claim of another namespace.
OtherRestore(spec) == \E r \in Restores \ {cur} : r \in spec.volumes

Refused(spec) ==
    \/ ~spec.exists
    \/ OtherRestore(spec)
    \/ (cur \in spec.volumes) # (cur \in spec.disks)
    \/ cur \notin spec.volumes /\ Kind[cur] = "crossNamespacePVC"

\* Read the VM; go on unless it refuses or was plugged by an earlier attempt.
HandleHotplugging ==
    /\ Dispatched("Hotplugging")
    /\ \/ Refused(CachedVM) /\ Continue("fail", "none")
       \/ /\ ~Refused(CachedVM) /\ cur \in CachedVM.volumes
          /\ Continue("transition", "WaitingForAttachment")
       \/ /\ ~Refused(CachedVM) /\ cur \notin CachedVM.volumes
          /\ ContinueWithVM("plug", "none")
    /\ UNCHANGED <<api, caches, guest, loc, queue, faults, creates>>

AwaitsDV == Kind[cur] = "snapshot" /\ dv[cur] # "succeeded"

\* The VM is patched with a difference computed from the copy that was read.
PatchVM(new) ==
    /\ vm.exists
    /\ vm' = MergePatch(vm, seen, new)

\* The DataVolume of a snapshot comes first, then volume and disk are plugged.
HotplugVolume ==
    /\ pc = "plug"
    /\ \/ \* create the DataVolume, or wait for its import to finish
          /\ AwaitsDV
          /\ dv' = [dv EXCEPT ![cur] = "provisioning"]
          /\ Return({cur})
          /\ UNCHANGED <<vm, faults>>
       \/ \* the DataVolume cannot be read, created, or read again
          /\ Kind[cur] = "snapshot"
          /\ Fault("dvapi")
          /\ \/ UNCHANGED dv
             \/ dv[cur] = "none" /\ dv' = [dv EXCEPT ![cur] = "provisioning"]
          /\ Continue("fail", "none")
          /\ UNCHANGED <<vm, loc, queue>>
       \/ /\ ~AwaitsDV
          /\ \/ /\ PatchVM(Added(seen, {cur}))
                /\ Continue("transition", "WaitingForAttachment")
                /\ UNCHANGED faults
             \/ /\ WriteFails("vmapi", vm.exists)
                /\ Continue("fail", "none")
                /\ UNCHANGED vm
          /\ UNCHANGED <<dv, loc, queue>>
    /\ UNCHANGED <<vmfr, vmi, caches, guest, creates>>

\* Poll the VMI until it lists the volume.  The time of the check and the retry
\* counter live in the status.
HandleWaitingForAttachment ==
    /\ Dispatched("WaitingForAttachment")
    /\ LET timedOut == loc.attachmentRetries >= MaxAttachmentWait
           limited == ~timedOut /\ "attachment" \in loc.recent
           checks == ~timedOut /\ ~limited
           status == CachedVMI.status[cur]
           stamped == Stamped(vmfr[cur], "attachment")
       IN \/ /\ timedOut \/ (checks /\ ~CachedVMI.running)
             /\ Continue("fail", "none")
             /\ UNCHANGED <<vmfr, loc, queue, faults>>
          \/ limited /\ Return({cur}) /\ UNCHANGED <<vmfr, faults>>
          \/ checks /\ CachedVMI.running /\ PatchFails
          \/ \* not attached yet
             /\ checks /\ CachedVMI.running /\ status = "absent"
             /\ vmfr[cur].exists
             /\ \/ /\ vmfr' = [vmfr EXCEPT ![cur] = Retried(stamped, "attachment")]
                   /\ UNCHANGED faults
                \/ vmfr' = [vmfr EXCEPT ![cur] = stamped] /\ Fault("api")
             /\ Return({cur})
          \/ \* listed, but not as a hot-plugged volume
             /\ checks /\ CachedVMI.running /\ status = "cold"
             /\ PatchStatus(stamped)
             /\ Continue("fail", "none")
             /\ UNCHANGED faults
          \/ \* attached: the counter is reset, a failure to do so only logged
             /\ checks /\ CachedVMI.running /\ status = "attached"
             /\ \/ PatchStatus(RetriesReset(stamped, "attachment")) /\ UNCHANGED faults
                \/ PatchStatus(stamped) /\ Fault("api")
             /\ Continue("transition", "SSHConnecting")
    /\ UNCHANGED <<vm, vmi, dv, caches, guest, creates>>

\* Finding the VM's IP address and reading the private key, once the VMI is there.
LookupFails == CachedVMI.running /\ Fault("lookup")

ConnectFails ==
    \/ ~vmi.running /\ UNCHANGED faults
    \/ Fault("ssh")

\* Try to reach the guest over SSH.
HandleSSHConnecting ==
    /\ Dispatched("SSHConnecting")
    /\ LET timedOut == loc.sshRetries >= MaxSSHWait
           limited == ~timedOut /\ "ssh" \in loc.recent
           checks == ~timedOut /\ ~limited
           stamped == Stamped(vmfr[cur], "ssh")
       IN \/ /\ timedOut
             /\ Continue("fail", "none")
             /\ UNCHANGED <<vmfr, loc, queue, faults>>
          \/ limited /\ Return({cur}) /\ UNCHANGED <<vmfr, faults>>
          \/ checks /\ PatchFails
          \/ \* no VMI, no address or no key
             /\ checks
             /\ PatchStatus(stamped)
             /\ (~CachedVMI.running /\ UNCHANGED faults) \/ LookupFails
             /\ Continue("fail", "none")
          \/ \* no connection
             /\ checks /\ CachedVMI.running
             /\ vmfr[cur].exists
             /\ ConnectFails
             /\ \/ vmfr' = [vmfr EXCEPT ![cur] = Retried(stamped, "ssh")]
                \/ "api" \in Faults /\ vmfr' = [vmfr EXCEPT ![cur] = stamped]
             /\ Return({cur})
          \/ \* connected
             /\ checks /\ CachedVMI.running /\ vmi.running
             /\ \/ PatchStatus(RetriesReset(stamped, "ssh")) /\ UNCHANGED faults
                \/ PatchStatus(stamped) /\ Fault("api")
             /\ Continue("transition", "Restoring")
    /\ UNCHANGED <<vm, vmi, dv, caches, guest, creates>>

\* Connect and start the helper with the mount path of the status.
HandleRestoring ==
    /\ Dispatched("Restoring")
    /\ \/ /\ \/ ~CachedVMI.running /\ UNCHANGED faults
             \/ LookupFails
             \/ CachedVMI.running /\ ConnectFails
          /\ Continue("fail", "none")
          /\ UNCHANGED helper
       \/ /\ CachedVMI.running /\ vmi.running
          /\ helper' = "started"
          /\ Continue("helper", "none")
          /\ UNCHANGED faults
    /\ UNCHANGED <<api, caches, mounts, orphans, copied, loc, queue, creates>>

\* Mutant: the exit status of the helper is not looked at.
RestoreDoneIgnoresExit ==
    /\ pc = "helper"
    /\ helper \in {"ok", "failed"}
    /\ helper' = "none"
    /\ vmfr[cur].exists
    /\ vmfr' = [vmfr EXCEPT ![cur] = Restored(vmfr[cur], cur \in Automatic)]
    /\ Return({cur})
    /\ UNCHANGED <<vm, vmi, dv, caches, mounts, orphans, copied, faults, creates>>

\* The helper has exited: its result and the next phase are one patch.
RestoreDone ==
    /\ pc = "helper"
    /\ helper \in {"ok", "failed"}
    /\ helper' = "none"
    /\ \/ /\ helper = "failed"
          /\ Continue("fail", "none")
          /\ UNCHANGED <<vmfr, loc, queue, faults>>
       \/ /\ helper = "ok"
          /\ \/ /\ vmfr[cur].exists
                /\ vmfr' = [vmfr EXCEPT ![cur] = Restored(vmfr[cur], cur \in Automatic)]
                /\ Return({cur})
                /\ UNCHANGED faults
             \/ PatchFails
    /\ UNCHANGED <<vm, vmi, dv, caches, mounts, orphans, copied, creates>>

\* Ten minutes are over or the connection broke; the signal need not stop the helper.
RestoreTimeout ==
    /\ pc = "helper"
    /\ helper \in {"started", "mounted"}
    /\ Fault("timeout")
    /\ orphans' = Abandoned
    /\ helper' = "none"
    /\ Continue("fail", "none")
    /\ UNCHANGED <<api, caches, mounts, copied, loc, queue, creates>>

\* Mutant: the restore succeeds without an unplug.
CleanupSkipsUnplug ==
    /\ Dispatched("Cleanup")
    /\ Continue("transition", "Succeeded")
    /\ UNCHANGED <<api, caches, guest, loc, queue, faults, creates>>

\* The VM may be gone by now: what was restored stays restored.
HandleCleanup ==
    /\ Dispatched("Cleanup")
    /\ \/ CachedVM.exists /\ ContinueWithVM("unplug", "verify")
       \/ ~CachedVM.exists /\ loc.restoredFilesCount /\ Continue("transition", "Succeeded")
       \/ ~CachedVM.exists /\ ~loc.restoredFilesCount /\ Continue("fail", "none")
    /\ UNCHANGED <<api, caches, guest, loc, queue, faults, creates>>

\* Mutant: the detachment is not waited for.
VerifyNothing ==
    /\ pc = "verify"
    /\ Continue("transition", "Succeeded")
    /\ UNCHANGED <<api, caches, guest, loc, queue, faults, creates>>

\* Mutant: the wait for the detachment does not requeue.
VerifyWithoutRequeue ==
    /\ pc = "verify"
    /\ \/ /\ CachedVMI.running /\ CachedVMI.status[cur] # "absent"
          /\ Return({})
       \/ /\ ~CachedVMI.running \/ CachedVMI.status[cur] = "absent"
          /\ Continue("transition", "Succeeded")
          /\ UNCHANGED <<loc, queue>>
    /\ UNCHANGED <<api, caches, guest, faults, creates>>

\* Succeeded only once the VMI no longer lists the volume (issue #17).
VerifyUnplug ==
    /\ pc = "verify"
    /\ \/ /\ CachedVMI.running /\ CachedVMI.status[cur] # "absent"
          /\ Return({cur})
       \/ /\ ~CachedVMI.running \/ CachedVMI.status[cur] = "absent"
          /\ Continue("transition", "Succeeded")
          /\ UNCHANGED <<loc, queue>>
    /\ UNCHANGED <<api, caches, guest, faults, creates>>

----------------------------------------------------------------------------
(***************************************************************************)
(* cleanup and UnplugVolume.                                               *)
(***************************************************************************)

\* What follows UnplugVolume in its caller.
Resume ==
    \/ then = "return" /\ Return({})
    \/ then \in {"finalize", "verify"} /\ Continue(then, "none") /\ UNCHANGED <<loc, queue>>

\* UnplugVolume returns an error: cleanup ignores it, handleCleanupPhase fails.
ResumeAfterError ==
    \/ then = "verify" /\ Continue("fail", "none") /\ UNCHANGED <<loc, queue>>
    \/ then # "verify" /\ Resume

\* Run the clean-up command in the guest, if it can be reached; every error is only
\* logged.  Then read the VM: one that cannot be read is not unplugged from.
CleanupUnmount ==
    /\ pc = "unmount"
    /\ \/ /\ CachedVMI.running /\ vmi.running /\ loc.mountPath
          /\ mounts' \in Unmounted(PathOf[cur])
          /\ UNCHANGED faults
       \/ /\ \/ ~CachedVMI.running /\ UNCHANGED faults
             \/ ~vmi.running /\ UNCHANGED faults
             \/ ~loc.mountPath /\ UNCHANGED faults
             \/ LookupFails \/ Fault("ssh") \/ Fault("umount")
          /\ UNCHANGED mounts
    /\ \/ CachedVM.exists /\ ContinueWithVM("unplug", then) /\ UNCHANGED <<loc, queue>>
       \/ ~CachedVM.exists /\ Resume
    /\ UNCHANGED <<api, caches, orphans, copied, helper, creates>>

\* The VM spec without the volume and the disk of this restore.
Without(spec) == Dropped(spec, {cur})

\* Take the volume and the disk out of the VM spec.
UnplugVolume ==
    /\ pc = "unplug"
    /\ \/ /\ PatchVM(Without(seen))
          /\ IF Kind[cur] = "snapshot"
             THEN Continue("deleteDV", then) /\ UNCHANGED <<loc, queue>>
             ELSE Resume
          /\ UNCHANGED faults
       \/ /\ WriteFails("vmapi", vm.exists)
          /\ ResumeAfterError
          /\ UNCHANGED vm
    /\ UNCHANGED <<vmfr, vmi, dv, caches, guest, creates>>

\* Delete the temporary DataVolume; that it is already gone is no error.
DeleteDataVolume ==
    /\ pc = "deleteDV"
    /\ \/ dv' = [dv EXCEPT ![cur] = "none"] /\ Resume /\ UNCHANGED faults
       \/ Fault("dvapi") /\ ResumeAfterError /\ UNCHANGED dv
    /\ UNCHANGED <<vmfr, vm, vmi, caches, guest, creates>>

----------------------------------------------------------------------------
\* The operator crashes and restarts: the reconcile in progress is lost, the
\* caches are listed afresh, and every existing object is queued.
Crash ==
    /\ Fault("crash")
    /\ orphans' = Abandoned
    /\ helper' = "none"
    /\ pc' = "idle" /\ cur' = None /\ loc' = NoVMFR /\ seen' = NoVM /\ then' = "none"
    /\ cvmfr' = IF "vmfr" \in Lagging THEN vmfr ELSE cvmfr
    /\ cvm' = IF "vm" \in Lagging THEN vm ELSE cvm
    /\ cvmi' = IF "vmi" \in Lagging THEN vmi ELSE cvmi
    /\ queue' = {r \in Restores : vmfr[r].exists}
    /\ UNCHANGED <<api, mounts, copied, creates>>

----------------------------------------------------------------------------
Init ==
    /\ vmfr = [r \in Restores |-> NoVMFR]
    /\ vm = [exists |-> TRUE, volumes |-> UserVolumes, disks |-> UserVolumes]
    /\ vmi = [running |-> TRUE, status |-> [r \in Restores |-> "absent"]]
    /\ dv = [r \in Restores |-> "none"]
    /\ cvmfr = vmfr /\ cvm = vm /\ cvmi = vmi
    /\ mounts = {} /\ orphans = {} /\ copied = {} /\ helper = "none"
    /\ queue = {}
    /\ pc = "idle" /\ cur = None /\ loc = NoVMFR /\ seen = NoVM /\ then = "none"
    /\ faults = 0 /\ creates = 0

\* A step of the worker other than taking a name from the queue.
Step ==
    \/ HandleDeletion \/ AddFinalizer \/ RemoveFinalizer \/ Settled
    \/ TransitionPhase \/ FailRestore
    \/ HandleInit \/ HandleHotplugging \/ HotplugVolume \/ HandleWaitingForAttachment
    \/ HandleSSHConnecting \/ HandleRestoring \/ RestoreDone \/ RestoreTimeout
    \/ HandleCleanup \/ VerifyUnplug
    \/ CleanupUnmount \/ UnplugVolume \/ DeleteDataVolume

\* Steps of the users, and failures of the machines.
Disturbance ==
    \/ \E r \in Restores : UserCreate(r) \/ UserDelete(r)
    \/ UserEditVM \/ StopVMI \/ DeleteVM \/ Crash

\* Steps of KubeVirt, CDI, the guest, the caches and the clock.
Environment ==
    \/ StartVMI
    \/ \E r \in Restores : Attach(r) \/ Detach(r) \/ ProvisionDV(r)
    \/ HelperMount \/ HelperCopy
    \/ \E r \in Restores : OrphanMount(r) \/ OrphanCopy(r) \/ OrphanDies(r)
    \/ \E r \in Restores : SyncVMFR(r) \/ TimePasses(r)
    \/ SyncVM \/ SyncVMI

Next ==
    \/ \E r \in Restores : Reconcile(r)
    \/ Step
    \/ Disturbance
    \/ Environment

Spec == Init /\ [][Next]_vars

(***************************************************************************)
(* Fairness.  The worker keeps running and its queue is first in, first    *)
(* out, so a name that stays queued is taken (strong fairness: the worker  *)
(* is not always idle).  KubeVirt, CDI and the informers do their work, a  *)
(* helper ends (RunCommand gives up after ten minutes otherwise) and time  *)
(* passes.  Nothing is assumed of users, faults and restarts of the VM.    *)
(***************************************************************************)
Fairness ==
    /\ WF_vars(Step)
    /\ WF_vars(HelperMount) /\ WF_vars(HelperCopy)
    /\ WF_vars(SyncVM) /\ WF_vars(SyncVMI)
    /\ \A r \in Restores :
          /\ SF_vars(Reconcile(r))
          /\ WF_vars(SyncVMFR(r)) /\ WF_vars(TimePasses(r))
          /\ WF_vars(Attach(r)) /\ WF_vars(Detach(r)) /\ WF_vars(ProvisionDV(r))

FairSpec == Spec /\ Fairness

----------------------------------------------------------------------------
(***************************************************************************)
(* Properties.                                                             *)
(***************************************************************************)

\* What the worker is about to do next, at each point of a reconcile.
ControlOK ==
    \/ pc = "transition" /\ then \in Phases
    \/ pc = "unmount" /\ then \in {"return", "finalize"}
    \/ pc \in {"unplug", "deleteDV"} /\ then \in {"return", "finalize", "verify"}
    \/ pc \in {"idle", "dispatch", "fail", "helper", "plug", "verify", "finalize"} /\ then = "none"

\* Every variable holds what its declaration says; the worker holds a restore
\* exactly while it reconciles, waits for a helper only where it started one, and has
\* a VM in memory exactly while it is about to patch it.
TypeOK ==
    /\ vmfr \in [Restores -> VMFR] /\ cvmfr \in [Restores -> VMFR]
    /\ vm \in VM /\ cvm \in VM
    /\ vmi \in VMI /\ cvmi \in VMI
    /\ dv \in [Restores -> {"none", "provisioning", "succeeded"}]
    /\ mounts \subseteq Restores
    /\ orphans \subseteq Restores \X {"started", "mounted"}
    /\ copied \subseteq Restores
    /\ helper \in {"none", "started", "mounted", "ok", "failed"}
    /\ queue \subseteq Restores
    /\ ControlOK
    /\ cur \in Restores \cup {None}
    /\ (cur = None) <=> (pc = "idle")
    /\ helper # "none" => pc = "helper"
    /\ loc \in VMFR /\ seen \in VM
    /\ IF pc \in {"plug", "unplug"} THEN seen.exists ELSE seen = NoVM
    /\ faults \in Nat /\ creates \in Nat

\* What a restore keeps in the cluster: its entries in the VM spec, its DataVolume.
Holds(r) == r \in vm.volumes \cup vm.disks \/ dv[r] # "none"

\* Whatever a restore has put into the cluster, its object is still there and
\* carries the finalizer: deleting the object at any moment, through crashes and
\* stale reads of the object, never leaves a volume or a DataVolume behind.
NoOrphans == \A r \in Restores : Holds(r) => vmfr[r].exists /\ vmfr[r].finalizer

\* At most one restore has its volume in the VM spec (HotplugVolume, issue #16).
OneRestorePerVM ==
    \A r, s \in Restores : r \in vm.volumes /\ s \in vm.volumes => r = s

\* Succeeded is only ever reported for an automatic restore whose files the guest
\* helper has copied, however stale the object was that a handler worked on.
SucceededIsRestored ==
    \A r \in Restores :
        vmfr[r].phase = "Succeeded" =>
            r \in Automatic /\ r \in copied /\ vmfr[r].restoredFilesCount

\* When Succeeded is reported the volume is out of the VM spec and detached from
\* the running instance (handleCleanupPhase, issue #17), and the DataVolume of a
\* snapshot source is deleted.
SucceededIsDetached ==
    \A r \in Restores :
        vmfr[r].phase = "Succeeded" => ~Holds(r) /\ vmi.status[r] = "absent"

\* A restore that has failed, once the worker is done with it, has nothing left
\* in the cluster (failRestore calls cleanup).
FailedIsClean ==
    \A r \in Restores : vmfr[r].phase = "Failed" /\ cur # r => ~Holds(r)

\* While a manual restore reports VolumeReady its volume is plugged and mounted
\* at its path, until its user deletes it.
VolumeReadyIsMounted ==
    \A r \in Restores :
        vmfr[r].phase = "VolumeReady" /\ ~vmfr[r].deleting =>
            r \in mounts /\ r \in vm.volumes

\* The restore command is only built with a mount path (BuildSSHCommand panics on
\* an empty one), and so is every later phase.
MountPathKnown ==
    /\ pc = "helper" => loc.mountPath
    /\ \A r \in Restores :
          vmfr[r].phase \notin {"New", "Failed"} => vmfr[r].mountPath

\* Succeeded and Failed are final: no later step gives the object another phase.
TerminalIsFinal ==
    [][\A r \in Restores :
          vmfr[r].phase \in Terminal /\ vmfr'[r].uid = vmfr[r].uid
              => vmfr'[r].phase = vmfr[r].phase]_vars

\* The Cleanup phase takes a volume out of the VM spec only when it is not mounted in
\* the guest: the helper has unmounted it, or the phase does (design document:
\* "Run cleanup command in guest", "Unmount and remove volume from VM spec").  It does
\* not hold when the unmount of the helper fails: README, section 4.
CleanupUnmountsFirst ==
    [][\A r \in vm.volumes \cap Restores :
          r \notin vm'.volumes /\ vm'.exists /\ vmfr[r].phase = "Cleanup"
                               /\ ~vmfr[r].deleting
              => r \notin mounts]_vars

\* A step of the worker changes no entry of the VM spec but those of the restore
\* it works on (hotplug.go: "Use Patch instead of Update to avoid conflicts from
\* concurrent VM modifications"): neither the user's volumes nor another restore's.  It
\* does not hold when they change between the read and the patch: README, section 4.
VMPatchKeepsOthers ==
    [][pc' # pc =>
          \A v \in (Restores \cup UserVolumes) \ {cur} :
              /\ v \in vm'.volumes <=> v \in vm.volumes
              /\ v \in vm'.disks <=> v \in vm.disks]_vars

\* A deleted object goes away.
DeletionCompletes ==
    \A r \in Restores : vmfr[r].deleting ~> ~vmfr[r].deleting

\* Every restore ends, or waits for its user in VolumeReady.
RestoreSettles ==
    \A r \in Restores :
        vmfr[r].exists ~> ~vmfr[r].exists
                             \/ vmfr[r].phase \in Terminal \cup {"VolumeReady"}

----------------------------------------------------------------------------
(***************************************************************************)
(* The abstract specification.  A restore is active from Hotplugging to    *)
(* Cleanup, and the slot belongs to the restore whose volume is in the VM  *)
(* spec.                                                                   *)
(***************************************************************************)
LifeOf(o) ==
    CASE ~o.exists -> "absent"
      [] o.exists /\ o.phase = "New" -> "new"
      [] o.exists /\ o.phase = "VolumeReady" -> "ready"
      [] o.exists /\ o.phase = "Succeeded" -> "succeeded"
      [] o.exists /\ o.phase = "Failed" -> "failed"
      [] OTHER -> "active"

Slot == IF \E r \in Restores : r \in vm.volumes
        THEN CHOOSE r \in Restores : r \in vm.volumes
        ELSE None

Lifecycle == INSTANCE RestoreLifecycle
                 WITH life <- [r \in Restores |-> LifeOf(vmfr[r])], slot <- Slot

\* Every behaviour of the reconciler is, seen through this mapping, a behaviour
\* of the abstract life cycle.
ImplementsLifecycle == Lifecycle!Spec
=============================================================================
