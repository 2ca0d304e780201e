------------------------------ MODULE Cluster ------------------------------
(***************************************************************************)
(* The Kubernetes objects the file-restore controller works on, the        *)
(* informer caches it reads them through, and everything other than the    *)
(* controller that changes them: the users, KubeVirt, CDI and the guest.   *)
(*                                                                         *)
(* One virtual machine is the target of every restore in Restores; only    *)
(* restores of the same VM interact.  The restore volume, disk, serial and *)
(* DataVolume of restore r are all named by GetVolumeName(r), an injective *)
(* function of r, so r itself stands for them.                             *)
(***************************************************************************)
EXTENDS Integers, FiniteSets

CONSTANTS
    Restores,           \* names of VirtualMachineFileRestore objects
    None,               \* "no restore"
    UserVolumes,        \* volumes of the VM that the operator does not own
    Kind,               \* Kind[r]: which spec.source the object carries
    Automatic,          \* the restores with a non-empty spec.sourcePath
    PathOf,             \* PathOf[r]: the mount path built from the source name
    Lagging,            \* the informer caches that may lag behind the API
    Faults,             \* the kinds of faults that may happen
    MaxFaults,          \* bound on the number of faults
    MaxCreates,         \* bound on the number of objects users create
    MaxAttachmentWait,  \* maxAttachmentWait of phases.go (60)
    MaxSSHWait          \* maxSSHWait of phases.go (24)

\* "unusable": no source, several, a remote one, or one that does not exist.
Kinds == {"pvc", "snapshot", "crossNamespacePVC", "unusable"}

CacheNames == {"vmfr", "vm", "vmi"}

FaultKinds == {"api", "vmapi", "dvapi", "lookup", "ssh", "copy", "umount",
               "timeout", "crash", "vmstop", "vmdelete", "useredit"}

ASSUME ConstantsAssumption ==
    /\ None \notin Restores
    /\ UserVolumes \cap Restores = {}
    /\ Kind \in [Restores -> Kinds]
    /\ Automatic \subseteq Restores
    /\ Lagging \subseteq CacheNames
    /\ Faults \subseteq FaultKinds
    /\ MaxFaults \in Nat
    /\ MaxCreates \in Nat
    /\ MaxAttachmentWait \in Nat
    /\ MaxSSHWait \in Nat

Phases == {"New", "Hotplugging", "WaitingForAttachment", "SSHConnecting",
           "Restoring", "VolumeReady", "Cleanup", "Succeeded", "Failed"}

Terminal == {"Succeeded", "Failed"}

(***************************************************************************)
(* What the controller reads and writes of a VirtualMachineFileRestore.    *)
(* recent holds the checks whose timestamp (lastAttachmentCheckTime,       *)
(* lastSSHCheckTime) is less than five seconds old; uid tells an object    *)
(* from a later one of the same name.                                      *)
(***************************************************************************)
VMFR == [exists : BOOLEAN, uid : Nat, deleting : BOOLEAN, finalizer : BOOLEAN,
         phase : Phases, mountPath : BOOLEAN, restoredFilesCount : BOOLEAN,
         attachmentRetries : Nat, sshRetries : Nat,
         recent : SUBSET {"attachment", "ssh"}]

NoVMFR == [exists |-> FALSE, uid |-> 0, deleting |-> FALSE, finalizer |-> FALSE,
           phase |-> "New", mountPath |-> FALSE, restoredFilesCount |-> FALSE,
           attachmentRetries |-> 0, sshRetries |-> 0, recent |-> {}]

\* A new object, one whose finalizer is added, one whose finalizer is removed (a
\* deleted object then goes away), one that is marked for deletion (or removed at
\* once when no finalizer holds it), one that has aged.
Created(uid) == [NoVMFR EXCEPT !.exists = TRUE, !.uid = uid]
WithFinalizer(o) == [o EXCEPT !.finalizer = TRUE]
WithoutFinalizer(o) == IF o.deleting THEN NoVMFR ELSE [o EXCEPT !.finalizer = FALSE]
Marked(o) == IF o.finalizer THEN [o EXCEPT !.deleting = TRUE] ELSE NoVMFR
Aged(o) == [o EXCEPT !.recent = {}]

\* The VM object, as far as the operator patches it.
VM == [exists : BOOLEAN, volumes : SUBSET (Restores \cup UserVolumes),
       disks : SUBSET (Restores \cup UserVolumes)]

NoVM == [exists |-> FALSE, volumes |-> {}, disks |-> {}]

\* A VM spec with volumes and their disks added, or dropped.
Added(spec, entries) ==
    [spec EXCEPT !.volumes = @ \cup entries, !.disks = @ \cup entries]
Dropped(spec, entries) ==
    [spec EXCEPT !.volumes = @ \ entries, !.disks = @ \ entries]

\* The running instance: which restore volumes its status lists.  A volume that
\* is pending or has no target yet is "absent" here, as the controller treats it
\* while it waits; "cold" is a volume that is not marked as hot-plugged.
VMI == [running : BOOLEAN, status : [Restores -> {"absent", "attached", "cold"}]]

VARIABLES
    vmfr,       \* API: the restore objects
    vm,         \* API: the target VM
    vmi,        \* API: its running instance
    dv,         \* API: the temporary DataVolumes of snapshot restores
    cvmfr,      \* informer cache of vmfr
    cvm,        \* informer cache of vm
    cvmi,       \* informer cache of vmi
    mounts,     \* guest: restores whose volume is mounted at their path
    orphans,    \* guest: helper processes nobody waits for
    copied,     \* restores whose files the guest helper has copied
    helper,     \* guest: state of the helper the controller waits for
    queue,      \* controller: restores waiting in the work queue
    pc,         \* controller: next step of the reconcile in progress
    cur,        \* controller: restore being reconciled
    loc,        \* controller: its in-memory copy of the restore object
    seen,       \* controller: its in-memory copy of the VM, from the read to the patch
    then,       \* controller: what the step in progress leads to
    faults,     \* number of faults so far
    creates     \* number of restore objects created so far

api == <<vmfr, vm, vmi, dv>>
caches == <<cvmfr, cvm, cvmi>>
guest == <<mounts, orphans, copied, helper>>
worker == <<pc, cur, loc, seen, then>>
vars == <<api, caches, guest, queue, worker, faults, creates>>

----------------------------------------------------------------------------
(***************************************************************************)
(* Reads.  A cached read returns the cached copy; a cache that does not    *)
(* lag is the API object itself.                                           *)
(***************************************************************************)
CachedVMFR(r) == IF "vmfr" \in Lagging THEN cvmfr[r] ELSE vmfr[r]
CachedVM == IF "vm" \in Lagging THEN cvm ELSE vm
CachedVMI == IF "vmi" \in Lagging THEN cvmi ELSE vmi

\* The restores a change of restore object r puts into the work queue at once:
\* watch events are delivered when the cache takes the change in.
Notified(r) == IF "vmfr" \in Lagging THEN {} ELSE {r}

MayFault(kind) == kind \in Faults /\ faults < MaxFaults

\* A fault of the given kind happens in this step.
Fault(kind) == MayFault(kind) /\ faults' = faults + 1

\* A JSON merge patch: a list that the patch changed from its base replaces the
\* stored one as a whole, a list it did not change is left alone.
MergePatch(stored, base, new) ==
    [stored EXCEPT
        !.volumes = IF new.volumes = base.volumes THEN @ ELSE new.volumes,
        !.disks = IF new.disks = base.disks THEN @ ELSE new.disks]

----------------------------------------------------------------------------
(***************************************************************************)
(* Users.                                                                  *)
(***************************************************************************)

\* Create a restore object.
UserCreate(r) ==
    /\ ~vmfr[r].exists
    /\ creates < MaxCreates
    /\ creates' = creates + 1
    /\ vmfr' = [vmfr EXCEPT ![r] = Created(creates + 1)]
    /\ copied' = copied \ {r}
    /\ queue' = queue \cup Notified(r)
    /\ UNCHANGED <<vm, vmi, dv, caches, mounts, orphans, helper, worker, faults>>

\* Delete it: the API server only marks an object that carries a finalizer.
UserDelete(r) ==
    /\ vmfr[r].exists /\ ~vmfr[r].deleting
    /\ vmfr' = [vmfr EXCEPT ![r] = Marked(vmfr[r])]
    /\ queue' = queue \cup Notified(r)
    /\ UNCHANGED <<vm, vmi, dv, caches, guest, worker, faults, creates>>

\* Add or remove one of the user's own volumes, or drop just the disk entry of a
\* restore volume.
UserEditVM ==
    /\ vm.exists
    /\ Fault("useredit")
    /\ \/ \E u \in UserVolumes : vm' = IF u \in vm.volumes THEN Dropped(vm, {u})
                                                           ELSE Added(vm, {u})
       \/ \E r \in vm.disks \cap Restores : vm' = [vm EXCEPT !.disks = @ \ {r}]
    /\ UNCHANGED <<vmfr, vmi, dv, caches, guest, queue, worker, creates>>

----------------------------------------------------------------------------
(***************************************************************************)
(* The guest goes away: its mounts and processes are lost, and a command   *)
(* that the controller was waiting for fails.                              *)
(***************************************************************************)
Stopped == [running |-> FALSE, status |-> [r \in Restores |-> "absent"]]

GuestGone ==
    /\ vmi' = Stopped
    /\ mounts' = {}
    /\ orphans' = {}
    /\ helper' = IF helper \in {"started", "mounted"} THEN "failed" ELSE helper
    /\ UNCHANGED <<vmfr, dv, caches, copied, queue, worker, creates>>

StopVMI == vmi.running /\ Fault("vmstop") /\ GuestGone /\ UNCHANGED vm

DeleteVM ==
    /\ vm.exists
    /\ Fault("vmdelete")
    /\ vm' = NoVM
    /\ GuestGone

\* KubeVirt starts the VM again, with the volumes its spec lists; a volume that
\* was hot-plugged before may now be an ordinary one.
StartVMI ==
    /\ vm.exists /\ ~vmi.running
    /\ \E how \in {"attached", "cold"} :
          vmi' = [running |-> TRUE,
                  status |-> [r \in Restores |-> IF r \in vm.volumes \cap vm.disks
                                                 THEN how ELSE "absent"]]
    /\ UNCHANGED <<vmfr, vm, dv, caches, guest, queue, worker, faults, creates>>

\* KubeVirt attaches a volume that the spec lists and whose claim exists ...
Attach(r) ==
    /\ vm.exists /\ vmi.running
    /\ r \in vm.volumes \cap vm.disks
    /\ vmi.status[r] = "absent"
    /\ Kind[r] = "snapshot" => dv[r] = "succeeded"
    /\ vmi' = [vmi EXCEPT !.status[r] = "attached"]
    /\ UNCHANGED <<vmfr, vm, dv, caches, guest, queue, worker, faults, creates>>

\* ... and detaches one that the spec no longer lists.  A file system that was
\* still mounted from it is dead.
Detach(r) ==
    /\ vmi.running
    /\ r \notin vm.volumes
    /\ vmi.status[r] # "absent"
    /\ vmi' = [vmi EXCEPT !.status[r] = "absent"]
    /\ mounts' = mounts \ {r}
    /\ UNCHANGED <<vmfr, vm, dv, caches, orphans, copied, helper, queue, worker,
                   faults, creates>>

\* CDI finishes the import of a DataVolume.
ProvisionDV(r) ==
    /\ dv[r] = "provisioning"
    /\ dv' = [dv EXCEPT ![r] = "succeeded"]
    /\ UNCHANGED <<vmfr, vm, vmi, caches, guest, queue, worker, faults, creates>>

----------------------------------------------------------------------------
(***************************************************************************)
(* Watch events reach the caches.  A change of a restore object also puts  *)
(* its name into the work queue; VMs and VMIs are not watched.             *)
(***************************************************************************)
SyncVMFR(r) ==
    /\ "vmfr" \in Lagging
    /\ cvmfr[r] # vmfr[r]
    /\ cvmfr' = [cvmfr EXCEPT ![r] = vmfr[r]]
    /\ queue' = queue \cup {r}
    /\ UNCHANGED <<api, cvm, cvmi, guest, worker, faults, creates>>

SyncVM ==
    /\ "vm" \in Lagging
    /\ cvm # vm
    /\ cvm' = vm
    /\ UNCHANGED <<api, cvmfr, cvmi, guest, queue, worker, faults, creates>>

SyncVMI ==
    /\ "vmi" \in Lagging
    /\ cvmi # vmi
    /\ cvmi' = vmi
    /\ UNCHANGED <<api, cvmfr, cvm, guest, queue, worker, faults, creates>>

\* Five seconds pass since the last check of restore r.
TimePasses(r) ==
    /\ \/ vmfr[r].recent # {}
       \/ cvmfr[r].recent # {}
       \/ cur = r /\ loc.recent # {}
    /\ vmfr' = [vmfr EXCEPT ![r] = Aged(vmfr[r])]
    /\ cvmfr' = [cvmfr EXCEPT ![r] = Aged(cvmfr[r])]
    /\ loc' = IF cur = r THEN Aged(loc) ELSE loc
    /\ UNCHANGED <<vm, vmi, dv, cvm, cvmi, guest, queue, pc, cur, seen, then, faults,
                   creates>>
=============================================================================
