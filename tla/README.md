# Verification of vm-file-restore-operator

TLA+ models of the operator that restores files of a KubeVirt virtual machine
from a claim or a volume snapshot, checked with TLC and proved with TLAPS.
Paths below are relative to the repository; the design document is
`docs/superpowers/specs/2026-05-20-hotplug-ssh-restore-design.md`.

## 1. Inventory

| Component | Source | State | Operations | Modelled in |
|---|---|---|---|---|
| VirtualMachineFileRestore (VMFR) reconciler | `internal/controller/virtualmachinefilerestore_controller.go`, `phases.go`, `errors.go` | none of its own: all of it in the object's status and finalizer | `Reconcile`, seven phase handlers, `transitionPhase`, `failRestore`, `cleanup`, finalizer | `FileRestore` |
| Volume hotplug | `hotplug.go` | VM spec (volumes, disks), temporary DataVolume | `HotplugVolume`, `UnplugVolume` | `FileRestore`, `Cluster` |
| Polling of attachment and SSH | `phases.go` (two handlers, `incrementRetryAndRequeue`) | retry counters and time stamps in the status, the delayed work queue | check, count, requeue | `FileRestore` (order), `WaitLoop` (time) |
| SSH and addressing | `ssh.go`, `network.go` | a session | `ConnectSSH`, `RunCommand`, command builders, `GetVMIPAddress` | `FileRestore`, `Guest` (outcomes) |
| Linux guest helper | `guest-helpers/linux/filerestore.sh` | mount table, volume groups, LVM state file | `restore`, `cleanup` | `GuestHelper` (every command), `Guest` (as the controller sees it) |
| Operator keypair and helpers | `keypair.go`, `cmd/main.go` | Secret, ConfigMap | `EnsureOperatorResources`, retry loop | `OperatorResources` |
| Guest OS and mount path | `os.go` | - | pure functions | the constant `PathOf` |
| FileRestoreOperator status | `filerestoreoperator_controller.go` | versions, observed generation and conditions of the status | `Reconcile` | `OperatorStatus` |
| TLS watcher | `pkg/resources/utils/tls_watcher.go`, `cmd/main.go` | ready flag, cache | `Start`, `GetTLSConfig`, the callback of the metrics server | `TLSWatcher` |
| Wiring, manifests, generated code, Windows helper, set-up scripts | `cmd/main.go`, `pkg/resources/operator`, `tools`, `guest-helpers/windows` | - | - | not modelled (section 8) |

**How the parts interact.** A user creates a VMFR. One worker takes names from a
work queue, reads the object from an informer cache and runs the handler of its
phase; a handler writes the status with merge patches that carry no resource
version, and each write leads to another reconcile. Hotplugging patches the VM
with lists computed from a copy it has read before, from a cache; KubeVirt attaches and detaches the
volume in the running instance (VMI), CDI fills the DataVolume of a snapshot. The
helper inside the guest is run over SSH: it finds the volume by its serial, mounts
it at a path built from the *source name*, and in automatic mode copies and
unmounts. Deletion runs `cleanup` (clean-up command, unplug, deletion of the
DataVolume), which ignores its errors, and then removes the finalizer. Before all
this, every operator pod ensures with uncached calls, and without a leader, that
the keypair and the helper archives exist. Beside it, the leading pod writes the
status of FileRestoreOperator objects, and every pod takes the TLS policy of its
metrics server from them, through the same cache.

**What is hard.** Stale reads of three caches at once; non-atomic sequences of
writes with a crash anywhere; patches that never conflict; users who delete the
object, edit, stop or delete the VM at any time; a helper process that outlives
its session and runs beside its successor; waits whose length is decided by a time
stamp, a counter, a delay and a watch event together; several pods, of two
releases, at once. `PROJECT.json` lists these as
hazards, each at its line with the properties that address it.

**What makes it correct.** Nothing is left behind (`NoOrphans`, `FailedIsClean`,
`SucceededIsDetached`); reports are true (`SucceededIsRestored`,
`VolumeReadyIsMounted`, `TerminalIsFinal`); others are not harmed
(`OneRestorePerVM`); everything ends (`RestoreSettles`, `DeletionCompletes`), and in the
time it should (`WaitIsBounded`, `CounterIsPaced`, `StaleChecksAreFew`); the guest is
left clean and a reported restore has copied (`NothingLeftSilently`, `CloneIsRecorded`,
`ReportedIsCopied`, `FreshRestoreSucceeds`); the key in the guests is the operator's
(`KeysMatch`, `ReadyIsComplete`, `ResourcesConverge`); the operator's own object tells
the truth and is obeyed (`ReportsAreReal`, `ObservedNeverGoesBack`, `StatusSettles`,
`PolicyNeverGoesBack`, `PolicyFollowsSpec`).

## 2. Modules

| Module | Role |
|---|---|
| `Cluster` | objects of the API, informer caches, faults; the actions of users, KubeVirt, CDI, caches and clock (external) |
| `Guest` | the helper processes of the guest; extends `Cluster` |
| `FileRestore` | the reconciler; extends `Guest`, so it is the composed system; properties and the refinement mapping |
| `RestoreLifecycle` | abstract specification: lives of restores and the one slot of the VM |
| `MCFileRestore` | constants for TLC |
| `FileRestoreProofs`, `NoOrphansProofs`, `ReportsProofs`, `LifecycleProofs` | theorems about `FileRestore`, each module building on the one before |
| `WaitLoop`, `WaitLoopProofs` | the two polling phases of one restore, with a clock |
| `GuestHelper`, `MCGuestHelper`, `GuestHelperProofs` | the Linux helper, command by command, with several calls at once |
| `OperatorResources`, `MCOperatorResources`, `OperatorResourcesProofs` | keypair and helper archives |
| `OperatorStatus` | status of FileRestoreOperator: users, pods, lease, caches, controller |
| `TLSWatcher`, `MCTLSWatcher` | the TLS policy; extends `OperatorStatus`, so it is the composed system |
| `OperatorStatusProofs` | theorems about that composition |

Definitions named "Mutant" in their comment are plausible bugs; each replaces one
definition in a mutation run and is used by no specification.

### FileRestore and the code

State. `vmfr`, `vm`, `vmi`, `dv` are the API objects; `cvmfr`, `cvm`, `cvmi` the
caches; `mounts`, `helper`, `orphans`, `copied` the guest; `queue`, `pc`, `cur`,
`loc`, `seen`, `then` the worker. A VMFR record has the fields the control flow reads:
deletion mark, finalizer, phase, whether the mount path and the file count are
set, both retry counters, and which check was stamped less than five seconds ago.
`seen` is the copy of the VM that a handler has read and will patch.
`uid` tells an object from its successor of the same name.

Granularity. A step is one write to the API or one exchange with the guest. The VM is
read (`seen`) in a step before the one that patches it, so that users may
edit or delete it in between; the other reads of a handler happen at the step that uses
them. Two patches of one handler to the same object with nothing
but local work between them (time stamp and counter) are one step that may stop
half-way; everywhere else other actors interleave.

| Action | Code |
|---|---|
| `Reconcile`, `HandleDeletion`, `AddFinalizer`, `RemoveFinalizer`, `Settled` | `Reconcile`, `handleVolumeReadyPhase` |
| `TransitionPhase`, `FailRestore` | `transitionPhase`, `failRestore` |
| `HandleInit` | `handleInitPhase` |
| `HandleHotplugging` | `handleHotpluggingPhase`, the checks of `HotplugVolume` |
| `HotplugVolume` | `HotplugVolume`: the DataVolume and the patch of the VM |
| `HandleWaitingForAttachment` | `handleWaitingForAttachmentPhase`, `incrementRetryAndRequeue` |
| `HandleSSHConnecting` | `handleSSHConnectingPhase` |
| `HandleRestoring`, `RestoreDone`, `RestoreTimeout` | `handleRestoringPhase`, `RunCommand` |
| `HandleCleanup`, `VerifyUnplug` | `handleCleanupPhase` |
| `CleanupUnmount`, `UnplugVolume`, `DeleteDataVolume` | `cleanup`, `UnplugVolume` |
| `HelperMount`, `HelperCopy`, `OrphanMount`, `OrphanCopy`, `OrphanDies` | `filerestore.sh` |

The Init phase of the API is never written by the code and is handled like New;
New stands for both and for an empty phase.

Lag. `Lagging` names the caches that may be behind; a cache that does not lag is
the API object. A lagging restore cache delivers the watch event, and with it the
queue entry, when it takes the change in. A cache may skip intermediate versions
but never goes back, except that a restarted operator lists afresh.

Faults. Each kind in `Faults` may happen at the places where the code handles it,
at most `MaxFaults` times in a behaviour: refused calls on restore objects
(`api`), the VM (`vmapi`) and the DataVolume (`dvapi`), no address or key
(`lookup`, that of the clean-up included), no connection (`ssh`), failing mount or
copy (`copy`), failing unmount (`umount`), the ten-minute timeout or a broken session (`timeout`), a crash of the
operator (`crash`), and the users' `vmstop`, `vmdelete`, `useredit`.

### OperatorResources and the code

One action per API call of `EnsureOperatorResources`, per pod. `Decide` is the
decision after both reads; `AttemptFails` is the retry loop of `main`, which exits
after `MaxAttempts`. The ConfigMap has a resource version, so `Update` conflicts
when it changed. The Secret is never deleted by the code, so a generated key is
named by the pod that stored it.

### WaitLoop and the code

`FileRestore` only tells whether a check is recent and whether a counter is at its
bound. `WaitLoop` has one restore in one of the two phases and a clock in half
seconds, so that the whole seconds of `metav1.Time` differ from the time they stand
for. `Reconcile` is the beginning of a handler (bound, rate limit, instance), `Stamp`
the first patch, `NotYet`, `Succeeds` and `Broken` the outcomes of a check,
`Transition` and `FailRestore` the ways out. The queue has one entry and one delayed
entry per object, the earlier time wins (client-go); a watch event of any change,
the controller's own included, queues the object. `MaxLag` bounds the age of the
cached copy, `MaxBusy` the time other restores keep the worker, `MaxDial` an attempt
to connect.

What this shows about the times the code and its documents name: "at least 5
seconds between attachment checks" (`phases.go:363`) is more than four, as the stamp
is cut to seconds, and nothing at all when the cached copy is older than the stamp.
The longer delays after five and ten attempts have no effect, as the watch event of
the counter's own patch brings the object back, and the rate limit then sets the
pace: this is why the wait of 60 attempts is about the five minutes README.md:283
names, and not the eighteen that the delays add up to. The "2-minute timeout" of SSH
(README.md:284) is four minutes when every dial takes its ten seconds.
`StaleChecksAreFew` is only claimed for the attachment: a dial may take longer than
the rate limit, and then a copy from just before the latest stamp passes it too.

### GuestHelper and the code

A call of the script is a record with its position; a step is a command that changes
the guest or reads what another call may change. `Find` to `Copy` are restore mode in
the order of the script. `Look`, `ReadStateFile`, `Unmount`, `RemoveVG`,
`RemoveStateFile` and `RemovePath` are `unmount_and_cleanup`, which is cleanup mode and
the end of the error paths after the state file is written: the file is read near its
beginning and removed near its end, and other calls come in between. A volume group is
named after the serial of the call that cloned it; `vgimportclone` renames it on the
disk itself. `Plug` and `Unplug` are the VM spec, one restore volume at a time; the
guest may keep a disk after the unplug until nothing uses it (`Detach`). A session that
is given up leaves the script running (`Abandon`), so that later calls run beside it; as
its output is closed, any message may end it (`Die`). Faults: LVM commands (`lvm`), the
state file (`write`), directories (`mkdir`), mounts, copies, unmounts, abandoned
sessions, a restart of the guest.

Not every end of the script passes `unmount_and_cleanup`, and `cut` records where one
did not: a call that dies, the `mkdir -p` of line 313, which `set -e` ends (a failure, or
a read-only file system mounted at the path itself), and a state file that another call
has removed between the test and the read (lines 88 and 89). `NothingLeftSilently`
excepts these and no others.

Mounts are stacked: `over` are the mounts that a new one covers, and `umount` takes the
top. That a mount at the path also hides the directories of logical volumes below it is
left out, as is what a kernel does with a disk that is removed in use. The order of
logical volumes is left open, which allows more than the guest does.

Two things to know of the script: line 212 speaks of the largest partition, the code
takes the last one with a file system; and a lazy unmount of a plain disk ends with
success while the disk is in use, whereas with LVM the volume group cannot be
deactivated and the call reports it. `CloneIsRecorded` excepts a call that ends between
`vgimportclone` and the state file, and one that wrote the file while a clean-up beside
it was about to remove an older one (`overtaken`).

### OperatorStatus, TLSWatcher and the code

An object carries a resource version, so `Update` of an old copy conflicts. Each
pod has a cache and a queue of its own; only the holder of the lease reconciles, but
a call that was under way when the lease was lost is still made. `conditions` is the
generation for which all four conditions are as the controller sets them.
`GetTLSConfig` is evaluated at every `Handshake`, from the start of the pod on: the
default policy before the watcher is ready, then the first listed object, in no
fixed order. Cipher suites are grouped by what the code tells apart; names that Go
does not have are dropped, and a policy whose names are all unknown leaves the
suites to Go. A custom profile wins whatever the type says. The comment at
`tls_watcher.go:132` speaks of the operator's namespace; the list is of all
namespaces the cache covers.

## 3. Runs

All runs of `MCFileRestore` allow two objects to be created, with
`MaxAttachmentWait = MaxSSHWait = 1` (60 and 24 in the code: only "at the bound"
and "below" are told apart). Deadlock is checked in `wait_loop`, where a restore
that waits must always have a next step; elsewhere a cluster in which every restore
has ended, pods that are all ready and a guest with nothing to do may stop.

| Run | Instance | Shows |
|---|---|---|
| `core` | automatic snapshot + manual claim restore, current caches, 1 fault of 7 kinds | `TypeOK`, `VolumeReadyIsMounted`, `SucceededIsDetached`, `TerminalIsFinal`, and the refinement `ImplementsLifecycle` |
| `stale_objects` | one snapshot restore and its successor, lagging VMFR and VMI caches, 1 fault of 6 kinds, fairness | `NoOrphans`, `SucceededIsRestored`, `MountPathKnown`, `DeletionCompletes`, `RestoreSettles` |
| `stale_vm` | two restores, lagging VM cache, VM faults | `OneRestorePerVM` |
| `disturbed` | restores of the four kinds of source, failing status patches, lookups and copies, timeouts, user edits and stops of the VM, 1 fault | `FailedIsClean` |
| `live_two` | two claim restores competing for the VM, fairness | `RestoreSettles` |
| `wait_loop` | bounds of 7 and 3 attempts, dials of up to 5.5 s, half a second of lag and of other work, 1 edit, 1 fault | `WaitTypeOK`, `CounterIsPaced`, `StaleChecksAreFew`, `WaitIsBounded` |
| `keypair` | three pods of two releases, 1 fault, 2 attempts, fairness | `ResourcesTypeOK`, `KeysMatch`, `ReadyIsComplete`, `ResourcesConverge` |
| `operator_config` | one object, pods of two releases, a custom and a built-in profile, 2 events (edits, deletions, lost leases, crashes, refused calls), fairness | `StatusTypeOK`, `ReportsAreReal`, `ObservedNeverGoesBack`, `StatusSettles`, `PolicyNeverGoesBack`, `PolicyFollowsSpec` |
| `guest_helper` | an automatic restore of an LVM snapshot (root and swap) and a manual one of a plain claim with one mount path, 3 calls, 1 fault of 8 kinds | `HelperTypeOK`, `NothingLeftSilently`, `CloneIsRecorded`, `ReportedIsCopied`, `FreshRestoreSucceeds` |

**Why the bounds are enough for what they ask.** Restores interact through the VM,
the worker and the mount path, always pairwise, so two restores show every
interaction; a recreated object of the same name needs two creations of one name,
which the bound allows. One fault at any step reaches every error path from every
phase. `wait_loop` needs more than five attempts for the longer delay, a dial longer
than the rate limit, and a lag of at least one tick for a stale check. In
`guest_helper` three calls are an abandoned one, one beside it and one after both; the
shared path stacks the mounts of two restores. Two faults in three calls are beyond
TLC's time; the theorems of section 6 have no bound on either. In `operator_config` two
events are an edit beside a hand-over of the lease. What a theorem of section 6 states
holds without the bounds.

## 4. Disagreements between code and documentation

Each of these is a run that TLC must find violated; `PROJECT.json` has the
quotations.

| Run | What happens |
|---|---|
| `same_path` | Two manual restores of one source: the second is refused at hotplug, its clean-up command names the shared mount path and unmounts the first one's volume, which stays VolumeReady. |
| `stale_vm_leak` | The VM cache has not seen the hotplug when the object is deleted: the unplug is an empty patch, the finalizer goes, the volume stays. |
| `claim_twice` | A claim with LVM is restored from twice: the first call renames the claim's own volume group, and its clean-up, or the repeated call itself, removes it, so the second finds none. A call repeated on the disk of one snapshot restore finds its group removed as well. |

The passing runs leave the following out on purpose, as their properties do not hold
with them. The first column is a listed run, the second what to change in its `.cfg`
and the one property to check; TLC then finds the counterexample.

| Run | Change | What happens |
|---|---|---|
| `core` | `"vmdelete"` in `Faults`; `SucceededIsDetached` | Without a VM `handleCleanupPhase` reports Succeeded and never deletes the DataVolume (`phases.go:660`; README.md:44 "deletes temporary PVCs"). |
| `core` | the same; `VolumeReadyIsMounted` | A manual restore stays VolumeReady when its VM is gone, as nothing is watched or requeued in that phase. |
| `core` | `Lagging = {"vmfr"}`; `TerminalIsFinal` | A reconcile of a stale copy overwrites a terminal phase, as status patches carry no resource version. |
| `core` | `CleanupUnmountsFirst` | The helper only logs a failed unmount (`filerestore.sh:396`), and the Cleanup phase unplugs the mounted volume without a command in the guest (design document, lines 426-427: "Run cleanup command in guest"). |
| `disturbed` | `"crash"` in `Faults`; `FailedIsClean` | After a crash between the Failed patch (`phases.go:194`) and the clean-up (`phases.go:205`) nobody cleans up until the object is deleted (design document, line 118: "terminal state, cleanup attempted"). |
| `disturbed` | `"vmapi"`, `"dvapi"` or `"vmdelete"` in `Faults`; `FailedIsClean` | Clean-up after a failure is one attempt, and without a VM the DataVolume is not deleted. |
| `disturbed` | `VMPatchKeepsOthers` | A user edits the VM between the read and the patch of a handler: the merge patch sends whole lists and takes the edit back (`hotplug.go:228` "Use Patch instead of Update to avoid conflicts"). |
| `stale_objects` | `"vmapi"` or `"dvapi"` in `Faults`; `NoOrphans` | `cleanup` ignores its errors and the finalizer goes: documented as best effort. |
| `guest_helper` | `Faults = {"abandon", "write"}`, `MaxFaults = 2`; `RecordIsKept` | A clean-up has read an older state file when another call for the path writes its own: the clean-up removes that one, and no later clean-up finds the cloned volume group (`filerestore.sh:268`). |
| `guest_helper` | `Layout <- BothPlain`, `Volumes <- NoVolumes`, `HasSource <- SourceOnDisks`, `Manual = {}`; `CopiedFromSource` | Two restores share a mount path (`os.go:53`), and an abandoned call of one mounts over the other's disk: the other copies from the wrong disk and reports success. |

That a volume is unplugged although the clean-up *command* failed is what the
implementation plan asks for (`docs/superpowers/plans/2026-05-20-hotplug-ssh-restore.md:2757` "proceed
with unplug anyway") and no disagreement.

## 5. Fairness

`FairSpec` of `FileRestore` assumes weak fairness of the worker's steps and strong
fairness of taking a given name from the queue (the queue is first in, first out,
and the worker comes back to it); weak fairness of the watch events, of time, of
KubeVirt's attach and detach, of CDI's import and of the helper (which the
ten-minute timeout bounds). Nothing is assumed of users, faults, or a restart of
the VM. That CDI finishes is an assumption on the environment: the code waits for
a DataVolume without a bound. `FairSpec` of `OperatorResources` assumes that a pod
goes on and that the kubelet restarts a pod that has exited; faults are finitely
many. `FairSpec` of `TLSWatcher` assumes that the kubelet starts a pod again, that
its cache syncs and delivers events, that a free lease is taken and a pod without it
exits, and that the controller goes on; nothing of users and clients. `WaitLoop` and
`GuestHelper` have no liveness: the first states its bounds in time, where `Tick`
stops for an entry that is due, and the second is bounded by its calls.

## 6. Proofs

Every safety property that a passing run checks is also a theorem, for every value
of the constants. The assumptions on constants are `ConstantsAssumption`,
`ResourcesAssumption`, `WaitAssumption`, `HelperAssumption` and `StatusAssumption`:
distinct names, natural bounds, at least one pod, disks and layouts of the right
shape. Some theorems have hypotheses beyond these, named where they are stated: lags and
faults that they exclude, and paths that have to differ. Section 4 shows for most of
them how the property fails without; the others, and `Timely`, are sufficient
conditions of the argument.

### The reconciler

- `TypeCorrect` (`Spec => []TypeOK`). `TypeOK` is inductive.
- `OneRestore` (`Spec => []OneRestorePerVM`), with every lag and fault. The
  property is not inductive because a patch writes the list of the cached copy.
  `OneRestoreInv` adds the same statement about the cached copy and the one in memory: a patch adds a
  volume to a list without another restore's, whichever copy that was.
- `NothingLeftBehind` (`Spec => []NoOrphans`) for a current copy of the VM and
  calls on the VM and the DataVolume that are not refused (`CoherentVM`); without
  that assumption the statement is false (`stale_vm_leak`) or weakened by
  best-effort clean-up. The restore cache and the VMI cache may lag, and crashes
  and refused status patches are allowed. The argument is in two layers.
  `ObjectInv`, which needs no hypothesis (`AlwaysObjects`): the object the worker
  works on exists with its finalizer whenever a handler that plugs could run, as a
  cached copy that carries the finalizer is a version of the stored object
  (`CachedIsAnchored`, `WorkIsAnchored`, `CopyIsOlder`, by the uids), and a deletion
  that was seen is final (`DeletionIsSeen`, `DeletionIsFinal`). `HoldInv`: only
  snapshot restores have DataVolumes, and when the finalizer is about to be removed
  nothing is held (`CleanBeforeRemoval`).
- `MountPathAlwaysKnown` (`MountPathKnown`) and `SucceededOnlyRestored`
  (`SucceededIsRestored`), for every lag and fault. A handler decides on its copy and
  writes the stored object. `ReportInv` says that mount path and file count, once
  written, stay, so that a copy that is acted upon is behind the stored object in
  both (`CopiesAreBehind`; that it is still the same object is `ObjectInv`), and that
  the worker holds a copy that backs what it is about to report (`PlansAreBacked`).

The theorems of `LifecycleProofs` are about a worker that reads current objects
(`CurrentObjects`). They rest on `CurrentInv`: past the check of the finalizer nobody
else writes the status of the object, and nobody can remove it, so the worker's copy
agrees with the stored object in phase, mount path and file count (`LocIsCurrent`),
and the point the worker has reached tells the phase (`PlansFollowPhase`). The lemmas
`ObjectWrites`, `VMWrites`, `DVWrites`, `VMIWrites`, `MountWrites`, `HelperWrites` and
`WorkerMoves` list, once and for all actions, who changes what. Those that need a
current VM also use `SeenInv` (`AlwaysSeen`): the copy that is about to be patched and
the stored VM list the same volumes of restores, as only the worker plugs and unplugs
these, while users may have changed all else. It fails with a lagging cache.

| Theorem | Property | Hypotheses | Inductive invariant, and why it is needed |
|---|---|---|---|
| `TerminalFinal` | `TerminalIsFinal` | current objects | `CurrentInv`: what is written follows the phase in the copy, which is the stored one |
| `SucceededDetached` | `SucceededIsDetached` | no lag, VM not deleted | `DetachInv`: what unplug, deletion of the DataVolume and check of the VMI have achieved lasts until the phase is written |
| `FailedClean` | `FailedIsClean` | current objects and VM, no crash, no refused call on VM or DataVolume, VM not deleted | `FailInv`: a failed restore holds nothing, or the worker is at its clean-up |
| `ReadyStaysMounted` | `VolumeReadyIsMounted` | current objects and VM, VM neither stopped nor deleted, distinct paths | `TakenInv`: from WaitingForAttachment to VolumeReady the volume is in the VM spec, so KubeVirt does not detach it; `ReadyInv`: only helpers of automatic restores unmount by themselves |
| `LifecycleImplemented` | `ImplementsLifecycle` | current objects and VM, no refused patch of the VM, VM not deleted | `SlotInv`: a volume in the VM spec belongs to an object with the finalizer, and who is done with the unplug is out of the spec; with `OneRestorePerVM` this is the slot of the abstract specification |

In the refinement the initial states correspond (`<1>1`), and `LifecycleStep` maps
every step: `LifeWrites` shows that a step that changes the life of one restore is one
of Create, Begin, Ready, Succeed, Fail and Remove and changes neither another life nor
the VM; `SlotWrites` that the VM spec changes by Plug and Unplug, with no life changed.

### The other components

- `ResourcesTypeCorrect` (`ResourcesTypeOK`) and `MatchingKeys` (`KeysMatch`) for any
  number of pods. `ResourcesInv` adds what remains true of a pod's earlier reads: the
  Secret it read is still stored (`ReadsAreCurrent`), and while no Secret is stored a
  pod about to store one has no ConfigMap beside it (`NoMapBeforeSecret`).
- `CompleteWhenReady` (`ReadyIsComplete`). A pod becomes ready without looking whether
  the ConfigMap it holds is still there. `CompleteInv` states a debt: whenever the
  ConfigMap is missing, or carries the archives of no pod, some pod that is not ready
  has yet to write it (`SomebodyOwes`).
- `WaitTypeCorrect` (`WaitTypeOK`) and `Paced` (`CounterIsPaced`), for all bounds,
  lags and faults. The counter alone is not inductive. `PacedInv` adds that the
  stored stamp is that of the latest check, or within a second of it
  (`StampIsLatest`), and that the number of checks that are not stale is paced by
  the latest check (`ChecksArePaced`): a check on a current copy has passed the
  rate limit of the latest one.
- `FewStaleChecks` (`StaleChecksAreFew`) when the cache and the queue together take
  less than half of the rate limit (`Timely`, in half seconds): the events of a check
  are then handled before the next check is allowed. `StaleInv` bounds the age of the
  copy (`CopyAge`) and charges every queue entry that could still lead to a check on
  an old copy to the phase change, an edit or a fault (`FewLeftovers`).
- `BoundedWait` (`WaitIsBounded`), for all bounds. `BoundInv` says of every point of a
  round how much of its time may have passed, and of an idle worker that a queue
  entry, an event or a delayed entry brings the next check in time
  (`NextCheckComes`); attempts the copy has not seen yet cost no time
  (`UnseenAttempts`).
- `HelperTypeCorrect` (`HelperTypeOK`) and `NothingLeft` (`NothingLeftSilently`) for any
  disks, volumes, paths, faults and overlapping calls. `MountsOwned`: a mount belongs
  to a call that has come to its mounts, with its disk and path, and if that call has
  ended, it was a manual restore that succeeded, its clean-up returned an error, or it
  ended without its clean-up at one of the commands named in section 2.
- `ReportedCopies` (`ReportedIsCopied`), for shared paths too. `CopiesKnown`: a call
  reaches its clean-up with exit code 0 only from a copy. That the copy is from the
  call's own disk is false (section 4).
- `ClonesRecorded` (`CloneIsRecorded`) when every restore has its own path
  (`OwnPaths`). The state file is named after the path, so that two LVM restores of one
  path overwrite each other's. `CloneInv`: a clone is on the disk of its serial, a
  state file names only the serial of its path, a clean-up that will remove a group has
  read its own, and a clone that is at risk (no file names it, or a call is about to
  remove the file) is accounted for by a call that is yet to write the file, ended
  before it could, or was overtaken.
- `FreshRestores` (`FreshRestoreSucceeds`), whatever earlier calls have left: failed,
  dead and abandoned ones included. `QuietInv`: a restore that started alone, and since
  when nothing has failed, is still alone, and at each command has found what it needs
  (`OnCourse`).
- `StatusTypeCorrect`, `RealReports`, `ObservedAdvances`, `PolicyAdvances`
  (`StatusTypeOK`, `ReportsAreReal`, `ObservedNeverGoesBack`,
  `PolicyNeverGoesBack`), for any pods, objects and profiles, of the composed
  specification. Versions of an object are ordered (`Older`: by resource version,
  and with it uid, generation and observed generation). `VersionInv` says that every
  cached copy, and every copy about to be written, is older than the stored object,
  so an `Update` that is not refused writes on the version it was computed from.
  `Composed` carries this to the specification with the watcher. `ServedInv` says
  that what a pod has served is older than what its cache holds, which only moves
  forward while the pod runs (`ReadyIsRunning`).

Only model-checked: liveness under fairness (`RestoreSettles`, `DeletionCompletes`,
`ResourcesConverge`, `StatusSettles`, `PolicyFollowsSpec`), which is out of the
prover's reach, and the properties of section 4 that the code violates.

## 7. Abstraction

Names, paths, messages, events, conditions and times are model values, Booleans or
absent. One VM stands for all: restores of different VMs share only the worker. A
volume that the VMI lists but is not ready counts as absent, as in the code that
waits for it. `TimePasses` ends the five-second window of both checks of a
restore at once.

## 8. Not modelled

- Two leaders at once during a failover; leader election makes it short.
- Errors of a cached Get or List other than NotFound (with an error of its List the TLS
  watcher answers the default policy, `tls_watcher.go:137`; a cache that has synced
  gives none), and an unknown phase, which the
  enumeration of the API schema excludes.
- Detection of the guest OS, choice of the address, command strings, the volume
  mode of the DataVolume: pure functions.
- Inside the Linux helper: directories, `sync`, `udev`, the count of restored files,
  and a disk that is removed while it is in use. The Windows helper, which has the
  same contract at the level of `Guest` but keeps the online state of disks instead
  of volume groups.
- A failed DataVolume import: the code treats it as one that goes on.
- An SSH handshake that never ends: the timeout of `ssh.Dial` covers the TCP
  connection only, and the models assume that an attempt ends.
- Manifests, flags, probes, certificates, generated code (no behaviour to check) and
  the set-up scripts, which a user runs once in the guest.

## 9. Plan

Done first, because the restore is what users rely on: `Cluster`, `Guest`,
`FileRestore`, `RestoreLifecycle`; then `OperatorResources`; then the parts around
them: `WaitLoop`, `GuestHelper`, `OperatorStatus` and `TLSWatcher`. What is left:

1. Proofs: every safety property is proved. Left are the invariant behind the
   liveness properties (a restore that is not settled is queued, in work, or about to
   be notified), and which hypotheses of `LifecycleProofs` can be dropped.
2. `Guest`'s helper shown to be an abstraction of `GuestHelper`.
3. Pure functions (address, OS detection, counting of restored files) against
   reference definitions; the Windows helper.
