------------------------- MODULE FileRestoreProofs -------------------------
(***************************************************************************)
(* Type correctness and one restore per VM, proved for every set of        *)
(* restores, every source, every combination of lagging caches and faults, *)
(* and every bound.                                                        *)
(***************************************************************************)
EXTENDS FileRestore, TLAPS

Checks == {"attachment", "ssh"}

----------------------------------------------------------------------------
(***************************************************************************)
(* The operators that update a restore object or a VM spec.                *)
(***************************************************************************)

\* Every update of a restore object yields a restore object.
LEMMA UpdateType ==
    ASSUME NEW o \in VMFR
    PROVE  /\ WithFinalizer(o) \in VMFR /\ WithoutFinalizer(o) \in VMFR
           /\ Marked(o) \in VMFR /\ Aged(o) \in VMFR
           /\ WithMountPath(o) \in VMFR
           /\ \A phase \in Phases : WithPhase(o, phase) \in VMFR
           /\ \A check \in Checks : Stamped(o, check) \in VMFR
           /\ \A check \in Checks : Retried(o, check) \in VMFR
           /\ \A check \in Checks : RetriesReset(o, check) \in VMFR
           /\ \A r \in Restores : Restored(o, r \in Automatic) \in VMFR
<1>1. NoVMFR \in VMFR
  BY DEF NoVMFR, VMFR, Phases
<1>2. WithFinalizer(o) \in VMFR /\ Aged(o) \in VMFR /\ WithMountPath(o) \in VMFR
  BY DEF WithFinalizer, Aged, WithMountPath, VMFR
<1>9. WithoutFinalizer(o) \in VMFR
  <2>1. CASE o.deleting
    BY <1>1, <2>1 DEF WithoutFinalizer
  <2>2. CASE ~o.deleting
    BY <2>2 DEF WithoutFinalizer, VMFR
  <2> QED BY <2>1, <2>2
<1>3. Marked(o) \in VMFR
  <2>1. CASE o.finalizer
    BY <2>1 DEF Marked, VMFR
  <2>2. CASE ~o.finalizer
    BY <1>1, <2>2 DEF Marked
  <2> QED BY <2>1, <2>2
<1>4. \A phase \in Phases : WithPhase(o, phase) \in VMFR
  BY DEF WithPhase, VMFR
<1>5. \A check \in Checks : Stamped(o, check) \in VMFR
  BY DEF Stamped, Checks, VMFR
<1>6. \A check \in Checks : Retried(o, check) \in VMFR
  BY ConstantsAssumption DEF Retried, Checks, VMFR
<1>7. \A check \in Checks : RetriesReset(o, check) \in VMFR
  BY DEF RetriesReset, Checks, VMFR
<1>8. \A r \in Restores : Restored(o, r \in Automatic) \in VMFR
  BY DEF Restored, VMFR, Phases
<1> QED
  BY <1>2, <1>3, <1>4, <1>5, <1>6, <1>7, <1>8, <1>9

\* The fields that the API server and the finalizer logic read agree.
SameKey(o, p) ==
    /\ o.exists = p.exists /\ o.uid = p.uid
    /\ o.deleting = p.deleting /\ o.finalizer = p.finalizer

\* A status update, and the passing of time, leave those fields alone.
LEMMA UpdateKey ==
    ASSUME NEW o \in VMFR
    PROVE  /\ SameKey(Aged(o), o) /\ SameKey(WithMountPath(o), o)
           /\ \A phase \in Phases : SameKey(WithPhase(o, phase), o)
           /\ \A check \in Checks : SameKey(Stamped(o, check), o)
           /\ \A check \in Checks : SameKey(Retried(o, check), o)
           /\ \A check \in Checks : SameKey(RetriesReset(o, check), o)
           /\ \A r \in Restores : SameKey(Restored(o, r \in Automatic), o)
<1>1. SameKey(Aged(o), o) /\ SameKey(WithMountPath(o), o)
  BY DEF Aged, WithMountPath, SameKey, VMFR
<1>2. \A phase \in Phases : SameKey(WithPhase(o, phase), o)
  BY DEF WithPhase, SameKey, VMFR
<1>3. \A check \in Checks : SameKey(Stamped(o, check), o)
  BY DEF Stamped, Checks, SameKey, VMFR
<1>4. \A check \in Checks : SameKey(Retried(o, check), o)
  BY DEF Retried, Checks, SameKey, VMFR
<1>5. \A check \in Checks : SameKey(RetriesReset(o, check), o)
  BY DEF RetriesReset, Checks, SameKey, VMFR
<1>6. \A r \in Restores : SameKey(Restored(o, r \in Automatic), o)
  BY DEF Restored, SameKey, VMFR
<1> QED
  BY <1>1, <1>2, <1>3, <1>4, <1>5, <1>6

\* A new object has its own uid and no finalizer.
LEMMA CreatedKey ==
    ASSUME NEW uid \in Nat
    PROVE  /\ Created(uid) \in VMFR /\ Created(uid).uid = uid
           /\ Created(uid).exists /\ ~Created(uid).deleting /\ ~Created(uid).finalizer
  BY DEF Created, NoVMFR, VMFR, Phases

\* The object that is not there.
LEMMA NoVMFRKey ==
    /\ NoVMFR \in VMFR /\ NoVMFR.uid = 0
    /\ ~NoVMFR.exists /\ ~NoVMFR.deleting /\ ~NoVMFR.finalizer
  BY DEF NoVMFR, VMFR, Phases

\* Adding the finalizer changes nothing else.
LEMMA WithFinalizerKey ==
    ASSUME NEW o \in VMFR
    PROVE  /\ WithFinalizer(o).finalizer
           /\ WithFinalizer(o).exists = o.exists /\ WithFinalizer(o).uid = o.uid
           /\ WithFinalizer(o).deleting = o.deleting
  BY DEF WithFinalizer, VMFR

\* Removing the finalizer removes a deleted object and changes nothing else of
\* another one.
LEMMA WithoutFinalizerKey ==
    ASSUME NEW o \in VMFR
    PROVE  /\ o.deleting => WithoutFinalizer(o) = NoVMFR
           /\ ~o.deleting => /\ WithoutFinalizer(o).exists = o.exists
                             /\ WithoutFinalizer(o).uid = o.uid
                             /\ ~WithoutFinalizer(o).deleting
                             /\ ~WithoutFinalizer(o).finalizer
  BY DEF WithoutFinalizer, VMFR

\* A deletion marks an object that has the finalizer and removes any other one.
LEMMA MarkedKey ==
    ASSUME NEW o \in VMFR
    PROVE  /\ ~o.finalizer => Marked(o) = NoVMFR
           /\ o.finalizer => /\ Marked(o).exists = o.exists /\ Marked(o).uid = o.uid
                             /\ Marked(o).deleting /\ Marked(o).finalizer
  BY DEF Marked, VMFR

\* The VM that is not there.
LEMMA NoVMKey == NoVM \in VM /\ ~NoVM.exists /\ NoVM.volumes = {} /\ NoVM.disks = {}
  BY DEF NoVM, VM

\* What the updates of a VM spec do.
LEMMA SpecUpdate ==
    ASSUME NEW spec \in VM, NEW entries \in SUBSET (Restores \cup UserVolumes)
    PROVE  /\ Added(spec, entries) \in VM
           /\ Added(spec, entries).volumes = spec.volumes \cup entries
           /\ Added(spec, entries).disks = spec.disks \cup entries
           /\ Dropped(spec, entries) \in VM
           /\ Dropped(spec, entries).volumes = spec.volumes \ entries
           /\ Dropped(spec, entries).disks = spec.disks \ entries
           /\ Added(spec, entries).exists = spec.exists
           /\ Dropped(spec, entries).exists = spec.exists
  BY DEF Added, Dropped, VM

\* What a merge patch of the VM leaves of the stored lists.
LEMMA MergePatchType ==
    ASSUME NEW stored \in VM, NEW base \in VM, NEW new \in VM
    PROVE  /\ MergePatch(stored, base, new) \in VM
           /\ MergePatch(stored, base, new).exists = stored.exists
           /\ MergePatch(stored, base, new).volumes =
                  IF new.volumes = base.volumes THEN stored.volumes ELSE new.volumes
           /\ MergePatch(stored, base, new).disks =
                  IF new.disks = base.disks THEN stored.disks ELSE new.disks
  BY DEF MergePatch, VM

----------------------------------------------------------------------------
(***************************************************************************)
(* Type correctness.  ControlOK, the part of TypeOK that ties then to pc,  *)
(* is what makes it inductive.                                             *)
(***************************************************************************)

\* The initial state has the right types.
LEMMA InitType == Init => TypeOK
  BY ConstantsAssumption, NoVMFRKey, NoVMKey DEF Init, TypeOK, ControlOK, VM, VMI

\* Every step keeps them, one case per action.
LEMMA NextType ==
    ASSUME TypeOK, [Next]_vars
    PROVE  TypeOK'
<1> USE ConstantsAssumption, NoVMFRKey, NoVMKey
    DEF TypeOK, ControlOK, Return, Continue, Notified, api, caches, guest, worker, Fault,
        PatchStatus, PatchFails, WriteFails, Dispatched
<1>1. ASSUME NEW r \in Restores, Reconcile(r) PROVE TypeOK'
  BY <1>1 DEF Reconcile, CachedVMFR
<1>2. CASE HandleDeletion
  BY <1>2 DEF HandleDeletion
<1>3. CASE AddFinalizer
  BY <1>3, UpdateType DEF AddFinalizer
<1>4. CASE RemoveFinalizer
  BY <1>4, UpdateType DEF RemoveFinalizer, CopyIsCurrent, CachedVMFR
<1>5. CASE Settled
  BY <1>5 DEF Settled, Phases
<1>6. CASE TransitionPhase
  BY <1>6, UpdateType DEF TransitionPhase, Phases
<1>7. CASE FailRestore
  BY <1>7, UpdateType DEF FailRestore, Phases
<1>8. CASE HandleInit
  BY <1>8, UpdateType DEF HandleInit, Phases
<1>9. CASE HandleHotplugging
  <2>1. CachedVM \in VM /\ (~Refused(CachedVM) => CachedVM.exists)
    BY DEF CachedVM, Refused
  <2> QED
    BY <1>9, <2>1 DEF HandleHotplugging, ContinueWithVM, Phases
<1>39. CASE HotplugVolume
  <2>1. cur \in Restores /\ seen \in VM
    BY <1>39 DEF HotplugVolume
  <2>2. Added(seen, {cur}) \in VM
    BY <2>1, SpecUpdate
  <2>3. MergePatch(vm, seen, Added(seen, {cur})) \in VM
    BY <2>1, <2>2, MergePatchType
  <2>4. vm' \in VM
    BY <1>39, <2>3 DEF HotplugVolume, PatchVM
  <2>5. dv' \in [Restores -> {"none", "provisioning", "succeeded"}]
    BY <1>39, <2>1 DEF HotplugVolume
  <2>6. ControlOK' /\ ((cur = None) <=> (pc = "idle"))'
    BY <1>39, <2>1 DEF HotplugVolume, Phases
  <2>7. /\ cur' \in Restores \cup {None} /\ loc' \in VMFR
        /\ queue' \subseteq Restores /\ faults' \in Nat
    BY <1>39, <2>1 DEF HotplugVolume
  <2>8. seen' = NoVM /\ pc' \notin {"plug", "unplug"}
    BY <1>39 DEF HotplugVolume
  <2> QED
    BY <1>39, <2>4, <2>5, <2>6, <2>7, <2>8 DEF HotplugVolume
<1>10. CASE HandleWaitingForAttachment
  <2> DEFINE stamped == Stamped(vmfr[cur], "attachment")
  <2>1. cur \in Restores /\ vmfr[cur] \in VMFR /\ loc \in VMFR
    BY <1>10 DEF HandleWaitingForAttachment
  <2>2. stamped \in VMFR
    BY <2>1, UpdateType DEF Checks
  <2>3. /\ Retried(stamped, "attachment") \in VMFR
        /\ RetriesReset(stamped, "attachment") \in VMFR
    BY <2>2, UpdateType DEF Checks
  <2>4. vmfr' \in [Restores -> VMFR] /\ loc' \in VMFR
    <3> HIDE DEF stamped
    <3> QED BY <1>10, <2>1, <2>2, <2>3 DEF HandleWaitingForAttachment, stamped
  <2>5. ControlOK' /\ ((cur = None) <=> (pc = "idle"))'
    BY <1>10, <2>1 DEF HandleWaitingForAttachment, Phases
  <2>6. /\ cur' \in Restores \cup {None}
        /\ queue' \subseteq Restores /\ faults' \in Nat
    BY <1>10, <2>1 DEF HandleWaitingForAttachment
  <2> QED
    BY <1>10, <2>4, <2>5, <2>6 DEF HandleWaitingForAttachment
<1>11. CASE HandleSSHConnecting
  <2> DEFINE stamped == Stamped(vmfr[cur], "ssh")
  <2>1. cur \in Restores /\ vmfr[cur] \in VMFR /\ loc \in VMFR
    BY <1>11 DEF HandleSSHConnecting
  <2>2. stamped \in VMFR
    BY <2>1, UpdateType DEF Checks
  <2>3. Retried(stamped, "ssh") \in VMFR /\ RetriesReset(stamped, "ssh") \in VMFR
    BY <2>2, UpdateType DEF Checks
  <2>4. vmfr' \in [Restores -> VMFR] /\ loc' \in VMFR
    <3> HIDE DEF stamped
    <3> QED BY <1>11, <2>1, <2>2, <2>3 DEF HandleSSHConnecting, stamped
  <2>5. ControlOK' /\ ((cur = None) <=> (pc = "idle"))'
    BY <1>11, <2>1 DEF HandleSSHConnecting, Phases
  <2>6. /\ cur' \in Restores \cup {None}
        /\ queue' \subseteq Restores /\ faults' \in Nat
    BY <1>11, <2>1 DEF HandleSSHConnecting, LookupFails, ConnectFails
  <2> QED
    BY <1>11, <2>4, <2>5, <2>6 DEF HandleSSHConnecting
<1>12. CASE HandleRestoring
  BY <1>12 DEF HandleRestoring, LookupFails, ConnectFails
<1>13. CASE RestoreDone
  <2> DEFINE new == Restored(vmfr[cur], cur \in Automatic)
  <2>1. cur \in Restores /\ vmfr[cur] \in VMFR /\ new \in VMFR
    BY <1>13, UpdateType DEF RestoreDone
  <2>2. vmfr' \in [Restores -> VMFR] /\ loc' \in VMFR
    <3> HIDE DEF new
    <3> QED BY <1>13, <2>1 DEF RestoreDone, new
  <2> QED
    BY <1>13, <2>1, <2>2 DEF RestoreDone
<1>14. CASE RestoreTimeout
  BY <1>14 DEF RestoreTimeout, Abandoned
<1>15. CASE HandleCleanup
  BY <1>15 DEF HandleCleanup, ContinueWithVM, CachedVM, Phases
<1>16. CASE VerifyUnplug
  BY <1>16 DEF VerifyUnplug, Phases
<1>17. CASE CleanupUnmount
  <2>1. mounts' \subseteq Restores /\ faults' \in Nat
    BY <1>17 DEF CleanupUnmount, Unmounted, LookupFails
  <2>2. /\ ControlOK' /\ ((cur = None) <=> (pc = "idle"))' /\ cur' \in Restores \cup {None}
        /\ loc' \in VMFR /\ queue' \subseteq Restores
        /\ seen' \in VM /\ (IF pc \in {"plug", "unplug"} THEN seen.exists ELSE seen = NoVM)'
    BY <1>17 DEF CleanupUnmount, ContinueWithVM, CachedVM, Resume
  <2> QED
    BY <1>17, <2>1, <2>2 DEF CleanupUnmount
<1>18. CASE UnplugVolume
  BY <1>18, SpecUpdate, MergePatchType
     DEF UnplugVolume, PatchVM, Without, Resume, ResumeAfterError
<1>19. CASE DeleteDataVolume
  BY <1>19 DEF DeleteDataVolume, Resume, ResumeAfterError
<1>20. ASSUME NEW r \in Restores, UserCreate(r) PROVE TypeOK'
  BY <1>20, CreatedKey DEF UserCreate
<1>21. ASSUME NEW r \in Restores, UserDelete(r) PROVE TypeOK'
  BY <1>21, UpdateType DEF UserDelete
<1>22. CASE UserEditVM
  <2>1. ASSUME NEW u \in UserVolumes
        PROVE  Added(vm, {u}) \in VM /\ Dropped(vm, {u}) \in VM
    BY SpecUpdate
  <2>2. ASSUME NEW r \in Restores
        PROVE  [vm EXCEPT !.disks = @ \ {r}] \in VM
    BY DEF VM
  <2>3. vm' \in VM
    BY <1>22, <2>1, <2>2 DEF UserEditVM
  <2> QED
    BY <1>22, <2>3 DEF UserEditVM
<1>23. CASE StopVMI
  BY <1>23 DEF StopVMI, GuestGone, Stopped, VMI
<1>24. CASE DeleteVM
  BY <1>24 DEF DeleteVM, GuestGone, Stopped, VMI, VM
<1>25. CASE Crash
  BY <1>25 DEF Crash, Abandoned
<1>26. CASE StartVMI
  BY <1>26 DEF StartVMI, VMI
<1>27. ASSUME NEW r \in Restores, Attach(r) PROVE TypeOK'
  BY <1>27 DEF Attach, VMI
<1>28. ASSUME NEW r \in Restores, Detach(r) PROVE TypeOK'
  BY <1>28 DEF Detach, VMI
<1>29. ASSUME NEW r \in Restores, ProvisionDV(r) PROVE TypeOK'
  BY <1>29 DEF ProvisionDV
<1>30. CASE HelperMount
  BY <1>30 DEF HelperMount
<1>31. CASE HelperCopy
  BY <1>31 DEF HelperCopy, Unmounted
<1>32. ASSUME NEW r \in Restores, OrphanMount(r) PROVE TypeOK'
  BY <1>32 DEF OrphanMount
<1>33. ASSUME NEW r \in Restores, OrphanCopy(r) PROVE TypeOK'
  BY <1>33 DEF OrphanCopy, Unmounted
<1>40. ASSUME NEW r \in Restores, OrphanDies(r) PROVE TypeOK'
  BY <1>40 DEF OrphanDies
<1>34. ASSUME NEW r \in Restores, SyncVMFR(r) PROVE TypeOK'
  BY <1>34 DEF SyncVMFR
<1>35. ASSUME NEW r \in Restores, TimePasses(r) PROVE TypeOK'
  BY <1>35, UpdateType DEF TimePasses
<1>36. CASE SyncVM
  BY <1>36 DEF SyncVM
<1>37. CASE SyncVMI
  BY <1>37 DEF SyncVMI
<1>38. CASE UNCHANGED vars
  BY <1>38 DEF vars
<1> QED
  BY <1>1, <1>2, <1>3, <1>4, <1>5, <1>6, <1>7, <1>8, <1>9, <1>10, <1>11, <1>12,
     <1>13, <1>14, <1>15, <1>16, <1>17, <1>18, <1>19, <1>20, <1>21, <1>22,
     <1>23, <1>24, <1>25, <1>26, <1>27, <1>28, <1>29, <1>30, <1>31, <1>32,
     <1>33, <1>34, <1>35, <1>36, <1>37, <1>38, <1>39, <1>40
     DEF Next, Step, Disturbance, Environment

\* Type correctness: every variable of the reconciler stays in its type, and the
\* worker holds a restore object exactly while it reconciles.
THEOREM TypeCorrect == Spec => []TypeOK
<1>1. TypeOK /\ [Next]_vars => TypeOK'
  BY NextType
<1> QED
  BY InitType, <1>1, PTL DEF Spec

----------------------------------------------------------------------------
(***************************************************************************)
(* One restore per VM.  A step of the worker judges a copy of the VM that  *)
(* it has read before, through the cache, so the invariant has to hold of  *)
(* the cached copy and of the one in memory as well: a merge patch can put *)
(* its list of volumes back.                                               *)
(***************************************************************************)
AtMostOne(volumes) == \A r, s \in Restores : r \in volumes /\ s \in volumes => r = s

OneRestoreInv ==
    /\ AtMostOne(vm.volumes) /\ AtMostOne(cvm.volumes) /\ AtMostOne(seen.volumes)
    /\ pc = "plug" => ~OtherRestore(seen) /\ cur \notin seen.volumes \cup seen.disks

\* Only hotplug, unplug, the user and the deletion of the VM write the VM, and only
\* its watch and a restart of the operator write the cached copy.
LEMMA VMWriters ==
    ASSUME [Next]_vars
    PROVE  \/ HotplugVolume \/ UnplugVolume \/ UserEditVM \/ DeleteVM
           \/ SyncVM \/ Crash
           \/ UNCHANGED <<vm, cvm>>
<1> USE DEF api, caches, vars
<1>1. ASSUME NEW r \in Restores, Reconcile(r) PROVE UNCHANGED <<vm, cvm>>
  BY <1>1 DEF Reconcile
<1>2. ASSUME Step, ~HotplugVolume, ~UnplugVolume PROVE UNCHANGED <<vm, cvm>>
  BY <1>2 DEF Step, HandleDeletion, AddFinalizer, RemoveFinalizer, Settled,
     TransitionPhase, FailRestore, HandleInit, HandleHotplugging,
     HandleWaitingForAttachment, HandleSSHConnecting, HandleRestoring, RestoreDone,
     RestoreTimeout, HandleCleanup, VerifyUnplug, CleanupUnmount, DeleteDataVolume
<1>3. ASSUME Disturbance, ~UserEditVM, ~DeleteVM, ~Crash PROVE UNCHANGED <<vm, cvm>>
  BY <1>3 DEF Disturbance, UserCreate, UserDelete, StopVMI, GuestGone
<1>4. ASSUME Environment, ~SyncVM PROVE UNCHANGED <<vm, cvm>>
  BY <1>4 DEF Environment, StartVMI, Attach, Detach, ProvisionDV, HelperMount,
     HelperCopy, OrphanMount, OrphanCopy, OrphanDies, SyncVMFR, TimePasses, SyncVMI
<1> QED
  BY <1>1, <1>2, <1>3, <1>4 DEF Next

\* The worker has a VM in memory because it has just read it, or it has not moved since.
LEMMA VMReads ==
    ASSUME TypeOK, [Next]_vars, pc' \in {"plug", "unplug"}
    PROVE  \/ UNCHANGED <<pc, cur, seen, then>>
           \/ /\ seen' = CachedVM /\ CachedVM.exists /\ UNCHANGED <<vm, cvm, cur>>
              /\ pc' = "plug" => ~Refused(CachedVM) /\ cur \notin CachedVM.volumes
<1> USE DEF worker, api, caches
<1>1. ASSUME NEW r \in Restores, Reconcile(r) PROVE UNCHANGED <<pc, cur, seen, then>>
  BY <1>1 DEF Reconcile
<1>2. CASE HandleHotplugging
  BY <1>2 DEF HandleHotplugging, Continue, ContinueWithVM, Refused
<1>3. CASE HandleCleanup
  BY <1>3 DEF HandleCleanup, Continue, ContinueWithVM
<1>4. CASE CleanupUnmount
  BY <1>4 DEF CleanupUnmount, Resume, Return, Continue, ContinueWithVM
<1>5. ASSUME Step, ~HandleHotplugging, ~HandleCleanup, ~CleanupUnmount PROVE FALSE
  BY <1>5 DEF Step, HandleDeletion, AddFinalizer, RemoveFinalizer, Settled,
     TransitionPhase, FailRestore, HandleInit, HotplugVolume, HandleWaitingForAttachment,
     HandleSSHConnecting, HandleRestoring, RestoreDone, RestoreTimeout, VerifyUnplug,
     UnplugVolume, DeleteDataVolume, Resume, ResumeAfterError, PatchFails, Return, Continue
<1>6. ASSUME Disturbance PROVE UNCHANGED <<pc, cur, seen, then>>
  BY <1>6 DEF Disturbance, UserCreate, UserDelete, UserEditVM, StopVMI, DeleteVM, GuestGone,
     Crash
<1>7. ASSUME Environment PROVE UNCHANGED <<pc, cur, seen, then>>
  BY <1>7 DEF Environment, StartVMI, Attach, Detach, ProvisionDV, HelperMount,
     HelperCopy, OrphanMount, OrphanCopy, OrphanDies, SyncVMFR, TimePasses, SyncVM, SyncVMI
<1>8. CASE UNCHANGED vars
  BY <1>8 DEF vars
<1> QED
  BY <1>1, <1>2, <1>3, <1>4, <1>5, <1>6, <1>7, <1>8 DEF Next

\* What an edit of the user makes of the VM spec, as far as restores go.
Edits ==
    /\ UserEditVM /\ vm'.exists
    /\ \A r \in Restores : /\ r \in vm'.volumes <=> r \in vm.volumes
                           /\ r \in vm'.disks => r \in vm.disks

\* A user does not plug restore volumes.
LEMMA EditResult ==
    ASSUME TypeOK, UserEditVM
    PROVE  Edits
<1>1. vm \in VM /\ vm.exists
  BY DEF TypeOK, UserEditVM
<1>2. ASSUME NEW u \in UserVolumes
      PROVE  /\ Added(vm, {u}).volumes = vm.volumes \cup {u}
             /\ Added(vm, {u}).disks = vm.disks \cup {u}
             /\ Dropped(vm, {u}).volumes = vm.volumes \ {u}
             /\ Dropped(vm, {u}).disks = vm.disks \ {u}
             /\ Added(vm, {u}).exists /\ Dropped(vm, {u}).exists
  BY <1>1, SpecUpdate
<1>3. ASSUME NEW r
      PROVE  LET e == [vm EXCEPT !.disks = @ \ {r}]
             IN  e.exists /\ e.volumes = vm.volumes /\ e.disks = vm.disks \ {r}
  BY <1>1 DEF VM
<1>4. ASSUME NEW u \in UserVolumes, vm' = Added(vm, {u}) \/ vm' = Dropped(vm, {u})
      PROVE  Edits
  <2>1. \A r \in Restores : r # u
    BY ConstantsAssumption
  <2> QED BY <1>2, <1>4, <2>1, SMTT(30) DEF Edits
<1>5. ASSUME NEW r, vm' = [vm EXCEPT !.disks = @ \ {r}]
      PROVE  Edits
  BY <1>3, <1>5 DEF Edits
<1> QED
  BY <1>4, <1>5 DEF UserEditVM

\* A merge patch without the restore in work drops its entries where the base has them.
LEMMA MergeWithout ==
    ASSUME vm \in VM, seen \in VM, cur \in Restores, vm.exists
    PROVE  LET p == MergePatch(vm, seen, Without(seen))
           IN  /\ p.exists
               /\ p.volumes = IF cur \in seen.volumes THEN seen.volumes \ {cur}
                                                      ELSE vm.volumes
               /\ p.disks = IF cur \in seen.disks THEN seen.disks \ {cur} ELSE vm.disks
<1> DEFINE new == Without(seen)
<1>1. /\ new \in VM /\ new.volumes = seen.volumes \ {cur}
      /\ new.disks = seen.disks \ {cur}
  BY SpecUpdate DEF Without
<1> HIDE DEF new
<1>2. /\ MergePatch(vm, seen, new).exists
      /\ new.volumes = seen.volumes => MergePatch(vm, seen, new).volumes = vm.volumes
      /\ new.volumes # seen.volumes => MergePatch(vm, seen, new).volumes = new.volumes
      /\ new.disks = seen.disks => MergePatch(vm, seen, new).disks = vm.disks
      /\ new.disks # seen.disks => MergePatch(vm, seen, new).disks = new.disks
  <2>1. \A n \in VM :
          /\ MergePatch(vm, seen, n).exists = vm.exists
          /\ n.volumes = seen.volumes => MergePatch(vm, seen, n).volumes = vm.volumes
          /\ n.volumes # seen.volumes => MergePatch(vm, seen, n).volumes = n.volumes
          /\ n.disks = seen.disks => MergePatch(vm, seen, n).disks = vm.disks
          /\ n.disks # seen.disks => MergePatch(vm, seen, n).disks = n.disks
    BY DEF MergePatch, VM
  <2> QED BY <1>1, <2>1
<1>3. (new.volumes = seen.volumes) <=> (cur \notin seen.volumes)
  BY <1>1
<1>4. (new.disks = seen.disks) <=> (cur \notin seen.disks)
  BY <1>1
<1>5. /\ MergePatch(vm, seen, new).volumes =
             IF cur \in seen.volumes THEN seen.volumes \ {cur} ELSE vm.volumes
      /\ MergePatch(vm, seen, new).disks =
             IF cur \in seen.disks THEN seen.disks \ {cur} ELSE vm.disks
  BY <1>1, <1>2, <1>3, <1>4
<1> QED
  BY <1>2, <1>5 DEF new

\* What the two patches of the worker make of the lists of the VM, whatever it has read.
LEMMA PatchResult ==
    ASSUME TypeOK
    PROVE  /\ HotplugVolume =>
                 \/ vm' = vm
                 \/ /\ vm.exists /\ vm'.exists /\ cur \in Restores
                    /\ cur \notin seen.volumes => vm'.volumes = seen.volumes \cup {cur}
                    /\ cur \notin seen.disks => vm'.disks = seen.disks \cup {cur}
                    /\ pc' = "transition" /\ then' = "WaitingForAttachment" /\ cur' = cur
           /\ UnplugVolume =>
                 \/ vm' = vm
                 \/ /\ vm.exists /\ vm'.exists /\ cur \in Restores
                    /\ vm'.volumes = IF cur \in seen.volumes THEN seen.volumes \ {cur}
                                                             ELSE vm.volumes
                    /\ vm'.disks = IF cur \in seen.disks THEN seen.disks \ {cur}
                                                         ELSE vm.disks
<1>1. vm \in VM /\ seen \in VM
  BY DEF TypeOK
<1>2. ASSUME HotplugVolume
      PROVE  \/ vm' = vm
             \/ /\ vm.exists /\ vm'.exists /\ cur \in Restores
                /\ cur \notin seen.volumes => vm'.volumes = seen.volumes \cup {cur}
                /\ cur \notin seen.disks => vm'.disks = seen.disks \cup {cur}
                /\ pc' = "transition" /\ then' = "WaitingForAttachment" /\ cur' = cur
  <2>1. cur \in Restores
    BY <1>2 DEF HotplugVolume, TypeOK
  <2> DEFINE new == Added(seen, {cur})
  <2>2. /\ new \in VM /\ new.volumes = seen.volumes \cup {cur}
        /\ new.disks = seen.disks \cup {cur}
    BY <1>1, <2>1, SpecUpdate
  <2> HIDE DEF new
  <2>3. /\ MergePatch(vm, seen, new).exists = vm.exists
        /\ cur \notin seen.volumes =>
              MergePatch(vm, seen, new).volumes = seen.volumes \cup {cur}
        /\ cur \notin seen.disks =>
              MergePatch(vm, seen, new).disks = seen.disks \cup {cur}
    BY <1>1, <2>2, MergePatchType
  <2>4. \/ vm' = vm
        \/ /\ vm.exists /\ vm' = MergePatch(vm, seen, new)
           /\ pc' = "transition" /\ then' = "WaitingForAttachment" /\ cur' = cur
    BY <1>2 DEF HotplugVolume, PatchVM, Continue, new
  <2> QED
    BY <2>1, <2>3, <2>4
<1>3. ASSUME UnplugVolume
      PROVE  \/ vm' = vm
             \/ /\ vm.exists /\ vm'.exists /\ cur \in Restores
                /\ vm'.volumes = IF cur \in seen.volumes THEN seen.volumes \ {cur}
                                                         ELSE vm.volumes
                /\ vm'.disks = IF cur \in seen.disks THEN seen.disks \ {cur}
                                                     ELSE vm.disks
  <2>1. cur \in Restores
    BY <1>3 DEF UnplugVolume, TypeOK
  <2>2. vm' = vm \/ (vm.exists /\ vm' = MergePatch(vm, seen, Without(seen)))
    BY <1>3 DEF UnplugVolume, PatchVM
  <2> QED
    BY <1>1, <2>1, <2>2, MergeWithout
<1> QED
  BY <1>2, <1>3

\* Every step keeps all three lists of volumes within one restore.
LEMMA OneRestoreStep ==
    ASSUME TypeOK, TypeOK', OneRestoreInv, [Next]_vars
    PROVE  OneRestoreInv'
<1>1. AtMostOne(CachedVM.volumes)
  BY DEF CachedVM, OneRestoreInv
<1>2. AtMostOne(vm'.volumes) /\ AtMostOne(cvm'.volumes)
  <2>1. CASE HotplugVolume
    <3>1. cvm' = cvm /\ pc = "plug"
      BY <2>1 DEF HotplugVolume, caches
    <3> QED
      BY <2>1, <3>1, PatchResult DEF OtherRestore, OneRestoreInv, AtMostOne
  <2>2. CASE UnplugVolume
    <3>1. cvm' = cvm
      BY <2>2 DEF UnplugVolume, caches
    <3> QED
      BY <2>2, <3>1, PatchResult DEF OneRestoreInv, AtMostOne
  <2>3. CASE UserEditVM
    BY <2>3, EditResult DEF Edits, UserEditVM, caches, OneRestoreInv, AtMostOne
  <2>4. CASE DeleteVM
    BY <2>4, NoVMKey DEF DeleteVM, GuestGone, caches, OneRestoreInv, AtMostOne
  <2>5. CASE SyncVM \/ Crash
    BY <2>5 DEF SyncVM, Crash, api, OneRestoreInv
  <2>6. CASE UNCHANGED <<vm, cvm>>
    BY <2>6 DEF OneRestoreInv
  <2> QED
    BY <2>1, <2>2, <2>3, <2>4, <2>5, <2>6, VMWriters
<1>3. CASE pc' \in {"plug", "unplug"}
  <2>1. CASE UNCHANGED <<pc, cur, seen, then>>
    BY <1>2, <2>1 DEF OneRestoreInv, OtherRestore
  <2>2. CASE /\ seen' = CachedVM /\ cur' = cur
             /\ pc' = "plug" => ~Refused(CachedVM) /\ cur \notin CachedVM.volumes
    <3>1. pc' = "plug" => ~OtherRestore(seen)' /\ cur' \notin seen'.volumes \cup seen'.disks
      BY <2>2 DEF Refused, OtherRestore
    <3> QED BY <1>1, <1>2, <2>2, <3>1 DEF OneRestoreInv, OtherRestore
  <2> QED BY <1>3, <2>1, <2>2, VMReads
<1>4. CASE pc' \notin {"plug", "unplug"}
  BY <1>2, <1>4, NoVMKey DEF TypeOK, OneRestoreInv, AtMostOne
<1> QED
  BY <1>3, <1>4

\* OneRestoreInv holds at every moment.
LEMMA AlwaysOneRestore == Spec => []OneRestoreInv
<1>1. Init => OneRestoreInv
  BY ConstantsAssumption, NoVMKey DEF Init, OneRestoreInv, AtMostOne
<1>2. TypeOK /\ TypeOK' /\ OneRestoreInv /\ [Next]_vars => OneRestoreInv'
  BY OneRestoreStep
<1> QED
  BY <1>1, <1>2, TypeCorrect, PTL DEF Spec

\* At most one restore has its volume in the VM spec, for every number of
\* restores, however far every cache lags, and through every fault: the check of
\* HotplugVolume for other restores is enough, although it judges a VM that has been
\* read before the patch.
THEOREM OneRestore == Spec => []OneRestorePerVM
<1>1. OneRestoreInv => OneRestorePerVM
  BY DEF OneRestoreInv, AtMostOne, OneRestorePerVM
<1> QED
  BY <1>1, AlwaysOneRestore, PTL

----------------------------------------------------------------------------
(***************************************************************************)
(* What the worker knows of a VM that it has read current.  Users may edit *)
(* the VM between the read and the patch, but they do not plug restore     *)
(* volumes, and no other worker does.                                      *)
(***************************************************************************)
CurrentVM == "vm" \notin Lagging

DisksHaveVolumes(spec) == \A r \in Restores : r \in spec.disks => r \in spec.volumes

SeenInv ==
    /\ DisksHaveVolumes(vm) /\ DisksHaveVolumes(seen)
    /\ pc \in {"plug", "unplug"} /\ vm.exists =>
          \A r \in Restores : /\ r \in seen.volumes <=> r \in vm.volumes
                              /\ r \in vm.disks => r \in seen.disks

\* A patch then changes the entries of the restore in work, and of no other restore.
Plugs ==
    /\ HotplugVolume /\ cur \in Restores /\ vm'.exists
    /\ \A r \in Restores : /\ r \notin vm.volumes \cup vm.disks
                           /\ r \in vm'.volumes <=> r = cur
                           /\ r \in vm'.disks <=> r = cur
    /\ pc' = "transition" /\ then' = "WaitingForAttachment" /\ cur' = cur
Unplugs ==
    /\ UnplugVolume /\ cur \in Restores /\ vm'.exists
    /\ \A r \in Restores : /\ r \in vm'.volumes <=> r \in vm.volumes /\ r # cur
                           /\ r \in vm'.disks => r \in vm.disks /\ r # cur
Deletes == DeleteVM /\ vm'.volumes = {} /\ vm'.disks = {}

\* Every write of the VM spec is one of these.
LEMMA VMWrites ==
    ASSUME TypeOK, OneRestoreInv, SeenInv, [Next]_vars
    PROVE  vm' = vm \/ Plugs \/ Unplugs \/ Edits \/ Deletes
<1>1. CASE HotplugVolume
  <2>1. pc = "plug" /\ cur \in Restores
    BY <1>1 DEF HotplugVolume, TypeOK
  <2>2. /\ cur \notin seen.volumes \cup seen.disks
        /\ \A r \in Restores : r \notin seen.volumes \cup seen.disks
    BY <2>1 DEF OneRestoreInv, OtherRestore, SeenInv, DisksHaveVolumes
  <2>3. vm.exists => \A r \in Restores : r \notin vm.volumes \cup vm.disks
    BY <2>1, <2>2 DEF SeenInv
  <2> QED
    BY <1>1, <2>1, <2>2, <2>3, PatchResult DEF Plugs
<1>2. CASE UnplugVolume
  <2>1. pc = "unplug" /\ cur \in Restores
    BY <1>2 DEF UnplugVolume, TypeOK
  <2>2. ASSUME NEW r \in Restores, r # cur, cur \in seen.volumes
        PROVE  r \notin seen.volumes \cup seen.disks
    BY <2>1, <2>2 DEF OneRestoreInv, AtMostOne, SeenInv, DisksHaveVolumes
  <2>3. cur \in seen.disks => cur \in seen.volumes
    BY <2>1 DEF SeenInv, DisksHaveVolumes
  <2>4. vm.exists =>
           \A r \in Restores : /\ r \in seen.volumes <=> r \in vm.volumes
                               /\ r \in vm.disks => r \in seen.disks
    BY <2>1 DEF SeenInv
  <2> QED
    BY <1>2, <2>1, <2>2, <2>3, <2>4, PatchResult DEF Unplugs
<1>3. CASE UserEditVM
  BY <1>3, EditResult
<1>4. CASE DeleteVM
  BY <1>4, NoVMKey DEF DeleteVM, Deletes
<1>5. CASE SyncVM \/ Crash
  BY <1>5 DEF SyncVM, Crash, api
<1> QED
  BY <1>1, <1>2, <1>3, <1>4, <1>5, VMWriters

\* A patch that goes through takes the entries of the restore in work out of the VM spec.
LEMMA PatchedOut ==
    ASSUME TypeOK, OneRestoreInv, SeenInv, UnplugVolume, PatchVM(Without(seen))
    PROVE  Unplugs
<1>1. cur \in Restores /\ vm.exists /\ pc = "unplug"
  BY DEF UnplugVolume, TypeOK, PatchVM
<1>2. vm \in VM /\ seen \in VM
  BY DEF TypeOK
<1>3. /\ vm'.exists
      /\ vm'.volumes = IF cur \in seen.volumes THEN seen.volumes \ {cur} ELSE vm.volumes
      /\ vm'.disks = IF cur \in seen.disks THEN seen.disks \ {cur} ELSE vm.disks
  BY <1>1, <1>2, MergeWithout DEF PatchVM
<1>4. \A r \in Restores : r # cur /\ cur \in seen.volumes
                             => r \notin seen.volumes \cup seen.disks
  BY <1>1 DEF OneRestoreInv, AtMostOne, SeenInv, DisksHaveVolumes
<1>5. /\ cur \in seen.disks => cur \in seen.volumes
      /\ \A r \in Restores : /\ r \in seen.volumes <=> r \in vm.volumes
                             /\ r \in vm.disks => r \in seen.disks
  BY <1>1 DEF SeenInv, DisksHaveVolumes
<1> QED
  BY <1>1, <1>3, <1>4, <1>5 DEF Unplugs

\* And one of HotplugVolume puts them in.
LEMMA PatchedIn ==
    ASSUME TypeOK, OneRestoreInv, SeenInv, HotplugVolume, PatchVM(Added(seen, {cur}))
    PROVE  cur \in Restores /\ cur \in vm'.volumes
<1>1. cur \in Restores /\ vm \in VM /\ seen \in VM /\ pc = "plug"
  BY DEF HotplugVolume, TypeOK
<1>2. cur \notin seen.volumes
  BY <1>1 DEF OneRestoreInv
<1> DEFINE new == Added(seen, {cur})
<1>3. new \in VM /\ new.volumes = seen.volumes \cup {cur}
  BY <1>1, SpecUpdate
<1> HIDE DEF new
<1>4. \A n \in VM : n.volumes # seen.volumes => MergePatch(vm, seen, n).volumes = n.volumes
  BY <1>1 DEF MergePatch, VM
<1>5. MergePatch(vm, seen, new).volumes = seen.volumes \cup {cur}
  BY <1>2, <1>3, <1>4
<1> QED
  BY <1>1, <1>5 DEF PatchVM, new

\* Every step keeps what the worker knows.
LEMMA SeenStep ==
    ASSUME TypeOK, TypeOK', OneRestoreInv, SeenInv, CurrentVM, [Next]_vars
    PROVE  SeenInv'
<1>1. CachedVM = vm
  BY DEF CurrentVM, CachedVM
<1>2. DisksHaveVolumes(vm')
  BY VMWrites DEF SeenInv, DisksHaveVolumes, Plugs, Unplugs, Edits, Deletes
<1>3. CASE pc' \notin {"plug", "unplug"}
  BY <1>2, <1>3, NoVMKey DEF TypeOK, SeenInv, DisksHaveVolumes
<1>4. CASE pc' \in {"plug", "unplug"} /\ UNCHANGED <<pc, cur, seen, then>>
  <2>1. vm' = vm \/ Edits \/ ~vm'.exists
    <3>1. ~HotplugVolume
      BY <1>4 DEF HotplugVolume, Return, Continue
    <3>2. ~UnplugVolume
      BY <1>4 DEF UnplugVolume, Resume, ResumeAfterError, Return, Continue
    <3>3. DeleteVM => ~vm'.exists
      BY NoVMKey DEF DeleteVM
    <3> QED BY <3>1, <3>2, <3>3, VMWrites DEF Plugs, Unplugs, Deletes
  <2>2. CASE vm' = vm
    BY <1>2, <1>4, <2>2 DEF SeenInv, DisksHaveVolumes
  <2>3. CASE Edits
    BY <1>2, <1>4, <2>3 DEF SeenInv, DisksHaveVolumes, Edits, UserEditVM
  <2>4. CASE ~vm'.exists
    BY <1>2, <1>4, <2>4 DEF SeenInv, DisksHaveVolumes
  <2> QED BY <2>1, <2>2, <2>3, <2>4
<1>5. CASE seen' = vm /\ vm' = vm
  BY <1>2, <1>5 DEF SeenInv, DisksHaveVolumes
<1> QED
  BY <1>1, <1>3, <1>4, <1>5, VMReads

\* With current reads of the VM SeenInv holds at every moment.
LEMMA AlwaysSeen ==
    ASSUME CurrentVM
    PROVE  Spec => []SeenInv
<1>1. Init => SeenInv
  BY NoVMKey DEF Init, SeenInv, DisksHaveVolumes
<1>2. TypeOK /\ TypeOK' /\ OneRestoreInv /\ SeenInv /\ [Next]_vars => SeenInv'
  BY SeenStep
<1> QED
  BY <1>1, <1>2, AlwaysOneRestore, TypeCorrect, PTL DEF Spec
=============================================================================
