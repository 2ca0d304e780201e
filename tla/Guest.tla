------------------------------- MODULE Guest -------------------------------
(***************************************************************************)
(* The helper script inside the guest (filerestore.sh), at the level the   *)
(* controller depends on: "restore" finds the device by its serial, mounts *)
(* it, in automatic mode copies the files and unmounts; "cleanup" unmounts *)
(* whatever is mounted at a path.  The helper is a process of the guest:   *)
(* it outlives the SSH session that started it.                            *)
(***************************************************************************)
EXTENDS Cluster

\* Mutant: the path is ignored, any restore volume may be unmounted.
UnmountedAnywhere(path) == {mounts \ {m} : m \in Restores}

\* What the mount table can be after "umount" of a path: the command names the
\* path, not the volume.
Unmounted(path) ==
    LET here == {m \in mounts : PathOf[m] = path}
    IN  IF here = {} THEN {mounts} ELSE {mounts \ {m} : m \in here}

\* lsblk finds the serial, and the volume is not mounted at its path already
\* (mounting it a second time is refused by the kernel).
CanMount(r) == vmi.status[r] # "absent" /\ r \notin mounts

----------------------------------------------------------------------------
\* The helper that the controller waits for looks for its device and mounts it.  One
\* that fails after it has mounted a logical volume may leave it mounted (mkdir).
HelperMount ==
    /\ helper = "started"
    /\ \/ /\ CanMount(cur)
          /\ mounts' = mounts \cup {cur}
          /\ helper' = IF cur \in Automatic THEN "mounted" ELSE "ok"
          /\ UNCHANGED faults
       \/ /\ \/ ~CanMount(cur) /\ UNCHANGED <<mounts, faults>>
             \/ /\ Fault("copy")
                /\ \/ UNCHANGED mounts
                   \/ CanMount(cur) /\ mounts' = mounts \cup {cur}
          /\ helper' = "failed"
    /\ UNCHANGED <<api, caches, orphans, copied, queue, worker, creates>>

\* Automatic mode: rsync, then unmount on success and on failure alike.  An
\* unmount that fails is only logged.
HelperCopy ==
    /\ helper = "mounted"
    /\ \/ /\ vmi.status[cur] # "absent"
          /\ copied' = copied \cup {cur}
          /\ helper' = "ok"
          /\ \/ mounts' \in Unmounted(PathOf[cur]) /\ UNCHANGED faults
             \/ Fault("umount") /\ UNCHANGED mounts
       \/ /\ \/ vmi.status[cur] = "absent" /\ UNCHANGED faults
             \/ Fault("copy")
          /\ helper' = "failed"
          /\ mounts' \in Unmounted(PathOf[cur])
          /\ UNCHANGED copied
    /\ UNCHANGED <<api, caches, orphans, queue, worker, creates>>

\* A helper whose session is gone goes through the same steps.
OrphanMount(r) ==
    /\ <<r, "started">> \in orphans
    /\ \/ /\ CanMount(r)
          /\ mounts' = mounts \cup {r}
          /\ orphans' = (orphans \ {<<r, "started">>}) \cup
                            (IF r \in Automatic THEN {<<r, "mounted">>} ELSE {})
       \/ /\ ~CanMount(r)
          /\ orphans' = orphans \ {<<r, "started">>}
          /\ UNCHANGED mounts
    /\ UNCHANGED <<api, caches, copied, helper, queue, worker, faults, creates>>

OrphanCopy(r) ==
    /\ <<r, "mounted">> \in orphans
    /\ orphans' = orphans \ {<<r, "mounted">>}
    /\ copied' \in {copied, copied \cup {r}}
    /\ mounts' \in Unmounted(PathOf[r])
    /\ UNCHANGED <<api, caches, helper, queue, worker, faults, creates>>

\* Its output has nowhere to go: it may end at any of them, and what it has mounted
\* stays mounted.
OrphanDies(r) ==
    /\ \E state \in {"started", "mounted"} :
          /\ <<r, state>> \in orphans
          /\ orphans' = orphans \ {<<r, state>>}
    /\ UNCHANGED <<api, caches, mounts, copied, helper, queue, worker, faults, creates>>

\* The session of the running helper is lost; the process is left.
Abandoned ==
    orphans \cup (IF helper \in {"started", "mounted"} THEN {<<cur, helper>>} ELSE {})
=============================================================================
