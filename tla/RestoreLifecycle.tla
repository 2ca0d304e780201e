-------------------------- MODULE RestoreLifecycle --------------------------
(***************************************************************************)
(* What the operator promises of the restores of one VM, without caches,   *)
(* work queue, retries or guest: the life of a restore, and a single slot  *)
(* of the VM that a restore takes with its volume.  A restore takes the    *)
(* slot only when it is free and only while it is active, is ready only    *)
(* while it holds the slot, succeeds and disappears only when it has given *)
(* the slot back, and never leaves a terminal state but by its deletion.   *)
(***************************************************************************)
CONSTANTS Restores, None    \* None is not a restore

VARIABLES
    life,   \* life[r]: where restore r is in its life
    slot    \* the restore whose volume is in the VM spec, or None

lifecycleVars == <<life, slot>>

Lives == {"absent", "new", "active", "ready", "succeeded", "failed"}

Init == life = [r \in Restores |-> "absent"] /\ slot = None

Become(r, from, to) == life[r] \in from /\ life' = [life EXCEPT ![r] = to]

Create(r) == Become(r, {"absent"}, "new") /\ UNCHANGED slot
Begin(r) == Become(r, {"new"}, "active") /\ UNCHANGED slot
Ready(r) == slot = r /\ Become(r, {"active"}, "ready") /\ UNCHANGED slot
Succeed(r) == slot # r /\ Become(r, {"active"}, "succeeded") /\ UNCHANGED slot
Fail(r) == Become(r, {"new", "active"}, "failed") /\ UNCHANGED slot
Remove(r) == slot # r /\ Become(r, Lives \ {"absent"}, "absent") /\ UNCHANGED slot
Plug(r) == slot = None /\ life[r] = "active" /\ slot' = r /\ UNCHANGED life
Unplug(r) == slot = r /\ slot' = None /\ UNCHANGED life

Next ==
    \E r \in Restores :
        \/ Create(r) \/ Begin(r) \/ Ready(r) \/ Succeed(r) \/ Fail(r) \/ Remove(r)
        \/ Plug(r) \/ Unplug(r)

Spec == Init /\ [][Next]_lifecycleVars
=============================================================================
