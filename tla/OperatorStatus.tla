--------------------------- MODULE OperatorStatus ---------------------------
(***************************************************************************)
(* The status of FileRestoreOperator objects                               *)
(* (internal/controller/filerestoreoperator_controller.go).                *)
(*                                                                         *)
(* The pod that leads computes the status from the copy in its cache and   *)
(* writes it with Update, which the API refuses when the copy is not the   *)
(* stored version.  Pods of two versions run during an upgrade, and a call *)
(* of a pod that has lost its lease may still be under way.                *)
(***************************************************************************)
EXTENDS Integers

CONSTANTS
    Objects,    \* names of FileRestoreOperator objects
    Pods,       \* operator pods
    VersionOf,  \* VersionOf[p]: OPERATOR_VERSION of pod p, or Unset
    Unset,
    None,       \* no pod, no version, no profile
    Profiles,   \* TLS security profiles a user may ask for
    MaxEvents   \* bound on changes by users, refused calls, lost leases and
                \* deaths of pods, together

ASSUME StatusAssumption ==
    /\ None \notin Pods \cup Objects
    /\ MaxEvents \in Nat

\* Mutant: a pod without OPERATOR_VERSION reports nothing.
VersionAsSet(p) == VersionOf[p]

\* A pod without OPERATOR_VERSION reports "devel".
OperatorVersion(p) == IF VersionOf[p] = Unset THEN "devel" ELSE VersionOf[p]

Versions == ({VersionOf[p] : p \in Pods} \ {Unset}) \cup {"devel", None}

\* rev is the resource version; it grows over deletions too.  version stands for
\* the three version fields, None for any other content; conditions is the
\* generation for which all four conditions are as the operator sets them, or 0.
FRO == [exists : BOOLEAN, rev : Nat, uid : Nat, generation : Nat,
        profile : Profiles \cup {None},
        observed : Nat, version : Versions, conditions : Nat]

\* No object, and an empty cache.
Absent == [exists |-> FALSE, rev |-> 0, uid |-> 0, generation |-> 0, profile |-> None,
           observed |-> 0, version |-> None, conditions |-> 0]

VARIABLES
    cr,         \* API: cr[o]
    lease,      \* API: the pod that holds the lease, or None
    pod,        \* pod[p]: "down", "starting", "standby" or "leading"
    cache,      \* cache[p][o]: the copy in the informer cache of pod p
    queue,      \* queue[p]: the work queue of pod p
    work,       \* work[p]: the copy of an object about to be written, or None
    events      \* number of such events so far

statusVars == <<cr, lease, pod, cache, queue, work, events>>

Event == events < MaxEvents /\ events' = events + 1

----------------------------------------------------------------------------
(***************************************************************************)
(* Users.                                                                  *)
(***************************************************************************)

UserChange(o, new) ==
    /\ Event
    /\ cr' = [cr EXCEPT ![o] = new]
    /\ UNCHANGED <<lease, pod, cache, queue, work>>

\* A new object has no status.
Created(c, profile) ==
    [exists |-> TRUE, rev |-> c.rev + 1, uid |-> c.uid + 1, generation |-> 1,
     profile |-> profile, observed |-> 0, version |-> None, conditions |-> 0]

UserCreate(o) ==
    /\ ~cr[o].exists
    /\ \E profile \in Profiles \cup {None} :
          UserChange(o, Created(cr[o], profile))

\* A change of the specification is a new generation.
Edited(c, profile) ==
    [c EXCEPT !.rev = @ + 1, !.generation = @ + 1, !.profile = profile]

UserEdit(o) ==
    /\ cr[o].exists
    /\ \E profile \in Profiles \cup {None} :
          UserChange(o, Edited(cr[o], profile))

\* Somebody else writes the status: a condition is not the operator's.
Drifted(c) == [c EXCEPT !.rev = @ + 1, !.conditions = 0]

StatusDrift(o) ==
    /\ cr[o].exists
    /\ UserChange(o, Drifted(cr[o]))

Deleted(c) == [c EXCEPT !.rev = @ + 1, !.exists = FALSE]

UserDelete(o) ==
    /\ cr[o].exists
    /\ UserChange(o, Deleted(cr[o]))

----------------------------------------------------------------------------
(***************************************************************************)
(* Pods, leader election and caches.                                       *)
(***************************************************************************)

Start(p) ==
    /\ pod[p] = "down"
    /\ pod' = [pod EXCEPT ![p] = "starting"]
    /\ UNCHANGED <<cr, lease, cache, queue, work, events>>

CacheSynced(p) ==
    /\ pod[p] = "starting"
    /\ pod' = [pod EXCEPT ![p] = "standby"]
    /\ cache' = [cache EXCEPT ![p] = cr]
    /\ UNCHANGED <<cr, lease, queue, work, events>>

\* The controllers start with the objects in the cache.
Lead(p) ==
    /\ pod[p] = "standby" /\ lease = None
    /\ lease' = p
    /\ pod' = [pod EXCEPT ![p] = "leading"]
    /\ queue' = [queue EXCEPT ![p] = {o \in Objects : cache[p][o].exists}]
    /\ UNCHANGED <<cr, cache, work, events>>

\* The lease expires; the pod does not know yet.
LoseLease(p) ==
    /\ lease = p
    /\ Event
    /\ lease' = None
    /\ UNCHANGED <<cr, pod, cache, queue, work>>

Down(p) ==
    /\ pod' = [pod EXCEPT ![p] = "down"]
    /\ cache' = [cache EXCEPT ![p] = [o \in Objects |-> Absent]]
    /\ queue' = [queue EXCEPT ![p] = {}]
    /\ work' = [work EXCEPT ![p] = None]
    /\ UNCHANGED cr

\* The manager of a pod that cannot renew its lease ends, and main with it.
Exit(p) ==
    /\ pod[p] = "leading" /\ lease # p
    /\ Down(p)
    /\ UNCHANGED <<lease, events>>

Crash(p) ==
    /\ pod[p] # "down"
    /\ Event
    /\ Down(p)
    /\ lease' = IF lease = p THEN None ELSE lease

\* A watch event queues the object where the controller runs.
Sync(p, o) ==
    /\ pod[p] \in {"standby", "leading"}
    /\ cache[p][o] # cr[o]
    /\ cache' = [cache EXCEPT ![p][o] = cr[o]]
    /\ queue' = IF pod[p] = "leading" THEN [queue EXCEPT ![p] = @ \cup {o}] ELSE queue
    /\ UNCHANGED <<cr, lease, pod, work, events>>

----------------------------------------------------------------------------
(***************************************************************************)
(* The controller.                                                         *)
(***************************************************************************)

\* fileRestoreOperatorStatusNeedsUpdate
NeedsUpdate(c, v) ==
    \/ c.observed # c.generation
    \/ c.version # v
    \/ c.conditions # c.generation

\* A leader gives up before its lease expires, so only a call that was under way
\* then is still made after it.
Reconcile(p, o) ==
    /\ pod[p] = "leading" /\ lease = p
    /\ work[p] = None
    /\ o \in queue[p]
    /\ queue' = [queue EXCEPT ![p] = @ \ {o}]
    /\ LET c == cache[p][o]
       IN \/ /\ ~c.exists \/ ~NeedsUpdate(c, OperatorVersion(p))
             /\ UNCHANGED work
          \/ /\ c.exists /\ NeedsUpdate(c, OperatorVersion(p))
             /\ work' = [work EXCEPT ![p] = [name |-> o, copy |-> c]]
    /\ UNCHANGED <<cr, lease, pod, cache, events>>

\* Mutant: the observed generation is forgotten.
ReportedUnobserved(p, c) ==
    [c EXCEPT !.rev = @ + 1, !.version = OperatorVersion(p), !.conditions = c.generation]

\* The status that is written: that of the copy's generation.
Reported(p, c) ==
    [c EXCEPT !.rev = @ + 1, !.observed = c.generation,
              !.version = OperatorVersion(p), !.conditions = c.generation]

\* Mutant: a patch of the status, which no newer version stops.
PatchStatus(p) ==
    /\ work[p] # None
    /\ LET o == work[p].name
       IN cr' = IF cr[o].exists
                THEN [cr EXCEPT ![o].rev = @ + 1, ![o].observed = work[p].copy.generation,
                                ![o].version = OperatorVersion(p),
                                ![o].conditions = work[p].copy.generation]
                ELSE cr
    /\ work' = [work EXCEPT ![p] = None]
    /\ UNCHANGED <<lease, pod, cache, queue, events>>

\* Mutant: an update that failed is not tried again.
UpdateOnce(p) ==
    /\ work[p] # None
    /\ LET o == work[p].name
       IN \/ /\ cr[o].exists /\ cr[o].rev = work[p].copy.rev
             /\ cr' = [cr EXCEPT ![o] = Reported(p, work[p].copy)]
             /\ UNCHANGED events
          \/ /\ \/ Event
                \/ (~cr[o].exists \/ cr[o].rev # work[p].copy.rev) /\ UNCHANGED events
             /\ UNCHANGED cr
    /\ work' = [work EXCEPT ![p] = None]
    /\ UNCHANGED <<lease, pod, cache, queue>>

\* Update is refused when the object has changed or is gone; the error leads to
\* another attempt with whatever the cache holds then.
UpdateStatus(p) ==
    /\ work[p] # None
    /\ LET o == work[p].name
           current == cr[o].exists /\ cr[o].rev = work[p].copy.rev
       IN \/ /\ current
             /\ cr' = [cr EXCEPT ![o] = Reported(p, work[p].copy)]
             /\ UNCHANGED <<queue, events>>
          \/ /\ (~current /\ UNCHANGED events) \/ Event
             /\ queue' = [queue EXCEPT ![p] = @ \cup {o}]
             /\ UNCHANGED cr
    /\ work' = [work EXCEPT ![p] = None]
    /\ UNCHANGED <<lease, pod, cache>>

----------------------------------------------------------------------------
StatusInit ==
    /\ cr \in [Objects -> {Absent} \cup {Created(Absent, profile) : profile \in Profiles}]
    /\ lease = None
    /\ pod = [p \in Pods |-> "down"]
    /\ cache = [p \in Pods |-> [o \in Objects |-> Absent]]
    /\ queue = [p \in Pods |-> {}]
    /\ work = [p \in Pods |-> None]
    /\ events = 0

User(o) == UserCreate(o) \/ UserEdit(o) \/ StatusDrift(o) \/ UserDelete(o)

Pod(p) == Start(p) \/ CacheSynced(p) \/ Lead(p) \/ LoseLease(p) \/ Exit(p) \/ Crash(p)

StatusNext ==
    \/ \E o \in Objects : User(o)
    \/ \E p \in Pods : Pod(p) \/ UpdateStatus(p)
    \/ \E p \in Pods, o \in Objects : Sync(p, o) \/ Reconcile(p, o)

StatusSpec == StatusInit /\ [][StatusNext]_statusVars

----------------------------------------------------------------------------
\* The type invariant.
StatusTypeOK ==
    /\ cr \in [Objects -> FRO]
    /\ lease \in Pods \cup {None}
    /\ pod \in [Pods -> {"down", "starting", "standby", "leading"}]
    /\ cache \in [Pods -> [Objects -> FRO]]
    /\ queue \in [Pods -> SUBSET Objects]
    /\ work \in [Pods -> [name : Objects, copy : FRO] \cup {None}]
    /\ events \in 0..MaxEvents

\* What the status says of an object is true of it: the generation that was
\* observed is one it had, and conditions are never those of a later generation,
\* whatever the age of the copy they were computed from (Reconcile, which writes
\* the status of its cached copy).
ReportsAreReal ==
    \A o \in Objects :
        cr[o].exists => /\ cr[o].observed <= cr[o].generation
                        /\ cr[o].conditions <= cr[o].observed

\* No writer, not one with an old copy or without the lease, takes the observed
\* generation of an object back (Status().Update).
ObservedNeverGoesBack ==
    [][\A o \in Objects :
          cr[o].exists /\ cr'[o].exists /\ cr'[o].uid = cr[o].uid
              => cr'[o].observed >= cr[o].observed]_statusVars

\* Once users and pods leave it alone, the status of every object becomes that of
\* its last generation and of the version of the leading pod, and stays so: no
\* update is lost to a conflict, and the events of the updates do not keep the
\* controller writing.
StatusSettles ==
    <>[](/\ lease # None
         /\ \A o \in Objects :
               cr[o].exists => /\ cr[o].observed = cr[o].generation
                               /\ cr[o].conditions = cr[o].generation
                               /\ cr[o].version = OperatorVersion(lease))
=============================================================================
