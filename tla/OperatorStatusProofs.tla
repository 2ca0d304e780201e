------------------------ MODULE OperatorStatusProofs ------------------------
(***************************************************************************)
(* No writer takes the status of a FileRestoreOperator back, and no pod    *)
(* its TLS policy, for any number of objects, pods and events.             *)
(*                                                                         *)
(* Both rest on an order of the versions of an object: a cached copy, and  *)
(* one about to be written, is a version before the stored one.            *)
(***************************************************************************)
EXTENDS TLSWatcher, TLAPS

\* c is a version of the object d, or of a predecessor of the same name.
Older(c, d) ==
    /\ c.rev <= d.rev
    /\ c.rev = d.rev => c = d
    /\ c.uid <= d.uid
    /\ c.uid = d.uid => /\ c.generation <= d.generation
                        /\ c.observed <= d.observed
                        /\ d.exists => c.exists

\* A later version of a later version is a later version (resource versions of
\* FileRestoreOperator).
LEMMA OlderTransitive ==
    ASSUME NEW c \in FRO, NEW d \in FRO, NEW e \in FRO, Older(c, d), Older(d, e)
    PROVE  Older(c, e)
BY DEF Older, FRO

\* A version is not later than itself.
LEMMA OlderReflexive == ASSUME NEW c \in FRO PROVE Older(c, c)
BY DEF Older, FRO

\* The records of the model are FileRestoreOperator objects.
LEMMA AbsentType == Absent \in FRO
BY DEF Absent, FRO, Versions

\* A created object is one.
LEMMA CreatedType ==
    ASSUME NEW c \in FRO, NEW profile \in Profiles \cup {None}
    PROVE  Created(c, profile) \in FRO
BY DEF Created, FRO, Versions

\* An edited object is one.
LEMMA EditedType ==
    ASSUME NEW c \in FRO, NEW profile \in Profiles \cup {None}
    PROVE  Edited(c, profile) \in FRO
<1> DEFINE d == [c EXCEPT !.rev = @ + 1]
           e == [d EXCEPT !.generation = @ + 1]
<1>1. Edited(c, profile) = [e EXCEPT !.profile = profile]
  BY DEF Edited, FRO
<1>2. d \in FRO
  BY DEF FRO
<1> HIDE DEF d
<1>3. e \in FRO
  BY <1>2 DEF FRO
<1> HIDE DEF e
<1> QED
  BY <1>1, <1>3 DEF FRO

\* An object whose conditions somebody has changed is one.
LEMMA DriftedType == ASSUME NEW c \in FRO PROVE Drifted(c) \in FRO
<1> DEFINE d == [c EXCEPT !.rev = @ + 1]
<1>1. Drifted(c) = [d EXCEPT !.conditions = 0]
  BY DEF Drifted
<1>2. d \in FRO
  BY DEF FRO
<1> HIDE DEF d
<1> QED
  BY <1>1, <1>2 DEF FRO

\* What is left of a deleted object is one.
LEMMA DeletedType == ASSUME NEW c \in FRO PROVE Deleted(c) \in FRO
<1> DEFINE d == [c EXCEPT !.rev = @ + 1]
<1>1. Deleted(c) = [d EXCEPT !.exists = FALSE]
  BY DEF Deleted
<1>2. d \in FRO
  BY DEF FRO
<1> HIDE DEF d
<1> QED
  BY <1>1, <1>2 DEF FRO

\* An object with the status that the controller writes is one.
LEMMA ReportedType ==
    ASSUME NEW c \in FRO, NEW p \in Pods PROVE Reported(p, c) \in FRO
<1> DEFINE d == [c EXCEPT !.rev = @ + 1]
           e == [d EXCEPT !.observed = c.generation]
           f == [e EXCEPT !.version = OperatorVersion(p)]
<1>1. OperatorVersion(p) \in Versions
  BY DEF OperatorVersion, Versions
<1>2. Reported(p, c) = [f EXCEPT !.conditions = c.generation]
  BY DEF Reported
<1>3. d \in FRO
  BY DEF FRO
<1> HIDE DEF d
<1>4. e \in FRO
  BY <1>3 DEF FRO
<1> HIDE DEF e
<1>5. f \in FRO
  BY <1>1, <1>4 DEF FRO
<1> HIDE DEF f
<1> QED
  BY <1>2, <1>5 DEF FRO

----------------------------------------------------------------------------
\* The shape of every state of the status controller.
LEMMA StatusTypeInit == ASSUME StatusInit PROVE StatusTypeOK
<1>1. cr \in [Objects -> FRO]
  BY AbsentType, CreatedType DEF StatusInit
<1> QED
  BY <1>1, AbsentType, StatusAssumption DEF StatusInit, StatusTypeOK

\* Every step keeps the shape.
LEMMA StatusTypeStep ==
    ASSUME StatusTypeOK, [StatusNext]_statusVars PROVE StatusTypeOK'
<1> USE StatusAssumption DEF StatusTypeOK
<1>0. ASSUME NEW o \in Objects, NEW new \in FRO, UserChange(o, new) PROVE StatusTypeOK'
  BY <1>0 DEF UserChange, Event
<1>1. ASSUME NEW o \in Objects, User(o) PROVE StatusTypeOK'
  <2>1. CASE UserCreate(o)
    BY <2>1, <1>0, CreatedType DEF UserCreate
  <2>2. CASE UserEdit(o)
    BY <2>2, <1>0, EditedType DEF UserEdit
  <2>3. CASE StatusDrift(o)
    BY <2>3, <1>0, DriftedType DEF StatusDrift
  <2>4. CASE UserDelete(o)
    BY <2>4, <1>0, DeletedType DEF UserDelete
  <2> QED
    BY <1>1, <2>1, <2>2, <2>3, <2>4 DEF User
<1>2. ASSUME NEW p \in Pods, Pod(p) PROVE StatusTypeOK'
  <2>1. CASE Start(p) \/ LoseLease(p)
    BY <2>1 DEF Start, LoseLease, Event
  <2>2. CASE CacheSynced(p)
    BY <2>2 DEF CacheSynced
  <2>3. CASE Lead(p)
    BY <2>3 DEF Lead
  <2>4. CASE Exit(p)
    BY <2>4, AbsentType DEF Exit, Down
  <2>5. CASE Crash(p)
    BY <2>5, AbsentType DEF Crash, Down, Event
  <2> QED
    BY <1>2, <2>1, <2>2, <2>3, <2>4, <2>5 DEF Pod
<1>3. ASSUME NEW p \in Pods, UpdateStatus(p) PROVE StatusTypeOK'
  <2>1. work[p].name \in Objects /\ work[p].copy \in FRO
    BY <1>3 DEF UpdateStatus
  <2>2. Reported(p, work[p].copy) \in FRO
    BY <2>1, ReportedType
  <2>3. cr' \in [Objects -> FRO]
    BY <1>3, <2>1, <2>2 DEF UpdateStatus
  <2>4. queue' \in [Pods -> SUBSET Objects]
    BY <1>3, <2>1 DEF UpdateStatus
  <2>5. work' \in [Pods -> [name : Objects, copy : FRO] \cup {None}]
    BY <1>3 DEF UpdateStatus
  <2>6. events' \in 0..MaxEvents
    BY <1>3 DEF UpdateStatus, Event
  <2> QED
    BY <1>3, <2>3, <2>4, <2>5, <2>6 DEF UpdateStatus
<1>4. ASSUME NEW p \in Pods, NEW o \in Objects, Sync(p, o) PROVE StatusTypeOK'
  BY <1>4 DEF Sync
<1>5. ASSUME NEW p \in Pods, NEW o \in Objects, Reconcile(p, o) PROVE StatusTypeOK'
  BY <1>5 DEF Reconcile
<1>6. CASE UNCHANGED statusVars
  BY <1>6 DEF statusVars
<1> QED
  BY <1>1, <1>2, <1>3, <1>4, <1>5, <1>6 DEF StatusNext

----------------------------------------------------------------------------
\* A stored object is what the API and the controller make of it.
ObjectsAreReal ==
    \A o \in Objects :
        /\ cr[o].rev = 0 \/ cr[o].uid = 0 => cr[o] = Absent
        /\ cr[o].observed <= cr[o].generation
        /\ cr[o].conditions <= cr[o].observed

\* Cached copies, and those about to be written, are versions before the stored one.
CopiesAreOlder ==
    /\ \A p \in Pods, o \in Objects : Older(cache[p][o], cr[o])
    /\ \A p \in Pods : work[p] # None => Older(work[p].copy, cr[work[p].name])

VersionInv == StatusTypeOK /\ ObjectsAreReal /\ CopiesAreOlder

\* What a step may make of a stored object.
Advances == \A o \in Objects : Older(cr[o], cr'[o])

\* An empty cache is older than anything stored.
LEMMA EmptyIsOlder ==
    ASSUME StatusTypeOK, ObjectsAreReal, NEW o \in Objects
    PROVE  Older(Absent, cr[o])
BY DEF StatusTypeOK, ObjectsAreReal, Older, Absent, FRO

\* Users make later versions.
LEMMA UsersAdvance ==
    ASSUME VersionInv, NEW o \in Objects, User(o)
    PROVE  Advances /\ ObjectsAreReal'
<1> USE DEF VersionInv, StatusTypeOK
<1>1. \A x \in Objects : cr[x] \in FRO
  OBVIOUS
<1>0. ASSUME NEW new \in FRO, UserChange(o, new), Older(cr[o], new),
             new.rev # 0, new.uid # 0,
             new.observed <= new.generation, new.conditions <= new.observed
      PROVE  Advances /\ ObjectsAreReal'
  <2>1. \A x \in Objects : cr'[x] = IF x = o THEN new ELSE cr[x]
    BY <1>0 DEF UserChange
  <2> QED
    BY <1>0, <2>1, <1>1, OlderReflexive DEF Advances, ObjectsAreReal
<1>2. CASE UserCreate(o)
  <2>1. PICK profile \in Profiles \cup {None} : UserChange(o, Created(cr[o], profile))
    BY <1>2 DEF UserCreate
  <2>2. Older(cr[o], Created(cr[o], profile))
    BY <1>1 DEF Created, Older, FRO
  <2>3. Created(cr[o], profile) \in FRO
    BY <1>1, CreatedType
  <2>4. /\ Created(cr[o], profile).rev # 0 /\ Created(cr[o], profile).uid # 0
        /\ Created(cr[o], profile).observed <= Created(cr[o], profile).generation
        /\ Created(cr[o], profile).conditions <= Created(cr[o], profile).observed
    BY <1>1 DEF Created, FRO
  <2> QED
    BY <1>0, <2>1, <2>2, <2>3, <2>4
<1>3. CASE UserEdit(o)
  <2>1. PICK profile \in Profiles \cup {None} : UserChange(o, Edited(cr[o], profile))
    BY <1>3 DEF UserEdit
  <2>2. Edited(cr[o], profile) \in FRO
    BY <1>1, EditedType
  <2>3. Older(cr[o], Edited(cr[o], profile))
    BY <1>1 DEF Edited, Older, FRO
  <2>4. cr[o].rev # 0 /\ cr[o].uid # 0
    BY <1>3 DEF UserEdit, ObjectsAreReal, Absent
  <2>5. /\ Edited(cr[o], profile).rev # 0 /\ Edited(cr[o], profile).uid # 0
        /\ Edited(cr[o], profile).observed <= Edited(cr[o], profile).generation
        /\ Edited(cr[o], profile).conditions <= Edited(cr[o], profile).observed
    BY <1>1, <2>4 DEF Edited, ObjectsAreReal, FRO
  <2> QED
    BY <1>0, <2>1, <2>2, <2>3, <2>5
<1>4. CASE StatusDrift(o)
  <2>1. UserChange(o, Drifted(cr[o]))
    BY <1>4 DEF StatusDrift
  <2>2. Drifted(cr[o]) \in FRO
    BY <1>1, DriftedType
  <2>3. Older(cr[o], Drifted(cr[o]))
    BY <1>1 DEF Drifted, Older, FRO
  <2>4. cr[o].rev # 0 /\ cr[o].uid # 0
    BY <1>4 DEF StatusDrift, ObjectsAreReal, Absent
  <2>5. /\ Drifted(cr[o]).rev # 0 /\ Drifted(cr[o]).uid # 0
        /\ Drifted(cr[o]).observed <= Drifted(cr[o]).generation
        /\ Drifted(cr[o]).conditions <= Drifted(cr[o]).observed
    BY <1>1, <2>4 DEF Drifted, ObjectsAreReal, FRO
  <2> QED
    BY <1>0, <2>1, <2>2, <2>3, <2>5
<1>5. CASE UserDelete(o)
  <2>1. UserChange(o, Deleted(cr[o]))
    BY <1>5 DEF UserDelete
  <2>2. Deleted(cr[o]) \in FRO
    BY <1>1, DeletedType
  <2>3. Older(cr[o], Deleted(cr[o]))
    BY <1>1 DEF Deleted, Older, FRO
  <2>4. cr[o].rev # 0 /\ cr[o].uid # 0
    BY <1>5 DEF UserDelete, ObjectsAreReal, Absent
  <2>5. /\ Deleted(cr[o]).rev # 0 /\ Deleted(cr[o]).uid # 0
        /\ Deleted(cr[o]).observed <= Deleted(cr[o]).generation
        /\ Deleted(cr[o]).conditions <= Deleted(cr[o]).observed
    BY <1>1, <2>4 DEF Deleted, ObjectsAreReal, FRO
  <2> QED
    BY <1>0, <2>1, <2>2, <2>3, <2>5
<1> QED
  BY <1>2, <1>3, <1>4, <1>5 DEF User

\* The controller writes the next version of the stored object, or nothing: an
\* update that is accepted was computed from the stored version.
LEMMA UpdateAdvances ==
    ASSUME VersionInv, NEW p \in Pods, UpdateStatus(p)
    PROVE  Advances /\ ObjectsAreReal'
<1> USE DEF VersionInv, StatusTypeOK
<1>1. \A x \in Objects : cr[x] \in FRO
  OBVIOUS
<1>2. CASE UNCHANGED cr
  BY <1>2, <1>1, OlderReflexive DEF Advances, ObjectsAreReal
<1>3. CASE ~UNCHANGED cr
  <2> DEFINE o == work[p].name
             New == Reported(p, cr[o])
  <2>1. /\ o \in Objects /\ work[p].copy \in FRO
        /\ cr[o].exists /\ cr[o].rev = work[p].copy.rev
        /\ cr' = [cr EXCEPT ![o] = Reported(p, work[p].copy)]
    BY <1>3 DEF UpdateStatus
  <2>2. work[p].copy = cr[o]
    BY <2>1 DEF CopiesAreOlder, Older, UpdateStatus
  <2>3. \A x \in Objects : cr'[x] = IF x = o THEN New ELSE cr[x]
    BY <2>1, <2>2
  <2>4. Older(cr[o], New)
    BY <1>1, <2>1 DEF Reported, Older, FRO, ObjectsAreReal
  <2>5. /\ New.rev # 0 /\ New.uid # 0
        /\ New.observed <= New.generation /\ New.conditions <= New.observed
    BY <1>1, <2>1 DEF Reported, ObjectsAreReal, FRO, Absent
  <2> HIDE DEF New
  <2> QED
    BY <1>1, <2>3, <2>4, <2>5, OlderReflexive DEF Advances, ObjectsAreReal
<1> QED
  BY <1>2, <1>3

\* Every step makes later versions of the stored objects.
LEMMA StepAdvances ==
    ASSUME VersionInv, [StatusNext]_statusVars
    PROVE  Advances /\ ObjectsAreReal'
<1>1. CASE UNCHANGED cr
  BY <1>1, OlderReflexive DEF Advances, VersionInv, StatusTypeOK, ObjectsAreReal
<1>2. CASE \E o \in Objects : User(o)
  BY <1>2, UsersAdvance
<1>3. CASE \E p \in Pods : UpdateStatus(p)
  BY <1>3, UpdateAdvances
<1>4. CASE \E p \in Pods : Pod(p)
  BY <1>4, <1>1 DEF Pod, Start, CacheSynced, Lead, LoseLease, Exit, Crash, Down
<1>5. CASE \E p \in Pods, o \in Objects : Sync(p, o) \/ Reconcile(p, o)
  BY <1>5, <1>1 DEF Sync, Reconcile
<1>6. CASE UNCHANGED statusVars
  BY <1>6, <1>1 DEF statusVars
<1> QED
  BY <1>2, <1>3, <1>4, <1>5, <1>6 DEF StatusNext

----------------------------------------------------------------------------
\* Copies stay older: they are taken from the store, emptied or left alone.
LEMMA CopiesStayOlder ==
    ASSUME VersionInv, StatusTypeOK', [StatusNext]_statusVars
    PROVE  CopiesAreOlder'
<1> USE DEF VersionInv, StatusTypeOK
<1>1. Advances /\ ObjectsAreReal'
  BY StepAdvances
<1>2. ASSUME NEW p \in Pods, NEW o \in Objects PROVE Older(cache'[p][o], cr'[o])
  <2>1. CASE cache'[p][o] = cache[p][o]
    BY <2>1, <1>1, OlderTransitive DEF CopiesAreOlder, Advances
  <2>2. CASE cache'[p][o] = cr[o]
    BY <2>2, <1>1 DEF Advances
  <2>3. CASE cache'[p][o] = Absent
    BY <2>3, <1>1, EmptyIsOlder, AbsentType, OlderTransitive DEF Advances
  <2>4. CASE \E q \in Pods : Pod(q)
    BY <2>1, <2>2, <2>3, <2>4
       DEF Pod, Start, CacheSynced, Lead, LoseLease, Exit, Crash, Down
  <2>5. CASE UNCHANGED cache
    BY <2>1, <2>5
  <2>6. CASE \E q \in Pods, x \in Objects : Sync(q, x)
    BY <2>1, <2>2, <2>6 DEF Sync
  <2> QED
    BY <2>4, <2>5, <2>6
       DEF StatusNext, User, UserCreate, UserEdit, StatusDrift, UserDelete, UserChange,
           UpdateStatus, Reconcile, statusVars
<1>3. ASSUME NEW p \in Pods, work'[p] # None
      PROVE  Older(work'[p].copy, cr'[work'[p].name])
  <2>1. CASE work'[p] = work[p]
    BY <2>1, <1>1, <1>3, OlderTransitive DEF CopiesAreOlder, Advances
  <2>2. CASE \E o \in Objects : Reconcile(p, o)
    <3>1. PICK o \in Objects : Reconcile(p, o)
      BY <2>2
    <3>2. CASE work'[p] # work[p]
      <4>1. work'[p].copy = cache[p][o] /\ work'[p].name = o /\ UNCHANGED <<cr, cache>>
        BY <3>1, <3>2 DEF Reconcile
      <4> QED
        BY <4>1, <1>2
    <3> QED
      BY <3>2, <2>1
  <2>3. CASE work'[p] # work[p] /\ ~\E o \in Objects : Reconcile(p, o)
    BY <2>3, <1>3
       DEF StatusNext, User, UserCreate, UserEdit, StatusDrift, UserDelete, UserChange,
           Pod, Start, CacheSynced, Lead, LoseLease, Exit, Crash, Down,
           UpdateStatus, Sync, Reconcile, statusVars
  <2> QED
    BY <2>1, <2>2, <2>3
<1> QED
  BY <1>2, <1>3 DEF CopiesAreOlder

\* Every copy of an object that a pod holds is a version before the stored one
\* (the informer cache, and the copy Reconcile is about to write).
LEMMA VersionsInvariant == StatusSpec => []VersionInv
<1>1. StatusInit => VersionInv
  <2> SUFFICES ASSUME StatusInit, StatusTypeOK PROVE VersionInv
    BY StatusTypeInit
  <2>1. ObjectsAreReal
    BY DEF StatusInit, ObjectsAreReal, Absent, Created
  <2>2. CopiesAreOlder
    BY <2>1, EmptyIsOlder DEF StatusInit, CopiesAreOlder
  <2> QED
    BY <2>1, <2>2 DEF VersionInv
<1>2. VersionInv /\ [StatusNext]_statusVars => VersionInv'
  BY StatusTypeStep, StepAdvances, CopiesStayOlder DEF VersionInv
<1> QED
  BY <1>1, <1>2, PTL DEF StatusSpec

----------------------------------------------------------------------------
\* The composed system is the status controller with a watcher beside it
\* (cmd/main.go, which adds both to one manager).
LEMMA Composed == Spec => StatusSpec
<1>1. Init => StatusInit
  BY DEF Init
<1>2. [Next]_vars => [StatusNext]_statusVars
  BY DEF Next, vars, WatcherReady, Handshake
<1> QED
  BY <1>1, <1>2, PTL DEF Spec, StatusSpec

\* Every state has the shape StatusTypeOK gives it; a pod without OPERATOR_VERSION
\* still reports a version (operatorVersion).
THEOREM StatusTypeCorrect == Spec => []StatusTypeOK
<1>1. VersionInv => StatusTypeOK
  BY DEF VersionInv
<1> QED
  BY <1>1, Composed, VersionsInvariant, PTL

\* The status never claims a generation that the object did not have, however old
\* the copy it was computed from (Reconcile of FileRestoreOperatorReconciler).
THEOREM RealReports == Spec => []ReportsAreReal
<1>1. VersionInv => ReportsAreReal
  BY DEF VersionInv, ObjectsAreReal, ReportsAreReal
<1> QED
  BY <1>1, Composed, VersionsInvariant, PTL

\* No writer takes the observed generation back, not even a pod that has lost its
\* lease (Status().Update with the resource version of the copy).
THEOREM ObservedAdvances == Spec => ObservedNeverGoesBack
<1>1. ASSUME VersionInv, [StatusNext]_statusVars
      PROVE  [\A o \in Objects :
                cr[o].exists /\ cr'[o].exists /\ cr'[o].uid = cr[o].uid
                    => cr'[o].observed >= cr[o].observed]_statusVars
  <2>1. Advances
    BY <1>1, StepAdvances
  <2>2. StatusTypeOK /\ StatusTypeOK'
    BY <1>1, StatusTypeStep DEF VersionInv
  <2> SUFFICES ASSUME NEW o \in Objects, cr'[o].uid = cr[o].uid
               PROVE  cr'[o].observed >= cr[o].observed
    OBVIOUS
  <2>3. cr[o].observed \in Nat /\ cr'[o].observed \in Nat
    BY <2>2 DEF StatusTypeOK, FRO
  <2> QED
    BY <2>1, <2>3 DEF Advances, Older
<1> QED
  BY <1>1, Composed, VersionsInvariant, PTL DEF StatusSpec, ObservedNeverGoesBack

----------------------------------------------------------------------------
\* Only the watcher of a pod whose cache has synced is ready.
ReadyIsRunning ==
    /\ ready \in [Pods -> BOOLEAN]
    /\ \A p \in Pods : ready[p] => pod[p] \in {"standby", "leading"}

\* What a pod has served is a version its cache has had: the cache of a running pod
\* holds this version or a later one.
ServedInv ==
    /\ client \in Pods \cup {None}
    /\ client # None /\ served.from # None =>
          LET held == cache[client][served.from]
          IN /\ served.from \in Objects /\ served.uid \in Nat /\ served.generation \in Nat
             /\ ready[client]
             /\ served.uid <= held.uid
             /\ served.uid = held.uid => served.generation <= held.generation

\* The cache of a pod that runs only moves to later versions.
LEMMA CacheAdvances ==
    ASSUME VersionInv, [StatusNext]_statusVars, NEW p \in Pods, NEW o \in Objects,
           pod[p] \in {"standby", "leading"}, pod'[p] # "down"
    PROVE  pod'[p] \in {"standby", "leading"} /\ Older(cache[p][o], cache'[p][o])
<1> USE DEF VersionInv, StatusTypeOK
<1>1. CASE cache'[p][o] = cache[p][o] /\ pod'[p] = pod[p]
  BY <1>1, OlderReflexive
<1>2. CASE \E q \in Pods, x \in Objects : Sync(q, x)
  <2>1. cache'[p][o] \in {cache[p][o], cr[o]} /\ UNCHANGED pod
    BY <1>2 DEF Sync
  <2> QED
    BY <2>1, OlderReflexive DEF CopiesAreOlder
<1>3. CASE \E q \in Pods : Pod(q)
  <2>1. cache'[p][o] = cache[p][o] /\ pod'[p] \in {"standby", "leading"}
    BY <1>3 DEF Pod, Start, CacheSynced, Lead, LoseLease, Exit, Crash, Down
  <2> QED
    BY <2>1, OlderReflexive
<1>4. CASE UNCHANGED <<pod, cache>>
  BY <1>4, <1>1
<1> QED
  BY <1>2, <1>3, <1>4
     DEF StatusNext, User, UserCreate, UserEdit, StatusDrift, UserDelete, UserChange,
         UpdateStatus, Reconcile, statusVars

\* The flag of the watcher is set after WaitForCacheSync and dies with its process.
LEMMA ReadyStep ==
    ASSUME VersionInv, ReadyIsRunning, [Next]_vars PROVE ReadyIsRunning'
<1>1. CASE StatusNext /\ TLSUnchanged
  <2>1. ready' = [p \in Pods |-> ready[p] /\ pod'[p] # "down"]
    BY <1>1 DEF TLSUnchanged
  <2>2. ready' \in [Pods -> BOOLEAN]
    BY <2>1, Zenon
  <2>3. ASSUME NEW p \in Pods, ready'[p] PROVE pod'[p] \in {"standby", "leading"}
    <3>1. ready[p] /\ pod'[p] # "down"
      BY <2>1, <2>3
    <3>2. pod[p] \in {"standby", "leading"}
      BY <3>1 DEF ReadyIsRunning
    <3> QED
      BY <1>1, <3>1, <3>2
         DEF StatusNext, User, UserCreate, UserEdit, StatusDrift, UserDelete, UserChange,
             Pod, Start, CacheSynced, Lead, LoseLease, Exit, Crash, Down,
             UpdateStatus, Sync, Reconcile, VersionInv, StatusTypeOK
  <2> QED
    BY <2>2, <2>3 DEF ReadyIsRunning
<1>2. ASSUME NEW p \in Pods, WatcherReady(p) PROVE ReadyIsRunning'
  BY <1>2 DEF WatcherReady, ReadyIsRunning, statusVars
<1>3. CASE UNCHANGED <<pod, ready>>
  BY <1>3 DEF ReadyIsRunning
<1> QED
  BY <1>1, <1>2, <1>3 DEF Next, Handshake, vars, statusVars, tlsVars

\* Versions are ordered by uid and generation.
LEMMA LaterIsLater ==
    ASSUME NEW u \in Nat, NEW v \in Nat, NEW w \in Nat,
           NEW g \in Nat, NEW h \in Nat, NEW i \in Nat,
           u <= v, u = v => g <= h, v <= w, v = w => h <= i
    PROVE  u <= w /\ (u = w => g <= i)
OBVIOUS

\* A handshake is given a version of the cache (GetTLSConfig), and the cache goes on
\* from there until the process ends.
LEMMA ServedStep ==
    ASSUME VersionInv, VersionInv', ReadyIsRunning, ServedInv, [Next]_vars
    PROVE  ServedInv'
<1>1. CASE StatusNext /\ TLSUnchanged
  <2>1. CASE client' = None
    BY <2>1 DEF ServedInv
  <2>2. CASE client' # None
    <3>1. client' = client /\ served' = served /\ client \in Pods /\ pod'[client] # "down"
      BY <1>1, <2>2 DEF TLSUnchanged, ServedInv
    <3>2. CASE served.from = None
      BY <3>1, <3>2 DEF ServedInv
    <3>3. CASE served.from # None
      <4> DEFINE o == served.from
      <4>0. /\ o \in Objects /\ served.uid \in Nat /\ served.generation \in Nat
            /\ ready[client]
            /\ served.uid <= cache[client][o].uid
            /\ served.uid = cache[client][o].uid
                   => served.generation <= cache[client][o].generation
        BY <2>2, <3>1, <3>3 DEF ServedInv
      <4>1. pod[client] \in {"standby", "leading"}
        BY <3>1, <4>0 DEF ReadyIsRunning
      <4>2. /\ pod'[client] \in {"standby", "leading"}
            /\ Older(cache[client][o], cache'[client][o])
        BY <1>1, <3>1, <4>0, <4>1, CacheAdvances
      <4>3. /\ cache[client][o].uid \in Nat /\ cache'[client][o].uid \in Nat
            /\ cache[client][o].generation \in Nat /\ cache'[client][o].generation \in Nat
        BY <3>1, <4>0 DEF VersionInv, StatusTypeOK, FRO
      <4>4. /\ served.uid <= cache'[client][o].uid
            /\ served.uid = cache'[client][o].uid
                   => served.generation <= cache'[client][o].generation
        BY <4>0, <4>2, <4>3, LaterIsLater DEF Older
      <4>5. ready'[client]
        BY <1>1, <3>1, <4>0 DEF TLSUnchanged
      <4> QED
        BY <3>1, <4>0, <4>2, <4>4, <4>5 DEF ServedInv
    <3> QED
      BY <3>2, <3>3
  <2> QED
    BY <2>1, <2>2
<1>2. ASSUME NEW p \in Pods, WatcherReady(p) PROVE ServedInv'
  <2>1. UNCHANGED <<statusVars, client, served>> /\ (ready[client] => ready'[client])
    BY <1>2 DEF WatcherReady, ReadyIsRunning
  <2> QED
    BY <2>1 DEF ServedInv, statusVars
<1>3. ASSUME NEW p \in Pods, Handshake(p) PROVE ServedInv'
  <2>1. client' = p /\ UNCHANGED <<statusVars, ready>> /\ served' \in GetTLSConfig(p)
    BY <1>3 DEF Handshake
  <2>2. CASE served' = DefaultAnswer
    BY <2>1, <2>2 DEF ServedInv, DefaultAnswer
  <2>3. CASE served' # DefaultAnswer
    <3>1. ready[p] /\ \E o \in Objects : served' = Answer(o, cache[p][o])
      BY <2>1, <2>3 DEF GetTLSConfig
    <3>2. PICK o \in Objects : served' = Answer(o, cache[p][o])
      BY <3>1
    <3>3. served'.from = o /\ served'.uid = cache[p][o].uid
          /\ served'.generation = cache[p][o].generation
      BY <3>2 DEF Answer
    <3>4. cache[p][o].uid \in Nat /\ cache[p][o].generation \in Nat
      BY DEF VersionInv, StatusTypeOK, FRO
    <3> QED
      BY <2>1, <3>1, <3>3, <3>4 DEF ServedInv, statusVars
  <2> QED
    BY <2>2, <2>3
<1>4. CASE UNCHANGED vars
  BY <1>4 DEF vars, statusVars, tlsVars, ServedInv
<1> QED
  BY <1>1, <1>2, <1>3, <1>4 DEF Next

\* Every pod moves forward through the policies of an object, and falls back to the
\* default only when the object is gone: whatever the lag of the caches, the order of
\* the list and the steps of the other pods (GetTLSConfig).
THEOREM PolicyAdvances == Spec => PolicyNeverGoesBack
<1> DEFINE Forward == LET o == served.from
                      IN o # None /\ client # None /\ client' = client =>
                            /\ served'.from = o /\ served'.uid = served.uid
                                   => served'.generation >= served.generation
                            /\ served'.from = None
                                   => ~cr[o].exists \/ cr[o].uid # served.uid
<1>1. Init => ReadyIsRunning /\ ServedInv
  BY DEF Init, ReadyIsRunning, ServedInv
<1>2. VersionInv /\ VersionInv' /\ ReadyIsRunning /\ ServedInv /\ [Next]_vars
         => ReadyIsRunning' /\ ServedInv'
  BY ReadyStep, ServedStep
<1>3. ASSUME VersionInv, ReadyIsRunning, ServedInv, [Next]_vars PROVE [Forward]_vars
  <2> SUFFICES ASSUME served.from # None, client # None, client' = client
               PROVE  /\ served'.from = served.from /\ served'.uid = served.uid
                             => served'.generation >= served.generation
                      /\ served'.from = None
                             => \/ ~cr[served.from].exists
                                \/ cr[served.from].uid # served.uid
    OBVIOUS
  <2> DEFINE o == served.from
             held == cache[client][o]
  <2>1. /\ client \in Pods /\ o \in Objects
        /\ served.uid \in Nat /\ served.generation \in Nat /\ ready[client]
        /\ served.uid <= held.uid
        /\ served.uid = held.uid => served.generation <= held.generation
    BY <1>3 DEF ServedInv
  <2>2. held \in FRO /\ cr[o] \in FRO /\ Older(held, cr[o])
    BY <1>3, <2>1 DEF VersionInv, StatusTypeOK, CopiesAreOlder
  <2>3. CASE served' = served
    BY <2>1, <2>3
  <2>4. CASE served' \in GetTLSConfig(client)
    <3>1. CASE served' = DefaultAnswer
      <4>1. served'.from = None
        BY <3>1 DEF DefaultAnswer
      <4>2. CASE held.exists
        <5>1. \E x \in Objects : served' = Answer(x, cache[client][x])
          BY <2>1, <2>4, <4>2 DEF GetTLSConfig
        <5>2. served'.from \in Objects
          BY <5>1 DEF Answer
        <5> QED
          BY <4>1, <5>2, StatusAssumption
      <4>3. CASE ~held.exists
        BY <4>1, <4>3, <2>1, <2>2 DEF Older, FRO
      <4> QED
        BY <4>2, <4>3
    <3>2. CASE served' # DefaultAnswer
      <4>1. PICK x \in Objects : served' = Answer(x, cache[client][x])
        BY <3>2, <2>4 DEF GetTLSConfig
      <4>2. served'.from = x /\ served'.uid = cache[client][x].uid
            /\ served'.generation = cache[client][x].generation
        BY <4>1 DEF Answer
      <4>3. held.generation \in Nat
        BY <2>2 DEF FRO
      <4> QED
        BY <2>1, <4>2, <4>3, StatusAssumption
    <3> QED
      BY <3>1, <3>2
  <2>5. served' = served \/ served' \in GetTLSConfig(client)
    BY <1>3, <2>1 DEF Next, TLSUnchanged, WatcherReady, Handshake, vars, tlsVars
  <2> QED
    BY <2>3, <2>4, <2>5
<1> HIDE DEF Forward
<1>4. Spec => []VersionInv
  BY Composed, VersionsInvariant, PTL
<1>5. Spec => [][Forward]_vars
  BY <1>1, <1>2, <1>3, <1>4, PTL DEF Spec
<1> QED
  BY <1>5 DEF Forward, PolicyNeverGoesBack
=============================================================================
