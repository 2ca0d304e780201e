---------------------- MODULE OperatorResourcesProofs ----------------------
(***************************************************************************)
(* The keys match, and a pod that is ready finds everything stored, for    *)
(* any number of pods, attempts and faults.                                *)
(*                                                                         *)
(* KeysMatch is not inductive: a pod works with what it has read some      *)
(* steps before.  It is strengthened by what remains true of those reads,  *)
(* for one reason: a Secret, once stored, never changes.                   *)
(***************************************************************************)
EXTENDS OperatorResources, TLAPS

\* What a pod has read of a Secret that exists is still what is stored.
ReadsAreCurrent ==
    \A p \in Pods :
        pc[p] \in {"getConfigMap", "createConfigMap"} /\ seenSecret[p] \notin {None, Failure}
            => seenSecret[p] = secret

\* While no Secret is stored, a pod about to store one has found no ConfigMap or
\* has deleted it, and nobody can have created another.
NoMapBeforeSecret ==
    \A p \in Pods : pc[p] = "createSecret" /\ secret = None => configMap = None

ResourcesInv ==
    /\ ResourcesTypeOK
    /\ KeysMatch
    /\ ReadsAreCurrent
    /\ NoMapBeforeSecret

\* A call that fails, or finds what it did not expect, changes no object, and the
\* pod starts again or exits.
LEMMA FailedAttempt ==
    ASSUME NEW p \in Pods, ResourcesInv, AttemptFails(p),
           UNCHANGED <<secret, configMap, seenSecret, seenMap, writes>>, faults' \in Nat
    PROVE  ResourcesInv'
<1> USE ResourcesAssumption
<1>1. /\ pc' = [pc EXCEPT ![p] = pc'[p]] /\ pc'[p] \in {"getSecret", "exited"}
      /\ attempt' \in [Pods -> 1..MaxAttempts]
  BY DEF ResourcesInv, ResourcesTypeOK, AttemptFails, Goto
<1>2. ResourcesTypeOK'
  BY <1>1 DEF ResourcesInv, ResourcesTypeOK, Labels, Keys, ConfigMap, Archives
<1>3. KeysMatch' /\ ReadsAreCurrent' /\ NoMapBeforeSecret'
  BY <1>1 DEF ResourcesInv, ResourcesTypeOK, KeysMatch, ReadsAreCurrent, NoMapBeforeSecret
<1> QED
  BY <1>2, <1>3 DEF ResourcesInv

\* So does a call that the API server refuses.
LEMMA FailedCall ==
    ASSUME NEW p \in Pods, ResourcesInv, CallFails(p)
    PROVE  ResourcesInv'
  BY FailedAttempt DEF CallFails, Fault, ResourcesInv, ResourcesTypeOK

\* An update keeps the key of the ConfigMap it read.
LEMMA Updated ==
    ASSUME NEW p \in Pods, ResourcesInv, Update(p), pc[p] \in {"sync", "retry"}
    PROVE  ResourcesInv'
<1> USE ResourcesAssumption
<1>a. seenMap[p] \in ConfigMap /\ seenMap[p] = configMap /\ writes \in Nat
  BY DEF ResourcesInv, ResourcesTypeOK, Update
<1>b. Version[p] \in Archives
  BY DEF Archives
<1>1. /\ configMap \in ConfigMap /\ configMap' \in ConfigMap
      /\ configMap'.key = configMap.key /\ writes' \in Nat
  <2>1. CASE seenMap[p].archives = Version[p]
    <3>1. configMap' = configMap /\ writes' = writes
      BY <2>1 DEF Update
    <3> QED
      BY <1>a, <3>1
  <2>2. CASE seenMap[p].archives # Version[p]
    BY <1>a, <1>b, <2>2 DEF Update, ConfigMap
  <2> QED
    BY <2>1, <2>2
<1>2. ResourcesTypeOK'
  BY <1>1 DEF ResourcesInv, ResourcesTypeOK, Update, Goto, Labels, Keys
<1>3. KeysMatch' /\ ReadsAreCurrent' /\ NoMapBeforeSecret'
  BY <1>1 DEF ResourcesInv, ResourcesTypeOK, Update, Goto, KeysMatch, ReadsAreCurrent,
              NoMapBeforeSecret, ConfigMap, Keys
<1> QED
  BY <1>2, <1>3 DEF ResourcesInv

\* Nothing is read, and the objects are new or of an earlier release.
LEMMA InvariantInit == Init => ResourcesInv
<1> USE ResourcesAssumption
<1> SUFFICES ASSUME Init PROVE ResourcesInv
  OBVIOUS
<1>1. ResourcesTypeOK
  BY DEF Init, ResourcesTypeOK, Labels, Keys, ConfigMap, Archives
<1>2. KeysMatch /\ ReadsAreCurrent /\ NoMapBeforeSecret
  BY DEF Init, KeysMatch, ReadsAreCurrent, NoMapBeforeSecret
<1> QED
  BY <1>1, <1>2 DEF ResourcesInv

\* Every call of EnsureOperatorResources keeps ResourcesInv.
LEMMA InvariantStep ==
    ASSUME ResourcesInv, [Next]_resourceVars
    PROVE  ResourcesInv'
<1> USE ResourcesAssumption
<1>1. ASSUME NEW p \in Pods, GetSecret(p) PROVE ResourcesInv'
  <2>1. ResourcesTypeOK'
    BY <1>1 DEF ResourcesInv, ResourcesTypeOK, GetSecret, Goto, Fault, Labels, Keys
  <2>2. KeysMatch' /\ ReadsAreCurrent' /\ NoMapBeforeSecret'
    BY <1>1 DEF ResourcesInv, ResourcesTypeOK, GetSecret, Goto, KeysMatch, ReadsAreCurrent,
                NoMapBeforeSecret
  <2> QED
    BY <2>1, <2>2 DEF ResourcesInv
<1>2. ASSUME NEW p \in Pods, GetConfigMap(p) PROVE ResourcesInv'
  <2>1. CASE CallFails(p)
    BY <2>1, FailedCall
  <2>2. CASE /\ seenMap' = [seenMap EXCEPT ![p] = configMap]
             /\ Decide(p, seenSecret[p], configMap)
             /\ UNCHANGED <<secret, configMap, seenSecret, writes, faults>>
    <3>1. seenMap' \in [Pods -> ConfigMap \cup {None}]
      BY <2>2 DEF ResourcesInv, ResourcesTypeOK
    <3>2. /\ pc' = [pc EXCEPT ![p] = pc'[p]]
          /\ pc'[p] \in {"getSecret", "exited", "sync", "createConfigMap", "deleteConfigMap",
                         "createSecret"}
          /\ attempt' \in [Pods -> 1..MaxAttempts]
      BY <2>2 DEF Decide, AttemptFails, Goto, ResourcesInv, ResourcesTypeOK
    <3>3. /\ pc'[p] = "sync" => configMap # None
          /\ pc'[p] = "createConfigMap" => seenSecret[p] \in Keys
          /\ pc'[p] = "createSecret" => configMap = None
      BY <2>2 DEF Decide, AttemptFails, Goto, ResourcesInv, ResourcesTypeOK
    <3>4. ResourcesTypeOK'
      BY <2>2, <3>1, <3>2, <3>3 DEF ResourcesInv, ResourcesTypeOK, Labels
    <3>5. KeysMatch' /\ ReadsAreCurrent' /\ NoMapBeforeSecret'
      BY <1>2, <2>2, <3>2, <3>3 DEF GetConfigMap, ResourcesInv, ResourcesTypeOK, KeysMatch,
                                    ReadsAreCurrent, NoMapBeforeSecret
    <3> QED
      BY <3>4, <3>5 DEF ResourcesInv
  <2> QED
    BY <1>2, <2>1, <2>2 DEF GetConfigMap
<1>3. ASSUME NEW p \in Pods, DeleteConfigMap(p) PROVE ResourcesInv'
  <2>1. CASE CallFails(p)
    BY <2>1, FailedCall
  <2>2. CASE ~CallFails(p)
    <3>1. ResourcesTypeOK'
      BY <1>3, <2>2 DEF ResourcesInv, ResourcesTypeOK, DeleteConfigMap, Goto, Labels
    <3>2. KeysMatch' /\ ReadsAreCurrent' /\ NoMapBeforeSecret'
      BY <1>3, <2>2 DEF ResourcesInv, ResourcesTypeOK, DeleteConfigMap, Goto, KeysMatch,
                        ReadsAreCurrent, NoMapBeforeSecret
    <3> QED
      BY <3>1, <3>2 DEF ResourcesInv
  <2> QED
    BY <2>1, <2>2
<1>4. ASSUME NEW p \in Pods, CreateSecret(p) PROVE ResourcesInv'
  <2>1. CASE CallFails(p)
    BY <2>1, FailedCall
  <2>2. CASE secret # None /\ AttemptFails(p)
             /\ UNCHANGED <<secret, configMap, seenSecret, seenMap, writes, faults>>
    BY <2>2, FailedAttempt DEF ResourcesInv, ResourcesTypeOK
  <2>3. CASE /\ secret = None /\ secret' = p
             /\ seenSecret' = [seenSecret EXCEPT ![p] = p]
             /\ Goto(p, "createConfigMap")
             /\ UNCHANGED <<configMap, seenMap, attempt, writes, faults>>
    <3>1. configMap = None
      BY <1>4, <2>3 DEF CreateSecret, ResourcesInv, NoMapBeforeSecret
    <3>2. ResourcesTypeOK'
      BY <2>3 DEF ResourcesInv, ResourcesTypeOK, Goto, Labels, Keys
    <3>3. \A q \in Pods : pc[q] \in {"getConfigMap", "createConfigMap"} =>
                              seenSecret[q] \in {None, Failure}
      BY <2>3 DEF ResourcesInv, ReadsAreCurrent
    <3>4. KeysMatch' /\ ReadsAreCurrent' /\ NoMapBeforeSecret'
      BY <2>3, <3>1, <3>3 DEF ResourcesInv, ResourcesTypeOK, Goto, KeysMatch,
                              ReadsAreCurrent, NoMapBeforeSecret
    <3> QED
      BY <3>2, <3>4 DEF ResourcesInv
  <2> QED
    BY <1>4, <2>1, <2>2, <2>3 DEF CreateSecret
<1>5. ASSUME NEW p \in Pods, CreateConfigMap(p) PROVE ResourcesInv'
  <2>1. CASE CallFails(p)
    BY <2>1, FailedCall
  <2>2. CASE configMap # None /\ AttemptFails(p)
             /\ UNCHANGED <<secret, configMap, seenSecret, seenMap, writes, faults>>
    BY <2>2, FailedAttempt DEF ResourcesInv, ResourcesTypeOK
  <2>3. CASE /\ configMap = None
             /\ configMap' = [key |-> seenSecret[p], archives |-> Version[p], rev |-> writes + 1]
             /\ writes' = writes + 1
             /\ Goto(p, "ready")
             /\ UNCHANGED <<secret, seenSecret, seenMap, attempt, faults>>
    <3>1. seenSecret[p] \in Keys /\ seenSecret[p] = secret /\ secret # None
      BY <1>5 DEF CreateConfigMap, ResourcesInv, ResourcesTypeOK, ReadsAreCurrent, Keys
    <3>2. configMap' \in ConfigMap /\ configMap'.key = secret
      BY <2>3, <3>1 DEF ConfigMap, Archives, ResourcesInv, ResourcesTypeOK
    <3>3. ResourcesTypeOK'
      BY <2>3, <3>2 DEF ResourcesInv, ResourcesTypeOK, Goto, Labels
    <3>4. KeysMatch' /\ ReadsAreCurrent' /\ NoMapBeforeSecret'
      BY <2>3, <3>1, <3>2 DEF ResourcesInv, ResourcesTypeOK, Goto, KeysMatch,
                              ReadsAreCurrent, NoMapBeforeSecret
    <3> QED
      BY <3>3, <3>4 DEF ResourcesInv
  <2> QED
    BY <1>5, <2>1, <2>2, <2>3 DEF CreateConfigMap
<1>6. ASSUME NEW p \in Pods, SyncArchives(p) PROVE ResourcesInv'
  <2>1. CASE CallFails(p)
    BY <2>1, FailedCall
  <2>2. CASE Update(p)
    BY <1>6, <2>2, Updated DEF SyncArchives
  <2>3. CASE AttemptFails(p)
             /\ UNCHANGED <<secret, configMap, seenSecret, seenMap, writes, faults>>
    BY <2>3, FailedAttempt DEF ResourcesInv, ResourcesTypeOK
  <2>4. CASE /\ Goto(p, "ready") \/ Goto(p, "refetch")
             /\ UNCHANGED <<secret, configMap, seenSecret, seenMap, attempt, writes, faults>>
    <3>1. ResourcesTypeOK'
      BY <2>4 DEF ResourcesInv, ResourcesTypeOK, Goto, Labels
    <3>2. KeysMatch' /\ ReadsAreCurrent' /\ NoMapBeforeSecret'
      BY <2>4 DEF ResourcesInv, ResourcesTypeOK, Goto, KeysMatch, ReadsAreCurrent,
                  NoMapBeforeSecret
    <3> QED
      BY <3>1, <3>2 DEF ResourcesInv
  <2> QED
    BY <1>6, <2>1, <2>2, <2>3, <2>4 DEF SyncArchives
<1>7. ASSUME NEW p \in Pods, Refetch(p) PROVE ResourcesInv'
  <2>1. CASE CallFails(p)
    BY <2>1, FailedCall
  <2>2. CASE AttemptFails(p)
             /\ UNCHANGED <<secret, configMap, seenSecret, seenMap, writes, faults>>
    BY <2>2, FailedAttempt DEF ResourcesInv, ResourcesTypeOK
  <2>3. CASE /\ configMap # None
             /\ seenMap' = [seenMap EXCEPT ![p] = configMap]
             /\ Goto(p, "retry")
             /\ UNCHANGED <<secret, configMap, seenSecret, attempt, writes, faults>>
    <3>1. ResourcesTypeOK'
      BY <2>3 DEF ResourcesInv, ResourcesTypeOK, Goto, Labels
    <3>2. KeysMatch' /\ ReadsAreCurrent' /\ NoMapBeforeSecret'
      BY <2>3 DEF ResourcesInv, ResourcesTypeOK, Goto, KeysMatch, ReadsAreCurrent,
                  NoMapBeforeSecret
    <3> QED
      BY <3>1, <3>2 DEF ResourcesInv
  <2> QED
    BY <1>7, <2>1, <2>2, <2>3 DEF Refetch
<1>8. ASSUME NEW p \in Pods, RetryUpdate(p) PROVE ResourcesInv'
  <2>1. CASE CallFails(p)
    BY <2>1, FailedCall
  <2>2. CASE Update(p)
    BY <1>8, <2>2, Updated DEF RetryUpdate
  <2>3. CASE AttemptFails(p)
             /\ UNCHANGED <<secret, configMap, seenSecret, seenMap, writes, faults>>
    BY <2>3, FailedAttempt DEF ResourcesInv, ResourcesTypeOK
  <2> QED
    BY <1>8, <2>1, <2>2, <2>3 DEF RetryUpdate
<1>9. ASSUME NEW p \in Pods, Die(p) \/ Restart(p) PROVE ResourcesInv'
  <2>1. ResourcesTypeOK'
    BY <1>9 DEF ResourcesInv, ResourcesTypeOK, Die, Restart, Fault, Goto, Labels
  <2>2. KeysMatch' /\ ReadsAreCurrent' /\ NoMapBeforeSecret'
    BY <1>9 DEF ResourcesInv, ResourcesTypeOK, Die, Restart, Goto, KeysMatch,
                ReadsAreCurrent, NoMapBeforeSecret
  <2> QED
    BY <2>1, <2>2 DEF ResourcesInv
<1>10. CASE UNCHANGED resourceVars
  <2>1. ResourcesTypeOK'
    BY <1>10 DEF resourceVars, ResourcesInv, ResourcesTypeOK
  <2>2. KeysMatch' /\ ReadsAreCurrent' /\ NoMapBeforeSecret'
    BY <1>10 DEF resourceVars, ResourcesInv, KeysMatch, ReadsAreCurrent, NoMapBeforeSecret
  <2> QED
    BY <2>1, <2>2 DEF ResourcesInv
<1> QED
  BY <1>1, <1>2, <1>3, <1>4, <1>5, <1>6, <1>7, <1>8, <1>9, <1>10
     DEF Next, EnsureOperatorResources

\* Every variable keeps its type; in particular a pod that updates the ConfigMap has
\* read one, and one that creates it holds a private key that could be parsed.
THEOREM ResourcesTypeCorrect == Spec => []ResourcesTypeOK
<1>1. Init => ResourcesInv
  BY InvariantInit
<1>2. ResourcesInv /\ [Next]_resourceVars => ResourcesInv'
  BY InvariantStep
<1>3. ResourcesInv => ResourcesTypeOK
  BY DEF ResourcesInv
<1> QED
  BY <1>1, <1>2, <1>3, PTL DEF Spec

\* However many operator pods start at once, read, write, fail and die in whatever
\* order, the public key in the ConfigMap belongs to the private key in the Secret.
THEOREM MatchingKeys == Spec => []KeysMatch
<1>1. Init => ResourcesInv
  BY InvariantInit
<1>2. ResourcesInv /\ [Next]_resourceVars => ResourcesInv'
  BY InvariantStep
<1>3. ResourcesInv => KeysMatch
  BY DEF ResourcesInv
<1> QED
  BY <1>1, <1>2, <1>3, PTL DEF Spec

----------------------------------------------------------------------------
(***************************************************************************)
(* ReadyIsComplete is not inductive either: a pod that holds a ConfigMap   *)
(* with its own archives becomes ready without looking whether it is still *)
(* there.  What holds at every step is a debt: whenever the ConfigMap is   *)
(* missing, or carries the archives of no pod, some pod that is not ready  *)
(* has yet to write it.  Only the pod that deletes the ConfigMap can make  *)
(* it incomplete again, and from then on that pod owes it.                 *)
(***************************************************************************)
Complete == configMap # None /\ \E q \in Pods : configMap.archives = Version[q]

Owes(q) ==
    \/ pc[q] \in {"getSecret", "getConfigMap", "deleteConfigMap", "createSecret",
                  "createConfigMap", "exited"}
    \/ pc[q] \in {"sync", "refetch", "retry"} /\ seenMap[q].archives # Version[q]

SomebodyOwes == Complete \/ \E q \in Pods : Owes(q)

\* A pod is past the choice of what to do about the Secret only when there is one.
SecretFirst ==
    \A q \in Pods : pc[q] \in {"createConfigMap", "sync", "refetch", "retry", "ready"}
                        => secret # None

\* A pod that has lost an update has archives to store.
ConflictHasWork == \A q \in Pods : pc[q] = "refetch" => seenMap[q].archives # Version[q]

CompleteInv == SomebodyOwes /\ SecretFirst /\ ConflictHasWork

\* A pod that owes the ConfigMap after its step settles the matter, whatever the
\* step was.
LEMMA StillOwes ==
    ASSUME NEW p \in Pods, ResourcesInv, CompleteInv,
           pc' = [pc EXCEPT ![p] = pc'[p]],
           pc'[p] \in {"getSecret", "getConfigMap", "deleteConfigMap", "createSecret",
                       "exited"},
           secret' = secret, \A q \in Pods \ {p} : seenMap'[q] = seenMap[q]
    PROVE  CompleteInv'
<1>1. SomebodyOwes'
  BY DEF SomebodyOwes, Owes
<1>2. SecretFirst' /\ ConflictHasWork'
  BY DEF CompleteInv, SecretFirst, ConflictHasWork, ResourcesInv, ResourcesTypeOK
<1> QED
  BY <1>1, <1>2 DEF CompleteInv

\* A failed attempt leaves the pod with everything to do.
LEMMA FailureOwes ==
    ASSUME NEW p \in Pods, ResourcesInv, CompleteInv, AttemptFails(p), secret' = secret,
           \A q \in Pods \ {p} : seenMap'[q] = seenMap[q]
    PROVE  CompleteInv'
<1>1. pc' = [pc EXCEPT ![p] = pc'[p]] /\ pc'[p] \in {"getSecret", "exited"}
  BY DEF AttemptFails, Goto, ResourcesInv, ResourcesTypeOK
<1> QED
  BY <1>1, StillOwes

\* So does a call that the API server refuses.
LEMMA RefusalOwes ==
    ASSUME NEW p \in Pods, ResourcesInv, CompleteInv, CallFails(p)
    PROVE  CompleteInv'
  BY FailureOwes DEF CallFails

\* A pod that becomes ready by an update has stored its own archives.
LEMMA UpdateCompletes ==
    ASSUME NEW p \in Pods, ResourcesInv, CompleteInv, Update(p), pc[p] \in {"sync", "retry"}
    PROVE  CompleteInv'
<1>1. /\ seenMap[p] \in ConfigMap /\ seenMap[p] = configMap
      /\ \A q \in Pods : pc'[q] = IF q = p THEN "ready" ELSE pc[q]
  BY DEF ResourcesInv, ResourcesTypeOK, Update, Goto
<1>2. configMap' \in ConfigMap /\ configMap'.archives = Version[p]
  <2>1. CASE seenMap[p].archives = Version[p]
    BY <1>1, <2>1 DEF Update
  <2>2. CASE seenMap[p].archives # Version[p]
    <3>1. configMap' = [key |-> seenMap[p].key, archives |-> Version[p], rev |-> writes + 1]
      BY <2>2 DEF Update
    <3>2. seenMap[p].key \in Keys /\ Version[p] \in Archives /\ writes + 1 \in Nat
      BY <1>1 DEF ConfigMap, Archives, ResourcesInv, ResourcesTypeOK
    <3> QED
      BY <3>1, <3>2 DEF ConfigMap
  <2> QED
    BY <2>1, <2>2
<1>3. SomebodyOwes'
  BY <1>2, ResourcesAssumption DEF SomebodyOwes, Complete
<1>4. SecretFirst' /\ ConflictHasWork'
  BY <1>1 DEF Update, CompleteInv, SecretFirst, ConflictHasWork
<1> QED
  BY <1>3, <1>4 DEF CompleteInv

\* At the start every pod has everything to do.
LEMMA CompleteInit == Init => CompleteInv
  BY ResourcesAssumption DEF Init, CompleteInv, SomebodyOwes, Owes, SecretFirst,
                             ConflictHasWork

\* Every call of EnsureOperatorResources keeps CompleteInv.
LEMMA CompleteStep ==
    ASSUME ResourcesInv, CompleteInv, [Next]_resourceVars
    PROVE  CompleteInv'
<1>t. pc \in [Pods -> Labels] /\ seenMap \in [Pods -> ConfigMap \cup {None}]
  BY DEF ResourcesInv, ResourcesTypeOK
<1>1. ASSUME NEW p \in Pods, GetSecret(p) PROVE CompleteInv'
  BY <1>t, <1>1, StillOwes DEF GetSecret, Goto
<1>2. ASSUME NEW p \in Pods, GetConfigMap(p) PROVE CompleteInv'
  <2>1. CASE CallFails(p)
    BY <2>1, RefusalOwes
  <2>2. CASE /\ seenMap' = [seenMap EXCEPT ![p] = configMap]
             /\ Decide(p, seenSecret[p], configMap)
             /\ UNCHANGED <<secret, configMap, seenSecret, writes, faults>>
    <3>1. CASE AttemptFails(p)
      BY <1>t, <2>2, <3>1, FailureOwes
    <3>2. CASE Goto(p, "deleteConfigMap") \/ Goto(p, "createSecret")
      BY <1>t, <2>2, <3>2, StillOwes DEF Goto
    <3>3. CASE \/ seenSecret[p] \notin {None, Failure} /\ Goto(p, "sync") /\ configMap # None
               \/ seenSecret[p] \in Keys /\ Goto(p, "createConfigMap")
      <4>1. secret # None
        BY <1>2, <3>3, ResourcesAssumption
           DEF GetConfigMap, ResourcesInv, ReadsAreCurrent, Keys
      <4>2. /\ seenMap'[p] = configMap
            /\ \A q \in Pods \ {p} : pc'[q] = pc[q] /\ seenMap'[q] = seenMap[q]
            /\ pc'[p] = "createConfigMap" \/ (pc'[p] = "sync" /\ configMap # None)
        BY <1>t, <2>2, <3>3 DEF Goto
      <4>3. SomebodyOwes'
        BY <2>2, <4>2 DEF SomebodyOwes, Complete, Owes
      <4>4. SecretFirst' /\ ConflictHasWork'
        BY <2>2, <4>1, <4>2 DEF CompleteInv, SecretFirst, ConflictHasWork
      <4> QED
        BY <4>3, <4>4 DEF CompleteInv
    <3> QED
      BY <2>2, <3>1, <3>2, <3>3 DEF Decide
  <2> QED
    BY <1>2, <2>1, <2>2 DEF GetConfigMap
<1>3. ASSUME NEW p \in Pods, DeleteConfigMap(p) PROVE CompleteInv'
  BY <1>t, <1>3, RefusalOwes, StillOwes DEF DeleteConfigMap, Goto
<1>4. ASSUME NEW p \in Pods, CreateSecret(p) PROVE CompleteInv'
  <2>1. CASE CallFails(p)
    BY <2>1, RefusalOwes
  <2>2. CASE AttemptFails(p) /\ secret' = secret /\ seenMap' = seenMap
    BY <2>2, FailureOwes
  <2>3. CASE secret' = p /\ Goto(p, "createConfigMap") /\ UNCHANGED <<configMap, seenMap>>
    <3>1. \A q \in Pods : pc'[q] = IF q = p THEN "createConfigMap" ELSE pc[q]
      BY <1>t, <2>3 DEF Goto
    <3> QED
      BY <2>3, <3>1, ResourcesAssumption
         DEF CompleteInv, SomebodyOwes, Owes, SecretFirst, ConflictHasWork
  <2> QED
    BY <1>4, <2>1, <2>2, <2>3 DEF CreateSecret
<1>5. ASSUME NEW p \in Pods, CreateConfigMap(p) PROVE CompleteInv'
  <2>1. CASE CallFails(p)
    BY <2>1, RefusalOwes
  <2>2. CASE AttemptFails(p) /\ secret' = secret /\ seenMap' = seenMap
    BY <2>2, FailureOwes
  <2>3. CASE /\ configMap' = [key |-> seenSecret[p], archives |-> Version[p],
                              rev |-> writes + 1]
             /\ Goto(p, "ready") /\ UNCHANGED <<secret, seenMap>>
    <3>1. seenSecret[p] \in Keys /\ Version[p] \in Archives /\ writes + 1 \in Nat
      BY <1>5 DEF CreateConfigMap, ResourcesInv, ResourcesTypeOK, Archives
    <3>2. configMap' # None /\ configMap'.archives = Version[p]
      BY <2>3, <3>1, ResourcesAssumption DEF ConfigMap
    <3>3. \A q \in Pods : pc'[q] = IF q = p THEN "ready" ELSE pc[q]
      BY <1>t, <2>3 DEF Goto
    <3> QED
      BY <1>5, <2>3, <3>2, <3>3
         DEF CreateConfigMap, CompleteInv, SomebodyOwes, Complete, SecretFirst,
             ConflictHasWork
  <2> QED
    BY <1>5, <2>1, <2>2, <2>3 DEF CreateConfigMap
<1>6. ASSUME NEW p \in Pods, SyncArchives(p) PROVE CompleteInv'
  <2>1. CASE CallFails(p)
    BY <2>1, RefusalOwes
  <2>2. CASE Update(p)
    BY <1>6, <2>2, UpdateCompletes DEF SyncArchives
  <2>3. CASE AttemptFails(p) /\ secret' = secret /\ seenMap' = seenMap
    BY <2>3, FailureOwes
  <2>4. CASE /\ \/ seenMap[p].archives = Version[p] /\ Goto(p, "ready")
                \/ seenMap[p].archives # Version[p] /\ Goto(p, "refetch")
             /\ UNCHANGED <<secret, configMap, seenMap>>
    <3>1. /\ \A q \in Pods \ {p} : pc'[q] = pc[q]
          /\ \/ seenMap[p].archives = Version[p] /\ pc'[p] = "ready"
             \/ seenMap[p].archives # Version[p] /\ pc'[p] = "refetch"
      BY <1>t, <2>4 DEF Goto
    <3>2. SomebodyOwes'
      BY <1>6, <2>4, <3>1 DEF SyncArchives, CompleteInv, SomebodyOwes, Complete, Owes
    <3>3. SecretFirst' /\ ConflictHasWork'
      BY <1>6, <2>4, <3>1 DEF SyncArchives, CompleteInv, SecretFirst, ConflictHasWork
    <3> QED
      BY <3>2, <3>3 DEF CompleteInv
  <2> QED
    BY <1>6, <2>1, <2>2, <2>3, <2>4 DEF SyncArchives
<1>7. ASSUME NEW p \in Pods, Refetch(p) PROVE CompleteInv'
  <2>1. CASE CallFails(p)
    BY <2>1, RefusalOwes
  <2>2. CASE AttemptFails(p) /\ secret' = secret /\ seenMap' = seenMap
    BY <2>2, FailureOwes
  <2>3. CASE /\ configMap # None
             /\ seenMap' = [seenMap EXCEPT ![p] = configMap]
             /\ Goto(p, "retry")
             /\ UNCHANGED <<secret, configMap>>
    <3>1. /\ seenMap'[p] = configMap /\ pc'[p] = "retry"
          /\ \A q \in Pods \ {p} : pc'[q] = pc[q] /\ seenMap'[q] = seenMap[q]
      BY <1>t, <2>3 DEF Goto
    <3>2. SomebodyOwes'
      BY <2>3, <3>1 DEF SomebodyOwes, Complete, Owes
    <3>3. SecretFirst' /\ ConflictHasWork'
      BY <1>7, <2>3, <3>1 DEF Refetch, CompleteInv, SecretFirst, ConflictHasWork
    <3> QED
      BY <3>2, <3>3 DEF CompleteInv
  <2> QED
    BY <1>7, <2>1, <2>2, <2>3 DEF Refetch
<1>8. ASSUME NEW p \in Pods, RetryUpdate(p) PROVE CompleteInv'
  BY <1>8, UpdateCompletes, FailureOwes, RefusalOwes DEF RetryUpdate
<1>9. ASSUME NEW p \in Pods, Die(p) \/ Restart(p) PROVE CompleteInv'
  BY <1>t, <1>9, StillOwes DEF Die, Restart, Goto
<1>10. CASE UNCHANGED resourceVars
  BY <1>10 DEF resourceVars, CompleteInv, SomebodyOwes, Complete, Owes, SecretFirst,
               ConflictHasWork
<1> QED
  BY <1>1, <1>2, <1>3, <1>4, <1>5, <1>6, <1>7, <1>8, <1>9, <1>10
     DEF Next, EnsureOperatorResources

\* However many operator pods start at once: when all of them have become ready, the
\* Secret and the ConfigMap both exist and the ConfigMap carries the helpers of one
\* of those pods, although each of them may have deleted what another had created.
THEOREM CompleteWhenReady == Spec => []ReadyIsComplete
<1>1. Init => ResourcesInv /\ CompleteInv
  BY InvariantInit, CompleteInit
<1>2. ResourcesInv /\ CompleteInv /\ [Next]_resourceVars => (ResourcesInv /\ CompleteInv)'
  BY InvariantStep, CompleteStep
<1>3. CompleteInv => ReadyIsComplete
  BY ResourcesAssumption
     DEF CompleteInv, SomebodyOwes, Complete, Owes, SecretFirst, ReadyIsComplete
<1> QED
  BY <1>1, <1>2, <1>3, PTL DEF Spec
=============================================================================
