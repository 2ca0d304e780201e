------------------------ MODULE OperatorResources --------------------------
(***************************************************************************)
(* The operator's SSH keypair and guest helpers                            *)
(* (internal/controller/keypair.go, and the loop around it in cmd/main.go).*)
(*                                                                         *)
(* Every operator pod ensures, before it starts its manager and before any *)
(* leader is elected, that a Secret with the private key and a ConfigMap   *)
(* with the public key and the helper archives exist.  During a rolling    *)
(* upgrade several pods do so at once, each with its own reads and writes, *)
(* and any of them may fail or die between two of them.                    *)
(*                                                                         *)
(* A Secret is never deleted by the operator, so at most one generated key *)
(* is ever stored; the pod that generated it names it.                     *)
(***************************************************************************)
EXTENDS Integers

CONSTANTS
    Pods,           \* operator pods
    None,           \* no object
    Failure,        \* a read that failed
    Previous,       \* the key of an earlier installation
    Broken,         \* a Secret that holds no private key that can be parsed
    Version,        \* Version[p]: the helper archives embedded in pod p
    OldVersion,     \* those of an earlier installation
    MaxAttempts,    \* attempts of main (5)
    MaxFaults       \* bound on API errors and deaths of pods

Keys == Pods \cup {Previous}

Archives == {Version[p] : p \in Pods} \cup {OldVersion}

\* rev is the resource version.
ConfigMap == [key : Keys, archives : Archives, rev : Nat]

ASSUME ResourcesAssumption ==
    /\ Pods # {}
    /\ {None, Failure, Previous, Broken} \cap Pods = {}
    /\ None # Failure /\ None # Previous /\ None # Broken /\ Previous # Broken
    /\ Failure # Previous /\ Failure # Broken
    /\ None \notin ConfigMap
    /\ MaxAttempts \in Nat \ {0} /\ MaxFaults \in Nat

VARIABLES
    secret,     \* API: the key in the Secret, or None
    configMap,  \* API: the ConfigMap, or None
    pc,         \* pc[p]: the next API call of pod p
    seenSecret, \* seenSecret[p]: what pod p read of the Secret
    seenMap,    \* seenMap[p]: what pod p read of the ConfigMap
    attempt,    \* attempt[p]: the attempt of main
    writes,     \* API: number of writes of the ConfigMap so far
    faults      \* number of faults so far

resourceVars == <<secret, configMap, pc, seenSecret, seenMap, attempt, writes, faults>>

----------------------------------------------------------------------------
Goto(p, label) == pc' = [pc EXCEPT ![p] = label]

Fault == faults < MaxFaults /\ faults' = faults + 1

\* Mutant: main goes on when the last attempt has failed.
AttemptsIgnored(p) ==
    IF attempt[p] < MaxAttempts
    THEN Goto(p, "getSecret") /\ attempt' = [attempt EXCEPT ![p] = @ + 1]
    ELSE Goto(p, "ready") /\ UNCHANGED attempt

\* EnsureOperatorResources returns an error: main tries again, then exits.
AttemptFails(p) ==
    IF attempt[p] < MaxAttempts
    THEN Goto(p, "getSecret") /\ attempt' = [attempt EXCEPT ![p] = @ + 1]
    ELSE Goto(p, "exited") /\ UNCHANGED attempt

\* An API call is refused.
CallFails(p) ==
    /\ Fault
    /\ AttemptFails(p)
    /\ UNCHANGED <<secret, configMap, seenSecret, seenMap, writes>>

----------------------------------------------------------------------------
GetSecret(p) ==
    /\ pc[p] = "getSecret"
    /\ \/ seenSecret' = [seenSecret EXCEPT ![p] = secret] /\ UNCHANGED faults
       \/ seenSecret' = [seenSecret EXCEPT ![p] = Failure] /\ Fault
    /\ Goto(p, "getConfigMap")
    /\ UNCHANGED <<secret, configMap, seenMap, attempt, writes>>

\* Mutant: a Secret without a ConfigMap is not recovered from.
NoRecovery(p, s, m) ==
    \/ s = Failure /\ AttemptFails(p)
    \/ s \notin {None, Failure} /\ m # None /\ Goto(p, "sync") /\ UNCHANGED attempt
    \/ s \notin {None, Failure} /\ m = None /\ AttemptFails(p)
    \/ s = None /\ m # None /\ Goto(p, "deleteConfigMap") /\ UNCHANGED attempt
    \/ s = None /\ m = None /\ Goto(p, "createSecret") /\ UNCHANGED attempt

\* Mutant: the private key is not looked at before it is used.
BrokenAccepted(p, s, m) ==
    \/ s = Failure /\ AttemptFails(p)
    \/ s \notin {None, Failure} /\ m # None /\ Goto(p, "sync") /\ UNCHANGED attempt
    \/ s \notin {None, Failure} /\ m = None /\ Goto(p, "createConfigMap") /\ UNCHANGED attempt
    \/ s = None /\ m # None /\ Goto(p, "deleteConfigMap") /\ UNCHANGED attempt
    \/ s = None /\ m = None /\ Goto(p, "createSecret") /\ UNCHANGED attempt

\* What a pod does, given what it has read.
Decide(p, s, m) ==
    \/ s = Failure /\ AttemptFails(p)
    \/ s \notin {None, Failure} /\ m # None /\ Goto(p, "sync") /\ UNCHANGED attempt
    \/ s = Broken /\ m = None /\ AttemptFails(p)
    \/ s \in Keys /\ m = None /\ Goto(p, "createConfigMap") /\ UNCHANGED attempt
    \/ s = None /\ m # None /\ Goto(p, "deleteConfigMap") /\ UNCHANGED attempt
    \/ s = None /\ m = None /\ Goto(p, "createSecret") /\ UNCHANGED attempt

GetConfigMap(p) ==
    /\ pc[p] = "getConfigMap"
    /\ \/ /\ seenMap' = [seenMap EXCEPT ![p] = configMap]
          /\ Decide(p, seenSecret[p], configMap)
          /\ UNCHANGED <<secret, configMap, seenSecret, writes, faults>>
       \/ CallFails(p)

\* The public key is of no use without the private one.  The ConfigMap is deleted
\* by its name, whatever it holds by now.
DeleteConfigMap(p) ==
    /\ pc[p] = "deleteConfigMap"
    /\ \/ /\ configMap' = None
          /\ Goto(p, "createSecret")
          /\ UNCHANGED <<secret, seenSecret, seenMap, attempt, writes, faults>>
       \/ CallFails(p)

\* Mutant: that the Secret exists already is no error.
SecretExistsIgnored(p) ==
    /\ pc[p] = "createSecret"
    /\ secret' = IF secret = None THEN p ELSE secret
    /\ seenSecret' = [seenSecret EXCEPT ![p] = p]
    /\ Goto(p, "createConfigMap")
    /\ UNCHANGED <<configMap, seenMap, attempt, writes, faults>>

\* Generate a keypair and store the private key.
CreateSecret(p) ==
    /\ pc[p] = "createSecret"
    /\ \/ /\ secret = None
          /\ secret' = p
          /\ seenSecret' = [seenSecret EXCEPT ![p] = p]
          /\ Goto(p, "createConfigMap")
          /\ UNCHANGED <<configMap, seenMap, attempt, writes, faults>>
       \/ /\ secret # None
          /\ AttemptFails(p)
          /\ UNCHANGED <<secret, configMap, seenSecret, seenMap, writes, faults>>
       \/ CallFails(p)

\* The public key belongs to the private key read or generated before.
CreateConfigMap(p) ==
    /\ pc[p] = "createConfigMap"
    /\ \/ /\ configMap = None
          /\ configMap' = [key |-> seenSecret[p], archives |-> Version[p], rev |-> writes + 1]
          /\ writes' = writes + 1
          /\ Goto(p, "ready")
          /\ UNCHANGED <<secret, seenSecret, seenMap, attempt, faults>>
       \/ /\ configMap # None
          /\ AttemptFails(p)
          /\ UNCHANGED <<secret, configMap, seenSecret, seenMap, writes, faults>>
       \/ CallFails(p)

\* Update of the helper archives; it conflicts when the ConfigMap has changed, and
\* one that changes nothing makes no new resource version.
Update(p) ==
    /\ configMap = seenMap[p]
    /\ IF seenMap[p].archives = Version[p]
       THEN UNCHANGED <<configMap, writes>>
       ELSE /\ configMap' = [key |-> seenMap[p].key, archives |-> Version[p], rev |-> writes + 1]
            /\ writes' = writes + 1
    /\ Goto(p, "ready")
    /\ UNCHANGED <<secret, seenSecret, seenMap, attempt, faults>>

SyncArchives(p) ==
    /\ pc[p] = "sync"
    /\ \/ /\ seenMap[p].archives = Version[p]
          /\ Goto(p, "ready")
          /\ UNCHANGED <<secret, configMap, seenSecret, seenMap, attempt, writes, faults>>
       \/ /\ seenMap[p].archives # Version[p]
          /\ \/ Update(p)
             \/ /\ configMap # None /\ configMap # seenMap[p]
                /\ Goto(p, "refetch")
                /\ UNCHANGED <<secret, configMap, seenSecret, seenMap, attempt, writes, faults>>
             \/ /\ configMap = None
                /\ AttemptFails(p)
                /\ UNCHANGED <<secret, configMap, seenSecret, seenMap, writes, faults>>
             \/ CallFails(p)

\* After a conflict: read again ...
Refetch(p) ==
    /\ pc[p] = "refetch"
    /\ \/ /\ configMap # None
          /\ seenMap' = [seenMap EXCEPT ![p] = configMap]
          /\ Goto(p, "retry")
          /\ UNCHANGED <<secret, configMap, seenSecret, attempt, writes, faults>>
       \/ /\ configMap = None
          /\ AttemptFails(p)
          /\ UNCHANGED <<secret, configMap, seenSecret, seenMap, writes, faults>>
       \/ CallFails(p)

\* ... and update once more.
RetryUpdate(p) ==
    /\ pc[p] = "retry"
    /\ \/ Update(p)
       \/ /\ configMap # seenMap[p]
          /\ AttemptFails(p)
          /\ UNCHANGED <<secret, configMap, seenSecret, seenMap, writes, faults>>
       \/ CallFails(p)

\* A pod dies, before or after it has become ready; the kubelet restarts it.
Die(p) ==
    /\ pc[p] # "exited"
    /\ Fault
    /\ Goto(p, "exited")
    /\ UNCHANGED <<secret, configMap, seenSecret, seenMap, attempt, writes>>

Restart(p) ==
    /\ pc[p] = "exited"
    /\ Goto(p, "getSecret")
    /\ attempt' = [attempt EXCEPT ![p] = 1]
    /\ UNCHANGED <<secret, configMap, seenSecret, seenMap, writes, faults>>

----------------------------------------------------------------------------
\* Nothing is there, or both objects, or one of them; a Secret that somebody else
\* has put there may be unusable.
Init ==
    /\ \/ secret \in {None, Previous, Broken} /\ configMap = None
       \/ /\ secret \in {None, Previous}
          /\ configMap = [key |-> Previous, archives |-> OldVersion, rev |-> 0]
    /\ pc = [p \in Pods |-> "getSecret"]
    /\ seenSecret = [p \in Pods |-> None]
    /\ seenMap = [p \in Pods |-> None]
    /\ attempt = [p \in Pods |-> 1]
    /\ writes = 0
    /\ faults = 0

EnsureOperatorResources(p) ==
    \/ GetSecret(p) \/ GetConfigMap(p) \/ DeleteConfigMap(p) \/ CreateSecret(p)
    \/ CreateConfigMap(p) \/ SyncArchives(p) \/ Refetch(p) \/ RetryUpdate(p)

Next == \E p \in Pods : EnsureOperatorResources(p) \/ Die(p) \/ Restart(p)

Spec == Init /\ [][Next]_resourceVars

\* A pod goes on, and the kubelet restarts one that has exited.
FairSpec ==
    /\ Spec
    /\ \A p \in Pods : WF_resourceVars(EnsureOperatorResources(p)) /\ WF_resourceVars(Restart(p))

----------------------------------------------------------------------------
Labels == {"getSecret", "getConfigMap", "deleteConfigMap", "createSecret",
           "createConfigMap", "sync", "refetch", "retry", "ready", "exited"}

\* Every variable has its type, and a pod that updates the ConfigMap has read one.
ResourcesTypeOK ==
    /\ secret \in Keys \cup {None, Broken}
    /\ configMap \in ConfigMap \cup {None}
    /\ pc \in [Pods -> Labels]
    /\ seenSecret \in [Pods -> Keys \cup {None, Broken, Failure}]
    /\ seenMap \in [Pods -> ConfigMap \cup {None}]
    /\ \A p \in Pods : pc[p] \in {"sync", "retry"} => seenMap[p] # None
    /\ \A p \in Pods : pc[p] = "createConfigMap" => seenSecret[p] \in Keys
    /\ attempt \in [Pods -> 1..MaxAttempts]
    /\ writes \in Nat /\ faults \in Nat

\* The public key handed to the guests belongs to the stored private key, however
\* the pods interleave and wherever one of them dies.
KeysMatch == secret # None /\ configMap # None => configMap.key = secret

\* When every pod has become ready both objects exist, and the ConfigMap carries the
\* helpers of some pod: a pod may delete the ConfigMap that another one has just
\* created, but never becomes ready without putting it back.
ReadyIsComplete ==
    (\A p \in Pods : pc[p] = "ready") =>
        /\ secret # None /\ configMap # None
        /\ \E p \in Pods : configMap.archives = Version[p]

\* Unless the Secret is unusable, all pods become ready for good once nothing fails.
ResourcesConverge == secret # Broken ~> [](\A p \in Pods : pc[p] = "ready")
=============================================================================
