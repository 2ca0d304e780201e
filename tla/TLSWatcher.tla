----------------------------- MODULE TLSWatcher -----------------------------
(***************************************************************************)
(* The TLS policy of the metrics server                                    *)
(* (pkg/resources/utils/tls_watcher.go and its use in cmd/main.go).        *)
(*                                                                         *)
(* Every pod, leading or not, asks the watcher for a policy at every TLS   *)
(* handshake, from the moment its server listens, which is before its      *)
(* cache has synced.  Composed with OperatorStatus: the policy is read     *)
(* from the same objects through the same caches.                          *)
(***************************************************************************)
EXTENDS OperatorStatus

VARIABLES
    ready,      \* ready[p]: the watcher has seen the cache sync
    client,     \* the pod of the latest handshake, or None
    served      \* what that handshake was given

tlsVars == <<ready, client, served>>
vars == <<statusVars, tlsVars>>

----------------------------------------------------------------------------
(***************************************************************************)
(* Policies.  Cipher suites are grouped by what the code tells apart: Go   *)
(* has none of the DHE suites, and of those with AES-256 in CBC mode only  *)
(* the ones with SHA-1.  A policy without suites leaves them to Go.        *)
(***************************************************************************)

CipherNames == {"TLS13", "GCM", "CBC", "CBC256-SHA2", "DHE"}

KnownCiphers == {"TLS13", "GCM", "CBC"}

TLSVersions == {"VersionTLS10", "VersionTLS11", "VersionTLS12", "VersionTLS13"}

TLSProfiles ==
    [Old          |-> [ciphers |-> CipherNames, min |-> "VersionTLS10"],
     Intermediate |-> [ciphers |-> {"TLS13", "GCM", "DHE"}, min |-> "VersionTLS12"],
     Modern       |-> [ciphers |-> {"TLS13"}, min |-> "VersionTLS13"]]

\* selectCipherSuitesAndMinTLSVersion: a custom profile goes before the type; an
\* unknown type, and no profile, is Intermediate.
Selected(profile) ==
    IF profile = None THEN TLSProfiles.Intermediate
    ELSE IF profile.custom # None THEN profile.custom
    ELSE IF profile.type \in DOMAIN TLSProfiles THEN TLSProfiles[profile.type]
    ELSE TLSProfiles.Intermediate

\* cryptoConfigFromSpec: unknown suites are left out, an unknown version is 1.2.
CryptoConfig(profile) ==
    [ciphers |-> Selected(profile).ciphers \cap KnownCiphers,
     min |-> IF Selected(profile).min \in TLSVersions THEN Selected(profile).min
             ELSE "VersionTLS12"]

\* What a handshake is given: a policy, and the object it comes from.
Answer(o, c) == [from |-> o, uid |-> c.uid, generation |-> c.generation,
                 policy |-> CryptoConfig(c.profile)]

DefaultAnswer == [from |-> None, uid |-> 0, generation |-> 0, policy |-> CryptoConfig(None)]

\* Mutant: only an object that the controller has observed counts.
ObservedOnly(p) ==
    LET listed == {o \in Objects : cache[p][o].exists
                                    /\ cache[p][o].observed = cache[p][o].generation}
    IN IF ~ready[p] \/ listed = {} THEN {DefaultAnswer}
       ELSE {Answer(o, cache[p][o]) : o \in listed}

\* Mutant: the answer of the first handshake is kept.
FirstAnswerKept(p) ==
    LET listed == {o \in Objects : cache[p][o].exists}
    IN IF ~ready[p] \/ listed = {} THEN {DefaultAnswer}
       ELSE IF client = p /\ served.from # None THEN {served}
       ELSE {Answer(o, cache[p][o]) : o \in listed}

\* GetTLSConfig: the default until the watcher is ready and while there is no
\* object; else the first object of the list, which has no fixed order.
GetTLSConfig(p) ==
    LET listed == {o \in Objects : cache[p][o].exists}
    IN IF ~ready[p] \/ listed = {} THEN {DefaultAnswer}
       ELSE {Answer(o, cache[p][o]) : o \in listed}

\* The watcher's Start, after WaitForCacheSync.
WatcherReady(p) ==
    /\ pod[p] \in {"standby", "leading"} /\ ~ready[p]
    /\ ready' = [ready EXCEPT ![p] = TRUE]
    /\ UNCHANGED <<statusVars, client, served>>

\* cryptoPolicyOpt: a client connects to a pod.
Handshake(p) ==
    /\ pod[p] # "down"
    /\ client' = p
    /\ served' \in GetTLSConfig(p)
    /\ UNCHANGED <<statusVars, ready>>

\* A new process has a new watcher; its clients are forgotten.
TLSUnchanged ==
    /\ ready' = [p \in Pods |-> ready[p] /\ pod'[p] # "down"]
    /\ IF client # None /\ pod'[client] = "down"
       THEN client' = None /\ served' = DefaultAnswer
       ELSE UNCHANGED <<client, served>>

----------------------------------------------------------------------------
Init ==
    /\ StatusInit
    /\ ready = [p \in Pods |-> FALSE]
    /\ client = None /\ served = DefaultAnswer

Next ==
    \/ StatusNext /\ TLSUnchanged
    \/ \E p \in Pods : WatcherReady(p) \/ Handshake(p)

Spec == Init /\ [][Next]_vars

\* The kubelet starts a pod again, informers and the controller go on, and the
\* lease is taken.  Nothing is assumed of users, clients and faults.
FairSpec ==
    /\ Spec
    /\ \A p \in Pods :
          /\ WF_vars(Start(p) /\ TLSUnchanged)
          /\ WF_vars(CacheSynced(p) /\ TLSUnchanged)
          /\ WF_vars(Lead(p) /\ TLSUnchanged)
          /\ WF_vars(Exit(p) /\ TLSUnchanged)
          /\ WF_vars(UpdateStatus(p) /\ TLSUnchanged)
          /\ WF_vars(WatcherReady(p))
          /\ \A o \in Objects : /\ WF_vars(Sync(p, o) /\ TLSUnchanged)
                                /\ WF_vars(Reconcile(p, o) /\ TLSUnchanged)

----------------------------------------------------------------------------
\* A pod that has served the policy of an object never falls back to an older one of
\* that object, nor to the default while the object exists: a hardened server does
\* not become weaker again between two handshakes (GetTLSConfig and its cache).
PolicyNeverGoesBack ==
    [][LET o == served.from
       IN o # None /\ client # None /\ client' = client =>
             /\ served'.from = o /\ served'.uid = served.uid
                    => served'.generation >= served.generation
             /\ served'.from = None
                    => ~cr[o].exists \/ cr[o].uid # served.uid]_vars

\* Once users and pods leave it alone, every pod, leading or not, gives every
\* client the policy of an existing object as it is stored, or the default when
\* there is none (the watcher runs without leader election).
PolicyFollowsSpec ==
    <>[](\A p \in Pods :
            /\ pod[p] # "down"
            /\ \A answer \in GetTLSConfig(p) :
                  IF \E o \in Objects : cr[o].exists
                  THEN \E o \in Objects : cr[o].exists /\ answer = Answer(o, cr[o])
                  ELSE answer = DefaultAnswer)
=============================================================================
