---------------------------- MODULE IdentityCache ----------------------------
(***************************************************************************)
(* The identity-cache reconciler: it publishes, in one ConfigMap of the    *)
(* system shard, the identity hash of every APIExport of the global        *)
(* cluster that has one.                                                   *)
(*                                                                         *)
(* A pass lists the exports from the informer cache, builds the desired    *)
(* data, reads the ConfigMap from its lister and then creates it, leaves   *)
(* it alone when equal, or updates it.  The pass is split at the one       *)
(* suspension point that matters: between the list and the write, exports  *)
(* change and informer events arrive.  The single work-queue key is        *)
(* processed serially; an Add while the key is being processed is kept and *)
(* the key runs again after the pass (client-go workqueue semantics).      *)
(*                                                                         *)
(* The hashes the cache publishes are produced by the APIExport identity   *)
(* controller: it makes sure each export references an identity secret     *)
(* (creating the default one when there is none), publishes the sha256 of  *)
(* the secret's key as status.identityHash, and afterwards only verifies   *)
(* it, reporting the IdentityValid condition.                              *)
(***************************************************************************)
EXTENDS Naturals

CONSTANTS
    Exports,      \* APIExport names in the global cluster
    Hashes,       \* identity hashes (a recreated export gets a new one)
    NoExport,     \* the export does not exist
    NoHash,       \* the export exists, status.identityHash unset
    Keys,         \* identity keys an identity secret can hold
    NoSecret,     \* the referenced identity secret does not exist
    HashOf(_),    \* sha256 of a key, hex encoded: injective on Keys
    MaxChanges,   \* bound on export and secret changes by producers
    MaxFaults     \* bound on transient create/update errors

ASSUME \A k \in Keys : HashOf(k) \in Hashes

(* The reasons of the APIExportIdentityValid condition, "True" when valid. *)
IdentityConditions == {"Unknown", "True", "IdentityGenerationFailed",
                       "IdentityVerificationFailed"}

ExportStates == {NoExport, NoHash} \cup Hashes

(* ConfigMap data: export name -> hash, NoHash for a name not in it. *)
Data == [Exports -> Hashes \cup {NoHash}]

VARIABLES
    exports,    \* [Exports -> ExportStates]: the exports on the server
    informer,   \* [Exports -> ExportStates]: the APIExport informer's view
    cm,         \* [present, data]: the identity ConfigMap on the server
    cmLister,   \* [present, data]: the ConfigMap informer's view
    queued,     \* the work-queue key is waiting (or re-added while running)
    pc,         \* "Idle" or "Listed": position in a pass
    desired,    \* the data the running pass built from its list
    secret,     \* [Exports -> Keys \cup {NoSecret}]: the identity secret's key
    secretRef,  \* [Exports -> BOOLEAN]: spec.identity.secretRef is set
    identityValid, \* [Exports -> IdentityConditions]
    changes, faults

identityVars == <<secret, secretRef, identityValid>>

vars == <<exports, informer, cm, cmLister, queued, pc, desired, identityVars,
          changes, faults>>

-----------------------------------------------------------------------------
(* Mutant: every export's status copied, also of exports without a hash. *)
DesiredDataAll(view) == view

(* Exports without an identity hash are omitted. *)
DesiredData(view) == [e \in Exports |-> IF view[e] \in Hashes THEN view[e] ELSE NoHash]

(* The end of a pass: the key is processed again if it was added while the *)
(* pass ran, or if the pass failed (AddRateLimited).                        *)
(* Mutant: Done forgets an Add that arrived while the pass ran. *)
DoneForgets(requeue) ==
    /\ pc' = "Idle"
    /\ queued' = requeue

Done(requeue) ==
    /\ pc' = "Idle"
    /\ queued' = (queued \/ requeue)

Fault == faults < MaxFaults /\ faults' = faults + 1

-----------------------------------------------------------------------------
(* The reconciler. *)

\* listGlobalAPIExports from the informer cache; the desired data is built.
ListExports ==
    /\ pc = "Idle" /\ queued
    /\ queued' = FALSE
    /\ pc' = "Listed"
    /\ desired' = DesiredData(informer)
    /\ UNCHANGED <<exports, informer, cm, cmLister, identityVars, changes, faults>>

\* getConfigMap answers NotFound: createConfigMap.
CreateConfigMap ==
    /\ pc = "Listed" /\ ~cmLister.present /\ ~cm.present
    /\ cm' = [present |-> TRUE, data |-> desired]
    /\ Done(FALSE)
    /\ UNCHANGED <<exports, informer, cmLister, desired, identityVars, changes, faults>>

\* The lister has not seen the ConfigMap a previous pass created.
CreateAlreadyExists ==
    /\ pc = "Listed" /\ ~cmLister.present /\ cm.present
    /\ Done(TRUE)
    /\ UNCHANGED <<exports, informer, cm, cmLister, desired, identityVars, changes, faults>>

\* Present and equal: no call.
ConfigMapUnchanged ==
    /\ pc = "Listed" /\ cmLister.present /\ cmLister.data = desired
    /\ Done(FALSE)
    /\ UNCHANGED <<exports, informer, cm, cmLister, desired, identityVars, changes, faults>>

\* Present and unequal: updateConfigMap with the resourceVersion read.
UpdateConfigMap ==
    /\ pc = "Listed" /\ cmLister.present /\ cmLister.data # desired
    /\ cmLister = cm
    /\ cm' = [cm EXCEPT !.data = desired]
    /\ Done(FALSE)
    /\ UNCHANGED <<exports, informer, cmLister, desired, identityVars, changes, faults>>

\* The lister's copy is older than the server's: Conflict.
UpdateConflict ==
    /\ pc = "Listed" /\ cmLister.present /\ cmLister.data # desired
    /\ cmLister # cm
    /\ Done(TRUE)
    /\ UNCHANGED <<exports, informer, cm, cmLister, desired, identityVars, changes, faults>>

\* A create or update fails for another reason.
WriteError ==
    /\ pc = "Listed" /\ (~cmLister.present \/ cmLister.data # desired)
    /\ Fault
    /\ Done(TRUE)
    /\ UNCHANGED <<exports, informer, cm, cmLister, desired, identityVars, changes>>

Reconcile ==
    \/ ListExports
    \/ CreateConfigMap \/ CreateAlreadyExists \/ ConfigMapUnchanged
    \/ UpdateConfigMap \/ UpdateConflict \/ WriteError

-----------------------------------------------------------------------------
(* Producers: users creating and deleting exports and identity secrets. *)

Change(e, s) ==
    /\ changes < MaxChanges
    /\ exports' = [exports EXCEPT ![e] = s]
    /\ changes' = changes + 1
    /\ UNCHANGED <<informer, cm, cmLister, queued, pc, desired, faults>>

\* A new export has no identity reference and no condition.
CreateExport(e) ==
    /\ exports[e] = NoExport
    /\ Change(e, NoHash)
    /\ UNCHANGED identityVars

\* Deleting an export leaves its identity secret or garbage-collects it.
DeleteExport(e) ==
    /\ exports[e] # NoExport
    /\ Change(e, NoExport)
    /\ secret' \in {secret, [secret EXCEPT ![e] = NoSecret]}
    /\ secretRef' = [secretRef EXCEPT ![e] = FALSE]
    /\ identityValid' = [identityValid EXCEPT ![e] = "Unknown"]

\* A user replaces the key of an identity secret, or deletes the secret.
SecretChange(e, k) ==
    /\ secret[e] # k
    /\ changes < MaxChanges
    /\ secret' = [secret EXCEPT ![e] = k]
    /\ changes' = changes + 1
    /\ UNCHANGED <<exports, informer, cm, cmLister, queued, pc, desired,
                   secretRef, identityValid, faults>>

-----------------------------------------------------------------------------
(* The APIExport identity controller, one reconcile of export e.          *)

SetCondition(e, c) == identityValid' = [identityValid EXCEPT ![e] = c]

IdentityStep(e) ==
    /\ exports[e] # NoExport
    /\ UNCHANGED <<informer, cm, cmLister, queued, pc, desired, changes>>

\* No secretRef, the default secret exists: the reference is set to it.
SetDefaultRef(e) ==
    /\ IdentityStep(e) /\ ~secretRef[e] /\ secret[e] # NoSecret
    /\ secretRef' = [secretRef EXCEPT ![e] = TRUE]
    /\ UNCHANGED <<exports, secret, identityValid, faults>>

\* No secretRef, no default secret: one with a fresh key is created and
\* referenced.
CreateIdentitySecret(e) ==
    /\ IdentityStep(e) /\ ~secretRef[e] /\ secret[e] = NoSecret
    /\ \E k \in Keys : secret' = [secret EXCEPT ![e] = k]
    /\ secretRef' = [secretRef EXCEPT ![e] = TRUE]
    /\ UNCHANGED <<exports, identityValid, faults>>

\* createSecret fails: IdentityGenerationFailed and the error requeues.
CreateIdentitySecretError(e) ==
    /\ IdentityStep(e) /\ ~secretRef[e] /\ secret[e] = NoSecret
    /\ Fault
    /\ SetCondition(e, "IdentityGenerationFailed")
    /\ UNCHANGED <<exports, secret, secretRef>>

\* The referenced secret is missing.
VerifySecretMissing(e) ==
    /\ IdentityStep(e) /\ secretRef[e] /\ secret[e] = NoSecret
    /\ SetCondition(e, "IdentityVerificationFailed")
    /\ UNCHANGED <<exports, secret, secretRef, faults>>

\* status.identityHash is unset: the hash of the key is published.
PublishIdentityHash(e) ==
    /\ IdentityStep(e) /\ secretRef[e] /\ secret[e] \in Keys
    /\ exports[e] = NoHash
    /\ exports' = [exports EXCEPT ![e] = HashOf(secret[e])]
    /\ SetCondition(e, "True")
    /\ UNCHANGED <<secret, secretRef, faults>>

\* A published hash differs from the key's: verification fails and the
\* published hash is kept.
VerifyMismatch(e) ==
    /\ IdentityStep(e) /\ secretRef[e] /\ secret[e] \in Keys
    /\ exports[e] \in Hashes \ {HashOf(secret[e])}
    /\ SetCondition(e, "IdentityVerificationFailed")
    /\ UNCHANGED <<exports, secret, secretRef, faults>>

(* Mutant: a matching hash leaves an earlier failure in place. *)
VerifyMatchKeepsFailure(e) ==
    /\ IdentityStep(e) /\ secretRef[e] /\ secret[e] \in Keys
    /\ exports[e] = HashOf(secret[e])
    /\ UNCHANGED <<exports, identityVars, faults>>

\* The published hash is the key's: the identity is valid again.
VerifyMatch(e) ==
    /\ IdentityStep(e) /\ secretRef[e] /\ secret[e] \in Keys
    /\ exports[e] = HashOf(secret[e])
    /\ SetCondition(e, "True")
    /\ UNCHANGED <<exports, secret, secretRef, faults>>

ReconcileIdentity(e) ==
    \/ SetDefaultRef(e) \/ CreateIdentitySecret(e) \/ CreateIdentitySecretError(e)
    \/ VerifySecretMissing(e) \/ PublishIdentityHash(e)
    \/ VerifyMismatch(e) \/ VerifyMatch(e)

-----------------------------------------------------------------------------
(* Informers. *)

\* The APIExport informer delivers the export's latest state and the event
\* handler adds the key.
ExportEvent(e) ==
    /\ informer[e] # exports[e]
    /\ informer' = [informer EXCEPT ![e] = exports[e]]
    /\ queued' = TRUE
    /\ UNCHANGED <<exports, cm, cmLister, pc, desired, identityVars, changes, faults>>

\* The ConfigMap informer delivers the ConfigMap and the key is added.
ConfigMapEvent ==
    /\ cmLister # cm
    /\ cmLister' = cm
    /\ queued' = TRUE
    /\ UNCHANGED <<exports, informer, cm, pc, desired, identityVars, changes, faults>>

-----------------------------------------------------------------------------
(* Any exports, seen by the informer, and the ConfigMap absent or holding *)
(* any data, seen by its lister; the initial list queues the key.  Any     *)
(* identity secrets; an export with a published hash references its       *)
(* secret, whose key may have been replaced since.                         *)
Init ==
    /\ exports \in [Exports -> ExportStates]
    /\ informer = exports
    /\ cm \in {[present |-> FALSE, data |-> [e \in Exports |-> NoHash]]}
              \cup [present: {TRUE}, data: Data]
    /\ cmLister = cm
    /\ queued = TRUE
    /\ pc = "Idle"
    /\ desired = [e \in Exports |-> NoHash]
    /\ secret \in [Exports -> Keys \cup {NoSecret}]
    /\ secretRef \in {r \in [Exports -> BOOLEAN] :
                        \A e \in Exports : (exports[e] = NoExport => ~r[e])
                                      /\ (exports[e] \in Hashes => r[e])}
    /\ identityValid = [e \in Exports |-> "Unknown"]
    /\ changes = 0
    /\ faults = 0

Next ==
    \/ Reconcile
    \/ \E e \in Exports :
        \/ CreateExport(e) \/ DeleteExport(e) \/ ExportEvent(e)
        \/ \E k \in Keys \cup {NoSecret} : SecretChange(e, k)
        \/ ReconcileIdentity(e)
    \/ ConfigMapEvent

Spec == Init /\ [][Next]_vars

(* The worker runs whenever the key is queued, and informers deliver every *)
(* change; the APIExport controller reconciles every export (its errors    *)
(* requeue, its informers deliver export and secret events); nothing is    *)
(* assumed of producers.                                                   *)
Fairness ==
    /\ WF_vars(Reconcile)
    /\ \A e \in Exports : WF_vars(ReconcileIdentity(e))
    /\ \A e \in Exports : WF_vars(ExportEvent(e))
    /\ WF_vars(ConfigMapEvent)

FairSpec == Spec /\ Fairness

-----------------------------------------------------------------------------
TypeOK ==
    /\ exports \in [Exports -> ExportStates]
    /\ informer \in [Exports -> ExportStates]
    /\ cm \in [present: BOOLEAN, data: Data]
    /\ cmLister \in [present: BOOLEAN, data: Data]
    /\ queued \in BOOLEAN
    /\ pc \in {"Idle", "Listed"}
    /\ desired \in Data
    /\ secret \in [Exports -> Keys \cup {NoSecret}]
    /\ secretRef \in [Exports -> BOOLEAN]
    /\ identityValid \in [Exports -> IdentityConditions]
    /\ changes \in 0..MaxChanges
    /\ faults \in 0..MaxFaults

(* Convergence (spec, property 6): once producers stop changing exports,  *)
(* the ConfigMap comes to hold exactly the identity hash of every export   *)
(* that has one, and keeps it, however the changes interleaved with a pass *)
(* between its list and its write and however stale the listers were.     *)
Converges ==
    <>[](cm.present /\ cm.data = DesiredData(exports))

(* The identity condition settles on the truth: once users stop changing  *)
(* exports and secrets, every export references a secret and reports      *)
(* IdentityValid exactly when its published hash is the hash of that       *)
(* secret's key, also when an earlier verification failed (the controller  *)
(* test's scenario of returning to the secret with the correct key) and   *)
(* after a failed secret creation.                                         *)
IdentitySettles ==
    <>[](\A e \in Exports : exports[e] # NoExport =>
            /\ secretRef[e]
            /\ (identityValid[e] = "True"
                   <=> secret[e] \in Keys /\ exports[e] = HashOf(secret[e])))

====
