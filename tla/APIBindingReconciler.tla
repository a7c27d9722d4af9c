------------------------ MODULE APIBindingReconciler ------------------------
(***************************************************************************)
(* The APIBinding reconciler of one consumer logical cluster, the          *)
(* LogicalCluster whose ResourceBindingsAnnotation (the lock map) it       *)
(* shares with its peers, the bound CRDs it materialises in the            *)
(* system:bound-crds cluster, and the environment that changes them        *)
(* (APIExport identity publication, CRD establishment, native CRD          *)
(* registration, lock expiry).                                             *)
(*                                                                         *)
(* One reconcile pass of a binding is split at the one suspension point    *)
(* whose interleaving matters: the read of the LogicalCluster (from the    *)
(* informer cache, together with the export, schema, peer bindings and     *)
(* native CRDs) and the compare-and-swap update that writes the lock.      *)
(* Every other outcome of the pass is one atomic step.  Each binding is    *)
(* reconciled serially (one key at a time); different bindings run        *)
(* concurrently.                                                           *)
(***************************************************************************)
EXTENDS Naturals, FiniteSets

CONSTANTS
    Bindings,         \* APIBindings in the consumer logical cluster
    Exports,          \* APIExports a binding may reference
    SchemaUIDs,       \* APIResourceSchema UIDs; a bound CRD is named by one
    GroupResources,   \* "<resource>.<group>" keys of the lock map
    Versions,         \* API version names
    ExportSchema,     \* [Exports -> SchemaUIDs]: the schema an export lists
    SchemaSpec,       \* [SchemaUIDs -> schema record, see SchemaRecords]
    MissingSchemas,   \* schemas an export names that do not exist
    RejectedSchemas,  \* schemas whose CRD the server rejects as Invalid
    InitialRefs,      \* export references a binding may be created with
    PreBound,         \* bindings already Bound, without a lock, and their export
    MaxFaults,        \* bound on injected transient errors
    Deletable,        \* bindings the user may delete
    NoExportRef,      \* spec.reference.export = nil
    None              \* absent lock holder / bound resource

(* An APIResourceSchema, abstracted to what generateCRD and the lock map   *)
(* look at: the (group, resource) it defines, its version names and        *)
(* storage version, whether a conversion strategy is set, and whether the  *)
(* raw JSON of its structural schema parses.                               *)
SchemaRecords ==
    [resource: GroupResources, versions: SUBSET Versions, storage: Versions,
     conversion: BOOLEAN, rawValid: BOOLEAN]

ASSUME
    /\ ExportSchema \in [Exports -> SchemaUIDs]
    /\ SchemaSpec \in [SchemaUIDs -> SchemaRecords]
    /\ MissingSchemas \subseteq SchemaUIDs
    /\ RejectedSchemas \subseteq SchemaUIDs
    /\ InitialRefs \subseteq Exports \cup {NoExportRef}
    /\ \E S \in SUBSET Bindings : PreBound \in [S -> Exports]
    /\ MaxFaults \in Nat
    /\ Deletable \subseteq Bindings

VARIABLES
    ref,            \* [Bindings -> Exports \cup {NoExportRef}]: spec.reference
    phase,          \* [Bindings -> {"", "Binding", "Bound"}]: status.phase
    conditions,     \* [Bindings -> condition record]: status.conditions
    boundResource,  \* [Bindings -> None \cup bound resource]: status.boundResources
    pc,             \* [Bindings -> {"Idle", "Claim", "Gone"}]: position in a
                    \* pass, or Gone once a deleted binding is finalized
    deleted,        \* bindings whose deletionTimestamp is set
    fresh,          \* bindings whose LogicalCluster read is still current
    lc,             \* the consumer LogicalCluster object
    crds,           \* [SchemaUIDs -> CRD state] in system:bound-crds
    storedVersions, \* [SchemaUIDs -> SUBSET Versions]: CRD status.storedVersions
    exports,        \* [Exports -> [present, identity]]
    nativeCRD,      \* [GroupResources -> BOOLEAN]: native CRD in the consumer cluster
    pendingNative,  \* native CRDs admitted (lock taken) but not yet persisted
    queued,         \* bindings whose key is in the work queue
    faults          \* transient errors injected so far

bindingVars == <<ref, phase, conditions, boundResource, pc, deleted>>
lcVars == <<lc, fresh>>
crdVars == <<crds, storedVersions>>
envVars == <<exports, nativeCRD, pendingNative>>
vars == <<bindingVars, lcVars, crdVars, envVars, queued, faults>>

-----------------------------------------------------------------------------
(* The ExpirableLock values of the ResourceBindingsAnnotation: a slot is   *)
(* free, held by an APIBinding (Lock.Name), or held by a native CRD        *)
(* (Lock.CRD) with no expiry, an expiry in the future, or one in the past. *)
Expiries == {"None", "Future", "Past"}
FreeLock == [kind |-> "Free", name |-> None, expiry |-> "None"]
BindingLock(b) == [kind |-> "Binding", name |-> b, expiry |-> "None"]
CRDLock(x) == [kind |-> "CRD", name |-> None, expiry |-> x]
Locks == {FreeLock} \cup {BindingLock(b) : b \in Bindings} \cup {CRDLock(x) : x \in Expiries}

(* Condition values: "Absent", "True", or the reason of a False condition. *)
ExportValidValues ==
    {"Absent", "True", "InvalidReference", "NotFound", "InternalError"}
InitialBindingValues ==
    {"Absent", "True", "WaitingForEstablished", "LogicalClusterNotFound",
     "NamingConflicts", "APIResourceSchemaInvalid", "InternalError"}
ReadyValues == {"Absent", "True", "False"}
Keep == "Keep"  \* leave a condition as it is

CRDStates == {"Absent", "Created", "Established"}

-----------------------------------------------------------------------------
(* generateCRD: the bound CRD of a schema is named by the schema's UID; it *)
(* fails when more than one version is listed without a conversion         *)
(* strategy, or when a version's raw schema does not parse (GetSchema).    *)
GenerateCRDFails(u) ==
    \/ Cardinality(SchemaSpec[u].versions) > 1 /\ ~SchemaSpec[u].conversion
    \/ ~SchemaSpec[u].rawValid

generateCRD(u) ==
    [name |-> u, resource |-> SchemaSpec[u].resource,
     versions |-> SchemaSpec[u].versions, storage |-> SchemaSpec[u].storage]

SchemaOf(b) == ExportSchema[ref[b]]
ResourceOf(b) == SchemaSpec[SchemaOf(b)].resource

(* The summary the reconciler derives last: Ready is True only when both   *)
(* other conditions are True and the binding is Bound.                     *)
Summary(c, ph) ==
    [c EXCEPT !.Ready =
        IF c.ExportValid = "True" /\ c.InitialBindingCompleted = "True" /\ ph = "Bound"
        THEN "True" ELSE "False"]

(* Mutant: a condition the pass should leave alone is overwritten. *)
UpdAlways(old, new) == new

Upd(old, new) == IF new = Keep THEN old ELSE new

WithConditions(c, ev, ibc) ==
    [c EXCEPT !.ExportValid = Upd(@, ev), !.InitialBindingCompleted = Upd(@, ibc)]

(* The end of a pass whose status the caller persists: conditions set, the *)
(* Ready summary derived, the phase given, and the binding back to Idle.   *)
Report(b, ev, ibc, ph) ==
    /\ conditions' = [conditions EXCEPT ![b] = Summary(WithConditions(@, ev, ibc), ph)]
    /\ phase' = [phase EXCEPT ![b] = ph]
    /\ pc' = [pc EXCEPT ![b] = "Idle"]
    /\ UNCHANGED deleted

(* The end of a pass that stops and requeues: it returns before the        *)
(* summary, so Ready keeps its previous value.                             *)
StopAndRequeue(b, ibc) ==
    /\ conditions' = [conditions EXCEPT ![b] = WithConditions(@, Keep, ibc)]
    /\ pc' = [pc EXCEPT ![b] = "Idle"]
    /\ UNCHANGED deleted
    /\ UNCHANGED phase

Fault == faults < MaxFaults /\ faults' = faults + 1

(* The end of a pass, for the work queue.  The key is added again when the *)
(* pass returned an error or asked for a requeue, or when the status the   *)
(* caller persists changed (the APIBinding watch delivers that update).    *)
(* Otherwise a pass that took the key from the queue leaves it out; an add *)
(* made while a two-step pass ran is kept.                                 *)
PassEnd(b, err) ==
    LET changed == \/ conditions'[b] # conditions[b]
                   \/ phase'[b] # phase[b]
                   \/ boundResource'[b] # boundResource[b]
    IN  queued' = IF err \/ changed THEN queued \cup {b}
                  ELSE IF pc[b] = "Idle" THEN queued \ {b} ELSE queued

(* Bindings whose key a watch on an APIExport or on a bound CRD adds. *)
WatchersOfExport(e) == {b \in Bindings : ref[b] = e}
WatchersOfCRD(u) == {b \in Bindings : ref[b] # NoExportRef /\ SchemaOf(b) = u}

-----------------------------------------------------------------------------
(* Mutant: a slot held by any APIBinding, b itself included, is a conflict. *)
LockConflictSelf(b, gr) ==
    LET l == lc.locks[gr] IN
    \/ l.kind = "Binding"
    \/ l.kind = "CRD" /\ l.expiry \in {"None", "Future"}
    \/ l.kind = "CRD" /\ l.expiry = "Past" /\ nativeCRD[gr]

(* Mutant: a slot held by another APIBinding is not a conflict. *)
LockConflictNoPeer(b, gr) ==
    LET l == lc.locks[gr] IN
    \/ l.kind = "CRD" /\ l.expiry \in {"None", "Future"}
    \/ l.kind = "CRD" /\ l.expiry = "Past" /\ nativeCRD[gr]

(* Lock-map conflicts for binding b on slot gr, in the order the           *)
(* reconciler checks them.                                                 *)
LockConflict(b, gr) ==
    LET l == lc.locks[gr] IN
    \/ l.kind = "Binding" /\ l.name # b
    \/ l.kind = "CRD" /\ l.expiry \in {"None", "Future"}
    \/ l.kind = "CRD" /\ l.expiry = "Past" /\ nativeCRD[gr]

(* Mutant: the peer check trusting the lock map, so only a peer that      *)
(* holds the slot's lock counts.                                          *)
NamingConflictLockedOnly(b) ==
    \E o \in Bindings \ {b} :
        /\ phase[o] = "Bound" /\ pc[o] # "Gone"
        /\ boundResource[o] # None
        /\ SchemaSpec[boundResource[o].schema].resource = ResourceOf(b)
        /\ boundResource[o].schema # SchemaOf(b)
        /\ lc.locks[ResourceOf(b)] = BindingLock(o)

(* A peer APIBinding already Bound to the same (group, plural) through a   *)
(* different schema UID.                                                   *)
NamingConflict(b) ==
    \E o \in Bindings \ {b} :
        /\ phase[o] = "Bound" /\ pc[o] # "Gone"
        /\ boundResource[o] # None
        /\ SchemaSpec[boundResource[o].schema].resource = ResourceOf(b)
        /\ boundResource[o].schema # SchemaOf(b)

(* The guards of the successive stages of a pass. *)
PastNew(b) == pc[b] = "Idle" /\ b \notin deleted /\ phase[b] # ""
HasRef(b) == PastNew(b) /\ ref[b] # NoExportRef
ExportResolved(b) == HasRef(b) /\ exports[ref[b]].present
IdentityKnown(b) == ExportResolved(b) /\ exports[ref[b]].identity
SchemasResolved(b) ==
    /\ IdentityKnown(b)
    /\ SchemaOf(b) \notin MissingSchemas
    /\ ~GenerateCRDFails(SchemaOf(b))
ClusterAnnotated(b) == SchemasResolved(b) /\ lc.present /\ lc.annotated

-----------------------------------------------------------------------------
(* Reconcile, first part: every outcome decided before the lock write.     *)

\* No phase yet: only the new-binding reconciler runs.
ReconcileNew(b) ==
    /\ pc[b] = "Idle" /\ b \notin deleted /\ phase[b] = ""
    /\ Report(b, Keep, Keep, "Binding")
    /\ UNCHANGED <<ref, boundResource, lcVars, crdVars, envVars, faults>>
    /\ PassEnd(b, FALSE)

ReconcileInvalidReference(b) ==
    /\ PastNew(b) /\ ref[b] = NoExportRef
    /\ Report(b, "InvalidReference", Keep, phase[b])
    /\ UNCHANGED <<ref, boundResource, lcVars, crdVars, envVars, faults>>
    /\ PassEnd(b, FALSE)

ReconcileExportNotFound(b) ==
    /\ HasRef(b) /\ ~exports[ref[b]].present
    /\ Report(b, "NotFound", Keep, phase[b])
    /\ UNCHANGED <<ref, boundResource, lcVars, crdVars, envVars, faults>>
    /\ PassEnd(b, FALSE)

\* getAPIExportByPath fails with an error other than NotFound.
ReconcileExportError(b) ==
    /\ HasRef(b) /\ Fault
    /\ Report(b, "InternalError", Keep, phase[b])
    /\ UNCHANGED <<ref, boundResource, lcVars, crdVars, envVars>>
    /\ PassEnd(b, TRUE)

\* The export has no identity hash yet: stop without error.
ReconcileNoIdentityHash(b) ==
    /\ ExportResolved(b) /\ ~exports[ref[b]].identity
    /\ Report(b, Keep, Keep, phase[b])
    /\ UNCHANGED <<ref, boundResource, lcVars, crdVars, envVars, faults>>
    /\ PassEnd(b, FALSE)

\* A schema the export names is NotFound: InternalError, but no error.
ReconcileSchemaNotFound(b) ==
    /\ IdentityKnown(b) /\ SchemaOf(b) \in MissingSchemas
    /\ Report(b, "InternalError", Keep, phase[b])
    /\ UNCHANGED <<ref, boundResource, lcVars, crdVars, envVars, faults>>
    /\ PassEnd(b, FALSE)

ReconcileSchemaError(b) ==
    /\ IdentityKnown(b) /\ Fault
    /\ Report(b, "InternalError", Keep, phase[b])
    /\ UNCHANGED <<ref, boundResource, lcVars, crdVars, envVars>>
    /\ PassEnd(b, TRUE)

\* generateCRD rejects the schema.
ReconcileSchemaInvalid(b) ==
    /\ IdentityKnown(b) /\ SchemaOf(b) \notin MissingSchemas
    /\ GenerateCRDFails(SchemaOf(b))
    /\ Report(b, "InternalError", Keep, phase[b])
    /\ UNCHANGED <<ref, boundResource, lcVars, crdVars, envVars, faults>>
    /\ PassEnd(b, FALSE)

ReconcileNoLogicalCluster(b) ==
    /\ SchemasResolved(b) /\ ~lc.present
    /\ Report(b, "True", "LogicalClusterNotFound", phase[b])
    /\ UNCHANGED <<ref, boundResource, lcVars, crdVars, envVars, faults>>
    /\ PassEnd(b, TRUE)

\* The LogicalCluster carries no ResourceBindingsAnnotation yet.
ReconcileNoAnnotation(b) ==
    /\ SchemasResolved(b) /\ lc.present /\ ~lc.annotated
    /\ Report(b, "True", "NamingConflicts", phase[b])
    /\ UNCHANGED <<ref, boundResource, lcVars, crdVars, envVars, faults>>
    /\ PassEnd(b, TRUE)

ReconcileResourceConflict(b) ==
    /\ ClusterAnnotated(b) /\ LockConflict(b, ResourceOf(b))
    /\ Report(b, "True", "NamingConflicts", phase[b])
    /\ UNCHANGED <<ref, boundResource, lcVars, crdVars, envVars, faults>>
    /\ PassEnd(b, FALSE)

ReconcileNamingConflict(b) ==
    /\ ClusterAnnotated(b) /\ ~LockConflict(b, ResourceOf(b))
    /\ NamingConflict(b)
    /\ StopAndRequeue(b, "NamingConflicts")
    /\ UNCHANGED <<ref, boundResource, lcVars, crdVars, envVars, faults>>
    /\ PassEnd(b, TRUE)

\* No conflict: the pass goes on to update the LogicalCluster it has read.
ReconcileReadLocks(b) ==
    /\ ClusterAnnotated(b) /\ ~LockConflict(b, ResourceOf(b))
    /\ ~NamingConflict(b)
    /\ pc' = [pc EXCEPT ![b] = "Claim"]
    /\ fresh' = fresh \cup {b}
    /\ queued' = queued \ {b}
    /\ UNCHANGED <<ref, phase, conditions, boundResource, deleted, lc, crdVars, envVars, faults>>

-----------------------------------------------------------------------------
(* Reconcile, second part: the compare-and-swap update of the lock map and *)
(* everything after it.                                                    *)

(* Mutant: the update ignores the resourceVersion it read (a blind write). *)
ClaimLockBlind(b) ==
    /\ pc[b] = "Claim"
    /\ lc' = [lc EXCEPT !.locks[ResourceOf(b)] = BindingLock(b)]
    /\ fresh' = {}

\* updateLogicalCluster with the resourceVersion read: the apiserver      
\* rejects it if the object changed since, and writes nothing when the    
\* content is unchanged (the resourceVersion then stays the same).
ClaimLock(b) ==
    LET gr == ResourceOf(b)
        new == [lc EXCEPT !.locks[gr] = BindingLock(b)]
    IN  /\ pc[b] = "Claim" /\ b \in fresh
        /\ lc' = new
        /\ fresh' = IF new = lc THEN fresh \ {b} ELSE {}

\* Optimistic-concurrency conflict on the update: error, no condition change.
ClaimConflict(b) ==
    /\ pc[b] = "Claim" /\ b \notin fresh
    /\ Report(b, Keep, Keep, phase[b])
    /\ UNCHANGED <<ref, boundResource, lcVars, crdVars, envVars, faults>>
    /\ PassEnd(b, TRUE)

ClaimUpdateError(b) ==
    /\ pc[b] = "Claim" /\ b \in fresh /\ Fault
    /\ Report(b, Keep, Keep, phase[b])
    /\ fresh' = fresh \ {b}
    /\ UNCHANGED <<ref, boundResource, lc, crdVars, envVars>>
    /\ PassEnd(b, TRUE)

BindGetCRDError(b) ==
    /\ ClaimLock(b) /\ Fault
    /\ Report(b, "InternalError", Keep, phase[b])
    /\ UNCHANGED <<ref, boundResource, crdVars, envVars>>
    /\ PassEnd(b, TRUE)

BindCreateCRDInvalid(b) ==
    /\ ClaimLock(b) /\ crds[SchemaOf(b)] = "Absent"
    /\ SchemaOf(b) \in RejectedSchemas
    /\ Report(b, "True", "APIResourceSchemaInvalid", phase[b])
    /\ UNCHANGED <<ref, boundResource, crdVars, envVars, faults>>
    /\ PassEnd(b, FALSE)

BindCreateCRDError(b) ==
    /\ ClaimLock(b) /\ crds[SchemaOf(b)] = "Absent"
    /\ SchemaOf(b) \notin RejectedSchemas /\ Fault
    /\ Report(b, "True", "InternalError", phase[b])
    /\ UNCHANGED <<ref, boundResource, crdVars, envVars>>
    /\ PassEnd(b, TRUE)

\* createCRD succeeds: the new CRD stores its storage version and is not  
\* established yet.
BindCreateCRD(b) ==
    LET u == SchemaOf(b) IN
    /\ ClaimLock(b) /\ crds[u] = "Absent" /\ u \notin RejectedSchemas
    /\ crds' = [crds EXCEPT ![u] = "Created"]
    /\ storedVersions' = [storedVersions EXCEPT ![u] = {generateCRD(u).storage}]
    /\ Report(b, "True", "WaitingForEstablished", phase[b])
    /\ UNCHANGED <<ref, boundResource, envVars, faults>>
    /\ PassEnd(b, FALSE)

BindWaitEstablished(b) ==
    /\ ClaimLock(b) /\ crds[SchemaOf(b)] = "Created"
    /\ Report(b, "True", "WaitingForEstablished", phase[b])
    /\ UNCHANGED <<ref, boundResource, crdVars, envVars, faults>>
    /\ PassEnd(b, FALSE)

\* Storage versions reported earlier for the resource, merged with the CRD's.
PreviousVersions(b) ==
    IF boundResource[b] = None THEN {} ELSE boundResource[b].versions

(* Mutant: a binding that already reports a bound resource keeps it as it *)
(* is, so later storage versions are never merged in.                     *)
BindEstablishedNoRefresh(b) ==
    LET u == SchemaOf(b) IN
    /\ ClaimLock(b) /\ crds[u] = "Established"
    /\ boundResource' = [boundResource EXCEPT ![b] =
            IF @ = None THEN [schema |-> u, versions |-> storedVersions[u]] ELSE @]
    /\ Report(b, "True", "True", "Bound")
    /\ UNCHANGED <<ref, crdVars, envVars, faults>>
    /\ PassEnd(b, FALSE)

BindEstablished(b) ==
    LET u == SchemaOf(b) IN
    /\ ClaimLock(b) /\ crds[u] = "Established"
    /\ boundResource' = [boundResource EXCEPT ![b] =
            [schema |-> u, versions |-> storedVersions[u] \cup PreviousVersions(b)]]
    /\ Report(b, "True", "True", "Bound")
    /\ UNCHANGED <<ref, crdVars, envVars, faults>>
    /\ PassEnd(b, FALSE)

-----------------------------------------------------------------------------
(* Deletion: the first pass that sees the deletionTimestamp releases every *)
(* lock the binding holds, through the same compare-and-swap update, and   *)
(* lets the object go.  A pass already under way finishes first: a key is  *)
(* reconciled serially.                                                    *)

FreeLocksOf(b, slots) ==
    [gr \in GroupResources |->
        IF gr \in slots /\ lc.locks[gr] = BindingLock(b) THEN FreeLock ELSE lc.locks[gr]]

ReleaseLocks(b) ==
    LET new == [lc EXCEPT !.locks = FreeLocksOf(b, GroupResources)]
    IN /\ pc[b] = "Idle" /\ b \in deleted
       /\ lc' = new
       /\ fresh' = IF new = lc THEN fresh ELSE {}
       /\ pc' = [pc EXCEPT ![b] = "Gone"]
       /\ UNCHANGED <<ref, phase, conditions, boundResource, deleted, crdVars, envVars, faults>>
       /\ PassEnd(b, FALSE)

-----------------------------------------------------------------------------
(* The environment. *)

\* The user deletes an APIBinding, at any point of a pass.
DeleteBinding(b) ==
    /\ b \in Deletable \ deleted
    /\ deleted' = deleted \cup {b}
    /\ queued' = queued \cup {b}
    /\ UNCHANGED <<ref, phase, conditions, boundResource, pc, lcVars, crdVars, envVars, faults>>

\* The producer creates an APIExport that bindings already reference.
CreateExport(e) ==
    /\ ~exports[e].present
    /\ exports' = [exports EXCEPT ![e].present = TRUE]
    /\ queued' = queued \cup WatchersOfExport(e)
    /\ UNCHANGED <<bindingVars, lcVars, crdVars, nativeCRD, pendingNative, faults>>

\* The APIExport controller sets status.identityHash when it is unset.
PublishIdentity(e) ==
    /\ exports[e].present /\ ~exports[e].identity
    /\ exports' = [exports EXCEPT ![e].identity = TRUE]
    /\ queued' = queued \cup WatchersOfExport(e)
    /\ UNCHANGED <<bindingVars, lcVars, crdVars, nativeCRD, pendingNative, faults>>

\* The LogicalCluster appears in the informer cache.
LogicalClusterSynced ==
    /\ ~lc.present
    /\ lc' = [lc EXCEPT !.present = TRUE]
    /\ UNCHANGED <<bindingVars, fresh, crdVars, envVars, queued, faults>>

\* The ResourceBindingsAnnotation is initialised (empty).
AnnotateLogicalCluster ==
    /\ lc.present /\ ~lc.annotated
    /\ lc' = [lc EXCEPT !.annotated = TRUE]
    /\ fresh' = {}
    /\ UNCHANGED <<bindingVars, crdVars, envVars, queued, faults>>

\* The apiextensions server marks a bound CRD Established.
EstablishCRD(u) ==
    /\ crds[u] = "Created"
    /\ crds' = [crds EXCEPT ![u] = "Established"]
    /\ queued' = queued \cup WatchersOfCRD(u)
    /\ UNCHANGED <<bindingVars, lcVars, storedVersions, envVars, faults>>

\* status.storedVersions changes (storage migration trims it, a storage   
\* version switch extends it) within the schema's versions.
ChangeStoredVersions(u) ==
    /\ crds[u] = "Established"
    /\ \E S \in SUBSET SchemaSpec[u].versions :
        /\ S # {} /\ S # storedVersions[u]
        /\ storedVersions' = [storedVersions EXCEPT ![u] = S]
    /\ queued' = queued \cup WatchersOfCRD(u)
    /\ UNCHANGED <<bindingVars, lcVars, crds, envVars, faults>>

\* Native CRD registration: admission takes a free slot with a CRD lock   
\* that expires, through the same compare-and-swap update.
NativeCRDAdmit(gr) ==
    /\ lc.present /\ lc.annotated
    /\ lc.locks[gr] = FreeLock
    /\ lc' = [lc EXCEPT !.locks[gr] = CRDLock("Future")]
    /\ fresh' = {}
    /\ pendingNative' = pendingNative \cup {gr}
    /\ UNCHANGED <<bindingVars, crdVars, exports, nativeCRD, queued, faults>>

\* The admitted native CRD is persisted.
NativeCRDPersist(gr) ==
    /\ gr \in pendingNative
    /\ nativeCRD' = [nativeCRD EXCEPT ![gr] = TRUE]
    /\ pendingNative' = pendingNative \ {gr}
    /\ UNCHANGED <<bindingVars, lcVars, crdVars, exports, queued, faults>>

\* The admitted native CRD is never persisted (its create failed).
NativeCRDAbandon(gr) ==
    /\ gr \in pendingNative
    /\ pendingNative' = pendingNative \ {gr}
    /\ UNCHANGED <<bindingVars, lcVars, crdVars, exports, nativeCRD, queued, faults>>

\* Time passes the expiry of a CRD lock; the object does not change.
ExpireCRDLock(gr) ==
    /\ lc.locks[gr] = CRDLock("Future")
    /\ lc' = [lc EXCEPT !.locks[gr] = CRDLock("Past")]
    /\ UNCHANGED <<bindingVars, fresh, crdVars, envVars, queued, faults>>

-----------------------------------------------------------------------------
(* Initial states: bindings just created, bound CRDs absent, and a         *)
(* LogicalCluster whose slots are free, held by an established native CRD, *)
(* or held by an expired CRD lock whose CRD may or may not exist.          *)
InitSlots ==
    {[lock |-> FreeLock, native |-> FALSE],
     [lock |-> CRDLock("None"), native |-> TRUE],
     [lock |-> CRDLock("Past"), native |-> TRUE],
     [lock |-> CRDLock("Past"), native |-> FALSE]}

(* A binding in PreBound starts Bound to its export's schema, with its    *)
(* CRD established, but holds no lock: it was bound before the lock map   *)
(* recorded it.  Every other binding is just created.                      *)
PreSchemas == {ExportSchema[PreBound[b]] : b \in DOMAIN PreBound}

Init ==
    /\ ref \in [Bindings -> InitialRefs]
    /\ \A b \in DOMAIN PreBound : ref[b] = PreBound[b]
    /\ phase = [b \in Bindings |-> IF b \in DOMAIN PreBound THEN "Bound" ELSE ""]
    /\ conditions = [b \in Bindings |->
          IF b \in DOMAIN PreBound
          THEN [ExportValid |-> "True", InitialBindingCompleted |-> "True", Ready |-> "True"]
          ELSE [ExportValid |-> "Absent", InitialBindingCompleted |-> "Absent", Ready |-> "Absent"]]
    /\ boundResource = [b \in Bindings |->
          IF b \in DOMAIN PreBound
          THEN [schema |-> SchemaOf(b), versions |-> {SchemaSpec[SchemaOf(b)].storage}]
          ELSE None]
    /\ pc = [b \in Bindings |-> "Idle"]
    /\ deleted = {}
    /\ fresh = {}
    /\ \E present, annotated \in BOOLEAN, slots \in [GroupResources -> InitSlots] :
        /\ annotated \/ \A gr \in GroupResources : slots[gr].lock = FreeLock
        /\ lc = [present |-> present, annotated |-> annotated,
                 locks |-> [gr \in GroupResources |-> slots[gr].lock]]
        /\ nativeCRD = [gr \in GroupResources |-> slots[gr].native]
    /\ crds = [u \in SchemaUIDs |-> IF u \in PreSchemas THEN "Established" ELSE "Absent"]
    /\ storedVersions = [u \in SchemaUIDs |->
          IF u \in PreSchemas THEN {SchemaSpec[u].storage} ELSE {}]
    /\ exports \in [Exports -> [present: BOOLEAN, identity: BOOLEAN]]
    /\ \A e \in Exports : exports[e].identity => exports[e].present
    /\ \A b \in DOMAIN PreBound : exports[PreBound[b]].identity
    /\ pendingNative = {}
    /\ queued = Bindings
    /\ faults = 0

Reconcile(b) ==
    \/ ReconcileNew(b)
    \/ ReconcileInvalidReference(b)
    \/ ReconcileExportNotFound(b)
    \/ ReconcileExportError(b)
    \/ ReconcileNoIdentityHash(b)
    \/ ReconcileSchemaNotFound(b)
    \/ ReconcileSchemaError(b)
    \/ ReconcileSchemaInvalid(b)
    \/ ReconcileNoLogicalCluster(b)
    \/ ReconcileNoAnnotation(b)
    \/ ReconcileResourceConflict(b)
    \/ ReconcileNamingConflict(b)
    \/ ReconcileReadLocks(b)
    \/ ClaimConflict(b)
    \/ ClaimUpdateError(b)
    \/ BindGetCRDError(b)
    \/ BindCreateCRDInvalid(b)
    \/ BindCreateCRDError(b)
    \/ BindCreateCRD(b)
    \/ BindWaitEstablished(b)
    \/ BindEstablished(b)
    \/ ReleaseLocks(b)

Environment ==
    \/ \E b \in Bindings : DeleteBinding(b)
    \/ \E e \in Exports : CreateExport(e) \/ PublishIdentity(e)
    \/ LogicalClusterSynced
    \/ AnnotateLogicalCluster
    \/ \E u \in SchemaUIDs : EstablishCRD(u) \/ ChangeStoredVersions(u)
    \/ \E gr \in GroupResources :
        \/ NativeCRDAdmit(gr) \/ NativeCRDPersist(gr)
        \/ NativeCRDAbandon(gr) \/ ExpireCRDLock(gr)

Next == (\E b \in Bindings : Reconcile(b)) \/ Environment

Spec == Init /\ [][Next]_vars

(* A binding's key is taken from the work queue: the worker eventually     *)
(* runs the pass of a queued key, and finishes a pass it started.  A       *)
(* binding not in the queue may still run (a resync, or a watch this model *)
(* does not know of), but nothing makes it.  The apiextensions server      *)
(* eventually establishes a CRD it accepted.  Nothing is assumed of        *)
(* producers, users, the native-CRD peer or the clock.                     *)
Scheduled(b) == b \in queued \/ pc[b] = "Claim"

Fairness ==
    /\ \A b \in Bindings : WF_vars(Scheduled(b) /\ Reconcile(b))
    /\ \A u \in SchemaUIDs : WF_vars(EstablishCRD(u))

FairSpec == Spec /\ Fairness


-----------------------------------------------------------------------------
(* Properties. *)

TypeOK ==
    /\ ref \in [Bindings -> Exports \cup {NoExportRef}]
    /\ phase \in [Bindings -> {"", "Binding", "Bound"}]
    /\ conditions \in [Bindings -> [ExportValid: ExportValidValues,
                                    InitialBindingCompleted: InitialBindingValues,
                                    Ready: ReadyValues]]
    /\ boundResource \in [Bindings ->
          {None} \cup [schema: SchemaUIDs, versions: SUBSET Versions]]
    /\ pc \in [Bindings -> {"Idle", "Claim", "Gone"}]
    /\ deleted \subseteq Bindings
    /\ fresh \subseteq Bindings
    /\ lc \in [present: BOOLEAN, annotated: BOOLEAN, locks: [GroupResources -> Locks]]
    /\ crds \in [SchemaUIDs -> CRDStates]
    /\ storedVersions \in [SchemaUIDs -> SUBSET Versions]
    /\ exports \in [Exports -> [present: BOOLEAN, identity: BOOLEAN]]
    /\ nativeCRD \in [GroupResources -> BOOLEAN]
    /\ pendingNative \subseteq GroupResources
    /\ queued \subseteq Bindings
    /\ faults \in 0..MaxFaults

\* A binding that exists and is Bound.
Serving(b) == phase[b] = "Bound" /\ pc[b] # "Gone"

\* The (group, resource) a Bound binding serves.
BoundSlot(b) == SchemaSpec[boundResource[b].schema].resource

(* Lock exclusivity as the consumer sees it: two APIBindings reconciled    *)
(* concurrently, each reading the lock map and then updating it, never     *)
(* both end Bound to the same (group, resource).                           *)
BoundExclusive ==
    \A b1, b2 \in Bindings :
        (b1 # b2 /\ Serving(b1) /\ Serving(b2))
            => BoundSlot(b1) # BoundSlot(b2)

(* Bindings Bound before the lock map existed hold no lock, so only the    *)
(* peer check keeps a second binding off their resource: two bindings     *)
(* serving the same (group, resource) serve it through the same schema,   *)
(* whether or not either holds the lock.                                  *)
ServedSlotsAgree ==
    \A b1, b2 \in Bindings :
        (Serving(b1) /\ Serving(b2) /\ BoundSlot(b1) = BoundSlot(b2))
            => boundResource[b1].schema = boundResource[b2].schema

(* A Bound APIBinding still holds the lock of the resource it serves: no   *)
(* peer binding and no native CRD registration has overwritten it.         *)
BoundHoldsLock ==
    \A b \in Bindings :
        Serving(b) => lc.locks[BoundSlot(b)] = BindingLock(b)

(* No native CRD exists in the consumer cluster for a (group, resource)    *)
(* that a Bound APIBinding serves (the reclaim of an expired CRD lock      *)
(* must not hand out a slot whose CRD is still coming).                    *)
NoNativeOverlap ==
    \A b \in Bindings : Serving(b) => ~nativeCRD[BoundSlot(b)]

(* The spec (step 4): a LogicalCluster without the annotation has no       *)
(* claims yet, so a pass reports NamingConflicts only when a lock or a     *)
(* peer binding really conflicts.                                          *)
ConflictOnlyWhenClaimed ==
    [][\A b \in Bindings :
          (/\ conditions'[b].InitialBindingCompleted = "NamingConflicts"
           /\ conditions[b].InitialBindingCompleted # "NamingConflicts")
              => LockConflict(b, ResourceOf(b)) \/ NamingConflict(b)]_vars

(* The slot of b is open to it: free, already b's, or held by an expired  *)
(* CRD lock whose native CRD does not exist.                               *)
SlotOpen(b) ==
    LET l == lc.locks[ResourceOf(b)] IN
    \/ l = FreeLock
    \/ l = BindingLock(b)
    \/ l = CRDLock("Past") /\ ~nativeCRD[ResourceOf(b)]

(* Everything b needs is there and valid, and nothing stands in its way.   *)
Eligible(b) ==
    /\ b \notin deleted
    /\ ref[b] # NoExportRef
    /\ exports[ref[b]].present /\ exports[ref[b]].identity
    /\ SchemaOf(b) \notin MissingSchemas \cup RejectedSchemas
    /\ ~GenerateCRDFails(SchemaOf(b))
    /\ lc.present /\ lc.annotated
    /\ SlotOpen(b)
    /\ ~NamingConflict(b)

(* Progress: a queued binding whose export, schema and LogicalCluster are  *)
(* ready and whose slot is open is eventually Bound, unless a peer takes   *)
(* the slot first; repeated passes, compare-and-swap conflicts, transient  *)
(* errors and a CRD that is established only later do not keep it from    *)
(* binding (the CRD and status watches bring the key back).                *)
EventuallyBound ==
    \A b \in Bindings :
        (Eligible(b) /\ Scheduled(b)) ~> (phase[b] = "Bound" \/ ~Eligible(b))

(* Storage versions reach the binding: a version that the bound CRD has   *)
(* stored (a storage version switch adds one to status.storedVersions      *)
(* after the binding is Bound) and keeps stored is eventually reported in  *)
(* the binding's bound resource, unless the binding goes: the CRD watch    *)
(* brings the key back, and the next pass merges the CRD's versions with   *)
(* those already reported.                                                  *)
StorageVersionsReported ==
    \A b \in Bindings, v \in Versions :
        LET stored == v \in storedVersions[boundResource[b].schema] IN
        (Serving(b) /\ stored)
            ~> (~Serving(b) \/ ~stored \/ v \in boundResource[b].versions)
=============================================================================
