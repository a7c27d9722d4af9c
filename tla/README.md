# TLA+ models of the kcp APIBinding machinery

This directory holds TLA+ models of the parts of kcp that bind an exported API
into a consumer logical cluster. It also holds the TLC configurations that
check them. Definitions are translated from the repository's sources under
`src/`. In this snapshot, the APIBinding reconciler is present through its
unit test (`apibinding_reconcile_test.go`), which pins each outcome of
`reconcile`. The native-CRD peer that shares the lock map is not under `src/`.
It is modelled from `spec.md` and marked `spec_modelled` in `PROJECT.json`.

## The system (inventory)

| Part | Source | What it does | Status |
|---|---|---|---|
| APIBinding reconciler | `pkg/reconciler/apis/apibinding/apibinding_reconcile_test.go` | Resolves export, identity and schema; reads the LogicalCluster lock map; checks lock and peer-binding conflicts; claims the lock by compare-and-swap; gets, creates and waits for the bound CRD; emits bound resources with merged storage versions; sets phase and conditions. | partly modelled |
| LogicalCluster lock map (`ResourceBindingsAnnotation`) | same test, lines 279-330, 1236-1254 | `<resource>.<group>` maps to `ExpirableLock`, held by a binding or by a CRD (no expiry, future or past expiry). Its compare-and-swap update is not under `src/` and is modelled from the spec. | partly modelled |
| Native-CRD peer | spec §3, §4.1 step 5 | Registers native CRDs by taking a CRD lock with an expiry. | spec_modelled |
| Bound CRDs | test lines 338-497, 800-1110 | Named by schema UID in `system:bound-crds`; created, then Established; `status.storedVersions`. | partly |
| APIResourceSchema types | `sdk/apis/apis/v1alpha1/types_apiresourceschema.go` | Validation markers, CEL rules and defaults of APIResourceSchema and APIConversion; immutability and deletion protection. | partly modelled (`APIResourceSchemas.tla`) |
| APIExport identity controller | `pkg/reconciler/apis/apiexport/apiexport_controller_test.go` | Creates the identity secret and sets `status.identityHash`, then verifies it (`IdentityValid`). | partly (identity reconcile in `IdentityCache.tla`; endpoint slices and URLs not modelled) |
| Identity cache | `pkg/reconciler/apis/identitycache/api_export_identity_reconcile_test.go`, spec §4.3 | Writes the export-to-identity configmap: create, no-op or update. | modelled (`IdentityCache.tla`; the controller itself is spec_modelled) |
| Reserved-groups admission | `pkg/admission/reservedcrdgroups/admission_test.go` | Rejects CRDs of reserved groups outside the system CRD cluster. | not modelled (see below) |
| Fake clientset (typed fakes) | `sdk/client/clientset/versioned/typed/{apis/v1alpha1,apis/v1alpha2,topology/v1alpha1}/fake/` | Test doubles: v1alpha1 APIExports generated verb by verb, v1alpha2 APIExports and PartitionSets wired onto gentype's fake client; all record calls in one Fake and answer from one object tracker. | modelled (`FakeClientset.tla`) |
| Workspace listers | `sdk/client/listers/tenancy/v1alpha1/workspace.go` | Cluster-aware and single-workspace reads of an informer cache. | modelled (`WorkspaceListers.tla`) |
| Apply configurations | `sdk/client/applyconfiguration/.../resource.go`, `permissionclaim.go`, `condition.go` | Builders for server-side apply. | modelled (`ApplyConfigurations.tla`) |
| Cluster-aware fake APIBinding client (v1alpha2) | `sdk/client/clientset/versioned/cluster/typed/apis/v1alpha2/fake/apibinding.go` | Cluster client (wildcard List/Watch) and per-cluster scoped clients over kcp's tracker. | modelled (`FakeClusterAPIBindings.tla`) |
| Wildwest fixture group client, leak test | `sdk/client/...`, `test/...` | Constructor wiring of client-go's `gentype` fakes; an integration test. | not modelled (the behaviour lives in client-go) |

How the parts interact:
- Several bindings of one consumer cluster are reconciled concurrently, one worker per key.
- Each pass reads the export, the schema and the LogicalCluster from caches, then writes the lock map with an optimistic update.
- The native-CRD peer writes the same lock map.
- The export's identity hash gates the pass.
- The CRD in `system:bound-crds` is shared by every binding of the same schema.

## Modules

`APIBindingReconciler.tla` models one consumer cluster.

State:
- per binding: `ref`, `phase`, `conditions`, `boundResource` and `pc`;
- the LogicalCluster `lc`, with its presence, its annotation and the lock per (group, resource);
- `fresh`, the bindings whose LogicalCluster read is still current;
- the bound CRDs (`crds`, `storedVersions`);
- the exports (presence, identity);
- native CRDs and the admissions still pending;
- `deleted`, the bindings whose deletion has been requested (`pc = "Gone"` once the finalizing pass ran);
- a bounded fault counter.

A reconcile pass is split at the only suspension point whose interleaving
matters: the LogicalCluster read and its update.
- The `Reconcile*` actions decide every outcome that comes before the lock write. Each action is one test case of the reconciler test, in the order the reconciler checks them.
- `ReconcileReadLocks` ends the first half. It records that the binding's read is current (`fresh`).
- `ClaimLock` is the compare-and-swap. It succeeds only while the read is current. Any change to the LogicalCluster empties `fresh`. An update that writes identical content is a no-op and does not bump the resource version, as on the apiserver.
- The `Bind*` actions are the outcomes after the write: CRD get error, create Invalid, create error, create, wait for Established, Established. Each includes the CRD stage and the status report, because the reconciler does both in the same pass.
- `ClaimConflict` and `ClaimUpdateError` are the update failures.
- `ReleaseLocks` is the pass of a deleted binding: it frees every lock of the LogicalCluster that names the binding (which makes other bindings' reads stale) and the binding is gone. `DeleteBinding(b)` requests it, for the bindings in the constant `Deletable`. A Gone binding is not a naming-conflict peer and is not Serving.

A naming conflict returns before the Ready summary is derived (`StopAndRequeue`).
This keeps the test's "no Ready condition" outcome.

The environment actions are:
- export creation and identity publication;
- the LogicalCluster appearing and being annotated;
- CRD establishment;
- changes of `status.storedVersions`;
- the native-CRD peer: admit with a future-expiry lock, persist, abandon, lock expiry.

`MC_APIBinding.tla` gives the constants concrete values.
- Model values stand for bindings, exports, schema UIDs and versions.
- Schema records stand for the test fixtures `today.widgets.kcp.io` and `another.widgets.kcp.io`, plus one with two versions and no conversion.

`APIResourceSchemas.tla` models `types_apiresourceschema.go`.
- A version's schema is a props value; the raw JSON encoding that `GetSchema` and `SetSchema` convert is not modelled.
- `SpecValid` is the conjunction of the type's markers: the scope and nameValidation enums, `MinItems=1`, the version list-map key, the version-name pattern, the CEL rule of the spec and the CEL rule of the conversion. `Default` applies the nameValidation default before validation, as the apiserver does.
- The state is the workspace's schemas, conversions and exports. Creation admits a submitted spec; a schema is immutable, and cannot be deleted while an export references it. Export operations are modelled from the spec, since `APIExport` is not under `src/`.

`FakeClientset.tla` models the generated fake clientset.
- Three typed clients share one `Fake` and one object tracker keyed by resource (`store[r]`). `Wiring(k)` is the resource each is built with: the package-level `apiexportsResource` of the v1alpha1 fake, and the arguments `newFakeAPIExports` and `newFakePartitionSets` pass to gentype. Every verb takes the client `k`.
- The verbs are those of the v1alpha1 fake; gentype's fake verbs follow the same pattern, so the v1alpha2 APIExport and PartitionSet clients use them with their own wiring.
- Every verb records its action (`Record`), takes the reactor's answer, and returns `emptyResult` when the answer is nil (`Result`).
- The reactor is client-go's object tracker (NotFound, AlreadyExists, replace, merge patch, upsert by apply; no reaction for DeleteCollection), or an error from a reactor a test prepended (`fail`).
- `Apply` and `ApplyStatus` refuse a nil configuration or a missing name before anything is recorded.

`WorkspaceListers.tla` models the listers.
- Names are character sequences, so `ToClusterAwareKey` is the real concatenation `cluster|name`.
- Informer events fill two indexers: the cross-workspace one keyed by the cluster-aware key, and a single-workspace one keyed by name.
- Each lister read is an operator, checked in every reachable indexer state.

`ApplyConfigurations.tla` models the builders on a heap.
- Scalar `With*` set a field. `WithStorage` keeps the caller's pointer.
- `WithVerbs` is Go's `append` over (array, len, cap): an in-place write while there is room, otherwise a copy into an array of double capacity. Arrays nothing refers to are collected.
- `CopyClaim` is a by-value copy of a claim configuration, as a parent's `WithPermissionClaims(*values[i])` makes. It is part of `SpecWithCopies` only.

`FakeClusterAPIBindings.tla` models the generated cluster-aware fake of
APIBindings. `Cluster(path)` builds a scoped client with the path and namespace
`""`; every scoped verb is recorded with that path (`Invoke`) and answered by the
tracker of that logical cluster (`store[c]`). The cluster client's `List` and
`Watch` are recorded with the wildcard and list every cluster (`WildcardItems`).

`IdentityCache.tla` models the identity-cache controller (spec §4.3; the
controller's source is not in this snapshot, its test is). State: the exports on
the server and in the informer, the ConfigMap on the server and in its lister,
the work-queue key (`queued`), the position in a pass and the data it built.
- `ListExports` takes the key and builds the desired data from the informer (exports without hash omitted).
- `CreateConfigMap`, `ConfigMapUnchanged` and `UpdateConfigMap` are the three outcomes of the test; `CreateAlreadyExists` and `UpdateConflict` are what a stale lister gives; `WriteError` is a transient error. Every failure requeues (`Done(TRUE)`).
- Users create and delete exports and replace or delete identity secrets (`SecretChange`). The informers deliver the latest state and add the key. An add made while the pass runs is kept (`Done`), as in client-go's work queue.
- The APIExport identity controller produces the hashes. Its reconcile of an export is modelled from the scenarios of `apiexport_controller_test.go`, one action per outcome:
  - `SetDefaultRef`: a default secret exists, so the reference is set to it.
  - `CreateIdentitySecret`: a secret with a fresh key is created and referenced. Its error branch, `CreateIdentitySecretError`, sets `IdentityGenerationFailed`.
  - `VerifySecretMissing`: the referenced secret is missing.
  - `PublishIdentityHash`: the status hash is unset and is set to `HashOf(key)`.
  - `VerifyMismatch`: the published hash differs from the key's and is kept, with `IdentityVerificationFailed`.
  - `VerifyMatch`: the hashes match, and the identity is valid again.
  - The secret key is `Keys`; sha256 is the injective constant operator `HashOf`.

## Runs

| Run | cfg | Expect | Checks |
|---|---|---|---|
| race | `MC_race.cfg` | pass | `TypeOK`, `BoundExclusive`, `BoundHoldsLock`, `EventuallyBound`, `StorageVersionsReported` |
| status | `MC_status.cfg` | pass | `ServedSlotsAgree` |
| native_overlap | `MC_native_overlap.cfg` | violation | `NoNativeOverlap` |
| no_annotation | `MC_no_annotation.cfg` | violation | `ConflictOnlyWhenClaimed` |
| schemas | `MC_schemas.cfg` | pass | `TypeOK` |
| schema_storage | `MC_schema_storage.cfg` | violation | `StoredSchemasHaveOneStorageVersion` |
| fake_client | `MC_fake_client.cfg` | pass | `TypeOK`, `OneActionPerCall`, `ClientsStayApart` |
| listers | `MC_listers.cfg` | pass | `TypeOK`, `ClusterGetExact`, `ScopedGetAgreesWithList` |
| apply | `MC_apply.cfg` | pass | `TypeOK` |
| fake_cluster_client | `MC_fake_cluster_client.cfg` | pass | `TypeOK`, `ScopedCallsStayInCluster` |
| identity_cache | `MC_identity_cache.cfg` | pass | `TypeOK`, `Converges`, `IdentitySettles` |
| apply_copies | `MC_apply_copies.cfg` | violation | `VerbsAreOwnHistory` |

- **race.** Two bindings reference two exports whose schemas serve the same resource (`gr1`) with different UIDs. One schema has two versions, so storage versions can change. One schema is rejected by the CRD server. The slot starts free or held by a CRD lock. Binding b1 may be deleted. No faults (the status run covers the error paths). The run uses `FairSpec`, without symmetry.
  - Result: 102,553 distinct states, about a minute.
  - At most one binding is ever Bound for the slot, and it still holds the lock. Without the compare-and-swap guard (mutant `ClaimLockBlind`) two bindings end Bound.
  - `EventuallyBound`: a binding that is scheduled (its key is queued, or its pass is running) and whose inputs are available and whose slot is open (`Eligible`) is eventually Bound, or stops being eligible. The mutant that lets a binding conflict with its own lock breaks it.
  - `StorageVersionsReported`: a storage version that the bound CRD keeps in `status.storedVersions` is eventually reported in the binding's bound resource, as the test "Ensure merging storage versions works" expects; the bound-CRD watch requeues the binding. A pass that leaves an already reported resource as it is (mutant `BindEstablishedNoRefresh`) breaks it.
- **status.** Binding b1 may reference no export, a good export, or exports whose schema is:
  - two-versioned without conversion;
  - missing;
  - rejected.

  Binding b2 starts Bound without a lock, as the test's `conflicting` fixture does. This reaches the naming-conflict path. b2 may be deleted, after which b1 can bind gr1 through a schema whose CRD does not exist yet. One transient fault may occur on any error path. Result: 1,908,549 distinct states, about a minute.
  - `ServedSlotsAgree`: b2 holds no lock, so only the peer check (`NamingConflict`) keeps b1 off its resource. Two bindings serving the same resource serve it through the same schema. A peer check that only counts the peer holding the lock (mutant `NamingConflictLockedOnly`) lets b1 serve gr1 through another schema.
  - The stronger `BoundExclusive` does not hold here: b1 may reference the same export as the legacy b2, take the free lock and be Bound beside it (same schema, same CRD). The lock then names b1 alone. The test has no case of two bindings of one export.
- **native_overlap** (violation, 10 steps):
  1. The native-CRD peer takes the free slot with an expiring CRD lock.
  2. The lock expires before the CRD is persisted.
  3. The binding finds no CRD, overwrites the lock (test "expired and non-existing CRD"), creates its CRD and becomes Bound.
  4. The native CRD is then persisted.

  The spec allows the reclaim and does not say what rules out the late creation.
- **no_annotation** (violation, 2 steps). A LogicalCluster without the annotation gives `NamingConflicts`, as the test expects at line 271. The spec says to treat it as having no claims.

- **schemas** (500 states). Eleven submitted specs, covering each marker and rule, plus two conversion specs. `TypeOK`: stored schemas have the enums set and at least one version (the mutant that drops the scope enum admits one without).
- **schema_storage** (violation, one create). A spec with two versions `v1` and `v2`, neither with `storage: true`, and conversion strategy `None` is admitted. The comment at line 115 says exactly one version must have `storage=true`, but no marker enforces it.
- **fake_client** (`MC_FakeClientset`; 1,295,704 states, up to 3 calls through any of the three clients). Checks:
  - every call adds one action, except a refused Apply;
  - `ClientsStayApart`: a call through one typed client changes nothing another reads, the v1alpha1 and v1alpha2 APIExport clients included (the fake does not convert between versions). A PartitionSet fake wired with the APIExport resource (mutant `NewFakePartitionSetsCopied`) breaks it.
- **listers** (4,096 states). Cluster names "a" and "ab" and workspace names "b" and "bb" make the keys collide if the separator is dropped. `Cluster(c).Get` returns exactly c's workspace, and the scoped lister's `Get` and `List` agree.
- **apply** (271,115 states). One resource, one claim, one condition and one storage builder; up to 4 verbs (capacity 4, reached with length 3). The builders keep unset fields unset. Whether a claim reads its own verbs is the question of `apply_copies`.
- **fake_cluster_client** (889,320 states, up to 3 calls, no symmetry). Two clusters hold the same binding name. A scoped call changes no other cluster and is recorded with its path (the mutant whose `Cluster` ignores its path breaks it).
- **identity_cache** (1,516,728 states, about 2 minutes).
  - Setup:
    - two exports, two keys with their two hashes;
    - up to 2 user changes to exports or secrets;
    - one fault, either a failed secret creation or a failed ConfigMap write;
    - the ConfigMap starts absent or with any data.
  - `Converges`: once users stop, the ConfigMap holds exactly the hashes of the exports that have one, and keeps them. The controller publishes those hashes concurrently.
  - Mutant caught: a pass end that forgets an add made during the pass never converges.
  - `IdentitySettles`: once users stop, every export references a secret. It reports `IdentityValid` exactly when its published hash is its key's hash. This holds after a key was replaced and restored, and after a failed secret creation.
  - Mutant caught: a matching verification that leaves an earlier failure in place.
- **apply_copies** (violation, 7 steps; up to 5 verbs):
  1. c1 gets 3 verbs (capacity 4).
  2. c1 is copied by value to c2.
  3. c1 appends `get`.
  4. c2 appends `list, watch`. The `list` lands in the shared fourth cell.
  5. c1 now reads `list` where it appended `get`.

The passing runs together fire every action and every disjunct of their
next-state relations. `CopyClaim` belongs only to `SpecWithCopies`.

## Bounds and why they are enough

- Two bindings and one (group, resource) are the smallest setting where a lock can be contended.
- Two versions make storage-version growth and trimming observable.
- `MaxFaults = 1` in the status run lets each transient-error path occur, including after a successful claim.
- The lock-map races need one binding and one peer, or two bindings. The mutants show each property is reachable within these bounds.

## Fairness

The model keeps the controller's work queue as `queued`. A pass dequeues the
key when it reads the lock map (or ends earlier); `PassEnd` puts it back when the
pass returned an error or changed the binding's status (the APIBinding watch),
and export and bound-CRD events put back the bindings that watch them
(`WatchersOfExport`, `WatchersOfCRD`). The controller registration is not under
`src/`, so these rules are modelled from the spec. A binding that is not queued
may still run (a resync, or a watch the model does not know), but nothing makes
it.

`FairSpec` adds weak fairness on `Scheduled(b) /\ Reconcile(b)` for each binding,
that is, only to a binding that is queued or in the middle of a pass, and on
`EstablishCRD(u)` for each schema UID, and nothing else.
- The CRD server establishes an admitted CRD eventually.
- Clients (export and LogicalCluster changes), the native-CRD peer, lock expiry and faults get no fairness. The properties must hold whatever they do.
- A pass blocked by an unexpired CRD lock returns without error or requeue (test line 303), and the lock's expiry requeues nothing. `EventuallyBound` therefore assumes that the binding is scheduled; without that premise TLC finds it violated (a hazard in `PROJECT.json`).

`IdentityCache` has its own `FairSpec`: weak fairness on the reconciler (the
key is processed whenever queued), on each informer's delivery, and on the
APIExport controller's reconcile of each export (export and secret events
and its own errors requeue the export); none on users or faults. Its run sets `CHECK_DEADLOCK FALSE`: a
controller with an empty queue and synced informers idles.

The fake clients, listers and builders are driven by a test or a program that
may stop at any point. Their runs check safety only. Their configurations set
`CHECK_DEADLOCK FALSE` because the bounded call budget, not the code, ends the
behaviours.

## Bounds of the new modules

- Fake clientset: three clients, one name, two label values, one spec and two statuses; the tracker starts with any v1alpha1 APIExports and the other resources empty; at most 3 recorded actions. Three calls are enough for create-then-fail-then-read sequences, and one write through a client for the cross-client property.
- Cluster fake client: two clusters and one name, so the same name exists in both; 3 calls reach write-in-one, read-in-other.
- Identity cache: 2 user changes let an export be deleted and recreated, or a secret's key be replaced and restored. The controller publishes hashes outside that bound, so a publication can fall inside a pass. The single fault exercises either retry. With 3 changes the run takes 8 minutes (4.8M states).
- Binding deletion: only b1 is `Deletable` in the race run (only b2 in the status run), which is enough for a lock released while another binding holds a stale read. With every binding deletable the controller would run out of work and stop; the runs keep one binding live, so they check deadlock.
- Listers: two clusters and two names. These are the smallest sets where a key without the separator collides.
- Apply configurations: 4 verbs reach a slice with spare capacity. The pool has 4 arrays: two live slices, plus up to two growths in one call.

## Not modelled

These parts are left out. Each entry gives the reason.

- **CRD deletion and the `deletedCRDTracker`** (the hazard at `apibinding_reconcile_test.go:666`). The tracker's code is not in this snapshot. The test only constructs it, and the spec gives it one sentence each at lines 135 and 215. Those two sentences do not say whether the tracker suppresses or forces re-creation while the lister is stale. A model would have to pick one reading, and a property over it would check the spec against itself.
- **Exports with several resources.** A pass would claim several slots and could stop halfway. Every model has one resource per export. The per-resource steps are the ones already modelled. What is missing is a claim that stops after its first slot. It stays out so that the race run fits its budget.
- **Reserved-groups admission.** The plugin source is not in this snapshot; only `admission_test.go` is. The decision is a pure function with no state. Over the test's table, a TLA+ operator translated from the spec would only restate that table.
- **Wildwest e2e fixture group client and the goroutine leak test.** These are test harness code that forwards calls or runs the real server. Nothing in them changes state that a property could state.
- **Pointer aliasing of listers and builders** (`workspace.go:105`, `resource.go:64`). The models return values. The hazards arise in callers, which are outside this code.
