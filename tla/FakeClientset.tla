---------------------------- MODULE FakeClientset ----------------------------
(***************************************************************************)
(* The generated fake clientset as a unit test drives it: its typed fake   *)
(* clients share one testing.Fake, whose recorded actions and object       *)
(* tracker (keyed by group-version-resource) they all use.                 *)
(*                                                                         *)
(*  - FakeAPIExports (apis v1alpha1) is generated verb by verb: every verb *)
(*    builds a testing action for apiexportsResource, hands it to          *)
(*    Fake.Invokes, which appends it to the recorded actions and runs the  *)
(*    reactor chain, and turns the reactor's answer into the verb's result.*)
(*  - fakeAPIExports (apis v1alpha2) and fakePartitionSets (topology       *)
(*    v1alpha1) embed client-go's gentype.FakeClientWithListAndApply,      *)
(*    built with namespace "", a resource and a kind.  Its verbs follow    *)
(*    the same pattern (action, Invokes, emptyResult when nil, label       *)
(*    filter of List, client-side checks of Apply), so the verbs below are *)
(*    shared and the wiring record says which resource a client acts on.  *)
(*                                                                         *)
(* The reactor chain is client-go's object tracker, in front of which a    *)
(* test may prepend a reactor that fails the call (nondeterministic error).*)
(***************************************************************************)
EXTENDS Naturals, Sequences, FiniteSets, SequencesExt

CONSTANTS
    Names,       \* object names
    LabelVals,   \* label sets an object can carry (abstracted to one value)
    Specs,       \* spec contents
    Statuses,    \* status contents
    Selectors,   \* label selectors clients pass: sets of LabelVals they match
    Nil, Absent, Empty,
    MaxActions   \* bound on the length of the recorded action log

Objs == [labels: LabelVals, spec: Specs, status: Statuses]

-----------------------------------------------------------------------------
(* The typed clients and the resource each is wired to. *)

apiexportsResource == <<"apis.kcp.io", "v1alpha1", "apiexports">>

(* ApisV1alpha1().APIExports(): the package-level apiexportsResource. *)
FakeAPIExportsV1alpha1 == [resource |-> apiexportsResource, ns |-> ""]

(* ApisV1alpha2().APIExports(): newFakeAPIExports. *)
NewFakeAPIExportsV1alpha2 ==
    [resource |-> <<"apis.kcp.io", "v1alpha2", "apiexports">>, ns |-> ""]

(* Mutant: the PartitionSet fake generated from the APIExport template     *)
(* with the resource left as it was.                                       *)
NewFakePartitionSetsCopied ==
    [resource |-> <<"apis.kcp.io", "v1alpha2", "apiexports">>, ns |-> ""]

(* TopologyV1alpha1().PartitionSets(): newFakePartitionSets. *)
NewFakePartitionSets ==
    [resource |-> <<"topology.kcp.io", "v1alpha1", "partitionsets">>, ns |-> ""]

ClientNames == {"apisv1alpha1.APIExports", "apisv1alpha2.APIExports",
                "topologyv1alpha1.PartitionSets"}

Wiring(k) ==
    CASE k = "apisv1alpha1.APIExports"        -> FakeAPIExportsV1alpha1
      [] k = "apisv1alpha2.APIExports"        -> NewFakeAPIExportsV1alpha2
      [] k = "topologyv1alpha1.PartitionSets" -> NewFakePartitionSets

Resources == {Wiring(k).resource : k \in ClientNames}

VARIABLES
    store,     \* [Resources -> [Names -> Objs \cup {Absent}]]: the tracker
    actions,   \* Seq of recorded actions [res, verb, name, sub, sel]
    ret        \* what the last verb returned: [client, verb, result, err]

vars == <<store, actions, ret>>

(* Invokes(action, defaultReturnObj): the action is recorded before any    *)
(* reactor runs; a failing reactor answers (nil, err).                      *)
Record(k, verb, name, sub, sel) ==
    actions' = Append(actions, [res |-> Wiring(k).resource, verb |-> verb,
                                name |-> name, sub |-> sub, sel |-> sel])

(* The obj == nil early return: the caller receives the empty object       *)
(* (emptyResult), never nil, together with the reactor's error.             *)
Result(obj, err) == IF obj = Nil THEN Empty ELSE obj

Reply(k, verb, obj, err) ==
    ret' = [client |-> k, verb |-> verb, result |-> Result(obj, err), err |-> err]

Room == Len(actions) < MaxActions

(* The tracker's objects of the resource client k is wired to. *)
Tracked(k) == store[Wiring(k).resource]

SetTracked(k, n, o) == store' = [store EXCEPT ![Wiring(k).resource][n] = o]

-----------------------------------------------------------------------------
(* Get: tracker answers NotFound for a missing object.                     *)
Get(k, n, fail) ==
    /\ Room
    /\ Record(k, "get", n, "", Nil)
    /\ LET ok == ~fail /\ Tracked(k)[n] # Absent
       IN Reply(k, "get", IF ok THEN Tracked(k)[n] ELSE Nil, ~ok)
    /\ UNCHANGED store

(* List: the tracker's whole list, then the items whose labels match the   *)
(* selector (nil selects everything); ListMeta is copied.                   *)
Matching(st, sel) == {n \in Names : st[n] # Absent /\ st[n].labels \in sel}

Everything == LabelVals

ListFiltered(st, sel) ==
    LET label == IF sel = Nil THEN Everything ELSE sel
    IN [n \in Matching(st, label) |-> st[n]]

List(k, sel, fail) ==
    /\ Room
    /\ Record(k, "list", Nil, "", sel)
    /\ Reply(k, "list", IF fail THEN Nil ELSE ListFiltered(Tracked(k), sel), fail)
    /\ UNCHANGED store

(* Watch: the action is recorded and a watcher returned. *)
Watch(k) ==
    /\ Room
    /\ Record(k, "watch", Nil, "", Nil)
    /\ Reply(k, "watch", Empty, FALSE)
    /\ UNCHANGED store

(* Create: AlreadyExists when the name is taken. *)
Create(k, n, o, fail) ==
    /\ Room
    /\ Record(k, "create", n, "", Nil)
    /\ LET ok == ~fail /\ Tracked(k)[n] = Absent
       IN /\ IF ok THEN SetTracked(k, n, o) ELSE UNCHANGED store
          /\ Reply(k, "create", IF ok THEN o ELSE Nil, ~ok)

(* Update and UpdateStatus: NotFound when missing; the tracker replaces    *)
(* the stored object with the one passed, the status subresource included. *)
UpdateVerb(k, verb, sub, n, o, fail) ==
    /\ Room
    /\ Record(k, verb, n, sub, Nil)
    /\ LET ok == ~fail /\ Tracked(k)[n] # Absent
       IN /\ IF ok THEN SetTracked(k, n, o) ELSE UNCHANGED store
          /\ Reply(k, verb, IF ok THEN o ELSE Nil, ~ok)

Update(k, n, o, fail) == UpdateVerb(k, "update", "", n, o, fail)

(* Mutant: verb and subresource passed in swapped order. *)
UpdateStatusSwapped(k, n, o, fail) == UpdateVerb(k, "status", "update", n, o, fail)

UpdateStatus(k, n, o, fail) == UpdateVerb(k, "update", "status", n, o, fail)

(* Delete: NotFound when missing; only the error is returned. *)
Delete(k, n, fail) ==
    /\ Room
    /\ Record(k, "delete", n, "", Nil)
    /\ LET ok == ~fail /\ Tracked(k)[n] # Absent
       IN /\ IF ok THEN SetTracked(k, n, Absent) ELSE UNCHANGED store
          /\ ret' = [client |-> k, verb |-> "delete", result |-> Nil, err |-> ~ok]

(* DeleteCollection: the tracker has no reaction for it, so Invokes       *)
(* returns the default object and no error, and nothing is deleted.        *)
DeleteCollection(k, fail) ==
    /\ Room
    /\ Record(k, "delete-collection", Nil, "", Nil)
    /\ ret' = [client |-> k, verb |-> "delete-collection", result |-> Nil, err |-> fail]
    /\ UNCHANGED store

(* Patch (a merge patch of the spec): NotFound when missing. *)
Patch(k, n, sp, fail) ==
    /\ Room
    /\ Record(k, "patch", n, "", Nil)
    /\ LET ok == ~fail /\ Tracked(k)[n] # Absent
           new == [Tracked(k)[n] EXCEPT !.spec = sp]
       IN /\ IF ok THEN SetTracked(k, n, new) ELSE UNCHANGED store
          /\ Reply(k, "patch", IF ok THEN new ELSE Nil, ~ok)

(* The object an apply patch leaves: the status alone when the status      *)
(* subresource of an existing object is applied, else the configuration.    *)
Applied(k, sub, cfg) ==
    IF sub = "status" /\ Tracked(k)[cfg.name] # Absent
    THEN [Tracked(k)[cfg.name] EXCEPT !.status = cfg.obj.status]
    ELSE cfg.obj

(* Mutant: the action recorded before the client-side checks. *)
ApplyVerbRecordFirst(k, sub, cfg, fail) ==
    /\ Room
    /\ IF cfg = Nil \/ cfg.name = Nil
       THEN /\ Record(k, "patch", Nil, sub, Nil)
            /\ ret' = [client |-> k, verb |-> "apply", result |-> Nil, err |-> TRUE]
            /\ UNCHANGED store
       ELSE /\ Record(k, "patch", cfg.name, sub, Nil)
            /\ IF fail THEN UNCHANGED store ELSE SetTracked(k, cfg.name, Applied(k, sub, cfg))
            /\ Reply(k, "apply", IF fail THEN Nil ELSE Applied(k, sub, cfg), fail)

(* Apply and ApplyStatus: a nil configuration and a configuration without  *)
(* a name are refused before anything is recorded (result nil); otherwise  *)
(* an apply patch of the main resource or of status, which upserts.        *)
(* cfg is Nil or [name: Names \cup {Nil}, obj: Objs].                       *)
ApplyVerb(k, sub, cfg, fail) ==
    /\ Room
    /\ IF cfg = Nil \/ cfg.name = Nil
       THEN /\ ret' = [client |-> k, verb |-> "apply", result |-> Nil, err |-> TRUE]
            /\ UNCHANGED <<store, actions>>
       ELSE /\ Record(k, "patch", cfg.name, sub, Nil)
            /\ IF fail THEN UNCHANGED store ELSE SetTracked(k, cfg.name, Applied(k, sub, cfg))
            /\ Reply(k, "apply", IF fail THEN Nil ELSE Applied(k, sub, cfg), fail)

Apply(k, cfg, fail) == ApplyVerb(k, "", cfg, fail)

ApplyStatus(k, cfg, fail) == ApplyVerb(k, "status", cfg, fail)

-----------------------------------------------------------------------------
ApplyConfigs == {Nil} \cup [name: Names \cup {Nil}, obj: Objs]

(* NewSimpleClientset seeded with any v1alpha1 APIExports; the other      *)
(* resources start empty.                                                  *)
Init ==
    /\ store \in {s \in [Resources -> [Names -> Objs \cup {Absent}]] :
                    \A r \in Resources \ {apiexportsResource} :
                        \A n \in Names : s[r][n] = Absent}
    /\ actions = <<>>
    /\ ret = [client |-> Nil, verb |-> "none", result |-> Nil, err |-> FALSE]

Next ==
    \E k \in ClientNames, fail \in BOOLEAN :
        \/ \E n \in Names : Get(k, n, fail) \/ Delete(k, n, fail)
        \/ \E sel \in Selectors \cup {Nil} : List(k, sel, fail)
        \/ Watch(k) /\ ~fail
        \/ \E n \in Names, o \in Objs :
              Create(k, n, o, fail) \/ Update(k, n, o, fail) \/ UpdateStatus(k, n, o, fail)
        \/ DeleteCollection(k, fail)
        \/ \E n \in Names, sp \in Specs : Patch(k, n, sp, fail)
        \/ \E cfg \in ApplyConfigs : Apply(k, cfg, fail) \/ ApplyStatus(k, cfg, fail)

Spec == Init /\ [][Next]_vars

-----------------------------------------------------------------------------
TypeOK ==
    /\ store \in [Resources -> [Names -> Objs \cup {Absent}]]
    /\ actions \in Seq([res: Resources, verb: STRING, name: Names \cup {Nil},
                        sub: {"", "status"}, sel: Selectors \cup {Nil}])
    /\ Len(actions) <= MaxActions

(* Every call the test makes appears once in Fake.Actions(), except an     *)
(* Apply refused before Invokes (nil configuration or no name), which      *)
(* leaves both the log and the store untouched.                            *)
OneActionPerCall ==
    [][IF ret'.verb = "apply" /\ ret'.result = Nil
       THEN actions' = actions /\ store' = store
       ELSE Len(actions') = Len(actions) + 1]_vars

(* The typed clients of one clientset are apart although they share one    *)
(* Fake and one tracker: a call through one of them changes no object a    *)
(* different typed client reads, also of the same kind in another version. *)
ClientsStayApart ==
    [][\A k \in ClientNames \ {ret'.client} : Tracked(k)' = Tracked(k)]_vars

====
