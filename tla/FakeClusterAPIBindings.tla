----------------------- MODULE FakeClusterAPIBindings -----------------------
(***************************************************************************)
(* The generated cluster-aware fake client of APIBindings                  *)
(* (apis.kcp.io/v1alpha2), as a unit test drives it.                        *)
(*                                                                         *)
(*  - aPIBindingClusterClient embeds kcp's FakeClusterClientWithList: its  *)
(*    List and Watch act on the wildcard cluster, i.e. across all logical  *)
(*    clusters; Cluster(path) returns a scoped client for one cluster.     *)
(*  - aPIBindingScopedClient embeds FakeClientWithListAndApply built with  *)
(*    that cluster path and namespace "" (APIBindings are cluster-scoped); *)
(*    every verb is recorded with the path and answered by kcp's object    *)
(*    tracker, which keeps the objects of each logical cluster apart.      *)
(*                                                                         *)
(* The verbs and the tracker are kcp client-go's, not this repository's;   *)
(* they are modelled as for the v1alpha1 fake (FakeAPIExports), per        *)
(* cluster.  What this repository decides is the wiring: which path a      *)
(* scoped client records and which the cluster client lists.               *)
(***************************************************************************)
EXTENDS Naturals, Sequences, FiniteSets, SequencesExt

CONSTANTS
    Clusters,    \* logical cluster paths a test scopes to
    Names,       \* APIBinding names
    LabelVals,   \* label sets an object can carry (abstracted to one value)
    Specs,       \* spec contents
    Statuses,    \* status contents
    Selectors,   \* label selectors: the sets of LabelVals they match
    Wildcard,    \* logicalcluster.Wildcard
    Nil, Absent, Empty,
    MaxActions   \* bound on the length of the recorded action log

ASSUME Wildcard \notin Clusters

Objs == [labels: LabelVals, spec: Specs, status: Statuses]

VARIABLES
    store,     \* [Clusters -> [Names -> Objs \cup {Absent}]]: the tracker
    actions,   \* Seq of recorded actions [cluster, verb, name, sub, sel]
    ret        \* the last call: [caller, verb, result, err]; caller is the
               \* cluster the test scoped to (Wildcard for the cluster client)

vars == <<store, actions, ret>>

-----------------------------------------------------------------------------
(* Mutant: one scoped client built once and handed out for every path. *)
ClusterFirst(path) == [path |-> CHOOSE p \in Clusters : TRUE, namespace |-> ""]

(* aPIBindingClusterClient.Cluster(path): newFakeAPIBindingClient with the *)
(* shared Fake, the path, and namespace "".                                *)
Cluster(path) == [path |-> path, namespace |-> ""]

(* Mutant: the scoped client built without its cluster path. *)
InvokeNoPath(cl, verb, n, sub, sel) ==
    actions' = Append(actions, [cluster |-> Nil, verb |-> verb, name |-> n,
                                sub |-> sub, sel |-> sel])

(* Fake.Invokes records the action, with the client's cluster path, before *)
(* any reactor runs.                                                        *)
Invoke(cl, verb, n, sub, sel) ==
    actions' = Append(actions, [cluster |-> cl.path, verb |-> verb, name |-> n,
                                sub |-> sub, sel |-> sel])

(* The nil-object early return of every verb: the empty object instead. *)
Reply(c, verb, obj, err) ==
    ret' = [caller |-> c, verb |-> verb, err |-> err,
            result |-> IF obj = Nil THEN Empty ELSE obj]

Room == Len(actions) < MaxActions

(* The tracker's object n in the client's cluster. *)
At(cl, n) == store[cl.path][n]

Put(cl, n, o) == store' = [store EXCEPT ![cl.path][n] = o]

(* The label filter applied after the reactor answers a List. *)
Selected(sel) == IF sel = Nil THEN LabelVals ELSE sel

-----------------------------------------------------------------------------
(* The verbs of the scoped client Cluster(c), c the path the test gives. *)

ScopedGet(c, n, fail) ==
    LET cl == Cluster(c) ok == ~fail /\ At(cl, n) # Absent IN
    /\ Invoke(cl, "get", n, "", Nil)
    /\ Reply(c, "get", IF ok THEN At(cl, n) ELSE Nil, ~ok)
    /\ UNCHANGED store

ScopedList(c, sel, fail) ==
    LET cl == Cluster(c)
        items == [n \in {m \in Names : At(cl, m) # Absent /\ At(cl, m).labels \in Selected(sel)}
                    |-> At(cl, n)]
    IN /\ Invoke(cl, "list", Nil, "", sel)
       /\ Reply(c, "list", IF fail THEN Nil ELSE items, fail)
       /\ UNCHANGED store

ScopedWatch(c) ==
    /\ Invoke(Cluster(c), "watch", Nil, "", Nil)
    /\ Reply(c, "watch", Empty, FALSE)
    /\ UNCHANGED store

(* Create fails when the name is taken in this cluster; Update, UpdateStatus, *)
(* Patch and Delete fail when it is missing there.                            *)
ScopedWrite(c, verb, sub, n, o, fail) ==
    LET cl == Cluster(c)
        ok == ~fail /\ (At(cl, n) = Absent) = (verb = "create")
    IN /\ Invoke(cl, verb, n, sub, Nil)
       /\ IF ok THEN Put(cl, n, o) ELSE UNCHANGED store
       /\ Reply(c, verb, IF ok THEN o ELSE Nil, ~ok)

ScopedPatch(c, n, sp, fail) ==
    LET cl == Cluster(c) ok == ~fail /\ At(cl, n) # Absent IN
    /\ Invoke(cl, "patch", n, "", Nil)
    /\ IF ok THEN Put(cl, n, [At(cl, n) EXCEPT !.spec = sp]) ELSE UNCHANGED store
    /\ Reply(c, "patch", IF ok THEN [At(cl, n) EXCEPT !.spec = sp] ELSE Nil, ~ok)

ScopedDelete(c, n, fail) ==
    LET cl == Cluster(c) ok == ~fail /\ At(cl, n) # Absent IN
    /\ Invoke(cl, "delete", n, "", Nil)
    /\ IF ok THEN Put(cl, n, Absent) ELSE UNCHANGED store
    /\ ret' = [caller |-> c, verb |-> "delete", result |-> Nil, err |-> ~ok]

(* Apply and ApplyStatus: refused before Invokes without a configuration or *)
(* a name; otherwise an apply patch that upserts (status only, when the     *)
(* object exists and the status subresource is applied).                    *)
ScopedApply(c, sub, cfg, fail) ==
    LET cl == Cluster(c) IN
    IF cfg = Nil \/ cfg.name = Nil
    THEN /\ ret' = [caller |-> c, verb |-> "apply", result |-> Nil, err |-> TRUE]
         /\ UNCHANGED <<store, actions>>
    ELSE LET n == cfg.name
             new == IF sub = "status" /\ At(cl, n) # Absent
                    THEN [At(cl, n) EXCEPT !.status = cfg.obj.status] ELSE cfg.obj
         IN /\ Invoke(cl, "patch", n, sub, Nil)
            /\ IF fail THEN UNCHANGED store ELSE Put(cl, n, new)
            /\ Reply(c, "apply", IF fail THEN Nil ELSE new, fail)

-----------------------------------------------------------------------------
(* The cluster client: List and Watch across all logical clusters. *)

(* An item of a wildcard list carries the logical cluster it lives in. *)
WildcardItems(sel) ==
    [k \in {<<c, n>> \in Clusters \X Names :
               store[c][n] # Absent /\ store[c][n].labels \in Selected(sel)}
       |-> store[k[1]][k[2]]]

ClusterList(sel, fail) ==
    /\ actions' = Append(actions, [cluster |-> Wildcard, verb |-> "list", name |-> Nil,
                                   sub |-> "", sel |-> sel])
    /\ Reply(Wildcard, "list", IF fail THEN Nil ELSE WildcardItems(sel), fail)
    /\ UNCHANGED store

ClusterWatch ==
    /\ actions' = Append(actions, [cluster |-> Wildcard, verb |-> "watch", name |-> Nil,
                                   sub |-> "", sel |-> Nil])
    /\ Reply(Wildcard, "watch", Empty, FALSE)
    /\ UNCHANGED store

-----------------------------------------------------------------------------
ApplyConfigs == {Nil} \cup [name: Names \cup {Nil}, obj: Objs]

Init ==
    /\ store \in [Clusters -> [Names -> Objs \cup {Absent}]]
    /\ actions = <<>>
    /\ ret = [caller |-> Wildcard, verb |-> "none", result |-> Nil, err |-> FALSE]

Next ==
    /\ Room
    /\ \E fail \in BOOLEAN :
        \/ \E sel \in Selectors \cup {Nil} : ClusterList(sel, fail)
        \/ ClusterWatch /\ ~fail
        \/ \E c \in Clusters :
            \/ \E n \in Names : ScopedGet(c, n, fail) \/ ScopedDelete(c, n, fail)
            \/ \E sel \in Selectors \cup {Nil} : ScopedList(c, sel, fail)
            \/ ScopedWatch(c) /\ ~fail
            \/ \E n \in Names, o \in Objs, v \in {"create", "update"} :
                  ScopedWrite(c, v, "", n, o, fail)
            \/ \E n \in Names, o \in Objs : ScopedWrite(c, "update", "status", n, o, fail)
            \/ \E n \in Names, sp \in Specs : ScopedPatch(c, n, sp, fail)
            \/ \E cfg \in ApplyConfigs, sub \in {"", "status"} : ScopedApply(c, sub, cfg, fail)

Spec == Init /\ [][Next]_vars

-----------------------------------------------------------------------------
TypeOK ==
    /\ store \in [Clusters -> [Names -> Objs \cup {Absent}]]
    /\ Len(actions) <= MaxActions
    /\ \A i \in DOMAIN actions : actions[i].cluster \in Clusters \cup {Wildcard}

(* Tenant isolation of the fake: a call made through Cluster(c) is         *)
(* recorded with path c and changes no other logical cluster's objects;    *)
(* only the cluster client records the wildcard, and it changes nothing.   *)
ScopedCallsStayInCluster ==
    [][/\ \A q \in Clusters \ {ret'.caller} : store'[q] = store[q]
       /\ Len(actions') > Len(actions) => Last(actions').cluster = ret'.caller]_vars

====
