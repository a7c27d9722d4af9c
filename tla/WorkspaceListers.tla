-------------------------- MODULE WorkspaceListers --------------------------
(***************************************************************************)
(* The generated Workspace listers of tenancy.kcp.io/v1alpha1 over the      *)
(* informer indexers that feed them.                                       *)
(*                                                                         *)
(*  - workspaceClusterLister reads an indexer fed by a cross-workspace      *)
(*    LIST+WATCH, keyed by kcpcache.MetaClusterNamespaceKeyFunc and indexed *)
(*    by cluster; Cluster(c) scopes it to one logical cluster.              *)
(*  - workspaceScopedLister reads an indexer fed by a LIST+WATCH of one     *)
(*    workspace, keyed by cache.MetaNamespaceKeyFunc (the bare name of a    *)
(*    cluster-scoped object).                                               *)
(*                                                                         *)
(* The informers' add, update and delete events are the actions; every     *)
(* lister read is an operator, checked in every reachable indexer state    *)
(* against what the read is meant to return.  Names are strings, modelled  *)
(* as sequences of characters, so that the key encoding is what it is.     *)
(***************************************************************************)
EXTENDS Naturals, Sequences, FiniteSets, Functions

CONSTANTS
    Clusters,     \* logical cluster names (sequences of characters)
    WsNames,      \* Workspace names (sequences of characters)
    LabelVals,    \* the labels of an object, abstracted to one value
    Selectors,    \* label selectors: the sets of LabelVals they match
    Absent

Objs == [cluster: Clusters, name: WsNames, labels: LabelVals]

VARIABLES
    indexer,   \* cross-workspace indexer: [key -> Workspace]
    scoped     \* single-workspace indexer: [key -> Workspace]

vars == <<indexer, scoped>>

-----------------------------------------------------------------------------
(* kcpcache.ToClusterAwareKey(cluster, namespace, name): "cluster|name"   *)
(* for a cluster-scoped object, "cluster|namespace/name" otherwise.        *)
ToClusterAwareKey(c, ns, n) ==
    IF ns = <<>> THEN c \o <<"|">> \o n ELSE c \o <<"|">> \o ns \o <<"/">> \o n

(* The key functions the two indexers are built with. *)
MetaClusterNamespaceKeyFunc(o) == ToClusterAwareKey(o.cluster, <<>>, o.name)
MetaNamespaceKeyFunc(o) == o.name

(* cache.ListAll: every object of the indexer whose labels match. *)
ListAll(idx, sel) == {o \in Range(idx) : o.labels \in sel}

(* kcpcache.ListAllByCluster: the objects of the ClusterIndex bucket of c  *)
(* whose labels match.                                                     *)
ListAllByCluster(idx, c, sel) == {o \in ListAll(idx, sel) : o.cluster = c}

-----------------------------------------------------------------------------
(* workspaceClusterLister.List: across all workspaces. *)
ClusterListerList(sel) == ListAll(indexer, sel)

(* workspaceClusterLister.Cluster: a workspaceLister sharing the indexer, *)
(* scoped to the logical cluster c.                                        *)
Cluster(c) == [indexer |-> indexer, clusterName |-> c]

(* workspaceLister.List: Cluster(c).List(sel). *)
ListerList(c, sel) ==
    LET s == Cluster(c) IN ListAllByCluster(s.indexer, s.clusterName, sel)

(* indexer.GetByKey, answering the object or Absent (exists = false). *)
GetByKey(idx, key) == IF key \in DOMAIN idx THEN idx[key] ELSE Absent

(* Mutant: the key built by concatenation without the separator. *)
ListerGetNoSeparator(c, n) == GetByKey(indexer, c \o n)

(* workspaceLister.Get: Cluster(c).Get(n); Absent is the NotFound error. *)
ListerGet(c, n) ==
    LET s == Cluster(c)
    IN  GetByKey(s.indexer, ToClusterAwareKey(s.clusterName, <<>>, n))

(* The logical cluster the single-workspace informer watches. *)
ScopedCluster == CHOOSE c \in Clusters : TRUE

(* workspaceScopedLister.List and Get: the key is the name. *)
ScopedList(sel) == ListAll(scoped, sel)

(* Mutant: the scoped lister using the cluster-aware key of its cluster. *)
ScopedGetClusterKey(n) == GetByKey(scoped, ToClusterAwareKey(ScopedCluster, <<>>, n))

ScopedGet(n) == GetByKey(scoped, n)

-----------------------------------------------------------------------------
(* Informer events: the reflector adds or replaces an object under its key *)
(* and removes it on delete.                                               *)
Upsert(idx, key, o) == [k \in DOMAIN idx \cup {key} |-> IF k = key THEN o ELSE idx[k]]
(* Mutant: a delete that leaves the key behind with no object. *)
RemoveTombstone(idx, key) == [k \in DOMAIN idx |-> IF k = key THEN Absent ELSE idx[k]]

Remove(idx, key) == [k \in DOMAIN idx \ {key} |-> idx[k]]

ClusterEvent(o) ==
    /\ indexer' = Upsert(indexer, MetaClusterNamespaceKeyFunc(o), o)
    /\ UNCHANGED scoped

ClusterDelete(o) ==
    /\ MetaClusterNamespaceKeyFunc(o) \in DOMAIN indexer
    /\ indexer' = Remove(indexer, MetaClusterNamespaceKeyFunc(o))
    /\ UNCHANGED scoped

ScopedEvent(o) ==
    /\ o.cluster = ScopedCluster
    /\ scoped' = Upsert(scoped, MetaNamespaceKeyFunc(o), o)
    /\ UNCHANGED indexer

ScopedDelete(o) ==
    /\ o.cluster = ScopedCluster
    /\ MetaNamespaceKeyFunc(o) \in DOMAIN scoped
    /\ scoped' = Remove(scoped, MetaNamespaceKeyFunc(o))
    /\ UNCHANGED indexer

Init ==
    /\ indexer = [k \in {} |-> Absent]
    /\ scoped = [k \in {} |-> Absent]

Next ==
    \E o \in Objs :
        \/ ClusterEvent(o) \/ ClusterDelete(o)
        \/ ScopedEvent(o) \/ ScopedDelete(o)

Spec == Init /\ [][Next]_vars

-----------------------------------------------------------------------------
TypeOK ==
    /\ Range(indexer) \subseteq Objs
    /\ Range(scoped) \subseteq Objs

(* The workspaces of logical cluster c named n, whatever the keys are. *)
Stored(idx, c, n) == {o \in Range(idx) : o.cluster = c /\ o.name = n}

(* Cluster(c).Get(n) finds the workspace n of cluster c, and only it,     *)
(* after any sequence of informer events, also when another cluster's     *)
(* name and workspace name concatenate to the same string.                *)
ClusterGetExact ==
    \A c \in Clusters, n \in WsNames :
        IF Stored(indexer, c, n) = {} THEN ListerGet(c, n) = Absent
        ELSE ListerGet(c, n) \in Stored(indexer, c, n)

(* The scoped lister's Get and List agree: Get(n) finds a workspace       *)
(* exactly when List over every label returns one named n.                *)
ScopedGetAgreesWithList ==
    \A n \in WsNames :
        IF \E o \in ScopedList(LabelVals) : o.name = n
        THEN ScopedGet(n) \in ScopedList(LabelVals) /\ ScopedGet(n).name = n
        ELSE ScopedGet(n) = Absent

====
