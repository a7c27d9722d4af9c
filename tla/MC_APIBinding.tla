--------------------------- MODULE MC_APIBinding ---------------------------
(* Instantiations of APIBindingReconciler for TLC.                         *)
EXTENDS APIBindingReconciler, TLC

CONSTANTS b1, b2, e1, e2, e3, e4, e5, u1, u2, u3, u4, u5, gr1, v1, v2

\* A schema serving gr1 in two versions (storage v2) with a conversion.
Widgets2 == [resource |-> gr1, versions |-> {v1, v2}, storage |-> v2,
             conversion |-> TRUE, rawValid |-> TRUE]
\* Another schema for gr1 (a different UID) with one version.
Widgets1 == [resource |-> gr1, versions |-> {v1}, storage |-> v1,
             conversion |-> FALSE, rawValid |-> TRUE]
\* Two versions and no conversion strategy: generateCRD rejects it.
NoConversion == [Widgets2 EXCEPT !.conversion = FALSE]

(* Race: two bindings of the same consumer cluster, each referencing       *)
(* either of two exports whose schemas (distinct UIDs) both serve gr1.     *)
RaceExports == {e1, e2}
RaceSchemas == {u1, u2}
RaceExportSchema == (e1 :> u1) @@ (e2 :> u2)
RaceSchemaSpec == (u1 :> Widgets2) @@ (u2 :> Widgets1)
RacePreBound == <<>>

(* Status: binding b1 references no export, a good one, one whose schema   *)
(* generateCRD rejects, one whose schema is missing, or one whose CRD the  *)
(* server rejects; b2 is a peer Bound to gr1 before the lock map knew it.  *)
StatusExports == {e1, e2, e3, e4, e5}
StatusSchemas == {u1, u2, u3, u4, u5}
StatusExportSchema == (e1 :> u1) @@ (e2 :> u2) @@ (e3 :> u3) @@ (e4 :> u4) @@ (e5 :> u5)
StatusSchemaSpec ==
    (u1 :> Widgets2) @@ (u2 :> Widgets1) @@ (u3 :> NoConversion)
    @@ (u4 :> Widgets1) @@ (u5 :> Widgets1)
StatusRefs == {NoExportRef, e1, e2, e3, e4, e5}
StatusPreBound == (b2 :> e2)
=============================================================================
