------------------------ MODULE ApplyConfigurations ------------------------
(***************************************************************************)
(* The generated apply-configuration builders ResourceApplyConfiguration   *)
(* and PermissionClaimApplyConfiguration (apis.kcp.io/v1alpha2) and        *)
(* ConditionApplyConfiguration (conditions/v1alpha1), with the Go memory   *)
(* they act on.                                                            *)
(*                                                                         *)
(* A builder is a pointer into a heap.  A scalar With* stores a pointer to *)
(* a copy of its argument, so the field simply takes the value; WithStorage *)
(* stores the caller's pointer itself; WithVerbs appends to a slice, which *)
(* is (backing array, len, cap) with Go's append: written in place while   *)
(* len < cap, else copied into a new array of twice the capacity.          *)
(* Arrays that no slice refers to any more are collected.                  *)
(***************************************************************************)
EXTENDS Naturals, Sequences, FiniteSets

CONSTANTS
    RPtrs,      \* ResourceApplyConfiguration pointers
    CPtrs,      \* PermissionClaimApplyConfiguration pointers
    DPtrs,      \* ConditionApplyConfiguration pointers
    SPtrs,      \* ResourceSchemaStorageApplyConfiguration pointers
    Arrs,       \* backing arrays of []string
    Vals,       \* string (and enum, time) values passed to With*
    StorageVals,\* contents of a storage configuration
    VerbVals,   \* verbs
    VerbArgs,   \* the argument lists WithVerbs is called with
    MaxVerbs,   \* bound on the verbs one slice may hold
    Nil, Unalloc, Zero

CondFields == {"type", "status", "severity", "lastTransitionTime", "reason", "message"}

VARIABLES
    res,      \* [RPtrs -> [name, group, schema, storage] \cup {Unalloc}]
    sto,      \* [SPtrs -> StorageVals \cup {Unalloc}]
    claims,   \* [CPtrs -> [group, resource, verbs, identityHash] \cup {Unalloc}]
    arr,      \* [Arrs -> Seq(VerbVals \cup {Zero})]: cells, length = capacity
    conds,    \* [DPtrs -> [CondFields -> Vals \cup {Nil}] \cup {Unalloc}]
    hist      \* ghost: [CPtrs -> Seq(VerbVals)], the verbs appended through
              \* each claim builder, in order (copied with the builder)

vars == <<res, sto, claims, arr, conds, hist>>

NilSlice == [a |-> Nil, len |-> 0, cap |-> 0]

-----------------------------------------------------------------------------
(* Resource(), PermissionClaim(), Condition(): a new zero configuration. *)
Resource(p) ==
    /\ res[p] = Unalloc
    /\ res' = [res EXCEPT ![p] = [name |-> Nil, group |-> Nil, schema |-> Nil,
                                  storage |-> Nil]]
    /\ UNCHANGED <<sto, claims, arr, conds, hist>>

PermissionClaim(p) ==
    /\ claims[p] = Unalloc
    /\ claims' = [claims EXCEPT ![p] = [group |-> Nil, resource |-> Nil,
                                        verbs |-> NilSlice, identityHash |-> Nil]]
    /\ hist' = [hist EXCEPT ![p] = <<>>]
    /\ UNCHANGED <<res, sto, arr, conds>>

(* Mutant: a zero configuration whose fields are "" rather than unset. *)
ConditionZeroEmpty(p) ==
    /\ conds[p] = Unalloc
    /\ conds' = [conds EXCEPT ![p] = [f \in CondFields |-> Zero]]
    /\ UNCHANGED <<res, sto, claims, arr, hist>>

Condition(p) ==
    /\ conds[p] = Unalloc
    /\ conds' = [conds EXCEPT ![p] = [f \in CondFields |-> Nil]]
    /\ UNCHANGED <<res, sto, claims, arr, hist>>

(* The caller builds a storage configuration, or changes one it holds. *)
BuildStorage(s, v) ==
    /\ sto' = [sto EXCEPT ![s] = v]
    /\ UNCHANGED <<res, claims, arr, conds, hist>>

-----------------------------------------------------------------------------
(* ResourceApplyConfiguration.With*: the field of the receiver is set,     *)
(* the last call winning.                                                  *)
ResourceSet(p, f, v) ==
    /\ res[p] # Unalloc
    /\ res' = [res EXCEPT ![p][f] = v]
    /\ UNCHANGED <<sto, claims, arr, conds, hist>>

WithName(p, v) == ResourceSet(p, "name", v)
WithGroup(p, v) == ResourceSet(p, "group", v)
WithSchema(p, v) == ResourceSet(p, "schema", v)

(* WithStorage keeps the pointer it is given. *)
WithStorage(p, s) == ResourceSet(p, "storage", s)

-----------------------------------------------------------------------------
(* The verbs a slice reads as. *)
SliceVal(sl, heap) ==
    IF sl.a = Nil THEN <<>> ELSE [i \in 1..sl.len |-> heap[sl.a][i]]

Live(heap) == {a \in Arrs : heap[a] # <<>>}

(* append(s, v) on the heap: in place while there is room, otherwise into *)
(* a fresh array of double capacity (1 for a nil slice) holding a copy.   *)
AppendOne(st, v) ==
    LET sl == st.slice  heap == st.heap IN
    IF sl.len < sl.cap
    THEN [slice |-> [sl EXCEPT !.len = @ + 1],
          heap  |-> [heap EXCEPT ![sl.a][sl.len + 1] = v]]
    ELSE LET c == IF sl.cap = 0 THEN 1 ELSE 2 * sl.cap
             a == CHOOSE x \in Arrs : x \notin Live(heap)
         IN [slice |-> [a |-> a, len |-> sl.len + 1, cap |-> c],
             heap  |-> [heap EXCEPT ![a] =
                          [i \in 1..c |-> IF i <= sl.len THEN heap[sl.a][i]
                                          ELSE IF i = sl.len + 1 THEN v
                                          ELSE Zero]]]

(* The loop of WithVerbs: for i := range values, append values[i]. *)
RECURSIVE AppendAll(_, _)
AppendAll(st, vs) ==
    IF vs = <<>> THEN st ELSE AppendAll(AppendOne(st, Head(vs)), Tail(vs))

(* Go's collector: arrays no slice refers to are free again. *)
Collect(heap, cl) ==
    [a \in Arrs |-> IF \E q \in CPtrs : cl[q] # Unalloc /\ cl[q].verbs.a = a
                    THEN heap[a] ELSE <<>>]

(* The array pool bounds the heap: each append of a call may need a fresh *)
(* array, and the arrays it abandons are collected only after the call.  *)
ArraysFree(n) == Cardinality(Arrs \ Live(arr)) >= n

ClaimSet(p, f, v) ==
    /\ claims[p] # Unalloc
    /\ claims' = [claims EXCEPT ![p][f] = v]
    /\ UNCHANGED <<res, sto, arr, conds, hist>>

ClaimWithGroup(p, v) == ClaimSet(p, "group", v)
ClaimWithResource(p, v) == ClaimSet(p, "resource", v)
ClaimWithIdentityHash(p, v) == ClaimSet(p, "identityHash", v)

WithVerbs(p, vs) ==
    /\ claims[p] # Unalloc
    /\ claims[p].verbs.len + Len(vs) <= MaxVerbs
    /\ ArraysFree(Len(vs))
    /\ LET st == AppendAll([slice |-> claims[p].verbs, heap |-> arr], vs)
           cl == [claims EXCEPT ![p].verbs = st.slice]
       IN /\ claims' = cl
          /\ arr' = Collect(st.heap, cl)
    /\ hist' = [hist EXCEPT ![p] = @ \o vs]
    /\ UNCHANGED <<res, sto, conds>>

(* `*dst = *src`: the struct copied by value, as a parent configuration's *)
(* WithPermissionClaims does; the copy shares the verbs' backing array.   *)
CopyClaim(src, dst) ==
    /\ src # dst
    /\ claims[src] # Unalloc
    /\ claims' = [claims EXCEPT ![dst] = claims[src]]
    /\ arr' = Collect(arr, claims')
    /\ hist' = [hist EXCEPT ![dst] = hist[src]]
    /\ UNCHANGED <<res, sto, conds>>

-----------------------------------------------------------------------------
(* ConditionApplyConfiguration.With*: one field each, last call wins. *)
CondSet(p, f, v) ==
    /\ conds[p] # Unalloc
    /\ conds' = [conds EXCEPT ![p][f] = v]
    /\ UNCHANGED <<res, sto, claims, arr, hist>>

WithType(p, v) == CondSet(p, "type", v)
WithStatus(p, v) == CondSet(p, "status", v)
WithSeverity(p, v) == CondSet(p, "severity", v)
WithLastTransitionTime(p, v) == CondSet(p, "lastTransitionTime", v)
WithReason(p, v) == CondSet(p, "reason", v)
WithMessage(p, v) == CondSet(p, "message", v)

-----------------------------------------------------------------------------
Init ==
    /\ res = [p \in RPtrs |-> Unalloc]
    /\ sto = [s \in SPtrs |-> Unalloc]
    /\ claims = [p \in CPtrs |-> Unalloc]
    /\ arr = [a \in Arrs |-> <<>>]
    /\ conds = [p \in DPtrs |-> Unalloc]
    /\ hist = [p \in CPtrs |-> <<>>]

(* What a program does with the builders it holds. *)
Next ==
    \/ \E p \in RPtrs :
          \/ Resource(p)
          \/ \E v \in Vals : WithName(p, v) \/ WithGroup(p, v) \/ WithSchema(p, v)
          \/ \E s \in SPtrs : sto[s] # Unalloc /\ WithStorage(p, s)
    \/ \E s \in SPtrs, v \in StorageVals : BuildStorage(s, v)
    \/ \E p \in CPtrs :
          \/ PermissionClaim(p)
          \/ \E v \in Vals : ClaimWithGroup(p, v) \/ ClaimWithResource(p, v)
                              \/ ClaimWithIdentityHash(p, v)
          \/ \E vs \in VerbArgs : WithVerbs(p, vs)
    \/ \E p \in DPtrs :
          \/ Condition(p)
          \/ \E v \in Vals :
                \/ WithType(p, v) \/ WithStatus(p, v) \/ WithSeverity(p, v)
                \/ WithLastTransitionTime(p, v) \/ WithReason(p, v) \/ WithMessage(p, v)

Spec == Init /\ [][Next]_vars

(* The same program when it also copies a claim configuration by value. *)
NextWithCopies == Next \/ \E src, dst \in CPtrs : CopyClaim(src, dst)

SpecWithCopies == Init /\ [][NextWithCopies]_vars

-----------------------------------------------------------------------------
Slices == [a: Arrs \cup {Nil}, len: 0..MaxVerbs, cap: 0..2 * MaxVerbs]

TypeOK ==
    /\ res \in [RPtrs -> [name: Vals \cup {Nil}, group: Vals \cup {Nil},
                          schema: Vals \cup {Nil}, storage: SPtrs \cup {Nil}]
                         \cup {Unalloc}]
    /\ sto \in [SPtrs -> StorageVals \cup {Unalloc}]
    /\ claims \in [CPtrs -> [group: Vals \cup {Nil}, resource: Vals \cup {Nil},
                             verbs: Slices, identityHash: Vals \cup {Nil}]
                            \cup {Unalloc}]
    /\ conds \in [DPtrs -> [CondFields -> Vals \cup {Nil}] \cup {Unalloc}]

(* WithVerbs appends: after any sequence of calls on any builders, each    *)
(* claim configuration's Verbs read as every value passed to its WithVerbs *)
(* calls, in call order, none lost or overwritten when the backing array   *)
(* grows or is written in place.                                           *)
VerbsAreOwnHistory ==
    \A p \in CPtrs : claims[p] # Unalloc => SliceVal(claims[p].verbs, arr) = hist[p]

====
