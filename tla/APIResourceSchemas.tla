------------------------- MODULE APIResourceSchemas -------------------------
(***************************************************************************)
(* The APIResourceSchema and APIConversion types of apis.kcp.io/v1alpha1   *)
(* as the apiserver admits them, and a workspace that stores them beside   *)
(* the APIExports that reference schemas by name.                          *)
(*                                                                         *)
(* The validation the types declare (kubebuilder markers: enums, MinItems, *)
(* MinLength, patterns, list-map keys, CEL rules) and their defaults are   *)
(* operators.  A schema is immutable and, by the type's doc comment, cannot *)
(* be deleted while an APIExport of the workspace references it.           *)
(***************************************************************************)
EXTENDS Naturals, Sequences, FiniteSets

CONSTANTS
    Names,            \* object names of schemas (and of their conversions)
    ExportNames,      \* APIExports of the workspace
    VersionNames,     \* version names matching ^v[1-9][0-9]*([a-z]+[1-9][0-9]*)?$
    OtherNames,       \* non-empty names that do not match the pattern
    Props,            \* typed structural schemas (JSONSchemaProps values)
    Candidates,       \* APIResourceSchemaSpecs clients submit
    ConversionCandidates, \* APIConversionSpecs clients submit
    Nil, Absent

-----------------------------------------------------------------------------
(* runtime.RawExtension.Raw of a version: nil, bytes of no length, the     *)
(* JSON literal null, a JSON object that does not unmarshal into a        *)
(* JSONSchemaProps (a field of the wrong JSON type), or the JSON of props. *)
RawNil == [kind |-> "nil", props |-> Nil]
RawOf(k) == [kind |-> k, props |-> Nil]
RawJSON(p) == [kind |-> "json", props |-> p]
Raws == {RawNil} \cup {RawOf(k) : k \in {"empty", "null", "mistyped"}}
            \cup {RawJSON(p) : p \in Props}

-----------------------------------------------------------------------------
(* APIResourceSchemaSpec, abstracted to the fields the type validates.     *)
(* conversion is Nil or [strategy, webhook]; nameValidation "" is unset.   *)
Versions == [name: VersionNames \cup OtherNames, storage: BOOLEAN,
             deprecated: BOOLEAN, warning: BOOLEAN, raw: Raws]
Conversions == {Nil} \cup [strategy: {"None", "Webhook", "Other"}, webhook: BOOLEAN]
Specs == [scope: {"Cluster", "Namespaced", "Other"},
          nameValidation: {"", "DNS1123Subdomain", "PathSegmentName", "Other"},
          versions: Seq(Versions), conversion: Conversions]

(* The +kubebuilder:default of nameValidation, applied before validation. *)
Default(s) ==
    [s EXCEPT !.nameValidation = IF @ = "" THEN "DNS1123Subdomain" ELSE @]

VersionNamesOf(s) == {s.versions[i].name : i \in DOMAIN s.versions}

(* +listType=map with +listMapKey=name: no two versions share a name.     *)
UniqueVersionNames(s) == Cardinality(VersionNamesOf(s)) = Len(s.versions)

(* The strategy enum and the CEL rule of CustomResourceConversion:      *)
(* strategy None without a webhook, or Webhook with one.                 *)
ConversionValid(c) ==
    IF c = Nil THEN TRUE
    ELSE \/ c.strategy = "None" /\ ~c.webhook
         \/ c.strategy = "Webhook" /\ c.webhook

(* Mutant: the scope enum marker missing from the generated CRD schema. *)
SpecValidNoScopeEnum(s) ==
    /\ s.nameValidation \in {"DNS1123Subdomain", "PathSegmentName"}
    /\ Len(s.versions) >= 1
    /\ UniqueVersionNames(s)
    /\ VersionNamesOf(s) \subseteq VersionNames
    /\ Len(s.versions) = 1 \/ (Len(s.versions) > 1 /\ s.conversion # Nil)
    /\ ConversionValid(s.conversion)
    /\ \A i \in DOMAIN s.versions : s.versions[i].raw.kind \in {"json", "mistyped"}

(* Everything the schema of APIResourceSchemaSpec requires.  The raw      *)
(* schema is a required object whose unknown fields are preserved: any     *)
(* JSON object passes, whether or not it unmarshals into JSONSchemaProps.  *)
SpecValid(s) ==
    /\ s.scope \in {"Cluster", "Namespaced"}
    /\ s.nameValidation \in {"DNS1123Subdomain", "PathSegmentName"}
    /\ Len(s.versions) >= 1
    /\ UniqueVersionNames(s)
    /\ VersionNamesOf(s) \subseteq VersionNames
    /\ Len(s.versions) = 1 \/ (Len(s.versions) > 1 /\ s.conversion # Nil)
    /\ ConversionValid(s.conversion)
    /\ \A i \in DOMAIN s.versions : s.versions[i].raw.kind \in {"json", "mistyped"}

(* APIConversionSpec: conversions keyed by (from, to), rules keyed by      *)
(* destination; from and to match the version pattern, field and          *)
(* destination are non-empty.                                              *)
Rules == [field: BOOLEAN, destination: {"", "d1", "d2"}]
ConversionSpecs == [conversions: Seq([from: VersionNames \cup OtherNames,
                                      to: VersionNames \cup OtherNames,
                                      rules: Seq(Rules)])]

RuleSetValid(rs) ==
    /\ \A i \in DOMAIN rs : rs[i].field /\ rs[i].destination # ""
    /\ \A i, j \in DOMAIN rs : i # j => rs[i].destination # rs[j].destination

ConversionSpecValid(cs) ==
    LET cv == cs.conversions IN
    /\ \A i \in DOMAIN cv :
          /\ {cv[i].from, cv[i].to} \subseteq VersionNames
          /\ RuleSetValid(cv[i].rules)
    /\ \A i, j \in DOMAIN cv :
          i # j => <<cv[i].from, cv[i].to>> # <<cv[j].from, cv[j].to>>

-----------------------------------------------------------------------------
VARIABLES
    schemas,      \* [Names -> Specs \cup {Absent}]
    exports,      \* [ExportNames -> SUBSET Names \cup {Absent}]: referenced schemas
    conversions   \* [Names -> ConversionSpecs \cup {Absent}]

vars == <<schemas, exports, conversions>>

Referenced(n) == \E x \in ExportNames : exports[x] # Absent /\ n \in exports[x]

(* create: defaulting, then validation; an existing name is AlreadyExists. *)
CreateSchema(n, c) ==
    /\ schemas[n] = Absent
    /\ SpecValid(Default(c))
    /\ schemas' = [schemas EXCEPT ![n] = Default(c)]
    /\ UNCHANGED <<exports, conversions>>

(* An APIResourceSchema cannot be deleted while an APIExport references it. *)
DeleteSchema(n) ==
    /\ schemas[n] # Absent
    /\ ~Referenced(n)
    /\ schemas' = [schemas EXCEPT ![n] = Absent]
    /\ UNCHANGED <<exports, conversions>>

(* An export may name schemas that do not exist (yet). *)
CreateExport(x, refs) ==
    /\ exports[x] = Absent
    /\ exports' = [exports EXCEPT ![x] = refs]
    /\ UNCHANGED <<schemas, conversions>>

UpdateExport(x, refs) ==
    /\ exports[x] \notin {Absent, refs}
    /\ exports' = [exports EXCEPT ![x] = refs]
    /\ UNCHANGED <<schemas, conversions>>

DeleteExport(x) ==
    /\ exports[x] # Absent
    /\ exports' = [exports EXCEPT ![x] = Absent]
    /\ UNCHANGED <<schemas, conversions>>

CreateConversion(n, cs) ==
    /\ conversions[n] = Absent
    /\ ConversionSpecValid(cs)
    /\ conversions' = [conversions EXCEPT ![n] = cs]
    /\ UNCHANGED <<schemas, exports>>

DeleteConversion(n) ==
    /\ conversions[n] # Absent
    /\ conversions' = [conversions EXCEPT ![n] = Absent]
    /\ UNCHANGED <<schemas, exports>>

Init ==
    /\ schemas = [n \in Names |-> Absent]
    /\ exports = [x \in ExportNames |-> Absent]
    /\ conversions = [n \in Names |-> Absent]

Next ==
    \/ \E n \in Names, c \in Candidates : CreateSchema(n, c)
    \/ \E n \in Names : DeleteSchema(n) \/ DeleteConversion(n)
    \/ \E x \in ExportNames, refs \in SUBSET Names :
          CreateExport(x, refs) \/ UpdateExport(x, refs)
    \/ \E x \in ExportNames : DeleteExport(x)
    \/ \E n \in Names, cs \in ConversionCandidates : CreateConversion(n, cs)

Spec == Init /\ [][Next]_vars

-----------------------------------------------------------------------------
(* What a stored object can look like once defaulting and validation have  *)
(* run: the enums hold, nameValidation is set, there is a version.        *)
StoredSpecs ==
    {s \in [scope: {"Cluster", "Namespaced"},
            nameValidation: {"DNS1123Subdomain", "PathSegmentName"},
            versions: Seq(Versions), conversion: Conversions] :
        Len(s.versions) >= 1}

TypeOK ==
    /\ schemas \in [Names -> StoredSpecs \cup {Absent}]
    /\ exports \in [ExportNames -> SUBSET Names \cup {Absent}]
    /\ conversions \in [Names -> ConversionSpecs \cup {Absent}]

(* The type's comment: there must be exactly one version with storage=true *)
(* in every stored APIResourceSchema (spec, data model: "exactly one       *)
(* version has storage=true").                                             *)
StoredSchemasHaveOneStorageVersion ==
    \A n \in Names : schemas[n] # Absent =>
        Cardinality({i \in DOMAIN schemas[n].versions : schemas[n].versions[i].storage}) = 1

=============================================================================
