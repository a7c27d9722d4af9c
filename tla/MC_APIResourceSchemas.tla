----------------------- MODULE MC_APIResourceSchemas -----------------------
(* Two schema names, one export, versions v1 and v2 (and V1, which fails  *)
(* the version pattern), and the schema specs clients submit: one for      *)
(* each validation outcome of the type.                                    *)
EXTENDS APIResourceSchemas, TLC

CONSTANTS n1, n2, x1, v1, v2, V1, p0, p1

Ver(name, storage, raw) ==
    [name |-> name, storage |-> storage, deprecated |-> FALSE, warning |-> FALSE, raw |-> raw]
Spec1(vs, conv) ==
    [scope |-> "Namespaced", nameValidation |-> "", versions |-> vs, conversion |-> conv]
ConvNone == [strategy |-> "None", webhook |-> FALSE]
ConvWebhookMissing == [strategy |-> "Webhook", webhook |-> FALSE]

SubmittedSchemas == {
    Spec1(<<Ver(v1, TRUE, RawJSON(p1))>>, Nil),                              \* today.widgets
    Spec1(<<Ver(v1, FALSE, RawJSON(p1)), Ver(v2, TRUE, RawJSON(p1))>>, ConvNone),
    Spec1(<<Ver(v1, TRUE, RawJSON(p1)), Ver(v2, FALSE, RawJSON(p1))>>, Nil), \* no conversion
    Spec1(<<Ver(v1, FALSE, RawJSON(p1)), Ver(v2, FALSE, RawJSON(p1))>>, ConvNone), \* no storage
    Spec1(<<Ver(v1, TRUE, RawOf("mistyped"))>>, Nil),                        \* "invalid schema"
    Spec1(<<Ver(v1, TRUE, RawJSON(p1)), Ver(v1, FALSE, RawJSON(p1))>>, ConvNone), \* duplicate name
    Spec1(<<Ver(V1, TRUE, RawJSON(p1))>>, Nil),                              \* bad version name
    Spec1(<<Ver(v1, TRUE, RawJSON(p1)), Ver(v2, FALSE, RawJSON(p1))>>, ConvWebhookMissing),
    Spec1(<<>>, Nil),                                                        \* no versions
    [Spec1(<<Ver(v1, TRUE, RawJSON(p1))>>, Nil) EXCEPT !.scope = "Other"],
    [Spec1(<<Ver(v1, TRUE, RawJSON(p1))>>, Nil) EXCEPT !.nameValidation = "Other"]}

SubmittedConversions == {
    [conversions |-> <<[from |-> v1, to |-> v2, rules |-> <<[field |-> TRUE, destination |-> "d1"]>>]>>],
    [conversions |-> <<[from |-> v1, to |-> v2,
                        rules |-> <<[field |-> TRUE, destination |-> "d1"],
                                    [field |-> TRUE, destination |-> "d1"]>>]>>]}
=============================================================================
