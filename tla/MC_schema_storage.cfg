CONSTANTS
    n1 = n1
    n2 = n2
    x1 = x1
    v1 = v1
    v2 = v2
    V1 = V1
    p0 = p0
    p1 = p1
    Nil = Nil
    Absent = Absent
    Names = {n1, n2}
    ExportNames = {x1}
    VersionNames = {v1, v2}
    OtherNames = {V1}
    Props = {p0, p1}
    Candidates <- SubmittedSchemas
    ConversionCandidates <- SubmittedConversions
SPECIFICATION Spec
INVARIANT StoredSchemasHaveOneStorageVersion
