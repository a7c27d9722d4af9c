CONSTANTS
    b1 = b1
    b2 = b2
    e1 = e1
    e2 = e2
    e3 = e3
    e4 = e4
    e5 = e5
    u1 = u1
    u2 = u2
    u3 = u3
    u4 = u4
    u5 = u5
    gr1 = gr1
    v1 = v1
    v2 = v2
    NoExportRef = NoExportRef
    None = None
    Bindings = {b1, b2}
    Exports <- RaceExports
    SchemaUIDs <- RaceSchemas
    GroupResources = {gr1}
    Versions = {v1, v2}
    ExportSchema <- RaceExportSchema
    SchemaSpec <- RaceSchemaSpec
    MissingSchemas = {}
    RejectedSchemas = {}
    InitialRefs <- RaceExports
    PreBound <- RacePreBound
    MaxFaults = 1
    Deletable = {}

SPECIFICATION Spec
INVARIANT NoNativeOverlap
