CONSTANTS
    b1 = b1
    b2 = b2
    e1 = e1
    e2 = e2
    e3 = e3
    e4 = e4
    e5 = e5
    u1 = u1
    u2 = u2
    u3 = u3
    u4 = u4
    u5 = u5
    gr1 = gr1
    v1 = v1
    v2 = v2
    NoExportRef = NoExportRef
    None = None
    Bindings = {b1, b2}
    Exports <- StatusExports
    SchemaUIDs <- StatusSchemas
    GroupResources = {gr1}
    Versions = {v1, v2}
    ExportSchema <- StatusExportSchema
    SchemaSpec <- StatusSchemaSpec
    MissingSchemas = {u4}
    RejectedSchemas = {u5}
    InitialRefs <- StatusRefs
    PreBound <- StatusPreBound
    MaxFaults = 1
    Deletable = {b2}
SPECIFICATION Spec
INVARIANT ServedSlotsAgree
