CONSTANTS
    get = get
    list = list
    watch = watch
    RPtrs = {r1}
    CPtrs = {c1}
    DPtrs = {d1}
    SPtrs = {s1}
    Arrs = {A1, A2, A3, A4}
    Vals = {v1}
    StorageVals = {sv1, sv2}
    VerbVals = {get, list, watch}
    VerbArgs <- MCVerbArgs
    MaxVerbs = 4
    Nil = Nil
    Unalloc = Unalloc
    Zero = Zero
SPECIFICATION Spec
CHECK_DEADLOCK FALSE
INVARIANT TypeOK
