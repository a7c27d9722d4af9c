CONSTANTS
    get = get
    list = list
    watch = watch
    RPtrs = {}
    CPtrs = {c1, c2}
    DPtrs = {}
    SPtrs = {}
    Arrs = {A1, A2, A3, A4}
    Vals = {v1}
    StorageVals = {sv1, sv2}
    VerbVals = {get, list, watch}
    VerbArgs <- MCVerbArgs
    MaxVerbs = 5
    Nil = Nil
    Unalloc = Unalloc
    Zero = Zero
SPECIFICATION SpecWithCopies
CHECK_DEADLOCK FALSE
INVARIANT VerbsAreOwnHistory
