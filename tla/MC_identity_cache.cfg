CONSTANTS
    x1 = x1
    x2 = x2
    h1 = h1
    h2 = h2
    k1 = k1
    k2 = k2
    Exports = {x1, x2}
    Keys = {k1, k2}
    NoSecret = NoSecret
    HashOf <- MCHashOf
    Hashes = {h1, h2}
    NoExport = NoExport
    NoHash = NoHash
    MaxChanges = 2
    MaxFaults = 1
SPECIFICATION FairSpec
CHECK_DEADLOCK FALSE
INVARIANT TypeOK
PROPERTY Converges
PROPERTY IdentitySettles
