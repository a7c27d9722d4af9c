CONSTANTS
    l1 = l1
    l2 = l2
    l3 = l3
    Clusters <- MCClusters
    WsNames <- MCWsNames
    LabelVals = {l1, l2, l3}
    Selectors <- MCSelectors
    Absent = Absent
SPECIFICATION Spec
INVARIANT TypeOK
INVARIANT ClusterGetExact
INVARIANT ScopedGetAgreesWithList
