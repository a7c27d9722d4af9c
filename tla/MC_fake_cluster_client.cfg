CONSTANTS
    c1 = c1
    c2 = c2
    b1 = b1
    l1 = l1
    l2 = l2
    s1 = s1
    t1 = t1
    t2 = t2
    Clusters = {c1, c2}
    Names = {b1}
    LabelVals = {l1, l2}
    Specs = {s1}
    Statuses = {t1, t2}
    Selectors <- MCSelectors
    Wildcard = Wildcard
    Nil = Nil
    Absent = Absent
    Empty = Empty
    MaxActions = 3
SPECIFICATION Spec
CHECK_DEADLOCK FALSE
INVARIANT TypeOK
PROPERTY ScopedCallsStayInCluster
