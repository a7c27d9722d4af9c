CONSTANTS
    a1 = a1
    a2 = a2
    l1 = l1
    l2 = l2
    s1 = s1
    t1 = t1
    t2 = t2
    Names = {a1}
    LabelVals = {l1, l2}
    Specs = {s1}
    Statuses = {t1, t2}
    Selectors <- MCSelectors
    Nil = Nil
    Absent = Absent
    Empty = Empty
    MaxActions = 3
SPECIFICATION Spec
CHECK_DEADLOCK FALSE
INVARIANT TypeOK
PROPERTY OneActionPerCall
PROPERTY ClientsStayApart
