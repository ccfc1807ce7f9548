SPECIFICATION Spec
CONSTANTS
    m1 = m1
    m2 = m2
    n1 = n1
    n2 = n2
    r1 = r1
    r2 = r2
    s1 = s1
    s2 = s2
    Machines = {m1, m2}
    Names = {n1, n2}
    Requests = {r1, r2}
    ServerIds = {s1, s2}
SYMMETRY Symmetry
CHECK_DEADLOCK FALSE
INVARIANTS ExclusiveBinding ExclusiveOwnership
