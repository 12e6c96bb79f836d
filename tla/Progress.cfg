CONSTANTS
    a1 = a1
    e1 = e1
    i1 = i1
    k1 = k1
    n1 = n1
    p1 = p1
    p2 = p2
    q1 = q1
    r1 = r1
    s1 = s1
    None = None
    NoAddress = NoAddress
    Unread = Unread
SPECIFICATION MCFairSpec
CHECK_DEADLOCK FALSE
PROPERTY NothingStaysOwed
