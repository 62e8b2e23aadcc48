SPECIFICATION Spec
CONSTANTS
    o1 = o1
    o2 = o2
    t1 = t1
    t2 = t2
    c1 = c1
    c2 = c2
    i1 = i1
    i2 = i2
    p1 = p1
    p2 = p2
    j1 = j1
    j2 = j2
    k1 = k1
    k2 = k2
    root = root
    ann = ann
    bob = bob
    new = new
    h1 = h1
    g1 = g1
    b1 = b1
    b2 = b2
    None = None
    Unborn = Unborn
    Gone = Gone
    SuperUsers = {root}
    Auditors = {}
    Requests = {r1}
    Ids = {o1, o2, t1, t2, c1, c2, i1, i2, p1, p2, j1, j2, k1, k2, root, ann, bob, new}
    KindOf <- MCKindOf
    Names <- MCNames
    Trim <- MCTrim
    Inputs <- ListInputs
    InitialDocs <- ListDocs
CHECK_DEADLOCK FALSE
INVARIANT
    AccessListAnswers
