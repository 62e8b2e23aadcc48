SPECIFICATION Spec
CONSTANTS
    n1 = n1  n2 = n2  a1 = a1  a2 = a2  t1 = t1  u1 = u1  u2 = u2
    p1 = p1  ta = ta  tt = tt
    Node = {n1, n2}
    AnsibleJob = {a1}
    TerraformJob = {t1}
    UpdateJob = {u1}
    Project = {p1}
    Template = {ta, tt}
    ProjectOf <- OneProject
    TemplateOf <- OneTemplateEach
    Delivery <- MCJob
    NoJob = NoJob
    MaxLostWrites = 1
    MaxCrashes = 1
    Removable = {}
SYMMETRY Interchangeable
INVARIANT TypeOK
INVARIANT OnePlace
INVARIANT RedeliveryIsFirstRun
INVARIANT RunsAfterUpdate
INVARIANT ErrorMeansUpdateFailed
PROPERTY StatusMovesForward
CHECK_DEADLOCK FALSE
