SPECIFICATION FairSpec
CONSTANTS
    a1 = a1  a2 = a2  s1 = s1  t1 = t1
    JobRun = {a1, a2, s1, t1}
    KindOf <- MCKindOf
    KeyOf <- MCKeyOf
    CloudFile = {a1, t1}
    MaxCrashes = 1
INVARIANT TypeOK
INVARIANT FilesOutliveCommand
INVARIANT LeftoversMeanNoCommand
INVARIANT OneCommandAtATime
PROPERTY EveryRunEnds
CHECK_DEADLOCK FALSE
