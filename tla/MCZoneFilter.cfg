SPECIFICATION FairSpec
CONSTANTS
    Zones = {z1, z2}
    Callbacks = {c1, c2}
    Boot = Boot
    Sub = Sub
    None = None
    Threshold = 2
    MaxChanges = 3
INVARIANTS
    TypeOK
    AbsenceIsExplained
    RebuildIsScheduled
    Inv
PROPERTY RebuildFollows
