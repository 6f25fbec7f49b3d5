SPECIFICATION FairSpec
CONSTANTS
    Ids = {i1, i2}
    Names = {a}
    None = None
    Calls = {c1, c2}
    MaxCommits = 2
INVARIANTS
    TypeOK
    ListIsCurrent
    EditsStayTheirs
    Inv
PROPERTIES
    ListNeverGoesBack
    AnswersKeepOtherInput
    OwnChangesAreShown
