SPECIFICATION FairSpec
CONSTANTS
    c1 = c1
    c2 = c2
    N = 2
    Click <- NoClick
    Mode <- BothModes
    Env = {}
    MaxCrash = 0
PROPERTIES EveryMemberSettles
CHECK_DEADLOCK FALSE
