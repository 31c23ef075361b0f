SPECIFICATION Spec
CONSTANTS
    c1 = c1
    c2 = c2
    N = 1
    Click <- TwoClicks
    Mode <- BothModes
    Env = {}
    MaxCrash = 0
PROPERTIES DeniedNeverRuns
CHECK_DEADLOCK FALSE
