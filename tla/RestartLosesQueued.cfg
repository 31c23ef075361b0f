SPECIFICATION Spec
CONSTANTS
    m1 = m1
    m2 = m2
    m3 = m3
    q1 = q1
    j1 = j1
    Msg <- TwoMsgs
    Redo <- NoRequest
    Join <- NoRequest
    Way <- AnyWay
    Env = {}
    MaxRound = 0
    MaxCrash = 1
INVARIANTS QueuedTextSurvives
CHECK_DEADLOCK FALSE
