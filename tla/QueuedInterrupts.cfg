SPECIFICATION Spec
CONSTANTS
    m1 = m1
    m2 = m2
    m3 = m3
    q1 = q1
    j1 = j1
    Msg <- ThreeMsgs
    Redo <- NoRequest
    Join <- NoRequest
    Way <- AnyWay
    Env = {}
    MaxRound = 0
    MaxCrash = 0
SYMMETRY MsgSymmetry
PROPERTIES QueuedNeverInterrupts
CHECK_DEADLOCK FALSE
