SPECIFICATION Spec
CONSTANTS
    m1 = m1
    m2 = m2
    m3 = m3
    q1 = q1
    j1 = j1
    Msg <- TwoMsgs
    Redo <- NoRequest
    Join <- OneJoin
    Way <- AnyWay
    Env = {"dequeue","cancel","side","root failure"}
    MaxRound = 1
    MaxCrash = 1
SYMMETRY PairSymmetry
INVARIANTS TypeOK SlotHoldsLiveRun DeliveredOnce
PROPERTIES JoinKeepsOwner QueuedTextHandedOn
CHECK_DEADLOCK FALSE
