SPECIFICATION TurnSpec
CONSTANTS
    t1 = t1
    t2 = t2
    r1 = r1
    c1 = c1
    h1 = h1
    h2 = h2
    s1 = s1
    s2 = s2
    Peer <- TwoThoughts
    Fork <- OneFork
    ThoughtEnv = {"append failure", "llm failure", "abort", "task cancel", "crash"}
    N = 2
    Click <- OneClick
    Mode = {"continue"}
    Env = {"refuse", "task cancel"}
    MaxCrash = 1
    HostCall <- TwoHostCalls
    HEnv = {"deploy fails", "slow start", "death", "abort", "shutdown", "inner process"}
    SerialCall <- TwoSerialCalls
    MaxOutage = 1
INVARIANTS TurnTypeOK OnePlannerAfterAll SettledStatus OneCommandAtATime NoneWaitForTheDead
PROPERTIES TurnGoesOn SettledBatchReacts CallReturns CallsSettle AbortReachesCommand CancelledNotTyped CommandsReturn
CHECK_DEADLOCK FALSE
