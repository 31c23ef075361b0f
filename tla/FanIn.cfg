SPECIFICATION Spec
CONSTANTS
    c1 = c1
    c2 = c2
    N = 2
    Click <- TwoClicks
    Mode = {"continue"}
    Env = {"llm failure", "cancel", "post", "edit", "switch off"}
    MaxCrash = 1
SYMMETRY ClickSymmetry
INVARIANTS TypeOK OneReaction RunningHasExecutor
PROPERTIES ReactsToDecidedBatch BlockedStaysBlocked ImplementsBatch
CHECK_DEADLOCK FALSE
