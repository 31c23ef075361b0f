SPECIFICATION SubagentSpec
CONSTANTS
    N = 1
    Click = {}
    Mode = {"continue"}
    Env = {}
    MaxCrash = 0
PROPERTIES AnswersWhenSettled
CHECK_DEADLOCK FALSE
