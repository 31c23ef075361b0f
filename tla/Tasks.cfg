SPECIFICATION TasksSpec
CONSTANTS
    m1 = m1
    m2 = m2
    q1 = q1
    f1 = f1
    f2 = f2
    Msg <- TwoMsgs
    Redo <- OneRedo
    Join <- NoRequest
    Way = {"enqueue", "steer"}
    Env = {"root failure"}
    MaxRound = 1
    MaxCrash = 0
    Item <- TwoFiles
    Late <- LateFile
    KEnv = {"embed failure", "extract failure", "cancel", "delete", "manual", "toggle"}
    MaxVersion = 2
    MaxEdit = 1
    MaxDeath = 1
INVARIANTS KnowledgeTypeOK QuietMeansIndexed
PROPERTIES PostsReturn RegisteredRunDrains PrunesOnlyGone ChangesGetIndexed
CHECK_DEADLOCK FALSE
