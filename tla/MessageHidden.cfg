SPECIFICATION SessionSpec
CONSTANTS
    MaxSessionEntry = 4
    MaxMessage = 2
    MaxSwitch = 1
    MaxOpen = 2
    MaxWire = 2
INVARIANT SentMessageIsShown
CHECK_DEADLOCK FALSE
