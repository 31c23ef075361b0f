SPECIFICATION EntriesSpec
CONSTANTS
    Writer = {w1}
    Viewer = {v1}
    Split = {s1, s2}
    MaxEntry = 4
    Fault = {"move", "recompute"}
    MaxSessionEntry = 4
    MaxMessage = 2
    MaxSwitch = 1
    MaxOpen = 2
    MaxWire = 2
SYMMETRY Symmetry
INVARIANTS TypeOK IndexIsUnique LineageAscends TargetIsOneTree
    SessionTypeOK OneChosenPerFork NoDoubleBubble SettledShowsAll ReloadAgrees
PROPERTIES FamiliesStayTogether OrderIsKept
CHECK_DEADLOCK FALSE
