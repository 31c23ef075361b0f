SPECIFICATION Spec
CONSTANTS
    Writer = {w1}
    Viewer = {v1}
    Split = {s1}
    MaxEntry = 3
    Fault = {"recompute"}
INVARIANT SplitLosesNothing
