SPECIFICATION Spec
CONSTANTS
    Call = {c1, c2, c3, c4}
    Limit = 2
    Window = 3
    Slack = 1
    MaxDelay = 2
    MaxTime = 7
SYMMETRY Symmetry
INVARIANTS OrderlyWindow
PROPERTIES RejectsOnlyFullWindows
CHECK_DEADLOCK FALSE
