SPECIFICATION Spec
CONSTANTS
    Request = {r1, r2}
    MaxToken = 3
    Losses = {}
INVARIANTS ClosedIsDeadAlways
