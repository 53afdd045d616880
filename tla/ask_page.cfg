SPECIFICATION Spec
CONSTANTS
    Turn = {t1, t2}
    Old = {a, b}
    NoThread = none
INVARIANTS ShownIsSelected ReadyWhenQuiet SpinnerHonest
CHECK_DEADLOCK FALSE
