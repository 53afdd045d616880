SPECIFICATION Spec
CONSTANTS
    t1 = t1
    t2 = t2
    own = own
    other = other
    Turn = {t1, t2}
    Chunk = {own, other}
    Foreign = {other}
    Near <- MCNear
    Lexical = {own}
INVARIANTS LostAnswerExplained TranscriptInOrder SpendExplained
PROPERTIES StreamContract GroundedAnswers EveryTurnEnds
CHECK_DEADLOCK FALSE
