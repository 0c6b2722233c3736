CONSTANTS
    c1 = c1
    c2 = c2
    None = None
    Calls <- MCCalls
    MaxDials = 2
    PongTicks = 0
    MaxPushed = 1
SPECIFICATION Spec
INVARIANT AnswerIsMine
CHECK_DEADLOCK FALSE
