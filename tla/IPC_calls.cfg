CONSTANTS
    c1 = c1
    c2 = c2
    Callers = {c1, c2}
    NoCaller = NoCaller
    MaxRequests = 4
    MaxNonJsonLines = 1
    MaxLines = 2
    StrayParses = FALSE
SPECIFICATION FairSpec
INVARIANTS TypeOK AnswerBelongs PipesDrained NoWorkBehind
PROPERTY ServiceSpec
CHECK_DEADLOCK FALSE
