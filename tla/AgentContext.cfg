CONSTANTS
    Thread = {t1, t2}
    Ops = {"call", "close", "cancel"}
    Replies = {"result", "error", "bad"}
    MaxCalls = 2
    BadLine = BadLine
    EOF = EOF
    None = None
    CleanupMayFail = TRUE
SPECIFICATION Spec
INVARIANTS
    CleanupConfirmed
    SignalsOwnGroup
    AnswersMatch
