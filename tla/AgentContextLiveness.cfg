CONSTANTS
    Thread = {t1, t2}
    Ops = {"call", "close"}
    Replies = {"result"}
    MaxCalls = 2
    BadLine = BadLine
    EOF = EOF
    None = None
    CleanupMayFail = FALSE
SPECIFICATION FairSpec
PROPERTY CallsReturn
