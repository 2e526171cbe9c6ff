CONSTANTS
    Thread = {t1, t2}
    None = None
    MaxFaults = 1
    MaxCalls = 2
    Caller = {t1}
    Plan <- MCPlan
    Answers <- MCAnswers
SPECIFICATION Spec
INVARIANTS
    ProcessContained
    SessionHonest
PROPERTIES
    ReceiptFixed
    FailOpenLeavesNothing
    CallsEnd
CHECK_DEADLOCK FALSE
