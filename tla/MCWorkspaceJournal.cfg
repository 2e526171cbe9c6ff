CONSTANTS
    e0 = e0
    e1 = e1
    e2 = e2
    x = x
    NoProc = NoProc
    Writer = {w1, w2}
    Reader = {r}
    EventId = {e0, e1, e2}
    Payload = {x}
    Created <- MCCreated
    MaxEvents = 3
    MaxFaults = 1
    Applicable <- MCApplicable
SPECIFICATION MCSpec
INVARIANTS
    JournalHealthy
    WriterIsCurrent
    WrittenReceiptsLast
    ReadsAreFresh
PROPERTIES
    AppendOnly
    ImplementsEventLog
    CallsReturn
