CONSTANTS
    w1 = w1
    w2 = w2
    k1 = k1
    k2 = k2
    EventLimit = 4
    None = None
    NoId = NoId
    Root = {home, away}
    Home = home
    WorkspaceId = {w1, w2}
    Path = {f1}
    Client = {c1, c2}
    Workloads <- MCWorkloads
    InitialPolicy <- MCInitialPolicy
    SourceId = {s1}
    SourcePath = {g1}
    Revision = {v1}
    SessionId = {}
    EntryId = {n1}
    Category = {facts}
    CheckpointId = {k1, k2}
    EventId = {}
    Artifact = {}
    Package = {}
    Plan <- MCPlan
    MaxCheckpoints = 2
    MaxPins = 2
SPECIFICATION Spec
CHECK_DEADLOCK FALSE
SYMMETRY ClientSymmetry
INVARIANTS
    SealTruthful
    SeedFaithful
