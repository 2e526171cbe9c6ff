CONSTANTS
    a = a
    b = b
    p1 = p1
    k1 = k1
    v1 = v1
    f = f
    None = None
    NoId = NoId
    Root = r
    WorkspaceId = {r, a, b}
    HandoffId = {h1}
    Client = {c1}
    SourceId = {s1}
    SourcePath = {f}
    Revision = {v1, v2}
    SessionId = {}
    EntryId = {n1}
    Category = {facts, decisions}
    Decisions = decisions
    CheckpointId = {k1, k2, k3}
    EventId = {}
    Artifact = {a1, a2}
    Package <- MCPackage
    Plan <- MCPlan
    MaxCheckpoints = 3
    MaxPins = 2
    Workloads <- MCWorkloads
SPECIFICATION Spec
CHECK_DEADLOCK FALSE
SYMMETRY ForkSymmetry
INVARIANTS
    DeltaExact
    ReconciliationSound
