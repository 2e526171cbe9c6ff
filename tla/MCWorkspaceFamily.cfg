CONSTANTS
    a = a
    b = b
    facts = facts
    f = f
    v1 = v1
    None = None
    NoId = NoId
    Root = r
    WorkspaceId = {r, a, b}
    HandoffId = {h1}
    Client = {c1, c2}
    SourceId = {s1}
    SourcePath = {f}
    Revision = {v1}
    SessionId = {}
    EntryId = {n1}
    Category = {facts, decisions}
    CheckpointId = {k1}
    EventId = {}
    Artifact = {}
    Package = {}
    Plan <- MCPlan
    MaxCheckpoints = 2
    MaxPins = 2
    Workloads <- MCWorkloads
SPECIFICATION Spec
CHECK_DEADLOCK FALSE
SYMMETRY ForkSymmetry
INVARIANTS
    ForksFaithful
    PolicyFloors
    HandoffOnce
    FamilyConsistent
PROPERTY HandoffGrounded
