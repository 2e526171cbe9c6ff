CONSTANTS
    f1 = f1
    v1 = v1
    p1 = p1
    facts = facts
    EventLimit = 5
    SourceLimit = 1
    None = None
    NoId = NoId
    Client = {c1, c2}
    SourceId = {s1}
    SourcePath = {f1, f2}
    Revision = {v1, v2}
    SessionId = {t1}
    EntryId = {n1}
    Category = {facts}
    CheckpointId = {k1}
    EventId = {}
    Artifact = {}
    Package <- MCPackage
    Plan <- MCPlan
    InitialPolicy <- MCInitialPolicy
    Policies <- MCPolicies
    MaxCheckpoints = 2
    MaxPins = 2
    Workloads <- MCSources
SPECIFICATION Spec
SYMMETRY ClientSymmetry
INVARIANTS
    CheckpointsFaithful
    RestoresExact
    CommitsGrounded
    UpdatesChain
PROPERTY RestoresMatchFiles
