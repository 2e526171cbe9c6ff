CONSTANTS
    f1 = f1
    v1 = v1
    p1 = p1
    facts = facts
    EventLimit = 4
    SourceLimit = 2
    None = None
    NoId = NoId
    Client = {c1, c2}
    SourceId = {s1, s2}
    SourcePath = {f1}
    Revision = {v1}
    SessionId = {t1}
    EntryId = {n1}
    Category = {facts, decisions}
    CheckpointId = {k1}
    EventId = {i1}
    Artifact = {a1, a2}
    Package <- MCPackage
    Plan <- MCPlan
    InitialPolicy <- MCInitialPolicy
    Policies <- MCPolicies
    MaxCheckpoints = 2
    MaxPins = 2
    Workloads <- MCPolicyLoads
SPECIFICATION Spec
SYMMETRY ClientSymmetry
INVARIANTS
    StateLawful
    PinsAgree
    ReceiptsMatch
PROPERTIES
    LawfulSteps
