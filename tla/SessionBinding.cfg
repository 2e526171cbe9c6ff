CONSTANTS
    Attacher = {t1, t2}
    Session = {s1, s2}
    Workspace = {w1, w2}
    NoWorkspace = NoWorkspace
    MaxRestarts = 1
SPECIFICATION BindingSpec
INVARIANTS
    BindingsBacked
    CommitsAreAttached
