------------------------ MODULE MCCheckpointPackage ------------------------
(***************************************************************************)
(* CheckpointPackage for TLC.                                              *)
(***************************************************************************)
EXTENDS CheckpointPackage, TLC

CONSTANTS w1, w2, k1, k2, EventLimit

MCInitialPolicy ==
    [cats |-> Category, maxEvents |-> EventLimit, maxEntries |-> 1, maxSources |-> 1,
     maxSessions |-> 1, external |-> TRUE]
MCPlan == Empty

Load(ops, ids, cks) ==
    [ops |-> ops, ids |-> ids, cks |-> cks, signed |-> {TRUE},
     admits |-> {[trusted |-> TRUE, unsigned |-> FALSE]}]

MCWorkloads ==
    \* several checkpoints of one workspace go to one path
    {Load({"commit", "migrate"}, {w1}, {k1, k2}),
    \* checkpoints of two workspaces go to one path
     Load({"copy"}, {w1, w2}, {k1, k2}),
    \* a workspace is sealed and seeded
     Load({"seed", "commit"}, {w1}, {k1, k2}),
     Load({"seed", "attach"}, {w1}, {k1}),
    \* with and without a signature
     [Load({"seed"}, {w1}, {k1}) EXCEPT !.signed = BOOLEAN,
                                        !.admits = [trusted : BOOLEAN, unsigned : BOOLEAN]]}

ClientSymmetry == Permutations(Client)
=============================================================================
