------------------------- MODULE MCParallelReports -------------------------
(***************************************************************************)
(* ParallelReports for TLC: a root and two forks.                          *)
(***************************************************************************)
EXTENDS ParallelReports, TLC

CONSTANTS a, b, p1, k1, f, v1

MCPlan == Empty
MCPackage == {[name |-> p1, version |-> 1]}
Wide(n) ==
    [cats |-> Category, maxEvents |-> n, maxEntries |-> 2,
     maxSources |-> 1, maxSessions |-> 1, external |-> TRUE]
Local(n) == [Wide(n) EXCEPT !.external = FALSE]

File(r) == [ext |-> FALSE, canon |-> f, rev |-> r, bind |-> [path |-> f, digest |-> None]]
Local1 == {File(v1)}
Anchors == {File(r) : r \in Revision}
              \union {[File(v1) EXCEPT !.bind = None], [File(v1) EXCEPT !.ext = TRUE, !.bind = None]}

Load(n, kinds, anchors) ==
    [root |-> Wide(n), policies |-> {}, kinds |-> kinds \union {"checkpoint_created"},
     forkers |-> Client, appliers |-> {}, sources |-> SourceId, cats |-> Category,
     anchors |-> anchors, cks |-> {k1}, handoffs |-> {}]

MCWorkloads ==
    \* sources, packages and policies differ
    {[Load(4, {"source_attached", "source_updated", "package_pinned"}, Anchors)
         EXCEPT !.policies = {Local(4)}],
    \* entries are committed, restored away and committed again in one workspace
     [Load(8, {"source_attached", "context_committed", "workspace_restored"}, Local1)
         EXCEPT !.forkers = {}, !.cks = CheckpointId],
    \* entries have sources, and are handed over
     [Load(4, {"source_attached", "source_bound", "context_committed"}, Local1)
         EXCEPT !.handoffs = HandoffId]}

ForkSymmetry == Permutations({a, b})
=============================================================================
