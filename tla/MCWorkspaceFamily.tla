------------------------- MODULE MCWorkspaceFamily -------------------------
(***************************************************************************)
(* WorkspaceFamily for TLC: one root and two workspaces for its forks.     *)
(***************************************************************************)
EXTENDS WorkspaceFamily, TLC

CONSTANTS a, b, facts, f, v1

MCPlan == Empty
Wide(n) ==
    [cats |-> Category, maxEvents |-> n, maxEntries |-> 2,
     maxSources |-> 1, maxSessions |-> 1, external |-> TRUE]
Local(n) == [Wide(n) EXCEPT !.external = FALSE]
Narrow(n) == [Wide(n) EXCEPT !.cats = {facts}]

Local1 == [ext |-> FALSE, canon |-> f, rev |-> v1, bind |-> [path |-> f, digest |-> v1]]
External == [Local1 EXCEPT !.ext = TRUE, !.bind = None]

(* Forks of a workspace that is committed to, tightened, restored and ended. *)
MCForks ==
    [root |-> Wide(4), policies |-> {Narrow(4)},
     kinds |-> {"context_committed", "checkpoint_created", "policy_tightened",
                "workspace_restored", "workspace_completed"},
     forkers |-> Client, appliers |-> {}, sources |-> {}, cats |-> Category,
     anchors |-> {Local1, External}, cks |-> CheckpointId, handoffs |-> {}]
(* One handoff, applied by two callers. *)
MCHandoffs ==
    {[root |-> Wide(5), policies |-> {Local(5)},
      kinds |-> {"context_committed", "checkpoint_created", "workspace_restored"},
      forkers |-> {c}, appliers |-> Client, sources |-> {}, cats |-> {facts},
      anchors |-> {Local1, External}, cks |-> CheckpointId, handoffs |-> HandoffId] : c \in Client}
(* One handoff with a source, applied by one caller. *)
MCSources ==
    {[root |-> Wide(5), policies |-> {},
      kinds |-> {"source_attached", "source_bound", "context_committed", "checkpoint_created"},
      forkers |-> {c}, appliers |-> {c}, sources |-> SourceId, cats |-> {facts},
      anchors |-> {Local1, External}, cks |-> CheckpointId, handoffs |-> HandoffId] : c \in Client}

MCWorkloads == {MCForks} \union MCHandoffs \union MCSources
ForkSymmetry == Permutations({a, b}) \union Permutations(Client)

=============================================================================
