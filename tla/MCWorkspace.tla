---------------------------- MODULE MCWorkspace ----------------------------
(***************************************************************************)
(* Workspace for TLC: one session, which has read the first revision of    *)
(* the first file.                                                         *)
(***************************************************************************)
EXTENDS Workspace, TLC

CONSTANTS f1, v1, p1, facts, EventLimit, SourceLimit

Read == [path |-> f1, digest |-> v1]
Reads == {[Read EXCEPT !.path = p] : p \in SourcePath}
MCPlan == [t \in SessionId |-> Read]
MCPackage == {[name |-> p1, version |-> 1], [name |-> p1, version |-> 2]}
MCInitialPolicy ==
    [cats |-> Category, maxEvents |-> EventLimit, maxEntries |-> 1,
     maxSources |-> SourceLimit, maxSessions |-> 1, external |-> TRUE]
MCPolicies ==
    {[MCInitialPolicy EXCEPT !.cats = {facts}],
     [MCInitialPolicy EXCEPT !.external = FALSE],
     [MCInitialPolicy EXCEPT !.maxSources = 1],
     [MCInitialPolicy EXCEPT !.maxEvents = 3]}

Portable1 == [ext |-> FALSE, canon |-> f1, rev |-> v1, bind |-> None]
Portables == {[Portable1 EXCEPT !.rev = r] : r \in Revision}
Bound(source) == {[a EXCEPT !.bind = source] : a \in Portables}
External == [Portable1 EXCEPT !.ext = TRUE]
Elsewhere == {[Portable1 EXCEPT !.canon = p] : p \in SourcePath \ {f1}}

Load(kinds, anchors) ==
    [kinds |-> kinds, ids |-> {}, anchors |-> anchors, binds |-> {},
     files |-> [p \in SourcePath |-> v1], edits |-> {}]
Retrying(kinds, anchors) == [Load(kinds, anchors) EXCEPT !.ids = EventId]

MCSources ==
    \* sources that change, with checkpoints
    {[Load({"source_attached", "source_updated", "context_committed", "checkpoint_created",
            "workspace_restored"}, Bound(Read)) EXCEPT !.edits = {f1}],
     Load({"source_attached", "checkpoint_created", "workspace_restored"},
          Bound(Read) \union {Portable1, External}),
    \* sources that change, with sessions
     Load({"source_attached", "source_updated", "session_attached", "context_committed"},
          Bound(Read) \union {Portable1, External}),
    \* portable sources that are bound by the clients, and change or are edited
     [Load({"source_attached", "source_updated", "session_attached", "source_bound",
            "context_committed"}, Portables \union Elsewhere) EXCEPT !.binds = Reads],
     [Load({"source_attached", "session_attached", "source_bound", "context_committed"},
           {Portable1}) EXCEPT !.binds = Reads, !.edits = {f1}]}
(* The policy, the packages, and retries under chosen event_ids. *)
MCPolicyLoads ==
    {Load({"source_attached", "policy_tightened", "session_attached", "context_committed",
           "workspace_completed"}, Bound(Read) \union {External}),
     Load({"policy_tightened", "package_pinned", "checkpoint_created", "workspace_restored",
           "workspace_sealed", "workspace_aborted"}, {}),
     Retrying({"source_attached", "session_attached", "policy_tightened"}, Bound(Read)),
     Retrying({"source_attached", "source_updated"}, Bound(Read) \union {External}),
     Retrying({"source_attached", "context_committed"}, Bound(Read))}

ClientSymmetry == Permutations(Client)

=============================================================================
