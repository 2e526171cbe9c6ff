--------------------------- MODULE WorkspaceState ---------------------------
(***************************************************************************)
(* The projected state of one workspace (_WorkspaceState in workspace.py)  *)
(* and what each event kind requires of it and does to it                  *)
(* (_apply_event_unchecked).                                               *)
(*                                                                         *)
(* A state s is a record:                                                  *)
(*   id           the workspace_id of its identity                         *)
(*   policy       the effective WorkspacePolicy                            *)
(*   lifecycle    "active", "completed" or "aborted"                       *)
(*   sources      source_id -> SourceAnchor [ext, canon, rev, bind]:       *)
(*                external or a file, the path of its canonical_id, its    *)
(*                revision, and its engine_binding, None when portable     *)
(*   sessions     session_id -> the source_id it was attached for          *)
(*   entries      the ProjectContext entries [id, cat, src, ses]           *)
(*   checkpoints  checkpoint_id -> [at, state]                             *)
(*   pins         package [name, version] -> artifact; the lock digest is  *)
(*                the digest of all pins, so the pins stand for it         *)
(*   lineage      the checkpoint it was forked from, None for a root       *)
(*   applied      handoff_id -> the handoff that was applied               *)
(*   events       the events [id, kind, arg] in order; a receipt is the    *)
(*                position of its event, and last_event_digest, which      *)
(*                chains over all of them, is their number                 *)
(* Sizes in bytes, trust evidence and the redaction of sensitive text are  *)
(* left out, and so are anchors without a revision.                        *)
(***************************************************************************)
EXTENDS Naturals, Sequences, FiniteSets

CONSTANTS
    SourceId, SessionId, EntryId, CheckpointId,
    Package,         \* package coordinates [name, version]
    SourcePath,      \* paths of source files below the project root
    Revision,        \* contents of a source file
    Artifact,        \* package artifact digests
    Category,        \* ProjectContext categories
    EventId,         \* event_id values a caller may choose
    NoId,            \* event_id=None: a fresh uuid4, equal to no other
    None,            \* an absent source, session, binding, digest
    Plan,            \* session_id -> the ContextSource its plan and receipt are about
    MaxCheckpoints,  \* _MAX_CHECKPOINTS
    MaxPins          \* _MAX_PACKAGE_PINS

ASSUME NoneAssumption == None \notin SourceId \union SessionId /\ NoId \notin EventId
ASSUME LimitsAssumption == MaxCheckpoints \in Nat /\ MaxPins \in Nat

(* ContextSource: a file, with the digest that the caller states, if any.  *)
(* The project root, media type and source_ref are left out.               *)
ContextSource == [path : SourcePath, digest : Revision \union {None}]

ASSUME PlanAssumption == Plan \in [SessionId -> ContextSource]

(* The binding of an anchor need not name its canonical_id or revision. *)
Anchor == [ext : BOOLEAN, canon : SourcePath, rev : Revision,
           bind : ContextSource \union {None}]

(* The anchors that SourceAnchor allows: an external source has no         *)
(* engine_binding, a file may have one.                                    *)
Attachable == {a \in Anchor : a.ext => a.bind = None}
Entry == [id : EntryId, cat : Category, src : SourceId \union {None},
          ses : SessionId \union {None}]

(* WorkspacePolicy: every limit is positive. *)
Policy == [cats : SUBSET Category, maxEvents : Nat \ {0}, maxEntries : Nat \ {0},
           maxSources : Nat \ {0}, maxSessions : Nat \ {0}, external : BOOLEAN]

(* A dict with one item set. *)
Put(f, k, v) == [x \in DOMAIN f \union {k} |-> IF x = k THEN v ELSE f[x]]
Empty == [x \in {} |-> None]

-----------------------------------------------------------------------------
(* Policies and logical states.                                            *)

(* WorkspacePolicy.is_tightening *)
Tightens(p, q) ==
    /\ p.cats \subseteq q.cats
    /\ p.maxEvents <= q.maxEvents
    /\ p.maxEntries <= q.maxEntries
    /\ p.maxSources <= q.maxSources
    /\ p.maxSessions <= q.maxSessions
    /\ p.external => q.external

(* _ensure_state_bounds of s under policy p, with `extra` more events. *)
InBounds(s, p, extra) ==
    /\ Len(s.events) + extra <= p.maxEvents
    /\ Cardinality(DOMAIN s.sources) <= p.maxSources
    /\ Cardinality(DOMAIN s.sessions) <= p.maxSessions
    /\ Cardinality(s.entries) <= p.maxEntries
    /\ Cardinality(DOMAIN s.pins) <= MaxPins

(* _ensure_external_allowed for every anchor. *)
ExternalAllowed(sources, p) == \A x \in DOMAIN sources : sources[x].ext => p.external

(* logical_state: the part of a state that a checkpoint captures. *)
Logical(s) == [policy |-> s.policy, sources |-> s.sources, entries |-> s.entries,
               pins |-> s.pins]

(* _logical_state_components accepts it: every entry has its sources, and  *)
(* its own identifier.                                                     *)
Consistent(l) ==
    /\ \A e \in l.entries : e.src # None => e.src \in DOMAIN l.sources
    /\ \A e, f \in l.entries : e.id = f.id => e = f

(* Mutant of WithLogical: entries committed since the checkpoint stay. *)
WithLogicalMerged(s, l) == [s EXCEPT !.policy = l.policy, !.sources = l.sources,
                                     !.entries = @ \union l.entries, !.pins = l.pins]

(* The state with these logical components. *)
WithLogical(s, l) == [s EXCEPT !.policy = l.policy, !.sources = l.sources,
                               !.entries = l.entries, !.pins = l.pins]

(* workspace_created *)
Created(id, policy) ==
    [id |-> id, policy |-> policy, lifecycle |-> "active", sources |-> Empty, sessions |-> Empty,
     entries |-> {}, checkpoints |-> Empty, pins |-> Empty, lineage |-> None,
     applied |-> Empty,
     events |-> <<[id |-> NoId, kind |-> "workspace_created", arg |-> policy]>>]

-----------------------------------------------------------------------------
(* What each kind requires of the state, beyond lifecycle and event limit. *)

RequireSourceAttached(s, a) ==
    /\ a.src \notin DOMAIN s.sources
    /\ Cardinality(DOMAIN s.sources) + 1 <= s.policy.maxSources
    /\ a.anchor.ext => s.policy.external

(* Mutant of RequireSourceUpdated: previous_anchor_digest is not compared. *)
UpdatedBlindly(s, a) ==
    /\ a.src \in DOMAIN s.sources
    /\ a.anchor.ext => s.policy.external

RequireSourceUpdated(s, a) ==
    /\ a.src \in DOMAIN s.sources
    /\ a.prev = s.sources[a.src]
    /\ a.anchor.ext => s.policy.external

RequirePolicyTightened(s, a) ==
    /\ a.prev = s.policy
    /\ Tightens(a.policy, s.policy)
    /\ \A e \in s.entries : e.cat \in a.policy.cats
    /\ ExternalAllowed(s.sources, a.policy)
    /\ InBounds(s, a.policy, 1)

RequireSessionAttached(s, a) ==
    /\ a.ses \notin DOMAIN s.sessions
    /\ a.src \in DOMAIN s.sources
    /\ Cardinality(DOMAIN s.sessions) + 1 <= s.policy.maxSessions

(* Mutant of ProvenanceValid: the source of the receipt is not compared. *)
ProvenanceUnbound(s, entries, ses) ==
    /\ ses \in DOMAIN s.sessions
    /\ \A e \in entries : e.ses = ses /\ e.src = s.sessions[ses]
    /\ s.sessions[ses] \in DOMAIN s.sources

(* The receipt of a session on this source may be committed on this        *)
(* anchor: it is bound to that source, or it is a portable file with that  *)
(* path, whatever its revision is.                                         *)
ProvedBy(anchor, source) ==
    \/ anchor.bind # None /\ anchor.bind = source
    \/ anchor.bind = None /\ ~anchor.ext /\ anchor.canon = source.path

(* _validate_context_provenance: a commit for a session names the source   *)
(* the session was attached for, and the sealed receipt is about it.       *)
ProvenanceValid(s, entries, ses) ==
    /\ ses \in DOMAIN s.sessions
    /\ \A e \in entries : e.ses = ses /\ e.src = s.sessions[ses]
    /\ s.sessions[ses] \in DOMAIN s.sources
    /\ ProvedBy(s.sources[s.sessions[ses]], Plan[ses])

(* Mutant of RequireContextCommitted: only the limits are checked in the lock. *)
CommittedOnTrust(s, a) ==
    /\ \A e \in a.entries : \A f \in s.entries : e.id # f.id
    /\ InBounds([s EXCEPT !.entries = @ \union a.entries], s.policy, 1)

RequireContextCommitted(s, a) ==
    /\ a.ses # None => ProvenanceValid(s, a.entries, a.ses)
    /\ a.ses = None => \A e \in a.entries : e.ses = None
    /\ \A e \in a.entries : /\ \A f \in s.entries : e.id # f.id
                            /\ e.src # None => e.src \in DOMAIN s.sources
                            /\ e.ses # None => e.ses \in DOMAIN s.sessions
                            /\ e.cat \in s.policy.cats
    /\ InBounds([s EXCEPT !.entries = @ \union a.entries], s.policy, 1)

(* Mutant of RequirePackagePinned: the lock digest is not compared, nor the *)
(* artifacts of other versions.                                             *)
PinnedBlindly(s, a) ==
    /\ a.package \notin DOMAIN s.pins
    /\ Cardinality(DOMAIN s.pins) + 1 <= MaxPins

RequirePackagePinned(s, a) ==
    /\ a.prev = s.pins
    /\ a.package \notin DOMAIN s.pins
    /\ \A q \in DOMAIN s.pins : q.name = a.package.name => s.pins[q] = a.artifact
    /\ Cardinality(DOMAIN s.pins) + 1 <= MaxPins

(* Mutant of RequireCheckpointCreated: a checkpoint of a stale read is kept. *)
CheckpointedStale(s, a) ==
    /\ a.ck \notin DOMAIN s.checkpoints
    /\ Cardinality(DOMAIN s.checkpoints) + 1 <= MaxCheckpoints
    /\ a.state.policy = s.policy
    /\ Consistent(a.state)

(* A checkpoint names the last event and repeats the logical state. *)
RequireCheckpointCreated(s, a) ==
    /\ a.ck \notin DOMAIN s.checkpoints
    /\ Cardinality(DOMAIN s.checkpoints) + 1 <= MaxCheckpoints
    /\ a.at = Len(s.events)
    /\ a.state = Logical(s)
    /\ Consistent(a.state)

(* Mutant of RequireWorkspaceRestored: the policies are not compared. *)
RestoredLoosely(s, a) ==
    /\ a.ck \in DOMAIN s.checkpoints
    /\ LET target == s.checkpoints[a.ck].state
       IN  /\ Consistent(target)
           /\ InBounds(WithLogical(s, target), target.policy, 1)
           /\ ExternalAllowed(target.sources, target.policy)

RequireWorkspaceRestored(s, a) ==
    /\ a.ck \in DOMAIN s.checkpoints
    /\ LET target == s.checkpoints[a.ck].state
       IN  /\ Consistent(target)
           /\ Tightens(target.policy, s.policy)
           /\ InBounds(WithLogical(s, target), target.policy, 1)
           /\ ExternalAllowed(target.sources, target.policy)

(* The checkpoint in the package, its envelope digest included, is ours. *)
RequireWorkspaceSealed(s, a) ==
    a.ck \in DOMAIN s.checkpoints /\ a.envelope = s.checkpoints[a.ck]

(* A package [id, ck, checkpoint, migration, signed] may be used: signed   *)
(* by a trusted signer, or unsigned where that is allowed.                 *)
Admitted(package, trusted, unsigned) == IF package.signed THEN trusted ELSE unsigned

(* A workspace begins with the checkpoint of a package, under its policy. *)
RequireWorkspaceSeeded(s, a) ==
    LET target == a.package.checkpoint.state
    IN  /\ Len(s.events) = 1 /\ DOMAIN s.checkpoints = {}
        /\ DOMAIN s.sources = {} /\ s.entries = {}
        /\ Admitted(a.package, a.trusted, a.unsigned)
        /\ a.package.id = s.id
        /\ target.policy = s.policy
        /\ Consistent(target)
        /\ InBounds(WithLogical(s, target), target.policy, 1)
        /\ ExternalAllowed(target.sources, target.policy)

-----------------------------------------------------------------------------
(* Forks and handoffs.                                                     *)
(*                                                                         *)
(* A lineage [parent, ck, child] names the checkpoint a child was forked   *)
(* from.  A handoff [id, from, ck, lineage, target, entries, anchors,      *)
(* pins, floor] is an immutable document made from a checkpoint of `from`. *)

(* _portable_anchor: the engine binding is dropped. *)
Portable(sources) == [x \in DOMAIN sources |-> [sources[x] EXCEPT !.bind = None]]

(* PolicyInheritanceV1: a child's policy tightens the checkpoint's. *)
Inherits(child, parent) == Tightens(child, parent)

(* A fork's state: the checkpoint's, without engine bindings, under the    *)
(* child's own policy.                                                     *)
Inherited(s, a) == [s EXCEPT !.sources = Portable(a.state.sources), !.entries = a.state.entries,
                             !.pins = a.state.pins, !.lineage = a.lineage]

(* The second event of a child; neither the categories nor the external    *)
(* sources that it inherits are compared with its policy.                  *)
RequireWorkspaceForked(s, a) ==
    /\ Len(s.events) = 1
    /\ a.lineage.child = s.id
    /\ Consistent(a.state)
    /\ Inherits(s.policy, a.state.policy)
    /\ InBounds(Inherited(s, a), s.policy, 1)

(* The receiver's relation to the checkpoint of a handoff: its own, the    *)
(* one it was forked from, or one of a sibling.                            *)
LineageOk(s, h) ==
    IF h.from = s.id THEN h.ck \in DOMAIN s.checkpoints /\ h.lineage = s.lineage
    ELSE /\ s.lineage # None
         /\ IF h.lineage = None THEN h.from = s.lineage.parent /\ h.ck = s.lineage.ck
            ELSE /\ h.lineage.parent = s.lineage.parent
                 /\ h.lineage.ck = s.lineage.ck
                 /\ h.lineage.child # s.lineage.child

(* Mutant of FloorMet: the policies are compared the wrong way round. *)
FloorSwapped(policy, h) == Tightens(h.floor, policy)

(* The receiver is as strict as the checkpoint of the handoff. *)
FloorMet(policy, h) == Tightens(policy, h.floor)

PinsExact(pins, h) == \A p \in DOMAIN h.pins : p \in DOMAIN pins /\ pins[p] = h.pins[p]

(* The sources and entries of a handoff that the receiver does not have. *)
NewSources(s, h) == DOMAIN h.anchors \ DOMAIN s.sources
NewEntries(s, h) == {e \in h.entries : \A f \in s.entries : f.id # e.id}

(* Mutant of Imported: the anchors of the entries are left behind. *)
ImportedEntries(s, h) ==
    [s EXCEPT !.entries = @ \union NewEntries(s, h), !.applied = Put(@, h.id, h)]

Imported(s, h) ==
    [s EXCEPT !.sources = [x \in DOMAIN @ \union NewSources(s, h) |->
                              IF x \in DOMAIN @ THEN @[x] ELSE h.anchors[x]],
              !.entries = @ \union NewEntries(s, h),
              !.applied = Put(@, h.id, h)]

(* Mutant of RequireHandoffApplied: the admission is not checked again. *)
HandoffTrusted(s, a) ==
    /\ a.handoff.id \notin DOMAIN s.applied
    /\ InBounds(Imported(s, a.handoff), s.policy, 1)

(* Mutant of RequireHandoffApplied: an applied handoff is not remembered. *)
HandoffAgain(s, a) ==
    LET h == a.handoff
    IN  /\ h.target = s.id
        /\ LineageOk(s, h)
        /\ FloorMet(s.policy, h)
        /\ InBounds(Imported(s, h), s.policy, 1)

RequireHandoffApplied(s, a) ==
    LET h == a.handoff
    IN  /\ h.target = s.id
        /\ LineageOk(s, h)
        /\ FloorMet(s.policy, h)
        /\ h.id \notin DOMAIN s.applied
        /\ \A x \in DOMAIN h.anchors : x \in DOMAIN s.sources => s.sources[x] = h.anchors[x]
        /\ NewSources(s, h) # {} => a.decision = "degraded"
        /\ PinsExact(s.pins, h)
        /\ \A e \in h.entries : \A f \in s.entries : f.id = e.id => f = e
        /\ \A e \in NewEntries(s, h) :
               /\ e.cat \in s.policy.cats
               /\ e.src # None => e.src \in DOMAIN s.sources \union DOMAIN h.anchors
        /\ \A x \in NewSources(s, h) : h.anchors[x].ext => s.policy.external
        /\ InBounds(Imported(s, h), s.policy, 1)

-----------------------------------------------------------------------------

Require(s, e) ==
    CASE e.kind = "source_attached"    -> RequireSourceAttached(s, e.arg)
      [] e.kind = "source_updated"     -> RequireSourceUpdated(s, e.arg)
      [] e.kind = "policy_tightened"   -> RequirePolicyTightened(s, e.arg)
      [] e.kind = "session_attached"   -> RequireSessionAttached(s, e.arg)
      [] e.kind = "context_committed"  -> RequireContextCommitted(s, e.arg)
      [] e.kind = "package_pinned"     -> RequirePackagePinned(s, e.arg)
      [] e.kind = "checkpoint_created" -> RequireCheckpointCreated(s, e.arg)
      [] e.kind = "workspace_restored" -> RequireWorkspaceRestored(s, e.arg)
      [] e.kind = "workspace_sealed"   -> RequireWorkspaceSealed(s, e.arg)
      [] e.kind = "workspace_seeded"   -> RequireWorkspaceSeeded(s, e.arg)
      [] e.kind = "workspace_forked"   -> RequireWorkspaceForked(s, e.arg)
      [] e.kind = "handoff_applied"    -> RequireHandoffApplied(s, e.arg)
      [] e.kind \in {"workspace_completed", "workspace_aborted"} -> TRUE

-----------------------------------------------------------------------------
(* What each kind does to the state.                                       *)

Change(s, e) ==
    CASE e.kind \in {"source_attached", "source_updated"} ->
             [s EXCEPT !.sources = Put(@, e.arg.src, e.arg.anchor)]
      [] e.kind = "policy_tightened" -> [s EXCEPT !.policy = e.arg.policy]
      [] e.kind = "session_attached" -> [s EXCEPT !.sessions = Put(@, e.arg.ses, e.arg.src)]
      [] e.kind = "context_committed" -> [s EXCEPT !.entries = @ \union e.arg.entries]
      [] e.kind = "package_pinned" -> [s EXCEPT !.pins = Put(@, e.arg.package, e.arg.artifact)]
      [] e.kind = "checkpoint_created" ->
             [s EXCEPT !.checkpoints = Put(@, e.arg.ck, [at |-> e.arg.at, state |-> e.arg.state])]
      [] e.kind = "workspace_restored" -> WithLogical(s, s.checkpoints[e.arg.ck].state)
      [] e.kind = "workspace_sealed" -> s
      [] e.kind = "workspace_seeded" ->
             [WithLogical(s, e.arg.package.checkpoint.state) EXCEPT
                 !.checkpoints = Put(@, e.arg.package.ck, e.arg.package.checkpoint)]
      [] e.kind = "workspace_forked" -> Inherited(s, e.arg)
      [] e.kind = "handoff_applied" -> Imported(s, e.arg.handoff)
      [] e.kind = "workspace_completed" -> [s EXCEPT !.lifecycle = "completed"]
      [] e.kind = "workspace_aborted" -> [s EXCEPT !.lifecycle = "aborted"]

Apply(s, e) == [Change(s, e) EXCEPT !.events = Append(@, e)]

(* _apply_event accepts e after s. *)
Accepts(s, e) ==
    /\ s.lifecycle = "active"
    /\ Require(s, e)
    /\ InBounds(Apply(s, e), Apply(s, e).policy, 0)

(* The position of the event that already has this event_id, 0 for none. *)
Receipt(s, id) ==
    LET found == {i \in 1..Len(s.events) : s.events[i].id = id}
    IN  IF id = NoId \/ found = {} THEN 0 ELSE CHOOSE i \in found : TRUE

=============================================================================
