-------------------------- MODULE ParallelReports --------------------------
(***************************************************************************)
(* The reports on workspaces that were forked and went on in parallel      *)
(* (parallel_context.py): context_delta says what changed between two      *)
(* checkpoints, narrow_reconciliation which entries of two forks can be    *)
(* taken over and which contradict each other.                             *)
(*                                                                         *)
(* Both are functions of immutable checkpoints, computed here for every    *)
(* pair and triple of checkpoints that a family of workspaces can reach.   *)
(* Of an entry the category stands for category and value, its source and  *)
(* session for the provenance; of an anchor the revision is kept, not its  *)
(* freshness and recovery.  Evidence, digests and sizes are left out.      *)
(***************************************************************************)
EXTENDS WorkspaceFamily

CONSTANT Decisions  \* the category "decisions"

ASSUME DecisionsAssumption == Decisions \in Category

(* Absence, None in the code and here, is no anchor, entry or artifact. *)
ASSUME AbsentAssumption == None \notin Anchor /\ None \notin Entry /\ None \notin Artifact

(* _keyed *)
Keyed(entries) == [k \in {e.id : e \in entries} |-> CHOOSE e \in entries : e.id = k]

At(f, k) == IF k \in DOMAIN f THEN f[k] ELSE None

-----------------------------------------------------------------------------
(* ContextDeltaV1                                                          *)

EntryAction(before, after) ==
    IF before.cat = after.cat THEN "provenance_changed" ELSE "contradicted"

(* What has happened to a thing that both checkpoints have. *)
ChangeAction(kind, before, after) ==
    CASE kind = "source" -> "revision_changed"
      [] kind = "project_context" -> EntryAction(before, after)
      [] kind = "package" -> "digest_changed"

(* The items about one kind of thing: what is added, removed or different. *)
Items(kind, f, g) ==
    {[kind |-> kind, key |-> k, before |-> At(f, k), after |-> At(g, k),
      action |-> IF k \notin DOMAIN f THEN "added"
                 ELSE IF k \notin DOMAIN g THEN "removed" ELSE ChangeAction(kind, f[k], g[k])] :
     k \in {x \in DOMAIN f \union DOMAIN g : At(f, x) # At(g, x)}}

(* A source that is another one under the same source_id makes the call    *)
(* fail.                                                                   *)
Comparable(base, target) ==
    \A x \in DOMAIN base.sources \intersect DOMAIN target.sources :
        base.sources[x].ext = target.sources[x].ext

(* Mutant of EntryItems: an entry whose meaning is the same is left out. *)
EntryItemsOfMeaning(base, target) ==
    {i \in Items("project_context", Keyed(base.entries), Keyed(target.entries)) :
         i.action # "provenance_changed"}

EntryItems(base, target) ==
    Items("project_context", Keyed(base.entries), Keyed(target.entries))

(* The items of a delta; the engine bindings do not count.  The lineage    *)
(* item, which every delta has, names the two checkpoints.                 *)
DeltaItems(base, target) ==
    Items("source", Portable(base.sources), Portable(target.sources))
    \union EntryItems(base, target)
    \union Items("package", base.pins, target.pins)
    \union {[kind |-> "policy", key |-> "workspace-policy", before |-> base.policy,
             after |-> target.policy, action |-> "effective_changed"] :
            p \in {base.policy} \ {target.policy}}

Contradictions == {"revision_changed", "contradicted", "digest_changed", "effective_changed"}

ConflictKind(i) ==
    CASE i.kind = "source" -> "SOURCE_REVISION"
      [] i.kind = "package" -> "PACKAGE"
      [] i.kind = "policy" -> "POLICY"
      [] i.kind = "project_context" ->
             IF i.after.cat = Decisions THEN "DECISION" ELSE "PROJECT_CONTEXT"

DeltaConflicts(items) ==
    {[kind |-> ConflictKind(i), key |-> i.key, left |-> i.before, right |-> i.after] :
     i \in {j \in items : j.action \in Contradictions}}

(* context_delta of workspace w accepts these checkpoints: both its own,   *)
(* or the base the one it was forked from.                                 *)
DeltaAllowed(w, from, base, target) ==
    /\ Exists(w) /\ Exists(from)
    /\ target \in DOMAIN ws[w].checkpoints
    /\ IF from = w THEN base \in DOMAIN ws[w].checkpoints
       ELSE ws[w].lineage # None /\ ws[w].lineage.parent = from /\ ws[w].lineage.ck = base

-----------------------------------------------------------------------------
(* NarrowReconciliationV1                                                  *)

Allowed(mode) ==
    CASE mode = "decisions" -> {Decisions}
      [] mode = "knowledge" -> Category \ {Decisions}
      [] mode = "accepted_handoff" -> Category

(* The entries of a side that the ancestor does not have like this. *)
ChangedSince(ancestor, side) == Keyed(side.entries \ ancestor.entries)

(* The values that the sides have for a key they changed. *)
Values(left, right, k) == {At(left, k), At(right, k)} \ {None}

(* The changed keys that are in the scope of the mode; scope is the set of *)
(* keys of the accepted handoff, or all.  A key with a value outside the   *)
(* categories is passed over.                                              *)
InScope(ancestor, l, r, mode, scope) ==
    LET left == ChangedSince(ancestor, l)
        right == ChangedSince(ancestor, r)
    IN  {k \in (DOMAIN left \union DOMAIN right) \intersect scope :
             \A v \in Values(left, right, k) : v.cat \in Allowed(mode)}

(* Mutant of Contradicted: the provenance of the two entries may differ. *)
ContradictedInMeaning(ancestor, l, r, k) ==
    Cardinality({v.cat : v \in Values(ChangedSince(ancestor, l), ChangedSince(ancestor, r), k)}) > 1

(* Both sides changed it, and not alike. *)
Contradicted(ancestor, l, r, k) ==
    Cardinality(Values(ChangedSince(ancestor, l), ChangedSince(ancestor, r), k)) > 1

Conflicting(ancestor, l, r, mode, scope) ==
    {k \in InScope(ancestor, l, r, mode, scope) : Contradicted(ancestor, l, r, k)}

Selected(ancestor, l, r, mode, scope) ==
    InScope(ancestor, l, r, mode, scope) \ Conflicting(ancestor, l, r, mode, scope)

Result(ancestor, l, r, mode, scope) ==
    IF Conflicting(ancestor, l, r, mode, scope) # {} THEN "manual_required" ELSE "applicable"

(* narrow_reconciliation: two workspaces forked from the same checkpoint,  *)
(* a stored checkpoint of each.                                            *)
Siblings(v, w) ==
    /\ v # w /\ Exists(v) /\ Exists(w)
    /\ ws[v].lineage # None /\ ws[w].lineage # None
    /\ ws[v].lineage.parent = ws[w].lineage.parent
    /\ ws[v].lineage.ck = ws[w].lineage.ck

(* The accepted_handoff mode takes the handoff made from the left          *)
(* checkpoint for the right workspace, and its admission there.            *)
HandoffAccepted(h, v, l, w, r) ==
    /\ h.from = v /\ h.ck = l /\ h.target = w
    /\ Decision(w, r, h) = "admitted"

-----------------------------------------------------------------------------
(* Properties.                                                             *)

(* What the items say, done to f. *)
Patch(f, items) ==
    [k \in (DOMAIN f \union {i.key : i \in items})
            \ {i.key : i \in {j \in items : j.action = "removed"}} |->
         IF \E i \in items : i.key = k THEN (CHOOSE i \in items : i.key = k).after ELSE f[k]]

OfKind(items, kind) == {i \in items : i.kind = kind}

(* A delta is exact: done to the base it gives the target, it says nothing *)
(* that is not so, and whatever the two checkpoints say differently about  *)
(* the same thing is among its conflicts.                                  *)
DeltaExact ==
    \A w, from \in WorkspaceId : \A b, t \in CheckpointId : DeltaAllowed(w, from, b, t) =>
        LET base == ws[from].checkpoints[b].state
            target == ws[w].checkpoints[t].state
            items == DeltaItems(base, target)
        IN  Comparable(base, target) =>
                /\ Patch(Portable(base.sources), OfKind(items, "source")) = Portable(target.sources)
                /\ Patch(Keyed(base.entries), OfKind(items, "project_context"))
                       = Keyed(target.entries)
                /\ Patch(base.pins, OfKind(items, "package")) = target.pins
                /\ (OfKind(items, "policy") = {}) = (base.policy = target.policy)
                /\ \A i \in items : i.before # i.after
                /\ \A e \in base.entries, f \in target.entries : e.id = f.id /\ e.cat # f.cat =>
                       \E c \in DeltaConflicts(items) : c.key = e.id /\ c.left = e /\ c.right = f

(* What is selected can be taken over to the other side without losing a   *)
(* change made there: the other side does not have the entry, has the same *)
(* or still has the ancestor's.                                            *)
NoChangeLost(ancestor, l, r, selected) ==
    \A e \in l.entries \ ancestor.entries : e.id \in selected =>
        \A f \in r.entries : f.id = e.id => f = e \/ f \in ancestor.entries

(* Nothing is forgotten: an entry that a side changed is selected or in    *)
(* conflict in one of the two modes, unless the other side changed it to   *)
(* the other group of categories.                                          *)
NothingForgotten(ancestor, l, r) ==
    \A e \in l.entries \ ancestor.entries :
        \/ \E mode \in {"knowledge", "decisions"} : e.id \in InScope(ancestor, l, r, mode, EntryId)
        \/ \E f \in r.entries \ ancestor.entries :
               f.id = e.id /\ (f.cat = Decisions) # (e.cat = Decisions)

(* An admitted handoff is reconciled: all of its entries that are new      *)
(* since the ancestor are selected, and the receiver's checkpoint with     *)
(* them is consistent, as long as the receiver is still at it.             *)
HandoffReconciled(ancestor, l, r, now, h) ==
    now = r.entries =>
        LET scope == {e.id : e \in h.entries}
            selected == Selected(ancestor, l, r, "accepted_handoff", scope)
        IN  /\ Result(ancestor, l, r, "accepted_handoff", scope) = "applicable"
            /\ \A e \in h.entries \ ancestor.entries : e.id \in selected
            /\ Consistent([r EXCEPT !.entries = @ \union {e \in h.entries : e.id \in selected}])

(* A reconciliation of two forks, whatever happened in them and in their   *)
(* parent since, loses no change, forgets none, does not depend on which   *)
(* fork asks, and agrees with the admission of a handoff.                  *)
ReconciliationSound ==
    \A v, w \in WorkspaceId : Siblings(v, w) =>
        \A x \in DOMAIN ws[v].checkpoints, y \in DOMAIN ws[w].checkpoints :
            LET ancestor == ws[ws[v].lineage.parent].checkpoints[ws[v].lineage.ck].state
                l == ws[v].checkpoints[x].state
                r == ws[w].checkpoints[y].state
            IN  /\ \A mode \in {"knowledge", "decisions"} :
                       LET selected == Selected(ancestor, l, r, mode, EntryId)
                       IN  /\ NoChangeLost(ancestor, l, r, selected)
                           /\ selected = Selected(ancestor, r, l, mode, EntryId)
                /\ NothingForgotten(ancestor, l, r)
                /\ \A id \in DOMAIN handoffs : HandoffAccepted(handoffs[id], v, x, w, y) =>
                       HandoffReconciled(ancestor, l, r, ws[w].entries, handoffs[id])

(* Every entry that a fork changed is in a reconciliation of one of the    *)
(* two modes, selected or in conflict.                                     *)
EveryChangeReported ==
    \A v, w \in WorkspaceId : Siblings(v, w) =>
        \A x \in DOMAIN ws[v].checkpoints, y \in DOMAIN ws[w].checkpoints :
            LET ancestor == ws[ws[v].lineage.parent].checkpoints[ws[v].lineage.ck].state
                l == ws[v].checkpoints[x].state
                r == ws[w].checkpoints[y].state
            IN  \A e \in l.entries \ ancestor.entries : \E mode \in {"knowledge", "decisions"} :
                    e.id \in InScope(ancestor, l, r, mode, EntryId)

=============================================================================
