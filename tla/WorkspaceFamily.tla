-------------------------- MODULE WorkspaceFamily --------------------------
(***************************************************************************)
(* Several workspaces under one state root: fork, create_handoff,          *)
(* admit_handoff and apply_handoff (workspace.py, parallel_context.py).    *)
(*                                                                         *)
(* A fork reads a stored checkpoint of its parent and publishes the child  *)
(* later, under the create lock.  apply_handoff admits the handoff on what *)
(* it reads and appends later, under the receiver's lock.  Both are two    *)
(* steps here, with anything in between.  The operations on one workspace  *)
(* are single steps: their races are the subject of module Workspace.      *)
(* With from_checkpoint=None, or receiver_checkpoint=None, the call begins *)
(* with checkpoint(), which is a step of its own here as it is there.      *)
(***************************************************************************)
EXTENDS WorkspaceState

CONSTANTS
    WorkspaceId,    \* workspace_id values
    Root,           \* the workspace made by create()
    HandoffId,      \* handoff_id values
    Client,         \* callers of fork and apply_handoff
    Workloads       \* what may be asked for in one behaviour: see Workload

(* The policy of Root, the policies that forks and tighten_policy ask for, *)
(* the kinds of events on one workspace, the callers of fork and of        *)
(* apply_handoff, and the sources, anchors, checkpoints and handoffs.      *)
Workload == [root : Policy, policies : SUBSET Policy, kinds : SUBSET STRING,
             forkers : SUBSET Client, appliers : SUBSET Client, sources : SUBSET SourceId,
             cats : SUBSET Category, anchors : SUBSET Attachable,
             cks : SUBSET CheckpointId, handoffs : SUBSET HandoffId]

ASSUME FamilyAssumption == Root \in WorkspaceId /\ Workloads \subseteq Workload

VARIABLES
    load,      \* the workload of this behaviour
    ws,        \* the workspaces that exist: workspace_id -> projected state
    handoffs,  \* the handoff documents that exist: handoff_id -> document
    runtime,   \* _runtime_source_bindings: the portable sources rebound here
    pc,        \* where each client is: "idle", "publish" or "append"
    req,       \* what it is about to publish or append: [ws, arg]
    out        \* how its last apply_handoff ended: [how, ws, id]

vars == <<load, ws, handoffs, runtime, pc, req, out>>

Nothing == [how |-> "none", ws |-> None, id |-> None]
NoRequest == [ws |-> None, arg |-> None]

Init ==
    /\ load \in Workloads
    /\ ws = [w \in {Root} |-> Created(w, load.root)]
    /\ handoffs = Empty
    /\ runtime = {}
    /\ pc = [c \in Client |-> "idle"]
    /\ req = [c \in Client |-> NoRequest]
    /\ out = [c \in Client |-> Nothing]

Exists(w) == w \in DOMAIN ws

-----------------------------------------------------------------------------
(* Operations on one workspace.                                            *)

Do(w, kind, arg) ==
    LET e == [id |-> NoId, kind |-> kind, arg |-> arg]
    IN  /\ kind \in load.kinds
        /\ Exists(w)
        /\ Accepts(ws[w], e)
        /\ ws' = [ws EXCEPT ![w] = Apply(@, e)]
        /\ UNCHANGED <<handoffs, runtime, pc, req, out>>

attach_source(w, src, anchor) == Do(w, "source_attached", [src |-> src, anchor |-> anchor])

update_source(w, src, anchor) ==
    /\ Exists(w)
    /\ src \in DOMAIN ws[w].sources
    /\ Do(w, "source_updated", [src |-> src, anchor |-> anchor, prev |-> ws[w].sources[src]])

pin_package(w, package, artifact) ==
    Do(w, "package_pinned", [package |-> package, artifact |-> artifact, prev |-> ws[w].pins])

commit_context(w, entry) ==
    Do(w, "context_committed", [entries |-> {entry}, ses |-> None])

checkpoint(w, ck) ==
    Do(w, "checkpoint_created",
       [ck |-> ck, at |-> Len(ws[w].events), state |-> Logical(ws[w])])

tighten_policy(w, policy) ==
    Do(w, "policy_tightened", [policy |-> policy, prev |-> ws[w].policy])

(* restore() needs an engine binding for every source of the checkpoint. *)
restore(w, ck) ==
    /\ Exists(w)
    /\ ck \in DOMAIN ws[w].checkpoints
    /\ \A x \in DOMAIN ws[w].checkpoints[ck].state.sources :
           ws[w].checkpoints[ck].state.sources[x].bind # None
    /\ Do(w, "workspace_restored", [ck |-> ck])

complete(w) == Do(w, "workspace_completed", Empty)

(* bind_source: a portable source is bound to a file of this machine. *)
bind_source(w, src) ==
    /\ "source_bound" \in load.kinds
    /\ Exists(w)
    /\ src \in DOMAIN ws[w].sources
    /\ ~ws[w].sources[src].ext
    /\ runtime' = runtime \union {<<w, src>>}
    /\ UNCHANGED <<ws, handoffs, pc, req, out>>

-----------------------------------------------------------------------------
(* Forks.                                                                  *)

(* Mutant of Content: the child gets the parent's state of the moment. *)
ContentNow(w, ck) == Logical(ws[w])

(* The state that a child inherits: the checkpoint's. *)
Content(w, ck) == ws[w].checkpoints[ck].state

Child(r) == Created(r.ws, r.policy)
Forked(r) == [id |-> NoId, kind |-> "workspace_forked", arg |-> r.arg]

(* fork, up to the temporary directory with the child's two events. *)
fork(c, w, ck, child, policy) ==
    LET r == [ws |-> child, policy |-> policy,
              arg |-> [state |-> Content(w, ck),
                       lineage |-> [parent |-> w, ck |-> ck, child |-> child]]]
    IN  /\ pc[c] = "idle"
        /\ Exists(w) /\ ws[w].lifecycle = "active"
        /\ ck \in DOMAIN ws[w].checkpoints
        /\ ~Exists(child)
        /\ Accepts(Child(r), Forked(r))
        /\ pc' = [pc EXCEPT ![c] = "publish"]
        /\ req' = [req EXCEPT ![c] = r]
        /\ UNCHANGED <<ws, handoffs, runtime, out>>

(* The directory is renamed, unless the workspace exists by now; the       *)
(* process may also be killed before.                                      *)
PublishFork(c) ==
    /\ pc[c] = "publish"
    /\ \/ /\ ~Exists(req[c].ws)
          /\ ws' = Put(ws, req[c].ws, Apply(Child(req[c]), Forked(req[c])))
       \/ UNCHANGED ws
    /\ pc' = [pc EXCEPT ![c] = "idle"]
    /\ req' = [req EXCEPT ![c] = NoRequest]
    /\ UNCHANGED <<handoffs, runtime, out>>

-----------------------------------------------------------------------------
(* Handoffs.                                                               *)

(* create_handoff: the selected entries of a checkpoint, with the portable *)
(* anchors of their sources, all its pins and its policy as the floor.     *)
create_handoff(w, ck, h, target, entries) ==
    /\ Exists(w)
    /\ h \notin DOMAIN handoffs
    /\ ck \in DOMAIN ws[w].checkpoints
    /\ entries \subseteq ws[w].checkpoints[ck].state.entries
    /\ LET state == ws[w].checkpoints[ck].state
           used == {e.src : e \in entries} \ {None}
       IN  handoffs' = Put(handoffs, h,
               [id |-> h, from |-> w, ck |-> ck, lineage |-> ws[w].lineage, target |-> target,
                entries |-> entries,
                anchors |-> Portable([x \in used |-> state.sources[x]]),
                pins |-> state.pins, floor |-> state.policy])
    /\ UNCHANGED <<ws, runtime, pc, req, out>>

(* admit_handoff: what the sender's journal says is compared too. *)
Verified(w, h) ==
    /\ Exists(h.from)
    /\ h.ck \in DOMAIN ws[h.from].checkpoints
    /\ ws[h.from].lineage = h.lineage
    /\ h.from = w \/ LineageOk(ws[w], h)

Available(w) == {x \in DOMAIN ws[w].sources : ws[w].sources[x].bind # None \/ <<w, x>> \in runtime}

(* The decision, on the receiver's checkpoint ck for policy, pins and      *)
(* sources, and on its current entries for conflicts.                      *)
Decision(w, ck, h) ==
    LET state == ws[w].checkpoints[ck].state
        mine == Portable(state.sources)
    IN  IF \/ h.target # w
           \/ ~Verified(w, h)
           \/ ~FloorMet(state.policy, h)
           \/ ~PinsExact(state.pins, h)
           \/ \E x \in DOMAIN h.anchors : x \in DOMAIN mine /\ mine[x] # h.anchors[x]
           \/ \E e \in h.entries : \E f \in ws[w].entries : f.id = e.id /\ f # e
        THEN "rejected"
        ELSE IF \A x \in DOMAIN h.anchors : x \in DOMAIN mine /\ x \in Available(w)
             THEN "admitted" ELSE "degraded"

Ends(c, how, w, id) == out' = [out EXCEPT ![c] = [how |-> how, ws |-> w, id |-> id]]

(* apply_handoff up to _append: a handoff that was applied is answered     *)
(* with its receipt, a rejected one refused.                               *)
apply_handoff(c, w, id, ck) ==
    /\ pc[c] = "idle"
    /\ Exists(w)
    /\ id \in DOMAIN handoffs
    /\ IF id \in DOMAIN ws[w].applied
       THEN Ends(c, "receipt", w, id) /\ UNCHANGED <<pc, req>>
       ELSE /\ ck \in DOMAIN ws[w].checkpoints
            /\ IF Decision(w, ck, handoffs[id]) = "rejected"
               THEN Ends(c, "refused", w, id) /\ UNCHANGED <<pc, req>>
               ELSE /\ pc' = [pc EXCEPT ![c] = "append"]
                    /\ req' = [req EXCEPT ![c] =
                           [ws |-> w, arg |-> [handoff |-> handoffs[id],
                                               decision |-> Decision(w, ck, handoffs[id])]]]
                    /\ out' = [out EXCEPT ![c] = Nothing]
    /\ UNCHANGED <<ws, handoffs, runtime>>

(* _append in apply_handoff. *)
AppendHandoff(c) ==
    LET w == req[c].ws
        e == [id |-> NoId, kind |-> "handoff_applied", arg |-> req[c].arg]
    IN  /\ pc[c] = "append"
        /\ \/ /\ Accepts(ws[w], e)
              /\ ws' = [ws EXCEPT ![w] = Apply(@, e)]
              /\ Ends(c, "receipt", w, req[c].arg.handoff.id)
           \/ /\ ~Accepts(ws[w], e)
              /\ Ends(c, "refused", w, req[c].arg.handoff.id)
              /\ UNCHANGED ws
        /\ pc' = [pc EXCEPT ![c] = "idle"]
        /\ req' = [req EXCEPT ![c] = NoRequest]
        /\ UNCHANGED <<handoffs, runtime>>

-----------------------------------------------------------------------------
Next ==
    /\ \/ \E w \in WorkspaceId, src \in load.sources, anchor \in load.anchors :
              attach_source(w, src, anchor) \/ update_source(w, src, anchor)
       \/ \E w \in WorkspaceId, p \in Package, artifact \in Artifact : pin_package(w, p, artifact)
       \/ \E w \in WorkspaceId, e \in Entry : e.cat \in load.cats /\ commit_context(w, e)
       \/ \E w \in WorkspaceId, ck \in load.cks : checkpoint(w, ck)
       \/ \E w \in WorkspaceId, policy \in load.policies : tighten_policy(w, policy)
       \/ \E w \in WorkspaceId, ck \in CheckpointId : restore(w, ck)
       \/ \E w \in WorkspaceId : complete(w)
       \/ \E w \in WorkspaceId, src \in load.sources : bind_source(w, src)
       \/ \E c \in load.forkers, w, child \in WorkspaceId, ck \in CheckpointId,
             policy \in load.policies \union {load.root} : fork(c, w, ck, child, policy)
       \/ \E c \in Client : PublishFork(c)
       \/ \E w, target \in WorkspaceId, ck \in CheckpointId, h \in load.handoffs :
             Exists(w) /\ ck \in DOMAIN ws[w].checkpoints
             /\ \E e \in ws[w].checkpoints[ck].state.entries : create_handoff(w, ck, h, target, {e})
       \/ \E c \in load.appliers, w \in WorkspaceId, h \in load.handoffs, ck \in CheckpointId :
             apply_handoff(c, w, h, ck)
       \/ \E c \in Client : AppendHandoff(c)
    /\ UNCHANGED load

Spec == Init /\ [][Next]_vars

-----------------------------------------------------------------------------
(* Properties.                                                             *)

(* The type of the family's state. *)
TypeOK ==
    /\ \A w \in WorkspaceId : Exists(w) =>
           /\ ws[w].id = w
           /\ ws[w].policy \in Policy
           /\ DOMAIN ws[w].sources \subseteq SourceId
           /\ ws[w].entries \subseteq Entry
           /\ DOMAIN ws[w].applied \subseteq DOMAIN handoffs
           /\ ws[w].lineage # None => Exists(ws[w].lineage.parent)
    /\ DOMAIN handoffs \subseteq HandoffId
    /\ runtime \subseteq WorkspaceId \X SourceId
    /\ pc \in [Client -> {"idle", "publish", "append"}]

Children == {w \in WorkspaceId : Exists(w) /\ ws[w].lineage # None}
ParentCheckpoint(w) == ws[ws[w].lineage.parent].checkpoints[ws[w].lineage.ck].state

(* A child began with exactly the checkpoint its lineage names, which its  *)
(* parent still holds, whatever happened to the parent meanwhile.          *)
ForksFaithful ==
    \A w \in Children :
        /\ ws[w].lineage.ck \in DOMAIN ws[ws[w].lineage.parent].checkpoints
        /\ ws[w].events[2].arg.state = ParentCheckpoint(w)

(* A child never has a looser policy than the checkpoint it was forked     *)
(* from, and neither has a child of a child.                               *)
ForkPolicyFloor == \A w \in Children : Tightens(ws[w].policy, ParentCheckpoint(w).policy)

(* A handoff is applied at most once to a workspace, also by clients that  *)
(* admit it at the same time and after a restore.                          *)
HandoffOnce ==
    \A w \in WorkspaceId : Exists(w) =>
        \A i, j \in 1..Len(ws[w].events) :
            /\ ws[w].events[i].kind = "handoff_applied"
            /\ ws[w].events[j].kind = "handoff_applied"
            /\ ws[w].events[i].arg.handoff.id = ws[w].events[j].arg.handoff.id
            => i = j

(* Every workspace stays well formed and consistent, though entries and    *)
(* sources arrive by commits and by handoffs admitted on an older state.   *)
FamilyConsistent == TypeOK /\ \A w \in WorkspaceId : Exists(w) => Consistent(Logical(ws[w]))

(* When a handoff is applied, the receiver has its entries as they were    *)
(* sent, and the sources of these entries as they were sent, though other  *)
(* calls committed and attached after the handoff was admitted.            *)
HandoffGrounded ==
    [][\A w \in WorkspaceId : Exists(w) /\ ws'[w].applied # ws[w].applied =>
           \A id \in DOMAIN ws'[w].applied \ DOMAIN ws[w].applied :
               LET h == handoffs[id]
               IN  /\ h.entries \subseteq ws'[w].entries
                   /\ \A x \in DOMAIN h.anchors : Portable(ws'[w].sources)[x] = h.anchors[x]]_vars

(* A workspace that applied a handoff is at least as strict as the         *)
(* checkpoint the handoff was made from.                                   *)
HandoffPolicyFloor ==
    \A w \in WorkspaceId : Exists(w) =>
        \A h \in DOMAIN ws[w].applied : Tightens(ws[w].policy, ws[w].applied[h].floor)

(* Content never comes to a workspace that is looser than the checkpoint   *)
(* it was taken from, by a fork or by a handoff.                           *)
PolicyFloors == ForkPolicyFloor /\ HandoffPolicyFloor

(* What a workspace holds is allowed by its own policy. *)
FamilyObeysPolicy ==
    \A w \in WorkspaceId : Exists(w) =>
        /\ \A e \in ws[w].entries : e.cat \in ws[w].policy.cats
        /\ ExternalAllowed(ws[w].sources, ws[w].policy)

(* A fork never relaxes the policy of its parent. *)
ForkNeverRelaxes ==
    [][\A w \in WorkspaceId : ~Exists(w) /\ Exists(w)' =>
           Tightens(ws'[w].policy, ws[ws'[w].lineage.parent].policy)]_vars

(* A receipt for a handoff means that its entries are in the workspace. *)
ReceiptMeansImported ==
    [][\A c \in Client : out'[c] # out[c] /\ out'[c].how = "receipt" =>
           handoffs[out'[c].id].entries \subseteq ws'[out'[c].ws].entries]_vars

=============================================================================
