------------------------ MODULE WorkspaceFamilyProof ------------------------
(***************************************************************************)
(* Proofs about WorkspaceFamily, and about the reports of ParallelReports  *)
(* on the states it reaches, for every set of workspaces, clients,         *)
(* handoffs and policies.                                                  *)
(*                                                                         *)
(* A fork and a handoff are built from a checkpoint that was read some     *)
(* time ago.  FInv says what is still true of it: a checkpoint never       *)
(* changes and a policy only tightens (Later), so that what a request or a *)
(* document names is still there (RequestsOK, ForksOK, AppliedOK).         *)
(***************************************************************************)
EXTENDS ParallelReports, WorkspaceStateProof, FiniteSetTheorems

(* A handoff document, stored under its handoff_id. *)
HandoffOK(h, id) ==
    /\ h.id = id
    /\ DOMAIN h.anchors \subseteq SourceId
    /\ \A x \in DOMAIN h.anchors : h.anchors[x] \in Anchor /\ h.anchors[x].bind = None
    /\ h.entries \subseteq Entry
    /\ Distinct(h.entries)
    /\ \A e \in h.entries : e.src # None => e.src \in DOMAIN h.anchors
    /\ h.floor \in Policy

(* Its entries are those of the checkpoint it was made from. *)
Made(h) ==
    /\ h.from \in DOMAIN ws
    /\ h.ck \in DOMAIN ws[h.from].checkpoints
    /\ h.entries \subseteq ws[h.from].checkpoints[h.ck].state.entries

HandoffsOK ==
    /\ DOMAIN handoffs \subseteq HandoffId
    /\ \A id \in DOMAIN handoffs : HandoffOK(handoffs[id], id) /\ Made(handoffs[id])

StatesOK ==
    /\ DOMAIN ws \subseteq WorkspaceId
    /\ \A w \in DOMAIN ws : StateOK(ws[w]) /\ ws[w].id = w /\ Len(ws[w].events) >= 1

(* The checkpoint that a lineage names is there and has this state. *)
Names(lineage, state) ==
    /\ lineage.parent \in DOMAIN ws
    /\ lineage.ck \in DOMAIN ws[lineage.parent].checkpoints
    /\ ws[lineage.parent].checkpoints[lineage.ck].state = state

ForkOK(s) ==
    s.lineage # None =>
        /\ Len(s.events) >= 2
        /\ Names(s.lineage, s.events[2].arg.state)
        /\ s.events[2].arg.state.policy \in Policy
        /\ Tightens(s.policy, s.events[2].arg.state.policy)

ForksOK == \A w \in DOMAIN ws : ForkOK(ws[w])

(* The handoffs that s applied, and the events that say so. *)
Applied(s) ==
    /\ \A id \in DOMAIN s.applied : /\ id \in DOMAIN handoffs
                                    /\ s.applied[id] = handoffs[id]
                                    /\ Tightens(s.policy, s.applied[id].floor)
    /\ \A i \in 1..Len(s.events) :
           s.events[i].kind = "handoff_applied" => s.events[i].arg.handoff.id \in DOMAIN s.applied
    /\ \A i, j \in 1..Len(s.events) :
           /\ s.events[i].kind = "handoff_applied"
           /\ s.events[j].kind = "handoff_applied"
           /\ s.events[i].arg.handoff.id = s.events[j].arg.handoff.id
           => i = j

AppliedOK == \A w \in DOMAIN ws : Applied(ws[w])

(* What a client is about to publish or to append. *)
RequestOK(p, r) ==
    /\ p = "publish" =>
           /\ r.ws \in WorkspaceId
           /\ r.policy \in Policy
           /\ Names(r.arg.lineage, r.arg.state)
           /\ Accepts(Child(r), Forked(r))
    /\ p = "append" =>
           /\ r.ws \in DOMAIN ws
           /\ r.arg.handoff.id \in DOMAIN handoffs
           /\ r.arg.handoff = handoffs[r.arg.handoff.id]

RequestsOK ==
    /\ pc \in [Client -> {"idle", "publish", "append"}]
    /\ DOMAIN req = Client
    /\ \A c \in Client : RequestOK(pc[c], req[c])

FInv ==
    /\ load \in Workload
    /\ runtime \subseteq WorkspaceId \X SourceId
    /\ StatesOK
    /\ HandoffsOK
    /\ ForksOK
    /\ AppliedOK
    /\ RequestsOK

-----------------------------------------------------------------------------
(* Every workspace goes on or stays, and documents stay as they are.       *)

Onward ==
    /\ \A w \in DOMAIN ws : w \in DOMAIN ws' /\ Later(ws[w], ws'[w])
    /\ \A id \in DOMAIN handoffs : id \in DOMAIN handoffs' /\ handoffs'[id] = handoffs[id]

(* A checkpoint that was named is still named. *)
LEMMA NamesStay ==
    ASSUME Onward, NEW lineage, NEW state, Names(lineage, state)
    PROVE  Names(lineage, state)'
BY DEF Onward, Later, Names

(* What was requested some time ago can still be relied on. *)
LEMMA RequestStays ==
    ASSUME Onward, NEW p, NEW r, RequestOK(p, r)
    PROVE  RequestOK(p, r)'
<1>1. CASE p = "publish"
  BY <1>1, NamesStay DEF RequestOK, Child, Forked
<1>2. CASE p = "append"
  BY <1>2 DEF RequestOK, Onward
<1>3. CASE p \notin {"publish", "append"}
  BY <1>3 DEF RequestOK
<1> QED
  BY <1>1, <1>2, <1>3

(* Client c steps, and the others are where they were. *)
Steps(c, p, r) ==
    /\ pc' = [pc EXCEPT ![c] = p]
    /\ req' = [req EXCEPT ![c] = r]

(* What pending requests rely on stays true while one client steps. *)
LEMMA RequestsStep ==
    ASSUME RequestsOK, Onward, NEW c \in Client, NEW p, NEW r,
           p \in {"idle", "publish", "append"}, Steps(c, p, r), RequestOK(p, r)
    PROVE  RequestsOK'
<1>1. pc' \in [Client -> {"idle", "publish", "append"}] /\ DOMAIN req' = Client
  BY DEF RequestsOK, Steps
<1>2. ASSUME NEW d \in Client PROVE RequestOK(pc[d], req[d])'
  <2>1. CASE d = c
    <3>1. pc'[d] = p /\ req'[d] = r
      BY <2>1 DEF RequestsOK, Steps
    <3> QED
      BY <3>1, RequestStays
  <2>2. CASE d # c
    <3>1. pc'[d] = pc[d] /\ req'[d] = req[d]
      BY <2>2 DEF RequestsOK, Steps
    <3>2. RequestOK(pc[d], req[d])
      BY DEF RequestsOK
    <3> QED
      BY <3>1, <3>2, RequestStays
  <2> QED
    BY <2>1, <2>2
<1> QED
  BY <1>1, <1>2 DEF RequestsOK

(* ... and while no client steps. *)
LEMMA RequestsStay ==
    ASSUME RequestsOK, Onward, UNCHANGED <<pc, req>>
    PROVE  RequestsOK'
BY RequestStays DEF RequestsOK

(* What a document was made from stays. *)
LEMMA MadeStays ==
    ASSUME Onward, NEW h, Made(h)
    PROVE  Made(h)'
BY DEF Onward, Later, Made

(* Proposed handoffs stay well formed while the workspaces move on. *)
LEMMA HandoffsStay ==
    ASSUME HandoffsOK, Onward, UNCHANGED handoffs
    PROVE  HandoffsOK'
<1>1. \A id \in DOMAIN handoffs' : HandoffOK(handoffs[id], id)'
  BY DEF HandoffsOK, HandoffOK
<1>2. ASSUME NEW id \in DOMAIN handoffs' PROVE Made(handoffs[id])'
  <2>1. PICK h : h = handoffs[id]
    OBVIOUS
  <2>2. Made(h)
    BY <2>1 DEF HandoffsOK
  <2>3. Made(h)'
    BY <2>2, MadeStays
  <2> QED
    BY <2>1, <2>3 DEF Made
<1> QED
  BY <1>1, <1>2 DEF HandoffsOK
-----------------------------------------------------------------------------
(* A workspace accepts an event.                                           *)

Goes(w, e) ==
    /\ w \in DOMAIN ws
    /\ EventOK(e)
    /\ e.kind # "workspace_forked"
    /\ Accepts(ws[w], e)
    /\ ws' = [ws EXCEPT ![w] = Apply(@, e)]

(* The state of w goes on by the effect of the event, and the others stay. *)
LEMMA GoesEffect ==
    ASSUME StatesOK, NEW w, NEW e, Goes(w, e)
    PROVE  /\ DOMAIN ws' = DOMAIN ws
           /\ \A v \in DOMAIN ws : v # w => ws'[v] = ws[v]
           /\ Effect(ws[w], e, ws'[w]) /\ Require(ws[w], e)
           /\ StateOK(ws'[w]) /\ Later(ws[w], ws'[w])
           /\ StatesOK'
<1>1. /\ DOMAIN ws' = DOMAIN ws /\ ws'[w] = Apply(ws[w], e)
      /\ \A v \in DOMAIN ws : v # w => ws'[v] = ws[v]
  BY DEF Goes
<1>2. StateOK(ws[w]) /\ Require(ws[w], e)
  BY DEF Goes, StatesOK, Accepts
<1>3. Effect(ws[w], e, ws'[w])
  BY <1>1, <1>2, ApplyEffect DEF Goes, StateOK, EventOK
<1>4. StateOK(ws'[w])
  BY <1>1, <1>2, StateKept DEF Goes
<1>5. Later(ws[w], ws'[w])
  BY <1>2, <1>3, EventLater DEF Goes
<1>6. ws'[w].id = w /\ Len(ws'[w].events) >= 1
  <2>1. IsSeq(ws[w].events) /\ IsSeq(ws'[w].events) /\ ws[w].id = w /\ Len(ws[w].events) >= 1
    BY <1>4 DEF StatesOK, StateOK, Goes
  <2>2. Len(ws[w].events) \in Nat /\ Len(ws'[w].events) \in Nat
    BY <2>1, LenProperties DEF IsSeq
  <2> QED
    BY <1>5, <2>1, <2>2 DEF Later
<1>7. StatesOK'
  BY <1>1, <1>4, <1>6 DEF StatesOK
<1> QED
  BY <1>1, <1>2, <1>3, <1>4, <1>5, <1>7

(* So every workspace goes on. *)
LEMMA GoesOnward ==
    ASSUME StatesOK, NEW w, NEW e, Goes(w, e), handoffs' = handoffs
    PROVE  Onward
BY GoesEffect, LaterSelf DEF Onward, StatesOK

(* A fork stays as tight as the checkpoint it began with. *)
LEMMA ForkStays ==
    ASSUME Onward, NEW s, StateOK(s), ForkOK(s), NEW t, StateOK(t), Later(s, t)
    PROVE  ForkOK(t)'
<1> SUFFICES ASSUME t.lineage # None
             PROVE  /\ Len(t.events) >= 2
                    /\ Names(t.lineage, t.events[2].arg.state)'
                    /\ t.events[2].arg.state.policy \in Policy
                    /\ Tightens(t.policy, t.events[2].arg.state.policy)
  BY DEF ForkOK
<1>1. s.lineage = t.lineage
  BY DEF Later
<1>2. Len(s.events) \in Nat /\ Len(t.events) \in Nat
  BY LenProperties DEF StateOK, IsSeq
<1>3. PICK l : l = s.events[2].arg.state
  OBVIOUS
<1>4. Len(s.events) >= 2 /\ Names(s.lineage, l) /\ l.policy \in Policy /\ Tightens(s.policy, l.policy)
  BY <1>1, <1>3 DEF ForkOK
<1>5. t.events[2].arg.state = l /\ Len(t.events) >= 2
  BY <1>2, <1>3, <1>4 DEF Later
<1>6. Names(t.lineage, l)'
  BY <1>1, <1>4, NamesStay
<1>7. Tightens(t.policy, l.policy)
  BY <1>4, TightensOn DEF Later, StateOK, Sound
<1> QED
  BY <1>4, <1>5, <1>6, <1>7

(* An event of one workspace leaves every fork with the state of the       *)
(* checkpoint it was made from.                                            *)
LEMMA ForksStay ==
    ASSUME StatesOK, ForksOK, NEW w, NEW e, Goes(w, e), handoffs' = handoffs
    PROVE  ForksOK'
<1>1. Onward
  BY GoesOnward
<1>2. ASSUME NEW v \in DOMAIN ws' PROVE ForkOK(ws[v])'
  <2>1. v \in DOMAIN ws /\ StateOK(ws[v]) /\ StateOK(ws'[v]) /\ Later(ws[v], ws'[v])
    BY <1>1, GoesEffect DEF StatesOK, Onward
  <2>2. PICK s, t : s = ws[v] /\ t = ws'[v]
    OBVIOUS
  <2>3. ForkOK(s)
    BY <2>1, <2>2 DEF ForksOK
  <2>4. ForkOK(t)'
    BY <1>1, <2>1, <2>2, <2>3, ForkStays
  <2> QED
    BY <2>2, <2>4 DEF ForkOK
<1> QED
  BY <1>2 DEF ForksOK

(* A handoff that was applied stays applied, and no other event of it      *)
(* appears.                                                                *)
LEMMA AppliedStays ==
    ASSUME NEW s, StateOK(s), Applied(s), NEW e, e.kind \notin {"workspace_forked", "handoff_applied"},
           EventOK(e), NEW t, StateOK(t), Effect(s, e, t), Later(s, t), HandoffsOK,
           handoffs' = handoffs
    PROVE  Applied(t)'
<1> DEFINE n == Len(s.events)
<1>1. /\ n \in Nat /\ Len(t.events) = n + 1
      /\ \A i \in 1..n : t.events[i] = s.events[i]
      /\ t.events[n+1] = e
  BY AppendKeeps DEF Effect, StateOK
<1>2. t.applied = s.applied
  BY DEF Effect, Keeps, EventOK, Kind
<1>3. \A id \in DOMAIN t.applied : /\ id \in DOMAIN handoffs'
                                   /\ t.applied[id] = handoffs'[id]
                                   /\ Tightens(t.policy, t.applied[id].floor)
  BY <1>2, TightensOn DEF Applied, Later, StateOK, Sound, HandoffsOK, HandoffOK
<1>4. \A i \in 1..Len(t.events) : t.events[i].kind = "handoff_applied" => i \in 1..n
  BY <1>1
<1> HIDE DEF n
<1>5. /\ \A i \in 1..Len(t.events) :
             t.events[i].kind = "handoff_applied" => t.events[i].arg.handoff.id \in DOMAIN t.applied
      /\ \A i, j \in 1..Len(t.events) :
             /\ t.events[i].kind = "handoff_applied"
             /\ t.events[j].kind = "handoff_applied"
             /\ t.events[i].arg.handoff.id = t.events[j].arg.handoff.id
             => i = j
  BY <1>1, <1>2, <1>4 DEF Applied, n
<1> QED
  BY <1>3, <1>5 DEF Applied

(* The operations of one workspace keep the invariant. *)
LEMMA GoesOK ==
    ASSUME FInv, NEW w, NEW e, Goes(w, e), e.kind # "handoff_applied",
           UNCHANGED <<handoffs, runtime, pc, req, load>>
    PROVE  FInv'
<1> USE DEF FInv
<1>1. StatesOK' /\ Onward
  BY GoesEffect, GoesOnward
<1>2. HandoffsOK'
  BY <1>1, HandoffsStay
<1>3. ForksOK'
  BY ForksStay
<1>4. ASSUME NEW v \in DOMAIN ws' PROVE Applied(ws[v])'
  <2>1. PICK s, t : s = ws[v] /\ t = ws'[v]
    OBVIOUS
  <2>2. v \in DOMAIN ws /\ Applied(s) /\ StateOK(s)
    BY <2>1, GoesEffect DEF AppliedOK, StatesOK
  <2>3. Applied(t)'
    <3>1. CASE v = w
      <4>1. Effect(s, e, t) /\ StateOK(t) /\ Later(s, t)
        BY <2>1, <3>1, GoesEffect
      <4>2. EventOK(e) /\ e.kind \notin {"workspace_forked", "handoff_applied"}
        BY DEF Goes
      <4> QED
        BY <2>2, <4>1, <4>2, AppliedStays
    <3>2. CASE v # w
      <4>1. t = s
        BY <2>1, <2>2, <3>2, GoesEffect
      <4> QED
        BY <2>2, <4>1 DEF Applied
    <3> QED
      BY <3>1, <3>2
  <2> QED
    BY <2>1, <2>3 DEF Applied
<1>5. AppliedOK'
  BY <1>4 DEF AppliedOK
<1>6. RequestsOK'
  BY <1>1, RequestsStay
<1> QED
  BY <1>1, <1>2, <1>3, <1>5, <1>6

(* So does an operation that reads nothing before it. *)
LEMMA DoOK ==
    ASSUME FInv, NEW w, NEW kind, NEW arg, kind \notin {"workspace_forked", "handoff_applied"},
           EventOK([id |-> NoId, kind |-> kind, arg |-> arg]), Do(w, kind, arg), UNCHANGED load
    PROVE  FInv'
<1>1. PICK e : e = [id |-> NoId, kind |-> kind, arg |-> arg]
  OBVIOUS
<1>2. Goes(w, e) /\ e.kind \notin {"workspace_forked", "handoff_applied"}
  BY <1>1 DEF Do, Goes, Exists
<1>3. UNCHANGED <<handoffs, runtime, pc, req, load>>
  BY DEF Do
<1> QED
  BY <1>2, <1>3, GoesOK

(* The operations on one workspace give their events the values of their   *)
(* kind.                                                                   *)
LEMMA OperationsOK ==
    ASSUME FInv, UNCHANGED load, NEW w \in WorkspaceId,
           \/ \E src \in load.sources, anchor \in load.anchors :
                  attach_source(w, src, anchor) \/ update_source(w, src, anchor)
           \/ \E p \in Package, artifact \in Artifact : pin_package(w, p, artifact)
           \/ \E e \in Entry : commit_context(w, e)
           \/ \E ck \in load.cks : checkpoint(w, ck)
           \/ \E policy \in load.policies : tighten_policy(w, policy)
           \/ \E ck \in CheckpointId : restore(w, ck)
           \/ complete(w)
    PROVE  FInv'
<1>0. /\ load.sources \subseteq SourceId /\ load.anchors \subseteq Anchor
      /\ load.policies \subseteq Policy /\ load.cks \subseteq CheckpointId
  BY DEF FInv, Workload, Attachable
<1>1. ASSUME NEW src \in load.sources, NEW anchor \in load.anchors, attach_source(w, src, anchor)
      PROVE  FInv'
  <2>1. PICK a : a = [src |-> src, anchor |-> anchor]
    OBVIOUS
  <2>2. EventOK([id |-> NoId, kind |-> "source_attached", arg |-> a])
    BY <1>0, <2>1 DEF EventOK, Kind
  <2> QED
    BY <1>1, <2>1, <2>2, DoOK DEF attach_source
<1>2. ASSUME NEW src \in load.sources, NEW anchor \in load.anchors, update_source(w, src, anchor)
      PROVE  FInv'
  <2>1. PICK a : a = [src |-> src, anchor |-> anchor, prev |-> ws[w].sources[src]]
    OBVIOUS
  <2>2. EventOK([id |-> NoId, kind |-> "source_updated", arg |-> a])
    BY <1>0, <2>1 DEF EventOK, Kind
  <2> QED
    BY <1>2, <2>1, <2>2, DoOK DEF update_source
<1>3. ASSUME NEW p \in Package, NEW artifact \in Artifact, pin_package(w, p, artifact)
      PROVE  FInv'
  <2>1. PICK a : a = [package |-> p, artifact |-> artifact, prev |-> ws[w].pins]
    OBVIOUS
  <2>2. EventOK([id |-> NoId, kind |-> "package_pinned", arg |-> a])
    BY <2>1 DEF EventOK, Kind
  <2> QED
    BY <1>3, <2>1, <2>2, DoOK DEF pin_package
<1>4. ASSUME NEW e \in Entry, commit_context(w, e)
      PROVE  FInv'
  <2>1. PICK a : a = [entries |-> {e}, ses |-> None]
    OBVIOUS
  <2>2. EventOK([id |-> NoId, kind |-> "context_committed", arg |-> a])
    BY <2>1 DEF EventOK, Kind, Distinct
  <2> QED
    BY <1>4, <2>1, <2>2, DoOK DEF commit_context
<1>5. ASSUME NEW ck \in load.cks, checkpoint(w, ck)
      PROVE  FInv'
  <2>1. PICK a : a = [ck |-> ck, at |-> Len(ws[w].events), state |-> Logical(ws[w])]
    OBVIOUS
  <2>2. EventOK([id |-> NoId, kind |-> "checkpoint_created", arg |-> a])
    BY <1>0, <2>1 DEF EventOK, Kind
  <2> QED
    BY <1>5, <2>1, <2>2, DoOK DEF checkpoint
<1>6. ASSUME NEW policy \in load.policies, tighten_policy(w, policy)
      PROVE  FInv'
  <2>1. PICK a : a = [policy |-> policy, prev |-> ws[w].policy]
    OBVIOUS
  <2>2. EventOK([id |-> NoId, kind |-> "policy_tightened", arg |-> a])
    BY <1>0, <2>1 DEF EventOK, Kind
  <2> QED
    BY <1>6, <2>1, <2>2, DoOK DEF tighten_policy
<1>7. ASSUME NEW ck \in CheckpointId, restore(w, ck)
      PROVE  FInv'
  <2>1. PICK a : a = [ck |-> ck]
    OBVIOUS
  <2>2. EventOK([id |-> NoId, kind |-> "workspace_restored", arg |-> a])
    BY <2>1 DEF EventOK, Kind
  <2>3. Do(w, "workspace_restored", a)
    BY <1>7, <2>1 DEF restore
  <2> HIDE <2>1
  <2> QED
    BY <2>2, <2>3, DoOK
<1>8. ASSUME complete(w)
      PROVE  FInv'
  <2>1. PICK a : a = Empty
    OBVIOUS
  <2>2. EventOK([id |-> NoId, kind |-> "workspace_completed", arg |-> a])
    BY <2>1 DEF EventOK, Kind
  <2> QED
    BY <1>8, <2>1, <2>2, DoOK DEF complete
<1> QED
  BY <1>1, <1>2, <1>3, <1>4, <1>5, <1>6, <1>7, <1>8

(* What does not touch a workspace keeps its part of the invariant. *)
LEMMA StillOK ==
    ASSUME FInv, Onward, UNCHANGED ws
    PROVE  StatesOK' /\ ForksOK' /\ AppliedOK'
<1>1. StatesOK'
  BY DEF FInv, StatesOK
<1>2. ASSUME NEW s, Applied(s) PROVE Applied(s)'
  BY <1>2 DEF Applied, Onward
<1>3. ASSUME NEW s, ForkOK(s) PROVE ForkOK(s)'
  BY <1>3, NamesStay DEF ForkOK
<1>4. ForksOK'
  BY <1>3 DEF FInv, ForksOK
<1>5. AppliedOK'
  BY <1>2 DEF FInv, AppliedOK
<1> QED
  BY <1>1, <1>4, <1>5

(* When no workspace and no document changes, every workspace goes on. *)
LEMMA SameOnward ==
    ASSUME FInv, UNCHANGED <<ws, handoffs>>
    PROVE  Onward
BY LaterSelf DEF FInv, StatesOK, Onward

(* bind_source adds a source to one workspace. *)
LEMMA BindOK ==
    ASSUME FInv, UNCHANGED load, NEW w \in WorkspaceId, NEW src \in load.sources,
           bind_source(w, src)
    PROVE  FInv'
<1>1. UNCHANGED <<ws, handoffs, pc, req>> /\ runtime' = runtime \union {<<w, src>>}
  BY DEF bind_source
<1>2. Onward
  BY <1>1, SameOnward
<1>3. StatesOK' /\ ForksOK' /\ AppliedOK'
  BY <1>1, <1>2, StillOK
<1>4. RequestsOK'
  BY <1>1, <1>2, RequestsStay DEF FInv
<1>5. HandoffsOK'
  BY <1>1, <1>2, HandoffsStay DEF FInv
<1>6. runtime' \subseteq WorkspaceId \X SourceId
  BY <1>1 DEF FInv, Workload
<1> QED
  BY <1>3, <1>4, <1>5, <1>6 DEF FInv

(* A fork's request names the checkpoint it read. *)
LEMMA ForkOpens ==
    ASSUME FInv, UNCHANGED load, NEW c \in Client, NEW w \in WorkspaceId, NEW child \in WorkspaceId,
           NEW ck \in CheckpointId, NEW policy \in load.policies \union {load.root},
           fork(c, w, ck, child, policy)
    PROVE  FInv'
<1>1. PICK l : l = [parent |-> w, ck |-> ck, child |-> child]
  OBVIOUS
<1>2. PICK r : r = [ws |-> child, policy |-> policy, arg |-> [state |-> Content(w, ck), lineage |-> l]]
  OBVIOUS
<1>3. /\ UNCHANGED <<ws, handoffs, runtime>>
      /\ w \in DOMAIN ws /\ ck \in DOMAIN ws[w].checkpoints
      /\ Accepts(Child(r), Forked(r))
      /\ pc' = [pc EXCEPT ![c] = "publish"]
      /\ req' = [req EXCEPT ![c] = r]
  BY <1>1, <1>2 DEF fork, Exists
<1>4. Onward
  BY <1>3, SameOnward
<1>5. StatesOK' /\ ForksOK' /\ AppliedOK'
  BY <1>3, <1>4, StillOK
<1>6. HandoffsOK'
  BY <1>3, <1>4, HandoffsStay DEF FInv
<1>7. RequestOK("publish", r)
  <2>1. r.ws = child /\ r.policy = policy /\ r.arg.state = Content(w, ck) /\ r.arg.lineage = l
    BY <1>2
  <2>2. policy \in Policy
    BY DEF FInv, Workload
  <2>3. Names(l, Content(w, ck))
    BY <1>1, <1>3 DEF Names, Content
  <2> QED
    BY <1>3, <2>1, <2>2, <2>3 DEF RequestOK
<1>9. RequestsOK'
  <2>1. RequestsOK
    BY DEF FInv
  <2>2. Steps(c, "publish", r)
    BY <1>3 DEF Steps
  <2> QED
    BY <1>4, <1>7, <2>1, <2>2, RequestsStep
<1> QED
  BY <1>3, <1>5, <1>6, <1>9 DEF FInv


(* A child that is published begins with the checkpoint its request names. *)
LEMMA ChildOK ==
    ASSUME StatesOK, NEW r, RequestOK("publish", r),
           NEW t, t = Apply(Child(r), Forked(r))
    PROVE  /\ StateOK(t) /\ t.id = r.ws /\ Len(t.events) = 2
           /\ ForkOK(t) /\ Applied(t)
<1>1. PICK s : s = Child(r)
  OBVIOUS
<1>2. PICK a : a = r.arg
  OBVIOUS
<1>3. PICK e : e = [id |-> NoId, kind |-> "workspace_forked", arg |-> a]
  OBVIOUS
<1>4. PICK l : l = a.state
  OBVIOUS
<1>5. r.policy \in Policy /\ Names(a.lineage, l) /\ Accepts(s, e) /\ t = Apply(s, e)
  BY <1>1, <1>2, <1>3, <1>4 DEF RequestOK, Forked
<1>6. /\ StateOK(s) /\ s.id = r.ws /\ s.policy = r.policy
      /\ DOMAIN s.applied = {} /\ Len(s.events) = 1 /\ s.events[1].kind = "workspace_created"
  BY <1>1, <1>5, CreatedOK DEF Child
<1>7. Sound(l)
  BY <1>5 DEF Names, StatesOK, StateOK, CheckpointsSound
<1>8. EventOK(e) /\ e.kind = "workspace_forked" /\ e.arg = a
  BY <1>3, <1>4, <1>7 DEF EventOK, Kind
<1>9. StateOK(t)
  BY <1>5, <1>6, <1>8, StateKept
<1>10. Effect(s, e, t)
  BY <1>5, <1>6, <1>8, ApplyEffect DEF EventOK, StateOK
<1>11. t.id = r.ws /\ t.policy = r.policy /\ t.lineage = a.lineage /\ t.applied = s.applied
  BY <1>6, <1>8, <1>10 DEF Effect, Keeps
<1>12. /\ Len(t.events) = 2 /\ t.events[2] = e /\ t.events[1] = s.events[1]
  <2>1. t.events = Append(s.events, e) /\ IsSeq(s.events)
    BY <1>6, <1>10 DEF Effect, StateOK
  <2>2. PICK q : q = s.events
    OBVIOUS
  <2>3. /\ Len(t.events) = Len(q) + 1 /\ t.events[Len(q) + 1] = e
        /\ \A i \in 1..Len(q) : t.events[i] = q[i]
    BY <2>1, <2>2, AppendKeeps
  <2>4. Len(q) = 1
    BY <1>6, <2>2
  <2>5. Len(q) + 1 = 2 /\ 1 \in 1..Len(q)
    BY <2>4
  <2> QED
    BY <2>2, <2>3, <2>5
<1>13. Tightens(s.policy, l.policy)
  BY <1>4, <1>5, <1>8 DEF Accepts, Require, RequireWorkspaceForked, Inherits
<1>14. ForkOK(t)
  <2>1. t.events[2].arg.state = l
    BY <1>4, <1>8, <1>12
  <2>2. Names(t.lineage, l) /\ l.policy \in Policy /\ Tightens(t.policy, l.policy)
    BY <1>5, <1>6, <1>7, <1>11, <1>13 DEF Sound
  <2> QED
    BY <1>12, <2>1, <2>2 DEF ForkOK
<1>15. Applied(t)
  <2>1. DOMAIN t.applied = {}
    BY <1>6, <1>11
  <2>2. \A i \in 1..Len(t.events) : t.events[i].kind # "handoff_applied"
    BY <1>6, <1>8, <1>12
  <2> QED
    BY <2>1, <2>2 DEF Applied
<1> QED
  BY <1>9, <1>11, <1>12, <1>14, <1>15

(* The child is published, or its directory is dropped. *)
LEMMA PublishOK ==
    ASSUME FInv, UNCHANGED load, NEW c \in Client, PublishFork(c)
    PROVE  FInv'
<1>1. PICK r : r = req[c]
  OBVIOUS
<1>2. PICK p : p = NoRequest
  OBVIOUS
<1>3. /\ pc[c] = "publish" /\ RequestOK("publish", r)
      /\ UNCHANGED <<handoffs, runtime>>
      /\ Steps(c, "idle", p)
  BY <1>1, <1>2 DEF PublishFork, FInv, RequestsOK, Steps
<1>4. ASSUME Onward PROVE HandoffsOK'
  BY <1>3, <1>4, HandoffsStay DEF FInv
<1>5. RequestOK("idle", p) /\ RequestsOK
  BY DEF RequestOK, FInv
<1>6. ASSUME Onward PROVE RequestsOK'
  BY <1>3, <1>5, <1>6, RequestsStep
<1>7. CASE UNCHANGED ws
  <2>1. Onward
    BY <1>3, <1>7, SameOnward
  <2>2. StatesOK' /\ ForksOK' /\ AppliedOK'
    BY <1>7, <2>1, StillOK
  <2> QED
    BY <1>3, <1>4, <1>6, <2>1, <2>2 DEF FInv
<1>8. CASE ~Exists(r.ws) /\ ws' = Put(ws, r.ws, Apply(Child(r), Forked(r)))
  <2>1. PICK t : t = Apply(Child(r), Forked(r))
    OBVIOUS
  <2>2. StateOK(t) /\ t.id = r.ws /\ Len(t.events) = 2 /\ ForkOK(t) /\ Applied(t)
    BY <1>3, <2>1, ChildOK DEF FInv
  <2>3. /\ DOMAIN ws' = DOMAIN ws \union {r.ws} /\ r.ws \notin DOMAIN ws
        /\ ws'[r.ws] = t /\ \A v \in DOMAIN ws : ws'[v] = ws[v]
    BY <1>8, <2>1 DEF Put, Exists
  <2>4. Onward
    BY <1>3, <2>3, LaterSelf DEF Onward, FInv, StatesOK
  <2>5. StatesOK'
    BY <1>3, <2>2, <2>3 DEF FInv, StatesOK, RequestOK
  <2>6. ASSUME NEW v \in DOMAIN ws' PROVE ForkOK(ws[v])' /\ Applied(ws[v])'
    <3>1. PICK s : s = ws'[v]
      OBVIOUS
    <3>2. ForkOK(s) /\ Applied(s)
      BY <2>2, <2>3, <3>1 DEF FInv, ForksOK, AppliedOK
    <3>3. ForkOK(s)'
      BY <2>4, <3>2, NamesStay DEF ForkOK
    <3>4. Applied(s)'
      BY <1>3, <3>2 DEF Applied
    <3> QED
      BY <3>1, <3>3, <3>4 DEF ForkOK, Applied
  <2>7. ForksOK' /\ AppliedOK'
    BY <2>6 DEF ForksOK, AppliedOK
  <2> QED
    BY <1>3, <1>4, <1>6, <2>4, <2>5, <2>7 DEF FInv
<1> QED
  BY <1>1, <1>7, <1>8 DEF PublishFork

(* A handoff document has the anchors of its entries' sources. *)
LEMMA HandoffMade ==
    ASSUME FInv, UNCHANGED load, NEW w \in WorkspaceId, NEW target \in WorkspaceId, NEW ck \in CheckpointId,
           NEW h \in load.handoffs, NEW entries, create_handoff(w, ck, h, target, entries)
    PROVE  FInv'
<1>1. PICK l : l = ws[w].checkpoints[ck].state
  OBVIOUS
<1>2. PICK used : used = {e.src : e \in entries} \ {None}
  OBVIOUS
<1>3. PICK sources : sources = [x \in used |-> l.sources[x]]
  OBVIOUS
<1>4. PICK d : d = [id |-> h, from |-> w, ck |-> ck, lineage |-> ws[w].lineage, target |-> target,
                    entries |-> entries, anchors |-> Portable(sources), pins |-> l.pins,
                    floor |-> l.policy]
  OBVIOUS
<1>5. /\ UNCHANGED <<ws, runtime, pc, req>>
      /\ w \in DOMAIN ws /\ ck \in DOMAIN ws[w].checkpoints /\ h \notin DOMAIN handoffs
      /\ entries \subseteq l.entries
      /\ handoffs' = Put(handoffs, h, d)
  BY <1>1, <1>2, <1>3, <1>4 DEF create_handoff, Exists
<1>6. Sound(l)
  BY <1>1, <1>5 DEF FInv, StatesOK, StateOK, CheckpointsSound
<1>7. used \subseteq DOMAIN l.sources
  BY <1>2, <1>5, <1>6 DEF Sound, Consistent
<1>8. DOMAIN sources \subseteq SourceId /\ \A x \in DOMAIN sources : sources[x] \in Anchor
  BY <1>3, <1>6, <1>7 DEF Sound
<1>9. /\ DOMAIN Portable(sources) \subseteq SourceId
      /\ \A x \in DOMAIN Portable(sources) :
             Portable(sources)[x] \in Anchor /\ Portable(sources)[x].bind = None
  <2>1. PICK f : f = Portable(sources)
    OBVIOUS
  <2>2. DOMAIN f = DOMAIN sources /\ \A x \in DOMAIN sources : f[x] \in Anchor
    BY <1>8, <2>1, PortableAnchors
  <2>3. \A x \in DOMAIN sources :
            f[x] = [ext |-> sources[x].ext, canon |-> sources[x].canon,
                    rev |-> sources[x].rev, bind |-> None]
    BY <1>8, <2>1, PortableAnchors
  <2> QED
    BY <1>8, <2>1, <2>2, <2>3
<1>10. HandoffOK(d, h)
  <2>1. d.id = h /\ d.anchors = Portable(sources) /\ d.entries = entries /\ d.floor = l.policy
    BY <1>4
  <2>2. entries \subseteq Entry /\ Distinct(entries) /\ l.policy \in Policy
    BY <1>5, <1>6 DEF Sound, Consistent, Distinct
  <2>3. \A e \in entries : e.src # None => e.src \in DOMAIN Portable(sources)
    BY <1>2, <1>3, <1>8, PortableAnchors
  <2> QED
    BY <1>9, <2>1, <2>2, <2>3 DEF HandoffOK
<1>11. /\ DOMAIN handoffs' = DOMAIN handoffs \union {h} /\ handoffs'[h] = d
       /\ \A id \in DOMAIN handoffs : handoffs'[id] = handoffs[id]
  BY <1>5 DEF Put
<1>12. Onward
  BY <1>5, <1>11, LaterSelf DEF Onward, FInv, StatesOK
<1>13. HandoffsOK'
  <2>1. h \in HandoffId
    BY DEF FInv, Workload
  <2>2. d.from = w /\ d.ck = ck /\ d.entries = entries
    BY <1>4
  <2>3. Made(d)
    BY <1>1, <1>5, <2>2 DEF Made
  <2>4. ASSUME NEW id \in DOMAIN handoffs' PROVE HandoffOK(handoffs[id], id)' /\ Made(handoffs[id])'
    <3>1. PICK g : g = handoffs'[id]
      OBVIOUS
    <3>2. HandoffOK(g, id) /\ Made(g)
      BY <1>10, <1>11, <2>3, <3>1 DEF FInv, HandoffsOK
    <3>3. Made(g)'
      BY <1>12, <3>2, MadeStays
    <3> QED
      BY <3>1, <3>2, <3>3 DEF HandoffOK, Made
  <2> QED
    BY <1>11, <2>1, <2>4 DEF FInv, HandoffsOK
<1>14. StatesOK' /\ ForksOK' /\ AppliedOK'
  BY <1>5, <1>12, StillOK
<1>15. RequestsOK'
  BY <1>5, <1>12, RequestsStay DEF FInv
<1> QED
  BY <1>5, <1>13, <1>14, <1>15 DEF FInv

(* An admitted handoff is one of the documents. *)
LEMMA ApplyOpens ==
    ASSUME FInv, UNCHANGED load, NEW c \in Client, NEW w \in WorkspaceId, NEW id, NEW ck,
           apply_handoff(c, w, id, ck)
    PROVE  FInv'
<1>1. UNCHANGED <<ws, handoffs, runtime>> /\ w \in DOMAIN ws /\ id \in DOMAIN handoffs
  BY DEF apply_handoff, Exists
<1>2. Onward
  BY <1>1, SameOnward
<1>3. StatesOK' /\ ForksOK' /\ AppliedOK'
  BY <1>1, <1>2, StillOK
<1>4. HandoffsOK'
  BY <1>1, <1>2, HandoffsStay DEF FInv
<1>5. RequestsOK'
  <2>1. CASE UNCHANGED <<pc, req>>
    BY <1>2, <2>1, RequestsStay DEF FInv
  <2>2. CASE ~UNCHANGED <<pc, req>>
    <3>1. PICK h : h = handoffs[id]
      OBVIOUS
    <3>2. PICK r : r = [ws |-> w, arg |-> [handoff |-> h, decision |-> Decision(w, ck, h)]]
      OBVIOUS
    <3>3. Steps(c, "append", r)
      BY <2>2, <3>1, <3>2 DEF apply_handoff, Steps
    <3>4. RequestOK("append", r)
      BY <1>1, <3>1, <3>2 DEF RequestOK, FInv, HandoffsOK, HandoffOK
    <3> QED
      BY <1>2, <3>3, <3>4, RequestsStep DEF FInv
  <2> QED
    BY <2>1, <2>2
<1> QED
  BY <1>1, <1>3, <1>4, <1>5 DEF FInv


(* A handoff that the receiver accepts is one it did not apply before. *)
LEMMA AppliedGrows ==
    ASSUME HandoffsOK, handoffs' = handoffs, NEW s, StateOK(s), Applied(s), NEW e,
           e.kind = "handoff_applied", Require(s, e),
           e.arg.handoff.id \in DOMAIN handoffs,
           e.arg.handoff = handoffs[e.arg.handoff.id],
           NEW t, StateOK(t), Effect(s, e, t), Later(s, t)
    PROVE  Applied(t)'
<1>1. PICK h : h = e.arg.handoff
  OBVIOUS
<1>2. h.id \notin DOMAIN s.applied /\ Tightens(s.policy, h.floor)
  BY <1>1 DEF Require, RequireHandoffApplied, FloorMet
<1>3. t.applied = Put(s.applied, h.id, h) /\ t.policy = s.policy
  BY <1>1 DEF Effect, Keeps
<1>4. /\ DOMAIN t.applied = DOMAIN s.applied \union {h.id} /\ t.applied[h.id] = h
      /\ \A id \in DOMAIN s.applied : t.applied[id] = s.applied[id]
  BY <1>2, <1>3 DEF Put
<1>5. h.id \in DOMAIN handoffs /\ h = handoffs[h.id]
  BY <1>1
<1>6. \A id \in DOMAIN t.applied : /\ id \in DOMAIN handoffs
                                   /\ t.applied[id] = handoffs[id]
                                   /\ Tightens(t.policy, t.applied[id].floor)
  BY <1>2, <1>3, <1>4, <1>5 DEF Applied
<1>7. PICK n : n = Len(s.events)
  OBVIOUS
<1>8. /\ n \in Nat /\ Len(t.events) = n + 1
      /\ \A i \in 1..n : t.events[i] = s.events[i]
      /\ t.events[n+1] = e
  BY <1>7, AppendKeeps DEF Effect, StateOK
<1>9. \A i \in 1..n : s.events[i].kind = "handoff_applied" =>
          s.events[i].arg.handoff.id \in DOMAIN s.applied
  BY <1>7 DEF Applied
<1>10. \A i \in 1..Len(t.events) : i \in 1..n \/ i = n + 1
  BY <1>8
<1>11. t.events[n+1].arg.handoff.id = h.id
  BY <1>1, <1>8
<1>12. \A i \in 1..Len(t.events) :
           t.events[i].kind = "handoff_applied" => t.events[i].arg.handoff.id \in DOMAIN t.applied
  BY <1>4, <1>8, <1>9, <1>10, <1>11
<1>13. ASSUME NEW i \in 1..Len(t.events), NEW j \in 1..Len(t.events),
              t.events[i].kind = "handoff_applied", t.events[j].kind = "handoff_applied",
              t.events[i].arg.handoff.id = t.events[j].arg.handoff.id
       PROVE  i = j
  <2>1. CASE i \in 1..n /\ j \in 1..n
    BY <1>7, <1>8, <1>13, <2>1 DEF Applied
  <2>2. CASE i \in 1..n /\ j = n + 1
    BY <1>2, <1>8, <1>9, <1>11, <1>13, <2>2
  <2>3. CASE i = n + 1 /\ j \in 1..n
    BY <1>2, <1>8, <1>9, <1>11, <1>13, <2>3
  <2>4. CASE i = n + 1 /\ j = n + 1
    BY <2>4
  <2> QED
    BY <1>10, <2>1, <2>2, <2>3, <2>4
<1> QED
  BY <1>6, <1>12, <1>13 DEF Applied

(* The receiver accepts a handoff, or refuses it and stays as it is. *)
LEMMA AppendOK ==
    ASSUME FInv, UNCHANGED load, NEW c \in Client, AppendHandoff(c)
    PROVE  FInv'
<1>1. PICK w : w = req[c].ws
  OBVIOUS
<1>2. PICK a : a = req[c].arg
  OBVIOUS
<1>3. PICK e : e = [id |-> NoId, kind |-> "handoff_applied", arg |-> a]
  OBVIOUS
<1>4. PICK p : p = NoRequest
  OBVIOUS
<1>5. /\ UNCHANGED <<handoffs, runtime>>
      /\ Steps(c, "idle", p)
      /\ pc[c] = "append"
  BY <1>4 DEF AppendHandoff, Steps
<1>6. \/ UNCHANGED ws
      \/ Accepts(ws[w], e) /\ ws' = [ws EXCEPT ![w] = Apply(@, e)]
  BY <1>1, <1>2, <1>3 DEF AppendHandoff
<1>7. w \in DOMAIN ws /\ a.handoff.id \in DOMAIN handoffs /\ a.handoff = handoffs[a.handoff.id]
  BY <1>1, <1>2, <1>5 DEF FInv, RequestsOK, RequestOK
<1>8. ASSUME Onward PROVE HandoffsOK'
  BY <1>5, <1>8, HandoffsStay DEF FInv
<1>9. RequestOK("idle", p) /\ RequestsOK
  BY DEF RequestOK, FInv
<1>10. ASSUME Onward PROVE RequestsOK'
  BY <1>5, <1>9, <1>10, RequestsStep
<1>11. CASE UNCHANGED ws
  <2>1. Onward
    BY <1>5, <1>11, SameOnward
  <2>2. StatesOK' /\ ForksOK' /\ AppliedOK'
    BY <1>11, <2>1, StillOK
  <2> QED
    BY <1>5, <1>8, <1>10, <2>1, <2>2 DEF FInv
<1>12. CASE Accepts(ws[w], e) /\ ws' = [ws EXCEPT ![w] = Apply(@, e)]
  <2>1. e.kind = "handoff_applied" /\ e.arg = a
    BY <1>3
  <2>2. EventOK(e)
    <3>1. PICK h : h = a.handoff
      OBVIOUS
    <3>2. HandoffOK(h, h.id)
      BY <1>7, <3>1 DEF FInv, HandoffsOK
    <3> QED
      BY <2>1, <3>1, <3>2 DEF EventOK, Kind, HandoffOK
  <2>3. Goes(w, e)
    BY <1>7, <1>12, <2>1, <2>2 DEF Goes
  <2>4. StatesOK /\ ForksOK /\ handoffs' = handoffs
    BY <1>5 DEF FInv
  <2>5. StatesOK' /\ Onward /\ ForksOK'
    BY <2>3, <2>4, GoesEffect, GoesOnward, ForksStay
  <2>6. ASSUME NEW v \in DOMAIN ws' PROVE Applied(ws[v])'
    <3>1. PICK s, t : s = ws[v] /\ t = ws'[v]
      OBVIOUS
    <3>2. v \in DOMAIN ws /\ Applied(s) /\ StateOK(s)
      BY <2>3, <2>4, <3>1, GoesEffect DEF FInv, AppliedOK, StatesOK
    <3>3. Applied(t)'
      <4>1. CASE v = w
        <5>1. Effect(s, e, t) /\ StateOK(t) /\ Later(s, t) /\ Require(s, e)
          BY <2>3, <2>4, <3>1, <4>1, GoesEffect
        <5>2. HandoffsOK
          BY DEF FInv
        <5> QED
          BY <1>7, <2>1, <2>4, <3>2, <5>1, <5>2, AppliedGrows
      <4>2. CASE v # w
        <5>1. t = s
          BY <2>3, <2>4, <3>1, <3>2, <4>2, GoesEffect
        <5> QED
          BY <2>4, <3>2, <5>1 DEF Applied
      <4> QED
        BY <4>1, <4>2
    <3> QED
      BY <3>1, <3>3 DEF Applied
  <2>7. AppliedOK'
    BY <2>6 DEF AppliedOK
  <2> QED
    BY <1>5, <1>8, <1>10, <2>5, <2>7 DEF FInv
<1> QED
  BY <1>6, <1>11, <1>12

(* It holds at the start, with Root alone. *)
LEMMA FamilyInit == Init => FInv
<1> SUFFICES ASSUME Init PROVE FInv
  OBVIOUS
<1>1. load \in Workload /\ load.root \in Policy /\ Root \in WorkspaceId
  BY FamilyAssumption DEF Init, Workload
<1>2. PICK s : s = Created(Root, load.root)
  OBVIOUS
<1>3. /\ StateOK(s) /\ s.id = Root /\ s.lineage = None /\ DOMAIN s.applied = {}
      /\ Len(s.events) = 1 /\ s.events[1].kind = "workspace_created"
  BY <1>1, <1>2, CreatedOK
<1>4. DOMAIN ws = {Root} /\ ws[Root] = s /\ DOMAIN handoffs = {} /\ runtime = {}
  BY <1>2 DEF Init, Empty
<1>5. StatesOK /\ HandoffsOK
  BY <1>1, <1>3, <1>4 DEF StatesOK, HandoffsOK
<1>6. ForksOK
  BY <1>3, <1>4 DEF ForksOK, ForkOK
<1>7. AppliedOK
  BY <1>3, <1>4 DEF AppliedOK, Applied
<1>8. RequestsOK
  BY DEF Init, RequestsOK, RequestOK
<1> QED
  BY <1>1, <1>4, <1>5, <1>6, <1>7, <1>8 DEF FInv

(* Every step keeps it. *)
LEMMA FamilyNext == FInv /\ [Next]_vars => FInv'
<1> SUFFICES ASSUME FInv, [Next]_vars PROVE FInv'
  OBVIOUS
<1>1. CASE UNCHANGED vars
  <2>1. UNCHANGED <<load, ws, handoffs, runtime, pc, req>>
    BY <1>1 DEF vars
  <2>2. Onward
    BY <2>1, SameOnward
  <2>3. StatesOK' /\ ForksOK' /\ AppliedOK'
    BY <2>1, <2>2, StillOK
  <2>4. RequestsOK'
    BY <2>1, <2>2, RequestsStay DEF FInv
  <2>5. HandoffsOK'
    BY <2>1, <2>2, HandoffsStay DEF FInv
  <2> QED
    BY <2>1, <2>3, <2>4, <2>5 DEF FInv
<1>2. CASE Next
  <2>0. /\ UNCHANGED load /\ load.forkers \subseteq Client /\ load.appliers \subseteq Client
    BY <1>2 DEF Next, FInv, Workload
  <2>1. ASSUME NEW w \in WorkspaceId, NEW src \in load.sources, bind_source(w, src) PROVE FInv'
    BY <2>0, <2>1, BindOK
  <2>2. ASSUME NEW c \in load.forkers, NEW w \in WorkspaceId, NEW child \in WorkspaceId,
               NEW ck \in CheckpointId, NEW policy \in load.policies \union {load.root},
               fork(c, w, ck, child, policy)
        PROVE  FInv'
    BY <2>0, <2>2, ForkOpens
  <2>3. ASSUME NEW c \in Client, PublishFork(c) PROVE FInv'
    BY <2>0, <2>3, PublishOK
  <2>4. ASSUME NEW w \in WorkspaceId, NEW target \in WorkspaceId, NEW ck \in CheckpointId,
               NEW h \in load.handoffs, NEW entries, create_handoff(w, ck, h, target, entries)
        PROVE  FInv'
    BY <2>0, <2>4, HandoffMade
  <2>5. ASSUME NEW c \in load.appliers, NEW w \in WorkspaceId, NEW h \in load.handoffs,
               NEW ck \in CheckpointId, apply_handoff(c, w, h, ck)
        PROVE  FInv'
    BY <2>0, <2>5, ApplyOpens
  <2>6. ASSUME NEW c \in Client, AppendHandoff(c) PROVE FInv'
    BY <2>0, <2>6, AppendOK
  <2> QED
    BY <1>2, <2>0, <2>1, <2>2, <2>3, <2>4, <2>5, <2>6, OperationsOK DEF Next
<1> QED
  BY <1>1, <1>2

-----------------------------------------------------------------------------
(* The theorems.                                                           *)

(* In every reachable state the invariant holds. *)
THEOREM FamilyInductive == Spec => []FInv
BY FamilyInit, FamilyNext, PTL DEF Spec

(* Whatever happens to a parent after a fork read one of its checkpoints,  *)
(* the child began with exactly the checkpoint that its lineage names, and *)
(* the parent still has it.                                                *)
THEOREM ForkFaithful == Spec => []ForksFaithful
<1>1. FInv => ForksFaithful
  <2> SUFFICES ASSUME FInv, NEW w \in Children
               PROVE  /\ ws[w].lineage.ck \in DOMAIN ws[ws[w].lineage.parent].checkpoints
                      /\ ws[w].events[2].arg.state = ParentCheckpoint(w)
    BY DEF ForksFaithful
  <2>1. w \in DOMAIN ws /\ ws[w].lineage # None
    BY DEF Children, Exists
  <2>2. Names(ws[w].lineage, ws[w].events[2].arg.state)
    BY <2>1 DEF FInv, ForksOK, ForkOK
  <2> QED
    BY <2>2 DEF Names, ParentCheckpoint
<1> QED
  BY <1>1, FamilyInductive, PTL

(* Content never comes to a workspace that is looser than the checkpoint   *)
(* it was taken from, by a fork or by a handoff, and the workspace never   *)
(* loosens later.                                                          *)
THEOREM FloorsHold == Spec => []PolicyFloors
<1>1. FInv => ForkPolicyFloor
  <2> SUFFICES ASSUME FInv, NEW w \in Children
               PROVE  Tightens(ws[w].policy, ParentCheckpoint(w).policy)
    BY DEF ForkPolicyFloor
  <2>1. w \in DOMAIN ws /\ ws[w].lineage # None
    BY DEF Children, Exists
  <2>2. PICK l : l = ws[w].events[2].arg.state
    OBVIOUS
  <2>3. Names(ws[w].lineage, l) /\ Tightens(ws[w].policy, l.policy)
    BY <2>1, <2>2 DEF FInv, ForksOK, ForkOK
  <2>4. ParentCheckpoint(w) = l
    BY <2>3 DEF Names, ParentCheckpoint
  <2> QED
    BY <2>3, <2>4
<1>2. FInv => HandoffPolicyFloor
  BY DEF FInv, AppliedOK, Applied, HandoffPolicyFloor, Exists
<1> QED
  BY <1>1, <1>2, FamilyInductive, PTL DEF PolicyFloors

(* No workspace applies a handoff twice, whoever admits it and when. *)
THEOREM AppliedOnce == Spec => []HandoffOnce
<1>1. FInv => HandoffOnce
  BY DEF FInv, AppliedOK, Applied, HandoffOnce, Exists
<1> QED
  BY <1>1, FamilyInductive, PTL

(* Every workspace of a family is well formed, and all of its entries have *)
(* their sources and an identifier of their own.                           *)
THEOREM Consistency == Spec => []FamilyConsistent
<1>1. FInv => TypeOK
  <2> SUFFICES ASSUME FInv PROVE TypeOK
    OBVIOUS
  <2>1. /\ DOMAIN handoffs \subseteq HandoffId
        /\ runtime \subseteq WorkspaceId \X SourceId
        /\ pc \in [Client -> {"idle", "publish", "append"}]
    BY DEF FInv, HandoffsOK, RequestsOK
  <2>2. ASSUME NEW w \in DOMAIN ws
        PROVE  /\ ws[w].id = w
               /\ ws[w].policy \in Policy
               /\ DOMAIN ws[w].sources \subseteq SourceId
               /\ ws[w].entries \subseteq Entry
    BY DEF FInv, StatesOK, StateOK, Sound
  <2>3. ASSUME NEW w \in DOMAIN ws PROVE DOMAIN ws[w].applied \subseteq DOMAIN handoffs
    BY DEF FInv, AppliedOK, Applied
  <2>4. ASSUME NEW w \in DOMAIN ws, ws[w].lineage # None PROVE ws[w].lineage.parent \in DOMAIN ws
    BY <2>4 DEF FInv, ForksOK, ForkOK, Names
  <2> QED
    BY <2>1, <2>2, <2>3, <2>4 DEF TypeOK, Exists
<1>2. FInv => \A w \in WorkspaceId : Exists(w) => Consistent(Logical(ws[w]))
  BY LogicalSound DEF FInv, StatesOK, StateOK, Sound, Exists
<1> QED
  BY <1>1, <1>2, FamilyInductive, PTL DEF FamilyConsistent


(* An operation on one workspace applies no handoff. *)
LEMMA DoAppliesNone ==
    ASSUME FInv, NEW w, NEW kind, NEW arg, kind \in Kind \ {"workspace_forked", "handoff_applied"},
           Do(w, kind, arg)
    PROVE  \A v \in DOMAIN ws : ws'[v].applied = ws[v].applied
<1>1. PICK e : e = [id |-> NoId, kind |-> kind, arg |-> arg]
  OBVIOUS
<1>2. PICK s : s = ws[w]
  OBVIOUS
<1>3. w \in DOMAIN ws /\ ws' = [ws EXCEPT ![w] = Apply(s, e)]
  BY <1>1, <1>2 DEF Do, Exists
<1>4. Effect(s, e, Apply(s, e))
  BY <1>1, <1>2, <1>3, ApplyEffect DEF FInv, StatesOK, StateOK
<1>5. e.kind \in Kind \ {"workspace_forked", "handoff_applied"}
  BY <1>1
<1>6. PICK t : t = Apply(s, e)
  OBVIOUS
<1>7. t.applied = s.applied
  BY <1>4, <1>5, <1>6 DEF Effect, Keeps, Kind
<1> QED
  BY <1>2, <1>3, <1>6, <1>7

(* What a handoff brings is in the workspace that applies it. *)
LEMMA ImportGrounds ==
    ASSUME NEW s, StateOK(s), NEW e, e.kind = "handoff_applied", Require(s, e),
           NEW h, h = e.arg.handoff, NEW id, HandoffOK(h, id), NEW t, Effect(s, e, t)
    PROVE  /\ h.entries \subseteq t.entries
           /\ \A x \in DOMAIN h.anchors : Portable(t.sources)[x] = h.anchors[x]
<1>1. /\ t.sources = WithAnchors(s, h)
      /\ t.entries = s.entries \union NewEntries(s, h)
  BY DEF Effect
<1>2. /\ \A x \in DOMAIN h.anchors : x \in DOMAIN s.sources => s.sources[x] = h.anchors[x]
      /\ \A f \in h.entries : \A g \in s.entries : g.id = f.id => g = f
  BY DEF Require, RequireHandoffApplied
<1>3. h.entries \subseteq t.entries
  BY <1>1, <1>2 DEF NewEntries
<1>4. ASSUME NEW x \in DOMAIN h.anchors PROVE Portable(t.sources)[x] = h.anchors[x]
  <2>1. x \in DOMAIN t.sources /\ t.sources[x] = h.anchors[x]
    BY <1>1, <1>2 DEF WithAnchors, NewSources
  <2>2. PICK a : a = h.anchors[x]
    OBVIOUS
  <2>3. a \in Anchor /\ a.bind = None
    BY <2>2 DEF HandoffOK
  <2>4. [a EXCEPT !.bind = None] = a
    BY <2>3 DEF Anchor
  <2>5. Portable(t.sources)[x] = [a EXCEPT !.bind = None]
    BY <2>1, <2>2 DEF Portable
  <2> QED
    BY <2>2, <2>4, <2>5
<1> QED
  BY <1>3, <1>4

(* The step of HandoffGrounded, for one workspace. *)
GroundedStep(w) ==
    ws'[w].applied # ws[w].applied =>
        \A id \in DOMAIN ws'[w].applied \ DOMAIN ws[w].applied :
            LET h == handoffs[id]
            IN  /\ h.entries \subseteq ws'[w].entries
                /\ \A x \in DOMAIN h.anchors : Portable(ws'[w].sources)[x] = h.anchors[x]

(* The append of a handoff gives the receiver its entries and its anchors  *)
(* as they were sent.                                                      *)
LEMMA AppendGrounds ==
    ASSUME FInv, NEW c \in Client, AppendHandoff(c), NEW v \in DOMAIN ws
    PROVE  GroundedStep(v)
<1>1. PICK w : w = req[c].ws
  OBVIOUS
<1>2. PICK a : a = req[c].arg
  OBVIOUS
<1>3. PICK e : e = [id |-> NoId, kind |-> "handoff_applied", arg |-> a]
  OBVIOUS
<1>4. pc[c] = "append"
  BY DEF AppendHandoff
<1>5. \/ UNCHANGED ws
      \/ Accepts(ws[w], e) /\ ws' = [ws EXCEPT ![w] = Apply(@, e)]
  BY <1>1, <1>2, <1>3 DEF AppendHandoff
<1>6. PICK h : h = a.handoff
  OBVIOUS
<1>7. w \in DOMAIN ws /\ h.id \in DOMAIN handoffs /\ h = handoffs[h.id]
  BY <1>1, <1>2, <1>4, <1>6 DEF FInv, RequestsOK, RequestOK
<1>8. CASE ws'[v] = ws[v]
  BY <1>8 DEF GroundedStep
<1>9. CASE v = w /\ Accepts(ws[w], e) /\ ws' = [ws EXCEPT ![w] = Apply(@, e)]
  <2>1. PICK s, t : s = ws[w] /\ t = ws'[w]
    OBVIOUS
  <2>2. e.kind = "handoff_applied" /\ h = e.arg.handoff
    BY <1>3, <1>6
  <2>3. StateOK(s) /\ Require(s, e) /\ t = Apply(s, e)
    BY <1>7, <1>9, <2>1 DEF FInv, StatesOK, Accepts
  <2>4. Effect(s, e, t)
    BY <2>2, <2>3, ApplyEffect DEF StateOK, Kind
  <2>5. HandoffOK(h, h.id)
    BY <1>7 DEF FInv, HandoffsOK
  <2>6. /\ h.entries \subseteq t.entries
        /\ \A x \in DOMAIN h.anchors : Portable(t.sources)[x] = h.anchors[x]
    BY <2>2, <2>3, <2>4, <2>5, ImportGrounds
  <2>7. t.applied = Put(s.applied, h.id, h)
    BY <2>2, <2>4 DEF Effect
  <2>8. \A id \in DOMAIN t.applied \ DOMAIN s.applied : handoffs[id] = h
    BY <1>7, <2>7 DEF Put
  <2> QED
    BY <1>9, <2>1, <2>6, <2>8 DEF GroundedStep
<1> QED
  BY <1>5, <1>7, <1>8, <1>9

(* When a handoff is applied the receiver has its entries and their        *)
(* sources as they were sent, whatever was committed and attached between  *)
(* the admission and the append.                                           *)
THEOREM Grounding == Spec => HandoffGrounded
<1>1. ASSUME FInv, [Next]_vars, NEW v \in DOMAIN ws PROVE GroundedStep(v)
  <2>1. ASSUME ws'[v].applied = ws[v].applied PROVE GroundedStep(v)
    BY <2>1 DEF GroundedStep
  <2>2. ASSUME UNCHANGED ws PROVE GroundedStep(v)
    BY <2>1, <2>2
  <2>3. ASSUME NEW w, NEW kind \in Kind \ {"workspace_forked", "handoff_applied"}, NEW arg,
               Do(w, kind, arg)
        PROVE  GroundedStep(v)
    BY <1>1, <2>1, <2>3, DoAppliesNone
  <2>4. ASSUME NEW c, PublishFork(c) PROVE GroundedStep(v)
    BY <2>1, <2>4 DEF PublishFork, Put, Exists
  <2>5. CASE UNCHANGED vars
    BY <2>2, <2>5 DEF vars
  <2>6. ASSUME NEW w, NEW src, NEW anchor, attach_source(w, src, anchor) \/ update_source(w, src, anchor)
        PROVE  GroundedStep(v)
    BY <2>3, <2>6 DEF attach_source, update_source, Kind
  <2>7. ASSUME NEW w, NEW p, NEW artifact, pin_package(w, p, artifact) PROVE GroundedStep(v)
    BY <2>3, <2>7 DEF pin_package, Kind
  <2>8. ASSUME NEW w, NEW e, commit_context(w, e) PROVE GroundedStep(v)
    BY <2>3, <2>8 DEF commit_context, Kind
  <2>9. ASSUME NEW w, NEW ck, checkpoint(w, ck) \/ restore(w, ck) PROVE GroundedStep(v)
    BY <2>3, <2>9 DEF checkpoint, restore, Kind
  <2>10. ASSUME NEW w, NEW policy, tighten_policy(w, policy) PROVE GroundedStep(v)
    BY <2>3, <2>10 DEF tighten_policy, Kind
  <2>11. ASSUME NEW w, complete(w) PROVE GroundedStep(v)
    BY <2>3, <2>11 DEF complete, Kind
  <2>12. ASSUME NEW w, NEW src, bind_source(w, src) PROVE GroundedStep(v)
    BY <2>2, <2>12 DEF bind_source
  <2>13. ASSUME NEW c, NEW w, NEW ck, NEW child, NEW policy, fork(c, w, ck, child, policy)
         PROVE  GroundedStep(v)
    BY <2>2, <2>13 DEF fork
  <2>14. ASSUME NEW w, NEW ck, NEW h, NEW target, NEW entries,
                create_handoff(w, ck, h, target, entries)
         PROVE  GroundedStep(v)
    BY <2>2, <2>14 DEF create_handoff
  <2>15. ASSUME NEW c, NEW w, NEW id, NEW ck, apply_handoff(c, w, id, ck) PROVE GroundedStep(v)
    BY <2>2, <2>15 DEF apply_handoff
  <2>16. ASSUME NEW c \in Client, AppendHandoff(c) PROVE GroundedStep(v)
    BY <1>1, <2>16, AppendGrounds
  <2>17. CASE Next
    BY <2>17, <2>4, <2>6, <2>7, <2>8, <2>9, <2>10, <2>11, <2>12, <2>13, <2>14, <2>15, <2>16
       DEF Next
  <2> QED
    BY <1>1, <2>5, <2>17
<1>2. FInv /\ [Next]_vars =>
          [\A w \in WorkspaceId : Exists(w) /\ ws'[w].applied # ws[w].applied =>
               \A id \in DOMAIN ws'[w].applied \ DOMAIN ws[w].applied :
                   LET h == handoffs[id]
                   IN  /\ h.entries \subseteq ws'[w].entries
                       /\ \A x \in DOMAIN h.anchors :
                              Portable(ws'[w].sources)[x] = h.anchors[x]]_vars
  BY <1>1 DEF GroundedStep, Exists
<1> QED
  BY <1>2, FamilyInductive, PTL DEF Spec, HandoffGrounded


-----------------------------------------------------------------------------
(* The reports of ParallelReports, on any checkpoints of a family.         *)

(* f is a function without absent values. *)
Present(f) == f = [x \in DOMAIN f |-> f[x]] /\ \A x \in DOMAIN f : f[x] # None

(* The item about one key. *)
Item(kind, f, g, k) ==
    [kind |-> kind, key |-> k, before |-> At(f, k), after |-> At(g, k),
     action |-> IF k \notin DOMAIN f THEN "added"
                ELSE IF k \notin DOMAIN g THEN "removed" ELSE ChangeAction(kind, f[k], g[k])]

Differ(f, g) == {x \in DOMAIN f \union DOMAIN g : At(f, x) # At(g, x)}

(* The items of a delta are one per key at which the two sides differ. *)
LEMMA ItemsAre ==
    ASSUME NEW kind, NEW f, NEW g
    PROVE  Items(kind, f, g) = {Item(kind, f, g, k) : k \in Differ(f, g)}
BY DEF Items, Item, Differ

(* What an item says. *)
LEMMA ItemSays ==
    ASSUME NEW kind \in {"source", "project_context", "package"}, NEW f, NEW g, NEW k, NEW i,
           i = Item(kind, f, g, k)
    PROVE  /\ i.kind = kind /\ i.key = k /\ i.before = At(f, k) /\ i.after = At(g, k)
           /\ i.action = "removed" <=> k \in DOMAIN f /\ k \notin DOMAIN g
<1>1. PICK a : a = IF k \notin DOMAIN f THEN "added"
                   ELSE IF k \notin DOMAIN g THEN "removed" ELSE ChangeAction(kind, f[k], g[k])
  OBVIOUS
<1>2. /\ i.kind = kind /\ i.key = k /\ i.before = At(f, k) /\ i.after = At(g, k)
      /\ i.action = a
  BY <1>1 DEF Item
<1>3. ChangeAction(kind, f[k], g[k]) # "removed"
  BY DEF ChangeAction, EntryAction
<1> QED
  BY <1>1, <1>2, <1>3

(* The items about one kind of thing, done to f, give g. *)
LEMMA PatchGives ==
    ASSUME NEW kind \in {"source", "project_context", "package"},
           NEW f, Present(f), NEW g, Present(g)
    PROVE  Patch(f, Items(kind, f, g)) = g
<1>1. PICK items : items = Items(kind, f, g)
  OBVIOUS
<1>2. items = {Item(kind, f, g, k) : k \in Differ(f, g)}
  BY <1>1, ItemsAre
<1>3. \A k \in Differ(f, g) : \E i \in items : i.key = k
  BY <1>2, ItemSays
<1>4. \A i \in items : /\ i.key \in Differ(f, g) /\ i.after = At(g, i.key)
                       /\ i.action = "removed" <=> i.key \in DOMAIN f /\ i.key \notin DOMAIN g
  BY <1>2, ItemSays
<1>5. {i.key : i \in items} = Differ(f, g)
  BY <1>3, <1>4
<1>6. {i.key : i \in {j \in items : j.action = "removed"}} = DOMAIN f \ DOMAIN g
  <2>1. \A k \in DOMAIN f \ DOMAIN g : k \in Differ(f, g)
    BY DEF Present, Differ, At
  <2> QED
    BY <1>3, <1>4, <2>1
<1>7. (DOMAIN f \union Differ(f, g)) \ (DOMAIN f \ DOMAIN g) = DOMAIN g
  BY DEF Present, Differ, At
<1>8. PICK p : p = Patch(f, items)
  OBVIOUS
<1>9. p = [k \in DOMAIN g |->
              IF \E i \in items : i.key = k THEN (CHOOSE i \in items : i.key = k).after ELSE f[k]]
  BY <1>5, <1>6, <1>7, <1>8 DEF Patch
<1>10. ASSUME NEW k \in DOMAIN g PROVE p[k] = g[k]
  <2>1. CASE \E i \in items : i.key = k
    <3>1. PICK i : i = CHOOSE j \in items : j.key = k
      OBVIOUS
    <3>2. i \in items /\ i.key = k
      BY <2>1, <3>1
    <3>3. i.after = g[k]
      BY <1>4, <3>2 DEF At
    <3> QED
      BY <1>9, <2>1, <3>1, <3>3
  <2>2. CASE ~\E i \in items : i.key = k
    <3>1. k \notin Differ(f, g)
      BY <1>3, <2>2
    <3>2. f[k] = g[k]
      BY <3>1 DEF Differ, At, Present
    <3> QED
      BY <1>9, <2>2, <3>2
  <2> QED
    BY <2>1, <2>2
<1> QED
  BY <1>1, <1>8, <1>9, <1>10 DEF Present

(* Each entry is under its own identifier. *)
LEMMA KeyedEntries ==
    ASSUME NEW entries, entries \subseteq Entry, Distinct(entries)
    PROVE  /\ Present(Keyed(entries))
           /\ DOMAIN Keyed(entries) = {e.id : e \in entries}
           /\ \A e \in entries : Keyed(entries)[e.id] = e
           /\ \A k \in DOMAIN Keyed(entries) : Keyed(entries)[k] \in entries /\ Keyed(entries)[k].id = k
<1>1. PICK f : f = Keyed(entries)
  OBVIOUS
<1>2. f = [k \in {e.id : e \in entries} |-> CHOOSE e \in entries : e.id = k]
  BY <1>1 DEF Keyed
<1>3. \A k \in DOMAIN f : f[k] \in entries /\ f[k].id = k
  <2> SUFFICES ASSUME NEW k \in DOMAIN f PROVE f[k] \in entries /\ f[k].id = k
    OBVIOUS
  <2>1. \E e \in entries : e.id = k
    BY <1>2
  <2>2. f[k] = CHOOSE e \in entries : e.id = k
    BY <1>2
  <2> QED
    BY <2>1, <2>2
<1>4. \A e \in entries : f[e.id] = e
  BY <1>2, <1>3 DEF Distinct
<1>5. Present(f)
  BY <1>2, <1>3, AbsentAssumption DEF Present
<1> QED
  BY <1>1, <1>2, <1>3, <1>4, <1>5

(* The items of a delta by their kind. *)
LEMMA DeltaKinds ==
    ASSUME NEW base, NEW target, NEW items, items = DeltaItems(base, target)
    PROVE  /\ OfKind(items, "source") =
                  Items("source", Portable(base.sources), Portable(target.sources))
           /\ OfKind(items, "project_context") =
                  Items("project_context", Keyed(base.entries), Keyed(target.entries))
           /\ OfKind(items, "package") = Items("package", base.pins, target.pins)
           /\ (OfKind(items, "policy") = {}) = (base.policy = target.policy)
           /\ \A i \in items : i.before # i.after
<1>1. PICK S : S = Items("source", Portable(base.sources), Portable(target.sources))
  OBVIOUS
<1>2. PICK E : E = Items("project_context", Keyed(base.entries), Keyed(target.entries))
  OBVIOUS
<1>3. PICK K : K = Items("package", base.pins, target.pins)
  OBVIOUS
<1>4. PICK P : P = {[kind |-> "policy", key |-> "workspace-policy", before |-> base.policy,
                     after |-> target.policy, action |-> "effective_changed"] :
                    p \in {base.policy} \ {target.policy}}
  OBVIOUS
<1>5. items = S \union E \union K \union P
  BY <1>1, <1>2, <1>3, <1>4 DEF DeltaItems, EntryItems
<1>6. ASSUME NEW kind \in {"source", "project_context", "package"}, NEW f, NEW g
      PROVE  \A i \in Items(kind, f, g) : i.kind = kind /\ i.before # i.after
  BY ItemsAre, ItemSays DEF Differ
<1>7. \A i \in S : i.kind = "source" /\ i.before # i.after
  BY <1>1, <1>6
<1>8. \A i \in E : i.kind = "project_context" /\ i.before # i.after
  BY <1>2, <1>6
<1>9. \A i \in K : i.kind = "package" /\ i.before # i.after
  BY <1>3, <1>6
<1>10. \A i \in P : i.kind = "policy" /\ i.before # i.after
  BY <1>4
<1>11. (P = {}) = (base.policy = target.policy)
  BY <1>4
<1>12. OfKind(items, "source") = S /\ OfKind(items, "project_context") = E
  BY <1>5, <1>7, <1>8, <1>9, <1>10 DEF OfKind
<1>13. OfKind(items, "package") = K /\ OfKind(items, "policy") = P
  BY <1>5, <1>7, <1>8, <1>9, <1>10 DEF OfKind
<1> QED
  BY <1>1, <1>2, <1>3, <1>5, <1>7, <1>8, <1>9, <1>10, <1>11, <1>12, <1>13

(* An entry that the two checkpoints have with another meaning is among    *)
(* the conflicts.                                                          *)
LEMMA ConflictFound ==
    ASSUME NEW base, Sound(base), NEW target, Sound(target),
           NEW e \in base.entries, NEW f \in target.entries, e.id = f.id, e.cat # f.cat
    PROVE  \E c \in DeltaConflicts(DeltaItems(base, target)) :
               c.key = e.id /\ c.left = e /\ c.right = f
<1>1. PICK F, G : F = Keyed(base.entries) /\ G = Keyed(target.entries)
  OBVIOUS
<1>0. PICK A, B : A = base.entries /\ B = target.entries
  OBVIOUS
<1>a. A \subseteq Entry /\ Distinct(A) /\ B \subseteq Entry /\ Distinct(B)
  BY <1>0 DEF Sound, Consistent, Distinct
<1>b. /\ DOMAIN F = {x.id : x \in A} /\ \A x \in A : F[x.id] = x
      /\ DOMAIN G = {x.id : x \in B} /\ \A x \in B : G[x.id] = x
  BY <1>0, <1>1, <1>a, KeyedEntries
<1>2. e.id \in DOMAIN F /\ F[e.id] = e
  BY <1>0, <1>b
<1>3. e.id \in DOMAIN G /\ G[e.id] = f
  BY <1>0, <1>b
<1>4. PICK i : i = Item("project_context", F, G, e.id)
  OBVIOUS
<1>5. i.key = e.id /\ i.before = e /\ i.after = f
  BY <1>2, <1>3, <1>4, ItemSays DEF At
<1>6. i.action = "contradicted"
  BY <1>2, <1>3, <1>4 DEF Item, ChangeAction, EntryAction
<1>7. i \in Items("project_context", F, G)
  BY <1>2, <1>3, <1>4, ItemsAre DEF Differ, At
<1>8. i \in DeltaItems(base, target)
  BY <1>1, <1>7 DEF DeltaItems, EntryItems
<1>9. i.action \in Contradictions
  BY <1>6 DEF Contradictions
<1>10. PICK c : c = [kind |-> ConflictKind(i), key |-> i.key, left |-> i.before, right |-> i.after]
  OBVIOUS
<1>11. c \in DeltaConflicts(DeltaItems(base, target))
  BY <1>8, <1>9, <1>10 DEF DeltaConflicts
<1> QED
  BY <1>5, <1>10, <1>11

(* What DeltaExact says of two checkpointed states. *)
Exactly(base, target, items) ==
    /\ Patch(Portable(base.sources), OfKind(items, "source")) = Portable(target.sources)
    /\ Patch(Keyed(base.entries), OfKind(items, "project_context")) = Keyed(target.entries)
    /\ Patch(base.pins, OfKind(items, "package")) = target.pins
    /\ (OfKind(items, "policy") = {}) = (base.policy = target.policy)
    /\ \A i \in items : i.before # i.after
    /\ \A e \in base.entries, f \in target.entries : e.id = f.id /\ e.cat # f.cat =>
           \E c \in DeltaConflicts(items) : c.key = e.id /\ c.left = e /\ c.right = f

(* A delta between two checkpoints is exact, whatever they are: done to    *)
(* the base it gives the target, and it hides no contradiction.            *)
THEOREM ExactDeltas == Spec => []DeltaExact
<1>1. FInv => DeltaExact
  <2> SUFFICES ASSUME FInv, NEW w \in WorkspaceId, NEW from \in WorkspaceId, NEW b \in CheckpointId,
                      NEW t \in CheckpointId, DeltaAllowed(w, from, b, t)
               PROVE  Exactly(ws[from].checkpoints[b].state, ws[w].checkpoints[t].state,
                              DeltaItems(ws[from].checkpoints[b].state, ws[w].checkpoints[t].state))
    BY DEF DeltaExact, Exactly
  <2>a. PICK base, target : /\ base = ws[from].checkpoints[b].state
                            /\ target = ws[w].checkpoints[t].state
    OBVIOUS
  <2>b. PICK items : items = DeltaItems(base, target)
    OBVIOUS
  <2>1. w \in DOMAIN ws /\ from \in DOMAIN ws /\ t \in DOMAIN ws[w].checkpoints
    BY DEF DeltaAllowed, Exists
  <2>2. b \in DOMAIN ws[from].checkpoints
    BY <2>1 DEF DeltaAllowed, FInv, ForksOK, ForkOK, Names
  <2>3. Sound(base) /\ Sound(target)
    BY <2>1, <2>2, <2>a DEF FInv, StatesOK, StateOK, CheckpointsSound
  <2>4. ASSUME NEW l, Sound(l)
        PROVE  Present(Portable(l.sources)) /\ Present(Keyed(l.entries)) /\ Present(l.pins)
    <3>1. Present(Keyed(l.entries))
      BY <2>4, KeyedEntries DEF Sound, Consistent, Distinct
    <3>2. Present(l.pins)
      BY <2>4, AbsentAssumption DEF Sound, Present
    <3>3. PICK f : f = Portable(l.sources)
      OBVIOUS
    <3>4. \A x \in DOMAIN f : f[x] \in Anchor
      BY <2>4, <3>3, PortableAnchors DEF Sound
    <3>5. f = [x \in DOMAIN f |-> f[x]]
      BY <3>3 DEF Portable
    <3> QED
      BY <3>1, <3>2, <3>3, <3>4, <3>5, AbsentAssumption DEF Present
  <2>5. /\ Patch(Portable(base.sources), OfKind(items, "source")) = Portable(target.sources)
        /\ Patch(Keyed(base.entries), OfKind(items, "project_context")) = Keyed(target.entries)
        /\ Patch(base.pins, OfKind(items, "package")) = target.pins
    BY <2>3, <2>4, <2>b, PatchGives, DeltaKinds
  <2>6. /\ (OfKind(items, "policy") = {}) = (base.policy = target.policy)
        /\ \A i \in items : i.before # i.after
    BY <2>b, DeltaKinds
  <2>7. \A e \in base.entries, f \in target.entries : e.id = f.id /\ e.cat # f.cat =>
            \E c \in DeltaConflicts(items) : c.key = e.id /\ c.left = e /\ c.right = f
    BY <2>3, <2>b, ConflictFound
  <2>8. Exactly(base, target, items)
    BY <2>5, <2>6, <2>7 DEF Exactly
  <2> QED
    BY <2>8, <2>a, <2>b
<1> QED
  BY <1>1, FamilyInductive, PTL


(* Two values contradict each other when both are there and differ. *)
LEMMA TwoValues ==
    ASSUME NEW a, NEW b
    PROVE  Cardinality({a, b} \ {None}) > 1 <=> a # b /\ a # None /\ b # None
<1>1. CASE a # b /\ a # None /\ b # None
  <2>1. {a, b} \ {None} = {a} \union {b}
    BY <1>1
  <2>2. IsFiniteSet({a}) /\ Cardinality({a}) = 1
    BY FS_Singleton
  <2>3. Cardinality({a} \union {b}) = 2
    BY <1>1, <2>2, FS_AddElement
  <2> QED
    BY <1>1, <2>1, <2>3
<1>2. CASE a = None /\ b = None
  <2>1. {a, b} \ {None} = {}
    BY <1>2
  <2> QED
    BY <1>2, <2>1, FS_EmptySet
<1>3. ASSUME NEW x, {a, b} \ {None} = {x} PROVE ~(Cardinality({a, b} \ {None}) > 1)
  <2>1. Cardinality({x}) = 1
    BY FS_Singleton
  <2> QED
    BY <1>3, <2>1
<1>4. CASE a = None /\ b # None
  <2>1. {a, b} \ {None} = {b}
    BY <1>4
  <2> QED
    BY <1>3, <1>4, <2>1
<1>5. CASE a # None /\ (b = None \/ a = b)
  <2>1. {a, b} \ {None} = {a}
    BY <1>5
  <2> QED
    BY <1>3, <1>5, <2>1
<1> QED
  BY <1>1, <1>2, <1>4, <1>5

(* The entries of a side that the ancestor does not have. *)
Fresh(ancestor, side) == side.entries \ ancestor.entries

(* What the keyed changes of a side hold at a key is the one new entry     *)
(* with that id, if there is one.                                          *)
LEMMA FreshKeys ==
    ASSUME NEW ancestor, NEW side, Sound(side), NEW k, NEW v, v = At(ChangedSince(ancestor, side), k)
    PROVE  /\ v # None => v \in Fresh(ancestor, side) /\ v.id = k
           /\ v = None => \A e \in Fresh(ancestor, side) : e.id # k
           /\ \A e \in Fresh(ancestor, side) : e.id = k => v = e /\ v # None
           /\ k \in DOMAIN ChangedSince(ancestor, side) <=> v # None
<1>1. PICK E : E = Fresh(ancestor, side)
  OBVIOUS
<1>2. E \subseteq Entry /\ Distinct(E)
  BY <1>1 DEF Fresh, Sound, Consistent, Distinct
<1>3. PICK f : f = Keyed(E)
  OBVIOUS
<1>4. /\ Present(f) /\ DOMAIN f = {e.id : e \in E} /\ \A e \in E : f[e.id] = e
      /\ \A x \in DOMAIN f : f[x] \in E /\ f[x].id = x
  BY <1>2, <1>3, KeyedEntries
<1>5. ChangedSince(ancestor, side) = f /\ v = At(f, k)
  BY <1>1, <1>3 DEF ChangedSince, Fresh
<1>6. k \in DOMAIN f <=> v # None
  BY <1>4, <1>5 DEF At, Present
<1>7. v # None => v \in E /\ v.id = k
  BY <1>4, <1>5, <1>6 DEF At
<1>8. \A e \in E : e.id = k => v = e /\ v # None
  BY <1>4, <1>5, <1>6 DEF At
<1> QED
  BY <1>1, <1>5, <1>6, <1>7, <1>8

(* A key is contradicted when both sides have a new entry of it, and not   *)
(* the same.                                                               *)
LEMMA ContradictedIs ==
    ASSUME NEW ancestor, NEW l, Sound(l), NEW r, Sound(r), NEW k
    PROVE  Contradicted(ancestor, l, r, k) <=>
               \E e \in Fresh(ancestor, l), f \in Fresh(ancestor, r) : e.id = k /\ f.id = k /\ e # f
<1>1. PICK a : a = At(ChangedSince(ancestor, l), k)
  OBVIOUS
<1>2. PICK b : b = At(ChangedSince(ancestor, r), k)
  OBVIOUS
<1>3. Contradicted(ancestor, l, r, k) <=> a # b /\ a # None /\ b # None
  BY <1>1, <1>2, TwoValues DEF Contradicted, Values
<1>4. /\ a # None => a \in Fresh(ancestor, l) /\ a.id = k
      /\ \A e \in Fresh(ancestor, l) : e.id = k => a = e /\ a # None
  BY <1>1, FreshKeys
<1>5. /\ b # None => b \in Fresh(ancestor, r) /\ b.id = k
      /\ \A e \in Fresh(ancestor, r) : e.id = k => b = e /\ b # None
  BY <1>2, FreshKeys
<1> QED
  BY <1>3, <1>4, <1>5

(* A key is in scope when a side has a new entry of it, and every new      *)
(* entry of it is of the categories of the mode.                           *)
LEMMA InScopeIs ==
    ASSUME NEW ancestor, NEW l, Sound(l), NEW r, Sound(r), NEW mode, NEW scope, NEW k
    PROVE  k \in InScope(ancestor, l, r, mode, scope) <=>
               /\ k \in scope
               /\ \E e \in Fresh(ancestor, l) \union Fresh(ancestor, r) : e.id = k
               /\ \A e \in Fresh(ancestor, l) \union Fresh(ancestor, r) :
                      e.id = k => e.cat \in Allowed(mode)
<1>1. PICK a : a = At(ChangedSince(ancestor, l), k)
  OBVIOUS
<1>2. PICK b : b = At(ChangedSince(ancestor, r), k)
  OBVIOUS
<1>3. k \in InScope(ancestor, l, r, mode, scope) <=>
          /\ k \in DOMAIN ChangedSince(ancestor, l) \/ k \in DOMAIN ChangedSince(ancestor, r)
          /\ k \in scope
          /\ \A v \in {a, b} \ {None} : v.cat \in Allowed(mode)
  BY <1>1, <1>2 DEF InScope, Values
<1>4. /\ a # None => a \in Fresh(ancestor, l) /\ a.id = k
      /\ \A e \in Fresh(ancestor, l) : e.id = k => a = e /\ a # None
      /\ k \in DOMAIN ChangedSince(ancestor, l) <=> a # None
  BY <1>1, FreshKeys
<1>5. /\ b # None => b \in Fresh(ancestor, r) /\ b.id = k
      /\ \A e \in Fresh(ancestor, r) : e.id = k => b = e /\ b # None
      /\ k \in DOMAIN ChangedSince(ancestor, r) <=> b # None
  BY <1>2, FreshKeys
<1>6. /\ (k \in DOMAIN ChangedSince(ancestor, l) \/ k \in DOMAIN ChangedSince(ancestor, r))
             <=> \E e \in Fresh(ancestor, l) \union Fresh(ancestor, r) : e.id = k
      /\ (\A v \in {a, b} \ {None} : v.cat \in Allowed(mode))
             <=> \A e \in Fresh(ancestor, l) \union Fresh(ancestor, r) :
                     e.id = k => e.cat \in Allowed(mode)
  BY <1>4, <1>5
<1> QED
  BY <1>3, <1>6


(* What is selected contradicts nothing on the other side. *)
LEMMA SelectedKeepsChanges ==
    ASSUME NEW ancestor, NEW l, Sound(l), NEW r, Sound(r), NEW mode, NEW scope
    PROVE  NoChangeLost(ancestor, l, r, Selected(ancestor, l, r, mode, scope))
<1> SUFFICES ASSUME NEW e \in l.entries \ ancestor.entries,
                    e.id \in Selected(ancestor, l, r, mode, scope),
                    NEW f \in r.entries, f.id = e.id, f # e, f \notin ancestor.entries
             PROVE  FALSE
  BY DEF NoChangeLost
<1>1. e \in Fresh(ancestor, l) /\ f \in Fresh(ancestor, r)
  BY DEF Fresh
<1>2. Contradicted(ancestor, l, r, e.id)
  BY <1>1, ContradictedIs
<1> QED
  BY <1>2 DEF Selected, Conflicting

(* It does not matter which side asks. *)
LEMMA SelectedEitherWay ==
    ASSUME NEW ancestor, NEW l, Sound(l), NEW r, Sound(r), NEW mode, NEW scope
    PROVE  Selected(ancestor, l, r, mode, scope) = Selected(ancestor, r, l, mode, scope)
<1>1. ASSUME NEW k PROVE Contradicted(ancestor, l, r, k) <=> Contradicted(ancestor, r, l, k)
  BY ContradictedIs
<1>2. ASSUME NEW k
      PROVE  k \in InScope(ancestor, l, r, mode, scope) <=> k \in InScope(ancestor, r, l, mode, scope)
  <2>1. PICK A : A = Fresh(ancestor, l) \union Fresh(ancestor, r)
    OBVIOUS
  <2>2. A = Fresh(ancestor, r) \union Fresh(ancestor, l)
    BY <2>1
  <2>3. k \in InScope(ancestor, l, r, mode, scope) <=>
            /\ k \in scope /\ \E e \in A : e.id = k
            /\ \A e \in A : e.id = k => e.cat \in Allowed(mode)
    BY <2>1, InScopeIs
  <2>4. k \in InScope(ancestor, r, l, mode, scope) <=>
            /\ k \in scope /\ \E e \in A : e.id = k
            /\ \A e \in A : e.id = k => e.cat \in Allowed(mode)
    BY <2>2, InScopeIs
  <2> QED
    BY <2>3, <2>4
<1>3. \A k : k \in InScope(ancestor, l, r, mode, scope) <=> k \in InScope(ancestor, r, l, mode, scope)
  BY <1>2
<1>4. \A k : Contradicted(ancestor, l, r, k) <=> Contradicted(ancestor, r, l, k)
  BY <1>1
<1> QED
  BY <1>3, <1>4 DEF Selected, Conflicting

(* A new entry of a side is in scope of the mode of its category, unless   *)
(* the other side moved it to the other group of categories.               *)
LEMMA ChangesInScope ==
    ASSUME NEW ancestor, NEW l, Sound(l), NEW r, Sound(r)
    PROVE  NothingForgotten(ancestor, l, r)
<1> SUFFICES ASSUME NEW e \in l.entries \ ancestor.entries,
                    ~\E f \in r.entries \ ancestor.entries :
                         f.id = e.id /\ (f.cat = Decisions) # (e.cat = Decisions)
             PROVE  \E mode \in {"knowledge", "decisions"} :
                        e.id \in InScope(ancestor, l, r, mode, EntryId)
  BY DEF NothingForgotten
<1>1. e \in Fresh(ancestor, l) /\ e.id \in EntryId
  BY DEF Fresh, Sound, Entry
<1>2. \A f \in Fresh(ancestor, l) : f.id = e.id => f = e
  BY DEF Fresh, Sound, Consistent
<1>3. \A f \in Fresh(ancestor, r) : f.id = e.id => ((f.cat = Decisions) <=> (e.cat = Decisions))
  BY DEF Fresh
<1>4. \A f \in Fresh(ancestor, l) \union Fresh(ancestor, r) : f.cat \in Category
  BY DEF Fresh, Sound, Entry
<1>5. PICK mode : mode = IF e.cat = Decisions THEN "decisions" ELSE "knowledge"
  OBVIOUS
<1>6. \A f \in Fresh(ancestor, l) \union Fresh(ancestor, r) : f.id = e.id => f.cat \in Allowed(mode)
  BY <1>2, <1>3, <1>4, <1>5 DEF Allowed
<1>7. e.id \in InScope(ancestor, l, r, mode, EntryId)
  BY <1>1, <1>6, InScopeIs
<1> QED
  BY <1>5, <1>7

(* The entries of an admitted handoff are selected and fit the receiver.   *)
LEMMA AcceptedReconciles ==
    ASSUME NEW ancestor, NEW l, Sound(l), NEW r, Sound(r), LogicalShaped(r),
           NEW h, NEW id, HandoffOK(h, id), h.entries \subseteq l.entries,
           \A e \in h.entries : \A f \in r.entries : f.id = e.id => f = e,
           DOMAIN h.anchors \subseteq DOMAIN r.sources
    PROVE  HandoffReconciled(ancestor, l, r, r.entries, h)
<1>1. PICK scope : scope = {e.id : e \in h.entries}
  OBVIOUS
<1>2. PICK mode : mode = "accepted_handoff"
  OBVIOUS
<1>3. PICK selected : selected = Selected(ancestor, l, r, mode, scope)
  OBVIOUS
<1>4. ASSUME NEW k \in scope PROVE ~Contradicted(ancestor, l, r, k)
  <2>1. PICK e \in h.entries : e.id = k
    BY <1>1
  <2>2. \A x \in Fresh(ancestor, l) : x.id = k => x = e
    BY <2>1 DEF Fresh, Sound, Consistent
  <2>3. \A x \in Fresh(ancestor, r) : x.id = k => x = e
    BY <2>1 DEF Fresh
  <2> QED
    BY <2>2, <2>3, ContradictedIs
<1>5. Conflicting(ancestor, l, r, mode, scope) = {}
  BY <1>4 DEF Conflicting, InScope
<1>6. Result(ancestor, l, r, mode, scope) = "applicable"
  BY <1>5 DEF Result
<1>7. ASSUME NEW e \in h.entries \ ancestor.entries PROVE e.id \in selected
  <2>1. e \in Fresh(ancestor, l) /\ e.id \in scope
    BY <1>1 DEF Fresh
  <2>2. \A f \in Fresh(ancestor, l) \union Fresh(ancestor, r) : f.cat \in Allowed(mode)
    BY <1>2 DEF Fresh, Sound, Entry, Allowed
  <2>3. e.id \in InScope(ancestor, l, r, mode, scope)
    BY <2>1, <2>2, InScopeIs
  <2> QED
    BY <1>3, <1>5, <2>3 DEF Selected
<1>8. PICK merged : merged = r.entries \union {e \in h.entries : e.id \in selected}
  OBVIOUS
<1>9. PICK t : t = [r EXCEPT !.entries = merged]
  OBVIOUS
<1>10. t.entries = merged /\ t.sources = r.sources
  BY <1>9 DEF LogicalShaped
<1>11. \A e \in merged : e.src # None => e.src \in DOMAIN r.sources
  BY <1>8 DEF Sound, Consistent, HandoffOK
<1>12. \A e, f \in merged : e.id = f.id => e = f
  BY <1>8 DEF Sound, Consistent, HandoffOK, Distinct
<1>13. Consistent(t)
  BY <1>10, <1>11, <1>12 DEF Consistent
<1> QED
  BY <1>1, <1>2, <1>3, <1>6, <1>7, <1>8, <1>9, <1>13 DEF HandoffReconciled

(* What an admission of a handoff on checkpoint y says. *)
LEMMA AdmissionSays ==
    ASSUME FInv, NEW w \in DOMAIN ws, NEW y \in DOMAIN ws[w].checkpoints,
           NEW r, r = ws[w].checkpoints[y].state, NEW h, Decision(w, y, h) = "admitted"
    PROVE  /\ \A e \in h.entries : \A f \in ws[w].entries : f.id = e.id => f = e
           /\ DOMAIN h.anchors \subseteq DOMAIN r.sources
<1>1. PICK mine : mine = Portable(r.sources)
  OBVIOUS
<1>2. /\ ~\E e \in h.entries : \E f \in ws[w].entries : f.id = e.id /\ f # e
      /\ \A x \in DOMAIN h.anchors : x \in DOMAIN mine
  BY <1>1 DEF Decision
<1>3. DOMAIN mine = DOMAIN r.sources
  BY <1>1 DEF Portable
<1> QED
  BY <1>2, <1>3

(* A reconciliation of two forks loses no change and forgets none, is the  *)
(* same from both sides, and agrees with the admission of a handoff.       *)
THEOREM SoundReconciliation == Spec => []ReconciliationSound
<1>1. FInv => ReconciliationSound
  <2> SUFFICES ASSUME FInv, NEW v \in WorkspaceId, NEW w \in WorkspaceId, Siblings(v, w),
                      NEW x \in DOMAIN ws[v].checkpoints, NEW y \in DOMAIN ws[w].checkpoints,
                      NEW ancestor, ancestor = ws[ws[v].lineage.parent].checkpoints[ws[v].lineage.ck].state,
                      NEW l, l = ws[v].checkpoints[x].state,
                      NEW r, r = ws[w].checkpoints[y].state
               PROVE  /\ \A mode \in {"knowledge", "decisions"} :
                             /\ NoChangeLost(ancestor, l, r, Selected(ancestor, l, r, mode, EntryId))
                             /\ Selected(ancestor, l, r, mode, EntryId) =
                                    Selected(ancestor, r, l, mode, EntryId)
                      /\ NothingForgotten(ancestor, l, r)
                      /\ \A id \in DOMAIN handoffs : HandoffAccepted(handoffs[id], v, x, w, y) =>
                             HandoffReconciled(ancestor, l, r, ws[w].entries, handoffs[id])
    BY DEF ReconciliationSound
  <2>1. v \in DOMAIN ws /\ w \in DOMAIN ws
    BY DEF Siblings, Exists
  <2>2. Sound(l) /\ Sound(r) /\ LogicalShaped(r)
    BY <2>1 DEF FInv, StatesOK, StateOK, CheckpointsSound
  <2>3. \A mode \in {"knowledge", "decisions"} :
            /\ NoChangeLost(ancestor, l, r, Selected(ancestor, l, r, mode, EntryId))
            /\ Selected(ancestor, l, r, mode, EntryId) = Selected(ancestor, r, l, mode, EntryId)
    BY <2>2, SelectedKeepsChanges, SelectedEitherWay
  <2>4. NothingForgotten(ancestor, l, r)
    BY <2>2, ChangesInScope
  <2>5. ASSUME NEW id \in DOMAIN handoffs, HandoffAccepted(handoffs[id], v, x, w, y)
        PROVE  HandoffReconciled(ancestor, l, r, ws[w].entries, handoffs[id])
    <3>1. PICK h : h = handoffs[id]
      OBVIOUS
    <3>2. h.from = v /\ h.ck = x /\ Decision(w, y, h) = "admitted"
      BY <2>5, <3>1 DEF HandoffAccepted
    <3>3. HandoffOK(h, id) /\ Made(h)
      BY <3>1 DEF FInv, HandoffsOK
    <3>4. h.entries \subseteq l.entries
      BY <3>2, <3>3 DEF Made
    <3>5. /\ \A e \in h.entries : \A f \in ws[w].entries : f.id = e.id => f = e
          /\ DOMAIN h.anchors \subseteq DOMAIN r.sources
      BY <2>1, <3>2, AdmissionSays
    <3>6. CASE ws[w].entries = r.entries
      <4>1. HandoffReconciled(ancestor, l, r, r.entries, h)
        BY <2>2, <3>3, <3>4, <3>5, <3>6, AcceptedReconciles
      <4> QED
        BY <3>1, <3>6, <4>1
    <3>7. CASE ws[w].entries # r.entries
      BY <3>7 DEF HandoffReconciled
    <3> QED
      BY <3>6, <3>7
  <2> QED
    BY <2>3, <2>4, <2>5
<1> QED
  BY <1>1, FamilyInductive, PTL


=============================================================================
