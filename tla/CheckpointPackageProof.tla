----------------------- MODULE CheckpointPackageProof -----------------------
(***************************************************************************)
(* Proofs about CheckpointPackage for every set of state roots,            *)
(* workspaces, paths and clients.                                          *)
(*                                                                         *)
(* A package says what a checkpoint was when it was sealed; it is copied,  *)
(* overwritten, inspected and seeded later and elsewhere.  The invariant   *)
(* CInv says that this stays true: a checkpoint is made by one workspace,  *)
(* which keeps it as it is (Good), so whatever is found at a path is good, *)
(* whoever has put it there.                                               *)
(***************************************************************************)
EXTENDS CheckpointPackage, WorkspaceStateProof

StatesOK ==
    /\ DOMAIN ws \subseteq Key
    /\ \A k \in DOMAIN ws : StateOK(ws[k]) /\ ws[k].id = k[2] /\ Len(ws[k].events) >= 1

(* A checkpoint_id belongs to one workspace, which has the checkpoint. *)
OriginsOK ==
    /\ \A k \in Key, j \in Key : \A ck : Makes(k, ck) /\ Makes(j, ck) => k = j
    /\ \A k \in Key : \A ck : Makes(k, ck) => ck \in DOMAIN ws[k].checkpoints

(* A package that holds the checkpoint as it was made. *)
Good(p) ==
    /\ \E k \in Key : /\ Makes(k, p.ck)
                      /\ p.id = k[2]
                      /\ p.checkpoint = ws[k].checkpoints[p.ck]
    /\ p.migration # None => p.migration = [ck |-> p.ck, state |-> p.checkpoint.state]

FilesOK ==
    /\ \A p \in sealed : Good(p)
    /\ DOMAIN file = Path
    /\ \A path \in Path : file[path] # None => file[path] \in sealed

(* What the event at position i of a journal s says of a package. *)
RecordOK(s, i) ==
    /\ s.events[i].kind = "workspace_sealed" =>
           LET a == s.events[i].arg
           IN  /\ a.package \in sealed
               /\ a.package.id = s.id
               /\ a.package.ck = a.ck
               /\ a.ck \in DOMAIN s.checkpoints
               /\ a.package.checkpoint = s.checkpoints[a.ck]
    /\ s.events[i].kind = "workspace_seeded" =>
           LET p == s.events[i].arg.package
           IN  /\ p \in sealed
               /\ p.ck \in DOMAIN s.checkpoints
               /\ p.checkpoint = s.checkpoints[p.ck]
               /\ Len(s.events) = i => Logical(s) = p.checkpoint.state

Recorded(s) == \A i \in 1..Len(s.events) : RecordOK(s, i)
RecordsOK == \A k \in DOMAIN ws : Recorded(ws[k])

Seeding(j) == Event("workspace_seeded", [package |-> j.package, trusted |-> j.trusted,
                                         unsigned |-> j.unsigned])

(* What a call at label l knows. *)
JobOK(l, j) ==
    /\ l \in {"seal", "inspect"} => j.path \in Path
    /\ l = "seal" => Good(j.package)
    /\ l \in {"seal", "record"} \/ (l = "inspect" /\ j.op = "seal") => <<j.root, j.id>> \in DOMAIN ws
    /\ l = "record" => j.found \in sealed
    /\ l \in {"inspect", "create"} => j.root \in Root
    /\ l \in {"create", "append", "verify"} => j.package \in sealed
    /\ l = "create" => j.id = j.package.id
    /\ l \in {"append", "verify"} => <<j.root, j.id>> \in DOMAIN ws
    /\ l = "verify" => LET s == ws[<<j.root, j.id>>]
                       IN  Len(s.events) >= 2 /\ s.events[2] = Seeding(j)

JobsOK ==
    /\ DOMAIN pc = Client /\ DOMAIN job = Client
    /\ \A c \in Client : JobOK(pc[c], job[c])

CInv ==
    /\ load \in Workload
    /\ StatesOK
    /\ OriginsOK
    /\ FilesOK
    /\ RecordsOK
    /\ JobsOK

-----------------------------------------------------------------------------
(* What stays true when workspaces go on and packages are written.         *)

Onward == \A k \in DOMAIN ws : k \in DOMAIN ws' /\ Later(ws[k], ws'[k])

(* The length of a journal is a number. *)
LEMMA Lengths == ASSUME NEW s, StateOK(s) PROVE Len(s.events) \in Nat
BY LenProperties DEF StateOK, IsSeq

(* A workspace that made a checkpoint has made it. *)
LEMMA MakesStays ==
    ASSUME StatesOK, StatesOK', Onward, NEW k, NEW ck, Makes(k, ck)
    PROVE  Makes(k, ck)'
<1>1. PICK i \in 1..Len(ws[k].events) : /\ ws[k].events[i].kind = "checkpoint_created"
                                        /\ ws[k].events[i].arg.ck = ck
  BY DEF Makes
<1>2. k \in DOMAIN ws /\ k \in DOMAIN ws' /\ Later(ws[k], ws'[k])
  BY DEF Makes, Exists, Onward
<1>3. Len(ws[k].events) \in Nat /\ Len(ws'[k].events) \in Nat
  BY <1>2, Lengths DEF StatesOK
<1>4. i \in 1..Len(ws'[k].events) /\ ws'[k].events[i] = ws[k].events[i]
  BY <1>2, <1>3 DEF Later
<1> QED
  BY <1>1, <1>2, <1>4 DEF Makes, Exists

(* A good package stays good. *)
LEMMA GoodStays ==
    ASSUME StatesOK, StatesOK', OriginsOK, Onward, NEW p, Good(p)
    PROVE  Good(p)'
<1>1. PICK k \in Key : Makes(k, p.ck) /\ p.id = k[2] /\ p.checkpoint = ws[k].checkpoints[p.ck]
  BY DEF Good
<1>2. Makes(k, p.ck)'
  BY <1>1, MakesStays
<1>3. k \in DOMAIN ws /\ p.ck \in DOMAIN ws[k].checkpoints
  BY <1>1 DEF Makes, Exists, OriginsOK
<1>4. ws'[k].checkpoints[p.ck] = ws[k].checkpoints[p.ck]
  BY <1>3 DEF Onward, Later
<1> QED
  BY <1>1, <1>2, <1>4 DEF Good

(* Package files stay truthful while the workspaces move on. *)
LEMMA FilesStay ==
    ASSUME StatesOK, StatesOK', OriginsOK, Onward, FilesOK, UNCHANGED <<file, sealed>>
    PROVE  FilesOK'
<1>1. ASSUME NEW p \in sealed' PROVE Good(p)'
  BY GoodStays DEF FilesOK
<1> QED
  BY <1>1 DEF FilesOK

(* What a call knows stays true until its next step. *)
LEMMA JobStays ==
    ASSUME StatesOK, StatesOK', OriginsOK, Onward, sealed \subseteq sealed', NEW l, NEW j, JobOK(l, j)
    PROVE  JobOK(l, j)'
<1>1. PICK k : k = <<j.root, j.id>>
  OBVIOUS
<1>2. k \in DOMAIN ws => k \in DOMAIN ws'
  BY DEF Onward
<1>3. l = "seal" => Good(j.package)'
  BY GoodStays DEF JobOK
<1>4. ASSUME l = "verify" PROVE Len(ws'[k].events) >= 2 /\ ws'[k].events[2] = Seeding(j)
  <2>1. k \in DOMAIN ws /\ Len(ws[k].events) >= 2 /\ ws[k].events[2] = Seeding(j)
    BY <1>1, <1>4 DEF JobOK
  <2>2. k \in DOMAIN ws' /\ Len(ws[k].events) \in Nat /\ Len(ws'[k].events) \in Nat
    BY <1>2, <2>1, Lengths DEF StatesOK
  <2> QED
    BY <2>1, <2>2 DEF Onward, Later
<1>5. l \in {"seal", "record"} \/ (l = "inspect" /\ j.op = "seal") => k \in DOMAIN ws'
  BY <1>1, <1>2 DEF JobOK
<1>6. l \in {"append", "verify"} => k \in DOMAIN ws'
  BY <1>1, <1>2 DEF JobOK
<1>7. /\ l = "record" => j.found \in sealed'
      /\ l \in {"create", "append", "verify"} => j.package \in sealed'
  BY DEF JobOK
<1>8. /\ l \in {"seal", "inspect"} => j.path \in Path
      /\ l \in {"inspect", "create"} => j.root \in Root
      /\ l = "create" => j.id = j.package.id
  BY DEF JobOK
<1> QED
  BY <1>1, <1>3, <1>4, <1>5, <1>6, <1>7, <1>8 DEF JobOK, Seeding, Event

(* Client c steps, and the others are where they were. *)
Moves(c, l, j) ==
    /\ pc' = [pc EXCEPT ![c] = l]
    /\ job' = [job EXCEPT ![c] = j]

(* What the jobs rely on stays true while one client moves to its next     *)
(* step.                                                                   *)
LEMMA JobsMove ==
    ASSUME StatesOK, StatesOK', OriginsOK, Onward, sealed \subseteq sealed', JobsOK,
           NEW c \in Client, NEW l, NEW j, Moves(c, l, j), JobOK(l, j)'
    PROVE  JobsOK'
<1>1. DOMAIN pc' = Client /\ DOMAIN job' = Client
  BY DEF JobsOK, Moves
<1>2. ASSUME NEW d \in Client PROVE JobOK(pc[d], job[d])'
  <2>1. CASE d = c
    <3>1. pc'[d] = l /\ job'[d] = j
      BY <2>1 DEF JobsOK, Moves
    <3> QED
      BY <3>1 DEF JobOK
  <2>2. CASE d # c
    <3>1. pc'[d] = pc[d] /\ job'[d] = job[d]
      BY <2>2 DEF JobsOK, Moves
    <3>2. PICK m, i : m = pc[d] /\ i = job[d]
      OBVIOUS
    <3>3. JobOK(m, i)
      BY <3>2 DEF JobsOK
    <3>4. JobOK(m, i)'
      BY <3>3, JobStays
    <3> QED
      BY <3>1, <3>2, <3>4 DEF JobOK
  <2> QED
    BY <2>1, <2>2
<1> QED
  BY <1>1, <1>2 DEF JobsOK

(* ... and while no client moves. *)
LEMMA JobsStay ==
    ASSUME StatesOK, StatesOK', OriginsOK, Onward, sealed \subseteq sealed', JobsOK,
           UNCHANGED <<pc, job>>
    PROVE  JobsOK'
<1>1. ASSUME NEW d \in Client PROVE JobOK(pc[d], job[d])'
  <2>1. PICK m, i : m = pc[d] /\ i = job[d]
    OBVIOUS
  <2>2. JobOK(m, i)
    BY <2>1 DEF JobsOK
  <2>3. JobOK(m, i)'
    BY <2>2, JobStays
  <2> QED
    BY <2>1, <2>3 DEF JobOK
<1> QED
  BY <1>1 DEF JobsOK

(* When no workspace changes, all of them go on. *)
LEMMA SameOnward ==
    ASSUME StatesOK, OriginsOK, RecordsOK, UNCHANGED ws, sealed \subseteq sealed'
    PROVE  StatesOK' /\ OriginsOK' /\ RecordsOK' /\ Onward
<1>1. StatesOK' /\ Onward
  BY LaterSelf DEF StatesOK, Onward
<1>2. OriginsOK'
  BY DEF OriginsOK, Makes, Exists
<1>3. ASSUME NEW s, Recorded(s) PROVE Recorded(s)'
  BY <1>3 DEF Recorded, RecordOK
<1>4. RecordsOK'
  BY <1>3 DEF RecordsOK
<1> QED
  BY <1>1, <1>2, <1>4


-----------------------------------------------------------------------------
(* A workspace accepts an event.                                           *)

Goes(k, e) ==
    /\ k \in DOMAIN ws
    /\ EventOK(e)
    /\ e.kind # "workspace_forked"
    /\ Publishes(k, e)

(* An event appended to one workspace leaves the other workspaces alone,   *)
(* and every state sound.                                                  *)
LEMMA GoesEffect ==
    ASSUME StatesOK, NEW k, NEW e, Goes(k, e)
    PROVE  /\ DOMAIN ws' = DOMAIN ws
           /\ \A v \in DOMAIN ws : v # k => ws'[v] = ws[v]
           /\ Effect(ws[k], e, ws'[k]) /\ Require(ws[k], e)
           /\ StatesOK' /\ Onward
<1>1. /\ DOMAIN ws' = DOMAIN ws /\ ws'[k] = Apply(ws[k], e)
      /\ \A v \in DOMAIN ws : v # k => ws'[v] = ws[v]
  BY DEF Goes, Publishes
<1>2. StateOK(ws[k]) /\ Require(ws[k], e)
  BY DEF Goes, Publishes, StatesOK, Accepts
<1>3. Effect(ws[k], e, ws'[k])
  BY <1>1, <1>2, ApplyEffect DEF Goes, StateOK, EventOK
<1>4. StateOK(ws'[k])
  BY <1>1, <1>2, StateKept DEF Goes, Publishes
<1>5. Later(ws[k], ws'[k])
  BY <1>2, <1>3, EventLater DEF Goes
<1>6. ws'[k].id = k[2] /\ Len(ws'[k].events) >= 1
  <2>1. Len(ws[k].events) \in Nat /\ Len(ws'[k].events) \in Nat
    BY <1>2, <1>4, Lengths
  <2> QED
    BY <1>5, <2>1 DEF Later, StatesOK, Goes
<1>7. StatesOK'
  BY <1>1, <1>4, <1>6 DEF StatesOK
<1>8. Onward
  BY <1>1, <1>5, LaterSelf DEF Onward, StatesOK
<1> QED
  BY <1>1, <1>2, <1>3, <1>7, <1>8

(* A checkpoint is made by a checkpoint event. *)
LEMMA MakesBefore ==
    ASSUME StatesOK, NEW k, NEW e, Goes(k, e), NEW j, NEW ck, Makes(j, ck)'
    PROVE  \/ Makes(j, ck)
           \/ j = k /\ e.kind = "checkpoint_created" /\ e.arg.ck = ck
<1>1. CASE j # k
  <2>1. j \in DOMAIN ws /\ ws'[j] = ws[j]
    BY <1>1, GoesEffect DEF Makes, Exists
  <2> QED
    BY <2>1 DEF Makes, Exists
<1>2. CASE j = k
  <2>1. PICK s, t : s = ws[k] /\ t = ws'[k]
    OBVIOUS
  <2>2. t.events = Append(s.events, e) /\ IsSeq(s.events)
    <3>1. Effect(s, e, t) /\ StateOK(s)
      BY <2>1, GoesEffect DEF StatesOK, Goes
    <3> QED
      BY <3>1 DEF Effect, StateOK
  <2>3. PICK n : n = Len(s.events)
    OBVIOUS
  <2>4. /\ n \in Nat /\ Len(t.events) = n + 1 /\ t.events[n + 1] = e
        /\ \A i \in 1..n : t.events[i] = s.events[i]
    BY <2>2, <2>3, AppendKeeps
  <2>5. PICK i \in 1..Len(t.events) : /\ t.events[i].kind = "checkpoint_created"
                                      /\ t.events[i].arg.ck = ck
    BY <1>2, <2>1 DEF Makes
  <2>6. CASE i = n + 1
    BY <1>2, <2>4, <2>5, <2>6
  <2>7. CASE i \in 1..n
    <3>1. s.events[i].kind = "checkpoint_created" /\ s.events[i].arg.ck = ck
      BY <2>4, <2>5, <2>7
    <3> QED
      BY <1>2, <2>1, <2>3, <2>7, <3>1 DEF Makes, Exists, Goes
  <2> QED
    BY <2>4, <2>6, <2>7
<1> QED
  BY <1>1, <1>2

(* An event that makes no checkpoint, or one that nobody has made. *)
Fresh(e) == e.kind = "checkpoint_created" => \A j \in Key : ~Makes(j, e.arg.ck)

(* Such an event leaves every checkpoint_id to one workspace.              *)
LEMMA OriginsStay ==
    ASSUME StatesOK, OriginsOK, NEW k, NEW e, Goes(k, e), Fresh(e)
    PROVE  OriginsOK'
<1>1. ASSUME NEW j \in Key, NEW i \in Key, NEW ck, Makes(j, ck)', Makes(i, ck)' PROVE j = i
  BY <1>1, MakesBefore DEF OriginsOK, Fresh
<1>2. ASSUME NEW j \in Key, NEW ck, Makes(j, ck)' PROVE ck \in DOMAIN ws'[j].checkpoints
  <2>1. CASE Makes(j, ck)
    <3>1. j \in DOMAIN ws /\ ck \in DOMAIN ws[j].checkpoints
      BY <2>1 DEF OriginsOK, Makes, Exists
    <3>2. Later(ws[j], ws'[j])
      BY <3>1, GoesEffect DEF Onward
    <3> QED
      BY <3>1, <3>2 DEF Later
  <2>2. CASE j = k /\ e.kind = "checkpoint_created" /\ e.arg.ck = ck
    <3>1. PICK s, t : s = ws[k] /\ t = ws'[k]
      OBVIOUS
    <3>2. Effect(s, e, t)
      BY <3>1, GoesEffect
    <3>3. t.checkpoints = Put(s.checkpoints, ck, [at |-> e.arg.at, state |-> e.arg.state])
      BY <2>2, <3>2 DEF Effect
    <3> QED
      BY <2>2, <3>1, <3>3 DEF Put
  <2> QED
    BY <1>2, <2>1, <2>2, MakesBefore
<1> QED
  BY <1>1, <1>2 DEF OriginsOK

(* What a journal says stays true, and its new event is true too. *)
LEMMA RecordedStays ==
    ASSUME NEW s, StateOK(s), Recorded(s), NEW e, NEW t, Effect(s, e, t), Later(s, t),
           sealed \subseteq sealed', RecordOK(t, Len(t.events))
    PROVE  Recorded(t)'
<1>1. PICK n : n = Len(s.events)
  OBVIOUS
<1>2. /\ n \in Nat /\ Len(t.events) = n + 1
      /\ \A i \in 1..n : t.events[i] = s.events[i]
  BY <1>1, AppendKeeps DEF Effect, StateOK
<1>3. ASSUME NEW i \in 1..n PROVE RecordOK(t, i)
  <2>1. RecordOK(s, i) /\ t.events[i] = s.events[i] /\ Len(t.events) # i
    BY <1>1, <1>2 DEF Recorded
  <2>2. t.id = s.id /\ \A ck \in DOMAIN s.checkpoints :
                           ck \in DOMAIN t.checkpoints /\ t.checkpoints[ck] = s.checkpoints[ck]
    BY DEF Later
  <2> QED
    BY <2>1, <2>2 DEF RecordOK
<1>4. \A i \in 1..Len(t.events) : i \in 1..n \/ i = Len(t.events)
  BY <1>2
<1>5. \A i \in 1..Len(t.events) : RecordOK(t, i)
  BY <1>3, <1>4
<1> QED
  BY <1>5 DEF Recorded, RecordOK

(* A workspace that goes on keeps its part of the invariant. *)
LEMMA GoesOK ==
    ASSUME CInv, NEW k, NEW e, Goes(k, e), Fresh(e), UNCHANGED sealed,
           RecordOK(ws'[k], Len(ws'[k].events))
    PROVE  StatesOK' /\ OriginsOK' /\ RecordsOK' /\ Onward
<1>1. StatesOK /\ OriginsOK /\ RecordsOK
  BY DEF CInv
<1>2. StatesOK' /\ OriginsOK' /\ Onward
  BY <1>1, GoesEffect, OriginsStay
<1>3. ASSUME NEW v \in DOMAIN ws' PROVE Recorded(ws[v])'
  <2>1. PICK s, t : s = ws[v] /\ t = ws'[v]
    OBVIOUS
  <2>2. v \in DOMAIN ws /\ StateOK(s) /\ Recorded(s)
    BY <1>1, <2>1, GoesEffect DEF StatesOK, RecordsOK
  <2>3. Recorded(t)'
    <3>1. CASE v = k
      <4>1. Effect(s, e, t) /\ Later(s, t) /\ RecordOK(t, Len(t.events))
        BY <1>1, <2>1, <2>2, <3>1, GoesEffect DEF Onward
      <4> QED
        BY <2>2, <4>1, RecordedStays
    <3>2. CASE v # k
      <4>1. t = s
        BY <1>1, <2>1, <2>2, <3>2, GoesEffect
      <4> QED
        BY <2>2, <4>1 DEF Recorded, RecordOK
    <3> QED
      BY <3>1, <3>2
  <2> QED
    BY <2>1, <2>3 DEF Recorded, RecordOK
<1>4. RecordsOK'
  BY <1>3 DEF RecordsOK
<1> QED
  BY <1>2, <1>4

(* The last event of the new state is the one that was accepted. *)
LEMMA LastEvent ==
    ASSUME NEW s, StateOK(s), NEW e, NEW t, Effect(s, e, t)
    PROVE  t.events[Len(t.events)] = e /\ Len(t.events) = Len(s.events) + 1 /\ Len(s.events) \in Nat
<1>1. PICK n : n = Len(s.events)
  OBVIOUS
<1>2. n \in Nat /\ Len(t.events) = n + 1 /\ t.events[n + 1] = e
  BY <1>1, AppendKeeps DEF Effect, StateOK
<1> QED
  BY <1>1, <1>2

(* So do the operations that say nothing of a package. *)
LEMMA MeanwhileGoes ==
    ASSUME CInv, UNCHANGED load, NEW k, NEW e, Goes(k, e), Fresh(e),
           e.kind \notin {"workspace_sealed", "workspace_seeded"},
           UNCHANGED <<file, sealed, pc, job>>
    PROVE  CInv'
<1>1. PICK s, t : s = ws[k] /\ t = ws'[k]
  OBVIOUS
<1>2. StateOK(s) /\ Effect(s, e, t)
  BY <1>1, GoesEffect DEF CInv, StatesOK, Goes
<1>3. t.events[Len(t.events)] = e
  BY <1>2, LastEvent
<1>4. RecordOK(t, Len(t.events))
  BY <1>3 DEF RecordOK
<1>5. StatesOK' /\ OriginsOK' /\ RecordsOK' /\ Onward
  BY <1>1, <1>4, GoesOK
<1>6. FilesOK'
  BY <1>5, FilesStay DEF CInv
<1>7. JobsOK'
  BY <1>5, JobsStay DEF CInv
<1> QED
  BY <1>5, <1>6, <1>7 DEF CInv


-----------------------------------------------------------------------------
(* The steps.                                                              *)

(* The operations of a workspace. *)
LEMMA MeanwhileOK ==
    ASSUME CInv, UNCHANGED load, NEW k \in Key, Meanwhile(k)
    PROVE  CInv'
<1>0. load.cks \subseteq CheckpointId
  BY DEF CInv, Workload
<1>1. ASSUME NEW src \in SourceId, NEW anchor \in Attachable, attach_source(k, src, anchor) PROVE CInv'
  <2>1. PICK e : e = Event("source_attached", [src |-> src, anchor |-> anchor])
    OBVIOUS
  <2>2. /\ e.kind = "source_attached" /\ EventOK(e)
    BY <2>1 DEF Event, EventOK, Kind, Attachable
  <2>3. Goes(k, e) /\ Fresh(e) /\ UNCHANGED <<file, sealed, pc, job>>
    BY <1>1, <2>1, <2>2 DEF attach_source, Goes, Exists, Fresh
  <2> QED
    BY <2>2, <2>3, MeanwhileGoes
<1>2. ASSUME NEW entry \in Entry, commit_context(k, entry) PROVE CInv'
  <2>1. PICK e : e = Event("context_committed", [entries |-> {entry}, ses |-> None])
    OBVIOUS
  <2>2. /\ e.kind = "context_committed" /\ EventOK(e)
    BY <2>1 DEF Event, EventOK, Kind, Distinct
  <2>3. Goes(k, e) /\ Fresh(e) /\ UNCHANGED <<file, sealed, pc, job>>
    BY <1>2, <2>1, <2>2 DEF commit_context, Goes, Exists, Fresh
  <2> QED
    BY <2>2, <2>3, MeanwhileGoes
<1>3. ASSUME NEW ck \in load.cks, Checkpoints(k, ck) PROVE CInv'
  <2>1. PICK e : e = Event("checkpoint_created",
                           [ck |-> ck, at |-> Len(ws[k].events), state |-> Logical(ws[k])])
    OBVIOUS
  <2>2. /\ e.kind = "checkpoint_created" /\ e.arg.ck = ck /\ EventOK(e)
    BY <1>0, <2>1 DEF Event, EventOK, Kind
  <2>3. Goes(k, e) /\ UNCHANGED <<file, sealed, pc, job>>
    BY <1>3, <2>1, <2>2 DEF Checkpoints, Goes, Exists
  <2>4. Fresh(e)
    BY <1>0, <1>3, <2>2 DEF Checkpoints, Fresh, Made
  <2> QED
    BY <2>2, <2>3, <2>4, MeanwhileGoes
<1> QED
  BY <1>1, <1>2, <1>3 DEF Meanwhile, checkpoint, migrate_snapshot_v1

(* A call that ends knows nothing. *)
LEMMA IdleOK == ASSUME NEW j PROVE JobOK("idle", j)'
BY DEF JobOK

(* A step of client c that leaves the workspaces and the packages alone. *)
LEMMA QuietOK ==
    ASSUME CInv, UNCHANGED load, NEW c \in Client, NEW l, NEW j, Moves(c, l, j), JobOK(l, j),
           UNCHANGED <<ws, file, sealed>>
    PROVE  CInv'
<1>1. StatesOK /\ OriginsOK /\ RecordsOK /\ FilesOK /\ JobsOK /\ sealed \subseteq sealed'
  BY DEF CInv
<1>2. StatesOK' /\ OriginsOK' /\ RecordsOK' /\ Onward
  BY <1>1, SameOnward
<1>3. FilesOK'
  BY <1>1, <1>2, FilesStay
<1>4. JobOK(l, j)'
  BY <1>1, <1>2, JobStays
<1>5. JobsOK'
  BY <1>1, <1>2, <1>4, JobsMove
<1> QED
  BY <1>2, <1>3, <1>5 DEF CInv

(* A call that ends or is killed leaves the rest alone. *)
LEMMA RefuseOK ==
    ASSUME CInv, UNCHANGED load, NEW c \in Client, NEW r, Finish(c, r), UNCHANGED <<ws, file, sealed>>
    PROVE  CInv'
<1>1. PICK j : j = NoJob
  OBVIOUS
<1>2. Moves(c, "idle", j) /\ JobOK("idle", j)
  BY <1>1 DEF Finish, Moves, JobOK
<1> QED
  BY <1>2, QuietOK

(* Origin names the workspace that made the checkpoint. *)
LEMMA OriginMakes ==
    ASSUME NEW ck, \E k \in Key : Makes(k, ck)
    PROVE  Origin(ck) \in Key /\ Makes(Origin(ck), ck)
BY DEF Origin

(* What is given to the instance to seal is good. *)
LEMMA SealOpens ==
    ASSUME CInv, UNCHANGED load, NEW c \in Client, NEW k \in Key, NEW ck \in CheckpointId,
           NEW path \in Path, NEW m, NEW signed,
           seal_checkpoint_package(c, k, ck, path, m, signed)
    PROVE  CInv'
<1>1. UNCHANGED <<ws, file, sealed>> /\ k \in DOMAIN ws /\ ck \in Made
  BY DEF seal_checkpoint_package, Exists
<1>2. CASE Sealable(k, ck, m)
  <2>1. PICK p : p = Payload(k, ck, m, signed)
    OBVIOUS
  <2>2. p.id = k[2] /\ p.ck = ck /\ p.checkpoint = ws[k].checkpoints[ck] /\ p.migration = m
    BY <2>1 DEF Payload
  <2>3. PICK o : o = Origin(ck)
    OBVIOUS
  <2>4. o \in Key /\ Makes(o, ck)
    BY <1>1, <2>3, OriginMakes DEF Made
  <2>5. /\ o[2] = k[2] /\ ws[k].checkpoints[ck] = ws[o].checkpoints[ck]
        /\ m # None => m = [ck |-> ck, state |-> ws[k].checkpoints[ck].state]
    BY <1>2, <2>3 DEF Sealable
  <2>6. Good(p)
    BY <2>2, <2>4, <2>5 DEF Good
  <2>7. PICK j : j = SealJob(k, path, p)
    OBVIOUS
  <2>8. /\ j.path = path /\ j.package = p /\ j.root = k[1] /\ j.id = k[2]
    BY <2>7 DEF SealJob
  <2>9. <<j.root, j.id>> = k
    BY <2>8 DEF Key
  <2>10. JobOK("seal", j)
    BY <1>1, <2>6, <2>8, <2>9 DEF JobOK
  <2>11. Moves(c, "seal", j)
    BY <1>2, <2>1, <2>7 DEF seal_checkpoint_package, Goto, Moves
  <2> QED
    BY <1>1, <2>10, <2>11, QuietOK
<1>3. CASE ~Sealable(k, ck, m)
  BY <1>1, <1>3, RefuseOK DEF seal_checkpoint_package, Refuse
<1> QED
  BY <1>2, <1>3

(* seed_workspace_from_package reads and verifies the package it will seed *)
(* from.                                                                   *)
LEMMA SeedOpens ==
    ASSUME CInv, UNCHANGED load, NEW c \in Client, NEW root \in Root, NEW path \in Path, NEW t, NEW u,
           seed_workspace_from_package(c, root, path, t, u)
    PROVE  CInv'
<1>1. PICK j : j = SeedJob(root, path, t, u, None, None)
  OBVIOUS
<1>2. j.path = path /\ j.op = "seed" /\ j.root = root
  BY <1>1 DEF SeedJob
<1>3. JobOK("inspect", j)
  BY <1>2 DEF JobOK
<1>4. Moves(c, "inspect", j) /\ UNCHANGED <<ws, file, sealed>>
  BY <1>1 DEF seed_workspace_from_package, Goto, Moves
<1> QED
  BY <1>3, <1>4, QuietOK

(* The instance has written a good package, or nothing. *)
LEMMA SealOK ==
    ASSUME CInv, UNCHANGED load, NEW c \in Client, Seal(c)
    PROVE  CInv'
<1>1. PICK j : j = job[c]
  OBVIOUS
<1>2. pc[c] = "seal" /\ JobOK("seal", j) /\ UNCHANGED ws
  BY <1>1 DEF Seal, CInv, JobsOK
<1>3. j.path \in Path /\ Good(j.package) /\ <<j.root, j.id>> \in DOMAIN ws
  BY <1>2 DEF JobOK
<1>4. CASE Refuse(c) /\ UNCHANGED <<file, sealed>>
  BY <1>2, <1>4, RefuseOK DEF Refuse
<1>5. CASE /\ file' = [file EXCEPT ![j.path] = j.package]
           /\ sealed' = sealed \union {j.package}
           /\ Goto(c, "inspect", j) \/ Refuse(c)
  <2>1. StatesOK /\ OriginsOK /\ RecordsOK /\ FilesOK /\ JobsOK /\ sealed \subseteq sealed'
    BY <1>5 DEF CInv
  <2>2. StatesOK' /\ OriginsOK' /\ RecordsOK' /\ Onward
    BY <1>2, <2>1, SameOnward
  <2>3. \A p \in sealed' : Good(p)
    BY <1>3, <1>5, <2>1 DEF FilesOK
  <2>4. ASSUME NEW p \in sealed' PROVE Good(p)'
    BY <2>1, <2>2, <2>3, GoodStays
  <2>5. DOMAIN file' = Path /\ \A path \in Path : file'[path] # None => file'[path] \in sealed'
    BY <1>3, <1>5, <2>1 DEF FilesOK
  <2>6. FilesOK'
    BY <2>4, <2>5 DEF FilesOK
  <2>7. CASE Goto(c, "inspect", j)
    <3>1. j.root \in Root
      BY <1>3, <2>1 DEF StatesOK, Key
    <3>2. JobOK("inspect", j)
      BY <1>3, <3>1 DEF JobOK
    <3>3. JobOK("inspect", j)'
      BY <2>1, <2>2, <3>2, JobStays
    <3>4. Moves(c, "inspect", j)
      BY <2>7 DEF Goto, Moves
    <3>5. JobsOK'
      BY <2>1, <2>2, <3>3, <3>4, JobsMove
    <3> QED
      BY <2>2, <2>6, <3>5 DEF CInv
  <2>8. CASE Refuse(c)
    <3>1. PICK i : i = NoJob
      OBVIOUS
    <3>2. Moves(c, "idle", i) /\ JobOK("idle", i)'
      BY <2>8, <3>1, IdleOK DEF Refuse, Finish, Moves
    <3>3. JobsOK'
      BY <2>1, <2>2, <3>2, JobsMove
    <3> QED
      BY <2>2, <2>6, <3>3 DEF CInv
  <2> QED
    BY <1>5, <2>7, <2>8
<1> QED
  BY <1>1, <1>4, <1>5 DEF Seal


(* The journal takes a package that holds one of its checkpoints. *)
LEMMA RecordGoes ==
    ASSUME CInv, NEW k, NEW p, p \in sealed, p.id = k[2], k \in DOMAIN ws, NEW e,
           e = Event("workspace_sealed", [ck |-> p.ck, envelope |-> p.checkpoint, package |-> p]),
           Publishes(k, e), UNCHANGED sealed
    PROVE  StatesOK' /\ OriginsOK' /\ RecordsOK' /\ Onward
<1>1. PICK a : a = [ck |-> p.ck, envelope |-> p.checkpoint, package |-> p]
  OBVIOUS
<1>2. a.ck = p.ck /\ a.envelope = p.checkpoint /\ a.package = p
  BY <1>1
<1>3. e.kind = "workspace_sealed" /\ e.arg = a
  BY <1>1 DEF Event
<1>4. Goes(k, e) /\ Fresh(e)
  BY <1>3 DEF Goes, EventOK, Kind, Fresh
<1>5. PICK s, t : s = ws[k] /\ t = ws'[k]
  OBVIOUS
<1>6. StateOK(s) /\ s.id = k[2] /\ Effect(s, e, t) /\ Require(s, e)
  BY <1>4, <1>5, GoesEffect DEF CInv, StatesOK
<1>7. p.ck \in DOMAIN s.checkpoints /\ p.checkpoint = s.checkpoints[p.ck]
  BY <1>2, <1>3, <1>6 DEF Require, RequireWorkspaceSealed
<1>8. t.checkpoints = s.checkpoints /\ t.id = s.id
  BY <1>3, <1>6 DEF Effect, Keeps
<1>9. t.events[Len(t.events)] = e
  BY <1>6, LastEvent
<1>10. RecordOK(t, Len(t.events))
  BY <1>2, <1>3, <1>6, <1>7, <1>8, <1>9 DEF RecordOK
<1> QED
  BY <1>4, <1>5, <1>10, GoesOK

(* The record of a sealed package goes to the workspace whose checkpoint   *)
(* was sealed.                                                             *)
LEMMA RecordStepOK ==
    ASSUME CInv, UNCHANGED load, NEW c \in Client, Record(c)
    PROVE  CInv'
<1>1. PICK j : j = job[c]
  OBVIOUS
<1>2. PICK p : p = j.found
  OBVIOUS
<1>3. PICK k : k = <<j.root, j.id>>
  OBVIOUS
<1>4. pc[c] = "record" /\ UNCHANGED <<file, sealed>>
  BY DEF Record
<1>5. p \in sealed /\ k \in DOMAIN ws /\ k[2] = j.id
  <2>1. JobOK("record", j)
    BY <1>1, <1>4 DEF CInv, JobsOK
  <2> QED
    BY <1>2, <1>3, <2>1 DEF JobOK
<1>6. PICK e : e = Event("workspace_sealed", [ck |-> p.ck, envelope |-> p.checkpoint, package |-> p])
  OBVIOUS
<1>7. \/ p.id = j.id /\ Publishes(k, e) /\ Finish(c, "ok")
      \/ Refuse(c) /\ UNCHANGED ws
  BY <1>1, <1>2, <1>3, <1>6 DEF Record, SealedEvent, KeyOf
<1>8. CASE Refuse(c) /\ UNCHANGED ws
  BY <1>4, <1>8, RefuseOK DEF Refuse
<1>9. CASE p.id = j.id /\ Publishes(k, e) /\ Finish(c, "ok")
  <2>1. StatesOK' /\ OriginsOK' /\ RecordsOK' /\ Onward
    BY <1>4, <1>5, <1>6, <1>9, RecordGoes
  <2>2. StatesOK /\ OriginsOK /\ FilesOK /\ JobsOK /\ sealed \subseteq sealed'
    BY <1>4 DEF CInv
  <2>3. FilesOK'
    BY <1>4, <2>1, <2>2, FilesStay
  <2>4. PICK i : i = NoJob
    OBVIOUS
  <2>5. Moves(c, "idle", i) /\ JobOK("idle", i)'
    BY <1>9, <2>4, IdleOK DEF Finish, Moves
  <2>6. JobsOK'
    BY <2>1, <2>2, <2>5, JobsMove
  <2> QED
    BY <2>1, <2>3, <2>6 DEF CInv
<1> QED
  BY <1>7, <1>8, <1>9

(* What is found at a path has been sealed. *)
LEMMA InspectOK ==
    ASSUME CInv, UNCHANGED load, NEW c \in Client, Inspect(c)
    PROVE  CInv'
<1>1. PICK j : j = job[c]
  OBVIOUS
<1>2. PICK p : p = file[j.path]
  OBVIOUS
<1>3. pc[c] = "inspect" /\ UNCHANGED <<ws, file, sealed>> /\ JobOK("inspect", j)
  BY <1>1 DEF Inspect, CInv, JobsOK
<1>4. CASE Refuse(c)
  BY <1>3, <1>4, RefuseOK DEF Refuse
<1>5. CASE p # None /\ Found(c, p)
  <2>1. p \in sealed
    BY <1>2, <1>3, <1>5 DEF JobOK, CInv, FilesOK
  <2>2. CASE j.op = "seal"
    <3>1. PICK i : i = [j EXCEPT !.found = p]
      OBVIOUS
    <3>2. Moves(c, "record", i)
      BY <1>1, <1>5, <2>2, <3>1 DEF Found, Goto, Moves
    <3>3. JobOK("record", i)
      <4>1. j.root \in Root /\ <<j.root, j.id>> \in DOMAIN ws
        BY <1>3, <2>2 DEF JobOK
      <4> QED
        BY <2>1, <3>1, <4>1 DEF JobOK
    <3> QED
      BY <1>3, <3>2, <3>3, QuietOK
  <2>3. CASE j.op # "seal" /\ Admitted(p, j.trusted, j.unsigned)
    <3>1. PICK i : i = SeedJob(j.root, j.path, j.trusted, j.unsigned, p.id, p)
      OBVIOUS
    <3>2. Moves(c, "create", i)
      BY <1>1, <1>5, <2>3, <3>1 DEF Found, Goto, Moves
    <3>3. i.root = j.root /\ i.id = p.id /\ i.package = p
      BY <3>1 DEF SeedJob
    <3>4. JobOK("create", i)
      BY <1>3, <2>1, <3>3 DEF JobOK
    <3> QED
      BY <1>3, <3>2, <3>4, QuietOK
  <2>4. CASE j.op # "seal" /\ ~Admitted(p, j.trusted, j.unsigned)
    <3>1. Finish(c, "none")
      BY <1>1, <1>5, <2>4 DEF Found, Refuse
    <3> QED
      BY <1>3, <3>1, RefuseOK
  <2> QED
    BY <2>2, <2>3, <2>4
<1> QED
  BY <1>1, <1>2, <1>4, <1>5 DEF Inspect

(* The checkpoint of a sealed package is one that a workspace has. *)
LEMMA GoodSound ==
    ASSUME CInv, NEW p \in sealed
    PROVE  /\ p.ck \in CheckpointId /\ p.id \in WorkspaceId
           /\ Sound(p.checkpoint.state) /\ LogicalShaped(p.checkpoint.state)
<1>1. PICK k \in Key : Makes(k, p.ck) /\ p.id = k[2] /\ p.checkpoint = ws[k].checkpoints[p.ck]
  BY DEF CInv, FilesOK, Good
<1>2. k \in DOMAIN ws /\ p.ck \in DOMAIN ws[k].checkpoints
  BY <1>1 DEF CInv, OriginsOK, Makes, Exists
<1>3. CheckpointsSound(ws[k])
  BY <1>2 DEF CInv, StatesOK, StateOK
<1> QED
  BY <1>1, <1>2, <1>3 DEF CheckpointsSound, Key

(* The workspace that a seed creates is empty, and has made nothing. *)
LEMMA CreateOK ==
    ASSUME CInv, UNCHANGED load, NEW c \in Client, Create(c)
    PROVE  CInv'
<1>1. PICK j : j = job[c]
  OBVIOUS
<1>2. PICK k : k = <<j.root, j.id>>
  OBVIOUS
<1>3. PICK p : p = j.package
  OBVIOUS
<1>4. pc[c] = "create" /\ UNCHANGED <<file, sealed>> /\ JobOK("create", j)
  BY <1>1 DEF Create, CInv, JobsOK
<1>5. p \in sealed /\ j.id = p.id /\ j.root \in Root
  BY <1>3, <1>4 DEF JobOK
<1>6. k \in Key /\ k[2] = j.id /\ p.checkpoint.state.policy \in Policy
  BY <1>2, <1>5, GoodSound DEF Key, Sound
<1>7. CASE Exists(k)
  BY <1>1, <1>2, <1>4, <1>7, RefuseOK DEF Create, KeyOf, Refuse
<1>8. CASE ~Exists(k)
  <2>1. PICK s : s = Created(j.id, p.checkpoint.state.policy)
    OBVIOUS
  <2>2. ws' = Put(ws, k, s) /\ Goto(c, "append", j)
    BY <1>1, <1>2, <1>3, <1>8, <2>1 DEF Create, KeyOf
  <2>3. /\ DOMAIN ws' = DOMAIN ws \union {k} /\ k \notin DOMAIN ws /\ ws'[k] = s
        /\ \A v \in DOMAIN ws : ws'[v] = ws[v]
    BY <1>8, <2>2 DEF Put, Exists
  <2>4. StateOK(s) /\ s.id = k[2] /\ Len(s.events) = 1 /\ s.events[1].kind = "workspace_created"
    BY <1>6, <2>1, CreatedOK
  <2>5. StatesOK /\ OriginsOK /\ FilesOK /\ JobsOK /\ RecordsOK /\ sealed \subseteq sealed'
    BY <1>4 DEF CInv
  <2>6. StatesOK'
    BY <1>6, <2>3, <2>4, <2>5 DEF StatesOK
  <2>7. Onward
    BY <2>3, <2>5, LaterSelf DEF Onward, StatesOK
  <2>8. ASSUME NEW v, NEW ck, Makes(v, ck)' PROVE Makes(v, ck)
    <3>1. CASE v = k
      BY <2>3, <2>4, <2>8, <3>1 DEF Makes
    <3>2. CASE v # k
      BY <2>3, <2>8, <3>2 DEF Makes, Exists
    <3> QED
      BY <3>1, <3>2
  <2>9. OriginsOK'
    <3>1. ASSUME NEW v \in Key, NEW ck, Makes(v, ck)' PROVE ck \in DOMAIN ws'[v].checkpoints
      BY <2>3, <2>5, <2>8, <3>1 DEF OriginsOK, Makes, Exists
    <3>2. ASSUME NEW v \in Key, NEW u \in Key, NEW ck, Makes(v, ck)', Makes(u, ck)' PROVE v = u
      BY <2>5, <2>8, <3>2 DEF OriginsOK
    <3> QED
      BY <3>1, <3>2 DEF OriginsOK
  <2>10. ASSUME NEW v \in DOMAIN ws' PROVE Recorded(ws[v])'
    <3>1. PICK t : t = ws'[v]
      OBVIOUS
    <3>2. Recorded(t)
      <4>1. CASE v = k
        BY <2>3, <2>4, <3>1, <4>1 DEF Recorded, RecordOK
      <4>2. CASE v # k
        BY <2>3, <2>5, <3>1, <4>2 DEF RecordsOK
      <4> QED
        BY <4>1, <4>2
    <3> QED
      BY <1>4, <3>1, <3>2 DEF Recorded, RecordOK
  <2>11. RecordsOK'
    BY <2>10 DEF RecordsOK
  <2>12. FilesOK'
    BY <1>4, <2>5, <2>6, <2>7, FilesStay
  <2>13. JobOK("append", j)'
    BY <1>2, <1>3, <1>4, <1>5, <2>3 DEF JobOK
  <2>14. Moves(c, "append", j)
    BY <2>2 DEF Goto, Moves
  <2>15. JobsOK'
    BY <2>5, <2>6, <2>7, <2>13, <2>14, JobsMove
  <2> QED
    BY <2>6, <2>9, <2>11, <2>12, <2>15 DEF CInv
<1> QED
  BY <1>7, <1>8


(* The seed event is the second of its workspace, which has then exactly   *)
(* the state of the checkpoint.                                            *)
LEMMA SeedGoes ==
    ASSUME CInv, NEW j, NEW k, k = <<j.root, j.id>>, k \in DOMAIN ws, j.package \in sealed,
           Publishes(k, Seeding(j)), UNCHANGED sealed
    PROVE  /\ StatesOK' /\ OriginsOK' /\ RecordsOK' /\ Onward
           /\ JobOK("verify", j)'
<1>1. PICK p : p = j.package
  OBVIOUS
<1>2. PICK a : a = [package |-> p, trusted |-> j.trusted, unsigned |-> j.unsigned]
  OBVIOUS
<1>3. PICK e : e = Seeding(j)
  OBVIOUS
<1>4. e.kind = "workspace_seeded" /\ e.arg = a /\ a.package = p
  BY <1>1, <1>2, <1>3 DEF Seeding, Event
<1>5. /\ p.ck \in CheckpointId
      /\ Sound(p.checkpoint.state) /\ LogicalShaped(p.checkpoint.state)
  BY <1>1, GoodSound
<1>6. EventOK(e)
  BY <1>4, <1>5 DEF EventOK, Kind
<1>7. Goes(k, e) /\ Fresh(e)
  BY <1>3, <1>4, <1>6 DEF Goes, Fresh
<1>8. PICK s, t : s = ws[k] /\ t = ws'[k]
  OBVIOUS
<1>9. StateOK(s) /\ Effect(s, e, t) /\ Require(s, e) /\ DOMAIN ws' = DOMAIN ws
  BY <1>7, <1>8, GoesEffect DEF CInv, StatesOK
<1>10. Len(s.events) = 1
  BY <1>4, <1>9 DEF Require, RequireWorkspaceSeeded
<1>11. PICK l : l = p.checkpoint.state
  OBVIOUS
<1>12. HasLogical(t, l) /\ t.checkpoints = Put(s.checkpoints, p.ck, p.checkpoint)
  BY <1>4, <1>9, <1>11 DEF Effect
<1>13. Logical(t) = l
  BY <1>5, <1>11, <1>12, LogicalOf
<1>14. p.ck \in DOMAIN t.checkpoints /\ t.checkpoints[p.ck] = p.checkpoint
  BY <1>12 DEF Put
<1>15. t.events[Len(t.events)] = e /\ Len(t.events) = 2
  <2>1. t.events[Len(t.events)] = e /\ Len(t.events) = Len(s.events) + 1
    BY <1>9, LastEvent
  <2> QED
    BY <1>10, <2>1
<1>16. RecordOK(t, Len(t.events))
  BY <1>1, <1>4, <1>11, <1>13, <1>14, <1>15 DEF RecordOK
<1>17. StatesOK' /\ OriginsOK' /\ RecordsOK' /\ Onward
  BY <1>7, <1>8, <1>16, GoesOK
<1>18. JobOK("verify", j)'
  BY <1>3, <1>8, <1>9, <1>15 DEF JobOK, Seeding, Event
<1> QED
  BY <1>17, <1>18

(* The new workspace is created with what the verified package holds. *)
LEMMA SeedOK ==
    ASSUME CInv, UNCHANGED load, NEW c \in Client, SeedFrom(c)
    PROVE  CInv'
<1>1. PICK j : j = job[c]
  OBVIOUS
<1>2. PICK k : k = <<j.root, j.id>>
  OBVIOUS
<1>3. pc[c] = "append" /\ UNCHANGED <<file, sealed>> /\ JobOK("append", j)
  BY <1>1 DEF SeedFrom, CInv, JobsOK
<1>4. k \in DOMAIN ws /\ j.package \in sealed
  BY <1>2, <1>3 DEF JobOK
<1>5. \/ Publishes(k, Seeding(j)) /\ Goto(c, "verify", j)
      \/ Refuse(c) /\ UNCHANGED ws
  BY <1>1, <1>2 DEF SeedFrom, Seeding, KeyOf
<1>6. CASE Refuse(c) /\ UNCHANGED ws
  BY <1>3, <1>6, RefuseOK DEF Refuse
<1>7. CASE Publishes(k, Seeding(j)) /\ Goto(c, "verify", j)
  <2>1. /\ StatesOK' /\ OriginsOK' /\ RecordsOK' /\ Onward
        /\ JobOK("verify", j)'
    BY <1>2, <1>3, <1>4, <1>7, SeedGoes
  <2>2. StatesOK /\ OriginsOK /\ FilesOK /\ JobsOK /\ sealed \subseteq sealed'
    BY <1>3 DEF CInv
  <2>3. FilesOK'
    BY <1>3, <2>1, <2>2, FilesStay
  <2>4. Moves(c, "verify", j)
    BY <1>7 DEF Goto, Moves
  <2>5. JobsOK'
    BY <2>1, <2>2, <2>4, JobsMove
  <2> QED
    BY <2>1, <2>3, <2>5 DEF CInv
<1> QED
  BY <1>5, <1>6, <1>7

(* A copy puts a sealed package at a path. *)
LEMMA CopyOK ==
    ASSUME CInv, UNCHANGED load, NEW path \in Path, NEW p \in sealed, Copy(path, p)
    PROVE  CInv'
<1>1. UNCHANGED <<ws, sealed, pc, job>> /\ file' = [file EXCEPT ![path] = p]
  BY DEF Copy
<1>2. StatesOK /\ OriginsOK /\ FilesOK /\ JobsOK /\ RecordsOK /\ sealed \subseteq sealed'
  BY <1>1 DEF CInv
<1>3. StatesOK' /\ OriginsOK' /\ RecordsOK' /\ Onward
  BY <1>1, <1>2, SameOnward
<1>4. JobsOK'
  BY <1>1, <1>2, <1>3, JobsStay
<1>5. ASSUME NEW q \in sealed' PROVE Good(q)'
  BY <1>1, <1>2, <1>3, GoodStays DEF FilesOK
<1>6. FilesOK'
  BY <1>1, <1>2, <1>5 DEF FilesOK
<1> QED
  BY <1>3, <1>4, <1>6 DEF CInv

(* Without packages and jobs the invariant holds. *)
LEMMA PackageInit == Init => CInv
<1> SUFFICES ASSUME Init PROVE CInv
  OBVIOUS
<1>1. load \in Workload /\ load.ids \subseteq WorkspaceId /\ Home \in Root /\ InitialPolicy \in Policy
  BY HomeAssumption DEF Init, Workload
<1>2. DOMAIN ws = {Home} \X load.ids /\ DOMAIN ws \subseteq Key
  BY <1>1 DEF Init, Key
<1>3. ASSUME NEW k \in DOMAIN ws
      PROVE  /\ StateOK(ws[k]) /\ ws[k].id = k[2]
             /\ Len(ws[k].events) = 1 /\ ws[k].events[1].kind = "workspace_created"
  <2>1. ws[k] = Created(k[2], InitialPolicy)
    BY <1>2 DEF Init
  <2> QED
    BY <1>1, <2>1, CreatedOK
<1>4. StatesOK
  BY <1>2, <1>3 DEF StatesOK
<1>5. OriginsOK
  BY <1>3 DEF OriginsOK, Makes, Exists
<1>6. RecordsOK
  BY <1>3 DEF RecordsOK, Recorded, RecordOK
<1>7. FilesOK
  BY DEF Init, FilesOK
<1>8. JobsOK
  BY DEF Init, JobsOK, JobOK
<1> QED
  BY <1>1, <1>4, <1>5, <1>6, <1>7, <1>8 DEF CInv

(* Every step keeps the invariant. *)
LEMMA PackageNext == CInv /\ [Next]_vars => CInv'
<1> SUFFICES ASSUME CInv, [Next]_vars PROVE CInv'
  OBVIOUS
<1>1. CASE UNCHANGED vars
  <2>1. UNCHANGED <<load, ws, file, sealed, pc, job>>
    BY <1>1 DEF vars
  <2>2. StatesOK /\ OriginsOK /\ FilesOK /\ JobsOK /\ RecordsOK /\ sealed \subseteq sealed'
    BY <2>1 DEF CInv
  <2>3. StatesOK' /\ OriginsOK' /\ RecordsOK' /\ Onward
    BY <2>1, <2>2, SameOnward
  <2>4. JobsOK' /\ FilesOK'
    BY <2>1, <2>2, <2>3, JobsStay, FilesStay
  <2> QED
    BY <2>1, <2>3, <2>4 DEF CInv
<1>2. CASE Next
  <2>0. UNCHANGED load /\ load.cks \subseteq CheckpointId
    BY <1>2 DEF Next, CInv, Workload
  <2>1. ASSUME NEW k \in Key, Meanwhile(k) PROVE CInv'
    BY <2>0, <2>1, MeanwhileOK
  <2>2. ASSUME NEW c \in Client, Calls(c) PROVE CInv'
    BY <2>0, <2>2, SealOpens, SeedOpens DEF Calls
  <2>3. ASSUME NEW c \in Client, Seal(c) \/ Record(c) \/ Inspect(c) PROVE CInv'
    BY <2>0, <2>3, SealOK, RecordStepOK, InspectOK
  <2>4. ASSUME NEW c \in Client, Create(c) \/ SeedFrom(c) PROVE CInv'
    BY <2>0, <2>4, CreateOK, SeedOK
  <2>5. ASSUME NEW c \in Client, VerifySeeded(c) \/ Crash(c) PROVE CInv'
    <3>1. UNCHANGED <<ws, file, sealed>>
      BY <2>5 DEF VerifySeeded, Crash
    <3>2. \E r : Finish(c, r)
      BY <2>5 DEF VerifySeeded, Crash, Refuse
    <3> QED
      BY <2>0, <3>1, <3>2, RefuseOK
  <2>6. ASSUME NEW path \in Path, NEW p \in sealed, Copy(path, p) PROVE CInv'
    BY <2>0, <2>6, CopyOK
  <2> QED
    BY <1>2, <2>1, <2>2, <2>3, <2>4, <2>5, <2>6 DEF Next
<1> QED
  BY <1>1, <1>2

-----------------------------------------------------------------------------
(* The theorems.                                                           *)

(* In every reachable state the invariant holds. *)
THEOREM PackagesInductive == Spec => []CInv
BY PackageInit, PackageNext, PTL DEF Spec

(* What a journal says of a sealed package is true, whoever writes to the  *)
(* path it was found at: the instance wrote that package, it is of this    *)
(* workspace and holds the checkpoint that the journal names.              *)
THEOREM TruthfulSeals == Spec => []SealTruthful
<1>1. CInv => SealTruthful
  <2> SUFFICES ASSUME CInv, NEW k \in DOMAIN ws, NEW i \in 1..Len(ws[k].events),
                      ws[k].events[i].kind = "workspace_sealed",
                      NEW a, a = ws[k].events[i].arg
               PROVE  /\ a.package \in sealed
                      /\ a.package.id = k[2]
                      /\ a.package.ck = a.ck
                      /\ a.package.checkpoint = ws[k].checkpoints[a.ck]
                      /\ a.package.migration # None =>
                             a.package.migration =
                                 [ck |-> a.ck, state |-> ws[k].checkpoints[a.ck].state]
    BY DEF SealTruthful, Exists
  <2>1. PICK s : s = ws[k]
    OBVIOUS
  <2>2. RecordOK(s, i) /\ s.id = k[2]
    BY <2>1 DEF CInv, RecordsOK, Recorded, StatesOK
  <2>3. PICK p : p = a.package
    OBVIOUS
  <2>4. p \in sealed /\ p.id = k[2] /\ p.ck = a.ck /\ p.checkpoint = s.checkpoints[a.ck]
    BY <2>1, <2>2, <2>3 DEF RecordOK
  <2>5. p.migration # None => p.migration = [ck |-> p.ck, state |-> p.checkpoint.state]
    BY <2>4 DEF CInv, FilesOK, Good
  <2> QED
    BY <2>1, <2>3, <2>4, <2>5
<1> QED
  BY <1>1, PackagesInductive, PTL

(* A seeded workspace begins with exactly what the workspace that made the *)
(* checkpoint has recorded for it, and the call that reads the state back  *)
(* reads a workspace that it has seeded itself.                            *)
THEOREM FaithfulSeeds == Spec => []SeedFaithful
<1>1. CInv => SeedFaithful
  <2> SUFFICES ASSUME CInv PROVE SeedFaithful
    OBVIOUS
  <2>1. ASSUME NEW k \in DOMAIN ws, NEW i \in 1..Len(ws[k].events),
               ws[k].events[i].kind = "workspace_seeded",
               NEW p, p = ws[k].events[i].arg.package
        PROVE  /\ p.checkpoint = ws[Origin(p.ck)].checkpoints[p.ck]
               /\ ws[k].checkpoints[p.ck] = p.checkpoint
               /\ Len(ws[k].events) = i => Logical(ws[k]) = p.checkpoint.state
    <3>1. PICK s : s = ws[k]
      OBVIOUS
    <3>2. RecordOK(s, i)
      BY <3>1 DEF CInv, RecordsOK, Recorded
    <3>3. /\ p \in sealed /\ p.checkpoint = s.checkpoints[p.ck]
          /\ Len(s.events) = i => Logical(s) = p.checkpoint.state
      BY <2>1, <3>1, <3>2 DEF RecordOK
    <3>4. PICK o \in Key : Makes(o, p.ck) /\ p.checkpoint = ws[o].checkpoints[p.ck]
      BY <3>3 DEF CInv, FilesOK, Good
    <3>5. Origin(p.ck) = o
      BY <3>4, OriginMakes DEF CInv, OriginsOK
    <3> QED
      BY <3>1, <3>3, <3>4, <3>5
  <2>2. ASSUME NEW c \in Client, pc[c] = "verify"
        PROVE  ws[KeyOf(c)].events[2] = Event("workspace_seeded",
                   [package |-> job[c].package, trusted |-> job[c].trusted,
                    unsigned |-> job[c].unsigned])
    <3>1. JobOK("verify", job[c])
      BY <2>2 DEF CInv, JobsOK
    <3> QED
      BY <3>1 DEF JobOK, Seeding, KeyOf
  <2> QED
    BY <2>1, <2>2 DEF SeedFaithful, Exists
<1> QED
  BY <1>1, PackagesInductive, PTL


=============================================================================
