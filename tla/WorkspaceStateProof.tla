------------------------ MODULE WorkspaceStateProof ------------------------
(***************************************************************************)
(* Facts about the projected state of a workspace for every set of names   *)
(* and every limit: what each event kind leaves behind, field by field,    *)
(* and which properties of a state every accepted event keeps.  The proofs *)
(* about Workspace, WorkspaceFamily and CheckpointPackage rest on them.    *)
(***************************************************************************)
EXTENDS WorkspaceState, SequenceTheorems, TLAPS

(* A sequence, whatever its elements are. *)
IsSeq(q) == q \in Seq({q[i] : i \in 1..Len(q)})

(* A record with the fields of a state. *)
Shaped(s) ==
    s = [id |-> s.id, policy |-> s.policy, lifecycle |-> s.lifecycle, sources |-> s.sources,
         sessions |-> s.sessions, entries |-> s.entries, checkpoints |-> s.checkpoints,
         pins |-> s.pins, lineage |-> s.lineage, applied |-> s.applied, events |-> s.events]

(* Appending to a sequence keeps what is there. *)
LEMMA AppendKeeps ==
    ASSUME NEW q, IsSeq(q), NEW e
    PROVE  /\ IsSeq(Append(q, e))
           /\ Len(q) \in Nat
           /\ Len(Append(q, e)) = Len(q) + 1
           /\ \A i \in 1..Len(q) : Append(q, e)[i] = q[i]
           /\ Append(q, e)[Len(q) + 1] = e
<1> DEFINE S == {q[i] : i \in 1..Len(q)} \union {e}
<1>1. q \in Seq(S)
  BY DEF IsSeq
<1> HIDE DEF S
<1>2. e \in S
  BY DEF S
<1>3. /\ Len(q) \in Nat
      /\ Append(q, e) \in Seq(S)
      /\ Len(Append(q, e)) = Len(q) + 1
      /\ \A i \in 1..Len(q) : Append(q, e)[i] = q[i]
      /\ Append(q, e)[Len(q) + 1] = e
  BY <1>1, <1>2, AppendProperties, LenProperties
<1>4. Append(q, e) \in Seq({Append(q, e)[i] : i \in 1..Len(Append(q, e))})
  BY <1>3, LenProperties
<1> QED
  BY <1>3, <1>4 DEF IsSeq

(* What was appended to is a prefix of the result. *)
LEMMA AppendPrefix ==
    ASSUME NEW q, IsSeq(q), NEW e
    PROVE  SubSeq(Append(q, e), 1, Len(q)) = q
<1> DEFINE S == {q[i] : i \in 1..Len(q)} \union {e}
<1>1. q \in Seq(S) /\ e \in S
  BY DEF IsSeq
<1> HIDE DEF S
<1>2. Append(q, e) = q \o <<e>> /\ <<e>> \in Seq(S) /\ Len(q) \in Nat
  BY <1>1, AppendIsConcat, LenProperties
<1>3. SubSeq(q \o <<e>>, 1, Len(q)) = SubSeq(q, 1, Len(q))
  BY <1>1, <1>2, SubSeqOfConcat1
<1> QED
  BY <1>1, <1>2, <1>3, SubSeqFull

-----------------------------------------------------------------------------
(* What an event does to the state.                                        *)

Kind == {"source_attached", "source_updated", "policy_tightened", "session_attached",
         "context_committed", "package_pinned", "checkpoint_created", "workspace_restored",
         "workspace_sealed", "workspace_seeded", "workspace_forked", "handoff_applied",
         "workspace_completed", "workspace_aborted"}

(* t has the fields of s, except for those in F. *)
Keeps(s, t, F) ==
    /\ "id" \notin F => t.id = s.id
    /\ "policy" \notin F => t.policy = s.policy
    /\ "lifecycle" \notin F => t.lifecycle = s.lifecycle
    /\ "sources" \notin F => t.sources = s.sources
    /\ "sessions" \notin F => t.sessions = s.sessions
    /\ "entries" \notin F => t.entries = s.entries
    /\ "checkpoints" \notin F => t.checkpoints = s.checkpoints
    /\ "pins" \notin F => t.pins = s.pins
    /\ "lineage" \notin F => t.lineage = s.lineage
    /\ "applied" \notin F => t.applied = s.applied
    /\ "events" \notin F => t.events = s.events

(* t has the logical components l. *)
HasLogical(t, l) ==
    /\ t.policy = l.policy
    /\ t.sources = l.sources
    /\ t.entries = l.entries
    /\ t.pins = l.pins

(* Setting one field leaves a state with the other fields. *)
LEMMA SetPolicy ==
    ASSUME NEW s, Shaped(s), NEW v, NEW t, t = [s EXCEPT !.policy = v]
    PROVE  Shaped(t) /\ Keeps(s, t, {"policy"}) /\ t.policy = v
BY DEF Shaped, Keeps

(* Setting the lifecycle leaves the other fields. *)
LEMMA SetLifecycle ==
    ASSUME NEW s, Shaped(s), NEW v, NEW t, t = [s EXCEPT !.lifecycle = v]
    PROVE  Shaped(t) /\ Keeps(s, t, {"lifecycle"}) /\ t.lifecycle = v
BY DEF Shaped, Keeps

(* Setting the sources leaves the other fields. *)
LEMMA SetSources ==
    ASSUME NEW s, Shaped(s), NEW v, NEW t, t = [s EXCEPT !.sources = v]
    PROVE  Shaped(t) /\ Keeps(s, t, {"sources"}) /\ t.sources = v
BY DEF Shaped, Keeps

(* Setting the sessions leaves the other fields. *)
LEMMA SetSessions ==
    ASSUME NEW s, Shaped(s), NEW v, NEW t, t = [s EXCEPT !.sessions = v]
    PROVE  Shaped(t) /\ Keeps(s, t, {"sessions"}) /\ t.sessions = v
BY DEF Shaped, Keeps

(* Setting the entries leaves the other fields. *)
LEMMA SetEntries ==
    ASSUME NEW s, Shaped(s), NEW v, NEW t, t = [s EXCEPT !.entries = v]
    PROVE  Shaped(t) /\ Keeps(s, t, {"entries"}) /\ t.entries = v
BY DEF Shaped, Keeps

(* Setting the checkpoints leaves the other fields. *)
LEMMA SetCheckpoints ==
    ASSUME NEW s, Shaped(s), NEW v, NEW t, t = [s EXCEPT !.checkpoints = v]
    PROVE  Shaped(t) /\ Keeps(s, t, {"checkpoints"}) /\ t.checkpoints = v
BY DEF Shaped, Keeps

(* Setting the pins leaves the other fields. *)
LEMMA SetPins ==
    ASSUME NEW s, Shaped(s), NEW v, NEW t, t = [s EXCEPT !.pins = v]
    PROVE  Shaped(t) /\ Keeps(s, t, {"pins"}) /\ t.pins = v
BY DEF Shaped, Keeps

(* Setting the lineage leaves the other fields. *)
LEMMA SetLineage ==
    ASSUME NEW s, Shaped(s), NEW v, NEW t, t = [s EXCEPT !.lineage = v]
    PROVE  Shaped(t) /\ Keeps(s, t, {"lineage"}) /\ t.lineage = v
BY DEF Shaped, Keeps

(* Setting the applied leaves the other fields. *)
LEMMA SetApplied ==
    ASSUME NEW s, Shaped(s), NEW v, NEW t, t = [s EXCEPT !.applied = v]
    PROVE  Shaped(t) /\ Keeps(s, t, {"applied"}) /\ t.applied = v
BY DEF Shaped, Keeps

(* Setting the events leaves the other fields. *)
LEMMA SetEvents ==
    ASSUME NEW s, Shaped(s), NEW v, NEW t, t = [s EXCEPT !.events = v]
    PROVE  Shaped(t) /\ Keeps(s, t, {"events"}) /\ t.events = v
BY DEF Shaped, Keeps

(* The logical components are set, and nothing else. *)
LEMMA SetLogical ==
    ASSUME NEW s, Shaped(s), NEW l
    PROVE  LET t == WithLogical(s, l)
           IN  /\ Shaped(t) /\ HasLogical(t, l)
               /\ Keeps(s, t, {"policy", "sources", "entries", "pins"})
<1>a. PICK t : t = WithLogical(s, l)
  OBVIOUS
<1>b. SUFFICES /\ Shaped(t) /\ HasLogical(t, l)
               /\ Keeps(s, t, {"policy", "sources", "entries", "pins"})
  BY <1>a, Zenon
<1>1. PICK t1 : t1 = [s EXCEPT !.policy = l.policy]
  OBVIOUS
<1>2. Shaped(t1) /\ Keeps(s, t1, {"policy"}) /\ t1.policy = l.policy
  BY <1>1, SetPolicy
<1>3. PICK t2 : t2 = [t1 EXCEPT !.sources = l.sources]
  OBVIOUS
<1>4. Shaped(t2) /\ Keeps(t1, t2, {"sources"}) /\ t2.sources = l.sources
  BY <1>2, <1>3, SetSources
<1>5. PICK t3 : t3 = [t2 EXCEPT !.entries = l.entries]
  OBVIOUS
<1>6. Shaped(t3) /\ Keeps(t2, t3, {"entries"}) /\ t3.entries = l.entries
  BY <1>4, <1>5, SetEntries
<1>7. PICK t4 : t4 = [t3 EXCEPT !.pins = l.pins]
  OBVIOUS
<1>8. Shaped(t4) /\ Keeps(t3, t4, {"pins"}) /\ t4.pins = l.pins
  BY <1>6, <1>7, SetPins
<1>9. t = t4
  BY Zenon, <1>a, <1>1, <1>3, <1>5, <1>7 DEF WithLogical
<1> QED
  BY <1>2, <1>4, <1>6, <1>8, <1>9 DEF Keeps, HasLogical

(* A fork keeps its policy and has nothing else of its own. *)
LEMMA SetInherited ==
    ASSUME NEW s, Shaped(s), NEW a
    PROVE  LET t == Inherited(s, a)
           IN  /\ Shaped(t) /\ Keeps(s, t, {"sources", "entries", "pins", "lineage"})
               /\ t.sources = Portable(a.state.sources) /\ t.entries = a.state.entries
               /\ t.pins = a.state.pins /\ t.lineage = a.lineage
<1>a. PICK t : t = Inherited(s, a)
  OBVIOUS
<1>b. SUFFICES /\ Shaped(t) /\ Keeps(s, t, {"sources", "entries", "pins", "lineage"})
               /\ t.sources = Portable(a.state.sources) /\ t.entries = a.state.entries
               /\ t.pins = a.state.pins /\ t.lineage = a.lineage
  BY <1>a, Zenon
<1>1. PICK t1 : t1 = [s EXCEPT !.sources = Portable(a.state.sources)]
  OBVIOUS
<1>2. Shaped(t1) /\ Keeps(s, t1, {"sources"}) /\ t1.sources = Portable(a.state.sources)
  BY <1>1, SetSources
<1>3. PICK t2 : t2 = [t1 EXCEPT !.entries = a.state.entries]
  OBVIOUS
<1>4. Shaped(t2) /\ Keeps(t1, t2, {"entries"}) /\ t2.entries = a.state.entries
  BY <1>2, <1>3, SetEntries
<1>5. PICK t3 : t3 = [t2 EXCEPT !.pins = a.state.pins]
  OBVIOUS
<1>6. Shaped(t3) /\ Keeps(t2, t3, {"pins"}) /\ t3.pins = a.state.pins
  BY <1>4, <1>5, SetPins
<1>7. PICK t4 : t4 = [t3 EXCEPT !.lineage = a.lineage]
  OBVIOUS
<1>8. Shaped(t4) /\ Keeps(t3, t4, {"lineage"}) /\ t4.lineage = a.lineage
  BY <1>6, <1>7, SetLineage
<1>9. t = t4
  BY Zenon, <1>a, <1>1, <1>3, <1>5, <1>7 DEF Inherited
<1> QED
  BY <1>2, <1>4, <1>6, <1>8, <1>9 DEF Keeps

(* The sources of a receiver and those that came with a handoff. *)
WithAnchors(s, h) == [x \in DOMAIN s.sources \union NewSources(s, h) |->
                         IF x \in DOMAIN s.sources THEN s.sources[x] ELSE h.anchors[x]]

(* A handoff brings sources and entries and is remembered. *)
LEMMA SetImported ==
    ASSUME NEW s, Shaped(s), NEW h
    PROVE  LET t == Imported(s, h)
           IN  /\ Shaped(t) /\ Keeps(s, t, {"sources", "entries", "applied"})
               /\ t.sources = WithAnchors(s, h)
               /\ t.entries = s.entries \union NewEntries(s, h)
               /\ t.applied = Put(s.applied, h.id, h)
<1>a. PICK t : t = Imported(s, h)
  OBVIOUS
<1>b. SUFFICES /\ Shaped(t) /\ Keeps(s, t, {"sources", "entries", "applied"})
               /\ t.sources = WithAnchors(s, h)
               /\ t.entries = s.entries \union NewEntries(s, h)
               /\ t.applied = Put(s.applied, h.id, h)
  BY <1>a, Zenon
<1>1. PICK t1 : t1 = [s EXCEPT !.sources = WithAnchors(s, h)]
  OBVIOUS
<1>2. Shaped(t1) /\ Keeps(s, t1, {"sources"}) /\ t1.sources = WithAnchors(s, h)
  BY <1>1, SetSources
<1>3. PICK t2 : t2 = [t1 EXCEPT !.entries = t1.entries \union NewEntries(s, h)]
  OBVIOUS
<1>4. Shaped(t2) /\ Keeps(t1, t2, {"entries"}) /\ t2.entries = t1.entries \union NewEntries(s, h)
  BY <1>2, <1>3, SetEntries
<1>5. PICK t3 : t3 = [t2 EXCEPT !.applied = Put(t2.applied, h.id, h)]
  OBVIOUS
<1>6. Shaped(t3) /\ Keeps(t2, t3, {"applied"}) /\ t3.applied = Put(t2.applied, h.id, h)
  BY <1>4, <1>5, SetApplied
<1>7. t = t3
  BY Zenon, <1>a, <1>1, <1>3, <1>5 DEF Imported, WithAnchors
<1> QED
  BY <1>2, <1>4, <1>6, <1>7 DEF Keeps

(* What an accepted event leaves behind: the fields that its kind does not *)
(* touch, and the value of those that it does.                             *)
Effect(s, e, t) ==
    /\ Shaped(t)
    /\ t.id = s.id
    /\ t.events = Append(s.events, e)
    /\ e.kind \in {"source_attached", "source_updated"} =>
           /\ t.sources = Put(s.sources, e.arg.src, e.arg.anchor)
           /\ Keeps(s, t, {"sources", "events"})
    /\ e.kind = "policy_tightened" =>
           t.policy = e.arg.policy /\ Keeps(s, t, {"policy", "events"})
    /\ e.kind = "session_attached" =>
           /\ t.sessions = Put(s.sessions, e.arg.ses, e.arg.src)
           /\ Keeps(s, t, {"sessions", "events"})
    /\ e.kind = "context_committed" =>
           t.entries = s.entries \union e.arg.entries /\ Keeps(s, t, {"entries", "events"})
    /\ e.kind = "package_pinned" =>
           /\ t.pins = Put(s.pins, e.arg.package, e.arg.artifact)
           /\ Keeps(s, t, {"pins", "events"})
    /\ e.kind = "checkpoint_created" =>
           /\ t.checkpoints =
                  Put(s.checkpoints, e.arg.ck, [at |-> e.arg.at, state |-> e.arg.state])
           /\ Keeps(s, t, {"checkpoints", "events"})
    /\ e.kind = "workspace_restored" =>
           /\ HasLogical(t, s.checkpoints[e.arg.ck].state)
           /\ Keeps(s, t, {"policy", "sources", "entries", "pins", "events"})
    /\ e.kind = "workspace_sealed" => Keeps(s, t, {"events"})
    /\ e.kind = "workspace_seeded" =>
           /\ HasLogical(t, e.arg.package.checkpoint.state)
           /\ t.checkpoints = Put(s.checkpoints, e.arg.package.ck, e.arg.package.checkpoint)
           /\ Keeps(s, t, {"policy", "sources", "entries", "pins", "checkpoints", "events"})
    /\ e.kind = "workspace_forked" =>
           /\ t.sources = Portable(e.arg.state.sources)
           /\ t.entries = e.arg.state.entries
           /\ t.pins = e.arg.state.pins
           /\ t.lineage = e.arg.lineage
           /\ Keeps(s, t, {"sources", "entries", "pins", "lineage", "events"})
    /\ e.kind = "handoff_applied" =>
           /\ t.sources = WithAnchors(s, e.arg.handoff)
           /\ t.entries = s.entries \union NewEntries(s, e.arg.handoff)
           /\ t.applied = Put(s.applied, e.arg.handoff.id, e.arg.handoff)
           /\ Keeps(s, t, {"sources", "entries", "applied", "events"})
    /\ e.kind = "workspace_completed" =>
           t.lifecycle = "completed" /\ Keeps(s, t, {"lifecycle", "events"})
    /\ e.kind = "workspace_aborted" =>
           t.lifecycle = "aborted" /\ Keeps(s, t, {"lifecycle", "events"})

(* Apply has the effect of its event's kind and no other. *)
LEMMA ApplyEffect ==
    ASSUME NEW s, Shaped(s), NEW e, e.kind \in Kind
    PROVE  Effect(s, e, Apply(s, e))
<1>a. PICK c : c = Change(s, e)
  OBVIOUS
<1>b. PICK t : t = Apply(s, e)
  OBVIOUS
<1>c. SUFFICES Effect(s, e, t)
  BY <1>b
<1>1. ASSUME Shaped(c)
      PROVE  Shaped(t) /\ Keeps(c, t, {"events"}) /\ t.events = Append(c.events, e)
  BY <1>1, <1>a, <1>b, SetEvents DEF Apply
<1>2. CASE e.kind \in {"source_attached", "source_updated"}
  <2>1. c = [s EXCEPT !.sources = Put(s.sources, e.arg.src, e.arg.anchor)]
    BY <1>2, <1>a DEF Change
  <2>2. /\ Shaped(c) /\ Keeps(s, c, {"sources"})
        /\ c.sources = Put(s.sources, e.arg.src, e.arg.anchor)
    BY <2>1, SetSources
  <2>5. Shaped(t) /\ t.events = Append(s.events, e)
    BY <1>1, <2>2 DEF Keeps
  <2>6. Keeps(s, t, {"sources", "events"})
    BY <1>1, <2>2 DEF Keeps
  <2> QED
    BY <1>1, <1>2, <2>2, <2>5, <2>6 DEF Effect, Keeps, HasLogical
<1>3. CASE e.kind = "policy_tightened"
  <2>1. c = [s EXCEPT !.policy = e.arg.policy]
    BY <1>3, <1>a DEF Change
  <2>2. /\ Shaped(c) /\ Keeps(s, c, {"policy"})
        /\ c.policy = e.arg.policy
    BY <2>1, SetPolicy
  <2>5. Shaped(t) /\ t.events = Append(s.events, e)
    BY <1>1, <2>2 DEF Keeps
  <2>6. Keeps(s, t, {"policy", "events"})
    BY <1>1, <2>2 DEF Keeps
  <2> QED
    BY <1>1, <1>3, <2>2, <2>5, <2>6 DEF Effect, Keeps, HasLogical
<1>4. CASE e.kind = "session_attached"
  <2>1. c = [s EXCEPT !.sessions = Put(s.sessions, e.arg.ses, e.arg.src)]
    BY <1>4, <1>a DEF Change
  <2>2. /\ Shaped(c) /\ Keeps(s, c, {"sessions"})
        /\ c.sessions = Put(s.sessions, e.arg.ses, e.arg.src)
    BY <2>1, SetSessions
  <2>5. Shaped(t) /\ t.events = Append(s.events, e)
    BY <1>1, <2>2 DEF Keeps
  <2>6. Keeps(s, t, {"sessions", "events"})
    BY <1>1, <2>2 DEF Keeps
  <2> QED
    BY <1>1, <1>4, <2>2, <2>5, <2>6 DEF Effect, Keeps, HasLogical
<1>5. CASE e.kind = "context_committed"
  <2>1. c = [s EXCEPT !.entries = s.entries \union e.arg.entries]
    BY <1>5, <1>a DEF Change
  <2>2. /\ Shaped(c) /\ Keeps(s, c, {"entries"})
        /\ c.entries = s.entries \union e.arg.entries
    BY <2>1, SetEntries
  <2>5. Shaped(t) /\ t.events = Append(s.events, e)
    BY <1>1, <2>2 DEF Keeps
  <2>6. Keeps(s, t, {"entries", "events"})
    BY <1>1, <2>2 DEF Keeps
  <2> QED
    BY <1>1, <1>5, <2>2, <2>5, <2>6 DEF Effect, Keeps, HasLogical
<1>6. CASE e.kind = "package_pinned"
  <2>1. c = [s EXCEPT !.pins = Put(s.pins, e.arg.package, e.arg.artifact)]
    BY <1>6, <1>a DEF Change
  <2>2. /\ Shaped(c) /\ Keeps(s, c, {"pins"})
        /\ c.pins = Put(s.pins, e.arg.package, e.arg.artifact)
    BY <2>1, SetPins
  <2>5. Shaped(t) /\ t.events = Append(s.events, e)
    BY <1>1, <2>2 DEF Keeps
  <2>6. Keeps(s, t, {"pins", "events"})
    BY <1>1, <2>2 DEF Keeps
  <2> QED
    BY <1>1, <1>6, <2>2, <2>5, <2>6 DEF Effect, Keeps, HasLogical
<1>7. CASE e.kind = "checkpoint_created"
  <2>1. c = [s EXCEPT !.checkpoints =
                   Put(s.checkpoints, e.arg.ck, [at |-> e.arg.at, state |-> e.arg.state])]
    BY <1>7, <1>a DEF Change
  <2>2. /\ Shaped(c) /\ Keeps(s, c, {"checkpoints"})
        /\ c.checkpoints = Put(s.checkpoints, e.arg.ck, [at |-> e.arg.at, state |-> e.arg.state])
    BY <2>1, SetCheckpoints
  <2>5. Shaped(t) /\ t.events = Append(s.events, e)
    BY <1>1, <2>2 DEF Keeps
  <2>6. Keeps(s, t, {"checkpoints", "events"})
    BY <1>1, <2>2 DEF Keeps
  <2> QED
    BY <1>1, <1>7, <2>2, <2>5, <2>6 DEF Effect, Keeps, HasLogical
<1>8. CASE e.kind = "workspace_restored"
  <2>1. c = WithLogical(s, s.checkpoints[e.arg.ck].state)
    BY <1>8, <1>a DEF Change
  <2>2. /\ Shaped(c) /\ HasLogical(c, s.checkpoints[e.arg.ck].state)
        /\ Keeps(s, c, {"policy", "sources", "entries", "pins"})
    BY <2>1, SetLogical
  <2>5. Shaped(t) /\ t.events = Append(s.events, e)
    BY <1>1, <2>2 DEF Keeps
  <2>6. Keeps(s, t, {"policy", "sources", "entries", "pins", "events"})
    BY <1>1, <2>2 DEF Keeps
  <2> QED
    BY <1>1, <1>8, <2>2, <2>5, <2>6 DEF Effect, Keeps, HasLogical
<1>9. CASE e.kind = "workspace_sealed"
  <2>1. c = s
    BY <1>9, <1>a DEF Change
  <2>2. Shaped(c) /\ Keeps(s, c, {})
    BY <2>1 DEF Keeps
  <2>5. Shaped(t) /\ t.events = Append(s.events, e)
    BY <1>1, <2>2 DEF Keeps
  <2>6. Keeps(s, t, {"events"})
    BY <1>1, <2>2 DEF Keeps
  <2> QED
    BY <1>1, <1>9, <2>2, <2>5, <2>6 DEF Effect, Keeps, HasLogical
<1>10. CASE e.kind = "workspace_seeded"
  <2>1. PICK u : u = WithLogical(s, e.arg.package.checkpoint.state)
    OBVIOUS
  <2>2. /\ Shaped(u) /\ HasLogical(u, e.arg.package.checkpoint.state)
        /\ Keeps(s, u, {"policy", "sources", "entries", "pins"})
    BY <2>1, SetLogical
  <2>3. c = [u EXCEPT !.checkpoints = Put(u.checkpoints, e.arg.package.ck, e.arg.package.checkpoint)]
    BY <1>10, <2>1, <1>a DEF Change
  <2>4. /\ Shaped(c) /\ Keeps(u, c, {"checkpoints"})
        /\ c.checkpoints = Put(u.checkpoints, e.arg.package.ck, e.arg.package.checkpoint)
    BY <2>2, <2>3, SetCheckpoints
  <2>5. Shaped(t) /\ t.events = Append(s.events, e)
    BY <1>1, <2>2, <2>4 DEF Keeps
  <2>6. Keeps(s, t, {"policy", "sources", "entries", "pins", "checkpoints", "events"})
    BY <1>1, <2>2, <2>4 DEF Keeps
  <2> QED
    BY <1>1, <1>10, <2>2, <2>4, <2>5, <2>6 DEF Effect, Keeps, HasLogical
<1>11. CASE e.kind = "workspace_forked"
  <2>1. PICK a : a = e.arg
    OBVIOUS
  <2>2. c = Inherited(s, a)
    BY <1>11, <1>a, <2>1 DEF Change
  <2>3. /\ Shaped(c) /\ Keeps(s, c, {"sources", "entries", "pins", "lineage"})
        /\ c.sources = Portable(a.state.sources) /\ c.entries = a.state.entries
        /\ c.pins = a.state.pins /\ c.lineage = a.lineage
    BY <2>2, SetInherited
  <2>5. Shaped(t) /\ t.events = Append(s.events, e)
    BY <1>1, <2>3 DEF Keeps
  <2>6. Keeps(s, t, {"sources", "entries", "pins", "lineage", "events"})
    BY <1>1, <2>3 DEF Keeps
  <2> QED
    BY <1>1, <1>11, <2>1, <2>3, <2>5, <2>6 DEF Effect, Keeps, HasLogical
<1>12. CASE e.kind = "handoff_applied"
  <2>1. PICK h : h = e.arg.handoff /\ c = Imported(s, h)
    BY <1>12, <1>a DEF Change
  <2>2. /\ Shaped(c) /\ Keeps(s, c, {"sources", "entries", "applied"})
        /\ c.sources = WithAnchors(s, h)
        /\ c.entries = s.entries \union NewEntries(s, h)
        /\ c.applied = Put(s.applied, h.id, h)
    BY <2>1, SetImported
  <2>5. Shaped(t) /\ t.events = Append(s.events, e)
    BY <1>1, <2>2 DEF Keeps
  <2>6. Keeps(s, t, {"sources", "entries", "applied", "events"})
    BY <1>1, <2>2 DEF Keeps
  <2> QED
    BY <1>1, <1>12, <2>1, <2>2, <2>5, <2>6 DEF Effect, Keeps, HasLogical
<1>13. CASE e.kind = "workspace_completed"
  <2>1. c = [s EXCEPT !.lifecycle = "completed"]
    BY <1>13, <1>a DEF Change
  <2>2. /\ Shaped(c) /\ Keeps(s, c, {"lifecycle"})
        /\ c.lifecycle = "completed"
    BY <2>1, SetLifecycle
  <2>5. Shaped(t) /\ t.events = Append(s.events, e)
    BY <1>1, <2>2 DEF Keeps
  <2>6. Keeps(s, t, {"lifecycle", "events"})
    BY <1>1, <2>2 DEF Keeps
  <2> QED
    BY <1>1, <1>13, <2>2, <2>5, <2>6 DEF Effect, Keeps, HasLogical
<1>14. CASE e.kind = "workspace_aborted"
  <2>1. c = [s EXCEPT !.lifecycle = "aborted"]
    BY <1>14, <1>a DEF Change
  <2>2. /\ Shaped(c) /\ Keeps(s, c, {"lifecycle"})
        /\ c.lifecycle = "aborted"
    BY <2>1, SetLifecycle
  <2>5. Shaped(t) /\ t.events = Append(s.events, e)
    BY <1>1, <2>2 DEF Keeps
  <2>6. Keeps(s, t, {"lifecycle", "events"})
    BY <1>1, <2>2 DEF Keeps
  <2> QED
    BY <1>1, <1>14, <2>2, <2>5, <2>6 DEF Effect, Keeps, HasLogical
<1> QED
  BY <1>2, <1>3, <1>4, <1>5, <1>6, <1>7, <1>8, <1>9, <1>10, <1>11, <1>12, <1>13, <1>14 DEF Kind

-----------------------------------------------------------------------------
(* States that stay well formed.                                           *)

(* The logical components of t, a state or a checkpointed logical state,   *)
(* have their types, every entry has its source and its own identifier.    *)
Sound(t) ==
    /\ t.policy \in Policy
    /\ DOMAIN t.sources \subseteq SourceId
    /\ \A x \in DOMAIN t.sources : t.sources[x] \in Anchor
    /\ t.entries \subseteq Entry
    /\ DOMAIN t.pins \subseteq Package
    /\ t.pins \in [DOMAIN t.pins -> Artifact]
    /\ Consistent(t)

(* A record with the fields of a logical state. *)
LogicalShaped(l) ==
    l = [policy |-> l.policy, sources |-> l.sources, entries |-> l.entries, pins |-> l.pins]

CheckpointsSound(s) ==
    /\ DOMAIN s.checkpoints \subseteq CheckpointId
    /\ \A ck \in DOMAIN s.checkpoints :
           LogicalShaped(s.checkpoints[ck].state) /\ Sound(s.checkpoints[ck].state)

StateOK(s) ==
    /\ Shaped(s)
    /\ IsSeq(s.events)
    /\ s.lifecycle \in {"active", "completed", "aborted"}
    /\ DOMAIN s.sessions \subseteq SessionId
    /\ Sound(s)
    /\ CheckpointsSound(s)

(* Entries with an identifier each. *)
Distinct(entries) == \A e, f \in entries : e.id = f.id => e = f

(* What the callers of _append put into an event of each kind. *)
EventOK(e) ==
    /\ e.kind \in Kind
    /\ e.kind \in {"source_attached", "source_updated"} =>
           e.arg.src \in SourceId /\ e.arg.anchor \in Anchor
    /\ e.kind = "policy_tightened" => e.arg.policy \in Policy
    /\ e.kind = "session_attached" => e.arg.ses \in SessionId
    /\ e.kind = "context_committed" => e.arg.entries \subseteq Entry /\ Distinct(e.arg.entries)
    /\ e.kind = "package_pinned" => e.arg.package \in Package /\ e.arg.artifact \in Artifact
    /\ e.kind = "checkpoint_created" => e.arg.ck \in CheckpointId
    /\ e.kind = "workspace_seeded" =>
           /\ e.arg.package.ck \in CheckpointId
           /\ LogicalShaped(e.arg.package.checkpoint.state)
           /\ Sound(e.arg.package.checkpoint.state)
    /\ e.kind = "workspace_forked" => Sound(e.arg.state)
    /\ e.kind = "handoff_applied" =>
           /\ DOMAIN e.arg.handoff.anchors \subseteq SourceId
           /\ \A x \in DOMAIN e.arg.handoff.anchors : e.arg.handoff.anchors[x] \in Anchor
           /\ e.arg.handoff.entries \subseteq Entry
           /\ Distinct(e.arg.handoff.entries)

(* The logical state of a state is sound exactly when the state is. *)
LEMMA LogicalSound ==
    ASSUME NEW s
    PROVE  /\ LogicalShaped(Logical(s))
           /\ HasLogical(Logical(s), s)
           /\ Sound(Logical(s)) <=> Sound(s)
BY DEF Logical, LogicalShaped, HasLogical, Sound, Consistent

(* A state with the components of a logical state has it as its own. *)
LEMMA LogicalOf ==
    ASSUME NEW t, NEW l, HasLogical(t, l), LogicalShaped(l)
    PROVE  Logical(t) = l
BY DEF Logical, LogicalShaped, HasLogical

(* A state with the logical fields of a sound one is sound. *)
LEMMA SoundOf ==
    ASSUME NEW t, NEW l, HasLogical(t, l), Sound(l)
    PROVE  Sound(t)
BY DEF HasLogical, Sound, Consistent

(* Dropping the bindings keeps everything else of the anchors. *)
LEMMA PortableAnchors ==
    ASSUME NEW sources, \A x \in DOMAIN sources : sources[x] \in Anchor
    PROVE  /\ DOMAIN Portable(sources) = DOMAIN sources
           /\ \A x \in DOMAIN sources :
                  /\ Portable(sources)[x] \in Anchor
                  /\ Portable(sources)[x] =
                         [ext |-> sources[x].ext, canon |-> sources[x].canon,
                          rev |-> sources[x].rev, bind |-> None]
BY DEF Portable, Anchor

(* An event that the workspace accepts leaves the logical components sound. *)
LEMMA SoundKept ==
    ASSUME NEW s, StateOK(s), NEW e, EventOK(e), Require(s, e), NEW t, Effect(s, e, t)
    PROVE  Sound(t)
<1> USE DEF StateOK
<1>1. CASE e.kind \in {"source_attached", "source_updated"}
  <2>1. t.sources = Put(s.sources, e.arg.src, e.arg.anchor) /\ Keeps(s, t, {"sources", "events"})
    BY <1>1 DEF Effect
  <2>2. e.arg.src \in SourceId /\ e.arg.anchor \in Anchor
    BY <1>1 DEF EventOK
  <2>3. /\ DOMAIN t.sources = DOMAIN s.sources \union {e.arg.src}
        /\ \A x \in DOMAIN t.sources : t.sources[x] \in Anchor
    BY <2>1, <2>2 DEF Sound, Put
  <2> QED
    BY <2>1, <2>2, <2>3 DEF Sound, Keeps, Consistent
<1>2. CASE e.kind = "policy_tightened"
  <2>1. t.policy = e.arg.policy /\ Keeps(s, t, {"policy", "events"})
    BY <1>2 DEF Effect
  <2> QED
    BY <1>2, <2>1 DEF EventOK, Sound, Keeps, Consistent
<1>3. CASE e.kind = "context_committed"
  <2>1. t.entries = s.entries \union e.arg.entries /\ Keeps(s, t, {"entries", "events"})
    BY <1>3 DEF Effect
  <2>2. RequireContextCommitted(s, e.arg)
    BY <1>3 DEF Require
  <2>3. e.arg.entries \subseteq Entry /\ Distinct(e.arg.entries)
    BY <1>3 DEF EventOK
  <2>4. Consistent(t)
    BY <2>1, <2>2, <2>3 DEF RequireContextCommitted, Distinct, Consistent, Sound, Keeps
  <2> QED
    BY <2>1, <2>3, <2>4 DEF Sound, Keeps
<1>4. CASE e.kind = "package_pinned"
  <2>1. t.pins = Put(s.pins, e.arg.package, e.arg.artifact) /\ Keeps(s, t, {"pins", "events"})
    BY <1>4 DEF Effect
  <2>2. DOMAIN t.pins \subseteq Package /\ t.pins \in [DOMAIN t.pins -> Artifact]
    BY <1>4, <2>1 DEF EventOK, Sound, Put
  <2> QED
    BY <2>1, <2>2 DEF Sound, Keeps, Consistent
<1>5. CASE e.kind = "workspace_restored"
  <2>1. HasLogical(t, s.checkpoints[e.arg.ck].state)
    BY <1>5 DEF Effect
  <2>2. Sound(s.checkpoints[e.arg.ck].state)
    BY <1>5 DEF Require, RequireWorkspaceRestored, CheckpointsSound
  <2> QED
    BY <2>1, <2>2, SoundOf
<1>6. CASE e.kind = "workspace_seeded"
  <2>1. HasLogical(t, e.arg.package.checkpoint.state)
    BY <1>6 DEF Effect
  <2>2. Sound(e.arg.package.checkpoint.state)
    BY <1>6 DEF EventOK
  <2> QED
    BY <2>1, <2>2, SoundOf
<1>7. CASE e.kind = "workspace_forked"
  <2>1. PICK l : l = e.arg.state
    OBVIOUS
  <2>2. /\ t.sources = Portable(l.sources) /\ t.entries = l.entries /\ t.pins = l.pins
        /\ t.policy = s.policy
    BY <1>7, <2>1 DEF Effect, Keeps
  <2>3. Sound(l)
    BY <1>7, <2>1 DEF EventOK
  <2>4. /\ DOMAIN t.sources = DOMAIN l.sources
        /\ \A x \in DOMAIN t.sources : t.sources[x] \in Anchor
    BY <2>2, <2>3, PortableAnchors DEF Sound
  <2> QED
    BY <2>2, <2>3, <2>4 DEF Sound, Consistent
<1>8. CASE e.kind = "handoff_applied"
  <2>1. PICK h : h = e.arg.handoff
    OBVIOUS
  <2>2. /\ t.sources = WithAnchors(s, h)
        /\ t.entries = s.entries \union NewEntries(s, h)
        /\ Keeps(s, t, {"sources", "entries", "applied", "events"})
    BY <1>8, <2>1 DEF Effect
  <2>3. /\ DOMAIN h.anchors \subseteq SourceId
        /\ \A x \in DOMAIN h.anchors : h.anchors[x] \in Anchor
        /\ h.entries \subseteq Entry
        /\ Distinct(h.entries)
    BY <1>8, <2>1 DEF EventOK
  <2>4. \A f \in NewEntries(s, h) :
            f.src # None => f.src \in DOMAIN s.sources \union DOMAIN h.anchors
    BY <1>8, <2>1 DEF Require, RequireHandoffApplied
  <2>5. /\ DOMAIN t.sources = DOMAIN s.sources \union DOMAIN h.anchors
        /\ \A x \in DOMAIN t.sources : t.sources[x] \in Anchor
    BY <2>2, <2>3 DEF WithAnchors, NewSources, Sound
  <2>6. Consistent(t)
    BY <2>2, <2>3, <2>4, <2>5 DEF Consistent, Sound, NewEntries, Distinct
  <2>7. t.entries \subseteq Entry
    BY <2>2, <2>3 DEF NewEntries, Sound
  <2> QED
    BY <2>2, <2>3, <2>5, <2>6, <2>7 DEF Sound, Keeps
<1>9. CASE e.kind \in {"session_attached", "checkpoint_created", "workspace_sealed",
                       "workspace_completed", "workspace_aborted"}
  <2>1. Keeps(s, t, {"sessions", "checkpoints", "lifecycle", "events"})
    BY <1>9 DEF Effect, Keeps
  <2> QED
    BY <2>1 DEF Sound, Keeps, Consistent
<1> QED
  BY <1>1, <1>2, <1>3, <1>4, <1>5, <1>6, <1>7, <1>8, <1>9 DEF EventOK, Kind

(* Checkpoints are only added, and a new one is sound too. *)
LEMMA CheckpointsKept ==
    ASSUME NEW s, StateOK(s), NEW e, EventOK(e), Require(s, e), NEW t, Effect(s, e, t)
    PROVE  CheckpointsSound(t)
<1> USE DEF StateOK
<1>1. CASE e.kind = "checkpoint_created"
  <2>1. /\ t.checkpoints = Put(s.checkpoints, e.arg.ck, [at |-> e.arg.at, state |-> e.arg.state])
        /\ e.arg.ck \in CheckpointId
    BY <1>1 DEF Effect, EventOK
  <2>2. e.arg.state = Logical(s)
    BY <1>1 DEF Require, RequireCheckpointCreated
  <2>3. LogicalShaped(e.arg.state) /\ Sound(e.arg.state)
    BY <2>2, LogicalSound
  <2> QED
    BY <2>1, <2>3 DEF CheckpointsSound, Put
<1>2. CASE e.kind = "workspace_seeded"
  <2>1. PICK p : p = e.arg.package
    OBVIOUS
  <2>2. t.checkpoints = Put(s.checkpoints, p.ck, p.checkpoint)
    BY <1>2, <2>1 DEF Effect
  <2>3. p.ck \in CheckpointId /\ LogicalShaped(p.checkpoint.state) /\ Sound(p.checkpoint.state)
    BY <1>2, <2>1 DEF EventOK
  <2> QED
    BY <2>2, <2>3 DEF CheckpointsSound, Put
<1>3. CASE e.kind \notin {"checkpoint_created", "workspace_seeded"}
  <2>1. t.checkpoints = s.checkpoints
    BY <1>3 DEF Effect, Keeps, EventOK, Kind
  <2> QED
    BY <2>1 DEF CheckpointsSound
<1> QED
  BY <1>1, <1>2, <1>3

(* A well-formed state stays so whatever events it accepts. *)
LEMMA StateKept ==
    ASSUME NEW s, StateOK(s), NEW e, EventOK(e), Accepts(s, e)
    PROVE  StateOK(Apply(s, e))
<1>1. PICK t : t = Apply(s, e)
  OBVIOUS
<1>2. Effect(s, e, t)
  BY <1>1, ApplyEffect DEF StateOK, EventOK
<1>3. Require(s, e)
  BY DEF Accepts
<1>4. Sound(t) /\ CheckpointsSound(t)
  BY <1>2, <1>3, SoundKept, CheckpointsKept
<1>5. Shaped(t) /\ IsSeq(t.events)
  BY <1>2, AppendKeeps DEF Effect, StateOK
<1>6. t.lifecycle \in {"active", "completed", "aborted"}
  BY <1>2 DEF Effect, Keeps, StateOK, EventOK, Kind
<1>7. DOMAIN t.sessions \subseteq SessionId
  <2>1. CASE e.kind = "session_attached"
    BY <1>2, <2>1 DEF Effect, StateOK, EventOK, Put
  <2>2. CASE e.kind # "session_attached"
    BY <1>2, <2>2 DEF Effect, Keeps, StateOK, EventOK, Kind
  <2> QED
    BY <2>1, <2>2
<1> QED
  BY <1>1, <1>4, <1>5, <1>6, <1>7 DEF StateOK

-----------------------------------------------------------------------------
(* What stays when a workspace goes on.                                    *)

(* A checkpoint stays as it is. *)
LEMMA CheckpointsStay ==
    ASSUME NEW s, NEW e, e.kind \in Kind, Require(s, e), NEW t, Effect(s, e, t)
    PROVE  \A ck \in DOMAIN s.checkpoints :
               ck \in DOMAIN t.checkpoints /\ t.checkpoints[ck] = s.checkpoints[ck]
<1>1. CASE e.kind = "checkpoint_created"
  <2>1. e.arg.ck \notin DOMAIN s.checkpoints
    BY <1>1 DEF Require, RequireCheckpointCreated
  <2>2. t.checkpoints = Put(s.checkpoints, e.arg.ck, [at |-> e.arg.at, state |-> e.arg.state])
    BY <1>1 DEF Effect
  <2> QED
    BY <2>1, <2>2 DEF Put
<1>2. CASE e.kind = "workspace_seeded"
  BY <1>2 DEF Require, RequireWorkspaceSeeded
<1>3. CASE e.kind \notin {"checkpoint_created", "workspace_seeded"}
  BY <1>3 DEF Effect, Keeps, Kind
<1> QED
  BY <1>1, <1>2, <1>3

(* Tightens is a preorder on policies. *)
LEMMA TightensSelf == ASSUME NEW p \in Policy PROVE Tightens(p, p)
BY DEF Tightens, Policy

(* Policies tighten transitively. *)
LEMMA TightensOn ==
    ASSUME NEW p \in Policy, NEW q \in Policy, NEW r \in Policy, Tightens(p, q), Tightens(q, r)
    PROVE  Tightens(p, r)
<1>1. p.cats \subseteq r.cats /\ (p.external => r.external)
  BY DEF Tightens
<1>2. /\ p.maxEvents <= r.maxEvents /\ p.maxEntries <= r.maxEntries
      /\ p.maxSources <= r.maxSources /\ p.maxSessions <= r.maxSessions
  BY DEF Tightens, Policy
<1> QED
  BY <1>1, <1>2 DEF Tightens

(* No event loosens the policy. *)
LEMMA PolicyTightens ==
    ASSUME NEW s, s.policy \in Policy, NEW e, e.kind \in Kind, Require(s, e),
           NEW t, Effect(s, e, t)
    PROVE  Tightens(t.policy, s.policy)
<1>1. CASE e.kind = "policy_tightened"
  BY <1>1 DEF Effect, Require, RequirePolicyTightened
<1>2. CASE e.kind = "workspace_restored"
  BY <1>2 DEF Effect, HasLogical, Require, RequireWorkspaceRestored
<1>3. CASE e.kind \notin {"policy_tightened", "workspace_restored"}
  <2>1. t.policy = s.policy
    BY <1>3 DEF Effect, Keeps, HasLogical, Kind, Require, RequireWorkspaceSeeded
  <2> QED
    BY <2>1, TightensSelf
<1> QED
  BY <1>1, <1>2, <1>3

(* t is what s has become: the same workspace with more events.  This is   *)
(* what a call may rely on that read s some time ago.                      *)
Later(s, t) ==
    /\ t.id = s.id
    /\ t.lineage = s.lineage
    /\ Len(s.events) <= Len(t.events)
    /\ \A i \in 1..Len(s.events) : t.events[i] = s.events[i]
    /\ \A ck \in DOMAIN s.checkpoints :
           ck \in DOMAIN t.checkpoints /\ t.checkpoints[ck] = s.checkpoints[ck]
    /\ Tightens(t.policy, s.policy)

(* A state is no earlier than itself. *)
LEMMA LaterSelf == ASSUME NEW s, StateOK(s) PROVE Later(s, s)
BY TightensSelf, LenProperties DEF Later, StateOK, Sound, IsSeq

(* Every accepted event leads to a later state of the workspace. *)
LEMMA EventLater ==
    ASSUME NEW s, StateOK(s), NEW e, EventOK(e), e.kind # "workspace_forked", Require(s, e),
           NEW t, Effect(s, e, t)
    PROVE  Later(s, t)
<1>1. t.id = s.id /\ t.lineage = s.lineage
  BY DEF Effect, Keeps, EventOK, Kind
<1>2. Len(s.events) <= Len(t.events) /\ \A i \in 1..Len(s.events) : t.events[i] = s.events[i]
  BY AppendKeeps DEF Effect, StateOK
<1>3. \A ck \in DOMAIN s.checkpoints :
          ck \in DOMAIN t.checkpoints /\ t.checkpoints[ck] = s.checkpoints[ck]
  BY CheckpointsStay DEF EventOK
<1>4. Tightens(t.policy, s.policy)
  BY PolicyTightens DEF EventOK, StateOK, Sound
<1> QED
  BY <1>1, <1>2, <1>3, <1>4 DEF Later

(* A workspace that was just created is well formed. *)
LEMMA CreatedOK ==
    ASSUME NEW id, NEW policy \in Policy, NEW s, s = Created(id, policy)
    PROVE  /\ StateOK(s)
           /\ s.id = id /\ s.policy = policy /\ s.lifecycle = "active" /\ s.lineage = None
           /\ DOMAIN s.sources = {} /\ DOMAIN s.sessions = {} /\ s.entries = {}
           /\ DOMAIN s.checkpoints = {} /\ DOMAIN s.pins = {} /\ DOMAIN s.applied = {}
           /\ Len(s.events) = 1 /\ s.events[1].kind = "workspace_created"
<1>1. PICK first : first = [id |-> NoId, kind |-> "workspace_created", arg |-> policy]
  OBVIOUS
<1>2. /\ Shaped(s) /\ s.id = id /\ s.policy = policy /\ s.lifecycle = "active"
      /\ s.sources = Empty /\ s.sessions = Empty /\ s.entries = {} /\ s.checkpoints = Empty
      /\ s.pins = Empty /\ s.lineage = None /\ s.applied = Empty /\ s.events = <<first>>
  BY <1>1 DEF Created, Shaped
<1>3. DOMAIN Empty = {}
  BY DEF Empty
<1>4. IsSeq(<<first>>) /\ Len(<<first>>) = 1 /\ <<first>>[1] = first
  BY DEF IsSeq
<1>5. StateOK(s)
  BY <1>2, <1>3, <1>4 DEF StateOK, Sound, Consistent, CheckpointsSound
<1> QED
  BY <1>1, <1>2, <1>3, <1>4, <1>5

=============================================================================
