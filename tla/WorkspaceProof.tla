--------------------------- MODULE WorkspaceProof ---------------------------
(***************************************************************************)
(* Proofs about Workspace for every set of clients, sources, sessions,     *)
(* checkpoints and packages, every policy and every workload.              *)
(*                                                                         *)
(* IInv is the inductive invariant.  Its parts are about the state         *)
(* (StateOK, PolicyObeyed, ...), about the checkpoints that a restore may  *)
(* bring back, which must be as good as the state is (CheckpointsGood),    *)
(* about the events and the states after them (History), about what each   *)
(* client has built from its read (ClientsOK), and about the client in the *)
(* lock, whose event still applies and whose restore has looked at the     *)
(* files since the last event (LockOK).                                    *)
(***************************************************************************)
EXTENDS Workspace, WorkspaceStateProof, FiniteSetTheorems

-----------------------------------------------------------------------------
(* The inductive invariant.                                                *)

(* The event e records the call a. *)
Matches(e, a) ==
    /\ e.kind = a.kind
    /\ \A f \in DOMAIN a.arg : e.arg[f] = a.arg[f]
    /\ a.id # NoId => e.id = a.id

(* The event r that a client is about to append for its call a. *)
Pending(r, a) ==
    /\ EventOK(r)
    /\ r.kind \notin {"workspace_seeded", "workspace_forked", "handoff_applied"}
    /\ Matches(r, a)

(* A client at p that asked a, built r, and has the receipt g. *)
ClientOK(s, p, a, r, o, g) ==
    /\ p \in {"idle", "append", "locked", "verify"}
    /\ o \in {"none", "ok", "refused", "KeyError", "WorkspaceCorruptError"}
    /\ g \in 0..Len(s.events)
    /\ p # "idle" => Pending(r, a)
    /\ p = "verify" => g # 0 /\ s.events[g] = r
    /\ p = "idle" /\ g # 0 => Matches(s.events[g], a)

ClientsOK ==
    /\ ask = [c \in Client |-> ask[c]] /\ req = [c \in Client |-> req[c]]
    /\ got = [c \in Client |-> got[c]]
    /\ pc \in [Client -> {"idle", "append", "locked", "verify"}]
    /\ out \in [Client -> {"none", "ok", "refused", "KeyError", "WorkspaceCorruptError"}]
    /\ \A c \in Client : ClientOK(ws, pc[c], ask[c], req[c], out[c], got[c])

(* The entries of t, a state or a logical state, are allowed by its policy *)
(* and their sessions are known to s; its pins agree.                      *)
Good(s, t) ==
    /\ \A e \in t.entries : e.cat \in t.policy.cats
    /\ ExternalAllowed(t.sources, t.policy)
    /\ \A e \in t.entries : e.ses # None => e.ses \in DOMAIN s.sessions
    /\ \A p, q \in DOMAIN t.pins : p.name = q.name => t.pins[p] = t.pins[q]

CheckpointsGood(s) == \A ck \in DOMAIN s.checkpoints : Good(s, s.checkpoints[ck].state)

(* What the events say of the states before and after them. *)
EventTrue(s, e, before, after) ==
    /\ e.kind = "checkpoint_created" =>
           /\ e.arg.ck \in DOMAIN s.checkpoints
           /\ e.arg.state = before
           /\ s.checkpoints[e.arg.ck].state = before
    /\ e.kind = "workspace_restored" =>
           e.arg.ck \in DOMAIN s.checkpoints /\ after = s.checkpoints[e.arg.ck].state
    /\ e.kind = "source_updated" => before.sources[e.arg.src] = e.arg.prev
    /\ e.kind = "context_committed" =>
           \A n \in e.arg.entries : n.ses # None => ProvedBy(before.sources[n.src], Plan[n.ses])
    /\ e.kind = "session_attached" =>
           e.arg.ses \in DOMAIN s.sessions /\ s.sessions[e.arg.ses] = e.arg.src

(* One of the first n events attaches the session for the source. *)
AttachedBy(events, n, ses, src) ==
    \E j \in 2..n : /\ events[j].kind = "session_attached"
                    /\ events[j].arg.ses = ses /\ events[j].arg.src = src

(* The sessions that are known, and those of the entries, were attached. *)
Attachments ==
    /\ \A t \in DOMAIN ws.sessions : AttachedBy(ws.events, Len(ws.events), t, ws.sessions[t])
    /\ \A i \in 2..Len(ws.events) : ws.events[i].kind = "context_committed" =>
           \A n \in ws.events[i].arg.entries :
               n.ses # None => AttachedBy(ws.events, i - 1, n.ses, n.src)

History ==
    /\ IsSeq(past)
    /\ Len(past) = Len(ws.events)
    /\ Len(past) >= 1
    /\ past[Len(past)] = Logical(ws)
    /\ ws.events[1].kind = "workspace_created"
    /\ \A i \in 2..Len(ws.events) : EventTrue(ws, ws.events[i], past[i-1], past[i])
    /\ \A i \in 2..Len(ws.events) :
           ws.events[i].kind = "checkpoint_created" => ws.events[i].arg.at = i - 1
    /\ \A i, j \in 1..Len(ws.events) :
           ws.events[i].id = ws.events[j].id /\ ws.events[i].id # NoId => i = j

StateInv ==
    /\ StateOK(ws)
    /\ InBounds(ws, ws.policy, 0)
    /\ Good(ws, ws)
    /\ CheckpointsGood(ws)

(* restore() has looked at the sources that are not left since the last    *)
(* event was published.                                                    *)
Seen(anchor) ==
    /\ anchor.bind # None
    /\ anchor.bind.path \in SourcePath
    /\ anchor.rev \in since[anchor.bind.path]
LooksOK(c) ==
    req[c].kind = "workspace_restored" =>
        \A x \in DOMAIN SourcesOf(req[c].arg.ck) \ left[c] : Seen(SourcesOf(req[c].arg.ck)[x])

LockOK ==
    /\ left = [c \in Client |-> left[c]]
    /\ file \in [SourcePath -> Revision]
    /\ since = [p \in SourcePath |-> since[p]]
    /\ \A p \in SourcePath : file[p] \in since[p]
    /\ \A c, d \in Client : pc[c] = "locked" /\ pc[d] = "locked" => c = d
    /\ \A c \in Client : pc[c] = "locked" =>
           ~IsRetry(req[c].id) /\ Accepts(ws, req[c]) /\ LooksOK(c)

IInv == load \in Workloads /\ StateInv /\ History /\ Attachments /\ ClientsOK /\ LockOK

-----------------------------------------------------------------------------
(* Clients.                                                                *)

(* A client steps: every other client is where it was, and what was true   *)
(* of it before is true of the new state of the workspace.                 *)
LEMMA ClientSteps ==
    ASSUME ClientsOK, NEW c \in Client, NEW p, NEW a, NEW r, NEW o, NEW g,
           pc' = [pc EXCEPT ![c] = p], ask' = [ask EXCEPT ![c] = a],
           req' = [req EXCEPT ![c] = r], out' = [out EXCEPT ![c] = o],
           got' = [got EXCEPT ![c] = g],
           ClientOK(ws', p, a, r, o, g),
           \A d \in Client : ClientOK(ws, pc[d], ask[d], req[d], out[d], got[d]) =>
                             ClientOK(ws', pc[d], ask[d], req[d], out[d], got[d])
    PROVE  ClientsOK'
<1>1. /\ ask' = [d \in Client |-> ask'[d]] /\ req' = [d \in Client |-> req'[d]]
      /\ got' = [d \in Client |-> got'[d]]
  BY DEF ClientsOK
<1>2. /\ pc' \in [Client -> {"idle", "append", "locked", "verify"}]
      /\ out' \in [Client -> {"none", "ok", "refused", "KeyError", "WorkspaceCorruptError"}]
  BY DEF ClientsOK, ClientOK
<1>3. ASSUME NEW d \in Client
      PROVE  ClientOK(ws', pc'[d], ask'[d], req'[d], out'[d], got'[d])
  <2>1. CASE d = c
    BY <2>1 DEF ClientsOK
  <2>2. CASE d # c
    <3>1. /\ pc'[d] = pc[d] /\ ask'[d] = ask[d] /\ req'[d] = req[d] /\ out'[d] = out[d]
          /\ got'[d] = got[d]
      BY <2>2 DEF ClientsOK
    <3> QED
      BY <3>1 DEF ClientsOK
  <2> QED
    BY <2>1, <2>2
<1> QED
  BY <1>1, <1>2, <1>3 DEF ClientsOK

(* What holds for a client holds when events are appended. *)
LEMMA ClientKept ==
    ASSUME NEW s, IsSeq(s.events), NEW t, NEW e, t.events = Append(s.events, e),
           NEW p, NEW a, NEW r, NEW o, NEW g, ClientOK(s, p, a, r, o, g)
    PROVE  ClientOK(t, p, a, r, o, g)
<1>1. /\ Len(s.events) \in Nat
      /\ Len(t.events) = Len(s.events) + 1
      /\ \A i \in 1..Len(s.events) : t.events[i] = s.events[i]
  BY AppendKeeps
<1>2. g \in 0..Len(t.events) /\ (g # 0 => t.events[g] = s.events[g])
  BY <1>1 DEF ClientOK
<1> QED
  BY <1>2 DEF ClientOK

(* The workspace is as it was, or one event longer. *)
Grows == ws' = ws \/ \E e : ws'.events = Append(ws.events, e)

(* A call that ends leaves its client with nothing, or with the receipt of *)
(* an event that records the call.                                         *)
LEMMA EndOK ==
    ASSUME ClientsOK, IsSeq(ws.events), Grows, NEW c \in Client, NEW call, NEW result, NEW receipt,
           End(c, call, result, receipt),
           result \in {"none", "ok", "refused", "KeyError", "WorkspaceCorruptError"},
           receipt \in 0..Len(ws'.events),
           receipt # 0 => Matches(ws'.events[receipt], call)
    PROVE  ClientsOK'
<1>1. PICK a : a = IF receipt = 0 THEN NoCall ELSE call
  OBVIOUS
<1>2. ClientOK(ws', "idle", a, NoCall, result, receipt)
  BY <1>1 DEF ClientOK
<1>3. \A d \in Client : ClientOK(ws, pc[d], ask[d], req[d], out[d], got[d]) =>
                        ClientOK(ws', pc[d], ask[d], req[d], out[d], got[d])
  BY ClientKept DEF Grows
<1>4. /\ pc' = [pc EXCEPT ![c] = "idle"] /\ ask' = [ask EXCEPT ![c] = a]
      /\ req' = [req EXCEPT ![c] = NoCall] /\ out' = [out EXCEPT ![c] = result]
      /\ got' = [got EXCEPT ![c] = receipt]
  BY <1>1 DEF End
<1> QED
  BY <1>2, <1>3, <1>4, ClientSteps

(* So does a refusal. *)
LEMMA RefuseOK ==
    ASSUME ClientsOK, IsSeq(ws.events), Grows, NEW c \in Client, Refuse(c)
    PROVE  ClientsOK'
<1>1. 0 \in 0..Len(ws'.events)
  BY AppendKeeps DEF Grows, IsSeq
<1> QED
  BY <1>1, EndOK DEF Refuse

(* A call that goes on has an event that records it. *)
LEMMA LookOK ==
    ASSUME ClientsOK, IsSeq(ws.events), ws' = ws, NEW c \in Client, NEW call, NEW payload,
           NEW sources, LookAndGoOn(c, call, payload, sources),
           Pending([call EXCEPT !.arg = payload], call)
    PROVE  ClientsOK'
<1>1. PICK r : r = [call EXCEPT !.arg = payload]
  OBVIOUS
<1>2. ClientOK(ws', "append", call, r, "none", 0)
  BY <1>1, LenProperties DEF ClientOK, IsSeq
<1>3. /\ pc' = [pc EXCEPT ![c] = "append"] /\ ask' = [ask EXCEPT ![c] = call]
      /\ req' = [req EXCEPT ![c] = r] /\ out' = [out EXCEPT ![c] = "none"]
      /\ got' = [got EXCEPT ![c] = 0]
  BY <1>1 DEF LookAndGoOn
<1> QED
  BY <1>2, <1>3, ClientSteps

(* So has one that has no files to look at. *)
LEMMA GoOnOK ==
    ASSUME ClientsOK, IsSeq(ws.events), ws' = ws, NEW c \in Client, NEW call, NEW payload,
           GoOn(c, call, payload),
           Pending([call EXCEPT !.arg = payload], call)
    PROVE  ClientsOK'
BY LookOK DEF GoOn

-----------------------------------------------------------------------------
(* The lock.                                                               *)

(* c steps outside the lock, or leaves it, and no other client steps. *)
Steps(c) ==
    /\ pc'[c] # "locked"
    /\ left' = [d \in Client |-> left'[d]]
    /\ \A d \in Client : d # c => pc'[d] = pc[d] /\ req'[d] = req[d] /\ left'[d] = left[d]

(* So it is when a call ends. *)
LEMMA EndSteps ==
    ASSUME ClientsOK, LockOK, NEW c \in Client, NEW call, NEW result, NEW receipt,
           End(c, call, result, receipt)
    PROVE  Steps(c)
<1>1. /\ pc' = [pc EXCEPT ![c] = "idle"] /\ left' = [left EXCEPT ![c] = {}]
      /\ req' = [req EXCEPT ![c] = NoCall]
  BY DEF End
<1>2. left' = [d \in Client |-> left'[d]]
  BY <1>1 DEF LockOK
<1>3. ASSUME NEW d \in Client, d # c
      PROVE  pc'[d] = pc[d] /\ req'[d] = req[d] /\ left'[d] = left[d]
  BY <1>1, <1>3 DEF ClientsOK, LockOK
<1>4. pc'[c] = "idle"
  BY <1>1 DEF ClientsOK
<1> QED
  BY <1>2, <1>3, <1>4 DEF Steps

(* So it is when a call goes on to _append. *)
LEMMA LookSteps ==
    ASSUME ClientsOK, LockOK, NEW c \in Client, NEW call, NEW payload, NEW sources,
           LookAndGoOn(c, call, payload, sources)
    PROVE  Steps(c)
<1>1. /\ pc' = [pc EXCEPT ![c] = "append"] /\ left' = [left EXCEPT ![c] = sources]
      /\ req' = [req EXCEPT ![c] = [call EXCEPT !.arg = payload]]
  BY DEF LookAndGoOn
<1>2. left' = [d \in Client |-> left'[d]]
  BY <1>1 DEF LockOK
<1>3. ASSUME NEW d \in Client, d # c
      PROVE  pc'[d] = pc[d] /\ req'[d] = req[d] /\ left'[d] = left[d]
  BY <1>1, <1>3 DEF ClientsOK, LockOK
<1>4. pc'[c] = "append"
  BY <1>1 DEF ClientsOK
<1> QED
  BY <1>2, <1>3, <1>4 DEF Steps

(* So it is when restore() has its receipt, and when any call is refused. *)
LEMMA GrantedSteps ==
    ASSUME ClientsOK, LockOK, NEW c \in Client, NEW n, Granted(c, n) \/ Refuse(c)
    PROVE  Steps(c)
<1>1. CASE Granted(c, n) /\ req[c].kind = "workspace_restored"
  <2>1. pc' = [pc EXCEPT ![c] = "verify"] /\ left' = left /\ req' = req
    BY <1>1 DEF Granted
  <2>2. pc'[c] = "verify" /\ \A d \in Client : d # c => pc'[d] = pc[d]
    BY <2>1 DEF ClientsOK
  <2> QED
    BY <2>1, <2>2 DEF Steps, LockOK
<1>2. CASE ~(Granted(c, n) /\ req[c].kind = "workspace_restored")
  BY <1>2, EndSteps DEF Granted, Refuse
<1> QED
  BY <1>1, <1>2

(* What holds of the client in the lock holds when another one steps. *)
LEMMA LockKept ==
    ASSUME LockOK, NEW c \in Client, Steps(c), UNCHANGED <<ws, files>>
    PROVE  LockOK'
<1>1. \A d \in Client : pc'[d] = "locked" =>
          d # c /\ pc[d] = "locked" /\ req'[d] = req[d] /\ left'[d] = left[d]
  BY DEF Steps
<1>2. ASSUME NEW d \in Client, pc'[d] = "locked"
      PROVE  (~IsRetry(req[d].id) /\ Accepts(ws, req[d]) /\ LooksOK(d))'
  <2>1. ~IsRetry(req[d].id) /\ Accepts(ws, req[d]) /\ LooksOK(d)
    BY <1>1, <1>2 DEF LockOK
  <2>2. req'[d] = req[d] /\ left'[d] = left[d] /\ ws' = ws /\ since' = since
    BY <1>1, <1>2 DEF files
  <2> QED
    BY <2>1, <2>2 DEF IsRetry, LooksOK, SourcesOf, Seen
<1>3. /\ left' = [d \in Client |-> left'[d]]
      /\ file' = file /\ since' = since
  BY DEF Steps, files
<1>4. \A d, e \in Client : pc'[d] = "locked" /\ pc'[e] = "locked" => d = e
  BY <1>1 DEF LockOK
<1> QED
  BY <1>2, <1>3, <1>4 DEF LockOK

-----------------------------------------------------------------------------
(* Receipts and calls.                                                     *)

(* A receipt is the position of an event with that event_id, and there is  *)
(* none when no event has it.                                              *)
LEMMA ReceiptFound ==
    ASSUME NEW s, NEW id
    PROVE  /\ Receipt(s, id) # 0 => /\ Receipt(s, id) \in 1..Len(s.events)
                                    /\ s.events[Receipt(s, id)].id = id
           /\ Receipt(s, id) = 0 => id = NoId \/ \A i \in 1..Len(s.events) : s.events[i].id # id
<1> DEFINE found == {i \in 1..Len(s.events) : s.events[i].id = id}
<1>1. CASE id = NoId \/ found = {}
  <2>1. Receipt(s, id) = 0
    BY <1>1 DEF Receipt
  <2> QED
    BY <1>1, <2>1
<1>2. CASE id # NoId /\ found # {}
  <2>1. Receipt(s, id) = CHOOSE i \in found : TRUE
    BY <1>2 DEF Receipt
  <2>2. Receipt(s, id) \in found
    BY <1>2, <2>1
  <2> QED
    BY <2>2
<1> QED
  BY <1>1, <1>2

(* A retry is answered with the receipt of an event that records the call. *)
LEMMA RetryOK ==
    ASSUME ClientsOK, IsSeq(ws.events), ws' = ws, NEW c \in Client, NEW call,
           IsRetry(call.id), Retry(c, call)
    PROVE  ClientsOK'
<1>1. CASE Recorded(call)
  <2>1. PICK n : n = Receipt(ws, call.id)
    OBVIOUS
  <2>2. n \in 1..Len(ws.events) /\ ws.events[n].id = call.id
    BY <2>1, ReceiptFound DEF IsRetry
  <2>3. Matches(ws.events[n], call)
    BY <1>1, <2>1, <2>2 DEF Recorded, Matches
  <2>4. End(c, call, "ok", n)
    BY <1>1, <2>1 DEF Retry
  <2> QED
    BY <2>2, <2>3, <2>4, EndOK DEF Grows
<1>2. CASE ~Recorded(call)
  BY <1>2, RefuseOK DEF Retry, Grows
<1> QED
  BY <1>1, <1>2

(* The state and the history are as they were. *)
LEMMA StateStays ==
    ASSUME StateInv, History, Attachments, UNCHANGED <<ws, past>>
    PROVE  StateInv' /\ History' /\ Attachments'
BY DEF Attachments, StateInv, StateOK, Good, CheckpointsGood, History, InBounds, Shaped, IsSeq, Sound,
       CheckpointsSound

(* The part of IInv that a call reads. *)
Reads == StateOK(ws) /\ History /\ ClientsOK

(* attach_source asks for an event about the state it has read. *)
LEMMA attach_sourceOK ==
    ASSUME Reads, NEW c \in Client, NEW id, NEW src \in SourceId, NEW anchor \in Attachable,
           attach_source(c, id, src, anchor)
    PROVE  ClientsOK'
<1> DEFINE arg == [src |-> src, anchor |-> anchor]
           call == [id |-> id, kind |-> "source_attached", arg |-> arg]
<1>1. /\ ws' = ws
      /\ \/ IsRetry(call.id) /\ Retry(c, call)
         \/ GoOn(c, call, arg)
         \/ Refuse(c)
  BY DEF attach_source, Asks
<1>2. Pending([call EXCEPT !.arg = arg], call)
  BY DEF Pending, EventOK, Matches, Kind, Attachable
<1> HIDE DEF call, arg
<1> QED
  BY <1>1, <1>2, RetryOK, GoOnOK, RefuseOK DEF Reads, StateOK, Grows

(* update_source asks for an event whose previous anchor is the one it has *)
(* read.                                                                   *)
LEMMA update_sourceOK ==
    ASSUME Reads, NEW c \in Client, NEW id, NEW src \in SourceId, NEW anchor \in Attachable,
           update_source(c, id, src, anchor)
    PROVE  ClientsOK'
<1> DEFINE call == [id |-> id, kind |-> "source_updated", arg |-> [src |-> src, anchor |-> anchor]]
           arg == [src |-> src, anchor |-> anchor, prev |-> ws.sources[src]]
<1>1. /\ ws' = ws
      /\ \/ IsRetry(call.id) /\ Retry(c, call)
         \/ GoOn(c, call, arg)
         \/ Refuse(c)
  BY DEF update_source, Asks
<1>2. Pending([call EXCEPT !.arg = arg], call)
  BY DEF Pending, EventOK, Matches, Kind, Attachable
<1> HIDE DEF call, arg
<1> QED
  BY <1>1, <1>2, RetryOK, GoOnOK, RefuseOK DEF Reads, StateOK, Grows

(* What the journal and the state say of an attached session agree, so     *)
(* that a session that was attached before is answered with its event.     *)
LEMMA attach_sessionOK ==
    ASSUME Reads, NEW c \in Client, NEW id, NEW ses \in SessionId, NEW src \in SourceId,
           attach_session(c, id, ses, src) \/ start_session(c, id, ses, src)
    PROVE  ClientsOK'
<1> DEFINE arg == [ses |-> ses, src |-> src]
           call == [id |-> id, kind |-> "session_attached", arg |-> arg]
           attached == {i \in 1..Len(ws.events) : /\ ws.events[i].kind = "session_attached"
                                                  /\ ws.events[i].arg.ses = ses}
           known == /\ id = NoId /\ attached # {} /\ ws.sessions[ses] = src
                    /\ End(c, call, "ok", CHOOSE i \in attached : TRUE)
<1>1. /\ ws' = ws
      /\ \/ IsRetry(call.id) /\ Retry(c, call)
         \/ GoOn(c, call, arg)
         \/ known
         \/ Refuse(c)
  <2>1. AttachCall(id, ses, src) = call
    BY DEF AttachCall
  <2>2. CASE attach_session(c, id, ses, src)
    BY <2>1, <2>2 DEF attach_session, Asks
  <2>3. CASE start_session(c, id, ses, src)
    BY <2>1, <2>3 DEF start_session, Asks
  <2> QED
    BY <2>2, <2>3
<1>2. Pending([call EXCEPT !.arg = arg], call)
  BY DEF Pending, EventOK, Matches, Kind
<1>3. ASSUME id = NoId, ws.sessions[ses] = src, NEW n \in attached
      PROVE  n \in 1..Len(ws.events) /\ Matches(ws.events[n], call)
  <2>a. Len(ws.events) \in Nat
    BY LenProperties DEF Reads, StateOK, IsSeq
  <2>b. n # 1
    BY DEF Reads, History
  <2>1. n \in 2..Len(ws.events)
    BY <2>a, <2>b
  <2>2. EventTrue(ws, ws.events[n], past[n-1], past[n])
    BY <2>1 DEF Reads, History
  <2>3. ws.events[n].arg.src = src
    BY <1>3, <2>2 DEF EventTrue
  <2> QED
    BY <1>3, <2>1, <2>3 DEF Matches
<1>4. CASE known
  <2>1. PICK n : n = CHOOSE i \in attached : TRUE
    OBVIOUS
  <2>2. n \in attached
    BY <1>4, <2>1
  <2>3. n \in 1..Len(ws.events) /\ Matches(ws.events[n], call)
    BY <1>3, <1>4, <2>2
  <2>4. End(c, call, "ok", n)
    BY <1>4, <2>1
  <2> HIDE DEF call, attached
  <2> QED
    BY <1>1, <2>3, <2>4, EndOK DEF Reads, StateOK, Grows
<1> HIDE DEF call, arg, known
<1> QED
  BY <1>1, <1>2, <1>4, RetryOK, GoOnOK, RefuseOK DEF Reads, StateOK, Grows

(* commit_context asks for an event about the entries it was given. *)
LEMMA commit_contextOK ==
    ASSUME Reads, NEW c \in Client, NEW id, NEW e \in Entry,
           commit_context(c, id, {e}, e.ses)
    PROVE  ClientsOK'
<1> DEFINE arg == [entries |-> {e}, ses |-> e.ses]
           call == [id |-> id, kind |-> "context_committed", arg |-> arg]
<1>1. /\ ws' = ws
      /\ \/ IsRetry(call.id) /\ Retry(c, call)
         \/ GoOn(c, call, arg)
         \/ End(c, call, "KeyError", 0)
         \/ Refuse(c)
  BY DEF commit_context, Asks
<1>2. Pending([call EXCEPT !.arg = arg], call)
  BY DEF Pending, EventOK, Matches, Kind, Distinct
<1>3. 0 \in 0..Len(ws.events)
  BY LenProperties DEF Reads, StateOK, IsSeq
<1> HIDE DEF call, arg
<1> QED
  BY <1>1, <1>2, <1>3, RetryOK, GoOnOK, RefuseOK, EndOK DEF Reads, StateOK, Grows

(* checkpoint asks for an event with the checkpoint of the state it has    *)
(* read.                                                                   *)
LEMMA checkpointOK ==
    ASSUME Reads, NEW c \in Client, NEW id, NEW ck \in CheckpointId, checkpoint(c, id, ck)
    PROVE  ClientsOK'
<1> DEFINE call == [id |-> id, kind |-> "checkpoint_created", arg |-> [ck |-> ck]]
           arg == [ck |-> ck, at |-> Len(ws.events), state |-> Logical(ws)]
<1>1. ws' = ws /\ (GoOn(c, call, arg) \/ Refuse(c))
  BY DEF checkpoint, Asks
<1>2. Pending([call EXCEPT !.arg = arg], call)
  BY DEF Pending, EventOK, Matches, Kind
<1> HIDE DEF call, arg
<1> QED
  BY <1>1, <1>2, GoOnOK, RefuseOK DEF Reads, StateOK, Grows

(* pin_package asks for an event about the package it was given. *)
LEMMA pin_packageOK ==
    ASSUME Reads, NEW c \in Client, NEW id, NEW package \in Package, NEW artifact \in Artifact,
           pin_package(c, id, package, artifact)
    PROVE  ClientsOK'
<1> DEFINE call == [id |-> id, kind |-> "package_pinned",
                    arg |-> [package |-> package, artifact |-> artifact]]
           arg == [package |-> package, artifact |-> artifact, prev |-> ws.pins]
<1>1. ws' = ws /\ GoOn(c, call, arg)
  BY DEF pin_package, Asks
<1>2. Pending([call EXCEPT !.arg = arg], call)
  BY DEF Pending, EventOK, Matches, Kind
<1> HIDE DEF call, arg
<1> QED
  BY <1>1, <1>2, GoOnOK DEF Reads, StateOK

(* restore asks for an event with the logical state of the checkpoint it   *)
(* has read.                                                               *)
LEMMA restoreOK ==
    ASSUME Reads, NEW c \in Client, NEW id, NEW ck \in CheckpointId, restore(c, id, ck)
    PROVE  ClientsOK'
<1> DEFINE arg == [ck |-> ck]
           call == [id |-> id, kind |-> "workspace_restored", arg |-> arg]
<1>1. ws' = ws /\ (LookAndGoOn(c, call, arg, DOMAIN SourcesOf(ck)) \/ Refuse(c))
  BY DEF restore, Asks
<1>2. Pending([call EXCEPT !.arg = arg], call)
  BY DEF Pending, EventOK, Matches, Kind
<1> HIDE DEF call, arg
<1> QED
  BY <1>1, <1>2, LookOK, RefuseOK DEF Reads, StateOK, Grows

(* record_sealed_package asks for an event about a checkpoint it has read. *)
LEMMA record_sealed_packageOK ==
    ASSUME Reads, NEW c \in Client, NEW ck \in CheckpointId, record_sealed_package(c, ck)
    PROVE  ClientsOK'
<1> DEFINE call == [id |-> NoId, kind |-> "workspace_sealed", arg |-> [ck |-> ck]]
           arg == [ck |-> ck, envelope |-> ws.checkpoints[ck]]
<1>1. ws' = ws /\ GoOn(c, call, arg)
  BY DEF record_sealed_package, Asks
<1>2. Pending([call EXCEPT !.arg = arg], call)
  BY DEF Pending, EventOK, Matches, Kind
<1> HIDE DEF call, arg
<1> QED
  BY <1>1, <1>2, GoOnOK DEF Reads, StateOK

(* tighten_policy asks for an event with a policy tighter than the one it  *)
(* has read.                                                               *)
LEMMA tighten_policyOK ==
    ASSUME Reads, NEW c \in Client, NEW id, NEW policy \in Policy, tighten_policy(c, id, policy)
    PROVE  ClientsOK'
<1> DEFINE call == [id |-> id, kind |-> "policy_tightened", arg |-> [policy |-> policy]]
           arg == [policy |-> policy, prev |-> ws.policy]
<1>1. /\ ws' = ws
      /\ \/ IsRetry(call.id) /\ Retry(c, call)
         \/ GoOn(c, call, arg)
         \/ Refuse(c)
  BY DEF tighten_policy, Asks
<1>2. Pending([call EXCEPT !.arg = arg], call)
  BY DEF Pending, EventOK, Matches, Kind
<1> HIDE DEF call, arg
<1> QED
  BY <1>1, <1>2, RetryOK, GoOnOK, RefuseOK DEF Reads, StateOK, Grows

(* complete and abort ask for the event that ends the workspace. *)
LEMMA endingOK ==
    ASSUME Reads, NEW c \in Client, NEW id, complete(c, id) \/ abort(c, id)
    PROVE  ClientsOK'
<1>1. PICK kind \in {"workspace_completed", "workspace_aborted"} :
          ws' = ws /\ GoOn(c, [id |-> id, kind |-> kind, arg |-> Empty], Empty)
  BY DEF complete, abort, Asks
<1> DEFINE call == [id |-> id, kind |-> kind, arg |-> Empty]
<1>2. Pending([call EXCEPT !.arg = Empty], call)
  BY DEF Pending, EventOK, Matches, Kind
<1> HIDE DEF call
<1> QED
  BY <1>1, <1>2, GoOnOK DEF Reads, StateOK, call

-----------------------------------------------------------------------------
(* The event is published.                                                 *)

Foreign == {"workspace_seeded", "workspace_forked", "handoff_applied"}

(* A session stays as it is. *)
LEMMA SessionsStay ==
    ASSUME NEW s, NEW e, e.kind \in Kind, Require(s, e), NEW t, Effect(s, e, t)
    PROVE  \A x \in DOMAIN s.sessions : x \in DOMAIN t.sessions /\ t.sessions[x] = s.sessions[x]
<1>1. CASE e.kind = "session_attached"
  BY <1>1 DEF Effect, Put, Require, RequireSessionAttached
<1>2. CASE e.kind # "session_attached"
  BY <1>2 DEF Effect, Keeps, Kind
<1> QED
  BY <1>1, <1>2

(* The state obeys its policy after an event as it did before. *)
LEMMA GoodKept ==
    ASSUME NEW s, StateOK(s), Good(s, s), CheckpointsGood(s),
           NEW e, EventOK(e), e.kind \notin Foreign, Require(s, e), NEW t, Effect(s, e, t)
    PROVE  Good(t, t)
<1>a. DOMAIN s.sessions \subseteq DOMAIN t.sessions
  BY SessionsStay DEF EventOK
<1>1. CASE e.kind \in {"source_attached", "source_updated"}
  <2>1. t.sources = Put(s.sources, e.arg.src, e.arg.anchor) /\ Keeps(s, t, {"sources", "events"})
    BY <1>1 DEF Effect
  <2>2. e.arg.anchor.ext => s.policy.external
    BY <1>1 DEF Require, RequireSourceAttached, RequireSourceUpdated
  <2>3. ExternalAllowed(t.sources, s.policy)
    BY <2>1, <2>2 DEF ExternalAllowed, Good, Put
  <2> QED
    BY <2>1, <2>3, <1>a DEF Good, Keeps
<1>2. CASE e.kind = "policy_tightened"
  <2>1. t.policy = e.arg.policy /\ Keeps(s, t, {"policy", "events"})
    BY <1>2 DEF Effect
  <2>2. /\ \A f \in s.entries : f.cat \in e.arg.policy.cats
        /\ ExternalAllowed(s.sources, e.arg.policy)
    BY <1>2 DEF Require, RequirePolicyTightened
  <2> QED
    BY <2>1, <2>2, <1>a DEF Good, Keeps
<1>3. CASE e.kind = "context_committed"
  <2>1. t.entries = s.entries \union e.arg.entries /\ Keeps(s, t, {"entries", "events"})
    BY <1>3 DEF Effect
  <2>2. \A f \in e.arg.entries : /\ f.cat \in s.policy.cats
                                 /\ f.ses # None => f.ses \in DOMAIN s.sessions
    BY <1>3 DEF Require, RequireContextCommitted
  <2> QED
    BY <2>1, <2>2 DEF Good, Keeps
<1>4. CASE e.kind = "package_pinned"
  <2>1. t.pins = Put(s.pins, e.arg.package, e.arg.artifact) /\ Keeps(s, t, {"pins", "events"})
    BY <1>4 DEF Effect
  <2>2. \A q \in DOMAIN s.pins : q.name = e.arg.package.name => s.pins[q] = e.arg.artifact
    BY <1>4 DEF Require, RequirePackagePinned
  <2>3. \A p, q \in DOMAIN t.pins : p.name = q.name => t.pins[p] = t.pins[q]
    BY <2>1, <2>2 DEF Good, Put
  <2> QED
    BY <2>1, <2>3 DEF Good, Keeps
<1>5. CASE e.kind = "workspace_restored"
  <2>1. PICK l : l = s.checkpoints[e.arg.ck].state
    OBVIOUS
  <2>2. HasLogical(t, l)
    BY <1>5, <2>1 DEF Effect
  <2>3. Good(s, l)
    BY <1>5, <2>1 DEF Require, RequireWorkspaceRestored, CheckpointsGood
  <2> QED
    BY <2>2, <2>3, <1>a DEF Good, HasLogical
<1>6. CASE e.kind \in {"session_attached", "checkpoint_created", "workspace_sealed",
                       "workspace_completed", "workspace_aborted"}
  <2>1. Keeps(s, t, {"sessions", "checkpoints", "lifecycle", "events"})
    BY <1>6 DEF Effect, Keeps
  <2> QED
    BY <2>1, <1>a DEF Good, Keeps
<1> QED
  BY <1>1, <1>2, <1>3, <1>4, <1>5, <1>6 DEF EventOK, Kind, Foreign

(* So do the states that the checkpoints keep. *)
LEMMA CheckpointsGoodKept ==
    ASSUME NEW s, StateOK(s), Good(s, s), CheckpointsGood(s),
           NEW e, EventOK(e), e.kind \notin Foreign, Require(s, e), NEW t, Effect(s, e, t)
    PROVE  CheckpointsGood(t)
<1>a. DOMAIN s.sessions \subseteq DOMAIN t.sessions
  BY SessionsStay DEF EventOK
<1>1. CASE e.kind = "checkpoint_created"
  <2>1. t.checkpoints = Put(s.checkpoints, e.arg.ck, [at |-> e.arg.at, state |-> e.arg.state])
    BY <1>1 DEF Effect
  <2>2. PICK l : l = e.arg.state /\ l = Logical(s)
    BY <1>1 DEF Require, RequireCheckpointCreated
  <2>3. Good(t, l)
    BY <2>2, <1>a DEF Good, Logical
  <2>4. \A ck \in DOMAIN t.checkpoints :
            t.checkpoints[ck].state = l \/ (/\ ck \in DOMAIN s.checkpoints
                                            /\ t.checkpoints[ck] = s.checkpoints[ck])
    BY <2>1, <2>2 DEF Put
  <2> QED
    BY <2>3, <2>4, <1>a DEF CheckpointsGood, Good
<1>2. CASE e.kind # "checkpoint_created"
  <2>1. t.checkpoints = s.checkpoints
    BY <1>2 DEF Effect, Keeps, EventOK, Kind, Foreign
  <2> QED
    BY <2>1, <1>a DEF CheckpointsGood, Good
<1> QED
  BY <1>1, <1>2

(* What the events say of the past stays true. *)
LEMMA EventStaysTrue ==
    ASSUME NEW s, NEW e, e.kind \in Kind, Require(s, e), NEW t, Effect(s, e, t),
           NEW n, NEW before, NEW after, EventTrue(s, n, before, after)
    PROVE  EventTrue(t, n, before, after)
BY CheckpointsStay, SessionsStay DEF EventTrue

(* What a new event says of the state before and after it is true. *)
LEMMA NewEventTrue ==
    ASSUME NEW s, StateOK(s), NEW e, EventOK(e), e.kind \notin Foreign, Require(s, e),
           NEW t, Effect(s, e, t)
    PROVE  EventTrue(t, e, Logical(s), Logical(t))
<1>1. CASE e.kind = "checkpoint_created"
  <2>1. e.arg.state = Logical(s)
    BY <1>1 DEF Require, RequireCheckpointCreated
  <2>2. t.checkpoints = Put(s.checkpoints, e.arg.ck, [at |-> e.arg.at, state |-> e.arg.state])
    BY <1>1 DEF Effect
  <2>3. e.arg.ck \in DOMAIN t.checkpoints /\ t.checkpoints[e.arg.ck].state = e.arg.state
    BY <2>2 DEF Put
  <2> QED
    BY <1>1, <2>1, <2>3 DEF EventTrue
<1>2. CASE e.kind = "workspace_restored"
  <2>1. PICK l : l = s.checkpoints[e.arg.ck].state
    OBVIOUS
  <2>2. HasLogical(t, l) /\ t.checkpoints = s.checkpoints
    BY <1>2, <2>1 DEF Effect, Keeps
  <2>3. e.arg.ck \in DOMAIN s.checkpoints
    BY <1>2 DEF Require, RequireWorkspaceRestored
  <2>4. LogicalShaped(l)
    BY <2>1, <2>3 DEF StateOK, CheckpointsSound
  <2>5. Logical(t) = l
    BY <2>2, <2>4, LogicalOf
  <2> QED
    BY <1>2, <2>1, <2>2, <2>3, <2>5 DEF EventTrue
<1>3. CASE e.kind = "source_updated"
  <2>1. e.arg.prev = s.sources[e.arg.src]
    BY <1>3 DEF Require, RequireSourceUpdated
  <2> QED
    BY <1>3, <2>1 DEF EventTrue, Logical
<1>4. CASE e.kind = "context_committed"
  <2>1. RequireContextCommitted(s, e.arg)
    BY <1>4 DEF Require
  <2>2. ASSUME NEW n \in e.arg.entries, n.ses # None
        PROVE  ProvedBy(Logical(s).sources[n.src], Plan[n.ses])
    <3>1. e.arg.ses # None
      BY <2>1, <2>2 DEF RequireContextCommitted
    <3>2. ProvenanceValid(s, e.arg.entries, e.arg.ses)
      BY <2>1, <3>1 DEF RequireContextCommitted
    <3>3. n.ses = e.arg.ses /\ n.src = s.sessions[e.arg.ses]
      BY <3>2 DEF ProvenanceValid
    <3>4. ProvedBy(s.sources[n.src], Plan[n.ses])
      BY <3>2, <3>3 DEF ProvenanceValid
    <3> QED
      BY <3>4 DEF Logical
  <2> QED
    BY <1>4, <2>2 DEF EventTrue
<1>5. CASE e.kind = "session_attached"
  BY <1>5 DEF EventTrue, Effect, Put
<1>6. CASE e.kind \notin {"checkpoint_created", "workspace_restored", "source_updated",
                          "context_committed", "session_attached"}
  BY <1>6 DEF EventTrue
<1> QED
  BY <1>1, <1>2, <1>3, <1>4, <1>5, <1>6

(* The event that is appended continues a true history. *)
LEMMA HistoryKept ==
    ASSUME StateOK(ws), History, NEW e, EventOK(e), e.kind \notin Foreign, Require(ws, e),
           ~IsRetry(e.id), Effect(ws, e, ws'), past' = Append(past, Logical(ws'))
    PROVE  History'
<1> DEFINE n == Len(ws.events)
<1>1. /\ n \in Nat /\ n >= 1 /\ Len(past) = n
      /\ ws'.events = Append(ws.events, e)
  BY LenProperties DEF StateOK, IsSeq, History, Effect
<1>2. /\ Len(ws'.events) = n + 1
      /\ \A i \in 1..n : ws'.events[i] = ws.events[i]
      /\ ws'.events[n+1] = e
  BY <1>1, AppendKeeps DEF StateOK
<1>3. /\ IsSeq(past') /\ Len(past') = n + 1
      /\ \A i \in 1..n : past'[i] = past[i]
      /\ past'[n+1] = Logical(ws')
  BY <1>1, AppendKeeps DEF History
<1>4. past[n] = Logical(ws)
  BY <1>1 DEF History
<1>5. ASSUME NEW i \in 2..Len(ws'.events)
      PROVE  /\ EventTrue(ws', ws'.events[i], past'[i-1], past'[i])
             /\ ws'.events[i].kind = "checkpoint_created" => ws'.events[i].arg.at = i - 1
  <2>1. CASE i \in 2..n
    <3>1. EventTrue(ws, ws.events[i], past[i-1], past[i])
      BY <2>1 DEF History
    <3>2. EventTrue(ws', ws.events[i], past[i-1], past[i])
      BY <3>1, EventStaysTrue DEF EventOK
    <3>3. ws'.events[i] = ws.events[i] /\ past'[i-1] = past[i-1] /\ past'[i] = past[i]
      BY <1>1, <1>2, <1>3, <2>1
    <3> QED
      BY <2>1, <3>2, <3>3 DEF History
  <2>2. CASE i = n + 1
    <3>1. EventTrue(ws', e, Logical(ws), Logical(ws'))
      BY NewEventTrue
    <3>2. e.kind = "checkpoint_created" => e.arg.at = n
      BY DEF Require, RequireCheckpointCreated
    <3>3. ws'.events[i] = e /\ past'[i-1] = Logical(ws) /\ past'[i] = Logical(ws')
      BY <1>1, <1>2, <1>3, <1>4, <2>2
    <3> QED
      BY <1>1, <2>2, <3>1, <3>2, <3>3
  <2> QED
    BY <1>1, <1>2, <2>1, <2>2
<1>6. ASSUME NEW i \in 1..Len(ws'.events), NEW j \in 1..Len(ws'.events),
             ws'.events[i].id = ws'.events[j].id, ws'.events[i].id # NoId
      PROVE  i = j
  <2>1. e.id # NoId => \A k \in 1..n : ws.events[k].id # e.id
    BY ReceiptFound DEF IsRetry
  <2>2. CASE i \in 1..n /\ j \in 1..n
    BY <1>2, <1>6, <2>2 DEF History
  <2>3. CASE i = n + 1 \/ j = n + 1
    BY <1>1, <1>2, <1>6, <2>1, <2>3
  <2> QED
    BY <1>1, <1>2, <2>2, <2>3
<1>7. ws'.events[1].kind = "workspace_created"
  BY <1>1, <1>2 DEF History
<1> QED
  BY <1>1, <1>2, <1>3, <1>5, <1>6, <1>7 DEF History

(* So do the attachments that it rests on. *)
LEMMA AttachmentsKept ==
    ASSUME StateOK(ws), History, Attachments, NEW e, EventOK(e), e.kind \notin Foreign,
           Require(ws, e), Effect(ws, e, ws')
    PROVE  Attachments'
<1> DEFINE n == Len(ws.events)
<1>1. n \in Nat /\ n >= 1
  BY LenProperties DEF StateOK, IsSeq, History
<1>2. /\ Len(ws'.events) = n + 1
      /\ \A i \in 1..n : ws'.events[i] = ws.events[i]
      /\ ws'.events[n+1] = e
  BY AppendKeeps DEF StateOK, Effect
<1>3. ASSUME NEW k \in 1..n, NEW m \in k..(n+1), NEW t, NEW x, AttachedBy(ws.events, k, t, x)
      PROVE  AttachedBy(ws'.events, m, t, x)
  <2>1. PICK j \in 2..k : /\ ws.events[j].kind = "session_attached"
                          /\ ws.events[j].arg.ses = t /\ ws.events[j].arg.src = x
    BY <1>3 DEF AttachedBy
  <2>2. j \in 2..m /\ j \in 1..n
    BY <1>1, <1>3, <2>1
  <2>3. ws'.events[j] = ws.events[j]
    BY <1>2, <2>2
  <2> QED
    BY <2>1, <2>2, <2>3 DEF AttachedBy
<1>4. ASSUME NEW t \in DOMAIN ws'.sessions
      PROVE  AttachedBy(ws'.events, Len(ws'.events), t, ws'.sessions[t])
  <2>1. CASE t \in DOMAIN ws.sessions
    <3>1. ws'.sessions[t] = ws.sessions[t]
      BY <2>1, SessionsStay DEF EventOK
    <3>2. AttachedBy(ws.events, n, t, ws'.sessions[t])
      BY <2>1, <3>1 DEF Attachments
    <3>3. n \in 1..n /\ n + 1 \in n..(n+1)
      BY <1>1
    <3> QED
      BY <1>2, <1>3, <3>2, <3>3
  <2>2. CASE t \notin DOMAIN ws.sessions
    <3>1. e.kind = "session_attached"
      BY <2>2 DEF Effect, Keeps, EventOK, Kind, Foreign
    <3>2. ws'.sessions = Put(ws.sessions, e.arg.ses, e.arg.src)
      BY <3>1 DEF Effect
    <3>3. t = e.arg.ses /\ ws'.sessions[t] = e.arg.src
      BY <2>2, <3>2 DEF Put
    <3>4. n + 1 \in 2..(n + 1)
      BY <1>1
    <3> QED
      BY <1>2, <3>1, <3>3, <3>4 DEF AttachedBy
  <2> QED
    BY <2>1, <2>2
<1>5. ASSUME NEW i \in 2..Len(ws'.events), ws'.events[i].kind = "context_committed",
             NEW f \in ws'.events[i].arg.entries, f.ses # None
      PROVE  AttachedBy(ws'.events, i - 1, f.ses, f.src)
  <2>1. CASE i \in 2..n
    <3>1. AttachedBy(ws.events, i - 1, f.ses, f.src)
      BY <1>1, <1>2, <1>5, <2>1 DEF Attachments
    <3>2. i - 1 \in 1..n /\ i - 1 \in (i-1)..(n+1)
      BY <1>1, <2>1
    <3> QED
      BY <1>3, <3>1, <3>2
  <2>2. CASE i = n + 1
    <3>1. e.kind = "context_committed" /\ f \in e.arg.entries
      BY <1>2, <1>5, <2>2
    <3>2. ProvenanceValid(ws, e.arg.entries, e.arg.ses)
      BY <1>5, <3>1 DEF Require, RequireContextCommitted
    <3>3. f.ses \in DOMAIN ws.sessions /\ f.src = ws.sessions[f.ses]
      BY <3>1, <3>2 DEF ProvenanceValid
    <3>4. AttachedBy(ws.events, n, f.ses, f.src)
      BY <3>3 DEF Attachments
    <3>5. i - 1 = n /\ n \in 1..n /\ n \in n..(n+1)
      BY <1>1, <2>2
    <3> QED
      BY <1>3, <3>4, <3>5
  <2> QED
    BY <1>1, <1>2, <2>1, <2>2
<1> QED
  BY <1>4, <1>5 DEF Attachments

(* An event that is accepted keeps the state and the history lawful. *)
LEMMA PublishOK ==
    ASSUME StateInv, History, Attachments, NEW e, EventOK(e), e.kind \notin Foreign,
           ~IsRetry(e.id), Accepts(ws, e), ws' = Apply(ws, e),
           past' = Append(past, Logical(ws'))
    PROVE  StateInv' /\ History' /\ Attachments' /\ Effect(ws, e, ws')
<1>1. Effect(ws, e, ws')
  BY ApplyEffect DEF StateInv, StateOK, EventOK
<1>2. Require(ws, e)
  BY DEF Accepts
<1>3. StateOK(ws')
  BY StateKept DEF StateInv
<1>4. InBounds(ws', ws'.policy, 0)
  BY DEF Accepts
<1>5. Good(ws', ws') /\ CheckpointsGood(ws')
  BY <1>1, <1>2, GoodKept, CheckpointsGoodKept DEF StateInv
<1>6. History'
  BY <1>1, <1>2, HistoryKept DEF StateInv
<1>7. Attachments'
  BY <1>1, <1>2, AttachmentsKept DEF StateInv
<1> QED
  BY <1>1, <1>3, <1>4, <1>5, <1>6, <1>7 DEF StateInv

(* The caller gets the receipt of its own event. *)
LEMMA GrantedOK ==
    ASSUME ClientsOK, IsSeq(ws.events), Grows, NEW c \in Client, pc[c] # "idle",
           NEW n \in 1..Len(ws'.events), ws'.events[n] = req[c], Granted(c, n)
    PROVE  ClientsOK'
<1>1. Pending(req[c], ask[c]) /\ out[c] \in {"none", "ok", "refused", "KeyError", "WorkspaceCorruptError"}
  BY DEF ClientsOK, ClientOK
<1>2. CASE req[c].kind = "workspace_restored"
  <2>1. /\ pc' = [pc EXCEPT ![c] = "verify"] /\ ask' = [ask EXCEPT ![c] = ask[c]]
        /\ req' = [req EXCEPT ![c] = req[c]] /\ out' = [out EXCEPT ![c] = out[c]]
        /\ got' = [got EXCEPT ![c] = n]
    BY <1>2 DEF Granted, ClientsOK
  <2>2. ClientOK(ws', "verify", ask[c], req[c], out[c], n)
    BY <1>1 DEF ClientOK
  <2>3. \A d \in Client : ClientOK(ws, pc[d], ask[d], req[d], out[d], got[d]) =>
                          ClientOK(ws', pc[d], ask[d], req[d], out[d], got[d])
    BY ClientKept DEF Grows
  <2> QED
    BY <2>1, <2>2, <2>3, ClientSteps
<1>3. CASE req[c].kind # "workspace_restored"
  <2>1. End(c, ask[c], "ok", n)
    BY <1>3 DEF Granted
  <2>2. n # 0 /\ n \in 0..Len(ws'.events) /\ Matches(ws'.events[n], ask[c])
    BY <1>1 DEF Pending
  <2> QED
    BY <2>1, <2>2, EndOK
<1> QED
  BY <1>2, <1>3

(* _append keeps the invariant, up to the point where it may publish. *)
LEMMA AppendEventOK ==
    ASSUME IInv, NEW c \in Client, AppendEvent(c), load' = load
    PROVE  IInv'
<1> DEFINE e == req[c]
<1>1. /\ pc[c] = "append" /\ Pending(e, ask[c])
      /\ IsSeq(ws.events) /\ UNCHANGED <<ws, past, files>>
  BY DEF AppendEvent, IInv, ClientsOK, ClientOK, StateInv, StateOK
<1>2. StateInv' /\ History' /\ Attachments' /\ load' \in Workloads
  BY <1>1, StateStays DEF IInv
<1>3. CASE Replayed(c)
  <2>1. PICK n : n = Receipt(ws, e.id)
    OBVIOUS
  <2>2. CASE ws.events[n] = e
    <3>1. n \in 1..Len(ws.events) /\ Granted(c, n)
      BY <1>3, <2>1, <2>2, ReceiptFound DEF Replayed, IsRetry
    <3>2. ClientsOK'
      BY <1>1, <2>2, <3>1, GrantedOK DEF IInv, Grows
    <3>3. LockOK'
      BY <1>1, <3>1, GrantedSteps, LockKept DEF IInv
    <3> QED
      BY <1>2, <3>2, <3>3 DEF IInv
  <2>3. CASE ws.events[n] # e
    <3>1. Refuse(c)
      BY <1>3, <2>1, <2>3 DEF Replayed
    <3>2. ClientsOK'
      BY <1>1, <3>1, RefuseOK DEF IInv, Grows
    <3>3. LockOK'
      BY <1>1, <3>1, GrantedSteps, LockKept DEF IInv
    <3> QED
      BY <1>2, <3>2, <3>3 DEF IInv
  <2> QED
    BY <2>2, <2>3
<1>4. CASE Prepared(c)
  <2>1. /\ pc' = [pc EXCEPT ![c] = "locked"] /\ left' = [left EXCEPT ![c] = PrePublish(e)]
        /\ ask' = ask /\ req' = req /\ out' = out /\ got' = got
        /\ ~IsRetry(e.id) /\ Accepts(ws, e) /\ \A d \in Client : pc[d] # "locked"
    BY <1>4 DEF Prepared, AppendEvent
  <2>2. ClientsOK'
    <3>1. ClientOK(ws', "locked", ask[c], req[c], out[c], got[c])
      BY <1>1 DEF ClientOK, IInv, ClientsOK
    <3>2. /\ ask' = [ask EXCEPT ![c] = ask[c]] /\ req' = [req EXCEPT ![c] = req[c]]
          /\ out' = [out EXCEPT ![c] = out[c]] /\ got' = [got EXCEPT ![c] = got[c]]
      BY <2>1 DEF IInv, ClientsOK
    <3>3. \A d \in Client : ClientOK(ws, pc[d], ask[d], req[d], out[d], got[d]) =>
                             ClientOK(ws', pc[d], ask[d], req[d], out[d], got[d])
      BY <1>1
    <3>4. ClientsOK /\ pc' = [pc EXCEPT ![c] = "locked"]
      BY <2>1 DEF IInv
    <3> QED
      BY <3>1, <3>2, <3>3, <3>4, ClientSteps
  <2>3. LockOK'
    <3>1. \A d \in Client : pc'[d] = "locked" => d = c
      BY <2>1 DEF IInv, ClientsOK
    <3>2. left'[c] = PrePublish(e) /\ left' = [d \in Client |-> left'[d]]
      BY <2>1 DEF IInv, LockOK
    <3>3. LooksOK(c)'
      BY <1>1, <2>1, <3>2 DEF LooksOK, PrePublish, SourcesOf
    <3>4. (~IsRetry(req[c].id) /\ Accepts(ws, req[c]))'
      BY <1>1, <2>1 DEF IsRetry
    <3>5. file' = file /\ since' = since
      BY <1>1 DEF files
    <3> QED
      BY <3>1, <3>2, <3>3, <3>4, <3>5 DEF IInv, LockOK
  <2> QED
    BY <1>2, <2>2, <2>3 DEF IInv
<1>5. CASE Rejected(c)
  <2>1. Refuse(c)
    BY <1>5 DEF Rejected
  <2>2. ClientsOK'
    BY <1>1, <2>1, RefuseOK DEF IInv, Grows
  <2>3. LockOK'
    BY <1>1, <2>1, GrantedSteps, LockKept DEF IInv
  <2> QED
    BY <1>2, <2>2, <2>3 DEF IInv
<1> QED
  BY <1>3, <1>4, <1>5 DEF AppendEvent

(* What is published was accepted in this lock, and nobody else is in it. *)
LEMMA WriteEventOK ==
    ASSUME IInv, NEW c \in Client, WriteEvent(c), load' = load
    PROVE  IInv' /\ Effect(ws, req[c], ws')
<1> DEFINE e == req[c]
<1>1. /\ pc[c] = "locked" /\ ws' = Apply(ws, e) /\ past' = Append(past, Logical(ws'))
      /\ Granted(c, Len(ws'.events)) \/ Refuse(c)
      /\ since' = [p \in SourcePath |-> {file[p]}] /\ file' = file
  BY DEF WriteEvent
<1>2. ~IsRetry(e.id) /\ Accepts(ws, e)
  BY <1>1 DEF IInv, LockOK
<1>3. Pending(e, ask[c]) /\ IsSeq(ws.events)
  BY <1>1 DEF IInv, ClientsOK, ClientOK, StateInv, StateOK
<1>4. StateInv' /\ History' /\ Attachments' /\ Effect(ws, e, ws')
  BY <1>1, <1>2, <1>3, PublishOK DEF IInv, Pending, Foreign
<1>5. ws'.events = Append(ws.events, e)
  BY <1>4 DEF Effect
<1>6. Len(ws'.events) \in 1..Len(ws'.events) /\ ws'.events[Len(ws'.events)] = req[c]
  BY <1>3, <1>5, AppendKeeps
<1>7. ClientsOK'
  <2>1. Grows
    BY <1>5 DEF Grows
  <2> QED
    BY <1>1, <1>3, <1>6, <2>1, GrantedOK, RefuseOK DEF IInv
<1>8. LockOK'
  <2>1. Steps(c)
    BY <1>1, GrantedSteps DEF IInv
  <2>2. \A d \in Client : pc'[d] # "locked"
    BY <1>1, <2>1 DEF IInv, LockOK, Steps
  <2> QED
    BY <1>1, <2>1, <2>2 DEF IInv, LockOK, Steps
<1> QED
  BY <1>4, <1>7, <1>8 DEF IInv

(* The sources of a checkpoint have their types. *)
LEMMA CheckpointAnchors ==
    ASSUME StateInv, NEW ck \in DOMAIN ws.checkpoints, NEW x \in DOMAIN SourcesOf(ck)
    PROVE  SourcesOf(ck)[x] \in Anchor
BY DEF StateInv, StateOK, CheckpointsSound, Sound, SourcesOf

(* A source that restore() has looked at has had its content since the     *)
(* last event.                                                             *)
LEMMA VerifySourceOK ==
    ASSUME IInv, NEW c \in Client, NEW src, VerifySource(c, src), load' = load
    PROVE  IInv'
<1> DEFINE a == SourcesOf(req[c].arg.ck)[src]
<1>1. StateInv' /\ History' /\ Attachments' /\ load' \in Workloads
  BY StateStays DEF IInv, VerifySource
<1>2. UNCHANGED <<ws, files>> /\ IsSeq(ws.events)
  BY DEF VerifySource, IInv, StateInv, StateOK
<1>3. CASE ~Intact(a)
  <2>1. Refuse(c)
    BY <1>3 DEF VerifySource
  <2>2. ClientsOK'
    BY <1>2, <2>1, RefuseOK DEF IInv, Grows
  <2>3. LockOK'
    BY <1>2, <2>1, GrantedSteps, LockKept DEF IInv
  <2> QED
    BY <1>1, <2>2, <2>3 DEF IInv
<1>4. CASE Intact(a)
  <2>1. left' = [left EXCEPT ![c] = left[c] \ {src}] /\ UNCHANGED <<pc, ask, req, out, got>>
    BY <1>4 DEF VerifySource
  <2>2. ClientsOK'
    BY <1>2, <2>1 DEF IInv, ClientsOK, ClientOK
  <2>3. /\ left' = [d \in Client |-> left'[d]] /\ left'[c] = left[c] \ {src}
        /\ \A d \in Client : d # c => left'[d] = left[d]
    BY <2>1 DEF IInv, LockOK
  <2>4. file' = file /\ since' = since
    BY <1>2 DEF files
  <2>5. ASSUME NEW d \in Client, pc'[d] = "locked"
        PROVE  (~IsRetry(req[d].id) /\ Accepts(ws, req[d]) /\ LooksOK(d))'
    <3>1. ~IsRetry(req[d].id) /\ Accepts(ws, req[d]) /\ LooksOK(d)
      BY <2>1, <2>5 DEF IInv, LockOK
    <3>2. ASSUME d = c, req[c].kind = "workspace_restored", src \in DOMAIN SourcesOf(req[c].arg.ck)
          PROVE  Seen(a)
      <4>1. req[c].arg.ck \in DOMAIN ws.checkpoints
        BY <3>1, <3>2 DEF Accepts, Require, RequireWorkspaceRestored
      <4>2. a \in Anchor
        BY <3>2, <4>1, CheckpointAnchors DEF IInv
      <4>3. a.bind # None /\ a.bind.path \in SourcePath /\ file[a.bind.path] = a.rev
        BY <1>4, <4>2 DEF Intact, Anchor, ContextSource
      <4> QED
        BY <4>3 DEF Seen, IInv, LockOK
    <3>3. LooksOK(d)'
      BY <1>2, <2>1, <2>3, <2>4, <3>1, <3>2 DEF LooksOK, SourcesOf, Seen
    <3>4. (~IsRetry(req[d].id) /\ Accepts(ws, req[d]))'
      BY <1>2, <2>1, <3>1 DEF IsRetry
    <3> QED
      BY <3>3, <3>4
  <2>6. LockOK'
    BY <2>1, <2>3, <2>4, <2>5 DEF IInv, LockOK
  <2> QED
    BY <1>1, <2>2, <2>6 DEF IInv
<1> QED
  BY <1>3, <1>4

(* The last read of restore() only ends a call. *)
LEMMA VerifyRestoredOK ==
    ASSUME IInv, NEW c \in Client, VerifyRestored(c), load' = load
    PROVE  IInv'
<1>1. /\ UNCHANGED <<ws, past, files>>
      /\ \/ End(c, ask[c], "ok", got[c])
         \/ End(c, ask[c], "WorkspaceCorruptError", 0)
  BY DEF VerifyRestored
<1>2. got[c] \in 0..Len(ws.events) /\ Matches(ws.events[got[c]], ask[c])
  BY DEF IInv, VerifyRestored, ClientsOK, ClientOK, Pending
<1>3. IsSeq(ws.events) /\ 0 \in 0..Len(ws.events)
  BY LenProperties DEF IInv, StateInv, StateOK, IsSeq
<1>4. ClientsOK'
  BY <1>1, <1>2, <1>3, EndOK DEF IInv, Grows
<1>5. LockOK'
  BY <1>1, EndSteps, LockKept DEF IInv
<1> QED
  BY <1>1, <1>4, <1>5, StateStays DEF IInv

(* A failure only ends a call, and so does bind_source. *)
LEMMA FailsOK ==
    ASSUME IInv, NEW c \in Client, UNCHANGED <<load, ws, past, files>>,
           Refuse(c) \/ End(c, NoCall, "ok", 0)
    PROVE  IInv'
<1>1. IsSeq(ws.events) /\ 0 \in 0..Len(ws.events)
  BY LenProperties DEF IInv, StateInv, StateOK, IsSeq
<1>2. ClientsOK'
  BY <1>1, EndOK DEF IInv, Grows, Refuse
<1>3. LockOK'
  BY EndSteps, LockKept DEF IInv, Refuse
<1> QED
  BY <1>2, <1>3, StateStays DEF IInv

(* An edited file still has all the contents that it has had. *)
LEMMA EditOK ==
    ASSUME IInv, NEW p, NEW rev \in Revision, Edit(p, rev), load' = load
    PROVE  IInv'
<1>1. /\ file' = [file EXCEPT ![p] = rev] /\ since' = [since EXCEPT ![p] = since[p] \union {rev}]
      /\ UNCHANGED <<ws, past, pc, left, ask, req, out, got>>
  BY DEF Edit, client
<1>2. ClientsOK'
  BY <1>1 DEF IInv, ClientsOK, ClientOK
<1>3. /\ file' \in [SourcePath -> Revision] /\ since' = [q \in SourcePath |-> since'[q]]
      /\ \A q \in SourcePath : file'[q] \in since'[q] /\ since[q] \subseteq since'[q]
  BY <1>1 DEF IInv, LockOK
<1>4. ASSUME NEW d \in Client, pc[d] = "locked"
      PROVE  (~IsRetry(req[d].id) /\ Accepts(ws, req[d]) /\ LooksOK(d))'
  <2>1. ~IsRetry(req[d].id) /\ Accepts(ws, req[d]) /\ LooksOK(d)
    BY <1>4 DEF IInv, LockOK
  <2>2. LooksOK(d)'
    BY <1>1, <1>3, <2>1 DEF LooksOK, SourcesOf, Seen
  <2> QED
    BY <1>1, <2>1, <2>2 DEF IsRetry
<1>5. LockOK'
  BY <1>1, <1>3, <1>4 DEF IInv, LockOK
<1> QED
  BY <1>1, <1>2, <1>5, StateStays DEF IInv

-----------------------------------------------------------------------------
(* The theorems.                                                           *)

(* It holds when the workspace has just been created. *)
LEMMA InitInv == ASSUME Init PROVE IInv
<1>1. /\ InitialPolicy \in Policy /\ ws = Created("workspace", InitialPolicy)
      /\ past = <<Logical(ws)>>
  BY PolicyAssumption DEF Init
<1>2. /\ StateOK(ws)
      /\ ws.policy = InitialPolicy
      /\ DOMAIN ws.sources = {} /\ DOMAIN ws.sessions = {} /\ ws.entries = {}
      /\ DOMAIN ws.checkpoints = {} /\ DOMAIN ws.pins = {}
      /\ Len(ws.events) = 1 /\ ws.events[1].kind = "workspace_created"
  BY <1>1, CreatedOK
<1>3. Good(ws, ws) /\ CheckpointsGood(ws)
  BY <1>2 DEF Good, ExternalAllowed, CheckpointsGood
<1>4. InBounds(ws, ws.policy, 0)
  <2>1. /\ InitialPolicy.maxEvents \in Nat \ {0} /\ InitialPolicy.maxEntries \in Nat
        /\ InitialPolicy.maxSources \in Nat /\ InitialPolicy.maxSessions \in Nat
    BY <1>1 DEF Policy
  <2>2. MaxPins \in Nat /\ Cardinality({}) = 0
    BY LimitsAssumption, FS_EmptySet
  <2> QED
    BY <1>2, <2>1, <2>2 DEF InBounds
<1>5. IsSeq(past) /\ Len(past) = 1 /\ past[1] = Logical(ws)
  BY <1>1 DEF IsSeq
<1>6. History
  BY <1>2, <1>5 DEF History
<1>7. ClientsOK
  BY <1>2 DEF Init, ClientsOK, ClientOK
<1>8. Attachments
  BY <1>2 DEF Attachments
<1>9. LockOK
  <2>1. load.files \in [SourcePath -> Revision]
    BY WorkloadAssumption DEF Init, Workload
  <2> QED
    BY <2>1 DEF Init, LockOK
<1> QED
  BY <1>2, <1>3, <1>4, <1>6, <1>7, <1>8, <1>9 DEF IInv, StateInv, Init

(* The first part of a call changes nothing in the workspace. *)
LEMMA StartsReads ==
    ASSUME NEW c, NEW id, Starts(c, id)
    PROVE  UNCHANGED <<ws, past, files>>
BY DEF Starts, attach_source, update_source, attach_session, start_session, commit_context,
       checkpoint, pin_package, restore, tighten_policy, complete, abort, Asks

(* It ends, or goes on to _append, outside the lock. *)
LEMMA StartsSteps ==
    ASSUME ClientsOK, LockOK, NEW c \in Client, NEW id, Starts(c, id)
    PROVE  Steps(c)
<1>1. ASSUME NEW call, Retry(c, call) \/ Refuse(c) PROVE Steps(c)
  BY <1>1, EndSteps DEF Retry, Refuse
<1>2. ASSUME NEW call, NEW payload, GoOn(c, call, payload) PROVE Steps(c)
  BY <1>2, LookSteps DEF GoOn
<1>3. ASSUME NEW src, NEW anchor, attach_source(c, id, src, anchor) \/ update_source(c, id, src, anchor)
      PROVE  Steps(c)
  BY <1>1, <1>2, <1>3 DEF attach_source, update_source
<1>4. ASSUME NEW ses, NEW src, attach_session(c, id, ses, src) \/ start_session(c, id, ses, src)
      PROVE  Steps(c)
  BY <1>1, <1>2, <1>4, EndSteps DEF attach_session, start_session
<1>5. ASSUME NEW e, commit_context(c, id, {e}, e.ses) PROVE Steps(c)
  BY <1>1, <1>2, <1>5, EndSteps DEF commit_context
<1>6. ASSUME NEW ck, checkpoint(c, id, ck) PROVE Steps(c)
  BY <1>1, <1>2, <1>6 DEF checkpoint
<1>7. ASSUME NEW package, NEW artifact, pin_package(c, id, package, artifact) PROVE Steps(c)
  BY <1>2, <1>7 DEF pin_package
<1>8. ASSUME NEW ck, restore(c, id, ck) PROVE Steps(c)
  BY <1>1, <1>8, LookSteps DEF restore
<1>9. ASSUME NEW policy, tighten_policy(c, id, policy) PROVE Steps(c)
  BY <1>1, <1>2, <1>9 DEF tighten_policy
<1>10. ASSUME complete(c, id) \/ abort(c, id) PROVE Steps(c)
  BY <1>2, <1>10 DEF complete, abort
<1> QED
  BY <1>3, <1>4, <1>5, <1>6, <1>7, <1>8, <1>9, <1>10 DEF Starts

(* Every operation that starts keeps the invariant. *)
LEMMA StartsOK ==
    ASSUME IInv, NEW c \in Client, NEW id, Starts(c, id), load' = load
    PROVE  IInv'
<1>1. UNCHANGED <<ws, past, files>>
  BY StartsReads
<1>2. Reads
  BY DEF Reads, IInv, StateInv
<1>3. ClientsOK'
  <2>a. load.anchors \subseteq Attachable
    BY WorkloadAssumption DEF IInv, Workload
  <2>1. CASE \E src \in SourceId, anchor \in load.anchors :
                 attach_source(c, id, src, anchor) \/ update_source(c, id, src, anchor)
    BY <1>2, <2>a, <2>1, attach_sourceOK, update_sourceOK
  <2>3. CASE \E ses \in SessionId, src \in SourceId :
                 attach_session(c, id, ses, src) \/ start_session(c, id, ses, src)
    BY <1>2, <2>3, attach_sessionOK
  <2>4. CASE \E e \in Entry : commit_context(c, id, {e}, e.ses)
    BY <1>2, <2>4, commit_contextOK
  <2>5. CASE \E ck \in CheckpointId : checkpoint(c, id, ck)
    BY <1>2, <2>5, checkpointOK
  <2>6. CASE \E package \in Package, artifact \in Artifact : pin_package(c, id, package, artifact)
    BY <1>2, <2>6, pin_packageOK
  <2>7. CASE \E ck \in CheckpointId : restore(c, id, ck)
    BY <1>2, <2>7, restoreOK
  <2>8. CASE \E policy \in Policies : tighten_policy(c, id, policy)
    BY <1>2, <2>8, tighten_policyOK, PolicyAssumption
  <2>9. CASE complete(c, id) \/ abort(c, id)
    BY <1>2, <2>9, endingOK
  <2> QED
    BY <2>1, <2>3, <2>4, <2>5, <2>6, <2>7, <2>8, <2>9 DEF Starts
<1>4. LockOK'
  BY <1>1, StartsSteps, LockKept DEF IInv
<1> QED
  BY <1>1, <1>3, <1>4, StateStays DEF IInv

(* Every step keeps the invariant. *)
LEMMA NextInv == ASSUME IInv, [Next]_vars PROVE IInv'
<1>1. ASSUME NEW c \in Client, NEW id, Starts(c, id), load' = load PROVE IInv'
  BY <1>1, StartsOK
<1>2. ASSUME NEW c \in Client, NEW ck \in CheckpointId, record_sealed_package(c, ck), load' = load
      PROVE  IInv'
  <2>1. UNCHANGED <<ws, past, files>>
    BY <1>2 DEF record_sealed_package, Asks
  <2>2. ClientsOK'
    BY <1>2, record_sealed_packageOK DEF Reads, IInv, StateInv
  <2>3. Steps(c)
    BY <1>2, LookSteps DEF record_sealed_package, GoOn, IInv
  <2> QED
    BY <1>2, <2>1, <2>2, <2>3, LockKept, StateStays DEF IInv
<1>3. ASSUME NEW c \in Client, NEW src, NEW source, bind_source(c, src, source), load' = load
      PROVE  IInv'
  BY <1>3, FailsOK DEF bind_source, Asks
<1>4. ASSUME NEW c \in Client, NEW src, VerifySource(c, src), load' = load PROVE IInv'
  BY <1>4, VerifySourceOK
<1>5. ASSUME NEW c \in Client, AppendEvent(c) \/ WriteEvent(c) \/ VerifyRestored(c), load' = load
      PROVE  IInv'
  BY <1>5, AppendEventOK, WriteEventOK, VerifyRestoredOK
<1>6. ASSUME NEW c \in Client, Fails(c), load' = load PROVE IInv'
  BY <1>6, FailsOK DEF Fails
<1>7. ASSUME NEW p, NEW rev \in Revision, Edit(p, rev), load' = load PROVE IInv'
  BY <1>7, EditOK
<1>8. ASSUME UNCHANGED <<load, ws, past, files, client>> PROVE IInv'
  <2>1. ClientsOK'
    BY <1>8 DEF ClientsOK, ClientOK, IInv, client
  <2>2. LockOK'
    BY <1>8 DEF IInv, LockOK, IsRetry, LooksOK, SourcesOf, Seen, client, files
  <2> QED
    BY <1>8, <2>1, <2>2, StateStays DEF IInv
<1>9. ASSUME NEW c, Reopens(c), load' = load PROVE IInv'
  BY <1>8, <1>9 DEF Reopens
<1>10. CASE UNCHANGED vars
  BY <1>8, <1>10 DEF vars
<1>11. CASE Next
  BY <1>1, <1>2, <1>3, <1>4, <1>5, <1>6, <1>7, <1>9, <1>11 DEF Next
<1> QED
  BY <1>10, <1>11

(* IInv holds in every state of every behaviour. *)
THEOREM Inductive == Spec => []IInv
<1>1. Init => IInv
  BY InitInv
<1>2. IInv /\ [Next]_vars => IInv'
  BY NextInv
<1> QED
  BY <1>1, <1>2, PTL DEF Spec

(* The projected state has its types and obeys its own policy, whatever    *)
(* order the operations are read and published in.                         *)
THEOREM Lawful == Spec => []StateLawful
<1>1. IInv => StateLawful
  <2> SUFFICES ASSUME IInv PROVE StateLawful
    OBVIOUS
  <2>1. PolicyObeyed
    BY DEF IInv, StateInv, Good, PolicyObeyed
  <2>2. [policy |-> ws.policy, lifecycle |-> ws.lifecycle] \in State
    BY DEF IInv, StateInv, StateOK, Sound, State
  <2>3. TypeOK
    BY <2>2 DEF TypeOK, IInv, StateInv, StateOK, Sound, CheckpointsSound, History, ClientsOK, ClientOK, LockOK
  <2> QED
    BY <2>1, <2>3 DEF StateLawful
<1> QED
  BY <1>1, Inductive, PTL

(* Every checkpoint is the state just before its event. *)
THEOREM Faithful == Spec => []CheckpointsFaithful
<1>1. IInv => CheckpointsFaithful
  BY DEF IInv, History, EventTrue, CheckpointsFaithful
<1> QED
  BY <1>1, Inductive, PTL

(* Every restore leads back to exactly the checkpointed state. *)
THEOREM Exact == Spec => []RestoresExact
<1>1. IInv => RestoresExact
  <2> SUFFICES ASSUME IInv, NEW i \in 1..Len(ws.events), ws.events[i].kind = "workspace_restored"
               PROVE  past[i] = ws.checkpoints[ws.events[i].arg.ck].state
    BY DEF RestoresExact
  <2>1. i # 1 /\ Len(ws.events) \in Nat
    BY LenProperties DEF IInv, History, StateInv, StateOK, IsSeq
  <2>2. EventTrue(ws, ws.events[i], past[i-1], past[i])
    BY <2>1 DEF IInv, History
  <2> QED
    BY <2>2 DEF EventTrue
<1> QED
  BY <1>1, Inductive, PTL

(* Entries have their sources and sessions, and those of sessions were     *)
(* committed after the session was attached, on a receipt that is about    *)
(* the source as it was anchored then.                                     *)
THEOREM Grounded == Spec => []CommitsGrounded
<1>1. IInv => CommitsGrounded
  <2> SUFFICES ASSUME IInv PROVE CommitsGrounded
    OBVIOUS
  <2>1. EntriesGrounded
    BY LogicalSound DEF IInv, StateInv, StateOK, Sound, Good, EntriesGrounded
  <2>2. SessionEntriesProven
    BY DEF IInv, History, EventTrue, Attachments, AttachedBy, SessionEntriesProven
  <2> QED
    BY <2>1, <2>2 DEF CommitsGrounded
<1> QED
  BY <1>1, Inductive, PTL

(* No update of a source is lost. *)
THEOREM Chained == Spec => []UpdatesChain
<1>1. IInv => UpdatesChain
  BY DEF IInv, History, EventTrue, UpdatesChain
<1> QED
  BY <1>1, Inductive, PTL

(* There is one artifact per package name. *)
THEOREM Pinned == Spec => []PinsAgree
<1>1. IInv => PinsAgree
  BY DEF IInv, StateInv, Good, PinsAgree
<1> QED
  BY <1>1, Inductive, PTL

(* A receipt is that of an event which records the caller's request, and   *)
(* no event_id occurs twice.                                               *)
THEOREM Receipted == Spec => []ReceiptsMatch
<1>1. IInv => ReceiptsMatch
  BY DEF IInv, History, ClientsOK, ClientOK, Matches, ReceiptsMatch
<1> QED
  BY <1>1, Inductive, PTL

(* A step that changes the workspace publishes the event of the client in  *)
(* the lock, whose restore has no source left to look at.                  *)
LEMMA Publishes ==
    ASSUME IInv, [Next]_vars, ws' # ws
    PROVE  \E c \in Client :
               /\ EventOK(req[c]) /\ req[c].kind \notin Foreign
               /\ Accepts(ws, req[c]) /\ LooksOK(c) /\ left[c] = {} /\ Effect(ws, req[c], ws')
<1>1. PICK c \in Client : WriteEvent(c) /\ load' = load
  <2>1. ASSUME NEW c \in Client, NEW id, Starts(c, id) PROVE FALSE
    BY <2>1, StartsReads
  <2>2. ASSUME NEW c, NEW ck, record_sealed_package(c, ck) PROVE FALSE
    BY <2>2 DEF record_sealed_package, Asks
  <2>3. ASSUME NEW c, VerifyRestored(c) \/ AppendEvent(c) \/ Fails(c) \/ Reopens(c) PROVE FALSE
    BY <2>3 DEF VerifyRestored, AppendEvent, Fails, Reopens
  <2>4. ASSUME NEW p, NEW rev, Edit(p, rev) PROVE FALSE
    BY <2>4 DEF Edit
  <2>5. ASSUME NEW c, NEW src, NEW source, bind_source(c, src, source) PROVE FALSE
    BY <2>5 DEF bind_source, Asks
  <2>6. ASSUME NEW c, NEW src, VerifySource(c, src) PROVE FALSE
    BY <2>6 DEF VerifySource
  <2>7. Next
    BY DEF vars
  <2> QED
    BY <2>1, <2>2, <2>3, <2>4, <2>5, <2>6, <2>7 DEF Next
<1>2. pc[c] = "locked" /\ left[c] = {}
  BY <1>1 DEF WriteEvent
<1>3. Pending(req[c], ask[c]) /\ Accepts(ws, req[c]) /\ LooksOK(c)
  BY <1>2 DEF IInv, ClientsOK, ClientOK, LockOK
<1>4. Effect(ws, req[c], ws')
  BY <1>1, WriteEventOK
<1> QED
  BY <1>2, <1>3, <1>4 DEF Pending, Foreign

(* No step loosens the policy, changes an event or goes on after the end. *)
THEOREM LawfulOnly == Spec => LawfulSteps
<1>1. IInv /\ [Next]_vars => [OnlyTightens /\ TerminalIsFinal]_vars
  <2> SUFFICES ASSUME IInv, [Next]_vars PROVE OnlyTightens /\ TerminalIsFinal
    OBVIOUS
  <2>a. ws.policy \in Policy /\ IsSeq(ws.events)
    BY DEF IInv, StateInv, StateOK, Sound
  <2>1. CASE ws' = ws
    <3>1. SubSeq(ws.events, 1, Len(ws.events)) = ws.events
      BY <2>a, SubSeqFull DEF IsSeq
    <3> QED
      BY <2>1, <2>a, <3>1, TightensSelf DEF OnlyTightens, TerminalIsFinal
  <2>2. CASE ws' # ws
    <3>1. PICK c \in Client :
              /\ EventOK(req[c]) /\ req[c].kind \notin Foreign
              /\ Accepts(ws, req[c]) /\ Effect(ws, req[c], ws')
      BY <2>2, Publishes
    <3>2. PICK e : e = req[c]
      OBVIOUS
    <3>3. ws.lifecycle = "active" /\ Require(ws, e) /\ Effect(ws, e, ws') /\ e.kind \in Kind \ Foreign
      BY <3>1, <3>2 DEF Accepts, EventOK
    <3>4. OnlyTightens
      BY <2>a, <3>3, PolicyTightens DEF OnlyTightens
    <3>5. SubSeq(ws'.events, 1, Len(ws.events)) = ws.events
      BY <2>a, <3>3, AppendPrefix DEF Effect
    <3> QED
      BY <3>3, <3>4, <3>5 DEF TerminalIsFinal
  <2> QED
    BY <2>1, <2>2
<1> QED
  BY <1>1, Inductive, PTL DEF Spec, LawfulSteps

(* When a restore is published, every source file has had the content of   *)
(* the checkpoint at some time since the event before it.                  *)
THEOREM FilesMatch == Spec => RestoresMatchFiles
<1>1. IInv /\ [Next]_vars =>
          [RestorePublished =>
               \A x \in DOMAIN ws'.sources :
                   /\ ws'.sources[x].bind # None
                   /\ ws'.sources[x].rev \in since[ws'.sources[x].bind.path]]_vars
  <2> SUFFICES ASSUME IInv, [Next]_vars, RestorePublished, NEW x \in DOMAIN ws'.sources
               PROVE  Seen(ws'.sources[x])
    BY DEF Seen
  <2>1. IsSeq(ws.events) /\ Len(ws.events) \in Nat /\ ws' # ws
    BY LenProperties DEF IInv, StateInv, StateOK, IsSeq, RestorePublished
  <2>2. PICK c \in Client : LooksOK(c) /\ left[c] = {} /\ Effect(ws, req[c], ws')
    BY <2>1, Publishes
  <2>3. PICK e : e = req[c]
    OBVIOUS
  <2>4. ws'.events[Len(ws'.events)] = e
    BY <2>1, <2>2, <2>3, AppendKeeps DEF Effect
  <2>5. e.kind = "workspace_restored"
    BY <2>4 DEF RestorePublished
  <2>6. ws'.sources = SourcesOf(e.arg.ck)
    BY <2>2, <2>3, <2>5 DEF Effect, HasLogical, SourcesOf
  <2> QED
    BY <2>2, <2>3, <2>5, <2>6 DEF LooksOK
<1> QED
  BY <1>1, Inductive, PTL DEF Spec, RestoresMatchFiles

=============================================================================
