----------------------------- MODULE Workspace -----------------------------
(***************************************************************************)
(* The operations of ContextWorkspace (workspace.py), called concurrently  *)
(* by several clients on one workspace.                                    *)
(*                                                                         *)
(* Every operation has the same shape.  It reads the state without a lock, *)
(* answers a retry of an event_id that already has a receipt, checks its   *)
(* conditions on what it read and builds a payload from it (Starts).  Then *)
(* _append takes the lock, projects the journal again, answers a retry and *)
(* applies the event if the conditions of its kind hold now (AppendEvent), *)
(* and publishes it, still in the lock (WriteEvent); that the publication  *)
(* is one step is what WorkspaceJournal shows of its system calls.         *)
(* restore() looks at the source files one by one before _append and once  *)
(* more in the lock (VerifySource), and at the end reads once more,        *)
(* unlocked (VerifyRestored).  The consecutive reads of one start are one  *)
(* snapshot.                                                               *)
(***************************************************************************)
EXTENDS WorkspaceState

CONSTANTS
    Client,         \* threads and processes that use the workspace
    InitialPolicy,  \* the policy create() was given
    Policies,       \* the policies tighten_policy is called with
    Workloads       \* what happens in one behaviour: see Workload

(* The kinds of operations, the event_ids that clients choose themselves,  *)
(* the anchors they attach, the sources they bind portable anchors to, the *)
(* content of the source files at first and the files that are edited.     *)
Workload == [kinds : SUBSET STRING, ids : SUBSET EventId, anchors : SUBSET Attachable,
             binds : SUBSET ContextSource, files : [SourcePath -> Revision],
             edits : SUBSET SourcePath]

ASSUME PolicyAssumption == InitialPolicy \in Policy /\ Policies \subseteq Policy
ASSUME WorkloadAssumption == Workloads \subseteq Workload

VARIABLES
    load,     \* the workload of this behaviour
    ws,       \* the projected state of the journal
    past,     \* the logical state after each event
    file,     \* the content of each source file
    since,    \* the contents each file has had since the last event was published
    rebound,  \* _runtime_source_bindings of each client's ContextWorkspace
    pc,       \* where each client is: "idle", "append", "locked" or "verify"
    left,     \* the sources that its restore() has still to look at
    ask,      \* what each client asked for: [id, kind, arg]
    req,      \* the event it built from the state it read
    out,      \* how its last call ended
    got       \* the event its receipt is for, 0 for none

files == <<file, since>>
client == <<pc, left, ask, req, out, got>>
vars == <<load, ws, past, files, rebound, client>>

NoCall == [id |-> NoId, kind |-> "none", arg |-> None]

Init ==
    /\ load \in Workloads
    /\ ws = Created("workspace", InitialPolicy)
    /\ past = <<Logical(ws)>>
    /\ file = load.files
    /\ since = [p \in SourcePath |-> {file[p]}]
    /\ rebound = [c \in Client |-> Empty]
    /\ pc = [c \in Client |-> "idle"]
    /\ left = [c \in Client |-> {}]
    /\ ask = [c \in Client |-> NoCall]
    /\ req = [c \in Client |-> NoCall]
    /\ out = [c \in Client |-> "none"]
    /\ got = [c \in Client |-> 0]

-----------------------------------------------------------------------------
(* The first, unlocked part of a call.                                     *)

(* The call ends; a caller with a receipt knows what it asked for. *)
End(c, call, result, receipt) ==
    /\ pc' = [pc EXCEPT ![c] = "idle"]
    /\ left' = [left EXCEPT ![c] = {}]
    /\ out' = [out EXCEPT ![c] = result]
    /\ got' = [got EXCEPT ![c] = receipt]
    /\ ask' = [ask EXCEPT ![c] = IF receipt = 0 THEN NoCall ELSE call]
    /\ req' = [req EXCEPT ![c] = NoCall]

Refuse(c) == End(c, NoCall, "refused", 0)

(* The call goes on to _append with this payload, after restore() has      *)
(* looked at these sources.                                                *)
LookAndGoOn(c, call, payload, sources) ==
    /\ pc' = [pc EXCEPT ![c] = "append"]
    /\ left' = [left EXCEPT ![c] = sources]
    /\ ask' = [ask EXCEPT ![c] = call]
    /\ req' = [req EXCEPT ![c] = [call EXCEPT !.arg = payload]]
    /\ out' = [out EXCEPT ![c] = "none"]
    /\ got' = [got EXCEPT ![c] = 0]

GoOn(c, call, payload) == LookAndGoOn(c, call, payload, {})

(* c is free to call an operation of this kind. *)
Asks(c, kind) ==
    /\ kind \in load.kinds
    /\ pc[c] = "idle"
    /\ UNCHANGED <<ws, past, files>>

IsRetry(id) == Receipt(ws, id) # 0

(* The event with this event_id records this call. *)
Recorded(call) ==
    LET e == ws.events[Receipt(ws, call.id)]
    IN  e.kind = call.kind /\ \A f \in DOMAIN call.arg : e.arg[f] = call.arg[f]

(* A retry: the receipt of the same call, a conflict for another one. *)
Retry(c, call) ==
    IF Recorded(call) THEN End(c, call, "ok", Receipt(ws, call.id)) ELSE Refuse(c)

attach_source(c, id, src, anchor) ==
    LET call == [id |-> id, kind |-> "source_attached", arg |-> [src |-> src, anchor |-> anchor]]
    IN  /\ Asks(c, call.kind)
        /\ IF IsRetry(id) THEN Retry(c, call)
           ELSE IF ws.lifecycle = "active" /\ RequireSourceAttached(ws, call.arg)
           THEN GoOn(c, call, call.arg)
           ELSE Refuse(c)

update_source(c, id, src, anchor) ==
    LET call == [id |-> id, kind |-> "source_updated", arg |-> [src |-> src, anchor |-> anchor]]
    IN  /\ Asks(c, call.kind)
        /\ IF IsRetry(id) THEN Retry(c, call)
           ELSE IF /\ ws.lifecycle = "active"
                   /\ src \in DOMAIN ws.sources
                   /\ anchor.ext => ws.policy.external
           THEN GoOn(c, call, [src |-> src, anchor |-> anchor, prev |-> ws.sources[src]])
           ELSE Refuse(c)

(* _bind_portable_anchor accepts the file: it has the path and the content *)
(* of the anchor.                                                          *)
Rebinds(anchor, source) ==
    /\ ~anchor.ext
    /\ anchor.canon = source.path
    /\ file[source.path] = anchor.rev

(* bind_source: the binding stays with the client's ContextWorkspace. *)
bind_source(c, src, source) ==
    /\ Asks(c, "source_bound")
    /\ IF src \in DOMAIN ws.sources /\ Rebinds(ws.sources[src], source)
       THEN /\ rebound' = [rebound EXCEPT ![c] =
                               Put(@, src, [ws.sources[src] EXCEPT !.bind = source])]
            /\ End(c, NoCall, "ok", 0)
       ELSE Refuse(c) /\ UNCHANGED rebound

(* The anchor a session of c would use: that of the journal, or, when it   *)
(* is portable, the one that c has bound, as it was at that time.          *)
Effective(c, src) ==
    IF ws.sources[src].bind = None /\ src \in DOMAIN rebound[c]
    THEN rebound[c][src] ELSE ws.sources[src]

(* The source is attached and bound to the file that the plan read. *)
PlanBound(c, src, ses) ==
    /\ src \in DOMAIN ws.sources
    /\ Effective(c, src).bind = Plan[ses]

(* attach_session compares a portable source with the binding, and with    *)
(* the file, once more.                                                    *)
PortableCurrent(c, src, ses) ==
    ws.sources[src].bind = None =>
        /\ [Effective(c, src) EXCEPT !.bind = None] = ws.sources[src]
        /\ Rebinds(ws.sources[src], Plan[ses])

AttachCall(id, ses, src) ==
    [id |-> id, kind |-> "session_attached", arg |-> [ses |-> ses, src |-> src]]

(* A session that is attached already, for the same source, is returned as *)
(* it is, but not under a new event_id.                                    *)
attach_session(c, id, ses, src) ==
    LET call == AttachCall(id, ses, src)
        attached == {i \in 1..Len(ws.events) : /\ ws.events[i].kind = "session_attached"
                                               /\ ws.events[i].arg.ses = ses}
    IN  /\ Asks(c, call.kind)
        /\ IF \/ ws.lifecycle # "active"
              \/ ~PlanBound(c, src, ses)
              \/ ~PortableCurrent(c, src, ses) THEN Refuse(c)
           ELSE IF IsRetry(id) THEN Retry(c, call)
           ELSE IF attached = {} THEN GoOn(c, call, call.arg)
           ELSE IF id = NoId /\ ws.sessions[ses] = src
           THEN End(c, call, "ok", CHOOSE i \in attached : TRUE)
           ELSE Refuse(c)

(* A new session is planned and prepared on the source before it is        *)
(* attached; neither lifecycle nor event_id is looked at until _append.    *)
start_session(c, id, ses, src) ==
    LET call == AttachCall(id, ses, src)
    IN  /\ Asks(c, call.kind)
        /\ IF PlanBound(c, src, ses) THEN GoOn(c, call, call.arg) ELSE Refuse(c)

(* The checks of commit_context that come before its retry read. *)
CommitChecks(c, entries, ses) ==
    /\ ws.lifecycle = "active"
    /\ ses # None => /\ ses \in DOMAIN ws.sessions
                     /\ PlanBound(c, ws.sessions[ses], ses)
                     /\ \A e \in entries : e.src = ws.sessions[ses]
    /\ \A e \in entries : /\ e.src # None => e.src \in DOMAIN ws.sources
                          /\ e.cat \in ws.policy.cats

(* state.sources[source_id] for a source of the session that is gone. *)
SourceMissing(ses) ==
    /\ ws.lifecycle = "active"
    /\ ses \in DOMAIN ws.sessions
    /\ ws.sessions[ses] \notin DOMAIN ws.sources

(* The entries of a session commit get its source and session. *)
commit_context(c, id, entries, ses) ==
    LET call == [id |-> id, kind |-> "context_committed",
                 arg |-> [entries |-> entries, ses |-> ses]]
    IN  /\ Asks(c, call.kind)
        /\ \A e \in entries : e.ses = ses
        /\ IF SourceMissing(ses) THEN End(c, call, "KeyError", 0)
           ELSE IF ~CommitChecks(c, entries, ses) THEN Refuse(c)
           ELSE IF IsRetry(id) THEN Retry(c, call)
           ELSE IF /\ \A e \in entries : \A f \in ws.entries : e.id # f.id
                   /\ Cardinality(ws.entries \union entries) <= ws.policy.maxEntries
           THEN GoOn(c, call, call.arg)
           ELSE Refuse(c)

checkpoint(c, id, ck) ==
    /\ Asks(c, "checkpoint_created")
    /\ IF ws.lifecycle = "active"
       THEN GoOn(c, [id |-> id, kind |-> "checkpoint_created", arg |-> [ck |-> ck]],
                 [ck |-> ck, at |-> Len(ws.events), state |-> Logical(ws)])
       ELSE Refuse(c)

pin_package(c, id, package, artifact) ==
    /\ Asks(c, "package_pinned")
    /\ GoOn(c, [id |-> id, kind |-> "package_pinned",
                arg |-> [package |-> package, artifact |-> artifact]],
            [package |-> package, artifact |-> artifact, prev |-> ws.pins])

(* The sources that a restore of this checkpoint is about. *)
SourcesOf(ck) == ws.checkpoints[ck].state.sources

(* One round of _verify_checkpoint_sources: the source is a local file     *)
(* that has the content of its revision.                                   *)
Intact(anchor) == anchor.bind # None /\ file[anchor.bind.path] = anchor.rev

restore(c, id, ck) ==
    /\ Asks(c, "workspace_restored")
    /\ IF ck \in DOMAIN ws.checkpoints
       THEN LookAndGoOn(c, [id |-> id, kind |-> "workspace_restored", arg |-> [ck |-> ck]],
                        [ck |-> ck], DOMAIN SourcesOf(ck))
       ELSE Refuse(c)

(* restore() looks at one source after another, before _append and, in     *)
(* pre_publish, in the lock; files may change at any time.                 *)
VerifySource(c, src) ==
    /\ src \in left[c]
    /\ IF Intact(SourcesOf(req[c].arg.ck)[src])
       THEN left' = [left EXCEPT ![c] = @ \ {src}] /\ UNCHANGED <<pc, ask, req, out, got>>
       ELSE Refuse(c)
    /\ UNCHANGED <<ws, past, files, rebound>>

(* The sealed package of a checkpoint is recorded. *)
record_sealed_package(c, ck) ==
    /\ Asks(c, "workspace_sealed")
    /\ ck \in DOMAIN ws.checkpoints
    /\ GoOn(c, [id |-> NoId, kind |-> "workspace_sealed", arg |-> [ck |-> ck]],
            [ck |-> ck, envelope |-> ws.checkpoints[ck]])

tighten_policy(c, id, policy) ==
    LET call == [id |-> id, kind |-> "policy_tightened", arg |-> [policy |-> policy]]
        payload == [policy |-> policy, prev |-> ws.policy]
    IN  /\ Asks(c, call.kind)
        /\ IF IsRetry(id) THEN Retry(c, call)
           ELSE IF ws.lifecycle = "active" /\ RequirePolicyTightened(ws, payload)
           THEN GoOn(c, call, payload)
           ELSE Refuse(c)

complete(c, id) ==
    /\ Asks(c, "workspace_completed")
    /\ GoOn(c, [id |-> id, kind |-> "workspace_completed", arg |-> Empty], Empty)

abort(c, id) ==
    /\ Asks(c, "workspace_aborted")
    /\ GoOn(c, [id |-> id, kind |-> "workspace_aborted", arg |-> Empty], Empty)

-----------------------------------------------------------------------------
(* _append under the lock, and what follows it.                            *)

(* The receipt is there: restore() goes on to its last read. *)
Granted(c, receipt) ==
    IF req[c].kind = "workspace_restored"
    THEN /\ pc' = [pc EXCEPT ![c] = "verify"]
         /\ got' = [got EXCEPT ![c] = receipt]
         /\ UNCHANGED <<left, ask, req, out>>
    ELSE End(c, ask[c], "ok", receipt)

(* Mutant of Replayed: the payload of the event is not compared. *)
ReplayedBlindly(c) ==
    /\ IsRetry(req[c].id)
    /\ Granted(c, Receipt(ws, req[c].id))

Replayed(c) ==
    /\ IsRetry(req[c].id)
    /\ IF ws.events[Receipt(ws, req[c].id)] = req[c]
       THEN Granted(c, Receipt(ws, req[c].id))
       ELSE Refuse(c)

(* Mutant of PrePublish: the sources are not looked at again. *)
PrePublishSkipped(e) == {}

(* pre_publish: the sources that restore() has to look at again. *)
PrePublish(e) == IF e.kind = "workspace_restored" THEN DOMAIN SourcesOf(e.arg.ck) ELSE {}

(* The event applies to the state that is projected in the lock. *)
Prepared(c) ==
    /\ ~IsRetry(req[c].id)
    /\ Accepts(ws, req[c])
    /\ pc' = [pc EXCEPT ![c] = "locked"]
    /\ left' = [left EXCEPT ![c] = PrePublish(req[c])]
    /\ UNCHANGED <<ask, req, out, got>>

Rejected(c) ==
    /\ ~IsRetry(req[c].id)
    /\ ~Accepts(ws, req[c])
    /\ Refuse(c)

(* _append up to pre_publish, once the lock is free. *)
AppendEvent(c) ==
    /\ pc[c] = "append"
    /\ left[c] = {}
    /\ \A d \in Client : pc[d] # "locked"
    /\ Replayed(c) \/ Prepared(c) \/ Rejected(c)
    /\ UNCHANGED <<ws, past, files, rebound>>

(* _write_event publishes the event.  When it fails after link(), or the   *)
(* process is killed there, the caller gets no receipt and may retry.      *)
WriteEvent(c) ==
    /\ pc[c] = "locked"
    /\ left[c] = {}
    /\ ws' = Apply(ws, req[c])
    /\ past' = Append(past, Logical(ws'))
    /\ since' = [p \in SourcePath |-> {file[p]}]
    /\ Granted(c, Len(ws'.events)) \/ Refuse(c)
    /\ UNCHANGED <<file, rebound>>

(* The last read of restore(): the logical digest must be the checkpoint's. *)
VerifyRestored(c) ==
    /\ pc[c] = "verify"
    /\ IF Logical(ws) = ws.checkpoints[req[c].arg.ck].state
       THEN End(c, ask[c], "ok", got[c])
       ELSE End(c, ask[c], "WorkspaceCorruptError", 0)
    /\ UNCHANGED <<ws, past, files, rebound>>

(* The call ends with an error at some point after its first read: the     *)
(* lock is not granted in time, a read or write fails, or the process is   *)
(* killed.  The lock is free again.                                        *)
Fails(c) ==
    /\ pc[c] # "idle"
    /\ Refuse(c)
    /\ UNCHANGED <<ws, past, files, rebound>>

(* The client opens the workspace anew: its bindings are gone. *)
Reopens(c) ==
    /\ pc[c] = "idle"
    /\ rebound[c] # Empty
    /\ rebound' = [rebound EXCEPT ![c] = Empty]
    /\ UNCHANGED <<ws, past, files, client>>

(* Somebody edits a source file. *)
Edit(p, rev) ==
    /\ file[p] # rev
    /\ file' = [file EXCEPT ![p] = rev]
    /\ since' = [since EXCEPT ![p] = @ \union {rev}]
    /\ UNCHANGED <<ws, past, rebound, client>>

Starts(c, id) ==
    \/ \E src \in SourceId, anchor \in load.anchors :
           attach_source(c, id, src, anchor) \/ update_source(c, id, src, anchor)
    \/ \E ses \in SessionId, src \in SourceId :
           attach_session(c, id, ses, src) \/ start_session(c, id, ses, src)
    \/ \E e \in Entry : commit_context(c, id, {e}, e.ses)
    \/ \E ck \in CheckpointId : checkpoint(c, id, ck)
    \/ \E package \in Package, artifact \in Artifact : pin_package(c, id, package, artifact)
    \/ \E ck \in CheckpointId : restore(c, id, ck)
    \/ \E policy \in Policies : tighten_policy(c, id, policy)
    \/ complete(c, id)
    \/ abort(c, id)

Next ==
    /\ \/ /\ \/ \E c \in Client, id \in load.ids \union {NoId} : Starts(c, id)
             \/ \E c \in Client, ck \in CheckpointId : record_sealed_package(c, ck)
          /\ UNCHANGED rebound
       \/ \E c \in Client, src \in SourceId, source \in load.binds : bind_source(c, src, source)
       \/ \E c \in Client, src \in SourceId : VerifySource(c, src)
       \/ \E c \in Client : \/ AppendEvent(c) \/ WriteEvent(c) \/ VerifyRestored(c)
                            \/ Fails(c) \/ Reopens(c)
       \/ \E p \in load.edits, rev \in Revision : Edit(p, rev)
    /\ UNCHANGED load

Spec == Init /\ [][Next]_vars

-----------------------------------------------------------------------------
(* Properties.                                                             *)

State == [policy : Policy, lifecycle : {"active", "completed", "aborted"}]

(* The type of the state and of the clients' control. *)
TypeOK ==
    /\ [policy |-> ws.policy, lifecycle |-> ws.lifecycle] \in State
    /\ DOMAIN ws.sources \subseteq SourceId
    /\ \A x \in DOMAIN ws.sources : ws.sources[x] \in Anchor
    /\ DOMAIN ws.sessions \subseteq SessionId
    /\ ws.entries \subseteq Entry
    /\ DOMAIN ws.checkpoints \subseteq CheckpointId
    /\ DOMAIN ws.pins \subseteq Package
    /\ Len(past) = Len(ws.events)
    /\ file \in [SourcePath -> Revision]
    /\ pc \in [Client -> {"idle", "append", "locked", "verify"}]
    /\ out \in [Client -> {"none", "ok", "refused", "KeyError", "WorkspaceCorruptError"}]
    /\ \A c \in Client : got[c] \in 0..Len(ws.events)

(* The state obeys its own policy, whatever order attachments, commits,    *)
(* tightenings and restores were read and published in.                    *)
PolicyObeyed ==
    /\ InBounds(ws, ws.policy, 0)
    /\ \A e \in ws.entries : e.cat \in ws.policy.cats
    /\ ExternalAllowed(ws.sources, ws.policy)

(* The state is well formed and obeys its policy. *)
StateLawful == TypeOK /\ PolicyObeyed

(* Every entry is backed: its source is attached and its session known,    *)
(* and no entry_id is used twice.                                          *)
EntriesGrounded ==
    /\ Consistent(Logical(ws))
    /\ \A e \in ws.entries : e.ses # None => e.ses \in DOMAIN ws.sessions

(* A checkpoint is the state of the workspace at the event just before it, *)
(* never that of an older read: what another client published meanwhile is *)
(* either in the checkpoint or after it.                                   *)
CheckpointsFaithful ==
    \A i \in 2..Len(ws.events) : ws.events[i].kind = "checkpoint_created" =>
        /\ ws.events[i].arg.at = i - 1
        /\ ws.events[i].arg.state = past[i-1]
        /\ ws.checkpoints[ws.events[i].arg.ck].state = past[i-1]

(* A restore leads back to exactly the checkpointed state. *)
RestoresExact ==
    \A i \in 1..Len(ws.events) : ws.events[i].kind = "workspace_restored" =>
        past[i] = ws.checkpoints[ws.events[i].arg.ck].state

(* A restore is published. *)
RestorePublished ==
    /\ Len(ws'.events) > Len(ws.events)
    /\ ws'.events[Len(ws'.events)].kind = "workspace_restored"

(* A restore is published only when every source file has had the content  *)
(* that the checkpoint recorded while the journal was as the restore found *)
(* it: what was seen before another client's event does not count.         *)
RestoresMatchFiles ==
    [][RestorePublished =>
           \A x \in DOMAIN ws'.sources :
               /\ ws'.sources[x].bind # None
               /\ ws'.sources[x].rev \in since[ws'.sources[x].bind.path]]_vars

(* The files have that content when the restore is published: not so, a    *)
(* file may be edited between pre_publish and link().                      *)
RestoresMatchAtPublication ==
    [][RestorePublished =>
           \A x \in DOMAIN ws'.sources : file[ws'.sources[x].bind.path] = ws'.sources[x].rev]_vars

(* No update is lost: what a source_updated event replaced is what its     *)
(* caller had read.                                                        *)
UpdatesChain ==
    \A i \in 2..Len(ws.events) : ws.events[i].kind = "source_updated" =>
        past[i-1].sources[ws.events[i].arg.src] = ws.events[i].arg.prev

(* An entry of a session was committed after the session had been attached *)
(* for its source, and on an anchor of that source that was, at that       *)
(* event, bound to just what the session read, or portable with its path.  *)
SessionEntriesProven ==
    \A i \in 2..Len(ws.events) : ws.events[i].kind = "context_committed" =>
        \A e \in ws.events[i].arg.entries : e.ses # None =>
            /\ ProvedBy(past[i-1].sources[e.src], Plan[e.ses])
            /\ \E j \in 2..(i-1) : /\ ws.events[j].kind = "session_attached"
                                   /\ ws.events[j].arg.ses = e.ses
                                   /\ ws.events[j].arg.src = e.src

(* What is in the context is grounded: in sources and sessions that are    *)
(* there, and in receipts about the sources as they were anchored then.    *)
CommitsGrounded == EntriesGrounded /\ SessionEntriesProven

(* The anchor had, at that event, the revision that the session's plan     *)
(* stated: not so, only bindings and the paths of portable sources are     *)
(* compared, and an update may change the revision and leave those.        *)
SessionEntriesCurrent ==
    \A i \in 2..Len(ws.events) : ws.events[i].kind = "context_committed" =>
        \A e \in ws.events[i].arg.entries : e.ses # None /\ Plan[e.ses].digest # None =>
            past[i-1].sources[e.src].rev = Plan[e.ses].digest

(* One artifact per package name. *)
PinsAgree ==
    \A p, q \in DOMAIN ws.pins : p.name = q.name => ws.pins[p] = ws.pins[q]

(* A call that returns a receipt got the one of an event that records its  *)
(* request, under its event_id if it chose one; no event_id occurs twice.  *)
ReceiptsMatch ==
    /\ \A i, j \in 1..Len(ws.events) :
           ws.events[i].id = ws.events[j].id /\ ws.events[i].id # NoId => i = j
    /\ \A c \in Client : pc[c] = "idle" /\ got[c] # 0 =>
           LET e == ws.events[got[c]]
           IN  /\ e.kind = ask[c].kind
               /\ \A f \in DOMAIN ask[c].arg : e.arg[f] = ask[c].arg[f]
               /\ ask[c].id # NoId => e.id = ask[c].id

(* The policy only tightens, restores included. *)
OnlyTightens == Tightens(ws'.policy, ws.policy)

(* Completed and aborted are final, and events are only appended. *)
TerminalIsFinal ==
    /\ ws.lifecycle # "active" => ws' = ws
    /\ SubSeq(ws'.events, 1, Len(ws.events)) = ws.events

(* No operation, in whatever order it was read and published, loosens the  *)
(* policy, changes what is past or goes on after the end.                  *)
LawfulSteps == [][OnlyTightens /\ TerminalIsFinal]_vars

(* restore() reports success or refuses; it does not call a healthy        *)
(* journal corrupt.                                                        *)
RestoreNeverCorrupt == \A c \in Client : out[c] # "WorkspaceCorruptError"

(* Every error of an operation is one of the SDK's own. *)
OnlyWorkspaceErrors == \A c \in Client : out[c] # "KeyError"

=============================================================================
