# LeanCTX SDK: a TLA+ model of the Python package

The modules here model the parts of `src/src/leanctx_sdk/` in which order,
failure or concurrency decides whether the SDK is right: the journal of a
workspace, the operations on it, the forks and handoffs between workspaces and
the reports on them, checkpoint packages, sessions and their binding, the
processes behind a session and an `AgentContext`, and the Enterprise transport
and client. `PROJECT.json` maps every definition to the lines it models and lists the runs, the mutants,
the hazards and the theorems.

## Inventory

| Part | State | Operations | What is hard | What makes it correct |
| --- | --- | --- | --- | --- |
| Workspace journal (`workspace.py` 2990-3673, 4050-4129) | a directory of event files, hard-linked temporary files, a flock | `_append`, `_write_event`, `_project`, `_read_state` | writers of several processes, unlocked readers, kills, I/O errors, power loss | one unforked history; nothing acknowledged is lost or rewritten |
| Workspace state (`workspace.py` 520-2985) | policy, lifecycle, sources, sessions, entries, checkpoints, pins, applied handoffs: the fold of the events | `_apply_event` per event kind | every event is judged again on replay, by rules the caller's check must agree with | the state obeys its policy, entries have their sources |
| Workspace operations (`workspace.py` 3675-5264) | the state a caller read before the lock | `attach_source`, `update_source`, `attach_session`, `start_session`, `commit_context`, `checkpoint`, `pin_package`, `restore`, `tighten_policy`, `complete`, `abort`, `_record_sealed_package` | everything read before `_append` may be stale in it; retries by `event_id`; source files that change | a stale read never gets into the history; a receipt is for the caller's request |
| Session binding (`workspace.py` 4223-4403) | the process-wide table session -> workspace, the sessions of each object | `attach_session`, `start_session`, `commit_context` | look-up and update in two critical sections, undo after a failure, restart | a binding stands for an attachment, a session belongs to one workspace |
| Forks and handoffs (`workspace.py` 3793-3941, 4683-4954, `parallel_context.py`) | lineage, handoff documents, runtime bindings | `fork`, `create_handoff`, `admit_handoff`, `apply_handoff`, `bind_source` | the parent, the sender and the receiver go on between the read and the publication | children begin with their checkpoint, handoffs are applied once, policies only get stricter |
| AgentContext (`agent.py`) | the Engine process, two locks, the reader's queue, watchdog timers, metrics | `_exchange`, `close`, `cancel`, `_terminate` | callers, timers and the reader run at once; the Engine hangs, exits, answers late; cleanup fails | calls end, answers belong to their request, signals only reach the own process group, success means reaped |
| Deltas and reconciliation (`parallel_context.py` 728-1370, 1975-2173) | none: functions of stored checkpoints | `context_delta`, `narrow_reconciliation` | forks that changed the same keys, entries restored away and committed again | a delta is exact; a reconciliation loses and forgets no change |
| Checkpoint packages (`checkpoint_package.py`, `workspace.py` 5063-5125) | package files, the workspaces of two state roots | `seal_checkpoint_package`, `inspect`, `seed_workspace_from_package`, `migrate_snapshot_v1` | several clients on one path, an instance that fails after writing, kills between create and seed | the journal tells the truth about packages; a seeded workspace begins with the origin's checkpoint |
| ContextSession (`session.py`, `receipt.py`) | state, plan, view, receipt | `plan_intent`, `prepare`, `complete`, `abort`, `recover`, `close` | threads, readers without the lock, failures of the instance in the middle of `prepare`, fail-open | one receipt per session that says what happened |
| Instance client (`instance.py`) | one process, its pipes and its request file per call | `context_plan`, `context_view`, `recover`, `_run`, `_kill_and_reap` | output limits and deadlines against a process that hangs, forks or cannot be reaped | a call ends, and leaves no process, group or file behind |
| Enterprise client (`enterprise_instance.py`) | one connection and one deadline timer per call; plans, grants and receipts the program holds | `context_plan`, `context_materialize(_v2)`, `presented_use`, `presenter_revoke`, `context_execute(_v2)`, `provider_execute`, `context_outcome`, `context_read` | the timer against the caller's own cleanup, a peer that stalls, a host that changes between calls | no request goes out on a second connection; what is accepted is bound to what was asked |
| Records (`planning.py`, `source_execution.py`, `provider_execution.py`, `presenter.py`) | none | parse, validate | one answer must fit several earlier ones | the joins hold |
| Other records (`protocol.py`, `gateway.py`, `context_store.py`, `errors.py`) | none | parse, validate | - | - |

The workspace operations call the journal; a session is planned and prepared
with an instance client before a workspace attaches it; forks and handoffs read
the journals of several workspaces; deltas and reconciliations compare what
`checkpoint` recorded, and checkpoint packages carry it to another state root. A
`ContextSession` runs one process of the instance client per call. The
Enterprise client and `AgentContext` stand by themselves.

## Modules

| Module | Models | Composed of |
| --- | --- | --- |
| `JournalEvents` | events, and when one may follow a history | |
| `EventLog` | abstract: a log that grows by admissible events and may lose what no durable receipt names | `JournalEvents` |
| `WorkspaceJournal` | `_append`, `_write_event`, `_project` on the file system | `JournalEvents`; implements `EventLog` |
| `WorkspaceJournalProof` | theorems about `WorkspaceJournal` | |
| `WorkspaceState` | `_apply_event`: one `Require...` operator per event kind, `Accepts`, `Apply` | |
| `WorkspaceStateProof` | lemmas about `WorkspaceState`, used by the proofs of the modules built on it | |
| `Workspace` | the public operations: an unlocked read, then `_append` | `WorkspaceState` |
| `WorkspaceProof` | theorems about `Workspace` | `WorkspaceStateProof` |
| `WorkspaceFamily` | several workspaces, forks and handoffs | `WorkspaceState` |
| `ParallelReports` | `context_delta`, `narrow_reconciliation` as operators, over every state of the family | `WorkspaceFamily` |
| `WorkspaceFamilyProof` | theorems about `WorkspaceFamily` and `ParallelReports` | `WorkspaceStateProof` |
| `CheckpointPackage` | sealing and seeding, step by step | `WorkspaceState` |
| `CheckpointPackageProof` | theorems about `CheckpointPackage` | `WorkspaceStateProof` |
| `SessionBinding` | `_SESSION_BINDINGS` and the sessions of each object | |
| `AgentContext` | `_exchange`, the watchdog, the reader, the cleanup | |
| `AgentContextProof` | theorems about `AgentContext` | |
| `InstanceRecords` | what `instance.py` and `protocol.py` accept of an answer | |
| `InstanceProcess` | `_invoke_bytes`, `_run`, `_kill_and_reap`: one process per call | `InstanceRecords` |
| `ContextSession` | the session over that process | `InstanceProcess` |
| `SessionProof` | theorems about `ContextSession` and `InstanceProcess`, and about `SessionBinding` | |
| `EnterpriseRecords` | what the Enterprise client accepts of an answer | |
| `EnterpriseTransport` | `_post_json`, `_read_response`, the deadline timer | |
| `EnterpriseInstance` | the calls of the client, over the transport and a host | `EnterpriseRecords`, `EnterpriseTransport` |
| `EnterpriseInstanceProof` | theorems about `EnterpriseInstance` | |
| `MC...` | constants for TLC | |

### WorkspaceJournal

A final file is named by the history it ends, so that the sequence number, the
event and its `previous_digest` are one value; digests are injective by
assumption. `dir` is the directory as processes see it, `disk` the set of
directory states that may come back after a power loss, `synced` and `torn` the
inodes whose content is on disk or incomplete. A writer goes through `Acquire`,
`Project`, `CreateTemp`, `SyncTemp`, `Link`, `Unlink`, `SyncDir`, `Return`, one
step per system call of `_append` and `_write_event`; `IOError` is the failure
of any of these with the cleanup in `finally`, `Kill` the end of a process,
`PowerLoss` that of the machine. A reader lists the directory and then looks at
one file at a time (`ReadList`, `ReadStep`), as `_read_state` does without the
lock. `Applicable` stands for the rules of the single event kinds, which are the
subject of `WorkspaceState`.

### WorkspaceState, Workspace

The state is a record with the fields of `_WorkspaceState`; contents are
revisions, digests are the values they are digests of. A source is external or a
file; a file has an `engine_binding`, the `ContextSource` it is bound to, or is
portable (`None`).

An operation begins with everything the code does before `_append`: the read of
the state, the checks, the retry by `event_id`. `AppendEvent` is `_append` in the
lock up to `pre_publish`: its own projection, its retry and its checks.
`WriteEvent` is `_write_event`, still in the lock: the publication, whose caller
may learn nothing of it when a system call fails after `link`. Other clients
read, and files change, between the two. `VerifySource` is one round of
`_verify_checkpoint_sources`, which `restore` runs before `_append` and again as
`pre_publish`, one source after another; `VerifyRestored` is its last read, which
compares digests. `Fails` ends a call with an error anywhere after its first read:
a lock timeout, an I/O error, a kill. `Edit` is somebody who changes a source
file.

`bind_source` puts a portable anchor, bound to a file it has checked, into
`rebound`, the `_runtime_source_bindings` of one client's `ContextWorkspace`;
`Reopens` loses them with the object. `Effective` is the anchor a session of that
client goes by; `attach_session` compares it with the journal and the file once
more (`PortableCurrent`), `start_session` and `commit_context` do not. On replay
only `ProvedBy` counts: the anchor is bound to the source of the receipt, or it is
a portable file with the path of that source, whatever its revision.

`since` is a history variable: the contents each file has had since the last
event was published. `load` is the workload of a behaviour, chosen once: which
kinds of events the clients ask for, the event_ids they choose, the anchors they
attach, the sources they bind, and the files with their content and whether they
are edited. It keeps independent mixtures of operations from multiplying each
other.

### WorkspaceFamily

The operations on one workspace are single steps here, since `Workspace` has
their races. `fork` reads a checkpoint, `PublishFork` renames the child's
directory; `apply_handoff` admits, `AppendHandoff` appends.

### ParallelReports

The reports are functions of immutable checkpoints, so the module adds operators
and no state: its properties quantify over every pair and triple of checkpoints
of the reachable families. The category of an entry stands for its category and
value, its source and session for its provenance.

### CheckpointPackage

A workspace is a pair of a state root and a `workspace_id`; a seeded workspace
has the id of its origin. `seal_checkpoint_package`, `Seal`, `Inspect` and
`Record` are one call, `seed_workspace_from_package`, `Inspect`, `Create`,
`SeedFrom` and `VerifySeeded` the other; `Crash` ends a call anywhere. The
instance is external: it writes a package whole or not at all, and may fail in
both cases. The other operations of a workspace are single steps.

### InstanceProcess, ContextSession

Each thread has at most one instance process: `Begin` writes the request file,
`Popen` starts it, then the selector loop (`WriteInput`, `EndOfOutput`,
`Drained`, `OutputBound`, `Deadline`, `Fault`), the kills and reaps in the order
of the code, `Finally`, `Unlink`, and the outcome. The process is external: it
forks, closes its output, exits or does nothing. A group may be signalled as long
as `MaySignal`, the check of `returncode`, says that its leader is not reaped; a
signal after the reap is recorded in `signalled`. `ContextSession` calls it from
`plan_intent`, `prepare` and `recover`, under the session's lock; `Finish` and
`Seal` are the two writes that an unlocked reader can see apart.

### EnterpriseTransport, EnterpriseInstance

`Connect`, `Arm`, `Send`, `GetResponse`, `ReadChunk`, `Cancel`, `Join` are
`_post_json` and `_read_response`; `Fire` and `Interrupt` the timer, which runs
at any moment after its time; `Trickle` and `PeerGone` the peer. The host
changes its sources and its governance between calls (`Change`, `Govern`) and
answers rightly, late or wrongly (`Answer`); a wrong answer has one field
spoiled, since each check of the records is about one. The digest of a plan is
the plan without its digest, which is what `parse_source_plan` hashes; `Cap` is
what has the shape of a presenter capability. A key that an answer of
`presented_use` lacks is `Absent`, a null is `None`: `parse_presented_use` asks
which keys are there, and compares their values only where they are not null.

### SessionBinding

`CheckBinding`, `BindNew`, `AppendSession`, `RegisterSession` and `Unbind` are
the critical sections of `attach_session`; a failing append may have published.

### AgentContext

The state is that of a context after its constructor. A thread in an exchange
goes through `Enter`, `Check`, `Write`, `Written`, `Receive`; the errors of each
go through `CrashMessage`, `ReadStderr` or straight to `_terminate`. `Own`,
`Kill`, `Reap` and `Release` are `_terminate` and `_terminate_once`, by a thread
or by a watchdog. `proc` separates an exited process from a reaped one, because
the process group is addressed by the pid and the pid is the context's own only
until the reap. The Engine may close its stdout and run on (`OutputEnds`), which ends the
context like an exit. Deadlines may pass at any time; a write may block for ever.

## Runs

Passing runs:

| Run | Bounds | Shows |
| --- | --- | --- |
| `journal` | 2 writers or a writer and a reader, 3 events, 3 event_ids, 1 fault at any step | the history stays projectable and unforked (`JournalHealthy`), a writer's base is current up to `os.link` (`WriterIsCurrent`), receipts of written events survive (`WrittenReceiptsLast`), what a reader delivers has every write acknowledged before the read (`ReadsAreFresh`), `AppendOnly`, `ImplementsEventLog`, `CallsReturn` |
| `workspace_sources` | 2 clients, 1 source, 2 paths, 2 revisions, bound, portable and external anchors, 1 file that is edited, 1 session, 1 entry, 1 checkpoint, 5 events | `CheckpointsFaithful`, `RestoresExact`, `RestoresMatchFiles`, `CommitsGrounded`, `UpdatesChain` |
| `workspace_policy` | 2 clients, 2 sources, 2 categories, 2 packages, 2 artifacts, 4 policies, 1 chosen event_id, 4 events | `StateLawful` (types and policy), `LawfulSteps` (only tightening, final ends, append-only), `ReceiptsMatch`, `PinsAgree` |
| `session_binding` | 2 threads, 2 workspaces, restarts | `BindingsBacked`, `CommitsAreAttached` |
| `family` | a root and 2 forks, 2 clients, 1 handoff, 1 source, 4 or 5 events each | `ForksFaithful`, `PolicyFloors`, `HandoffOnce`, `FamilyConsistent`, `HandoffGrounded` |
| `reconciliation` | a root and 2 forks, or 3 checkpoints of one workspace; 2 revisions, 2 artifacts, 1 entry_id in 2 categories with and without source, 1 handoff | `DeltaExact`, `ReconciliationSound` |
| `packages` | 2 state roots, 2 clients, 1 path, 1 or 2 workspaces, 2 checkpoints, 4 events each | `SealTruthful`, `SeedFaithful` |
| `agent_processes` | 2 threads, 2 operations, every answer of the Engine, cleanup may fail | `CleanupConfirmed`, `SignalsOwnGroup`, `AnswersMatch` |
| `agent_liveness` | 2 threads, 2 operations, an Engine that answers or hangs | `CallsReturn` |
| `sessions` | 2 threads on one session, every behaviour of the process, 1 fault | `ProcessContained`, `SessionHonest`, `ReceiptFixed`, `FailOpenLeavesNothing`, `CallsEnd` |
| `enterprise` | one program, 2 sources, 2 revisions, 1 chunk that may come in parts, one call over a peer that misbehaves, one wrong field per answer | `ConnectionGuarded`, `ResultsBound`, `PresenterExact`, `CallsEnd` |

Two clients suffice for the races of a check with a publication: each is one
read that is overtaken by one event. Three workspaces are needed for a fork of a
fork and for a handoff between siblings. Two operations of an `AgentContext`
suffice for a late answer to reach the next request and for two cleanups to
meet. `EventLimit` is one more than the longest history that a hazard needs.
One path suffices for packages to overwrite each other, and three checkpoints of
one workspace for an entry to be removed and come back different. In the
`journal` run the cast of a behaviour is chosen once: two writers, or one writer
and one reader. `CHECK_DEADLOCK FALSE` in the runs of families, packages,
sessions and the Enterprise client: when every history is full, or every call of
the workload is made, nothing is left to do. That no caller waits for ever is
`CallsEnd` of the last two.

In one run a claim of the documentation fails: `agent_timeout`, that after
`InstanceTimeout` the process does not run. `PROJECT.json` has the finding.

More claims are stated in the modules and do not hold; they have no run of their
own, and the comment at each (for most, a hazard too) says what happens:

- `WorkspaceJournal`: `ReadsNeverFalselyCorrupt`, `ReceiptsLast`;
- `Workspace`: `RestoreNeverCorrupt`, `OnlyWorkspaceErrors`,
  `RestoresMatchAtPublication`, `SessionEntriesCurrent`;
- `SessionBinding`: `SessionNotCrossBound`;
- `WorkspaceFamily`: `ForkNeverRelaxes`, `FamilyObeysPolicy`, `ReceiptMeansImported`;
- `ParallelReports`: `EveryChangeReported`;
- `CheckpointPackage`: `SeedNeverCorrupt`;
- `EnterpriseInstance`: `DeadlineReported`, `ExpansionsNamed`;
- `AgentContext`: `OnlySDKErrors`, `MetricsExact`.

Any of them can be added to a configuration as an INVARIANT or PROPERTY to see
the behaviour.

The code has further exposures about which nothing is promised, so no property
speaks of them:

- a handoff can be admitted by its portable anchors and then be refused by the
  full ones (`workspace.py:2583`); a workspace at `max_events` cannot be completed
  or aborted (`workspace.py:2901`); both fail closed;
- `pin_package`, `checkpoint` and the requests to a host carry no key by which a
  retry could be told from a new request (`workspace.py:4665`,
  `enterprise_instance.py:1013`);
- an injected client may return something that is not a view (`session.py:200`),
  and a provider's answer names no revision of the sources
  (`provider_execution.py:247`);
- two tasks that enter an `AsyncAgentContext` at the same time may both start an
  Engine (`agent.py:1268`), and the cancellation of an asynchronous call needs a
  free worker of the executor its call occupies (`agent.py:1299`).

## Fairness

`WorkspaceJournal`: weak fairness of every step of a live process and of the
lock timeout; none for faults, calls or kills. Processes are scheduled, and
`_workspace_lock` polls until its deadline. `AgentContext`: weak fairness of
threads, of the cleanup, of the reader and of due timers, because Python threads
are scheduled and deadlines are real time. The Engine need not answer, read or
exit, and a write need not complete; `CleanupMayFail` is FALSE in the liveness
run, since a process that survives SIGKILL keeps its pipe open and the blocked
writer with it. `ContextSession`: weak fairness of the steps of a thread in a
call, the deadline among them; none for the instance process, and the operating
system is assumed to deliver SIGKILL. `EnterpriseInstance`: weak fairness of the
caller's steps, of the timer once it is due and of time itself; none for the
peer. Connecting is left out of `CallsEnd`, as the module docstring of
`enterprise_instance.py` leaves out name resolution.

## Proofs

A theorem speaks of every value of the constants: any clients, threads, names,
limits and workloads, histories of any length. In each proof module one
inductive invariant carries the results; there is one lemma per action, or per
group of actions that change the same things. The assumptions are the named `ASSUME`s of the modules, which TLC evaluates in the
runs: limits are numbers, the constants that stand for absence (`None`, `NoId`,
`NoProc`) are no members of the sets they are absent from, the plan of a session
is about a `ContextSource`, and the workloads ask for what the operations take. Two hypotheses hold by definition: a policy of
`WorkspaceState` has positive limits, as `WorkspacePolicy` demands, and digests
are injective, because they are the values themselves.

| Property | Theorem | Module |
| --- | --- | --- |
| `JournalHealthy`, `WriterIsCurrent`, `WrittenReceiptsLast`, `AppendOnly` | `Healthy`, `Current`, `Durable`, `NeverRewritten` | `WorkspaceJournalProof` |
| `ReadsAreFresh`, `ImplementsEventLog` | `Fresh`, `Refinement` | `WorkspaceJournalProof` |
| `StateLawful`, `LawfulSteps`, `PinsAgree`, `ReceiptsMatch` | `Lawful`, `LawfulOnly`, `Pinned`, `Receipted` | `WorkspaceProof` |
| `CheckpointsFaithful`, `RestoresExact`, `RestoresMatchFiles` | `Faithful`, `Exact`, `FilesMatch` | `WorkspaceProof` |
| `CommitsGrounded`, `UpdatesChain` | `Grounded`, `Chained` | `WorkspaceProof` |
| `ForksFaithful`, `PolicyFloors`, `HandoffOnce`, `FamilyConsistent`, `HandoffGrounded` | `ForkFaithful`, `FloorsHold`, `AppliedOnce`, `Consistency`, `Grounding` | `WorkspaceFamilyProof` |
| `DeltaExact`, `ReconciliationSound` | `ExactDeltas`, `SoundReconciliation` | `WorkspaceFamilyProof` |
| `SealTruthful`, `SeedFaithful` | `TruthfulSeals`, `FaithfulSeeds` | `CheckpointPackageProof` |
| `BindingsBacked`, `CommitsAreAttached` | `AlwaysBacked`, `CommitsAttached` | `SessionProof` |
| `CleanupConfirmed`, `SignalsOwnGroup`, `AnswersMatch` | `Confirmed`, `OwnGroupOnly`, `Matched` | `AgentContextProof` |
| `ProcessContained`, `SessionHonest`, `ReceiptFixed`, `FailOpenLeavesNothing` | `Containment`, `Honesty`, `FixedReceipt`, `FailOpenClean` | `SessionProof` |
| `ConnectionGuarded`, `ResultsBound`, `PresenterExact` | `Guarded`, `BoundResults`, `ExactPresenter` | `EnterpriseInstanceProof` |

**Journal.** `JournalHealthy` by itself is not inductive: a power loss may bring
back any state in `disk`, and a publication is only sound if the writer's base is
still the newest history. `IInv` therefore says that every state in `disk` is
well formed (`DirsOK`), that content reached the disk before a final name did
(`ContentOK`), that exactly the lock holder is in the locked part (`LockOK`),
what a writer has at each of its steps (`WriterOK`), and that a written receipt
is in every state that may come back (`ReceiptsOK`). Two more invariants rest on
it. `ReadersOK`: a reader's listing holds the receipts of the moment it was made
and stays a part of the directory, because published names stay (`DirSteps`).
`LogOK`: no state that may come back has a name the directory lacks, one of them
is contained in all others, and of two names the shorter is a beginning of the
longer; with it the mapping to `EventLog` (the newest history, and the length of
the least state in `disk`) takes `Link` to the publication of an event, the
directory fsync to a flush, a power loss to the loss of an unflushed tail, and
every other step to a stutter.

**State.** `WorkspaceStateProof` has no theorem about a behaviour. It says field
by field what each event kind leaves of a state (`Effect`), that an accepted
event keeps a state well typed and consistent (`StateOK`) and that it keeps
history, checkpoints and applied handoffs and only tightens the policy
(`Later`).

**Operations.** The hard part of `Workspace` is what was read before the lock.
`IInv` says of each client that the event it is about to append records its own
call (`ClientsOK`), and nothing of the read it was built from: whatever
correctness needs is checked again by `Accepts`, and the proof goes through only
because it is. Restores make the checkpoints part of the invariant
(`CheckpointsGood`): what a restore may bring back must be as good as the state
is. `History` relates every event to the states before and after it,
`Attachments` every session to the event that attached it.

Two theorems say what the code achieves, which is less than one might expect.
`Grounded`: an entry of a session comes after the attachment of the session for
its source, on an anchor bound to just what the plan read, or portable with its
path. It follows from the replay alone, so that a stale binding of a client does
no harm; but no revision is compared, so a portable source, or a bound one whose
revision was updated, may have changed since the plan (`SessionEntriesCurrent`
fails). `FilesMatch`: each file of a restored checkpoint has had its recorded
content since the event before the restore. The proof needs that a client in the
lock is alone there (`LockOK`), so that `since` still covers what its
`pre_publish` saw when it publishes. That the files have that content at the
publication is not so (`RestoresMatchAtPublication`).

**Family and reports.** A fork and a handoff are built from a checkpoint read some
time ago. `FInv` says that what a request or a document names is still there and
unchanged, which follows from `Later`, and that policies have stayed above the
floors they began with. The reports are functions of two or three checkpoints:
for them the lemmas about `Keyed`, differences and conflicts are proved for all
well-formed checkpoints, and `FInv` says that every stored one is well formed.

**Packages.** `CInv` says that a `checkpoint_id` is made by one workspace only, that
every package ever written holds that checkpoint as it was made (`Good`), and
what a call knows at each of its steps (`JobOK`). A package found at a path is
then true whoever has put it there, which is why `Record` may inspect a file
that another client overwrote.

**Session binding.** `BindingsBacked` is not inductive: the thread that backs a
binding might be attaching the session to another workspace, and its append would
leave the binding unbacked. `Backed` therefore says that it attaches to the
workspace the binding names; `StepsRecorded` and `RuntimeRecorded` say that what
is rebound or registered is in the journal.

**AgentContext.** Only the owner of `_terminate_lock` is between its first signal and
the end of the cleanup, and the process is not reaped before its last signal
(`CleanupOwned`); a cleanup that reports no failure has reaped it
(`CleanupDone`). `Counted` bounds request numbers and metrics by the operations
started, which the type invariant needs.

**ContextSession.** `SInv` has two halves. `ProcessOK` says, place by place of a
call, what is left of its process and which error is on its way; it speaks of one
thread at a time. `SessionOK` says who holds the lock and what the holder may
rely on after its call: that the receipt is made before the state is set
(`SealOK`), that a view belongs to the plan and to a prepared or ended session
(`ViewOwned`), and that a session without a view says why (`Explained`).

**Enterprise client.** The client keeps nothing between calls; what ties one
answer to another is what the program passes on. `EInv` says when the deadline
timer runs and that a connection is never a second one (`TimerOK`), what a
request on its way has in common with what the program knows (`Asks`), and what
the program knows with the plans it was given (`KnownOK`); `HostOK` only types
the host. Nothing is assumed of an answer: `Spoil` is any operator, and what
holds of a result was checked when the answer was read. The central lemma is
`DigestDetermines`: two plans that `parse_source_plan` accepts under one binding
digest are the same plan, so an answer with the digest of the program's plan is
about that plan, whatever has changed at the host. `ExactPresenter` is just what
`PresenterExact` names: the held capability has its shape, the texts that come
with a new one (renewals excepted) or from an expansion do not hold it, and a
usable answer is about the sources and revision asked for; an expansion may name
no copy at all (`ExpansionsNamed` fails). `DeclaredAssumption` says that
a declared plan is an object in which a missing reference is `None`.

Only model-checked: the liveness properties `CallsReturn` (of the journal and of
`AgentContext`) and `CallsEnd` (of the session and of the Enterprise client),
since fairness and ENABLED are beyond the prover. Every safety invariant and
every action property of the passing runs is a theorem.

## Not modelled

The shape of single fields of records, `gateway.py` and `context_store.py`
(stateless validation of one answer), the contents of events, tool results and
packages, the sensitive-data scan, `project_context`, trust levels of sources,
sources without a revision, the project root, media type and `source_ref` of a
`ContextSource`, sessions attached for several sources,
Windows process trees, `AsyncAgentContext`, the handshake of the `AgentContext`
constructor, and the ports to other languages. `PROJECT.json`
has the reason for each part.

## Plan

1. `AsyncAgentContext` on top of `AgentContext`.
2. `project_context` as a pure operator against a reference definition.
