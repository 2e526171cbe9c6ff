------------------------- MODULE CheckpointPackage -------------------------
(***************************************************************************)
(* Checkpoint packages (checkpoint_package.py): a checkpoint is sealed by  *)
(* the instance into a .ctxpkg file, the package is recorded in the        *)
(* journal, and a workspace of another state root is seeded from it.       *)
(*                                                                         *)
(* A seal writes the payload, runs the instance, inspects what is now at   *)
(* the destination and records that; a seed inspects, creates the          *)
(* workspace, appends the seed event and reads the state back.  Several    *)
(* clients do this at the same time on the same paths and workspaces, and  *)
(* a process may be killed between any two steps.  The instance (lean-ctx  *)
(* pack) is external: it writes a package whole or not at all, verifies    *)
(* digests and signatures when it inspects, and may fail or time out after *)
(* it has written.  The operations of a workspace that happen meanwhile    *)
(* are single steps here; module Workspace takes them apart.               *)
(***************************************************************************)
EXTENDS WorkspaceState

CONSTANTS
    Root,           \* state roots
    Home,           \* the state root whose workspaces exist at the beginning
    WorkspaceId,
    Path,           \* package paths
    Client,
    InitialPolicy,
    Workloads       \* what happens in one behaviour: see Workload

(* The operations, the workspaces at the beginning, the checkpoints, and   *)
(* whether packages are signed and how they are admitted.                  *)
Workload == [ops : SUBSET STRING, ids : SUBSET WorkspaceId, cks : SUBSET CheckpointId,
             signed : SUBSET BOOLEAN, admits : SUBSET [trusted : BOOLEAN, unsigned : BOOLEAN]]

ASSUME HomeAssumption == Home \in Root /\ InitialPolicy \in Policy /\ Workloads \subseteq Workload

(* A workspace is a directory of a state root. *)
Key == Root \X WorkspaceId

VARIABLES
    load,    \* the workload of this behaviour
    ws,      \* the workspaces that exist: key -> projected state
    file,    \* the package at each path, None where there is none
    sealed,  \* the packages the instance has written
    prov,    \* the SnapshotV1MigrationProvenance values [ck, state] callers hold
    pc,      \* where each client is
    job,     \* its call: arguments, and the package it has inspected
    out      \* what its last call returned, "none" if it raised an error

vars == <<load, ws, file, sealed, prov, pc, job, out>>

NoJob == [op |-> "none", root |-> Home, id |-> None, path |-> None, package |-> None,
          found |-> None, trusted |-> FALSE, unsigned |-> FALSE]

Init ==
    /\ load \in Workloads
    /\ ws = [k \in {Home} \X load.ids |-> Created(k[2], InitialPolicy)]
    /\ file = [p \in Path |-> None]
    /\ sealed = {}
    /\ prov = {}
    /\ pc = [c \in Client |-> "idle"]
    /\ job = [c \in Client |-> NoJob]
    /\ out = [c \in Client |-> "none"]

Exists(k) == k \in DOMAIN ws

(* The workspace that made a checkpoint; a checkpoint_id is a fresh uuid4. *)
Makes(k, ck) ==
    Exists(k) /\ \E i \in 1..Len(ws[k].events) : /\ ws[k].events[i].kind = "checkpoint_created"
                                                 /\ ws[k].events[i].arg.ck = ck
Made == {ck \in CheckpointId : \E k \in Key : Makes(k, ck)}
Origin(ck) == CHOOSE k \in Key : Makes(k, ck)

-----------------------------------------------------------------------------
(* Operations of the workspaces, and the steps of a call.                  *)

Event(kind, arg) == [id |-> NoId, kind |-> kind, arg |-> arg]

(* _append publishes the event. *)
Publishes(k, e) == Accepts(ws[k], e) /\ ws' = [ws EXCEPT ![k] = Apply(@, e)]

attach_source(k, src, anchor) ==
    /\ Exists(k)
    /\ Publishes(k, Event("source_attached", [src |-> src, anchor |-> anchor]))
    /\ UNCHANGED <<file, sealed, prov, pc, job, out>>

commit_context(k, entry) ==
    /\ Exists(k)
    /\ entry.ses = None
    /\ Publishes(k, Event("context_committed", [entries |-> {entry}, ses |-> None]))
    /\ UNCHANGED <<file, sealed, prov, pc, job, out>>

Checkpoints(k, ck) ==
    /\ Exists(k)
    /\ ck \notin Made
    /\ Publishes(k, Event("checkpoint_created",
                          [ck |-> ck, at |-> Len(ws[k].events), state |-> Logical(ws[k])]))
    /\ UNCHANGED <<file, sealed, pc, job, out>>

checkpoint(k, ck) == Checkpoints(k, ck) /\ UNCHANGED prov

(* The snapshot is inspected by the instance, then a checkpoint is made:   *)
(* the provenance names it, and nothing of the snapshot is imported.       *)
migrate_snapshot_v1(k, ck) ==
    /\ Checkpoints(k, ck)
    /\ prov' = prov \union {[ck |-> ck, state |-> Logical(ws[k])]}

Goto(c, label, j) ==
    /\ pc' = [pc EXCEPT ![c] = label]
    /\ job' = [job EXCEPT ![c] = j]
    /\ out' = [out EXCEPT ![c] = "none"]

Finish(c, result) ==
    /\ pc' = [pc EXCEPT ![c] = "idle"]
    /\ job' = [job EXCEPT ![c] = NoJob]
    /\ out' = [out EXCEPT ![c] = result]

Refuse(c) == Finish(c, "none")

KeyOf(c) == <<job[c].root, job[c].id>>

-----------------------------------------------------------------------------
(* seal_checkpoint_package                                                 *)

(* Mutant of Payload: the workspace as it is now, under the checkpoint_id. *)
PayloadNow(k, ck, migration, signed) ==
    [id |-> k[2], ck |-> ck, checkpoint |-> [at |-> Len(ws[k].events), state |-> Logical(ws[k])],
     migration |-> migration, signed |-> signed]

SealJob(k, path, package) ==
    [op |-> "seal", root |-> k[1], id |-> k[2], path |-> path, package |-> package,
     found |-> None, trusted |-> FALSE, unsigned |-> FALSE]

(* What the instance is given to seal. *)
Payload(k, ck, migration, signed) ==
    [id |-> k[2], ck |-> ck, checkpoint |-> ws[k].checkpoints[ck], migration |-> migration,
     signed |-> signed]

(* The caller's checkpoint is this workspace's and stored here as it is,   *)
(* and the provenance is about it.                                         *)
Sealable(k, ck, migration) ==
    /\ Origin(ck)[2] = k[2]
    /\ ck \in DOMAIN ws[k].checkpoints
    /\ ws[k].checkpoints[ck] = ws[Origin(ck)].checkpoints[ck]
    /\ migration # None => migration = [ck |-> ck, state |-> ws[k].checkpoints[ck].state]

seal_checkpoint_package(c, k, ck, path, migration, signed) ==
    /\ pc[c] = "idle"
    /\ Exists(k) /\ ck \in Made
    /\ IF Sealable(k, ck, migration)
       THEN Goto(c, "seal", SealJob(k, path, Payload(k, ck, migration, signed)))
       ELSE Refuse(c)
    /\ UNCHANGED <<ws, file, sealed, prov>>

(* The instance seals: it writes over the destination, or it does not, and *)
(* it may fail or run out of time in both cases.  The payload file is      *)
(* removed in every case.                                                  *)
Seal(c) ==
    /\ pc[c] = "seal"
    /\ \/ /\ file' = [file EXCEPT ![job[c].path] = job[c].package]
          /\ sealed' = sealed \union {job[c].package}
          /\ Goto(c, "inspect", job[c]) \/ Refuse(c)
       \/ Refuse(c) /\ UNCHANGED <<file, sealed>>
    /\ UNCHANGED <<ws, prov>>

(* Mutant of SealedEvent: the checkpoint that was asked for is recorded.   *)
SealedAsAsked(asked, found) ==
    Event("workspace_sealed", [ck |-> asked.ck, envelope |-> asked.checkpoint, package |-> found])

(* _record_sealed_package records what was found at the destination. *)
SealedEvent(asked, found) ==
    Event("workspace_sealed", [ck |-> found.ck, envelope |-> found.checkpoint, package |-> found])

(* The package is there, its name and digest stay unrecorded if the        *)
(* workspace does not take the event.                                      *)
Record(c) ==
    /\ pc[c] = "record"
    /\ LET e == SealedEvent(job[c].package, job[c].found)
       IN  \/ /\ job[c].found.id = job[c].id
              /\ Publishes(KeyOf(c), e)
              /\ Finish(c, "ok")
           \/ /\ job[c].found.id # job[c].id \/ ~Accepts(ws[KeyOf(c)], e)
              /\ Refuse(c)
              /\ UNCHANGED ws
    /\ UNCHANGED <<file, sealed, prov>>

-----------------------------------------------------------------------------
(* inspect, and seed_workspace_from_package                                *)

SeedJob(root, path, trusted, unsigned, id, package) ==
    [op |-> "seed", root |-> root, id |-> id, path |-> path, package |-> package,
     found |-> None, trusted |-> trusted, unsigned |-> unsigned]

seed_workspace_from_package(c, root, path, trusted, unsigned) ==
    /\ pc[c] = "idle"
    /\ Goto(c, "inspect", SeedJob(root, path, trusted, unsigned, None, None))
    /\ UNCHANGED <<ws, file, sealed, prov>>

Found(c, p) ==
    IF job[c].op = "seal" THEN Goto(c, "record", [job[c] EXCEPT !.found = p])
    ELSE IF Admitted(p, job[c].trusted, job[c].unsigned)
         THEN Goto(c, "create", SeedJob(job[c].root, job[c].path, job[c].trusted, job[c].unsigned,
                                        p.id, p))
         ELSE Refuse(c)

(* Whatever is at the path by now; there may be nothing, or the instance   *)
(* fails.                                                                  *)
Inspect(c) ==
    /\ pc[c] = "inspect"
    /\ \/ file[job[c].path] # None /\ Found(c, file[job[c].path])
       \/ Refuse(c)
    /\ UNCHANGED <<ws, file, sealed, prov>>

(* ContextWorkspace.create under the package's workspace_id and policy. *)
Create(c) ==
    /\ pc[c] = "create"
    /\ IF Exists(KeyOf(c)) THEN Refuse(c) /\ UNCHANGED ws
       ELSE /\ ws' = Put(ws, KeyOf(c), Created(job[c].id, job[c].package.checkpoint.state.policy))
            /\ Goto(c, "append", job[c])
    /\ UNCHANGED <<file, sealed, prov>>

(* _seed_from_package: the workspace is visible since it was created, and  *)
(* stays as it is when the event is refused.                               *)
SeedFrom(c) ==
    /\ pc[c] = "append"
    /\ LET e == Event("workspace_seeded", [package |-> job[c].package, trusted |-> job[c].trusted,
                                           unsigned |-> job[c].unsigned])
       IN  \/ Publishes(KeyOf(c), e) /\ Goto(c, "verify", job[c])
           \/ ~Accepts(ws[KeyOf(c)], e) /\ Refuse(c) /\ UNCHANGED ws
    /\ UNCHANGED <<file, sealed, prov>>

(* The state is read once more, without the lock. *)
VerifySeeded(c) ==
    /\ pc[c] = "verify"
    /\ Finish(c, IF Logical(ws[KeyOf(c)]) = job[c].package.checkpoint.state THEN "ok"
                 ELSE "WorkspaceCorruptError")
    /\ UNCHANGED <<ws, file, sealed, prov>>

-----------------------------------------------------------------------------

(* The process is killed; a payload file stays behind, which nothing reads. *)
Crash(c) ==
    /\ pc[c] # "idle"
    /\ Refuse(c)
    /\ UNCHANGED <<ws, file, sealed, prov>>

(* Somebody copies a package over a path. *)
Copy(path, package) ==
    /\ file[path] # package
    /\ file' = [file EXCEPT ![path] = package]
    /\ UNCHANGED <<ws, sealed, prov, pc, job, out>>

Meanwhile(k) ==
    \/ \E src \in SourceId, a \in Attachable : "attach" \in load.ops /\ attach_source(k, src, a)
    \/ \E e \in Entry : "commit" \in load.ops /\ commit_context(k, e)
    \/ \E ck \in load.cks : checkpoint(k, ck)
    \/ \E ck \in load.cks : "migrate" \in load.ops /\ migrate_snapshot_v1(k, ck)

Calls(c) ==
    \/ \E k \in Key, ck \in load.cks, path \in Path, m \in prov \union {None}, signed \in load.signed :
           seal_checkpoint_package(c, k, ck, path, m, signed)
    \/ \E root \in Root, path \in Path, a \in load.admits :
           "seed" \in load.ops /\ seed_workspace_from_package(c, root, path, a.trusted, a.unsigned)

Next ==
    /\ \/ \E k \in Key : Meanwhile(k)
       \/ \E c \in Client :
              \/ Calls(c)
              \/ Seal(c) \/ Record(c) \/ Inspect(c) \/ Create(c) \/ SeedFrom(c) \/ VerifySeeded(c)
              \/ Crash(c)
       \/ \E path \in Path, package \in sealed : "copy" \in load.ops /\ Copy(path, package)
    /\ UNCHANGED load

Spec == Init /\ [][Next]_vars

-----------------------------------------------------------------------------
(* Properties.                                                             *)

(* What a journal says of a sealed package is true, though the package is  *)
(* found at a path that others write too: the package was written, it is   *)
(* of this workspace, and it holds exactly the checkpoint that the journal *)
(* names, with the provenance of that checkpoint.                          *)
SealTruthful ==
    \A k \in Key : Exists(k) =>
        \A i \in 1..Len(ws[k].events) : ws[k].events[i].kind = "workspace_sealed" =>
            LET a == ws[k].events[i].arg
            IN  /\ a.package \in sealed
                /\ a.package.id = k[2]
                /\ a.package.ck = a.ck
                /\ a.package.checkpoint = ws[k].checkpoints[a.ck]
                /\ a.package.migration # None =>
                       a.package.migration = [ck |-> a.ck, state |-> ws[k].checkpoints[a.ck].state]

(* A seeded workspace begins with exactly what the workspace that made the *)
(* checkpoint recorded for it, however often the package was sealed,       *)
(* overwritten and seeded on the way; and a seed call that goes on to its  *)
(* last read has seeded the workspace itself.                              *)
SeedFaithful ==
    /\ \A k \in Key : Exists(k) =>
           \A i \in 1..Len(ws[k].events) : ws[k].events[i].kind = "workspace_seeded" =>
               LET p == ws[k].events[i].arg.package
               IN  /\ p.checkpoint = ws[Origin(p.ck)].checkpoints[p.ck]
                   /\ ws[k].checkpoints[p.ck] = p.checkpoint
                   /\ Len(ws[k].events) = i => Logical(ws[k]) = p.checkpoint.state
    /\ \A c \in Client : pc[c] = "verify" =>
           ws[KeyOf(c)].events[2] = Event("workspace_seeded",
               [package |-> job[c].package, trusted |-> job[c].trusted, unsigned |-> job[c].unsigned])

(* A seed call does not call a healthy journal corrupt. *)
SeedNeverCorrupt == \A c \in Client : out[c] # "WorkspaceCorruptError"

=============================================================================
