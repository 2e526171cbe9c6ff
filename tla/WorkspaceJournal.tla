-------------------------- MODULE WorkspaceJournal --------------------------
(***************************************************************************)
(* The on-disk event journal of a ContextWorkspace (workspace.py): how     *)
(* _append publishes one event under the workspace's flock, how _project   *)
(* replays the events directory, and what a killed process, a failing      *)
(* system call or a power loss leaves behind.                              *)
(*                                                                         *)
(* Abstractions.  The final name of an event file is the history it ends   *)
(* (see JournalEvents).  A temporary file has its inode's number for a     *)
(* name: uuid4 names are fresh.                                            *)
(***************************************************************************)
EXTENDS JournalEvents, FiniteSets

CONSTANTS
    Writer,     \* the processes (or threads) that call _append
    Reader,     \* the ones that call _read_state; one may do both
    NoProc,     \* nobody: the flock is free
    MaxFaults   \* bound: kills, I/O errors and power losses of a behaviour

Proc == Writer \union Reader

ASSUME ProcAssumption == NoProc \notin Proc
ASSUME FaultsAssumption == MaxFaults \in Nat

VARIABLES
    dir,     \* the events directory: its final names and its temporary names
    disk,    \* the directory states that a power loss may leave behind
    synced,  \* inodes whose content was fsynced
    torn,    \* inodes whose content a power loss destroyed
    made,    \* inodes allocated so far
    lock,    \* who holds the flock on the workspace directory
    pc,      \* where each process is
    call,    \* the event each process asked _append for
    base,    \* the history each process projected under the lock
    tmp,     \* the inode of each process's temporary file, 0 for none
    seen,    \* what each unlocked reader has collected
    out,     \* how each process's last call ended
    acked,   \* the receipts handed to callers, with the path that made them
    faults   \* faults so far

vars == <<dir, disk, synced, torn, made, lock, pc, call, base, tmp, seen, out,
          acked, faults>>

-----------------------------------------------------------------------------
(* The events directory.                                                   *)

Inode == Nat
File == [name : Chain, ino : Inode]
Names(d) == {f.name : f \in d.final}

(* st_nlink of an inode. *)
Links(d, i) == Cardinality({f \in d.final : f.ino = i}) + (IF i \in d.temps THEN 1 ELSE 0)

(* The names of the final files that are hard links to a temporary one. *)
Twins(d) == {f.ino : f \in {g \in d.final : Links(d, g.ino) = 2}}

(* The replay loop of _project: names in sequence order, each with the     *)
(* expected sequence number and the digest of the event before it.         *)
Replayable(N) ==
    /\ N # {}
    /\ \A c \in N : \/ c = <<Created>>
                    \/ \E b \in N : c = Append(b, LastEvent(c)) /\ Admissible(b, LastEvent(c))
    /\ \A c, d \in N : Len(c) = Len(d) => c = d

(* _project on a directory nobody is changing: intact contents, a replay   *)
(* that succeeds, and hard links only between a final and one temporary.   *)
Projectable(d) ==
    /\ \A f \in d.final : f.ino \notin torn /\ Links(d, f.ino) \in {1, 2}
    /\ Replayable(Names(d))
    /\ Twins(d) = {i \in d.temps : Links(d, i) = 2}

(* The history that the replay of these names ends with. *)
Log(N) == CHOOSE c \in N : \A d \in N : Len(d) <= Len(c)

NoView == [names |-> {}, temps |-> {}, twins |-> {}, acked |-> {}]

Init ==
    /\ dir = [final |-> {[name |-> <<Created>>, ino |-> 1]}, temps |-> {}]
    /\ disk = {dir}
    /\ synced = {1}
    /\ torn = {}
    /\ made = 1
    /\ lock = NoProc
    /\ pc = [p \in Proc |-> "idle"]
    /\ call = [p \in Proc |-> Created]
    /\ base = [p \in Proc |-> <<Created>>]
    /\ tmp = [p \in Proc |-> 0]
    /\ seen = [p \in Proc |-> NoView]
    /\ out = [p \in Proc |-> "none"]
    /\ acked = {}
    /\ faults = 0

-----------------------------------------------------------------------------
(* _append, under the workspace lock.                                      *)

Goto(p, from, to) == pc[p] = from /\ pc' = [pc EXCEPT ![p] = to]

(* A directory operation: the new state is visible at once, and on disk at *)
(* some later time unless the directory is fsynced.                        *)
SetDir(d) == dir' = d /\ disk' = disk \union {d}

(* The call ends inside the lock: `with _workspace_lock` releases it. *)
Finish(p, result) ==
    /\ pc' = [pc EXCEPT ![p] = "idle"]
    /\ out' = [out EXCEPT ![p] = result]
    /\ call' = [call EXCEPT ![p] = Created]
    /\ base' = [base EXCEPT ![p] = <<Created>>]
    /\ tmp' = [tmp EXCEPT ![p] = 0]
    /\ lock' = NoProc

Call(p, e) ==
    /\ Goto(p, "idle", "acquire")
    /\ call' = [call EXCEPT ![p] = e]
    /\ out' = [out EXCEPT ![p] = "none"]
    /\ UNCHANGED <<dir, disk, synced, torn, made, lock, base, tmp, seen, acked, faults>>

(* Mutant of Acquire: the flock does not exclude (another inode is locked). *)
AcquireShared(p) ==
    /\ Goto(p, "acquire", "project")
    /\ lock' = p
    /\ UNCHANGED <<dir, disk, synced, torn, made, call, base, tmp, seen, out, acked, faults>>

Acquire(p) ==
    /\ lock = NoProc
    /\ Goto(p, "acquire", "project")
    /\ lock' = p
    /\ UNCHANGED <<dir, disk, synced, torn, made, call, base, tmp, seen, out, acked, faults>>

(* Mutant of LockTimeout: a blocking flock without a deadline. *)
LockForever(p) == FALSE /\ Goto(p, "acquire", "idle") /\ UNCHANGED vars

(* The deadline of _directory_lock passes while somebody else holds it. *)
LockTimeout(p) ==
    /\ lock # NoProc
    /\ Goto(p, "acquire", "idle")
    /\ out' = [out EXCEPT ![p] = "lock"]
    /\ call' = [call EXCEPT ![p] = Created]
    /\ UNCHANGED <<dir, disk, synced, torn, made, lock, base, tmp, seen, acked, faults>>

(* The event_id already has a receipt: the same request gets that receipt  *)
(* back, any other one is a conflict.  Nothing is written or fsynced.      *)
Replay(p, log) ==
    LET i == CHOOSE j \in 1..Len(log) : log[j].id = call[p].id
    IN  /\ call[p].id \in Ids(log)
        /\ Finish(p, IF log[i] = call[p] THEN "ok" ELSE "conflict")
        /\ acked' = IF log[i] = call[p]
                    THEN acked \union {[name |-> SubSeq(log, 1, i), path |-> "replayed"]}
                    ELSE acked

(* A new event_id: lifecycle, then the event limit, then a trial apply.    *)
Refuse(p, log) ==
    /\ call[p].id \notin Ids(log)
    /\ ~Admissible(log, call[p])
    /\ Finish(p, IF ~Active(log) THEN "lifecycle"
                 ELSE IF Len(log) + 1 > MaxEvents THEN "policy" ELSE "conflict")
    /\ UNCHANGED acked

(* Mutant of Accept: the lifecycle is not looked at again under the lock. *)
AcceptAfterEnd(p, log) ==
    /\ call[p].id \notin Ids(log)
    /\ Len(log) + 1 <= MaxEvents
    /\ Applicable(log, call[p])
    /\ pc' = [pc EXCEPT ![p] = "create"]
    /\ base' = [base EXCEPT ![p] = log]
    /\ UNCHANGED <<lock, call, tmp, out, acked>>

(* Mutant of Accept: the receipt is handed out before the event is written. *)
AcceptAcksEarly(p, log) ==
    /\ Admissible(log, call[p])
    /\ pc' = [pc EXCEPT ![p] = "create"]
    /\ base' = [base EXCEPT ![p] = log]
    /\ acked' = acked \union {[name |-> Append(log, call[p]), path |-> "written"]}
    /\ UNCHANGED <<lock, call, tmp, out>>

Accept(p, log) ==
    /\ Admissible(log, call[p])
    /\ pc' = [pc EXCEPT ![p] = "create"]
    /\ base' = [base EXCEPT ![p] = log]
    /\ UNCHANGED <<lock, call, tmp, out, acked>>

Project(p) ==
    /\ pc[p] = "project"
    /\ IF Projectable(dir)
       THEN \E log \in {Log(Names(dir))} :
               Replay(p, log) \/ Refuse(p, log) \/ Accept(p, log)
       ELSE Finish(p, "corrupt") /\ UNCHANGED acked
    /\ UNCHANGED <<dir, disk, synced, torn, made, seen, faults>>

(* The name under which p publishes: the history it projected and its event. *)
Target(p) == Append(base[p], call[p])

(* _write_event: the final name must be absent; then a fresh temporary name. *)
CreateTemp(p) ==
    /\ pc[p] = "create"
    /\ IF Target(p) \in Names(dir)
       THEN /\ Finish(p, "conflict")
            /\ UNCHANGED <<dir, disk, made>>
       ELSE /\ pc' = [pc EXCEPT ![p] = "sync"]
            /\ made' = made + 1
            /\ tmp' = [tmp EXCEPT ![p] = made + 1]
            /\ SetDir([dir EXCEPT !.temps = @ \union {made + 1}])
            /\ UNCHANGED <<lock, call, base, out>>
    /\ UNCHANGED <<synced, torn, seen, acked, faults>>

(* The content is written and fsynced before it gets its final name. *)
SyncTemp(p) ==
    /\ Goto(p, "sync", "link")
    /\ synced' = synced \union {tmp[p]}
    /\ UNCHANGED <<dir, disk, torn, made, lock, call, base, tmp, seen, out, acked, faults>>

(* os.link: atomic, and refused when the name exists. *)
Link(p) ==
    /\ pc[p] = "link"
    /\ IF Target(p) \in Names(dir)
       THEN /\ Finish(p, "conflict")
            /\ SetDir([dir EXCEPT !.temps = @ \ {tmp[p]}])
       ELSE /\ pc' = [pc EXCEPT ![p] = "unlink"]
            /\ SetDir([dir EXCEPT !.final = @ \union {[name |-> Target(p), ino |-> tmp[p]]}])
            /\ UNCHANGED <<lock, call, base, tmp, out>>
    /\ UNCHANGED <<synced, torn, made, seen, acked, faults>>

Unlink(p) ==
    /\ Goto(p, "unlink", "syncdir")
    /\ SetDir([dir EXCEPT !.temps = @ \ {tmp[p]}])
    /\ UNCHANGED <<synced, torn, made, lock, call, base, tmp, seen, out, acked, faults>>

(* Mutant of SyncDir: the directory is not fsynced. *)
SyncDirSkipped(p) ==
    /\ pc[p] = "syncdir"
    /\ IF Links(dir, tmp[p]) = 1
       THEN pc' = [pc EXCEPT ![p] = "return"] /\ UNCHANGED <<lock, call, base, tmp, out>>
       ELSE Finish(p, "io")
    /\ UNCHANGED <<dir, disk, synced, torn, made, seen, acked, faults>>

(* os.fsync of the directory, then the stat of the published file. *)
SyncDir(p) ==
    /\ pc[p] = "syncdir"
    /\ disk' = {dir}
    /\ IF Links(dir, tmp[p]) = 1
       THEN pc' = [pc EXCEPT ![p] = "return"] /\ UNCHANGED <<lock, call, base, tmp, out>>
       ELSE Finish(p, "io")
    /\ UNCHANGED <<dir, synced, torn, made, seen, acked, faults>>

(* The receipt reaches the caller. *)
Return(p) ==
    /\ pc[p] = "return"
    /\ Finish(p, "ok")
    /\ acked' = acked \union {[name |-> Target(p), path |-> "written"]}
    /\ UNCHANGED <<dir, disk, synced, torn, made, seen, faults>>

-----------------------------------------------------------------------------
(* _read_state: the same projection without the lock (status(), open() and *)
(* the reads that precede or follow an append).  Published files never     *)
(* change, so what the interleaving can disturb is the listing and the     *)
(* stat calls: each pass over the listed names is one step.                *)

ReadVars == <<dir, disk, synced, torn, made, lock, call, base, tmp, acked, faults>>

EndRead(p, result) ==
    /\ pc' = [pc EXCEPT ![p] = "idle"]
    /\ out' = [out EXCEPT ![p] = result]
    /\ seen' = [seen EXCEPT ![p] = NoView]

(* os.listdir of the events directory. *)
ReadList(p) ==
    /\ Goto(p, "idle", "read_listed")
    /\ out' = [out EXCEPT ![p] = "none"]
    /\ seen' = [seen EXCEPT ![p] = [names |-> Names(dir), temps |-> dir.temps, twins |-> {},
                                    acked |-> {a.name : a \in {b \in acked : b.path = "written"}}]]
    /\ UNCHANGED ReadVars

(* The stat of each listed temporary file: a vanished one is an I/O error. *)
ReadStat(p) ==
    /\ pc[p] = "read_listed"
    /\ IF seen[p].temps \subseteq dir.temps
       THEN pc' = [pc EXCEPT ![p] = "read_replay"] /\ UNCHANGED <<out, seen>>
       ELSE EndRead(p, "read_io")
    /\ UNCHANGED ReadVars

(* The listed events are replayed; a stat of each collects the twins. *)
ReadReplay(p) ==
    /\ pc[p] = "read_replay"
    /\ LET read == {f \in dir.final : f.name \in seen[p].names}
       IN  IF /\ Replayable(seen[p].names)
              /\ \A f \in read : f.ino \notin torn /\ Links(dir, f.ino) \in {1, 2}
           THEN /\ pc' = [pc EXCEPT ![p] = "read_temps"]
                /\ seen' = [seen EXCEPT ![p].twins = {f.ino : f \in read} \intersect Twins(dir)]
                /\ UNCHANGED out
           ELSE EndRead(p, "read_corrupt")
    /\ UNCHANGED ReadVars

(* Each listed temporary with two links must be the twin of a final file. *)
ReadTemps(p) ==
    /\ pc[p] = "read_temps"
    /\ CASE ~(seen[p].temps \subseteq dir.temps) -> EndRead(p, "read_io")
         [] \E i \in seen[p].temps \intersect dir.temps :
                Links(dir, i) = 2 /\ i \notin seen[p].twins -> EndRead(p, "read_corrupt")
         [] OTHER -> /\ pc' = [pc EXCEPT ![p] = "read_match"]
                     /\ UNCHANGED <<out, seen>>
    /\ UNCHANGED ReadVars

(* Each final file with two links must have its twin among the listed ones. *)
ReadMatch(p) ==
    /\ pc[p] = "read_match"
    /\ CASE seen[p].twins # {} /\ ~(seen[p].temps \subseteq dir.temps) -> EndRead(p, "read_io")
         [] ~(seen[p].twins \subseteq seen[p].temps) -> EndRead(p, "read_corrupt")
         [] OTHER -> /\ pc' = [pc EXCEPT ![p] = "read_deliver"]
                     /\ UNCHANGED <<out, seen>>
    /\ UNCHANGED ReadVars

(* The projected state reaches the caller. *)
ReadDeliver(p) ==
    /\ pc[p] = "read_deliver"
    /\ EndRead(p, "read_ok")
    /\ UNCHANGED ReadVars

-----------------------------------------------------------------------------
(* Faults.                                                                 *)

Fault == faults < MaxFaults /\ faults' = faults + 1

(* Mutant of IOError: the cleanup removes the published name too. *)
IOErrorRemovesEvent(p) ==
    /\ Fault
    /\ pc[p] \in {"create", "sync", "link", "unlink", "syncdir"}
    /\ Finish(p, "io")
    /\ SetDir([final |-> {f \in dir.final : f.name # Target(p)}, temps |-> dir.temps \ {tmp[p]}])
    /\ UNCHANGED <<synced, torn, made, seen, acked>>

(* A system call of _write_event raises OSError: `finally` removes the     *)
(* temporary name, an OSError of that unlink is ignored, and the caller    *)
(* gets WorkspaceIOError.                                                  *)
IOError(p) ==
    /\ Fault
    /\ pc[p] \in {"create", "sync", "link", "unlink", "syncdir"}
    /\ Finish(p, "io")
    /\ \/ SetDir([dir EXCEPT !.temps = @ \ {tmp[p]}])
       \/ UNCHANGED <<dir, disk>>
    /\ UNCHANGED <<synced, torn, made, seen, acked>>

(* The process is killed: the kernel closes its descriptors and with them  *)
(* the flock; its temporary file stays.                                    *)
Kill(p) ==
    /\ Fault
    /\ pc[p] # "idle"
    /\ pc' = [pc EXCEPT ![p] = "idle"]
    /\ out' = [out EXCEPT ![p] = "none"]
    /\ tmp' = [tmp EXCEPT ![p] = 0]
    /\ seen' = [seen EXCEPT ![p] = NoView]
    /\ call' = [call EXCEPT ![p] = Created]
    /\ base' = [base EXCEPT ![p] = <<Created>>]
    /\ lock' = IF lock = p THEN NoProc ELSE lock
    /\ UNCHANGED <<dir, disk, synced, torn, made, acked>>

(* The machine loses power.  Directory operations reach the disk in order, *)
(* so the directory comes back in one of the states it had since its last  *)
(* fsync; content that was never fsynced is lost.                          *)
PowerLoss ==
    /\ Fault
    /\ \E d \in disk : dir' = d /\ disk' = {d}
    /\ torn' = torn \union ((1..made) \ synced)
    /\ pc' = [p \in Proc |-> "idle"]
    /\ out' = [p \in Proc |-> "none"]
    /\ tmp' = [p \in Proc |-> 0]
    /\ seen' = [p \in Proc |-> NoView]
    /\ call' = [p \in Proc |-> Created]
    /\ base' = [p \in Proc |-> <<Created>>]
    /\ lock' = NoProc
    /\ UNCHANGED <<synced, made, acked>>

-----------------------------------------------------------------------------
AppendStep(p) ==
    \/ Acquire(p) \/ LockTimeout(p) \/ Project(p) \/ CreateTemp(p) \/ SyncTemp(p)
    \/ Link(p) \/ Unlink(p) \/ SyncDir(p) \/ Return(p)

ReadStep(p) ==
    \/ ReadStat(p) \/ ReadReplay(p) \/ ReadTemps(p) \/ ReadMatch(p) \/ ReadDeliver(p)

Next ==
    \/ \E p \in Writer : \/ \E e \in Request : Call(p, e)
                        \/ AppendStep(p)
                        \/ IOError(p)
    \/ \E p \in Reader : ReadList(p) \/ ReadStep(p)
    \/ \E p \in Proc : Kill(p)
    \/ PowerLoss

Spec == Init /\ [][Next]_vars

(* A process that is inside a call keeps running: nothing in _append or    *)
(* _project waits for anything but the lock, and that wait has a deadline. *)
Fairness ==
    /\ \A p \in Writer : WF_vars(AppendStep(p))
    /\ \A p \in Reader : WF_vars(ReadStep(p))
FairSpec == Spec /\ Fairness

-----------------------------------------------------------------------------
(* Properties.                                                             *)

PC == {"idle", "acquire", "project", "create", "sync", "link", "unlink", "syncdir",
       "return", "read_listed", "read_replay", "read_temps", "read_match", "read_deliver"}
Locked == {"project", "create", "sync", "link", "unlink", "syncdir", "return"}
Outcome == {"none", "ok", "conflict", "lifecycle", "policy", "lock", "io", "corrupt",
            "read_ok", "read_io", "read_corrupt"}
Directory == [final : SUBSET File, temps : SUBSET Inode]

(* The type of every variable. *)
TypeOK ==
    /\ dir \in Directory
    /\ disk \in SUBSET Directory
    /\ synced \in SUBSET Inode
    /\ torn \in SUBSET Inode
    /\ made \in Nat
    /\ lock \in Proc \union {NoProc}
    /\ pc \in [Proc -> PC]
    /\ call \in [Proc -> Event]
    /\ base \in [Proc -> Chain]
    /\ tmp \in [Proc -> Inode]
    /\ seen \in [Proc -> [names : SUBSET Chain, temps : SUBSET Inode, twins : SUBSET Inode,
                          acked : SUBSET Chain]]
    /\ out \in [Proc -> Outcome]
    /\ acked \in SUBSET [name : Chain, path : {"written", "replayed"}]
    /\ faults \in Nat

(* Whatever was killed, failed or lost, and at whatever step, the journal  *)
(* projects: one unforked history in which no event_id occurs twice and    *)
(* nothing follows a terminal event, intact contents, and only the hard    *)
(* links _project tolerates.  So _append never reports a corrupt journal.  *)
JournalHealthy == Projectable(dir)

(* A writer that has projected the journal under the lock still has the    *)
(* newest history when os.link publishes its event: the optimistic O_EXCL  *)
(* check of _write_event is never what decides.                            *)
WriterIsCurrent ==
    \A p \in Proc : pc[p] \in {"create", "sync", "link"} =>
        base[p] = Log(Names(dir)) /\ Target(p) \notin Names(dir)

(* The receipt of the _append that wrote an event stays true: the event is *)
(* in the journal, after kills, I/O errors and power losses too.           *)
WrittenReceiptsLast ==
    \A a \in acked : a.path = "written" => a.name \in Names(dir)

(* Every receipt _append returned stays true, the ones that an idempotent  *)
(* retry got from an event already in the journal included.                *)
ReceiptsLast == \A a \in acked : a.name \in Names(dir)

(* What an unlocked read delivers is a history of this journal, as new as  *)
(* the receipt of every write that had returned when the read started.     *)
ReadsAreFresh ==
    \A p \in Proc : pc[p] = "read_deliver" =>
        /\ Replayable(seen[p].names)
        /\ seen[p].acked \subseteq seen[p].names
        /\ seen[p].names \subseteq Names(dir)

(* An unlocked read never reports a journal corrupt that is healthy. *)
ReadsNeverFalselyCorrupt == \A p \in Proc : out[p] # "read_corrupt"

(* Published events are never removed, renamed or replaced by the SDK: a   *)
(* name disappears only when a power loss takes it.                        *)
AppendOnly == [][Names(dir) \subseteq Names(dir') \/ PowerLoss]_vars

(* The journal implements the event log: link() is the moment at which the *)
(* event is published, and fsync of the directory the moment it is flushed.*)
StableLength ==
    LET lengths == {Len(Log(Names(d))) : d \in disk}
    IN  CHOOSE n \in lengths : \A m \in lengths : n <= m

Abstract == INSTANCE EventLog WITH log <- Log(Names(dir)), stable <- StableLength
ImplementsEventLog == Abstract!Spec

(* Every call of _append and every read returns, with a result or an error. *)
CallsReturn == \A p \in Proc : pc[p] # "idle" ~> pc[p] = "idle"

=============================================================================
