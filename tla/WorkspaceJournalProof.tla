------------------------ MODULE WorkspaceJournalProof ------------------------
(***************************************************************************)
(* Proofs about WorkspaceJournal for every set of writers and readers,     *)
(* every event limit and every number of faults.                           *)
(*                                                                         *)
(* IInv is the inductive invariant: every directory state that is or may   *)
(* come back is well formed, a lock holder works on the newest history     *)
(* with a temporary file of its own, and what the receipts name is in      *)
(* every one of those directory states.                                    *)
(***************************************************************************)
EXTENDS WorkspaceJournal, FiniteSetTheorems, SequenceTheorems, TLAPS

(* A history that is the longest of a directory's names. *)
HasNewest(N) == \E c \in N : \A d \in N : Len(d) <= Len(c)

(* A directory state is well formed: its names replay, every final file    *)
(* has an inode of its own with fsynced content, inodes were allocated.    *)
DirOK(d, s, m) ==
    /\ Replayable(Names(d))
    /\ HasNewest(Names(d))
    /\ \A f, g \in d.final : f.ino = g.ino => f = g
    /\ \A f \in d.final : f.ino \in s /\ f.ino <= m
    /\ \A i \in d.temps : i <= m

DirsOK == dir \in disk /\ \A d \in disk : DirOK(d, synced, made)

ContentOK == torn \intersect synced = {} /\ \A i \in torn : i <= made

LockOK == \A p \in Proc : pc[p] \in Locked <=> lock = p

WriterOK ==
    \A p \in Proc :
        /\ pc[p] \in {"create", "sync", "link"} =>
              /\ base[p] \in Names(dir)
              /\ \A d \in Names(dir) : Len(d) <= Len(base[p])
              /\ call[p] \in Request
              /\ Admissible(base[p], call[p])
        /\ pc[p] \in {"sync", "link"} =>
              /\ tmp[p] <= made
              /\ tmp[p] \notin torn
              /\ \A d \in disk : \A f \in d.final : f.ino # tmp[p]
        /\ pc[p] = "link" => tmp[p] \in synced
        /\ pc[p] \in {"unlink", "syncdir"} => Target(p) \in Names(dir)
        /\ pc[p] = "return" => \A d \in disk : Target(p) \in Names(d)

RequestOK == \A p \in Proc : pc[p] \in {"acquire", "project"} => call[p] \in Request

ReceiptsOK == \A a \in acked : a.path = "written" => \A d \in disk : a.name \in Names(d)

IInv == TypeOK /\ DirsOK /\ ContentOK /\ LockOK /\ WriterOK /\ RequestOK /\ ReceiptsOK

-----------------------------------------------------------------------------
(* Histories and directory states.                                         *)

(* The projection ends with a longest history when there is one. *)
LEMMA LogIsNewest ==
    ASSUME NEW N, HasNewest(N)
    PROVE  Log(N) \in N /\ \A d \in N : Len(d) <= Len(Log(N))
BY DEF Log, HasNewest

(* Appending an event to a history gives the history that it ends. *)
LEMMA AppendFacts ==
    ASSUME NEW c \in Chain, NEW e \in Event
    PROVE  Append(c, e) \in Chain /\ Len(Append(c, e)) = Len(c) + 1
           /\ LastEvent(Append(c, e)) = e /\ Len(c) \in Nat
BY DEF Chain, LastEvent

(* Publishing an admissible event after the newest history keeps the names *)
(* replayable, and makes the new history the newest one.                   *)
LEMMA ReplayableGrows ==
    ASSUME NEW N \in SUBSET Chain, Replayable(N), NEW b \in N,
           \A d \in N : Len(d) <= Len(b), NEW e \in Event, Admissible(b, e)
    PROVE  Replayable(N \union {Append(b, e)}) /\ HasNewest(N \union {Append(b, e)})
<1> DEFINE c == Append(b, e)
           M == N \union {c}
<1>1. c \in Chain /\ Len(c) = Len(b) + 1 /\ LastEvent(c) = e /\ Len(b) \in Nat
  BY AppendFacts
<1>2. \A d \in N : Len(d) \in Nat /\ Len(d) < Len(c)
  BY <1>1 DEF Chain
<1> HIDE DEF c
<1>3. c = Append(b, LastEvent(c)) /\ Admissible(b, LastEvent(c))
  BY <1>1 DEF c
<1>4. M # {}
  OBVIOUS
<1>5. \A d \in M : \/ d = <<Created>>
                   \/ \E a \in M : d = Append(a, LastEvent(d)) /\ Admissible(a, LastEvent(d))
  BY <1>3 DEF Replayable
<1>6. \A d, g \in M : Len(d) = Len(g) => d = g
  BY <1>1, <1>2 DEF Replayable
<1>7. HasNewest(M)
  BY <1>1, <1>2 DEF HasNewest
<1> QED
  BY <1>4, <1>5, <1>6, <1>7 DEF Replayable, c

(* A well-formed directory state stays so when more is allocated or fsynced. *)
LEMMA DirMonotone ==
    ASSUME NEW d \in Directory, NEW s, NEW t, NEW m \in Nat, NEW n \in Nat,
           DirOK(d, s, m), s \subseteq t, m <= n
    PROVE  DirOK(d, t, n)
BY DEF DirOK, Directory, File, Inode

(* ... when a temporary name is removed ... *)
LEMMA DirDropTemp ==
    ASSUME NEW d \in Directory, NEW s, NEW m \in Nat, NEW i, DirOK(d, s, m)
    PROVE  /\ [d EXCEPT !.temps = @ \ {i}] \in Directory
           /\ DirOK([d EXCEPT !.temps = @ \ {i}], s, m)
           /\ Names([d EXCEPT !.temps = @ \ {i}]) = Names(d)
           /\ [d EXCEPT !.temps = @ \ {i}].final = d.final
BY DEF DirOK, Directory, Names

(* ... when a fresh temporary file is created ... *)
LEMMA DirAddTemp ==
    ASSUME NEW d \in Directory, NEW s, NEW m \in Nat, DirOK(d, s, m)
    PROVE  /\ [d EXCEPT !.temps = @ \union {m + 1}] \in Directory
           /\ DirOK([d EXCEPT !.temps = @ \union {m + 1}], s, m + 1)
           /\ Names([d EXCEPT !.temps = @ \union {m + 1}]) = Names(d)
           /\ [d EXCEPT !.temps = @ \union {m + 1}].final = d.final
<1> DEFINE x == [d EXCEPT !.temps = @ \union {m + 1}]
<1>1. x.final = d.final /\ x.temps = d.temps \union {m + 1} /\ x \in Directory
  BY DEF Directory, Inode
<1> HIDE DEF x
<1>2. Names(x) = Names(d)
  BY <1>1 DEF Names
<1>3. DirOK(x, s, m + 1)
  BY <1>1, <1>2 DEF DirOK, Directory, File, Inode
<1> QED
  BY <1>1, <1>2, <1>3 DEF x

(* ... and when an fsynced inode of its own gets the next final name. *)
LEMMA DirAddFinal ==
    ASSUME NEW d \in Directory, NEW s, NEW m \in Nat, DirOK(d, s, m), NEW b \in Names(d),
           \A c \in Names(d) : Len(c) <= Len(b), NEW e \in Event, Admissible(b, e),
           NEW h, h.name = Append(b, e), h.ino \in s, h.ino <= m,
           \A f \in d.final : f.ino # h.ino,
           NEW x, x.final = d.final \union {h}, x.temps = d.temps
    PROVE  DirOK(x, s, m) /\ Names(x) = Names(d) \union {Append(b, e)}
<1>1. Names(d) \in SUBSET Chain /\ b \in Chain
  BY DEF Names, Directory, File
<1>2. Names(x) = Names(d) \union {Append(b, e)}
  BY DEF Names
<1>3. Replayable(Names(x)) /\ HasNewest(Names(x))
  <2>1. Replayable(Names(d))
    BY DEF DirOK
  <2>2. /\ Replayable(Names(d) \union {Append(b, e)})
        /\ HasNewest(Names(d) \union {Append(b, e)})
    BY <1>1, <2>1, ReplayableGrows, Zenon
  <2> QED
    BY <1>2, <2>2, Zenon
<1>4. \A f, g \in x.final : f.ino = g.ino => f = g
  BY DEF DirOK
<1>5. \A f \in x.final : f.ino \in s /\ f.ino <= m
  BY DEF DirOK
<1> QED
  BY <1>2, <1>3, <1>4, <1>5 DEF DirOK

(* Link counts: an inode has a final name at most once. *)
LEMMA LinkCounts ==
    ASSUME NEW d \in Directory, NEW s, NEW m, DirOK(d, s, m), NEW i \in Inode
    PROVE  Links(d, i) = (IF \E f \in d.final : f.ino = i THEN 1 ELSE 0)
                         + (IF i \in d.temps THEN 1 ELSE 0)
<1> DEFINE S == {f \in d.final : f.ino = i}
<1>1. CASE \E f \in d.final : f.ino = i
  <2>1. PICK f \in d.final : f.ino = i
    BY <1>1
  <2>2. S = {f}
    BY <2>1 DEF DirOK
  <2>3. Cardinality(S) = 1
    BY <2>2, FS_Singleton
  <2> QED
    BY <1>1, <2>3 DEF Links
<1>2. CASE ~ \E f \in d.final : f.ino = i
  <2>1. S = {}
    BY <1>2
  <2>2. Cardinality(S) = 0
    BY <2>1, FS_EmptySet
  <2> QED
    BY <1>2, <2>2 DEF Links
<1> QED
  BY <1>1, <1>2

(* A well-formed directory state projects. *)
LEMMA WellFormedProjects ==
    ASSUME TypeOK, DirsOK, ContentOK
    PROVE  Projectable(dir)
<1>1. dir \in Directory /\ DirOK(dir, synced, made)
  BY DEF TypeOK, DirsOK
<1>2. \A f \in dir.final : f.ino \in Inode /\ Links(dir, f.ino) = 1 + (IF f.ino \in dir.temps THEN 1 ELSE 0)
  BY <1>1, LinkCounts DEF Directory, File
<1>3. \A i \in dir.temps : i \in Inode
                            /\ Links(dir, i) = (IF \E f \in dir.final : f.ino = i THEN 1 ELSE 0) + 1
  BY <1>1, LinkCounts DEF Directory
<1>4. \A f \in dir.final : f.ino \notin torn /\ Links(dir, f.ino) \in {1, 2}
  BY <1>1, <1>2 DEF DirOK, ContentOK
<1>5. Twins(dir) = {i \in dir.temps : Links(dir, i) = 2}
  <2>1. Twins(dir) = {f.ino : f \in {g \in dir.final : g.ino \in dir.temps}}
    <3>1. \A g \in dir.final : Links(dir, g.ino) = 2 <=> g.ino \in dir.temps
      BY <1>2
    <3> QED
      BY <3>1 DEF Twins
  <2>2. \A i \in dir.temps : Links(dir, i) = 2 <=> \E f \in dir.final : f.ino = i
    BY <1>3
  <2> QED
    BY <2>1, <2>2
<1> QED
  BY <1>1, <1>4, <1>5 DEF Projectable, DirOK

-----------------------------------------------------------------------------
(* The invariant holds initially.                                          *)

(* A created journal has one fsynced event and nobody in the lock. *)
LEMMA InitIInv == Init => IInv
<1> SUFFICES ASSUME Init PROVE IInv
  OBVIOUS
<1>1. <<Created>> \in Chain /\ Len(<<Created>>) = 1 /\ Created \in Event
  BY DEF Chain, Event
<1>2. dir.final = {[name |-> <<Created>>, ino |-> 1]} /\ dir.temps = {} /\ Names(dir) = {<<Created>>}
  BY DEF Init, Names
<1>3. TypeOK
  <2>1. dir \in Directory
    BY <1>1 DEF Init, Directory, File, Inode
  <2> QED
    BY <1>1, <2>1 DEF Init, TypeOK, NoView, PC, Outcome, Inode
<1>4. DirOK(dir, synced, made)
  <2>1. \A f \in dir.final : f.ino = 1 /\ f = [name |-> <<Created>>, ino |-> 1]
    BY <1>2
  <2>2. Replayable(Names(dir)) /\ HasNewest(Names(dir))
    BY <1>1, <1>2 DEF Replayable, HasNewest
  <2> QED
    BY <1>2, <2>1, <2>2 DEF Init, DirOK
<1> QED
  BY <1>1, <1>3, <1>4, ProcAssumption
  DEF IInv, Init, DirsOK, ContentOK, LockOK, WriterOK, RequestOK, ReceiptsOK, Locked

-----------------------------------------------------------------------------
(* Every step preserves the invariant.  First the steps that leave the     *)
(* directory, the inodes and the receipts alone.                           *)

(* A call of _append starts with its request and without the lock. *)
LEMMA CallIInv == ASSUME IInv, NEW p \in Writer, NEW e \in Request, Call(p, e) PROVE IInv'
<1> USE DEF Proc
<1>1. TypeOK'
  BY DEF IInv, TypeOK, Call, Goto, PC, Outcome, Event
<1>2. DirsOK' /\ ContentOK' /\ ReceiptsOK'
  BY DEF IInv, DirsOK, ContentOK, ReceiptsOK, Call
<1>3. LockOK'
  BY DEF IInv, TypeOK, LockOK, Call, Goto, Locked
<1>4. WriterOK' /\ RequestOK'
  BY DEF IInv, TypeOK, WriterOK, RequestOK, Call, Goto, Target
<1> QED
  BY <1>1, <1>2, <1>3, <1>4 DEF IInv

(* The flock goes to a writer only when nobody has it. *)
LEMMA AcquireIInv == ASSUME IInv, NEW p \in Writer, Acquire(p) PROVE IInv'
<1> USE DEF Proc
<1>1. TypeOK'
  BY DEF IInv, TypeOK, Acquire, Goto, PC
<1>2. DirsOK' /\ ContentOK' /\ ReceiptsOK'
  BY DEF IInv, DirsOK, ContentOK, ReceiptsOK, Acquire
<1>3. LockOK'
  BY ProcAssumption DEF IInv, TypeOK, LockOK, Acquire, Goto, Locked
<1>4. WriterOK' /\ RequestOK'
  BY DEF IInv, TypeOK, WriterOK, RequestOK, Acquire, Goto, Target
<1> QED
  BY <1>1, <1>2, <1>3, <1>4 DEF IInv

(* A writer that gives up on the flock leaves everything alone. *)
LEMMA LockTimeoutIInv == ASSUME IInv, NEW p \in Writer, LockTimeout(p) PROVE IInv'
<1> USE DEF Proc
<1>1. TypeOK'
  BY DEF IInv, TypeOK, LockTimeout, Goto, PC, Outcome, Event
<1>2. DirsOK' /\ ContentOK' /\ ReceiptsOK'
  BY DEF IInv, DirsOK, ContentOK, ReceiptsOK, LockTimeout
<1>3. LockOK'
  BY DEF IInv, TypeOK, LockOK, LockTimeout, Goto, Locked
<1>4. WriterOK' /\ RequestOK'
  BY DEF IInv, TypeOK, WriterOK, RequestOK, LockTimeout, Goto, Target
<1> QED
  BY <1>1, <1>2, <1>3, <1>4 DEF IInv

(* The end of a call that holds the lock, with the directory as it was. *)
LEMMA FinishKeeps ==
    ASSUME IInv, NEW p \in Writer, pc[p] \in Locked, NEW r \in Outcome, Finish(p, r),
           UNCHANGED <<dir, synced, torn, made, seen>>,
           disk' \subseteq disk, dir \in disk', faults' \in Nat
    PROVE  /\ DirsOK' /\ ContentOK' /\ LockOK' /\ WriterOK' /\ RequestOK'
           /\ acked' = acked => TypeOK' /\ ReceiptsOK'
           /\ acked' \in SUBSET [name : Chain, path : {"written", "replayed"}] => TypeOK'
<1> USE DEF Proc
<1>1. acked' \in SUBSET [name : Chain, path : {"written", "replayed"}] => TypeOK'
  <2>1. Created \in Event /\ <<Created>> \in Chain
    BY DEF Event, Chain
  <2> QED
    BY <2>1 DEF IInv, TypeOK, Finish, PC, Inode
<1>2. DirsOK' /\ ContentOK' /\ (acked' = acked => ReceiptsOK')
  BY DEF IInv, DirsOK, ContentOK, ReceiptsOK
<1>3. LockOK'
  BY ProcAssumption DEF IInv, TypeOK, LockOK, Finish, Locked
<1>4. WriterOK' /\ RequestOK'
  BY DEF IInv, TypeOK, WriterOK, RequestOK, Finish, Target
<1> QED
  BY <1>1, <1>2, <1>3, <1>4 DEF IInv, TypeOK

(* Under the lock the projection finds the newest history, and the
   checks of _append make the event admissible after it. *)
LEMMA ProjectIInv == ASSUME IInv, NEW p \in Writer, Project(p) PROVE IInv'
<1> USE DEF Proc
<1> DEFINE log == Log(Names(dir))
<1>1. /\ log \in Names(dir) /\ log \in Chain
      /\ \A d \in Names(dir) : Len(d) <= Len(log)
  <2>1. HasNewest(Names(dir))
    BY DEF IInv, DirsOK, DirOK
  <2>2. Names(dir) \subseteq Chain
    BY DEF IInv, TypeOK, Directory, File, Names
  <2> QED
    BY <2>1, <2>2, LogIsNewest
<1> HIDE DEF log
<1>2. pc[p] \in Locked /\ faults' \in Nat /\ disk' = disk /\ dir \in disk
  BY DEF IInv, TypeOK, DirsOK, Project, Locked
<1>3. UNCHANGED <<dir, synced, torn, made, seen>>
  BY DEF Project
<1>4. CASE Replay(p, log)
  <2> DEFINE i == CHOOSE j \in 1..Len(log) : log[j].id = call[p].id
             r == IF log[i] = call[p] THEN "ok" ELSE "conflict"
  <2>1. i \in 1..Len(log)
    <3>1. \E j \in 1..Len(log) : log[j].id = call[p].id
      BY <1>4 DEF Replay, Ids
    <3> QED
      BY <3>1
  <2> HIDE DEF i
  <2>2. SubSeq(log, 1, i) \in Chain
    <3>1. log \in Seq(Event) /\ Len(log) \in Nat /\ i \in 1..Len(log)
      BY <1>1, <2>1 DEF Chain
    <3>2. SubSeq(log, 1, i) \in Seq(Event) /\ Len(SubSeq(log, 1, i)) = i
      BY <3>1, SubSeqProperties
    <3> QED
      BY <3>1, <3>2 DEF Chain
  <2>3. Finish(p, r) /\ r \in Outcome
    BY <1>4 DEF Replay, Outcome, i
  <2>4. /\ acked' \in SUBSET [name : Chain, path : {"written", "replayed"}]
        /\ \A a \in acked' : a.path = "written" => a \in acked
    <3> DEFINE a == [name |-> SubSeq(log, 1, i), path |-> "replayed"]
    <3>1. acked' = acked \/ acked' = acked \union {a}
      BY <1>4 DEF Replay, i
    <3>2. a \in [name : Chain, path : {"written", "replayed"}] /\ a.path # "written"
      BY <2>2
    <3> HIDE DEF a
    <3> QED
      BY <3>1, <3>2 DEF IInv, TypeOK
  <2>5. ReceiptsOK'
    BY <1>2, <1>3, <2>4 DEF IInv, ReceiptsOK
  <2> HIDE DEF r
  <2> QED
    BY <1>2, <1>3, <2>3, <2>4, <2>5, FinishKeeps DEF IInv
<1>5. CASE Refuse(p, log)
  <2>1. PICK r \in Outcome : Finish(p, r)
    BY <1>5 DEF Refuse, Outcome
  <2> QED
    BY <1>2, <1>3, <1>5, <2>1, FinishKeeps DEF IInv, Refuse
<1>6. CASE Finish(p, "corrupt") /\ UNCHANGED acked
  BY <1>2, <1>3, <1>6, FinishKeeps DEF IInv, Outcome
<1>7. CASE Accept(p, log)
  <2>1. call[p] \in Request /\ pc[p] = "project"
    BY DEF IInv, RequestOK, Project
  <2>2. TypeOK'
    BY <1>1, <1>3, <1>7, <1>2 DEF IInv, TypeOK, Accept, PC
  <2>3. DirsOK' /\ ContentOK' /\ ReceiptsOK'
    BY <1>2, <1>3, <1>7 DEF IInv, DirsOK, ContentOK, ReceiptsOK, Accept
  <2>4. LockOK'
    BY <1>2, <1>7 DEF IInv, TypeOK, LockOK, Accept, Locked
  <2>5. WriterOK' /\ RequestOK'
    BY <1>1, <1>2, <1>3, <1>7, <2>1 DEF IInv, TypeOK, WriterOK, RequestOK, Accept, Target
  <2> QED
    BY <2>2, <2>3, <2>4, <2>5 DEF IInv
<1> QED
  BY <1>4, <1>5, <1>6, <1>7 DEF Project, log

(* The temporary file is a fresh inode that no final name has. *)
LEMMA CreateTempIInv == ASSUME IInv, NEW p \in Writer, CreateTemp(p) PROVE IInv'
<1> USE DEF Proc
<1>1. CASE Target(p) \in Names(dir)
  <2>1. pc[p] \in Locked /\ faults' \in Nat /\ disk' = disk /\ dir \in disk
    BY <1>1 DEF IInv, TypeOK, DirsOK, CreateTemp, Locked
  <2> QED
    BY <1>1, <2>1, FinishKeeps DEF IInv, CreateTemp, Outcome
<1>2. CASE Target(p) \notin Names(dir)
  <2> DEFINE x == [dir EXCEPT !.temps = @ \union {made + 1}]
  <2>1. /\ pc[p] = "create" /\ pc' = [pc EXCEPT ![p] = "sync"]
        /\ made' = made + 1 /\ tmp' = [tmp EXCEPT ![p] = made + 1]
        /\ dir' = x /\ disk' = disk \union {x}
        /\ UNCHANGED <<lock, call, base, out, synced, torn, seen, acked, faults>>
    BY <1>2 DEF CreateTemp, SetDir
  <2>2. /\ x \in Directory /\ DirOK(x, synced, made + 1)
        /\ Names(x) = Names(dir) /\ x.final = dir.final
    BY DirAddTemp DEF IInv, TypeOK, DirsOK
  <2> HIDE DEF x
  <2>3. TypeOK'
    BY <2>1, <2>2 DEF IInv, TypeOK, PC, Inode
  <2>4. DirsOK'
    <3>1. \A d \in disk : DirOK(d, synced, made + 1)
      BY DirMonotone DEF IInv, TypeOK, DirsOK
    <3> QED
      BY <2>1, <2>2, <3>1 DEF DirsOK
  <2>5. ContentOK'
    BY <2>1 DEF IInv, TypeOK, ContentOK, Inode
  <2>6. LockOK'
    BY <2>1 DEF IInv, TypeOK, LockOK, Locked
  <2>7. ReceiptsOK'
    BY <2>1, <2>2 DEF IInv, ReceiptsOK, DirsOK
  <2>8. RequestOK'
    BY <2>1 DEF IInv, TypeOK, RequestOK
  <2>9. WriterOK'
    <3>1. lock = p /\ \A q \in Proc : q # p => pc[q] \notin Locked
      BY <2>1 DEF IInv, LockOK, Locked
    <3>2. made + 1 \notin torn /\ \A d \in disk' : \A f \in d.final : f.ino # made + 1
      BY <2>1, <2>2 DEF IInv, TypeOK, ContentOK, DirsOK, DirOK, Inode, Directory, File
    <3>3. \A q \in Proc : q # p => pc'[q] \notin Locked
      BY <2>1, <3>1 DEF IInv, TypeOK
    <3> QED
      BY <2>1, <2>2, <3>2, <3>3 DEF IInv, TypeOK, WriterOK, Target, Locked
  <2> QED
    BY <2>3, <2>4, <2>5, <2>6, <2>7, <2>8, <2>9 DEF IInv
<1> QED
  BY <1>1, <1>2

(* While one process is in the lock nobody else is. *)
LEMMA OneInLock ==
    ASSUME IInv, NEW p \in Proc, pc[p] \in Locked
    PROVE  lock = p /\ \A q \in Proc : q # p => pc[q] \notin Locked
BY DEF IInv, LockOK

(* After fsync the content of the temporary file is complete. *)
LEMMA SyncTempIInv == ASSUME IInv, NEW p \in Writer, SyncTemp(p) PROVE IInv'
<1> USE DEF Proc
<1>1. /\ pc[p] = "sync" /\ pc' = [pc EXCEPT ![p] = "link"]
      /\ synced' = synced \union {tmp[p]}
      /\ UNCHANGED <<dir, disk, torn, made, lock, call, base, tmp, seen, out, acked, faults>>
  BY DEF SyncTemp, Goto
<1>2. TypeOK'
  BY <1>1 DEF IInv, TypeOK, PC, Inode
<1>3. DirsOK'
  <2>1. \A d \in disk : DirOK(d, synced', made)
    BY <1>1, DirMonotone DEF IInv, TypeOK, DirsOK
  <2> QED
    BY <1>1, <2>1 DEF IInv, DirsOK
<1>4. ContentOK'
  BY <1>1 DEF IInv, ContentOK, WriterOK
<1>5. LockOK' /\ RequestOK' /\ ReceiptsOK'
  BY <1>1 DEF IInv, TypeOK, LockOK, RequestOK, ReceiptsOK, Locked
<1>6. WriterOK'
  BY <1>1 DEF IInv, TypeOK, WriterOK, Target
<1> QED
  BY <1>2, <1>3, <1>4, <1>5, <1>6 DEF IInv

(* os.link publishes the event after the newest history. *)
LEMMA LinkIInv == ASSUME IInv, NEW p \in Writer, Link(p) PROVE IInv'
<1> USE DEF Proc
<1> DEFINE t == Append(base[p], call[p])
           h == [name |-> t, ino |-> tmp[p]]
           x == [dir EXCEPT !.final = @ \union {h}]
<1>1. pc[p] = "link" /\ pc[p] \in Locked
  BY DEF Link, Locked
<1>2. /\ base[p] \in Names(dir) /\ call[p] \in Event /\ Admissible(base[p], call[p])
      /\ \A c \in Names(dir) : Len(c) <= Len(base[p])
      /\ tmp[p] \in synced /\ tmp[p] \in Inode /\ tmp[p] <= made
      /\ \A d \in disk : \A f \in d.final : f.ino # tmp[p]
  BY <1>1 DEF IInv, WriterOK, TypeOK
<1>3. dir \in Directory /\ dir \in disk /\ DirOK(dir, synced, made) /\ made \in Nat
  BY DEF IInv, TypeOK, DirsOK
<1>4. t \notin Names(dir)
  <2>1. base[p] \in Chain
    BY DEF IInv, TypeOK
  <2>2. Len(t) = Len(base[p]) + 1 /\ Len(base[p]) \in Nat
    BY <1>2, <2>1, AppendFacts
  <2> HIDE DEF t
  <2> QED
    BY <1>2, <2>2
<1>h. h \in File /\ h.name = t /\ h.ino = tmp[p]
  BY <1>2, AppendFacts DEF IInv, TypeOK, File
<1> HIDE DEF h
<1>x. x \in Directory /\ x.final = dir.final \union {h} /\ x.temps = dir.temps
  BY <1>3, <1>h DEF Directory
<1> HIDE DEF x
<1>5. DirOK(x, synced, made) /\ Names(x) = Names(dir) \union {t}
  <2>1. \A f \in dir.final : f.ino # h.ino
    BY <1>2, <1>3, <1>h
  <2>2. h.ino \in synced /\ h.ino <= made
    BY <1>2, <1>h
  <2> QED
    BY <1>x, <1>h, <1>2, <1>3, <2>1, <2>2, DirAddFinal, SMTT(30)
<1>6. /\ pc' = [pc EXCEPT ![p] = "unlink"] /\ dir' = x /\ disk' = disk \union {x}
      /\ UNCHANGED <<synced, torn, made, lock, call, base, tmp, seen, out, acked, faults>>
  BY <1>4 DEF Link, Target, SetDir, x, h
<1> HIDE DEF t
<1>7. TypeOK'
  BY <1>x, <1>5, <1>6 DEF IInv, TypeOK, PC
<1>8. DirsOK' /\ ContentOK'
  BY <1>5, <1>6 DEF IInv, DirsOK, ContentOK
<1>9. LockOK' /\ RequestOK'
  BY <1>1, <1>6 DEF IInv, TypeOK, LockOK, RequestOK, Locked
<1>10. ReceiptsOK'
  BY <1>3, <1>5, <1>6 DEF IInv, ReceiptsOK
<1>11. WriterOK'
  <2>1. \A q \in Proc : q # p => pc'[q] \notin Locked
    BY <1>1, <1>6, OneInLock DEF IInv, TypeOK
  <2>2. pc'[p] = "unlink" /\ t \in Names(dir') /\ t = Target(p)'
    BY <1>5, <1>6 DEF IInv, TypeOK, Target, t
  <2> QED
    BY <2>1, <2>2 DEF WriterOK, Locked
<1> QED
  BY <1>7, <1>8, <1>9, <1>10, <1>11 DEF IInv

(* Removing the temporary name keeps the published one. *)
LEMMA UnlinkIInv == ASSUME IInv, NEW p \in Writer, Unlink(p) PROVE IInv'
<1> USE DEF Proc
<1> DEFINE x == [dir EXCEPT !.temps = @ \ {tmp[p]}]
<1>1. /\ pc[p] = "unlink" /\ pc[p] \in Locked /\ pc' = [pc EXCEPT ![p] = "syncdir"]
      /\ dir' = x /\ disk' = disk \union {x}
      /\ UNCHANGED <<synced, torn, made, lock, call, base, tmp, seen, out, acked, faults>>
  BY DEF Unlink, Goto, SetDir, Locked
<1>2. x \in Directory /\ DirOK(x, synced, made) /\ Names(x) = Names(dir) /\ dir \in disk
  BY DirDropTemp DEF IInv, TypeOK, DirsOK
<1> HIDE DEF x
<1>3. TypeOK'
  BY <1>1, <1>2 DEF IInv, TypeOK, PC
<1>4. DirsOK' /\ ContentOK'
  BY <1>1, <1>2 DEF IInv, DirsOK, ContentOK
<1>5. LockOK' /\ RequestOK'
  BY <1>1 DEF IInv, TypeOK, LockOK, RequestOK, Locked
<1>6. ReceiptsOK'
  BY <1>1, <1>2 DEF IInv, ReceiptsOK
<1>7. WriterOK'
  <2>1. \A q \in Proc : q # p => pc'[q] \notin Locked
    BY <1>1, OneInLock DEF IInv, TypeOK
  <2>2. pc'[p] = "syncdir" /\ Target(p)' \in Names(dir')
    BY <1>1, <1>2 DEF IInv, TypeOK, WriterOK, Target
  <2> QED
    BY <2>1, <2>2 DEF WriterOK, Locked
<1> QED
  BY <1>3, <1>4, <1>5, <1>6, <1>7 DEF IInv

(* After the directory fsync every state that may come back has the event. *)
LEMMA SyncDirIInv == ASSUME IInv, NEW p \in Writer, SyncDir(p) PROVE IInv'
<1> USE DEF Proc
<1>1. /\ pc[p] = "syncdir" /\ pc[p] \in Locked /\ disk' = {dir} /\ dir \in disk
      /\ UNCHANGED <<dir, synced, torn, made, seen, acked, faults>>
  BY DEF SyncDir, Locked, IInv, DirsOK
<1>2. CASE Finish(p, "io")
  BY <1>1, <1>2, FinishKeeps DEF IInv, TypeOK, Outcome
<1>3. CASE pc' = [pc EXCEPT ![p] = "return"] /\ UNCHANGED <<lock, call, base, tmp, out>>
  <2>1. TypeOK'
    BY <1>1, <1>3 DEF IInv, TypeOK, PC
  <2>2. DirsOK' /\ ContentOK' /\ ReceiptsOK'
    BY <1>1, <1>3 DEF IInv, DirsOK, ContentOK, ReceiptsOK
  <2>3. LockOK' /\ RequestOK'
    BY <1>1, <1>3 DEF IInv, TypeOK, LockOK, RequestOK, Locked
  <2>4. WriterOK'
    <3>1. \A q \in Proc : q # p => pc'[q] \notin Locked
      BY <1>1, <1>3, OneInLock DEF IInv, TypeOK
    <3>2. pc'[p] = "return" /\ \A d \in disk' : Target(p)' \in Names(d)
      BY <1>1, <1>3 DEF IInv, TypeOK, WriterOK, Target
    <3> QED
      BY <3>1, <3>2 DEF WriterOK, Locked
  <2> QED
    BY <2>1, <2>2, <2>3, <2>4 DEF IInv
<1> QED
  BY <1>2, <1>3 DEF SyncDir

(* A receipt of a written event is returned only after that fsync. *)
LEMMA ReturnIInv == ASSUME IInv, NEW p \in Writer, Return(p) PROVE IInv'
<1> USE DEF Proc
<1> DEFINE a == [name |-> Target(p), path |-> "written"]
<1>1. /\ pc[p] = "return" /\ pc[p] \in Locked /\ Finish(p, "ok") /\ acked' = acked \union {a}
      /\ UNCHANGED <<dir, disk, synced, torn, made, seen, faults>>
  BY DEF Return, Locked
<1>2. \A d \in disk : Target(p) \in Names(d)
  BY <1>1 DEF IInv, WriterOK
<1>3. a \in [name : Chain, path : {"written", "replayed"}] /\ a.name = Target(p)
  BY AppendFacts DEF IInv, TypeOK, Target
<1> HIDE DEF a
<1>4. ReceiptsOK'
  BY <1>1, <1>2, <1>3 DEF IInv, ReceiptsOK
<1>5. acked' \in SUBSET [name : Chain, path : {"written", "replayed"}]
  BY <1>1, <1>3 DEF IInv, TypeOK
<1> QED
  BY <1>1, <1>4, <1>5, FinishKeeps DEF IInv, TypeOK, DirsOK, Outcome

(* A reader changes nothing but its own program counter, view and result. *)
LEMMA ReadIInv == ASSUME IInv, NEW p \in Reader, ReadList(p) \/ ReadStep(p) PROVE IInv'
<1> USE DEF Proc
<1> DEFINE View == [names : SUBSET Chain, temps : SUBSET Inode, twins : SUBSET Inode,
                    acked : SUBSET Chain]
<1>1. UNCHANGED ReadVars
  BY DEF ReadList, ReadStep, ReadStat, ReadReplay, ReadTemps, ReadMatch, ReadDeliver
<1>2. NoView \in View /\ Names(dir) \subseteq Chain /\ seen[p] \in View
  BY DEF NoView, Names, IInv, TypeOK, Directory, File
<1>3. \E v \in View : seen' = [seen EXCEPT ![p] = v]
  <2>1. CASE ReadList(p)
    <3> DEFINE v == [names |-> Names(dir), temps |-> dir.temps, twins |-> {},
                     acked |-> {a.name : a \in {b \in acked : b.path = "written"}}]
    <3>1. v \in View
      BY <1>2 DEF IInv, TypeOK, Directory
    <3> QED
      BY <2>1, <3>1 DEF ReadList
  <2>2. CASE seen' = [seen EXCEPT ![p] = NoView] \/ UNCHANGED seen
    BY <1>2, <2>2 DEF IInv, TypeOK
  <2>3. CASE ReadReplay(p)
    <3> DEFINE read == {f \in dir.final : f.name \in seen[p].names}
               v == [seen[p] EXCEPT !.twins = {f.ino : f \in read} \intersect Twins(dir)]
    <3>1. {f.ino : f \in read} \subseteq Inode
      BY DEF IInv, TypeOK, Directory, File
    <3>2. v \in View
      BY <1>2, <3>1
    <3>3. seen' = [seen EXCEPT ![p] = v] \/ seen' = [seen EXCEPT ![p] = NoView]
      BY <2>3 DEF ReadReplay, EndRead, IInv, TypeOK
    <3> QED
      BY <1>2, <3>2, <3>3
  <2> QED
    BY <2>1, <2>2, <2>3 DEF ReadStep, ReadStat, ReadTemps, ReadMatch, ReadDeliver, EndRead
<1>4. \E c \in {"idle", "read_listed", "read_replay", "read_temps", "read_match", "read_deliver"} :
          pc[p] \notin Locked /\ pc' = [pc EXCEPT ![p] = c]
  BY DEF ReadList, ReadStep, ReadStat, ReadReplay, ReadTemps, ReadMatch, ReadDeliver, EndRead, Goto,
         Locked
<1>5. out' \in [Proc -> Outcome]
  BY DEF ReadList, ReadStep, ReadStat, ReadReplay, ReadTemps, ReadMatch, ReadDeliver, EndRead, Goto,
         Outcome, IInv, TypeOK
<1>6. TypeOK'
  BY <1>1, <1>3, <1>4, <1>5 DEF IInv, TypeOK, ReadVars, PC
<1>7. DirsOK' /\ ContentOK' /\ ReceiptsOK'
  BY <1>1 DEF IInv, DirsOK, ContentOK, ReceiptsOK, ReadVars
<1>8. LockOK'
  BY <1>1, <1>4 DEF IInv, TypeOK, LockOK, ReadVars, Locked
<1>9. WriterOK' /\ RequestOK'
  BY <1>1, <1>4 DEF IInv, TypeOK, WriterOK, RequestOK, ReadVars, Target
<1> QED
  BY <1>6, <1>7, <1>8, <1>9 DEF IInv

(* A failed system call leaves what was published and frees the lock. *)
LEMMA IOErrorIInv == ASSUME IInv, NEW p \in Writer, IOError(p) PROVE IInv'
<1> USE DEF Proc
<1> DEFINE x == [dir EXCEPT !.temps = @ \ {tmp[p]}]
<1>1. /\ pc[p] \in Locked /\ Finish(p, "io") /\ faults' \in Nat
      /\ UNCHANGED <<synced, torn, made, seen, acked>> /\ dir \in disk
  BY DEF IOError, Fault, Locked, IInv, TypeOK, DirsOK
<1>2. CASE UNCHANGED <<dir, disk>>
  BY <1>1, <1>2, FinishKeeps DEF IInv, Outcome
<1>3. CASE dir' = x /\ disk' = disk \union {x}
  <2>1. x \in Directory /\ DirOK(x, synced, made) /\ Names(x) = Names(dir)
    BY DirDropTemp DEF IInv, TypeOK, DirsOK
  <2> HIDE DEF x
  <2>2. Created \in Event /\ <<Created>> \in Chain
    BY DEF Event, Chain
  <2>3. TypeOK'
    BY <1>1, <1>3, <2>1, <2>2 DEF IInv, TypeOK, Finish, PC, Outcome, Inode
  <2>4. DirsOK' /\ ContentOK' /\ ReceiptsOK'
    BY <1>1, <1>3, <2>1 DEF IInv, DirsOK, ContentOK, ReceiptsOK
  <2>5. LockOK'
    BY <1>1, ProcAssumption DEF IInv, TypeOK, LockOK, Finish, Locked
  <2>6. WriterOK' /\ RequestOK'
    <3>1. \A q \in Proc : pc'[q] \notin Locked
      BY <1>1, OneInLock DEF IInv, TypeOK, Finish, Locked
    <3>2. RequestOK'
      BY <1>1, <3>1 DEF IInv, TypeOK, RequestOK, Finish
    <3> QED
      BY <3>1, <3>2 DEF WriterOK, Locked
  <2> QED
    BY <2>3, <2>4, <2>5, <2>6 DEF IInv
<1> QED
  BY <1>2, <1>3 DEF IOError, SetDir

(* The kernel frees the lock of a killed process; its files stay. *)
LEMMA KillIInv == ASSUME IInv, NEW p \in Proc, Kill(p) PROVE IInv'
<1>1. Created \in Event /\ <<Created>> \in Chain
  BY DEF Event, Chain
<1>2. TypeOK'
  BY <1>1 DEF IInv, TypeOK, Kill, Fault, PC, Outcome, Inode, NoView
<1>3. DirsOK' /\ ContentOK' /\ ReceiptsOK'
  BY DEF IInv, DirsOK, ContentOK, ReceiptsOK, Kill
<1>4. LockOK'
  BY ProcAssumption DEF IInv, TypeOK, LockOK, Kill, Locked
<1>5. WriterOK' /\ RequestOK'
  BY DEF IInv, TypeOK, WriterOK, RequestOK, Kill, Target
<1> QED
  BY <1>2, <1>3, <1>4, <1>5 DEF IInv

(* After a power loss one of the directory states that may come back is there. *)
LEMMA PowerLossIInv == ASSUME IInv, PowerLoss PROVE IInv'
<1>1. Created \in Event /\ <<Created>> \in Chain
  BY DEF Event, Chain
<1>2. TypeOK'
  BY <1>1 DEF IInv, TypeOK, PowerLoss, Fault, PC, Outcome, Inode, NoView
<1>3. DirsOK' /\ ReceiptsOK'
  BY DEF IInv, DirsOK, ReceiptsOK, PowerLoss
<1>4. ContentOK'
  BY DEF IInv, TypeOK, ContentOK, PowerLoss
<1>5. LockOK'
  BY ProcAssumption DEF IInv, LockOK, PowerLoss, Locked
<1>6. WriterOK' /\ RequestOK'
  BY DEF WriterOK, RequestOK, PowerLoss
<1> QED
  BY <1>2, <1>3, <1>4, <1>5, <1>6 DEF IInv

-----------------------------------------------------------------------------
(* IInv is an invariant of every behaviour of the journal. *)
THEOREM Inductive == Spec => []IInv
<1>1. IInv /\ [Next]_vars => IInv'
  <2> SUFFICES ASSUME IInv, [Next]_vars PROVE IInv'
    OBVIOUS
  <2>1. CASE UNCHANGED vars
    BY <2>1 DEF vars, IInv, TypeOK, DirsOK, ContentOK, LockOK, WriterOK, RequestOK, ReceiptsOK, Target
  <2>2. ASSUME NEW p \in Writer, NEW e \in Request, Call(p, e) PROVE IInv'
    BY <2>2, CallIInv
  <2>3. ASSUME NEW p \in Writer, AppendStep(p) PROVE IInv'
    BY <2>3, AcquireIInv, LockTimeoutIInv, ProjectIInv, CreateTempIInv, SyncTempIInv, LinkIInv,
       UnlinkIInv, SyncDirIInv, ReturnIInv DEF AppendStep
  <2>4. ASSUME NEW p \in Writer, IOError(p) PROVE IInv'
    BY <2>4, IOErrorIInv
  <2>5. ASSUME NEW p \in Reader, ReadList(p) \/ ReadStep(p) PROVE IInv'
    BY <2>5, ReadIInv
  <2>6. ASSUME NEW p \in Proc, Kill(p) PROVE IInv'
    BY <2>6, KillIInv
  <2>7. CASE PowerLoss
    BY <2>7, PowerLossIInv
  <2> QED
    BY <2>1, <2>2, <2>3, <2>4, <2>5, <2>6, <2>7 DEF Next
<1> QED
  BY InitIInv, <1>1, PTL DEF Spec

(* Every variable keeps its type. *)
THEOREM TypeCorrect == Spec => []TypeOK
BY Inductive, PTL DEF IInv

(* Whatever is killed, fails or is lost, the journal _append projects      *)
(* under the lock is one unforked, intact history: no event_id twice,      *)
(* nothing after a terminal event, no more events than the policy allows.  *)
THEOREM Healthy == Spec => []JournalHealthy
<1>1. IInv => JournalHealthy
  BY WellFormedProjects DEF IInv, JournalHealthy
<1> QED
  BY Inductive, <1>1, PTL

(* Between its projection and os.link a writer of _append has the newest   *)
(* history, so its publication never meets an existing name.               *)
THEOREM Current == Spec => []WriterIsCurrent
<1>1. IInv => WriterIsCurrent
  <2> SUFFICES ASSUME IInv, NEW p \in Proc, pc[p] \in {"create", "sync", "link"}
               PROVE  base[p] = Log(Names(dir)) /\ Target(p) \notin Names(dir)
    BY DEF WriterIsCurrent
  <2>1. /\ base[p] \in Names(dir) /\ \A d \in Names(dir) : Len(d) <= Len(base[p])
        /\ base[p] \in Chain /\ call[p] \in Event
    BY DEF IInv, WriterOK, TypeOK
  <2>2. Names(dir) \subseteq Chain /\ HasNewest(Names(dir))
        /\ \A c, d \in Names(dir) : Len(c) = Len(d) => c = d
    <3>1. Names(dir) \subseteq Chain
      BY DEF IInv, TypeOK, Directory, File, Names
    <3> QED
      BY <3>1 DEF IInv, DirsOK, DirOK, Replayable
  <2>3. Log(Names(dir)) \in Names(dir) /\ \A d \in Names(dir) : Len(d) <= Len(Log(Names(dir)))
    BY <2>2, LogIsNewest
  <2>4. base[p] = Log(Names(dir))
    BY <2>1, <2>2, <2>3 DEF Chain
  <2>5. Len(Target(p)) = Len(base[p]) + 1 /\ Len(base[p]) \in Nat
    BY <2>1, AppendFacts DEF Target
  <2> QED
    BY <2>1, <2>4, <2>5
<1> QED
  BY Inductive, <1>1, PTL

(* A receipt returned by the _append that wrote the event survives every   *)
(* later kill, I/O error and power loss.                                   *)
THEOREM Durable == Spec => []WrittenReceiptsLast
<1>1. IInv => WrittenReceiptsLast
  BY DEF IInv, DirsOK, ReceiptsOK, WrittenReceiptsLast
<1> QED
  BY Inductive, <1>1, PTL

(* What a step may do to the directory: unless the power is lost it is     *)
(* left alone, loses or gains a temporary name, or gains a final name.     *)
LEMMA DirSteps ==
    ASSUME IInv, Next, ~PowerLoss
    PROVE  /\ Names(dir) \subseteq Names(dir')
           /\ disk' = disk \/ disk' = disk \union {dir'} \/ disk' = {dir'}
<1>1. dir \in Directory
  BY DEF IInv, TypeOK
<1>2. \/ dir' = dir
      \/ \E t : dir' = [dir EXCEPT !.temps = t]
      \/ \E h : dir' = [dir EXCEPT !.final = @ \union {h}]
  BY DEF Next, AppendStep, ReadStep, Call, Acquire, LockTimeout, Project, CreateTemp, SyncTemp,
         Link, Unlink, SyncDir, Return, ReadList, ReadStat, ReadReplay, ReadTemps, ReadMatch,
         ReadDeliver, ReadVars, IOError, Kill, SetDir
<1>3. Names(dir) \subseteq Names(dir')
  BY <1>1, <1>2 DEF Names, Directory
<1>4. disk' = disk \/ disk' = disk \union {dir'} \/ disk' = {dir'}
  BY DEF Next, AppendStep, ReadStep, Call, Acquire, LockTimeout, Project, CreateTemp, SyncTemp,
         Link, Unlink, SyncDir, Return, ReadList, ReadStat, ReadReplay, ReadTemps, ReadMatch,
         ReadDeliver, ReadVars, IOError, Kill, SetDir
<1> QED
  BY <1>3, <1>4

(* No step of the SDK removes or replaces a published event. *)
THEOREM NeverRewritten == Spec => AppendOnly
<1>1. IInv /\ [Next]_vars => [Names(dir) \subseteq Names(dir') \/ PowerLoss]_vars
  BY DirSteps
<1> QED
  BY Inductive, <1>1, PTL DEF Spec, AppendOnly

-----------------------------------------------------------------------------
(* Unlocked readers.  A reader's listing was a part of the directory when  *)
(* it was made and stays one, because published names stay; it holds the   *)
(* receipts of that moment, because they were in the directory.            *)

Reading == {"read_listed", "read_replay", "read_temps", "read_match", "read_deliver"}
Replayed == {"read_temps", "read_match", "read_deliver"}

ReadersOK ==
    \A p \in Proc :
        /\ pc[p] \in Reading => /\ seen[p].acked \subseteq seen[p].names
                                /\ seen[p].names \subseteq Names(dir)
        /\ pc[p] \in Replayed => Replayable(seen[p].names)

(* A step that starts no read and moves no reader on keeps the views.      *)
LEMMA ViewsStay ==
    ASSUME IInv, ReadersOK, Names(dir) \subseteq Names(dir'),
           \A q \in Proc : pc'[q] \in Reading => pc'[q] = pc[q] /\ seen'[q] = seen[q]
    PROVE  ReadersOK'
<1> SUFFICES ASSUME NEW q \in Proc, pc'[q] \in Reading
             PROVE  /\ seen'[q].acked \subseteq seen'[q].names /\ seen'[q].names \subseteq Names(dir')
                    /\ pc'[q] \in Replayed => Replayable(seen'[q].names)
  BY DEF ReadersOK, Reading, Replayed
<1> QED
  BY DEF ReadersOK

(* A writer's step moves nobody into or inside a read. *)
LEMMA WriterStepViews ==
    ASSUME IInv, NEW p \in Writer, (\E e \in Request : Call(p, e)) \/ AppendStep(p) \/ IOError(p)
    PROVE  \A q \in Proc : pc'[q] \in Reading => pc'[q] = pc[q] /\ seen'[q] = seen[q]
<1> USE DEF Proc
<1>1. seen' = seen
  BY DEF AppendStep, Call, Acquire, LockTimeout, Project, CreateTemp, SyncTemp, Link, Unlink,
         SyncDir, Return, IOError
<1>2. \E to \in {"idle", "acquire", "project", "create", "sync", "link", "unlink", "syncdir", "return"} :
          pc' = [pc EXCEPT ![p] = to]
  BY DEF AppendStep, Call, Acquire, LockTimeout, Project, CreateTemp, SyncTemp, Link, Unlink,
         SyncDir, Return, IOError, Goto, Finish, Replay, Refuse, Accept
<1> QED
  BY <1>1, <1>2 DEF IInv, TypeOK, Reading

(* A reader's listing, and each of its passes over it. *)
LEMMA ReadStepViews ==
    ASSUME IInv, ReadersOK, NEW p \in Reader, ReadList(p) \/ ReadStep(p)
    PROVE  ReadersOK'
<1> USE DEF Proc
<1>1. dir' = dir /\ acked' = acked
  BY DEF ReadList, ReadStep, ReadStat, ReadReplay, ReadTemps, ReadMatch, ReadDeliver, ReadVars
<1>2. \A q \in Proc : q # p => pc'[q] = pc[q] /\ seen'[q] = seen[q]
  BY DEF ReadList, ReadStep, ReadStat, ReadReplay, ReadTemps, ReadMatch, ReadDeliver, EndRead, Goto,
         IInv, TypeOK
<1>3. /\ pc'[p] \in Reading => /\ seen'[p].acked \subseteq seen'[p].names
                               /\ seen'[p].names \subseteq Names(dir)
      /\ pc'[p] \in Replayed => Replayable(seen'[p].names)
  <2>1. CASE ReadList(p)
    <3>1. /\ pc'[p] = "read_listed" /\ seen'[p].names = Names(dir)
          /\ seen'[p].acked = {a.name : a \in {b \in acked : b.path = "written"}}
      BY <2>1 DEF ReadList, Goto, IInv, TypeOK
    <3>2. \A a \in acked : a.path = "written" => a.name \in Names(dir)
      BY DEF IInv, DirsOK, ReceiptsOK
    <3> QED
      BY <3>1, <3>2 DEF Replayed
  <2>2. CASE pc'[p] = "idle"
    BY <2>2 DEF Reading, Replayed
  <2>3. CASE ReadStat(p) /\ pc'[p] # "idle"
    <3>1. pc[p] = "read_listed" /\ pc'[p] = "read_replay" /\ seen' = seen
      BY <2>3 DEF ReadStat, EndRead, IInv, TypeOK
    <3> QED
      BY <3>1 DEF ReadersOK, Reading, Replayed
  <2>4. CASE ReadReplay(p) /\ pc'[p] # "idle"
    <3>1. /\ pc[p] = "read_replay" /\ pc'[p] = "read_temps" /\ Replayable(seen[p].names)
          /\ \E t : seen' = [seen EXCEPT ![p].twins = t]
      BY <2>4 DEF ReadReplay, EndRead, IInv, TypeOK
    <3>2. seen'[p].names = seen[p].names /\ seen'[p].acked = seen[p].acked
      BY <3>1 DEF IInv, TypeOK
    <3> QED
      BY <3>1, <3>2 DEF ReadersOK, Reading, Replayed
  <2>5. CASE (ReadTemps(p) \/ ReadMatch(p)) /\ pc'[p] # "idle"
    <3>1. pc[p] \in {"read_temps", "read_match"} /\ seen' = seen
      BY <2>5 DEF ReadTemps, ReadMatch, EndRead, IInv, TypeOK
    <3> QED
      BY <3>1 DEF ReadersOK, Reading, Replayed
  <2>6. CASE ReadDeliver(p)
    BY <2>2, <2>6 DEF ReadDeliver, EndRead, IInv, TypeOK
  <2> QED
    BY <2>1, <2>2, <2>3, <2>4, <2>5, <2>6 DEF ReadStep
<1> SUFFICES ASSUME NEW q \in Proc
             PROVE  /\ pc'[q] \in Reading => /\ seen'[q].acked \subseteq seen'[q].names
                                             /\ seen'[q].names \subseteq Names(dir')
                    /\ pc'[q] \in Replayed => Replayable(seen'[q].names)
  BY DEF ReadersOK
<1>4. CASE q = p
  BY <1>1, <1>3, <1>4
<1>5. CASE q # p
  BY <1>1, <1>2, <1>5 DEF ReadersOK
<1> QED
  BY <1>4, <1>5

(* An unlocked read delivers a history of this journal that holds every    *)
(* write whose receipt was returned before the read began.                 *)
THEOREM Fresh == Spec => []ReadsAreFresh
<1>1. Init => ReadersOK
  BY DEF Init, ReadersOK, Reading, Replayed
<1>2. IInv /\ ReadersOK /\ [Next]_vars => ReadersOK'
  <2> SUFFICES ASSUME IInv, ReadersOK, [Next]_vars PROVE ReadersOK'
    OBVIOUS
  <2>1. CASE UNCHANGED vars
    BY <2>1, ViewsStay DEF vars
  <2>2. CASE PowerLoss
    BY <2>2 DEF PowerLoss, ReadersOK, Reading, Replayed
  <2>3. ASSUME Next, ~PowerLoss,
               \A q \in Proc : pc'[q] \in Reading => pc'[q] = pc[q] /\ seen'[q] = seen[q]
        PROVE  ReadersOK'
    BY <2>3, DirSteps, ViewsStay
  <2>4. ASSUME NEW p \in Writer, (\E e \in Request : Call(p, e)) \/ AppendStep(p) \/ IOError(p)
        PROVE  ReadersOK'
    BY <2>2, <2>3, <2>4, WriterStepViews DEF Next
  <2>5. ASSUME NEW p \in Reader, ReadList(p) \/ ReadStep(p) PROVE ReadersOK'
    BY <2>5, ReadStepViews
  <2>6. ASSUME NEW p \in Proc, Kill(p) PROVE ReadersOK'
    <3>1. \A q \in Proc : pc'[q] \in Reading => pc'[q] = pc[q] /\ seen'[q] = seen[q]
      BY <2>6 DEF Kill, Reading, IInv, TypeOK
    <3> QED
      BY <2>2, <2>3, <2>6, <3>1 DEF Next
  <2> QED
    BY <2>1, <2>2, <2>4, <2>5, <2>6 DEF Next
<1>3. ReadersOK => ReadsAreFresh
  BY DEF ReadersOK, ReadsAreFresh, Reading, Replayed
<1> QED
  BY Inductive, <1>1, <1>2, <1>3, PTL DEF Spec

-----------------------------------------------------------------------------
(* The journal implements the event log.  A directory state that may come  *)
(* back holds no name that the current one lacks, one of them holds none   *)
(* that any other lacks, and of two names the shorter history is the       *)
(* beginning of the longer.                                                *)

Begins(c, d) == \A i \in 1..Len(c) : c[i] = d[i]

LogOK ==
    /\ \A d \in disk : Names(d) \subseteq Names(dir)
    /\ \E d \in disk : \A e \in disk : Names(d) \subseteq Names(e)
    /\ \A c, d \in Names(dir) : Len(c) <= Len(d) => Begins(c, d)

(* An event appended to the newest history leaves its beginnings alone. *)
LEMMA BeginsGrows ==
    ASSUME NEW N \in SUBSET Chain, NEW b \in N, NEW e \in Event,
           \A d \in N : Len(d) <= Len(b),
           \A c, d \in N : Len(c) <= Len(d) => Begins(c, d)
    PROVE  \A c, d \in N \union {Append(b, e)} : Len(c) <= Len(d) => Begins(c, d)
<1>1. PICK t : t = Append(b, e)
  OBVIOUS
<1>2. t \in Chain /\ Len(t) = Len(b) + 1 /\ Len(b) \in Nat /\ Begins(b, t)
  BY <1>1, AppendFacts DEF Chain, Begins
<1>3. \A c \in N : Len(c) \in Nat /\ Len(c) <= Len(b)
  BY DEF Chain
<1>4. \A c \in N : Begins(c, t)
  <2> TAKE c \in N
  <2>1. Begins(c, b) /\ Len(c) \in Nat /\ Len(c) <= Len(b)
    BY <1>3
  <2> QED
    BY <1>2, <2>1 DEF Begins
<1>5. \A d \in N : ~(Len(t) <= Len(d))
  BY <1>2, <1>3
<1>6. Begins(t, t)
  BY DEF Begins
<1> QED
  BY <1>1, <1>4, <1>5, <1>6

(* The longest of a set of names is its log. *)
LEMMA NewestIsLog ==
    ASSUME NEW N \in SUBSET Chain, \A c, d \in N : Len(c) = Len(d) => c = d,
           NEW b \in N, \A d \in N : Len(d) <= Len(b)
    PROVE  Log(N) = b
<1>1. Log(N) \in N /\ \A d \in N : Len(d) <= Len(Log(N))
  BY LogIsNewest DEF HasNewest
<1> QED
  BY <1>1 DEF Chain

(* The log of a directory state that is or may come back. *)
LEMMA DirLog ==
    ASSUME IInv, NEW d \in disk
    PROVE  /\ Names(d) \in SUBSET Chain
           /\ Log(Names(d)) \in Names(d) /\ Log(Names(d)) \in Chain
           /\ Len(Log(Names(d))) \in Nat
           /\ \A c \in Names(d) : Len(c) <= Len(Log(Names(d)))
           /\ \A c, e \in Names(d) : Len(c) = Len(e) => c = e
<1>1. DirOK(d, synced, made) /\ d \in Directory
  BY DEF IInv, DirsOK, TypeOK
<1>2. Names(d) \in SUBSET Chain
  BY <1>1 DEF Directory, File, Names
<1>3. Log(Names(d)) \in Names(d) /\ \A c \in Names(d) : Len(c) <= Len(Log(Names(d)))
  BY <1>1, LogIsNewest DEF DirOK
<1> QED
  BY <1>1, <1>2, <1>3 DEF DirOK, Replayable, Chain

Lengths == {Len(Log(Names(d))) : d \in disk}

Least == StableLength \in Lengths /\ StableLength \in Nat /\ \A m \in Lengths : StableLength <= m

(* What is stable is the shortest of the histories that may come back. *)
LEMMA StableIsLeast ==
    ASSUME IInv, LogOK
    PROVE  Least
<1>1. \A d \in disk : Len(Log(Names(d))) \in Nat
  BY DirLog
<1>2. \E n \in Lengths : \A m \in Lengths : n <= m
  <2>1. PICK d \in disk : \A e \in disk : Names(d) \subseteq Names(e)
    BY DEF LogOK
  <2>2. Log(Names(d)) \in Names(d)
    BY DirLog
  <2>3. \A e \in disk : Len(Log(Names(d))) <= Len(Log(Names(e)))
    BY <2>1, <2>2, DirLog
  <2> QED
    BY <2>3 DEF Lengths
<1>3. StableLength = CHOOSE n \in Lengths : \A m \in Lengths : n <= m
  BY DEF StableLength, Lengths
<1>4. StableLength \in Lengths /\ \A m \in Lengths : StableLength <= m
  BY <1>2, <1>3
<1> QED
  BY <1>1, <1>4 DEF Lengths, Least

(* A step that leaves the names of the directory alone, and adds to what   *)
(* may come back at most the directory itself, is invisible.               *)
LEMMA Invisible ==
    ASSUME IInv, IInv', LogOK, Names(dir') = Names(dir),
           disk' = disk \/ disk' = disk \union {dir'}
    PROVE  Log(Names(dir'))  = Log(Names(dir)) /\ StableLength' = StableLength
<1>1. dir \in disk
  BY DEF IInv, DirsOK
<1>2. Lengths' = Lengths
  BY <1>1 DEF Lengths
<1>3. StableLength = (CHOOSE n \in Lengths : \A m \in Lengths : n <= m)
      /\ StableLength' = (CHOOSE n \in Lengths' : \A m \in Lengths' : n <= m)
  BY DEF StableLength, Lengths
<1> QED
  BY <1>2, <1>3

(* What os.link publishes. *)
LEMMA LinkNames ==
    ASSUME IInv, NEW p \in Writer, Link(p)
    PROVE  /\ base[p] \in Names(dir) /\ call[p] \in Request /\ Admissible(base[p], call[p])
           /\ \A c \in Names(dir) : Len(c) <= Len(base[p])
           /\ Names(dir') = Names(dir) \union {Append(base[p], call[p])}
           /\ disk' = disk \union {dir'}
<1> USE DEF Proc
<1>1. /\ base[p] \in Names(dir) /\ call[p] \in Request /\ Admissible(base[p], call[p])
      /\ \A c \in Names(dir) : Len(c) <= Len(base[p])
  BY DEF IInv, WriterOK, Link
<1>2. Len(Append(base[p], call[p])) = Len(base[p]) + 1 /\ Len(base[p]) \in Nat
  BY AppendFacts DEF IInv, TypeOK
<1>3. Target(p) \notin Names(dir)
  <2>1. PICK t, b : t = Append(base[p], call[p]) /\ b = base[p]
    OBVIOUS
  <2>2. Len(t) = Len(b) + 1 /\ Len(b) \in Nat /\ \A c \in Names(dir) : Len(c) <= Len(b)
    BY <1>1, <1>2, <2>1
  <2>3. t \notin Names(dir)
    BY <2>2
  <2> QED
    BY <2>1, <2>3 DEF Target
<1>4. /\ dir' = [dir EXCEPT !.final = @ \union {[name |-> Target(p), ino |-> tmp[p]]}]
      /\ disk' = disk \union {dir'}
  BY <1>3 DEF Link, SetDir
<1>5. PICK h : h = [name |-> Target(p), ino |-> tmp[p]]
  OBVIOUS
<1>6. dir'.final = dir.final \union {h} /\ h.name = Target(p)
  BY <1>4, <1>5 DEF IInv, TypeOK, Directory
<1>7. Names(dir') = Names(dir) \union {Target(p)}
  BY <1>6 DEF Names
<1> QED
  BY <1>1, <1>4, <1>7 DEF Target

(* Every other step but a power loss leaves the names alone; all of them   *)
(* but the fsync of the directory only add to what may come back.          *)
LEMMA OtherNames ==
    ASSUME IInv, Next, ~PowerLoss, \A p \in Writer : ~Link(p)
    PROVE  /\ Names(dir') = Names(dir)
           /\ disk' = disk \/ disk' = disk \union {dir'} \/ (disk' = {dir} /\ dir' = dir)
<1>1. dir \in Directory
  BY DEF IInv, TypeOK
<1>2. dir' = dir \/ \E t : dir' = [dir EXCEPT !.temps = t]
  BY DEF Next, AppendStep, ReadStep, Call, Acquire, LockTimeout, Project, CreateTemp, SyncTemp,
         Unlink, SyncDir, Return, ReadList, ReadStat, ReadReplay, ReadTemps, ReadMatch,
         ReadDeliver, ReadVars, IOError, Kill, SetDir
<1>3. Names(dir') = Names(dir)
  BY <1>1, <1>2 DEF Names, Directory
<1>4. disk' = disk \/ disk' = disk \union {dir'} \/ (disk' = {dir} /\ dir' = dir)
  BY DEF Next, AppendStep, ReadStep, Call, Acquire, LockTimeout, Project, CreateTemp, SyncTemp,
         Unlink, SyncDir, Return, ReadList, ReadStat, ReadReplay, ReadTemps, ReadMatch,
         ReadDeliver, ReadVars, IOError, Kill, SetDir
<1> QED
  BY <1>3, <1>4

(* LogOK is kept. *)
LEMMA LogStep == ASSUME IInv, LogOK, [Next]_vars PROVE LogOK'
<1>0. dir \in disk /\ Names(dir) \in SUBSET Chain
  BY DirLog DEF IInv, DirsOK
<1>1. CASE UNCHANGED vars
  BY <1>1 DEF vars, LogOK
<1>2. CASE PowerLoss
  <2>1. PICK d \in disk : dir' = d /\ disk' = {d}
    BY <1>2 DEF PowerLoss
  <2> QED
    BY <2>1 DEF LogOK
<1>3. ASSUME Next, ~PowerLoss PROVE LogOK'
  <2>1. /\ \A d \in disk' : Names(d) \subseteq Names(dir')
        /\ \E d \in disk' : \A e \in disk' : Names(d) \subseteq Names(e)
    <3>1. disk' = disk \/ disk' = disk \union {dir'} \/ disk' = {dir'}
      BY <1>3, DirSteps
    <3>2. PICK d \in disk : \A e \in disk : Names(d) \subseteq Names(e)
      BY DEF LogOK
    <3>3. \A e \in disk : Names(e) \subseteq Names(dir')
      BY <1>3, DirSteps DEF LogOK
    <3> QED
      BY <3>1, <3>2, <3>3
  <2>2. \A c, d \in Names(dir') : Len(c) <= Len(d) => Begins(c, d)
    <3>1. CASE \A p \in Writer : ~Link(p)
      BY <1>3, <3>1, OtherNames DEF LogOK
    <3>2. ASSUME NEW p \in Writer, Link(p)
          PROVE \A c, d \in Names(dir') : Len(c) <= Len(d) => Begins(c, d)
      <4>1. /\ base[p] \in Names(dir) /\ call[p] \in Event
            /\ \A c \in Names(dir) : Len(c) <= Len(base[p])
            /\ Names(dir') = Names(dir) \union {Append(base[p], call[p])}
        BY <3>2, LinkNames DEF Event
      <4>2. PICK N, b, e : N = Names(dir) /\ b = base[p] /\ e = call[p]
        OBVIOUS
      <4>3. \A c, d \in N \union {Append(b, e)} : Len(c) <= Len(d) => Begins(c, d)
        BY <1>0, <4>1, <4>2, BeginsGrows DEF LogOK
      <4> QED
        BY <4>1, <4>2, <4>3
    <3> QED
      BY <3>1, <3>2
  <2> QED
    BY <2>1, <2>2 DEF LogOK
<1> QED
  BY <1>1, <1>2, <1>3

(* os.link is Publish. *)
LEMMA LinkPublishes ==
    ASSUME IInv, IInv', LogOK, LogOK', NEW p \in Writer, Link(p)
    PROVE  /\ Admissible(Log(Names(dir)), call[p]) /\ call[p] \in Request
           /\ Log(Names(dir')) = Append(Log(Names(dir)), call[p])
           /\ StableLength' = StableLength
<1>0. dir \in disk /\ dir' \in disk'
  BY DEF IInv, DirsOK
<1>1. /\ base[p] \in Names(dir) /\ call[p] \in Request /\ Admissible(base[p], call[p])
      /\ \A c \in Names(dir) : Len(c) <= Len(base[p])
      /\ Names(dir') = Names(dir) \union {Append(base[p], call[p])}
      /\ disk' = disk \union {dir'}
  BY LinkNames
<1>2. PICK N, M, b, e, t : N = Names(dir) /\ M = Names(dir') /\ b = base[p] /\ e = call[p]
                           /\ t = Append(b, e)
  OBVIOUS
<1>3. N \in SUBSET Chain /\ \A c, d \in N : Len(c) = Len(d) => c = d
  BY <1>0, <1>2, DirLog
<1>4. M \in SUBSET Chain /\ \A c, d \in M : Len(c) = Len(d) => c = d
  <2>1. (DirOK(dir, synced, made) /\ dir \in Directory)'
    BY DEF IInv, DirsOK, TypeOK
  <2> QED
    BY <1>2, <2>1 DEF DirOK, Replayable, Directory, File, Names
<1>5. Len(t) = Len(b) + 1 /\ Len(b) \in Nat /\ t \in M
  BY <1>1, <1>2, <1>3, AppendFacts DEF Event
<1>6. Log(N) = b
  BY <1>1, <1>2, <1>3, NewestIsLog
<1>7. \A c \in N : Len(c) \in Nat /\ Len(c) <= Len(b)
  BY <1>1, <1>2, <1>3 DEF Chain
<1>8. \A c \in M : Len(c) <= Len(t)
  BY <1>1, <1>2, <1>5, <1>7
<1>9. Log(M) = t
  BY <1>4, <1>5, <1>8, NewestIsLog
<1>10. StableLength' = StableLength
  <2>1. Lengths' = Lengths \union {Len(t)}
    BY <1>1, <1>2, <1>9 DEF Lengths
  <2>2. Len(b) \in Lengths
    BY <1>0, <1>2, <1>6 DEF Lengths
  <2>3. StableLength \in Lengths /\ StableLength \in Nat /\ \A m \in Lengths : StableLength <= m
    BY StableIsLeast DEF Least
  <2>4. PICK n : n = StableLength
    OBVIOUS
  <2>5. n \in Lengths' /\ \A m \in Lengths' : n <= m
    BY <1>5, <2>1, <2>2, <2>3, <2>4
  <2>6. Least'
    BY StableIsLeast, PTL
  <2> QED
    BY <2>3, <2>4, <2>5, <2>6 DEF Least
<1> QED
  BY <1>1, <1>2, <1>6, <1>9, <1>10

(* The fsync of the directory is Flush. *)
LEMMA SyncFlushes ==
    ASSUME IInv, IInv', LogOK', disk' = {dir}, dir' = dir
    PROVE  StableLength' = Len(Log(Names(dir))) /\ Log(Names(dir')) = Log(Names(dir))
<1>1. Lengths' = {Len(Log(Names(dir)))}
  BY DEF Lengths
<1>2. Least'
  BY StableIsLeast, PTL
<1> QED
  BY <1>1, <1>2 DEF Least

(* A power loss cuts off a part that was not flushed. *)
LEMMA PowerLossLoses ==
    ASSUME IInv, IInv', LogOK, LogOK', PowerLoss
    PROVE  \E n \in StableLength..Len(Log(Names(dir))) :
              Log(Names(dir')) = SubSeq(Log(Names(dir)), 1, n) /\ StableLength' = n
<1>1. PICK d \in disk : dir' = d /\ disk' = {d}
  BY DEF PowerLoss
<1>2. PICK l, c, n : l = Log(Names(dir)) /\ c = Log(Names(d)) /\ n = Len(c)
  OBVIOUS
<1>3. dir \in disk
  BY DEF IInv, DirsOK
<1>4. c \in Names(d) /\ c \in Chain /\ n \in Nat
  BY <1>2, DirLog
<1>5. l \in Names(dir) /\ l \in Chain /\ Len(l) \in Nat /\ \A f \in Names(dir) : Len(f) <= Len(l)
  BY <1>2, <1>3, DirLog
<1>6. c \in Names(dir)
  BY <1>4 DEF LogOK
<1>7. n <= Len(l) /\ Begins(c, l)
  BY <1>2, <1>5, <1>6 DEF LogOK
<1>8. StableLength \in Nat /\ StableLength <= n
  <2>1. n \in Lengths
    BY <1>2 DEF Lengths
  <2> QED
    BY <2>1, StableIsLeast DEF Least
<1>9. StableLength' = n
  <2>1. Lengths' = {n}
    BY <1>1, <1>2 DEF Lengths
  <2>2. Least'
    BY StableIsLeast, PTL
  <2> QED
    BY <2>1, <2>2 DEF Least
<1>10. SubSeq(l, 1, n) = c
  <2>1. l \in Seq(Event) /\ c \in Seq(Event) /\ Len(c) = n
    BY <1>2, <1>4, <1>5 DEF Chain
  <2>2. \A i \in 1..n : l[i] \in Event
    BY <1>4, <1>5, <1>7, <2>1, ElementOfSeq
  <2>3. /\ SubSeq(l, 1, n) \in Seq(Event) /\ Len(SubSeq(l, 1, n)) = n
        /\ \A i \in 1..n : SubSeq(l, 1, n)[i] = l[i]
    BY <1>4, <2>2, SubSeqProperties
  <2>4. \A i \in 1..n : SubSeq(l, 1, n)[i] = c[i]
    BY <1>7, <2>1, <2>3 DEF Begins
  <2> QED
    BY <2>1, <2>3, <2>4, SeqEqual
<1> QED
  BY <1>1, <1>2, <1>4, <1>5, <1>7, <1>8, <1>9, <1>10

(* The detailed journal implements the abstract event log: os.link is the  *)
(* moment an event is published, fsync of the directory the moment the log *)
(* is flushed, a power loss cuts off at most what was not, and nothing     *)
(* else that a process, an error or a kill does can be seen in the log.    *)
THEOREM Refinement == Spec => ImplementsEventLog
<1>1. Init => LogOK
  BY DEF Init, LogOK, Names, Begins
<1>2. Init => Abstract!Init
  <2> SUFFICES ASSUME Init PROVE Abstract!Init
    OBVIOUS
  <2>1. dir \in disk /\ disk = {dir} /\ Names(dir) = {<<Created>>}
    BY DEF Init, Names
  <2>2. Log(Names(dir)) = <<Created>>
    BY <2>1, InitIInv, DirLog
  <2>3. Lengths = {Len(<<Created>>)}
    BY <2>1, <2>2 DEF Lengths
  <2>4. StableLength = 1
    BY <1>1, <2>3, InitIInv, StableIsLeast DEF Least
  <2> QED
    BY <2>2, <2>4 DEF Abstract!Init
<1>3. IInv /\ IInv' /\ LogOK /\ LogOK' /\ [Next]_vars => [Abstract!Next]_<<Log(Names(dir)), StableLength>>
  <2> SUFFICES ASSUME IInv, IInv', LogOK, LogOK', [Next]_vars
               PROVE  [Abstract!Next]_<<Log(Names(dir)), StableLength>>
    OBVIOUS
  <2>1. CASE UNCHANGED vars
    BY <2>1, Invisible DEF vars
  <2>2. CASE PowerLoss
    <3>1. PICK n \in StableLength..Len(Log(Names(dir))) :
              Log(Names(dir')) = SubSeq(Log(Names(dir)), 1, n) /\ StableLength' = n
      BY <2>2, PowerLossLoses
    <3> QED
      BY <3>1 DEF Abstract!Next, Abstract!Lose
  <2>3. ASSUME NEW p \in Writer, Link(p) PROVE Abstract!Next
    <3>1. /\ Admissible(Log(Names(dir)), call[p]) /\ call[p] \in Request
          /\ Log(Names(dir')) = Append(Log(Names(dir)), call[p])
          /\ StableLength' = StableLength
      BY <2>3, LinkPublishes
    <3>2. Abstract!Publish(call[p])
      BY <3>1 DEF Abstract!Publish, Abstract!Admissible, Admissible, Abstract!Active, Active,
                  Abstract!Ids, Ids
    <3> QED
      BY <3>1, <3>2 DEF Abstract!Next, Abstract!Request, Request, Abstract!Kind, Kind
  <2>4. ASSUME Next, ~PowerLoss, \A p \in Writer : ~Link(p)
        PROVE  [Abstract!Next]_<<Log(Names(dir)), StableLength>>
    <3>1. /\ Names(dir') = Names(dir)
          /\ disk' = disk \/ disk' = disk \union {dir'} \/ (disk' = {dir} /\ dir' = dir)
      BY <2>4, OtherNames
    <3>2. CASE disk' = disk \/ disk' = disk \union {dir'}
      BY <3>1, <3>2, Invisible
    <3>3. CASE disk' = {dir} /\ dir' = dir
      BY <3>3, SyncFlushes DEF Abstract!Next, Abstract!Flush
    <3> QED
      BY <3>1, <3>2, <3>3
  <2> QED
    BY <2>1, <2>2, <2>3, <2>4
<1>4. IInv /\ LogOK /\ [Next]_vars => LogOK'
  BY LogStep
<1> QED
  BY Inductive, <1>1, <1>2, <1>3, <1>4, PTL DEF Spec, ImplementsEventLog, Abstract!Spec


=============================================================================
