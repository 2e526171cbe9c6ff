--------------------------- MODULE SessionProof ---------------------------
(***************************************************************************)
(* Proofs about sessions: first about ContextSession and the processes of  *)
(* its client, for every set of threads and plans, every set of answers an *)
(* instance may give and every number of calls and faults; then about the  *)
(* binding of sessions to workspaces, SessionBinding, which is another     *)
(* specification with variables of its own.                                *)
(*                                                                         *)
(* In the first part the inductive invariant has two halves.  Contained      *)
(* says, place by place of a call, what is left of the call's process and  *)
(* which error is on its way; it speaks of one thread at a time.           *)
(* SessionOK says who holds the lock, and what the one who holds it may    *)
(* rely on after the call: the properties are read without the lock, the   *)
(* receipt is made before the state is set, and a view is looked at by     *)
(* recover() much later.                                                   *)
(***************************************************************************)
EXTENDS ContextSession, SessionBinding, TLAPS

Ended == {"timeout", "bound"}
Reported == {"execution", "interrupt"}
Places0 == {"return", "seal", "idle"}

(* What is left when a call is over or about to be. *)
Over(l, c, e) ==
    /\ l \in {"none", "dying", "zombie", "reaped"}
    /\ l \in {"dying", "zombie"} => e \in Reported
    /\ e \in Ended => l = "reaped" /\ c = "none"
    /\ e = "unavailable" => l = "none" /\ c = "none"

(* A thread at place p with leader l, child c, request file f and error e. *)
Contained(p, l, c, f, e) ==
    /\ p \in Places0 => ~f /\ Over(l, c, e)
    /\ p = "spawn" => l = "none" /\ c = "none" /\ e = "ok"
    /\ p \in {"loop", "wait"} => l \in {"run", "zombie"} /\ e = "ok"
    /\ p = "kill" => l \in {"run", "zombie"} /\ e \in Ended
    /\ p \in {"reap", "reap2"} => l \in {"dying", "zombie"} /\ c = "none" /\ e \in Ended
    /\ p = "caught" => /\ l \in {"run", "zombie", "reaped"} /\ e \in Ended
                       /\ l = "reaped" => c = "none"
    /\ p = "final" => /\ l \in {"run", "dying", "zombie", "reaped"}
                      /\ e \in {"ok"} \union Ended \union Reported
                      /\ l # "reaped" => e \in Reported
                      /\ e \in Ended => c = "none"
    /\ p = "lastwait" => l \in {"dying", "zombie"} /\ e \in Reported
    /\ p = "unlink" => Over(l, c, e)

ProcessOK == \A t \in Thread : Contained(pc[t], leader[t], child[t], file[t], err[t]) /\ ~signalled[t]

InCall(t) == pc[t] \notin {"idle", "seal"}

LockOK == \A t \in Thread : lock = t <=> pc[t] = "seal" \/ (InCall(t) /\ op[t] # "plan")

CallOK ==
    \A t \in Thread : InCall(t) =>
        /\ op[t] = "view" => state = "executing" /\ ~prepared /\ receipt = None /\ plan # None
        /\ op[t] = "recover" => view # None

SealOK ==
    /\ \A t \in Thread : pc[t] = "seal" => receipt # None
    /\ receipt # None => state \in Terminal \/ \E t \in Thread : pc[t] = "seal"

ViewOwned ==
    /\ view # None => plan # None /\ (prepared \/ receipt # None)
    /\ recovered # None => view # None

Explained ==
    /\ prepared /\ view = None => degradations # {}
    /\ state = "executing" => \/ prepared \/ interrupted \/ receipt # None
                              \/ \E t \in Thread : InCall(t) /\ op[t] = "view"

SessionOK ==
    /\ LockOK /\ CallOK /\ SealOK /\ ViewOwned /\ Explained
    /\ TerminalHasReceipt /\ ReceiptTruthful /\ ViewBound /\ RecoveredExact

SInv == TypeOK /\ ProcessOK /\ SessionOK

-----------------------------------------------------------------------------
(* The process half.                                                       *)

Here(t) == Contained(pc[t], leader[t], child[t], file[t], err[t]) /\ ~signalled[t]

(* A step of thread t touches no other thread's call. *)
Local(t) ==
    \A u \in Thread \ {t} :
        /\ pc'[u] = pc[u] /\ leader'[u] = leader[u] /\ child'[u] = child[u]
        /\ file'[u] = file[u] /\ err'[u] = err[u] /\ signalled'[u] = signalled[u]

(* What a step of t keeps of its own call and leaves alone of the others'  *)
(* is kept for all.                                                        *)
LEMMA ProcessLocal ==
    ASSUME ProcessOK, NEW t \in Thread, Local(t), Here(t)'
    PROVE  ProcessOK'
<1> SUFFICES ASSUME NEW u \in Thread PROVE Here(u)'
  BY DEF ProcessOK, Here
<1>1. CASE u = t
  BY <1>1
<1>2. CASE u # t
  <2>1. /\ pc'[u] = pc[u] /\ leader'[u] = leader[u] /\ child'[u] = child[u]
        /\ file'[u] = file[u] /\ err'[u] = err[u] /\ signalled'[u] = signalled[u]
    BY <1>2 DEF Local
  <2>2. Here(u)
    BY DEF ProcessOK, Here
  <2> QED
    BY <2>1, <2>2 DEF Here
<1> QED
  BY <1>1, <1>2

(* The frame of a step inside the call of t. *)
Inside(t) == ProcessTypeOK' /\ Here(t)' /\ Local(t) /\ InCall(t) /\ InCall(t)' /\ op' = op

(* The start of the process, and what the process and its child do. *)
LEMMA ProcessRuns ==
    ASSUME ProcessTypeOK, NEW t \in Thread, Here(t), pc[t] \notin Places0,
           Popen(t) \/ Fork(t) \/ CloseOutput(t) \/ Exit(t) \/ ChildExit(t)
    PROVE  Inside(t)
<1> USE DEF ProcessTypeOK, Inside, InCall, Places, Places0, Goto, Raise, callVars
<1>1. CASE Popen(t)
  <2>1. ProcessTypeOK' /\ Local(t) /\ InCall(t) /\ op' = op
    BY <1>1 DEF Popen, Local
  <2>2. Here(t)' /\ InCall(t)'
    BY <1>1 DEF Popen, Here, Contained, Over, Ended, Reported
  <2> QED
    BY <2>1, <2>2
<1>2. CASE Fork(t)
  BY <1>2 DEF Fork, Here, Contained, Over, Local, Ended, Reported
<1>3. CASE CloseOutput(t)
  BY <1>3 DEF CloseOutput, Here, Contained, Over, Local, Ended, Reported
<1>4. CASE Exit(t)
  BY <1>4 DEF Exit, Here, Contained, Over, Local, Ended, Reported
<1>5. CASE ChildExit(t)
  BY <1>5 DEF ChildExit, Here, Contained, Over, Local, Ended, Reported
<1> QED
  BY <1>1, <1>2, <1>3, <1>4, <1>5

(* The selector loop and the wait after it. *)
LEMMA LoopRuns ==
    ASSUME ProcessTypeOK, NEW t \in Thread, Here(t),
           WriteInput(t) \/ Drained(t) \/ Deadline(t) \/ OutputBound(t) \/ Fault(t) \/ Wait(t)
    PROVE  Inside(t)
<1> USE DEF ProcessTypeOK, Inside, InCall, Places, Places0, Goto, Raise, callVars, process
<1>1. CASE WriteInput(t)
  BY <1>1 DEF WriteInput, Here, Contained, Over, Local, Ended, Reported
<1>2. CASE Drained(t)
  BY <1>2 DEF Drained, Here, Contained, Over, Local, Ended, Reported
<1>3. CASE Deadline(t)
  BY <1>3 DEF Deadline, Here, Contained, Over, Local, Ended, Reported
<1>4. CASE OutputBound(t)
  BY <1>4 DEF OutputBound, Here, Contained, Over, Local, Ended, Reported
<1>5. CASE Fault(t)
  BY <1>5, ProcessAssumption DEF Fault, Here, Contained, Over, Local, Ended, Reported
<1>6. CASE Wait(t)
  BY <1>6 DEF Wait, Here, Contained, Over, Local, Ended, Reported
<1> QED
  BY <1>1, <1>2, <1>3, <1>4, <1>5, <1>6

(* _kill_and_reap, the first and the second time. *)
LEMMA KillRuns ==
    ASSUME ProcessTypeOK, NEW t \in Thread, Here(t),
           Kill(t) \/ Reap(t) \/ KillAgain(t) \/ ReapAgain(t)
    PROVE  Inside(t)
<1> USE DEF ProcessTypeOK, Inside, InCall, Places, Places0, Goto, Raise, callVars, process
<1>1. CASE Kill(t)
  BY <1>1 DEF Kill, SignalGroup, MaySignal, Here, Contained, Over, Local, Ended, Reported
<1>2. CASE Reap(t)
  BY <1>2 DEF Reap, ReapSignalled, Here, Contained, Over, Local, Ended, Reported
<1>3. CASE KillAgain(t)
  BY <1>3 DEF KillAgain, SignalGroup, MaySignal, Here, Contained, Over, Local, Ended, Reported
<1>4. CASE ReapAgain(t)
  BY <1>4 DEF ReapAgain, ReapSignalled, Here, Contained, Over, Local, Ended, Reported
<1> QED
  BY <1>1, <1>2, <1>3, <1>4

(* The finally block and the removal of the request file. *)
LEMMA EndRuns ==
    ASSUME ProcessTypeOK, NEW t \in Thread, Here(t), Finally(t) \/ LastWait(t) \/ Unlink(t)
    PROVE  Inside(t)
<1> USE DEF ProcessTypeOK, Inside, InCall, Places, Places0, Goto, callVars
<1>1. CASE Finally(t)
  BY <1>1 DEF Finally, Here, Contained, Over, Local, Ended, Reported
<1>2. CASE LastWait(t)
  BY <1>2 DEF LastWait, Here, Contained, Over, Local, Ended, Reported
<1>3. CASE Unlink(t)
  BY <1>3 DEF Unlink, Here, Contained, Over, Local, Ended, Reported
<1> QED
  BY <1>1, <1>2, <1>3

(* Every step of a call in progress. *)
LEMMA CallRuns ==
    ASSUME ProcessTypeOK, NEW t \in Thread, Here(t), Progress(t) \/ Environment(t)
    PROVE  Inside(t)
<1>1. CASE Progress(t)
  <2>1. Popen(t) => pc[t] \notin Places0
    BY DEF Popen, Places0
  <2> QED
    BY <1>1, <2>1, ProcessRuns, LoopRuns, KillRuns, EndRuns DEF Progress
<1>2. CASE Environment(t)
  <2>1. pc[t] \notin Places0
    BY <1>2 DEF Environment, Places0
  <2> QED
    BY <1>2, <2>1, ProcessRuns, LoopRuns DEF Environment
<1> QED
  BY <1>1, <1>2

(* The start of a call, when the one before it is over. *)
LEMMA BeginRuns ==
    ASSUME ProcessTypeOK, NEW t \in Thread, Here(t), NEW o \in {"view", "recover", "plan"},
           Begin(t, o)
    PROVE  /\ ProcessTypeOK' /\ Here(t)' /\ Local(t) /\ pc[t] = "idle" /\ InCall(t)'
           /\ op'[t] = o /\ \A u \in Thread \ {t} : op'[u] = op[u]
<1> USE DEF ProcessTypeOK, InCall, Places, Places0, Goto, Raise
<1>1. ProcessTypeOK'
  BY DEF Begin
<1> QED
  BY <1>1 DEF Begin, Here, Contained, Over, Local, Ended, Reported

(* The end of an operation, or the step between receipt and state: the     *)
(* process of the thread's last call is left as it is.                     *)
Rests(t, place) ==
    /\ place \in {"idle", "seal"} /\ pc[t] \in Places0
    /\ Goto(t, place) /\ UNCHANGED <<process, callVars>>

(* What is over stays over when its thread moves on. *)
LEMMA RestRuns ==
    ASSUME ProcessTypeOK, ProcessOK, NEW t \in Thread, NEW place, Rests(t, place)
    PROVE  /\ ProcessTypeOK' /\ ProcessOK' /\ pc'[t] = place
           /\ \A u \in Thread \ {t} : pc'[u] = pc[u]
<1>1. ProcessTypeOK' /\ Local(t) /\ pc'[t] = place
  BY DEF ProcessTypeOK, Rests, Goto, Places, process, callVars, Local
<1>2. Here(t)'
  BY <1>1 DEF ProcessOK, Here, Contained, Places0, Rests, process, callVars
<1> QED
  BY <1>1, <1>2, ProcessLocal DEF Local

-----------------------------------------------------------------------------
(* Answers.                                                                *)

(* The view v belongs to plan p. *)
Bound(v, p) ==
    /\ v.plan = p
    /\ p.ref \in {None, v.ref} /\ p.digest \in {None, v.source}
    /\ v.digest \in {None, v.text}

(* Whatever an instance answers, context_view returns or carries a view    *)
(* only when the view belongs to the plan it was asked for.                *)
LEMMA AnswerBound ==
    ASSUME NEW p, NEW r, NEW o, o = ContextView(p, r)
    PROVE  /\ o.how \in {"ok"} \union (Note \ {"degraded", "unavailable", "timeout", "oserror"})
           /\ o.how = "ok" \/ o.view # None => o.view = MakeView(p, r) /\ Bound(o.view, p)
<1>1. PICK v : v = MakeView(p, r)
  OBVIOUS
<1>2. /\ v.plan = p /\ v.ref = r.recovery.ref /\ v.source = r.recovery.digest
      /\ v.digest = r.view.digest /\ v.text = r.view.text
  BY <1>1 DEF MakeView
<1>3. CASE ParseResponse(r) # "ok"
  <2>1. o = Refuse(ParseResponse(r))
    BY <1>3 DEF ContextView
  <2>2. ParseResponse(r) \in {"protocol", "unsupported"}
    BY <1>3 DEF ParseResponse
  <2> QED
    BY <1>3, <2>1, <2>2 DEF Refuse, Note
<1>4. CASE /\ ParseResponse(r) = "ok"
           /\ \/ r.records = "none"
              \/ r.recovery.ref \notin r.inv.refs
              \/ p.ref # None /\ p.ref # r.recovery.ref
              \/ p.digest # None /\ p.digest # r.recovery.digest
              \/ ~ViewValid(MakeView(p, r))
  BY <1>4 DEF ContextView, Refuse, Note
<1>5. CASE /\ ParseResponse(r) = "ok"
           /\ ~ (\/ r.records = "none"
                 \/ r.recovery.ref \notin r.inv.refs
                 \/ p.ref # None /\ p.ref # r.recovery.ref
                 \/ p.digest # None /\ p.digest # r.recovery.digest
                 \/ ~ViewValid(MakeView(p, r)))
  <2>1. ViewOK(r.view)
    BY <1>5 DEF ParseResponse
  <2>2. Bound(v, p)
    BY <1>2, <1>5, <2>1 DEF ViewOK, Bound
  <2>3. o = Refuse("integrity") \/ o = StatusError(v)
    BY <1>1, <1>5 DEF ContextView
  <2>4. CASE o = Refuse("integrity")
    BY <2>4 DEF Refuse, Note
  <2>5. CASE o = StatusError(v)
    <3>1. /\ o.how \in {"ok", "policy", "source_unavailable", "rejected", "integrity", "unsupported",
                        "execution"}
          /\ o.view \in {None, v}
          /\ o.how = "ok" => o.view = v
      BY <2>5 DEF StatusError
    <3> QED
      BY <1>1, <2>2, <3>1 DEF Note
  <2> QED
    BY <2>3, <2>4, <2>5
<1> QED
  BY <1>3, <1>4, <1>5

(* What a call of prepare() can end with. *)
LEMMA PrepareOutcome ==
    ASSUME ProcessTypeOK, NEW t \in Thread, plan \in Plan,
           NEW o \in Outcomes(t, {ContextView(plan, r) : r \in Answers})
    PROVE  /\ o.how \in {"ok", "interrupt"} \union (Note \ {"degraded"})
           /\ o.how = "ok" \/ o.view # None => o.view \in View /\ Bound(o.view, plan)
           /\ Unreached(o) => err[t] = o.how
<1>1. err[t] \in {"ok", "timeout", "bound", "unavailable", "execution", "oserror",
                  "interrupt", "protocol", "source_unavailable"}
  BY DEF ProcessTypeOK
<1>2. CASE err[t] = "ok" /\ \E r \in Answers : o = ContextView(plan, r)
  <2>1. PICK r \in Answers : o = ContextView(plan, r)
    BY <1>2
  <2>2. MakeView(plan, r) \in View
    BY DEF View
  <2> QED
    BY <2>1, <2>2, AnswerBound DEF Unreached, Note
<1>3. CASE err[t] = "ok" /\ \E class \in ExitClass : o = Refuse(class)
  BY <1>3 DEF Refuse, ExitClass, Unreached, Note
<1>4. CASE err[t] = "bound" /\ o = Refuse("protocol")
  BY <1>4 DEF Refuse, Unreached, Note
<1>5. CASE err[t] \notin {"ok", "bound"} /\ o = Refuse(err[t])
  BY <1>1, <1>5 DEF Refuse, Unreached, Note
<1> QED
  BY <1>2, <1>3, <1>4, <1>5 DEF Outcomes

(* What recover() returns is the source of the view it was asked about. *)
LEMMA RecoverOutcome ==
    ASSUME NEW t \in Thread, ProcessTypeOK,
           NEW o \in Outcomes(t, {Recover(view.handle, view.ref, view.source, r) : r \in Answers}),
           o.how = "ok"
    PROVE  o.view = [text |-> view.source, ref |-> view.ref, source |-> view.source,
                     handle |-> view.handle]
<1>1. \E r \in Answers : o = Recover(view.handle, view.ref, view.source, r)
  BY DEF Outcomes, Refuse, ExitClass, ProcessTypeOK
<1>2. PICK r \in Answers : o = Recover(view.handle, view.ref, view.source, r)
  BY <1>1
<1> QED
  BY <1>2 DEF Recover, Refuse, ParseResponse


-----------------------------------------------------------------------------
(* The session half.                                                       *)

(* A call inside an operation of the session. *)
Busy(t) == InCall(t) /\ op[t] # "plan"

(* A step that leaves the session alone and moves no thread into or out of *)
(* an operation of it keeps the session half.                              *)
LEMMA SessionFrame ==
    ASSUME SessionOK, UNCHANGED session,
           \A u \in Thread : /\ pc'[u] = "seal" <=> pc[u] = "seal"
                             /\ Busy(u)' <=> Busy(u)
                             /\ Busy(u) => op'[u] = op[u]
    PROVE  SessionOK'
<1> USE DEF session
<1>1. LockOK'
  BY DEF SessionOK, LockOK, Busy
<1>2. CallOK'
  BY DEF SessionOK, CallOK, Busy
<1>3. SealOK' /\ ViewOwned'
  BY DEF SessionOK, SealOK, ViewOwned
<1>4. Explained'
  BY DEF SessionOK, Explained, Busy
<1>5. TerminalHasReceipt' /\ ReceiptTruthful' /\ ViewBound' /\ RecoveredExact'
  BY DEF SessionOK, TerminalHasReceipt, ReceiptTruthful, ViewBound, RecoveredExact
<1> QED
  BY <1>1, <1>2, <1>3, <1>4, <1>5 DEF SessionOK

(* A call in progress goes on. *)
LEMMA RunsInv ==
    ASSUME SInv, NEW t \in Thread, Progress(t) \/ Environment(t), UNCHANGED <<session, calls>>
    PROVE  SInv'
<1>1. ProcessTypeOK /\ Here(t)
  BY DEF SInv, TypeOK, ProcessOK, Here
<1>2. Inside(t)
  BY <1>1, CallRuns
<1>3. ProcessOK'
  BY <1>2, ProcessLocal DEF SInv, Inside
<1>4. TypeOK'
  BY <1>2 DEF SInv, TypeOK, Inside, session
<1>5. SessionOK'
  <2>1. \A u \in Thread : /\ pc'[u] = "seal" <=> pc[u] = "seal"
                          /\ Busy(u)' <=> Busy(u)
                          /\ Busy(u) => op'[u] = op[u]
    BY <1>2 DEF Inside, Local, InCall, Busy
  <2> QED
    BY <2>1, SessionFrame DEF SInv
<1> QED
  BY <1>3, <1>4, <1>5 DEF SInv

(* A plan of the client is asked for beside the session. *)
LEMMA PlanStartInv == ASSUME SInv, NEW t \in Thread, PlanStart(t) PROVE SInv'
<1>1. ProcessTypeOK /\ Here(t) /\ Begin(t, "plan") /\ calls' \in 0..MaxCalls /\ UNCHANGED session
  BY SessionAssumption DEF SInv, TypeOK, ProcessOK, Here, PlanStart, Call
<1>2. /\ ProcessTypeOK' /\ Here(t)' /\ Local(t) /\ pc[t] = "idle" /\ InCall(t)'
      /\ op'[t] = "plan" /\ \A u \in Thread \ {t} : op'[u] = op[u]
  BY <1>1, BeginRuns
<1>3. ProcessOK'
  BY <1>2, ProcessLocal DEF SInv
<1>4. TypeOK'
  BY <1>1, <1>2 DEF SInv, TypeOK, session
<1>5. SessionOK'
  <2>1. \A u \in Thread : /\ pc'[u] = "seal" <=> pc[u] = "seal"
                          /\ Busy(u)' <=> Busy(u)
                          /\ Busy(u) => op'[u] = op[u]
    BY <1>2 DEF Local, InCall, Busy
  <2> QED
    BY <1>1, <2>1, SessionFrame DEF SInv
<1> QED
  BY <1>3, <1>4, <1>5 DEF SInv

(* ... and its answer goes to the caller. *)
LEMMA PlanReturnInv == ASSUME SInv, NEW t \in Thread, PlanReturn(t) PROVE SInv'
<1>1. Rests(t, "idle") /\ op' = op /\ UNCHANGED <<session, calls>>
  BY DEF PlanReturn, Rests, Places0, callVars
<1>2. /\ ProcessTypeOK' /\ ProcessOK' /\ pc'[t] = "idle"
      /\ \A u \in Thread \ {t} : pc'[u] = pc[u]
  BY <1>1, RestRuns DEF SInv, TypeOK
<1>3. TypeOK'
  BY <1>1, <1>2 DEF SInv, TypeOK, session
<1>4. SessionOK'
  <2>1. \A u \in Thread : /\ pc'[u] = "seal" <=> pc[u] = "seal"
                          /\ Busy(u)' <=> Busy(u)
                          /\ Busy(u) => op'[u] = op[u]
    BY <1>1, <1>2 DEF PlanReturn, InCall, Busy
  <2> QED
    BY <1>1, <2>1, SessionFrame DEF SInv
<1> QED
  BY <1>2, <1>3, <1>4 DEF SInv

(* Whoever enters an operation finds nobody else inside one; while the     *)
(* session is not terminal there is then no receipt.                       *)
LEMMA Alone ==
    ASSUME SInv, NEW t \in Thread, Enter(t)
    PROVE  /\ \A u \in Thread : pc[u] # "seal" /\ ~Busy(u)
           /\ state \notin Terminal => receipt = None
<1>1. \A u \in Thread : pc[u] # "seal" /\ ~Busy(u)
  BY ProcessAssumption DEF SInv, SessionOK, LockOK, Enter, Busy
<1> QED
  BY <1>1 DEF SInv, SessionOK, SealOK

(* An intent is planned: nothing refers to a plan yet. *)
LEMMA PlanIntentInv == ASSUME SInv, NEW t \in Thread, NEW p \in Plan, PlanIntent(t, p) PROVE SInv'
<1>1. /\ Enter(t) /\ state \notin Terminal /\ plan = None /\ plan' = p /\ state' = "planned"
      /\ UNCHANGED <<processVars, failOpen, lock, prepared, view, receipt, degradations, recovered,
                     interrupted, calls>>
      /\ UNCHANGED <<pc, op>>
  BY DEF PlanIntent, processVars, callVars
<1>2. receipt = None /\ view = None /\ recovered = None /\ p # None
      /\ \A u \in Thread : pc[u] # "seal" /\ ~Busy(u)
  BY <1>1, Alone, SessionAssumption DEF SInv, SessionOK, ViewOwned
<1>3. TypeOK' /\ ProcessOK'
  BY <1>1 DEF SInv, TypeOK, ProcessTypeOK, ProcessOK, processVars, process, callVars
<1>4. LockOK' /\ CallOK' /\ SealOK'
  BY <1>1, <1>2 DEF SInv, SessionOK, LockOK, CallOK, SealOK, InCall, Busy
<1>5. ViewOwned' /\ Explained'
  BY <1>1, <1>2 DEF SInv, SessionOK, ViewOwned, Explained, InCall
<1>6. TerminalHasReceipt' /\ ReceiptTruthful' /\ ViewBound' /\ RecoveredExact'
  BY <1>1, <1>2 DEF TerminalHasReceipt, ReceiptTruthful, ViewBound, RecoveredExact, Terminal
<1> QED
  BY <1>3, <1>4, <1>5, <1>6 DEF SInv, SessionOK

(* prepare() takes the lock and calls the instance. *)
LEMMA PrepareStartInv == ASSUME SInv, NEW t \in Thread, NEW p \in Plan, PrepareStart(t, p) PROVE SInv'
<1>1. /\ Enter(t) /\ state \notin Terminal /\ ~prepared /\ plan \in {None, p}
      /\ plan' = p /\ state' = "executing" /\ lock' = t /\ Begin(t, "view")
      /\ calls' \in 0..MaxCalls
      /\ UNCHANGED <<failOpen, prepared, view, receipt, degradations, recovered, interrupted>>
  BY SessionAssumption DEF PrepareStart, Call, SInv, TypeOK
<1>2. receipt = None /\ view = None /\ recovered = None /\ p # None
      /\ \A u \in Thread : pc[u] # "seal" /\ ~Busy(u)
  BY <1>1, Alone, SessionAssumption DEF SInv, SessionOK, ViewOwned
<1>3. /\ ProcessTypeOK' /\ Here(t)' /\ Local(t) /\ pc[t] = "idle" /\ InCall(t)'
      /\ op'[t] = "view" /\ \A u \in Thread \ {t} : op'[u] = op[u] /\ pc'[u] = pc[u]
  BY <1>1, BeginRuns DEF SInv, TypeOK, ProcessOK, Here, Local
<1>4. TypeOK' /\ ProcessOK'
  BY <1>1, <1>3, ProcessLocal DEF SInv, TypeOK
<1>5. pc'[t] # "seal" /\ pc'[t] # "idle" /\ \A u \in Thread \ {t} : pc'[u] # "seal" /\ ~Busy(u)'
  BY <1>2, <1>3 DEF InCall, Busy
<1>6. LockOK' /\ CallOK' /\ SealOK'
  BY <1>1, <1>2, <1>3, <1>5 DEF LockOK, CallOK, SealOK, InCall, Busy
<1>7. ViewOwned' /\ Explained'
  BY <1>1, <1>2, <1>3 DEF ViewOwned, Explained
<1>8. TerminalHasReceipt' /\ ReceiptTruthful' /\ ViewBound' /\ RecoveredExact'
  BY <1>1, <1>2 DEF TerminalHasReceipt, ReceiptTruthful, ViewBound, RecoveredExact, Terminal
<1> QED
  BY <1>4, <1>6, <1>7, <1>8 DEF SInv, SessionOK

(* recover() takes the lock and calls the instance. *)
LEMMA RecoverStartInv == ASSUME SInv, NEW t \in Thread, RecoverStart(t) PROVE SInv'
<1>1. /\ Enter(t) /\ view # None /\ lock' = t /\ Begin(t, "recover") /\ calls' \in 0..MaxCalls
      /\ UNCHANGED <<failOpen, state, plan, prepared, view, receipt, degradations, recovered,
                     interrupted>>
  BY SessionAssumption DEF RecoverStart, Call, SInv, TypeOK
<1>2. \A u \in Thread : pc[u] # "seal" /\ ~Busy(u)
  BY <1>1, Alone
<1>3. /\ ProcessTypeOK' /\ Here(t)' /\ Local(t) /\ pc[t] = "idle" /\ InCall(t)'
      /\ op'[t] = "recover" /\ \A u \in Thread \ {t} : op'[u] = op[u] /\ pc'[u] = pc[u]
  BY <1>1, BeginRuns DEF SInv, TypeOK, ProcessOK, Here, Local
<1>4. TypeOK' /\ ProcessOK'
  BY <1>1, <1>3, ProcessLocal DEF SInv, TypeOK
<1>5. pc'[t] # "seal" /\ pc'[t] # "idle" /\ \A u \in Thread \ {t} : pc'[u] # "seal" /\ ~Busy(u)'
  BY <1>2, <1>3 DEF InCall, Busy
<1>6. LockOK' /\ CallOK'
  BY <1>1, <1>3, <1>5 DEF LockOK, CallOK, InCall, Busy
<1>7. SealOK' /\ ViewOwned'
  BY <1>1, <1>2, <1>5 DEF SInv, SessionOK, SealOK, ViewOwned
<1>8. Explained'
  BY <1>1, <1>2 DEF SInv, SessionOK, Explained, Busy
<1>9. TerminalHasReceipt' /\ ReceiptTruthful' /\ ViewBound' /\ RecoveredExact'
  BY <1>1 DEF SInv, SessionOK, TerminalHasReceipt, ReceiptTruthful, ViewBound, RecoveredExact
<1> QED
  BY <1>4, <1>6, <1>7, <1>8, <1>9 DEF SInv, SessionOK

(* close() of a session that has its receipt. *)
LEMMA CloseInv == ASSUME SInv, NEW t \in Thread, Close(t) PROVE SInv'
<1>1. /\ Enter(t) /\ state \in {"completed", "aborted"} /\ state' = "closed"
      /\ UNCHANGED <<processVars, failOpen, lock, plan, prepared, view, receipt, degradations,
                     recovered, interrupted, calls>>
      /\ UNCHANGED <<pc, op>>
  BY DEF Close, processVars, callVars
<1>2. \A u \in Thread : pc[u] # "seal" /\ ~Busy(u)
  BY <1>1, Alone
<1>3. TypeOK' /\ ProcessOK'
  BY <1>1 DEF SInv, TypeOK, ProcessTypeOK, ProcessOK, processVars, process, callVars, Terminal
<1>4. LockOK' /\ CallOK' /\ SealOK'
  BY <1>1, <1>2 DEF SInv, SessionOK, LockOK, CallOK, SealOK, InCall, Busy, Terminal
<1>5. ViewOwned' /\ Explained'
  BY <1>1 DEF SInv, SessionOK, ViewOwned, Explained
<1>6. TerminalHasReceipt' /\ ReceiptTruthful' /\ ViewBound' /\ RecoveredExact'
  BY <1>1 DEF SInv, SessionOK, TerminalHasReceipt, ReceiptTruthful, ViewBound, RecoveredExact, Terminal
<1> QED
  BY <1>3, <1>4, <1>5, <1>6 DEF SInv, SessionOK


(* A receipt made of the plan, the view and the degradations of a session  *)
(* is a receipt, sealed only over a view whose text is the observed one.   *)
LEMMA ReceiptMade ==
    ASSUME plan \in Plan \union {None}, NEW v \in View \union {None}, NEW notes \in SUBSET Note,
           NEW outcome \in Outcome \union {"aborted"}, v # None => v.digest \in {None, v.text},
           NEW r, r = MakeReceipt(outcome, v, notes)
    PROVE  /\ r \in Receipt /\ r # None
           /\ r.outcome = outcome /\ r.plan = plan /\ r.view = v /\ r.degradations = notes
           /\ r.integrity = "sealed" => v # None /\ v.text = v.obs.digest
<1>1. Integrity(v) \in {"sealed", "unsealed"}
  BY DEF Integrity
<1>2. /\ r \in Receipt /\ r.outcome = outcome /\ r.plan = plan /\ r.view = v
      /\ r.degradations = notes /\ r.integrity = Integrity(v)
  BY <1>1 DEF MakeReceipt, Receipt
<1>3. Integrity(v) = "sealed" => v # None /\ v.text = v.obs.digest
  BY DEF Integrity, Verify
<1> QED
  BY <1>2, <1>3, AbsentAssumption

(* complete() and abort() up to the receipt: the session had none, and a   *)
(* completion without a view has a degradation or an interrupt to show.    *)
LEMMA FinishInv ==
    ASSUME SInv, NEW t \in Thread, NEW outcome \in Outcome \union {"aborted"}, Enter(t),
           state \notin Terminal, outcome # "aborted" => state = "executing", Finish(t, outcome)
    PROVE  SInv'
<1>1. /\ receipt' = MakeReceipt(outcome, view, degradations) /\ lock' = t
      /\ Rests(t, "seal") /\ op' = op
      /\ UNCHANGED <<failOpen, state, plan, prepared, view, degradations, recovered, interrupted,
                     calls>>
  BY DEF Finish, Enter, Rests, Places0, callVars
<1>2. receipt = None /\ \A u \in Thread : pc[u] # "seal" /\ ~Busy(u)
  BY Alone
<1>3. /\ ProcessTypeOK' /\ ProcessOK' /\ pc'[t] = "seal" /\ pc[t] = "idle"
      /\ \A u \in Thread \ {t} : pc'[u] = pc[u]
  BY <1>1, RestRuns DEF SInv, TypeOK, Enter
<1>4. PICK r : r = MakeReceipt(outcome, view, degradations)
  OBVIOUS
<1>5. /\ r \in Receipt /\ r # None
      /\ r.outcome = outcome /\ r.plan = plan /\ r.view = view /\ r.degradations = degradations
      /\ r.integrity = "sealed" => view # None /\ view.text = view.obs.digest
  BY <1>4, ReceiptMade DEF SInv, TypeOK, SessionOK, ViewBound
<1>6. receipt' = r
  BY <1>1, <1>4
<1>7. TypeOK'
  BY <1>1, <1>3, <1>5, <1>6 DEF SInv, TypeOK
<1>8. LockOK' /\ CallOK'
  BY <1>1, <1>2, <1>3, ProcessAssumption DEF LockOK, CallOK, InCall, Busy
<1>9. SealOK' /\ ViewOwned'
  BY <1>1, <1>3, <1>5, <1>6 DEF SInv, SessionOK, SealOK, ViewOwned
<1>10. Explained'
  BY <1>1, <1>5, <1>6 DEF SInv, SessionOK, Explained
<1>11. outcome # "aborted" /\ view = None /\ degradations = {} => interrupted
  BY <1>2 DEF SInv, SessionOK, Explained, Busy
<1>12. TerminalHasReceipt' /\ ViewBound' /\ RecoveredExact'
  BY <1>1 DEF SInv, SessionOK, TerminalHasReceipt, ViewBound, RecoveredExact
<1>13. ReceiptTruthful'
  BY <1>1, <1>5, <1>6, <1>11 DEF ReceiptTruthful
<1> QED
  BY <1>3, <1>7, <1>8, <1>9, <1>10, <1>12, <1>13 DEF SInv, SessionOK

(* The state follows the receipt. *)
LEMMA SealInv == ASSUME SInv, NEW t \in Thread, Seal(t) PROVE SInv'
<1>1. /\ pc[t] = "seal" /\ state' = (IF receipt.outcome = "aborted" THEN "aborted" ELSE "completed")
      /\ lock' = None /\ Rests(t, "idle") /\ op' = op
      /\ UNCHANGED <<failOpen, plan, prepared, view, receipt, degradations, recovered, interrupted,
                     calls>>
  BY DEF Seal, Rests, Places0, callVars
<1>2. /\ ProcessTypeOK' /\ ProcessOK' /\ pc'[t] = "idle"
      /\ \A u \in Thread \ {t} : pc'[u] = pc[u]
  BY <1>1, RestRuns DEF SInv, TypeOK
<1>3. lock = t /\ receipt # None /\ \A u \in Thread \ {t} : pc[u] # "seal" /\ ~Busy(u)
  BY <1>1 DEF SInv, SessionOK, LockOK, SealOK, Busy
<1>4. state' \in Terminal /\ state' # "executing"
  BY <1>1 DEF Terminal
<1>5. TypeOK'
  BY <1>1, <1>2, <1>4 DEF SInv, TypeOK
<1>6. LockOK' /\ CallOK'
  BY <1>1, <1>2, <1>3, ProcessAssumption DEF LockOK, CallOK, InCall, Busy
<1>7. SealOK' /\ ViewOwned' /\ Explained'
  BY <1>1, <1>2, <1>3, <1>4 DEF SInv, SessionOK, SealOK, ViewOwned, Explained
<1>8. TerminalHasReceipt' /\ ReceiptTruthful' /\ ViewBound' /\ RecoveredExact'
  BY <1>1, <1>3 DEF SInv, SessionOK, TerminalHasReceipt, ReceiptTruthful, ViewBound, RecoveredExact
<1> QED
  BY <1>2, <1>5, <1>6, <1>7, <1>8 DEF SInv, SessionOK

(* The end of recover(): the view is still the one it was asked about. *)
LEMMA RecoverReturnInv == ASSUME SInv, NEW t \in Thread, RecoverReturn(t) PROVE SInv'
<1>1. /\ pc[t] = "return" /\ op[t] = "recover" /\ lock' = None /\ Rests(t, "idle") /\ op' = op
      /\ UNCHANGED <<failOpen, state, plan, prepared, view, receipt, degradations, interrupted,
                     calls>>
  BY DEF RecoverReturn, Rests, Places0, callVars
<1>2. PICK o \in Outcomes(t, {Recover(view.handle, view.ref, view.source, r) : r \in Answers}) :
          recovered' = IF o.how = "ok" THEN o.view ELSE recovered
  BY DEF RecoverReturn
<1>3. /\ ProcessTypeOK' /\ ProcessOK' /\ pc'[t] = "idle"
      /\ \A u \in Thread \ {t} : pc'[u] = pc[u]
  BY <1>1, RestRuns DEF SInv, TypeOK
<1>4. /\ lock = t /\ view # None /\ view \in View
      /\ \A u \in Thread \ {t} : pc[u] # "seal" /\ ~Busy(u)
  BY <1>1 DEF SInv, TypeOK, SessionOK, LockOK, CallOK, Busy, InCall
<1>5. \/ recovered' = recovered
      \/ recovered' = [text |-> view.source, ref |-> view.ref, source |-> view.source,
                       handle |-> view.handle]
  BY <1>2, RecoverOutcome DEF SInv, TypeOK
<1>6. TypeOK'
  BY <1>1, <1>3, <1>4, <1>5 DEF SInv, TypeOK, Recovered
<1>7. LockOK' /\ CallOK'
  BY <1>1, <1>3, <1>4, ProcessAssumption DEF LockOK, CallOK, InCall, Busy
<1>8. SealOK'
  BY <1>1, <1>3, <1>4 DEF SInv, SessionOK, SealOK
<1>9. ViewOwned'
  BY <1>1, <1>4 DEF SInv, SessionOK, ViewOwned
<1>10. Explained'
  BY <1>1, <1>4 DEF SInv, SessionOK, Explained, Busy
<1>11. TerminalHasReceipt' /\ ReceiptTruthful' /\ ViewBound'
  BY <1>1 DEF SInv, SessionOK, TerminalHasReceipt, ReceiptTruthful, ViewBound
<1>12. RecoveredExact'
  BY <1>1, <1>5 DEF SInv, SessionOK, RecoveredExact
<1> QED
  BY <1>3, <1>6, <1>7, <1>8, <1>9, <1>10, <1>11, <1>12 DEF SInv, SessionOK

(* What prepare() finds after its call: the lock it took, no receipt, no   *)
(* view and nothing recovered, whatever other threads tried meanwhile.     *)
LEMMA PrepareAlone ==
    ASSUME SInv, NEW t \in Thread, pc[t] = "return", op[t] = "view"
    PROVE  /\ lock = t /\ state = "executing" /\ ~prepared /\ receipt = None /\ plan \in Plan
           /\ view = None /\ recovered = None
           /\ \A u \in Thread \ {t} : pc[u] # "seal" /\ ~Busy(u)
<1>1. InCall(t) /\ Busy(t)
  BY DEF InCall, Busy
<1>2. lock = t /\ state = "executing" /\ ~prepared /\ receipt = None /\ plan \in Plan
  BY <1>1 DEF SInv, TypeOK, SessionOK, LockOK, CallOK, Busy
<1>3. view = None /\ recovered = None
  BY <1>2 DEF SInv, SessionOK, ViewOwned
<1>4. \A u \in Thread \ {t} : pc[u] # "seal" /\ ~Busy(u)
  BY <1>2 DEF SInv, SessionOK, LockOK, Busy
<1> QED
  BY <1>2, <1>3, <1>4

(* prepare() goes on after its call, with the view, without one because    *)
(* the instance was not reached, or after an interrupt.                    *)
LEMMA PrepareGoesOn ==
    ASSUME SInv, NEW t \in Thread, pc[t] = "return", op[t] = "view", Rests(t, "idle"), op' = op,
           lock' = None, UNCHANGED <<failOpen, state, plan, receipt, recovered, calls>>,
           view' \in View \union {None}, view' # None => Bound(view', plan) /\ prepared',
           degradations' \subseteq Note, prepared' \in BOOLEAN, interrupted' \in BOOLEAN,
           prepared' \/ interrupted', prepared' /\ view' = None => degradations' # {}
    PROVE  SInv'
<1>1. /\ lock = t /\ state = "executing" /\ ~prepared /\ receipt = None /\ plan \in Plan
      /\ view = None /\ recovered = None
      /\ \A u \in Thread \ {t} : pc[u] # "seal" /\ ~Busy(u)
  BY PrepareAlone
<1>2. /\ ProcessTypeOK' /\ ProcessOK' /\ pc'[t] = "idle"
      /\ \A u \in Thread \ {t} : pc'[u] = pc[u]
  BY RestRuns DEF SInv, TypeOK
<1>3. TypeOK'
  BY <1>1, <1>2 DEF SInv, TypeOK
<1>4. LockOK' /\ CallOK' /\ SealOK'
  BY <1>1, <1>2, ProcessAssumption DEF LockOK, CallOK, SealOK, InCall, Busy
<1>5. ViewOwned' /\ Explained'
  BY <1>1, SessionAssumption DEF ViewOwned, Explained
<1>6. TerminalHasReceipt' /\ ReceiptTruthful' /\ ViewBound' /\ RecoveredExact'
  BY <1>1 DEF TerminalHasReceipt, ReceiptTruthful, ViewBound, RecoveredExact, Terminal, Bound
<1> QED
  BY <1>2, <1>3, <1>4, <1>5, <1>6 DEF SInv, SessionOK

(* _abort_engine_failure: the receipt tells the error, and the view it     *)
(* carried.                                                                *)
LEMMA EngineFailureInv ==
    ASSUME SInv, NEW t \in Thread, pc[t] = "return", op[t] = "view", NEW o,
           o.how \in Note, o.view # None => o.view \in View /\ Bound(o.view, plan),
           AbortEngineFailure(t, o), UNCHANGED <<process, callVars, failOpen, state, plan, recovered, calls>>
    PROVE  SInv'
<1>1. /\ lock = t /\ state = "executing" /\ ~prepared /\ receipt = None /\ plan \in Plan
      /\ view = None /\ recovered = None
      /\ \A u \in Thread \ {t} : pc[u] # "seal" /\ ~Busy(u)
  BY PrepareAlone
<1>2. PICK v, notes : /\ v = (IF ExecutionError(o) /\ o.view # None THEN o.view ELSE view)
                      /\ notes = degradations \union {o.how}
  OBVIOUS
<1>3. /\ view' = v /\ degradations' = notes /\ receipt' = MakeReceipt("aborted", v, notes)
      /\ Rests(t, "seal") /\ op' = op /\ UNCHANGED <<lock, prepared, interrupted>>
  BY <1>2 DEF AbortEngineFailure, Rests, Places0, callVars
<1>4. v \in View \union {None} /\ (v # None => Bound(v, plan)) /\ notes \in SUBSET Note
  BY <1>1, <1>2 DEF SInv, TypeOK
<1>5. PICK r : r = MakeReceipt("aborted", v, notes)
  OBVIOUS
<1>6. /\ r \in Receipt /\ r # None
      /\ r.outcome = "aborted" /\ r.plan = plan /\ r.view = v /\ r.degradations = notes
      /\ r.integrity = "sealed" => v # None /\ v.text = v.obs.digest
  BY <1>1, <1>4, <1>5, ReceiptMade DEF Bound
<1>7. receipt' = r
  BY <1>3, <1>5
<1>8. /\ ProcessTypeOK' /\ ProcessOK' /\ pc'[t] = "seal"
      /\ \A u \in Thread \ {t} : pc'[u] = pc[u]
  BY <1>3, RestRuns DEF SInv, TypeOK
<1>9. TypeOK'
  BY <1>1, <1>3, <1>4, <1>6, <1>7, <1>8 DEF SInv, TypeOK
<1>10. LockOK' /\ CallOK'
  BY <1>1, <1>3, <1>8 DEF LockOK, CallOK, InCall, Busy
<1>11. SealOK' /\ ViewOwned' /\ Explained'
  BY <1>1, <1>3, <1>6, <1>7, <1>8, SessionAssumption DEF SealOK, ViewOwned, Explained
<1>12. TerminalHasReceipt' /\ RecoveredExact'
  BY <1>1 DEF TerminalHasReceipt, RecoveredExact, Terminal
<1>13. ReceiptTruthful'
  BY <1>3, <1>6, <1>7 DEF ReceiptTruthful
<1>14. ViewBound'
  BY <1>3, <1>4 DEF ViewBound, Bound
<1> QED
  BY <1>8, <1>9, <1>10, <1>11, <1>12, <1>13, <1>14 DEF SInv, SessionOK

(* prepare() after its call, whatever the call ended with. *)
LEMMA PrepareReturnInv == ASSUME SInv, NEW t \in Thread, PrepareReturn(t) PROVE SInv'
<1>1. /\ pc[t] = "return" /\ op[t] = "view" /\ op' = op
      /\ UNCHANGED <<process, callVars, failOpen, state, plan, recovered, calls>>
  BY DEF PrepareReturn, callVars
<1>2. plan \in Plan /\ view = None /\ ~prepared /\ ProcessTypeOK /\ degradations \subseteq Note
      /\ interrupted \in BOOLEAN
  BY <1>1, PrepareAlone DEF SInv, TypeOK
<1>3. PICK o \in Outcomes(t, {ContextView(plan, r) : r \in Answers}) :
         \/ /\ o.how = "ok"
            /\ view' = o.view /\ prepared' = TRUE
            /\ degradations' =
                 degradations \union (IF o.view.status = "degraded" THEN {"degraded"} ELSE {})
            /\ Goto(t, "idle") /\ lock' = None
            /\ UNCHANGED <<receipt, interrupted>>
         \/ /\ Unreached(o) /\ failOpen
            /\ degradations' = degradations \union {o.how}
            /\ prepared' = TRUE /\ view' = None
            /\ Goto(t, "idle") /\ lock' = None
            /\ UNCHANGED <<receipt, interrupted>>
         \/ /\ o.how = "interrupt"
            /\ interrupted' = TRUE
            /\ Goto(t, "idle") /\ lock' = None
            /\ UNCHANGED <<view, prepared, degradations, receipt>>
         \/ /\ o.how \notin {"ok", "interrupt"} /\ ~(Unreached(o) /\ failOpen)
            /\ AbortEngineFailure(t, o)
  BY DEF PrepareReturn
<1>4. /\ o.how \in {"ok", "interrupt"} \union (Note \ {"degraded"})
      /\ o.how = "ok" \/ o.view # None => o.view \in View /\ Bound(o.view, plan)
  BY <1>2, <1>3, PrepareOutcome
<1>5. Goto(t, "idle") => Rests(t, "idle")
  BY <1>1 DEF Rests, Places0
<1>6. CASE /\ o.how = "ok" /\ view' = o.view /\ prepared' = TRUE
           /\ degradations' =
                degradations \union (IF o.view.status = "degraded" THEN {"degraded"} ELSE {})
           /\ Goto(t, "idle") /\ lock' = None /\ UNCHANGED <<receipt, interrupted>>
  <2>1. view' \in View /\ view' # None /\ Bound(view', plan)
    BY <1>4, <1>6, AbsentAssumption
  <2>2. degradations' \subseteq Note
    BY <1>2, <1>6 DEF Note
  <2> QED
    BY <1>1, <1>2, <1>5, <1>6, <2>1, <2>2, PrepareGoesOn
<1>7. CASE /\ Unreached(o) /\ failOpen
           /\ degradations' = degradations \union {o.how}
           /\ prepared' = TRUE /\ view' = None
           /\ Goto(t, "idle") /\ lock' = None /\ UNCHANGED <<receipt, interrupted>>
  <2>1. degradations' \subseteq Note /\ degradations' # {}
    BY <1>2, <1>7 DEF Note, Unreached
  <2> QED
    BY <1>1, <1>2, <1>5, <1>7, <2>1, PrepareGoesOn
<1>8. CASE /\ o.how = "interrupt" /\ interrupted' = TRUE
           /\ Goto(t, "idle") /\ lock' = None
           /\ UNCHANGED <<view, prepared, degradations, receipt>>
  <2>1. prepared' = FALSE /\ view' = None /\ degradations' \subseteq Note
    BY <1>2, <1>8 DEF SInv, TypeOK
  <2> QED
    BY <1>1, <1>2, <1>5, <1>8, <2>1, PrepareGoesOn
<1>9. CASE o.how \notin {"ok", "interrupt"} /\ AbortEngineFailure(t, o)
  <2>1. o.how \in Note
    BY <1>4, <1>9
  <2> QED
    BY <1>1, <1>4, <1>9, <2>1, EngineFailureInv
<1> QED
  BY <1>3, <1>6, <1>7, <1>8, <1>9


-----------------------------------------------------------------------------
(* The theorems.                                                           *)

(* A new session, with nothing started, satisfies the invariant. *)
LEMMA InitInv == Init => SInv
<1> SUFFICES ASSUME Init PROVE SInv
  OBVIOUS
<1>1. \A t \in Thread : /\ pc[t] = "idle" /\ leader[t] = "none" /\ child[t] = "none"
                        /\ ~file[t] /\ err[t] = "ok" /\ ~signalled[t]
  BY DEF Init, ProcessInit
<1>2. TypeOK
  <2>1. ProcessTypeOK
    BY ProcessAssumption DEF Init, ProcessInit, ProcessTypeOK, Places
  <2>2. calls \in 0..MaxCalls /\ degradations \subseteq Note
    BY SessionAssumption DEF Init
  <2> QED
    BY <2>1, <2>2 DEF Init, TypeOK
<1>3. ProcessOK
  BY <1>1 DEF ProcessOK, Contained, Places0, Over, Ended
<1>4. SessionOK
  BY <1>1, ProcessAssumption DEF Init, SessionOK, LockOK, CallOK, SealOK, ViewOwned, Explained, InCall,
     TerminalHasReceipt, ReceiptTruthful, ViewBound, RecoveredExact, Terminal
<1> QED
  BY <1>2, <1>3, <1>4 DEF SInv

(* Every step keeps the invariant. *)
LEMMA NextInv == ASSUME SInv, [Next]_vars PROVE SInv'
<1>1. CASE UNCHANGED vars
  <2>1. UNCHANGED <<pc, op, leader, child, file, err, signalled>> /\ UNCHANGED session
    BY <1>1 DEF vars, processVars, process, callVars
  <2>2. TypeOK' /\ ProcessOK'
    BY <1>1 DEF vars, processVars, process, callVars, session, SInv, TypeOK, ProcessTypeOK, ProcessOK
  <2>3. SessionOK'
    BY <2>1, SessionFrame DEF SInv, Busy, InCall
  <2> QED
    BY <2>2, <2>3 DEF SInv
<1>2. ASSUME NEW t \in Thread, Working(t) PROVE SInv'
  BY <1>2, RunsInv, PrepareReturnInv, RecoverReturnInv, PlanReturnInv, SealInv DEF Working
<1>3. ASSUME NEW t \in Thread, Operation(t) PROVE SInv'
  <2>1. ASSUME NEW outcome \in Outcome, Complete(t, outcome) PROVE SInv'
    <3>1. state = "executing" /\ state \notin Terminal
      BY <2>1 DEF Complete, Terminal
    <3> QED
      BY <2>1, <3>1, FinishInv DEF Complete
  <2>2. CASE Abort(t)
    BY <2>2, FinishInv DEF Abort
  <2> QED
    BY <1>3, <2>1, <2>2, PlanIntentInv, PrepareStartInv, RecoverStartInv, CloseInv, PlanStartInv
       DEF Operation
<1>4. ASSUME NEW t \in Thread, Environment(t), UNCHANGED <<session, calls>> PROVE SInv'
  BY <1>4, RunsInv
<1> QED
  BY <1>1, <1>2, <1>3, <1>4 DEF Next

(* SInv is an invariant of every behaviour of the session. *)
THEOREM SessionInductive == Spec => []SInv
BY InitInv, NextInv, PTL DEF Spec

(* Whatever the process and its child do and however the deadline, the     *)
(* output bound, an I/O error or an interrupt falls: no process tree       *)
(* outlives the call that gave it up, only the own group is signalled, and *)
(* no request file is left by SubprocessInstanceClient.                    *)
THEOREM Containment == Spec => []ProcessContained
<1>1. SInv => ProcessContained
  <2> SUFFICES ASSUME SInv PROVE ProcessContained
    OBVIOUS
  <2>1. \A t \in Thread : pc[t] \in Places0 => ~file[t] /\ Over(leader[t], child[t], err[t])
    BY DEF SInv, ProcessOK, Contained
  <2> QED
    BY <2>1 DEF SInv, ProcessOK, ProcessContained, SignalsOwnGroup, TreeEnded, ReturnsClean, Over,
                Ended, Reported, Places0
<1> QED
  BY SessionInductive, <1>1, PTL

(* What a ContextSession tells a reader who takes no lock is true: a       *)
(* terminal state has its receipt, the receipt tells the view and every    *)
(* degradation, the view answers the session's plan whatever the instance  *)
(* answered, and what recover() returned is the source of that view.       *)
THEOREM Honesty == Spec => []SessionHonest
<1>1. SInv => SessionHonest
  BY DEF SInv, SessionOK, SessionHonest
<1> QED
  BY SessionInductive, <1>1, PTL

(* Neither a late answer of the instance nor a second complete() or        *)
(* abort() replaces the receipt of a session.                              *)
THEOREM FixedReceipt == Spec => ReceiptFixed
<1>1. SInv /\ [Next]_vars => [receipt # None => receipt' = receipt]_vars
  <2> SUFFICES ASSUME SInv, Next, receipt # None PROVE receipt' = receipt
    OBVIOUS
  <2>1. ASSUME NEW t \in Thread, Complete(t, "accepted") \/ Complete(t, "rejected") \/ Abort(t)
        PROVE  FALSE
    <3>1. Enter(t) /\ state \notin Terminal
      BY <2>1 DEF Complete, Abort, Terminal
    <3> QED
      BY <3>1, Alone
  <2>2. ASSUME NEW t \in Thread, PrepareReturn(t) PROVE FALSE
    BY <2>2, PrepareAlone DEF PrepareReturn
  <2>3. PICK t \in Thread :
            Working(t) \/ Operation(t) \/ (Environment(t) /\ UNCHANGED <<session, calls>>)
    BY DEF Next
  <2>4. CASE Working(t)
    BY <2>2, <2>4 DEF Working, session, RecoverReturn, PlanReturn, Seal
  <2>5. CASE Operation(t)
    BY <2>1, <2>5 DEF Operation, Outcome, session, PlanIntent, PrepareStart, RecoverStart, Close,
                      PlanStart
  <2>6. CASE UNCHANGED <<session, calls>>
    BY <2>6 DEF session
  <2> QED
    BY <2>3, <2>4, <2>5, <2>6
<1> QED
  BY SessionInductive, <1>1, PTL DEF Spec, ReceiptFixed

(* A session goes on without a view only with fail_open, and only when     *)
(* nothing of the process it gave up is left.                              *)
THEOREM FailOpenClean == Spec => FailOpenLeavesNothing
<1>1. SInv /\ [Next]_vars =>
        [ prepared' /\ ~prepared /\ view' = None =>
            /\ failOpen
            /\ \E t \in Thread :
                 lock = t /\ leader[t] \in {"none", "reaped"} /\ child[t] = "none" ]_vars
  <2> SUFFICES ASSUME SInv, Next, prepared', ~prepared, view' = None
               PROVE  /\ failOpen
                      /\ \E t \in Thread :
                           lock = t /\ leader[t] \in {"none", "reaped"} /\ child[t] = "none"
    OBVIOUS
  <2>1. PICK t \in Thread :
            Working(t) \/ Operation(t) \/ (Environment(t) /\ UNCHANGED <<session, calls>>)
    BY DEF Next
  <2>2. PrepareReturn(t)
    <3>1. prepared' = prepared => FALSE
      OBVIOUS
    <3>2. PrepareReturn(t) \/ prepared' = prepared
      BY <2>1 DEF Working, Operation, session, RecoverReturn, PlanReturn, Seal, PlanIntent,
                  PrepareStart, RecoverStart, Close, PlanStart, Complete, Abort, Finish
    <3> QED
      BY <3>1, <3>2
  <2>3. /\ lock = t /\ plan \in Plan /\ ProcessTypeOK /\ pc[t] = "return"
        /\ Over(leader[t], child[t], err[t])
    BY <2>2, PrepareAlone DEF PrepareReturn, SInv, TypeOK, ProcessOK, Contained, Places0
  <2>4. PICK o \in Outcomes(t, {ContextView(plan, r) : r \in Answers}) :
            \/ o.how = "ok" /\ view' = o.view
            \/ Unreached(o) /\ failOpen
            \/ prepared' = prepared
    BY <2>2 DEF PrepareReturn, AbortEngineFailure
  <2>5. /\ o.how = "ok" => o.view \in View
        /\ Unreached(o) => err[t] = o.how
    BY <2>3, <2>4, PrepareOutcome
  <2>6. Unreached(o) /\ failOpen
    BY <2>4, <2>5, AbsentAssumption
  <2>7. err[t] \in {"unavailable", "timeout"}
    BY <2>5, <2>6 DEF Unreached
  <2> QED
    BY <2>3, <2>6, <2>7 DEF Over, Ended
<1> QED
  BY SessionInductive, <1>1, PTL DEF Spec, FailOpenLeavesNothing

-----------------------------------------------------------------------------
(* The second part: the binding of sessions to workspaces, for every set   *)
(* of threads, sessions and workspaces and every number of restarts.       *)

BindingSteps == {"idle", "rebind", "bind", "append", "register", "unbind"}

BindingTypeOK ==
    /\ durable \in [Workspace -> SUBSET Session]
    /\ binding \in [Session -> Workspace \union {NoWorkspace}]
    /\ runtime \in [Workspace -> SUBSET Session]
    /\ at \in [Attacher -> BindingSteps]
    /\ on \in [Attacher -> Pairs]

Recorded(t) == on[t].session \in durable[on[t].workspace]

(* A thread that rebinds or registers a session has it in the journal. *)
StepsRecorded == \A t \in Attacher : at[t] \in {"rebind", "register"} => Recorded(t)

(* A workspace object registers only what its journal has. *)
RuntimeRecorded == \A w \in Workspace : runtime[w] \subseteq durable[w]

(* Attacher t is still attaching s to w. *)
Attaching(t, s, w) ==
    at[t] \in {"append", "unbind"} /\ on[t].session = s /\ on[t].workspace = w

(* BindingsBacked is not inductive: the thread that backs a binding might  *)
(* attach the session to another workspace, and its append would then      *)
(* leave the binding unbacked.                                             *)
Backed ==
    \A s \in Session : binding[s] # NoWorkspace =>
        s \in durable[binding[s]] \/ \E t \in Attacher : Attaching(t, s, binding[s])

BInv == BindingTypeOK /\ StepsRecorded /\ RuntimeRecorded /\ Backed

(* Nothing is bound, registered or on its way at the start. *)
LEMMA BindingInitInv == BindingInit => BInv
<1>1. SUFFICES ASSUME BindingInit PROVE BInv
  OBVIOUS
<1>2. BindingTypeOK
  BY <1>1 DEF BindingInit, BindingTypeOK, BindingSteps
<1>3. StepsRecorded /\ RuntimeRecorded /\ Backed
  BY <1>1 DEF BindingInit, StepsRecorded, RuntimeRecorded, Backed
<1> QED
  BY <1>2, <1>3 DEF BInv

(* attach_session's look at the binding changes only its own thread. *)
LEMMA CheckBindingInv ==
  ASSUME BInv, NEW t \in Attacher, NEW p \in Pairs, CheckBinding(t, p)
  PROVE  BInv'
<1>1. BindingTypeOK'
  BY DEF BInv, BindingTypeOK, CheckBinding, Proceed, Ends, BindingSteps
<1>2. /\ p.session \in Session /\ p.workspace \in Workspace
      /\ at[t] = "idle" /\ on'[t] = p
      /\ \A u \in Attacher \ {t} : at'[u] = at[u] /\ on'[u] = on[u]
      /\ at'[t] \in {"idle", "bind", "rebind"}
      /\ at'[t] = "rebind" => p.session \in durable[p.workspace]
      /\ UNCHANGED <<durable, binding, runtime>>
  BY DEF BInv, BindingTypeOK, CheckBinding, Proceed, Ends, Pairs
<1>3. StepsRecorded'
  BY <1>2 DEF BInv, StepsRecorded, Recorded
<1>4. RuntimeRecorded'
  BY <1>2 DEF BInv, RuntimeRecorded
<1>5. Backed'
  BY <1>2 DEF BInv, Backed, Attaching
<1> QED
  BY <1>1, <1>3, <1>4, <1>5 DEF BInv

(* start_session's own binding is backed by its thread. *)
LEMMA StartSessionInv ==
  ASSUME BInv, NEW t \in Attacher, NEW p \in Pairs, StartSession(t, p)
  PROVE  BInv'
<1>0. p.session \in Session /\ p.workspace \in Workspace
  BY DEF Pairs
<1>1. BindingTypeOK'
  BY <1>0 DEF BInv, BindingTypeOK, StartSession, Proceed, BindingSteps
<1>2. /\ at[t] = "idle" /\ on'[t] = p /\ at'[t] = "append"
      /\ \A u \in Attacher \ {t} : at'[u] = at[u] /\ on'[u] = on[u]
      /\ binding'[p.session] = p.workspace
      /\ \A s \in Session \ {p.session} : binding'[s] = binding[s]
      /\ UNCHANGED <<durable, runtime>>
  BY <1>0 DEF BInv, BindingTypeOK, StartSession, Proceed
<1>3. StepsRecorded'
  BY <1>2 DEF BInv, StepsRecorded, Recorded
<1>4. RuntimeRecorded'
  BY <1>2 DEF BInv, RuntimeRecorded
<1>5. Attaching(t, p.session, p.workspace)'
  BY <1>2 DEF Attaching
<1>6. Backed'
  BY <1>0, <1>2, <1>5 DEF BInv, Backed, Attaching
<1> QED
  BY <1>1, <1>3, <1>4, <1>6 DEF BInv

(* Binding a recorded session again needs no thread to back it. *)
LEMMA RebindInv ==
  ASSUME BInv, NEW t \in Attacher, Rebind(t)
  PROVE  BInv'
<1>0. on[t].session \in Session /\ on[t].workspace \in Workspace
  BY DEF BInv, BindingTypeOK, Pairs
<1>1. BindingTypeOK'
  BY <1>0 DEF BInv, BindingTypeOK, Rebind, Bind, Proceed, BindingSteps
<1>2. /\ at[t] = "rebind" /\ at'[t] = "register"
      /\ \A u \in Attacher \ {t} : at'[u] = at[u]
      /\ binding'[on[t].session] = on[t].workspace
      /\ \A s \in Session \ {on[t].session} : binding'[s] = binding[s]
      /\ UNCHANGED <<durable, runtime, on>>
  BY <1>0 DEF BInv, BindingTypeOK, Rebind, Bind, Proceed
<1>3. StepsRecorded'
  BY <1>2 DEF BInv, StepsRecorded, Recorded
<1>4. RuntimeRecorded'
  BY <1>2 DEF BInv, RuntimeRecorded
<1>5. on[t].session \in durable[on[t].workspace]
  BY <1>2 DEF BInv, StepsRecorded, Recorded
<1>6. Backed'
  BY <1>0, <1>2, <1>5 DEF BInv, Backed, Attaching
<1> QED
  BY <1>1, <1>3, <1>4, <1>6 DEF BInv

(* A new binding is backed by the thread that is about to append. *)
LEMMA BindNewInv ==
  ASSUME BInv, NEW t \in Attacher, BindNew(t)
  PROVE  BInv'
<1>0. on[t].session \in Session /\ on[t].workspace \in Workspace
  BY DEF BInv, BindingTypeOK, Pairs
<1>1. BindingTypeOK'
  BY <1>0 DEF BInv, BindingTypeOK, BindNew, Bind, Proceed, BindingSteps
<1>2. /\ at[t] = "bind" /\ at'[t] = "append"
      /\ \A u \in Attacher \ {t} : at'[u] = at[u]
      /\ binding'[on[t].session] = on[t].workspace
      /\ \A s \in Session \ {on[t].session} : binding'[s] = binding[s]
      /\ UNCHANGED <<durable, runtime, on>>
  BY <1>0 DEF BInv, BindingTypeOK, BindNew, Bind, Proceed
<1>3. StepsRecorded'
  BY <1>2 DEF BInv, StepsRecorded, Recorded
<1>4. RuntimeRecorded'
  BY <1>2 DEF BInv, RuntimeRecorded
<1>5. Attaching(t, on[t].session, on[t].workspace)'
  BY <1>2 DEF Attaching
<1>6. Backed'
  BY <1>0, <1>2, <1>5 DEF BInv, Backed, Attaching
<1> QED
  BY <1>1, <1>3, <1>4, <1>6 DEF BInv

(* The thread leaves the append towards register only with the session in  *)
(* the journal it attaches to, which is the one its binding names.         *)
LEMMA AppendSessionInv ==
  ASSUME BInv, NEW t \in Attacher, AppendSession(t)
  PROVE  BInv'
<1>0. on[t].session \in Session /\ on[t].workspace \in Workspace
  BY DEF BInv, BindingTypeOK, Pairs
<1>1. BindingTypeOK'
  BY <1>0 DEF BInv, BindingTypeOK, AppendSession, Proceed, BindingSteps
<1>2. /\ at[t] = "append"
      /\ \A u \in Attacher \ {t} : at'[u] = at[u]
      /\ \A w \in Workspace : durable[w] \subseteq durable'[w]
      /\ \/ at'[t] = "unbind"
         \/ at'[t] = "register" /\ on[t].session \in durable'[on[t].workspace]
      /\ UNCHANGED <<binding, runtime, on>>
  BY <1>0 DEF BInv, BindingTypeOK, AppendSession, Proceed
<1>3. StepsRecorded'
  <2> SUFFICES ASSUME NEW u \in Attacher, at'[u] \in {"rebind", "register"}
               PROVE  on[u].session \in durable'[on[u].workspace]
    BY <1>2 DEF StepsRecorded, Recorded
  <2>1. CASE u = t
    BY <1>2, <2>1
  <2>2. CASE u # t
    <3>1. Recorded(u)
      BY <1>2, <2>2 DEF BInv, StepsRecorded
    <3>2. on[u].workspace \in Workspace
      BY DEF BInv, BindingTypeOK, Pairs
    <3> QED
      BY <1>2, <3>1, <3>2 DEF Recorded
  <2> QED
    BY <2>1, <2>2
<1>4. RuntimeRecorded'
  BY <1>2 DEF BInv, RuntimeRecorded
<1>5. Backed'
  <2> SUFFICES ASSUME NEW s \in Session, binding[s] # NoWorkspace
               PROVE  s \in durable'[binding[s]] \/ \E u \in Attacher : Attaching(u, s, binding[s])'
    BY <1>2 DEF Backed, Attaching
  <2>0. binding[s] \in Workspace
    BY DEF BInv, BindingTypeOK
  <2>1. CASE s \in durable[binding[s]]
    BY <1>2, <2>0, <2>1
  <2>2. CASE \E u \in Attacher : Attaching(u, s, binding[s])
    <3>1. PICK u \in Attacher : Attaching(u, s, binding[s])
      BY <2>2
    <3>2. CASE u # t
      BY <1>2, <3>1, <3>2 DEF Attaching
    <3>3. CASE u = t
      BY <1>2, <3>1, <3>3 DEF Attaching
    <3> QED
      BY <3>2, <3>3
  <2> QED
    BY <2>1, <2>2 DEF BInv, Backed
<1> QED
  BY <1>1, <1>3, <1>4, <1>5 DEF BInv

(* What a thread registers is in the journal. *)
LEMMA RegisterSessionInv ==
  ASSUME BInv, NEW t \in Attacher, RegisterSession(t)
  PROVE  BInv'
<1>0. on[t].session \in Session /\ on[t].workspace \in Workspace
  BY DEF BInv, BindingTypeOK, Pairs
<1>1. BindingTypeOK'
  BY <1>0 DEF BInv, BindingTypeOK, RegisterSession, Register, Ends, Proceed, BindingSteps
<1>2. /\ at[t] = "register" /\ at'[t] = "idle"
      /\ \A u \in Attacher \ {t} : at'[u] = at[u]
      /\ runtime'[on[t].workspace] = runtime[on[t].workspace] \union {on[t].session}
      /\ \A w \in Workspace \ {on[t].workspace} : runtime'[w] = runtime[w]
      /\ UNCHANGED <<durable, binding, on>>
  BY <1>0 DEF BInv, BindingTypeOK, RegisterSession, Register, Ends, Proceed
<1>3. StepsRecorded'
  BY <1>2 DEF BInv, StepsRecorded, Recorded
<1>4. on[t].session \in durable[on[t].workspace]
  BY <1>2 DEF BInv, StepsRecorded, Recorded
<1>5. RuntimeRecorded'
  BY <1>0, <1>2, <1>4 DEF BInv, RuntimeRecorded
<1>6. Backed'
  BY <1>2 DEF BInv, Backed, Attaching
<1> QED
  BY <1>1, <1>3, <1>5, <1>6 DEF BInv

(* A failed attachment takes the binding of its session away, and with it  *)
(* the need for a thread that backs it.                                    *)
LEMMA UnbindInv ==
  ASSUME BInv, NEW t \in Attacher, Unbind(t)
  PROVE  BInv'
<1>0. on[t].session \in Session
  BY DEF BInv, BindingTypeOK, Pairs
<1>1. BindingTypeOK'
  BY <1>0 DEF BInv, BindingTypeOK, Unbind, Ends, Proceed, BindingSteps
<1>2. /\ at[t] = "unbind" /\ at'[t] = "idle"
      /\ \A u \in Attacher \ {t} : at'[u] = at[u]
      /\ binding'[on[t].session] = NoWorkspace
      /\ \A s \in Session \ {on[t].session} : binding'[s] = binding[s]
      /\ UNCHANGED <<durable, runtime, on>>
  BY <1>0 DEF BInv, BindingTypeOK, Unbind, Ends, Proceed
<1>3. StepsRecorded'
  BY <1>2 DEF BInv, StepsRecorded, Recorded
<1>4. RuntimeRecorded'
  BY <1>2 DEF BInv, RuntimeRecorded
<1>5. Backed'
  BY <1>0, <1>2 DEF BInv, Backed, Attaching
<1> QED
  BY <1>1, <1>3, <1>4, <1>5 DEF BInv

(* A restart leaves no binding and no registration behind. *)
LEMMA RestartInv ==
  ASSUME BInv, Restart
  PROVE  BInv'
<1>1. BindingTypeOK'
  BY DEF BInv, BindingTypeOK, Restart, BindingSteps
<1>2. StepsRecorded' /\ RuntimeRecorded' /\ Backed'
  BY DEF Restart, StepsRecorded, RuntimeRecorded, Backed
<1> QED
  BY <1>1, <1>2 DEF BInv

(* The inductive invariant holds in every reachable state. *)
THEOREM BindingInductive == BindingSpec => []BInv
<1>1. BindingInit => BInv
  BY BindingInitInv
<1>2. BInv /\ [BindingNext]_bindingVars => BInv'
  <2> SUFFICES ASSUME BInv, [BindingNext]_bindingVars PROVE BInv'
    OBVIOUS
  <2>1. ASSUME NEW t \in Attacher, NEW p \in Pairs, CheckBinding(t, p) PROVE BInv'
    BY <2>1, CheckBindingInv
  <2>2. ASSUME NEW t \in Attacher, NEW p \in Pairs, StartSession(t, p) PROVE BInv'
    BY <2>2, StartSessionInv
  <2>3. ASSUME NEW t \in Attacher, Rebind(t) PROVE BInv'
    BY <2>3, RebindInv
  <2>4. ASSUME NEW t \in Attacher, BindNew(t) PROVE BInv'
    BY <2>4, BindNewInv
  <2>5. ASSUME NEW t \in Attacher, AppendSession(t) PROVE BInv'
    BY <2>5, AppendSessionInv
  <2>6. ASSUME NEW t \in Attacher, RegisterSession(t) PROVE BInv'
    BY <2>6, RegisterSessionInv
  <2>7. ASSUME NEW t \in Attacher, Unbind(t) PROVE BInv'
    BY <2>7, UnbindInv
  <2>8. CASE Restart
    BY <2>8, RestartInv
  <2>9. CASE UNCHANGED bindingVars
    BY <2>9 DEF bindingVars, BInv, BindingTypeOK, StepsRecorded, Recorded, RuntimeRecorded, Backed, Attaching
  <2> QED
    BY <2>1, <2>2, <2>3, <2>4, <2>5, <2>6, <2>7, <2>8, <2>9 DEF BindingNext
<1> QED
  BY <1>1, <1>2, PTL DEF BindingSpec

(* Every entry of _SESSION_BINDINGS stands for an attachment, however the  *)
(* critical sections of attach_session and start_session interleave.       *)
THEOREM AlwaysBacked == BindingSpec => []BindingsBacked
<1>1. BInv => BindingsBacked
  BY DEF BInv, Backed, Attaching, BindingsBacked
<1> QED
  BY <1>1, BindingInductive, PTL

(* commit_context accepts a session only in a workspace whose journal      *)
(* records it.                                                             *)
THEOREM CommitsAttached == BindingSpec => []CommitsAreAttached
<1>1. BInv => CommitsAreAttached
  BY DEF BInv, RuntimeRecorded, CommitsAreAttached, MayCommit
<1> QED
  BY <1>1, BindingInductive, PTL
=============================================================================
