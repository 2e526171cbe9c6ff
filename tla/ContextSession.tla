--------------------------- MODULE ContextSession ---------------------------
(***************************************************************************)
(* One ContextSession (session.py) used by several threads, over the       *)
(* processes of its SubprocessInstanceClient.                              *)
(*                                                                         *)
(* Every operation holds _lock, prepare() and recover() during their whole *)
(* call of the instance; the properties state, view and receipt are read   *)
(* without it, so the two assignments that end a session are two steps.    *)
(* A call that raises without a change of state is not an action.          *)
(* A plan is [ref, digest]: the source reference and digest the host has   *)
(* bound, or None.  An outcome of complete() stands for the pair of the    *)
(* host's outcome and usage.                                               *)
(***************************************************************************)
EXTENDS InstanceProcess

CONSTANTS
    Plan,       \* the intents the host may ask for
    Answers,    \* what an instance may answer
    MaxCalls,   \* bound: how many calls of the instance are made
    Caller      \* bound: the threads that make them

ASSUME SessionAssumption ==
    MaxCalls \in Nat /\ Caller \subseteq Thread /\ None \notin Plan

VARIABLES
    failOpen,   \* _fail_open, set by the constructor
    lock,       \* the holder of _lock
    state, plan, prepared, view, receipt, degradations,
    recovered,  \* what the last successful recover() returned
    interrupted,\* an interrupt has ended a prepare()
    calls

session == <<failOpen, lock, state, plan, prepared, view, receipt, degradations, recovered,
             interrupted>>
vars == <<processVars, session, calls>>

Outcome == {"accepted", "rejected"}
Terminal == {"completed", "aborted", "closed"}

(* The views, degradations, receipts and recovered sources of a session. *)
View == {MakeView(p, r) : p \in Plan, r \in Answers}
Note == {"degraded", "unavailable", "timeout", "execution", "oserror", "protocol", "policy",
         "source_unavailable", "unsupported", "rejected", "integrity"}
Receipt == [outcome : Outcome \union {"aborted"}, plan : Plan \union {None},
            view : View \union {None}, integrity : {"sealed", "unsealed"},
            degradations : SUBSET Note]
Recovered == {[text |-> v.source, ref |-> v.ref, source |-> v.source, handle |-> v.handle] :
                v \in View}

ASSUME AbsentAssumption == None \notin View /\ None \notin Receipt

TypeOK ==
    /\ ProcessTypeOK
    /\ lock \in Thread \union {None}
    /\ state \in {"created", "planned", "executing"} \union Terminal
    /\ plan \in Plan \union {None}
    /\ failOpen \in BOOLEAN /\ prepared \in BOOLEAN /\ interrupted \in BOOLEAN
    /\ view \in View \union {None} /\ receipt \in Receipt \union {None}
    /\ degradations \subseteq Note /\ recovered \in Recovered \union {None}
    /\ calls \in 0..MaxCalls

Init ==
    /\ ProcessInit
    /\ failOpen \in BOOLEAN
    /\ lock = None /\ state = "created" /\ plan = None /\ prepared = FALSE
    /\ view = None /\ receipt = None /\ degradations = {} /\ recovered = None
    /\ interrupted = FALSE /\ calls = 0

(* A free thread enters an operation of the session. *)
Enter(t) == pc[t] = "idle" /\ lock = None

(* A call of the instance starts. *)
Call(t, operation) ==
    /\ calls < MaxCalls /\ calls' = calls + 1
    /\ t \in Caller
    /\ Begin(t, operation)

(* _make_receipt and the checks of ContextReceipt. *)
Integrity(v) == IF v # None /\ Verify(v) THEN "sealed" ELSE "unsealed"

MakeReceipt(outcome, v, notes) ==
    [outcome |-> outcome, plan |-> plan, view |-> v, integrity |-> Integrity(v),
     degradations |-> notes]

PlanIntent(t, p) ==
    /\ Enter(t) /\ state \notin Terminal /\ plan = None
    /\ plan' = p /\ state' = "planned"
    /\ UNCHANGED <<processVars, failOpen, lock, prepared, view, receipt, degradations, recovered,
                   interrupted, calls>>

(* prepare() up to the call: the plan is the one the session has, or the   *)
(* one that is given.                                                      *)
PrepareStart(t, p) ==
    /\ Enter(t) /\ state \notin Terminal /\ ~prepared
    /\ plan \in {None, p}
    /\ plan' = p /\ state' = "executing" /\ lock' = t
    /\ Call(t, "view")
    /\ UNCHANGED <<failOpen, prepared, view, receipt, degradations, recovered, interrupted>>

(* Mutant: a failed execution counts as an instance that was not reached. *)
UnreachedOrFailed(o) == o.how \in {"unavailable", "timeout", "execution"}

(* The instance was not reached, or not in time. *)
Unreached(o) == o.how \in {"unavailable", "timeout"}

(* The classes below InstanceExecutionError, whose view is kept. *)
ExecutionError(o) == o.how \in {"execution", "source_unavailable", "integrity"}

(* _abort_engine_failure, up to the receipt. *)
AbortEngineFailure(t, o) ==
    LET v == IF ExecutionError(o) /\ o.view # None THEN o.view ELSE view
        notes == degradations \union {o.how}
    IN  /\ view' = v /\ degradations' = notes
        /\ receipt' = MakeReceipt("aborted", v, notes)
        /\ Goto(t, "seal")
        /\ UNCHANGED <<lock, prepared, interrupted>>

(* prepare() after the call. *)
PrepareReturn(t) ==
    /\ pc[t] = "return" /\ op[t] = "view"
    /\ \E o \in Outcomes(t, {ContextView(plan, r) : r \in Answers}) :
         \/ /\ o.how = "ok"
            /\ view' = o.view /\ prepared' = TRUE
            /\ degradations' =
                 degradations \union (IF o.view.status = "degraded" THEN {"degraded"} ELSE {})
            /\ Goto(t, "idle") /\ lock' = None
            /\ UNCHANGED <<receipt, interrupted>>
         \/ /\ Unreached(o) /\ failOpen
            /\ degradations' = degradations \union {o.how}
            /\ prepared' = TRUE /\ view' = None
            /\ Goto(t, "idle") /\ lock' = None
            /\ UNCHANGED <<receipt, interrupted>>
         \/ /\ o.how = "interrupt"
            /\ interrupted' = TRUE
            /\ Goto(t, "idle") /\ lock' = None
            /\ UNCHANGED <<view, prepared, degradations, receipt>>
         \/ /\ o.how \notin {"ok", "interrupt"} /\ ~(Unreached(o) /\ failOpen)
            /\ AbortEngineFailure(t, o)
    /\ UNCHANGED <<process, callVars, failOpen, state, plan, recovered, calls>>

(* Mutant: the state is set before the receipt. *)
FinishStateFirst(t, outcome) ==
    /\ state' = IF outcome = "aborted" THEN "aborted" ELSE "completed"
    /\ lock' = t /\ Goto(t, "seal")
    /\ UNCHANGED <<process, callVars, failOpen, receipt, plan, prepared, view, degradations, recovered,
                   interrupted, calls>>

(* complete() and abort(), up to the receipt. *)
Finish(t, outcome) ==
    /\ receipt' = MakeReceipt(outcome, view, degradations)
    /\ lock' = t /\ Goto(t, "seal")
    /\ UNCHANGED <<process, callVars, failOpen, state, plan, prepared, view, degradations, recovered,
                   interrupted, calls>>

(* Mutant: a repeated complete() is not compared with the first one. *)
CompleteAgain(t, outcome) ==
    Enter(t) /\ state \in {"executing", "completed"} /\ Finish(t, outcome)

Complete(t, outcome) == Enter(t) /\ state = "executing" /\ Finish(t, outcome)

Abort(t) == Enter(t) /\ state \notin Terminal /\ Finish(t, "aborted")

(* The state is set after the receipt, and the operation ends. *)
Seal(t) ==
    /\ pc[t] = "seal"
    /\ state' = IF receipt.outcome = "aborted" THEN "aborted" ELSE "completed"
    /\ lock' = None /\ Goto(t, "idle")
    /\ UNCHANGED <<process, callVars, failOpen, plan, prepared, view, receipt, degradations, recovered,
                   interrupted, calls>>

(* recover() of the view of the session. *)
RecoverStart(t) ==
    /\ Enter(t) /\ state \in {"executing", "completed", "aborted"}
    /\ view # None
    /\ lock' = t
    /\ Call(t, "recover")
    /\ UNCHANGED <<failOpen, state, plan, prepared, view, receipt, degradations, recovered, interrupted>>

RecoverReturn(t) ==
    /\ pc[t] = "return" /\ op[t] = "recover"
    /\ \E o \in Outcomes(t, {Recover(view.handle, view.ref, view.source, r) : r \in Answers}) :
         recovered' = IF o.how = "ok" THEN o.view ELSE recovered
    /\ lock' = None /\ Goto(t, "idle")
    /\ UNCHANGED <<process, callVars, failOpen, state, plan, prepared, view, receipt, degradations,
                   interrupted, calls>>

Close(t) ==
    /\ Enter(t) /\ state \in {"completed", "aborted"}
    /\ state' = "closed"
    /\ UNCHANGED <<processVars, failOpen, lock, plan, prepared, view, receipt, degradations, recovered,
                   interrupted, calls>>

(* context_plan and context_plan_sources of the client, beside the session. *)
PlanStart(t) == Call(t, "plan") /\ UNCHANGED session

PlanReturn(t) ==
    /\ pc[t] = "return" /\ op[t] = "plan"
    /\ Goto(t, "idle")
    /\ UNCHANGED <<process, callVars, session, calls>>

Working(t) ==
    \/ Progress(t) /\ UNCHANGED <<session, calls>>
    \/ PrepareReturn(t) \/ RecoverReturn(t) \/ PlanReturn(t) \/ Seal(t)

Operation(t) ==
    \/ \E p \in Plan : PlanIntent(t, p) \/ PrepareStart(t, p)
    \/ \E outcome \in Outcome : Complete(t, outcome)
    \/ Abort(t) \/ RecoverStart(t) \/ Close(t) \/ PlanStart(t)

Next ==
    \E t \in Thread :
      Working(t) \/ Operation(t) \/ (Environment(t) /\ UNCHANGED <<session, calls>>)

(* A thread in a call goes on; the processes and the host may do nothing. *)
Spec == Init /\ [][Next]_vars /\ \A t \in Thread : WF_vars(Working(t))

-----------------------------------------------------------------------------
(* A reader that takes no lock and sees a terminal state also sees the     *)
(* receipt, and one that fits the state.                                   *)
TerminalHasReceipt ==
    state \in Terminal =>
      /\ receipt # None
      /\ state = "aborted" => receipt.outcome = "aborted"
      /\ state = "completed" => receipt.outcome # "aborted"

(* The receipt tells what the session was: its view, every degradation,    *)
(* and no completion without a view and without a degradation, unless an   *)
(* interrupt ended prepare().                                              *)
ReceiptTruthful ==
    receipt # None =>
      /\ receipt.plan = plan /\ receipt.view = view
      /\ receipt.degradations = degradations
      /\ receipt.outcome # "aborted" /\ view = None /\ degradations = {} => interrupted
      /\ receipt.integrity = "sealed" => view # None /\ view.text = view.obs.digest

(* The view of a session answers its own plan, whatever the instance       *)
(* answered: the bound reference and digest, and an untouched text.        *)
ViewBound ==
    view # None =>
      /\ view.plan = plan
      /\ plan.ref \in {None, view.ref} /\ plan.digest \in {None, view.source}
      /\ view.digest \in {None, view.text}

(* recover() returned the source the view was made from. *)
RecoveredExact ==
    recovered # None =>
      /\ recovered.text = view.source /\ recovered.ref = view.ref
      /\ recovered.handle = view.handle

(* However calls end, no process tree outlives the call that gave it up,   *)
(* no number is signalled that belongs to somebody else, and no request    *)
(* file is left.                                                           *)
ProcessContained == SignalsOwnGroup /\ TreeEnded /\ ReturnsClean

(* What a session tells, at any moment and to a reader without the lock,   *)
(* is true: its state, its receipt, its view and what it recovered.        *)
SessionHonest == TypeOK /\ TerminalHasReceipt /\ ReceiptTruthful /\ ViewBound /\ RecoveredExact

(* The receipt of a session never changes: neither a late result of the    *)
(* instance, nor a second complete() or abort(), replaces it.              *)
ReceiptFixed == [][receipt # None => receipt' = receipt]_vars

(* A session goes on without a view only when nothing of the process it    *)
(* gave up is left; a process that could not be reaped ends the session.   *)
FailOpenLeavesNothing ==
    [][ prepared' /\ ~prepared /\ view' = None =>
          /\ failOpen
          /\ \E t \in Thread :
               lock = t /\ leader[t] \in {"none", "reaped"} /\ child[t] = "none" ]_vars

(* Every call ends, although the process may never read, write or exit and *)
(* a child may hold its pipes for ever.                                    *)
CallsEnd == \A t \in Thread : pc[t] # "idle" ~> pc[t] = "idle"
=============================================================================
