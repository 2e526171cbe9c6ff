------------------------- MODULE AgentContextProof -------------------------
(***************************************************************************)
(* The safety of AgentContext for every set of threads, every number of    *)
(* operations, and a cleanup that may fail.                                *)
(***************************************************************************)
EXTENDS AgentContext, FiniteSetTheorems, TLAPS

Where == {"idle", "lock", "check", "too large", "write", "written", "wait", "crashed", "stderr",
          "terminating", "count", "store"}
Errors == {"none", "ok", "closed", "protocol", "timeout", "error", "crashed", "ValueError",
           "swallowed", "cleanup error"}
Endings == {"none", "want", "kill", "reap", "close", "ok", "raise"}

(* The types that the steps of the callers rely on. *)
CallerTypes ==
    /\ closed \in BOOLEAN /\ failure \in BOOLEAN /\ stderr \in BOOLEAN /\ reader \in BOOLEAN
    /\ stray \in BOOLEAN
    /\ lock \in Thread \union {None}
    /\ tlock \in Actor \union {None}
    /\ proc \in {"running", "exited", "reaped"}
    /\ expired \subseteq Request
    /\ wd \in [Request -> {"none", "armed", "fired", "ending", "off"}]
    /\ tp \in [Actor -> Endings]
    /\ pc \in [Thread -> Where]
    /\ op \in [Thread -> {"call", "close", "cancel"}]
    /\ why \in [Thread -> Errors]
    /\ rid \in [Thread -> 0..MaxCalls]
    /\ out \in [Thread -> [op : {"call", "close", "cancel"}, how : Errors \union {"result"},
                           answer : 0..MaxCalls]]
    /\ snap \in [Thread -> Nat]
    /\ next \in Nat /\ metrics \in Nat /\ done \in Nat /\ started \in 0..MaxCalls

(* The threads that have not yet taken their request number, and those     *)
(* that are in an operation.                                               *)
Unnumbered == {t \in Thread : pc[t] \in {"lock", "check"}}
Busy == {t \in Thread : pc[t] # "idle"}

(* Every operation takes at most one number and counts at most once, so    *)
(* the number of started operations bounds both.                           *)
Counted ==
    /\ IsFiniteSet(Unnumbered) /\ next + Cardinality(Unnumbered) <= started
    /\ IsFiniteSet(Busy) /\ done + Cardinality(Busy) <= started
    /\ metrics <= done
    /\ \A t \in Thread : snap[t] <= done

(* Only the owner of the terminate lock is between its first signal and    *)
(* the end of the cleanup, and the process is reaped after its last one.   *)
CleanupOwned ==
    /\ \A x \in Actor : tp[x] \in {"kill", "reap", "close"} => tlock = x
    /\ \A x \in Actor : tp[x] \in {"kill", "reap"} => proc # "reaped"
    /\ ~stray

(* A cleanup that reports no failure has reaped the process. *)
CleanupDone ==
    /\ \A x \in Actor : tp[x] = "close" => proc = "reaped" \/ failure
    /\ \A x \in Actor : tp[x] = "ok" => proc = "reaped"
    /\ \A t \in Thread : out[t].how = "ok" => proc = "reaped"

(* A thread in an operation has no result yet, and after the answer was    *)
(* matched it keeps the number it was matched with.                        *)
AnswerKept ==
    \A t \in Thread :
        /\ pc[t] # "idle" => out[t].how = "none"
        /\ pc[t] \in {"count", "store"} => out[t].answer = rid[t]
        /\ out[t].how = "result" => out[t].answer = rid[t]

IInv == CallerTypes /\ Counted /\ CleanupOwned /\ CleanupDone /\ AnswerKept

(* What leaves an exchange without _terminate() does: the thread ends its  *)
(* operation with this error, or close() begins to terminate.              *)
LEMMA LeaveEffect ==
  ASSUME CallerTypes, NEW t \in Thread, NEW how \in Errors, Leave(t, how)
  PROVE  /\ closed' \in BOOLEAN /\ lock' \in Thread \union {None}
         /\ pc' \in [Thread -> Where] /\ tp' \in [Actor -> Endings] /\ why' \in [Thread -> Errors]
         /\ out' \in [Thread -> [op : {"call", "close", "cancel"}, how : Errors \union {"result"},
                                 answer : 0..MaxCalls]]
         /\ \A u \in Thread \ {t} : pc'[u] = pc[u] /\ out'[u] = out[u]
         /\ \A x \in Actor : tp'[x] = tp[x] \/ tp'[x] = "want"
         /\ \/ pc'[t] = "terminating" /\ out'[t] = out[t]
            \/ pc'[t] = "idle" /\ out'[t].how = how /\ out'[t].answer = rid[t]
<1>0. t \in Actor
  BY DEF Actor
<1>1. CASE op[t] = "close"
  <2>1. /\ closed' = TRUE /\ lock' = lock /\ out' = out
        /\ pc' = [pc EXCEPT ![t] = "terminating"]
        /\ tp' = [tp EXCEPT ![t] = "want"]
        /\ why' = [why EXCEPT ![t] = IF how = "ValueError" THEN how ELSE "ok"]
    BY <1>1 DEF Leave, Terminate, Goto
  <2>2. pc' \in [Thread -> Where] /\ pc'[t] = "terminating"
        /\ \A u \in Thread \ {t} : pc'[u] = pc[u]
    BY <2>1 DEF CallerTypes, Where
  <2>3. tp' \in [Actor -> Endings] /\ \A x \in Actor : tp'[x] = tp[x] \/ tp'[x] = "want"
    BY <1>0, <2>1 DEF CallerTypes, Endings
  <2>4. (IF how = "ValueError" THEN how ELSE "ok") \in Errors
    BY DEF Errors
  <2>5. why' \in [Thread -> Errors]
    BY <2>1, <2>4 DEF CallerTypes
  <2> QED
    BY <2>1, <2>2, <2>3, <2>5 DEF CallerTypes
<1>2. CASE op[t] # "close"
  <2>1. /\ closed' = closed /\ lock' = None /\ tp' = tp /\ why' = why
        /\ pc' = [pc EXCEPT ![t] = "idle"]
        /\ out' = [out EXCEPT ![t] = [op |-> op[t], how |-> how, answer |-> rid[t]]]
    BY <1>2 DEF Leave, Goto, Result
  <2>2. [op |-> op[t], how |-> how, answer |-> rid[t]]
            \in [op : {"call", "close", "cancel"}, how : Errors \union {"result"},
                 answer : 0..MaxCalls]
    BY DEF CallerTypes
  <2>3. pc' \in [Thread -> Where] /\ pc'[t] = "idle" /\ \A u \in Thread \ {t} : pc'[u] = pc[u]
    BY <2>1 DEF CallerTypes, Where
  <2>4. /\ out' \in [Thread -> [op : {"call", "close", "cancel"}, how : Errors \union {"result"},
                                answer : 0..MaxCalls]]
        /\ out'[t].how = how /\ out'[t].answer = rid[t]
        /\ \A u \in Thread \ {t} : out'[u] = out[u]
    BY <2>1, <2>2 DEF CallerTypes
  <2> QED
    BY <2>1, <2>3, <2>4 DEF CallerTypes
<1> QED
  BY <1>1, <1>2

(* A call that starts the cleanup wants it, and nobody is moved but its    *)
(* thread.                                                                 *)
LEMMA TerminateEffect ==
  ASSUME CallerTypes, NEW t \in Thread, NEW how \in Errors, Terminate(t, how)
  PROVE  /\ pc' \in [Thread -> Where] /\ tp' \in [Actor -> Endings] /\ why' \in [Thread -> Errors]
         /\ \A u \in Thread \ {t} : pc'[u] = pc[u]
         /\ \A x \in Actor : tp'[x] = tp[x] \/ tp'[x] = "want"
         /\ pc'[t] = "terminating"
<1>0. t \in Actor
  BY DEF Actor
<1>1. pc' \in [Thread -> Where] /\ pc'[t] = "terminating" /\ \A u \in Thread \ {t} : pc'[u] = pc[u]
  BY DEF CallerTypes, Where, Terminate, Goto
<1>2. tp' \in [Actor -> Endings] /\ \A x \in Actor : tp'[x] = tp[x] \/ tp'[x] = "want"
  BY <1>0 DEF CallerTypes, Endings, Terminate
<1>3. why' \in [Thread -> Errors]
  BY DEF CallerTypes, Terminate
<1> QED
  BY <1>1, <1>2, <1>3

(* A move of one thread to another place. *)
LEMMA GotoEffect ==
  ASSUME CallerTypes, NEW t \in Thread, NEW to \in Where, Goto(t, to)
  PROVE  pc' \in [Thread -> Where] /\ pc'[t] = to /\ \A u \in Thread \ {t} : pc'[u] = pc[u]
BY DEF CallerTypes, Goto

(* A watchdog that is disarmed keeps its type. *)
LEMMA DisarmEffect ==
  ASSUME CallerTypes, NEW i, Disarm(i)
  PROVE  wd' \in [Request -> {"none", "armed", "fired", "ending", "off"}]
BY DEF CallerTypes, Disarm

(* A step of thread t outside the cleanup: nobody enters the cleanup, and  *)
(* an outcome is an error, the end of the process or a matched answer.     *)
Moves(t) ==
    /\ UNCHANGED <<tlock, failure, proc, stray>>
    /\ \A x \in Actor : tp'[x] = tp[x] \/ tp'[x] \in {"want", "none"}
    /\ \A u \in Thread \ {t} : pc'[u] = pc[u] /\ out'[u] = out[u] /\ rid'[u] = rid[u]
    /\ pc'[t] # "idle" => out'[t].how = "none"
    /\ pc'[t] \in {"count", "store"} => out'[t].answer = rid'[t]
    /\ out'[t].how = "result" => out'[t].answer = rid'[t]
    /\ out'[t].how = "ok" => proc = "reaped"

(* A step outside the cleanup leaves who owns the cleanup, what it         *)
(* confirmed and what each call answers as they were.                      *)
LEMMA MovesInv ==
  ASSUME IInv, NEW t \in Thread, Moves(t)
  PROVE  CleanupOwned' /\ CleanupDone' /\ AnswerKept'
<1>1. CleanupOwned'
  BY DEF IInv, CleanupOwned, Moves
<1>2. CleanupDone'
  BY DEF IInv, CleanupDone, Moves
<1>3. AnswerKept'
  BY DEF IInv, AnswerKept, Moves
<1> QED
  BY <1>1, <1>2, <1>3

(* A call that leaves with an error is such a step. *)
LEMMA LeaveMoves ==
  ASSUME IInv, NEW t \in Thread, NEW how \in Errors \ {"ok"}, Leave(t, how), pc[t] # "idle",
         UNCHANGED <<tlock, failure, proc, stray, rid>>
  PROVE  Moves(t)
<1>1. out[t].how = "none"
  BY DEF IInv, AnswerKept
<1>2. how # "result" /\ how # "ok"
  BY DEF Errors
<1> QED
  BY <1>1, <1>2, LeaveEffect DEF IInv, Moves

(* So is a call that goes into the cleanup. *)
LEMMA TerminateMoves ==
  ASSUME IInv, NEW t \in Thread, NEW how \in Errors, Terminate(t, how), pc[t] # "idle",
         UNCHANGED <<tlock, failure, proc, stray, rid, out>>
  PROVE  Moves(t)
<1>1. out[t].how = "none"
  BY DEF IInv, AnswerKept
<1> QED
  BY <1>1, TerminateEffect DEF IInv, Moves

(* A step that takes no number and counts no result, of a thread that      *)
(* does not begin an operation.                                            *)
Uncounted(t) ==
    /\ UNCHANGED <<next, done, started, metrics, snap>>
    /\ \A u \in Thread \ {t} : pc'[u] = pc[u]
    /\ pc[t] # "idle"
    /\ pc'[t] \in {"lock", "check"} => pc[t] \in {"lock", "check"}

(* A step that takes no number and counts no result keeps the counters of  *)
(* the context right.                                                      *)
LEMMA UncountedInv ==
  ASSUME IInv, NEW t \in Thread, Uncounted(t)
  PROVE  Counted'
<1>1. Unnumbered' \subseteq Unnumbered /\ Busy' \subseteq Busy
  BY DEF Unnumbered, Busy, Uncounted
<1>2. /\ IsFiniteSet(Unnumbered') /\ Cardinality(Unnumbered') <= Cardinality(Unnumbered)
      /\ IsFiniteSet(Busy') /\ Cardinality(Busy') <= Cardinality(Busy)
      /\ Cardinality(Unnumbered) \in Nat /\ Cardinality(Busy) \in Nat
      /\ Cardinality(Unnumbered') \in Nat /\ Cardinality(Busy') \in Nat
  BY <1>1, FS_Subset, FS_CardinalityType DEF IInv, Counted
<1> QED
  BY <1>2 DEF IInv, CallerTypes, Counted, Uncounted

(* The lock is taken, or the context is closed. *)
LEMMA EnterInv ==
  ASSUME IInv, NEW t \in Thread, Enter(t)
  PROVE  IInv'
<1>0. CallerTypes /\ AnswerKept
  BY DEF IInv
<1>1. CallerTypes' /\ Moves(t) /\ Uncounted(t)
  <2>1. CASE ~closed
    <3>1. CallerTypes'
      BY <1>0, <2>1, GotoEffect DEF CallerTypes, Where, Errors, pipes, Enter
    <3>2. Moves(t)
      BY <1>0, <2>1, GotoEffect DEF CallerTypes, AnswerKept, Moves, Where, Errors, pipes, Enter
    <3>3. Uncounted(t)
      BY <1>0, <2>1, GotoEffect DEF Uncounted, Where, Errors, pipes, Enter
    <3> QED
      BY <3>1, <3>2, <3>3
  <2>2. CASE closed /\ op[t] = "close"
    <3>1. CallerTypes'
      BY <1>0, <2>2, TerminateEffect DEF CallerTypes, Where, Errors, pipes, Enter
    <3>2. Moves(t)
      BY <1>0, <2>2, TerminateEffect, TerminateMoves DEF CallerTypes, AnswerKept, Moves, Where, Errors, pipes, Enter
    <3>3. Uncounted(t)
      BY <1>0, <2>2, TerminateEffect DEF Uncounted, Where, Errors, pipes, Enter
    <3> QED
      BY <3>1, <3>2, <3>3
  <2>3. CASE closed /\ op[t] # "close"
    <3>1. CallerTypes'
      BY <1>0, <2>3, LeaveEffect DEF CallerTypes, Where, Errors, pipes, Enter
    <3>2. Moves(t)
      BY <1>0, <2>3, LeaveEffect, LeaveMoves DEF CallerTypes, AnswerKept, Moves, Where, Errors, pipes, Enter
    <3>3. Uncounted(t)
      BY <1>0, <2>3, LeaveEffect DEF Uncounted, Where, Errors, pipes, Enter
    <3> QED
      BY <3>1, <3>2, <3>3
  <2> QED
    BY <2>1, <2>2, <2>3
<1> QED
  BY <1>1, MovesInv, UncountedInv DEF IInv

(* An oversized request leaves the exchange. *)
LEMMA TooLargeInv ==
  ASSUME IInv, NEW t \in Thread, TooLarge(t)
  PROVE  IInv'
<1>1. CallerTypes'
  BY LeaveEffect, LeaveMoves DEF IInv, CallerTypes, Where, Errors, pipes, ending, callers, TooLarge
<1>2. Moves(t)
  BY LeaveEffect, LeaveMoves DEF IInv, CallerTypes, AnswerKept, Moves, Where, Errors, pipes, ending, callers, TooLarge
<1>3. Uncounted(t)
  BY LeaveEffect, LeaveMoves DEF IInv, CallerTypes, Uncounted, Where, Errors, pipes, ending, callers, TooLarge
<1> QED
  BY <1>1, <1>2, <1>3, MovesInv, UncountedInv DEF IInv

(* A written request has disarmed its watchdog. *)
LEMMA WriteInv ==
  ASSUME IInv, NEW t \in Thread, Write(t)
  PROVE  IInv'
<1>1. CallerTypes'
  BY GotoEffect, DisarmEffect DEF IInv, CallerTypes, Where, Errors, pipes, ending, callers, Write
<1>2. Moves(t)
  BY GotoEffect, DisarmEffect DEF IInv, CallerTypes, AnswerKept, Moves, Where, Errors, pipes, ending, callers, Write
<1>3. Uncounted(t)
  BY GotoEffect, DisarmEffect DEF IInv, CallerTypes, Uncounted, Where, Errors, pipes, ending, callers, Write
<1> QED
  BY <1>1, <1>2, <1>3, MovesInv, UncountedInv DEF IInv

(* A broken pipe is a timeout, a closed context or a crash. *)
LEMMA WriteFailsInv ==
  ASSUME IInv, NEW t \in Thread, WriteFails(t)
  PROVE  IInv'
<1>0. CallerTypes /\ AnswerKept
  BY DEF IInv
<1>1. CallerTypes' /\ Moves(t) /\ Uncounted(t)
  <2>1. CASE rid[t] \in expired
    <3>1. CallerTypes'
      BY <1>0, <2>1, LeaveEffect, DisarmEffect DEF CallerTypes, Where, Errors, pipes, WriteFails
    <3>2. Moves(t)
      BY <1>0, <2>1, LeaveEffect, DisarmEffect, LeaveMoves DEF CallerTypes, AnswerKept, Moves, Where, Errors, pipes, WriteFails
    <3>3. Uncounted(t)
      BY <1>0, <2>1, LeaveEffect, DisarmEffect DEF Uncounted, Where, Errors, pipes, WriteFails
    <3> QED
      BY <3>1, <3>2, <3>3
  <2>2. CASE rid[t] \notin expired /\ closed
    <3>1. CallerTypes'
      BY <1>0, <2>2, LeaveEffect, DisarmEffect DEF CallerTypes, Where, Errors, pipes, WriteFails
    <3>2. Moves(t)
      BY <1>0, <2>2, LeaveEffect, DisarmEffect, LeaveMoves DEF CallerTypes, AnswerKept, Moves, Where, Errors, pipes, WriteFails
    <3>3. Uncounted(t)
      BY <1>0, <2>2, LeaveEffect, DisarmEffect DEF Uncounted, Where, Errors, pipes, WriteFails
    <3> QED
      BY <3>1, <3>2, <3>3
  <2>3. CASE rid[t] \notin expired /\ ~closed
    <3>1. CallerTypes'
      BY <1>0, <2>3, GotoEffect DEF CallerTypes, Where, Errors, pipes, WriteFails
    <3>2. Moves(t)
      BY <1>0, <2>3, GotoEffect DEF CallerTypes, AnswerKept, Moves, Where, Errors, pipes, WriteFails
    <3>3. Uncounted(t)
      BY <1>0, <2>3, GotoEffect DEF Uncounted, Where, Errors, pipes, WriteFails
    <3> QED
      BY <3>1, <3>2, <3>3
  <2> QED
    BY <2>1, <2>2, <2>3
<1> QED
  BY <1>1, MovesInv, UncountedInv DEF IInv

(* A request whose watchdog has expired is not waited for. *)
LEMMA WrittenInv ==
  ASSUME IInv, NEW t \in Thread, Written(t)
  PROVE  IInv'
<1>0. CallerTypes /\ AnswerKept
  BY DEF IInv
<1>1. CallerTypes' /\ Moves(t) /\ Uncounted(t)
  <2>1. CASE rid[t] \in expired
    <3>1. CallerTypes'
      BY <1>0, <2>1, LeaveEffect DEF CallerTypes, Where, Errors, pipes, Written
    <3>2. Moves(t)
      BY <1>0, <2>1, LeaveEffect, LeaveMoves DEF CallerTypes, AnswerKept, Moves, Where, Errors, pipes, Written
    <3>3. Uncounted(t)
      BY <1>0, <2>1, LeaveEffect DEF Uncounted, Where, Errors, pipes, Written
    <3> QED
      BY <3>1, <3>2, <3>3
  <2>2. CASE rid[t] \notin expired
    <3>1. CallerTypes'
      BY <1>0, <2>2, GotoEffect DEF CallerTypes, Where, Errors, pipes, Written
    <3>2. Moves(t)
      BY <1>0, <2>2, GotoEffect DEF CallerTypes, AnswerKept, Moves, Where, Errors, pipes, Written
    <3>3. Uncounted(t)
      BY <1>0, <2>2, GotoEffect DEF Uncounted, Where, Errors, pipes, Written
    <3> QED
      BY <3>1, <3>2, <3>3
  <2> QED
    BY <2>1, <2>2
<1> QED
  BY <1>1, MovesInv, UncountedInv DEF IInv

(* A late answer ends the process. *)
LEMMA ResponseTimeoutInv ==
  ASSUME IInv, NEW t \in Thread, ResponseTimeout(t)
  PROVE  IInv'
<1>1. CallerTypes'
  BY TerminateEffect DEF IInv, CallerTypes, Where, Errors, pipes, ending, callers, ResponseTimeout
<1>2. Moves(t)
  BY TerminateEffect DEF IInv, CallerTypes, AnswerKept, Moves, Where, Errors, pipes, ending, callers, ResponseTimeout
<1>3. Uncounted(t)
  BY TerminateEffect DEF IInv, CallerTypes, Uncounted, Where, Errors, pipes, ending, callers, ResponseTimeout
<1> QED
  BY <1>1, <1>2, <1>3, MovesInv, UncountedInv DEF IInv

(* A crash is reported after the cleanup. *)
LEMMA CrashMessageInv ==
  ASSUME IInv, NEW t \in Thread, CrashMessage(t)
  PROVE  IInv'
<1>1. CallerTypes'
  BY TerminateEffect, GotoEffect DEF IInv, CallerTypes, Where, Errors, pipes, ending, callers, CrashMessage
<1>2. Moves(t)
  BY TerminateEffect, GotoEffect DEF IInv, CallerTypes, AnswerKept, Moves, Where, Errors, pipes, ending, callers, CrashMessage
<1>3. Uncounted(t)
  BY TerminateEffect, GotoEffect DEF IInv, CallerTypes, Uncounted, Where, Errors, pipes, ending, callers, CrashMessage
<1> QED
  BY <1>1, <1>2, <1>3, MovesInv, UncountedInv DEF IInv

(* The stderr file may be closed by then. *)
LEMMA ReadStderrInv ==
  ASSUME IInv, NEW t \in Thread, ReadStderr(t)
  PROVE  IInv'
<1>0. CallerTypes /\ AnswerKept
  BY DEF IInv
<1>1. CallerTypes' /\ Moves(t) /\ Uncounted(t)
  <2>1. CASE stderr
    <3>1. CallerTypes'
      BY <1>0, <2>1, TerminateEffect DEF CallerTypes, Where, Errors, pipes, ReadStderr
    <3>2. Moves(t)
      BY <1>0, <2>1, TerminateEffect, TerminateMoves DEF CallerTypes, AnswerKept, Moves, Where, Errors, pipes, ReadStderr
    <3>3. Uncounted(t)
      BY <1>0, <2>1, TerminateEffect DEF Uncounted, Where, Errors, pipes, ReadStderr
    <3> QED
      BY <3>1, <3>2, <3>3
  <2>2. CASE ~stderr
    <3>1. CallerTypes'
      BY <1>0, <2>2, LeaveEffect, DisarmEffect DEF CallerTypes, Where, Errors, pipes, ReadStderr
    <3>2. Moves(t)
      BY <1>0, <2>2, LeaveEffect, DisarmEffect, LeaveMoves DEF CallerTypes, AnswerKept, Moves, Where, Errors, pipes, ReadStderr
    <3>3. Uncounted(t)
      BY <1>0, <2>2, LeaveEffect, DisarmEffect DEF Uncounted, Where, Errors, pipes, ReadStderr
    <3> QED
      BY <3>1, <3>2, <3>3
  <2> QED
    BY <2>1, <2>2
<1> QED
  BY <1>1, MovesInv, UncountedInv DEF IInv

(* A result that does not parse ends the process. *)
LEMMA BadResultInv ==
  ASSUME IInv, NEW t \in Thread, BadResult(t)
  PROVE  IInv'
<1>1. CallerTypes'
  BY TerminateEffect DEF IInv, CallerTypes, Where, Errors, pipes, ending, callers, BadResult
<1>2. Moves(t)
  BY TerminateEffect DEF IInv, CallerTypes, AnswerKept, Moves, Where, Errors, pipes, ending, callers, BadResult
<1>3. Uncounted(t)
  BY TerminateEffect DEF IInv, CallerTypes, Uncounted, Where, Errors, pipes, ending, callers, BadResult
<1> QED
  BY <1>1, <1>2, <1>3, MovesInv, UncountedInv DEF IInv

(* A line from the queue ends the wait: only an answer with the number of   *)
(* the request becomes a result.                                           *)
LEMMA ReceiveInv ==
  ASSUME IInv, NEW t \in Thread, Receive(t)
  PROVE  IInv'
<1> DEFINE line == Head(responses)
<1>0. CallerTypes /\ AnswerKept
  BY DEF IInv
<1>1. /\ pc[t] = "wait"
      /\ UNCHANGED <<stderr, reader, expired, wd, snap, metrics, done, started, next>>
      /\ UNCHANGED <<tlock, failure, proc, stray, rid, op>>
  BY DEF Receive
<1>2. out[t].how = "none"
  BY <1>0, <1>1 DEF AnswerKept
<1>3. CallerTypes' /\ Moves(t) /\ Uncounted(t)
  <2>1. CASE \E how \in Errors \ {"ok"} : Leave(t, how)
    <3>1. PICK how \in Errors \ {"ok"} : Leave(t, how)
      BY <2>1
    <3>2. CallerTypes'
      BY <1>0, <1>1, <3>1, LeaveEffect DEF CallerTypes
    <3>3. Moves(t)
      BY <1>1, <3>1, LeaveMoves
    <3>4. Uncounted(t)
      BY <1>0, <1>1, <3>1, LeaveEffect DEF Uncounted
    <3> QED
      BY <3>2, <3>3, <3>4
  <2>2. CASE Goto(t, "crashed") /\ UNCHANGED <<closed, lock, out, tp, why>>
    <3>1. pc' \in [Thread -> Where] /\ pc'[t] = "crashed" /\ \A u \in Thread \ {t} : pc'[u] = pc[u]
      BY <1>0, <2>2, GotoEffect DEF Where
    <3>2. CallerTypes'
      BY <1>0, <1>1, <2>2, <3>1 DEF CallerTypes
    <3>3. Moves(t)
      BY <1>0, <1>1, <1>2, <2>2, <3>1 DEF Moves
    <3>4. Uncounted(t)
      BY <1>1, <3>1 DEF Uncounted
    <3> QED
      BY <3>2, <3>3, <3>4
  <2>3. CASE closed' = TRUE /\ Terminate(t, "protocol") /\ UNCHANGED <<lock, out>>
    <3>1. "protocol" \in Errors
      BY DEF Errors
    <3>2. CallerTypes'
      BY <1>0, <1>1, <2>3, <3>1, TerminateEffect DEF CallerTypes
    <3>3. Moves(t)
      BY <1>1, <2>3, <3>1, TerminateMoves
    <3>4. Uncounted(t)
      BY <1>0, <1>1, <2>3, <3>1, TerminateEffect DEF Uncounted
    <3> QED
      BY <3>2, <3>3, <3>4
  <2>4. CASE /\ line.id = rid[t]
             /\ Goto(t, "count")
             /\ lock' = None
             /\ out' = [out EXCEPT ![t].answer = line.id]
             /\ UNCHANGED <<closed, tp, why>>
    <3>1. pc' \in [Thread -> Where] /\ pc'[t] = "count" /\ \A u \in Thread \ {t} : pc'[u] = pc[u]
      BY <1>0, <2>4, GotoEffect DEF Where
    <3>2. out' = [out EXCEPT ![t].answer = rid[t]] /\ rid[t] \in 0..MaxCalls
      BY <1>0, <2>4 DEF CallerTypes
    <3>3. /\ out' \in [Thread -> [op : {"call", "close", "cancel"}, how : Errors \union {"result"},
                                  answer : 0..MaxCalls]]
          /\ out'[t].how = out[t].how /\ out'[t].answer = rid[t]
          /\ \A u \in Thread \ {t} : out'[u] = out[u]
      BY <1>0, <3>2 DEF CallerTypes
    <3>4. CallerTypes'
      BY <1>0, <1>1, <2>4, <3>1, <3>3 DEF CallerTypes
    <3>5. Moves(t)
      BY <1>0, <1>1, <1>2, <2>4, <3>1, <3>3 DEF Moves
    <3>6. Uncounted(t)
      BY <1>1, <3>1 DEF Uncounted
    <3> QED
      BY <3>4, <3>5, <3>6
  <2> QED
    <3>1. {"closed", "error"} \subseteq Errors \ {"ok"}
      BY DEF Errors
    <3> QED
      BY <2>1, <2>2, <2>3, <2>4, <3>1 DEF Receive, Matches
<1> QED
  BY <1>3, MovesInv, UncountedInv DEF IInv

(* Back from the cleanup: success only if the process was reaped. *)
LEMMA TerminatedInv ==
  ASSUME IInv, NEW t \in Thread, Terminated(t)
  PROVE  IInv'
<1>0. CallerTypes /\ AnswerKept /\ CleanupDone
  BY DEF IInv
<1>1. /\ pc[t] = "terminating" /\ tp[t] \in {"ok", "raise"} /\ t \in Actor
      /\ UNCHANGED <<stderr, reader, expired, snap, metrics, done, started, next>>
      /\ UNCHANGED <<tlock, failure, proc, stray, rid, op>>
  BY DEF Terminated, Actor, pipes
<1>2. wd' \in [Request -> {"none", "armed", "fired", "ending", "off"}]
  BY <1>0, DisarmEffect DEF Terminated, CallerTypes
<1>3. CallerTypes' /\ Moves(t) /\ Uncounted(t)
  <2>1. CASE op[t] = "close" /\ why[t] \notin {"ok", "ValueError"}
    <3>1. "swallowed" \in Errors \ {"ok"} /\ Leave(t, "swallowed")
      BY <2>1 DEF Terminated, Errors
    <3>2. CallerTypes'
      BY <1>0, <1>1, <1>2, <3>1, LeaveEffect DEF CallerTypes
    <3>3. Moves(t)
      BY <1>1, <3>1, LeaveMoves
    <3>4. Uncounted(t)
      BY <1>0, <1>1, <3>1, LeaveEffect DEF Uncounted
    <3> QED
      BY <3>2, <3>3, <3>4
  <2>2. CASE ~(op[t] = "close" /\ why[t] \notin {"ok", "ValueError"})
    <3> DEFINE how == IF tp[t] = "raise" THEN "cleanup error" ELSE why[t]
    <3>1. /\ Goto(t, "idle") /\ Result(t, how)
          /\ lock' = IF lock = t THEN None ELSE lock
          /\ tp' = [tp EXCEPT ![t] = "none"]
          /\ why' = [why EXCEPT ![t] = "none"]
          /\ UNCHANGED closed
      BY <2>2 DEF Terminated
    <3>2. how \in Errors /\ (how = "ok" => proc = "reaped")
      BY <1>0, <1>1 DEF CallerTypes, CleanupDone, Errors
    <3> HIDE DEF how
    <3>3. pc' \in [Thread -> Where] /\ pc'[t] = "idle" /\ \A u \in Thread \ {t} : pc'[u] = pc[u]
      BY <1>0, <3>1, GotoEffect DEF Where
    <3>4. [op |-> op[t], how |-> how, answer |-> rid[t]]
              \in [op : {"call", "close", "cancel"}, how : Errors \union {"result"},
                   answer : 0..MaxCalls]
      BY <1>0, <3>2 DEF CallerTypes
    <3>5. /\ out' \in [Thread -> [op : {"call", "close", "cancel"}, how : Errors \union {"result"},
                                  answer : 0..MaxCalls]]
          /\ out'[t].how = how /\ out'[t].answer = rid[t]
          /\ \A u \in Thread \ {t} : out'[u] = out[u]
      BY <1>0, <3>1, <3>4 DEF CallerTypes, Result
    <3>6. /\ tp' \in [Actor -> Endings] /\ why' \in [Thread -> Errors]
          /\ \A x \in Actor : tp'[x] = tp[x] \/ tp'[x] = "none"
      BY <1>0, <1>1, <3>1 DEF CallerTypes, Endings, Errors
    <3>7. CallerTypes'
      BY <1>0, <1>1, <1>2, <3>1, <3>3, <3>5, <3>6 DEF CallerTypes
    <3>8. Moves(t)
      BY <1>0, <1>1, <3>2, <3>3, <3>5, <3>6 DEF Moves
    <3>9. Uncounted(t)
      BY <1>1, <3>3 DEF Uncounted
    <3> QED
      BY <3>7, <3>8, <3>9
  <2> QED
    BY <2>1, <2>2
<1> QED
  BY <1>3, MovesInv, UncountedInv DEF IInv

(* A request takes the next number, for which there is still room. *)
LEMMA CheckInv ==
  ASSUME IInv, NEW t \in Thread, Check(t)
  PROVE  IInv'
<1>0. CallerTypes /\ AnswerKept /\ Counted
  BY DEF IInv
<1>1. /\ pc[t] = "check"
      /\ UNCHANGED <<closed, lock, pipes, tp, expired, op, why, out, snap, metrics, done, started>>
      /\ UNCHANGED <<tlock, failure, stderr, proc, stray>>
  BY DEF Check, EngineExited
<1>2. /\ t \in Unnumbered
      /\ IsFiniteSet(Unnumbered \ {t})
      /\ Cardinality(Unnumbered \ {t}) = Cardinality(Unnumbered) - 1
      /\ Cardinality(Unnumbered) \in Nat /\ Cardinality(Unnumbered) > 0
  <2>1. t \in Unnumbered
    BY <1>1 DEF Unnumbered
  <2>2. IsFiniteSet(Unnumbered) /\ Cardinality(Unnumbered) \in Nat
    BY <1>0, FS_CardinalityType DEF Counted
  <2>3. /\ IsFiniteSet(Unnumbered \ {t})
        /\ Cardinality(Unnumbered \ {t}) = Cardinality(Unnumbered) - 1
    BY <2>1, <2>2, FS_RemoveElement
  <2>4. Cardinality(Unnumbered) # 0
    BY <2>1, <2>2, FS_EmptySet
  <2> QED
    BY <2>1, <2>2, <2>3, <2>4
<1>3. next + 1 \in 1..MaxCalls
  BY <1>0, <1>2, AgentAssumption DEF CallerTypes, Counted
<1>4. \E to \in {"crashed", "write", "too large"} : Goto(t, to)
  BY DEF Check
<1>5. /\ pc' \in [Thread -> Where] /\ pc'[t] \in {"crashed", "write", "too large"}
      /\ \A u \in Thread \ {t} : pc'[u] = pc[u]
  BY <1>0, <1>4, GotoEffect DEF Where
<1>6. /\ next' \in {next, next + 1} /\ rid' \in [Thread -> 0..MaxCalls]
      /\ wd' \in [Request -> {"none", "armed", "fired", "ending", "off"}]
      /\ \A u \in Thread \ {t} : rid'[u] = rid[u]
  <2>1. \/ UNCHANGED <<next, rid, wd>>
        \/ /\ next' = next + 1 /\ rid' = [rid EXCEPT ![t] = next + 1]
           /\ wd' = wd \/ wd' = [wd EXCEPT ![next + 1] = "armed"]
    BY DEF Check
  <2> QED
    BY <1>0, <1>3, <2>1 DEF CallerTypes
<1>7. CallerTypes'
  <2>1. next' \in Nat
    BY <1>0, <1>6 DEF CallerTypes
  <2> QED
    BY <1>0, <1>1, <1>5, <1>6, <2>1 DEF CallerTypes, pipes
<1>8. Moves(t)
  <2>1. out'[t].how = "none"
    BY <1>0, <1>1 DEF AnswerKept
  <2> QED
    BY <2>1, <1>1, <1>5, <1>6 DEF Moves
<1>9. Counted'
  <2>1. Unnumbered' = Unnumbered \ {t} /\ Busy' = Busy
    BY <1>1, <1>5 DEF Unnumbered, Busy
  <2> QED
    BY <2>1, <1>0, <1>1, <1>2, <1>6 DEF Counted, CallerTypes
<1> QED
  BY <1>7, <1>8, <1>9, MovesInv DEF IInv

(* An operation is started while the bound allows it. *)
LEMMA CallInv ==
  ASSUME IInv, NEW t \in Thread, NEW what \in Ops, Call(t, what)
  PROVE  IInv'
<1>0. CallerTypes /\ AnswerKept /\ Counted
  BY DEF IInv
<1>1. /\ pc[t] = "idle" /\ what \in {"call", "close", "cancel"}
      /\ started' = started + 1 /\ started' \in 0..MaxCalls
      /\ UNCHANGED <<lock, pipes, tlock, failure, stderr, proc, stray, next, wd, expired, rid,
                     snap, metrics, done>>
  BY <1>0, AgentAssumption DEF Call, CallerTypes
<1>2. op' \in [Thread -> {"call", "close", "cancel"}]
  BY <1>0, <1>1 DEF Call, CallerTypes
<1>3. /\ out' \in [Thread -> [op : {"call", "close", "cancel"}, how : Errors \union {"result"},
                              answer : 0..MaxCalls]]
      /\ out'[t].how = "none"
      /\ \A u \in Thread \ {t} : out'[u] = out[u]
  <2>1. [op |-> what, how |-> "none", answer |-> 0]
            \in [op : {"call", "close", "cancel"}, how : Errors \union {"result"},
                 answer : 0..MaxCalls]
    BY <1>1, AgentAssumption DEF Errors
  <2>2. out' = [out EXCEPT ![t] = [op |-> what, how |-> "none", answer |-> 0]]
    BY DEF Call
  <2> QED
    BY <1>0, <2>1, <2>2 DEF CallerTypes
<1>4. /\ closed' \in BOOLEAN
      /\ pc' \in [Thread -> Where] /\ tp' \in [Actor -> Endings] /\ why' \in [Thread -> Errors]
      /\ pc'[t] \in {"lock", "terminating"} /\ \A u \in Thread \ {t} : pc'[u] = pc[u]
      /\ \A x \in Actor : tp'[x] = tp[x] \/ tp'[x] = "want"
  <2>1. CASE what = "cancel"
    <3>1. closed' = TRUE /\ Terminate(t, "ok") /\ "ok" \in Errors
      BY <2>1 DEF Call, Errors
    <3> QED
      BY <1>0, <3>1, TerminateEffect
  <2>2. CASE what # "cancel"
    <3>1. Goto(t, "lock") /\ UNCHANGED <<closed, tp, why>>
      BY <2>2 DEF Call
    <3>2. pc' \in [Thread -> Where] /\ pc'[t] = "lock" /\ \A u \in Thread \ {t} : pc'[u] = pc[u]
      BY <1>0, <3>1, GotoEffect DEF Where
    <3> QED
      BY <1>0, <3>1, <3>2 DEF CallerTypes
  <2> QED
    BY <2>1, <2>2
<1>5. CallerTypes'
  BY <1>0, <1>1, <1>2, <1>3, <1>4 DEF CallerTypes, pipes
<1>6. Moves(t)
  BY <1>1, <1>3, <1>4 DEF Moves
<1>7. Counted'
  <2>1. /\ Busy' = Busy \union {t} /\ t \notin Busy
        /\ Unnumbered' \in {Unnumbered, Unnumbered \union {t}} /\ t \notin Unnumbered
    BY <1>1, <1>4 DEF Busy, Unnumbered
  <2>2. /\ IsFiniteSet(Busy') /\ Cardinality(Busy') = Cardinality(Busy) + 1
        /\ Cardinality(Busy) \in Nat
    BY <1>0, <2>1, FS_AddElement, FS_CardinalityType DEF Counted
  <2>3. /\ IsFiniteSet(Unnumbered') /\ Cardinality(Unnumbered) \in Nat
        /\ Cardinality(Unnumbered') \in {Cardinality(Unnumbered), Cardinality(Unnumbered) + 1}
    BY <1>0, <2>1, FS_AddElement, FS_CardinalityType DEF Counted
  <2> QED
    BY <1>0, <1>1, <2>2, <2>3 DEF Counted, CallerTypes
<1> QED
  BY <1>5, <1>6, <1>7, MovesInv DEF IInv

(* The counter is read ... *)
LEMMA ReadMetricsInv ==
  ASSUME IInv, NEW t \in Thread, ReadMetrics(t)
  PROVE  IInv'
<1>0. CallerTypes /\ AnswerKept /\ Counted
  BY DEF IInv
<1>1. pc' \in [Thread -> Where] /\ pc'[t] = "store" /\ \A u \in Thread \ {t} : pc'[u] = pc[u]
  BY <1>0, GotoEffect DEF ReadMetrics, Where
<1>2. CallerTypes'
  BY <1>0, <1>1 DEF ReadMetrics, CallerTypes, pipes, ending
<1>3. Moves(t)
  <2>1. pc[t] = "count" /\ out[t].how = "none" /\ out[t].answer = rid[t]
    BY <1>0 DEF ReadMetrics, AnswerKept
  <2> QED
    BY <1>1, <2>1 DEF ReadMetrics, Moves, ending
<1>4. Counted'
  <2>1. Unnumbered' = Unnumbered /\ Busy' = Busy
    BY <1>1 DEF ReadMetrics, Unnumbered, Busy
  <2>2. UNCHANGED <<next, done, started, metrics>> /\ \A u \in Thread : snap'[u] \in {snap[u], metrics}
    BY <1>0 DEF ReadMetrics, CallerTypes
  <2> QED
    BY <1>0, <2>1, <2>2 DEF Counted, CallerTypes
<1> QED
  BY <1>2, <1>3, <1>4, MovesInv DEF IInv

(* ... and written; the operation ends. *)
LEMMA StoreMetricsInv ==
  ASSUME IInv, NEW t \in Thread, StoreMetrics(t)
  PROVE  IInv'
<1>0. CallerTypes /\ AnswerKept /\ Counted
  BY DEF IInv
<1>1. /\ pc[t] = "store" /\ metrics' = snap[t] + 1 /\ done' = done + 1
      /\ out' = [out EXCEPT ![t].how = "result"] /\ snap' = [snap EXCEPT ![t] = 0]
      /\ UNCHANGED <<closed, lock, pipes, ending, next, wd, expired, op, rid, why, started>>
  BY DEF StoreMetrics
<1>2. pc' \in [Thread -> Where] /\ pc'[t] = "idle" /\ \A u \in Thread \ {t} : pc'[u] = pc[u]
  BY <1>0, GotoEffect DEF StoreMetrics, Where
<1>3. /\ out' \in [Thread -> [op : {"call", "close", "cancel"}, how : Errors \union {"result"},
                              answer : 0..MaxCalls]]
      /\ out'[t].how = "result" /\ out'[t].answer = out[t].answer
      /\ \A u \in Thread \ {t} : out'[u] = out[u]
  BY <1>0, <1>1 DEF CallerTypes
<1>4. CallerTypes'
  BY <1>0, <1>1, <1>2, <1>3 DEF CallerTypes, pipes, ending
<1>5. Moves(t)
  BY <1>0, <1>1, <1>2, <1>3 DEF Moves, AnswerKept, ending
<1>6. Counted'
  <2>1. Unnumbered' = Unnumbered /\ Busy' = Busy \ {t} /\ t \in Busy
    BY <1>1, <1>2 DEF Unnumbered, Busy
  <2>2. /\ IsFiniteSet(Busy') /\ Cardinality(Busy') = Cardinality(Busy) - 1
        /\ Cardinality(Busy) \in Nat
    BY <1>0, <2>1, FS_RemoveElement, FS_CardinalityType DEF Counted
  <2>3. \A u \in Thread : snap'[u] \in {snap[u], 0}
    BY <1>0, <1>1 DEF CallerTypes
  <2> QED
    BY <1>0, <1>1, <2>1, <2>2, <2>3 DEF Counted, CallerTypes
<1> QED
  BY <1>4, <1>5, <1>6, MovesInv DEF IInv

(* A step that leaves the callers alone. *)
LEMMA CallersKept ==
  ASSUME IInv, UNCHANGED <<callers, next, done, started, metrics>>
  PROVE  Counted' /\ AnswerKept'
<1>1. Unnumbered' = Unnumbered /\ Busy' = Busy
  BY DEF callers, Unnumbered, Busy
<1> QED
  BY <1>1 DEF IInv, callers, Counted, AnswerKept

(* No actor is the absent owner of the terminate lock. *)
LEMMA NoneIsNoActor == None \notin Actor
BY AgentAssumption DEF Actor, Dogs, Dog, Request

(* An actor takes the terminate lock: a failure that is stored is raised,  *)
(* a reaped process is left alone.                                         *)
LEMMA OwnInv ==
  ASSUME IInv, NEW x \in Actor, Own(x)
  PROVE  IInv'
<1>1. CallerTypes'
  BY DEF IInv, CallerTypes, Endings, Own, At, Others, callers, pipes
<1>2. CleanupOwned'
  BY NoneIsNoActor DEF IInv, CallerTypes, CleanupOwned, Own, At
<1>3. CleanupDone'
  BY DEF IInv, CallerTypes, CleanupDone, Own, At, Others, callers
<1>4. Counted' /\ AnswerKept'
  BY CallersKept DEF Own, Others
<1> QED
  BY <1>1, <1>2, <1>3, <1>4 DEF IInv

(* An actor that waited too long for the cleanup of another one gives up   *)
(* with an error.                                                          *)
LEMMA WaitRunsOutInv ==
  ASSUME IInv, NEW x \in Actor, WaitRunsOut(x)
  PROVE  IInv'
<1>1. CallerTypes'
  BY DEF IInv, CallerTypes, Endings, WaitRunsOut, At, Others, callers, pipes
<1>2. CleanupOwned'
  BY DEF IInv, CallerTypes, CleanupOwned, WaitRunsOut, At
<1>3. CleanupDone'
  BY DEF IInv, CallerTypes, CleanupDone, WaitRunsOut, At, Others, callers
<1>4. Counted' /\ AnswerKept'
  BY CallersKept DEF WaitRunsOut, Others
<1> QED
  BY <1>1, <1>2, <1>3, <1>4 DEF IInv

(* The owner signals a process that is not reaped. *)
LEMMA KillInv ==
  ASSUME IInv, NEW x \in Actor, Kill(x)
  PROVE  IInv'
<1>1. CallerTypes'
  BY DEF IInv, CallerTypes, Endings, Kill, At, Others, callers, pipes
<1>2. CleanupOwned'
  BY DEF IInv, CallerTypes, CleanupOwned, Kill, At
<1>3. CleanupDone'
  BY DEF IInv, CallerTypes, CleanupOwned, CleanupDone, Kill, At, Others, callers
<1>4. Counted' /\ AnswerKept'
  BY CallersKept DEF Kill, Others
<1> QED
  BY <1>1, <1>2, <1>3, <1>4 DEF IInv

(* Only the owner reaps, and nobody else is about to signal. *)
LEMMA ReapInv ==
  ASSUME IInv, NEW x \in Actor, Reap(x)
  PROVE  IInv'
<1>1. CallerTypes'
  BY DEF IInv, CallerTypes, Endings, Reap, At, Others, callers, pipes
<1>2. CleanupOwned'
  BY DEF IInv, CallerTypes, CleanupOwned, Reap, At
<1>3. CleanupDone'
  BY DEF IInv, CallerTypes, CleanupOwned, CleanupDone, Reap, At, Others, callers
<1>4. Counted' /\ AnswerKept'
  BY CallersKept DEF Reap, Others
<1> QED
  BY <1>1, <1>2, <1>3, <1>4 DEF IInv

(* The owner of the cleanup is done: the process is reaped or the failure  *)
(* is stored before the lock is free.                                      *)
LEMMA ReleaseInv ==
  ASSUME IInv, NEW x \in Actor, Release(x)
  PROVE  IInv'
<1>1. CallerTypes'
  BY DEF IInv, CallerTypes, Endings, Release, At, Others, callers, pipes
<1>2. CleanupOwned'
  BY DEF IInv, CallerTypes, CleanupOwned, Release, At
<1>3. CleanupDone'
  BY DEF IInv, CallerTypes, CleanupDone, Release, At, Others, callers
<1>4. Counted' /\ AnswerKept'
  BY CallersKept DEF Release, Others
<1> QED
  BY <1>1, <1>2, <1>3, <1>4 DEF IInv

(* A watchdog asks for the cleanup or is done with it. *)
LEMMA DogInv ==
  ASSUME IInv, NEW i \in Request, DogFires(i) \/ DogExpires(i) \/ DogEnds(i)
  PROVE  IInv'
<1>0. Dog(i) \in Actor
  BY DEF Actor, Dogs
<1>1. CallerTypes'
  <2>1. CASE DogFires(i)
    BY <2>1 DEF IInv, CallerTypes, DogFires, Others, ending, callers, pipes
  <2>2. CASE DogExpires(i)
    BY <1>0, <2>2 DEF IInv, CallerTypes, Endings, DogExpires, callers, pipes
  <2>3. CASE DogEnds(i)
    BY <1>0, <2>3 DEF IInv, CallerTypes, Endings, DogEnds, Others, callers, pipes
  <2> QED
    BY <2>1, <2>2, <2>3
<1>2. /\ UNCHANGED <<callers, next, done, started, metrics, tlock, failure, proc, stray>>
      /\ \A x \in Actor : tp'[x] = tp[x] \/ tp'[x] \in {"want", "none"}
  BY <1>0 DEF IInv, CallerTypes, DogFires, DogExpires, DogEnds, Others, ending
<1>3. CleanupOwned' /\ CleanupDone'
  BY <1>2 DEF IInv, CleanupOwned, CleanupDone, callers
<1>4. Counted' /\ AnswerKept'
  BY <1>2, CallersKept
<1> QED
  BY <1>1, <1>3, <1>4 DEF IInv

(* The reader, the Engine and its exit do not touch the cleanup. *)
LEMMA OutsideInv ==
  ASSUME IInv, ReadLine \/ OutputEnds \/ EngineAnswers \/ EngineExits
  PROVE  IInv'
<1>1. /\ UNCHANGED <<closed, lock, next, wd, expired, callers, metrics, done, started>>
      /\ UNCHANGED <<tlock, failure, stderr, stray, tp>>
      /\ reader' \in BOOLEAN
      /\ proc' = proc \/ (proc = "running" /\ proc' = "exited")
  BY DEF IInv, CallerTypes, ReadLine, OutputEnds, EngineAnswers, EngineExits, Others, ending, pipes
<1>2. CallerTypes'
  BY <1>1 DEF IInv, CallerTypes, callers
<1>3. CleanupOwned' /\ CleanupDone'
  BY <1>1 DEF IInv, CleanupOwned, CleanupDone, callers
<1>4. Counted' /\ AnswerKept'
  BY <1>1, CallersKept
<1> QED
  BY <1>2, <1>3, <1>4 DEF IInv

(* A context that was just started satisfies the invariant. *)
LEMMA InitInv == Init => IInv
<1> SUFFICES ASSUME Init PROVE IInv
  OBVIOUS
<1>1. CallerTypes
  <2>1. [op |-> "call", how |-> "none", answer |-> 0]
            \in [op : {"call", "close", "cancel"}, how : Errors \union {"result"},
                 answer : 0..MaxCalls]
    BY AgentAssumption DEF Errors
  <2>2. out \in [Thread -> [op : {"call", "close", "cancel"}, how : Errors \union {"result"},
                           answer : 0..MaxCalls]]
    BY <2>1 DEF Init
  <2>3. /\ pc \in [Thread -> Where] /\ tp \in [Actor -> Endings] /\ why \in [Thread -> Errors]
        /\ wd \in [Request -> {"none", "armed", "fired", "ending", "off"}]
        /\ rid \in [Thread -> 0..MaxCalls] /\ snap \in [Thread -> Nat] /\ started \in 0..MaxCalls
    BY AgentAssumption DEF Init, Where, Endings, Errors
  <2> QED
    BY <2>2, <2>3 DEF Init, CallerTypes
<1>2. Counted
  <2>1. Unnumbered = {} /\ Busy = {}
    BY DEF Init, Unnumbered, Busy
  <2> QED
    BY <2>1, FS_EmptySet DEF Init, Counted
<1>3. CleanupOwned /\ CleanupDone /\ AnswerKept
  BY DEF Init, CleanupOwned, CleanupDone, AnswerKept
<1> QED
  BY <1>1, <1>2, <1>3 DEF IInv

(* The inductive invariant holds in every reachable state. *)
THEOREM Inductive == Spec => []IInv
<1>1. IInv /\ [Next]_vars => IInv'
  <2> SUFFICES ASSUME IInv, [Next]_vars PROVE IInv'
    OBVIOUS
  <2>1. ASSUME NEW t \in Thread, NEW what \in Ops, Call(t, what) PROVE IInv'
    BY <2>1, CallInv
  <2>2. ASSUME NEW t \in Thread, Step(t) PROVE IInv'
    BY <2>2, EnterInv, CheckInv, TooLargeInv, WriteFailsInv, WrittenInv, ReceiveInv,
       ResponseTimeoutInv, CrashMessageInv, ReadStderrInv, TerminatedInv, BadResultInv,
       ReadMetricsInv, StoreMetricsInv DEF Step
  <2>3. ASSUME NEW t \in Thread, Write(t) PROVE IInv'
    BY <2>3, WriteInv
  <2>4. ASSUME NEW x \in Actor, Ending(x) PROVE IInv'
    BY <2>4, OwnInv, WaitRunsOutInv, KillInv, ReapInv, ReleaseInv DEF Ending
  <2>5. ASSUME NEW i \in Request, DogFires(i) \/ DogExpires(i) \/ DogEnds(i) PROVE IInv'
    BY <2>5, DogInv
  <2>6. CASE ReadLine \/ OutputEnds \/ EngineAnswers \/ EngineExits
    BY <2>6, OutsideInv
  <2>7. CASE UNCHANGED vars
    <3>1. UNCHANGED <<closed, lock, callers, pipes, ending, next, wd, expired, metrics, done, started>>
      BY <2>7 DEF vars
    <3>2. CallerTypes' /\ CleanupOwned' /\ CleanupDone'
      BY <3>1 DEF IInv, CallerTypes, CleanupOwned, CleanupDone, callers, pipes, ending
    <3> QED
      BY <3>1, <3>2, CallersKept DEF IInv
  <2> QED
    BY <2>1, <2>2, <2>3, <2>4, <2>5, <2>6, <2>7 DEF Next, Rest
<1> QED
  BY <1>1, InitInv, PTL DEF Spec

(* close() and cancel() report success only when the process was reaped,   *)
(* whoever did the cleanup.                                                *)
THEOREM Confirmed == Spec => []CleanupConfirmed
<1>1. IInv => CleanupConfirmed
  <2> SUFFICES ASSUME IInv PROVE CleanupConfirmed
    OBVIOUS
  <2>1. Cardinality(Unnumbered) \in Nat /\ Cardinality(Busy) \in Nat
    BY FS_CardinalityType DEF IInv, Counted
  <2>2. next \in 0..MaxCalls /\ metrics \in 0..MaxCalls /\ done \in 0..MaxCalls
    BY <2>1, AgentAssumption DEF IInv, CallerTypes, Counted
  <2>3. TypeOK
    BY <2>2 DEF IInv, CallerTypes, TypeOK, Endings
  <2> QED
    BY <2>3 DEF IInv, CleanupDone, CleanupConfirmed
<1> QED
  BY <1>1, Inductive, PTL

(* The process group is never signalled after its leader was reaped. *)
THEOREM OwnGroupOnly == Spec => []SignalsOwnGroup
<1>1. IInv => SignalsOwnGroup
  BY DEF IInv, CleanupOwned, SignalsOwnGroup
<1> QED
  BY <1>1, Inductive, PTL

(* A call returns the answer to its own request. *)
THEOREM Matched == Spec => []AnswersMatch
<1>1. IInv => AnswersMatch
  BY DEF IInv, AnswerKept, AnswersMatch
<1> QED
  BY <1>1, Inductive, PTL

=============================================================================
