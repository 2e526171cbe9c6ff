---------------------------- MODULE AgentContext ----------------------------
(***************************************************************************)
(* One AgentContext (agent.py) after its constructor: a persistent Engine  *)
(* process, the reader thread, the watchdog timers, and caller threads in  *)
(* tool calls, close() and cancel().                                       *)
(*                                                                         *)
(* Exchanges are serialised by _lock; cancel() and the watchdogs do not    *)
(* take it.  Whoever ends the process goes through _terminate, which is    *)
(* owned by one actor at a time under _terminate_lock.  Only               *)
(* _terminate_once reaps the process, after its last signal, because the   *)
(* process group is addressed by the pid.                                  *)
(*                                                                         *)
(* Requests are numbered; a watchdog is named by its request.  An answer   *)
(* is [id, ok]; BadLine is a frame that is not a valid answer, EOF the     *)
(* empty read at the end of stdout.  Deadlines may pass at any time.       *)
(***************************************************************************)
EXTENDS Naturals, Sequences

CONSTANTS
    Thread,         \* the callers
    Ops,            \* what they do: some of "call", "close" and "cancel"
    Replies,        \* how the Engine answers: some of "result", "error" and "bad"
    MaxCalls,       \* bound: how many operations they start
    BadLine, EOF,   \* see above
    None,           \* no holder of a lock
    CleanupMayFail  \* whether the operating system may refuse to end the process

ASSUME AgentAssumption ==
    /\ Ops \subseteq {"call", "close", "cancel"}
    /\ Replies \subseteq {"result", "error", "bad"}
    /\ MaxCalls \in Nat
    /\ CleanupMayFail \in BOOLEAN
    /\ None \notin Thread /\ \A i \in 1..MaxCalls : None # <<"watchdog", i>>

VARIABLES
    closed,     \* _closed
    lock,       \* the holder of _lock
    tlock,      \* the owner of _terminate_lock
    failure,    \* _cleanup_failure is set
    stderr,     \* _stderr is open
    proc,       \* the process: "running", "exited" (not reaped) or "reaped"
    stray,      \* a signal was sent after the reap
    stdin,      \* requests written and not yet read by the Engine
    stdout,     \* lines written by the Engine and not yet read
    reader,     \* the reader thread runs
    responses,  \* the queue _responses
    next,       \* _next_id
    wd,         \* request -> its watchdog: "none", "armed", "fired", "ending", "off"
    expired,    \* the requests whose `expired` event is set
    pc,         \* thread -> where it is
    op,         \* thread -> "call", "close" or "cancel"
    rid,        \* thread -> its current request
    why,        \* thread -> the error it raises after _terminate
    out,        \* thread -> how its last operation ended: [op, how, answer]
    tp,         \* actor -> where it is in _terminate
    metrics,    \* _metrics.tool_calls
    snap,       \* thread -> the value it read of metrics
    done,       \* how many calls returned a result
    started     \* how many operations were started

callers == <<pc, op, rid, why, out, snap>>
pipes == <<stdin, stdout, reader, responses>>
ending == <<tlock, failure, stderr, proc, stray, tp>>
vars == <<closed, lock, pipes, ending, next, wd, expired, callers, metrics, done, started>>

Request == 1..MaxCalls
Dog(i) == <<"watchdog", i>>
Dogs == {Dog(i) : i \in Request}
Actor == Thread \union Dogs

Init ==
    /\ closed = FALSE
    /\ lock = None /\ tlock = None
    /\ failure = FALSE /\ stderr = TRUE
    /\ proc = "running" /\ stray = FALSE
    /\ stdin = <<>> /\ stdout = <<>> /\ reader = TRUE /\ responses = <<>>
    /\ next = 0
    /\ wd = [i \in Request |-> "none"]
    /\ expired = {}
    /\ pc = [t \in Thread |-> "idle"]
    /\ op = [t \in Thread |-> "call"]
    /\ rid = [t \in Thread |-> 0]
    /\ why = [t \in Thread |-> "none"]
    /\ out = [t \in Thread |-> [op |-> "call", how |-> "none", answer |-> 0]]
    /\ tp = [x \in Actor |-> "none"]
    /\ metrics = 0 /\ snap = [t \in Thread |-> 0] /\ done = 0 /\ started = 0

-----------------------------------------------------------------------------
(* Control of a thread.                                                    *)

Goto(t, to) == pc' = [pc EXCEPT ![t] = to]
Result(t, how) == out' = [out EXCEPT ![t] = [op |-> op[t], how |-> how, answer |-> rid[t]]]

(* _terminate() is called, and `how` raised after it. *)
Terminate(t, how) ==
    /\ Goto(t, "terminating")
    /\ tp' = [tp EXCEPT ![t] = "want"]
    /\ why' = [why EXCEPT ![t] = how]

(* An exchange ends without _terminate(): a call raises and releases the   *)
(* lock; close() ignores the error, sets _closed and terminates.           *)
Leave(t, how) ==
    IF op[t] = "close"
    THEN /\ closed' = TRUE
         /\ Terminate(t, IF how = "ValueError" THEN how ELSE "ok")
         /\ UNCHANGED <<lock, out>>
    ELSE /\ Goto(t, "idle")
         /\ Result(t, how)
         /\ lock' = None
         /\ UNCHANGED <<closed, tp, why>>

(* The watchdog's timer is cancelled, unless it has begun to run. *)
Disarm(i) == wd' = [j \in Request |-> IF j = i /\ wd[j] = "armed" THEN "off" ELSE wd[j]]

(* An operation is called; cancel() sets _closed and takes no lock. *)
Call(t, what) ==
    /\ pc[t] = "idle"
    /\ started < MaxCalls
    /\ started' = started + 1
    /\ op' = [op EXCEPT ![t] = what]
    /\ out' = [out EXCEPT ![t] = [op |-> what, how |-> "none", answer |-> 0]]
    /\ IF what = "cancel"
       THEN closed' = TRUE /\ Terminate(t, "ok")
       ELSE Goto(t, "lock") /\ UNCHANGED <<closed, tp, why>>
    /\ UNCHANGED <<lock, pipes, tlock, failure, stderr, proc, stray, next, wd, expired, rid,
                   snap, metrics, done>>

(* The lock is taken and _closed looked at; close() of a closed context    *)
(* only waits for the cleanup.                                             *)
Enter(t) ==
    /\ pc[t] = "lock"
    /\ lock = None
    /\ IF ~closed THEN lock' = t /\ Goto(t, "check") /\ UNCHANGED <<closed, out, tp, why>>
       ELSE IF op[t] = "close"
       THEN lock' = t /\ Terminate(t, "ok") /\ UNCHANGED <<closed, out>>
       ELSE Leave(t, "closed")
    /\ UNCHANGED <<pipes, tlock, failure, stderr, proc, stray, next, wd, expired, op, rid, snap,
                   metrics, done, started>>

(* Mutant of EngineExited: poll() reaps a process that exited. *)
EngineExitedReaps ==
    /\ proc' = IF proc = "exited" THEN "reaped" ELSE proc
    /\ UNCHANGED <<tlock, failure, stderr, stray>>

(* _engine_exited only observes. *)
EngineExited == UNCHANGED <<tlock, failure, stderr, proc, stray>>

(* The process is looked at; a request gets its number, its size is        *)
(* checked, and its watchdog is started.                                   *)
Check(t) ==
    /\ pc[t] = "check"
    /\ IF proc # "running" THEN Goto(t, "crashed") /\ UNCHANGED <<next, rid, wd>>
       ELSE /\ next' = next + 1
            /\ rid' = [rid EXCEPT ![t] = next']
            /\ \/ wd' = [wd EXCEPT ![next'] = "armed"] /\ Goto(t, "write")
               \/ op[t] = "call" /\ Goto(t, "too large") /\ UNCHANGED wd
    /\ EngineExited
    /\ UNCHANGED <<closed, lock, pipes, tp, expired, op, why, out, snap, metrics, done, started>>

(* A request above MAX_REQUEST_BYTES is refused before it is written. *)
TooLarge(t) ==
    /\ pc[t] = "too large"
    /\ Leave(t, "protocol")
    /\ UNCHANGED <<pipes, tlock, failure, stderr, proc, stray, next, wd, expired, op, rid, snap,
                   metrics, done, started>>

(* The request is written; the watchdog is cancelled, then `expired` read. *)
Write(t) ==
    /\ pc[t] = "write"
    /\ proc = "running"
    /\ stdin' = Append(stdin, rid[t])
    /\ Disarm(rid[t])
    /\ Goto(t, "written")
    /\ UNCHANGED <<closed, lock, stdout, reader, responses, ending, next, expired, op, rid, why,
                   out, snap, metrics, done, started>>

(* The pipe is broken.  The watchdog is cancelled when the error leaves    *)
(* the exchange, for a crash after _terminate().                           *)
WriteFails(t) ==
    /\ pc[t] = "write"
    /\ proc # "running"
    /\ IF rid[t] \in expired THEN Leave(t, "timeout") /\ Disarm(rid[t])
       ELSE IF closed THEN Leave(t, "closed") /\ Disarm(rid[t])
       ELSE Goto(t, "crashed") /\ UNCHANGED <<closed, lock, out, tp, why, wd>>
    /\ UNCHANGED <<pipes, tlock, failure, stderr, proc, stray, next, expired, op, rid, snap,
                   metrics, done, started>>

Written(t) ==
    /\ pc[t] = "written"
    /\ IF rid[t] \in expired THEN Leave(t, "timeout")
       ELSE Goto(t, "wait") /\ UNCHANGED <<closed, lock, out, tp, why>>
    /\ UNCHANGED <<pipes, tlock, failure, stderr, proc, stray, next, wd, expired, op, rid, snap,
                   metrics, done, started>>

(* Mutant of Matches: the id of the answer is not compared. *)
MatchesAny(t, line) == line # BadLine

(* The line answers this thread's request. *)
Matches(t, line) == line # BadLine /\ line.id = rid[t]

(* A line is taken from the queue. *)
Receive(t) ==
    LET line == Head(responses)
    IN  /\ pc[t] = "wait"
        /\ responses # <<>>
        /\ responses' = Tail(responses)
        /\ IF line = EOF
           THEN IF closed THEN Leave(t, "closed")
                ELSE Goto(t, "crashed") /\ UNCHANGED <<closed, lock, out, tp, why>>
           ELSE IF ~Matches(t, line)
           THEN closed' = TRUE /\ Terminate(t, "protocol") /\ UNCHANGED <<lock, out>>
           ELSE IF op[t] = "close" \/ ~line.ok THEN Leave(t, "error")
           ELSE /\ Goto(t, "count")
                /\ lock' = None
                /\ out' = [out EXCEPT ![t].answer = line.id]
                /\ UNCHANGED <<closed, tp, why>>
        /\ UNCHANGED <<stdin, stdout, reader, tlock, failure, stderr, proc, stray, next, wd,
                       expired, op, rid, snap, metrics, done, started>>

(* The deadline passes before a line is there; _closed is not set. *)
ResponseTimeout(t) ==
    /\ pc[t] = "wait"
    /\ responses = <<>>
    /\ Terminate(t, "timeout")
    /\ UNCHANGED <<closed, lock, pipes, tlock, failure, stderr, proc, stray, next, wd, expired,
                   op, rid, out, snap, metrics, done, started>>

(* _crash_message: `closed` of the stderr file is looked at ... *)
CrashMessage(t) ==
    /\ pc[t] = "crashed"
    /\ IF stderr THEN Goto(t, "stderr") /\ UNCHANGED <<closed, tp, why>>
       ELSE closed' = TRUE /\ Terminate(t, "crashed")
    /\ UNCHANGED <<lock, pipes, tlock, failure, stderr, proc, stray, next, wd, expired, op, rid,
                   out, snap, metrics, done, started>>

(* ... and the file is read, which fails if it was closed meanwhile. *)
ReadStderr(t) ==
    /\ pc[t] = "stderr"
    /\ IF stderr THEN closed' = TRUE /\ Terminate(t, "crashed") /\ UNCHANGED <<lock, out, wd>>
       ELSE Leave(t, "ValueError") /\ Disarm(rid[t])
    /\ UNCHANGED <<pipes, tlock, failure, stderr, proc, stray, next, expired, op, rid, snap,
                   metrics, done, started>>

(* The thread is back from _terminate(): a cleanup failure takes           *)
(* precedence; close() goes on to its own _terminate().                    *)
Terminated(t) ==
    /\ pc[t] = "terminating"
    /\ tp[t] \in {"ok", "raise"}
    /\ IF op[t] = "close" /\ why[t] \notin {"ok", "ValueError"} THEN Leave(t, "swallowed")
       ELSE /\ Goto(t, "idle")
            /\ Result(t, IF tp[t] = "raise" THEN "cleanup error" ELSE why[t])
            /\ lock' = IF lock = t THEN None ELSE lock
            /\ tp' = [tp EXCEPT ![t] = "none"]
            /\ why' = [why EXCEPT ![t] = "none"]
            /\ UNCHANGED closed
    /\ IF op[t] = "cancel" THEN UNCHANGED wd ELSE Disarm(rid[t])
    /\ UNCHANGED <<pipes, tlock, failure, stderr, proc, stray, next, expired, op, rid, snap,
                   metrics, done, started>>

(* The result does not parse: as for a bad frame, but without the lock. *)
BadResult(t) ==
    /\ pc[t] = "count"
    /\ closed' = TRUE
    /\ Terminate(t, "protocol")
    /\ UNCHANGED <<lock, pipes, tlock, failure, stderr, proc, stray, next, wd, expired, op, rid,
                   out, snap, metrics, done, started>>

(* _call_tool adds to _metrics without a lock: a read, then a write. *)
ReadMetrics(t) ==
    /\ pc[t] = "count"
    /\ snap' = [snap EXCEPT ![t] = metrics]
    /\ Goto(t, "store")
    /\ UNCHANGED <<closed, lock, pipes, ending, next, wd, expired, op, rid, why, out, metrics,
                   done, started>>

StoreMetrics(t) ==
    /\ pc[t] = "store"
    /\ metrics' = snap[t] + 1
    /\ done' = done + 1
    /\ out' = [out EXCEPT ![t].how = "result"]
    /\ snap' = [snap EXCEPT ![t] = 0]
    /\ Goto(t, "idle")
    /\ UNCHANGED <<closed, lock, pipes, ending, next, wd, expired, op, rid, why, started>>

-----------------------------------------------------------------------------
(* _terminate and _terminate_once, run by a thread or a watchdog.          *)

Others == <<closed, lock, pipes, next, expired, callers, metrics, done, started>>
At(x, from, to) == tp[x] = from /\ tp' = [tp EXCEPT ![x] = to]

(* The terminate lock is taken: a stored failure is raised, a process that *)
(* was reaped is left alone.                                               *)
Own(x) ==
    /\ tlock = None
    /\ IF failure THEN At(x, "want", "raise") /\ UNCHANGED tlock
       ELSE /\ At(x, "want", IF proc = "reaped" THEN "close" ELSE "kill")
            /\ tlock' = x
    /\ UNCHANGED <<Others, failure, stderr, proc, stray, wd>>

(* Mutant of WaitRunsOut: a caller that cannot wait reports success. *)
WaitAssumed(x) ==
    /\ tlock # None
    /\ At(x, "want", "ok")
    /\ UNCHANGED <<Others, tlock, failure, stderr, proc, stray, wd>>

(* Another actor owns the cleanup for longer than this one waits. *)
WaitRunsOut(x) ==
    /\ tlock # None
    /\ At(x, "want", "raise")
    /\ UNCHANGED <<Others, tlock, failure, stderr, proc, stray, wd>>

(* The signals to the process group; `stray` if the number is not ours.    *)
(* The operating system may refuse them, or end nothing.                   *)
Kill(x) ==
    /\ At(x, "kill", "reap")
    /\ stray' = (stray \/ proc = "reaped")
    /\ \/ proc' = (IF proc = "running" THEN "exited" ELSE proc) /\ UNCHANGED failure
       \/ CleanupMayFail /\ UNCHANGED proc /\ failure' \in BOOLEAN
    /\ UNCHANGED <<Others, tlock, stderr, wd>>

(* wait() reaps the process, if need be after kill(), or its time runs     *)
(* out; the error of a refused signal stands.                              *)
Reap(x) ==
    /\ At(x, "reap", "close")
    /\ \/ proc' = "reaped" /\ UNCHANGED failure
       \/ proc = "running" /\ failure' = TRUE /\ UNCHANGED proc
    /\ UNCHANGED <<Others, tlock, stderr, stray, wd>>

(* The files are closed, the terminate lock is released. *)
Release(x) ==
    /\ At(x, "close", IF failure THEN "raise" ELSE "ok")
    /\ stderr' = FALSE
    /\ tlock' = None
    /\ UNCHANGED <<Others, failure, proc, stray, wd>>

Ending(x) == Own(x) \/ WaitRunsOut(x) \/ Kill(x) \/ Reap(x) \/ Release(x)

-----------------------------------------------------------------------------
(* The watchdog of a request, the reader thread and the Engine.            *)

(* The timer runs out while the request is being written ... *)
DogFires(i) ==
    /\ wd[i] = "armed"
    /\ wd' = [wd EXCEPT ![i] = "fired"]
    /\ UNCHANGED <<Others, ending>>

(* Mutant of DogExpires: the request is marked and the process left alone. *)
DogOnlyMarks(i) ==
    /\ wd[i] = "fired"
    /\ wd' = [wd EXCEPT ![i] = "off"]
    /\ expired' = expired \union {i}
    /\ UNCHANGED <<closed, lock, pipes, ending, next, callers, metrics, done, started>>

(* ... and its function sets `expired` and terminates. *)
DogExpires(i) ==
    /\ wd[i] = "fired"
    /\ wd' = [wd EXCEPT ![i] = "ending"]
    /\ expired' = expired \union {i}
    /\ tp' = [tp EXCEPT ![Dog(i)] = "want"]
    /\ UNCHANGED <<closed, lock, pipes, tlock, failure, stderr, proc, stray, next, callers,
                   metrics, done, started>>

(* A failed cleanup is not reported by a watchdog. *)
DogEnds(i) ==
    /\ wd[i] = "ending"
    /\ tp[Dog(i)] \in {"ok", "raise"}
    /\ tp' = [tp EXCEPT ![Dog(i)] = "none"]
    /\ wd' = [wd EXCEPT ![i] = "off"]
    /\ UNCHANGED <<Others, tlock, failure, stderr, proc, stray>>

(* The reader hands a line on; the end of the stream, which comes with the *)
(* end of the process, is its last.                                        *)
ReadLine ==
    /\ reader
    /\ IF stdout # <<>>
       THEN responses' = Append(responses, Head(stdout)) /\ stdout' = Tail(stdout) /\ UNCHANGED reader
       ELSE /\ proc # "running"
            /\ responses' = Append(responses, EOF) /\ reader' = FALSE /\ UNCHANGED stdout
    /\ UNCHANGED <<closed, lock, stdin, ending, next, wd, expired, callers, metrics, done, started>>

(* The Engine has closed its stdout and runs on: the reader meets the end. *)
OutputEnds ==
    /\ proc = "running"
    /\ reader /\ stdout = <<>>
    /\ responses' = Append(responses, EOF) /\ reader' = FALSE
    /\ UNCHANGED <<closed, lock, stdin, stdout, ending, next, wd, expired, callers, metrics, done,
                   started>>

(* The Engine answers the next request, with a result, an error or badly,  *)
(* while it has its stdout open.                                           *)
EngineAnswers ==
    /\ proc = "running"
    /\ reader
    /\ stdin # <<>>
    /\ stdin' = Tail(stdin)
    /\ \E reply \in Replies :
           stdout' = Append(stdout, IF reply = "bad" THEN BadLine
                                    ELSE [id |-> Head(stdin), ok |-> reply = "result"])
    /\ UNCHANGED <<closed, lock, reader, responses, ending, next, wd, expired, callers, metrics,
                   done, started>>

(* The Engine exits by itself. *)
EngineExits ==
    /\ proc = "running"
    /\ proc' = "exited"
    /\ UNCHANGED <<Others, tlock, failure, stderr, stray, tp, wd>>

(* Everybody is done: the context is left to the garbage collector. *)
Rest ==
    /\ started = MaxCalls
    /\ \A t \in Thread : pc[t] = "idle"
    /\ UNCHANGED vars

Step(t) ==
    \/ Enter(t) \/ Check(t) \/ TooLarge(t) \/ WriteFails(t) \/ Written(t) \/ Receive(t) \/ ResponseTimeout(t)
    \/ CrashMessage(t) \/ ReadStderr(t) \/ Terminated(t) \/ BadResult(t) \/ ReadMetrics(t) \/ StoreMetrics(t)

Next ==
    \/ \E t \in Thread, what \in Ops : Call(t, what)
    \/ \E t \in Thread : Step(t)
    \/ \E t \in Thread : Write(t)
    \/ \E x \in Actor : Ending(x)
    \/ \E i \in Request : DogFires(i) \/ DogExpires(i) \/ DogEnds(i)
    \/ ReadLine
    \/ OutputEnds
    \/ EngineAnswers
    \/ EngineExits
    \/ Rest

Spec == Init /\ [][Next]_vars

(* Threads, the reader and due watchdogs are scheduled, and deadlines      *)
(* pass; a write may block for ever, and the Engine need not answer.       *)
Fairness ==
    /\ \A t \in Thread : WF_vars(Step(t))
    /\ \A x \in Actor : WF_vars(Ending(x))
    /\ \A i \in Request : WF_vars(DogFires(i)) /\ WF_vars(DogExpires(i)) /\ WF_vars(DogEnds(i))
    /\ WF_vars(ReadLine)

FairSpec == Spec /\ Fairness

-----------------------------------------------------------------------------
(* Properties.                                                             *)

(* The type of the control state. *)
TypeOK ==
    /\ closed \in BOOLEAN /\ failure \in BOOLEAN /\ stderr \in BOOLEAN /\ reader \in BOOLEAN
    /\ lock \in Thread \union {None}
    /\ tlock \in Actor \union {None}
    /\ proc \in {"running", "exited", "reaped"}
    /\ next \in 0..MaxCalls
    /\ expired \subseteq Request
    /\ tp \in [Actor -> {"none", "want", "kill", "reap", "close", "ok", "raise"}]
    /\ rid \in [Thread -> 0..MaxCalls]
    /\ metrics \in 0..MaxCalls /\ done \in 0..MaxCalls

(* close() and cancel() report success only when the process has been      *)
(* reaped, also when another thread or a watchdog does the cleanup.        *)
CleanupConfirmed ==
    /\ TypeOK
    /\ \A t \in Thread : pc[t] = "idle" /\ out[t].op \in {"close", "cancel"} /\ out[t].how = "ok"
           => proc = "reaped"

(* No signal goes to the process group once its leader was reaped: the     *)
(* number may belong to somebody else by then.                             *)
SignalsOwnGroup == ~stray

(* A call returns the answer to its own request, never one that comes late *)
(* for a request that timed out.                                           *)
AnswersMatch == \A t \in Thread : out[t].how = "result" => out[t].answer = rid[t]

(* Every operation ends, although the Engine may hang or never read. *)
CallsReturn == \A t \in Thread : pc[t] # "idle" ~> pc[t] = "idle"

(* After InstanceTimeout the process does not run. *)
TimeoutEndsProcess ==
    [][\A t \in Thread : out'[t] # out[t] /\ out'[t].how = "timeout" => proc' # "running"]_vars

(* Every error of a call is one of the SDK's own. *)
OnlySDKErrors == \A t \in Thread : out[t].how # "ValueError"

(* The metrics count every call that returned a result. *)
MetricsExact == (\A t \in Thread : pc[t] = "idle") => metrics = done

=============================================================================
