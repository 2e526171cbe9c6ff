-------------------------- MODULE InstanceProcess --------------------------
(***************************************************************************)
(* The one-shot instance processes of SubprocessInstanceClient             *)
(* (instance.py): a thread writes its request to a file in the project     *)
(* root, or to the standard input of the process, starts the process as    *)
(* the leader of its own process group, drains its output within one       *)
(* deadline, and reaps it before the call ends.                            *)
(*                                                                         *)
(* A pid names the process group only until the leader is reaped; after    *)
(* that the number may belong to a process of somebody else.  A child the  *)
(* leader started stays in the group; it may hold the pipes of the leader. *)
(* A signalled leader dies when the operating system gets round to it.     *)
(* Deadlines and the reaping budget may pass at any time.  The four        *)
(* repetitions of the group signal are one step.                           *)
(***************************************************************************)
EXTENDS Naturals, InstanceRecords

CONSTANTS
    Thread,     \* the threads that call the client
    MaxFaults   \* bound: how many I/O errors and interrupts hit them

ASSUME ProcessAssumption == MaxFaults \in Nat /\ None \notin Thread

VARIABLES
    pc,         \* thread -> where it is in its call
    op,         \* thread -> "view", "recover" or "plan" (request on stdin)
    leader,     \* thread -> its process: "none", "run", "dying", "zombie", "reaped"
    child,      \* thread -> its child: "none", "piped" (holds the pipes) or "detached"
    open,       \* thread -> the leader has its output open
    unsent,     \* thread -> the request is not yet written to stdin
    file,       \* thread -> its request file exists
    err,        \* thread -> the error on its way out, or "ok"
    signalled,  \* thread -> a signal went to its pid after the reap
    containment,\* last_session_containment
    faults      \* how many faults have happened

process == <<leader, child, open>>
callVars == <<op, unsent, file, err, signalled, containment, faults>>
processVars == <<pc, process, callVars>>

Places == {"idle", "spawn", "loop", "wait", "kill", "reap", "caught", "reap2",
           "final", "lastwait", "unlink", "return", "seal"}

ProcessTypeOK ==
    /\ pc \in [Thread -> Places]
    /\ op \in [Thread -> {"view", "recover", "plan"}]
    /\ leader \in [Thread -> {"none", "run", "dying", "zombie", "reaped"}]
    /\ child \in [Thread -> {"none", "piped", "detached"}]
    /\ open \in [Thread -> BOOLEAN] /\ unsent \in [Thread -> BOOLEAN]
    /\ file \in [Thread -> BOOLEAN] /\ signalled \in [Thread -> BOOLEAN]
    /\ err \in [Thread -> {"ok", "timeout", "bound", "unavailable", "execution", "oserror",
                           "interrupt", "protocol", "source_unavailable"}]
    /\ containment \in {"unavailable", "engine-starter"}
    /\ faults \in 0..MaxFaults

ProcessInit ==
    /\ pc = [t \in Thread |-> "idle"]
    /\ op = [t \in Thread |-> "view"]
    /\ leader = [t \in Thread |-> "none"]
    /\ child = [t \in Thread |-> "none"]
    /\ open = [t \in Thread |-> FALSE]
    /\ unsent = [t \in Thread |-> FALSE]
    /\ file = [t \in Thread |-> FALSE]
    /\ err = [t \in Thread |-> "ok"]
    /\ signalled = [t \in Thread |-> FALSE]
    /\ containment = "unavailable"
    /\ faults = 0

Goto(t, place) == pc' = [pc EXCEPT ![t] = place]
Raise(t, class) == err' = [err EXCEPT ![t] = class]

(***************************************************************************)
(* The call, up to the start of the process                                *)
(***************************************************************************)
(* _invoke_bytes: the root and the size are checked, then the request is   *)
(* written.  The file may not be creatable; in stdin mode there is none.   *)
Begin(t, operation) ==
    /\ pc[t] = "idle"
    /\ op' = [op EXCEPT ![t] = operation]
    /\ leader' = [leader EXCEPT ![t] = "none"]
    /\ child' = [child EXCEPT ![t] = "none"]
    /\ unsent' = [unsent EXCEPT ![t] = operation = "plan"]
    /\ \/ /\ Goto(t, "spawn") /\ Raise(t, "ok")
          /\ file' = [file EXCEPT ![t] = operation # "plan"]
       \/ /\ Goto(t, "return") /\ UNCHANGED file
          /\ \/ Raise(t, "source_unavailable") \/ Raise(t, "protocol")
             \/ operation # "plan" /\ Raise(t, "oserror")
    /\ UNCHANGED <<open, signalled, containment, faults>>

(* _run: the binary is missing or cannot be started, or it runs. *)
Popen(t) ==
    /\ pc[t] = "spawn"
    /\ \/ /\ Goto(t, "unlink") /\ Raise(t, "unavailable") /\ UNCHANGED <<leader, open>>
       \/ /\ Goto(t, "loop") /\ UNCHANGED err
          /\ leader' = [leader EXCEPT ![t] = "run"]
          /\ open' = [open EXCEPT ![t] = TRUE]
    /\ UNCHANGED <<child, op, unsent, file, signalled, containment, faults>>

(***************************************************************************)
(* The process and what it starts                                          *)
(***************************************************************************)
Fork(t) ==
    /\ leader[t] = "run" /\ child[t] = "none"
    /\ \E kind \in {"piped", "detached"} : child' = [child EXCEPT ![t] = kind]
    /\ UNCHANGED <<pc, leader, open, callVars>>

CloseOutput(t) ==
    /\ leader[t] = "run" /\ open[t]
    /\ open' = [open EXCEPT ![t] = FALSE]
    /\ UNCHANGED <<pc, leader, child, callVars>>

Exit(t) ==
    /\ leader[t] \in {"run", "dying"}
    /\ leader' = [leader EXCEPT ![t] = "zombie"]
    /\ open' = [open EXCEPT ![t] = FALSE]
    /\ UNCHANGED <<pc, child, callVars>>

ChildExit(t) ==
    /\ child[t] # "none"
    /\ child' = [child EXCEPT ![t] = "none"]
    /\ UNCHANGED <<pc, leader, open, callVars>>

(***************************************************************************)
(* _run: the selector loop                                                 *)
(***************************************************************************)
(* The pipes reach their end when nobody holds them any more. *)
EndOfOutput(t) == ~open[t] /\ child[t] # "piped"

(* The request is taken by the process, or the pipe is broken. *)
WriteInput(t) ==
    /\ pc[t] = "loop" /\ unsent[t]
    /\ unsent' = [unsent EXCEPT ![t] = FALSE]
    /\ UNCHANGED <<pc, process, op, file, err, signalled, containment, faults>>

(* Both outputs are at their end and stdin is closed: wait for the exit. *)
Drained(t) ==
    /\ pc[t] = "loop" /\ EndOfOutput(t) /\ ~unsent[t]
    /\ Goto(t, "wait")
    /\ UNCHANGED <<process, callVars>>

(* Mutant: the deadline is only looked at after output. *)
DeadlineOnOutput(t) ==
    /\ pc[t] = "loop" /\ EndOfOutput(t)
    /\ Goto(t, "kill") /\ Raise(t, "timeout")
    /\ UNCHANGED <<process, op, unsent, file, signalled, containment, faults>>

(* No event within what is left of the deadline. *)
Deadline(t) ==
    /\ pc[t] = "loop"
    /\ Goto(t, "kill") /\ Raise(t, "timeout")
    /\ UNCHANGED <<process, op, unsent, file, signalled, containment, faults>>

(* One of the outputs exceeds its bound. *)
OutputBound(t) ==
    /\ pc[t] = "loop"
    /\ Goto(t, "kill") /\ Raise(t, "bound")
    /\ UNCHANGED <<process, op, unsent, file, signalled, containment, faults>>

(* A read or a write fails (OSError), or the main thread is interrupted:   *)
(* only the finally block runs.                                            *)
Fault(t) ==
    /\ pc[t] \in {"loop", "wait"} /\ faults < MaxFaults
    /\ faults' = faults + 1
    /\ Goto(t, "final")
    /\ \/ pc[t] = "loop" /\ Raise(t, "execution")
       \/ Raise(t, "interrupt")
    /\ UNCHANGED <<process, op, unsent, file, signalled, containment>>

(* process.wait within what is left of the deadline. *)
Wait(t) ==
    /\ pc[t] = "wait"
    /\ \/ /\ leader[t] = "zombie"
          /\ leader' = [leader EXCEPT ![t] = "reaped"]
          /\ Goto(t, "final") /\ UNCHANGED err
       \/ /\ leader[t] # "zombie"
          /\ Goto(t, "caught") /\ Raise(t, "timeout") /\ UNCHANGED leader
    /\ UNCHANGED <<child, open, op, unsent, file, signalled, containment, faults>>

(***************************************************************************)
(* _kill_and_reap, called in the loop and again by the handler of the      *)
(* timeout and the protocol error                                          *)
(***************************************************************************)
(* Mutant: whether the leader was reaped is not looked at. *)
MayAlways(t) == TRUE

(* The number is still its own: returncode is None. *)
MaySignal(t) == leader[t] # "reaped"

(* Mutant: only the leader is signalled. *)
SignalLeader(t, here, waiting, after) ==
    /\ pc[t] = here
    /\ leader' = [leader EXCEPT ![t] = IF @ = "run" THEN "dying" ELSE @]
    /\ Goto(t, IF MaySignal(t) THEN waiting ELSE after)
    /\ UNCHANGED <<child, open, signalled, op, unsent, file, err, containment, faults>>

(* The group, then the leader, are signalled, if they may be.  A signal to *)
(* a number that is no longer its own is recorded.                         *)
SignalGroup(t, here, waiting, after) ==
    /\ pc[t] = here
    /\ \/ /\ ~MaySignal(t)
          /\ Goto(t, after) /\ UNCHANGED <<process, signalled>>
       \/ /\ MaySignal(t)
          /\ child' = [child EXCEPT ![t] = "none"]
          /\ leader' = [leader EXCEPT ![t] = IF @ = "run" THEN "dying" ELSE @]
          /\ signalled' = [signalled EXCEPT ![t] = @ \/ leader[t] = "reaped"]
          /\ Goto(t, waiting) /\ UNCHANGED open
    /\ UNCHANGED <<op, unsent, file, err, containment, faults>>

(* The wait for the signalled leader: it is reaped, or the budget ends and *)
(* the error becomes a cleanup failure.                                    *)
ReapSignalled(t, here, after) ==
    /\ pc[t] = here
    /\ \/ /\ leader[t] = "zombie"
          /\ leader' = [leader EXCEPT ![t] = "reaped"]
          /\ Goto(t, after) /\ UNCHANGED err
       \/ /\ leader[t] = "dying"
          /\ Goto(t, "final") /\ Raise(t, "execution") /\ UNCHANGED leader
    /\ UNCHANGED <<child, open, op, unsent, file, signalled, containment, faults>>

Kill(t) == SignalGroup(t, "kill", "reap", "caught")
Reap(t) == ReapSignalled(t, "reap", "caught")
KillAgain(t) == SignalGroup(t, "caught", "reap2", "final")
ReapAgain(t) == ReapSignalled(t, "reap2", "final")

(***************************************************************************)
(* The end of the call                                                     *)
(***************************************************************************)
(* The finally block: poll() reaps an exited leader; one that still runs   *)
(* is killed, without its group, and waited for.                           *)
Finally(t) ==
    /\ pc[t] = "final"
    /\ \/ /\ leader[t] \in {"zombie", "reaped"}
          /\ leader' = [leader EXCEPT ![t] = "reaped"]
          /\ Goto(t, "unlink")
       \/ /\ leader[t] \in {"run", "dying"}
          /\ leader' = [leader EXCEPT ![t] = "dying"]
          /\ Goto(t, "lastwait")
    /\ UNCHANGED <<child, open, callVars>>

LastWait(t) ==
    /\ pc[t] = "lastwait"
    /\ Goto(t, "unlink")
    /\ leader' = [leader EXCEPT ![t] = IF @ = "zombie" THEN "reaped" ELSE @]
    /\ UNCHANGED <<child, open, callVars>>

(* The pipes are closed and the request file is removed; a run that was    *)
(* not ended early records how it was contained.  The session starter of   *)
(* an instance that has one ends the group before it exits.                *)
Unlink(t) ==
    /\ pc[t] = "unlink"
    /\ file' = [file EXCEPT ![t] = FALSE]
    /\ IF err[t] = "ok"
       THEN \/ containment' = "unavailable"
            \/ containment' = "engine-starter" /\ child[t] = "none"
       ELSE UNCHANGED containment
    /\ unsent' = [unsent EXCEPT ![t] = FALSE]
    /\ open' = [open EXCEPT ![t] = FALSE]
    /\ Goto(t, "return")
    /\ UNCHANGED <<leader, child, op, err, signalled, faults>>

(* How the call ends: with the error on its way, with what a failed run    *)
(* wrote to stderr, with an output that is empty or not UTF-8, or with     *)
(* what the caller makes of the answer.                                    *)
ExitClass == {"policy", "source_unavailable", "unsupported", "execution", "protocol"}

Outcomes(t, answers) ==
    CASE err[t] = "ok" -> answers \union {Refuse(class) : class \in ExitClass}
      [] err[t] = "bound" -> {Refuse("protocol")}
      [] OTHER -> {Refuse(err[t])}

(* What the thread does by itself. *)
Progress(t) ==
    \/ Popen(t) \/ Drained(t) \/ Deadline(t) \/ Wait(t)
    \/ Kill(t) \/ Reap(t) \/ KillAgain(t) \/ ReapAgain(t)
    \/ Finally(t) \/ LastWait(t) \/ Unlink(t)

(* What depends on the process.  What is left of a process after the call  *)
(* stays as it is: it could only end.                                      *)
Environment(t) ==
    /\ pc[t] \notin {"idle", "return", "seal"}
    /\ \/ WriteInput(t) \/ OutputBound(t) \/ Fault(t)
       \/ Fork(t) \/ CloseOutput(t) \/ Exit(t) \/ ChildExit(t)

(* After its last signal to the pid of its process the client has not      *)
(* reaped it before: _kill_and_reap runs twice on the timeout path, and    *)
(* the second run must not address a number that is no longer its own.     *)
SignalsOwnGroup == \A t \in Thread : ~signalled[t]

(* A call that ended with its deadline or its output bound has reaped the  *)
(* leader and left no child behind, also when the leader had exited before *)
(* and only a child held the pipes.                                        *)
TreeEnded ==
    \A t \in Thread :
      pc[t] \in {"return", "seal", "idle"} /\ err[t] \in {"timeout", "bound"}
        => leader[t] = "reaped" /\ child[t] = "none"

(* However a call ends, its request file is gone, and its process is       *)
(* reaped or was reported or interrupted.                                  *)
ReturnsClean ==
    \A t \in Thread :
      pc[t] \in {"return", "seal", "idle"} =>
        /\ ~file[t]
        /\ leader[t] # "run"
        /\ leader[t] \in {"dying", "zombie"} => err[t] \in {"execution", "interrupt"}
=============================================================================
