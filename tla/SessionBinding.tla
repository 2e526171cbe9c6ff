--------------------------- MODULE SessionBinding ---------------------------
(***************************************************************************)
(* The binding of sessions to workspaces inside one process: the table     *)
(* _SESSION_BINDINGS of workspace.py, which attach_session, start_session  *)
(* and commit_context read and write under _SESSION_BINDINGS_LOCK in       *)
(* separate critical sections, with the append to the journal between.     *)
(***************************************************************************)
EXTENDS Naturals

CONSTANTS
    Attacher,     \* threads of the process
    Session,      \* planned ContextSession objects
    Workspace,    \* open ContextWorkspace objects, each with its own key
    NoWorkspace,  \* no binding
    MaxRestarts   \* bound: how often the process is restarted

ASSUME BindingAssumption == NoWorkspace \notin Workspace /\ MaxRestarts \in Nat

VARIABLES
    durable,   \* the sessions recorded in each workspace's journal
    binding,   \* _SESSION_BINDINGS
    runtime,   \* _runtime_sessions of each workspace object
    at,        \* where each thread is
    on,        \* the session and workspace of its call
    ended,     \* how its last call ended
    restarts

bindingVars == <<durable, binding, runtime, at, on, ended, restarts>>

Pairs == [session : Session, workspace : Workspace]

BindingInit ==
    /\ durable = [w \in Workspace |-> {}]
    /\ binding = [s \in Session |-> NoWorkspace]
    /\ runtime = [w \in Workspace |-> {}]
    /\ at = [t \in Attacher |-> "idle"]
    /\ on \in [Attacher -> Pairs]
    /\ ended = [t \in Attacher |-> "none"]
    /\ restarts = 0

Proceed(t, to) == at' = [at EXCEPT ![t] = to]
Ends(t, how) == Proceed(t, "idle") /\ ended' = [ended EXCEPT ![t] = how]
Bind(t) == binding' = [binding EXCEPT ![on[t].session] = on[t].workspace]
Register(t) == runtime' = [runtime EXCEPT ![on[t].workspace] = @ \union {on[t].session}]

-----------------------------------------------------------------------------
(* attach_session reads the journal, then looks the binding up. *)
CheckBinding(t, p) ==
    /\ at[t] = "idle"
    /\ on' = [on EXCEPT ![t] = p]
    /\ IF binding[p.session] \in {NoWorkspace, p.workspace}
       THEN /\ Proceed(t, IF p.session \in durable[p.workspace] THEN "rebind" ELSE "bind")
            /\ ended' = [ended EXCEPT ![t] = "none"]
       ELSE Ends(t, "conflict")
    /\ UNCHANGED <<durable, binding, runtime, restarts>>

(* start_session makes a new session and binds it in one critical section. *)
StartSession(t, p) ==
    /\ at[t] = "idle"
    /\ binding[p.session] = NoWorkspace
    /\ \A w \in Workspace : p.session \notin durable[w]
    /\ \A u \in Attacher : at[u] # "idle" => on[u].session # p.session
    /\ on' = [on EXCEPT ![t] = p]
    /\ binding' = [binding EXCEPT ![p.session] = p.workspace]
    /\ Proceed(t, "append")
    /\ ended' = [ended EXCEPT ![t] = "none"]
    /\ UNCHANGED <<durable, runtime, restarts>>

(* The session was in the journal already: it is bound and returned. *)
Rebind(t) ==
    /\ at[t] = "rebind"
    /\ Bind(t)
    /\ Proceed(t, "register")
    /\ UNCHANGED <<durable, runtime, on, ended, restarts>>

(* Mutant of BindNew: the session is registered before it is appended. *)
BindNewRegistered(t) ==
    /\ at[t] = "bind"
    /\ Bind(t)
    /\ Register(t)
    /\ Proceed(t, "append")
    /\ UNCHANGED <<durable, on, ended, restarts>>

(* A new session is bound before it is appended, without a second look. *)
BindNew(t) ==
    /\ at[t] = "bind"
    /\ Bind(t)
    /\ Proceed(t, "append")
    /\ UNCHANGED <<durable, runtime, on, ended, restarts>>

(* _append records the session, unless it is there by now; it may also     *)
(* fail for a reason of its own (lifecycle, limits, lock, I/O), before or  *)
(* after the event is published.                                           *)
AppendSession(t) ==
    /\ at[t] = "append"
    /\ \/ /\ on[t].session \notin durable[on[t].workspace]
          /\ durable' = [durable EXCEPT ![on[t].workspace] = @ \union {on[t].session}]
          /\ Proceed(t, "register") \/ Proceed(t, "unbind")
       \/ /\ UNCHANGED durable
          /\ Proceed(t, "unbind")
    /\ UNCHANGED <<binding, runtime, on, ended, restarts>>

RegisterSession(t) ==
    /\ at[t] = "register"
    /\ Register(t)
    /\ Ends(t, "ok")
    /\ UNCHANGED <<durable, binding, on, restarts>>

(* Mutant of Unbind: the binding of a failed attachment stays. *)
UnbindForgotten(t) ==
    /\ at[t] = "unbind"
    /\ Ends(t, "failed")
    /\ UNCHANGED <<durable, binding, runtime, on, restarts>>

(* The append failed: the session's binding is removed, whoever made it. *)
Unbind(t) ==
    /\ at[t] = "unbind"
    /\ binding' = [binding EXCEPT ![on[t].session] = NoWorkspace]
    /\ Ends(t, "failed")
    /\ UNCHANGED <<durable, runtime, on, restarts>>

(* The process ends; its tables are gone, the journals stay. *)
Restart ==
    /\ restarts < MaxRestarts
    /\ restarts' = restarts + 1
    /\ binding' = [s \in Session |-> NoWorkspace]
    /\ runtime' = [w \in Workspace |-> {}]
    /\ at' = [t \in Attacher |-> "idle"]
    /\ ended' = [t \in Attacher |-> "none"]
    /\ UNCHANGED <<durable, on>>

BindingNext ==
    \/ \E t \in Attacher, p \in Pairs : CheckBinding(t, p) \/ StartSession(t, p)
    \/ \E t \in Attacher : \/ Rebind(t) \/ BindNew(t) \/ AppendSession(t) \/ RegisterSession(t)
                           \/ Unbind(t)
    \/ Restart

BindingSpec == BindingInit /\ [][BindingNext]_bindingVars

-----------------------------------------------------------------------------
(* commit_context accepts the session in this workspace. *)
MayCommit(w, s) == s \in runtime[w] /\ binding[s] = w

(* A binding always stands for an attachment: the session is in the        *)
(* journal, or a thread is still attaching it.                             *)
BindingsBacked ==
    \A s \in Session : binding[s] # NoWorkspace =>
        \/ s \in durable[binding[s]]
        \/ \E t \in Attacher : at[t] \in {"append", "unbind"} /\ on[t].session = s

(* A session that commit_context accepts was attached to that very journal. *)
CommitsAreAttached ==
    \A w \in Workspace, s \in Session : MayCommit(w, s) => s \in durable[w]

(* One session is never attached to two workspaces by one process. *)
SessionNotCrossBound ==
    \A w, v \in Workspace : w # v => durable[w] \intersect durable[v] = {}

=============================================================================
