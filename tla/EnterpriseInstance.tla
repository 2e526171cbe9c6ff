------------------------ MODULE EnterpriseInstance ------------------------
(***************************************************************************)
(* A program that works with an Enterprise host through                    *)
(* EnterpriseInstanceClient and InstanceContextClient                      *)
(* (enterprise_instance.py): it plans, materializes under a presenter      *)
(* capability or without one, uses what was presented, executes, reports   *)
(* outcomes.  The client keeps nothing between calls; what the program     *)
(* passes on from one result to the next call is "known".                  *)
(*                                                                         *)
(* The host is external: its sources and their governance change between   *)
(* calls, it serves a request also when nobody waits any more, and it may  *)
(* answer from its present state instead of the planned one, or with a     *)
(* part of the answer wrong (Spoil).                                       *)
(***************************************************************************)
EXTENDS TLC, EnterpriseRecords, EnterpriseTransport

CONSTANTS
    Source,     \* the governed sources
    Asked,      \* the sets of sources the program plans with
    Declared,   \* the plans it declares, for the local capability or for a provider
    MaxChange,  \* bound: how often sources and governance change
    MaxCalls,   \* bound: how many calls the program makes
    MaxSpoil,   \* bound: how many answers are not what the host should say
    Spoil(_, _) \* the ways in which the answer to a request can be wrong

ASSUME InstanceAssumption == Asked \subseteq SUBSET Source /\ MaxChange \in Nat /\ MaxCalls \in Nat /\ MaxSpoil \in Nat

(* A declared plan is an object; no reference is the value None. *)
ASSUME DeclaredAssumption ==
    \A decl \in Declared : Mapping(decl) /\ {"context", "decision"} \subseteq DOMAIN decl

VARIABLES
    host,       \* [rev, ver, text, permitted, live, kept]: the state of the host;
                \* kept is the text retained under "k", at first an empty one
    known,      \* what the program has learned: [plan, grant, receipt]
    planned,    \* every [rev, ids, plan] that context_plan has returned
    result,     \* request and answer of the last call, None if it raised an error
    calls, spoiled

Rest == <<host, known, planned, result, calls, spoiled>>
vars == <<transportVars, Rest>>

Nothing == [plan |-> None, grant |-> None, receipt |-> None]

Init ==
    /\ TransportInit
    /\ host = [rev |-> 0, ver |-> 0, text |-> [s \in Source |-> 0], permitted |-> Source,
               live |-> {}, kept |-> {}]
    /\ known = Nothing
    /\ planned = {} /\ result = None /\ calls = 0 /\ spoiled = 0

(***************************************************************************)
(* The calls                                                               *)
(***************************************************************************)
Task == [id |-> Request.task, tenant |-> Tenant]

Blank == [op |-> None, ids |-> {}, rev |-> None, binding |-> None, cap |-> None, mode |-> None,
          value |-> None, task |-> Task, decl |-> None, epoch |-> None, receipt |-> None,
          decision |-> None]

Call(q) ==
    /\ calls < MaxCalls
    /\ calls' = calls + 1
    /\ Post(q)
    /\ UNCHANGED <<host, known, planned, result, spoiled>>

ContextPlan(ids) == Call([Blank EXCEPT !.op = "plan", !.ids = ids])

(* A request under the plan the program holds. *)
Bound(op) ==
    [Blank EXCEPT !.op = op, !.ids = known.plan.ids, !.rev = known.plan.rev,
                  !.binding = known.plan.plan.digest]

ContextMaterialize == known.plan # None /\ Call(Bound("materialize"))

(* A new capability is asked for, or the one at hand renewed. *)
ContextMaterializeV2 ==
    /\ known.plan # None
    /\ \/ Call(Bound("materialize_v2"))
       \/ known.grant # None /\ Call([Bound("materialize_v2") EXCEPT !.cap = known.grant.cap])

(* The delivered text is checked or retained, or the copy "k" is expanded. *)
PresentedUse(mode) ==
    /\ known.grant # None /\ known.grant.ids # {}
    /\ Call([Blank EXCEPT !.op = "use", !.mode = mode, !.ids = known.grant.ids,
                          !.rev = known.grant.rev, !.cap = known.grant.cap,
                          !.value = IF mode = "expand" THEN "k" ELSE known.grant.content])

PresenterRevoke ==
    known.grant # None /\ Call([Blank EXCEPT !.op = "revoke", !.cap = known.grant.cap])

ContextExecute(decl) ==
    /\ known.plan # None /\ ExecutionRequestOK(Task, decl)
    /\ Call([Bound("execute") EXCEPT !.decl = decl])

ContextExecuteV2(decl) ==
    /\ known.plan # None /\ ExecutionRequestOK(Task, decl)
    /\ Call([Bound("execute_v2") EXCEPT !.decl = decl, !.epoch = known.plan.plan.epoch])

ProviderExecute(decl) ==
    /\ known.plan # None /\ ProviderRequestOK(Task, decl)
    /\ Call([Bound("provider") EXCEPT !.decl = decl])

ContextOutcome ==
    /\ known.receipt # None
    /\ Call([Blank EXCEPT !.op = "outcome", !.receipt = known.receipt.digest,
                          !.decision = known.receipt.decision])

ContextRead == Call([Blank EXCEPT !.op = "read"])

(* What the program keeps of an accepted answer. *)
Learn(q, a) ==
    CASE q.op = "plan" -> [known EXCEPT !.plan = [rev |-> a.rev, ids |-> q.ids, plan |-> a.plan]]
      [] q.op = "materialize_v2" ->
           [known EXCEPT !.grant =
               [cap |-> IF q.cap = None THEN a.cap ELSE q.cap, rev |-> a.rev,
                ids |-> {b.src : b \in a.plan.bind}, content |-> a.content]]
      [] q.op \in {"execute", "execute_v2"} ->
           [known EXCEPT !.receipt = [digest |-> a.receipt.digest, decision |-> a.plan]]
      [] OTHER -> known

(* The answer is parsed, or the error raised.  A cut answer is not JSON.   *)
(* What _post_json has kept is gone; a request the host has not served     *)
(* stays with the host.                                                    *)
Return ==
    /\ Join
    /\ late' = FALSE /\ sent' = FALSE /\ part' = FALSE /\ keep' = FALSE /\ cut' = "no" /\ got' = 0 /\ outcome' = "ok"
    /\ wire' = IF wire = "request" THEN wire ELSE "none"
    /\ call' = IF wire = "request" THEN call ELSE None
    /\ answer' = None
    /\ IF outcome = "ok" /\ got = Chunks /\ Accepts(call, answer)
       THEN /\ result' = [q |-> call, a |-> answer]
            /\ known' = Learn(call, answer)
            /\ planned' = planned \union ({known'.plan} \ {None})
       ELSE result' = None /\ UNCHANGED <<known, planned>>
    /\ UNCHANGED <<host, calls, spoiled>>

(***************************************************************************)
(* The host                                                                *)
(***************************************************************************)
(* A source is edited, or a permission withdrawn under a new revision. *)
Change ==
    /\ host.ver < MaxChange
    /\ \E s \in host.permitted :
          host' = [host EXCEPT !.ver = @ + 1, !.text[s] = @ + 1]
    /\ UNCHANGED <<transportVars, known, planned, result, calls, spoiled>>

Govern ==
    /\ host.ver < MaxChange
    /\ \E s \in host.permitted :
          host' = [host EXCEPT !.ver = @ + 1, !.rev = @ + 1, !.permitted = @ \ {s}]
    /\ UNCHANGED <<transportVars, known, planned, result, calls, spoiled>>

(* The plan for some sources as things are now. *)
CurrentPlan(ids) ==
    LET sel == {[src |-> s, owner |-> s, text |-> host.text[s],
                 state |-> IF s \in host.permitted THEN "selected" ELSE "excluded"] : s \in ids}
        bind == {[src |-> s, owner |-> s, text |-> host.text[s], permitted |-> TRUE] :
                    s \in ids \intersect host.permitted}
        plan == [id |-> host.ver, task |-> Request.task, budget |-> Request.budget,
                 epoch |-> "now", sel |-> sel, proj |-> "right", bind |-> bind]
    IN  [digest |-> BindingDigest(plan)] @@ plan

Envelope(rev) == [well |-> TRUE, tenant |-> Tenant, rev |-> rev]

Content(plan) == {<<b.src, b.text>> : b \in plan.bind}

(* What the host says to a request about its plans. *)
MaterialAnswer(rev, plan, cap) ==
    [plan |-> plan, content |-> Content(plan), digest |-> Content(plan),
     tokens |-> Cardinality(plan.bind), cap |-> cap] @@ Envelope(rev)

ExecutionAnswer(rev, plan, q) ==
    LET x == [q.decl EXCEPT !.context = plan.id, !.decision = IF @ = None THEN "d" ELSE @]
        input == <<"input", Content(plan)>>
        refs == {input, <<"evidence", plan>>, <<"task", q.task>>, <<"plan", x>>}
    IN  [plan |-> plan, execution |-> x,
         view |-> [text |-> "v", digest |-> "v", ref |-> "v"],
         inv |-> [id |-> "i", capability |-> "local-native", admitted |-> TRUE,
                  digest |-> Content(plan), input |-> input, refs |-> refs],
         obs |-> [id |-> "i", digest |-> "v", ref |-> "v", lineage |-> refs,
                  status |-> "succeeded", failure |-> None, link |-> "i"],
         receipt |-> [digest |-> <<"r", plan.id>>, ref |-> <<"r", plan.id>>, outcome |-> "unknown"],
         document |-> <<"r", plan.id>>] @@ Envelope(rev)

UseAnswer(q) ==
    IF q.cap \in host.live
    THEN [usable |-> TRUE, reason |-> Absent, ids |-> q.ids, repeated |-> FALSE,
          recovery |-> IF q.mode = "check" THEN Absent ELSE "k",
          text |-> IF q.mode = "expand" THEN host.kept ELSE Absent] @@ Envelope(q.rev)
    ELSE [usable |-> FALSE, reason |-> "lineage", ids |-> {}, repeated |-> FALSE,
          recovery |-> Absent, text |-> Absent] @@ Envelope(q.rev)

OutcomeAnswer(q) ==
    LET d == [state |-> "accepted", task |-> q.task.id, evidence |-> {q.decision}]
        document == [id |-> Identity(d)] @@ d
    IN  [original |-> q.receipt, acceptance |-> "accepted", id |-> Identity(d),
         digest |-> document, document |-> document] @@ Envelope(None)

ProviderAnswer(q) ==
    [well |-> TRUE, task |-> q.task.id, plan |-> q.decl.id, provider |-> q.decl.provider,
     acceptance |-> "unknown", usage |-> "measured", counters |-> "summed",
     cost |-> "usage_priced_estimate", status |-> "succeeded",
     output |-> [text |-> "o", digest |-> "o"], failure |-> None]

ReadAnswer ==
    [well |-> TRUE, isError |-> FALSE,
     receipt |-> [digest |-> "r", ref |-> "r", outcome |-> "unknown",
                  delivery |-> "native_engine_view"]]

(* The answers of a host that serves q under a plan and a revision. *)
Answer(q, rev, plan, cap) ==
    CASE q.op = "plan" -> [plan |-> plan] @@ Envelope(rev)
      [] q.op \in {"materialize", "materialize_v2"} -> MaterialAnswer(rev, plan, cap)
      [] q.op \in {"execute", "execute_v2"} -> ExecutionAnswer(rev, plan, q)
      [] q.op = "use" -> UseAnswer(q)
      [] q.op = "revoke" -> Envelope(None)
      [] q.op = "outcome" -> OutcomeAnswer(q)
      [] q.op = "provider" -> ProviderAnswer(q)
      [] OTHER -> ReadAnswer

(* The host as it is when a request has taken effect. *)
Effect(q, cap) ==
    CASE q.op = "materialize_v2" /\ cap # None -> [host EXCEPT !.live = @ \union {cap}]
      [] q.op = "use" /\ q.mode = "retain" /\ q.cap \in host.live -> [host EXCEPT !.kept = q.value]
      [] q.op = "revoke" -> [host EXCEPT !.live = @ \ {q.cap}]
      [] OTHER -> host

Issued(q) == IF q.op = "materialize_v2" /\ q.cap = None THEN Cap \ host.live ELSE {None}

(* The request is served from the present state, or refused because it is  *)
(* bound to another one; the host should not do otherwise.  It does so     *)
(* whether or not anybody still waits.                                     *)
Serve ==
    /\ wire = "request"
    /\ \E cap \in Issued(call) :
          LET plan == CurrentPlan(call.ids)
              stale == call.binding # None /\ (call.rev # host.rev \/ call.binding # plan.digest)
              honest == Answer(call, host.rev, plan, cap)
          IN  \/ /\ ~stale /\ wire' = "answered" /\ answer' = honest
                 /\ host' = Effect(call, cap)
                 /\ UNCHANGED spoiled
              \/ /\ stale /\ wire' = "refused"
                 /\ UNCHANGED <<answer, host, spoiled>>
              \/ /\ spoiled < MaxSpoil /\ spoiled' = spoiled + 1
                 /\ wire' = "answered"
                 /\ answer' \in IF stale THEN {Answer(call, call.rev, plan, cap), honest}
                                         ELSE Spoil(call, honest)
                 /\ host' = Effect(call, cap)
    /\ UNCHANGED <<pc, call, late, timer, conn, sent, peerVars, got, outcome, known, planned,
                   result, calls>>

Decline ==
    /\ wire = "request"
    /\ wire' = "refused"
    /\ UNCHANGED <<pc, call, answer, late, timer, conn, sent, peerVars, got, outcome, host, known,
                   planned, result, calls, spoiled>>

Caller ==
    \/ \E ids \in Asked : ContextPlan(ids)
    \/ ContextMaterialize \/ ContextMaterializeV2
    \/ \E mode \in {"check", "retain", "expand"} : PresentedUse(mode)
    \/ PresenterRevoke
    \/ \E decl \in Declared : ContextExecute(decl) \/ ContextExecuteV2(decl) \/ ProviderExecute(decl)
    \/ ContextOutcome \/ ContextRead \/ Return

Next ==
    \/ Caller
    \/ Transport /\ UNCHANGED Rest
    \/ Change \/ Govern \/ Serve \/ Decline

(* Time passes, the timer thread runs, and the calling thread runs where   *)
(* it waits for nobody.  The peer may stall for ever.                      *)
Fairness ==
    /\ WF_vars(Tick /\ UNCHANGED Rest)
    /\ WF_vars(Fire /\ UNCHANGED Rest) /\ WF_vars(Interrupt /\ UNCHANGED Rest)
    /\ WF_vars(Local /\ UNCHANGED Rest) /\ WF_vars(Return)

Spec == Init /\ [][Next]_vars /\ Fairness

(***************************************************************************)
(* Properties                                                              *)
(***************************************************************************)
Done(ops) == result # None /\ result.q.op \in ops

(* The types of the variables of _post_json and of the program. *)
TypeOK ==
    /\ TransportTypeOK
    /\ calls \in 0..MaxCalls /\ spoiled \in 0..MaxSpoil
    /\ host.ver \in 0..MaxChange /\ host.rev \in 0..MaxChange
    /\ host.permitted \subseteq Source /\ host.live \subseteq Cap
    /\ known.plan # None => known.plan \in planned

(* When a call has returned, its timer can no longer shut a socket and its *)
(* connection is closed: the finally block of _post_json against a timer   *)
(* that fires while it runs.                                               *)
QuietBetweenCalls ==
    pc = "idle" => timer \notin {"armed", "firing"} /\ conn \notin {"open", "fresh"}

(* The credential and a presenter capability go out on the connection the  *)
(* deadline timer guards and on no other: "HTTPConnection must not         *)
(* reconnect after the timer closes its socket".                           *)
CredentialGuarded == sent => timer # "none" /\ conn # "fresh"

(* The credential is on the wire only under the timer of its own call, and *)
(* nothing of a call outlives it.                                          *)
ConnectionGuarded == TypeOK /\ QuietBetweenCalls /\ CredentialGuarded

(* What is delivered or executed under a plan is a plan that context_plan  *)
(* returned earlier, unchanged, for the same sources and under the same    *)
(* governance revision, whatever has happened to sources, permissions and  *)
(* answers since: _parse_materialization_response and                      *)
(* parse_source_execution_response.                                        *)
PlannedOnly ==
    Done({"materialize", "materialize_v2", "execute", "execute_v2"}) =>
        [rev |-> result.a.rev, ids |-> result.q.ids, plan |-> result.a.plan] \in planned

(* The plan that was executed is the one the caller has declared, tied to  *)
(* a context plan made before: it differs in nothing but that reference    *)
(* and, where the caller has named none, the decision                      *)
(* (parse_source_execution_response).                                      *)
ExecutedAsDeclared ==
    Done({"execute", "execute_v2"}) =>
        /\ result.q.decl = [result.a.execution EXCEPT
                             !.context = None,
                             !.decision = IF result.q.decl.decision = None THEN None ELSE @]
        /\ \E p \in planned : p.plan.id = result.a.execution.context

(* An outcome belongs to the execution whose receipt the program holds: to *)
(* its receipt, its task and the source plan it ran under                  *)
(* (parse_engine_outcome_response).                                        *)
OutcomeTraceable ==
    Done({"outcome"}) =>
        /\ result.a.original = known.receipt.digest
        /\ \E p \in planned : result.a.document.evidence = {p.plan}
        /\ result.a.document.task = Request.task

(* Across plan, materialization, execution and outcome the program accepts *)
(* only what belongs to its own plan.                                      *)
ResultsBound == PlannedOnly /\ ExecutedAsDeclared /\ OutcomeTraceable

(* A program that has been granted a text holds the capability it was      *)
(* granted under, and the text an issue or an expansion returns does not   *)
(* show it (parse_presenter_grant, parse_presented_use).                   *)
CapabilityKept ==
    /\ known.grant # None => known.grant.cap \in Cap
    /\ Done({"materialize_v2"}) /\ result.q.cap = None => known.grant.cap \notin result.a.content
    /\ Done({"use"}) /\ Given(result.a.text) => result.q.cap \notin result.a.text

(* An answer that a text may be used is about exactly the sources the text *)
(* was made from, at the revision it was granted under.  A text comes back *)
(* from an expansion only, and an expansion that names a copy names the    *)
(* one that was asked for; an explicit null is let through                 *)
(* (presented_use, parse_presented_use).                                   *)
UseExact ==
    /\ Done({"use"}) /\ result.a.usable =>
          /\ result.a.ids = known.grant.ids /\ result.a.rev = known.grant.rev
          /\ result.q.mode = "expand" => result.a.recovery \in {result.q.value, None}
    /\ Done({"use"}) /\ Given(result.a.text) => result.a.usable /\ result.q.mode = "expand"

(* Does not hold: "expand takes a recovery_id as value and returns the     *)
(* kept text" (presented_use, enterprise_instance.py 895).  An expansion   *)
(* that answers null for recovery_id, or for content, is accepted          *)
(* (presenter.py 227-240).                                                 *)
ExpansionsNamed ==
    Done({"use"}) /\ result.a.usable /\ result.q.mode = "expand" =>
        result.a.recovery = result.q.value /\ Given(result.a.text)

(* A new capability stays out of the text it comes with and one that is    *)
(* used out of the text it expands to; what is said about a text is about  *)
(* the one that was granted.                                               *)
PresenterExact == CapabilityKept /\ UseExact

(* A call that has connected ends, also when the peer stalls or trickles:  *)
(* the deadline timer of _post_json.                                       *)
CallsEnd == pc \notin {"idle", "connect"} ~> pc = "idle"

(* A call whose connection the deadline timer has shut before the answer   *)
(* was complete raises InstanceTimeout.                                    *)
DeadlineReported ==
    pc = "join" /\ cut = "timer" /\ got < Chunks => outcome = "timeout"
=============================================================================
