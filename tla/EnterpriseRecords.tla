------------------------- MODULE EnterpriseRecords -------------------------
(***************************************************************************)
(* What EnterpriseInstanceClient and InstanceContextClient                 *)
(* (enterprise_instance.py) accept as the answer to a request: the checks  *)
(* of planning.py, presenter.py, source_execution.py and                   *)
(* provider_execution.py that tie an answer to what was asked for.         *)
(*                                                                         *)
(* A text stands for its digest, and the digest of a record is the record  *)
(* without its digest: hashes do not collide.  A text that was put         *)
(* together is the set of its pieces.  "well" says that the JSON, the key  *)
(* sets, the versions and the shapes of all fields are as expected.  A     *)
(* source costs one token.  A request q is a record; its fields are        *)
(* described where EnterpriseInstance builds it.                           *)
(***************************************************************************)
EXTENDS Naturals, FiniteSets, InstanceRecords

CONSTANTS
    Tenant,     \* the tenant the client is configured for
    Request,    \* the planning request: [task, budget]
    Cap,        \* what has the shape of a presenter capability
    Absent      \* the value of a key that an object does not have; None is null

(***************************************************************************)
(* planning.py: a source plan is [id, task, budget, epoch, sel, proj,      *)
(* bind, digest]; sel holds [src, owner, state, text], bind holds          *)
(* [src, owner, text, permitted].                                          *)
(***************************************************************************)
Selected(p) == {s \in p.sel : s.state = "selected"}

OneEach(items) == \A a, b \in items : a.src = b.src => a = b

(* _mapping: an object; it may have more fields than the ones named here.  *)
Mapping(p) == p = [f \in DOMAIN p |-> p[f]]

(* _plan: no source twice, the selection fits the budget, and the digest   *)
(* of the projection is its own, if it has one.                            *)
PlanOK(p) ==
    /\ Mapping(p)
    /\ OneEach(p.sel)
    /\ Cardinality(Selected(p)) <= p.budget
    /\ p.proj \in {None, "right"}

(* _response: the plan is for the task and within the budget. *)
ResponseOK(p) == PlanOK(p) /\ p.task = Request.task /\ p.budget <= Request.budget

(* The digest of everything in the plan and its bindings but itself. *)
BindingDigest(p) == [f \in DOMAIN p \ {"digest"} |-> p[f]]

(* parse_source_plan: the bindings are the selected entries, one each, and *)
(* the binding digest covers plan and bindings.                            *)
ParseSourcePlan(p) ==
    /\ ResponseOK(p) /\ p.proj # None
    /\ OneEach(p.bind)
    /\ Cardinality(Selected(p)) = Cardinality(p.bind)
    /\ \A b \in p.bind : \E s \in Selected(p) :
          s.src = b.src /\ s.owner = b.owner /\ s.text = b.text
    /\ "digest" \in DOMAIN p /\ p.digest = BindingDigest(p)

(* _validate_source_scope: only sources that were asked for, and permitted. *)
SourceScope(p, ids) ==
    /\ \A s \in p.sel : s.src \in ids /\ s.owner \in ids
    /\ \A b \in p.bind : b.src \in ids /\ b.owner \in ids /\ b.permitted

(* The answer comes from the tenant of the client. *)
TenantOK(a) == a.well /\ a.tenant = Tenant

(* _parse_response: the answer to context_plan, [well, tenant, rev, plan]. *)
PlanAnswerOK(a, q) == TenantOK(a) /\ ParseSourcePlan(a.plan) /\ SourceScope(a.plan, q.ids)

(* Mutant: the plan is checked in itself but not against the one expected. *)
PlannedUnbound(a, q) ==
    /\ TenantOK(a) /\ a.rev = q.rev
    /\ ParseSourcePlan(a.plan) /\ SourceScope(a.plan, q.ids)

(* The plan of an answer is the plan that was made: revision and digest.   *)
Planned(a, q) ==
    /\ TenantOK(a) /\ a.rev = q.rev
    /\ ParseSourcePlan(a.plan) /\ SourceScope(a.plan, q.ids)
    /\ a.plan.digest = q.binding

(* _parse_materialization_response: [.., plan, content, digest, tokens].   *)
MaterializationOK(a, q) ==
    /\ Planned(a, q)
    /\ a.tokens <= a.plan.budget
    /\ a.digest = a.content

(***************************************************************************)
(* presenter.py                                                            *)
(***************************************************************************)
(* parse_presenter_grant: a capability comes exactly with an issue, has    *)
(* its shape, and is not inside the text.                                  *)
GrantOK(a, issued) ==
    /\ (a.cap # None) = issued
    /\ issued => a.cap \in Cap /\ a.cap \notin a.content

(* context_materialize_v2: the exchange of version 1 and the grant. *)
MaterializationV2OK(a, q) == MaterializationOK(a, q) /\ GrantOK(a, q.cap = None)

(* The value says something: the key is there, and not null. *)
Given(value) == value \notin {Absent, None}

(* parse_presented_use: [.., usable, reason, ids, repeated, recovery, text]. *)
(* Which keys an answer has depends on the mode; what they hold is looked   *)
(* at only where it is not null.                                            *)
PresentedUseOK(a, q) ==
    /\ ~a.repeated
    /\ IF a.usable
       THEN /\ a.reason = Absent /\ a.ids # {}
            /\ (a.recovery # Absent) = (q.mode # "check")
            /\ (a.text # Absent) = (q.mode = "expand")
            /\ q.mode = "expand" /\ Given(a.recovery) => a.recovery = q.value
            /\ Given(a.text) => q.cap \notin a.text
       ELSE Given(a.reason) /\ a.ids = {} /\ a.recovery = Absent /\ a.text = Absent

(* Mutant: an answer about some of the sources will do. *)
UseWithin(a, q) ==
    /\ TenantOK(a) /\ a.rev = q.rev
    /\ PresentedUseOK(a, q)
    /\ a.usable => a.ids \subseteq q.ids

(* presented_use: of this tenant and revision, about exactly the sources. *)
UseOK(a, q) ==
    /\ TenantOK(a) /\ a.rev = q.rev
    /\ PresentedUseOK(a, q)
    /\ a.usable => a.ids = q.ids

(***************************************************************************)
(* source_execution.py: a declared plan is [id, task, provider, budget,    *)
(* context, decision, retries]; context is the id of a context plan.       *)
(***************************************************************************)
(* _validate_task: of the planning request and of the tenant. *)
TaskOK(task) == task.id = Request.task /\ task.tenant = Tenant

(* _validate_plan: of the task; a context plan only where it may be named. *)
DeclaredOK(decl, id, named) == decl.task = id /\ (decl.context # None => named)

(* validate_execution_request: the plan is for the local capability. *)
ExecutionRequestOK(task, decl) ==
    TaskOK(task) /\ DeclaredOK(decl, task.id, FALSE) /\ decl.provider = "local-native"

(* _parse_invocation: the local capability, admitted, input among the refs. *)
SourceInvocationOK(inv) ==
    /\ inv.capability = "local-native" /\ inv.admitted
    /\ inv.input \in inv.refs

(* _validate_lineage: the four references are the input, the source plan,  *)
(* the task and the execution plan, each by its digest.                    *)
LineageOK(a, q) ==
    /\ a.inv.input = <<"input", a.inv.digest>>
    /\ a.inv.refs = {a.inv.input, <<"evidence", a.plan>>, <<"task", q.task>>, <<"plan", a.execution>>}

(* _parse_receipt: a receipt reference is its digest and claims no outcome. *)
ReceiptOK(r) == r.ref = r.digest /\ r.outcome = "unknown"

(* The declared plan, joined to its context plan and to the decision.      *)
ExecutionPlanOK(a, q) ==
    LET x == a.execution
        context == [q.decl EXCEPT !.context = a.plan.id]
    IN  /\ x.context = a.plan.id /\ x.budget = a.plan.budget
        /\ x.provider = "local-native" /\ DeclaredOK(x, Request.task, TRUE)
        /\ x.decision # None
        /\ x = IF q.decl.decision = None THEN [context EXCEPT !.decision = x.decision] ELSE context

(* parse_source_execution_response. *)
ExecutionOK(a, q) ==
    /\ Planned(a, q)
    /\ ExecutionPlanOK(a, q)
    /\ q.epoch # None => a.plan.epoch = q.epoch
    /\ ViewOK(a.view) /\ a.view.digest # None /\ a.view.ref # None
    /\ SourceInvocationOK(a.inv)
    /\ ObservationOK(a.obs, a.inv) /\ a.obs.status = "succeeded"
    /\ a.obs.lineage = a.inv.refs
    /\ a.obs.ref = a.view.ref /\ a.obs.digest = a.view.digest
    /\ LineageOK(a, q) /\ ReceiptOK(a.receipt)

(* parse_source_execution_v2_response: the document of the receipt as well. *)
ExecutionV2OK(a, q) == ExecutionOK(a, q) /\ a.receipt.digest = a.document

(* The id of an outcome receipt covers all of its document but id and      *)
(* signature.  Evidence is the runtime evidence of the document.           *)
Identity(d) == <<d.state, d.task, d.evidence>>

(* _validate_outcome_receipt_joins: the document agrees with the answer    *)
(* and with the request, and its runtime evidence is the decision only.    *)
OutcomeJoins(a, q) ==
    LET d == a.document IN
    /\ a.id = Identity(d) /\ d.id = a.id
    /\ d.state = a.acceptance
    /\ d.task = q.task.id
    /\ d.evidence = {q.decision}

(* parse_engine_outcome_response: [.., original, acceptance, id, digest,   *)
(* document].                                                              *)
OutcomeOK(a, q) ==
    /\ TenantOK(a)
    /\ a.original = q.receipt
    /\ a.acceptance \in {"accepted", "rejected"}
    /\ a.digest = a.document
    /\ OutcomeJoins(a, q)

(***************************************************************************)
(* provider_execution.py                                                   *)
(***************************************************************************)
(* validate_provider_request: a concrete provider, a context plan within   *)
(* the budget, no retries.                                                 *)
ProviderRequestOK(task, decl) ==
    /\ TaskOK(task) /\ DeclaredOK(decl, task.id, TRUE) /\ decl.context # None
    /\ decl.budget \in 1..Request.budget
    /\ decl.provider \notin {"local-native", "auto"}
    /\ decl.retries = 0

(* _parse_usage and _parse_cost: all counters or none, and no price for    *)
(* what was not counted.                                                   *)
UsageOK(a) ==
    /\ (a.usage = "unavailable") = (a.counters = "none")
    /\ a.usage # "unavailable" => a.counters = "summed"
    /\ a.cost = "usage_priced_estimate" => a.usage # "unavailable"

(* _parse_failure: no retry by the host, a lost source can be recovered.   *)
ProviderFailureOK(f) ==
    /\ ~f.retryable
    /\ f.code = "policy_rejected" => f.recovery = None
    /\ f.code \in {"source_unavailable", "source_integrity_mismatch"} => f.recovery # None

(* parse_provider_execution_response: an answer of version 1 names the     *)
(* task, the plan and the provider, and no tenant.                         *)
ProviderAnswerOK(a, q) ==
    /\ a.well
    /\ a.task = q.task.id /\ a.plan = q.decl.id /\ a.provider = q.decl.provider
    /\ a.acceptance = "unknown"
    /\ UsageOK(a)
    /\ a.output # None => a.output.digest = a.output.text
    /\ a.failure # None => ProviderFailureOK(a.failure)
    /\ IF a.status = "succeeded" THEN a.output # None /\ a.failure = None
                                 ELSE a.output = None /\ a.failure # None

(***************************************************************************)
(* enterprise_instance.py: the guarded context read                        *)
(***************************************************************************)
(* _parse_context_receipt and _parse_context_read_response. *)
ContextReadOK(a) ==
    /\ a.well /\ ~a.isError
    /\ ReceiptOK(a.receipt) /\ a.receipt.delivery = "native_engine_view"

(* The operation of a request reads its answer: TRUE, or a protocol error. *)
Accepts(q, a) ==
    CASE q.op = "plan" -> PlanAnswerOK(a, q)
      [] q.op = "materialize" -> MaterializationOK(a, q)
      [] q.op = "materialize_v2" -> MaterializationV2OK(a, q)
      [] q.op = "use" -> UseOK(a, q)
      [] q.op = "revoke" -> TenantOK(a)
      [] q.op = "execute" -> ExecutionOK(a, q)
      [] q.op = "execute_v2" -> ExecutionV2OK(a, q)
      [] q.op = "outcome" -> OutcomeOK(a, q)
      [] q.op = "provider" -> ProviderAnswerOK(a, q)
      [] OTHER -> ContextReadOK(a)
=============================================================================
