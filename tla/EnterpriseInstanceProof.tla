---------------------- MODULE EnterpriseInstanceProof ----------------------
(***************************************************************************)
(* Proofs about EnterpriseInstance for every set of sources, plans and     *)
(* capabilities, every number of calls and changes, and a host that may    *)
(* answer anything.                                                        *)
(*                                                                         *)
(* The client keeps nothing between calls.  What ties the answer of one    *)
(* call to that of another is what the program passes on, so EInv says     *)
(* what a request on its way has in common with what the program knows     *)
(* (Asks), and what the program knows with the plans it was given          *)
(* (KnownOK).  Nothing is assumed of an answer: whatever holds of a result *)
(* was checked when the answer was read.                                   *)
(***************************************************************************)
EXTENDS EnterpriseInstance, TLAPS

(* The timer runs while the thread uses the connection, is cancelled       *)
(* before the join, and nothing of it is left between calls.               *)
TimerOK ==
    /\ pc \in {"send", "headers", "read"} \/ sent => timer # "none"
    /\ pc = "join" => timer # "armed"
    /\ pc = "idle" => timer \notin {"armed", "firing"} /\ conn # "open"
    /\ conn # "fresh"

(* The host as a record; every withdrawal of a permission is a change. *)
HostOK ==
    /\ host = [rev |-> host.rev, ver |-> host.ver, text |-> host.text,
               permitted |-> host.permitted, live |-> host.live, kept |-> host.kept]
    /\ host.rev \in Nat /\ host.ver \in Nat
    /\ host.permitted \subseteq Source /\ host.live \subseteq Cap
    /\ host.rev <= host.ver /\ host.ver <= MaxChange

BoundOps == {"materialize", "materialize_v2", "execute", "execute_v2", "provider"}

(* The request q was made from what the program knows now. *)
Asks(q) ==
    /\ q.op \in BoundOps => /\ known.plan # None
                            /\ q.ids = known.plan.ids /\ q.rev = known.plan.rev
                            /\ q.binding = known.plan.plan.digest
    /\ q.op = "materialize_v2" /\ q.cap # None => q.cap \in Cap
    /\ q.op = "use" => /\ known.grant # None
                       /\ q.ids = known.grant.ids /\ q.rev = known.grant.rev
    /\ q.op \in {"execute", "execute_v2"} => q.decl \in Declared /\ q.decl.context = None
    /\ q.op = "outcome" => /\ known.receipt # None
                           /\ q.receipt = known.receipt.digest
                           /\ q.decision = known.receipt.decision
    /\ q.task = Task

(* A plan that context_plan has returned. *)
PlannedOK(p) ==
    /\ p = [rev |-> p.rev, ids |-> p.ids, plan |-> p.plan]
    /\ ParseSourcePlan(p.plan)

KnownOK ==
    /\ known = [plan |-> known.plan, grant |-> known.grant, receipt |-> known.receipt]
    /\ \A p \in planned : PlannedOK(p)
    /\ known.plan # None => known.plan \in planned
    /\ known.grant # None => known.grant.cap \in Cap
    /\ known.receipt # None => \E p \in planned : p.plan = known.receipt.decision

EInv ==
    /\ TypeOK /\ TimerOK /\ HostOK /\ KnownOK
    /\ pc # "idle" => Asks(call)
    /\ ResultsBound /\ PresenterExact

-----------------------------------------------------------------------------
(* Two plans with the same binding digest are the same plan. *)
LEMMA DigestDetermines ==
    ASSUME NEW p, NEW q, ParseSourcePlan(p), ParseSourcePlan(q), p.digest = q.digest
    PROVE  p = q
<1>1. /\ Mapping(p) /\ "digest" \in DOMAIN p /\ p.digest = BindingDigest(p)
      /\ Mapping(q) /\ "digest" \in DOMAIN q /\ q.digest = BindingDigest(q)
  BY DEF ParseSourcePlan, ResponseOK, PlanOK
<1>2. DOMAIN BindingDigest(p) = DOMAIN p \ {"digest"} /\ DOMAIN BindingDigest(q) = DOMAIN q \ {"digest"}
  BY DEF BindingDigest
<1>3. DOMAIN p = DOMAIN q
  BY <1>1, <1>2
<1>4. \A f \in DOMAIN p \ {"digest"} : BindingDigest(p)[f] = p[f] /\ BindingDigest(q)[f] = q[f]
  BY <1>3 DEF BindingDigest
<1>5. \A f \in DOMAIN p : p[f] = q[f]
  BY <1>1, <1>4
<1> QED
  BY <1>1, <1>3, <1>5 DEF Mapping

-----------------------------------------------------------------------------
(* The transport.                                                          *)

TransportOK == TransportTypeOK /\ TimerOK

(* The timer thread and the time that passes. *)
LEMMA TimerSteps ==
    ASSUME TransportOK, Tick \/ Fire \/ Interrupt
    PROVE  TransportOK' /\ call' = call /\ pc' = pc
<1>1. CASE Tick
  BY <1>1 DEF Tick, TransportOK, TransportTypeOK, TimerOK, peerVars
<1>2. CASE Fire
  BY <1>2 DEF Fire, TransportOK, TransportTypeOK, TimerOK, peerVars
<1>3. CASE Interrupt
  BY <1>3 DEF Interrupt, TransportOK, TransportTypeOK, TimerOK, peerVars
<1> QED
  BY <1>1, <1>2, <1>3

(* The thread up to the moment at which the credential goes out: the timer *)
(* runs by then, and the connection is the one it guards.                  *)
LEMMA SendSteps ==
    ASSUME TransportOK, Connect \/ Arm \/ Send \/ Disconnected \/ PeerGone \/ Trickle \/ SocketTimeout
    PROVE  TransportOK' /\ call' = call /\ pc # "idle"
<1> USE DEF TransportOK, TransportTypeOK, TimerOK, peerVars, Leave, Remaining, Broken
<1>1. CASE Connect
  BY <1>1 DEF Connect
<1>2. CASE Arm
  BY <1>2 DEF Arm
<1>3. CASE Send
  BY <1>3 DEF Send
<1>4. CASE Disconnected
  BY <1>4 DEF Disconnected
<1>5. CASE PeerGone
  BY <1>5 DEF PeerGone
<1>6. CASE Trickle
  BY <1>6 DEF Trickle
<1>7. CASE SocketTimeout
  BY <1>7 DEF SocketTimeout
<1> QED
  BY <1>1, <1>2, <1>3, <1>4, <1>5, <1>6, <1>7

(* The thread while it reads the answer, and the first half of finally. *)
LEMMA ReadSteps ==
    ASSUME TransportOK, GetResponse \/ ReadChunk \/ ReadEnd \/ ReadCut \/ ReadReset \/ Cancel
    PROVE  TransportOK' /\ call' = call /\ pc # "idle"
<1> USE TransportAssumption DEF TransportOK, TransportTypeOK, TimerOK, peerVars, Leave, Remaining, Broken
<1>1. CASE GetResponse
  BY <1>1 DEF GetResponse, StatusErrors
<1>2. CASE ReadChunk
  <2>1. pc = "read" /\ got < Chunks /\ part' = FALSE
    BY <1>2 DEF ReadChunk
  <2>2. got' \in {got, got + 1}
    BY <1>2 DEF ReadChunk
  <2>3. got' \in 0..Chunks
    BY <2>1, <2>2
  <2>4. pc' \in {"read", "finally"} /\ outcome' \in {outcome, "timeout", "protocol"}
    BY <1>2 DEF ReadChunk
  <2>5. UNCHANGED <<call, late, timer, conn, sent, wire, keep, cut>> /\ part' \in BOOLEAN
    BY <1>2 DEF ReadChunk
  <2> QED
    BY <2>1, <2>3, <2>4, <2>5
<1>3. CASE ReadEnd
  BY <1>3 DEF ReadEnd
<1>4. CASE ReadCut
  <2>1. /\ pc = "read" /\ pc' \in {"read", "finally"} /\ cut' \in {"no", "peer", "timer"}
        /\ part' \in BOOLEAN /\ outcome' \in {outcome, "timeout", "ok", "attribute"}
    BY <1>4 DEF ReadCut
  <2>2. UNCHANGED <<call, late, timer, conn, sent, wire, keep, got>>
    BY <1>4 DEF ReadCut
  <2> QED
    BY <2>1, <2>2
<1>5. CASE ReadReset
  BY <1>5 DEF ReadReset
<1>6. CASE Cancel
  BY <1>6 DEF Cancel
<1> QED
  BY <1>1, <1>2, <1>3, <1>4, <1>5, <1>6

(* What the program holds does not depend on the transport. *)
LEMMA ProgramStays ==
    ASSUME EInv, UNCHANGED <<known, planned, result>>
    PROVE  KnownOK' /\ ResultsBound' /\ PresenterExact' /\ (\A q : Asks(q)' <=> Asks(q))
<1>1. KnownOK'
  BY DEF EInv, KnownOK
<1>2. ResultsBound'
  BY DEF EInv, ResultsBound, PlannedOnly, ExecutedAsDeclared, OutcomeTraceable, Done
<1>3. PresenterExact'
  BY DEF EInv, PresenterExact, CapabilityKept, UseExact, Done
<1>4. \A q : Asks(q)' <=> Asks(q)
  BY DEF Asks
<1> QED
  BY <1>1, <1>2, <1>3, <1>4

(* A step of the transport touches nothing that the program holds. *)
LEMMA TransportInv ==
    ASSUME EInv, Transport, UNCHANGED Rest
    PROVE  EInv'
<1>1. TransportOK' /\ call' = call /\ (pc # "idle" \/ pc' = pc)
  BY TimerSteps, SendSteps, ReadSteps DEF Transport, EInv, TypeOK, TransportOK
<1>2. UNCHANGED <<host, known, planned, result, calls, spoiled>>
  BY DEF Rest
<1>3. TypeOK' /\ TimerOK' /\ HostOK'
  BY <1>1, <1>2 DEF EInv, TypeOK, HostOK, TransportOK
<1> QED
  BY <1>1, <1>2, <1>3, ProgramStays DEF EInv


-----------------------------------------------------------------------------
(* The calls.                                                              *)

(* A call whose request was made from what the program knows. *)
LEMMA CallInv ==
    ASSUME EInv, NEW q, Asks(q), Call(q)
    PROVE  EInv'
<1>1. /\ pc' = "connect" /\ call' = q /\ timer' = "none" /\ conn' = "none"
      /\ sent' = FALSE /\ calls' = calls + 1 /\ calls < MaxCalls
      /\ UNCHANGED <<host, known, planned, result, spoiled>>
  BY DEF Call, Post
<1>2. TransportTypeOK'
  <2>1. 0 \in 0..Chunks
    BY TransportAssumption
  <2> QED
    BY <2>1 DEF Call, Post, TransportTypeOK
<1>3. TypeOK'
  BY <1>1, <1>2, InstanceAssumption DEF EInv, TypeOK
<1>4. TimerOK' /\ HostOK'
  BY <1>1 DEF EInv, TimerOK, HostOK
<1> QED
  BY <1>1, <1>3, <1>4, ProgramStays DEF EInv

(* Calls that name no result of an earlier one, and those that carry on    *)
(* under the presenter grant or the receipt.                               *)
LEMMA FreeCalls ==
    ASSUME EInv,
           \/ \E ids \in Asked : ContextPlan(ids)
           \/ \E mode \in {"check", "retain", "expand"} : PresentedUse(mode)
           \/ PresenterRevoke \/ ContextOutcome \/ ContextRead
    PROVE  EInv'
<1>1. ASSUME NEW ids \in Asked, ContextPlan(ids) PROVE EInv'
  <2>1. Asks([Blank EXCEPT !.op = "plan", !.ids = ids])
    BY DEF Asks, Blank, BoundOps
  <2> QED
    BY <1>1, <2>1, CallInv DEF ContextPlan
<1>2. ASSUME NEW mode \in {"check", "retain", "expand"}, PresentedUse(mode) PROVE EInv'
  <2> DEFINE q == [Blank EXCEPT !.op = "use", !.mode = mode, !.ids = known.grant.ids,
                                !.rev = known.grant.rev, !.cap = known.grant.cap,
                                !.value = IF mode = "expand" THEN "k" ELSE known.grant.content]
  <2>1. Asks(q)
    BY <1>2 DEF PresentedUse, Asks, Blank, BoundOps
  <2> QED
    BY <1>2, <2>1, CallInv DEF PresentedUse
<1>3. ASSUME PresenterRevoke PROVE EInv'
  <2>1. Asks([Blank EXCEPT !.op = "revoke", !.cap = known.grant.cap])
    BY DEF Asks, Blank, BoundOps
  <2> QED
    BY <1>3, <2>1, CallInv DEF PresenterRevoke
<1>4. ASSUME ContextOutcome PROVE EInv'
  <2>1. Asks([Blank EXCEPT !.op = "outcome", !.receipt = known.receipt.digest,
                           !.decision = known.receipt.decision])
    BY <1>4 DEF ContextOutcome, Asks, Blank, BoundOps
  <2> QED
    BY <1>4, <2>1, CallInv DEF ContextOutcome
<1>5. ASSUME ContextRead PROVE EInv'
  <2>1. Asks([Blank EXCEPT !.op = "read"])
    BY DEF Asks, Blank, BoundOps
  <2> QED
    BY <1>5, <2>1, CallInv DEF ContextRead
<1> QED
  BY <1>1, <1>2, <1>3, <1>4, <1>5

(* Calls under the plan that the program holds. *)
LEMMA BoundCalls ==
    ASSUME EInv,
           \/ ContextMaterialize \/ ContextMaterializeV2
           \/ \E decl \in Declared : ContextExecute(decl) \/ ContextExecuteV2(decl) \/ ProviderExecute(decl)
    PROVE  EInv'
<1>1. ASSUME ContextMaterialize PROVE EInv'
  <2>1. Asks(Bound("materialize"))
    BY <1>1 DEF ContextMaterialize, Asks, BoundOps, Bound, Blank
  <2> QED
    BY <1>1, <2>1, CallInv DEF ContextMaterialize
<1>2. ASSUME ContextMaterializeV2 PROVE EInv'
  <2>1. Asks(Bound("materialize_v2"))
    BY <1>2 DEF ContextMaterializeV2, Asks, BoundOps, Bound, Blank
  <2>2. known.grant # None => Asks([Bound("materialize_v2") EXCEPT !.cap = known.grant.cap])
    BY <1>2 DEF ContextMaterializeV2, Asks, BoundOps, EInv, KnownOK, Bound, Blank
  <2> QED
    BY <1>2, <2>1, <2>2, CallInv DEF ContextMaterializeV2
<1>3. ASSUME NEW decl \in Declared, ContextExecute(decl) PROVE EInv'
  <2>1. known.plan # None /\ decl.context = None
    BY <1>3 DEF ContextExecute, ExecutionRequestOK, DeclaredOK
  <2>2. Asks([Bound("execute") EXCEPT !.decl = decl])
    BY <2>1 DEF Asks, BoundOps, Bound, Blank
  <2> QED
    BY <1>3, <2>2, CallInv DEF ContextExecute
<1>4. ASSUME NEW decl \in Declared, ContextExecuteV2(decl) PROVE EInv'
  <2>1. known.plan # None /\ decl.context = None
    BY <1>4 DEF ContextExecuteV2, ExecutionRequestOK, DeclaredOK
  <2>2. Asks([Bound("execute_v2") EXCEPT !.decl = decl, !.epoch = known.plan.plan.epoch])
    BY <2>1 DEF Asks, BoundOps, Bound, Blank
  <2> QED
    BY <1>4, <2>2, CallInv DEF ContextExecuteV2
<1>5. ASSUME NEW decl \in Declared, ProviderExecute(decl) PROVE EInv'
  <2>1. Asks([Bound("provider") EXCEPT !.decl = decl])
    BY <1>5 DEF ProviderExecute, Asks, BoundOps, Bound, Blank
  <2> QED
    BY <1>5, <2>1, CallInv DEF ProviderExecute
<1> QED
  BY <1>1, <1>2, <1>3, <1>4, <1>5


-----------------------------------------------------------------------------
(* The answers.                                                            *)

(* An answer with the revision and the binding digest of the held plan has *)
(* that plan, whatever else it says.                                       *)
LEMMA JoinedPlan ==
    ASSUME KnownOK, NEW q, NEW a, Asks(q), q.op \in BoundOps, Planned(a, q)
    PROVE  /\ known.plan \in planned
           /\ known.plan = [rev |-> a.rev, ids |-> q.ids, plan |-> a.plan]
<1>1. /\ known.plan \in planned /\ PlannedOK(known.plan)
      /\ q.ids = known.plan.ids /\ q.rev = known.plan.rev /\ q.binding = known.plan.plan.digest
  BY DEF KnownOK, Asks
<1>2. a.rev = q.rev /\ ParseSourcePlan(a.plan) /\ a.plan.digest = q.binding
  BY DEF Planned
<1>3. a.plan = known.plan.plan
  BY <1>1, <1>2, DigestDetermines DEF PlannedOK
<1> QED
  BY <1>1, <1>2, <1>3 DEF PlannedOK

(* What the operations check that join their answer to a plan. *)
LEMMA AcceptedPlanned ==
    ASSUME NEW q, NEW a, Accepts(q, a), q.op \in {"materialize", "materialize_v2", "execute", "execute_v2"}
    PROVE  /\ q.op \in BoundOps /\ Planned(a, q)
           /\ q.op \in {"execute", "execute_v2"} => ExecutionPlanOK(a, q)
           /\ q.op = "materialize_v2" => GrantOK(a, q.cap = None)
<1>1. CASE q.op = "materialize"
  BY <1>1 DEF Accepts, MaterializationOK, BoundOps
<1>2. CASE q.op = "materialize_v2"
  BY <1>2 DEF Accepts, MaterializationV2OK, MaterializationOK, BoundOps
<1>3. CASE q.op = "execute"
  BY <1>3 DEF Accepts, ExecutionOK, BoundOps
<1>4. CASE q.op = "execute_v2"
  BY <1>4 DEF Accepts, ExecutionV2OK, ExecutionOK, BoundOps
<1> QED
  BY <1>1, <1>2, <1>3, <1>4

(* What the program learns from an accepted answer is as good as what it   *)
(* has known.                                                              *)
LEMMA LearnOK ==
    ASSUME KnownOK, NEW q, NEW a, Asks(q), Accepts(q, a),
           known' = Learn(q, a), planned' = planned \union ({known'.plan} \ {None})
    PROVE  KnownOK'
<1>1. CASE q.op = "plan"
  <2> DEFINE p == [rev |-> a.rev, ids |-> q.ids, plan |-> a.plan]
  <2>1. known' = [known EXCEPT !.plan = p]
    BY <1>1 DEF Learn
  <2>2. known' = [plan |-> p, grant |-> known.grant, receipt |-> known.receipt]
    BY <2>1 DEF KnownOK
  <2>3. PlannedOK(p)
    BY <1>1 DEF Accepts, PlanAnswerOK, PlannedOK
  <2> HIDE DEF p
  <2> QED
    BY <2>2, <2>3 DEF KnownOK
<1>2. CASE q.op = "materialize_v2"
  <2> DEFINE g == [cap |-> IF q.cap = None THEN a.cap ELSE q.cap, rev |-> a.rev,
                   ids |-> {b.src : b \in a.plan.bind}, content |-> a.content]
  <2>1. known' = [known EXCEPT !.grant = g]
    BY <1>2 DEF Learn
  <2>2. known' = [plan |-> known.plan, grant |-> g, receipt |-> known.receipt]
    BY <2>1 DEF KnownOK
  <2>3. g.cap \in Cap
    BY <1>2, AcceptedPlanned DEF Asks, GrantOK
  <2> HIDE DEF g
  <2> QED
    BY <2>2, <2>3 DEF KnownOK
<1>3. CASE q.op \in {"execute", "execute_v2"}
  <2> DEFINE r == [digest |-> a.receipt.digest, decision |-> a.plan]
  <2>1. known' = [known EXCEPT !.receipt = r]
    BY <1>3 DEF Learn
  <2>2. known' = [plan |-> known.plan, grant |-> known.grant, receipt |-> r]
    BY <2>1 DEF KnownOK
  <2>3. \E p \in planned : p.plan = r.decision
    <3>1. Planned(a, q) /\ q.op \in BoundOps
      BY <1>3, AcceptedPlanned
    <3>2. known.plan \in planned /\ known.plan = [rev |-> a.rev, ids |-> q.ids, plan |-> a.plan]
      BY <3>1, JoinedPlan
    <3>3. known.plan.plan = a.plan
      BY <3>2
    <3> QED
      BY <3>2, <3>3
  <2> HIDE DEF r
  <2> QED
    BY <2>2, <2>3 DEF KnownOK
<1>4. CASE q.op \notin {"plan", "materialize_v2", "execute", "execute_v2"}
  <2>1. known' = known
    BY <1>4 DEF Learn
  <2> QED
    BY <2>1 DEF KnownOK
<1> QED
  BY <1>1, <1>2, <1>3, <1>4

(* The declared plan comes back with its context plan, and with the        *)
(* decision only where the caller has named none.                          *)
LEMMA DeclaredBack ==
    ASSUME NEW q, NEW a, q.decl \in Declared, q.decl.context = None, ExecutionPlanOK(a, q)
    PROVE  q.decl = [a.execution EXCEPT !.context = None,
                                        !.decision = IF q.decl.decision = None THEN None ELSE @]
<1>1. Mapping(q.decl) /\ "context" \in DOMAIN q.decl /\ "decision" \in DOMAIN q.decl
  BY DeclaredAssumption
<1> DEFINE d == q.decl
           x == a.execution
           c == [d EXCEPT !.context = a.plan.id]
<1>2. CASE d.decision = None
  <2>1. x = [c EXCEPT !.decision = x.decision]
    BY <1>2 DEF ExecutionPlanOK
  <2> QED
    BY <1>1, <1>2, <2>1 DEF Mapping
<1>3. CASE d.decision # None
  <2>1. x = c
    BY <1>3 DEF ExecutionPlanOK
  <2> QED
    BY <1>1, <1>3, <2>1 DEF Mapping
<1> QED
  BY <1>2, <1>3

(* An accepted answer to a plan, an execution or an outcome is bound. *)
LEMMA AnswerBound ==
    ASSUME KnownOK, NEW q, NEW a, Asks(q), Accepts(q, a), result' = [q |-> q, a |-> a],
           known' = Learn(q, a), planned' = planned \union ({known'.plan} \ {None})
    PROVE  ResultsBound'
<1>1. PlannedOnly'
  <2> SUFFICES ASSUME q.op \in {"materialize", "materialize_v2", "execute", "execute_v2"}
               PROVE  [rev |-> a.rev, ids |-> q.ids, plan |-> a.plan] \in planned
    BY DEF PlannedOnly, Done
  <2> QED
    BY AcceptedPlanned, JoinedPlan
<1>2. ExecutedAsDeclared'
  <2> SUFFICES ASSUME q.op \in {"execute", "execute_v2"}
               PROVE  /\ q.decl = [a.execution EXCEPT !.context = None,
                                      !.decision = IF q.decl.decision = None THEN None ELSE @]
                      /\ \E p \in planned : p.plan.id = a.execution.context
    BY DEF ExecutedAsDeclared, Done
  <2>1. Planned(a, q) /\ ExecutionPlanOK(a, q) /\ q.op \in BoundOps
    BY AcceptedPlanned
  <2>2. a.execution.context = a.plan.id
    BY <2>1 DEF ExecutionPlanOK
  <2>3. q.decl \in Declared /\ q.decl.context = None
    BY DEF Asks
  <2>4. known.plan \in planned /\ known.plan = [rev |-> a.rev, ids |-> q.ids, plan |-> a.plan]
    BY <2>1, JoinedPlan
  <2>5. known.plan.plan.id = a.execution.context
    BY <2>2, <2>4
  <2> QED
    BY <2>1, <2>3, <2>4, <2>5, DeclaredBack
<1>3. OutcomeTraceable'
  <2> SUFFICES ASSUME q.op = "outcome"
               PROVE  /\ a.original = known'.receipt.digest
                      /\ \E p \in planned : a.document.evidence = {p.plan}
                      /\ a.document.task = Request.task
    BY DEF OutcomeTraceable, Done
  <2>1. known' = known
    BY DEF Learn
  <2>2. OutcomeOK(a, q)
    BY DEF Accepts
  <2>3. /\ known.receipt # None /\ q.receipt = known.receipt.digest
        /\ q.decision = known.receipt.decision /\ q.task = Task
    BY DEF Asks
  <2>4. a.original = q.receipt /\ a.document.evidence = {q.decision} /\ a.document.task = q.task.id
    BY <2>2 DEF OutcomeOK, OutcomeJoins
  <2> QED
    BY <2>1, <2>3, <2>4 DEF KnownOK, Task
<1> QED
  BY <1>1, <1>2, <1>3 DEF ResultsBound

(* An accepted answer keeps the capability out of the text, and speaks of  *)
(* the text it was asked about.                                            *)
LEMMA AnswerExact ==
    ASSUME KnownOK, KnownOK', NEW q, NEW a, Asks(q), Accepts(q, a), result' = [q |-> q, a |-> a],
           known' = Learn(q, a)
    PROVE  PresenterExact'
<1>1. (known.grant # None => known.grant.cap \in Cap)'
  BY DEF KnownOK
<1>2. ASSUME q.op = "materialize_v2", q.cap = None PROVE known'.grant.cap \notin a.content
  <2>1. known'.grant.cap = a.cap
    BY <1>2 DEF Learn, KnownOK
  <2> QED
    BY <1>2, <2>1, AcceptedPlanned DEF GrantOK
<1>3. ASSUME q.op = "use"
      PROVE  /\ known' = known
             /\ Given(a.text) => a.usable /\ q.mode = "expand" /\ q.cap \notin a.text
             /\ a.usable => a.ids = known.grant.ids /\ a.rev = known.grant.rev
             /\ a.usable /\ q.mode = "expand" => a.recovery \in {q.value, None}
  <2>1. known' = known
    BY <1>3 DEF Learn
  <2>2. UseOK(a, q)
    BY <1>3 DEF Accepts
  <2>3. q.ids = known.grant.ids /\ q.rev = known.grant.rev
    BY <1>3 DEF Asks
  <2> QED
    BY <2>1, <2>2, <2>3 DEF UseOK, PresentedUseOK, Given
<1>4. CapabilityKept'
  BY <1>1, <1>2, <1>3 DEF CapabilityKept, Done
<1>5. UseExact'
  BY <1>3 DEF UseExact, Done
<1> QED
  BY <1>4, <1>5 DEF PresenterExact


(* A call returns or raises an error: nothing of it is left behind, and    *)
(* only an answer that was accepted is learned from.                       *)
LEMMA ReturnInv ==
    ASSUME EInv, Return
    PROVE  EInv'
<1>1. /\ pc = "join" /\ pc' = "idle" /\ conn' = "closed" /\ timer # "firing" /\ timer' = timer
      /\ sent' = FALSE /\ UNCHANGED <<host, calls, spoiled>>
  BY DEF Return, Join
<1>2. TransportTypeOK'
  <2>1. 0 \in 0..Chunks
    BY TransportAssumption
  <2>2. wire' \in {wire, "none"}
    BY DEF Return
  <2> QED
    BY <1>1, <2>1, <2>2 DEF Return, EInv, TypeOK, TransportTypeOK
<1>3. TimerOK' /\ HostOK'
  BY <1>1 DEF EInv, TimerOK, HostOK
<1>4. Asks(call)
  BY <1>1 DEF EInv
<1>5. KnownOK' /\ ResultsBound' /\ PresenterExact'
  <2>1. CASE outcome = "ok" /\ got = Chunks /\ Accepts(call, answer)
    <3>1. /\ result' = [q |-> call, a |-> answer]
          /\ known' = Learn(call, answer)
          /\ planned' = planned \union ({known'.plan} \ {None})
      BY <2>1 DEF Return
    <3>2. KnownOK /\ Accepts(call, answer)
      BY <2>1 DEF EInv
    <3>3. KnownOK'
      BY <1>4, <3>1, <3>2, LearnOK
    <3> QED
      BY <1>4, <3>1, <3>2, <3>3, AnswerBound, AnswerExact
  <2>2. CASE ~(outcome = "ok" /\ got = Chunks /\ Accepts(call, answer))
    <3>1. result' = None /\ known' = known /\ planned' = planned
      BY <2>2 DEF Return
    <3>2. KnownOK'
      BY <3>1 DEF EInv, KnownOK
    <3>3. ResultsBound'
      BY <3>1 DEF ResultsBound, PlannedOnly, ExecutedAsDeclared, OutcomeTraceable, Done
    <3>4. PresenterExact'
      BY <3>1 DEF EInv, KnownOK, PresenterExact, CapabilityKept, UseExact, Done
    <3> QED
      BY <3>2, <3>3, <3>4
  <2> QED
    BY <2>1, <2>2
<1>6. TypeOK'
  BY <1>1, <1>2, <1>5 DEF EInv, TypeOK, KnownOK
<1> QED
  BY <1>1, <1>3, <1>5, <1>6 DEF EInv

-----------------------------------------------------------------------------
(* The host.                                                               *)

(* A change of the host that keeps its shape. *)
LEMMA HostInv ==
    ASSUME EInv, HostOK', spoiled' \in 0..MaxSpoil, wire' \in {wire, "refused", "answered"},
           UNCHANGED <<pc, call, late, timer, conn, sent, part, keep, cut, got, outcome, known,
                       planned, result, calls>>
    PROVE  EInv'
<1>1. TransportTypeOK' /\ TimerOK'
  BY DEF EInv, TypeOK, TransportTypeOK, TimerOK
<1>2. TypeOK'
  BY <1>1, InstanceAssumption DEF EInv, TypeOK, HostOK
<1> QED
  BY <1>1, <1>2, ProgramStays DEF EInv

(* Sources are edited and permissions withdrawn. *)
LEMMA ChangeInv ==
    ASSUME EInv, Change \/ Govern
    PROVE  EInv'
<1>1. UNCHANGED <<pc, call, late, timer, conn, sent, wire, part, keep, cut, got, outcome, known,
                  planned, result, calls, spoiled>>
  BY DEF Change, Govern, transportVars, peerVars
<1>2. CASE Change
  <2>1. PICK s \in host.permitted : host' = [host EXCEPT !.ver = @ + 1, !.text[s] = @ + 1]
    BY <1>2 DEF Change
  <2>2. host.ver < MaxChange
    BY <1>2 DEF Change
  <2>3. HostOK'
    <3>1. host' = [rev |-> host.rev, ver |-> host.ver + 1, text |-> [host.text EXCEPT ![s] = @ + 1],
                   permitted |-> host.permitted, live |-> host.live, kept |-> host.kept]
      BY <2>1 DEF EInv, HostOK
    <3> QED
      BY <3>1, <2>2, InstanceAssumption DEF EInv, HostOK
  <2> QED
    BY <1>1, <2>3, HostInv DEF EInv, TypeOK
<1>3. CASE Govern
  <2>1. PICK s \in host.permitted :
            host' = [host EXCEPT !.ver = @ + 1, !.rev = @ + 1, !.permitted = @ \ {s}]
    BY <1>3 DEF Govern
  <2>2. host.ver < MaxChange
    BY <1>3 DEF Govern
  <2>3. HostOK'
    <3>1. host' = [rev |-> host.rev + 1, ver |-> host.ver + 1, text |-> host.text,
                   permitted |-> host.permitted \ {s}, live |-> host.live, kept |-> host.kept]
      BY <2>1 DEF EInv, HostOK
    <3> QED
      BY <3>1, <2>2, InstanceAssumption DEF EInv, HostOK
  <2> QED
    BY <1>1, <2>3, HostInv DEF EInv, TypeOK
<1> QED
  BY <1>2, <1>3

(* A request takes effect, or does not; the answer may be anything. *)
LEMMA ServeInv ==
    ASSUME EInv, Serve \/ Decline
    PROVE  EInv'
<1>1. CASE Serve
  <2>1. PICK cap \in Issued(call) : host' \in {host, Effect(call, cap)}
    BY <1>1 DEF Serve
  <2>2. cap # None => cap \in Cap
    BY DEF Issued
  <2>3. HostOK'
    BY <2>1, <2>2 DEF EInv, HostOK, Effect
  <2>4. /\ spoiled' = spoiled \/ (spoiled' = spoiled + 1 /\ spoiled < MaxSpoil)
        /\ wire' \in {"refused", "answered"}
    BY <1>1 DEF Serve
  <2>5. UNCHANGED <<pc, call, late, timer, conn, sent, part, keep, cut, got, outcome, known,
                    planned, result, calls>>
    BY <1>1 DEF Serve, peerVars
  <2>6. spoiled' \in 0..MaxSpoil
    BY <2>4, InstanceAssumption DEF EInv, TypeOK
  <2> QED
    BY <2>3, <2>4, <2>5, <2>6, HostInv
<1>2. CASE Decline
  BY <1>2, HostInv DEF Decline, peerVars, EInv, HostOK, TypeOK
<1> QED
  BY <1>1, <1>2

-----------------------------------------------------------------------------
(* The theorems.                                                           *)

(* Nothing has been asked or learned at the start. *)
LEMMA InitInv == Init => EInv
<1> SUFFICES ASSUME Init PROVE EInv
  OBVIOUS
<1>1. host = [rev |-> 0, ver |-> 0, text |-> [s \in Source |-> 0], permitted |-> Source,
              live |-> {}, kept |-> {}]
  BY DEF Init
<1>2. HostOK
  BY <1>1, InstanceAssumption DEF HostOK
<1>3. TransportTypeOK /\ TimerOK /\ pc = "idle"
  <2>1. 0 \in 0..Chunks
    BY TransportAssumption
  <2> QED
    BY <2>1 DEF Init, TransportInit, TransportTypeOK, TimerOK
<1>4. known = Nothing /\ planned = {} /\ result = None /\ calls = 0 /\ spoiled = 0
  BY DEF Init
<1>5. TypeOK
  BY <1>1, <1>3, <1>4, InstanceAssumption DEF TypeOK, Nothing
<1>6. KnownOK
  BY <1>4 DEF KnownOK, Nothing
<1>7. ResultsBound
  BY <1>4 DEF ResultsBound, PlannedOnly, ExecutedAsDeclared, OutcomeTraceable, Done
<1>8. PresenterExact
  BY <1>4 DEF Nothing, PresenterExact, CapabilityKept, UseExact, Done
<1> QED
  BY <1>2, <1>3, <1>5, <1>6, <1>7, <1>8 DEF EInv

(* EInv holds in every reachable state. *)
THEOREM ClientInductive == Spec => []EInv
<1>1. EInv /\ [Next]_vars => EInv'
  <2> SUFFICES ASSUME EInv, [Next]_vars PROVE EInv'
    OBVIOUS
  <2>1. CASE Caller
    BY <2>1, FreeCalls, BoundCalls, ReturnInv DEF Caller
  <2>2. CASE Transport /\ UNCHANGED Rest
    BY <2>2, TransportInv
  <2>3. CASE Change \/ Govern
    BY <2>3, ChangeInv
  <2>4. CASE Serve \/ Decline
    BY <2>4, ServeInv
  <2>5. CASE UNCHANGED vars
    BY <2>5, HostInv DEF vars, transportVars, peerVars, Rest, EInv, HostOK, TypeOK
  <2> QED
    BY <2>1, <2>2, <2>3, <2>4, <2>5 DEF Next
<1> QED
  BY <1>1, InitInv, PTL DEF Spec

(* The credential goes out only on the connection that the deadline timer  *)
(* of its own call guards, and after _post_json has returned neither the   *)
(* timer nor the connection is left.                                       *)
THEOREM Guarded == Spec => []ConnectionGuarded
<1>1. EInv => ConnectionGuarded
  BY DEF EInv, ConnectionGuarded, QuietBetweenCalls, CredentialGuarded, TimerOK
<1> QED
  BY <1>1, ClientInductive, PTL

(* What the client accepts under a plan is a plan that context_plan        *)
(* returned before, executed as it was declared and reported for the       *)
(* receipt at hand, whatever the host answers.                             *)
THEOREM BoundResults == Spec => []ResultsBound
<1>1. EInv => ResultsBound
  BY DEF EInv
<1> QED
  BY <1>1, ClientInductive, PTL

(* The program holds a capability of the right shape; a text that comes    *)
(* with a new capability, or from an expansion under one, does not show    *)
(* it; an answer that a text is usable is about the sources and the        *)
(* revision that text was granted for; and an expansion that names a copy  *)
(* names the one asked for.                                                *)
THEOREM ExactPresenter == Spec => []PresenterExact
<1>1. EInv => PresenterExact
  BY DEF EInv
<1> QED
  BY <1>1, ClientInductive, PTL

=============================================================================
