-------------------------- MODULE InstanceRecords --------------------------
(***************************************************************************)
(* What SubprocessInstanceClient (instance.py) makes of the answer of an   *)
(* instance process, and the evidence values of protocol.py it builds.     *)
(*                                                                         *)
(* A text stands for its own digest, and an output reference for the       *)
(* digest it is derived from: hashes do not collide.  An answer is a       *)
(* record                                                                  *)
(*   well     it is strict JSON with the expected keys and versions,       *)
(*   view     [text, digest, ref], digest and ref None or a text,          *)
(*   recovery [ref, digest, handle],                                       *)
(*   records  "both", "one" or "none" of invocation and observation,       *)
(*   inv      [id, supported, input, refs],                                *)
(*   obs      [id, digest, ref, lineage, status, failure, link], link      *)
(*            None or the invocation the receipt link names.               *)
(* The outcome of a call is [how, view]: how is "ok" or the class of the   *)
(* error that is raised, view the ContextView it returns or carries.       *)
(***************************************************************************)
CONSTANT None

Status == {"succeeded", "degraded", "failed", "rejected"}
FailureCode == {"policy_rejected", "source_unavailable", "source_integrity_mismatch",
                "resource_limit", "unsupported_operation", "internal"}

(* A reference needs a digest and must be derived from it. *)
PairOK(ref, digest) == ref # None => digest = ref

ViewOK(v) == PairOK(v.ref, v.digest) /\ (v.digest # None => v.digest = v.text)

InvocationOK(inv) == inv.refs # {} /\ inv.input \in inv.refs

ReceiptLinkOK(link, id) == link # None => link = id

ObservationOK(obs, inv) ==
    /\ obs.id = inv.id
    /\ PairOK(obs.ref, obs.digest)
    /\ obs.lineage # {}
    /\ ReceiptLinkOK(obs.link, inv.id)
    /\ (obs.failure = None) <=> obs.status \in {"succeeded", "degraded"}
    /\ obs.status = "succeeded" => obs.link # None

(* _parse_response: "ok", or the class of the error. *)
ParseResponse(r) ==
    IF \/ ~r.well
       \/ ~ViewOK(r.view)
       \/ r.records = "one" THEN "protocol"
    ELSE IF r.records = "none" THEN "ok"
    ELSE IF ~r.inv.supported THEN "unsupported"
    ELSE IF /\ InvocationOK(r.inv)
            /\ ObservationOK(r.obs, r.inv)
            /\ r.obs.lineage = r.inv.refs
            /\ r.obs.ref = r.view.ref
            /\ r.obs.digest = r.view.digest THEN "ok"
    ELSE "protocol"

(* The ContextView of an answer: _build_view. *)
MakeView(plan, r) ==
    [plan |-> plan, text |-> r.view.text, digest |-> r.view.digest,
     outRef |-> r.view.ref, ref |-> r.recovery.ref, source |-> r.recovery.digest,
     handle |-> r.recovery.handle, status |-> r.obs.status,
     failure |-> r.obs.failure, inv |-> r.inv, obs |-> r.obs]

(* The output reference and digest of a view come together. *)
ViewValid(v) == (v.outRef = None) <=> (v.digest = None)

(* ContextView.verify: the evidence of the view is complete. *)
Verify(v) ==
    /\ v.status \in {"succeeded", "degraded"}
    /\ v.ref \in v.inv.refs
    /\ v.digest # None /\ v.outRef # None
    /\ v.obs.id = v.inv.id
    /\ v.obs.digest = v.digest /\ v.obs.ref = v.outRef
    /\ v.obs.link # None /\ v.obs.link = v.inv.id

(* The status of a view turned into the error context_view raises. *)
StatusError(v) ==
    CASE v.status = "rejected" ->
           CASE v.failure = "policy_rejected" -> [how |-> "policy", view |-> v]
             [] v.failure = "source_unavailable" -> [how |-> "source_unavailable", view |-> v]
             [] OTHER -> [how |-> "rejected", view |-> None]
      [] v.status = "failed" ->
           CASE v.failure = "source_unavailable" -> [how |-> "source_unavailable", view |-> v]
             [] v.failure = "source_integrity_mismatch" -> [how |-> "integrity", view |-> v]
             [] v.failure = "unsupported_operation" -> [how |-> "unsupported", view |-> None]
             [] OTHER -> [how |-> "execution", view |-> v]
      [] OTHER -> [how |-> "ok", view |-> v]

Refuse(class) == [how |-> class, view |-> None]

(* context_view after the process has answered. *)
ContextView(plan, r) ==
    IF ParseResponse(r) # "ok" THEN Refuse(ParseResponse(r))
    ELSE IF \/ r.records = "none"
            \/ r.recovery.ref \notin r.inv.refs
            \/ plan.ref # None /\ plan.ref # r.recovery.ref
            \/ plan.digest # None /\ plan.digest # r.recovery.digest
            \/ ~ViewValid(MakeView(plan, r)) THEN Refuse("protocol")
    ELSE IF r.obs.status = "succeeded" /\ ~Verify(MakeView(plan, r)) THEN Refuse("integrity")
    ELSE StatusError(MakeView(plan, r))

(* recover after the process has answered: the text of the source, or an   *)
(* error.                                                                  *)
Recover(handle, ref, digest, r) ==
    IF ParseResponse(r) # "ok" THEN Refuse(ParseResponse(r))
    ELSE IF r.records # "none" THEN Refuse("protocol")
    ELSE IF \/ r.recovery # [handle |-> handle, ref |-> ref, digest |-> digest]
            \/ r.view.digest # digest
            \/ r.view.ref \notin {None, digest} THEN Refuse("integrity")
    ELSE IF r.view.text # digest THEN Refuse("protocol")
    ELSE [how |-> "ok", view |-> [text |-> r.view.text, ref |-> ref, source |-> digest,
                                  handle |-> handle]]
=============================================================================
