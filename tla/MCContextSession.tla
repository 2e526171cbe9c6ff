-------------------------- MODULE MCContextSession --------------------------
(* Two sources x and y; the instance answers about them, honestly or with  *)
(* one part of the answer wrong.                                           *)
EXTENDS ContextSession

MCPlan == {[ref |-> None, digest |-> None], [ref |-> "x", digest |-> "x"]}

(* The honest answer to a view of source x, and to its recovery. *)
Honest ==
    [well |-> TRUE, view |-> [text |-> "v", digest |-> "v", ref |-> "v"],
     recovery |-> [handle |-> "x", ref |-> "x", digest |-> "x"], records |-> "both",
     inv |-> [id |-> "i", supported |-> TRUE, input |-> "x", refs |-> {"x"}],
     obs |-> [id |-> "i", digest |-> "v", ref |-> "v", lineage |-> {"x"},
              status |-> "succeeded", failure |-> None, link |-> "i"]]

HonestRecovery ==
    [Honest EXCEPT !.records = "none", !.view = [text |-> "x", digest |-> "x", ref |-> None]]

MCAnswers ==
    {Honest, HonestRecovery,
     [Honest EXCEPT !.well = FALSE],
     [Honest EXCEPT !.records = "one"],
     [Honest EXCEPT !.view.text = "x"],
     [Honest EXCEPT !.recovery.digest = "y"],
     [Honest EXCEPT !.recovery.ref = "y"],
     [Honest EXCEPT !.recovery.ref = "y", !.inv.refs = {"x", "y"}, !.obs.lineage = {"x", "y"}],
     [Honest EXCEPT !.inv.supported = FALSE],
     [Honest EXCEPT !.inv.refs = {}],
     [Honest EXCEPT !.obs.id = "j"],
     [Honest EXCEPT !.obs.link = None],
     [Honest EXCEPT !.obs.status = "degraded", !.obs.link = None],
     [Honest EXCEPT !.obs.status = "degraded"],
     [HonestRecovery EXCEPT !.view.text = "y"],
     [HonestRecovery EXCEPT !.recovery.digest = "y"],
     [HonestRecovery EXCEPT !.recovery.digest = "y", !.view.text = "y", !.view.digest = "y"]}
    \union {[Honest EXCEPT !.obs.status = s, !.obs.failure = f] :
              s \in {"failed", "rejected"}, f \in FailureCode}
=============================================================================
