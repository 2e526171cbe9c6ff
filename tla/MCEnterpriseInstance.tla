----------------------- MODULE MCEnterpriseInstance -----------------------
(* Two sources.  An answer is wrong in one field; a wrong plan comes with  *)
(* a digest that fits it.                                                  *)
EXTENDS EnterpriseInstance

CONSTANTS s1, s2, Bad      \* Bad: a value that is nothing else

MCDeclared ==
    LET d == [id |-> "x", task |-> "t", provider |-> "local-native", budget |-> 2,
              context |-> None, decision |-> None, retries |-> 1]
        cloud == [d EXCEPT !.provider = "cloud", !.context = 0, !.retries = 0]
    IN  {d, [d EXCEPT !.context = 0], [d EXCEPT !.decision = "e"], cloud, [cloud EXCEPT !.retries = 1],
         [cloud EXCEPT !.provider = "auto"], [cloud EXCEPT !.budget = 3]}

MCRequest == [task |-> "t", budget |-> 2]

Redigest(p) == [p EXCEPT !.digest = BindingDigest(p)]

(* The first item of a non-empty set of items gets another value. *)
Alter(items, Change1(_)) ==
    IF items = {} THEN items
    ELSE LET x == CHOOSE i \in items : TRUE IN (items \ {x}) \union {Change1(x)}

WrongPlans(p) ==
    {[p EXCEPT !.digest = Bad]}
    \union {Redigest(q) : q \in
        {[p EXCEPT !.proj = "wrong"], [p EXCEPT !.proj = None], [p EXCEPT !.task = Bad], [p EXCEPT !.budget = 0], [p EXCEPT !.budget = 3],
         [p EXCEPT !.id = 9], [p EXCEPT !.epoch = "then"], [p EXCEPT !.bind = {}],
         [p EXCEPT !.bind = Alter(@, LAMBDA b : [b EXCEPT !.permitted = FALSE])],
         [p EXCEPT !.bind = Alter(@, LAMBDA b : [b EXCEPT !.text = 9])],
         [p EXCEPT !.sel = Alter(@, LAMBDA b : [b EXCEPT !.owner = Bad]),
                   !.bind = Alter(@, LAMBDA b : [b EXCEPT !.owner = Bad])]}}

Wrong(f, v, q) ==
    CASE f \in {"well"} -> {FALSE}
      [] f \in {"isError", "repeated"} -> {TRUE}
      [] f = "rev" -> IF v = None THEN {} ELSE {v + 1}
      [] f = "plan" /\ q.op # "provider" -> WrongPlans(v)
      [] f = "tokens" -> {9}
      [] f = "cap" -> {None, Bad} \union Cap
      [] f = "content" -> {v \union Cap}
      [] f = "text" -> {Absent, None} \union IF v = Absent THEN {{}} ELSE {v \union Cap}
      [] f = "ids" -> {{s1}, {s1, s2}, {}}
      [] f \in {"reason", "recovery"} -> {Absent, None, Bad}
      [] f = "usable" -> BOOLEAN
      [] f = "execution" -> {[v EXCEPT !.context = None], [v EXCEPT !.decision = None],
                             [v EXCEPT !.retries = 2], [v EXCEPT !.budget = 1]}
      [] f = "view" -> {[v EXCEPT !.text = "w"], [v EXCEPT !.ref = None]}
      [] f = "inv" -> {[v EXCEPT !.admitted = FALSE], [v EXCEPT !.capability = "cloud"],
                       [v EXCEPT !.digest = {}]}
      [] f = "obs" -> {[v EXCEPT !.status = "degraded"], [v EXCEPT !.id = "j"],
                       [v EXCEPT !.digest = None, !.ref = None], [v EXCEPT !.lineage = {Bad}]}
      [] f = "receipt" -> {[v EXCEPT !.outcome = "accepted"], [v EXCEPT !.ref = Bad]}
      [] f = "document" /\ q.op = "outcome" ->
           {[v EXCEPT !.task = Bad], [v EXCEPT !.evidence = {}], [v EXCEPT !.state = "rejected"]}
      [] f = "output" -> {None, [v EXCEPT !.text = "p"]}
      [] f = "failure" -> {[code |-> "internal", retryable |-> FALSE, recovery |-> None]}
      [] f = "status" -> {"failed"}
      [] f = "counters" -> {"none"}
      [] OTHER -> {Bad}

(* Another plan was executed than declared, and the lineage tells so. *)
Executed(a, x) ==
    LET refs == (a.inv.refs \ {<<"plan", a.execution>>}) \union {<<"plan", x>>}
    IN  [a EXCEPT !.execution = x, !.inv.refs = refs, !.obs.lineage = refs]

(* A wrong answer that is right in itself. *)
Consistent(q, a) ==
    CASE q.op \in {"execute", "execute_v2"} -> {Executed(a, [a.execution EXCEPT !.retries = 2])}
      [] q.op \in {"materialize", "materialize_v2"} ->
           {[a EXCEPT !.content = @ \union Cap, !.digest = @ \union Cap]}
      [] OTHER -> {}

(* One field of the answer is wrong, or several that agree. *)
MCSpoil(q, a) ==
    Consistent(q, a) \union UNION {{[a EXCEPT ![f] = w] : w \in Wrong(f, a[f], q)} : f \in DOMAIN a}

(***************************************************************************)
(* One call but the last, the rough one, may meet any trouble of the       *)
(* transport; with the others connection and peer behave, and the deadline *)
(* does not pass.                                                          *)
(* The answer to the rough call is not wrong as well.  The host changes    *)
(* between calls only: nothing but Serve looks at what has changed.        *)
(***************************************************************************)
VARIABLE rough

Smooth ==
    /\ late' = FALSE /\ cut' = "no" /\ part' = FALSE /\ keep' = FALSE
    /\ pc' = "finally" => outcome' \notin {"unavailable", "timeout"} /\ (outcome' = "protocol" => pc = "headers")

MCInit == Init /\ rough \in 1..(MaxCalls - 1)
MCNext ==
    /\ Next /\ UNCHANGED rough
    /\ IF calls' = rough THEN spoiled' = spoiled ELSE Smooth
    /\ host'.ver # host.ver => pc = "idle"

MCSpec ==
    /\ MCInit /\ [][MCNext]_<<vars, rough>>
    /\ Fairness
    /\ WF_<<vars, rough>>(calls # rough /\ pc # "idle" /\ MCNext)
=============================================================================
