------------------------- MODULE MCWorkspaceJournal -------------------------
(***************************************************************************)
(* WorkspaceJournal for TLC.  Its kinds' own condition: an entry_id is     *)
(* committed once (a payload is the entry it commits).                     *)
(***************************************************************************)
EXTENDS WorkspaceJournal

CONSTANTS e0, e1, e2, x

MCCreated == [id |-> e0, kind |-> "workspace_created", payload |-> x]
MCApplicable(c, e) ==
    \A i \in 1..Len(c) :
        ~(c[i].kind = e.kind /\ e.kind = "context_committed" /\ c[i].payload = e.payload)

(***************************************************************************)
(* In one behaviour two writers meet, in another a writer and an unlocked  *)
(* reader, which does not look at event_ids: the writer uses them in order. *)
(***************************************************************************)
VARIABLE cast

MCInit == Init /\ cast \in {Writer, Reader \union {CHOOSE w \in Writer : TRUE}}
MCNext ==
    /\ Next /\ UNCHANGED cast
    /\ \A p \in Proc \ cast : pc'[p] = "idle"
    /\ cast # Writer => \A p \in Writer : pc'[p] = "acquire" =>
           call'[p].id = IF Cardinality(dir.final) = 1 THEN e1 ELSE e2
MCSpec == MCInit /\ [][MCNext]_<<vars, cast>> /\ Fairness

=============================================================================
