---------------------------- MODULE JournalEvents ----------------------------
(***************************************************************************)
(* The events of a workspace journal and when the projection accepts one.  *)
(*                                                                         *)
(* An event file is named after its sequence number and the digest of its  *)
(* content, and the content holds the previous digest, so a name stands    *)
(* for the whole history it ends.  A history is the nonempty sequence of   *)
(* events up to and including its own; its length is the sequence number.  *)
(* What an event kind does to the projected state is the business of       *)
(* module Workspace; here a kind's own conditions are the constant         *)
(* operator Applicable.                                                    *)
(***************************************************************************)
EXTENDS Naturals, Sequences

CONSTANTS
    EventId,          \* the event_id values a caller may pass, or a fresh uuid4
    Payload,          \* event payloads
    Created,          \* the workspace_created event that create() published
    MaxEvents,        \* WorkspacePolicy.max_events
    Applicable(_, _)  \* do the conditions of the event's kind hold after this history?

Kind == {"context_committed", "workspace_completed"}
Request == [id : EventId, kind : Kind, payload : Payload]
Event == Request \union {Created}
Chain == Seq(Event) \ {<< >>}

ASSUME MaxEventsAssumption == MaxEvents \in Nat \ {0}
ASSUME CreatedAssumption == Created \notin Request /\ Created.kind = "workspace_created"

LastEvent(c) == c[Len(c)]
Ids(c) == {c[i].id : i \in 1..Len(c)}
Active(c) == \A i \in 1..Len(c) : c[i].kind # "workspace_completed"

(* _apply_event accepts event e after history c: the lifecycle is active,  *)
(* the event_id has no receipt yet, the policy leaves room, and the kind's *)
(* own conditions hold.                                                    *)
Admissible(c, e) ==
    /\ Active(c)
    /\ e.id \notin Ids(c)
    /\ Len(c) + 1 <= MaxEvents
    /\ Applicable(c, e)

=============================================================================
