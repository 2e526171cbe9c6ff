------------------------------ MODULE EventLog ------------------------------
(***************************************************************************)
(* What the journal of a workspace promises: one history that grows by     *)
(* admissible events, one at a time, of which a power loss may cut off at  *)
(* most the part that was not yet flushed.                                 *)
(***************************************************************************)
EXTENDS JournalEvents

VARIABLES
    log,    \* the published history
    stable  \* how much of it survives a power loss

Init == log = <<Created>> /\ stable = 1

Publish(e) ==
    /\ Admissible(log, e)
    /\ log' = Append(log, e)
    /\ UNCHANGED stable

Flush == stable' = Len(log) /\ UNCHANGED log

Lose(n) ==
    /\ log' = SubSeq(log, 1, n)
    /\ stable' = n

Next ==
    \/ \E e \in Request : Publish(e)
    \/ Flush
    \/ \E n \in stable..Len(log) : Lose(n)

Spec == Init /\ [][Next]_<<log, stable>>

=============================================================================
