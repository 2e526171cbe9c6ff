------------------------ MODULE EnterpriseTransport ------------------------
(***************************************************************************)
(* One authenticated POST of _AuthenticatedInstanceTransport               *)
(* (enterprise_instance.py): connect, start the deadline timer, send the   *)
(* credential and the request, read the answer in chunks, cancel and join  *)
(* the timer.  The timer is a thread: when the deadline has passed it sets *)
(* deadline_fired and shuts the connection under the thread that reads.    *)
(*                                                                         *)
(* The peer is free to accept, stall, trickle, close or reset.  Time is    *)
(* the flag "late": the deadline has passed.  The name lookup inside       *)
(* connect is not bounded by the client.                                   *)
(***************************************************************************)
EXTENDS Naturals, InstanceRecords

CONSTANT
    Chunks      \* the number of chunks of a complete answer

ASSUME TransportAssumption == Chunks \in Nat

VARIABLES
    pc,         \* where the calling thread is
    call,       \* the request of the call
    late,       \* the deadline has passed
    timer,      \* "none", "armed", "firing", "done" or "off"
    conn,       \* "none", "open", "shut" (by the timer), "closed"; "fresh": reconnected
    sent,       \* the credential and the request are on the wire
    wire,       \* "none", "request", "refused" or "answered"
    answer,     \* the answer of the host, or None
    part,       \* bytes of the next chunk, or of the headers, trickle in
    got,        \* chunks read
    keep,       \* the answer keeps the connection open
    cut,        \* who ended the stream the client was using: "no", "peer", "timer"
    outcome     \* "ok" or the class of the error that is on its way out

peerVars == <<part, keep, cut>>
transportVars == <<pc, call, late, timer, conn, sent, wire, answer, peerVars, got, outcome>>

TransportTypeOK ==
    /\ pc \in {"idle", "connect", "arm", "send", "headers", "read", "finally", "join"}
    /\ timer \in {"none", "armed", "firing", "done", "off"}
    /\ wire \in {"none", "request", "refused", "answered"}
    /\ conn \in {"none", "open", "shut", "closed", "fresh"}
    /\ late \in BOOLEAN /\ sent \in BOOLEAN /\ part \in BOOLEAN /\ keep \in BOOLEAN
    /\ got \in 0..Chunks
    /\ cut \in {"no", "peer", "timer"}
    /\ outcome \in {"ok", "timeout", "unavailable", "rejected", "policy", "unsupported",
                    "protocol", "attribute"}

TransportInit ==
    /\ pc = "idle" /\ call = None /\ late = FALSE /\ timer = "none" /\ conn = "none"
    /\ sent = FALSE /\ wire = "none" /\ answer = None /\ part = FALSE /\ got = 0 /\ keep = FALSE
    /\ cut = "no" /\ outcome = "ok"

(* _post_json begins: a new connection object and a new deadline. *)
Post(q) ==
    /\ pc = "idle"
    /\ pc' = "connect" /\ call' = q /\ late' = FALSE /\ timer' = "none" /\ conn' = "none"
    /\ sent' = FALSE /\ wire' = "none" /\ answer' = None /\ part' = FALSE /\ got' = 0 /\ keep' = FALSE
    /\ cut' = "no" /\ outcome' = "ok"

(***************************************************************************)
(* Time and the timer thread                                               *)
(***************************************************************************)
Tick ==
    /\ pc # "idle" /\ ~late
    /\ late' = TRUE
    /\ UNCHANGED <<pc, call, timer, conn, sent, wire, answer, peerVars, got, outcome>>

(* interrupt_at_deadline: deadline_fired is set. *)
Fire ==
    /\ timer = "armed" /\ late
    /\ timer' = "firing"
    /\ UNCHANGED <<pc, call, late, conn, sent, wire, answer, peerVars, got, outcome>>

(* Mutant: the timer leaves the socket to the thread that reads. *)
InterruptNot ==
    /\ timer = "firing"
    /\ timer' = "done"
    /\ UNCHANGED <<pc, call, late, conn, sent, wire, answer, peerVars, got, outcome>>

(* _interrupt: the socket is shut and closed. *)
Interrupt ==
    /\ timer = "firing"
    /\ timer' = "done"
    /\ conn' = IF conn = "open" THEN "shut" ELSE conn
    /\ UNCHANGED <<pc, call, late, sent, wire, answer, peerVars, got, outcome>>

(***************************************************************************)
(* The calling thread                                                      *)
(***************************************************************************)
(* To the finally block with a result or an error. *)
Leave(class) == pc' = "finally" /\ outcome' = class

(* _remaining: the deadline has passed, or the thread goes on. *)
Remaining(place) == IF late THEN Leave("timeout") ELSE pc' = place /\ UNCHANGED outcome

(* The handlers of _post_json for timeouts, HTTP and socket errors. *)
Broken == Leave(IF late THEN "timeout" ELSE "unavailable")

(* A TimeoutError of connect counts as the deadline, also when the network *)
(* has given up before it.                                                 *)
Connect ==
    /\ pc = "connect"
    /\ \/ conn' = "open" /\ Remaining("arm")
       \/ conn' = conn /\ (Broken \/ Leave("timeout"))
    /\ UNCHANGED <<call, late, timer, sent, wire, answer, peerVars, got>>

(* The socket timeout is set, reconnecting is turned off, the timer starts; *)
(* the look at the deadline after that is one step with the one before:     *)
(* the deadline may pass right behind it.                                   *)
Arm ==
    /\ pc = "arm"
    /\ Remaining("send")
    /\ timer' = IF late THEN timer ELSE "armed"
    /\ UNCHANGED <<call, late, conn, sent, wire, answer, peerVars, got>>

(* Mutant: http.client is left free to connect again. *)
SendReconnecting ==
    /\ pc = "send"
    /\ conn' = IF conn = "open" THEN conn ELSE "fresh"
    /\ sent' = TRUE /\ wire' = "request" /\ pc' = "headers"
    /\ UNCHANGED <<call, answer, late, timer, peerVars, got, outcome>>

(* Credential, capability and payload go out. *)
Send ==
    /\ pc = "send" /\ conn = "open"
    /\ sent' = TRUE /\ wire' = "request" /\ pc' = "headers"
    /\ UNCHANGED <<call, answer, late, timer, conn, peerVars, got, outcome>>

(* The timer has shut the connection: an error where the thread uses it. *)
Disconnected ==
    /\ pc \in {"send", "headers"} /\ conn = "shut"
    /\ cut' = "timer"
    /\ Broken
    /\ UNCHANGED <<call, late, timer, conn, sent, wire, answer, part, keep, got>>

(* The peer closes or resets before the answer begins. *)
PeerGone ==
    /\ pc \in {"send", "headers"} /\ conn \in {"open", "fresh"}
    /\ cut' = "peer"
    /\ Broken
    /\ UNCHANGED <<call, late, timer, conn, sent, wire, answer, part, keep, got>>

(* Bytes trickle in: no single read runs into the socket timeout. *)
Trickle ==
    /\ pc \in {"headers", "read"} /\ conn \in {"open", "fresh"} /\ ~part
    /\ cut = "no" /\ got < Chunks
    /\ part' = TRUE
    /\ UNCHANGED <<pc, call, late, timer, conn, sent, wire, answer, keep, cut, got, outcome>>

(* A read that waits for longer than the timeout of the socket. *)
SocketTimeout ==
    /\ pc \in {"send", "headers", "read"} /\ late /\ ~part /\ cut = "no"
    /\ Broken
    /\ UNCHANGED <<call, late, timer, conn, sent, wire, answer, peerVars, got>>

(* The operations that know of hosts that do not serve them. *)
NewOperation(q) == q.op \in {"materialize_v2", "use", "revoke"}

(* The classes of error a status outside 200..299 is turned into. *)
StatusErrors(q) ==
    {"protocol", "rejected", "policy", "unavailable"}
        \union IF NewOperation(q) THEN {"unsupported"} ELSE {}

(* getresponse: the status, the declared length. *)
GetResponse ==
    /\ pc = "headers" /\ wire \in {"refused", "answered"}
    /\ part' = FALSE
    /\ \/ late /\ Leave("timeout") /\ UNCHANGED keep
       \/ /\ ~late /\ wire = "refused" /\ UNCHANGED keep
          /\ \E class \in StatusErrors(call) : Leave(class)
       \/ /\ ~late /\ wire = "answered"
          /\ \/ Leave("protocol") /\ UNCHANGED keep
             \/ pc' = "read" /\ keep' \in BOOLEAN /\ UNCHANGED outcome
    /\ UNCHANGED <<call, late, timer, conn, sent, wire, answer, cut, got>>

(* _read_response: a whole chunk, and the look at the deadline before the  *)
(* next one.  It may be one too many for the bound of the answer.          *)
ReadChunk ==
    /\ pc = "read" /\ cut = "no" /\ got < Chunks
    /\ part' = FALSE
    /\ \/ got' = got + 1 /\ Remaining("read")
       \/ got' = got /\ Leave("protocol")
    /\ UNCHANGED <<call, late, timer, conn, sent, wire, answer, keep, cut>>

(* The end of the answer: it is complete. *)
ReadEnd ==
    /\ pc = "read" /\ got = Chunks
    /\ Leave("ok")
    /\ UNCHANGED <<call, late, timer, conn, sent, wire, answer, peerVars, got>>

(* The stream ends early: closed by the peer or shut by the timer.  A read *)
(* that has bytes returns them; one that has none returns nothing, and the *)
(* loop takes that for the end.  A kept connection was closed together     *)
(* with the file of the answer, which http.client then does not find.      *)
ReadCut ==
    /\ pc = "read" /\ got < Chunks
    /\ cut' = IF cut # "no" THEN cut ELSE IF conn = "shut" THEN "timer" ELSE "peer"
    /\ part' = FALSE
    /\ \/ part /\ Remaining("read")
       \/ ~part /\ Leave("ok")
       \/ ~part /\ conn = "shut" /\ keep /\ Leave("attribute")
    /\ UNCHANGED <<call, late, timer, conn, sent, wire, answer, keep, got>>

(* The stream breaks with an error. *)
ReadReset ==
    /\ pc = "read" /\ conn # "shut"
    /\ cut' = "peer"
    /\ Broken
    /\ UNCHANGED <<call, late, timer, conn, sent, wire, answer, part, keep, got>>

Cancel ==
    /\ pc = "finally"
    /\ pc' = "join"
    /\ timer' = IF timer = "armed" THEN "off" ELSE timer
    /\ UNCHANGED <<call, late, conn, sent, wire, answer, peerVars, got, outcome>>

(* join, then response and connection are closed. *)
Join == pc = "join" /\ timer # "firing" /\ pc' = "idle" /\ conn' = "closed" /\ UNCHANGED timer

(* The steps of the thread that wait for nobody. *)
Local == Arm \/ Disconnected \/ SocketTimeout \/ Cancel
         \/ ((conn = "shut" \/ cut = "peer") /\ (ReadCut \/ ReadEnd))

Transport ==
    \/ Tick \/ Fire \/ Interrupt
    \/ Connect \/ Arm \/ Send \/ Disconnected \/ PeerGone \/ Trickle \/ SocketTimeout
    \/ GetResponse \/ ReadChunk \/ ReadEnd \/ ReadCut \/ ReadReset \/ Cancel
=============================================================================
