-------------------------- MODULE ReliableChannel --------------------------
(***************************************************************************)
(* What the datagram exchange between a game client and a map server       *)
(* promises for one direction: payloads accepted for sending are received  *)
(* once each, in the order they were accepted.  The one exception is the   *)
(* login request: while the receiver has seen at most the answer to it, a  *)
(* repeated login discards what is queued and queues the answer again.     *)
(***************************************************************************)
EXTENDS Naturals, Sequences

CONSTANTS
    Payload,    \* what can be accepted for sending
    ZoneIn      \* the answer to a login request

VARIABLES
    queue,      \* accepted and not yet received, oldest first
    received    \* received so far, oldest first

channelVars == <<queue, received>>

Init == queue = <<>> /\ received = <<>>

\* The sender accepts one more payload.
Accept == \E p \in Payload : queue' = Append(queue, p) /\ UNCHANGED received

\* The receiver gets the n oldest payloads, as one datagram.
Deliver ==
    \E n \in 1..Len(queue) :
        /\ received' = received \o SubSeq(queue, 1, n)
        /\ queue' = SubSeq(queue, n + 1, Len(queue))

\* A login request is answered, the first time or again.
Login ==
    /\ received \in {<<>>, <<ZoneIn>>}
    /\ queue' = IF received = <<>> THEN <<ZoneIn>> ELSE <<>>
    /\ UNCHANGED received

Next == Accept \/ Deliver \/ Login

Spec == Init /\ [][Next]_channelVars
=============================================================================
