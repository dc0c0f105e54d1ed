---------------------------- MODULE PacketStream ----------------------------
(***************************************************************************)
(* The datagram exchange between one game client and the map server that   *)
(* hosts its character (src/src/map/map.cpp: do_sockets, recv_parse, parse,*)
(* send_parse).  Every datagram carries the id of its sender's bundle and  *)
(* the id of the last bundle its sender got.  The server answers each      *)
(* datagram: with a new bundle when the client has the last one, with the  *)
(* buffered one otherwise.  Small packets of the client carry the id of    *)
(* the bundle they were first sent in and are sent again until that id is  *)
(* acknowledged.                                                           *)
(*                                                                         *)
(* The server is the code.  The client is external: it is what the filter  *)
(* and the acknowledgements of parse expect of it.  All small packets that *)
(* are first sent in bundle s are one command, command s; all answers to   *)
(* a login request are the payload ZoneIn, and the k-th packet the game    *)
(* pushes for the character afterwards is the payload k.                   *)
(***************************************************************************)
EXTENDS Naturals, Sequences

CONSTANTS
    IdSpace,    \* bundle ids are 0..IdSpace-1 (2^16: both headers are uint16)
    MaxSeq,     \* bound: bundles with a new command the client sends
    MaxPush,    \* bound: packets the game pushes for the character
    MaxNet,     \* bound: datagrams in flight in one direction
    Reorder     \* whether the network may deliver out of order

ASSUME IdSpaceAssumption == IdSpace \in Nat /\ IdSpace >= 2
ASSUME BoundsAssumption ==
    MaxSeq \in Nat \ {0} /\ MaxPush \in Nat /\ MaxNet \in Nat \ {0}
ASSUME ReorderAssumption == Reorder \in BOOLEAN

VARIABLES
    PChar,              \* the session holds a loaded character
    client_packet_id,   \* id of the last bundle that came from the client
    server_packet_id,   \* id of the last bundle the server built
    server_packet_data, \* that bundle, kept to be sent again
    PacketList,         \* payloads waiting for a bundle
    pushed,             \* ghost: how many payloads the game has pushed
    handled,            \* ghost: how often PacketParser ran for a command
    cOnline,            \* client: it has an answer to its login
    cSeq,               \* client: its last bundle, counted without wrapping
    cAcked,             \* client: the last command it saw acknowledged
    cRecv,              \* client: id of the last bundle it took
    delivered,          \* client: payloads taken, oldest first
    toServer, toClient  \* datagrams in flight, oldest first

serverVars == <<PChar, client_packet_id, server_packet_id, server_packet_data,
                PacketList, pushed, handled>>
clientVars == <<cOnline, cSeq, cAcked, cRecv, delivered>>
vars == <<serverVars, clientVars, toServer, toClient>>

Id      == 0..IdSpace - 1
ZoneIn  == 0
Payload == 0..MaxPush
Command == 1..MaxSeq

\* uint16 arithmetic of the ids
Wire(n) == n % IdSpace
NextIdWithoutWrap(id) == id + 1     \* mutant: an id wider than the header
NextId(id) == (id + 1) % IdSpace

\* A client datagram holds the commands first..last and the id cRecv.
ClientDatagram ==
    [login : BOOLEAN, first : Command, last : Command, ack : Id]
ServerDatagram == [id : Id, ack : Id, body : Seq(Payload)]

(***************************************************************************)
(* The network: at most MaxNet datagrams each way, the rest are lost.      *)
(***************************************************************************)
Send(net, d) == IF Len(net) < MaxNet THEN Append(net, d) ELSE net

\* The places a datagram may be taken from.
Arriving(net) == IF Reorder THEN DOMAIN net ELSE {1} \cap DOMAIN net

Without(net, i) == SubSeq(net, 1, i - 1) \o SubSeq(net, i + 1, Len(net))

\* Taken by the receiver; the network may deliver it once more.
Remains(net, i, again) == IF again THEN net ELSE Without(net, i)

Init ==
    /\ PChar = FALSE
    /\ client_packet_id = 0 /\ server_packet_id = 0
    /\ server_packet_data = [id |-> 0, ack |-> 0, body |-> <<>>]
    /\ PacketList = <<>>
    /\ pushed = 0
    /\ handled = [s \in Command |-> 0]
    /\ cOnline = FALSE /\ cSeq = 0 /\ cAcked = 0 /\ cRecv = 0
    /\ delivered = <<>>
    /\ toServer = <<>> /\ toClient = <<>>

(***************************************************************************)
(* The client (external)                                                   *)
(***************************************************************************)
\* The login request is bundle 1 and is repeated until an answer comes.
ClientLogin ==
    /\ ~cOnline
    /\ cSeq' = 1
    /\ toServer' = Send(toServer,
                        [login |-> TRUE, first |-> 1, last |-> 1, ack |-> 0])
    /\ UNCHANGED <<serverVars, cOnline, cAcked, cRecv, delivered, toClient>>

\* Bundle s with every command that is not acknowledged, the new one last.
SendBundle(s) ==
    /\ toServer' = Send(toServer, [login |-> FALSE, first |-> cAcked + 1,
                                   last |-> s, ack |-> cRecv])
    /\ cSeq' = s
    /\ UNCHANGED <<serverVars, cOnline, cAcked, cRecv, delivered, toClient>>

ClientSendNew == cOnline /\ cSeq < MaxSeq /\ SendBundle(cSeq + 1)

\* Nothing new to say: the client's timer sends the last bundle again.
ClientSendAgain == cOnline /\ cAcked < cSeq /\ SendBundle(cSeq)

\* The same when everything is acknowledged: only the header is of use.
ClientKeepAlive ==
    /\ cOnline /\ cAcked = cSeq
    /\ toServer' = Send(toServer, [login |-> FALSE, first |-> cSeq,
                                   last |-> cSeq, ack |-> cRecv])
    /\ UNCHANGED <<serverVars, clientVars, toClient>>

\* The client takes the bundle after its last one, and every acknowledgement.
ClientReceive(i, again) ==
    LET d == toClient[i]
        acked == {s \in cAcked + 1..cSeq : Wire(s) = d.ack}
    IN  /\ toClient' = Remains(toClient, i, again)
        /\ cAcked' \in (IF acked = {} THEN {cAcked} ELSE acked)
        /\ IF d.id = NextId(cRecv)
           THEN /\ cRecv' = d.id
                /\ cOnline' = TRUE
                /\ delivered' = delivered \o d.body
           ELSE UNCHANGED <<cRecv, cOnline, delivered>>
        /\ UNCHANGED <<serverVars, cSeq, toServer>>

(***************************************************************************)
(* The map server                                                          *)
(***************************************************************************)
\* Mutants of the filter: off by one at either end.
FreshFromLast(d, last) ==
    {s \in d.first..d.last : Wire(s) >= last /\ Wire(s) <= Wire(d.last)}
FreshBelowCode(d, last) ==
    {s \in d.first..d.last : Wire(s) > last /\ Wire(s) < Wire(d.last)}

\* parse: the commands of datagram d that the filter lets through when the
\* last bundle of the client had the id last
Fresh(d, last) ==
    {s \in d.first..d.last : Wire(s) > last /\ Wire(s) <= Wire(d.last)}

\* The ghost count tells never, once and more often apart.
Again(n) == IF n = 0 THEN 1 ELSE 2

\* parse: the client has the last bundle.  (Mutant: always build a new one.)
AlwaysHasLast(d, sid) == TRUE
HasLast(d, sid) == d.ack = sid

\* erasePackets.  (Mutant: one too few.)
KeepOneMore(list, n) == SubSeq(list, n, Len(list))
Erase(list, n) == SubSeq(list, n + 1, Len(list))

\* parse and send_parse, after recv_parse has set the ids to cid and sid and
\* left list to be sent: run the fresh commands, take over the client's id,
\* answer with the buffered bundle or with a new one.
Answer(d, cid, sid, list) ==
    /\ handled' = [s \in Command |->
                     IF s \in Fresh(d, cid) THEN Again(handled[s]) ELSE handled[s]]
    /\ client_packet_id' = Wire(d.last)
    /\ IF ~HasLast(d, sid)
       THEN /\ server_packet_data' = [server_packet_data EXCEPT !.ack = Wire(d.last)]
            /\ server_packet_id' = sid
            /\ PacketList' = list
       ELSE \E n \in 0..Len(list) :
            /\ n = 0 => list = <<>>
            /\ server_packet_id' = NextId(sid)
            /\ server_packet_data' = [id |-> NextId(sid), ack |-> Wire(d.last),
                                      body |-> SubSeq(list, 1, n)]
            /\ PacketList' = Erase(list, n)
    /\ toClient' = Send(toClient, server_packet_data')

\* do_sockets with a login request: recv_parse loads the character if there
\* is none and starts the ids again; the handler of 0x00A clears the packet
\* list and pushes its answer.
ServerLogin(i, again) ==
    LET d == toServer[i] IN
    /\ d.login
    /\ PChar' = TRUE
    /\ Answer(d, 0, 0, <<ZoneIn>>)
    /\ toServer' = Remains(toServer, i, again)
    /\ UNCHANGED <<pushed, clientVars>>

\* do_sockets with an enciphered datagram.  It can be read because the session
\* holds the character and its key: the client has had an answer.
ServerReceive(i, again) ==
    LET d == toServer[i] IN
    /\ ~d.login /\ PChar
    /\ Answer(d, client_packet_id, server_packet_id, PacketList)
    /\ toServer' = Remains(toServer, i, again)
    /\ UNCHANGED <<PChar, pushed, clientVars>>

\* pushPacket, called by the game for the character
PushPacket ==
    /\ PChar
    /\ pushed < MaxPush
    /\ pushed' = pushed + 1
    /\ PacketList' = Append(PacketList, pushed + 1)
    /\ UNCHANGED <<PChar, client_packet_id, server_packet_id,
                   server_packet_data, handled, clientVars, toServer, toClient>>

(***************************************************************************)
(* The network loses a datagram.                                           *)
(***************************************************************************)
LoseToServer ==
    /\ \E i \in Arriving(toServer) : toServer' = Without(toServer, i)
    /\ UNCHANGED <<serverVars, clientVars, toClient>>

LoseToClient ==
    /\ \E i \in Arriving(toClient) : toClient' = Without(toClient, i)
    /\ UNCHANGED <<serverVars, clientVars, toServer>>

ServerStep(again) ==
    \E i \in Arriving(toServer) : ServerLogin(i, again) \/ ServerReceive(i, again)
ClientStep(again) == \E i \in Arriving(toClient) : ClientReceive(i, again)

Next ==
    \/ ClientLogin \/ ClientSendNew \/ ClientSendAgain \/ ClientKeepAlive
    \/ \E again \in BOOLEAN : ServerStep(again) \/ ClientStep(again)
    \/ PushPacket
    \/ LoseToServer \/ LoseToClient

\* The network does not lose every datagram, the main loop serves every
\* datagram that arrives, the client keeps sending.
Fairness ==
    /\ WF_vars(ClientLogin)
    /\ WF_vars(ClientSendAgain)
    /\ WF_vars(ClientKeepAlive)
    /\ SF_vars(ServerStep(FALSE))
    /\ SF_vars(ClientStep(FALSE))

Spec == Init /\ [][Next]_vars
FairSpec == Spec /\ Fairness

-----------------------------------------------------------------------------
TypeOK ==
    /\ PChar \in BOOLEAN
    /\ client_packet_id \in Id
    /\ server_packet_id \in Id
    /\ server_packet_data \in ServerDatagram
    /\ PacketList \in Seq(Payload)
    /\ pushed \in 0..MaxPush
    /\ handled \in [Command -> 0..2]
    /\ cOnline \in BOOLEAN
    /\ cSeq \in 0..MaxSeq /\ cAcked \in 0..MaxSeq
    /\ cRecv \in Id
    /\ delivered \in Seq(Payload)
    /\ toServer \in Seq(ClientDatagram)
    /\ toClient \in Seq(ServerDatagram)

\* Payloads the client has not taken yet: those of the last bundle, unless the
\* client has it, and the packet list.
Undelivered ==
    (IF cRecv = server_packet_id THEN <<>> ELSE server_packet_data.body)
      \o PacketList

Channel == INSTANCE ReliableChannel WITH queue <- Undelivered,
                                         received <- delivered

\* Every packet the game pushes reaches the client once and in order, over
\* lost and repeated datagrams; only a login request that is handled before
\* the client went on from its answer discards packets (0x00A clears the list).
RefinesChannel == Channel!Spec

\* parse builds a new bundle only when the client has the last one, and the
\* bundle it keeps to send again is the last one: the server is never more
\* than one bundle ahead, and every copy in flight of that one is the same.
StopAndWait ==
    /\ server_packet_id \in {cRecv, NextId(cRecv)}
    /\ server_packet_data.id = server_packet_id
    /\ \A i \in DOMAIN toClient :
         LET d == toClient[i] IN
         /\ d.id = NextId(cRecv) => /\ d.id = server_packet_id
                                    /\ d.body = server_packet_data.body

\* The filter of parse: however often a command is sent, its handler runs once.
\* (Command 1 is the login request, which is meant to be repeatable.)
AtMostOnce == \A s \in 2..cSeq : handled[s] <= 1

\* What the comment on the filter says: a small packet whose code is not above
\* the last one received is ignored.  Where no login request started the codes
\* again (handled[1] = 1), a command that was handled is not handled again.
OldCodesIgnored == handled[1] = 1 => AtMostOnce

\* A command is handled once however often it is sent, none runs before an
\* earlier one, and one the client stops sending, because parse acknowledged its
\* id, has been handled.
CommandsInOrder ==
    /\ AtMostOnce
    /\ \A s \in 1..cSeq : handled[s] > 0 => \A r \in 1..s : handled[r] > 0
    /\ \A s \in 1..cAcked : handled[s] > 0

\* Every command the client sends is handled in the end.
EveryCommandHandled == \A s \in Command : cSeq >= s ~> handled[s] > 0

\* Once the client is on line and no login request is on its way any more, a
\* packet that waits for delivery is delivered in the end.
EveryPacketDelivered ==
    \A p \in 1..MaxPush :
        (/\ cOnline
         /\ \A i \in DOMAIN toServer : ~toServer[i].login
         /\ \E i \in DOMAIN Undelivered : Undelivered[i] = p)
            ~> \E i \in DOMAIN delivered : delivered[i] = p
=============================================================================
