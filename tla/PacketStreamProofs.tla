------------------------- MODULE PacketStreamProofs -------------------------
(***************************************************************************)
(* What PacketStream keeps for every id space and every bound: its types,  *)
(* over any network; stop-and-wait and the implementation of               *)
(* ReliableChannel, over a network that delivers in order (it may lose and *)
(* repeat datagrams, and ids may wrap as early as IdSpace = 2); and, over  *)
(* such a network before ids wrap, commands handled once and in order.     *)
(***************************************************************************)
EXTENDS PacketStream, SequenceTheorems, TLAPS

(***************************************************************************)
(* The inductive invariant.                                                *)
(***************************************************************************)
\* What the types leave open of the two ends before the first answer.
Beginning ==
    /\ cAcked <= cSeq
    /\ ~cOnline => cSeq <= 1 /\ cRecv = 0 /\ delivered = <<>>
    /\ cSeq = 0 => toServer = <<>>
    /\ cOnline \/ PChar \/ toServer # <<>> \/ toClient # <<>> => cSeq >= 1
    /\ cOnline \/ toClient # <<>> => PChar
    /\ ~PChar => server_packet_id = 0 /\ server_packet_data.body = <<>>
                                     /\ PacketList = <<>>

\* Login requests precede everything else; while one is in flight, the server
\* has not gone on from the answer to the login.
LoginsFirst ==
    /\ \A i \in DOMAIN toServer : toServer[i].login => toServer[i].ack = 0
    /\ \A i, j \in DOMAIN toServer :
         i < j /\ toServer[j].login => toServer[i].login
    /\ ~cOnline => \A i \in DOMAIN toServer : toServer[i].login
    /\ (PChar /\ (~cOnline \/ \E i \in DOMAIN toServer : toServer[i].login)) =>
         /\ server_packet_id = NextId(0)
         /\ server_packet_data.body = <<ZoneIn>>
         /\ cOnline => cRecv = NextId(0) /\ delivered = <<ZoneIn>>

\* The client's acknowledgements in flight: its present one, behind those of
\* the bundle before when the server has not seen the present one.
AcksInOrder ==
    /\ \A i \in DOMAIN toServer : ~toServer[i].login =>
         \/ toServer[i].ack = cRecv
         \/ /\ server_packet_id = cRecv
            /\ NextId(toServer[i].ack) = cRecv
    /\ \A i, j \in DOMAIN toServer :
         i < j /\ ~toServer[i].login /\ toServer[i].ack = cRecv
           => toServer[j].ack = cRecv

\* The server's bundles in flight: the last one, behind those of the bundle
\* before when the client does not have the last one.
BundlesInOrder ==
    /\ server_packet_id \in {cRecv, NextId(cRecv)}
    /\ server_packet_data.id = server_packet_id
    /\ \A i \in DOMAIN toClient :
         /\ toClient[i].id \in {cRecv, server_packet_id}
         /\ toClient[i].id = server_packet_id /\ server_packet_id # cRecv =>
              toClient[i].body = server_packet_data.body
    /\ \A i, j \in DOMAIN toClient :
         i < j /\ toClient[i].id = server_packet_id => toClient[j].id = server_packet_id

TypeInv == TypeOK /\ Beginning
InOrderInv == TypeInv /\ LoginsFirst /\ AcksInOrder /\ BundlesInOrder

-----------------------------------------------------------------------------
(***************************************************************************)
(* Ids and queues.                                                         *)
(***************************************************************************)
\* Incrementing an id changes it, and taking it modulo keeps it an id: all the
\* proofs need to know about the width of the header fields.
LEMMA IdFacts ==
  /\ 0 \in Id
  /\ \A id \in Id : NextId(id) \in Id /\ NextId(id) # id
  /\ \A s \in Command : Wire(s) \in Id
  BY IdSpaceAssumption, BoundsAssumption DEF Id, NextId, Wire, Command

\* A datagram that is sent joins the end of the queue or is lost.
LEMMA SendFacts ==
  ASSUME NEW D, NEW net \in Seq(D), NEW d \in D
  PROVE  /\ Send(net, d) \in Seq(D)
         /\ \/ Send(net, d) = net
            \/ /\ Len(Send(net, d)) = Len(net) + 1
               /\ \A i \in 1..Len(net) : Send(net, d)[i] = net[i]
               /\ Send(net, d)[Len(net) + 1] = d
  BY DEF Send

\* A datagram that is received or lost leaves a queue of the others.
LEMMA RemainsType ==
  ASSUME NEW D, NEW net \in Seq(D), NEW i \in Arriving(net), NEW again \in BOOLEAN
  PROVE  /\ i \in 1..Len(net) /\ net[i] \in D /\ net # <<>>
         /\ Without(net, i) \in Seq(D)
         /\ Remains(net, i, again) \in Seq(D)
  <1>1. i \in 1..Len(net) /\ net[i] \in D /\ net # <<>>
    BY DEF Arriving
  <1>2. SubSeq(net, 1, i - 1) \in Seq(D) /\ SubSeq(net, i + 1, Len(net)) \in Seq(D)
    BY <1>1, SubSeqProperties
  <1>3. Without(net, i) \in Seq(D)
    BY <1>2, ConcatProperties DEF Without
  <1> QED BY <1>1, <1>3 DEF Remains

\* In order, the first datagram is taken and the others keep their order.
LEMMA RemainsInOrder ==
  ASSUME ~Reorder, NEW D, NEW net \in Seq(D), NEW i \in Arriving(net),
         NEW again \in BOOLEAN
  PROVE  /\ i = 1
         /\ \E k \in {0, 1} :
              \A j \in DOMAIN Remains(net, i, again) :
                j + k \in DOMAIN net /\ Remains(net, i, again)[j] = net[j + k]
  <1>1. i = 1 /\ 1 \in 1..Len(net)
    BY DEF Arriving
  <1>2. SubSeq(net, 1, 0) = <<>>
    BY SubSeqEmpty
  <1>3. /\ SubSeq(net, 2, Len(net)) \in Seq(D)
        /\ Len(SubSeq(net, 2, Len(net))) = Len(net) - 1
        /\ \A j \in 1..Len(net) - 1 : SubSeq(net, 2, Len(net))[j] = net[j + 1]
    <2>1. net # <<>>
      BY <1>1
    <2> QED BY <1>1, <2>1, HeadTailProperties, TailIsSubSeq
  <1>4. Without(net, 1) = SubSeq(net, 2, Len(net))
    BY <1>1, <1>2, <1>3, ConcatEmptySeq DEF Without
  <1>5. CASE again
    BY <1>1, <1>5 DEF Remains
  <1>6. CASE ~again
    <2>1. Remains(net, i, again) = SubSeq(net, 2, Len(net))
      BY <1>1, <1>4, <1>6 DEF Remains
    <2>2. \A j \in DOMAIN Remains(net, i, again) :
            j + 1 \in DOMAIN net /\ Remains(net, i, again)[j] = net[j + 1]
      BY <1>1, <1>3, <2>1
    <2> QED BY <1>1, <2>2
  <1> QED BY <1>5, <1>6

\* In order, losing a datagram moves the rest of the queue up by at most one.
LEMMA WithoutInOrder ==
  ASSUME ~Reorder, NEW D, NEW net \in Seq(D), NEW i \in Arriving(net)
  PROVE  \E k \in {0, 1} :
           \A j \in DOMAIN Without(net, i) :
             j + k \in DOMAIN net /\ Without(net, i)[j] = net[j + k]
  <1>1. Remains(net, i, FALSE) = Without(net, i)
    BY DEF Remains
  <1>2. \E k \in {0, 1} :
          \A j \in DOMAIN Remains(net, i, FALSE) :
            j + k \in DOMAIN net /\ Remains(net, i, FALSE)[j] = net[j + k]
    BY RemainsInOrder
  <1> QED BY <1>1, <1>2

\* send_parse takes a part of the list from its front and leaves the rest.
LEMMA SplitList ==
  ASSUME NEW D, NEW list \in Seq(D), NEW n \in 0..Len(list)
  PROVE  /\ SubSeq(list, 1, n) \in Seq(D)
         /\ Erase(list, n) \in Seq(D)
         /\ SubSeq(list, 1, n) \o Erase(list, n) = list
  <1>1. SubSeq(list, 1, n) \in Seq(D) /\ Erase(list, n) \in Seq(D)
    BY SubSeqProperties DEF Erase
  <1>2. SubSeq(list, 1, n) \o SubSeq(list, n + 1, Len(list))
          = SubSeq(list, 1, Len(list))
    <2>1. /\ 1 \in 1..Len(list) + 1
          /\ n \in 1 - 1..Len(list)
          /\ Len(list) \in n..Len(list)
      OBVIOUS
    <2> QED BY <2>1, ConcatAdjacentSubSeq
  <1> QED BY <1>1, <1>2, SubSeqFull DEF Erase

-----------------------------------------------------------------------------
(***************************************************************************)
(* Type correctness, over any network.                                     *)
(***************************************************************************)
LEMMA TypeInit == Init => TypeInv
  <1> SUFFICES ASSUME Init PROVE TypeInv
    OBVIOUS
  <1>1. server_packet_data \in ServerDatagram
    BY IdFacts DEF Init, ServerDatagram
  <1>2. handled \in [Command -> 0..2]
    BY DEF Init
  <1>3. <<>> \in Seq(Payload) /\ <<>> \in Seq(ClientDatagram) /\ <<>> \in Seq(ServerDatagram)
    OBVIOUS
  <1>4. 0 \in 0..MaxSeq /\ 0 \in 0..MaxPush
    BY BoundsAssumption
  <1>5. TypeOK
    BY <1>1, <1>2, <1>3, <1>4, IdFacts DEF Init, TypeOK
  <1> QED BY <1>5 DEF Init, TypeInv, Beginning

\* Whatever recv_parse has made of the ids and of the list, the answer keeps
\* the types.
LEMMA AnswerType ==
  ASSUME TypeOK, NEW d \in ClientDatagram, NEW cid \in Id, NEW sid \in Id,
         NEW list \in Seq(Payload), Answer(d, cid, sid, list)
  PROVE  /\ handled' \in [Command -> 0..2]
         /\ client_packet_id' \in Id
         /\ server_packet_id' \in Id
         /\ server_packet_data' \in ServerDatagram
         /\ PacketList' \in Seq(Payload)
         /\ toClient' \in Seq(ServerDatagram)
  <1>1. handled' \in [Command -> 0..2]
    BY DEF TypeOK, Answer, Again
  <1>2. Wire(d.last) \in Id
    BY IdFacts DEF ClientDatagram
  <1>3. client_packet_id' \in Id
    BY <1>2 DEF Answer
  <1>4. /\ server_packet_id' \in Id
        /\ server_packet_data' \in ServerDatagram
        /\ PacketList' \in Seq(Payload)
    <2>1. CASE ~HasLast(d, sid)
      <3>1. server_packet_data' = [server_packet_data EXCEPT !.ack = Wire(d.last)]
        BY <2>1 DEF Answer
      <3>2. server_packet_data' \in ServerDatagram
        BY <3>1, <1>2 DEF TypeOK, ServerDatagram
      <3> QED BY <2>1, <3>2 DEF Answer
    <2>2. CASE HasLast(d, sid)
      <3>1. PICK n \in 0..Len(list) :
              /\ server_packet_id' = NextId(sid)
              /\ server_packet_data' = [id |-> NextId(sid), ack |-> Wire(d.last),
                                        body |-> SubSeq(list, 1, n)]
              /\ PacketList' = Erase(list, n)
        BY <2>2 DEF Answer
      <3>2. SubSeq(list, 1, n) \in Seq(Payload) /\ Erase(list, n) \in Seq(Payload)
        BY SplitList
      <3>3. NextId(sid) \in Id
        BY IdFacts
      <3> QED BY <3>1, <3>2, <3>3, <1>2 DEF ServerDatagram
    <2> QED BY <2>1, <2>2
  <1>5. toClient' \in Seq(ServerDatagram)
    BY <1>4, SendFacts DEF Answer, TypeOK
  <1> QED BY <1>1, <1>3, <1>4, <1>5

\* Every step of server, client and network keeps the types and the beginning.
LEMMA TypeNext == TypeInv /\ [Next]_vars => TypeInv'
  <1> SUFFICES ASSUME TypeInv, [Next]_vars PROVE TypeInv'
    OBVIOUS
  <1> USE DEF TypeInv
  <1>1. CASE ClientLogin
    <2>1. [login |-> TRUE, first |-> 1, last |-> 1, ack |-> 0] \in ClientDatagram
      BY IdFacts, BoundsAssumption DEF ClientDatagram, Command
    <2>2. toServer' \in Seq(ClientDatagram)
      BY <1>1, <2>1, SendFacts DEF ClientLogin, TypeOK
    <2> QED BY <1>1, <2>2, BoundsAssumption
            DEF ClientLogin, TypeOK, Beginning, serverVars
  <1>2. ASSUME NEW s \in Command, cOnline, cAcked < s, cSeq <= s, SendBundle(s)
        PROVE  TypeInv'
    <2>1. [login |-> FALSE, first |-> cAcked + 1, last |-> s, ack |-> cRecv]
            \in ClientDatagram
      BY <1>2, BoundsAssumption DEF TypeOK, ClientDatagram, Command
    <2>2. toServer' \in Seq(ClientDatagram)
      BY <1>2, <2>1, SendFacts DEF SendBundle, TypeOK
    <2>3. s \in 0..MaxSeq /\ s >= 1
      BY BoundsAssumption DEF Command
    <2>4. TypeOK'
      BY <1>2, <2>2, <2>3 DEF SendBundle, TypeOK, serverVars
    <2>5. Beginning'
      BY <1>2, <2>3 DEF SendBundle, TypeOK, Beginning, serverVars
    <2> QED BY <2>4, <2>5
  <1>3. CASE ClientSendNew
    <2>1. cSeq + 1 \in Command /\ cSeq <= cSeq + 1 /\ cAcked < cSeq + 1
      BY <1>3, BoundsAssumption DEF ClientSendNew, TypeOK, Beginning, Command
    <2> QED BY <1>2, <1>3, <2>1 DEF ClientSendNew
  <1>4. CASE ClientSendAgain
    <2>1. cSeq \in Command /\ cSeq <= cSeq
      BY <1>4, BoundsAssumption DEF ClientSendAgain, TypeOK, Beginning, Command
    <2> QED BY <1>2, <1>4, <2>1 DEF ClientSendAgain
  <1>5. CASE ClientKeepAlive
    <2>1. [login |-> FALSE, first |-> cSeq, last |-> cSeq, ack |-> cRecv]
            \in ClientDatagram
      BY <1>5 DEF ClientKeepAlive, TypeOK, Beginning, ClientDatagram, Command
    <2>2. toServer' \in Seq(ClientDatagram)
      BY <1>5, <2>1, SendFacts DEF ClientKeepAlive, TypeOK
    <2> QED BY <1>5, <2>2
            DEF ClientKeepAlive, TypeOK, Beginning, serverVars, clientVars
  <1>6. CASE \E again \in BOOLEAN : ServerStep(again)
    <2>1. PICK again \in BOOLEAN, i \in Arriving(toServer) :
            ServerLogin(i, again) \/ ServerReceive(i, again)
      BY <1>6 DEF ServerStep
    <2> DEFINE d == toServer[i]
    <2>2. /\ d \in ClientDatagram /\ toServer # <<>>
          /\ toServer' \in Seq(ClientDatagram)
      BY <2>1, RemainsType DEF TypeOK, ServerLogin, ServerReceive
    <2>3. CASE ServerLogin(i, again)
      <3>1. <<ZoneIn>> \in Seq(Payload)
        BY BoundsAssumption DEF ZoneIn, Payload
      <3>2. Answer(d, 0, 0, <<ZoneIn>>)
        BY <2>3 DEF ServerLogin
      <3> HIDE DEF d
      <3> QED BY <2>2, <2>3, <3>1, <3>2, IdFacts, AnswerType
              DEF ServerLogin, TypeOK, Beginning, clientVars
    <2>4. CASE ServerReceive(i, again)
      <3>1. Answer(d, client_packet_id, server_packet_id, PacketList)
        BY <2>4 DEF ServerReceive
      <3> HIDE DEF d
      <3> QED BY <2>2, <2>4, <3>1, AnswerType
              DEF ServerReceive, TypeOK, Beginning, clientVars
    <2> QED BY <2>1, <2>3, <2>4
  <1>7. CASE \E again \in BOOLEAN : ClientStep(again)
    <2>1. PICK again \in BOOLEAN, i \in Arriving(toClient) : ClientReceive(i, again)
      BY <1>7 DEF ClientStep
    <2> DEFINE d == toClient[i]
               acked == {s \in cAcked + 1..cSeq : Wire(s) = d.ack}
    <2>2. /\ d \in ServerDatagram /\ toClient # <<>>
          /\ toClient' \in Seq(ServerDatagram)
      BY <2>1, RemainsType DEF TypeOK, ClientReceive
    <2>3. cAcked' \in 0..MaxSeq /\ cAcked' <= cSeq
      <3>1. CASE acked = {}
        BY <2>1, <3>1, BoundsAssumption DEF ClientReceive, TypeOK, Beginning
      <3>2. CASE acked # {}
        BY <2>1, <3>2, BoundsAssumption DEF ClientReceive, TypeOK
      <3> QED BY <3>1, <3>2
    <2>4. CASE d.id = NextId(cRecv)
      <3>1. d.body \in Seq(Payload) /\ d.id \in Id
        BY <2>2 DEF ServerDatagram
      <3>2. delivered' \in Seq(Payload) /\ cRecv' \in Id /\ cOnline'
        BY <2>1, <2>4, <3>1, ConcatProperties DEF ClientReceive, TypeOK
      <3> QED BY <2>1, <2>2, <2>3, <3>2
              DEF ClientReceive, TypeOK, Beginning, serverVars
    <2>5. CASE d.id # NextId(cRecv)
      BY <2>1, <2>2, <2>3, <2>5 DEF ClientReceive, TypeOK, Beginning, serverVars
    <2> QED BY <2>4, <2>5
  <1>8. CASE PushPacket
    <2>1. pushed + 1 \in 0..MaxPush /\ pushed + 1 \in Payload
      BY <1>8, BoundsAssumption DEF PushPacket, TypeOK, Payload
    <2>2. PacketList' \in Seq(Payload)
      BY <1>8, <2>1, AppendProperties DEF PushPacket, TypeOK
    <2> QED BY <1>8, <2>1, <2>2 DEF PushPacket, TypeOK, Beginning, clientVars
  <1>9. CASE LoseToServer
    <2>1. toServer' \in Seq(ClientDatagram) /\ toServer # <<>>
      BY <1>9, RemainsType DEF LoseToServer, TypeOK
    <2> QED BY <1>9, <2>1 DEF LoseToServer, TypeOK, Beginning, serverVars, clientVars
  <1>10. CASE LoseToClient
    <2>1. toClient' \in Seq(ServerDatagram) /\ toClient # <<>>
      BY <1>10, RemainsType DEF LoseToClient, TypeOK
    <2> QED BY <1>10, <2>1 DEF LoseToClient, TypeOK, Beginning, serverVars, clientVars
  <1>11. CASE UNCHANGED vars
    BY <1>11 DEF vars, serverVars, clientVars, TypeOK, Beginning
  <1> QED BY <1>1, <1>3, <1>4, <1>5, <1>6, <1>7, <1>8, <1>9, <1>10, <1>11 DEF Next

\* The map server's and the client's state keep their types, over any network.
THEOREM TypeCorrect == Spec => []TypeOK
  <1>1. TypeInv => TypeOK
    BY DEF TypeInv
  <1> QED BY TypeInit, TypeNext, <1>1, PTL DEF Spec

-----------------------------------------------------------------------------
(***************************************************************************)
(* Stop and wait, over a network that delivers in order.                   *)
(***************************************************************************)
LEMMA InOrderInit == Init => InOrderInv
  <1> SUFFICES ASSUME Init PROVE InOrderInv
    OBVIOUS
  <1>1. LoginsFirst
    BY DEF Init, LoginsFirst
  <1>2. AcksInOrder /\ BundlesInOrder
    BY DEF Init, AcksInOrder, BundlesInOrder
  <1> QED BY <1>1, <1>2, TypeInit DEF InOrderInv

\* A step of the client or of the network that puts at most one new datagram
\* behind the others: a login request before the first answer, else one with
\* the client's present acknowledgement.
LEMMA InOrderClientSend ==
  ASSUME InOrderInv, NEW d \in ClientDatagram, toServer' = Send(toServer, d),
         IF cOnline THEN ~d.login /\ d.ack = cRecv ELSE d.login /\ d.ack = 0,
         UNCHANGED <<serverVars, cOnline, cRecv, delivered, toClient>>
  PROVE  LoginsFirst' /\ AcksInOrder' /\ BundlesInOrder'
  <1>1. toServer \in Seq(ClientDatagram) /\ toServer' \in Seq(ClientDatagram)
    BY SendFacts DEF InOrderInv, TypeInv, TypeOK
  <1>2. BundlesInOrder'
    BY DEF BundlesInOrder, serverVars, InOrderInv
  <1>3. CASE toServer' = toServer
    BY <1>2, <1>3 DEF LoginsFirst, AcksInOrder, serverVars, InOrderInv
  <1>4. CASE /\ Len(toServer') = Len(toServer) + 1
             /\ \A i \in 1..Len(toServer) : toServer'[i] = toServer[i]
             /\ toServer'[Len(toServer) + 1] = d
    <2>1. \A i \in DOMAIN toServer' :
            \/ i \in DOMAIN toServer /\ toServer'[i] = toServer[i]
            \/ toServer'[i] = d
      BY <1>1, <1>4
    <2>2. \A i, j \in DOMAIN toServer' : i < j =>
            i \in DOMAIN toServer /\ toServer'[i] = toServer[i]
      BY <1>1, <1>4
    <2>3. LoginsFirst'
      <3>1. \A i \in DOMAIN toServer' : toServer'[i].login => toServer'[i].ack = 0
        BY <2>1 DEF LoginsFirst, InOrderInv
      <3>2. \A i, j \in DOMAIN toServer' :
              i < j /\ toServer'[j].login => toServer'[i].login
        <4> SUFFICES ASSUME NEW i \in DOMAIN toServer', NEW j \in DOMAIN toServer',
                            i < j, toServer'[j].login
                     PROVE  toServer'[i].login
          OBVIOUS
        <4>1. i \in DOMAIN toServer /\ toServer'[i] = toServer[i]
          BY <2>2
        <4>2. CASE cOnline
          BY <2>1, <4>1, <4>2 DEF LoginsFirst, InOrderInv
        <4>3. CASE ~cOnline
          BY <4>1, <4>3 DEF LoginsFirst, InOrderInv
        <4> QED BY <4>2, <4>3
      <3>3. ~cOnline => \A i \in DOMAIN toServer' : toServer'[i].login
        BY <2>1 DEF LoginsFirst, InOrderInv
      <3>4. (cOnline /\ \E i \in DOMAIN toServer' : toServer'[i].login)
              => \E i \in DOMAIN toServer : toServer[i].login
        BY <2>1
      <3> QED BY <3>1, <3>2, <3>3, <3>4 DEF LoginsFirst, serverVars, InOrderInv
    <2>4. AcksInOrder'
      <3>1. \A i \in DOMAIN toServer' : ~toServer'[i].login =>
              \/ toServer'[i].ack = cRecv
              \/ server_packet_id = cRecv /\ NextId(toServer'[i].ack) = cRecv
        BY <2>1 DEF AcksInOrder, InOrderInv
      <3>2. \A i, j \in DOMAIN toServer' :
              i < j /\ ~toServer'[i].login /\ toServer'[i].ack = cRecv
                => toServer'[j].ack = cRecv
        <4> SUFFICES ASSUME NEW i \in DOMAIN toServer', NEW j \in DOMAIN toServer',
                            i < j, ~toServer'[i].login, toServer'[i].ack = cRecv
                     PROVE  toServer'[j].ack = cRecv
          OBVIOUS
        <4>1. i \in DOMAIN toServer /\ toServer'[i] = toServer[i]
          BY <2>2
        <4>2. cOnline
          BY <4>1 DEF LoginsFirst, InOrderInv
        <4> QED BY <2>1, <4>1, <4>2 DEF AcksInOrder, InOrderInv
      <3> QED BY <3>1, <3>2 DEF AcksInOrder, serverVars
    <2> QED BY <1>2, <2>3, <2>4
  <1>5. \/ Send(toServer, d) = toServer
        \/ /\ Len(Send(toServer, d)) = Len(toServer) + 1
           /\ \A i \in 1..Len(toServer) : Send(toServer, d)[i] = toServer[i]
           /\ Send(toServer, d)[Len(toServer) + 1] = d
    BY <1>1, SendFacts
  <1> QED BY <1>3, <1>4, <1>5

\* Taking a datagram off the queue to the server leaves what is said of it.
LEMMA InOrderTaken ==
  ASSUME InOrderInv, NEW k \in {0, 1}, toServer' \in Seq(ClientDatagram),
         \A j \in DOMAIN toServer' :
           j + k \in DOMAIN toServer /\ toServer'[j] = toServer[j + k]
  PROVE  /\ \A j \in DOMAIN toServer' :
              \E i \in DOMAIN toServer : toServer'[j] = toServer[i]
         /\ \A i, j \in DOMAIN toServer' :
              i < j /\ toServer'[j].login => toServer'[i].login
         /\ \A i, j \in DOMAIN toServer' :
              i < j /\ ~toServer'[i].login /\ toServer'[i].ack = cRecv
                => toServer'[j].ack = cRecv
  <1>1. \A i, j \in DOMAIN toServer' : i < j => i + k < j + k
    OBVIOUS
  <1> QED BY <1>1 DEF InOrderInv, LoginsFirst, AcksInOrder

\* The server's bundle joins the others on their way to the client.
LEMMA InOrderServerSend ==
  ASSUME InOrderInv, toClient' = Send(toClient, server_packet_data'),
         server_packet_data' \in ServerDatagram,
         server_packet_data'.id = server_packet_id',
         server_packet_id' \in {cRecv', NextId(cRecv')},
         cRecv' = cRecv,
         \A i \in DOMAIN toClient :
           /\ toClient[i].id \in {cRecv, server_packet_id'}
           /\ toClient[i].id = server_packet_id' /\ server_packet_id' # cRecv =>
                toClient[i].body = server_packet_data'.body,
         \A i, j \in DOMAIN toClient :
           i < j /\ toClient[i].id = server_packet_id' => toClient[j].id = server_packet_id'
  PROVE  BundlesInOrder'
  <1> DEFINE d == server_packet_data'
  <1>1. toClient \in Seq(ServerDatagram) /\ toClient' \in Seq(ServerDatagram)
    BY SendFacts DEF InOrderInv, TypeInv, TypeOK
  <1>2. \/ Send(toClient, d) = toClient
        \/ /\ Len(Send(toClient, d)) = Len(toClient) + 1
           /\ \A i \in 1..Len(toClient) : Send(toClient, d)[i] = toClient[i]
           /\ Send(toClient, d)[Len(toClient) + 1] = d
    BY <1>1, SendFacts
  <1> HIDE DEF d
  <1>3. CASE toClient' = toClient
    BY <1>3 DEF BundlesInOrder
  <1>4. CASE /\ Len(toClient') = Len(toClient) + 1
             /\ \A i \in 1..Len(toClient) : toClient'[i] = toClient[i]
             /\ toClient'[Len(toClient) + 1] = d
    <2>1. \A i \in DOMAIN toClient' :
            \/ i \in DOMAIN toClient /\ toClient'[i] = toClient[i]
            \/ toClient'[i] = d
      BY <1>1, <1>4
    <2>2. \A i, j \in DOMAIN toClient' : i < j =>
            i \in DOMAIN toClient /\ toClient'[i] = toClient[i]
      BY <1>1, <1>4
    <2> QED BY <2>1, <2>2 DEF BundlesInOrder, d
  <1> QED BY <1>2, <1>3, <1>4 DEF d

\* The answer to a login request (do_sockets, recv_parse, 0x00A) keeps logins
\* in front, acknowledgements and bundles in order.
LEMMA InOrderLogin ==
  ASSUME ~Reorder, InOrderInv, TypeInv', NEW i \in Arriving(toServer),
         NEW again \in BOOLEAN, ServerLogin(i, again)
  PROVE  InOrderInv'
  <1> USE DEF InOrderInv, TypeInv
  <1>1. i \in DOMAIN toServer /\ toServer[i].login /\ toServer[i].ack = 0
    BY SMTT(20), RemainsType DEF ServerLogin, LoginsFirst, TypeOK
  <1>2. toServer' \in Seq(ClientDatagram)
    BY DEF TypeOK
  <1>3. PICK k \in {0, 1} : \A j \in DOMAIN toServer' :
           j + k \in DOMAIN toServer /\ toServer'[j] = toServer[j + k]
    <2>1. toServer' = Remains(toServer, i, again) /\ toServer \in Seq(ClientDatagram)
      BY DEF ServerLogin, TypeOK
    <2> QED BY <2>1, RemainsInOrder
  <1>4. PICK n \in 0..Len(<<ZoneIn>>) :
           /\ n = 0 => <<ZoneIn>> = <<>>
           /\ server_packet_id' = NextId(0)
           /\ server_packet_data' = [id |-> NextId(0), ack |-> Wire(toServer[i].last),
                                     body |-> SubSeq(<<ZoneIn>>, 1, n)]
    BY <1>1 DEF ServerLogin, Answer, HasLast
  <1>5. SubSeq(<<ZoneIn>>, 1, n) = <<ZoneIn>>
    <2>1. <<ZoneIn>> \in Seq({ZoneIn}) /\ Len(<<ZoneIn>>) = 1 /\ <<ZoneIn>> # <<>>
      OBVIOUS
    <2>2. n = Len(<<ZoneIn>>)
      BY <1>4, <2>1
    <2> QED BY <2>1, <2>2, SubSeqFull
  <1>6. cOnline => cRecv = NextId(0) /\ server_packet_id = NextId(0)
                   /\ delivered = <<ZoneIn>>
    BY <1>1 DEF Beginning, LoginsFirst
  <1>7. PChar => server_packet_id = NextId(0) /\ server_packet_data.body = <<ZoneIn>>
    BY <1>1 DEF LoginsFirst
  <1>8. ~cOnline => cRecv = 0 /\ \A j \in DOMAIN toServer : toServer[j].login
    BY DEF Beginning, LoginsFirst
  <1>9. UNCHANGED clientVars
    BY DEF ServerLogin
  <1>10. LoginsFirst'
    BY <1>2, <1>3, <1>4, <1>5, <1>6, <1>8, <1>9, InOrderTaken
       DEF LoginsFirst, clientVars
  <1>11. AcksInOrder'
    BY <1>2, <1>3, <1>4, <1>6, <1>8, <1>9, InOrderTaken
       DEF AcksInOrder, clientVars
  <1>12. BundlesInOrder'
    <2>1. /\ toClient' = Send(toClient, server_packet_data')
          /\ server_packet_data' \in ServerDatagram
          /\ server_packet_data'.id = server_packet_id'
          /\ server_packet_data'.body = <<ZoneIn>>
      BY <1>4, <1>5 DEF ServerLogin, Answer, TypeOK
    <2>2. server_packet_id' \in {cRecv', NextId(cRecv')} /\ cRecv' = cRecv
      BY <1>4, <1>6, <1>8, <1>9 DEF clientVars
    <2>3. ~PChar => DOMAIN toClient = {}
      BY DEF Beginning
    <2> QED BY <1>4, <1>7, <2>1, <2>2, <2>3, InOrderServerSend DEF BundlesInOrder
  <1> QED BY <1>10, <1>11, <1>12

\* So does the answer to an enciphered datagram, with a new bundle or the old.
LEMMA InOrderReceive ==
  ASSUME ~Reorder, InOrderInv, TypeInv', NEW i \in Arriving(toServer),
         NEW again \in BOOLEAN, ServerReceive(i, again)
  PROVE  InOrderInv'
  <1> USE DEF InOrderInv, TypeInv
  <1> DEFINE d == toServer[i]
  <1>1. i = 1 /\ 1 \in DOMAIN toServer /\ ~d.login
    BY RemainsType DEF ServerReceive, Arriving, TypeOK
  <1>2. toServer' \in Seq(ClientDatagram)
    BY DEF TypeOK
  <1>3. PICK k \in {0, 1} : \A j \in DOMAIN toServer' :
           j + k \in DOMAIN toServer /\ toServer'[j] = toServer[j + k]
    <2>1. toServer' = Remains(toServer, i, again) /\ toServer \in Seq(ClientDatagram)
      BY DEF ServerReceive, TypeOK
    <2> QED BY <2>1, RemainsInOrder
  <1>4. cOnline /\ \A j \in DOMAIN toServer : ~toServer[j].login
    <2>1. \A j \in DOMAIN toServer : j = 1 \/ 1 < j
      BY DEF TypeOK
    <2> QED BY <1>1, <2>1 DEF LoginsFirst
  <1>5. UNCHANGED clientVars /\ PChar /\ PChar'
    BY DEF ServerReceive
  <1>6. LoginsFirst'
    BY <1>2, <1>3, <1>4, <1>5, InOrderTaken DEF LoginsFirst, clientVars
  <1>7. /\ toClient' = Send(toClient, server_packet_data')
        /\ server_packet_data' \in ServerDatagram
    BY DEF ServerReceive, Answer, TypeOK
  <1>8. cRecv \in Id /\ server_packet_id \in Id /\ d.ack \in Id
    <2>1. toServer[i] \in ClientDatagram
      BY <1>1 DEF TypeOK
    <2> QED BY <2>1 DEF TypeOK, ClientDatagram
  <1>9. CASE HasLast(d, server_packet_id)
    <2>1. /\ server_packet_id' = NextId(server_packet_id)
          /\ server_packet_data'.id = server_packet_id'
      BY <1>9 DEF ServerReceive, Answer
    <2>2. server_packet_id = cRecv /\ d.ack = cRecv
      BY <1>1, <1>8, <1>9, IdFacts DEF HasLast, AcksInOrder
    <2>3. \A j \in DOMAIN toServer : toServer[j].ack = cRecv
      <3>1. \A j \in DOMAIN toServer : j = 1 \/ 1 < j
        BY DEF TypeOK
      <3> QED BY <1>1, <2>2, <3>1 DEF AcksInOrder
    <2>4. AcksInOrder'
      BY <1>3, <1>5, <2>3 DEF AcksInOrder, clientVars
    <2>5. server_packet_id' # cRecv
      BY <1>8, <2>1, <2>2, IdFacts
    <2>6. BundlesInOrder'
      BY <1>5, <1>7, <2>1, <2>2, <2>5, InOrderServerSend
         DEF BundlesInOrder, clientVars
    <2> QED BY <1>6, <2>4, <2>6
  <1>10. CASE ~HasLast(d, server_packet_id)
    <2>1. /\ server_packet_id' = server_packet_id
          /\ server_packet_data' = [server_packet_data EXCEPT !.ack = Wire(d.last)]
      BY <1>10 DEF ServerReceive, Answer
    <2>2. /\ server_packet_data'.id = server_packet_data.id
          /\ server_packet_data'.body = server_packet_data.body
      BY <2>1 DEF TypeOK, ServerDatagram
    <2>3. AcksInOrder'
      BY <1>2, <1>3, <1>5, <2>1, InOrderTaken DEF AcksInOrder, clientVars
    <2>4. BundlesInOrder'
      BY <1>5, <1>7, <2>1, <2>2, InOrderServerSend DEF BundlesInOrder, clientVars
    <2> QED BY <1>6, <2>3, <2>4
  <1> QED BY <1>9, <1>10

\* So does the client when it takes a bundle or finds that it has it already.
LEMMA InOrderClientReceive ==
  ASSUME ~Reorder, InOrderInv, TypeInv', NEW i \in Arriving(toClient),
         NEW again \in BOOLEAN, ClientReceive(i, again)
  PROVE  InOrderInv'
  <1> USE DEF InOrderInv, TypeInv
  <1> DEFINE d == toClient[i]
  <1>1. i = 1 /\ 1 \in DOMAIN toClient /\ PChar
    BY RemainsType DEF Arriving, TypeOK, Beginning
  <1>2. PICK k \in {0, 1} : \A j \in DOMAIN toClient' :
           j + k \in DOMAIN toClient /\ toClient'[j] = toClient[j + k]
    <2>1. toClient' = Remains(toClient, i, again) /\ toClient \in Seq(ServerDatagram)
      BY DEF ClientReceive, TypeOK
    <2> QED BY <2>1, RemainsInOrder
  <1>3. UNCHANGED <<serverVars, cSeq, toServer>>
    BY DEF ClientReceive
  <1>4. \A l, j \in DOMAIN toClient' : l < j => l + k < j + k
    BY DEF TypeOK
  <1>5. cRecv \in Id /\ NextId(cRecv) # cRecv
    BY IdFacts DEF TypeOK
  <1>6. CASE d.id = NextId(cRecv)
    <2>1. /\ cRecv' = d.id /\ cOnline' = TRUE /\ delivered' = delivered \o d.body
      BY <1>6 DEF ClientReceive
    <2>2. /\ server_packet_id = d.id /\ server_packet_id # cRecv
          /\ d.body = server_packet_data.body
      BY <1>1, <1>5, <1>6 DEF BundlesInOrder
    <2>3. \A j \in DOMAIN toClient : toClient[j].id = server_packet_id
      <3>1. \A j \in DOMAIN toClient : j = 1 \/ 1 < j
        BY DEF TypeOK
      <3> QED BY <1>1, <2>2, <3>1 DEF BundlesInOrder
    <2>4. BundlesInOrder'
      BY <1>2, <1>3, <2>1, <2>2, <2>3 DEF BundlesInOrder, serverVars
    <2>5. AcksInOrder'
      BY <1>3, <1>6, <2>1, <2>2 DEF AcksInOrder, serverVars
    <2>6. LoginsFirst'
      <3>1. ASSUME \E j \in DOMAIN toServer : toServer[j].login
            PROVE  ~cOnline
        BY <1>1, <3>1, <2>2 DEF LoginsFirst
      <3>2. ~cOnline => delivered \o d.body = <<ZoneIn>> /\ d.id = NextId(0)
        <4>1. <<ZoneIn>> \in Seq({ZoneIn}) /\ <<>> \o <<ZoneIn>> = <<ZoneIn>>
          BY ConcatEmptySeq
        <4> QED BY <1>1, <2>2, <4>1 DEF LoginsFirst, Beginning
      <3> QED BY <1>3, <2>1, <3>1, <3>2 DEF LoginsFirst, serverVars
    <2> QED BY <2>4, <2>5, <2>6
  <1>7. CASE d.id # NextId(cRecv)
    <2>1. UNCHANGED <<cRecv, cOnline, delivered>>
      BY <1>7 DEF ClientReceive
    <2>2. LoginsFirst' /\ AcksInOrder'
      BY <1>3, <2>1 DEF LoginsFirst, AcksInOrder, serverVars
    <2>3. BundlesInOrder'
      BY <1>2, <1>3, <1>4, <2>1 DEF BundlesInOrder, serverVars
    <2> QED BY <2>2, <2>3
  <1> QED BY <1>6, <1>7

\* Over a network in order every step keeps the whole invariant.
LEMMA InOrderNext == ~Reorder /\ InOrderInv /\ [Next]_vars => InOrderInv'
  <1> SUFFICES ASSUME ~Reorder, InOrderInv, [Next]_vars PROVE InOrderInv'
    OBVIOUS
  <1>1. TypeInv'
    BY TypeNext DEF InOrderInv
  <1>2. CASE ClientLogin
    <2>1. [login |-> TRUE, first |-> 1, last |-> 1, ack |-> 0] \in ClientDatagram
      BY IdFacts, BoundsAssumption DEF ClientDatagram, Command
    <2> QED BY <1>1, <1>2, <2>1, InOrderClientSend DEF ClientLogin, InOrderInv
  <1>3. ASSUME cOnline, NEW f \in Command, NEW l \in Command,
               toServer' = Send(toServer, [login |-> FALSE, first |-> f,
                                           last |-> l, ack |-> cRecv]),
               UNCHANGED <<serverVars, cOnline, cRecv, delivered, toClient>>
        PROVE  InOrderInv'
    <2>1. [login |-> FALSE, first |-> f, last |-> l, ack |-> cRecv] \in ClientDatagram
      BY DEF ClientDatagram, InOrderInv, TypeInv, TypeOK
    <2> QED BY <1>1, <1>3, <2>1, InOrderClientSend DEF InOrderInv
  <1>4. CASE ClientSendNew
    <2>1. cAcked + 1 \in Command /\ cSeq + 1 \in Command
      BY <1>4, BoundsAssumption
         DEF ClientSendNew, InOrderInv, TypeInv, TypeOK, Beginning, Command
    <2> QED BY <1>3, <1>4, <2>1 DEF ClientSendNew, SendBundle
  <1>5. CASE ClientSendAgain
    <2>1. cAcked + 1 \in Command /\ cSeq \in Command
      BY <1>5, BoundsAssumption
         DEF ClientSendAgain, InOrderInv, TypeInv, TypeOK, Beginning, Command
    <2> QED BY <1>3, <1>5, <2>1 DEF ClientSendAgain, SendBundle
  <1>6. CASE ClientKeepAlive
    <2>1. cSeq \in Command
      BY <1>6, BoundsAssumption
         DEF ClientKeepAlive, InOrderInv, TypeInv, TypeOK, Beginning, Command
    <2> QED BY <1>3, <1>6, <2>1 DEF ClientKeepAlive, clientVars
  <1>7. CASE \E again \in BOOLEAN : ServerStep(again)
    BY <1>1, <1>7, InOrderLogin, InOrderReceive DEF ServerStep
  <1>8. CASE \E again \in BOOLEAN : ClientStep(again)
    BY <1>1, <1>8, InOrderClientReceive DEF ClientStep
  <1>9. CASE PushPacket
    <2>1. UNCHANGED <<server_packet_id, server_packet_data, PChar, clientVars,
                      toServer, toClient>>
      BY <1>9 DEF PushPacket
    <2> QED BY <1>1, <2>1 DEF InOrderInv, LoginsFirst, AcksInOrder,
                              BundlesInOrder, clientVars
  <1>10. CASE LoseToServer
    <2>1. PICK i \in Arriving(toServer) : toServer' = Without(toServer, i)
      BY <1>10 DEF LoseToServer
    <2>2. toServer \in Seq(ClientDatagram) /\ toServer' \in Seq(ClientDatagram)
      BY <1>1 DEF InOrderInv, TypeInv, TypeOK
    <2>3. PICK k \in {0, 1} : \A j \in DOMAIN toServer' :
             j + k \in DOMAIN toServer /\ toServer'[j] = toServer[j + k]
      BY <2>1, <2>2, WithoutInOrder
    <2>4. UNCHANGED <<serverVars, clientVars, toClient>>
      BY <1>10 DEF LoseToServer
    <2>5. LoginsFirst' /\ AcksInOrder'
      BY <2>2, <2>3, <2>4, InOrderTaken
         DEF InOrderInv, LoginsFirst, AcksInOrder, serverVars, clientVars
    <2>6. BundlesInOrder'
      BY <2>4 DEF InOrderInv, BundlesInOrder, serverVars, clientVars
    <2> QED BY <1>1, <2>5, <2>6 DEF InOrderInv
  <1>11. CASE LoseToClient
    <2>1. PICK i \in Arriving(toClient) : toClient' = Without(toClient, i)
      BY <1>11 DEF LoseToClient
    <2>2. toClient \in Seq(ServerDatagram) /\ toClient' \in Seq(ServerDatagram)
      BY <1>1 DEF InOrderInv, TypeInv, TypeOK
    <2>3. PICK k \in {0, 1} : \A j \in DOMAIN toClient' :
             j + k \in DOMAIN toClient /\ toClient'[j] = toClient[j + k]
      BY <2>1, <2>2, WithoutInOrder
    <2>4. UNCHANGED <<serverVars, clientVars, toServer>>
      BY <1>11 DEF LoseToClient
    <2>5. \A l, j \in DOMAIN toClient' : l < j => l + k < j + k
      BY <2>2
    <2>6. BundlesInOrder'
      BY <2>3, <2>4, <2>5 DEF InOrderInv, BundlesInOrder, serverVars, clientVars
    <2>7. LoginsFirst' /\ AcksInOrder'
      BY <2>4 DEF InOrderInv, LoginsFirst, AcksInOrder, serverVars, clientVars
    <2> QED BY <1>1, <2>6, <2>7 DEF InOrderInv
  <1>12. CASE UNCHANGED vars
    BY <1>1, <1>12 DEF vars, serverVars, clientVars, InOrderInv, LoginsFirst,
                       AcksInOrder, BundlesInOrder
  <1> QED BY <1>2, <1>4, <1>5, <1>6, <1>7, <1>8, <1>9, <1>10, <1>11, <1>12 DEF Next

\* The invariant gives stop-and-wait: copies in flight of a bundle the client
\* lacks are copies of the one server_packet_data holds.
LEMMA InOrderImplies == InOrderInv => StopAndWait
  <1> SUFFICES ASSUME InOrderInv PROVE StopAndWait
    OBVIOUS
  <1>1. cRecv \in Id /\ NextId(cRecv) # cRecv
    BY IdFacts DEF InOrderInv, TypeInv, TypeOK
  <1> QED BY <1>1 DEF InOrderInv, BundlesInOrder, StopAndWait

\* parse builds a new bundle only for a client that has the last one, and all
\* copies in flight of a bundle the client lacks are the one that is kept, for
\* ids of any width.
THEOREM StopAndWaitHolds ==
  ASSUME ~Reorder
  PROVE  Spec => []StopAndWait
  BY InOrderInit, InOrderNext, InOrderImplies, PTL DEF Spec

-----------------------------------------------------------------------------
(***************************************************************************)
(* Every step of the datagram exchange is a step of the channel, or none.  *)
(***************************************************************************)
LEMMA ChannelInit == Init => Channel!Init
  <1>1. <<>> \o <<>> = <<>>
    OBVIOUS
  <1> QED BY <1>1 DEF Init, Channel!Init, Undelivered

\* What the client's side or the network does before a bundle is taken is
\* invisible: the bundle the server keeps makes up for every loss.
LEMMA ChannelStutter ==
  ASSUME UNCHANGED <<server_packet_id, server_packet_data, PacketList, cRecv, delivered>>
  PROVE  UNCHANGED Channel!channelVars
  BY DEF Channel!channelVars, Undelivered

\* pushPacket appends to what the client has not taken yet.
LEMMA ChannelPush ==
  ASSUME TypeInv, PushPacket
  PROVE  Channel!Accept
  <1> DEFINE body == IF cRecv = server_packet_id THEN <<>>
                     ELSE server_packet_data.body
  <1>1. pushed + 1 \in Payload
    BY BoundsAssumption DEF PushPacket, TypeInv, TypeOK, Payload
  <1>2. body \in Seq(Payload) /\ PacketList \in Seq(Payload)
    BY DEF TypeInv, TypeOK, ServerDatagram
  <1>3. Undelivered = body \o PacketList
    BY DEF Undelivered
  <1>4. Undelivered' = body \o Append(PacketList, pushed + 1)
    BY DEF PushPacket, Undelivered, clientVars
  <1> HIDE DEF body
  <1>5. body \o Append(PacketList, pushed + 1) = Append(body \o PacketList, pushed + 1)
    <2>1. /\ Append(PacketList, pushed + 1) = PacketList \o <<pushed + 1>>
          /\ <<pushed + 1>> \in Seq(Payload)
      BY <1>1, <1>2, AppendIsConcat
    <2>2. body \o PacketList \in Seq(Payload)
      BY <1>2, ConcatProperties
    <2>3. Append(body \o PacketList, pushed + 1) = (body \o PacketList) \o <<pushed + 1>>
      BY <1>1, <2>2, AppendIsConcat
    <2> QED BY <1>2, <2>1, <2>3, ConcatAssociative
  <1>6. Undelivered' = Append(Undelivered, pushed + 1)
    BY <1>3, <1>4, <1>5
  <1>7. UNCHANGED delivered
    BY DEF PushPacket, clientVars
  <1> QED BY <1>1, <1>6, <1>7 DEF Channel!Accept

\* A login request, the first or a repeated one, leaves its answer to deliver,
\* unless the client has had it.
LEMMA ChannelLogin ==
  ASSUME ~Reorder, InOrderInv, NEW i \in Arriving(toServer), NEW again \in BOOLEAN,
         ServerLogin(i, again)
  PROVE  Channel!Login
  <1> USE DEF InOrderInv, TypeInv
  <1>1. i \in DOMAIN toServer /\ toServer[i].login /\ toServer[i].ack = 0
    BY RemainsType DEF ServerLogin, LoginsFirst, TypeOK
  <1>2. PICK n \in 0..Len(<<ZoneIn>>) :
           /\ n = 0 => <<ZoneIn>> = <<>>
           /\ server_packet_id' = NextId(0)
           /\ server_packet_data' = [id |-> NextId(0), ack |-> Wire(toServer[i].last),
                                     body |-> SubSeq(<<ZoneIn>>, 1, n)]
           /\ PacketList' = Erase(<<ZoneIn>>, n)
    BY <1>1 DEF ServerLogin, Answer, HasLast
  <1>3. <<ZoneIn>> \in Seq({ZoneIn}) /\ Len(<<ZoneIn>>) = 1 /\ <<ZoneIn>> # <<>>
    OBVIOUS
  <1>4. n = Len(<<ZoneIn>>)
    BY <1>2, <1>3
  <1>5. server_packet_data'.body = <<ZoneIn>> /\ PacketList' = <<>>
    <2>1. SubSeq(<<ZoneIn>>, n + 1, Len(<<ZoneIn>>)) = <<>>
      BY <1>3, <1>4, SubSeqEmpty
    <2> QED BY <1>2, <1>3, <1>4, <2>1, SubSeqFull DEF Erase
  <1>6. UNCHANGED <<cRecv, delivered>>
    BY DEF ServerLogin, clientVars
  <1>7. <<ZoneIn>> \o <<>> = <<ZoneIn>> /\ <<>> \o <<>> = <<>>
    BY <1>3, ConcatEmptySeq
  <1>8. CASE cOnline
    <2>1. PChar /\ cRecv = NextId(0) /\ delivered = <<ZoneIn>>
      BY <1>1, <1>8 DEF Beginning, LoginsFirst
    <2> QED BY <1>2, <1>3, <1>5, <1>6, <1>7, <2>1 DEF Channel!Login, Undelivered
  <1>9. CASE ~cOnline
    <2>1. cRecv = 0 /\ delivered = <<>> /\ NextId(0) # 0
      BY <1>9, IdFacts DEF Beginning
    <2> QED BY <1>2, <1>3, <1>5, <1>6, <1>7, <2>1 DEF Channel!Login, Undelivered
  <1> QED BY <1>8, <1>9

\* Building a bundle moves payloads from the list to the bundle; sending the
\* kept one again moves nothing.
LEMMA ChannelReceive ==
  ASSUME ~Reorder, InOrderInv, NEW i \in Arriving(toServer), NEW again \in BOOLEAN,
         ServerReceive(i, again)
  PROVE  UNCHANGED Channel!channelVars
  <1> USE DEF InOrderInv, TypeInv
  <1> DEFINE d == toServer[i]
  <1>1. d \in ClientDatagram /\ ~d.login /\ i \in DOMAIN toServer
    BY RemainsType DEF ServerReceive, TypeOK
  <1>2. cRecv \in Id /\ server_packet_id \in Id /\ d.ack \in Id
    BY <1>1 DEF TypeOK, ClientDatagram
  <1>3. UNCHANGED <<cRecv, delivered>>
    BY DEF ServerReceive, clientVars
  <1>4. CASE HasLast(d, server_packet_id)
    <2>1. PICK n \in 0..Len(PacketList) :
            /\ server_packet_id' = NextId(server_packet_id)
            /\ server_packet_data' = [id |-> NextId(server_packet_id),
                                      ack |-> Wire(d.last),
                                      body |-> SubSeq(PacketList, 1, n)]
            /\ PacketList' = Erase(PacketList, n)
      BY <1>4 DEF ServerReceive, Answer
    <2>2. server_packet_id = cRecv
      BY <1>1, <1>2, <1>4, IdFacts DEF HasLast, AcksInOrder
    <2>3. server_packet_id' # cRecv
      BY <1>2, <2>1, <2>2, IdFacts
    <2>4. PacketList \in Seq(Payload)
      BY DEF TypeOK
    <2>5. Undelivered = PacketList
      BY <2>2, <2>4, ConcatEmptySeq DEF Undelivered
    <2>6. Undelivered' = SubSeq(PacketList, 1, n) \o Erase(PacketList, n)
      BY <1>3, <2>1, <2>3 DEF Undelivered
    <2> QED BY <1>3, <2>4, <2>5, <2>6, SplitList DEF Channel!channelVars
  <1>5. CASE ~HasLast(d, server_packet_id)
    <2>1. /\ UNCHANGED <<server_packet_id, PacketList>>
          /\ server_packet_data' = [server_packet_data EXCEPT !.ack = Wire(d.last)]
      BY <1>5 DEF ServerReceive, Answer
    <2>2. server_packet_data'.body = server_packet_data.body
      BY <2>1 DEF TypeOK, ServerDatagram
    <2> QED BY <1>3, <2>1, <2>2 DEF Channel!channelVars, Undelivered
  <1> QED BY <1>4, <1>5

\* The client takes the kept bundle, or one it has already.
LEMMA ChannelDeliver ==
  ASSUME ~Reorder, InOrderInv, NEW i \in Arriving(toClient), NEW again \in BOOLEAN,
         ClientReceive(i, again)
  PROVE  Channel!Deliver \/ UNCHANGED Channel!channelVars
  <1> USE DEF InOrderInv, TypeInv
  <1> DEFINE d == toClient[i]
             body == server_packet_data.body
  <1>1. i \in DOMAIN toClient
    BY RemainsType DEF TypeOK
  <1>2. UNCHANGED <<server_packet_id, server_packet_data, PacketList>>
    BY DEF ClientReceive, serverVars
  <1>3. body \in Seq(Payload) /\ PacketList \in Seq(Payload) /\ delivered \in Seq(Payload)
    BY DEF TypeOK, ServerDatagram
  <1>4. CASE d.id = NextId(cRecv)
    <2>1. cRecv \in Id /\ NextId(cRecv) # cRecv
      BY IdFacts DEF TypeOK
    <2>2. server_packet_id = d.id /\ server_packet_id # cRecv /\ d.body = body
      BY <1>1, <1>4, <2>1 DEF BundlesInOrder
    <2>3. cRecv' = server_packet_id /\ delivered' = delivered \o body
      BY <1>4, <2>2 DEF ClientReceive
    <2>4. Undelivered = body \o PacketList
      BY <2>2 DEF Undelivered
    <2>5. Undelivered' = PacketList
      BY <1>2, <1>3, <2>3, ConcatEmptySeq DEF Undelivered
    <2> HIDE DEF body
    <2>6. CASE body = <<>>
      BY <1>3, <2>3, <2>4, <2>5, <2>6, ConcatEmptySeq DEF Channel!channelVars
    <2>7. CASE body # <<>>
      <3> DEFINE s == body \o PacketList
      <3>1. /\ s \in Seq(Payload)
            /\ Len(s) = Len(body) + Len(PacketList)
            /\ \A j \in 1..Len(s) : s[j] = IF j <= Len(body) THEN body[j]
                                           ELSE PacketList[j - Len(body)]
        BY <1>3, ConcatProperties
      <3>2. Len(body) \in 1..Len(s)
        BY <1>3, <2>7, <3>1
      <3>3. SubSeq(s, 1, Len(body)) \o SubSeq(s, Len(body) + 1, Len(s)) = s
        BY <3>1, <3>2, SplitList DEF Erase
      <3>4. SubSeq(s, 1, Len(body)) = body
        BY <1>3, <2>7, SubSeqOfConcat1, SubSeqFull
      <3>5. SubSeq(s, Len(body) + 1, Len(s)) = PacketList
        <4>1. SubSeq(s, Len(body) + 1, Len(s)) \in Seq(Payload)
          BY <3>1, <3>2, SplitList DEF Erase
        <4> QED BY <1>3, <3>3, <3>4, <4>1, ConcatSimplifications
      <3> HIDE DEF s
      <3> QED BY <2>3, <2>4, <2>5, <3>2, <3>4, <3>5 DEF Channel!Deliver, s
    <2> QED BY <2>6, <2>7
  <1>5. CASE d.id # NextId(cRecv)
    BY <1>2, <1>5, ChannelStutter DEF ClientReceive
  <1> QED BY <1>4, <1>5

\* Each step of the exchange is a step of the channel, or leaves it as it is.
LEMMA ChannelNext ==
  ~Reorder /\ InOrderInv /\ [Next]_vars => [Channel!Next]_(Channel!channelVars)
  <1> SUFFICES ASSUME ~Reorder, InOrderInv, [Next]_vars
               PROVE  Channel!Next \/ UNCHANGED Channel!channelVars
    OBVIOUS
  <1>1. CASE \/ ClientLogin \/ ClientSendNew \/ ClientSendAgain \/ ClientKeepAlive
             \/ LoseToServer \/ LoseToClient \/ UNCHANGED vars
    <2>1. UNCHANGED <<server_packet_id, server_packet_data, PacketList, cRecv, delivered>>
      BY <1>1 DEF ClientLogin, ClientSendNew, ClientSendAgain, SendBundle,
                  ClientKeepAlive, LoseToServer, LoseToClient, vars, serverVars, clientVars
    <2> QED BY <2>1, ChannelStutter
  <1>2. CASE PushPacket
    BY <1>2, ChannelPush DEF InOrderInv, Channel!Next
  <1>3. CASE \E again \in BOOLEAN : ServerStep(again)
    BY <1>3, ChannelLogin, ChannelReceive DEF ServerStep, Channel!Next
  <1>4. CASE \E again \in BOOLEAN : ClientStep(again)
    BY <1>4, ChannelDeliver DEF ClientStep, Channel!Next
  <1> QED BY <1>1, <1>2, <1>3, <1>4 DEF Next

\* do_sockets implements the channel: over a network that delivers in order,
\* whatever it loses or repeats, and for ids of any width, every pushed packet
\* is delivered once and in order.
THEOREM ImplementsChannel ==
  ASSUME ~Reorder
  PROVE  Spec => RefinesChannel
  BY InOrderInit, InOrderNext, ChannelInit, ChannelNext, PTL
     DEF Spec, RefinesChannel, Channel!Spec
-----------------------------------------------------------------------------
(***************************************************************************)
(* Commands, over a network that delivers in order, as long as the client's *)
(* ids have not wrapped: the filter of parse compares them as numbers.      *)
(***************************************************************************)
NotWrapped == MaxSeq < IdSpace

\* The commands handled are those up to the server's count of the client's
\* bundles; what the client still sends starts at the next one at the latest.
CommandInv ==
    /\ client_packet_id <= cSeq /\ cAcked <= client_packet_id
    /\ \A s \in Command : s >= 2 =>
         handled[s] = IF s <= client_packet_id THEN 1 ELSE 0
    /\ client_packet_id >= 1 <=> handled[1] > 0
    /\ \A i \in DOMAIN toServer :
         LET d == toServer[i] IN
         /\ d.login => d.first = 1 /\ d.last = 1 /\ client_packet_id <= 1
         /\ d.last <= cSeq /\ client_packet_id <= d.last
         /\ d.first <= client_packet_id + 1
    /\ \A i, j \in DOMAIN toServer : i < j => toServer[i].last <= toServer[j].last
    /\ \A i \in DOMAIN toClient : toClient[i].ack <= client_packet_id

\* Before the wrap an id is its command, and the filter lets the later ones by.
LEMMA NarrowIds ==
  ASSUME NotWrapped
  PROVE  /\ \A s \in 0..MaxSeq : Wire(s) = s
         /\ \A d \in ClientDatagram, last \in 0..MaxSeq : d.first <= last + 1 =>
              \A s \in Command : s \in Fresh(d, last) <=> last < s /\ s <= d.last
  <1>1. \A s \in 0..MaxSeq : Wire(s) = s
    BY IdSpaceAssumption, BoundsAssumption DEF NotWrapped, Wire
  <1>2. ASSUME NEW d \in ClientDatagram, NEW last \in 0..MaxSeq, d.first <= last + 1,
               NEW s \in Command
        PROVE  s \in Fresh(d, last) <=> last < s /\ s <= d.last
    <2>1. d.first \in 1..MaxSeq /\ d.last \in 1..MaxSeq /\ MaxSeq \in Nat
      BY BoundsAssumption DEF ClientDatagram, Command
    <2>2. s \in 1..MaxSeq /\ Wire(s) = s /\ Wire(d.last) = d.last
      BY <1>1, <2>1 DEF Command
    <2> QED BY <1>1, <1>2, <2>1, <2>2 DEF Fresh
  <1> QED BY <1>1, <1>2

LEMMA CommandInit == Init => CommandInv
  BY BoundsAssumption DEF Init, CommandInv, Command

LEMMA CommandImplies == InOrderInv /\ CommandInv => CommandsInOrder
  <1> SUFFICES ASSUME InOrderInv, CommandInv PROVE CommandsInOrder
    OBVIOUS
  <1>1. /\ cSeq \in 0..MaxSeq /\ cAcked \in 0..MaxSeq /\ client_packet_id \in Nat
        /\ MaxSeq \in Nat /\ \A s \in Command : handled[s] \in 0..2
    BY IdSpaceAssumption, BoundsAssumption DEF InOrderInv, TypeInv, TypeOK, Id
  <1>2. \A s \in 1..cSeq : s \in Command /\ (handled[s] > 0 <=> s <= client_packet_id)
    BY <1>1 DEF CommandInv, Command
  <1>3. \A s \in 2..cSeq : handled[s] <= 1
    BY <1>1 DEF CommandInv, Command
  <1> QED BY <1>1, <1>2, <1>3 DEF CommandInv, CommandsInOrder, AtMostOnce

\* The client sends what is not acknowledged yet, up to its last bundle.
\* The places of a queue a datagram has been sent on.
LEMMA SendPlaces ==
  ASSUME NEW D, NEW net \in Seq(D), NEW d \in D, NEW new \in Seq(D), new = Send(net, d)
  PROVE  /\ \A i \in DOMAIN new : (i \in DOMAIN net /\ new[i] = net[i]) \/ new[i] = d
         /\ \A i, j \in DOMAIN new : i < j => i \in DOMAIN net /\ new[i] = net[i]
  <1>1. \/ new = net
        \/ /\ Len(new) = Len(net) + 1
           /\ \A i \in 1..Len(net) : new[i] = net[i]
           /\ new[Len(net) + 1] = d
    BY ZenonT(30), SendFacts
  <1>2. CASE new = net
    BY <1>2
  <1>3. CASE /\ Len(new) = Len(net) + 1
             /\ \A i \in 1..Len(net) : new[i] = net[i]
             /\ new[Len(net) + 1] = d
    BY <1>3
  <1> QED BY <1>1, <1>2, <1>3

LEMMA CommandClientSend ==
  ASSUME InOrderInv, CommandInv, TypeInv', NEW d \in ClientDatagram,
         toServer' = Send(toServer, d), UNCHANGED <<serverVars, cAcked, toClient>>,
         cSeq <= cSeq', d.last = cSeq', d.first <= client_packet_id + 1,
         d.login => d.first = 1 /\ d.last = 1
  PROVE  CommandInv'
  <1>1. toServer \in Seq(ClientDatagram) /\ toServer' \in Seq(ClientDatagram)
    BY SendFacts DEF InOrderInv, TypeInv, TypeOK
  <1>2. /\ cSeq \in Nat /\ cSeq' \in Nat /\ client_packet_id \in Nat
        /\ client_packet_id' = client_packet_id /\ handled' = handled /\ cAcked' = cAcked
        /\ client_packet_id <= cSeq'
        /\ \A i \in DOMAIN toServer : toServer[i].last \in Nat
    <2>1. cSeq \in Nat /\ cSeq' \in Nat /\ client_packet_id \in Nat
      BY IdSpaceAssumption, BoundsAssumption DEF InOrderInv, TypeInv, TypeOK, Id
    <2>2. /\ client_packet_id' = client_packet_id /\ handled' = handled /\ cAcked' = cAcked
          /\ client_packet_id <= cSeq
      BY DEF CommandInv, serverVars
    <2>3. \A i \in DOMAIN toServer : toServer[i] \in ClientDatagram
      BY <1>1
    <2>4. \A i \in DOMAIN toServer : toServer[i].last \in Nat
      BY <2>3, BoundsAssumption DEF ClientDatagram, Command
    <2>5. client_packet_id <= cSeq'
      BY <2>1, <2>2
    <2> QED BY <2>1, <2>2, <2>4, <2>5
  <1>3. \A i \in DOMAIN toServer' :
          \/ i \in DOMAIN toServer /\ toServer'[i] = toServer[i]
          \/ toServer'[i] = d
    BY <1>1, SendPlaces
  <1>4. \A i, j \in DOMAIN toServer' : i < j =>
          i \in DOMAIN toServer /\ toServer'[i] = toServer[i]
    BY <1>1, SendPlaces
  <1>5. \A i \in DOMAIN toServer' :
          /\ toServer'[i].login => /\ toServer'[i].first = 1 /\ toServer'[i].last = 1
                                   /\ client_packet_id <= 1
          /\ toServer'[i].last <= cSeq' /\ client_packet_id <= toServer'[i].last
          /\ toServer'[i].first <= client_packet_id + 1
    BY <1>2, <1>3 DEF CommandInv
  <1>6. \A i, j \in DOMAIN toServer' : i < j => toServer'[i].last <= toServer'[j].last
    BY <1>2, <1>3, <1>4 DEF CommandInv
  <1> QED BY <1>2, <1>5, <1>6 DEF CommandInv

\* A datagram taken off the queue to the server, which has gone on to count m.
LEMMA CommandTaken ==
  ASSUME CommandInv, NEW k \in {0, 1}, toServer' \in Seq(ClientDatagram),
         \A j \in DOMAIN toServer' :
           j + k \in DOMAIN toServer /\ toServer'[j] = toServer[j + k]
  PROVE  /\ \A j \in DOMAIN toServer' :
              \E i \in DOMAIN toServer : toServer'[j] = toServer[i]
         /\ \A i, j \in DOMAIN toServer' :
              i < j => toServer'[i].last <= toServer'[j].last
  <1>1. \A i, j \in DOMAIN toServer' : i < j => i + k < j + k
    OBVIOUS
  <1> QED BY <1>1 DEF CommandInv

\* What parse does with the commands of the first datagram.
LEMMA CommandServer ==
  ASSUME ~Reorder, NotWrapped, InOrderInv, CommandInv, TypeInv',
         NEW i \in Arriving(toServer), NEW again \in BOOLEAN,
         ServerLogin(i, again) \/ ServerReceive(i, again)
  PROVE  CommandInv'
  <1> DEFINE d == toServer[i]
             c == client_packet_id
  <1>1. /\ toServer \in Seq(ClientDatagram) /\ toClient \in Seq(ServerDatagram)
        /\ toServer' \in Seq(ClientDatagram) /\ c \in Nat /\ cSeq \in 0..MaxSeq
        /\ cAcked \in Nat /\ MaxSeq \in Nat /\ handled \in [Command -> 0..2]
        /\ 1 \in Command /\ Command = 1..MaxSeq
    BY IdSpaceAssumption, BoundsAssumption DEF InOrderInv, TypeInv, TypeOK, Id, Command
  <1>2. i = 1 /\ 1 \in DOMAIN toServer /\ d \in ClientDatagram
    BY <1>1, RemainsType DEF Arriving
  <1>3. /\ d.first \in 1..MaxSeq /\ d.last \in 1..MaxSeq
        /\ \A j \in DOMAIN toServer : toServer[j].last \in 1..MaxSeq
        /\ \A j \in DOMAIN toServer : toServer[j].first \in 1..MaxSeq
        /\ \A j \in DOMAIN toClient : toClient[j].ack \in Nat
    <2>1. d.first \in Command /\ d.last \in Command
      BY <1>2 DEF ClientDatagram
    <2>2. \A j \in DOMAIN toServer : toServer[j] \in ClientDatagram
      BY <1>1
    <2>3. \A j \in DOMAIN toClient : toClient[j] \in ServerDatagram
      BY <1>1
    <2>4. \A j \in DOMAIN toServer : toServer[j].last \in Command /\ toServer[j].first \in Command
      BY <2>2 DEF ClientDatagram
    <2>5. \A j \in DOMAIN toClient : toClient[j].ack \in Nat
      BY <2>3, IdSpaceAssumption DEF ServerDatagram, Id
    <2> QED BY <1>1, <2>1, <2>4, <2>5
  <1>4. UNCHANGED <<cSeq, cAcked>> /\ toServer' = Remains(toServer, i, again)
    BY DEF ServerLogin, ServerReceive, clientVars
  <1>5. PICK k \in {0, 1} : \A j \in DOMAIN toServer' :
           j + k \in DOMAIN toServer /\ toServer'[j] = toServer[j + k]
    BY <1>1, <1>4, RemainsInOrder
  <1>6. /\ c <= d.last /\ d.last <= cSeq /\ d.first <= c + 1 /\ cAcked <= c
        /\ \A j \in DOMAIN toServer : d.last <= toServer[j].last
    <2>1. \A j \in DOMAIN toServer : j = 1 \/ 1 < j
      BY <1>1
    <2>2. \A j \in DOMAIN toServer : toServer[1].last <= toServer[j].last
      BY <1>2, <1>3, <2>1 DEF CommandInv
    <2> QED BY <1>2, <2>2 DEF CommandInv
  <1>7. Wire(d.last) = d.last
    BY <1>1, <1>3, NarrowIds
  \* The two handlers differ in the count they compare with.
  <1>8. PICK cid \in {0, c}, sid \in Id, list \in Seq(Payload) :
          /\ Answer(d, cid, sid, list)
          /\ cid = c \/ (c <= 1 /\ d.login /\ d.first = 1 /\ d.last = 1)
    <2>1. CASE ServerLogin(i, again)
      <3>1. <<ZoneIn>> \in Seq(Payload)
        BY BoundsAssumption DEF ZoneIn, Payload
      <3> QED BY <1>2, <2>1, <3>1, IdFacts DEF ServerLogin, CommandInv
    <2>2. CASE ServerReceive(i, again)
      BY <2>2 DEF ServerReceive, InOrderInv, TypeInv, TypeOK
    <2> QED BY <2>1, <2>2
  <1>9. /\ client_packet_id' = d.last /\ server_packet_data'.ack = d.last
        /\ toClient' = Send(toClient, server_packet_data')
        /\ \A s \in Command : handled'[s] = IF s \in Fresh(d, cid) THEN Again(handled[s])
                                            ELSE handled[s]
    <2>1. server_packet_data'.ack = Wire(d.last)
      <3>1. CASE HasLast(d, sid)
        BY <1>8, <3>1 DEF Answer
      <3>2. CASE ~HasLast(d, sid)
        <4>1. server_packet_data' = [server_packet_data EXCEPT !.ack = Wire(d.last)]
          BY <1>8, <3>2 DEF Answer
        <4>2. server_packet_data \in ServerDatagram
          BY DEF InOrderInv, TypeInv, TypeOK
        <4> QED BY <4>1, <4>2 DEF ServerDatagram
      <3> QED BY <3>1, <3>2
    <2> QED BY <1>7, <1>8, <2>1 DEF Answer
  <1> HIDE DEF d, c
  <1>10. \A s \in Command : s \in Fresh(d, cid) <=> cid < s /\ s <= d.last
    <2>1. cid \in 0..MaxSeq /\ d.first <= cid + 1
      BY <1>1, <1>3, <1>6, <1>8
    <2> QED BY <1>2, <2>1, NarrowIds
  <1>11. \A s \in Command : s >= 2 => handled'[s] = IF s <= d.last THEN 1 ELSE 0
    <2> SUFFICES ASSUME NEW s \in Command, s >= 2
                 PROVE  handled'[s] = IF s <= d.last THEN 1 ELSE 0
      OBVIOUS
    <2>1. handled[s] = IF s <= c THEN 1 ELSE 0
      BY DEF CommandInv, c
    <2>2. s \in Nat
      BY <1>1
    <2>3. s \in Fresh(d, cid) <=> c < s /\ s <= d.last
      BY <1>1, <1>3, <1>8, <1>10, <2>2
    <2> QED BY <1>1, <1>3, <1>6, <1>9, <2>1, <2>2, <2>3 DEF Again
  <1>12. handled'[1] > 0
    <2>1. CASE 1 \in Fresh(d, cid)
      BY <1>1, <1>9, <2>1 DEF Again
    <2>2. CASE 1 \notin Fresh(d, cid)
      <3>1. ~ (cid < 1)
        BY <1>1, <1>3, <1>10, <2>2
      <3>2. c >= 1
        BY <1>1, <1>8, <3>1
      <3> QED BY <1>1, <1>9, <2>2, <3>2 DEF CommandInv, c
    <2> QED BY <2>1, <2>2
  <1>13. \A j \in DOMAIN toServer' :
          /\ toServer'[j].login => /\ toServer'[j].first = 1 /\ toServer'[j].last = 1
                                   /\ d.last <= 1
          /\ toServer'[j].last <= cSeq /\ d.last <= toServer'[j].last
          /\ toServer'[j].first <= d.last + 1
    <2> SUFFICES ASSUME NEW j \in DOMAIN toServer
                 PROVE  /\ toServer[j].login => /\ toServer[j].first = 1 /\ toServer[j].last = 1
                                                /\ d.last <= 1
                        /\ toServer[j].last <= cSeq /\ d.last <= toServer[j].last
                        /\ toServer[j].first <= d.last + 1
      BY <1>5
    <2>1. /\ toServer[j].login => toServer[j].first = 1 /\ toServer[j].last = 1
          /\ toServer[j].last <= cSeq /\ toServer[j].first <= c + 1
      BY DEF CommandInv, c
    <2> QED BY <1>1, <1>3, <1>6, <2>1
  <1>14. \A l, j \in DOMAIN toServer' : l < j => toServer'[l].last <= toServer'[j].last
    BY <1>1, <1>5, CommandTaken
  <1>15. \A j \in DOMAIN toClient' : toClient'[j].ack <= d.last
    <2>1. server_packet_data' \in ServerDatagram
      BY DEF TypeInv, TypeOK
    <2>2. \A j \in DOMAIN toClient' :
            \/ j \in DOMAIN toClient /\ toClient'[j] = toClient[j]
            \/ toClient'[j] = server_packet_data'
      <3>1. toClient' \in Seq(ServerDatagram)
        BY DEF TypeInv, TypeOK
      <3> DEFINE new == toClient'
      <3>2. new \in Seq(ServerDatagram) /\ new = Send(toClient, server_packet_data')
        BY <1>9, <3>1
      <3> HIDE DEF new
      <3>3. \A j \in DOMAIN new :
              (j \in DOMAIN toClient /\ new[j] = toClient[j]) \/ new[j] = server_packet_data'
        BY <1>1, <2>1, <3>2, SendPlaces
      <3> QED BY <3>3 DEF new
    <2>3. \A j \in DOMAIN toClient : toClient[j].ack <= c
      BY DEF CommandInv, c
    <2> QED BY <1>1, <1>3, <1>6, <1>9, <2>2, <2>3
  <1>16. d.last <= cSeq /\ cAcked <= d.last /\ d.last >= 1
    BY <1>1, <1>3, <1>6
  <1> QED BY <1>4, <1>9, <1>11, <1>12, <1>13, <1>14, <1>15, <1>16 DEF CommandInv

\* The client takes an acknowledgement of what the server has counted.
LEMMA CommandClientReceive ==
  ASSUME ~Reorder, NotWrapped, InOrderInv, CommandInv, TypeInv',
         NEW i \in Arriving(toClient), NEW again \in BOOLEAN, ClientReceive(i, again)
  PROVE  CommandInv'
  <1>1. /\ toClient \in Seq(ServerDatagram) /\ cSeq \in 0..MaxSeq /\ cAcked \in 0..MaxSeq
        /\ MaxSeq \in Nat
    BY BoundsAssumption DEF InOrderInv, TypeInv, TypeOK
  <1>2. i \in DOMAIN toClient
    BY <1>1, RemainsType
  <1>3. UNCHANGED <<serverVars, cSeq, toServer>> /\ toClient' = Remains(toClient, i, again)
    BY DEF ClientReceive
  <1>4. cAcked' <= client_packet_id
    <2>1. CASE {s \in cAcked + 1..cSeq : Wire(s) = toClient[i].ack} = {}
      <3>1. cAcked' \in {cAcked}
        BY <2>1 DEF ClientReceive
      <3> QED BY <3>1 DEF CommandInv
    <2>2. CASE {s \in cAcked + 1..cSeq : Wire(s) = toClient[i].ack} # {}
      <3>1. cAcked' \in cAcked + 1..cSeq /\ Wire(cAcked') = toClient[i].ack
        BY <2>2 DEF ClientReceive
      <3>2. Wire(cAcked') = cAcked'
        BY <1>1, <3>1, NarrowIds
      <3>3. toClient[i].ack <= client_packet_id
        BY <1>2 DEF CommandInv
      <3>4. cAcked' = toClient[i].ack
        BY <3>1, <3>2
      <3> QED BY <3>3, <3>4, Zenon
    <2> QED BY <2>1, <2>2
  <1>5. \A j \in DOMAIN toClient' : toClient'[j].ack <= client_packet_id
    <2>1. PICK k \in {0, 1} : \A j \in DOMAIN toClient' :
             j + k \in DOMAIN toClient /\ toClient'[j] = toClient[j + k]
      BY <1>1, <1>3, RemainsInOrder
    <2> QED BY <2>1 DEF CommandInv
  <1> QED BY <1>3, <1>4, <1>5 DEF CommandInv, serverVars

LEMMA CommandNext ==
  ASSUME ~Reorder, NotWrapped
  PROVE  InOrderInv /\ CommandInv /\ [Next]_vars => CommandInv'
  <1> SUFFICES ASSUME InOrderInv, CommandInv, [Next]_vars PROVE CommandInv'
    OBVIOUS
  <1>1. TypeInv'
    BY TypeNext DEF InOrderInv
  <1>2. /\ cSeq \in 0..MaxSeq /\ cAcked \in 0..MaxSeq /\ client_packet_id \in Nat
        /\ cRecv \in Id /\ MaxSeq \in Nat /\ MaxSeq >= 1 /\ cAcked <= cSeq
        /\ client_packet_id <= cSeq /\ cAcked <= client_packet_id
    BY IdSpaceAssumption, BoundsAssumption
       DEF InOrderInv, TypeInv, TypeOK, Id, Beginning, CommandInv
  <1>3. CASE ClientLogin
    <2>1. [login |-> TRUE, first |-> 1, last |-> 1, ack |-> 0] \in ClientDatagram
      BY <1>2, IdFacts DEF ClientDatagram, Command
    <2>2. cSeq <= cSeq' /\ cSeq' = 1
      BY <1>2, <1>3 DEF ClientLogin, InOrderInv, TypeInv, Beginning
    <2>3. 1 <= client_packet_id + 1
      BY <1>2
    <2> QED BY <1>1, <1>3, <2>1, <2>2, <2>3, CommandClientSend DEF ClientLogin
  <1>4. ASSUME NEW f \in Command, NEW l \in Command, f <= client_packet_id + 1,
               toServer' = Send(toServer, [login |-> FALSE, first |-> f,
                                           last |-> l, ack |-> cRecv]),
               cSeq' = l, cSeq <= l, UNCHANGED <<serverVars, cAcked, toClient>>
        PROVE  CommandInv'
    <2>1. [login |-> FALSE, first |-> f, last |-> l, ack |-> cRecv] \in ClientDatagram
      BY <1>2 DEF ClientDatagram
    <2> QED BY <1>1, <1>4, <2>1, CommandClientSend
  <1>5. CASE ClientSendNew
    <2>1. /\ cAcked + 1 \in Command /\ cSeq + 1 \in Command
          /\ cAcked + 1 <= client_packet_id + 1 /\ cSeq <= cSeq + 1
      BY <1>2, <1>5 DEF ClientSendNew, Command
    <2> QED BY <1>4, <1>5, <2>1 DEF ClientSendNew, SendBundle
  <1>6. CASE ClientSendAgain
    <2>1. /\ cAcked + 1 \in Command /\ cSeq \in Command
          /\ cAcked + 1 <= client_packet_id + 1 /\ cSeq <= cSeq
      BY <1>2, <1>6 DEF ClientSendAgain, Command
    <2> QED BY <1>4, <1>6, <2>1 DEF ClientSendAgain, SendBundle
  <1>7. CASE ClientKeepAlive
    <2>1. cSeq \in Command /\ cSeq <= client_packet_id + 1 /\ cSeq <= cSeq
      BY <1>2, <1>7 DEF ClientKeepAlive, Command, InOrderInv, TypeInv, Beginning
    <2> QED BY <1>4, <1>7, <2>1 DEF ClientKeepAlive, clientVars
  <1>8. CASE \E again \in BOOLEAN : ServerStep(again)
    BY <1>1, <1>8, CommandServer DEF ServerStep
  <1>9. CASE \E again \in BOOLEAN : ClientStep(again)
    BY <1>1, <1>9, CommandClientReceive DEF ClientStep
  <1>10. CASE PushPacket
    BY <1>10 DEF PushPacket, CommandInv, clientVars
  <1>11. CASE LoseToServer
    <2>1. PICK i \in Arriving(toServer) : toServer' = Without(toServer, i)
      BY <1>11 DEF LoseToServer
    <2>2. toServer \in Seq(ClientDatagram) /\ toServer' \in Seq(ClientDatagram)
      BY <1>1 DEF InOrderInv, TypeInv, TypeOK
    <2>3. PICK k \in {0, 1} : \A j \in DOMAIN toServer' :
             j + k \in DOMAIN toServer /\ toServer'[j] = toServer[j + k]
      BY <2>1, <2>2, WithoutInOrder
    <2>4. UNCHANGED <<serverVars, clientVars, toClient>>
      BY <1>11 DEF LoseToServer
    <2> QED BY SMTT(20), <2>2, <2>3, <2>4, CommandTaken DEF CommandInv, serverVars, clientVars
  <1>12. CASE LoseToClient
    <2>1. PICK i \in Arriving(toClient) : toClient' = Without(toClient, i)
      BY <1>12 DEF LoseToClient
    <2>2. toClient \in Seq(ServerDatagram)
      BY DEF InOrderInv, TypeInv, TypeOK
    <2>3. PICK k \in {0, 1} : \A j \in DOMAIN toClient' :
             j + k \in DOMAIN toClient /\ toClient'[j] = toClient[j + k]
      BY <2>1, <2>2, WithoutInOrder
    <2>4. UNCHANGED <<serverVars, clientVars, toServer>>
      BY <1>12 DEF LoseToClient
    <2> QED BY <2>3, <2>4 DEF CommandInv, serverVars, clientVars
  <1>13. CASE UNCHANGED vars
    BY <1>13 DEF vars, serverVars, clientVars, CommandInv
  <1> QED BY <1>3, <1>5, <1>6, <1>7, <1>8, <1>9, <1>10, <1>11, <1>12, <1>13 DEF Next

\* However often the client sends a command, its handler runs once, none runs
\* before an earlier one, and one that was acknowledged has run: the filter of
\* parse, as long as the ids of the client have not wrapped.
THEOREM CommandsInOrderAlways ==
  ASSUME ~Reorder, NotWrapped
  PROVE  Spec => []CommandsInOrder
  BY InOrderInit, InOrderNext, CommandInit, CommandNext, CommandImplies, PTL DEF Spec
=============================================================================
