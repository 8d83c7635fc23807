---------------------------- MODULE ReadinessProofs ----------------------------
(***************************************************************************)
(* What the results of poll() are still worth when the handlers use them.  *)
(* The lemmas first say what a step does to each connection that is in its *)
(* list after the step; the invariants and the action properties follow    *)
(* from that.                                                              *)
(***************************************************************************)
EXTENDS AnswerProofs

ConnectedClients == ToSet(clientsConnections)
ConnectedServers == ToSet(serversConnections)

ClientSlot(c) == poll.pollList[ClientIdx(c)]
ServerSlot(s) == poll.pollList[ServerIdx(s)]

(* Some client left while it was waiting: its index may by now be another's. *)
SomebodyLeft ==
  \E k \in DOMAIN clientsWaitingForResponse :
    \E w \in clientsWaitingForResponse[k] : w \notin ConnectedClients

(* The other end p of a connection may have moved on to q. *)
Grows(q, p) == q.sent >= p.sent /\ (p.fin => q.fin) /\ (p.rst => q.rst)

--------------------------------------------------------------------------------
(* What a step may do to a client connection.                                   *)

ClientKept(c) ==
  /\ c \in ConnectedClients
  /\ client'[c] = client[c]
  /\ Grows(peer'[c], peer[c])
  /\ ClientSlot(c)'.events = ClientSlot(c).events
  /\ ClientSlot(c)'.revents = ClientSlot(c).revents

ClientReported(c) ==
  /\ c \in ConnectedClients
  /\ client'[c] = client[c]
  /\ peer'[c] = peer[c]
  /\ ClientSlot(c)'.events = ClientSlot(c).events
  /\ ClientSlot(c)'.revents =
       SocketReadiness(peer[c], client[c].received, ClientSlot(c).events)

ClientAccepted(c) ==
  /\ c \in ToSet(backlog) /\ c \notin ConnectedClients
  /\ \E idx : client'[c] = NewClient(idx)
  /\ peer'[c] = peer[c]
  /\ ClientSlot(c)'.events = {"POLLIN"}
  /\ ClientSlot(c)'.revents = {}

(* What a turn of c does to its object, and the events it leaves. *)
QuietTurn(c) ==
  client'[c] = client[c] /\ ClientSlot(c)'.events = ClientSlot(c).events

ReceivingTurn(c) ==
  /\ Idle(client[c])
  /\ \E n \in 1..Available(peer[c], client[c].received) :
       client'[c] = PartOfRequest(client[c], n)
  /\ ClientSlot(c)'.events = ClientSlot(c).events

EnrollingTurn(c) ==
  /\ Idle(client[c])
  /\ Waiting(client'[c])
  /\ ReqLen =< peer[c].sent
  /\ ClientSlot(c)'.events = {}

AnsweringTurn(c) ==
  /\ Idle(client[c])
  /\ Answered(client'[c])
  /\ client'[c].received = ReqLen
  /\ ReqLen =< peer[c].sent
  /\ ClientSlot(c)'.events = {"POLLOUT"}

SendingTurn(c) ==
  /\ Answered(client[c])
  /\ \E n \in Nat : client'[c] = AnswerPartSent(client[c], n)
  /\ ClientSlot(c)'.events = ClientSlot(c).events

ClientServed(c) ==
  /\ c \in ConnectedClients
  /\ peer'[c] = peer[c]
  /\ ClientSlot(c)'.revents = {}
  /\ \/ QuietTurn(c) \/ ReceivingTurn(c) \/ EnrollingTurn(c)
     \/ AnsweringTurn(c) \/ SendingTurn(c)

(* The fetch that c waits for has ended. *)
ClientWoken(c) ==
  /\ c \in ConnectedClients
  /\ client[c].connectionState = "PROCESSING_REQUEST"
  /\ \E answer \in Answers : client'[c] = InitializeAnswerSending(client[c], answer)
  /\ peer'[c] = peer[c]
  /\ ClientSlot(c)'.events = {"POLLOUT"}
  /\ ClientSlot(c)'.revents = ClientSlot(c).revents

(* c has the index of a client that left while it was waiting for that fetch. *)
ClientDisturbed(c) ==
  /\ SomebodyLeft
  /\ c \in ConnectedClients
  /\ client'[c] = client[c]
  /\ peer'[c] = peer[c]
  /\ ClientSlot(c)'.events = {"POLLOUT"}
  /\ ClientSlot(c)'.revents = ClientSlot(c).revents

ClientEffect(c) ==
  \/ ClientKept(c) \/ ClientReported(c) \/ ClientAccepted(c) \/ ClientServed(c)
  \/ ClientWoken(c) \/ ClientDisturbed(c)

--------------------------------------------------------------------------------
(* What a step may do to a server connection.                                   *)

ServerKept(s) ==
  /\ s \in ConnectedServers
  /\ server'[s] = server[s]
  /\ Grows(origin'[s], origin[s])
  /\ ServerSlot(s)'.events = ServerSlot(s).events
  /\ ServerSlot(s)'.revents = ServerSlot(s).revents

ServerReported(s) ==
  /\ s \in ConnectedServers
  /\ server'[s] = server[s]
  /\ origin'[s] = origin[s]
  /\ ServerSlot(s)'.events = ServerSlot(s).events
  /\ ServerSlot(s)'.revents =
       SocketReadiness(origin[s], server[s].recvLen, ServerSlot(s).events)

ServerOpened(s) ==
  /\ s \notin ConnectedServers
  /\ \E idx, request : server'[s] = NewServer(idx, request)
  /\ origin'[s] \in Origins
  /\ ServerSlot(s)'.events = {"POLLOUT"}
  /\ ServerSlot(s)'.revents = {}

UneventfulTurn(s) ==
  server'[s] = server[s] /\ ServerSlot(s)'.events = ServerSlot(s).events

(* What was taken for the end of the forwarding, after it. *)
RepeatedTurn(s) ==
  /\ server[s].connectionState = "RECEIVING_ANSWER"
  /\ server'[s] = server[s]
  /\ ServerSlot(s)'.events = {"POLLIN"}

ForwardingTurn(s) ==
  \E n \in SendTakes(ReqLen - server[s].sendRequestOffset) :
    /\ server'[s] = RequestSent(server[s], n)
    /\ ServerSlot(s)'.events = IF server[s].sendRequestOffset + n = ReqLen
                               THEN {"POLLIN"} ELSE ServerSlot(s).events

FetchingTurn(s) ==
  /\ "POLLIN" \in ServerSlot(s).revents
  /\ \E n \in 1..Available(origin[s], server[s].recvLen) :
       server'[s] = AnswerReceived(server[s], n)
  /\ ServerSlot(s)'.events = ServerSlot(s).events

ServerServed(s) ==
  /\ s \in ConnectedServers
  /\ origin'[s] = origin[s]
  /\ ServerSlot(s)'.revents = {}
  /\ UneventfulTurn(s) \/ RepeatedTurn(s) \/ ForwardingTurn(s) \/ FetchingTurn(s)

ServerDisturbed(s) ==
  /\ SomebodyLeft
  /\ s \in ConnectedServers
  /\ server'[s] = server[s]
  /\ origin'[s] = origin[s]
  /\ ServerSlot(s)'.events = {"POLLOUT"}
  /\ ServerSlot(s)'.revents = ServerSlot(s).revents

ServerEffect(s) ==
  \/ ServerKept(s) \/ ServerReported(s) \/ ServerOpened(s) \/ ServerServed(s)
  \/ ServerDisturbed(s)

Effects ==
  /\ \A c \in ConnectedClients' : ClientEffect(c)
  /\ \A s \in ConnectedServers' : ServerEffect(s)

--------------------------------------------------------------------------------
(* The steps have these effects.                                                *)

LEMMA StillStands ==
  ASSUME NEW p
  PROVE  p.sent \in Nat => Grows(p, p)
BY DEF Grows

(* What each end has sent is a number. *)
LEMMA Ends ==
  ASSUME TypeOK
  PROVE  /\ \A c \in Clients : peer[c] \in Peers /\ Grows(peer[c], peer[c])
         /\ \A s \in Servers : origin[s] \in Origins /\ Grows(origin[s], origin[s])
<1>1. \A c \in Clients : peer[c] \in Peers /\ peer[c].sent \in Nat
  BY MessagesAssumption DEF TypeOK, Peers
<1>2. \A s \in Servers : origin[s] \in Origins /\ origin[s].sent \in Nat
  BY MessagesAssumption DEF TypeOK, Origins
<1>. QED  BY <1>1, <1>2, StillStands

(* The ends move, the thread does not touch what is connected. *)
LEMMA EndsMove ==
  ASSUME Inv, UNCHANGED <<poll, lists, client, server>>,
         \A c \in ConnectedClients : Grows(peer'[c], peer[c]),
         \A s \in ConnectedServers : Grows(origin'[s], origin[s])
  PROVE  Effects
<1>1. ConnectedClients' = ConnectedClients /\ ConnectedServers' = ConnectedServers
  BY DEF ConnectedClients, ConnectedServers, lists
<1>2. \A c \in ConnectedClients : ClientKept(c)
  BY DEF ClientKept, ClientSlot, ClientIdx
<1>3. \A s \in ConnectedServers : ServerKept(s)
  BY DEF ServerKept, ServerSlot, ServerIdx
<1>. QED  BY <1>1, <1>2, <1>3 DEF Effects, ClientEffect, ServerEffect

LEMMA NothingMoves ==
  ASSUME Inv, UNCHANGED <<poll, lists, client, server, peer, origin>>
  PROVE  Effects
<1>1. ToSet(clientsConnections) \subseteq Clients /\ ToSet(serversConnections) \subseteq Servers
  BY InToSet DEF Inv, TypeOK
<1>. QED  BY <1>1, Ends, EndsMove DEF Inv, ConnectedClients, ConnectedServers

LEMMA MovesOfEnds ==
  ASSUME Inv, \/ \E c \in Clients : MoveOfClient(c)
              \/ \E s \in Servers : MoveOfOrigin(s)
  PROVE  Effects
<1>1. /\ TypeOK
      /\ ConnectedClients \subseteq Clients /\ ConnectedServers \subseteq Servers
      /\ peer \in [Clients -> Peers] /\ origin \in [Servers -> Origins]
      /\ \A c \in ConnectedClients : peer[c].open
      /\ \A c \in Clients : Grows(peer[c], peer[c])
      /\ \A s \in Servers : Grows(origin[s], origin[s])
  BY InToSet, Ends DEF Inv, TypeOK, AcceptInv, ConnectedClients, ConnectedServers
<1>2. ASSUME NEW c \in Clients, NEW request, Connect(c, request)  PROVE  Effects
  <2>1. /\ c \notin ConnectedClients
        /\ UNCHANGED <<poll, lists, client, server, origin>>
        /\ \A d \in ConnectedClients : peer'[d] = peer[d]
    BY <1>1, <1>2 DEF Connect, lists
  <2>. QED  BY <1>1, <2>1, EndsMove
<1>3. ASSUME NEW c \in Clients, OnlyPeer,
             \/ \E n \in (peer[c].sent + 1)..SentAtMost : peer' = [peer EXCEPT ![c].sent = n]
             \/ peer' = [peer EXCEPT ![c].fin = TRUE]
             \/ peer' = [peer EXCEPT ![c].rst = TRUE]
             \/ \E x : peer' = [peer EXCEPT ![c].stalled = x]
      PROVE  Effects
  <2>1. UNCHANGED <<poll, lists, client, server, origin>>
    BY <1>3 DEF OnlyPeer
  <2>2. peer[c] \in Peers /\ peer[c].sent \in Nat /\ SentAtMost \in Nat
    BY <1>1, MessagesAssumption DEF Peers, SentAtMost
  <2>3. Grows(peer'[c], peer[c]) /\ \A d \in Clients \ {c} : peer'[d] = peer[d]
    BY <1>1, <1>3, <2>2 DEF Grows, Peers
  <2>. QED  BY <1>1, <2>1, <2>3, EndsMove
<1>4. ASSUME NEW s \in Servers, MoveOfOrigin(s)  PROVE  Effects
  <2>1. UNCHANGED <<poll, lists, client, server, peer>>
    BY <1>4 DEF MoveOfOrigin, OriginSends, OriginCloses, OriginResets, OnlyOrigin
  <2>2. \/ \E n \in (origin[s].sent + 1)..RespLen : origin' = [origin EXCEPT ![s].sent = n]
        \/ origin' = [origin EXCEPT ![s].fin = TRUE]
        \/ origin' = [origin EXCEPT ![s].rst = TRUE]
    BY <1>4 DEF MoveOfOrigin, OriginSends, OriginCloses, OriginResets
  <2>3. origin[s] \in Origins /\ origin[s].sent \in Nat /\ RespLen \in Nat
    BY <1>1, MessagesAssumption DEF Origins
  <2>4. \A t \in Servers \ {s} : origin'[t] = origin[t]
    BY <1>1, <2>2
  <2>5. Grows(origin'[s], origin[s])
    <3>1. ASSUME NEW n \in (origin[s].sent + 1)..RespLen,
                 origin' = [origin EXCEPT ![s].sent = n]
          PROVE  Grows(origin'[s], origin[s])
      <4>1. /\ origin'[s].sent = n
            /\ origin'[s].fin = origin[s].fin /\ origin'[s].rst = origin[s].rst
        BY <1>1, <2>3, <3>1 DEF Origins
      <4>2. n >= origin[s].sent
        BY <2>3
      <4>. QED  BY <4>1, <4>2 DEF Grows
    <3>2. CASE \/ origin' = [origin EXCEPT ![s].fin = TRUE]
               \/ origin' = [origin EXCEPT ![s].rst = TRUE]
      <4>1. /\ origin'[s].sent = origin[s].sent
            /\ origin[s].fin => origin'[s].fin
            /\ origin[s].rst => origin'[s].rst
        BY <1>1, <2>3, <3>2 DEF Origins
      <4>. QED  BY <2>3, <4>1 DEF Grows
    <3>. QED  BY <2>2, <3>1, <3>2
  <2>. QED  BY <1>1, <2>1, <2>4, <2>5, EndsMove
<1>. QED
  BY <1>2, <1>3, <1>4 DEF MoveOfClient, ClientSends, ClientCloses, ClientResets,
     ClientStalls, ClientReadsAgain

LEMMA ThreadGoesOn ==
  ASSUME Inv, \/ ConstructFails \/ CheckInterrupt \/ EnterPoll
              \/ AcceptFails \/ NothingToAccept
              \/ ClientsDone \/ ServersDone \/ SignalArrives \/ Ended \/ UNCHANGED vars
              \/ \E c \in Clients : SendAnswerKillsProcess(c) \/ ParseRequestKillsProcess(c)
              \/ \E s \in Servers : ForwardRequestKillsProcess(s) \/ ParseAnswerKillsProcess(s)
  PROVE  Effects
<1>1. UNCHANGED <<poll, lists, client, server, env>>
  BY DEF ConstructFails, CheckInterrupt, EnterPoll, AcceptFails, NothingToAccept, ClientsDone,
     ServersDone, SignalArrives, Ended, vars, SendAnswerKillsProcess, ForwardRequestKillsProcess,
     ParseRequestKillsProcess, ParseAnswerKillsProcess
<1>. QED  BY <1>1, NothingMoves DEF env

LEMMA NobodyConnected ==
  ASSUME Inv, Construct
  PROVE  Effects
<1>1. clientsConnections' = <<>> /\ serversConnections' = <<>>
  BY DEF Construct, Inv, AcceptInv, Nothing, lists
<1>. QED  BY <1>1, EmptyList DEF Effects, ConnectedClients, ConnectedServers

(* poll() reports for each connection what its socket is ready for. *)
LEMMA PollReports ==
  ASSUME Inv, PollReturns
  PROVE  Effects
<1>. DEFINE revents == [i \in Slots |-> Readiness(poll.pollList[i])]
<1>1. /\ TypeOK /\ TableInv
      /\ poll' = WithRevents(poll, revents)
      /\ UNCHANGED <<lists, client, server, env>>
  BY DEF PollReturns, Inv, Nothing
<1>2. /\ poll \in PollTables(Fds)
      /\ \A i \in Slots : poll.pollList[i].events \in SUBSET Events
      /\ ConnectedClients \subseteq Clients /\ ConnectedServers \subseteq Servers
      /\ \A c \in Clients : ClientIdx(c) \in Slots
      /\ \A s \in Servers : ServerIdx(s) \in Slots
  BY <1>1, Places DEF PollTables, ConnectedClients, ConnectedServers
<1>3. revents \in [Slots -> SUBSET Revents]
  BY <1>2, ReadinessOfSlot
<1>4. \A i \in Slots : revents[i] = Readiness(poll.pollList[i])
  OBVIOUS
<1>. HIDE DEF revents
<1>5. \A i \in Slots : /\ poll'.pollList[i].events = poll.pollList[i].events
                        /\ poll'.pollList[i].revents = Readiness(poll.pollList[i])
  BY <1>1, <1>2, <1>3, <1>4, WithReventsEffect
<1>6. ASSUME NEW c \in ConnectedClients  PROVE  ClientReported(c)
  <2>1. c \in Clients /\ ClientSlot(c).fd = c
    BY <1>1, <1>2 DEF TableInv, ClientSlot, ConnectedClients
  <2>2. Readiness(ClientSlot(c)) =
          SocketReadiness(peer[c], client[c].received, ClientSlot(c).events)
    BY <2>1, ProxyAssumption DEF Readiness
  <2>. QED  BY <1>1, <1>2, <1>5, <2>1, <2>2 DEF ClientReported, ClientSlot, ClientIdx, env
<1>7. ASSUME NEW s \in ConnectedServers  PROVE  ServerReported(s)
  <2>1. s \in Servers /\ ServerSlot(s).fd = s
    BY <1>1, <1>2 DEF TableInv, ServerSlot, ConnectedServers
  <2>2. Readiness(ServerSlot(s)) =
          SocketReadiness(origin[s], server[s].recvLen, ServerSlot(s).events)
    BY <2>1, ProxyAssumption DEF Readiness
  <2>. QED  BY <1>1, <1>2, <1>5, <2>1, <2>2 DEF ServerReported, ServerSlot, ServerIdx, env
<1>. QED
  BY <1>1, <1>6, <1>7 DEF Effects, ClientEffect, ServerEffect, ConnectedClients,
     ConnectedServers, lists

(* accept() finds a slot for the first of the queue and leaves the others. *)
LEMMA AcceptTakesSlot ==
  ASSUME Inv, AcceptNewConnection
  PROVE  Effects
<1>0. PICK c, idx, in : c = Head(backlog) /\ idx = TopFreeIndex(poll) /\ in = {"POLLIN"}
  OBVIOUS
<1>1. /\ TypeOK /\ TableInv
      /\ backlog \in Seq(Clients) /\ backlog # <<>> /\ IsInjective(backlog)
      /\ clientsConnections \in Seq(Clients) /\ IsInjective(clientsConnections)
      /\ OpenConnections < FdLimit
      /\ UNCHANGED <<serversConnections, server, peer, origin>>
  BY DEF AcceptNewConnection, Inv, Nothing, AcceptInv, TypeOK, TableInv
<1>2. /\ c \in Clients /\ c \in ToSet(backlog) /\ c \notin ConnectedClients
      /\ c \in Fds /\ in \in SUBSET Events
      /\ poll \in PollTables(Fds) /\ SameOwners(poll, poll)
      /\ ConnectedClients \subseteq Clients /\ ConnectedServers \subseteq Servers
  BY <1>0, <1>1, TakeFirst, InToSet, Places
     DEF Inv, AcceptInv, ConnectedClients, ConnectedServers, Fds, Events, SameOwners
<1>3. /\ client' = [client EXCEPT ![c] = NewClient(idx)]
      /\ poll' = AddConnectionFd(poll, c, in)
      /\ clientsConnections' = Append(clientsConnections, c)
  BY <1>0 DEF AcceptNewConnection
<1>4. ConnectedClients' = ConnectedClients \union {c} /\ ConnectedServers' = ConnectedServers
  BY <1>1, <1>2, <1>3, AppendNew DEF ConnectedClients, ConnectedServers
<1>5. /\ idx \in Slots
      /\ \A d \in ConnectedClients : ClientIdx(d) \in Slots \ {idx}
      /\ \A s \in ConnectedServers : ServerIdx(s) \in Slots \ {idx}
      /\ poll'.pollList[idx].events = in
      /\ poll'.pollList[idx].revents = {}
      /\ \A i \in Slots \ {idx} : poll'.pollList[i] = poll.pollList[i]
  BY <1>0, <1>1, <1>2, <1>3, SlotTaken DEF ConnectedClients, ConnectedServers
<1>6. /\ client'[c] = NewClient(idx)
      /\ \A d \in Clients \ {c} : client'[d] = client[d]
      /\ NewClient(idx).inPollListIdx = idx
  BY <1>1, <1>2, <1>3, <1>5, NewClientEffect DEF TypeOK
<1>7. ClientAccepted(c)
  <2>1. ClientSlot(c)' = poll'.pollList[idx]
    BY <1>6 DEF ClientSlot, ClientIdx
  <2>2. ClientSlot(c)'.events = {"POLLIN"} /\ ClientSlot(c)'.revents = {}
    BY <1>0, <1>5, <2>1
  <2>. QED  BY <1>1, <1>2, <1>6, <2>2 DEF ClientAccepted
<1>8. ASSUME NEW d \in ConnectedClients  PROVE  ClientKept(d)
  <2>1. d \in Clients \ {c}
    BY <1>2
  <2>2. client'[d] = client[d] /\ ClientIdx(d)' = ClientIdx(d)
    BY <1>6, <2>1 DEF ClientIdx
  <2>. QED  BY <1>1, <1>5, <2>1, <2>2, Ends DEF ClientKept, ClientSlot
<1>9. ASSUME NEW s \in ConnectedServers  PROVE  ServerKept(s)
  BY <1>1, <1>2, <1>5, Ends DEF ServerKept, ServerSlot, ServerIdx
<1>. QED  BY <1>4, <1>7, <1>8, <1>9 DEF Effects, ClientEffect, ServerEffect

(* The departure of a client leaves the others. *)
LEMMA DepartureKeepsOthers ==
  ASSUME Inv, RequestInv, NEW c, AtClient(c), IsShutDown(c)
  PROVE  Effects
<1>1. /\ TypeOK /\ TableInv
      /\ c \in Clients /\ c \in ConnectedClients
      /\ ConnectedClients' = ConnectedClients \ {c}
      /\ \A d \in Clients \intersect ConnectedClients' : client'[d] = client[d]
  BY AtClientFacts, ClientLeavesObjects DEF ConnectedClients
<1>2. /\ ConnectedClients \subseteq Clients /\ ConnectedServers \subseteq Servers
      /\ \A d \in Clients : ClientIdx(d) \in Slots
      /\ \A s \in Servers : ServerIdx(s) \in Slots
      /\ \A d \in ConnectedClients \ {c} : ClientIdx(d) # ClientIdx(c)
      /\ \A s \in ConnectedServers : ServerIdx(s) # ClientIdx(c)
      /\ ClientIdx(c) \notin poll.free
      /\ poll \in PollTables(Fds)
  BY <1>1, Places DEF ConnectedClients, ConnectedServers
<1>3. /\ UNCHANGED <<serversConnections, server, origin>>
      /\ \A d \in Clients \ {c} : peer'[d] = peer[d]
      /\ poll' = RemoveConnectionFd(poll, ClientIdx(c))
  BY <1>1 DEF IsShutDown, ShutdownClientConnection, TypeOK
<1>4. \A i \in Slots \ {ClientIdx(c)} : poll'.pollList[i] = poll.pollList[i]
  BY <1>1, <1>2, <1>3, RemoveEffect
<1>5. ASSUME NEW d \in ConnectedClients'  PROVE  ClientKept(d)
  <2>1. /\ d \in Clients \ {c} /\ d \in ConnectedClients
        /\ client'[d] = client[d] /\ ClientIdx(d)' = ClientIdx(d)
    BY <1>1, <1>2 DEF ClientIdx
  <2>. QED  BY <1>1, <1>2, <1>3, <1>4, <2>1, Ends DEF ClientKept, ClientSlot
<1>6. ASSUME NEW s \in ConnectedServers  PROVE  ServerKept(s)
  BY <1>1, <1>2, <1>3, <1>4, Ends DEF ServerKept, ServerSlot, ServerIdx
<1>. QED  BY <1>3, <1>5, <1>6 DEF Effects, ClientEffect, ServerEffect, ConnectedServers

--------------------------------------------------------------------------------
(* The turns of the connections.                                                *)

(* The turn of client c keeps its place. *)
LEMMA OwnTurn ==
  ASSUME Inv, NEW c, AtClient(c), NEW object, object.inPollListIdx = ClientIdx(c),
         client' = [client EXCEPT ![c] = object]
  PROVE  /\ client'[c] = object
         /\ ClientSlot(c) = poll.pollList[ClientIdx(c)]
         /\ ClientSlot(c)' = poll'.pollList[ClientIdx(c)]
<1>1. client'[c] = object
  BY AtClientFacts DEF TypeOK
<1>. QED  BY <1>1 DEF ClientSlot, ClientIdx

(* A turn of client c that keeps it changes no other's slot or object. *)
LEMMA TurnKeepsOthers ==
  ASSUME Inv, NEW c, AtClient(c), NEW object, object.inPollListIdx = ClientIdx(c),
         client' = [client EXCEPT ![c] = object],
         UNCHANGED <<lists, server, peer, origin>>,
         \A i \in Slots \ {ClientIdx(c)} :
           /\ poll'.pollList[i].events = poll.pollList[i].events
           /\ poll'.pollList[i].revents = poll.pollList[i].revents,
         poll'.pollList[ClientIdx(c)].revents = {},
         \/ QuietTurn(c) \/ ReceivingTurn(c) \/ EnrollingTurn(c)
         \/ AnsweringTurn(c) \/ SendingTurn(c)
  PROVE  Effects
<1>1. /\ TypeOK /\ TableInv
      /\ c \in Clients /\ c \in ConnectedClients
      /\ ConnectedClients' = ConnectedClients /\ ConnectedServers' = ConnectedServers
  BY AtClientFacts DEF ConnectedClients, ConnectedServers, lists
<1>2. /\ ConnectedClients \subseteq Clients /\ ConnectedServers \subseteq Servers
      /\ \A d \in Clients : ClientIdx(d) \in Slots
      /\ \A s \in Servers : ServerIdx(s) \in Slots
      /\ \A d \in ConnectedClients \ {c} : ClientIdx(d) # ClientIdx(c)
      /\ \A s \in ConnectedServers : ServerIdx(s) # ClientIdx(c)
  BY <1>1, Places DEF ConnectedClients, ConnectedServers
<1>3. \A d \in Clients \ {c} : client'[d] = client[d]
  BY <1>1 DEF TypeOK
<1>4. ClientServed(c)
  BY <1>1, OwnTurn DEF ClientServed
<1>5. ASSUME NEW d \in ConnectedClients \ {c}  PROVE  ClientKept(d)
  <2>1. /\ d \in Clients \ {c}
        /\ client'[d] = client[d] /\ ClientIdx(d)' = ClientIdx(d)
    BY <1>2, <1>3 DEF ClientIdx
  <2>. QED  BY <1>1, <1>2, <2>1, Ends DEF ClientKept, ClientSlot
<1>6. ASSUME NEW s \in ConnectedServers  PROVE  ServerKept(s)
  BY <1>1, <1>2, Ends DEF ServerKept, ServerSlot, ServerIdx
<1>. QED  BY <1>1, <1>4, <1>5, <1>6 DEF Effects, ClientEffect, ServerEffect

(* Most turns end with the revents of c at 0 and its events as they were. *)
LEMMA ClearedTurn ==
  ASSUME Inv, NEW c, AtClient(c), NEW object, object.inPollListIdx = ClientIdx(c),
         client' = [client EXCEPT ![c] = object],
         poll' = ClearRevents(poll, ClientIdx(c))
  PROVE  /\ client'[c] = object
         /\ ClientSlot(c)'.events = ClientSlot(c).events
         /\ \A i \in Slots \ {ClientIdx(c)} :
              /\ poll'.pollList[i].events = poll.pollList[i].events
              /\ poll'.pollList[i].revents = poll.pollList[i].revents
         /\ poll'.pollList[ClientIdx(c)].revents = {}
<1>1. /\ \A i \in Slots \ {ClientIdx(c)} :
           /\ poll'.pollList[i].events = poll.pollList[i].events
           /\ poll'.pollList[i].revents = poll.pollList[i].revents
      /\ poll'.pollList[ClientIdx(c)].events = poll.pollList[ClientIdx(c)].events
      /\ poll'.pollList[ClientIdx(c)].revents = {}
  BY ClearedSlot
<1>2. /\ client'[c] = object
      /\ ClientSlot(c) = poll.pollList[ClientIdx(c)]
      /\ ClientSlot(c)' = poll'.pollList[ClientIdx(c)]
  BY OwnTurn, Zenon
<1>3. ClientSlot(c)'.events = ClientSlot(c).events
  BY <1>1, <1>2
<1>. QED  BY <1>1, <1>2, <1>3

LEMMA QuietTurnEffect ==
  ASSUME Inv, NEW c, ClientIsQuiet(c)
  PROVE  Effects
<1>1. /\ AtClient(c)
      /\ poll' = ClearRevents(poll, ClientIdx(c))
      /\ UNCHANGED <<lists, client, server, peer, origin>>
  BY DEF ClientIsQuiet, env
<1>2. client[c].inPollListIdx = ClientIdx(c) /\ client' = [client EXCEPT ![c] = client[c]]
  BY <1>1, AtClientFacts DEF TypeOK, ClientIdx
<1>3. QuietTurn(c)
  BY <1>1, <1>2, ClearedTurn DEF QuietTurn
<1>. QED  BY <1>1, <1>2, <1>3, ClearedTurn, TurnKeepsOthers

LEMMA ReceivingTurnEffect ==
  ASSUME Inv, RequestInv, NEW c, ReceivePartOfRequest(c)
  PROVE  Effects
<1>1. /\ AtClient(c) /\ ClientIsReadable(c)
      /\ poll' = ClearRevents(poll, ClientIdx(c))
      /\ UNCHANGED <<lists, server, peer, origin>>
  BY DEF ReceivePartOfRequest, env
<1>2. PICK n \in 1..Available(peer[c], client[c].received) :
        client' = [client EXCEPT ![c] = PartOfRequest(client[c], n)]
  BY DEF ReceivePartOfRequest
<1>3. client[c] \in ClientRecords /\ Idle(client[c])
  BY <1>1, AtClientFacts, ReadableIsIdle
<1>4. PartOfRequest(client[c], n).inPollListIdx = ClientIdx(c)
  BY <1>3 DEF PartOfRequest, ClientRecords, ClientIdx
<1>5. ReceivingTurn(c)
  BY <1>1, <1>2, <1>3, <1>4, ClearedTurn DEF ReceivingTurn
<1>. QED  BY <1>1, <1>2, <1>4, <1>5, ClearedTurn, TurnKeepsOthers

LEMMA SendingTurnEffect ==
  ASSUME Inv, RequestInv, NEW c, SendsPart(c)
  PROVE  Effects
<1>1. AtClient(c) /\ client[c].sendAnswerBuf \in Answers
  BY SendsPartEffect
<1>2. PICK n \in Nat : KeepSending(c, n)
  BY SendsPartEffect
<1>3. /\ client' = [client EXCEPT ![c] = AnswerPartSent(client[c], n)]
      /\ poll' = ClearRevents(poll, ClientIdx(c))
      /\ UNCHANGED <<lists, server, peer, origin>>
  BY <1>2 DEF KeepSending, env
<1>4. c \in Clients /\ client[c] \in ClientRecords /\ Answered(client[c])
  BY <1>1, AtClientFacts, ProxyAssumption DEF RequestInv, Idle, Waiting
<1>5. AnswerPartSent(client[c], n).inPollListIdx = ClientIdx(c)
  BY <1>4 DEF AnswerPartSent, ClientRecords, ClientIdx
<1>6. SendingTurn(c)
  BY <1>1, <1>2, <1>3, <1>4, <1>5, ClearedTurn DEF SendingTurn
<1>. QED  BY <1>1, <1>3, <1>5, <1>6, ClearedTurn, TurnKeepsOthers

(* The whole request has been sent. *)
LEMMA RequestIsThere ==
  ASSUME Inv, NEW c, ReceivesRequest(c)
  PROVE  ReqLen =< peer[c].sent
<1>1. /\ client[c].received \in Nat /\ peer[c].sent \in Nat /\ ReqLen \in Nat
  BY AtClientFacts, MessagesAssumption DEF ReceivesRequest, ClientRecords, Peers
<1>. QED  BY <1>1 DEF ReceivesRequest, Available

LEMMA AnsweringTurnEffect ==
  ASSUME Inv, RequestInv, NEW c, ReceivesRequest(c), NEW answer \in Answers,
         AnswerAtOnce(c, answer)
  PROVE  Effects
<1>. DEFINE whole  == WholeRequest(client[c], peer[c].request)
            object == InitializeAnswerSending(whole, answer)
<1>1. /\ AtClient(c) /\ ClientIsReadable(c)
      /\ poll' = SetEvents(Silenced(c), {ClientIdx(c)}, {"POLLOUT"})
      /\ UNCHANGED <<lists, server, peer, origin>>
  BY DEF ReceivesRequest, AnswerAtOnce, env
<1>2. /\ TypeOK /\ c \in Clients /\ client[c] \in ClientRecords
      /\ peer[c].request \in Requests
      /\ Idle(client[c])
  BY <1>1, AtClientFacts, ReadableIsIdle
<1>3. /\ whole \in ClientRecords
      /\ whole.inPollListIdx = ClientIdx(c)
      /\ whole.request \in Requests
      /\ whole.received = ReqLen
  <2>1. whole.received = ReqLen
    BY <1>2 DEF WholeRequest, ClientRecords
  <2>. QED  BY <1>2, <2>1, WholeRequestEffect DEF ClientIdx
<1>4. client' = [client EXCEPT ![c] = object]
  BY <1>2 DEF AnswerAtOnce, Transmitting, RequestReceived, TypeOK
<1>. HIDE DEF whole
<1>5. /\ object.inPollListIdx = ClientIdx(c)
      /\ object.received = ReqLen
      /\ Answered(object)
  <2>1. object.received = ReqLen
    BY <1>3 DEF InitializeAnswerSending, ClientRecords
  <2>. QED  BY <1>3, <2>1, AnswerStarts, InitializeAnswerSendingEffect DEF SamePlace
<1>. HIDE DEF object
<1>6. /\ \A i \in Slots \ {ClientIdx(c)} :
           /\ poll'.pollList[i].events = poll.pollList[i].events
           /\ poll'.pollList[i].revents = poll.pollList[i].revents
      /\ poll'.pollList[ClientIdx(c)].events = {"POLLOUT"}
      /\ poll'.pollList[ClientIdx(c)].revents = {}
  BY <1>1, AnsweringSlot
<1>7. client'[c] = object /\ ClientSlot(c)' = poll'.pollList[ClientIdx(c)]
  BY <1>1, <1>4, <1>5, OwnTurn
<1>8. AnsweringTurn(c)
  BY <1>1, <1>2, <1>5, <1>6, <1>7, RequestIsThere DEF AnsweringTurn, ReceivesRequest
<1>. QED  BY <1>1, <1>4, <1>5, <1>6, <1>8, TurnKeepsOthers

LEMMA JoiningTurnEffect ==
  ASSUME Inv, RequestInv, NEW c, JoinWaiters(c)
  PROVE  Effects
<1>. DEFINE object == WholeRequest(client[c], peer[c].request)
<1>1. /\ ReceivesRequest(c) /\ AtClient(c) /\ ClientIsReadable(c)
      /\ peer[c].request.verdict = "WITHOUT_ERRORS"
      /\ client' = RequestReceived(c)
      /\ poll' = Silenced(c)
      /\ UNCHANGED <<lists, server, peer, origin>>
  BY DEF JoinWaiters, ReceivesRequest, env
<1>2. Idle(client[c]) /\ Waiting(RequestReceived(c)[c])
  BY <1>1, ReadableIsIdle, RequestTaken
<1>3. object.inPollListIdx = ClientIdx(c) /\ RequestReceived(c) = [client EXCEPT ![c] = object]
  BY <1>1, TakenRequest
<1>. HIDE DEF object
<1>4. /\ \A i \in Slots \ {ClientIdx(c)} :
           /\ poll'.pollList[i].events = poll.pollList[i].events
           /\ poll'.pollList[i].revents = poll.pollList[i].revents
      /\ poll'.pollList[ClientIdx(c)].events = {}
      /\ poll'.pollList[ClientIdx(c)].revents = {}
  BY <1>1, SilencedSlot
<1>5. ClientSlot(c)' = poll'.pollList[ClientIdx(c)]
  BY <1>1, <1>3, OwnTurn
<1>6. EnrollingTurn(c)
  BY <1>1, <1>2, <1>4, <1>5, RequestIsThere DEF EnrollingTurn
<1>. QED  BY <1>1, <1>3, <1>4, <1>6, TurnKeepsOthers

(* The turn of c that opens a connection to an origin. *)
LEMMA OpeningTurnEffect ==
  ASSUME Inv, RequestInv, NEW c, FetchFromOrigin(c)
  PROVE  Effects
<1>. DEFINE object == WholeRequest(client[c], peer[c].request)
<1>1. /\ ReceivesRequest(c) /\ AtClient(c) /\ ClientIsReadable(c)
      /\ peer[c].request.verdict = "WITHOUT_ERRORS"
      /\ OpenConnections < FdLimit
      /\ client' = RequestReceived(c)
      /\ UNCHANGED <<clientsConnections, peer>>
  BY DEF FetchFromOrigin, MissesCache, ReceivesRequest
<1>2. PICK s \in Servers \ ToSet(serversConnections) : InitializeNewServerConnection(c, s)
  BY DEF FetchFromOrigin
<1>3. PICK idx, table, out :
        idx = TopFreeIndex(poll) /\ table = Silenced(c) /\ out = {"POLLOUT"}
  OBVIOUS
<1>4. /\ TypeOK /\ TableInv /\ c \in Clients /\ c \in ConnectedClients
      /\ serversConnections \in Seq(Servers) /\ IsInjective(serversConnections)
      /\ ConnectedClients \subseteq Clients /\ ConnectedServers \subseteq Servers
      /\ \A d \in Clients : ClientIdx(d) \in Slots
      /\ \A t \in Servers : ServerIdx(t) \in Slots
      /\ \A d \in ConnectedClients \ {c} : ClientIdx(d) # ClientIdx(c)
      /\ \A t \in ConnectedServers : ServerIdx(t) # ClientIdx(c)
  BY <1>1, AtClientFacts, Places DEF TypeOK, TableInv, ConnectedClients, ConnectedServers
<1>5. /\ Idle(client[c]) /\ Waiting(RequestReceived(c)[c])
      /\ object.inPollListIdx = ClientIdx(c)
      /\ RequestReceived(c) = [client EXCEPT ![c] = object]
  BY <1>1, ReadableIsIdle, RequestTaken, TakenRequest
<1>. HIDE DEF object
<1>6. /\ server' = [server EXCEPT ![s] = NewServer(idx, peer[c].request)]
      /\ poll' = AddConnectionFd(table, s, out)
      /\ serversConnections' = Append(serversConnections, s)
      /\ \E r \in Responses : origin' = [origin EXCEPT ![s] = [ClosedOrigin EXCEPT !.response = r]]
  BY <1>2, <1>3 DEF InitializeNewServerConnection
<1>7. /\ table \in PollTables(Fds)
      /\ SameOwners(table, poll)
      /\ \A i \in Slots \ {ClientIdx(c)} : /\ table.pollList[i].events = poll.pollList[i].events
                                          /\ table.pollList[i].revents = poll.pollList[i].revents
      /\ table.pollList[ClientIdx(c)].events = {}
      /\ table.pollList[ClientIdx(c)].revents = {}
  BY <1>1, <1>3, SilencedSlot
<1>8. /\ idx \in Slots
      /\ \A d \in ConnectedClients : ClientIdx(d) \in Slots \ {idx}
      /\ \A t \in ConnectedServers : ServerIdx(t) \in Slots \ {idx}
      /\ poll'.pollList[idx].events = out
      /\ poll'.pollList[idx].revents = {}
      /\ \A i \in Slots \ {idx} : poll'.pollList[i] = table.pollList[i]
  <2>1. s \in Fds /\ out \in SUBSET Events
    BY <1>3 DEF Fds, Events
  <2>. QED  BY <1>1, <1>3, <1>4, <1>6, <1>7, <2>1, SlotTaken DEF ConnectedClients, ConnectedServers
<1>9. /\ ConnectedClients' = ConnectedClients
      /\ ConnectedServers' = ConnectedServers \union {s}
      /\ s \notin ConnectedServers
  BY <1>1, <1>2, <1>4, <1>6, AppendNew DEF ConnectedClients, ConnectedServers
<1>10. /\ \A d \in Clients \ {c} : client'[d] = client[d]
       /\ client'[c] = object
       /\ server'[s] = NewServer(idx, peer[c].request)
       /\ \A t \in Servers \ {s} : server'[t] = server[t] /\ origin'[t] = origin[t]
       /\ server'[s].inPollListIdx = idx
  BY <1>1, <1>2, <1>4, <1>5, <1>6 DEF TypeOK, NewServer
<1>11. origin'[s] \in Origins
  <2>1. /\ Responses \subseteq ResponseRecords
        /\ 0 \in 0..RespLen
    BY MessagesAssumption DEF OriginStatuses
  <2>2. \A r \in Responses : [ClosedOrigin EXCEPT !.response = r] \in Origins
    BY <2>1 DEF ClosedOrigin, Origins
  <2>. QED  BY <1>2, <1>4, <1>6, <2>2 DEF TypeOK
<1>12. ServerOpened(s)
  <2>1. ServerSlot(s)' = poll'.pollList[idx]
    BY <1>10 DEF ServerSlot, ServerIdx
  <2>2. ServerSlot(s)'.events = {"POLLOUT"} /\ ServerSlot(s)'.revents = {}
    BY <1>3, <1>8, <2>1
  <2>. QED  BY <1>9, <1>10, <1>11, <2>2 DEF ServerOpened
<1>13. ClientServed(c)
  <2>1. /\ ClientSlot(c)' = poll'.pollList[ClientIdx(c)]
        /\ Waiting(client'[c])
    BY <1>1, <1>5, OwnTurn
  <2>2. ClientSlot(c)'.events = {} /\ ClientSlot(c)'.revents = {}
    BY <1>4, <1>7, <1>8, <2>1
  <2>3. EnrollingTurn(c)
    BY <1>1, <1>5, <2>1, <2>2, RequestIsThere DEF EnrollingTurn
  <2>. QED  BY <1>1, <1>4, <2>2, <2>3 DEF ClientServed
<1>14. ASSUME NEW d \in ConnectedClients \ {c}  PROVE  ClientKept(d)
  <2>1. /\ d \in Clients \ {c} /\ peer'[d] = peer[d]
        /\ client'[d] = client[d] /\ ClientIdx(d)' = ClientIdx(d)
        /\ ClientIdx(d) \in Slots \ {idx} /\ ClientIdx(d) # ClientIdx(c)
    BY <1>1, <1>4, <1>8, <1>10 DEF ClientIdx
  <2>. QED  BY <1>4, <1>7, <1>8, <2>1, Ends DEF ClientKept, ClientSlot
<1>15. ASSUME NEW t \in ConnectedServers  PROVE  ServerKept(t)
  <2>1. /\ t \in Servers \ {s} /\ origin'[t] = origin[t]
        /\ server'[t] = server[t] /\ ServerIdx(t)' = ServerIdx(t)
        /\ ServerIdx(t) \in Slots \ {idx} /\ ServerIdx(t) # ClientIdx(c)
    BY <1>4, <1>8, <1>9, <1>10 DEF ServerIdx
  <2>. QED  BY <1>4, <1>7, <1>8, <2>1, Ends DEF ServerKept, ServerSlot
<1>. QED  BY <1>9, <1>12, <1>13, <1>14, <1>15 DEF Effects, ClientEffect, ServerEffect

--------------------------------------------------------------------------------
(* The turns of the server connections.                                         *)

(* A turn of s that keeps it changes no other's slot or object; s itself is     *)
(* polled for what the table says, and its revents are 0.                       *)
LEMMA ServerTurnKeepsOthers ==
  ASSUME Inv, NEW s, AtServer(s), NEW table \in PollTables(Fds), KeepServer(s, table),
         \A i \in Slots \ {ServerIdx(s)} :
           /\ table.pollList[i].events = poll.pollList[i].events
           /\ table.pollList[i].revents = poll.pollList[i].revents,
         server'[s].inPollListIdx = ServerIdx(s),
         \A t \in Servers \ {s} : server'[t] = server[t]
  PROVE  /\ ServerSlot(s)'.events = table.pollList[ServerIdx(s)].events
         /\ \/ UneventfulTurn(s) \/ RepeatedTurn(s) \/ ForwardingTurn(s) \/ FetchingTurn(s)
            => Effects
<1>1. /\ TypeOK /\ TableInv
      /\ s \in Servers /\ s \in ConnectedServers
      /\ ConnectedClients' = ConnectedClients /\ ConnectedServers' = ConnectedServers
      /\ poll' = ClearRevents(table, ServerIdx(s))
      /\ UNCHANGED <<client, peer, origin>>
  BY AtServerFacts DEF ConnectedClients, ConnectedServers, lists, KeepServer, env
<1>2. /\ ConnectedClients \subseteq Clients /\ ConnectedServers \subseteq Servers
      /\ \A d \in Clients : ClientIdx(d) \in Slots
      /\ \A t \in Servers : ServerIdx(t) \in Slots
      /\ \A d \in ConnectedClients : ClientIdx(d) # ServerIdx(s)
      /\ \A t \in ConnectedServers \ {s} : ServerIdx(t) # ServerIdx(s)
  BY <1>1, Places DEF ConnectedClients, ConnectedServers
<1>4. /\ \A i \in Slots \ {ServerIdx(s)} :
           /\ poll'.pollList[i].events = poll.pollList[i].events
           /\ poll'.pollList[i].revents = poll.pollList[i].revents
      /\ poll'.pollList[ServerIdx(s)].events = table.pollList[ServerIdx(s)].events
      /\ poll'.pollList[ServerIdx(s)].revents = {}
  BY <1>1, <1>2, ClearReventsEffect
<1>5. ServerSlot(s)' = poll'.pollList[ServerIdx(s)]
  BY DEF ServerSlot, ServerIdx
<1>6. \/ UneventfulTurn(s) \/ RepeatedTurn(s) \/ ForwardingTurn(s) \/ FetchingTurn(s)
      => ServerServed(s)
  BY <1>1, <1>4, <1>5 DEF ServerServed
<1>7. ASSUME NEW d \in ConnectedClients  PROVE  ClientKept(d)
  BY <1>1, <1>2, <1>4, Ends DEF ClientKept, ClientSlot, ClientIdx
<1>8. ASSUME NEW t \in ConnectedServers \ {s}  PROVE  ServerKept(t)
  <2>1. /\ t \in Servers \ {s}
        /\ server'[t] = server[t] /\ ServerIdx(t)' = ServerIdx(t)
    BY <1>2 DEF ServerIdx
  <2>. QED  BY <1>1, <1>2, <1>4, <2>1, Ends DEF ServerKept, ServerSlot
<1>. QED
  BY <1>1, <1>4, <1>5, <1>6, <1>7, <1>8 DEF Effects, ClientEffect, ServerEffect

(* The tables with which the turns of s end. *)
LEMMA ServerTables ==
  ASSUME Inv, NEW s, AtServer(s)
  PROVE  LET t == SetEvents(poll, {ServerIdx(s)}, {"POLLIN"})
         IN  /\ poll \in PollTables(Fds)
             /\ poll.pollList[ServerIdx(s)].events = ServerSlot(s).events
             /\ t \in PollTables(Fds)
             /\ \A i \in Slots \ {ServerIdx(s)} :
                  /\ t.pollList[i].events = poll.pollList[i].events
                  /\ t.pollList[i].revents = poll.pollList[i].revents
             /\ t.pollList[ServerIdx(s)].events = {"POLLIN"}
<1>. DEFINE i0   == ServerIdx(s)
            idxs == {i0}
            in   == {"POLLIN"}
<1>1. /\ poll \in PollTables(Fds) /\ i0 \in Slots /\ in \in SUBSET Events
      /\ \A i \in Slots : i \in idxs <=> i = i0
      /\ poll.pollList[i0].events = ServerSlot(s).events
  BY AtServerFacts DEF Events, ServerSlot
<1>. HIDE DEF i0, idxs, in
<1>2. LET t == SetEvents(poll, idxs, in)
      IN  /\ t \in PollTables(Fds)
          /\ \A i \in Slots \ {i0} : /\ t.pollList[i].events = poll.pollList[i].events
                                      /\ t.pollList[i].revents = poll.pollList[i].revents
          /\ t.pollList[i0].events = in
  BY <1>1, ArmedSlot
<1>. QED  BY <1>1, <1>2 DEF i0, idxs, in

LEMMA UneventfulTurnEffect ==
  ASSUME Inv, NEW s, ServerIsQuiet(s)
  PROVE  Effects
<1>1. AtServer(s) /\ KeepServer(s, poll) /\ server' = server
  BY DEF ServerIsQuiet
<1>2. server'[s].inPollListIdx = ServerIdx(s) /\ \A t \in Servers \ {s} : server'[t] = server[t]
  BY <1>1 DEF ServerIdx
<1>3. PICK table : table = poll
  OBVIOUS
<1>4. /\ table \in PollTables(Fds) /\ KeepServer(s, table)
      /\ \A i \in Slots \ {ServerIdx(s)} :
           /\ table.pollList[i].events = poll.pollList[i].events
           /\ table.pollList[i].revents = poll.pollList[i].revents
      /\ table.pollList[ServerIdx(s)].events = ServerSlot(s).events
  BY <1>1, <1>3, ServerTables
<1>5. /\ ServerSlot(s)'.events = ServerSlot(s).events
      /\ UneventfulTurn(s) => Effects
  BY <1>1, <1>2, <1>4, ServerTurnKeepsOthers
<1>. QED  BY <1>1, <1>5 DEF UneventfulTurn

LEMMA RepeatedTurnEffect ==
  ASSUME Inv, NEW s, AtServer(s),
         server[s].connectionState = "RECEIVING_ANSWER", server' = server,
         KeepServer(s, SetEvents(poll, {ServerIdx(s)}, {"POLLIN"}))
  PROVE  Effects
<1>1. PICK table : /\ table = SetEvents(poll, {ServerIdx(s)}, {"POLLIN"})
                   /\ KeepServer(s, table)
  OBVIOUS
<1>2. server'[s].inPollListIdx = ServerIdx(s) /\ \A t \in Servers \ {s} : server'[t] = server[t]
  BY DEF ServerIdx
<1>3. /\ table \in PollTables(Fds)
      /\ \A i \in Slots \ {ServerIdx(s)} :
           /\ table.pollList[i].events = poll.pollList[i].events
           /\ table.pollList[i].revents = poll.pollList[i].revents
      /\ table.pollList[ServerIdx(s)].events = {"POLLIN"}
  BY <1>1, ServerTables
<1>4. /\ ServerSlot(s)'.events = {"POLLIN"}
      /\ RepeatedTurn(s) => Effects
  BY <1>1, <1>2, <1>3, ServerTurnKeepsOthers
<1>. QED  BY <1>4 DEF RepeatedTurn

LEMMA ForwardingTurnEffect ==
  ASSUME Inv, NEW s, ForwardRequest(s)
  PROVE  Effects
<1>1. AtServer(s)
  BY DEF ForwardRequest, ForwardsRequest
<1>2. PICK n \in SendTakes(ReqLen - server[s].sendRequestOffset) :
        /\ server' = [server EXCEPT ![s] = RequestSent(server[s], n)]
        /\ KeepServer(s, IF server[s].sendRequestOffset + n = ReqLen
                         THEN SetEvents(poll, {ServerIdx(s)}, {"POLLIN"}) ELSE poll)
  BY DEF ForwardRequest
<1>3. RequestSent(server[s], n).inPollListIdx = ServerIdx(s)
  BY <1>1, AtServerFacts DEF RequestSent, ServerRecords, ServerIdx
<1>4. PICK table :
        /\ table = IF server[s].sendRequestOffset + n = ReqLen
                   THEN SetEvents(poll, {ServerIdx(s)}, {"POLLIN"}) ELSE poll
        /\ KeepServer(s, table)
  BY <1>2
<1>5. /\ table \in PollTables(Fds)
      /\ \A i \in Slots \ {ServerIdx(s)} :
           /\ table.pollList[i].events = poll.pollList[i].events
           /\ table.pollList[i].revents = poll.pollList[i].revents
      /\ table.pollList[ServerIdx(s)].events =
           IF server[s].sendRequestOffset + n = ReqLen
           THEN {"POLLIN"} ELSE ServerSlot(s).events
  BY <1>1, <1>4, ServerTables
<1>6. /\ server'[s] = RequestSent(server[s], n)
      /\ \A t \in Servers \ {s} : server'[t] = server[t]
  BY <1>1, <1>2, AtServerFacts DEF TypeOK
<1>7. /\ ServerSlot(s)'.events = table.pollList[ServerIdx(s)].events
      /\ ForwardingTurn(s) => Effects
  BY <1>1, <1>3, <1>4, <1>5, <1>6, ServerTurnKeepsOthers
<1>. QED  BY <1>2, <1>5, <1>6, <1>7 DEF ForwardingTurn

LEMMA FetchingTurnEffect ==
  ASSUME Inv, NEW s, ReceivePartOfAnswer(s)
  PROVE  Effects
<1>1. AtServer(s) /\ KeepServer(s, poll) /\ "POLLIN" \in ServerSlot(s).revents
  BY DEF ReceivePartOfAnswer, ReceivesAnswer, ServerIsReadable, IsReadyForRead, ServerSlot
<1>2. PICK n \in 1..Available(origin[s], server[s].recvLen) :
        server' = [server EXCEPT ![s] = AnswerReceived(server[s], n)]
  BY DEF ReceivePartOfAnswer
<1>3. AnswerReceived(server[s], n).inPollListIdx = ServerIdx(s)
  BY <1>1, AtServerFacts DEF AnswerReceived, ServerRecords, ServerIdx
<1>4. /\ server'[s] = AnswerReceived(server[s], n)
      /\ \A t \in Servers \ {s} : server'[t] = server[t]
  BY <1>1, <1>2, AtServerFacts DEF TypeOK
<1>5. /\ ServerSlot(s)'.events = ServerSlot(s).events
      /\ FetchingTurn(s) => Effects
  BY <1>1, <1>3, <1>4, ServerTables, ServerTurnKeepsOthers
<1>. QED  BY <1>1, <1>2, <1>4, <1>5 DEF FetchingTurn

(* The end of a fetch: the slot of s is given back, those of the clients that   *)
(* wait are polled for writing.                                                 *)
LEMMA SlotsWoken ==
  ASSUME Inv, NEW s, AtServer(s), NEW waiters, waiters = WaitingFor(server[s].request.key),
         NEW state, ShutdownServerConnection(s, state)
  PROVE  \A i \in Slots \ {ServerIdx(s)} :
           /\ poll'.pollList[i].revents = poll.pollList[i].revents
           /\ poll'.pollList[i].events =
                IF i \in SlotsOf(waiters) THEN {"POLLOUT"} ELSE poll.pollList[i].events
<1>. DEFINE i0   == ServerIdx(s)
            idxs == SlotsOf(waiters)
            out  == {"POLLOUT"}
            t    == SetEvents(poll, idxs, out)
<1>1. /\ i0 \in Slots /\ i0 \notin poll.free /\ poll \in PollTables(Fds)
      /\ out \in SUBSET Events
  BY AtServerFacts, Places DEF Events
<1>2. poll' = RemoveConnectionFd(t, i0)
  BY DEF ShutdownServerConnection
<1>. HIDE DEF i0, idxs, out
<1>3. /\ t \in PollTables(Fds)
      /\ SameOwners(t, poll)
      /\ \A i \in Slots : /\ t.pollList[i].revents = poll.pollList[i].revents
                          /\ t.pollList[i].events =
                               IF i \in idxs THEN out ELSE poll.pollList[i].events
  BY <1>1, SetEventsEffect
<1>. HIDE DEF t
<1>4. i0 \notin t.free
  BY <1>1, <1>3 DEF SameOwners
<1>5. \A i \in Slots \ {i0} : poll'.pollList[i] = t.pollList[i]
  BY <1>1, <1>2, <1>3, <1>4, RemoveEffect
<1>. QED  BY <1>3, <1>5 DEF i0, idxs, out

(* A client that waits is answered. *)
LEMMA WaiterAnswered ==
  ASSUME Inv, RequestInv, NEW s, NEW state, FetchEnds(s, state),
         NEW d \in Clients, d \in ToSet(clientsConnections),
         d \in WaitingFor(server[s].request.key)
  PROVE  /\ client[d].connectionState = "PROCESSING_REQUEST"
         /\ \E answer \in Answers : client'[d] = InitializeAnswerSending(client[d], answer)
         /\ ClientIdx(d)' = ClientIdx(d)
<1>. DEFINE answer == AnswerInState(s, state)
<1>1. answer \in Answers /\ answer # NoBuf
  BY FinalAnswer, ProxyAssumption DEF FetchEnds
<1>2. /\ client[d].connectionState = "PROCESSING_REQUEST"
      /\ client[d] \in ClientRecords
  BY AtServerFacts DEF FetchEnds, WaitingFor, Inv, NoOrphanedWaiter, TypeOK
<1>3. client[d].sendAnswerBuf = NoBuf
  BY <1>2 DEF RequestInv, Idle, Waiting, Answered
<1>4. NoClient.sendAnswerBuf = NoBuf
  BY DEF NoClient, NewClient
<1>. HIDE DEF answer
<1>5. /\ client'[d] \in {NoClient, client[d], InitializeAnswerSending(client[d], answer)}
      /\ client'[d].sendAnswerBuf = answer
  BY FetchEndsForObjects DEF answer
<1>6. client'[d] = InitializeAnswerSending(client[d], answer)
  BY <1>1, <1>3, <1>4, <1>5
<1>7. InitializeAnswerSending(client[d], answer).inPollListIdx = client[d].inPollListIdx
  BY <1>1, <1>2, InitializeAnswerSendingEffect DEF SamePlace
<1>. QED  BY <1>1, <1>2, <1>6, <1>7 DEF ClientIdx

LEMMA FetchEndsEffect ==
  ASSUME Inv, RequestInv, NEW s, NEW state, FetchEnds(s, state)
  PROVE  Effects
<1>1. AtServer(s) /\ ShutdownServerConnection(s, state)
  BY DEF FetchEnds
<1>2. PICK waiters : waiters = WaitingFor(server[s].request.key)
  OBVIOUS
<1>3. /\ TypeOK /\ TableInv
      /\ s \in Servers /\ s \in ConnectedServers
      /\ ConnectedClients \subseteq Clients /\ ConnectedServers \subseteq Servers
      /\ \A d \in Clients : ClientIdx(d) \in Slots
      /\ \A t \in Servers : ServerIdx(t) \in Slots
      /\ \A d \in ConnectedClients : ClientIdx(d) # ServerIdx(s)
      /\ \A t \in ConnectedServers \ {s} : ServerIdx(t) # ServerIdx(s)
  BY <1>1, AtServerFacts, Places DEF ConnectedClients, ConnectedServers
<1>4. /\ ConnectedClients' = ConnectedClients
      /\ ConnectedServers' = ConnectedServers \ {s}
      /\ peer' = peer
      /\ \A t \in Servers \ {s} : server'[t] = server[t] /\ origin'[t] = origin[t]
  <2>1. /\ it \in 1..Len(serversConnections) /\ s = serversConnections[it]
        /\ serversConnections \in Seq(Servers) /\ IsInjective(serversConnections)
    BY <1>1, <1>3, ServerInList DEF TypeOK, TableInv
  <2>. QED
    BY <1>1, <1>3, <2>1, EraseAt DEF ShutdownServerConnection, TypeOK, ConnectedClients,
       ConnectedServers
<1>5. \A i \in Slots \ {ServerIdx(s)} :
        /\ poll'.pollList[i].revents = poll.pollList[i].revents
        /\ poll'.pollList[i].events =
             IF i \in SlotsOf(waiters) THEN {"POLLOUT"} ELSE poll.pollList[i].events
  BY <1>1, <1>2, SlotsWoken
<1>6. \A i \in SlotsOf(waiters) :
        \/ SomebodyLeft
        \/ \E w \in ConnectedClients : w \in waiters /\ ClientIdx(w) = i
  BY <1>2 DEF SlotsOf, ClientIdx, WaitingFor, SomebodyLeft
<1>7. ASSUME NEW d \in ConnectedClients  PROVE  ClientEffect(d)
  <2>1. d \in Clients /\ ClientIdx(d) \in Slots \ {ServerIdx(s)} /\ Grows(peer[d], peer[d])
    BY <1>3, Ends
  <2>2. CASE d \in waiters
    <3>1. /\ client[d].connectionState = "PROCESSING_REQUEST"
          /\ \E answer \in Answers : client'[d] = InitializeAnswerSending(client[d], answer)
          /\ ClientIdx(d)' = ClientIdx(d)
      BY <1>2, <2>1, <2>2, WaiterAnswered DEF ConnectedClients
    <3>2. ClientIdx(d) \in SlotsOf(waiters)
      BY <2>2 DEF SlotsOf, ClientIdx
    <3>. QED  BY <1>4, <1>5, <2>1, <3>1, <3>2 DEF ClientEffect, ClientWoken, ClientSlot
  <2>3. CASE d \notin waiters
    <3>1. client'[d] = client[d] /\ ClientIdx(d)' = ClientIdx(d)
      BY <1>2, <2>1, <2>3, FetchEndsForObjects DEF ConnectedClients, ClientIdx
    <3>2. CASE ClientIdx(d) \in SlotsOf(waiters)
      <4>1. SomebodyLeft
        BY <1>3, <1>6, <2>3, <3>2, Places DEF ConnectedClients
      <4>. QED  BY <1>4, <1>5, <2>1, <3>1, <3>2, <4>1 DEF ClientEffect, ClientDisturbed, ClientSlot
    <3>3. CASE ClientIdx(d) \notin SlotsOf(waiters)
      BY <1>4, <1>5, <2>1, <3>1, <3>3 DEF ClientEffect, ClientKept, ClientSlot
    <3>. QED  BY <3>2, <3>3
  <2>. QED  BY <2>2, <2>3
<1>8. ASSUME NEW t \in ConnectedServers \ {s}  PROVE  ServerEffect(t)
  <2>1. /\ t \in Servers \ {s} /\ ServerIdx(t) \in Slots \ {ServerIdx(s)}
        /\ Grows(origin[t], origin[t])
        /\ server'[t] = server[t] /\ origin'[t] = origin[t] /\ ServerIdx(t)' = ServerIdx(t)
    BY <1>3, <1>4, Ends DEF ServerIdx
  <2>2. CASE ServerIdx(t) \in SlotsOf(waiters)
    <3>1. SomebodyLeft
      BY <1>3, <1>6, <2>2, Places DEF ConnectedClients, ConnectedServers
    <3>. QED  BY <1>5, <2>1, <2>2, <3>1 DEF ServerEffect, ServerDisturbed, ServerSlot
  <2>3. CASE ServerIdx(t) \notin SlotsOf(waiters)
    BY <1>5, <2>1, <2>3 DEF ServerEffect, ServerKept, ServerSlot
  <2>. QED  BY <2>2, <2>3
<1>. QED  BY <1>4, <1>7, <1>8 DEF Effects

--------------------------------------------------------------------------------
(* Every step has these effects.                                                *)

LEMMA UpdateClientEffects ==
  ASSUME Inv, RequestInv, NEW c \in Clients, UpdateClient(c) \/ SignalInSend(c)
  PROVE  Effects
<1>1. ASSUME NEW answer \in Answers, ReceivesRequest(c), AnswerAtOnce(c, answer)
      PROVE  Effects
  BY <1>1, AnsweringTurnEffect
<1>2. CASE RefuseWrongRequest(c) \/ AnswerFromCache(c) \/ CannotResolveHost(c)
  BY <1>1, <1>2, RefusalsAndHits, AnswersAtOnce
<1>3. CASE JoinWaiters(c)
  BY <1>3, JoiningTurnEffect
<1>4. CASE FetchFromOrigin(c)
  BY <1>4, OpeningTurnEffect
<1>5. CASE ReceivePartOfRequest(c)
  BY <1>5, ReceivingTurnEffect
<1>6. CASE SendsPart(c)
  BY <1>6, SendingTurnEffect
<1>7. CASE SendAnswerKillsProcess(c) \/ ParseRequestKillsProcess(c)
  BY <1>7, ThreadGoesOn
<1>8. CASE ClientIsQuiet(c)
  BY <1>8, QuietTurnEffect
<1>9. CASE \/ ClientSocketError(c) \/ ReceiveRequestFails(c)
           \/ SendAnswerFails(c) \/ SendAnswerInterrupted(c) \/ SendAnswerCompletes(c)
  <2>1. AtClient(c) /\ IsShutDown(c)
    BY <1>9 DEF IsShutDown, ClientSocketError, ReceiveRequestFails, SendAnswerFails,
       SendAnswerInterrupted, InterruptsSend, SendAnswerCompletes, SendTakesAnswer, SendsAnswer
  <2>. QED  BY <2>1, DepartureKeepsOthers
<1>. QED
  BY <1>2, <1>3, <1>4, <1>5, <1>6, <1>7, <1>8, <1>9
  DEF UpdateClient, SignalInSend, SendsPart

LEMMA UpdateServerEffects ==
  ASSUME Inv, RequestInv, NEW s \in Servers, UpdateServer(s)
  PROVE  Effects
<1>1. CASE ServerSocketError(s) \/ ReceiveEndOfAnswer(s) \/ ReceiveAnswerFails(s)
  <2>1. \E state : FetchEnds(s, state)
    BY <1>1 DEF ServerSocketError, ReceiveEndOfAnswer, ReceiveAnswerFails, ReceivesAnswer,
       FetchEnds, FinalStates
  <2>. QED  BY <2>1, FetchEndsEffect
<1>2. CASE ForwardRequestFails(s)
  <2>1. AtServer(s)
    BY <1>2 DEF ForwardRequestFails, ForwardsRequest
  <2>2. CASE server[s].connectionState = "RECEIVING_ANSWER"
    BY <1>2, <2>1, <2>2, RepeatedTurnEffect DEF ForwardRequestFails
  <2>3. CASE server[s].connectionState # "RECEIVING_ANSWER"
    BY <1>2, <2>1, <2>3, FetchEndsEffect DEF ForwardRequestFails, FetchEnds, FinalStates
  <2>. QED  BY <2>2, <2>3
<1>3. CASE ForwardRequest(s)
  BY <1>3, ForwardingTurnEffect
<1>4. CASE ReceivePartOfAnswer(s)
  BY <1>4, FetchingTurnEffect
<1>5. CASE ForwardRequestKillsProcess(s) \/ ParseAnswerKillsProcess(s)
  BY <1>5, ThreadGoesOn
<1>6. CASE ServerIsQuiet(s)
  BY <1>6, UneventfulTurnEffect
<1>. QED  BY <1>1, <1>2, <1>3, <1>4, <1>5, <1>6 DEF UpdateServer

LEMMA StepEffects == Inv /\ RequestInv /\ [Next]_vars => Effects
<1>. SUFFICES ASSUME Inv, RequestInv, [Next]_vars  PROVE  Effects
  OBVIOUS
<1>1. CASE Construct
  BY <1>1, NobodyConnected
<1>2. CASE PollReturns
  BY <1>2, PollReports
<1>3. CASE AcceptNewConnection
  BY <1>3, AcceptTakesSlot
<1>4. CASE \/ ConstructFails \/ CheckInterrupt \/ EnterPoll \/ AcceptFails \/ NothingToAccept
           \/ ClientsDone \/ ServersDone \/ SignalArrives \/ Ended \/ UNCHANGED vars
  BY <1>4, ThreadGoesOn
<1>5. CASE \E c \in Clients : UpdateClient(c) \/ SignalInSend(c)
  BY <1>5, UpdateClientEffects
<1>6. CASE \E s \in Servers : UpdateServer(s)
  BY <1>6, UpdateServerEffects
<1>7. CASE (\E c \in Clients : MoveOfClient(c)) \/ \E s \in Servers : MoveOfOrigin(s)
  BY <1>7, MovesOfEnds
<1>. QED
  BY <1>1, <1>2, <1>3, <1>4, <1>5, <1>6, <1>7 DEF Next, Thread

--------------------------------------------------------------------------------
(* What is reported as readable stays receivable.                               *)

(* The numbers in the objects and at the ends. *)
LEMMA Counted ==
  ASSUME Inv
  PROVE  /\ \A c \in ConnectedClients \union ToSet(backlog) :
              /\ c \in Clients
              /\ client[c] \in ClientRecords
              /\ client[c].received \in Nat
              /\ peer[c].sent \in Nat
         /\ \A s \in ConnectedServers :
              /\ s \in Servers
              /\ server[s] \in ServerRecords
              /\ server[s].recvLen \in Nat
              /\ server[s].sendRequestOffset \in 0..ReqLen
              /\ origin[s].sent \in Nat
<1>1. /\ ToSet(clientsConnections) \subseteq Clients /\ ToSet(backlog) \subseteq Clients
      /\ ToSet(serversConnections) \subseteq Servers
  BY InToSet DEF Inv, TypeOK
<1>2. \A c \in Clients : /\ client[c] \in ClientRecords /\ peer[c] \in Peers
                         /\ client[c].received \in Nat /\ peer[c].sent \in Nat
  BY MessagesAssumption DEF Inv, TypeOK, ClientRecords, Peers
<1>3. \A s \in Servers : /\ server[s] \in ServerRecords /\ origin[s] \in Origins
                         /\ server[s].recvLen \in Nat /\ origin[s].sent \in Nat
                         /\ server[s].sendRequestOffset \in 0..ReqLen
  BY MessagesAssumption DEF Inv, TypeOK, ServerRecords, Origins
<1>. QED  BY <1>1, <1>2, <1>3 DEF ConnectedClients, ConnectedServers

(* An end that moves on does not take back what is to be received from it. *)
LEMMA StaysReceivable ==
  ASSUME NEW p, NEW q, NEW got \in Nat, p.sent \in Nat, q.sent \in Nat,
         Grows(q, p), got =< p.sent
  PROVE  /\ got =< q.sent
         /\ ~RecvBlocks(p, got) => ~RecvBlocks(q, got)
<1>1. q.sent >= p.sent /\ (p.fin => q.fin) /\ (p.rst => q.rst)
  BY DEF Grows
<1>2. got =< q.sent
  BY <1>1
<1>3. p.sent - got # 0 => q.sent - got # 0
  BY <1>1
<1>. QED  BY <1>1, <1>2, <1>3 DEF RecvBlocks, Available

(* What poll() reports as readable can be received from. *)
LEMMA ReportedIsReceivable ==
  ASSUME NEW p, NEW got, NEW events
  PROVE  /\ "POLLIN" \in SocketReadiness(p, got, events) =>
              "POLLIN" \in events /\ ~RecvBlocks(p, got)
         /\ "POLLERR" \in SocketReadiness(p, got, events) => "POLLERR" \in events \/ p.rst
         /\ SocketReadiness(p, got, events) \subseteq events \union {"POLLERR"}
BY DEF SocketReadiness

(* Errors are reported without being asked for. *)
LEMMA AskedFor ==
  ASSUME Inv, NEW s \in ConnectedServers
  PROVE  "POLLERR" \notin ServerSlot(s).events
<1>1. s \in Servers
  BY Counted
<1>2. ServerIdx(s) \in Slots
  BY <1>1 DEF Inv, TypeOK, ServerRecords, ServerIdx
<1>3. ServerSlot(s).events \subseteq Events
  BY <1>2 DEF Inv, TypeOK, PollTables, ServerSlot
<1>. QED  BY <1>3 DEF Events

(* ReceivableInv of one connection. *)
ClientReceivable(c) ==
  /\ client[c].received =< peer[c].sent
  /\ "POLLIN" \in ClientSlot(c).revents => ~RecvBlocks(peer[c], client[c].received)

ServerReceivable(s) ==
  /\ server[s].recvLen =< origin[s].sent
  /\ "POLLIN" \in ServerSlot(s).revents => ~RecvBlocks(origin[s], server[s].recvLen)
  /\ "POLLERR" \in ServerSlot(s).revents => origin[s].rst

LEMMA ClientStaysReceivable ==
  ASSUME Inv, Inv', NEW c \in ConnectedClients', ClientEffect(c),
         c \in ConnectedClients => ClientReceivable(c)
  PROVE  ClientReceivable(c)'
<1>1. /\ c \in ConnectedClients => /\ client[c] \in ClientRecords
                                   /\ client[c].received \in Nat /\ peer[c].sent \in Nat
      /\ peer'[c].sent \in Nat
  <2>1. c \in ConnectedClients => /\ client[c] \in ClientRecords
                                  /\ client[c].received \in Nat /\ peer[c].sent \in Nat
    BY Counted
  <2>2. ToSet(clientsConnections') \subseteq Clients /\ peer' \in [Clients -> Peers]
    BY InToSet DEF Inv, TypeOK
  <2>3. \A d \in Clients : peer'[d].sent \in Nat
    BY <2>2, MessagesAssumption DEF Peers
  <2>. QED  BY <2>1, <2>2, <2>3 DEF ConnectedClients
<1>2. CASE ClientKept(c)
  BY <1>1, <1>2, StaysReceivable DEF ClientKept, ClientReceivable
<1>3. CASE ClientReported(c)
  <2>1. /\ "POLLIN" \in ClientSlot(c)'.revents => ~RecvBlocks(peer[c], client[c].received)
        /\ client'[c] = client[c] /\ peer'[c] = peer[c] /\ ClientReceivable(c)
    BY <1>3, ReportedIsReceivable DEF ClientReported
  <2>. QED  BY <2>1 DEF ClientReceivable
<1>4. CASE ClientAccepted(c)
  <2>1. \A idx : NewClient(idx).received = 0
    BY DEF NewClient
  <2>. QED  BY <1>1, <1>4, <2>1 DEF ClientAccepted, ClientReceivable
<1>5. CASE ClientServed(c)
  <2>1. /\ c \in ConnectedClients /\ ClientReceivable(c)
        /\ peer'[c] = peer[c] /\ ClientSlot(c)'.revents = {}
    BY <1>5 DEF ClientServed
  <2>2. \A n \in Nat : /\ PartOfRequest(client[c], n).received = client[c].received + n
                       /\ AnswerPartSent(client[c], n).received = client[c].received
    BY <1>1, <2>1 DEF PartOfRequest, AnswerPartSent, ClientRecords
  <2>3. \A n \in 1..Available(peer[c], client[c].received) :
          n \in Nat /\ client[c].received + n =< peer[c].sent
    BY <1>1, <2>1 DEF Available
  <2>4. client'[c].received =< peer[c].sent
    <3>1. CASE QuietTurn(c)
      BY <2>1, <3>1 DEF QuietTurn, ClientReceivable
    <3>2. CASE ReceivingTurn(c)
      BY <2>2, <2>3, <3>2 DEF ReceivingTurn
    <3>3. CASE EnrollingTurn(c) \/ AnsweringTurn(c)
      BY <3>3 DEF EnrollingTurn, AnsweringTurn, Waiting
    <3>4. CASE SendingTurn(c)
      BY <2>1, <2>2, <3>4 DEF SendingTurn, ClientReceivable
    <3>. QED  BY <1>5, <3>1, <3>2, <3>3, <3>4 DEF ClientServed
  <2>. QED  BY <2>1, <2>4 DEF ClientReceivable
<1>6. CASE ClientWoken(c)
  <2>1. \A answer : InitializeAnswerSending(client[c], answer).received = client[c].received
    BY <1>1, <1>6 DEF InitializeAnswerSending, ClientRecords, ClientWoken
  <2>. QED  BY <1>6, <2>1 DEF ClientWoken, ClientReceivable
<1>7. CASE ClientDisturbed(c)
  BY <1>7 DEF ClientDisturbed, ClientReceivable
<1>. QED  BY <1>2, <1>3, <1>4, <1>5, <1>6, <1>7 DEF ClientEffect

LEMMA ServerStaysReceivable ==
  ASSUME Inv, Inv', NEW s \in ConnectedServers', ServerEffect(s),
         s \in ConnectedServers => ServerReceivable(s)
  PROVE  ServerReceivable(s)'
<1>1. /\ s \in ConnectedServers => /\ server[s] \in ServerRecords
                                   /\ server[s].recvLen \in Nat /\ origin[s].sent \in Nat
      /\ origin'[s].sent \in Nat
  <2>1. s \in ConnectedServers => /\ server[s] \in ServerRecords
                                  /\ server[s].recvLen \in Nat /\ origin[s].sent \in Nat
    BY Counted
  <2>2. ToSet(serversConnections') \subseteq Servers /\ origin' \in [Servers -> Origins]
    BY InToSet DEF Inv, TypeOK
  <2>3. \A t \in Servers : origin'[t].sent \in Nat
    BY <2>2, MessagesAssumption DEF Origins
  <2>. QED  BY <2>1, <2>2, <2>3 DEF ConnectedServers
<1>2. CASE ServerKept(s)
  <2>1. origin[s].rst => origin'[s].rst
    BY <1>2 DEF ServerKept, Grows
  <2>. QED  BY <1>1, <1>2, <2>1, StaysReceivable DEF ServerKept, ServerReceivable
<1>3. CASE ServerReported(s)
  <2>1. /\ "POLLIN" \in ServerSlot(s)'.revents => ~RecvBlocks(origin[s], server[s].recvLen)
        /\ server'[s] = server[s] /\ origin'[s] = origin[s] /\ ServerReceivable(s)
    BY <1>3, ReportedIsReceivable DEF ServerReported
  <2>2. "POLLERR" \notin ServerSlot(s).events
    BY <1>1, <1>3, AskedFor DEF ServerReported
  <2>3. "POLLERR" \in ServerSlot(s)'.revents => origin[s].rst
    BY <1>3, <2>2, ReportedIsReceivable DEF ServerReported
  <2>. QED  BY <2>1, <2>3 DEF ServerReceivable
<1>4. CASE ServerOpened(s)
  <2>1. \A idx, request : NewServer(idx, request).recvLen = 0
    BY DEF NewServer
  <2>. QED  BY <1>1, <1>4, <2>1 DEF ServerOpened, ServerReceivable
<1>5. CASE ServerServed(s)
  <2>1. /\ s \in ConnectedServers /\ ServerReceivable(s)
        /\ origin'[s] = origin[s] /\ ServerSlot(s)'.revents = {}
    BY <1>5 DEF ServerServed
  <2>2. \A n : RequestSent(server[s], n).recvLen = server[s].recvLen
    BY <1>1, <2>1 DEF RequestSent, ServerRecords
  <2>3. \A n \in 1..Available(origin[s], server[s].recvLen) :
          AnswerReceived(server[s], n).recvLen =< origin[s].sent
    BY <1>1, <2>1 DEF Available, AnswerReceived, ServerRecords
  <2>4. server'[s].recvLen =< origin[s].sent
    BY <1>5, <2>1, <2>2, <2>3 DEF ServerServed, UneventfulTurn, RepeatedTurn, ForwardingTurn,
       FetchingTurn, ServerReceivable
  <2>. QED  BY <2>1, <2>4 DEF ServerReceivable
<1>6. CASE ServerDisturbed(s)
  BY <1>6 DEF ServerDisturbed, ServerReceivable
<1>. QED  BY <1>2, <1>3, <1>4, <1>5, <1>6 DEF ServerEffect

LEMMA NextPreservesReceivableInv ==
  Inv /\ Inv' /\ RequestInv /\ ReceivableInv /\ [Next]_vars => ReceivableInv'
<1>. SUFFICES ASSUME Inv, Inv', RequestInv, ReceivableInv, [Next]_vars
              PROVE  ReceivableInv'
  OBVIOUS
<1>1. Effects
  BY StepEffects
<1>2. /\ \A c \in ConnectedClients : ClientReceivable(c)
      /\ \A s \in ConnectedServers : ServerReceivable(s)
  BY DEF ReceivableInv, ClientReceivable, ServerReceivable, ConnectedClients, ConnectedServers,
     ClientSlot, ServerSlot, IsReadyForRead, ServerHasError, CheckConnectionSocketForErrors
<1>3. \A c \in ConnectedClients' : ClientReceivable(c)'
  BY <1>1, <1>2, ClientStaysReceivable DEF Effects
<1>4. \A s \in ConnectedServers' : ServerReceivable(s)'
  BY <1>1, <1>2, ServerStaysReceivable DEF Effects
<1>5. ReceivableInv' <=> /\ \A c \in ConnectedClients' : ClientReceivable(c)'
                         /\ \A s \in ConnectedServers' : ServerReceivable(s)'
  BY DEF ReceivableInv, ClientReceivable, ServerReceivable, ConnectedClients, ConnectedServers,
     ClientSlot, ServerSlot, IsReadyForRead, ServerHasError, CheckConnectionSocketForErrors
<1>. QED  BY <1>3, <1>4, <1>5

LEMMA ReceivableInvariance == Spec => []ReceivableInv
<1>1. Init => ReceivableInv
  BY EmptyList DEF Init, ReceivableInv
<1>2. Inv /\ Inv' /\ RequestInv /\ ReceivableInv /\ [Next]_vars => ReceivableInv'
  BY NextPreservesReceivableInv
<1>. QED  BY <1>1, <1>2, Invariance, RequestInvariance, PTL DEF Spec

(* No handler calls recv() on a blocking socket that has nothing to return:     *)
(* however often the iterator repeats a connection or passes it over, however   *)
(* old the results of poll() are and whatever the other ends do meanwhile       *)
(* (Proxy.cpp:150, 170, 313, 321).                                              *)
THEOREM ReceiveIsSafe == Spec => []ReceiveNeverBlocks
<1>1. Inv /\ ReceivableInv => ReceiveNeverBlocks
  BY AtClientFacts, AtServerFacts DEF ReceivableInv, ReceiveNeverBlocks, ClientIsReadable,
     ServerIsReadable
<1>. QED  BY <1>1, Invariance, ReceivableInvariance, PTL

--------------------------------------------------------------------------------
(* A request is forwarded once.                                                 *)

(* RelayInv of one connection. *)
Relays(s) ==
  /\ "POLLIN" \in ServerSlot(s).events \union ServerSlot(s).revents
       => server[s].connectionState = "RECEIVING_ANSWER"
  /\ server[s].connectionState = "RECEIVING_ANSWER" => server[s].sendRequestOffset = ReqLen

(* A turn of s that forwards: when nothing is left, nothing is sent.            *)
LEMMA ForwardingResult ==
  ASSUME NEW object \in ServerRecords,
         NEW n \in SendTakes(ReqLen - object.sendRequestOffset)
  PROVE  LET next == RequestSent(object, n)
         IN  /\ next.recvLen = object.recvLen
             /\ next.connectionState = "RECEIVING_ANSWER" <=> next.sendRequestOffset = ReqLen
             /\ next.sendRequestOffset = object.sendRequestOffset + n
             /\ object.sendRequestOffset = ReqLen =>
                  /\ next.sendRequestOffset = ReqLen
                  /\ next.connectionState = "RECEIVING_ANSWER"
<1>1. object.sendRequestOffset \in 0..ReqLen /\ ReqLen \in Nat
  BY MessagesAssumption DEF ServerRecords
<1>2. object.sendRequestOffset = ReqLen => n = 0
  BY <1>1 DEF SendTakes
<1>3. /\ RequestSent(object, n).recvLen = object.recvLen
      /\ RequestSent(object, n).sendRequestOffset = object.sendRequestOffset + n
      /\ RequestSent(object, n).connectionState =
           IF object.sendRequestOffset + n = ReqLen
           THEN "RECEIVING_ANSWER" ELSE "SENDING_REQUEST"
  BY DEF RequestSent, ServerRecords
<1>. QED  BY <1>1, <1>2, <1>3

LEMMA FetchingResult ==
  ASSUME NEW object \in ServerRecords, NEW n \in Nat
  PROVE  LET next == AnswerReceived(object, n)
         IN  /\ next.recvLen = object.recvLen + n
             /\ next.recvLen >= object.recvLen
             /\ next.connectionState = "RECEIVING_ANSWER"
             /\ next.sendRequestOffset = object.sendRequestOffset
<1>1. object.recvLen \in Nat
  BY MessagesAssumption DEF ServerRecords
<1>. QED  BY <1>1 DEF AnswerReceived, ServerRecords

LEMMA ServerStaysRelay ==
  ASSUME Inv, NEW s \in ConnectedServers', ServerEffect(s),
         s \in ConnectedServers => Relays(s)
  PROVE  /\ Relays(s)'
         /\ s \in ConnectedServers /\ server[s].connectionState = "RECEIVING_ANSWER" =>
              /\ server'[s].connectionState = "RECEIVING_ANSWER"
              /\ server'[s].sendRequestOffset = server[s].sendRequestOffset
              /\ server'[s].recvLen >= server[s].recvLen
<1>1. s \in ConnectedServers => /\ server[s] \in ServerRecords
                                /\ server[s].recvLen >= server[s].recvLen
  BY Counted
<1>2. CASE ServerKept(s)
  BY <1>1, <1>2 DEF ServerKept, Relays
<1>3. CASE ServerReported(s)
  <2>1. /\ "POLLIN" \in ServerSlot(s)'.revents => "POLLIN" \in ServerSlot(s).events
        /\ ServerSlot(s)'.events = ServerSlot(s).events
        /\ server'[s] = server[s] /\ Relays(s) /\ s \in ConnectedServers
    BY <1>3, ReportedIsReceivable DEF ServerReported
  <2>. QED  BY <1>1, <2>1 DEF Relays
<1>4. CASE ServerOpened(s)
  <2>1. \A idx, request : NewServer(idx, request).connectionState = "SENDING_REQUEST"
    BY DEF NewServer
  <2>. QED  BY <1>4, <2>1 DEF ServerOpened, Relays
<1>5. CASE ServerServed(s)
  <2>1. /\ s \in ConnectedServers /\ Relays(s) /\ server[s] \in ServerRecords
        /\ ServerSlot(s)'.revents = {}
    BY <1>1, <1>5 DEF ServerServed
  <2>2. CASE UneventfulTurn(s) \/ RepeatedTurn(s)
    BY <1>1, <2>1, <2>2 DEF UneventfulTurn, RepeatedTurn, Relays
  <2>3. CASE ForwardingTurn(s)
    <3>1. PICK n \in SendTakes(ReqLen - server[s].sendRequestOffset) :
            /\ server'[s] = RequestSent(server[s], n)
            /\ ServerSlot(s)'.events = IF server[s].sendRequestOffset + n = ReqLen
                                       THEN {"POLLIN"} ELSE ServerSlot(s).events
      BY <2>3 DEF ForwardingTurn
    <3>2. /\ server'[s].recvLen = server[s].recvLen
          /\ server'[s].connectionState = "RECEIVING_ANSWER"
               <=> server[s].sendRequestOffset + n = ReqLen
          /\ server'[s].sendRequestOffset = server[s].sendRequestOffset + n
          /\ server[s].sendRequestOffset = ReqLen =>
               /\ server'[s].sendRequestOffset = ReqLen
               /\ server'[s].connectionState = "RECEIVING_ANSWER"
      BY <2>1, <3>1, ForwardingResult
    <3>. QED  BY <1>1, <2>1, <3>1, <3>2 DEF Relays
  <2>4. CASE FetchingTurn(s)
    <3>1. /\ server[s].connectionState = "RECEIVING_ANSWER"
          /\ server[s].sendRequestOffset = ReqLen
      BY <2>1, <2>4 DEF FetchingTurn, Relays
    <3>2. \A n \in 1..Available(origin[s], server[s].recvLen) : n \in Nat
      OBVIOUS
    <3>3. /\ server'[s].connectionState = "RECEIVING_ANSWER"
          /\ server'[s].sendRequestOffset = ReqLen
          /\ server'[s].recvLen >= server[s].recvLen
      BY <2>1, <2>4, <3>1, <3>2, FetchingResult DEF FetchingTurn
    <3>. QED  BY <3>1, <3>3 DEF Relays
  <2>. QED  BY <1>5, <2>2, <2>3, <2>4 DEF ServerServed
<1>6. CASE ServerDisturbed(s)
  BY <1>1, <1>6 DEF ServerDisturbed, Relays
<1>. QED  BY <1>2, <1>3, <1>4, <1>5, <1>6 DEF ServerEffect

LEMMA RelayStep ==
  ASSUME Inv, RequestInv, RelayInv, [Next]_vars
  PROVE  /\ RelayInv'
         /\ \A s \in ConnectedServers \intersect ConnectedServers' :
              server[s].connectionState = "RECEIVING_ANSWER" =>
                /\ server'[s].connectionState = "RECEIVING_ANSWER"
                /\ server'[s].sendRequestOffset = server[s].sendRequestOffset
                /\ server'[s].recvLen >= server[s].recvLen
<1>1. Effects
  BY StepEffects
<1>2. \A s \in ConnectedServers : Relays(s)
  BY DEF RelayInv, Relays, ConnectedServers, ServerSlot
<1>3. \A s \in ConnectedServers' :
        /\ Relays(s)'
        /\ s \in ConnectedServers /\ server[s].connectionState = "RECEIVING_ANSWER" =>
             /\ server'[s].connectionState = "RECEIVING_ANSWER"
             /\ server'[s].sendRequestOffset = server[s].sendRequestOffset
             /\ server'[s].recvLen >= server[s].recvLen
  BY <1>1, <1>2, ServerStaysRelay DEF Effects
<1>4. (\A s \in ConnectedServers' : Relays(s)') => RelayInv'
  BY DEF RelayInv, Relays, ConnectedServers, ServerSlot
<1>. QED  BY <1>3, <1>4

LEMMA RelayInvariance == Spec => []RelayInv
<1>1. Init => RelayInv
  BY EmptyList DEF Init, RelayInv
<1>2. Inv /\ RequestInv /\ RelayInv /\ [Next]_vars => RelayInv'
  BY RelayStep
<1>. QED  BY <1>1, <1>2, Invariance, RequestInvariance, PTL DEF Spec

(* A request is forwarded once: a connection that has forwarded it only         *)
(* receives, also when a departed client's index lets it be polled for writing  *)
(* again, because sendRequest() then has nothing left to send                   *)
(* (Proxy.cpp:300-312, ServerConnection.cpp:31-49).                             *)
THEOREM ForwardedOnce == Spec => FetchNeverRestarted
<1>. DEFINE Onward == \A s \in ToSet(serversConnections) :
              server[s].connectionState = "RECEIVING_ANSWER" /\ s \in ToSet(serversConnections')
                => /\ server'[s].connectionState = "RECEIVING_ANSWER"
                   /\ server'[s].sendRequestOffset = server[s].sendRequestOffset
                   /\ server'[s].recvLen >= server[s].recvLen
<1>1. Inv /\ RequestInv /\ RelayInv /\ [Next]_vars => [Onward]_vars
  BY RelayStep DEF ConnectedServers
<1>. QED
  BY <1>1, Invariance, RequestInvariance, RelayInvariance, PTL DEF Spec, FetchNeverRestarted

--------------------------------------------------------------------------------
(* An answer is sent once.                                                      *)

LEMMA AnswerGoesOnward ==
  ASSUME Inv, RequestInv, NEW c \in ConnectedClients, ClientEffect(c),
         client[c].connectionState = "RECEIVING_ANSWER"
  PROVE  /\ client'[c].connectionState = "RECEIVING_ANSWER"
         /\ client'[c].sendAnswerBuf = client[c].sendAnswerBuf
         /\ client'[c].sendAnswerOffset >= client[c].sendAnswerOffset
<1>1. /\ client[c] \in ClientRecords /\ ~Idle(client[c])
      /\ client[c].sendAnswerOffset \in Nat
  <2>1. client[c] \in ClientRecords
    BY Counted
  <2>. QED  BY <2>1, MessagesAssumption DEF ClientRecords, Idle
<1>2. \A n \in Nat : LET next == AnswerPartSent(client[c], n)
                     IN  /\ next.connectionState = client[c].connectionState
                         /\ next.sendAnswerBuf = client[c].sendAnswerBuf
                         /\ next.sendAnswerOffset = client[c].sendAnswerOffset + n
  BY <1>1 DEF AnswerPartSent, ClientRecords
<1>3. client'[c] = client[c] \/ \E n \in Nat : client'[c] = AnswerPartSent(client[c], n)
  BY <1>1 DEF ClientEffect, ClientKept, ClientReported, ClientAccepted, ClientServed, ClientWoken,
     ClientDisturbed, QuietTurn, ReceivingTurn, EnrollingTurn, AnsweringTurn, SendingTurn
<1>. QED  BY <1>1, <1>2, <1>3

(* A client is sent one answer, and every byte of it once: neither the end of a *)
(* fetch nor the repetition of its turn in a pass starts it again               *)
(* (Proxy.cpp:231-250, 271-280).                                                *)
THEOREM AnsweredOnce == Spec => AnswerNeverRestarted
<1>. DEFINE Onward == \A c \in ToSet(clientsConnections) :
              client[c].connectionState = "RECEIVING_ANSWER" /\ c \in ToSet(clientsConnections')
                => /\ client'[c].connectionState = "RECEIVING_ANSWER"
                   /\ client'[c].sendAnswerBuf = client[c].sendAnswerBuf
                   /\ client'[c].sendAnswerOffset >= client[c].sendAnswerOffset
<1>1. Inv /\ RequestInv /\ [Next]_vars => [Onward]_vars
  BY StepEffects, AnswerGoesOnward DEF Effects, ConnectedClients
<1>. QED
  BY <1>1, Invariance, RequestInvariance, PTL DEF Spec, AnswerNeverRestarted

--------------------------------------------------------------------------------
(* What an origin has sent is passed on whole.                                  *)

(* The turns of c that end in shutdownClientConnection(c). *)
Departs(c) ==
  \/ ClientSocketError(c) \/ ReceiveRequestFails(c)
  \/ SendAnswerFails(c) \/ SendAnswerInterrupted(c) \/ SendAnswerCompletes(c)

LEMMA DepartsEffect ==
  ASSUME NEW c, Departs(c)
  PROVE  AtClient(c) /\ IsShutDown(c)
BY DEF Departs, IsShutDown, ClientSocketError, ReceiveRequestFails, SendAnswerFails,
   SendAnswerInterrupted, InterruptsSend, SendAnswerCompletes, SendTakesAnswer, SendsAnswer

(* A server connection leaves the list in its own turn, when its fetch ends.    *)
LEMMA ServersStay ==
  ASSUME Inv, [Next]_vars, NEW s \in ConnectedServers, s \notin ConnectedServers'
  PROVE  /\ s \in Servers /\ UpdateServer(s)
         /\ ServerSocketError(s) \/ ForwardRequestFails(s) \/ ReceiveEndOfAnswer(s)
              \/ ReceiveAnswerFails(s)
<1>1. ~UNCHANGED serversConnections
  BY DEF ConnectedServers
<1>2. serversConnections \in Seq(Servers)
  BY DEF Inv, TypeOK
<1>3. ASSUME NEW c \in Clients, FetchFromOrigin(c)  PROVE  FALSE
  <2>1. PICK t \in Servers \ ToSet(serversConnections) :
          serversConnections' = Append(serversConnections, t)
    BY <1>3 DEF FetchFromOrigin, InitializeNewServerConnection
  <2>2. IsInjective(serversConnections)
    BY <1>3, AtClientFacts DEF FetchFromOrigin, MissesCache, ReceivesRequest, TableInv
  <2>3. ConnectedServers \subseteq ConnectedServers'
    BY <1>2, <2>1, <2>2, AppendNew DEF ConnectedServers
  <2>. QED  BY <2>3
<1>4. ASSUME NEW c \in Clients, UpdateClient(c) \/ SignalInSend(c)  PROVE  FALSE
  <2>1. CASE RefuseWrongRequest(c) \/ AnswerFromCache(c) \/ CannotResolveHost(c)
    BY <1>1, <2>1 DEF RefuseWrongRequest, AnswerFromCache, CannotResolveHost, AnswerAtOnce, lists
  <2>2. CASE Departs(c)
    BY <1>1, <2>2, DepartsEffect DEF IsShutDown, ShutdownClientConnection
  <2>3. CASE \/ ReceivePartOfRequest(c) \/ SendPartOfAnswer(c) \/ SendAnswerCutShort(c)
             \/ SendAnswerKillsProcess(c) \/ ParseRequestKillsProcess(c) \/ ClientIsQuiet(c)
             \/ JoinWaiters(c)
    BY <1>1, <2>3 DEF ReceivePartOfRequest, SendPartOfAnswer, SendAnswerCutShort, KeepSending,
       SendAnswerKillsProcess, ParseRequestKillsProcess, ClientIsQuiet, JoinWaiters, lists
  <2>. QED  BY <1>3, <1>4, <2>1, <2>2, <2>3 DEF UpdateClient, SignalInSend, Departs
<1>5. ASSUME NEW t \in Servers, AtServer(t), NEW state, ShutdownServerConnection(t, state)
      PROVE  s = t
  <2>1. IsInjective(serversConnections)
    BY <1>5, AtServerFacts DEF TableInv
  <2>2. it \in 1..Len(serversConnections) /\ t = serversConnections[it]
    BY <1>5, ServerInList DEF Inv
  <2>3. serversConnections' = RemoveAt(serversConnections, it)
    BY <1>5 DEF ShutdownServerConnection
  <2>4. ConnectedServers' = ConnectedServers \ {t}
    BY <1>2, <2>1, <2>2, <2>3, EraseAt DEF ConnectedServers
  <2>. QED  BY <2>4
<1>6. ASSUME NEW t \in Servers, UpdateServer(t)
      PROVE  /\ s = t
             /\ ServerSocketError(t) \/ ForwardRequestFails(t) \/ ReceiveEndOfAnswer(t)
                  \/ ReceiveAnswerFails(t)
  <2>1. CASE \/ ForwardRequest(t) \/ ReceivePartOfAnswer(t) \/ ServerIsQuiet(t)
             \/ ForwardRequestKillsProcess(t) \/ ParseAnswerKillsProcess(t)
    BY <1>1, <2>1 DEF ForwardRequest, ReceivePartOfAnswer, ServerIsQuiet,
       ForwardRequestKillsProcess, ParseAnswerKillsProcess, KeepServer, lists
  <2>2. CASE ServerSocketError(t) \/ ReceiveEndOfAnswer(t) \/ ReceiveAnswerFails(t)
    BY <1>5, <2>2 DEF ServerSocketError, ReceiveEndOfAnswer, ReceiveAnswerFails, ReceivesAnswer
  <2>3. CASE ForwardRequestFails(t)
    BY <1>1, <1>5, <2>3 DEF ForwardRequestFails, ForwardsRequest, KeepServer, lists
  <2>. QED  BY <1>6, <2>1, <2>2, <2>3 DEF UpdateServer
<1>7. ASSUME NEW c \in Clients, MoveOfClient(c)  PROVE  FALSE
  BY <1>1, <1>7 DEF MoveOfClient, Connect, ClientSends, ClientCloses, ClientResets,
     ClientStalls, ClientReadsAgain, OnlyPeer, lists
<1>8. ASSUME NEW t \in Servers, MoveOfOrigin(t)  PROVE  FALSE
  BY <1>1, <1>8 DEF MoveOfOrigin, OriginSends, OriginCloses, OriginResets, OnlyOrigin, lists
<1>9. CASE \/ Construct \/ ConstructFails \/ CheckInterrupt \/ EnterPoll \/ PollReturns
           \/ AcceptNewConnection \/ AcceptFails \/ NothingToAccept
           \/ ClientsDone \/ ServersDone \/ SignalArrives \/ Ended \/ UNCHANGED vars
  BY <1>1, <1>9 DEF Construct, ConstructFails, CheckInterrupt, EnterPoll, PollReturns,
     AcceptNewConnection, AcceptFails, NothingToAccept, ClientsDone, ServersDone, SignalArrives,
     Ended, vars, lists
<1>. QED  BY <1>4, <1>6, <1>7, <1>8, <1>9 DEF Next, Thread

(* An error of the socket, of send() and of recv() is a reset; what is left is  *)
(* recv() returning 0: everything has been received and the origin has closed.  *)
LEMMA FetchEndsWithClose ==
  ASSUME Inv, ReceivableInv, [Next]_vars, NEW s \in ConnectedServers, s \notin ConnectedServers',
         ~origin[s].rst, "recv_error" \notin Faults
  PROVE  /\ FetchEnds(s, EndOfStreamState(Received(s)))
         /\ origin[s].fin
         /\ Received(s) = OriginAnswer(origin[s].response, server[s].request, origin[s].sent)
<1>1. ~ServerHasError(s)
  BY DEF ReceivableInv, ConnectedServers
<1>2. ReceiveEndOfAnswer(s)
  BY <1>1, ServersStay DEF ServerSocketError, ForwardRequestFails, SendFails, ReceiveAnswerFails,
     RecvFails
<1>3. server[s].recvLen \in Nat /\ origin[s].sent \in Nat
  BY Counted
<1>4. origin[s].fin /\ server[s].recvLen = origin[s].sent
  BY <1>2, <1>3 DEF ReceiveEndOfAnswer, RecvEndOfStream, Available
<1>. QED  BY <1>2, <1>4 DEF ReceiveEndOfAnswer, ReceivesAnswer, FetchEnds, FinalStates, Received

(* However the answer was cut into pieces and whenever it was read, and however *)
(* clients joined, left and were repeated meanwhile: when the fetch ends and    *)
(* the origin was not reset, it had closed, and everything it sent has reached  *)
(* every connected client that waited, and the cache if anything did -- unless  *)
(* recv() may fail while something is still queued (Proxy.cpp:252-288, 294-327; *)
(* ServerConnection.cpp:62-87).                                                 *)
THEOREM AllIsPassedOn == Spec => AnswerPassedOnWhole
<1>. DEFINE All(s) == OriginAnswer(origin[s].response, server[s].request, origin[s].sent)
            Whole  == \A s \in ToSet(serversConnections) :
               s \notin ToSet(serversConnections') /\ ~origin[s].rst /\ "recv_error" \notin Faults
                 => LET key == server[s].request.key
                    IN  /\ origin[s].fin
                        /\ \A c \in ToSet(clientsConnections) :
                             c \in WaitingFor(key) => client'[c].sendAnswerBuf = All(s)
                        /\ key \in DOMAIN cacheStorage' => cacheStorage'[key] = All(s)
<1>1. Inv /\ RequestInv /\ ReceivableInv /\ [Next]_vars => [Whole]_vars
  <2>. SUFFICES ASSUME Inv, RequestInv, ReceivableInv, [Next]_vars,
                       NEW s \in ConnectedServers, s \notin ConnectedServers', ~origin[s].rst,
                       "recv_error" \notin Faults
                PROVE  LET key == server[s].request.key
                       IN  /\ origin[s].fin
                           /\ \A c \in ConnectedClients :
                                c \in WaitingFor(key) => client'[c].sendAnswerBuf = All(s)
                           /\ key \in DOMAIN cacheStorage' => cacheStorage'[key] = All(s)
    BY DEF ConnectedServers, ConnectedClients
  <2>. DEFINE key   == server[s].request.key
              state == EndOfStreamState(Received(s))
  <2>1. FetchEnds(s, state) /\ origin[s].fin /\ Received(s) = All(s)
    BY FetchEndsWithClose
  <2>2. state \in {"CACHING_ANSWER_RECEIVED", "NOT_CACHING_ANSWER_RECEIVED"}
    BY DEF EndOfStreamState
  <2>. HIDE DEF state
  <2>3. AnswerInState(s, state) = All(s)
    BY <2>1, <2>2 DEF AnswerInState
  <2>4. ASSUME NEW c \in ConnectedClients, c \in WaitingFor(key)
        PROVE  client'[c].sendAnswerBuf = All(s)
    <3>1. c \in Clients
      BY Counted
    <3>. QED  BY <2>1, <2>3, <2>4, <3>1, FetchEndsForObjects DEF ConnectedClients
  <2>5. ASSUME key \in DOMAIN cacheStorage'
        PROVE  cacheStorage'[key] = All(s)
    <3>1. key \notin DOMAIN cacheStorage
      BY DEF Inv, SingleFlight, ConnectedServers
    <3>2. cacheStorage' = IF state = "CACHING_ANSWER_RECEIVED"
                          THEN Put(cacheStorage, key, Received(s)) ELSE cacheStorage
      BY <2>1 DEF FetchEnds, ShutdownServerConnection, CacheAfter
    <3>. HIDE DEF key
    <3>3. cacheStorage' = Put(cacheStorage, key, Received(s))
      BY <2>5, <3>1, <3>2
    <3>. QED  BY <2>1, <3>3 DEF Put
  <2>. QED  BY <2>1, <2>4, <2>5
<1>. QED
  BY <1>1, Invariance, RequestInvariance, ReceivableInvariance, PTL DEF Spec, AnswerPassedOnWhole

--------------------------------------------------------------------------------
(* What a connection is polled for, while nobody leaves a set of waiting        *)
(* clients.                                                                     *)

ClientArmed(c) ==
  ClientSlot(c).events =
    CASE client[c].connectionState \in {"WAITING_FOR_REQUEST", "RECEIVING_REQUEST"} -> {"POLLIN"}
      [] client[c].connectionState = "RECEIVING_ANSWER" -> {"POLLOUT"}
      [] OTHER -> {}

ServerArmed(s) ==
  ServerSlot(s).events =
    IF server[s].connectionState = "SENDING_REQUEST" THEN {"POLLOUT"} ELSE {"POLLIN"}

ClientToldTrue(c) ==
  /\ ClientSlot(c).revents \subseteq ClientSlot(c).events \union {"POLLERR"}
  /\ "POLLERR" \in ClientSlot(c).revents => peer[c].rst

ServerToldTrue(s) ==
  ServerSlot(s).revents \subseteq ServerSlot(s).events \union {"POLLERR"}

LEMMA ClientArmedByState ==
  ASSUME NEW c
  PROVE  /\ Idle(client[c]) => (ClientArmed(c) <=> ClientSlot(c).events = {"POLLIN"})
         /\ Waiting(client[c]) => (ClientArmed(c) <=> ClientSlot(c).events = {})
         /\ Answered(client[c]) => (ClientArmed(c) <=> ClientSlot(c).events = {"POLLOUT"})
BY DEF ClientArmed, Idle, Waiting, Answered

(* The same of the state after a step. *)
LEMMA ClientArmedAfter ==
  ASSUME NEW c
  PROVE  /\ Idle(client'[c]) => (ClientArmed(c)' <=> ClientSlot(c)'.events = {"POLLIN"})
         /\ Waiting(client'[c]) => (ClientArmed(c)' <=> ClientSlot(c)'.events = {})
         /\ Answered(client'[c]) => (ClientArmed(c)' <=> ClientSlot(c)'.events = {"POLLOUT"})
BY DEF ClientArmed, Idle, Waiting, Answered

LEMMA ClientStaysArmed ==
  ASSUME Inv, RequestInv, ~SomebodyLeft, NEW c \in ConnectedClients', ClientEffect(c),
         c \in ConnectedClients => ClientArmed(c) /\ ClientToldTrue(c)
  PROVE  ClientArmed(c)' /\ ClientToldTrue(c)'
<1>1. c \in ConnectedClients => /\ client[c] \in ClientRecords
                                /\ Proper(client[c])
                                /\ ClientSlot(c).events \in SUBSET Events
  <2>1. c \in ConnectedClients => c \in Clients /\ TypeOK /\ client[c] \in ClientRecords
    BY Counted DEF Inv
  <2>2. c \in ConnectedClients => ClientSlot(c).events \in SUBSET Events
    BY <2>1 DEF ClientSlot, ClientIdx, TypeOK, PollTables, ClientRecords
  <2>. QED  BY <2>1, <2>2 DEF RequestInv, Proper
<1>2. CASE ClientKept(c)
  BY <1>2 DEF ClientKept, ClientArmed, ClientToldTrue, Grows
<1>3. CASE ClientReported(c)
  <2>1. /\ ClientSlot(c)'.revents \subseteq ClientSlot(c).events \union {"POLLERR"}
        /\ "POLLERR" \in ClientSlot(c)'.revents => "POLLERR" \in ClientSlot(c).events \/ peer[c].rst
        /\ ClientSlot(c)'.events = ClientSlot(c).events
        /\ client'[c] = client[c] /\ peer'[c] = peer[c]
        /\ c \in ConnectedClients
    BY <1>3, ReportedIsReceivable DEF ClientReported
  <2>2. "POLLERR" \notin ClientSlot(c).events
    BY <1>1, <2>1 DEF Events
  <2>. QED  BY <2>1, <2>2 DEF ClientArmed, ClientToldTrue
<1>4. CASE ClientAccepted(c)
  <2>1. Idle(client'[c])
    BY <1>4, NewClientIsIdle DEF ClientAccepted
  <2>. QED  BY <1>4, <2>1, ClientArmedAfter DEF ClientAccepted, ClientToldTrue
<1>5. CASE ClientServed(c)
  <2>1. c \in ConnectedClients /\ ClientSlot(c)'.revents = {} /\ ClientArmed(c)
    BY <1>5 DEF ClientServed
  <2>2. ClientArmed(c)'
    <3>1. CASE QuietTurn(c)
      BY <2>1, <3>1 DEF QuietTurn, ClientArmed
    <3>2. CASE ReceivingTurn(c)
      BY <1>1, <2>1, <3>2, IdleReceives, ClientArmedByState, ClientArmedAfter DEF ReceivingTurn
    <3>3. CASE EnrollingTurn(c)
      BY <3>3, ClientArmedAfter DEF EnrollingTurn
    <3>4. CASE AnsweringTurn(c)
      BY <3>4, ClientArmedAfter DEF AnsweringTurn
    <3>5. CASE SendingTurn(c)
      BY <1>1, <2>1, <3>5, AnswerGoesOn, ClientArmedByState, ClientArmedAfter DEF SendingTurn
    <3>. QED  BY <1>5, <3>1, <3>2, <3>3, <3>4, <3>5 DEF ClientServed
  <2>. QED  BY <2>1, <2>2 DEF ClientToldTrue
<1>6. CASE ClientWoken(c)
  <2>1. c \in ConnectedClients /\ Waiting(client[c])
    BY <1>1, <1>6 DEF ClientWoken, Proper, Idle, Answered
  <2>2. Answered(client'[c])
    BY <1>1, <1>6, <2>1, AnswerStarts DEF ClientWoken, Waiting
  <2>3. ClientSlot(c).events = {}
    BY <2>1, ClientArmedByState
  <2>4. ClientToldTrue(c)'
    BY <1>6, <2>1, <2>3 DEF ClientWoken, ClientToldTrue
  <2>. QED  BY <1>6, <2>2, <2>4, ClientArmedAfter DEF ClientWoken
<1>7. CASE ClientDisturbed(c)
  BY <1>7 DEF ClientDisturbed
<1>. QED  BY <1>2, <1>3, <1>4, <1>5, <1>6, <1>7 DEF ClientEffect

LEMMA ServerStaysArmed ==
  ASSUME Inv, FetchInv, ~SomebodyLeft, NEW s \in ConnectedServers', ServerEffect(s),
         s \in ConnectedServers => ServerArmed(s) /\ ServerToldTrue(s) /\ Relays(s)
  PROVE  ServerArmed(s)' /\ ServerToldTrue(s)'
<1>1. s \in ConnectedServers =>
        /\ server[s] \in ServerRecords
        /\ server[s].connectionState \in {"SENDING_REQUEST", "RECEIVING_ANSWER"}
  BY Counted DEF FetchInv
<1>2. CASE ServerKept(s)
  BY <1>2 DEF ServerKept, ServerArmed, ServerToldTrue
<1>3. CASE ServerReported(s)
  BY <1>3, ReportedIsReceivable DEF ServerReported, ServerArmed, ServerToldTrue
<1>4. CASE ServerOpened(s)
  <2>1. \A idx, request : NewServer(idx, request).connectionState = "SENDING_REQUEST"
    BY DEF NewServer
  <2>. QED  BY <1>4, <2>1 DEF ServerOpened, ServerArmed, ServerToldTrue
<1>5. CASE ServerServed(s)
  <2>1. /\ s \in ConnectedServers /\ ServerArmed(s) /\ Relays(s)
        /\ server[s] \in ServerRecords
        /\ ServerSlot(s)'.revents = {}
    BY <1>1, <1>5 DEF ServerServed
  <2>2. CASE UneventfulTurn(s) \/ RepeatedTurn(s)
    BY <2>1, <2>2 DEF UneventfulTurn, RepeatedTurn, ServerArmed, ServerToldTrue
  <2>3. CASE ForwardingTurn(s)
    <3>1. PICK n \in SendTakes(ReqLen - server[s].sendRequestOffset) :
            /\ server'[s] = RequestSent(server[s], n)
            /\ ServerSlot(s)'.events = IF server[s].sendRequestOffset + n = ReqLen
                                       THEN {"POLLIN"} ELSE ServerSlot(s).events
      BY <2>3 DEF ForwardingTurn
    <3>2. server'[s].connectionState = IF server[s].sendRequestOffset + n = ReqLen
                                       THEN "RECEIVING_ANSWER" ELSE "SENDING_REQUEST"
      BY <2>1, <3>1 DEF RequestSent, ServerRecords
    <3>3. server[s].connectionState = "RECEIVING_ANSWER" => server[s].sendRequestOffset + n = ReqLen
      BY <2>1, <3>1, <3>2, ForwardingResult DEF Relays
    <3>. QED  BY <1>1, <2>1, <3>1, <3>2, <3>3 DEF ServerArmed, ServerToldTrue
  <2>4. CASE FetchingTurn(s)
    <3>1. server[s].connectionState = "RECEIVING_ANSWER"
      BY <2>1, <2>4 DEF FetchingTurn, Relays
    <3>2. \A n \in 1..Available(origin[s], server[s].recvLen) : n \in Nat
      OBVIOUS
    <3>3. server'[s].connectionState = "RECEIVING_ANSWER"
      BY <2>1, <2>4, <3>2, FetchingResult DEF FetchingTurn
    <3>. QED  BY <2>1, <2>4, <3>1, <3>3 DEF FetchingTurn, ServerArmed, ServerToldTrue
  <2>. QED  BY <1>5, <2>2, <2>3, <2>4 DEF ServerServed
<1>6. CASE ServerDisturbed(s)
  BY <1>6 DEF ServerDisturbed
<1>. QED  BY <1>2, <1>3, <1>4, <1>5, <1>6 DEF ServerEffect

(* The steps, by who comes and goes. *)
LEMMA ComingsAndGoings ==
  ASSUME [Next]_vars
  PROVE  \/ AcceptNewConnection
         \/ \E c \in Clients : Departs(c) \/ JoinWaiters(c) \/ FetchFromOrigin(c) \/ MoveOfClient(c)
         \/ \E s, state : ShutdownServerConnection(s, state)
         \/ UNCHANGED <<clientsConnections, backlog, peer, clientsWaitingForResponse>>
<1>1. ASSUME NEW c \in Clients, UpdateClient(c) \/ SignalInSend(c)
      PROVE  \/ Departs(c) \/ JoinWaiters(c) \/ FetchFromOrigin(c)
             \/ UNCHANGED <<clientsConnections, backlog, peer, clientsWaitingForResponse>>
  <2>1. CASE RefuseWrongRequest(c) \/ AnswerFromCache(c) \/ CannotResolveHost(c)
    BY <2>1 DEF RefuseWrongRequest, AnswerFromCache, CannotResolveHost, AnswerAtOnce, lists,
       store, env
  <2>2. CASE \/ ReceivePartOfRequest(c) \/ SendPartOfAnswer(c) \/ SendAnswerCutShort(c)
             \/ SendAnswerKillsProcess(c) \/ ParseRequestKillsProcess(c) \/ ClientIsQuiet(c)
    BY <2>2 DEF ReceivePartOfRequest, SendPartOfAnswer, SendAnswerCutShort, KeepSending,
       SendAnswerKillsProcess, ParseRequestKillsProcess, ClientIsQuiet, lists, store, env
  <2>. QED  BY <1>1, <2>1, <2>2 DEF UpdateClient, SignalInSend, Departs
<1>2. ASSUME NEW s \in Servers, UpdateServer(s)
      PROVE  \/ \E state : ShutdownServerConnection(s, state)
             \/ UNCHANGED <<clientsConnections, backlog, peer, clientsWaitingForResponse>>
  <2>1. CASE ServerSocketError(s) \/ ReceiveEndOfAnswer(s) \/ ReceiveAnswerFails(s)
    BY <2>1 DEF ServerSocketError, ReceiveEndOfAnswer, ReceiveAnswerFails
  <2>2. CASE ForwardRequestFails(s)
    BY <2>2 DEF ForwardRequestFails, KeepServer, lists, store, env
  <2>3. CASE ForwardRequest(s) \/ ReceivePartOfAnswer(s)
    BY <2>3 DEF ForwardRequest, ReceivePartOfAnswer, KeepServer, lists, store, env
  <2>4. CASE ServerIsQuiet(s) \/ ForwardRequestKillsProcess(s) \/ ParseAnswerKillsProcess(s)
    BY <2>4 DEF ServerIsQuiet, ForwardRequestKillsProcess, ParseAnswerKillsProcess, KeepServer,
       lists, store, env
  <2>. QED  BY <1>2, <2>1, <2>2, <2>3, <2>4 DEF UpdateServer
<1>3. ASSUME NEW s \in Servers, MoveOfOrigin(s)
      PROVE  UNCHANGED <<clientsConnections, backlog, peer, clientsWaitingForResponse>>
  BY <1>3 DEF MoveOfOrigin, OriginSends, OriginCloses, OriginResets, OnlyOrigin, lists, store
<1>4. CASE \/ Construct \/ ConstructFails \/ CheckInterrupt \/ EnterPoll \/ PollReturns
           \/ AcceptFails \/ NothingToAccept
           \/ ClientsDone \/ ServersDone \/ SignalArrives \/ Ended \/ UNCHANGED vars
  BY <1>4 DEF Construct, ConstructFails, CheckInterrupt, EnterPoll, PollReturns, AcceptFails,
     NothingToAccept, ClientsDone, ServersDone, SignalArrives, Ended, vars, lists, store, env
<1>. QED  BY <1>1, <1>2, <1>3, <1>4 DEF Next, Thread

(* A client that waits is not shut down: its socket was not reset, nothing is   *)
(* received from it and nothing is sent to it.                                  *)
LEMMA NoWaiterDeparts ==
  ASSUME Inv, RequestInv, ReceivableInv, ArmedInv, NEW c, Departs(c)
  PROVE  client[c].connectionState # "PROCESSING_REQUEST"
<1>. SUFFICES ASSUME client[c].connectionState = "PROCESSING_REQUEST"  PROVE FALSE
  OBVIOUS
<1>1. AtClient(c)
  BY DepartsEffect
<1>2. /\ c \in Clients /\ c \in ToSet(clientsConnections)
      /\ Waiting(client[c])
  BY <1>1, AtClientFacts DEF RequestInv, Idle, Answered
<1>3. ~ClientSocketError(c)
  <2>1. client[c].received = ReqLen /\ client[c].received =< peer[c].sent
    BY <1>2 DEF Waiting, ReceivableInv
  <2>2. Awaits(c)
    BY <1>2, <2>1, Counted DEF Awaits, ConnectedClients
  <2>3. ~peer[c].rst
    BY <1>2, <2>2 DEF ArmedInv, NobodyLeavesWaiting
  <2>. QED
    BY <1>2, <2>3 DEF ClientSocketError, ClientHasError, CheckConnectionSocketForErrors, ArmedInv,
       ReportedInv
<1>4. ~ReceiveRequestFails(c)
  BY <1>1, ReadableIsIdle DEF ReceiveRequestFails, Idle
<1>5. ~SendsAnswer(c)
  BY <1>2 DEF SendsAnswer, Waiting
<1>. QED
  BY <1>3, <1>4, <1>5 DEF Departs, SendAnswerFails, SendAnswerInterrupted, InterruptsSend,
     SendAnswerCompletes, SendTakesAnswer

(* Whoever waits stays connected. *)
LEMMA WaitersStay ==
  ASSUME Inv, RequestInv, ReceivableInv, ArmedInv, [Next]_vars
  PROVE  \A k \in DOMAIN clientsWaitingForResponse' :
           clientsWaitingForResponse'[k] \subseteq ConnectedClients'
<1>1. \A k \in DOMAIN clientsWaitingForResponse :
        clientsWaitingForResponse[k] \subseteq ConnectedClients
  BY DEF ArmedInv, NobodyLeavesWaiting, ConnectedClients
<1>2. ASSUME UNCHANGED clientsWaitingForResponse, ConnectedClients \subseteq ConnectedClients'
      PROVE  \A k \in DOMAIN clientsWaitingForResponse' :
               clientsWaitingForResponse'[k] \subseteq ConnectedClients'
  BY <1>1, <1>2
<1>3. ASSUME AcceptNewConnection
      PROVE  UNCHANGED clientsWaitingForResponse /\ ConnectedClients \subseteq ConnectedClients'
  <2>1. PICK c : c = Head(backlog)
    OBVIOUS
  <2>2. /\ backlog \in Seq(Clients) /\ backlog # <<>> /\ IsInjective(backlog)
        /\ clientsConnections \in Seq(Clients) /\ IsInjective(clientsConnections)
    BY <1>3 DEF AcceptNewConnection, Inv, Nothing, AcceptInv, TypeOK, TableInv
  <2>3. c \in Clients /\ c \notin ToSet(clientsConnections)
    BY <2>1, <2>2, TakeFirst, InToSet DEF Inv, AcceptInv
  <2>4. clientsConnections' = Append(clientsConnections, c)
    BY <1>3, <2>1 DEF AcceptNewConnection
  <2>. QED  BY <1>3, <2>2, <2>3, <2>4, AppendNew DEF AcceptNewConnection, store, ConnectedClients
<1>4. ASSUME NEW c \in Clients, Departs(c)
      PROVE  \A k \in DOMAIN clientsWaitingForResponse' :
               clientsWaitingForResponse'[k] \subseteq ConnectedClients'
  <2>1. AtClient(c) /\ IsShutDown(c)
    BY <1>4, DepartsEffect
  <2>2. UNCHANGED clientsWaitingForResponse /\ ConnectedClients' = ConnectedClients \ {c}
    BY <2>1, ClientLeavesObjects DEF store, ConnectedClients
  <2>3. \A k \in DOMAIN clientsWaitingForResponse : c \notin clientsWaitingForResponse[k]
    BY <1>4, NoWaiterDeparts DEF Inv, NoOrphanedWaiter
  <2>. QED  BY <1>1, <2>2, <2>3
<1>5. ASSUME NEW c \in Clients, JoinWaiters(c) \/ FetchFromOrigin(c)
      PROVE  \A k \in DOMAIN clientsWaitingForResponse' :
               clientsWaitingForResponse'[k] \subseteq ConnectedClients'
  <2>1. c \in ConnectedClients /\ ConnectedClients' = ConnectedClients
    BY <1>5, AtClientFacts DEF JoinWaiters, FetchFromOrigin, MissesCache, ReceivesRequest, lists,
       ConnectedClients
  <2>2. CASE JoinWaiters(c)
    BY <1>1, <2>1, <2>2 DEF JoinWaiters
  <2>3. CASE FetchFromOrigin(c)
    BY <1>1, <2>1, <2>3 DEF FetchFromOrigin, AddClientInWaitersList, Put, WaitingFor
  <2>. QED  BY <1>5, <2>2, <2>3
<1>6. ASSUME NEW s, NEW state, ShutdownServerConnection(s, state)
      PROVE  \A k \in DOMAIN clientsWaitingForResponse' :
               clientsWaitingForResponse'[k] \subseteq ConnectedClients'
  BY <1>1, <1>6 DEF ShutdownServerConnection, Restrict, ConnectedClients
<1>7. ASSUME NEW c \in Clients, MoveOfClient(c)
      PROVE  UNCHANGED clientsWaitingForResponse /\ ConnectedClients \subseteq ConnectedClients'
  BY <1>7 DEF MoveOfClient, Connect, ClientSends, ClientCloses, ClientResets, ClientStalls,
     ClientReadsAgain, OnlyPeer, lists, store, ConnectedClients
<1>8. ASSUME UNCHANGED <<clientsConnections, backlog, peer, clientsWaitingForResponse>>
      PROVE  UNCHANGED clientsWaitingForResponse /\ ConnectedClients \subseteq ConnectedClients'
  BY <1>8 DEF ConnectedClients
<1>. QED
  BY <1>2, <1>3, <1>4, <1>5, <1>6, <1>7, <1>8, ComingsAndGoings

(* The other ends of the connections that are open, after a step. *)
Watched == ConnectedClients \union ToSet(backlog)

EndEffect(c) ==
  \/ ~peer'[c].rst
  \/ ~Awaits(c)'
  \/ c \in ConnectedClients \intersect ConnectedClients' /\ peer'[c] = peer[c]
  \/ c \in ToSet(backlog) /\ peer'[c] = peer[c]

LEMMA EndsOfClients ==
  ASSUME Inv, RequestInv, "reset_while_waiting" \notin Faults, [Next]_vars
  PROVE  \A c \in Watched' : EndEffect(c)
<1>1. ASSUME UNCHANGED <<clientsConnections, backlog, peer>>
      PROVE  \A c \in Watched' : EndEffect(c)
  BY <1>1 DEF Watched, EndEffect, ConnectedClients
<1>2. ASSUME AcceptNewConnection
      PROVE  \A c \in Watched' : EndEffect(c)
  <2>1. PICK c : c = Head(backlog)
    OBVIOUS
  <2>2. /\ backlog \in Seq(Clients) /\ backlog # <<>> /\ IsInjective(backlog)
        /\ clientsConnections \in Seq(Clients) /\ IsInjective(clientsConnections)
    BY <1>2 DEF AcceptNewConnection, Inv, Nothing, AcceptInv, TypeOK, TableInv
  <2>3. /\ c \in Clients /\ c \in ToSet(backlog) /\ c \notin ToSet(clientsConnections)
        /\ ToSet(Tail(backlog)) = ToSet(backlog) \ {c}
    BY <2>1, <2>2, TakeFirst, InToSet DEF Inv, AcceptInv
  <2>4. clientsConnections' = Append(clientsConnections, c)
    BY <1>2, <2>1 DEF AcceptNewConnection
  <2>5. ToSet(clientsConnections') = ToSet(clientsConnections) \union {c}
    BY <2>2, <2>3, <2>4, AppendNew
  <2>6. peer' = peer /\ backlog' = Tail(backlog)
    BY <1>2 DEF AcceptNewConnection
  <2>. QED  BY <2>3, <2>5, <2>6 DEF Watched, EndEffect, ConnectedClients
<1>3. ASSUME NEW c \in Clients, Departs(c)
      PROVE  \A d \in Watched' : EndEffect(d)
  <2>1. AtClient(c) /\ IsShutDown(c)
    BY <1>3, DepartsEffect
  <2>2. ConnectedClients' = ConnectedClients \ {c} /\ backlog' = backlog
    BY <2>1, ClientLeavesObjects DEF ConnectedClients, IsShutDown, ShutdownClientConnection
  <2>3. PICK end \in {ClosedPeer, AnsweredPeer} : peer' = [peer EXCEPT ![c] = end]
    BY <2>1 DEF IsShutDown, ShutdownClientConnection
  <2>4. ~end.rst /\ peer \in [Clients -> Peers]
    BY ClosedEnds DEF Inv, TypeOK
  <2>5. Watched' \subseteq Clients
    BY <2>2, Counted DEF Watched
  <2>. QED  BY <2>2, <2>3, <2>4, <2>5 DEF Watched, EndEffect
<1>4. ASSUME NEW c \in Clients, MoveOfClient(c)
      PROVE  \A d \in Watched' : EndEffect(d)
  <2>1. peer \in [Clients -> Peers] /\ ToSet(clientsConnections) \subseteq Clients
        /\ backlog \in Seq(Clients) /\ ToSet(backlog) \subseteq Clients /\ IsInjective(backlog)
    BY InToSet DEF Inv, TypeOK, AcceptInv
  <2>2. ASSUME NEW request, Connect(c, request)
        PROVE  \A d \in Watched' : EndEffect(d)
    <3>1. c \notin ToSet(backlog)
      BY <2>2 DEF Connect, Inv, AcceptInv
    <3>2. ToSet(backlog') = ToSet(backlog) \union {c} /\ clientsConnections' = clientsConnections
      BY <2>1, <2>2, <3>1, AppendNew DEF Connect, lists
    <3>3. ~peer'[c].rst /\ \A d \in Clients \ {c} : peer'[d] = peer[d]
      BY <2>1, <2>2 DEF Connect, ClosedPeer
    <3>. QED  BY <2>1, <3>2, <3>3 DEF Watched, EndEffect, ConnectedClients
  <2>3. ASSUME OnlyPeer, ~peer'[c].rst \/ ~Awaits(c)',
               \A d \in Clients \ {c} : peer'[d] = peer[d]
        PROVE  \A d \in Watched' : EndEffect(d)
    BY <2>1, <2>3 DEF Watched, EndEffect, ConnectedClients, OnlyPeer, lists
  <2>4. CASE ClientSends(c) \/ ClientCloses(c) \/ ClientStalls(c) \/ ClientReadsAgain(c)
    <3>1. OnlyPeer /\ ~peer[c].rst
      BY <2>4 DEF ClientSends, ClientCloses, ClientStalls, ClientReadsAgain, PeerMoves
    <3>2. peer'[c].rst = peer[c].rst /\ \A d \in Clients \ {c} : peer'[d] = peer[d]
      <4>1. CASE ClientSends(c)
        BY <2>1, <4>1 DEF ClientSends, Peers
      <4>2. CASE ClientCloses(c)
        BY <2>1, <4>2 DEF ClientCloses, Peers
      <4>3. CASE ClientStalls(c)
        BY <2>1, <4>3 DEF ClientStalls, Peers
      <4>4. CASE ClientReadsAgain(c)
        BY <2>1, <4>4 DEF ClientReadsAgain, Peers
      <4>. QED  BY <2>4, <4>1, <4>2, <4>3, <4>4
    <3>. QED  BY <2>3, <3>1, <3>2
  <2>5. CASE ClientResets(c)
    <3>1. ~Awaits(c) /\ OnlyPeer /\ peer' = [peer EXCEPT ![c].rst = TRUE]
      BY <2>5 DEF ClientResets
    <3>2. /\ peer'[c].sent = peer[c].sent /\ client' = client
          /\ \A d \in Clients \ {c} : peer'[d] = peer[d]
      BY <2>1, <3>1 DEF OnlyPeer, Peers
    <3>3. ~Awaits(c)'
      BY <3>1, <3>2 DEF Awaits
    <3>. QED  BY <2>3, <3>1, <3>2, <3>3
  <2>. QED  BY <1>4, <2>2, <2>4, <2>5 DEF MoveOfClient
<1>5. ASSUME NEW s, NEW state, ShutdownServerConnection(s, state)
      PROVE  UNCHANGED <<clientsConnections, backlog, peer>>
  BY <1>5 DEF ShutdownServerConnection
<1>6. ASSUME NEW c \in Clients, JoinWaiters(c) \/ FetchFromOrigin(c)
      PROVE  UNCHANGED <<clientsConnections, backlog, peer>>
  BY <1>6 DEF JoinWaiters, FetchFromOrigin, lists, env
<1>. QED  BY <1>1, <1>2, <1>3, <1>4, <1>5, <1>6, ComingsAndGoings

LEMMA AwaitingStay ==
  ASSUME Inv, RequestInv, ArmedInv, "reset_while_waiting" \notin Faults, [Next]_vars
  PROVE  \A c \in Watched' : Awaits(c)' => ~peer'[c].rst
<1>. SUFFICES ASSUME NEW c \in Watched', Awaits(c)', peer'[c].rst
              PROVE  FALSE
  OBVIOUS
<1>1. EndEffect(c)
  BY EndsOfClients
<1>2. c \in Watched /\ peer'[c] = peer[c]
  BY <1>1 DEF EndEffect, Watched
<1>3. client[c].connectionState # "RECEIVING_ANSWER"
  <2>1. CASE c \in ConnectedClients \intersect ConnectedClients'
    <3>1. ClientEffect(c)
      BY <2>1, StepEffects DEF Effects
    <3>. QED  BY <2>1, <3>1, AnswerGoesOnward DEF Awaits
  <2>2. CASE c \in ToSet(backlog)
    BY <2>2, NoClientEffect DEF Inv, AcceptInv
  <2>. QED  BY <1>1, <2>1, <2>2 DEF EndEffect
<1>4. Awaits(c)
  BY <1>2, <1>3 DEF Awaits
<1>. QED  BY <1>2, <1>4 DEF ArmedInv, NobodyLeavesWaiting, Watched, ConnectedClients

LEMMA ArmedStep ==
  ASSUME Inv, RequestInv, FetchInv, ReceivableInv, RelayInv, ArmedInv,
         "reset_while_waiting" \notin Faults, [Next]_vars
  PROVE  ArmedInv'
<1>1. /\ \A c \in ConnectedClients : ClientArmed(c) /\ ClientToldTrue(c)
      /\ \A s \in ConnectedServers : ServerArmed(s) /\ ServerToldTrue(s) /\ Relays(s)
  BY DEF ArmedInv, ArmedForState, ReportedInv, RelayInv, ClientArmed, ClientToldTrue, ServerArmed,
     ServerToldTrue, Relays, ConnectedClients, ConnectedServers, ClientSlot, ServerSlot
<1>2. ~SomebodyLeft
  BY DEF SomebodyLeft, ArmedInv, NobodyLeavesWaiting, ConnectedClients
<1>3. Effects
  BY StepEffects
<1>4. \A c \in ConnectedClients' : ClientArmed(c)' /\ ClientToldTrue(c)'
  BY <1>1, <1>2, <1>3, ClientStaysArmed DEF Effects
<1>5. \A s \in ConnectedServers' : ServerArmed(s)' /\ ServerToldTrue(s)'
  BY <1>1, <1>2, <1>3, ServerStaysArmed DEF Effects
<1>6. ArmedForState'
  BY <1>4, <1>5 DEF ArmedForState, ClientArmed, ServerArmed, ConnectedClients, ConnectedServers,
     ClientSlot, ServerSlot
<1>7. ReportedInv'
  BY <1>4, <1>5 DEF ReportedInv, ClientToldTrue, ServerToldTrue, ConnectedClients,
     ConnectedServers, ClientSlot, ServerSlot
<1>8. NobodyLeavesWaiting'
  BY WaitersStay, AwaitingStay DEF NobodyLeavesWaiting, Watched, ConnectedClients
<1>. QED  BY <1>6, <1>7, <1>8 DEF ArmedInv

LEMMA InitEstablishesArmedInv == Init => ArmedInv
<1>. SUFFICES ASSUME Init  PROVE  ArmedInv
  OBVIOUS
<1>1. /\ ToSet(clientsConnections) = {} /\ ToSet(serversConnections) = {} /\ ToSet(backlog) = {}
      /\ DOMAIN clientsWaitingForResponse = {}
  BY EmptyList DEF Init
<1>. QED  BY <1>1 DEF ArmedInv, ArmedForState, ReportedInv, NobodyLeavesWaiting

(* As long as no client's socket is reset while it waits for an answer, every   *)
(* connection is polled for exactly what its state waits for: none sleeps       *)
(* through an event it needs, none is woken in a state that cannot handle it    *)
(* (Proxy.cpp:175, 218, 278, 303-305). Without the assumption the index of a    *)
(* waiting client that left may be another's when its fetch ends.               *)
THEOREM AlwaysArmed ==
  ASSUME "reset_while_waiting" \notin Faults
  PROVE  Spec => []ArmedForState
<1>1. Init => ArmedInv
  BY InitEstablishesArmedInv
<1>2. /\ Inv /\ RequestInv /\ AnswerInv /\ ReceivableInv /\ RelayInv /\ ArmedInv
      /\ [Next]_vars
      => ArmedInv'
  BY ArmedStep DEF AnswerInv
<1>3. ArmedInv => ArmedForState
  BY DEF ArmedInv
<1>. QED
  BY <1>1, <1>2, <1>3, Invariance, RequestInvariance, AnswerInvariance, ReceivableInvariance,
     RelayInvariance, PTL DEF Spec

================================================================================
