------------------------------ MODULE AnswerProofs -----------------------------
(***************************************************************************)
(* What clients are sent and what is cached, proved on top of the          *)
(* invariant of where the connections are.                                 *)
(***************************************************************************)
EXTENDS ProxyProofs

--------------------------------------------------------------------------------
(* Who assigns what.                                                            *)

(* The state in which shutdownServerConnection() meets s. *)
FinalStates(s) == {server[s].connectionState, EndOfStreamState(Received(s))}

(* The end of a fetch. *)
FetchEnds(s, state) ==
  AtServer(s) /\ state \in FinalStates(s) /\ ShutdownServerConnection(s, state)

(* A turn of a server connection ends the fetch or assigns to its object only. *)
LEMMA ServerTurns ==
  ASSUME Inv, NEW s \in Servers, UpdateServer(s)
  PROVE  \/ \E state : FetchEnds(s, state)
         \/ /\ UNCHANGED <<client, cacheStorage>>
            /\ \/ UNCHANGED server
               \/ \E n : \/ server' = [server EXCEPT ![s] = RequestSent(server[s], n)]
                         \/ server' = [server EXCEPT ![s] = AnswerReceived(server[s], n)]
<1>1. CASE ServerSocketError(s) \/ ReceiveEndOfAnswer(s) \/ ReceiveAnswerFails(s)
  BY <1>1 DEF ServerSocketError, ReceiveEndOfAnswer, ReceiveAnswerFails, ReceivesAnswer,
       FetchEnds, FinalStates
<1>2. CASE ForwardRequestFails(s)
  BY <1>2 DEF ForwardRequestFails, ForwardsRequest, KeepServer, store, FetchEnds, FinalStates
<1>3. CASE ForwardRequest(s)
  BY <1>3 DEF ForwardRequest, KeepServer, store
<1>4. CASE ReceivePartOfAnswer(s)
  BY <1>4 DEF ReceivePartOfAnswer, KeepServer, store
<1>5. CASE ServerIsQuiet(s) \/ ForwardRequestKillsProcess(s) \/ ParseAnswerKillsProcess(s)
  BY <1>5 DEF ServerIsQuiet, ForwardRequestKillsProcess, ParseAnswerKillsProcess, KeepServer,
       store
<1>. QED  BY <1>1, <1>2, <1>3, <1>4, <1>5 DEF UpdateServer

(* The objects a turn of client c leaves. *)
Turned(c) ==
  \/ \E list, waiters : client' = Reclaim(client, list, waiters)
  \/ \E n : client' = [client EXCEPT ![c] = PartOfRequest(client[c], n)]
  \/ \E answer :
       /\ client' = Transmitting(RequestReceived(c), {c}, answer)
       /\ IsAnswerTo(peer[c].request, answer)
  \/ client' = RequestReceived(c) /\ peer[c].request.verdict = "WITHOUT_ERRORS"
  \/ \E n : client' = [client EXCEPT ![c] = AnswerPartSent(client[c], n)]
  \/ UNCHANGED client

LEMMA ClientTurns ==
  ASSUME Inv, CacheInv, NEW c \in Clients,
         UpdateClient(c) \/ SignalInSend(c)
  PROVE  /\ UNCHANGED cacheStorage
         /\ \/ UNCHANGED server
            \/ \E s, idx, request : server' = [server EXCEPT ![s] = NewServer(idx, request)]
         /\ Turned(c)
<1>1. CASE \/ ClientSocketError(c) \/ ReceiveRequestFails(c)
           \/ SendAnswerFails(c) \/ SendAnswerInterrupted(c) \/ SendAnswerCompletes(c)
  BY <1>1 DEF ClientSocketError, ReceiveRequestFails, SendAnswerFails, SendAnswerInterrupted,
       SendAnswerCompletes, ShutdownClientConnection, Turned
<1>2. CASE ReceivePartOfRequest(c)
  BY <1>2 DEF ReceivePartOfRequest, Turned, store
<1>3. CASE RefuseWrongRequest(c)
  BY <1>3 DEF RefuseWrongRequest, ErrorStatusOf, AnswerAtOnce, IsAnswerTo, Turned, store
<1>4. CASE AnswerFromCache(c)
  BY <1>4 DEF AnswerFromCache, AnswerAtOnce, IsAnswerTo, CacheInv, Turned, store
<1>5. CASE JoinWaiters(c)
  BY <1>5 DEF JoinWaiters, Turned
<1>6. CASE FetchFromOrigin(c)
  BY <1>6 DEF FetchFromOrigin, InitializeNewServerConnection, MissesCache, Turned
<1>7. CASE CannotResolveHost(c)
  BY <1>7 DEF CannotResolveHost, MissesCache, AnswerAtOnce, IsAnswerTo, Turned, store
<1>8. CASE SendsPart(c)
  <2>1. PICK n \in Nat : KeepSending(c, n)
    BY <1>8, SendsPartEffect
  <2>. QED  BY <2>1 DEF KeepSending, Turned, store
<1>9. CASE SendAnswerKillsProcess(c) \/ ParseRequestKillsProcess(c) \/ ClientIsQuiet(c)
  BY <1>9 DEF SendAnswerKillsProcess, ParseRequestKillsProcess, ClientIsQuiet, Turned, store
<1>. QED
  BY <1>1, <1>2, <1>3, <1>4, <1>5, <1>6, <1>7, <1>8, <1>9
  DEF UpdateClient, SignalInSend, SendsPart

(* Every other step leaves the objects and the cache alone, but for the object  *)
(* of a client that is accepted.                                                *)
LEMMA OtherSteps ==
  ASSUME [Next]_vars
  PROVE  \/ \E c \in Clients : UpdateClient(c) \/ SignalInSend(c)
         \/ \E s \in Servers : UpdateServer(s)
         \/ /\ UNCHANGED <<server, cacheStorage>>
            /\ \/ UNCHANGED client
               \/ \E c, idx : client' = [client EXCEPT ![c] = NewClient(idx)]
<1>1. ASSUME NEW c \in Clients, MoveOfClient(c)  PROVE  UNCHANGED <<client, server, cacheStorage>>
  BY <1>1 DEF MoveOfClient, Connect, ClientSends, ClientCloses, ClientResets, ClientStalls,
       ClientReadsAgain, OnlyPeer, store
<1>2. ASSUME NEW s \in Servers, MoveOfOrigin(s)  PROVE  UNCHANGED <<client, server, cacheStorage>>
  BY <1>2 DEF MoveOfOrigin, OriginSends, OriginCloses, OriginResets, OnlyOrigin, store
<1>3. CASE AcceptNewConnection
  BY <1>3 DEF AcceptNewConnection, store
<1>4. CASE \/ Construct \/ ConstructFails \/ CheckInterrupt \/ EnterPoll \/ PollReturns
           \/ AcceptFails \/ NothingToAccept
           \/ ClientsDone \/ ServersDone \/ SignalArrives \/ Ended \/ UNCHANGED vars
  BY <1>4 DEF Construct, ConstructFails, CheckInterrupt, EnterPoll, PollReturns,
       AcceptFails, NothingToAccept, ClientsDone, ServersDone, SignalArrives, Ended, vars, store
<1>. QED  BY <1>1, <1>2, <1>3, <1>4 DEF Next, Thread

--------------------------------------------------------------------------------
(* The steps preserve AnswerInv.                                                *)

(* What the invariant asks of one object. *)
Consistent(object) ==
  /\ object.connectionState = "PROCESSING_REQUEST" => object.request.verdict = "WITHOUT_ERRORS"
  /\ object.connectionState = "RECEIVING_ANSWER"
       => IsAnswerTo(object.request, object.sendAnswerBuf)

LEMMA NewClientIsConsistent ==
  ASSUME NEW idx
  PROVE  Consistent(NewClient(idx))
BY DEF Consistent, NewClient

LEMMA ReclaimedAreConsistent ==
  ASSUME NEW objects, NEW list, NEW waiters,
         \A c \in Clients : Consistent(objects[c])
  PROVE  \A c \in Clients : Consistent(Reclaim(objects, list, waiters)[c])
BY NewClientIsConsistent DEF Reclaim, NoClient

LEMMA ObjectReplaced ==
  ASSUME TypeOK, ClientInv, NEW c, NEW object,
         Consistent(object), client' = [client EXCEPT ![c] = object]
  PROVE  ClientInv'
BY DEF TypeOK, ClientInv, Consistent

LEMMA TurnKeepsClientInv ==
  ASSUME TypeOK, ClientInv, NEW c \in Clients, Turned(c)
  PROVE  ClientInv'
<1>1. client[c] \in ClientRecords /\ Consistent(client[c])
  BY DEF TypeOK, ClientInv, Consistent
<1>2. CASE \E list, waiters : client' = Reclaim(client, list, waiters)
  BY <1>2, ReclaimedAreConsistent DEF ClientInv, Consistent
<1>3. CASE \E n : client' = [client EXCEPT ![c] = PartOfRequest(client[c], n)]
  <2>1. \A n : Consistent(PartOfRequest(client[c], n))
    BY <1>1 DEF Consistent, PartOfRequest, ClientRecords
  <2>. QED  BY <1>3, <2>1, ObjectReplaced
<1>4. ASSUME NEW answer,
             client' = Transmitting(RequestReceived(c), {c}, answer),
             IsAnswerTo(peer[c].request, answer)
      PROVE  ClientInv'
  <2>. DEFINE whole  == WholeRequest(client[c], peer[c].request)
              object == InitializeAnswerSending(whole, answer)
  <2>1. client' = [client EXCEPT ![c] = object]
    BY <1>4 DEF Transmitting, RequestReceived, TypeOK
  <2>2. Consistent(object)
    BY <1>1, <1>4 DEF InitializeAnswerSending, WholeRequest, Consistent, ClientRecords
  <2>. QED  BY <2>1, <2>2, ObjectReplaced
<1>5. CASE client' = RequestReceived(c) /\ peer[c].request.verdict = "WITHOUT_ERRORS"
  <2>1. Consistent(WholeRequest(client[c], peer[c].request))
    BY <1>1, <1>5 DEF WholeRequest, Consistent, ClientRecords
  <2>. QED  BY <1>5, <2>1, ObjectReplaced DEF RequestReceived
<1>6. CASE \E n : client' = [client EXCEPT ![c] = AnswerPartSent(client[c], n)]
  <2>1. \A n : Consistent(AnswerPartSent(client[c], n))
    BY <1>1 DEF Consistent, AnswerPartSent, ClientRecords
  <2>. QED  BY <1>6, <2>1, ObjectReplaced
<1>7. CASE UNCHANGED client
  BY <1>7 DEF ClientInv
<1>. QED  BY <1>2, <1>3, <1>4, <1>5, <1>6, <1>7 DEF Turned

(* The end of a fetch answers those who asked for it, and caches the answer     *)
(* under what was asked.                                                        *)
LEMMA FetchEndsStep ==
  ASSUME Inv, AnswerInv, NEW s \in Servers, NEW state, FetchEnds(s, state)
  PROVE  AnswerInv'
<1>. DEFINE key     == server[s].request.key
            waiters == WaitingFor(key)
            answer  == AnswerInState(s, state)
<1>1. /\ TypeOK
      /\ server[s] \in ServerRecords
      /\ ClientInv /\ FetchInv /\ CacheInv
  BY AtServerFacts DEF FetchEnds, AnswerInv
<1>2. FetchInv'
  <2>1. NoServer.connectionState = "SENDING_REQUEST"
    BY DEF NoServer, NewServer
  <2>2. server' = [server EXCEPT ![s] = NoServer]
    BY DEF FetchEnds, ShutdownServerConnection
  <2>. QED  BY <1>1, <2>1, <2>2 DEF FetchInv, TypeOK
<1>3. ClientInv'
  <2>1. client' = Reclaim(Transmitting(client, waiters, answer),
                          clientsConnections, clientsWaitingForResponse')
    BY DEF FetchEnds, ShutdownServerConnection
  <2>2. answer = GatewayTimeout \/ answer.request.key = key
    BY DEF AnswerInState, Received, OriginAnswer
  <2>3. ASSUME NEW c \in Clients
        PROVE  Consistent(Transmitting(client, waiters, answer)[c])
    <3>1. client[c] \in ClientRecords /\ Consistent(client[c])
      BY <1>1 DEF TypeOK, ClientInv, Consistent
    <3>2. CASE c \in waiters
      <4>1. client[c].connectionState = "PROCESSING_REQUEST" /\ client[c].request.key = key
        BY <3>2 DEF WaitingFor, Inv, NoOrphanedWaiter
      <4>2. IsAnswerTo(client[c].request, answer)
        BY <2>2, <3>1, <4>1 DEF IsAnswerTo, Consistent
      <4>. HIDE DEF answer
      <4>3. Consistent(InitializeAnswerSending(client[c], answer))
        BY <3>1, <4>2 DEF InitializeAnswerSending, Consistent, ClientRecords
      <4>. QED  BY <3>2, <4>3 DEF Transmitting
    <3>3. CASE c \notin waiters
      BY <3>1, <3>3 DEF Transmitting
    <3>. QED  BY <3>2, <3>3
  <2>. QED  BY <2>1, <2>3, ReclaimedAreConsistent DEF ClientInv, Consistent
<1>4. CacheInv'
  <2>1. cacheStorage' = IF state = "CACHING_ANSWER_RECEIVED"
                        THEN Put(cacheStorage, key, Received(s)) ELSE cacheStorage
    BY DEF FetchEnds, ShutdownServerConnection, CacheAfter
  <2>2. CASE state # "CACHING_ANSWER_RECEIVED"
    BY <1>1, <2>1, <2>2 DEF CacheInv
  <2>3. CASE state = "CACHING_ANSWER_RECEIVED"
    <3>1. Received(s).request.key = key
      BY DEF Received, OriginAnswer
    <3>2. cacheStorage' = Put(cacheStorage, key, Received(s))
      BY <2>1, <2>3
    <3>. HIDE DEF key
    <3>. QED  BY <1>1, <3>1, <3>2 DEF Put, CacheInv
  <2>. QED  BY <2>2, <2>3
<1>. QED  BY <1>2, <1>3, <1>4 DEF AnswerInv

LEMMA UpdateServerKeepsAnswerInv ==
  ASSUME Inv, AnswerInv, NEW s \in Servers, UpdateServer(s)
  PROVE  AnswerInv'
<1>1. ASSUME NEW state, FetchEnds(s, state)  PROVE  AnswerInv'
  BY <1>1, FetchEndsStep
<1>2. ASSUME UNCHANGED <<client, cacheStorage>>, FetchInv'  PROVE  AnswerInv'
  BY <1>2 DEF AnswerInv, ClientInv, CacheInv
<1>3. ASSUME NEW n, \/ server' = [server EXCEPT ![s] = RequestSent(server[s], n)]
                    \/ server' = [server EXCEPT ![s] = AnswerReceived(server[s], n)]
      PROVE  FetchInv'
  <2>1. server \in [Servers -> ServerRecords] /\ server[s] \in ServerRecords
    BY DEF Inv, TypeOK
  <2>2. /\ RequestSent(server[s], n).connectionState \in {"SENDING_REQUEST", "RECEIVING_ANSWER"}
        /\ AnswerReceived(server[s], n).connectionState = "RECEIVING_ANSWER"
    BY <2>1 DEF RequestSent, AnswerReceived, ServerRecords
  <2>. QED  BY <1>3, <2>1, <2>2 DEF AnswerInv, FetchInv
<1>4. UNCHANGED server => FetchInv'
  BY DEF AnswerInv, FetchInv
<1>. QED  BY <1>1, <1>2, <1>3, <1>4, ServerTurns

LEMMA UpdateClientKeepsAnswerInv ==
  ASSUME Inv, AnswerInv, NEW c \in Clients, UpdateClient(c) \/ SignalInSend(c)
  PROVE  AnswerInv'
<1>1. UNCHANGED cacheStorage /\ Turned(c)
  BY ClientTurns DEF AnswerInv
<1>2. ClientInv'
  BY <1>1, TurnKeepsClientInv DEF Inv, AnswerInv
<1>3. FetchInv'
  <2>1. \A idx, request : NewServer(idx, request).connectionState = "SENDING_REQUEST"
    BY DEF NewServer
  <2>2. server \in [Servers -> ServerRecords] /\ FetchInv
    BY DEF Inv, TypeOK, AnswerInv
  <2>3. \/ UNCHANGED server
        \/ \E s, idx, request : server' = [server EXCEPT ![s] = NewServer(idx, request)]
    BY ClientTurns DEF AnswerInv
  <2>. QED  BY <2>1, <2>2, <2>3 DEF FetchInv
<1>4. CacheInv'
  BY <1>1 DEF AnswerInv, CacheInv
<1>. QED  BY <1>2, <1>3, <1>4 DEF AnswerInv

LEMMA NextPreservesAnswerInv == Inv /\ AnswerInv /\ [Next]_vars => AnswerInv'
<1>. SUFFICES ASSUME Inv, AnswerInv, [Next]_vars  PROVE  AnswerInv'
  OBVIOUS
<1>1. ASSUME UNCHANGED <<server, cacheStorage>>, ClientInv'  PROVE  AnswerInv'
  BY <1>1 DEF AnswerInv, FetchInv, CacheInv
<1>2. UNCHANGED client => ClientInv'
  BY DEF AnswerInv, ClientInv
<1>3. ASSUME NEW c, NEW idx, client' = [client EXCEPT ![c] = NewClient(idx)]
      PROVE  ClientInv'
  BY <1>3, NewClientIsConsistent, ObjectReplaced DEF Inv, AnswerInv
<1>. QED
  BY <1>1, <1>2, <1>3, OtherSteps, UpdateClientKeepsAnswerInv, UpdateServerKeepsAnswerInv

LEMMA InitEstablishesAnswerInv == Init => AnswerInv
<1>. SUFFICES ASSUME Init  PROVE  AnswerInv
  OBVIOUS
<1>1. FetchInv
  BY DEF Init, FetchInv, NoServer, NewServer
<1>2. ClientInv
  BY NewClientIsConsistent DEF Init, ClientInv, NoClient, Consistent
<1>3. CacheInv
  BY DEF Init, CacheInv
<1>. QED  BY <1>1, <1>2, <1>3 DEF AnswerInv

LEMMA AnswerInvariance == Spec => []AnswerInv
<1>1. Init => AnswerInv
  BY InitEstablishesAnswerInv
<1>2. Inv /\ AnswerInv /\ [Next]_vars => AnswerInv'
  BY NextPreservesAnswerInv
<1>. QED  BY <1>1, <1>2, Invariance, PTL DEF Spec

(* What a client is being sent is the refusal of its own request, a gateway     *)
(* timeout, or an origin's answer to the method and uri it asked for, whoever   *)
(* fetched it and however slots and waiting clients changed meanwhile           *)
(* (Proxy.cpp:178-227, 255-281).                                                *)
THEOREM AnswersMatch == Spec => []AnswerMatchesRequest
<1>1. Inv /\ AnswerInv => AnswerMatchesRequest
  BY Places, InToSet DEF Inv, TypeOK, AnswerInv, ClientInv, AnswerMatchesRequest
<1>. QED  BY <1>1, Invariance, AnswerInvariance, PTL

--------------------------------------------------------------------------------
(* What is cached stays.                                                        *)

CacheKept ==
  \A k \in DOMAIN cacheStorage :
    k \in DOMAIN cacheStorage' /\ cacheStorage'[k] = cacheStorage[k]

(* The one assignment to the cache is to a key that is being fetched, and such  *)
(* a key is not cached.                                                         *)
LEMMA FetchEndsKeepsCache ==
  ASSUME Inv, NEW s, NEW state, FetchEnds(s, state)
  PROVE  CacheKept
<1>. DEFINE key == server[s].request.key
<1>1. key \notin DOMAIN cacheStorage
  BY AtServerFacts DEF FetchEnds, Inv, SingleFlight
<1>2. cacheStorage' = IF state = "CACHING_ANSWER_RECEIVED"
                      THEN Put(cacheStorage, key, Received(s)) ELSE cacheStorage
  BY DEF FetchEnds, ShutdownServerConnection, CacheAfter
<1>. HIDE DEF key
<1>. QED  BY <1>1, <1>2 DEF Put, CacheKept

(* A cached answer is neither replaced nor dropped, for any number of clients   *)
(* that ask for it and any origins (Proxy.cpp:209, 269; Cache.h:17-20).         *)
THEOREM CachedAnswersStay == Spec => CacheWriteOnce
<1>1. Inv /\ AnswerInv /\ [Next]_vars => [CacheKept]_vars
  <2>. SUFFICES ASSUME Inv, AnswerInv, [Next]_vars  PROVE  CacheKept
    OBVIOUS
  <2>1. UNCHANGED cacheStorage => CacheKept
    BY DEF CacheKept
  <2>. QED
    BY <2>1, FetchEndsKeepsCache, OtherSteps, ClientTurns, ServerTurns DEF AnswerInv
<1>. QED  BY <1>1, Invariance, AnswerInvariance, PTL DEF Spec, CacheWriteOnce, CacheKept

--------------------------------------------------------------------------------
(* What the operations on an object make of it.                                 *)

Proper(object) == Idle(object) \/ Waiting(object) \/ Answered(object)

LEMMA NewClientIsIdle ==
  ASSUME NEW idx
  PROVE  Idle(NewClient(idx))
BY DEF Idle, NewClient

LEMMA IdleReceives ==
  ASSUME NEW object \in ClientRecords, Idle(object), NEW n
  PROVE  Idle(PartOfRequest(object, n))
BY DEF Idle, PartOfRequest, ClientRecords

LEMMA IdleAsks ==
  ASSUME NEW object \in ClientRecords, Idle(object),
         NEW request \in Requests
  PROVE  LET c == WholeRequest(object, request)
         IN  /\ c \in ClientRecords
             /\ c.request = request
             /\ c.sendAnswerBuf = NoBuf
             /\ request.verdict = "WITHOUT_ERRORS" => Waiting(c)
<1>1. WholeRequest(object, request).received = ReqLen
  BY DEF WholeRequest, ClientRecords
<1>2. WholeRequest(object, request).sendAnswerBuf = NoBuf
  BY DEF WholeRequest, ClientRecords, Idle
<1>. QED  BY <1>1, <1>2, WholeRequestEffect DEF Waiting

LEMMA AnswerStarts ==
  ASSUME NEW object \in ClientRecords, object.request \in Requests, NEW answer \in Answers
  PROVE  LET c == InitializeAnswerSending(object, answer)
         IN  /\ Answered(c)
             /\ c.request = object.request
             /\ c.sendAnswerBuf = answer
<1>1. InitializeAnswerSending(object, answer).sendAnswerBuf = answer
  BY DEF InitializeAnswerSending, ClientRecords
<1>. QED  BY <1>1, InitializeAnswerSendingEffect DEF Answered, SamePlace

LEMMA AnswerGoesOn ==
  ASSUME NEW object \in ClientRecords, Answered(object), NEW n
  PROVE  LET c == AnswerPartSent(object, n)
         IN  /\ Answered(c)
             /\ c.request = object.request
             /\ c.sendAnswerBuf = object.sendAnswerBuf
BY DEF Answered, AnswerPartSent, ClientRecords

--------------------------------------------------------------------------------
(* RequestInv is an invariant.                                                  *)

(* A client from which the proxy receives has not asked yet. *)
LEMMA ReadableIsIdle ==
  ASSUME Inv, RequestInv, NEW c, AtClient(c), ClientIsReadable(c)
  PROVE  Idle(client[c])
BY ReadableClient, AtClientFacts DEF RequestInv, Waiting, Answered

(* c's request has been taken. *)
LEMMA RequestTaken ==
  ASSUME Inv, RequestInv, NEW c, ReceivesRequest(c)
  PROVE  LET request == peer[c].request
         IN  /\ TypeOK /\ c \in Clients /\ c \in ToSet(clientsConnections)
             /\ request \in Requests
             /\ client[c].request = NoRequest /\ client[c].sendAnswerBuf = NoBuf
             /\ RequestReceived(c)[c].request = request
             /\ RequestReceived(c)[c].sendAnswerBuf = NoBuf
             /\ RequestReceived(c)[c] \in ClientRecords
             /\ request.verdict = "WITHOUT_ERRORS" => Waiting(RequestReceived(c)[c])
             /\ RequestReceived(c) \in [Clients -> ClientRecords]
             /\ \A d \in Clients \ {c} : RequestReceived(c)[d] = client[d]
<1>. DEFINE request == peer[c].request
            object  == WholeRequest(client[c], request)
<1>1. AtClient(c) /\ ClientIsReadable(c)
  BY DEF ReceivesRequest
<1>2. /\ TypeOK /\ c \in Clients /\ c \in ToSet(clientsConnections)
      /\ client[c] \in ClientRecords /\ request \in Requests
      /\ Idle(client[c])
  BY <1>1, AtClientFacts, ReadableIsIdle
<1>3. /\ object \in ClientRecords
      /\ object.request = request
      /\ object.sendAnswerBuf = NoBuf
      /\ request.verdict = "WITHOUT_ERRORS" => Waiting(object)
  BY <1>2, IdleAsks
<1>4. RequestReceived(c) = [client EXCEPT ![c] = object]
  BY DEF RequestReceived
<1>. HIDE DEF object
<1>5. /\ RequestReceived(c)[c] = object
      /\ RequestReceived(c) \in [Clients -> ClientRecords]
      /\ \A d \in Clients \ {c} : RequestReceived(c)[d] = client[d]
  BY <1>2, <1>3, <1>4 DEF TypeOK
<1>. QED  BY <1>2, <1>3, <1>5 DEF Idle

(* ... and answered at once. *)
LEMMA AnsweredAtOnce ==
  ASSUME Inv, RequestInv, NEW c, ReceivesRequest(c), NEW answer \in Answers,
         AnswerAtOnce(c, answer)
  PROVE  /\ Answered(client'[c])
         /\ client'[c].request = peer[c].request
         /\ client'[c].sendAnswerBuf = answer
         /\ \A d \in Clients \ {c} : client'[d] = client[d]
<1>. DEFINE object == RequestReceived(c)[c]
<1>1. /\ c \in Clients
      /\ object \in ClientRecords /\ object.request = peer[c].request
      /\ peer[c].request \in Requests
      /\ \A d \in Clients \ {c} : RequestReceived(c)[d] = client[d]
  BY RequestTaken
<1>2. /\ client'[c] = InitializeAnswerSending(object, answer)
      /\ \A d \in Clients \ {c} : client'[d] = RequestReceived(c)[d]
  BY <1>1 DEF AnswerAtOnce, Transmitting
<1>. HIDE DEF object
<1>. QED  BY <1>1, <1>2, AnswerStarts

(* The answers that are given at once. *)
LEMMA AnswersAtOnce ==
  ASSUME Inv, NEW c
  PROVE  /\ RefuseWrongRequest(c) =>
              ErrorMessage(ErrorStatusOf[peer[c].request.verdict]) \in Answers
         /\ AnswerFromCache(c) => cacheStorage[peer[c].request.key] \in Answers
         /\ GatewayTimeout \in Answers
<1>1. ASSUME RefuseWrongRequest(c)
      PROVE  ErrorMessage(ErrorStatusOf[peer[c].request.verdict]) \in Answers
  BY <1>1, AtClientFacts, RefusalIsAnswer DEF RefuseWrongRequest, ReceivesRequest
<1>2. ASSUME AnswerFromCache(c)
      PROVE  cacheStorage[peer[c].request.key] \in Answers
  BY <1>2, AtClientFacts DEF AnswerFromCache, ReceivesRequest, TypeOK
<1>. QED  BY <1>1, <1>2, GatewayTimeoutIsAnswer

(* What shutdownServerConnection() answers. *)
LEMMA FinalAnswer ==
  ASSUME Inv, NEW s, AtServer(s), NEW state
  PROVE  /\ AnswerInState(s, state) \in Answers
         /\ server[s].request \in Requests
         /\ Received(s).request = server[s].request
         /\ Received(s).len \in 0..RespLen
         /\ Received(s).status \in OriginStatuses
         /\ Received(s) \in Answers
<1>1. /\ server[s] \in ServerRecords /\ origin[s] \in Origins
      /\ server[s].request \in Requests
  BY AtServerFacts DEF Inv, ObjectInv
<1>2. /\ origin[s].response \in ResponseRecords
      /\ server[s].recvLen \in 0..RespLen
  BY <1>1 DEF Origins, ServerRecords
<1>3. Received(s) \in Answers
  <2>1. server[s].request \in Requests \union {NoRequest}
    BY <1>1
  <2>. QED  BY <1>2, <2>1, OriginAnswerIsAnswer DEF Received
<1>4. /\ Received(s).request = server[s].request
      /\ Received(s).len = server[s].recvLen
      /\ Received(s).status = origin[s].response.status
  BY DEF Received, OriginAnswer
<1>5. Received(s).status \in OriginStatuses
  BY <1>2, <1>4 DEF ResponseRecords
<1>. QED  BY <1>1, <1>2, <1>3, <1>4, <1>5, GatewayTimeoutIsAnswer DEF AnswerInState

(* What the end of a fetch does to the objects that stay: those who wait for    *)
(* the key are answered, and nobody else.                                       *)
LEMMA FetchEndsForObjects ==
  ASSUME Inv, RequestInv, NEW s, NEW state, FetchEnds(s, state), NEW d \in Clients
  PROVE  /\ Proper(client'[d])
         /\ client'[d] \in {NoClient, client[d],
                            InitializeAnswerSending(client[d], AnswerInState(s, state))}
         /\ d \in ToSet(clientsConnections) =>
              IF d \in WaitingFor(server[s].request.key)
              THEN /\ client'[d].request = client[d].request
                   /\ client'[d].sendAnswerBuf = AnswerInState(s, state)
              ELSE client'[d] = client[d]
<1>. DEFINE waiters == WaitingFor(server[s].request.key)
            answer  == AnswerInState(s, state)
            sending == Transmitting(client, waiters, answer)
<1>1. AtServer(s) /\ ShutdownServerConnection(s, state)
  BY DEF FetchEnds
<1>2. TypeOK /\ client[d] \in ClientRecords /\ Proper(client[d])
  BY <1>1, AtServerFacts DEF TypeOK, RequestInv, Proper
<1>3. answer \in Answers
  BY <1>1, FinalAnswer
<1>4. client' = Reclaim(sending, clientsConnections, clientsWaitingForResponse')
  BY <1>1 DEF ShutdownServerConnection
<1>5. d \in waiters => client[d].request \in Requests
  BY <1>2 DEF WaitingFor, Inv, NoOrphanedWaiter, Proper, Idle, Waiting, Answered
<1>. HIDE DEF waiters, answer
<1>6. IF d \in waiters
      THEN /\ Proper(sending[d])
           /\ sending[d] = InitializeAnswerSending(client[d], answer)
           /\ sending[d].request = client[d].request
           /\ sending[d].sendAnswerBuf = answer
      ELSE sending[d] = client[d]
  BY <1>2, <1>3, <1>5, AnswerStarts DEF Transmitting, Proper
<1>. HIDE DEF sending
<1>7. /\ client'[d] \in {NoClient, sending[d]}
      /\ d \in ToSet(clientsConnections) => client'[d] = sending[d]
  BY <1>4 DEF Reclaim
<1>8. Proper(NoClient)
  BY NewClientIsIdle DEF NoClient, Proper
<1>. QED  BY <1>2, <1>6, <1>7, <1>8 DEF waiters, answer

(* What the departure of a client does to the objects. *)
LEMMA ClientLeavesObjects ==
  ASSUME Inv, RequestInv, NEW c, AtClient(c), IsShutDown(c)
  PROVE  /\ RequestInv'
         /\ c \in Clients /\ c \in ToSet(clientsConnections)
         /\ ToSet(clientsConnections') = ToSet(clientsConnections) \ {c}
         /\ \A d \in Clients \intersect ToSet(clientsConnections') : client'[d] = client[d]
         /\ UNCHANGED store
<1>1. /\ TypeOK /\ TableInv
      /\ c \in Clients /\ c \in ToSet(clientsConnections)
      /\ it \in 1..Len(clientsConnections) /\ c = clientsConnections[it]
  BY AtClientFacts, ClientInList
<1>2. ToSet(clientsConnections') = ToSet(clientsConnections) \ {c}
  BY <1>1, EraseAt DEF IsShutDown, ShutdownClientConnection, TableInv, TypeOK
<1>3. UNCHANGED store
  BY AtClientFacts DEF IsShutDown, ShutdownClientConnection, WaitersWithout, store
<1>4. client' = Reclaim(client, clientsConnections', clientsWaitingForResponse')
  BY DEF IsShutDown, ShutdownClientConnection
<1>5. /\ \A d \in Clients : client'[d] \in {client[d], NoClient}
      /\ \A d \in Clients \intersect ToSet(clientsConnections') : client'[d] = client[d]
  BY <1>4 DEF Reclaim
<1>6. RequestInv'
  BY <1>5, NewClientIsIdle DEF RequestInv, NoClient
<1>. QED  BY <1>1, <1>2, <1>3, <1>5, <1>6

(* The two steps that only advance one object. *)
LEMMA PartReceived ==
  ASSUME Inv, RequestInv, NEW c, ReceivePartOfRequest(c)
  PROVE  /\ c \in Clients
         /\ Idle(client'[c]) /\ Idle(client[c])
         /\ \A d \in Clients \ {c} : client'[d] = client[d]
         /\ UNCHANGED <<lists, store>>
<1>1. /\ AtClient(c) /\ ClientIsReadable(c) /\ UNCHANGED <<lists, store>>
      /\ \E n : client' = [client EXCEPT ![c] = PartOfRequest(client[c], n)]
  BY DEF ReceivePartOfRequest
<1>2. TypeOK /\ c \in Clients /\ client[c] \in ClientRecords /\ Idle(client[c])
  BY <1>1, AtClientFacts, ReadableIsIdle
<1>3. \A n : Idle(PartOfRequest(client[c], n))
  BY <1>2, IdleReceives
<1>. QED  BY <1>1, <1>2, <1>3 DEF TypeOK

LEMMA PartSent ==
  ASSUME Inv, RequestInv, NEW c, SendsPart(c)
  PROVE  /\ c \in Clients
         /\ Answered(client'[c])
         /\ client'[c].request = client[c].request
         /\ client'[c].sendAnswerBuf = client[c].sendAnswerBuf
         /\ \A d \in Clients \ {c} : client'[d] = client[d]
         /\ UNCHANGED <<lists, store>>
<1>1. /\ AtClient(c) /\ client[c].sendAnswerBuf # NoBuf /\ UNCHANGED <<lists, store>>
      /\ \E n : client' = [client EXCEPT ![c] = AnswerPartSent(client[c], n)]
  BY SendsPartEffect, ProxyAssumption DEF KeepSending
<1>2. TypeOK /\ c \in Clients /\ client[c] \in ClientRecords
  BY <1>1, AtClientFacts
<1>3. Answered(client[c])
  BY <1>1, <1>2 DEF RequestInv, Idle, Waiting
<1>4. ASSUME NEW n, client' = [client EXCEPT ![c] = AnswerPartSent(client[c], n)]
      PROVE  /\ client'[c] = AnswerPartSent(client[c], n)
             /\ \A d \in Clients \ {c} : client'[d] = client[d]
  BY <1>2, <1>4 DEF TypeOK
<1>. QED  BY <1>1, <1>2, <1>3, <1>4, AnswerGoesOn

(* The client actions, by what becomes of the objects and the maps. *)
LEMMA ClientCases ==
  ASSUME NEW c, UpdateClient(c) \/ SignalInSend(c)
  PROVE  \/ AtClient(c) /\ IsShutDown(c)
         \/ RefuseWrongRequest(c) \/ AnswerFromCache(c) \/ CannotResolveHost(c)
         \/ JoinWaiters(c) \/ FetchFromOrigin(c)
         \/ ReceivePartOfRequest(c) \/ SendsPart(c)
         \/ UNCHANGED <<lists, store, client>>
<1>1. CASE \/ ClientSocketError(c) \/ ReceiveRequestFails(c)
           \/ SendAnswerFails(c) \/ SendAnswerInterrupted(c) \/ SendAnswerCompletes(c)
  BY <1>1 DEF IsShutDown, ClientSocketError, ReceiveRequestFails, SendAnswerFails,
       SendAnswerInterrupted, InterruptsSend, SendAnswerCompletes, SendTakesAnswer, SendsAnswer
<1>2. CASE SendAnswerKillsProcess(c) \/ ParseRequestKillsProcess(c) \/ ClientIsQuiet(c)
  BY <1>2 DEF SendAnswerKillsProcess, ParseRequestKillsProcess, ClientIsQuiet
<1>. QED  BY <1>1, <1>2 DEF UpdateClient, SignalInSend, SendsPart

(* The two steps that enrol a request. *)
LEMMA Enrolled ==
  ASSUME Inv, RequestInv, NEW c, JoinWaiters(c) \/ FetchFromOrigin(c)
  PROVE  /\ ReceivesRequest(c)
         /\ peer[c].request.verdict = "WITHOUT_ERRORS"
         /\ client' = RequestReceived(c)
         /\ UNCHANGED <<clientsConnections, cacheStorage>>
BY DEF JoinWaiters, FetchFromOrigin, MissesCache, lists

LEMMA RefusalsAndHits ==
  ASSUME NEW c
  PROVE  /\ RefuseWrongRequest(c) =>
              /\ ReceivesRequest(c)
              /\ AnswerAtOnce(c, ErrorMessage(ErrorStatusOf[peer[c].request.verdict]))
         /\ AnswerFromCache(c) =>
              ReceivesRequest(c) /\ AnswerAtOnce(c, cacheStorage[peer[c].request.key])
         /\ CannotResolveHost(c) => ReceivesRequest(c) /\ AnswerAtOnce(c, GatewayTimeout)
BY DEF RefuseWrongRequest, AnswerFromCache, CannotResolveHost, MissesCache

LEMMA NextPreservesRequestInv == Inv /\ RequestInv /\ [Next]_vars => RequestInv'
<1>. SUFFICES ASSUME Inv, RequestInv, [Next]_vars  PROVE  RequestInv'
  OBVIOUS
<1>1. ASSUME NEW c \in Clients, Proper(client'[c]),
             \A d \in Clients \ {c} : client'[d] = client[d]
      PROVE  RequestInv'
  BY <1>1 DEF RequestInv, Proper
<1>2. UNCHANGED client => RequestInv'
  BY DEF RequestInv
<1>3. ASSUME NEW c \in Clients, UpdateClient(c) \/ SignalInSend(c)
      PROVE  RequestInv'
  <2>1. ASSUME NEW answer \in Answers, ReceivesRequest(c), AnswerAtOnce(c, answer)
        PROVE  RequestInv'
    BY <1>1, <2>1, AnsweredAtOnce DEF Proper
  <2>2. CASE JoinWaiters(c) \/ FetchFromOrigin(c)
    BY <1>1, <2>2, Enrolled, RequestTaken DEF Proper
  <2>3. CASE ReceivePartOfRequest(c)
    BY <1>1, <2>3, PartReceived DEF Proper
  <2>4. CASE SendsPart(c)
    BY <1>1, <2>4, PartSent DEF Proper
  <2>. QED
    BY <1>2, <1>3, <2>1, <2>2, <2>3, <2>4, ClientCases, ClientLeavesObjects, RefusalsAndHits,
       AnswersAtOnce
<1>4. ASSUME NEW s \in Servers, UpdateServer(s)
      PROVE  RequestInv'
  BY <1>2, <1>4, ServerTurns, FetchEndsForObjects DEF RequestInv, Proper
<1>5. ASSUME NEW c, NEW idx, client' = [client EXCEPT ![c] = NewClient(idx)]
      PROVE  RequestInv'
  BY <1>5, NewClientIsIdle DEF RequestInv, Inv, TypeOK
<1>. QED  BY <1>2, <1>3, <1>4, <1>5, OtherSteps

LEMMA RequestInvariance == Spec => []RequestInv
<1>1. Init => RequestInv
  BY NewClientIsIdle DEF Init, RequestInv, NoClient
<1>. QED  BY <1>1, NextPreservesRequestInv, Invariance, PTL DEF Spec

================================================================================
