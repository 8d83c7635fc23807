---------------------------- MODULE RefinementProofs ---------------------------
(***************************************************************************)
(* Proxy implements SingleFlightCache: the initial states are initial      *)
(* states of the cache, and every step of the proxy is a step of it or     *)
(* changes nothing that its clients can tell.                              *)
(***************************************************************************)
EXTENDS ProxyRefinement, AnswerProofs

--------------------------------------------------------------------------------
(* What the clients can tell.                                                   *)

Connected == ToSet(clientsConnections)

LEMMA Views ==
  ASSUME RequestInv, NEW c \in Clients
  PROVE  /\ Asked[c] = IF c \in Connected THEN client[c].request ELSE NoRequest
         /\ Given[c] = IF c \in Connected THEN client[c].sendAnswerBuf ELSE NoBuf
BY DEF Asked, Given, Connected, RequestInv, Idle, Waiting, Answered

LEMMA ViewsAfter ==
  ASSUME RequestInv', NEW c \in Clients
  PROVE  /\ Asked'[c] = IF c \in Connected' THEN client'[c].request ELSE NoRequest
         /\ Given'[c] = IF c \in Connected' THEN client'[c].sendAnswerBuf ELSE NoBuf
BY DEF Asked, Given, Connected, RequestInv, Idle, Waiting, Answered

(* A client whose object keeps its request and its answer. *)
SameView(d) ==
  /\ d \in Connected' <=> d \in Connected
  /\ d \in Connected => /\ client'[d].request = client[d].request
                        /\ client'[d].sendAnswerBuf = client[d].sendAnswerBuf

LEMMA NothingToTell ==
  ASSUME RequestInv, RequestInv', \A d \in Clients : SameView(d), UNCHANGED store
  PROVE  UNCHANGED Flight!vars
<1>1. \A d \in Clients : Asked'[d] = Asked[d] /\ Given'[d] = Given[d]
  BY Views, ViewsAfter DEF SameView
<1>2. Asked' = Asked /\ Given' = Given
  BY <1>1 DEF Asked, Given
<1>. QED  BY <1>2 DEF Flight!vars, store

(* The one client that something happens to. *)
LEMMA OneToTell ==
  ASSUME RequestInv, RequestInv', NEW c \in Clients,
         \A d \in Clients \ {c} : SameView(d),
         NEW request, NEW answer,
         IF c \in Connected'
         THEN client'[c].request = request /\ client'[c].sendAnswerBuf = answer
         ELSE request = NoRequest /\ answer = NoBuf
  PROVE  /\ Asked' = [Asked EXCEPT ![c] = request]
         /\ Given' = [Given EXCEPT ![c] = answer]
<1>1. /\ \A d \in Clients \ {c} : Asked'[d] = Asked[d] /\ Given'[d] = Given[d]
      /\ Asked'[c] = request /\ Given'[c] = answer
  BY Views, ViewsAfter DEF SameView
<1>. QED  BY <1>1 DEF Asked, Given

(* A request that is taken is asked for the first time. *)
LEMMA AsksNow ==
  ASSUME Inv, RequestInv, RequestInv', NEW c, ReceivesRequest(c),
         UNCHANGED clientsConnections,
         \A d \in Clients \ {c} : client'[d] = client[d],
         client'[c].request = peer[c].request,
         NEW answer, client'[c].sendAnswerBuf = answer
  PROVE  Flight!Asks(c, peer[c].request, answer)
<1>1. c \in Clients /\ c \in Connected /\ client[c].request = NoRequest
  BY RequestTaken DEF Connected
<1>2. Asked[c] = NoRequest
  BY <1>1, Views
<1>3. /\ c \in Connected'
      /\ \A d \in Clients \ {c} : SameView(d)
  BY <1>1 DEF SameView, Connected
<1>4. /\ Asked' = [Asked EXCEPT ![c] = peer[c].request]
      /\ Given' = [Given EXCEPT ![c] = answer]
  BY <1>1, <1>3, OneToTell
<1>. QED  BY <1>2, <1>4 DEF Flight!Asks

LEMMA AsksAndIsAnswered ==
  ASSUME Inv, RequestInv, RequestInv', NEW c, ReceivesRequest(c),
         NEW answer \in Answers, AnswerAtOnce(c, answer)
  PROVE  Flight!Asks(c, peer[c].request, answer) /\ UNCHANGED store
<1>1. UNCHANGED <<clientsConnections, store>>
  BY DEF AnswerAtOnce, lists
<1>. QED  BY <1>1, AnsweredAtOnce, AsksNow

--------------------------------------------------------------------------------
(* Every step of the proxy is one of the cache, or nothing to its clients.      *)

LEMMA RefuseImplemented ==
  ASSUME Inv, RequestInv, RequestInv', NEW c, RefuseWrongRequest(c)
  PROVE  Flight!Refuse(c, peer[c].request)
<1>. DEFINE answer == ErrorMessage(ErrorStatusOf[peer[c].request.verdict])
<1>1. ReceivesRequest(c) /\ AnswerAtOnce(c, answer) /\ answer \in Answers
  BY RefusalsAndHits, AnswersAtOnce
<1>2. answer = Flight!ErrorMessage(Flight!ErrorStatusOf[peer[c].request.verdict])
  BY DEF ErrorMessage, ErrorStatusOf, Flight!ErrorMessage, Flight!ErrorStatusOf
<1>3. peer[c].request.verdict \in DOMAIN Flight!ErrorStatusOf
  BY DEF RefuseWrongRequest, ErrorStatusOf, Flight!ErrorStatusOf
<1>. HIDE DEF answer
<1>4. Flight!Asks(c, peer[c].request, answer) /\ UNCHANGED store
  BY <1>1, AsksAndIsAnswered
<1>. QED  BY <1>2, <1>3, <1>4 DEF Flight!Refuse, store

LEMMA HitImplemented ==
  ASSUME Inv, RequestInv, RequestInv', NEW c, AnswerFromCache(c)
  PROVE  Flight!Hit(c, peer[c].request)
<1>. DEFINE answer == cacheStorage[peer[c].request.key]
<1>1. ReceivesRequest(c) /\ AnswerAtOnce(c, answer) /\ answer \in Answers
  BY RefusalsAndHits, AnswersAtOnce
<1>2. Flight!Asks(c, peer[c].request, answer) /\ UNCHANGED store
  BY <1>1, AsksAndIsAnswered
<1>. QED  BY <1>2 DEF AnswerFromCache, Flight!Hit, Flight!IsValid, store

LEMMA FetchFailsImplemented ==
  ASSUME Inv, RequestInv, RequestInv', NEW c, CannotResolveHost(c)
  PROVE  Flight!FetchFails(c, peer[c].request)
<1>1. /\ ReceivesRequest(c) /\ AnswerAtOnce(c, GatewayTimeout)
      /\ GatewayTimeout \in Answers
  BY RefusalsAndHits, AnswersAtOnce
<1>2. Flight!Asks(c, peer[c].request, GatewayTimeout) /\ UNCHANGED store
  BY <1>1, AsksAndIsAnswered
<1>3. GatewayTimeout = Flight!GatewayTimeout
  BY DEF GatewayTimeout, ErrorMessage, Flight!GatewayTimeout, Flight!ErrorMessage
<1>. QED
  BY <1>2, <1>3 DEF CannotResolveHost, MissesCache, Flight!FetchFails, Flight!IsMiss,
     Flight!IsValid, store

LEMMA EnrolmentAsks ==
  ASSUME Inv, RequestInv, RequestInv', NEW c, JoinWaiters(c) \/ FetchFromOrigin(c)
  PROVE  Flight!Asks(c, peer[c].request, NoBuf)
<1>1. /\ ReceivesRequest(c)
      /\ client' = RequestReceived(c)
      /\ UNCHANGED clientsConnections
  BY Enrolled
<1>2. /\ client'[c].request = peer[c].request
      /\ client'[c].sendAnswerBuf = NoBuf
      /\ \A d \in Clients \ {c} : client'[d] = client[d]
  BY <1>1, RequestTaken
<1>. QED  BY <1>1, <1>2, AsksNow

LEMMA JoinImplemented ==
  ASSUME Inv, RequestInv, RequestInv', NEW c, JoinWaiters(c)
  PROVE  Flight!Join(c, peer[c].request)
<1>1. /\ DOMAIN clientsWaitingForResponse' = DOMAIN clientsWaitingForResponse
      /\ UNCHANGED cacheStorage
  BY DEF JoinWaiters
<1>. QED  BY <1>1, EnrolmentAsks DEF JoinWaiters, Flight!Join, Flight!IsValid

LEMMA FetchImplemented ==
  ASSUME Inv, RequestInv, RequestInv', NEW c, FetchFromOrigin(c)
  PROVE  Flight!Fetch(c, peer[c].request)
<1>1. /\ DOMAIN clientsWaitingForResponse'
           = DOMAIN clientsWaitingForResponse \union {peer[c].request.key}
      /\ UNCHANGED cacheStorage
  BY DEF FetchFromOrigin, AddClientInWaitersList, Put
<1>2. Flight!IsMiss(peer[c].request)
  BY DEF FetchFromOrigin, MissesCache, Flight!IsMiss, Flight!IsValid
<1>. QED  BY <1>1, <1>2, EnrolmentAsks DEF Flight!Fetch

(* A client that has asked leaves; one that has not is not missed. *)
LEMMA LeaveImplemented ==
  ASSUME Inv, RequestInv, NEW c, AtClient(c), IsShutDown(c)
  PROVE  Flight!Leave(c) \/ UNCHANGED Flight!vars
<1>1. /\ RequestInv'
      /\ c \in Clients /\ c \in Connected
      /\ Connected' = Connected \ {c}
      /\ \A d \in Clients \intersect Connected' : client'[d] = client[d]
      /\ UNCHANGED store
  BY ClientLeavesObjects DEF Connected
<1>2. \A d \in Clients \ {c} : SameView(d)
  BY <1>1 DEF SameView
<1>3. /\ Asked' = [Asked EXCEPT ![c] = NoRequest]
      /\ Given' = [Given EXCEPT ![c] = NoBuf]
  BY <1>1, <1>2, OneToTell
<1>4. CASE Asked[c] # NoRequest
  BY <1>1, <1>3, <1>4 DEF Flight!Leave, store
<1>5. CASE Asked[c] = NoRequest
  <2>1. Given[c] = NoBuf
    BY <1>1, <1>5, Views, MessagesAssumption DEF RequestInv, Idle, Waiting, Answered
  <2>2. Asked' = Asked /\ Given' = Given
    BY <1>3, <1>5, <2>1 DEF Asked, Given
  <2>. QED  BY <1>1, <2>2 DEF Flight!vars, store
<1>. QED  BY <1>4, <1>5

(* Those who wait for a resource, as the clients see it, are the connected ones *)
(* in its set of waiting clients.                                               *)
LEMMA WaitersWait ==
  ASSUME Inv, RequestInv, NEW d \in Clients, NEW key
  PROVE  Flight!Waits(d, key) <=> d \in Connected /\ d \in WaitingFor(key)
<1>1. Asked[d] # NoRequest /\ Given[d] = NoBuf <=> d \in Connected /\ Waiting(client[d])
  BY Views, MessagesAssumption, ProxyAssumption DEF RequestInv, Idle, Waiting, Answered
<1>2. ASSUME d \in Connected, Waiting(client[d])
      PROVE  Asked[d].key = key <=> d \in WaitingFor(key)
  BY <1>2, Views DEF Waiting, WaitingFor, Inv, NoOrphanedWaiter, Connected
<1>3. ASSUME d \in WaitingFor(key)
      PROVE  Waiting(client[d])
  BY <1>3 DEF RequestInv, Idle, Answered, WaitingFor, Inv, NoOrphanedWaiter
<1>. QED  BY <1>1, <1>2, <1>3 DEF Flight!Waits

(* The cache keeps what the proxy keeps. *)
LEMMA KeptAnswers ==
  ASSUME Inv, AnswerInv, NEW s, NEW state, FetchEnds(s, state)
  PROVE  LET answer == AnswerInState(s, state)
         IN  /\ answer \in {Flight!GatewayTimeout}
                             \union Flight!AnswersOfOrigins(server[s].request.key)
             /\ Flight!IsToBeKept(answer) <=> state = "CACHING_ANSWER_RECEIVED"
             /\ state = "CACHING_ANSWER_RECEIVED" => answer = Received(s)
<1>. DEFINE whole == Received(s)
<1>1. AtServer(s) /\ s \in Servers /\ state \in FinalStates(s)
  BY AtServerFacts DEF FetchEnds
<1>2. /\ whole \in Answers
      /\ whole.status \in OriginStatuses
      /\ whole.request = server[s].request
      /\ whole.request \in Requests
      /\ whole.len \in 0..RespLen
  BY <1>1, FinalAnswer
<1>3. server[s].connectionState \in {"SENDING_REQUEST", "RECEIVING_ANSWER"}
  BY <1>1 DEF AnswerInv, FetchInv
<1>4. GatewayTimeout = Flight!GatewayTimeout /\ GatewayTimeout.status = 504
  BY DEF GatewayTimeout, ErrorMessage, Flight!GatewayTimeout, Flight!ErrorMessage
<1>5. CASE state \in {"SENDING_REQUEST", "RECEIVING_ANSWER"}
  BY <1>4, <1>5 DEF AnswerInState, Flight!IsToBeKept
<1>6. CASE state \notin {"SENDING_REQUEST", "RECEIVING_ANSWER"}
  <2>1. state = EndOfStreamState(whole) /\ AnswerInState(s, state) = whole
    BY <1>1, <1>3, <1>6 DEF FinalStates, AnswerInState
  <2>. HIDE DEF whole
  <2>2. state = "CACHING_ANSWER_RECEIVED" <=>
          ParseResult(whole) = "ParsingCompleted" /\ whole.status = 200
    BY <2>1 DEF EndOfStreamState, IsResponseStatusIs200
  <2>3. Flight!ParseResult(whole) = ParseResult(whole)
    BY DEF ParseResult, Flight!ParseResult
  <2>4. Flight!IsToBeKept(whole) <=> state = "CACHING_ANSWER_RECEIVED"
    BY <1>4, <2>2, <2>3 DEF Flight!IsToBeKept
  <2>5. whole \in Flight!AnswersOfOrigins(server[s].request.key)
    BY <1>2 DEF Flight!AnswersOfOrigins, Answers, OriginStatuses, Flight!OriginStatuses,
       ParseResults, Flight!ParseResults
  <2>. QED  BY <2>1, <2>4, <2>5 DEF whole
<1>. QED  BY <1>5, <1>6

LEMMA CompleteImplemented ==
  ASSUME Inv, AnswerInv, RequestInv, RequestInv', NEW s, NEW state, FetchEnds(s, state)
  PROVE  /\ server[s].request.key \in DOMAIN clientsWaitingForResponse
         /\ Flight!Complete(server[s].request.key)
<1>. DEFINE key    == server[s].request.key
            answer == AnswerInState(s, state)
<1>1. AtServer(s) /\ s \in Servers /\ s \in ToSet(serversConnections)
  BY AtServerFacts DEF FetchEnds
<1>2. key \in DOMAIN clientsWaitingForResponse
  BY <1>1 DEF Inv, SingleFlight
<1>3. DOMAIN clientsWaitingForResponse' = DOMAIN clientsWaitingForResponse \ {key}
  BY DEF FetchEnds, ShutdownServerConnection, Restrict
<1>4. UNCHANGED clientsConnections
  BY DEF FetchEnds, ShutdownServerConnection
<1>5. /\ answer \in {Flight!GatewayTimeout} \union Flight!AnswersOfOrigins(key)
      /\ cacheStorage' = IF Flight!IsToBeKept(answer)
                         THEN Put(cacheStorage, key, answer) ELSE cacheStorage
  <2>1. cacheStorage' = IF state = "CACHING_ANSWER_RECEIVED"
                        THEN Put(cacheStorage, key, Received(s)) ELSE cacheStorage
    BY DEF FetchEnds, ShutdownServerConnection, CacheAfter
  <2>. QED  BY <2>1, KeptAnswers
<1>6. ASSUME NEW d \in Clients
      PROVE  /\ Asked'[d] = Asked[d]
             /\ Given'[d] = IF Flight!Waits(d, key) THEN answer ELSE Given[d]
  BY <1>4, Views, ViewsAfter, WaitersWait, FetchEndsForObjects DEF Connected
<1>. HIDE DEF key, answer
<1>7. /\ Asked' = Asked
      /\ Given' = [d \in Clients |-> IF Flight!Waits(d, key) THEN answer ELSE Given[d]]
  BY <1>6 DEF Asked, Given
<1>8. Flight!Deliver(key, answer)
  BY <1>5, <1>7 DEF Flight!Deliver, Put
<1>. QED  BY <1>2, <1>3, <1>5, <1>7, <1>8 DEF Flight!Complete, key

(* The steps, by what they may change of what clients can tell. *)
LEMMA ServerStays ==
  ASSUME Inv, NEW s \in Servers, UpdateServer(s)
  PROVE  \/ \E state : FetchEnds(s, state)
         \/ UNCHANGED <<clientsConnections, store, client>>
<1>1. CASE ServerSocketError(s) \/ ReceiveEndOfAnswer(s) \/ ReceiveAnswerFails(s)
  BY <1>1 DEF ServerSocketError, ReceiveEndOfAnswer, ReceiveAnswerFails, ReceivesAnswer,
       FetchEnds, FinalStates
<1>2. CASE ForwardRequestFails(s)
  BY <1>2 DEF ForwardRequestFails, ForwardsRequest, KeepServer, lists, FetchEnds, FinalStates
<1>3. CASE ForwardRequest(s) \/ ReceivePartOfAnswer(s) \/ ServerIsQuiet(s)
  BY <1>3 DEF ForwardRequest, ReceivePartOfAnswer, ServerIsQuiet, KeepServer, lists
<1>4. CASE ForwardRequestKillsProcess(s) \/ ParseAnswerKillsProcess(s)
  BY <1>4 DEF ForwardRequestKillsProcess, ParseAnswerKillsProcess, lists
<1>. QED  BY <1>1, <1>2, <1>3, <1>4 DEF UpdateServer

LEMMA StepCases ==
  ASSUME [Next]_vars
  PROVE  \/ \E c \in Clients : UpdateClient(c) \/ SignalInSend(c)
         \/ \E s \in Servers : UpdateServer(s)
         \/ /\ UNCHANGED store
            /\ AcceptNewConnection \/ UNCHANGED <<clientsConnections, client>>
<1>1. ASSUME NEW c \in Clients, MoveOfClient(c)
      PROVE  UNCHANGED <<clientsConnections, store, client>>
  BY <1>1 DEF MoveOfClient, Connect, ClientSends, ClientCloses, ClientResets, ClientStalls,
       ClientReadsAgain, OnlyPeer, lists
<1>2. ASSUME NEW s \in Servers, MoveOfOrigin(s)
      PROVE  UNCHANGED <<clientsConnections, store, client>>
  BY <1>2 DEF MoveOfOrigin, OriginSends, OriginCloses, OriginResets, OnlyOrigin, lists
<1>3. CASE AcceptNewConnection
  BY <1>3 DEF AcceptNewConnection
<1>4. CASE \/ Construct \/ ConstructFails \/ CheckInterrupt \/ EnterPoll \/ PollReturns
           \/ AcceptFails \/ NothingToAccept
           \/ ClientsDone \/ ServersDone \/ SignalArrives \/ Ended \/ UNCHANGED vars
  BY <1>4 DEF Construct, ConstructFails, CheckInterrupt, EnterPoll, PollReturns,
       AcceptFails, NothingToAccept, ClientsDone, ServersDone, SignalArrives, Ended, vars, lists
<1>. QED  BY <1>1, <1>2, <1>3, <1>4 DEF Next, Thread

(* The steps of the thread at a connection. *)
LEMMA UpdateClientImplemented ==
  ASSUME Inv, RequestInv, RequestInv', NEW c \in Clients,
         UpdateClient(c) \/ SignalInSend(c)
  PROVE  [Flight!Next]_Flight!vars
<1>1. ASSUME ReceivesRequest(c), Flight!Ask(c, peer[c].request)  PROVE  Flight!Next
  BY <1>1, RequestTaken DEF Flight!Next
<1>2. CASE RefuseWrongRequest(c) \/ AnswerFromCache(c) \/ CannotResolveHost(c)
  BY <1>1, <1>2, RefusalsAndHits, RefuseImplemented, HitImplemented, FetchFailsImplemented
     DEF Flight!Ask
<1>3. CASE JoinWaiters(c) \/ FetchFromOrigin(c)
  BY <1>1, <1>3, Enrolled, JoinImplemented, FetchImplemented DEF Flight!Ask
<1>4. CASE AtClient(c) /\ IsShutDown(c)
  BY <1>4, LeaveImplemented DEF Flight!Next
<1>5. CASE ReceivePartOfRequest(c)
  <2>1. /\ client'[c].request = client[c].request
        /\ client'[c].sendAnswerBuf = client[c].sendAnswerBuf
        /\ \A d \in Clients \ {c} : client'[d] = client[d]
        /\ UNCHANGED <<lists, store>>
    BY <1>5, PartReceived DEF Idle
  <2>. QED  BY <2>1, NothingToTell DEF SameView, Connected, lists
<1>6. CASE SendsPart(c)
  BY <1>6, PartSent, NothingToTell DEF SameView, Connected, lists
<1>7. CASE UNCHANGED <<lists, store, client>>
  BY <1>7, NothingToTell DEF SameView, Connected, lists
<1>. QED  BY <1>2, <1>3, <1>4, <1>5, <1>6, <1>7, ClientCases

LEMMA UpdateServerImplemented ==
  ASSUME Inv, AnswerInv, RequestInv, RequestInv', NEW s \in Servers, UpdateServer(s)
  PROVE  [Flight!Next]_Flight!vars
<1>1. ASSUME NEW state, FetchEnds(s, state)  PROVE  Flight!Next
  BY <1>1, CompleteImplemented DEF Flight!Next
<1>2. CASE UNCHANGED <<clientsConnections, store, client>>
  BY <1>2, NothingToTell DEF SameView, Connected
<1>. QED  BY <1>1, <1>2, ServerStays

(* The other steps. *)
LEMMA OthersImplemented ==
  ASSUME Inv, RequestInv, RequestInv', UNCHANGED store,
         \/ UNCHANGED <<clientsConnections, client>>
         \/ AcceptNewConnection
  PROVE  UNCHANGED Flight!vars
<1>1. CASE UNCHANGED <<clientsConnections, client>>
  BY <1>1, NothingToTell DEF SameView, Connected
<1>2. CASE AcceptNewConnection
  <2>. DEFINE c == Head(backlog)
  <2>1. /\ TypeOK
        /\ backlog \in Seq(Clients) /\ backlog # <<>> /\ IsInjective(backlog)
        /\ clientsConnections \in Seq(Clients) /\ IsInjective(clientsConnections)
    BY <1>2 DEF AcceptNewConnection, Inv, Nothing, AcceptInv, TypeOK, TableInv
  <2>2. c \in Clients /\ c \in ToSet(backlog)
    BY <2>1, TakeFirst, InToSet
  <2>3. c \notin Connected /\ client \in [Clients -> ClientRecords]
    BY <2>1, <2>2 DEF Inv, AcceptInv, Connected, TypeOK
  <2>. HIDE DEF c
  <2>4. /\ client' = [client EXCEPT ![c] = NewClient(TopFreeIndex(poll))]
        /\ clientsConnections' = Append(clientsConnections, c)
    BY <1>2 DEF AcceptNewConnection, c
  <2>5. Connected' = Connected \union {c}
    BY <2>1, <2>2, <2>3, <2>4, AppendNew DEF Connected
  <2>6. \A d \in Clients \ {c} : SameView(d)
    BY <2>3, <2>4, <2>5 DEF SameView
  <2>7. /\ client'[c].request = NoRequest
        /\ client'[c].sendAnswerBuf = NoBuf
    BY <2>2, <2>3, <2>4 DEF NewClient
  <2>8. /\ Asked' = [Asked EXCEPT ![c] = NoRequest]
        /\ Given' = [Given EXCEPT ![c] = NoBuf]
    BY <2>2, <2>6, <2>7, OneToTell
  <2>9. Asked[c] = NoRequest /\ Given[c] = NoBuf
    BY <2>2, <2>3, Views
  <2>10. Asked' = Asked /\ Given' = Given
    BY <2>8, <2>9 DEF Asked, Given
  <2>. QED  BY <2>10 DEF Flight!vars, store
<1>. QED  BY <1>1, <1>2

(* Whatever the order in which clients ask, leave and come back while answers   *)
(* arrive, origins fail and passes skip or repeat connections, each step of the *)
(* thread refuses, answers or enrols one request, or ends one fetch for all who *)
(* wait for it and keeps exactly those of status 200 that its parser completes  *)
(* on, or is none of the clients' business (Proxy.cpp:174-229, 252-288).        *)
THEOREM Refinement == Spec => ImplementsSingleFlightCache
<1>1. Init => Flight!Init
  <2>. SUFFICES ASSUME Init  PROVE  Flight!Init
    OBVIOUS
  <2>1. ToSet(clientsConnections) = {}
    BY EmptyList DEF Init
  <2>2. /\ Asked = [c \in Clients |-> NoRequest]
        /\ Given = [c \in Clients |-> NoBuf]
    BY <2>1 DEF Asked, Given
  <2>3. DOMAIN clientsWaitingForResponse = {}
    BY DEF Init
  <2>4. cacheStorage = [k \in {} |-> Flight!GatewayTimeout]
    BY DEF Init
  <2>. QED  BY <2>2, <2>3, <2>4 DEF Flight!Init
<1>2. Inv /\ AnswerInv /\ RequestInv /\ RequestInv' /\ [Next]_vars
        => [Flight!Next]_Flight!vars
  BY StepCases, UpdateClientImplemented, UpdateServerImplemented, OthersImplemented
<1>. QED
  BY <1>1, <1>2, Invariance, AnswerInvariance, RequestInvariance, PTL
     DEF Spec, ImplementsSingleFlightCache, Flight!Spec

================================================================================
