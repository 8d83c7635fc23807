--------------------------------- MODULE Proxy ---------------------------------
(***************************************************************************)
(* The proxy: one thread that alternates between poll() and a pass over    *)
(* its connections (Proxy.cpp, main.cpp), with the sockets it talks to.    *)
(*                                                                         *)
(* A step of the proxy is the handling of one connection in a pass, or one *)
(* of the calls around it. Between any two of them the peers may act and   *)
(* the signal handler may run, so what a handler meets on a socket may be  *)
(* newer than what poll() reported.                                        *)
(***************************************************************************)
EXTENDS ClientConnection, ServerConnection, Sequences, SequencesExt

CONSTANTS
  Clients,            (* the client connections, accepted or not               *)
  Servers,            (* the connections to origins                            *)
  ListeningSocketFd,  (* the owner of the listening descriptor                 *)
  FdLimit,            (* connections RLIMIT_NOFILE leaves descriptors for      *)
  Faults              (* what the environment is allowed to do to the proxy    *)

AllFaults ==
  {"client_fin",           (* a client stops sending, or closes                *)
   "client_extra",         (* bytes follow a request: a body, another request   *)
   "client_reset",         (* a client's socket is reset                       *)
   "reset_while_waiting",  (* ... also when the client waits for its answer    *)
   "reset_after_fin",      (* ... also when the peer has closed before         *)
   "client_stall",         (* a client does not read for a while               *)
   "short_send",           (* send() takes a part of what it is given          *)
   "recv_error",           (* recv() fails though there is something to take  *)
   "origin_reset",         (* an origin's socket is reset                      *)
   "origin_truncates",     (* an origin closes before the end of its answer    *)
   "signal"}               (* SIGINT or SIGTERM is delivered                   *)

(* The table is as large as poll() admits: with more slots than RLIMIT_NOFILE   *)
(* it fails (Constants.h:10). Of as many descriptors as slots, the listening    *)
(* socket and the standard streams leave fewer for connections; the code does   *)
(* not test it. There is a connection object for every fetch under way.         *)
ASSUME ProxyAssumption ==
  /\ Faults \subseteq AllFaults
  /\ FdLimit \in Nat
  /\ FdLimit < MaxConnectionNum
  /\ Clients \intersect Servers = {}
  /\ ListeningSocketFd \notin Clients \union Servers
  /\ IgnoredSocketFd \notin Clients \union Servers \union {ListeningSocketFd}
  /\ NoBuf \notin Answers

VARIABLES
  pc,                 (* where the thread is                                    *)
  it,                 (* position of the iterator of the pass; one more than    *)
                      (* the length is end()                                    *)
  isInterrupt,
  poll,               (* pollList, pollListSize and freeIndexesInPollList       *)
  clientsConnections, serversConnections,
  clientsWaitingForResponse,
  cacheStorage,
  client, server,     (* the connection objects                                 *)
  peer,               (* the clients' ends of their connections                 *)
  backlog,            (* connections the kernel has made and nobody accepted    *)
  origin              (* the origins' ends of their connections                 *)

lists == <<clientsConnections, serversConnections>>
store == <<clientsWaitingForResponse, cacheStorage>>
env   == <<peer, backlog, origin>>
vars  == <<pc, it, isInterrupt, poll, lists, store, client, server, env>>

(* exit(), a null pointer, SIGPIPE, and an exception nobody catches. *)
Terminals == {"exit", "segv", "sigpipe", "abort"}

PcValues == {"construct", "check", "enter", "poll", "accept", "clients", "servers"}
            \union Terminals

Running == pc \notin Terminals

--------------------------------------------------------------------------------
(* The peers.                                                                   *)

Stalls == {"not_yet", "now", "over"}

Peers ==
  [open    : BOOLEAN,
   request : Requests \union {NoRequest},
   sent    : 0..(ReqLen + 1), (* pieces of the request sent so far, and one   *)
                              (* that does not belong to it                   *)
   fin     : BOOLEAN,
   rst     : BOOLEAN,
   stalled : Stalls,
   answered : BOOLEAN]        (* send() has taken the whole answer            *)

ClosedPeer == [open |-> FALSE, request |-> NoRequest, sent |-> 0, fin |-> FALSE,
               rst |-> FALSE, stalled |-> "not_yet", answered |-> FALSE]

AnsweredPeer == [ClosedPeer EXCEPT !.answered = TRUE]

Origins ==
  [response : ResponseRecords,
   sent     : 0..RespLen,     (* pieces of the answer sent so far             *)
   fin      : BOOLEAN,
   rst      : BOOLEAN]

ClosedOrigin ==
  [response |-> [status |-> 200, framed |-> FALSE, parsed |-> "ParsingCompleted",
                 decidedAt |-> 1],
   sent |-> 0, fin |-> FALSE, rst |-> FALSE]

(* What send() and recv() on the socket of a peer or an origin p may do, after  *)
(* got pieces of what p sent were received. Linux hands out what is queued      *)
(* first, then the end of the stream, then the reset; recv() may also fail for  *)
(* want of memory. A reset of a socket whose peer has closed before makes       *)
(* send() raise SIGPIPE, any other makes it fail.                               *)
Available(p, got) == p.sent - got
RecvHasData(p, got)     == Available(p, got) > 0
RecvEndOfStream(p, got) == Available(p, got) = 0 /\ p.fin
RecvFails(p, got)       == \/ Available(p, got) = 0 /\ ~p.fin /\ p.rst
                           \/ "recv_error" \in Faults
RecvBlocks(p, got)      == Available(p, got) = 0 /\ ~p.fin /\ ~p.rst
SendKills(p) == p.rst /\ p.fin
SendFails(p) == p.rst /\ ~p.fin

(* What send() may take of len pieces on a socket that is not reset. *)
SendTakes(len) ==
  IF len = 0 THEN {0} ELSE IF "short_send" \in Faults THEN 1..len ELSE {len}

(* The readiness poll() reports for a socket: a reset is reported whatever the  *)
(* events asked for.                                                            *)
SocketReadiness(p, got, events) ==
  {e \in events : e = "POLLIN" => ~RecvBlocks(p, got)}
    \union {e \in {"POLLERR"} : p.rst}

Readiness(slot) ==
  CASE slot.fd \in Clients ->
         SocketReadiness(peer[slot.fd], client[slot.fd].received, slot.events)
    [] slot.fd \in Servers ->
         SocketReadiness(origin[slot.fd], server[slot.fd].recvLen, slot.events)
    [] slot.fd = ListeningSocketFd ->
         {e \in slot.events : e = "POLLIN" /\ backlog # <<>>}
    [] OTHER -> {}

--------------------------------------------------------------------------------
(* The constructor and main().                                                  *)

(* The listening socket takes the first slot and keeps it. *)
ListeningIdx == 0

(* Static storage, then the installed signal handler: Proxy(LISTENING_PORT)     *)
(* is still to come.                                                            *)
Init ==
  /\ pc = "construct"
  /\ it = 1
  /\ isInterrupt = FALSE
  /\ poll = EmptyPollTable
  /\ clientsConnections = <<>>
  /\ serversConnections = <<>>
  /\ clientsWaitingForResponse = [k \in {} |-> {}]
  /\ cacheStorage = [k \in {} |-> GatewayTimeout]
  /\ client = [c \in Clients |-> NoClient]
  /\ server = [s \in Servers |-> NoServer]
  /\ peer = [c \in Clients |-> ClosedPeer]
  /\ backlog = <<>>
  /\ origin = [s \in Servers |-> ClosedOrigin]

(* cachingProxy = Proxy(LISTENING_PORT): the assignment overwrites the whole    *)
(* object, isInterrupt included.                                                *)
Construct ==
  /\ pc = "construct"
  /\ isInterrupt' = FALSE
  /\ poll' = AddConnectionFd(EmptyPollTable, ListeningSocketFd, {"POLLIN"})
  /\ pc' = "check"
  /\ UNCHANGED <<it, lists, store, client, server, env>>

(* bind() or listen() fails: exit(EXIT_FAILURE). *)
ConstructFails ==
  /\ pc = "construct"
  /\ pc' = "exit"
  /\ UNCHANGED <<it, isInterrupt, poll, lists, store, client, server, env>>
--------------------------------------------------------------------------------
(* run()                                                                        *)

(* Mutant: while (true) *)
NeverInterrupted ==
  /\ pc = "check"
  /\ pc' = "enter"
  /\ UNCHANGED <<it, isInterrupt, poll, lists, store, client, server, env>>

(* while (!isInterrupt) *)
CheckInterrupt ==
  /\ pc = "check"
  /\ pc' = IF isInterrupt THEN "exit" ELSE "enter"
  /\ UNCHANGED <<it, isInterrupt, poll, lists, store, client, server, env>>

(* The thread goes from the test of isInterrupt into the kernel. *)
EnterPoll ==
  /\ pc = "enter"
  /\ pc' = "poll"
  /\ UNCHANGED <<it, isInterrupt, poll, lists, store, client, server, env>>

(* poll(), without a timeout, returns once a slot has something to report. *)
PollReturns ==
  /\ pc = "poll"
  /\ \E i \in Slots : Readiness(poll.pollList[i]) # {}
  /\ poll' = WithRevents(poll, [i \in Slots |-> Readiness(poll.pollList[i])])
  /\ pc' = "accept"
  /\ UNCHANGED <<it, isInterrupt, lists, store, client, server, env>>

(* connections that hold a descriptor *)
OpenConnections == Len(clientsConnections) + Len(serversConnections)

(* updateClientsConnections() begins. *)
BeginClients == pc' = "clients" /\ it' = 1

AcceptNewConnection ==
  /\ pc = "accept"
  /\ IsReadyForRead(poll, ListeningIdx)
  /\ OpenConnections < FdLimit
  /\ LET c == Head(backlog)
     IN  /\ backlog' = Tail(backlog)
         /\ client' = [client EXCEPT ![c] = NewClient(TopFreeIndex(poll))]
         /\ poll' = AddConnectionFd(poll, c, {"POLLIN"})
         /\ clientsConnections' = Append(clientsConnections, c)
  /\ BeginClients
  /\ UNCHANGED <<isInterrupt, serversConnections, store, server, peer, origin>>

(* accept() has no descriptor to return: EMFILE. *)
AcceptFails ==
  /\ pc = "accept"
  /\ IsReadyForRead(poll, ListeningIdx)
  /\ OpenConnections >= FdLimit
  /\ BeginClients
  /\ UNCHANGED <<isInterrupt, poll, lists, store, client, server, env>>

NothingToAccept ==
  /\ pc = "accept"
  /\ ~IsReadyForRead(poll, ListeningIdx)
  /\ BeginClients
  /\ UNCHANGED <<isInterrupt, poll, lists, store, client, server, env>>

--------------------------------------------------------------------------------
(* The iterator of a pass. std::list is circular through its end() node.        *)

(* ++iterator at the end of the body *)
Advance == it' = it + 1

(* iterator = list.erase(iterator); continue; -- and then the ++iterator of the *)
(* loop: the element that follows the erased one is passed over, and an         *)
(* iterator that erase() left on end() starts again at the first element.       *)
AfterErase(list) == it' = IF it = Len(list) THEN 1 ELSE it + 1

(* The objects a shared_ptr still points to: those in the list of connections   *)
(* and those in a set of waiting clients. The others are destroyed.             *)
Reclaim(objects, list, waiters) ==
  [c \in Clients |->
     IF c \in ToSet(list) \/ \E k \in DOMAIN waiters : c \in waiters[k]
     THEN objects[c] ELSE NoClient]

(* map[key] = value *)
Put(map, key, value) ==
  [k \in DOMAIN map \union {key} |-> IF k = key THEN value ELSE map[k]]

(* Mutant: whoever waits for anything. *)
WaitingForAnything(key) ==
  UNION {clientsWaitingForResponse[k] : k \in DOMAIN clientsWaitingForResponse}

(* clientsWaitingForResponse[key], which creates an empty set for a new key. *)
WaitingFor(key) ==
  IF key \in DOMAIN clientsWaitingForResponse
  THEN clientsWaitingForResponse[key] ELSE {}

(* initializeResponseTransmitting(c, answer) for each c of cs. *)
Transmitting(objects, cs, answer) ==
  [c \in Clients |-> IF c \in cs THEN InitializeAnswerSending(objects[c], answer)
                                 ELSE objects[c]]

(* Mutant: the slots of the clients to be answered are forgotten. *)
NoSlots(cs) == {}

SlotsOf(cs) == {client[c].inPollListIdx : c \in cs}

--------------------------------------------------------------------------------
(* updateClientsConnections(): one element.                                     *)

AtClient(c) ==
  /\ pc = "clients"
  /\ it \in DOMAIN clientsConnections
  /\ c = clientsConnections[it]

ClientIdx(c) == client[c].inPollListIdx

ClientHasError(c) == CheckConnectionSocketForErrors(poll, ClientIdx(c))
ClientIsReadable(c) == ~ClientHasError(c) /\ IsReadyForRead(poll, ClientIdx(c))
ClientIsWritable(c) ==
  /\ ~ClientHasError(c)
  /\ ~IsReadyForRead(poll, ClientIdx(c))
  /\ IsReadyForWrite(poll, ClientIdx(c))

(* Mutant: the set is dropped with the first client that leaves it. *)
WaitersDropped(c) ==
  IF client[c].connectionState = "PROCESSING_REQUEST"
  THEN Restrict(clientsWaitingForResponse,
                DOMAIN clientsWaitingForResponse \ {client[c].request.key})
  ELSE clientsWaitingForResponse

(* The sets of waiting clients after shutdownClientConnection(c): it looks for  *)
(* clients in state WAITING_FOR_RESPONSE.                                       *)
WaitersWithout(c) ==
  IF client[c].connectionState = "WAITING_FOR_RESPONSE"
  THEN Put(clientsWaitingForResponse, client[c].request.key,
           WaitingFor(client[c].request.key) \ {c})
  ELSE clientsWaitingForResponse

(* shutdownClientConnection(c) and the erasure of c from the list. end is what  *)
(* is left on the client's side.                                                *)
ShutdownClientConnection(c, end) ==
  /\ clientsWaitingForResponse' = WaitersWithout(c)
  /\ poll' = RemoveConnectionFd(poll, ClientIdx(c))
  /\ peer' = [peer EXCEPT ![c] = end]
  /\ clientsConnections' = RemoveAt(clientsConnections, it)
  /\ client' = Reclaim(client, clientsConnections', clientsWaitingForResponse')
  /\ AfterErase(clientsConnections)
  /\ UNCHANGED <<pc, serversConnections, cacheStorage, server, backlog, origin>>

ClientSocketError(c) ==
  /\ AtClient(c)
  /\ ClientHasError(c)
  /\ ShutdownClientConnection(c, ClosedPeer)
  /\ UNCHANGED isInterrupt

(* recv() returned 0 or -1. *)
ReceiveRequestFails(c) ==
  /\ AtClient(c)
  /\ ClientIsReadable(c)
  /\ \/ RecvEndOfStream(peer[c], client[c].received)
     \/ RecvFails(peer[c], client[c].received)
  /\ ShutdownClientConnection(c, ClosedPeer)
  /\ UNCHANGED isInterrupt

ReceivePartOfRequest(c) ==
  /\ AtClient(c)
  /\ ClientIsReadable(c)
  /\ \E n \in 1..Available(peer[c], client[c].received) :
       /\ client[c].received + n # ReqLen
       /\ client' = [client EXCEPT ![c] = PartOfRequest(@, n)]
  /\ poll' = ClearRevents(poll, ClientIdx(c))
  /\ Advance
  /\ UNCHANGED <<pc, isInterrupt, lists, store, server, env>>

(* receiveRequest() returned FULL_RECEIVE_REQUEST: recv() returned all that was  *)
(* missing of the request and nothing more. What follows is                     *)
(* handleArrivalOfClientRequest(c).                                             *)
ReceivesRequest(c) ==
  /\ AtClient(c)
  /\ ClientIsReadable(c)
  /\ ReqLen - client[c].received \in 1..Available(peer[c], client[c].received)

RequestReceived(c) ==
  [client EXCEPT ![c] = WholeRequest(@, peer[c].request)]

(* Mutant: events stays POLLIN. *)
NotSilenced(c) == ClearRevents(poll, ClientIdx(c))

(* handleArrivalOfClientRequest() sets the client's events to 0 first; the pass *)
(* sets its revents to 0 last.                                                  *)
Silenced(c) ==
  ClearRevents(SetEvents(poll, {ClientIdx(c)}, {}), ClientIdx(c))

(* The arrival ends in initializeResponseTransmitting(c, answer). *)
AnswerAtOnce(c, answer) ==
  /\ client' = Transmitting(RequestReceived(c), {c}, answer)
  /\ poll' = SetEvents(Silenced(c), {ClientIdx(c)}, {"POLLOUT"})
  /\ Advance
  /\ UNCHANGED <<pc, isInterrupt, lists, store, server, env>>

RefuseWrongRequest(c) ==
  /\ ReceivesRequest(c)
  /\ peer[c].request.verdict \in DOMAIN ErrorStatusOf
  /\ AnswerAtOnce(c, ErrorMessage(ErrorStatusOf[peer[c].request.verdict]))

(* content.reserve() throws in the parser: the process ends in receiveRequest(). *)
ParseRequestKillsProcess(c) ==
  /\ ReceivesRequest(c)
  /\ peer[c].request.verdict = "ExceptionThrown"
  /\ pc' = "abort"
  /\ UNCHANGED <<it, isInterrupt, poll, lists, store, client, server, env>>

AnswerFromCache(c) ==
  LET request == peer[c].request
  IN  /\ ReceivesRequest(c)
      /\ request.verdict = "WITHOUT_ERRORS"
      /\ request.key \in DOMAIN cacheStorage
      /\ AnswerAtOnce(c, cacheStorage[request.key])

(* Others are fetching the entry. *)
JoinWaiters(c) ==
  LET request == peer[c].request
  IN  /\ ReceivesRequest(c)
      /\ request.verdict = "WITHOUT_ERRORS"
      /\ request.key \notin DOMAIN cacheStorage
      /\ request.key \in DOMAIN clientsWaitingForResponse
      /\ client' = RequestReceived(c)
      /\ clientsWaitingForResponse' =
           [clientsWaitingForResponse EXCEPT ![request.key] = @ \union {c}]
      /\ poll' = Silenced(c)
      /\ Advance
      /\ UNCHANGED <<pc, isInterrupt, lists, cacheStorage, server, env>>

(* Mutant: whether others are fetching is not asked. *)
MissesCacheOnly(c) ==
  /\ ReceivesRequest(c)
  /\ peer[c].request.verdict = "WITHOUT_ERRORS"
  /\ peer[c].request.key \notin DOMAIN cacheStorage

(* Mutant: the cache is not asked. *)
NobodyFetches(c) ==
  /\ ReceivesRequest(c)
  /\ peer[c].request.verdict = "WITHOUT_ERRORS"
  /\ peer[c].request.key \notin DOMAIN clientsWaitingForResponse

MissesCache(c) ==
  /\ ReceivesRequest(c)
  /\ peer[c].request.verdict = "WITHOUT_ERRORS"
  /\ peer[c].request.key \notin DOMAIN cacheStorage
  /\ peer[c].request.key \notin DOMAIN clientsWaitingForResponse

(* initializeNewServerConnection() for the connection s, which the origin of    *)
(* c's request may answer with any response.                                    *)
InitializeNewServerConnection(c, s) ==
  /\ server' = [server EXCEPT ![s] = NewServer(TopFreeIndex(poll), peer[c].request)]
  /\ poll' = AddConnectionFd(Silenced(c), s, {"POLLOUT"})
  /\ serversConnections' = Append(serversConnections, s)
  /\ \E r \in Responses :
       origin' = [origin EXCEPT ![s] = [ClosedOrigin EXCEPT !.response = r]]

(* addClientInWaitersList(c): into the set that was created for s. *)
AddClientInWaitersList(c) ==
  clientsWaitingForResponse' =
    Put(clientsWaitingForResponse, peer[c].request.key,
        WaitingFor(peer[c].request.key) \union {c})

(* resolveRequiredHost() returned a connected socket. *)
FetchFromOrigin(c) ==
  /\ MissesCache(c)
  /\ OpenConnections < FdLimit
  /\ \E s \in Servers \ ToSet(serversConnections) : InitializeNewServerConnection(c, s)
  /\ AddClientInWaitersList(c)
  /\ client' = RequestReceived(c)
  /\ Advance
  /\ UNCHANGED <<pc, isInterrupt, clientsConnections, cacheStorage, peer, backlog>>

(* getaddrinfo(), socket() or every connect() failed. *)
CannotResolveHost(c) ==
  /\ MissesCache(c)
  /\ AnswerAtOnce(c, GatewayTimeout)

(* sendAnswer() calls send(). *)
SendsAnswer(c) ==
  /\ AtClient(c)
  /\ ClientIsWritable(c)
  /\ client[c].sendAnswerBuf # NoBuf
  /\ ~SendKills(peer[c])

(* As long as the client does not read, send() keeps the thread waiting.        *)
SendBlocks(c) == peer[c].stalled = "now" /\ LeftToSend(client[c]) > 0

(* send() takes some of the answer. *)
SendTakesAnswer(c) == SendsAnswer(c) /\ ~SendFails(peer[c]) /\ ~SendBlocks(c)

(* sendAnswer() returned SOCKET_SEND_ERROR. *)
SendAnswerFails(c) ==
  /\ SendsAnswer(c)
  /\ SendFails(peer[c])
  /\ ShutdownClientConnection(c, ClosedPeer)
  /\ UNCHANGED isInterrupt

(* A signal arrives while send() keeps the thread waiting. *)
InterruptsSend(c) ==
  /\ "signal" \in Faults
  /\ SendsAnswer(c)
  /\ ~SendFails(peer[c])
  /\ SendBlocks(c)
  /\ ~isInterrupt
  /\ isInterrupt' = TRUE

(* send() had taken nothing and fails with EINTR: SOCKET_SEND_ERROR.            *)
SendAnswerInterrupted(c) ==
  InterruptsSend(c) /\ ShutdownClientConnection(c, ClosedPeer)

(* sendAnswer() returned FULL_SEND_ANSWER. *)
SendAnswerCompletes(c) ==
  /\ SendTakesAnswer(c)
  /\ LeftToSend(client[c]) \in SendTakes(LeftToSend(client[c]))
  /\ ShutdownClientConnection(c, AnsweredPeer)
  /\ UNCHANGED isInterrupt

(* sendAnswer() returned NOT_FULL_SEND_ANSWER after send() took n pieces.       *)
KeepSending(c, n) ==
  /\ n < LeftToSend(client[c])
  /\ client' = [client EXCEPT ![c] = AnswerPartSent(@, n)]
  /\ poll' = ClearRevents(poll, ClientIdx(c))
  /\ Advance
  /\ UNCHANGED <<pc, lists, store, server, env>>

SendPartOfAnswer(c) ==
  /\ SendTakesAnswer(c)
  /\ \E n \in SendTakes(LeftToSend(client[c])) : KeepSending(c, n)
  /\ UNCHANGED isInterrupt

(* The signal finds that send() has taken a part: it returns how much.          *)
SendAnswerCutShort(c) ==
  InterruptsSend(c) /\ \E n \in 1..LeftToSend(client[c]) : KeepSending(c, n)

SignalInSend(c) == SendAnswerInterrupted(c) \/ SendAnswerCutShort(c)

(* The process ends inside sendAnswer(): by SIGPIPE, or because sendAnswerBuf   *)
(* points to nothing.                                                           *)
SendAnswerKillsProcess(c) ==
  /\ AtClient(c)
  /\ ClientIsWritable(c)
  /\ \/ client[c].sendAnswerBuf = NoBuf /\ pc' = "segv"
     \/ client[c].sendAnswerBuf # NoBuf /\ SendKills(peer[c]) /\ pc' = "sigpipe"
  /\ UNCHANGED <<it, isInterrupt, poll, lists, store, client, server, env>>

ClientIsQuiet(c) ==
  /\ AtClient(c)
  /\ ~ClientHasError(c) /\ ~ClientIsReadable(c) /\ ~ClientIsWritable(c)
  /\ poll' = ClearRevents(poll, ClientIdx(c))
  /\ Advance
  /\ UNCHANGED <<pc, isInterrupt, lists, store, client, server, env>>

(* The iterator is end(): updateServersConnections() begins. *)
ClientsDone ==
  /\ pc = "clients"
  /\ it \notin DOMAIN clientsConnections
  /\ pc' = "servers"
  /\ it' = 1
  /\ UNCHANGED <<isInterrupt, poll, lists, store, client, server, env>>

UpdateClient(c) ==
  \/ ClientSocketError(c)
  \/ ReceiveRequestFails(c)
  \/ ReceivePartOfRequest(c)
  \/ RefuseWrongRequest(c)
  \/ ParseRequestKillsProcess(c)
  \/ AnswerFromCache(c)
  \/ JoinWaiters(c)
  \/ FetchFromOrigin(c)
  \/ CannotResolveHost(c)
  \/ SendAnswerFails(c)
  \/ SendAnswerCompletes(c)
  \/ SendPartOfAnswer(c)
  \/ SendAnswerKillsProcess(c)
  \/ ClientIsQuiet(c)

--------------------------------------------------------------------------------
(* updateServersConnections(): one element.                                     *)

AtServer(s) ==
  /\ pc = "servers"
  /\ it \in DOMAIN serversConnections
  /\ s = serversConnections[it]

ServerIdx(s) == server[s].inPollListIdx

(* Mutant: POLLRDHUP is asked for, too. *)
ServerHasErrorOrHasClosed(s) ==
  CheckConnectionSocketForErrors(poll, ServerIdx(s)) \/ origin[s].fin

ServerHasError(s) == CheckConnectionSocketForErrors(poll, ServerIdx(s))
ServerIsWritable(s) == ~ServerHasError(s) /\ IsReadyForWrite(poll, ServerIdx(s))
ServerIsReadable(s) ==
  /\ ~ServerHasError(s)
  /\ ~IsReadyForWrite(poll, ServerIdx(s))
  /\ IsReadyForRead(poll, ServerIdx(s))

(* recvBuf *)
Received(s) == OriginAnswer(origin[s].response, server[s].request, server[s].recvLen)

(* Mutant: what has arrived is passed on, however the connection ended. *)
AnswerAsReceived(s, state) == Received(s)

(* What shutdownServerConnection(s) answers to those who wait, by the state of  *)
(* the connection; only a CACHING_ANSWER_RECEIVED one goes to the cache.        *)
AnswerInState(s, state) ==
  IF state \in {"SENDING_REQUEST", "RECEIVING_ANSWER"} THEN GatewayTimeout ELSE Received(s)

CacheAfter(s, state) ==
  IF state = "CACHING_ANSWER_RECEIVED"
  THEN Put(cacheStorage, server[s].request.key, Received(s))
  ELSE cacheStorage

(* shutdownServerConnection(s) and the erasure of s from the list. The waiting  *)
(* clients are answered whether or not they are still connected.                *)
ShutdownServerConnection(s, state) ==
  LET key     == server[s].request.key
      waiters == WaitingFor(key)
  IN  /\ cacheStorage' = CacheAfter(s, state)
      /\ clientsWaitingForResponse' =
           Restrict(clientsWaitingForResponse, DOMAIN clientsWaitingForResponse \ {key})
      /\ client' = Reclaim(Transmitting(client, waiters, AnswerInState(s, state)),
                           clientsConnections, clientsWaitingForResponse')
      /\ poll' = RemoveConnectionFd(SetEvents(poll, SlotsOf(waiters), {"POLLOUT"}),
                                    ServerIdx(s))
      /\ serversConnections' = RemoveAt(serversConnections, it)
      /\ server' = [server EXCEPT ![s] = NoServer]
      /\ origin' = [origin EXCEPT ![s] = ClosedOrigin]
      /\ AfterErase(serversConnections)
      /\ UNCHANGED <<pc, isInterrupt, clientsConnections, peer, backlog>>

ServerSocketError(s) ==
  /\ AtServer(s)
  /\ ServerHasError(s)
  /\ ShutdownServerConnection(s, server[s].connectionState)

(* The end of a turn in which s stays. *)
KeepServer(s, table) ==
  /\ poll' = ClearRevents(table, ServerIdx(s))
  /\ Advance
  /\ UNCHANGED <<pc, isInterrupt, lists, store, client, env>>

ForwardsRequest(s) ==
  /\ AtServer(s)
  /\ ServerIsWritable(s)

ForwardRequest(s) ==
  /\ ForwardsRequest(s)
  /\ ~origin[s].rst
  /\ \E n \in SendTakes(ReqLen - server[s].sendRequestOffset) :
       /\ server' = [server EXCEPT ![s] = RequestSent(@, n)]
       /\ KeepServer(s, IF server[s].sendRequestOffset + n = ReqLen
                        THEN SetEvents(poll, {ServerIdx(s)}, {"POLLIN"}) ELSE poll)

(* sendRequest() returned SOCKET_SEND_ERROR. If the request had been forwarded  *)
(* before, the result is taken for FULL_SEND_REQUEST.                           *)
ForwardRequestFails(s) ==
  /\ ForwardsRequest(s)
  /\ SendFails(origin[s])
  /\ \/ /\ server[s].connectionState = "RECEIVING_ANSWER"
        /\ KeepServer(s, SetEvents(poll, {ServerIdx(s)}, {"POLLIN"}))
        /\ UNCHANGED server
     \/ /\ server[s].connectionState # "RECEIVING_ANSWER"
        /\ ShutdownServerConnection(s, server[s].connectionState)

ForwardRequestKillsProcess(s) ==
  /\ ForwardsRequest(s)
  /\ SendKills(origin[s])
  /\ pc' = "sigpipe"
  /\ UNCHANGED <<it, isInterrupt, poll, lists, store, client, server, env>>

ReceivesAnswer(s) ==
  /\ AtServer(s)
  /\ ServerIsReadable(s)

ReceivePartOfAnswer(s) ==
  /\ ReceivesAnswer(s)
  /\ \E n \in 1..Available(origin[s], server[s].recvLen) :
       server' = [server EXCEPT ![s] = AnswerReceived(@, n)]
  /\ KeepServer(s, poll)

(* recv() returned 0: the origin has closed, and the answer is what has arrived. *)
ReceiveEndOfAnswer(s) ==
  /\ ReceivesAnswer(s)
  /\ RecvEndOfStream(origin[s], server[s].recvLen)
  /\ ParseResult(Received(s)) # "ExceptionThrown"
  /\ ShutdownServerConnection(s, EndOfStreamState(Received(s)))

(* content.reserve() throws in the parser: the process ends in receiveAnswer(). *)
ParseAnswerKillsProcess(s) ==
  /\ ReceivesAnswer(s)
  /\ RecvEndOfStream(origin[s], server[s].recvLen)
  /\ ParseResult(Received(s)) = "ExceptionThrown"
  /\ pc' = "abort"
  /\ UNCHANGED <<it, isInterrupt, poll, lists, store, client, server, env>>

ReceiveAnswerFails(s) ==
  /\ ReceivesAnswer(s)
  /\ RecvFails(origin[s], server[s].recvLen)
  /\ ShutdownServerConnection(s, server[s].connectionState)

ServerIsQuiet(s) ==
  /\ AtServer(s)
  /\ ~ServerHasError(s) /\ ~ServerIsWritable(s) /\ ~ServerIsReadable(s)
  /\ KeepServer(s, poll)
  /\ UNCHANGED server

(* The iterator is end(): the pass is over. *)
ServersDone ==
  /\ pc = "servers"
  /\ it \notin DOMAIN serversConnections
  /\ pc' = "check"
  /\ it' = 1
  /\ UNCHANGED <<isInterrupt, poll, lists, store, client, server, env>>

UpdateServer(s) ==
  \/ ServerSocketError(s)
  \/ ForwardRequest(s)
  \/ ForwardRequestFails(s)
  \/ ForwardRequestKillsProcess(s)
  \/ ReceivePartOfAnswer(s)
  \/ ReceiveEndOfAnswer(s)
  \/ ParseAnswerKillsProcess(s)
  \/ ReceiveAnswerFails(s)
  \/ ServerIsQuiet(s)

--------------------------------------------------------------------------------
(* The environment.                                                             *)

(* Bound: one piece more than the request. *)
SentAtMost == IF "client_extra" \in Faults THEN ReqLen + 1 ELSE ReqLen

(* A client connects; the kernel completes the connection on its own. A         *)
(* connection object that is still pointed to is not a new one.                 *)
Connect(c, request) ==
  /\ Running /\ pc # "construct"
  /\ ~peer[c].open
  /\ client[c] = NoClient
  /\ peer' = [peer EXCEPT ![c] = [ClosedPeer EXCEPT !.open = TRUE, !.request = request]]
  /\ backlog' = Append(backlog, c)
  /\ UNCHANGED <<pc, it, isInterrupt, poll, lists, store, client, server, origin>>

PeerMoves(c) == Running /\ peer[c].open /\ ~peer[c].rst

(* What a move of a client's end leaves alone. *)
OnlyPeer ==
  UNCHANGED <<pc, it, isInterrupt, poll, lists, store, client, server, backlog, origin>>

ClientSends(c) ==
  /\ PeerMoves(c)
  /\ ~peer[c].fin
  /\ \E n \in (peer[c].sent + 1)..SentAtMost : peer' = [peer EXCEPT ![c].sent = n]
  /\ OnlyPeer

ClientCloses(c) ==
  /\ "client_fin" \in Faults
  /\ PeerMoves(c)
  /\ ~peer[c].fin
  /\ peer' = [peer EXCEPT ![c].fin = TRUE]
  /\ OnlyPeer

(* The client has sent a request that is not being answered yet. *)
Awaits(c) == peer[c].sent >= ReqLen /\ client[c].connectionState # "RECEIVING_ANSWER"

ClientResets(c) ==
  /\ "client_reset" \in Faults
  /\ PeerMoves(c)
  /\ Awaits(c) => "reset_while_waiting" \in Faults
  /\ peer[c].fin => "reset_after_fin" \in Faults
  /\ peer' = [peer EXCEPT ![c].rst = TRUE]
  /\ OnlyPeer

(* Whether a client reads shows only while it is being answered. Bound: it      *)
(* stops once.                                                                  *)
ClientStalls(c) ==
  /\ "client_stall" \in Faults
  /\ client[c].connectionState = "RECEIVING_ANSWER"
  /\ PeerMoves(c)
  /\ peer[c].stalled = "not_yet"
  /\ peer' = [peer EXCEPT ![c].stalled = "now"]
  /\ OnlyPeer

ClientReadsAgain(c) ==
  /\ PeerMoves(c)
  /\ peer[c].stalled = "now"
  /\ peer' = [peer EXCEPT ![c].stalled = "over"]
  /\ OnlyPeer

OriginMoves(s) == Running /\ s \in ToSet(serversConnections) /\ ~origin[s].rst

OnlyOrigin ==
  UNCHANGED <<pc, it, isInterrupt, poll, lists, store, client, server, peer, backlog>>

OriginSends(s) ==
  /\ OriginMoves(s)
  /\ ~origin[s].fin
  /\ \E n \in (origin[s].sent + 1)..RespLen : origin' = [origin EXCEPT ![s].sent = n]
  /\ OnlyOrigin

OriginCloses(s) ==
  /\ OriginMoves(s)
  /\ ~origin[s].fin
  /\ origin[s].sent = RespLen \/ "origin_truncates" \in Faults
  /\ origin' = [origin EXCEPT ![s].fin = TRUE]
  /\ OnlyOrigin

OriginResets(s) ==
  /\ "origin_reset" \in Faults
  /\ OriginMoves(s)
  /\ origin[s].fin => "reset_after_fin" \in Faults
  /\ origin' = [origin EXCEPT ![s].rst = TRUE]
  /\ OnlyOrigin

(* sig_handler(): shutdown() sets isInterrupt, and a poll() that is under way   *)
(* fails with EINTR, which run() answers by testing isInterrupt again. (A       *)
(* signal that finds the thread waiting in send() is SignalInSend.)             *)
SignalArrives ==
  /\ "signal" \in Faults
  /\ Running
  /\ ~isInterrupt
  /\ isInterrupt' = TRUE
  /\ pc' = IF pc = "poll" THEN "check" ELSE pc
  /\ UNCHANGED <<it, poll, lists, store, client, server, env>>

MoveOfClient(c) ==
  \/ \E request \in Requests : Connect(c, request)
  \/ ClientSends(c)
  \/ ClientCloses(c)
  \/ ClientResets(c)
  \/ ClientStalls(c)
  \/ ClientReadsAgain(c)

MoveOfOrigin(s) ==
  \/ OriginSends(s)
  \/ OriginCloses(s)
  \/ OriginResets(s)

--------------------------------------------------------------------------------

(* The steps of the thread. *)
Thread ==
  \/ Construct
  \/ ConstructFails
  \/ CheckInterrupt
  \/ EnterPoll
  \/ PollReturns
  \/ AcceptNewConnection
  \/ AcceptFails
  \/ NothingToAccept
  \/ \E c \in Clients : UpdateClient(c)
  \/ ClientsDone
  \/ \E s \in Servers : UpdateServer(s)
  \/ ServersDone

(* The process has ended; there is nothing left to model. *)
Ended == ~Running /\ UNCHANGED vars

Next ==
  \/ Thread
  \/ \E c \in Clients : MoveOfClient(c)
  \/ \E s \in Servers : MoveOfOrigin(s)
  \/ SignalArrives
  \/ \E c \in Clients : SignalInSend(c)
  \/ Ended

Spec == Init /\ [][Next]_vars

(* What the environment is trusted with: a client that stopped reading reads    *)
(* again, and an origin sends its answer and closes -- the proxy has no         *)
(* timeout of its own and takes nothing but the close for the end of an answer. *)
Fairness ==
  /\ WF_vars(Thread)
  /\ \A c \in Clients : WF_vars(ClientReadsAgain(c))
  /\ \A s \in Servers : WF_vars(OriginSends(s)) /\ WF_vars(OriginCloses(s))

FairSpec == Spec /\ Fairness

--------------------------------------------------------------------------------
(* Properties. *)

(* Every variable holds a value of its kind: the objects, the table and the     *)
(* maps are what their declarations in Proxy.h:70-84 say.                       *)
TypeOK ==
  /\ pc \in PcValues
  /\ it \in Nat \ {0}
  /\ isInterrupt \in BOOLEAN
  /\ poll \in PollTables(Clients \union Servers \union {ListeningSocketFd})
  /\ clientsConnections \in Seq(Clients)
  /\ serversConnections \in Seq(Servers)
  /\ DOMAIN clientsWaitingForResponse \subseteq Keys
  /\ \A k \in DOMAIN clientsWaitingForResponse :
       clientsWaitingForResponse[k] \subseteq Clients
  /\ DOMAIN cacheStorage \subseteq Keys
  /\ \A k \in DOMAIN cacheStorage : cacheStorage[k] \in Answers
  /\ client \in [Clients -> ClientRecords]
  /\ server \in [Servers -> ServerRecords]
  /\ peer \in [Clients -> Peers]
  /\ backlog \in Seq(Clients)
  /\ origin \in [Servers -> Origins]

Constructed == pc # "construct" /\ ~(pc = "exit" /\ poll = EmptyPollTable)

(* The connections with a slot, and the slot each believes to have. *)
Owners == ToSet(clientsConnections) \union ToSet(serversConnections)

InPollListIdx(o) == IF o \in Clients THEN ClientIdx(o) ELSE ServerIdx(o)

(* The slots of the table and the connections in the two lists correspond one   *)
(* to one, every other slot but the listening socket's is ignored and free, and *)
(* pollListSize counts them: no removal frees a slot twice or frees another     *)
(* connection's slot (Proxy.cpp:19-37, 136, 286).                               *)
PollTableConsistent ==
  Constructed =>
    /\ \A o \in Owners : poll.pollList[InPollListIdx(o)].fd = o
    /\ poll.pollList[ListeningIdx].fd = ListeningSocketFd
    /\ \A i \in Slots :
         LET fd == poll.pollList[i].fd
         IN  /\ fd = IgnoredSocketFd <=> i \in poll.free
             /\ fd \in Owners => InPollListIdx(fd) = i
             /\ fd \in Owners \union {IgnoredSocketFd, ListeningSocketFd}
    /\ poll.size = 1 + OpenConnections
    /\ IsInjective(clientsConnections) /\ IsInjective(serversConnections)

(* While the process may open another descriptor, the heap of free indexes is   *)
(* not empty: top() and pop() of Proxy.cpp:20-21 are never undefined, though    *)
(* nothing tests the heap.                                                      *)
SlotForEveryDescriptor ==
  Constructed /\ OpenConnections < FdLimit => poll.free # {}

(* The keys under fetch are those of the server connections, one connection for *)
(* each, and no key is fetched whose answer is cached: however many clients ask *)
(* for a resource and however they come and go, it is fetched once at a time    *)
(* (Proxy.cpp:209-222, 269, 284).                                               *)
SingleFlight ==
  /\ DOMAIN clientsWaitingForResponse =
       {server[s].request.key : s \in ToSet(serversConnections)}
  /\ \A s, t \in ToSet(serversConnections) :
       server[s].request.key = server[t].request.key => s = t
  /\ DOMAIN clientsWaitingForResponse \intersect DOMAIN cacheStorage = {}

(* A connected client whose request was taken and is not being answered is in   *)
(* the set of the key it asked for, hence some server connection will wake it;  *)
(* and nobody waits for a key he did not ask for (Proxy.cpp:212-222, 367-370).  *)
NoOrphanedWaiter ==
  /\ \A c \in ToSet(clientsConnections) :
       client[c].connectionState = "PROCESSING_REQUEST"
         => c \in WaitingFor(client[c].request.key)
  /\ \A k \in DOMAIN clientsWaitingForResponse : \A c \in clientsWaitingForResponse[k] :
       /\ client[c].connectionState = "PROCESSING_REQUEST"
       /\ client[c].request.key = k

(* The answers a request may get. *)
IsAnswerTo(asked, answer) ==
  IF asked.verdict = "WITHOUT_ERRORS"
  THEN answer = GatewayTimeout \/ answer.request.key = asked.key
  ELSE answer = ErrorMessage(ErrorStatusOf[asked.verdict])

(* What a client is being sent is the proxy's refusal of that very request, a   *)
(* gateway timeout, or an origin's answer to the method and uri it asked for    *)
(* (Proxy.cpp:178-227, 255-281).                                                *)
AnswerMatchesRequest ==
  \A c \in ToSet(clientsConnections) :
    client[c].connectionState = "RECEIVING_ANSWER"
      => IsAnswerTo(client[c].request, client[c].sendAnswerBuf)

(* The events a connection is polled for are those its state waits for: no      *)
(* connection is left asleep in a state that needs an event, none is woken in a *)
(* state that cannot handle it. Holds as long as no client goes away while it   *)
(* waits.                                                                       *)
ArmedForState ==
  /\ \A c \in ToSet(clientsConnections) :
       poll.pollList[ClientIdx(c)].events =
         CASE client[c].connectionState \in {"WAITING_FOR_REQUEST", "RECEIVING_REQUEST"}
                -> {"POLLIN"}
           [] client[c].connectionState = "RECEIVING_ANSWER" -> {"POLLOUT"}
           [] OTHER -> {}
  /\ \A s \in ToSet(serversConnections) :
       poll.pollList[ServerIdx(s)].events =
         IF server[s].connectionState = "SENDING_REQUEST" THEN {"POLLOUT"} ELSE {"POLLIN"}

(* The handler of a connection never calls recv() on a socket that has nothing  *)
(* to return -- the sockets block, and so would the only thread -- although the *)
(* iterator passes some connections twice and the poll() results age during a   *)
(* pass (Proxy.cpp:150, 170, 313, 321).                                         *)
ReceiveNeverBlocks ==
  /\ \A c \in Clients : AtClient(c) /\ ClientIsReadable(c)
                          => ~RecvBlocks(peer[c], client[c].received)
  /\ \A s \in Servers : AtServer(s) /\ ServerIsReadable(s)
                          => ~RecvBlocks(origin[s], server[s].recvLen)

(* A cached answer is neither replaced nor dropped: a second fetch of a cached  *)
(* resource never completes, and clients reading an entry read the one entry    *)
(* (Proxy.cpp:209, 269; Cache.h:17-20).                                         *)
CacheWriteOnce ==
  [][\A k \in DOMAIN cacheStorage :
       k \in DOMAIN cacheStorage' /\ cacheStorage'[k] = cacheStorage[k]]_vars

(* A connection whose request was forwarded does nothing but receive until it   *)
(* is shut down, also when a departed client's index lets it be polled for      *)
(* writing again: the request is not sent a second time and nothing received is *)
(* lost (Proxy.cpp:300-312, ServerConnection.cpp:31-49).                        *)
FetchNeverRestarted ==
  [][\A s \in ToSet(serversConnections) :
       server[s].connectionState = "RECEIVING_ANSWER" /\ s \in ToSet(serversConnections')
         => /\ server'[s].connectionState = "RECEIVING_ANSWER"
            /\ server'[s].sendRequestOffset = server[s].sendRequestOffset
            /\ server'[s].recvLen >= server[s].recvLen]_vars

(* When the fetch of an answer ends and its origin was not reset, the origin    *)
(* has closed, and every connected client that waits is given all that the      *)
(* origin had sent, in whatever pieces it came and whenever it was read, and    *)
(* the cache too, if anything: nothing is passed on before the close, nothing   *)
(* that is still queued is lost. Unless recv() fails although there is          *)
(* something to take (Proxy.cpp:252-288, 294-327; ServerConnection.cpp:62-87).  *)
AnswerPassedOnWhole ==
  [][\A s \in ToSet(serversConnections) :
       s \notin ToSet(serversConnections') /\ ~origin[s].rst /\ "recv_error" \notin Faults
         => LET key == server[s].request.key
                all == OriginAnswer(origin[s].response, server[s].request, origin[s].sent)
            IN  /\ origin[s].fin
                /\ \A c \in ToSet(clientsConnections) :
                     c \in WaitingFor(key) => client'[c].sendAnswerBuf = all
                /\ key \in DOMAIN cacheStorage' => cacheStorage'[key] = all]_vars

(* Once a client is being answered, it gets that answer and every byte of it    *)
(* once: no later event starts another answer or moves the offset back          *)
(* (Proxy.cpp:231-250, 271-280).                                                *)
AnswerNeverRestarted ==
  [][\A c \in ToSet(clientsConnections) :
       client[c].connectionState = "RECEIVING_ANSWER" /\ c \in ToSet(clientsConnections')
         => /\ client'[c].connectionState = "RECEIVING_ANSWER"
            /\ client'[c].sendAnswerBuf = client[c].sendAnswerBuf
            /\ client'[c].sendAnswerOffset >= client[c].sendAnswerOffset]_vars

(* Every client that has sent its request to the end is answered, and send()    *)
(* takes the whole of the answer, although accept() takes one client per pass,  *)
(* the iterator passes over connections, clients wait for each other's fetch,   *)
(* origins fail and one client may hold up the thread for a while. Only a       *)
(* shutdown leaves it unanswered -- where clients stay, recv() does not fail and *)
(* no text makes a parser throw (Proxy.cpp:86-105, 139-172, 252-318).           *)
Served ==
  \A c \in Clients : peer[c].open /\ peer[c].sent >= ReqLen ~> peer[c].answered \/ pc = "exit"

(* A signal that the thread finds in the middle of a pass stops the proxy at    *)
(* the end of that pass (main.cpp:11-14, Proxy.cpp:86, 104-106).                *)
SignalInPassStops ==
  isInterrupt /\ pc \in {"check", "accept", "clients", "servers"} ~> pc = "exit"

--------------------------------------------------------------------------------
(* What the comments of the source say and the code does not do. *)

(* Proxy.cpp:175: until the answer has come from the server, the events that    *)
(* the client generates are of no interest.                                     *)
WaitingClientIsNotPolled ==
  \A c \in ToSet(clientsConnections) :
    client[c].connectionState = "PROCESSING_REQUEST"
      => poll.pollList[ClientIdx(c)].events = {}

(* Proxy.h:82: clientsWaitingForResponse maps a url to the clients that wait    *)
(* for it. A url names a host.                                                  *)
WaitersShareUrl ==
  \A k \in DOMAIN clientsWaitingForResponse : \A c, d \in clientsWaitingForResponse[k] :
    client[c].request.host = client[d].request.host

(* main.cpp:13: "SHUTDOWN BY TERMINAL SIGNAL", printed once shutdown() has set  *)
(* isInterrupt.                                                                 *)
SignalStops == isInterrupt ~> pc = "exit"

================================================================================
