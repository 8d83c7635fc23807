---------------------------- MODULE ProxyInvariant -----------------------------
(***************************************************************************)
(* The inductive invariant behind the safety properties of Proxy. Apart    *)
(* from the types and the properties themselves it says which connections  *)
(* are in which of the places that name them: the backlog, the lists, the  *)
(* poll table, the sets of waiting clients.                                *)
(***************************************************************************)
EXTENDS Proxy

(* Before the constructor, or after it failed, there is nothing. *)
Nothing ==
  /\ pc \in {"construct", "exit"}
  /\ poll = EmptyPollTable
  /\ clientsConnections = <<>> /\ serversConnections = <<>> /\ backlog = <<>>

(* The slots of the connections, of the listening socket, and the free ones. *)
TableInv ==
  /\ poll.pollList[ListeningIdx].fd = ListeningSocketFd
  /\ \A c \in ToSet(clientsConnections) : poll.pollList[ClientIdx(c)].fd = c
  /\ \A s \in ToSet(serversConnections) : poll.pollList[ServerIdx(s)].fd = s
  /\ \A i \in Slots :
       LET fd == poll.pollList[i].fd
       IN  /\ fd = IgnoredSocketFd <=> i \in poll.free
           /\ fd \in Clients => fd \in ToSet(clientsConnections) /\ ClientIdx(fd) = i
           /\ fd \in Servers => fd \in ToSet(serversConnections) /\ ServerIdx(fd) = i
  /\ poll.size = 1 + OpenConnections
  /\ Cardinality(poll.free) = MaxConnectionNum - poll.size
  /\ IsInjective(clientsConnections)
  /\ IsInjective(serversConnections)

(* A connection is in the backlog or in the list of accepted ones, never in     *)
(* both, and its client's end is open; one that is only in the backlog has no   *)
(* object. poll() reports the listening socket only if somebody is to accept,   *)
(* and nobody connects before the constructor listens.                          *)
AcceptInv ==
  /\ pc = "construct" => Nothing
  /\ IsInjective(backlog)
  /\ \A c \in ToSet(backlog) :
       /\ peer[c].open
       /\ c \notin ToSet(clientsConnections)
       /\ client[c] = NoClient
  /\ \A c \in ToSet(clientsConnections) : peer[c].open
  /\ \A c \in Clients : peer[c].open => peer[c].request \in Requests
  /\ pc = "accept" /\ IsReadyForRead(poll, ListeningIdx) => backlog # <<>>

(* What the handlers rely on when they take a request apart. *)
ObjectInv ==
  /\ \A s \in ToSet(serversConnections) : server[s].request \in Requests
  /\ \A c \in Clients : client[c].connectionState # "WAITING_FOR_RESPONSE"

(* A client that is polled for reading has yet to send (the rest of) its        *)
(* request; in particular nothing is received from one that waits.              *)
PolledInv ==
  \A c \in ToSet(clientsConnections) :
    LET slot == poll.pollList[ClientIdx(c)]
    IN  "POLLIN" \in slot.events \union slot.revents
          => client[c].connectionState \in {"WAITING_FOR_REQUEST", "RECEIVING_REQUEST"}

Inv ==
  /\ TypeOK
  /\ Nothing \/ TableInv
  /\ AcceptInv
  /\ ObjectInv
  /\ PolledInv
  /\ SingleFlight
  /\ NoOrphanedWaiter

--------------------------------------------------------------------------------
(* What the objects hold, given that they are where Inv says: an invariant      *)
(* relative to Inv.                                                             *)

(* The two final states of a server connection never outlive the handler that   *)
(* sets them.                                                                   *)
FetchInv ==
  \A s \in Servers :
    server[s].connectionState \in {"SENDING_REQUEST", "RECEIVING_ANSWER"}

(* Only valid requests are processed, and what is being sent answers what was   *)
(* asked -- for every object, also of a client that has left.                   *)
ClientInv ==
  \A c \in Clients :
    /\ client[c].connectionState = "PROCESSING_REQUEST"
         => client[c].request.verdict = "WITHOUT_ERRORS"
    /\ client[c].connectionState = "RECEIVING_ANSWER"
         => IsAnswerTo(client[c].request, client[c].sendAnswerBuf)

(* The cache holds answers to the key they are stored under. *)
CacheInv == \A k \in DOMAIN cacheStorage : cacheStorage[k].request.key = k

AnswerInv == FetchInv /\ ClientInv /\ CacheInv

--------------------------------------------------------------------------------
(* What an object holds in each state, given that they are where Inv says: its  *)
(* request from the moment it has been received to the end, an answer from the  *)
(* moment it is being sent; in between its client waits.                        *)
Idle(object) ==
  /\ object.connectionState \in {"WAITING_FOR_REQUEST", "RECEIVING_REQUEST"}
  /\ object.request = NoRequest
  /\ object.sendAnswerBuf = NoBuf

Waiting(object) ==
  /\ object.connectionState = "PROCESSING_REQUEST"
  /\ object.request \in Requests
  /\ object.received = ReqLen
  /\ object.sendAnswerBuf = NoBuf

Answered(object) ==
  /\ object.connectionState = "RECEIVING_ANSWER"
  /\ object.request \in Requests
  /\ object.sendAnswerBuf \in Answers

RequestInv == \A c \in Clients : Idle(client[c]) \/ Waiting(client[c]) \/ Answered(client[c])

--------------------------------------------------------------------------------
(* What the readiness that poll() reported still says when it is used, given    *)
(* Inv.                                                                         *)

(* No more was received than was sent, and what is reported as readable has     *)
(* data, an end or a reset to return: only the handler itself takes data away,  *)
(* and it resets what was reported. An origin that is reported as failed was    *)
(* reset.                                                                       *)
ReceivableInv ==
  /\ \A c \in ToSet(clientsConnections) :
       /\ client[c].received =< peer[c].sent
       /\ IsReadyForRead(poll, ClientIdx(c)) => ~RecvBlocks(peer[c], client[c].received)
  /\ \A s \in ToSet(serversConnections) :
       /\ server[s].recvLen =< origin[s].sent
       /\ IsReadyForRead(poll, ServerIdx(s)) => ~RecvBlocks(origin[s], server[s].recvLen)
       /\ ServerHasError(s) => origin[s].rst

(* A server connection is polled for reading only after its request has been    *)
(* forwarded to the end, and then there is nothing left to forward.             *)
RelayInv ==
  \A s \in ToSet(serversConnections) :
    LET slot == poll.pollList[ServerIdx(s)]
    IN  /\ "POLLIN" \in slot.events \union slot.revents
             => server[s].connectionState = "RECEIVING_ANSWER"
        /\ server[s].connectionState = "RECEIVING_ANSWER"
             => server[s].sendRequestOffset = ReqLen

(* What poll() reported is what was asked for, and the reset of a client's      *)
(* socket only if it was reset.                                                 *)
ReportedInv ==
  /\ \A c \in ToSet(clientsConnections) :
       LET slot == poll.pollList[ClientIdx(c)]
       IN  /\ slot.revents \subseteq slot.events \union {"POLLERR"}
           /\ "POLLERR" \in slot.revents => peer[c].rst
  /\ \A s \in ToSet(serversConnections) :
       LET slot == poll.pollList[ServerIdx(s)]
       IN  slot.revents \subseteq slot.events \union {"POLLERR"}

(* Without the fault "reset_while_waiting": no client leaves a set of waiting   *)
(* clients other than by being answered, since none is reset that could be in   *)
(* one.                                                                         *)
NobodyLeavesWaiting ==
  /\ \A k \in DOMAIN clientsWaitingForResponse :
       clientsWaitingForResponse[k] \subseteq ToSet(clientsConnections)
  /\ \A c \in ToSet(clientsConnections) \union ToSet(backlog) : Awaits(c) => ~peer[c].rst

ArmedInv == ArmedForState /\ ReportedInv /\ NobodyLeavesWaiting

================================================================================
