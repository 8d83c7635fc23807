------------------------------- MODULE ProxyProofs ------------------------------
(***************************************************************************)
(* Inv is an invariant of the proxy, and the safety properties it implies. *)
(***************************************************************************)
EXTENDS ProxyInvariant, ProxyLemmas

Fds == Clients \union Servers \union {ListeningSocketFd}

(* A slot is left as long as the process may open a descriptor. *)
LEMMA SlotIsLeft ==
  ASSUME TypeOK, TableInv, OpenConnections < FdLimit
  PROVE  poll.free # {}
<1>1. Len(clientsConnections) \in Nat /\ Len(serversConnections) \in Nat
  BY DEF TypeOK
<1>2. Cardinality(poll.free) > 0
  BY <1>1, MaxConnectionNumAssumption, ProxyAssumption DEF TableInv, OpenConnections
<1>. QED  BY <1>2, FS_EmptySet

(* The elements that are handled are in the lists. *)
LEMMA ClientInList ==
  ASSUME TypeOK, NEW c, AtClient(c)
  PROVE  /\ c \in Clients /\ c \in ToSet(clientsConnections)
         /\ it \in 1..Len(clientsConnections)
         /\ c = clientsConnections[it]
<1>1. it \in 1..Len(clientsConnections) /\ c = clientsConnections[it]
  BY DEF AtClient, TypeOK
<1>. QED  BY <1>1, InToSet DEF TypeOK

LEMMA ServerInList ==
  ASSUME TypeOK, NEW s, AtServer(s)
  PROVE  /\ s \in Servers /\ s \in ToSet(serversConnections)
         /\ it \in 1..Len(serversConnections)
         /\ s = serversConnections[it]
<1>1. it \in 1..Len(serversConnections) /\ s = serversConnections[it]
  BY DEF AtServer, TypeOK
<1>. QED  BY <1>1, InToSet DEF TypeOK

--------------------------------------------------------------------------------
(* The steps that change nothing the invariant is about. *)

(* The thread goes on, or the signal handler runs. *)
LEMMA QuietStep ==
  ASSUME Inv,
         UNCHANGED <<poll, lists, store, client, server, env>>,
         pc' \in PcValues, it' \in Nat \ {0}, isInterrupt' \in BOOLEAN,
         pc \in {"construct", "exit"} => pc' \in {"construct", "exit"},
         pc' = "construct" => pc = "construct",
         pc' = "accept" => pc = "accept"
  PROVE  Inv'
<1>. USE DEF lists, store, env, Inv
<1>1. TypeOK'
  BY DEF TypeOK
<1>2. (Nothing \/ TableInv)'
  BY DEF Nothing, TableInv, ClientIdx, ServerIdx, OpenConnections
<1>3. AcceptInv'
  BY DEF AcceptInv, Nothing
<1>4. ObjectInv' /\ PolledInv'
  BY DEF ObjectInv, PolledInv, ClientIdx
<1>5. SingleFlight'
  BY DEF SingleFlight
<1>6. NoOrphanedWaiter'
  BY DEF NoOrphanedWaiter, WaitingFor
<1>. QED  BY <1>1, <1>2, <1>3, <1>4, <1>5, <1>6

(* A move of a client's end that neither connects nor takes back its request. *)
LEMMA PeerStep ==
  ASSUME Inv, OnlyPeer, peer' \in [Clients -> Peers],
         \A c \in Clients : peer'[c].open = peer[c].open /\ peer'[c].request = peer[c].request
  PROVE  Inv'
<1>. USE DEF lists, store, Inv, OnlyPeer
<1>0. ToSet(clientsConnections) \subseteq Clients /\ ToSet(backlog) \subseteq Clients
  BY InToSet DEF TypeOK
<1>1. TypeOK'
  BY DEF TypeOK
<1>2. (Nothing \/ TableInv)'
  BY DEF Nothing, TableInv, ClientIdx, ServerIdx, OpenConnections
<1>3. AcceptInv'
  BY <1>0 DEF AcceptInv, Nothing
<1>4. ObjectInv' /\ PolledInv'
  BY DEF ObjectInv, PolledInv, ClientIdx
<1>5. SingleFlight'
  BY DEF SingleFlight
<1>6. NoOrphanedWaiter'
  BY DEF NoOrphanedWaiter, WaitingFor
<1>. QED  BY <1>1, <1>2, <1>3, <1>4, <1>5, <1>6

(* A move of an origin. *)
LEMMA OriginStep ==
  ASSUME Inv, OnlyOrigin, origin' \in [Servers -> Origins]
  PROVE  Inv'
<1>. USE DEF lists, store, Inv, OnlyOrigin
<1>1. TypeOK'
  BY DEF TypeOK
<1>2. (Nothing \/ TableInv)'
  BY DEF Nothing, TableInv, ClientIdx, ServerIdx, OpenConnections
<1>3. AcceptInv'
  BY DEF AcceptInv, Nothing
<1>4. ObjectInv' /\ PolledInv'
  BY DEF ObjectInv, PolledInv, ClientIdx
<1>5. SingleFlight'
  BY DEF SingleFlight
<1>6. NoOrphanedWaiter'
  BY DEF NoOrphanedWaiter, WaitingFor
<1>. QED  BY <1>1, <1>2, <1>3, <1>4, <1>5, <1>6

--------------------------------------------------------------------------------
(* The turns in which no connection comes or goes. *)

(* What the objects and the table are, spelt out for the connections in the     *)
(* lists: each has a slot of its own.                                           *)
LEMMA Places ==
  ASSUME TypeOK, TableInv
  PROVE  /\ poll \in PollTables(Fds)
         /\ ToSet(clientsConnections) \subseteq Clients
         /\ ToSet(serversConnections) \subseteq Servers
         /\ \A c \in Clients : client[c] \in ClientRecords /\ ClientIdx(c) \in Slots
         /\ \A s \in Servers : server[s] \in ServerRecords /\ ServerIdx(s) \in Slots
         /\ \A c, d \in ToSet(clientsConnections) : ClientIdx(c) = ClientIdx(d) => c = d
         /\ \A s, t \in ToSet(serversConnections) : ServerIdx(s) = ServerIdx(t) => s = t
         /\ \A c \in ToSet(clientsConnections), s \in ToSet(serversConnections) :
              ClientIdx(c) # ServerIdx(s)
         /\ \A c \in ToSet(clientsConnections) :
              ClientIdx(c) # ListeningIdx /\ ClientIdx(c) \notin poll.free
         /\ \A s \in ToSet(serversConnections) :
              ServerIdx(s) # ListeningIdx /\ ServerIdx(s) \notin poll.free
         /\ ListeningIdx \in Slots /\ ListeningIdx \notin poll.free
<1>1. poll \in PollTables(Fds)
  BY DEF TypeOK, Fds
<1>2. ToSet(clientsConnections) \subseteq Clients /\ ToSet(serversConnections) \subseteq Servers
  BY InToSet DEF TypeOK
<1>3. \A c \in Clients : client[c] \in ClientRecords /\ ClientIdx(c) \in Slots
  BY DEF TypeOK, ClientRecords, ClientIdx
<1>4. \A s \in Servers : server[s] \in ServerRecords /\ ServerIdx(s) \in Slots
  BY DEF TypeOK, ServerRecords, ServerIdx
<1>5. ListeningIdx \in Slots
  BY MaxConnectionNumAssumption DEF Slots, ListeningIdx
<1>6. /\ \A c \in ToSet(clientsConnections) : poll.pollList[ClientIdx(c)].fd = c
      /\ \A s \in ToSet(serversConnections) : poll.pollList[ServerIdx(s)].fd = s
      /\ poll.pollList[ListeningIdx].fd = ListeningSocketFd
      /\ \A i \in Slots : poll.pollList[i].fd = IgnoredSocketFd <=> i \in poll.free
  BY DEF TableInv
<1>7. /\ \A c \in Clients : c # ListeningSocketFd /\ c # IgnoredSocketFd /\ c \notin Servers
      /\ \A s \in Servers : s # ListeningSocketFd /\ s # IgnoredSocketFd
      /\ ListeningSocketFd # IgnoredSocketFd
  BY ProxyAssumption
<1>8. \A c \in ToSet(clientsConnections), s \in ToSet(serversConnections) : c # s
  BY <1>2, <1>7
<1>. QED  BY <1>1, <1>2, <1>3, <1>4, <1>5, <1>6, <1>7, <1>8

LEMMA TableKept ==
  ASSUME TypeOK, TableInv, SameOwners(poll', poll), UNCHANGED lists,
         \A c \in Clients : client'[c].inPollListIdx = client[c].inPollListIdx,
         \A s \in Servers : server'[s].inPollListIdx = server[s].inPollListIdx
  PROVE  TableInv'
<1>1. \A i \in Slots : poll'.pollList[i].fd = poll.pollList[i].fd
  BY DEF SameOwners
<1>2. poll'.size = poll.size /\ poll'.free = poll.free
  BY DEF SameOwners
<1>. QED
  BY <1>1, <1>2, Places DEF TableInv, ClientIdx, ServerIdx, OpenConnections, lists

(* The turn of client c that keeps it: the object may change but for its slot,  *)
(* and the slot but for its owner.                                              *)
TurnOf(c, object) ==
  /\ AtClient(c)
  /\ Advance
  /\ isInterrupt' = isInterrupt \/ isInterrupt' = TRUE
  /\ UNCHANGED <<pc, lists, server, env>>
  /\ poll' \in PollTables(Fds)
  /\ SameOwners(poll', poll)
  /\ \A i \in Slots \ {ClientIdx(c)} :
       /\ poll'.pollList[i].events = poll.pollList[i].events
       /\ poll'.pollList[i].revents = poll.pollList[i].revents
  /\ object \in ClientRecords
  /\ object.inPollListIdx = ClientIdx(c)
  /\ object.connectionState # "WAITING_FOR_RESPONSE"
  /\ "POLLIN" \in poll'.pollList[ClientIdx(c)].events
                    \union poll'.pollList[ClientIdx(c)].revents
       => object.connectionState \in {"WAITING_FOR_REQUEST", "RECEIVING_REQUEST"}
  /\ client' = [client EXCEPT ![c] = object]

LEMMA ClientTurn ==
  ASSUME Inv, NEW c, NEW object, TurnOf(c, object)
  PROVE  /\ client' \in [Clients -> ClientRecords]
         /\ client'[c] = object
         /\ \A d \in Clients \ {c} : client'[d] = client[d]
         /\ it' \in Nat \ {0}
         /\ TableInv' /\ AcceptInv' /\ ObjectInv' /\ PolledInv'
<1>. USE DEF TurnOf
<1>1. TypeOK /\ TableInv
  BY DEF Inv, Nothing, AtClient
<1>2. c \in Clients /\ c \in ToSet(clientsConnections)
  BY <1>1, ClientInList
<1>3. /\ client' \in [Clients -> ClientRecords]
      /\ client'[c] = object
      /\ \A d \in Clients \ {c} : client'[d] = client[d]
  BY <1>1, <1>2 DEF TypeOK
<1>4. TableInv'
  BY <1>1, <1>2, <1>3, TableKept DEF ClientIdx, env
<1>5. AcceptInv'
  <2>1. \A d \in ToSet(backlog) : d \in Clients
    BY <1>1, InToSet DEF TypeOK
  <2>2. pc' \notin {"construct", "accept"}
    BY DEF AtClient
  <2>. QED  BY <1>2, <1>3, <2>1, <2>2 DEF Inv, AcceptInv, lists, env
<1>6. ObjectInv'
  BY <1>3 DEF Inv, ObjectInv, lists
<1>7. PolledInv'
  <2>. SUFFICES ASSUME NEW d \in ToSet(clientsConnections),
                       "POLLIN" \in poll'.pollList[ClientIdx(d)'].events
                                      \union poll'.pollList[ClientIdx(d)'].revents
                PROVE  client'[d].connectionState
                         \in {"WAITING_FOR_REQUEST", "RECEIVING_REQUEST"}
    BY DEF PolledInv, lists
  <2>1. d \in Clients
    BY <1>1, Places
  <2>2. CASE d = c
    BY <1>3, <2>2 DEF ClientIdx
  <2>3. CASE d # c
    <3>1. client'[d] = client[d] /\ ClientIdx(d)' = ClientIdx(d)
      BY <1>3, <2>1, <2>3 DEF ClientIdx
    <3>2. ClientIdx(d) \in Slots \ {ClientIdx(c)}
      BY <1>1, <1>2, <2>1, <2>3, Places
    <3>. QED  BY <3>1, <3>2 DEF Inv, PolledInv
  <2>. QED  BY <2>2, <2>3
<1>8. it' \in Nat \ {0}
  BY <1>1 DEF TypeOK, Advance
<1>. QED  BY <1>3, <1>4, <1>5, <1>6, <1>7, <1>8

(* ... and leaves the sets of waiting clients alone. *)
LEMMA ClientTurnKeepsWaiters ==
  ASSUME Inv, NEW c, NEW object, TurnOf(c, object), UNCHANGED store,
         \/ /\ client[c].connectionState # "PROCESSING_REQUEST"
            /\ object.connectionState # "PROCESSING_REQUEST"
         \/ /\ object.connectionState = client[c].connectionState
            /\ object.request = client[c].request
  PROVE  Inv'
<1>1. TypeOK /\ TableInv
  BY DEF Inv, Nothing, AtClient, TurnOf
<1>2. /\ client' \in [Clients -> ClientRecords]
      /\ client'[c] = object
      /\ \A d \in Clients \ {c} : client'[d] = client[d]
      /\ it' \in Nat \ {0}
      /\ TableInv' /\ AcceptInv' /\ ObjectInv' /\ PolledInv'
  BY ClientTurn
<1>3. TypeOK'
  BY <1>1, <1>2 DEF TypeOK, TurnOf, Fds, lists, store, env
<1>4. SingleFlight'
  BY DEF Inv, SingleFlight, TurnOf, lists, store
<1>5. NoOrphanedWaiter'
  <2>1. ToSet(clientsConnections) \subseteq Clients
    BY <1>1, Places
  <2>2. \A k \in DOMAIN clientsWaitingForResponse : clientsWaitingForResponse[k] \subseteq Clients
    BY <1>1 DEF TypeOK
  <2>. QED  BY <1>2, <2>1, <2>2 DEF Inv, NoOrphanedWaiter, WaitingFor, TurnOf, lists, store
<1>. QED  BY <1>2, <1>3, <1>4, <1>5 DEF Inv

(* The turn of server connection s that keeps it. *)
LEMMA KeepServerStep ==
  ASSUME Inv, NEW s, AtServer(s),
         NEW table \in PollTables(Fds), KeepServer(s, table),
         SameOwners(table, poll),
         \A i \in Slots \ {ServerIdx(s)} :
           /\ table.pollList[i].events = poll.pollList[i].events
           /\ table.pollList[i].revents = poll.pollList[i].revents,
         NEW object \in ServerRecords,
         server' = [server EXCEPT ![s] = object],
         SamePlace(object, server[s])
  PROVE  Inv'
<1>1. TypeOK /\ TableInv
  BY DEF Inv, Nothing, AtServer
<1>2. s \in Servers /\ s \in ToSet(serversConnections) /\ it \in Nat
  BY <1>1, ServerInList DEF TypeOK
<1>3. /\ poll' \in PollTables(Fds)
      /\ SameOwners(poll', table)
      /\ \A i \in Slots : /\ poll'.pollList[i].events = table.pollList[i].events
                          /\ poll'.pollList[i].revents =
                               IF i = ServerIdx(s) THEN {} ELSE table.pollList[i].revents
  <2>1. ServerIdx(s) \in Slots
    BY <1>1, <1>2, Places
  <2>2. poll' = ClearRevents(table, ServerIdx(s))
    BY DEF KeepServer
  <2>. QED  BY <2>1, <2>2, ClearReventsEffect
<1>4. SameOwners(poll', poll)
  BY <1>3 DEF SameOwners
<1>5. /\ server' \in [Servers -> ServerRecords]
      /\ \A t \in Servers : SamePlace(server'[t], server[t])
  BY <1>1, <1>2 DEF TypeOK, SamePlace
<1>6. UNCHANGED <<pc, isInterrupt, lists, store, client, env>> /\ it' = it + 1
  BY DEF KeepServer, Advance
<1>7. TypeOK'
  BY <1>1, <1>2, <1>3, <1>5, <1>6 DEF TypeOK, Fds, lists, store, env
<1>8. TableInv'
  BY <1>1, <1>4, <1>5, <1>6, TableKept DEF SamePlace
<1>9. AcceptInv'
  BY <1>6 DEF Inv, AcceptInv, AtServer, lists, env
<1>10. ObjectInv'
  BY <1>1, <1>5, <1>6, Places DEF Inv, ObjectInv, SamePlace, lists
<1>11. PolledInv'
  <2>1. \A c \in ToSet(clientsConnections) :
          ClientIdx(c)' = ClientIdx(c) /\ ClientIdx(c) \in Slots \ {ServerIdx(s)}
    BY <1>1, <1>2, <1>6, Places DEF ClientIdx
  <2>. QED  BY <1>3, <1>6, <2>1 DEF Inv, PolledInv, lists
<1>12. SingleFlight'
  <2>1. \A t \in ToSet(serversConnections) : server'[t].request = server[t].request
    BY <1>1, <1>5, Places DEF SamePlace
  <2>. QED  BY <1>6, <2>1 DEF Inv, SingleFlight, lists, store
<1>13. NoOrphanedWaiter'
  BY <1>6 DEF Inv, NoOrphanedWaiter, WaitingFor, lists, store
<1>. QED  BY <1>7, <1>8, <1>9, <1>10, <1>11, <1>12, <1>13 DEF Inv

--------------------------------------------------------------------------------
(* The client actions that keep their connection.                               *)

(* What holds where client c is handled. *)
LEMMA AtClientFacts ==
  ASSUME Inv, NEW c, AtClient(c)
  PROVE  /\ TypeOK /\ TableInv
         /\ c \in Clients /\ c \in ToSet(clientsConnections)
         /\ client[c] \in ClientRecords /\ ClientIdx(c) \in Slots
         /\ poll \in PollTables(Fds)
         /\ peer[c] \in Peers /\ peer[c].request \in Requests
         /\ client[c].connectionState # "WAITING_FOR_RESPONSE"
<1>1. TypeOK /\ TableInv
  BY DEF Inv, Nothing, AtClient
<1>2. c \in Clients /\ c \in ToSet(clientsConnections)
  BY <1>1, ClientInList
<1>3. peer[c] \in Peers /\ peer[c].request \in Requests
  BY <1>1, <1>2 DEF TypeOK, Inv, AcceptInv
<1>4. client[c].connectionState # "WAITING_FOR_RESPONSE"
  BY <1>2 DEF Inv, ObjectInv
<1>. QED  BY <1>1, <1>2, <1>3, <1>4, Places

(* A client from which the proxy receives does not wait for an answer. *)
LEMMA ReadableClient ==
  ASSUME Inv, NEW c, AtClient(c), ClientIsReadable(c)
  PROVE  /\ client[c].connectionState \in {"WAITING_FOR_REQUEST", "RECEIVING_REQUEST"}
         /\ \A k \in DOMAIN clientsWaitingForResponse : c \notin clientsWaitingForResponse[k]
<1>1. client[c].connectionState \in {"WAITING_FOR_REQUEST", "RECEIVING_REQUEST"}
  BY AtClientFacts DEF Inv, PolledInv, ClientIsReadable, IsReadyForRead
<1>. QED  BY <1>1 DEF Inv, NoOrphanedWaiter

(* The assignments to the slot of client c. *)
LEMMA ClearedSlot ==
  ASSUME Inv, NEW c, AtClient(c)
  PROVE  LET t == ClearRevents(poll, ClientIdx(c))
         IN  /\ t \in PollTables(Fds)
             /\ SameOwners(t, poll)
             /\ \A i \in Slots \ {ClientIdx(c)} :
                  /\ t.pollList[i].events = poll.pollList[i].events
                  /\ t.pollList[i].revents = poll.pollList[i].revents
             /\ t.pollList[ClientIdx(c)].events = poll.pollList[ClientIdx(c)].events
             /\ t.pollList[ClientIdx(c)].revents = {}
<1>. DEFINE i0 == ClientIdx(c)
            t  == ClearRevents(poll, i0)
<1>1. i0 \in Slots /\ poll \in PollTables(Fds)
  BY AtClientFacts
<1>. HIDE DEF i0
<1>2. /\ t \in PollTables(Fds)
      /\ SameOwners(t, poll)
      /\ \A i \in Slots : /\ t.pollList[i].events = poll.pollList[i].events
                          /\ t.pollList[i].revents =
                               IF i = i0 THEN {} ELSE poll.pollList[i].revents
  BY <1>1, ClearReventsEffect
<1>. HIDE DEF t
<1>3. /\ \A i \in Slots \ {i0} : /\ t.pollList[i].events = poll.pollList[i].events
                                /\ t.pollList[i].revents = poll.pollList[i].revents
      /\ t.pollList[i0].events = poll.pollList[i0].events
      /\ t.pollList[i0].revents = {}
  BY <1>1, <1>2
<1>. QED  BY <1>2, <1>3 DEF t, i0

LEMMA ArmedSlot ==
  ASSUME NEW table \in PollTables(Fds), NEW i0 \in Slots, NEW events \in SUBSET Events,
         NEW idxs, \A i \in Slots : i \in idxs <=> i = i0
  PROVE  LET t == SetEvents(table, idxs, events)
         IN  /\ t \in PollTables(Fds)
             /\ SameOwners(t, table)
             /\ \A i \in Slots \ {i0} :
                  /\ t.pollList[i].events = table.pollList[i].events
                  /\ t.pollList[i].revents = table.pollList[i].revents
             /\ t.pollList[i0].events = events
             /\ t.pollList[i0].revents = table.pollList[i0].revents
<1>. DEFINE t == SetEvents(table, idxs, events)
<1>1. /\ t \in PollTables(Fds)
      /\ SameOwners(t, table)
      /\ \A i \in Slots : /\ t.pollList[i].revents = table.pollList[i].revents
                          /\ t.pollList[i].events =
                               IF i \in idxs THEN events ELSE table.pollList[i].events
  BY SetEventsEffect
<1>. HIDE DEF t
<1>2. /\ \A i \in Slots \ {i0} : /\ t.pollList[i].events = table.pollList[i].events
                                /\ t.pollList[i].revents = table.pollList[i].revents
      /\ t.pollList[i0].events = events
      /\ t.pollList[i0].revents = table.pollList[i0].revents
  BY <1>1
<1>. QED  BY <1>1, <1>2 DEF t

LEMMA SilencedSlot ==
  ASSUME Inv, NEW c, AtClient(c)
  PROVE  /\ Silenced(c) \in PollTables(Fds)
         /\ SameOwners(Silenced(c), poll)
         /\ \A i \in Slots \ {ClientIdx(c)} :
              /\ Silenced(c).pollList[i].events = poll.pollList[i].events
              /\ Silenced(c).pollList[i].revents = poll.pollList[i].revents
         /\ Silenced(c).pollList[ClientIdx(c)].events = {}
         /\ Silenced(c).pollList[ClientIdx(c)].revents = {}
<1>. DEFINE i0   == ClientIdx(c)
            idxs == {i0}
            none == {}
            t    == SetEvents(poll, idxs, none)
            u    == ClearRevents(t, i0)
<1>1. /\ i0 \in Slots /\ poll \in PollTables(Fds)
      /\ none \in SUBSET Events
      /\ \A i \in Slots : i \in idxs <=> i = i0
  BY AtClientFacts
<1>2. Silenced(c) = u
  BY DEF Silenced
<1>. HIDE DEF i0, idxs, none
<1>3. /\ t \in PollTables(Fds)
      /\ SameOwners(t, poll)
      /\ \A i \in Slots \ {i0} : /\ t.pollList[i].events = poll.pollList[i].events
                                /\ t.pollList[i].revents = poll.pollList[i].revents
      /\ t.pollList[i0].events = none
  BY <1>1, ArmedSlot
<1>. HIDE DEF t
<1>4. /\ u \in PollTables(Fds)
      /\ SameOwners(u, t)
      /\ \A i \in Slots : /\ u.pollList[i].events = t.pollList[i].events
                          /\ u.pollList[i].revents =
                               IF i = i0 THEN {} ELSE t.pollList[i].revents
  BY <1>1, <1>3, ClearReventsEffect
<1>. HIDE DEF u
<1>5. SameOwners(u, poll)
  BY <1>3, <1>4 DEF SameOwners
<1>6. /\ \A i \in Slots \ {i0} : /\ u.pollList[i].events = poll.pollList[i].events
                                /\ u.pollList[i].revents = poll.pollList[i].revents
      /\ u.pollList[i0].events = none
      /\ u.pollList[i0].revents = {}
  BY <1>1, <1>3, <1>4
<1>. QED  BY <1>2, <1>4, <1>5, <1>6 DEF i0, none

LEMMA AnsweringSlot ==
  ASSUME Inv, NEW c, AtClient(c)
  PROVE  LET t == SetEvents(Silenced(c), {ClientIdx(c)}, {"POLLOUT"})
         IN  /\ t \in PollTables(Fds)
             /\ SameOwners(t, poll)
             /\ \A i \in Slots \ {ClientIdx(c)} :
                  /\ t.pollList[i].events = poll.pollList[i].events
                  /\ t.pollList[i].revents = poll.pollList[i].revents
             /\ t.pollList[ClientIdx(c)].events = {"POLLOUT"}
             /\ t.pollList[ClientIdx(c)].revents = {}
<1>. DEFINE i0   == ClientIdx(c)
            idxs == {i0}
            out  == {"POLLOUT"}
            t    == Silenced(c)
            u    == SetEvents(t, idxs, out)
<1>1. /\ i0 \in Slots
      /\ out \in SUBSET Events
      /\ \A i \in Slots : i \in idxs <=> i = i0
  BY AtClientFacts DEF Events
<1>2. /\ t \in PollTables(Fds)
      /\ SameOwners(t, poll)
      /\ \A i \in Slots \ {i0} : /\ t.pollList[i].events = poll.pollList[i].events
                                /\ t.pollList[i].revents = poll.pollList[i].revents
      /\ t.pollList[i0].revents = {}
  BY SilencedSlot
<1>. HIDE DEF i0, idxs, out, t
<1>3. /\ u \in PollTables(Fds)
      /\ SameOwners(u, t)
      /\ \A i \in Slots \ {i0} : /\ u.pollList[i].events = t.pollList[i].events
                                /\ u.pollList[i].revents = t.pollList[i].revents
      /\ u.pollList[i0].events = out
      /\ u.pollList[i0].revents = t.pollList[i0].revents
  BY <1>1, <1>2, ArmedSlot
<1>. HIDE DEF u
<1>4. SameOwners(u, poll)
  BY <1>2, <1>3 DEF SameOwners
<1>. QED  BY <1>2, <1>3, <1>4 DEF u, t, i0, idxs, out

LEMMA ReceivePartOfRequestStep ==
  ASSUME Inv, NEW c, ReceivePartOfRequest(c)
  PROVE  Inv'
<1>1. AtClient(c) /\ ClientIsReadable(c)
  BY DEF ReceivePartOfRequest
<1>2. PICK n \in 1..Available(peer[c], client[c].received) :
        client' = [client EXCEPT ![c] = PartOfRequest(client[c], n)]
  BY DEF ReceivePartOfRequest
<1>. DEFINE object == PartOfRequest(client[c], n)
<1>3. /\ object \in ClientRecords
      /\ SamePlace(object, client[c])
      /\ object.connectionState = "RECEIVING_REQUEST"
  <2>1. peer[c].sent \in 0..(ReqLen + 1) /\ client[c].received \in 0..(ReqLen + 1)
    BY <1>1, AtClientFacts DEF Peers, ClientRecords
  <2>2. n \in Nat /\ client[c].received + n =< ReqLen + 1
    BY <2>1, MessagesAssumption DEF Available
  <2>3. client[c] \in ClientRecords
    BY <1>1, AtClientFacts
  <2>. QED  BY <2>2, <2>3, PartOfRequestEffect
<1>. HIDE DEF object
<1>4. TurnOf(c, object)
  <2>1. client' = [client EXCEPT ![c] = object] /\ object.inPollListIdx = ClientIdx(c)
    BY <1>2, <1>3 DEF object, SamePlace, ClientIdx
  <2>2. poll' = ClearRevents(poll, ClientIdx(c))
    BY DEF ReceivePartOfRequest
  <2>3. /\ poll' \in PollTables(Fds)
        /\ SameOwners(poll', poll)
        /\ \A i \in Slots \ {ClientIdx(c)} :
             /\ poll'.pollList[i].events = poll.pollList[i].events
             /\ poll'.pollList[i].revents = poll.pollList[i].revents
    BY <1>1, <2>2, ClearedSlot
  <2>. QED
    BY <1>1, <1>3, <2>1, <2>3 DEF ReceivePartOfRequest, TurnOf
<1>. QED
  BY <1>1, <1>3, <1>4, ReadableClient, ClientTurnKeepsWaiters DEF ReceivePartOfRequest

(* The arrival of a request that is answered at once. *)
LEMMA AnswerAtOnceStep ==
  ASSUME Inv, NEW c, ReceivesRequest(c), NEW answer \in Answers, AnswerAtOnce(c, answer)
  PROVE  Inv'
<1>1. AtClient(c) /\ ClientIsReadable(c)
  BY DEF ReceivesRequest
<1>2. TypeOK /\ c \in Clients /\ client[c] \in ClientRecords /\ peer[c].request \in Requests
  BY <1>1, AtClientFacts
<1>. DEFINE whole  == WholeRequest(client[c], peer[c].request)
            object == InitializeAnswerSending(whole, answer)
<1>3. /\ object \in ClientRecords
      /\ object.inPollListIdx = ClientIdx(c)
      /\ object.connectionState = "RECEIVING_ANSWER"
  BY <1>2, WholeRequestEffect, InitializeAnswerSendingEffect DEF SamePlace, ClientIdx
<1>4. client' = [client EXCEPT ![c] = object]
  BY <1>2 DEF AnswerAtOnce, Transmitting, RequestReceived, TypeOK
<1>. HIDE DEF object
<1>5. /\ poll' \in PollTables(Fds)
      /\ SameOwners(poll', poll)
      /\ \A i \in Slots \ {ClientIdx(c)} :
           /\ poll'.pollList[i].events = poll.pollList[i].events
           /\ poll'.pollList[i].revents = poll.pollList[i].revents
      /\ "POLLIN" \notin poll'.pollList[ClientIdx(c)].events
                           \union poll'.pollList[ClientIdx(c)].revents
  <2>1. poll' = SetEvents(Silenced(c), {ClientIdx(c)}, {"POLLOUT"})
    BY DEF AnswerAtOnce
  <2>. QED  BY <1>1, <2>1, AnsweringSlot
<1>6. TurnOf(c, object)
  BY <1>1, <1>3, <1>4, <1>5 DEF AnswerAtOnce, TurnOf
<1>. QED
  BY <1>1, <1>3, <1>6, ReadableClient, ClientTurnKeepsWaiters DEF AnswerAtOnce

LEMMA RefuseWrongRequestStep ==
  ASSUME Inv, NEW c, RefuseWrongRequest(c)
  PROVE  Inv'
<1>1. AtClient(c) /\ ReceivesRequest(c) /\ peer[c].request.verdict \in DOMAIN ErrorStatusOf
  BY DEF RefuseWrongRequest, ReceivesRequest
<1>2. ErrorMessage(ErrorStatusOf[peer[c].request.verdict]) \in Answers
  BY <1>1, AtClientFacts, RefusalIsAnswer
<1>. QED  BY <1>1, <1>2, AnswerAtOnceStep DEF RefuseWrongRequest

LEMMA AnswerFromCacheStep ==
  ASSUME Inv, NEW c, AnswerFromCache(c)
  PROVE  Inv'
<1>1. AtClient(c) /\ ReceivesRequest(c)
  BY DEF AnswerFromCache, ReceivesRequest
<1>2. cacheStorage[peer[c].request.key] \in Answers
  BY DEF AnswerFromCache, Inv, TypeOK
<1>. QED  BY <1>1, <1>2, AnswerAtOnceStep DEF AnswerFromCache

LEMMA CannotResolveHostStep ==
  ASSUME Inv, NEW c, CannotResolveHost(c)
  PROVE  Inv'
<1>1. ReceivesRequest(c) /\ AnswerAtOnce(c, GatewayTimeout)
  BY DEF CannotResolveHost, MissesCache
<1>. QED  BY <1>1, AnswerAtOnceStep, GatewayTimeoutIsAnswer

(* The object of a client whose request has been taken. *)
LEMMA TakenRequest ==
  ASSUME Inv, NEW c, ReceivesRequest(c), peer[c].request.verdict = "WITHOUT_ERRORS"
  PROVE  LET object == WholeRequest(client[c], peer[c].request)
         IN  /\ object \in ClientRecords
             /\ object.inPollListIdx = ClientIdx(c)
             /\ object.request = peer[c].request
             /\ object.connectionState = "PROCESSING_REQUEST"
             /\ RequestReceived(c) = [client EXCEPT ![c] = object]
<1>1. client[c] \in ClientRecords /\ peer[c].request \in Requests
  BY AtClientFacts DEF ReceivesRequest
<1>. QED  BY <1>1, WholeRequestEffect DEF ClientIdx, RequestReceived

LEMMA JoinWaitersStep ==
  ASSUME Inv, NEW c, JoinWaiters(c)
  PROVE  Inv'
<1>. DEFINE object == WholeRequest(client[c], peer[c].request)
            key    == peer[c].request.key
<1>1. /\ ReceivesRequest(c) /\ AtClient(c) /\ ClientIsReadable(c)
      /\ peer[c].request.verdict = "WITHOUT_ERRORS"
      /\ key \in DOMAIN clientsWaitingForResponse
  BY DEF JoinWaiters, ReceivesRequest
<1>2. /\ TypeOK /\ c \in Clients
      /\ ToSet(clientsConnections) \subseteq Clients
  BY <1>1, AtClientFacts, Places
<1>3. /\ object \in ClientRecords
      /\ object.inPollListIdx = ClientIdx(c)
      /\ object.request.key = key
      /\ object.connectionState = "PROCESSING_REQUEST"
      /\ client' = [client EXCEPT ![c] = object]
  BY <1>1, TakenRequest DEF JoinWaiters
<1>. HIDE DEF object
<1>4. TurnOf(c, object)
  BY <1>1, <1>3, SilencedSlot DEF JoinWaiters, TurnOf
<1>5. /\ client' \in [Clients -> ClientRecords]
      /\ client'[c] = object
      /\ \A d \in Clients \ {c} : client'[d] = client[d]
      /\ it' \in Nat \ {0}
      /\ TableInv' /\ AcceptInv' /\ ObjectInv' /\ PolledInv'
  BY <1>4, ClientTurn
<1>6. /\ DOMAIN clientsWaitingForResponse' = DOMAIN clientsWaitingForResponse
      /\ \A k \in DOMAIN clientsWaitingForResponse :
           clientsWaitingForResponse'[k] =
             IF k = key THEN clientsWaitingForResponse[k] \union {c}
                        ELSE clientsWaitingForResponse[k]
  BY <1>1 DEF JoinWaiters
<1>. HIDE DEF key
<1>7. TypeOK'
  BY <1>2, <1>4, <1>5, <1>6 DEF JoinWaiters, TypeOK, TurnOf, Fds, lists, env
<1>8. SingleFlight'
  <2>1. SingleFlight /\ UNCHANGED <<serversConnections, server, cacheStorage>>
    BY DEF Inv, JoinWaiters, lists
  <2>. QED  BY <1>6, <2>1 DEF SingleFlight
<1>9. NoOrphanedWaiter'
  <2>1. /\ \A k \in DOMAIN clientsWaitingForResponse : clientsWaitingForResponse[k] \subseteq Clients
        /\ \A k \in DOMAIN clientsWaitingForResponse : c \notin clientsWaitingForResponse[k]
    BY <1>1, <1>2, ReadableClient DEF TypeOK
  <2>2. ASSUME NEW d \in ToSet(clientsConnections)',
               client'[d].connectionState = "PROCESSING_REQUEST"
        PROVE  d \in WaitingFor(client[d].request.key)'
    <3>1. d \in ToSet(clientsConnections)
      BY DEF JoinWaiters, lists
    <3>2. CASE d = c
      BY <1>1, <1>3, <1>5, <1>6, <3>2 DEF WaitingFor, key
    <3>3. CASE d # c
      BY <1>2, <1>5, <1>6, <2>2, <3>1, <3>3 DEF Inv, NoOrphanedWaiter, WaitingFor
    <3>. QED  BY <3>2, <3>3
  <2>3. ASSUME NEW k \in DOMAIN clientsWaitingForResponse',
               NEW d \in clientsWaitingForResponse'[k]
        PROVE  client'[d].connectionState = "PROCESSING_REQUEST" /\ client'[d].request.key = k
    <3>1. CASE d = c
      BY <1>3, <1>5, <1>6, <2>1, <3>1
    <3>2. CASE d # c
      BY <1>2, <1>5, <1>6, <2>1, <3>2 DEF Inv, NoOrphanedWaiter
    <3>. QED  BY <3>1, <3>2
  <2>. QED  BY <2>2, <2>3 DEF NoOrphanedWaiter
<1>. QED  BY <1>5, <1>7, <1>8, <1>9 DEF Inv

(* send() takes a part of the answer: all it can, or what it has taken when a   *)
(* signal arrives.                                                              *)
SendsPart(c) == SendPartOfAnswer(c) \/ SendAnswerCutShort(c)

LEMMA SendsPartEffect ==
  ASSUME Inv, NEW c, SendsPart(c)
  PROVE  /\ AtClient(c) /\ ClientIsWritable(c)
         /\ client[c].sendAnswerBuf \in Answers
         /\ isInterrupt' = isInterrupt \/ isInterrupt' = TRUE
         /\ \E n \in Nat : KeepSending(c, n)
<1>1. /\ AtClient(c) /\ ClientIsWritable(c)
      /\ client[c].sendAnswerBuf # NoBuf
      /\ isInterrupt' = isInterrupt \/ isInterrupt' = TRUE
  BY DEF SendsPart, SendPartOfAnswer, SendTakesAnswer, SendsAnswer, SendAnswerCutShort,
         InterruptsSend
<1>2. client[c].sendAnswerBuf \in Answers /\ client[c].sendAnswerOffset \in 0..RespLen
  BY <1>1, AtClientFacts DEF ClientRecords
<1>3. LeftToSend(client[c]) \in Int
  BY <1>2, MessagesAssumption DEF LeftToSend, Answers
<1>4. \E n \in Nat : KeepSending(c, n)
  <2>1. CASE SendPartOfAnswer(c)
    <3>1. PICK n \in SendTakes(LeftToSend(client[c])) : KeepSending(c, n)
      BY <2>1 DEF SendPartOfAnswer
    <3>2. n < LeftToSend(client[c])
      BY <3>1 DEF KeepSending
    <3>3. n \in Nat
      BY <1>3, <3>1, <3>2 DEF SendTakes
    <3>. QED  BY <3>1, <3>3
  <2>2. CASE SendAnswerCutShort(c)
    <3>1. PICK n \in 1..LeftToSend(client[c]) : KeepSending(c, n)
      BY <2>2 DEF SendAnswerCutShort
    <3>. QED  BY <1>3, <3>1
  <2>. QED  BY <2>1, <2>2 DEF SendsPart
<1>. QED  BY <1>1, <1>2, <1>4

LEMMA SendsPartStep ==
  ASSUME Inv, NEW c, SendsPart(c)
  PROVE  Inv'
<1>1. AtClient(c) /\ ClientIsWritable(c) /\ client[c].sendAnswerBuf \in Answers
  BY SendsPartEffect
<1>2. PICK n \in Nat : KeepSending(c, n)
  BY SendsPartEffect
<1>. DEFINE object == AnswerPartSent(client[c], n)
<1>3. client[c] \in ClientRecords /\ client[c].connectionState # "WAITING_FOR_RESPONSE"
  BY <1>1, AtClientFacts
<1>4. /\ object \in ClientRecords
      /\ SamePlace(object, client[c])
      /\ object.connectionState = client[c].connectionState
  <2>1. n < LeftToSend(client[c])
    BY <1>2 DEF KeepSending
  <2>. QED  BY <1>1, <1>2, <1>3, <2>1, AnswerPartSentEffect
<1>5. client' = [client EXCEPT ![c] = object]
  BY <1>2 DEF KeepSending
<1>. HIDE DEF object
<1>6. poll' = ClearRevents(poll, ClientIdx(c))
  BY <1>2 DEF KeepSending
<1>7. /\ poll' \in PollTables(Fds)
      /\ SameOwners(poll', poll)
      /\ \A i \in Slots \ {ClientIdx(c)} :
           /\ poll'.pollList[i].events = poll.pollList[i].events
           /\ poll'.pollList[i].revents = poll.pollList[i].revents
      /\ "POLLIN" \in poll'.pollList[ClientIdx(c)].events
                        \union poll'.pollList[ClientIdx(c)].revents
           => client[c].connectionState \in {"WAITING_FOR_REQUEST", "RECEIVING_REQUEST"}
  BY <1>1, <1>6, AtClientFacts, ClearedSlot DEF Inv, PolledInv
<1>8. TurnOf(c, object)
  BY <1>1, <1>2, <1>3, <1>4, <1>5, <1>7, SendsPartEffect DEF KeepSending, TurnOf, SamePlace, ClientIdx
<1>. QED
  BY <1>2, <1>4, <1>8, ClientTurnKeepsWaiters DEF KeepSending, SamePlace

LEMMA ClientIsQuietStep ==
  ASSUME Inv, NEW c, ClientIsQuiet(c)
  PROVE  Inv'
<1>1. AtClient(c)
  BY DEF ClientIsQuiet
<1>2. /\ client[c] \in ClientRecords /\ client[c].connectionState # "WAITING_FOR_RESPONSE"
      /\ client \in [Clients -> ClientRecords] /\ c \in Clients
  BY <1>1, AtClientFacts DEF TypeOK
<1>3. client' = [client EXCEPT ![c] = client[c]]
  BY <1>2 DEF ClientIsQuiet
<1>4. poll' = ClearRevents(poll, ClientIdx(c))
  BY DEF ClientIsQuiet
<1>5. /\ poll' \in PollTables(Fds)
      /\ SameOwners(poll', poll)
      /\ \A i \in Slots \ {ClientIdx(c)} :
           /\ poll'.pollList[i].events = poll.pollList[i].events
           /\ poll'.pollList[i].revents = poll.pollList[i].revents
      /\ "POLLIN" \in poll'.pollList[ClientIdx(c)].events
                        \union poll'.pollList[ClientIdx(c)].revents
           => client[c].connectionState \in {"WAITING_FOR_REQUEST", "RECEIVING_REQUEST"}
  BY <1>1, <1>4, AtClientFacts, ClearedSlot DEF Inv, PolledInv
<1>6. TurnOf(c, client[c])
  BY <1>1, <1>2, <1>3, <1>5 DEF ClientIsQuiet, TurnOf, ClientIdx
<1>. QED  BY <1>6, ClientTurnKeepsWaiters DEF ClientIsQuiet

--------------------------------------------------------------------------------
(* The steps in which a connection goes or comes.                               *)

(* shutdownClientConnection(): no client is WAITING_FOR_RESPONSE, so that the   *)
(* sets of waiting clients stay as they are.                                    *)
IsShutDown(c) ==
  \E end \in {ClosedPeer, AnsweredPeer} : ShutdownClientConnection(c, end)

LEMMA ClosedEnds ==
  \A end \in {ClosedPeer, AnsweredPeer} :
    end \in Peers /\ ~end.open /\ ~end.fin /\ ~end.rst /\ end.sent = 0
<1>1. /\ ClosedPeer \in Peers
      /\ ~ClosedPeer.open /\ ~ClosedPeer.fin /\ ~ClosedPeer.rst /\ ClosedPeer.sent = 0
  BY MessagesAssumption DEF ClosedPeer, Peers, Stalls
<1>2. /\ AnsweredPeer \in Peers
      /\ ~AnsweredPeer.open /\ ~AnsweredPeer.fin /\ ~AnsweredPeer.rst /\ AnsweredPeer.sent = 0
  BY <1>1 DEF AnsweredPeer, ClosedPeer, Peers
<1>. QED  BY <1>1, <1>2

LEMMA ShutdownClientConnectionStep ==
  ASSUME Inv, NEW c, AtClient(c), IsShutDown(c), isInterrupt' \in BOOLEAN
  PROVE  Inv'
<1>. DEFINE left == ToSet(clientsConnections')
            Kept(d) == \/ d \in left
                       \/ \E k \in DOMAIN clientsWaitingForResponse :
                            d \in clientsWaitingForResponse[k]
<1>1. /\ TypeOK /\ TableInv
      /\ c \in Clients /\ c \in ToSet(clientsConnections)
      /\ ToSet(clientsConnections) \subseteq Clients
      /\ ToSet(serversConnections) \subseteq Servers
      /\ it \in 1..Len(clientsConnections) /\ c = clientsConnections[it]
      /\ clientsConnections \in Seq(Clients)
  BY AtClientFacts, ClientInList, Places DEF TypeOK
<1>2. /\ clientsConnections' \in Seq(Clients)
      /\ Len(clientsConnections') = Len(clientsConnections) - 1
      /\ left = ToSet(clientsConnections) \ {c}
      /\ IsInjective(clientsConnections')
  BY <1>1, EraseAt DEF IsShutDown, ShutdownClientConnection, TableInv
<1>3. clientsWaitingForResponse' = clientsWaitingForResponse
  BY AtClientFacts DEF IsShutDown, ShutdownClientConnection, WaitersWithout
<1>4. /\ client' \in [Clients -> ClientRecords]
      /\ \A d \in Clients : Kept(d) => client'[d] = client[d]
      /\ \A d \in Clients : ~Kept(d) => client'[d] = NoClient
  BY <1>1, <1>3, NoClientEffect DEF IsShutDown, ShutdownClientConnection, Reclaim, TypeOK
<1>5. /\ peer' \in [Clients -> Peers]
      /\ ~peer'[c].open
      /\ \A d \in Clients \ {c} : peer'[d] = peer[d]
  <2>1. PICK end \in {ClosedPeer, AnsweredPeer} : peer' = [peer EXCEPT ![c] = end]
    BY DEF IsShutDown, ShutdownClientConnection
  <2>. QED  BY <1>1, <2>1, ClosedEnds DEF TypeOK
<1>6. /\ poll' \in PollTables(Fds)
      /\ \A i \in Slots : poll'.pollList[i] =
           IF i = ClientIdx(c) THEN IgnoredSlot ELSE poll.pollList[i]
      /\ poll'.size = poll.size - 1
      /\ poll'.free = poll.free \union {ClientIdx(c)}
      /\ Cardinality(poll'.free) = Cardinality(poll.free) + 1
  <2>1. ClientIdx(c) \in Slots /\ ClientIdx(c) \notin poll.free /\ poll \in PollTables(Fds)
    BY <1>1, Places
  <2>2. poll' = RemoveConnectionFd(poll, ClientIdx(c))
    BY DEF IsShutDown, ShutdownClientConnection
  <2>. QED  BY <2>1, <2>2, RemoveEffect
<1>7. UNCHANGED <<pc, serversConnections, cacheStorage, server, backlog, origin>>
  BY DEF IsShutDown, ShutdownClientConnection
<1>8. it' \in Nat \ {0}
  BY <1>1 DEF IsShutDown, ShutdownClientConnection, AfterErase
<1>9. TypeOK'
  BY <1>1, <1>2, <1>3, <1>4, <1>5, <1>6, <1>7, <1>8 DEF TypeOK, Fds
<1>. HIDE DEF left
<1>10. \A d \in left : client'[d] = client[d] /\ ClientIdx(d)' = ClientIdx(d)
  BY <1>1, <1>2, <1>4 DEF ClientIdx
<1>11. \A d \in left : ClientIdx(d) # ClientIdx(c) /\ ClientIdx(d) \in Slots
  BY <1>1, <1>2, Places
<1>12. TableInv'
  <2>1. /\ ListeningIdx \in Slots /\ ListeningIdx # ClientIdx(c)
        /\ \A s \in ToSet(serversConnections) :
             /\ ServerIdx(s)' = ServerIdx(s)
             /\ ServerIdx(s) \in Slots /\ ServerIdx(s) # ClientIdx(c)
    BY <1>1, <1>7, Places DEF ServerIdx
  <2>2. /\ poll'.pollList[ListeningIdx].fd = ListeningSocketFd
        /\ \A d \in ToSet(clientsConnections') : poll'.pollList[ClientIdx(d)'].fd = d
        /\ \A s \in ToSet(serversConnections') : poll'.pollList[ServerIdx(s)'].fd = s
    BY <1>1, <1>2, <1>6, <1>7, <1>10, <1>11, <2>1 DEF TableInv, left
  <2>3. ASSUME NEW i \in Slots
        PROVE  LET fd == poll'.pollList[i].fd
               IN  /\ fd = IgnoredSocketFd <=> i \in poll'.free
                   /\ fd \in Clients => fd \in left /\ client'[fd].inPollListIdx = i
                   /\ fd \in Servers => /\ fd \in ToSet(serversConnections)
                                        /\ server'[fd].inPollListIdx = i
    <3>1. CASE i = ClientIdx(c)
      BY <1>6, <3>1, ProxyAssumption DEF IgnoredSlot
    <3>2. CASE i # ClientIdx(c)
      <4>. DEFINE fd == poll.pollList[i].fd
      <4>1. poll'.pollList[i] = poll.pollList[i] /\ (i \in poll'.free <=> i \in poll.free)
        BY <1>6, <3>2
      <4>2. /\ fd = IgnoredSocketFd <=> i \in poll.free
            /\ fd \in Clients => fd \in ToSet(clientsConnections) /\ ClientIdx(fd) = i
            /\ fd \in Servers => fd \in ToSet(serversConnections) /\ ServerIdx(fd) = i
        BY <1>1 DEF TableInv
      <4>. HIDE DEF fd
      <4>3. fd \in Clients => fd \in left /\ client'[fd].inPollListIdx = i
        BY <1>2, <1>10, <3>2, <4>2 DEF ClientIdx
      <4>4. fd \in Servers => /\ fd \in ToSet(serversConnections)
                              /\ server'[fd].inPollListIdx = i
        BY <1>7, <4>2 DEF ServerIdx
      <4>. QED  BY <4>1, <4>2, <4>3, <4>4 DEF fd
    <3>. QED  BY <3>1, <3>2
  <2>4. /\ poll'.size = 1 + OpenConnections'
        /\ Cardinality(poll'.free) = MaxConnectionNum - poll'.size
    <3>1. poll.size \in Int /\ MaxConnectionNum \in Int
      BY <1>1, MaxConnectionNumAssumption DEF TypeOK, PollTables
    <3>2. Len(clientsConnections) \in Nat /\ Len(serversConnections) \in Nat
      BY <1>1 DEF TypeOK
    <3>. QED  BY <1>1, <1>2, <1>6, <1>7, <3>1, <3>2 DEF TableInv, OpenConnections
  <2>5. IsInjective(clientsConnections') /\ IsInjective(serversConnections')
    BY <1>1, <1>2, <1>7 DEF TableInv
  <2>. QED
    BY <1>7, <2>2, <2>3, <2>4, <2>5 DEF TableInv, ClientIdx, ServerIdx, left
<1>13. AcceptInv'
  <2>1. \A d \in ToSet(backlog) : d \in Clients /\ d # c /\ d \notin left
    BY <1>1, <1>2, InToSet DEF Inv, AcceptInv, TypeOK
  <2>2. \A d \in ToSet(backlog) : client'[d] = NoClient
    BY <1>4, <2>1 DEF Inv, AcceptInv
  <2>3. pc' \notin {"construct", "accept"}
    BY <1>7 DEF AtClient
  <2>. QED  BY <1>1, <1>2, <1>5, <1>7, <2>1, <2>2, <2>3 DEF Inv, AcceptInv, left
<1>14. ObjectInv'
  BY <1>4, <1>7, NoClientEffect DEF Inv, ObjectInv
<1>15. PolledInv'
  BY <1>2, <1>6, <1>10, <1>11 DEF Inv, PolledInv, left
<1>16. SingleFlight'
  BY <1>3, <1>7 DEF Inv, SingleFlight
<1>17. NoOrphanedWaiter'
  <2>1. \A k \in DOMAIN clientsWaitingForResponse : \A d \in clientsWaitingForResponse[k] :
          client'[d] = client[d]
    BY <1>1, <1>4 DEF TypeOK
  <2>. QED  BY <1>2, <1>3, <1>10, <2>1 DEF Inv, NoOrphanedWaiter, WaitingFor, left
<1>. QED  BY <1>9, <1>12, <1>13, <1>14, <1>15, <1>16, <1>17 DEF Inv

(* shutdownServerConnection(): the set of the key goes, and those who were in   *)
(* it wait no longer.                                                           *)
LEMMA ShutdownServerConnectionStep ==
  ASSUME Inv, NEW s, AtServer(s),
         NEW state \in ServerConnectionStates, ShutdownServerConnection(s, state)
  PROVE  Inv'
<1>. DEFINE left    == ToSet(serversConnections')
            key     == server[s].request.key
            waiters == WaitingFor(key)
            answer  == AnswerInState(s, state)
            Kept(d) == \/ d \in ToSet(clientsConnections)
                       \/ \E k \in DOMAIN clientsWaitingForResponse \ {key} :
                            d \in clientsWaitingForResponse[k]
<1>1. /\ TypeOK /\ TableInv
      /\ s \in Servers /\ s \in ToSet(serversConnections)
      /\ ToSet(clientsConnections) \subseteq Clients
      /\ ToSet(serversConnections) \subseteq Servers
      /\ it \in 1..Len(serversConnections) /\ s = serversConnections[it]
      /\ serversConnections \in Seq(Servers)
  <2>1. TypeOK /\ TableInv
    BY DEF Inv, Nothing, AtServer
  <2>. QED  BY <2>1, ServerInList, Places DEF TypeOK
<1>2. /\ serversConnections' \in Seq(Servers)
      /\ Len(serversConnections') = Len(serversConnections) - 1
      /\ left = ToSet(serversConnections) \ {s}
      /\ IsInjective(serversConnections')
  <2>1. serversConnections' = RemoveAt(serversConnections, it)
    BY DEF ShutdownServerConnection
  <2>. QED  BY <1>1, <2>1, EraseAt DEF TableInv
<1>3. /\ server[s].request \in Requests
      /\ key \in Keys /\ key \in DOMAIN clientsWaitingForResponse
      /\ \A t \in left : server[t].request.key # key
  BY <1>1, <1>2 DEF Inv, ObjectInv, SingleFlight, Keys
<1>4. /\ DOMAIN clientsWaitingForResponse' = DOMAIN clientsWaitingForResponse \ {key}
      /\ \A k \in DOMAIN clientsWaitingForResponse \ {key} :
           clientsWaitingForResponse'[k] = clientsWaitingForResponse[k]
  BY DEF ShutdownServerConnection, Restrict
<1>5. answer \in Answers /\ Received(s) \in Answers
  <2>1. /\ server[s].recvLen \in 0..RespLen
        /\ origin[s].response \in ResponseRecords
    BY <1>1 DEF TypeOK, ServerRecords, Origins
  <2>2. Received(s) \in Answers
    BY <1>3, <2>1, OriginAnswerIsAnswer DEF Received
  <2>. QED  BY <2>2, GatewayTimeoutIsAnswer DEF AnswerInState
<1>6. /\ waiters = clientsWaitingForResponse[key]
      /\ waiters \subseteq Clients
      /\ \A d \in waiters : /\ client[d].connectionState = "PROCESSING_REQUEST"
                            /\ client[d].request.key = key
      /\ \A k \in DOMAIN clientsWaitingForResponse \ {key} :
           \A d \in clientsWaitingForResponse[k] : d \in Clients /\ d \notin waiters
  <2>1. waiters = clientsWaitingForResponse[key]
    BY <1>3 DEF WaitingFor
  <2>. HIDE DEF waiters, key
  <2>2. \A k \in DOMAIN clientsWaitingForResponse :
          /\ clientsWaitingForResponse[k] \subseteq Clients
          /\ \A d \in clientsWaitingForResponse[k] :
               /\ client[d].connectionState = "PROCESSING_REQUEST"
               /\ client[d].request.key = k
    BY <1>1 DEF TypeOK, Inv, NoOrphanedWaiter
  <2>. QED  BY <1>3, <2>1, <2>2
<1>7. /\ client' \in [Clients -> ClientRecords]
      /\ \A d \in Clients : Kept(d) /\ d \notin waiters => client'[d] = client[d]
      /\ \A d \in Clients : ~Kept(d) => client'[d] = NoClient
      /\ \A d \in Clients : Kept(d) /\ d \in waiters =>
           /\ SamePlace(client'[d], client[d])
           /\ client'[d].connectionState = "RECEIVING_ANSWER"
  <2>. DEFINE new == Transmitting(client, waiters, answer)
  <2>1. ASSUME NEW d \in Clients
        PROVE  /\ d \notin waiters => new[d] = client[d]
               /\ d \in waiters => new[d] = InitializeAnswerSending(client[d], answer)
    BY DEF Transmitting
  <2>2. ASSUME NEW d \in Clients
        PROVE  /\ new[d] \in ClientRecords
               /\ d \in waiters => /\ SamePlace(new[d], client[d])
                                   /\ new[d].connectionState = "RECEIVING_ANSWER"
    <3>1. client[d] \in ClientRecords
      BY <1>1 DEF TypeOK
    <3>. HIDE DEF new, answer, waiters
    <3>. QED  BY <1>5, <2>1, <3>1, InitializeAnswerSendingEffect
  <2>. HIDE DEF new, answer, waiters
  <2>3. client' = Reclaim(new, clientsConnections, clientsWaitingForResponse')
    BY DEF ShutdownServerConnection, new, answer, waiters, key
  <2>4. \A d \in Clients : client'[d] = IF Kept(d) THEN new[d] ELSE NoClient
    BY <1>4, <2>3 DEF Reclaim
  <2>5. client' = [d \in Clients |-> client'[d]]
    BY <2>3 DEF Reclaim
  <2>. HIDE DEF Kept
  <2>. QED  BY <2>1, <2>2, <2>4, <2>5, NoClientEffect
<1>. HIDE DEF answer, waiters
<1>8. /\ poll' \in PollTables(Fds)
      /\ \A i \in Slots : poll'.pollList[i].fd =
           IF i = ServerIdx(s) THEN IgnoredSocketFd ELSE poll.pollList[i].fd
      /\ \A i \in Slots \ {ServerIdx(s)} :
           /\ poll'.pollList[i].revents = poll.pollList[i].revents
           /\ "POLLIN" \in poll'.pollList[i].events =>
                "POLLIN" \in poll.pollList[i].events /\ i \notin SlotsOf(waiters)
      /\ poll'.size = poll.size - 1
      /\ poll'.free = poll.free \union {ServerIdx(s)}
      /\ Cardinality(poll'.free) = Cardinality(poll.free) + 1
  <2>. DEFINE i0   == ServerIdx(s)
              idxs == SlotsOf(waiters)
              out  == {"POLLOUT"}
              t    == SetEvents(poll, idxs, out)
  <2>1. /\ i0 \in Slots /\ i0 \notin poll.free /\ poll \in PollTables(Fds)
        /\ out \in SUBSET Events /\ "POLLIN" \notin out
    BY <1>1, Places DEF Events
  <2>2. poll' = RemoveConnectionFd(t, i0)
    BY DEF ShutdownServerConnection, waiters
  <2>. HIDE DEF i0, idxs, out
  <2>3. /\ t \in PollTables(Fds)
        /\ SameOwners(t, poll)
        /\ \A i \in Slots : /\ t.pollList[i].revents = poll.pollList[i].revents
                            /\ t.pollList[i].events =
                                 IF i \in idxs THEN out ELSE poll.pollList[i].events
    BY <2>1, SetEventsEffect
  <2>. HIDE DEF t
  <2>4. /\ poll' \in PollTables(Fds)
        /\ \A i \in Slots : poll'.pollList[i] =
             IF i = i0 THEN IgnoredSlot ELSE t.pollList[i]
        /\ poll'.size = t.size - 1
        /\ poll'.free = t.free \union {i0}
        /\ Cardinality(poll'.free) = Cardinality(t.free) + 1
    <3>1. i0 \notin t.free
      BY <2>1, <2>3 DEF SameOwners
    <3>. QED  BY <2>1, <2>2, <2>3, <3>1, RemoveEffect
  <2>5. \A i \in Slots : poll'.pollList[i].fd =
          IF i = i0 THEN IgnoredSocketFd ELSE poll.pollList[i].fd
    BY <2>3, <2>4 DEF SameOwners, IgnoredSlot
  <2>6. \A i \in Slots \ {i0} :
           /\ poll'.pollList[i].revents = poll.pollList[i].revents
           /\ "POLLIN" \in poll'.pollList[i].events =>
                "POLLIN" \in poll.pollList[i].events /\ i \notin idxs
    BY <2>1, <2>3, <2>4
  <2>. QED  BY <2>3, <2>4, <2>5, <2>6 DEF SameOwners, i0, idxs
<1>9. UNCHANGED <<pc, isInterrupt, clientsConnections, peer, backlog>>
  BY DEF ShutdownServerConnection
<1>10. it' \in Nat \ {0}
  BY <1>1 DEF ShutdownServerConnection, AfterErase
<1>11. /\ server' \in [Servers -> ServerRecords]
       /\ \A t \in Servers \ {s} : server'[t] = server[t]
       /\ origin' \in [Servers -> Origins]
  <2>1. ClosedOrigin \in Origins
    BY MessagesAssumption
    DEF ClosedOrigin, Origins, ResponseRecords, OriginStatuses, ParseResults
  <2>. QED  BY <1>1, <2>1, NoServerEffect DEF ShutdownServerConnection, TypeOK
<1>12. /\ DOMAIN cacheStorage' \subseteq DOMAIN cacheStorage \union {key}
       /\ DOMAIN cacheStorage' \subseteq Keys
       /\ \A k \in DOMAIN cacheStorage' : cacheStorage'[k] \in Answers
  BY <1>1, <1>3, <1>5 DEF ShutdownServerConnection, CacheAfter, Put, TypeOK
<1>13. TypeOK'
  <2>1. /\ DOMAIN clientsWaitingForResponse' \subseteq Keys
        /\ \A k \in DOMAIN clientsWaitingForResponse' :
             clientsWaitingForResponse'[k] \subseteq Clients
    BY <1>1, <1>4 DEF TypeOK
  <2>. QED
    BY <1>1, <1>2, <1>7, <1>8, <1>9, <1>10, <1>11, <1>12, <2>1 DEF TypeOK, Fds
<1>. HIDE DEF left, key
<1>14. \A t \in left : t \in Servers /\ server'[t] = server[t]
                         /\ ServerIdx(t) \in Slots \ {ServerIdx(s)}
  BY <1>1, <1>2, <1>11, Places
<1>15. \A d \in ToSet(clientsConnections) :
         /\ d \in Clients /\ Kept(d)
         /\ client'[d].inPollListIdx = client[d].inPollListIdx
         /\ client'[d].request = client[d].request
         /\ ClientIdx(d) \in Slots \ {ServerIdx(s)}
  BY <1>1, <1>7, Places DEF SamePlace
<1>16. TableInv'
  <2>1. ListeningIdx \in Slots \ {ServerIdx(s)}
    BY <1>1, Places
  <2>2. /\ poll'.pollList[ListeningIdx].fd = ListeningSocketFd
        /\ \A d \in ToSet(clientsConnections') : poll'.pollList[ClientIdx(d)'].fd = d
        /\ \A t \in ToSet(serversConnections') : poll'.pollList[ServerIdx(t)'].fd = t
    BY <1>1, <1>2, <1>8, <1>9, <1>14, <1>15, <2>1 DEF TableInv, left, ClientIdx, ServerIdx
  <2>3. ASSUME NEW i \in Slots
        PROVE  LET fd == poll'.pollList[i].fd
               IN  /\ fd = IgnoredSocketFd <=> i \in poll'.free
                   /\ fd \in Clients => /\ fd \in ToSet(clientsConnections)
                                        /\ client'[fd].inPollListIdx = i
                   /\ fd \in Servers => fd \in left /\ server'[fd].inPollListIdx = i
    <3>1. CASE i = ServerIdx(s)
      BY <1>8, <3>1, ProxyAssumption
    <3>2. CASE i # ServerIdx(s)
      <4>. DEFINE fd == poll.pollList[i].fd
      <4>1. poll'.pollList[i].fd = fd /\ (i \in poll'.free <=> i \in poll.free)
        BY <1>8, <3>2
      <4>2. /\ fd = IgnoredSocketFd <=> i \in poll.free
            /\ fd \in Clients => fd \in ToSet(clientsConnections) /\ ClientIdx(fd) = i
            /\ fd \in Servers => fd \in ToSet(serversConnections) /\ ServerIdx(fd) = i
        BY <1>1 DEF TableInv
      <4>. HIDE DEF fd
      <4>3. fd \in Clients => /\ fd \in ToSet(clientsConnections)
                              /\ client'[fd].inPollListIdx = i
        BY <1>15, <4>2 DEF ClientIdx
      <4>4. fd \in Servers => fd \in left /\ server'[fd].inPollListIdx = i
        BY <1>2, <1>14, <3>2, <4>2 DEF ServerIdx
      <4>. QED  BY <4>1, <4>2, <4>3, <4>4
    <3>. QED  BY <3>1, <3>2
  <2>4. /\ poll'.size = 1 + OpenConnections'
        /\ Cardinality(poll'.free) = MaxConnectionNum - poll'.size
    <3>1. poll.size \in Int /\ MaxConnectionNum \in Int
      BY <1>1, MaxConnectionNumAssumption DEF TypeOK, PollTables
    <3>2. Len(clientsConnections) \in Nat /\ Len(serversConnections) \in Nat
      BY <1>1 DEF TypeOK
    <3>. QED  BY <1>1, <1>2, <1>8, <1>9, <3>1, <3>2 DEF TableInv, OpenConnections
  <2>5. IsInjective(clientsConnections') /\ IsInjective(serversConnections')
    BY <1>1, <1>2, <1>9 DEF TableInv
  <2>. QED
    BY <1>9, <2>2, <2>3, <2>4, <2>5 DEF TableInv, ClientIdx, ServerIdx, left
<1>17. AcceptInv'
  <2>1. \A d \in ToSet(backlog) : /\ d \in Clients /\ d \notin ToSet(clientsConnections)
                                  /\ client[d] = NoClient
    BY <1>1, InToSet DEF Inv, AcceptInv, TypeOK
  <2>2. \A d \in ToSet(backlog) : client'[d] = NoClient
    <3>1. \A d \in waiters : client[d] # NoClient
      BY <1>6, NoClientEffect
    <3>. QED  BY <1>7, <2>1, <3>1
  <2>3. pc' \notin {"construct", "accept"}
    BY <1>9 DEF AtServer
  <2>. QED  BY <1>9, <2>1, <2>2, <2>3 DEF Inv, AcceptInv
<1>18. ObjectInv'
  <2>1. \A d \in Clients : client'[d].connectionState # "WAITING_FOR_RESPONSE"
    BY <1>7, NoClientEffect DEF Inv, ObjectInv
  <2>. QED  BY <1>2, <1>14, <2>1 DEF Inv, ObjectInv, left
<1>19. PolledInv'
  <2>. SUFFICES ASSUME NEW d \in ToSet(clientsConnections),
                       "POLLIN" \in poll'.pollList[ClientIdx(d)'].events
                                      \union poll'.pollList[ClientIdx(d)'].revents
                PROVE  client'[d].connectionState
                         \in {"WAITING_FOR_REQUEST", "RECEIVING_REQUEST"}
    BY <1>9 DEF PolledInv
  <2>1. d \in Clients /\ ClientIdx(d)' = ClientIdx(d) /\ ClientIdx(d) \in Slots \ {ServerIdx(s)}
    BY <1>15 DEF ClientIdx
  <2>2. client[d].connectionState \in {"WAITING_FOR_REQUEST", "RECEIVING_REQUEST"}
    BY <1>8, <2>1 DEF Inv, PolledInv
  <2>3. d \notin waiters
    BY <1>6, <2>2
  <2>. QED  BY <1>7, <1>15, <2>2, <2>3
<1>20. SingleFlight'
  <2>1. DOMAIN clientsWaitingForResponse' = {server'[t].request.key : t \in left}
    <3>1. /\ DOMAIN clientsWaitingForResponse =
               {server[t].request.key : t \in ToSet(serversConnections)}
          /\ \A t, u \in ToSet(serversConnections) :
               server[t].request.key = server[u].request.key => t = u
      BY DEF Inv, SingleFlight
    <3>2. \A t \in left : server'[t].request.key = server[t].request.key
      BY <1>14
    <3>. QED  BY <1>1, <1>2, <1>3, <1>4, <3>1, <3>2 DEF key
  <2>2. \A t, u \in left : server'[t].request.key = server'[u].request.key => t = u
    BY <1>2, <1>14 DEF Inv, SingleFlight
  <2>3. DOMAIN clientsWaitingForResponse' \intersect DOMAIN cacheStorage' = {}
    BY <1>4, <1>12 DEF Inv, SingleFlight
  <2>. QED  BY <2>1, <2>2, <2>3 DEF SingleFlight, left
<1>21. NoOrphanedWaiter'
  <2>1. ASSUME NEW d \in ToSet(clientsConnections),
               client'[d].connectionState = "PROCESSING_REQUEST"
        PROVE  d \in WaitingFor(client[d].request.key)'
    <3>1. d \in Clients /\ d \notin waiters /\ client'[d] = client[d]
      BY <1>7, <1>15, <2>1
    <3>2. d \in WaitingFor(client[d].request.key)
      BY <2>1, <3>1 DEF Inv, NoOrphanedWaiter
    <3>3. client[d].request.key # key
      BY <3>1, <3>2 DEF waiters, key
    <3>. QED  BY <1>4, <3>1, <3>2, <3>3 DEF WaitingFor
  <2>2. ASSUME NEW k \in DOMAIN clientsWaitingForResponse',
               NEW d \in clientsWaitingForResponse'[k]
        PROVE  client'[d].connectionState = "PROCESSING_REQUEST" /\ client'[d].request.key = k
    <3>1. k \in DOMAIN clientsWaitingForResponse \ {key} /\ d \in clientsWaitingForResponse[k]
      BY <1>4
    <3>2. client'[d] = client[d]
      BY <1>6, <1>7, <3>1
    <3>. QED  BY <3>1, <3>2 DEF Inv, NoOrphanedWaiter
  <2>. QED  BY <1>9, <2>1, <2>2 DEF NoOrphanedWaiter
<1>. QED  BY <1>13, <1>16, <1>17, <1>18, <1>19, <1>20, <1>21 DEF Inv

(* What a slot that is given to a connection of a list does to the table.       *)
LEMMA SlotTaken ==
  ASSUME TypeOK, TableInv, OpenConnections < FdLimit,
         NEW table \in PollTables(Fds), SameOwners(table, poll),
         NEW fd \in Fds, NEW events \in SUBSET Events,
         poll' = AddConnectionFd(table, fd, events)
  PROVE  LET idx == TopFreeIndex(poll)
         IN  /\ idx \in Slots /\ idx \in poll.free
             /\ idx # ListeningIdx
             /\ \A c \in ToSet(clientsConnections) :
                  ClientIdx(c) # idx /\ ClientIdx(c) \in Slots \ {idx}
             /\ \A s \in ToSet(serversConnections) :
                  ServerIdx(s) # idx /\ ServerIdx(s) \in Slots \ {idx}
             /\ poll' \in PollTables(Fds)
             /\ poll'.pollList[idx].fd = fd
             /\ poll'.pollList[idx].events = events
             /\ poll'.pollList[idx].revents = {}
             /\ \A i \in Slots \ {idx} : /\ poll'.pollList[i] = table.pollList[i]
                                         /\ poll'.pollList[i].fd = poll.pollList[i].fd
             /\ poll'.size = poll.size + 1
             /\ poll'.free = poll.free \ {idx}
             /\ Cardinality(poll'.free) = Cardinality(poll.free) - 1
<1>. DEFINE idx == TopFreeIndex(table)
<1>1. poll.free # {} /\ table.free = poll.free /\ table.size = poll.size
  BY SlotIsLeft DEF SameOwners
<1>2. TopFreeIndex(poll) = idx
  BY <1>1 DEF TopFreeIndex
<1>3. /\ idx \in Slots /\ idx \in table.free
      /\ poll' \in PollTables(Fds)
      /\ \A i \in Slots : poll'.pollList[i] =
           IF i = idx THEN [fd |-> fd, events |-> events, revents |-> {}]
                      ELSE table.pollList[i]
      /\ poll'.size = table.size + 1
      /\ poll'.free = table.free \ {idx}
      /\ Cardinality(poll'.free) = Cardinality(table.free) - 1
  BY <1>1, AddEffect
<1>. HIDE DEF idx
<1>4. /\ idx # ListeningIdx
      /\ \A c \in ToSet(clientsConnections) : ClientIdx(c) # idx /\ ClientIdx(c) \in Slots
      /\ \A s \in ToSet(serversConnections) : ServerIdx(s) # idx /\ ServerIdx(s) \in Slots
  BY <1>1, <1>3, Places
<1>5. /\ poll'.pollList[idx].fd = fd
      /\ poll'.pollList[idx].events = events
      /\ poll'.pollList[idx].revents = {}
      /\ \A i \in Slots \ {idx} : /\ poll'.pollList[i] = table.pollList[i]
                                  /\ poll'.pollList[i].fd = poll.pollList[i].fd
  BY <1>3 DEF SameOwners
<1>. QED  BY <1>1, <1>2, <1>3, <1>4, <1>5

LEMMA AcceptNewConnectionStep ==
  ASSUME Inv, AcceptNewConnection
  PROVE  Inv'
<1>. DEFINE now == ToSet(clientsConnections')
<1>0. PICK c, idx : c = Head(backlog) /\ idx = TopFreeIndex(poll)
  OBVIOUS
<1>1. /\ TypeOK /\ TableInv
      /\ backlog \in Seq(Clients) /\ backlog # <<>> /\ IsInjective(backlog)
      /\ clientsConnections \in Seq(Clients) /\ IsInjective(clientsConnections)
      /\ poll \in PollTables(Fds) /\ SameOwners(poll, poll)
      /\ OpenConnections < FdLimit
  BY Places DEF AcceptNewConnection, Inv, Nothing, AcceptInv, TypeOK, TableInv, Fds, SameOwners
<1>2. /\ c \in Clients /\ c \in ToSet(backlog)
      /\ backlog' \in Seq(Clients)
      /\ ToSet(backlog') = ToSet(backlog) \ {c}
      /\ IsInjective(backlog')
  BY <1>0, <1>1, TakeFirst, InToSet DEF AcceptNewConnection
<1>3. c \notin ToSet(clientsConnections) /\ client[c] = NoClient /\ peer[c].open
  BY <1>2 DEF Inv, AcceptInv
<1>4. UNCHANGED <<isInterrupt, serversConnections, store, server, peer, origin>>
  BY DEF AcceptNewConnection
<1>5. /\ poll' = AddConnectionFd(poll, c, {"POLLIN"})
      /\ client' = [client EXCEPT ![c] = NewClient(idx)]
      /\ clientsConnections' = Append(clientsConnections, c)
      /\ pc' = "clients" /\ it' = 1
  BY <1>0 DEF AcceptNewConnection, BeginClients
<1>6. /\ clientsConnections' \in Seq(Clients)
      /\ Len(clientsConnections') = Len(clientsConnections) + 1
      /\ now = ToSet(clientsConnections) \union {c}
      /\ IsInjective(clientsConnections')
  BY <1>1, <1>2, <1>3, <1>5, AppendNew
<1>. HIDE DEF now
<1>7. /\ idx \in Slots /\ idx \in poll.free
      /\ idx # ListeningIdx
      /\ \A d \in ToSet(clientsConnections) :
           ClientIdx(d) # idx /\ ClientIdx(d) \in Slots \ {idx}
      /\ \A s \in ToSet(serversConnections) :
           ServerIdx(s) # idx /\ ServerIdx(s) \in Slots \ {idx}
      /\ poll' \in PollTables(Fds)
      /\ poll'.pollList[idx].fd = c
      /\ \A i \in Slots \ {idx} : poll'.pollList[i] = poll.pollList[i]
      /\ poll'.size = poll.size + 1
      /\ poll'.free = poll.free \ {idx}
      /\ Cardinality(poll'.free) = Cardinality(poll.free) - 1
  <2>. DEFINE in == {"POLLIN"}
  <2>1. c \in Fds /\ in \in SUBSET Events /\ poll' = AddConnectionFd(poll, c, in)
    BY <1>2, <1>5 DEF Fds, Events
  <2>. HIDE DEF in
  <2>. QED  BY <1>0, <1>1, <2>1, SlotTaken
<1>8. /\ client' \in [Clients -> ClientRecords]
      /\ client'[c].inPollListIdx = idx
      /\ client'[c].connectionState = "WAITING_FOR_REQUEST"
      /\ \A d \in Clients \ {c} : client'[d] = client[d]
  BY <1>1, <1>2, <1>5, <1>7, NewClientEffect DEF TypeOK
<1>9. \A d \in ToSet(clientsConnections) :
        d \in Clients /\ d # c /\ client'[d] = client[d] /\ ClientIdx(d)' = ClientIdx(d)
  BY <1>1, <1>3, <1>8, Places DEF ClientIdx
<1>10. \A k \in DOMAIN clientsWaitingForResponse : \A d \in clientsWaitingForResponse[k] :
         d # c /\ client'[d] = client[d]
  <2>1. client[c].connectionState # "PROCESSING_REQUEST"
    BY <1>3, NoClientEffect
  <2>. QED  BY <1>1, <1>8, <2>1 DEF Inv, NoOrphanedWaiter, TypeOK
<1>11. TypeOK'
  BY <1>1, <1>2, <1>4, <1>5, <1>6, <1>7, <1>8 DEF TypeOK, Fds, store, PcValues
<1>12. TableInv'
  <2>1. \A s \in ToSet(serversConnections) : ServerIdx(s)' = ServerIdx(s)
    BY <1>4 DEF ServerIdx
  <2>2. /\ poll'.pollList[ListeningIdx].fd = ListeningSocketFd
        /\ \A d \in ToSet(clientsConnections') : poll'.pollList[ClientIdx(d)'].fd = d
        /\ \A s \in ToSet(serversConnections') : poll'.pollList[ServerIdx(s)'].fd = s
    <3>1. ListeningIdx \in Slots
      BY <1>1, Places
    <3>2. ClientIdx(c)' = idx
      BY <1>8 DEF ClientIdx
    <3>3. ASSUME NEW d \in now
          PROVE  poll'.pollList[ClientIdx(d)'].fd = d
      BY <1>1, <1>6, <1>7, <1>9, <3>2 DEF TableInv
    <3>4. ASSUME NEW s \in ToSet(serversConnections)
          PROVE  poll'.pollList[ServerIdx(s)'].fd = s
      BY <1>1, <1>7, <2>1 DEF TableInv
    <3>. QED  BY <1>1, <1>4, <1>7, <3>1, <3>3, <3>4 DEF TableInv, now
  <2>3. ASSUME NEW i \in Slots
        PROVE  LET fd == poll'.pollList[i].fd
               IN  /\ fd = IgnoredSocketFd <=> i \in poll'.free
                   /\ fd \in Clients => fd \in now /\ client'[fd].inPollListIdx = i
                   /\ fd \in Servers => /\ fd \in ToSet(serversConnections)
                                        /\ server'[fd].inPollListIdx = i
    <3>1. CASE i = idx
      <4>1. c \notin Servers /\ c # IgnoredSocketFd /\ c \in now
        BY <1>2, <1>6, ProxyAssumption
      <4>2. i \notin poll'.free /\ poll'.pollList[i].fd = c
        BY <1>7, <3>1
      <4>. QED  BY <1>8, <3>1, <4>1, <4>2
    <3>2. CASE i # idx
      <4>. DEFINE fd == poll.pollList[i].fd
      <4>1. poll'.pollList[i].fd = fd /\ (i \in poll'.free <=> i \in poll.free)
        BY <1>7, <3>2
      <4>2. /\ fd = IgnoredSocketFd <=> i \in poll.free
            /\ fd \in Clients => fd \in ToSet(clientsConnections) /\ ClientIdx(fd) = i
            /\ fd \in Servers => fd \in ToSet(serversConnections) /\ ServerIdx(fd) = i
        BY <1>1 DEF TableInv
      <4>. HIDE DEF fd
      <4>3. fd \in Clients => fd \in now /\ client'[fd].inPollListIdx = i
        BY <1>6, <1>9, <4>2 DEF ClientIdx
      <4>4. fd \in Servers => fd \in ToSet(serversConnections) /\ server'[fd].inPollListIdx = i
        BY <1>4, <4>2 DEF ServerIdx
      <4>. QED  BY <4>1, <4>2, <4>3, <4>4
    <3>. QED  BY <3>1, <3>2
  <2>4. /\ poll'.size = 1 + OpenConnections'
        /\ Cardinality(poll'.free) = MaxConnectionNum - poll'.size
    <3>1. poll.size \in Int /\ MaxConnectionNum \in Int
      BY <1>1, MaxConnectionNumAssumption DEF TypeOK, PollTables
    <3>2. Len(clientsConnections) \in Nat /\ Len(serversConnections) \in Nat
      BY <1>1 DEF TypeOK
    <3>. QED  BY <1>1, <1>4, <1>6, <1>7, <3>1, <3>2 DEF TableInv, OpenConnections
  <2>5. IsInjective(clientsConnections') /\ IsInjective(serversConnections')
    BY <1>1, <1>4, <1>6 DEF TableInv
  <2>. QED
    BY <1>4, <2>2, <2>3, <2>4, <2>5 DEF TableInv, ClientIdx, ServerIdx, now
<1>13. AcceptInv'
  <2>1. \A d \in ToSet(backlog') : /\ d \in Clients /\ d # c /\ peer[d].open
                                   /\ d \notin now /\ client[d] = NoClient
    BY <1>1, <1>2, <1>6, InToSet DEF Inv, AcceptInv
  <2>2. pc' \notin {"construct", "accept"}
    BY <1>5
  <2>3. \A d \in now : peer[d].open
    BY <1>3, <1>6 DEF Inv, AcceptInv
  <2>. QED  BY <1>2, <1>4, <1>8, <2>1, <2>2, <2>3 DEF Inv, AcceptInv, now
<1>14. ObjectInv'
  BY <1>4, <1>8 DEF Inv, ObjectInv
<1>15. PolledInv'
  <2>. SUFFICES ASSUME NEW d \in now,
                       "POLLIN" \in poll'.pollList[ClientIdx(d)'].events
                                      \union poll'.pollList[ClientIdx(d)'].revents
                PROVE  client'[d].connectionState
                         \in {"WAITING_FOR_REQUEST", "RECEIVING_REQUEST"}
    BY DEF PolledInv, now
  <2>1. CASE d = c
    BY <1>8, <2>1
  <2>2. CASE d # c
    BY <1>6, <1>7, <1>9, <2>2 DEF Inv, PolledInv
  <2>. QED  BY <2>1, <2>2
<1>16. SingleFlight'
  BY <1>4 DEF Inv, SingleFlight, store
<1>17. NoOrphanedWaiter'
  <2>1. client'[c].connectionState # "PROCESSING_REQUEST"
    BY <1>8
  <2>. QED
    BY <1>4, <1>6, <1>9, <1>10, <2>1 DEF Inv, NoOrphanedWaiter, WaitingFor, store, now
<1>. QED  BY <1>11, <1>12, <1>13, <1>14, <1>15, <1>16, <1>17 DEF Inv

(* A cache miss: the connection to the origin comes, and client c joins the new *)
(* set of its key.                                                              *)
LEMMA FetchFromOriginStep ==
  ASSUME Inv, NEW c, FetchFromOrigin(c)
  PROVE  Inv'
<1>. DEFINE now == ToSet(serversConnections')
<1>0. PICK object, key, idx, request :
        /\ object = WholeRequest(client[c], peer[c].request)
        /\ request = peer[c].request /\ key = peer[c].request.key
        /\ idx = TopFreeIndex(poll)
  OBVIOUS
<1>1. PICK s \in Servers \ ToSet(serversConnections) :
        /\ server' = [server EXCEPT ![s] = NewServer(idx, request)]
        /\ poll' = AddConnectionFd(Silenced(c), s, {"POLLOUT"})
        /\ serversConnections' = Append(serversConnections, s)
        /\ \E r \in Responses :
             origin' = [origin EXCEPT ![s] = [ClosedOrigin EXCEPT !.response = r]]
  BY <1>0 DEF FetchFromOrigin, InitializeNewServerConnection
<1>2. /\ MissesCache(c) /\ ReceivesRequest(c) /\ AtClient(c) /\ ClientIsReadable(c)
      /\ peer[c].request.verdict = "WITHOUT_ERRORS"
      /\ key \notin DOMAIN cacheStorage /\ key \notin DOMAIN clientsWaitingForResponse
      /\ OpenConnections < FdLimit
  BY <1>0 DEF FetchFromOrigin, MissesCache, ReceivesRequest
<1>3. /\ TypeOK /\ TableInv
      /\ c \in Clients /\ c \in ToSet(clientsConnections)
      /\ ToSet(clientsConnections) \subseteq Clients
      /\ ToSet(serversConnections) \subseteq Servers
      /\ request \in Requests /\ request.key = key /\ key \in Keys
      /\ poll \in PollTables(Fds)
  BY <1>0, <1>2, AtClientFacts, Places DEF Keys
<1>4. /\ object \in ClientRecords
      /\ object.inPollListIdx = ClientIdx(c)
      /\ object.request.key = key
      /\ object.connectionState = "PROCESSING_REQUEST"
      /\ client' = [client EXCEPT ![c] = object]
  <2>1. client' = RequestReceived(c)
    BY DEF FetchFromOrigin
  <2>. QED  BY <1>0, <1>2, <2>1, TakenRequest
<1>5. /\ client' \in [Clients -> ClientRecords]
      /\ client'[c] = object
      /\ \A d \in Clients \ {c} : client'[d] = client[d]
      /\ \A d \in Clients : client'[d].inPollListIdx = client[d].inPollListIdx
  BY <1>3, <1>4 DEF TypeOK, ClientIdx
<1>6. UNCHANGED <<pc, isInterrupt, clientsConnections, cacheStorage, peer, backlog>>
        /\ it' = it + 1
  BY DEF FetchFromOrigin, Advance
<1>7. /\ serversConnections' \in Seq(Servers)
      /\ Len(serversConnections') = Len(serversConnections) + 1
      /\ now = ToSet(serversConnections) \union {s}
      /\ IsInjective(serversConnections')
  BY <1>1, <1>3, AppendNew DEF TypeOK, TableInv
<1>. HIDE DEF now
<1>8. /\ idx \in Slots /\ idx \in poll.free
      /\ idx # ListeningIdx
      /\ \A d \in ToSet(clientsConnections) :
           ClientIdx(d) # idx /\ ClientIdx(d) \in Slots \ {idx}
      /\ \A t \in ToSet(serversConnections) :
           ServerIdx(t) # idx /\ ServerIdx(t) \in Slots \ {idx}
      /\ poll' \in PollTables(Fds)
      /\ poll'.pollList[idx].fd = s
      /\ \A i \in Slots \ {idx} : /\ poll'.pollList[i] = Silenced(c).pollList[i]
                                  /\ poll'.pollList[i].fd = poll.pollList[i].fd
      /\ poll'.size = poll.size + 1
      /\ poll'.free = poll.free \ {idx}
      /\ Cardinality(poll'.free) = Cardinality(poll.free) - 1
  <2>. DEFINE out == {"POLLOUT"}
  <2>1. /\ s \in Fds /\ out \in SUBSET Events
        /\ poll' = AddConnectionFd(Silenced(c), s, out)
    BY <1>1 DEF Fds, Events
  <2>2. Silenced(c) \in PollTables(Fds) /\ SameOwners(Silenced(c), poll)
    BY <1>2, SilencedSlot
  <2>. HIDE DEF out
  <2>. QED  BY <1>0, <1>2, <1>3, <2>1, <2>2, SlotTaken
<1>9. /\ server' \in [Servers -> ServerRecords]
      /\ server'[s].inPollListIdx = idx
      /\ server'[s].request = request
      /\ \A t \in ToSet(serversConnections) :
           t \in Servers /\ t # s /\ server'[t] = server[t] /\ ServerIdx(t)' = ServerIdx(t)
  <2>1. /\ NewServer(idx, request) \in ServerRecords
        /\ NewServer(idx, request).inPollListIdx = idx
        /\ NewServer(idx, request).request = request
    BY <1>3, <1>8, NewServerEffect
  <2>2. /\ server' \in [Servers -> ServerRecords]
        /\ server'[s] = NewServer(idx, request)
        /\ \A t \in Servers \ {s} : server'[t] = server[t]
    BY <1>1, <1>3, <2>1 DEF TypeOK
  <2>. QED  BY <1>1, <1>3, <2>1, <2>2 DEF ServerIdx
<1>10. origin' \in [Servers -> Origins]
  <2>1. PICK r \in Responses :
          origin' = [origin EXCEPT ![s] = [ClosedOrigin EXCEPT !.response = r]]
    BY <1>1
  <2>2. r \in ResponseRecords
    BY MessagesAssumption DEF OriginStatuses
  <2>3. [ClosedOrigin EXCEPT !.response = r] \in Origins
    <3>1. ClosedOrigin \in Origins
      BY MessagesAssumption
    DEF ClosedOrigin, Origins, ResponseRecords, OriginStatuses, ParseResults
    <3>. QED  BY <2>2, <3>1 DEF Origins
  <2>. QED  BY <1>1, <1>3, <2>1, <2>3 DEF TypeOK
<1>11. /\ DOMAIN clientsWaitingForResponse' = DOMAIN clientsWaitingForResponse \union {key}
       /\ clientsWaitingForResponse'[key] = {c}
       /\ \A k \in DOMAIN clientsWaitingForResponse :
            clientsWaitingForResponse'[k] = clientsWaitingForResponse[k]
  <2>1. clientsWaitingForResponse' =
          Put(clientsWaitingForResponse, key, WaitingFor(key) \union {c})
    BY <1>0 DEF FetchFromOrigin, AddClientInWaitersList
  <2>2. WaitingFor(key) = {}
    BY <1>2 DEF WaitingFor
  <2>. QED  BY <1>2, <2>1, <2>2 DEF Put
<1>12. TypeOK'
  <2>1. it' \in Nat \ {0}
    BY <1>3, <1>6 DEF TypeOK
  <2>2. /\ DOMAIN clientsWaitingForResponse' \subseteq Keys
        /\ \A k \in DOMAIN clientsWaitingForResponse' :
             clientsWaitingForResponse'[k] \subseteq Clients
    BY <1>3, <1>11 DEF TypeOK
  <2>. QED
    BY <1>3, <1>5, <1>6, <1>7, <1>8, <1>9, <1>10, <2>1, <2>2 DEF TypeOK, Fds
<1>13. TableInv'
  <2>1. \A d \in Clients : ClientIdx(d)' = ClientIdx(d)
    BY <1>5 DEF ClientIdx
  <2>2. /\ poll'.pollList[ListeningIdx].fd = ListeningSocketFd
        /\ \A d \in ToSet(clientsConnections') : poll'.pollList[ClientIdx(d)'].fd = d
        /\ \A t \in ToSet(serversConnections') : poll'.pollList[ServerIdx(t)'].fd = t
    <3>1. ListeningIdx \in Slots \ {idx}
      BY <1>3, <1>8, Places
    <3>2. ServerIdx(s)' = idx
      BY <1>9 DEF ServerIdx
    <3>3. ASSUME NEW t \in now
          PROVE  poll'.pollList[ServerIdx(t)'].fd = t
      BY <1>3, <1>7, <1>8, <1>9, <3>2 DEF TableInv
    <3>4. ASSUME NEW d \in ToSet(clientsConnections)
          PROVE  poll'.pollList[ClientIdx(d)'].fd = d
      BY <1>3, <1>8, <2>1 DEF TableInv
    <3>5. poll'.pollList[ListeningIdx].fd = ListeningSocketFd
      BY <1>3, <1>8, <3>1 DEF TableInv
    <3>. QED  BY <1>6, <3>3, <3>4, <3>5 DEF now
  <2>3. ASSUME NEW i \in Slots
        PROVE  LET fd == poll'.pollList[i].fd
               IN  /\ fd = IgnoredSocketFd <=> i \in poll'.free
                   /\ fd \in Clients => /\ fd \in ToSet(clientsConnections)
                                        /\ client'[fd].inPollListIdx = i
                   /\ fd \in Servers => fd \in now /\ server'[fd].inPollListIdx = i
    <3>1. CASE i = idx
      <4>1. s \notin Clients /\ s # IgnoredSocketFd /\ s \in now
        BY <1>1, <1>7, ProxyAssumption
      <4>2. i \notin poll'.free /\ poll'.pollList[i].fd = s
        BY <1>8, <3>1
      <4>. QED  BY <1>9, <3>1, <4>1, <4>2
    <3>2. CASE i # idx
      <4>. DEFINE fd == poll.pollList[i].fd
      <4>1. poll'.pollList[i].fd = fd /\ (i \in poll'.free <=> i \in poll.free)
        BY <1>8, <3>2
      <4>2. /\ fd = IgnoredSocketFd <=> i \in poll.free
            /\ fd \in Clients => fd \in ToSet(clientsConnections) /\ ClientIdx(fd) = i
            /\ fd \in Servers => fd \in ToSet(serversConnections) /\ ServerIdx(fd) = i
        BY <1>3 DEF TableInv
      <4>. HIDE DEF fd
      <4>3. fd \in Clients => /\ fd \in ToSet(clientsConnections)
                              /\ client'[fd].inPollListIdx = i
        BY <1>5, <4>2 DEF ClientIdx
      <4>4. fd \in Servers => fd \in now /\ server'[fd].inPollListIdx = i
        BY <1>7, <1>9, <4>2 DEF ServerIdx
      <4>. QED  BY <4>1, <4>2, <4>3, <4>4
    <3>. QED  BY <3>1, <3>2
  <2>4. /\ poll'.size = 1 + OpenConnections'
        /\ Cardinality(poll'.free) = MaxConnectionNum - poll'.size
    <3>1. poll.size \in Int /\ MaxConnectionNum \in Int
      BY <1>3, MaxConnectionNumAssumption DEF TypeOK, PollTables
    <3>2. Len(clientsConnections) \in Nat /\ Len(serversConnections) \in Nat
      BY <1>3 DEF TypeOK
    <3>. QED  BY <1>3, <1>6, <1>7, <1>8, <3>1, <3>2 DEF TableInv, OpenConnections
  <2>5. IsInjective(clientsConnections') /\ IsInjective(serversConnections')
    BY <1>3, <1>6, <1>7 DEF TableInv
  <2>. QED
    BY <1>6, <2>2, <2>3, <2>4, <2>5 DEF TableInv, ClientIdx, ServerIdx, now
<1>14. AcceptInv'
  <2>1. \A d \in ToSet(backlog) : d \in Clients /\ d # c
    BY <1>3, InToSet DEF Inv, AcceptInv, TypeOK
  <2>2. pc' \notin {"construct", "accept"}
    BY <1>2, <1>6 DEF AtClient
  <2>. QED  BY <1>5, <1>6, <2>1, <2>2 DEF Inv, AcceptInv
<1>15. ObjectInv'
  <2>1. \A d \in Clients : client'[d].connectionState # "WAITING_FOR_RESPONSE"
    BY <1>4, <1>5 DEF Inv, ObjectInv
  <2>2. \A t \in now : server'[t].request \in Requests
    BY <1>3, <1>7, <1>9 DEF Inv, ObjectInv
  <2>. QED  BY <2>1, <2>2 DEF ObjectInv, now
<1>16. PolledInv'
  <2>. SUFFICES ASSUME NEW d \in ToSet(clientsConnections),
                       "POLLIN" \in poll'.pollList[ClientIdx(d)'].events
                                      \union poll'.pollList[ClientIdx(d)'].revents
                PROVE  client'[d].connectionState
                         \in {"WAITING_FOR_REQUEST", "RECEIVING_REQUEST"}
    BY <1>6 DEF PolledInv
  <2>1. d \in Clients /\ ClientIdx(d)' = ClientIdx(d) /\ ClientIdx(d) \in Slots \ {idx}
    BY <1>3, <1>5, <1>8 DEF ClientIdx
  <2>2. poll'.pollList[ClientIdx(d)] = Silenced(c).pollList[ClientIdx(d)]
    BY <1>8, <2>1
  <2>3. d # c
    BY <1>2, <2>1, <2>2, SilencedSlot
  <2>4. ClientIdx(d) \in Slots \ {ClientIdx(c)}
    BY <1>3, <2>1, <2>3, Places
  <2>5. /\ poll'.pollList[ClientIdx(d)].events = poll.pollList[ClientIdx(d)].events
        /\ poll'.pollList[ClientIdx(d)].revents = poll.pollList[ClientIdx(d)].revents
    BY <1>2, <2>2, <2>4, SilencedSlot
  <2>. QED  BY <1>5, <2>1, <2>3, <2>5 DEF Inv, PolledInv
<1>17. SingleFlight'
  <2>1. \A t \in ToSet(serversConnections) : server[t].request.key # key
    BY <1>2 DEF Inv, SingleFlight
  <2>2. DOMAIN clientsWaitingForResponse' = {server'[t].request.key : t \in now}
    BY <1>3, <1>7, <1>9, <1>11 DEF Inv, SingleFlight
  <2>3. \A t, u \in now : server'[t].request.key = server'[u].request.key => t = u
    BY <1>3, <1>7, <1>9, <2>1 DEF Inv, SingleFlight
  <2>4. DOMAIN clientsWaitingForResponse' \intersect DOMAIN cacheStorage' = {}
    BY <1>2, <1>6, <1>11 DEF Inv, SingleFlight
  <2>. QED  BY <2>2, <2>3, <2>4 DEF SingleFlight, now
<1>18. NoOrphanedWaiter'
  <2>1. /\ \A k \in DOMAIN clientsWaitingForResponse : clientsWaitingForResponse[k] \subseteq Clients
        /\ \A k \in DOMAIN clientsWaitingForResponse : c \notin clientsWaitingForResponse[k]
    BY <1>2, <1>3, ReadableClient DEF TypeOK
  <2>2. ASSUME NEW d \in ToSet(clientsConnections),
               client'[d].connectionState = "PROCESSING_REQUEST"
        PROVE  d \in WaitingFor(client[d].request.key)'
    <3>1. CASE d = c
      BY <1>4, <1>5, <1>11, <3>1 DEF WaitingFor
    <3>2. CASE d # c
      <4>1. d \in Clients /\ client'[d] = client[d]
        BY <1>3, <1>5, <3>2
      <4>2. d \in WaitingFor(client[d].request.key)
        BY <2>2, <4>1 DEF Inv, NoOrphanedWaiter
      <4>. QED  BY <1>11, <4>1, <4>2 DEF WaitingFor
    <3>. QED  BY <3>1, <3>2
  <2>3. ASSUME NEW k \in DOMAIN clientsWaitingForResponse',
               NEW d \in clientsWaitingForResponse'[k]
        PROVE  client'[d].connectionState = "PROCESSING_REQUEST" /\ client'[d].request.key = k
    <3>1. CASE k = key
      BY <1>4, <1>5, <1>11, <3>1
    <3>2. CASE k # key
      BY <1>5, <1>11, <2>1, <3>2 DEF Inv, NoOrphanedWaiter
    <3>. QED  BY <3>1, <3>2
  <2>. QED  BY <1>6, <2>2, <2>3 DEF NoOrphanedWaiter
<1>. QED  BY <1>12, <1>13, <1>14, <1>15, <1>16, <1>17, <1>18 DEF Inv

LEMMA ConnectStep ==
  ASSUME Inv, NEW c \in Clients, NEW request \in Requests, Connect(c, request)
  PROVE  Inv'
<1>. DEFINE end == [ClosedPeer EXCEPT !.open = TRUE, !.request = request]
<1>1. /\ pc \notin {"construct", "exit"}
      /\ ~peer[c].open /\ client[c] = NoClient
      /\ peer' = [peer EXCEPT ![c] = end]
      /\ backlog' = Append(backlog, c)
      /\ UNCHANGED <<pc, it, isInterrupt, poll, lists, store, client, server, origin>>
  BY DEF Connect, Running, Terminals
<1>2. /\ TypeOK /\ TableInv
      /\ backlog \in Seq(Clients) /\ IsInjective(backlog)
      /\ ToSet(clientsConnections) \subseteq Clients /\ ToSet(backlog) \subseteq Clients
  BY <1>1, InToSet DEF Inv, Nothing, TypeOK, AcceptInv
<1>3. /\ peer' \in [Clients -> Peers]
      /\ peer'[c].open /\ peer'[c].request = request
      /\ \A d \in Clients \ {c} : peer'[d] = peer[d]
  <2>1. ClosedPeer \in Peers
    BY MessagesAssumption DEF ClosedPeer, Peers, Stalls
  <2>2. end \in Peers /\ end.open /\ end.request = request
    BY <2>1 DEF Peers
  <2>. HIDE DEF end
  <2>. QED  BY <1>1, <1>2, <2>2 DEF TypeOK
<1>4. /\ backlog' \in Seq(Clients)
      /\ ToSet(backlog') = ToSet(backlog) \union {c}
      /\ IsInjective(backlog')
      /\ c \notin ToSet(clientsConnections)
      /\ backlog' # <<>>
  <2>1. c \notin ToSet(backlog) /\ c \notin ToSet(clientsConnections)
    BY <1>1 DEF Inv, AcceptInv
  <2>2. /\ backlog' \in Seq(Clients)
        /\ Len(backlog') = Len(backlog) + 1
        /\ ToSet(backlog') = ToSet(backlog) \union {c}
        /\ IsInjective(backlog')
    BY <1>1, <1>2, <2>1, AppendNew
  <2>. QED  BY <1>2, <2>1, <2>2
<1>. HIDE DEF end
<1>5. TypeOK'
  BY <1>1, <1>2, <1>3, <1>4 DEF TypeOK, lists, store
<1>6. TableInv'
  BY <1>1, <1>2 DEF TableInv, ClientIdx, ServerIdx, OpenConnections, lists
<1>7. AcceptInv'
  BY <1>1, <1>2, <1>3, <1>4 DEF Inv, AcceptInv, lists
<1>8. ObjectInv' /\ PolledInv'
  BY <1>1 DEF Inv, ObjectInv, PolledInv, ClientIdx, lists
<1>9. SingleFlight'
  BY <1>1 DEF Inv, SingleFlight, lists, store
<1>10. NoOrphanedWaiter'
  BY <1>1 DEF Inv, NoOrphanedWaiter, WaitingFor, lists, store
<1>. QED  BY <1>5, <1>6, <1>7, <1>8, <1>9, <1>10 DEF Inv

(* The listening socket gets the index the code takes for granted. *)
LEMMA ConstructStep ==
  ASSUME Inv, Construct
  PROVE  Inv'
<1>. DEFINE in == {"POLLIN"}
<1>1. /\ pc = "construct" /\ pc' = "check"
      /\ poll' = AddConnectionFd(EmptyPollTable, ListeningSocketFd, in)
      /\ isInterrupt' = FALSE
      /\ UNCHANGED <<it, lists, store, client, server, env>>
  BY DEF Construct
<1>2. /\ TypeOK
      /\ clientsConnections = <<>> /\ serversConnections = <<>> /\ backlog = <<>>
      /\ ToSet(clientsConnections) = {} /\ ToSet(serversConnections) = {}
      /\ ToSet(backlog) = {}
  <2>1. Nothing
    BY <1>1 DEF Inv, AcceptInv
  <2>. QED  BY <2>1, EmptyList DEF Inv, Nothing
<1>3. /\ poll' \in PollTables(Fds)
      /\ poll'.size = 1
      /\ poll'.free = Slots \ {0}
      /\ Cardinality(poll'.free) = MaxConnectionNum - 1
      /\ \A i \in Slots : poll'.pollList[i].fd =
           IF i = 0 THEN ListeningSocketFd ELSE IgnoredSocketFd
  <2>1. /\ in \in SUBSET Events /\ ListeningSocketFd \in Fds
    BY DEF Events, Fds
  <2>. DEFINE empty == EmptyPollTable
              idx   == TopFreeIndex(empty)
  <2>2. /\ empty \in PollTables(Fds)
        /\ \A i \in Slots : empty.pollList[i] = IgnoredSlot
        /\ empty.size = 0 /\ empty.free = Slots /\ empty.free # {} /\ idx = 0
        /\ Cardinality(empty.free) = MaxConnectionNum
    BY EmptyPollTableEffect
  <2>. HIDE DEF empty, in, idx
  <2>3. poll' = AddConnectionFd(empty, ListeningSocketFd, in)
    BY <1>1 DEF empty
  <2>4. /\ poll' \in PollTables(Fds)
        /\ \A i \in Slots : poll'.pollList[i] =
             IF i = idx THEN [fd |-> ListeningSocketFd, events |-> in, revents |-> {}]
                        ELSE empty.pollList[i]
        /\ poll'.size = empty.size + 1
        /\ poll'.free = empty.free \ {idx}
        /\ Cardinality(poll'.free) = Cardinality(empty.free) - 1
    BY <2>1, <2>2, <2>3, AddEffect DEF idx
  <2>. QED  BY <2>2, <2>4 DEF IgnoredSlot
<1>. HIDE DEF in
<1>4. TypeOK'
  BY <1>1, <1>2, <1>3 DEF TypeOK, PcValues, Fds, lists, store, env
<1>5. TableInv'
  <2>1. /\ 0 \in Slots
        /\ ListeningSocketFd # IgnoredSocketFd
        /\ ListeningSocketFd \notin Clients /\ ListeningSocketFd \notin Servers
        /\ IgnoredSocketFd \notin Clients /\ IgnoredSocketFd \notin Servers
    BY MaxConnectionNumAssumption, ProxyAssumption DEF Slots
  <2>2. /\ clientsConnections' = <<>> /\ serversConnections' = <<>>
        /\ ToSet(clientsConnections') = {} /\ ToSet(serversConnections') = {}
    BY <1>1, <1>2 DEF lists
  <2>3. IsInjective(<<>>)
    BY EmptyList
  <2>4. Len(<<>>) = 0
    BY EmptyList
  <2>5. \A i \in Slots :
          LET fd == poll'.pollList[i].fd
          IN  /\ fd = IgnoredSocketFd <=> i \in poll'.free
              /\ fd \notin Clients /\ fd \notin Servers
    BY <1>3, <2>1
  <2>6. poll'.pollList[ListeningIdx].fd = ListeningSocketFd
    BY <1>3, <2>1 DEF ListeningIdx
  <2>7. poll'.size = 1 + OpenConnections'
    BY <1>3, <2>2, <2>4 DEF OpenConnections
  <2>8. Cardinality(poll'.free) = MaxConnectionNum - poll'.size
    BY <1>3
  <2>. QED  BY <2>2, <2>3, <2>5, <2>6, <2>7, <2>8 DEF TableInv
<1>6. AcceptInv'
  BY <1>1, <1>2 DEF Inv, AcceptInv, lists, env
<1>7. ObjectInv' /\ PolledInv'
  BY <1>1, <1>2 DEF Inv, ObjectInv, PolledInv, lists
<1>8. SingleFlight'
  BY <1>1 DEF Inv, SingleFlight, lists, store
<1>9. NoOrphanedWaiter'
  BY <1>1 DEF Inv, NoOrphanedWaiter, WaitingFor, lists, store
<1>. QED  BY <1>4, <1>5, <1>6, <1>7, <1>8, <1>9 DEF Inv

(* What poll() may report for a slot. *)
LEMMA ReadinessOfSlot ==
  ASSUME NEW slot, slot.events \in SUBSET Events
  PROVE  /\ Readiness(slot) \in SUBSET Revents
         /\ "POLLIN" \in Readiness(slot) => "POLLIN" \in slot.events
         /\ slot.fd = ListeningSocketFd /\ "POLLIN" \in Readiness(slot) => backlog # <<>>
<1>1. slot.events \subseteq Revents /\ "POLLERR" \in Revents
  BY DEF Events, Revents
<1>2. ASSUME NEW p, NEW got
      PROVE  /\ SocketReadiness(p, got, slot.events) \in SUBSET Revents
             /\ "POLLIN" \in SocketReadiness(p, got, slot.events) => "POLLIN" \in slot.events
  BY <1>1 DEF SocketReadiness
<1>3. CASE slot.fd \in Clients
  <2>1. Readiness(slot) =
          SocketReadiness(peer[slot.fd], client[slot.fd].received, slot.events)
    BY <1>3, ProxyAssumption DEF Readiness
  <2>. QED  BY <1>2, <1>3, <2>1, ProxyAssumption
<1>4. CASE slot.fd \in Servers
  <2>1. Readiness(slot) =
          SocketReadiness(origin[slot.fd], server[slot.fd].recvLen, slot.events)
    BY <1>4, ProxyAssumption DEF Readiness
  <2>. QED  BY <1>2, <1>4, <2>1, ProxyAssumption
<1>5. CASE slot.fd = ListeningSocketFd
  <2>1. Readiness(slot) = {e \in slot.events : e = "POLLIN" /\ backlog # <<>>}
    BY <1>5, ProxyAssumption DEF Readiness
  <2>. QED  BY <1>1, <2>1
<1>6. CASE slot.fd \notin Clients \union Servers \union {ListeningSocketFd}
  BY <1>6 DEF Readiness
<1>. QED  BY <1>3, <1>4, <1>5, <1>6

LEMMA PollReturnsStep ==
  ASSUME Inv, PollReturns
  PROVE  Inv'
<1>. DEFINE revents == [i \in Slots |-> Readiness(poll.pollList[i])]
<1>1. /\ pc = "poll" /\ pc' = "accept"
      /\ poll' = WithRevents(poll, revents)
      /\ UNCHANGED <<it, isInterrupt, lists, store, client, server, env>>
  BY DEF PollReturns
<1>2. /\ TypeOK /\ TableInv
      /\ poll \in PollTables(Fds)
      /\ ListeningIdx \in Slots
      /\ \A i \in Slots : poll.pollList[i].events \in SUBSET Events
  BY <1>1, Places DEF Inv, Nothing, PollTables
<1>3. /\ revents \in [Slots -> SUBSET Revents]
      /\ \A i \in Slots : "POLLIN" \in revents[i] => "POLLIN" \in poll.pollList[i].events
      /\ "POLLIN" \in revents[ListeningIdx] => backlog # <<>>
  BY <1>2, ReadinessOfSlot DEF TableInv
<1>. HIDE DEF revents
<1>4. /\ poll' \in PollTables(Fds)
      /\ SameOwners(poll', poll)
      /\ \A i \in Slots : /\ poll'.pollList[i].events = poll.pollList[i].events
                          /\ poll'.pollList[i].revents = revents[i]
  BY <1>1, <1>2, <1>3, WithReventsEffect
<1>5. TypeOK'
  BY <1>1, <1>2, <1>4 DEF TypeOK, PcValues, Fds, lists, store, env
<1>6. TableInv'
  BY <1>1, <1>2, <1>4, TableKept
<1>7. AcceptInv'
  BY <1>1, <1>2, <1>3, <1>4 DEF Inv, AcceptInv, IsReadyForRead, lists, env
<1>8. ObjectInv'
  BY <1>1 DEF Inv, ObjectInv, lists
<1>9. PolledInv'
  <2>1. \A c \in ToSet(clientsConnections) : ClientIdx(c)' = ClientIdx(c) /\ ClientIdx(c) \in Slots
    BY <1>1, <1>2, Places DEF ClientIdx
  <2>. QED  BY <1>1, <1>3, <1>4, <2>1 DEF Inv, PolledInv, lists
<1>10. SingleFlight'
  BY <1>1 DEF Inv, SingleFlight, lists, store
<1>11. NoOrphanedWaiter'
  BY <1>1 DEF Inv, NoOrphanedWaiter, WaitingFor, lists, store
<1>. QED  BY <1>5, <1>6, <1>7, <1>8, <1>9, <1>10, <1>11 DEF Inv

--------------------------------------------------------------------------------
(* The turns of a server connection.                                            *)

(* What holds where server connection s is handled. *)
LEMMA AtServerFacts ==
  ASSUME Inv, NEW s, AtServer(s)
  PROVE  /\ TypeOK /\ TableInv
         /\ s \in Servers /\ s \in ToSet(serversConnections)
         /\ server[s] \in ServerRecords /\ ServerIdx(s) \in Slots
         /\ poll \in PollTables(Fds)
         /\ origin[s] \in Origins
<1>1. TypeOK /\ TableInv
  BY DEF Inv, Nothing, AtServer
<1>2. s \in Servers /\ s \in ToSet(serversConnections)
  BY <1>1, ServerInList
<1>. QED  BY <1>1, <1>2, Places DEF TypeOK

(* A turn that leaves the table as it was but for the revents of s. *)
LEMMA TableUntouched ==
  ASSUME Inv, NEW s, AtServer(s), KeepServer(s, poll),
         NEW object \in ServerRecords,
         server' = [server EXCEPT ![s] = object],
         SamePlace(object, server[s])
  PROVE  Inv'
<1>1. poll \in PollTables(Fds) /\ SameOwners(poll, poll)
  BY AtServerFacts DEF SameOwners
<1>. QED  BY <1>1, KeepServerStep

(* A turn that makes s wait for the answer. *)
LEMMA AnswerAwaited ==
  ASSUME Inv, NEW s, AtServer(s),
         KeepServer(s, SetEvents(poll, {ServerIdx(s)}, {"POLLIN"})),
         NEW object \in ServerRecords,
         server' = [server EXCEPT ![s] = object],
         SamePlace(object, server[s])
  PROVE  Inv'
<1>. DEFINE i0    == ServerIdx(s)
            idxs  == {i0}
            in    == {"POLLIN"}
            table == SetEvents(poll, idxs, in)
<1>1. /\ i0 \in Slots /\ poll \in PollTables(Fds)
      /\ in \in SUBSET Events
      /\ \A i \in Slots : i \in idxs <=> i = i0
  BY AtServerFacts DEF Events
<1>2. KeepServer(s, table)
  OBVIOUS
<1>. HIDE DEF i0, idxs, in
<1>3. /\ table \in PollTables(Fds)
      /\ SameOwners(table, poll)
      /\ \A i \in Slots \ {i0} :
           /\ table.pollList[i].events = poll.pollList[i].events
           /\ table.pollList[i].revents = poll.pollList[i].revents
  BY <1>1, ArmedSlot
<1>. HIDE DEF table
<1>. QED  BY <1>2, <1>3, KeepServerStep DEF i0

LEMMA ServerIsQuietStep ==
  ASSUME Inv, NEW s, ServerIsQuiet(s)
  PROVE  Inv'
<1>1. AtServer(s) /\ KeepServer(s, poll) /\ server' = server
  BY DEF ServerIsQuiet
<1>2. server[s] \in ServerRecords /\ server' = [server EXCEPT ![s] = server[s]]
  BY <1>1, AtServerFacts DEF TypeOK
<1>. QED  BY <1>1, <1>2, TableUntouched DEF SamePlace

LEMMA ForwardRequestStep ==
  ASSUME Inv, NEW s, ForwardRequest(s)
  PROVE  Inv'
<1>1. AtServer(s)
  BY DEF ForwardRequest, ForwardsRequest
<1>2. PICK n \in SendTakes(ReqLen - server[s].sendRequestOffset) :
        /\ server' = [server EXCEPT ![s] = RequestSent(server[s], n)]
        /\ KeepServer(s, IF server[s].sendRequestOffset + n = ReqLen
                         THEN SetEvents(poll, {ServerIdx(s)}, {"POLLIN"}) ELSE poll)
  BY DEF ForwardRequest
<1>. DEFINE object == RequestSent(server[s], n)
<1>3. object \in ServerRecords /\ SamePlace(object, server[s])
  <2>1. server[s] \in ServerRecords
    BY <1>1, AtServerFacts
  <2>2. ReqLen - server[s].sendRequestOffset \in Nat
    BY <2>1, MessagesAssumption DEF ServerRecords
  <2>3. n \in Nat /\ n =< ReqLen - server[s].sendRequestOffset
    BY <1>2, <2>2 DEF SendTakes
  <2>. QED  BY <2>1, <2>3, RequestSentEffect
<1>4. server' = [server EXCEPT ![s] = object]
  BY <1>2
<1>. HIDE DEF object
<1>5. CASE server[s].sendRequestOffset + n = ReqLen
  <2>1. KeepServer(s, SetEvents(poll, {ServerIdx(s)}, {"POLLIN"}))
    BY <1>2, <1>5
  <2>. QED  BY <1>1, <1>3, <1>4, <2>1, AnswerAwaited
<1>6. CASE server[s].sendRequestOffset + n # ReqLen
  <2>1. KeepServer(s, poll)
    BY <1>2, <1>6
  <2>. QED  BY <1>1, <1>3, <1>4, <2>1, TableUntouched
<1>. QED  BY <1>5, <1>6

LEMMA ForwardRequestFailsStep ==
  ASSUME Inv, NEW s, ForwardRequestFails(s)
  PROVE  Inv'
<1>1. AtServer(s)
  BY DEF ForwardRequestFails, ForwardsRequest
<1>2. server[s] \in ServerRecords /\ server[s].connectionState \in ServerConnectionStates
  BY <1>1, AtServerFacts DEF ServerRecords
<1>3. CASE server[s].connectionState = "RECEIVING_ANSWER"
  <2>1. /\ KeepServer(s, SetEvents(poll, {ServerIdx(s)}, {"POLLIN"}))
        /\ server' = server
    BY <1>3 DEF ForwardRequestFails
  <2>2. server' = [server EXCEPT ![s] = server[s]]
    BY <1>1, <2>1, AtServerFacts DEF TypeOK
  <2>. QED  BY <1>1, <1>2, <2>1, <2>2, AnswerAwaited DEF SamePlace
<1>4. CASE server[s].connectionState # "RECEIVING_ANSWER"
  BY <1>1, <1>2, <1>4, ShutdownServerConnectionStep DEF ForwardRequestFails
<1>. QED  BY <1>3, <1>4

LEMMA ReceivePartOfAnswerStep ==
  ASSUME Inv, NEW s, ReceivePartOfAnswer(s)
  PROVE  Inv'
<1>1. AtServer(s) /\ KeepServer(s, poll)
  BY DEF ReceivePartOfAnswer, ReceivesAnswer
<1>2. PICK n \in 1..Available(origin[s], server[s].recvLen) :
        server' = [server EXCEPT ![s] = AnswerReceived(server[s], n)]
  BY DEF ReceivePartOfAnswer
<1>3. AnswerReceived(server[s], n) \in ServerRecords
      /\ SamePlace(AnswerReceived(server[s], n), server[s])
  <2>1. /\ server[s] \in ServerRecords
        /\ server[s].recvLen \in 0..RespLen /\ origin[s].sent \in 0..RespLen
    BY <1>1, AtServerFacts DEF ServerRecords, Origins
  <2>2. n \in Nat /\ server[s].recvLen + n =< RespLen
    BY <2>1, MessagesAssumption DEF Available
  <2>. QED  BY <2>1, <2>2, AnswerReceivedEffect
<1>. QED  BY <1>1, <1>2, <1>3, TableUntouched

LEMMA ReceiveEndOfAnswerStep ==
  ASSUME Inv, NEW s, ReceiveEndOfAnswer(s)
  PROVE  Inv'
<1>1. AtServer(s) /\ ShutdownServerConnection(s, EndOfStreamState(Received(s)))
  BY DEF ReceiveEndOfAnswer, ReceivesAnswer
<1>2. EndOfStreamState(Received(s)) \in ServerConnectionStates
  BY DEF EndOfStreamState, ServerConnectionStates
<1>. QED  BY <1>1, <1>2, ShutdownServerConnectionStep

(* An error on the socket, and recv() that fails. *)
LEMMA ServerErrorStep ==
  ASSUME Inv, NEW s, ServerSocketError(s) \/ ReceiveAnswerFails(s)
  PROVE  Inv'
<1>1. AtServer(s) /\ ShutdownServerConnection(s, server[s].connectionState)
  BY DEF ServerSocketError, ReceiveAnswerFails, ReceivesAnswer
<1>2. server[s].connectionState \in ServerConnectionStates
  BY <1>1, AtServerFacts DEF ServerRecords
<1>. QED  BY <1>1, <1>2, ShutdownServerConnectionStep

--------------------------------------------------------------------------------
(* The other steps.                                                             *)

(* The turns of a client that end in shutdownClientConnection(). *)
LEMMA ClientLeavesStep ==
  ASSUME Inv, NEW c,
         \/ ClientSocketError(c) \/ ReceiveRequestFails(c)
         \/ SendAnswerFails(c) \/ SendAnswerInterrupted(c) \/ SendAnswerCompletes(c)
  PROVE  Inv'
<1>1. AtClient(c) /\ IsShutDown(c)
  BY DEF IsShutDown, ClientSocketError, ReceiveRequestFails, SendAnswerFails,
         SendAnswerInterrupted, InterruptsSend, SendAnswerCompletes, SendTakesAnswer,
         SendsAnswer
<1>2. isInterrupt' \in BOOLEAN
  BY DEF ClientSocketError, ReceiveRequestFails, SendAnswerFails, SendAnswerInterrupted,
         InterruptsSend, SendAnswerCompletes, Inv, TypeOK
<1>. QED  BY <1>1, <1>2, ShutdownClientConnectionStep

(* The steps in which the thread only goes on, or ends. *)
LEMMA ThreadGoesOnStep ==
  ASSUME Inv,
         \/ ConstructFails \/ CheckInterrupt \/ EnterPoll
         \/ AcceptFails \/ NothingToAccept \/ ClientsDone \/ ServersDone
         \/ \E c \in Clients : SendAnswerKillsProcess(c) \/ ParseRequestKillsProcess(c)
         \/ \E s \in Servers : ForwardRequestKillsProcess(s) \/ ParseAnswerKillsProcess(s)
  PROVE  Inv'
<1>1. /\ UNCHANGED <<isInterrupt, poll, lists, store, client, server, env>>
      /\ it' = it \/ it' = 1
      /\ pc' \in PcValues /\ pc' \notin {"construct", "accept"}
      /\ pc \in {"construct", "exit"} => pc' = "exit"
  BY DEF ConstructFails, CheckInterrupt, EnterPoll, AcceptFails, NothingToAccept,
         ClientsDone, ServersDone, SendAnswerKillsProcess, ForwardRequestKillsProcess,
         ParseRequestKillsProcess, ReceivesRequest, ParseAnswerKillsProcess, ReceivesAnswer,
         AtClient, ForwardsRequest, AtServer, BeginClients, PcValues, Terminals
<1>2. it' \in Nat \ {0} /\ isInterrupt' \in BOOLEAN
  BY <1>1 DEF Inv, TypeOK
<1>. QED  BY <1>1, <1>2, QuietStep

LEMMA SignalArrivesStep ==
  ASSUME Inv, SignalArrives
  PROVE  Inv'
<1>1. /\ UNCHANGED <<it, poll, lists, store, client, server, env>>
      /\ isInterrupt' = TRUE
      /\ pc' = IF pc = "poll" THEN "check" ELSE pc
  BY DEF SignalArrives
<1>2. it' \in Nat \ {0} /\ isInterrupt' \in BOOLEAN /\ pc \in PcValues
  BY <1>1 DEF Inv, TypeOK
<1>3. pc' \in PcValues
  BY <1>1, <1>2 DEF PcValues
<1>. QED  BY <1>1, <1>2, <1>3, QuietStep

LEMMA StutteringStep ==
  ASSUME Inv, UNCHANGED vars
  PROVE  Inv'
<1>1. pc' \in PcValues /\ it' \in Nat \ {0} /\ isInterrupt' \in BOOLEAN
  BY DEF Inv, TypeOK, vars
<1>. QED  BY <1>1, QuietStep DEF vars

LEMMA MoveOfClientStep ==
  ASSUME Inv, NEW c \in Clients, MoveOfClient(c)
  PROVE  Inv'
<1>1. TypeOK /\ peer \in [Clients -> Peers] /\ peer[c] \in Peers
  BY DEF Inv, TypeOK
<1>2. CASE \E request \in Requests : Connect(c, request)
  BY <1>2, ConnectStep
<1>3. CASE ClientSends(c)
  <2>1. PICK n \in (peer[c].sent + 1)..SentAtMost : peer' = [peer EXCEPT ![c].sent = n]
    BY <1>3 DEF ClientSends
  <2>2. n \in 0..(ReqLen + 1)
    BY <1>1, <2>1, MessagesAssumption DEF Peers, SentAtMost
  <2>3. peer' \in [Clients -> Peers]
    BY <1>1, <2>1, <2>2 DEF Peers
  <2>4. \A d \in Clients : peer'[d].open = peer[d].open /\ peer'[d].request = peer[d].request
    BY <1>1, <2>1 DEF Peers
  <2>. QED  BY <1>3, <2>3, <2>4, PeerStep DEF ClientSends
<1>4. CASE ClientCloses(c) \/ ClientResets(c) \/ ClientStalls(c) \/ ClientReadsAgain(c)
  <2>. PICK end : /\ peer' = [peer EXCEPT ![c] = end]
                  /\ \/ end = [peer[c] EXCEPT !.fin = TRUE]
                     \/ end = [peer[c] EXCEPT !.rst = TRUE]
                     \/ end = [peer[c] EXCEPT !.stalled = "now"]
                     \/ end = [peer[c] EXCEPT !.stalled = "over"]
    BY <1>4 DEF ClientCloses, ClientResets, ClientStalls, ClientReadsAgain
  <2>1. end \in Peers /\ end.open = peer[c].open /\ end.request = peer[c].request
    BY <1>1 DEF Peers, Stalls
  <2>2. peer' \in [Clients -> Peers]
    BY <1>1, <2>1
  <2>3. \A d \in Clients : peer'[d].open = peer[d].open /\ peer'[d].request = peer[d].request
    BY <1>1, <2>1
  <2>4. OnlyPeer
    BY <1>4 DEF ClientCloses, ClientResets, ClientStalls, ClientReadsAgain
  <2>. QED  BY <2>2, <2>3, <2>4, PeerStep
<1>. QED  BY <1>2, <1>3, <1>4 DEF MoveOfClient

LEMMA MoveOfOriginStep ==
  ASSUME Inv, NEW s \in Servers, MoveOfOrigin(s)
  PROVE  Inv'
<1>1. origin \in [Servers -> Origins] /\ origin[s] \in Origins
  BY DEF Inv, TypeOK
<1>2. CASE OriginSends(s)
  <2>1. PICK n \in (origin[s].sent + 1)..RespLen : origin' = [origin EXCEPT ![s].sent = n]
    BY <1>2 DEF OriginSends
  <2>2. n \in 0..RespLen
    BY <1>1, <2>1, MessagesAssumption DEF Origins
  <2>3. origin' \in [Servers -> Origins]
    BY <1>1, <2>1, <2>2 DEF Origins
  <2>. QED  BY <1>2, <2>3, OriginStep DEF OriginSends
<1>3. CASE OriginCloses(s) \/ OriginResets(s)
  <2>. PICK end : /\ origin' = [origin EXCEPT ![s] = end]
                  /\ \/ end = [origin[s] EXCEPT !.fin = TRUE]
                     \/ end = [origin[s] EXCEPT !.rst = TRUE]
    BY <1>3 DEF OriginCloses, OriginResets
  <2>1. end \in Origins
    BY <1>1 DEF Origins
  <2>2. origin' \in [Servers -> Origins]
    BY <1>1, <2>1
  <2>3. OnlyOrigin
    BY <1>3 DEF OriginCloses, OriginResets
  <2>. QED  BY <2>2, <2>3, OriginStep
<1>. QED  BY <1>2, <1>3 DEF MoveOfOrigin

--------------------------------------------------------------------------------
(* The invariant.                                                               *)

LEMMA InitEstablishesInv == Init => Inv
<1>. SUFFICES ASSUME Init  PROVE  Inv
  OBVIOUS
<1>1. /\ EmptyPollTable \in PollTables(Clients \union Servers \union {ListeningSocketFd})
      /\ ToSet(<<>>) = {} /\ IsInjective(<<>>)
  BY EmptyPollTableEffect, EmptyList
<1>2. /\ NoClient \in ClientRecords /\ NoClient.connectionState = "WAITING_FOR_REQUEST"
      /\ NoServer \in ServerRecords
      /\ ClosedPeer \in Peers /\ ~ClosedPeer.open
      /\ ClosedOrigin \in Origins
  BY NoClientEffect, NoServerEffect, MessagesAssumption
     DEF ClosedPeer, Peers, Stalls, ClosedOrigin, Origins, ResponseRecords, OriginStatuses,
         ParseResults
<1>3. TypeOK
  <2>1. /\ clientsConnections \in Seq(Clients) /\ serversConnections \in Seq(Servers)
        /\ backlog \in Seq(Clients)
    BY DEF Init
  <2>2. /\ DOMAIN clientsWaitingForResponse \subseteq Keys
        /\ \A k \in DOMAIN clientsWaitingForResponse :
             clientsWaitingForResponse[k] \subseteq Clients
        /\ DOMAIN cacheStorage \subseteq Keys
        /\ \A k \in DOMAIN cacheStorage : cacheStorage[k] \in Answers
    BY DEF Init
  <2>3. /\ client \in [Clients -> ClientRecords] /\ server \in [Servers -> ServerRecords]
        /\ peer \in [Clients -> Peers] /\ origin \in [Servers -> Origins]
    BY <1>2 DEF Init
  <2>4. pc \in PcValues /\ it \in Nat \ {0} /\ isInterrupt \in BOOLEAN
    <3>1. pc = "construct" /\ it = 1
      BY DEF Init
    <3>2. isInterrupt \in BOOLEAN
      BY DEF Init
    <3>. QED  BY <3>1, <3>2 DEF PcValues
  <2>5. poll = EmptyPollTable
    BY DEF Init
  <2>. QED  BY <1>1, <2>1, <2>2, <2>3, <2>4, <2>5 DEF TypeOK
<1>4. Nothing
  BY DEF Init, Nothing
<1>5. AcceptInv
  BY <1>1, <1>2, <1>4 DEF Init, AcceptInv
<1>6. ObjectInv /\ PolledInv
  BY <1>1, <1>2 DEF Init, ObjectInv, PolledInv
<1>7. SingleFlight /\ NoOrphanedWaiter
  BY <1>1 DEF Init, SingleFlight, NoOrphanedWaiter
<1>. QED  BY <1>3, <1>4, <1>5, <1>6, <1>7 DEF Inv

LEMMA UpdateClientStep ==
  ASSUME Inv, NEW c \in Clients, UpdateClient(c)
  PROVE  Inv'
<1>1. CASE \/ ClientSocketError(c) \/ ReceiveRequestFails(c)
           \/ SendAnswerFails(c) \/ SendAnswerCompletes(c)
  BY <1>1, ClientLeavesStep
<1>2. CASE ReceivePartOfRequest(c)
  BY <1>2, ReceivePartOfRequestStep
<1>3. CASE RefuseWrongRequest(c)
  BY <1>3, RefuseWrongRequestStep
<1>4. CASE AnswerFromCache(c)
  BY <1>4, AnswerFromCacheStep
<1>5. CASE JoinWaiters(c)
  BY <1>5, JoinWaitersStep
<1>6. CASE FetchFromOrigin(c)
  BY <1>6, FetchFromOriginStep
<1>7. CASE CannotResolveHost(c)
  BY <1>7, CannotResolveHostStep
<1>8. CASE SendPartOfAnswer(c)
  BY <1>8, SendsPartStep DEF SendsPart
<1>9. CASE SendAnswerKillsProcess(c) \/ ParseRequestKillsProcess(c)
  BY <1>9, ThreadGoesOnStep
<1>10. CASE ClientIsQuiet(c)
  BY <1>10, ClientIsQuietStep
<1>. QED
  BY <1>1, <1>2, <1>3, <1>4, <1>5, <1>6, <1>7, <1>8, <1>9, <1>10 DEF UpdateClient

LEMMA UpdateServerStep ==
  ASSUME Inv, NEW s \in Servers, UpdateServer(s)
  PROVE  Inv'
<1>1. CASE ServerSocketError(s) \/ ReceiveAnswerFails(s)
  BY <1>1, ServerErrorStep
<1>2. CASE ForwardRequest(s)
  BY <1>2, ForwardRequestStep
<1>3. CASE ForwardRequestFails(s)
  BY <1>3, ForwardRequestFailsStep
<1>4. CASE ForwardRequestKillsProcess(s) \/ ParseAnswerKillsProcess(s)
  BY <1>4, ThreadGoesOnStep
<1>5. CASE ReceivePartOfAnswer(s)
  BY <1>5, ReceivePartOfAnswerStep
<1>6. CASE ReceiveEndOfAnswer(s)
  BY <1>6, ReceiveEndOfAnswerStep
<1>7. CASE ServerIsQuiet(s)
  BY <1>7, ServerIsQuietStep
<1>. QED
  BY <1>1, <1>2, <1>3, <1>4, <1>5, <1>6, <1>7 DEF UpdateServer

LEMMA NextPreservesInv == Inv /\ [Next]_vars => Inv'
<1>. SUFFICES ASSUME Inv, [Next]_vars  PROVE  Inv'
  OBVIOUS
<1>1. CASE Construct
  BY <1>1, ConstructStep
<1>2. CASE PollReturns
  BY <1>2, PollReturnsStep
<1>3. CASE AcceptNewConnection
  BY <1>3, AcceptNewConnectionStep
<1>4. CASE \/ ConstructFails \/ CheckInterrupt \/ EnterPoll
           \/ AcceptFails \/ NothingToAccept \/ ClientsDone \/ ServersDone
  BY <1>4, ThreadGoesOnStep
<1>5. ASSUME NEW c \in Clients, UpdateClient(c)  PROVE  Inv'
  BY <1>5, UpdateClientStep
<1>6. ASSUME NEW s \in Servers, UpdateServer(s)  PROVE  Inv'
  BY <1>6, UpdateServerStep
<1>7. ASSUME NEW c \in Clients, MoveOfClient(c)  PROVE  Inv'
  BY <1>7, MoveOfClientStep
<1>8. ASSUME NEW s \in Servers, MoveOfOrigin(s)  PROVE  Inv'
  BY <1>8, MoveOfOriginStep
<1>9. CASE SignalArrives
  BY <1>9, SignalArrivesStep
<1>10. ASSUME NEW c \in Clients, SignalInSend(c)  PROVE  Inv'
  BY <1>10, ClientLeavesStep, SendsPartStep DEF SignalInSend, SendsPart
<1>11. CASE Ended \/ UNCHANGED vars
  BY <1>11, StutteringStep DEF Ended
<1>. QED
  BY <1>1, <1>2, <1>3, <1>4, <1>5, <1>6, <1>7, <1>8, <1>9, <1>10, <1>11 DEF Next, Thread

(* In every reachable state of the proxy, whatever the clients, the origins,    *)
(* the sizes and the faults: the connections are where the lists, the poll      *)
(* table, the backlog and the sets of waiting clients say.                      *)
THEOREM Invariance == Spec => []Inv
<1>1. Init => Inv
  BY InitEstablishesInv
<1>2. Inv /\ [Next]_vars => Inv'
  BY NextPreservesInv
<1>. QED  BY <1>1, <1>2, PTL DEF Spec

(* Every variable always holds a value of its kind (Proxy.h:70-84).             *)
THEOREM TypeCorrectness == Spec => []TypeOK
<1>1. Inv => TypeOK
  BY DEF Inv
<1>. QED  BY <1>1, Invariance, PTL

(* The slots of the poll table and the connections in the two lists correspond  *)
(* one to one however connections come, go and reuse slots (Proxy.cpp:19-37,    *)
(* 136, 286).                                                                   *)
THEOREM TableConsistency == Spec => []PollTableConsistent
<1>1. Inv => PollTableConsistent
  <2>. SUFFICES ASSUME Inv, Constructed  PROVE  PollTableConsistent
    BY DEF PollTableConsistent
  <2>1. TypeOK /\ TableInv
    BY DEF Inv, Nothing, Constructed
  <2>2. /\ ToSet(clientsConnections) \subseteq Clients
        /\ ToSet(serversConnections) \subseteq Servers
        /\ Clients \intersect Servers = {}
    BY <2>1, Places, ProxyAssumption
  <2>3. \A o \in Owners : poll.pollList[InPollListIdx(o)].fd = o
    BY <2>1, <2>2 DEF TableInv, Owners, InPollListIdx
  <2>4. ASSUME NEW i \in Slots
        PROVE  LET fd == poll.pollList[i].fd
               IN  /\ fd = IgnoredSocketFd <=> i \in poll.free
                   /\ fd \in Owners => InPollListIdx(fd) = i
                   /\ fd \in Owners \union {IgnoredSocketFd, ListeningSocketFd}
    <3>. DEFINE fd == poll.pollList[i].fd
    <3>1. fd \in Clients \union Servers \union {ListeningSocketFd, IgnoredSocketFd}
      BY <2>1 DEF TypeOK, PollTables
    <3>2. /\ fd = IgnoredSocketFd <=> i \in poll.free
          /\ fd \in Clients => fd \in ToSet(clientsConnections) /\ ClientIdx(fd) = i
          /\ fd \in Servers => fd \in ToSet(serversConnections) /\ ServerIdx(fd) = i
      BY <2>1 DEF TableInv
    <3>. HIDE DEF fd
    <3>3. fd \in Owners => InPollListIdx(fd) = i
      BY <2>2, <3>2 DEF Owners, InPollListIdx
    <3>. QED  BY <3>1, <3>2, <3>3 DEF Owners, fd
  <2>. QED  BY <2>1, <2>3, <2>4 DEF TableInv, PollTableConsistent
<1>. QED  BY <1>1, Invariance, PTL

(* The heap of free indexes is never empty when it is asked for its top: the    *)
(* limit on descriptors is reached first (Constants.h:10, Proxy.cpp:20-21).     *)
THEOREM SlotAlwaysLeft == Spec => []SlotForEveryDescriptor
<1>1. Inv => SlotForEveryDescriptor
  BY SlotIsLeft DEF Inv, Nothing, Constructed, SlotForEveryDescriptor
<1>. QED  BY <1>1, Invariance, PTL

(* A resource is fetched by one connection at a time, and not at all once it is *)
(* cached, for any number of clients that ask for it (Proxy.cpp:209-222).       *)
THEOREM OneFetchPerResource == Spec => []SingleFlight
<1>1. Inv => SingleFlight
  BY DEF Inv
<1>. QED  BY <1>1, Invariance, PTL

(* A connected client whose request was taken is being answered or is in the    *)
(* set that a server connection will answer (Proxy.cpp:212-222, 271-280).       *)
THEOREM NoWaiterIsLost == Spec => []NoOrphanedWaiter
<1>1. Inv => NoOrphanedWaiter
  BY DEF Inv
<1>. QED  BY <1>1, Invariance, PTL

================================================================================
