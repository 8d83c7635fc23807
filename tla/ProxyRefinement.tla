---------------------------- MODULE ProxyRefinement ----------------------------
(***************************************************************************)
(* Proxy implements SingleFlightCache. Of the connection objects only what *)
(* a connected client can tell counts: an object that a departed client    *)
(* left in a set of waiting clients is answered like the others, and       *)
(* nobody sees it.                                                         *)
(***************************************************************************)
EXTENDS ProxyInvariant

(* The request that was taken from each client. *)
Asked ==
  LET connected == ToSet(clientsConnections)
  IN  [c \in Clients |-> IF c \in connected THEN client[c].request ELSE NoRequest]

(* The answer each client is being sent. *)
Given ==
  LET connected == ToSet(clientsConnections)
  IN  [c \in Clients |->
         IF c \in connected /\ client[c].connectionState = "RECEIVING_ANSWER"
         THEN client[c].sendAnswerBuf ELSE NoBuf]

Flight == INSTANCE SingleFlightCache
            WITH NoAnswer <- NoBuf, asked <- Asked, given <- Given,
                 fetching <- DOMAIN clientsWaitingForResponse, cache <- cacheStorage

(* To its clients the proxy is that cache: whatever the order in which they     *)
(* ask, leave and come back while answers arrive, origins fail and passes skip  *)
(* or repeat connections, each step of the thread refuses, answers or enrols    *)
(* one request, or ends one fetch for all who wait for it and keeps exactly the *)
(* whole answers of status 200, or is none of their business                    *)
(* (Proxy.cpp:174-229, 252-288).                                                *)
ImplementsSingleFlightCache == Flight!Spec

================================================================================
