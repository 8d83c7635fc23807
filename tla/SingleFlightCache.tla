--------------------------- MODULE SingleFlightCache ---------------------------
(***************************************************************************)
(* What the proxy promises its clients, without sockets, slots, passes and *)
(* iterators: a cache that fetches a resource once for all who ask for it. *)
(*                                                                         *)
(* A request is answered in one step. Either at once -- it is refused, the *)
(* resource is cached, or its origin cannot be reached -- or when the      *)
(* fetch of the resource ends, together with everybody else's who waits    *)
(* for it.                                                                 *)
(***************************************************************************)
EXTENDS Messages

CONSTANTS
  Clients,   (* those who ask                                                  *)
  NoAnswer   (* what a client has that has not been answered                   *)

VARIABLES
  asked,     (* the request of each client, NoRequest before it has asked      *)
  given,     (* the answer of each client                                      *)
  fetching,  (* the keys of the resources that are being fetched               *)
  cache      (* the answers kept, by key                                       *)

vars == <<asked, given, fetching, cache>>

Init ==
  /\ asked = [c \in Clients |-> NoRequest]
  /\ given = [c \in Clients |-> NoAnswer]
  /\ fetching = {}
  /\ cache = [k \in {} |-> GatewayTimeout]

(* c asks; answer is NoAnswer if it has to wait. *)
Asks(c, request, answer) ==
  /\ asked[c] = NoRequest
  /\ asked' = [asked EXCEPT ![c] = request]
  /\ given' = [given EXCEPT ![c] = answer]

IsValid(request) == request.verdict = "WITHOUT_ERRORS"

(* (A request on which the parser throws is the end of the process.)            *)
Refuse(c, request) ==
  /\ request.verdict \in DOMAIN ErrorStatusOf
  /\ Asks(c, request, ErrorMessage(ErrorStatusOf[request.verdict]))
  /\ UNCHANGED <<fetching, cache>>

Hit(c, request) ==
  /\ IsValid(request)
  /\ request.key \in DOMAIN cache
  /\ Asks(c, request, cache[request.key])
  /\ UNCHANGED <<fetching, cache>>

Join(c, request) ==
  /\ IsValid(request)
  /\ request.key \in fetching
  /\ Asks(c, request, NoAnswer)
  /\ UNCHANGED <<fetching, cache>>

IsMiss(request) ==
  IsValid(request) /\ request.key \notin fetching /\ request.key \notin DOMAIN cache

Fetch(c, request) ==
  /\ IsMiss(request)
  /\ Asks(c, request, NoAnswer)
  /\ fetching' = fetching \union {request.key}
  /\ UNCHANGED cache

(* The origin cannot be reached. *)
FetchFails(c, request) ==
  /\ IsMiss(request)
  /\ Asks(c, request, GatewayTimeout)
  /\ UNCHANGED <<fetching, cache>>

(* Those who wait for the resource. *)
Waits(c, key) == asked[c] # NoRequest /\ given[c] = NoAnswer /\ asked[c].key = key

(* What an origin may have answered when the fetch of a resource ends: all of   *)
(* an answer, a part of one, or nothing.                                        *)
AnswersOfOrigins(key) ==
  [status : OriginStatuses, framed : BOOLEAN, parsed : ParseResults, decidedAt : 1..RespLen,
   request : {r \in Requests : r.key = key}, len : 0..RespLen]

(* All of an answer, as far as the parser can tell, and of status 200.          *)
IsToBeKept(answer) ==
  answer # GatewayTimeout /\ ParseResult(answer) = "ParsingCompleted" /\ answer.status = 200

(* Everybody who waits for the resource is given the same answer, and it is     *)
(* kept if and only if it is to be kept.                                        *)
Deliver(key, answer) ==
  /\ given' = [c \in Clients |-> IF Waits(c, key) THEN answer ELSE given[c]]
  /\ cache' = IF IsToBeKept(answer)
              THEN [k \in DOMAIN cache \union {key} |-> IF k = key THEN answer ELSE cache[k]]
              ELSE cache

(* The fetch of a resource ends. *)
Complete(key) ==
  /\ fetching' = fetching \ {key}
  /\ \E answer \in {GatewayTimeout} \union AnswersOfOrigins(key) : Deliver(key, answer)
  /\ UNCHANGED asked

(* A client goes away, answered or not. *)
Leave(c) ==
  /\ asked[c] # NoRequest
  /\ asked' = [asked EXCEPT ![c] = NoRequest]
  /\ given' = [given EXCEPT ![c] = NoAnswer]
  /\ UNCHANGED <<fetching, cache>>

Ask(c, request) ==
  \/ Refuse(c, request)
  \/ Hit(c, request)
  \/ Join(c, request)
  \/ Fetch(c, request)
  \/ FetchFails(c, request)

Next ==
  \/ \E c \in Clients : \E request \in Requests : Ask(c, request)
  \/ \E c \in Clients : Leave(c)
  \/ \E key \in fetching : Complete(key)

Spec == Init /\ [][Next]_vars

================================================================================
