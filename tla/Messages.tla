------------------------------- MODULE Messages --------------------------------
(***************************************************************************)
(* What travels over the sockets, reduced to what the proxy's decisions    *)
(* depend on: a request is the verdict of its validation, the key          *)
(* "method uri" it is cached under and its Host; an answer is its status,  *)
(* whether it is framed, what the response parser makes of it, the request *)
(* it answers and how much of it there is.                                 *)
(***************************************************************************)
EXTENDS Naturals

CONSTANTS
  Requests,   (* the requests clients send: records [verdict, key, host]       *)
  NoRequest,  (* the request of a connection that has not sent one             *)
  ReqLen,     (* pieces a request is received and forwarded in; the last one   *)
              (* ends in the empty line                                        *)
  Responses,  (* the answers origins give: some of ResponseRecords             *)
  RespLen     (* pieces an origin's complete answer consists of; the first one *)
              (* holds its status line and headers                             *)

(* The outcomes of parseRequestAndCheckValidity(): a ClientRequestErrors value, *)
(* or the parser's ExceptionThrown, which nobody catches.                       *)
Verdicts == {"WITHOUT_ERRORS", "ERROR_400", "ERROR_405", "ERROR_501", "ExceptionThrown"}

(* Where the response parser ends up. One that never gets to an end fails.      *)
ParseResults == {"ParsingCompleted", "ParsingError", "ExceptionThrown"}

(* 200, and 404 for every other status.                                         *)
OriginStatuses == {200, 404}

(* framed: a Content-Length or chunks tell where the answer ends; where nothing *)
(* does, it ends where the origin closes. parsed, decidedAt: the parser, which  *)
(* reads from left to right, comes to that end with that piece, whatever        *)
(* follows. It completes with the last piece of an answer that is framed and    *)
(* with the first of one that is not -- or where it has missed the framing.     *)
ResponseRecords ==
  [status : OriginStatuses, framed : BOOLEAN, parsed : ParseResults, decidedAt : 1..RespLen]

ASSUME MessagesAssumption ==
  /\ \A r \in Requests : r.verdict \in Verdicts
  /\ NoRequest \notin Requests
  /\ Responses \subseteq ResponseRecords
  /\ ReqLen \in Nat \ {0}
  /\ RespLen \in Nat \ {0}

Keys == {r.key : r \in Requests}

ErrorStatuses == {400, 405, 501, 504}

Answers ==
  [status    : OriginStatuses \union ErrorStatuses,
   framed    : BOOLEAN,
   parsed    : ParseResults,
   decidedAt : 1..RespLen,
   request   : Requests \union {NoRequest},
   len       : 0..RespLen]

(* ERROR_MESSAGE_400 ... ERROR_MESSAGE_504: answers of the proxy itself. *)
ErrorMessage(status) ==
  [status |-> status, framed |-> FALSE, parsed |-> "ParsingCompleted", decidedAt |-> 1,
   request |-> NoRequest, len |-> 1]

ErrorStatusOf ==
  [ERROR_400 |-> 400, ERROR_405 |-> 405, ERROR_501 |-> 501]

GatewayTimeout == ErrorMessage(504)

(* What the proxy holds after receiving the first len pieces of an answer. *)
OriginAnswer(response, request, len) ==
  [status |-> response.status, framed |-> response.framed, parsed |-> response.parsed,
   decidedAt |-> response.decidedAt, request |-> request, len |-> len]

(* What the parser makes of the first len pieces of an answer.                  *)
ParseResult(answer) ==
  IF answer.len >= answer.decidedAt THEN answer.parsed ELSE "ParsingIncompleted"

================================================================================
