-------------------------------- MODULE MCProxy --------------------------------
(***************************************************************************)
(* Small instances of Proxy for TLC.                                       *)
(***************************************************************************)
EXTENDS ProxyRefinement

CONSTANTS KeyA, KeyB, Host1, Host2

Symmetry == Permutations(Clients) \union Permutations(Servers)

(* ... where the two keys are asked for alike *)
KeySymmetry == Symmetry \union Permutations({KeyA, KeyB})

Asks(key, host) == [verdict |-> "WITHOUT_ERRORS", key |-> key, host |-> host]

Response(status, framed, parsed, n) ==
  [status |-> status, framed |-> framed, parsed |-> parsed, decidedAt |-> n]

(* Framed, not framed, one whose framing the parser misses, and one that is not *)
(* cached; one that is cached and one that is not; only one that is not; two    *)
(* that are and can be told apart, and one on which the parser throws.          *)
AllResponses ==
  {Response(200, TRUE, "ParsingCompleted", RespLen),
   Response(200, FALSE, "ParsingCompleted", 1),
   Response(200, TRUE, "ParsingCompleted", 1),
   Response(404, TRUE, "ParsingCompleted", RespLen)}
FoundOrNot ==
  {Response(200, TRUE, "ParsingCompleted", RespLen), Response(404, FALSE, "ParsingCompleted", 1)}
NotFound == {Response(404, FALSE, "ParsingCompleted", 1)}
Found ==
  {Response(200, TRUE, "ParsingCompleted", 1), Response(200, FALSE, "ParsingCompleted", 1),
   Response(200, FALSE, "ExceptionThrown", 1)}

(* One resource. *)
OneRequest == {Asks(KeyA, Host1)}

(* Two resources. *)
TwoRequests == {Asks(KeyA, Host1), Asks(KeyB, Host1)}

(* Two resources, a request the proxy refuses and one it does not survive. *)
MixedRequests ==
  TwoRequests \union [verdict : {"ERROR_405", "ExceptionThrown"}, key : {KeyA}, host : {Host1}]

(* GET /index.html of two hosts: "method uri" is the same. *)
SameUriOfTwoHosts == {Asks(KeyA, Host1), Asks(KeyA, Host2)}

================================================================================
