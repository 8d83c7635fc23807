----------------------------- MODULE RequestParser -----------------------------
(***************************************************************************)
(* HttpRequestParser over whatever a client sends, and what                *)
(* ClientConnection makes of it: receiveRequest() appends what recv()      *)
(* returns and has everything parsed when the text ends in an empty line.  *)
(*                                                                         *)
(* parse() starts anew on the whole text each time; since it reads from    *)
(* left to right and is only asked once, the automaton is moved on with    *)
(* every input instead.                                                    *)
(***************************************************************************)
EXTENDS HttpParser, Integers

VARIABLES
  parser,          (* the parser after what has been received                  *)
  end,             (* how much of an empty line, four characters with the end  *)
                   (* of the line before, the text ends in                     *)
  heads,           (* how often the text has ended in an empty line, up to 2   *)
  connectionState, requestValidatorState

vars == <<parser, end, heads, connectionState, requestValidatorState>>

RequestMoves ==
  [RequestMethodStart             |-> On(Token, "RequestMethod"),
   RequestMethod                  |-> On({" "}, "RequestUriStart") ++ On(Token, "RequestMethod"),
   RequestUriStart                |-> On(Text, "RequestUri"),
   RequestUri                     |-> On({" "}, "RequestHttpVersion_h")
                                        ++ On({"\r"}, "ParsingCompleted") ++ On(Text, "RequestUri"),
   RequestHttpVersion_h           |-> On({"H"}, "RequestHttpVersion_ht"),
   RequestHttpVersion_ht          |-> On({"T"}, "RequestHttpVersion_htt"),
   RequestHttpVersion_htt         |-> On({"T"}, "RequestHttpVersion_http"),
   RequestHttpVersion_http        |-> On({"P"}, "RequestHttpVersion_slash"),
   RequestHttpVersion_slash       |-> On({"/"}, "RequestHttpVersion_majorStart"),
   RequestHttpVersion_majorStart  |-> On(Digits, "RequestHttpVersion_major"),
   RequestHttpVersion_major       |-> On({"."}, "RequestHttpVersion_minorStart")
                                        ++ On(Digits, "RequestHttpVersion_major"),
   RequestHttpVersion_minorStart  |-> On(Digits, "RequestHttpVersion_minor"),
   RequestHttpVersion_minor       |-> On({"\r"}, "ResponseHttpVersion_newLine")
                                        ++ On(Digits, "RequestHttpVersion_minor"),
   ResponseHttpVersion_newLine    |-> On({"\n"}, "HeaderLineStart")]

Moves == RequestMoves ++ SharedMoves

States == DOMAIN RequestMoves \union SharedStates

(* Methods whose requests the parser expects a body of. *)
MayHaveBody(p) == p.method = "POST"

(* The fields only a request has: the method, and whether a header is named     *)
(* Host.                                                                        *)
NoteRequest(p, c) ==
  CASE p.state \in {"RequestMethodStart", "RequestMethod"} /\ c # " " ->
         [p EXCEPT !.method = Push(@, c)]
    [] p.state = "HeaderName" /\ c = ":" /\ p.name = "Host" -> [p EXCEPT !.hasHost = TRUE]
    [] OTHER -> p

NewRequestParser ==
  NewParser("RequestMethodStart") ++ [method |-> "", hasHost |-> FALSE]

(* length: what atoi() makes of the value of a header. *)
Consume(p, c, length) ==
  [Note(NoteRequest(p, c), c, length, MayHaveBody(p)) EXCEPT
     !.state = IF Throws(p, c, length, MayHaveBody(p)) THEN "ExceptionThrown"
               ELSE Move(Moves, p, c)]

--------------------------------------------------------------------------------

(* How much of \r\n\r\n a text ends in, if it was n before input c.             *)
EndAfter(n, c) ==
  CASE c = "\r" -> IF n \in {2, 4} THEN 3 ELSE 1
    [] c = "\n" -> IF n \in {1, 3} THEN n + 1 ELSE 0
    [] OTHER    -> 0

EmptyLine == 4

Init ==
  /\ parser = NewRequestParser
  /\ end = 0
  /\ heads = 0
  /\ connectionState = "WAITING_FOR_REQUEST"
  /\ requestValidatorState = ""

Receiving == connectionState \in {"WAITING_FOR_REQUEST", "RECEIVING_REQUEST"}

(* The next of the inputs that a recv() returns. *)
Arrives(c) ==
  /\ Receiving
  /\ \E length \in Lengths(parser.number) : parser' = Consume(parser, c, length)
  /\ end' = EndAfter(end, c)
  /\ heads' = IF end' = EmptyLine /\ heads < 2 THEN heads + 1 ELSE heads
  /\ UNCHANGED <<connectionState, requestValidatorState>>

(* The recv() ends here, and the request does not. *)
RequestGoesOn ==
  /\ Receiving
  /\ parser # NewRequestParser
  /\ end # EmptyLine
  /\ connectionState' = "RECEIVING_REQUEST"
  /\ UNCHANGED <<parser, end, heads, requestValidatorState>>

Refuse(error) ==
  /\ connectionState' = "WRONG_REQUEST"
  /\ requestValidatorState' = error

(* The recv() ends here and the text in an empty line: what                     *)
(* parseRequestAndCheckValidity() does.                                         *)
CheckValidity ==
  \/ ParseResult(parser) # "ParsingCompleted" /\ Refuse("ERROR_501")
  \/ /\ ParseResult(parser) = "ParsingCompleted"
     /\ \/ parser.method # "GET" /\ Refuse("ERROR_405")
        \/ parser.method = "GET" /\ ~parser.hasHost /\ Refuse("ERROR_400")
        \/ /\ parser.method = "GET"
           /\ parser.hasHost
           /\ connectionState' = "PROCESSING_REQUEST"
           /\ requestValidatorState' = "WITHOUT_ERRORS"

RequestEnds ==
  /\ Receiving
  /\ end = EmptyLine
  /\ parser.state # "ExceptionThrown"
  /\ CheckValidity
  /\ UNCHANGED <<parser, end, heads>>

(* Nobody catches what content.reserve() throws: the process ends. *)
ParsingThrows ==
  /\ Receiving
  /\ end = EmptyLine
  /\ parser.state = "ExceptionThrown"
  /\ connectionState' = "PROCESS_TERMINATED"
  /\ UNCHANGED <<parser, end, heads, requestValidatorState>>

(* The request has been decided on, or the process has ended. *)
Decided == ~Receiving /\ UNCHANGED vars

Next ==
  \/ \E c \in Inputs : Arrives(c)
  \/ RequestGoesOn
  \/ RequestEnds
  \/ ParsingThrows
  \/ Decided

Spec == Init /\ [][Next]_vars

--------------------------------------------------------------------------------
(* Properties. *)

(* The parser and the validation of ClientConnection hold values of their kind. *)
(* In particular a parser that goes on counts down no more than it has made room*)
(* for: neither does a negative length, or one that is no int, become a body    *)
(* that nothing ends, nor does a counter wrap.                                  *)
TypeOK ==
  /\ parser.state \in States
  /\ parser.contentSize \in 0..SIZE_MAX /\ parser.chunkSize \in 0..SIZE_MAX
  /\ parser.state # "ExceptionThrown" =>
       parser.contentSize <= MaxReserve /\ parser.chunkSize <= MaxReserve
  /\ parser.chunked \in BOOLEAN /\ parser.hasHost \in BOOLEAN
  /\ connectionState \in {"WAITING_FOR_REQUEST", "RECEIVING_REQUEST",
                          "PROCESSING_REQUEST", "WRONG_REQUEST", "PROCESS_TERMINATED"}
  /\ requestValidatorState = "WITHOUT_ERRORS" <=> connectionState = "PROCESSING_REQUEST"

(* The two places that look for the end of a request agree: once the text has   *)
(* contained an empty line, the parser has decided, unless it is reading a      *)
(* body. So no request without a body is refused only because the parser        *)
(* wants more of it (ClientConnection.cpp:97-103, 26-31).                       *)
EmptyLineDecides ==
  heads > 0 /\ parser.state \notin FinalStates => MayHaveBody(parser)

(* A client ends the process only by a request whose method has a body: no      *)
(* length, size of a chunk or other text of any other request makes             *)
(* content.reserve() throw (httprequestparser.h:206-216, 300-303).              *)
OnlyBodiesTerminate == connectionState = "PROCESS_TERMINATED" => MayHaveBody(parser)

(* A parser that completes a message without a body does so at its first empty  *)
(* line, so that what it knows of the request is all of the head and nothing    *)
(* after it -- or at the end of an HTTP/0.9 request line.                       *)
CompletedAtEmptyLine ==
  [][parser.state \notin FinalStates /\ parser'.state = "ParsingCompleted" /\ ~MayHaveBody(parser)
       => \/ end' = EmptyLine /\ heads = 0
          \/ parser.state = "RequestUri"]_vars

================================================================================
