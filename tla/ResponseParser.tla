---------------------------- MODULE ResponseParser -----------------------------
(***************************************************************************)
(* HttpResponseParser over the answers of origins, and the one question    *)
(* ServerConnection asks it: when an origin has closed, does what arrived  *)
(* go to the cache?                                                        *)
(*                                                                         *)
(* The origin sends a well-formed answer to a GET or a HEAD, of the form   *)
(* this parser knows: one blank after a header's colon, letters and digits *)
(* in trailers. It may close after any character of it.                    *)
(* As in RequestParser the automaton is moved on with every input, though  *)
(* the code parses what has arrived once, at the end.                      *)
(***************************************************************************)
EXTENDS HttpParser, Integers

CONSTANTS
  MaxSize,      (* bound: the largest body and the largest chunk               *)
  MaxMistaken   (* bound: the largest size in a body taken for header lines    *)

(* There is room for what a well-formed answer announces.                       *)
ASSUME MaxSizeAssumption ==
  /\ MaxSize \in Nat \ {0} /\ MaxSize <= INT_MAX /\ MaxSize <= MaxReserve
  /\ MaxMistaken \in Nat

VARIABLES
  parser,    (* the parser after what has been received                          *)
  method,    (* what the origin answers to                                       *)
  at,        (* what of its answer the origin has sent                           *)
  status,    (* the digits of the status code so far                             *)
  phrase,    (* whether there is a reason phrase                                 *)
  framing,   (* how the origin tells where its answer ends                       *)
  swallowed, (* whether it tells so in the line after an empty reason phrase     *)
  left,      (* the size announced, as far as it has been sent; then the         *)
             (* characters of the body, or of the chunk, that are to come        *)
  connectionState

vars == <<parser, method, at, status, phrase, framing, swallowed, left, connectionState>>

ResponseMoves ==
  [ResponseStatusStart                 |-> On({"H"}, "ResponseHttpVersion_ht"),
   ResponseHttpVersion_ht              |-> On({"T"}, "ResponseHttpVersion_htt"),
   ResponseHttpVersion_htt             |-> On({"T"}, "ResponseHttpVersion_http"),
   ResponseHttpVersion_http            |-> On({"P"}, "ResponseHttpVersion_slash"),
   ResponseHttpVersion_slash           |-> On({"/"}, "ResponseHttpVersion_majorStart"),
   ResponseHttpVersion_majorStart      |-> On(Digits, "ResponseHttpVersion_major"),
   ResponseHttpVersion_major           |-> On({"."}, "ResponseHttpVersion_minorStart")
                                             ++ On(Digits, "ResponseHttpVersion_major"),
   ResponseHttpVersion_minorStart      |-> On(Digits, "ResponseHttpVersion_minor"),
   ResponseHttpVersion_minor           |-> On({" "}, "ResponseHttpVersion_statusCodeStart")
                                             ++ On(Digits, "ResponseHttpVersion_minor"),
   ResponseHttpVersion_statusCodeStart |-> On(Digits, "ResponseHttpVersion_statusCode"),
   ResponseHttpVersion_statusCode      |-> On({" "}, "ResponseHttpVersion_statusTextStart")
                                             ++ On(Digits, "ResponseHttpVersion_statusCode"),
   ResponseHttpVersion_statusTextStart |-> On(Char, "ResponseHttpVersion_statusText"),
   ResponseHttpVersion_statusText      |-> On({"\r"}, "ResponseHttpVersion_newLine")
                                             ++ On(Char, "ResponseHttpVersion_statusText"),
   ResponseHttpVersion_newLine         |-> On({"\n"}, "HeaderLineStart")]

Moves == ResponseMoves ++ SharedMoves

States == DOMAIN ResponseMoves \union SharedStates

(* A status code of less or more than three digits is an error where it ends. *)
WrongStatus(p, c) ==
  /\ p.state = "ResponseHttpVersion_statusCode"
  /\ c \notin Digits
  /\ p.statusCode \notin 100..999

NoteResponse(p, c) ==
  CASE p.state = "ResponseHttpVersion_statusCodeStart" /\ c \in Digits ->
         [p EXCEPT !.statusCode = DigitValue[c]]
    [] p.state = "ResponseHttpVersion_statusCode" /\ c \in Digits ->
         [p EXCEPT !.statusCode = 10 * @ + DigitValue[c]]
    [] OTHER -> p

NewResponseParser == NewParser("ResponseStatusStart") ++ [statusCode |-> 0]

(* length: what atoi() makes of the value of a header. *)
Consume(p, c, length) ==
  [Note(NoteResponse(p, c), c, length, TRUE) EXCEPT
     !.state = IF WrongStatus(p, c) THEN "ParsingError"
               ELSE IF Throws(p, c, length, TRUE) THEN "ExceptionThrown"
               ELSE Move(Moves, p, c)]

(* Mutant: the status alone decides. *)
StatusIs200(p) == p.statusCode = 200

IsResponseStatusIs200(p) == ParseResult(p) = "ParsingCompleted" /\ p.statusCode = 200

--------------------------------------------------------------------------------
(* The origin. Its answer is written one input at a time; at names the part it  *)
(* has come to. Where it goes on whatever it has sent before:                   *)

StatusLine ==
  [Nothing     |-> On({"H"}, "H"),
   H           |-> On({"T"}, "HT"),
   HT          |-> On({"T"}, "HTT"),
   HTT         |-> On({"P"}, "HTTP"),
   HTTP        |-> On({"/"}, "Slash"),
   Slash       |-> On(Digits, "Major"),
   Major       |-> On({"."}, "Dot"),
   Dot         |-> On(Digits, "Minor"),
   Minor       |-> On({" "}, "Code0"),
   Code3       |-> On({" "}, "PhraseStart"),
   PhraseStart |-> On({"\r"}, "EmptyPhrase"),
   EmptyPhrase |-> On({"\n"}, "FirstLine"),
   Phrase      |-> On({"\r"}, "PhraseEnd") ++ On(Text \ {"8bit"}, "Phrase"),
   PhraseEnd   |-> On({"\n"}, "Line")]

(* A header that says nothing of the body may be continued.                     *)
OtherName == On(Token \ {"Content-Length", "Transfer-Encoding"}, "Name")

Headers ==
  [FirstLine   |-> On({"\r"}, "HeadEnd") ++ OtherName,
   Line        |-> On({"\r"}, "HeadEnd") ++ OtherName,
   NextLine    |-> On({"\r"}, "HeadEnd") ++ On(Blank, "Fold") ++ OtherName,
   Name        |-> On({":"}, "Colon") ++ On(Token, "Name"),
   Colon       |-> On({" "}, "Value"),
   Value       |-> On({"\r"}, "ValueEnd") ++ On(Text, "Value"),
   ValueEnd    |-> On({"\n"}, "NextLine"),
   Fold        |-> On({"\r"}, "ValueEnd") ++ On(Blank, "Fold") ++ On(Text, "Value"),
   LengthName  |-> On({":"}, "LengthColon"),
   LengthColon |-> On({" "}, "LengthStart"),
   Length      |-> On({"\r"}, "FramingEnd"),
   CodingName  |-> On({":"}, "CodingColon"),
   CodingColon |-> On({" "}, "CodingStart"),
   CodingStart |-> On({"chunked"}, "Coding"),
   Coding      |-> On({"\r"}, "FramingEnd"),
   FramingEnd  |-> On({"\n"}, "Line")]

Chunks ==
  [Size           |-> On({"\r"}, "SizeEnd") ++ On({";"}, "Extension"),
   Extension      |-> On({"\r"}, "SizeEnd") ++ On({"="}, "ExtensionValue")
                        ++ On(Alnum \union {" "}, "Extension"),
   ExtensionValue |-> On({"\r"}, "SizeEnd") ++ On(Alnum \union {" "}, "ExtensionValue"),
   ChunkDone      |-> On({"\r"}, "ChunkEnd"),
   ChunkEnd       |-> On({"\n"}, "SizeStart"),
   Trailer        |-> On({"\r"}, "TrailerEnd") ++ On(Alpha, "TrailerName"),
   TrailerName    |-> On({":"}, "TrailerValue") ++ On(Alnum, "TrailerName"),
   TrailerValue   |-> On({"\r"}, "TrailerValueEnd") ++ On(Alnum \union {" "}, "TrailerValue"),
   TrailerEnd     |-> On({"\n"}, "Sent")]

Grammar == StatusLine ++ Headers ++ Chunks

Init ==
  /\ parser = NewResponseParser
  /\ method \in {"GET", "HEAD"}
  /\ at = "Nothing"
  /\ status = 0
  /\ phrase = FALSE
  /\ framing = "none"
  /\ swallowed = FALSE
  /\ left = 0
  /\ connectionState = "RECEIVING_ANSWER"

Open == connectionState = "RECEIVING_ANSWER"

(* The origin sends the next character, and the proxy receives it.              *)
Sends(c, next) ==
  /\ Open
  /\ \E length \in Lengths(parser.number) : parser' = Consume(parser, c, length)
  /\ at' = next
  /\ UNCHANGED <<method, connectionState>>

GoesOn ==
  /\ at \in DOMAIN Grammar
  /\ \E c \in DOMAIN Grammar[at] : Sends(c, Grammar[at][c])
  /\ UNCHANGED <<status, phrase, framing, swallowed, left>>

SendsCode ==
  \E d \in Digits :
    /\ \/ at = "Code0" /\ d = "2" /\ Sends(d, "Code1")
       \/ at = "Code1" /\ Sends(d, "Code2")
       \/ at = "Code2" /\ Sends(d, "Code3")
    /\ status' = 10 * status + DigitValue[d]
    /\ UNCHANGED <<phrase, framing, swallowed, left>>

SendsPhrase ==
  /\ at = "PhraseStart"
  /\ \E c \in Text \ {"8bit"} : Sends(c, "Phrase")
  /\ phrase' = TRUE
  /\ UNCHANGED <<status, framing, swallowed, left>>

(* The origin tells where its answer ends. *)
Announces ==
  /\ at \in {"FirstLine", "Line", "NextLine"}
  /\ framing = "none"
  /\ \/ Sends("Content-Length", "LengthName") /\ framing' = "length"
     \/ Sends("Transfer-Encoding", "CodingName") /\ framing' = "chunked"
  /\ swallowed' = (at = "FirstLine")
  /\ UNCHANGED <<status, phrase, left>>

(* The next digit of a size, in the body's header or before a chunk. *)
SendsDigit(d, base, next) ==
  /\ left' = base * left + DigitValue[d]
  /\ left' <= MaxSize
  /\ Sends(d, next)
  /\ UNCHANGED <<status, phrase, framing, swallowed>>

HexDigits == {"0", "1", "2", "a"}

SendsSize ==
  \/ at \in {"LengthStart", "Length"} /\ \E d \in Digits : SendsDigit(d, 10, "Length")
  \/ at \in {"SizeStart", "Size"} /\ \E d \in HexDigits : SendsDigit(d, 16, "Size")

(* The answer to a HEAD ends with the head, whatever that announces.            *)
EndsHeaders ==
  /\ at = "HeadEnd"
  /\ Sends("\n", IF method = "HEAD" THEN "Sent"
                 ELSE IF framing = "chunked" THEN "SizeStart"
                 ELSE IF left > 0 THEN "Body" ELSE "Sent")
  /\ UNCHANGED <<status, phrase, framing, swallowed, left>>

EndsSize ==
  /\ at = "SizeEnd"
  /\ Sends("\n", IF left > 0 THEN "Chunk" ELSE "Trailer")
  /\ UNCHANGED <<status, phrase, framing, swallowed, left>>

EndsTrailerLine ==
  /\ at = "TrailerValueEnd"
  /\ Sends("\n", "Trailer")
  /\ UNCHANGED <<status, phrase, framing, swallowed, left>>

(* Any character may be part of a body. *)
SendsData ==
  /\ \E c \in Inputs :
       \/ at = "Body" /\ Sends(c, IF left = 1 THEN "Sent" ELSE "Body")
       \/ at = "Chunk" /\ Sends(c, IF left = 1 THEN "ChunkDone" ELSE "Chunk")
  /\ left' = left - 1
  /\ UNCHANGED <<status, phrase, framing, swallowed>>

(* Without framing, the body goes on until the origin closes. The parser has    *)
(* completed before it, or takes it for header lines: after an empty phrase an  *)
(* empty line is no end of the head either.                                     *)
SendsRest ==
  /\ \/ at = "Rest"
     \/ at = "Sent" /\ framing = "none" /\ method = "GET"
  /\ \E c \in Inputs : Sends(c, "Rest")
  /\ parser'.number.n <= MaxMistaken /\ parser'.chunkSizeStr.n <= MaxMistaken
  /\ UNCHANGED <<status, phrase, framing, swallowed, left>>

(* The origin closes, at the end of its answer or before: recv() returns 0, and *)
(* what has arrived is parsed. Nobody catches what content.reserve() throws.    *)
Closes ==
  /\ Open
  /\ connectionState' = IF parser.state = "ExceptionThrown" THEN "PROCESS_TERMINATED"
                        ELSE IF IsResponseStatusIs200(parser) THEN "CACHING_ANSWER_RECEIVED"
                        ELSE "NOT_CACHING_ANSWER_RECEIVED"
  /\ UNCHANGED <<parser, method, at, status, phrase, framing, swallowed, left>>

(* The connection is shut down, or the process has ended. *)
Closed == ~Open /\ UNCHANGED vars

Next ==
  \/ GoesOn
  \/ SendsCode
  \/ SendsPhrase
  \/ Announces
  \/ SendsSize
  \/ EndsHeaders
  \/ EndsSize
  \/ EndsTrailerLine
  \/ SendsData
  \/ SendsRest
  \/ Closes
  \/ Closed

Spec == Init /\ [][Next]_vars

--------------------------------------------------------------------------------
(* Properties. *)

(* The parser holds values of its kind; in particular contentSize and chunkSize,*)
(* unsigned and counted down before they are compared with 0, never wrap: a     *)
(* parser that goes on counts down no more than it has made room for, also      *)
(* where it takes a body for header lines, with lengths of any sign.            *)
TypeOK ==
  /\ parser.state \in States
  /\ parser.contentSize \in 0..SIZE_MAX /\ parser.chunkSize \in 0..SIZE_MAX
  /\ parser.state # "ExceptionThrown" =>
       parser.contentSize <= MaxReserve /\ parser.chunkSize <= MaxReserve
  /\ parser.chunked \in BOOLEAN
  /\ parser.statusCode \in Nat

(* The origin has sent its answer, as far as its answer has an end.             *)
Whole == at \in {"Sent", "Rest"}

(* The body a head announces and an answer to a HEAD does not have. *)
AnnouncedOnly == method = "HEAD" /\ (framing = "chunked" \/ left > 0)

(* An answer of which a part is missing never goes to the cache, wherever in    *)
(* its head, body, chunks or trailers the origin closed, nor does one of        *)
(* another status than 200, nor an answer to a HEAD that announces the body a   *)
(* GET would have: the parser is not told the method and waits for that body.   *)
(* Except that, where the line that tells how the answer ends follows an empty  *)
(* reason phrase, the parser takes the carriage return of the status line for   *)
(* the phrase and that line for the rest of it, and any part of the body will   *)
(* do (ServerConnection.cpp:52-60, 79; httpresponseparser.h:140-156, 248-256).  *)
CachesOnlyWhole ==
  connectionState = "CACHING_ANSWER_RECEIVED" =>
    status = 200 /\ (swallowed \/ (Whole /\ ~AnnouncedOnly))

(* Every other answer of status 200 that has a reason phrase and has arrived    *)
(* whole goes to the cache, with whatever in its body, its headers, chunk       *)
(* extensions and trailers; and no answer that has a phrase ever ends the       *)
(* process, whole or cut off: the parser reads no length in it for which        *)
(* content.reserve() throws (ServerConnection.cpp:52-60, 79;                    *)
(* httpresponseparser.h:206-230, 260-370).                                      *)
CachesEveryWhole ==
  /\ connectionState = "NOT_CACHING_ANSWER_RECEIVED" /\ Whole
       => status # 200 \/ ~phrase \/ AnnouncedOnly
  /\ connectionState = "PROCESS_TERMINATED" => ~phrase

================================================================================
