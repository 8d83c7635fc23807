-------------------------- MODULE ResponseParserProofs -------------------------
(***************************************************************************)
(* The response parser holds values of its kind, whatever arrives, and     *)
(* what it says when the origin closes is right: an answer goes to the     *)
(* cache only if it is whole, and every whole one of status 200 does. Both *)
(* for every bound on the sizes.                                           *)
(*                                                                         *)
(* The invariant behind the last two says how the parser follows the       *)
(* origin: for each part of the answer the origin may have come to, the    *)
(* state the parser is in and what it has noted (FollowsInv).              *)
(***************************************************************************)
EXTENDS ResponseParser, HttpParserProofs

ResponseStates ==
  {"ResponseStatusStart", "ResponseHttpVersion_ht", "ResponseHttpVersion_htt",
   "ResponseHttpVersion_http", "ResponseHttpVersion_slash", "ResponseHttpVersion_majorStart",
   "ResponseHttpVersion_major", "ResponseHttpVersion_minorStart", "ResponseHttpVersion_minor",
   "ResponseHttpVersion_statusCodeStart", "ResponseHttpVersion_statusCode", "ResponseHttpVersion_statusTextStart",
   "ResponseHttpVersion_statusText", "ResponseHttpVersion_newLine"}

ResponseInv ==
  /\ DOMAIN parser = Fields \union {"statusCode"}
  /\ parser.state \in States
  /\ CountersInv(parser)
  /\ parser.statusCode \in Nat

--------------------------------------------------------------------------------
(* The status line leads to its own states and to the headers. *)
LEMMA ResponseMove ==
  ASSUME NEW s \in ResponseStates, NEW c \in DOMAIN ResponseMoves[s]
  PROVE  ResponseMoves[s][c] \in ResponseStates \union {"HeaderLineStart"}
<1>1. CASE s = "ResponseStatusStart"
  <2>1. ResponseMoves[s] = On({"H"}, "ResponseHttpVersion_ht")
    BY <1>1 DEF ResponseMoves
  <2>. QED  BY <2>1 DEF On, ResponseStates
<1>2. CASE s = "ResponseHttpVersion_ht"
  <2>1. ResponseMoves[s] = On({"T"}, "ResponseHttpVersion_htt")
    BY <1>2 DEF ResponseMoves
  <2>. QED  BY <2>1 DEF On, ResponseStates
<1>3. CASE s = "ResponseHttpVersion_htt"
  <2>1. ResponseMoves[s] = On({"T"}, "ResponseHttpVersion_http")
    BY <1>3 DEF ResponseMoves
  <2>. QED  BY <2>1 DEF On, ResponseStates
<1>4. CASE s = "ResponseHttpVersion_http"
  <2>1. ResponseMoves[s] = On({"P"}, "ResponseHttpVersion_slash")
    BY <1>4 DEF ResponseMoves
  <2>. QED  BY <2>1 DEF On, ResponseStates
<1>5. CASE s = "ResponseHttpVersion_slash"
  <2>1. ResponseMoves[s] = On({"/"}, "ResponseHttpVersion_majorStart")
    BY <1>5 DEF ResponseMoves
  <2>. QED  BY <2>1 DEF On, ResponseStates
<1>6. CASE s = "ResponseHttpVersion_majorStart"
  <2>1. ResponseMoves[s] = On(Digits, "ResponseHttpVersion_major")
    BY <1>6 DEF ResponseMoves
  <2>. QED  BY <2>1 DEF On, ResponseStates
<1>7. CASE s = "ResponseHttpVersion_major"
  <2>1. ResponseMoves[s] = On({"."}, "ResponseHttpVersion_minorStart")
                             ++ On(Digits, "ResponseHttpVersion_major")
    BY <1>7 DEF ResponseMoves
  <2>. QED  BY <2>1 DEF On, ++, ResponseStates
<1>8. CASE s = "ResponseHttpVersion_minorStart"
  <2>1. ResponseMoves[s] = On(Digits, "ResponseHttpVersion_minor")
    BY <1>8 DEF ResponseMoves
  <2>. QED  BY <2>1 DEF On, ResponseStates
<1>9. CASE s = "ResponseHttpVersion_minor"
  <2>1. ResponseMoves[s] = On({" "}, "ResponseHttpVersion_statusCodeStart")
                             ++ On(Digits, "ResponseHttpVersion_minor")
    BY <1>9 DEF ResponseMoves
  <2>. QED  BY <2>1 DEF On, ++, ResponseStates
<1>10. CASE s = "ResponseHttpVersion_statusCodeStart"
  <2>1. ResponseMoves[s] = On(Digits, "ResponseHttpVersion_statusCode")
    BY <1>10 DEF ResponseMoves
  <2>. QED  BY <2>1 DEF On, ResponseStates
<1>11. CASE s = "ResponseHttpVersion_statusCode"
  <2>1. ResponseMoves[s] = On({" "}, "ResponseHttpVersion_statusTextStart")
                             ++ On(Digits, "ResponseHttpVersion_statusCode")
    BY <1>11 DEF ResponseMoves
  <2>. QED  BY <2>1 DEF On, ++, ResponseStates
<1>12. CASE s = "ResponseHttpVersion_statusTextStart"
  <2>1. ResponseMoves[s] = On(Char, "ResponseHttpVersion_statusText")
    BY <1>12 DEF ResponseMoves
  <2>. QED  BY <2>1 DEF On, ResponseStates
<1>13. CASE s = "ResponseHttpVersion_statusText"
  <2>1. ResponseMoves[s] = On({"\r"}, "ResponseHttpVersion_newLine")
                             ++ On(Char, "ResponseHttpVersion_statusText")
    BY <1>13 DEF ResponseMoves
  <2>. QED  BY <2>1 DEF On, ++, ResponseStates
<1>14. CASE s = "ResponseHttpVersion_newLine"
  <2>1. ResponseMoves[s] = On({"\n"}, "HeaderLineStart")
    BY <1>14 DEF ResponseMoves
  <2>. QED  BY <2>1 DEF On, ResponseStates
<1>. QED  BY <1>1, <1>2, <1>3, <1>4, <1>5, <1>6, <1>7,
             <1>8, <1>9, <1>10, <1>11, <1>12, <1>13, <1>14 DEF ResponseStates

LEMMA Kinds ==
  /\ DOMAIN ResponseMoves = ResponseStates
  /\ ResponseStates \intersect SharedStates = {}
  /\ States = ResponseStates \union HeaderStates \union ChunkStates
                \union DataStates \union FinalStates
<1>1. DOMAIN ResponseMoves = ResponseStates
  BY DEF ResponseMoves, ResponseStates
<1>2. ResponseStates \intersect SharedStates = {}
  BY KindsOfStates DEF ResponseStates, HeaderStates, ChunkStates, DataStates, FinalStates
<1>. QED  BY <1>1, <1>2, KindsOfStates DEF States

(* Where an input leads from any state; into the data of a body or of a chunk   *)
(* only where there is some.                                                    *)
LEMMA StateStep ==
  ASSUME NEW p, CountersInv(p), p.state \in States, NEW c
  PROVE  LET t == Move(Moves, p, c)
         IN  /\ t \in States
             /\ t = "ExceptionThrown" <=> p.state = "ExceptionThrown"
             /\ t = "Post" => \/ p.state = "Post" /\ p.contentSize > 1
                              \/ p.state = "ExpectingNewline_3" /\ p.contentSize > 0
             /\ t = "ChunkData" =>
                  \/ p.state = "ChunkData" /\ p.chunkSize > 1
                  \/ p.state = "ChunkSizeNewLine" /\ c = "\n" /\ p.chunkSizeStr.n > 0
<1>. DEFINE t == Move(Moves, p, c)
<1>1. /\ p.state \in FinalStates => t = p.state
      /\ p.state \in DataStates => t = DataMove(p, c)
      /\ p.state \in HeaderStates =>
           \/ t = "ParsingError"
           \/ c \in DOMAIN HeaderMoves[p.state] /\ t = HeaderMoves[p.state][c]
      /\ p.state \in ChunkStates =>
           \/ t = "ParsingError"
           \/ c \in DOMAIN ChunkMoves[p.state] /\ t = ChunkMoves[p.state][c]
      /\ p.state \in ResponseStates =>
           \/ t = "ParsingError"
           \/ c \in DOMAIN ResponseMoves[p.state] /\ t = ResponseMoves[p.state][c]
  <2>1. DOMAIN ResponseMoves \intersect SharedStates = {}
    BY Kinds
  <2>. DEFINE u == Move(ResponseMoves ++ SharedMoves, p, c)
  <2>2. t = u
    BY DEF t, Moves
  <2>3. /\ p.state \in FinalStates => u = p.state
        /\ p.state \in DataStates => u = DataMove(p, c)
        /\ p.state \in HeaderStates =>
             \/ u = "ParsingError"
             \/ c \in DOMAIN HeaderMoves[p.state] /\ u = HeaderMoves[p.state][c]
        /\ p.state \in ChunkStates =>
             \/ u = "ParsingError"
             \/ c \in DOMAIN ChunkMoves[p.state] /\ u = ChunkMoves[p.state][c]
        /\ p.state \in DOMAIN ResponseMoves =>
             \/ u = "ParsingError"
             \/ c \in DOMAIN ResponseMoves[p.state] /\ u = ResponseMoves[p.state][c]
    BY <2>1, MoveEffect, Zenon
  <2>. HIDE DEF t, u
  <2>. QED  BY <2>2, <2>3, Kinds
<1>. HIDE DEF t
<1>2. "ParsingError" \in FinalStates /\ {"Post", "ChunkData"} \subseteq DataStates
      /\ "ParsingCompleted" \in FinalStates /\ "HeaderLineStart" \in HeaderStates
      /\ {"ExpectingNewline_3", "ChunkSizeNewLine"} \subseteq DataStates
  BY DEF FinalStates, DataStates, HeaderStates
<1>3. CASE p.state \in DataStates
  <2>1. p.state # "ExceptionThrown"
    BY <1>3 DEF DataStates
  <2>. QED  BY <1>1, <1>2, <1>3, <2>1, DataMoveEffect, Kinds DEF t
<1>4. CASE p.state \notin DataStates
  <2>1. t \in ResponseStates \union HeaderStates \union ChunkStates \union FinalStates
                \union {"ExpectingNewline_3", "ChunkSizeNewLine"}
    <3>1. CASE p.state \in ResponseStates
      BY <1>1, <1>2, <3>1, ResponseMove
    <3>2. CASE p.state \in HeaderStates
      BY <1>1, <1>2, <3>2, HeaderMove
    <3>3. CASE p.state \in ChunkStates
      BY <1>1, <1>2, <3>3, ChunkMove
    <3>4. CASE p.state \in FinalStates
      BY <1>1, <3>4
    <3>. QED  BY <1>4, <3>1, <3>2, <3>3, <3>4, Kinds
  <2>2. t # "Post" /\ t # "ChunkData"
    BY <2>1 DEF ResponseStates, HeaderStates, ChunkStates, FinalStates
  <2>3. t = "ExceptionThrown" <=> p.state = "ExceptionThrown"
    <3>1. CASE p.state \in ResponseStates
      BY <1>1, <3>1, ResponseMove DEF ResponseStates
    <3>2. CASE p.state \in HeaderStates
      BY <1>1, <3>2, HeaderMove DEF HeaderStates
    <3>3. CASE p.state \in ChunkStates
      BY <1>1, <3>3, ChunkMove DEF ChunkStates
    <3>4. CASE p.state \in FinalStates
      BY <1>1, <3>4
    <3>. QED  BY <1>4, <3>1, <3>2, <3>3, <3>4, Kinds
  <2>. QED  BY <1>2, <2>1, <2>2, <2>3, Kinds DEF t
<1>. QED  BY <1>3, <1>4

(* The field only a response has. *)
LEMMA NoteResponseEffect ==
  ASSUME NEW p, DOMAIN p = Fields \union {"statusCode"}, p.statusCode \in Nat, NEW c
  PROVE  LET q == NoteResponse(p, c)
         IN  /\ DOMAIN q = DOMAIN p
             /\ \A x \in Fields : q[x] = p[x]
             /\ q.statusCode \in Nat
<1>. DEFINE q == NoteResponse(p, c)
<1>1. c \in Digits => DigitValue[c] \in Nat
  BY DEF DigitValue, Digits
<1>2. CASE p.state = "ResponseHttpVersion_statusCodeStart" /\ c \in Digits
  <2>1. q = [p EXCEPT !.statusCode = DigitValue[c]]
    BY <1>2 DEF NoteResponse
  <2>2. /\ DOMAIN q = DOMAIN p /\ q.statusCode = DigitValue[c]
        /\ \A x \in DOMAIN p \ {"statusCode"} : q[x] = p[x]
    BY <2>1
  <2>. QED  BY <1>1, <1>2, <2>2 DEF Fields
<1>3. CASE p.state = "ResponseHttpVersion_statusCode" /\ c \in Digits
  <2>1. q = [p EXCEPT !.statusCode = 10 * @ + DigitValue[c]]
    BY <1>3 DEF NoteResponse
  <2>2. /\ DOMAIN q = DOMAIN p /\ q.statusCode = 10 * p.statusCode + DigitValue[c]
        /\ \A x \in DOMAIN p \ {"statusCode"} : q[x] = p[x]
    BY <2>1
  <2>. QED  BY <1>1, <1>3, <2>2 DEF Fields
<1>4. CASE c \notin Digits \/ p.state \notin {"ResponseHttpVersion_statusCodeStart",
                                              "ResponseHttpVersion_statusCode"}
  <2>1. q = p
    BY <1>4 DEF NoteResponse
  <2>. QED  BY <2>1
<1>. QED  BY <1>2, <1>3, <1>4

LEMMA ConsumeEffect ==
  ASSUME NEW p, DOMAIN p = Fields \union {"statusCode"}, p.statusCode \in Nat,
         p.state \in States, CountersInv(p), NEW c, NEW length \in Lengths(p.number)
  PROVE  LET q == Consume(p, c, length)
         IN  /\ DOMAIN q = DOMAIN p /\ q.statusCode \in Nat
             /\ q.state = IF WrongStatus(p, c) THEN "ParsingError"
                          ELSE IF Throws(p, c, length, TRUE) THEN "ExceptionThrown"
                          ELSE Move(Moves, p, c)
             /\ q.state \in States /\ CountersInv(q)
<1>. DEFINE m == NoteResponse(p, c)
            b == TRUE
            n == Note(m, c, length, b)
            t == IF WrongStatus(p, c) THEN "ParsingError"
                 ELSE IF Throws(p, c, length, b) THEN "ExceptionThrown"
                 ELSE Move(Moves, p, c)
            q == Consume(p, c, length)
<1>1. DOMAIN m = DOMAIN p /\ (\A x \in Fields : m[x] = p[x]) /\ m.statusCode \in Nat
  BY NoteResponseEffect, Zenon
<1>2. q = [n EXCEPT !.state = t]
  BY Zenon DEF Consume
<1>3. /\ t \in States
      /\ t = "Post" => \/ p.state = "Post" /\ p.contentSize > 1
                       \/ p.state = "ExpectingNewline_3" /\ p.contentSize > 0
      /\ t = "ChunkData" =>
           \/ p.state = "ChunkData" /\ p.chunkSize > 1
           \/ p.state = "ChunkSizeNewLine" /\ c = "\n" /\ p.chunkSizeStr.n > 0
  <2>1. CASE WrongStatus(p, c)
    BY <2>1, Kinds DEF FinalStates
  <2>2. CASE ~WrongStatus(p, c) /\ Throws(p, c, length, b)
    BY <2>2, Kinds DEF FinalStates
  <2>3. CASE ~WrongStatus(p, c) /\ ~Throws(p, c, length, b)
    BY <2>3, StateStep
  <2>. QED  BY <2>1, <2>2, <2>3
<1>4. Throws(p, c, length, b) \/ p.state = "ExceptionThrown" => t = "ExceptionThrown"
  <2>1. Throws(p, c, length, b) => ~WrongStatus(p, c)
    BY DEF Throws, EndsValue, EndsSizeLine, WrongStatus
  <2>2. p.state = "ExceptionThrown" => ~WrongStatus(p, c) /\ Move(Moves, p, c) = "ExceptionThrown"
    BY StateStep DEF WrongStatus
  <2>. QED  BY <2>1, <2>2
<1>. HIDE DEF m, b, t, q
<1>5. b \in BOOLEAN
  BY Zenon DEF b
<1>6. /\ m.state = p.state /\ m.number = p.number /\ m.contentSize = p.contentSize
      /\ m.chunked = p.chunked /\ m.chunkSize = p.chunkSize /\ m.chunkSizeStr = p.chunkSizeStr
      /\ m.name = p.name
  BY <1>1 DEF Fields
<1>7. CountersInv(m) /\ Fields \subseteq DOMAIN m
  BY <1>1, <1>6 DEF CountersInv
<1>8. /\ t = "Post" => \/ m.state = "Post" /\ m.contentSize > 1
                       \/ m.state = "ExpectingNewline_3" /\ m.contentSize > 0
      /\ t = "ChunkData" =>
           \/ m.state = "ChunkData" /\ m.chunkSize > 1
           \/ m.state = "ChunkSizeNewLine" /\ c = "\n" /\ m.chunkSizeStr.n > 0
  BY <1>3, <1>6
<1>9. Throws(m, c, length, b) \/ m.state = "ExceptionThrown" => t = "ExceptionThrown"
  <2>1. Throws(m, c, length, b) = Throws(p, c, length, b)
    BY <1>6, Zenon DEF Throws, EndsValue, TellsLength, EndsSizeLine
  <2>. QED  BY <1>4, <1>6, <2>1
<1>10. CountersInv(q) /\ DOMAIN q = DOMAIN m /\ q.state = t
  <2>1. length \in Lengths(m.number) /\ MayLead(m, c, length, b, t)
    BY <1>6, <1>8, <1>9 DEF MayLead
  <2>2. PICK o, r : o = n /\ r = q
    OBVIOUS
  <2>3. o = Note(m, c, length, b) /\ r = [o EXCEPT !.state = t]
    BY <1>2, <2>2
  <2>. HIDE DEF n
  <2>4. CountersInv(r) /\ DOMAIN r = DOMAIN m /\ r.state = t
    BY <1>5, <1>7, <2>1, <2>3, CountersStep
  <2>. QED  BY <2>2, <2>4
<1>11. DOMAIN n = DOMAIN m /\ \A x \in DOMAIN m \ Fields : n[x] = m[x]
  BY <1>5, <1>7, NoteEffect
<1>. HIDE DEF n
<1>12. \A x \in DOMAIN m \ {"state"} : q[x] = n[x]
  BY <1>2, <1>11
<1>13. q.statusCode = m.statusCode
  BY <1>1, <1>11, <1>12 DEF Fields
<1>. QED  BY <1>1, <1>3, <1>10, <1>13 DEF q, t, b

--------------------------------------------------------------------------------
LEMMA ResponseInit == Init => ResponseInv
<1>. SUFFICES ASSUME Init PROVE ResponseInv
  OBVIOUS
<1>. DEFINE own == [statusCode |-> 0]
<1>1. DOMAIN own = {"statusCode"} /\ own.statusCode = 0
  OBVIOUS
<1>2. IsNewParser(parser, "ResponseStatusStart", own)
  <2>1. "ResponseStatusStart" \notin {"Post", "ChunkData"}
    OBVIOUS
  <2>2. IsNewParser(NewParser("ResponseStatusStart") ++ own, "ResponseStatusStart", own)
    BY <2>1, NewParserEffect, Zenon
  <2>3. parser = NewParser("ResponseStatusStart") ++ own
    BY Zenon DEF Init, NewResponseParser
  <2>. QED  BY <2>2, <2>3, Zenon
<1>. HIDE DEF own
<1>3. /\ DOMAIN parser = Fields \union DOMAIN own
      /\ parser.state = "ResponseStatusStart" /\ CountersInv(parser)
      /\ \A x \in DOMAIN own \ Fields : parser[x] = own[x]
  BY <1>2, Zenon DEF IsNewParser
<1>4. parser.statusCode = 0
  BY <1>1, <1>3 DEF Fields
<1>. QED  BY <1>1, <1>3, <1>4, Kinds DEF ResponseInv, ResponseStates

(* The parser is moved on by what the origin sends. *)
LEMMA SendsOrNot ==
  ASSUME [Next]_vars
  PROVE  (\E c, next : Sends(c, next)) \/ UNCHANGED <<parser, method, at, status, phrase, framing,
                                                     swallowed, left>>
<1>1. CASE GoesOn
  BY <1>1 DEF GoesOn
<1>2. CASE SendsCode \/ SendsPhrase \/ Announces \/ EndsHeaders \/ EndsSize \/ EndsTrailerLine
           \/ SendsData \/ SendsRest
  BY <1>2, Zenon DEF SendsCode, SendsPhrase, Announces, EndsHeaders, EndsSize, EndsTrailerLine,
            SendsData, SendsRest
<1>3. CASE SendsSize
  BY <1>3, Zenon DEF SendsSize, SendsDigit
<1>4. CASE Closes \/ Closed \/ UNCHANGED vars
  BY <1>4 DEF Closes, Closed, vars
<1>. QED  BY <1>1, <1>2, <1>3, <1>4 DEF Next

LEMMA ResponseInvariance == Spec => []ResponseInv
<1>1. ResponseInv /\ [Next]_vars => ResponseInv'
  <2>. SUFFICES ASSUME ResponseInv, [Next]_vars PROVE ResponseInv'
    OBVIOUS
  <2>1. CASE \E c, next : Sends(c, next)
    <3>1. PICK p : p = parser
      OBVIOUS
    <3>2. PICK c : \E length \in Lengths(p.number) : parser' = Consume(p, c, length)
      BY <2>1, <3>1 DEF Sends
    <3>3. PICK length \in Lengths(p.number) : parser' = Consume(p, c, length)
      BY <3>2
    <3>4. /\ DOMAIN parser' = Fields \union {"statusCode"} /\ parser'.statusCode \in Nat
          /\ parser'.state \in States /\ CountersInv(parser')
      BY <3>1, <3>3, ConsumeEffect DEF ResponseInv
    <3>. QED  BY <3>4 DEF ResponseInv
  <2>2. CASE UNCHANGED parser
    BY <2>2 DEF ResponseInv
  <2>. QED  BY <2>1, <2>2, SendsOrNot
<1>. QED  BY <1>1, ResponseInit, PTL DEF Spec

(* The parser of an answer holds values of its kind, whatever well-formed       *)
(* answer the origin sends, whatever lengths of any sign the parser reads in a  *)
(* body it takes for header lines, and wherever the origin stops. In particular *)
(* the counters of a body and of a chunk, unsigned and counted down before they *)
(* are compared with 0, never wrap: the parser goes on only where there was     *)
(* room for all it has to count (httpresponseparser.h:206-213, 243-270,         *)
(* 296-355).                                                                    *)
THEOREM ResponseTypeCorrectness == Spec => []TypeOK
<1>1. ResponseInv => TypeOK
  <2>. SUFFICES ASSUME ResponseInv PROVE TypeOK
    OBVIOUS
  <2>1. CountersInv(parser) /\ parser.state \in States /\ parser.statusCode \in Nat
    BY DEF ResponseInv
  <2>2. parser.chunked \in BOOLEAN
    BY <2>1, Zenon DEF CountersInv
  <2>3. /\ parser.contentSize \in 0..SIZE_MAX /\ parser.chunkSize \in 0..SIZE_MAX
        /\ parser.state # "ExceptionThrown" =>
             parser.contentSize <= MaxReserve /\ parser.chunkSize <= MaxReserve
    BY <2>1 DEF CountersInv
  <2>. QED  BY <2>1, <2>2, <2>3, Zenon DEF TypeOK
<1>. QED  BY <1>1, ResponseInvariance, PTL

--------------------------------------------------------------------------------
(* The parser follows the origin. Where it is, for each part of the answer the  *)
(* origin has come to: in the status line, in the rest of the head, in the two  *)
(* lines that announce a body, in the body.                                     *)

StatusAt ==
  [Nothing |-> "ResponseStatusStart",
   H       |-> "ResponseHttpVersion_ht",
   HT      |-> "ResponseHttpVersion_htt",
   HTT     |-> "ResponseHttpVersion_http",
   HTTP    |-> "ResponseHttpVersion_slash",
   Slash   |-> "ResponseHttpVersion_majorStart",
   Major   |-> "ResponseHttpVersion_major",
   Dot     |-> "ResponseHttpVersion_minorStart",
   Minor   |-> "ResponseHttpVersion_minor",
   Code0   |-> "ResponseHttpVersion_statusCodeStart",
   Code1   |-> "ResponseHttpVersion_statusCode",
   Code2   |-> "ResponseHttpVersion_statusCode",
   Code3   |-> "ResponseHttpVersion_statusCode"]

HeadAt ==
  [PhraseStart |-> "ResponseHttpVersion_statusTextStart",
   Phrase      |-> "ResponseHttpVersion_statusText",
   PhraseEnd   |-> "ResponseHttpVersion_newLine",
   Line        |-> "HeaderLineStart",
   NextLine    |-> "HeaderLineStart",
   Name        |-> "HeaderName",
   Colon       |-> "SpaceBeforeHeaderValue",
   Value       |-> "HeaderValue",
   ValueEnd    |-> "ExpectingNewline_2",
   Fold        |-> "HeaderLws",
   FramingEnd  |-> "ExpectingNewline_2",
   HeadEnd     |-> "ExpectingNewline_3"]

LengthAt ==
  [LengthName  |-> "HeaderName",
   LengthColon |-> "SpaceBeforeHeaderValue",
   LengthStart |-> "HeaderValue",
   Length      |-> "HeaderValue"]

CodingAt ==
  [CodingName  |-> "HeaderName",
   CodingColon |-> "SpaceBeforeHeaderValue",
   CodingStart |-> "HeaderValue",
   Coding      |-> "HeaderValue"]

BodyAt ==
  [Body            |-> "Post",
   SizeStart       |-> "ChunkSize",
   Size            |-> "ChunkSize",
   Extension       |-> "ChunkExtensionName",
   ExtensionValue  |-> "ChunkExtensionValue",
   SizeEnd         |-> "ChunkSizeNewLine",
   Chunk           |-> "ChunkData",
   ChunkDone       |-> "ChunkDataNewLine_1",
   ChunkEnd        |-> "ChunkDataNewLine_2",
   Trailer         |-> "ChunkSizeNewLine_2",
   TrailerName     |-> "ChunkTrailerName",
   TrailerValue    |-> "ChunkTrailerValue",
   TrailerValueEnd |-> "ChunkSizeNewLine",
   TrailerEnd      |-> "ChunkSizeNewLine_3"]

(* Where it is after an empty phrase: the end of the status line is the phrase. *)
MistakenAt ==
  [EmptyPhrase |-> "ResponseHttpVersion_statusText",
   FirstLine   |-> "ResponseHttpVersion_statusText",
   Name        |-> "ResponseHttpVersion_statusText",
   Colon       |-> "ResponseHttpVersion_statusText",
   Value       |-> "ResponseHttpVersion_statusText",
   ValueEnd    |-> "ResponseHttpVersion_newLine",
   HeadEnd     |-> "ResponseHttpVersion_newLine"]

LEMMA MovesAt ==
  /\ \A s \in ResponseStates : Moves[s] = ResponseMoves[s]
  /\ \A s \in HeaderStates : Moves[s] = HeaderMoves[s]
  /\ \A s \in ChunkStates : Moves[s] = ChunkMoves[s]
<1>1. /\ \A s \in DOMAIN ResponseMoves : Moves[s] = ResponseMoves[s]
      /\ \A s \in DOMAIN SharedMoves \ DOMAIN ResponseMoves : Moves[s] = SharedMoves[s]
  BY MergeAt, Zenon DEF Moves
<1>2. \A s \in HeaderStates \union ChunkStates : s \in DOMAIN SharedMoves \ DOMAIN ResponseMoves
  BY KindsOfStates, Domains, Kinds
<1>. QED  BY <1>1, <1>2, SharedMovesAt, Kinds

LEMMA GrammarAt ==
  /\ DOMAIN Grammar = DOMAIN StatusLine \union DOMAIN Headers \union DOMAIN Chunks
  /\ \A x \in DOMAIN StatusLine : Grammar[x] = StatusLine[x]
  /\ \A x \in DOMAIN Headers : Grammar[x] = Headers[x]
  /\ \A x \in DOMAIN Chunks : Grammar[x] = Chunks[x]
<1>1. /\ DOMAIN StatusLine \intersect DOMAIN Headers = {}
      /\ DOMAIN StatusLine \intersect DOMAIN Chunks = {}
      /\ DOMAIN Headers \intersect DOMAIN Chunks = {}
  BY DEF StatusLine, Headers, Chunks
<1>2. PICK f, g, h : f = StatusLine /\ g = Headers /\ h = Chunks
  OBVIOUS
<1>3. Grammar = (f ++ g) ++ h
  BY <1>2 DEF Grammar
<1>4. /\ DOMAIN (f ++ g) = DOMAIN f \union DOMAIN g
      /\ \A x \in DOMAIN f : (f ++ g)[x] = f[x]
      /\ \A x \in DOMAIN g \ DOMAIN f : (f ++ g)[x] = g[x]
  BY MergeAt
<1>5. /\ DOMAIN ((f ++ g) ++ h) = DOMAIN (f ++ g) \union DOMAIN h
      /\ \A x \in DOMAIN (f ++ g) : ((f ++ g) ++ h)[x] = (f ++ g)[x]
      /\ \A x \in DOMAIN h \ DOMAIN (f ++ g) : ((f ++ g) ++ h)[x] = h[x]
  BY MergeAt
<1>. QED  BY <1>1, <1>2, <1>3, <1>4, <1>5

(* The marks in a size line and a trailer are in no class the parser reads on.   *)
LEMMA Marks ==
  /\ ":" \notin Alnum /\ ";" \notin Alnum /\ "=" \notin Alnum
  /\ Blank \intersect Token = {} /\ "\r" \in Char
<1>1. ":" \notin Alnum /\ ";" \notin Alnum /\ "=" \notin Alnum
  BY DEF Alnum, Alpha, Letters, Digits, Words
<1>2. Token \intersect Blank = {}
  BY DEF Token, Blank, Special
<1>3. "\r" \in Char
  BY DEF Char, Inputs, Control
<1>. QED  BY <1>1, <1>2, <1>3

Framings == {"Content-Length", "Transfer-Encoding"}

(* In the status line, up to its code. *)
LEMMA StatusLineTable ==
  ASSUME NEW x \in DOMAIN StatusAt \intersect DOMAIN StatusLine, NEW c \in DOMAIN StatusLine[x]
  PROVE  LET s == StatusAt[x]  n == StatusLine[x][c]
         IN  /\ s \in ResponseStates /\ c \in DOMAIN ResponseMoves[s]
             /\ x # "Code3" => /\ n \in DOMAIN StatusAt \ {"Code1", "Code2", "Code3"}
                              /\ ResponseMoves[s][c] = StatusAt[n]
             /\ x = "Code3" => /\ c = " " /\ n = "PhraseStart"
                              /\ ResponseMoves[s][c] = HeadAt[n]
<1>1. CASE x = "Nothing"
  BY <1>1, EndsOfLines DEF StatusAt, HeadAt, ResponseStates, StatusLine, ResponseMoves, On, ++
<1>2. CASE x = "H"
  BY <1>2, EndsOfLines DEF StatusAt, HeadAt, ResponseStates, StatusLine, ResponseMoves, On, ++
<1>3. CASE x = "HT"
  BY <1>3, EndsOfLines DEF StatusAt, HeadAt, ResponseStates, StatusLine, ResponseMoves, On, ++
<1>4. CASE x = "HTT"
  BY <1>4, EndsOfLines DEF StatusAt, HeadAt, ResponseStates, StatusLine, ResponseMoves, On, ++
<1>5. CASE x = "HTTP"
  BY <1>5, EndsOfLines DEF StatusAt, HeadAt, ResponseStates, StatusLine, ResponseMoves, On, ++
<1>6. CASE x = "Slash"
  BY <1>6, EndsOfLines DEF StatusAt, HeadAt, ResponseStates, StatusLine, ResponseMoves, On, ++
<1>7. CASE x = "Major"
  BY <1>7, EndsOfLines DEF StatusAt, HeadAt, ResponseStates, StatusLine, ResponseMoves, On, ++
<1>8. CASE x = "Dot"
  BY <1>8, EndsOfLines DEF StatusAt, HeadAt, ResponseStates, StatusLine, ResponseMoves, On, ++
<1>9. CASE x = "Minor"
  BY <1>9, EndsOfLines DEF StatusAt, HeadAt, ResponseStates, StatusLine, ResponseMoves, On, ++
<1>10. CASE x = "Code3"
  BY <1>10, EndsOfLines DEF StatusAt, HeadAt, ResponseStates, StatusLine, ResponseMoves, On, ++
<1>11. x \in {"Nothing", "H", "HT", "HTT", "HTTP", "Slash", "Major", "Dot", "Minor", "Code3"}
  BY DEF StatusAt, StatusLine
<1>. QED  BY <1>1, <1>2, <1>3, <1>4, <1>5, <1>6, <1>7, <1>8, <1>9, <1>10, <1>11

(* In the reason phrase. *)
LEMMA PhraseTable ==
  ASSUME NEW x \in DOMAIN HeadAt \intersect DOMAIN StatusLine, NEW c \in DOMAIN StatusLine[x]
  PROVE  LET s == HeadAt[x]  n == StatusLine[x][c]
         IN  /\ s \in ResponseStates /\ c \in DOMAIN ResponseMoves[s]
             /\ x = "PhraseStart" => n = "EmptyPhrase" /\ ResponseMoves[s][c] = MistakenAt[n]
             /\ x = "Phrase" => n \in {"Phrase", "PhraseEnd"} /\ ResponseMoves[s][c] = HeadAt[n]
             /\ x = "PhraseEnd" => n = "Line" /\ ResponseMoves[s][c] = HeadAt[n]
<1>1. CASE x = "PhraseStart"
  <2>1. StatusLine[x] = On({"\r"}, "EmptyPhrase")
    BY <1>1 DEF StatusLine
  <2>2. ResponseMoves[HeadAt[x]] = On(Char, "ResponseHttpVersion_statusText")
    BY <1>1 DEF HeadAt, ResponseMoves
  <2>3. c = "\r" /\ StatusLine[x][c] = "EmptyPhrase"
    BY <2>1 DEF On
  <2>4. /\ c \in DOMAIN ResponseMoves[HeadAt[x]]
        /\ ResponseMoves[HeadAt[x]][c] = "ResponseHttpVersion_statusText"
    BY <2>2, <2>3, Marks DEF On
  <2>5. /\ MistakenAt["EmptyPhrase"] = "ResponseHttpVersion_statusText"
        /\ HeadAt[x] \in ResponseStates
    BY <1>1 DEF HeadAt, MistakenAt, ResponseStates
  <2>. QED  BY <1>1, <2>3, <2>4, <2>5
<1>2. CASE x = "Phrase"
  BY <1>2, EndsOfLines DEF HeadAt, MistakenAt, ResponseStates, StatusLine, ResponseMoves, Char, Text, On, ++
<1>3. CASE x = "PhraseEnd"
  BY <1>3, EndsOfLines DEF HeadAt, MistakenAt, ResponseStates, StatusLine, ResponseMoves, Char, Text, On, ++
<1>4. x \in {"PhraseStart", "Phrase", "PhraseEnd"}
  BY DEF HeadAt, StatusLine
<1>. QED  BY <1>1, <1>2, <1>3, <1>4

(* In the headers, outside the lines that announce a body. *)
LEMMA HeaderTable ==
  ASSUME NEW x \in DOMAIN HeadAt \intersect DOMAIN Headers, NEW c \in DOMAIN Headers[x]
  PROVE  LET s == HeadAt[x]  n == Headers[x][c]
         IN  /\ s \in HeaderStates /\ c \in DOMAIN HeaderMoves[s]
             /\ n \in DOMAIN HeadAt \ {"PhraseStart", "Phrase", "PhraseEnd"}
             /\ HeaderMoves[s][c] = HeadAt[n]
             /\ x \in {"Line", "NextLine"} =>
                  \/ c = "\r" /\ n = "HeadEnd"
                  \/ c \in Token \ Framings /\ n = "Name"
                  \/ c \in Blank /\ n = "Fold" /\ x = "NextLine"
             /\ x = "Name" => IF c = ":" THEN n = "Colon" ELSE c \in Token /\ n = "Name"
             /\ x = "Colon" => n = "Value"
             /\ x = "Value" => n = IF c = "\r" THEN "ValueEnd" ELSE "Value"
             /\ x = "ValueEnd" => n = "NextLine"
             /\ x = "Fold" => n \in {"ValueEnd", "Fold", "Value"}
             /\ x = "FramingEnd" => n = "Line"
<1>1. CASE x = "Line"
  <2>1. Headers[x] = On({"\r"}, "HeadEnd") ++ On(Token \ {"Content-Length", "Transfer-Encoding"}, "Name")
    BY <1>1 DEF Headers, OtherName
  <2>2. HeaderMoves["HeaderLineStart"] = On({"\r"}, "ExpectingNewline_3") ++ On(Blank, "HeaderLws")
                                           ++ On(Token, "HeaderName")
    BY DEF HeaderMoves
  <2>3. \/ c = "\r" /\ Headers[x][c] = "HeadEnd"
        \/ c \in Token \ Framings /\ Headers[x][c] = "Name"
    BY <2>1, EndsOfLines, Marks DEF On, ++, Framings
  <2>4. /\ c \in DOMAIN HeaderMoves["HeaderLineStart"]
        /\ HeaderMoves["HeaderLineStart"][c] = CASE c = "\r" -> "ExpectingNewline_3" [] c \in Blank -> "HeaderLws" [] OTHER -> "HeaderName"
    BY <2>2, <2>3, EndsOfLines, Marks DEF On, ++
  <2>5. /\ HeadAt[x] = "HeaderLineStart" /\ "HeaderLineStart" \in HeaderStates
        /\ "HeadEnd" \in DOMAIN HeadAt /\ HeadAt["HeadEnd"] = "ExpectingNewline_3"
        /\ "Name" \in DOMAIN HeadAt /\ HeadAt["Name"] = "HeaderName"
    BY <1>1 DEF HeadAt, HeaderStates
  <2>. QED  BY <1>1, <2>3, <2>4, <2>5, EndsOfLines, Marks
<1>2. CASE x = "NextLine"
  <2>1. Headers[x] = On({"\r"}, "HeadEnd") ++ On(Blank, "Fold")
                      ++ On(Token \ {"Content-Length", "Transfer-Encoding"}, "Name")
    BY <1>2 DEF Headers, OtherName
  <2>2. HeaderMoves["HeaderLineStart"] = On({"\r"}, "ExpectingNewline_3") ++ On(Blank, "HeaderLws")
                                           ++ On(Token, "HeaderName")
    BY DEF HeaderMoves
  <2>3. \/ c = "\r" /\ Headers[x][c] = "HeadEnd"
        \/ c \in Blank /\ Headers[x][c] = "Fold"
        \/ c \in Token \ Framings /\ Headers[x][c] = "Name"
    BY <2>1, EndsOfLines, Marks DEF On, ++, Framings
  <2>4. /\ c \in DOMAIN HeaderMoves["HeaderLineStart"]
        /\ HeaderMoves["HeaderLineStart"][c] = CASE c = "\r" -> "ExpectingNewline_3" [] c \in Blank -> "HeaderLws" [] OTHER -> "HeaderName"
    BY <2>2, <2>3, EndsOfLines, Marks DEF On, ++
  <2>5. /\ HeadAt[x] = "HeaderLineStart" /\ "HeaderLineStart" \in HeaderStates
        /\ "HeadEnd" \in DOMAIN HeadAt /\ HeadAt["HeadEnd"] = "ExpectingNewline_3"
        /\ "Fold" \in DOMAIN HeadAt /\ HeadAt["Fold"] = "HeaderLws"
        /\ "Name" \in DOMAIN HeadAt /\ HeadAt["Name"] = "HeaderName"
    BY <1>2 DEF HeadAt, HeaderStates
  <2>. QED  BY <1>2, <2>3, <2>4, <2>5, EndsOfLines, Marks
<1>3. CASE x = "Name"
  <2>1. Headers[x] = On({":"}, "Colon") ++ On(Token, "Name")
    BY <1>3 DEF Headers
  <2>2. HeaderMoves["HeaderName"] = On({":"}, "SpaceBeforeHeaderValue") ++ On(Token, "HeaderName")
    BY DEF HeaderMoves
  <2>3. IF c = ":" THEN Headers[x][c] = "Colon" ELSE c \in Token /\ Headers[x][c] = "Name"
    BY <2>1 DEF On, ++
  <2>4. /\ c \in DOMAIN HeaderMoves["HeaderName"]
        /\ HeaderMoves["HeaderName"][c] = IF c = ":" THEN "SpaceBeforeHeaderValue" ELSE "HeaderName"
    BY <2>2, <2>3 DEF On, ++
  <2>5. /\ HeadAt[x] = "HeaderName" /\ "HeaderName" \in HeaderStates
        /\ "Colon" \in DOMAIN HeadAt /\ HeadAt["Colon"] = "SpaceBeforeHeaderValue"
        /\ x \in DOMAIN HeadAt
    BY <1>3 DEF HeadAt, HeaderStates
  <2>. QED  BY <1>3, <2>3, <2>4, <2>5
<1>4. CASE x = "Colon"
  <2>1. Headers[x] = On({" "}, "Value")
    BY <1>4 DEF Headers
  <2>2. HeaderMoves["SpaceBeforeHeaderValue"] = On({" "}, "HeaderValue")
    BY DEF HeaderMoves
  <2>3. c = " " /\ Headers[x][c] = "Value"
    BY <2>1 DEF On
  <2>4. c \in DOMAIN HeaderMoves["SpaceBeforeHeaderValue"]
        /\ HeaderMoves["SpaceBeforeHeaderValue"][c] = "HeaderValue"
    BY <2>2, <2>3 DEF On
  <2>5. /\ HeadAt[x] = "SpaceBeforeHeaderValue" /\ "SpaceBeforeHeaderValue" \in HeaderStates
        /\ "Value" \in DOMAIN HeadAt /\ HeadAt["Value"] = "HeaderValue"
    BY <1>4 DEF HeadAt, HeaderStates
  <2>. QED  BY <1>4, <2>3, <2>4, <2>5
<1>5. CASE x = "Value"
  <2>1. Headers[x] = On({"\r"}, "ValueEnd") ++ On(Text, "Value")
    BY <1>5 DEF Headers
  <2>2. HeaderMoves["HeaderValue"] = On({"\r"}, "ExpectingNewline_2") ++ On(Text, "HeaderValue")
    BY DEF HeaderMoves
  <2>3. IF c = "\r" THEN Headers[x][c] = "ValueEnd" ELSE c \in Text /\ Headers[x][c] = "Value"
    BY <2>1 DEF On, ++
  <2>4. /\ c \in DOMAIN HeaderMoves["HeaderValue"]
        /\ HeaderMoves["HeaderValue"][c] = IF c = "\r" THEN "ExpectingNewline_2" ELSE "HeaderValue"
    BY <2>2, <2>3 DEF On, ++
  <2>5. /\ HeadAt[x] = "HeaderValue" /\ "HeaderValue" \in HeaderStates
        /\ "ValueEnd" \in DOMAIN HeadAt /\ HeadAt["ValueEnd"] = "ExpectingNewline_2"
        /\ x \in DOMAIN HeadAt
    BY <1>5 DEF HeadAt, HeaderStates
  <2>. QED  BY <1>5, <2>3, <2>4, <2>5
<1>6. CASE x = "ValueEnd"
  <2>1. Headers[x] = On({"\n"}, "NextLine")
    BY <1>6 DEF Headers
  <2>2. HeaderMoves["ExpectingNewline_2"] = On({"\n"}, "HeaderLineStart")
    BY DEF HeaderMoves
  <2>3. c = "\n" /\ Headers[x][c] = "NextLine"
    BY <2>1 DEF On
  <2>4. c \in DOMAIN HeaderMoves["ExpectingNewline_2"]
        /\ HeaderMoves["ExpectingNewline_2"][c] = "HeaderLineStart"
    BY <2>2, <2>3 DEF On
  <2>5. /\ HeadAt[x] = "ExpectingNewline_2" /\ "ExpectingNewline_2" \in HeaderStates
        /\ "NextLine" \in DOMAIN HeadAt /\ HeadAt["NextLine"] = "HeaderLineStart"
    BY <1>6 DEF HeadAt, HeaderStates
  <2>. QED  BY <1>6, <2>3, <2>4, <2>5
<1>7. CASE x = "Fold"
  <2>1. Headers[x] = On({"\r"}, "ValueEnd") ++ On(Blank, "Fold") ++ On(Text, "Value")
    BY <1>7 DEF Headers
  <2>2. HeaderMoves["HeaderLws"] = On({"\r"}, "ExpectingNewline_2") ++ On(Blank, "HeaderLws")
                                     ++ On(Text, "HeaderValue")
    BY DEF HeaderMoves
  <2>3. \/ c = "\r" /\ Headers[x][c] = "ValueEnd"
        \/ c \in Blank /\ Headers[x][c] = "Fold"
        \/ c \in Text \ Blank /\ Headers[x][c] = "Value"
    BY <2>1, EndsOfLines, Marks DEF On, ++
  <2>4. /\ c \in DOMAIN HeaderMoves["HeaderLws"]
        /\ HeaderMoves["HeaderLws"][c] = CASE c = "\r" -> "ExpectingNewline_2" [] c \in Blank -> "HeaderLws" [] OTHER -> "HeaderValue"
    BY <2>2, <2>3, EndsOfLines, Marks DEF On, ++
  <2>5. /\ HeadAt[x] = "HeaderLws" /\ "HeaderLws" \in HeaderStates
        /\ "ValueEnd" \in DOMAIN HeadAt /\ HeadAt["ValueEnd"] = "ExpectingNewline_2"
        /\ "Fold" \in DOMAIN HeadAt /\ HeadAt["Fold"] = "HeaderLws"
        /\ "Value" \in DOMAIN HeadAt /\ HeadAt["Value"] = "HeaderValue"
    BY <1>7 DEF HeadAt, HeaderStates
  <2>. QED  BY <1>7, <2>3, <2>4, <2>5, EndsOfLines, Marks
<1>8. CASE x = "FramingEnd"
  <2>1. Headers[x] = On({"\n"}, "Line")
    BY <1>8 DEF Headers
  <2>2. HeaderMoves["ExpectingNewline_2"] = On({"\n"}, "HeaderLineStart")
    BY DEF HeaderMoves
  <2>3. c = "\n" /\ Headers[x][c] = "Line"
    BY <2>1 DEF On
  <2>4. c \in DOMAIN HeaderMoves["ExpectingNewline_2"]
        /\ HeaderMoves["ExpectingNewline_2"][c] = "HeaderLineStart"
    BY <2>2, <2>3 DEF On
  <2>5. /\ HeadAt[x] = "ExpectingNewline_2" /\ "ExpectingNewline_2" \in HeaderStates
        /\ "Line" \in DOMAIN HeadAt /\ HeadAt["Line"] = "HeaderLineStart"
    BY <1>8 DEF HeadAt, HeaderStates
  <2>. QED  BY <1>8, <2>3, <2>4, <2>5
<1>9. x \in {"Line", "NextLine", "Name", "Colon", "Value", "ValueEnd", "Fold", "FramingEnd"}
  BY DEF HeadAt, Headers
<1>. QED  BY <1>1, <1>2, <1>3, <1>4, <1>5, <1>6, <1>7, <1>8, <1>9

(* In the lines that announce a body. *)
LEMMA FramingTable ==
  ASSUME NEW x \in (DOMAIN LengthAt \union DOMAIN CodingAt) \intersect DOMAIN Headers, NEW c \in DOMAIN Headers[x]
  PROVE  LET n == Headers[x][c]
         IN  /\ x = "LengthName"  => c = ":" /\ n = "LengthColon"
             /\ x = "LengthColon" => c = " " /\ n = "LengthStart"
             /\ x = "CodingName"  => c = ":" /\ n = "CodingColon"
             /\ x = "CodingColon" => c = " " /\ n = "CodingStart"
             /\ x = "CodingStart" => c = "chunked" /\ n = "Coding"
             /\ x \in {"Length", "Coding"} => c = "\r" /\ n = "FramingEnd"
<1>1. CASE x = "LengthName"
  BY <1>1, EndsOfLines DEF Headers, On
<1>2. CASE x = "LengthColon"
  BY <1>2, EndsOfLines DEF Headers, On
<1>3. CASE x = "Length"
  BY <1>3, EndsOfLines DEF Headers, On
<1>4. CASE x = "CodingName"
  BY <1>4, EndsOfLines DEF Headers, On
<1>5. CASE x = "CodingColon"
  BY <1>5, EndsOfLines DEF Headers, On
<1>6. CASE x = "CodingStart"
  BY <1>6, EndsOfLines DEF Headers, On
<1>7. CASE x = "Coding"
  BY <1>7, EndsOfLines DEF Headers, On
<1>8. x \in {"LengthName", "LengthColon", "Length", "CodingName", "CodingColon", "CodingStart", "Coding"}
  BY DEF LengthAt, CodingAt, Headers
<1>. QED  BY <1>1, <1>2, <1>3, <1>4, <1>5, <1>6, <1>7, <1>8

(* Among the chunks. *)
LEMMA ChunkTable ==
  ASSUME NEW x \in DOMAIN Chunks, NEW c \in DOMAIN Chunks[x]
  PROVE  LET s == BodyAt[x]  n == Chunks[x][c]
         IN  /\ s \in ChunkStates /\ c \in DOMAIN ChunkMoves[s]
             /\ x = "TrailerEnd" => n = "Sent" /\ ChunkMoves[s][c] = "ParsingCompleted"
             /\ x # "TrailerEnd" => n \in DOMAIN BodyAt /\ ChunkMoves[s][c] = BodyAt[n]
             /\ x \in {"Size", "Extension", "ExtensionValue"} =>
                  n \in {"Extension", "ExtensionValue", "SizeEnd"}
             /\ x = "Size" => c \in {"\r", ";"}
             /\ x = "ChunkDone" => n = "ChunkEnd"
             /\ x = "ChunkEnd" => n = "SizeStart"
             /\ x \in {"Trailer", "TrailerName", "TrailerValue"} =>
                  n \in {"TrailerName", "TrailerValue", "TrailerValueEnd", "TrailerEnd"}
<1>1. CASE x = "Size"
  <2>1. Chunks[x] = On({"\r"}, "SizeEnd") ++ On({";"}, "Extension")
    BY <1>1 DEF Chunks
  <2>2. ChunkMoves["ChunkSize"] = On(Alnum, "ChunkSize") ++ On({";"}, "ChunkExtensionName")
                                    ++ On({"\r"}, "ChunkSizeNewLine")
    BY DEF ChunkMoves
  <2>3. \/ c = "\r" /\ Chunks[x][c] = "SizeEnd"
        \/ c = ";" /\ Chunks[x][c] = "Extension"
    BY <2>1, EndsOfLines, Marks DEF On, ++
  <2>4. /\ c \in DOMAIN ChunkMoves["ChunkSize"]
        /\ ChunkMoves["ChunkSize"][c] = IF c = "\r" THEN "ChunkSizeNewLine" ELSE "ChunkExtensionName"
    BY <2>2, <2>3, EndsOfLines, Marks DEF On, ++
  <2>5. /\ BodyAt[x] = "ChunkSize" /\ "ChunkSize" \in ChunkStates
        /\ "SizeEnd" \in DOMAIN BodyAt /\ BodyAt["SizeEnd"] = "ChunkSizeNewLine"
        /\ "Extension" \in DOMAIN BodyAt /\ BodyAt["Extension"] = "ChunkExtensionName"
    BY <1>1 DEF BodyAt, ChunkStates
  <2>. QED  BY <1>1, <2>3, <2>4, <2>5, EndsOfLines, Marks
<1>2. CASE x = "Extension"
  <2>1. Chunks[x] = On({"\r"}, "SizeEnd") ++ On({"="}, "ExtensionValue")
                      ++ On(Alnum \union {" "}, "Extension")
    BY <1>2 DEF Chunks
  <2>2. ChunkMoves["ChunkExtensionName"] = On(Alnum \union {" "}, "ChunkExtensionName")
                                           ++ On({"="}, "ChunkExtensionValue") ++ On({"\r"}, "ChunkSizeNewLine")
    BY DEF ChunkMoves
  <2>3. \/ c = "\r" /\ Chunks[x][c] = "SizeEnd"
        \/ c = "=" /\ Chunks[x][c] = "ExtensionValue"
        \/ c \in Alnum \union {" "} /\ Chunks[x][c] = "Extension"
    BY <2>1, EndsOfLines, Marks DEF On, ++
  <2>4. /\ c \in DOMAIN ChunkMoves["ChunkExtensionName"]
        /\ ChunkMoves["ChunkExtensionName"][c] = CASE c = "\r" -> "ChunkSizeNewLine" [] c = "=" -> "ChunkExtensionValue"
             [] OTHER -> "ChunkExtensionName"
    BY <2>2, <2>3, EndsOfLines, Marks DEF On, ++
  <2>5. /\ BodyAt[x] = "ChunkExtensionName" /\ "ChunkExtensionName" \in ChunkStates
        /\ "SizeEnd" \in DOMAIN BodyAt /\ BodyAt["SizeEnd"] = "ChunkSizeNewLine"
        /\ "ExtensionValue" \in DOMAIN BodyAt /\ BodyAt["ExtensionValue"] = "ChunkExtensionValue"
        /\ "Extension" \in DOMAIN BodyAt /\ BodyAt["Extension"] = "ChunkExtensionName"
    BY <1>2 DEF BodyAt, ChunkStates
  <2>. QED  BY <1>2, <2>3, <2>4, <2>5, EndsOfLines, Marks
<1>3. CASE x = "ExtensionValue"
  <2>1. Chunks[x] = On({"\r"}, "SizeEnd") ++ On(Alnum \union {" "}, "ExtensionValue")
    BY <1>3 DEF Chunks
  <2>2. ChunkMoves["ChunkExtensionValue"] = On(Alnum \union {" "}, "ChunkExtensionValue")
                                          ++ On({"\r"}, "ChunkSizeNewLine")
    BY DEF ChunkMoves
  <2>3. IF c = "\r" THEN Chunks[x][c] = "SizeEnd"
        ELSE c \in Alnum \union {" "} /\ Chunks[x][c] = "ExtensionValue"
    BY <2>1 DEF On, ++
  <2>4. /\ c \in DOMAIN ChunkMoves["ChunkExtensionValue"]
        /\ ChunkMoves["ChunkExtensionValue"][c] = IF c = "\r" THEN "ChunkSizeNewLine" ELSE "ChunkExtensionValue"
    BY <2>2, <2>3, EndsOfLines, Marks DEF On, ++
  <2>5. /\ BodyAt[x] = "ChunkExtensionValue" /\ "ChunkExtensionValue" \in ChunkStates
        /\ "SizeEnd" \in DOMAIN BodyAt /\ BodyAt["SizeEnd"] = "ChunkSizeNewLine"
        /\ "ExtensionValue" \in DOMAIN BodyAt
    BY <1>3 DEF BodyAt, ChunkStates
  <2>. QED  BY <1>3, <2>3, <2>4, <2>5, EndsOfLines, Marks
<1>4. CASE x = "ChunkDone"
  BY <1>4, EndsOfLines DEF BodyAt, ChunkStates, Chunks, ChunkMoves, On, ++
<1>5. CASE x = "ChunkEnd"
  BY <1>5, EndsOfLines DEF BodyAt, ChunkStates, Chunks, ChunkMoves, On, ++
<1>6. CASE x = "Trailer"
  <2>1. Chunks[x] = On({"\r"}, "TrailerEnd") ++ On(Alpha, "TrailerName")
    BY <1>6 DEF Chunks
  <2>2. ChunkMoves["ChunkSizeNewLine_2"] = On({"\r"}, "ChunkSizeNewLine_3") ++ On(Alpha, "ChunkTrailerName")
    BY DEF ChunkMoves
  <2>3. IF c = "\r" THEN Chunks[x][c] = "TrailerEnd"
        ELSE c \in Alpha /\ Chunks[x][c] = "TrailerName"
    BY <2>1 DEF On, ++
  <2>4. /\ c \in DOMAIN ChunkMoves["ChunkSizeNewLine_2"]
        /\ ChunkMoves["ChunkSizeNewLine_2"][c] = IF c = "\r" THEN "ChunkSizeNewLine_3" ELSE "ChunkTrailerName"
    BY <2>2, <2>3 DEF On, ++
  <2>5. /\ BodyAt[x] = "ChunkSizeNewLine_2" /\ "ChunkSizeNewLine_2" \in ChunkStates
        /\ "TrailerEnd" \in DOMAIN BodyAt /\ BodyAt["TrailerEnd"] = "ChunkSizeNewLine_3"
        /\ "TrailerName" \in DOMAIN BodyAt /\ BodyAt["TrailerName"] = "ChunkTrailerName"
    BY <1>6 DEF BodyAt, ChunkStates
  <2>. QED  BY <1>6, <2>3, <2>4, <2>5
<1>7. CASE x = "TrailerName"
  <2>1. Chunks[x] = On({":"}, "TrailerValue") ++ On(Alnum, "TrailerName")
    BY <1>7 DEF Chunks
  <2>2. ChunkMoves["ChunkTrailerName"] = On(Alnum, "ChunkTrailerName") ++ On({":"}, "ChunkTrailerValue")
    BY DEF ChunkMoves
  <2>3. \/ c = ":" /\ Chunks[x][c] = "TrailerValue"
        \/ c \in Alnum /\ Chunks[x][c] = "TrailerName"
    BY <2>1, EndsOfLines, Marks DEF On, ++
  <2>4. /\ c \in DOMAIN ChunkMoves["ChunkTrailerName"]
        /\ ChunkMoves["ChunkTrailerName"][c] = IF c = ":" THEN "ChunkTrailerValue" ELSE "ChunkTrailerName"
    BY <2>2, <2>3, EndsOfLines, Marks DEF On, ++
  <2>5. /\ BodyAt[x] = "ChunkTrailerName" /\ "ChunkTrailerName" \in ChunkStates
        /\ "TrailerValue" \in DOMAIN BodyAt /\ BodyAt["TrailerValue"] = "ChunkTrailerValue"
        /\ "TrailerName" \in DOMAIN BodyAt /\ BodyAt["TrailerName"] = "ChunkTrailerName"
    BY <1>7 DEF BodyAt, ChunkStates
  <2>. QED  BY <1>7, <2>3, <2>4, <2>5, EndsOfLines, Marks
<1>8. CASE x = "TrailerValue"
  <2>1. Chunks[x] = On({"\r"}, "TrailerValueEnd") ++ On(Alnum \union {" "}, "TrailerValue")
    BY <1>8 DEF Chunks
  <2>2. ChunkMoves["ChunkTrailerValue"] = On(Alnum \union {" "}, "ChunkTrailerValue")
                                        ++ On({"\r"}, "ChunkSizeNewLine")
    BY DEF ChunkMoves
  <2>3. IF c = "\r" THEN Chunks[x][c] = "TrailerValueEnd"
        ELSE c \in Alnum \union {" "} /\ Chunks[x][c] = "TrailerValue"
    BY <2>1 DEF On, ++
  <2>4. /\ c \in DOMAIN ChunkMoves["ChunkTrailerValue"]
        /\ ChunkMoves["ChunkTrailerValue"][c] = IF c = "\r" THEN "ChunkSizeNewLine" ELSE "ChunkTrailerValue"
    BY <2>2, <2>3, EndsOfLines, Marks DEF On, ++
  <2>5. /\ BodyAt[x] = "ChunkTrailerValue" /\ "ChunkTrailerValue" \in ChunkStates
        /\ "TrailerValueEnd" \in DOMAIN BodyAt /\ BodyAt["TrailerValueEnd"] = "ChunkSizeNewLine"
        /\ "TrailerValue" \in DOMAIN BodyAt
    BY <1>8 DEF BodyAt, ChunkStates
  <2>. QED  BY <1>8, <2>3, <2>4, <2>5, EndsOfLines, Marks
<1>9. CASE x = "TrailerEnd"
  BY <1>9, EndsOfLines DEF BodyAt, ChunkStates, Chunks, ChunkMoves, On, ++
<1>10. x \in {"Size", "Extension", "ExtensionValue", "ChunkDone", "ChunkEnd", "Trailer", "TrailerName", "TrailerValue", "TrailerEnd"}
  BY DEF BodyAt, Chunks
<1>. QED  BY <1>1, <1>2, <1>3, <1>4, <1>5, <1>6, <1>7, <1>8, <1>9, <1>10

(* Where the end of the status line is taken for the phrase, the line after it  *)
(* is no header.                                                                *)
LEMMA MistakenTable ==
  ASSUME NEW x \in DOMAIN MistakenAt \intersect DOMAIN Headers, NEW c \in DOMAIN Headers[x]
  PROVE  LET s == MistakenAt[x]  n == Headers[x][c]
         IN  /\ s \in ResponseStates
             /\ IF x = "ValueEnd"
                THEN c \in DOMAIN ResponseMoves[s] /\ ResponseMoves[s][c] = "HeaderLineStart"
                     /\ n = "NextLine"
                ELSE /\ n \in DOMAIN MistakenAt \ {"EmptyPhrase", "FirstLine"}
                     /\ c \in DOMAIN ResponseMoves[s] => ResponseMoves[s][c] = MistakenAt[n]
<1>1. CASE x = "FirstLine"
  <2>1. Headers[x] = On({"\r"}, "HeadEnd") ++ On(Token \ {"Content-Length", "Transfer-Encoding"}, "Name")
    BY <1>1 DEF Headers, OtherName
  <2>2. ResponseMoves["ResponseHttpVersion_statusText"] = On({"\r"}, "ResponseHttpVersion_newLine")
                                                           ++ On(Char, "ResponseHttpVersion_statusText")
    BY DEF ResponseMoves
  <2>3. IF c = "\r" THEN Headers[x][c] = "HeadEnd" ELSE Headers[x][c] = "Name"
    BY <2>1 DEF On, ++
  <2>4. c \in DOMAIN ResponseMoves["ResponseHttpVersion_statusText"]
          => ResponseMoves["ResponseHttpVersion_statusText"][c]
               = IF c = "\r" THEN "ResponseHttpVersion_newLine" ELSE "ResponseHttpVersion_statusText"
    BY <2>2 DEF On, ++
  <2>5. /\ MistakenAt[x] = "ResponseHttpVersion_statusText" /\ MistakenAt[x] \in ResponseStates
        /\ MistakenAt["Name"] = MistakenAt[x] /\ MistakenAt["Colon"] = MistakenAt[x]
        /\ MistakenAt["Value"] = MistakenAt[x]
        /\ MistakenAt["HeadEnd"] = "ResponseHttpVersion_newLine"
        /\ MistakenAt["ValueEnd"] = "ResponseHttpVersion_newLine"
        /\ {"Name", "Colon", "Value", "HeadEnd", "ValueEnd"} \subseteq DOMAIN MistakenAt \ {"EmptyPhrase", "FirstLine"}
    BY <1>1 DEF MistakenAt, ResponseStates
  <2>. QED  BY <1>1, <2>3, <2>4, <2>5
<1>2. CASE x = "Name"
  <2>1. Headers[x] = On({":"}, "Colon") ++ On(Token, "Name")
    BY <1>2 DEF Headers, OtherName
  <2>2. ResponseMoves["ResponseHttpVersion_statusText"] = On({"\r"}, "ResponseHttpVersion_newLine")
                                                           ++ On(Char, "ResponseHttpVersion_statusText")
    BY DEF ResponseMoves
  <2>3. IF c = ":" THEN Headers[x][c] = "Colon" ELSE c \in Token /\ Headers[x][c] = "Name"
    BY <2>1 DEF On, ++
  <2>4. ResponseMoves["ResponseHttpVersion_statusText"][c] = "ResponseHttpVersion_statusText"
          \/ c \notin DOMAIN ResponseMoves["ResponseHttpVersion_statusText"]
    BY <2>2, <2>3, EndsOfLines DEF On, ++
  <2>5. /\ MistakenAt[x] = "ResponseHttpVersion_statusText" /\ MistakenAt[x] \in ResponseStates
        /\ MistakenAt["Name"] = MistakenAt[x] /\ MistakenAt["Colon"] = MistakenAt[x]
        /\ MistakenAt["Value"] = MistakenAt[x]
        /\ MistakenAt["HeadEnd"] = "ResponseHttpVersion_newLine"
        /\ MistakenAt["ValueEnd"] = "ResponseHttpVersion_newLine"
        /\ {"Name", "Colon", "Value", "HeadEnd", "ValueEnd"} \subseteq DOMAIN MistakenAt \ {"EmptyPhrase", "FirstLine"}
    BY <1>2 DEF MistakenAt, ResponseStates
  <2>. QED  BY <1>2, <2>3, <2>4, <2>5
<1>3. CASE x = "Colon"
  <2>1. Headers[x] = On({" "}, "Value")
    BY <1>3 DEF Headers
  <2>2. ResponseMoves["ResponseHttpVersion_statusText"] = On({"\r"}, "ResponseHttpVersion_newLine")
                                                           ++ On(Char, "ResponseHttpVersion_statusText")
    BY DEF ResponseMoves
  <2>3. c = " " /\ Headers[x][c] = "Value"
    BY <2>1 DEF On
  <2>4. c \in DOMAIN ResponseMoves["ResponseHttpVersion_statusText"] =>
          ResponseMoves["ResponseHttpVersion_statusText"][c] = "ResponseHttpVersion_statusText"
    BY <2>2, <2>3 DEF On, ++
  <2>5. /\ MistakenAt[x] = "ResponseHttpVersion_statusText" /\ MistakenAt[x] \in ResponseStates
        /\ MistakenAt["Value"] = "ResponseHttpVersion_statusText"
        /\ "Value" \in DOMAIN MistakenAt \ {"EmptyPhrase", "FirstLine"}
    BY <1>3 DEF MistakenAt, ResponseStates
  <2>. QED  BY <1>3, <2>3, <2>4, <2>5
<1>4. CASE x = "Value"
  <2>1. Headers[x] = On({"\r"}, "ValueEnd") ++ On(Text, "Value")
    BY <1>4 DEF Headers, OtherName
  <2>2. ResponseMoves["ResponseHttpVersion_statusText"] = On({"\r"}, "ResponseHttpVersion_newLine")
                                                           ++ On(Char, "ResponseHttpVersion_statusText")
    BY DEF ResponseMoves
  <2>3. IF c = "\r" THEN Headers[x][c] = "ValueEnd" ELSE Headers[x][c] = "Value"
    BY <2>1 DEF On, ++
  <2>4. c \in DOMAIN ResponseMoves["ResponseHttpVersion_statusText"]
          => ResponseMoves["ResponseHttpVersion_statusText"][c]
               = IF c = "\r" THEN "ResponseHttpVersion_newLine" ELSE "ResponseHttpVersion_statusText"
    BY <2>2 DEF On, ++
  <2>5. /\ MistakenAt[x] = "ResponseHttpVersion_statusText" /\ MistakenAt[x] \in ResponseStates
        /\ MistakenAt["Name"] = MistakenAt[x] /\ MistakenAt["Colon"] = MistakenAt[x]
        /\ MistakenAt["Value"] = MistakenAt[x]
        /\ MistakenAt["HeadEnd"] = "ResponseHttpVersion_newLine"
        /\ MistakenAt["ValueEnd"] = "ResponseHttpVersion_newLine"
        /\ {"Name", "Colon", "Value", "HeadEnd", "ValueEnd"} \subseteq DOMAIN MistakenAt \ {"EmptyPhrase", "FirstLine"}
    BY <1>4 DEF MistakenAt, ResponseStates
  <2>. QED  BY <1>4, <2>3, <2>4, <2>5
<1>5. CASE x = "ValueEnd"
  BY <1>5, EndsOfLines DEF MistakenAt, ResponseStates, Headers, OtherName, ResponseMoves, On, ++
<1>6. x \in {"FirstLine", "Name", "Colon", "Value", "ValueEnd"}
  BY DEF MistakenAt, Headers
<1>. QED  BY <1>1, <1>2, <1>3, <1>4, <1>5, <1>6

--------------------------------------------------------------------------------
(* What the origin knows of its own answer. *)

Early == DOMAIN StatusAt \union {"PhraseStart", "EmptyPhrase", "FirstLine"}

Late == (DOMAIN HeadAt \ {"PhraseStart"}) \union DOMAIN LengthAt \union DOMAIN CodingAt
          \union DOMAIN BodyAt \union {"Sent", "Rest"}

WithSize == {"Size", "Extension", "ExtensionValue", "SizeEnd"}

OriginInv ==
  /\ at \in Early \union Late
  /\ status \in Nat /\ phrase \in BOOLEAN /\ swallowed \in BOOLEAN
  /\ framing \in {"none", "length", "chunked"} /\ left \in 0..MaxSize
  /\ method \in {"GET", "HEAD"}
  /\ framing = "none" => left = 0 /\ ~swallowed
  /\ framing = "chunked" => left = 0 \/ at \in DOMAIN BodyAt
  /\ at \in Early => framing = "none" /\ ~phrase
  /\ at \in {"Phrase", "PhraseEnd"} => framing = "none"
  /\ at \in DOMAIN LengthAt \union {"Body"} => framing = "length"
  /\ at \in DOMAIN CodingAt \union (DOMAIN BodyAt \ {"Body"}) => framing = "chunked"
  /\ at \in {"LengthName", "LengthColon", "LengthStart"} => left = 0
  /\ at \in DOMAIN BodyAt \ (WithSize \union {"Body", "Chunk"}) => left = 0
  /\ at \in {"Body", "Chunk"} => left > 0
  /\ at \in DOMAIN BodyAt => method = "GET"
  /\ at = "Rest" => framing = "none"
  /\ at = "Sent" => left = 0 \/ method = "HEAD"

(* What the parser has noted by then. In the status line: *)
NothingNoted == parser.contentSize = 0 /\ parser.chunked = FALSE /\ parser.chunkSizeStr = NoNumber

StatusInv ==
  at \in DOMAIN StatusAt =>
    /\ parser.state = StatusAt[at]
    /\ parser.name = "" /\ NothingNoted
    /\ parser.statusCode = status
    /\ at \notin {"Code1", "Code2", "Code3"} => status = 0
    /\ at = "Code1" => status = 2
    /\ at = "Code2" => status \in 20..29
    /\ at = "Code3" => status \in 200..299

(* After it the parser never gets back to the status code, whatever follows. *)
SettledStates ==
  {"ResponseHttpVersion_statusTextStart", "ResponseHttpVersion_statusText",
   "ResponseHttpVersion_newLine"} \union SharedStates

SettledInv ==
  at \notin DOMAIN StatusAt => parser.state \in SettledStates /\ parser.statusCode = status

(* After an empty phrase: the parser has failed, or does not know of the        *)
(* framing, or takes the body for header lines; or it is still in what it takes *)
(* for the phrase.                                                              *)
Failed ==
  /\ ~phrase /\ at # "PhraseStart"
  /\ \/ parser.state = "ParsingError"
     \/ swallowed
     \/ framing = "none" /\ at \in {"Sent", "Rest"}

Misread ==
  /\ ~phrase /\ framing = "none"
  /\ at \in DOMAIN MistakenAt
  /\ parser.state = MistakenAt[at]
  /\ parser.name = "" /\ NothingNoted

InField == {"Name", "Colon", "Value", "ValueEnd", "NextLine", "Fold"}

InHead ==
  /\ at \in DOMAIN HeadAt
  /\ parser.state = HeadAt[at]
  /\ parser.contentSize = left
  /\ parser.chunked = (framing = "chunked")
  /\ parser.chunkSizeStr = NoNumber
  /\ at = "PhraseStart" => parser.name = ""
  /\ at \in InField => parser.name \notin Framings /\ (parser.name = "" => ~phrase)
  /\ at = "Name" => parser.name # ""

(* The size of so many that has been read so far. *)
DigitsOf(size) == [n |-> size, negative |-> FALSE, at |-> "digits"]

InLength ==
  /\ at \in DOMAIN LengthAt
  /\ parser.state = LengthAt[at]
  /\ parser.name = "Content-Length" /\ NothingNoted
  /\ parser.number = IF at = "Length" THEN DigitsOf(left) ELSE NoNumber

InCoding ==
  /\ at \in DOMAIN CodingAt
  /\ parser.state = CodingAt[at]
  /\ parser.name = "Transfer-Encoding" /\ NothingNoted
  /\ parser.value = IF at = "Coding" THEN "chunked" ELSE ""

InBody ==
  /\ at \in DOMAIN BodyAt
  /\ parser.state = BodyAt[at]
  /\ at = "Body" => parser.contentSize = left
  /\ at = "Chunk" => parser.chunkSize = left
  /\ at \in WithSize => parser.chunkSizeStr = DigitsOf(left)
  /\ at \notin WithSize => parser.chunkSizeStr = NoNumber

IsSent ==
  /\ at \in {"Sent", "Rest"}
  /\ IF AnnouncedOnly THEN parser.state \in {"Post", "ChunkSize"}
     ELSE parser.state = "ParsingCompleted"

FollowsInv ==
  at \notin DOMAIN StatusAt =>
    Failed \/ Misread \/ InHead \/ InLength \/ InCoding \/ InBody \/ IsSent

(* What the parser is about to take for a length, or for the size of a chunk,   *)
(* it has room for.                                                             *)
Fits ==
  /\ parser.state = "HeaderValue" /\ parser.name = "Content-Length" =>
       parser.number.n \in 0..MaxSize /\ parser.number.negative = FALSE
  /\ parser.state = "ChunkSizeNewLine" => parser.chunkSizeStr.n \in 0..MaxSize

(* The verdict is the one on what has been received. *)
VerdictInv ==
  connectionState = IF Open THEN "RECEIVING_ANSWER"
                    ELSE IF parser.state = "ExceptionThrown" THEN "PROCESS_TERMINATED"
                    ELSE IF IsResponseStatusIs200(parser) THEN "CACHING_ANSWER_RECEIVED"
                    ELSE "NOT_CACHING_ANSWER_RECEIVED"

--------------------------------------------------------------------------------
(* What one input does. *)

LEMMA MoveAt ==
  ASSUME NEW p, NEW c
  PROVE  LET t == Move(Moves, p, c)
         IN  /\ p.state \in FinalStates => t = p.state
             /\ p.state \in DataStates => t = DataMove(p, c)
             /\ p.state \in ResponseStates =>
                  t = IF c \in DOMAIN ResponseMoves[p.state] THEN ResponseMoves[p.state][c]
                      ELSE "ParsingError"
             /\ p.state \in HeaderStates =>
                  t = IF c \in DOMAIN HeaderMoves[p.state] /\ ~ContinuesNothing(p, c)
                      THEN HeaderMoves[p.state][c] ELSE "ParsingError"
             /\ p.state \in ChunkStates =>
                  t = IF c \in DOMAIN ChunkMoves[p.state] THEN ChunkMoves[p.state][c]
                      ELSE "ParsingError"
<1>. DEFINE t == Move(Moves, p, c)
<1>1. /\ p.state \in FinalStates => t = p.state
      /\ p.state \in DataStates => t = DataMove(p, c)
  BY MoveCases
<1>2. p.state \notin FinalStates \union DataStates =>
        t = IF c \in DOMAIN Moves[p.state] /\ ~ContinuesNothing(p, c) THEN Moves[p.state][c]
            ELSE "ParsingError"
  BY Zenon DEF Move
<1>3. ContinuesNothing(p, c) => p.state \in HeaderStates
  BY DEF ContinuesNothing, HeaderStates
<1>4. /\ (ResponseStates \union HeaderStates \union ChunkStates)
           \intersect (FinalStates \union DataStates) = {}
      /\ HeaderStates \intersect (ResponseStates \union ChunkStates) = {}
  BY Kinds, KindsOfStates DEF ResponseStates, HeaderStates, ChunkStates, DataStates, FinalStates
<1>. HIDE DEF t
<1>5. p.state \in ResponseStates => t = IF c \in DOMAIN ResponseMoves[p.state]
                                        THEN ResponseMoves[p.state][c] ELSE "ParsingError"
  BY <1>2, <1>3, <1>4, MovesAt
<1>6. p.state \in HeaderStates =>
        t = IF c \in DOMAIN HeaderMoves[p.state] /\ ~ContinuesNothing(p, c)
            THEN HeaderMoves[p.state][c] ELSE "ParsingError"
  BY <1>2, <1>4, MovesAt
<1>7. p.state \in ChunkStates => t = IF c \in DOMAIN ChunkMoves[p.state]
                                     THEN ChunkMoves[p.state][c] ELSE "ParsingError"
  BY <1>2, <1>3, <1>4, MovesAt
<1>. QED  BY <1>1, <1>5, <1>6, <1>7 DEF t

LEMMA NoteResponseLeaves ==
  ASSUME NEW p, DOMAIN p = Fields \union {"statusCode"}, NEW c
  PROVE  NoteResponse(p, c).statusCode =
           CASE p.state = "ResponseHttpVersion_statusCodeStart" /\ c \in Digits -> DigitValue[c]
             [] p.state = "ResponseHttpVersion_statusCode" /\ c \in Digits ->
                  10 * p.statusCode + DigitValue[c]
             [] OTHER -> p.statusCode
<1>1. CASE p.state = "ResponseHttpVersion_statusCodeStart" /\ c \in Digits
  BY <1>1 DEF NoteResponse
<1>2. CASE p.state = "ResponseHttpVersion_statusCode" /\ c \in Digits
  BY <1>2 DEF NoteResponse
<1>3. CASE c \notin Digits \/ p.state \notin {"ResponseHttpVersion_statusCodeStart",
                                              "ResponseHttpVersion_statusCode"}
  BY <1>3 DEF NoteResponse
<1>. QED  BY <1>1, <1>2, <1>3

(* All that an input leaves in a parser. *)
LEMMA ConsumeLeaves ==
  ASSUME NEW p, DOMAIN p = Fields \union {"statusCode"}, p.statusCode \in Nat, NEW c, NEW length
  PROVE  LET q == Consume(p, c, length)
         IN  /\ q.state = IF WrongStatus(p, c) THEN "ParsingError"
                          ELSE IF Throws(p, c, length, TRUE) THEN "ExceptionThrown"
                          ELSE Move(Moves, p, c)
             /\ Leaves(p, c, length, TRUE, q)
             /\ q.statusCode = NoteResponse(p, c).statusCode
<1>. DEFINE m == NoteResponse(p, c)
            b == TRUE
            n == Note(m, c, length, b)
            t == IF WrongStatus(p, c) THEN "ParsingError"
                 ELSE IF Throws(p, c, length, b) THEN "ExceptionThrown"
                 ELSE Move(Moves, p, c)
            q == Consume(p, c, length)
<1>1. DOMAIN m = DOMAIN p /\ (\A x \in Fields : m[x] = p[x]) /\ m.statusCode \in Nat
  BY NoteResponseEffect, Zenon
<1>2. q = [n EXCEPT !.state = t]
  BY Zenon DEF Consume
<1>. HIDE DEF m, b, t, q
<1>3. /\ DOMAIN n = DOMAIN m
      /\ \A x \in (DOMAIN m \ Fields) \union {"state"} : n[x] = m[x]
      /\ Leaves(m, c, length, b, n)
  <2>1. b \in BOOLEAN
    BY Zenon DEF b
  <2>. QED  BY <1>1, <2>1, NoteLeaves
<1>. HIDE DEF n
<1>4. q.state = t /\ \A x \in DOMAIN p \ {"state"} : q[x] = n[x]
  BY <1>1, <1>2, <1>3 DEF Fields
<1>5. q.statusCode = m.statusCode
  BY <1>1, <1>3, <1>4 DEF Fields
<1>6. /\ m.state = p.state /\ m.name = p.name /\ m.value = p.value /\ m.number = p.number
      /\ m.contentSize = p.contentSize /\ m.chunked = p.chunked
      /\ m.chunkSize = p.chunkSize /\ m.chunkSizeStr = p.chunkSizeStr
  BY <1>1 DEF Fields
<1>7. /\ q.name = n.name /\ q.value = n.value /\ q.number = n.number
      /\ q.contentSize = n.contentSize /\ q.chunked = n.chunked
      /\ q.chunkSize = n.chunkSize /\ q.chunkSizeStr = n.chunkSizeStr
  BY <1>1, <1>4 DEF Fields
<1>8. Leaves(p, c, length, b, q)
  BY <1>3, <1>6, <1>7
     DEF Leaves, BeginsName, EndsValue, EndsSizeLine, ExtendsValue, ReadLength, TellsLength
<1>. QED  BY <1>4, <1>5, <1>8 DEF b, t, q, m

(* What the next character of the answer does, whatever the parser takes it for. *)
LEMMA SendsMove ==
  ASSUME ResponseInv, NEW c, NEW next, Sends(c, next)
  PROVE  /\ at' = next /\ method' = method
         /\ connectionState = "RECEIVING_ANSWER" /\ connectionState' = connectionState
         /\ ~WrongStatus(parser, c) =>
              parser'.state \in {Move(Moves, parser, c), "ExceptionThrown"}
         /\ parser'.statusCode = NoteResponse(parser, c).statusCode
<1>1. PICK p : p = parser
  OBVIOUS
<1>2. PICK length : parser' = Consume(p, c, length)
  BY <1>1 DEF Sends
<1>3. DOMAIN p = Fields \union {"statusCode"} /\ p.statusCode \in Nat
  BY <1>1 DEF ResponseInv
<1>4. /\ parser'.state = IF WrongStatus(p, c) THEN "ParsingError"
                         ELSE IF Throws(p, c, length, TRUE) THEN "ExceptionThrown"
                         ELSE Move(Moves, p, c)
      /\ parser'.statusCode = NoteResponse(p, c).statusCode
  BY <1>2, <1>3, ConsumeLeaves, Zenon
<1>. QED  BY <1>1, <1>4 DEF Sends, Open

(* And where there is room for what it takes for a length: atoi() is defined,   *)
(* and content.reserve() does not throw.                                        *)
LEMMA SendsEffect ==
  ASSUME ResponseInv, Fits, NEW c, NEW next, Sends(c, next)
  PROVE  /\ parser'.state = IF WrongStatus(parser, c) THEN "ParsingError"
                            ELSE Move(Moves, parser, c)
         /\ Leaves(parser, c, parser.number.n, TRUE, parser')
<1>1. PICK p, size : p = parser /\ size = p.number.n
  OBVIOUS
<1>2. PICK length \in Lengths(p.number) : parser' = Consume(p, c, length)
  BY <1>1 DEF Sends
<1>3. DOMAIN p = Fields \union {"statusCode"} /\ p.statusCode \in Nat
  BY <1>1 DEF ResponseInv
<1>4. /\ parser'.state = IF WrongStatus(p, c) THEN "ParsingError"
                         ELSE IF Throws(p, c, length, TRUE) THEN "ExceptionThrown"
                         ELSE Move(Moves, p, c)
      /\ Leaves(p, c, length, TRUE, parser')
  BY <1>2, <1>3, ConsumeLeaves, Zenon
<1>5. EndsValue(p, c) /\ TellsLength(p, TRUE) => length = size /\ ~(length > MaxReserve)
  <2>. SUFFICES ASSUME EndsValue(p, c), TellsLength(p, TRUE)
                PROVE  length = size /\ ~(length > MaxReserve)
    OBVIOUS
  <2>1. size \in 0..MaxSize /\ p.number.negative = FALSE
    BY <1>1 DEF EndsValue, TellsLength, Fits
  <2>2. Lengths(p.number) = {SizeT(p.number)} /\ SizeT(p.number) = size
    BY <1>1, <2>1, SizesAssumption, MaxSizeAssumption DEF Lengths, SizeT
  <2>. QED  BY <2>1, <2>2, SizesAssumption, MaxSizeAssumption
<1>6. EndsSizeLine(p, c) => ~(p.chunkSizeStr.n > MaxReserve)
  <2>. PICK m : m = p.chunkSizeStr.n
    OBVIOUS
  <2>1. EndsSizeLine(p, c) => m \in 0..MaxSize
    BY <1>1 DEF EndsSizeLine, Fits
  <2>. QED  BY <2>1, SizesAssumption, MaxSizeAssumption
<1>7. ~Throws(p, c, length, TRUE)
  BY <1>5, <1>6, Zenon DEF Throws
<1>8. Leaves(p, c, size, TRUE, parser')
  BY <1>4, <1>5 DEF Leaves
<1>. QED  BY <1>1, <1>4, <1>7, <1>8

--------------------------------------------------------------------------------
(* The origin keeps to the form of an answer. *)

LEMMA Parts ==
  /\ DOMAIN StatusAt = {"Nothing", "H", "HT", "HTT", "HTTP", "Slash", "Major", "Dot", "Minor",
                        "Code0", "Code1", "Code2", "Code3"}
  /\ DOMAIN HeadAt = {"PhraseStart", "Phrase", "PhraseEnd", "Line", "NextLine", "Name", "Colon",
                      "Value", "ValueEnd", "Fold", "FramingEnd", "HeadEnd"}
  /\ DOMAIN LengthAt = {"LengthName", "LengthColon", "LengthStart", "Length"}
  /\ DOMAIN CodingAt = {"CodingName", "CodingColon", "CodingStart", "Coding"}
  /\ DOMAIN BodyAt = {"Body", "SizeStart", "Size", "Extension", "ExtensionValue", "SizeEnd",
                      "Chunk", "ChunkDone", "ChunkEnd", "Trailer", "TrailerName", "TrailerValue",
                      "TrailerValueEnd", "TrailerEnd"}
  /\ DOMAIN MistakenAt = {"EmptyPhrase", "FirstLine", "Name", "Colon", "Value", "ValueEnd",
                          "HeadEnd"}
<1>1. DOMAIN StatusAt = {"Nothing", "H", "HT", "HTT", "HTTP", "Slash", "Major", "Dot", "Minor",
                         "Code0", "Code1", "Code2", "Code3"}
  BY DEF StatusAt
<1>2. DOMAIN HeadAt = {"PhraseStart", "Phrase", "PhraseEnd", "Line", "NextLine", "Name", "Colon",
                       "Value", "ValueEnd", "Fold", "FramingEnd", "HeadEnd"}
  BY DEF HeadAt
<1>3. /\ DOMAIN LengthAt = {"LengthName", "LengthColon", "LengthStart", "Length"}
      /\ DOMAIN CodingAt = {"CodingName", "CodingColon", "CodingStart", "Coding"}
  BY DEF LengthAt, CodingAt
<1>4. DOMAIN BodyAt = {"Body", "SizeStart", "Size", "Extension", "ExtensionValue", "SizeEnd",
                       "Chunk", "ChunkDone", "ChunkEnd", "Trailer", "TrailerName", "TrailerValue",
                       "TrailerValueEnd", "TrailerEnd"}
  BY DEF BodyAt
<1>5. DOMAIN MistakenAt = {"EmptyPhrase", "FirstLine", "Name", "Colon", "Value", "ValueEnd",
                           "HeadEnd"}
  BY DEF MistakenAt
<1>. QED  BY <1>1, <1>2, <1>3, <1>4, <1>5

LEMMA GrammarParts ==
  /\ DOMAIN StatusLine = {"Nothing", "H", "HT", "HTT", "HTTP", "Slash", "Major", "Dot", "Minor",
                          "Code3", "PhraseStart", "EmptyPhrase", "Phrase", "PhraseEnd"}
  /\ DOMAIN Headers = {"FirstLine", "Line", "NextLine", "Name", "Colon", "Value", "ValueEnd",
                       "Fold", "LengthName", "LengthColon", "Length", "CodingName",
                       "CodingColon", "CodingStart", "Coding", "FramingEnd"}
  /\ DOMAIN Chunks = {"Size", "Extension", "ExtensionValue", "ChunkDone", "ChunkEnd", "Trailer",
                      "TrailerName", "TrailerValue", "TrailerEnd"}
<1>1. DOMAIN StatusLine = {"Nothing", "H", "HT", "HTT", "HTTP", "Slash", "Major", "Dot", "Minor",
                           "Code3", "PhraseStart", "EmptyPhrase", "Phrase", "PhraseEnd"}
  BY DEF StatusLine
<1>2. DOMAIN Headers = {"FirstLine", "Line", "NextLine", "Name", "Colon", "Value", "ValueEnd",
                        "Fold", "LengthName", "LengthColon", "Length", "CodingName",
                        "CodingColon", "CodingStart", "Coding", "FramingEnd"}
  BY DEF Headers
<1>3. DOMAIN Chunks = {"Size", "Extension", "ExtensionValue", "ChunkDone", "ChunkEnd", "Trailer",
                       "TrailerName", "TrailerValue", "TrailerEnd"}
  BY DEF Chunks
<1>. QED  BY <1>1, <1>2, <1>3

(* The two lines that only follow an empty phrase. *)
LEMMA EmptyPhraseTable ==
  /\ \A c \in DOMAIN StatusLine["EmptyPhrase"] :
       c = "\n" /\ StatusLine["EmptyPhrase"][c] = "FirstLine"
  /\ \A c \in DOMAIN Headers["FirstLine"] : Headers["FirstLine"][c] \in {"HeadEnd", "Name"}
<1>1. StatusLine["EmptyPhrase"] = On({"\n"}, "FirstLine")
  BY DEF StatusLine
<1>2. Headers["FirstLine"] = On({"\r"}, "HeadEnd")
                               ++ On(Token \ {"Content-Length", "Transfer-Encoding"}, "Name")
  BY DEF Headers, OtherName
<1>3. \A c \in DOMAIN StatusLine["EmptyPhrase"] :
        c = "\n" /\ StatusLine["EmptyPhrase"][c] = "FirstLine"
  BY <1>1 DEF On
<1>4. \A c \in DOMAIN Headers["FirstLine"] : Headers["FirstLine"][c] \in {"HeadEnd", "Name"}
  BY <1>2 DEF On, ++
<1>. QED  BY <1>3, <1>4

LEMMA GrammarNext ==
  ASSUME NEW x \in DOMAIN Grammar, NEW c \in DOMAIN Grammar[x]
  PROVE  LET n == Grammar[x][c]
         IN  \/ x \in DOMAIN StatusAt /\ n \in DOMAIN StatusAt \union {"PhraseStart"}
             \/ x = "PhraseStart" /\ n = "EmptyPhrase"
             \/ x = "EmptyPhrase" /\ n = "FirstLine"
             \/ x = "Phrase" /\ n \in {"Phrase", "PhraseEnd"}
             \/ x = "PhraseEnd" /\ n = "Line"
             \/ x = "FirstLine" /\ n \in {"HeadEnd", "Name"}
             \/ /\ x \in DOMAIN HeadAt \ {"PhraseStart", "Phrase", "PhraseEnd"}
                /\ n \in DOMAIN HeadAt \ {"PhraseStart", "Phrase", "PhraseEnd"}
             \/ x = "LengthName" /\ n = "LengthColon"
             \/ x = "LengthColon" /\ n = "LengthStart"
             \/ x = "Length" /\ n = "FramingEnd"
             \/ x \in DOMAIN CodingAt /\ n \in DOMAIN CodingAt \union {"FramingEnd"}
             \/ x \in WithSize /\ n \in WithSize
             \/ x = "TrailerEnd" /\ n = "Sent"
             \/ /\ x \in DOMAIN BodyAt \ (WithSize \union {"Body", "Chunk"})
                /\ n \in DOMAIN BodyAt \ (WithSize \union {"Body", "Chunk"})
<1>1. CASE x \in DOMAIN StatusLine
  <2>1. Grammar[x] = StatusLine[x] /\ c \in DOMAIN StatusLine[x]
    BY <1>1, GrammarAt
  <2>2. CASE x \in DOMAIN StatusAt
    <3>1. StatusLine[x][c] \in DOMAIN StatusAt \union {"PhraseStart"}
      BY <1>1, <2>1, <2>2, StatusLineTable
    <3>. QED  BY <2>1, <2>2, <3>1
  <2>3. CASE x = "EmptyPhrase"
    BY <2>1, <2>3, EmptyPhraseTable
  <2>4. CASE x \in {"PhraseStart", "Phrase", "PhraseEnd"}
    <3>1. x \in DOMAIN HeadAt
      BY <2>4, Parts
    <3>2. \/ x = "PhraseStart" /\ StatusLine[x][c] = "EmptyPhrase"
          \/ x = "Phrase" /\ StatusLine[x][c] \in {"Phrase", "PhraseEnd"}
          \/ x = "PhraseEnd" /\ StatusLine[x][c] = "Line"
      BY <1>1, <2>1, <2>4, <3>1, PhraseTable
    <3>. QED  BY <2>1, <3>2
  <2>. QED  BY <1>1, <2>2, <2>3, <2>4, GrammarParts, Parts
<1>2. CASE x \in DOMAIN Headers
  <2>1. Grammar[x] = Headers[x] /\ c \in DOMAIN Headers[x]
    BY <1>2, GrammarAt
  <2>2. CASE x = "FirstLine"
    BY <2>1, <2>2, EmptyPhraseTable
  <2>3. CASE x \in DOMAIN HeadAt
    <3>1. x \notin {"PhraseStart", "Phrase", "PhraseEnd"}
      BY <1>2, GrammarParts
    <3>2. Headers[x][c] \in DOMAIN HeadAt \ {"PhraseStart", "Phrase", "PhraseEnd"}
      BY <1>2, <2>1, <2>3, HeaderTable
    <3>. QED  BY <2>1, <2>3, <3>1, <3>2
  <2>4. CASE x \in DOMAIN LengthAt \union DOMAIN CodingAt
    <3>. DEFINE n == Headers[x][c]
    <3>1. /\ x = "LengthName"  => n = "LengthColon"
          /\ x = "LengthColon" => n = "LengthStart"
          /\ x = "CodingName"  => n = "CodingColon"
          /\ x = "CodingColon" => n = "CodingStart"
          /\ x = "CodingStart" => n = "Coding"
          /\ x \in {"Length", "Coding"} => n = "FramingEnd"
      BY <1>2, <2>1, <2>4, FramingTable
    <3>. HIDE DEF n
    <3>2. \/ x = "LengthName" /\ n = "LengthColon"
          \/ x = "LengthColon" /\ n = "LengthStart"
          \/ x = "Length" /\ n = "FramingEnd"
          \/ x \in DOMAIN CodingAt /\ n \in DOMAIN CodingAt \union {"FramingEnd"}
      BY <1>2, <2>4, <3>1, GrammarParts, Parts
    <3>. QED  BY <2>1, <3>2 DEF n
  <2>. QED  BY <1>2, <2>2, <2>3, <2>4, GrammarParts, Parts
<1>3. CASE x \in DOMAIN Chunks
  <2>1. Grammar[x] = Chunks[x] /\ c \in DOMAIN Chunks[x]
    BY <1>3, GrammarAt
  <2>. DEFINE n == Chunks[x][c]
  <2>2. /\ x = "TrailerEnd" => n = "Sent"
        /\ x \in {"Size", "Extension", "ExtensionValue"} =>
             n \in {"Extension", "ExtensionValue", "SizeEnd"}
        /\ x = "ChunkDone" => n = "ChunkEnd"
        /\ x = "ChunkEnd" => n = "SizeStart"
        /\ x \in {"Trailer", "TrailerName", "TrailerValue"} =>
             n \in {"TrailerName", "TrailerValue", "TrailerValueEnd", "TrailerEnd"}
    <3>1. c \in DOMAIN Chunks[x]
      BY <2>1
    <3>2. x = "TrailerEnd" => n = "Sent"
      BY <1>3, <3>1, ChunkTable
    <3>3. x \in {"Size", "Extension", "ExtensionValue"} =>
            n \in {"Extension", "ExtensionValue", "SizeEnd"}
      BY <1>3, <3>1, ChunkTable
    <3>4. ASSUME x = "ChunkDone"  PROVE n = "ChunkEnd"
      <4>1. Chunks[x] = On({"\r"}, "ChunkEnd")
        BY <3>4 DEF Chunks
      <4>. QED  BY <3>1, <4>1 DEF On
    <3>5. ASSUME x = "ChunkEnd"  PROVE n = "SizeStart"
      <4>1. Chunks[x] = On({"\n"}, "SizeStart")
        BY <3>5 DEF Chunks
      <4>. QED  BY <3>1, <4>1 DEF On
    <3>6. x \in {"Trailer", "TrailerName", "TrailerValue"} =>
            n \in {"TrailerName", "TrailerValue", "TrailerValueEnd", "TrailerEnd"}
      BY <1>3, <3>1, ChunkTable
    <3>. QED  BY <3>2, <3>3, <3>4, <3>5, <3>6
  <2>. HIDE DEF n
  <2>3. \/ x = "TrailerEnd" /\ n = "Sent"
        \/ x \in WithSize /\ n \in WithSize
        \/ /\ x \in DOMAIN BodyAt \ (WithSize \union {"Body", "Chunk"})
           /\ n \in DOMAIN BodyAt \ (WithSize \union {"Body", "Chunk"})
    BY <1>3, <2>2, GrammarParts, Parts DEF WithSize
  <2>. QED  BY <2>1, <2>3 DEF n
<1>. QED  BY <1>1, <1>2, <1>3, GrammarAt

LEMMA SizeStep ==
  ASSUME NEW d \in HexDigits, NEW base \in Nat, NEW n \in Nat
  PROVE  base * n + DigitValue[d] \in Nat
BY DEF DigitValue, HexDigits

LEMMA OriginStep ==
  ASSUME OriginInv, [Next]_vars
  PROVE  OriginInv'
<1>1. CASE GoesOn
  <2>1. PICK c \in DOMAIN Grammar[at] : Sends(c, Grammar[at][c])
    BY <1>1 DEF GoesOn
  <2>2. at' = Grammar[at][c] /\ at \in DOMAIN Grammar
        /\ UNCHANGED <<method, status, phrase, framing, swallowed, left>>
    BY <1>1, <2>1 DEF GoesOn, Sends
  <2>. DEFINE n == Grammar[at][c]
  <2>3. \/ at \in DOMAIN StatusAt /\ n \in DOMAIN StatusAt \union {"PhraseStart"}
        \/ at = "PhraseStart" /\ n = "EmptyPhrase"
        \/ at = "EmptyPhrase" /\ n = "FirstLine"
        \/ at = "Phrase" /\ n \in {"Phrase", "PhraseEnd"}
        \/ at = "PhraseEnd" /\ n = "Line"
        \/ at = "FirstLine" /\ n \in {"HeadEnd", "Name"}
        \/ /\ at \in DOMAIN HeadAt \ {"PhraseStart", "Phrase", "PhraseEnd"}
           /\ n \in DOMAIN HeadAt \ {"PhraseStart", "Phrase", "PhraseEnd"}
        \/ at = "LengthName" /\ n = "LengthColon"
        \/ at = "LengthColon" /\ n = "LengthStart"
        \/ at = "Length" /\ n = "FramingEnd"
        \/ at \in DOMAIN CodingAt /\ n \in DOMAIN CodingAt \union {"FramingEnd"}
        \/ at \in WithSize /\ n \in WithSize
        \/ at = "TrailerEnd" /\ n = "Sent"
        \/ /\ at \in DOMAIN BodyAt \ (WithSize \union {"Body", "Chunk"})
           /\ n \in DOMAIN BodyAt \ (WithSize \union {"Body", "Chunk"})
    <3>1. PICK x : x = at
      OBVIOUS
    <3>2. x \in DOMAIN Grammar /\ c \in DOMAIN Grammar[x]
      BY <2>2, <3>1
    <3>. QED  BY <3>1, <3>2, GrammarNext
  <2>. HIDE DEF n
  <2>4. at' = n
    BY <2>2 DEF n
  <2>. QED  BY <2>2, <2>3, <2>4, Parts DEF OriginInv, Early, Late, WithSize
<1>2. CASE SendsCode
  <2>1. PICK d \in Digits : status' = 10 * status + DigitValue[d]
    BY <1>2 DEF SendsCode
  <2>2. status' \in Nat
    BY <2>1 DEF OriginInv, DigitValue, Digits
  <2>3. at \in {"Code0", "Code1", "Code2"} /\ at' \in {"Code1", "Code2", "Code3"}
        /\ UNCHANGED <<method, phrase, framing, swallowed, left>>
    BY <1>2 DEF SendsCode, Sends
  <2>. QED  BY <2>2, <2>3, Parts DEF OriginInv, Early, Late, WithSize
<1>3. CASE SendsPhrase
  BY <1>3, Parts DEF OriginInv, Early, Late, WithSize, SendsPhrase, Sends
<1>4. CASE Announces
  <2>1. /\ at \in {"FirstLine", "Line", "NextLine"} /\ framing = "none"
        /\ \/ at' = "LengthName" /\ framing' = "length"
           \/ at' = "CodingName" /\ framing' = "chunked"
        /\ swallowed' \in BOOLEAN
        /\ UNCHANGED <<method, status, phrase, left>>
    BY <1>4 DEF Announces, Sends
  <2>. QED  BY <2>1, Parts DEF OriginInv, Early, Late, WithSize
<1>5. CASE SendsSize
  <2>1. /\ \/ at \in {"LengthStart", "Length"} /\ at' = "Length"
           \/ at \in {"SizeStart", "Size"} /\ at' = "Size"
        /\ left' \in 0..MaxSize
        /\ UNCHANGED <<method, status, phrase, framing, swallowed>>
    <3>1. Digits \subseteq HexDigits
      BY DEF Digits, HexDigits
    <3>2. ASSUME NEW d \in HexDigits, NEW base \in Nat, NEW next,
                 SendsDigit(d, base, next)
          PROVE  at' = next /\ left' \in 0..MaxSize
                 /\ UNCHANGED <<method, status, phrase, framing, swallowed>>
      <4>1. left \in Nat /\ left' = base * left + DigitValue[d]
        BY <3>2 DEF SendsDigit, OriginInv
      <4>2. PICK n : n = left'
        OBVIOUS
      <4>3. n \in Nat /\ n <= MaxSize
        BY <3>2, <4>1, <4>2, SizeStep DEF SendsDigit
      <4>4. n \in 0..MaxSize
        BY <4>3, MaxSizeAssumption
      <4>. QED  BY <3>2, <4>2, <4>4 DEF SendsDigit, Sends
    <3>3. CASE at \in {"LengthStart", "Length"} /\ \E d \in Digits : SendsDigit(d, 10, "Length")
      BY <3>1, <3>2, <3>3
    <3>4. CASE /\ at \in {"SizeStart", "Size"}
               /\ \E d \in HexDigits : SendsDigit(d, 16, "Size")
      BY <3>2, <3>4
    <3>. QED  BY <1>5, <3>3, <3>4 DEF SendsSize
  <2>. QED  BY <2>1, Parts DEF OriginInv, Early, Late, WithSize
<1>6. CASE EndsHeaders
  <2>1. /\ at = "HeadEnd"
        /\ at' = IF method = "HEAD" THEN "Sent" ELSE IF framing = "chunked" THEN "SizeStart"
                 ELSE IF left > 0 THEN "Body" ELSE "Sent"
        /\ UNCHANGED <<method, status, phrase, framing, swallowed, left>>
    BY <1>6 DEF EndsHeaders, Sends
  <2>. QED  BY <2>1, Parts DEF OriginInv, Early, Late, WithSize
<1>7. CASE EndsSize
  <2>1. /\ at = "SizeEnd" /\ at' = IF left > 0 THEN "Chunk" ELSE "Trailer"
        /\ UNCHANGED <<method, status, phrase, framing, swallowed, left>>
    BY <1>7 DEF EndsSize, Sends
  <2>. QED  BY <2>1, Parts DEF OriginInv, Early, Late, WithSize
<1>8. CASE EndsTrailerLine
  <2>1. /\ at = "TrailerValueEnd" /\ at' = "Trailer"
        /\ UNCHANGED <<method, status, phrase, framing, swallowed, left>>
    BY <1>8 DEF EndsTrailerLine, Sends
  <2>. QED  BY <2>1, Parts DEF OriginInv, Early, Late, WithSize
<1>9. CASE SendsData
  <2>1. /\ \/ at = "Body" /\ at' = IF left = 1 THEN "Sent" ELSE "Body"
           \/ at = "Chunk" /\ at' = IF left = 1 THEN "ChunkDone" ELSE "Chunk"
        /\ left' = left - 1
        /\ UNCHANGED <<method, status, phrase, framing, swallowed>>
    BY <1>9 DEF SendsData, Sends
  <2>2. left \in 0..MaxSize /\ left > 0
    BY <2>1 DEF OriginInv
  <2>3. left' \in 0..MaxSize /\ (left = 1 => left' = 0) /\ (left # 1 => left' > 0)
    BY <2>1, <2>2, MaxSizeAssumption
  <2>. QED  BY <2>1, <2>3, Parts DEF OriginInv, Early, Late, WithSize
<1>10. CASE SendsRest
  <2>1. /\ at = "Rest" \/ (at = "Sent" /\ framing = "none")
        /\ at' = "Rest"
        /\ UNCHANGED <<method, status, phrase, framing, swallowed, left>>
    BY <1>10 DEF SendsRest, Sends
  <2>. QED  BY <2>1, Parts DEF OriginInv, Early, Late, WithSize
<1>11. CASE Closes \/ Closed \/ UNCHANGED vars
  BY <1>11 DEF OriginInv, Closes, Closed, vars
<1>. QED  BY <1>1, <1>2, <1>3, <1>4, <1>5, <1>6, <1>7, <1>8, <1>9, <1>10, <1>11 DEF Next

--------------------------------------------------------------------------------
(* The parser follows it. *)

LEMMA FitsElsewhere ==
  ASSUME parser.state \notin {"HeaderValue", "ChunkSizeNewLine"}
  PROVE  Fits
BY DEF Fits

LEMMA FitsInStatusLine ==
  ASSUME parser.state \in ResponseStates
  PROVE  Fits
BY FitsElsewhere DEF ResponseStates

LEMMA StateAfter ==
  ASSUME ResponseInv, Fits, NEW c, NEW next, Sends(c, next), ~WrongStatus(parser, c)
  PROVE  LET s == parser.state  t == parser'.state
         IN  /\ s \in FinalStates => t = s
             /\ s \in DataStates => t = DataMove(parser, c)
             /\ s \in ResponseStates =>
                  t = IF c \in DOMAIN ResponseMoves[s] THEN ResponseMoves[s][c]
                      ELSE "ParsingError"
             /\ s \in HeaderStates =>
                  t = IF c \in DOMAIN HeaderMoves[s] /\ ~ContinuesNothing(parser, c)
                      THEN HeaderMoves[s][c] ELSE "ParsingError"
             /\ s \in ChunkStates =>
                  t = IF c \in DOMAIN ChunkMoves[s] THEN ChunkMoves[s][c] ELSE "ParsingError"
<1>1. parser'.state = Move(Moves, parser, c)
  BY SendsEffect
<1>2. PICK p : p = parser
  OBVIOUS
<1>. DEFINE t == Move(Moves, p, c)
<1>3. /\ p.state \in FinalStates => t = p.state
      /\ p.state \in DataStates => t = DataMove(p, c)
      /\ p.state \in ResponseStates =>
           t = IF c \in DOMAIN ResponseMoves[p.state] THEN ResponseMoves[p.state][c]
               ELSE "ParsingError"
      /\ p.state \in HeaderStates =>
           t = IF c \in DOMAIN HeaderMoves[p.state] /\ ~ContinuesNothing(p, c)
               THEN HeaderMoves[p.state][c] ELSE "ParsingError"
      /\ p.state \in ChunkStates =>
           t = IF c \in DOMAIN ChunkMoves[p.state] THEN ChunkMoves[p.state][c]
               ELSE "ParsingError"
  BY MoveAt
<1>. HIDE DEF t
<1>4. parser'.state = t
  BY <1>1, <1>2 DEF t
<1>. QED  BY <1>2, <1>3, <1>4

(* Outside the headers, a body and a chunk's size an input leaves nothing.      *)
Noting == {"HeaderLineStart", "HeaderName", "HeaderLws", "HeaderValue", "Post", "ChunkSize",
           "ChunkSizeNewLine", "ChunkData"}

LEMMA NothingLeft ==
  ASSUME ResponseInv, Fits, NEW c, NEW next, Sends(c, next), parser.state \notin Noting
  PROVE  /\ parser'.name = parser.name
         /\ parser'.contentSize = parser.contentSize /\ parser'.chunked = parser.chunked
         /\ parser'.chunkSizeStr = parser.chunkSizeStr
<1>1. Leaves(parser, c, parser.number.n, TRUE, parser')
  BY SendsEffect
<1>2. /\ ~BeginsName(parser, c) /\ ~EndsValue(parser, c) /\ ~EndsSizeLine(parser, c)
      /\ parser.state \notin {"HeaderName", "Post", "ChunkSize"}
  BY DEF Noting, BeginsName, EndsValue, EndsSizeLine
<1>. QED  BY <1>1, <1>2 DEF Leaves

LEMMA NotNoting ==
  ResponseStates \intersect Noting = {}
BY DEF ResponseStates, Noting

CodeStates == {"ResponseHttpVersion_statusCodeStart", "ResponseHttpVersion_statusCode"}

(* Where the status code is not read, it does not change. *)
LEMMA CodeKept ==
  ASSUME ResponseInv, NEW c, NEW next, Sends(c, next),
         parser.state \notin CodeStates \/ c \notin Digits
  PROVE  parser'.statusCode = parser.statusCode
<1>1. PICK p : p = parser
  OBVIOUS
<1>2. p.state \notin CodeStates \/ c \notin Digits
  BY <1>1
<1>3. DOMAIN p = Fields \union {"statusCode"}
  BY <1>1 DEF ResponseInv
<1>4. NoteResponse(p, c).statusCode = p.statusCode
  BY <1>2, <1>3, NoteResponseLeaves DEF CodeStates
<1>. QED  BY <1>1, <1>4, SendsMove

(* The states of the status line, seen from the origin. *)
LEMMA StatusStates ==
  \A x \in DOMAIN StatusAt :
    /\ StatusAt[x] \in ResponseStates
    /\ x = "Code0" <=> StatusAt[x] = "ResponseHttpVersion_statusCodeStart"
    /\ x \in {"Code1", "Code2", "Code3"} <=> StatusAt[x] = "ResponseHttpVersion_statusCode"
BY DEF StatusAt, ResponseStates

LEMMA DigitTable ==
  /\ \A d \in Digits :
       /\ d \in DOMAIN ResponseMoves["ResponseHttpVersion_statusCodeStart"]
       /\ ResponseMoves["ResponseHttpVersion_statusCodeStart"][d]
            = "ResponseHttpVersion_statusCode"
       /\ d \in DOMAIN ResponseMoves["ResponseHttpVersion_statusCode"]
       /\ ResponseMoves["ResponseHttpVersion_statusCode"][d]
            = "ResponseHttpVersion_statusCode"
       /\ DigitValue[d] \in 0..2
  /\ DigitValue["2"] = 2
<1>1. ResponseMoves["ResponseHttpVersion_statusCodeStart"]
        = On(Digits, "ResponseHttpVersion_statusCode")
  BY DEF ResponseMoves
<1>2. ResponseMoves["ResponseHttpVersion_statusCode"]
        = On({" "}, "ResponseHttpVersion_statusTextStart")
            ++ On(Digits, "ResponseHttpVersion_statusCode")
  BY DEF ResponseMoves
<1>3. " " \notin Digits
  BY DEF Digits
<1>4. (\A d \in Digits : DigitValue[d] \in 0..2) /\ DigitValue["2"] = 2
  BY DEF Digits, DigitValue
<1>5. \A d \in Digits :
        /\ d \in DOMAIN ResponseMoves["ResponseHttpVersion_statusCodeStart"]
        /\ ResponseMoves["ResponseHttpVersion_statusCodeStart"][d]
             = "ResponseHttpVersion_statusCode"
  BY <1>1 DEF On
<1>6. \A d \in Digits :
        /\ d \in DOMAIN ResponseMoves["ResponseHttpVersion_statusCode"]
        /\ ResponseMoves["ResponseHttpVersion_statusCode"][d]
             = "ResponseHttpVersion_statusCode"
  BY <1>2, <1>3 DEF On, ++
<1>. QED  BY <1>4, <1>5, <1>6

(* What the origin sends outside the status line leads nowhere in it, and       *)
(* leaves what it has sent of the code.                                         *)
LEMMA OutsideStatus ==
  ASSUME OriginInv, [Next]_vars, ~GoesOn, ~SendsCode
  PROVE  /\ status' = status
         /\ at' \in DOMAIN StatusAt \union {"PhraseStart"} => at' = at
         /\ at \in DOMAIN StatusAt => at' = at /\ parser' = parser
<1>1. CASE SendsPhrase
  BY <1>1, Parts DEF SendsPhrase, Sends
<1>2. CASE Announces
  <2>1. /\ at \in {"FirstLine", "Line", "NextLine"} /\ at' \in {"LengthName", "CodingName"}
        /\ status' = status
    BY <1>2 DEF Announces, Sends
  <2>. QED  BY <2>1, Parts
<1>3. CASE SendsSize
  <2>1. /\ at \in {"LengthStart", "Length", "SizeStart", "Size"} /\ at' \in {"Length", "Size"}
        /\ status' = status
    BY <1>3 DEF SendsSize, SendsDigit, Sends
  <2>. QED  BY <2>1, Parts
<1>4. CASE EndsHeaders
  <2>1. at = "HeadEnd" /\ at' \in {"Sent", "SizeStart", "Body"} /\ status' = status
    BY <1>4 DEF EndsHeaders, Sends
  <2>. QED  BY <2>1, Parts
<1>5. CASE EndsSize \/ EndsTrailerLine
  <2>1. /\ at \in {"SizeEnd", "TrailerValueEnd"} /\ at' \in {"Chunk", "Trailer"}
        /\ status' = status
    BY <1>5 DEF EndsSize, EndsTrailerLine, Sends
  <2>. QED  BY <2>1, Parts
<1>6. CASE SendsData
  <2>1. /\ at \in {"Body", "Chunk"} /\ at' \in {"Sent", "Body", "ChunkDone", "Chunk"}
        /\ status' = status
    BY <1>6 DEF SendsData, Sends
  <2>. QED  BY <2>1, Parts
<1>7. CASE SendsRest
  <2>1. at \in {"Rest", "Sent"} /\ at' = "Rest" /\ status' = status
    BY <1>7 DEF SendsRest, Sends
  <2>. QED  BY <2>1, Parts
<1>8. CASE Closes \/ Closed \/ UNCHANGED vars
  BY <1>8 DEF Closes, Closed, vars
<1>. QED  BY <1>1, <1>2, <1>3, <1>4, <1>5, <1>6, <1>7, <1>8 DEF Next

(* In the status line one more character of what is the same for every answer,  *)
(* or the blank after the code.                                                 *)
LEMMA StatusGoesOn ==
  ASSUME ResponseInv, OriginInv, StatusInv, GoesOn, at \in DOMAIN StatusAt
  PROVE  /\ at' \in DOMAIN StatusAt \ {"Code1", "Code2", "Code3"} \/ at' = "PhraseStart"
         /\ at' \in DOMAIN StatusAt => parser'.state = StatusAt[at'] /\ at # "Code3"
         /\ at' = "PhraseStart" => parser'.state = HeadAt[at'] /\ at = "Code3"
         /\ parser'.name = "" /\ NothingNoted'
         /\ parser'.statusCode = status' /\ status' = status
<1>1. PICK c \in DOMAIN Grammar[at] : Sends(c, Grammar[at][c])
  BY DEF GoesOn
<1>2. PICK x : x = at
  OBVIOUS
<1>3. /\ x \in DOMAIN StatusAt \intersect DOMAIN StatusLine /\ c \in DOMAIN StatusLine[x]
      /\ Grammar[x] = StatusLine[x]
  BY <1>1, <1>2, GrammarAt, GrammarParts, Parts DEF GoesOn
<1>4. LET s == StatusAt[x]  n == StatusLine[x][c]
      IN  /\ s \in ResponseStates /\ c \in DOMAIN ResponseMoves[s]
          /\ x # "Code3" => /\ n \in DOMAIN StatusAt \ {"Code1", "Code2", "Code3"}
                           /\ ResponseMoves[s][c] = StatusAt[n]
          /\ x = "Code3" => /\ c = " " /\ n = "PhraseStart"
                           /\ ResponseMoves[s][c] = HeadAt[n]
  BY <1>3, StatusLineTable
<1>. DEFINE n == StatusLine[x][c]
<1>. HIDE DEF n
<1>5. /\ StatusAt[x] \in ResponseStates /\ c \in DOMAIN ResponseMoves[StatusAt[x]]
      /\ x # "Code3" => /\ n \in DOMAIN StatusAt \ {"Code1", "Code2", "Code3"}
                       /\ ResponseMoves[StatusAt[x]][c] = StatusAt[n]
      /\ x = "Code3" => /\ c = " " /\ n = "PhraseStart"
                       /\ ResponseMoves[StatusAt[x]][c] = HeadAt[n]
  BY <1>4 DEF n
<1>6. Sends(c, n) /\ at' = n
  BY <1>1, <1>2, <1>3 DEF n, Sends
<1>7. parser.state = StatusAt[x] /\ parser.name = "" /\ NothingNoted
      /\ parser.statusCode = status
  BY <1>2, <1>3 DEF StatusInv
<1>8. x \notin {"Code0", "Code1", "Code2"} /\ Fits
  BY <1>3, <1>5, <1>7, GrammarParts, FitsInStatusLine
<1>9. ~WrongStatus(parser, c)
  <2>1. CASE x = "Code3"
    <3>1. status \in 200..299
      <4>1. at = "Code3" /\ at \in DOMAIN StatusAt
        BY <1>2, <1>3, <2>1
      <4>2. at = "Code3" => status \in 200..299
        BY <4>1 DEF StatusInv
      <4>. QED  BY <4>1, <4>2
    <3>2. PICK w \in 200..299 : parser.statusCode = w
      BY <1>7, <3>1
    <3>3. w \in 100..999
      OBVIOUS
    <3>. QED  BY <3>2, <3>3 DEF WrongStatus
  <2>2. CASE x # "Code3"
    <3>1. StatusAt[x] # "ResponseHttpVersion_statusCode"
      BY <1>3, <1>8, <2>2, StatusStates, Zenon
    <3>. QED  BY <1>7, <3>1 DEF WrongStatus
  <2>. QED  BY <2>1, <2>2
<1>10. parser'.state = ResponseMoves[StatusAt[x]][c]
  BY <1>5, <1>6, <1>7, <1>8, <1>9, StateAfter
<1>11. parser'.name = "" /\ NothingNoted'
  <2>1. parser.state \notin Noting
    BY <1>5, <1>7, NotNoting
  <2>2. /\ parser'.name = parser.name /\ parser'.contentSize = parser.contentSize
        /\ parser'.chunked = parser.chunked /\ parser'.chunkSizeStr = parser.chunkSizeStr
    BY <1>6, <1>8, <2>1, NothingLeft
  <2>. QED  BY <1>7, <2>2 DEF NothingNoted
<1>12. parser'.statusCode = parser.statusCode
  <2>1. parser.state \notin CodeStates \/ c \notin Digits
    <3>1. CASE x = "Code3"
      BY <1>5, <3>1 DEF Digits
    <3>2. CASE x # "Code3"
      BY <1>3, <1>7, <1>8, <3>2, StatusStates DEF CodeStates
    <3>. QED  BY <3>1, <3>2
  <2>. QED  BY <1>6, <2>1, CodeKept
<1>13. status' = status
  BY DEF GoesOn
<1>14. /\ n \in DOMAIN StatusAt \ {"Code1", "Code2", "Code3"} \/ n = "PhraseStart"
       /\ n \in DOMAIN StatusAt => parser'.state = StatusAt[n] /\ x # "Code3"
       /\ n = "PhraseStart" => parser'.state = HeadAt[n] /\ x = "Code3"
  BY <1>5, <1>10, Parts
<1>. QED  BY <1>2, <1>6, <1>7, <1>11, <1>12, <1>13, <1>14

LEMMA CodeStep ==
  ASSUME ResponseInv, OriginInv, StatusInv, SendsCode
  PROVE  StatusInv' /\ at' \in DOMAIN StatusAt
<1>1. PICK d \in Digits :
        /\ \/ at = "Code0" /\ d = "2" /\ Sends(d, "Code1")
           \/ at = "Code1" /\ Sends(d, "Code2")
           \/ at = "Code2" /\ Sends(d, "Code3")
        /\ status' = 10 * status + DigitValue[d]
  BY DEF SendsCode
<1>2. PICK n : Sends(d, n) /\ \/ at = "Code0" /\ d = "2" /\ n = "Code1"
                              \/ at = "Code1" /\ n = "Code2"
                              \/ at = "Code2" /\ n = "Code3"
  BY <1>1
<1>3. at \in DOMAIN StatusAt /\ n \in DOMAIN StatusAt /\ at' = n
  BY <1>2, Parts DEF Sends
<1>4. /\ parser.state = StatusAt[at] /\ parser.name = "" /\ NothingNoted
      /\ parser.statusCode = status
      /\ at = "Code0" => status = 0
      /\ at = "Code1" => status = 2
      /\ at = "Code2" => status \in 20..29
  BY <1>3 DEF StatusInv
<1>5. /\ StatusAt["Code0"] = "ResponseHttpVersion_statusCodeStart"
      /\ StatusAt["Code1"] = "ResponseHttpVersion_statusCode"
      /\ StatusAt["Code2"] = "ResponseHttpVersion_statusCode"
      /\ StatusAt["Code3"] = "ResponseHttpVersion_statusCode"
  BY DEF StatusAt
<1>6. ~WrongStatus(parser, d)
  BY DEF WrongStatus
<1>7. parser.state \in {"ResponseHttpVersion_statusCodeStart", "ResponseHttpVersion_statusCode"}
      /\ parser.state \in ResponseStates /\ parser.state \notin Noting /\ Fits
      /\ (at = "Code0" <=> parser.state = "ResponseHttpVersion_statusCodeStart")
  <2>1. parser.state \in {"ResponseHttpVersion_statusCodeStart", "ResponseHttpVersion_statusCode"}
        /\ (at = "Code0" <=> parser.state = "ResponseHttpVersion_statusCodeStart")
    BY <1>2, <1>4, <1>5
  <2>2. parser.state \in ResponseStates /\ parser.state \notin Noting
    BY <2>1 DEF ResponseStates, Noting
  <2>. QED  BY <2>1, <2>2, FitsInStatusLine
<1>8. parser'.state = "ResponseHttpVersion_statusCode"
  BY <1>2, <1>6, <1>7, StateAfter, DigitTable
<1>9. parser'.name = "" /\ NothingNoted'
  <2>1. /\ parser'.name = parser.name /\ parser'.contentSize = parser.contentSize
        /\ parser'.chunked = parser.chunked /\ parser'.chunkSizeStr = parser.chunkSizeStr
    BY <1>2, <1>7, NothingLeft
  <2>. QED  BY <1>4, <2>1 DEF NothingNoted
<1>10. parser'.statusCode = IF at = "Code0" THEN DigitValue[d] ELSE 10 * status + DigitValue[d]
  <2>1. PICK p : p = parser
    OBVIOUS
  <2>2. DOMAIN p = Fields \union {"statusCode"}
    BY <2>1 DEF ResponseInv
  <2>3. NoteResponse(p, d).statusCode = IF p.state = "ResponseHttpVersion_statusCodeStart"
                                        THEN DigitValue[d] ELSE 10 * p.statusCode + DigitValue[d]
    BY <1>7, <2>1, <2>2, NoteResponseLeaves
  <2>4. parser'.statusCode = NoteResponse(parser, d).statusCode
    BY <1>2, SendsMove
  <2>. QED  BY <1>4, <1>7, <2>1, <2>3, <2>4
<1>11. /\ parser'.statusCode = status'
       /\ at = "Code0" => status' = 2
       /\ at = "Code1" => status' \in 20..29
       /\ at = "Code2" => status' \in 200..299
  <2>1. PICK v \in 0..2 : v = DigitValue[d] /\ (d = "2" => v = 2)
    BY DigitTable
  <2>2. CASE at = "Code0"
    <3>1. v = 2 /\ status = 0 /\ status' = 10 * status + v /\ parser'.statusCode = v
      BY <1>1, <1>2, <1>4, <1>10, <2>1, <2>2
    <3>. QED  BY <2>2, <3>1
  <2>3. CASE at = "Code1"
    <3>1. status = 2 /\ status' = 10 * status + v /\ parser'.statusCode = 10 * status + v
      BY <1>1, <1>4, <1>10, <2>1, <2>3
    <3>. QED  BY <2>3, <3>1
  <2>4. CASE at = "Code2"
    <3>1. /\ status \in 20..29
          /\ status' = 10 * status + v /\ parser'.statusCode = 10 * status + v
      BY <1>1, <1>4, <1>10, <2>1, <2>4
    <3>. QED  BY <2>4, <3>1
  <2>. QED  BY <1>2, <2>2, <2>3, <2>4
<1>12. parser'.state = StatusAt[n]
  BY <1>2, <1>5, <1>8
<1>. QED  BY <1>2, <1>3, <1>9, <1>11, <1>12 DEF StatusInv

LEMMA StatusStep ==
  ASSUME ResponseInv, OriginInv, StatusInv, [Next]_vars
  PROVE  StatusInv'
<1>1. CASE GoesOn
  <2>1. CASE at \in DOMAIN StatusAt
    <3>1. at' \in DOMAIN StatusAt => at # "Code3" /\ at \notin {"Code1", "Code2"}
      <4>1. at \in DOMAIN Grammar
        BY <1>1 DEF GoesOn
      <4>2. at \notin {"Code1", "Code2"}
        BY <4>1, GrammarAt, GrammarParts
      <4>. QED  BY <1>1, <2>1, <4>2, StatusGoesOn
    <3>2. at' \in DOMAIN StatusAt => status' = 0 /\ at' \notin {"Code1", "Code2", "Code3"}
      <4>1. at' \in DOMAIN StatusAt => status = 0
        BY <2>1, <3>1 DEF StatusInv
      <4>. QED  BY <1>1, <2>1, <4>1, StatusGoesOn, Parts
    <3>3. at' \in DOMAIN StatusAt =>
            /\ parser'.state = StatusAt[at'] /\ parser'.name = "" /\ NothingNoted'
            /\ parser'.statusCode = status'
      BY <1>1, <2>1, StatusGoesOn
    <3>. QED  BY <3>2, <3>3 DEF StatusInv
  <2>2. CASE at \notin DOMAIN StatusAt
    <3>1. PICK c \in DOMAIN Grammar[at] : at' = Grammar[at][c] /\ at \in DOMAIN Grammar
      BY <1>1 DEF GoesOn, Sends
    <3>2. PICK x : x = at
      OBVIOUS
    <3>3. Grammar[x][c] \notin DOMAIN StatusAt
      <4>1. x \in DOMAIN Grammar /\ c \in DOMAIN Grammar[x] /\ x \notin DOMAIN StatusAt
        BY <2>2, <3>1, <3>2
      <4>. DEFINE n == Grammar[x][c]
      <4>2. n \in {"EmptyPhrase", "Phrase", "PhraseEnd", "FirstLine", "Sent"}
              \union (DOMAIN HeadAt \ {"PhraseStart"}) \union DOMAIN LengthAt
              \union DOMAIN CodingAt \union DOMAIN BodyAt
        BY <4>1, GrammarNext, Parts DEF WithSize
      <4>. HIDE DEF n
      <4>3. n \notin DOMAIN StatusAt
        BY <4>2, Parts
      <4>. QED  BY <4>3 DEF n
    <3>4. at' \notin DOMAIN StatusAt
      BY <3>1, <3>2, <3>3
    <3>. QED  BY <3>4 DEF StatusInv
  <2>. QED  BY <2>1, <2>2
<1>2. CASE SendsCode
  BY <1>2, CodeStep
<1>3. CASE ~GoesOn /\ ~SendsCode
  <2>1. at' \in DOMAIN StatusAt => at' = at /\ parser' = parser /\ status' = status
    BY <1>3, OutsideStatus
  <2>2. CASE at' \notin DOMAIN StatusAt
    BY <2>2 DEF StatusInv
  <2>3. CASE at' \in DOMAIN StatusAt
    <3>1. at' = at /\ parser' = parser /\ status' = status /\ at \in DOMAIN StatusAt
      BY <2>1, <2>3
    <3>2. NothingNoted' <=> NothingNoted
      BY <3>1 DEF NothingNoted
    <3>3. /\ parser.state = StatusAt[at] /\ parser.name = "" /\ NothingNoted
          /\ parser.statusCode = status
      BY <3>1 DEF StatusInv
    <3>4. /\ at \notin {"Code1", "Code2", "Code3"} => status = 0
          /\ at = "Code1" => status = 2
          /\ at = "Code2" => status \in 20..29
          /\ at = "Code3" => status \in 200..299
      BY <3>1 DEF StatusInv
    <3>5. /\ parser'.state = StatusAt[at'] /\ parser'.name = "" /\ NothingNoted'
          /\ parser'.statusCode = status'
      BY <3>1, <3>2, <3>3
    <3>6. /\ at' \notin {"Code1", "Code2", "Code3"} => status' = 0
          /\ at' = "Code1" => status' = 2
          /\ at' = "Code2" => status' \in 20..29
          /\ at' = "Code3" => status' \in 200..299
      BY <3>1, <3>4
    <3>. QED  BY <3>5, <3>6 DEF StatusInv
  <2>. QED  BY <2>2, <2>3
<1>. QED  BY <1>1, <1>2, <1>3

PhraseStates ==
  {"ResponseHttpVersion_statusTextStart", "ResponseHttpVersion_statusText",
   "ResponseHttpVersion_newLine"}

LEMMA PhraseMove ==
  ASSUME NEW s \in PhraseStates, NEW c \in DOMAIN ResponseMoves[s]
  PROVE  ResponseMoves[s][c] \in PhraseStates \union {"HeaderLineStart"}
<1>1. CASE s = "ResponseHttpVersion_statusTextStart"
  <2>1. ResponseMoves[s] = On(Char, "ResponseHttpVersion_statusText")
    BY <1>1 DEF ResponseMoves
  <2>. QED  BY <2>1 DEF On, PhraseStates
<1>2. CASE s = "ResponseHttpVersion_statusText"
  <2>1. ResponseMoves[s] = On({"\r"}, "ResponseHttpVersion_newLine")
                             ++ On(Char, "ResponseHttpVersion_statusText")
    BY <1>2 DEF ResponseMoves
  <2>. QED  BY <2>1 DEF On, ++, PhraseStates
<1>3. CASE s = "ResponseHttpVersion_newLine"
  <2>1. ResponseMoves[s] = On({"\n"}, "HeaderLineStart")
    BY <1>3 DEF ResponseMoves
  <2>. QED  BY <2>1 DEF On, PhraseStates
<1>. QED  BY <1>1, <1>2, <1>3 DEF PhraseStates

LEMMA SettledMove ==
  ASSUME ResponseInv, parser.state \in SettledStates, NEW c, NEW next, Sends(c, next)
  PROVE  parser'.state \in SettledStates /\ parser'.statusCode = parser.statusCode
<1>1. PICK p : p = parser
  OBVIOUS
<1>2. CountersInv(p) /\ p.state \in SettledStates
  BY <1>1 DEF ResponseInv
<1>3. SettledStates = PhraseStates \union HeaderStates \union ChunkStates \union DataStates
                        \union FinalStates
  BY KindsOfStates DEF SettledStates, PhraseStates
<1>4. p.state \notin CodeStates
  BY <1>2, <1>3 DEF PhraseStates, HeaderStates, ChunkStates, DataStates, FinalStates, CodeStates
<1>5. parser'.statusCode = parser.statusCode
  BY <1>1, <1>4, CodeKept
<1>6. ~WrongStatus(parser, c)
  BY <1>1, <1>4 DEF WrongStatus, CodeStates
<1>. DEFINE t == Move(Moves, p, c)
<1>7. /\ p.state \in FinalStates => t = p.state
      /\ p.state \in DataStates => t = DataMove(p, c)
      /\ p.state \in ResponseStates =>
           t = IF c \in DOMAIN ResponseMoves[p.state] THEN ResponseMoves[p.state][c]
               ELSE "ParsingError"
      /\ p.state \in HeaderStates =>
           \/ t = "ParsingError"
           \/ c \in DOMAIN HeaderMoves[p.state] /\ t = HeaderMoves[p.state][c]
      /\ p.state \in ChunkStates =>
           t = IF c \in DOMAIN ChunkMoves[p.state] THEN ChunkMoves[p.state][c]
               ELSE "ParsingError"
  BY MoveAt
<1>. HIDE DEF t
<1>8. /\ "ParsingError" \in FinalStates /\ {"Post", "ChunkData"} \subseteq DataStates
      /\ "ParsingCompleted" \in FinalStates /\ "HeaderLineStart" \in HeaderStates
      /\ {"ExpectingNewline_3", "ChunkSizeNewLine"} \subseteq DataStates
      /\ PhraseStates \subseteq ResponseStates /\ "ExceptionThrown" \in FinalStates
  BY DEF FinalStates, DataStates, HeaderStates, PhraseStates, ResponseStates
<1>9. t \in SettledStates
  <2>1. CASE p.state \in PhraseStates
    BY <1>3, <1>7, <1>8, <2>1, PhraseMove
  <2>2. CASE p.state \in HeaderStates
    BY <1>3, <1>7, <1>8, <2>2, HeaderMove
  <2>3. CASE p.state \in ChunkStates
    BY <1>3, <1>7, <1>8, <2>3, ChunkMove
  <2>4. CASE p.state \in DataStates
    BY <1>2, <1>3, <1>7, <1>8, <2>4, DataMoveEffect
  <2>5. CASE p.state \in FinalStates
    BY <1>3, <1>7, <2>5
  <2>. QED  BY <1>2, <1>3, <2>1, <2>2, <2>3, <2>4, <2>5
<1>10. parser'.state \in {t, "ExceptionThrown"}
  BY <1>1, <1>6, SendsMove DEF t
<1>. QED  BY <1>3, <1>5, <1>8, <1>9, <1>10

LEMMA SettledStep ==
  ASSUME ResponseInv, OriginInv, StatusInv, SettledInv, [Next]_vars
  PROVE  SettledInv'
<1>1. CASE at \in DOMAIN StatusAt
  <2>1. CASE GoesOn
    <3>1. at' \notin DOMAIN StatusAt => at' = "PhraseStart"
      BY <1>1, <2>1, StatusGoesOn
    <3>2. at' = "PhraseStart" => parser'.state = HeadAt["PhraseStart"]
      BY <1>1, <2>1, StatusGoesOn
    <3>3. HeadAt["PhraseStart"] \in SettledStates
      BY DEF HeadAt, SettledStates
    <3>. QED  BY <1>1, <2>1, <3>1, <3>2, <3>3, StatusGoesOn DEF SettledInv
  <2>2. CASE SendsCode
    BY <2>2, CodeStep DEF SettledInv
  <2>3. CASE ~GoesOn /\ ~SendsCode
    BY <1>1, <2>3, OutsideStatus DEF SettledInv
  <2>. QED  BY <2>1, <2>2, <2>3
<1>2. CASE at \notin DOMAIN StatusAt
  <2>1. status' = status
    <3>1. ~SendsCode
      BY <1>2, Parts DEF SendsCode
    <3>2. CASE GoesOn
      BY <3>2 DEF GoesOn
    <3>3. CASE ~GoesOn
      BY <3>1, <3>3, OutsideStatus
    <3>. QED  BY <3>2, <3>3
  <2>2. parser.state \in SettledStates /\ parser.statusCode = status
    BY <1>2 DEF SettledInv
  <2>3. CASE \E c, next : Sends(c, next)
    BY <2>1, <2>2, <2>3, SettledMove DEF SettledInv
  <2>4. CASE parser' = parser
    BY <2>1, <2>2, <2>4 DEF SettledInv
  <2>. QED  BY <2>3, <2>4, SendsOrNot
<1>. QED  BY <1>1, <1>2

LEMMA VerdictStep ==
  ASSUME VerdictInv, [Next]_vars
  PROVE  VerdictInv'
<1>1. CASE \E c, next : Sends(c, next)
  BY <1>1 DEF VerdictInv, Sends, Open
<1>2. CASE Closes
  BY <1>2 DEF VerdictInv, Closes, Open
<1>3. CASE Closed \/ UNCHANGED vars
  BY <1>3 DEF VerdictInv, Closed, Open, vars, IsResponseStatusIs200, ParseResult
<1>4. CASE GoesOn \/ SendsCode \/ SendsPhrase \/ Announces \/ SendsSize \/ EndsHeaders \/ EndsSize
           \/ EndsTrailerLine \/ SendsData \/ SendsRest
  <2>1. CASE GoesOn
    BY <1>1, <2>1 DEF GoesOn
  <2>2. CASE SendsSize
    BY <1>1, <2>2, Zenon DEF SendsSize, SendsDigit
  <2>3. CASE SendsCode \/ SendsPhrase \/ Announces \/ EndsHeaders \/ EndsSize \/ EndsTrailerLine
             \/ SendsData \/ SendsRest
    BY <1>1, <2>3, Zenon DEF SendsCode, SendsPhrase, Announces, EndsHeaders, EndsSize,
         EndsTrailerLine, SendsData, SendsRest
  <2>. QED  BY <1>4, <2>1, <2>2, <2>3
<1>. QED  BY <1>2, <1>3, <1>4 DEF Next

LEMMA Keeps ==
  ASSUME OriginInv, [Next]_vars, at \notin DOMAIN StatusAt
  PROVE  /\ ~SendsCode
         /\ at # "PhraseStart" => phrase' = phrase /\ at' # "PhraseStart"
         /\ ~Announces => framing' = framing /\ swallowed' = swallowed
         /\ at \in {"Sent", "Rest"} => at' \in {"Sent", "Rest"} /\ framing' = framing
<1>0. ~SendsCode
  BY Parts DEF SendsCode
<1>1. CASE GoesOn
  <2>1. PICK c \in DOMAIN Grammar[at] : at' = Grammar[at][c] /\ at \in DOMAIN Grammar
    BY <1>1 DEF GoesOn, Sends
  <2>2. PICK x : x = at
    OBVIOUS
  <2>3. x \notin {"Sent", "Rest"}
    BY <2>1, <2>2, GrammarAt, GrammarParts
  <2>4. x # "PhraseStart" => Grammar[x][c] # "PhraseStart"
    <3>1. x \in DOMAIN Grammar /\ c \in DOMAIN Grammar[x] /\ x \notin DOMAIN StatusAt
      BY <2>1, <2>2
    <3>. DEFINE n == Grammar[x][c]
    <3>2. n \in {"EmptyPhrase", "Phrase", "PhraseEnd", "FirstLine", "Sent"}
              \union (DOMAIN HeadAt \ {"PhraseStart"}) \union DOMAIN LengthAt
              \union DOMAIN CodingAt \union DOMAIN BodyAt
      BY <3>1, GrammarNext, Parts DEF WithSize
    <3>. HIDE DEF n
    <3>3. n # "PhraseStart"
      BY <3>2, Parts
    <3>. QED  BY <3>3 DEF n
  <2>5. UNCHANGED <<phrase, framing, swallowed>>
    BY <1>1 DEF GoesOn
  <2>. QED  BY <1>0, <2>1, <2>2, <2>3, <2>4, <2>5
<1>2. CASE SendsPhrase
  BY <1>0, <1>2 DEF SendsPhrase
<1>3. CASE Announces
  <2>1. /\ at \in {"FirstLine", "Line", "NextLine"} /\ at' \in {"LengthName", "CodingName"}
        /\ phrase' = phrase
    BY <1>3 DEF Announces, Sends
  <2>. QED  BY <1>0, <1>3, <2>1
<1>4. CASE SendsSize
  <2>1. /\ at \in {"LengthStart", "Length", "SizeStart", "Size"} /\ at' \in {"Length", "Size"}
        /\ UNCHANGED <<phrase, framing, swallowed>>
    BY <1>4 DEF SendsSize, SendsDigit, Sends
  <2>. QED  BY <1>0, <2>1
<1>5. CASE EndsHeaders
  <2>1. /\ at = "HeadEnd" /\ at' \in {"Sent", "SizeStart", "Body"}
        /\ UNCHANGED <<phrase, framing, swallowed>>
    BY <1>5 DEF EndsHeaders, Sends
  <2>. QED  BY <1>0, <2>1
<1>6. CASE EndsSize \/ EndsTrailerLine
  <2>1. /\ at \in {"SizeEnd", "TrailerValueEnd"} /\ at' \in {"Chunk", "Trailer"}
        /\ UNCHANGED <<phrase, framing, swallowed>>
    BY <1>6 DEF EndsSize, EndsTrailerLine, Sends
  <2>. QED  BY <1>0, <2>1
<1>7. CASE SendsData
  <2>1. /\ at \in {"Body", "Chunk"} /\ at' \in {"Sent", "Body", "ChunkDone", "Chunk"}
        /\ UNCHANGED <<phrase, framing, swallowed>>
    BY <1>7 DEF SendsData, Sends
  <2>. QED  BY <1>0, <2>1
<1>8. CASE SendsRest
  <2>1. at' = "Rest" /\ UNCHANGED <<phrase, framing, swallowed>>
    BY <1>8 DEF SendsRest, Sends
  <2>. QED  BY <1>0, <2>1
<1>9. CASE Closes \/ Closed \/ UNCHANGED vars
  BY <1>0, <1>9 DEF Closes, Closed, vars
<1>. QED  BY <1>0, <1>1, <1>2, <1>3, <1>4, <1>5, <1>6, <1>7, <1>8, <1>9 DEF Next

(* What has gone wrong after an empty phrase stays wrong. *)
LEMMA FailedStep ==
  ASSUME ResponseInv, OriginInv, Failed, at \notin DOMAIN StatusAt, [Next]_vars
  PROVE  Failed'
<1>1. ~phrase' /\ at' # "PhraseStart"
  BY Keeps DEF Failed
<1>2. CASE parser.state = "ParsingError"
  <2>1. CASE \E c, next : Sends(c, next)
    <3>1. PICK c, next : Sends(c, next)
      BY <2>1
    <3>2. ~WrongStatus(parser, c) /\ parser.state \in FinalStates /\ Fits
      BY <1>2, FitsElsewhere DEF WrongStatus, FinalStates
    <3>3. parser'.state = parser.state
      BY <3>1, <3>2, StateAfter
    <3>. QED  BY <1>1, <1>2, <3>3 DEF Failed
  <2>2. CASE parser' = parser
    BY <1>1, <1>2, <2>2 DEF Failed
  <2>. QED  BY <2>1, <2>2, SendsOrNot
<1>3. CASE swallowed
  <2>1. ~Announces
    BY <1>3 DEF Announces, OriginInv
  <2>. QED  BY <1>1, <1>3, <2>1, Keeps DEF Failed
<1>4. CASE framing = "none" /\ at \in {"Sent", "Rest"}
  BY <1>1, <1>4, Keeps DEF Failed
<1>. QED  BY <1>2, <1>3, <1>4 DEF Failed

(* In a header line. *)
LEMMA HeaderLeaves ==
  ASSUME NEW p, NEW c, NEW q, Leaves(p, c, p.number.n, TRUE, q), p.state \in HeaderStates
  PROVE  /\ q.chunkSizeStr = p.chunkSizeStr
         /\ q.contentSize = IF EndsValue(p, c) /\ p.name = "Content-Length" THEN p.number.n
                            ELSE p.contentSize
         /\ q.chunked = IF EndsValue(p, c) /\ p.name = "Transfer-Encoding" /\ p.value = "chunked"
                        THEN TRUE ELSE p.chunked
<1>1. p.state \notin {"Post", "ChunkSize", "ChunkData", "ChunkSizeNewLine"}
  BY DEF HeaderStates
<1>2. ~EndsSizeLine(p, c)
  BY <1>1 DEF EndsSizeLine
<1>. QED  BY <1>1, <1>2 DEF Leaves, TellsLength

LEMMA PushEffect ==
  /\ \A c : Push("", c) # ""
  /\ \A c : c \notin Framings => Push("", c) \notin Framings
  /\ \A c \in Words : Push("", c) = c
  /\ \A s, c : s # "" => Push(s, c) = "other"
<1>1. "" \notin Words
  BY DEF Words
<1>2. "other" \notin Framings /\ "other" # ""
  BY DEF Framings
<1>. QED  BY <1>1, <1>2 DEF Push

(* Where the origin is, by the state of the parser. *)
LEMMA HeadStates ==
  \A x \in DOMAIN HeadAt :
    /\ HeadAt[x] = "HeaderLineStart" <=> x \in {"Line", "NextLine"}
    /\ HeadAt[x] = "HeaderName" <=> x = "Name"
    /\ HeadAt[x] = "HeaderValue" <=> x = "Value"
    /\ HeadAt[x] = "ExpectingNewline_3" <=> x = "HeadEnd"
    /\ HeadAt[x] \in PhraseStates <=> x \in {"PhraseStart", "Phrase", "PhraseEnd"}
BY DEF HeadAt, PhraseStates

(* The reason phrase goes on. *)
LEMMA PhraseGoesOn ==
  ASSUME ResponseInv, Fits, OriginInv, InHead, GoesOn, at \in DOMAIN StatusLine
  PROVE  Misread' \/ InHead'
<1>1. PICK c \in DOMAIN Grammar[at] : Sends(c, Grammar[at][c])
  BY DEF GoesOn
<1>2. PICK x : x = at
  OBVIOUS
<1>3. x \in DOMAIN HeadAt \intersect DOMAIN StatusLine
  BY <1>2 DEF InHead
<1>4. Grammar[x] = StatusLine[x] /\ c \in DOMAIN StatusLine[x]
  BY <1>1, <1>2, <1>3, GrammarAt
<1>. DEFINE n == StatusLine[x][c]
<1>5. /\ HeadAt[x] \in ResponseStates /\ c \in DOMAIN ResponseMoves[HeadAt[x]]
      /\ x = "PhraseStart" => /\ n = "EmptyPhrase"
                             /\ ResponseMoves[HeadAt[x]][c] = MistakenAt[n]
      /\ x = "Phrase" => /\ n \in {"Phrase", "PhraseEnd"}
                        /\ ResponseMoves[HeadAt[x]][c] = HeadAt[n]
      /\ x = "PhraseEnd" => n = "Line" /\ ResponseMoves[HeadAt[x]][c] = HeadAt[n]
  BY <1>3, <1>4, PhraseTable
<1>. HIDE DEF n
<1>6. Sends(c, n) /\ at' = n
  BY <1>1, <1>2, <1>4 DEF n, Sends
<1>7. UNCHANGED <<phrase, framing, swallowed, left>>
  BY DEF GoesOn
<1>8. x \in {"PhraseStart", "Phrase", "PhraseEnd"}
  BY <1>3, GrammarParts, Parts
<1>9. parser.state = HeadAt[x] /\ HeadAt[x] \in PhraseStates
  BY <1>2, <1>3, <1>8, HeadStates DEF InHead
<1>10. ~WrongStatus(parser, c)
  BY <1>9 DEF WrongStatus, PhraseStates
<1>11. parser'.state = ResponseMoves[HeadAt[x]][c]
  BY <1>5, <1>6, <1>9, <1>10, StateAfter
<1>12. /\ parser'.name = parser.name /\ parser'.contentSize = parser.contentSize
       /\ parser'.chunked = parser.chunked /\ parser'.chunkSizeStr = parser.chunkSizeStr
  <2>1. parser.state \notin Noting
    BY <1>5, <1>9, NotNoting
  <2>. QED  BY <1>6, <2>1, NothingLeft
<1>13. /\ parser.contentSize = left /\ parser.chunked = (framing = "chunked")
       /\ parser.chunkSizeStr = NoNumber
  BY DEF InHead
<1>14. CASE x = "PhraseStart"
  <2>1. parser.name = ""
    BY <1>2, <1>14 DEF InHead
  <2>2. framing = "none" /\ ~phrase /\ left = 0
    BY <1>2, <1>14 DEF OriginInv, Early
  <2>3. n = "EmptyPhrase" /\ parser'.state = MistakenAt[n] /\ n \in DOMAIN MistakenAt
    BY <1>5, <1>11, <1>14, Parts
  <2>. QED  BY <1>6, <1>7, <1>12, <1>13, <2>1, <2>2, <2>3 DEF Misread, NothingNoted
<1>15. CASE x # "PhraseStart"
  <2>1. /\ n \in {"Phrase", "PhraseEnd", "Line"} /\ parser'.state = HeadAt[n]
        /\ n \in DOMAIN HeadAt
    BY <1>5, <1>8, <1>11, <1>15, Parts
  <2>. QED  BY <1>6, <1>7, <1>12, <1>13, <2>1 DEF InHead, InField
<1>. QED  BY <1>14, <1>15

(* A header line goes on, or the next one begins. *)
LEMMA HeaderGoesOn ==
  ASSUME ResponseInv, Fits, OriginInv, InHead, GoesOn, at \in DOMAIN Headers
  PROVE  Failed' \/ InHead'
<1>1. PICK c \in DOMAIN Grammar[at] : Sends(c, Grammar[at][c])
  BY DEF GoesOn
<1>2. PICK x : x = at
  OBVIOUS
<1>3. x \in DOMAIN HeadAt \intersect DOMAIN Headers
  BY <1>2 DEF InHead
<1>4. Grammar[x] = Headers[x] /\ c \in DOMAIN Headers[x]
  BY <1>1, <1>2, <1>3, GrammarAt
<1>. DEFINE n == Headers[x][c]
            s == HeadAt[x]
<1>5. /\ s \in HeaderStates /\ c \in DOMAIN HeaderMoves[s]
      /\ n \in DOMAIN HeadAt \ {"PhraseStart", "Phrase", "PhraseEnd"}
      /\ HeaderMoves[s][c] = HeadAt[n]
  BY <1>3, <1>4, HeaderTable
<1>6. /\ x \in {"Line", "NextLine"} =>
           \/ c = "\r" /\ n = "HeadEnd"
           \/ c \in Token \ Framings /\ n = "Name"
           \/ c \in Blank /\ n = "Fold" /\ x = "NextLine"
      /\ x = "Name" => IF c = ":" THEN n = "Colon" ELSE c \in Token /\ n = "Name"
      /\ x = "Colon" => n = "Value"
      /\ x = "Value" => n = IF c = "\r" THEN "ValueEnd" ELSE "Value"
      /\ x = "ValueEnd" => n = "NextLine"
      /\ x = "Fold" => n \in {"ValueEnd", "Fold", "Value"}
      /\ x = "FramingEnd" => n = "Line"
  BY <1>3, <1>4, HeaderTable
<1>. HIDE DEF n, s
<1>7. Sends(c, n) /\ at' = n
  BY <1>1, <1>2, <1>4 DEF n, Sends
<1>8. UNCHANGED <<phrase, framing, swallowed, left>>
  BY DEF GoesOn
<1>9. /\ parser.state = s /\ parser.contentSize = left /\ parser.chunked = (framing = "chunked")
      /\ parser.chunkSizeStr = NoNumber
      /\ x \in InField => parser.name \notin Framings /\ (parser.name = "" => ~phrase)
      /\ x = "Name" => parser.name # ""
  BY <1>2 DEF InHead, s
<1>10. /\ s = "HeaderLineStart" <=> x \in {"Line", "NextLine"}
       /\ s = "HeaderName" <=> x = "Name"
       /\ s = "HeaderValue" <=> x = "Value"
  BY <1>3, HeadStates DEF s
<1>11. ~WrongStatus(parser, c)
  <2>1. "ResponseHttpVersion_statusCode" \notin HeaderStates
    BY DEF HeaderStates
  <2>2. parser.state # "ResponseHttpVersion_statusCode"
    BY <1>5, <1>9, <2>1
  <2>. QED  BY <2>2 DEF WrongStatus
<1>12. parser'.state = IF ContinuesNothing(parser, c) THEN "ParsingError" ELSE HeadAt[n]
  BY <1>5, <1>7, <1>9, <1>11, StateAfter
<1>13. Leaves(parser, c, parser.number.n, TRUE, parser')
  BY <1>7, SendsEffect
<1>14. CASE ContinuesNothing(parser, c)
  <2>1. c \in Blank /\ parser.name = "" /\ x \in {"Line", "NextLine"}
    BY <1>9, <1>10, <1>14 DEF ContinuesNothing
  <2>2. x = "NextLine" /\ n = "Fold"
    BY <1>6, <2>1, Marks, EndsOfLines
  <2>3. ~phrase
    BY <1>9, <2>1, <2>2 DEF InField
  <2>. QED  BY <1>7, <1>8, <1>12, <1>14, <2>2, <2>3 DEF Failed
<1>15. CASE ~ContinuesNothing(parser, c)
  <2>1. /\ parser'.chunkSizeStr = parser.chunkSizeStr
        /\ parser'.contentSize = IF EndsValue(parser, c) /\ parser.name = "Content-Length"
                                 THEN parser.number.n ELSE parser.contentSize
        /\ parser'.chunked = IF /\ EndsValue(parser, c) /\ parser.name = "Transfer-Encoding"
                                /\ parser.value = "chunked"
                             THEN TRUE ELSE parser.chunked
    BY <1>5, <1>9, <1>13, HeaderLeaves
  <2>2. EndsValue(parser, c) => parser.name \notin Framings
    BY <1>9, <1>10 DEF EndsValue, InField
  <2>3. /\ parser'.contentSize = left /\ parser'.chunked = (framing = "chunked")
        /\ parser'.chunkSizeStr = NoNumber
    BY <1>9, <2>1, <2>2 DEF Framings
  <2>4. parser'.name = IF x \in {"Line", "NextLine"} /\ c \in Token THEN Push("", c)
                       ELSE IF x = "Name" /\ c # ":" THEN Push(parser.name, c) ELSE parser.name
    BY <1>9, <1>10, <1>13 DEF Leaves, BeginsName
  <2>5. n \in InField => parser'.name \notin Framings /\ (parser'.name = "" => ~phrase)
    <3>1. CASE x \in {"Line", "NextLine"}
      <4>1. CASE n = "Name"
        <5>1. c \in Token \ Framings
          BY <1>6, <3>1, <4>1
        <5>2. parser'.name = Push("", c)
          BY <2>4, <3>1, <5>1
        <5>. QED  BY <5>1, <5>2, PushEffect
      <4>2. CASE n = "Fold"
        <5>1. c \in Blank /\ x = "NextLine"
          BY <1>6, <3>1, <4>2
        <5>2. parser'.name = parser.name
          BY <2>4, <5>1, Marks
        <5>. QED  BY <1>9, <5>1, <5>2 DEF InField
      <4>3. CASE n = "HeadEnd"
        BY <4>3 DEF InField
      <4>. QED  BY <1>6, <3>1, <4>1, <4>2, <4>3
    <3>2. CASE x = "Name"
      <4>1. parser.name # "" /\ parser.name \notin Framings
        BY <1>9, <3>2 DEF InField
      <4>2. parser'.name \in {parser.name, "other"}
        BY <2>4, <3>2, <4>1, PushEffect
      <4>. QED  BY <4>1, <4>2 DEF Framings
    <3>3. CASE x \in {"Colon", "Value", "ValueEnd", "Fold"}
      BY <1>9, <2>4, <3>3 DEF InField
    <3>4. CASE x = "FramingEnd"
      BY <1>6, <3>4 DEF InField
    <3>. QED  BY <1>3, <3>1, <3>2, <3>3, <3>4, GrammarParts, Parts
  <2>6. n = "Name" => parser'.name # ""
    <3>1. CASE x \in {"Line", "NextLine"}
      <4>1. n = "Name" => c \in Token
        BY <1>6, <3>1
      <4>. QED  BY <2>4, <3>1, <4>1, PushEffect
    <3>2. CASE x = "Name"
      <4>1. parser.name # ""
        BY <1>9, <3>2
      <4>2. parser'.name \in {parser.name, "other"}
        BY <2>4, <3>2, <4>1, PushEffect
      <4>. QED  BY <4>1, <4>2
    <3>3. CASE x \in {"Colon", "Value", "ValueEnd", "Fold", "FramingEnd"}
      BY <1>6, <3>3
    <3>. QED  BY <1>3, <3>1, <3>2, <3>3, GrammarParts, Parts
  <2>7. n \in DOMAIN HeadAt /\ n # "PhraseStart" /\ parser'.state = HeadAt[n]
    BY <1>5, <1>12, <1>15
  <2>. QED  BY <1>7, <1>8, <2>3, <2>5, <2>6, <2>7 DEF InHead
<1>. QED  BY <1>14, <1>15

(* The inputs that carry a header line on. *)
LEMMA HeaderInputs ==
  /\ HeaderMoves["HeaderName"][":"] = "SpaceBeforeHeaderValue"
  /\ ":" \in DOMAIN HeaderMoves["HeaderName"]
  /\ HeaderMoves["SpaceBeforeHeaderValue"][" "] = "HeaderValue"
  /\ " " \in DOMAIN HeaderMoves["SpaceBeforeHeaderValue"]
  /\ HeaderMoves["HeaderValue"]["\r"] = "ExpectingNewline_2"
  /\ "\r" \in DOMAIN HeaderMoves["HeaderValue"]
  /\ \A c \in Text : /\ c \in DOMAIN HeaderMoves["HeaderValue"]
                     /\ HeaderMoves["HeaderValue"][c] = "HeaderValue"
  /\ \A c \in Token : /\ c \in DOMAIN HeaderMoves["HeaderLineStart"]
                      /\ HeaderMoves["HeaderLineStart"][c] = "HeaderName"
<1>1. HeaderMoves["HeaderName"] = On({":"}, "SpaceBeforeHeaderValue") ++ On(Token, "HeaderName")
  BY DEF HeaderMoves
<1>2. HeaderMoves["SpaceBeforeHeaderValue"] = On({" "}, "HeaderValue")
  BY DEF HeaderMoves
<1>3. HeaderMoves["HeaderValue"] = On({"\r"}, "ExpectingNewline_2") ++ On(Text, "HeaderValue")
  BY DEF HeaderMoves
<1>4. HeaderMoves["HeaderLineStart"] = On({"\r"}, "ExpectingNewline_3") ++ On(Blank, "HeaderLws")
                                          ++ On(Token, "HeaderName")
  BY DEF HeaderMoves
<1>5. /\ HeaderMoves["HeaderName"][":"] = "SpaceBeforeHeaderValue"
      /\ ":" \in DOMAIN HeaderMoves["HeaderName"]
  BY <1>1 DEF On, ++
<1>6. /\ HeaderMoves["SpaceBeforeHeaderValue"][" "] = "HeaderValue"
      /\ " " \in DOMAIN HeaderMoves["SpaceBeforeHeaderValue"]
  BY <1>2 DEF On
<1>7. /\ HeaderMoves["HeaderValue"]["\r"] = "ExpectingNewline_2"
      /\ "\r" \in DOMAIN HeaderMoves["HeaderValue"]
  BY <1>3 DEF On, ++
<1>8. \A c \in Text : /\ c \in DOMAIN HeaderMoves["HeaderValue"]
                      /\ HeaderMoves["HeaderValue"][c] = "HeaderValue"
  BY <1>3, EndsOfLines DEF On, ++
<1>9. \A c \in Token : /\ c \in DOMAIN HeaderMoves["HeaderLineStart"]
                       /\ HeaderMoves["HeaderLineStart"][c] = "HeaderName"
  BY <1>4, EndsOfLines, Marks DEF On, ++
<1>. QED  BY <1>5, <1>6, <1>7, <1>8, <1>9

LEMMA Characters ==
  /\ Digits \subseteq Text /\ Digits \intersect Blank = {}
  /\ "chunked" \in Text /\ "chunked" \in Words
  /\ Framings \subseteq Token /\ Framings \subseteq Words
  /\ HexDigits \subseteq Alnum
  /\ HexDigits \intersect (Blank \union Signs \union Words) = {}
  /\ Digits \subseteq HexDigits /\ HexDigits \subseteq DOMAIN DigitValue
  /\ \A d \in Digits : DigitValue[d] < 10
  /\ \A d \in HexDigits : DigitValue[d] < 16
<1>1. Digits \subseteq Text /\ "chunked" \in Text
  BY DEF Digits, Text, Inputs, Control, Words
<1>2. "chunked" \in Words /\ Framings \subseteq Words
  BY DEF Words, Framings
<1>3. Digits \intersect Blank = {} /\ HexDigits \intersect (Blank \union Signs \union Words) = {}
  BY DEF Digits, HexDigits, Blank, Signs, Words
<1>4. Framings \subseteq Token
  <2>1. Framings \subseteq Inputs
    BY <1>2 DEF Inputs
  <2>2. Framings \intersect Control = {} /\ Framings \intersect Special = {} /\ "8bit" \notin Framings
    BY DEF Framings, Control, Special
  <2>. QED  BY <2>1, <2>2 DEF Token, Char
<1>5. HexDigits \subseteq Alnum
  BY DEF HexDigits, Alnum, Alpha, Digits, Letters
<1>6. Digits \subseteq HexDigits /\ HexDigits \subseteq DOMAIN DigitValue
  BY DEF Digits, HexDigits, DigitValue
<1>7. \A d \in Digits : DigitValue[d] < 10
  BY DEF Digits, DigitValue
<1>8. \A d \in HexDigits : DigitValue[d] < 16
  BY DEF HexDigits, DigitValue
<1>. QED  BY <1>1, <1>2, <1>3, <1>4, <1>5, <1>6, <1>7, <1>8

(* The header that gives a length is read up to its end. *)
LEMMA LengthGoesOn ==
  ASSUME ResponseInv, Fits, OriginInv, InLength, GoesOn
  PROVE  InLength' \/ InHead'
<1>1. PICK c \in DOMAIN Grammar[at] : Sends(c, Grammar[at][c])
  BY DEF GoesOn
<1>2. PICK x : x = at
  OBVIOUS
<1>3. x \in {"LengthName", "LengthColon", "Length"}
      /\ x \in DOMAIN Headers
  <2>1. x \in DOMAIN LengthAt /\ x \in DOMAIN Grammar
    BY <1>2 DEF InLength, GoesOn
  <2>. QED  BY <2>1, GrammarAt, GrammarParts, Parts
<1>4. Grammar[x] = Headers[x] /\ c \in DOMAIN Headers[x]
  BY <1>1, <1>2, <1>3, GrammarAt
<1>. DEFINE n == Headers[x][c]
<1>5. /\ x = "LengthName"  => c = ":" /\ n = "LengthColon"
      /\ x = "LengthColon" => c = " " /\ n = "LengthStart"
      /\ x = "Length" => c = "\r" /\ n = "FramingEnd"
  <2>1. x \in (DOMAIN LengthAt \union DOMAIN CodingAt) \intersect DOMAIN Headers
    BY <1>3, Parts
  <2>. QED  BY <1>4, <2>1, FramingTable
<1>. HIDE DEF n
<1>6. Sends(c, n) /\ at' = n
  BY <1>1, <1>2, <1>4 DEF n, Sends
<1>7. UNCHANGED <<phrase, framing, swallowed, left>>
  BY DEF GoesOn
<1>8. /\ parser.state = LengthAt[x] /\ parser.name = "Content-Length" /\ NothingNoted
      /\ parser.number = IF x = "Length" THEN DigitsOf(left) ELSE NoNumber
  BY <1>2 DEF InLength
<1>9. /\ LengthAt["LengthName"] = "HeaderName"
      /\ LengthAt["LengthColon"] = "SpaceBeforeHeaderValue"
      /\ LengthAt["LengthStart"] = "HeaderValue" /\ LengthAt["Length"] = "HeaderValue"
  BY DEF LengthAt
<1>10. parser.state \in HeaderStates /\ parser.state # "HeaderLineStart"
       /\ (x = "Length" <=> parser.state = "HeaderValue")
       /\ (x = "LengthName" <=> parser.state = "HeaderName")
  BY <1>3, <1>8, <1>9 DEF HeaderStates
<1>11. ~WrongStatus(parser, c) /\ ~ContinuesNothing(parser, c)
  <2>1. parser.state # "ResponseHttpVersion_statusCode"
    BY <1>10 DEF HeaderStates
  <2>2. ~WrongStatus(parser, c)
    BY <2>1 DEF WrongStatus
  <2>3. ~ContinuesNothing(parser, c)
    BY <1>10 DEF ContinuesNothing
  <2>. QED  BY <2>2, <2>3
<1>12. parser'.state = IF c \in DOMAIN HeaderMoves[parser.state]
                       THEN HeaderMoves[parser.state][c] ELSE "ParsingError"
  BY <1>6, <1>10, <1>11, StateAfter
<1>13. Leaves(parser, c, parser.number.n, TRUE, parser')
  BY <1>6, SendsEffect
<1>14. parser'.name = "Content-Length"
  BY <1>3, <1>5, <1>8, <1>10, <1>13 DEF Leaves, BeginsName
<1>15. framing = "length"
  BY <1>2, <1>3, Parts DEF OriginInv
<1>16. /\ parser'.chunkSizeStr = NoNumber /\ parser'.chunked = FALSE
       /\ parser'.contentSize = IF x = "Length" THEN parser.number.n ELSE 0
  <2>1. /\ parser'.chunkSizeStr = parser.chunkSizeStr
        /\ parser'.contentSize = IF EndsValue(parser, c) /\ parser.name = "Content-Length"
                                 THEN parser.number.n ELSE parser.contentSize
        /\ parser'.chunked = IF /\ EndsValue(parser, c) /\ parser.name = "Transfer-Encoding"
                                /\ parser.value = "chunked"
                             THEN TRUE ELSE parser.chunked
    BY <1>10, <1>13, HeaderLeaves
  <2>2. EndsValue(parser, c) <=> x = "Length"
    BY <1>5, <1>10 DEF EndsValue
  <2>. QED  BY <1>8, <2>1, <2>2 DEF NothingNoted
<1>17. CASE x = "Length"
  <2>1. n = "FramingEnd" /\ parser'.state = "ExpectingNewline_2"
    BY <1>5, <1>10, <1>12, <1>17, HeaderInputs
  <2>2. parser'.contentSize = left
    BY <1>8, <1>16, <1>17 DEF DigitsOf
  <2>3. HeadAt["FramingEnd"] = "ExpectingNewline_2" /\ "FramingEnd" \in DOMAIN HeadAt
    BY DEF HeadAt
  <2>. QED  BY <1>6, <1>7, <1>15, <1>16, <2>1, <2>2, <2>3 DEF InHead, InField
<1>18. CASE x # "Length"
  <2>1. n \in {"LengthColon", "LengthStart"} /\ parser'.state = LengthAt[n]
    <3>1. CASE x = "LengthName"
      <4>1. parser.state = "HeaderName" /\ c = ":" /\ n = "LengthColon"
        BY <1>5, <1>8, <1>9, <3>1
      <4>2. parser'.state = "SpaceBeforeHeaderValue"
        BY <1>12, <4>1, HeaderInputs
      <4>. QED  BY <1>9, <4>1, <4>2
    <3>2. CASE x = "LengthColon"
      <4>1. parser.state = "SpaceBeforeHeaderValue" /\ c = " " /\ n = "LengthStart"
        BY <1>5, <1>8, <1>9, <3>2
      <4>2. parser'.state = "HeaderValue"
        BY <1>12, <4>1, HeaderInputs
      <4>. QED  BY <1>9, <4>1, <4>2
    <3>. QED  BY <1>3, <1>18, <3>1, <3>2
  <2>2. parser'.number = parser.number
    <3>1. parser.state \notin {"HeaderLineStart", "HeaderLws", "HeaderValue"}
      BY <1>3, <1>8, <1>9, <1>18
    <3>2. ~BeginsName(parser, c) /\ ~ExtendsValue(parser, c)
      BY <3>1 DEF BeginsName, ExtendsValue
    <3>. QED  BY <1>13, <3>2 DEF Leaves
  <2>. QED  BY <1>6, <1>8, <1>14, <1>16, <1>18, <2>1, <2>2, Parts DEF InLength, NothingNoted
<1>. QED  BY <1>17, <1>18

(* The header that says the body comes in chunks likewise. *)
LEMMA CodingGoesOn ==
  ASSUME ResponseInv, Fits, OriginInv, InCoding, GoesOn
  PROVE  InCoding' \/ InHead'
<1>1. PICK c \in DOMAIN Grammar[at] : Sends(c, Grammar[at][c])
  BY DEF GoesOn
<1>2. PICK x : x = at
  OBVIOUS
<1>3. x \in {"CodingName", "CodingColon", "CodingStart", "Coding"}
      /\ x \in DOMAIN Headers
  <2>1. x \in DOMAIN CodingAt
    BY <1>2 DEF InCoding
  <2>. QED  BY <2>1, GrammarParts, Parts
<1>4. Grammar[x] = Headers[x] /\ c \in DOMAIN Headers[x]
  BY <1>1, <1>2, <1>3, GrammarAt
<1>. DEFINE n == Headers[x][c]
<1>5. /\ x = "CodingName"  => c = ":" /\ n = "CodingColon"
      /\ x = "CodingColon" => c = " " /\ n = "CodingStart"
      /\ x = "CodingStart" => c = "chunked" /\ n = "Coding"
      /\ x = "Coding" => c = "\r" /\ n = "FramingEnd"
  <2>1. x \in (DOMAIN LengthAt \union DOMAIN CodingAt) \intersect DOMAIN Headers
    BY <1>3, Parts
  <2>. QED  BY <1>4, <2>1, FramingTable
<1>. HIDE DEF n
<1>6. Sends(c, n) /\ at' = n
  BY <1>1, <1>2, <1>4 DEF n, Sends
<1>7. UNCHANGED <<phrase, framing, swallowed, left>>
  BY DEF GoesOn
<1>8. /\ parser.state = CodingAt[x] /\ parser.name = "Transfer-Encoding" /\ NothingNoted
      /\ parser.value = IF x = "Coding" THEN "chunked" ELSE ""
  BY <1>2 DEF InCoding
<1>9. /\ CodingAt["CodingName"] = "HeaderName"
      /\ CodingAt["CodingColon"] = "SpaceBeforeHeaderValue"
      /\ CodingAt["CodingStart"] = "HeaderValue" /\ CodingAt["Coding"] = "HeaderValue"
  BY DEF CodingAt
<1>10. parser.state \in HeaderStates /\ parser.state # "HeaderLineStart"
       /\ parser.state # "HeaderLws"
       /\ (x \in {"CodingStart", "Coding"} <=> parser.state = "HeaderValue")
       /\ (x = "CodingName" <=> parser.state = "HeaderName")
  BY <1>3, <1>8, <1>9 DEF HeaderStates
<1>11. ~WrongStatus(parser, c) /\ ~ContinuesNothing(parser, c)
  <2>1. parser.state # "ResponseHttpVersion_statusCode"
    BY <1>10 DEF HeaderStates
  <2>2. ~WrongStatus(parser, c)
    BY <2>1 DEF WrongStatus
  <2>3. ~ContinuesNothing(parser, c)
    BY <1>10 DEF ContinuesNothing
  <2>. QED  BY <2>2, <2>3
<1>12. parser'.state = IF c \in DOMAIN HeaderMoves[parser.state]
                       THEN HeaderMoves[parser.state][c] ELSE "ParsingError"
  BY <1>6, <1>10, <1>11, StateAfter
<1>13. Leaves(parser, c, parser.number.n, TRUE, parser')
  BY <1>6, SendsEffect
<1>14. parser'.name = "Transfer-Encoding"
  BY <1>3, <1>5, <1>8, <1>10, <1>13 DEF Leaves, BeginsName
<1>15. framing = "chunked" /\ left = 0
  BY <1>2, <1>3, Parts DEF OriginInv
<1>16. /\ parser'.chunkSizeStr = NoNumber /\ parser'.chunked = (x = "Coding")
       /\ parser'.contentSize = 0
  <2>1. /\ parser'.chunkSizeStr = parser.chunkSizeStr
        /\ parser'.contentSize = IF EndsValue(parser, c) /\ parser.name = "Content-Length"
                                 THEN parser.number.n ELSE parser.contentSize
        /\ parser'.chunked = IF /\ EndsValue(parser, c) /\ parser.name = "Transfer-Encoding"
                                /\ parser.value = "chunked"
                             THEN TRUE ELSE parser.chunked
    BY <1>10, <1>13, HeaderLeaves
  <2>2. EndsValue(parser, c) <=> x = "Coding"
    BY <1>3, <1>5, <1>10 DEF EndsValue
  <2>. QED  BY <1>8, <2>1, <2>2 DEF NothingNoted
<1>17. CASE x = "Coding"
  <2>1. n = "FramingEnd" /\ parser'.state = "ExpectingNewline_2"
    BY <1>5, <1>10, <1>12, <1>17, HeaderInputs
  <2>2. HeadAt["FramingEnd"] = "ExpectingNewline_2" /\ "FramingEnd" \in DOMAIN HeadAt
    BY DEF HeadAt
  <2>3. parser'.chunked = TRUE
    BY <1>16, <1>17
  <2>. QED  BY <1>6, <1>7, <1>15, <1>16, <2>1, <2>2, <2>3 DEF InHead, InField
<1>18. CASE x # "Coding"
  <2>1. n \in {"CodingColon", "CodingStart", "Coding"} /\ parser'.state = CodingAt[n]
        /\ (n = "Coding" <=> x = "CodingStart")
    <3>1. CASE x = "CodingName"
      <4>1. parser.state = "HeaderName" /\ c = ":" /\ n = "CodingColon"
        BY <1>5, <1>8, <1>9, <3>1
      <4>2. parser'.state = "SpaceBeforeHeaderValue"
        BY <1>12, <4>1, HeaderInputs
      <4>. QED  BY <1>9, <3>1, <4>1, <4>2
    <3>2. CASE x = "CodingColon"
      <4>1. parser.state = "SpaceBeforeHeaderValue" /\ c = " " /\ n = "CodingStart"
        BY <1>5, <1>8, <1>9, <3>2
      <4>2. parser'.state = "HeaderValue"
        BY <1>12, <4>1, HeaderInputs
      <4>. QED  BY <1>9, <3>2, <4>1, <4>2
    <3>3. CASE x = "CodingStart"
      <4>1. parser.state = "HeaderValue" /\ c = "chunked" /\ n = "Coding"
        BY <1>5, <1>8, <1>9, <3>3
      <4>2. parser'.state = "HeaderValue"
        BY <1>12, <4>1, HeaderInputs, Characters
      <4>. QED  BY <1>9, <3>3, <4>1, <4>2
    <3>. QED  BY <1>3, <1>18, <3>1, <3>2, <3>3
  <2>2. parser'.value = IF x = "CodingStart" THEN "chunked" ELSE ""
    <3>1. ~BeginsName(parser, c)
      BY <1>10 DEF BeginsName
    <3>2. ExtendsValue(parser, c) <=> x = "CodingStart"
      BY <1>3, <1>5, <1>10, <1>18, Characters DEF ExtendsValue
    <3>3. parser'.value = IF x = "CodingStart" THEN Push("", c) ELSE ""
      BY <1>8, <1>13, <1>18, <3>1, <3>2 DEF Leaves
    <3>. QED  BY <1>5, <3>3, PushEffect, Characters
  <2>3. parser'.chunked = FALSE
    BY <1>16, <1>18
  <2>. QED  BY <1>6, <1>14, <1>16, <2>1, <2>2, <2>3, Parts DEF InCoding, NothingNoted
<1>. QED  BY <1>17, <1>18

(* Among the chunks. *)
LEMMA BodyGoesOn ==
  ASSUME ResponseInv, Fits, OriginInv, InBody, GoesOn
  PROVE  InBody' \/ IsSent'
<1>1. PICK c \in DOMAIN Grammar[at] : Sends(c, Grammar[at][c])
  BY DEF GoesOn
<1>2. PICK x : x = at
  OBVIOUS
<1>3. x \in DOMAIN BodyAt /\ x \in DOMAIN Chunks
  <2>1. x \in DOMAIN BodyAt /\ x \in DOMAIN Grammar
    BY <1>2 DEF InBody, GoesOn
  <2>. QED  BY <2>1, GrammarAt, GrammarParts, Parts
<1>4. Grammar[x] = Chunks[x] /\ c \in DOMAIN Chunks[x] /\ x \in DOMAIN Grammar
      /\ c \in DOMAIN Grammar[x]
  BY <1>1, <1>2, <1>3, GrammarAt
<1>. DEFINE n == Chunks[x][c]
            s == BodyAt[x]
<1>5. /\ s \in ChunkStates /\ c \in DOMAIN ChunkMoves[s]
      /\ x = "TrailerEnd" => n = "Sent" /\ ChunkMoves[s][c] = "ParsingCompleted"
      /\ x # "TrailerEnd" => n \in DOMAIN BodyAt /\ ChunkMoves[s][c] = BodyAt[n]
      /\ x = "Size" => c \in {"\r", ";"}
  BY <1>3, <1>4, ChunkTable
<1>6. \/ x \in WithSize /\ n \in WithSize
      \/ x = "TrailerEnd" /\ n = "Sent"
      \/ /\ x \in DOMAIN BodyAt \ (WithSize \union {"Body", "Chunk"})
         /\ n \in DOMAIN BodyAt \ (WithSize \union {"Body", "Chunk"})
  <2>. DEFINE m == Grammar[x][c]
  <2>1. \/ x \in DOMAIN StatusAt \union {"PhraseStart", "EmptyPhrase", "Phrase", "PhraseEnd",
                                         "FirstLine"} \union DOMAIN HeadAt
                   \union DOMAIN LengthAt \union DOMAIN CodingAt
        \/ x \in WithSize /\ m \in WithSize
        \/ x = "TrailerEnd" /\ m = "Sent"
        \/ /\ x \in DOMAIN BodyAt \ (WithSize \union {"Body", "Chunk"})
           /\ m \in DOMAIN BodyAt \ (WithSize \union {"Body", "Chunk"})
    BY <1>4, GrammarNext, Parts
  <2>. HIDE DEF m
  <2>2. m = n
    BY <1>4 DEF m
  <2>. HIDE DEF n
  <2>. QED  BY <1>3, <2>1, <2>2, Parts
<1>. HIDE DEF n, s
<1>7. Sends(c, n) /\ at' = n
  BY <1>1, <1>2, <1>4 DEF n, Sends
<1>8. UNCHANGED <<phrase, framing, swallowed, left>> /\ method' = method
  BY <1>7 DEF GoesOn, Sends
<1>9. parser.state = s /\ parser.chunkSizeStr = IF x \in WithSize THEN DigitsOf(left) ELSE NoNumber
  BY <1>2 DEF InBody, s
<1>10. parser.state \in ChunkStates
       /\ (parser.state = "ChunkSize" => x = "Size")
  <2>1. s = "ChunkSize" => x \in {"Size", "SizeStart"}
    BY <1>3 DEF s, BodyAt
  <2>2. x # "SizeStart"
    BY <1>3, GrammarParts
  <2>. QED  BY <1>5, <1>9, <2>1, <2>2
<1>11. ~WrongStatus(parser, c)
  BY <1>10 DEF WrongStatus, ChunkStates
<1>12. parser'.state = ChunkMoves[s][c]
  BY <1>5, <1>7, <1>9, <1>10, <1>11, StateAfter
<1>13. parser'.chunkSizeStr = parser.chunkSizeStr
  <2>1. Leaves(parser, c, parser.number.n, TRUE, parser')
    BY <1>7, SendsEffect
  <2>2. ~(parser.state = "ChunkSize" /\ c \in Alnum)
    BY <1>5, <1>10, EndsOfLines, Marks
  <2>3. ~EndsSizeLine(parser, c)
    BY <1>10 DEF EndsSizeLine, ChunkStates
  <2>. QED  BY <2>1, <2>2, <2>3 DEF Leaves
<1>14. CASE x = "TrailerEnd"
  <2>1. at' = "Sent" /\ parser'.state = "ParsingCompleted"
    BY <1>5, <1>7, <1>12, <1>14
  <2>2. method' = "GET"
    BY <1>2, <1>3, <1>8 DEF OriginInv
  <2>. QED  BY <2>1, <2>2 DEF IsSent, AnnouncedOnly
<1>15. CASE x # "TrailerEnd"
  <2>1. n \in DOMAIN BodyAt /\ parser'.state = BodyAt[n]
    BY <1>5, <1>12, <1>15
  <2>2. (n \in WithSize <=> x \in WithSize) /\ n \notin {"Body", "Chunk"}
    BY <1>6, <1>15 DEF WithSize
  <2>. QED  BY <1>7, <1>8, <1>9, <1>13, <2>1, <2>2 DEF InBody
<1>. QED  BY <1>14, <1>15

(* In what is taken for the phrase, and at its end. *)
LEMMA MisreadGoesOn ==
  ASSUME ResponseInv, Fits, OriginInv, Misread, GoesOn
  PROVE  Failed' \/ Misread' \/ InHead'
<1>1. PICK c \in DOMAIN Grammar[at] : Sends(c, Grammar[at][c])
  BY DEF GoesOn
<1>2. PICK x : x = at
  OBVIOUS
<1>3. x \in DOMAIN MistakenAt /\ x \in DOMAIN Grammar /\ c \in DOMAIN Grammar[x]
  BY <1>1, <1>2 DEF Misread, GoesOn
<1>. DEFINE n == Grammar[x][c]
            s == MistakenAt[x]
<1>4. /\ s \in ResponseStates /\ s # "ResponseHttpVersion_statusCode"
      /\ \/ /\ n = "NextLine" /\ c \in DOMAIN ResponseMoves[s]
            /\ ResponseMoves[s][c] = "HeaderLineStart"
         \/ /\ n \in DOMAIN MistakenAt
            /\ c \in DOMAIN ResponseMoves[s] => ResponseMoves[s][c] = MistakenAt[n]
  <2>1. s \in ResponseStates /\ s # "ResponseHttpVersion_statusCode"
    BY <1>3 DEF MistakenAt, ResponseStates
  <2>2. CASE x = "EmptyPhrase"
    <3>1. Grammar[x] = StatusLine[x]
      BY <2>2, GrammarAt, GrammarParts
    <3>2. c = "\n" /\ n = "FirstLine"
      BY <1>3, <2>2, <3>1, EmptyPhraseTable
    <3>3. ResponseMoves["ResponseHttpVersion_statusText"]
            = On({"\r"}, "ResponseHttpVersion_newLine") ++ On(Char, "ResponseHttpVersion_statusText")
      BY DEF ResponseMoves
    <3>4. "\n" \in DOMAIN ResponseMoves["ResponseHttpVersion_statusText"] =>
            ResponseMoves["ResponseHttpVersion_statusText"]["\n"] = "ResponseHttpVersion_statusText"
      BY <3>3 DEF On, ++
    <3>5. /\ s = "ResponseHttpVersion_statusText" /\ "FirstLine" \in DOMAIN MistakenAt
          /\ MistakenAt["FirstLine"] = "ResponseHttpVersion_statusText"
      BY <2>2 DEF MistakenAt
    <3>. QED  BY <2>1, <3>2, <3>4, <3>5
  <2>3. CASE x # "EmptyPhrase"
    <3>1. x \in DOMAIN Headers
      BY <1>3, <2>3, GrammarAt, GrammarParts, Parts
    <3>2. Grammar[x] = Headers[x] /\ c \in DOMAIN Headers[x]
      BY <1>3, <3>1, GrammarAt
    <3>. DEFINE m == Headers[x][c]
    <3>3. IF x = "ValueEnd"
          THEN c \in DOMAIN ResponseMoves[s] /\ ResponseMoves[s][c] = "HeaderLineStart"
               /\ m = "NextLine"
          ELSE /\ m \in DOMAIN MistakenAt \ {"EmptyPhrase", "FirstLine"}
               /\ c \in DOMAIN ResponseMoves[s] => ResponseMoves[s][c] = MistakenAt[m]
      BY <1>3, <3>1, <3>2, MistakenTable
    <3>4. m = n
      BY <3>2
    <3>. HIDE DEF m, n, s
    <3>. QED  BY <2>1, <3>3, <3>4
  <2>. QED  BY <2>2, <2>3
<1>. HIDE DEF n, s
<1>5. Sends(c, n) /\ at' = n
  BY <1>1, <1>2 DEF n, Sends
<1>6. UNCHANGED <<phrase, framing, swallowed, left>>
  BY DEF GoesOn
<1>7. parser.state = s /\ parser.name = "" /\ NothingNoted /\ ~phrase /\ framing = "none"
  BY <1>2 DEF Misread, s
<1>8. ~WrongStatus(parser, c)
  BY <1>4, <1>7 DEF WrongStatus
<1>9. parser'.state = IF c \in DOMAIN ResponseMoves[s] THEN ResponseMoves[s][c] ELSE "ParsingError"
  BY <1>4, <1>5, <1>7, <1>8, StateAfter
<1>10. parser'.name = "" /\ NothingNoted'
  <2>1. parser.state \notin Noting
    BY <1>4, <1>7, NotNoting
  <2>2. /\ parser'.name = parser.name /\ parser'.contentSize = parser.contentSize
        /\ parser'.chunked = parser.chunked /\ parser'.chunkSizeStr = parser.chunkSizeStr
    BY <1>5, <2>1, NothingLeft
  <2>. QED  BY <1>7, <2>2 DEF NothingNoted
<1>11. CASE n = "NextLine"
  <2>1. parser'.state = "HeaderLineStart" /\ left = 0
    <3>1. "NextLine" \notin DOMAIN MistakenAt
      BY Parts
    <3>. QED  BY <1>4, <1>7, <1>9, <1>11, <3>1 DEF OriginInv
  <2>2. HeadAt["NextLine"] = "HeaderLineStart" /\ "NextLine" \in DOMAIN HeadAt
    BY DEF HeadAt
  <2>3. parser'.contentSize = 0 /\ parser'.chunked = FALSE /\ parser'.chunkSizeStr = NoNumber
    BY <1>10 DEF NothingNoted
  <2>4. "" \notin Framings
    BY DEF Framings
  <2>. QED  BY <1>5, <1>6, <1>7, <1>10, <1>11, <2>1, <2>2, <2>3, <2>4 DEF InHead, InField
<1>12. CASE n # "NextLine" /\ c \in DOMAIN ResponseMoves[s]
  BY <1>4, <1>5, <1>6, <1>7, <1>9, <1>10, <1>12 DEF Misread
<1>13. CASE n # "NextLine" /\ c \notin DOMAIN ResponseMoves[s]
  BY <1>4, <1>5, <1>6, <1>7, <1>9, <1>13, Parts DEF Failed
<1>. QED  BY <1>11, <1>12, <1>13

(* Where the parser has not failed, it has room for what it reads.             *)
LEMMA Fitting ==
  ASSUME OriginInv, FollowsInv, ~Failed, at \notin DOMAIN StatusAt
  PROVE  Fits
<1>1. left \in 0..MaxSize
  BY DEF OriginInv
<1>2. CASE Misread
  <2>1. \A x \in DOMAIN MistakenAt : MistakenAt[x] \in ResponseStates
    BY DEF MistakenAt, ResponseStates
  <2>. QED  BY <1>2, <2>1, FitsInStatusLine DEF Misread
<1>3. CASE InHead
  <2>1. \A x \in DOMAIN HeadAt : HeadAt[x] # "ChunkSizeNewLine"
    BY DEF HeadAt
  <2>2. parser.state # "ChunkSizeNewLine" /\ (parser.state = "HeaderValue" => at = "Value")
    BY <1>3, <2>1, HeadStates DEF InHead
  <2>3. at = "Value" => parser.name # "Content-Length"
    BY <1>3 DEF InHead, InField, Framings
  <2>. QED  BY <2>2, <2>3 DEF Fits
<1>4. CASE InLength
  <2>1. \A x \in DOMAIN LengthAt : LengthAt[x] # "ChunkSizeNewLine"
    BY DEF LengthAt
  <2>2. parser.number \in {DigitsOf(left), NoNumber} /\ parser.state # "ChunkSizeNewLine"
    BY <1>4, <2>1 DEF InLength
  <2>3. /\ DigitsOf(left).n = left /\ DigitsOf(left).negative = FALSE
        /\ NoNumber.n = 0 /\ NoNumber.negative = FALSE
    BY DEF DigitsOf, NoNumber
  <2>. QED  BY <1>1, <2>2, <2>3, MaxSizeAssumption DEF Fits
<1>5. CASE InCoding
  <2>1. \A x \in DOMAIN CodingAt : CodingAt[x] # "ChunkSizeNewLine"
    BY DEF CodingAt
  <2>. QED  BY <1>5, <2>1 DEF InCoding, Fits
<1>6. CASE InBody
  <2>1. \A x \in DOMAIN BodyAt : BodyAt[x] # "HeaderValue"
    BY DEF BodyAt
  <2>2. parser.chunkSizeStr \in {DigitsOf(left), NoNumber} /\ parser.state # "HeaderValue"
    BY <1>6, <2>1 DEF InBody
  <2>3. DigitsOf(left).n = left /\ NoNumber.n = 0
    BY DEF DigitsOf, NoNumber
  <2>. QED  BY <1>1, <2>2, <2>3, MaxSizeAssumption DEF Fits
<1>7. CASE IsSent
  <2>1. parser.state \in {"Post", "ChunkSize", "ParsingCompleted"}
    BY <1>7 DEF IsSent
  <2>. QED  BY <2>1, FitsElsewhere
<1>. QED  BY <1>2, <1>3, <1>4, <1>5, <1>6, <1>7 DEF FollowsInv

LEMMA FollowsGoesOn ==
  ASSUME ResponseInv, OriginInv, StatusInv, FollowsInv, GoesOn
  PROVE  FollowsInv'
<1>1. CASE at \in DOMAIN StatusAt
  <2>1. CASE at' \in DOMAIN StatusAt
    BY <2>1 DEF FollowsInv
  <2>2. CASE at' \notin DOMAIN StatusAt
    <3>1. at' = "PhraseStart" /\ parser'.state = HeadAt[at'] /\ parser'.name = ""
          /\ NothingNoted'
      BY <1>1, <2>2, StatusGoesOn
    <3>2. framing' = "none" /\ left' = 0
      BY <1>1 DEF GoesOn, OriginInv, Early
    <3>3. InHead'
      BY <3>1, <3>2, Parts DEF InHead, InField, NothingNoted
    <3>. QED  BY <3>3 DEF FollowsInv
  <2>. QED  BY <2>1, <2>2
<1>2. CASE at \notin DOMAIN StatusAt
  <2>1. CASE Failed
    <3>1. [Next]_vars
      BY DEF Next
    <3>. QED  BY <1>2, <2>1, <3>1, FailedStep DEF FollowsInv
  <2>2. CASE ~Failed /\ Misread
    BY <1>2, <2>2, Fitting, MisreadGoesOn DEF FollowsInv
  <2>3. CASE ~Failed /\ InHead
    <3>1. at \in DOMAIN StatusLine \/ at \in DOMAIN Headers
      BY <2>3, GrammarAt, GrammarParts, Parts DEF InHead, GoesOn
    <3>. QED  BY <1>2, <2>3, <3>1, Fitting, PhraseGoesOn, HeaderGoesOn DEF FollowsInv
  <2>4. CASE ~Failed /\ InLength
    BY <1>2, <2>4, Fitting, LengthGoesOn DEF FollowsInv
  <2>5. CASE ~Failed /\ InCoding
    BY <1>2, <2>5, Fitting, CodingGoesOn DEF FollowsInv
  <2>6. CASE ~Failed /\ InBody
    BY <1>2, <2>6, Fitting, BodyGoesOn DEF FollowsInv
  <2>7. ~IsSent
    BY GrammarAt, GrammarParts DEF IsSent, GoesOn
  <2>. QED  BY <1>2, <2>1, <2>2, <2>3, <2>4, <2>5, <2>6, <2>7 DEF FollowsInv
<1>. QED  BY <1>1, <1>2

(* The phrase begins. *)
LEMMA FollowsPhrase ==
  ASSUME ResponseInv, Fits, OriginInv, InHead, SendsPhrase
  PROVE  InHead'
<1>1. PICK c \in Text \ {"8bit"} : Sends(c, "Phrase")
  BY DEF SendsPhrase
<1>2. at = "PhraseStart" /\ at' = "Phrase" /\ UNCHANGED <<framing, left>>
  BY <1>1 DEF SendsPhrase, Sends
<1>3. /\ HeadAt["PhraseStart"] = "ResponseHttpVersion_statusTextStart"
      /\ HeadAt["Phrase"] = "ResponseHttpVersion_statusText" /\ "Phrase" \in DOMAIN HeadAt
  BY DEF HeadAt
<1>4. /\ parser.state = "ResponseHttpVersion_statusTextStart"
      /\ parser.state \in ResponseStates /\ parser.state \notin Noting
      /\ ~WrongStatus(parser, c)
  <2>1. parser.state = "ResponseHttpVersion_statusTextStart"
    BY <1>2, <1>3 DEF InHead
  <2>2. "ResponseHttpVersion_statusTextStart" \in ResponseStates
    BY DEF ResponseStates
  <2>3. parser.state \notin Noting
    BY <2>1, <2>2, NotNoting
  <2>4. ~WrongStatus(parser, c)
    BY <2>1 DEF WrongStatus
  <2>. QED  BY <2>1, <2>2, <2>3, <2>4
<1>5. /\ c \in DOMAIN ResponseMoves["ResponseHttpVersion_statusTextStart"]
      /\ ResponseMoves["ResponseHttpVersion_statusTextStart"][c] = "ResponseHttpVersion_statusText"
  <2>1. ResponseMoves["ResponseHttpVersion_statusTextStart"] = On(Char, "ResponseHttpVersion_statusText")
    BY DEF ResponseMoves
  <2>2. c \in Char
    BY <1>1 DEF Text, Char
  <2>. QED  BY <2>1, <2>2 DEF On
<1>6. parser'.state = "ResponseHttpVersion_statusText"
  BY <1>1, <1>4, <1>5, StateAfter
<1>7. /\ parser'.contentSize = parser.contentSize /\ parser'.chunked = parser.chunked
      /\ parser'.chunkSizeStr = parser.chunkSizeStr
  BY <1>1, <1>4, NothingLeft
<1>. QED  BY <1>2, <1>3, <1>6, <1>7 DEF InHead, InField

(* A header that announces a body begins. *)
LEMMA FollowsAnnounces ==
  ASSUME ResponseInv, Fits, OriginInv, Announces, Misread \/ InHead
  PROVE  Failed' \/ InLength' \/ InCoding'
<1>1. PICK c, n : /\ Sends(c, n)
                  /\ \/ c = "Content-Length" /\ n = "LengthName" /\ framing' = "length"
                     \/ c = "Transfer-Encoding" /\ n = "CodingName" /\ framing' = "chunked"
  BY DEF Announces
<1>2. /\ at \in {"FirstLine", "Line", "NextLine"} /\ framing = "none" /\ at' = n
      /\ swallowed' = (at = "FirstLine") /\ UNCHANGED <<status, phrase, left>>
  BY <1>1 DEF Announces, Sends
<1>3. CASE Misread
  <2>1. at = "FirstLine" /\ ~phrase
    BY <1>2, <1>3, Parts DEF Misread
  <2>. QED  BY <1>1, <1>2, <2>1 DEF Failed
<1>4. CASE InHead
  <2>1. at \in {"Line", "NextLine"} /\ at \in DOMAIN HeadAt
    BY <1>2, <1>4, Parts DEF InHead
  <2>2. parser.state = "HeaderLineStart" /\ parser.state \in HeaderStates
    BY <1>4, <2>1, HeadStates DEF InHead, HeaderStates
  <2>3. c \in Framings /\ c \in Token /\ c \in Words
    BY <1>1, Characters DEF Framings
  <2>4. ~WrongStatus(parser, c)
    BY <2>2 DEF WrongStatus
  <2>5. ~ContinuesNothing(parser, c)
    BY <2>3, Marks DEF ContinuesNothing
  <2>6. parser'.state = "HeaderName"
    <3>1. c \in DOMAIN HeaderMoves[parser.state] /\ HeaderMoves[parser.state][c] = "HeaderName"
      BY <2>2, <2>3, HeaderInputs
    <3>. QED  BY <1>1, <2>2, <2>4, <2>5, <3>1, StateAfter
  <2>7. Leaves(parser, c, parser.number.n, TRUE, parser')
    BY <1>1, SendsEffect
  <2>8. parser'.name = c /\ parser'.value = "" /\ parser'.number = NoNumber
    BY <2>2, <2>3, <2>7, PushEffect DEF Leaves, BeginsName
  <2>9. NothingNoted'
    <3>1. ~EndsValue(parser, c)
      BY <2>2 DEF EndsValue
    <3>2. /\ parser'.contentSize = parser.contentSize /\ parser'.chunked = parser.chunked
          /\ parser'.chunkSizeStr = parser.chunkSizeStr
      BY <2>2, <2>7, <3>1, HeaderLeaves
    <3>3. parser.contentSize = 0 /\ parser.chunked = FALSE /\ parser.chunkSizeStr = NoNumber
      BY <1>2, <1>4 DEF InHead, OriginInv
    <3>. QED  BY <3>2, <3>3 DEF NothingNoted
  <2>10. /\ "LengthName" \in DOMAIN LengthAt /\ LengthAt["LengthName"] = "HeaderName"
         /\ "CodingName" \in DOMAIN CodingAt /\ CodingAt["CodingName"] = "HeaderName"
    BY DEF LengthAt, CodingAt
  <2>. QED  BY <1>1, <1>2, <2>6, <2>8, <2>9, <2>10 DEF InLength, InCoding
<1>. QED  BY <1>3, <1>4

(* A digit more of a size, for the parser and for the origin.                   *)
LEMMA ReadDigit ==
  ASSUME NEW d \in HexDigits, NEW base \in Nat, DigitValue[d] < base,
         NEW size \in Nat, NEW number, NEW so,
         number = DigitsOf(size) \/ (number = NoNumber /\ size = 0),
         so = base * size + DigitValue[d], so \in 0..MaxSize
  PROVE  Read(number, base, d) = DigitsOf(so)
<1>1. d \notin Blank \union Signs /\ d \notin Words /\ IsDigit(base, d)
  BY Characters DEF IsDigit
<1>2. number.n = size /\ number.at # "rest"
  BY DEF DigitsOf, NoNumber
<1>3. AtMost(base * number.n + DigitValue[d], TooLarge) = so
  <2>1. so < TooLarge
    BY Sizes, MaxSizeAssumption
  <2>. QED  BY <1>2, <2>1 DEF AtMost
<1>4. Read(number, base, d) = [number EXCEPT !.n = so, !.at = "digits"]
  BY <1>1, <1>2, <1>3 DEF Read
<1>5. CASE number = DigitsOf(size)
  BY <1>4, <1>5 DEF DigitsOf
<1>6. CASE number = NoNumber
  BY <1>4, <1>6 DEF DigitsOf, NoNumber
<1>. QED  BY <1>5, <1>6

LEMMA FollowsLength ==
  ASSUME ResponseInv, Fits, OriginInv, InLength,
         NEW d \in Digits, SendsDigit(d, 10, "Length"), at \in {"LengthStart", "Length"}
  PROVE  InLength'
<1>1. /\ Sends(d, "Length") /\ at' = "Length"
      /\ left' = 10 * left + DigitValue[d] /\ left' \in 0..MaxSize
  <2>1. /\ Sends(d, "Length") /\ at' = "Length"
        /\ left' = 10 * left + DigitValue[d] /\ left' <= MaxSize
    BY DEF SendsDigit, Sends
  <2>2. d \in HexDigits /\ left \in Nat
    BY Characters DEF OriginInv
  <2>3. PICK m \in Nat : m = left
    BY <2>2
  <2>4. 10 * m + DigitValue[d] \in Nat
    BY <2>2, SizeStep
  <2>5. left' \in Nat
    BY <2>1, <2>3, <2>4
  <2>. QED  BY <2>1, <2>5, MaxSizeAssumption
<1>2. /\ parser.state = LengthAt[at] /\ parser.name = "Content-Length" /\ NothingNoted
      /\ parser.number = IF at = "Length" THEN DigitsOf(left) ELSE NoNumber
  BY DEF InLength
<1>3. /\ LengthAt["LengthStart"] = "HeaderValue" /\ LengthAt["Length"] = "HeaderValue"
      /\ "Length" \in DOMAIN LengthAt
  BY DEF LengthAt
<1>4. parser.state = "HeaderValue" /\ parser.state \in HeaderStates
  BY <1>2, <1>3 DEF HeaderStates
<1>5. ~WrongStatus(parser, d) /\ ~ContinuesNothing(parser, d)
  BY <1>4 DEF WrongStatus, ContinuesNothing
<1>6. parser'.state = "HeaderValue"
  <2>1. d \in DOMAIN HeaderMoves[parser.state] /\ HeaderMoves[parser.state][d] = "HeaderValue"
    BY <1>4, HeaderInputs, Characters
  <2>. QED  BY <1>1, <1>4, <1>5, <2>1, StateAfter
<1>7. Leaves(parser, d, parser.number.n, TRUE, parser')
  BY <1>1, SendsEffect
<1>8. /\ ~EndsValue(parser, d) /\ ~BeginsName(parser, d) /\ ExtendsValue(parser, d)
      /\ parser.state # "HeaderName"
  BY <1>4, EndsOfLines, Characters DEF EndsValue, BeginsName, ExtendsValue
<1>9. /\ parser'.name = "Content-Length" /\ parser'.contentSize = parser.contentSize
      /\ parser'.chunked = parser.chunked /\ parser'.chunkSizeStr = parser.chunkSizeStr
  <2>1. parser'.name = "Content-Length"
    BY <1>2, <1>7, <1>8 DEF Leaves
  <2>. QED  BY <1>4, <1>7, <1>8, <2>1, HeaderLeaves
<1>10. parser'.number = Read(parser.number, 10, d)
  BY <1>2, <1>7, <1>8 DEF Leaves, ReadLength
<1>11. parser'.number = DigitsOf(left')
  <2>1. PICK size \in Nat : size = left
    BY DEF OriginInv
  <2>2. PICK number : number = parser.number
    OBVIOUS
  <2>3. number = DigitsOf(size) \/ (number = NoNumber /\ size = 0)
    BY <1>2, <2>1, <2>2 DEF OriginInv
  <2>4. PICK so : so = left' /\ so \in 0..MaxSize
    BY <1>1
  <2>5. d \in HexDigits /\ DigitValue[d] < 10
    BY Characters
  <2>6. so = 10 * size + DigitValue[d]
    BY <1>1, <2>1, <2>4
  <2>7. Read(number, 10, d) = DigitsOf(so)
    BY <2>1, <2>3, <2>4, <2>5, <2>6, ReadDigit
  <2>. QED  BY <1>10, <2>2, <2>4, <2>7
<1>. QED  BY <1>1, <1>2, <1>3, <1>6, <1>9, <1>11 DEF InLength, NothingNoted

LEMMA FollowsSize ==
  ASSUME ResponseInv, Fits, OriginInv, InBody,
         NEW d \in HexDigits, SendsDigit(d, 16, "Size"), at \in {"SizeStart", "Size"}
  PROVE  InBody'
<1>1. /\ Sends(d, "Size") /\ at' = "Size"
      /\ left' = 16 * left + DigitValue[d] /\ left' \in 0..MaxSize
  <2>1. /\ Sends(d, "Size") /\ at' = "Size"
        /\ left' = 16 * left + DigitValue[d] /\ left' <= MaxSize
    BY DEF SendsDigit, Sends
  <2>2. d \in HexDigits /\ left \in Nat
    BY Characters DEF OriginInv
  <2>3. PICK m \in Nat : m = left
    BY <2>2
  <2>4. 16 * m + DigitValue[d] \in Nat
    BY <2>2, SizeStep
  <2>5. left' \in Nat
    BY <2>1, <2>3, <2>4
  <2>. QED  BY <2>1, <2>5, MaxSizeAssumption
<1>2. /\ parser.state = BodyAt[at]
      /\ parser.chunkSizeStr = IF at = "Size" THEN DigitsOf(left) ELSE NoNumber
  BY DEF InBody, WithSize
<1>3. /\ BodyAt["SizeStart"] = "ChunkSize" /\ BodyAt["Size"] = "ChunkSize"
      /\ "Size" \in DOMAIN BodyAt
  BY DEF BodyAt
<1>4. parser.state = "ChunkSize" /\ parser.state \in ChunkStates
  BY <1>2, <1>3 DEF ChunkStates
<1>5. ~WrongStatus(parser, d)
  BY <1>4 DEF WrongStatus
<1>6. parser'.state = "ChunkSize"
  <2>1. ChunkMoves["ChunkSize"] = On(Alnum, "ChunkSize") ++ On({";"}, "ChunkExtensionName")
                                    ++ On({"\r"}, "ChunkSizeNewLine")
    BY DEF ChunkMoves
  <2>2. d \in DOMAIN ChunkMoves[parser.state] /\ ChunkMoves[parser.state][d] = "ChunkSize"
    BY <1>4, <2>1, Characters DEF On, ++
  <2>. QED  BY <1>1, <1>4, <1>5, <2>2, StateAfter
<1>7. parser'.chunkSizeStr = Read(parser.chunkSizeStr, 16, d)
  <2>1. Leaves(parser, d, parser.number.n, TRUE, parser')
    BY <1>1, SendsEffect
  <2>2. d \in Alnum
    BY Characters
  <2>. QED  BY <1>4, <2>1, <2>2 DEF Leaves
<1>8. parser'.chunkSizeStr = DigitsOf(left')
  <2>1. PICK size \in Nat : size = left
    BY DEF OriginInv
  <2>2. PICK number : number = parser.chunkSizeStr
    OBVIOUS
  <2>3. number = DigitsOf(size) \/ (number = NoNumber /\ size = 0)
    <3>1. at = "SizeStart" => left = 0
      BY Parts DEF OriginInv, WithSize
    <3>. QED  BY <1>2, <2>1, <2>2, <3>1
  <2>4. PICK so : so = left' /\ so \in 0..MaxSize
    BY <1>1
  <2>5. DigitValue[d] < 16
    BY Characters
  <2>6. so = 16 * size + DigitValue[d]
    BY <1>1, <2>1, <2>4
  <2>7. Read(number, 16, d) = DigitsOf(so)
    BY <2>1, <2>3, <2>4, <2>5, <2>6, ReadDigit
  <2>. QED  BY <1>7, <2>2, <2>4, <2>7
<1>. QED  BY <1>1, <1>3, <1>6, <1>8 DEF InBody, WithSize

(* The head ends. *)
LEMMA FollowsEndsHeaders ==
  ASSUME ResponseInv, Fits, OriginInv, Misread \/ InHead, EndsHeaders
  PROVE  Failed' \/ InBody' \/ IsSent'
<1>. DEFINE n == IF method = "HEAD" THEN "Sent" ELSE IF framing = "chunked" THEN "SizeStart"
                 ELSE IF left > 0 THEN "Body" ELSE "Sent"
<1>1. Sends("\n", n) /\ at = "HeadEnd" /\ UNCHANGED <<phrase, framing, swallowed, left>>
  BY DEF EndsHeaders
<1>2. at' = n /\ method' = method
  BY <1>1 DEF Sends
<1>3. CASE Misread
  <2>1. left = 0 /\ framing = "none" /\ ~phrase
    BY <1>3 DEF Misread, OriginInv
  <2>2. n = "Sent"
    BY <2>1 DEF OriginInv
  <2>. QED  BY <1>1, <1>2, <2>1, <2>2 DEF Failed
<1>4. CASE InHead
  <2>1. /\ parser.state = "ExpectingNewline_3" /\ parser.contentSize = left
        /\ parser.chunked = (framing = "chunked") /\ parser.chunkSizeStr = NoNumber
    BY <1>1, <1>4, HeadStates DEF InHead
  <2>2. parser.state \in DataStates /\ ~WrongStatus(parser, "\n") /\ parser.state \notin Noting
    BY <2>1 DEF DataStates, WrongStatus, Noting
  <2>3. parser'.state = DataMove(parser, "\n")
    BY <1>1, <2>2, StateAfter
  <2>4. left \in Nat
    BY DEF OriginInv
  <2>5. parser'.state = IF framing = "chunked" THEN "ChunkSize" ELSE IF left > 0 THEN "Post"
                        ELSE "ParsingCompleted"
    <3>1. DataMove(parser, "\n") = IF parser.chunked THEN "ChunkSize"
                                    ELSE IF parser.contentSize # 0 THEN "Post"
                                    ELSE "ParsingCompleted"
      BY <2>1 DEF DataMove, EndsHead
    <3>2. CASE framing = "chunked"
      BY <2>1, <2>3, <3>1, <3>2
    <3>3. CASE framing # "chunked"
      <4>1. parser.chunked = FALSE
        BY <2>1, <3>3
      <4>2. parser'.state = IF parser.contentSize # 0 THEN "Post" ELSE "ParsingCompleted"
        BY <2>3, <3>1, <4>1
      <4>. QED  BY <2>1, <2>4, <3>3, <4>2
    <3>. QED  BY <3>2, <3>3
  <2>6. /\ parser'.contentSize = left /\ parser'.chunkSizeStr = NoNumber
    BY <1>1, <2>1, <2>2, NothingLeft
  <2>7. /\ BodyAt["SizeStart"] = "ChunkSize" /\ BodyAt["Body"] = "Post"
        /\ "SizeStart" \in DOMAIN BodyAt /\ "Body" \in DOMAIN BodyAt
    BY DEF BodyAt
  <2>8. CASE method = "HEAD"
    BY <1>1, <1>2, <2>4, <2>5, <2>8 DEF IsSent, AnnouncedOnly
  <2>9. CASE method # "HEAD"
    BY <1>1, <1>2, <2>4, <2>5, <2>6, <2>7, <2>9 DEF IsSent, AnnouncedOnly, InBody, WithSize
  <2>. QED  BY <2>8, <2>9
<1>. QED  BY <1>3, <1>4

(* A size line ends, or a line of the trailer. *)
LEMMA FollowsEndsLine ==
  ASSUME ResponseInv, Fits, OriginInv, InBody, EndsSize \/ EndsTrailerLine
  PROVE  InBody'
<1>. DEFINE n == IF at = "SizeEnd" /\ left > 0 THEN "Chunk" ELSE "Trailer"
<1>1. Sends("\n", n) /\ at \in {"SizeEnd", "TrailerValueEnd"} /\ left' = left
  BY DEF EndsSize, EndsTrailerLine
<1>2. at' = n
  BY <1>1 DEF Sends
<1>3. /\ BodyAt["SizeEnd"] = "ChunkSizeNewLine" /\ BodyAt["TrailerValueEnd"] = "ChunkSizeNewLine"
      /\ BodyAt["Chunk"] = "ChunkData" /\ BodyAt["Trailer"] = "ChunkSizeNewLine_2"
      /\ "Chunk" \in DOMAIN BodyAt /\ "Trailer" \in DOMAIN BodyAt
  BY DEF BodyAt
<1>4. /\ parser.state = "ChunkSizeNewLine"
      /\ parser.chunkSizeStr = IF at = "SizeEnd" THEN DigitsOf(left) ELSE NoNumber
  BY <1>1, <1>3 DEF InBody, WithSize
<1>5. parser.state \in DataStates /\ ~WrongStatus(parser, "\n")
  BY <1>4 DEF DataStates, WrongStatus
<1>6. parser'.state = DataMove(parser, "\n")
  BY <1>1, <1>5, StateAfter
<1>7. left \in Nat
  BY DEF OriginInv
<1>8. parser.chunkSizeStr.n = IF at = "SizeEnd" THEN left ELSE 0
  BY <1>4 DEF DigitsOf, NoNumber
<1>9. parser'.state = IF n = "Chunk" THEN "ChunkData" ELSE "ChunkSizeNewLine_2"
  BY <1>4, <1>6, <1>7, <1>8 DEF DataMove
<1>10. parser'.chunkSizeStr = NoNumber /\ parser'.chunkSize = parser.chunkSizeStr.n
  <2>1. Leaves(parser, "\n", parser.number.n, TRUE, parser')
    BY <1>1, SendsEffect
  <2>. QED  BY <1>4, <2>1 DEF Leaves, EndsSizeLine
<1>. QED  BY <1>1, <1>2, <1>3, <1>8, <1>9, <1>10 DEF InBody, WithSize

(* A character of the body, or of a chunk. *)
LEMMA FollowsData ==
  ASSUME ResponseInv, Fits, OriginInv, InBody, SendsData
  PROVE  InBody' \/ IsSent'
<1>1. PICK c, n : /\ Sends(c, n)
                  /\ \/ at = "Body" /\ n = IF left = 1 THEN "Sent" ELSE "Body"
                     \/ at = "Chunk" /\ n = IF left = 1 THEN "ChunkDone" ELSE "Chunk"
  BY DEF SendsData
<1>2. at' = n /\ method' = method /\ left' = left - 1 /\ framing' = framing
  BY <1>1 DEF SendsData, Sends
<1>3. /\ BodyAt["Body"] = "Post" /\ BodyAt["Chunk"] = "ChunkData"
      /\ BodyAt["ChunkDone"] = "ChunkDataNewLine_1"
      /\ {"Body", "Chunk", "ChunkDone"} \subseteq DOMAIN BodyAt
  BY DEF BodyAt
<1>4. /\ parser.state = BodyAt[at] /\ parser.chunkSizeStr = NoNumber
      /\ at = "Body" => parser.contentSize = left
      /\ at = "Chunk" => parser.chunkSize = left
  BY <1>1 DEF InBody, WithSize
<1>5. /\ parser.state = IF at = "Body" THEN "Post" ELSE "ChunkData"
      /\ parser.state \in DataStates /\ ~WrongStatus(parser, c)
  BY <1>1, <1>3, <1>4 DEF DataStates, WrongStatus
<1>6. parser'.state = DataMove(parser, c)
  BY <1>1, <1>5, StateAfter
<1>7. /\ at = "Body" => parser'.state = IF left = 1 THEN "ParsingCompleted" ELSE "Post"
      /\ at = "Chunk" => parser'.state = IF left = 1 THEN "ChunkDataNewLine_1" ELSE "ChunkData"
  BY <1>4, <1>5, <1>6 DEF DataMove, IsLast
<1>8. /\ at = "Body" => parser'.contentSize = left - 1
      /\ at = "Chunk" => parser'.chunkSize = left - 1
      /\ parser'.chunkSizeStr = NoNumber
  <2>1. Leaves(parser, c, parser.number.n, TRUE, parser')
    BY <1>1, SendsEffect
  <2>2. ~EndsValue(parser, c) /\ ~EndsSizeLine(parser, c) /\ parser.state # "ChunkSize"
    BY <1>5 DEF EndsValue, EndsSizeLine
  <2>3. left \in Nat /\ left > 0
    BY <1>1 DEF OriginInv
  <2>4. Decremented(left) = left - 1
    BY <2>3 DEF Decremented
  <2>. QED  BY <1>4, <1>5, <2>1, <2>2, <2>4 DEF Leaves
<1>9. method = "GET"
  BY <1>1, Parts DEF OriginInv
<1>10. CASE at = "Body"
  BY <1>1, <1>2, <1>3, <1>7, <1>8, <1>9, <1>10 DEF InBody, IsSent, AnnouncedOnly, WithSize
<1>11. CASE at = "Chunk"
  BY <1>1, <1>2, <1>3, <1>7, <1>8, <1>11 DEF InBody, WithSize
<1>. QED  BY <1>1, <1>10, <1>11

(* What comes after the end changes nothing any more. *)
LEMMA FollowsRest ==
  ASSUME ResponseInv, Fits, OriginInv, IsSent, SendsRest
  PROVE  IsSent'
<1>1. PICK c : Sends(c, "Rest")
  BY DEF SendsRest
<1>2. at' = "Rest" /\ method' = method /\ framing' = framing /\ left' = left
  BY <1>1 DEF SendsRest, Sends
<1>3. framing = "none" /\ left = 0
  BY DEF SendsRest, OriginInv
<1>4. parser.state = "ParsingCompleted"
  BY <1>3 DEF IsSent, AnnouncedOnly
<1>5. parser.state \in FinalStates /\ ~WrongStatus(parser, c)
  BY <1>4 DEF FinalStates, WrongStatus
<1>6. parser'.state = "ParsingCompleted"
  BY <1>1, <1>4, <1>5, StateAfter
<1>. QED  BY <1>2, <1>3, <1>6 DEF IsSent, AnnouncedOnly

LEMMA FollowsStep ==
  ASSUME ResponseInv, OriginInv, StatusInv, FollowsInv, [Next]_vars
  PROVE  FollowsInv'
<1>1. CASE GoesOn
  BY <1>1, FollowsGoesOn
<1>2. CASE SendsCode
  BY <1>2, CodeStep DEF FollowsInv
<1>0. ~Failed /\ at \notin DOMAIN StatusAt => Fits
  BY Fitting
<1>3. CASE Failed /\ at \notin DOMAIN StatusAt
  BY <1>3, FailedStep DEF FollowsInv
<1>4. CASE ~Failed /\ SendsPhrase
  <2>1. at = "PhraseStart"
    BY <1>4 DEF SendsPhrase
  <2>2. InHead
    BY <1>4, <2>1, Parts DEF FollowsInv, Misread, InLength, InCoding, InBody, IsSent
  <2>3. at \notin DOMAIN StatusAt
    BY <2>1, Parts
  <2>. QED  BY <1>0, <1>4, <2>2, <2>3, FollowsPhrase DEF FollowsInv
<1>5. CASE ~Failed /\ Announces
  <2>1. at \in {"FirstLine", "Line", "NextLine"}
    BY <1>5 DEF Announces
  <2>2. Misread \/ InHead
    BY <1>5, <2>1, Parts DEF FollowsInv, InLength, InCoding, InBody, IsSent
  <2>3. at \notin DOMAIN StatusAt
    BY <2>1, Parts
  <2>. QED  BY <1>0, <1>5, <2>2, <2>3, FollowsAnnounces DEF FollowsInv
<1>6. CASE ~Failed /\ SendsSize
  <2>1. CASE at \in {"LengthStart", "Length"} /\ \E d \in Digits : SendsDigit(d, 10, "Length")
    <3>1. InLength
      BY <1>6, <2>1, Parts DEF FollowsInv, Misread, InHead, InCoding, InBody, IsSent
    <3>2. at \notin DOMAIN StatusAt
      BY <2>1, Parts
    <3>3. InLength'
      BY <1>0, <1>6, <2>1, <3>1, <3>2, FollowsLength
    <3>. QED  BY <3>3 DEF FollowsInv
  <2>2. CASE /\ at \in {"SizeStart", "Size"}
             /\ \E d \in HexDigits : SendsDigit(d, 16, "Size")
    <3>1. InBody
      BY <1>6, <2>2, Parts DEF FollowsInv, Misread, InHead, InLength, InCoding, IsSent
    <3>2. at \notin DOMAIN StatusAt
      BY <2>2, Parts
    <3>3. InBody'
      BY <1>0, <1>6, <2>2, <3>1, <3>2, FollowsSize
    <3>. QED  BY <3>3 DEF FollowsInv
  <2>. QED  BY <1>6, <2>1, <2>2 DEF SendsSize
<1>7. CASE ~Failed /\ EndsHeaders
  <2>1. at = "HeadEnd"
    BY <1>7 DEF EndsHeaders
  <2>2. Misread \/ InHead
    BY <1>7, <2>1, Parts DEF FollowsInv, InLength, InCoding, InBody, IsSent
  <2>3. at \notin DOMAIN StatusAt
    BY <2>1, Parts
  <2>. QED  BY <1>0, <1>7, <2>2, <2>3, FollowsEndsHeaders DEF FollowsInv
<1>8. CASE ~Failed /\ (EndsSize \/ EndsTrailerLine)
  <2>1. at \in {"SizeEnd", "TrailerValueEnd"}
    BY <1>8 DEF EndsSize, EndsTrailerLine
  <2>2. InBody
    BY <1>8, <2>1, Parts DEF FollowsInv, Misread, InHead, InLength, InCoding, IsSent
  <2>3. at \notin DOMAIN StatusAt
    BY <2>1, Parts
  <2>. QED  BY <1>0, <1>8, <2>2, <2>3, FollowsEndsLine DEF FollowsInv
<1>9. CASE ~Failed /\ SendsData
  <2>1. at \in {"Body", "Chunk"}
    BY <1>9 DEF SendsData
  <2>2. InBody
    BY <1>9, <2>1, Parts DEF FollowsInv, Misread, InHead, InLength, InCoding, IsSent
  <2>3. at \notin DOMAIN StatusAt
    BY <2>1, Parts
  <2>. QED  BY <1>0, <1>9, <2>2, <2>3, FollowsData DEF FollowsInv
<1>10. CASE ~Failed /\ SendsRest
  <2>1. at \in {"Rest", "Sent"}
    BY <1>10 DEF SendsRest
  <2>2. IsSent
    BY <1>10, <2>1, Parts DEF FollowsInv, Misread, InHead, InLength, InCoding, InBody
  <2>3. at \notin DOMAIN StatusAt
    BY <2>1, Parts
  <2>. QED  BY <1>0, <1>10, <2>2, <2>3, FollowsRest DEF FollowsInv
<1>11. CASE Closes \/ Closed \/ UNCHANGED vars
  <2>1. /\ parser' = parser /\ at' = at /\ phrase' = phrase /\ framing' = framing
        /\ swallowed' = swallowed /\ left' = left /\ method' = method
    BY <1>11 DEF Closes, Closed, vars
  <2>2. Failed' <=> Failed
    BY <2>1 DEF Failed
  <2>3. Misread' <=> Misread
    BY <2>1 DEF Misread, NothingNoted
  <2>4. InHead' <=> InHead
    BY <2>1 DEF InHead, NothingNoted
  <2>5. InLength' <=> InLength
    BY <2>1 DEF InLength, NothingNoted
  <2>6. InCoding' <=> InCoding
    BY <2>1 DEF InCoding, NothingNoted
  <2>7. InBody' <=> InBody
    BY <2>1 DEF InBody
  <2>8. IsSent' <=> IsSent
    BY <2>1 DEF IsSent, AnnouncedOnly
  <2>. QED  BY <2>1, <2>2, <2>3, <2>4, <2>5, <2>6, <2>7, <2>8 DEF FollowsInv
<1>12. CASE at \in DOMAIN StatusAt /\ ~GoesOn /\ ~SendsCode
  <2>1. at' = at
    BY <1>12, OutsideStatus
  <2>. QED  BY <1>12, <2>1 DEF FollowsInv
<1>. QED  BY <1>1, <1>2, <1>3, <1>4, <1>5, <1>6, <1>7, <1>8, <1>9, <1>10, <1>11, <1>12 DEF Next

--------------------------------------------------------------------------------
(* The invariant of a parser that follows an origin. *)
FollowingInv ==
  ResponseInv /\ OriginInv /\ StatusInv /\ SettledInv /\ FollowsInv /\ VerdictInv

LEMMA FollowingInit == Init => FollowingInv
<1>. SUFFICES ASSUME Init PROVE FollowingInv
  OBVIOUS
<1>1. ResponseInv
  BY ResponseInit
<1>2. /\ method \in {"GET", "HEAD"} /\ at = "Nothing" /\ status = 0 /\ phrase = FALSE
      /\ framing = "none" /\ swallowed = FALSE /\ left = 0
      /\ connectionState = "RECEIVING_ANSWER"
  BY DEF Init
<1>3. OriginInv
  <2>1. 0 \in 0..MaxSize
    BY MaxSizeAssumption
  <2>. QED  BY <1>2, <2>1, Parts DEF OriginInv, Early, Late, WithSize
<1>4. /\ parser.state = "ResponseStatusStart" /\ parser.name = "" /\ NothingNoted
      /\ parser.statusCode = 0
  <2>. DEFINE own == [statusCode |-> 0]
              new == NewParser("ResponseStatusStart")
  <2>1. /\ DOMAIN own = {"statusCode"} /\ own.statusCode = 0
        /\ DOMAIN new = Fields
        /\ new.state = "ResponseStatusStart" /\ new.name = "" /\ new.contentSize = 0
        /\ new.chunked = FALSE /\ new.chunkSizeStr = NoNumber
    BY DEF NewParser, Fields
  <2>2. parser = new ++ own
    BY Zenon DEF Init, NewResponseParser
  <2>. HIDE DEF own, new
  <2>3. /\ \A x \in DOMAIN new : (new ++ own)[x] = new[x]
        /\ \A x \in DOMAIN own \ DOMAIN new : (new ++ own)[x] = own[x]
    BY MergeAt, Zenon
  <2>4. /\ \A x \in DOMAIN new : parser[x] = new[x]
        /\ \A x \in DOMAIN own \ DOMAIN new : parser[x] = own[x]
    BY <2>2, <2>3
  <2>. QED  BY <2>1, <2>4 DEF Fields, NothingNoted
<1>5. StatusInv
  <2>1. StatusAt["Nothing"] = "ResponseStatusStart"
    BY DEF StatusAt
  <2>. QED  BY <1>2, <1>4, <2>1 DEF StatusInv
<1>6. SettledInv /\ FollowsInv
  BY <1>2, Parts DEF SettledInv, FollowsInv
<1>7. VerdictInv
  BY <1>2 DEF VerdictInv, Open
<1>. QED  BY <1>1, <1>3, <1>5, <1>6, <1>7 DEF FollowingInv

LEMMA Following == Spec => []FollowingInv
<1>1. ResponseInv' /\ FollowingInv /\ [Next]_vars => FollowingInv'
  BY OriginStep, StatusStep, SettledStep, FollowsStep, VerdictStep DEF FollowingInv
<1>. QED  BY <1>1, FollowingInit, ResponseInvariance, PTL DEF Spec

(* Where the parser is when it has not completed, or has, says whether the      *)
(* origin is done.                                                              *)
LEMMA CompletesAtEnd ==
  ASSUME FollowingInv, parser.state = "ParsingCompleted"
  PROVE  at \notin DOMAIN StatusAt /\ (swallowed \/ (Whole /\ ~AnnouncedOnly))
<1>1. at \notin DOMAIN StatusAt
  <2>1. \A x \in DOMAIN StatusAt : StatusAt[x] # "ParsingCompleted"
    BY DEF StatusAt
  <2>. QED  BY <2>1 DEF FollowingInv, StatusInv
<1>2. Failed \/ Misread \/ InHead \/ InLength \/ InCoding \/ InBody \/ IsSent
  BY <1>1 DEF FollowingInv, FollowsInv
<1>3. /\ \A x \in DOMAIN MistakenAt : MistakenAt[x] # "ParsingCompleted"
      /\ \A x \in DOMAIN HeadAt : HeadAt[x] # "ParsingCompleted"
  BY DEF MistakenAt, HeadAt
<1>4. /\ \A x \in DOMAIN LengthAt : LengthAt[x] # "ParsingCompleted"
      /\ \A x \in DOMAIN CodingAt : CodingAt[x] # "ParsingCompleted"
      /\ \A x \in DOMAIN BodyAt : BodyAt[x] # "ParsingCompleted"
  BY DEF LengthAt, CodingAt, BodyAt
<1>5. Failed \/ IsSent
  BY <1>2, <1>3, <1>4 DEF Misread, InHead, InLength, InCoding, InBody
<1>6. CASE Failed
  <2>1. swallowed \/ (framing = "none" /\ at \in {"Sent", "Rest"})
    BY <1>6 DEF Failed
  <2>. QED  BY <1>1, <2>1 DEF Whole, AnnouncedOnly, FollowingInv, OriginInv
<1>7. CASE IsSent
  BY <1>1, <1>7 DEF IsSent, Whole
<1>. QED  BY <1>5, <1>6, <1>7

(* No origin, whatever it sends and wherever it closes, gets an answer into the *)
(* cache of which a part is missing, or one of another status than 200, or the  *)
(* head alone of an answer to a HEAD, for any sizes of the body and its chunks; *)
(* except where the line that tells how the answer ends follows an empty reason *)
(* phrase (ServerConnection.cpp:52-60, 79; httpresponseparser.h:140-370).       *)
THEOREM NothingPartialCached == Spec => []CachesOnlyWhole
<1>1. FollowingInv => CachesOnlyWhole
  <2>. SUFFICES ASSUME FollowingInv, connectionState = "CACHING_ANSWER_RECEIVED"
                PROVE  status = 200 /\ (swallowed \/ (Whole /\ ~AnnouncedOnly))
    BY DEF CachesOnlyWhole
  <2>1. IsResponseStatusIs200(parser)
    BY DEF FollowingInv, VerdictInv, Open
  <2>2. parser.state = "ParsingCompleted" /\ parser.statusCode = 200
    BY <2>1 DEF IsResponseStatusIs200, ParseResult
  <2>3. at \notin DOMAIN StatusAt /\ (swallowed \/ (Whole /\ ~AnnouncedOnly))
    BY <2>2, CompletesAtEnd
  <2>4. status = 200
    BY <2>2, <2>3 DEF FollowingInv, SettledInv
  <2>. QED  BY <2>3, <2>4
<1>. QED  BY <1>1, Following, PTL

(* Every answer of status 200 that has a reason phrase and has arrived whole    *)
(* goes to the cache, whatever is in its body, its headers and its trailers:    *)
(* the parser neither misses the end of one nor fails on it; and nothing an     *)
(* origin sends after such a phrase ends the process                            *)
(* (ServerConnection.cpp:52-60, 79; httpresponseparser.h:206-230, 260-370).     *)
THEOREM EveryWholeCached == Spec => []CachesEveryWhole
<1>1. ASSUME FollowingInv, connectionState = "NOT_CACHING_ANSWER_RECEIVED", Whole
      PROVE  status # 200 \/ ~phrase \/ AnnouncedOnly
  <2>. SUFFICES ASSUME status = 200, phrase, ~AnnouncedOnly
                PROVE  FALSE
    OBVIOUS
  <2>1. ~IsResponseStatusIs200(parser)
    BY <1>1 DEF FollowingInv, VerdictInv, Open
  <2>2. at \in {"Sent", "Rest"} /\ at \notin DOMAIN StatusAt
    BY <1>1, Parts DEF Whole
  <2>3. parser.statusCode = 200
    BY <1>1, <2>2 DEF FollowingInv, SettledInv
  <2>4. parser.state = "ParsingCompleted"
    <3>1. IsSent
      BY <1>1, <2>2, Parts DEF FollowingInv, FollowsInv, Failed, Misread, InHead, InLength,
           InCoding, InBody
    <3>. QED  BY <3>1 DEF IsSent
  <2>. QED  BY <2>1, <2>3, <2>4 DEF IsResponseStatusIs200, ParseResult, FinalStates
<1>2. ASSUME FollowingInv, connectionState = "PROCESS_TERMINATED"
      PROVE  ~phrase
  <2>1. parser.state = "ExceptionThrown"
    BY <1>2 DEF FollowingInv, VerdictInv, Open
  <2>2. at \notin DOMAIN StatusAt
    <3>1. \A x \in DOMAIN StatusAt : StatusAt[x] # "ExceptionThrown"
      BY DEF StatusAt
    <3>. QED  BY <1>2, <2>1, <3>1 DEF FollowingInv, StatusInv
  <2>3. Failed \/ Misread \/ InHead \/ InLength \/ InCoding \/ InBody \/ IsSent
    BY <1>2, <2>2 DEF FollowingInv, FollowsInv
  <2>4. /\ \A x \in DOMAIN MistakenAt : MistakenAt[x] # "ExceptionThrown"
        /\ \A x \in DOMAIN HeadAt : HeadAt[x] # "ExceptionThrown"
        /\ \A x \in DOMAIN LengthAt : LengthAt[x] # "ExceptionThrown"
    BY DEF MistakenAt, HeadAt, LengthAt
  <2>5. /\ \A x \in DOMAIN CodingAt : CodingAt[x] # "ExceptionThrown"
        /\ \A x \in DOMAIN BodyAt : BodyAt[x] # "ExceptionThrown"
    BY DEF CodingAt, BodyAt
  <2>6. Failed
    BY <2>1, <2>3, <2>4, <2>5 DEF Misread, InHead, InLength, InCoding, InBody, IsSent
  <2>. QED  BY <2>6 DEF Failed
<1>3. FollowingInv => CachesEveryWhole
  BY <1>1, <1>2 DEF CachesEveryWhole
<1>. QED  BY <1>3, Following, PTL

================================================================================
