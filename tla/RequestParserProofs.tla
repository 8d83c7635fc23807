-------------------------- MODULE RequestParserProofs --------------------------
(***************************************************************************)
(* The properties of the request parser, for messages of any length and    *)
(* any numbers in them, whatever the widths of int and size_t and wherever *)
(* memory ends.                                                            *)
(***************************************************************************)
EXTENDS RequestParser, HttpParserProofs

RequestStates ==
  {"RequestMethodStart", "RequestMethod", "RequestUriStart", "RequestUri",
   "RequestHttpVersion_h", "RequestHttpVersion_ht", "RequestHttpVersion_htt",
   "RequestHttpVersion_http", "RequestHttpVersion_slash", "RequestHttpVersion_majorStart",
   "RequestHttpVersion_major", "RequestHttpVersion_minorStart", "RequestHttpVersion_minor",
   "ResponseHttpVersion_newLine"}

HeadStates == RequestStates \union HeaderStates \union {"ExpectingNewline_3"}
BodyStates == ChunkStates \union {"Post", "ChunkSizeNewLine", "ChunkData"}
MethodStates == {"RequestMethodStart", "RequestMethod"}

(* How much of an empty line the text ends in where the head is in a state.     *)
EndIn(state) ==
  IF state \in {"ResponseHttpVersion_newLine", "ExpectingNewline_2"} THEN 1
  ELSE IF state = "HeaderLineStart" THEN 2
  ELSE IF state = "ExpectingNewline_3" THEN 3 ELSE 0

(* The fields of the parser hold values of their kind. *)
FieldsInv ==
  /\ DOMAIN parser = Fields \union {"method", "hasHost"}
  /\ parser.state \in States
  /\ CountersInv(parser)
  /\ parser.hasHost \in BOOLEAN

(* As long as the parser is in the head, its state says how much of an empty    *)
(* line the text ends in, and there has been none; and it reads a body, or      *)
(* finds no room for one, only of a request that may have one.                  *)
HeadInv ==
  /\ parser.state \in HeadStates => heads = 0 /\ end = EndIn(parser.state)
  /\ parser.state \in BodyStates \union {"ExceptionThrown"} => MayHaveBody(parser)
  /\ parser.contentSize # 0 \/ parser.chunked
       => MayHaveBody(parser) /\ parser.state \notin MethodStates

ValidatorInv ==
  /\ connectionState \in {"WAITING_FOR_REQUEST", "RECEIVING_REQUEST",
                          "PROCESSING_REQUEST", "WRONG_REQUEST", "PROCESS_TERMINATED"}
  /\ requestValidatorState = "WITHOUT_ERRORS" <=> connectionState = "PROCESSING_REQUEST"
  /\ connectionState = "PROCESS_TERMINATED" => parser.state = "ExceptionThrown"

RequestInv == FieldsInv /\ HeadInv /\ ValidatorInv

--------------------------------------------------------------------------------
(* The request line: only its end leads to the headers, and only a target that  *)
(* the line ends with completes the request.                                    *)
LEMMA RequestMove ==
  ASSUME NEW s \in RequestStates, NEW c \in DOMAIN RequestMoves[s]
  PROVE  LET t == RequestMoves[s][c]
         IN  /\ t \in RequestStates \union {"HeaderLineStart", "ParsingCompleted"}
             /\ t = "ParsingCompleted" <=> s = "RequestUri" /\ c = "\r"
             /\ t = "ResponseHttpVersion_newLine" <=> s # "RequestUri" /\ c = "\r"
             /\ t = "HeaderLineStart" <=> c = "\n"
             /\ c = "\n" <=> s = "ResponseHttpVersion_newLine"
             /\ t \in MethodStates => s \in MethodStates
<1>1. CASE s = "RequestMethodStart"
  <2>1. RequestMoves[s] = On(Token, "RequestMethod")
    BY <1>1 DEF RequestMoves
  <2>. QED  BY <1>1, <2>1, EndsOfLines DEF On, RequestStates, MethodStates
<1>2. CASE s = "RequestMethod"
  <2>1. RequestMoves[s] = On({" "}, "RequestUriStart") ++ On(Token, "RequestMethod")
    BY <1>2 DEF RequestMoves
  <2>. QED  BY <1>2, <2>1, EndsOfLines DEF On, ++, RequestStates, MethodStates
<1>3. CASE s = "RequestUriStart"
  <2>1. RequestMoves[s] = On(Text, "RequestUri")
    BY <1>3 DEF RequestMoves
  <2>. QED  BY <1>3, <2>1, EndsOfLines DEF On, RequestStates, MethodStates
<1>4. CASE s = "RequestUri"
  <2>1. RequestMoves[s] = On({" "}, "RequestHttpVersion_h") ++ On({"\r"}, "ParsingCompleted")
                            ++ On(Text, "RequestUri")
    BY <1>4 DEF RequestMoves
  <2>. QED  BY <1>4, <2>1, EndsOfLines DEF On, ++, RequestStates, MethodStates
<1>5. CASE s = "RequestHttpVersion_h"
  <2>1. RequestMoves[s] = On({"H"}, "RequestHttpVersion_ht")
    BY <1>5 DEF RequestMoves
  <2>. QED  BY <1>5, <2>1 DEF On, RequestStates, MethodStates
<1>6. CASE s = "RequestHttpVersion_ht"
  <2>1. RequestMoves[s] = On({"T"}, "RequestHttpVersion_htt")
    BY <1>6 DEF RequestMoves
  <2>. QED  BY <1>6, <2>1 DEF On, RequestStates, MethodStates
<1>7. CASE s = "RequestHttpVersion_htt"
  <2>1. RequestMoves[s] = On({"T"}, "RequestHttpVersion_http")
    BY <1>7 DEF RequestMoves
  <2>. QED  BY <1>7, <2>1 DEF On, RequestStates, MethodStates
<1>8. CASE s = "RequestHttpVersion_http"
  <2>1. RequestMoves[s] = On({"P"}, "RequestHttpVersion_slash")
    BY <1>8 DEF RequestMoves
  <2>. QED  BY <1>8, <2>1 DEF On, RequestStates, MethodStates
<1>9. CASE s = "RequestHttpVersion_slash"
  <2>1. RequestMoves[s] = On({"/"}, "RequestHttpVersion_majorStart")
    BY <1>9 DEF RequestMoves
  <2>. QED  BY <1>9, <2>1 DEF On, RequestStates, MethodStates
<1>10. CASE s = "RequestHttpVersion_majorStart"
  <2>1. RequestMoves[s] = On(Digits, "RequestHttpVersion_major")
    BY <1>10 DEF RequestMoves
  <2>. QED  BY <1>10, <2>1, EndsOfLines DEF On, RequestStates, MethodStates
<1>11. CASE s = "RequestHttpVersion_major"
  <2>1. RequestMoves[s] = On({"."}, "RequestHttpVersion_minorStart")
                            ++ On(Digits, "RequestHttpVersion_major")
    BY <1>11 DEF RequestMoves
  <2>. QED  BY <1>11, <2>1, EndsOfLines DEF On, ++, RequestStates, MethodStates
<1>12. CASE s = "RequestHttpVersion_minorStart"
  <2>1. RequestMoves[s] = On(Digits, "RequestHttpVersion_minor")
    BY <1>12 DEF RequestMoves
  <2>. QED  BY <1>12, <2>1, EndsOfLines DEF On, RequestStates, MethodStates
<1>13. CASE s = "RequestHttpVersion_minor"
  <2>1. RequestMoves[s] = On({"\r"}, "ResponseHttpVersion_newLine")
                            ++ On(Digits, "RequestHttpVersion_minor")
    BY <1>13 DEF RequestMoves
  <2>. QED  BY <1>13, <2>1, EndsOfLines DEF On, ++, RequestStates, MethodStates
<1>14. CASE s = "ResponseHttpVersion_newLine"
  <2>1. RequestMoves[s] = On({"\n"}, "HeaderLineStart")
    BY <1>14 DEF RequestMoves
  <2>. QED  BY <1>14, <2>1 DEF On, RequestStates, MethodStates
<1>. QED  BY <1>1, <1>2, <1>3, <1>4, <1>5, <1>6, <1>7,
             <1>8, <1>9, <1>10, <1>11, <1>12, <1>13, <1>14 DEF RequestStates

LEMMA Kinds ==
  /\ DOMAIN RequestMoves = RequestStates
  /\ RequestStates \intersect SharedStates = {}
  /\ States = HeadStates \union BodyStates \union FinalStates
  /\ HeadStates \intersect BodyStates = {}
  /\ (HeadStates \union BodyStates) \intersect FinalStates = {}
<1>1. DOMAIN RequestMoves = RequestStates
  BY DEF RequestMoves, RequestStates
<1>2. RequestStates \intersect SharedStates = {}
  BY KindsOfStates DEF RequestStates, HeaderStates, ChunkStates, DataStates, FinalStates
<1>3. /\ HeadStates \intersect BodyStates = {}
      /\ (HeadStates \union BodyStates) \intersect FinalStates = {}
  BY DEF HeadStates, BodyStates, FinalStates, RequestStates, HeaderStates, ChunkStates
<1>4. States = HeadStates \union BodyStates \union FinalStates
  BY <1>1, KindsOfStates DEF States, HeadStates, BodyStates, DataStates
<1>. QED  BY <1>1, <1>2, <1>3, <1>4

(* Where an input leads from any state. *)
LEMMA StateStep ==
  ASSUME NEW p, CountersInv(p), p.state \in States, NEW c
  PROVE  LET t == Move(Moves, p, c)
         IN  /\ t \in States
             /\ t = "ExceptionThrown" => p.state = "ExceptionThrown"
             /\ t \in HeadStates =>
                  /\ p.state \in HeadStates \ {"ExpectingNewline_3"}
                  /\ EndAfter(EndIn(p.state), c) = EndIn(t)
             /\ t \in BodyStates =>
                  \/ p.state \in BodyStates
                  \/ p.state = "ExpectingNewline_3" /\ (p.chunked \/ p.contentSize # 0)
             /\ t \in MethodStates => p.state \in MethodStates
             /\ p.state \notin FinalStates /\ t = "ParsingCompleted" =>
                  \/ p.state \in BodyStates \union {"RequestUri"}
                  \/ p.state = "ExpectingNewline_3" /\ c = "\n"
             /\ t = "Post" => \/ p.state = "Post" /\ p.contentSize > 1
                              \/ p.state = "ExpectingNewline_3" /\ p.contentSize > 0
             /\ t = "ChunkData" =>
                  \/ p.state = "ChunkData" /\ p.chunkSize > 1
                  \/ p.state = "ChunkSizeNewLine" /\ c = "\n" /\ p.chunkSizeStr.n > 0
<1>. DEFINE t == Move(Moves, p, c)
<1>1. /\ p.state \in FinalStates => t = p.state
      /\ p.state \in DataStates => t = DataMove(p, c)
      /\ p.state \in HeaderStates =>
           \/ t = "ParsingError"
           \/ c \in DOMAIN HeaderMoves[p.state] /\ t = HeaderMoves[p.state][c]
      /\ p.state \in ChunkStates =>
           \/ t = "ParsingError"
           \/ c \in DOMAIN ChunkMoves[p.state] /\ t = ChunkMoves[p.state][c]
      /\ p.state \in RequestStates =>
           \/ t = "ParsingError"
           \/ c \in DOMAIN RequestMoves[p.state] /\ t = RequestMoves[p.state][c]
  <2>1. DOMAIN RequestMoves \intersect SharedStates = {}
    BY Kinds
  <2>. HIDE DEF t
  <2>2. t = Move(RequestMoves ++ SharedMoves, p, c)
    BY DEF t, Moves
  <2>. QED  BY <2>1, <2>2, MoveEffect, Kinds, Zenon
<1>. HIDE DEF t
<1>2. CASE t = "ParsingError"
  <2>1. t \in FinalStates
    BY <1>2 DEF FinalStates
  <2>. QED  BY <1>2, <2>1, Kinds DEF t, MethodStates, HeadStates, RequestStates
<1>3. CASE p.state \in FinalStates
  <2>1. t \in FinalStates /\ p.state = t
    BY <1>1, <1>3
  <2>. QED  BY <1>3, <2>1, Kinds DEF t, FinalStates, MethodStates, HeadStates, RequestStates
<1>4. CASE p.state \in RequestStates /\ t # "ParsingError"
  <2>1. c \in DOMAIN RequestMoves[p.state] /\ t = RequestMoves[p.state][c]
    BY <1>1, <1>4
  <2>2. /\ t \in RequestStates \union {"HeaderLineStart", "ParsingCompleted"}
        /\ t = "ParsingCompleted" <=> p.state = "RequestUri" /\ c = "\r"
        /\ t = "ResponseHttpVersion_newLine" <=> p.state # "RequestUri" /\ c = "\r"
        /\ t = "HeaderLineStart" <=> c = "\n"
        /\ c = "\n" <=> p.state = "ResponseHttpVersion_newLine"
        /\ t \in MethodStates => p.state \in MethodStates
    BY <1>4, <2>1, RequestMove
  <2>3. t \in HeadStates => EndAfter(EndIn(p.state), c) = EndIn(t)
    BY <1>4, <2>2 DEF EndIn, EndAfter, HeadStates, RequestStates, HeaderStates
  <2>4. t \notin BodyStates /\ t \in States /\ p.state # "ExpectingNewline_3"
    <3>1. t \in HeadStates \union FinalStates
      BY <2>2 DEF HeadStates, HeaderStates, FinalStates
    <3>2. p.state # "ExpectingNewline_3"
      BY <1>4 DEF RequestStates
    <3>. QED  BY <3>1, <3>2, Kinds
  <2>5. t # "ExceptionThrown"
    BY <2>2 DEF RequestStates
  <2>. QED  BY <1>4, <2>2, <2>3, <2>4, <2>5 DEF t, HeadStates, BodyStates
<1>5. CASE p.state \in HeaderStates /\ t # "ParsingError"
  <2>1. c \in DOMAIN HeaderMoves[p.state] /\ t = HeaderMoves[p.state][c]
    BY <1>1, <1>5
  <2>2. /\ t \in HeaderStates \union {"ExpectingNewline_3"}
        /\ t = "ExpectingNewline_3" <=> c = "\r" /\ p.state = "HeaderLineStart"
        /\ t = "ExpectingNewline_2" <=> c = "\r" /\ p.state # "HeaderLineStart"
        /\ t = "HeaderLineStart" <=> c = "\n"
        /\ c = "\n" <=> p.state = "ExpectingNewline_2"
    BY <1>5, <2>1, HeaderMove
  <2>3. EndAfter(EndIn(p.state), c) = EndIn(t)
    BY <1>5, <2>2 DEF EndIn, EndAfter, HeaderStates
  <2>4. t \in HeadStates /\ t \notin MethodStates /\ p.state # "ExpectingNewline_3" /\ t # "ParsingCompleted"
    BY <1>5, <2>2 DEF HeadStates, HeaderStates, MethodStates
  <2>5. t \notin BodyStates /\ t \in States /\ t # "ExceptionThrown"
    BY <2>4, Kinds DEF FinalStates
  <2>. QED  BY <1>5, <2>3, <2>4, <2>5 DEF t, HeadStates, BodyStates
<1>6. CASE p.state \in ChunkStates /\ t # "ParsingError"
  <2>1. t \in ChunkStates \union {"ChunkSizeNewLine", "ParsingCompleted"}
    BY <1>1, <1>6, ChunkMove
  <2>2. t \in BodyStates \union FinalStates /\ t \notin {"Post", "ChunkData"} /\ p.state \in BodyStates
    BY <1>6, <2>1 DEF BodyStates, ChunkStates, FinalStates
  <2>3. t # "ExceptionThrown"
    BY <2>1 DEF ChunkStates
  <2>. QED  BY <1>6, <2>2, <2>3, Kinds DEF t, HeadStates, MethodStates, RequestStates
<1>7. CASE p.state \in DataStates
  <2>1. t = DataMove(p, c)
    BY <1>1, <1>7
  <2>2. /\ t \in ChunkStates \union {"Post", "ChunkData"} \union FinalStates
        /\ t # "ExceptionThrown"
        /\ t = "Post" => \/ p.state = "Post" /\ p.contentSize > 1
                         \/ p.state = "ExpectingNewline_3" /\ p.contentSize > 0
        /\ t = "ChunkData" =>
             \/ p.state = "ChunkData" /\ p.chunkSize > 1
             \/ p.state = "ChunkSizeNewLine" /\ c = "\n" /\ p.chunkSizeStr.n > 0
        /\ p.state = "ExpectingNewline_3" =>
             IF p.chunked \/ p.contentSize # 0 THEN t \in {"ChunkSize", "Post"}
             ELSE t = IF c = "\n" THEN "ParsingCompleted" ELSE "ParsingError"
    BY <1>7, <2>1, DataMoveEffect
  <2>3. t \in BodyStates \union FinalStates
    BY <2>2 DEF BodyStates
  <2>4. p.state = "ExpectingNewline_3" \/ p.state \in BodyStates
    BY <1>7 DEF DataStates, BodyStates
  <2>5. t \notin HeadStates /\ t \notin MethodStates /\ t \in States
    BY <2>3, Kinds DEF MethodStates, HeadStates, RequestStates
  <2>6. p.state = "ExpectingNewline_3" /\ t \in BodyStates => p.chunked \/ p.contentSize # 0
    BY <2>2 DEF BodyStates, ChunkStates
  <2>7. p.state = "ExpectingNewline_3" /\ t = "ParsingCompleted" => c = "\n"
    BY <2>2
  <2>. QED  BY <2>2, <2>4, <2>5, <2>6, <2>7 DEF t
<1>8. p.state \in RequestStates \union HeaderStates \union ChunkStates \union DataStates \union FinalStates
  BY Kinds, KindsOfStates DEF States
<1>. QED  BY <1>2, <1>3, <1>4, <1>5, <1>6, <1>7, <1>8

(* The fields only a request has. *)
LEMMA NoteRequestEffect ==
  ASSUME NEW p, DOMAIN p = Fields \union {"method", "hasHost"}, p.hasHost \in BOOLEAN, NEW c
  PROVE  LET q == NoteRequest(p, c)
         IN  /\ DOMAIN q = DOMAIN p
             /\ \A x \in Fields : q[x] = p[x]
             /\ q.hasHost \in BOOLEAN
             /\ p.state \notin MethodStates => q.method = p.method
<1>. DEFINE q == NoteRequest(p, c)
<1>1. CASE p.state \in MethodStates /\ c # " "
  <2>1. q = [p EXCEPT !.method = Push(@, c)]
    BY <1>1 DEF NoteRequest, MethodStates
  <2>2. DOMAIN q = DOMAIN p /\ \A x \in DOMAIN p \ {"method"} : q[x] = p[x]
    BY <2>1
  <2>. QED  BY <1>1, <2>2 DEF Fields
<1>2. CASE p.state = "HeaderName" /\ c = ":" /\ p.name = "Host"
  <2>1. q = [p EXCEPT !.hasHost = TRUE]
    BY <1>2 DEF NoteRequest
  <2>2. DOMAIN q = DOMAIN p /\ q.hasHost = TRUE /\ \A x \in DOMAIN p \ {"hasHost"} : q[x] = p[x]
    BY <2>1
  <2>. QED  BY <2>2 DEF Fields
<1>3. CASE ~(p.state \in MethodStates /\ c # " ")
           /\ ~(p.state = "HeaderName" /\ c = ":" /\ p.name = "Host")
  <2>1. q = p
    BY <1>3 DEF NoteRequest, MethodStates
  <2>. QED  BY <2>1
<1>. QED  BY <1>1, <1>2, <1>3

(* Only a header line that ends, of a request that may have a body, announces   *)
(* one.                                                                         *)
LEMMA ConsumeEffect ==
  ASSUME NEW p, DOMAIN p = Fields \union {"method", "hasHost"}, p.hasHost \in BOOLEAN,
         p.state \in States, CountersInv(p), NEW c, NEW length \in Lengths(p.number)
  PROVE  LET q == Consume(p, c, length)
         IN  /\ DOMAIN q = DOMAIN p
             /\ q.state = IF Throws(p, c, length, MayHaveBody(p)) THEN "ExceptionThrown"
                          ELSE Move(Moves, p, c)
             /\ CountersInv(q)
             /\ q.hasHost \in BOOLEAN
             /\ p.state \notin MethodStates => q.method = p.method
             /\ ~(EndsValue(p, c) /\ MayHaveBody(p)) =>
                  q.contentSize <= p.contentSize /\ q.chunked = p.chunked
<1>. DEFINE m == NoteRequest(p, c)
            b == MayHaveBody(p)
            n == Note(m, c, length, b)
            t == IF Throws(p, c, length, b) THEN "ExceptionThrown" ELSE Move(Moves, p, c)
            q == Consume(p, c, length)
<1>1. /\ DOMAIN m = DOMAIN p
      /\ \A x \in Fields : m[x] = p[x]
      /\ m.hasHost \in BOOLEAN
      /\ p.state \notin MethodStates => m.method = p.method
  BY NoteRequestEffect, Zenon
<1>2. q = [n EXCEPT !.state = t]
  BY Zenon DEF Consume
<1>3. b \in BOOLEAN
  BY DEF MayHaveBody
<1>. HIDE DEF m, b, t, q
<1>4. /\ m.state = p.state /\ m.number = p.number /\ m.contentSize = p.contentSize
      /\ m.chunked = p.chunked /\ m.chunkSize = p.chunkSize /\ m.chunkSizeStr = p.chunkSizeStr
      /\ m.name = p.name
  BY <1>1 DEF Fields
<1>5. CountersInv(m) /\ Fields \subseteq DOMAIN m
  BY <1>1, <1>4 DEF CountersInv
<1>6. /\ t = "Post" => \/ m.state = "Post" /\ m.contentSize > 1
                       \/ m.state = "ExpectingNewline_3" /\ m.contentSize > 0
      /\ t = "ChunkData" =>
           \/ m.state = "ChunkData" /\ m.chunkSize > 1
           \/ m.state = "ChunkSizeNewLine" /\ c = "\n" /\ m.chunkSizeStr.n > 0
  BY <1>4, StateStep DEF t
<1>7. Throws(m, c, length, b) \/ m.state = "ExceptionThrown" => t = "ExceptionThrown"
  <2>1. Throws(m, c, length, b) = Throws(p, c, length, b)
    BY <1>4, Zenon DEF Throws, EndsValue, TellsLength, EndsSizeLine
  <2>2. p.state = "ExceptionThrown" => Move(Moves, p, c) = "ExceptionThrown"
    BY MoveCases DEF FinalStates
  <2>. QED  BY <1>4, <2>1, <2>2 DEF t
<1>8. CountersInv(q) /\ DOMAIN q = DOMAIN m /\ q.state = t
  <2>1. length \in Lengths(m.number) /\ MayLead(m, c, length, b, t)
    BY <1>4, <1>6, <1>7 DEF MayLead
  <2>2. PICK o, r : o = Note(m, c, length, b) /\ r = q
    OBVIOUS
  <2>3. r = [o EXCEPT !.state = t]
    BY <1>2, <2>2
  <2>4. CountersInv(r) /\ DOMAIN r = DOMAIN m /\ r.state = t
    BY <1>3, <1>5, <2>1, <2>2, <2>3, CountersStep
  <2>. QED  BY <2>2, <2>4
<1>9. /\ DOMAIN n = DOMAIN m
      /\ \A x \in DOMAIN m \ Fields : n[x] = m[x]
      /\ ~(EndsValue(m, c) /\ b) =>
           /\ n.contentSize = IF m.state = "Post" THEN Decremented(m.contentSize) ELSE m.contentSize
           /\ n.chunked = m.chunked
  BY <1>3, <1>5, NoteEffect
<1>. HIDE DEF n
<1>10. \A x \in DOMAIN m \ {"state"} : q[x] = n[x]
  BY <1>2, <1>9
<1>11. /\ q.contentSize = n.contentSize /\ q.chunked = n.chunked
       /\ q.method = m.method /\ q.hasHost = m.hasHost
  BY <1>1, <1>9, <1>10 DEF Fields
<1>12. ~(EndsValue(p, c) /\ b) => q.contentSize <= p.contentSize /\ q.chunked = p.chunked
  <2>. PICK size : size = p.contentSize
    OBVIOUS
  <2>1. size \in Nat /\ (p.state = "Post" => size > 0)
    BY Sizes DEF CountersInv
  <2>2. ~(EndsValue(p, c) /\ b) =>
          /\ q.contentSize = IF p.state = "Post" THEN Decremented(size) ELSE size
          /\ q.chunked = p.chunked
    BY <1>4, <1>9, <1>11 DEF EndsValue
  <2>. QED  BY <2>1, <2>2 DEF Decremented
<1>. QED  BY <1>1, <1>8, <1>11, <1>12 DEF q, t, b

--------------------------------------------------------------------------------
LEMMA RequestInit == Init => RequestInv
<1>. SUFFICES ASSUME Init PROVE RequestInv
  OBVIOUS
<1>. DEFINE own == [method |-> "", hasHost |-> FALSE]
<1>1. DOMAIN own = {"method", "hasHost"} /\ own.method = "" /\ own.hasHost = FALSE
  OBVIOUS
<1>2. IsNewParser(parser, "RequestMethodStart", own)
  <2>1. "RequestMethodStart" \notin {"Post", "ChunkData"}
    OBVIOUS
  <2>2. IsNewParser(NewParser("RequestMethodStart") ++ own, "RequestMethodStart", own)
    BY <2>1, NewParserEffect, Zenon
  <2>3. parser = NewParser("RequestMethodStart") ++ own
    BY Zenon DEF Init, NewRequestParser
  <2>. QED  BY <2>2, <2>3, Zenon
<1>. HIDE DEF own
<1>3. /\ DOMAIN parser = Fields \union DOMAIN own
      /\ parser.state = "RequestMethodStart" /\ CountersInv(parser)
      /\ parser.contentSize = 0 /\ parser.chunkSize = 0 /\ ~parser.chunked
      /\ parser.number = NoNumber /\ parser.chunkSizeStr = NoNumber
      /\ \A x \in DOMAIN own \ Fields : parser[x] = own[x]
  BY <1>2, Zenon DEF IsNewParser
<1>4. parser.hasHost = FALSE
  BY <1>1, <1>3 DEF Fields
<1>5. parser.hasHost \in BOOLEAN
  BY <1>4, Zenon
<1>7. parser.state \in RequestStates /\ parser.state \in HeadStates /\ parser.state \in States
  BY <1>3, Kinds DEF RequestStates, HeadStates
<1>8. FieldsInv
  <2>1. DOMAIN parser = Fields \union {"method", "hasHost"} /\ CountersInv(parser)
    BY <1>1, <1>3
  <2>. QED  BY <1>5, <1>7, <2>1 DEF FieldsInv
<1>9. HeadInv
  BY <1>3, <1>7, Kinds DEF HeadInv, Init, EndIn, FinalStates
<1>10. ValidatorInv
  BY DEF ValidatorInv, Init
<1>. QED  BY <1>8, <1>9, <1>10 DEF RequestInv

(* Another input. *)
LEMMA ArrivesPreserves ==
  ASSUME RequestInv, NEW c, Arrives(c)
  PROVE  RequestInv'
<1>. USE DEF RequestInv
<1>1. /\ DOMAIN parser = Fields \union {"method", "hasHost"} /\ parser.state \in States
      /\ CountersInv(parser) /\ parser.hasHost \in BOOLEAN
  BY DEF FieldsInv
<1>2. PICK p : p = parser
  OBVIOUS
<1>3. PICK q : q = parser'
  OBVIOUS
<1>4. PICK length \in Lengths(p.number) : q = Consume(p, c, length)
  BY <1>2, <1>3 DEF Arrives
<1>. DEFINE thrown == Throws(p, c, length, MayHaveBody(p))
<1>5. /\ DOMAIN q = DOMAIN p
      /\ q.state = IF thrown THEN "ExceptionThrown" ELSE Move(Moves, p, c)
      /\ CountersInv(q)
      /\ q.hasHost \in BOOLEAN
      /\ p.state \notin MethodStates => q.method = p.method
      /\ ~(EndsValue(p, c) /\ MayHaveBody(p)) =>
           q.contentSize <= p.contentSize /\ q.chunked = p.chunked
  BY <1>1, <1>2, <1>4, ConsumeEffect
<1>. HIDE DEF thrown
<1>6. /\ q.state \in States
      /\ q.state = "ExceptionThrown" => thrown \/ p.state = "ExceptionThrown"
      /\ q.state \in HeadStates =>
           /\ p.state \in HeadStates \ {"ExpectingNewline_3"}
           /\ EndAfter(EndIn(p.state), c) = EndIn(q.state)
      /\ q.state \in BodyStates =>
           \/ p.state \in BodyStates
           \/ p.state = "ExpectingNewline_3" /\ (p.chunked \/ p.contentSize # 0)
      /\ q.state \in MethodStates => p.state \in MethodStates
  <2>1. CASE thrown
    BY <1>5, <2>1, Kinds DEF FinalStates, MethodStates
  <2>2. CASE ~thrown
    BY <1>1, <1>2, <1>5, <2>2, StateStep
  <2>. QED  BY <2>1, <2>2
<1>7. FieldsInv'
  BY <1>1, <1>2, <1>3, <1>5, <1>6 DEF FieldsInv
<1>8. HeadInv'
  <2>1. ASSUME q.state \in HeadStates
        PROVE  heads' = 0 /\ end' = EndIn(q.state)
    <3>1. heads = 0 /\ end = EndIn(p.state) /\ end' = EndIn(q.state)
      BY <1>2, <1>6, <2>1 DEF HeadInv, Arrives
    <3>2. end' # EmptyLine
      BY <3>1 DEF EndIn, EmptyLine
    <3>. QED  BY <3>1, <3>2 DEF Arrives
  <2>2. ASSUME q.state \in BodyStates \union {"ExceptionThrown"}
        PROVE  MayHaveBody(q)
    <3>1. MayHaveBody(p) /\ p.state \notin MethodStates
      <4>1. CASE thrown
        <5>1. \/ p.state = "HeaderValue" /\ MayHaveBody(p)
              \/ p.state = "ChunkSizeNewLine"
          BY <4>1, Zenon DEF thrown, Throws, EndsValue, TellsLength, EndsSizeLine
        <5>. QED  BY <1>2, <5>1 DEF HeadInv, BodyStates, MethodStates
      <4>2. CASE ~thrown
        <5>1. \/ p.state \in BodyStates \union {"ExceptionThrown"}
              \/ p.state = "ExpectingNewline_3" /\ (p.chunked \/ p.contentSize # 0)
          BY <1>6, <2>2, <4>2
        <5>2. p.state \notin MethodStates
          BY <5>1, Kinds DEF HeadStates, RequestStates, MethodStates, FinalStates
        <5>. QED  BY <1>2, <5>1, <5>2 DEF HeadInv
      <4>. QED  BY <4>1, <4>2
    <3>. QED  BY <1>5, <3>1 DEF MayHaveBody
  <2>3. ASSUME q.contentSize # 0 \/ q.chunked
        PROVE  MayHaveBody(q) /\ q.state \notin MethodStates
    <3>1. MayHaveBody(p) /\ p.state \notin MethodStates
      <4>1. CASE EndsValue(p, c) /\ MayHaveBody(p)
        BY <4>1 DEF MethodStates, EndsValue
      <4>2. CASE ~(EndsValue(p, c) /\ MayHaveBody(p))
        <5>1. p.contentSize # 0 \/ p.chunked
          BY <1>1, <1>2, <1>5, <2>3, <4>2, Sizes DEF CountersInv
        <5>. QED  BY <1>2, <5>1 DEF HeadInv
      <4>. QED  BY <4>1, <4>2
    <3>. QED  BY <1>5, <1>6, <3>1 DEF MayHaveBody
  <2>. QED  BY <1>3, <2>1, <2>2, <2>3 DEF HeadInv
<1>9. ValidatorInv'
  <2>1. connectionState # "PROCESS_TERMINATED"
    BY DEF Arrives, Receiving
  <2>. QED  BY <2>1 DEF ValidatorInv, Arrives
<1>. QED  BY <1>7, <1>8, <1>9

(* The validation leaves the parser alone. *)
LEMMA ValidationPreserves ==
  ASSUME RequestInv, RequestGoesOn \/ RequestEnds \/ ParsingThrows \/ UNCHANGED vars
  PROVE  RequestInv'
<1>1. parser' = parser /\ end' = end /\ heads' = heads
  BY DEF RequestGoesOn, RequestEnds, ParsingThrows, vars
<1>2. FieldsInv' /\ HeadInv'
  BY <1>1 DEF RequestInv, FieldsInv, HeadInv
<1>3. ValidatorInv'
  <2>1. CASE RequestGoesOn
    BY <2>1 DEF RequestInv, ValidatorInv, RequestGoesOn, Receiving
  <2>2. CASE RequestEnds
    BY <2>2 DEF RequestInv, ValidatorInv, RequestEnds, CheckValidity, Refuse
  <2>3. CASE ParsingThrows
    BY <2>3 DEF RequestInv, ValidatorInv, ParsingThrows, Receiving
  <2>4. CASE UNCHANGED vars
    BY <2>4 DEF RequestInv, ValidatorInv, vars
  <2>. QED  BY <2>1, <2>2, <2>3, <2>4
<1>. QED  BY <1>2, <1>3 DEF RequestInv

LEMMA RequestInvariance == Spec => []RequestInv
<1>1. RequestInv /\ [Next]_vars => RequestInv'
  <2>. SUFFICES ASSUME RequestInv, [Next]_vars PROVE RequestInv'
    OBVIOUS
  <2>1. CASE \E c \in Inputs : Arrives(c)
    BY <2>1, ArrivesPreserves
  <2>2. CASE RequestGoesOn \/ RequestEnds \/ ParsingThrows \/ Decided \/ UNCHANGED vars
    BY <2>2, ValidationPreserves DEF Decided
  <2>. QED  BY <2>1, <2>2 DEF Next
<1>. QED  BY <1>1, RequestInit, PTL DEF Spec

(* The parser and the validation hold values of their kind, whatever a client   *)
(* sends and however it is cut into parts. In particular the counters of a body *)
(* and of a chunk, unsigned and counted down before they are compared with 0,   *)
(* never wrap: whatever sign a length has and whatever atoi() makes of one that *)
(* is no int, either there is room for what the parser counts down, or          *)
(* content.reserve() has thrown and the parser does not go on                   *)
(* (httprequestparser.h:206-216, 243-270, 296-355).                             *)
THEOREM RequestTypeCorrectness == Spec => []TypeOK
<1>1. RequestInv => TypeOK
  <2>. SUFFICES ASSUME RequestInv PROVE TypeOK
    OBVIOUS
  <2>1. CountersInv(parser) /\ parser.state \in States /\ parser.hasHost \in BOOLEAN /\ ValidatorInv
    BY DEF RequestInv, FieldsInv
  <2>. QED  BY <2>1, Zenon DEF ValidatorInv, CountersInv, TypeOK
<1>. QED  BY <1>1, RequestInvariance, PTL

(* No client ends the process by a request whose method has no body: only such  *)
(* a length or size of a chunk makes content.reserve() throw, and the parser    *)
(* looks at neither unless the method is one that has a body                    *)
(* (httprequestparser.h:206-216, 300-303).                                      *)
THEOREM OnlyBodiesEverTerminate == Spec => []OnlyBodiesTerminate
<1>1. RequestInv => OnlyBodiesTerminate
  BY DEF RequestInv, HeadInv, ValidatorInv, OnlyBodiesTerminate
<1>. QED  BY <1>1, RequestInvariance, PTL

(* receiveRequest(), which looks for an empty line, and the parser, which goes  *)
(* from state to state, never disagree on where a request without a body ends   *)
(* (ClientConnection.cpp:97-103, 26-31).                                        *)
THEOREM EmptyLineAlwaysDecides == Spec => []EmptyLineDecides
<1>1. RequestInv => EmptyLineDecides
  BY Kinds DEF RequestInv, FieldsInv, HeadInv, EmptyLineDecides
<1>. QED  BY <1>1, RequestInvariance, PTL

(* What the parser knows of a request it completed is all of its head: it never *)
(* completes before the first empty line, except at the end of the request line *)
(* of an HTTP/0.9 request, and never after it.                                  *)
THEOREM CompletionAtEmptyLine == Spec => CompletedAtEmptyLine
<1>. DEFINE AtEmptyLine ==
       parser.state \notin FinalStates /\ parser'.state = "ParsingCompleted"
         /\ ~MayHaveBody(parser)
         => (end' = EmptyLine /\ heads = 0) \/ parser.state = "RequestUri"
<1>1. RequestInv /\ Next => AtEmptyLine
  <2>. SUFFICES ASSUME RequestInv, Next,
                       parser.state \notin FinalStates, parser'.state = "ParsingCompleted",
                       ~MayHaveBody(parser), parser.state # "RequestUri"
                PROVE  end' = EmptyLine /\ heads = 0
    OBVIOUS
  <2>1. PICK c \in Inputs : Arrives(c)
    BY DEF Next, RequestGoesOn, RequestEnds, ParsingThrows, Decided, vars, FinalStates
  <2>2. PICK p : p = parser
    OBVIOUS
  <2>3. /\ DOMAIN p = Fields \union {"method", "hasHost"} /\ p.state \in States
        /\ CountersInv(p) /\ p.hasHost \in BOOLEAN
    BY <2>2 DEF RequestInv, FieldsInv
  <2>4. Move(Moves, p, c) = "ParsingCompleted"
    <3>1. PICK length \in Lengths(p.number) : parser' = Consume(p, c, length)
      BY <2>1, <2>2 DEF Arrives
    <3>2. parser'.state = IF Throws(p, c, length, MayHaveBody(p)) THEN "ExceptionThrown"
                          ELSE Move(Moves, p, c)
      BY <2>3, <3>1, ConsumeEffect
    <3>. QED  BY <3>2
  <2>5. \/ p.state \in BodyStates \union {"RequestUri"}
        \/ p.state = "ExpectingNewline_3" /\ c = "\n"
    BY <2>2, <2>3, <2>4, StateStep
  <2>6. p.state = "ExpectingNewline_3" /\ c = "\n"
    BY <2>2, <2>5 DEF RequestInv, HeadInv
  <2>7. heads = 0 /\ end = 3
    BY <2>2, <2>6 DEF RequestInv, HeadInv, HeadStates, EndIn
  <2>. QED  BY <2>1, <2>6, <2>7 DEF Arrives, EndAfter, EmptyLine
<1>2. RequestInv /\ [Next]_vars => [AtEmptyLine]_vars
  BY <1>1
<1>. QED  BY <1>2, RequestInvariance, PTL DEF Spec, CompletedAtEmptyLine

================================================================================
