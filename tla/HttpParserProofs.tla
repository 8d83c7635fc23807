---------------------------- MODULE HttpParserProofs ---------------------------
(***************************************************************************)
(* What the two parsers have in common does, whatever comes in: where the  *)
(* states of the head and of the chunks lead, and what an input leaves in  *)
(* the counters. The lemmas the proofs about either parser cite.           *)
(***************************************************************************)
EXTENDS HttpParser, TLAPS

HeaderStates == {"HeaderLineStart", "HeaderLws", "HeaderName", "SpaceBeforeHeaderValue",
                 "HeaderValue", "ExpectingNewline_2"}

ChunkStates == {"ChunkSize", "ChunkExtensionName", "ChunkExtensionValue", "ChunkSizeNewLine_2",
                "ChunkSizeNewLine_3", "ChunkTrailerName", "ChunkTrailerValue",
                "ChunkDataNewLine_1", "ChunkDataNewLine_2"}

LEMMA MergeAt ==
  ASSUME NEW f, NEW g
  PROVE  /\ DOMAIN (f ++ g) = DOMAIN f \union DOMAIN g
         /\ \A x \in DOMAIN f : (f ++ g)[x] = f[x]
         /\ \A x \in DOMAIN g \ DOMAIN f : (f ++ g)[x] = g[x]
BY DEF ++

(* The inputs that end a line are in no class of others. *)
LEMMA EndsOfLines ==
  /\ "\r" \notin Token /\ "\n" \notin Token
  /\ "\r" \notin Text /\ "\n" \notin Text
  /\ "\r" \notin Blank /\ "\n" \notin Blank
  /\ "\r" \notin Alnum /\ "\n" \notin Alnum
  /\ "\r" \notin Digits /\ "\n" \notin Digits
<1>1. "\r" \notin Token /\ "\n" \notin Token /\ "\r" \notin Text /\ "\n" \notin Text
  BY DEF Token, Text, Control
<1>2. "\r" \notin Blank /\ "\n" \notin Blank
  BY DEF Blank
<1>3. "\r" \notin Alnum /\ "\n" \notin Alnum /\ "\r" \notin Digits /\ "\n" \notin Digits
  BY DEF Alnum, Alpha, Letters, Digits, Words
<1>. QED  BY <1>1, <1>2, <1>3

LEMMA Domains ==
  /\ DOMAIN HeaderMoves = HeaderStates
  /\ DOMAIN ChunkMoves = ChunkStates
  /\ DOMAIN SharedMoves = HeaderStates \union ChunkStates
<1>1. DOMAIN HeaderMoves = HeaderStates
  BY DEF HeaderMoves, HeaderStates
<1>2. DOMAIN ChunkMoves = ChunkStates
  BY DEF ChunkMoves, ChunkStates
<1>. QED  BY <1>1, <1>2, MergeAt DEF SharedMoves

LEMMA SharedMovesAt ==
  /\ \A s \in HeaderStates : SharedMoves[s] = HeaderMoves[s]
  /\ \A s \in ChunkStates : SharedMoves[s] = ChunkMoves[s]
<1>1. HeaderStates \intersect ChunkStates = {}
  BY DEF HeaderStates, ChunkStates
<1>2. /\ \A s \in DOMAIN HeaderMoves : SharedMoves[s] = HeaderMoves[s]
      /\ \A s \in DOMAIN ChunkMoves \ DOMAIN HeaderMoves : SharedMoves[s] = ChunkMoves[s]
  <2>. HIDE DEF HeaderMoves, ChunkMoves
  <2>. QED  BY MergeAt, Zenon DEF SharedMoves
<1>. QED  BY <1>1, <1>2, Domains

(* In the head only the end of a line leads to the next one, and only a line    *)
(* that has just begun ends the head.                                           *)
LEMMA HeaderMove ==
  ASSUME NEW s \in HeaderStates, NEW c \in DOMAIN HeaderMoves[s]
  PROVE  LET t == HeaderMoves[s][c]
         IN  /\ t \in HeaderStates \union {"ExpectingNewline_3"}
             /\ t = "ExpectingNewline_3" <=> c = "\r" /\ s = "HeaderLineStart"
             /\ t = "ExpectingNewline_2" <=> c = "\r" /\ s # "HeaderLineStart"
             /\ t = "HeaderLineStart" <=> c = "\n"
             /\ c = "\n" <=> s = "ExpectingNewline_2"
<1>1. CASE s = "HeaderLineStart"
  <2>1. HeaderMoves[s] = On({"\r"}, "ExpectingNewline_3") ++ On(Blank, "HeaderLws")
                           ++ On(Token, "HeaderName")
    BY <1>1 DEF HeaderMoves
  <2>. QED  BY <1>1, <2>1, EndsOfLines DEF On, ++, HeaderStates
<1>2. CASE s = "HeaderLws"
  <2>1. HeaderMoves[s] = On({"\r"}, "ExpectingNewline_2") ++ On(Blank, "HeaderLws")
                           ++ On(Text, "HeaderValue")
    BY <1>2 DEF HeaderMoves
  <2>. QED  BY <1>2, <2>1, EndsOfLines DEF On, ++, HeaderStates
<1>3. CASE s = "HeaderName"
  <2>1. HeaderMoves[s] = On({":"}, "SpaceBeforeHeaderValue") ++ On(Token, "HeaderName")
    BY <1>3 DEF HeaderMoves
  <2>. QED  BY <1>3, <2>1, EndsOfLines DEF On, ++, HeaderStates
<1>4. CASE s = "SpaceBeforeHeaderValue"
  <2>1. HeaderMoves[s] = On({" "}, "HeaderValue")
    BY <1>4 DEF HeaderMoves
  <2>. QED  BY <1>4, <2>1 DEF On, HeaderStates
<1>5. CASE s = "HeaderValue"
  <2>1. HeaderMoves[s] = On({"\r"}, "ExpectingNewline_2") ++ On(Text, "HeaderValue")
    BY <1>5 DEF HeaderMoves
  <2>. QED  BY <1>5, <2>1, EndsOfLines DEF On, ++, HeaderStates
<1>6. CASE s = "ExpectingNewline_2"
  <2>1. HeaderMoves[s] = On({"\n"}, "HeaderLineStart")
    BY <1>6 DEF HeaderMoves
  <2>. QED  BY <1>6, <2>1 DEF On, HeaderStates
<1>. QED  BY <1>1, <1>2, <1>3, <1>4, <1>5, <1>6 DEF HeaderStates

(* From among the chunks nothing leads back to the head, or into the data of a  *)
(* body or a chunk: that takes the counters.                                    *)
LEMMA ChunkMove ==
  ASSUME NEW s \in ChunkStates, NEW c \in DOMAIN ChunkMoves[s]
  PROVE  ChunkMoves[s][c] \in ChunkStates \union {"ChunkSizeNewLine", "ParsingCompleted"}
<1>1. CASE s = "ChunkSize"
  <2>1. ChunkMoves[s] = On(Alnum, "ChunkSize") ++ On({";"}, "ChunkExtensionName")
                          ++ On({"\r"}, "ChunkSizeNewLine")
    BY <1>1 DEF ChunkMoves
  <2>. QED  BY <2>1 DEF On, ++, ChunkStates
<1>2. CASE s = "ChunkExtensionName"
  <2>1. ChunkMoves[s] = On(Alnum \union {" "}, "ChunkExtensionName")
                          ++ On({"="}, "ChunkExtensionValue") ++ On({"\r"}, "ChunkSizeNewLine")
    BY <1>2 DEF ChunkMoves
  <2>. QED  BY <2>1 DEF On, ++, ChunkStates
<1>3. CASE s = "ChunkExtensionValue"
  <2>1. ChunkMoves[s] = On(Alnum \union {" "}, "ChunkExtensionValue")
                          ++ On({"\r"}, "ChunkSizeNewLine")
    BY <1>3 DEF ChunkMoves
  <2>. QED  BY <2>1 DEF On, ++, ChunkStates
<1>4. CASE s = "ChunkSizeNewLine_2"
  <2>1. ChunkMoves[s] = On({"\r"}, "ChunkSizeNewLine_3") ++ On(Alpha, "ChunkTrailerName")
    BY <1>4 DEF ChunkMoves
  <2>. QED  BY <2>1 DEF On, ++, ChunkStates
<1>5. CASE s = "ChunkSizeNewLine_3"
  <2>1. ChunkMoves[s] = On({"\n"}, "ParsingCompleted")
    BY <1>5 DEF ChunkMoves
  <2>. QED  BY <2>1 DEF On
<1>6. CASE s = "ChunkTrailerName"
  <2>1. ChunkMoves[s] = On(Alnum, "ChunkTrailerName") ++ On({":"}, "ChunkTrailerValue")
    BY <1>6 DEF ChunkMoves
  <2>. QED  BY <2>1 DEF On, ++, ChunkStates
<1>7. CASE s = "ChunkTrailerValue"
  <2>1. ChunkMoves[s] = On(Alnum \union {" "}, "ChunkTrailerValue")
                          ++ On({"\r"}, "ChunkSizeNewLine")
    BY <1>7 DEF ChunkMoves
  <2>. QED  BY <2>1 DEF On, ++, ChunkStates
<1>8. CASE s = "ChunkDataNewLine_1"
  <2>1. ChunkMoves[s] = On({"\r"}, "ChunkDataNewLine_2")
    BY <1>8 DEF ChunkMoves
  <2>. QED  BY <2>1 DEF On, ChunkStates
<1>9. CASE s = "ChunkDataNewLine_2"
  <2>1. ChunkMoves[s] = On({"\n"}, "ChunkSize")
    BY <1>9 DEF ChunkMoves
  <2>. QED  BY <2>1 DEF On, ChunkStates
<1>. QED  BY <1>1, <1>2, <1>3, <1>4, <1>5, <1>6, <1>7, <1>8, <1>9 DEF ChunkStates

--------------------------------------------------------------------------------
(* The counters. *)

Numbers == [n : 0..TooLarge, negative : BOOLEAN, at : {"blanks", "digits", "rest"}]

LEMMA Sizes ==
  /\ INT_MAX \in Nat /\ SIZE_MAX \in Nat /\ MaxReserve \in Nat /\ TooLarge \in Nat
  /\ MaxReserve < TooLarge /\ INT_MAX < TooLarge /\ TooLarge <= SIZE_MAX
BY SizesAssumption DEF TooLarge

LEMMA ReadEffect ==
  ASSUME NEW number \in Numbers, NEW base \in Nat, NEW c
  PROVE  Read(number, base, c) \in Numbers
<1>. PICK n : n = number.n
  OBVIOUS
<1>1. /\ n \in 0..TooLarge /\ number.negative \in BOOLEAN
      /\ number.at \in {"blanks", "digits", "rest"} /\ DOMAIN number = {"n", "negative", "at"}
  BY DEF Numbers
<1>2. /\ ~(c \in Blank /\ c \in Signs)
      /\ c \in Blank \union Signs => ~IsDigit(base, c)
  BY DEF Blank, Signs, IsDigit, DigitValue
<1>3. CASE number.at # "rest" /\ IsDigit(base, c)
  <2>1. DigitValue[c] \in Nat
    BY <1>3 DEF IsDigit, DigitValue
  <2>2. PICK m : m = AtMost(base * n + DigitValue[c], TooLarge)
    OBVIOUS
  <2>3. m \in 0..TooLarge
    <3>1. PICK v \in Nat : v = base * n + DigitValue[c]
      BY <1>1, <2>1, Sizes
    <3>. QED  BY <2>2, <3>1, Sizes DEF AtMost
  <2>4. PICK at \in {"blanks", "digits", "rest"} :
          Read(number, base, c) = [number EXCEPT !.n = m, !.at = at]
    BY <1>2, <1>3, <2>2 DEF Read
  <2>. QED  BY <1>1, <2>3, <2>4 DEF Numbers
<1>4. CASE number.at = "blanks" /\ c \in Signs
  <2>1. PICK negative \in BOOLEAN :
          Read(number, base, c) = [number EXCEPT !.negative = negative, !.at = "digits"]
    BY <1>2, <1>4 DEF Read
  <2>. QED  BY <1>1, <2>1 DEF Numbers
<1>5. CASE ~(number.at # "rest" /\ IsDigit(base, c)) /\ ~(number.at = "blanks" /\ c \in Signs)
  <2>1. Read(number, base, c) = number \/ Read(number, base, c) = [number EXCEPT !.at = "rest"]
    BY <1>2, <1>5 DEF Read
  <2>. QED  BY <1>1, <2>1 DEF Numbers
<1>. QED  BY <1>3, <1>4, <1>5

(* Whatever a number says, and whatever atoi() makes of one that is no int,     *)
(* fits a size_t; and one that there is room for is what it says.               *)
LEMMA LengthsAreSizes ==
  ASSUME NEW number \in Numbers, NEW length \in Lengths(number)
  PROVE  length \in 0..SIZE_MAX
<1>. PICK n : n = number.n
  OBVIOUS
<1>1. n \in 0..TooLarge
  BY DEF Numbers
<1>. QED  BY <1>1, Sizes, SizesAssumption DEF Lengths, SizeT

LEMMA NoNumberIsNumber == NoNumber \in Numbers
BY Sizes DEF NoNumber, Numbers

(* The fields the parsers have in common.                                       *)
Fields == {"state", "name", "value", "number", "contentSize", "chunked",
           "chunkSizeStr", "chunkSize"}

(* The counters of a parser hold sizes, of which there is room for as long as   *)
(* it goes on, and a body or a chunk whose data is being read has some left:    *)
(* what is counted down is not 0.                                               *)
CountersInv(p) ==
  /\ p.number \in Numbers /\ p.chunkSizeStr \in Numbers
  /\ p.contentSize \in 0..SIZE_MAX /\ p.chunkSize \in 0..SIZE_MAX
  /\ p.state # "ExceptionThrown" => p.contentSize <= MaxReserve /\ p.chunkSize <= MaxReserve
  /\ p.chunked \in BOOLEAN
  /\ p.state = "Post" => p.contentSize > 0
  /\ p.state = "ChunkData" => p.chunkSize > 0

(* What an input leaves in the fields: p before it, q after it, but for the      *)
(* state.                                                                       *)
BeginsName(p, c) == p.state = "HeaderLineStart" /\ c \in Token

Leaves(p, c, length, mayHaveBody, q) ==
  /\ q.name = IF BeginsName(p, c) THEN Push("", c)
              ELSE IF p.state = "HeaderName" /\ c # ":" THEN Push(p.name, c) ELSE p.name
  /\ q.value = IF BeginsName(p, c) THEN ""
               ELSE IF ExtendsValue(p, c) THEN Push(p.value, c) ELSE p.value
  /\ q.number = IF BeginsName(p, c) THEN NoNumber
                ELSE IF ExtendsValue(p, c) THEN ReadLength(p, c) ELSE p.number
  /\ q.contentSize = IF EndsValue(p, c) /\ TellsLength(p, mayHaveBody)
                     THEN length
                     ELSE IF p.state = "Post" THEN Decremented(p.contentSize) ELSE p.contentSize
  /\ q.chunked = IF /\ EndsValue(p, c) /\ mayHaveBody
                    /\ p.name = "Transfer-Encoding" /\ p.value = "chunked"
                 THEN TRUE ELSE p.chunked
  /\ q.chunkSizeStr = IF p.state = "ChunkSize" /\ c \in Alnum THEN Read(p.chunkSizeStr, 16, c)
                      ELSE IF EndsSizeLine(p, c) THEN NoNumber ELSE p.chunkSizeStr
  /\ q.chunkSize = IF p.state = "ChunkData" THEN Decremented(p.chunkSize)
                   ELSE IF EndsSizeLine(p, c) THEN p.chunkSizeStr.n ELSE p.chunkSize

LEMMA NoteLeaves ==
  ASSUME NEW p, Fields \subseteq DOMAIN p, NEW c, NEW length, NEW mayHaveBody \in BOOLEAN
  PROVE  LET q == Note(p, c, length, mayHaveBody)
         IN  /\ DOMAIN q = DOMAIN p
             /\ \A x \in (DOMAIN p \ Fields) \union {"state"} : q[x] = p[x]
             /\ Leaves(p, c, length, mayHaveBody, q)
<1>. DEFINE q == Note(p, c, length, mayHaveBody)
            Frame(E) == DOMAIN q = DOMAIN p /\ \A x \in DOMAIN p \ E : q[x] = p[x]
            Is(E) == Leaves(p, c, length, mayHaveBody, q) /\ Frame(E)
<1>. SUFFICES \E E \in SUBSET (Fields \ {"state"}) : Is(E)
  BY DEF Fields
<1>. USE EndsOfLines
<1>1. CASE BeginsName(p, c)
  <2>1. q = [p EXCEPT !.name = Push("", c), !.value = "", !.number = NoNumber]
    BY <1>1 DEF Note, ExtendsValue, BeginsName, EndsValue, EndsSizeLine
  <2>2. Frame({"name", "value", "number"}) /\ q.name = Push("", c) /\ q.value = ""
        /\ q.number = NoNumber
    BY <2>1 DEF Fields
  <2>3. Is({"name", "value", "number"})
    BY <1>1, <2>2 DEF Fields, Leaves, BeginsName, EndsValue, EndsSizeLine
  <2>. QED  BY <2>3 DEF Fields
<1>2. CASE p.state = "HeaderName" /\ c # ":"
  <2>1. q = [p EXCEPT !.name = Push(@, c)]
    BY <1>2 DEF Note, ExtendsValue, EndsValue, EndsSizeLine
  <2>2. Frame({"name"}) /\ q.name = Push(p.name, c)
    BY <2>1 DEF Fields
  <2>3. Is({"name"})
    BY <1>2, <2>2 DEF Fields, Leaves, BeginsName, EndsValue, EndsSizeLine, ExtendsValue
  <2>. QED  BY <2>3 DEF Fields
<1>3. CASE ExtendsValue(p, c)
  <2>1. p.state \in {"HeaderLws", "HeaderValue"} /\ c # "\r"
    BY <1>3 DEF ExtendsValue
  <2>2. q = [p EXCEPT !.value = Push(@, c), !.number = ReadLength(p, c)]
    BY <1>3, <2>1 DEF Note, EndsValue, EndsSizeLine
  <2>3. Frame({"value", "number"}) /\ q.number = ReadLength(p, c) /\ q.value = Push(p.value, c)
    BY <2>2 DEF Fields
  <2>4. Is({"value", "number"})
    BY <1>3, <2>1, <2>3 DEF Fields, Leaves, BeginsName, EndsValue, EndsSizeLine
  <2>. QED  BY <2>4 DEF Fields
<1>4. CASE EndsValue(p, c)
  <2>1. q = NoteHeader(p, length, mayHaveBody)
    BY <1>4 DEF Note, ExtendsValue, EndsValue, EndsSizeLine
  <2>2. CASE TellsLength(p, mayHaveBody)
    <3>1. p.name = "Content-Length"
      BY <2>2 DEF TellsLength
    <3>2. q = [p EXCEPT !.contentSize = length]
      BY <2>1, <2>2, <3>1 DEF NoteHeader
    <3>3. Frame({"contentSize"}) /\ q.contentSize = length
      BY <3>2 DEF Fields
    <3>4. Is({"contentSize"})
      BY <1>4, <2>2, <3>1, <3>3 DEF Fields, Leaves, BeginsName, EndsValue, EndsSizeLine, ExtendsValue
    <3>. QED  BY <3>4 DEF Fields
  <2>3. CASE mayHaveBody /\ p.name = "Transfer-Encoding" /\ p.value = "chunked"
    <3>1. q = [p EXCEPT !.chunked = TRUE]
      BY <2>1, <2>3 DEF NoteHeader, TellsLength
    <3>2. Frame({"chunked"}) /\ q.chunked = TRUE
      BY <3>1 DEF Fields
    <3>3. Is({"chunked"})
      BY <1>4, <2>3, <3>2 DEF Fields, Leaves, BeginsName, EndsValue, EndsSizeLine, ExtendsValue,
                              TellsLength
    <3>. QED  BY <3>3 DEF Fields
  <2>4. CASE ~TellsLength(p, mayHaveBody)
             /\ ~(mayHaveBody /\ p.name = "Transfer-Encoding" /\ p.value = "chunked")
    <3>1. q = p
      BY <2>1, <2>4 DEF NoteHeader
    <3>2. Is({})
      BY <1>4, <2>4, <3>1 DEF Fields, Leaves, BeginsName, EndsValue, EndsSizeLine, ExtendsValue
    <3>. QED  BY <3>2
  <2>. QED  BY <2>2, <2>3, <2>4
<1>5. CASE p.state = "Post"
  <2>1. q = [p EXCEPT !.contentSize = Decremented(@)]
    BY <1>5 DEF Note, ExtendsValue, EndsValue, EndsSizeLine
  <2>2. Frame({"contentSize"}) /\ q.contentSize = Decremented(p.contentSize)
    BY <2>1 DEF Fields
  <2>3. Is({"contentSize"})
    BY <1>5, <2>2 DEF Fields, Leaves, BeginsName, EndsValue, EndsSizeLine, ExtendsValue
  <2>. QED  BY <2>3 DEF Fields
<1>6. CASE p.state = "ChunkSize" /\ c \in Alnum
  <2>1. q = [p EXCEPT !.chunkSizeStr = Read(@, ChunkSizeBase, c)]
    BY <1>6 DEF Note, ExtendsValue, EndsValue, EndsSizeLine
  <2>2. Frame({"chunkSizeStr"}) /\ q.chunkSizeStr = Read(p.chunkSizeStr, 16, c)
    BY <2>1 DEF Fields, ChunkSizeBase
  <2>3. Is({"chunkSizeStr"})
    BY <1>6, <2>2 DEF Fields, Leaves, BeginsName, EndsValue, EndsSizeLine, ExtendsValue
  <2>. QED  BY <2>3 DEF Fields
<1>7. CASE EndsSizeLine(p, c)
  <2>1. q = [p EXCEPT !.chunkSize = p.chunkSizeStr.n, !.chunkSizeStr = NoNumber]
    BY <1>7 DEF Note, ExtendsValue, EndsSizeLine, EndsValue
  <2>2. Frame({"chunkSize", "chunkSizeStr"}) /\ q.chunkSize = p.chunkSizeStr.n
        /\ q.chunkSizeStr = NoNumber
    BY <2>1 DEF Fields
  <2>3. Is({"chunkSize", "chunkSizeStr"})
    BY <1>7, <2>2 DEF Fields, Leaves, BeginsName, EndsValue, EndsSizeLine, ExtendsValue
  <2>. QED  BY <2>3 DEF Fields
<1>8. CASE p.state = "ChunkData"
  <2>1. q = [p EXCEPT !.chunkSize = Decremented(@)]
    BY <1>8 DEF Note, ExtendsValue, EndsValue, EndsSizeLine
  <2>2. Frame({"chunkSize"}) /\ q.chunkSize = Decremented(p.chunkSize)
    BY <2>1 DEF Fields
  <2>3. Is({"chunkSize"})
    BY <1>8, <2>2 DEF Fields, Leaves, BeginsName, EndsValue, EndsSizeLine, ExtendsValue
  <2>. QED  BY <2>3 DEF Fields
<1>9. CASE /\ ~BeginsName(p, c)
           /\ ~(p.state = "HeaderName" /\ c # ":")
           /\ ~ExtendsValue(p, c)
           /\ ~EndsValue(p, c)
           /\ p.state # "Post"
           /\ ~(p.state = "ChunkSize" /\ c \in Alnum)
           /\ ~EndsSizeLine(p, c)
           /\ p.state # "ChunkData"
  <2>1. q = p
    BY <1>9 DEF Note, BeginsName, EndsValue, EndsSizeLine
  <2>2. Is({})
    BY <1>9, <2>1 DEF Fields, Leaves
  <2>. QED  BY <2>2
<1>. QED  BY <1>1, <1>2, <1>3, <1>4, <1>5, <1>6, <1>7, <1>8, <1>9

(* Only a header line that ends, of a message that may have a body, announces   *)
(* one.                                                                         *)
LEMMA NoteEffect ==
  ASSUME NEW p, Fields \subseteq DOMAIN p, CountersInv(p), NEW c, NEW length,
         NEW mayHaveBody \in BOOLEAN
  PROVE  LET q == Note(p, c, length, mayHaveBody)
         IN  /\ DOMAIN q = DOMAIN p
             /\ \A x \in DOMAIN p \ Fields : q[x] = p[x]
             /\ q.number \in Numbers /\ q.chunkSizeStr \in Numbers
             /\ q.chunked \in BOOLEAN
             /\ IF EndsValue(p, c) /\ mayHaveBody
                THEN q.contentSize = IF TellsLength(p, mayHaveBody) THEN length
                                     ELSE p.contentSize
                ELSE /\ q.contentSize = IF p.state = "Post" THEN Decremented(p.contentSize)
                                                            ELSE p.contentSize
                     /\ q.chunked = p.chunked
             /\ q.chunkSize = IF p.state = "ChunkData" THEN Decremented(p.chunkSize)
                              ELSE IF EndsSizeLine(p, c) THEN p.chunkSizeStr.n ELSE p.chunkSize
<1>. DEFINE q == Note(p, c, length, mayHaveBody)
<1>1. /\ DOMAIN q = DOMAIN p /\ \A x \in DOMAIN p \ Fields : q[x] = p[x]
      /\ Leaves(p, c, length, mayHaveBody, q)
  BY NoteLeaves
<1>. HIDE DEF q
<1>2. q.number \in Numbers /\ q.chunkSizeStr \in Numbers
  <2>1. Read(p.number, 10, c) \in Numbers /\ Read(p.chunkSizeStr, 16, c) \in Numbers
    BY ReadEffect DEF CountersInv
  <2>. QED  BY <1>1, <2>1, NoNumberIsNumber DEF Leaves, ReadLength, CountersInv
<1>3. q.chunked \in BOOLEAN
  BY <1>1 DEF Leaves, CountersInv
<1>4. /\ IF EndsValue(p, c) /\ mayHaveBody
         THEN q.contentSize = IF TellsLength(p, mayHaveBody) THEN length ELSE p.contentSize
         ELSE /\ q.contentSize = IF p.state = "Post" THEN Decremented(p.contentSize) ELSE p.contentSize
              /\ q.chunked = p.chunked
      /\ q.chunkSize = IF p.state = "ChunkData" THEN Decremented(p.chunkSize)
                       ELSE IF EndsSizeLine(p, c) THEN p.chunkSizeStr.n ELSE p.chunkSize
  BY <1>1 DEF Leaves, EndsValue, TellsLength
<1>. QED  BY <1>1, <1>2, <1>3, <1>4 DEF q

(* The states that look at the counters.                                        *)
LEMMA DataMoveEffect ==
  ASSUME NEW p, CountersInv(p), NEW c, p.state \in DataStates
  PROVE  LET t == DataMove(p, c)
         IN  /\ t \in ChunkStates \union {"Post", "ChunkData"} \union FinalStates
             /\ t # "ExceptionThrown"
             /\ t = "Post" => \/ p.state = "Post" /\ p.contentSize > 1
                              \/ p.state = "ExpectingNewline_3" /\ p.contentSize > 0
             /\ t = "ChunkData" =>
                  \/ p.state = "ChunkData" /\ p.chunkSize > 1
                  \/ p.state = "ChunkSizeNewLine" /\ c = "\n" /\ p.chunkSizeStr.n > 0
             /\ p.state = "ExpectingNewline_3" =>
                  IF p.chunked \/ p.contentSize # 0 THEN t \in {"ChunkSize", "Post"}
                  ELSE t = IF c = "\n" THEN "ParsingCompleted" ELSE "ParsingError"
<1>. PICK contentSize, chunkSize : contentSize = p.contentSize /\ chunkSize = p.chunkSize
  OBVIOUS
<1>0. contentSize \in Nat /\ chunkSize \in Nat
  BY Sizes DEF CountersInv
<1>1. CASE p.state = "ExpectingNewline_3"
  BY <1>0, <1>1 DEF DataMove, EndsHead, CountersInv, ChunkStates, FinalStates
<1>2. CASE p.state = "Post"
  BY <1>0, <1>2 DEF DataMove, IsLast, CountersInv, ChunkStates, FinalStates
<1>3. CASE p.state = "ChunkSizeNewLine"
  <2>1. p.chunkSizeStr.n \in Nat
    BY Sizes DEF CountersInv, Numbers
  <2>. QED  BY <1>3, <2>1 DEF DataMove, ChunkStates, FinalStates
<1>4. CASE p.state = "ChunkData"
  BY <1>0, <1>4 DEF DataMove, IsLast, CountersInv, ChunkStates, FinalStates
<1>. QED  BY <1>1, <1>2, <1>3, <1>4 DEF DataStates

LEMMA KindsOfStates ==
  /\ SharedStates = HeaderStates \union ChunkStates \union DataStates \union FinalStates
  /\ (HeaderStates \union ChunkStates) \intersect (DataStates \union FinalStates) = {}
  /\ DataStates \intersect FinalStates = {}
BY Domains DEF SharedStates, HeaderStates, ChunkStates, DataStates, FinalStates

LEMMA MoveCases ==
  ASSUME NEW moves, NEW p, NEW c
  PROVE  LET t == Move(moves, p, c)
         IN  /\ p.state \in FinalStates => t = p.state
             /\ p.state \in DataStates => t = DataMove(p, c)
             /\ p.state \notin FinalStates \union DataStates =>
                  t = "ParsingError" \/ (c \in DOMAIN moves[p.state] /\ t = moves[p.state][c])
<1>1. CASE p.state \in FinalStates
  <2>1. p.state \notin DataStates /\ ~ContinuesNothing(p, c)
    BY <1>1 DEF FinalStates, DataStates, ContinuesNothing
  <2>. QED  BY <1>1, <2>1 DEF Move
<1>2. CASE p.state \in DataStates
  <2>1. p.state \notin FinalStates /\ ~ContinuesNothing(p, c)
    BY <1>2 DEF FinalStates, DataStates, ContinuesNothing
  <2>. QED  BY <1>2, <2>1 DEF Move
<1>3. CASE p.state \notin FinalStates \union DataStates
  BY <1>3 DEF Move
<1>. QED  BY <1>1, <1>2, <1>3

(* Where an input leads, by the part of the message it is in. start: the states *)
(* that come before the headers.                                                *)
LEMMA MoveEffect ==
  ASSUME NEW p, NEW c, NEW start, DOMAIN start \intersect SharedStates = {}
  PROVE  LET t == Move(start ++ SharedMoves, p, c)
         IN  /\ p.state \in FinalStates => t = p.state
             /\ p.state \in DataStates => t = DataMove(p, c)
             /\ p.state \in HeaderStates =>
                  \/ t = "ParsingError"
                  \/ c \in DOMAIN HeaderMoves[p.state] /\ t = HeaderMoves[p.state][c]
             /\ p.state \in ChunkStates =>
                  \/ t = "ParsingError"
                  \/ c \in DOMAIN ChunkMoves[p.state] /\ t = ChunkMoves[p.state][c]
             /\ p.state \in DOMAIN start =>
                  \/ t = "ParsingError"
                  \/ c \in DOMAIN start[p.state] /\ t = start[p.state][c]
<1>. DEFINE moves == start ++ SharedMoves
            t     == Move(moves, p, c)
<1>1. /\ \A s \in DOMAIN start : moves[s] = start[s]
      /\ \A s \in DOMAIN SharedMoves \ DOMAIN start : moves[s] = SharedMoves[s]
  BY MergeAt, Zenon
<1>2. \A s \in HeaderStates \union ChunkStates :
         s \in DOMAIN SharedMoves \ DOMAIN start
  BY KindsOfStates, Domains
<1>3. /\ p.state \in FinalStates => t = p.state
      /\ p.state \in DataStates => t = DataMove(p, c)
      /\ p.state \notin FinalStates \union DataStates =>
           t = "ParsingError" \/ (c \in DOMAIN moves[p.state] /\ t = moves[p.state][c])
  <2>. HIDE DEF moves
  <2>. QED  BY MoveCases
<1>. HIDE DEF moves, t
<1>4. /\ \A s \in HeaderStates : moves[s] = HeaderMoves[s]
      /\ \A s \in ChunkStates : moves[s] = ChunkMoves[s]
  BY <1>1, <1>2, SharedMovesAt
<1>5. DOMAIN start \intersect (FinalStates \union DataStates) = {}
  BY KindsOfStates
<1>6. p.state \in HeaderStates \union ChunkStates \union DOMAIN start
        => p.state \notin FinalStates \union DataStates
  BY <1>5, KindsOfStates
<1>. QED  BY <1>1, <1>3, <1>4, <1>6 DEF moves, t

(* An input leads to state t: into data only where there is some, and nowhere   *)
(* where there is no room.                                                      *)
MayLead(p, c, length, mayHaveBody, t) ==
  /\ Throws(p, c, length, mayHaveBody) \/ p.state = "ExceptionThrown" => t = "ExceptionThrown"
  /\ t = "Post" => \/ p.state = "Post" /\ p.contentSize > 1
                   \/ p.state = "ExpectingNewline_3" /\ p.contentSize > 0
  /\ t = "ChunkData" =>
       \/ p.state = "ChunkData" /\ p.chunkSize > 1
       \/ p.state = "ChunkSizeNewLine" /\ c = "\n" /\ p.chunkSizeStr.n > 0

(* What is counted down is never 0, and a parser that goes on has room for it.  *)
LEMMA CountersStep ==
  ASSUME NEW p, Fields \subseteq DOMAIN p, CountersInv(p), NEW c, NEW mayHaveBody \in BOOLEAN,
         NEW length \in Lengths(p.number), NEW t, MayLead(p, c, length, mayHaveBody, t),
         NEW n, n = Note(p, c, length, mayHaveBody), NEW q, q = [n EXCEPT !.state = t]
  PROVE  CountersInv(q) /\ DOMAIN q = DOMAIN p /\ q.state = t
<1>. USE DEF MayLead
<1>1. DOMAIN n = DOMAIN p
  BY NoteEffect
<1>2. /\ DOMAIN q = DOMAIN p /\ q.state = t
      /\ \A x \in DOMAIN p \ {"state"} : q[x] = n[x]
  BY <1>1 DEF Fields
<1>3. /\ q.number = n.number /\ q.chunkSizeStr = n.chunkSizeStr /\ q.chunked = n.chunked
      /\ q.contentSize = n.contentSize /\ q.chunkSize = n.chunkSize
  BY <1>2 DEF Fields
<1>4. /\ n.number \in Numbers /\ n.chunkSizeStr \in Numbers /\ n.chunked \in BOOLEAN
  BY NoteEffect
<1>5. /\ n.contentSize \in 0..SIZE_MAX /\ (t = "Post" => n.contentSize > 0)
      /\ t # "ExceptionThrown" => n.contentSize <= MaxReserve
  <2>. PICK size, left : size = p.contentSize /\ left = n.contentSize
    OBVIOUS
  <2>1. size \in 0..SIZE_MAX /\ (t # "ExceptionThrown" => size <= MaxReserve)
        /\ (p.state = "Post" => size > 0)
    BY DEF CountersInv
  <2>2. CASE EndsValue(p, c) /\ mayHaveBody
    <3>1. left = IF TellsLength(p, mayHaveBody) THEN length ELSE size
      BY <2>2, NoteEffect
    <3>2. length \in 0..SIZE_MAX
      BY LengthsAreSizes DEF CountersInv
    <3>3. t # "ExceptionThrown" /\ TellsLength(p, mayHaveBody) => length <= MaxReserve
      <4>1. t # "ExceptionThrown" /\ TellsLength(p, mayHaveBody) => ~(length > MaxReserve)
        BY <2>2, Zenon DEF Throws
      <4>. QED  BY <3>2, <4>1, Sizes
    <3>4. t # "Post"
      BY <2>2 DEF EndsValue
    <3>. QED  BY <2>1, <3>1, <3>2, <3>3, <3>4
  <2>3. CASE ~(EndsValue(p, c) /\ mayHaveBody)
    <3>1. left = IF p.state = "Post" THEN Decremented(size) ELSE size
      BY <2>3, NoteEffect
    <3>. QED  BY <2>1, <3>1, Sizes DEF Decremented
  <2>. QED  BY <2>2, <2>3
<1>6. /\ n.chunkSize \in 0..SIZE_MAX /\ (t = "ChunkData" => n.chunkSize > 0)
      /\ t # "ExceptionThrown" => n.chunkSize <= MaxReserve
  <2>. PICK size, left, next : size = p.chunkSize /\ left = n.chunkSize /\ next = p.chunkSizeStr.n
    OBVIOUS
  <2>1. size \in 0..SIZE_MAX /\ (t # "ExceptionThrown" => size <= MaxReserve)
        /\ (p.state = "ChunkData" => size > 0)
    BY DEF CountersInv
  <2>2. left = IF p.state = "ChunkData" THEN Decremented(size)
               ELSE IF EndsSizeLine(p, c) THEN next ELSE size
    BY NoteEffect
  <2>3. next \in 0..SIZE_MAX /\ (t # "ExceptionThrown" /\ EndsSizeLine(p, c) => next <= MaxReserve)
    BY Sizes DEF CountersInv, Numbers, Throws
  <2>4. t = "ChunkData" => \/ p.state = "ChunkData" /\ size > 1
                           \/ p.state = "ChunkSizeNewLine" /\ c = "\n" /\ next > 0
    OBVIOUS
  <2>. QED  BY <2>1, <2>2, <2>3, <2>4, Sizes DEF Decremented, EndsSizeLine
<1>7. CountersInv(q)
  BY <1>2, <1>3, <1>4, <1>5, <1>6 DEF CountersInv
<1>. QED  BY <1>2, <1>7

(* A new parser; own: the fields only one of the two has. *)
IsNewParser(p, start, own) ==
  /\ DOMAIN p = Fields \union DOMAIN own
  /\ p.state = start
  /\ p.contentSize = 0 /\ p.chunkSize = 0 /\ ~p.chunked
  /\ p.number = NoNumber /\ p.chunkSizeStr = NoNumber
  /\ CountersInv(p)
  /\ \A x \in DOMAIN own \ Fields : p[x] = own[x]

LEMMA NewParserEffect ==
  \A start, own : start \notin {"Post", "ChunkData"}
                    => IsNewParser(NewParser(start) ++ own, start, own)
<1>. SUFFICES ASSUME NEW start, start \notin {"Post", "ChunkData"}, NEW own
              PROVE  IsNewParser(NewParser(start) ++ own, start, own)
  OBVIOUS
<1>. DEFINE n == NewParser(start)
            p == n ++ own
<1>1. DOMAIN n = Fields
  BY DEF NewParser, Fields
<1>2. /\ n.state = start /\ n.contentSize = 0 /\ n.chunkSize = 0 /\ n.chunked = FALSE
      /\ n.number = NoNumber /\ n.chunkSizeStr = NoNumber
  BY DEF NewParser
<1>. HIDE DEF n
<1>3. /\ DOMAIN p = DOMAIN n \union DOMAIN own
      /\ \A x \in DOMAIN n : p[x] = n[x]
      /\ \A x \in DOMAIN own \ DOMAIN n : p[x] = own[x]
  BY DEF ++
<1>. HIDE DEF p
<1>4. /\ p.state = start /\ p.contentSize = 0 /\ p.chunkSize = 0 /\ p.chunked = FALSE
      /\ p.number = NoNumber /\ p.chunkSizeStr = NoNumber
  BY <1>1, <1>2, <1>3 DEF Fields
<1>5. CountersInv(p)
  <2>1. p.state # "Post" /\ p.state # "ChunkData"
    BY <1>4
  <2>2. p.number \in Numbers /\ p.chunkSizeStr \in Numbers
    BY <1>4, NoNumberIsNumber
  <2>3. /\ p.contentSize \in 0..SIZE_MAX /\ p.chunkSize \in 0..SIZE_MAX
        /\ p.contentSize <= MaxReserve /\ p.chunkSize <= MaxReserve
    BY <1>4, Sizes
  <2>4. p.chunked \in BOOLEAN
    BY <1>4, Zenon
  <2>. QED  BY <2>1, <2>2, <2>3, <2>4 DEF CountersInv
<1>6. DOMAIN p = Fields \union DOMAIN own /\ \A x \in DOMAIN own \ Fields : p[x] = own[x]
  BY <1>1, <1>3
<1>7. IsNewParser(p, start, own)
  BY <1>4, <1>5, <1>6, Zenon DEF IsNewParser
<1>. QED  BY <1>7 DEF p, n

================================================================================
