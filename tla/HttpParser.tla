------------------------------ MODULE HttpParser -------------------------------
(***************************************************************************)
(* What HttpRequestParser and HttpResponseParser have in common: the       *)
(* automaton from the header lines to the end of the body. Both are the    *)
(* same text from state HeaderLineStart on; they differ in how they get    *)
(* there and in which messages they look for a body.                       *)
(*                                                                         *)
(* An input is a character, or a word that no state takes apart. A         *)
(* character stands for all the parsers do not tell from it.               *)
(***************************************************************************)
EXTENDS Naturals

CONSTANTS
  INT_MAX, SIZE_MAX,  (* the largest int and the largest size_t                *)
  MaxReserve          (* the largest size that content.reserve() finds room for *)

(* A negative int is a larger size_t than there is room for. *)
ASSUME SizesAssumption ==
  /\ INT_MAX \in Nat /\ SIZE_MAX \in Nat /\ MaxReserve \in Nat
  /\ SIZE_MAX > MaxReserve + INT_MAX + 1

Words   == {"GET",      (* GET or HEAD *)
            "POST",     (* POST or PUT *)
            "Host", "Content-Length", "Transfer-Encoding", "chunked"}
Digits  == {"0", "1", "2"}
Letters == {"H", "T", "P", "a", "z"}         (* "z": not a hexadecimal digit, nor x     *)
Control == {"\r", "\n", "\t", "ctl"}
Special == {":", ";", "=", "/", "special", " ", "\t"}
Signs   == {"-", "+"}
Other   == {".", "~", "8bit"} \union Signs   (* "8bit": above 127                      *)

Inputs == Words \union Digits \union Letters \union Control \union Special \union Other

Blank == {" ", "\t"}
Char  == Inputs \ {"8bit"}
Token == Char \ (Control \union Special)
Text  == Inputs \ Control
Alpha == Letters \union (Words \ {"Content-Length", "Transfer-Encoding"})
Alnum == Alpha \union Digits

(* A word counts as its first character: the second ends the number.            *)
DigitValue == [d \in {"0", "1", "2", "a", "chunked"} |->
                 CASE d = "0" -> 0 [] d = "1" -> 1 [] d = "2" -> 2 [] d = "a" -> 10
                   [] d = "chunked" -> 12]

--------------------------------------------------------------------------------
(* The transitions that depend on state and input alone. What is not in the     *)
(* table is ParsingError.                                                       *)

On(inputs, state) == [c \in inputs |-> state]

(* What f and g map, f where both do. *)
f ++ g == [x \in DOMAIN f \union DOMAIN g |-> IF x \in DOMAIN f THEN f[x] ELSE g[x]]

(* ExceptionThrown: content.reserve() finds no room, and nothing in parse() or   *)
(* above it catches what it throws: the process ends.                           *)
FinalStates == {"ParsingCompleted", "ParsingError", "ExceptionThrown"}

HeaderMoves ==
  [HeaderLineStart        |-> On({"\r"}, "ExpectingNewline_3") ++ On(Blank, "HeaderLws")
                                ++ On(Token, "HeaderName"),
   HeaderLws              |-> On({"\r"}, "ExpectingNewline_2") ++ On(Blank, "HeaderLws")
                                ++ On(Text, "HeaderValue"),
   HeaderName             |-> On({":"}, "SpaceBeforeHeaderValue") ++ On(Token, "HeaderName"),
   SpaceBeforeHeaderValue |-> On({" "}, "HeaderValue"),
   HeaderValue            |-> On({"\r"}, "ExpectingNewline_2") ++ On(Text, "HeaderValue"),
   ExpectingNewline_2     |-> On({"\n"}, "HeaderLineStart")]

ChunkMoves ==
  [ChunkSize              |-> On(Alnum, "ChunkSize") ++ On({";"}, "ChunkExtensionName")
                                ++ On({"\r"}, "ChunkSizeNewLine"),
   ChunkExtensionName     |-> On(Alnum \union {" "}, "ChunkExtensionName")
                                ++ On({"="}, "ChunkExtensionValue")
                                ++ On({"\r"}, "ChunkSizeNewLine"),
   ChunkExtensionValue    |-> On(Alnum \union {" "}, "ChunkExtensionValue")
                                ++ On({"\r"}, "ChunkSizeNewLine"),
   ChunkSizeNewLine_2     |-> On({"\r"}, "ChunkSizeNewLine_3") ++ On(Alpha, "ChunkTrailerName"),
   ChunkSizeNewLine_3     |-> On({"\n"}, "ParsingCompleted"),
   ChunkTrailerName       |-> On(Alnum, "ChunkTrailerName") ++ On({":"}, "ChunkTrailerValue"),
   ChunkTrailerValue      |-> On(Alnum \union {" "}, "ChunkTrailerValue")
                                ++ On({"\r"}, "ChunkSizeNewLine"),
   ChunkDataNewLine_1     |-> On({"\r"}, "ChunkDataNewLine_2"),
   ChunkDataNewLine_2     |-> On({"\n"}, "ChunkSize")]

SharedMoves == HeaderMoves ++ ChunkMoves

DataStates == {"ExpectingNewline_3", "Post", "ChunkSizeNewLine", "ChunkData"}

SharedStates == DOMAIN SharedMoves \union DataStates \union FinalStates

--------------------------------------------------------------------------------
(* What the automaton remembers. Strings are kept as far as they are compared   *)
(* with something: "" is the empty one, "other" one that equals no word.        *)

Push(string, c) == IF string = "" /\ c \in Words THEN c ELSE "other"

(* A number as atoi() and strtol() read it: blanks, a sign, then digits up to   *)
(* the first character that is none. Above TooLarge nothing tells numbers apart.*)
NoNumber == [n |-> 0, negative |-> FALSE, at |-> "blanks"]

TooLarge == MaxReserve + INT_MAX + 2

AtMost(n, m) == IF n < m THEN n ELSE m

IsDigit(base, c) == c \in DOMAIN DigitValue /\ DigitValue[c] < base

Read(number, base, c) ==
  CASE number.at = "blanks" /\ c \in Blank -> number
    [] number.at = "blanks" /\ c \in Signs ->
         [number EXCEPT !.negative = (c = "-"), !.at = "digits"]
    [] number.at # "rest" /\ IsDigit(base, c) ->
         [number EXCEPT !.n = AtMost(base * @ + DigitValue[c], TooLarge),
                        !.at = IF c \in Words THEN "rest" ELSE "digits"]
    [] OTHER -> [number EXCEPT !.at = "rest"]

(* An int as a size_t: a negative one counts down from the largest.             *)
SizeT(number) ==
  IF number.negative /\ number.n > 0 THEN SIZE_MAX + 1 - number.n ELSE number.n

(* What "contentSize = atoi(...)" may leave in contentSize: atoi() is undefined *)
(* for a number that is no int, and then any int may come out.                  *)
Lengths(number) ==
  IF number.n > (IF number.negative THEN INT_MAX + 1 ELSE INT_MAX)
  THEN 0..INT_MAX \union (SIZE_MAX - INT_MAX)..SIZE_MAX
  ELSE {SizeT(number)}

(* Mutant: strtol(..., 10) for the size of a chunk. *)
DecimalBase == 10

ChunkSizeBase == 16

(* A parser before its first input. name, value: the last element of headers,   *)
(* with the value of a Content-Length read as a number; name is "" as long as   *)
(* there is none.                                                               *)
NewParser(start) ==
  [state |-> start, name |-> "", value |-> "", number |-> NoNumber,
   contentSize |-> 0, chunked |-> FALSE, chunkSizeStr |-> NoNumber, chunkSize |-> 0]

(* Mutant: counter-- == 0 *)
WasLast(counter) == counter = 0

(* --counter == 0 *)
IsLast(counter) == counter = 1

(* Mutant: the newline that ends the head is not looked at. *)
AnyEnd(c) == TRUE

EndsHead(c) == c = "\n"

(* The transitions that depend on the counters too. *)
DataMove(p, c) ==
  CASE p.state = "ExpectingNewline_3" ->
         IF p.chunked THEN "ChunkSize"
         ELSE IF p.contentSize # 0 THEN "Post"
         ELSE IF EndsHead(c) THEN "ParsingCompleted" ELSE "ParsingError"
    [] p.state = "Post" -> IF IsLast(p.contentSize) THEN "ParsingCompleted" ELSE "Post"
    [] p.state = "ChunkSizeNewLine" ->
         IF c # "\n" THEN "ParsingError"
         ELSE IF p.chunkSizeStr.n = 0 THEN "ChunkSizeNewLine_2" ELSE "ChunkData"
    [] p.state = "ChunkData" -> IF IsLast(p.chunkSize) THEN "ChunkDataNewLine_1" ELSE "ChunkData"

(* A header line that begins with a blank continues one before it. *)
ContinuesNothing(p, c) == p.state = "HeaderLineStart" /\ c \in Blank /\ p.name = ""

Move(moves, p, c) ==
  CASE p.state \in FinalStates      -> p.state
    [] p.state \in DataStates       -> DataMove(p, c)
    [] ContinuesNothing(p, c)       -> "ParsingError"
    [] OTHER -> IF c \in DOMAIN moves[p.state] THEN moves[p.state][c] ELSE "ParsingError"

(* Mutant: a header is looked at whether or not the message may have a body. *)
AnyBody(p, mayHaveBody) == p.name = "Content-Length"

(* The header line that ends tells the length of a body.                        *)
TellsLength(p, mayHaveBody) == mayHaveBody /\ p.name = "Content-Length"

(* The end of a header line: the parser looks for what announces a body.        *)
(* length: what atoi() makes of the value.                                      *)
NoteHeader(p, length, mayHaveBody) ==
  CASE TellsLength(p, mayHaveBody) -> [p EXCEPT !.contentSize = length]
    [] mayHaveBody /\ p.name = "Transfer-Encoding" /\ p.value = "chunked" ->
         [p EXCEPT !.chunked = TRUE]
    [] OTHER -> p

EndsValue(p, c)    == p.state = "HeaderValue" /\ c = "\r"
EndsSizeLine(p, c) == p.state = "ChunkSizeNewLine" /\ c = "\n"

(* content.reserve() throws: for the length of a body, or the size of a chunk.  *)
Throws(p, c, length, mayHaveBody) ==
  \/ EndsValue(p, c) /\ TellsLength(p, mayHaveBody) /\ length > MaxReserve
  \/ EndsSizeLine(p, c) /\ p.chunkSizeStr.n > MaxReserve

ExtendsValue(p, c) ==
  \/ p.state = "HeaderLws" /\ c \in Text \ Blank
  \/ p.state = "HeaderValue" /\ c \in Text

(* atoi() is asked of a Content-Length only. *)
ReadLength(p, c) == IF p.name = "Content-Length" THEN Read(p.number, 10, c) ELSE p.number

(* --counter of a size_t. *)
Decremented(counter) == IF counter = 0 THEN SIZE_MAX ELSE counter - 1

(* What input c leaves in the other fields, before the state changes. *)
Note(p, c, length, mayHaveBody) ==
  CASE p.state = "HeaderLineStart" /\ c \in Token ->
         [p EXCEPT !.name = Push("", c), !.value = "", !.number = NoNumber]
    [] p.state = "HeaderName" /\ c # ":" -> [p EXCEPT !.name = Push(@, c)]
    [] ExtendsValue(p, c) -> [p EXCEPT !.value = Push(@, c), !.number = ReadLength(p, c)]
    [] EndsValue(p, c) -> NoteHeader(p, length, mayHaveBody)
    [] p.state = "Post" -> [p EXCEPT !.contentSize = Decremented(@)]
    [] p.state = "ChunkSize" /\ c \in Alnum -> [p EXCEPT !.chunkSizeStr = Read(@, ChunkSizeBase, c)]
    [] EndsSizeLine(p, c) -> [p EXCEPT !.chunkSize = p.chunkSizeStr.n, !.chunkSizeStr = NoNumber]
    [] p.state = "ChunkData" -> [p EXCEPT !.chunkSize = Decremented(@)]
    [] OTHER -> p

(* What parse() returns for what was consumed. *)
ParseResult(p) == IF p.state \in FinalStates THEN p.state ELSE "ParsingIncompleted"

================================================================================
