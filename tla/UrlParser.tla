------------------------------- MODULE UrlParser -------------------------------
(***************************************************************************)
(* UrlParser (HttpParser/urlparser.h): the automaton that takes a url      *)
(* apart. The header is part of the build; the proxy does not include it   *)
(* and uses the request target as it is.                                   *)
(*                                                                         *)
(* Somebody writes a url of the generic form scheme:[//][user[:password]@] *)
(* host[:port][/path[?query][#fragment]] with components from small sets,  *)
(* and the parser reads it one input at a time. An input is a character    *)
(* that stands for all the parser does not tell from it, or a word.        *)
(***************************************************************************)
EXTENDS Naturals, Sequences, SequencesExt

Digits  == {"0", "3", "5", "6", "8"}
Letters == {"a", "https"}
Alnum   == Letters \union Digits
(* "." stands for the marks a scheme may have too, "~" for the other ones.      *)
Unreserved == Alnum \union {".", "~"}
Inputs == Unreserved \union {"+", "%", ":", "/", "@", "[", "#", "?", "*"}

DigitValue == [d \in Digits |->
                 CASE d = "0" -> 0 [] d = "3" -> 3 [] d = "5" -> 5 [] d = "6" -> 6 [] d = "8" -> 8]

(* atoi() *)
Number(digits) == FoldLeft(LAMBDA n, d : 10 * n + DigitValue[d], 0, digits)

--------------------------------------------------------------------------------
(* The parser. *)

States == {"Scheme", "SlashAfterScheme1", "SlashAfterScheme2", "UsernameOrHostname",
           "Password", "Hostname", "IPV6Hostname", "PortOrPassword", "Port", "Path",
           "Query", "Fragment"}

NoUrl == [scheme |-> <<>>, username |-> <<>>, password |-> <<>>, hostname |-> <<>>,
          port |-> <<>>, path |-> <<>>, query |-> <<>>, fragment |-> <<>>, integerPort |-> 0]

NewUrlParser ==
  [state |-> "Scheme", valid |-> TRUE, url |-> [NoUrl EXCEPT !.path = <<"/">>],
   usernameOrHostname |-> <<>>, portOrPassword |-> <<>>]

(* valid = false; url = Url(); the two local strings keep what they hold.       *)
Refused(p) == [p EXCEPT !.valid = FALSE, !.url = NoUrl]

Goto(p, state) == [p EXCEPT !.state = state]

Add(p, field, c) == [p EXCEPT !.url[field] = Append(@, c)]

(* std::swap() with a field that is still empty. *)
TakeUsername(p) ==
  [p EXCEPT !.url.username = p.usernameOrHostname, !.usernameOrHostname = <<>>]
TakeHostname(p) ==
  [p EXCEPT !.url.hostname = p.usernameOrHostname, !.usernameOrHostname = <<>>]
TakePassword(p) ==
  [p EXCEPT !.url.password = p.portOrPassword, !.portOrPassword = <<>>]

(* Mutant: the number of the port is kept in an int. *)
TakeWidePort(p) ==
  [p EXCEPT !.url.port = p.portOrPassword, !.url.integerPort = Number(p.portOrPassword),
            !.portOrPassword = <<>>]

(* ... and url.integerPort, of 16 bits, = atoi(url.port) *)
TakePort(p) ==
  [p EXCEPT !.url.port        = p.portOrPassword,
            !.url.integerPort = Number(p.portOrPassword) % 2^16,
            !.portOrPassword  = <<>>]

ReadScheme(p, c) ==
  CASE c \in Alnum \union {"+", "."} -> Add(p, "scheme", c)
    [] c = ":" -> Goto(p, "SlashAfterScheme1")
    [] OTHER   -> Refused(p)

ReadSlashAfterScheme1(p, c) ==
  CASE c = "/"      -> Goto(p, "SlashAfterScheme2")
    [] c \in Alnum  -> Goto([p EXCEPT !.usernameOrHostname = <<c>>], "UsernameOrHostname")
    [] OTHER        -> Refused(p)

ReadSlashAfterScheme2(p, c) ==
  IF c = "/" THEN Goto(p, "UsernameOrHostname") ELSE Refused(p)

ReadUsernameOrHostname(p, c) ==
  CASE c \in Unreserved \union {"%"} -> [p EXCEPT !.usernameOrHostname = Append(@, c)]
    [] c = ":" -> Goto(p, "PortOrPassword")
    [] c = "@" -> Goto(TakeUsername(p), "Hostname")
    [] c = "/" -> Goto(TakeHostname(p), "Path")
    [] OTHER   -> Refused(p)

(* Mutant: a password goes on in letters only. *)
ReadLettersOfPassword(p, c) ==
  CASE c \in Letters \union {"%"} -> Add(p, "password", c)
    [] c = "@" -> Goto(p, "Hostname")
    [] OTHER   -> Refused(p)

ReadPassword(p, c) ==
  CASE c \in Alnum \union {"%"} -> Add(p, "password", c)
    [] c = "@" -> Goto(p, "Hostname")
    [] OTHER   -> Refused(p)

ReadHostname(p, c) ==
  CASE c = "[" /\ p.url.hostname = <<>> -> Goto(p, "IPV6Hostname")
    [] c \in Unreserved \union {"%"} -> Add(p, "hostname", c)
    [] c = ":" -> Goto(p, "Port")
    [] c = "/" -> Goto(p, "Path")
    [] OTHER   -> Refused(p)

(* Mutant: what looked like a port is not taken over into the password. *)
ReadPortOrFreshPassword(p, c) ==
  CASE c \in Digits -> [p EXCEPT !.portOrPassword = Append(@, c)]
    [] c = "/"      -> Goto(TakePort(TakeHostname(p)), "Path")
    [] c \in (Alnum \ Digits) \union {"%"} ->
         Goto(Add([TakeUsername(p) EXCEPT !.portOrPassword = <<>>], "password", c), "Password")
    [] OTHER        -> Refused(p)

ReadPortOrPassword(p, c) ==
  CASE c \in Digits -> [p EXCEPT !.portOrPassword = Append(@, c)]
    [] c = "/"      -> Goto(TakePort(TakeHostname(p)), "Path")
    [] c \in (Alnum \ Digits) \union {"%"} ->
         Goto(Add(TakePassword(TakeUsername(p)), "password", c), "Password")
    [] OTHER        -> Refused(p)

ReadPort(p, c) ==
  CASE c \in Digits -> [p EXCEPT !.portOrPassword = Append(@, c)]
    [] c = "/"      -> Goto(TakePort(p), "Path")
    [] OTHER        -> Refused(p)

ReadPath(p, c) ==
  CASE c = "#" -> Goto(p, "Fragment")
    [] c = "?" -> Goto(p, "Query")
    [] OTHER   -> Add(p, "path", c)

(* A further question mark is read and dropped. *)
ReadQuery(p, c) ==
  CASE c = "#" -> Goto(p, "Fragment")
    [] c = "?" -> p
    [] OTHER   -> Add(p, "query", c)

ReadFragment(p, c) == Add(p, "fragment", c)

(* The body of the loop. *)
Read(p, c) ==
  CASE p.state = "Scheme"             -> ReadScheme(p, c)
    [] p.state = "SlashAfterScheme1"  -> ReadSlashAfterScheme1(p, c)
    [] p.state = "SlashAfterScheme2"  -> ReadSlashAfterScheme2(p, c)
    [] p.state = "UsernameOrHostname" -> ReadUsernameOrHostname(p, c)
    [] p.state = "Password"           -> ReadPassword(p, c)
    [] p.state = "Hostname"           -> ReadHostname(p, c)
    [] p.state = "PortOrPassword"     -> ReadPortOrPassword(p, c)
    [] p.state = "Port"               -> ReadPort(p, c)
    [] p.state = "Path"               -> ReadPath(p, c)
    [] p.state = "Query"              -> ReadQuery(p, c)
    [] p.state = "Fragment"           -> ReadFragment(p, c)

(* A host nobody took is the one that stood where a username may stand. *)
HostnameLeft(p) ==
  IF p.usernameOrHostname = <<>> THEN p
  ELSE [p EXCEPT !.url.hostname = p.usernameOrHostname]

HttpPort(url) ==
  IF url.port = <<>> THEN IF url.scheme = <<"https">> THEN 443 ELSE 80
  ELSE url.integerPort

(* What the accessors return once the url is valid. *)
Accessors(url) ==
  [scheme   |-> url.scheme,   username |-> url.username, password |-> url.password,
   hostname |-> url.hostname, port     |-> url.port,     path     |-> url.path,
   query    |-> url.query,    fragment |-> url.fragment, httpPort |-> HttpPort(url)]

--------------------------------------------------------------------------------
(* The urls that are written. A part that may be missing is <<>> or <<itself>>. *)

Maybe(parts) == {<<>>} \union {<<part>> : part \in parts}

Part(maybe) == IF maybe = <<>> THEN <<>> ELSE maybe[1]

Authority(w) ==
  (IF w.username = <<>> THEN <<>>
   ELSE w.username[1] \o (IF w.password = <<>> THEN <<>> ELSE <<":">> \o w.password[1]) \o <<"@">>)
  \o w.hostname
  \o (IF w.port = <<>> THEN <<>> ELSE <<":">> \o w.port[1])

(* Bound: components of at most five characters, one of each kind that matters. *)
Written ==
  {w \in [scheme   : {<<"a", "+">>, <<"https">>},
          slashes  : BOOLEAN,
          username : Maybe({<<>>, <<"%", "0">>, <<"~">>}),
          password : Maybe({<<>>, <<"8">>, <<"8", "a", "3">>, <<".">>}),
          hostname : {<<>>, <<"a">>, <<"8", ".", "~">>, <<"[", "a">>},
          port     : Maybe({<<>>, <<"8", "0">>, <<"6", "5", "5", "3", "5">>,
                            <<"6", "5", "5", "3", "6">>}),
          path     : Maybe({<<>>, <<"a", "@", ":", "/">>}),
          query    : Maybe({<<"0", "?", "/">>}),
          fragment : Maybe({<<"*", "#", "?">>})] :
     /\ w.username = <<>> => w.password = <<>>
     /\ w.path = <<>> => w.query = <<>> /\ w.fragment = <<>>
     /\ ~w.slashes => Authority(w) # <<>>}

After(mark, maybe) == IF maybe = <<>> THEN <<>> ELSE <<mark>> \o maybe[1]

Text(w) ==
  w.scheme \o <<":">> \o (IF w.slashes THEN <<"/", "/">> ELSE <<>>) \o Authority(w)
  \o After("/", w.path) \o After("?", w.query) \o After("#", w.fragment)

VARIABLES
  written,   (* the url that is parsed                                          *)
  text,      (* what the parser has yet to read of it                           *)
  parser,
  outcome    (* whether parse_() goes on, has returned, or ended the process    *)

vars == <<written, text, parser, outcome>>

Init ==
  /\ written \in Written
  /\ text = Text(written)
  /\ parser = NewUrlParser
  /\ outcome = "parsing"

LoopGoesOn == outcome = "parsing" /\ text # <<>> /\ parser.valid
LoopIsOver == outcome = "parsing" /\ (text = <<>> \/ ~parser.valid)

ReadsNext ==
  /\ LoopGoesOn
  /\ parser.state # "IPV6Hostname"
  /\ parser' = Read(parser, Head(text))
  /\ text' = Tail(text)
  /\ UNCHANGED <<written, outcome>>

(* abort(): an address in brackets. *)
Aborts ==
  /\ LoopGoesOn
  /\ parser.state = "IPV6Hostname"
  /\ outcome' = "aborted"
  /\ UNCHANGED <<written, text, parser>>

(* assert(portOrPassword.empty()), in a build that has assertions. *)
AssertionFails ==
  /\ LoopIsOver
  /\ parser.portOrPassword # <<>>
  /\ outcome' = "aborted"
  /\ UNCHANGED <<written, text, parser>>

Parsed ==
  /\ LoopIsOver
  /\ parser.portOrPassword = <<>>
  /\ parser' = HostnameLeft(parser)
  /\ outcome' = "parsed"
  /\ UNCHANGED <<written, text>>

Over == outcome # "parsing" /\ UNCHANGED vars

Next == ReadsNext \/ Aborts \/ AssertionFails \/ Parsed \/ Over

Spec == Init /\ [][Next]_vars

--------------------------------------------------------------------------------
(* Properties. *)

(* The parser holds values of its kind; the number of the port fits the 16 bits *)
(* of integerPort.                                                              *)
TypeOK ==
  /\ parser.state \in States
  /\ parser.valid \in BOOLEAN
  /\ DOMAIN parser.url = DOMAIN NoUrl
  /\ parser.url.integerPort \in 0..65535
  /\ \A field \in DOMAIN NoUrl \ {"integerPort"} : parser.url[field] \in Seq(Inputs)
  /\ parser.usernameOrHostname \in Seq(Inputs)
  /\ parser.portOrPassword \in Seq(Digits)
  /\ outcome \in {"parsing", "parsed", "aborted"}

IsValid == outcome = "parsed" /\ parser.valid

(* What stands before a colon may be a username or a host, what follows it a    *)
(* port or a password: whatever the parser makes of it, in a url it takes for   *)
(* valid every accessor returns the component that was written and no part of   *)
(* another one. A query loses its further question marks, and httpPort() is the *)
(* number of the port as far as that is one of 16 bits (urlparser.h:166-225).   *)
NeverMisread ==
  IsValid =>
    LET got == Accessors(parser.url)
        w   == written
    IN  /\ got.scheme = w.scheme
        /\ got.username = Part(w.username) /\ got.password = Part(w.password)
        /\ got.hostname = w.hostname /\ got.port = Part(w.port)
        /\ got.path = <<"/">> \o Part(w.path)
        /\ got.query = SelectSeq(Part(w.query), LAMBDA c : c # "?")
        /\ got.fragment = Part(w.fragment)
        /\ got.httpPort =
             IF Part(w.port) # <<>> THEN Number(Part(w.port)) % 65536
             ELSE IF w.scheme = <<"https">> THEN 443 ELSE 80

(* The urls this parser is for: a password of letters, digits and percent signs *)
(* that is not a number, no address in brackets, a path after a port, and a     *)
(* letter or digit first where the slashes are missing.                         *)
InForm(w) ==
  /\ ToSet(Part(w.username) \o w.hostname) \subseteq Unreserved \union {"%"}
  /\ w.password # <<>> =>
       /\ ToSet(Part(w.password)) \subseteq Alnum \union {"%"}
       /\ ~(ToSet(Part(w.password)) \subseteq Digits)
  /\ Part(w.port) # <<>> => w.path # <<>>
  /\ ~w.slashes => Head(Authority(w)) \in Alnum

(* Exactly those are taken for valid; in particular none of them ends the       *)
(* process (urlparser.h:137-259).                                               *)
AcceptsItsForm == outcome # "parsing" => (IsValid <=> InForm(written))

--------------------------------------------------------------------------------
(* What an assertion of the source says and the code does not do. *)

(* urlparser.h:262: assert(portOrPassword.empty()), after the loop.             *)
PortOrPasswordIsTaken == LoopIsOver => parser.portOrPassword = <<>>

================================================================================
