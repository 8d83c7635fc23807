# A formal model of the single-threaded caching proxy

This directory holds a TLA+ model of the proxy in `src/single_thread_porxy`, TLC
configurations that check it on small instances, and theorems about it that TLAPS
proves for every instance.

The proxy is one thread that calls `poll()` without a timeout and then makes one
pass over its client connections and one over its server connections. Sockets are
blocking. A client's request is answered from the cache, or by a fetch from the
origin that all clients asking for the same resource share; the cached unit is
the origin's whole answer. Every client connection carries one request.

1. [The system](#1-the-system)
2. [Modules, and how they follow the code](#2-modules-and-how-they-follow-the-code)
3. [The runs](#3-the-runs)
4. [Bounds](#4-bounds)
5. [Fairness](#5-fairness)
6. [What is proved](#6-what-is-proved)
7. [Where the code and its comments disagree](#7-where-the-code-and-its-comments-disagree)
8. [What is abstracted and what is not modelled](#8-what-is-abstracted-and-what-is-not-modelled)
9. [Plan](#9-plan)

## 1. The system

Paths are relative to `src/single_thread_porxy`.

| component | state it keeps | operations | module |
|---|---|---|---|
| Event loop and dispatch, `Proxy.cpp`, `Proxy.h` | the lists `clientsConnections`, `serversConnections`; `clientsWaitingForResponse`: key to set of waiting clients; `isInterrupt`; the iterator of the pass | constructor, `run`, `acceptNewConnection`, `updateClientsConnections`, `updateServersConnections`, `handleArrivalOfClientRequest`, `initializeNewServerConnection`, `initializeResponseTransmitting`, `shutdownClientConnection`, `shutdownServerConnection`, `shutdown` | `Proxy` |
| Poll table, `Proxy.cpp:19-37` | `pollList`, `pollListSize`, the heap `freeIndexesInPollList` | add, remove, readiness tests, changes of `events` and `revents` | `PollTable` |
| Client connection, `Connections/ClientConnection.cpp` | state, received text, request, answer and offset, index in the poll table | `receiveRequest`, `initializeAnswerSending`, `sendAnswer` | `ClientConnection` |
| Server connection, `Connections/ServerConnection.cpp` | state, request and offset, received answer, index in the poll table | `sendRequest`, `receiveAnswer` | `ServerConnection` |
| Cache, `Cache/` | `cacheStorage`: key to answer | `contains`, `addCacheEntry`, `getCacheEntry` | a function in `Proxy` |
| Start-up and signals, `main.cpp` | the global proxy object | the handler, the assignment of the constructed proxy | `Proxy` |
| Error messages, `Constants.h` | none | texts by status, sizes of tables | `Messages`, `PollTable` |
| Request parser, `HttpParser/httprequestparser.h`, a third-party library that is compiled in | state of the automaton, framing of a body | `parse` | `HttpParser`, `RequestParser` |
| Response parser, `HttpParser/httpresponseparser.h`, likewise | the same | `parse` | `HttpParser`, `ResponseParser` |
| URL parser, `HttpParser/urlparser.h`, likewise; no translation unit includes it | `valid`, the components of the url | `parse`, the accessors | `UrlParser` |
| Build files, `CMakeLists.txt` | none | none | not modelled |

**Interactions.** The loop calls everything else; nothing calls back but the
signal handler. The client connection asks the request parser once, when the text
it received ends in an empty line; the server connection asks the response parser
once, when its origin has closed. The components meet in three shared structures. The *poll table*
is shared through indexes: a connection object stores the index of its slot, and
whoever holds the object may write to that slot. The *sets of waiting clients*
hold `shared_ptr`s to client objects, so that an object may outlive its
connection. The *cache* is written when a fetch ends and read when a request
arrives or is being answered.

**What is hard here.**

* A pass erases elements of the list it iterates over. `erase()` returns the next
  element and the loop increments once more, so the element after an erased one
  is passed over; when the last element is erased the iterator is incremented
  from `end()`, which in the circular list of libstdc++ is the first element
  again. Connections are therefore skipped, or met twice with the results of one
  `poll()`.
* The results of `poll()` age during a pass: peers act, and slots are given to
  other connections.
* A client that leaves while it waits stays in its set of waiting clients, with
  the index of a slot that is soon somebody else's.
* Two invariants span four structures: who waits for whom (connection state, sets
  of waiting clients, list of fetches, cache) and who owns which slot (both lists,
  indexes in the objects, the table, the heap).
* The heap of free indexes is popped without a test.
* One thread and blocking sockets: a `recv()` with nothing to receive, or a client
  that does not read, stops everything. A signal may arrive at any point.
* Where a message ends is decided in two places: by the last four bytes received
  (or the close), and by an automaton of some thirty states over everything before.
* The parsers make room for what a message announces, with an `int` that has become
  a `size_t`; where there is none, an exception that nobody catches ends the process.

**What makes each component correct.**

| component | properties |
|---|---|
| poll table | slots and connections correspond (`PollTableConsistent`), a slot is left for every descriptor (`SlotForEveryDescriptor`) |
| dispatch | one fetch per resource (`SingleFlight`), nobody waits for a fetch that is not there (`NoOrphanedWaiter`), answers go to those who asked (`AnswerMatchesRequest`), no blocking `recv()` (`ReceiveNeverBlocks`), events follow the state (`ArmedForState`), every client is answered (`Served`) |
| client connection | an answer that has begun is continued and never begun again (`AnswerNeverRestarted`) |
| server connection | a fetch is never started again (`FetchNeverRestarted`), and all the origin has sent until it closes goes to everybody who waits (`AnswerPassedOnWhole`) |
| request parser | it has decided when the text first ends in an empty line (`EmptyLineDecides`), and on all of the head (`CompletedAtEmptyLine`); no request without a body ends the process (`OnlyBodiesTerminate`) |
| response parser | an answer completes if and only if it is whole, and none with a reason phrase ends the process (`CachesOnlyWhole`, `CachesEveryWhole`) |
| URL parser | a component is found where it was written or the url is refused (`NeverMisread`), and exactly the urls of the parser's form are taken (`AcceptsItsForm`) |
| cache | entries never change (`CacheWriteOnce`); what is stored is what those who waited are given (`AnswerPassedOnWhole`), and it is whole (`CachesOnlyWhole`) |
| all of the proxy, as its clients see it | it is a cache that fetches a resource once for all who ask (`ImplementsSingleFlightCache`) |
| signals | a signal that finds the thread in a pass ends the process (`SignalInPassStops`) |

Everything in this code that is hard to test is listed, line by line and with the
properties that watch it, under `hazards` in `PROJECT.json`.

## 2. Modules, and how they follow the code

```
PollTable ----------------------------.
Messages -- ClientConnection ----------+-- Proxy -- ProxyInvariant -- ProxyRefinement -- MCProxy  (TLC)
         |- ServerConnection ---------'                    |                 :
         `- SingleFlightCache  . . . . . . . . . . . . . . | . . . . . . . . '  (INSTANCE)
                                                           |
                                        ProxyLemmas -- ProxyProofs -- AnswerProofs -- RefinementProofs  (TLAPS)
                                                                                   `- ReadinessProofs

HttpParser -- RequestParser    (TLC)      where the verdicts of Messages come from:
     |     `- ResponseParser   (TLC)      requests and answers character by character
     |
HttpParserProofs -- RequestParserProofs   (TLAPS)
                 `- ResponseParserProofs

UrlParser                      (TLC)
```

`PROJECT.json` maps every definition to its lines.

**`PollTable`.** `pollList`, `pollListSize` and the heap are one record with
fields `pollList` (slot to `fd`, `events`, `revents`), `size` and `free`. The heap
is the set of the indexes in it: `top()` is its minimum (`TopFreeIndex`), `pop()`
removes that. `AddConnectionFd` and `RemoveConnectionFd` are the two functions of
`Proxy.cpp:19-37`, together with the reset of the slot; `SetEvents`,
`ClearRevents` and `WithRevents` are the assignments to slots that handlers and
`poll()` make. A descriptor is identified with the connection that owns it.

**`Messages`.** A request is the verdict of its validation (or that the parser throws),
the key `method + " " + uri` and the host of its Host header. An answer is the request
it answers, a status, whether it is framed (by Content-Length or chunks), where the
response parser ends up (`parsed`), with which of its pieces it gets there
(`decidedAt`), and how many pieces there are. `ParseResult` is then what the parser
makes of the pieces that have arrived. Nothing ties `parsed` and `decidedAt` to
`framed`: a framed answer that is decided on with its last piece is cached only if
it is whole, one on which the parser decides earlier is cached although it may be cut
off, and both are there, as `ResponseParser` shows both (the second after an empty
reason phrase). `ErrorMessage`, `GatewayTimeout` are the texts of `Constants.h`, by
status.

**`ClientConnection`, `ServerConnection`.** The two objects as records, and for
each method what it makes of the object: `PartOfRequest`, `WholeRequest`,
`InitializeAnswerSending`, `AnswerPartSent`; `RequestSent`, `AnswerReceived`,
`EndOfStreamState` (the state after the origin has closed: cached or not, by the
parser's verdict and the status).

**`Proxy`.** The composition. `pc` says where the thread is:

```
construct --> check --> enter --> poll --> accept --> clients --> servers --.
   |            ^ |                                                         |
   v            | v                                                         |
  exit          | exit     (segv, sigpipe, abort from clients and servers)  |
                `-----------------------------------------------------------'
```

One step of the thread is one call around the passes, or the whole handling of
one element of a list in a pass, with all it calls; nothing else runs in the
process during a handler. Between any two steps peers and origins may act and the
signal handler may run. `it` is the position of the iterator, one more than the
length being `end()`; `Advance` and `AfterErase` are the two ways it moves.

| code | actions |
|---|---|
| constructor, assignment in `main` | `Construct`, `ConstructFails` |
| `run` | `CheckInterrupt`, `EnterPoll`, `PollReturns`, `ClientsDone`, `ServersDone` |
| `acceptNewConnection` | `AcceptNewConnection`, `AcceptFails`, `NothingToAccept` |
| `updateClientsConnections`, by the order of its tests | `ClientSocketError`; `ReceiveRequestFails`, `ReceivePartOfRequest`, and the outcomes of an arrival; `SendAnswerFails`, `SendPartOfAnswer`, `SendAnswerCompletes`, `SendAnswerKillsProcess`; `ClientIsQuiet` |
| an exception of the parser, which nothing catches | `ParseRequestKillsProcess`, `ParseAnswerKillsProcess` |
| `handleArrivalOfClientRequest` | `RefuseWrongRequest`, `AnswerFromCache`, `JoinWaiters`, `FetchFromOrigin`, `CannotResolveHost` |
| `shutdownClientConnection` | `ShutdownClientConnection`, a part of the actions that end in it |
| `updateServersConnections` | `ServerSocketError`; `ForwardRequest`, `ForwardRequestFails`, `ForwardRequestKillsProcess`; `ReceivePartOfAnswer`, `ReceiveEndOfAnswer`, `ReceiveAnswerFails`; `ServerIsQuiet` |
| `shutdownServerConnection` | `ShutdownServerConnection`, likewise |
| signal handler | `SignalArrives`; when it finds the thread waiting in `send()`, `SendAnswerInterrupted` or `SendAnswerCutShort` (the handler is installed without `SA_RESTART`: `send()` fails with EINTR if it has taken nothing, and the client is shut down; otherwise it returns how much it has taken, and the client stays) |

The state of a client's object that is in no list but in a set of waiting clients
is kept, as the `shared_ptr` keeps it; `Reclaim` resets an object nothing points
to. The environment is three functions: `peer` (the clients' ends), `backlog`
(what the kernel has accepted and the proxy has not), `origin` (the origins'
ends). `Faults` says what the environment may do; the code of the proxy is always
there as a whole.

What `recv()` and `send()` return follows Linux: `recv()` hands out queued data,
then the end of the stream, then the error of a reset, and with the fault
`recv_error` it fails at any time, as it may for want of memory; `send()` to a socket that was reset
fails, or raises SIGPIPE if the peer had closed before.

**`ProxyInvariant`.** The inductive invariant `Inv` of the proofs and the
invariants that are inductive relative to it (`AnswerInv`, `RequestInv`,
`ReceivableInv`, `RelayInv`, `ArmedInv`), kept apart from the proofs so that TLC
can check them: `Inv` in the run `departures`, the others on the same instances
before they were proved.

**`SingleFlightCache`.** What the proxy promises its clients, without sockets, slots,
passes and iterators. A client has asked or not (`asked`), and has an answer or not
(`given`); `fetching` are the keys under fetch, `cache` the answers kept. A request is
refused (`Refuse`; a request on which the parser throws is the end of the process and no
step here), answered from the cache (`Hit`), made to wait for the fetch that
is under way (`Join`) or for a new one (`Fetch`), or answered with the gateway timeout
because its origin cannot be reached (`FetchFails`). A fetch ends for all who wait for
it in one step (`Complete`): each is given the same answer, a gateway timeout or
whatever an origin may have sent, and it is kept if and only if the parser completes on
it and it is of status 200. A client may leave at any time (`Leave`).

**`ProxyRefinement`.** The refinement mapping. The sets of waiting clients' keys are
`fetching`, `cacheStorage` is `cache`; `asked` and `given` are read off the objects
of the clients that are *connected*. An object that a departed client left in a set
of waiting clients is not mapped: it is answered like the others, and nobody sees
it. The steps of the thread that decide a request or end a fetch are steps of the
abstract specification, every shutdown of a client is `Leave` (or nothing, if its
request was not complete), and everything else is a stutter. Asking and being
answered are one abstract step where the code decides in the handler; the bytes on
their way are below the abstraction, and `AnswerNeverRestarted` is about them.

**`MCProxy`.** The instances: request sets, answer sets, symmetry.

**`HttpParser`.** From the first header line on, the two parsers are the same
text, and one definition here. An input is a class of characters that no state
tells apart, or a word that matters as a whole (`GET` stands for HEAD too, `POST`
for PUT, `~` for every character that is not special). `HeaderMoves` and
`ChunkMoves` are the transitions that depend on state and input alone, as tables;
what is not in them is `ParsingError` (`f ++ g` is `f` extended by `g`). `DataMove` has the four states that look
at the framing. `Note` is what an input leaves in the other fields: strings are
kept as far as the code compares them, numbers as `atoi()` and `strtol()` read
them, digit by digit after blanks and a sign. What `atoi()` leaves in a `size_t` is one of
`Lengths`: the number, if it is an `int`, a negative one counted down from `SIZE_MAX`;
any `int` whatever if it is none, since `atoi()` is undefined for it. A length or the
size of a chunk beyond `MaxReserve`, for which `content.reserve()` finds no room, makes
the parser throw (`Throws`, state `ExceptionThrown`), and a counter that is counted down
at 0 becomes `SIZE_MAX` (`Decremented`). The code runs the automaton over the whole text when it is
asked; here it moves on with every input, which is the same, since it reads from
left to right and nothing else changes it.

**`RequestParser`.** A client sends any sequence of inputs (`Arrives`), a `recv()`
may end after any of them (`RequestGoesOn`, `RequestEnds`), and
`CheckValidity` is `parseRequestAndCheckValidity()` with its error statuses. `end`
is how much of `\r\n\r\n` the text ends in, `heads` how often that was all. If the
parser throws, there is no verdict: the process ends (`ParsingThrows`).

**`ResponseParser`.** An origin answers a GET or a HEAD with a well-formed answer,
character by character, with or without a reason phrase, with any of the three framings
(length, chunks with extensions and trailers, or the close), sizes of any number of
digits and bodies of any characters, and may close after any of them (`Closes`); then
`IsResponseStatusIs200` decides. The answer to a HEAD ends with its head, whatever
that announces. `at` is the part of its answer the origin has come to. `Grammar` says how
it goes on from there where it need not remember anything; the other actions are the
places where it does: the status code, the phrase, the line that announces the body,
sizes, which it counts up digit by digit in `left` and then down, and the ends of the
parts that depend on them. All this is written from the form of the answers this parser
is for, not from the parser; that the two agree is what is checked and proved.
`swallowed` remembers whether the line that tells the length followed an empty reason
phrase, which this parser takes for a part of the phrase.

**`UrlParser`.** Somebody writes a url from small sets of components (`Written`,
`Text`), and `Read` is the body of the parser's loop, one operator per `case`. What
stands before a colon may be a username or a host, and what follows it a port or a
password; the parser keeps both back in two local strings and hands them over when
it knows (`TakeUsername`, `TakeHostname`, `TakePassword`, `TakePort`). `ReadsNext`
is an iteration, `Aborts` the unfinished case of an address in brackets,
`AssertionFails` the assertion after the loop, in a build that has assertions (as the
build has that `CMakeLists.txt` describes; only CMake's release types set `NDEBUG`).

The parsers are not composed with `Proxy`: they have no state between messages, so
a verdict can stand for a text. `RequestParser` shows that a verdict belongs to
the head of a request and is there when `receiveRequest()` asks for it, as
`WholeRequest` has it, unless the process ends. Of an answer `Proxy` takes nothing for
granted: `parsed` and `decidedAt` are any outcome at any piece, and which of them
belong to a whole answer is what `ResponseParser` is about.

## 3. The runs

`any_request` runs `RequestParser`, `any_answer` runs `ResponseParser`, `any_url` and
`url_assertion` run `UrlParser`, all others `MCProxy`. All search exhaustively. "Fault" names members of `Faults`.

| run | instance | checks | shows |
|---|---|---|---|
| `departures` | 2 clients, 2 origins, two resources, answers that are not cached, descriptors for 3 connections; resets of clients, waiting ones included, and of origins | `Inv`, `TypeOK`, `PollTableConsistent`, `NoOrphanedWaiter`, `FetchNeverRestarted`, `ImplementsSingleFlightCache` | whoever leaves, and whenever, the table stays one to one with the connections and no connected client loses its place among the waiting; the slot of a client that left goes to a fetch that the late answer re-arms for writing, and the fetch is not harmed, not even by the failing `send()`; connected clients see the abstract cache |
| `three_clients` | 3 clients, 1 origin, descriptors for 3 connections, 4 slots; clients close and reset, but not while they wait | `ReceiveNeverBlocks`, `SlotForEveryDescriptor` | although a pass skips elements and goes around the list, no handler calls `recv()` on a socket that has nothing to return; with accepts and connects competing for the last descriptor the heap is never popped empty |
| `two_resources` | 2 clients, 2 origins, two resources, each with two cacheable answers and one on which the parser throws, a refused request and one on which it throws; origins that reset, failing `recv()` | `SingleFlight`, `AnswerMatchesRequest`, `CacheWriteOnce`, `ImplementsSingleFlightCache` | one fetch per resource, answers for those who asked, entries stay; to clients it is the abstract cache, which keeps the answers of status 200 that the parser completes and no others |
| `fragments` | 2 clients, 1 origin, messages of 2 pieces, answers of all kinds, one whose framing the parser misses included; short sends, truncated answers, bytes after a request | `ArmedForState`, `AnswerNeverRestarted`, `AnswerPassedOnWhole` | every cut of a message is handled: events follow the state, an answer goes on where it stopped, and a fetch ends with the close, when all the origin has sent goes to everybody who waits |
| `served` | 2 clients, 1 origin, fair, answers of 2 pieces; clients that stall, origins that reset or close early, a signal | `Served`, `SignalInPassStops` | `send()` takes all of an answer, the origin's or an error message, for every client that has sent its request, unless a signal ends the process; a signal during a pass does, also when it finds the thread in `send()` |
| `any_request` | any sequence of inputs of any length, numbers of any sign and size, read by an `int` up to 2 with room for 1 (any, by the theorems) | `TypeOK`, `EmptyLineDecides`, `OnlyBodiesTerminate`, `CompletedAtEmptyLine` | whatever a client sends and however it is cut, the parser has decided at the first empty line unless it reads a body: the end `receiveRequest()` looks for comes neither before nor after the parser's; what ends the process is a request with a body |
| `any_answer` | answers to GET and HEAD of any number of lines and chunks, sizes up to 18 (any, by the theorems), with a reason phrase or an empty one | `TypeOK`, `CachesOnlyWhole`, `CachesEveryWhole` | an answer of status 200 is cached exactly if it arrived whole, wherever the origin closed; but one to a HEAD that announces a body never, and one whose framing follows an empty phrase even if it is cut off; none with a phrase makes the parser throw |
| `any_url` | every url of the sets of components in `Written` | `TypeOK`, `NeverMisread`, `AcceptsItsForm` | host, username, port and password are told apart in every combination, or the url is refused; the urls that are taken are those of `InForm`, and none of them ends the process |
| `stale_waiter` | 2 clients, 2 origins, two resources; resets of waiting clients | `WaitingClientIsNotPolled` fails | a departed client's index re-arms the slot of another client |
| `same_uri` | 2 clients, 1 origin, one target at two hosts | `WaitersShareUrl` fails | clients of two hosts wait for one answer |
| `lost_signal` | 1 client, 1 origin, fair; a signal | `SignalStops` fails | a signal before the assignment in `main`, or just before `poll()`, does not end the process |
| `url_assertion` | as `any_url` | `PortOrPasswordIsTaken` fails | a url that ends in its port trips the assertion after the loop |

The passing runs leave deadlock checking on: the thread can always go on or the
environment can, and what has ended stutters: the process (`Ended`), a request
that was decided on (`Decided`), a connection that was closed (`Closed`), a url that
was parsed (`Over`).

Every property of a passing run has a mutant in `PROJECT.json`, a plausible slip
in the code that makes TLC find the property violated in that very run. Mutants
that are operators of their own stand next to what they mutate, marked `Mutant:`.

Some properties hold only under a condition, which is part of what they say.
`ArmedForState` is checked where no client's socket is reset while it waits: with
`reset_while_waiting` it fails, for the reason that the run `stale_waiter` shows.
`AnswerPassedOnWhole` is about origins that are not reset and a `recv()` that does not
fail with something to take: after either, those who wait get the gateway timeout
although the answer may be there, still queued (`Proxy.cpp:294`, section 7).
`Served` demands that an answer be taken to the end, so it is checked where clients neither
close nor reset, where `recv()` does not fail (`ReceiveRequestFails` drops a client whose
request is there and answers nothing), and where neither request nor answer makes the
parser throw. It is checked without bytes after a request, too: a request is complete
when the received text *ends* in an empty line at the end of a `recv()`, so that a client
whose further bytes arrive together with the end of its request is never answered.
That each of these conditions is needed is visible in the model: the steps are there.
All other properties of the proxy that the runs check hold under all faults, as
section 6 proves.

## 4. Bounds

| bound | values | why it is enough |
|---|---|---|
| `Clients` | 1 to 3 | two clients share a fetch, compete for one, or reuse each other's slot; the third makes the iterator skip an element that matters and go around |
| `Servers` | 1 or 2 | two fetches meet in slot reuse and in the list of fetches; the objects are reused without end |
| `ReqLen`, `RespLen` | 1 or 2 pieces | with 2, every message can be cut between its first and last piece on each of its four ways, the parser can decide before the last piece or with it, and in `served` a signal can find `send()` with a part taken; a third adds no state of a connection |
| `SentAtMost` | `ReqLen`, or one piece more | one piece is enough to hide the end of a request |
| `peer[c].stalled` | a client stops reading once per connection | one stall holds up the thread at any point; connections repeat |
| `FdLimit` | 3 or 4 | below the number of connections in `three_clients` and `departures`, which makes `accept()` and `socket()` fail, at or above it in most others |
| `MaxConnectionNum` | `FdLimit + 1` | the tightest table the assumption admits, one slot being the listening socket's |
| `INT_MAX`, `SIZE_MAX`, `MaxReserve` | 2, 5, 1 in `any_request`, 18, 40, 18 in `any_answer` | the widths scaled down with their order kept (`SizesAssumption`: a negative `int` is a `size_t` that nothing has room for). With room for 1 an `int` can be there or not, negative or none, and a number be too large for memory or for an `int`; a request with a body is refused or ends the process whatever its length, so one character of body is enough to be inside one. The theorems of section 6 hold for all widths. Numbers beyond `TooLarge` are not told apart |
| `MaxSize` | 18 | sizes of one digit and of two that begin with 1 in both bases (18 is `12` in base 16), which differ in what the two bases make of them, and any number of leading zeros. The theorems of section 6 hold for every bound that an `int` can hold and there is room for |
| `MaxMistaken` | 1 | a size in a body that the parser takes for header lines, which is only possible after an empty phrase: such a body runs until the close, so the parser could read numbers without end in it; the theorems hold for every value |
| `DigitValue` | digits 0, 1, 2 and a, and the c of `chunked` | zero, leading zeros, a digit of base 16 alone, a number that a letter ends, and the rest alike |
| `Responses` | per run: framed, unframed, framed but missed by the parser, and not cached (`fragments`); one that is cached and one that is not (`FoundOrNot`), only one that is not (`NotFound`, `departures`), two that are cached and one on which the parser throws (`Found`, `two_resources`) | with answers of one piece, framing makes no difference: a piece is all of it; `departures` has fetches that succeed and are fetched again, `two_resources` answers that would show a replaced entry, with failed fetches for those that are not cached |
| `Written` | up to six components, each from two to four values of at most five characters, or missing | each character class of each state, each component empty, missing and not, ports within and beyond 16 bits, passwords that begin like a port; the parser looks at one character and at whether a field is empty |
| `heads` | up to 2 | properties tell the first empty line from later ones only |
| `Faults` | a set per run | each run has those that could break its properties; all of them together are covered by the theorems |

The parsers' state spaces are finite without a bound on the length of a message:
`any_request` and `any_answer` cover messages of every length.

Clients connect again with a new request once their connection is closed, as often
as they like: the behaviours are unbounded although the states are finite. A
connection object that still waits in a set is not a new one, so a model client
whose object is kept does not connect meanwhile; another one takes its slot.

`Symmetry` permutes clients and servers, in safety runs only. `KeySymmetry`, in
`departures`, also the two keys, which that instance treats alike: both are asked for
with the same verdict and host. The invariants, action properties and the abstract
specification treat the permuted values alike too; no liveness is checked with
symmetry.

## 5. Fairness

`FairSpec` assumes

* weak fairness of `Thread`: the operating system runs the thread unless it is
  blocked. It is blocked in `poll()` with nothing to report (`PollReturns` is
  disabled), and in `send()` to a client that does not read. It is one condition on
  the whole thread: which connection a pass handles is decided by the iterator;
* `ClientReadsAgain`: a client that stopped reading reads again or goes. Without
  it one client stops the proxy for good, since sockets block and `send()` has no
  timeout;
* `OriginSends`, `OriginCloses`: an origin sends its answer and closes. The proxy
  passes the client's version and headers on, has no timeout and takes nothing but
  the close for the end of an answer. An origin that keeps the connection open
  makes its clients wait for as long.

Nothing is assumed of the clients' sending, of connects, resets or signals.

## 6. What is proved

TLAPS checks the theorems of eight modules; every leaf is proved by SMT, Zenon or LS4.

| theorem | states |
|---|---|
| `ProxyProofs!Invariance` | `Spec => []Inv` |
| `ProxyProofs!TypeCorrectness` | `Spec => []TypeOK` |
| `ProxyProofs!TableConsistency` | `Spec => []PollTableConsistent` |
| `ProxyProofs!SlotAlwaysLeft` | `Spec => []SlotForEveryDescriptor` |
| `ProxyProofs!OneFetchPerResource` | `Spec => []SingleFlight` |
| `ProxyProofs!NoWaiterIsLost` | `Spec => []NoOrphanedWaiter` |
| `AnswerProofs!AnswersMatch` | `Spec => []AnswerMatchesRequest` |
| `AnswerProofs!CachedAnswersStay` | `Spec => CacheWriteOnce` |
| `RefinementProofs!Refinement` | `Spec => ImplementsSingleFlightCache` |
| `ReadinessProofs!ReceiveIsSafe` | `Spec => []ReceiveNeverBlocks` |
| `ReadinessProofs!ForwardedOnce` | `Spec => FetchNeverRestarted` |
| `ReadinessProofs!AnsweredOnce` | `Spec => AnswerNeverRestarted` |
| `ReadinessProofs!AllIsPassedOn` | `Spec => AnswerPassedOnWhole` |
| `ReadinessProofs!AlwaysArmed` | `"reset_while_waiting" \notin Faults` implies `Spec => []ArmedForState` |
| `RequestParserProofs!RequestTypeCorrectness` | `Spec => []TypeOK` of `RequestParser` |
| `RequestParserProofs!OnlyBodiesEverTerminate` | `Spec => []OnlyBodiesTerminate` |
| `RequestParserProofs!EmptyLineAlwaysDecides` | `Spec => []EmptyLineDecides` |
| `RequestParserProofs!CompletionAtEmptyLine` | `Spec => CompletedAtEmptyLine` |
| `ResponseParserProofs!ResponseTypeCorrectness` | `Spec => []TypeOK` of `ResponseParser` |
| `ResponseParserProofs!NothingPartialCached` | `Spec => []CachesOnlyWhole` |
| `ResponseParserProofs!EveryWholeCached` | `Spec => []CachesEveryWhole` |

Those about the proxy hold for any sets of clients, servers, requests and answers,
any number of slots, descriptors and pieces, and, but for `AlwaysArmed`, any set of
faults (`AnswerPassedOnWhole` itself says that `recv_error` is not among them); those about
the request parser for texts of any length and numbers of any sign and size; those about
the response parser for answers of any length, with sizes for which there is room, and, in
bodies that it takes for header lines, for numbers of any sign up to any bound.

**Assumptions.** `MessagesAssumption` (messages have at least one piece, the
requests and answers are of their kind), `MaxConnectionNumAssumption` (the table
has slots) and `ProxyAssumption`: connections of both kinds, the listening socket
and the value of an ignored slot differ, and `FdLimit < MaxConnectionNum`. The
last is how the program is set up rather than what it tests: by `Constants.h:10`
the table has as many slots as `poll()` admits, which is `RLIMIT_NOFILE`, and of
that many descriptors the standard streams and the listening socket leave fewer
for connections. Under a higher limit than the 1024 slots of the source the
assumption fails, and so does `SlotForEveryDescriptor`: `top()` and `pop()` would
find the heap empty.

`AlwaysArmed` alone assumes something of the environment: that no client's socket is
reset while its client waits. The code does not ensure that; with the reset the
property is false, and `stale_waiter` shows what happens instead (section 7). All
states of the loop are still there under the assumption: clients are reset before and
after they wait, close at any time, and origins fail.

`SizesAssumption` relates the widths as they are on the platforms of the build: an `int`
made negative is, as a `size_t`, more than `content.reserve()` has room for (of 2^64 - 2^31
characters there is none). `MaxSizeAssumption` says that a well-formed answer announces
sizes that an `int` can hold and that there is room for: larger bodies are not shown
anything about, as `atoi()` is undefined for them or the process ends. Nothing of the sort
is assumed of clients.

**The inductive invariant.** None of the properties is inductive.

* `TableInv` strengthens `PollTableConsistent` by the number of free slots. That a
  slot is left is a counting argument: there are `MaxConnectionNum - size` free
  slots, `size` is one more than the open connections, and those are fewer than
  `FdLimit` whenever a slot is taken. An accept and a connect need the slot taken
  to be free, a shutdown needs the one returned to be taken; both follow from the
  correspondence of slots and owners.
* `AcceptInv` keeps the backlog apart from the list. Without it an accepted client
  might be in the list already, and the new slot would be its second one. Its
  clause on `construct` says that before the assignment in `main` nothing is there
  to be lost by the assignment.
* `PolledInv` says that only a client whose request is incomplete is polled for
  reading. Without it a waiting client could receive another request and join
  another set, which breaks `NoOrphanedWaiter`. It survives the re-arming through
  a stale index because that sets the events to writing, never to reading.
* `ObjectInv` keeps requests of fetches in `Requests` and says that no client is in
  state `WAITING_FOR_RESPONSE`, on which `shutdownClientConnection` depends.
* `SingleFlight` and `NoOrphanedWaiter` need each other: the end of a fetch drops
  one key, so that key must belong to that fetch alone, and the clients in its set
  must be all that wait for it.

`ProxyLemmas` has what `RemoveAt` and `Append` do to injective lists, what each
table operation does to slots and counts (with the minimum of a set of indexes, by
the finiteness of the table and without induction), and what the methods make of the
objects. `ProxyProofs` has one lemma for every action, most of them through one of
two schemes: a turn of a client that keeps the sets of waiting clients, and a turn
of a server connection that stays.

**Answers.** `AnswerInv` is proved relative to `Inv` in `AnswerProofs`: a client that is
being answered, even one whose object is only kept, is sent an answer to what it
asked (`ClientInv`); a connection in the list is in one of the two states in which
a shutdown is not a completion (`FetchInv`); what is cached answers the key it is stored
under (`CacheInv`), which is what a client served from the cache relies on. `CacheWriteOnce`
follows since the key of a fetch is never a cached one. `RequestInv` says what an
object holds: it has a request exactly from the moment that has been received, and
an answer exactly while it is being sent, so that whether a client has asked and been
given something can be read off its object at any time.

**The refinement.** `Init` maps to `Flight!Init`. For a step, `RefinementProofs`
compares what the abstract state says of each client before and after it.

* If no client's `Asked` and `Given` change, nor the cache or the set of keys under
  fetch, the step is a stutter (`NothingToTell`). Most steps are: the environment, all
  of `run`, parts of messages, and every turn of a server connection that stays.
* An arrival changes one client (`OneToTell`) and is `Refuse`, `Hit`, `Join`, `Fetch`
  or `FetchFails`, by the guards of `handleArrivalOfClientRequest`.
* A shutdown of a client is `Leave`, or a stutter if its request had not been
  received.
* `ShutdownServerConnection` is `Complete`, the only step that changes many clients
  at once. `NoOrphanedWaiter` and `RequestInv` show that the connected members of the
  set of waiting clients are just those for whom `Waits` holds (`WaitersWait`): the
  objects that departed clients left in it are written to and cannot be seen.
  `FetchInv` leaves the two ways the fetch can end, and whether the answer is kept
  follows from the state (`KeptAnswers`).

**Readiness.** Five properties are about how old the results of `poll()` are when a
handler uses them, and about slots written through an index another object holds. For
them `ReadinessProofs` first shows, once for all, what a step may do to one connection
that is in its list afterwards (`StepEffects`): it is left alone while its other end
may send, reported by `poll()`, new, served in its turn, woken with an answer, or
*disturbed*, which is a slot re-armed through the index of a client that left while
it waited. Every invariant is then a matter of six cases for a client and five for a
server connection instead of some thirty actions.

* `ReceivableInv` is the invariant on the age of results: whatever is reported as
  readable and not yet handled has something to return. Only the handler of the
  connection takes data away and it resets what was reported, other ends only add,
  and a reused slot begins without results. That is why passing over and repeating
  elements is harmless here. `ReceiveNeverBlocks` follows.
* `RelayInv` says that a fetch is polled for reading only once it has forwarded all of
  its request. `FetchNeverRestarted` needs it: a disturbed fetch is polled for writing
  again, enters `sendRequest()` again, and is harmless because nothing is left to send.
* `AnswerNeverRestarted` follows from the effects and `RequestInv` alone: only an
  object without an answer is given one. So it holds under all faults, also when
  clients are reset while they wait.
* `AnswerPassedOnWhole`: a fetch leaves the list only in its own turn (`ServersStay`), and
  if its origin was not reset, only because `recv()` returned 0 (`FetchEndsWithClose`):
  `ReceivableInv` says that an error `poll()` reported is a reset. Then all that was
  sent has been received, and the members of the set are given just that; the cache, where
  nothing was stored under the key before (`SingleFlight`), holds it or nothing.
* `ArmedInv` strengthens `ArmedForState` by what `poll()` can have reported
  (`ReportedInv`: a handler never runs for an event the state does not ask for), and
  by `NobodyLeavesWaiting`: without the fault, the members of every set of waiting
  clients are connected, so that no slot is ever written through a stale index.

**The parsers.** `HttpParserProofs` has, for both, where each state of the tables leads
(`HeaderMove`, `ChunkMove`, one case per state), what the states that look at the
counters do (`DataMoveEffect`), and what an input leaves in the counters
(`NoteEffect`, `CountersStep`): they are only counted down in `Post` and `ChunkData`,
which are entered and kept only with something left, and they are set to no more than
`MaxReserve`, or the parser has thrown. That is `CountersInv`, from which `TypeOK` follows
for both parsers. It is where signs and widths matter: a negative length that did
not throw would leave nearly `SIZE_MAX` in `contentSize`. For requests, `HeadInv` relates the two automata:
in every state of the head, the state of the parser determines how much of an empty
line the text ends in (`EndIn`: 1 where the parser expects the newline of a line, 2
after it, 3 where it expects the last one, otherwise 0), and no empty line has
been seen; a body is read, and a length or a coding noted, only for a method that may
have one, so that `content.reserve()` is not even asked for others
(`OnlyBodiesTerminate`). Neither property is inductive: that no empty line has been seen says
nothing about how near the next one is, and `EndIn` does.

**Answers of origins.** `CachesOnlyWhole` and `CachesEveryWhole` speak of the moment when
the origin closes; what makes them hold is that the parser has followed the origin until
then. `FollowingInv` says how.

* `OriginInv` is about the origin alone: which framing each part of an answer belongs to,
  where `left` is 0, where something is left to send. `StatusInv` ties the parser's state
  and status code to the part of the status line and the digits sent; it is what shows that
  a code that begins with 2 is never an error. `SettledInv` says that the parser never gets
  back to the status code afterwards, whatever follows.
* `FollowsInv` is the correspondence after the status line. For an answer with a phrase
  the parser is in the state that belongs to the origin's part (`HeadAt`, `LengthAt`,
  `CodingAt`, `BodyAt`) and has noted the same: in a size, the number it has read is what
  the origin has sent of it, digit by digit; in the head, `contentSize` and `chunked` are
  the framing; in the body, its counter is `left`; and it has completed exactly when the
  origin is done, unless it waits for the body a HEAD does not have (`IsSent`).
* After an empty phrase it may be out of step, in two ways. As long as it is in what it
  takes for the phrase it is a line behind (`Misread`, `MistakenAt`) and in step again at
  the next header. Or it does not find back (`Failed`): it stops with an error at the
  continuation of a header it has not seen; or the line it lost was the one with the length,
  or there was no header, and then the properties except the answer or ask of it no more
  than its status; only here it may throw, at a length in what it takes for header lines.
* `VerdictInv` is the decision in `receiveAnswer()`.

The proof of a step first compares the two tables: for every part of the answer, where each
character leads the origin (`Grammar`) and the parser (`Moves`), in `StatusGoesOn`,
`HeaderGoesOn`, `LengthGoesOn`, `CodingGoesOn`, `BodyGoesOn` and `MisreadGoesOn`. `StateAfter`,
`NotNoting` and `ConsumeLeaves` then say what one input does to the state and to the other
fields of the parser, and one lemma for each action of the origin puts them together
(`FollowsGoesOn`, `FollowsSize`, `FollowsData`, ...).

That the origin sends a size digit by digit is what makes this provable: the two numbers
are compared after each digit, and no induction over the digits of a number is needed.

**Only model-checked.**

* `Served` and `SignalInPassStops`: liveness under fairness is out of the prover's
  reach.
* The properties of `UrlParser`, which has no constants: the run checks all of its
  states. That `Number` is a number at all is an induction over the digits.

## 7. Where the code and its comments disagree

1. `stale_waiter`. `ClientConnection.h:15` describes a state
   `WAITING_FOR_RESPONSE`, and `shutdownClientConnection` (`Proxy.cpp:127`) looks for
   it to take a departing client out of its set. Nothing sets it (`ObjectInv`, proved):
   clients wait in `PROCESSING_REQUEST`. So a client that leaves stays in its set, and
   when the fetch ends `initializeResponseTransmitting` (`Proxy.cpp:231-237`) sets
   `POLLOUT` on a slot that may be another's. If the new owner is a client that
   waits, `sendAnswer` uses an answer that is not there (`pc = "segv"`). If it is
   a fetch, nothing comes of it (run `departures`). `Proxy.cpp:175` says that the
   events of a waiting client are of no interest.
2. `same_uri`. `Proxy.h:82` calls the key a url; it is the method and the target
   as sent (`ClientConnection.cpp:83`), without the host.
3. `lost_signal`. `main.cpp` announces the shutdown although the flag may be
   overwritten by the assignment of the proxy, or noticed only when some
   descriptor becomes ready.
4. `url_assertion`. `urlparser.h:262` asserts that nothing is left in
   `portOrPassword`; the digits of a port are taken out of it only at the slash of the
   path, so `a://a:80` trips the assertion, and without assertions loses the port. No
   translation unit of the proxy uses this parser.

Met while modelling, in the model, and not contradicted by any text of the
repository: `send()` without `MSG_NOSIGNAL` ends the process when the peer has
closed and reset; an origin that closes without a byte makes the clients receive
an empty answer; at the descriptor limit the loop spins, as the listening socket
stays ready; a reset that follows an origin's complete answer discards what is
still queued of it, and the clients get a gateway timeout. Of the parsers: a POST whose
Content-Length is negative, or that announces more than there is memory for, ends the
process, as `content.reserve()` throws (`httprequestparser.h:210-211, 301-303`) and nothing
in the program catches; an origin can do the same with such an answer; after an empty reason phrase the
first header line counts as part of the phrase, so that a Content-Length there is
lost and an answer that is cut off is cached (the exception in `CachesOnlyWhole`);
an answer to a HEAD that announces a body is never cached, as the parser waits for
that body; `Host` is compared by case in
`ClientConnection.cpp:62`, other header names are not; a GET with a Content-Length
is complete at its empty line, and what follows is not forwarded.

## 8. What is abstracted and what is not modelled

* **Text.** In `Proxy` a message is pieces, a request its verdict, key and host, an
  answer its status, whether it is framed, and what the parser makes of it and when; the
  automata of the parsers are in `RequestParser` and `ResponseParser`. An answer to HEAD
  that announces a body never parses to completion in the code and so is never cached
  (`any_answer`); in `Proxy` it is one on which the parser fails.
* **Parsers.** Versions, the URI, the reason phrase and keepAlive are read and
  decide nothing; they are left out. The content of a body is read and not used.
  A length is read with its sign and may be no `int`; `content.reserve()` throws above
  `MaxReserve`, a fixed bound that stands for `max_size()` or for what memory is left. What
  `content` already holds is not added to the size of a chunk there. Left out is the
  prefix `0x` of a chunk's size (`x` is not among the characters): it leads to no state
  that is not reached without it. The origin of `ResponseParser` sends one blank after
  the colon of a header and trailers of letters and digits. Without the blank an answer parses to an error; with two, or with
  another coding before `chunked`, the chunks are not recognised and the answer
  completes at its empty line.
* **`resolveRequiredHost`** is one step that yields a connected socket or fails: its
  loop over addresses keeps no state and tells its caller nothing else. `getaddrinfo()` and `connect()` block the thread; the model has no time. The
  descriptors it opens and closes on the way are not counted.
* **Partial sends.** Blocking sockets usually take all of what `send()` is given.
  The fault `short_send` lets it take any part, which the code provides for. A
  `send()` to an origin that would block is not modelled; it would hold up the
  thread as a client does.
* **EINTR** in `poll()` and in `send()` to a client is modelled; in `connect()` it
  is a failed resolution.
* **Errors of `poll()`** other than EINTR, failure of `malloc` anywhere but in
  `content.reserve()`, and standard output are left out.
* **The URL parser** is modelled with its assertion on; with `NDEBUG` the step
  `AssertionFails` would go on as `Parsed` does, and the port would be lost. The
  default constructor, which parses nothing, and ports beyond the width of `int` are
  left out.
* **Build files**: `CMakeLists.txt` lists the sources; the generated
  `cmake-build-debug` tree and `.idea` are not program text.

## 9. Plan

Done, in this order: poll table, messages, connection objects, proxy, their runs,
the inductive invariant and the answers, the request and response parsers and their
runs, the abstract specification with the refinement checked, the URL parser; then the
proofs of the refinement, of the properties of readiness, of the request parser, and
of what the response parser lets into the cache; then lengths of any sign and size, what
the parsers throw, and the passing on of whole answers, with their proofs.

Every safety and action property of the proxy and of the two HTTP parsers that a passing
run checks is a theorem now. What is left:

1. The port of a url is read by `atoi()` at once, from a text that is kept. To prove the
   properties of `UrlParser` for urls of any length, the url would have to be written
   character by character, as the answers of `ResponseParser` are, with the value of the
   digits of a port kept beside them. The run checks all the urls of the components it has.
2. `Served` for every number of clients is out of reach of the prover. Its safety part, that
   a client which waits has a fetch to wait for, is `NoWaiterIsLost`.
