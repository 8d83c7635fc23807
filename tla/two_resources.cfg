SPECIFICATION Spec
CONSTANTS
  Clients = {c1, c2}
  Servers = {s1, s2}
  KeyA = KeyA
  KeyB = KeyB
  Host1 = Host1
  Host2 = Host2
  Requests <- MixedRequests
  Responses <- Found
  NoRequest = NoRequest
  NoBuf = NoBuf
  ListeningSocketFd = listening
  IgnoredSocketFd = ignored
  MaxConnectionNum = 5
  FdLimit = 4
  ReqLen = 1
  RespLen = 1
  Faults = {"recv_error", "origin_reset"}
SYMMETRY Symmetry
INVARIANTS
  SingleFlight
  AnswerMatchesRequest
PROPERTIES
  CacheWriteOnce
  ImplementsSingleFlightCache
