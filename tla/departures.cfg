SPECIFICATION Spec
CONSTANTS
  Clients = {c1, c2}
  Servers = {s1, s2}
  KeyA = KeyA
  KeyB = KeyB
  Host1 = Host1
  Host2 = Host2
  Requests <- TwoRequests
  Responses <- NotFound
  NoRequest = NoRequest
  NoBuf = NoBuf
  ListeningSocketFd = listening
  IgnoredSocketFd = ignored
  MaxConnectionNum = 4
  FdLimit = 3
  ReqLen = 1
  RespLen = 1
  Faults = {"client_reset", "reset_while_waiting", "reset_after_fin", "origin_reset"}
SYMMETRY KeySymmetry
INVARIANTS
  Inv
  TypeOK
  PollTableConsistent
  NoOrphanedWaiter
PROPERTIES
  FetchNeverRestarted
  ImplementsSingleFlightCache
