SPECIFICATION FairSpec
CONSTANTS
  Clients = {c1, c2}
  Servers = {s1}
  KeyA = KeyA
  KeyB = KeyB
  Host1 = Host1
  Host2 = Host2
  Requests <- OneRequest
  Responses <- FoundOrNot
  NoRequest = NoRequest
  NoBuf = NoBuf
  ListeningSocketFd = listening
  IgnoredSocketFd = ignored
  MaxConnectionNum = 4
  FdLimit = 3
  ReqLen = 1
  RespLen = 2
  Faults = {"client_stall", "origin_reset", "origin_truncates", "signal"}
PROPERTIES
  Served
  SignalInPassStops
