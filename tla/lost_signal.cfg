SPECIFICATION FairSpec
CONSTANTS
  Clients = {c1}
  Servers = {s1}
  KeyA = KeyA
  KeyB = KeyB
  Host1 = Host1
  Host2 = Host2
  Requests <- OneRequest
  Responses <- FoundOrNot
  NoRequest = NoRequest
  NoBuf = NoBuf
  ListeningSocketFd = listening
  IgnoredSocketFd = ignored
  MaxConnectionNum = 4
  FdLimit = 3
  ReqLen = 1
  RespLen = 1
  Faults = {"signal"}
PROPERTIES
  SignalStops
