SPECIFICATION Spec
CONSTANTS
  Clients = {c1, c2}
  Servers = {s1}
  KeyA = KeyA
  KeyB = KeyB
  Host1 = Host1
  Host2 = Host2
  Requests <- OneRequest
  Responses <- AllResponses
  NoRequest = NoRequest
  NoBuf = NoBuf
  ListeningSocketFd = listening
  IgnoredSocketFd = ignored
  MaxConnectionNum = 4
  FdLimit = 3
  ReqLen = 2
  RespLen = 2
  Faults = {"short_send", "origin_truncates", "client_extra", "client_fin"}
SYMMETRY Symmetry
INVARIANTS
  ArmedForState
PROPERTIES
  AnswerNeverRestarted
  AnswerPassedOnWhole
