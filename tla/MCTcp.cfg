CONSTANTS
  h1 = h1
  h2 = h2
  crlf = crlf
  txt = txt
  MaxSockets = 3
  RxBufSize = 3
  MaxSegment = 1
  HttpPort = 80
  LocalPorts = {80, 81}
  IPs = {h1, h2}
  AnyIP = AnyIP
  Ports = {0, 7, 8}
  Tokens = {crlf, txt}
  CRLF = crlf
  SeqMod = 2
  NowMod = 3
  Segments <- MCSegments
  Responses <- MCResponses
  Answers <- MCAnswers
SPECIFICATION Spec
VIEW MCView
SYMMETRY MCSymmetry
INVARIANTS TypeOK ListenerKept OneSocketPerPeer RetryNeverOverdue NoPendingRequest
PROPERTIES ImplementsConnections AnswerThenFin
