CONSTANTS
  nul = nul
  header = header
  json = json
  crlf = crlf
  h1 = h1
  n1 = n1
  MaxSockets = 2
  RxBufSize = 8
  MaxSegment = 1
  HttpPort = 80
  LocalPorts = {80}
  IPs = {h1}
  AnyIP = AnyIP
  Ports = {0, 7, 8}
  Tokens <- MCTokens
  CRLF = crlf
  SeqMod = 16
  NowMod = 3
  Segments <- MCSegments
  Responses <- MCResponses
  Answers <- MCAnswers
  Host = h1
  Clients = {7, 8}
  Wanted <- MCWanted
  Padding <- NoPadding
  PiggybackFin = FALSE
  Resends <- MCRetries
  Losses <- MCLosses
  LostAcks = {}
  AckData = FALSE
  HwAddr <- MCHwAddr
  MaxInFlight = 2
  ArpTableSize = 1
  OurIP = us
  Neighbours = {h1}
  Macs = {h1, n1}
  None = None
SPECIFICATION XSpec
INVARIANTS RequestIntact OwnResponse NumbersInStep
PROPERTIES EveryoneServed AnsweredSocketCloses
