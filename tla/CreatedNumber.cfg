CONSTANTS
  MaxTokens <- MCMaxTokens
  MaxItems = 1
  MaxGenerate = 512
  Lexemes <- MCLexemes
  BodySize = 16384
  MaxSegment = 1994
  TextSize = 4096
  TokenCounts = {1, 3, 1023}
  Digits = {1, 6}
  MemoryTexts = {0, 20, 3000, 16384}
SPECIFICATION Spec
CHECK_DEADLOCK FALSE
INVARIANT SentIsJson
