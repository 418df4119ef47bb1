SPECIFICATION Spec
CONSTANTS
  Requests = {1, 2, 3}
  Tokens = {1, 2, 3}
  NumPages = 4
  BlockSize = 2
  MaxSequenceLength = 8
  NextToken <- MCNextToken
  Eos = {3}
  Asked <- MCAsked
  MaxActive = 2
  TokenLimits = {4}
  DraftTokens = 2
  Ngram = 2
  LookaheadTokens = 1
  Drivers = {"paged"}
  Budget = 0
PROPERTIES RequestsFinish
CHECK_DEADLOCK FALSE
