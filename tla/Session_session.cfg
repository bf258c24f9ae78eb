SPECIFICATION FairSpec
CONSTANTS
  MaxRef = 3
  Types <- TwoTypes
  MaxRequests = 4
  MaxExtra = 2
CHECK_DEADLOCK FALSE
INVARIANT TypeOK AnswerAhead
PROPERTY ImplementsExchange RequestEnds
