SPECIFICATION FairSpec
CONSTANTS
  LineItemID = {1, 2}
  FeeID = {}
  Amount <- MCAmount
  SumOf <- MCSumOf
  Policy = "USAGE_BASED"
  ContinueAsNewEventThreshold = 3
  maxRetryAttempt = 2
  Closer = {c1}
  Voider = {v1, v2}
  NoItem = NoItem
  Lossy = {"AddLineItem", "CloseBillFromState"}
  GivesUp = {"AddLineItem", "UpdateLineItem", "CloseBillFromState"}
  OrderedSelect = FALSE
INVARIANTS TypeOK CountedOnce DifferenceIsAccountedFor
PROPERTIES RecordsOnlyAdvance RunMakesProgress EveryRunEnds CloseIsAnswered
