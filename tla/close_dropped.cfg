SPECIFICATION Spec
CONSTANTS
  LineItemID = {1, 2}
  FeeID = {}
  Amount <- MCAmount
  SumOf <- MCSumOf
  Policy = "USAGE_BASED"
  ContinueAsNewEventThreshold = 2
  maxRetryAttempt = 1
  Closer = {c1}
  Voider = {v1}
  NoItem = NoItem
  Lossy = {}
  GivesUp = {}
  OrderedSelect = TRUE
SYMMETRY Clients
PROPERTIES CloseSignalCloses
