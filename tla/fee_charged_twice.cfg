SPECIFICATION Spec
CONSTANTS
  LineItemID = {1, 11, 12}
  FeeID = {11, 12}
  Amount <- MCAmount
  SumOf <- MCSumOf
  Policy = "SUBSCRIPTION"
  ContinueAsNewEventThreshold = 100
  maxRetryAttempt = 2
  Closer = {c1}
  Voider = {v1}
  NoItem = NoItem
  Lossy = {"RecurringItem"}
  GivesUp = {"RecurringItem"}
  OrderedSelect = TRUE
SYMMETRY Clients
INVARIANTS OneFeePerInterval
