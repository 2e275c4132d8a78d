SPECIFICATION FairSpec
CONSTANTS
  LineItemID = {1, 11, 12, 13}
  FeeID = {11, 12, 13}
  Amount <- MCAmount
  SumOf <- MCSumOf
  Policy = "SUBSCRIPTION"
  ContinueAsNewEventThreshold = 100
  maxRetryAttempt = 2
  Closer = {c1}
  Voider = {v1}
  NoItem = NoItem
  Lossy = {"CreateBill", "RecurringItem", "CloseBillFromState"}
  GivesUp = {}
  OrderedSelect = TRUE
INVARIANTS EveryIntervalCharged OneFeePerInterval
PROPERTIES ImplementsFairLedger
