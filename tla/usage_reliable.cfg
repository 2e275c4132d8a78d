SPECIFICATION Spec
CONSTANTS
  LineItemID = {1, 2}
  FeeID = {}
  Amount <- MCAmount
  SumOf <- MCSumOf
  Policy = "USAGE_BASED"
  ContinueAsNewEventThreshold = 100
  maxRetryAttempt = 2
  Closer = {c1, c2}
  Voider = {v1, v2}
  NoItem = NoItem
  Lossy = {"CreateBill", "AddLineItem", "RecurringItem", "CloseBillFromState", "GetBillDetail"}
  GivesUp = {"CreateBill"}
  OrderedSelect = TRUE
SYMMETRY Clients
INVARIANTS LedgerAgrees OwedIsRecorded ClosedBillIsInvoiced
PROPERTIES ImplementsLedger
