SPECIFICATION Spec
CONSTANTS
  c1 = c1
  c2 = c2
  c3 = c3
  k1 = k1
  k2 = k2
  BillID <- OneBill
  CustomerID <- OneBill
  Creation = {c1, c2, c3}
  BillOf <- AllOne
  TermsOf <- MixedTerms
  Key = {k1, k2}
  KeyBill <- KeysOne
  Resends = 1
  Months = 2
  NoTerms = NoTerms
  CronTerms = CronTerms
  GivesUp = {"CreateBill", "CloseBillFromState", "GetBillDetail"}
  Prompt = TRUE
CHECK_DEADLOCK FALSE
INVARIANTS TypeOK PostProcessedOnce RowIsRequested
PROPERTIES EachBillIsALedger
