SPECIFICATION Spec
CONSTANTS
  c1 = c1
  c2 = c2
  c3 = c3
  k1 = k1
  k2 = k2
  BillID <- OneBill
  CustomerID <- NoBill
  Creation = {c1, c2}
  BillOf <- AllOne
  TermsOf <- MixedTerms
  Key = {k1}
  KeyBill <- KeysOne
  Resends = 1
  Months = 0
  NoTerms = NoTerms
  CronTerms = CronTerms
  GivesUp = {}
  Prompt = FALSE
CHECK_DEADLOCK FALSE
PROPERTIES ClosedIsFinal
