SPECIFICATION FairSpec
CONSTANTS
  c1 = c1
  c2 = c2
  c3 = c3
  k1 = k1
  k2 = k2
  BillID <- TwoBills
  CustomerID <- NoBill
  Creation = {c1, c2, c3}
  BillOf <- OfTwoBills
  TermsOf <- MixedTerms
  Key = {k1, k2}
  KeyBill <- KeysOfTwoBills
  Resends = 0
  Months = 0
  NoTerms = NoTerms
  CronTerms = CronTerms
  GivesUp = {}
  Prompt = FALSE
CHECK_DEADLOCK FALSE
INVARIANTS ClosedIsPostProcessed OpenHasRun AnsweredHasRun
PROPERTIES AnsweredIsCreated OpenIsClosed
