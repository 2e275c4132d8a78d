SPECIFICATION Spec
CONSTANTS
  Invalid = Invalid
  NoRecurring = NoRecurring
  Params <- Requests
  ContinueAsNewEventThreshold = 3
  Delay = 1
  MaxInt64 = 7
  MaxSignals = 3
  MaxFailures = 2
INVARIANTS TypeOK AcceptedRuns StoredTermsAreCharged TotalIsOfFees NoFeeEarly FeesKeepUp PeriodIsKept
