SPECIFICATION FairSpec
CONSTANTS
  BillID = {b1, b2}
  Charged = {b1}
  MaxLines = 1
  MaxClock = 2
  Lister = {l1}
  Request <- Requests
  Getter = {b1}
  DefaultLimit = 10
  MaxInt = 127
  Unknown = Unknown
CHECK_DEADLOCK FALSE
INVARIANTS TypeOK ListedInOrder NoneMissed ClosedDetailAddsUp
PROPERTIES ListedTotalIsCurrent ListingMovesOn ListingEnds
