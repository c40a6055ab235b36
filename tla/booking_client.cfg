SPECIFICATION FairSpec
CONSTANTS
  Kinds = {"service", "estimate"}
  Offers <- BothOrService
  Dates = {d1, d2}
  NoDate = NoDate
  MaxKeys = 2
  MaxLoads = 1
  MaxFaults = 1
INVARIANTS SavedIsKnown OfferIsCurrent
PROPERTIES OutcomeKnown
CHECK_DEADLOCK FALSE
