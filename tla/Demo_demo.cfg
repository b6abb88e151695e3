SPECIFICATION FairSpec
CONSTANTS
  old = old
  new = new
  Positions = {old, new}
  Unlocked = {old}
  Inputs = {100}
  None = None
  Slots = {1, 2}
  Window = 2
  MaxRequests <- MCMaxRequests
  MaxActs = 3
  MaxFailures = 1
  MaxOthers = 1
INVARIANTS
  TypeOK
  SlidingBound
  SpinnersAreHonest
PROPERTIES
  WaitsEnd
  PagesCatchUp
CHECK_DEADLOCK FALSE
