SPECIFICATION FairSpec
CONSTANTS
  call = call
  pair = pair
  Calls = {call, pair}
  Batches = {pair}
  Size <- MCSize
  MaxStarts = 2
INVARIANTS
  TypeOK
  ResultsMatch
PROPERTIES
  ImplementsRemoteCall
  CallsSettle
CHECK_DEADLOCK FALSE
