SPECIFICATION Spec
CONSTANTS
  Processes = {p1, p2}
  Gap = 2
  account = account
  OtherPaths = {account}
  AskedPaths <- MCAskedPaths
  Nobody = Nobody
  MaxIndex = 4
INVARIANTS
  TypeOK
  OwnKeysSign
  EarlyKeysSign
  AddressesRecur
