SPECIFICATION FairSpec
CONSTANTS
  Lines = {0, 1, 8}
  Spurious = {7, 15}
  Exceptions = {3, 14}
  MaxFaults = 1
  MaxKeys = 3
INVARIANTS TypeOK LinesOpen ReturnsIntact
PROPERTIES Dispatched KeysRead RequestsServed
