SPECIFICATION FairSpec
CONSTANTS
  Lines = {0, 1, 8}
  Spurious = {7}
  Exceptions = {13}
  MaxFaults = 1
  MaxKeys = 1
INVARIANT ReturnsIntact
