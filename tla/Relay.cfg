SPECIFICATION FairSpec
CONSTANTS
  Limit = 2
  MaxBytes = 4
INVARIANTS
  TypeOK
  InOrder
  WriteInterestExact
  NeverReadsIntoFull
  OrderlyEnd
PROPERTIES
  Delivered
  EndsAfterEof
