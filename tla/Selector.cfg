SPECIFICATION Spec
CONSTANTS
  ItemsMax = 3
  InitialElements = 3
  Owner = {o1}
INVARIANTS
  InBounds
  MasterExact
  MaxFdExact
  NonePassedOver
PROPERTY
  TableRefined
