SPECIFICATION Spec
CONSTANTS
  Byte = {0, 1, 2}
  Zero = 0
  Limit = 4
INVARIANTS
  TypeOK
  DrainedOffersAll
PROPERTY FifoRefined
