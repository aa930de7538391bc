SPECIFICATION Spec
CONSTANTS
  Message = {m1, m2}
  MaxUndecryptable = 1
SYMMETRY MessageSymmetry
INVARIANT TypeOK
INVARIANT ReceiptOwed
INVARIANT OneStatusPerMessage
PROPERTY ImplementsReports
CHECK_DEADLOCK FALSE
