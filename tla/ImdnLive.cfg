SPECIFICATION FairSpec
CONSTANTS
  Message = {m1}
  MaxUndecryptable = 1
PROPERTY ReceiptArrives
CHECK_DEADLOCK FALSE
