SPECIFICATION Spec
CONSTANTS
  Recipient = {r1, r2}
  MaxAttempt = 2
SYMMETRY RecipientSymmetry
INVARIANT TypeOK
INVARIANT Honest
INVARIANT NoHiddenFailure
PROPERTY ImplementsReports
CHECK_DEADLOCK FALSE
