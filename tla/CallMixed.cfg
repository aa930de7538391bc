SPECIFICATION Spec
CONSTANTS
  Caller = caller
  Callee = callee
  Budget <- MixedBudget
INVARIANT TypeOK
INVARIANT LegalTransitions
INVARIANT RetryTargetsLiveSession
INVARIANT Inv
INVARIANT NoHalfOpenCall
PROPERTY StagesInOrder
CHECK_DEADLOCK FALSE
