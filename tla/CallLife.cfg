SPECIFICATION FairSpec
CONSTANTS
  Caller = caller
  Callee = callee
  Budget <- LifeBudget
INVARIANT NoOrphanRinging
INVARIANT NoHalfOpenCall
PROPERTY ImplementsLifecycle
PROPERTY RenegotiationSettles
CHECK_DEADLOCK FALSE
