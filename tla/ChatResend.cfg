SPECIFICATION FairSpec
CONSTANTS
  Recipient = {r1}
  MaxAttempt = 3
INVARIANT NoResendLoop
PROPERTY EventuallyReported
CHECK_DEADLOCK FALSE
