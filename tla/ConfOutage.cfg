SPECIFICATION Spec
CONSTANTS
  alice = alice
  bob = bob
  guest = guest
  aliceDev = aliceDev
  bobDev = bobDev
  guestDev = guestDev
  Participant = {alice}
  Device = {aliceDev}
  Client = {aliceDev}
  LegacyDevice = {}
  Owner <- MCOwner
  Subject = {"s0", "s1"}
  Lifetime = {"l0"}
  FullStateTrigger = 1
  InitialConf <- MCInitialConf
  Budget <- OutageBudget
INVARIANT TypeOK
INVARIANT SyncedView
INVARIANT AcceptedHeld
CHECK_DEADLOCK FALSE
