SPECIFICATION Spec
CONSTANTS
  alice = alice
  bob = bob
  guest = guest
  aliceDev = aliceDev
  bobDev = bobDev
  guestDev = guestDev
  Participant = {alice, bob}
  Device = {aliceDev, bobDev}
  Client = {aliceDev, bobDev}
  LegacyDevice = {aliceDev, bobDev}
  Owner <- MCOwner
  Subject = {"s0", "s1"}
  Lifetime = {"l0", "l1"}
  FullStateTrigger = 2
  InitialConf <- MCInitialConf
  Budget <- RecountBudget
INVARIANT StoredInOrder
CHECK_DEADLOCK FALSE
