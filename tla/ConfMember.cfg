SPECIFICATION Spec
CONSTANTS
  alice = alice
  bob = bob
  guest = guest
  aliceDev = aliceDev
  bobDev = bobDev
  guestDev = guestDev
  Participant = {alice, guest}
  Device = {aliceDev, guestDev}
  Client = {aliceDev}
  LegacyDevice = {aliceDev}
  Owner <- MCOwner
  Subject = {"s0", "s1"}
  Lifetime = {"l0"}
  FullStateTrigger = 3
  InitialConf <- MCGuestConf
  Budget <- MemberBudget
INVARIANT SyncedView
CHECK_DEADLOCK FALSE
