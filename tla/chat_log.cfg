SPECIFICATION Spec
CONSTANTS
  alice = alice
  bob = bob
  m1 = m1
  m2 = m2
  m3 = m3
  f1 = f1
  f2 = f2
  NoMsg = NoMsg
  Users <- MCUsers
  Members <- MCUsers
  Msgs = {m1, m2, m3}
  Sender <- MCSender
  Flushes = {f1}
  MaxSends = 3
  MaxCopies = 1
  MaxCrashes = 1
  MaxLost = 1
  MaxFails = 1
  MaxFaults = 3
  MaxAttach = 0
INVARIANTS
  NoLostSend
PROPERTIES
  ImplementsDurableLog
CHECK_DEADLOCK FALSE
