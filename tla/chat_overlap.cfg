\* Neon answers slower than the flush timer fires; nothing fails.
SPECIFICATION Spec
CONSTANTS
  alice = alice
  bob = bob
  m1 = m1
  m2 = m2
  m3 = m3
  f1 = f1
  f2 = f2
  NoMsg = NoMsg
  Users <- MCUsers
  Members <- MCUsers
  Msgs = {m1, m2, m3}
  Sender <- MCSender
  Flushes = {f1, f2}
  MaxSends = 3
  MaxCopies = 1
  MaxCrashes = 0
  MaxLost = 0
  MaxFails = 0
  MaxFaults = 1
  MaxAttach = 0
INVARIANTS
  NoLostSend
CHECK_DEADLOCK FALSE
