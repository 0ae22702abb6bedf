\* No crash, no lost answer, no overlap: one failed call, which the retry covers.
SPECIFICATION FairSpec
CONSTANTS
  alice = alice
  bob = bob
  m1 = m1
  m2 = m2
  m3 = m3
  f1 = f1
  f2 = f2
  NoMsg = NoMsg
  Users <- MCUsers
  Members <- MCUsers
  Msgs = {m1, m2, m3}
  Sender <- MCSender
  Flushes = {f1}
  MaxSends = 3
  MaxCopies = 1
  MaxCrashes = 0
  MaxLost = 0
  MaxFails = 1
  MaxFaults = 1
  MaxAttach = 2
INVARIANTS
  ExactlyOnce
PROPERTIES
  FlushDrains
CHECK_DEADLOCK FALSE
