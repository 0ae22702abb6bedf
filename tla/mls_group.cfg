SPECIFICATION MlsSpec
CONSTANTS
  alice = alice
  bob = bob
  carol = carol
  None = None
  Devices = {alice, bob, carol}
  Founder = alice
  MaxEvents = 3
  PageMax = 2
  Ticks <- MCTicks
  TopUps = {1, 2}
  Target = 2
  Threshold = 1
  Cap = 3
  BatchMax = 1
  MaxKeys = 7
  MaxTroubles = 1
  MaxTaken = 1
INVARIANTS
  TypesOK
  OneHistory
  CursorBacked
  TreeFollowsRoster
  PoolIsSound
PROPERTIES
  DevicesConverge
  KeysAreStocked
CHECK_DEADLOCK FALSE
