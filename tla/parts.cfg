SPECIFICATION PartsSpec
CONSTANTS
  u1 = u1
  u2 = u2
  c1 = c1
  c2 = c2
  w1 = w1
  Chats = {c1, c2}
  Written = {w1}
  ChatOf <- MCChatOf
  MaxRows <- MCMaxRows
  MaxRetries = 1
  MaxRestarts = 1
  Sockets = {1, 2}
  Timers = {1, 2}
  MaxAwaiting = 2
  Accounts = {u1, u2}
  Legacy = {u1}
  Opens = {1, 2}
  Readers = {1, 2}
  MaxSwitches = 3
  MaxMishaps = 1
  Nobody = Nobody
  People = {u1, u2}
  Attempts <- MCAttempts
  MaxPivots = 3
  NoPerson = NoPerson
  Owners = {u1, u2}
  Boots = {1, 2}
  Saves = {1, 2}
  MaxChanges = 2
  MaxTurns = 1
  NoOwner = NoOwner
  MaxTaps = 3
  MaxTries = 2
  MaxUpsets = 1
  Few <- MCFew
  Singles <- MCSingles
  Pushed <- MCPushed
  Epochs = {1, 2}
  Tolerance = 1
  Extensions = {1}
  MaxPushes = 2
  MaxCopies = 1
  Visitors = {1, 2}
  MaxLaunches = 3
  MaxSerial = 3
  EpochOf <- MCEpochOf
  Own = {1}
  PageSize = 2
  HydrateLimit = 2
  Holders = {u1, u2}
  Senders = {1}
  Openers = {2}
  Inbound <- MCInbound
  MaxSlips = 1
  MaxShifts = 1
  Runs = {1, 2}
  MaxJolts = 2
  Calls = {1, 2}
  Editions <- MCEditions
  Ttl = 0
  MaxTime = 1
  MaxFaults = 1
  Passes = {1, 2}
  MaxLosses = 1
  Viewers = {u1, u2}
  Conversations = {1, 2}
  EveryonesChats = {1}
  ListLimit = 1
  Fetches = {1, 2}
  MaxAsked = 3
  MaxEdits = 1
  MaxVisits = 2
  NoViewer = NoViewer
INVARIANTS
  TypesOK
  CursorCovers
  ConsumedIsKept
  SeenIsTrue
  FramesAreReadRight
  OpenIsUsable
  ClosedIsQuiet
  OneAccountAtATime
  DeviceIsRegistered
  SealedIsOpened
  LobbyIsSound
PROPERTIES
  ReceiveCatchesUp
CHECK_DEADLOCK FALSE
