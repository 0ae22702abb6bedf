\* The chat's object with overlapping flushes and every kind of fault, and the other
\* components of the server.
SPECIFICATION ServerSpec
CONSTANTS
  ApnsTokens = {1}
  FcmTokens = {2}
  Dispatches = {1}
  MaxClients = 2
  MaxBlips = 1
  MaxMoves = 3
  alice = alice
  bob = bob
  m1 = m1
  m2 = m2
  m3 = m3
  f1 = f1
  f2 = f2
  NoMsg = NoMsg
  Users <- MCUsers
  Members <- MCUsers
  Msgs <- TwoMsgs
  Sender <- TwoSender
  Flushes = {f1, f2}
  MaxSends = 2
  MaxCopies = 2
  MaxCrashes = 1
  MaxLost = 1
  MaxFails = 1
  MaxFaults = 1
  MaxAttach = 0
  carol = carol
  c1 = c1
  c2 = c2
  Persons <- MCPersons
  Callers = {alice, bob}
  Asked <- MCAsked
  MaxChats = 2
  MaxCalls = 2
  MaxEdits = 1
  Devices = {1, 2}
  Rooms = {1, 2}
  Handlers = {1, 2}
  MaxFrames = 1
  MaxRpcFaults = 1
  Authors <- MCAuthors
  Reached = {alice, bob}
  MaxOutages = 1
  MaxToggles = 2
  Addressees = {alice, bob}
  Peers = {1, 2}
  Signallers = {1}
  Relays = {1, 2}
  MemberTtl = 1
  TypingTtl = 1
  MaxRead = 2
  MaxRosters = 1
  Verifies = {1, 2}
  CacheTtl = 1
  ExpiresIn = 2
  UpdateAge = 1
  MaxNow = 3
  Citizens = {alice, bob}
  AllMarks <- MCMarks
  CommentsShown = 1
  AllFollows <- MCFollows
  Targets = {1, 2, 3}
  Inquiries = {1, 2}
  PerHour = 1
  MaxSlips = 1
SYMMETRY SlotSymmetry
INVARIANTS
  TypesOK
  SentIsDurable
  DenseSerials
  KvNeverAhead
  DirectoryIsSound
  ConnectedIsAttached
  PushesArrive
  SignalsAreSound
  SessionsAreHonoured
  AccountsAreSound
PROPERTIES
  LinkIsSetOnce
CHECK_DEADLOCK FALSE
