SPECIFICATION Spec
CONSTANTS
  m1 = m1
  m2 = m2
  m3 = m3
  chatA = chatA
  chatB = chatB
  Msgs = {m1, m2}
  Chats = {chatA}
  ChatOf <- OneChat
  MaxAttempts = 2
  TickLimit = 2
  Bound <- PathBound
  MaxEvents = 4
SYMMETRY Symmetry
INVARIANTS
  TypeOK
  NothingLost
  SentIsStored
  GenerationOrder
  DeadIsShown
CHECK_DEADLOCK FALSE
