SPECIFICATION FairSpec
CONSTANTS
  m1 = m1
  m2 = m2
  m3 = m3
  chatA = chatA
  chatB = chatB
  Msgs = {m1, m3}
  Chats = {chatA, chatB}
  ChatOf <- TwoChats
  MaxAttempts = 2
  TickLimit = 2
  Bound <- UnackedBound
  MaxEvents = 1
PROPERTIES
  EventuallySettled
CHECK_DEADLOCK FALSE
