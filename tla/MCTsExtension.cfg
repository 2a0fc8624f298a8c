SPECIFICATION FairSpec
CONSTANTS
  m1 = m1  m2 = m2  m3 = m3  m4 = m4  m5 = m5
  Messages <- MCMessages
  Plaintexts <- MCPlaintexts
  Decrypt <- MCDecrypt
  KeyLen = 1
  Order = 3
  Calls = {1, 2, 3}
  NoCall = NoCall
  Offered <- AllRequests
  MaxRestarts = 1
ACTION_CONSTRAINT Bounded
INVARIANTS
  UpdatesInArrivalOrder
PROPERTIES
  EveryCallEndsUnlessWedged
  WedgedUntilRestart
  ImplementsRegister
CHECK_DEADLOCK FALSE
