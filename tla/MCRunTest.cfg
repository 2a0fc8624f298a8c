SPECIFICATION FairSpec
CONSTANTS
  Senders = {s1}
  Contract = s1
  Machines = {t1, t2, t3, t4, t5, t6, t7}
  FirstPublicId = 3
  MaxFaults = 3
ACTION_CONSTRAINT TakeOne
INVARIANTS
  TypeOK
  FailureExplained
  PassesOnOwnUpdate
PROPERTIES
  EventuallyPasses
