SPECIFICATION FairSpec
CONSTANTS
  Tees = {t1, t2}
  Commands <- AllCommands
  Resumes = {TRUE, FALSE}
  MaxFaults = 2
  MaxReruns = 1
CONSTRAINT FirstTee
INVARIANTS
  TypeOK
  StateFileTruthful
  CheckUsesOwnAttestation
  SuccessMeansProduction
PROPERTIES
  EventuallyInProduction
CHECK_DEADLOCK FALSE
