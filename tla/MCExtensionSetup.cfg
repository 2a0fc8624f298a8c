SPECIFICATION FairSpec
CONSTANTS
  Senders = {s1, s2, s3}
  Machines = {t1, t2, t3, t4, t5}
  Addresses = {"deployer", "other", "dev", "compose"}
  DevAccount = "dev"
  ComposeOwner = "compose"
  DotEnvs <- AllDotEnvs
  FirstPublicId = 3
  MaxFaults = 2
  Environments <- Settings
ACTION_CONSTRAINT TakeOne
INVARIANTS
  TypeOK
  ConfigComplete
  CachedIdIsConfigured
  NoOrphan
  CachedIdIsFirst
  CleanReportMeansAgreement
  PublishedConfigPasses
  VerdictExplains
  QuickFixWorks
PROPERTIES
  EventuallyReachable
CHECK_DEADLOCK FALSE
