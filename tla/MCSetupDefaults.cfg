SPECIFICATION Spec
CONSTANTS
  Senders = {s1}
  Machines = {t1, t2}
  Addresses = {"deployer", "other", "dev", "compose"}
  DevAccount = "dev"
  ComposeOwner = "compose"
  DotEnvs <- AllDotEnvs
  FirstPublicId = 3
  MaxFaults = 0
  Environments <- Settings
ACTION_CONSTRAINT TakeOne
INVARIANTS
  DefaultsAgree
CHECK_DEADLOCK FALSE
