SPECIFICATION FairSpec
CONSTANTS
  Tees = {t1}
  Commands <- PostBuild
  Resumes <- ResumeOnly
  MaxFaults = 1
  MaxReruns = 0
PROPERTIES
  ResumeCompletes
CHECK_DEADLOCK FALSE
