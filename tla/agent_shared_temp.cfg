CONSTANTS
  pg = pg
  my = my
  own = own
  t1 = t1
  t2 = t2
  k1 = k1
  k2 = k2
  k3 = k3
  None = None
  CommitFirst = TRUE
  Job <- TwoJobs
  MySQL <- S3Jobs
  Temp <- Temps
  Key <- Keys
  KeyOf <- OwnKey
  TempOf <- OneTemp
  S3 <- NoJobs
SPECIFICATION Spec
CHECK_DEADLOCK FALSE
INVARIANT ChecksumHolds
