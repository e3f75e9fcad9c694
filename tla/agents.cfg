CONSTANTS
  pg = pg
  my = my
  own = own
  t1 = t1
  t2 = t2
  k1 = k1
  k2 = k2
  k3 = k3
  None = None
  CommitFirst = TRUE
  Job <- ThreeJobs
  MySQL <- S3Jobs
  Temp <- Temps
  Key <- Keys
  KeyOf <- ThreeKeys
  TempOf <- TempShared
  S3 <- S3Jobs
SPECIFICATION Spec
CHECK_DEADLOCK FALSE
INVARIANTS
  TypeOK
  SuccessIntact
  ExitZeroRecorded
  LocalSuccessLeavesNothing
PROPERTY ImplementsCatalog
