CONSTANTS
  crm = crm
  erp = erp
  None = None
  App <- TwoApps
  Window <- Windows
  Day = 2
  Horizon = 6
  MaxFiles = 3
  MaxReboot = 1
SPECIFICATION Spec
CHECK_DEADLOCK FALSE
INVARIANTS
  TypeOK
  RecentIsOnDisk
  NightClears
