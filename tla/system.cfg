CONSTANTS
  erp = erp
  None = None
  App <- OneApp
  Created <- AtZero
  Day = 3
  Interval <- Daily
  Calendar <- TwiceDaily
  Horizon = 8
  Time <- Instants
  MaxOutage = 1
  MaxDeaf = 2
SPECIFICATION Spec
CHECK_DEADLOCK FALSE
INVARIANTS
  TypeOK
  EveryRunAccounted
  FailureDetected
