CONSTANTS
  erp = erp
  None = None
  App <- OneApp
  Created <- AtZero
  Day = 3
  Interval <- Daily
  Calendar <- TwiceDaily
  Horizon = 8
  Time <- Instants
  MaxOutage = 0
  MaxDeaf = 1
SPECIFICATION Spec
CHECK_DEADLOCK FALSE
INVARIANT IncidentAlerted
