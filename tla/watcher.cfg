CONSTANTS
  crm = crm
  erp = erp
  None = None
  App <- TwoApps
  Faults <- AllFaults
  MaxFaults = 2
  MaxChange = 2
SPECIFICATION Spec
INVARIANTS
  TypeOK
  OncePerIncident
  SilenceIsTried
PROPERTY BadNewsArrives
