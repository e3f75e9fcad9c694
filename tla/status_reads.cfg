CONSTANTS
  crm = crm
  erp = erp
  r1 = r1
  None = None
  App <- TwoApps
  Created <- CreatedAt
  Interval <- Every
  Reader <- OneReader
  Time <- Instants
  MaxRuns = 3
SPECIFICATION Spec
INVARIANTS
  TypeOK
  StatusLinearizable
  HealthDeserved
PROPERTY ReadsAreAtomic
