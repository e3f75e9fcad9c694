CONSTANTS
  crm = crm
  crmKey = crmKey
  oldKey = oldKey
  q1 = q1
  q2 = q2
  None = None
  App <- OneApp
  Key <- Keys
  KeyOwner <- Owner
  Req <- TwoReqs
  Time <- Instants
  Elapsed <- Spans
  CommitFirst = TRUE
SPECIFICATION Spec
CHECK_DEADLOCK FALSE
INVARIANTS
  TypeOK
  AckedIsOnRecord
  CommittedIsCounted
PROPERTY KeepsPromise
