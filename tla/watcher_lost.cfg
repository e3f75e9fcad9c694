CONSTANTS
  crm = crm
  erp = erp
  None = None
  App <- OneApp
  Faults <- OnlyWebhook
  MaxFaults = 1
  MaxChange = 3
SPECIFICATION Spec
INVARIANT SilenceIsEarned
