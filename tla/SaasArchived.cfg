\* One tenant, two jobs, one callback at a time.
SPECIFICATION Spec
CONSTANTS
  Tenant = {t1}
  Jobs = 2
  Batch = 2
  Request = {"PROVISION", "ARCHIVE"}
  Asking = 1
  MaxAttempts = 2
  Caller = {c1}
  None = None

PROPERTIES ArchivedIsTerminal
