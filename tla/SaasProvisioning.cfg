\* One tenant, two jobs, one callback at a time.
SPECIFICATION Spec
CONSTANTS
  Tenant = {t1}
  Jobs = 2
  Batch = 2
  Request = {"SUSPEND"}
  Asking = 1
  MaxAttempts = 2
  Caller = {c1}
  None = None
INVARIANTS CallsBounded RunningHasWorker StatusWasReported
PROPERTIES JobsSettle
