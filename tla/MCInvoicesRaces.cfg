\* Two invoices, two proof files and two overlapping activities.
SPECIFICATION Spec
CONSTANTS
  Invoice = {i1, i2}
  Upload = {u1, u2}
  Total = {1}
  Handler = {h1, h2}
  None = None
SYMMETRY MCSymmetry
INVARIANTS PaidWasConfirmed ProofsAreConsumed UploadCitedOnce
PROPERTIES CurrentFollowsLifecycle
