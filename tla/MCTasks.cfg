SPECIFICATION Spec
CONSTANTS
  Work = {w1, w2}
  Upload = {u1, u2}
  Handler = {h1, h2}
  None = None
SYMMETRY MCSymmetry
INVARIANTS ListedAreConsumed SubmissionsAreListed SpentWasSubmitted
PROPERTIES CompletedByDecision
