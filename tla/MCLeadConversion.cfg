SPECIFICATION ConversionSpec
CONSTANTS
  m1 = m1
  m2 = m2
  h1 = h1
  h2 = h2
  c1 = c1
  c2 = c2
  NoMessage = NoMessage
  NoRow = NoRow
  Message = {m1, m2}
  Handler = {h1, h2}
  Clerk = {c1}
  a1 = a1
  Admin = {a1}
  Required = 1
INVARIANT OneReplyComposed
INVARIANT MarkedWasAnswered
INVARIANT QualifiedIsComplete
INVARIANT PromotedHasRecord
SYMMETRY Symmetry
CHECK_DEADLOCK FALSE
