SPECIFICATION Spec
CONSTANTS
  m1 = m1
  h1 = h1
  h2 = h2
  NoMessage = NoMessage
  NoRow = NoRow
  Message = {m1}
  Handler = {h1, h2}
  Required = 1
PROPERTY TakeoverLasts
CHECK_DEADLOCK FALSE
