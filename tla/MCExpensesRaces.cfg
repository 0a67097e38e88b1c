\* Two overlapping slots, one invoice and one purchase, one code of a purchase's
\* own.  The system may stop: account ids run out.
CHECK_DEADLOCK FALSE
SPECIFICATION Spec
CONSTANTS
  Expense = {x1, x2}
  Document = {inv1, pur1}
  Keyed = {inv1}
  Amount = {1, 2}
  Account = {a1, a2}
  Code = {c4000, cother}
  Hook = {c4000}
  Entry = {e1, e2}
  Caller = {p1, p2}
  Blank = Blank
  None = None
SYMMETRY MCSymmetry
CONSTRAINT RenameBound
 
PROPERTIES AutoEntriesReadOnly
