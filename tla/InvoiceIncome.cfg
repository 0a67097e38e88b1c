\* Two overlapping activities on one invoice of two possible totals.
SPECIFICATION IncomeSpec
CONSTANTS
  Invoice = {i1}
  Upload = {}
  Total = {1, 2}
  Handler = {h1, h2}
  Expense = {x1, x2}
  Entry = {e1, e2}
  Account = {a1}
  Code = {c4000}
  Hook = {c4000}
  Blank = Blank
  None = None
INVARIANTS IncomeMatchesInvoice OneIncomePerInvoice
PROPERTIES ConfirmationsGetBooked
