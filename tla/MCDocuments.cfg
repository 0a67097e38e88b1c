\* One quotation, one contract and one linked document; two offers, two texts,
\* and everywhere two overlapping activities.  Two invoices and two contracts
\* let a quotation be converted twice.  The numerals 1 and 2 have one digit, 3 = "10"
\* is the first with two.
SPECIFICATION DocumentsSpec
CONSTANTS
  Quotation = {q1}
  Terms = {t1, t2}
  Invoice = {i1, i2}
  Contract = {c1, c2}
  Paper = {p1}
  Body = {1, 2}
  Doc = {d1}
  Token = {k1, k2, k3}
  Horizon = 2
  Series = {inv, tkt}
  InTx = {inv}
  Pool = 2
  Base = 3
  Wrap = 3
  Limit = 4
  Handler = {h1, h2}
  None = None
SYMMETRY Symmetry
CONSTRAINT HollowBound
INVARIANTS DecidedOnSentTerms MadeWasAgreed ConvertedIsWhole InvoicedOnce
           DecidedOnSentText StoredCopyWasSigned SignedGetsItsCopy
PROPERTIES QuotationLifecycle ContractLifecycle ClosedStaysClosed OpenStaysOpen
           RejectedForOverlap
