\* Two requests, a pool of two connections, an invoice and a ticket series; the
\* numerals 1 and 2 have one digit and 3 = "10" is the first with two.
SPECIFICATION Spec
CONSTANTS
  Series = {inv, tkt}
  InTx = {inv}
  Handler = {h1, h2}
  Pool = 2
  Base = 3
  Wrap = 3
  Limit = 4
  None = None
PROPERTIES CreatesFinish
