-------------------------- MODULE DocumentNumbers ---------------------------
(***************************************************************************)
(* INV-YYYY-NNNN, PO-..., QUO-... and TKT-...: how the create() methods of *)
(* invoices, purchases, quotations and tickets number a new document.      *)
(*                                                                         *)
(* The number is MAX over the stored numbers plus one, read through the    *)
(* repository and so on a connection of its own, also when create() runs   *)
(* in a transaction that already holds one.  MAX compares strings padded   *)
(* to four digits.  A unique index refuses a number that is taken.         *)
(*                                                                         *)
(* External: the MySQL pool hands out Pool connections (mysql2's default,  *)
(* the configuration sets none) and queues who asks for more, without a    *)
(* timeout and first come first served.                                    *)
(***************************************************************************)
EXTENDS Integers, FiniteSets

CONSTANTS
  Series,    \* a kind of document and a year
  InTx,      \* the series whose create() opens a transaction: all but tickets
  Handler,   \* slots for requests that create documents
  Pool,      \* connections of the pool
  Base,      \* of the numerals: 10
  Wrap,      \* the first number that needs one more digit: 10000
  Limit,     \* bound: no create() starts that could get a higher number
  None

ASSUME NumbersAssumption == /\ InTx \subseteq Series
                            /\ Pool \in Nat \ {0}
                            /\ Base \in Nat \ {0} /\ Wrap \in Nat /\ Limit \in Nat
                            \* the numerals have at most two widths
                            /\ Limit < Wrap * Base

VARIABLES
  numbers,    \* the numbers of the stored documents of each series
  create,     \* the create() a handler is in
  overlapped  \* history: another create() stored a document during this one

numberVars == <<numbers, create, overlapped>>

Creation == [series : Series, step : {"number", "insert"}, n : 0 .. Limit]

Creating(h) == create[h] # None
At(h, step) == Creating(h) /\ create[h].step = step
Holds(h) == Creating(h) /\ create[h].series \in InTx

Held == Cardinality({h \in Handler : Holds(h)})

\* A connection is free for one more query or transaction.
Connection == Held < Pool

\* String order of the padded numerals; a longer one starts with m \div Base.
Before(m, n) == CASE m < Wrap /\ n >= Wrap -> m <= n \div Base
                  [] m >= Wrap /\ n < Wrap -> m \div Base < n
                  [] OTHER -> m < n

\* Slip: the stored documents are counted instead.
NextByCount(s) == Cardinality(numbers[s]) + 1

\* SELECT MAX(number), parse its last part, add one.
NextNumber(s) ==
  IF numbers[s] = {} THEN 1
  ELSE 1 + CHOOSE m \in numbers[s] : \A n \in numbers[s] \ {m} : Before(n, m)

Init == /\ numbers = [s \in Series |-> {}]
        /\ create = [h \in Handler |-> None]
        /\ overlapped = [h \in Handler |-> FALSE]

WithinLimit(s) ==
  LET mine == {h \in Handler : Creating(h) /\ create[h].series = s}
  IN  \A n \in numbers[s] \cup {create[h].n : h \in mine} :
        n + Cardinality({h \in mine : At(h, "number")}) < Limit

Begin(h, s) ==
  /\ ~Creating(h)
  /\ s \in InTx => Connection
  /\ WithinLimit(s)
  /\ create' = [create EXCEPT ![h] = [series |-> s, step |-> "number", n |-> 0]]
  /\ overlapped' = [overlapped EXCEPT ![h] = FALSE]
  /\ UNCHANGED numbers

Number(h) ==
  /\ At(h, "number") /\ Connection
  /\ create' = [create EXCEPT ![h].step = "insert",
                              ![h].n = NextNumber(create[h].series)]
  /\ UNCHANGED <<numbers, overlapped>>

CanInsert(h) == At(h, "insert") /\ (Holds(h) \/ Connection)
Ends(h) == create' = [create EXCEPT ![h] = None]

\* The insert and, in a transaction, its commit.
Insert(h) ==
  LET s == create[h].series
  IN  /\ CanInsert(h)
      /\ create[h].n \notin numbers[s]
      /\ numbers' = [numbers EXCEPT ![s] = @ \cup {create[h].n}]
      /\ Ends(h)
      /\ overlapped' = [g \in Handler |->
                          overlapped[g] \/ (Creating(g) /\ create[g].series = s)]

\* Slip: a duplicate number is tried again instead of failing the request.
RejectAndRetry(h) ==
  /\ CanInsert(h) /\ create[h].n \in numbers[create[h].series]
  /\ UNCHANGED numberVars

\* ER_DUP_ENTRY: the transaction rolls back and the request fails.
Reject(h) ==
  /\ CanInsert(h) /\ create[h].n \in numbers[create[h].series]
  /\ Ends(h)
  /\ UNCHANGED <<numbers, overlapped>>

\* A document is deleted: the number is free again.
Delete(s, n) ==
  /\ Connection /\ n \in numbers[s]
  /\ numbers' = [numbers EXCEPT ![s] = @ \ {n}]
  /\ UNCHANGED <<create, overlapped>>

Restart == /\ create' = [h \in Handler |-> None]
           /\ UNCHANGED <<numbers, overlapped>>

Next == \/ \E h \in Handler : \/ \E s \in Series : Begin(h, s)
                              \/ Number(h) \/ Insert(h) \/ Reject(h)
        \/ \E s \in Series : \E n \in numbers[s] : Delete(s, n)
        \/ Restart

\* The pool serves its queue in order, so who waits for a connection gets one if
\* connections keep coming back.
Fairness == \A h \in Handler : /\ SF_numberVars(Number(h))
                               /\ SF_numberVars(Insert(h) \/ Reject(h))

SafeSpec == Init /\ [][Next]_numberVars
Spec == SafeSpec /\ Fairness

-----------------------------------------------------------------------------
TypeOK == /\ numbers \in [Series -> SUBSET (1 .. Limit)]
          /\ create \in [Handler -> Creation \cup {None}]
          /\ overlapped \in [Handler -> BOOLEAN]

\* A create() fails on a duplicate number only if another one stored a document
\* of its series meanwhile, or it got the first number of five digits, which MAX
\* never sees: deletions, which leave gaps and free numbers, do not make it fail.
RejectedForOverlap ==
  [][\A h \in Handler : Reject(h) =>
       overlapped[h] \/ create[h].n >= Wrap]_numberVars

\* All connections are held by transactions that wait for one more.
PoolHeld == /\ ~Connection
            /\ \A h \in Handler : Holds(h) => At(h, "number")

\* Every create() comes to an end, stored or refused, unless the transactions
\* of concurrent ones take up the whole pool and wait for each other for good.
CreatesFinish == \A h \in Handler : Creating(h) ~> ~Creating(h) \/ PoolHeld
=============================================================================
