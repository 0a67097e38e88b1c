----------------------------- MODULE LedgerBook -----------------------------
(***************************************************************************)
(* What the accounting service promises about documents: "a document can   *)
(* only ever post one ledger row" (LedgerEntry), and a posted row stays.   *)
(***************************************************************************)
CONSTANTS Source,  \* documents that post to the ledger
          Entry    \* ledger rows

VARIABLE book      \* the rows each document has posted

Init == book = [s \in Source |-> {}]

Post(s, e) == /\ book[s] = {}
              /\ book' = [book EXCEPT ![s] = {e}]

Next == \E s \in Source, e \in Entry : Post(s, e)

Spec == Init /\ [][Next]_book
=============================================================================
