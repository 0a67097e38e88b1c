----------------------------- MODULE MCExpenses -----------------------------
(* Instances of Expenses for TLC.                                            *)
EXTENDS Expenses, TLC

MCSymmetry == Permutations(Expense) \cup Permutations(Account)
              \cup Permutations(Entry) \cup Permutations(Caller)

\* Bound: one account is renamed at a time, and a run has renames or a stop.
Renaming == {p \in Caller : L!At(p, "rename")}
RenameBound == /\ \A p, q \in Renaming : p = q
               /\ crashed => Renaming = {} /\ ~renamed
=============================================================================
