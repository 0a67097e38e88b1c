----------------------------- MODULE MCInvoices -----------------------------
(* Instances of Invoices for TLC.  Invoices, uploads and handlers are       *)
(* interchangeable model values, so the safety runs use their symmetry.      *)
EXTENDS Invoices, TLC

MCSymmetry == Permutations(Invoice) \cup Permutations(Upload) \cup Permutations(Handler)
=============================================================================
