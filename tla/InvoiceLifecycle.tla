-------------------------- MODULE InvoiceLifecycle --------------------------
(***************************************************************************)
(* What the invoices service promises about the life of an invoice, as the *)
(* class comment of InvoicesService words it: an invoice is issued UNPAID, *)
(* is confirmed PAID by staff, falls OVERDUE by the daily sweep, and may   *)
(* be deleted only while UNPAID.  PAID has no way out.                     *)
(*                                                                         *)
(* Invoices implements this specification as long as requests and sweeps   *)
(* do not overlap (see Invoices and InvoicesProofs).                       *)
(***************************************************************************)
CONSTANT Invoice

VARIABLE status

States == {"none", "UNPAID", "OVERDUE", "PAID", "deleted"}

Init == status = [i \in Invoice |-> "none"]

Issue(i) == /\ status[i] = "none"
            /\ status' = [status EXCEPT ![i] = "UNPAID"]

Confirm(i) == /\ status[i] \in {"UNPAID", "OVERDUE"}
              /\ status' = [status EXCEPT ![i] = "PAID"]

Delete(i) == /\ status[i] = "UNPAID"
             /\ status' = [status EXCEPT ![i] = "deleted"]

\* One run of the daily job moves a whole set of unpaid invoices.
FallDue(late) == /\ \A i \in late : status[i] = "UNPAID"
                 /\ status' = [i \in Invoice |->
                                 IF i \in late THEN "OVERDUE" ELSE status[i]]

Next == \/ \E i \in Invoice : Issue(i) \/ Confirm(i) \/ Delete(i)
        \/ \E late \in SUBSET Invoice : FallDue(late)

Spec == Init /\ [][Next]_status
=============================================================================
