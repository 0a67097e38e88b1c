--------------------------- MODULE InvoiceIncome ----------------------------
(***************************************************************************)
(* From a confirmed payment to the ledger: the invoices service with the   *)
(* expenses and accounting services it calls.                              *)
(*                                                                         *)
(* markAsPaid saves the invoice and calls createFromPaidInvoice without    *)
(* awaiting it (invoices.service.ts); deleting an invoice clears the       *)
(* invoice_id of its income entry.  A slot that has started a hook is busy *)
(* until the posting is done: slots stand for whatever runs concurrently.  *)
(***************************************************************************)
EXTENDS Invoices

CONSTANTS Expense, Account, Code, Hook, Entry, Blank

VARIABLES expenses, spent, work, origin,
          accounts, ledger, used, call, renamed, dropped, crashed,
          lost   \* history: some save or sweep went by an outdated copy

\* Expenses sees of the invoices only which of them exist.
E == INSTANCE Expenses WITH Document <- Invoice, Keyed <- Invoice, Amount <- Total,
                            Caller <- Handler, docs <- {i \in Invoice : Exists(i)}

ASSUME IncomeAssumption == None \notin Invoice \cup E!ExpenseRow \cup E!HookWork

bookVars == <<expenses, spent, work, origin,
              accounts, ledger, used, call, renamed, dropped, crashed>>
incomeVars == <<vars, bookVars, lost>>

IncomeInit == Init /\ E!EmptyBooks /\ lost = FALSE

\* A request or sweep that the books do not notice.
Plain(h) == /\ \/ (Load(h) \/ Overdue(h)) /\ E!Idle(h)
               \/ Write(h)
            /\ UNCHANGED bookVars

IssueInvoice == (\E i \in Invoice, t \in Total : Create(i, t)) /\ UNCHANGED bookVars

\* Slip: markAsPaid does not call the hook.
ConfirmUnbooked(h) == MarkPaidSave(h) /\ UNCHANGED bookVars

\* markAsPaid: save, then `void this.expensesService.createFromPaidInvoice`.
Confirm(h) ==
  /\ MarkPaidSave(h)
  /\ work' = [work EXCEPT ![h] = [step |-> "check", doc |-> task[h].inv,
                                  amount |-> task[h].row.total]]
  /\ UNCHANGED <<expenses, spent, origin,
                 accounts, ledger, used, call, renamed, dropped, crashed>>

DeleteInvoice(h) ==
  /\ RemoveDelete(h)
  /\ E!DocDeleted(task[h].inv)

\* The hook at work; when it fails on a deleted invoice the process ends, and
\* with it every request in flight.
BookStep(h) ==
  \/ UNCHANGED vars /\ E!HookCheck(h)
  \/ UNCHANGED vars /\ \E e \in Expense, c \in Hook : E!HookSave(h, e, c)
  \/ UNCHANGED vars /\ E!Posting(h)
  \/ Crash /\ E!HookFails(h)

Stop == Crash /\ E!Restart

Running == \/ IssueInvoice
           \/ \E h \in Handler : \/ Plain(h) \/ Confirm(h) \/ DeleteInvoice(h)
                                 \/ BookStep(h)

\* This step writes what a handler loaded although the row has changed, confirms
\* what somebody else has confirmed, or sweeps an invoice that is not UNPAID.
Outdated ==
  \E h \in Handler :
    \/ /\ task[h] # None /\ task'[h] = None /\ Stale(h)
       /\ table' # table \/ task[h].op = "markPaid"
    \/ sweep'[h] # sweep[h] /\ \E i \in sweep[h] : Exists(i) /\ ~Unpaid(i)

IncomeNext == \/ Running /\ lost' = (lost \/ Outdated)
              \/ Stop /\ lost' = lost

\* What the event loop guarantees: a promise whose await is over goes on.
Fairness == \A h \in Handler : WF_<<vars, bookVars>>(BookStep(h))

IncomeSpec == IncomeInit /\ [][IncomeNext]_incomeVars /\ Fairness

-----------------------------------------------------------------------------
Booked(i) == \E e \in Expense : origin[e] = i /\ E!L!Posted(e) # {}

\* The amount booked for a paid invoice is the amount of the invoice, unless an
\* outdated copy was saved: nothing else changes a total once it is confirmed.
IncomeMatchesInvoice ==
  ~lost => \A e \in Expense :
    LET i == origin[e]
    IN  /\ i # None /\ E!Stays(e) /\ expenses[e].doc = i
        /\ Exists(i) /\ table[i].status = "PAID"
        => expenses[e].amount = table[i].total

\* "Idempotent: checks invoiceId uniqueness before creating": no two income
\* entries are made for one invoice, unless confirmations of it overlapped or an
\* outdated copy made it payable again.
OneIncomePerInvoice == ~lost => E!OneEntryPerDocument

\* Every confirmation is booked in the end, unless the process stops first.
ConfirmationsGetBooked ==
  \A i \in Invoice : i \in confirmed ~> Booked(i) \/ crashed
=============================================================================
