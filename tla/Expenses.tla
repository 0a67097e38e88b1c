------------------------------ MODULE Expenses ------------------------------
(***************************************************************************)
(* handla-backend/src/modules/expenses/expenses.service.ts                 *)
(*                                                                         *)
(* Income and expense entries.  Marking an invoice or a purchase as paid   *)
(* calls createFromPaidInvoice / createFromPaidPurchase without awaiting   *)
(* it: look for an entry of that document, save one if there is none, and  *)
(* post it to the ledger, again without awaiting.  The ledger is an        *)
(* instance of Ledger whose documents are the expenses, with its chart of  *)
(* accounts; one slot carries a request or a hook through both services.   *)
(*                                                                         *)
(* External: the invoice_id column is a foreign key, cleared when the      *)
(* invoice is deleted; purchase_id is a plain column.  Neither is unique.  *)
(***************************************************************************)
EXTENDS Naturals

CONSTANTS
  Expense,   \* expense ids
  Document,  \* invoices and purchases that can be paid
  Keyed,     \* the documents referred to by a foreign key: the invoices
  Amount,
  Account, Code, Hook, Entry, Caller, Blank, None

VARIABLES
  docs,      \* the documents that exist
  expenses,  \* expenses: id -> row
  spent,     \* expense ids already generated
  work,      \* what a slot does in this service
  origin,    \* history: the document an entry was made for
  accounts, ledger, used, call, renamed, dropped, crashed

L == INSTANCE Ledger WITH Source <- Expense

ExpenseRow == [doc : Document \cup {None}, amount : Amount]

\* A hook checks for an entry, then saves one; an edit holds what it loaded.
HookWork == [step : {"check", "save"}, doc : Document, amount : Amount]
EditWork == [step : {"edit"}, exp : Expense, row : ExpenseRow]

ASSUME ExpensesAssumption == /\ None \notin ExpenseRow \cup HookWork \cup EditWork
                             /\ None \notin Document /\ Keyed \subseteq Document
                             /\ None \notin L!AccountRow \cup L!LedgerRow \cup L!Call
                             /\ Hook \subseteq Code

entryVars == <<expenses, spent, origin>>
ledgerVars == <<accounts, ledger, used, call, renamed, dropped, crashed>>
expensesVars == <<docs, entryVars, work, ledgerVars>>

Idle(p) == work[p] = None /\ L!Idle(p)
At(p, step) == work[p] # None /\ work[p].step = step
Stays(e) == expenses[e] # None
EntriesOf(d) == {e \in Expense : Stays(e) /\ expenses[e].doc = d}

EmptyBooks == /\ expenses = [e \in Expense |-> None]
              /\ spent = {}
              /\ work = [p \in Caller |-> None]
              /\ origin = [e \in Expense |-> None]
              /\ L!Init

Init == docs = Document /\ EmptyBooks

\* repository.save of a new entity, then `void this.postToLedger(saved)`,
\* whose first step is record()'s lookup.
SaveAndPost(p, e, d, m, c) ==
  /\ e \notin spent
  /\ spent' = spent \cup {e}
  /\ expenses' = [expenses EXCEPT ![e] = [doc |-> d, amount |-> m]]
  /\ origin' = [origin EXCEPT ![e] = d]
  /\ L!RecordLookup(p, e, c)

-----------------------------------------------------------------------------
(* The hooks of markAsPaid.                                                  *)

HookStart(p, d, m) ==
  /\ Idle(p)
  /\ work' = [work EXCEPT ![p] = [step |-> "check", doc |-> d, amount |-> m]]
  /\ docs' = docs /\ UNCHANGED <<entryVars, ledgerVars>>

HookCheck(p) ==
  /\ At(p, "check")
  /\ work' = IF EntriesOf(work[p].doc) = {} THEN [work EXCEPT ![p].step = "save"]
             ELSE [work EXCEPT ![p] = None]
  /\ docs' = docs /\ UNCHANGED <<entryVars, ledgerVars>>

\* The account: services income for an invoice; for a purchase the code entered
\* with it, which nobody looks up in the chart, or else other expense.
HookSave(p, e, c) ==
  /\ At(p, "save")
  /\ work[p].doc \in Keyed => work[p].doc \in docs /\ c \in Hook
  /\ SaveAndPost(p, e, work[p].doc, work[p].amount, c)
  /\ work' = [work EXCEPT ![p] = None]
  /\ docs' = docs

\* The process stops; nothing in flight survives and nothing is taken up again.
Restart ==
  /\ L!Restart
  /\ work' = [p \in Caller |-> None]
  /\ docs' = docs /\ UNCHANGED entryVars

\* The invoice is gone: the insert breaks the foreign key, the promise nobody
\* awaits rejects, and Node ends the process.
HookFails(p) ==
  /\ At(p, "save") /\ work[p].doc \in Keyed \ docs
  /\ Restart

-----------------------------------------------------------------------------
(* Requests on manual entries.                                               *)

\* Slip: create() does not post to the ledger.
CreateUnposted(p, e, m, c) ==
  /\ Idle(p) /\ e \notin spent
  /\ spent' = spent \cup {e}
  /\ expenses' = [expenses EXCEPT ![e] = [doc |-> None, amount |-> m]]
  /\ docs' = docs /\ UNCHANGED <<work, origin, ledgerVars>>

Create(p, e, m, c) ==
  /\ Idle(p)
  /\ SaveAndPost(p, e, None, m, c)
  /\ docs' = docs /\ UNCHANGED work

UpdateFind(p, e) ==
  /\ Idle(p) /\ Stays(e) /\ expenses[e].doc = None
  /\ work' = [work EXCEPT ![p] = [step |-> "edit", exp |-> e, row |-> expenses[e]]]
  /\ docs' = docs /\ UNCHANGED <<entryVars, ledgerVars>>

\* The loaded entity is saved; the ledger row keeps the old amount.
UpdateSave(p, m) ==
  /\ At(p, "edit")
  /\ expenses' = [expenses EXCEPT ![work[p].exp] = [work[p].row EXCEPT !.amount = m]]
  /\ work' = [work EXCEPT ![p] = None]
  /\ docs' = docs /\ UNCHANGED <<spent, origin, ledgerVars>>

\* Slip: entries made for a document can be deleted too.
RemoveAny(e) ==
  /\ Stays(e)
  /\ expenses' = [expenses EXCEPT ![e] = None]
  /\ docs' = docs /\ UNCHANGED <<spent, work, origin, ledgerVars>>

Remove(e) ==
  /\ Stays(e) /\ expenses[e].doc = None
  /\ expenses' = [expenses EXCEPT ![e] = None]
  /\ docs' = docs /\ UNCHANGED <<spent, work, origin, ledgerVars>>

-----------------------------------------------------------------------------
(* The documents, as far as this service sees them: one can be deleted.      *)

\* ON DELETE SET NULL on the invoice_id column.
DocDeleted(d) ==
  /\ docs' = docs \ {d}
  /\ expenses' = [e \in Expense |->
                    IF d \in Keyed /\ e \in EntriesOf(d)
                      THEN [expenses[e] EXCEPT !.doc = None] ELSE expenses[e]]
  /\ UNCHANGED <<spent, work, origin, ledgerVars>>

\* A record() call goes on, or finds no account and gives up.
Posting(p) == L!Post(p) /\ docs' = docs /\ UNCHANGED <<entryVars, work>>

\* Accounts come and go, and change their codes, while calls are in flight.
Accounts == /\ L!Chart \/ \E p \in Caller : work[p] = None /\ L!ChangeAccount(p)
            /\ docs' = docs /\ UNCHANGED <<entryVars, work>>

-----------------------------------------------------------------------------
\* The background steps: what the service does by itself, once started.
Background(p) == \/ HookCheck(p) \/ HookFails(p) \/ Posting(p)
                 \/ \E e \in Expense, c \in Code : HookSave(p, e, c)

Request(p) == \/ \E e \in Expense, m \in Amount, c \in Hook : Create(p, e, m, c)
              \/ \E e \in Expense : UpdateFind(p, e)
              \/ \E m \in Amount : UpdateSave(p, m)

Next == \/ \E p \in Caller : Background(p) \/ Request(p)
        \/ \E p \in Caller, d \in docs, m \in Amount : HookStart(p, d, m)
        \/ \E e \in Expense : Remove(e)
        \/ \E d \in docs : DocDeleted(d)
        \/ Accounts
        \/ Restart

Spec == Init /\ [][Next]_expensesVars

-----------------------------------------------------------------------------
TypeOK == /\ docs \in SUBSET Document
          /\ expenses \in [Expense -> ExpenseRow \cup {None}]
          /\ spent \in SUBSET Expense
          /\ work \in [Caller -> HookWork \cup EditWork \cup {None}]
          /\ origin \in [Expense -> Document \cup {None}]
          /\ L!TypeOK

InFlight(e) == \E p \in Caller : (L!At(p, "resolve") \/ L!At(p, "insert"))
                                   /\ call[p].source = e

\* record() gave up on the entry, and may have: the entry is of a purchase with
\* a code of its own, or a system account has lost its code.
Excused(e) == \E c \in Code : /\ <<e, c>> \in dropped
                              /\ IF c \in Hook THEN renamed
                                 ELSE origin[e] \in Document \ Keyed

\* Unless the process stopped, every entry ever saved is in the ledger or has a
\* record() call on its way, except a purchase's under a code of its own and what
\* a renamed system account costs: posting without awaiting loses nothing else,
\* whatever happens to the entry, its document, the accounts and other calls.
SavedMeansPosted ==
  ~crashed => \A e \in spent : L!Posted(e) # {} \/ InFlight(e) \/ Excused(e)

\* An entry made for a document is read-only: as long as its document exists
\* no step removes it or changes its amount.
AutoEntriesReadOnly ==
  [][\A e \in Expense :
       Stays(e) /\ expenses[e].doc # None =>
         /\ Stays(e)'
         /\ expenses'[e].amount = expenses[e].amount]_expensesVars

\* "Idempotent: checks invoiceId uniqueness before creating": a document never
\* gets a second entry.
OneEntryPerDocument ==
  \A d, e \in Expense : origin[d] # None /\ origin[d] = origin[e] => d = e
=============================================================================
