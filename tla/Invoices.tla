------------------------------ MODULE Invoices ------------------------------
(***************************************************************************)
(* handla-backend/src/modules/invoices/invoices.service.ts                 *)
(*                                                                         *)
(* The invoices table, the file_uploads rows that back payment proofs, and *)
(* the requests that work on them.  Every handler is an async function: it *)
(* loads an invoice (findOne), checks it, awaits, and later saves the      *)
(* object it loaded.  The requests of one Node process interleave at every *)
(* await, so a handler is two or three actions here, and what it holds in  *)
(* between is the entity it loaded, possibly stale.                        *)
(*                                                                         *)
(* External: TypeORM's repository.save(entity) makes the row equal to the  *)
(* entity (and inserts the row again when it is gone); a query-builder     *)
(* update writes only the columns it sets, on the rows that exist.         *)
(***************************************************************************)
EXTENDS Naturals

CONSTANTS
  Invoice,   \* ids an invoice can get (uuids: none is handed out twice)
  Upload,    \* ids of payment-proof files
  Total,     \* invoice totals the line items can add up to
  Handler,   \* slots for concurrent activities: a request or a sweep
  None       \* no row, no record, no task

Status == {"UNPAID", "OVERDUE", "PAID"}

\* An invoice row; proofs stands for the "[Payment proof submitted]" lines
\* of its notes column, each citing the file of one upload.
Row == [status : Status, paidAt : BOOLEAN, total : Total, proofs : SUBSET Upload]

\* A file_uploads row; inv is its resourceId.
FileUpload == [status : {"PENDING", "CONSUMED"}, inv : Invoice]

\* "link" is any of the four public-link handlers: they load the invoice,
\* change only its token columns and save the whole entity.
Op == {"update", "remove", "markPaid", "submit", "upload", "link"}

Task == [op : Op, inv : Invoice, row : Row, up : Upload \cup {None}]

ASSUME NoneAssumption == /\ None \notin Row
                         /\ None \notin FileUpload
                         /\ None \notin Task
                         /\ None \notin Upload

VARIABLES
  table,      \* invoices: id -> row
  issued,     \* ids already handed out
  uploads,    \* file_uploads: id -> record
  task,       \* the request a handler is working on, with the entity it loaded
  sweep,      \* the ids an overdue sweep has found and not yet updated
  confirmed,  \* history: invoices some markAsPaid call has saved as PAID
  cited       \* history: how many submissions committed with this upload

dbVars == <<table, issued, uploads>>
vars == <<table, issued, uploads, task, sweep, confirmed, cited>>

Exists(i) == table[i] # None
Free(h) == task[h] = None /\ sweep[h] = {}
Working(h, op) == task[h] # None /\ task[h].op = op
Unpaid(i) == Exists(i) /\ table[i].status = "UNPAID"

Init == /\ table = [i \in Invoice |-> None]
        /\ issued = {}
        /\ uploads = [u \in Upload |-> None]
        /\ task = [h \in Handler |-> None]
        /\ sweep = [h \in Handler |-> {}]
        /\ confirmed = {}
        /\ cited = [u \in Upload |-> 0]

-----------------------------------------------------------------------------
(* Loading.  Each handler starts with findOne and its status guard.         *)

Find(h, op, i) ==
  /\ Free(h) /\ Exists(i)
  /\ task' = [task EXCEPT ![h] = [op |-> op, inv |-> i, row |-> table[i], up |-> None]]
  /\ UNCHANGED <<table, issued, uploads, sweep, confirmed, cited>>

\* create(): one transaction inserts the invoice and its line items.
Create(i, t) ==
  /\ i \notin issued
  /\ issued' = issued \cup {i}
  /\ table' = [table EXCEPT ![i] =
                 [status |-> "UNPAID", paidAt |-> FALSE, total |-> t, proofs |-> {}]]
  /\ UNCHANGED <<uploads, task, sweep, confirmed, cited>>

\* Slip: remove() without its UNPAID check.
RemoveFindAny(h, i) == Find(h, "remove", i)

\* Slip: update() without its UNPAID check.
UpdateFindAny(h, i) == Find(h, "update", i)

\* Slip: an invoice that is PAID can be confirmed again.
MarkPaidFindAny(h, i) == Find(h, "markPaid", i)

UpdateFind(h, i)   == Unpaid(i) /\ Find(h, "update", i)
RemoveFind(h, i)   == Unpaid(i) /\ Find(h, "remove", i)
MarkPaidFind(h, i) == Exists(i) /\ table[i].status # "PAID" /\ Find(h, "markPaid", i)
SubmitFind(h, i)   == Find(h, "submit", i)
UploadFind(h, i)   == Find(h, "upload", i)
LinkFind(h, i)     == Find(h, "link", i)

-----------------------------------------------------------------------------
(* Writing back.                                                            *)

\* repository.save(entity): the row becomes the entity the handler holds.
SaveEntity(i, row) == table' = [table EXCEPT ![i] = row]

Done(h) == task' = [task EXCEPT ![h] = None]

\* update(): new line items or tax rate change the total, and a new notes text
\* replaces the proof lines along with the rest of the notes.
UpdateSave(h) ==
  /\ Working(h, "update")
  /\ \E t \in Total, kept \in {task[h].row.proofs, {}} :
       SaveEntity(task[h].inv, [task[h].row EXCEPT !.total = t, !.proofs = kept])
  /\ Done(h)
  /\ UNCHANGED <<issued, uploads, sweep, confirmed, cited>>

RemoveDelete(h) ==
  /\ Working(h, "remove")
  /\ table' = [table EXCEPT ![task[h].inv] = None]
  /\ Done(h)
  /\ UNCHANGED <<issued, uploads, sweep, confirmed, cited>>

MarkPaidSave(h) ==
  /\ Working(h, "markPaid")
  /\ SaveEntity(task[h].inv, [task[h].row EXCEPT !.status = "PAID", !.paidAt = TRUE])
  /\ confirmed' = confirmed \cup {task[h].inv}
  /\ Done(h)
  /\ UNCHANGED <<issued, uploads, sweep, cited>>

LinkSave(h) ==
  /\ Working(h, "link")
  /\ SaveEntity(task[h].inv, task[h].row)
  /\ Done(h)
  /\ UNCHANGED <<issued, uploads, sweep, confirmed, cited>>

\* uploadPaymentProof: after the file is in S3 its PENDING record is inserted.
UploadRecord(h, u) ==
  /\ Working(h, "upload")
  /\ uploads[u] = None
  /\ uploads' = [uploads EXCEPT ![u] = [status |-> "PENDING", inv |-> task[h].inv]]
  /\ Done(h)
  /\ UNCHANGED <<table, issued, sweep, confirmed, cited>>

-----------------------------------------------------------------------------
(* submitPaymentProof: check the upload, then one transaction that consumes *)
(* it with a conditional UPDATE and saves the invoice loaded at the start.   *)

\* Slip: the upload's resourceId is not compared with the invoice.
SubmitCheckAnyInvoice(h, u) ==
  /\ Working(h, "submit") /\ task[h].up = None
  /\ uploads[u] # None
  /\ uploads[u].status = "PENDING"
  /\ task' = [task EXCEPT ![h].up = u]
  /\ UNCHANGED <<table, issued, uploads, sweep, confirmed, cited>>

SubmitCheck(h, u) ==
  /\ Working(h, "submit") /\ task[h].up = None
  /\ uploads[u] # None
  /\ uploads[u].inv = task[h].inv
  /\ uploads[u].status = "PENDING"
  /\ task' = [task EXCEPT ![h].up = u]
  /\ UNCHANGED <<table, issued, uploads, sweep, confirmed, cited>>

\* Slip: the UPDATE that consumes the upload has no status condition.
StillThere(u) == uploads[u] # None

\* The conditional UPDATE affects a row only if the record is there and PENDING.
StillPending(u) == uploads[u] # None /\ uploads[u].status = "PENDING"

\* Slip: a submitted proof confirms the payment by itself.
SubmitCommitConfirms(h) ==
  /\ Working(h, "submit") /\ task[h].up # None
  /\ StillPending(task[h].up)
  /\ uploads' = [uploads EXCEPT ![task[h].up].status = "CONSUMED"]
  /\ SaveEntity(task[h].inv, [task[h].row EXCEPT !.proofs = @ \cup {task[h].up},
                                                 !.status = "PAID", !.paidAt = TRUE])
  /\ cited' = [cited EXCEPT ![task[h].up] = @ + 1]
  /\ Done(h)
  /\ UNCHANGED <<issued, sweep, confirmed>>

SubmitCommit(h) ==
  /\ Working(h, "submit") /\ task[h].up # None
  /\ StillPending(task[h].up)
  /\ uploads' = [uploads EXCEPT ![task[h].up].status = "CONSUMED"]
  /\ SaveEntity(task[h].inv, [task[h].row EXCEPT !.proofs = @ \cup {task[h].up}])
  /\ cited' = [cited EXCEPT ![task[h].up] = @ + 1]
  /\ Done(h)
  /\ UNCHANGED <<issued, sweep, confirmed>>

\* affected = 0: CONFLICT, the transaction rolls back.
SubmitConflict(h) ==
  /\ Working(h, "submit") /\ task[h].up # None
  /\ ~StillPending(task[h].up)
  /\ Done(h)
  /\ UNCHANGED <<table, issued, uploads, sweep, confirmed, cited>>

\* The request throws before it writes: the upload it names is missing, spent or
\* another invoice's, the file is not acceptable, or S3 does not answer.
Refused(h) ==
  /\ Working(h, "submit") \/ Working(h, "upload")
  /\ task[h].up = None
  /\ Done(h)
  /\ UNCHANGED <<table, issued, uploads, sweep, confirmed, cited>>

\* Without a proofUrl only the notes change: no upload is involved.
SubmitNote(h) ==
  /\ Working(h, "submit") /\ task[h].up = None
  /\ SaveEntity(task[h].inv, task[h].row)
  /\ Done(h)
  /\ UNCHANGED <<issued, uploads, sweep, confirmed, cited>>

-----------------------------------------------------------------------------
(* recalculateOverdueStatus: find the unpaid invoices past their due date,  *)
(* then update that list of ids in bulk.  Which due dates have passed is     *)
(* chosen freely (late).                                                     *)

SweepFind(h, late) ==
  /\ Free(h)
  /\ {i \in late : Unpaid(i)} # {}
  /\ sweep' = [sweep EXCEPT ![h] = {i \in late : Unpaid(i)}]
  /\ UNCHANGED <<table, issued, uploads, task, confirmed, cited>>

SweepUpdate(h) ==
  /\ sweep[h] # {}
  /\ table' = [i \in Invoice |-> IF i \in sweep[h] /\ Exists(i)
                                   THEN [table[i] EXCEPT !.status = "OVERDUE"]
                                   ELSE table[i]]
  /\ sweep' = [sweep EXCEPT ![h] = {}]
  /\ UNCHANGED <<issued, uploads, task, confirmed, cited>>

\* The process stops: requests and sweeps in flight are gone, rows stay.
Crash ==
  /\ task' = [h \in Handler |-> None]
  /\ sweep' = [h \in Handler |-> {}]
  /\ UNCHANGED <<table, issued, uploads, confirmed, cited>>

-----------------------------------------------------------------------------
Load(h) == \E i \in Invoice :
             \/ UpdateFind(h, i) \/ RemoveFind(h, i) \/ MarkPaidFind(h, i)
             \/ SubmitFind(h, i) \/ UploadFind(h, i) \/ LinkFind(h, i)

\* The steps that finish a request, but for markAsPaid's and remove's, which
\* reach into other tables (module InvoiceIncome).
Write(h) == \/ UpdateSave(h) \/ LinkSave(h)
            \/ SubmitCommit(h) \/ SubmitConflict(h) \/ SubmitNote(h) \/ Refused(h)
            \/ \E u \in Upload : UploadRecord(h, u) \/ SubmitCheck(h, u)

Overdue(h) == SweepUpdate(h) \/ \E late \in SUBSET Invoice : SweepFind(h, late)

Next == \/ \E i \in Invoice, t \in Total : Create(i, t)
        \/ \E h \in Handler : \/ Load(h) \/ Write(h) \/ Overdue(h)
                             \/ MarkPaidSave(h) \/ RemoveDelete(h)
        \/ Crash

Spec == Init /\ [][Next]_vars

-----------------------------------------------------------------------------
TypeOK == /\ table \in [Invoice -> Row \cup {None}]
          /\ issued \in SUBSET Invoice
          /\ uploads \in [Upload -> FileUpload \cup {None}]
          /\ task \in [Handler -> Task \cup {None}]
          /\ sweep \in [Handler -> SUBSET Invoice]
          /\ confirmed \in SUBSET Invoice
          /\ cited \in [Upload -> Nat]

\* "Does NOT auto-change paymentStatus - an ADMIN/EMPLOYEE must confirm via
\* markAsPaid": however requests overlap, a row is PAID only if a markAsPaid
\* call saved that invoice, and then it carries a payment date.
PaidWasConfirmed ==
  \A i \in Invoice : Exists(i) /\ table[i].status = "PAID"
                       => i \in confirmed /\ table[i].paidAt

\* A payment proof an invoice cites comes from an upload made for that very
\* invoice, and that upload is spent: no later submission can cite it.
ProofsAreConsumed ==
  \A i \in Invoice : Exists(i) =>
    \A u \in table[i].proofs : /\ uploads[u] # None
                               /\ uploads[u].inv = i
                               /\ uploads[u].status = "CONSUMED"

\* "Consumes the upload record atomically to prevent reuse": at most one
\* submission ever commits with a given upload, however many race for it.
UploadCitedOnce == \A u \in Upload : cited[u] <= 1

\* The lifecycle of the class comment, as an abstract specification: what a
\* reader of the table sees of each invoice follows InvoiceLifecycle.
Seen(i) == IF Exists(i) THEN table[i].status
           ELSE IF i \in issued THEN "deleted" ELSE "none"
Lifecycle == INSTANCE InvoiceLifecycle WITH status <- [i \in Invoice |-> Seen(i)]
FollowsLifecycle == Lifecycle!Spec

\* A handler holds a row that has changed since it loaded it.
Stale(h) == task[h] # None /\ table[task[h].inv] # task[h].row

\* No handler holds an outdated row, no sweep an outdated list.
Current == \A h \in Handler : ~Stale(h) /\ \A i \in sweep[h] : Unpaid(i)

\* Every step taken while nothing held is outdated follows the lifecycle, however
\* many activities are in progress: only an outdated copy takes an invoice out of
\* PAID, deletes a paid one or brings a deleted one back.
CurrentFollowsLifecycle ==
  [][Current => [Lifecycle!Next]_[i \in Invoice |-> Seen(i)]]_vars
=============================================================================
