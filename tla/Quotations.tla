----------------------------- MODULE Quotations -----------------------------
(***************************************************************************)
(* handla-backend/src/modules/quotations/quotations.service.ts             *)
(*                                                                         *)
(* The quotations table and the requests that work on it.  As everywhere   *)
(* in this server a handler loads a quotation, checks its status, and      *)
(* saves the object it loaded some awaits later.  The line items are rows  *)
(* of their own: some handlers load them with the quotation, some do not.  *)
(* convert() is three separate writes: an invoice, a contract, and the     *)
(* quotation itself.                                                       *)
(***************************************************************************)
EXTENDS Naturals, FiniteSets

CONSTANTS
  Quotation,  \* ids a quotation can get
  Terms,      \* what can be offered: line items with their tax and total
  Invoice,    \* ids of invoices made by convert()
  Contract,   \* ids of contracts made by convert()
  Handler,    \* slots for concurrent activities: a request or a sweep
  None

Status == {"DRAFT", "SENT", "ACCEPTED", "REJECTED", "EXPIRED", "CONVERTED"}

\* inv and con are convertedInvoiceId and convertedContractId.
\* terms is what the columns say (tax, total, ...), items the offer the line items
\* are those of, None if there are none.  Each change writes both for one offer.
Row == [status : Status, terms : Terms, items : Terms \cup {None},
        inv : Invoice \cup {None}, con : Contract \cup {None}]

\* A document made from a quotation: the line items and the columns it was copied from.
Made == [quo : Quotation, terms : Terms, items : Terms \cup {None}]

\* "link" is any of the four public-link handlers (module PublicLinks).
Op == {"update", "remove", "send", "accept", "reject", "convert", "link"}

\* A request at work: the entity as loaded; inv and con are what a conversion
\* has made so far.
Task == [op : Op, quo : Quotation, row : Row,
         inv : Invoice \cup {None}, con : Contract \cup {None}]

ASSUME QuotationsAssumption ==
  None \notin Row \cup Task \cup Made \cup Invoice \cup Contract

VARIABLES
  table,      \* quotations: id -> row
  issued,     \* ids already handed out
  invoices,   \* drafts made by conversions
  contracts,
  task,       \* the request a handler works on
  sweep,      \* the ids an expiry sweep has found and not yet updated
  sent,       \* history: terms that send() saved for this quotation
  agreed,     \* history: terms that accept() saved for this quotation
  mishap      \* history: quotations with a torn, overlapping or overwritten change

historyVars == <<sent, agreed, mishap>>
vars == <<table, issued, invoices, contracts, task, sweep, historyVars>>

Exists(q) == table[q] # None
In(q, statuses) == Exists(q) /\ table[q].status \in statuses
Free(h) == task[h] = None /\ sweep[h] = {}
Working(h, op) == task[h] # None /\ task[h].op = op

\* The row changed since the handler loaded it.
Stale(h) == task[h] # None /\ table[task[h].quo] # task[h].row

Init == /\ table = [q \in Quotation |-> None]
        /\ issued = {}
        /\ invoices = [i \in Invoice |-> None]
        /\ contracts = [c \in Contract |-> None]
        /\ task = [h \in Handler |-> None]
        /\ sweep = [h \in Handler |-> {}]
        /\ sent = [q \in Quotation |-> {}]
        /\ agreed = [q \in Quotation |-> {}]
        /\ mishap = {}

-----------------------------------------------------------------------------
(* create(): one transaction with the line items.                           *)

Create(q, t) ==
  /\ q \notin issued
  /\ issued' = issued \cup {q}
  /\ table' = [table EXCEPT ![q] = [status |-> "DRAFT", terms |-> t, items |-> t,
                                    inv |-> None, con |-> None]]
  /\ UNCHANGED <<invoices, contracts, task, sweep, historyVars>>

(* Loading, with the status guard of each handler.                          *)

Load(h, op, q) ==
  /\ Free(h) /\ Exists(q)
  /\ task' = [task EXCEPT ![h] = [op |-> op, quo |-> q, row |-> table[q],
                                  inv |-> None, con |-> None]]
  /\ UNCHANGED <<table, issued, invoices, contracts, sweep, sent, agreed>>

Find(h, op, q) == Load(h, op, q) /\ mishap' = mishap

\* Slip: update() without its DRAFT check.
UpdateFindAny(h, q) == Find(h, "update", q)

\* Slip: remove() without its CONVERTED check.
RemoveFindAny(h, q) == Find(h, "remove", q)

UpdateFind(h, q) == In(q, {"DRAFT"}) /\ Find(h, "update", q)
RemoveFind(h, q) == In(q, Status \ {"CONVERTED"}) /\ Find(h, "remove", q)
SendFind(h, q)   == In(q, {"DRAFT"}) /\ Find(h, "send", q)
AcceptFind(h, q) == In(q, {"SENT"}) /\ Find(h, "accept", q)
RejectFind(h, q) == In(q, {"SENT"}) /\ Find(h, "reject", q)
LinkFind(h, q)   == Find(h, "link", q)

\* Nothing keeps a second conversion out while one is at work.
Converting(q) == \E g \in Handler : Working(g, "convert") /\ task[g].quo = q

StartConversion(h, q) ==
  /\ Load(h, "convert", q)
  /\ mishap' = IF Converting(q) THEN mishap \cup {q} ELSE mishap

\* Slip: a sent quotation can be converted before it is accepted.
ConvertFindSent(h, q) == In(q, {"SENT", "ACCEPTED"}) /\ StartConversion(h, q)

\* Slip: a converted quotation can be converted again.
ConvertFindAgain(h, q) == In(q, {"ACCEPTED", "CONVERTED"}) /\ StartConversion(h, q)

ConvertFind(h, q) == In(q, {"ACCEPTED"}) /\ StartConversion(h, q)

-----------------------------------------------------------------------------
(* Saving what was loaded.                                                  *)

Done(h) == task' = [task EXCEPT ![h] = None]

\* The line items a quotation has in the table; they are deleted with it.
ItemsOf(q) == IF Exists(q) THEN table[q].items ELSE None

\* repository.save(entity), loaded with its line items: columns and line items become
\* those of the entity the handler holds.
SaveEntity(h, row) ==
  /\ table' = [table EXCEPT ![task[h].quo] = row]
  /\ mishap' = IF Stale(h) THEN mishap \cup {task[h].quo} ELSE mishap
  /\ Done(h)
  /\ UNCHANGED <<issued, invoices, contracts, sweep>>

\* Loaded without its line items, the entity leaves them as they are in the table.
SaveColumns(h, row) == SaveEntity(h, [row EXCEPT !.items = ItemsOf(task[h].quo)])

\* update(): new line items or a new tax rate make a new offer, other fields do not.
UpdateSave(h) ==
  /\ Working(h, "update")
  /\ \/ \E t \in Terms : SaveEntity(h, [task[h].row EXCEPT !.terms = t, !.items = t])
     \/ SaveEntity(h, task[h].row)
  /\ UNCHANGED <<sent, agreed>>

RemoveDelete(h) ==
  /\ Working(h, "remove")
  /\ SaveEntity(h, None)
  /\ UNCHANGED <<sent, agreed>>

SendSave(h) ==
  /\ Working(h, "send")
  /\ SaveEntity(h, [task[h].row EXCEPT !.status = "SENT"])
  /\ sent' = [sent EXCEPT ![task[h].quo] = @ \cup {task[h].row.terms}]
  /\ UNCHANGED agreed

\* The answer: staff load the line items, the client, who comes by the link, does not.
Answer(h, status) ==
  \/ SaveEntity(h, [task[h].row EXCEPT !.status = status])
  \/ SaveColumns(h, [task[h].row EXCEPT !.status = status])

AcceptSave(h) ==
  /\ Working(h, "accept")
  /\ Answer(h, "ACCEPTED")
  /\ agreed' = [agreed EXCEPT ![task[h].quo] = @ \cup {task[h].row.terms}]
  /\ UNCHANGED sent

RejectSave(h) ==
  /\ Working(h, "reject")
  /\ Answer(h, "REJECTED")
  /\ UNCHANGED <<sent, agreed>>

LinkSave(h) ==
  /\ Working(h, "link")
  /\ SaveColumns(h, task[h].row)
  /\ UNCHANGED <<sent, agreed>>

-----------------------------------------------------------------------------
(* convert(): a draft invoice, a draft contract, then the quotation.        *)

\* Both documents copy the line items as loaded; of the columns, the invoice copies
\* the tax rate and the contract the total.
MadeFrom(h) == [quo |-> task[h].quo, terms |-> task[h].row.terms, items |-> task[h].row.items]

ConvertInvoice(h, i) ==
  /\ Working(h, "convert") /\ task[h].inv = None
  /\ invoices[i] = None
  /\ invoices' = [invoices EXCEPT ![i] = MadeFrom(h)]
  /\ task' = [task EXCEPT ![h].inv = i]
  /\ UNCHANGED <<table, issued, contracts, sweep, historyVars>>

ConvertContract(h, c) ==
  /\ Working(h, "convert") /\ task[h].inv # None /\ task[h].con = None
  /\ contracts[c] = None
  /\ contracts' = [contracts EXCEPT ![c] = MadeFrom(h)]
  /\ task' = [task EXCEPT ![h].con = c]
  /\ UNCHANGED <<table, issued, invoices, sweep, historyVars>>

\* Slip: the quotation is marked while its contract is still being made.
ConvertSaveEarly(h) ==
  /\ Working(h, "convert") /\ task[h].inv # None
  /\ SaveEntity(h, [task[h].row EXCEPT !.status = "CONVERTED",
                                       !.inv = task[h].inv, !.con = task[h].con])
  /\ UNCHANGED <<sent, agreed>>

ConvertSave(h) ==
  /\ Working(h, "convert") /\ task[h].con # None
  /\ SaveEntity(h, [task[h].row EXCEPT !.status = "CONVERTED",
                                       !.inv = task[h].inv, !.con = task[h].con])
  /\ UNCHANGED <<sent, agreed>>

-----------------------------------------------------------------------------
(* Failures.                                                                *)

\* What a conversion given up now would leave behind.
Torn(H) == {task[h].quo : h \in {g \in H : task[g] # None /\ task[g].inv # None}}

\* A request throws: a query fails, or create() refuses the invoice or contract.
Fails(h) ==
  /\ task[h] # None
  /\ mishap' = mishap \cup Torn({h})
  /\ Done(h)
  /\ UNCHANGED <<table, issued, invoices, contracts, sweep, sent, agreed>>

\* The process stops; requests and sweeps in flight are gone, rows stay.
Crash ==
  /\ mishap' = mishap \cup Torn(Handler)
  /\ task' = [h \in Handler |-> None]
  /\ sweep' = [h \in Handler |-> {}]
  /\ UNCHANGED <<table, issued, invoices, contracts, sent, agreed>>

-----------------------------------------------------------------------------
(* recalculateExpiredStatus: find sent quotations past their date, then      *)
(* update that list of ids in bulk, whatever their status is by then.        *)

SweepFind(h, late) ==
  /\ Free(h)
  /\ {q \in late : In(q, {"SENT"})} # {}
  /\ sweep' = [sweep EXCEPT ![h] = {q \in late : In(q, {"SENT"})}]
  /\ UNCHANGED <<table, issued, invoices, contracts, task, historyVars>>

SweepUpdate(h) ==
  /\ sweep[h] # {}
  /\ table' = [q \in Quotation |-> IF q \in sweep[h] /\ Exists(q)
                                     THEN [table[q] EXCEPT !.status = "EXPIRED"]
                                     ELSE table[q]]
  /\ sweep' = [sweep EXCEPT ![h] = {}]
  /\ UNCHANGED <<issued, invoices, contracts, task, historyVars>>

-----------------------------------------------------------------------------
Finds(h, q) == \/ UpdateFind(h, q) \/ RemoveFind(h, q) \/ SendFind(h, q)
               \/ AcceptFind(h, q) \/ RejectFind(h, q) \/ LinkFind(h, q)
               \/ ConvertFind(h, q)

Saves(h) == \/ UpdateSave(h) \/ RemoveDelete(h) \/ SendSave(h)
            \/ AcceptSave(h) \/ RejectSave(h) \/ LinkSave(h) \/ ConvertSave(h)

Makes(h) == \/ \E i \in Invoice : ConvertInvoice(h, i)
            \/ \E c \in Contract : ConvertContract(h, c)

Sweeps(h) == SweepUpdate(h) \/ \E late \in SUBSET Quotation : SweepFind(h, late)

Next == \/ \E q \in Quotation, t \in Terms : Create(q, t)
        \/ \E h \in Handler : \/ \E q \in Quotation : Finds(h, q)
                             \/ Saves(h) \/ Makes(h) \/ Sweeps(h) \/ Fails(h)
        \/ Crash

Spec == Init /\ [][Next]_vars

-----------------------------------------------------------------------------
TypeOK == /\ table \in [Quotation -> Row \cup {None}]
          /\ issued \in SUBSET Quotation
          /\ invoices \in [Invoice -> Made \cup {None}]
          /\ contracts \in [Contract -> Made \cup {None}]
          /\ task \in [Handler -> Task \cup {None}]
          /\ sweep \in [Handler -> SUBSET Quotation]
          /\ sent \in [Quotation -> SUBSET Terms]
          /\ agreed \in [Quotation -> SUBSET Terms]
          /\ mishap \in SUBSET Quotation

\* The line items are those of the offer the columns state.
Agree(r) == r.items = r.terms

\* "Only SENT quotations can be accepted" and "Only DRAFT quotations can be
\* edited": however requests overlap, what a client can decide on, or has decided
\* on, states an offer that was sent, and its line items are those of that offer
\* unless a save went over a newer row: a client's answer or a link change that
\* loaded the quotation before an edit leaves the old total beside the new items.
DecidedOnSentTerms ==
  \A q \in Quotation :
    In(q, {"SENT", "ACCEPTED", "REJECTED", "CONVERTED"}) =>
      /\ table[q].terms \in sent[q]
      /\ q \notin mishap => Agree(table[q])

\* "Only ACCEPTED quotations can be converted": every invoice and contract made
\* by a conversion has terms the client accepted for that very quotation, and
\* the line items of those terms, with the exception DecidedOnSentTerms makes.
MadeFromAgreed(d) == /\ d.terms \in agreed[d.quo]
                     /\ d.quo \notin mishap => Agree(d)

MadeWasAgreed ==
  /\ \A i \in Invoice : invoices[i] # None => MadeFromAgreed(invoices[i])
  /\ \A c \in Contract : contracts[c] # None => MadeFromAgreed(contracts[c])

\* A quotation marked CONVERTED names an invoice and a contract made for it, of
\* one and the same offer, which is the one it states, line items included unless
\* a save went over a newer row: half-done conversions and stale saves never show
\* as CONVERTED.
ConvertedIsWhole ==
  \A q \in Quotation : In(q, {"CONVERTED"}) =>
    LET r == table[q]
    IN  /\ r.inv # None /\ r.con # None
        /\ invoices[r.inv] # None /\ invoices[r.inv] = contracts[r.con]
        /\ invoices[r.inv].quo = q /\ invoices[r.inv].terms = r.terms
        /\ q \notin mishap => invoices[r.inv].items = r.items

\* A quotation is invoiced once, unless a conversion was given up half-way, two
\* of them overlapped, or a save overwrote a newer row.
InvoicedOnce ==
  \A q \in Quotation \ mishap :
    Cardinality({i \in Invoice : invoices[i] # None /\ invoices[i].quo = q}) <= 1

\* The lifecycle of the entity's comment, with the deletions remove() allows.
Documented ==
  {<<"none", "DRAFT">>, <<"DRAFT", "SENT">>, <<"SENT", "ACCEPTED">>,
   <<"SENT", "REJECTED">>, <<"SENT", "EXPIRED">>, <<"ACCEPTED", "CONVERTED">>}
  \cup ((Status \ {"CONVERTED"}) \X {"deleted"})

Seen(q) == IF Exists(q) THEN table[q].status
           ELSE IF q \in issued THEN "deleted" ELSE "none"

Lifecycle == INSTANCE StatusLifecycle
               WITH Thing <- Quotation, Moves <- Documented,
                    status <- [q \in Quotation |-> Seen(q)]

\* No handler holds an outdated row, no sweep an outdated list.
Current == /\ \A h \in Handler : ~Stale(h)
           /\ \A h \in Handler : \A q \in sweep[h] : In(q, {"SENT"})

\* Every step taken while nothing held is outdated follows the lifecycle,
\* conversions included, although each is spread over many steps.
QuotationLifecycle ==
  [][Current => [Lifecycle!Next]_[q \in Quotation |-> Seen(q)]]_vars
=============================================================================
