--------------------------- MODULE DocumentsProofs ---------------------------
(***************************************************************************)
(* Proofs about the four modules MCDocuments runs side by side, for any    *)
(* documents, texts, tokens, handlers and horizon: quotations first, then  *)
(* contracts (names in Paper...), public links (names in Link...) and      *)
(* document numbers, each alone; at the end, that what holds of one alone  *)
(* holds beside the others.                                                *)
(*                                                                         *)
(* As in every service here, a save writes back what a handler loaded, so  *)
(* a claim about the stored row can only be kept if it is true of every    *)
(* copy a handler may still save.                                          *)
(***************************************************************************)
EXTENDS MCDocuments, FiniteSetTheorems, WellFoundedInduction, TLAPS

-----------------------------------------------------------------------------
(* Quotations.                                                             *)

\* Row r of quotation q against what was sent and what the client accepted; its line
\* items are those of its terms while no change of q was torn or overwritten.
Decided(q, r, offers, yes, torn) ==
  /\ r.status \in {"SENT", "ACCEPTED", "REJECTED", "CONVERTED"} => r.terms \in offers[q]
  /\ r.status \in {"ACCEPTED", "CONVERTED"} => r.terms \in yes[q]
  /\ q \notin torn => Agree(r)

\* A converted row names what was made from it.
Whole(q, r, invs, cons) ==
  r.status = "CONVERTED" =>
    /\ r.inv # None /\ invs[r.inv] # None /\ invs[r.inv].quo = q /\ invs[r.inv].terms = r.terms
    /\ r.con # None /\ cons[r.con] = invs[r.inv]

\* The status each handler checked when it loaded the row.
Checked(t) == /\ t.op \in {"update", "send"} => t.row.status = "DRAFT"
              /\ t.op \in {"accept", "reject"} => t.row.status = "SENT"
              /\ t.op = "convert" => t.row.status = "ACCEPTED"
              /\ t.op = "remove" => t.row.status # "CONVERTED"

\* The record a conversion makes of the row it holds.
CopyOf(t) == [quo |-> t.quo, terms |-> t.row.terms, items |-> t.row.items]

\* What a conversion has made so far, in this order, for the quotation it holds.
MadeSoFar(t, invs, cons) ==
  /\ t.inv # None => invs[t.inv] = CopyOf(t)
  /\ t.con # None => cons[t.con] = CopyOf(t) /\ t.inv # None
  /\ t.op # "convert" => t.inv = None

HeldGood(t, offers, yes, torn, invs, cons) ==
  /\ Checked(t) /\ MadeSoFar(t, invs, cons)
  /\ Decided(t.quo, t.row, offers, yes, torn) /\ Whole(t.quo, t.row, invs, cons)

RowsGood == \A q \in Quotation : Exists(q) =>
              Decided(q, table[q], sent, agreed, mishap) /\ Whole(q, table[q], invoices, contracts)

TasksGood == \A h \in Handler : task[h] # None =>
               HeldGood(task[h], sent, agreed, mishap, invoices, contracts)

\* Only what was created is seen or held.
OnlyIssued == /\ \A q \in Quotation : Exists(q) => q \in issued
              /\ \A h \in Handler : task[h] # None => task[h].quo \in issued

IInv == TypeOK /\ RowsGood /\ TasksGood /\ OnlyIssued /\ MadeWasAgreed

\* The histories and the made documents only grow.
Grows == /\ \A q \in Quotation : sent[q] \subseteq sent'[q] /\ agreed[q] \subseteq agreed'[q]
         /\ \A i \in Invoice : invoices[i] # None => invoices'[i] = invoices[i]
         /\ \A c \in Contract : contracts[c] # None => contracts'[c] = contracts[c]
         /\ issued \subseteq issued' /\ mishap \subseteq mishap'

-----------------------------------------------------------------------------
LEMMA HeldTask ==
  ASSUME TypeOK, NEW h \in Handler, task[h] # None
  PROVE  /\ task[h] \in Task /\ task[h].quo \in Quotation /\ task[h].row \in Row
         /\ task[h].op \in Op
BY DEF TypeOK, Task

\* What was good of a row stays good.
LEMMA GrowsRow ==
  ASSUME Grows, NEW q \in Quotation, NEW r \in Row
  PROVE  /\ Decided(q, r, sent, agreed, mishap) => Decided(q, r, sent', agreed', mishap')
         /\ Whole(q, r, invoices, contracts) => Whole(q, r, invoices', contracts')
<1> USE QuotationsAssumption
<1>1. Decided(q, r, sent, agreed, mishap) => Decided(q, r, sent', agreed', mishap')
  BY DEF Grows, Decided
<1>2. r.inv \in Invoice \cup {None} /\ r.con \in Contract \cup {None}
  BY DEF Row
<1>3. Whole(q, r, invoices, contracts) => Whole(q, r, invoices', contracts')
  BY <1>2 DEF Grows, Whole
<1> QED
  BY <1>1, <1>3

LEMMA GrowsTask ==
  ASSUME Grows, NEW t \in Task, HeldGood(t, sent, agreed, mishap, invoices, contracts)
  PROVE  HeldGood(t, sent', agreed', mishap', invoices', contracts')
<1> USE QuotationsAssumption
<1>1. /\ t.quo \in Quotation /\ t.row \in Row
      /\ t.inv \in Invoice \cup {None} /\ t.con \in Contract \cup {None}
  BY DEF Task
<1>2. CopyOf(t) # None
  BY <1>1 DEF Made, Row, CopyOf
<1>3. MadeSoFar(t, invoices', contracts')
  BY <1>1, <1>2 DEF Grows, HeldGood, MadeSoFar
<1> QED
  BY <1>1, <1>3, GrowsRow DEF HeldGood

\* Any step in which every row and every task is an old one or a good one.
LEMMA GoodStep ==
  ASSUME IInv, Grows, TypeOK', MadeWasAgreed',
         \A q \in Quotation : table'[q] \in {table[q], None}
            \/ (/\ table'[q] \in Row
                /\ Decided(q, table'[q], sent', agreed', mishap')
                /\ Whole(q, table'[q], invoices', contracts') /\ q \in issued'),
         \A h \in Handler : task'[h] \in {task[h], None}
            \/ (/\ task'[h] \in Task
                /\ HeldGood(task'[h], sent', agreed', mishap', invoices', contracts')
                /\ task'[h].quo \in issued')
  PROVE  IInv'
<1>1. RowsGood'
  <2> SUFFICES ASSUME NEW q \in Quotation, table'[q] # None
               PROVE  /\ Decided(q, table'[q], sent', agreed', mishap')
                      /\ Whole(q, table'[q], invoices', contracts')
    BY DEF RowsGood, Exists
  <2>1. CASE table'[q] = table[q]
    <3>1. /\ table[q] \in Row
          /\ Decided(q, table[q], sent, agreed, mishap) /\ Whole(q, table[q], invoices, contracts)
      BY <2>1 DEF IInv, TypeOK, RowsGood, Exists
    <3> QED
      BY <2>1, <3>1, GrowsRow
  <2> QED
    BY <2>1
<1>2. TasksGood'
  <2> SUFFICES ASSUME NEW h \in Handler, task'[h] # None
               PROVE  HeldGood(task'[h], sent', agreed', mishap', invoices', contracts')
    BY DEF TasksGood
  <2>1. CASE task'[h] = task[h]
    <3>1. task[h] \in Task /\ HeldGood(task[h], sent, agreed, mishap, invoices, contracts)
      BY <2>1, HeldTask DEF IInv, TasksGood
    <3> QED
      BY <2>1, <3>1, GrowsTask
  <2> QED
    BY <2>1
<1>3. OnlyIssued'
  BY DEF IInv, OnlyIssued, Exists, Grows
<1> QED
  BY <1>1, <1>2, <1>3 DEF IInv

\* A save of a row that is good for the quotation it was loaded from.
LEMMA SaveStep ==
  ASSUME IInv, NEW h \in Handler, task[h] # None, NEW row \in Row \cup {None},
         SaveEntity(h, row), Grows,
         sent' \in [Quotation -> SUBSET Terms], agreed' \in [Quotation -> SUBSET Terms],
         row # None => /\ Decided(task[h].quo, row, sent', agreed', mishap')
                       /\ Whole(task[h].quo, row, invoices, contracts)
  PROVE  IInv'
<1>1. /\ task[h].quo \in Quotation /\ task[h].quo \in issued
      /\ UNCHANGED <<issued, invoices, contracts, sweep>>
  BY HeldTask DEF IInv, OnlyIssued, SaveEntity
<1>2. /\ table' \in [Quotation -> Row \cup {None}]
      /\ \A q \in Quotation : table'[q] = IF q = task[h].quo THEN row ELSE table[q]
      /\ task' \in [Handler -> Task \cup {None}]
      /\ \A g \in Handler : task'[g] \in {task[g], None}
      /\ mishap' \in SUBSET Quotation
  BY <1>1 DEF SaveEntity, Done, IInv, TypeOK
<1>3. TypeOK'
  BY <1>1, <1>2 DEF IInv, TypeOK
<1>4. MadeWasAgreed'
  <2>1. /\ \A i \in Invoice : invoices[i] # None => invoices[i].quo \in Quotation
        /\ \A c \in Contract : contracts[c] # None => contracts[c].quo \in Quotation
    BY DEF IInv, TypeOK, Made
  <2> QED
    BY <1>1, <2>1 DEF IInv, MadeWasAgreed, MadeFromAgreed, Grows
<1> QED
  BY <1>1, <1>2, <1>3, <1>4, GoodStep

\* No history and no made document changes.
LEMMA SameGrows ==
  ASSUME UNCHANGED <<issued, invoices, contracts, sent, agreed>>, mishap \subseteq mishap'
  PROVE  Grows
BY DEF Grows

LEMMA SameAgreed ==
  ASSUME IInv, UNCHANGED <<invoices, contracts, agreed>>, mishap \subseteq mishap'
  PROVE  MadeWasAgreed'
BY DEF IInv, MadeWasAgreed, MadeFromAgreed

\* Creating, loading and sweeping.
LEMMA CreateStep ==
  ASSUME IInv, NEW q \in Quotation, NEW t \in Terms, Create(q, t)
  PROVE  IInv'
<1> USE QuotationsAssumption
<1> DEFINE row == [status |-> "DRAFT", terms |-> t, items |-> t, inv |-> None, con |-> None]
<1>1. row \in Row /\ row.status = "DRAFT" /\ Agree(row)
  BY DEF Row, Status, Agree
<1>2. /\ table' = [table EXCEPT ![q] = row] /\ issued' = issued \cup {q}
      /\ UNCHANGED <<invoices, contracts, task, sweep, historyVars>>
  BY DEF Create
<1> HIDE DEF row
<1>3. Decided(q, row, sent', agreed', mishap') /\ Whole(q, row, invoices', contracts')
  BY <1>1 DEF Decided, Whole
<1>4. Grows
  BY <1>2 DEF Grows, historyVars
<1>5. \A p \in Quotation : table'[p] = IF p = q THEN row ELSE table[p]
  BY <1>2 DEF IInv, TypeOK
<1>6. TypeOK'
  BY <1>1, <1>2 DEF IInv, TypeOK, historyVars
<1>7. MadeWasAgreed'
  BY <1>2, SameAgreed DEF historyVars
<1> QED
  BY <1>1, <1>2, <1>3, <1>4, <1>5, <1>6, <1>7, GoodStep

LEMMA LoadStep ==
  ASSUME IInv, NEW h \in Handler, NEW op \in Op, NEW q \in Quotation, Load(h, op, q),
         mishap' \in SUBSET Quotation, mishap \subseteq mishap',
         Checked([op |-> op, quo |-> q, row |-> table[q], inv |-> None, con |-> None])
  PROVE  IInv'
<1> USE QuotationsAssumption
<1> DEFINE t == [op |-> op, quo |-> q, row |-> table[q], inv |-> None, con |-> None]
<1>1. /\ task' = [task EXCEPT ![h] = t] /\ Exists(q) /\ table[q] \in Row
      /\ UNCHANGED <<table, issued, invoices, contracts, sweep, sent, agreed>>
  BY DEF Load, IInv, TypeOK, Exists
<1>2. t \in Task /\ Checked(t) /\ t.quo = q /\ t.row = table[q] /\ t.inv = None /\ t.con = None
  BY <1>1 DEF Task
<1> HIDE DEF t
<1>3. HeldGood(t, sent', agreed', mishap', invoices', contracts') /\ q \in issued'
  <2>1. Decided(q, table[q], sent, agreed, mishap) /\ Whole(q, table[q], invoices, contracts)
    BY <1>1 DEF IInv, RowsGood
  <2>2. Decided(q, table[q], sent', agreed', mishap') /\ Whole(q, table[q], invoices', contracts')
    BY <1>1, <2>1 DEF Decided, Whole
  <2> QED
    BY <1>1, <1>2, <2>2 DEF HeldGood, MadeSoFar, IInv, OnlyIssued
<1>4. \A g \in Handler : task'[g] = IF g = h THEN t ELSE task[g]
  BY <1>1 DEF IInv, TypeOK
<1>5. TypeOK'
  BY <1>1, <1>2 DEF IInv, TypeOK
<1>6. Grows /\ MadeWasAgreed'
  BY <1>1, SameGrows, SameAgreed
<1> QED
  BY <1>1, <1>2, <1>3, <1>4, <1>5, <1>6, GoodStep

LEMMA FindStep ==
  ASSUME IInv, NEW h \in Handler, NEW q \in Quotation, Finds(h, q)
  PROVE  IInv'
<1>1. PICK op \in Op :
        /\ Load(h, op, q)
        /\ op \in {"update", "send"} => table[q].status = "DRAFT"
        /\ op \in {"accept", "reject"} => table[q].status = "SENT"
        /\ op = "convert" => table[q].status = "ACCEPTED"
        /\ op = "remove" => table[q].status # "CONVERTED"
  BY DEF Finds, UpdateFind, RemoveFind, SendFind, AcceptFind, RejectFind, LinkFind, ConvertFind,
         StartConversion, Find, In, Op, Status
<1>2. Checked([op |-> op, quo |-> q, row |-> table[q], inv |-> None, con |-> None])
  BY <1>1 DEF Checked
<1>3. mishap' \in SUBSET Quotation /\ mishap \subseteq mishap'
  BY DEF Finds, UpdateFind, RemoveFind, SendFind, AcceptFind, RejectFind, LinkFind, ConvertFind,
         StartConversion, Find, IInv, TypeOK
<1> QED
  BY <1>1, <1>2, <1>3, LoadStep

LEMMA SweepStep ==
  ASSUME IInv, NEW h \in Handler, Sweeps(h)
  PROVE  IInv'
<1> USE QuotationsAssumption
<1>1. CASE \E late \in SUBSET Quotation : SweepFind(h, late)
  <2>1. /\ UNCHANGED <<table, issued, invoices, contracts, task, historyVars>>
        /\ sweep' \in [Handler -> SUBSET Quotation]
    BY <1>1 DEF SweepFind, IInv, TypeOK
  <2>2. TypeOK' /\ Grows /\ MadeWasAgreed'
    BY <2>1, SameGrows, SameAgreed DEF historyVars, IInv, TypeOK
  <2> QED
    BY <2>1, <2>2, GoodStep
<1>2. CASE SweepUpdate(h)
  <2>1. /\ UNCHANGED <<issued, invoices, contracts, task, historyVars>>
        /\ sweep' \in [Handler -> SUBSET Quotation]
    BY <1>2 DEF SweepUpdate, IInv, TypeOK
  <2>2. ASSUME NEW q \in Quotation
        PROVE  table'[q] = table[q]
                 \/ (/\ table'[q] \in Row /\ table'[q].status = "EXPIRED" /\ q \in issued
                     /\ q \notin mishap => Agree(table'[q]))
    <3>1. CASE q \in sweep[h] /\ Exists(q)
      <4>1. /\ table[q] \in Row /\ q \in issued /\ (q \notin mishap => Agree(table[q]))
            /\ table'[q] = [table[q] EXCEPT !.status = "EXPIRED"]
        BY <1>2, <3>1 DEF SweepUpdate, Exists, IInv, TypeOK, OnlyIssued, RowsGood, Decided
      <4> QED
        BY <4>1 DEF Row, Status, Agree
    <3> QED
      BY <1>2, <3>1 DEF SweepUpdate, IInv, TypeOK
  <2>3. \A q \in Quotation : table'[q] \in {table[q], None}
            \/ (/\ table'[q] \in Row
                /\ Decided(q, table'[q], sent', agreed', mishap')
                /\ Whole(q, table'[q], invoices', contracts') /\ q \in issued')
    BY <2>1, <2>2 DEF Decided, Whole, historyVars
  <2>4. TypeOK'
    <3>1. table' \in [Quotation -> Row \cup {None}]
      <4>1. \A q \in Quotation : table'[q] \in Row \cup {None}
        BY <2>2 DEF IInv, TypeOK
      <4> QED
        BY <1>2, <4>1 DEF SweepUpdate
    <3> QED
      BY <2>1, <3>1 DEF IInv, TypeOK, historyVars
  <2>5. Grows /\ MadeWasAgreed'
    BY <2>1, SameGrows, SameAgreed DEF historyVars
  <2> QED
    BY <2>1, <2>3, <2>4, <2>5, GoodStep
<1> QED
  BY <1>1, <1>2 DEF Sweeps

\* Making an invoice or a contract.
LEMMA MakeStep ==
  ASSUME IInv, NEW h \in Handler, Makes(h)
  PROVE  IInv'
<1> USE QuotationsAssumption
<1>1. /\ task[h] \in Task /\ task[h] # None /\ task[h].op = "convert"
      /\ HeldGood(task[h], sent, agreed, mishap, invoices, contracts)
      /\ task[h].quo \in issued
      /\ MadeFrom(h) \in Made /\ MadeFrom(h) = CopyOf(task[h]) /\ MadeFromAgreed(MadeFrom(h))
  <2>1. task[h] # None /\ task[h].op = "convert"
    BY DEF Makes, ConvertInvoice, ConvertContract, Working
  <2>2. /\ task[h] \in Task /\ HeldGood(task[h], sent, agreed, mishap, invoices, contracts)
        /\ task[h].quo \in issued
    BY <2>1, HeldTask DEF IInv, TasksGood, OnlyIssued
  <2>3. /\ task[h].row.terms \in agreed[task[h].quo]
        /\ task[h].quo \notin mishap => Agree(task[h].row)
    BY <2>1, <2>2 DEF HeldGood, Checked, Decided
  <2>4. MadeFrom(h) \in Made /\ MadeFrom(h) = CopyOf(task[h])
    BY <2>2 DEF MadeFrom, CopyOf, Made, Task, Row
  <2>5. MadeFromAgreed(MadeFrom(h))
    BY <2>3 DEF MadeFromAgreed, MadeFrom, Agree
  <2> QED
    BY <2>1, <2>2, <2>4, <2>5
<1>2. CASE \E i \in Invoice : ConvertInvoice(h, i)
  <2>1. PICK i \in Invoice : ConvertInvoice(h, i)
    BY <1>2
  <2> DEFINE t == [task[h] EXCEPT !.inv = i]
  <2>2. /\ invoices' = [invoices EXCEPT ![i] = MadeFrom(h)] /\ invoices[i] = None
        /\ task' = [task EXCEPT ![h] = t] /\ task[h].inv = None /\ task[h].con = None
        /\ UNCHANGED <<table, issued, contracts, sweep, historyVars>>
    BY <1>1, <2>1 DEF ConvertInvoice, HeldGood, MadeSoFar
  <2>3. /\ t \in Task /\ t.inv = i /\ t.con = task[h].con /\ t.quo = task[h].quo
        /\ t.row = task[h].row /\ t.op = task[h].op /\ CopyOf(t) = MadeFrom(h)
    BY <1>1 DEF Task, CopyOf
  <2> HIDE DEF t
  <2>4. invoices'[i] = MadeFrom(h) /\ \A j \in Invoice : j # i => invoices'[j] = invoices[j]
    BY <2>2 DEF IInv, TypeOK
  <2>5. Grows
    BY <2>2, <2>4 DEF Grows, historyVars
  <2>6. HeldGood(t, sent', agreed', mishap', invoices', contracts')
    <3>1. /\ t.quo \in Quotation /\ t.row \in Row
          /\ Decided(t.quo, t.row, sent, agreed, mishap) /\ Whole(t.quo, t.row, invoices, contracts)
      BY <1>1, <2>3 DEF HeldGood, Task
    <3>2. Decided(t.quo, t.row, sent', agreed', mishap') /\ Whole(t.quo, t.row, invoices', contracts')
      BY <2>5, <3>1, GrowsRow
    <3>3. Checked(t) /\ MadeSoFar(t, invoices', contracts')
      BY <1>1, <2>2, <2>3, <2>4 DEF HeldGood, Checked, MadeSoFar
    <3> QED
      BY <3>2, <3>3 DEF HeldGood
  <2>7. \A g \in Handler : task'[g] = IF g = h THEN t ELSE task[g]
    BY <2>2 DEF IInv, TypeOK
  <2>8. TypeOK'
    BY <1>1, <2>2, <2>3 DEF IInv, TypeOK, historyVars
  <2>9. MadeWasAgreed'
    BY <1>1, <2>2, <2>4 DEF IInv, MadeWasAgreed, MadeFromAgreed, historyVars
  <2>10. t.quo \in issued' /\ table' = table
    BY <1>1, <2>2, <2>3
  <2> QED
    BY <2>3, <2>5, <2>6, <2>7, <2>8, <2>9, <2>10, GoodStep
<1>3. CASE \E c \in Contract : ConvertContract(h, c)
  <2>1. PICK c \in Contract : ConvertContract(h, c)
    BY <1>3
  <2> DEFINE t == [task[h] EXCEPT !.con = c]
  <2>2. /\ contracts' = [contracts EXCEPT ![c] = MadeFrom(h)] /\ contracts[c] = None
        /\ task' = [task EXCEPT ![h] = t] /\ task[h].inv # None /\ task[h].con = None
        /\ UNCHANGED <<table, issued, invoices, sweep, historyVars>>
    BY <2>1 DEF ConvertContract
  <2>3. /\ t \in Task /\ t.con = c /\ t.inv = task[h].inv /\ t.quo = task[h].quo
        /\ t.row = task[h].row /\ t.op = task[h].op /\ CopyOf(t) = MadeFrom(h)
    BY <1>1 DEF Task, CopyOf
  <2> HIDE DEF t
  <2>4. contracts'[c] = MadeFrom(h) /\ \A d \in Contract : d # c => contracts'[d] = contracts[d]
    BY <2>2 DEF IInv, TypeOK
  <2>5. Grows
    BY <2>2, <2>4 DEF Grows, historyVars
  <2>6. HeldGood(t, sent', agreed', mishap', invoices', contracts')
    <3>1. /\ t.quo \in Quotation /\ t.row \in Row
          /\ Decided(t.quo, t.row, sent, agreed, mishap) /\ Whole(t.quo, t.row, invoices, contracts)
      BY <1>1, <2>3 DEF HeldGood, Task
    <3>2. Decided(t.quo, t.row, sent', agreed', mishap') /\ Whole(t.quo, t.row, invoices', contracts')
      BY <2>5, <3>1, GrowsRow
    <3>3. Checked(t) /\ MadeSoFar(t, invoices', contracts')
      BY <1>1, <2>2, <2>3, <2>4 DEF HeldGood, Checked, MadeSoFar
    <3> QED
      BY <3>2, <3>3 DEF HeldGood
  <2>7. \A g \in Handler : task'[g] = IF g = h THEN t ELSE task[g]
    BY <2>2 DEF IInv, TypeOK
  <2>8. TypeOK'
    BY <1>1, <2>2, <2>3 DEF IInv, TypeOK, historyVars
  <2>9. MadeWasAgreed'
    BY <1>1, <2>2, <2>4 DEF IInv, MadeWasAgreed, MadeFromAgreed, historyVars
  <2>10. t.quo \in issued' /\ table' = table
    BY <1>1, <2>2, <2>3
  <2> QED
    BY <2>3, <2>5, <2>6, <2>7, <2>8, <2>9, <2>10, GoodStep
<1> QED
  BY <1>2, <1>3 DEF Makes

\* A save that leaves the offer as it was loaded: unless it goes over a newer row,
\* the line items it leaves are those of that offer, loaded with them or not.
LEMMA KeepsOffer ==
  ASSUME IInv, NEW h \in Handler, task[h] # None, NEW r \in Row,
         r.terms = task[h].row.terms, r.items = task[h].row.items,
         SaveEntity(h, r) \/ SaveColumns(h, r)
  PROVE  \E row \in Row : /\ SaveEntity(h, row)
                          /\ row.status = r.status /\ row.terms = r.terms
                          /\ row.inv = r.inv /\ row.con = r.con
                          /\ task[h].quo \notin mishap' => Agree(row)
<1> DEFINE q == task[h].quo
           s == [r EXCEPT !.items = ItemsOf(q)]
<1>1. /\ q \in Quotation /\ task[h].row \in Row /\ table[q] \in Row \cup {None}
      /\ q \notin mishap => Agree(task[h].row)
  BY HeldTask DEF IInv, TypeOK, TasksGood, HeldGood, Decided
<1>2. ItemsOf(q) \in Terms \cup {None}
  BY <1>1 DEF ItemsOf, Exists, Row
<1>3. /\ s \in Row /\ s.items = ItemsOf(q) /\ s.status = r.status /\ s.terms = r.terms
      /\ s.inv = r.inv /\ s.con = r.con
  BY <1>2 DEF Row
<1>4. q \notin mishap' => q \notin mishap /\ ~Stale(h)
  BY DEF SaveEntity, SaveColumns
<1>5. ~Stale(h) => ItemsOf(q) = r.items
  BY <1>1, QuotationsAssumption DEF Stale, ItemsOf, Exists, Task
<1>6. q \notin mishap' => Agree(r) /\ Agree(s)
  BY <1>1, <1>3, <1>4, <1>5 DEF Agree
<1> QED
  BY <1>3, <1>6 DEF SaveColumns

\* Every handler saves a good row: what it held, with the change it was allowed.
LEMMA SavesStep ==
  ASSUME IInv, NEW h \in Handler, Saves(h)
  PROVE  IInv'
<1> USE QuotationsAssumption
<1>1. task[h] # None
  BY DEF Saves, UpdateSave, RemoveDelete, SendSave, AcceptSave, RejectSave, LinkSave, ConvertSave,
         Working
<1>2. /\ task[h] \in Task /\ task[h].quo \in Quotation /\ task[h].row \in Row
      /\ Checked(task[h]) /\ MadeSoFar(task[h], invoices, contracts)
      /\ Decided(task[h].quo, task[h].row, sent, agreed, mishap)
      /\ Whole(task[h].quo, task[h].row, invoices, contracts)
  BY <1>1, HeldTask DEF IInv, TasksGood, HeldGood
<1>3. sent \in [Quotation -> SUBSET Terms] /\ agreed \in [Quotation -> SUBSET Terms]
  BY DEF IInv, TypeOK
<1>4. ASSUME NEW row \in Row \cup {None}, SaveEntity(h, row), UNCHANGED <<sent, agreed>>,
             row # None => /\ Decided(task[h].quo, row, sent, agreed, mishap')
                           /\ Whole(task[h].quo, row, invoices, contracts)
      PROVE  IInv'
  <2>1. Grows
    BY <1>4, SameGrows DEF SaveEntity
  <2>2. row # None => Decided(task[h].quo, row, sent', agreed', mishap')
    BY <1>4 DEF Decided
  <2> QED
    BY <1>1, <1>3, <1>4, <2>1, <2>2, SaveStep
<1>5. CASE UpdateSave(h)
  <2>1. task[h].row.status = "DRAFT" /\ UNCHANGED <<sent, agreed>>
    BY <1>2, <1>5 DEF UpdateSave, Working, Checked
  <2>2. PICK row \in Row : /\ SaveEntity(h, row) /\ row.status = "DRAFT"
                           /\ task[h].quo \notin mishap' => Agree(row)
    <3>1. CASE SaveEntity(h, task[h].row)
      BY <1>1, <1>2, <2>1, <3>1, KeepsOffer
    <3>2. CASE \E t \in Terms : SaveEntity(h, [task[h].row EXCEPT !.terms = t, !.items = t])
      <4>1. PICK t \in Terms : SaveEntity(h, [task[h].row EXCEPT !.terms = t, !.items = t])
        BY <3>2
      <4>2. PICK row \in Row : row = [task[h].row EXCEPT !.terms = t, !.items = t]
        BY <1>2 DEF Row
      <4>3. row.status = "DRAFT" /\ Agree(row)
        BY <1>2, <2>1, <4>2 DEF Row, Agree
      <4> QED
        BY <4>1, <4>2, <4>3
    <3> QED
      BY <1>5, <3>1, <3>2 DEF UpdateSave
  <2>3. /\ Decided(task[h].quo, row, sent, agreed, mishap')
        /\ Whole(task[h].quo, row, invoices, contracts)
    BY <2>2 DEF Decided, Whole
  <2> QED
    BY <1>4, <2>1, <2>2, <2>3
<1>6. CASE RemoveDelete(h)
  BY <1>4, <1>6 DEF RemoveDelete
<1>7. CASE SendSave(h)
  <2>1. PICK r \in Row : r = [task[h].row EXCEPT !.status = "SENT"]
    BY <1>2 DEF Row, Status
  <2>2. /\ SaveEntity(h, r) /\ agreed' = agreed
        /\ sent' = [sent EXCEPT ![task[h].quo] = @ \cup {r.terms}]
        /\ r.status = "SENT" /\ r.terms = task[h].row.terms /\ r.items = task[h].row.items
    BY <1>2, <1>7, <2>1 DEF SendSave, Row
  <2>3. PICK row \in Row : /\ SaveEntity(h, row) /\ row.status = "SENT" /\ row.terms = r.terms
                           /\ task[h].quo \notin mishap' => Agree(row)
    BY <1>1, <2>2, KeepsOffer
  <2>4. sent' \in [Quotation -> SUBSET Terms] /\ agreed' \in [Quotation -> SUBSET Terms]
    BY <1>2, <1>3, <2>1, <2>2 DEF Row
  <2>5. Grows
    BY <1>2, <1>3, <2>2 DEF Grows, SaveEntity
  <2>6. row.terms \in sent'[task[h].quo]
    BY <1>2, <1>3, <2>2, <2>3
  <2>7. /\ Decided(task[h].quo, row, sent', agreed', mishap')
        /\ Whole(task[h].quo, row, invoices, contracts)
    BY <2>3, <2>6 DEF Decided, Whole
  <2> QED
    BY <1>1, <2>3, <2>4, <2>5, <2>7, SaveStep
<1>8. CASE AcceptSave(h)
  <2>1. PICK r \in Row : r = [task[h].row EXCEPT !.status = "ACCEPTED"]
    BY <1>2 DEF Row, Status
  <2>2. /\ SaveEntity(h, r) \/ SaveColumns(h, r)
        /\ sent' = sent /\ agreed' = [agreed EXCEPT ![task[h].quo] = @ \cup {r.terms}]
        /\ r.status = "ACCEPTED" /\ r.terms = task[h].row.terms /\ r.items = task[h].row.items
    BY <1>2, <1>8, <2>1 DEF AcceptSave, Answer, Row
  <2>3. PICK row \in Row : /\ SaveEntity(h, row) /\ row.status = "ACCEPTED" /\ row.terms = r.terms
                           /\ task[h].quo \notin mishap' => Agree(row)
    BY <1>1, <2>2, KeepsOffer
  <2>4. sent' \in [Quotation -> SUBSET Terms] /\ agreed' \in [Quotation -> SUBSET Terms]
    BY <1>2, <1>3, <2>1, <2>2 DEF Row
  <2>5. Grows
    BY <1>2, <1>3, <2>2, <2>3 DEF Grows, SaveEntity
  <2>6. row.terms \in sent'[task[h].quo] /\ row.terms \in agreed'[task[h].quo]
    BY <1>2, <1>3, <1>8, <2>2, <2>3 DEF AcceptSave, Working, Checked, Decided
  <2>7. /\ Decided(task[h].quo, row, sent', agreed', mishap')
        /\ Whole(task[h].quo, row, invoices, contracts)
    BY <2>3, <2>6 DEF Decided, Whole
  <2> QED
    BY <1>1, <2>3, <2>4, <2>5, <2>7, SaveStep
<1>9. CASE RejectSave(h)
  <2>1. PICK r \in Row : r = [task[h].row EXCEPT !.status = "REJECTED"]
    BY <1>2 DEF Row, Status
  <2>2. /\ (SaveEntity(h, r) \/ SaveColumns(h, r)) /\ UNCHANGED <<sent, agreed>>
        /\ r.status = "REJECTED" /\ r.terms = task[h].row.terms /\ r.items = task[h].row.items
    BY <1>2, <1>9, <2>1 DEF RejectSave, Answer, Row
  <2>3. PICK row \in Row : /\ SaveEntity(h, row) /\ row.status = "REJECTED" /\ row.terms = r.terms
                           /\ task[h].quo \notin mishap' => Agree(row)
    BY <1>1, <2>2, KeepsOffer
  <2>4. row.terms \in sent[task[h].quo]
    BY <1>2, <1>9, <2>2, <2>3 DEF RejectSave, Working, Checked, Decided
  <2>5. /\ Decided(task[h].quo, row, sent, agreed, mishap')
        /\ Whole(task[h].quo, row, invoices, contracts)
    BY <2>3, <2>4 DEF Decided, Whole
  <2> QED
    BY <1>4, <2>2, <2>3, <2>5
<1>10. CASE LinkSave(h)
  <2>1. SaveColumns(h, task[h].row) /\ UNCHANGED <<sent, agreed>>
    BY <1>10 DEF LinkSave
  <2>2. PICK row \in Row : /\ SaveEntity(h, row) /\ row.status = task[h].row.status
                           /\ row.terms = task[h].row.terms
                           /\ row.inv = task[h].row.inv /\ row.con = task[h].row.con
                           /\ task[h].quo \notin mishap' => Agree(row)
    BY <1>1, <1>2, <2>1, KeepsOffer
  <2>3. /\ Decided(task[h].quo, row, sent, agreed, mishap')
        /\ Whole(task[h].quo, row, invoices, contracts)
    BY <1>2, <2>2 DEF Decided, Whole
  <2> QED
    BY <1>4, <2>1, <2>2, <2>3
<1>11. CASE ConvertSave(h)
  <2>1. PICK r \in Row : r = [task[h].row EXCEPT !.status = "CONVERTED",
                                                 !.inv = task[h].inv, !.con = task[h].con]
    BY <1>2 DEF Row, Status, Task
  <2>2. /\ r.status = "CONVERTED" /\ r.terms = task[h].row.terms /\ r.items = task[h].row.items
        /\ r.inv = task[h].inv /\ r.con = task[h].con
        /\ SaveEntity(h, r) /\ UNCHANGED <<sent, agreed>>
    BY <1>2, <1>11, <2>1 DEF ConvertSave, Row
  <2>3. PICK row \in Row : /\ SaveEntity(h, row) /\ row.status = "CONVERTED" /\ row.terms = r.terms
                           /\ row.inv = r.inv /\ row.con = r.con
                           /\ task[h].quo \notin mishap' => Agree(row)
    BY <1>1, <2>2, KeepsOffer
  <2>4. row.terms \in sent[task[h].quo] /\ row.terms \in agreed[task[h].quo]
    BY <1>2, <1>11, <2>2, <2>3 DEF ConvertSave, Working, Checked, Decided
  <2>5. Decided(task[h].quo, row, sent, agreed, mishap')
    BY <2>3, <2>4 DEF Decided
  <2>6. /\ task[h].inv # None /\ invoices[task[h].inv] = CopyOf(task[h])
        /\ task[h].con # None /\ contracts[task[h].con] = CopyOf(task[h])
        /\ CopyOf(task[h]) # None
    BY <1>2, <1>11 DEF ConvertSave, MadeSoFar, CopyOf, Made, Task, Row
  <2>7. Whole(task[h].quo, row, invoices, contracts)
    BY <2>2, <2>3, <2>6 DEF Whole, CopyOf
  <2> QED
    BY <1>4, <2>2, <2>3, <2>5, <2>7
<1> QED
  BY <1>5, <1>6, <1>7, <1>8, <1>9, <1>10, <1>11 DEF Saves

LEMMA FailStep ==
  ASSUME IInv, (\E h \in Handler : Fails(h)) \/ Crash
  PROVE  IInv'
<1>1. /\ UNCHANGED <<table, issued, invoices, contracts, sent, agreed>>
      /\ task' \in [Handler -> Task \cup {None}]
      /\ \A g \in Handler : task'[g] \in {task[g], None}
      /\ sweep' \in [Handler -> SUBSET Quotation]
  <2>1. ASSUME NEW h \in Handler, Fails(h)
        PROVE  /\ UNCHANGED <<table, issued, invoices, contracts, sweep, sent, agreed>>
               /\ task' = [task EXCEPT ![h] = None]
    BY <2>1 DEF Fails, Done
  <2>2. CASE Crash
    BY <2>2 DEF Crash
  <2> QED
    BY <2>1, <2>2 DEF IInv, TypeOK
<1>2. mishap' \in SUBSET Quotation /\ mishap \subseteq mishap'
  <2>1. \A H \in SUBSET Handler : Torn(H) \in SUBSET Quotation
    BY HeldTask DEF Torn, IInv
  <2>2. CASE Crash
    BY <2>1, <2>2 DEF Crash, IInv, TypeOK
  <2>3. ASSUME NEW h \in Handler, Fails(h)
        PROVE  mishap' \in SUBSET Quotation /\ mishap \subseteq mishap'
    BY <2>1, <2>3 DEF Fails, IInv, TypeOK
  <2> QED
    BY <2>2, <2>3
<1>3. TypeOK'
  BY <1>1, <1>2 DEF IInv, TypeOK
<1>4. Grows /\ MadeWasAgreed'
  BY <1>1, <1>2, SameGrows, SameAgreed
<1> QED
  BY <1>1, <1>3, <1>4, GoodStep

LEMMA InvariantStep ==
  ASSUME IInv, [Next]_vars
  PROVE  IInv'
<1>1. CASE UNCHANGED vars
  BY <1>1 DEF vars, historyVars, IInv, TypeOK, RowsGood, TasksGood, OnlyIssued, MadeWasAgreed,
           MadeFromAgreed, Exists
<1> QED
  BY <1>1, CreateStep, FindStep, SavesStep, MakeStep, SweepStep, FailStep DEF Next

LEMMA InvariantHolds == Spec => []IInv
<1>1. Init => IInv
  BY DEF Init, IInv, TypeOK, RowsGood, TasksGood, OnlyIssued, MadeWasAgreed, Exists
<1>2. IInv /\ [Next]_vars => IInv'
  BY InvariantStep
<1> QED
  BY <1>1, <1>2, PTL DEF Spec

-----------------------------------------------------------------------------
\* Variables keep the values the code can give them.
THEOREM TypeCorrect == Spec => []TypeOK
<1>1. IInv => TypeOK
  BY DEF IInv
<1> QED
  BY <1>1, InvariantHolds, PTL

\* However requests overlap, a client decides on terms that were sent as they stand.
THEOREM ClientsDecideOnSentTerms == Spec => []DecidedOnSentTerms
<1>1. IInv => DecidedOnSentTerms
  BY QuotationsAssumption DEF IInv, RowsGood, Decided, DecidedOnSentTerms, In
<1> QED
  BY <1>1, InvariantHolds, PTL

\* However conversions overlap and fail, what they make has accepted terms.
THEOREM ConversionsWereAgreed == Spec => []MadeWasAgreed
<1>1. IInv => MadeWasAgreed
  BY DEF IInv
<1> QED
  BY <1>1, InvariantHolds, PTL

\* A half-done conversion never shows as CONVERTED, whatever is saved last.
THEOREM ConvertedMeansWhole == Spec => []ConvertedIsWhole
<1>1. IInv => ConvertedIsWhole
  <2> SUFFICES ASSUME IInv, NEW q \in Quotation, In(q, {"CONVERTED"})
               PROVE  LET r == table[q]
                      IN  /\ r.inv # None /\ r.con # None
                          /\ invoices[r.inv] # None /\ invoices[r.inv] = contracts[r.con]
                          /\ invoices[r.inv].quo = q /\ invoices[r.inv].terms = r.terms
                          /\ q \notin mishap => invoices[r.inv].items = r.items
    BY DEF ConvertedIsWhole
  <2>1. /\ table[q] \in Row /\ table[q].status = "CONVERTED"
        /\ Whole(q, table[q], invoices, contracts) /\ Decided(q, table[q], sent, agreed, mishap)
    BY QuotationsAssumption DEF IInv, TypeOK, RowsGood, In, Exists
  <2>2. table[q].inv \in Invoice
    BY <2>1 DEF Row, Whole
  <2> QED
    BY <2>1, <2>2 DEF Whole, Decided, Agree, IInv, MadeWasAgreed, MadeFromAgreed
<1> QED
  BY <1>1, InvariantHolds, PTL

-----------------------------------------------------------------------------
(* One invoice for each quotation.  Where no mishap was noted, what has been *)
(* invoiced is either being converted by the one handler that made the       *)
(* invoice, or has left every status from which it could be converted again. *)

Conv(t, q) == t # None /\ t.op = "convert" /\ t.quo = q

OnlyFrom(q, x, invs) == \A i \in Invoice : invs[i] # None /\ invs[i].quo = q => i = x

Invoiced(q, invs) == \E i \in Invoice : invs[i] # None /\ invs[i].quo = q

InvoicesOf(q) == {i \in Invoice : invoices[i] # None /\ invoices[i].quo = q}

Open == {"DRAFT", "SENT", "ACCEPTED", "REJECTED"}

Once(q) == /\ \A g, h \in Handler : Conv(task[g], q) /\ Conv(task[h], q) => g = h
           /\ \A h \in Handler : Conv(task[h], q) => OnlyFrom(q, task[h].inv, invoices)
           /\ Invoiced(q, invoices) /\ (\A h \in Handler : ~Conv(task[h], q)) =>
                ~In(q, Open) /\ \E x \in Invoice : OnlyFrom(q, x, invoices)

OnceInv == /\ \A q \in Quotation : Invoiced(q, invoices) => q \in issued
           /\ \A q \in Quotation \ mishap : Once(q)

\* Steps that neither start, advance nor end a conversion of q.
LEMMA OnceSame ==
  ASSUME NEW q \in Quotation, Once(q), invoices' = invoices,
         \A h \in Handler : task'[h] = task[h] \/ (~Conv(task[h], q) /\ ~Conv(task'[h], q)),
         table'[q] = table[q] \/ ~In(q, Open)' \/ ~Invoiced(q, invoices)
           \/ \E h \in Handler : Conv(task[h], q)
  PROVE  Once(q)'
<1>1. \A h \in Handler : Conv(task'[h], q) <=> Conv(task[h], q)
  BY DEF Conv
<1>2. \A h \in Handler : Conv(task[h], q) => task'[h] = task[h]
  OBVIOUS
<1>3. \A h \in Handler : Conv(task'[h], q) => OnlyFrom(q, task'[h].inv, invoices')
  BY <1>1, <1>2 DEF Once, OnlyFrom
<1>4. Invoiced(q, invoices') = Invoiced(q, invoices)
  BY DEF Invoiced
<1>5. \A x \in Invoice : OnlyFrom(q, x, invoices') = OnlyFrom(q, x, invoices)
  BY DEF OnlyFrom
<1>6. (Invoiced(q, invoices) /\ \A h \in Handler : ~Conv(task[h], q))
        => ~In(q, Open)' /\ \E x \in Invoice : OnlyFrom(q, x, invoices)
  BY DEF Once, In, Exists
<1> QED
  BY <1>1, <1>3, <1>4, <1>5, <1>6 DEF Once

LEMMA OnceLoads ==
  ASSUME IInv, OnceInv, NEW h \in Handler, NEW p \in Quotation, Finds(h, p),
         NEW q \in Quotation \ mishap'
  PROVE  Once(q)'
<1> USE QuotationsAssumption
<1>1. PICK op \in Op : /\ Load(h, op, p) /\ mishap \subseteq mishap'
                       /\ op = "convert" => In(p, {"ACCEPTED"}) /\ (p \notin mishap' => ~Converting(p))
  BY DEF Finds, UpdateFind, RemoveFind, SendFind, AcceptFind, RejectFind, LinkFind, ConvertFind,
         StartConversion, Find, Op
<1> DEFINE t == [op |-> op, quo |-> p, row |-> table[p], inv |-> None, con |-> None]
<1>2. /\ task' = [task EXCEPT ![h] = t] /\ task[h] = None /\ UNCHANGED <<table, invoices>>
      /\ t.op = op /\ t.quo = p /\ t.inv = None
  BY <1>1 DEF Load, Free
<1> HIDE DEF t
<1>3. \A g \in Handler : task'[g] = IF g = h THEN t ELSE task[g]
  BY <1>2 DEF IInv, TypeOK
<1>4. Once(q) /\ q \in Quotation
  BY <1>1 DEF OnceInv
<1>5. CASE op # "convert" \/ p # q
  BY <1>2, <1>3, <1>4, <1>5, OnceSame DEF Conv
<1>6. CASE op = "convert" /\ p = q
  <2>1. \A g \in Handler : ~Conv(task[g], q)
    BY <1>1, <1>6 DEF Converting, Working, Conv
  <2>2. ~Invoiced(q, invoices)
    BY <1>1, <1>4, <1>6, <2>1 DEF Once, In, Open
  <2>3. \A g \in Handler : Conv(task'[g], q) => g = h /\ task'[g].inv = None
    BY <1>2, <1>3, <2>1
  <2>4. ~Invoiced(q, invoices') /\ \A x : OnlyFrom(q, x, invoices')
    BY <1>2, <2>2 DEF Invoiced, OnlyFrom
  <2> QED
    BY <2>3, <2>4 DEF Once
<1> QED
  BY <1>5, <1>6

\* What a save leaves of its quotation.
LEMMA SavedStatus ==
  ASSUME IInv, NEW h \in Handler, Saves(h)
  PROVE  \E row :
           /\ SaveEntity(h, row)
           /\ task[h].op = "remove" => row = None
           /\ task[h].op # "remove" => row \in Row
           /\ task[h].op \in {"update", "link"} => row.status = task[h].row.status
           /\ task[h].op = "send" => row.status = "SENT"
           /\ task[h].op = "accept" => row.status = "ACCEPTED"
           /\ task[h].op = "reject" => row.status = "REJECTED"
           /\ task[h].op = "convert" => row.status = "CONVERTED"
<1> USE QuotationsAssumption
<1>1. /\ task[h] \in Task /\ task[h] # None /\ task[h].row \in Row
      /\ ItemsOf(task[h].quo) \in Terms \cup {None}
  BY HeldTask DEF Saves, UpdateSave, RemoveDelete, SendSave, AcceptSave, RejectSave, LinkSave,
         ConvertSave, Working, IInv, TypeOK, ItemsOf, Exists, Row
<1>2. CASE UpdateSave(h)
  <2>1. task[h].op = "update"
    BY <1>2 DEF UpdateSave, Working
  <2>2. CASE SaveEntity(h, task[h].row)
    BY <1>1, <2>1, <2>2
  <2>3. ASSUME NEW t \in Terms, SaveEntity(h, [task[h].row EXCEPT !.terms = t, !.items = t])
        PROVE  LET row == [task[h].row EXCEPT !.terms = t, !.items = t]
               IN  SaveEntity(h, row) /\ row \in Row /\ row.status = task[h].row.status
    BY <1>1, <2>3 DEF Row
  <2> QED
    BY <1>2, <2>1, <2>2, <2>3 DEF UpdateSave
<1>3. CASE SendSave(h)
  <2>1. LET row == [task[h].row EXCEPT !.status = "SENT"]
        IN  SaveEntity(h, row) /\ row \in Row /\ row.status = "SENT" /\ task[h].op = "send"
    BY <1>1, <1>3 DEF SendSave, Working, Row, Status
  <2> QED
    BY <2>1
<1>4. ASSUME NEW new \in {"ACCEPTED", "REJECTED"}, Answer(h, new)
      PROVE  \E row \in Row : SaveEntity(h, row) /\ row.status = new
  <2>1. PICK r \in Row : r = [task[h].row EXCEPT !.status = new]
    BY <1>1 DEF Row, Status
  <2>2. PICK s \in Row : s = [r EXCEPT !.items = ItemsOf(task[h].quo)]
    BY <1>1 DEF Row
  <2>3. r.status = new /\ s.status = new
    BY <1>1, <2>1, <2>2 DEF Row
  <2> QED
    BY <1>4, <2>1, <2>2, <2>3 DEF Answer, SaveColumns
<1>5. CASE AcceptSave(h)
  BY <1>4, <1>5 DEF AcceptSave, Working
<1>6. CASE RejectSave(h)
  BY <1>4, <1>6 DEF RejectSave, Working
<1>7. CASE ConvertSave(h)
  <2>1. LET row == [task[h].row EXCEPT !.status = "CONVERTED",
                                       !.inv = task[h].inv, !.con = task[h].con]
        IN  SaveEntity(h, row) /\ row \in Row /\ row.status = "CONVERTED" /\ task[h].op = "convert"
    BY <1>1, <1>7 DEF ConvertSave, Working, Row, Status, Task
  <2> QED
    BY <2>1
<1>8. CASE LinkSave(h)
  <2>1. PICK s \in Row : s = [task[h].row EXCEPT !.items = ItemsOf(task[h].quo)]
    BY <1>1 DEF Row
  <2>2. s.status = task[h].row.status
    BY <1>1, <2>1 DEF Row
  <2> QED
    BY <1>8, <2>1, <2>2 DEF LinkSave, SaveColumns, Working
<1>9. CASE RemoveDelete(h)
  BY <1>9 DEF RemoveDelete, Working
<1> QED
  BY <1>2, <1>3, <1>5, <1>6, <1>7, <1>8, <1>9 DEF Saves

LEMMA OnceSaves ==
  ASSUME IInv, OnceInv, NEW h \in Handler, Saves(h), NEW q \in Quotation \ mishap'
  PROVE  Once(q)'
<1> USE QuotationsAssumption
<1>1. /\ task[h] \in Task /\ task[h] # None /\ task[h].quo \in Quotation /\ task[h].row \in Row
      /\ Checked(task[h])
  BY HeldTask DEF Saves, UpdateSave, RemoveDelete, SendSave, AcceptSave, RejectSave, LinkSave,
         ConvertSave, Working, IInv, TasksGood, HeldGood
<1>2. PICK row : /\ SaveEntity(h, row)
                 /\ task[h].op = "remove" => row = None
                 /\ task[h].op = "link" => row.status = task[h].row.status
                 /\ task[h].op = "convert" => row.status = "CONVERTED"
  BY SavedStatus
<1>3. /\ \A p \in Quotation : table'[p] = IF p = task[h].quo THEN row ELSE table[p]
      /\ \A g \in Handler : task'[g] = IF g = h THEN None ELSE task[g]
      /\ invoices' = invoices /\ mishap \subseteq mishap'
      /\ task[h].quo = q => table[q] = task[h].row
  BY <1>1, <1>2 DEF SaveEntity, Done, Stale, IInv, TypeOK
<1>4. Once(q) /\ q \in Quotation
  BY <1>3 DEF OnceInv
<1>5. CASE task[h].quo # q
  <2>1. ~Conv(task[h], q) /\ ~Conv(task'[h], q) /\ table'[q] = table[q]
    BY <1>3, <1>4, <1>5 DEF Conv
  <2> QED
    BY <1>3, <1>4, <2>1, OnceSame
<1>6. CASE task[h].quo = q /\ task[h].op # "convert"
  <2>1. ~Conv(task[h], q) /\ ~Conv(task'[h], q)
    BY <1>3, <1>6 DEF Conv
  <2>2. ASSUME Invoiced(q, invoices), \A g \in Handler : ~Conv(task[g], q)
        PROVE  table'[q] = table[q] \/ ~In(q, Open)'
    <3>1. task[h].row.status \notin Open
      BY <1>1, <1>3, <1>4, <1>6, <2>2 DEF Once, In, Exists
    <3>2. task[h].op \in {"remove", "link"}
      BY <1>1, <1>6, <3>1 DEF Checked, Open, Task, Op
    <3>3. table'[q] = row /\ (row = None \/ row.status \notin Open)
      BY <1>2, <1>3, <1>4, <1>6, <3>1, <3>2
    <3> QED
      BY <3>3 DEF In, Exists
  <2> QED
    BY <1>3, <1>4, <2>1, <2>2, OnceSame
<1>7. CASE task[h].quo = q /\ task[h].op = "convert"
  <2>1. Conv(task[h], q)
    BY <1>1, <1>7 DEF Conv
  <2>2. \A g \in Handler : ~Conv(task'[g], q)
    BY <1>3, <1>4, <2>1 DEF Once, Conv
  <2>3. ~In(q, Open)'
    BY <1>2, <1>3, <1>4, <1>7 DEF In, Open
  <2>4. OnlyFrom(q, task[h].inv, invoices')
    BY <1>3, <1>4, <2>1 DEF Once, OnlyFrom
  <2>5. Invoiced(q, invoices') => task[h].inv \in Invoice
    BY <2>4 DEF Invoiced, OnlyFrom
  <2> QED
    BY <2>2, <2>3, <2>4, <2>5 DEF Once
<1> QED
  BY <1>5, <1>6, <1>7

LEMMA OnceMakes ==
  ASSUME IInv, OnceInv, NEW h \in Handler, Makes(h), NEW q \in Quotation \ mishap'
  PROVE  Once(q)'
<1> USE QuotationsAssumption
<1>1. /\ task[h] \in Task /\ task[h] # None /\ task[h].op = "convert"
      /\ UNCHANGED <<table, mishap>>
  BY HeldTask DEF Makes, ConvertInvoice, ConvertContract, Working, historyVars, IInv
<1>2. Once(q) /\ q \in Quotation
  BY <1>1 DEF OnceInv
<1>3. CASE \E i \in Invoice : ConvertInvoice(h, i)
  <2>1. PICK i \in Invoice : ConvertInvoice(h, i)
    BY <1>3
  <2>2. /\ \A j \in Invoice : invoices'[j] = IF j = i THEN MadeFrom(h) ELSE invoices[j]
        /\ invoices[i] = None /\ MadeFrom(h).quo = task[h].quo /\ task[h].inv = None
        /\ task' = [task EXCEPT ![h].inv = i]
    BY <2>1 DEF ConvertInvoice, MadeFrom, IInv, TypeOK
  <2>3. /\ task'[h] # None /\ task'[h].op = "convert" /\ task'[h].quo = task[h].quo
        /\ task'[h].inv = i
        /\ \A g \in Handler : g # h => task'[g] = task[g]
    <3>1. [task[h] EXCEPT !.inv = i] \in Task
      BY <1>1 DEF Task
    <3> QED
      BY <1>1, <2>2, <3>1 DEF IInv, TypeOK, Task
  <2>4. \A g \in Handler : Conv(task'[g], q) <=> Conv(task[g], q)
    BY <1>1, <2>3 DEF Conv
  <2>5. CASE task[h].quo = q
    <3>1. Conv(task[h], q) /\ OnlyFrom(q, None, invoices)
      BY <1>1, <1>2, <2>2, <2>5 DEF Conv, Once
    <3>2. OnlyFrom(q, i, invoices')
      BY <2>2, <3>1 DEF OnlyFrom
    <3>3. \A g \in Handler : Conv(task'[g], q) => g = h
      BY <1>2, <2>4, <3>1 DEF Once
    <3>4. \A g \in Handler : Conv(task'[g], q) => OnlyFrom(q, task'[g].inv, invoices')
      BY <2>3, <3>2, <3>3
    <3> QED
      BY <2>4, <3>1, <3>3, <3>4 DEF Once
  <2>6. CASE task[h].quo # q
    <3>1. \A x : OnlyFrom(q, x, invoices') <=> OnlyFrom(q, x, invoices)
      BY <2>2, <2>6 DEF OnlyFrom
    <3>2. Invoiced(q, invoices') <=> Invoiced(q, invoices)
      BY <2>2, <2>6 DEF Invoiced
    <3>3. \A g \in Handler : Conv(task'[g], q) => task'[g] = task[g]
      BY <2>3, <2>4, <2>6 DEF Conv
    <3>4. In(q, Open)' <=> In(q, Open)
      BY <1>1 DEF In, Exists
    <3> QED
      BY <1>2, <2>4, <3>1, <3>2, <3>3, <3>4 DEF Once
  <2> QED
    BY <2>5, <2>6
<1>4. CASE \E c \in Contract : ConvertContract(h, c)
  <2>1. PICK c \in Contract : ConvertContract(h, c)
    BY <1>4
  <2>2. invoices' = invoices /\ task' = [task EXCEPT ![h].con = c]
    BY <2>1 DEF ConvertContract
  <2>3. /\ task'[h] # None /\ task'[h].op = "convert" /\ task'[h].quo = task[h].quo
        /\ task'[h].inv = task[h].inv
        /\ \A g \in Handler : g # h => task'[g] = task[g]
    <3>1. [task[h] EXCEPT !.con = c] \in Task
      BY <1>1 DEF Task
    <3> QED
      BY <1>1, <2>2, <3>1 DEF IInv, TypeOK, Task
  <2>4. \A g \in Handler : /\ Conv(task'[g], q) <=> Conv(task[g], q)
                           /\ Conv(task[g], q) => task'[g].inv = task[g].inv
    BY <1>1, <2>3 DEF Conv
  <2>5. /\ \A x : OnlyFrom(q, x, invoices') <=> OnlyFrom(q, x, invoices)
        /\ Invoiced(q, invoices') <=> Invoiced(q, invoices)
        /\ In(q, Open)' <=> In(q, Open)
    BY <1>1, <2>2 DEF OnlyFrom, Invoiced, In, Exists
  <2>6. \A g \in Handler : Conv(task'[g], q) => OnlyFrom(q, task'[g].inv, invoices')
    BY <1>2, <2>4, <2>5 DEF Once
  <2> QED
    BY <1>2, <2>4, <2>5, <2>6 DEF Once
<1> QED
  BY <1>3, <1>4 DEF Makes

LEMMA OnceFails ==
  ASSUME IInv, OnceInv, (\E h \in Handler : Fails(h)) \/ Crash, NEW q \in Quotation \ mishap'
  PROVE  Once(q)'
<1> USE QuotationsAssumption
<1>1. /\ UNCHANGED <<table, invoices>> /\ mishap \subseteq mishap'
      /\ \A h \in Handler : task'[h] \in {task[h], None}
      /\ \A h \in Handler : task'[h] # task[h] /\ Conv(task[h], q) => task[h].inv = None
  <2>1. \A H \in SUBSET Handler : \A h \in H : q \notin Torn(H) /\ Conv(task[h], q) => task[h].inv = None
    BY DEF Torn, Conv
  <2>2. CASE Crash
    BY <2>1, <2>2 DEF Crash
  <2>3. ASSUME NEW h \in Handler, Fails(h)
        PROVE  /\ UNCHANGED <<table, invoices>> /\ mishap \subseteq mishap'
               /\ \A g \in Handler : task'[g] = IF g = h THEN None ELSE task[g]
               /\ Conv(task[h], q) => task[h].inv = None
    BY <2>1, <2>3 DEF Fails, Done, IInv, TypeOK
  <2> QED
    BY <2>2, <2>3
<1>2. Once(q) /\ q \in Quotation
  BY <1>1 DEF OnceInv
<1>3. CASE \A h \in Handler : task'[h] # task[h] => ~Conv(task[h], q)
  BY <1>1, <1>2, <1>3, OnceSame DEF Conv
<1>4. ASSUME NEW h \in Handler, task'[h] # task[h], Conv(task[h], q)
      PROVE  Once(q)'
  <2>1. \A g \in Handler : ~Conv(task'[g], q)
    BY <1>1, <1>2, <1>4 DEF Once, Conv
  <2>2. ~Invoiced(q, invoices')
    BY <1>1, <1>2, <1>4 DEF Once, OnlyFrom, Invoiced
  <2> QED
    BY <2>1, <2>2 DEF Once
<1> QED
  BY <1>3, <1>4

LEMMA OnceStep ==
  ASSUME IInv, OnceInv, [Next]_vars
  PROVE  OnceInv'
<1> USE QuotationsAssumption
<1>1. ASSUME NEW q \in Quotation, Invoiced(q, invoices')
      PROVE  q \in issued'
  <2>1. CASE UNCHANGED <<invoices, issued>>
    BY <1>1, <2>1 DEF OnceInv, Invoiced
  <2>2. CASE invoices' = invoices /\ issued \subseteq issued'
    BY <1>1, <2>2 DEF OnceInv, Invoiced
  <2>3. ASSUME NEW h \in Handler, Makes(h)
        PROVE  q \in issued'
    <3>1. task[h] # None /\ task[h].quo \in issued /\ issued' = issued
      BY <2>3 DEF Makes, ConvertInvoice, ConvertContract, Working, IInv, OnlyIssued
    <3>2. \A i \in Invoice : invoices'[i] = invoices[i] \/ invoices'[i].quo = task[h].quo
      BY <2>3 DEF Makes, ConvertInvoice, ConvertContract, MadeFrom, IInv, TypeOK
    <3> QED
      BY <1>1, <3>1, <3>2 DEF OnceInv, Invoiced
  <2>4. CASE \E p \in Quotation, t \in Terms : Create(p, t)
    BY <2>2, <2>4 DEF Create
  <2>5. ASSUME NEW h \in Handler, \/ \E p \in Quotation : Finds(h, p)
                                  \/ Saves(h) \/ Sweeps(h) \/ Fails(h)
        PROVE  UNCHANGED <<invoices, issued>>
    BY <2>5 DEF Finds, UpdateFind, RemoveFind, SendFind, AcceptFind, RejectFind, LinkFind,
         ConvertFind, StartConversion, Find, Load, Saves, UpdateSave, RemoveDelete, SendSave,
         AcceptSave, RejectSave, LinkSave, ConvertSave, Answer, SaveColumns, SaveEntity,
         Sweeps, SweepFind, SweepUpdate, Fails
  <2>6. CASE Crash \/ UNCHANGED vars
    BY <2>1, <2>6 DEF Crash, vars
  <2> QED
    BY <2>1, <2>3, <2>4, <2>5, <2>6 DEF Next
<1>2. ASSUME NEW q \in Quotation \ mishap'
      PROVE  Once(q)'
  <2>1. ASSUME NEW p \in Quotation, NEW t \in Terms, Create(p, t)
        PROVE  Once(q)'
    <3>1. /\ UNCHANGED <<invoices, task, mishap>> /\ p \notin issued
          /\ q # p => table'[q] = table[q]
      BY <2>1 DEF Create, historyVars, IInv, TypeOK
    <3>2. q = p => ~Invoiced(q, invoices)
      BY <3>1 DEF OnceInv
    <3> QED
      BY <3>1, <3>2, OnceSame DEF OnceInv
  <2>2. ASSUME NEW h \in Handler, Sweeps(h)
        PROVE  Once(q)'
    <3>1. /\ UNCHANGED <<invoices, task, mishap>>
          /\ table'[q] = table[q] \/ (table'[q] \in Row /\ table'[q].status = "EXPIRED")
      BY <2>2 DEF Sweeps, SweepFind, SweepUpdate, historyVars, IInv, TypeOK, Exists, Row, Status
    <3>2. table'[q] = table[q] \/ ~In(q, Open)'
      BY <3>1 DEF In, Open
    <3> QED
      BY <3>1, <3>2, OnceSame DEF OnceInv
  <2>3. CASE UNCHANGED vars
    BY <2>3, OnceSame DEF vars, historyVars, OnceInv
  <2> QED
    BY <2>1, <2>2, <2>3, OnceLoads, OnceSaves, OnceMakes, OnceFails DEF Next
<1> QED
  BY <1>1, <1>2 DEF OnceInv

\* A quotation is invoiced once unless a mishap was noted for it.
THEOREM QuotationsInvoicedOnce == Spec => []InvoicedOnce
<1>1. Init => OnceInv
  BY DEF Init, OnceInv, Once, Invoiced, Conv
<1>2. IInv /\ OnceInv /\ [Next]_vars => OnceInv'
  BY OnceStep
<1>3. ASSUME OnceInv PROVE InvoicedOnce
  <2> SUFFICES ASSUME NEW q \in Quotation \ mishap
               PROVE  Cardinality(InvoicesOf(q)) <= 1
    BY DEF InvoicedOnce, InvoicesOf
  <2>1. CASE InvoicesOf(q) = {}
    BY <2>1, FS_EmptySet
  <2>2. CASE InvoicesOf(q) # {}
    <3>1. PICK x : OnlyFrom(q, x, invoices)
      BY <1>3, <2>2 DEF OnceInv, Once, Invoiced, InvoicesOf
    <3>2. InvoicesOf(q) = {x}
      BY <2>2, <3>1 DEF OnlyFrom, InvoicesOf
    <3>3. Cardinality({x}) = 1
      BY FS_Singleton, Zenon
    <3> QED
      BY <3>2, <3>3
  <2> QED
    BY <2>1, <2>2
<1> QED
  BY <1>1, <1>2, <1>3, InvariantHolds, PTL DEF Spec

-----------------------------------------------------------------------------
(* The lifecycle: a step on current rows moves each quotation along the      *)
(* documented moves, because the status its handler checked still stands.    *)

Moved(q) == Seen(q)' = Seen(q) \/ <<Seen(q), Seen(q)'>> \in Documented

LEMMA Unmoved ==
  ASSUME NEW q \in Quotation, table'[q] = table[q], q \in issued' <=> q \in issued
  PROVE  Moved(q)
BY DEF Moved, Seen, Exists

LEMMA SaveMoves ==
  ASSUME IInv, Current, NEW h \in Handler, Saves(h), NEW q \in Quotation
  PROVE  Moved(q)
<1> USE QuotationsAssumption
<1>1. /\ task[h] \in Task /\ task[h] # None /\ task[h].quo \in Quotation /\ task[h].row \in Row
      /\ Checked(task[h]) /\ task[h].quo \in issued
  BY HeldTask DEF Saves, UpdateSave, RemoveDelete, SendSave, AcceptSave, RejectSave, LinkSave,
         ConvertSave, Working, IInv, TasksGood, HeldGood, OnlyIssued
<1>2. PICK row :
        /\ SaveEntity(h, row)
        /\ task[h].op = "remove" => row = None
        /\ task[h].op # "remove" => row \in Row
        /\ task[h].op \in {"update", "link"} => row.status = task[h].row.status
        /\ task[h].op = "send" => row.status = "SENT"
        /\ task[h].op = "accept" => row.status = "ACCEPTED"
        /\ task[h].op = "reject" => row.status = "REJECTED"
        /\ task[h].op = "convert" => row.status = "CONVERTED"
  BY SavedStatus
<1>3. /\ \A p \in Quotation : table'[p] = IF p = task[h].quo THEN row ELSE table[p]
      /\ issued' = issued /\ table[task[h].quo] = task[h].row
  BY <1>1, <1>2 DEF SaveEntity, Current, Stale, IInv, TypeOK
<1>4. CASE q # task[h].quo
  BY <1>3, <1>4, Unmoved
<1>5. CASE q = task[h].quo
  <2>1. /\ Seen(q) = task[h].row.status /\ task[h].row.status \in Status
        /\ Seen(q)' = IF task[h].op = "remove" THEN "deleted" ELSE row.status
    BY <1>1, <1>2, <1>3, <1>5 DEF Seen, Exists, Row
  <2> QED
    BY <1>1, <1>2, <2>1 DEF Moved, Documented, Checked, Task, Op
<1> QED
  BY <1>4, <1>5

LEMMA StepMoves ==
  ASSUME IInv, Current, [Next]_vars, NEW q \in Quotation
  PROVE  Moved(q)
<1> USE QuotationsAssumption
<1>1. ASSUME NEW p \in Quotation, NEW t \in Terms, Create(p, t)
      PROVE  Moved(q)
  <2> DEFINE row == [status |-> "DRAFT", terms |-> t, items |-> t, inv |-> None, con |-> None]
  <2>1. row \in Row /\ row.status = "DRAFT"
    BY DEF Row, Status
  <2>2. /\ \A x \in Quotation : table'[x] = IF x = p THEN row ELSE table[x]
        /\ p \notin issued /\ issued' = issued \cup {p} /\ ~Exists(p)
    BY <1>1 DEF Create, IInv, TypeOK, OnlyIssued
  <2> HIDE DEF row
  <2>3. CASE q = p
    <3>1. Seen(q) = "none" /\ Seen(q)' = "DRAFT"
      BY <2>1, <2>2, <2>3 DEF Seen, Exists
    <3> QED
      BY <3>1 DEF Moved, Documented
  <2> QED
    BY <2>2, <2>3, Unmoved
<1>2. ASSUME NEW h \in Handler, SweepUpdate(h)
      PROVE  Moved(q)
  <2>1. CASE q \in sweep[h]
    <3>1. /\ table[q] \in Row /\ table[q].status = "SENT" /\ table[q] # None
          /\ table'[q] = [table[q] EXCEPT !.status = "EXPIRED"]
      BY <1>2, <2>1 DEF SweepUpdate, Current, In, Exists, IInv, TypeOK
    <3>2. [table[q] EXCEPT !.status = "EXPIRED"] \in Row
      BY <3>1 DEF Row, Status
    <3>3. Seen(q) = "SENT" /\ Seen(q)' = "EXPIRED"
      BY <3>1, <3>2 DEF Seen, Exists, Row
    <3> QED
      BY <3>3 DEF Moved, Documented
  <2>2. CASE q \notin sweep[h]
    BY <1>2, <2>2, Unmoved DEF SweepUpdate
  <2> QED
    BY <2>1, <2>2
<1>3. CASE \E h \in Handler : \/ \E p \in Quotation : Finds(h, p)
                              \/ Makes(h) \/ Fails(h)
                              \/ \E late \in SUBSET Quotation : SweepFind(h, late)
  <2>1. UNCHANGED <<table, issued>>
    BY <1>3 DEF Finds, UpdateFind, RemoveFind, SendFind, AcceptFind, RejectFind, LinkFind,
         ConvertFind, StartConversion, Find, Load, Makes, ConvertInvoice, ConvertContract,
         Fails, SweepFind
  <2> QED
    BY <2>1, Unmoved
<1>4. CASE Crash \/ UNCHANGED vars
  BY <1>4, Unmoved DEF Crash, vars
<1> QED
  BY <1>1, <1>2, <1>3, <1>4, SaveMoves DEF Next, Sweeps

\* Whatever overlaps, a step taken while no handler holds an outdated quotation and
\* no sweep an outdated list follows the lifecycle of the entity's comment.
THEOREM QuotationsFollowLifecycle == Spec => QuotationLifecycle
<1>1. ASSUME IInv, [Next]_vars, Current
      PROVE  [Lifecycle!Next]_[q \in Quotation |-> Seen(q)]
  <2>1. \A q \in Quotation : Moved(q)
    BY <1>1, StepMoves
  <2> QED
    BY <2>1 DEF Moved, Lifecycle!Next
<1>2. IInv /\ [Next]_vars
        => [Current => [Lifecycle!Next]_[q \in Quotation |-> Seen(q)]]_vars
  BY <1>1
<1> QED
  BY <1>2, InvariantHolds, PTL DEF Spec, QuotationLifecycle

-----------------------------------------------------------------------------
(* Contracts.  Once a client's answer is saved, the request that saved it  *)
(* still has a copy to render.                                             *)

\* Row r of contract c against what was sent and what is in S3.
PaperGoodRow(c, r, offers, copies) ==
  /\ r.status \in {"SENT", "SIGNED", "REJECTED"} => r.body \in offers[c]
  /\ r.stored => copies[c] # None

\* The status each handler checked when it loaded the row; beyond its save a
\* request goes on with the text the client signed.
PaperChecked(t) ==
  /\ t.op \in {"update", "send", "remove"} => t.row.status = "DRAFT"
  /\ t.op \in {"accept", "reject"} /\ t.step = "loaded" => t.row.status = "SENT"
  /\ t.step # "loaded" => t.op = "accept"

PaperHeldGood(t, offers, yes, copies) ==
  /\ PaperChecked(t) /\ PaperGoodRow(t.con, t.row, offers, copies)
  /\ t.step # "loaded" => t.row.body \in yes[t.con]
  /\ t.step = "record" => copies[t.con] # None

PaperRowsGood == \A c \in Paper : C!Exists(c) => PaperGoodRow(c, papers[c], paperSent, files)

PaperTasksGood == \A h \in Handler : paperTask[h] # None => PaperHeldGood(paperTask[h], paperSent, signed, files)

PaperFilesSigned == \A c \in Paper : files[c] # None => files[c] \in signed[c]

PaperOnlyIssued == /\ \A c \in Paper : C!Exists(c) => c \in paperIssued
                   /\ \A h \in Handler : paperTask[h] # None => paperTask[h].con \in paperIssued

PaperIInv == C!TypeOK /\ PaperRowsGood /\ PaperTasksGood /\ PaperFilesSigned /\ PaperOnlyIssued

\* Histories and stored copies only grow.
PaperGrows == /\ \A c \in Paper : paperSent[c] \subseteq paperSent'[c] /\ signed[c] \subseteq signed'[c]
              /\ \A c \in Paper : files[c] # None => files'[c] # None
              /\ paperIssued \subseteq paperIssued'

-----------------------------------------------------------------------------
LEMMA PaperHeldTask ==
  ASSUME C!TypeOK, NEW h \in Handler, paperTask[h] # None
  PROVE  /\ paperTask[h] \in C!Task /\ paperTask[h].con \in Paper /\ paperTask[h].row \in C!Row
         /\ paperTask[h].op \in C!Op
BY DEF C!TypeOK, C!Task

\* Any step in which every row and every task is an old one or a good one.
LEMMA PaperGoodStep ==
  ASSUME PaperIInv, PaperGrows, C!TypeOK', PaperFilesSigned',
         \A c \in Paper : papers'[c] \in {papers[c], None}
            \/ (papers'[c] \in C!Row /\ PaperGoodRow(c, papers'[c], paperSent', files') /\ c \in paperIssued'),
         \A h \in Handler : paperTask'[h] \in {paperTask[h], None}
            \/ (/\ paperTask'[h] \in C!Task /\ paperTask'[h].con \in paperIssued'
                /\ PaperHeldGood(paperTask'[h], paperSent', signed', files'))
  PROVE  PaperIInv'
<1>1. PaperRowsGood'
  <2> SUFFICES ASSUME NEW c \in Paper, papers'[c] # None
               PROVE  PaperGoodRow(c, papers'[c], paperSent', files')
    BY DEF PaperRowsGood, C!Exists
  <2>1. CASE papers'[c] = papers[c]
    BY <2>1 DEF PaperIInv, PaperRowsGood, C!Exists, PaperGoodRow, PaperGrows
  <2> QED
    BY <2>1
<1>2. PaperTasksGood'
  <2> SUFFICES ASSUME NEW h \in Handler, paperTask'[h] # None
               PROVE  PaperHeldGood(paperTask'[h], paperSent', signed', files')
    BY DEF PaperTasksGood
  <2>1. CASE paperTask'[h] = paperTask[h]
    <3>1. paperTask[h].con \in Paper /\ PaperHeldGood(paperTask[h], paperSent, signed, files)
      BY <2>1, PaperHeldTask DEF PaperIInv, PaperTasksGood
    <3> QED
      BY <2>1, <3>1 DEF PaperHeldGood, PaperGoodRow, PaperGrows
  <2> QED
    BY <2>1
<1>3. PaperOnlyIssued'
  BY DEF PaperIInv, PaperOnlyIssued, C!Exists, PaperGrows
<1> QED
  BY <1>1, <1>2, <1>3 DEF PaperIInv

LEMMA PaperCreateStep ==
  ASSUME C!ContractsAssumption, PaperIInv, NEW c \in Paper, NEW b \in Body, C!Create(c, b)
  PROVE  PaperIInv'
<1> DEFINE row == [status |-> "DRAFT", body |-> b, stored |-> FALSE]
<1>1. row \in C!Row /\ PaperGoodRow(c, row, paperSent', files')
  BY DEF C!Row, C!Status, PaperGoodRow
<1>2. /\ papers' = [papers EXCEPT ![c] = row] /\ paperIssued' = paperIssued \cup {c}
      /\ UNCHANGED <<files, paperTask, C!historyVars>>
  BY DEF C!Create
<1> HIDE DEF row
<1>3. C!TypeOK' /\ PaperGrows /\ PaperFilesSigned'
  BY <1>1, <1>2 DEF PaperIInv, C!TypeOK, PaperGrows, PaperFilesSigned, C!historyVars
<1>4. \A p \in Paper : papers'[p] = IF p = c THEN row ELSE papers[p]
  BY <1>2 DEF PaperIInv, C!TypeOK
<1> QED
  BY <1>1, <1>2, <1>3, <1>4, PaperGoodStep

LEMMA PaperFindStep ==
  ASSUME C!ContractsAssumption, PaperIInv, NEW h \in Handler, NEW c \in Paper, C!Finds(h, c)
  PROVE  PaperIInv'
<1>1. PICK op \in C!Op :
        /\ C!Find(h, op, c)
        /\ op \in {"update", "send", "remove"} => papers[c].status = "DRAFT"
        /\ op \in {"accept", "reject"} => papers[c].status = "SENT"
  BY DEF C!Finds, C!UpdateFind, C!RemoveFind, C!SendFind, C!AcceptFind, C!RejectFind, C!LinkFind,
       C!In, C!Op
<1> DEFINE t == [op |-> op, con |-> c, row |-> papers[c], step |-> "loaded"]
<1>2. /\ paperTask' = [paperTask EXCEPT ![h] = t] /\ C!Exists(c) /\ papers[c] \in C!Row
      /\ UNCHANGED <<papers, paperIssued, files, C!historyVars>>
  BY <1>1 DEF C!Find, PaperIInv, C!TypeOK, C!Exists
<1>3. t \in C!Task /\ PaperChecked(t) /\ t.con = c /\ t.row = papers[c] /\ t.step = "loaded"
  BY <1>1, <1>2 DEF C!Task, PaperChecked
<1> HIDE DEF t
<1>4. PaperHeldGood(t, paperSent', signed', files') /\ c \in paperIssued'
  BY <1>2, <1>3 DEF PaperHeldGood, PaperIInv, PaperRowsGood, PaperOnlyIssued, C!historyVars
<1>5. \A g \in Handler : paperTask'[g] = IF g = h THEN t ELSE paperTask[g]
  BY <1>2 DEF PaperIInv, C!TypeOK
<1>6. C!TypeOK' /\ PaperGrows /\ PaperFilesSigned'
  BY <1>2, <1>3 DEF PaperIInv, C!TypeOK, PaperGrows, PaperFilesSigned, C!historyVars
<1> QED
  BY <1>2, <1>3, <1>4, <1>5, <1>6, PaperGoodStep

\* What each save stores.
LEMMA PaperSavedRow ==
  ASSUME PaperIInv, NEW h \in Handler, C!Saves(h)
  PROVE  /\ paperTask[h] \in C!Task /\ paperTask[h] # None /\ paperTask[h].con \in Paper /\ paperTask[h].row \in C!Row
         /\ paperTask[h].step = "loaded" /\ paperTask[h].con \in paperIssued
         /\ PaperHeldGood(paperTask[h], paperSent, signed, files)
         /\ \E row \in C!Row \cup {None} :
              /\ C!SaveEntity(h, row)
              /\ paperTask[h].op = "remove" => row = None
              /\ paperTask[h].op # "remove" => row \in C!Row /\ row.stored = paperTask[h].row.stored
              /\ paperTask[h].op = "update" => row.status = "DRAFT"
              /\ paperTask[h].op \notin {"remove", "update"} => row.body = paperTask[h].row.body
              /\ paperTask[h].op = "link" => row = paperTask[h].row
              /\ paperTask[h].op = "send" => row.status = "SENT"
                   /\ paperSent' = [paperSent EXCEPT ![paperTask[h].con] = @ \cup {row.body}]
              /\ paperTask[h].op = "accept" => row.status = "SIGNED"
                   /\ signed' = [signed EXCEPT ![paperTask[h].con] = @ \cup {row.body}]
                   /\ paperTask' = [paperTask EXCEPT ![h].row = row, ![h].step = "upload"]
              /\ paperTask[h].op = "reject" => row.status = "REJECTED"
              /\ paperTask[h].op # "send" => paperSent' = paperSent
              /\ paperTask[h].op # "accept" => signed' = signed /\ C!Done(h)
<1>1. /\ paperTask[h] \in C!Task /\ paperTask[h] # None /\ paperTask[h].con \in Paper /\ paperTask[h].row \in C!Row
      /\ paperTask[h].step = "loaded" /\ paperTask[h].con \in paperIssued
      /\ PaperHeldGood(paperTask[h], paperSent, signed, files)
  BY PaperHeldTask DEF C!Saves, C!UpdateSave, C!RemoveDelete, C!SendSave, C!AcceptSave,
       C!RejectSave, C!LinkSave,
         C!Working, PaperIInv, PaperTasksGood, PaperOnlyIssued
<1>2. ASSUME NEW b \in Body, C!UpdateSave(h, b)
      PROVE  LET row == [paperTask[h].row EXCEPT !.body = b]
             IN  /\ C!SaveEntity(h, row) /\ row \in C!Row /\ row.status = "DRAFT"
                 /\ row.stored = paperTask[h].row.stored
                 /\ paperTask[h].op = "update" /\ UNCHANGED <<paperSent, signed>> /\ C!Done(h)
  BY <1>1, <1>2 DEF C!UpdateSave, C!Working, C!Row, PaperHeldGood, PaperChecked
<1>3. ASSUME C!SendSave(h)
      PROVE  LET row == [paperTask[h].row EXCEPT !.status = "SENT"]
             IN  /\ C!SaveEntity(h, row) /\ row \in C!Row /\ row.status = "SENT"
                 /\ row.body = paperTask[h].row.body /\ row.stored = paperTask[h].row.stored
                 /\ paperSent' = [paperSent EXCEPT ![paperTask[h].con] = @ \cup {row.body}]
                 /\ paperTask[h].op = "send" /\ signed' = signed /\ C!Done(h)
  BY <1>1, <1>3 DEF C!SendSave, C!Working, C!Row, C!Status
<1>4. ASSUME C!AcceptSave(h)
      PROVE  LET row == [paperTask[h].row EXCEPT !.status = "SIGNED"]
             IN  /\ C!SaveEntity(h, row) /\ row \in C!Row /\ row.status = "SIGNED"
                 /\ row.body = paperTask[h].row.body /\ row.stored = paperTask[h].row.stored
                 /\ signed' = [signed EXCEPT ![paperTask[h].con] = @ \cup {row.body}]
                 /\ paperTask' = [paperTask EXCEPT ![h].row = row, ![h].step = "upload"]
                 /\ paperTask[h].op = "accept" /\ paperSent' = paperSent
  BY <1>1, <1>4 DEF C!AcceptSave, C!Working, C!Row, C!Status
<1>5. ASSUME C!RejectSave(h)
      PROVE  LET row == [paperTask[h].row EXCEPT !.status = "REJECTED"]
             IN  /\ C!SaveEntity(h, row) /\ row \in C!Row /\ row.status = "REJECTED"
                 /\ row.body = paperTask[h].row.body /\ row.stored = paperTask[h].row.stored
                 /\ paperTask[h].op = "reject" /\ UNCHANGED <<paperSent, signed>> /\ C!Done(h)
  BY <1>1, <1>5 DEF C!RejectSave, C!Working, C!Row, C!Status
<1>6. ASSUME C!RemoveDelete(h)
      PROVE  /\ C!SaveEntity(h, None) /\ paperTask[h].op = "remove"
             /\ UNCHANGED <<paperSent, signed>> /\ C!Done(h)
  BY <1>6 DEF C!RemoveDelete, C!Working
<1>7. ASSUME C!LinkSave(h)
      PROVE  /\ C!SaveEntity(h, paperTask[h].row) /\ paperTask[h].op = "link"
             /\ UNCHANGED <<paperSent, signed>> /\ C!Done(h)
  BY <1>7 DEF C!LinkSave, C!Working
<1> QED
  BY <1>1, <1>2, <1>3, <1>4, <1>5, <1>6, <1>7 DEF C!Saves

LEMMA PaperSavesStep ==
  ASSUME C!ContractsAssumption, PaperIInv, NEW h \in Handler, C!Saves(h)
  PROVE  PaperIInv'
<1>1. /\ paperTask[h] \in C!Task /\ paperTask[h] # None /\ paperTask[h].con \in Paper /\ paperTask[h].row \in C!Row
      /\ paperTask[h].step = "loaded" /\ paperTask[h].con \in paperIssued
      /\ PaperHeldGood(paperTask[h], paperSent, signed, files)
  BY PaperSavedRow
<1> DEFINE c == paperTask[h].con
<1>2. PICK row \in C!Row \cup {None} :
        /\ C!SaveEntity(h, row)
        /\ paperTask[h].op = "remove" => row = None
        /\ paperTask[h].op # "remove" => row \in C!Row /\ row.stored = paperTask[h].row.stored
        /\ paperTask[h].op = "update" => row.status = "DRAFT"
        /\ paperTask[h].op \notin {"remove", "update"} => row.body = paperTask[h].row.body
        /\ paperTask[h].op = "link" => row = paperTask[h].row
        /\ paperTask[h].op = "send" => row.status = "SENT"
             /\ paperSent' = [paperSent EXCEPT ![paperTask[h].con] = @ \cup {row.body}]
        /\ paperTask[h].op = "accept" => row.status = "SIGNED"
             /\ signed' = [signed EXCEPT ![paperTask[h].con] = @ \cup {row.body}]
             /\ paperTask' = [paperTask EXCEPT ![h].row = row, ![h].step = "upload"]
        /\ paperTask[h].op = "reject" => row.status = "REJECTED"
        /\ paperTask[h].op # "send" => paperSent' = paperSent
        /\ paperTask[h].op # "accept" => signed' = signed /\ C!Done(h)
  BY PaperSavedRow
<1>3. /\ UNCHANGED <<paperIssued, files>>
      /\ \A p \in Paper : papers'[p] = IF p = c THEN row ELSE papers[p]
      /\ papers' \in [Paper -> C!Row \cup {None}] /\ paperMishap' \in SUBSET Paper
  BY <1>1, <1>2 DEF C!SaveEntity, PaperIInv, C!TypeOK
<1>4. /\ paperSent' \in [Paper -> SUBSET Body]
      /\ \A p \in Paper : paperSent[p] \subseteq paperSent'[p]
      /\ paperTask[h].op = "send" => row.body \in paperSent'[c]
  BY <1>1, <1>2 DEF PaperIInv, C!TypeOK, C!Row
<1>5. /\ signed' \in [Paper -> SUBSET Body]
      /\ \A p \in Paper : signed[p] \subseteq signed'[p]
      /\ paperTask[h].op = "accept" => row.body \in signed'[c]
  BY <1>1, <1>2 DEF PaperIInv, C!TypeOK, C!Row
<1>6. PaperGrows /\ PaperFilesSigned'
  BY <1>3, <1>4, <1>5 DEF PaperGrows, PaperIInv, PaperFilesSigned
<1>7. row # None => row \in C!Row /\ PaperGoodRow(c, row, paperSent', files')
  <2>1. PaperGoodRow(c, paperTask[h].row, paperSent', files') /\ PaperChecked(paperTask[h])
    BY <1>1, <1>3, <1>4 DEF PaperHeldGood, PaperGoodRow
  <2> QED
    BY <1>1, <1>2, <1>3, <1>4, <2>1 DEF PaperGoodRow, PaperChecked, C!Task, C!Op
<1>8. CASE paperTask[h].op # "accept"
  <2>1. paperTask' \in [Handler -> C!Task \cup {None}] /\ \A g \in Handler : paperTask'[g] \in {paperTask[g], None}
    BY <1>2, <1>8 DEF C!Done, PaperIInv, C!TypeOK
  <2>2. C!TypeOK'
    BY <1>3, <1>4, <1>5, <2>1 DEF PaperIInv, C!TypeOK
  <2> QED
    BY <1>1, <1>3, <1>6, <1>7, <2>1, <2>2, PaperGoodStep
<1>9. CASE paperTask[h].op = "accept"
  <2> DEFINE t == [paperTask[h] EXCEPT !.row = row, !.step = "upload"]
  <2>1. row \in C!Row /\ row # None
    BY <1>2, <1>9 DEF C!ContractsAssumption
  <2>2. t \in C!Task /\ t.op = "accept" /\ t.con = c /\ t.row = row /\ t.step = "upload"
    BY <1>1, <1>9, <2>1 DEF C!Task
  <2>3. paperTask' = [paperTask EXCEPT ![h] = t]
    BY <1>2, <1>9
  <2> HIDE DEF t
  <2>4. paperTask' \in [Handler -> C!Task \cup {None}] /\ \A g \in Handler : paperTask'[g] = IF g = h THEN t ELSE paperTask[g]
    BY <2>2, <2>3 DEF PaperIInv, C!TypeOK
  <2>5. C!TypeOK'
    BY <1>3, <1>4, <1>5, <2>4 DEF PaperIInv, C!TypeOK
  <2>6. PaperHeldGood(t, paperSent', signed', files') /\ t.con \in paperIssued'
    BY <1>1, <1>3, <1>5, <1>7, <1>9, <2>1, <2>2 DEF PaperHeldGood, PaperChecked
  <2> QED
    BY <1>1, <1>3, <1>6, <1>7, <2>2, <2>4, <2>5, <2>6, PaperGoodStep
<1> QED
  BY <1>8, <1>9

\* Rendering: what is stored in S3 is what the client signed.
LEMMA PaperRenderStep ==
  ASSUME C!ContractsAssumption, PaperIInv, NEW h \in Handler, C!Upload(h) \/ C!Record(h)
  PROVE  PaperIInv'
<1>1. /\ paperTask[h] \in C!Task /\ paperTask[h] # None /\ paperTask[h].con \in Paper /\ paperTask[h].row \in C!Row
      /\ PaperHeldGood(paperTask[h], paperSent, signed, files) /\ paperTask[h].con \in paperIssued
  BY PaperHeldTask DEF C!Upload, C!Record, C!Working, PaperIInv, PaperTasksGood, PaperOnlyIssued
<1>2. CASE C!Upload(h)
  <2> DEFINE t == [paperTask[h] EXCEPT !.step = "record"]
  <2>1. /\ t \in C!Task /\ t.op = "accept" /\ t.con = paperTask[h].con /\ t.row = paperTask[h].row
        /\ t.step = "record" /\ paperTask[h].step = "upload"
    BY <1>1, <1>2 DEF C!Task, C!Upload, C!Working
  <2>2. /\ paperTask' = [paperTask EXCEPT ![h] = t]
        /\ files' = [files EXCEPT ![paperTask[h].con] = paperTask[h].row.body]
        /\ UNCHANGED <<papers, paperIssued, C!historyVars>>
    BY <1>2 DEF C!Upload
  <2> HIDE DEF t
  <2>3. \A g \in Handler : paperTask'[g] = IF g = h THEN t ELSE paperTask[g]
    BY <2>2 DEF PaperIInv, C!TypeOK
  <2>4. /\ \A c \in Paper : files'[c] = IF c = paperTask[h].con THEN paperTask[h].row.body ELSE files[c]
        /\ paperTask[h].row.body \in Body /\ paperTask[h].row.body # None
    BY <1>1, <2>2 DEF PaperIInv, C!TypeOK, C!Row, C!ContractsAssumption
  <2>5. PaperFilesSigned' /\ PaperGrows
    BY <1>1, <2>1, <2>2, <2>4 DEF PaperFilesSigned, PaperGrows, PaperHeldGood, C!historyVars,
         PaperIInv
  <2>6. C!TypeOK'
    BY <2>1, <2>2, <2>4 DEF PaperIInv, C!TypeOK, C!historyVars
  <2>7. PaperHeldGood(t, paperSent', signed', files') /\ t.con \in paperIssued'
    BY <1>1, <2>1, <2>2, <2>4 DEF PaperHeldGood, PaperGoodRow, PaperChecked, C!historyVars
  <2> QED
    BY <2>1, <2>2, <2>3, <2>5, <2>6, <2>7, PaperGoodStep
<1>3. CASE C!Record(h)
  <2> DEFINE c == paperTask[h].con
  <2>1. /\ UNCHANGED <<paperIssued, files, C!historyVars>> /\ paperTask[h].step = "record"
        /\ \A g \in Handler : paperTask'[g] \in {paperTask[g], None}
        /\ paperTask' \in [Handler -> C!Task \cup {None}]
    BY <1>3 DEF C!Record, C!Working, C!Done, PaperIInv, C!TypeOK
  <2>2. PaperGrows /\ PaperFilesSigned'
    BY <2>1 DEF PaperGrows, PaperFilesSigned, PaperIInv, C!historyVars
  <2>3. CASE ~C!Exists(c)
    <3>1. papers' = papers
      BY <1>3, <2>3 DEF C!Record
    <3> QED
      BY <2>1, <2>2, <3>1, PaperGoodStep DEF PaperIInv, C!TypeOK, C!historyVars
  <2>4. CASE C!Exists(c)
    <3> DEFINE row == [papers[c] EXCEPT !.stored = TRUE]
    <3>1. papers[c] \in C!Row /\ PaperGoodRow(c, papers[c], paperSent, files)
      BY <1>1, <2>4 DEF PaperIInv, C!TypeOK, PaperRowsGood, C!Exists
    <3>2. row \in C!Row /\ row.status = papers[c].status /\ row.body = papers[c].body /\ row.stored
      BY <3>1 DEF C!Row
    <3>3. papers' = [papers EXCEPT ![c] = row]
      BY <1>3, <2>4 DEF C!Record
    <3> HIDE DEF row
    <3>4. \A p \in Paper : papers'[p] = IF p = c THEN row ELSE papers[p]
      BY <3>3 DEF PaperIInv, C!TypeOK
    <3>5. PaperGoodRow(c, row, paperSent', files')
      BY <1>1, <2>1, <3>1, <3>2 DEF PaperGoodRow, PaperHeldGood, C!historyVars
    <3>6. C!TypeOK'
      BY <2>1, <3>2, <3>3 DEF PaperIInv, C!TypeOK, C!historyVars
    <3> QED
      BY <1>1, <2>1, <2>2, <3>2, <3>4, <3>5, <3>6, PaperGoodStep
  <2> QED
    BY <2>3, <2>4
<1> QED
  BY <1>2, <1>3

LEMMA PaperFailStep ==
  ASSUME C!ContractsAssumption, PaperIInv, (\E h \in Handler : C!Fails(h)) \/ C!Crash
  PROVE  PaperIInv'
<1>1. \A H \in SUBSET Handler : C!Unstored(H) \subseteq Paper
  BY PaperHeldTask DEF C!Unstored, PaperIInv
<1>2. /\ UNCHANGED <<papers, paperIssued, files, paperSent, signed>> /\ paperMishap' \in SUBSET Paper
      /\ paperTask' \in [Handler -> C!Task \cup {None}]
      /\ \A g \in Handler : paperTask'[g] \in {paperTask[g], None}
  BY <1>1 DEF C!Fails, C!Crash, C!Done, PaperIInv, C!TypeOK
<1>3. C!TypeOK' /\ PaperGrows /\ PaperFilesSigned'
  BY <1>2 DEF PaperIInv, C!TypeOK, PaperGrows, PaperFilesSigned
<1> QED
  BY <1>2, <1>3, PaperGoodStep

LEMMA PaperInvariantStep ==
  ASSUME C!ContractsAssumption, PaperIInv, [C!Next]_C!vars
  PROVE  PaperIInv'
<1>1. CASE UNCHANGED C!vars
  BY <1>1 DEF C!vars, C!historyVars, PaperIInv, C!TypeOK, PaperRowsGood, PaperTasksGood,
       PaperFilesSigned, PaperOnlyIssued, C!Exists
<1> QED
  BY <1>1, PaperCreateStep, PaperFindStep, PaperSavesStep, PaperRenderStep, PaperFailStep DEF C!Next

LEMMA PaperInvariantHolds == ASSUME C!ContractsAssumption PROVE C!Spec => []PaperIInv
<1>1. C!Init => PaperIInv
  BY DEF C!Init, PaperIInv, C!TypeOK, PaperRowsGood, PaperTasksGood, PaperFilesSigned,
       PaperOnlyIssued, C!Exists
<1>2. PaperIInv /\ [C!Next]_C!vars => PaperIInv'
  BY PaperInvariantStep
<1> QED
  BY <1>1, <1>2, PTL DEF C!Spec

\* Every reachable state is well typed.
THEOREM PaperTypeCorrect == ASSUME C!ContractsAssumption PROVE C!Spec => []C!TypeOK
<1>1. PaperIInv => C!TypeOK
  BY DEF PaperIInv
<1> QED
  BY <1>1, PaperInvariantHolds, PTL

\* However requests overlap, what a client can sign, has signed or has rejected is a
\* text that was sent.
THEOREM PapersDecidedOnSentText ==
  ASSUME C!ContractsAssumption PROVE C!Spec => []C!DecidedOnSentText
<1>1. PaperIInv => C!DecidedOnSentText
  BY DEF PaperIInv, PaperRowsGood, PaperGoodRow, C!DecidedOnSentText, C!In
<1> QED
  BY <1>1, PaperInvariantHolds, PTL

\* However requests overlap, a stored copy holds a text the client signed.
THEOREM PaperCopiesAreSigned ==
  ASSUME C!ContractsAssumption PROVE C!Spec => []C!StoredCopyWasSigned
<1>1. PaperIInv => C!StoredCopyWasSigned
  BY DEF PaperIInv, PaperRowsGood, PaperGoodRow, PaperFilesSigned, C!StoredCopyWasSigned
<1> QED
  BY <1>1, PaperInvariantHolds, PTL

-----------------------------------------------------------------------------
(* Signing leads to a copy.  Where no paperMishap was noted, a request that goes   *)
(* on after its save still finds the contract SIGNED with the text it holds.  *)

PaperPast(t, c) == t # None /\ t.con = c /\ t.step # "loaded"

PaperCopied(c) ==
  /\ \A h \in Handler : PaperPast(paperTask[h], c) =>
       /\ C!In(c, {"SIGNED"}) /\ papers[c].body = paperTask[h].row.body
       /\ paperTask[h].step = "record" => files[c] = paperTask[h].row.body
  /\ C!In(c, {"SIGNED"}) /\ ~(papers[c].stored /\ files[c] = papers[c].body) =>
       \E h \in Handler : PaperPast(paperTask[h], c)

PaperCopyInv == \A c \in Paper \ paperMishap : PaperCopied(c)

LEMMA PaperCopySame ==
  ASSUME NEW c \in Paper, PaperCopied(c), papers'[c] = papers[c], files'[c] = files[c],
         \A h \in Handler : paperTask'[h] = paperTask[h] \/ (~PaperPast(paperTask[h], c) /\ ~PaperPast(paperTask'[h], c))
  PROVE  PaperCopied(c)'
<1>1. \A h \in Handler : /\ PaperPast(paperTask'[h], c) <=> PaperPast(paperTask[h], c)
                         /\ PaperPast(paperTask[h], c) => paperTask'[h] = paperTask[h]
  BY DEF PaperPast
<1> QED
  BY <1>1 DEF PaperCopied, C!In, C!Exists

LEMMA PaperCopySaves ==
  ASSUME C!ContractsAssumption, PaperIInv, NEW h \in Handler, C!Saves(h),
         NEW c \in Paper, c \notin paperMishap', c \notin paperMishap => PaperCopied(c)
  PROVE  PaperCopied(c)'
<1>1. /\ paperTask[h] \in C!Task /\ paperTask[h] # None /\ paperTask[h].con \in Paper /\ paperTask[h].row \in C!Row
      /\ paperTask[h].step = "loaded" /\ PaperChecked(paperTask[h])
  BY PaperSavedRow DEF PaperHeldGood
<1>2. PICK row \in C!Row \cup {None} :
        /\ C!SaveEntity(h, row)
        /\ paperTask[h].op = "remove" => row = None
        /\ paperTask[h].op # "remove" => row \in C!Row /\ row.stored = paperTask[h].row.stored
        /\ paperTask[h].op = "update" => row.status = "DRAFT"
        /\ paperTask[h].op \notin {"remove", "update"} => row.body = paperTask[h].row.body
        /\ paperTask[h].op = "link" => row = paperTask[h].row
        /\ paperTask[h].op = "send" => row.status = "SENT"
             /\ paperSent' = [paperSent EXCEPT ![paperTask[h].con] = @ \cup {row.body}]
        /\ paperTask[h].op = "accept" => row.status = "SIGNED"
             /\ signed' = [signed EXCEPT ![paperTask[h].con] = @ \cup {row.body}]
             /\ paperTask' = [paperTask EXCEPT ![h].row = row, ![h].step = "upload"]
        /\ paperTask[h].op = "reject" => row.status = "REJECTED"
        /\ paperTask[h].op # "send" => paperSent' = paperSent
        /\ paperTask[h].op # "accept" => signed' = signed /\ C!Done(h)
  BY PaperSavedRow
<1>3. /\ files' = files /\ paperMishap \subseteq paperMishap'
      /\ \A p \in Paper : papers'[p] = IF p = paperTask[h].con THEN row ELSE papers[p]
      /\ paperTask[h].con = c => papers[c] = paperTask[h].row
  BY <1>1, <1>2 DEF C!SaveEntity, C!Stale, PaperIInv, C!TypeOK
<1>4. PaperCopied(c)
  BY <1>3
<1>5. CASE paperTask[h].op # "accept"
  <2>1. \A g \in Handler : paperTask'[g] = IF g = h THEN None ELSE paperTask[g]
    BY <1>2, <1>5 DEF C!Done, PaperIInv, C!TypeOK
  <2>2. \A g \in Handler : paperTask'[g] = paperTask[g] \/ (~PaperPast(paperTask[g], c) /\ ~PaperPast(paperTask'[g], c))
    BY <1>1, <2>1 DEF PaperPast
  <2>3. CASE papers'[c] = papers[c]
    BY <1>3, <1>4, <2>2, <2>3, PaperCopySame
  <2>4. CASE papers'[c] # papers[c]
    <3>1. paperTask[h].con = c /\ paperTask[h].op # "link" /\ papers[c] = paperTask[h].row
      BY <1>2, <1>3, <2>4
    <3>2. ~C!In(c, {"SIGNED"})
      BY <1>1, <1>5, <3>1 DEF C!In, PaperChecked, C!Task, C!Op
    <3>3. ~C!In(c, {"SIGNED"})'
      BY <1>1, <1>2, <1>3, <1>5, <3>1 DEF C!In, C!Exists, C!Task, C!Op
    <3>4. \A g \in Handler : ~PaperPast(paperTask'[g], c)
      BY <1>4, <2>2, <3>2 DEF PaperCopied, PaperPast
    <3> QED
      BY <3>3, <3>4 DEF PaperCopied
  <2> QED
    BY <2>3, <2>4
<1>6. CASE paperTask[h].op = "accept"
  <2> DEFINE t == [paperTask[h] EXCEPT !.row = row, !.step = "upload"]
  <2>1. row \in C!Row /\ row # None /\ row.status = "SIGNED" /\ row.body = paperTask[h].row.body
    BY <1>2, <1>6 DEF C!ContractsAssumption
  <2>2. t \in C!Task /\ t # None /\ t.con = paperTask[h].con /\ t.row = row /\ t.step = "upload"
    BY <1>1, <2>1 DEF C!Task, C!ContractsAssumption
  <2>3. paperTask' = [paperTask EXCEPT ![h] = t]
    BY <1>2, <1>6
  <2> HIDE DEF t
  <2>4. \A g \in Handler : paperTask'[g] = IF g = h THEN t ELSE paperTask[g]
    BY <2>3 DEF PaperIInv, C!TypeOK
  <2>5. CASE paperTask[h].con # c
    <3>1. \A g \in Handler : paperTask'[g] = paperTask[g] \/ (~PaperPast(paperTask[g], c) /\ ~PaperPast(paperTask'[g], c))
      BY <1>1, <2>2, <2>4, <2>5 DEF PaperPast
    <3> QED
      BY <1>3, <1>4, <2>5, <3>1, PaperCopySame
  <2>6. CASE paperTask[h].con = c
    <3>1. ~C!In(c, {"SIGNED"})
      BY <1>1, <1>3, <1>6, <2>6 DEF C!In, PaperChecked
    <3>2. \A g \in Handler : PaperPast(paperTask'[g], c) <=> g = h
      BY <1>4, <2>2, <2>4, <2>6, <3>1 DEF PaperCopied, PaperPast
    <3>3. C!In(c, {"SIGNED"})' /\ papers'[c] = row
      BY <1>3, <2>1, <2>6 DEF C!In, C!Exists
    <3>4. paperTask'[h].row.body = papers'[c].body /\ paperTask'[h].step # "record"
      BY <2>2, <2>4, <3>3
    <3> QED
      BY <3>2, <3>3, <3>4 DEF PaperCopied
  <2> QED
    BY <2>5, <2>6
<1> QED
  BY <1>5, <1>6

LEMMA PaperCopyRenders ==
  ASSUME C!ContractsAssumption, PaperIInv, NEW h \in Handler, C!Upload(h) \/ C!Record(h),
         NEW c \in Paper, c \notin paperMishap', c \notin paperMishap => PaperCopied(c)
  PROVE  PaperCopied(c)'
<1>1. /\ paperTask[h] \in C!Task /\ paperTask[h] # None /\ paperTask[h].con \in Paper /\ paperTask[h].row \in C!Row
      /\ paperMishap' = paperMishap
  BY PaperHeldTask DEF C!Upload, C!Record, C!Working, PaperIInv, C!historyVars
<1>2. PaperCopied(c)
  BY <1>1
<1>3. CASE C!Upload(h)
  <2> DEFINE t == [paperTask[h] EXCEPT !.step = "record"]
  <2>1. /\ t # None /\ t.con = paperTask[h].con /\ t.row = paperTask[h].row /\ t.step = "record"
        /\ paperTask[h].step = "upload"
    <3>1. t \in C!Task
      BY <1>1 DEF C!Task
    <3> QED
      BY <1>1, <1>3, <3>1 DEF C!Task, C!Upload, C!Working, C!ContractsAssumption
  <2>2. /\ paperTask' = [paperTask EXCEPT ![h] = t] /\ papers' = papers
        /\ files' = [files EXCEPT ![paperTask[h].con] = paperTask[h].row.body]
    BY <1>3 DEF C!Upload
  <2> HIDE DEF t
  <2>3. /\ \A g \in Handler : paperTask'[g] = IF g = h THEN t ELSE paperTask[g]
        /\ files'[c] = IF c = paperTask[h].con THEN paperTask[h].row.body ELSE files[c]
    BY <2>2 DEF PaperIInv, C!TypeOK
  <2>4. CASE paperTask[h].con # c
    <3>1. \A g \in Handler : paperTask'[g] = paperTask[g] \/ (~PaperPast(paperTask[g], c) /\ ~PaperPast(paperTask'[g], c))
      BY <2>1, <2>3, <2>4 DEF PaperPast
    <3> QED
      BY <1>2, <2>2, <2>3, <2>4, <3>1, PaperCopySame
  <2>5. CASE paperTask[h].con = c
    <3>1. \A g \in Handler : /\ PaperPast(paperTask'[g], c) <=> PaperPast(paperTask[g], c)
                             /\ PaperPast(paperTask[g], c) => paperTask'[g].row = paperTask[g].row
      BY <1>1, <2>1, <2>3, <2>5 DEF PaperPast
    <3>2. PaperPast(paperTask[h], c) /\ C!In(c, {"SIGNED"}) /\ papers[c].body = paperTask[h].row.body
      BY <1>1, <1>2, <2>1, <2>5 DEF PaperCopied, PaperPast
    <3>3. files'[c] = papers[c].body /\ C!In(c, {"SIGNED"})'
      BY <2>2, <2>3, <2>5, <3>2 DEF C!In, C!Exists
    <3>4. \A g \in Handler : PaperPast(paperTask'[g], c) => papers[c].body = paperTask'[g].row.body
      BY <1>2, <3>1 DEF PaperCopied
    <3> QED
      BY <2>2, <3>1, <3>2, <3>3, <3>4 DEF PaperCopied
  <2> QED
    BY <2>4, <2>5
<1>4. CASE C!Record(h)
  <2>1. /\ files' = files /\ paperTask[h].step = "record"
        /\ \A g \in Handler : paperTask'[g] = IF g = h THEN None ELSE paperTask[g]
    BY <1>4 DEF C!Record, C!Working, C!Done, PaperIInv, C!TypeOK
  <2>2. CASE paperTask[h].con # c
    <3>1. papers'[c] = papers[c]
      BY <1>1, <1>4, <2>2 DEF C!Record, PaperIInv, C!TypeOK
    <3>2. \A g \in Handler : paperTask'[g] = paperTask[g] \/ (~PaperPast(paperTask[g], c) /\ ~PaperPast(paperTask'[g], c))
      BY <2>1, <2>2 DEF PaperPast
    <3> QED
      BY <1>2, <2>1, <3>1, <3>2, PaperCopySame
  <2>3. CASE paperTask[h].con = c
    <3>1. PaperPast(paperTask[h], c) /\ C!In(c, {"SIGNED"}) /\ papers[c].body = paperTask[h].row.body
          /\ files[c] = paperTask[h].row.body
      BY <1>1, <1>2, <2>1, <2>3 DEF PaperCopied, PaperPast
    <3> DEFINE row == [papers[c] EXCEPT !.stored = TRUE]
    <3>2. papers[c] \in C!Row /\ row \in C!Row /\ row.status = papers[c].status
          /\ row.body = papers[c].body /\ row.stored
      BY <3>1 DEF PaperIInv, C!TypeOK, C!In, C!Exists, C!Row
    <3>3. papers' = [papers EXCEPT ![c] = row]
      BY <1>4, <2>3, <3>1 DEF C!Record, C!In
    <3> HIDE DEF row
    <3>4. papers'[c] = row /\ C!In(c, {"SIGNED"})'
      BY <3>1, <3>2, <3>3 DEF C!In, C!Exists, PaperIInv, C!TypeOK, C!ContractsAssumption
    <3>5. \A g \in Handler : PaperPast(paperTask'[g], c) => paperTask'[g] = paperTask[g] /\ PaperPast(paperTask[g], c)
      BY <2>1 DEF PaperPast
    <3> QED
      BY <1>2, <2>1, <3>1, <3>2, <3>4, <3>5 DEF PaperCopied
  <2> QED
    BY <2>2, <2>3
<1> QED
  BY <1>3, <1>4

LEMMA PaperCopyStep ==
  ASSUME C!ContractsAssumption, PaperIInv, PaperCopyInv, [C!Next]_C!vars
  PROVE  PaperCopyInv'
<1> SUFFICES ASSUME NEW c \in Paper, c \notin paperMishap'
             PROVE  PaperCopied(c)'
  BY DEF PaperCopyInv
<1>1. c \notin paperMishap => PaperCopied(c)
  BY DEF PaperCopyInv
<1>2. ASSUME NEW p \in Paper, NEW b \in Body, C!Create(p, b)
      PROVE  PaperCopied(c)'
  <2> DEFINE row == [status |-> "DRAFT", body |-> b, stored |-> FALSE]
  <2>1. row.status = "DRAFT"
    OBVIOUS
  <2>2. /\ UNCHANGED <<files, paperTask, paperMishap>> /\ p \notin paperIssued
        /\ \A x \in Paper : papers'[x] = IF x = p THEN row ELSE papers[x]
    BY <1>2 DEF C!Create, C!historyVars, PaperIInv, C!TypeOK
  <2> HIDE DEF row
  <2>3. CASE p # c
    BY <1>1, <2>2, <2>3, PaperCopySame
  <2>4. CASE p = c
    <3>1. \A h \in Handler : ~PaperPast(paperTask'[h], c)
      BY <2>2, <2>4 DEF PaperPast, PaperIInv, PaperOnlyIssued
    <3>2. ~C!In(c, {"SIGNED"})'
      BY <2>1, <2>2, <2>4 DEF C!In
    <3> QED
      BY <3>1, <3>2 DEF PaperCopied
  <2> QED
    BY <2>3, <2>4
<1>3. ASSUME NEW h \in Handler, NEW p \in Paper, C!Finds(h, p)
      PROVE  PaperCopied(c)'
  <2>1. PICK op \in C!Op : C!Find(h, op, p)
    BY <1>3 DEF C!Finds, C!UpdateFind, C!RemoveFind, C!SendFind, C!AcceptFind, C!RejectFind,
         C!LinkFind, C!Op
  <2>2. /\ UNCHANGED <<papers, files, paperMishap>> /\ paperTask[h] = None
        /\ \A g \in Handler : paperTask'[g] = IF g = h THEN [op |-> op, con |-> p, row |-> papers[p],
                                                        step |-> "loaded"]
                                         ELSE paperTask[g]
    BY <2>1 DEF C!Find, C!historyVars, PaperIInv, C!TypeOK
  <2>3. \A g \in Handler : paperTask'[g] = paperTask[g] \/ (~PaperPast(paperTask[g], c) /\ ~PaperPast(paperTask'[g], c))
    BY <2>2 DEF PaperPast
  <2> QED
    BY <1>1, <2>2, <2>3, PaperCopySame
<1>4. CASE (\E h \in Handler : C!Fails(h)) \/ C!Crash
  <2>1. \A H \in SUBSET Handler : \A h \in H : c \notin C!Unstored(H) => ~PaperPast(paperTask[h], c)
    BY DEF C!Unstored, PaperPast
  <2>2. /\ UNCHANGED <<papers, files>> /\ paperMishap \subseteq paperMishap'
        /\ \A h \in Handler : paperTask'[h] = paperTask[h] \/ (paperTask'[h] = None /\ ~PaperPast(paperTask[h], c))
    <3>1. CASE C!Crash
      BY <2>1, <3>1 DEF C!Crash
    <3>2. ASSUME NEW h \in Handler, C!Fails(h)
          PROVE  /\ UNCHANGED <<papers, files>> /\ paperMishap \subseteq paperMishap'
                 /\ \A g \in Handler : paperTask'[g] = IF g = h THEN None ELSE paperTask[g]
                 /\ ~PaperPast(paperTask[h], c)
      BY <2>1, <3>2 DEF C!Fails, C!Done, PaperIInv, C!TypeOK
    <3> QED
      BY <1>4, <3>1, <3>2
  <2>3. \A h \in Handler : paperTask'[h] = paperTask[h] \/ (~PaperPast(paperTask[h], c) /\ ~PaperPast(paperTask'[h], c))
    BY <2>2 DEF PaperPast
  <2> QED
    BY <1>1, <2>2, <2>3, PaperCopySame
<1>5. CASE UNCHANGED C!vars
  BY <1>1, <1>5, PaperCopySame DEF C!vars, C!historyVars
<1> QED
  BY <1>1, <1>2, <1>3, <1>4, <1>5, PaperCopySaves, PaperCopyRenders DEF C!Next

\* A signed contract has a copy of its very text, is being rendered, or met a mishap.
THEOREM PaperSigningLeadsToCopy ==
  ASSUME C!ContractsAssumption PROVE C!Spec => []C!SignedGetsItsCopy
<1>1. C!Init => PaperCopyInv
  BY DEF C!Init, PaperCopyInv, PaperCopied, PaperPast, C!In, C!Exists
<1>2. PaperIInv /\ PaperCopyInv /\ [C!Next]_C!vars => PaperCopyInv'
  BY PaperCopyStep
<1>3. PaperCopyInv => C!SignedGetsItsCopy
  BY DEF PaperCopyInv, PaperCopied, PaperPast, C!SignedGetsItsCopy
<1> QED
  BY <1>1, <1>2, <1>3, PaperInvariantHolds, PTL DEF C!Spec

-----------------------------------------------------------------------------
(* The lifecycle: a step on current rows moves each contract along the        *)
(* documented moves, because the status its handler checked still stands.     *)

PaperCurrent == \A h \in Handler : ~C!Stale(h)

PaperMoved(c) == C!Seen(c)' = C!Seen(c) \/ <<C!Seen(c), C!Seen(c)'>> \in C!Documented

LEMMA PaperUnmoved ==
  ASSUME NEW c \in Paper, papers'[c] = papers[c], c \in paperIssued' <=> c \in paperIssued
  PROVE  PaperMoved(c)
BY DEF PaperMoved, C!Seen, C!Exists

LEMMA PaperSaveMoves ==
  ASSUME C!ContractsAssumption, PaperIInv, PaperCurrent, NEW h \in Handler, C!Saves(h), NEW c \in Paper
  PROVE  PaperMoved(c)
<1>1. /\ paperTask[h] \in C!Task /\ paperTask[h] # None /\ paperTask[h].con \in Paper /\ paperTask[h].row \in C!Row
      /\ paperTask[h].step = "loaded" /\ PaperChecked(paperTask[h]) /\ paperTask[h].con \in paperIssued
  BY PaperSavedRow DEF PaperHeldGood
<1>2. PICK row \in C!Row \cup {None} :
        /\ C!SaveEntity(h, row)
        /\ paperTask[h].op = "remove" => row = None
        /\ paperTask[h].op # "remove" => row \in C!Row
        /\ paperTask[h].op = "update" => row.status = "DRAFT"
        /\ paperTask[h].op = "link" => row = paperTask[h].row
        /\ paperTask[h].op = "send" => row.status = "SENT"
        /\ paperTask[h].op = "accept" => row.status = "SIGNED"
        /\ paperTask[h].op = "reject" => row.status = "REJECTED"
  BY PaperSavedRow
<1>3. /\ \A p \in Paper : papers'[p] = IF p = paperTask[h].con THEN row ELSE papers[p]
      /\ paperIssued' = paperIssued /\ papers[paperTask[h].con] = paperTask[h].row
  BY <1>1, <1>2 DEF C!SaveEntity, PaperCurrent, C!Stale, PaperIInv, C!TypeOK
<1>4. CASE c # paperTask[h].con
  BY <1>3, <1>4, PaperUnmoved
<1>5. CASE c = paperTask[h].con
  <2>1. /\ C!Seen(c) = paperTask[h].row.status
        /\ C!Seen(c)' = IF paperTask[h].op = "remove" THEN "deleted" ELSE row.status
    BY <1>1, <1>2, <1>3, <1>5 DEF C!Seen, C!Exists, C!ContractsAssumption
  <2> QED
    BY <1>1, <1>2, <2>1 DEF PaperMoved, C!Documented, PaperChecked, C!Task, C!Op
<1> QED
  BY <1>4, <1>5

LEMMA PaperStepMoves ==
  ASSUME C!ContractsAssumption, PaperIInv, PaperCurrent, [C!Next]_C!vars, NEW c \in Paper
  PROVE  PaperMoved(c)
<1>1. ASSUME NEW p \in Paper, NEW b \in Body, C!Create(p, b)
      PROVE  PaperMoved(c)
  <2> DEFINE row == [status |-> "DRAFT", body |-> b, stored |-> FALSE]
  <2>1. row \in C!Row /\ row.status = "DRAFT"
    BY DEF C!Row, C!Status
  <2>2. /\ \A x \in Paper : papers'[x] = IF x = p THEN row ELSE papers[x]
        /\ p \notin paperIssued /\ paperIssued' = paperIssued \cup {p} /\ ~C!Exists(p)
    BY <1>1 DEF C!Create, PaperIInv, C!TypeOK, PaperOnlyIssued
  <2> HIDE DEF row
  <2>3. CASE c = p
    <3>1. C!Seen(c) = "none" /\ C!Seen(c)' = "DRAFT"
      BY <2>1, <2>2, <2>3 DEF C!Seen, C!Exists, C!ContractsAssumption
    <3> QED
      BY <3>1 DEF PaperMoved, C!Documented
  <2> QED
    BY <2>2, <2>3, PaperUnmoved
<1>2. ASSUME NEW h \in Handler, C!Record(h)
      PROVE  PaperMoved(c)
  <2>1. paperIssued' = paperIssued
    BY <1>2 DEF C!Record
  <2>2. CASE papers'[c] = papers[c]
    BY <2>1, <2>2, PaperUnmoved
  <2>3. CASE papers'[c] # papers[c]
    <3> DEFINE row == [papers[c] EXCEPT !.stored = TRUE]
    <3>1. C!Exists(c) /\ papers'[c] = row
      BY <1>2, <2>3 DEF C!Record, PaperIInv, C!TypeOK
    <3>2. row \in C!Row /\ row.status = papers[c].status
      BY <3>1 DEF PaperIInv, C!TypeOK, C!Exists, C!Row
    <3> HIDE DEF row
    <3> QED
      BY <3>1, <3>2 DEF PaperMoved, C!Seen, C!Exists, C!ContractsAssumption
  <2> QED
    BY <2>2, <2>3
<1>3. CASE (\E h \in Handler : C!Upload(h) \/ C!Fails(h) \/ \E p \in Paper : C!Finds(h, p)) \/ C!Crash
  <2>1. UNCHANGED <<papers, paperIssued>>
    BY <1>3 DEF C!Finds, C!UpdateFind, C!RemoveFind, C!SendFind, C!AcceptFind, C!RejectFind,
         C!LinkFind, C!Find,
         C!Upload, C!Fails, C!Crash
  <2> QED
    BY <2>1, PaperUnmoved
<1>4. CASE UNCHANGED C!vars
  BY <1>4, PaperUnmoved DEF C!vars
<1> QED
  BY <1>1, <1>2, <1>3, <1>4, PaperSaveMoves DEF C!Next

\* Whatever overlaps, a step taken while no handler holds an outdated contract follows
\* the lifecycle of the class comment.
THEOREM PapersFollowLifecycle ==
  ASSUME C!ContractsAssumption PROVE C!Spec => C!FollowsLifecycle
<1>1. ASSUME PaperIInv, [C!Next]_C!vars, PaperCurrent
      PROVE  [C!Lifecycle!Next]_[c \in Paper |-> C!Seen(c)]
  <2>1. \A c \in Paper : PaperMoved(c)
    BY <1>1, PaperStepMoves
  <2> QED
    BY <2>1 DEF PaperMoved, C!Lifecycle!Next
<1>2. PaperIInv /\ [C!Next]_C!vars
        => [(\A h \in Handler : ~C!Stale(h)) => [C!Lifecycle!Next]_[c \in Paper |-> C!Seen(c)]]_C!vars
  BY <1>1 DEF PaperCurrent
<1> QED
  BY <1>2, PaperInvariantHolds, PTL DEF C!Spec, C!FollowsLifecycle

-----------------------------------------------------------------------------
(* Public links: which steps can bring a closed link back to life, and     *)
(* which can kill a working one.                                           *)

\* A token in a document, or in a copy a handler holds, was stored at some time,
\* and a handler's `now` is not in the future.
LinkKnown == /\ \A d \in Doc : docs[d].token # None => docs[d].token \in minted
             /\ \A h \in Handler : linkTask[h] # None =>
                  /\ linkTask[h].link.token # None => linkTask[h].link.token \in minted
                  /\ linkTask[h].at <= clock

LinkIInv == P!TypeOK /\ LinkKnown

\* The handlers' saves differ in the columns they write and the token they mint.
LinkStores(h, link, new) ==
  /\ docs' = [docs EXCEPT ![linkTask[h].doc] = link]
  /\ linkTask' = [linkTask EXCEPT ![h] = None]
  /\ minted' = minted \cup new
  /\ clock' = clock

\* What h may store: its link as loaded, revoked, dated anew, or with a token that
\* nobody has seen.
LinkStorable(h, link, new) ==
  \/ /\ new = {}
     /\ \/ link = linkTask[h].link
        \/ /\ linkTask[h].op = "revoke"
           /\ link = [linkTask[h].link EXCEPT !.revoked = linkTask[h].link.revoked \/ linkTask[h].link.token # None]
        \/ /\ linkTask[h].op = "setExpiry"
           /\ \E x \in 1 .. P!Never : link = [linkTask[h].link EXCEPT !.expires = x]
  \/ \E t \in Token \ minted, x \in 1 .. P!Never :
       /\ new = {t} /\ link = P!Fresh(t, x)
       /\ linkTask[h].op = "rotate" \/ ~P!Active(linkTask[h].link, linkTask[h].at)

-----------------------------------------------------------------------------
LEMMA LinkSavesStore ==
  ASSUME P!LinksAssumption, LinkIInv, NEW h \in Handler, P!Saves(h)
  PROVE  /\ linkTask[h] \in P!Request
         /\ \E link, new : LinkStores(h, link, new) /\ LinkStorable(h, link, new)
<1>1. linkTask[h] \in P!Request
  BY DEF P!Saves, P!GenerateKeeps, P!GenerateMints, P!Rotate, P!Revoke, P!SetExpiry, P!SaveOther,
       P!Working,
         LinkIInv, P!TypeOK
<1>2. CASE P!GenerateKeeps(h) \/ P!SaveOther(h)
  <2>1. LinkStores(h, linkTask[h].link, {})
    BY <1>2 DEF P!GenerateKeeps, P!SaveOther, P!Save, LinkStores
  <2>2. LinkStorable(h, linkTask[h].link, {})
    BY DEF LinkStorable
  <2> QED
    BY <1>1, <2>1, <2>2
<1>3. CASE P!Revoke(h)
  <2> DEFINE link == [linkTask[h].link EXCEPT !.revoked = @ \/ linkTask[h].link.token # None]
  <2>1. link = [linkTask[h].link EXCEPT !.revoked = linkTask[h].link.revoked \/ linkTask[h].link.token # None]
    OBVIOUS
  <2>2. LinkStores(h, link, {})
    BY <1>3 DEF P!Revoke, P!Save, LinkStores
  <2>3. LinkStorable(h, link, {})
    BY <1>3, <2>1 DEF P!Revoke, P!Working, LinkStorable
  <2> QED
    BY <1>1, <2>2, <2>3
<1>4. CASE \E x \in 1 .. P!Never : P!SetExpiry(h, x)
  <2>1. PICK x \in 1 .. P!Never : P!SetExpiry(h, x)
    BY <1>4
  <2> DEFINE link == [linkTask[h].link EXCEPT !.expires = x]
  <2>2. LinkStores(h, link, {})
    BY <2>1 DEF P!SetExpiry, P!Save, LinkStores
  <2>3. LinkStorable(h, link, {})
    BY <2>1 DEF P!SetExpiry, P!Working, LinkStorable
  <2> QED
    BY <1>1, <2>2, <2>3
<1>5. CASE \E t \in Token \ minted, x \in 1 .. P!Never : P!GenerateMints(h, t, x) \/ P!Rotate(h, t, x)
  <2>1. PICK t \in Token \ minted, x \in 1 .. P!Never : P!GenerateMints(h, t, x) \/ P!Rotate(h, t, x)
    BY <1>5
  <2>2. LinkStores(h, P!Fresh(t, x), {t})
    BY <2>1 DEF P!GenerateMints, P!Rotate, P!Save, LinkStores
  <2>3. LinkStorable(h, P!Fresh(t, x), {t})
    BY <2>1 DEF P!GenerateMints, P!Rotate, P!Working, LinkStorable
  <2> QED
    BY <1>1, <2>2, <2>3
<1> QED
  BY <1>1, <1>2, <1>3, <1>4, <1>5 DEF P!Saves

\* What is stored are token columns, with a token that is known from now on.
LEMMA LinkStorableLink ==
  ASSUME P!LinksAssumption, LinkIInv, NEW h \in Handler, linkTask[h] \in P!Request,
         NEW link, NEW new, LinkStorable(h, link, new)
  PROVE  /\ link \in P!Link /\ new \in SUBSET Token
         /\ link.token # None => link.token \in minted \cup new
<1>1. /\ linkTask[h].link \in P!Link /\ linkTask[h] # None
      /\ linkTask[h].link.token # None => linkTask[h].link.token \in minted
      /\ Horizon \in Nat /\ None \notin Token
  BY DEF LinkIInv, LinkKnown, P!Request, P!LinksAssumption
<1>2. CASE new = {} /\ link = linkTask[h].link
  BY <1>1, <1>2
<1>3. CASE /\ new = {}
           /\ link = [linkTask[h].link EXCEPT !.revoked = linkTask[h].link.revoked \/ linkTask[h].link.token # None]
  BY <1>1, <1>3 DEF P!Link
<1>4. CASE new = {} /\ \E x \in 1 .. P!Never : link = [linkTask[h].link EXCEPT !.expires = x]
  BY <1>1, <1>4 DEF P!Link
<1>5. CASE \E t \in Token \ minted, x \in 1 .. P!Never : new = {t} /\ link = P!Fresh(t, x)
  BY <1>1, <1>5 DEF P!Link, P!Fresh
<1> QED
  BY <1>2, <1>3, <1>4, <1>5 DEF LinkStorable

LEMMA LinkInvariantStep ==
  ASSUME P!LinksAssumption, LinkIInv, [P!Next]_P!vars
  PROVE  LinkIInv'
<1>1. ASSUME NEW h \in Handler, NEW op \in P!Op, NEW d \in Doc, P!Begin(h, op, d)
      PROVE  LinkIInv'
  <2> DEFINE r == [op |-> op, doc |-> d, link |-> docs[d], at |-> clock]
  <2>1. /\ linkTask' = [linkTask EXCEPT ![h] = r] /\ UNCHANGED <<docs, minted, clock>>
        /\ r \in P!Request /\ r.link = docs[d] /\ r.at = clock /\ clock \in Nat
    BY <1>1 DEF P!Begin, LinkIInv, P!TypeOK, P!Request, P!Time
  <2> HIDE DEF r
  <2>2. /\ linkTask'[h] = r /\ \A g \in Handler : g # h => linkTask'[g] = linkTask[g]
        /\ linkTask' \in [Handler -> P!Request \cup {None}]
    BY <2>1 DEF LinkIInv, P!TypeOK
  <2>3. P!TypeOK'
    BY <2>1, <2>2 DEF LinkIInv, P!TypeOK
  <2>4. LinkKnown'
    BY <2>1, <2>2 DEF LinkIInv, LinkKnown
  <2> QED
    BY <2>3, <2>4 DEF LinkIInv
<1>2. ASSUME NEW h \in Handler, P!Saves(h) PROVE LinkIInv'
  <2>1. PICK link, new : LinkStores(h, link, new) /\ LinkStorable(h, link, new)
    BY <1>2, LinkSavesStore
  <2>2. /\ linkTask[h] \in P!Request
        /\ link \in P!Link /\ new \in SUBSET Token
        /\ link.token # None => link.token \in minted \cup new
    BY <1>2, <2>1, LinkSavesStore, LinkStorableLink
  <2>3. linkTask[h].doc \in Doc
    BY <2>2 DEF P!Request
  <2>4. /\ \A g \in Handler : linkTask'[g] = linkTask[g] \/ linkTask'[g] = None
        /\ \A d \in Doc : docs'[d] = link \/ docs'[d] = docs[d]
        /\ linkTask' \in [Handler -> P!Request \cup {None}] /\ docs' \in [Doc -> P!Link]
        /\ minted' = minted \cup new /\ clock' = clock
    BY <2>1, <2>2, <2>3 DEF LinkStores, LinkIInv, P!TypeOK
  <2>5. P!TypeOK'
    BY <2>2, <2>4 DEF LinkIInv, P!TypeOK
  <2>6. LinkKnown'
    BY <2>2, <2>4 DEF LinkIInv, LinkKnown
  <2> QED
    BY <2>5, <2>6 DEF LinkIInv
<1>3. ASSUME NEW h \in Handler, P!Refused(h) PROVE LinkIInv'
  <2>1. /\ UNCHANGED <<docs, minted, clock>>
        /\ \A g \in Handler : linkTask'[g] = linkTask[g] \/ linkTask'[g] = None
        /\ linkTask' \in [Handler -> P!Request \cup {None}]
    BY <1>3 DEF P!Refused, LinkIInv, P!TypeOK
  <2> QED
    BY <2>1 DEF LinkIInv, P!TypeOK, LinkKnown
<1>4. CASE P!Crash
  BY <1>4 DEF P!Crash, LinkIInv, P!TypeOK, LinkKnown
<1>5. CASE P!TimePasses
  <2>1. clock \in Nat /\ clock' = clock + 1 /\ clock' \in P!Time /\ UNCHANGED <<docs, minted, linkTask>>
    BY <1>5 DEF P!TimePasses, LinkIInv, P!TypeOK, P!Time, P!LinksAssumption
  <2>2. LinkKnown'
    <3>1. \A h \in Handler : linkTask[h] # None => linkTask[h].at \in Nat
      BY DEF LinkIInv, P!TypeOK, P!Request, P!Time
    <3> QED
      BY <2>1, <3>1 DEF LinkIInv, LinkKnown
  <2> QED
    BY <2>1, <2>2 DEF LinkIInv, P!TypeOK
<1>6. CASE UNCHANGED P!vars
  BY <1>6 DEF P!vars, LinkIInv, P!TypeOK, LinkKnown
<1> QED
  BY <1>1, <1>2, <1>3, <1>4, <1>5, <1>6
     DEF P!Next, P!LoadForManage, P!LoadForOther, P!LoadByToken, P!Op

LEMMA LinkInvariantHolds == ASSUME P!LinksAssumption PROVE P!Spec => []LinkIInv
<1>1. P!Init => LinkIInv
  BY DEF P!Init, P!NoLink, LinkIInv, P!TypeOK, LinkKnown, P!Link, P!Time, P!Never, P!LinksAssumption
<1>2. LinkIInv /\ [P!Next]_P!vars => LinkIInv'
  BY LinkInvariantStep
<1> QED
  BY <1>1, <1>2, PTL DEF P!Spec

-----------------------------------------------------------------------------
\* Only a save changes which links work, but for the clock.
LEMMA LinkOnlySaves ==
  ASSUME LinkIInv, [P!Next]_P!vars, NEW t \in minted, P!Works(t) # P!Works(t)', clock' = clock
  PROVE  \E h \in Handler : P!Saves(h)
<1>1. docs' # docs
  BY DEF P!Works, P!Active
<1> QED
  BY <1>1 DEF P!Next, P!LoadForManage, P!LoadForOther, P!LoadByToken, P!Begin, P!Refused, P!Crash,
              P!TimePasses, P!vars

\* Time alone closes links and opens none.
LEMMA LinkTimeOpensNothing ==
  ASSUME P!LinksAssumption, LinkIInv, [P!Next]_P!vars, NEW t \in minted, clock' # clock, P!Works(t)'
  PROVE  P!Works(t)
<1>1. P!TimePasses
  BY DEF P!Next, P!LoadForManage, P!LoadForOther, P!LoadByToken, P!Begin, P!Refused, P!Crash,
       P!vars, P!Saves,
         P!GenerateKeeps, P!GenerateMints, P!Rotate, P!Revoke, P!SetExpiry, P!SaveOther, P!Save
<1>2. /\ docs' = docs /\ clock \in Nat /\ clock' = clock + 1
      /\ \A d \in Doc : docs[d].expires \in Nat
  BY <1>1 DEF P!TimePasses, LinkIInv, P!TypeOK, P!Time, P!Link, P!Never, P!LinksAssumption
<1> QED
  BY <1>2 DEF P!Works, P!Active

\* A closed link works again only through staff who date an expired one anew, or a
\* handler that saves an outdated copy.
THEOREM LinksStayClosed ==
  ASSUME P!LinksAssumption
  PROVE  P!Spec => P!ClosedStaysClosed
<1>1. ASSUME LinkIInv, [P!Next]_P!vars, NEW t \in minted, ~P!Works(t), P!Works(t)'
      PROVE  \E h \in Handler : P!Does(h, {"setExpiry"}) /\ (P!Stale(h) \/ P!Extendable(t))
  <2>1. PICK h \in Handler : P!Saves(h)
    BY <1>1, LinkOnlySaves, LinkTimeOpensNothing
  <2>2. PICK link, new : LinkStores(h, link, new) /\ LinkStorable(h, link, new)
    BY <1>1, <2>1, LinkSavesStore
  <2>3. linkTask[h] \in P!Request /\ linkTask[h].doc \in Doc /\ linkTask[h].link \in P!Link /\ linkTask[h] # None
    BY <1>1, <2>1, LinkSavesStore DEF P!Request, P!LinksAssumption
  <2>4. P!Ends(h)
    BY <1>1, <2>2, <2>3 DEF P!Ends, LinkStores, LinkIInv, P!TypeOK
  <2>5. ASSUME ~P!Stale(h)
        PROVE  linkTask[h].op = "setExpiry" /\ P!Extendable(t)
    <3>1. link.token = t /\ P!Active(link, clock)
      <4>1. PICK d \in Doc : docs'[d].token = t /\ P!Active(docs'[d], clock')
        BY <1>1 DEF P!Works
      <4>2. d = linkTask[h].doc
        BY <1>1, <2>2, <2>3, <4>1 DEF LinkStores, P!Works, LinkIInv, P!TypeOK
      <4> QED
        BY <1>1, <2>2, <2>3, <4>1, <4>2 DEF LinkStores, LinkIInv, P!TypeOK
    <3>2. docs[linkTask[h].doc] = linkTask[h].link /\ link # linkTask[h].link
      BY <1>1, <2>3, <2>5, <3>1 DEF P!Stale, P!Works
    <3>3. /\ linkTask[h].op = "setExpiry"
          /\ \E x \in 1 .. P!Never : link = [linkTask[h].link EXCEPT !.expires = x]
      <4>1. link # [linkTask[h].link EXCEPT !.revoked = linkTask[h].link.revoked \/ linkTask[h].link.token # None]
        BY <1>1, <2>3, <3>1, <3>2 DEF P!Active, P!Link
      <4>2. ~\E s \in Token \ minted, x \in 1 .. P!Never : link = P!Fresh(s, x)
        BY <3>1 DEF P!Fresh
      <4> QED
        BY <2>2, <3>2, <4>1, <4>2 DEF LinkStorable
    <3>4. linkTask[h].link.token = t /\ ~linkTask[h].link.revoked
      BY <2>3, <3>1, <3>3 DEF P!Active, P!Link
    <3> QED
      BY <2>3, <3>2, <3>3, <3>4 DEF P!Extendable
  <2> QED
    BY <2>4, <2>5 DEF P!Does
<1>2. LinkIInv /\ [P!Next]_P!vars
        => [\A t \in minted : ~P!Works(t) /\ P!Works(t)'
              => \E h \in Handler : /\ P!Does(h, {"setExpiry"})
                                    /\ P!Stale(h) \/ P!Extendable(t)]_P!vars
  BY <1>1
<1> QED
  BY <1>2, LinkInvariantHolds, PTL DEF P!Spec, P!ClosedStaysClosed

\* A working link is closed only by time, by staff who say so, or by a handler that
\* saves an outdated copy: generating a link or answering through it keeps it.
THEOREM LinksStayOpen ==
  ASSUME P!LinksAssumption
  PROVE  P!Spec => P!OpenStaysOpen
<1>1. ASSUME LinkIInv, [P!Next]_P!vars, NEW t \in minted, P!Works(t), ~P!Works(t)', clock' = clock
      PROVE  \E h \in Handler : P!Does(h, {"rotate", "revoke", "setExpiry"})
  <2>1. PICK h \in Handler : P!Saves(h)
    BY <1>1, LinkOnlySaves
  <2>2. PICK link, new : LinkStores(h, link, new) /\ LinkStorable(h, link, new)
    BY <1>1, <2>1, LinkSavesStore
  <2>3. /\ linkTask[h] \in P!Request /\ linkTask[h].doc \in Doc /\ linkTask[h].link \in P!Link /\ linkTask[h] # None
        /\ linkTask[h].at \in Nat /\ clock \in Nat /\ linkTask[h].at <= clock
        /\ linkTask[h].link.expires \in Nat
    BY <1>1, <2>1, LinkSavesStore DEF P!Request, P!LinksAssumption, LinkIInv, P!TypeOK, LinkKnown,
         P!Time, P!Link, P!Never
  <2>4. P!Ends(h)
    BY <1>1, <2>2, <2>3 DEF P!Ends, LinkStores, LinkIInv, P!TypeOK
  <2>5. ASSUME ~P!Stale(h), linkTask[h].op \notin {"rotate", "revoke", "setExpiry"}
        PROVE  FALSE
    <3>1. docs[linkTask[h].doc] = linkTask[h].link /\ P!Active(linkTask[h].link, clock)
          /\ link # linkTask[h].link
      <4>1. PICK d \in Doc : docs[d].token = t /\ P!Active(docs[d], clock)
        BY <1>1 DEF P!Works
      <4>2. d = linkTask[h].doc
        BY <1>1, <2>2, <2>3, <4>1 DEF LinkStores, P!Works, LinkIInv, P!TypeOK
      <4>3. link # docs[d]
        BY <1>1, <2>2, <2>3, <4>1, <4>2 DEF LinkStores, P!Works, LinkIInv, P!TypeOK
      <4> QED
        BY <2>5, <4>1, <4>2, <4>3 DEF P!Stale
    <3>2. P!Active(linkTask[h].link, linkTask[h].at)
      BY <2>3, <3>1 DEF P!Active
    <3> QED
      BY <2>2, <2>5, <3>1, <3>2 DEF LinkStorable
  <2> QED
    BY <2>4, <2>5 DEF P!Does
<1>2. LinkIInv /\ [P!Next]_P!vars
        => [\A t \in minted : P!Works(t) /\ ~P!Works(t)'
              => \/ clock' # clock
                 \/ \E h \in Handler : P!Does(h, {"rotate", "revoke", "setExpiry"})]_P!vars
  BY <1>1
<1> QED
  BY <1>2, LinkInvariantHolds, PTL DEF P!Spec, P!OpenStaysOpen

-----------------------------------------------------------------------------
(* Document numbers.                                                       *)

LEMMA NumberConstants ==
  Base \in Nat \ {0} /\ Wrap \in Nat
BY DocumentsAssumption DEF N!NumbersAssumption

LEMMA SmallestNat ==
  ASSUME NEW T, T \subseteq Nat, T # {}
  PROVE  \E x \in T : \A y \in T : x <= y
<1>1. \E x \in T : \A y \in T : ~(<<y, x>> \in OpToRel(<, Nat))
  BY NatLessThanWellFounded, WFMin
<1>2. PICK x \in T : \A y \in T : ~(<<y, x>> \in OpToRel(<, Nat))
  BY <1>1
<1>3. \A y \in T : ~(y < x)
  BY <1>2 DEF OpToRel
<1> QED
  BY <1>3

LEMMA LargestBelow ==
  ASSUME NEW L \in Nat, NEW T, T \subseteq 1 .. L, T # {}
  PROVE  \E x \in T : \A y \in T : y <= x
<1> DEFINE U == {L - x : x \in T}
<1>1. U \subseteq Nat /\ U # {}
  <2>1. \A x \in T : L - x \in Nat
    OBVIOUS
  <2>2. PICK x \in T : TRUE
    OBVIOUS
  <2> QED
    BY <2>1, <2>2
<1>2. PICK u \in U : \A v \in U : u <= v
  BY <1>1, SmallestNat
<1>3. PICK x \in T : u = L - x
  OBVIOUS
<1>4. \A y \in T : L - y \in U
  OBVIOUS
<1>5. \A y \in T : L - x <= L - y
  BY <1>2, <1>3, <1>4
<1> QED
  BY <1>5

LEMMA DivMonotone ==
  ASSUME NEW m \in Nat, NEW n \in Nat, m <= n
  PROVE  m \div Base <= n \div Base /\ m \div Base \in Nat
<1>1. Base \in Nat /\ Base > 0
  BY NumberConstants
<1>2. PICK b \in Nat : b = Base /\ b > 0
  BY <1>1
<1>3. m \div b <= n \div b /\ m \div b \in Nat
  BY <1>2, SMT
<1> QED
  BY <1>2, <1>3

\* MAX finds something.
LEMMA MaximumExists ==
  ASSUME NEW L \in Nat, NEW T, T \subseteq 1 .. L, T # {}
  PROVE  \E m \in T : \A n \in T \ {m} : N!Before(n, m)
<1> DEFINE Short == {n \in T : n < Wrap}
           Long  == {n \in T : n >= Wrap}
<1>0. Wrap \in Nat /\ \A n \in T : n \in Nat
  BY NumberConstants
<1>1. ASSUME NEW S, S \subseteq T, S # {}
      PROVE  \E x \in S : \A y \in S : y <= x
  BY <1>0, <1>1, LargestBelow
<1>2. CASE Long = {}
  <2>1. \A n \in T : n < Wrap
    BY <1>0, <1>2
  <2>2. PICK x \in T : \A y \in T : y <= x
    BY <1>1
  <2> QED
    BY <1>0, <2>1, <2>2 DEF N!Before
<1>3. CASE Short = {}
  <2>1. \A n \in T : n >= Wrap
    BY <1>0, <1>3
  <2>2. PICK x \in T : \A y \in T : y <= x
    BY <1>1
  <2> QED
    BY <1>0, <2>1, <2>2 DEF N!Before
<1>4. CASE Short # {} /\ Long # {}
  <2>1. PICK a \in Short : \A y \in Short : y <= a
    BY <1>1, <1>4
  <2>2. PICK b \in Long : \A y \in Long : y <= b
    BY <1>1, <1>4
  <2>3. \A y \in Long : y \div Base <= b \div Base /\ y \div Base \in Nat
    BY <1>0, <2>2, DivMonotone
  <2>4. \A n \in T : n \in Short \/ n \in Long
    BY <1>0
  <2>5. CASE a <= b \div Base
    <3>1. \A n \in T \ {b} : N!Before(n, b)
      BY <1>0, <2>1, <2>2, <2>3, <2>4, <2>5 DEF N!Before
    <3> QED
      BY <3>1
  <2>6. CASE b \div Base < a
    <3>1. \A n \in T \ {a} : N!Before(n, a)
      BY <1>0, <2>1, <2>2, <2>3, <2>4, <2>6 DEF N!Before
    <3> QED
      BY <3>1
  <2> QED
    BY <1>0, <2>1, <2>2, <2>3, <2>5, <2>6
<1> QED
  BY <1>2, <1>3, <1>4


\* The numbers of a series are bounded, since there are finitely many.
SeriesBounded == \A s \in Series : \E L \in Nat : numbers[s] \subseteq 1 .. L

Creations == [series : Series, step : {"number", "insert"}, n : Nat]

\* A number a create() has read is still free, unless another one stored a document
\* of the series meanwhile or MAX did not see it.
ReadIsFree ==
  \A h \in Handler : N!At(h, "insert") =>
    /\ create[h].n > 0
    /\ \/ overlapped[h] \/ create[h].n >= Wrap
       \/ create[h].n \notin numbers[create[h].series]

NumberIInv == /\ numbers \in [Series -> SUBSET Nat]
        /\ create \in [Handler -> Creations \cup {None}]
        /\ overlapped \in [Handler -> BOOLEAN]
        /\ SeriesBounded /\ ReadIsFree

\* MAX + 1 is not taken, unless MAX does not see the numbers of its width.
LEMMA NextIsFree ==
  ASSUME NumberIInv, NEW s \in Series
  PROVE  /\ N!NextNumber(s) \in Nat \ {0}
         /\ N!NextNumber(s) < Wrap => N!NextNumber(s) \notin numbers[s]
<1>1. PICK L \in Nat : numbers[s] \subseteq 1 .. L
  BY DEF NumberIInv, SeriesBounded
<1>2. CASE numbers[s] = {}
  BY <1>2 DEF N!NextNumber
<1>3. CASE numbers[s] # {}
  <2>1. PICK m \in numbers[s] : /\ \A n \in numbers[s] \ {m} : N!Before(n, m)
                                /\ N!NextNumber(s) = 1 + m
    BY <1>1, <1>3, MaximumExists DEF N!NextNumber
  <2>2. m \in Nat /\ N!NextNumber(s) \in Nat \ {0} /\ Wrap \in Nat
    BY <1>1, <2>1, NumberConstants
  <2>3. ASSUME 1 + m < Wrap
        PROVE  ~N!Before(1 + m, m)
    BY <2>2, <2>3 DEF N!Before
  <2> QED
    BY <2>1, <2>2, <2>3
<1> QED
  BY <1>2, <1>3

\* What a handler at a step is creating.
LEMMA NumberHeld ==
  ASSUME NumberIInv, NEW h \in Handler, N!Creating(h)
  PROVE  create[h] \in Creations /\ create[h].series \in Series /\ create[h].n \in Nat
BY DEF NumberIInv, N!Creating, Creations

LEMMA NumberStep ==
  ASSUME NumberIInv, NEW h \in Handler, N!Number(h)
  PROVE  NumberIInv'
<1>1. PICK s \in Series, n \in Nat \ {0} :
        /\ s = create[h].series /\ n = N!NextNumber(s)
        /\ n < Wrap => n \notin numbers[s]
  BY NumberHeld, NextIsFree DEF N!Number, N!At
<1>2. PICK c \in Creations : /\ c.series = s /\ c.n = n /\ c.step = "insert"
                             /\ create' = [create EXCEPT ![h] = c]
  <2>1. create[h] \in Creations
    BY NumberHeld DEF N!Number, N!At
  <2> DEFINE c == [create[h] EXCEPT !.step = "insert", !.n = n]
  <2>2. c \in Creations /\ c.series = s /\ c.n = n /\ c.step = "insert"
    BY <1>1, <2>1 DEF Creations
  <2>3. create' = [create EXCEPT ![h] = c]
    BY <1>1 DEF N!Number, NumberIInv
  <2> QED
    BY <2>2, <2>3
<1>3. UNCHANGED <<numbers, overlapped>> /\ \A g \in Handler : create'[g] = IF g = h THEN c ELSE create[g]
  BY <1>2 DEF N!Number, NumberIInv
<1>4. ReadIsFree'
  BY <1>1, <1>2, <1>3, NumberConstants DEF NumberIInv, ReadIsFree, N!At, N!Creating
<1> QED
  BY <1>2, <1>3, <1>4 DEF NumberIInv, SeriesBounded

LEMMA InsertStep ==
  ASSUME NumberIInv, NEW h \in Handler, N!Insert(h)
  PROVE  NumberIInv'
<1>1. PICK s \in Series, n \in Nat :
        /\ s = create[h].series /\ n = create[h].n /\ n > 0
        /\ numbers' = [numbers EXCEPT ![s] = @ \cup {n}]
        /\ create' = [create EXCEPT ![h] = None]
        /\ overlapped' = [g \in Handler |->
                            overlapped[g] \/ (N!Creating(g) /\ create[g].series = s)]
  BY NumberHeld DEF N!Insert, N!CanInsert, N!At, N!Ends, NumberIInv, ReadIsFree
<1>2. /\ \A t \in Series : numbers'[t] = IF t = s THEN numbers[s] \cup {n} ELSE numbers[t]
      /\ \A g \in Handler : create'[g] = IF g = h THEN None ELSE create[g]
  BY <1>1 DEF NumberIInv
<1>3. SeriesBounded'
  <2> SUFFICES ASSUME NEW t \in Series
               PROVE  \E L \in Nat : numbers'[t] \subseteq 1 .. L
    BY DEF SeriesBounded
  <2>1. PICK L \in Nat : numbers[t] \subseteq 1 .. L
    BY DEF NumberIInv, SeriesBounded
  <2>2. numbers'[t] \subseteq 1 .. (L + n) /\ L + n \in Nat
    BY <1>1, <1>2, <2>1
  <2> QED
    BY <2>2
<1>4. overlapped' \in [Handler -> BOOLEAN]
  <2>1. \A g \in Handler : (overlapped[g] \/ (N!Creating(g) /\ create[g].series = s)) \in BOOLEAN
    OBVIOUS
  <2> QED
    BY <1>1, <2>1, Zenon
<1>5. ReadIsFree'
  <2> SUFFICES ASSUME NEW g \in Handler, N!At(g, "insert")'
               PROVE  /\ create'[g].n > 0
                      /\ \/ overlapped'[g] \/ create'[g].n >= Wrap
                         \/ create'[g].n \notin numbers'[create'[g].series]
    BY DEF ReadIsFree
  <2>1. create'[g] = create[g] /\ N!At(g, "insert") /\ N!Creating(g) /\ create[g].series \in Series
    BY <1>2, NumberHeld DEF N!At, N!Creating
  <2>2. create[g].n > 0
    BY <2>1 DEF NumberIInv, ReadIsFree
  <2>3. CASE create[g].series = s \/ overlapped[g]
    <3>1. overlapped'[g]
      BY <1>1, <2>1, <2>3, Zenon
    <3> QED
      BY <2>1, <2>2, <3>1
  <2>4. CASE create[g].series # s /\ ~overlapped[g]
    BY <1>2, <2>1, <2>2, <2>4 DEF NumberIInv, ReadIsFree
  <2> QED
    BY <2>3, <2>4
<1> QED
  BY <1>1, <1>3, <1>4, <1>5 DEF NumberIInv

LEMMA NumberInvariantStep ==
  ASSUME NumberIInv, [N!Next]_N!numberVars
  PROVE  NumberIInv'
<1>1. ASSUME NEW h \in Handler, NEW s \in Series, N!Begin(h, s)
      PROVE  NumberIInv'
  <2>1. PICK c \in Creations : c.step = "number" /\ create' = [create EXCEPT ![h] = c]
    BY <1>1 DEF N!Begin, Creations
  <2>2. /\ UNCHANGED numbers
        /\ \A g \in Handler : create'[g] = IF g = h THEN c ELSE create[g]
        /\ \A g \in Handler \ {h} : overlapped'[g] = overlapped[g]
        /\ overlapped' \in [Handler -> BOOLEAN]
    BY <1>1, <2>1 DEF N!Begin, NumberIInv
  <2>3. ReadIsFree'
    BY <2>1, <2>2 DEF NumberIInv, ReadIsFree, N!At, N!Creating
  <2> QED
    BY <2>1, <2>2, <2>3 DEF NumberIInv, SeriesBounded
<1>2. ASSUME NEW h \in Handler, N!Reject(h)
      PROVE  NumberIInv'
  BY <1>2 DEF N!Reject, N!Ends, NumberIInv, SeriesBounded, ReadIsFree, N!At, N!Creating
<1>3. ASSUME NEW s \in Series, NEW n \in numbers[s], N!Delete(s, n)
      PROVE  NumberIInv'
  <2>1. /\ UNCHANGED <<create, overlapped>> /\ numbers' \in [Series -> SUBSET Nat]
        /\ \A t \in Series : numbers'[t] \subseteq numbers[t]
    BY <1>3 DEF N!Delete, NumberIInv
  <2>2. SeriesBounded'
    BY <2>1 DEF NumberIInv, SeriesBounded
  <2>3. ReadIsFree'
    BY <2>1, NumberHeld DEF NumberIInv, ReadIsFree, N!At, N!Creating
  <2> QED
    BY <2>1, <2>2, <2>3 DEF NumberIInv
<1>4. CASE N!Restart
  BY <1>4 DEF N!Restart, NumberIInv, SeriesBounded, ReadIsFree, N!At, N!Creating
<1>5. CASE UNCHANGED N!numberVars
  BY <1>5 DEF N!numberVars, NumberIInv, SeriesBounded, ReadIsFree, N!At, N!Creating
<1> QED
  BY <1>1, <1>2, <1>3, <1>4, <1>5, NumberStep, InsertStep DEF N!Next

LEMMA NumberInvariantHolds == N!SafeSpec => []NumberIInv
<1>1. N!Init => NumberIInv
  BY DEF N!Init, NumberIInv, SeriesBounded, ReadIsFree, N!At, N!Creating
<1> QED
  BY <1>1, NumberInvariantStep, PTL DEF N!SafeSpec

\* A create() is refused its number only because another one stored a document of its
\* series meanwhile, or because MAX does not see the numbers with one more digit.
THEOREM NumbersRefusedForOverlap == N!SafeSpec => N!RejectedForOverlap
<1>1. NumberIInv /\ [N!Next]_N!numberVars =>
        [\A h \in Handler : N!Reject(h) => overlapped[h] \/ create[h].n >= Wrap]_N!numberVars
  BY DEF NumberIInv, ReadIsFree, N!Reject, N!CanInsert
<1> QED
  BY <1>1, NumberInvariantHolds, PTL DEF N!SafeSpec, N!RejectedForOverlap

-----------------------------------------------------------------------------
(* Side by side: a step of one module is a stuttering step of the others.  *)

\* A behaviour of MCDocuments is one of Quotations, of Contracts, of PublicLinks and,
\* fairness aside, of DocumentNumbers.
THEOREM EachRunsAlone == DocumentsSpec => Spec /\ C!Spec /\ P!Spec /\ N!SafeSpec
<1>1. DocumentsInit => Init /\ C!Init /\ P!Init /\ N!Init
  BY DEF DocumentsInit
<1>2. [DocumentsNext]_<<vars, paperVars, linkVars, seriesVars>> =>
        [Next]_vars /\ [C!Next]_C!vars /\ [P!Next]_P!vars /\ [N!Next]_N!numberVars
  BY DEF DocumentsNext, C!vars, C!historyVars, P!vars, N!numberVars, paperVars, linkVars, seriesVars
<1> QED
  BY <1>1, <1>2, PTL DEF DocumentsSpec, Spec, C!Spec, P!Spec, N!SafeSpec

\* Contracts: what a client decides on was sent as it stands.
THEOREM ClientsDecideOnSentText == DocumentsSpec => []DecidedOnSentText
BY DocumentsAssumption, EachRunsAlone, PapersDecidedOnSentText, PTL DEF DecidedOnSentText

\* Contracts: the stored copy holds a text the client signed.
THEOREM CopiesAreOfSignedText == DocumentsSpec => []StoredCopyWasSigned
BY DocumentsAssumption, EachRunsAlone, PaperCopiesAreSigned, PTL DEF StoredCopyWasSigned

\* Contracts: signing leads to a stored copy of the text, mishaps aside.
THEOREM SigningLeadsToACopy == DocumentsSpec => []SignedGetsItsCopy
BY DocumentsAssumption, EachRunsAlone, PaperSigningLeadsToCopy, PTL DEF SignedGetsItsCopy

\* Contracts: steps on current rows follow the lifecycle of the class comment.
THEOREM ContractsFollowLifecycle == DocumentsSpec => ContractLifecycle
BY DocumentsAssumption, EachRunsAlone, PapersFollowLifecycle, PTL DEF ContractLifecycle

\* Public links: a link that stopped working stays so.
THEOREM ClosedLinksStayClosed == DocumentsSpec => ClosedStaysClosed
BY DocumentsAssumption, EachRunsAlone, LinksStayClosed, PTL DEF ClosedStaysClosed

\* Public links: a working link stops only for a reason.
THEOREM OpenLinksStayOpen == DocumentsSpec => OpenStaysOpen
BY DocumentsAssumption, EachRunsAlone, LinksStayOpen, PTL DEF OpenStaysOpen

\* Document numbers: a creation is refused its number only for an overlap, or for a
\* number MAX does not see.
THEOREM RefusedOnlyForOverlap == DocumentsSpec => RejectedForOverlap
BY EachRunsAlone, NumbersRefusedForOverlap, PTL DEF RejectedForOverlap
=============================================================================
