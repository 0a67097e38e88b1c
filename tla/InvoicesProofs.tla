--------------------------- MODULE InvoicesProofs ---------------------------
(***************************************************************************)
(* Proofs about Invoices, for any sets of invoices, uploads and handlers.  *)
(*                                                                         *)
(* 1. Whatever requests and sweeps overlap: a PAID row was confirmed, a    *)
(*    cited proof is a consumed upload of that invoice, and no upload is   *)
(*    cited twice.  The rows alone are not inductive: a save writes back   *)
(*    what a handler loaded, so the entities held in memory must satisfy   *)
(*    the same condition (HeldGood).                                       *)
(* 2. When activities do not overlap, Invoices implements the documented   *)
(*    lifecycle (InvoiceLifecycle).                                        *)
(***************************************************************************)
EXTENDS InvoiceIncome, TLAPS

\* What both a stored row and an entity in memory satisfy.
GoodRow(i, row) ==
  /\ row.status = "PAID" => i \in confirmed /\ row.paidAt
  /\ \A u \in row.proofs : /\ uploads[u] # None
                           /\ uploads[u].inv = i
                           /\ uploads[u].status = "CONSUMED"

RowsGood == \A i \in Invoice : Exists(i) => GoodRow(i, table[i])

HeldGood == \A h \in Handler : task[h] # None => GoodRow(task[h].inv, task[h].row)

\* An upload a submission has checked belongs to its invoice for good.
CheckedUpload ==
  \A h \in Handler : task[h] # None /\ task[h].up # None
                       => /\ uploads[task[h].up] # None
                          /\ uploads[task[h].up].inv = task[h].inv

\* A submission commits only by turning PENDING into CONSUMED.
CitedOnceConsumed ==
  \A u \in Upload :
    /\ cited[u] \in {0, 1}
    /\ cited[u] = 1 => uploads[u] # None /\ uploads[u].status = "CONSUMED"

IInv == TypeOK /\ RowsGood /\ HeldGood /\ CheckedUpload /\ CitedOnceConsumed

-----------------------------------------------------------------------------
\* Every handler step, sweep and crash keeps the shapes of rows and requests.
LEMMA TypeStep ==
  ASSUME TypeOK, [Next]_vars
  PROVE  TypeOK'
<1> USE NoneAssumption DEF TypeOK, Task, Row, FileUpload, Op, Status
<1>1. ASSUME NEW i \in Invoice, NEW t \in Total, Create(i, t) PROVE TypeOK'
  BY <1>1 DEF Create
<1>2. ASSUME NEW h \in Handler, Load(h) PROVE TypeOK'
  BY <1>2 DEF Load, UpdateFind, RemoveFind, MarkPaidFind, SubmitFind, UploadFind,
              LinkFind, Find, Exists, Unpaid
<1>3. ASSUME NEW h \in Handler, UpdateSave(h) PROVE TypeOK'
  <2>1. PICK t \in Total, kept \in {task[h].row.proofs, {}} :
          SaveEntity(task[h].inv, [task[h].row EXCEPT !.total = t, !.proofs = kept])
    BY <1>3 DEF UpdateSave
  <2>2. task[h] \in Task
    BY <1>3 DEF UpdateSave, Working
  <2>3. [task[h].row EXCEPT !.total = t, !.proofs = kept] \in Row
    BY <2>2
  <2>4. table' \in [Invoice -> Row \cup {None}]
    BY <2>1, <2>2, <2>3 DEF SaveEntity
  <2> QED
    BY <1>3, <2>4 DEF UpdateSave, Done
<1>4. ASSUME NEW h \in Handler, RemoveDelete(h) PROVE TypeOK'
  BY <1>4 DEF RemoveDelete, Done, Working
<1>5. ASSUME NEW h \in Handler, MarkPaidSave(h) PROVE TypeOK'
  <2>1. task[h] \in Task
    BY <1>5 DEF MarkPaidSave, Working
  <2>2. [task[h].row EXCEPT !.status = "PAID", !.paidAt = TRUE] \in Row
    BY <2>1
  <2>3. table' \in [Invoice -> Row \cup {None}]
    BY <1>5, <2>1, <2>2 DEF MarkPaidSave, SaveEntity
  <2> QED
    BY <1>5, <2>1, <2>3 DEF MarkPaidSave, Done
<1>6. ASSUME NEW h \in Handler, LinkSave(h) PROVE TypeOK'
  <2>1. task[h] \in Task
    BY <1>6 DEF LinkSave, Working
  <2>2. table' \in [Invoice -> Row \cup {None}]
    BY <1>6, <2>1 DEF LinkSave, SaveEntity
  <2> QED
    BY <1>6, <2>2 DEF LinkSave, Done
<1>7. ASSUME NEW h \in Handler, NEW u \in Upload, UploadRecord(h, u) PROVE TypeOK'
  BY <1>7 DEF UploadRecord, Done, Working
<1>8. ASSUME NEW h \in Handler, NEW u \in Upload, SubmitCheck(h, u) PROVE TypeOK'
  BY <1>8 DEF SubmitCheck, Working
<1>9. ASSUME NEW h \in Handler, SubmitCommit(h) PROVE TypeOK'
  <2> DEFINE u == task[h].up
  <2>1. task[h] \in Task /\ u \in Upload
    BY <1>9 DEF SubmitCommit, Working
  <2>2. [task[h].row EXCEPT !.proofs = @ \cup {u}] \in Row
    BY <2>1
  <2>3. table' \in [Invoice -> Row \cup {None}]
    BY <1>9, <2>1, <2>2 DEF SubmitCommit, SaveEntity
  <2>4. uploads' \in [Upload -> FileUpload \cup {None}]
    <3>1. [uploads[u] EXCEPT !.status = "CONSUMED"] \in FileUpload
      BY <1>9, <2>1 DEF SubmitCommit, StillPending
    <3>2. uploads' = [uploads EXCEPT ![u] = [uploads[u] EXCEPT !.status = "CONSUMED"]]
      BY <1>9 DEF SubmitCommit
    <3> QED
      BY <2>1, <3>1, <3>2
  <2>5. cited' \in [Upload -> Nat]
    BY <1>9, <2>1 DEF SubmitCommit
  <2> QED
    BY <1>9, <2>3, <2>4, <2>5 DEF SubmitCommit, Done
<1>10. ASSUME NEW h \in Handler, SubmitConflict(h) \/ Refused(h) PROVE TypeOK'
  BY <1>10 DEF SubmitConflict, Refused, Done, Working
<1>11. ASSUME NEW h \in Handler, SubmitNote(h) PROVE TypeOK'
  <2>1. task[h] \in Task
    BY <1>11 DEF SubmitNote, Working
  <2>2. table' \in [Invoice -> Row \cup {None}]
    BY <1>11, <2>1 DEF SubmitNote, SaveEntity
  <2> QED
    BY <1>11, <2>2 DEF SubmitNote, Done
<1>12. ASSUME NEW h \in Handler, Overdue(h) PROVE TypeOK'
  BY <1>12 DEF Overdue, SweepUpdate, SweepFind, Exists, Unpaid
<1>13. CASE Crash
  BY <1>13 DEF Crash
<1>14. CASE UNCHANGED vars
  BY <1>14 DEF vars
<1> QED
  BY <1>1, <1>2, <1>3, <1>4, <1>5, <1>6, <1>7, <1>8, <1>9, <1>10, <1>11, <1>12,
     <1>13, <1>14 DEF Next, Write

\* Type correctness of the invoices model: rows, upload records, requests in
\* flight and sweeps keep their shapes under every handler and under a crash.
THEOREM TypeCorrect == Spec => []TypeOK
<1>1. Init => TypeOK
  BY DEF Init, TypeOK
<1>2. TypeOK /\ [Next]_vars => TypeOK'
  BY TypeStep
<1> QED
  BY <1>1, <1>2, PTL DEF Spec

-----------------------------------------------------------------------------
\* A busy slot holds a well-formed request with the entity it loaded.
LEMMA HeldTask ==
  ASSUME TypeOK, NEW h \in Handler, task[h] # None
  PROVE  task[h] \in Task
  BY DEF TypeOK

\* Upload records only ever go None -> PENDING -> CONSUMED, for one invoice.
UploadsGrow ==
  \A u \in Upload : uploads[u] # None =>
    /\ uploads'[u] # None
    /\ uploads'[u].inv = uploads[u].inv
    /\ uploads[u].status = "CONSUMED" => uploads'[u] = uploads[u]

\* No handler unlinks, releases or reopens an upload record.
LEMMA UploadsOnlyGrow ==
  ASSUME TypeOK, [Next]_vars
  PROVE  UploadsGrow
<1> USE DEF UploadsGrow
<1>1. CASE UNCHANGED uploads
  BY <1>1
<1>2. ASSUME NEW h \in Handler, NEW u \in Upload, UploadRecord(h, u)
      PROVE  UploadsGrow
  BY <1>2 DEF UploadRecord, TypeOK
<1>3. ASSUME NEW h \in Handler, SubmitCommit(h)
      PROVE  UploadsGrow
  <2> DEFINE v == task[h].up
             new == [uploads[v] EXCEPT !.status = "CONSUMED"]
  <2>1. task[h] # None /\ v # None /\ uploads[v] # None /\ uploads[v].status = "PENDING"
    BY <1>3 DEF SubmitCommit, Working, StillPending
  <2>2. v \in Upload
    BY <2>1, HeldTask DEF Task
  <2>3. new \in FileUpload /\ new.inv = uploads[v].inv
    BY <2>1, <2>2 DEF TypeOK, FileUpload
  <2>4. uploads' = [uploads EXCEPT ![v] = new]
    BY <1>3 DEF SubmitCommit
  <2>5. \A u \in Upload : uploads'[u] = IF u = v THEN new ELSE uploads[u]
    BY <2>4 DEF TypeOK
  <2> HIDE DEF new, v
  <2> QED
    BY <2>1, <2>2, <2>3, <2>5, NoneAssumption
<1> QED
  BY <1>1, <1>2, <1>3
     DEF Next, vars, Create, Load, UpdateFind, RemoveFind, MarkPaidFind, SubmitFind,
         UploadFind, LinkFind, Find, Write, UpdateSave, RemoveDelete, LinkSave,
         SubmitConflict, Refused, SubmitNote, SubmitCheck, MarkPaidSave, Overdue, SweepFind,
         SweepUpdate, Crash

\* A step that writes nothing new: every row that remains is an old good row
\* or an old good row fallen OVERDUE, every held entity was held or just read.
LEMMA QuietKeepsGood ==
  ASSUME TypeOK, RowsGood, HeldGood, UploadsGrow, confirmed \subseteq confirmed',
         \A i \in Invoice : Exists(i)' =>
           \/ Exists(i) /\ table'[i] = table[i]
           \/ Exists(i) /\ table'[i] = [table[i] EXCEPT !.status = "OVERDUE"]
           \/ table'[i].status = "UNPAID" /\ table'[i].proofs = {},
         \A h \in Handler : task'[h] # None =>
           \/ /\ task[h] # None
              /\ task'[h].inv = task[h].inv /\ task'[h].row = task[h].row
           \/ /\ task'[h].inv \in Invoice /\ Exists(task'[h].inv)
              /\ task'[h].row = table[task'[h].inv]
  PROVE  RowsGood' /\ HeldGood'
<1>1. ASSUME NEW i \in Invoice, Exists(i)'
      PROVE  GoodRow(i, table[i])'
  <2>1. CASE table'[i].status = "UNPAID" /\ table'[i].proofs = {}
    BY <2>1 DEF GoodRow
  <2>2. ASSUME Exists(i) PROVE GoodRow(i, table[i]) /\ table[i] \in Row
    BY <2>2 DEF RowsGood, TypeOK, Exists
  <2>3. CASE Exists(i) /\ table'[i] = table[i]
    BY <2>2, <2>3 DEF GoodRow, UploadsGrow, Row
  <2>4. CASE Exists(i) /\ table'[i] = [table[i] EXCEPT !.status = "OVERDUE"]
    <3>1. table'[i].status = "OVERDUE" /\ table'[i].proofs = table[i].proofs
      BY <2>2, <2>4 DEF Row
    <3> QED
      BY <2>2, <2>4, <3>1 DEF GoodRow, UploadsGrow, Row
  <2> QED
    BY <1>1, <2>1, <2>3, <2>4
<1>2. ASSUME NEW h \in Handler, task'[h] # None
      PROVE  GoodRow(task[h].inv, task[h].row)'
  <2> DEFINE i == task'[h].inv
             row == task'[h].row
  <2>1. GoodRow(i, row) /\ row.proofs \in SUBSET Upload
    <3>1. CASE task[h] # None /\ i = task[h].inv /\ row = task[h].row
      BY <3>1, HeldTask DEF HeldGood, Task, Row
    <3>2. CASE i \in Invoice /\ Exists(i) /\ row = table[i]
      BY <3>2 DEF RowsGood, TypeOK, Exists, Row
    <3> QED
      BY <1>2, <3>1, <3>2
  <2> QED
    BY <2>1 DEF GoodRow, UploadsGrow
<1> QED
  BY <1>1, <1>2 DEF RowsGood, HeldGood

\* The condition of GoodRow in the state a step leads to, for an entity of the
\* state it starts from.
GoodAfter(i, row) ==
  /\ row.status = "PAID" => i \in confirmed' /\ row.paidAt
  /\ \A u \in row.proofs : /\ uploads'[u] # None
                           /\ uploads'[u].inv = i
                           /\ uploads'[u].status = "CONSUMED"

\* Every save writes a good row over one entry of the table, every other row
\* and every held entity is untouched: the core of all preservation steps.
LEMMA SaveKeepsGood ==
  ASSUME TypeOK, RowsGood, HeldGood, TypeOK',
         NEW j \in Invoice, NEW row \in Row, SaveEntity(j, row), GoodAfter(j, row),
         \A h \in Handler : task'[h] = task[h] \/ task'[h] = None,
         confirmed \subseteq confirmed', UploadsGrow
  PROVE  RowsGood' /\ HeldGood'
<1>1. ASSUME NEW i \in Invoice, Exists(i)' PROVE GoodRow(i, table[i])'
  <2>1. CASE i = j
    <3>1. table'[i] = row
      BY <2>1 DEF SaveEntity, TypeOK
    <3> QED
      BY <2>1, <3>1 DEF GoodRow, GoodAfter
  <2>2. CASE i # j
    <3>1. table'[i] = table[i] /\ table[i] \in Row /\ Exists(i)
      BY <1>1, <2>2 DEF SaveEntity, TypeOK, Exists
    <3>2. GoodRow(i, table[i]) /\ table[i].proofs \in SUBSET Upload
      BY <3>1 DEF RowsGood, Row
    <3> QED
      BY <3>1, <3>2 DEF GoodRow, UploadsGrow
  <2> QED
    BY <2>1, <2>2
<1>2. ASSUME NEW h \in Handler, task'[h] # None
      PROVE  GoodRow(task[h].inv, task[h].row)'
  <2>1. task'[h] = task[h] /\ task[h] \in Task /\ GoodRow(task[h].inv, task[h].row)
    BY <1>2, HeldTask DEF HeldGood
  <2>2. task[h].row.proofs \in SUBSET Upload
    BY <2>1 DEF Task, Row
  <2> QED
    BY <2>1, <2>2 DEF GoodRow, UploadsGrow
<1> QED
  BY <1>1, <1>2 DEF RowsGood, HeldGood

-----------------------------------------------------------------------------
\* Every step keeps the stored rows and the entities in memory good.
LEMMA RowsStep ==
  ASSUME TypeOK, RowsGood, HeldGood, CheckedUpload, [Next]_vars, TypeOK', UploadsGrow
  PROVE  RowsGood' /\ HeldGood'
<1> USE NoneAssumption
<1>1. ASSUME NEW i \in Invoice, NEW t \in Total, Create(i, t) PROVE RowsGood' /\ HeldGood'
  <2>1. \A j \in Invoice : \/ table'[j] = table[j]
                           \/ table'[j].status = "UNPAID" /\ table'[j].proofs = {}
    BY <1>1 DEF Create, TypeOK
  <2> QED
    BY <1>1, <2>1, QuietKeepsGood DEF Create, Exists
<1>2. ASSUME NEW h \in Handler, Load(h) PROVE RowsGood' /\ HeldGood'
  <2>1. PICK i \in Invoice, op \in Op : Find(h, op, i)
    BY <1>2 DEF Load, UpdateFind, RemoveFind, MarkPaidFind, SubmitFind, UploadFind,
                LinkFind, Op
  <2>2. \A g \in Handler : \/ task'[g] = task[g]
                           \/ task'[g].inv = i /\ task'[g].row = table[i]
    BY <2>1 DEF Find, TypeOK
  <2> QED
    BY <2>1, <2>2, QuietKeepsGood DEF Find, Exists
<1>3. ASSUME NEW h \in Handler, UpdateSave(h) PROVE RowsGood' /\ HeldGood'
  <2>1. PICK t \in Total, kept \in {task[h].row.proofs, {}} :
          SaveEntity(task[h].inv, [task[h].row EXCEPT !.total = t, !.proofs = kept])
    BY <1>3 DEF UpdateSave
  <2> DEFINE row == [task[h].row EXCEPT !.total = t, !.proofs = kept]
  <2>2. task[h] \in Task /\ GoodRow(task[h].inv, task[h].row)
    BY <1>3, HeldTask DEF UpdateSave, Working, HeldGood
  <2>3. /\ row \in Row /\ row.status = task[h].row.status
        /\ row.paidAt = task[h].row.paidAt /\ row.proofs \subseteq task[h].row.proofs
    BY <2>2 DEF Task, Row
  <2>4. GoodAfter(task[h].inv, row)
    BY <1>3, <2>2, <2>3 DEF GoodRow, GoodAfter, UpdateSave
  <2>5. /\ \A g \in Handler : task'[g] = task[g] \/ task'[g] = None
        /\ confirmed \subseteq confirmed'
    BY <1>3 DEF UpdateSave, Done, TypeOK
  <2> HIDE DEF row
  <2> QED
    BY <2>1, <2>2, <2>3, <2>4, <2>5, SaveKeepsGood DEF Task, row
<1>4. ASSUME NEW h \in Handler, RemoveDelete(h) PROVE RowsGood' /\ HeldGood'
  BY <1>4, QuietKeepsGood DEF RemoveDelete, Done, Exists, TypeOK
<1>5. ASSUME NEW h \in Handler, MarkPaidSave(h) PROVE RowsGood' /\ HeldGood'
  <2> DEFINE row == [task[h].row EXCEPT !.status = "PAID", !.paidAt = TRUE]
  <2>1. task[h] \in Task /\ GoodRow(task[h].inv, task[h].row)
    BY <1>5, HeldTask DEF MarkPaidSave, Working, HeldGood
  <2>2. row \in Row /\ row.paidAt /\ row.proofs = task[h].row.proofs
    BY <2>1 DEF Task, Row, Status
  <2>3. GoodAfter(task[h].inv, row)
    BY <1>5, <2>1, <2>2 DEF GoodRow, GoodAfter, MarkPaidSave
  <2>4. /\ \A g \in Handler : task'[g] = task[g] \/ task'[g] = None
        /\ confirmed \subseteq confirmed'
    BY <1>5 DEF MarkPaidSave, Done, TypeOK
  <2>5. SaveEntity(task[h].inv, row)
    BY <1>5 DEF MarkPaidSave
  <2> HIDE DEF row
  <2> QED
    BY <2>1, <2>2, <2>3, <2>4, <2>5, SaveKeepsGood DEF Task
<1>6. ASSUME NEW h \in Handler, LinkSave(h) \/ SubmitNote(h) PROVE RowsGood' /\ HeldGood'
  <2>1. task[h] \in Task /\ GoodRow(task[h].inv, task[h].row)
    BY <1>6, HeldTask DEF LinkSave, SubmitNote, Working, HeldGood
  <2>2. GoodRow(task[h].inv, task[h].row) /\ UNCHANGED <<uploads, confirmed>>
    BY <1>6, <2>1 DEF LinkSave, SubmitNote
  <2>3. /\ \A g \in Handler : task'[g] = task[g] \/ task'[g] = None
        /\ SaveEntity(task[h].inv, task[h].row)
    BY <1>6 DEF LinkSave, SubmitNote, Done, TypeOK
  <2>4. GoodAfter(task[h].inv, task[h].row)
    BY <2>2 DEF GoodRow, GoodAfter
  <2> QED
    BY <2>1, <2>2, <2>3, <2>4, SaveKeepsGood DEF Task
<1>7. ASSUME NEW h \in Handler, SubmitCommit(h) PROVE RowsGood' /\ HeldGood'
  <2> DEFINE u == task[h].up
             row == [task[h].row EXCEPT !.proofs = @ \cup {u}]
  <2>1. /\ task[h] \in Task /\ GoodRow(task[h].inv, task[h].row)
        /\ u \in Upload /\ uploads[u] # None /\ uploads[u].inv = task[h].inv
    BY <1>7, HeldTask DEF SubmitCommit, Working, HeldGood, Task, CheckedUpload
  <2>2. /\ row \in Row /\ row.status = task[h].row.status
        /\ row.paidAt = task[h].row.paidAt /\ row.proofs = task[h].row.proofs \cup {u}
    BY <2>1 DEF Task, Row
  <2>3. uploads'[u].status = "CONSUMED"
    BY <1>7, <2>1 DEF SubmitCommit, TypeOK, FileUpload
  <2>4. GoodAfter(task[h].inv, row)
    <3>1. confirmed' = confirmed
      BY <1>7 DEF SubmitCommit
    <3>2. task[h].row.proofs \subseteq Upload
      BY <2>1 DEF Task, Row
    <3> HIDE DEF row, u
    <3> QED
      BY <2>1, <2>2, <2>3, <3>1, <3>2 DEF GoodRow, GoodAfter, UploadsGrow
  <2>5. /\ \A g \in Handler : task'[g] = task[g] \/ task'[g] = None
        /\ confirmed \subseteq confirmed'
        /\ SaveEntity(task[h].inv, row)
    BY <1>7 DEF SubmitCommit, Done, TypeOK
  <2> HIDE DEF row, u
  <2> QED
    BY <2>1, <2>2, <2>4, <2>5, SaveKeepsGood DEF Task
<1>8. ASSUME NEW h \in Handler, NEW u \in Upload, UploadRecord(h, u) \/ SubmitCheck(h, u)
      PROVE  RowsGood' /\ HeldGood'
  <2>1. \A g \in Handler : task'[g] # None =>
          task[g] # None /\ task'[g].inv = task[g].inv /\ task'[g].row = task[g].row
    <3>1. task[h] \in Task
      BY <1>8, HeldTask DEF UploadRecord, SubmitCheck, Working
    <3> QED
      BY <1>8, <3>1 DEF UploadRecord, SubmitCheck, Working, Done, TypeOK, Task
  <2> QED
    BY <1>8, <2>1, QuietKeepsGood DEF UploadRecord, SubmitCheck, Exists
<1>9. ASSUME NEW h \in Handler, SubmitConflict(h) \/ Refused(h) PROVE RowsGood' /\ HeldGood'
  BY <1>9, QuietKeepsGood DEF SubmitConflict, Refused, Done, Exists, TypeOK
<1>10. ASSUME NEW h \in Handler, Overdue(h) PROVE RowsGood' /\ HeldGood'
  <2>1. CASE SweepUpdate(h)
    <3>1. \A i \in Invoice : Exists(i)' =>
            /\ Exists(i)
            /\ table'[i] \in {table[i], [table[i] EXCEPT !.status = "OVERDUE"]}
      BY <2>1 DEF SweepUpdate, Exists
    <3> QED
      BY <2>1, <3>1, QuietKeepsGood DEF SweepUpdate
  <2>2. CASE \E late \in SUBSET Invoice : SweepFind(h, late)
    BY <2>2, QuietKeepsGood DEF SweepFind, Exists
  <2> QED
    BY <1>10, <2>1, <2>2 DEF Overdue
<1>11. CASE Crash
  BY <1>11, QuietKeepsGood DEF Crash, Exists
<1>12. CASE UNCHANGED vars
  BY <1>12, QuietKeepsGood DEF vars, Exists
<1> QED
  BY <1>1, <1>2, <1>3, <1>4, <1>5, <1>6, <1>7, <1>8, <1>9, <1>10, <1>11, <1>12
     DEF Next, Write

\* An upload a submission has checked stays the upload of its invoice.
LEMMA CheckedStep ==
  ASSUME TypeOK, CheckedUpload, [Next]_vars, UploadsGrow
  PROVE  CheckedUpload'
<1> USE NoneAssumption
\* All but SubmitCheck keep the upload of a request, drop it or start without.
<1>1. ASSUME \A h \in Handler : task'[h] # None /\ task'[h].up # None
                                  => task'[h] = task[h]
      PROVE  CheckedUpload'
  <2>1. \A h \in Handler : task[h] # None /\ task[h].up # None => task[h].up \in Upload
    BY HeldTask DEF Task
  <2> QED
    BY <1>1, <2>1 DEF CheckedUpload, UploadsGrow
<1>2. ASSUME NEW h \in Handler, NEW u \in Upload, SubmitCheck(h, u)
      PROVE  CheckedUpload'
  <2>1. task[h] \in Task
    BY <1>2, HeldTask DEF SubmitCheck, Working
  <2>2. task'[h].up = u /\ task'[h].inv = task[h].inv
    BY <1>2, <2>1 DEF SubmitCheck, TypeOK, Task
  <2>3. \A g \in Handler \ {h} : task'[g] = task[g]
    BY <1>2 DEF SubmitCheck, TypeOK
  <2>4. uploads' = uploads /\ uploads[u] # None /\ uploads[u].inv = task[h].inv
    BY <1>2 DEF SubmitCheck
  <2> QED
    BY <2>2, <2>3, <2>4 DEF CheckedUpload
<1>3. ASSUME NEW h \in Handler, Load(h) PROVE CheckedUpload'
  <2>1. PICK i \in Invoice, op \in Op : Find(h, op, i)
    BY <1>3 DEF Load, UpdateFind, RemoveFind, MarkPaidFind, SubmitFind, UploadFind,
                LinkFind, Op
  <2>2. \A g \in Handler : task'[g] = task[g] \/ task'[g].up = None
    BY <2>1 DEF Find, TypeOK
  <2> QED
    BY <1>1, <2>2
<1>4. ASSUME NEW h \in Handler, task' = [task EXCEPT ![h] = None] PROVE CheckedUpload'
  BY <1>1, <1>4 DEF TypeOK
<1>5. CASE UNCHANGED task
  BY <1>1, <1>5
<1>6. CASE Crash
  BY <1>1, <1>6 DEF Crash
<1> QED
  BY <1>2, <1>3, <1>4, <1>5, <1>6
     DEF Next, vars, Create, Write, UpdateSave, RemoveDelete, MarkPaidSave, LinkSave,
         UploadRecord, SubmitCommit, SubmitConflict, Refused, SubmitNote, Overdue, SweepFind,
         SweepUpdate, Done

\* The conditional UPDATE lets one submission per upload through.
LEMMA CitedStep ==
  ASSUME TypeOK, CitedOnceConsumed, [Next]_vars, UploadsGrow
  PROVE  CitedOnceConsumed'
<1>1. CASE UNCHANGED cited
  BY <1>1 DEF CitedOnceConsumed, UploadsGrow
<1>2. ASSUME NEW h \in Handler, SubmitCommit(h) PROVE CitedOnceConsumed'
  <2> DEFINE v == task[h].up
  <2>1. v \in Upload /\ uploads[v] # None /\ uploads[v].status = "PENDING"
    BY <1>2, HeldTask DEF SubmitCommit, Working, Task, StillPending
  <2>2. cited[v] = 0
    BY <2>1 DEF CitedOnceConsumed
  <2>3. uploads'[v].status = "CONSUMED" /\ uploads'[v] # None
    BY <1>2, <2>1 DEF SubmitCommit, TypeOK, FileUpload, UploadsGrow
  <2>4. \A u \in Upload : cited'[u] = IF u = v THEN 1 ELSE cited[u]
    BY <1>2, <2>1, <2>2 DEF SubmitCommit, TypeOK
  <2> HIDE DEF v
  <2> QED
    BY <2>1, <2>3, <2>4 DEF CitedOnceConsumed, UploadsGrow
<1> QED
  BY <1>1, <1>2
     DEF Next, vars, Create, Load, UpdateFind, RemoveFind, MarkPaidFind, SubmitFind,
         UploadFind, LinkFind, Find, Write, UpdateSave, RemoveDelete, LinkSave,
         SubmitConflict, Refused, SubmitNote, SubmitCheck, UploadRecord, MarkPaidSave, Overdue,
         SweepFind, SweepUpdate, Crash

\* The inductive invariant holds in every reachable state.
LEMMA InvariantHolds == Spec => []IInv
<1>1. Init => IInv
  BY DEF Init, IInv, TypeOK, RowsGood, HeldGood, CheckedUpload, CitedOnceConsumed, Exists
<1>2. IInv /\ [Next]_vars => IInv'
  BY TypeStep, UploadsOnlyGrow, RowsStep, CheckedStep, CitedStep DEF IInv
<1> QED
  BY <1>1, <1>2, PTL DEF Spec

\* However requests, sweeps and crashes interleave, a PAID invoice was confirmed
\* through markAsPaid and carries its payment date.
THEOREM PaidOnlyByConfirmation == Spec => []PaidWasConfirmed
<1>1. IInv => PaidWasConfirmed
  BY DEF IInv, RowsGood, GoodRow, PaidWasConfirmed
<1> QED
  BY <1>1, InvariantHolds, PTL

\* The proofs an invoice cites are consumed uploads made for that invoice.
THEOREM CitedProofsAreConsumed == Spec => []ProofsAreConsumed
<1>1. IInv => ProofsAreConsumed
  BY DEF IInv, RowsGood, GoodRow, ProofsAreConsumed
<1> QED
  BY <1>1, InvariantHolds, PTL

\* However many submissions race for an upload, at most one commits with it.
THEOREM NoUploadIsReused == Spec => []UploadCitedOnce
<1>1. IInv => UploadCitedOnce
  BY DEF IInv, CitedOnceConsumed, UploadCitedOnce
<1> QED
  BY <1>1, InvariantHolds, PTL

-----------------------------------------------------------------------------
(* The documented lifecycle, when no two activities overlap.  What a handler *)
(* holds is then what the table says, so the status it checked still stands. *)

\* What each handler checked when it loaded its invoice.
Checked(t) == /\ t.op \in {"update", "remove"} => t.row.status = "UNPAID"
              /\ t.op = "markPaid" => t.row.status # "PAID"

Fresh == \A h \in Handler :
           /\ task[h] # None => /\ sweep[h] = {}
                                /\ table[task[h].inv] = task[h].row
                                /\ Checked(task[h])
           /\ \A i \in sweep[h] : Unpaid(i)

ExistingIssued == \A i \in Invoice : Exists(i) => i \in issued

Alone == \A g, h \in Handler : g = h

\* A step that starts or ends an activity leaves the others, there are none.
LEMMA FreshStep ==
  ASSUME TypeOK, Fresh, ExistingIssued, [Next]_vars, Alone
  PROVE  Fresh' /\ ExistingIssued'
<1> USE NoneAssumption
<1> USE DEF Alone
<1>1. ASSUME NEW i \in Invoice, NEW t \in Total, Create(i, t)
      PROVE  Fresh' /\ ExistingIssued'
  <2>1. /\ ~Exists(i)
        /\ \A j \in Invoice : Exists(j) => table'[j] = table[j]
        /\ \A j \in Invoice : Exists(j)' => Exists(j) \/ j = i
        /\ i \in issued' /\ issued \subseteq issued'
    BY <1>1 DEF Create, ExistingIssued, TypeOK, Exists
  <2>2. ASSUME NEW h \in Handler, task[h] # None
        PROVE  task[h].inv \in Invoice /\ Exists(task[h].inv)
    BY <2>2, HeldTask DEF Fresh, Exists, Task
  <2>3. \A h \in Handler : \A j \in sweep[h] : j \in Invoice
    BY DEF TypeOK
  <2> QED
    BY <1>1, <2>1, <2>2, <2>3 DEF Fresh, Create, Exists, Unpaid, ExistingIssued
<1>2. ASSUME NEW h \in Handler, Load(h) PROVE Fresh' /\ ExistingIssued'
  <2>1. PICK i \in Invoice, op \in Op :
          /\ Find(h, op, i)
          /\ op \in {"update", "remove"} => table[i].status = "UNPAID"
          /\ op = "markPaid" => table[i].status # "PAID"
    BY <1>2 DEF Load, UpdateFind, RemoveFind, MarkPaidFind, SubmitFind, UploadFind,
                LinkFind, Op, Unpaid
  <2>2. /\ task'[h] = [op |-> op, inv |-> i, row |-> table[i], up |-> None]
        /\ sweep'[h] = {} /\ UNCHANGED <<table, issued>>
    BY <2>1 DEF Find, Free, TypeOK
  <2>3. Checked(task[h])'
    BY <2>1, <2>2 DEF Checked
  <2> QED
    BY <2>2, <2>3 DEF Fresh, ExistingIssued, Exists
<1>3. ASSUME NEW h \in Handler, task[h] # None, task'[h] = None, UNCHANGED <<issued, sweep>>,
             \A j \in Invoice : Exists(j)' => Exists(j) \/ j = task[h].inv
      PROVE  Fresh' /\ ExistingIssued'
  <2>1. task[h].inv \in issued
    BY <1>3, HeldTask DEF Task, Fresh, ExistingIssued, Exists
  <2>2. sweep'[h] = {}
    BY <1>3 DEF Fresh
  <2> QED
    BY <1>3, <2>1, <2>2 DEF Fresh, ExistingIssued
<1>4. ASSUME NEW h \in Handler, Write(h) \/ MarkPaidSave(h) \/ RemoveDelete(h)
      PROVE  Fresh' /\ ExistingIssued'
  <2>1. ASSUME NEW u \in Upload, SubmitCheck(h, u) PROVE Fresh' /\ ExistingIssued'
    <3>1. task[h] \in Task
      BY <2>1, HeldTask DEF SubmitCheck, Working
    <3>2. /\ task'[h].op = task[h].op /\ task'[h].inv = task[h].inv
          /\ task'[h].row = task[h].row
      BY <2>1, <3>1 DEF SubmitCheck, TypeOK, Task
    <3>3. Checked(task[h])'
      BY <2>1, <3>2 DEF Checked, Fresh, SubmitCheck, Working
    <3> QED
      BY <2>1, <3>2, <3>3 DEF Fresh, ExistingIssued, Exists, SubmitCheck, Working, Unpaid
  <2>2. CASE ~\E u \in Upload : SubmitCheck(h, u)
    <3>1. task[h] # None /\ task'[h] = None /\ UNCHANGED <<issued, sweep>>
      BY <1>4, <2>2 DEF Write, UpdateSave, RemoveDelete, MarkPaidSave, LinkSave,
           UploadRecord, SubmitCommit, SubmitConflict, Refused, SubmitNote, Working, Done, TypeOK
    <3>2. \A j \in Invoice : j # task[h].inv => table'[j] = table[j]
      BY <1>4, <2>2 DEF Write, UpdateSave, RemoveDelete, MarkPaidSave, LinkSave,
           UploadRecord, SubmitCommit, SubmitConflict, Refused, SubmitNote, SaveEntity, TypeOK
    <3> QED
      BY <1>3, <3>1, <3>2 DEF Exists
  <2> QED
    BY <2>1, <2>2
<1>5. ASSUME NEW h \in Handler, SweepUpdate(h) PROVE Fresh' /\ ExistingIssued'
  <2>1. task[h] = None /\ task' = task /\ sweep'[h] = {}
    BY <1>5 DEF SweepUpdate, Fresh, TypeOK
  <2>2. issued' = issued /\ \A j \in Invoice : Exists(j)' => Exists(j)
    BY <1>5 DEF SweepUpdate, Exists
  <2> QED
    BY <2>1, <2>2 DEF Fresh, ExistingIssued
<1>6. ASSUME NEW h \in Handler, NEW late \in SUBSET Invoice, SweepFind(h, late)
      PROVE  Fresh' /\ ExistingIssued'
  <2>1. task'[h] = None /\ UNCHANGED <<table, issued>>
    BY <1>6 DEF SweepFind, Free
  <2>2. \A i \in sweep'[h] : Unpaid(i)
    BY <1>6 DEF SweepFind, TypeOK
  <2> QED
    BY <2>1, <2>2 DEF Fresh, ExistingIssued, Unpaid, Exists
<1>7. CASE Crash
  BY <1>7 DEF Crash, Fresh, ExistingIssued, Exists
<1>8. CASE UNCHANGED vars
  BY <1>8 DEF vars, Fresh, ExistingIssued, Exists, Unpaid
<1> QED
  BY <1>1, <1>2, <1>4, <1>5, <1>6, <1>7, <1>8 DEF Next, Overdue

\* Nothing held is outdated, and what was checked still stands.
AsLoaded == \A h \in Handler :
              /\ task[h] # None => table[task[h].inv] = task[h].row /\ Checked(task[h])
              /\ \A i \in sweep[h] : Unpaid(i)

\* What a save of a current row does to the statuses a reader sees.
LEMMA SaveSeen ==
  ASSUME TypeOK, AsLoaded, NEW h \in Handler, task[h] # None, NEW row \in Row,
         SaveEntity(task[h].inv, row), issued' = issued
  PROVE  /\ task[h].inv \in Invoice
         /\ Seen(task[h].inv) = task[h].row.status
         /\ \A i \in Invoice :
              Seen(i)' = IF i = task[h].inv THEN row.status ELSE Seen(i)
<1> USE NoneAssumption
<1>1. task[h].inv \in Invoice /\ task[h].row \in Row /\ table[task[h].inv] = task[h].row
  BY HeldTask DEF AsLoaded, Task
<1>2. \A i \in Invoice : table'[i] = IF i = task[h].inv THEN row ELSE table[i]
  BY <1>1 DEF SaveEntity, TypeOK
<1> QED
  BY <1>1, <1>2 DEF Seen, Exists

\* A step on rows that are as they were loaded is one of the lifecycle, or none.
LEMMA LifecycleStep ==
  ASSUME TypeOK, AsLoaded, ExistingIssued, [Next]_vars
  PROVE  [Lifecycle!Next]_[i \in Invoice |-> Seen(i)]
<1> USE NoneAssumption
<1> DEFINE status == [i \in Invoice |-> Seen(i)]
<1>1. ASSUME \A i \in Invoice : Seen(i)' = Seen(i)
      PROVE  status' = status
  BY <1>1
<1>2. CASE UNCHANGED <<table, issued>>
  BY <1>2 DEF Seen, Exists
<1>3. ASSUME NEW i \in Invoice, NEW t \in Total, Create(i, t)
      PROVE  Lifecycle!Issue(i)
  <2> DEFINE row == [status |-> "UNPAID", paidAt |-> FALSE, total |-> t, proofs |-> {}]
  <2>1. row \in Row /\ row.status = "UNPAID"
    BY DEF Row, Status
  <2>2. \A j \in Invoice : table'[j] = IF j = i THEN row ELSE table[j]
    BY <1>3 DEF Create, TypeOK
  <2> HIDE DEF row
  <2>3. i \notin issued /\ issued' = issued \cup {i} /\ ~Exists(i)
    BY <1>3 DEF Create, ExistingIssued
  <2>4. /\ Seen(i) = "none"
        /\ \A j \in Invoice : Seen(j)' = IF j = i THEN "UNPAID" ELSE Seen(j)
    BY <2>1, <2>2, <2>3 DEF Seen, Exists
  <2> QED
    BY <2>4 DEF Lifecycle!Issue
<1>4. ASSUME NEW h \in Handler, UpdateSave(h) \/ LinkSave(h) \/ SubmitCommit(h) \/ SubmitNote(h)
      PROVE  status' = status
  <2>1. task[h] \in Task /\ task[h] # None /\ issued' = issued
    BY <1>4, HeldTask DEF UpdateSave, LinkSave, SubmitCommit, SubmitNote, Working
  <2>2. PICK row \in Row : SaveEntity(task[h].inv, row) /\ row.status = task[h].row.status
    <3>1. CASE UpdateSave(h)
      <4>1. PICK t \in Total, kept \in {task[h].row.proofs, {}} :
              SaveEntity(task[h].inv, [task[h].row EXCEPT !.total = t, !.proofs = kept])
        BY <3>1 DEF UpdateSave
      <4>2. /\ [task[h].row EXCEPT !.total = t, !.proofs = kept] \in Row
            /\ [task[h].row EXCEPT !.total = t, !.proofs = kept].status = task[h].row.status
        BY <2>1 DEF Task, Row
      <4> QED
        BY <4>1, <4>2
    <3>2. CASE SubmitCommit(h)
      <4> DEFINE row == [task[h].row EXCEPT !.proofs = @ \cup {task[h].up}]
      <4>1. row \in Row /\ row.status = task[h].row.status
        BY <2>1, <3>2 DEF Task, Row, SubmitCommit
      <4>2. SaveEntity(task[h].inv, row)
        BY <3>2 DEF SubmitCommit
      <4> QED
        BY <4>1, <4>2
    <3>3. CASE LinkSave(h) \/ SubmitNote(h)
      BY <2>1, <3>3 DEF LinkSave, SubmitNote, Task
    <3> QED
      BY <1>4, <3>1, <3>2, <3>3
  <2>3. \A i \in Invoice : Seen(i)' = Seen(i)
    BY <2>1, <2>2, SaveSeen
  <2> QED
    BY <1>1, <2>3
<1>5. ASSUME NEW h \in Handler, MarkPaidSave(h) PROVE Lifecycle!Confirm(task[h].inv)
  <2> DEFINE row == [task[h].row EXCEPT !.status = "PAID", !.paidAt = TRUE]
  <2>1. /\ task[h] \in Task /\ task[h] # None /\ issued' = issued
        /\ SaveEntity(task[h].inv, row) /\ task[h].row.status # "PAID"
    BY <1>5, HeldTask DEF MarkPaidSave, Working, AsLoaded, Checked
  <2>2. row \in Row /\ row.status = "PAID" /\ task[h].row.status \in {"UNPAID", "OVERDUE"}
    BY <2>1 DEF Task, Row, Status
  <2>3. PICK i \in Invoice : i = task[h].inv
    BY <2>1 DEF Task
  <2>4. /\ Seen(i) \in {"UNPAID", "OVERDUE"}
        /\ \A j \in Invoice : Seen(j)' = IF j = i THEN "PAID" ELSE Seen(j)
    <3> HIDE DEF row
    <3> QED
      BY <2>1, <2>2, <2>3, SaveSeen
  <2>5. Lifecycle!Confirm(i)
    BY <2>4 DEF Lifecycle!Confirm
  <2> QED
    BY <2>3, <2>5
<1>6. ASSUME NEW h \in Handler, RemoveDelete(h) PROVE Lifecycle!Delete(task[h].inv)
  <2> DEFINE i == task[h].inv
  <2>1. /\ i \in Invoice /\ table[i] # None /\ table[i].status = "UNPAID"
        /\ issued' = issued /\ i \in issued
        /\ table' = [table EXCEPT ![i] = None]
    BY <1>6, HeldTask DEF RemoveDelete, Working, AsLoaded, Checked, Task, ExistingIssued, Exists
  <2> HIDE DEF i
  <2>2. /\ Seen(i) = "UNPAID"
        /\ \A j \in Invoice : Seen(j)' = IF j = i THEN "deleted" ELSE Seen(j)
    BY <2>1 DEF Seen, Exists, TypeOK
  <2>3. Lifecycle!Delete(i)
    BY <2>1, <2>2 DEF Lifecycle!Delete
  <2> QED
    BY <2>3 DEF i
<1>7. ASSUME NEW h \in Handler, SweepUpdate(h) PROVE Lifecycle!FallDue(sweep[h])
  <2>1. \A i \in sweep[h] : i \in Invoice /\ Exists(i) /\ Seen(i) = "UNPAID"
    BY <1>7 DEF AsLoaded, Unpaid, Seen, TypeOK
  <2>2. \A i \in Invoice : Seen(i)' = IF i \in sweep[h] THEN "OVERDUE" ELSE Seen(i)
    <3>1. ASSUME NEW i \in sweep[h]
          PROVE  table'[i] # None /\ table'[i].status = "OVERDUE"
      <4>1. /\ i \in Invoice /\ table[i] \in Row
            /\ table'[i] = [table[i] EXCEPT !.status = "OVERDUE"]
        BY <1>7, <2>1 DEF SweepUpdate, TypeOK, Exists
      <4>2. [table[i] EXCEPT !.status = "OVERDUE"] \in Row
        BY <4>1 DEF Row, Status
      <4> QED
        BY <4>1, <4>2 DEF Row
    <3>2. \A i \in Invoice \ sweep[h] : table'[i] = table[i]
      BY <1>7 DEF SweepUpdate
    <3> QED
      BY <1>7, <3>1, <3>2 DEF Seen, Exists, SweepUpdate
  <2> QED
    BY <2>1, <2>2 DEF Lifecycle!FallDue
<1>8. CASE UNCHANGED vars
  BY <1>2, <1>8 DEF vars
<1>9. \A h \in Handler : task[h] # None => task[h].inv \in Invoice
  BY HeldTask DEF Task
<1>10. \A h \in Handler : sweep[h] \in SUBSET Invoice
  BY DEF TypeOK
<1>11. ASSUME NEW h \in Handler, Load(h) \/ Overdue(h)
       PROVE  [Lifecycle!Next]_status
  <2>1. CASE Load(h)
    BY <1>2, <2>1 DEF Load, UpdateFind, RemoveFind, MarkPaidFind, SubmitFind,
         UploadFind, LinkFind, Find
  <2>2. CASE SweepUpdate(h)
    BY <1>7, <1>10, <2>2 DEF Lifecycle!Next
  <2>3. ASSUME NEW late \in SUBSET Invoice, SweepFind(h, late)
        PROVE  [Lifecycle!Next]_status
    BY <1>2, <2>3 DEF SweepFind
  <2> QED
    BY <1>11, <2>1, <2>2, <2>3 DEF Overdue
<1>12. ASSUME NEW h \in Handler, Write(h)
       PROVE  [Lifecycle!Next]_status
  <2>2. CASE UpdateSave(h) \/ LinkSave(h) \/ SubmitCommit(h) \/ SubmitNote(h)
    BY <1>4, <2>2
  <2>3. CASE SubmitConflict(h) \/ Refused(h) \/ \E u \in Upload : UploadRecord(h, u) \/ SubmitCheck(h, u)
    BY <1>2, <2>3 DEF SubmitConflict, Refused, UploadRecord, SubmitCheck
  <2> QED
    BY <1>12, <2>2, <2>3 DEF Write
<1>13. ASSUME NEW h \in Handler, MarkPaidSave(h) \/ RemoveDelete(h)
       PROVE  [Lifecycle!Next]_status
  BY <1>5, <1>6, <1>9, <1>13 DEF Lifecycle!Next, MarkPaidSave, RemoveDelete, Working
<1>14. ASSUME NEW i \in Invoice, NEW t \in Total, Create(i, t)
       PROVE  [Lifecycle!Next]_status
  BY <1>3, <1>14 DEF Lifecycle!Next
<1>15. CASE Crash
  BY <1>2, <1>15 DEF Crash
<1> DEFINE Goal == [Lifecycle!Next]_status
<1>16. CASE UNCHANGED vars
  BY <1>8, <1>16
<1> QED
  <2> HIDE DEF Goal
  <2>1. Goal
    <3>1. ASSUME NEW h \in Handler,
                 Load(h) \/ Write(h) \/ MarkPaidSave(h) \/ RemoveDelete(h) \/ Overdue(h)
          PROVE  Goal
      BY <3>1, <1>11, <1>12, <1>13 DEF Goal
    <3>2. ASSUME NEW i \in Invoice, NEW t \in Total, Create(i, t)
          PROVE  Goal
      BY <3>2, <1>14 DEF Goal
    <3>3. ASSUME Crash \/ UNCHANGED vars
          PROVE  Goal
      BY <3>3, <1>15, <1>16 DEF Goal
    <3> QED
      BY <3>1, <3>2, <3>3 DEF Next
  <2> QED
    BY <2>1 DEF Goal

\* When activities never overlap the invoices table follows the documented
\* lifecycle: issued UNPAID, confirmed PAID, OVERDUE by the sweep, deleted only
\* while UNPAID, and nothing leaves PAID.
THEOREM SerialFollowsLifecycle ==
  ASSUME Alone
  PROVE  Spec => FollowsLifecycle
<1> DEFINE Inv == TypeOK /\ Fresh /\ ExistingIssued
<1>1. Init => Inv
  BY DEF Init, TypeOK, Fresh, ExistingIssued, Exists
<1>2. Inv /\ [Next]_vars => Inv'
  BY TypeStep, FreshStep
<1>3. Init => Lifecycle!Init
  BY DEF Init, Lifecycle!Init, Seen, Exists
<1>4. Inv /\ [Next]_vars => [Lifecycle!Next]_[i \in Invoice |-> Seen(i)]
  BY LifecycleStep DEF Fresh, AsLoaded
<1> HIDE DEF Inv
<1> QED
  BY <1>1, <1>2, <1>3, <1>4, PTL DEF Spec, FollowsLifecycle, Lifecycle!Spec

-----------------------------------------------------------------------------
(* The documented lifecycle, however many activities overlap: as long as     *)
(* nothing held is outdated, the check each handler made still stands.       *)

\* What a handler holds was checked when it was loaded, and nobody can hold or
\* see an invoice that was never issued.
HeldChecked == /\ ExistingIssued
               /\ \A h \in Handler : task[h] # None =>
                    Checked(task[h]) /\ task[h].inv \in issued

\* Loading checks, and what follows neither changes the held row nor takes an id
\* back: also a save of an outdated copy only brings back an issued invoice.
LEMMA HeldCheckedStep ==
  ASSUME TypeOK, HeldChecked, [Next]_vars
  PROVE  HeldChecked'
<1> USE NoneAssumption
<1>1. ASSUME NEW i \in Invoice, NEW t \in Total, Create(i, t)
      PROVE  HeldChecked'
  <2>1. /\ \A j \in Invoice : Exists(j)' => Exists(j) \/ j = i
        /\ issued' = issued \cup {i} /\ task' = task
    BY <1>1 DEF Create, TypeOK, Exists
  <2> QED
    BY <2>1 DEF HeldChecked, ExistingIssued, Checked
<1>2. ASSUME NEW h \in Handler, Load(h) PROVE HeldChecked'
  <2>1. PICK i \in Invoice, op \in Op :
          /\ Find(h, op, i)
          /\ op \in {"update", "remove"} => table[i].status = "UNPAID"
          /\ op = "markPaid" => table[i].status # "PAID"
    BY <1>2 DEF Load, UpdateFind, RemoveFind, MarkPaidFind, SubmitFind, UploadFind,
                LinkFind, Op, Unpaid
  <2>2. /\ task' = [task EXCEPT ![h] = [op |-> op, inv |-> i, row |-> table[i], up |-> None]]
        /\ Exists(i) /\ UNCHANGED <<table, issued>>
    BY <2>1 DEF Find
  <2>3. Checked(task'[h]) /\ task'[h].inv \in issued'
    BY <2>1, <2>2 DEF Checked, HeldChecked, ExistingIssued, TypeOK
  <2>4. \A g \in Handler : g # h => task'[g] = task[g]
    BY <2>2 DEF TypeOK
  <2> QED
    BY <2>2, <2>3, <2>4 DEF HeldChecked, ExistingIssued, Exists, Checked
<1>3. ASSUME NEW h \in Handler, NEW u \in Upload, SubmitCheck(h, u)
      PROVE  HeldChecked'
  <2>1. task[h] \in Task /\ task[h] # None
    BY <1>3, HeldTask DEF SubmitCheck, Working
  <2>2. /\ task'[h].op = task[h].op /\ task'[h].inv = task[h].inv
        /\ task'[h].row = task[h].row
        /\ UNCHANGED <<table, issued>>
        /\ \A g \in Handler : g # h => task'[g] = task[g]
    BY <1>3, <2>1 DEF SubmitCheck, TypeOK, Task
  <2> QED
    BY <2>1, <2>2 DEF HeldChecked, ExistingIssued, Exists, Checked
<1>4. ASSUME NEW h \in Handler, Write(h) \/ MarkPaidSave(h) \/ RemoveDelete(h)
      PROVE  HeldChecked'
  <2>1. CASE \E u \in Upload : SubmitCheck(h, u)
    BY <1>3, <2>1
  <2>2. CASE ~\E u \in Upload : SubmitCheck(h, u)
    <3>1. /\ task[h] # None /\ issued' = issued
          /\ task' = [task EXCEPT ![h] = None]
      BY <1>4, <2>2 DEF Write, UpdateSave, RemoveDelete, MarkPaidSave, LinkSave,
           UploadRecord, SubmitCommit, SubmitConflict, Refused, SubmitNote, Working, Done
    <3>2. \A j \in Invoice : j # task[h].inv => table'[j] = table[j]
      BY <1>4, <2>2 DEF Write, UpdateSave, RemoveDelete, MarkPaidSave, LinkSave,
           UploadRecord, SubmitCommit, SubmitConflict, Refused, SubmitNote, SaveEntity, TypeOK
    <3>3. task'[h] = None /\ \A g \in Handler : g # h => task'[g] = task[g]
      BY <3>1 DEF TypeOK
    <3> QED
      BY <3>1, <3>2, <3>3 DEF HeldChecked, ExistingIssued, Exists, Checked
  <2> QED
    BY <2>1, <2>2
<1>5. ASSUME NEW h \in Handler, Overdue(h) PROVE HeldChecked'
  <2>1. /\ UNCHANGED <<task, issued>>
        /\ \A j \in Invoice : Exists(j)' => Exists(j)
    BY <1>5 DEF Overdue, SweepUpdate, SweepFind, Exists
  <2> QED
    BY <2>1 DEF HeldChecked, ExistingIssued, Checked
<1>6. CASE Crash
  BY <1>6 DEF Crash, HeldChecked, ExistingIssued, Exists
<1>7. CASE UNCHANGED vars
  BY <1>7 DEF vars, HeldChecked, ExistingIssued, Exists, Checked
<1> QED
  BY <1>1, <1>2, <1>4, <1>5, <1>6, <1>7 DEF Next

\* Whatever overlaps, a step taken while no handler holds an outdated invoice and
\* no sweep an outdated list follows the documented lifecycle: nothing leaves PAID,
\* only UNPAID invoices are deleted, nothing deleted comes back.
THEOREM CurrentLifecycle == Spec => CurrentFollowsLifecycle
<1> DEFINE Inv == TypeOK /\ HeldChecked
<1>1. Init => Inv
  BY DEF Init, TypeOK, HeldChecked, ExistingIssued, Exists
<1>2. Inv /\ [Next]_vars => Inv'
  BY TypeStep, HeldCheckedStep
<1>3. ASSUME Inv, [Next]_vars, Current
      PROVE  [Lifecycle!Next]_[i \in Invoice |-> Seen(i)]
  <2>1. AsLoaded /\ ExistingIssued
    BY <1>3 DEF Current, Stale, HeldChecked, AsLoaded
  <2> QED
    BY <1>3, <2>1, LifecycleStep
<1>4. Inv /\ [Next]_vars
        => [Current => [Lifecycle!Next]_[i \in Invoice |-> Seen(i)]]_vars
  BY <1>3
<1> HIDE DEF Inv
<1> QED
  BY <1>1, <1>2, <1>4, PTL DEF Spec, CurrentFollowsLifecycle

-----------------------------------------------------------------------------
(* Invoices with their income entries (InvoiceIncome).  As long as no        *)
(* outdated copy is saved, a confirmed invoice stays PAID with its total;    *)
(* hence what a hook carries and what an entry says still agrees with it,    *)
(* and a second confirmation, which would start a second hook, is refused.   *)

BooksTyped == /\ expenses \in [Expense -> E!ExpenseRow \cup {None}]
              /\ work \in [Handler -> E!HookWork \cup {None}]
              /\ origin \in [Expense -> Invoice \cup {None}]
              /\ \A e \in Expense : origin[e] # None => e \in spent
              /\ lost \in BOOLEAN

StaysPaid == \A i \in confirmed : Exists(i) /\ table[i].status = "PAID"

\* A hook on its way books the total of a confirmed invoice, nobody else does.
HooksAgree ==
  \A h \in Handler : work[h] # None =>
    /\ work[h].doc \in confirmed /\ work[h].amount = table[work[h].doc].total
    /\ \A g \in Handler : work[g] # None /\ work[g].doc = work[h].doc => g = h
    /\ \A e \in Expense : origin[e] # work[h].doc

\* So does an entry that was saved.
EntriesAgree ==
  \A e \in Expense : origin[e] # None =>
    /\ origin[e] \in confirmed
    /\ expenses[e] = [doc |-> origin[e], amount |-> table[origin[e]].total]

Clean == StaysPaid /\ HooksAgree /\ EntriesAgree /\ E!OneEntryPerDocument

IncomeInv == IInv /\ HeldChecked /\ BooksTyped /\ (~lost => Clean)

\* To the invoices service, a step with the books is one of its own or none.
LEMMA IncomeStepIsStep ==
  ASSUME [IncomeNext]_incomeVars
  PROVE  [Next]_vars
<1>1. CASE UNCHANGED incomeVars
  BY <1>1 DEF incomeVars
<1>2. CASE IssueInvoice
  BY <1>2 DEF IssueInvoice, Next
<1>3. ASSUME NEW h \in Handler, Plain(h)
      PROVE  Next
  BY <1>3 DEF Plain, Next
<1>4. ASSUME NEW h \in Handler, Confirm(h) \/ DeleteInvoice(h)
      PROVE  Next
  BY <1>4 DEF Confirm, DeleteInvoice, Next
<1>5. ASSUME NEW h \in Handler, BookStep(h)
      PROVE  Next \/ UNCHANGED vars
  BY <1>5 DEF BookStep, Next
<1>6. CASE Stop
  BY <1>6 DEF Stop, Next
<1> QED
  BY <1>1, <1>2, <1>3, <1>4, <1>5, <1>6 DEF IncomeNext, Running

\* A save by a current copy, or one that changes nothing, leaves a PAID invoice
\* PAID with its total: what could do otherwise was loaded before it was paid.
LEMMA PaidStays ==
  ASSUME TypeOK, HeldChecked, [Next]_vars, ~Outdated,
         NEW i \in Invoice, Exists(i), table[i].status = "PAID"
  PROVE  Exists(i)' /\ table'[i].status = "PAID" /\ table'[i].total = table[i].total
<1> USE NoneAssumption
<1>0. table[i] \in Row /\ i \in issued
  BY DEF TypeOK, Exists, HeldChecked, ExistingIssued
<1> DEFINE Kept == Exists(i)' /\ table'[i].status = "PAID" /\ table'[i].total = table[i].total
<1>1. CASE UNCHANGED table
  BY <1>1 DEF Exists
<1>2. ASSUME NEW j \in Invoice, NEW t \in Total, Create(j, t)
      PROVE  Kept
  <2>1. table'[i] = table[i]
    BY <1>0, <1>2 DEF Create, TypeOK
  <2> QED
    BY <2>1 DEF Exists
<1>3. ASSUME NEW h \in Handler, SweepUpdate(h)
      PROVE  Kept
  <2>1. sweep'[h] # sweep[h] /\ sweep[h] \in SUBSET Invoice
    BY <1>3 DEF SweepUpdate, TypeOK
  <2>2. i \notin sweep[h]
    BY <2>1 DEF Outdated, Unpaid
  <2> QED
    BY <1>3, <2>2 DEF SweepUpdate, Exists
<1>4. ASSUME NEW h \in Handler, task[h] # None, task'[h] = None, ~UNCHANGED table,
             task[h].op \in {"update", "remove", "markPaid"},
             \A j \in Invoice : j # task[h].inv => table'[j] = table[j]
      PROVE  Kept
  <2>1. task[h] \in Task /\ Checked(task[h]) /\ task[h].row = table[task[h].inv]
    BY <1>4, HeldTask DEF HeldChecked, Outdated, Stale
  <2>2. i # task[h].inv
    BY <1>4, <2>1 DEF Checked
  <2> QED
    BY <1>4, <2>2 DEF Exists
<1>5. ASSUME NEW h \in Handler, task[h] # None, task'[h] = None, ~UNCHANGED table,
             NEW row \in Row, SaveEntity(task[h].inv, row),
             row.status = task[h].row.status, row.total = task[h].row.total
      PROVE  Kept
  <2>1. task[h].row = table[task[h].inv] /\ task[h].inv \in Invoice
    BY <1>5, HeldTask DEF Outdated, Stale, Task
  <2>2. table'[i] = IF i = task[h].inv THEN row ELSE table[i]
    BY <1>5, <2>1 DEF SaveEntity, TypeOK
  <2> QED
    BY <1>5, <2>1, <2>2 DEF Exists
<1>6. ASSUME NEW h \in Handler, ~UNCHANGED table, UpdateSave(h) \/ MarkPaidSave(h) \/ RemoveDelete(h)
      PROVE  Kept
  <2>1. task[h] # None /\ task'[h] = None /\ task[h].op \in {"update", "remove", "markPaid"}
    BY <1>6 DEF UpdateSave, MarkPaidSave, RemoveDelete, Working, Done, TypeOK
  <2>2. \A j \in Invoice : j # task[h].inv => table'[j] = table[j]
    BY <1>6 DEF UpdateSave, MarkPaidSave, RemoveDelete, SaveEntity, TypeOK
  <2> QED
    BY <1>4, <1>6, <2>1, <2>2
<1>7. ASSUME NEW h \in Handler, ~UNCHANGED table, LinkSave(h) \/ SubmitNote(h)
      PROVE  Kept
  <2>1. task[h] # None /\ task'[h] = None /\ SaveEntity(task[h].inv, task[h].row)
    BY <1>7 DEF LinkSave, SubmitNote, Working, Done, TypeOK
  <2>2. task[h].row \in Row
    BY <2>1, HeldTask DEF Task
  <2> QED
    BY <1>5, <1>7, <2>1, <2>2
<1>8. ASSUME NEW h \in Handler, ~UNCHANGED table, SubmitCommit(h)
      PROVE  Kept
  <2> DEFINE row == [task[h].row EXCEPT !.proofs = @ \cup {task[h].up}]
  <2>1. task[h] # None /\ task'[h] = None /\ SaveEntity(task[h].inv, row) /\ task[h].up # None
    BY <1>8 DEF SubmitCommit, Working, Done, TypeOK
  <2>2. task[h] \in Task
    BY <2>1, HeldTask
  <2>3. row \in Row /\ row.status = task[h].row.status /\ row.total = task[h].row.total
    BY <2>1, <2>2 DEF Task, Row
  <2> HIDE DEF row
  <2> QED
    BY <1>5, <1>8, <2>1, <2>3
<1>9. ASSUME NEW h \in Handler, Load(h) \/ Write(h) \/ Overdue(h)
      PROVE  Kept
  <2>1. CASE SubmitConflict(h) \/ Refused(h) \/ Load(h)
             \/ (\E u \in Upload : UploadRecord(h, u) \/ SubmitCheck(h, u))
             \/ (\E late \in SUBSET Invoice : SweepFind(h, late))
    <3>1. UNCHANGED table
      BY <2>1 DEF SubmitConflict, Refused, UploadRecord, SubmitCheck, SweepFind, Load, Find,
           UpdateFind, RemoveFind, MarkPaidFind, SubmitFind, UploadFind, LinkFind
    <3> QED
      BY <1>1, <3>1
  <2> QED
    BY <1>1, <1>3, <1>6, <1>7, <1>8, <1>9, <2>1 DEF Write, Overdue
<1>10. CASE Crash \/ UNCHANGED vars
  BY <1>1, <1>10 DEF Crash, vars
<1> QED
  BY <1>1, <1>2, <1>6, <1>9, <1>10 DEF Next

-----------------------------------------------------------------------------
LEMMA BooksTypedStep ==
  ASSUME IncomeAssumption, TypeOK, BooksTyped, [IncomeNext]_incomeVars
  PROVE  BooksTyped'
<1>0. lost' \in BOOLEAN
  BY DEF BooksTyped, IncomeNext, incomeVars, Outdated
<1>1. CASE UNCHANGED <<expenses, spent, work, origin>>
  BY <1>0, <1>1 DEF BooksTyped
<1>2. ASSUME NEW h \in Handler, Confirm(h)
      PROVE  BooksTyped'
  <2>1. [step |-> "check", doc |-> task[h].inv, amount |-> task[h].row.total] \in E!HookWork
    BY <1>2, HeldTask DEF Confirm, MarkPaidSave, Working, Task, Row, E!HookWork
  <2> QED
    BY <1>0, <1>2, <2>1 DEF Confirm, BooksTyped
<1>3. ASSUME NEW h \in Handler, DeleteInvoice(h)
      PROVE  BooksTyped'
  <2>1. \A e \in Expense : expenses[e] # None => [expenses[e] EXCEPT !.doc = None] \in E!ExpenseRow
    BY DEF BooksTyped, E!ExpenseRow
  <2>2. expenses' \in [Expense -> E!ExpenseRow \cup {None}]
    BY <1>3, <2>1 DEF DeleteInvoice, E!DocDeleted, E!EntriesOf, E!Stays, BooksTyped
  <2> QED
    BY <1>0, <1>3, <2>2 DEF DeleteInvoice, E!DocDeleted, BooksTyped
<1>4. ASSUME NEW h \in Handler, E!HookCheck(h)
      PROVE  BooksTyped'
  <2>1. work[h] \in E!HookWork
    BY <1>4 DEF E!HookCheck, E!At, BooksTyped
  <2>2. [work[h] EXCEPT !.step = "save"] \in E!HookWork
    BY <2>1 DEF E!HookWork
  <2>3. work' \in [Handler -> E!HookWork \cup {None}]
    BY <1>4, <2>2 DEF E!HookCheck, BooksTyped
  <2> QED
    BY <1>0, <1>4, <2>3 DEF E!HookCheck, E!entryVars, BooksTyped
<1>5. ASSUME NEW h \in Handler, NEW e \in Expense, NEW c \in Hook, E!HookSave(h, e, c)
      PROVE  BooksTyped'
  <2>1. work[h] \in E!HookWork
    BY <1>5 DEF E!HookSave, E!At, BooksTyped
  <2>2. /\ [doc |-> work[h].doc, amount |-> work[h].amount] \in E!ExpenseRow
        /\ work[h].doc \in Invoice
    BY <2>1 DEF E!HookWork, E!ExpenseRow
  <2>3. /\ expenses' \in [Expense -> E!ExpenseRow \cup {None}]
        /\ work' \in [Handler -> E!HookWork \cup {None}]
        /\ origin' \in [Expense -> Invoice \cup {None}]
    BY <1>5, <2>2 DEF E!HookSave, E!SaveAndPost, BooksTyped
  <2> QED
    BY <1>0, <1>5, <2>3 DEF E!HookSave, E!SaveAndPost, BooksTyped
<1>6. CASE UNCHANGED <<expenses, spent, origin>> /\ work' = [h \in Handler |-> None]
  BY <1>0, <1>6 DEF BooksTyped
<1>7. ASSUME NEW h \in Handler, BookStep(h)
      PROVE  BooksTyped'
  <2>1. CASE E!Posting(h)
    BY <1>1, <2>1 DEF E!Posting, E!entryVars
  <2>2. CASE E!HookFails(h)
    BY <1>6, <2>2 DEF E!HookFails, E!Restart, E!entryVars
  <2> QED
    BY <1>4, <1>5, <1>7, <2>1, <2>2 DEF BookStep
<1>8. CASE Stop
  BY <1>6, <1>8 DEF Stop, E!Restart, E!entryVars
<1>9. CASE IssueInvoice \/ (\E h \in Handler : Plain(h)) \/ UNCHANGED incomeVars
  BY <1>1, <1>9 DEF IssueInvoice, Plain, incomeVars, bookVars
<1> QED
  BY <1>2, <1>3, <1>7, <1>8, <1>9 DEF IncomeNext, Running

\* A step that confirms nothing, makes no entry and sends no new hook, and leaves
\* confirmed invoices PAID.
LEMMA CleanKept ==
  ASSUME Clean, BooksTyped, confirmed' = confirmed, origin' = origin,
         \A i \in confirmed : Exists(i)' /\ table'[i].status = "PAID" /\ table'[i].total = table[i].total,
         \A h \in Handler : work'[h] # None =>
           work[h] # None /\ work'[h].doc = work[h].doc /\ work'[h].amount = work[h].amount,
         \A e \in Expense : origin[e] # None => expenses'[e] = expenses[e]
  PROVE  Clean'
<1>1. StaysPaid'
  BY DEF StaysPaid
<1>2. HooksAgree'
  BY DEF Clean, HooksAgree
<1>3. EntriesAgree'
  BY DEF Clean, EntriesAgree
<1>4. E!OneEntryPerDocument'
  BY DEF Clean, E!OneEntryPerDocument
<1> QED
  BY <1>1, <1>2, <1>3, <1>4 DEF Clean

\* A confirmation that is not outdated is the first one of its invoice.
LEMMA CleanConfirm ==
  ASSUME IncomeAssumption, IncomeInv, Clean, ~Outdated, NEW h \in Handler, Confirm(h)
  PROVE  Clean'
<1> USE NoneAssumption
<1> DEFINE i == task[h].inv
<1>1. /\ task[h] \in Task /\ i \in Invoice /\ task[h].op = "markPaid" /\ Checked(task[h])
      /\ task[h].row \in Row
  BY HeldTask DEF Confirm, MarkPaidSave, Working, IncomeInv, IInv, HeldChecked, Task
<1>2. table[i] = task[h].row /\ task[h].row.status # "PAID"
  <2>1. task[h] # None /\ task'[h] = None
    BY DEF Confirm, MarkPaidSave, Working, Done, IncomeInv, IInv, TypeOK
  <2> QED
    BY <1>1, <2>1 DEF Outdated, Stale, Checked
<1>3. i \notin confirmed
  BY <1>2 DEF Clean, StaysPaid
<1> DEFINE row == [task[h].row EXCEPT !.status = "PAID", !.paidAt = TRUE]
           hook == [step |-> "check", doc |-> i, amount |-> task[h].row.total]
<1>4. row \in Row /\ row.status = "PAID" /\ row.total = task[h].row.total
  BY <1>1 DEF Row, Status
<1>5. /\ \A j \in Invoice : table'[j] = IF j = i THEN row ELSE table[j]
      /\ confirmed' = confirmed \cup {i}
      /\ confirmed \in SUBSET Invoice
      /\ \A g \in Handler : work'[g] = IF g = h THEN hook ELSE work[g]
      /\ UNCHANGED <<expenses, origin>>
  BY <1>1 DEF Confirm, MarkPaidSave, SaveEntity, IncomeInv, IInv, TypeOK, BooksTyped
<1>6. hook # None /\ hook.doc = i /\ hook.amount = row.total
  BY <1>1, <1>4 DEF IncomeAssumption, E!HookWork, Row
<1>7. /\ \A g \in Handler : work[g] # None => work[g].doc \in confirmed /\ work[g].doc # i
      /\ \A e \in Expense : origin[e] # i /\ (origin[e] # None => origin[e] \in confirmed)
  BY <1>1, <1>3 DEF Clean, HooksAgree, EntriesAgree, IncomeAssumption
<1> HIDE DEF row, hook, i
<1>8. StaysPaid'
  BY <1>1, <1>4, <1>5 DEF Clean, StaysPaid, Exists
<1>9. HooksAgree'
  <2> SUFFICES ASSUME NEW g \in Handler, work'[g] # None
               PROVE  /\ work'[g].doc \in confirmed' /\ work'[g].amount = table'[work'[g].doc].total
                      /\ \A f \in Handler : work'[f] # None /\ work'[f].doc = work'[g].doc => f = g
                      /\ \A e \in Expense : origin'[e] # work'[g].doc
    BY DEF HooksAgree
  <2>1. CASE g = h
    BY <1>1, <1>5, <1>6, <1>7, <2>1
  <2>2. CASE g # h
    BY <1>5, <1>6, <1>7, <2>2 DEF Clean, HooksAgree
  <2> QED
    BY <2>1, <2>2
<1>10. EntriesAgree'
  BY <1>5, <1>7 DEF Clean, EntriesAgree
<1>11. E!OneEntryPerDocument'
  BY <1>5 DEF Clean, E!OneEntryPerDocument
<1> QED
  BY <1>8, <1>9, <1>10, <1>11 DEF Clean

\* The hook of a confirmed invoice makes its entry: no other was on its way.
LEMMA CleanEntry ==
  ASSUME IncomeAssumption, IncomeInv, Clean, UNCHANGED vars,
         NEW h \in Handler, NEW e \in Expense, NEW c \in Hook, E!HookSave(h, e, c)
  PROVE  Clean'
<1> DEFINE i == work[h].doc
           row == [doc |-> i, amount |-> work[h].amount]
<1>1. /\ work[h] # None /\ i \in Invoice /\ i # None /\ i \in confirmed
      /\ work[h].amount = table[i].total
      /\ \A g \in Handler : work[g] # None /\ work[g].doc = i => g = h
      /\ \A x \in Expense : origin[x] # i
  BY DEF E!HookSave, E!At, Clean, HooksAgree, IncomeInv, BooksTyped, E!HookWork, IncomeAssumption
<1>2. /\ origin[e] = None
      /\ \A x \in Expense : /\ expenses'[x] = IF x = e THEN row ELSE expenses[x]
                            /\ origin'[x] = IF x = e THEN i ELSE origin[x]
      /\ \A g \in Handler : work'[g] = IF g = h THEN None ELSE work[g]
      /\ UNCHANGED <<table, confirmed>>
  BY DEF E!HookSave, E!SaveAndPost, IncomeInv, BooksTyped, vars
<1>3. row = [doc |-> i, amount |-> table[i].total]
  BY <1>1
<1> HIDE DEF i, row
<1>4. StaysPaid'
  BY <1>2 DEF Clean, StaysPaid, Exists
<1>5. HooksAgree'
  <2> SUFFICES ASSUME NEW g \in Handler, work'[g] # None
               PROVE  /\ work'[g].doc \in confirmed' /\ work'[g].amount = table'[work'[g].doc].total
                      /\ \A f \in Handler : work'[f] # None /\ work'[f].doc = work'[g].doc => f = g
                      /\ \A x \in Expense : origin'[x] # work'[g].doc
    BY DEF HooksAgree
  <2>1. g # h /\ work'[g] = work[g] /\ work[g] # None /\ work[g].doc # i
    BY <1>1, <1>2 DEF i
  <2> QED
    BY <1>2, <2>1 DEF Clean, HooksAgree
<1>6. EntriesAgree'
  BY <1>1, <1>2, <1>3 DEF Clean, EntriesAgree
<1>7. E!OneEntryPerDocument'
  BY <1>1, <1>2 DEF Clean, E!OneEntryPerDocument
<1> QED
  BY <1>4, <1>5, <1>6, <1>7 DEF Clean

LEMMA EntryFields ==
  ASSUME EntriesAgree, NEW e \in Expense, origin[e] # None
  PROVE  /\ origin[e] \in confirmed /\ expenses[e].doc = origin[e]
         /\ expenses[e].amount = table[origin[e]].total
<1>1. expenses[e] = [doc |-> origin[e], amount |-> table[origin[e]].total]
  BY DEF EntriesAgree
<1> QED
  BY <1>1 DEF EntriesAgree

\* Deleting an invoice, which is not a confirmed one, clears no entry of those.
LEMMA CleanDelete ==
  ASSUME IncomeAssumption, IncomeInv, Clean, NEW h \in Handler, DeleteInvoice(h),
         \A i \in confirmed : Exists(i)' /\ table'[i].status = "PAID" /\ table'[i].total = table[i].total
  PROVE  Clean'
<1>1. task[h].inv \in Invoice /\ table'[task[h].inv] = None
  <2>1. TypeOK /\ task[h] # None /\ table' = [table EXCEPT ![task[h].inv] = None]
    BY DEF DeleteInvoice, RemoveDelete, Working, IncomeInv, IInv
  <2>2. task[h].inv \in Invoice
    BY <2>1, HeldTask DEF Task
  <2> QED
    BY <2>1, <2>2 DEF TypeOK
<1>2. \A e \in Expense : origin[e] # None =>
        origin[e] \in confirmed /\ expenses[e].doc = origin[e]
  BY EntryFields DEF Clean
<1>3. \A e \in Expense : origin[e] # None => expenses'[e] = expenses[e]
  BY <1>1, <1>2 DEF DeleteInvoice, E!DocDeleted, E!EntriesOf, Exists
<1>4. UNCHANGED <<confirmed, origin, work>>
  BY DEF DeleteInvoice, RemoveDelete, E!DocDeleted
<1> QED
  BY <1>3, <1>4, CleanKept DEF IncomeInv

LEMMA CleanStep ==
  ASSUME IncomeAssumption, IncomeInv, [IncomeNext]_incomeVars, ~lost'
  PROVE  Clean'
<1>1. CASE UNCHANGED incomeVars
  <2>1. \A h \in Handler : work'[h] = work[h]
    BY <1>1 DEF incomeVars, bookVars
  <2>2. Clean /\ BooksTyped
    BY <1>1 DEF IncomeInv, incomeVars
  <2>3. UNCHANGED <<table, confirmed, origin, expenses>>
    BY <1>1 DEF incomeVars, vars, bookVars
  <2> QED
    BY <2>1, <2>2, <2>3, CleanKept DEF Clean, StaysPaid, Exists
<1>2. CASE IncomeNext
  <2>1. Clean /\ BooksTyped
    BY <1>2 DEF IncomeNext, IncomeInv, BooksTyped
  <2>2. ~Outdated \/ UNCHANGED table
    BY <1>2 DEF IncomeNext, Stop, Crash
  <2>3. \A i \in confirmed : Exists(i)' /\ table'[i].status = "PAID" /\ table'[i].total = table[i].total
    <3>1. \A i \in confirmed : i \in Invoice /\ Exists(i) /\ table[i].status = "PAID"
      BY <2>1 DEF Clean, StaysPaid, IncomeInv, IInv, TypeOK
    <3>2. CASE UNCHANGED table
      BY <3>1, <3>2 DEF Exists
    <3> QED
      BY <2>2, <3>1, <3>2, PaidStays, IncomeStepIsStep DEF IncomeInv, IInv
  <2>4. ASSUME NEW h \in Handler, Plain(h)
        PROVE  UNCHANGED <<confirmed, origin, work, expenses>>
    BY <2>4 DEF Plain, bookVars, Load, Overdue, Write, UpdateFind, RemoveFind, MarkPaidFind,
         SubmitFind, UploadFind, LinkFind, Find, UpdateSave, LinkSave, SubmitCommit,
         SubmitConflict, SubmitNote, Refused, UploadRecord, SubmitCheck, SweepUpdate, SweepFind
  <2>5. CASE IssueInvoice \/ \E h \in Handler : Plain(h)
    <3>1. UNCHANGED <<confirmed, origin, work, expenses>>
      BY <2>4, <2>5 DEF IssueInvoice, Create, bookVars
    <3> QED
      BY <2>1, <2>3, <3>1, CleanKept
  <2>6. ASSUME NEW h \in Handler, Confirm(h), ~Outdated
        PROVE  Clean'
    BY <2>1, <2>6, CleanConfirm
  <2>7. ASSUME NEW h \in Handler, DeleteInvoice(h)
        PROVE  Clean'
    BY <2>1, <2>3, <2>7, CleanDelete
  <2>8. ASSUME NEW h \in Handler, BookStep(h)
        PROVE  Clean'
    <3>1. ASSUME UNCHANGED vars, E!HookCheck(h)
          PROVE  Clean'
      <4>1. work[h] \in E!HookWork /\ work[h] # None
        BY <2>1, <3>1 DEF E!HookCheck, E!At, BooksTyped
      <4>2. \A g \in Handler : work'[g] # None =>
              work[g] # None /\ work'[g].doc = work[g].doc /\ work'[g].amount = work[g].amount
        BY <2>1, <3>1, <4>1 DEF E!HookCheck, E!HookWork, BooksTyped
      <4>3. UNCHANGED <<confirmed, origin, expenses>>
        BY <3>1 DEF E!HookCheck, E!entryVars, vars
      <4> QED
        BY <2>1, <2>3, <4>2, <4>3, CleanKept
    <3>2. ASSUME UNCHANGED vars, E!Posting(h)
          PROVE  Clean'
      <4>1. UNCHANGED <<confirmed, origin, expenses, work>>
        BY <3>2 DEF E!Posting, E!entryVars, vars
      <4> QED
        BY <2>1, <2>3, <4>1, CleanKept
    <3>3. ASSUME Crash, E!HookFails(h)
          PROVE  Clean'
      <4>1. UNCHANGED <<confirmed, origin, expenses>> /\ work' = [g \in Handler |-> None]
        BY <3>3 DEF E!HookFails, E!Restart, E!entryVars, Crash
      <4> QED
        BY <2>1, <2>3, <4>1, CleanKept
    <3> QED
      BY <2>1, <2>8, <3>1, <3>2, <3>3, CleanEntry DEF BookStep
  <2>9. CASE Stop
    <3>1. UNCHANGED <<confirmed, origin, expenses>> /\ work' = [g \in Handler |-> None]
      BY <2>9 DEF Stop, E!Restart, E!entryVars, Crash
    <3> QED
      BY <2>1, <2>3, <3>1, CleanKept
  <2> QED
    BY <1>2, <2>5, <2>6, <2>7, <2>8, <2>9 DEF IncomeNext, Running
<1> QED
  BY <1>1, <1>2

LEMMA IncomeInvariantHolds == IncomeSpec => []IncomeInv
<1>1. IncomeInit => IncomeInv
  <2>1. Init => IInv /\ HeldChecked
    BY DEF Init, IInv, TypeOK, RowsGood, HeldGood, CheckedUpload, CitedOnceConsumed, Exists,
           HeldChecked, ExistingIssued
  <2>2. IncomeInit => BooksTyped /\ Clean
    BY DEF IncomeInit, Init, E!EmptyBooks, BooksTyped, Clean, StaysPaid, HooksAgree,
           EntriesAgree, E!OneEntryPerDocument
  <2> QED
    BY <2>1, <2>2 DEF IncomeInit, IncomeInv
<1>2. IncomeInv /\ [IncomeNext]_incomeVars => IncomeInv'
  <2> SUFFICES ASSUME IncomeInv, [IncomeNext]_incomeVars
               PROVE  IncomeInv'
    OBVIOUS
  <2>1. IInv' /\ HeldChecked'
    BY IncomeStepIsStep, TypeStep, UploadsOnlyGrow, RowsStep, CheckedStep, CitedStep,
       HeldCheckedStep DEF IncomeInv, IInv
  <2>2. BooksTyped'
    BY BooksTypedStep, IncomeAssumption DEF IncomeInv, IInv
  <2> QED
    BY <2>1, <2>2, CleanStep, IncomeAssumption DEF IncomeInv
<1> QED
  BY <1>1, <1>2, PTL DEF IncomeSpec

\* What is proved of the invoices service alone holds of it beside the books.
THEOREM IncomeRunsInvoices == IncomeSpec => Spec
<1>1. IncomeInit => Init
  BY DEF IncomeInit
<1> QED
  BY <1>1, IncomeStepIsStep, PTL DEF IncomeSpec, Spec

\* As long as no outdated copy is saved, an income entry carries the total of the
\* paid invoice it was made for.
THEOREM IncomeAgrees == IncomeSpec => []IncomeMatchesInvoice
<1>1. IncomeInv => IncomeMatchesInvoice
  BY EntryFields DEF IncomeInv, Clean, IncomeMatchesInvoice
<1> QED
  BY <1>1, IncomeInvariantHolds, PTL

\* "Idempotent: checks invoiceId uniqueness before creating": as long as no outdated
\* copy is saved, an invoice is booked as income at most once.
THEOREM InvoicesBookedOnce == IncomeSpec => []OneIncomePerInvoice
<1>1. IncomeInv => OneIncomePerInvoice
  BY DEF IncomeInv, Clean, OneIncomePerInvoice
<1> QED
  BY <1>1, IncomeInvariantHolds, PTL
=============================================================================
