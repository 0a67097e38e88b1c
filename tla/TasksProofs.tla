----------------------------- MODULE TasksProofs -----------------------------
(***************************************************************************)
(* Proofs about Tasks, for any tasks, uploads and handlers.  A save writes *)
(* back the file list a handler loaded, so what is claimed of the list in  *)
(* the row is claimed of every list in memory; and a spent upload stays    *)
(* spent for its task, so such a claim outlives every step of the others.  *)
(***************************************************************************)
EXTENDS Tasks, TLAPS

\* Upload u is spent for task w, going by the records recs.
Spent(u, w, recs) == recs[u] = [status |-> "CONSUMED", work |-> w]

FilesSpent(w, r, recs) == \A u \in r.files : Spent(u, w, recs)

\* What a request holds: a file list of spent uploads, and picked uploads that
\* were made for its task.
HeldGood(t, recs) ==
  /\ t.op # "upload" => t.row # None /\ FilesSpent(t.work, t.row, recs)
  /\ \A u \in t.picked : recs[u] # None /\ recs[u].work = t.work

RowsGood == \A w \in Work : Exists(w) => w \in issued /\ FilesSpent(w, table[w], uploads)

RequestsGood == \A h \in Handler : request[h] # None =>
                  request[h].work \in issued /\ HeldGood(request[h], uploads)

\* A new task has had no submission.
OnlyIssued == \A w \in Work : submitted[w] # {} => w \in issued

IInv == /\ TypeOK /\ RowsGood /\ RequestsGood /\ OnlyIssued
        /\ SubmissionsAreListed /\ SpentWasSubmitted

\* A record stays, for its task, and is spent for good; ids are not taken back.
Grows == /\ \A u \in Upload : uploads[u] # None =>
              /\ uploads'[u] # None /\ uploads'[u].work = uploads[u].work
              /\ uploads[u].status = "CONSUMED" => uploads'[u] = uploads[u]
         /\ issued \subseteq issued'

-----------------------------------------------------------------------------
LEMMA HeldRequest ==
  ASSUME TypeOK, NEW h \in Handler, request[h] # None
  PROVE  /\ request[h] \in Request /\ request[h].work \in Work
         /\ request[h].row \in Row \cup {None} /\ request[h].picked \in SUBSET Upload
BY DEF TypeOK, Request

LEMMA NoNone == /\ \A r \in Row : r # None /\ r \in [kind : Kind, status : Status, files : SUBSET Upload]
               /\ \A f \in FileUpload : f # None
               /\ \A r \in Request : r # None
BY TasksAssumption DEF Row

\* What was spent stays spent.
LEMMA SpentStays ==
  ASSUME Grows, NEW u \in Upload, NEW w \in Work, Spent(u, w, uploads)
  PROVE  Spent(u, w, uploads')
<1>1. uploads[u].status = "CONSUMED" /\ uploads[u] \in FileUpload
  BY DEF Spent, FileUpload
<1> QED
  BY <1>1, NoNone DEF Grows, Spent

\* Any step in which every row and every request is an old one or a good one.
LEMMA GoodStep ==
  ASSUME IInv, Grows, TypeOK', OnlyIssued', SubmissionsAreListed', SpentWasSubmitted',
         \A w \in Work : table'[w] \in {table[w], None}
            \/ (w \in issued' /\ table'[w] \in Row /\ FilesSpent(w, table'[w], uploads')),
         \A h \in Handler : request'[h] \in {request[h], None}
            \/ (request'[h].work \in issued' /\ HeldGood(request'[h], uploads'))
  PROVE  IInv'
<1>1. RowsGood'
  <2> SUFFICES ASSUME NEW w \in Work, table'[w] # None
               PROVE  w \in issued' /\ FilesSpent(w, table'[w], uploads')
    BY DEF RowsGood, Exists
  <2>1. CASE table'[w] = table[w]
    <3>1. table[w] \in Row /\ w \in issued /\ FilesSpent(w, table[w], uploads)
      BY <2>1 DEF IInv, TypeOK, RowsGood, Exists
    <3> QED
      BY <2>1, <3>1, SpentStays DEF FilesSpent, Row, Grows
  <2> QED
    BY <2>1
<1>2. RequestsGood'
  <2> SUFFICES ASSUME NEW h \in Handler, request'[h] # None
               PROVE  request'[h].work \in issued' /\ HeldGood(request'[h], uploads')
    BY DEF RequestsGood
  <2>1. CASE request'[h] = request[h]
    <3> DEFINE t == request[h]
    <3>1. /\ t.work \in Work /\ t.work \in issued /\ HeldGood(t, uploads)
          /\ t.row \in Row \cup {None} /\ t.picked \in SUBSET Upload
      BY <2>1, HeldRequest DEF IInv, RequestsGood
    <3>2. t.op # "upload" => t.row # None /\ FilesSpent(t.work, t.row, uploads')
      BY <3>1, SpentStays DEF HeldGood, FilesSpent, Row
    <3>3. \A u \in t.picked : uploads'[u] # None /\ uploads'[u].work = t.work
      BY <3>1 DEF HeldGood, Grows
    <3> QED
      BY <2>1, <3>1, <3>2, <3>3 DEF HeldGood, Grows
  <2> QED
    BY <2>1
<1> QED
  BY <1>1, <1>2 DEF IInv

\* Steps that leave the upload records and the submissions alone.
LEMMA SameRecords ==
  ASSUME IInv, UNCHANGED <<uploads, submitted>>, issued \subseteq issued'
  PROVE  Grows /\ OnlyIssued' /\ SpentWasSubmitted'
BY DEF IInv, Grows, OnlyIssued, SpentWasSubmitted

\* Steps that submit nothing and keep the file lists, except of rows they empty,
\* start, or overwrite by mishap.
LEMMA ListsStay ==
  ASSUME IInv, UNCHANGED <<submitted>>, mishap \subseteq mishap',
         \A w \in Work : table'[w] \in {table[w], None} \/ submitted[w] = {} \/ w \in mishap'
            \/ (Exists(w) /\ table'[w].files = table[w].files)
  PROVE  SubmissionsAreListed'
<1> SUFFICES ASSUME NEW w \in Work, w \notin mishap', table'[w] # None
             PROVE  submitted[w] \subseteq table'[w].files
  BY DEF SubmissionsAreListed, Exists
<1>1. Exists(w) => submitted[w] \subseteq table[w].files
  BY DEF IInv, SubmissionsAreListed
<1> QED
  BY <1>1 DEF Exists

-----------------------------------------------------------------------------
LEMMA CreateStep ==
  ASSUME IInv, NEW w \in Work, NEW k \in Kind, NEW s \in Status, Create(w, k, s)
  PROVE  IInv'
<1> DEFINE row == [kind |-> k, status |-> s, files |-> {}]
<1>1. row \in Row /\ row.files = {}
  BY DEF Row
<1>2. /\ \A x \in Work : table'[x] = IF x = w THEN row ELSE table[x]
      /\ table' = [table EXCEPT ![w] = row]
      /\ w \notin issued /\ issued' = issued \cup {w}
      /\ UNCHANGED <<uploads, request, sweep, submitted, mishap>>
  BY DEF Create, IInv, TypeOK
<1> HIDE DEF row
<1>3. TypeOK'
  BY <1>1, <1>2 DEF IInv, TypeOK
<1>4. submitted[w] = {}
  BY <1>2 DEF IInv, OnlyIssued
<1>5. SubmissionsAreListed'
  BY <1>2, <1>4, ListsStay
<1>6. Grows /\ OnlyIssued' /\ SpentWasSubmitted'
  BY <1>2, SameRecords
<1>7. FilesSpent(w, row, uploads')
  BY <1>1 DEF FilesSpent
<1> QED
  BY <1>1, <1>2, <1>3, <1>5, <1>6, <1>7, GoodStep

LEMMA RemoveStep ==
  ASSUME IInv, NEW w \in Work, Remove(w)
  PROVE  IInv'
<1>1. /\ \A x \in Work : table'[x] \in {table[x], None}
      /\ table' \in [Work -> Row \cup {None}]
      /\ UNCHANGED <<issued, uploads, request, sweep, submitted, mishap>>
  BY DEF Remove, IInv, TypeOK
<1>2. TypeOK'
  BY <1>1 DEF IInv, TypeOK
<1>3. SubmissionsAreListed'
  BY <1>1, ListsStay
<1>4. Grows /\ OnlyIssued' /\ SpentWasSubmitted'
  BY <1>1, SameRecords
<1> QED
  BY <1>1, <1>2, <1>3, <1>4, GoodStep

\* Steps that change only what is held in memory.
LEMMA QuietStep ==
  ASSUME IInv, UNCHANGED <<table, issued, uploads, submitted, mishap>>, TypeOK',
         \A h \in Handler : request'[h] \in {request[h], None}
            \/ (request'[h].work \in issued /\ HeldGood(request'[h], uploads))
  PROVE  IInv'
<1>1. Grows /\ OnlyIssued' /\ SpentWasSubmitted'
  BY SameRecords
<1>2. SubmissionsAreListed'
  BY ListsStay
<1> QED
  BY <1>1, <1>2, GoodStep

LEMMA FindStep ==
  ASSUME IInv, NEW h \in Handler, Finds(h)
  PROVE  IInv'
<1>1. PICK w \in Work, op \in {"update", "submit", "upload"}, row \in Row \cup {None} :
        /\ Begin(h, op, w, row)
        /\ op = "upload" \/ row = table[w]
  BY NoNone DEF Finds, UpdateFind, SubmitFind, UploadFind, IInv, TypeOK
<1> DEFINE t == [op |-> op, work |-> w, row |-> row, picked |-> {}]
<1>2. t \in Request
  BY DEF Request
<1>3. /\ Exists(w)
      /\ request' = [request EXCEPT ![h] = t]
      /\ \A g \in Handler : request'[g] = IF g = h THEN t ELSE request[g]
      /\ UNCHANGED <<table, issued, uploads, sweep, submitted, mishap>>
  BY <1>1 DEF Begin, IInv, TypeOK
<1>4. w \in issued /\ FilesSpent(w, table[w], uploads)
  BY <1>3 DEF IInv, RowsGood
<1>5. t.work \in issued /\ HeldGood(t, uploads)
  BY <1>1, <1>3, <1>4 DEF HeldGood, Exists
<1> HIDE DEF t
<1>6. TypeOK'
  BY <1>2, <1>3 DEF IInv, TypeOK
<1> QED
  BY <1>3, <1>5, <1>6, QuietStep

\* The end of a request that writes nothing, a sweep's query, and a crash.
LEMMA DropStep ==
  ASSUME IInv,
         \/ \E h \in Handler : Fails(h) \/ SubmitConflict(h)
         \/ \E h \in Handler, overdue \in SUBSET Work : SweepFind(h, overdue)
         \/ Crash
  PROVE  IInv'
<1>1. /\ UNCHANGED <<table, issued, uploads, submitted, mishap>>
      /\ \A h \in Handler : request'[h] \in {request[h], None}
      /\ request' \in [Handler -> Request \cup {None}]
      /\ sweep' \in [Handler -> SUBSET Work]
  BY DEF Fails, SubmitConflict, Done, SweepFind, Crash, IInv, TypeOK
<1>2. TypeOK'
  BY <1>1 DEF IInv, TypeOK
<1> QED
  BY <1>1, <1>2, QuietStep

LEMMA CheckStep ==
  ASSUME IInv, NEW h \in Handler, NEW u \in Upload, SubmitCheck(h, u)
  PROVE  IInv'
<1> DEFINE t == [request[h] EXCEPT !.picked = @ \cup {u}]
<1>1. /\ request[h] # None /\ uploads[u] # None /\ uploads[u].work = request[h].work
      /\ request' = [request EXCEPT ![h] = t]
      /\ \A g \in Handler : request'[g] = IF g = h THEN t ELSE request[g]
      /\ UNCHANGED <<table, issued, uploads, sweep, submitted, mishap>>
  <2>1. [status |-> "PENDING", work |-> request[h].work] \in FileUpload
    BY HeldRequest DEF SubmitCheck, Working, IInv, FileUpload
  <2> QED
    BY <2>1, NoNone DEF SubmitCheck, Working, Pending, IInv, TypeOK
<1>2. /\ request[h] \in Request /\ request[h].work \in issued /\ HeldGood(request[h], uploads)
  BY <1>1, HeldRequest DEF IInv, RequestsGood
<1>3. /\ t \in Request /\ t.op = request[h].op /\ t.work = request[h].work
      /\ t.row = request[h].row /\ t.picked = request[h].picked \cup {u}
  BY <1>2 DEF Request
<1> HIDE DEF t
<1>4. HeldGood(t, uploads)
  BY <1>1, <1>2, <1>3 DEF HeldGood
<1>5. TypeOK'
  BY <1>1, <1>3 DEF IInv, TypeOK
<1> QED
  BY <1>1, <1>2, <1>3, <1>4, <1>5, QuietStep

LEMMA SweepStep ==
  ASSUME IInv, NEW h \in Handler, SweepUpdate(h)
  PROVE  IInv'
<1>1. /\ UNCHANGED <<issued, uploads, request, submitted, mishap>>
      /\ sweep' \in [Handler -> SUBSET Work]
  BY DEF SweepUpdate, IInv, TypeOK
<1>2. ASSUME NEW w \in Work
      PROVE  \/ table'[w] = table[w]
             \/ /\ table'[w] \in Row /\ Exists(w) /\ table'[w].files = table[w].files
                /\ w \in issued' /\ FilesSpent(w, table'[w], uploads')
  <2>1. CASE w \in sweep[h] /\ Exists(w)
    <3>1. table'[w] = [table[w] EXCEPT !.status = "DELAYED"] /\ table[w] \in Row
      BY <2>1 DEF SweepUpdate, IInv, TypeOK, Exists
    <3>2. table'[w] \in Row /\ table'[w].files = table[w].files
      BY <3>1 DEF Row, Status
    <3>3. w \in issued /\ FilesSpent(w, table[w], uploads)
      BY <2>1 DEF IInv, RowsGood
    <3> QED
      BY <1>1, <2>1, <3>2, <3>3 DEF FilesSpent
  <2> QED
    BY <2>1 DEF SweepUpdate
<1>3. table' \in [Work -> Row \cup {None}]
  BY <1>2 DEF SweepUpdate, IInv, TypeOK
<1>4. TypeOK'
  BY <1>1, <1>3 DEF IInv, TypeOK
<1>5. SubmissionsAreListed'
  BY <1>1, <1>2, ListsStay
<1>6. Grows /\ OnlyIssued' /\ SpentWasSubmitted'
  BY <1>1, SameRecords
<1> QED
  BY <1>1, <1>2, <1>4, <1>5, <1>6, GoodStep

LEMMA UploadStep ==
  ASSUME IInv, NEW h \in Handler, NEW u \in Upload, UploadRecord(h, u)
  PROVE  IInv'
<1> DEFINE f == [status |-> "PENDING", work |-> request[h].work]
<1>1. /\ request[h] # None /\ uploads[u] = None
      /\ uploads' = [uploads EXCEPT ![u] = f]
      /\ \A x \in Upload : uploads'[x] = IF x = u THEN f ELSE uploads[x]
      /\ \A g \in Handler : request'[g] \in {request[g], None}
      /\ request' \in [Handler -> Request \cup {None}]
      /\ UNCHANGED <<table, issued, sweep, submitted, mishap>>
  BY DEF UploadRecord, Working, Done, IInv, TypeOK
<1>2. f \in FileUpload /\ f.status = "PENDING"
  BY <1>1, HeldRequest DEF IInv, FileUpload
<1> HIDE DEF f
<1>3. TypeOK'
  BY <1>1, <1>2 DEF IInv, TypeOK
<1>4. Grows /\ OnlyIssued'
  BY <1>1 DEF Grows, IInv, OnlyIssued
<1>5. SpentWasSubmitted'
  <2> SUFFICES ASSUME NEW x \in Upload, NEW w \in Work
               PROVE  x \in submitted[w] <=> Spent(x, w, uploads')
    BY <1>1 DEF SpentWasSubmitted, Spent
  <2>1. x \in submitted[w] <=> Spent(x, w, uploads)
    BY DEF IInv, SpentWasSubmitted, Spent
  <2>2. x = u => ~Spent(x, w, uploads) /\ ~Spent(x, w, uploads')
    <3>1. [status |-> "CONSUMED", work |-> w] \in FileUpload
      BY DEF FileUpload
    <3> QED
      BY <1>1, <1>2, <3>1, NoNone DEF Spent
  <2> QED
    BY <1>1, <2>1, <2>2 DEF Spent
<1>6. SubmissionsAreListed'
  BY <1>1, ListsStay
<1> QED
  BY <1>1, <1>3, <1>4, <1>5, <1>6, GoodStep

\* What saving `row` for the task a request holds does to the rows.
LEMMA Saved ==
  ASSUME IInv, NEW h \in Handler, request[h] # None, request[h].op # "upload",
         NEW row \in Row, SaveEntity(h, row)
  PROVE  /\ request[h].work \in Work /\ request[h].work \in issued
         /\ request[h].row \in Row /\ request[h].picked \in SUBSET Upload
         /\ HeldGood(request[h], uploads)
         /\ table' \in [Work -> Row \cup {None}]
         /\ \A w \in Work : table'[w] = IF w = request[h].work THEN row ELSE table[w]
         /\ \/ request[h].work \in mishap'
            \/ Exists(request[h].work) /\ table[request[h].work].files = request[h].row.files
         /\ mishap \subseteq mishap' /\ mishap' \in SUBSET Work
         /\ \A g \in Handler : request'[g] \in {request[g], None}
         /\ request' \in [Handler -> Request \cup {None}]
<1>1. /\ request[h].work \in Work /\ request[h].row \in Row \cup {None}
      /\ request[h].picked \in SUBSET Upload
      /\ request[h].work \in issued /\ HeldGood(request[h], uploads)
  BY HeldRequest DEF IInv, RequestsGood
<1>2. request[h].row \in Row
  BY <1>1 DEF HeldGood
<1>3. /\ table' \in [Work -> Row \cup {None}]
      /\ \A w \in Work : table'[w] = IF w = request[h].work THEN row ELSE table[w]
  BY <1>1 DEF SaveEntity, IInv, TypeOK
<1>4. /\ mishap \subseteq mishap' /\ mishap' \in SUBSET Work
      /\ request[h].work \in mishap' \/ table[request[h].work] = request[h].row
  BY <1>1 DEF SaveEntity, Stale, IInv, TypeOK
<1>5. /\ \A g \in Handler : request'[g] \in {request[g], None}
      /\ request' \in [Handler -> Request \cup {None}]
  BY DEF SaveEntity, Done, IInv, TypeOK
<1> QED
  BY <1>1, <1>2, <1>3, <1>4, <1>5, NoNone DEF Exists

LEMMA UpdateStep ==
  ASSUME IInv, NEW h \in Handler, NEW s \in Status, UpdateSave(h, s)
  PROVE  IInv'
<1> DEFINE row == [request[h].row EXCEPT !.status = s]
           w   == request[h].work
<1>1. /\ request[h] # None /\ request[h].op = "update" /\ SaveEntity(h, row)
      /\ UNCHANGED <<issued, uploads, sweep, submitted>>
  BY DEF UpdateSave, Working
<1>2. request[h].row \in Row
  BY <1>1, HeldRequest DEF IInv, RequestsGood, HeldGood
<1>3. row \in Row /\ row.files = request[h].row.files
  BY <1>2 DEF Row
<1> HIDE DEF row
<1>4. /\ w \in Work /\ w \in issued /\ HeldGood(request[h], uploads)
      /\ table' \in [Work -> Row \cup {None}]
      /\ \A x \in Work : table'[x] = IF x = w THEN row ELSE table[x]
      /\ w \in mishap' \/ (Exists(w) /\ table[w].files = request[h].row.files)
      /\ mishap \subseteq mishap' /\ mishap' \in SUBSET Work
      /\ \A g \in Handler : request'[g] \in {request[g], None}
      /\ request' \in [Handler -> Request \cup {None}]
  BY <1>1, <1>3, Saved
<1>5. TypeOK'
  BY <1>1, <1>4 DEF IInv, TypeOK
<1>6. SubmissionsAreListed'
  BY <1>1, <1>3, <1>4, ListsStay
<1>7. Grows /\ OnlyIssued' /\ SpentWasSubmitted'
  BY <1>1, SameRecords
<1>8. FilesSpent(w, row, uploads')
  BY <1>1, <1>3, <1>4 DEF HeldGood, FilesSpent
<1> QED
  BY <1>1, <1>3, <1>4, <1>5, <1>6, <1>7, <1>8, GoodStep

\* The transaction of a submission: what it spends was pending for its task.
LEMMA CommitStep ==
  ASSUME IInv, NEW h \in Handler, SubmitCommit(h)
  PROVE  IInv'
<1> DEFINE us  == request[h].picked
           w   == request[h].work
           row == WithFiles(request[h].row, us)
<1>1. /\ request[h] # None /\ request[h].op = "submit" /\ SaveEntity(h, row)
      /\ \A u \in us : uploads[u].status = "PENDING"
      /\ uploads' = [u \in Upload |-> IF u \in us THEN [uploads[u] EXCEPT !.status = "CONSUMED"]
                                      ELSE uploads[u]]
      /\ submitted' = [submitted EXCEPT ![w] = @ \cup us]
      /\ UNCHANGED <<issued, sweep>>
  BY DEF SubmitCommit, Working, AllPending
<1>2. request[h].row \in Row /\ us \in SUBSET Upload
  BY <1>1, HeldRequest DEF IInv, RequestsGood, HeldGood
<1>3. row \in Row /\ row.files = request[h].row.files \cup us
  BY <1>2 DEF Row, WithFiles, Status
<1> HIDE DEF row
<1>4. /\ w \in Work /\ w \in issued /\ HeldGood(request[h], uploads)
      /\ table' \in [Work -> Row \cup {None}]
      /\ \A x \in Work : table'[x] = IF x = w THEN row ELSE table[x]
      /\ w \in mishap' \/ (Exists(w) /\ table[w].files = request[h].row.files)
      /\ mishap \subseteq mishap' /\ mishap' \in SUBSET Work
      /\ \A g \in Handler : request'[g] \in {request[g], None}
      /\ request' \in [Handler -> Request \cup {None}]
  BY <1>1, <1>3, Saved
<1>5. \A u \in us : /\ uploads[u] \in FileUpload /\ uploads[u].work = w
                    /\ Spent(u, w, uploads') /\ uploads'[u] \in FileUpload
  <2> SUFFICES ASSUME NEW u \in us
               PROVE  /\ uploads[u] \in FileUpload /\ uploads[u].work = w
                      /\ Spent(u, w, uploads') /\ uploads'[u] \in FileUpload
    OBVIOUS
  <2>1. uploads[u] \in FileUpload /\ uploads[u].work = w
    BY <1>2, <1>4 DEF HeldGood, IInv, TypeOK
  <2>2. uploads'[u] = [uploads[u] EXCEPT !.status = "CONSUMED"]
    BY <1>1, <1>2
  <2> QED
    BY <2>1, <2>2 DEF FileUpload, Spent
<1>6. /\ \A u \in Upload : u \notin us => uploads'[u] = uploads[u]
      /\ \A x \in Work : submitted'[x] = IF x = w THEN submitted[x] \cup us ELSE submitted[x]
  BY <1>1, <1>4 DEF IInv, TypeOK
<1>7. TypeOK'
  <2>1. uploads' \in [Upload -> FileUpload \cup {None}]
    BY <1>1, <1>5, <1>6 DEF IInv, TypeOK
  <2>2. submitted' \in [Work -> SUBSET Upload]
    BY <1>1, <1>2 DEF IInv, TypeOK
  <2> QED
    BY <1>1, <1>4, <2>1, <2>2 DEF IInv, TypeOK
<1>8. Grows
  <2> SUFFICES ASSUME NEW u \in Upload, uploads[u] # None, u \in us
               PROVE  /\ uploads'[u] # None /\ uploads'[u].work = uploads[u].work
                      /\ uploads[u].status # "CONSUMED"
    BY <1>1, <1>6 DEF Grows
  <2> QED
    BY <1>1, <1>5, NoNone DEF Spent
<1>9. OnlyIssued'
  BY <1>1, <1>4, <1>6 DEF IInv, OnlyIssued
<1>10. SpentWasSubmitted'
  <2> SUFFICES ASSUME NEW u \in Upload, NEW x \in Work
               PROVE  u \in submitted'[x] <=> Spent(u, x, uploads')
    BY DEF SpentWasSubmitted, Spent
  <2>1. u \in submitted[x] <=> Spent(u, x, uploads)
    BY DEF IInv, SpentWasSubmitted, Spent
  <2>2. CASE u \notin us
    BY <1>6, <2>1, <2>2 DEF Spent
  <2>3. CASE u \in us
    <3>1. ~Spent(u, x, uploads)
      BY <1>1, <2>3 DEF Spent
    <3>2. Spent(u, x, uploads') <=> x = w
      BY <1>5, <2>3 DEF Spent
    <3> QED
      BY <1>6, <2>1, <2>3, <3>1, <3>2
  <2> QED
    BY <2>2, <2>3
<1>11. SubmissionsAreListed'
  <2> SUFFICES ASSUME NEW x \in Work, x \notin mishap', table'[x] # None
               PROVE  submitted'[x] \subseteq table'[x].files
    BY DEF SubmissionsAreListed, Exists
  <2>1. Exists(x) => submitted[x] \subseteq table[x].files
    BY <1>4 DEF IInv, SubmissionsAreListed
  <2> QED
    BY <1>3, <1>4, <1>6, <2>1 DEF Exists
<1>12. FilesSpent(w, row, uploads')
  <2>1. \A u \in request[h].row.files : Spent(u, w, uploads')
    BY <1>1, <1>2, <1>4, <1>8, SpentStays DEF HeldGood, FilesSpent, Row
  <2> QED
    BY <1>3, <1>5, <2>1 DEF FilesSpent
<1> QED
  BY <1>1, <1>3, <1>4, <1>7, <1>8, <1>9, <1>10, <1>11, <1>12, GoodStep

-----------------------------------------------------------------------------
LEMMA InvariantStep ==
  ASSUME IInv, [Next]_vars
  PROVE  IInv'
<1>1. CASE UNCHANGED vars
  <2>1. /\ UNCHANGED <<table, issued, uploads, submitted, mishap>>
        /\ \A h \in Handler : request'[h] = request[h]
    BY <1>1 DEF vars
  <2>2. TypeOK'
    BY <1>1 DEF IInv, TypeOK, vars
  <2> QED
    BY <2>1, <2>2, QuietStep
<1> QED
  BY <1>1, CreateStep, RemoveStep, FindStep, DropStep, UpdateStep, UploadStep, CheckStep,
     CommitStep, SweepStep DEF Next

LEMMA InvariantHolds == Spec => []IInv
<1>1. Init => IInv
  <2> SUFFICES ASSUME Init
               PROVE  IInv
    OBVIOUS
  <2>1. \A u \in Upload, w \in Work : ~Spent(u, w, uploads)
    <3>1. \A w \in Work : [status |-> "CONSUMED", work |-> w] \in FileUpload
      BY DEF FileUpload
    <3> QED
      BY <3>1, NoNone DEF Spent, Init
  <2> QED
    BY <2>1 DEF Init, IInv, TypeOK, RowsGood, RequestsGood, OnlyIssued, Exists,
                SubmissionsAreListed, SpentWasSubmitted, Spent
<1>2. IInv /\ [Next]_vars => IInv'
  BY InvariantStep
<1> QED
  BY <1>1, <1>2, PTL DEF Spec

\* Every reachable state of the tasks service is well typed.
THEOREM TypeCorrect == Spec => []TypeOK
<1>1. IInv => TypeOK
  BY DEF IInv
<1> QED
  BY <1>1, InvariantHolds, PTL

\* "Consumes the upload record atomically to prevent duplicate / cross-task reuse":
\* a file a task lists was uploaded for that task and is spent.
THEOREM ListedFilesAreConsumed == Spec => []ListedAreConsumed
<1>1. IInv => ListedAreConsumed
  BY DEF IInv, RowsGood, FilesSpent, Spent, ListedAreConsumed
<1> QED
  BY <1>1, InvariantHolds, PTL

\* "Merge onto any previously-submitted files": unless a stale save overwrites the
\* row, it lists all that was ever submitted for the task.
THEOREM SubmissionsStayListed == Spec => []SubmissionsAreListed
<1>1. IInv => SubmissionsAreListed
  BY DEF IInv
<1> QED
  BY <1>1, InvariantHolds, PTL

\* The spent uploads are exactly those of committed submissions, whatever is
\* refused, rolled back or stopped half-way.
THEOREM OnlySubmissionsSpend == Spec => []SpentWasSubmitted
<1>1. IInv => SpentWasSubmitted
  BY DEF IInv
<1> QED
  BY <1>1, InvariantHolds, PTL

-----------------------------------------------------------------------------
IsCompleted(t) == t # None /\ t.status = "COMPLETED"

\* Why task w may stop being completed.
Reopens(w) == \E h \in Handler : \/ Working(h, "update") /\ request[h].work = w
                                 \/ w \in sweep[h] /\ ~Late(w)

LEMMA Reopening ==
  ASSUME IInv, [Next]_vars, NEW w \in Work,
         IsCompleted(table[w]), table'[w] # None, ~IsCompleted(table'[w])
  PROVE  Reopens(w)
<1>1. table[w] \in Row /\ w \in issued /\ table'[w] # table[w]
  BY DEF IsCompleted, IInv, TypeOK, RowsGood, Exists
<1>2. CASE \E x \in Work, k \in Kind, s \in Status : Create(x, k, s)
  BY <1>1, <1>2 DEF Create, IInv, TypeOK
<1>3. CASE \E x \in Work : Remove(x)
  BY <1>1, <1>3 DEF Remove, IInv, TypeOK
<1>4. ASSUME NEW h \in Handler, NEW s \in Status, UpdateSave(h, s)
      PROVE  Reopens(w)
  <2>1. request[h].work = w
    BY <1>1, <1>4 DEF UpdateSave, SaveEntity, IInv, TypeOK
  <2> QED
    BY <1>4, <2>1 DEF UpdateSave, Reopens
<1>5. ASSUME NEW h \in Handler, SubmitCommit(h)
      PROVE  FALSE
  <2>1. /\ request[h].row \in Row /\ request[h].picked \in SUBSET Upload
        /\ request[h].work = w /\ table'[w] = WithFiles(request[h].row, request[h].picked)
    BY <1>1, <1>5, HeldRequest
       DEF SubmitCommit, Working, SaveEntity, IInv, TypeOK, RequestsGood, HeldGood
  <2> QED
    BY <2>1 DEF WithFiles, Row, IsCompleted
<1>6. ASSUME NEW h \in Handler, SweepUpdate(h)
      PROVE  Reopens(w)
  BY <1>1, <1>6 DEF SweepUpdate, Reopens, Late, IsCompleted
<1>7. CASE UNCHANGED table
  BY <1>1, <1>7
<1>8. (\E h \in Handler : \/ Finds(h) \/ Fails(h) \/ SubmitConflict(h)
                          \/ \E u \in Upload : UploadRecord(h, u) \/ SubmitCheck(h, u)
                          \/ \E overdue \in SUBSET Work : SweepFind(h, overdue))
        \/ Crash \/ UNCHANGED vars => UNCHANGED table
  BY DEF Finds, UpdateFind, UploadFind, SubmitFind, Begin, Fails, SubmitConflict, UploadRecord,
         SubmitCheck, SweepFind, Crash, vars
<1> QED
  BY <1>2, <1>3, <1>4, <1>5, <1>6, <1>7, <1>8 DEF Next

\* A completed task is reopened only by staff, by an outdated sweep list or by a
\* stale save, however requests, sweeps and crashes interleave.
THEOREM CompletedStaysCompleted == Spec => CompletedByDecision
<1>1. IInv /\ [Next]_vars
        => [\A w \in Work :
              LET done(t) == t # None /\ t.status = "COMPLETED"
              IN  done(table[w]) /\ table'[w] # None /\ ~done(table'[w])
                    => \E h \in Handler :
                         \/ Working(h, "update") /\ request[h].work = w
                         \/ w \in sweep[h] /\ ~Late(w)]_vars
  BY Reopening DEF IsCompleted, Reopens
<1> QED
  BY <1>1, InvariantHolds, PTL DEF Spec, CompletedByDecision
=============================================================================
