-------------------------------- MODULE Tasks --------------------------------
(***************************************************************************)
(* handla-backend/src/modules/tasks/tasks.service.ts                       *)
(*                                                                         *)
(* Tasks, among them deliverables requested from a client, who uploads     *)
(* files and submits them.  The files of a task are a JSON column of its   *)
(* row; the uploads behind them are rows of file_uploads.  update() and    *)
(* submitClientTask() save the entity findOne() returned, that column      *)
(* included (with the presigned URLs findOne() put there for the reader:   *)
(* which URL a file is listed with is not modelled).                       *)
(***************************************************************************)
EXTENDS Naturals

CONSTANTS
  Work,     \* ids a task can get
  Upload,   \* ids of uploaded files
  Handler,  \* slots for concurrent activities: a request or a sweep
  None

\* OPEN stands for PENDING and IN_PROGRESS, which no handler tells apart.
Status == {"OPEN", "COMPLETED", "DELAYED"}

\* Internal work, a deliverable, a deliverable that needs a file
\* (assignedToClient, requiresUpload); never changed after create().
Kind == {"staff", "client", "upload"}

\* files is the attachments column.
Row == [kind : Kind, status : Status, files : SUBSET Upload]

\* A file_uploads row; work is its resourceId.
FileUpload == [status : {"PENDING", "CONSUMED"}, work : Work]

\* A request at work: the entity as findOne() returned it (an upload needs only
\* the id), and the uploads a submission has checked so far.
Request == [op : {"update", "submit", "upload"}, work : Work, row : Row \cup {None},
            picked : SUBSET Upload]

ASSUME TasksAssumption == None \notin Row \cup FileUpload \cup Request

VARIABLES
  table,      \* tasks: id -> row
  issued,     \* ids already handed out
  uploads,    \* file_uploads: id -> record
  request,    \* the request a handler works on
  sweep,      \* the ids a sweep has found and not yet updated
  submitted,  \* history: the files of committed submissions
  mishap      \* history: tasks a stale save has overwritten

vars == <<table, issued, uploads, request, sweep, submitted, mishap>>

Exists(w) == table[w] # None
Free(h) == request[h] = None /\ sweep[h] = {}
Working(h, op) == request[h] # None /\ request[h].op = op
Pending(u, w) == uploads[u] = [status |-> "PENDING", work |-> w]

\* The row changed since the handler loaded it.
Stale(h) == table[request[h].work] # request[h].row

Init == /\ table = [w \in Work |-> None]
        /\ issued = {}
        /\ uploads = [u \in Upload |-> None]
        /\ request = [h \in Handler |-> None]
        /\ sweep = [h \in Handler |-> {}]
        /\ submitted = [w \in Work |-> {}]
        /\ mishap = {}

-----------------------------------------------------------------------------
Create(w, k, s) ==
  /\ w \notin issued
  /\ issued' = issued \cup {w}
  /\ table' = [table EXCEPT ![w] = [kind |-> k, status |-> s, files |-> {}]]
  /\ UNCHANGED <<uploads, request, sweep, submitted, mishap>>

\* remove() deletes by id whatever the row is by then; so does the cascade from
\* a deleted project.
Remove(w) ==
  /\ Exists(w)
  /\ table' = [table EXCEPT ![w] = None]
  /\ UNCHANGED <<issued, uploads, request, sweep, submitted, mishap>>

\* findOne().
Begin(h, op, w, row) ==
  /\ Free(h) /\ Exists(w)
  /\ request' = [request EXCEPT ![h] = [op |-> op, work |-> w, row |-> row, picked |-> {}]]
  /\ UNCHANGED <<table, issued, uploads, sweep, submitted, mishap>>

UpdateFind(h, w) == Begin(h, "update", w, table[w])

\* Only the client's own tasks take uploads and submissions.
ForClient(w) == Exists(w) /\ table[w].kind # "staff"
UploadFind(h, w) == ForClient(w) /\ Begin(h, "upload", w, None)
SubmitFind(h, w) == ForClient(w) /\ Begin(h, "submit", w, table[w])

-----------------------------------------------------------------------------
Done(h) == request' = [request EXCEPT ![h] = None]

\* repository.save(entity): the row becomes the entity the handler holds.
SaveEntity(h, row) ==
  /\ table' = [table EXCEPT ![request[h].work] = row]
  /\ mishap' = IF Stale(h) THEN mishap \cup {request[h].work} ELSE mishap
  /\ Done(h)

\* Any status is accepted; the project check may refuse the request after.
UpdateSave(h, s) ==
  /\ Working(h, "update")
  /\ SaveEntity(h, [request[h].row EXCEPT !.status = s])
  /\ UNCHANGED <<issued, uploads, sweep, submitted>>

\* uploadAttachment: once the file is in S3 its PENDING record is inserted.
UploadRecord(h, u) ==
  /\ Working(h, "upload") /\ uploads[u] = None
  /\ uploads' = [uploads EXCEPT ![u] = [status |-> "PENDING", work |-> request[h].work]]
  /\ Done(h)
  /\ UNCHANGED <<table, issued, sweep, submitted, mishap>>

\* A request throws before it writes: a check fails, or S3 does not answer.
Fails(h) ==
  /\ request[h] # None
  /\ Done(h)
  /\ UNCHANGED <<table, issued, uploads, sweep, submitted, mishap>>

-----------------------------------------------------------------------------
(* submitClientTask: check every file named, then one transaction that      *)
(* consumes them with conditional UPDATEs and saves the task.               *)

\* Slip: only the file's status is checked, not the task it was uploaded for.
SubmitCheckAnyTask(h, u) ==
  /\ Working(h, "submit")
  /\ u \notin request[h].picked /\ uploads[u] # None /\ uploads[u].status = "PENDING"
  /\ request' = [request EXCEPT ![h].picked = @ \cup {u}]
  /\ UNCHANGED <<table, issued, uploads, sweep, submitted, mishap>>

\* Slip: a file is spent as soon as it is checked.
SubmitCheckSpends(h, u) ==
  /\ Working(h, "submit")
  /\ u \notin request[h].picked /\ Pending(u, request[h].work)
  /\ request' = [request EXCEPT ![h].picked = @ \cup {u}]
  /\ uploads' = [uploads EXCEPT ![u].status = "CONSUMED"]
  /\ UNCHANGED <<table, issued, sweep, submitted, mishap>>

SubmitCheck(h, u) ==
  /\ Working(h, "submit")
  /\ u \notin request[h].picked /\ Pending(u, request[h].work)
  /\ request' = [request EXCEPT ![h].picked = @ \cup {u}]
  /\ UNCHANGED <<table, issued, uploads, sweep, submitted, mishap>>

Named(h) == request[h].picked # {} \/ request[h].row.kind = "client"

AllPending(h) == \A u \in request[h].picked : uploads[u].status = "PENDING"

\* Slip: the file list of the entity is replaced.
OnlyNewFiles(row, us) == [row EXCEPT !.status = "COMPLETED", !.files = us]

\* The files go after those the loaded entity lists.
WithFiles(row, us) == [row EXCEPT !.status = "COMPLETED", !.files = @ \cup us]

SubmitCommit(h) ==
  LET us == request[h].picked
      w  == request[h].work
  IN  /\ Working(h, "submit") /\ Named(h)
      /\ AllPending(h)
      /\ uploads' = [u \in Upload |-> IF u \in us THEN [uploads[u] EXCEPT !.status = "CONSUMED"]
                                      ELSE uploads[u]]
      /\ SaveEntity(h, WithFiles(request[h].row, us))
      /\ submitted' = [submitted EXCEPT ![w] = @ \cup us]
      /\ UNCHANGED <<issued, sweep>>

\* affected = 0 for one of them: the transaction rolls back.
SubmitConflict(h) ==
  /\ Working(h, "submit") /\ Named(h)
  /\ ~AllPending(h)
  /\ Done(h)
  /\ UNCHANGED <<table, issued, uploads, sweep, submitted, mishap>>

-----------------------------------------------------------------------------
(* recalculateDelayedStatus: find the tasks past their date that are neither *)
(* completed nor delayed, then update that list of ids in bulk.              *)

\* Slip: the query leaves out only the tasks already delayed.
LateOrDone(w) == Exists(w) /\ table[w].status # "DELAYED"

Late(w) == Exists(w) /\ table[w].status \notin {"COMPLETED", "DELAYED"}

SweepFind(h, overdue) ==
  /\ Free(h)
  /\ {w \in overdue : Late(w)} # {}
  /\ sweep' = [sweep EXCEPT ![h] = {w \in overdue : Late(w)}]
  /\ UNCHANGED <<table, issued, uploads, request, submitted, mishap>>

SweepUpdate(h) ==
  /\ sweep[h] # {}
  /\ table' = [w \in Work |-> IF w \in sweep[h] /\ Exists(w)
                                THEN [table[w] EXCEPT !.status = "DELAYED"] ELSE table[w]]
  /\ sweep' = [sweep EXCEPT ![h] = {}]
  /\ UNCHANGED <<issued, uploads, request, submitted, mishap>>

\* The process stops; requests and sweeps in flight are gone, rows stay.
Crash ==
  /\ request' = [h \in Handler |-> None]
  /\ sweep' = [h \in Handler |-> {}]
  /\ UNCHANGED <<table, issued, uploads, submitted, mishap>>

-----------------------------------------------------------------------------
Finds(h) == \E w \in Work : UpdateFind(h, w) \/ UploadFind(h, w) \/ SubmitFind(h, w)

Next == \/ \E w \in Work, k \in Kind, s \in Status : Create(w, k, s)
        \/ \E w \in Work : Remove(w)
        \/ \E h \in Handler :
             \/ Finds(h) \/ Fails(h)
             \/ \E s \in Status : UpdateSave(h, s)
             \/ \E u \in Upload : UploadRecord(h, u) \/ SubmitCheck(h, u)
             \/ SubmitCommit(h) \/ SubmitConflict(h)
             \/ \E overdue \in SUBSET Work : SweepFind(h, overdue)
             \/ SweepUpdate(h)
        \/ Crash

Spec == Init /\ [][Next]_vars

-----------------------------------------------------------------------------
TypeOK == /\ table \in [Work -> Row \cup {None}]
          /\ issued \in SUBSET Work
          /\ uploads \in [Upload -> FileUpload \cup {None}]
          /\ request \in [Handler -> Request \cup {None}]
          /\ sweep \in [Handler -> SUBSET Work]
          /\ submitted \in [Work -> SUBSET Upload]
          /\ mishap \in SUBSET Work

\* "Consumes the upload record atomically to prevent duplicate / cross-task
\* reuse": a file a task lists was uploaded for that task and is spent.
ListedAreConsumed ==
  \A w \in Work : Exists(w) =>
    \A u \in table[w].files : uploads[u] = [status |-> "CONSUMED", work |-> w]

\* "Merge onto any previously-submitted files": whatever was ever submitted for a
\* task is listed in its row, unless a stale save has overwritten the row.
SubmissionsAreListed ==
  \A w \in Work \ mishap : Exists(w) => submitted[w] \subseteq table[w].files

\* No file is spent for nothing, whatever is refused or stopped half-way: the
\* spent uploads are exactly those of the committed submissions.
SpentWasSubmitted ==
  \A u \in Upload, w \in Work :
    u \in submitted[w] <=> uploads[u] = [status |-> "CONSUMED", work |-> w]

\* A completed task stays so until staff change it; only an outdated sweep list
\* or a stale save can take it back otherwise.
CompletedByDecision ==
  [][\A w \in Work :
       LET done(t) == t # None /\ t.status = "COMPLETED"
       IN  done(table[w]) /\ table'[w] # None /\ ~done(table'[w])
             => \E h \in Handler :
                  \/ Working(h, "update") /\ request[h].work = w
                  \/ w \in sweep[h] /\ ~Late(w)]_vars
=============================================================================
