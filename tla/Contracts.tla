------------------------------ MODULE Contracts ------------------------------
(***************************************************************************)
(* handla-backend/src/modules/contracts/contracts.service.ts               *)
(*                                                                         *)
(* The contracts table, the requests that work on it, and the copy of the  *)
(* signed text in S3.  acceptContract() saves SIGNED, then renders what it *)
(* saved, uploads it under a key of the contract, and records the key with *)
(* an UPDATE of two columns.  Whatever goes wrong after the save is logged *)
(* and the contract stays SIGNED.                                          *)
(***************************************************************************)
EXTENDS Naturals

CONSTANTS
  Contract,  \* ids a contract can get
  Body,      \* texts: title, body, details
  Handler,   \* slots for concurrent requests
  None

Status == {"DRAFT", "SENT", "SIGNED", "REJECTED"}

\* stored stands for s3Key and pdfUrl being set.
Row == [status : Status, body : Body, stored : BOOLEAN]

\* "link" is any of the four public-link handlers (module PublicLinks).
Op == {"update", "remove", "send", "accept", "reject", "link"}

\* A request at work with the entity it holds.  An accept goes on after its save.
Task == [op : Op, con : Contract, row : Row, step : {"loaded", "upload", "record"}]

\* Evaluated by MCDocuments, assumed by the theorems.
ContractsAssumption == None \notin Row \cup Task \cup Body

VARIABLES
  table,   \* contracts: id -> row
  issued,  \* ids already handed out
  files,   \* S3: the text stored under contracts/<id>.html
  task,    \* the request a handler works on
  sent,    \* history: texts that sendToClient saved for this contract
  signed,  \* history: texts the client's acceptance saved
  mishap   \* history: contracts overwritten by a stale save, or whose copy failed

historyVars == <<sent, signed, mishap>>
vars == <<table, issued, files, task, historyVars>>

Exists(c) == table[c] # None
In(c, statuses) == Exists(c) /\ table[c].status \in statuses
Working(h, op, step) == task[h] # None /\ task[h].op = op /\ task[h].step = step

\* A request holds a row that has changed since, and may still save it.
Stale(h) == /\ task[h] # None /\ task[h].step = "loaded"
            /\ table[task[h].con] # task[h].row

Init == /\ table = [c \in Contract |-> None]
        /\ issued = {}
        /\ files = [c \in Contract |-> None]
        /\ task = [h \in Handler |-> None]
        /\ sent = [c \in Contract |-> {}]
        /\ signed = [c \in Contract |-> {}]
        /\ mishap = {}

Create(c, b) ==
  /\ c \notin issued
  /\ issued' = issued \cup {c}
  /\ table' = [table EXCEPT ![c] = [status |-> "DRAFT", body |-> b, stored |-> FALSE]]
  /\ UNCHANGED <<files, task, historyVars>>

-----------------------------------------------------------------------------
(* Loading, with the status guard of each handler.                          *)

Find(h, op, c) ==
  /\ task[h] = None /\ Exists(c)
  /\ task' = [task EXCEPT ![h] = [op |-> op, con |-> c, row |-> table[c], step |-> "loaded"]]
  /\ UNCHANGED <<table, issued, files, historyVars>>

\* Slip: a contract may be edited until it is signed.
UpdateFindUnsigned(h, c) == In(c, {"DRAFT", "SENT"}) /\ Find(h, "update", c)

\* Slip: a sent contract may be deleted.
RemoveFindUnsigned(h, c) == In(c, {"DRAFT", "SENT"}) /\ Find(h, "remove", c)

UpdateFind(h, c) == In(c, {"DRAFT"}) /\ Find(h, "update", c)
RemoveFind(h, c) == In(c, {"DRAFT"}) /\ Find(h, "remove", c)
SendFind(h, c)   == In(c, {"DRAFT"}) /\ Find(h, "send", c)
AcceptFind(h, c) == In(c, {"SENT"}) /\ Find(h, "accept", c)
RejectFind(h, c) == In(c, {"SENT"}) /\ Find(h, "reject", c)
LinkFind(h, c)   == Find(h, "link", c)

-----------------------------------------------------------------------------
(* Saving what was loaded.                                                  *)

\* repository.save(entity): the row becomes the entity the handler holds.
SaveEntity(h, row) ==
  /\ table' = [table EXCEPT ![task[h].con] = row]
  /\ mishap' = IF Stale(h) THEN mishap \cup {task[h].con} ELSE mishap
  /\ UNCHANGED <<issued, files>>

Done(h) == task' = [task EXCEPT ![h] = None]

UpdateSave(h, b) ==
  /\ Working(h, "update", "loaded")
  /\ SaveEntity(h, [task[h].row EXCEPT !.body = b])
  /\ Done(h) /\ UNCHANGED <<sent, signed>>

RemoveDelete(h) ==
  /\ Working(h, "remove", "loaded")
  /\ SaveEntity(h, None)
  /\ Done(h) /\ UNCHANGED <<sent, signed>>

SendSave(h) ==
  /\ Working(h, "send", "loaded")
  /\ SaveEntity(h, [task[h].row EXCEPT !.status = "SENT"])
  /\ sent' = [sent EXCEPT ![task[h].con] = @ \cup {task[h].row.body}]
  /\ Done(h) /\ UNCHANGED signed

\* The request goes on with the entity it saved.
AcceptSave(h) ==
  LET saved == [task[h].row EXCEPT !.status = "SIGNED"]
  IN  /\ Working(h, "accept", "loaded")
      /\ SaveEntity(h, saved)
      /\ signed' = [signed EXCEPT ![task[h].con] = @ \cup {saved.body}]
      /\ task' = [task EXCEPT ![h].row = saved, ![h].step = "upload"]
      /\ UNCHANGED sent

RejectSave(h) ==
  /\ Working(h, "reject", "loaded")
  /\ SaveEntity(h, [task[h].row EXCEPT !.status = "REJECTED"])
  /\ Done(h) /\ UNCHANGED <<sent, signed>>

LinkSave(h) ==
  /\ Working(h, "link", "loaded")
  /\ SaveEntity(h, task[h].row)
  /\ Done(h) /\ UNCHANGED <<sent, signed>>

-----------------------------------------------------------------------------
(* generateAndStorePdf(saved).                                              *)

\* Slip: the row is read again and rendered, instead of what was signed.
UploadCurrent(h) ==
  /\ Working(h, "accept", "upload")
  /\ Exists(task[h].con)
  /\ files' = [files EXCEPT ![task[h].con] = table[task[h].con].body]
  /\ task' = [task EXCEPT ![h].step = "record"]
  /\ UNCHANGED <<table, issued, historyVars>>

\* uploadBuffer: a second upload replaces the first, the key is the contract's.
Upload(h) ==
  /\ Working(h, "accept", "upload")
  /\ files' = [files EXCEPT ![task[h].con] = task[h].row.body]
  /\ task' = [task EXCEPT ![h].step = "record"]
  /\ UNCHANGED <<table, issued, historyVars>>

\* Slip: the key is filled in on the entity and lost with it.
RecordNothing(h) ==
  /\ Working(h, "accept", "record")
  /\ Done(h) /\ UNCHANGED <<table, issued, files, historyVars>>

\* contractRepo.update(id, {s3Key, pdfUrl}): two columns, of a row if it exists.
Record(h) ==
  /\ Working(h, "accept", "record")
  /\ table' = IF Exists(task[h].con) THEN [table EXCEPT ![task[h].con].stored = TRUE]
              ELSE table
  /\ Done(h) /\ UNCHANGED <<issued, files, historyVars>>

-----------------------------------------------------------------------------
(* Failures.                                                                *)

\* Contracts whose copy is still to be stored by these handlers.
Unstored(H) == {task[h].con : h \in {g \in H : task[g] # None /\ task[g].step # "loaded"}}

\* A request throws before its save; or the template, the upload or the UPDATE
\* fails after it, which is only logged.
Fails(h) ==
  /\ task[h] # None
  /\ mishap' = mishap \cup Unstored({h})
  /\ Done(h) /\ UNCHANGED <<table, issued, files, sent, signed>>

\* The process stops; requests in flight are gone, rows and files stay.
Crash ==
  /\ mishap' = mishap \cup Unstored(Handler)
  /\ task' = [h \in Handler |-> None]
  /\ UNCHANGED <<table, issued, files, sent, signed>>

-----------------------------------------------------------------------------
Finds(h, c) == \/ UpdateFind(h, c) \/ RemoveFind(h, c) \/ SendFind(h, c)
               \/ AcceptFind(h, c) \/ RejectFind(h, c) \/ LinkFind(h, c)

Saves(h) == \/ \E b \in Body : UpdateSave(h, b)
            \/ RemoveDelete(h) \/ SendSave(h) \/ AcceptSave(h) \/ RejectSave(h)
            \/ LinkSave(h)

Next == \/ \E c \in Contract, b \in Body : Create(c, b)
        \/ \E h \in Handler : \/ \E c \in Contract : Finds(h, c)
                             \/ Saves(h) \/ Upload(h) \/ Record(h) \/ Fails(h)
        \/ Crash

Spec == Init /\ [][Next]_vars

-----------------------------------------------------------------------------
TypeOK == /\ table \in [Contract -> Row \cup {None}]
          /\ issued \in SUBSET Contract
          /\ files \in [Contract -> Body \cup {None}]
          /\ task \in [Handler -> Task \cup {None}]
          /\ sent \in [Contract -> SUBSET Body]
          /\ signed \in [Contract -> SUBSET Body]
          /\ mishap \in SUBSET Contract

\* "Only DRAFT contracts can be edited": however requests overlap, the text a
\* client can sign, has signed or has rejected is one that was sent as it stands.
DecidedOnSentText ==
  \A c \in Contract :
    In(c, {"SENT", "SIGNED", "REJECTED"}) => table[c].body \in sent[c]

\* "Generates and stores the HTML document on S3 after signing": a contract that
\* shows a stored copy has one, and its text is one the client signed.
StoredCopyWasSigned ==
  \A c \in Contract : Exists(c) /\ table[c].stored => files[c] \in signed[c]

\* A signed contract without a copy of its very text is one that is being rendered, one whose
\* rendering failed or was cut off, or one overwritten by a stale save.
SignedGetsItsCopy ==
  \A c \in Contract \ mishap :
    In(c, {"SIGNED"}) /\ ~(table[c].stored /\ files[c] = table[c].body) =>
      \E h \in Handler : task[h] # None /\ task[h].con = c /\ task[h].step # "loaded"

\* The lifecycle of the class comment, with the deletions remove() allows.
Documented == {<<"none", "DRAFT">>, <<"DRAFT", "SENT">>, <<"SENT", "SIGNED">>,
               <<"SENT", "REJECTED">>, <<"DRAFT", "deleted">>}

Seen(c) == IF Exists(c) THEN table[c].status
           ELSE IF c \in issued THEN "deleted" ELSE "none"

Lifecycle == INSTANCE StatusLifecycle
               WITH Thing <- Contract, Moves <- Documented,
                    status <- [c \in Contract |-> Seen(c)]

\* Every step taken while no handler holds an outdated row follows the lifecycle:
\* in particular nothing leaves SIGNED or REJECTED.
FollowsLifecycle ==
  [][(\A h \in Handler : ~Stale(h))
       => [Lifecycle!Next]_[c \in Contract |-> Seen(c)]]_vars
=============================================================================
