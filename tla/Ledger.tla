------------------------------- MODULE Ledger -------------------------------
(***************************************************************************)
(* handla-backend/src/modules/accounting                                   *)
(*                                                                         *)
(* The chart of accounts, the ledger table and the calls in flight that    *)
(* write to them.  record() is called without being awaited by the expense *)
(* hooks, so several calls for the same document can overlap; its three    *)
(* awaits (look the document up, resolve the account code, insert) are     *)
(* three actions.                                                          *)
(*                                                                         *)
(* External: the database refuses a second row with the same (sourceType,  *)
(* sourceId), a second account with the same code, a row whose account is  *)
(* gone, and the deletion of an account that rows refer to.                *)
(***************************************************************************)
EXTENDS Naturals

CONSTANTS
  Account,   \* account ids
  Code,      \* account codes
  Hook,      \* codes the hooks post to: the system accounts of the seeder
  Source,    \* documents (expenses) that post
  Entry,     \* ledger row ids
  Caller,    \* slots for calls in flight
  Blank,     \* sourceId of a manual entry between its two saves: ''
  None

AccountRow == [code : Code, system : BOOLEAN]

\* type is the sourceType, source the sourceId.
LedgerRow == [type : {"DOC", "MANUAL"}, source : Source \cup Entry \cup {Blank},
              account : Account]

\* Calls in flight, by the step they take next.
Resolving == [step : {"resolve"}, source : Source, code : Code]
Inserting == [step : {"insert"}, source : Source, code : Code, account : Account]
Manual    == [step : {"manual"}, account : Account]
Linking   == [step : {"link"}, account : Account, entry : Entry]
Renaming  == [step : {"rename"}, account : Account, row : AccountRow]
Call == Resolving \cup Inserting \cup Manual \cup Linking \cup Renaming

ASSUME LedgerAssumption == /\ Hook \subseteq Code
                           /\ None \notin AccountRow \cup LedgerRow \cup Call
                           /\ Source \cap Entry = {}
                           /\ Blank \notin Source \cup Entry

VARIABLES
  accounts,  \* chart of accounts: id -> row
  ledger,    \* ledger_entries: id -> row
  used,      \* account and row ids already generated
  call,      \* what each slot is doing
  renamed,   \* history: a system account has lost its code
  dropped,   \* history: postings record() gave up on, with their code
  crashed    \* history: the process has stopped at some point

ledgerVars == <<accounts, ledger, used, call, renamed, dropped, crashed>>

HasCode(a, c) == accounts[a] # None /\ accounts[a].code = c
Taken(c) == \E a \in Account : HasCode(a, c)
Rows == {e \in Entry : ledger[e] # None}
Posted(s) == {e \in Rows : ledger[e].type = "DOC" /\ ledger[e].source = s}
HalfWritten == {e \in Rows : ledger[e].type = "MANUAL" /\ ledger[e].source = Blank}
InUse(a) == \E e \in Rows : ledger[e].account = a

Idle(p) == call[p] = None
At(p, step) == ~Idle(p) /\ call[p].step = step
Begin(p, c) == Idle(p) /\ call' = [call EXCEPT ![p] = c]
Return(p) == call' = [call EXCEPT ![p] = None]

\* onModuleInit: a system account for every hook code that has none.
Seeded(old, new) ==
  /\ \A a \in Account : old[a] # None => new[a] = old[a]
  /\ \A c \in Hook : \E a \in Account : new[a] # None /\ new[a].code = c
  /\ \A a \in Account : old[a] = None /\ new[a] # None => new[a].system
  /\ \A a, b \in Account :
       old[a] = None /\ new[a] # None =>
         /\ new[a].code \in Hook
         /\ b # a /\ new[b] # None => new[b].code # new[a].code

Init == /\ accounts \in [Account -> AccountRow \cup {None}]
        /\ Seeded([a \in Account |-> None], accounts)
        /\ ledger = [e \in Entry |-> None]
        /\ used = {a \in Account : accounts[a] # None}
        /\ call = [p \in Caller |-> None]
        /\ renamed = FALSE
        /\ dropped = {}
        /\ crashed = FALSE

-----------------------------------------------------------------------------
(* record(): look the document up, resolve the account, insert.             *)

\* A document found already posted is skipped: only a miss goes on.
RecordLookup(p, s, c) ==
  /\ Posted(s) = {}
  /\ Begin(p, [step |-> "resolve", source |-> s, code |-> c])
  /\ UNCHANGED <<accounts, ledger, used, renamed, dropped, crashed>>

RecordResolve(p) ==
  /\ At(p, "resolve")
  /\ \E a \in Account :
       /\ HasCode(a, call[p].code)
       /\ call' = [call EXCEPT ![p] = [step |-> "insert", source |-> call[p].source,
                                       code |-> call[p].code, account |-> a]]
  /\ UNCHANGED <<accounts, ledger, used, renamed, dropped, crashed>>

GiveUp(p) ==
  /\ dropped' = dropped \cup {<<call[p].source, call[p].code>>}
  /\ Return(p)
  /\ UNCHANGED <<accounts, ledger, used, renamed, crashed>>

\* No account has that code: a warning, and the document is not posted.
RecordNoAccount(p) == At(p, "resolve") /\ ~Taken(call[p].code) /\ GiveUp(p)

\* Slip: without the unique index, every insert goes through.
AdmitsAll(s) == TRUE

\* The unique index on (sourceType, sourceId).
Admits(s) == Posted(s) = {}

RecordInsert(p, e) ==
  /\ At(p, "insert") /\ Admits(call[p].source)
  /\ accounts[call[p].account] # None
  /\ e \notin used
  /\ used' = used \cup {e}
  /\ ledger' = [ledger EXCEPT ![e] = [type |-> "DOC", source |-> call[p].source,
                                      account |-> call[p].account]]
  /\ Return(p)
  /\ UNCHANGED <<accounts, renamed, dropped, crashed>>

\* Duplicate key: another call posted the document first; re-read, succeed.
RecordDuplicate(p) ==
  /\ At(p, "insert") /\ ~Admits(call[p].source)
  /\ Return(p)
  /\ UNCHANGED <<accounts, ledger, used, renamed, dropped, crashed>>

\* The account was deleted after it was resolved: the insert throws.
RecordFails(p) ==
  /\ At(p, "insert") /\ Admits(call[p].source)
  /\ accounts[call[p].account] = None
  /\ GiveUp(p)

-----------------------------------------------------------------------------
(* createManualEntry(): one save with an empty sourceId to learn the id, a   *)
(* second one to store it; removeManualEntry().                              *)

ManualFind(p, a) ==
  /\ accounts[a] # None
  /\ Begin(p, [step |-> "manual", account |-> a])
  /\ UNCHANGED <<accounts, ledger, used, renamed, dropped, crashed>>

ManualInsert(p, e) ==
  /\ At(p, "manual") /\ HalfWritten = {}
  /\ accounts[call[p].account] # None
  /\ e \notin used
  /\ used' = used \cup {e}
  /\ ledger' = [ledger EXCEPT ![e] = [type |-> "MANUAL", source |-> Blank,
                                      account |-> call[p].account]]
  /\ call' = [call EXCEPT ![p] = [step |-> "link", account |-> call[p].account,
                                  entry |-> e]]
  /\ UNCHANGED <<accounts, renamed, dropped, crashed>>

\* Another entry holds ('MANUAL', ''), or the account is gone: the save throws.
ManualRejected(p) ==
  /\ At(p, "manual")
  /\ HalfWritten # {} \/ accounts[call[p].account] = None
  /\ Return(p)
  /\ UNCHANGED <<accounts, ledger, used, renamed, dropped, crashed>>

\* Slip: the second save forgets to set the sourceId.
ManualLinkBlank(p) ==
  /\ At(p, "link") /\ accounts[call[p].account] # None
  /\ ledger' = [ledger EXCEPT ![call[p].entry] =
                  [type |-> "MANUAL", source |-> Blank, account |-> call[p].account]]
  /\ Return(p)
  /\ UNCHANGED <<accounts, used, renamed, dropped, crashed>>

\* The second save; it inserts the row again if it was removed in between.
ManualLink(p) ==
  /\ At(p, "link") /\ accounts[call[p].account] # None
  /\ ledger' = [ledger EXCEPT ![call[p].entry] =
                  [type |-> "MANUAL", source |-> call[p].entry,
                   account |-> call[p].account]]
  /\ Return(p)
  /\ UNCHANGED <<accounts, used, renamed, dropped, crashed>>

ManualLinkFails(p) ==
  /\ At(p, "link") /\ accounts[call[p].account] = None
  /\ Return(p)
  /\ UNCHANGED <<accounts, ledger, used, renamed, dropped, crashed>>

RemoveManualEntry(e) ==
  /\ e \in Rows /\ ledger[e].type = "MANUAL"
  /\ ledger' = [ledger EXCEPT ![e] = None]
  /\ UNCHANGED <<accounts, used, call, renamed, dropped, crashed>>

-----------------------------------------------------------------------------
(* The chart of accounts.                                                    *)

CreateAccount(a, c) ==
  /\ a \notin used /\ ~Taken(c)
  /\ used' = used \cup {a}
  /\ accounts' = [accounts EXCEPT ![a] = [code |-> c, system |-> FALSE]]
  /\ UNCHANGED <<ledger, call, renamed, dropped, crashed>>

UpdateFind(p, a) ==
  /\ accounts[a] # None
  /\ Begin(p, [step |-> "rename", account |-> a, row |-> accounts[a]])
  /\ UNCHANGED <<accounts, ledger, used, renamed, dropped, crashed>>

FreeFor(a, c) == \A b \in Account \ {a} : ~HasCode(b, c)

\* updateAccount saves what it loaded under the requested code; nothing stops
\* it from changing the code of a system account.
UpdateSave(p, c) ==
  /\ At(p, "rename")
  /\ LET a == call[p].account IN
       /\ FreeFor(a, c)
       /\ accounts' = [accounts EXCEPT ![a] = [code |-> c, system |-> call[p].row.system]]
       /\ renamed' = (renamed \/ (accounts[a] # None /\ accounts[a].system
                                    /\ accounts[a].code # c))
  /\ Return(p)
  /\ UNCHANGED <<ledger, used, dropped, crashed>>

UpdateRejected(p, c) ==
  /\ At(p, "rename") /\ ~FreeFor(call[p].account, c)
  /\ Return(p)
  /\ UNCHANGED <<accounts, ledger, used, renamed, dropped, crashed>>

\* Slip: system accounts can be deleted like any other.
RemoveAnyAccount(a) ==
  /\ accounts[a] # None /\ ~InUse(a)
  /\ accounts' = [accounts EXCEPT ![a] = None]
  /\ UNCHANGED <<ledger, used, call, renamed, dropped, crashed>>

\* The count of rows is repeated by the database when it deletes.
RemoveAccount(a) ==
  /\ accounts[a] # None /\ ~accounts[a].system /\ ~InUse(a)
  /\ accounts' = [accounts EXCEPT ![a] = None]
  /\ UNCHANGED <<ledger, used, call, renamed, dropped, crashed>>

\* The process stops with its calls in flight, starts again and seeds.
Restart ==
  /\ call' = [p \in Caller |-> None]
  /\ accounts' \in [Account -> AccountRow \cup {None}]
  /\ Seeded(accounts, accounts')
  /\ \A a \in Account : accounts[a] = None /\ accounts'[a] # None => a \notin used
  /\ used' = used \cup {a \in Account : accounts'[a] # None}
  /\ crashed' = TRUE
  /\ UNCHANGED <<ledger, renamed, dropped>>

-----------------------------------------------------------------------------
Post(p) == \/ RecordResolve(p) \/ RecordNoAccount(p)
           \/ RecordDuplicate(p) \/ RecordFails(p)
           \/ \E e \in Entry : RecordInsert(p, e)

ManualEntry(p) == \/ ManualRejected(p) \/ ManualLink(p) \/ ManualLinkFails(p)
                  \/ \E a \in Account : ManualFind(p, a)
                  \/ \E e \in Entry : ManualInsert(p, e)

ChangeAccount(p) == \/ \E a \in Account : UpdateFind(p, a)
                    \/ \E c \in Code : UpdateSave(p, c) \/ UpdateRejected(p, c)

Chart == \E a \in Account : RemoveAccount(a) \/ \E c \in Code : CreateAccount(a, c)

Next == \/ \E p \in Caller, s \in Source, c \in Code : RecordLookup(p, s, c)
        \/ \E p \in Caller : Post(p) \/ ManualEntry(p) \/ ChangeAccount(p)
        \/ \E e \in Entry : RemoveManualEntry(e)
        \/ Chart
        \/ Restart

Spec == Init /\ [][Next]_ledgerVars

-----------------------------------------------------------------------------
TypeOK == /\ accounts \in [Account -> AccountRow \cup {None}]
          /\ ledger \in [Entry -> LedgerRow \cup {None}]
          /\ used \in SUBSET (Account \cup Entry)
          /\ call \in [Caller -> Call \cup {None}]
          /\ renamed \in BOOLEAN
          /\ dropped \in SUBSET (Source \X Code)
          /\ crashed \in BOOLEAN

\* "A document can only ever post one ledger row": however many record() calls
\* race, and whatever is removed or renamed, a document's row is there to stay.
Book == INSTANCE LedgerBook WITH book <- [s \in Source |-> Posted(s)]
PostsOnce == Book!Spec

\* record() gives up on a hook's posting only if a system account lost its
\* code: no race between calls, deletions and restarts drops one.
HookPostsArrive == \A d \in dropped : d[2] \in Hook => renamed

\* A manual entry without its own id has a createManualEntry call about to
\* store it, unless the process stopped between the two saves.
HalfWrittenHasWriter ==
  ~crashed => \A e \in HalfWritten :
                \E p \in Caller : At(p, "link") /\ call[p].entry = e
=============================================================================
