---------------------------- MODULE LedgerProofs ----------------------------
(***************************************************************************)
(* Proofs about Ledger, for any accounts, codes, documents and callers.    *)
(*                                                                         *)
(* 1. Type correctness.                                                    *)
(* 2. Ledger implements LedgerBook: one row per document, for good.        *)
(* 3. A hook's posting is dropped only if a system account lost its code.  *)
(*    The invariant behind it follows a system account through every call  *)
(*    that holds it: one that resolved it, one that is about to save it.   *)
(* 4. A manual entry without its own id has the call that will store it.   *)
(***************************************************************************)
EXTENDS Ledger, TLAPS

\* A call at a given step carries what that step needs.
LEMMA CallShapes ==
  ASSUME TypeOK, NEW p \in Caller
  PROVE  /\ At(p, "resolve") => call[p] \in Resolving
         /\ At(p, "insert") => call[p] \in Inserting
         /\ At(p, "manual") => call[p] \in Manual
         /\ At(p, "link") => call[p] \in Linking
         /\ At(p, "rename") => call[p] \in Renaming
  BY DEF TypeOK, Call, At, Idle, Resolving, Inserting, Manual, Linking, Renaming

\* Every call's step, account change and restart keeps the shapes.
LEMMA TypeStep ==
  ASSUME TypeOK, [Next]_ledgerVars
  PROVE  TypeOK'
<1> USE LedgerAssumption DEF TypeOK
<1>1. ASSUME NEW p \in Caller, NEW s \in Source, NEW c \in Code, RecordLookup(p, s, c)
      PROVE  TypeOK'
  BY <1>1 DEF RecordLookup, Begin, Call, Resolving
<1>2. ASSUME NEW p \in Caller, RecordResolve(p) PROVE TypeOK'
  <2>1. PICK a \in Account :
          call' = [call EXCEPT ![p] = [step |-> "insert", source |-> call[p].source,
                                       code |-> call[p].code, account |-> a]]
    BY <1>2 DEF RecordResolve
  <2>2. [step |-> "insert", source |-> call[p].source, code |-> call[p].code,
         account |-> a] \in Inserting
    BY <1>2, CallShapes DEF RecordResolve, Resolving, Inserting
  <2> QED
    BY <1>2, <2>1, <2>2 DEF RecordResolve, Call
<1>3. ASSUME NEW p \in Caller, At(p, "resolve") \/ At(p, "insert"), GiveUp(p) PROVE TypeOK'
  BY <1>3, CallShapes DEF GiveUp, Return, Resolving, Inserting
<1>4. ASSUME NEW p \in Caller, NEW e \in Entry, RecordInsert(p, e) PROVE TypeOK'
  <2>1. [type |-> "DOC", source |-> call[p].source, account |-> call[p].account] \in LedgerRow
    BY <1>4, CallShapes DEF RecordInsert, Inserting, LedgerRow
  <2> QED
    BY <1>4, <2>1 DEF RecordInsert, Return
<1>5. ASSUME NEW p \in Caller, RecordDuplicate(p) \/ ManualRejected(p) \/ ManualLinkFails(p)
      PROVE  TypeOK'
  BY <1>5 DEF RecordDuplicate, ManualRejected, ManualLinkFails, Return
<1>6. ASSUME NEW p \in Caller, NEW a \in Account, ManualFind(p, a) PROVE TypeOK'
  BY <1>6 DEF ManualFind, Begin, Call, Manual
<1>7. ASSUME NEW p \in Caller, NEW e \in Entry, ManualInsert(p, e) PROVE TypeOK'
  <2>1. [type |-> "MANUAL", source |-> Blank, account |-> call[p].account] \in LedgerRow
    BY <1>7, CallShapes DEF ManualInsert, Manual, LedgerRow
  <2>2. [step |-> "link", account |-> call[p].account, entry |-> e] \in Linking
    BY <1>7, CallShapes DEF ManualInsert, Manual, Linking
  <2> QED
    BY <1>7, <2>1, <2>2 DEF ManualInsert, Call
<1>8. ASSUME NEW p \in Caller, ManualLink(p) PROVE TypeOK'
  <2>1. [type |-> "MANUAL", source |-> call[p].entry, account |-> call[p].account]
          \in LedgerRow
    BY <1>8, CallShapes DEF ManualLink, Linking, LedgerRow
  <2> QED
    BY <1>8, <2>1 DEF ManualLink, Return
<1>9. ASSUME NEW e \in Entry, RemoveManualEntry(e) PROVE TypeOK'
  BY <1>9 DEF RemoveManualEntry
<1>10. ASSUME NEW p \in Caller, ChangeAccount(p) PROVE TypeOK'
  <2>1. ASSUME NEW a \in Account, UpdateFind(p, a) PROVE TypeOK'
    BY <2>1 DEF UpdateFind, Begin, Call, Renaming
  <2>2. ASSUME NEW c \in Code, UpdateSave(p, c) PROVE TypeOK'
    <3> DEFINE a == call[p].account
               row == [code |-> c, system |-> call[p].row.system]
    <3>1. row \in AccountRow /\ a \in Account
      BY <2>2, CallShapes DEF UpdateSave, Renaming, AccountRow
    <3>2. accounts' = [accounts EXCEPT ![a] = row]
      BY <2>2 DEF UpdateSave
    <3>3. accounts' \in [Account -> AccountRow \cup {None}]
      BY <3>1, <3>2
    <3>4. renamed' \in BOOLEAN
      BY <2>2 DEF UpdateSave
    <3> QED
      BY <2>2, <3>3, <3>4 DEF UpdateSave, Return
  <2>3. ASSUME NEW c \in Code, UpdateRejected(p, c) PROVE TypeOK'
    BY <2>3 DEF UpdateRejected, Return
  <2> QED
    BY <1>10, <2>1, <2>2, <2>3 DEF ChangeAccount
<1>11. CASE Chart
  <2>1. ASSUME NEW a \in Account, RemoveAccount(a) PROVE TypeOK'
    BY <2>1 DEF RemoveAccount
  <2>2. ASSUME NEW a \in Account, NEW c \in Code, CreateAccount(a, c) PROVE TypeOK'
    BY <2>2 DEF CreateAccount, AccountRow
  <2> QED
    BY <1>11, <2>1, <2>2 DEF Chart
<1>12. CASE Restart
  BY <1>12 DEF Restart
<1>13. CASE UNCHANGED ledgerVars
  BY <1>13 DEF ledgerVars
<1> QED
  BY <1>1, <1>2, <1>3, <1>4, <1>5, <1>6, <1>7, <1>8, <1>9, <1>10, <1>11, <1>12, <1>13
     DEF Next, Post, ManualEntry, RecordNoAccount, RecordFails

\* Accounts, ledger rows and calls in flight keep their shapes under every
\* handler, hook and restart.
THEOREM TypeCorrect == Spec => []TypeOK
<1>1. Init => TypeOK
  BY DEF Init, TypeOK
<1>2. TypeOK /\ [Next]_ledgerVars => TypeOK'
  BY TypeStep
<1> QED
  BY <1>1, <1>2, PTL DEF Spec

-----------------------------------------------------------------------------
\* Row ids are generated once, and a manual call links only its own row.
RowIds ==
  /\ \A e \in Rows : e \in used
  /\ \A p \in Caller : At(p, "link") =>
       /\ call[p].entry \in used
       /\ call[p].entry \in Rows => ledger[call[p].entry].type = "MANUAL"

\* Row ids stay fresh: a call links only a manual row of its own.
LEMMA RowIdsStep ==
  ASSUME TypeOK, RowIds, [Next]_ledgerVars
  PROVE  RowIds'
<1> USE LedgerAssumption
\* Most steps neither insert a row nor start a link.
<1>1. ASSUME used \subseteq used',
             \A e \in Entry : ledger'[e] = ledger[e] \/ ledger'[e] = None,
             \A p \in Caller : At(p, "link")' => call'[p] = call[p]
      PROVE  RowIds'
  <2>1. \A p \in Caller : At(p, "link") => call[p].entry \in Entry
    BY CallShapes DEF Linking
  <2> QED
    BY <1>1, <2>1 DEF RowIds, Rows, At, Idle
<1>2. ASSUME NEW p \in Caller, NEW e \in Entry, RecordInsert(p, e) PROVE RowIds'
  <2> DEFINE row == [type |-> "DOC", source |-> call[p].source, account |-> call[p].account]
  <2>1. /\ ledger' = [ledger EXCEPT ![e] = row]
        /\ e \notin used /\ used' = used \cup {e}
        /\ call' = [call EXCEPT ![p] = None]
    BY <1>2 DEF RecordInsert, Return
  <2> HIDE DEF row
  <2>2. \A q \in Caller : At(q, "link") => call[q].entry \in Entry
    BY CallShapes DEF Linking
  <2> QED
    BY <2>1, <2>2 DEF RowIds, Rows, At, Idle, TypeOK
<1>3. ASSUME NEW p \in Caller, NEW e \in Entry, ManualInsert(p, e) PROVE RowIds'
  <2> DEFINE row == [type |-> "MANUAL", source |-> Blank, account |-> call[p].account]
             next == [step |-> "link", account |-> call[p].account, entry |-> e]
  <2>1. /\ ledger' = [ledger EXCEPT ![e] = row]
        /\ e \notin used /\ used' = used \cup {e}
        /\ call' = [call EXCEPT ![p] = next]
    BY <1>3 DEF ManualInsert
  <2>2. row.type = "MANUAL" /\ next.entry = e
    OBVIOUS
  <2> HIDE DEF row, next
  <2>3. \A q \in Caller : At(q, "link") => call[q].entry \in Entry
    BY CallShapes DEF Linking
  <2> QED
    BY <2>1, <2>2, <2>3 DEF RowIds, Rows, At, Idle, TypeOK
<1>4. ASSUME NEW p \in Caller, ManualLink(p) PROVE RowIds'
  <2> DEFINE e == call[p].entry
             row == [type |-> "MANUAL", source |-> e, account |-> call[p].account]
  <2>1. /\ ledger' = [ledger EXCEPT ![e] = row] /\ used' = used
        /\ call' = [call EXCEPT ![p] = None]
        /\ e \in Entry /\ e \in used
    BY <1>4, CallShapes DEF ManualLink, Return, Linking, RowIds
  <2>2. row.type = "MANUAL"
    OBVIOUS
  <2> HIDE DEF row, e
  <2>3. \A q \in Caller : At(q, "link") => call[q].entry \in Entry
    BY CallShapes DEF Linking
  <2> QED
    BY <2>1, <2>2, <2>3 DEF RowIds, Rows, At, Idle, TypeOK
<1>5. ASSUME NEW p \in Caller, RecordResolve(p) PROVE RowIds'
  <2>1. PICK a \in Account :
          call' = [call EXCEPT ![p] = [step |-> "insert", source |-> call[p].source,
                                       code |-> call[p].code, account |-> a]]
    BY <1>5 DEF RecordResolve
  <2>2. \A q \in Caller : At(q, "link")' => call'[q] = call[q]
    BY <2>1 DEF TypeOK, At, Idle
  <2> QED
    BY <1>1, <1>5, <2>2 DEF RecordResolve
<1>6. ASSUME NEW p \in Caller, UNCHANGED <<ledger, used>>,
             call' = [call EXCEPT ![p] = None]
      PROVE  RowIds'
  BY <1>1, <1>6 DEF TypeOK, At, Idle
<1>7. ASSUME NEW p \in Caller, NEW c, c.step # "link",
             UNCHANGED <<ledger, used>>, call' = [call EXCEPT ![p] = c]
      PROVE  RowIds'
  BY <1>1, <1>7 DEF TypeOK, At, Idle
<1>8. CASE Restart
  BY <1>1, <1>8 DEF Restart, At, Idle
<1>9. ASSUME NEW e \in Entry, RemoveManualEntry(e) PROVE RowIds'
  BY <1>1, <1>9 DEF RemoveManualEntry, TypeOK
<1>10. CASE Chart \/ UNCHANGED ledgerVars
  BY <1>1, <1>10 DEF Chart, CreateAccount, RemoveAccount, ledgerVars
<1>11. ASSUME NEW p \in Caller, Post(p) PROVE RowIds'
  BY <1>2, <1>5, <1>6, <1>11
     DEF Post, RecordNoAccount, RecordFails, GiveUp, RecordDuplicate, Return
<1>12. ASSUME NEW p \in Caller, ManualEntry(p) PROVE RowIds'
  <2>1. ASSUME NEW a \in Account, ManualFind(p, a) PROVE RowIds'
    BY <1>7, <2>1 DEF ManualFind, Begin
  <2> QED
    BY <1>3, <1>4, <1>6, <1>12, <2>1 DEF ManualEntry, ManualRejected, ManualLinkFails, Return
<1>13. ASSUME NEW p \in Caller, ChangeAccount(p) PROVE RowIds'
  <2>1. ASSUME NEW a \in Account, UpdateFind(p, a) PROVE RowIds'
    BY <1>7, <2>1 DEF UpdateFind, Begin
  <2> QED
    BY <1>6, <1>13, <2>1 DEF ChangeAccount, UpdateSave, UpdateRejected, Return
<1>14. ASSUME NEW p \in Caller, NEW s \in Source, NEW c \in Code, RecordLookup(p, s, c)
       PROVE  RowIds'
  BY <1>7, <1>14 DEF RecordLookup, Begin
<1> QED
  BY <1>8, <1>9, <1>10, <1>11, <1>12, <1>13, <1>14 DEF Next

\* Each step of the ledger posts one row for a document, or none at all.
LEMMA BookStep ==
  ASSUME TypeOK, RowIds, [Next]_ledgerVars
  PROVE  [Book!Next]_[s \in Source |-> Posted(s)]
<1> USE LedgerAssumption
<1> DEFINE book == [s \in Source |-> Posted(s)]
<1>1. ASSUME \A s \in Source : Posted(s)' = Posted(s)
      PROVE  book' = book
  BY <1>1
<1>2. CASE UNCHANGED ledger
  BY <1>1, <1>2 DEF Posted, Rows
<1>3. ASSUME NEW p \in Caller, NEW e \in Entry, RecordInsert(p, e)
      PROVE  Book!Next
  <2>1. PICK s \in Source : s = call[p].source
    BY <1>3, CallShapes DEF RecordInsert, Inserting
  <2> DEFINE row == [type |-> "DOC", source |-> s, account |-> call[p].account]
  <2>2. row \in LedgerRow /\ row.type = "DOC" /\ row.source = s
    BY <1>3, <2>1, CallShapes DEF RecordInsert, Inserting, LedgerRow
  <2>3. /\ ledger' = [ledger EXCEPT ![e] = row] /\ Posted(s) = {} /\ ledger[e] = None
    BY <1>3, <2>1 DEF RecordInsert, Admits, RowIds, Rows
  <2> HIDE DEF row
  <2>4. \A t \in Source : Posted(t)' = IF t = s THEN {e} ELSE Posted(t)
    BY <2>2, <2>3 DEF Posted, Rows, TypeOK
  <2>5. Book!Post(s, e)
    BY <2>3, <2>4 DEF Book!Post
  <2> QED
    BY <2>5 DEF Book!Next
\* The other steps that write rows touch manual entries only.
<1>4. ASSUME NEW e \in Entry, ledger[e] # None => ledger[e].type = "MANUAL",
             NEW row, row # None => row.type = "MANUAL",
             ledger' = [ledger EXCEPT ![e] = row]
      PROVE  book' = book
  <2>1. \A s \in Source : Posted(s)' = Posted(s)
    BY <1>4 DEF Posted, Rows, TypeOK
  <2> QED
    BY <1>1, <2>1
<1>5. ASSUME NEW p \in Caller, NEW e \in Entry, ManualInsert(p, e) PROVE book' = book
  <2>1. ledger[e] = None
    BY <1>5 DEF ManualInsert, RowIds, Rows
  <2> QED
    BY <1>4, <1>5, <2>1 DEF ManualInsert
<1>6. ASSUME NEW p \in Caller, ManualLink(p) PROVE book' = book
  <2>1. PICK e \in Entry : e = call[p].entry
    BY <1>6, CallShapes DEF ManualLink, Linking
  <2>2. ledger[e] # None => ledger[e].type = "MANUAL"
    BY <1>6, <2>1 DEF ManualLink, RowIds, Rows
  <2> QED
    BY <1>4, <1>6, <2>1, <2>2 DEF ManualLink
<1>7. ASSUME NEW e \in Entry, RemoveManualEntry(e) PROVE book' = book
  BY <1>4, <1>7 DEF RemoveManualEntry
<1> DEFINE Goal == [Book!Next]_book
<1>8. ASSUME book' = book PROVE Goal
  BY <1>8
<1>9. ASSUME NEW p \in Caller, Post(p) PROVE Goal
  BY <1>2, <1>3, <1>9 DEF Post, RecordResolve, RecordNoAccount, GiveUp, RecordDuplicate,
     RecordFails
<1>10. ASSUME NEW p \in Caller, ManualEntry(p) PROVE Goal
  BY <1>2, <1>5, <1>6, <1>10 DEF ManualEntry, ManualFind, ManualRejected, ManualLinkFails
<1>11. ASSUME NEW p \in Caller, ChangeAccount(p) PROVE Goal
  BY <1>2, <1>11 DEF ChangeAccount, UpdateFind, UpdateSave, UpdateRejected
<1>12. ASSUME NEW p \in Caller, NEW s \in Source, NEW c \in Code, RecordLookup(p, s, c)
       PROVE  Goal
  BY <1>2, <1>12 DEF RecordLookup
<1>13. ASSUME Chart \/ Restart \/ UNCHANGED ledgerVars PROVE Goal
  BY <1>2, <1>13 DEF Chart, RemoveAccount, CreateAccount, Restart, ledgerVars
<1>14. ASSUME NEW e \in Entry, RemoveManualEntry(e) PROVE Goal
  BY <1>7, <1>14
<1> HIDE DEF Goal
<1>15. Goal
  BY <1>9, <1>10, <1>11, <1>12, <1>13, <1>14 DEF Next
<1> QED
  BY <1>15 DEF Goal

\* However record() calls race, and whatever happens to accounts and manual
\* entries, a document posts at most one row and keeps it.
THEOREM OneRowPerDocument == Spec => PostsOnce
<1> DEFINE Inv == TypeOK /\ RowIds
<1>1. Init => Inv
  BY DEF Init, TypeOK, RowIds, Rows, At, Idle
<1>2. Inv /\ [Next]_ledgerVars => Inv'
  BY TypeStep, RowIdsStep
<1>3. Init => Book!Init
  BY DEF Init, Book!Init, Posted, Rows
<1>4. Inv /\ [Next]_ledgerVars => [Book!Next]_[s \in Source |-> Posted(s)]
  BY BookStep
<1> HIDE DEF Inv
<1> QED
  BY <1>1, <1>2, <1>3, <1>4, PTL DEF Spec, PostsOnce, Book!Spec

-----------------------------------------------------------------------------
(* No hook posting is dropped while every system account keeps its code.     *)

IsSystem(a) == accounts[a] # None /\ accounts[a].system

\* Account ids are generated once; a call that renames an account still
\* knows whether it is a system account.
AccountIds ==
  /\ \A a \in Account : accounts[a] # None => a \in used
  /\ \A p \in Caller : At(p, "rename") =>
       /\ call[p].account \in used
       /\ accounts[call[p].account] # None
            => accounts[call[p].account].system = call[p].row.system
       /\ call[p].row.system => IsSystem(call[p].account)

CodesUnique == \A a, b \in Account, c \in Code : HasCode(a, c) /\ HasCode(b, c) => a = b

\* Every hook code belongs to a system account.
HooksServed == \A c \in Hook : \E a \in Account : HasCode(a, c) /\ IsSystem(a)

\* A hook posting about to insert holds a system account.
HeldServed == \A p \in Caller : At(p, "insert") /\ call[p].code \in Hook
                                  => IsSystem(call[p].account)

HookInv == /\ AccountIds /\ CodesUnique
           /\ ~renamed => HooksServed /\ HeldServed
           /\ HookPostsArrive

\* Steps that leave the chart alone and neither load an account to rename nor
\* resolve one.
LEMMA HookQuiet ==
  ASSUME HookInv, UNCHANGED <<accounts, renamed>>, used \subseteq used',
         \A p \in Caller : At(p, "rename")' \/ At(p, "insert")' => call'[p] = call[p],
         HookPostsArrive'
  PROVE  HookInv'
<1>1. \A p \in Caller : /\ At(p, "rename")' => At(p, "rename") /\ call'[p] = call[p]
                        /\ At(p, "insert")' => At(p, "insert") /\ call'[p] = call[p]
  BY DEF At, Idle
<1>2. AccountIds'
  BY <1>1 DEF HookInv, AccountIds, IsSystem
<1>3. CodesUnique'
  BY DEF HookInv, CodesUnique, HasCode
<1>4. ~renamed' => HooksServed' /\ HeldServed'
  BY <1>1 DEF HookInv, HooksServed, HeldServed, HasCode, IsSystem
<1> QED
  BY <1>2, <1>3, <1>4 DEF HookInv

\* While no system account lost its code, giving up concerns no hook code.
LEMMA GiveUpOther ==
  ASSUME TypeOK, HookInv, NEW p \in Caller, RecordNoAccount(p) \/ RecordFails(p)
  PROVE  HookPostsArrive'
<1> USE LedgerAssumption
<1>1. /\ dropped' = dropped \cup {<<call[p].source, call[p].code>>} /\ renamed' = renamed
      /\ At(p, "resolve") \/ At(p, "insert")
  BY DEF RecordNoAccount, RecordFails, GiveUp
<1>2. call[p].code \in Hook => renamed
  <2>1. CASE RecordNoAccount(p)
    BY <2>1 DEF RecordNoAccount, HookInv, HooksServed, Taken
  <2>2. CASE RecordFails(p)
    BY <2>2 DEF RecordFails, HookInv, HeldServed, IsSystem
  <2> QED
    BY <2>1, <2>2
<1> QED
  BY <1>1, <1>2 DEF HookInv, HookPostsArrive

\* Every step keeps the invariant that follows the system accounts.
LEMMA HookStep ==
  ASSUME TypeOK, HookInv, [Next]_ledgerVars
  PROVE  HookInv'
<1> USE LedgerAssumption
<1>1. ASSUME NEW p \in Caller, UNCHANGED <<accounts, renamed, dropped>>, used \subseteq used',
             call' = [call EXCEPT ![p] = None]
      PROVE  HookInv'
  BY <1>1, HookQuiet DEF TypeOK, At, Idle, HookInv, HookPostsArrive
<1>2. ASSUME NEW p \in Caller, NEW c, c.step \notin {"rename", "insert"},
             UNCHANGED <<accounts, renamed, dropped>>, used \subseteq used',
             call' = [call EXCEPT ![p] = c]
      PROVE  HookInv'
  BY <1>2, HookQuiet DEF TypeOK, At, Idle, HookInv, HookPostsArrive
<1>3. ASSUME NEW p \in Caller, NEW s \in Source, NEW c \in Code, RecordLookup(p, s, c)
      PROVE  HookInv'
  BY <1>2, <1>3 DEF RecordLookup, Begin
<1>4. ASSUME NEW p \in Caller, RecordResolve(p) PROVE HookInv'
  <2>1. PICK a \in Account :
          /\ HasCode(a, call[p].code)
          /\ call' = [call EXCEPT ![p] = [step |-> "insert", source |-> call[p].source,
                                          code |-> call[p].code, account |-> a]]
    BY <1>4 DEF RecordResolve
  <2>2. /\ call'[p].step = "insert" /\ call'[p].account = a /\ call'[p].code = call[p].code
        /\ \A q \in Caller : q # p => call'[q] = call[q]
        /\ UNCHANGED <<accounts, renamed, dropped, used>>
    BY <1>4, <2>1 DEF RecordResolve, TypeOK
  <2>3. ~renamed /\ call[p].code \in Hook => IsSystem(a)
    BY <2>1 DEF HookInv, HooksServed, CodesUnique
  <2>4. AccountIds'
    BY <2>2 DEF HookInv, AccountIds, IsSystem, At, Idle
  <2>5. CodesUnique' /\ HookPostsArrive'
    BY <2>2 DEF HookInv, CodesUnique, HasCode, HookPostsArrive
  <2>6. ~renamed' => HooksServed' /\ HeldServed'
    BY <2>2, <2>3 DEF HookInv, HooksServed, HeldServed, HasCode, IsSystem, At, Idle
  <2> QED
    BY <2>4, <2>5, <2>6 DEF HookInv
<1>5. ASSUME NEW p \in Caller, RecordNoAccount(p) \/ RecordFails(p) PROVE HookInv'
  <2>1. call' = [call EXCEPT ![p] = None] /\ UNCHANGED <<accounts, renamed, used>>
    BY <1>5 DEF RecordNoAccount, RecordFails, GiveUp, Return
  <2> QED
    BY <1>5, <2>1, HookQuiet, GiveUpOther DEF TypeOK, At, Idle
<1>6. ASSUME NEW p \in Caller, Post(p) PROVE HookInv'
  BY <1>1, <1>4, <1>5, <1>6 DEF Post, RecordDuplicate, RecordInsert, Return
<1>7. ASSUME NEW p \in Caller, ManualEntry(p) PROVE HookInv'
  <2>1. ASSUME NEW a \in Account, ManualFind(p, a) PROVE HookInv'
    BY <1>2, <2>1 DEF ManualFind, Begin
  <2>2. ASSUME NEW e \in Entry, ManualInsert(p, e) PROVE HookInv'
    BY <1>2, <2>2 DEF ManualInsert
  <2> QED
    BY <1>1, <1>7, <2>1, <2>2 DEF ManualEntry, ManualRejected, ManualLink, ManualLinkFails,
       Return
<1>8. ASSUME NEW e \in Entry, RemoveManualEntry(e) PROVE HookInv'
  BY <1>8, HookQuiet DEF RemoveManualEntry, HookInv, HookPostsArrive
<1>9. ASSUME NEW p \in Caller, NEW a \in Account, UpdateFind(p, a) PROVE HookInv'
  <2> DEFINE c == [step |-> "rename", account |-> a, row |-> accounts[a]]
  <2>1. /\ call' = [call EXCEPT ![p] = c] /\ accounts[a] # None
        /\ UNCHANGED <<accounts, renamed, dropped, used>>
    BY <1>9 DEF UpdateFind, Begin
  <2>2. c.step = "rename" /\ c.account = a /\ c.row = accounts[a]
    OBVIOUS
  <2> HIDE DEF c
  <2>3. AccountIds'
    BY <2>1, <2>2 DEF HookInv, AccountIds, IsSystem, At, Idle, TypeOK
  <2>4. CodesUnique' /\ HookPostsArrive'
    BY <2>1 DEF HookInv, CodesUnique, HasCode, HookPostsArrive
  <2>5. ~renamed' => HooksServed' /\ HeldServed'
    BY <2>1, <2>2 DEF HookInv, HooksServed, HeldServed, HasCode, IsSystem, At, Idle, TypeOK
  <2> QED
    BY <2>3, <2>4, <2>5 DEF HookInv
<1>10. ASSUME NEW p \in Caller, NEW c \in Code, UpdateSave(p, c) PROVE HookInv'
  <2> DEFINE row == [code |-> c, system |-> call[p].row.system]
  <2>1. PICK a \in Account : a = call[p].account
    BY <1>10, CallShapes DEF UpdateSave, Renaming
  <2>2. /\ At(p, "rename") /\ FreeFor(a, c)
        /\ accounts' = [accounts EXCEPT ![a] = row]
        /\ renamed' = (renamed \/ (accounts[a] # None /\ accounts[a].system
                                     /\ accounts[a].code # c))
        /\ call' = [call EXCEPT ![p] = None]
        /\ UNCHANGED <<used, dropped>>
    BY <1>10, <2>1 DEF UpdateSave, Return
  <2>3. row # None /\ row.code = c /\ row.system = call[p].row.system
    <3>1. row \in AccountRow
      BY <1>10, CallShapes DEF UpdateSave, Renaming, AccountRow
    <3> QED
      BY <3>1
  <2>4. \A b \in Account : accounts'[b] = IF b = a THEN row ELSE accounts[b]
    BY <2>2 DEF TypeOK
  <2>5. \A q \in Caller : /\ At(q, "rename")' => At(q, "rename") /\ call'[q] = call[q]
                          /\ At(q, "insert")' => At(q, "insert") /\ call'[q] = call[q]
    BY <2>2 DEF TypeOK, At, Idle
  <2>6. /\ a \in used
        /\ accounts[a] # None => accounts[a].system = row.system
        /\ row.system => IsSystem(a)
    BY <2>1, <2>2, <2>3 DEF HookInv, AccountIds
  <2> HIDE DEF row
  <2>7. \A b \in Account : IsSystem(b)' <=> IsSystem(b)
    BY <2>3, <2>4, <2>6 DEF IsSystem
  <2>8. AccountIds'
    <3>1. \A q \in Caller : At(q, "rename") => call[q].account \in Account
      BY CallShapes DEF Renaming
    <3>2. ASSUME NEW q \in Caller, At(q, "rename")', accounts'[call[q].account] # None
          PROVE  accounts'[call[q].account].system = call[q].row.system
      <4>1. At(q, "rename") /\ call[q].account \in Account
        BY <2>5, <3>1, <3>2
      <4>2. CASE call[q].account # a
        BY <2>4, <3>2, <4>1, <4>2 DEF HookInv, AccountIds
      <4>3. CASE call[q].account = a /\ accounts[a] # None
        BY <2>3, <2>4, <2>6, <4>1, <4>3 DEF HookInv, AccountIds
      <4>4. CASE call[q].account = a /\ accounts[a] = None
        <5>1. ~call[q].row.system /\ ~row.system
          BY <2>6, <4>1, <4>4 DEF HookInv, AccountIds, IsSystem
        <5>2. call[q].row.system \in BOOLEAN /\ row.system \in BOOLEAN
          BY <2>2, <2>3, <4>1, CallShapes DEF Renaming, AccountRow
        <5> QED
          BY <2>4, <4>4, <5>1, <5>2
      <4> QED
        BY <4>1, <4>2, <4>3, <4>4
    <3> QED
      BY <2>2, <2>4, <2>5, <2>6, <2>7, <3>1, <3>2 DEF HookInv, AccountIds
  <2>9. CodesUnique'
    BY <2>2, <2>3, <2>4 DEF HookInv, CodesUnique, HasCode, FreeFor
  <2>10. ASSUME ~renamed' PROVE HooksServed' /\ HeldServed'
    <3>1. \A b \in Account, d \in Code : HasCode(b, d) /\ IsSystem(b) => HasCode(b, d)'
      BY <2>2, <2>3, <2>4, <2>10 DEF HasCode, IsSystem
    <3>2. ~renamed /\ HooksServed /\ HeldServed
      BY <2>2, <2>10 DEF HookInv
    <3>3. HooksServed'
      BY <2>7, <3>1, <3>2, LedgerAssumption DEF HooksServed
    <3>4. \A q \in Caller : At(q, "insert") => call[q].account \in Account
      BY CallShapes DEF Inserting
    <3> QED
      BY <2>5, <2>7, <3>2, <3>3, <3>4 DEF HeldServed
  <2>11. HookPostsArrive'
    BY <2>2 DEF HookInv, HookPostsArrive
  <2> QED
    BY <2>8, <2>9, <2>10, <2>11 DEF HookInv
<1>11. ASSUME NEW p \in Caller, ChangeAccount(p) PROVE HookInv'
  BY <1>1, <1>9, <1>10, <1>11 DEF ChangeAccount, UpdateRejected, Return
\* The chart only grows, except for accounts that are not system accounts.
<1>12. ASSUME used \subseteq used', UNCHANGED <<renamed, dropped>>,
              \A a \in Account : /\ accounts'[a] # None => a \in used'
                                 /\ IsSystem(a) => accounts'[a] = accounts[a]
                                 /\ a \in used => accounts'[a] \in {accounts[a], None},
              \A p \in Caller : call'[p] \in {call[p], None},
              CodesUnique'
       PROVE  HookInv'
  <2>1. \A p \in Caller : /\ At(p, "rename")' => At(p, "rename") /\ call'[p] = call[p]
                          /\ At(p, "insert")' => At(p, "insert") /\ call'[p] = call[p]
    BY <1>12 DEF At, Idle
  <2>2. \A p \in Caller : /\ At(p, "rename") => call[p].account \in Account
                          /\ At(p, "insert") => call[p].account \in Account
    BY CallShapes DEF Renaming, Inserting
  <2>3. \A a \in Account : IsSystem(a) => IsSystem(a)'
    BY <1>12 DEF IsSystem
  <2>4. AccountIds'
    BY <1>12, <2>1, <2>2, <2>3 DEF HookInv, AccountIds
  <2>5. ~renamed' => HooksServed' /\ HeldServed'
    BY <1>12, <2>1, <2>2, <2>3 DEF HookInv, HooksServed, HeldServed, HasCode
  <2> QED
    BY <1>12, <2>4, <2>5 DEF HookInv, HookPostsArrive
<1>13. ASSUME NEW a \in Account, RemoveAccount(a) PROVE HookInv'
  <2>1. CodesUnique'
    BY <1>13 DEF RemoveAccount, HookInv, CodesUnique, HasCode, TypeOK
  <2> QED
    BY <1>12, <1>13, <2>1 DEF RemoveAccount, IsSystem, HookInv, AccountIds, TypeOK
<1>14. ASSUME NEW a \in Account, NEW c \in Code, CreateAccount(a, c) PROVE HookInv'
  <2> DEFINE row == [code |-> c, system |-> FALSE]
  <2>1. accounts[a] = None /\ accounts' = [accounts EXCEPT ![a] = row] /\ row.code = c
    BY <1>14 DEF CreateAccount, HookInv, AccountIds
  <2> HIDE DEF row
  <2>2. CodesUnique'
    BY <1>14, <2>1 DEF CreateAccount, Taken, HookInv, CodesUnique, HasCode, TypeOK
  <2> QED
    BY <1>12, <1>14, <2>1, <2>2 DEF CreateAccount, IsSystem, HookInv, AccountIds, TypeOK
<1>15. CASE Restart
  <2>1. Seeded(accounts, accounts')
    BY <1>15 DEF Restart
  <2>2. CodesUnique'
    BY <2>1 DEF Seeded, HookInv, CodesUnique, HasCode
  <2>3. \A a \in Account : IsSystem(a) => accounts'[a] = accounts[a]
    BY <2>1 DEF Seeded, IsSystem
  <2>4. \A a \in Account : a \in used => accounts'[a] \in {accounts[a], None}
    BY <1>15, <2>1 DEF Restart, Seeded
  <2>5. \A a \in Account : accounts'[a] # None => a \in used'
    BY <1>15 DEF Restart
  <2> QED
    BY <1>12, <1>15, <2>2, <2>3, <2>4, <2>5 DEF Restart
<1>16. CASE UNCHANGED ledgerVars
  BY <1>16, HookQuiet DEF ledgerVars, HookInv, HookPostsArrive
<1> QED
  BY <1>3, <1>6, <1>7, <1>8, <1>11, <1>13, <1>14, <1>15, <1>16 DEF Next, Chart

\* record() gives up on a hook's posting only after someone took a system
\* account's code away: no overlap of calls, deletions and restarts does it.
THEOREM NoHookPostDropped == Spec => []HookPostsArrive
<1>1. Init => TypeOK /\ HookInv
  <2> SUFFICES ASSUME Init PROVE TypeOK /\ HookInv
    OBVIOUS
  <2>1. TypeOK /\ HookPostsArrive /\ \A p \in Caller : call[p] = None
    BY DEF Init, TypeOK, HookPostsArrive
  <2>2. AccountIds /\ HeldServed
    BY <2>1 DEF Init, AccountIds, HeldServed, At, Idle
  <2>3. Seeded([a \in Account |-> None], accounts)
    BY DEF Init
  <2>4. CodesUnique /\ HooksServed
    BY <2>3 DEF Seeded, CodesUnique, HooksServed, HasCode, IsSystem
  <2> QED
    BY <2>1, <2>2, <2>4 DEF HookInv
<1>2. TypeOK /\ HookInv /\ [Next]_ledgerVars => TypeOK' /\ HookInv'
  BY TypeStep, HookStep
<1>3. HookInv => HookPostsArrive
  BY DEF HookInv
<1> QED
  BY <1>1, <1>2, <1>3, PTL DEF Spec

-----------------------------------------------------------------------------
(* A manual entry without its own id has the call that will give it one.      *)
(* The second save cannot be refused for a missing account while the entry is *)
(* there, because an account that a row refers to is not deleted.             *)

Awaits(e, p) == /\ At(p, "link") /\ call[p].entry = e
                /\ call[p].account = ledger[e].account

WriterInv == /\ \A e \in Rows : accounts[ledger[e].account] # None
             /\ ~crashed => \A e \in HalfWritten : \E p \in Caller : Awaits(e, p)

\* Rows go or stay, accounts in use stay, and calls about to link stay.
LEMMA WriterQuiet ==
  ASSUME TypeOK, WriterInv, crashed => crashed',
         \A e \in Entry : ledger'[e] = ledger[e] \/ ledger'[e] = None,
         \A e \in Rows : accounts'[ledger[e].account] # None,
         crashed' \/ \A p \in Caller : At(p, "link") => call'[p] = call[p]
  PROVE  WriterInv'
<1>1. \A e \in Entry : ledger'[e] # None => ledger'[e] = ledger[e]
  OBVIOUS
<1>2. \A e \in Rows' : accounts'[ledger'[e].account] # None
  BY <1>1 DEF Rows
<1>3. ASSUME ~crashed', NEW e \in HalfWritten'
      PROVE  \E p \in Caller : Awaits(e, p)'
  <2>1. e \in HalfWritten /\ ledger'[e] = ledger[e]
    BY <1>1, <1>3 DEF HalfWritten, Rows
  <2>2. PICK p \in Caller : Awaits(e, p)
    BY <1>3, <2>1 DEF WriterInv
  <2> QED
    BY <1>3, <2>1, <2>2 DEF Awaits, At, Idle
<1> QED
  BY <1>2, <1>3 DEF WriterInv

LEMMA WriterStep ==
  ASSUME TypeOK, WriterInv, [Next]_ledgerVars
  PROVE  WriterInv'
<1> USE LedgerAssumption
<1>1. ASSUME NEW p \in Caller, ~At(p, "link"), UNCHANGED <<accounts, ledger, crashed>>,
             NEW c, call' = [call EXCEPT ![p] = c]
      PROVE  WriterInv'
  <2>1. \A q \in Caller : At(q, "link") => call'[q] = call[q]
    BY <1>1 DEF TypeOK
  <2> QED
    BY <1>1, <2>1, WriterQuiet DEF WriterInv
<1>2. ASSUME NEW p \in Caller, NEW e \in Entry, RecordInsert(p, e)
      PROVE  WriterInv'
  <2> DEFINE row == [type |-> "DOC", source |-> call[p].source, account |-> call[p].account]
  <2>1. /\ \A d \in Entry : ledger'[d] = IF d = e THEN row ELSE ledger[d]
        /\ accounts' = accounts /\ accounts[call[p].account] # None /\ crashed' = crashed
        /\ \A q \in Caller : At(q, "link") => call'[q] = call[q]
    BY <1>2 DEF RecordInsert, Return, At, TypeOK
  <2>2. row.type = "DOC" /\ row.account = call[p].account
    OBVIOUS
  <2> HIDE DEF row
  <2>3. \A d \in HalfWritten' : d \in HalfWritten /\ ledger'[d] = ledger[d]
    BY <2>1, <2>2 DEF HalfWritten, Rows
  <2>4. \A d \in Rows' : accounts'[ledger'[d].account] # None
    BY <2>1, <2>2 DEF Rows, WriterInv
  <2>5. \A d \in Entry, q \in Caller : ledger'[d] = ledger[d] /\ Awaits(d, q) => Awaits(d, q)'
    BY <2>1 DEF Awaits, At, Idle
  <2> QED
    BY <2>1, <2>3, <2>4, <2>5 DEF WriterInv, HalfWritten, Rows
<1>3. ASSUME NEW p \in Caller, NEW e \in Entry, ManualInsert(p, e)
      PROVE  WriterInv'
  <2> DEFINE row == [type |-> "MANUAL", source |-> Blank, account |-> call[p].account]
             next == [step |-> "link", account |-> call[p].account, entry |-> e]
  <2>1. /\ \A d \in Entry : ledger'[d] = IF d = e THEN row ELSE ledger[d]
        /\ \A q \in Caller : call'[q] = IF q = p THEN next ELSE call[q]
        /\ accounts' = accounts /\ accounts[call[p].account] # None /\ HalfWritten = {}
    BY <1>3 DEF ManualInsert, TypeOK
  <2>2. /\ row.account = call[p].account
        /\ next.step = "link" /\ next.entry = e /\ next.account = call[p].account
        /\ next \in Linking
    BY <1>3, CallShapes DEF ManualInsert, Manual, Linking
  <2> HIDE DEF row, next
  <2>3. \A d \in HalfWritten' : d = e
    BY <2>1 DEF HalfWritten, Rows
  <2>4. \A d \in Rows' : accounts'[ledger'[d].account] # None
    BY <2>1, <2>2 DEF Rows, WriterInv
  <2>5. Awaits(e, p)'
    BY <2>1, <2>2 DEF Awaits, At, Idle, Call
  <2> QED
    BY <2>3, <2>4, <2>5 DEF WriterInv
<1>4. ASSUME NEW p \in Caller, ManualLink(p)
      PROVE  WriterInv'
  <2> DEFINE e == call[p].entry
             row == [type |-> "MANUAL", source |-> e, account |-> call[p].account]
  <2>1. /\ e \in Entry /\ accounts' = accounts /\ accounts[call[p].account] # None
        /\ \A d \in Entry : ledger'[d] = IF d = e THEN row ELSE ledger[d]
        /\ \A q \in Caller : q # p => call'[q] = call[q]
        /\ crashed' = crashed
    BY <1>4, CallShapes DEF ManualLink, Return, Linking, TypeOK
  <2>2. row.source = e /\ row.account = call[p].account
    OBVIOUS
  <2>3. ASSUME NEW d \in HalfWritten'
        PROVE  d \in HalfWritten /\ d # e /\ ledger'[d] = ledger[d]
    <3> HIDE DEF row
    <3> QED
      BY <2>1, <2>2, <2>3 DEF HalfWritten, Rows
  <2> HIDE DEF row
  <2>4. \A d \in Rows' : accounts'[ledger'[d].account] # None
    BY <2>1, <2>2 DEF Rows, WriterInv
  <2>5. \A d \in Entry, q \in Caller : d # e /\ Awaits(d, q) => Awaits(d, q)'
    BY <2>1 DEF Awaits, At, Idle
  <2> QED
    BY <2>1, <2>3, <2>4, <2>5 DEF WriterInv, HalfWritten, Rows
<1>5. ASSUME NEW p \in Caller, ManualLinkFails(p)
      PROVE  WriterInv'
  <2>1. /\ UNCHANGED <<accounts, ledger, crashed>> /\ accounts[call[p].account] = None
        /\ \A q \in Caller : q # p => call'[q] = call[q]
    BY <1>5 DEF ManualLinkFails, Return, TypeOK
  <2>2. \A e \in HalfWritten : ~Awaits(e, p)
    BY <2>1 DEF Awaits, WriterInv, HalfWritten
  <2>3. \A e \in HalfWritten, q \in Caller : Awaits(e, q) => Awaits(e, q)'
    BY <2>1, <2>2 DEF Awaits, At, Idle
  <2> QED
    BY <2>1, <2>3 DEF WriterInv, HalfWritten, Rows
<1>6. ASSUME NEW p \in Caller, NEW c \in Code, UpdateSave(p, c)
      PROVE  WriterInv'
  <2> DEFINE row == [code |-> c, system |-> call[p].row.system]
  <2>1. row \in AccountRow /\ row # None
    BY <1>6, CallShapes DEF UpdateSave, Renaming, AccountRow
  <2>2. /\ UNCHANGED <<ledger, crashed>> /\ call[p].account \in Account
        /\ accounts' = [accounts EXCEPT ![call[p].account] = row]
        /\ \A q \in Caller : At(q, "link") => call'[q] = call[q]
    BY <1>6, CallShapes DEF UpdateSave, Return, At, TypeOK, Renaming
  <2> HIDE DEF row
  <2>3. \A a \in Account : accounts[a] # None => accounts'[a] # None
    BY <2>1, <2>2 DEF TypeOK
  <2>4. \A e \in Rows : ledger[e].account \in Account
    BY DEF Rows, TypeOK, LedgerRow
  <2> QED
    BY <2>2, <2>3, <2>4, WriterQuiet DEF WriterInv
<1>7. ASSUME NEW a \in Account, RemoveAccount(a) \/ \E c \in Code : CreateAccount(a, c)
      PROVE  WriterInv'
  <2>1. UNCHANGED <<ledger, call, crashed>>
    BY <1>7 DEF RemoveAccount, CreateAccount
  <2>2. \A e \in Rows : accounts'[ledger[e].account] # None
    <3>1. CASE RemoveAccount(a)
      BY <3>1 DEF RemoveAccount, InUse, WriterInv, TypeOK, Rows, LedgerRow
    <3>2. ASSUME NEW c \in Code, CreateAccount(a, c)
          PROVE  \A e \in Rows : accounts'[ledger[e].account] # None
      <4> DEFINE row == [code |-> c, system |-> FALSE]
      <4>1. row \in AccountRow
        BY DEF AccountRow
      <4>2. accounts' = [accounts EXCEPT ![a] = row]
        BY <3>2 DEF CreateAccount
      <4> HIDE DEF row
      <4>3. row # None
        BY <4>1
      <4> QED
        BY <4>2, <4>3 DEF WriterInv, TypeOK, Rows, LedgerRow
    <3> QED
      BY <1>7, <3>1, <3>2
  <2> QED
    BY <2>1, <2>2, WriterQuiet
<1>8. ASSUME NEW e \in Entry, RemoveManualEntry(e)
      PROVE  WriterInv'
  <2>1. /\ \A d \in Entry : ledger'[d] = ledger[d] \/ ledger'[d] = None
        /\ UNCHANGED <<accounts, call, crashed>>
    BY <1>8 DEF RemoveManualEntry, TypeOK
  <2> QED
    BY <2>1, WriterQuiet DEF WriterInv
<1>9. CASE Restart
  <2>1. \A e \in Rows : accounts'[ledger[e].account] # None
    BY <1>9 DEF Restart, Seeded, WriterInv, TypeOK, Rows, LedgerRow
  <2> QED
    BY <1>9, <2>1, WriterQuiet DEF Restart
<1>10. CASE UNCHANGED ledgerVars
  BY <1>10, WriterQuiet DEF ledgerVars, WriterInv
<1>11. ASSUME NEW p \in Caller, Post(p)
       PROVE  WriterInv'
  <2>1. CASE RecordResolve(p)
    <3>1. PICK a \in Account :
            call' = [call EXCEPT ![p] = [step |-> "insert", source |-> call[p].source,
                                         code |-> call[p].code, account |-> a]]
      BY <2>1 DEF RecordResolve
    <3> QED
      BY <1>1, <2>1, <3>1 DEF RecordResolve, At
  <2> QED
    BY <1>1, <1>2, <1>11, <2>1
       DEF Post, RecordNoAccount, RecordDuplicate, RecordFails, GiveUp, Return, At
<1>12. ASSUME NEW p \in Caller, ManualEntry(p)
       PROVE  WriterInv'
  BY <1>1, <1>3, <1>4, <1>5, <1>12
     DEF ManualEntry, ManualRejected, ManualFind, Begin, Return, At, Idle
<1>13. ASSUME NEW p \in Caller, ChangeAccount(p)
       PROVE  WriterInv'
  BY <1>1, <1>6, <1>13 DEF ChangeAccount, UpdateFind, UpdateRejected, Begin, Return, At, Idle
<1>14. ASSUME NEW p \in Caller, NEW s \in Source, NEW c \in Code, RecordLookup(p, s, c)
       PROVE  WriterInv'
  BY <1>1, <1>14 DEF RecordLookup, Begin, At, Idle
<1> QED
  BY <1>7, <1>8, <1>9, <1>10, <1>11, <1>12, <1>13, <1>14 DEF Next, Chart

\* A manual entry without its own id has a call about to store it, unless the
\* process has stopped.
THEOREM HalfWrittenIsTended == Spec => []HalfWrittenHasWriter
<1>1. Init => TypeOK /\ WriterInv
  BY DEF Init, TypeOK, WriterInv, Rows, HalfWritten
<1>2. TypeOK /\ WriterInv /\ [Next]_ledgerVars => TypeOK' /\ WriterInv'
  BY TypeStep, WriterStep
<1>3. WriterInv => HalfWrittenHasWriter
  BY DEF WriterInv, Awaits, HalfWrittenHasWriter
<1> QED
  BY <1>1, <1>2, <1>3, PTL DEF Spec
=============================================================================
