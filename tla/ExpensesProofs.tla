--------------------------- MODULE ExpensesProofs ---------------------------
(***************************************************************************)
(* Proofs about Expenses, for any documents, entries, accounts and slots.  *)
(* Posting is never awaited, so what matters is what can happen to a       *)
(* record() call between its steps.  The invariant follows each call, and  *)
(* the system accounts through every step that changes the chart; its part *)
(* on the chart is that of LedgerProofs, for the instance L.               *)
(***************************************************************************)
EXTENDS Expenses, TLAPS

\* Only an id that was generated names a row or has a document.
OnlySpent == \A e \in Expense : Stays(e) \/ origin[e] # None => e \in spent

\* An edit holds a manual entry, and its row, if still there, is manual too.
EditsManual == \A p \in Caller : At(p, "edit") =>
                 /\ work[p].row.doc = None /\ work[p].exp \in spent
                 /\ Stays(work[p].exp) => expenses[work[p].exp].doc = None

IsSystem(a) == accounts[a] # None /\ accounts[a].system

\* A call that renames an account knows whether it is a system account.
AccountIds ==
  /\ \A a \in Account : accounts[a] # None => a \in used
  /\ \A p \in Caller : L!At(p, "rename") =>
       LET a == call[p].account IN
         /\ a \in used
         /\ accounts[a] # None => accounts[a].system = call[p].row.system
         /\ call[p].row.system => IsSystem(a)

CodesUnique == \A a, b \in Account, c \in Code : L!HasCode(a, c) /\ L!HasCode(b, c) => a = b

\* Every code of the hooks belongs to a system account.
HooksServed == \A c \in Hook : \E a \in Account : L!HasCode(a, c) /\ IsSystem(a)

\* A hook's posting about to insert holds a system account.
HeldServed == \A p \in Caller : L!At(p, "insert") /\ call[p].code \in Hook
                                   => IsSystem(call[p].account)

Charted == AccountIds /\ CodesUnique /\ (~renamed => HooksServed /\ HeldServed)

\* Only purchases post under a code that is not the hooks' own.
OwnCode(e, c) == c \in Hook \/ origin[e] \in Document \ Keyed

Recording(p) == L!At(p, "resolve") \/ L!At(p, "insert")

CallsOwned == \A p \in Caller : Recording(p) =>
                /\ call[p].source \in spent
                /\ OwnCode(call[p].source, call[p].code)

DropsExcused == \A d \in dropped : /\ d[1] \in spent
                                   /\ OwnCode(d[1], d[2])
                                   /\ d[2] \in Hook => renamed

\* An entry is posted, on its way, or given up.
Kept(e) == \/ L!Posted(e) # {}
           \/ InFlight(e)
           \/ \E c \in Code : <<e, c>> \in dropped

Tracked == CallsOwned /\ DropsExcused /\ (~crashed => \A e \in spent : Kept(e))

\* Row ids are not generated twice.
RowsUsed == \A r \in Entry : ledger[r] # None => r \in used

IInv == /\ TypeOK /\ OnlySpent /\ EditsManual
        /\ RowsUsed /\ Charted /\ Tracked

LEMMA KeptMeansPosted == IInv => SavedMeansPosted
<1> SUFFICES ASSUME IInv, ~crashed, NEW e \in spent, L!Posted(e) = {}, ~InFlight(e)
             PROVE  Excused(e)
  BY DEF SavedMeansPosted
<1>1. PICK c \in Code : <<e, c>> \in dropped
  BY DEF IInv, Tracked, Kept
<1>2. OwnCode(e, c) /\ (c \in Hook => renamed)
  <2>1. DropsExcused
    BY DEF IInv, Tracked
  <2>2. /\ OwnCode(<<e, c>>[1], <<e, c>>[2])
        /\ <<e, c>>[2] \in Hook => renamed
    BY ONLY <1>1, <2>1 DEF DropsExcused
  <2> QED
    BY ONLY <2>2
<1> QED
  BY ONLY <1>1, <1>2 DEF Excused, OwnCode

-----------------------------------------------------------------------------
LEMMA NoNone == /\ \A r \in ExpenseRow \cup HookWork \cup EditWork : r # None
                /\ \A r \in L!AccountRow \cup L!LedgerRow \cup L!Call : r # None
                /\ \A d \in Document : d # None
BY ExpensesAssumption

\* What a busy slot does here.
LEMMA Doing ==
  ASSUME TypeOK, NEW p \in Caller
  PROVE  /\ At(p, "edit") => /\ work[p] \in EditWork /\ work[p].exp \in Expense
                             /\ work[p].row \in ExpenseRow
         /\ At(p, "check") \/ At(p, "save") => /\ work[p] \in HookWork
                                               /\ work[p].doc \in Document
                                               /\ work[p].amount \in Amount
BY DEF TypeOK, At, EditWork, HookWork

\* A call at a given step carries what that step needs.
LEMMA Calling ==
  ASSUME L!TypeOK, NEW p \in Caller
  PROVE  /\ L!At(p, "resolve") => call[p] \in L!Resolving
         /\ L!At(p, "insert") => call[p] \in L!Inserting
         /\ L!At(p, "rename") => call[p] \in L!Renaming
         /\ Recording(p) => call[p].source \in Expense /\ call[p].code \in Code
BY DEF L!TypeOK, L!Call, L!At, L!Idle, Recording,
       L!Resolving, L!Inserting, L!Manual, L!Linking, L!Renaming

-----------------------------------------------------------------------------
(* The chart: a system account keeps its code until one is renamed.          *)

\* Steps that leave the chart alone and neither load an account to rename nor
\* resolve one.
LEMMA ChartQuiet ==
  ASSUME Charted, UNCHANGED <<accounts, renamed>>, used \subseteq used',
         \A p \in Caller : L!At(p, "rename")' \/ L!At(p, "insert")' => call'[p] = call[p]
  PROVE  Charted'
<1>1. \A p \in Caller : /\ L!At(p, "rename")' => L!At(p, "rename") /\ call'[p] = call[p]
                        /\ L!At(p, "insert")' => L!At(p, "insert") /\ call'[p] = call[p]
  BY DEF L!At, L!Idle
<1>2. AccountIds'
  BY <1>1 DEF Charted, AccountIds, IsSystem
<1>3. CodesUnique'
  BY DEF Charted, CodesUnique, L!HasCode
<1>4. ~renamed' => HooksServed' /\ HeldServed'
  BY <1>1 DEF Charted, HooksServed, HeldServed, L!HasCode, IsSystem
<1> QED
  BY <1>2, <1>3, <1>4 DEF Charted

\* The chart only grows, except for accounts that are not system accounts.
LEMMA ChartGrows ==
  ASSUME L!TypeOK, Charted, used \subseteq used', UNCHANGED renamed,
         \A a \in Account : /\ accounts'[a] # None => a \in used'
                            /\ IsSystem(a) => accounts'[a] = accounts[a]
                            /\ a \in used => accounts'[a] \in {accounts[a], None},
         \A p \in Caller : call'[p] \in {call[p], None},
         CodesUnique'
  PROVE  Charted'
<1>1. \A p \in Caller : /\ L!At(p, "rename")' => L!At(p, "rename") /\ call'[p] = call[p]
                        /\ L!At(p, "insert")' => L!At(p, "insert") /\ call'[p] = call[p]
  BY DEF L!At, L!Idle
<1>2. \A p \in Caller : L!At(p, "rename") \/ L!At(p, "insert") => call[p].account \in Account
  BY Calling DEF L!Renaming, L!Inserting
<1>3. \A a \in Account : IsSystem(a) => IsSystem(a)'
  BY DEF IsSystem
<1>4. AccountIds'
  BY <1>1, <1>2, <1>3 DEF Charted, AccountIds
<1>5. ~renamed' => HooksServed' /\ HeldServed'
  BY <1>1, <1>2, <1>3 DEF Charted, HooksServed, HeldServed, L!HasCode
<1> QED
  BY <1>4, <1>5 DEF Charted

\* Accounts are added and removed.
LEMMA ChartStep ==
  ASSUME L!TypeOK, Charted, L!Chart
  PROVE  /\ L!TypeOK' /\ Charted'
         /\ UNCHANGED <<ledger, call, renamed, dropped, crashed>> /\ used \subseteq used'
<1>1. ASSUME NEW a \in Account, L!RemoveAccount(a)
      PROVE  /\ L!TypeOK' /\ Charted'
             /\ UNCHANGED <<ledger, call, renamed, dropped, crashed>> /\ used \subseteq used'
  <2>1. CodesUnique'
    BY <1>1 DEF L!RemoveAccount, Charted, CodesUnique, L!HasCode, L!TypeOK
  <2>2. Charted'
    BY <1>1, <2>1, ChartGrows DEF L!RemoveAccount, IsSystem, Charted, AccountIds, L!TypeOK
  <2> QED
    BY <1>1, <2>2 DEF L!RemoveAccount, L!TypeOK
<1>2. ASSUME NEW a \in Account, NEW c \in Code, L!CreateAccount(a, c)
      PROVE  /\ L!TypeOK' /\ Charted'
             /\ UNCHANGED <<ledger, call, renamed, dropped, crashed>> /\ used \subseteq used'
  <2> DEFINE row == [code |-> c, system |-> FALSE]
  <2>1. /\ accounts[a] = None /\ accounts' = [accounts EXCEPT ![a] = row] /\ row.code = c
        /\ row \in L!AccountRow
    BY <1>2 DEF L!CreateAccount, Charted, AccountIds, L!AccountRow
  <2> HIDE DEF row
  <2>2. CodesUnique'
    BY <1>2, <2>1 DEF L!CreateAccount, L!Taken, Charted, CodesUnique, L!HasCode, L!TypeOK
  <2>3. Charted'
    BY <1>2, <2>1, <2>2, ChartGrows DEF L!CreateAccount, IsSystem, Charted, AccountIds, L!TypeOK
  <2> QED
    BY <1>2, <2>1, <2>3 DEF L!CreateAccount, L!TypeOK
<1> QED
  BY <1>1, <1>2 DEF L!Chart

\* An account is saved under another code; only a system account's is recorded.
LEMMA RenameStep ==
  ASSUME L!TypeOK, Charted, NEW p \in Caller, NEW c \in Code, L!UpdateSave(p, c)
  PROVE  L!TypeOK' /\ Charted'
<1> DEFINE row == [code |-> c, system |-> call[p].row.system]
<1>1. PICK a \in Account : a = call[p].account
  BY Calling DEF L!UpdateSave, L!Renaming
<1>2. /\ L!At(p, "rename") /\ L!FreeFor(a, c)
      /\ accounts' = [accounts EXCEPT ![a] = row]
      /\ renamed' = (renamed \/ (accounts[a] # None /\ accounts[a].system
                                   /\ accounts[a].code # c))
      /\ call' = [call EXCEPT ![p] = None]
      /\ UNCHANGED <<ledger, used, dropped, crashed>>
  BY <1>1 DEF L!UpdateSave, L!Return
<1>3. /\ row \in L!AccountRow /\ row # None
      /\ row.code = c /\ row.system = call[p].row.system
  <2>1. row \in L!AccountRow
    BY Calling DEF L!UpdateSave, L!Renaming, L!AccountRow
  <2> QED
    BY <2>1, NoNone
<1>4. \A b \in Account : accounts'[b] = IF b = a THEN row ELSE accounts[b]
  BY <1>2 DEF L!TypeOK
<1>5. \A q \in Caller : /\ L!At(q, "rename")' => L!At(q, "rename") /\ call'[q] = call[q]
                        /\ L!At(q, "insert")' => L!At(q, "insert") /\ call'[q] = call[q]
  BY <1>2 DEF L!TypeOK, L!At, L!Idle
<1>6. /\ a \in used
      /\ accounts[a] # None => accounts[a].system = row.system
      /\ row.system => IsSystem(a)
  BY <1>1, <1>2, <1>3 DEF Charted, AccountIds
<1>7. L!TypeOK'
  BY <1>2, <1>3 DEF L!TypeOK
<1> HIDE DEF row
<1>8. \A b \in Account : IsSystem(b)' <=> IsSystem(b)
  BY <1>3, <1>4, <1>6 DEF IsSystem
<1>9. AccountIds'
  <2>1. \A q \in Caller : L!At(q, "rename") => call[q].account \in Account
    BY Calling DEF L!Renaming
  <2>2. ASSUME NEW q \in Caller, L!At(q, "rename")', accounts'[call[q].account] # None
        PROVE  accounts'[call[q].account].system = call[q].row.system
    <3>1. L!At(q, "rename") /\ call[q].account \in Account
      BY <1>5, <2>1, <2>2
    <3>2. CASE call[q].account # a
      BY <1>4, <2>2, <3>1, <3>2 DEF Charted, AccountIds
    <3>3. CASE call[q].account = a /\ accounts[a] # None
      BY <1>3, <1>4, <1>6, <3>1, <3>3 DEF Charted, AccountIds
    <3>4. CASE call[q].account = a /\ accounts[a] = None
      <4>1. ~call[q].row.system /\ ~row.system
        BY <1>6, <3>1, <3>4 DEF Charted, AccountIds, IsSystem
      <4>2. call[q].row.system \in BOOLEAN /\ row.system \in BOOLEAN
        BY <1>3, <3>1, Calling DEF L!Renaming, L!AccountRow
      <4> QED
        BY <1>4, <3>4, <4>1, <4>2
    <3> QED
      BY <3>1, <3>2, <3>3, <3>4
  <2> QED
    BY <1>2, <1>4, <1>5, <1>6, <1>8, <2>1, <2>2 DEF Charted, AccountIds
<1>10. CodesUnique'
  BY <1>2, <1>3, <1>4 DEF Charted, CodesUnique, L!HasCode, L!FreeFor
<1>11. ASSUME ~renamed' PROVE HooksServed' /\ HeldServed'
  <2>1. \A b \in Account, d \in Code : L!HasCode(b, d) /\ IsSystem(b) => L!HasCode(b, d)'
    BY <1>2, <1>3, <1>4, <1>11 DEF L!HasCode, IsSystem
  <2>2. ~renamed /\ HooksServed /\ HeldServed
    BY <1>2, <1>11 DEF Charted
  <2>3. HooksServed'
    BY <1>8, <2>1, <2>2, ExpensesAssumption DEF HooksServed
  <2>4. \A q \in Caller : L!At(q, "insert") => call[q].account \in Account
    BY Calling DEF L!Inserting
  <2> QED
    BY <1>5, <1>8, <2>2, <2>3, <2>4 DEF HeldServed
<1> QED
  BY <1>7, <1>9, <1>10, <1>11 DEF Charted

\* A slot takes up an account to rename, or finds the new code taken.
LEMMA ChangeStep ==
  ASSUME L!TypeOK, Charted, NEW p \in Caller, L!ChangeAccount(p)
  PROVE  /\ L!TypeOK' /\ Charted'
         /\ ~Recording(p) /\ ~Recording(p)' /\ \A q \in Caller \ {p} : call'[q] = call[q]
         /\ UNCHANGED <<ledger, used, dropped, crashed>> /\ (renamed => renamed')
<1>1. ASSUME NEW a \in Account, L!UpdateFind(p, a)
      PROVE  /\ L!TypeOK' /\ Charted' /\ ~Recording(p) /\ ~Recording(p)'
             /\ \A q \in Caller \ {p} : call'[q] = call[q]
             /\ UNCHANGED <<accounts, ledger, used, renamed, dropped, crashed>>
  <2> DEFINE new == [step |-> "rename", account |-> a, row |-> accounts[a]]
  <2>1. /\ call[p] = None /\ call' = [call EXCEPT ![p] = new] /\ accounts[a] # None
        /\ UNCHANGED <<accounts, ledger, used, renamed, dropped, crashed>>
    BY <1>1 DEF L!UpdateFind, L!Begin, L!Idle
  <2>2. /\ new \in L!Call /\ new.step = "rename" /\ new.account = a /\ new.row = accounts[a]
    BY <2>1 DEF L!Call, L!Renaming, L!TypeOK
  <2> HIDE DEF new
  <2>3. L!TypeOK' /\ \A q \in Caller : call'[q] = IF q = p THEN new ELSE call[q]
    BY <2>1, <2>2 DEF L!TypeOK
  <2>4. AccountIds'
    BY <2>1, <2>2, <2>3 DEF Charted, AccountIds, IsSystem, L!At, L!Idle, L!TypeOK
  <2>5. CodesUnique'
    BY <2>1 DEF Charted, CodesUnique, L!HasCode
  <2>6. ~renamed' => HooksServed' /\ HeldServed'
    BY <2>1, <2>2, <2>3 DEF Charted, HooksServed, HeldServed, L!HasCode, IsSystem, L!At, L!Idle
  <2> QED
    BY <2>1, <2>2, <2>3, <2>4, <2>5, <2>6 DEF Charted, Recording, L!At, L!Idle
<1>2. ASSUME NEW c \in Code, L!UpdateRejected(p, c)
      PROVE  /\ L!TypeOK' /\ Charted' /\ call' = [call EXCEPT ![p] = None] /\ L!At(p, "rename")
             /\ UNCHANGED <<accounts, ledger, used, renamed, dropped, crashed>>
  <2>1. /\ call' = [call EXCEPT ![p] = None] /\ L!At(p, "rename")
        /\ UNCHANGED <<accounts, ledger, used, renamed, dropped, crashed>>
    BY <1>2 DEF L!UpdateRejected, L!Return
  <2>2. L!TypeOK' /\ \A q \in Caller : call'[q] = IF q = p THEN None ELSE call[q]
    BY <2>1 DEF L!TypeOK
  <2> QED
    BY <2>1, <2>2, ChartQuiet DEF L!At, L!Idle
<1>3. ASSUME NEW c \in Code, L!UpdateSave(p, c)
      PROVE  /\ L!TypeOK' /\ Charted' /\ call' = [call EXCEPT ![p] = None] /\ L!At(p, "rename")
             /\ UNCHANGED <<ledger, used, dropped, crashed>> /\ (renamed => renamed')
  BY <1>3, RenameStep DEF L!UpdateSave, L!Return
<1>4. CASE \E c \in Code : L!UpdateSave(p, c) \/ L!UpdateRejected(p, c)
  BY <1>2, <1>3, <1>4 DEF Recording, L!At, L!Idle, L!TypeOK
<1> QED
  BY <1>1, <1>4 DEF L!ChangeAccount

\* The process stops and seeds again: accounts are added, none is taken away.
LEMMA SeedStep ==
  ASSUME L!TypeOK, Charted, L!Restart
  PROVE  L!TypeOK' /\ Charted'
<1>1. /\ accounts' \in [Account -> L!AccountRow \cup {None}]
      /\ L!Seeded(accounts, accounts')
      /\ \A a \in Account : accounts[a] = None /\ accounts'[a] # None => a \notin used
      /\ call' = [p \in Caller |-> None] /\ crashed' = TRUE
      /\ used' = used \cup {a \in Account : accounts'[a] # None}
      /\ UNCHANGED <<ledger, renamed, dropped>>
  BY DEF L!Restart
<1>2. L!TypeOK'
  BY <1>1 DEF L!TypeOK
<1>3. CodesUnique'
  BY <1>1 DEF L!Seeded, Charted, CodesUnique, L!HasCode
<1>4. \A a \in Account : /\ accounts'[a] # None => a \in used'
                         /\ IsSystem(a) => accounts'[a] = accounts[a]
                         /\ a \in used => accounts'[a] \in {accounts[a], None}
  BY <1>1 DEF L!Seeded, IsSystem
<1>5. Charted'
  BY <1>1, <1>3, <1>4, ChartGrows
<1> QED
  BY <1>2, <1>5

-----------------------------------------------------------------------------
(* The calls: each entry is posted, on its way or given up.                  *)

Books == L!TypeOK /\ RowsUsed /\ Charted /\ Tracked

\* Steps that leave the rows and every record() call alone.
LEMMA TrackedQuiet ==
  ASSUME Tracked, UNCHANGED <<ledger, spent, origin, dropped, crashed>>,
         renamed => renamed',
         \A p \in Caller : Recording(p) \/ Recording(p)' => call'[p] = call[p]
  PROVE  Tracked'
<1>1. \A p \in Caller : /\ L!At(p, "resolve")' <=> L!At(p, "resolve")
                        /\ L!At(p, "insert")' <=> L!At(p, "insert")
                        /\ Recording(p) => call'[p] = call[p]
  BY DEF Recording, L!At, L!Idle
<1>2. CallsOwned' /\ DropsExcused'
  BY <1>1 DEF Tracked, CallsOwned, DropsExcused, OwnCode, Recording
<1>3. \A e \in spent : Kept(e) => Kept(e)'
  <2>1. \A e : InFlight(e) => InFlight(e)'
    BY <1>1 DEF InFlight, Recording
  <2> QED
    BY <2>1 DEF Kept, L!Posted, L!Rows
<1> QED
  BY <1>2, <1>3 DEF Tracked

LEMMA LedgerSame ==
  ASSUME Books, UNCHANGED ledgerVars, UNCHANGED <<spent, origin>>
  PROVE  Books'
<1> USE DEF ledgerVars
<1>1. L!TypeOK' /\ RowsUsed'
  BY DEF Books, L!TypeOK, RowsUsed
<1>2. Charted'
  BY ChartQuiet DEF Books
<1>3. Tracked'
  BY TrackedQuiet DEF Books
<1> QED
  BY <1>1, <1>2, <1>3 DEF Books

\* Accounts come and go, and change their codes.
LEMMA AccountsKeep ==
  ASSUME Books, Accounts
  PROVE  Books'
<1>1. UNCHANGED <<spent, origin>>
  BY DEF Accounts, entryVars
<1>2. CASE L!Chart
  <2>1. /\ L!TypeOK' /\ Charted' /\ UNCHANGED <<ledger, call, renamed, dropped, crashed>>
        /\ used \subseteq used'
    BY <1>2, ChartStep DEF Books
  <2>2. Tracked'
    BY <1>1, <2>1, TrackedQuiet DEF Books
  <2> QED
    BY <2>1, <2>2 DEF Books, RowsUsed
<1>3. ASSUME NEW p \in Caller, L!ChangeAccount(p)
      PROVE  Books'
  <2>1. /\ L!TypeOK' /\ Charted' /\ ~Recording(p) /\ ~Recording(p)'
        /\ \A q \in Caller \ {p} : call'[q] = call[q]
        /\ UNCHANGED <<ledger, used, dropped, crashed>> /\ (renamed => renamed')
    BY <1>3, ChangeStep DEF Books
  <2>2. Tracked'
    BY <1>1, <2>1, TrackedQuiet DEF Books
  <2> QED
    BY <2>1, <2>2 DEF Books, RowsUsed
<1> QED
  BY <1>2, <1>3 DEF Accounts

\* The process stops: calls in flight are gone, and what is claimed after that is less.
LEMMA RestartKeeps ==
  ASSUME Books, L!Restart, UNCHANGED <<spent, origin>>
  PROVE  Books'
<1>1. /\ call' = [p \in Caller |-> None] /\ crashed' = TRUE /\ used \subseteq used'
      /\ UNCHANGED <<ledger, renamed, dropped>>
  BY DEF L!Restart
<1>2. Tracked'
  BY <1>1 DEF Books, Tracked, CallsOwned, DropsExcused, OwnCode, Recording, L!At, L!Idle
<1> QED
  BY <1>1, <1>2, SeedStep DEF Books, RowsUsed

\* A save sends a record() call on its way for the new entry.
LEMMA SaveKeepsBooks ==
  ASSUME Books, NEW p \in Caller, NEW e \in Expense, NEW d, NEW m, NEW c \in Code,
         origin \in [Expense -> Document \cup {None}],
         SaveAndPost(p, e, d, m, c), c \in Hook \/ d \in Document \ Keyed
  PROVE  Books'
<1> DEFINE new == [step |-> "resolve", source |-> e, code |-> c]
<1>1. new \in L!Call /\ new # None /\ new.step = "resolve" /\ new.source = e /\ new.code = c
  <2>1. new \in L!Call
    BY DEF L!Call, L!Resolving
  <2> QED
    BY <2>1, NoNone
<1>2. /\ call[p] = None /\ call' = [call EXCEPT ![p] = new]
      /\ \A q \in Caller : call'[q] = IF q = p THEN new ELSE call[q]
      /\ e \notin spent /\ spent' = spent \cup {e}
      /\ \A x \in Expense : origin'[x] = IF x = e THEN d ELSE origin[x]
      /\ UNCHANGED <<accounts, ledger, used, renamed, dropped, crashed>>
  BY DEF SaveAndPost, L!RecordLookup, L!Begin, L!Idle, Books, L!TypeOK
<1> HIDE DEF new
<1>3. L!TypeOK' /\ RowsUsed'
  BY <1>1, <1>2 DEF Books, L!TypeOK, RowsUsed
<1>4. Charted'
  BY <1>1, <1>2, ChartQuiet DEF Books, L!At, L!Idle
<1>5. CallsOwned'
  <2> SUFFICES ASSUME NEW q \in Caller, Recording(q)'
               PROVE  /\ call'[q].source \in spent'
                      /\ \/ call'[q].code \in Hook
                         \/ origin'[call'[q].source] \in Document \ Keyed
    BY DEF CallsOwned, OwnCode
  <2>1. CASE q = p
    BY <1>1, <1>2, <2>1
  <2>2. CASE q # p
    <3>1. /\ call'[q] = call[q] /\ Recording(q) /\ call[q].source \in Expense
          /\ call[q].source \in spent /\ OwnCode(call[q].source, call[q].code)
      BY <1>2, <2>2, Calling DEF Recording, L!At, L!Idle, Books, Tracked, CallsOwned
    <3> QED
      BY <1>2, <3>1 DEF OwnCode
  <2> QED
    BY <2>1, <2>2
<1>6. DropsExcused'
  <2>1. \A x \in dropped : x[1] \in Expense
    BY DEF Books, L!TypeOK
  <2> QED
    BY <1>2, <2>1 DEF Books, Tracked, DropsExcused, OwnCode
<1>7. ASSUME ~crashed', NEW x \in spent' PROVE Kept(x)'
  <2>1. CASE x = e
    BY <1>1, <1>2, <2>1 DEF Kept, InFlight, L!At, L!Idle
  <2>2. CASE x # e
    <3>1. Kept(x)
      BY <1>2, <1>7, <2>2 DEF Books, Tracked
    <3>2. InFlight(x) => InFlight(x)'
      BY <1>2 DEF InFlight, L!At, L!Idle
    <3> QED
      BY <1>2, <3>1, <3>2 DEF Kept, L!Posted, L!Rows
  <2> QED
    BY <2>1, <2>2
<1> QED
  BY <1>3, <1>4, <1>5, <1>6, <1>7 DEF Books, Tracked

\* A record() call goes on, and ends with the row posted or a posting dropped.
LEMMA PostKeeps ==
  ASSUME Books, spent \in SUBSET Expense, NEW p \in Caller, L!Post(p),
         UNCHANGED <<spent, origin>>
  PROVE  Books'
<1>1. /\ Recording(p) /\ call[p] # None
      /\ call[p].source \in spent /\ OwnCode(call[p].source, call[p].code)
      /\ call[p].source \in Expense /\ call[p].code \in Code
  <2>1. Recording(p) /\ call[p] # None
    BY DEF L!Post, L!RecordResolve, L!RecordNoAccount, L!RecordDuplicate, L!RecordFails,
           L!RecordInsert, L!At, L!Idle, Recording
  <2> QED
    BY <2>1, Calling DEF Books, Tracked, CallsOwned
<1>2. PICK s \in Expense, c \in Code : s = call[p].source /\ c = call[p].code
  BY <1>1
<1>3. UNCHANGED <<accounts, renamed, crashed>> /\ used \subseteq used'
  BY DEF L!Post, L!RecordResolve, L!RecordNoAccount, L!RecordDuplicate, L!RecordFails,
         L!RecordInsert, L!GiveUp
\* Whatever the call does, its entry is posted, still on its way or given up.
<1>4. ASSUME NEW new \in L!Call \cup {None}, call' = [call EXCEPT ![p] = new],
             new = None \/ (new.step = "insert" /\ new.source = s /\ new.code = c),
             L!TypeOK', RowsUsed', Charted', DropsExcused', dropped \subseteq dropped',
             \A x \in Expense : L!Posted(x) # {} => L!Posted(x)' # {},
             new = None => L!Posted(s)' # {} \/ <<s, c>> \in dropped'
      PROVE  Books'
  <2>1. \A q \in Caller : call'[q] = IF q = p THEN new ELSE call[q]
    BY <1>4 DEF Books, L!TypeOK
  <2>2. CallsOwned'
    BY <1>1, <1>2, <1>4, <2>1
       DEF Books, Tracked, CallsOwned, OwnCode, Recording, L!At, L!Idle
  <2>3. ASSUME ~crashed', NEW x \in spent' PROVE Kept(x)'
    <3>1. x \in Expense
      BY <2>3
    <3>2. Kept(x)
      BY <1>3, <2>3 DEF Books, Tracked
    <3>3. CASE L!Posted(x) # {} \/ \E d \in Code : <<x, d>> \in dropped
      BY <1>4, <3>1, <3>3 DEF Kept
    <3>4. ASSUME NEW q \in Caller, Recording(q), call[q].source = x
          PROVE  Kept(x)'
      <4>1. CASE q # p
        BY <2>1, <3>4, <4>1 DEF Kept, InFlight, Recording, L!At, L!Idle
      <4>2. CASE q = p
        BY <1>2, <1>4, <2>1, <3>4, <4>2, NoNone DEF Kept, InFlight, L!At, L!Idle
      <4> QED
        BY <4>1, <4>2
    <3> QED
      BY <3>2, <3>3, <3>4 DEF Kept, InFlight, Recording
  <2> QED
    BY <1>3, <1>4, <2>2, <2>3 DEF Books, Tracked
<1>5. CASE L!RecordResolve(p)
  <2>1. PICK a \in Account :
          /\ L!HasCode(a, c)
          /\ call' = [call EXCEPT ![p] = [step |-> "insert", source |-> s,
                                          code |-> c, account |-> a]]
          /\ UNCHANGED <<accounts, ledger, used, renamed, dropped, crashed>>
    BY <1>2, <1>5 DEF L!RecordResolve
  <2> DEFINE new == [step |-> "insert", source |-> s, code |-> c, account |-> a]
  <2>2. /\ new \in L!Call /\ new.step = "insert" /\ new.code = c /\ new.source = s
        /\ new.account = a
    BY DEF L!Call, L!Inserting
  <2>3. call' = [call EXCEPT ![p] = new] /\ new # None
    BY <2>1, <2>2, NoNone
  <2> HIDE DEF new
  <2>4. /\ L!TypeOK'
        /\ \A q \in Caller : call'[q] = IF q = p THEN new ELSE call[q]
    BY <2>1, <2>2, <2>3 DEF Books, L!TypeOK
  <2>5. ~renamed /\ c \in Hook => IsSystem(a)
    BY <2>1, ExpensesAssumption DEF Books, Charted, HooksServed, CodesUnique
  <2>6. Charted'
    <3>1. AccountIds'
      BY <2>1, <2>2, <2>4 DEF Books, Charted, AccountIds, IsSystem, L!At, L!Idle
    <3>2. CodesUnique'
      BY <2>1 DEF Books, Charted, CodesUnique, L!HasCode
    <3>3. ~renamed' => HooksServed' /\ HeldServed'
      BY <2>1, <2>2, <2>4, <2>5
         DEF Books, Charted, HooksServed, HeldServed, L!HasCode, IsSystem, L!At, L!Idle
    <3> QED
      BY <3>1, <3>2, <3>3 DEF Charted
  <2>7. RowsUsed' /\ \A x \in Expense : L!Posted(x)' = L!Posted(x)
    BY <2>1 DEF Books, RowsUsed, L!Posted, L!Rows
  <2>8. DropsExcused'
    BY <2>1 DEF Books, Tracked, DropsExcused, OwnCode
  <2> QED
    BY <1>4, <2>1, <2>2, <2>3, <2>4, <2>6, <2>7, <2>8
\* The call is over: nobody resolves or renames.
<1>6. ASSUME call' = [call EXCEPT ![p] = None]
      PROVE  Charted'
  <2>1. \A q \in Caller : call'[q] = IF q = p THEN None ELSE call[q]
    BY <1>6 DEF Books, L!TypeOK
  <2> QED
    BY <1>3, <2>1, ChartQuiet DEF Books, L!At, L!Idle
<1>7. CASE L!RecordDuplicate(p)
  <2>1. /\ call' = [call EXCEPT ![p] = None] /\ L!Posted(s) # {}
        /\ UNCHANGED <<accounts, ledger, used, renamed, dropped, crashed>>
    BY <1>2, <1>7 DEF L!RecordDuplicate, L!Return, L!Admits
  <2>2. L!TypeOK' /\ RowsUsed' /\ \A x \in Expense : L!Posted(x)' = L!Posted(x)
    BY <2>1 DEF Books, L!TypeOK, RowsUsed, L!Posted, L!Rows
  <2>3. DropsExcused'
    BY <2>1 DEF Books, Tracked, DropsExcused, OwnCode
  <2> QED
    BY <1>4, <1>6, <2>1, <2>2, <2>3
<1>8. CASE L!RecordNoAccount(p) \/ L!RecordFails(p)
  <2>1. /\ call' = [call EXCEPT ![p] = None] /\ dropped' = dropped \cup {<<s, c>>}
        /\ UNCHANGED <<accounts, ledger, used, renamed, crashed>>
    BY <1>2, <1>8 DEF L!RecordNoAccount, L!RecordFails, L!GiveUp, L!Return
  <2>2. L!TypeOK' /\ RowsUsed' /\ \A x \in Expense : L!Posted(x)' = L!Posted(x)
    BY <2>1 DEF Books, L!TypeOK, RowsUsed, L!Posted, L!Rows
  <2>3. c \in Hook => renamed
    <3>1. CASE L!RecordNoAccount(p)
      BY <1>2, <3>1 DEF L!RecordNoAccount, L!Taken, Books, Charted, HooksServed
    <3>2. CASE L!RecordFails(p)
      BY <1>2, <3>2 DEF L!RecordFails, Books, Charted, HeldServed, IsSystem
    <3> QED
      BY <1>8, <3>1, <3>2
  <2>4. DropsExcused'
    BY <1>1, <1>2, <2>1, <2>3 DEF Books, Tracked, DropsExcused, OwnCode
  <2> QED
    BY <1>4, <1>6, <2>1, <2>2, <2>4
<1>9. ASSUME NEW r \in Entry, L!RecordInsert(p, r)
      PROVE  Books'
  <2> DEFINE row == [type |-> "DOC", source |-> s, account |-> call[p].account]
  <2>1. /\ L!At(p, "insert") /\ r \notin used /\ used' = used \cup {r}
        /\ ledger' = [ledger EXCEPT ![r] = row] /\ call' = [call EXCEPT ![p] = None]
        /\ UNCHANGED <<accounts, renamed, dropped, crashed>>
    BY <1>2, <1>9 DEF L!RecordInsert, L!Return
  <2>2. row \in L!LedgerRow /\ row.type = "DOC" /\ row.source = s
    BY <2>1, Calling DEF L!LedgerRow, L!Inserting, Books
  <2>3. row # None
    BY <2>2, NoNone
  <2> HIDE DEF row
  <2>4. /\ ledger[r] = None
        /\ \A x \in Entry : ledger'[x] = IF x = r THEN row ELSE ledger[x]
    BY <2>1 DEF Books, RowsUsed, L!TypeOK
  <2>5. L!TypeOK' /\ RowsUsed'
    BY <2>1, <2>2, <2>4 DEF Books, L!TypeOK, RowsUsed
  <2>6. \A x \in Expense : L!Posted(x) \subseteq L!Posted(x)'
    BY <2>4 DEF L!Posted, L!Rows
  <2>7. r \in L!Posted(s)'
    <3>1. r \in L!Rows' /\ ledger'[r].type = "DOC" /\ ledger'[r].source = s
      BY <2>2, <2>3, <2>4 DEF L!Rows
    <3> QED
      BY <3>1 DEF L!Posted
  <2>8. DropsExcused'
    BY <2>1 DEF Books, Tracked, DropsExcused, OwnCode
  <2> QED
    BY <1>4, <1>6, <2>1, <2>5, <2>6, <2>7, <2>8
<1> QED
  BY <1>5, <1>7, <1>8, <1>9 DEF L!Post

-----------------------------------------------------------------------------
(* This service's part of the invariant, step by step.                       *)

Entries == /\ docs \in SUBSET Document
           /\ expenses \in [Expense -> ExpenseRow \cup {None}]
           /\ spent \in SUBSET Expense
           /\ work \in [Caller -> HookWork \cup EditWork \cup {None}]
           /\ origin \in [Expense -> Document \cup {None}]
           /\ OnlySpent /\ EditsManual

LEMMA InTwoParts == IInv <=> Entries /\ Books
BY DEF IInv, Entries, Books, TypeOK

LEMMA TwoPartsNext == ASSUME Entries', Books' PROVE IInv'
BY DEF IInv, Entries, Books, TypeOK

\* Hooks and edits start, hooks find nothing or give up: only work changes.
LEMMA WorkStep ==
  ASSUME IInv, NEW p \in Caller,
         \/ \E d \in docs, m \in Amount : HookStart(p, d, m)
         \/ HookCheck(p)
         \/ \E e \in Expense : UpdateFind(p, e)
  PROVE  IInv'
<1>1. PICK new \in HookWork \cup EditWork \cup {None} :
        /\ work' = [work EXCEPT ![p] = new]
        /\ new # None /\ new.step = "edit" =>
             /\ new.row.doc = None /\ new.exp \in spent
             /\ Stays(new.exp) => expenses[new.exp].doc = None
  <2>1. ASSUME NEW d \in docs, NEW m \in Amount, HookStart(p, d, m)
        PROVE  [step |-> "check", doc |-> d, amount |-> m] \in HookWork
    BY DEF HookWork, IInv, TypeOK
  <2>2. ASSUME NEW e \in Expense, UpdateFind(p, e)
        PROVE  /\ [step |-> "edit", exp |-> e, row |-> expenses[e]] \in EditWork
               /\ expenses[e].doc = None /\ e \in spent
    BY <2>2 DEF UpdateFind, Stays, EditWork, IInv, TypeOK, OnlySpent
  <2>3. ASSUME HookCheck(p)
        PROVE  [work[p] EXCEPT !.step = "save"] \in HookWork
    <3>1. work[p] \in HookWork
      BY <2>3, Doing DEF HookCheck, IInv
    <3> QED
      BY <3>1 DEF HookWork
  <2>4. ASSUME HookCheck(p)
        PROVE  \/ work' = [work EXCEPT ![p] = [work[p] EXCEPT !.step = "save"]]
               \/ work' = [work EXCEPT ![p] = None]
    BY <2>4 DEF HookCheck
  <2>5. \A w \in HookWork : w.step # "edit"
    BY DEF HookWork
  <2>6. CASE HookCheck(p)
    BY <2>3, <2>4, <2>5, <2>6
  <2>7. ASSUME NEW d \in docs, NEW m \in Amount, HookStart(p, d, m)
        PROVE  \E new \in HookWork : work' = [work EXCEPT ![p] = new]
    BY <2>1, <2>7 DEF HookStart
  <2>8. ASSUME NEW e \in Expense, UpdateFind(p, e)
        PROVE  work' = [work EXCEPT ![p] = [step |-> "edit", exp |-> e, row |-> expenses[e]]]
    BY <2>8 DEF UpdateFind
  <2>9. CASE \E e \in Expense : UpdateFind(p, e)
    <3>1. PICK e \in Expense : UpdateFind(p, e)
      BY <2>9
    <3> DEFINE new == [step |-> "edit", exp |-> e, row |-> expenses[e]]
    <3>2. /\ new \in EditWork /\ new.row.doc = None /\ new.exp \in spent
          /\ expenses[new.exp].doc = None
          /\ work' = [work EXCEPT ![p] = new]
      BY <2>2, <2>8, <3>1
    <3> QED
      BY <3>2
  <2> QED
    BY <2>5, <2>6, <2>7, <2>9
<1>2. UNCHANGED <<docs, entryVars, ledgerVars>>
  BY DEF HookStart, HookCheck, UpdateFind
<1>3. \A q \in Caller : work'[q] = IF q = p THEN new ELSE work[q]
  BY <1>1 DEF IInv, TypeOK
<1>4. EditsManual' /\ OnlySpent'
  BY <1>1, <1>2, <1>3 DEF IInv, EditsManual, OnlySpent, At, Stays, entryVars
<1>5. Entries'
  BY <1>1, <1>2, <1>4 DEF Entries, IInv, TypeOK, entryVars
<1>6. Books'
  BY <1>2, InTwoParts, LedgerSame DEF entryVars
<1> QED
  BY <1>5, <1>6, TwoPartsNext

\* Steps on rows: each row stays, goes, loses its document or its amount changes;
\* no row gets a document, and no slot takes up an edit.
LEMMA RowStep ==
  ASSUME IInv, docs' \in SUBSET Document, UNCHANGED <<spent, origin, ledgerVars>>,
         expenses' \in [Expense -> ExpenseRow \cup {None}],
         \A e \in Expense : Stays(e)' =>
           (expenses'[e].doc = None /\ e \in spent) \/ expenses'[e] = expenses[e],
         work' \in [Caller -> HookWork \cup EditWork \cup {None}],
         \A p \in Caller : work'[p] \in {work[p], None}
  PROVE  IInv'
<1>1. OnlySpent'
  BY DEF IInv, OnlySpent, Stays
<1>2. EditsManual'
  BY Doing DEF IInv, EditsManual, At, Stays
<1>3. Entries'
  BY <1>1, <1>2 DEF Entries, IInv, TypeOK
<1> QED
  BY <1>3, InTwoParts, LedgerSame, TwoPartsNext

LEMMA UpdateSaveStep ==
  ASSUME IInv, NEW p \in Caller, NEW m \in Amount, UpdateSave(p, m)
  PROVE  IInv'
<1> DEFINE e   == work[p].exp
           row == [work[p].row EXCEPT !.amount = m]
<1>1. e \in Expense /\ work[p].row \in ExpenseRow /\ work[p].row.doc = None /\ e \in spent
  BY Doing DEF UpdateSave, IInv, EditsManual
<1>2. row \in ExpenseRow /\ row.doc = None
  BY <1>1 DEF ExpenseRow
<1>3. /\ expenses' = [expenses EXCEPT ![e] = row] /\ work' = [work EXCEPT ![p] = None]
      /\ docs' = docs /\ UNCHANGED <<spent, origin, ledgerVars>>
  BY DEF UpdateSave
<1>4. \A x \in Expense : expenses'[x] = IF x = e THEN row ELSE expenses[x]
  BY <1>1, <1>3 DEF IInv, TypeOK
<1> HIDE DEF row, e
<1>5. /\ expenses' \in [Expense -> ExpenseRow \cup {None}]
      /\ work' \in [Caller -> HookWork \cup EditWork \cup {None}]
      /\ \A q \in Caller : work'[q] \in {work[q], None}
      /\ docs' \in SUBSET Document
  BY <1>1, <1>2, <1>3 DEF IInv, TypeOK
<1> QED
  BY <1>1, <1>2, <1>3, <1>4, <1>5, RowStep

LEMMA RemoveStep ==
  ASSUME IInv, NEW e \in Expense, Remove(e)
  PROVE  IInv'
<1>1. /\ expenses' \in [Expense -> ExpenseRow \cup {None}]
      /\ \A x \in Expense : expenses'[x] \in {expenses[x], None}
      /\ docs' \in SUBSET Document /\ UNCHANGED <<spent, work, origin, ledgerVars>>
      /\ work' \in [Caller -> HookWork \cup EditWork \cup {None}]
  BY DEF Remove, IInv, TypeOK
<1> QED
  BY <1>1, RowStep DEF Stays

LEMMA DocDeletedStep ==
  ASSUME IInv, NEW d \in docs, DocDeleted(d)
  PROVE  IInv'
<1>1. \A e \in Expense : Stays(e) =>
        /\ [expenses[e] EXCEPT !.doc = None] \in ExpenseRow
        /\ [expenses[e] EXCEPT !.doc = None].doc = None /\ e \in spent
  BY DEF IInv, TypeOK, ExpenseRow, Stays, OnlySpent
<1>2. \A e \in Expense : \/ expenses'[e] = expenses[e]
                         \/ Stays(e) /\ expenses'[e] = [expenses[e] EXCEPT !.doc = None]
  BY DEF DocDeleted, EntriesOf
<1>3. /\ expenses' \in [Expense -> ExpenseRow \cup {None}]
      /\ docs' \in SUBSET Document /\ UNCHANGED <<spent, work, origin, ledgerVars>>
      /\ work' \in [Caller -> HookWork \cup EditWork \cup {None}]
  BY <1>1, <1>2 DEF DocDeleted, IInv, TypeOK
<1> QED
  BY <1>1, <1>2, <1>3, RowStep DEF Stays

\* An entry is saved, for a document or by hand.
LEMMA SaveStep ==
  ASSUME IInv, NEW p \in Caller, NEW e \in Expense, NEW d \in Document \cup {None},
         NEW m \in Amount, NEW c \in Code, SaveAndPost(p, e, d, m, c),
         c \in Hook \/ d \in Document \ Keyed,
         UNCHANGED docs, work' \in [Caller -> HookWork \cup EditWork \cup {None}],
         \A q \in Caller : work'[q] \in {work[q], None}
  PROVE  IInv'
<1>1. [doc |-> d, amount |-> m] \in ExpenseRow
  BY DEF ExpenseRow
<1>2. /\ e \notin spent /\ spent' = spent \cup {e}
      /\ expenses' \in [Expense -> ExpenseRow \cup {None}]
      /\ origin' \in [Expense -> Document \cup {None}]
      /\ \A x \in Expense : x # e => expenses'[x] = expenses[x] /\ origin'[x] = origin[x]
  BY <1>1 DEF SaveAndPost, IInv, TypeOK
<1>3. OnlySpent'
  BY <1>2 DEF IInv, OnlySpent, Stays
<1>4. EditsManual'
  <2> SUFFICES ASSUME NEW q \in Caller, At(q, "edit")'
               PROVE  /\ work'[q].row.doc = None /\ work'[q].exp \in spent'
                      /\ expenses'[work'[q].exp] # None => expenses'[work'[q].exp].doc = None
    BY DEF EditsManual, Stays
  <2>1. work'[q] = work[q] /\ At(q, "edit") /\ work[q].exp \in Expense
    BY Doing DEF At, IInv
  <2> QED
    BY <1>2, <2>1 DEF IInv, EditsManual, Stays
<1>5. Entries'
  BY <1>2, <1>3, <1>4 DEF Entries, IInv, TypeOK
<1>6. Books'
  BY InTwoParts, SaveKeepsBooks DEF IInv, TypeOK
<1> QED
  BY <1>5, <1>6, TwoPartsNext

LEMMA RestartStep ==
  ASSUME IInv, Restart
  PROVE  IInv'
<1>1. UNCHANGED <<docs, expenses, spent, origin>> /\ work' = [p \in Caller |-> None]
  BY DEF Restart, entryVars
<1>2. Entries'
  BY <1>1 DEF Entries, IInv, TypeOK, OnlySpent, EditsManual, Stays, At
<1>3. Books'
  BY <1>1, InTwoParts, RestartKeeps DEF Restart
<1> QED
  BY <1>2, <1>3, TwoPartsNext

LEMMA PostingStep ==
  ASSUME IInv, NEW p \in Caller, Posting(p)
  PROVE  IInv'
<1>1. UNCHANGED <<docs, expenses, spent, origin, work>> /\ L!Post(p)
  BY DEF Posting, entryVars
<1>2. Entries'
  BY <1>1 DEF Entries, IInv, TypeOK, OnlySpent, EditsManual, Stays, At
<1>3. Books'
  BY <1>1, InTwoParts, PostKeeps DEF IInv, TypeOK
<1> QED
  BY <1>2, <1>3, TwoPartsNext

LEMMA AccountsStep ==
  ASSUME IInv, Accounts
  PROVE  IInv'
<1>1. UNCHANGED <<docs, expenses, spent, origin, work>>
  BY DEF Accounts, entryVars
<1>2. Entries'
  BY <1>1 DEF Entries, IInv, TypeOK, OnlySpent, EditsManual, Stays, At
<1>3. Books'
  BY InTwoParts, AccountsKeep
<1> QED
  BY <1>2, <1>3, TwoPartsNext

LEMMA InvariantStep ==
  ASSUME IInv, [Next]_expensesVars
  PROVE  IInv'
<1>1. CASE UNCHANGED expensesVars
  <2>1. Entries'
    BY <1>1 DEF expensesVars, entryVars, Entries, IInv, TypeOK, OnlySpent, EditsManual, Stays, At
  <2>2. Books'
    BY <1>1, InTwoParts, LedgerSame DEF expensesVars, entryVars
  <2> QED
    BY <2>1, <2>2, TwoPartsNext
<1>2. ASSUME NEW p \in Caller, NEW e \in Expense, NEW c \in Code, HookSave(p, e, c)
      PROVE  IInv'
  <2>1. /\ work[p].doc \in Document \cup {None} /\ work[p].amount \in Amount
        /\ c \in Hook \/ work[p].doc \in Document \ Keyed
    BY <1>2, Doing DEF HookSave, IInv
  <2>2. /\ SaveAndPost(p, e, work[p].doc, work[p].amount, c) /\ UNCHANGED docs
        /\ work' \in [Caller -> HookWork \cup EditWork \cup {None}]
        /\ \A q \in Caller : work'[q] \in {work[q], None}
    BY <1>2 DEF HookSave, IInv, TypeOK
  <2> QED
    BY <2>1, <2>2, SaveStep
<1>3. ASSUME NEW p \in Caller, NEW e \in Expense, NEW m \in Amount, NEW c \in Hook, Create(p, e, m, c)
      PROVE  IInv'
  <2>1. /\ SaveAndPost(p, e, None, m, c) /\ UNCHANGED <<docs, work>>
    BY <1>3 DEF Create
  <2>2. work' \in [Caller -> HookWork \cup EditWork \cup {None}]
    BY <2>1 DEF IInv, TypeOK
  <2> QED
    BY <2>1, <2>2, SaveStep, ExpensesAssumption
<1>4. ASSUME NEW p \in Caller, HookFails(p)
      PROVE  IInv'
  BY <1>4, RestartStep DEF HookFails
<1> QED
  BY <1>1, <1>2, <1>3, <1>4, WorkStep, UpdateSaveStep, RemoveStep, DocDeletedStep, RestartStep,
     PostingStep, AccountsStep DEF Next, Background, Request

LEMMA InvariantHolds == Spec => []IInv
<1>1. Init => IInv
  <2> SUFFICES ASSUME Init
               PROVE  IInv
    OBVIOUS
  <2>1. Entries
    BY DEF Init, EmptyBooks, Entries, OnlySpent, EditsManual, Stays, At
  <2>2. L!TypeOK /\ RowsUsed /\ Tracked
    BY DEF Init, EmptyBooks, L!Init, L!TypeOK, RowsUsed, Tracked, CallsOwned, DropsExcused,
           Recording, L!At, L!Idle
  <2>3. Charted
    <3>1. /\ \A a \in Account : accounts[a] # None => a \in used
          /\ L!Seeded([a \in Account |-> None], accounts)
          /\ \A p \in Caller : call[p] = None
      BY DEF Init, EmptyBooks, L!Init
    <3>2. AccountIds /\ HeldServed
      BY <3>1 DEF AccountIds, HeldServed, L!At, L!Idle
    <3>3. CodesUnique /\ HooksServed
      BY <3>1 DEF L!Seeded, CodesUnique, HooksServed, L!HasCode, IsSystem
    <3> QED
      BY <3>2, <3>3 DEF Charted
  <2>4. Books
    BY <2>2, <2>3 DEF Books
  <2> QED
    BY <2>1, <2>4, InTwoParts
<1>2. IInv /\ [Next]_expensesVars => IInv'
  BY InvariantStep
<1> QED
  BY <1>1, <1>2, PTL DEF Spec

\* Every reachable state of the expenses service and its ledger is well typed.
THEOREM TypeCorrect == Spec => []TypeOK
<1>1. IInv => TypeOK
  BY DEF IInv
<1> QED
  BY <1>1, InvariantHolds, PTL

\* Unless the process has stopped, every entry ever saved is in the ledger or has a
\* record() call on its way, although nobody awaits that call: only a purchase's own
\* account code and a renamed system account leave an entry without its row.
THEOREM SavedIsPosted == Spec => []SavedMeansPosted
<1> QED
  BY KeptMeansPosted, InvariantHolds, PTL

-----------------------------------------------------------------------------
\* Entries made for a document.
Made(e) == Stays(e) /\ expenses[e].doc # None
Unchanged(e) == Stays(e)' /\ expenses'[e].amount = expenses[e].amount

\* Saving an entry uses a new id.
LEMMA SaveKeeps ==
  ASSUME IInv, NEW p \in Caller, NEW x \in Expense, NEW d, NEW m, NEW c,
         SaveAndPost(p, x, d, m, c), NEW e \in Expense, Stays(e)
  PROVE  expenses'[e] = expenses[e]
<1>1. e # x
  BY DEF SaveAndPost, IInv, OnlySpent
<1> QED
  BY <1>1 DEF SaveAndPost, IInv, TypeOK

LEMMA AutoStep ==
  ASSUME IInv, [Next]_expensesVars, NEW e \in Expense, Made(e)
  PROVE  Unchanged(e)
<1> USE DEF Made, Unchanged
<1>1. CASE expenses'[e] = expenses[e]
  BY <1>1 DEF Stays
<1>2. ASSUME NEW p \in Caller, NEW m \in Amount, UpdateSave(p, m)
      PROVE  expenses'[e] = expenses[e]
  <2>1. work[p].exp # e
    BY <1>2 DEF UpdateSave, IInv, EditsManual
  <2> QED
    BY <1>2, <2>1 DEF UpdateSave, IInv, TypeOK
<1>3. ASSUME NEW x \in Expense, Remove(x)
      PROVE  expenses'[e] = expenses[e]
  <2>1. x # e
    BY <1>3 DEF Remove
  <2> QED
    BY <1>3, <2>1 DEF Remove, IInv, TypeOK
<1>4. ASSUME NEW d \in docs, DocDeleted(d)
      PROVE  Unchanged(e)
  <2>1. /\ expenses[e] \in ExpenseRow
        /\ expenses'[e] \in {expenses[e], [expenses[e] EXCEPT !.doc = None]}
    BY <1>4 DEF DocDeleted, IInv, TypeOK, Stays
  <2>2. /\ [expenses[e] EXCEPT !.doc = None] \in ExpenseRow
        /\ [expenses[e] EXCEPT !.doc = None].amount = expenses[e].amount
    BY <2>1 DEF ExpenseRow
  <2> QED
    BY <2>1, <2>2, NoNone DEF Stays
<1>5. ASSUME NEW p \in Caller, Background(p)
      PROVE  expenses'[e] = expenses[e]
  <2>1. CASE \E x \in Expense, c \in Code : HookSave(p, x, c)
    BY <2>1, SaveKeeps DEF HookSave
  <2>2. CASE HookCheck(p) \/ HookFails(p) \/ Posting(p)
    BY <2>2 DEF HookCheck, HookFails, Restart, Posting, entryVars
  <2> QED
    BY <1>5, <2>1, <2>2 DEF Background
<1>6. ASSUME NEW p \in Caller, Request(p)
      PROVE  expenses'[e] = expenses[e]
  <2>1. CASE \E x \in Expense, m \in Amount, c \in Hook : Create(p, x, m, c)
    BY <2>1, SaveKeeps DEF Create
  <2>2. CASE \E x \in Expense : UpdateFind(p, x)
    BY <2>2 DEF UpdateFind, entryVars
  <2> QED
    BY <1>2, <1>6, <2>1, <2>2 DEF Request
<1>7. CASE \/ \E p \in Caller, d \in docs, m \in Amount : HookStart(p, d, m)
           \/ Accounts \/ Restart \/ UNCHANGED expensesVars
  BY <1>1, <1>7 DEF HookStart, Accounts, Restart, expensesVars, entryVars
<1> QED
  BY <1>1, <1>3, <1>4, <1>5, <1>6, <1>7 DEF Next

\* As long as its document exists, an entry made for it is neither removed nor
\* given another amount: not by an edit that loaded its row earlier, nor by a
\* save, a restart or the deletion of its document.
THEOREM AutoEntriesStay == Spec => AutoEntriesReadOnly
<1>1. IInv /\ [Next]_expensesVars =>
        [\A e \in Expense :
           Stays(e) /\ expenses[e].doc # None =>
             /\ Stays(e)'
             /\ expenses'[e].amount = expenses[e].amount]_expensesVars
  BY AutoStep DEF Made, Unchanged
<1> QED
  BY <1>1, InvariantHolds, PTL DEF Spec, AutoEntriesReadOnly

-----------------------------------------------------------------------------
\* What this service does to the ledger's state is a run of the ledger: what holds
\* of every run of it (LedgerProofs) holds here too.
THEOREM ExpensesUseLedger == Spec => L!Spec
<1>1. Init => L!Init
  BY DEF Init, EmptyBooks
<1>2. [Next]_expensesVars => [L!Next]_ledgerVars
  <2> SUFFICES ASSUME [Next]_expensesVars
               PROVE  L!Next \/ UNCHANGED ledgerVars
    OBVIOUS
  <2>1. ASSUME NEW p \in Caller, NEW e \in Expense, NEW d, NEW m, NEW c \in Code,
               SaveAndPost(p, e, d, m, c)
        PROVE  L!Next
    BY <2>1 DEF SaveAndPost, L!Next
  <2>2. ASSUME NEW p \in Caller, Background(p)
        PROVE  L!Next \/ UNCHANGED ledgerVars
    <3>1. CASE \E e \in Expense, c \in Code : HookSave(p, e, c)
      BY <2>1, <3>1 DEF HookSave
    <3>2. CASE HookCheck(p) \/ HookFails(p) \/ Posting(p)
      BY <3>2 DEF HookCheck, HookFails, Restart, Posting, L!Next
    <3> QED
      BY <2>2, <3>1, <3>2 DEF Background
  <2>3. ASSUME NEW p \in Caller, Request(p)
        PROVE  L!Next \/ UNCHANGED ledgerVars
    <3>1. CASE \E e \in Expense, m \in Amount, c \in Hook : Create(p, e, m, c)
      BY <2>1, <3>1, ExpensesAssumption DEF Create
    <3>2. CASE \/ \E e \in Expense : UpdateFind(p, e)
               \/ \E m \in Amount : UpdateSave(p, m)
      BY <3>2 DEF UpdateFind, UpdateSave
    <3> QED
      BY <2>3, <3>1, <3>2 DEF Request
  <2>4. CASE \/ \E p \in Caller, d \in docs, m \in Amount : HookStart(p, d, m)
             \/ \E e \in Expense : Remove(e)
             \/ \E d \in docs : DocDeleted(d)
    BY <2>4 DEF HookStart, Remove, DocDeleted
  <2>5. CASE Accounts \/ Restart
    BY <2>5 DEF Accounts, Restart, L!Next
  <2>6. CASE UNCHANGED expensesVars
    BY <2>6 DEF expensesVars
  <2> QED
    BY <2>2, <2>3, <2>4, <2>5, <2>6 DEF Next
<1> QED
  BY <1>1, <1>2, PTL DEF Spec, L!Spec, ledgerVars, L!ledgerVars
=============================================================================
