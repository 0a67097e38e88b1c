-------------------------- MODULE LeadConversionProofs --------------------------
(***************************************************************************)
(* Proofs about Assistant and LeadConversion together, for any number of   *)
(* messages, handlers, conversions and promotions.  The rows that handlers *)
(* hold are what makes the difference: what is true of the stored row must *)
(* be true of every copy that may still be saved over it.                  *)
(***************************************************************************)
EXTENDS LeadConversion, TLAPS

\* True of the stored row and of every copy of it: its marker was answered, and
\* QUALIFIED comes with all the fields.
Good(r, answered) ==
  r # NoRow => /\ r.lastHandled # NoMessage => r.lastHandled \in answered
               /\ r.leadStatus = "QUALIFIED" => r.fields = Required

\* A handler answers a message that was sent, holds a row from the moment it has
\* loaded one, and saves that row only after its reply.
Ordered(t, asked, answered) ==
  /\ t.op = "reply" => t.msg \in asked
  /\ t.at \in {"merge", "flag"} => t.msg \in answered
  /\ t.at \in {"loaded", "compose", "merge", "fallback", "flag"} => t.held # NoRow
  /\ Good(t.held, answered)

Holding(t) == t.op = "reply" /\ t.at # "fallback" /\ t.at # "flag"

ChatInv == /\ TypeOK /\ OneReplyComposed /\ Good(row, said)
           /\ \A h \in Handler : Ordered(task[h], sent, said)

\* What a conversion holds, and what it has done by then.
SaleInv == /\ ConversionTypeOK
           /\ \A c \in Clerk : /\ clerk[c].at # "free" => clerk[c].held # NoRow
                               /\ Good(clerk[c].held, said)
                               /\ clerk[c].at \in {"find", "create", "mark"} => role = "CLIENT"
           /\ PromotedHasRecord /\ MarkedHasClient

IInv == ChatInv /\ SaleInv

-----------------------------------------------------------------------------
\* One handler takes one step: the guard follows what that handler does.
LEMMA HandlerStep ==
  ASSUME ChatInv, NEW h \in Handler, NEW t \in Task,
         task' = [task EXCEPT ![h] = t],
         Ordered(t, sent', said'), Good(row', said'), row' \in Row \cup {NoRow},
         sent \subseteq sent', sent' \subseteq Message,
         said \subseteq said', said' \subseteq sent',
         Holding(t) /\ ~Holding(task[h]) => ~inFlight,
         inFlight' = IF Holding(t) THEN TRUE
                     ELSE IF Holding(task[h]) THEN FALSE ELSE inFlight
  PROVE  ChatInv'
<1>1. /\ task'[h] = t /\ \A g \in Handler : g # h => task'[g] = task[g]
      /\ task' \in [Handler -> Task]
  BY DEF ChatInv, TypeOK
<1>2. TypeOK'
  BY <1>1 DEF ChatInv, TypeOK
<1>3. \A g \in Handler : Ordered(task'[g], sent', said')
  BY <1>1 DEF ChatInv, Ordered, Good
<1>4. OneReplyComposed'
  <2>1. \A g \in Handler : Guarded(g) = Holding(task[g]) /\ Guarded(g)' = Holding(task'[g])
    BY DEF Guarded, Holding
  <2>2. /\ inFlight <=> \E g \in Handler : Holding(task[g])
        /\ \A f, g \in Handler : Holding(task[f]) /\ Holding(task[g]) => f = g
    BY <2>1 DEF ChatInv, OneReplyComposed
  <2>3. /\ inFlight' <=> \E g \in Handler : Holding(task'[g])
        /\ \A f, g \in Handler : Holding(task'[f]) /\ Holding(task'[g]) => f = g
    BY <1>1, <2>2
  <2> QED
    BY <2>1, <2>3 DEF OneReplyComposed
<1> QED
  BY <1>2, <1>3, <1>4 DEF ChatInv

\* Any handler may end: what it held is forgotten, what it saved was good.
LEMMA EndStep ==
  ASSUME ChatInv, NEW h \in Handler, End(h), Good(row', said'), row' \in Row \cup {NoRow},
         UNCHANGED <<sent, said>>
  PROVE  ChatInv'
<1>1. Free \in Task /\ ~Holding(Free) /\ Ordered(Free, sent', said')
  BY DEF Free, Task, Holding, Ordered, Good
<1>2. task' = [task EXCEPT ![h] = Free]
  BY DEF End
<1>3. inFlight' = IF Holding(task[h]) THEN FALSE ELSE inFlight
  BY DEF End, Guarded, Holding
<1>4. said \subseteq sent /\ sent \subseteq Message
  BY DEF ChatInv, TypeOK
<1> QED
  BY <1>1, <1>2, <1>3, <1>4, HandlerStep

LEMMA StatusDerived ==
  ASSUME NEW fields \in 0..Required, NEW model \in Lead
  PROVE  /\ deriveStatus(fields, model) \in Lead
         /\ deriveStatus(fields, model) = "QUALIFIED" => fields = Required
BY DEF deriveStatus, Lead

\* Loading, and moving on without saving.
LEMMA ChatLoads ==
  ASSUME ChatInv, NEW h \in Handler,
         \/ \E m \in Message : Receive(h, m)
         \/ \E op \in {"takeOver", "returnToAi", "getState"} : Ask(h, op)
         \/ Find(h) \/ Insert(h) \/ Compose(h) \/ FallBack(h) \/ Say(h)
  PROVE  ChatInv'
<1> USE AssistantAssumption
<1>1. /\ task[h] \in Task /\ Ordered(task[h], sent, said) /\ Good(row, said)
      /\ row \in Row \cup {NoRow} /\ inFlight \in BOOLEAN
      /\ said \subseteq sent /\ sent \subseteq Message
  BY DEF ChatInv, TypeOK
<1>2. Free \in Task /\ ~Holding(Free) /\ Free.held = NoRow
  BY DEF Free, Task, Holding
<1>3. ASSUME NEW m \in Message, Receive(h, m) PROVE ChatInv'
  <2> DEFINE t == [op |-> "reply", at |-> "load", msg |-> m, held |-> NoRow]
  <2>1. /\ sent \subseteq sent' /\ sent' \subseteq Message /\ m \in sent'
        /\ row' = row /\ said' = said /\ task[h] = Free
    BY <1>1, <1>3 DEF Receive
  <2>2. Good(row', said')
    BY <1>1, <2>1 DEF Good
  <2>3. CASE inFlight
    <3>1. task' = [task EXCEPT ![h] = task[h]] /\ inFlight' = inFlight
      BY <1>3, <2>3 DEF Receive, ChatInv, TypeOK
    <3>2. Ordered(task[h], sent', said') /\ ~Holding(task[h])
      BY <1>2, <2>1 DEF Ordered, Good, Free
    <3> QED
      BY <1>1, <2>1, <2>2, <3>1, <3>2, HandlerStep
  <2>4. CASE ~inFlight
    <3>1. task' = [task EXCEPT ![h] = t] /\ inFlight' = TRUE
      BY <1>3, <2>4 DEF Receive
    <3>2. t \in Task /\ Holding(t) /\ Ordered(t, sent', said')
      BY <2>1 DEF Task, Holding, Ordered, Good
    <3> HIDE DEF t
    <3> QED
      BY <1>1, <2>1, <2>2, <2>4, <3>1, <3>2, HandlerStep
  <2> QED
    BY <2>3, <2>4
<1>4. ASSUME NEW op \in {"takeOver", "returnToAi", "getState"}, Ask(h, op)
      PROVE  ChatInv'
  <2> DEFINE t == [op |-> op, at |-> "load", msg |-> NoMessage, held |-> NoRow]
  <2>1. /\ task' = [task EXCEPT ![h] = t] /\ task[h] = Free
        /\ UNCHANGED <<row, inFlight, sent, said>>
    BY <1>4 DEF Ask
  <2>2. t \in Task /\ ~Holding(t) /\ Ordered(t, sent', said') /\ Good(row', said')
    BY <1>1, <2>1 DEF Task, Holding, Ordered, Good
  <2> HIDE DEF t
  <2> QED
    BY <1>1, <1>2, <2>1, <2>2, HandlerStep
<1>5. ASSUME Find(h) \/ Compose(h) \/ FallBack(h) PROVE ChatInv'
  <2>1. PICK t \in Task :
          /\ task' = [task EXCEPT ![h] = t]
          /\ t.op = task[h].op /\ t.msg = task[h].msg
          /\ t.held \in {task[h].held, row} /\ task[h].at \notin {"fallback", "flag"}
          /\ t.at \in {"insert", "loaded", "compose", "fallback"}
          /\ t.held = NoRow => t.at = "insert"
    <3>1. CASE Find(h)
      <4> DEFINE t == [task[h] EXCEPT !.at = IF row = NoRow THEN "insert" ELSE "loaded",
                                      !.held = row]
      <4>1. task' = [task EXCEPT ![h] = t]
        BY <3>1 DEF Find
      <4>2. t \in Task
        BY <1>1 DEF Task
      <4> QED
        BY <1>1, <3>1, <4>1, <4>2 DEF Task, Find
    <3>2. CASE Compose(h) \/ FallBack(h)
      <4>1. PICK at \in {"compose", "fallback"} : task' = [task EXCEPT ![h].at = at]
        BY <3>2 DEF Compose, FallBack, Step
      <4> DEFINE t == [task[h] EXCEPT !.at = at]
      <4>2. t \in Task /\ task' = [task EXCEPT ![h] = t]
        BY <1>1, <4>1 DEF Task
      <4>3. task[h].at = "loaded" /\ task[h].held # NoRow
        BY <1>1, <3>2 DEF Compose, FallBack, Pass, Busy, Ordered
      <4> QED
        BY <1>1, <4>2, <4>3 DEF Task
    <3> QED
      BY <1>5, <3>1, <3>2
  <2>2. /\ UNCHANGED <<row, sent, said>>
        /\ inFlight' = IF Holding(t) THEN TRUE
                       ELSE IF Holding(task[h]) THEN FALSE ELSE inFlight
    <3>1. ASSUME Holding(task[h]) PROVE inFlight = TRUE
      BY <3>1, <1>1 DEF ChatInv, OneReplyComposed, Guarded, Holding
    <3>2. Holding(t) => Holding(task[h])
      BY <2>1 DEF Holding
    <3>3. CASE FallBack(h)
      <4>1. Holding(task[h]) /\ task'[h].at = "fallback"
        BY <1>1, <3>3 DEF FallBack, Pass, Busy, Holding, Step, ChatInv, TypeOK, Task
      <4>2. task'[h] = t
        BY <2>1 DEF ChatInv, TypeOK
      <4> QED
        BY <3>3, <4>1, <4>2 DEF FallBack, Holding
    <3>4. CASE Find(h) \/ Compose(h)
      <4>1. task'[h].at \in {"insert", "loaded", "compose"}
        BY <1>1, <3>4 DEF Find, Compose, Step, ChatInv, TypeOK, Task
      <4>2. task'[h] = t
        BY <2>1 DEF ChatInv, TypeOK
      <4>3. Holding(t) = Holding(task[h])
        BY <2>1, <4>1, <4>2 DEF Holding
      <4> QED
        BY <1>1, <3>1, <3>4, <4>3 DEF Find, Compose
    <3> QED
      BY <1>5, <3>3, <3>4
  <2>3. Holding(t) => Holding(task[h])
    BY <2>1 DEF Holding
  <2>4. Ordered(t, sent', said') /\ Good(row', said')
    BY <1>1, <2>1, <2>2 DEF Ordered, Good
  <2> QED
    BY <1>1, <2>1, <2>2, <2>3, <2>4, HandlerStep
<1>6. ASSUME Insert(h) PROVE ChatInv'
  <2>1. row' \in Row /\ Good(row', said')
    <3>1. FreshRow \in Row /\ FreshRow.lastHandled = NoMessage /\ FreshRow.leadStatus = "NEW"
      BY DEF FreshRow, Row, Lead
    <3> QED
      BY <1>1, <1>6, <3>1 DEF Insert, Good
  <2> DEFINE t == [task[h] EXCEPT !.at = "loaded", !.held = row']
  <2>2. task' = [task EXCEPT ![h] = t] /\ UNCHANGED <<inFlight, sent, said>>
    BY <1>6 DEF Insert
  <2>3. /\ t \in Task /\ t.at = "loaded" /\ t.held = row' /\ t.op = task[h].op
        /\ t.msg = task[h].msg
    BY <1>1, <2>1 DEF Task
  <2> HIDE DEF t
  <2>4. Ordered(t, sent', said') /\ row' # NoRow
    BY <1>1, <2>1, <2>2, <2>3 DEF Ordered, Good
  <2>5. Holding(t) = Holding(task[h]) /\ (Holding(task[h]) => inFlight)
    BY <1>1, <1>6, <2>3 DEF Holding, Insert, ChatInv, OneReplyComposed, Guarded
  <2> QED
    BY <1>1, <2>1, <2>2, <2>3, <2>4, <2>5, HandlerStep
<1>7. ASSUME Say(h) PROVE ChatInv'
  <2> DEFINE t == [task[h] EXCEPT !.at = IF task[h].at = "compose" THEN "merge" ELSE "flag"]
  <2>1. /\ task' = [task EXCEPT ![h] = t] /\ UNCHANGED <<row, inFlight, sent>>
        /\ said' = said \cup {task[h].msg} /\ task[h].op = "reply"
        /\ task[h].at \in {"compose", "fallback"}
    BY <1>7 DEF Say, Step
  <2>2. /\ t \in Task /\ t.op = "reply" /\ t.msg = task[h].msg /\ t.held = task[h].held
        /\ t.at = IF task[h].at = "compose" THEN "merge" ELSE "flag"
    BY <1>1, <2>1 DEF Task
  <2> HIDE DEF t
  <2>3. Ordered(t, sent', said') /\ Good(row', said') /\ said' \subseteq sent'
    BY <1>1, <2>1, <2>2 DEF Ordered, Good
  <2>4. Holding(t) = Holding(task[h]) /\ (Holding(task[h]) => inFlight)
    BY <1>1, <2>1, <2>2 DEF Holding, ChatInv, OneReplyComposed, Guarded
  <2> QED
    BY <1>1, <2>1, <2>2, <2>3, <2>4, HandlerStep
<1> QED
  BY <1>3, <1>4, <1>5, <1>6, <1>7

\* Ending, after saving the held row or without.
LEMMA ChatEnds ==
  ASSUME ChatInv, NEW h \in Handler,
         \/ Muted(h) \/ SaveReply(h) \/ SaveFallback(h) \/ Fail(h)
         \/ TakeOver(h) \/ ReturnToAi(h) \/ GetState(h)
  PROVE  ChatInv'
<1> USE AssistantAssumption
<1>1. /\ task[h] \in Task /\ Ordered(task[h], sent, said) /\ Good(row, said) /\ row \in Row \cup {NoRow}
  BY DEF ChatInv, TypeOK
<1>2. CASE Muted(h) \/ Fail(h) \/ GetState(h)
  <2>1. End(h) /\ UNCHANGED <<row, sent, said>>
    BY <1>2 DEF Muted, Fail, GetState
  <2>2. Good(row', said') /\ row' \in Row \cup {NoRow}
    BY <1>1, <2>1 DEF Good
  <2> QED
    BY <2>1, <2>2, EndStep
<1>3. CASE SaveReply(h)
  <2>1. task[h].held \in Row /\ task[h].msg \in said /\ task[h].msg \in Message /\ said' = said
    BY <1>1, <1>3 DEF SaveReply, Busy, Ordered, Task, ChatInv, TypeOK
  <2>2. PICK fields \in task[h].held.fields..Required, model \in Lead :
          row' = [task[h].held EXCEPT !.fields = fields,
                                      !.leadStatus = deriveStatus(fields, model),
                                      !.lastHandled = task[h].msg]
    BY <1>3 DEF SaveReply
  <2>3. fields \in 0..Required
    BY <2>1, <2>2 DEF Row
  <2>4. /\ deriveStatus(fields, model) \in Lead
        /\ deriveStatus(fields, model) = "QUALIFIED" => fields = Required
    BY <2>3, StatusDerived
  <2>5. /\ row' \in Row /\ row'.fields = fields /\ row'.lastHandled = task[h].msg
        /\ row'.leadStatus = deriveStatus(fields, model)
    BY <2>1, <2>2, <2>3, <2>4 DEF Row
  <2>6. Good(row', said')
    BY <2>1, <2>4, <2>5 DEF Good
  <2> QED
    BY <1>3, <2>5, <2>6, EndStep DEF SaveReply
<1>4. CASE SaveFallback(h)
  <2>1. task[h].held \in Row /\ task[h].msg \in said /\ task[h].msg \in Message /\ said' = said
    BY <1>1, <1>4 DEF SaveFallback, Busy, Ordered, Task, ChatInv, TypeOK
  <2>2. /\ row' \in Row /\ row'.fields = task[h].held.fields /\ row'.lastHandled = task[h].msg
        /\ row'.leadStatus = task[h].held.leadStatus
    BY <1>4, <2>1 DEF SaveFallback, Row
  <2>3. Good(row', said')
    BY <1>1, <2>1, <2>2 DEF Good, Ordered
  <2> QED
    BY <1>4, <2>2, <2>3, EndStep DEF SaveFallback
<1>5. CASE TakeOver(h) \/ ReturnToAi(h)
  <2>1. task[h].held \in Row /\ said' = said /\ End(h) /\ UNCHANGED <<sent, said>>
    BY <1>1, <1>5 DEF TakeOver, ReturnToAi, Busy, Ordered, Task
  <2>2. PICK mode \in {"AI", "HUMAN"} : row' = [task[h].held EXCEPT !.controlMode = mode]
    BY <1>5 DEF TakeOver, ReturnToAi
  <2>3. /\ row' \in Row /\ row'.fields = task[h].held.fields
        /\ row'.lastHandled = task[h].held.lastHandled
        /\ row'.leadStatus = task[h].held.leadStatus
    BY <2>1, <2>2 DEF Row
  <2>4. Good(row', said')
    BY <1>1, <2>1, <2>3 DEF Good, Ordered
  <2> QED
    BY <2>1, <2>3, <2>4, EndStep
<1> QED
  BY <1>2, <1>3, <1>4, <1>5

-----------------------------------------------------------------------------
(* Conversions and promotions.                                               *)

Errand == [at : {"free", "save", "find", "create", "mark"}, held : Row \cup {NoRow}]

\* The assistant leaves conversions alone; what was answered stays so.
LEMMA ChatLeavesSales ==
  ASSUME IInv, ChatInv', said \subseteq said', UNCHANGED saleVars
  PROVE  IInv'
<1>1. ConversionTypeOK'
  BY DEF IInv, SaleInv, ConversionTypeOK, ChatInv, saleVars
<1>2. PromotedHasRecord' /\ MarkedHasClient'
  BY DEF IInv, SaleInv, saleVars, PromotedHasRecord, Promoting, MarkedHasClient
<1>3. SaleInv'
  BY <1>1, <1>2 DEF IInv, SaleInv, saleVars, Good
<1> QED
  BY <1>3 DEF IInv

\* The conversation is as it was.
LEMMA ChatUntouched ==
  ASSUME IInv, UNCHANGED vars
  PROVE  ChatInv'
BY DEF IInv, ChatInv, TypeOK, OneReplyComposed, Guarded, vars

\* One conversion takes one step; leaving "find" or "create" takes a client or
\* is a failure that shows.
LEMMA ClerkStep ==
  ASSUME IInv, ChatInv', said' = said, admin' = admin, NEW c \in Clerk, NEW k \in Errand,
         clerk' = [clerk EXCEPT ![c] = k],
         k.at # "free" => k.held # NoRow,
         Good(k.held, said),
         role' \in {role, "CLIENT"}, role' # role => k.at = "find",
         k.at \in {"find", "create", "mark"} => role' = "CLIENT",
         client' \in BOOLEAN, client => client', k.at = "mark" => client',
         broken' \in BOOLEAN, broken => broken',
         clerk[c].at \in {"find", "create"} /\ k.at \notin {"find", "create"}
           => client' \/ broken'
  PROVE  IInv'
<1>1. /\ clerk'[c] = k /\ \A d \in Clerk : d # c => clerk'[d] = clerk[d]
      /\ clerk' \in [Clerk -> Errand]
  BY DEF IInv, SaleInv, ConversionTypeOK, Errand
<1>2. ConversionTypeOK'
  BY <1>1 DEF IInv, SaleInv, ConversionTypeOK, ChatInv, Errand
<1>3. PromotedHasRecord'
  BY <1>1 DEF IInv, SaleInv, PromotedHasRecord, Promoting
<1>4. MarkedHasClient'
  BY <1>1 DEF IInv, SaleInv, MarkedHasClient
<1>5. SaleInv'
  BY <1>1, <1>2, <1>3, <1>4 DEF IInv, SaleInv
<1> QED
  BY <1>5 DEF IInv

\* One promotion takes one step.
LEMMA AdminStep ==
  ASSUME IInv, UNCHANGED <<vars, clerk>>, NEW a \in Admin,
         NEW at \in {"free", "save", "find", "create"},
         admin' = [admin EXCEPT ![a] = at],
         role' \in {role, "CLIENT"}, role' # role => at = "find",
         client' \in BOOLEAN, client => client', broken' \in BOOLEAN, broken => broken',
         admin[a] \in {"find", "create"} /\ at \notin {"find", "create"}
           => client' \/ broken'
  PROVE  IInv'
<1>1. /\ admin'[a] = at /\ \A b \in Admin : b # a => admin'[b] = admin[b]
      /\ admin' \in [Admin -> {"free", "save", "find", "create"}]
  BY DEF IInv, SaleInv, ConversionTypeOK
<1>2. ChatInv' /\ said' = said
  BY ChatUntouched DEF vars
<1>3. ConversionTypeOK'
  BY <1>1, <1>2 DEF IInv, SaleInv, ConversionTypeOK, ChatInv
<1>4. PromotedHasRecord'
  BY <1>1 DEF IInv, SaleInv, PromotedHasRecord, Promoting
<1>5. MarkedHasClient'
  BY <1>1 DEF IInv, SaleInv, MarkedHasClient
<1>6. SaleInv'
  BY <1>1, <1>2, <1>3, <1>4, <1>5 DEF IInv, SaleInv
<1> QED
  BY <1>2, <1>6 DEF IInv

LEMMA ConvertSteps ==
  ASSUME IInv, NEW c \in Clerk, Convert(c)
  PROVE  IInv'
<1> USE AssistantAssumption
<1>1. /\ clerk[c] \in Errand /\ Good(clerk[c].held, said) /\ Good(row, said)
      /\ clerk[c].at # "free" => clerk[c].held \in Row
      /\ row \in Row \cup {NoRow} /\ broken \in BOOLEAN
      /\ role \in {"LEAD", "CLIENT"} /\ client \in BOOLEAN
      /\ clerk[c].at \in {"find", "create", "mark"} => role = "CLIENT"
  BY DEF IInv, SaleInv, ChatInv, TypeOK, ConversionTypeOK, Errand
<1>2. Idle \in Errand /\ Idle.at = "free" /\ Idle.held = NoRow /\ Good(Idle.held, said)
  BY DEF Idle, Errand, Good
<1>3. CASE ConvertFind(c)
  <2> DEFINE k == [at |-> "save", held |-> row]
  <2>1. /\ clerk' = [clerk EXCEPT ![c] = k] /\ row # NoRow /\ clerk[c].at = "free"
        /\ UNCHANGED <<vars, role, client, admin, broken>>
    BY <1>3 DEF ConvertFind
  <2>2. k \in Errand /\ k.at = "save" /\ k.held = row
    BY <1>1 DEF Errand
  <2> HIDE DEF k
  <2>3. ChatInv' /\ said' = said
    BY <2>1, ChatUntouched DEF vars
  <2> QED
    BY <1>1, <2>1, <2>2, <2>3, ClerkStep
<1>4. CASE ConvertUser(c) \/ ConvertFindClient(c)
  <2>1. PICK at \in {"find", "create", "mark"} :
          /\ clerk' = [clerk EXCEPT ![c].at = at]
          /\ at = "mark" => client
          /\ clerk[c].at \in {"save", "find"}
          /\ at = "find" => role' = "CLIENT"
          /\ at # "find" => role' = role /\ clerk[c].at = "find"
    BY <1>4 DEF ConvertUser, ConvertFindClient
  <2> DEFINE k == [clerk[c] EXCEPT !.at = at]
  <2>2. /\ k \in Errand /\ k.at = at /\ k.at \in {"find", "create", "mark"}
        /\ k.held = clerk[c].held /\ clerk' = [clerk EXCEPT ![c] = k]
    BY <1>1, <2>1 DEF Errand
  <2> HIDE DEF k
  <2>3. ChatInv' /\ said' = said /\ UNCHANGED <<client, admin, broken>>
    BY <1>4, ChatUntouched DEF vars, ConvertUser, ConvertFindClient
  <2>4. /\ k.held # NoRow /\ Good(k.held, said) /\ role' \in {role, "CLIENT"}
        /\ role' # role => k.at = "find"
        /\ k.at \in {"find", "create", "mark"} => role' = "CLIENT"
    BY <1>1, <2>1, <2>2
  <2>5. /\ client' \in BOOLEAN /\ broken' \in BOOLEAN
        /\ client => client'
        /\ k.at = "mark" => client'
        /\ broken => broken'
    BY <1>1, <2>1, <2>2, <2>3
  <2>6. clerk[c].at \in {"find", "create"} /\ k.at \notin {"find", "create"}
          => client' \/ broken'
    BY <2>2, <2>5
  <2> QED
    BY <2>2, <2>3, <2>4, <2>5, <2>6, ClerkStep
<1>5. CASE ConvertCreate(c)
  <2> DEFINE k == IF client THEN Idle ELSE [clerk[c] EXCEPT !.at = "mark"]
  <2>1. /\ clerk' = [clerk EXCEPT ![c] = k] /\ client' = TRUE /\ clerk[c].at = "create"
        /\ UNCHANGED <<vars, role, admin, broken>>
    BY <1>5 DEF ConvertCreate
  <2>2. k \in Errand /\ k.at \in {"free", "mark"} /\ k.held \in {clerk[c].held, NoRow}
        /\ (k.at = "mark" => k.held = clerk[c].held)
    BY <1>1, <1>2 DEF Errand
  <2> HIDE DEF k
  <2>3. ChatInv' /\ said' = said /\ Good(k.held, said)
    BY <1>1, <2>1, <2>2, ChatUntouched DEF vars, Good
  <2> QED
    BY <1>1, <2>1, <2>2, <2>3, ClerkStep
<1>6. CASE ConvertMark(c)
  <2>1. /\ clerk' = [clerk EXCEPT ![c] = Idle] /\ clerk[c].held \in Row /\ clerk[c].at = "mark"
        /\ UNCHANGED <<inFlight, sent, said, task, role, client, admin, broken>>
    BY <1>1, <1>6 DEF ConvertMark
  <2>2. row' \in Row \cup {NoRow} /\ Good(row', said)
    <3>1. CASE clerk[c].held.leadStatus = "CONVERTED"
      BY <1>1, <1>6, <3>1 DEF ConvertMark
    <3>2. CASE clerk[c].held.leadStatus # "CONVERTED"
      <4>1. row' = [clerk[c].held EXCEPT !.leadStatus = "CONVERTED"]
        BY <1>6, <3>2 DEF ConvertMark
      <4>2. /\ row' \in Row /\ row'.leadStatus = "CONVERTED"
            /\ row'.lastHandled = clerk[c].held.lastHandled
        BY <2>1, <4>1 DEF Row, Lead
      <4> QED
        BY <1>1, <2>1, <4>2 DEF Good
    <3> QED
      BY <3>1, <3>2
  <2>3. ChatInv'
    BY <2>1, <2>2 DEF IInv, ChatInv, TypeOK, OneReplyComposed, Guarded
  <2> QED
    BY <1>1, <1>2, <2>1, <2>3, ClerkStep
<1>7. CASE ConvertFails(c)
  <2>1. /\ clerk' = [clerk EXCEPT ![c] = Idle]
        /\ broken' = (broken \/ clerk[c].at \in {"find", "create"})
        /\ UNCHANGED <<vars, role, client, admin>>
    BY <1>7 DEF ConvertFails
  <2>2. ChatInv' /\ said' = said
    BY <2>1, ChatUntouched DEF vars
  <2> QED
    BY <1>1, <1>2, <2>1, <2>2, ClerkStep
<1> QED
  BY <1>3, <1>4, <1>5, <1>6, <1>7 DEF Convert

LEMMA PromoteSteps ==
  ASSUME IInv, NEW a \in Admin, Promote(a)
  PROVE  IInv'
<1>1. /\ broken \in BOOLEAN /\ role \in {"LEAD", "CLIENT"} /\ client \in BOOLEAN
      /\ admin[a] \in {"free", "save", "find", "create"}
  BY DEF IInv, SaleInv, ConversionTypeOK
<1>2. PICK at \in {"free", "save", "find", "create"} :
        /\ admin' = [admin EXCEPT ![a] = at]
        /\ role' # role => at = "find"
        /\ admin[a] \in {"find", "create"} /\ at \notin {"find", "create"} => client' \/ broken'
  BY <1>1 DEF Promote, PromoteFind, PromoteUser, PromoteFindClient, PromoteCreate, PromoteFails
<1>3. /\ UNCHANGED <<vars, clerk>> /\ role' \in {role, "CLIENT"}
      /\ client' \in BOOLEAN /\ broken' \in BOOLEAN
      /\ client => client'
      /\ broken => broken'
  BY <1>1 DEF Promote, PromoteFind, PromoteUser, PromoteFindClient, PromoteCreate, PromoteFails
<1> QED
  BY <1>2, <1>3, AdminStep

LEMMA RestartStep == ASSUME IInv, Restart PROVE IInv'
<1>1. /\ task' = [h \in Handler |-> Free] /\ inFlight' = FALSE
      /\ clerk' = [c \in Clerk |-> Idle] /\ admin' = [a \in Admin |-> "free"]
      /\ broken' = (broken \/ Promoting)
      /\ UNCHANGED <<row, sent, said, role, client>>
  BY DEF Restart, Crash
<1>2. /\ Free \in Task /\ ~Holding(Free) /\ Ordered(Free, sent, said)
      /\ Idle.at = "free" /\ Idle.held = NoRow /\ Good(Idle.held, said)
      /\ Idle \in Errand
  BY DEF Free, Task, Holding, Ordered, Good, Idle, Errand
<1>3. ChatInv'
  <2>1. TypeOK'
    BY <1>1, <1>2 DEF IInv, ChatInv, TypeOK
  <2>2. \A h \in Handler : ~Guarded(h)'
    BY <1>1 DEF Guarded, Free
  <2> QED
    BY <1>1, <1>2, <2>1, <2>2 DEF IInv, ChatInv, OneReplyComposed
<1>4. ConversionTypeOK'
  BY <1>1, <1>2, <1>3 DEF IInv, SaleInv, ConversionTypeOK, ChatInv, Errand, Promoting
<1>5. PromotedHasRecord' /\ MarkedHasClient'
  BY <1>1, <1>2 DEF IInv, SaleInv, PromotedHasRecord, MarkedHasClient, Promoting
<1>6. SaleInv'
  BY <1>1, <1>2, <1>4, <1>5 DEF SaleInv
<1> QED
  BY <1>3, <1>6 DEF IInv

LEMMA InvariantStep == IInv /\ [ConversionNext]_<<vars, saleVars>> => IInv'
<1> SUFFICES ASSUME IInv, [ConversionNext]_<<vars, saleVars>> PROVE IInv'
  OBVIOUS
<1>1. ASSUME NEW h \in Handler, Chat(h) PROVE IInv'
  <2>1. ChatInv'
    <3>1. CASE \/ \E m \in Message : Receive(h, m)
               \/ \E op \in {"takeOver", "returnToAi", "getState"} : Ask(h, op)
               \/ Find(h) \/ Insert(h) \/ Compose(h) \/ FallBack(h) \/ Say(h)
      BY <3>1, ChatLoads DEF IInv
    <3>2. CASE \/ Muted(h) \/ SaveReply(h) \/ SaveFallback(h) \/ Fail(h)
               \/ TakeOver(h) \/ ReturnToAi(h) \/ GetState(h)
      BY <3>2, ChatEnds DEF IInv
    <3> QED
      BY <1>1, <3>1, <3>2 DEF Chat, Progress
  <2>2. said \subseteq said'
    BY <1>1 DEF Chat, Progress, Receive, Ask, Find, Insert, Compose, FallBack, Say, Muted,
                SaveReply, SaveFallback, Fail, TakeOver, ReturnToAi, GetState
  <2> QED
    BY <1>1, <2>1, <2>2, ChatLeavesSales DEF Chat
<1>2. CASE UNCHANGED <<vars, saleVars>>
  BY <1>2, ChatUntouched, ChatLeavesSales DEF vars
<1> QED
  BY <1>1, <1>2, ConvertSteps, PromoteSteps, RestartStep DEF ConversionNext

LEMMA InvariantHolds == ConversionSpec => []IInv
<1>1. ASSUME ConversionInit PROVE IInv
  <2>1. ChatInv
    BY <1>1 DEF ConversionInit, Init, Free, ChatInv, TypeOK, Task, OneReplyComposed, Guarded,
                Ordered, Good
  <2>2. SaleInv
    <3>1. ConversionTypeOK
      BY <1>1, <2>1 DEF ConversionInit, Idle, ChatInv, ConversionTypeOK
    <3> QED
      BY <1>1, <3>1 DEF ConversionInit, Idle, SaleInv, Good, PromotedHasRecord, MarkedHasClient
  <2> QED
    BY <2>1, <2>2 DEF IInv
<1> QED
  BY <1>1, InvariantStep, PTL DEF ConversionSpec

-----------------------------------------------------------------------------
\* Variables keep the values the code can give them.
THEOREM TypeCorrect == ConversionSpec => []ConversionTypeOK
<1>1. IInv => ConversionTypeOK
  BY DEF IInv, SaleInv
<1> QED
  BY <1>1, InvariantHolds, PTL

\* However many messages arrive and handlers fail: one reply at a time is composed,
\* and the guard is up exactly while one is.
THEOREM OneAtATime == ConversionSpec => []OneReplyComposed
<1>1. IInv => OneReplyComposed
  BY DEF IInv, ChatInv
<1> QED
  BY <1>1, InvariantHolds, PTL

\* Whichever stale copy of the state is saved last, its marker names a message
\* whose reply is in the chat.
THEOREM MarkersAreAnswered == ConversionSpec => []MarkedWasAnswered
<1>1. IInv => MarkedWasAnswered
  BY DEF IInv, ChatInv, Good, MarkedWasAnswered
<1> QED
  BY <1>1, InvariantHolds, PTL

\* Whichever stale copy of the state is saved last, QUALIFIED means all fields.
THEOREM QualifiedMeansComplete == ConversionSpec => []QualifiedIsComplete
<1>1. IInv => QualifiedIsComplete
  BY DEF IInv, ChatInv, Good, QualifiedIsComplete
<1> QED
  BY <1>1, InvariantHolds, PTL

\* However conversions and promotions of one customer overlap, a CLIENT has a
\* client record unless the request that promoted them is at it or broke off.
THEOREM ClientsHaveRecords == ConversionSpec => []PromotedHasRecord
<1>1. IInv => PromotedHasRecord
  BY DEF IInv, SaleInv
<1> QED
  BY <1>1, InvariantHolds, PTL

\* A conversion that goes on to mark its lead and create the tenant has a client.
THEOREM ConversionsHaveClients == ConversionSpec => []MarkedHasClient
<1>1. IInv => MarkedHasClient
  BY DEF IInv, SaleInv
<1> QED
  BY <1>1, InvariantHolds, PTL
=============================================================================
