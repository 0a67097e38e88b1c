------------------------------ MODULE Assistant ------------------------------
(***************************************************************************)
(* The chat assistant of one conversation (chatbot.service.ts, ai-state.   *)
(* service.ts): each customer message triggers one handler, fire and       *)
(* forget; a handler composes a reply with one model call, saves it as a   *)
(* chat message and then saves the conversation's state row, which staff   *)
(* requests (takeover, return) also load and save.  Every await is a       *)
(* switch point, and a save writes every column of the row that was loaded.*)
(***************************************************************************)
EXTENDS Naturals

CONSTANTS Message,  \* the customer's messages, each sent once
          Handler,  \* the requests and triggered handlers in progress
          Required, \* how many lead fields qualify a lead
          NoMessage, NoRow

Lead == {"NEW", "QUALIFYING", "QUALIFIED", "DISQUALIFIED", "CONVERTED"}

(* fields: how many of the required lead fields leadData holds.  The       *)
(* escalation flag, the takeover's author and the running summary travel   *)
(* with the row and decide nothing; they are left out.                     *)
Row == [controlMode : {"AI", "HUMAN"}, fields : 0..Required,
        leadStatus : Lead, lastHandled : Message \cup {NoMessage}]

(* What a handler is doing, for which message, and the row it loaded.      *)
Task == [op : {"free", "reply", "takeOver", "returnToAi", "getState"},
         at : {"free", "load", "insert", "loaded", "compose", "merge", "fallback", "flag"},
         msg : Message \cup {NoMessage}, held : Row \cup {NoRow}]

ASSUME AssistantAssumption ==
  Required \in Nat \ {0} /\ NoMessage \notin Message /\ NoRow \notin Row

FreshRow == [controlMode |-> "AI", fields |-> 0,
             leadStatus |-> "NEW", lastHandled |-> NoMessage]

VARIABLES row,      \* ai_conversation_state of the conversation, or NoRow
          inFlight, \* the process's guard holds the conversation
          sent,     \* messages sent
          said,     \* messages whose reply is in the chat
          task      \* per handler: what it is doing and the row it loaded

vars == <<row, inFlight, sent, said, task>>

Free == [op |-> "free", at |-> "free", msg |-> NoMessage, held |-> NoRow]

Busy(h, op, at) == task[h].op = op /\ task[h].at = at

(* The handlers that hold the guard: from gate 2 until "finally", which    *)
(* runs as soon as deliverFallback is CALLED, since its promise is         *)
(* returned and not awaited.                                               *)
Guarded(h) == task[h].op = "reply" /\ task[h].at # "fallback" /\ task[h].at # "flag"

Init == /\ row = NoRow /\ inFlight = FALSE /\ sent = {} /\ said = {}
        /\ task = [h \in Handler |-> Free]

End(h) == /\ task' = [task EXCEPT ![h] = Free]
          /\ inFlight' = IF Guarded(h) THEN FALSE ELSE inFlight

Step(h, at) == task' = [task EXCEPT ![h].at = at]

-----------------------------------------------------------------------------
(* A message is saved and its handler triggered; gate 2 drops it while     *)
(* another message of the conversation is handled.                         *)

(* Slip: gate 2 is not there.                                              *)
ReceiveAnyway(h, m) ==
  /\ m \notin sent /\ task[h] = Free
  /\ sent' = sent \cup {m} /\ inFlight' = TRUE
  /\ task' = [task EXCEPT ![h] = [op |-> "reply", at |-> "load", msg |-> m, held |-> NoRow]]
  /\ UNCHANGED <<row, said>>

Receive(h, m) ==
  /\ m \notin sent /\ task[h] = Free
  /\ sent' = sent \cup {m}
  /\ IF inFlight
     THEN UNCHANGED <<inFlight, task>>
     ELSE /\ inFlight' = TRUE
          /\ task' = [task EXCEPT ![h] =
                        [op |-> "reply", at |-> "load", msg |-> m, held |-> NoRow]]
  /\ UNCHANGED <<row, said>>

Ask(h, op) == /\ task[h] = Free
              /\ task' = [task EXCEPT ![h] =
                            [op |-> op, at |-> "load", msg |-> NoMessage, held |-> NoRow]]
              /\ UNCHANGED <<row, inFlight, sent, said>>

(* getOrCreate: find the row; or insert it, and when somebody else has     *)
(* inserted it meanwhile (duplicate key), read theirs.                     *)
Find(h) == /\ task[h].at = "load"
           /\ task' = [task EXCEPT ![h].at = IF row = NoRow THEN "insert" ELSE "loaded",
                                   ![h].held = row]
           /\ UNCHANGED <<row, inFlight, sent, said>>

Insert(h) == /\ task[h].at = "insert"
             /\ row' = IF row = NoRow THEN FreshRow ELSE row
             /\ task' = [task EXCEPT ![h].at = "loaded", ![h].held = row']
             /\ UNCHANGED <<inFlight, sent, said>>

(* Gates 3 and 4: a human has taken over, or the message was handled.      *)
Muted(h) == /\ Busy(h, "reply", "loaded")
            /\ task[h].held.controlMode = "HUMAN" \/ task[h].held.lastHandled = task[h].msg
            /\ End(h)
            /\ UNCHANGED <<row, sent, said>>

(* The one model call: a valid answer, or nothing usable (error, timeout,  *)
(* bad output) and the graceful fallback begins, guard released.           *)
Pass(h) == /\ Busy(h, "reply", "loaded")
           /\ task[h].held.controlMode = "AI" /\ task[h].held.lastHandled # task[h].msg

Compose(h) == /\ Pass(h) /\ Step(h, "compose")
              /\ UNCHANGED <<row, inFlight, sent, said>>

FallBack(h) == /\ Pass(h) /\ Step(h, "fallback")
               /\ inFlight' = FALSE
               /\ UNCHANGED <<row, sent, said>>

(* Slip: the state is marked before the reply is saved.                    *)
SayMarked(h) == /\ task[h].op = "reply" /\ task[h].at \in {"compose", "fallback"}
                /\ row' = [task[h].held EXCEPT !.lastHandled = task[h].msg]
                /\ Step(h, IF task[h].at = "compose" THEN "merge" ELSE "flag")
                /\ UNCHANGED <<inFlight, sent, said>>

(* saveMessage: the reply is in the chat.                                  *)
Say(h) == /\ task[h].op = "reply" /\ task[h].at \in {"compose", "fallback"}
          /\ said' = said \cup {task[h].msg}
          /\ Step(h, IF task[h].at = "compose" THEN "merge" ELSE "flag")
          /\ UNCHANGED <<row, inFlight, sent>>

(* Slip: the model's own status is believed.                               *)
ModelsStatus(fields, model) == model

(* LeadExtractionService.deriveStatus.                                     *)
deriveStatus(fields, model) ==
  IF model \in {"DISQUALIFIED", "CONVERTED"} THEN model
  ELSE IF fields = Required THEN "QUALIFIED"
  ELSE IF fields > 0 THEN "QUALIFYING" ELSE "NEW"

(* merge and stateService.save: extraction never empties a field.          *)
SaveReply(h) ==
  /\ Busy(h, "reply", "merge")
  /\ \E fields \in task[h].held.fields..Required, model \in Lead :
       row' = [task[h].held EXCEPT !.fields = fields,
                                   !.leadStatus = deriveStatus(fields, model),
                                   !.lastHandled = task[h].msg]
  /\ End(h)
  /\ UNCHANGED <<sent, said>>

SaveFallback(h) ==
  /\ Busy(h, "reply", "flag")
  /\ row' = [task[h].held EXCEPT !.lastHandled = task[h].msg]
  /\ End(h)
  /\ UNCHANGED <<sent, said>>

TakeOver(h) == /\ Busy(h, "takeOver", "loaded")
               /\ row' = [task[h].held EXCEPT !.controlMode = "HUMAN"]
               /\ End(h)
               /\ UNCHANGED <<sent, said>>

ReturnToAi(h) == /\ Busy(h, "returnToAi", "loaded")
                 /\ row' = [task[h].held EXCEPT !.controlMode = "AI"]
                 /\ End(h)
                 /\ UNCHANGED <<sent, said>>

(* GET state: getOrCreate only.                                            *)
GetState(h) == /\ Busy(h, "getState", "loaded")
               /\ End(h)
               /\ UNCHANGED <<row, sent, said>>

(* A database call fails: the error is swallowed by handleIncomingMessage  *)
(* (or answered to staff), and "finally" releases the guard.               *)
Fail(h) == /\ task[h] # Free
           /\ End(h)
           /\ UNCHANGED <<row, sent, said>>

(* The process restarts: handlers and the guard are gone, the row is not.  *)
Crash == /\ task' = [h \in Handler |-> Free] /\ inFlight' = FALSE
         /\ UNCHANGED <<row, sent, said>>

Progress(h) == \/ Find(h) \/ Insert(h) \/ Muted(h) \/ Compose(h) \/ FallBack(h)
               \/ Say(h) \/ SaveReply(h) \/ SaveFallback(h) \/ Fail(h)
               \/ TakeOver(h) \/ ReturnToAi(h) \/ GetState(h)

Next == \/ \E h \in Handler :
             \/ \E m \in Message : Receive(h, m)
             \/ \E op \in {"takeOver", "returnToAi", "getState"} : Ask(h, op)
             \/ Progress(h)
        \/ Crash

Spec == Init /\ [][Next]_vars

-----------------------------------------------------------------------------
(* Variables have the values the code can give them.                       *)
TypeOK ==
  /\ row \in Row \cup {NoRow} /\ inFlight \in BOOLEAN
  /\ sent \subseteq Message /\ said \subseteq sent
  /\ task \in [Handler -> Task]

(* Gate 2, "no double replies": of the handlers that have not fallen back, *)
(* one at a time works on the conversation, and the guard is up exactly    *)
(* while one does - so no failure leaves it up and mutes the assistant.    *)
OneReplyComposed ==
  /\ inFlight <=> \E h \in Handler : Guarded(h)
  /\ \A g, h \in Handler : Guarded(g) /\ Guarded(h) => g = h

(* The idempotency marker is only ever put on a message whose reply (or    *)
(* apology) is in the chat: a crash between the two saves may leave a      *)
(* reply unmarked but never a marked message unanswered.                   *)
MarkedWasAnswered ==
  row # NoRow /\ row.lastHandled # NoMessage => row.lastHandled \in said

(* A lead is QUALIFIED only with all required fields, whatever the model   *)
(* says and whichever stale row is saved last (lead-extraction.service.ts: *)
(* "QUALIFIED is granted by us only when all fields exist").               *)
QualifiedIsComplete ==
  row # NoRow /\ row.leadStatus = "QUALIFIED" => row.fields = Required

(* "A human agent takes over: mute the bot immediately": once a takeover   *)
(* is saved, only returnToAi hands the conversation back.                  *)
TakeoverLasts ==
  [][(row # NoRow /\ row.controlMode = "HUMAN" /\ row'.controlMode = "AI")
       => \E h \in Handler : ReturnToAi(h)]_vars
=============================================================================
