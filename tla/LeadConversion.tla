---------------------------- MODULE LeadConversion ----------------------------
(***************************************************************************)
(* Turning the customer of an assisted conversation into a client, beside  *)
(* the assistant that is still talking to them: lead-conversion.service.ts *)
(* convert (from a conversation) and users.service.ts promoteLeadToClient. *)
(* Both save the user, then find or create the client record (unique per   *)
(* user), and convert then saves the whole assistant row it loaded first.  *)
(* The tenant that convert creates next is in SaasProvisioning.            *)
(***************************************************************************)
EXTENDS Assistant

CONSTANTS Clerk,  \* the conversion requests in progress
          Admin   \* the promotion requests in progress

VARIABLES role,      \* of the customer's user: "LEAD" or "CLIENT"
          client,    \* TRUE when the user has a client record
          clerk,     \* per conversion: its step and the assistant row it loaded
          admin,     \* per promotion: its step
          broken     \* history: a request failed or died after the user was saved

saleVars == <<role, client, clerk, admin, broken>>

Idle == [at |-> "free", held |-> NoRow]

ConversionInit == /\ Init
                  /\ role = "LEAD" /\ client = FALSE
                  /\ clerk = [c \in Clerk |-> Idle]
                  /\ admin = [a \in Admin |-> "free"]
                  /\ broken = FALSE

(* Some request has made the user CLIENT in the database and is not done.  *)
Promoting == \/ \E c \in Clerk : clerk[c].at \in {"find", "create"}
             \/ \E a \in Admin : admin[a] \in {"find", "create"}

-----------------------------------------------------------------------------
(* convert: the lead must be QUALIFIED, or CONVERTED by an earlier attempt *)
(* (or on the model's word).                                               *)
ConvertFind(c) ==
  /\ clerk[c].at = "free" /\ row # NoRow
  /\ row.leadStatus \in {"QUALIFIED", "CONVERTED"}
  /\ clerk' = [clerk EXCEPT ![c] = [at |-> "save", held |-> row]]
  /\ UNCHANGED <<vars, role, client, admin, broken>>

ConvertUser(c) ==
  /\ clerk[c].at = "save"
  /\ role' = "CLIENT"
  /\ clerk' = [clerk EXCEPT ![c].at = "find"]
  /\ UNCHANGED <<vars, client, admin, broken>>

ConvertFindClient(c) ==
  /\ clerk[c].at = "find"
  /\ clerk' = [clerk EXCEPT ![c].at = IF client THEN "mark" ELSE "create"]
  /\ UNCHANGED <<vars, role, client, admin, broken>>

(* The insert: when somebody else's came first, the unique user_id refuses *)
(* it and the conversion is an error.                                      *)
ConvertCreate(c) ==
  /\ clerk[c].at = "create"
  /\ client' = TRUE
  /\ clerk' = [clerk EXCEPT ![c] = IF client THEN Idle ELSE [@ EXCEPT !.at = "mark"]]
  /\ UNCHANGED <<vars, role, admin, broken>>

(* The lead is marked, with every other column as it was when loaded.      *)
ConvertMark(c) ==
  /\ clerk[c].at = "mark"
  /\ row' = IF clerk[c].held.leadStatus = "CONVERTED" THEN row
            ELSE [clerk[c].held EXCEPT !.leadStatus = "CONVERTED"]
  /\ clerk' = [clerk EXCEPT ![c] = Idle]
  /\ UNCHANGED <<inFlight, sent, said, task, role, client, admin, broken>>

ConvertFails(c) ==
  /\ clerk[c].at # "free"
  /\ broken' = (broken \/ clerk[c].at \in {"find", "create"})
  /\ clerk' = [clerk EXCEPT ![c] = Idle]
  /\ UNCHANGED <<vars, role, client, admin>>

-----------------------------------------------------------------------------
(* promoteLeadToClient: the user must be LEAD.                             *)
PromoteFind(a) ==
  /\ admin[a] = "free" /\ role = "LEAD"
  /\ admin' = [admin EXCEPT ![a] = "save"]
  /\ UNCHANGED <<vars, role, client, clerk, broken>>

PromoteUser(a) ==
  /\ admin[a] = "save"
  /\ role' = "CLIENT"
  /\ admin' = [admin EXCEPT ![a] = "find"]
  /\ UNCHANGED <<vars, client, clerk, broken>>

(* Slip: the promotion leaves the record to the conversion.                *)
PromoteWithoutRecord(a) ==
  /\ admin[a] = "find"
  /\ admin' = [admin EXCEPT ![a] = "free"]
  /\ UNCHANGED <<vars, role, client, clerk, broken>>

(* createFromLeadPromotion.                                                *)
PromoteFindClient(a) ==
  /\ admin[a] = "find"
  /\ admin' = [admin EXCEPT ![a] = IF client THEN "free" ELSE "create"]
  /\ UNCHANGED <<vars, role, client, clerk, broken>>

PromoteCreate(a) ==
  /\ admin[a] = "create"
  /\ client' = TRUE
  /\ admin' = [admin EXCEPT ![a] = "free"]
  /\ UNCHANGED <<vars, role, clerk, broken>>

(* A failure after the user was saved is logged and answered as success.   *)
PromoteFails(a) ==
  /\ admin[a] # "free"
  /\ broken' = (broken \/ admin[a] # "save")
  /\ admin' = [admin EXCEPT ![a] = "free"]
  /\ UNCHANGED <<vars, role, client, clerk>>

-----------------------------------------------------------------------------
Restart == /\ Crash
           /\ clerk' = [c \in Clerk |-> Idle] /\ admin' = [a \in Admin |-> "free"]
           /\ broken' = (broken \/ Promoting)
           /\ UNCHANGED <<role, client>>

Convert(c) == \/ ConvertFind(c) \/ ConvertUser(c) \/ ConvertFindClient(c)
              \/ ConvertCreate(c) \/ ConvertMark(c) \/ ConvertFails(c)

Promote(a) == \/ PromoteFind(a) \/ PromoteUser(a) \/ PromoteFindClient(a)
              \/ PromoteCreate(a) \/ PromoteFails(a)

Chat(h) == /\ \/ \E m \in Message : Receive(h, m)
              \/ \E op \in {"takeOver", "returnToAi", "getState"} : Ask(h, op)
              \/ Progress(h)
           /\ UNCHANGED saleVars

ConversionNext == \/ \E h \in Handler : Chat(h)
                  \/ \E c \in Clerk : Convert(c)
                  \/ \E a \in Admin : Promote(a)
                  \/ Restart

ConversionSpec == ConversionInit /\ [][ConversionNext]_<<vars, saleVars>>

-----------------------------------------------------------------------------
(* Variables have the values the code can give them.                       *)
ConversionTypeOK ==
  /\ TypeOK
  /\ role \in {"LEAD", "CLIENT"} /\ client \in BOOLEAN
  /\ clerk \in [Clerk -> [at : {"free", "save", "find", "create", "mark"},
                          held : Row \cup {NoRow}]]
  /\ admin \in [Admin -> {"free", "save", "find", "create"}]
  /\ broken \in BOOLEAN

(* A promoted user has a client record, unless the request that promoted   *)
(* them is still at it or broke off between the two saves; two promotions  *)
(* at once do not leave one without.                                       *)
PromotedHasRecord ==
  role = "CLIENT" => client \/ broken \/ Promoting

(* A conversion about to mark its lead CONVERTED (and then to create the *)
(* tenant) has its client: user promoted, record there, whoever made it.   *)
MarkedHasClient ==
  \A c \in Clerk : clerk[c].at = "mark" => client /\ role = "CLIENT"
=============================================================================
