----------------------------- MODULE PublicLinks -----------------------------
(***************************************************************************)
(* handla-backend/src/common/public-token/public-token.service.ts and the  *)
(* handlers that call it (quotations, contracts, invoices).                *)
(*                                                                         *)
(* A document carries at most one capability token, with an expiry and a   *)
(* revocation mark.  A handler loads the document, lets PublicTokenService *)
(* change the token columns of the object in memory, and saves the whole   *)
(* object.  Every other save of the same document writes the token columns *)
(* back as well, as they were when that handler loaded it.                 *)
(***************************************************************************)
EXTENDS Naturals

CONSTANTS
  Doc,      \* documents: quotations, contracts or invoices
  Token,    \* tokens the generator can mint; it never repeats one
  Handler,  \* slots for concurrent requests
  Horizon,  \* bound: the last instant of the clock
  None

Time == 0 .. Horizon

\* publicTokenExpiresAt = null is a date after every instant.
Never == Horizon + 1

\* The token columns; revoked stands for publicTokenRevokedAt being set, which
\* only a document with a token has.
Link == {l \in [token : Token \cup {None}, revoked : BOOLEAN, expires : 1 .. Never] :
           l.revoked => l.token # None}

\* "touch" is any handler that saves the document for another purpose: edit,
\* send, mark paid, accept or reject by a signed-in client.  "answer" is accept
\* or reject through the link.
Op == {"generate", "rotate", "revoke", "setExpiry", "touch", "answer"}

\* A request at work: the entity as loaded, and its own `now`.
Request == [op : Op, doc : Doc, link : Link, at : Time]

\* Evaluated by MCDocuments, assumed by the theorems.
LinksAssumption == Horizon \in Nat /\ None \notin Token \cup Request

VARIABLES
  docs,    \* the token columns of each document
  minted,  \* tokens stored so far
  task,    \* the request of each handler
  clock

vars == <<docs, minted, task, clock>>

\* classify() = ACTIVE
Active(link, now) == /\ link.token # None
                     /\ ~link.revoked
                     /\ now < link.expires

NoLink == [token |-> None, revoked |-> FALSE, expires |-> Never]

\* assignFreshToken(): a new token, not revoked.
Fresh(t, x) == [token |-> t, revoked |-> FALSE, expires |-> x]

\* resolveExpiry(): null, or an instant after the request's `now`.
Expiries(now) == {x \in 1 .. Never : now < x}

Init == /\ docs = [d \in Doc |-> NoLink]
        /\ minted = {}
        /\ task = [h \in Handler |-> None]
        /\ clock = 0

-----------------------------------------------------------------------------
(* Loading: by id for staff, by token for whoever holds the link.           *)

Begin(h, op, d) ==
  /\ task[h] = None
  /\ task' = [task EXCEPT ![h] = [op |-> op, doc |-> d, link |-> docs[d], at |-> clock]]
  /\ UNCHANGED <<docs, minted, clock>>

LoadForManage(h, d) ==
  \E op \in {"generate", "rotate", "revoke", "setExpiry"} : Begin(h, op, d)

LoadForOther(h, d) == Begin(h, "touch", d)

\* assertActive() lets only a live link through.
LoadByToken(h, d) == Active(docs[d], clock) /\ Begin(h, "answer", d)

-----------------------------------------------------------------------------
(* Saving the loaded entity with its token columns.                         *)

Working(h, op) == task[h] # None /\ task[h].op = op

Save(h, link) ==
  /\ docs' = [docs EXCEPT ![task[h].doc] = link]
  /\ task' = [task EXCEPT ![h] = None]
  /\ UNCHANGED clock

\* ensureToken() leaves an active link as it is.
GenerateKeeps(h) ==
  /\ Working(h, "generate")
  /\ Active(task[h].link, task[h].at)
  /\ Save(h, task[h].link)
  /\ UNCHANGED minted

\* Slip: "generate" switches the old token on again instead of minting one.
GenerateReopens(h, t, x) ==
  /\ Working(h, "generate")
  /\ ~Active(task[h].link, task[h].at)
  /\ LET old == IF task[h].link.token = None THEN t ELSE task[h].link.token
     IN  Save(h, Fresh(old, x)) /\ minted' = minted \cup {old}

GenerateMints(h, t, x) ==
  /\ Working(h, "generate")
  /\ ~Active(task[h].link, task[h].at)
  /\ x \in Expiries(task[h].at)
  /\ Save(h, Fresh(t, x))
  /\ minted' = minted \cup {t}

Rotate(h, t, x) ==
  /\ Working(h, "rotate")
  /\ x \in Expiries(task[h].at)
  /\ Save(h, Fresh(t, x))
  /\ minted' = minted \cup {t}

\* revokeToken() does nothing to a document without a token.
Revoke(h) ==
  /\ Working(h, "revoke")
  /\ Save(h, [task[h].link EXCEPT !.revoked = @ \/ task[h].link.token # None])
  /\ UNCHANGED minted

SetExpiry(h, x) ==
  /\ Working(h, "setExpiry")
  /\ x \in Expiries(task[h].at)
  /\ Save(h, [task[h].link EXCEPT !.expires = x])
  /\ UNCHANGED minted

\* Slip: signing a document through its link uses the link up.
AnswerOnceOnly(h) ==
  /\ \/ Working(h, "touch") /\ Save(h, task[h].link)
     \/ Working(h, "answer") /\ Save(h, [task[h].link EXCEPT !.revoked = TRUE])
  /\ UNCHANGED minted

\* Every other save writes back the token columns it loaded.
SaveOther(h) ==
  /\ Working(h, "touch") \/ Working(h, "answer")
  /\ Save(h, task[h].link)
  /\ UNCHANGED minted

\* A request refused after loading (status guard, ownership) saves nothing.
Refused(h) ==
  /\ task[h] # None
  /\ task' = [task EXCEPT ![h] = None]
  /\ UNCHANGED <<docs, minted, clock>>

Crash == /\ task' = [h \in Handler |-> None]
         /\ UNCHANGED <<docs, minted, clock>>

TimePasses == /\ clock < Horizon
              /\ clock' = clock + 1
              /\ UNCHANGED <<docs, minted, task>>

Saves(h) == \/ GenerateKeeps(h) \/ Revoke(h) \/ SaveOther(h)
            \/ \E t \in Token \ minted, x \in 1 .. Never :
                 GenerateMints(h, t, x) \/ Rotate(h, t, x)
            \/ \E x \in 1 .. Never : SetExpiry(h, x)

Next == \/ \E h \in Handler, d \in Doc :
             LoadForManage(h, d) \/ LoadForOther(h, d) \/ LoadByToken(h, d)
        \/ \E h \in Handler : Saves(h) \/ Refused(h)
        \/ Crash \/ TimePasses

Spec == Init /\ [][Next]_vars

-----------------------------------------------------------------------------
TypeOK == /\ docs \in [Doc -> Link]
          /\ minted \in SUBSET Token
          /\ task \in [Handler -> Request \cup {None}]
          /\ clock \in Time

\* A link works when a document carries its token and classify() says ACTIVE.
Works(t) == \E d \in Doc : docs[d].token = t /\ Active(docs[d], clock)

\* The handler that saves in this step, and what it can be blamed for.
Ends(h) == task[h] # None /\ task'[h] = None
Stale(h) == docs[task[h].doc] # task[h].link
Does(h, ops) == Ends(h) /\ (Stale(h) \/ task[h].op \in ops)

\* An expired link can be given a new date; a revoked one cannot.
Extendable(t) == \E d \in Doc : docs[d].token = t /\ ~docs[d].revoked

\* "The public link stops working immediately", "old token stops working": a
\* link that was revoked, rotated away or has expired works again only when staff
\* set a new expiry on one that had merely expired, or when a handler that
\* loaded the document before saves it after.
ClosedStaysClosed ==
  [][\A t \in minted : ~Works(t) /\ Works(t)'
       => \E h \in Handler : /\ Does(h, {"setExpiry"})
                             /\ Stale(h) \/ Extendable(t)]_vars

\* "Does not rotate an existing active token": a working link stops working only
\* by its expiry, by staff who rotate, revoke or date it, or by a stale save.
OpenStaysOpen ==
  [][\A t \in minted : Works(t) /\ ~Works(t)'
       => \/ clock' # clock
          \/ \E h \in Handler : Does(h, {"rotate", "revoke", "setExpiry"})]_vars
=============================================================================
