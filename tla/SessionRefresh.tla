--------------------------- MODULE SessionRefresh ---------------------------
(***************************************************************************)
(* One browser tab's shared Axios instance (handla-frontend/src/lib/       *)
(* api.ts): the response interceptor that retries a timed-out read once,   *)
(* refreshes an expired access cookie once per burst of 401 answers, makes *)
(* the other requests wait for that refresh and resends them.  Flags set   *)
(* on a request's config (_retry, _timeoutRetry) are copied into the       *)
(* config of every resend, so a resend knows what was tried before it; the *)
(* interceptor call that awaits a timed-out read's resend still has the    *)
(* flags it had.                                                           *)
(***************************************************************************)
EXTENDS Naturals

CONSTANTS Req,    \* the requests the tab makes
          Read    \* those among them that are GET, HEAD or OPTIONS

ASSUME ReadAssumption == Read \subseteq Req

VARIABLES req,          \* what the tab knows of each request
          isRefreshing, \* api.ts: the flag of the refresh in progress
          access,       \* TRUE while the access cookie is accepted
          session,      \* TRUE while the refresh cookie is accepted
          refreshes     \* history: the refreshes each request has started

vars == <<req, isRefreshing, access, session, refreshes>>

(* retry, timed: the config's _retry and _timeoutRetry.  outer: what the   *)
(* interceptor call awaiting this resend of a timed-out read will do with  *)
(* a 401: "none" (no such call), "may" refresh, or "spent".                *)
Config == [at : {"idle", "sent", "ok", "error", "refused", "queued", "refreshing",
                 "rejected", "backoff", "done", "failed"},
           retry : BOOLEAN, timed : BOOLEAN, outer : {"none", "may", "spent"}]

NotSent == [at |-> "idle", retry |-> FALSE, timed |-> FALSE, outer |-> "none"]

failedQueue == {r \in Req : req[r].at = "queued"}

Ended(r) == req[r].at \in {"done", "failed"}

Init == /\ req = [r \in Req |-> NotSent]
        /\ isRefreshing = FALSE
        /\ access = TRUE /\ session = TRUE
        /\ refreshes = [r \in Req |-> 0]

-----------------------------------------------------------------------------
Send(r) == /\ req[r].at = "idle"
           /\ req' = [req EXCEPT ![r].at = "sent"]
           /\ UNCHANGED <<isRefreshing, access, session, refreshes>>

(* The server decides on the cookie as it is when the request reaches it;  *)
(* the answer comes later, maybe after somebody else's refresh.            *)
Serve(r) == /\ req[r].at = "sent"
            /\ \E answer \in {"refused"} \cup (IF access THEN {"ok", "error"} ELSE {}) :
                 /\ answer = "refused" => ~access
                 /\ req' = [req EXCEPT ![r].at = answer]
            /\ UNCHANGED <<isRefreshing, access, session, refreshes>>

Succeed(r) == /\ req[r].at = "ok"
              /\ req' = [req EXCEPT ![r].at = "done"]
              /\ UNCHANGED <<isRefreshing, access, session, refreshes>>

(* Any other error: the caller gets it, through the outer call too.        *)
GiveUp(r) == /\ req[r].at = "error"
             /\ req' = [req EXCEPT ![r].at = "failed"]
             /\ UNCHANGED <<isRefreshing, access, session, refreshes>>

(* Slip: the flag of a refresh in progress is not looked at.               *)
AlwaysRefreshes(r, config) ==
  /\ req' = [req EXCEPT ![r] = [config EXCEPT !.at = "refreshing", !.retry = TRUE]]
  /\ isRefreshing' = TRUE
  /\ refreshes' = [refreshes EXCEPT ![r] = @ + 1]

(* A 401 that this call may still act on: wait for the refresh in progress *)
(* or start one.                                                           *)
Handle401(r, config) ==
  IF isRefreshing
  THEN /\ req' = [req EXCEPT ![r] = [config EXCEPT !.at = "queued"]]
       /\ UNCHANGED <<isRefreshing, refreshes>>
  ELSE /\ req' = [req EXCEPT ![r] = [config EXCEPT !.at = "refreshing", !.retry = TRUE]]
       /\ isRefreshing' = TRUE
       /\ refreshes' = [refreshes EXCEPT ![r] = @ + 1]

(* Slip: a resend does not remember that it is one.                        *)
RetryFlagLost(r) == /\ req[r].at = "refused"
                    /\ Handle401(r, req[r])
                    /\ UNCHANGED <<access, session>>

Unauthorized(r) == /\ req[r].at = "refused" /\ ~req[r].retry
                   /\ Handle401(r, req[r])
                   /\ UNCHANGED <<access, session>>

RefusedAgain(r) == /\ req[r].at = "refused" /\ req[r].retry
                   /\ req' = [req EXCEPT ![r].at = "rejected"]
                   /\ UNCHANGED <<isRefreshing, access, session, refreshes>>

(* A 401 (the request's or its refresh's) rejects the promise of the       *)
(* resend: the call awaiting a timed-out read's resend takes it as its own *)
(* error, with its own flags.                                              *)
OuterHandles(r) == /\ req[r].at = "rejected" /\ req[r].outer = "may"
                   /\ Handle401(r, [req[r] EXCEPT !.retry = FALSE, !.outer = "none"])
                   /\ UNCHANGED <<access, session>>

Rejected(r) == /\ req[r].at = "rejected" /\ req[r].outer # "may"
               /\ req' = [req EXCEPT ![r].at = "failed"]
               /\ UNCHANGED <<isRefreshing, access, session, refreshes>>

-----------------------------------------------------------------------------
(* No answer within the time limit, or no network.                         *)
TimeOut(r) == /\ req[r].at \in {"sent", "ok", "refused", "error"}
              /\ req' = [req EXCEPT ![r].at =
                            IF r \in Read /\ ~req[r].timed THEN "backoff" ELSE "failed"]
              /\ UNCHANGED <<isRefreshing, access, session, refreshes>>

Resend(r) == /\ req[r].at = "backoff"
             /\ req' = [req EXCEPT ![r] =
                  [@ EXCEPT !.at = "sent", !.timed = TRUE,
                            !.outer = IF req[r].retry THEN "spent" ELSE "may"]]
             /\ UNCHANGED <<isRefreshing, access, session, refreshes>>

(* POST /auth/refresh succeeded: processQueue(null) and the request's own  *)
(* resend; "finally" clears the flag without waiting for that resend.      *)
RefreshWorked(r) ==
  /\ req[r].at = "refreshing" /\ session
  /\ access' = TRUE
  /\ req' = [q \in Req |-> IF q \in failedQueue \cup {r}
                           THEN [req[q] EXCEPT !.at = "sent"] ELSE req[q]]
  /\ isRefreshing' = FALSE
  /\ UNCHANGED <<session, refreshes>>

(* Slip: a failed refresh rejects its own request only.                    *)
FailsWithoutTheQueue(r) ==
  /\ req[r].at = "refreshing"
  /\ req' = [req EXCEPT ![r].at = "failed"]
  /\ isRefreshing' = FALSE
  /\ UNCHANGED <<access, session, refreshes>>

(* It failed, by a 401 or otherwise (no answer, server error): everybody   *)
(* waiting is rejected with that error and the user is signed out.         *)
RefreshFailed(r) ==
  /\ req[r].at = "refreshing"
  /\ \E refused \in BOOLEAN :
       /\ refused => ~session
       /\ req' = [q \in Req |-> IF q \in failedQueue \cup {r}
                                THEN [req[q] EXCEPT !.at = IF refused THEN "rejected" ELSE "failed"]
                                ELSE req[q]]
  /\ isRefreshing' = FALSE
  /\ UNCHANGED <<access, session, refreshes>>

-----------------------------------------------------------------------------
(* The cookies run out; signing in sets both again.                        *)
AccessExpires == /\ access /\ access' = FALSE
                 /\ UNCHANGED <<req, isRefreshing, session, refreshes>>

SessionExpires == /\ session /\ session' = FALSE
                  /\ UNCHANGED <<req, isRefreshing, access, refreshes>>

SignIn == /\ ~session
          /\ access' = TRUE /\ session' = TRUE
          /\ UNCHANGED <<req, isRefreshing, refreshes>>

(* What must happen to a request in progress, one way or another: every    *)
(* call has a time limit (DEFAULT_TIMEOUT_MS) and the backoff is a timer.  *)
Progress(r) == \/ Serve(r) \/ Succeed(r) \/ GiveUp(r) \/ Unauthorized(r)
               \/ RefusedAgain(r) \/ OuterHandles(r) \/ Rejected(r)
               \/ TimeOut(r) \/ Resend(r) \/ RefreshWorked(r) \/ RefreshFailed(r)

Next == \/ \E r \in Req : Send(r) \/ Progress(r)
        \/ AccessExpires \/ SessionExpires \/ SignIn

Fairness == \A r \in Req : WF_vars(Progress(r))

Spec == Init /\ [][Next]_vars /\ Fairness

-----------------------------------------------------------------------------
(* Variables have the values the code can give them.                       *)
TypeOK ==
  /\ req \in [Req -> Config]
  /\ isRefreshing \in BOOLEAN /\ access \in BOOLEAN /\ session \in BOOLEAN
  /\ refreshes \in [Req -> Nat]

(* The flag is up exactly while some request is refreshing, one request    *)
(* refreshes at a time, and a request waits in failedQueue only then:      *)
(* nobody joins a queue that nobody will empty, and a burst of 401 answers *)
(* makes one refresh call.                                                 *)
WaitersHaveARefresh ==
  /\ isRefreshing <=> \E r \in Req : req[r].at = "refreshing"
  /\ \A q, r \in Req : req[q].at = "refreshing" /\ req[r].at = "refreshing" => q = r
  /\ failedQueue # {} => isRefreshing

(* "Flag to prevent recursive refresh loops": a request starts at most one *)
(* refresh, and a read that timed out at most two (one by its resend, one  *)
(* by the call that awaited it), however the cookies expire.               *)
RefreshesBounded ==
  \A r \in Req : refreshes[r] <= (IF req[r].timed THEN 2 ELSE 1)

(* Every request that was sent ends: it is answered or its caller gets an  *)
(* error; none waits in the queue for ever.                                *)
EveryRequestEnds == \A r \in Req : req[r].at # "idle" ~> Ended(r)

=============================================================================
