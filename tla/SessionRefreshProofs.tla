-------------------------- MODULE SessionRefreshProofs --------------------------
(***************************************************************************)
(* Proofs about SessionRefresh, for any set of requests: one refresh at a  *)
(* time, nobody waits for a refresh that is not there, and a request       *)
(* starts at most one refresh for each call of the interceptor on it.      *)
(***************************************************************************)
EXTENDS SessionRefresh, TLAPS

\* One refresh for a request that has _retry set; one more when the interceptor
\* call that awaited a timed-out read's resend has started its own.
Spent(c) == (IF c.retry THEN 1 ELSE 0) + (IF c.timed /\ c.outer = "none" THEN 1 ELSE 0)

\* Only a resend after a time-out is awaited by an outer call, and a read waits
\* for such a resend once.
Paid(r) == /\ refreshes[r] <= Spent(req[r])
           /\ req[r].outer # "none" => req[r].timed
           /\ req[r].at = "backoff" => ~req[r].timed

Budget == \A r \in Req : Paid(r)

IInv == TypeOK /\ WaitersHaveARefresh /\ Budget

\* A request that is not refreshing moves on by itself, without a refresh.
LEMMA PlainStep ==
  ASSUME IInv, NEW r \in Req, NEW c \in Config,
         req' = [req EXCEPT ![r] = c],
         req[r].at # "refreshing", c.at \notin {"queued", "refreshing"},
         Spent(req[r]) <= Spent(c),
         c.outer # "none" => c.timed, c.at = "backoff" => ~c.timed,
         UNCHANGED <<isRefreshing, refreshes>>, access' \in BOOLEAN, session' \in BOOLEAN
  PROVE  IInv'
<1>1. /\ req'[r] = c
      /\ \A q \in Req : q # r => req'[q] = req[q]
      /\ req' \in [Req -> Config]
  BY DEF IInv, TypeOK, Config
<1>2. TypeOK'
  BY <1>1 DEF IInv, TypeOK, Config
<1>3. WaitersHaveARefresh'
  BY <1>1 DEF IInv, WaitersHaveARefresh, failedQueue
<1>4. Budget'
  <2>1. Spent(c) \in Nat /\ Spent(req[r]) \in Nat /\ refreshes[r] \in Nat
    BY DEF Spent, IInv, TypeOK
  <2> QED
    BY <1>1, <2>1 DEF IInv, Budget, Paid, Spent
<1> QED
  BY <1>2, <1>3, <1>4 DEF IInv

\* What a 401 leads to, by the request's own call or by the one awaiting it.
LEMMA UnauthorizedStep ==
  ASSUME IInv, NEW r \in Req, NEW c \in Config, Handle401(r, c),
         req[r].at \in {"refused", "rejected"}, ~c.retry,
         refreshes[r] <= Spent(c), c.outer # "none" => c.timed,
         UNCHANGED <<access, session>>
  PROVE  IInv'
<1>1. CASE isRefreshing
  <2> DEFINE d == [c EXCEPT !.at = "queued"]
  <2>1. /\ d \in Config /\ d.at = "queued" /\ d.outer = c.outer /\ d.timed = c.timed
        /\ d.retry = c.retry
    BY DEF Config
  <2>2. req' = [req EXCEPT ![r] = d] /\ UNCHANGED <<isRefreshing, refreshes>>
    BY <1>1 DEF Handle401
  <2> HIDE DEF d
  <2>3. /\ req'[r] = d /\ \A q \in Req : q # r => req'[q] = req[q]
        /\ req' \in [Req -> Config]
    BY <2>1, <2>2 DEF IInv, TypeOK, Config
  <2>4. TypeOK'
    BY <2>2, <2>3 DEF IInv, TypeOK, Config
  <2>5. WaitersHaveARefresh'
    BY <1>1, <2>1, <2>2, <2>3 DEF IInv, WaitersHaveARefresh, failedQueue
  <2>6. Budget'
    BY <2>1, <2>2, <2>3 DEF IInv, Budget, Paid, Spent
  <2> QED
    BY <2>4, <2>5, <2>6 DEF IInv
<1>2. CASE ~isRefreshing
  <2> DEFINE d == [c EXCEPT !.at = "refreshing", !.retry = TRUE]
  <2>1. /\ d \in Config /\ d.at = "refreshing" /\ d.outer = c.outer /\ d.timed = c.timed
        /\ d.retry = TRUE
    BY DEF Config
  <2>2. /\ req' = [req EXCEPT ![r] = d] /\ isRefreshing' = TRUE
        /\ refreshes' = [refreshes EXCEPT ![r] = @ + 1]
    BY <1>2 DEF Handle401
  <2> HIDE DEF d
  <2>3. /\ req'[r] = d /\ \A q \in Req : q # r => req'[q] = req[q]
        /\ req' \in [Req -> Config]
        /\ refreshes'[r] = refreshes[r] + 1
        /\ \A q \in Req : q # r => refreshes'[q] = refreshes[q]
        /\ refreshes' \in [Req -> Nat] /\ refreshes[r] \in Nat
    BY <2>1, <2>2 DEF IInv, TypeOK, Config
  <2>4. TypeOK'
    BY <2>2, <2>3 DEF IInv, TypeOK, Config
  <2>5. WaitersHaveARefresh'
    BY <1>2, <2>1, <2>2, <2>3 DEF IInv, WaitersHaveARefresh, failedQueue
  <2>6. Budget'
    <3>1. Spent(d) = Spent(c) + 1 /\ Spent(c) \in Nat
      BY <2>1 DEF Spent
    <3>2. Paid(r)'
      BY <2>1, <2>3, <3>1 DEF Paid, Spent
    <3> QED
      BY <2>3, <3>2 DEF IInv, Budget, Paid, Spent
  <2> QED
    BY <2>4, <2>5, <2>6 DEF IInv
<1> QED
  BY <1>1, <1>2

\* A refresh that ends, well or not, takes along everyone who waits for it.
LEMMA RefreshEnds ==
  ASSUME IInv, NEW r \in Req, req[r].at = "refreshing",
         NEW at \in {"sent", "rejected", "failed"},
         req' = [q \in Req |-> IF q \in failedQueue \cup {r}
                               THEN [req[q] EXCEPT !.at = at] ELSE req[q]],
         isRefreshing' = FALSE, refreshes' = refreshes,
         access' \in BOOLEAN, session' \in BOOLEAN
  PROVE  IInv'
<1>1. \A q \in Req : /\ req'[q] \in Config
                     /\ req'[q].retry = req[q].retry /\ req'[q].timed = req[q].timed
                     /\ req'[q].outer = req[q].outer
                     /\ req'[q].at \notin {"queued", "refreshing"}
                     /\ req'[q].at = "backoff" => req[q].at = "backoff"
  BY DEF IInv, TypeOK, Config, WaitersHaveARefresh, failedQueue
<1>2. TypeOK'
  BY <1>1 DEF IInv, TypeOK, Config
<1>3. WaitersHaveARefresh'
  BY <1>1 DEF WaitersHaveARefresh, failedQueue
<1>4. Budget'
  BY <1>1 DEF IInv, Budget, Paid, Spent
<1> QED
  BY <1>2, <1>3, <1>4 DEF IInv

LEMMA InvariantStep == IInv /\ [Next]_vars => IInv'
<1> SUFFICES ASSUME IInv, [Next]_vars PROVE IInv'
  OBVIOUS
<1>1. ASSUME NEW r \in Req
      PROVE  /\ req[r] \in Config /\ refreshes[r] \in Nat /\ Paid(r)
             /\ access \in BOOLEAN /\ session \in BOOLEAN
  BY DEF IInv, TypeOK, Budget, Config
<1>2. ASSUME NEW r \in Req,
             \/ Send(r) \/ Serve(r) \/ Succeed(r) \/ GiveUp(r) \/ RefusedAgain(r)
             \/ Rejected(r) \/ TimeOut(r)
      PROVE  IInv'
  <2>1. PICK at \in {"sent", "ok", "error", "refused", "done", "failed", "rejected", "backoff"} :
          /\ req' = [req EXCEPT ![r].at = at]
          /\ req[r].at # "refreshing"
          /\ at = "backoff" => ~req[r].timed
          /\ UNCHANGED <<isRefreshing, access, session, refreshes>>
    <3>1. CASE Serve(r)
      <4>1. PICK answer \in {"ok", "error", "refused"} :
              req' = [req EXCEPT ![r].at = answer]
        BY <3>1 DEF Serve
      <4> QED
        BY <3>1, <4>1 DEF Serve
    <3>2. CASE TimeOut(r)
      BY <3>2 DEF TimeOut
    <3> QED
      BY <1>2, <3>1, <3>2 DEF Send, Succeed, GiveUp, RefusedAgain, Rejected
  <2> DEFINE c == [req[r] EXCEPT !.at = at]
  <2>2. /\ c \in Config /\ c.at = at /\ Spent(c) = Spent(req[r]) /\ Spent(c) \in Nat
        /\ c.outer = req[r].outer /\ c.timed = req[r].timed
    BY <1>1 DEF Config, Spent
  <2>3. req' = [req EXCEPT ![r] = c]
    BY <2>1
  <2> HIDE DEF c
  <2>4. /\ Spent(req[r]) <= Spent(c) /\ c.at \notin {"queued", "refreshing"}
        /\ c.outer # "none" => c.timed
        /\ c.at = "backoff" => ~c.timed
    BY <1>1, <2>1, <2>2 DEF Paid
  <2>5. access' \in BOOLEAN /\ session' \in BOOLEAN
    BY <1>1, <2>1
  <2> QED
    BY <2>1, <2>2, <2>3, <2>4, <2>5, PlainStep
<1>3. ASSUME NEW r \in Req, Unauthorized(r) PROVE IInv'
  BY <1>1, <1>3, UnauthorizedStep DEF Unauthorized, Paid
<1>4. ASSUME NEW r \in Req, OuterHandles(r) PROVE IInv'
  <2> DEFINE c == [req[r] EXCEPT !.retry = FALSE, !.outer = "none"]
  <2>1. /\ c \in Config /\ ~c.retry /\ c.outer = "none" /\ c.timed = req[r].timed
        /\ Handle401(r, c)
    BY <1>1, <1>4 DEF OuterHandles, Config
  <2>2. refreshes[r] <= Spent(c)
    BY <1>1, <1>4, <2>1 DEF OuterHandles, Paid, Spent, Config
  <2> HIDE DEF c
  <2> QED
    BY <1>4, <2>1, <2>2, UnauthorizedStep DEF OuterHandles
<1>5. ASSUME NEW r \in Req, Resend(r) PROVE IInv'
  <2> DEFINE c == [req[r] EXCEPT !.at = "sent", !.timed = TRUE,
                                 !.outer = IF req[r].retry THEN "spent" ELSE "may"]
  <2>1. c \in Config /\ c.at = "sent" /\ c.timed /\ c.outer # "none" /\ c.retry = req[r].retry
    BY <1>1 DEF Config
  <2>2. /\ req' = [req EXCEPT ![r] = c] /\ ~req[r].timed
        /\ isRefreshing' = isRefreshing /\ refreshes' = refreshes
        /\ access' = access /\ session' = session
        /\ req[r].at = "backoff"
    BY <1>1, <1>5 DEF Resend, Paid
  <2> HIDE DEF c
  <2>3. Spent(req[r]) <= Spent(c)
    BY <2>1, <2>2 DEF Spent
  <2>4. access' \in BOOLEAN /\ session' \in BOOLEAN
    BY <1>1, <2>2
  <2>5. c.at \notin {"queued", "refreshing", "backoff"} /\ req[r].at # "refreshing"
    BY <2>1, <2>2
  <2> QED
    BY <2>1, <2>2, <2>3, <2>4, <2>5, PlainStep
<1>6. ASSUME NEW r \in Req, RefreshWorked(r) PROVE IInv'
  BY <1>1, <1>6, RefreshEnds DEF RefreshWorked
<1>7. ASSUME NEW r \in Req, RefreshFailed(r) PROVE IInv'
  <2>1. PICK refused \in BOOLEAN :
          req' = [q \in Req |-> IF q \in failedQueue \cup {r}
                                THEN [req[q] EXCEPT !.at = IF refused THEN "rejected" ELSE "failed"]
                                ELSE req[q]]
    BY <1>7 DEF RefreshFailed
  <2> QED
    BY <1>1, <1>7, <2>1, RefreshEnds DEF RefreshFailed
<1>8. CASE AccessExpires \/ SessionExpires \/ SignIn \/ UNCHANGED vars
  <2>1. /\ UNCHANGED <<req, isRefreshing, refreshes>>
        /\ access' \in BOOLEAN /\ session' \in BOOLEAN
    BY <1>8 DEF AccessExpires, SessionExpires, SignIn, vars, IInv, TypeOK
  <2> QED
    BY <2>1 DEF IInv, TypeOK, WaitersHaveARefresh, failedQueue, Budget, Paid, Spent
<1> QED
  BY <1>2, <1>3, <1>4, <1>5, <1>6, <1>7, <1>8 DEF Next, Progress

LEMMA InvariantHolds == Spec => []IInv
<1>1. ASSUME Init PROVE IInv
  <2>1. TypeOK
    BY <1>1 DEF Init, NotSent, TypeOK, Config
  <2>2. WaitersHaveARefresh
    BY <1>1 DEF Init, NotSent, WaitersHaveARefresh, failedQueue
  <2>3. Budget
    <3> SUFFICES ASSUME NEW r \in Req PROVE Paid(r)
      BY DEF Budget
    <3>1. req[r] = NotSent /\ refreshes[r] = 0
      BY <1>1 DEF Init
    <3>2. req[r].outer = "none" /\ req[r].at = "idle" /\ Spent(req[r]) \in Nat
      BY <3>1 DEF NotSent, Spent
    <3> QED
      BY <3>1, <3>2 DEF Paid
  <2> QED
    BY <2>1, <2>2, <2>3 DEF IInv
<1> QED
  BY <1>1, InvariantStep, PTL DEF Spec

\* Variables keep the values the code can give them.
THEOREM TypeCorrect == Spec => []TypeOK
<1>1. IInv => TypeOK
  BY DEF IInv
<1> QED
  BY <1>1, InvariantHolds, PTL

\* However many requests get 401 and in whatever order: one refresh at a time, the
\* flag tells of it, and nobody waits in a queue that nobody will empty.
THEOREM OneRefreshForAllWaiters == Spec => []WaitersHaveARefresh
<1>1. IInv => WaitersHaveARefresh
  BY DEF IInv
<1> QED
  BY <1>1, InvariantHolds, PTL

\* However the cookies expire and answers time out, no request can make the tab
\* refresh in a loop.
THEOREM NoRefreshLoop == Spec => []RefreshesBounded
<1>1. ASSUME IInv, NEW r \in Req
      PROVE  refreshes[r] <= (IF req[r].timed THEN 2 ELSE 1)
  <2>1. refreshes[r] \in Nat /\ Paid(r)
    BY <1>1 DEF IInv, TypeOK, Budget
  <2>2. Spent(req[r]) \in Nat /\ Spent(req[r]) <= (IF req[r].timed THEN 2 ELSE 1)
    BY DEF Spent
  <2> QED
    BY <2>1, <2>2 DEF Paid
<1>2. IInv => RefreshesBounded
  BY <1>1 DEF RefreshesBounded
<1> QED
  BY <1>2, InvariantHolds, PTL
=============================================================================
