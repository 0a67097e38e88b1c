-------------------------- MODULE SaasProvisioning --------------------------
(***************************************************************************)
(* handla-backend/src/modules/saas/services: tenants.service.ts and        *)
(* provisioning.worker.ts.                                                 *)
(*                                                                         *)
(* Admin requests check a tenant's status and queue a job; the worker, one *)
(* polling pass at a time, claims a job, calls the product and stores the  *)
(* outcome in the tenant and in the job; the product may also report the   *)
(* outcome by a callback.  Worker and callbacks save the job and tenant    *)
(* entities they loaded, whatever happened to the rows meanwhile.          *)
(*                                                                         *)
(* External: the product.  It answers a call with success or failure, the  *)
(* latter also by a timeout after doing the work, and calls back about any *)
(* request id it has seen, at any time and more than once.                 *)
(***************************************************************************)
EXTENDS Integers, FiniteSets

CONSTANTS
  Tenant,
  Jobs,         \* bound: jobs that are ever queued
  Request,      \* bound: the actions admins ask for
  Asking,       \* bound: requests between their check and their job
  Batch,        \* jobs fetched by one polling pass: 10
  MaxAttempts,  \* SAAS_MAX_ATTEMPTS
  Caller,       \* slots for callbacks being handled
  None

Job == 1 .. Jobs    \* job ids in the order of createdAt
Action == {"PROVISION", "SUSPEND", "REACTIVATE", "ARCHIVE", "UPDATE_PLAN"}
TenantStatus == {"PENDING", "PROVISIONING", "ACTIVE", "SUSPENDED", "FAILED", "ARCHIVED"}
JobRow == [tenant : Tenant, action : Action, attempts : Nat,
           status : {"QUEUED", "RUNNING", "SUCCEEDED", "FAILED"}]

ASSUME SaasAssumption == /\ Jobs \in Nat /\ Batch \in Nat \ {0}
                         /\ MaxAttempts \in Nat \ {0}
                         /\ Request \subseteq Action
                         /\ None \notin JobRow \cup TenantStatus

VARIABLES
  status,    \* saas_tenants: the status of each tenant
  jobs,      \* saas_provisioning_logs: id -> row
  asked,     \* requests that passed their check and have not queued their job
  batch,     \* job ids the polling pass still has to look at
  at,        \* the next step of the worker
  cur,       \* the job it is at,
  row,       \*   the job entity it holds
  seen,      \*   and the status in the tenant entity it holds
  callback,  \* callbacks being handled, with the entities they hold
  calls,     \* history: calls made to the product for each job
  reported,  \* history: jobs the product has reported as done
  cut        \* history: jobs whose run ended between the claim and the outcome

tenantVars == <<status, asked>>
workerVars == <<batch, at, cur, row, seen>>
saasVars == <<tenantVars, jobs, workerVars, callback, calls, reported, cut>>

Filed(j) == jobs[j] # None
Queued == {j \in Job : Filed(j) /\ jobs[j].status = "QUEUED"}

Init == /\ status = [t \in Tenant |-> None]
        /\ jobs = [j \in Job |-> None]
        /\ asked = {}
        /\ batch = {} /\ at = "off" /\ cur = None /\ row = None /\ seen = None
        /\ callback = [c \in Caller |-> None]
        /\ calls = [j \in Job |-> 0]
        /\ reported = {}
        /\ cut = {}

-----------------------------------------------------------------------------
(* Requests of admins: check, then queue.                                    *)

\* assertTransition towards the status the action leads to; retry() asks for
\* FAILED, changePlan() for nothing.
Legal(action, s) ==
  \/ action = "PROVISION" /\ s = "FAILED"
  \/ action = "SUSPEND" /\ s = "ACTIVE"
  \/ action = "REACTIVATE" /\ s \in {"PROVISIONING", "SUSPENDED"}
  \/ action = "ARCHIVE" /\ s \in {"PENDING", "ACTIVE", "SUSPENDED", "FAILED"}
  \/ action = "UPDATE_PLAN" /\ s # None

Ask(t, action) ==
  /\ Legal(action, status[t]) /\ Cardinality(asked) < Asking
  /\ asked' = asked \cup {<<t, action>>}
  /\ UNCHANGED <<status, jobs, workerVars, callback, calls, reported, cut>>

\* The tenant row; its domain, subscription and job follow.
Create(t) ==
  /\ status[t] = None /\ Cardinality(asked) < Asking
  /\ status' = [status EXCEPT ![t] = "PENDING"]
  /\ asked' = asked \cup {<<t, "PROVISION">>}
  /\ UNCHANGED <<jobs, workerVars, callback, calls, reported, cut>>

Enqueue(t, action) ==
  /\ <<t, action>> \in asked
  /\ asked' = asked \ {<<t, action>>}
  /\ \E j \in Job :
       /\ ~Filed(j) /\ \A i \in 1 .. j - 1 : Filed(i)
       /\ jobs' = [jobs EXCEPT ![j] = [tenant |-> t, action |-> action, attempts |-> 0,
                                       status |-> "QUEUED"]]
  /\ UNCHANGED <<status, workerVars, callback, calls, reported, cut>>

\* create(): the domain is taken by another tenant, the rest is not stored.
DomainTaken(t) ==
  /\ <<t, "PROVISION">> \in asked /\ status[t] = "PENDING"
  /\ asked' = asked \ {<<t, "PROVISION">>}
  /\ UNCHANGED <<status, jobs, workerVars, callback, calls, reported, cut>>

-----------------------------------------------------------------------------
(* Entities.                                                                 *)

\* applySuccess: what the tenant entity's status becomes.
After(action, s) == CASE action \in {"PROVISION", "REACTIVATE"} -> "ACTIVE"
                      [] action = "SUSPEND" -> "SUSPENDED"
                      [] action = "ARCHIVE" -> "ARCHIVED"
                      [] OTHER -> s

\* applyFailure.
AfterFailure(s) == IF s \in {"PENDING", "PROVISIONING"} THEN "FAILED" ELSE s

SaveTenant(t, s) == status' = [status EXCEPT ![t] = s] /\ UNCHANGED asked
SaveJob(j, r) == jobs' = [jobs EXCEPT ![j] = r]

-----------------------------------------------------------------------------
(* The worker.                                                               *)

\* The entities a run held are dropped, the next job of the pass follows.
RunJobEnds == at' = "pick" /\ cur' = None /\ row' = None /\ seen' = None
              /\ UNCHANGED batch

\* tick(): the oldest queued jobs.
Tick ==
  /\ at = "off" /\ Queued # {}
  /\ batch' = {j \in Queued : Cardinality({i \in Queued : i < j}) < Batch}
  /\ at' = "pick"
  /\ UNCHANGED <<tenantVars, jobs, cur, row, seen, callback, calls, reported, cut>>

TickEnds ==
  /\ at = "pick" /\ batch = {}
  /\ at' = "off"
  /\ UNCHANGED <<tenantVars, jobs, batch, cur, row, seen, callback, calls, reported,
                 cut>>

\* runJob() loads the job; it returns if a callback has settled it.
Pick ==
  /\ at = "pick"
  /\ \E j \in batch :
       /\ \A i \in batch : j <= i
       /\ batch' = batch \ {j}
       /\ IF jobs[j].status = "QUEUED"
            THEN cur' = j /\ row' = jobs[j] /\ at' = "claim"
            ELSE UNCHANGED <<cur, row, at>>
  /\ UNCHANGED <<tenantVars, jobs, seen, callback, calls, reported, cut>>

\* Slip: the attempt is not counted.
ClaimUncounted ==
  /\ at = "claim" /\ at' = "load"
  /\ row' = [row EXCEPT !.status = "RUNNING"]
  /\ SaveJob(cur, row')
  /\ UNCHANGED <<tenantVars, batch, cur, seen, callback, calls, reported, cut>>

Claim ==
  /\ at = "claim" /\ at' = "load"
  /\ row' = [row EXCEPT !.status = "RUNNING", !.attempts = @ + 1]
  /\ SaveJob(cur, row')
  /\ UNCHANGED <<tenantVars, batch, cur, seen, callback, calls, reported, cut>>

Load ==
  /\ at = "load"
  /\ seen' = status[row.tenant]
  /\ at' = IF row.action = "PROVISION" /\ seen' \in {"PENDING", "FAILED"}
             THEN "mark" ELSE "call"
  /\ UNCHANGED <<tenantVars, jobs, batch, cur, row, callback, calls, reported, cut>>

MarkProvisioning ==
  /\ at = "mark" /\ at' = "call"
  /\ seen' = "PROVISIONING"
  /\ SaveTenant(row.tenant, seen')
  /\ UNCHANGED <<jobs, batch, cur, row, callback, calls, reported, cut>>

\* The request leaves for the product.
Dispatch ==
  /\ at = "call" /\ at' = "wait"
  /\ calls' = [calls EXCEPT ![cur] = @ + 1]
  /\ UNCHANGED <<tenantVars, jobs, batch, cur, row, seen, callback, reported, cut>>

\* Slip: an answer that is not ok is applied like one that is.
AnswerNotOk ==
  /\ at = "wait"
  /\ at' = "apply"
  /\ UNCHANGED <<tenantVars, jobs, batch, cur, row, seen, callback, calls, reported,
                 cut>>

AnswerOk ==
  /\ at = "wait" /\ at' = "apply"
  /\ reported' = reported \cup {cur}
  /\ UNCHANGED <<tenantVars, jobs, batch, cur, row, seen, callback, calls, cut>>

\* An error, a timeout or an exception.
AnswerFails ==
  /\ at = "wait"
  /\ at' = IF row.attempts < MaxAttempts THEN "requeue" ELSE "giveup"
  /\ UNCHANGED <<tenantVars, jobs, batch, cur, row, seen, callback, calls, reported,
                 cut>>

Apply ==
  /\ at = "apply" /\ at' = "settle"
  /\ seen' = After(row.action, seen)
  /\ SaveTenant(row.tenant, seen')
  /\ UNCHANGED <<jobs, batch, cur, row, callback, calls, reported, cut>>

\* Slip: a job that succeeded is left as it is.
SettleUnsaved ==
  /\ at = "settle" /\ RunJobEnds
  /\ UNCHANGED <<tenantVars, jobs, callback, calls, reported, cut>>

Settle ==
  /\ at = "settle" /\ RunJobEnds
  /\ SaveJob(cur, [row EXCEPT !.status = "SUCCEEDED"])
  /\ UNCHANGED <<tenantVars, callback, calls, reported, cut>>

\* Slip: the job gets the status of a new tenant, which tick() never finds.
RequeuePending ==
  /\ at = "requeue" /\ RunJobEnds
  /\ SaveJob(cur, [row EXCEPT !.status = "PENDING"])
  /\ UNCHANGED <<tenantVars, callback, calls, reported, cut>>

Requeue ==
  /\ at = "requeue" /\ RunJobEnds
  /\ SaveJob(cur, [row EXCEPT !.status = "QUEUED"])
  /\ UNCHANGED <<tenantVars, callback, calls, reported, cut>>

GiveUp ==
  /\ at = "giveup" /\ at' = "refuse"
  /\ SaveJob(cur, [row EXCEPT !.status = "FAILED"])
  /\ UNCHANGED <<tenantVars, batch, cur, row, seen, callback, calls, reported, cut>>

Refuse ==
  /\ at = "refuse" /\ RunJobEnds
  /\ SaveTenant(row.tenant, AfterFailure(seen))
  /\ UNCHANGED <<jobs, callback, calls, reported, cut>>

-----------------------------------------------------------------------------
(* handleCallback: load the job, load the tenant, save the tenant, save the  *)
(* job.                                                                      *)

CallbackArrives(c, j, ok) ==
  /\ callback[c] = None /\ calls[j] > 0
  /\ callback' = [callback EXCEPT ![c] = [step |-> "load", job |-> j, row |-> jobs[j],
                                          ok |-> ok, seen |-> None]]
  /\ reported' = IF ok THEN reported \cup {j} ELSE reported
  /\ UNCHANGED <<tenantVars, jobs, workerVars, calls, cut>>

CallbackLoads(c) ==
  /\ callback[c] # None /\ callback[c].step = "load"
  /\ callback' = [callback EXCEPT ![c].step = "apply",
                                  ![c].seen = status[callback[c].row.tenant]]
  /\ UNCHANGED <<tenantVars, jobs, workerVars, calls, reported, cut>>

CallbackApplies(c) ==
  /\ callback[c] # None /\ callback[c].step = "apply"
  /\ LET cb == callback[c]
     IN  SaveTenant(cb.row.tenant, IF cb.ok THEN After(cb.row.action, cb.seen)
                                   ELSE AfterFailure(cb.seen))
  /\ callback' = [callback EXCEPT ![c].step = "save"]
  /\ UNCHANGED <<jobs, workerVars, calls, reported, cut>>

CallbackSaves(c) ==
  /\ callback[c] # None /\ callback[c].step = "save"
  /\ LET cb == callback[c]
     IN  SaveJob(cb.job, [cb.row EXCEPT !.status = IF cb.ok THEN "SUCCEEDED" ELSE "FAILED"])
  /\ callback' = [callback EXCEPT ![c] = None]
  /\ UNCHANGED <<tenantVars, workerVars, calls, reported, cut>>

-----------------------------------------------------------------------------
(* What ends a pass half-way.                                                *)

\* The job is claimed and its outcome not stored yet.
AtWork == {"load", "mark", "call", "wait", "apply", "settle", "requeue", "giveup"}

\* The rest of the batch is dropped, and a job at work stays RUNNING.
PassIsDropped ==
  /\ batch' = {} /\ at' = "off" /\ cur' = None /\ row' = None /\ seen' = None
  /\ cut' = IF at \in AtWork THEN cut \cup {cur} ELSE cut

\* runJob throws: a query or a save fails, or no provisioner is registered under
\* the product's key.  Only the call itself is inside its try; what is thrown
\* elsewhere is caught, and logged, by tick().
PassThrows ==
  /\ at \notin {"off", "wait"}
  /\ PassIsDropped
  /\ UNCHANGED <<tenantVars, jobs, callback, calls, reported>>

\* The process stops: its requests, callbacks and polling pass are gone.
Restart ==
  /\ PassIsDropped
  /\ asked' = {}
  /\ callback' = [c \in Caller |-> None]
  /\ UNCHANGED <<status, jobs, calls, reported>>

-----------------------------------------------------------------------------
Work == \/ Tick \/ TickEnds \/ Pick \/ Claim \/ Load \/ MarkProvisioning \/ Dispatch
        \/ AnswerOk \/ AnswerFails \/ Apply \/ Settle \/ Requeue \/ GiveUp \/ Refuse

Admin(t) == \/ Create(t) \/ DomainTaken(t)
            \/ \E action \in Request : Ask(t, action)
            \/ \E action \in Action : Enqueue(t, action)

HandleCallback(c) ==
  \/ CallbackLoads(c) \/ CallbackApplies(c) \/ CallbackSaves(c)
  \/ \E j \in Job, ok \in BOOLEAN : CallbackArrives(c, j, ok)

Next == \/ Work
        \/ \E t \in Tenant : Admin(t)
        \/ \E c \in Caller : HandleCallback(c)
        \/ PassThrows \/ Restart

\* setInterval goes on polling, and an HTTP call to the product times out.  Stops
\* and failing queries do not hit every single pass before its first claim.
Fairness == WF_saasVars(Work) /\ SF_saasVars(Pick) /\ SF_saasVars(Claim)

Spec == Init /\ [][Next]_saasVars /\ Fairness

-----------------------------------------------------------------------------
CallbackRow == [step : {"load", "apply", "save"}, job : Job, row : JobRow,
                ok : BOOLEAN, seen : TenantStatus \cup {None}]

Steps == {"off", "pick", "claim", "load", "mark", "call", "wait", "apply", "settle",
          "requeue", "giveup", "refuse"}

TypeOK == /\ status \in [Tenant -> TenantStatus \cup {None}]
          /\ jobs \in [Job -> JobRow \cup {None}]
          /\ asked \in SUBSET (Tenant \X Action)
          /\ batch \in SUBSET Job
          /\ at \in Steps
          /\ at \notin {"off", "pick"} => cur \in Job /\ row \in JobRow
          /\ at \notin {"off", "pick", "claim", "load"} => seen \in TenantStatus
          /\ callback \in [Caller -> CallbackRow \cup {None}]
          /\ calls \in [Job -> Nat]
          /\ reported \in SUBSET Job
          /\ cut \in SUBSET Job

\* "Retried up to cfg.maxAttempts": however callbacks and the worker overwrite
\* each other's job rows, and however often the process restarts, the product
\* is called at most that often for a job.
CallsBounded == \A j \in Job : calls[j] <= MaxAttempts

\* A RUNNING job is the worker's current one, unless a stop of the process or an
\* exception ended that very job's run between the claim and the outcome: no
\* callback, retry or stop at another time leaves a job behind as RUNNING.
RunningHasWorker ==
  \A j \in Job \ cut :
    Filed(j) /\ jobs[j].status = "RUNNING" => cur = j /\ at \in AtWork

\* A tenant is ACTIVE, SUSPENDED or ARCHIVED only if the product has reported a
\* job of that tenant done that leads there, however stale the saves are.
StatusWasReported ==
  \A t \in Tenant : status[t] \in {"ACTIVE", "SUSPENDED", "ARCHIVED"} =>
    \E j \in reported : /\ jobs[j].tenant = t
                        /\ After(jobs[j].action, None) = status[t]

\* Every queued job is settled, by the worker or a callback, however often passes
\* are dropped and the process restarts, unless its own run was cut short.
Settled(j) == Filed(j) /\ jobs[j].status \in {"SUCCEEDED", "FAILED"}
JobsSettle == \A j \in Job : Filed(j) ~> Settled(j) \/ j \in cut

\* "Terminal (hard-delete is a separate guarded op)": an archived tenant stays
\* archived.
ArchivedIsTerminal ==
  [][\A t \in Tenant : status[t] = "ARCHIVED" => status'[t] = "ARCHIVED"]_saasVars
=============================================================================
