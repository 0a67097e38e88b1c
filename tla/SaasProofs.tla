----------------------------- MODULE SaasProofs -----------------------------
(***************************************************************************)
(* Proofs about SaasProvisioning, for any tenants, jobs, callback slots    *)
(* and number of attempts.                                                 *)
(*                                                                         *)
(* Worker and callbacks save entities they loaded earlier.  What makes     *)
(* that harmless is what the invariant says: a held job never changes its  *)
(* tenant or action, only the worker queues a job again, and it does so    *)
(* with the number of attempts it has counted itself.                      *)
(***************************************************************************)
EXTENDS SaasProvisioning, TLAPS

Final == {"ACTIVE", "SUSPENDED", "ARCHIVED"}

\* The product has reported a job of the tenant done that leads to this status.
Led(t, s) == \E j \in reported : jobs[j].tenant = t /\ After(jobs[j].action, None) = s
Earned(t, s) == s \in TenantStatus /\ (s \in Final => Led(t, s))

\* A held entity is of that job.
Holds(r, j) == Filed(j) /\ r.tenant = jobs[j].tenant /\ r.action = jobs[j].action

\* A job not queued yet is known to nobody.
FiledFirst == \A j \in Job : ~Filed(j) => calls[j] = 0 /\ j \notin reported /\ j \notin batch

\* A queued job has counted its calls and has one left.
AttemptsCount == \A j \in Queued : jobs[j].attempts = calls[j] /\ calls[j] < MaxAttempts

\* Whoever has asked for something, or has a job, is a tenant.
TenantsExist == /\ \A x \in asked : status[x[1]] \in TenantStatus
                /\ \A j \in Job : Filed(j) => status[jobs[j].tenant] \in TenantStatus

\* The worker's entities: the job's attempts are counted before the call, the job
\* is not queued until the outcome is stored, and the tenant's status is one that
\* was reported.
WorkerHolds ==
  at \notin {"off", "pick"} =>
    /\ Holds(row, cur)
    /\ at = "claim" => row.attempts = calls[cur] /\ calls[cur] < MaxAttempts
    /\ at \in {"load", "mark", "call"} =>
         row.attempts = calls[cur] + 1 /\ calls[cur] < MaxAttempts
    /\ at \in {"wait", "requeue"} => row.attempts = calls[cur]
    /\ at = "requeue" => row.attempts < MaxAttempts
    /\ at # "claim" => jobs[cur].status # "QUEUED"
    /\ at = "apply" => cur \in reported
    /\ at \notin {"claim", "load"} => Earned(row.tenant, seen)

\* The callbacks' entities.
CallbackHolds ==
  \A c \in Caller : callback[c] # None =>
    /\ Holds(callback[c].row, callback[c].job)
    /\ callback[c].ok => callback[c].job \in reported
    /\ callback[c].step # "load" => Earned(callback[c].row.tenant, callback[c].seen)

IInv == /\ TypeOK /\ FiledFirst /\ AttemptsCount /\ TenantsExist
        /\ WorkerHolds /\ CallbackHolds
        /\ CallsBounded /\ RunningHasWorker /\ StatusWasReported

-----------------------------------------------------------------------------
(* The operators on statuses.                                                *)

LEMMA AfterIs ==
  ASSUME NEW a \in Action, NEW t, NEW s, Earned(t, s), Led(t, After(a, None)) \/ a = "UPDATE_PLAN"
  PROVE  Earned(t, After(a, s))
<1>1. CASE a = "UPDATE_PLAN"
  BY <1>1 DEF After
<1>2. CASE a # "UPDATE_PLAN"
  <2>1. After(a, s) = After(a, None) /\ After(a, s) \in TenantStatus
    BY <1>2 DEF After, Action, TenantStatus
  <2> QED
    BY <1>2, <2>1 DEF Earned
<1> QED
  BY <1>1, <1>2

LEMMA AfterFailureIs ==
  ASSUME NEW t, NEW s, Earned(t, s)
  PROVE  Earned(t, AfterFailure(s))
BY DEF Earned, AfterFailure, TenantStatus, Final

\* A job the product reported done leads where its action leads.
LEMMA ReportedLeads ==
  ASSUME NEW j \in reported, NEW r \in JobRow, Holds(r, j)
  PROVE  Led(r.tenant, After(r.action, None)) /\ r.action \in Action
BY DEF Holds, Led, JobRow

-----------------------------------------------------------------------------
(* What holds of a job whoever saves it: its tenant and action stay.         *)

JobsKept == /\ \A j \in Job : Filed(j) =>
                 /\ Filed(j)' /\ jobs'[j].tenant = jobs[j].tenant
                 /\ jobs'[j].action = jobs[j].action
            /\ reported \subseteq reported'

LEMMA KeptHolds ==
  ASSUME JobsKept, NEW r, NEW j \in Job, Holds(r, j)
  PROVE  Holds(r, j)'
BY DEF JobsKept, Holds

LEMMA KeptLed ==
  ASSUME IInv, JobsKept, NEW t, NEW s, Led(t, s)
  PROVE  Led(t, s)'
<1>1. PICK j \in reported : jobs[j].tenant = t /\ After(jobs[j].action, None) = s
  BY DEF Led
<1>2. j \in Job /\ Filed(j)
  BY DEF IInv, TypeOK, FiledFirst
<1>3. j \in reported' /\ jobs'[j].tenant = jobs[j].tenant /\ jobs'[j].action = jobs[j].action
  BY <1>2 DEF JobsKept
<1> QED
  BY <1>1, <1>3 DEF Led

LEMMA KeptEarned ==
  ASSUME IInv, JobsKept, NEW t, NEW s, Earned(t, s)
  PROVE  Earned(t, s)'
BY KeptLed DEF Earned

LEMMA KeptReported ==
  ASSUME IInv, JobsKept, UNCHANGED status
  PROVE  StatusWasReported'
<1> SUFFICES ASSUME NEW t \in Tenant, status[t] \in Final
             PROVE  Led(t, status[t])'
  BY DEF StatusWasReported, Led, Final
<1>1. Led(t, status[t])
  BY DEF IInv, StatusWasReported, Led, Final
<1>2. PICK s : s = status[t]
  OBVIOUS
<1>3. Led(t, s)'
  BY <1>1, <1>2, KeptLed
<1> QED
  BY <1>2, <1>3

\* Saving a tenant entity whose status was reported.
LEMMA TenantSaved ==
  ASSUME IInv, NEW t \in Tenant, NEW s, Earned(t, s), status' = [status EXCEPT ![t] = s],
         UNCHANGED <<asked, jobs, reported>>
  PROVE  /\ status' \in [Tenant -> TenantStatus \cup {None}]
         /\ TenantsExist' /\ StatusWasReported'
<1>1. /\ status' \in [Tenant -> TenantStatus \cup {None}] /\ s \in TenantStatus
      /\ \A u \in Tenant : status'[u] = IF u = t THEN s ELSE status[u]
  BY DEF IInv, TypeOK, Earned
<1>2. \A x \in asked : x[1] \in Tenant
  BY DEF IInv, TypeOK
<1>3. \A j \in Job : Filed(j) => jobs[j].tenant \in Tenant
  BY DEF IInv, TypeOK, Filed, JobRow
<1>4. TenantsExist'
  BY <1>1, <1>2, <1>3 DEF IInv, TenantsExist, Filed
<1>5. StatusWasReported'
  BY <1>1 DEF IInv, StatusWasReported, Earned, Led, Final
<1> QED
  BY <1>1, <1>4, <1>5

\* Saving a job entity, with the tenant and action it always had.
LEMMA JobSaved ==
  ASSUME IInv, NEW j \in Job, NEW r \in JobRow, Holds(r, j), jobs' = [jobs EXCEPT ![j] = r],
         UNCHANGED <<status, asked, calls, reported>>, batch' \subseteq batch
  PROVE  /\ jobs' \in [Job -> JobRow \cup {None}]
         /\ \A i \in Job : jobs'[i] = IF i = j THEN r ELSE jobs[i]
         /\ JobsKept /\ FiledFirst' /\ TenantsExist' /\ StatusWasReported'
<1>1. /\ jobs' \in [Job -> JobRow \cup {None}] /\ r # None
      /\ \A i \in Job : jobs'[i] = IF i = j THEN r ELSE jobs[i]
  BY SaasAssumption DEF IInv, TypeOK
<1>2. JobsKept
  BY <1>1 DEF JobsKept, Holds, Filed
<1>3. FiledFirst'
  BY <1>1 DEF IInv, FiledFirst, Filed
<1>4. TenantsExist'
  <2>1. \A i \in Job : Filed(i)' => Filed(i)
    BY <1>1 DEF Filed, Holds
  <2> QED
    BY <1>2, <2>1 DEF IInv, TenantsExist, JobsKept
<1> QED
  BY <1>1, <1>2, <1>3, <1>4, KeptReported

LEMMA CallbacksStay ==
  ASSUME IInv, JobsKept, UNCHANGED callback
  PROVE  CallbackHolds'
<1> SUFFICES ASSUME NEW c \in Caller, callback[c] # None
             PROVE  /\ Holds(callback[c].row, callback[c].job)'
                    /\ callback[c].ok => callback[c].job \in reported'
                    /\ callback[c].step # "load" =>
                         Earned(callback[c].row.tenant, callback[c].seen)'
  BY DEF CallbackHolds
<1>1. PICK cb : cb = callback[c]
  OBVIOUS
<1>2. /\ Holds(cb.row, cb.job) /\ cb.job \in Job
      /\ cb.ok => cb.job \in reported
      /\ cb.step # "load" => Earned(cb.row.tenant, cb.seen)
  BY <1>1 DEF IInv, CallbackHolds, TypeOK, CallbackRow
<1>3. /\ Holds(cb.row, cb.job)'
      /\ cb.ok => cb.job \in reported'
      /\ cb.step # "load" => Earned(cb.row.tenant, cb.seen)'
  BY <1>2, KeptHolds, KeptEarned DEF JobsKept
<1> QED
  BY <1>1, <1>3

LEMMA WorkerStays ==
  ASSUME IInv, JobsKept, UNCHANGED <<at, cur, row, seen, calls>>,
         \A j \in Job : Filed(j) /\ jobs'[j].status = "QUEUED" => jobs[j].status = "QUEUED"
  PROVE  WorkerHolds'
<1> SUFFICES ASSUME at \notin {"off", "pick"}
             PROVE  /\ Holds(row, cur)'
                    /\ at # "claim" => jobs'[cur].status # "QUEUED"
                    /\ at = "apply" => cur \in reported'
                    /\ at \notin {"claim", "load"} => Earned(row.tenant, seen)'
  BY DEF IInv, WorkerHolds
<1>1. PICK r, j, s : r = row /\ j = cur /\ s = seen
  OBVIOUS
<1>2. /\ j \in Job /\ Holds(r, j)
      /\ at # "claim" => jobs[j].status # "QUEUED"
      /\ at = "apply" => j \in reported
      /\ at \notin {"claim", "load"} => Earned(r.tenant, s)
  BY <1>1 DEF IInv, TypeOK, WorkerHolds
<1>3. /\ Holds(r, j)'
      /\ at # "claim" => jobs'[j].status # "QUEUED"
      /\ at = "apply" => j \in reported'
      /\ at \notin {"claim", "load"} => Earned(r.tenant, s)'
  BY <1>2, KeptHolds, KeptEarned DEF JobsKept, Holds
<1> QED
  BY <1>1, <1>3 DEF Holds, Filed, Earned, Led

-----------------------------------------------------------------------------
(* Admin requests.                                                           *)

\* The table of jobs, its readers and the product are left alone.
Elsewhere == UNCHANGED <<jobs, workerVars, callback, calls, reported, cut>>

LEMMA ElsewhereSame ==
  ASSUME IInv, Elsewhere
  PROVE  /\ FiledFirst' /\ AttemptsCount' /\ WorkerHolds' /\ CallbackHolds'
         /\ CallsBounded' /\ RunningHasWorker'
<1> USE DEF IInv, Elsewhere, workerVars
<1>1. JobsKept
  BY DEF JobsKept, Filed
<1>2. FiledFirst' /\ AttemptsCount' /\ CallsBounded' /\ RunningHasWorker'
  BY DEF FiledFirst, AttemptsCount, CallsBounded, RunningHasWorker, AtWork, Queued, Filed
<1> QED
  BY <1>1, <1>2, WorkerStays, CallbacksStay

LEMMA AskStep ==
  ASSUME IInv, NEW t \in Tenant, NEW action \in Action, Ask(t, action) \/ DomainTaken(t)
  PROVE  IInv'
<1>1. Elsewhere /\ UNCHANGED status
  BY DEF Ask, DomainTaken, Elsewhere, workerVars
<1>2. /\ asked' \in SUBSET (Tenant \X Action)
      /\ \A x \in asked' : x \in asked \/ (x[1] = t /\ status[t] \in TenantStatus)
  <2>1. Ask(t, action) => status[t] \in TenantStatus
    BY DEF Ask, Legal, IInv, TypeOK, TenantStatus
  <2> QED
    BY <2>1 DEF Ask, DomainTaken, IInv, TypeOK
<1>3. TypeOK'
  BY <1>1, <1>2 DEF Elsewhere, workerVars, IInv, TypeOK
<1>4. TenantsExist'
  BY <1>1, <1>2 DEF Elsewhere, IInv, TenantsExist, Filed
<1>5. StatusWasReported'
  BY <1>1 DEF Elsewhere, IInv, StatusWasReported
<1> QED
  BY <1>1, <1>3, <1>4, <1>5, ElsewhereSame DEF IInv

LEMMA CreateStep ==
  ASSUME IInv, NEW t \in Tenant, Create(t)
  PROVE  IInv'
<1>1. /\ Elsewhere /\ status' = [status EXCEPT ![t] = "PENDING"]
      /\ asked' = asked \cup {<<t, "PROVISION">>}
  BY DEF Create, Elsewhere, workerVars
<1>2. TypeOK'
  BY <1>1 DEF Elsewhere, workerVars, IInv, TypeOK, TenantStatus, Action
<1>3. \A u \in Tenant : status'[u] = IF u = t THEN "PENDING" ELSE status[u]
  BY <1>1 DEF IInv, TypeOK
<1>4. TenantsExist'
  <2>1. \A x \in asked' : x[1] \in Tenant /\ (x \in asked \/ x[1] = t)
    BY <1>1 DEF IInv, TypeOK
  <2>2. \A j \in Job : Filed(j) => jobs[j].tenant \in Tenant
    BY DEF IInv, TypeOK, Filed, JobRow
  <2> QED
    BY <1>1, <1>3, <2>1, <2>2 DEF Elsewhere, IInv, TenantsExist, Filed, TenantStatus
<1>5. StatusWasReported'
  BY <1>1, <1>3 DEF Elsewhere, IInv, StatusWasReported
<1> QED
  BY <1>1, <1>2, <1>4, <1>5, ElsewhereSame DEF IInv

LEMMA EnqueueStep ==
  ASSUME IInv, NEW t \in Tenant, NEW action \in Action, Enqueue(t, action)
  PROVE  IInv'
<1>1. PICK j \in Job :
        /\ ~Filed(j)
        /\ jobs' = [jobs EXCEPT ![j] = [tenant |-> t, action |-> action, attempts |-> 0,
                                        status |-> "QUEUED"]]
  BY DEF Enqueue
<1>2. PICK r \in JobRow : /\ r = [tenant |-> t, action |-> action, attempts |-> 0,
                                  status |-> "QUEUED"]
                          /\ r.tenant = t /\ r.attempts = 0 /\ r.status = "QUEUED"
  <2> DEFINE new == [tenant |-> t, action |-> action, attempts |-> 0, status |-> "QUEUED"]
  <2>1. new \in JobRow
    BY DEF JobRow
  <2>2. new.tenant = t /\ new.attempts = 0 /\ new.status = "QUEUED"
    OBVIOUS
  <2> QED
    BY <2>1, <2>2
<1>3. /\ asked' = asked \ {<<t, action>>} /\ <<t, action>> \in asked
      /\ UNCHANGED <<status, batch, at, cur, row, seen, callback, calls, reported, cut>>
  BY DEF Enqueue, workerVars
<1>4. /\ jobs' \in [Job -> JobRow \cup {None}] /\ r # None
      /\ \A i \in Job : jobs'[i] = IF i = j THEN r ELSE jobs[i]
  BY <1>1, <1>2, SaasAssumption DEF IInv, TypeOK
<1>5. JobsKept
  BY <1>1, <1>3, <1>4 DEF JobsKept, Filed
<1>6. calls[j] = 0 /\ j \notin reported /\ j \notin batch
  BY <1>1 DEF IInv, FiledFirst
<1>7. TypeOK'
  BY <1>3, <1>4 DEF IInv, TypeOK
<1>8. FiledFirst'
  BY <1>3, <1>4 DEF IInv, FiledFirst, Filed
<1>9. AttemptsCount' /\ CallsBounded'
  BY <1>2, <1>3, <1>4, <1>6, SaasAssumption
  DEF IInv, AttemptsCount, CallsBounded, Queued, Filed
<1>10. TenantsExist'
  <2>1. status[t] \in TenantStatus
    BY <1>3 DEF IInv, TenantsExist
  <2> QED
    BY <1>2, <1>3, <1>4, <2>1 DEF IInv, TenantsExist, Filed
<1>11. WorkerHolds'
  BY <1>1, <1>3, <1>4, <1>5, WorkerStays
<1>12. CallbackHolds'
  BY <1>3, <1>5, CallbacksStay
<1>13. RunningHasWorker'
  BY <1>2, <1>3, <1>4 DEF IInv, RunningHasWorker, AtWork, Filed
<1>14. StatusWasReported'
  BY <1>3, <1>5, KeptReported
<1> QED
  BY <1>7, <1>8, <1>9, <1>10, <1>11, <1>12, <1>13, <1>14 DEF IInv

-----------------------------------------------------------------------------
(* The worker's steps that leave the table of jobs alone.                    *)

LEMMA TableSame ==
  ASSUME IInv, UNCHANGED <<jobs, callback, asked, status, calls, cut>>,
         reported \subseteq reported', reported' \subseteq {j \in Job : Filed(j)},
         batch' \subseteq {j \in Job : Filed(j)}
  PROVE  /\ FiledFirst' /\ AttemptsCount' /\ TenantsExist' /\ CallbackHolds'
         /\ CallsBounded' /\ StatusWasReported' /\ JobsKept
<1>1. JobsKept
  BY DEF JobsKept, Filed
<1>2. FiledFirst' /\ AttemptsCount' /\ CallsBounded' /\ TenantsExist'
  BY DEF IInv, FiledFirst, AttemptsCount, CallsBounded, TenantsExist, Queued, Filed
<1> QED
  BY <1>1, <1>2, CallbacksStay, KeptReported

LEMMA PassStep ==
  ASSUME IInv, Tick \/ TickEnds \/ Pick
  PROVE  IInv'
<1>1. /\ UNCHANGED <<status, asked, jobs, callback, calls, reported, cut, seen>>
      /\ at \in {"off", "pick"}
  BY DEF Tick, TickEnds, Pick, tenantVars
<1>2. /\ batch' \subseteq {j \in Job : Filed(j)}
      /\ \/ at' \in {"off", "pick"}
         \/ /\ at' = "claim" /\ cur' \in Queued /\ row' = jobs[cur']
  BY DEF Tick, TickEnds, Pick, IInv, TypeOK, FiledFirst, Queued, Filed
<1>3. \A j \in Queued : Filed(j) /\ jobs[j] \in JobRow
  BY DEF IInv, TypeOK, Queued, Filed
<1>4. WorkerHolds'
  BY <1>1, <1>2, <1>3 DEF IInv, WorkerHolds, Holds, AttemptsCount, Filed
<1>5. TypeOK'
  BY <1>1, <1>2, <1>3 DEF IInv, TypeOK, Steps, Queued
<1>6. RunningHasWorker'
  BY <1>1 DEF IInv, RunningHasWorker, AtWork, Filed
<1>7. reported' \subseteq {j \in Job : Filed(j)}
  BY <1>1 DEF IInv, FiledFirst, TypeOK
<1> QED
  BY <1>1, <1>2, <1>4, <1>5, <1>6, <1>7, TableSame DEF IInv

LEMMA LoadStep ==
  ASSUME IInv, Load
  PROVE  IInv'
<1>1. /\ at = "load" /\ at' \in {"mark", "call"} /\ seen' = status[row.tenant]
      /\ UNCHANGED <<status, asked, jobs, batch, cur, row, callback, calls, reported, cut>>
  BY DEF Load, tenantVars
<1>2. cur \in Job /\ row \in JobRow /\ Holds(row, cur) /\ row.tenant \in Tenant
  BY <1>1 DEF IInv, TypeOK, WorkerHolds, JobRow
<1>3. Earned(row.tenant, status[row.tenant])
  BY <1>2 DEF IInv, TenantsExist, StatusWasReported, Holds, Earned, Led, Final
<1>4. WorkerHolds'
  BY <1>1, <1>3 DEF IInv, WorkerHolds, Holds, Filed, Earned, Led
<1>5. TypeOK'
  BY <1>1, <1>2, <1>3 DEF IInv, TypeOK, Steps, Earned
<1>6. RunningHasWorker'
  BY <1>1 DEF IInv, RunningHasWorker, AtWork, Filed
<1> QED
  BY <1>1, <1>4, <1>5, <1>6, TableSame DEF IInv, TypeOK, FiledFirst

LEMMA DispatchStep ==
  ASSUME IInv, Dispatch
  PROVE  IInv'
<1>1. /\ at = "call" /\ at' = "wait" /\ calls' = [calls EXCEPT ![cur] = @ + 1]
      /\ UNCHANGED <<status, asked, jobs, batch, cur, row, seen, callback, reported, cut>>
  BY DEF Dispatch, tenantVars
<1>2. /\ cur \in Job /\ Filed(cur) /\ jobs[cur].status # "QUEUED"
      /\ row.attempts = calls[cur] + 1 /\ calls[cur] < MaxAttempts /\ calls[cur] \in Nat
  BY <1>1 DEF IInv, TypeOK, WorkerHolds, Holds
<1>3. \A j \in Job : calls'[j] = IF j = cur THEN calls[cur] + 1 ELSE calls[j]
  BY <1>1 DEF IInv, TypeOK
<1>4. TypeOK'
  BY <1>1, <1>2 DEF IInv, TypeOK, Steps
<1>5. FiledFirst' /\ AttemptsCount' /\ CallsBounded'
  BY <1>1, <1>2, <1>3, SaasAssumption
  DEF IInv, FiledFirst, AttemptsCount, CallsBounded, Queued, Filed
<1>6. TenantsExist' /\ StatusWasReported'
  BY <1>1 DEF IInv, TenantsExist, StatusWasReported, Filed
<1>7. WorkerHolds'
  BY <1>1, <1>2, <1>3 DEF IInv, WorkerHolds, Holds, Filed, Earned, Led
<1>8. CallbackHolds'
  BY <1>1, CallbacksStay DEF JobsKept, Filed
<1>9. RunningHasWorker'
  BY <1>1 DEF IInv, RunningHasWorker, AtWork, Filed
<1> QED
  BY <1>4, <1>5, <1>6, <1>7, <1>8, <1>9 DEF IInv

LEMMA AnswerStep ==
  ASSUME IInv, AnswerOk \/ AnswerFails
  PROVE  IInv'
<1>1. /\ at = "wait" /\ at' \in {"apply", "requeue", "giveup"}
      /\ at' = "apply" => cur \in reported'
      /\ at' = "requeue" => row.attempts < MaxAttempts
      /\ reported \subseteq reported' /\ reported' \subseteq reported \cup {cur}
      /\ UNCHANGED <<status, asked, jobs, batch, cur, row, seen, callback, calls, cut>>
  BY DEF AnswerOk, AnswerFails, tenantVars
<1>2. cur \in Job /\ Filed(cur)
  BY <1>1 DEF IInv, TypeOK, WorkerHolds, Holds
<1>3. JobsKept
  BY <1>1 DEF JobsKept, Filed
<1>4. WorkerHolds'
  <2>1. PICK t, s : t = row.tenant /\ s = seen
    OBVIOUS
  <2>2. Earned(t, s)
    BY <1>1, <2>1 DEF IInv, WorkerHolds
  <2>3. Earned(t, s)'
    BY <1>3, <2>2, KeptEarned
  <2>4. Earned(row.tenant, seen)'
    BY <1>1, <2>1, <2>3 DEF Earned, Led
  <2> QED
    BY <1>1, <2>4 DEF IInv, WorkerHolds, Holds, Filed
<1>5. TypeOK'
  BY <1>1, <1>2 DEF IInv, TypeOK, Steps
<1>6. RunningHasWorker'
  BY <1>1 DEF IInv, RunningHasWorker, AtWork, Filed
<1>7. reported' \subseteq {j \in Job : Filed(j)} /\ batch' \subseteq {j \in Job : Filed(j)}
  BY <1>1, <1>2 DEF IInv, FiledFirst, TypeOK
<1> QED
  BY <1>1, <1>4, <1>5, <1>6, <1>7, TableSame DEF IInv

-----------------------------------------------------------------------------
(* The worker saves the tenant.                                              *)

LEMMA WorkerSavesTenant ==
  ASSUME IInv, at \notin {"off", "pick", "claim", "load"},
         NEW s, Earned(row.tenant, s), status' = [status EXCEPT ![row.tenant] = s],
         UNCHANGED <<asked, jobs, batch, callback, calls, reported, cut>>,
         \/ /\ at' \in {"call", "settle"} /\ seen' = s /\ UNCHANGED <<cur, row>>
            /\ at' = "call" => at = "mark"
            /\ at' = "settle" => at = "apply"
         \/ at' = "pick" /\ at = "refuse"
  PROVE  IInv'
<1>1. row \in JobRow /\ row.tenant \in Tenant /\ Holds(row, cur) /\ cur \in Job
  BY DEF IInv, TypeOK, JobRow, WorkerHolds
<1>2. /\ status' \in [Tenant -> TenantStatus \cup {None}]
      /\ TenantsExist' /\ StatusWasReported'
  BY <1>1, TenantSaved
<1>3. TypeOK'
  BY <1>1, <1>2 DEF IInv, TypeOK, Steps, Earned
<1>4. FiledFirst' /\ AttemptsCount' /\ CallsBounded'
  BY DEF IInv, FiledFirst, AttemptsCount, CallsBounded, Queued, Filed
<1>5. CallbackHolds'
  BY CallbacksStay DEF JobsKept, Filed
<1>6. WorkerHolds'
  BY <1>1 DEF IInv, WorkerHolds, Holds, Filed, Earned, Led
<1>7. RunningHasWorker'
  BY DEF IInv, RunningHasWorker, AtWork, Filed
<1> QED
  BY <1>2, <1>3, <1>4, <1>5, <1>6, <1>7 DEF IInv

LEMMA TenantStep ==
  ASSUME IInv, MarkProvisioning \/ Apply \/ Refuse
  PROVE  IInv'
<1>1. /\ at \in {"mark", "apply", "refuse"} /\ Earned(row.tenant, seen)
      /\ Holds(row, cur) /\ row \in JobRow
      /\ at = "apply" => cur \in reported
  BY DEF MarkProvisioning, Apply, Refuse, IInv, WorkerHolds, TypeOK
<1>2. Earned(row.tenant, "PROVISIONING")
  BY DEF Earned, TenantStatus, Final
<1>3. CASE MarkProvisioning
  BY <1>2, <1>3, WorkerSavesTenant DEF MarkProvisioning, SaveTenant
<1>4. CASE Apply
  <2>1. Earned(row.tenant, After(row.action, seen))
    BY <1>1, <1>4, ReportedLeads, AfterIs DEF Apply
  <2> QED
    BY <1>4, <2>1, WorkerSavesTenant DEF Apply, SaveTenant
<1>5. CASE Refuse
  <2>1. Earned(row.tenant, AfterFailure(seen))
    BY <1>1, AfterFailureIs
  <2> QED
    BY <1>5, <2>1, WorkerSavesTenant DEF Refuse, SaveTenant, RunJobEnds
<1> QED
  BY <1>3, <1>4, <1>5

-----------------------------------------------------------------------------
(* The worker saves the job.                                                 *)

\* The entities it saves.
LEMMA SavedRow ==
  ASSUME NEW r \in JobRow, NEW s \in {"RUNNING", "SUCCEEDED", "QUEUED", "FAILED"}
  PROVE  LET new == [r EXCEPT !.status = s]
         IN  /\ new \in JobRow /\ new.status = s /\ new.attempts = r.attempts
             /\ new.tenant = r.tenant /\ new.action = r.action
BY DEF JobRow

LEMMA ClaimedRow ==
  ASSUME NEW r \in JobRow
  PROVE  LET new == [r EXCEPT !.status = "RUNNING", !.attempts = @ + 1]
         IN  /\ new \in JobRow /\ new.status = "RUNNING" /\ new.attempts = r.attempts + 1
             /\ new.tenant = r.tenant /\ new.action = r.action
<1>1. PICK n \in Nat : n = r.attempts + 1
  BY DEF JobRow
<1>2. PICK m \in JobRow : /\ m = [r EXCEPT !.status = "RUNNING"] /\ m.status = "RUNNING"
                          /\ m.tenant = r.tenant /\ m.action = r.action
  <2>1. [r EXCEPT !.status = "RUNNING"] \in JobRow
    BY DEF JobRow
  <2> QED
    BY <2>1, SavedRow
<1>3. [m EXCEPT !.attempts = n] \in JobRow
  BY DEF JobRow
<1>4. [r EXCEPT !.status = "RUNNING", !.attempts = @ + 1] = [m EXCEPT !.attempts = n]
  BY <1>1, <1>2 DEF JobRow
<1> QED
  BY <1>1, <1>2, <1>3, <1>4 DEF JobRow

LEMMA ClaimStep ==
  ASSUME IInv, Claim
  PROVE  IInv'
<1>1. /\ at = "claim" /\ at' = "load"
      /\ row' = [row EXCEPT !.status = "RUNNING", !.attempts = @ + 1]
      /\ jobs' = [jobs EXCEPT ![cur] = row']
      /\ UNCHANGED <<status, asked, batch, cur, seen, callback, calls, reported, cut>>
  BY DEF Claim, SaveJob, tenantVars
<1>2. /\ cur \in Job /\ row \in JobRow /\ Holds(row, cur)
      /\ row.attempts = calls[cur] /\ calls[cur] < MaxAttempts
  BY <1>1 DEF IInv, TypeOK, WorkerHolds
<1>3. PICK r \in JobRow :
        /\ r = row' /\ r.status = "RUNNING" /\ r.attempts = row.attempts + 1
        /\ r.tenant = row.tenant /\ r.action = row.action
  BY <1>1, <1>2, ClaimedRow
<1>4. Holds(r, cur)
  BY <1>2, <1>3 DEF Holds
<1>5. /\ jobs' \in [Job -> JobRow \cup {None}]
      /\ \A i \in Job : jobs'[i] = IF i = cur THEN r ELSE jobs[i]
      /\ JobsKept /\ FiledFirst' /\ TenantsExist' /\ StatusWasReported'
  BY <1>1, <1>2, <1>3, <1>4, JobSaved
<1>6. TypeOK'
  BY <1>1, <1>2, <1>3, <1>5 DEF IInv, TypeOK, Steps
<1>7. AttemptsCount' /\ CallsBounded'
  BY <1>1, <1>3, <1>5 DEF IInv, AttemptsCount, CallsBounded, Queued, Filed
<1>8. CallbackHolds'
  BY <1>1, <1>5, CallbacksStay
<1>9. WorkerHolds'
  BY <1>1, <1>2, <1>3, <1>4, <1>5 DEF WorkerHolds, Holds, JobsKept
<1>10. RunningHasWorker'
  BY <1>1, <1>3, <1>5 DEF IInv, RunningHasWorker, AtWork, Filed
<1> QED
  BY <1>5, <1>6, <1>7, <1>8, <1>9, <1>10 DEF IInv

\* With the outcome, the run is over or the tenant follows.
LEMMA WorkerSavesJob ==
  ASSUME IInv, NEW s \in {"SUCCEEDED", "QUEUED", "FAILED"},
         at \in {"settle", "requeue", "giveup"}, s = "QUEUED" => at = "requeue",
         jobs' = [jobs EXCEPT ![cur] = [row EXCEPT !.status = s]],
         UNCHANGED <<status, asked, batch, callback, calls, reported, cut>>,
         \/ at' = "pick"
         \/ at' = "refuse" /\ s = "FAILED" /\ UNCHANGED <<cur, row, seen>>
  PROVE  IInv'
<1>1. /\ cur \in Job /\ row \in JobRow /\ Holds(row, cur)
      /\ at = "requeue" => row.attempts = calls[cur] /\ row.attempts < MaxAttempts
      /\ Earned(row.tenant, seen)
  BY DEF IInv, TypeOK, WorkerHolds
<1>2. PICK r \in JobRow :
        /\ r = [row EXCEPT !.status = s] /\ r.status = s /\ r.attempts = row.attempts
        /\ r.tenant = row.tenant /\ r.action = row.action
  <2>1. s \in {"RUNNING", "SUCCEEDED", "QUEUED", "FAILED"} /\ row \in JobRow
    BY <1>1
  <2> QED
    BY <2>1, SavedRow
<1>3. Holds(r, cur)
  BY <1>1, <1>2 DEF Holds
<1>4. /\ jobs' \in [Job -> JobRow \cup {None}]
      /\ \A i \in Job : jobs'[i] = IF i = cur THEN r ELSE jobs[i]
      /\ JobsKept /\ FiledFirst' /\ TenantsExist' /\ StatusWasReported'
  BY <1>1, <1>2, <1>3, JobSaved
<1>5. TypeOK'
  BY <1>1, <1>4 DEF IInv, TypeOK, Steps, Earned
<1>6. AttemptsCount' /\ CallsBounded'
  BY <1>1, <1>2, <1>4 DEF IInv, AttemptsCount, CallsBounded, Queued, Filed
<1>7. CallbackHolds'
  BY <1>4, CallbacksStay
<1>8. WorkerHolds'
  <2> SUFFICES ASSUME at' = "refuse" /\ s = "FAILED" /\ UNCHANGED <<cur, row, seen>>
               PROVE  Holds(row, cur)' /\ jobs'[cur'].status # "QUEUED"
                      /\ Earned(row.tenant, seen)'
    BY DEF WorkerHolds
  <2>1. PICK j, t, st : j = cur /\ t = row.tenant /\ st = seen
    OBVIOUS
  <2>2. Holds(r, j)' /\ Earned(t, st)'
    BY <1>1, <1>3, <1>4, <2>1, KeptHolds, KeptEarned
  <2>3. Earned(row.tenant, seen)'
    BY <2>1, <2>2 DEF Earned, Led
  <2> QED
    BY <1>2, <1>4, <2>1, <2>2, <2>3 DEF Holds, Filed
<1>9. RunningHasWorker'
  BY <1>2, <1>4 DEF IInv, RunningHasWorker, AtWork, Filed
<1> QED
  BY <1>4, <1>5, <1>6, <1>7, <1>8, <1>9 DEF IInv

LEMMA OutcomeStep ==
  ASSUME IInv, Settle \/ Requeue \/ GiveUp
  PROVE  IInv'
<1>1. CASE Settle
  BY <1>1, WorkerSavesJob DEF Settle, SaveJob, RunJobEnds, tenantVars
<1>2. CASE Requeue
  BY <1>2, WorkerSavesJob DEF Requeue, SaveJob, RunJobEnds, tenantVars
<1>3. CASE GiveUp
  BY <1>3, WorkerSavesJob DEF GiveUp, SaveJob, tenantVars
<1> QED
  BY <1>1, <1>2, <1>3

-----------------------------------------------------------------------------
(* Callbacks.                                                                *)

LEMMA WorkerIdleHere ==
  ASSUME IInv, UNCHANGED <<jobs, workerVars, calls, cut>>, reported \subseteq reported'
  PROVE  WorkerHolds' /\ RunningHasWorker' /\ AttemptsCount' /\ CallsBounded' /\ JobsKept
<1>1. JobsKept
  BY DEF JobsKept, Filed
<1>2. RunningHasWorker' /\ AttemptsCount' /\ CallsBounded'
  BY DEF IInv, workerVars, RunningHasWorker, AtWork, AttemptsCount, CallsBounded, Queued, Filed
<1> QED
  BY <1>1, <1>2, WorkerStays DEF workerVars

\* What the other slots hold stays, whatever this one takes up.
LEMMA OneCallback ==
  ASSUME IInv, JobsKept, NEW c \in Caller, NEW cb \in CallbackRow \cup {None},
         callback' = [callback EXCEPT ![c] = cb],
         cb # None => /\ Holds(cb.row, cb.job)'
                      /\ cb.ok => cb.job \in reported'
                      /\ cb.step # "load" => Earned(cb.row.tenant, cb.seen)'
  PROVE  callback' \in [Caller -> CallbackRow \cup {None}] /\ CallbackHolds'
<1>1. /\ callback' \in [Caller -> CallbackRow \cup {None}]
      /\ \A d \in Caller : callback'[d] = IF d = c THEN cb ELSE callback[d]
  BY DEF IInv, TypeOK
<1>2. SUFFICES ASSUME NEW d \in Caller, callback'[d] # None
               PROVE  /\ Holds(callback[d].row, callback[d].job)'
                      /\ callback'[d].ok => callback'[d].job \in reported'
                      /\ callback'[d].step # "load" =>
                           Earned(callback[d].row.tenant, callback[d].seen)'
  BY <1>1 DEF CallbackHolds
<1>3. PICK x : x = callback'[d]
  OBVIOUS
<1>4. /\ Holds(x.row, x.job)'
      /\ x.ok => x.job \in reported'
      /\ x.step # "load" => Earned(x.row.tenant, x.seen)'
  <2>1. CASE d = c
    BY <1>1, <1>2, <1>3, <2>1
  <2>2. CASE d # c
    <3>1. /\ x = callback[d] /\ Holds(x.row, x.job) /\ x.job \in Job
          /\ x.ok => x.job \in reported
          /\ x.step # "load" => Earned(x.row.tenant, x.seen)
      BY <1>1, <1>2, <1>3, <2>2 DEF IInv, CallbackHolds, TypeOK, CallbackRow
    <3> QED
      BY <3>1, KeptHolds, KeptEarned DEF JobsKept
  <2> QED
    BY <2>1, <2>2
<1> QED
  BY <1>3, <1>4 DEF Holds, Filed, Earned, Led

LEMMA ArrivesStep ==
  ASSUME IInv, NEW c \in Caller, NEW j \in Job, NEW ok \in BOOLEAN, CallbackArrives(c, j, ok)
  PROVE  IInv'
<1> DEFINE new == [step |-> "load", job |-> j, row |-> jobs[j], ok |-> ok, seen |-> None]
<1>1. Filed(j) /\ jobs[j] \in JobRow
  BY DEF CallbackArrives, IInv, FiledFirst, TypeOK, Filed
<1>2. /\ reported \subseteq reported' /\ reported' \subseteq reported \cup {j}
      /\ ok => j \in reported'
      /\ callback' = [callback EXCEPT ![c] = new]
      /\ UNCHANGED <<status, asked, jobs, workerVars, calls, cut>>
  BY DEF CallbackArrives, tenantVars
<1>3. /\ new \in CallbackRow /\ new.step = "load" /\ new.job = j /\ new.ok = ok
      /\ new.row = jobs[j]
  BY <1>1 DEF CallbackRow
<1>4. PICK cb \in CallbackRow : cb = new
  BY <1>3
<1> HIDE DEF new
<1>5. WorkerHolds' /\ RunningHasWorker' /\ AttemptsCount' /\ CallsBounded' /\ JobsKept
  BY <1>2, WorkerIdleHere
<1>6. Holds(cb.row, cb.job)'
  BY <1>1, <1>2, <1>3, <1>4 DEF Holds, Filed
<1>7. callback' \in [Caller -> CallbackRow \cup {None}] /\ CallbackHolds'
  BY <1>2, <1>3, <1>4, <1>5, <1>6, OneCallback
<1>8. TypeOK'
  BY <1>2, <1>7 DEF IInv, TypeOK, workerVars
<1>9. FiledFirst' /\ TenantsExist'
  BY <1>1, <1>2 DEF IInv, FiledFirst, TenantsExist, Filed, workerVars
<1>10. StatusWasReported'
  BY <1>2, <1>5, KeptReported
<1> QED
  BY <1>5, <1>7, <1>8, <1>9, <1>10 DEF IInv

\* What a callback at work holds.
LEMMA Held ==
  ASSUME IInv, NEW c \in Caller, callback[c] # None
  PROVE  /\ callback[c] \in CallbackRow /\ Holds(callback[c].row, callback[c].job)
         /\ callback[c].job \in Job /\ callback[c].row \in JobRow
         /\ callback[c].row.tenant \in Tenant
         /\ callback[c].ok => callback[c].job \in reported
         /\ callback[c].step # "load" => Earned(callback[c].row.tenant, callback[c].seen)
BY DEF IInv, CallbackHolds, TypeOK, CallbackRow, JobRow

LEMMA LoadsStep ==
  ASSUME IInv, NEW c \in Caller, CallbackLoads(c)
  PROVE  IInv'
<1> DEFINE s == status[callback[c].row.tenant]
<1>1. /\ callback[c] # None
      /\ callback' = [callback EXCEPT ![c] = [callback[c] EXCEPT !.step = "apply", !.seen = s]]
      /\ UNCHANGED <<status, asked, jobs, workerVars, calls, reported, cut>>
  BY DEF CallbackLoads, IInv, TypeOK, tenantVars
<1>2. Earned(callback[c].row.tenant, s)
  BY <1>1, Held DEF IInv, TenantsExist, StatusWasReported, Holds, Earned, Led, Final
<1>3. PICK cb \in CallbackRow :
        /\ cb = [callback[c] EXCEPT !.step = "apply", !.seen = s]
        /\ cb.job = callback[c].job /\ cb.row = callback[c].row /\ cb.ok = callback[c].ok
        /\ cb.seen = s
  <2>1. s \in TenantStatus /\ callback[c] \in CallbackRow
    BY <1>1, <1>2, Held DEF Earned
  <2>2. [callback[c] EXCEPT !.step = "apply", !.seen = s] \in CallbackRow
    BY <2>1 DEF CallbackRow
  <2> QED
    BY <2>1, <2>2 DEF CallbackRow
<1> HIDE DEF s
<1>4. WorkerHolds' /\ RunningHasWorker' /\ AttemptsCount' /\ CallsBounded' /\ JobsKept
  BY <1>1, WorkerIdleHere
<1>5. /\ Holds(cb.row, cb.job) /\ cb.job \in Job /\ cb.ok => cb.job \in reported
      /\ Earned(cb.row.tenant, cb.seen)
  BY <1>1, <1>2, <1>3, Held
<1>6. Holds(cb.row, cb.job)' /\ Earned(cb.row.tenant, cb.seen)'
  BY <1>4, <1>5, Held, KeptHolds, KeptEarned, <1>3, <1>1
<1>7. callback' \in [Caller -> CallbackRow \cup {None}] /\ CallbackHolds'
  BY <1>1, <1>3, <1>4, <1>5, <1>6, Held, OneCallback
<1>8. TypeOK'
  BY <1>1, <1>7 DEF IInv, TypeOK, workerVars
<1>9. FiledFirst' /\ TenantsExist' /\ StatusWasReported'
  BY <1>1, <1>4, KeptReported DEF IInv, FiledFirst, TenantsExist, Filed, workerVars
<1> QED
  BY <1>4, <1>7, <1>8, <1>9 DEF IInv

LEMMA AppliesStep ==
  ASSUME IInv, NEW c \in Caller, CallbackApplies(c)
  PROVE  IInv'
<1>1. PICK old \in CallbackRow :
        /\ old = callback[c] /\ old.step = "apply"
        /\ Holds(old.row, old.job) /\ old.job \in Job /\ old.row \in JobRow
        /\ old.row.tenant \in Tenant
        /\ old.ok => old.job \in reported
        /\ Earned(old.row.tenant, old.seen)
  BY Held DEF CallbackApplies
<1>2. PICK s : s = IF old.ok THEN After(old.row.action, old.seen) ELSE AfterFailure(old.seen)
  OBVIOUS
<1>3. Earned(old.row.tenant, s)
  BY <1>1, <1>2, ReportedLeads, AfterIs, AfterFailureIs
<1>4. /\ status' = [status EXCEPT ![old.row.tenant] = s]
      /\ callback' = [callback EXCEPT ![c] = [old EXCEPT !.step = "save"]]
      /\ UNCHANGED <<asked, jobs, workerVars, calls, reported, cut>>
  BY <1>1, <1>2 DEF CallbackApplies, SaveTenant, IInv, TypeOK
<1>5. PICK cb \in CallbackRow :
        /\ cb = [old EXCEPT !.step = "save"]
        /\ cb.job = old.job /\ cb.row = old.row /\ cb.ok = old.ok /\ cb.seen = old.seen
  <2>1. [old EXCEPT !.step = "save"] \in CallbackRow
    BY DEF CallbackRow
  <2> QED
    BY <2>1 DEF CallbackRow
<1>6. WorkerHolds' /\ RunningHasWorker' /\ AttemptsCount' /\ CallsBounded' /\ JobsKept
  BY <1>4, WorkerIdleHere
<1>7. /\ Holds(cb.row, cb.job)' /\ Earned(cb.row.tenant, cb.seen)'
      /\ cb.ok => cb.job \in reported'
  BY <1>1, <1>4, <1>5, <1>6, KeptHolds, KeptEarned
<1>8. callback' \in [Caller -> CallbackRow \cup {None}] /\ CallbackHolds'
  BY <1>1, <1>4, <1>5, <1>6, <1>7, OneCallback
<1>9. /\ status' \in [Tenant -> TenantStatus \cup {None}]
      /\ TenantsExist' /\ StatusWasReported'
  BY <1>1, <1>3, <1>4, TenantSaved
<1>10. TypeOK'
  BY <1>4, <1>8, <1>9 DEF IInv, TypeOK, workerVars
<1>11. FiledFirst'
  BY <1>4 DEF IInv, FiledFirst, Filed, workerVars
<1> QED
  BY <1>6, <1>8, <1>9, <1>10, <1>11 DEF IInv

LEMMA SavesStep ==
  ASSUME IInv, NEW c \in Caller, CallbackSaves(c)
  PROVE  IInv'
<1>1. PICK old \in CallbackRow :
        /\ old = callback[c] /\ Holds(old.row, old.job) /\ old.job \in Job /\ old.row \in JobRow
  BY Held DEF CallbackSaves
<1>2. PICK s \in {"SUCCEEDED", "FAILED"} : s = IF old.ok THEN "SUCCEEDED" ELSE "FAILED"
  OBVIOUS
<1>3. PICK r \in JobRow : /\ r = [old.row EXCEPT !.status = s] /\ r.status = s
                          /\ r.tenant = old.row.tenant /\ r.action = old.row.action
  <2>1. PICK q \in JobRow : q = old.row
    BY <1>1
  <2>2. s \in {"RUNNING", "SUCCEEDED", "QUEUED", "FAILED"}
    OBVIOUS
  <2>3. /\ [q EXCEPT !.status = s] \in JobRow /\ [q EXCEPT !.status = s].status = s
        /\ [q EXCEPT !.status = s].tenant = q.tenant /\ [q EXCEPT !.status = s].action = q.action
    BY <2>2, SavedRow
  <2> QED
    BY <2>1, <2>3
<1>4. /\ jobs' = [jobs EXCEPT ![old.job] = r]
      /\ callback' = [callback EXCEPT ![c] = None]
      /\ UNCHANGED <<status, asked, workerVars, calls, reported, cut>>
  BY <1>1, <1>2, <1>3 DEF CallbackSaves, SaveJob, tenantVars
<1>5. Holds(r, old.job)
  BY <1>1, <1>3 DEF Holds
<1>6. /\ jobs' \in [Job -> JobRow \cup {None}]
      /\ \A i \in Job : jobs'[i] = IF i = old.job THEN r ELSE jobs[i]
      /\ JobsKept /\ FiledFirst' /\ TenantsExist' /\ StatusWasReported'
  BY <1>1, <1>4, <1>5, JobSaved DEF workerVars
<1>7. \A i \in Job : Filed(i)' => \/ jobs'[i] = jobs[i] /\ Filed(i)
                                  \/ jobs'[i].status \in {"SUCCEEDED", "FAILED"}
  BY <1>3, <1>6 DEF Filed
<1>8. WorkerHolds'
  BY <1>4, <1>6, <1>7, WorkerStays DEF workerVars, JobsKept
<1>9. AttemptsCount' /\ CallsBounded'
  BY <1>4, <1>7 DEF IInv, AttemptsCount, CallsBounded, Queued
<1>10. RunningHasWorker'
  BY <1>4, <1>7 DEF IInv, RunningHasWorker, AtWork, workerVars
<1>11. callback' \in [Caller -> CallbackRow \cup {None}] /\ CallbackHolds'
  BY <1>4, <1>6, OneCallback
<1>12. TypeOK'
  BY <1>4, <1>6, <1>11 DEF IInv, TypeOK, workerVars
<1> QED
  BY <1>6, <1>8, <1>9, <1>10, <1>11, <1>12 DEF IInv

-----------------------------------------------------------------------------
\* A pass that is dropped adds the job at work to those that were cut short.
LEMMA DroppedStep ==
  ASSUME IInv, PassThrows \/ Restart
  PROVE  IInv'
<1>1. /\ PassIsDropped /\ UNCHANGED <<status, jobs, calls, reported>>
      /\ asked' \subseteq asked
      /\ callback' = callback \/ callback' = [c \in Caller |-> None]
  BY DEF PassThrows, Restart, tenantVars
<1>2. at \in AtWork => cur \in Job
  BY DEF IInv, TypeOK, AtWork
<1>3. TypeOK'
  BY <1>1, <1>2 DEF PassIsDropped, IInv, TypeOK, Steps
<1>4. FiledFirst' /\ AttemptsCount' /\ CallsBounded' /\ TenantsExist' /\ StatusWasReported'
  BY <1>1 DEF PassIsDropped, IInv, FiledFirst, AttemptsCount, CallsBounded, TenantsExist,
              StatusWasReported, Queued, Filed
<1>5. RunningHasWorker'
  BY <1>1 DEF PassIsDropped, IInv, RunningHasWorker, Filed
<1>6. CallbackHolds'
  <2>1. CASE callback' = callback
    BY <1>1, <2>1, CallbacksStay DEF JobsKept, Filed
  <2>2. CASE callback' = [c \in Caller |-> None]
    BY <2>2 DEF CallbackHolds
  <2> QED
    BY <1>1, <2>1, <2>2
<1>7. WorkerHolds'
  BY <1>1 DEF PassIsDropped, WorkerHolds
<1> QED
  BY <1>3, <1>4, <1>5, <1>6, <1>7 DEF IInv

LEMMA InvariantStep ==
  ASSUME IInv, [Next]_saasVars
  PROVE  IInv'
<1>1. CASE Work
  BY <1>1, PassStep, ClaimStep, LoadStep, TenantStep, DispatchStep, AnswerStep, OutcomeStep
  DEF Work
<1>2. ASSUME NEW t \in Tenant, Admin(t)
      PROVE  IInv'
  <2>1. Request \subseteq Action /\ "PROVISION" \in Action
    BY SaasAssumption DEF Action
  <2> QED
    BY <1>2, <2>1, AskStep, CreateStep, EnqueueStep DEF Admin
<1>3. ASSUME NEW c \in Caller, HandleCallback(c)
      PROVE  IInv'
  BY <1>3, ArrivesStep, LoadsStep, AppliesStep, SavesStep DEF HandleCallback
<1>4. CASE PassThrows \/ Restart
  BY <1>4, DroppedStep
<1>5. CASE UNCHANGED saasVars
  <2>1. UNCHANGED <<status, asked, jobs, batch, at, cur, row, seen, callback, calls, reported,
                    cut>>
    BY <1>5 DEF saasVars, tenantVars, workerVars
  <2>2. TypeOK'
    BY <2>1 DEF IInv, TypeOK
  <2>3. TenantsExist' /\ StatusWasReported'
    BY <2>1 DEF IInv, TenantsExist, StatusWasReported, Filed
  <2> QED
    BY <2>1, <2>2, <2>3, ElsewhereSame DEF IInv, Elsewhere, workerVars
<1> QED
  BY <1>1, <1>2, <1>3, <1>4, <1>5 DEF Next

LEMMA InvariantHolds == Spec => []IInv
<1>1. Init => IInv
  <2> SUFFICES ASSUME Init
               PROVE  IInv
    OBVIOUS
  <2>1. TypeOK
    BY DEF Init, TypeOK, Steps
  <2>2. \A j \in Job : ~Filed(j) /\ calls[j] = 0
    BY DEF Init, Filed
  <2>3. CallsBounded
    BY <2>2, SaasAssumption DEF CallsBounded
  <2>4. StatusWasReported
    BY SaasAssumption DEF Init, StatusWasReported, TenantStatus
  <2> QED
    BY <2>1, <2>2, <2>3, <2>4
    DEF Init, IInv, FiledFirst, AttemptsCount, TenantsExist, WorkerHolds, CallbackHolds,
        RunningHasWorker, AtWork, Queued
<1>2. IInv /\ [Next]_saasVars => IInv'
  BY InvariantStep
<1> QED
  BY <1>1, <1>2, PTL DEF Spec

\* Every reachable state of the SaaS control plane is well typed.
THEOREM TypeCorrect == Spec => []TypeOK
<1>1. IInv => TypeOK
  BY DEF IInv
<1> QED
  BY <1>1, InvariantHolds, PTL

\* However callbacks and the worker overwrite each other's rows, and however often the
\* process restarts, the product is called at most MaxAttempts times for a job.
THEOREM CallsStayBounded == Spec => []CallsBounded
<1>1. IInv => CallsBounded
  BY DEF IInv
<1> QED
  BY <1>1, InvariantHolds, PTL

\* A RUNNING job is the one the worker is at, unless a stop or an exception cut short
\* that very job's run.
THEOREM RunningIsWorkedOn == Spec => []RunningHasWorker
<1>1. IInv => RunningHasWorker
  BY DEF IInv
<1> QED
  BY <1>1, InvariantHolds, PTL

\* A tenant becomes ACTIVE, SUSPENDED or ARCHIVED only by what the product reported of a
\* job of its own, however stale the entity that is saved.
THEOREM StatusesWereReported == Spec => []StatusWasReported
<1>1. IInv => StatusWasReported
  BY DEF IInv
<1> QED
  BY <1>1, InvariantHolds, PTL
=============================================================================
