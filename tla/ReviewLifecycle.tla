--------------------------- MODULE ReviewLifecycle ---------------------------
(***************************************************************************)
(* The life of review jobs: ReviewsService (create, retry),                *)
(* OutboxDispatcherService, RabbitConnection's result consumer with        *)
(* ResultProcessorService, RetryScheduler and                              *)
(* ReviewAttemptReconcilerService, working on the rows review_jobs,        *)
(* review_job_attempts, message_outbox and message_inbox.                  *)
(*                                                                         *)
(* One step is one database transaction, one CAS updateMany or one call to *)
(* the broker; between two steps of a handler every other actor may run.   *)
(* The jobs are those of ONE pull request (they share its row), and        *)
(* Dispatchers are the API processes, each with one dispatch loop.         *)
(* Time is abstract: a deadline or a lease may pass at any moment, and the *)
(* backoffs (availableAt, nextRetryAt) are over whenever an actor looks.   *)
(***************************************************************************)
EXTENDS Naturals, FiniteSets

CONSTANTS
    Jobs,         \* review jobs of one pull request
    Dispatchers,  \* API processes running OutboxDispatcherService
    Retriers,     \* concurrent calls of createRetryAttempt (cron or HTTP)
    Commits,      \* source commits the pull request row can hold
    MaxAttempts,  \* review.maxAttempts of the configuration
    Limits,       \* values review_settings.maxAttempts takes
    MaxDuplicates,\* bound: requests the broker is given twice
    MaxFaults,    \* bound: crashes, refused publishes, lost acks, rollbacks
    NoJob         \* what an idle dispatcher or retrier works on

ASSUME ConstantsAssumption ==
    /\ MaxAttempts \in Nat \ {0}
    /\ MaxDuplicates \in Nat
    /\ MaxFaults \in Nat
    /\ Limits \subseteq 1..MaxAttempts
    /\ Commits # {}
    /\ NoJob \notin Jobs

VARIABLES
    jobStatus,      \* review_jobs.status, "none" before the row exists
    currentAttempt, \* review_jobs.currentAttempt, 0 before the row exists
    limit,          \* review_settings.maxAttempts of the repository
    prCommit,       \* pull_requests.sourceCommit
    attempt,        \* review_job_attempts.status by <<job, number>>
    commit,         \* the source commit in the attempt's request
    outbox,         \* message_outbox row of the attempt's request
    requests,       \* copies of the attempt's request ever put on the queue
    answered,       \* how many of them the worker has answered
    outcomes,       \* messages on the results queue
    inbox,          \* processed rows of message_inbox
    statusPub,      \* the "<job>:status" row of review_publications
    dispatcher,     \* where each dispatch loop is in dispatchOne
    retrier,        \* where each call of createRetryAttempt is, its snapshot
    outOfTurn,      \* history: jobs written for an attempt not their current
    faults          \* how many faults have happened

jobVars      == <<jobStatus, currentAttempt, outOfTurn>>
attemptVars  == <<attempt, commit>>
requestVars  == <<requests, answered>>
resultVars   == <<outcomes, inbox>>
settingVars  == <<limit, prCommit>>
envVars      == <<settingVars, faults>>
vars == <<jobVars, attemptVars, requestVars, resultVars, settingVars,
          outbox, statusPub, dispatcher, retrier, faults>>

----------------------------------------------------------------------------
(* Types *)

Numbers == 1..MaxAttempts
Slots   == Jobs \X Numbers

ActiveAttempt   == {"created", "published", "running", "retry_wait"}
TerminalAttempt == {"completed", "failed", "timed_out"}
ActiveJob       == {"created", "queued", "running", "retry_wait"}
TerminalJob     == {"completed", "failed"}

OutcomeKind == {"completed", "attempt_failed", "failed"}
Outcome == [job : Jobs, number : Numbers, seq : 1..2,
            kind : OutcomeKind, redelivered : BOOLEAN]
EventId == Jobs \X Numbers \X (1..2)

IdleDispatcher == [pc |-> "idle", job |-> NoJob, number |-> 0]
BusyDispatcher == [pc : {"claimed", "confirmed", "queued"},
                   job : Jobs, number : Numbers]

IdleRetrier == [pc |-> "idle", job |-> NoJob, number |-> 0]
BusyRetrier == [pc : {"preparing"}, job : Jobs, number : Numbers,
                commit : Commits]

TypeOK ==
    /\ jobStatus \in [Jobs -> {"none"} \cup ActiveJob \cup TerminalJob]
    /\ currentAttempt \in [Jobs -> {0} \cup Numbers]
    /\ limit \in Limits
    /\ prCommit \in Commits
    /\ attempt \in [Slots -> {"none"} \cup ActiveAttempt \cup TerminalAttempt]
    /\ commit \in [Slots -> Commits]
    /\ outbox \in [Slots -> {"none", "pending", "processing", "expired", "processed"}]
    /\ requests \in [Slots -> 0..2]
    /\ answered \in [Slots -> 0..2]
    /\ outcomes \subseteq Outcome
    /\ inbox \subseteq EventId
    /\ statusPub \in [Jobs -> {"none", "pending", "published"}]
    /\ dispatcher \in [Dispatchers -> {IdleDispatcher} \cup BusyDispatcher]
    /\ retrier \in [Retriers -> {IdleRetrier} \cup BusyRetrier]
    /\ outOfTurn \subseteq Jobs
    /\ faults \in 0..MaxFaults

----------------------------------------------------------------------------
Init ==
    /\ jobStatus = [j \in Jobs |-> "none"]
    /\ currentAttempt = [j \in Jobs |-> 0]
    /\ limit \in Limits
    /\ prCommit \in Commits
    /\ attempt = [s \in Slots |-> "none"]
    /\ commit = [s \in Slots |-> prCommit]
    /\ outbox = [s \in Slots |-> "none"]
    /\ requests = [s \in Slots |-> 0]
    /\ answered = [s \in Slots |-> 0]
    /\ outcomes = {}
    /\ inbox = {}
    /\ statusPub = [j \in Jobs |-> "none"]
    /\ dispatcher = [d \in Dispatchers |-> IdleDispatcher]
    /\ retrier = [r \in Retriers |-> IdleRetrier]
    /\ outOfTurn = {}
    /\ faults = 0

Fault == faults < MaxFaults /\ faults' = faults + 1

(* The job row j is written on behalf of its attempt number n. *)
WriteJobFor(j, n, status) ==
    /\ jobStatus' = [jobStatus EXCEPT ![j] = status]
    /\ outOfTurn' = IF n = currentAttempt[j] THEN outOfTurn
                                             ELSE outOfTurn \cup {j}

(* Mutant: a status row that exists is left as it is (skipDuplicates). *)
RequestStatusOnce(j) ==
    statusPub' = [statusPub EXCEPT ![j] = IF @ = "none" THEN "pending" ELSE @]

(* The upsert of the job's status publication, back to "pending". *)
RequestStatus(j) == statusPub' = [statusPub EXCEPT ![j] = "pending"]

(* Mutant: the outbox row is left out of the transaction. *)
CreateAttemptWithoutOutbox(j, n, c) ==
    /\ commit' = [commit EXCEPT ![<<j, n>>] = c]
    /\ UNCHANGED outbox

(* What the new attempt number n carries: its request, in an outbox row. *)
CreateAttempt(j, n, c) ==
    /\ commit' = [commit EXCEPT ![<<j, n>>] = c]
    /\ outbox' = [outbox EXCEPT ![<<j, n>>] = "pending"]

----------------------------------------------------------------------------
(* ReviewsService.create: one transaction writes the pull request row, the *)
(* job, its first attempt and the outbox row.                              *)
Create(j, c) ==
    /\ jobStatus[j] = "none"
    /\ prCommit' = c
    /\ jobStatus' = [jobStatus EXCEPT ![j] = "created"]
    /\ currentAttempt' = [currentAttempt EXCEPT ![j] = 1]
    /\ attempt' = [attempt EXCEPT ![<<j, 1>>] = "created"]
    /\ CreateAttempt(j, 1, c)
    /\ UNCHANGED <<limit, faults, outOfTurn, requestVars, resultVars, statusPub,
                   dispatcher, retrier>>

(* Another job of the same pull request is created: its transaction moves  *)
(* the shared pull request row to the commit Azure DevOps reports now.     *)
SyncPullRequest(c) ==
    /\ c # prCommit
    /\ prCommit' = c
    /\ UNCHANGED <<limit, faults, jobVars, attemptVars, requestVars, resultVars,
                   outbox, statusPub, dispatcher, retrier>>

(* ReviewsService.updateSettings changes review_settings.maxAttempts. *)
UpdateSettings(m) ==
    /\ m # limit
    /\ limit' = m
    /\ UNCHANGED <<prCommit, faults, jobVars, attemptVars, requestVars, resultVars,
                   outbox, statusPub, dispatcher, retrier>>

----------------------------------------------------------------------------
(* OutboxDispatcherService.dispatchOne *)

(* Mutant: rows left by a dead dispatcher are not looked at. *)
OnlyPending == {"pending"}

(* The rows a dispatcher may take: pending, or processing past the lease. *)
Claimable == {"pending", "expired"}

(* The CAS on the outbox row. *)
Claim(d, j, n) ==
    /\ dispatcher[d] = IdleDispatcher
    /\ outbox[<<j, n>>] \in Claimable
    /\ outbox' = [outbox EXCEPT ![<<j, n>>] = "processing"]
    /\ dispatcher' = [dispatcher EXCEPT ![d] =
                        [pc |-> "claimed", job |-> j, number |-> n]]
    /\ UNCHANGED <<jobVars, attemptVars, requestVars, resultVars, envVars,
                   statusPub, retrier>>

(* A copy of request s reaches the queue; duplicates are bounded, and one  *)
(* beyond the bound is not told apart from the copy before it.             *)
Enqueue(s) ==
    requests' = [requests EXCEPT ![s] =
        IF @ = 0 THEN 1
        ELSE IF Cardinality({t \in Slots : requests[t] = 2}) < MaxDuplicates
             THEN 2 ELSE @]

(* The publisher confirm arrived and the message was routed. *)
PublishConfirmed(d) ==
    /\ dispatcher[d].pc = "claimed"
    /\ Enqueue(<<dispatcher[d].job, dispatcher[d].number>>)
    /\ dispatcher' = [dispatcher EXCEPT ![d].pc = "confirmed"]
    /\ UNCHANGED <<jobVars, attemptVars, answered, resultVars, envVars,
                   outbox, statusPub, retrier>>

(* Mutant: the catch does not return, and dispatchOne goes on. *)
PublishFailsAndGoesOn(d) ==
    /\ Fault
    /\ dispatcher[d].pc = "claimed"
    /\ dispatcher' = [dispatcher EXCEPT ![d].pc = "confirmed"]
    /\ UNCHANGED <<jobVars, attemptVars, requestVars, resultVars, settingVars,
                   outbox, statusPub, retrier>>

(* publish() rejects: not ready, returned, nacked, or the channel closed   *)
(* with the confirm outstanding, when the broker may hold the message.     *)
PublishFails(d) ==
    /\ Fault
    /\ dispatcher[d].pc = "claimed"
    /\ LET s == <<dispatcher[d].job, dispatcher[d].number>>
       IN  /\ UNCHANGED requests \/ Enqueue(s)
           /\ outbox' = [outbox EXCEPT ![s] = "pending"]
    /\ dispatcher' = [dispatcher EXCEPT ![d] = IdleDispatcher]
    /\ UNCHANGED <<jobVars, attemptVars, answered, resultVars, settingVars,
                   statusPub, retrier>>

(* First transaction after the publish: row processed, attempt published,  *)
(* job queued, whatever their states have become meanwhile.                *)
MarkQueued(d) ==
    /\ dispatcher[d].pc = "confirmed"
    /\ LET j == dispatcher[d].job
           n == dispatcher[d].number
       IN  /\ outbox' = [outbox EXCEPT ![<<j, n>>] = "processed"]
           /\ attempt' = [attempt EXCEPT ![<<j, n>>] = "published"]
           /\ WriteJobFor(j, n, "queued")
    /\ dispatcher' = [dispatcher EXCEPT ![d].pc = "queued"]
    /\ UNCHANGED <<currentAttempt, commit, requestVars, resultVars,
                   envVars, statusPub, retrier>>

(* Second transaction: attempt running, job running. *)
MarkRunning(d) ==
    /\ dispatcher[d].pc = "queued"
    /\ LET j == dispatcher[d].job
           n == dispatcher[d].number
       IN  /\ attempt' = [attempt EXCEPT ![<<j, n>>] = "running"]
           /\ WriteJobFor(j, n, "running")
    /\ dispatcher' = [dispatcher EXCEPT ![d] = IdleDispatcher]
    /\ UNCHANGED <<currentAttempt, commit, requestVars, resultVars,
                   envVars, outbox, statusPub, retrier>>

(* The process dies, or one of its transactions throws: the loop ends and  *)
(* the outbox row stays as it is.                                          *)
DispatcherStops(d) ==
    /\ Fault
    /\ dispatcher[d] # IdleDispatcher
    /\ dispatcher' = [dispatcher EXCEPT ![d] = IdleDispatcher]
    /\ UNCHANGED <<jobVars, attemptVars, requestVars, resultVars, settingVars,
                   outbox, statusPub, retrier>>

(* leaseUntil (60 s) passes, with its claimant dead or merely slow. *)
LeaseExpires(j, n) ==
    /\ outbox[<<j, n>>] = "processing"
    /\ outbox' = [outbox EXCEPT ![<<j, n>>] = "expired"]
    /\ UNCHANGED <<jobVars, attemptVars, requestVars, resultVars, envVars,
                   statusPub, dispatcher, retrier>>

----------------------------------------------------------------------------
(* The llm-worker answers one more copy of the request of attempt n, in    *)
(* whatever way, possibly after the deadline. It may also never answer.    *)
(* Kind "attempt_failed" is a retryable failure, "failed" any other one.   *)
WorkerAnswers(j, n, kind) ==
    /\ answered[<<j, n>>] < requests[<<j, n>>]
    /\ answered' = [answered EXCEPT ![<<j, n>>] = @ + 1]
    /\ outcomes' = outcomes \cup
         {[job |-> j, number |-> n, seq |-> answered[<<j, n>>] + 1,
           kind |-> kind, redelivered |-> FALSE]}
    /\ UNCHANGED <<jobVars, attemptVars, requests, inbox, envVars, outbox,
                   statusPub, dispatcher, retrier>>

----------------------------------------------------------------------------
(* RabbitConnection.handleResult and ResultProcessorService.process *)

Id(m)   == <<m.job, m.number, m.seq>>
Slot(m) == <<m.job, m.number>>

(* The message is acknowledged, or the acknowledgement is lost with the    *)
(* connection and the broker delivers it again.                            *)
Settle(m) ==
    \/ outcomes' = outcomes \ {m} /\ UNCHANGED faults
    \/ /\ Fault
       /\ outcomes' = (outcomes \ {m}) \cup {[m EXCEPT !.redelivered = TRUE]}

(* The event was processed before: nothing but the acknowledgement. *)
SkipProcessed(m) ==
    /\ Id(m) \in inbox
    /\ Settle(m)
    /\ UNCHANGED <<jobVars, attemptVars, requestVars, inbox, settingVars, outbox,
                   statusPub, dispatcher, retrier>>

(* A new event for an attempt that has ended: recorded, not applied. *)
IgnoreLate(m) ==
    /\ Id(m) \notin inbox
    /\ attempt[Slot(m)] \in TerminalAttempt
    /\ inbox' = inbox \cup {Id(m)}
    /\ Settle(m)
    /\ UNCHANGED <<jobVars, attemptVars, requestVars, settingVars, outbox,
                   statusPub, dispatcher, retrier>>

(* Mutant: the inbox is not consulted. *)
ApplicableAgain(m) == attempt[Slot(m)] \in ActiveAttempt

(* A new event for an attempt that has not ended. *)
Applicable(m) ==
    /\ Id(m) \notin inbox
    /\ attempt[Slot(m)] \in ActiveAttempt

ContextMatches(m) == commit[Slot(m)] = prCommit

(* review.completed: attempt and job completed, status publication due. *)
Complete(m) ==
    /\ Applicable(m)
    /\ m.kind = "completed"
    /\ ContextMatches(m)
    /\ attempt' = [attempt EXCEPT ![Slot(m)] = "completed"]
    /\ WriteJobFor(m.job, m.number, "completed")
    /\ RequestStatus(m.job)
    /\ inbox' = inbox \cup {Id(m)}
    /\ Settle(m)
    /\ UNCHANGED <<currentAttempt, commit, requestVars, settingVars,
                   outbox, dispatcher, retrier>>

WillRetry(m) == m.kind = "attempt_failed" /\ m.number < limit

(* review.attempt_failed below the limit: the retry is scheduled. *)
ScheduleRetry(m) ==
    /\ Applicable(m)
    /\ WillRetry(m)
    /\ attempt' = [attempt EXCEPT ![Slot(m)] = "retry_wait"]
    /\ WriteJobFor(m.job, m.number, "retry_wait")
    /\ inbox' = inbox \cup {Id(m)}
    /\ Settle(m)
    /\ UNCHANGED <<currentAttempt, commit, requestVars, settingVars,
                   outbox, statusPub, dispatcher, retrier>>

(* review.failed, or review.attempt_failed not retryable or at the limit. *)
FailFinally(m) ==
    /\ Applicable(m)
    /\ m.kind # "completed"
    /\ ~WillRetry(m)
    /\ attempt' = [attempt EXCEPT ![Slot(m)] = "failed"]
    /\ WriteJobFor(m.job, m.number, "failed")
    /\ RequestStatus(m.job)
    /\ inbox' = inbox \cup {Id(m)}
    /\ Settle(m)
    /\ UNCHANGED <<currentAttempt, commit, requestVars, settingVars,
                   outbox, dispatcher, retrier>>

(* process() throws and rolls back: a completed outcome does not match the *)
(* persisted context, or the database refused the transaction. The first   *)
(* time the message is requeued, the second time it is dead-lettered.      *)
RejectResult(m) ==
    /\ Id(m) \notin inbox
    /\ \/ /\ Applicable(m)
          /\ m.kind = "completed"
          /\ ~ContextMatches(m)
          /\ UNCHANGED faults
       \/ Fault
    /\ outcomes' = IF m.redelivered
                   THEN outcomes \ {m}
                   ELSE (outcomes \ {m}) \cup {[m EXCEPT !.redelivered = TRUE]}
    /\ UNCHANGED <<jobVars, attemptVars, requestVars, inbox, settingVars, outbox,
                   statusPub, dispatcher, retrier>>

ProcessResult(m) ==
    \/ SkipProcessed(m)
    \/ IgnoreLate(m)
    \/ Complete(m)
    \/ ScheduleRetry(m)
    \/ FailFinally(m)
    \/ RejectResult(m)

----------------------------------------------------------------------------
(* ReviewsService.createRetryAttempt *)

(* RetryScheduler found an attempt waiting, and its job waits too. *)
DueForScheduler(j) ==
    /\ jobStatus[j] = "retry_wait"
    /\ \E n \in Numbers : attempt[<<j, n>>] = "retry_wait"

(* POST /review-jobs/:id/retry refuses a job at work. *)
ManuallyRetriable(j) == jobStatus[j] \notin {"none", "created", "queued", "running"}

(* Mutant: one attempt too many. *)
UpToLimit(j) == currentAttempt[j] <= limit

BelowLimit(j) == currentAttempt[j] + 1 <= limit

(* The job is loaded, with its pull request, and the limit checked; what   *)
(* follows uses this snapshot across the calls to Azure DevOps.            *)
LoadRetryJob(r, j) ==
    /\ retrier[r] = IdleRetrier
    /\ DueForScheduler(j) \/ ManuallyRetriable(j)
    /\ BelowLimit(j)
    /\ retrier' = [retrier EXCEPT ![r] =
                     [pc |-> "preparing", job |-> j,
                      number |-> currentAttempt[j], commit |-> prCommit]]
    /\ UNCHANGED <<jobVars, attemptVars, requestVars, resultVars, envVars,
                   outbox, statusPub, dispatcher>>

(* Mutant: failRetry fails the job whatever it is doing. *)
AnyJob(j) == jobStatus[j] # "none"

Waiting(j) == jobStatus[j] = "retry_wait"

(* failRetry: credentials, context or contract failed. The waiting attempt *)
(* and the waiting job fail, and the status publication is requested.      *)
FailRetry(r) ==
    /\ retrier[r] # IdleRetrier
    /\ LET j == retrier[r].job
           n == retrier[r].number
       IN  /\ attempt' = [attempt EXCEPT ![<<j, n>>] =
                            IF @ = "retry_wait" THEN "failed" ELSE @]
           /\ IF Waiting(j)
              THEN WriteJobFor(j, n, "failed")
              ELSE UNCHANGED <<jobStatus, outOfTurn>>
           /\ RequestStatus(j)
    /\ retrier' = [retrier EXCEPT ![r] = IdleRetrier]
    /\ UNCHANGED <<currentAttempt, commit, requestVars, resultVars,
                   envVars, outbox, dispatcher>>

(* Mutants: the CAS forgets the attempt number, or the status. *)
ClaimsAnyNumber(j, n) == jobStatus[j] \in {"retry_wait", "failed", "completed"}
ClaimsAnyStatus(j, n) == currentAttempt[j] = n

(* The CAS on the job row still finds what the snapshot saw. *)
ClaimsRetry(j, n) ==
    /\ currentAttempt[j] = n
    /\ jobStatus[j] \in {"retry_wait", "failed", "completed"}

(* The transaction: CAS, the waiting attempt closed, the next one created. *)
CommitRetry(r) ==
    /\ retrier[r] # IdleRetrier
    /\ LET j == retrier[r].job
           n == retrier[r].number
       IN  /\ ClaimsRetry(j, n)
           /\ currentAttempt' = [currentAttempt EXCEPT ![j] = n + 1]
           /\ jobStatus' = [jobStatus EXCEPT ![j] = "created"]
           /\ attempt' = [attempt EXCEPT
                            ![<<j, n>>] = IF @ = "retry_wait" THEN "failed" ELSE @,
                            ![<<j, n + 1>>] = "created"]
           /\ CreateAttempt(j, n + 1, retrier[r].commit)
    /\ retrier' = [retrier EXCEPT ![r] = IdleRetrier]
    /\ UNCHANGED <<outOfTurn, requestVars, resultVars, envVars, statusPub,
                   dispatcher>>

(* The CAS matches no row (409), or the process dies while it prepares. *)
AbandonRetry(r) ==
    /\ retrier[r] # IdleRetrier
    /\ retrier' = [retrier EXCEPT ![r] = IdleRetrier]
    /\ UNCHANGED <<jobVars, attemptVars, requestVars, resultVars, envVars,
                   outbox, statusPub, dispatcher>>

----------------------------------------------------------------------------
(* ReviewAttemptReconcilerService.reconcile *)

(* Mutant: what the reconciler looked at before it covered every status. *)
PublishedOrRunning == {"published", "running"}

ReconciledStatus == ActiveAttempt

(* Mutant: the current attempt is not compared. *)
AnyAttemptTimesOut(j, n) == jobStatus[j] \in ActiveJob

JobTimesOut(j, n) == currentAttempt[j] = n /\ jobStatus[j] \in ActiveJob

(* One transaction: the overdue attempt times out; its job fails, and the  *)
(* failure is to be published, only if the attempt is the job's current.   *)
Reconcile(j, n) ==
    /\ attempt[<<j, n>>] \in ReconciledStatus
    /\ attempt' = [attempt EXCEPT ![<<j, n>>] = "timed_out"]
    /\ IF JobTimesOut(j, n)
       THEN WriteJobFor(j, n, "failed") /\ RequestStatus(j)
       ELSE UNCHANGED <<jobStatus, outOfTurn, statusPub>>
    /\ UNCHANGED <<currentAttempt, commit, requestVars, resultVars,
                   envVars, outbox, dispatcher, retrier>>

(* PublicationService takes the status row: how it does is another module. *)
PublishStatus(j) ==
    /\ statusPub[j] = "pending"
    /\ statusPub' = [statusPub EXCEPT ![j] = "published"]
    /\ UNCHANGED <<jobVars, attemptVars, requestVars, resultVars, envVars,
                   outbox, dispatcher, retrier>>

----------------------------------------------------------------------------
Dispatch(d) ==
    \/ \E s \in Slots : Claim(d, s[1], s[2])
    \/ PublishConfirmed(d)
    \/ PublishFails(d)
    \/ MarkQueued(d)
    \/ MarkRunning(d)
    \/ DispatcherStops(d)

Retry(r) ==
    \/ \E j \in Jobs : LoadRetryJob(r, j)
    \/ FailRetry(r)
    \/ CommitRetry(r)
    \/ AbandonRetry(r)

Next ==
    \/ \E j \in Jobs, c \in Commits : Create(j, c)
    \/ \E c \in Commits : SyncPullRequest(c)
    \/ \E m \in Limits : UpdateSettings(m)
    \/ \E d \in Dispatchers : Dispatch(d)
    \/ \E j \in Jobs, n \in Numbers : LeaseExpires(j, n)
    \/ \E j \in Jobs, n \in Numbers, k \in OutcomeKind : WorkerAnswers(j, n, k)
    \/ \E m \in outcomes : ProcessResult(m)
    \/ \E r \in Retriers : Retry(r)
    \/ \E j \in Jobs, n \in Numbers : Reconcile(j, n)
    \/ \E j \in Jobs : PublishStatus(j)

Spec == Init /\ [][Next]_vars

(* The crons keep firing and leases keep running out; a claimed row is     *)
(* taken through dispatchOne unless a fault interrupts it, and faults are  *)
(* finitely many. Nothing is assumed of the worker, of the results queue   *)
(* or of the retries.                                                      *)
Fairness ==
    /\ \A j \in Jobs, n \in Numbers : WF_vars(Reconcile(j, n))
    /\ \A j \in Jobs, n \in Numbers : WF_vars(LeaseExpires(j, n))
    /\ \A d \in Dispatchers :
         /\ WF_vars(\E s \in Slots : Claim(d, s[1], s[2]))
         /\ WF_vars(PublishConfirmed(d))
         /\ WF_vars(MarkQueued(d))
         /\ WF_vars(MarkRunning(d))

FairSpec == Spec /\ Fairness

----------------------------------------------------------------------------
(* Safety *)

(* Attempts are numbered from 1 to currentAttempt without a gap, each with *)
(* its outbox row, and none beyond: what the create transaction and the    *)
(* CAS in createRetryAttempt promise to every reader of the rows.          *)
AttemptsAreConsecutive ==
    \A j \in Jobs :
        /\ jobStatus[j] = "none" <=> currentAttempt[j] = 0
        /\ \A n \in Numbers :
             /\ attempt[<<j, n>>] # "none" <=> n <= currentAttempt[j]
             /\ outbox[<<j, n>>] # "none" <=> n <= currentAttempt[j]

(* An outbox row is closed only once the broker has its request, whatever  *)
(* crash, refusal or second dispatcher came between (at-least-once).       *)
NoLostRequest ==
    \A s \in Slots : outbox[s] = "processed" => requests[s] > 0

(* The status a job shows for each status of its current attempt. *)
JobStatusOf(status) ==
    CASE status = "published" -> "queued"
      [] status = "timed_out" -> "failed"
      [] OTHER                -> status

(* A job shows the status of its current attempt, through every race of    *)
(* dispatcher, results, retries and reconciler, as long as nothing wrote   *)
(* its row on behalf of another attempt. (The code can: see ActiveJobEnds.)*)
JobMirrorsCurrentAttempt ==
    \A j \in Jobs \ outOfTurn :
        jobStatus[j] # "none" =>
            jobStatus[j] = JobStatusOf(attempt[<<j, currentAttempt[j]>>])

(* Under the same condition no attempt before the current one is open: a   *)
(* job never has two reviews at work whose results could both count.       *)
OnlyCurrentAttemptOpen ==
    \A j \in Jobs \ outOfTurn : \A n \in Numbers :
        n < currentAttempt[j] => attempt[<<j, n>>] \in TerminalAttempt

(* Only a handler that has held its attempt across other transactions, a   *)
(* dispatcher past the confirm or a retry that fails, disturbs a job in    *)
(* turn, and only when a retry has made a newer attempt meanwhile. Results,*)
(* timeouts and new retries, which read and write in one transaction, never*)
(* do.                                                                     *)
OnlyHoldersDisturb ==
    [][ \A j \in Jobs :
          j \notin outOfTurn /\ j \in outOfTurn' =>
            \/ \E d \in Dispatchers :
                 /\ MarkQueued(d) \/ MarkRunning(d)
                 /\ dispatcher[d].job = j /\ dispatcher[d].number < currentAttempt[j]
            \/ \E r \in Retriers :
                 /\ FailRetry(r)
                 /\ retrier[r].job = j /\ retrier[r].number < currentAttempt[j] ]_vars

(* An outcome changes review rows at most once, although it may be         *)
(* delivered again and its attempt may have been reopened meanwhile; and   *)
(* not at all once its attempt has ended, be it by the outcome of another  *)
(* delivery of the same request.                                           *)
OutcomeAppliedOnce ==
    [][ \A m \in outcomes :
          /\ m \notin outcomes'
          /\ Id(m) \in inbox \/ attempt[Slot(m)] \in TerminalAttempt
          => UNCHANGED <<jobStatus, attempt, statusPub>> ]_vars

(* An attempt row is created once: two retries that hold the same snapshot *)
(* of the job do not both get a next attempt out of it.                    *)
AttemptCreatedOnce ==
    [][ \A s \in Slots :
          attempt[s] \notin {"none", "created"} => attempt'[s] # "created" ]_vars

(* Timing out an attempt that a retry has superseded leaves the job, its   *)
(* newer attempts and its status publication alone.                        *)
TimeoutSparesNewerAttempt ==
    [][ \A j \in Jobs, n \in Numbers :
          /\ attempt[<<j, n>>] # "timed_out"
          /\ attempt'[<<j, n>>] = "timed_out"
          /\ n < currentAttempt[j]
          => /\ jobStatus'[j] = jobStatus[j]
             /\ statusPub'[j] = statusPub[j]
             /\ attempt'[<<j, currentAttempt[j]>>]
                  = attempt[<<j, currentAttempt[j]>>] ]_vars

(* Whoever ends a job (result, reconciler, failed retry) has the outcome   *)
(* published again in the same transaction, even if an earlier end of the  *)
(* job was already published.                                              *)
EndedJobIsReported ==
    [][ \A j \in Jobs :
          jobStatus[j] \notin TerminalJob /\ jobStatus'[j] \in TerminalJob
            => statusPub'[j] = "pending" ]_vars

----------------------------------------------------------------------------
(* The abstract specification *)

Ledger == INSTANCE ReviewLedger WITH
    made     <- currentAttempt,
    sent     <- {s \in Slots : requests[s] > 0},
    closed   <- {s \in Slots : outbox[s] = "processed"},
    recorded <- inbox,
    atWork   <- {j \in Jobs : jobStatus[j] \in {"created", "queued", "running"}}

(* The rows keep the ledger: through lost confirms, leases that end, events*)
(* delivered again and retries that race, an attempt is made only for a job*)
(* not at work, one after the other; a request is closed only when it was  *)
(* sent; an event is recorded once, and only for a request that was sent.  *)
ImplementsLedger == Ledger!Spec

----------------------------------------------------------------------------
(* Liveness *)

(* Every request gets out: its outbox row is closed, even when the         *)
(* dispatcher that claimed it died.                                        *)
RequestDelivered ==
    \A s \in Slots :
        outbox[s] \in {"pending", "processing", "expired"}
            ~> outbox[s] = "processed"

(* Every job at work ends, or something wrote it out of turn. *)
UndisturbedJobEnds ==
    \A j \in Jobs :
        jobStatus[j] \in ActiveJob
            ~> jobStatus[j] \in TerminalJob \/ j \in outOfTurn

----------------------------------------------------------------------------
(* What the documents promise and the code does not keep *)

(* specs/task-011: no review stays at work for ever. A late dispatch of a  *)
(* superseded attempt puts the job back to work, and the reconciler spares *)
(* a job whose current attempt is another one.                             *)
ActiveJobEnds ==
    \A j \in Jobs : jobStatus[j] \in ActiveJob ~> jobStatus[j] \in TerminalJob

=============================================================================
