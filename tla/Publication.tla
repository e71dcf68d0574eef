----------------------------- MODULE Publication -----------------------------
(***************************************************************************)
(* PublicationService: the review_publications rows of one job, published  *)
(* to its pull request in Azure DevOps by a cron in every API process.     *)
(*                                                                         *)
(* One step is one database statement, one HTTP request to Azure DevOps or *)
(* one of the transactions of other services that write the rows.  The     *)
(* lease of 60 s may run out at any moment while a row is "publishing".    *)
(* findMany's page of 10 rows holds every row of the model, and its        *)
(* snapshot (attempts, job status) is read at once.                        *)
(***************************************************************************)
EXTENDS Naturals, FiniteSets

CONSTANTS
    Publishers,  \* API processes running the publication cron
    StatusRow,   \* the "<job>:status" row
    FindingRows, \* the "<job>:finding:<id>" rows
    MaxTries,    \* attempts after which a row is left alone (5 in the code)
    MaxAsks,     \* bound: times the job's status is asked to be published
    MaxCrashes,  \* bound: API processes that die
    NoRow        \* the row of a publisher between two rows

Rows == {StatusRow} \cup FindingRows

ASSUME PublicationAssumption ==
    /\ MaxTries \in Nat \ {0}
    /\ MaxAsks \in Nat
    /\ MaxCrashes \in Nat
    /\ StatusRow \notin FindingRows
    /\ NoRow \notin Rows

VARIABLES
    job,       \* review_jobs.status: at work, or ended in one of two ways
    asks,      \* how often its status was asked to be published
    row,       \* review_publications.status, "expired" past the lease
    tries,     \* review_publications.attempts
    threads,   \* comment threads with the row's marker on the pull request
    shown,     \* the state of the "octob/review" status on the pull request
    publisher, \* where each process is in publishPending
    outpaced,  \* history: rows claimed on a stale snapshot or while at work
    crashes    \* how many processes have died

azure    == <<threads, shown>>
jobState == <<job, asks>>
vars     == <<jobState, row, tries, azure, publisher, outpaced, crashes>>

Ended == {"completed", "failed"}
Idle  == [step |-> "next", row |-> NoRow, batch |-> {},
          saw |-> [r \in Rows |-> 0], job |-> "working"]

TypeOK ==
    /\ job \in {"working"} \cup Ended
    /\ asks \in 0..MaxAsks
    /\ row \in [Rows -> {"none", "pending", "publishing", "expired",
                         "completed", "failed"}]
    /\ tries \in [Rows -> 0..MaxTries]
    /\ threads \in [Rows -> Nat]
    /\ shown \in {"none", "succeeded", "failed"}
    /\ publisher \in [Publishers ->
         [step : {"next", "claimed", "status", "posting", "saving"},
          row : Rows \cup {NoRow}, batch : SUBSET Rows,
          saw : [Rows -> 0..MaxTries], job : {"working"} \cup Ended]]
    /\ outpaced \subseteq Rows
    /\ crashes \in 0..MaxCrashes

Init ==
    /\ job = "working"
    /\ asks = 0
    /\ row = [r \in Rows |-> "none"]
    /\ tries = [r \in Rows |-> 0]
    /\ threads = [r \in Rows |-> 0]
    /\ shown = "none"
    /\ publisher = [p \in Publishers |-> Idle]
    /\ outpaced = {}
    /\ crashes = 0

----------------------------------------------------------------------------
(* The transactions that ask for publications *)

(* The job ends, completed with findings or failed, and its status is due: *)
(* the upsert sets the row to "pending" and leaves its attempts as is.     *)
EndJob(outcome, findings) ==
    /\ job = "working"
    /\ asks < MaxAsks
    /\ outcome = "failed" => findings = {}
    /\ job' = outcome
    /\ asks' = asks + 1
    /\ row' = [r \in Rows |-> IF r \in {StatusRow} \cup findings
                              THEN "pending" ELSE row[r]]
    /\ UNCHANGED <<tries, azure, publisher, outpaced, crashes>>

NewFindings == {f \in FindingRows : row[f] = "none"}

(* A manual retry puts an ended job back to work. *)
RetryJob ==
    /\ job \in Ended
    /\ job' = "working"
    /\ UNCHANGED <<asks, row, tries, azure, publisher, outpaced, crashes>>

(* failRetry asks for the status whatever its guarded updates found: the   *)
(* job is at work again when the retry lost against another one, and may   *)
(* have ended before when it was a manual one. (A job it ends is EndJob.)  *)
ReportRetryFailure ==
    /\ asks < MaxAsks
    /\ asks' = asks + 1
    /\ row' = [row EXCEPT ![StatusRow] = "pending"]
    /\ UNCHANGED <<job, tries, azure, publisher, outpaced, crashes>>

----------------------------------------------------------------------------
(* publishPending *)

(* Mutants: an abandoned row is not recovered; the limit is not checked    *)
(* again in the CAS.                                                       *)
DueUnlessAbandoned(r) == row[r] = "pending" /\ tries[r] < MaxTries
DueForEver(r) == row[r] \in {"pending", "expired"}

(* The WHERE clause of findMany, and of the CAS. *)
Due(r) == row[r] \in {"pending", "expired"} /\ tries[r] < MaxTries

FindMany(p) ==
    /\ publisher[p] = Idle
    /\ \E r \in Rows : Due(r)
    /\ publisher' = [publisher EXCEPT ![p] =
         [Idle EXCEPT !.batch = {r \in Rows : Due(r)}, !.saw = tries, !.job = job]]
    /\ UNCHANGED <<jobState, row, tries, azure, outpaced, crashes>>

(* What is left of the loop once the row at hand is done with. *)
Rest(loop) ==
    IF loop.batch = {} THEN Idle ELSE [loop EXCEPT !.step = "next", !.row = NoRow]

AtWorkOn(r) == {p \in Publishers : publisher[p].row = r}

(* Mutant: the attempts are not incremented. *)
CountNothing(r) == UNCHANGED tries

CountAttempt(r) == tries' = [tries EXCEPT ![r] = @ + 1]

(* The CAS takes the row, counting an attempt. *)
Claim(p, r) ==
    /\ publisher[p].step = "next"
    /\ r \in publisher[p].batch
    /\ Due(r)
    /\ row' = [row EXCEPT ![r] = "publishing"]
    /\ CountAttempt(r)
    /\ publisher' = [publisher EXCEPT ![p] =
         [publisher[p] EXCEPT !.step = "claimed", !.row = r, !.batch = @ \ {r}]]
    /\ outpaced' = IF publisher[p].saw[r] # tries[r] \/ AtWorkOn(r) # {}
                   THEN outpaced \cup {r} ELSE outpaced
    /\ UNCHANGED <<jobState, azure, crashes>>

(* The CAS matches nothing: another process has the row, or had it. *)
Skip(p, r) ==
    /\ publisher[p].step = "next"
    /\ r \in publisher[p].batch
    /\ ~Due(r)
    /\ publisher' = [publisher EXCEPT ![p] =
         Rest([publisher[p] EXCEPT !.batch = @ \ {r}])]
    /\ UNCHANGED <<jobState, row, tries, azure, outpaced, crashes>>

----------------------------------------------------------------------------
(* publishOne, after the claim; p's snapshot is older than the claim *)

(* Mutant: the first retry does not look for what the first try left. *)
PublishedBefore(p, r) == publisher[p].saw[r] > 1 /\ threads[r] > 0

(* findPublication: on a retry, a thread with the row's marker is found. *)
AlreadyPublished(p, r) == publisher[p].saw[r] > 0 /\ threads[r] > 0

Look(p) ==
    LET r == publisher[p].row IN
    /\ publisher[p].step = "claimed"
    /\ publisher' = [publisher EXCEPT ![p].step =
         IF AlreadyPublished(p, r) THEN "saving"
         ELSE IF r = StatusRow THEN "status" ELSE "posting"]
    /\ UNCHANGED <<jobState, row, tries, azure, outpaced, crashes>>

(* Mutant: any ended job counts as succeeded. *)
StateOfEnded(status) == IF status \in Ended THEN "succeeded" ELSE "failed"

(* Everything but a completed job is shown as failed. *)
StateOf(status) == IF status = "completed" THEN "succeeded" ELSE "failed"

(* Azure DevOps handles the POST p has in hand: status first, then thread. *)
Post(p) ==
    LET loop == publisher[p] IN
    \/ /\ loop.step = "status"
       /\ shown' = StateOf(loop.job)
       /\ UNCHANGED threads
    \/ /\ loop.step = "posting"
       /\ threads' = [threads EXCEPT ![loop.row] = @ + 1]
       /\ UNCHANGED shown

(* The POST is answered. *)
Posted(p) ==
    /\ Post(p)
    /\ publisher' = [publisher EXCEPT ![p].step =
                       IF @ = "status" THEN "posting" ELSE "saving"]
    /\ UNCHANGED <<jobState, row, tries, outpaced, crashes>>

(* The row becomes completed, whatever happened to it meanwhile. *)
Save(p) ==
    /\ publisher[p].step = "saving"
    /\ row' = [row EXCEPT ![publisher[p].row] = "completed"]
    /\ publisher' = [publisher EXCEPT ![p] = Rest(@)]
    /\ UNCHANGED <<jobState, tries, azure, outpaced, crashes>>

(* Mutant: the failure is taken for a success. *)
CompletedAnyway(p, r) == "completed"

(* Pending again, or failed for good, counting from the snapshot. *)
AfterFailure(p, r) ==
    IF publisher[p].saw[r] + 1 >= MaxTries THEN "failed" ELSE "pending"

(* The catch: the credential, a request (handled by Azure DevOps or not)   *)
(* or the last update failed.                                              *)
PublishFails(p) ==
    LET r == publisher[p].row IN
    /\ publisher[p].step # "next"
    /\ Post(p) \/ UNCHANGED azure
    /\ row' = [row EXCEPT ![r] = AfterFailure(p, r)]
    /\ publisher' = [publisher EXCEPT ![p] = Rest(@)]
    /\ UNCHANGED <<jobState, tries, outpaced, crashes>>

(* The process dies, or an update outside the try throws: the loop ends,   *)
(* the row stays "publishing" and a POST in hand may still be handled.     *)
Crash(p) ==
    /\ publisher[p] # Idle
    /\ crashes < MaxCrashes
    /\ crashes' = crashes + 1
    /\ Post(p) \/ UNCHANGED azure
    /\ publisher' = [publisher EXCEPT ![p] = Idle]
    /\ UNCHANGED <<jobState, row, tries, outpaced>>

(* The lease passes, with the claimant dead or slow. *)
LeaseExpires(r) ==
    /\ row[r] = "publishing"
    /\ row' = [row EXCEPT ![r] = "expired"]
    /\ UNCHANGED <<jobState, tries, azure, publisher, outpaced, crashes>>

----------------------------------------------------------------------------
Publish(p) ==
    \/ FindMany(p)
    \/ \E r \in Rows : Claim(p, r) \/ Skip(p, r)
    \/ Look(p)
    \/ Posted(p)
    \/ Save(p)

Next ==
    \/ \E o \in Ended, f \in SUBSET NewFindings : EndJob(o, f)
    \/ RetryJob
    \/ ReportRetryFailure
    \/ \E p \in Publishers : Publish(p) \/ PublishFails(p) \/ Crash(p)
    \/ \E r \in Rows : LeaseExpires(r)

Spec == Init /\ [][Next]_vars

(* The cron fires every 5 s in a process that runs, publishPending goes    *)
(* through its batch, and leases run out. Crashes are finitely many;       *)
(* nothing is assumed of Azure DevOps, which may fail every request.       *)
Fairness ==
    /\ \A p \in Publishers : WF_vars(Publish(p))
    /\ \A r \in Rows : WF_vars(LeaseExpires(r))

FairSpec == Spec /\ Fairness

----------------------------------------------------------------------------
(* Properties *)

(* A row is marked completed only when its thread is on the pull request,  *)
(* and for the status row only when a status was posted before it: the     *)
(* marker found on a retry stands for both requests.                       *)
CompletedWasPublished ==
    /\ \A r \in Rows : row[r] = "completed" => threads[r] > 0
    /\ row[StatusRow] = "completed" => shown # "none"

(* Whoever crashes, fails or takes over, a row never leaves more threads   *)
(* than the attempts counted for it, the claims still at work included.    *)
ThreadsWithinTries ==
    \A r \in Rows :
        threads[r] + Cardinality({p \in AtWorkOn(r) :
                                    publisher[p].step \in {"claimed", "status", "posting"}})
            <= tries[r]

(* Crashes, lost answers and retries do not publish a row twice: its       *)
(* marker is looked for on every attempt but the first. The exceptions are *)
(* a claim on a snapshot that is stale, and one that overtakes a claimant  *)
(* still at work.                                                          *)
NoDuplicateThread ==
    \A r \in Rows \ outpaced : threads[r] <= 1

(* A state asked for once is shown as it is: the snapshot a publisher      *)
(* works from is never older than the request it serves.                   *)
OnlyRequestShown ==
    asks = 1 /\ job \in Ended /\ row[StatusRow] = "completed"
        => (shown = "succeeded" <=> job = "completed")

(* Every publication asked for is carried out, given up or out of attempts:*)
(* rows abandoned by a dead process are recovered.                         *)
PublicationSettles ==
    \A r \in Rows :
        row[r] \in {"pending", "publishing", "expired"}
            ~> row[r] \in Ended \/ tries[r] = MaxTries

----------------------------------------------------------------------------
(* What the documents promise and the code does not keep *)

(* specs/task-011: the terminal state is published by the existing flow.   *)
(* So, once a completed job has been published, is retried and fails, its  *)
(* status row is not completed again with success still on the pull        *)
(* request.  But the thread of the earlier end is found, nothing is posted,*)
(* and the earlier state stays.                                            *)
Published(end) == job = end /\ row[StatusRow] = "completed"

FinalStateShown ==
    [](Published("completed") => [](Published("failed") => shown = "failed"))

=============================================================================
