-------------------------------- MODULE Webhooks --------------------------------
(***************************************************************************)
(* WebhooksService.azureDevOps for one repository and one pull request:    *)
(* Azure DevOps sends an event until it is answered, several deliveries of *)
(* it may be at work in different processes, and webhook_events holds a    *)
(* lease on it. An event may post to Discord and create a review job, by   *)
(* ReviewsService.create, which POST /review-jobs calls too.               *)
(*                                                                         *)
(* One step is one call to Azure DevOps or to Discord, with what the       *)
(* handler reads from the database before the next, or one transaction or  *)
(* update. The commits of the pull request are numbered as they are        *)
(* pushed, 0 being the target's own. Correlation ids of different events   *)
(* are different.                                                          *)
(***************************************************************************)
EXTENDS FiniteSets, Naturals

CONSTANTS
    MaxEvents,  \* bound: events Azure DevOps emits
    Handlers,   \* bound: requests being answered at a time
    Switchable, \* bound: what of the repository's configuration varies
    MaxPushes,  \* bound: commits pushed to the source branch
    MaxManual,  \* bound: what people do, changes of it and calls of POST /review-jobs
    MaxFaults,  \* bound: failed calls, crashes, lost answers
    NoCommit    \* a row, a job or a reviewable commit that is not there

(* settings.autoReview, the target branch in settings.targetBranches,      *)
(* repository.status active; a PAT that Azure DevOps accepts; a codex      *)
(* login; a request that is valid: the model is an allowed one, and the    *)
(* pull request within the contract; a Discord webhook configured, and one *)
(* that Discord accepts.                                                   *)
Switches == {"autoReview", "targetBranch", "active", "pat", "codexLogin", "valid",
             "discord", "discordAccepts"}

ASSUME WebhooksAssumption ==
    /\ MaxEvents \in Nat
    /\ Switchable \subseteq Switches
    /\ MaxPushes \in Nat
    /\ MaxManual \in Nat
    /\ MaxFaults \in Nat
    /\ NoCommit \notin Nat

VARIABLES
    head,      \* the commit Azure DevOps reports for the pull request
    on,        \* which Switches of the repository are on
    about,     \* commit the event reports, NoCommit if it asks for no review
    due,       \* events Azure DevOps has not had answered, and sends
    event,     \* webhook_events row by its processingAt and processedAt
    row,       \* pull_requests.sourceCommit, NoCommit without a row
    job,       \* commit of the review job with the event's correlation id
    reviewed,  \* commits a review job was created for
    posted,    \* events posted to Discord
    handler,   \* where each request is, and what it has read
    deferred,  \* history: events at work, answered "processing" meanwhile
    overrun,   \* history: events whose lease ended with a handler at work
    skipped,   \* history: events a handler ignored for its settings
    crossed,   \* history: a job was created by a handler whose row had moved
    manual, faults \* how many have happened

azureVars   == <<head, about>>
reviewVars  == <<row, job, reviewed, crossed>>
historyVars == <<deferred, overrun, skipped>>
vars == <<azureVars, on, due, event, reviewVars, posted, handler, historyVars,
          manual, faults>>

----------------------------------------------------------------------------
ReviewSettings == {"autoReview", "targetBranch"}

Events  == 1..MaxEvents
NoEvent == 0 \* what an idle handler, or POST /review-jobs, works on

Commits == 0..MaxPushes
Maybe   == Commits \cup {NoCommit}

Idle == [pc |-> "idle", event |-> NoEvent, on |-> {}, seen |-> NoCommit,
         commit |-> NoCommit]

Busy == [pc : {"claimed", "published", "preparing", "creating", "created"},
         event : Events \cup {NoEvent}, on : SUBSET ReviewSettings,
         seen : Maybe, commit : Maybe]

TypeOK ==
    /\ head \in Commits
    /\ on \subseteq Switches
    /\ about \in [Events -> Maybe]
    /\ due \subseteq Events
    /\ event \in [Events -> {"none", "waiting", "claimed", "expired", "processed"}]
    /\ row \in Maybe
    /\ job \in [Events -> Maybe]
    /\ reviewed \subseteq Commits
    /\ posted \subseteq Events
    /\ handler \in [Handlers -> {Idle} \cup Busy]
    /\ deferred \cup overrun \cup skipped \subseteq Events
    /\ crossed \in BOOLEAN
    /\ manual \in 0..MaxManual
    /\ faults \in 0..MaxFaults

(* The repository has a webhook secret, and settings that have its pull    *)
(* requests reviewed. What else it has may vary.                           *)
Init ==
    /\ head = 0
    /\ on \in {S \in SUBSET Switches : (Switches \ Switchable) \cup ReviewSettings \subseteq S}
    /\ about = [e \in Events |-> NoCommit]
    /\ due = {}
    /\ event = [e \in Events |-> "none"]
    /\ row = NoCommit
    /\ job = [e \in Events |-> NoCommit]
    /\ reviewed = {}
    /\ posted = {}
    /\ handler = [h \in Handlers |-> Idle]
    /\ deferred = {}
    /\ overrun = {}
    /\ skipped = {}
    /\ crossed = FALSE
    /\ manual = 0
    /\ faults = 0

Fault == faults < MaxFaults /\ faults' = faults + 1

Manual == manual < MaxManual /\ manual' = manual + 1

----------------------------------------------------------------------------
(* Azure DevOps, and the people who configure the repository *)

(* An event about the pull request: one with a new commit (a push, or the  *)
(* creation), one that keeps the commit, or one of another type. Events    *)
(* are numbered as they are emitted.                                       *)
Emit(e) ==
    /\ \A f \in Events : f < e <=> event[f] # "none" \/ f \in due
    /\ due' = due \cup {e}
    /\ \/ head < MaxPushes /\ head' = head + 1 /\ about' = [about EXCEPT ![e] = head']
       \/ about' \in {[about EXCEPT ![e] = head], about} /\ UNCHANGED head
    /\ UNCHANGED <<on, event, reviewVars, posted, handler, historyVars, manual, faults>>

(* updateSettings, repositories.update, the model policy, the PAT, which   *)
(* Azure DevOps may refuse from now on, the codex login and the Discord    *)
(* integration; nothing removes the latter two.                            *)
Switch(s) ==
    /\ Manual
    /\ s \in {"codexLogin", "discord"} => s \notin on
    /\ on' = (on \ {s}) \cup ({s} \ on)
    /\ UNCHANGED <<azureVars, due, event, reviewVars, posted, handler, historyVars, faults>>

----------------------------------------------------------------------------
(* WebhooksService.azureDevOps *)

TakenAnyway    == {"waiting", "claimed", "expired"}

(* The rows the CAS may claim: not processed, and no lease running. *)
Claimable == {"waiting", "expired"}

(* The event is answered 202; the answer may be lost. *)
Answer(e) ==
    \/ due' = due \ {e} /\ UNCHANGED faults
    \/ Fault /\ UNCHANGED due

(* A delivery: the repository is read with its settings, the event's row   *)
(* found or created, and its lease taken. Azure DevOps may have given up   *)
(* on an earlier delivery that is still at work.                           *)
Receive(h, e) ==
    /\ handler[h] = Idle
    /\ e \in due
    /\ event[e] \in Claimable \cup {"none"}
    /\ event' = [event EXCEPT ![e] = "claimed"]
    /\ handler' = [handler EXCEPT ![h] = [Idle EXCEPT !.pc = "claimed", !.event = e,
                                                     !.on = on \cap ReviewSettings]]
    /\ UNCHANGED <<azureVars, on, due, reviewVars, posted, historyVars, manual, faults>>

(* The event was processed, or another delivery holds its lease: a 202. *)
AnswerDuplicate(e) ==
    /\ e \in due
    /\ event[e] \notin Claimable \cup {"none"}
    /\ Answer(e)
    /\ deferred' = IF event[e] = "claimed" THEN deferred \cup {e} ELSE deferred
    /\ UNCHANGED <<azureVars, on, event, reviewVars, posted, handler, overrun, skipped,
                   manual>>

(* By what the handler read first, the event asks for a review. *)
ShouldReview(h) ==
    /\ about[handler[h].event] # NoCommit
    /\ ReviewSettings \subseteq handler[h].on

DiscordRefuses == "discord" \in on /\ "discordAccepts" \notin on

(* publishAzureDevOpsEvent posts, if a webhook is configured by now; then  *)
(* hasCodeChanges, if it is called, reads the pull request row.            *)
PublishDiscord(h) ==
    /\ handler[h].pc = "claimed"
    /\ ~DiscordRefuses
    /\ posted' = IF "discord" \in on THEN posted \cup {handler[h].event} ELSE posted
    /\ handler' = [handler EXCEPT ![h].pc = "published",
                                  ![h].seen = IF ShouldReview(h) THEN row ELSE NoCommit]
    /\ UNCHANGED <<azureVars, on, due, event, reviewVars, historyVars, manual, faults>>

(* The row becomes processed, whoever holds its lease by now. *)
Process(h) ==
    /\ event' = [event EXCEPT ![handler[h].event] = "processed"]
    /\ deferred' = deferred \ {handler[h].event}
    /\ Answer(handler[h].event)
    /\ handler' = [handler EXCEPT ![h] = Idle]

Ignore(h) ==
    /\ handler[h].pc = "published"
    /\ ~ShouldReview(h)
    /\ Process(h)
    /\ skipped' = skipped \cup {handler[h].event}
    /\ UNCHANGED <<azureVars, on, reviewVars, posted, overrun, manual>>

(* Mutants: only a new pull request counts, or only its diff does. *)
NewPullRequest(h)    == handler[h].seen = NoCommit /\ head # 0
DiffersFromTarget(h) == head # 0

(* hasCodeChanges: Azure DevOps reports another commit than the row or,    *)
(* for a new pull request, than the target's.                              *)
HasCodeChanges(h) ==
    IF handler[h].seen = NoCommit THEN head # 0 ELSE head # handler[h].seen

(* hasCodeChanges asks Azure DevOps, with the PAT of the repository.       *)
ComparesCommits(h) == handler[h].pc = "published" /\ ShouldReview(h)

(* Nothing to review, or findByCorrelationId finds the job of an earlier   *)
(* delivery.                                                               *)
NothingToDo(h) ==
    /\ ComparesCommits(h)
    /\ "pat" \in on
    /\ HasCodeChanges(h) => job[handler[h].event] # NoCommit
    /\ Process(h)
    /\ UNCHANGED <<azureVars, on, reviewVars, posted, overrun, skipped, manual>>

NeedsJob(h) ==
    /\ ComparesCommits(h)
    /\ HasCodeChanges(h)
    /\ job[handler[h].event] = NoCommit

(* Without these create refuses, whoever calls it and however often.       *)
Required == {"active", "pat", "codexLogin", "valid"}

(* The event needs a job: create reads the repository, its settings and    *)
(* its credentials.                                                        *)
BeginCreate(h) ==
    /\ NeedsJob(h)
    /\ Required \subseteq on
    /\ handler' = [handler EXCEPT ![h].pc = "preparing", ![h].on = on \cap {"targetBranch"}]
    /\ UNCHANGED <<azureVars, on, due, event, reviewVars, posted, historyVars, manual, faults>>

(* POST /review-jobs goes straight to create (and does not look at row:    *)
(* seen is for the history only).                                          *)
CreateManually(h) ==
    /\ Manual
    /\ handler[h] = Idle
    /\ Required \subseteq on
    /\ handler' = [handler EXCEPT ![h] = [Idle EXCEPT !.pc = "preparing", !.seen = row,
                                                     !.on = on \cap {"targetBranch"}]]
    /\ UNCHANGED <<azureVars, on, due, event, reviewVars, posted, historyVars, faults>>

(* create fetches the pull request, and checks its target branch. *)
FetchPullRequest(h) ==
    /\ handler[h].pc = "preparing"
    /\ "targetBranch" \in handler[h].on
    /\ "pat" \in on
    /\ handler' = [handler EXCEPT ![h].pc = "creating", ![h].commit = head]
    /\ UNCHANGED <<azureVars, on, due, event, reviewVars, posted, historyVars, manual, faults>>

(* Mutant: the job is for the commit of the row. *)
CommitSeen(h) == handler[h].seen

CommitFetched(h) == handler[h].commit

(* The transaction of create: the pull request row is moved to the commit  *)
(* fetched, and the job created; its correlation id is unique.             *)
CreateJob(h) ==
    /\ handler[h].pc = "creating"
    /\ LET e == handler[h].event
           c == CommitFetched(h)
       IN  /\ row' = c
           /\ reviewed' = reviewed \cup {c}
           /\ crossed' = (crossed \/ row # handler[h].seen)
           /\ \/ /\ e = NoEvent
                 /\ UNCHANGED job
                 /\ handler' = [handler EXCEPT ![h] = Idle]
              \/ /\ e # NoEvent /\ job[e] = NoCommit
                 /\ job' = [job EXCEPT ![e] = c]
                 /\ handler' = [handler EXCEPT ![h] =
                                  [Idle EXCEPT !.pc = "created", !.event = e]]
    /\ UNCHANGED <<azureVars, on, due, event, posted, historyVars, manual, faults>>

(* The event row gets its job, and is processed. *)
LinkJob(h) ==
    /\ handler[h].pc = "created"
    /\ Process(h)
    /\ UNCHANGED <<azureVars, on, reviewVars, posted, overrun, skipped, manual>>

(* What fails without a fault, and again in the next delivery: a webhook   *)
(* that Discord refuses; in hasCodeChanges, a PAT that is missing or that  *)
(* Azure DevOps refuses; what create requires. Besides, create refuses a   *)
(* target branch that is not enabled, and a correlation id that another    *)
(* delivery has used; the next delivery meets neither.                     *)
Refused(h) ==
    \/ handler[h].pc = "claimed" /\ DiscordRefuses
    \/ ComparesCommits(h) /\ "pat" \notin on
    \/ NeedsJob(h) /\ ~(Required \subseteq on)
    \/ handler[h].pc = "preparing"
         /\ ("targetBranch" \notin handler[h].on \/ "pat" \notin on)
    \/ handler[h].pc = "creating" /\ handler[h].event # NoEvent
         /\ job[handler[h].event] # NoCommit

(* The catch ends the lease on the row, even if it is another's by now,    *)
(* and the answer is an error. A Discord call that failed may have posted. *)
Fail(h) ==
    /\ event' = IF handler[h].event = NoEvent \/ event[handler[h].event] = "processed"
                THEN event ELSE [event EXCEPT ![handler[h].event] = "waiting"]
    /\ posted' \in {posted} \cup
         IF handler[h].pc = "claimed" /\ "discord" \in on
         THEN {posted \cup {handler[h].event}} ELSE {}
    /\ handler' = [handler EXCEPT ![h] = Idle]
    /\ UNCHANGED <<azureVars, on, due, reviewVars, historyVars, manual>>

(* create refuses, or a call or a statement fails. *)
Fails(h) ==
    /\ handler[h] # Idle
    /\ \/ Refused(h) /\ UNCHANGED faults
       \/ ~Refused(h) /\ Fault
    /\ Fail(h)

(* The process dies, or cannot even end the lease. *)
Crash(h) ==
    /\ Fault
    /\ handler[h] # Idle
    /\ handler' = [handler EXCEPT ![h] = Idle]
    /\ UNCHANGED <<azureVars, on, due, event, reviewVars, posted, historyVars, manual>>

WorkingOn(e) == {h \in Handlers : handler[h].event = e}

(* Two minutes after the claim. *)
LeaseExpires(e) ==
    /\ event[e] = "claimed"
    /\ event' = [event EXCEPT ![e] = "expired"]
    /\ overrun' = IF WorkingOn(e) # {} THEN overrun \cup {e} ELSE overrun
    /\ UNCHANGED <<azureVars, on, due, reviewVars, posted, handler, deferred, skipped,
                   manual, faults>>

----------------------------------------------------------------------------
(* What a delivery does once it has been received. *)
Work(h) ==
    \/ PublishDiscord(h)
    \/ Ignore(h)
    \/ NothingToDo(h)
    \/ BeginCreate(h)
    \/ FetchPullRequest(h)
    \/ CreateJob(h)
    \/ LinkJob(h)
    \/ Fails(h)

Next ==
    \/ \E e \in Events : Emit(e)
    \/ \E s \in Switchable : Switch(s)
    \/ \E h \in Handlers, e \in Events : Receive(h, e)
    \/ \E h \in Handlers : CreateManually(h) \/ Work(h) \/ Crash(h)
    \/ \E e \in Events : AnswerDuplicate(e) \/ LeaseExpires(e)

Spec == Init /\ [][Next]_vars

(* Azure DevOps sends an unanswered event again: strongly fair, because it *)
(* is this model that has few handlers, and not the API. Requests go on    *)
(* and leases end.                                                         *)
Fairness ==
    /\ \A e \in Events : SF_vars(\E h \in Handlers : Receive(h, e))
    /\ \A e \in Events : WF_vars(AnswerDuplicate(e))
    /\ \A h \in Handlers : WF_vars(Work(h))
    /\ \A e \in Events : WF_vars(LeaseExpires(e))

FairSpec == Spec /\ Fairness

----------------------------------------------------------------------------
(* Once an event that reports a commit with a diff is processed, that      *)
(* commit or a later one has a review job: neither the comparison with a   *)
(* row that others move, nor a failure and a takeover, loses a push. Only  *)
(* the settings a handler read can make it ignore one.                     *)
NoPushMissed ==
    \A e \in Events \ skipped :
        event[e] = "processed" /\ about[e] \notin {NoCommit, 0}
            => \E c \in reviewed : c >= about[e]

(* Deliveries of one event do not work on it side by side, unless its      *)
(* lease ended under one that was still at work.                           *)
OneAtWork ==
    \A e \in Events \ overrun : Cardinality(WorkingOn(e)) <= 1

(* Reviews follow new commits: an event never creates a job for a commit   *)
(* that has one, whatever it repeats, unless a job was created meanwhile   *)
(* between some handler's reading of the pull request row and its writing. *)
OneReviewPerCommit ==
    [][ \A e \in Events :
          job'[e] # job[e] => job'[e] \notin reviewed \/ crossed' ]_vars

(* Nothing about the repository refuses its events. *)
Ready == Required \subseteq on /\ ~DiscordRefuses


----------------------------------------------------------------------------
(* What the documents promise and the code does not keep *)

(* specs/task-010: every event is published when Discord is configured,    *)
(* and Azure DevOps repeats those that were not. A delivery that meets a   *)
(* running lease is answered 202, and nobody repeats the event when the    *)
(* holder of the lease dies or fails.                                      *)
EveryEventPosted ==
    \A e \in Events : event[e] # "none" /\ "discord" \in on ~> e \in posted

=============================================================================
