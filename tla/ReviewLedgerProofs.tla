--------------------------- MODULE ReviewLedgerProofs ---------------------------
(***************************************************************************)
(* ReviewLifecycle implements ReviewLedger, for all values of the          *)
(* constants: every step of the detailed specification is a step of the    *)
(* ledger or leaves it alone.                                              *)
(***************************************************************************)
EXTENDS ReviewLifecycleProofs

(* The ledger's variables, by their values in ReviewLifecycle. *)
Sent   == {s \in Slots : requests[s] > 0}
Closed == {s \in Slots : outbox[s] = "processed"}
AtWork == {j \in Jobs : jobStatus[j] \in {"created", "queued", "running"}}

(* What a result message stands for on top of Inv: the worker answers only *)
(* requests that it got, and the broker delivers only answers.             *)
AnswersWereAsked == \A m \in outcomes : requests[Slot(m)] > 0

LedgerInv == Inv /\ AnswersWereAsked

----------------------------------------------------------------------------
(* The invariant *)

(* What is on the queue's record stays on it. *)
LEMMA RequestsStay ==
  ASSUME TypeOK, [Next]_vars
  PROVE  \A s \in Slots : requests[s] > 0 => requests'[s] > 0
<1> USE DEF jobVars, attemptVars, requestVars, resultVars, settingVars, envVars
<1>1. ASSUME NEW d \in Dispatchers, PublishConfirmed(d) \/ PublishFails(d)
      PROVE  \A s \in Slots : requests[s] > 0 => requests'[s] > 0
  <2> DEFINE slot == <<dispatcher[d].job, dispatcher[d].number>>
  <2>1. slot \in Slots
    BY <1>1, DispatcherFacts DEF PublishConfirmed, PublishFails
  <2>2. UNCHANGED requests \/ Enqueue(slot)
    BY <1>1 DEF PublishConfirmed, PublishFails
  <2> HIDE DEF slot
  <2> QED
    BY <2>1, <2>2, EnqueueFacts
<1>2. ASSUME NEW d \in Dispatchers, Dispatch(d)
      PROVE  \A s \in Slots : requests[s] > 0 => requests'[s] > 0
  BY <1>1, <1>2 DEF Dispatch, Claim, MarkQueued, MarkRunning, DispatcherStops
<1>3. ASSUME NEW m \in outcomes, ProcessResult(m) PROVE UNCHANGED requests
  BY <1>3 DEF ProcessResult, SkipProcessed, IgnoreLate, Complete, ScheduleRetry,
              FailFinally, RejectResult
<1>4. ASSUME NEW r \in Retriers, Retry(r) PROVE UNCHANGED requests
  BY <1>4 DEF Retry, LoadRetryJob, FailRetry, CommitRetry, AbandonRetry
<1> QED
  BY <1>2, <1>3, <1>4 DEF Next, Create, SyncPullRequest, UpdateSettings, LeaseExpires,
     WorkerAnswers, Reconcile, PublishStatus, vars

(* A message on the results queue after a step was there before, perhaps   *)
(* as a first delivery, or answers a request that was sent.                *)
LEMMA NewAnswers ==
  ASSUME TypeOK, [Next]_vars, NEW m \in outcomes'
  PROVE  \/ \E o \in outcomes : Slot(o) = Slot(m)
         \/ Slot(m) \in Slots /\ requests[Slot(m)] > 0
<1> USE DEF jobVars, attemptVars, requestVars, resultVars, settingVars, envVars
<1>1. ASSUME NEW j \in Jobs, NEW n \in Numbers, NEW k \in OutcomeKind, WorkerAnswers(j, n, k)
      PROVE  (\E o \in outcomes : Slot(o) = Slot(m)) \/ (Slot(m) \in Slots /\ requests[Slot(m)] > 0)
  <2>1. <<j, n>> \in Slots /\ requests[<<j, n>>] > 0
    <3>1. <<j, n>> \in Slots
      BY SlotFacts
    <3>2. answered[<<j, n>>] \in 0..2 /\ requests[<<j, n>>] \in 0..2
      BY <3>1 DEF TypeOK
    <3>3. answered[<<j, n>>] < requests[<<j, n>>]
      BY <1>1 DEF WorkerAnswers
    <3> QED
      BY <3>1, <3>2, <3>3
  <2>2. CASE m \in outcomes
    BY <2>2
  <2>3. CASE m \notin outcomes
    <3>1. m.job = j /\ m.number = n
      BY <1>1, <2>3 DEF WorkerAnswers
    <3> QED
      BY <2>1, <3>1 DEF Slot
  <2> QED
    BY <2>2, <2>3
<1>2. ASSUME NEW o \in outcomes, ProcessResult(o)
      PROVE  \E p \in outcomes : Slot(p) = Slot(m)
  <2> DEFINE again == [o EXCEPT !.redelivered = TRUE]
  <2>1. outcomes' \subseteq outcomes \cup {again}
    BY <1>2 DEF ProcessResult, SkipProcessed, IgnoreLate, Complete, ScheduleRetry,
                FailFinally, RejectResult, Settle
  <2>2. again.job = o.job /\ again.number = o.number
    BY DEF TypeOK, Outcome
  <2>3. Slot(again) = Slot(o)
    BY <2>2 DEF Slot
  <2> HIDE DEF again
  <2> QED
    BY <2>1, <2>3
<1>3. ASSUME NEW d \in Dispatchers, Dispatch(d) PROVE UNCHANGED outcomes
  BY <1>3 DEF Dispatch, Claim, PublishConfirmed, PublishFails, MarkQueued, MarkRunning,
              DispatcherStops
<1>4. ASSUME NEW r \in Retriers, Retry(r) PROVE UNCHANGED outcomes
  BY <1>4 DEF Retry, LoadRetryJob, FailRetry, CommitRetry, AbandonRetry
<1> QED
  BY <1>1, <1>2, <1>3, <1>4 DEF Next, Create, SyncPullRequest, UpdateSettings,
     LeaseExpires, Reconcile, PublishStatus, vars

(* LedgerInv is inductive. *)
LEMMA LedgerInvHolds == Spec => []LedgerInv
<1>1. Init => LedgerInv
  BY InvInit DEF LedgerInv, AnswersWereAsked, Init
<1>2. LedgerInv /\ [Next]_vars => LedgerInv'
  <2> SUFFICES ASSUME LedgerInv, [Next]_vars PROVE LedgerInv'
    OBVIOUS
  <2>1. TypeOK
    BY DEF LedgerInv, Inv
  <2>2. Inv'
    BY InvNext DEF LedgerInv
  <2>3. ASSUME NEW m \in outcomes' PROVE requests'[Slot(m)] > 0
    <3>1. CASE \E o \in outcomes : Slot(o) = Slot(m)
      <4>1. PICK o \in outcomes : Slot(o) = Slot(m)
        BY <3>1
      <4>2. requests[Slot(m)] > 0 /\ Slot(m) \in Slots
        BY <2>1, <4>1, MessageFacts DEF LedgerInv, AnswersWereAsked
      <4> QED
        BY <2>1, <4>2, RequestsStay
    <3>2. CASE Slot(m) \in Slots /\ requests[Slot(m)] > 0
      BY <2>1, <3>2, RequestsStay
    <3> QED
      BY <2>1, <2>3, <3>1, <3>2, NewAnswers
  <2>4. AnswersWereAsked'
    BY <2>3 DEF AnswersWereAsked, Slot
  <2> QED
    BY <2>2, <2>4 DEF LedgerInv
<1> QED
  BY <1>1, <1>2, PTL DEF Spec

----------------------------------------------------------------------------
(* The ledger's steps, in terms of the values of its variables. *)

LedgerStep == [Ledger!Next]_(Ledger!vars)

(* The ledger's slots and events are those of ReviewLifecycle. *)
LEMMA LedgerSets == Ledger!Slots = Slots /\ Ledger!Events = EventId
  BY DEF Ledger!Slots, Ledger!Events, Slots, EventId, Numbers

(* Steps that leave the ledger's variables alone. *)
LEMMA LedgerStutters ==
  ASSUME UNCHANGED <<currentAttempt, inbox>>, Sent' = Sent, Closed' = Closed, AtWork' = AtWork
  PROVE  LedgerStep
  BY DEF LedgerStep, Ledger!vars, Sent, Closed, AtWork

(* A next attempt for a job that is not at work. *)
LEMMA LedgerMakes ==
  ASSUME NEW j \in Jobs, j \notin AtWork, currentAttempt[j] < MaxAttempts,
         currentAttempt' = [currentAttempt EXCEPT ![j] = @ + 1],
         AtWork' = AtWork \cup {j},
         UNCHANGED inbox, Sent' = Sent, Closed' = Closed
  PROVE  LedgerStep
<1>1. Ledger!Make(j)
  BY DEF Ledger!Make, Sent, Closed, AtWork
<1> QED
  BY <1>1 DEF LedgerStep, Ledger!Next

(* What a sender may do with a request: send it, close it, open it again   *)
(* or take its job up.                                                     *)
LEMMA LedgerSends ==
  ASSUME NEW s \in Slots, UNCHANGED <<currentAttempt, inbox>>,
         \/ /\ s[2] <= currentAttempt[s[1]]
            /\ Sent' = Sent \cup {s} /\ Closed' = Closed /\ AtWork' = AtWork
         \/ /\ s \in Sent
            /\ Sent' = Sent /\ Closed' = Closed \cup {s} /\ AtWork' = AtWork \cup {s[1]}
         \/ Sent' = Sent /\ Closed' = Closed \ {s} /\ AtWork' = AtWork
         \/ /\ s \in Sent
            /\ Sent' = Sent /\ Closed' = Closed /\ AtWork' = AtWork \cup {s[1]}
  PROVE  LedgerStep
<1>1. Ledger!Send(s) \/ Ledger!Close(s) \/ Ledger!Reopen(s) \/ Ledger!TakeUp(s)
  BY DEF Ledger!Send, Ledger!Close, Ledger!Reopen, Ledger!TakeUp, Sent, Closed, AtWork
<1> QED
  BY <1>1, LedgerSets DEF LedgerStep, Ledger!Next

(* A new event of a request that was sent. *)
LEMMA LedgerRecords ==
  ASSUME NEW e \in EventId, e \notin inbox, inbox' = inbox \cup {e},
         <<e[1], e[2]>> \in Sent,
         AtWork' \in {AtWork, AtWork \ {e[1]}},
         UNCHANGED currentAttempt, Sent' = Sent, Closed' = Closed
  PROVE  LedgerStep
<1>1. Ledger!Record(e)
  BY DEF Ledger!Record, Sent, Closed, AtWork
<1> QED
  BY <1>1, LedgerSets DEF LedgerStep, Ledger!Next

(* A job given up. *)
LEMMA LedgerGivesUp ==
  ASSUME NEW j \in Jobs, AtWork' = AtWork \ {j},
         UNCHANGED <<currentAttempt, inbox>>, Sent' = Sent, Closed' = Closed
  PROVE  LedgerStep
<1>1. Ledger!GiveUp(j)
  BY DEF Ledger!GiveUp, Sent, Closed, AtWork
<1> QED
  BY <1>1 DEF LedgerStep, Ledger!Next

----------------------------------------------------------------------------
(* The steps of ReviewLifecycle *)

(* The transactions that create an attempt: create and createRetryAttempt. *)
LEMMA CreationMakes ==
  ASSUME LedgerInv, NEW j \in Jobs,
         \/ \E c \in Commits : Create(j, c)
         \/ \E r \in Retriers : retrier[r].job = j /\ CommitRetry(r)
  PROVE  LedgerStep
<1> USE DEF requestVars, resultVars, envVars, settingVars
<1>1. TypeOK /\ AttemptsAreConsecutive /\ Custody
  BY DEF LedgerInv, Inv
<1> DEFINE n == currentAttempt[j]
<1>2. /\ jobStatus[j] \notin {"created", "queued", "running"}
      /\ n + 1 \in Numbers
      /\ currentAttempt' = [currentAttempt EXCEPT ![j] = n + 1]
      /\ jobStatus' = [jobStatus EXCEPT ![j] = "created"]
      /\ outbox' = [outbox EXCEPT ![<<j, n + 1>>] = "pending"]
      /\ UNCHANGED <<requests, inbox>>
  <2>1. ASSUME NEW c \in Commits, Create(j, c) PROVE <1>2!:
    <3>1. n = 0
      BY <1>1, <2>1 DEF Create, AttemptsAreConsecutive
    <3> QED
      BY <2>1, <3>1, SlotFacts DEF Create, CreateAttempt
  <2>2. ASSUME NEW r \in Retriers, retrier[r].job = j, CommitRetry(r) PROVE <1>2!:
    <3>1. retrier[r].number = n /\ retrier[r].number \in Numbers /\ retrier[r].number < MaxAttempts
      BY <1>1, <2>2, RetrierFacts DEF CommitRetry, ClaimsRetry, Custody
    <3>2. n + 1 \in Numbers
      BY <3>1, ConstantsAssumption DEF Numbers
    <3> QED
      BY <2>2, <3>1, <3>2 DEF CommitRetry, ClaimsRetry, CreateAttempt
  <2> QED
    BY <2>1, <2>2
<1>3. n \in Nat /\ <<j, n + 1>> \in Slots /\ n < MaxAttempts
  BY <1>1, <1>2, SlotFacts, ConstantsAssumption DEF TypeOK, Numbers
<1>4. outbox[<<j, n + 1>>] = "none"
  BY <1>1, <1>2, <1>3 DEF AttemptsAreConsecutive
<1> HIDE DEF n
<1>5. Sent' = Sent
  BY <1>2 DEF Sent
<1>6. Closed' = Closed
  BY <1>1, <1>2, <1>3, <1>4 DEF Closed, TypeOK
<1>7. j \notin AtWork /\ AtWork' = AtWork \cup {j}
  BY <1>1, <1>2 DEF AtWork, TypeOK
<1> QED
  BY <1>2, <1>3, <1>5, <1>6, <1>7, LedgerMakes DEF n

(* dispatchOne, which sends, closes and, when a publish fails, opens again.*)
LEMMA DispatchSends ==
  ASSUME LedgerInv, NEW d \in Dispatchers, Dispatch(d)
  PROVE  LedgerStep
<1> USE DEF jobVars, attemptVars, requestVars, resultVars, settingVars, envVars
<1>1. Inv /\ TypeOK /\ NoLostRequest
  BY DEF LedgerInv, Inv
<1> DEFINE s == <<dispatcher[d].job, dispatcher[d].number>>
<1>2. dispatcher[d].pc # "idle" =>
         /\ s \in Slots /\ s[1] = dispatcher[d].job /\ s[1] \in Jobs
         /\ s[2] <= currentAttempt[s[1]]
         /\ dispatcher[d].pc # "claimed" => s \in Sent
  BY <1>1, DispatcherSlot DEF Sent
<1>3. UNCHANGED <<currentAttempt, inbox>>
  BY DEF Dispatch, Claim, PublishConfirmed, PublishFails, MarkQueued, MarkRunning,
         DispatcherStops
<1>4. s \in Slots /\ Enqueue(s) => Sent' = Sent \cup {s}
  BY <1>1, EnqueueFacts DEF Sent, TypeOK
<1>5. ASSUME NEW t \in Slots, Claim(d, t[1], t[2]) PROVE LedgerStep
  <2>1. outbox[t] # "processed" /\ outbox' = [outbox EXCEPT ![t] = "processing"]
    BY <1>5, SlotFacts DEF Claim, Claimable
  <2>2. Closed' = Closed
    BY <1>1, <2>1 DEF Closed, TypeOK
  <2>3. Sent' = Sent /\ AtWork' = AtWork
    BY <1>5 DEF Claim, Sent, AtWork
  <2> QED
    BY <1>3, <2>2, <2>3, LedgerStutters
<1>6. CASE PublishConfirmed(d)
  <2>1. dispatcher[d].pc # "idle" /\ Enqueue(s)
    BY <1>6 DEF PublishConfirmed
  <2>2. Closed' = Closed /\ AtWork' = AtWork
    BY <1>6 DEF PublishConfirmed, Closed, AtWork
  <2> QED
    BY <1>2, <1>3, <1>4, <2>1, <2>2, LedgerSends
<1>7. CASE PublishFails(d)
  <2>1. /\ dispatcher[d].pc # "idle"
        /\ UNCHANGED requests \/ Enqueue(s)
        /\ outbox' = [outbox EXCEPT ![s] = "pending"]
        /\ UNCHANGED jobStatus
    BY <1>7 DEF PublishFails
  <2>2. AtWork' = AtWork /\ Closed' = Closed \ {s}
    BY <1>1, <1>2, <2>1 DEF AtWork, Closed, TypeOK
  <2>3. Sent' = Sent \/ Sent' = Sent \cup {s}
    BY <1>2, <1>4, <2>1 DEF Sent
  <2>4. CASE s \in Closed
    <3>1. s \in Sent
      BY <1>1, <2>4 DEF NoLostRequest, Sent, Closed
    <3>2. Sent' = Sent
      BY <2>3, <3>1
    <3> QED
      BY <1>2, <1>3, <2>1, <2>2, <3>2, LedgerSends
  <2>5. CASE s \notin Closed
    <3>1. Closed' = Closed
      BY <2>2, <2>5
    <3> QED
      BY <1>2, <1>3, <2>1, <2>2, <2>3, <3>1, LedgerSends, LedgerStutters
  <2> QED
    BY <2>4, <2>5
<1>8. CASE MarkQueued(d)
  <2>1. /\ dispatcher[d].pc = "confirmed"
        /\ outbox' = [outbox EXCEPT ![s] = "processed"]
        /\ jobStatus' = [jobStatus EXCEPT ![s[1]] = "queued"]
        /\ UNCHANGED requests
    BY <1>8 DEF MarkQueued, WriteJobFor
  <2>2. s \in Sent /\ Sent' = Sent
    BY <1>2, <2>1 DEF Sent
  <2>3. Closed' = Closed \cup {s}
    BY <1>1, <1>2, <2>1 DEF Closed, TypeOK
  <2>4. AtWork' = AtWork \cup {s[1]}
    BY <1>1, <1>2, <2>1 DEF AtWork, TypeOK
  <2> QED
    BY <1>2, <1>3, <2>1, <2>2, <2>3, <2>4, LedgerSends
<1>9. CASE MarkRunning(d)
  <2>1. /\ dispatcher[d].pc = "queued"
        /\ jobStatus' = [jobStatus EXCEPT ![s[1]] = "running"]
        /\ UNCHANGED <<outbox, requests>>
    BY <1>9 DEF MarkRunning, WriteJobFor
  <2>2. s \in Sent /\ Sent' = Sent /\ Closed' = Closed
    BY <1>2, <2>1 DEF Sent, Closed
  <2>3. AtWork' = AtWork \cup {s[1]}
    BY <1>1, <1>2, <2>1 DEF AtWork, TypeOK
  <2> QED
    BY <1>2, <1>3, <2>1, <2>2, <2>3, LedgerSends
<1>10. CASE DispatcherStops(d)
  BY <1>3, <1>10, LedgerStutters DEF DispatcherStops, Sent, Closed, AtWork
<1> QED
  BY <1>5, <1>6, <1>7, <1>8, <1>9, <1>10 DEF Dispatch

(* The result transaction records a new event of a request that was sent;  *)
(* a message that was processed or is refused changes nothing.             *)
LEMMA ResultRecords ==
  ASSUME LedgerInv, NEW m \in outcomes, ProcessResult(m)
  PROVE  LedgerStep
<1> USE DEF jobVars, attemptVars, requestVars, resultVars, settingVars, envVars
<1>1. TypeOK
  BY DEF LedgerInv, Inv
<1>2. /\ m.job \in Jobs /\ Id(m) \in EventId /\ Id(m)[1] = m.job
      /\ <<Id(m)[1], Id(m)[2]>> = Slot(m) /\ Slot(m) \in Sent
  BY <1>1, MessageFacts DEF LedgerInv, AnswersWereAsked, Id, Slot, Sent
<1>3. UNCHANGED <<currentAttempt, outbox, requests>>
  BY DEF ProcessResult, SkipProcessed, IgnoreLate, Complete, ScheduleRetry,
         FailFinally, RejectResult
<1>4. Sent' = Sent /\ Closed' = Closed
  BY <1>3 DEF Sent, Closed
<1>5. CASE UNCHANGED <<inbox, jobStatus>>
  BY <1>3, <1>4, <1>5, LedgerStutters DEF AtWork
<1>6. ASSUME Id(m) \notin inbox, inbox' = inbox \cup {Id(m)},
             \/ UNCHANGED jobStatus
             \/ \E status \in {"completed", "retry_wait", "failed"} :
                  jobStatus' = [jobStatus EXCEPT ![m.job] = status]
      PROVE  LedgerStep
  <2>1. AtWork' \in {AtWork, AtWork \ {m.job}}
    BY <1>1, <1>2, <1>6 DEF AtWork, TypeOK
  <2> QED
    BY <1>2, <1>3, <1>4, <1>6, <2>1, LedgerRecords
<1>7. CASE SkipProcessed(m) \/ RejectResult(m)
  BY <1>5, <1>7 DEF SkipProcessed, RejectResult
<1>8. CASE IgnoreLate(m)
  BY <1>6, <1>8 DEF IgnoreLate
<1>9. CASE Complete(m) \/ ScheduleRetry(m) \/ FailFinally(m)
  BY <1>6, <1>9 DEF Complete, ScheduleRetry, FailFinally, Applicable, WriteJobFor
<1> QED
  BY <1>7, <1>8, <1>9 DEF ProcessResult

(* A retry that is loaded, dropped or failed makes no attempt, and the job *)
(* it fails is not at work.                                                *)
LEMMA OtherRetrySteps ==
  ASSUME LedgerInv, NEW r \in Retriers,
         (\E j \in Jobs : LoadRetryJob(r, j)) \/ FailRetry(r) \/ AbandonRetry(r)
  PROVE  LedgerStep
<1> USE DEF jobVars, attemptVars, requestVars, resultVars, settingVars, envVars
<1>1. TypeOK
  BY DEF LedgerInv, Inv
<1>2. UNCHANGED <<currentAttempt, inbox, outbox, requests>>
  BY DEF LoadRetryJob, FailRetry, AbandonRetry
<1>3. Sent' = Sent /\ Closed' = Closed
  BY <1>2 DEF Sent, Closed
<1>4. AtWork' = AtWork
  <2>1. CASE UNCHANGED jobStatus
    BY <2>1 DEF AtWork
  <2>2. CASE FailRetry(r)
    <3>1. retrier[r].job \in Jobs
      BY <1>1, <2>2, RetrierFacts DEF FailRetry
    <3>2. CASE Waiting(retrier[r].job)
      BY <1>1, <2>2, <3>1, <3>2 DEF FailRetry, WriteJobFor, Waiting, AtWork, TypeOK
    <3>3. CASE ~Waiting(retrier[r].job)
      BY <2>1, <2>2, <3>3 DEF FailRetry
    <3> QED
      BY <3>2, <3>3
  <2> QED
    BY <2>1, <2>2 DEF LoadRetryJob, AbandonRetry
<1> QED
  BY <1>2, <1>3, <1>4, LedgerStutters

(* The reconciler gives up the job of the attempt it ends, or nothing.     *)
LEMMA ReconcileGivesUp ==
  ASSUME LedgerInv, NEW j \in Jobs, NEW n \in Numbers, Reconcile(j, n)
  PROVE  LedgerStep
<1>1. TypeOK
  BY DEF LedgerInv, Inv
<1>2. UNCHANGED <<currentAttempt, inbox, outbox, requests>>
  BY DEF Reconcile, requestVars, resultVars
<1>3. Sent' = Sent /\ Closed' = Closed
  BY <1>2 DEF Sent, Closed
<1>4. CASE jobStatus' = [jobStatus EXCEPT ![j] = "failed"]
  <2>1. AtWork' = AtWork \ {j}
    BY <1>1, <1>4 DEF AtWork, TypeOK
  <2> QED
    BY <1>2, <1>3, <2>1, LedgerGivesUp
<1>5. CASE UNCHANGED jobStatus
  BY <1>2, <1>3, <1>5, LedgerStutters DEF AtWork
<1> QED
  BY <1>4, <1>5 DEF Reconcile, WriteJobFor

(* What moves neither attempts nor requests, events or jobs.               *)
LEMMA OtherSteps ==
  ASSUME LedgerInv,
         \/ \E c \in Commits : SyncPullRequest(c)
         \/ \E l \in Limits : UpdateSettings(l)
         \/ \E j \in Jobs, n \in Numbers : LeaseExpires(j, n)
         \/ \E j \in Jobs, n \in Numbers, k \in OutcomeKind : WorkerAnswers(j, n, k)
         \/ \E j \in Jobs : PublishStatus(j)
         \/ UNCHANGED vars
  PROVE  LedgerStep
<1> USE DEF jobVars, attemptVars, requestVars, resultVars, settingVars, envVars
<1>1. TypeOK
  BY DEF LedgerInv, Inv
<1>2. UNCHANGED <<currentAttempt, inbox, requests, jobStatus>>
  BY DEF SyncPullRequest, UpdateSettings, LeaseExpires, WorkerAnswers, PublishStatus, vars
<1>3. Closed' = Closed
  <2>1. ASSUME NEW j \in Jobs, NEW n \in Numbers, LeaseExpires(j, n) PROVE Closed' = Closed
    BY <1>1, <2>1, SlotFacts DEF LeaseExpires, Closed, TypeOK
  <2>2. CASE UNCHANGED outbox
    BY <2>2 DEF Closed
  <2> QED
    BY <2>1, <2>2 DEF SyncPullRequest, UpdateSettings, WorkerAnswers, PublishStatus, vars
<1> QED
  BY <1>2, <1>3, LedgerStutters DEF Sent, AtWork

----------------------------------------------------------------------------
(* The rows of the review lifecycle keep the ledger: an attempt is made    *)
(* only for a job not at work, one after the other; a request is closed    *)
(* only when it was sent; an event is recorded once, and only for a        *)
(* request that was sent. It is about dispatchOne, process,                *)
(* createRetryAttempt, failRetry, create and reconcile together.           *)
THEOREM LifecycleImplementsLedger == Spec => ImplementsLedger
<1>1. Init => Ledger!Init
  BY ConstantsAssumption DEF Init, Ledger!Init, Slots, Numbers
<1>2. LedgerInv /\ [Next]_vars => LedgerStep
  <2> SUFFICES ASSUME LedgerInv, [Next]_vars PROVE LedgerStep
    OBVIOUS
  <2>1. TypeOK
    BY DEF LedgerInv, Inv
  <2>2. ASSUME NEW r \in Retriers, Retry(r) PROVE LedgerStep
    <3>1. CASE CommitRetry(r)
      BY <2>1, <3>1, RetrierFacts, CreationMakes DEF CommitRetry
    <3> QED
      BY <2>2, <3>1, OtherRetrySteps DEF Retry
  <2> QED
    BY <2>2, CreationMakes, DispatchSends, ResultRecords, ReconcileGivesUp, OtherSteps
       DEF Next
<1>3. LedgerInv /\ [Next]_vars => [Ledger!Next]_(Ledger!vars)
  BY <1>2 DEF LedgerStep
<1> QED
  BY <1>1, <1>3, LedgerInvHolds, PTL DEF Spec, ImplementsLedger, Ledger!Spec

=============================================================================
