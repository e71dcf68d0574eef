------------------------- MODULE ReviewLifecycleProofs -------------------------
(***************************************************************************)
(* Proofs about ReviewLifecycle for all values of its constants.           *)
(***************************************************************************)
EXTENDS ReviewLifecycle, TLAPS

(* What the actors hold between two steps: a dispatcher has an attempt that*)
(* exists, and past the confirm its request is with the broker; a retry    *)
(* has a snapshot no newer than the job, with room for one more attempt;   *)
(* a request on the queue is of an attempt that exists.                    *)
Custody ==
    /\ \A d \in Dispatchers : dispatcher[d] # IdleDispatcher =>
         /\ dispatcher[d].number <= currentAttempt[dispatcher[d].job]
         /\ dispatcher[d].pc # "claimed" =>
              requests[<<dispatcher[d].job, dispatcher[d].number>>] > 0
    /\ \A r \in Retriers : retrier[r] # IdleRetrier =>
         /\ retrier[r].number <= currentAttempt[retrier[r].job]
         /\ retrier[r].number < MaxAttempts
    /\ \A s \in Slots : requests[s] > 0 => attempt[s] # "none"

(* The rows alone are not inductive: a retry commits "number + 1" from its *)
(* snapshot, and a dispatcher closes the row it was given, so the          *)
(* invariant carries what the actors hold as well.                         *)
Inv == TypeOK /\ AttemptsAreConsecutive /\ NoLostRequest /\ Custody

(* The initial states satisfy the invariant. *)
LEMMA InvInit == Init => Inv
<1> SUFFICES ASSUME Init PROVE Inv
  OBVIOUS
<1>1. TypeOK
  BY ConstantsAssumption DEF Init, TypeOK, Numbers
<1>2. AttemptsAreConsecutive
  BY ConstantsAssumption DEF Init, AttemptsAreConsecutive, Numbers, Slots
<1>3. NoLostRequest /\ Custody
  BY DEF Init, NoLostRequest, Custody
<1> QED
  BY <1>1, <1>2, <1>3 DEF Inv

(* Facts about one attempt slot and one result message, used throughout. *)
LEMMA SlotFacts ==
  /\ \A j \in Jobs, n \in Numbers : <<j, n>> \in Slots
  /\ \A s \in Slots : s[1] \in Jobs /\ s[2] \in Numbers /\ s = <<s[1], s[2]>>
  /\ 1 \in Numbers /\ Numbers \subseteq Nat
  BY ConstantsAssumption DEF Slots, Numbers

(* The parts of a result message: its slot and its event id. *)
LEMMA MessageFacts ==
  ASSUME TypeOK, NEW m \in outcomes
  PROVE  /\ m.job \in Jobs /\ m.number \in Numbers
         /\ Slot(m) = <<m.job, m.number>> /\ Slot(m) \in Slots
         /\ Id(m) \in EventId
         /\ [m EXCEPT !.redelivered = TRUE] \in Outcome
  BY DEF TypeOK, Outcome, Slot, Id, EventId, Slots

(* What a busy dispatcher and a busy retry hold. *)
LEMMA DispatcherFacts ==
  ASSUME TypeOK, NEW d \in Dispatchers, dispatcher[d].pc # "idle"
  PROVE  /\ dispatcher[d] \in BusyDispatcher
         /\ dispatcher[d].job \in Jobs
         /\ dispatcher[d].number \in Numbers
         /\ <<dispatcher[d].job, dispatcher[d].number>> \in Slots
<1>1. dispatcher[d] \in BusyDispatcher
  BY DEF TypeOK, IdleDispatcher
<1> QED
  BY <1>1 DEF BusyDispatcher, Slots

(* The snapshot of a busy retry names a slot. *)
LEMMA RetrierFacts ==
  ASSUME TypeOK, NEW r \in Retriers, retrier[r] # IdleRetrier
  PROVE  /\ retrier[r] \in BusyRetrier
         /\ retrier[r].job \in Jobs
         /\ retrier[r].number \in Numbers
         /\ retrier[r].commit \in Commits
         /\ <<retrier[r].job, retrier[r].number>> \in Slots
<1>1. retrier[r] \in BusyRetrier
  BY DEF TypeOK
<1> QED
  BY <1>1 DEF BusyRetrier, Slots

(* A request that reaches the queue is on it; the others stay as they are. *)
LEMMA EnqueueFacts ==
  ASSUME TypeOK, NEW s \in Slots, Enqueue(s)
  PROVE  /\ requests' \in [Slots -> 0..2]
         /\ requests'[s] > 0
         /\ \A t \in Slots : requests[t] > 0 => requests'[t] > 0
         /\ \A t \in Slots \ {s} : requests'[t] = requests[t]
<1> DEFINE room == Cardinality({t \in Slots : requests[t] = 2}) < MaxDuplicates
           v    == IF requests[s] = 0 THEN 1 ELSE IF room THEN 2 ELSE requests[s]
<1>1. requests' = [requests EXCEPT ![s] = v]
  BY DEF Enqueue
<1> HIDE DEF room
<1>2. v \in {1, 2}
  BY DEF TypeOK
<1> HIDE DEF v
<1> QED
  BY <1>1, <1>2 DEF TypeOK

----------------------------------------------------------------------------
(* Every step keeps the types. The two that need more than the types are   *)
(* the load of a retry (the job has an attempt) and its commit (the limit  *)
(* held when the snapshot was taken).                                      *)
LEMMA TypeNext == Inv /\ [Next]_vars => TypeOK'
<1> SUFFICES ASSUME Inv, [Next]_vars PROVE TypeOK'
  OBVIOUS
<1> TypeOK
  BY DEF Inv
<1> USE SlotFacts, ConstantsAssumption
<1>1. ASSUME NEW j \in Jobs, NEW c \in Commits, Create(j, c) PROVE TypeOK'
  BY <1>1 DEF Create, CreateAttempt, TypeOK, ActiveJob, ActiveAttempt, requestVars, resultVars
<1>2. ASSUME NEW c \in Commits, SyncPullRequest(c) PROVE TypeOK'
  BY <1>2 DEF SyncPullRequest, TypeOK, jobVars, attemptVars, requestVars, resultVars
<1>3. ASSUME NEW m \in Limits, UpdateSettings(m) PROVE TypeOK'
  BY <1>3 DEF UpdateSettings, TypeOK, jobVars, attemptVars, requestVars, resultVars
<1>4. ASSUME NEW d \in Dispatchers, Dispatch(d) PROVE TypeOK'
  <2> USE DEF TypeOK, jobVars, attemptVars, requestVars, resultVars, settingVars, envVars, Fault
  <2>1. ASSUME NEW s \in Slots, Claim(d, s[1], s[2]) PROVE TypeOK'
    BY <2>1 DEF Claim, BusyDispatcher
  <2>2. CASE PublishConfirmed(d)
    <3>1. dispatcher[d] \in BusyDispatcher /\ <<dispatcher[d].job, dispatcher[d].number>> \in Slots
      BY <2>2, DispatcherFacts DEF PublishConfirmed
    <3>2. [dispatcher[d] EXCEPT !.pc = "confirmed"] \in BusyDispatcher
      BY <3>1 DEF BusyDispatcher
    <3>3. dispatcher' \in [Dispatchers -> {IdleDispatcher} \cup BusyDispatcher]
      BY <2>2, <3>2 DEF PublishConfirmed
    <3>4. requests' \in [Slots -> 0..2]
      BY <2>2, <3>1, EnqueueFacts DEF PublishConfirmed
    <3> QED
      BY <2>2, <3>3, <3>4 DEF PublishConfirmed
  <2>3. CASE PublishFails(d)
    <3>1. <<dispatcher[d].job, dispatcher[d].number>> \in Slots
      BY <2>3, DispatcherFacts DEF PublishFails
    <3>2. requests' \in [Slots -> 0..2]
      BY <2>3, <3>1, EnqueueFacts DEF PublishFails
    <3>3. faults' \in 0..MaxFaults
      BY <2>3 DEF PublishFails
    <3>4. /\ outbox' \in [Slots -> {"none", "pending", "processing", "expired", "processed"}]
          /\ dispatcher' \in [Dispatchers -> {IdleDispatcher} \cup BusyDispatcher]
      BY <2>3 DEF PublishFails
    <3> QED
      BY <2>3, <3>2, <3>3, <3>4 DEF PublishFails
  <2>4. CASE MarkQueued(d)
    <3>1. dispatcher[d] \in BusyDispatcher /\ dispatcher[d].job \in Jobs
      BY <2>4, DispatcherFacts DEF MarkQueued
    <3>2. [dispatcher[d] EXCEPT !.pc = "queued"] \in BusyDispatcher
      BY <3>1 DEF BusyDispatcher
    <3>3. dispatcher' \in [Dispatchers -> {IdleDispatcher} \cup BusyDispatcher]
      BY <2>4, <3>2 DEF MarkQueued
    <3> QED
      BY <2>4, <3>1, <3>3 DEF MarkQueued, WriteJobFor, ActiveJob, ActiveAttempt
  <2>5. CASE MarkRunning(d)
    <3>1. dispatcher[d].job \in Jobs
      BY <2>5, DispatcherFacts DEF MarkRunning
    <3> QED
      BY <2>5, <3>1 DEF MarkRunning, WriteJobFor, ActiveJob, ActiveAttempt
  <2>6. CASE DispatcherStops(d)
    BY <2>6 DEF DispatcherStops
  <2> QED
    BY <1>4, <2>1, <2>2, <2>3, <2>4, <2>5, <2>6 DEF Dispatch
<1>5. ASSUME NEW j \in Jobs, NEW n \in Numbers, LeaseExpires(j, n) PROVE TypeOK'
  BY <1>5 DEF LeaseExpires, TypeOK, jobVars, attemptVars, requestVars, resultVars, settingVars, envVars
<1>6. ASSUME NEW j \in Jobs, NEW n \in Numbers, NEW k \in OutcomeKind, WorkerAnswers(j, n, k)
      PROVE  TypeOK'
  <2>1. answered[<<j, n>>] + 1 \in 1..2
    BY <1>6 DEF WorkerAnswers, TypeOK
  <2> DEFINE new == [job |-> j, number |-> n, seq |-> answered[<<j, n>>] + 1,
                     kind |-> k, redelivered |-> FALSE]
  <2>2. new \in Outcome
    BY <2>1 DEF Outcome
  <2>3. outcomes' = outcomes \cup {new}
    BY <1>6 DEF WorkerAnswers
  <2> HIDE DEF new
  <2>4. outcomes' \subseteq Outcome
    BY <2>2, <2>3 DEF TypeOK
  <2>5. answered' \in [Slots -> 0..2]
    BY <1>6, <2>1 DEF WorkerAnswers, TypeOK
  <2> QED
    BY <1>6, <2>4, <2>5 DEF WorkerAnswers, TypeOK, jobVars, attemptVars, settingVars, envVars
<1>7. ASSUME NEW m \in outcomes, ProcessResult(m) PROVE TypeOK'
  <2> USE DEF TypeOK, jobVars, attemptVars, requestVars, resultVars, settingVars, envVars, Fault
  <2> DEFINE m2 == [m EXCEPT !.redelivered = TRUE]
  <2>m. /\ m.job \in Jobs /\ Slot(m) \in Slots /\ Id(m) \in EventId
        /\ m2 \in Outcome
    BY MessageFacts
  <2> HIDE DEF m2
  <2>1. ASSUME Settle(m) PROVE outcomes' \subseteq Outcome /\ faults' \in 0..MaxFaults
    <3>1. CASE outcomes' = outcomes \ {m} /\ UNCHANGED faults
      BY <3>1
    <3>2. CASE outcomes' = (outcomes \ {m}) \cup {m2} /\ Fault
      BY <3>2, <2>m
    <3> QED
      BY <2>1, <3>1, <3>2 DEF Settle, m2
  <2>2. CASE SkipProcessed(m)
    BY <2>2, <2>1, <2>m DEF SkipProcessed
  <2>3. CASE IgnoreLate(m)
    BY <2>3, <2>1, <2>m DEF IgnoreLate
  <2>4. CASE Complete(m)
    BY <2>4, <2>1, <2>m DEF Complete, WriteJobFor, RequestStatus, TerminalJob, TerminalAttempt
  <2>5. CASE ScheduleRetry(m)
    BY <2>5, <2>1, <2>m DEF ScheduleRetry, WriteJobFor, ActiveJob, ActiveAttempt
  <2>6. CASE FailFinally(m)
    BY <2>6, <2>1, <2>m DEF FailFinally, WriteJobFor, RequestStatus, TerminalJob, TerminalAttempt
  <2>7. CASE RejectResult(m)
    <3>1. outcomes' \subseteq Outcome
      BY <2>7, <2>m DEF RejectResult, m2
    <3> QED
      BY <2>7, <3>1 DEF RejectResult
  <2> QED
    BY <1>7, <2>2, <2>3, <2>4, <2>5, <2>6, <2>7 DEF ProcessResult
<1>8. ASSUME NEW r \in Retriers, Retry(r) PROVE TypeOK'
  <2> USE DEF TypeOK, jobVars, attemptVars, requestVars, resultVars, settingVars, envVars
  <2>1. ASSUME NEW j \in Jobs, LoadRetryJob(r, j) PROVE TypeOK'
    <3>1. jobStatus[j] # "none"
      BY <2>1 DEF LoadRetryJob, DueForScheduler, ManuallyRetriable
    <3>2. currentAttempt[j] \in Numbers
      BY <3>1 DEF Inv, AttemptsAreConsecutive
    <3>3. retrier' \in [Retriers -> {IdleRetrier} \cup BusyRetrier]
      BY <2>1, <3>2 DEF LoadRetryJob, BusyRetrier
    <3> QED
      BY <2>1, <3>3 DEF LoadRetryJob
  <2>2. CASE FailRetry(r)
    <3>1. retrier[r].job \in Jobs
      BY <2>2, RetrierFacts DEF FailRetry
    <3>2. jobStatus' \in [Jobs -> {"none"} \cup ActiveJob \cup TerminalJob] /\ outOfTurn' \subseteq Jobs
      BY <2>2, <3>1 DEF FailRetry, WriteJobFor, TerminalJob
    <3>3. attempt' \in [Slots -> {"none"} \cup ActiveAttempt \cup TerminalAttempt]
      BY <2>2 DEF FailRetry, TerminalAttempt
    <3>4. statusPub' \in [Jobs -> {"none", "pending", "published"}]
      BY <2>2 DEF FailRetry, RequestStatus
    <3>5. retrier' \in [Retriers -> {IdleRetrier} \cup BusyRetrier]
      BY <2>2 DEF FailRetry
    <3> QED
      BY <2>2, <3>2, <3>3, <3>4, <3>5 DEF FailRetry
  <2>3. CASE CommitRetry(r)
    <3>1. /\ retrier[r].job \in Jobs /\ retrier[r].commit \in Commits
          /\ retrier[r].number \in Numbers
      BY <2>3, RetrierFacts DEF CommitRetry
    <3>2. retrier[r].number + 1 \in Numbers
      BY <2>3, <3>1 DEF CommitRetry, Inv, Custody, Numbers
    <3> QED
      BY <2>3, <3>1, <3>2 DEF CommitRetry, CreateAttempt, TerminalAttempt, ActiveAttempt, ActiveJob
  <2>4. CASE AbandonRetry(r)
    BY <2>4 DEF AbandonRetry
  <2> QED
    BY <1>8, <2>1, <2>2, <2>3, <2>4 DEF Retry
<1>9. ASSUME NEW j \in Jobs, NEW n \in Numbers, Reconcile(j, n) PROVE TypeOK'
  <2>1. /\ jobStatus' \in [Jobs -> {"none"} \cup ActiveJob \cup TerminalJob]
        /\ outOfTurn' \subseteq Jobs
        /\ statusPub' \in [Jobs -> {"none", "pending", "published"}]
    BY <1>9 DEF Reconcile, WriteJobFor, RequestStatus, TypeOK, TerminalJob
  <2>2. attempt' \in [Slots -> {"none"} \cup ActiveAttempt \cup TerminalAttempt]
    BY <1>9 DEF Reconcile, TypeOK, TerminalAttempt
  <2> QED
    BY <1>9, <2>1, <2>2 DEF Reconcile, TypeOK, requestVars, resultVars, settingVars, envVars
<1>10. ASSUME NEW j \in Jobs, PublishStatus(j) PROVE TypeOK'
  BY <1>10 DEF PublishStatus, TypeOK, jobVars, attemptVars, requestVars, resultVars,
               settingVars, envVars
<1>11. CASE UNCHANGED vars
  BY <1>11 DEF vars, TypeOK, jobVars, attemptVars, requestVars, resultVars, settingVars
<1> QED
  BY <1>1, <1>2, <1>3, <1>4, <1>5, <1>6, <1>7, <1>8, <1>9, <1>10, <1>11 DEF Next

----------------------------------------------------------------------------
(* What one step does to the rows, in the terms of the invariant.          *)

(* Rows are rewritten in place: none appears, none disappears. *)
SameRows ==
    /\ currentAttempt' = currentAttempt
    /\ \A j \in Jobs : jobStatus'[j] = "none" <=> jobStatus[j] = "none"
    /\ \A s \in Slots : attempt'[s] = "none" <=> attempt[s] = "none"
    /\ \A s \in Slots : outbox'[s] = "none" <=> outbox[s] = "none"

(* Steps that keep the rows that exist keep the numbering. *)
LEMMA ConsecutiveKept ==
  ASSUME AttemptsAreConsecutive, SameRows
  PROVE  AttemptsAreConsecutive'
  BY SlotFacts DEF AttemptsAreConsecutive, SameRows

(* A step that rewrites rows in place, takes no request off the queue's    *)
(* record, and leaves the snapshots or drops them, keeps the custody.      *)
LEMMA CustodyKept ==
  ASSUME TypeOK, Custody, SameRows, UNCHANGED requests,
         \A d \in Dispatchers : dispatcher'[d] \in {dispatcher[d], IdleDispatcher},
         \A r \in Retriers : retrier'[r] \in {retrier[r], IdleRetrier}
  PROVE  Custody'
  BY DEF Custody, SameRows

(* Snapshots stay no newer than the job when the job moves on. *)
LEMMA SnapshotsStay ==
  ASSUME TypeOK, Custody, NEW next \in [Jobs -> Nat],
         \A j \in Jobs : currentAttempt[j] <= next[j]
  PROVE  /\ \A d \in Dispatchers : dispatcher[d] # IdleDispatcher =>
              dispatcher[d].number <= next[dispatcher[d].job]
         /\ \A r \in Retriers : retrier[r] # IdleRetrier =>
              retrier[r].number <= next[retrier[r].job]
<1> currentAttempt \in [Jobs -> Nat]
  BY SlotFacts DEF TypeOK
<1>1. ASSUME NEW d \in Dispatchers, dispatcher[d] # IdleDispatcher
      PROVE  dispatcher[d].number <= next[dispatcher[d].job]
  <2>1. dispatcher[d].job \in Jobs /\ dispatcher[d].number \in Nat
    BY <1>1, SlotFacts DEF TypeOK, BusyDispatcher
  <2>2. dispatcher[d].number <= currentAttempt[dispatcher[d].job]
    BY <1>1 DEF Custody
  <2>3. currentAttempt[dispatcher[d].job] <= next[dispatcher[d].job]
    BY <2>1
  <2> QED
    BY <2>1, <2>2, <2>3
<1>2. ASSUME NEW r \in Retriers, retrier[r] # IdleRetrier
      PROVE  retrier[r].number <= next[retrier[r].job]
  <2>1. retrier[r].job \in Jobs /\ retrier[r].number \in Nat
    BY <1>2, SlotFacts DEF TypeOK, BusyRetrier
  <2>2. retrier[r].number <= currentAttempt[retrier[r].job]
    BY <1>2 DEF Custody
  <2>3. currentAttempt[retrier[r].job] <= next[retrier[r].job]
    BY <2>1
  <2> QED
    BY <2>1, <2>2, <2>3
<1> QED
  BY <1>1, <1>2

(* The slot a busy dispatcher works on has its rows. *)
LEMMA DispatcherSlot ==
  ASSUME Inv, NEW d \in Dispatchers, dispatcher[d].pc # "idle"
  PROVE  LET j == dispatcher[d].job
             n == dispatcher[d].number
         IN  /\ j \in Jobs /\ n \in Numbers /\ <<j, n>> \in Slots
             /\ n <= currentAttempt[j]
             /\ jobStatus[j] # "none"
             /\ attempt[<<j, n>>] # "none"
             /\ outbox[<<j, n>>] # "none"
             /\ dispatcher[d].pc # "claimed" => requests[<<j, n>>] > 0
<1>1. TypeOK /\ Custody /\ AttemptsAreConsecutive
  BY DEF Inv
<1>2. dispatcher[d] # IdleDispatcher
  BY DEF IdleDispatcher
<1>3. /\ dispatcher[d].job \in Jobs /\ dispatcher[d].number \in Numbers
      /\ <<dispatcher[d].job, dispatcher[d].number>> \in Slots
  BY <1>1, DispatcherFacts
<1>4. /\ dispatcher[d].number <= currentAttempt[dispatcher[d].job]
      /\ dispatcher[d].pc # "claimed" =>
           requests[<<dispatcher[d].job, dispatcher[d].number>>] > 0
  BY <1>1, <1>2 DEF Custody
<1>5. currentAttempt[dispatcher[d].job] # 0
  BY <1>1, <1>3, <1>4, SlotFacts, ConstantsAssumption DEF TypeOK, Numbers
<1> QED
  BY <1>1, <1>3, <1>4, <1>5 DEF AttemptsAreConsecutive

(* Steps of one dispatcher. *)
LEMMA DispatchKeeps ==
  ASSUME Inv, NEW d \in Dispatchers, Dispatch(d), TypeOK'
  PROVE  AttemptsAreConsecutive' /\ NoLostRequest' /\ Custody'
<1> TypeOK /\ AttemptsAreConsecutive /\ NoLostRequest /\ Custody
  BY DEF Inv
<1> USE DEF jobVars, attemptVars, requestVars, resultVars, settingVars, envVars
<1>1. ASSUME NEW s \in Slots, Claim(d, s[1], s[2])
      PROVE  AttemptsAreConsecutive' /\ NoLostRequest' /\ Custody'
  <2>1. /\ s[1] \in Jobs /\ s[2] \in Numbers /\ s = <<s[1], s[2]>>
        /\ outbox[s] # "none"
        /\ outbox' = [outbox EXCEPT ![s] = "processing"]
    BY <1>1, SlotFacts DEF Claim, Claimable
  <2>2. s[2] <= currentAttempt[s[1]]
    BY <2>1 DEF AttemptsAreConsecutive
  <2>3. SameRows
    BY <1>1, <2>1 DEF Claim, SameRows, TypeOK
  <2>4. NoLostRequest'
    BY <1>1, <2>1 DEF Claim, NoLostRequest, TypeOK
  <2>5. Custody'
    BY <1>1, <2>1, <2>2 DEF Claim, Custody, TypeOK
  <2> QED
    BY <2>3, <2>4, <2>5, ConsecutiveKept
<1>2. ASSUME PublishConfirmed(d)
      PROVE  AttemptsAreConsecutive' /\ NoLostRequest' /\ Custody'
  <2> DEFINE s == <<dispatcher[d].job, dispatcher[d].number>>
  <2>1. s \in Slots /\ attempt[s] # "none" /\ dispatcher[d].number <= currentAttempt[dispatcher[d].job]
    BY <1>2, DispatcherSlot DEF PublishConfirmed
  <2>2. /\ requests'[s] > 0
        /\ \A t \in Slots : requests[t] > 0 => requests'[t] > 0
        /\ \A t \in Slots \ {s} : requests'[t] = requests[t]
    BY <1>2, <2>1, EnqueueFacts DEF PublishConfirmed
  <2>3. SameRows
    BY <1>2 DEF PublishConfirmed, SameRows
  <2>4. NoLostRequest'
    BY <1>2, <2>2 DEF PublishConfirmed, NoLostRequest
  <2>5. \A e \in Dispatchers :
           /\ e # d => dispatcher'[e] = dispatcher[e]
           /\ dispatcher'[d].job = dispatcher[d].job
           /\ dispatcher'[d].number = dispatcher[d].number
    BY <1>2, DispatcherFacts DEF PublishConfirmed, TypeOK, BusyDispatcher
  <2>6. \A e \in Dispatchers : dispatcher'[e] # IdleDispatcher =>
           /\ dispatcher'[e].number <= currentAttempt'[dispatcher'[e].job]
           /\ dispatcher'[e].pc # "claimed" =>
                requests'[<<dispatcher'[e].job, dispatcher'[e].number>>] > 0
    <3>1. CASE UNCHANGED currentAttempt
      <4> TAKE e \in Dispatchers
      <4>1. CASE e = d
        BY <4>1, <2>1, <2>2, <2>5, <3>1
      <4>2. CASE e # d
        <5>1. dispatcher'[e] = dispatcher[e]
          BY <4>2, <2>5
        <5>2. dispatcher[e] # IdleDispatcher =>
                <<dispatcher[e].job, dispatcher[e].number>> \in Slots
          BY DEF TypeOK, BusyDispatcher, Slots
        <5> QED
          BY <5>1, <5>2, <2>2, <3>1 DEF Custody
      <4> QED
        BY <4>1, <4>2
    <3> QED
      BY <1>2, <3>1 DEF PublishConfirmed
  <2>7. Custody'
    BY <1>2, <2>1, <2>2, <2>6 DEF PublishConfirmed, Custody
  <2> QED
    BY <2>3, <2>4, <2>7, ConsecutiveKept
<1>3. ASSUME PublishFails(d)
      PROVE  AttemptsAreConsecutive' /\ NoLostRequest' /\ Custody'
  <2> DEFINE s == <<dispatcher[d].job, dispatcher[d].number>>
  <2>1. s \in Slots /\ attempt[s] # "none" /\ outbox[s] # "none"
    BY <1>3, DispatcherSlot DEF PublishFails
  <2>2. /\ \A t \in Slots : requests[t] > 0 => requests'[t] > 0
        /\ \A t \in Slots \ {s} : requests'[t] = requests[t]
    BY <1>3, <2>1, EnqueueFacts DEF PublishFails
  <2>3. outbox' = [outbox EXCEPT ![s] = "pending"]
    BY <1>3 DEF PublishFails
  <2>4. SameRows
    BY <1>3, <2>1, <2>3 DEF PublishFails, SameRows, TypeOK
  <2>5. NoLostRequest'
    BY <2>1, <2>2, <2>3 DEF NoLostRequest, TypeOK
  <2>6. \A e \in Dispatchers : dispatcher'[e] \in {dispatcher[e], IdleDispatcher}
    BY <1>3 DEF PublishFails, TypeOK
  <2>7. \A e \in Dispatchers : dispatcher[e] # IdleDispatcher =>
           <<dispatcher[e].job, dispatcher[e].number>> \in Slots
    BY DEF TypeOK, BusyDispatcher, Slots
  <2>8. UNCHANGED <<currentAttempt, attempt, retrier>>
    BY <1>3 DEF PublishFails
  <2>9. Custody'
    BY <2>1, <2>2, <2>6, <2>7, <2>8 DEF Custody
  <2> QED
    BY <2>4, <2>5, <2>9, ConsecutiveKept
<1>4. ASSUME MarkQueued(d)
      PROVE  AttemptsAreConsecutive' /\ NoLostRequest' /\ Custody'
  <2> DEFINE j == dispatcher[d].job
             n == dispatcher[d].number
  <2>1. /\ j \in Jobs /\ <<j, n>> \in Slots
        /\ jobStatus[j] # "none" /\ attempt[<<j, n>>] # "none"
        /\ outbox[<<j, n>>] # "none" /\ requests[<<j, n>>] > 0
    BY <1>4, DispatcherSlot DEF MarkQueued
  <2>2. /\ outbox' = [outbox EXCEPT ![<<j, n>>] = "processed"]
        /\ attempt' = [attempt EXCEPT ![<<j, n>>] = "published"]
        /\ jobStatus' = [jobStatus EXCEPT ![j] = "queued"]
        /\ UNCHANGED <<currentAttempt, requests, retrier>>
        /\ dispatcher' = [dispatcher EXCEPT ![d].pc = "queued"]
        /\ dispatcher[d].pc = "confirmed"
    BY <1>4 DEF MarkQueued, WriteJobFor
  <2>3. SameRows
    BY <2>1, <2>2 DEF SameRows, TypeOK
  <2>4. NoLostRequest'
    BY <2>1, <2>2 DEF NoLostRequest, TypeOK
  <2>5. \A e \in Dispatchers :
           /\ dispatcher'[e].job = dispatcher[e].job
           /\ dispatcher'[e].number = dispatcher[e].number
           /\ e # d => dispatcher'[e].pc = dispatcher[e].pc
           /\ dispatcher'[e] # IdleDispatcher => dispatcher[e] # IdleDispatcher
    BY <2>2, DispatcherFacts DEF TypeOK, BusyDispatcher, IdleDispatcher
  <2>6. Custody'
    BY <2>1, <2>2, <2>3, <2>5 DEF Custody, SameRows
  <2> QED
    BY <2>3, <2>4, <2>6, ConsecutiveKept
<1>5. ASSUME MarkRunning(d)
      PROVE  AttemptsAreConsecutive' /\ NoLostRequest' /\ Custody'
  <2> DEFINE j == dispatcher[d].job
             n == dispatcher[d].number
  <2>1. /\ j \in Jobs /\ <<j, n>> \in Slots
        /\ jobStatus[j] # "none" /\ attempt[<<j, n>>] # "none"
    BY <1>5, DispatcherSlot DEF MarkRunning
  <2>2. /\ attempt' = [attempt EXCEPT ![<<j, n>>] = "running"]
        /\ jobStatus' = [jobStatus EXCEPT ![j] = "running"]
        /\ UNCHANGED <<currentAttempt, outbox, requests, retrier>>
        /\ dispatcher' = [dispatcher EXCEPT ![d] = IdleDispatcher]
    BY <1>5 DEF MarkRunning, WriteJobFor
  <2>3. SameRows
    BY <2>1, <2>2 DEF SameRows, TypeOK
  <2>4. NoLostRequest'
    BY <2>2 DEF NoLostRequest
  <2>5. Custody'
    BY <2>2, <2>3, CustodyKept DEF TypeOK
  <2> QED
    BY <2>3, <2>4, <2>5, ConsecutiveKept
<1>6. ASSUME DispatcherStops(d)
      PROVE  AttemptsAreConsecutive' /\ NoLostRequest' /\ Custody'
  <2>1. SameRows /\ UNCHANGED <<requests, retrier, outbox>>
    BY <1>6 DEF DispatcherStops, SameRows
  <2>2. \A e \in Dispatchers : dispatcher'[e] \in {dispatcher[e], IdleDispatcher}
    BY <1>6 DEF DispatcherStops, TypeOK
  <2>3. NoLostRequest'
    BY <2>1 DEF NoLostRequest
  <2> QED
    BY <2>1, <2>2, <2>3, ConsecutiveKept, CustodyKept
<1> QED
  BY <1>1, <1>2, <1>3, <1>4, <1>5, <1>6 DEF Dispatch

(* Steps of the result consumer. *)
LEMMA ResultKeeps ==
  ASSUME Inv, NEW m \in outcomes, ProcessResult(m)
  PROVE  AttemptsAreConsecutive' /\ NoLostRequest' /\ Custody'
<1> TypeOK /\ AttemptsAreConsecutive /\ NoLostRequest /\ Custody
  BY DEF Inv
<1> USE DEF jobVars, attemptVars, requestVars, resultVars, settingVars, envVars
<1>1. UNCHANGED <<currentAttempt, outbox, requests, dispatcher, retrier>>
  BY DEF ProcessResult, SkipProcessed, IgnoreLate, Complete, ScheduleRetry,
         FailFinally, RejectResult
<1>2. CASE UNCHANGED <<jobStatus, attempt>>
  <2>1. SameRows
    BY <1>1, <1>2 DEF SameRows
  <2> QED
    BY <1>1, <2>1, ConsecutiveKept, CustodyKept DEF NoLostRequest
<1>3. ASSUME Applicable(m),
             NEW ast \in ActiveAttempt \cup TerminalAttempt,
             NEW jst \in ActiveJob \cup TerminalJob,
             attempt' = [attempt EXCEPT ![Slot(m)] = ast],
             jobStatus' = [jobStatus EXCEPT ![m.job] = jst]
      PROVE  AttemptsAreConsecutive' /\ NoLostRequest' /\ Custody'
  <2>1. m.job \in Jobs /\ m.number \in Numbers /\ Slot(m) \in Slots /\ Slot(m) = <<m.job, m.number>>
    BY MessageFacts
  <2>2. attempt[Slot(m)] # "none"
    BY <1>3 DEF Applicable, ActiveAttempt
  <2>3. m.number <= currentAttempt[m.job] /\ currentAttempt[m.job] # 0
    BY <2>1, <2>2, SlotFacts, ConstantsAssumption DEF AttemptsAreConsecutive, Numbers, TypeOK
  <2>4. jobStatus[m.job] # "none"
    BY <2>1, <2>3 DEF AttemptsAreConsecutive
  <2>5. ast # "none" /\ jst # "none"
    BY DEF ActiveAttempt, TerminalAttempt, ActiveJob, TerminalJob
  <2>6. SameRows
    BY <1>1, <1>3, <2>1, <2>2, <2>4, <2>5 DEF SameRows, TypeOK
  <2> QED
    BY <1>1, <2>6, ConsecutiveKept, CustodyKept DEF NoLostRequest
<1>4. CASE Complete(m)
  BY <1>3, <1>4 DEF Complete, WriteJobFor, TerminalAttempt, TerminalJob
<1>5. CASE ScheduleRetry(m)
  BY <1>3, <1>5 DEF ScheduleRetry, WriteJobFor, ActiveAttempt, ActiveJob
<1>6. CASE FailFinally(m)
  BY <1>3, <1>6 DEF FailFinally, WriteJobFor, TerminalAttempt, TerminalJob
<1>7. CASE SkipProcessed(m) \/ IgnoreLate(m) \/ RejectResult(m)
  BY <1>2, <1>7 DEF SkipProcessed, IgnoreLate, RejectResult
<1> QED
  BY <1>4, <1>5, <1>6, <1>7 DEF ProcessResult

(* Steps of one retry. *)
LEMMA RetryKeeps ==
  ASSUME Inv, NEW r \in Retriers, Retry(r)
  PROVE  AttemptsAreConsecutive' /\ NoLostRequest' /\ Custody'
<1> TypeOK /\ AttemptsAreConsecutive /\ NoLostRequest /\ Custody
  BY DEF Inv
<1> USE DEF jobVars, attemptVars, requestVars, resultVars, settingVars, envVars
<1>1. ASSUME NEW j \in Jobs, LoadRetryJob(r, j)
      PROVE  AttemptsAreConsecutive' /\ NoLostRequest' /\ Custody'
  <2>1. SameRows /\ UNCHANGED <<outbox, requests, dispatcher>>
    BY <1>1 DEF LoadRetryJob, SameRows
  <2>2. currentAttempt[j] < MaxAttempts
    BY <1>1, ConstantsAssumption DEF LoadRetryJob, BelowLimit, TypeOK, Numbers
  <2>3. retrier' = [retrier EXCEPT ![r] =
                      [pc |-> "preparing", job |-> j,
                       number |-> currentAttempt[j], commit |-> prCommit]]
    BY <1>1 DEF LoadRetryJob
  <2>4. \A q \in Retriers : retrier'[q] # IdleRetrier =>
           /\ retrier'[q].number <= currentAttempt[retrier'[q].job]
           /\ retrier'[q].number < MaxAttempts
    BY <2>2, <2>3, ConstantsAssumption DEF Custody, TypeOK, Numbers
  <2>5. Custody'
    BY <2>1, <2>4 DEF Custody, SameRows
  <2> QED
    BY <2>1, <2>5, ConsecutiveKept DEF NoLostRequest
<1>2. ASSUME FailRetry(r)
      PROVE  AttemptsAreConsecutive' /\ NoLostRequest' /\ Custody'
  <2>1. retrier[r].job \in Jobs
    BY <1>2, RetrierFacts DEF FailRetry
  <2>2. \A s \in Slots : attempt'[s] = "none" <=> attempt[s] = "none"
    BY <1>2 DEF FailRetry, TypeOK
  <2>3. \A j \in Jobs : jobStatus'[j] = "none" <=> jobStatus[j] = "none"
    BY <1>2, <2>1 DEF FailRetry, WriteJobFor, Waiting, TypeOK
  <2>4. UNCHANGED <<currentAttempt, outbox, requests, dispatcher>>
    BY <1>2 DEF FailRetry
  <2>5. SameRows
    BY <2>2, <2>3, <2>4 DEF SameRows
  <2>6. \A q \in Retriers : retrier'[q] \in {retrier[q], IdleRetrier}
    BY <1>2 DEF FailRetry, TypeOK
  <2> QED
    BY <2>4, <2>5, <2>6, ConsecutiveKept, CustodyKept DEF NoLostRequest
<1>3. ASSUME CommitRetry(r)
      PROVE  AttemptsAreConsecutive' /\ NoLostRequest' /\ Custody'
  <2> DEFINE j == retrier[r].job
             n == retrier[r].number
  <2>1. j \in Jobs /\ n \in Numbers /\ <<j, n>> \in Slots
    BY <1>3, RetrierFacts DEF CommitRetry
  <2>2. n + 1 \in Numbers
    BY <1>3, <2>1, ConstantsAssumption DEF CommitRetry, Custody, Numbers
  <2>3. /\ currentAttempt[j] = n
        /\ currentAttempt' = [currentAttempt EXCEPT ![j] = n + 1]
        /\ jobStatus' = [jobStatus EXCEPT ![j] = "created"]
        /\ attempt' = [attempt EXCEPT
                         ![<<j, n>>] = IF @ = "retry_wait" THEN "failed" ELSE @,
                         ![<<j, n + 1>>] = "created"]
        /\ outbox' = [outbox EXCEPT ![<<j, n + 1>>] = "pending"]
        /\ retrier' = [retrier EXCEPT ![r] = IdleRetrier]
        /\ UNCHANGED <<requests, dispatcher>>
    BY <1>3 DEF CommitRetry, CreateAttempt, ClaimsRetry
  <2> HIDE DEF j, n
  <2>4. <<j, n + 1>> \in Slots
    BY <2>1, <2>2, SlotFacts
  <2>5. \A s \in Slots : /\ attempt'[s] # "none" <=> attempt[s] # "none" \/ s = <<j, n + 1>>
                         /\ outbox'[s] # "none" <=> outbox[s] # "none" \/ s = <<j, n + 1>>
    BY <2>1, <2>3, <2>4 DEF TypeOK
  <2>6. \A i \in Jobs, k \in Numbers :
           k <= currentAttempt'[i] <=> k <= currentAttempt[i] \/ (i = j /\ k = n + 1)
    BY <2>1, <2>2, <2>3 DEF TypeOK, Numbers
  <2>7. \A i \in Jobs : jobStatus'[i] = "none" <=> currentAttempt'[i] = 0
    BY <2>1, <2>2, <2>3 DEF AttemptsAreConsecutive, TypeOK, Numbers
  <2>8. AttemptsAreConsecutive'
    BY <2>5, <2>6, <2>7, SlotFacts DEF AttemptsAreConsecutive
  <2>9. NoLostRequest'
    BY <2>3, <2>4 DEF NoLostRequest, TypeOK
  <2>10. /\ currentAttempt' \in [Jobs -> Nat]
         /\ \A i \in Jobs : currentAttempt[i] <= currentAttempt'[i]
    BY <2>1, <2>2, <2>3, ConstantsAssumption DEF TypeOK, Numbers
  <2>11. \A d \in Dispatchers : dispatcher[d] # IdleDispatcher =>
            /\ dispatcher[d].number <= currentAttempt'[dispatcher[d].job]
            /\ dispatcher[d].pc # "claimed" =>
                 requests[<<dispatcher[d].job, dispatcher[d].number>>] > 0
    BY <2>10, SnapshotsStay DEF Custody
  <2>12. \A q \in Retriers : retrier'[q] # IdleRetrier =>
            /\ retrier'[q].number <= currentAttempt'[retrier'[q].job]
            /\ retrier'[q].number < MaxAttempts
    BY <2>3, <2>10, SnapshotsStay DEF Custody, TypeOK
  <2>13. \A s \in Slots : requests[s] > 0 => attempt'[s] # "none"
    BY <2>5 DEF Custody
  <2>14. Custody'
    BY <2>3, <2>11, <2>12, <2>13 DEF Custody
  <2> QED
    BY <2>8, <2>9, <2>14
<1>4. ASSUME AbandonRetry(r)
      PROVE  AttemptsAreConsecutive' /\ NoLostRequest' /\ Custody'
  <2>1. SameRows /\ UNCHANGED <<requests, dispatcher, outbox>>
    BY <1>4 DEF AbandonRetry, SameRows
  <2>2. \A q \in Retriers : retrier'[q] \in {retrier[q], IdleRetrier}
    BY <1>4 DEF AbandonRetry, TypeOK
  <2> QED
    BY <2>1, <2>2, ConsecutiveKept, CustodyKept DEF NoLostRequest
<1> QED
  BY <1>1, <1>2, <1>3, <1>4 DEF Retry

(* The other steps. *)
LEMMA OthersKeep ==
  ASSUME Inv,
         \/ \E c \in Commits : SyncPullRequest(c)
         \/ \E l \in Limits : UpdateSettings(l)
         \/ \E j \in Jobs, n \in Numbers : LeaseExpires(j, n)
         \/ \E j \in Jobs, n \in Numbers, k \in OutcomeKind : WorkerAnswers(j, n, k)
         \/ \E j \in Jobs, n \in Numbers : Reconcile(j, n)
         \/ \E j \in Jobs : PublishStatus(j)
         \/ UNCHANGED vars
  PROVE  AttemptsAreConsecutive' /\ NoLostRequest' /\ Custody'
<1> TypeOK /\ AttemptsAreConsecutive /\ NoLostRequest /\ Custody
  BY DEF Inv
<1> USE DEF jobVars, attemptVars, requestVars, resultVars, settingVars, envVars
<1>1. UNCHANGED <<currentAttempt, requests, dispatcher, retrier>>
  BY DEF SyncPullRequest, UpdateSettings, LeaseExpires, WorkerAnswers, Reconcile,
         PublishStatus, vars
<1>2. CASE UNCHANGED <<jobStatus, attempt, outbox>>
  <2>1. SameRows
    BY <1>1, <1>2 DEF SameRows
  <2> QED
    BY <1>1, <1>2, <2>1, ConsecutiveKept, CustodyKept DEF NoLostRequest
<1>3. ASSUME NEW j \in Jobs, NEW n \in Numbers, LeaseExpires(j, n)
      PROVE  AttemptsAreConsecutive' /\ NoLostRequest' /\ Custody'
  <2>1. SameRows
    BY <1>3, SlotFacts DEF LeaseExpires, SameRows, TypeOK
  <2>2. NoLostRequest'
    BY <1>3, SlotFacts DEF LeaseExpires, NoLostRequest, TypeOK
  <2> QED
    BY <1>1, <2>1, <2>2, ConsecutiveKept, CustodyKept
<1>4. ASSUME NEW j \in Jobs, NEW n \in Numbers, Reconcile(j, n)
      PROVE  AttemptsAreConsecutive' /\ NoLostRequest' /\ Custody'
  <2>1. attempt[<<j, n>>] # "none"
    BY <1>4 DEF Reconcile, ReconciledStatus, ActiveAttempt
  <2>2. \A s \in Slots : attempt'[s] = "none" <=> attempt[s] = "none"
    BY <1>4, <2>1 DEF Reconcile, TypeOK
  <2>3. \A i \in Jobs : jobStatus'[i] = "none" <=> jobStatus[i] = "none"
    BY <1>4 DEF Reconcile, WriteJobFor, JobTimesOut, ActiveJob, TypeOK
  <2>4. SameRows /\ UNCHANGED outbox
    BY <1>4, <2>2, <2>3 DEF Reconcile, SameRows
  <2> QED
    BY <1>1, <2>4, ConsecutiveKept, CustodyKept DEF NoLostRequest
<1> QED
  BY <1>2, <1>3, <1>4 DEF SyncPullRequest, UpdateSettings, WorkerAnswers, PublishStatus, vars

(* The create transaction: the first attempt with its outbox row. *)
LEMMA CreateKeeps ==
  ASSUME Inv, NEW j \in Jobs, NEW c \in Commits, Create(j, c)
  PROVE  AttemptsAreConsecutive' /\ NoLostRequest' /\ Custody'
<1> TypeOK /\ AttemptsAreConsecutive /\ NoLostRequest /\ Custody
  BY DEF Inv
<1> USE DEF requestVars, resultVars
<1>1. /\ jobStatus[j] = "none" /\ currentAttempt[j] = 0
      /\ jobStatus' = [jobStatus EXCEPT ![j] = "created"]
      /\ currentAttempt' = [currentAttempt EXCEPT ![j] = 1]
      /\ attempt' = [attempt EXCEPT ![<<j, 1>>] = "created"]
      /\ outbox' = [outbox EXCEPT ![<<j, 1>>] = "pending"]
      /\ UNCHANGED <<requests, dispatcher, retrier>>
  BY DEF Create, CreateAttempt, AttemptsAreConsecutive
<1>2. <<j, 1>> \in Slots
  BY SlotFacts
<1>3. \A s \in Slots : /\ attempt'[s] # "none" <=> attempt[s] # "none" \/ s = <<j, 1>>
                       /\ outbox'[s] # "none" <=> outbox[s] # "none" \/ s = <<j, 1>>
  BY <1>1, <1>2 DEF TypeOK
<1>4. \A i \in Jobs, k \in Numbers :
         k <= currentAttempt'[i] <=> k <= currentAttempt[i] \/ (i = j /\ k = 1)
  BY <1>1 DEF TypeOK, Numbers
<1>5. \A i \in Jobs : jobStatus'[i] = "none" <=> currentAttempt'[i] = 0
  BY <1>1 DEF AttemptsAreConsecutive, TypeOK
<1>6. AttemptsAreConsecutive'
  BY <1>3, <1>4, <1>5, SlotFacts DEF AttemptsAreConsecutive
<1>7. NoLostRequest'
  BY <1>1, <1>2 DEF NoLostRequest, TypeOK
<1>8. /\ currentAttempt' \in [Jobs -> Nat]
      /\ \A i \in Jobs : currentAttempt[i] <= currentAttempt'[i]
  BY <1>1, ConstantsAssumption DEF TypeOK, Numbers
<1>9. \A d \in Dispatchers : dispatcher[d] # IdleDispatcher =>
         dispatcher[d].number <= currentAttempt'[dispatcher[d].job]
  BY <1>8, SnapshotsStay
<1>10. \A q \in Retriers : retrier[q] # IdleRetrier =>
         retrier[q].number <= currentAttempt'[retrier[q].job]
  BY <1>8, SnapshotsStay
<1>11. Custody'
  BY <1>1, <1>3, <1>9, <1>10 DEF Custody
<1> QED
  BY <1>6, <1>7, <1>11

(* Every step keeps the inductive invariant. *)
LEMMA InvNext == Inv /\ [Next]_vars => Inv'
<1> SUFFICES ASSUME Inv, [Next]_vars PROVE Inv'
  OBVIOUS
<1>1. TypeOK'
  BY TypeNext
<1>2. AttemptsAreConsecutive' /\ NoLostRequest' /\ Custody'
  BY <1>1, CreateKeeps, DispatchKeeps, ResultKeeps, RetryKeeps, OthersKeep DEF Next
<1> QED
  BY <1>1, <1>2 DEF Inv

(* The rows keep their types, attempts are numbered without gaps or        *)
(* doubles up to currentAttempt, no outbox row is closed before the broker *)
(* has its request, and every actor holds an attempt that exists.          *)
THEOREM LifecycleInvariant == Spec => []Inv
  BY InvInit, InvNext, PTL DEF Spec

(* Every variable keeps its type: in particular no attempt number leaves   *)
(* 1..MaxAttempts, however the limit and the retries interleave.           *)
THEOREM TypeCorrect == Spec => []TypeOK
<1>1. Inv => TypeOK
  BY DEF Inv
<1> QED
  BY <1>1, LifecycleInvariant, PTL

(* Attempts are numbered 1..currentAttempt without gaps, each with its     *)
(* outbox row: the create transaction and the CAS of createRetryAttempt.   *)
THEOREM Consecutive == Spec => []AttemptsAreConsecutive
<1>1. Inv => AttemptsAreConsecutive
  BY DEF Inv
<1> QED
  BY <1>1, LifecycleInvariant, PTL

(* dispatchOne closes an outbox row only after the broker has its request. *)
THEOREM AtLeastOnce == Spec => []NoLostRequest
<1>1. Inv => NoLostRequest
  BY DEF Inv
<1> QED
  BY <1>1, LifecycleInvariant, PTL

(* What dispatchers and retries hold between two steps stays good.         *)
THEOREM HeldAttemptsExist == Spec => []Custody
<1>1. Inv => Custody
  BY DEF Inv
<1> QED
  BY <1>1, LifecycleInvariant, PTL

----------------------------------------------------------------------------
(* The job and its attempts, as long as nobody writes out of turn.         *)

(* The two parts hold each other up: a retry may supersede an attempt      *)
(* because the job's status says the attempt has ended, and a result may   *)
(* write the job because an open attempt is the current one.               *)
Agreement == JobMirrorsCurrentAttempt /\ OnlyCurrentAttemptOpen

(* No job exists at first, so there is nothing to agree. *)
LEMMA AgreementInit == Init => Agreement
  BY DEF Init, Agreement, JobMirrorsCurrentAttempt, OnlyCurrentAttemptOpen, Numbers

(* The current attempt of a job that exists is one of its slots. *)
LEMMA CurrentSlot ==
  ASSUME TypeOK, AttemptsAreConsecutive, NEW j \in Jobs, jobStatus[j] # "none"
  PROVE  /\ currentAttempt[j] \in Numbers
         /\ <<j, currentAttempt[j]>> \in Slots
         /\ attempt[<<j, currentAttempt[j]>>] \in ActiveAttempt \cup TerminalAttempt
  BY SlotFacts, ConstantsAssumption DEF AttemptsAreConsecutive, TypeOK, Slots, Numbers

(* Steps that touch neither job nor attempt rows. *)
LEMMA AgreementFrame ==
  ASSUME Agreement, UNCHANGED <<jobStatus, currentAttempt, attempt, outOfTurn>>
  PROVE  Agreement'
  BY DEF Agreement, JobMirrorsCurrentAttempt, OnlyCurrentAttemptOpen

(* Steps that write an attempt and its job together, as the dispatcher and *)
(* the result consumer do: either the attempt is the current one, and both *)
(* agree, or the job is marked out of turn. A superseded attempt that is   *)
(* rewritten therefore needs no thought.                                   *)
LEMMA AgreementWrite ==
  ASSUME TypeOK, AttemptsAreConsecutive, Agreement,
         NEW j \in Jobs, NEW n \in Numbers, n <= currentAttempt[j],
         NEW status \in ActiveAttempt \cup TerminalAttempt,
         attempt' = [attempt EXCEPT ![<<j, n>>] = status],
         WriteJobFor(j, n, JobStatusOf(status)),
         UNCHANGED currentAttempt
  PROVE  Agreement'
<1> USE SlotFacts
<1>1. /\ outOfTurn \subseteq outOfTurn'
      /\ n # currentAttempt[j] => j \in outOfTurn'
      /\ jobStatus' = [jobStatus EXCEPT ![j] = JobStatusOf(status)]
  BY DEF WriteJobFor
<1>2. \A i \in Jobs, k \in Numbers : <<i, k>> # <<j, n>> =>
         attempt'[<<i, k>>] = attempt[<<i, k>>]
  BY DEF TypeOK
<1>3. ASSUME NEW i \in Jobs \ outOfTurn', NEW k \in Numbers, k < currentAttempt'[i]
      PROVE  attempt'[<<i, k>>] \in TerminalAttempt
  <2>1. attempt[<<i, k>>] \in TerminalAttempt
    BY <1>1, <1>3 DEF Agreement, OnlyCurrentAttemptOpen
  <2>2. <<i, k>> # <<j, n>>
    BY <1>1, <1>3, ConstantsAssumption DEF TypeOK, Numbers
  <2> QED
    BY <1>2, <2>1, <2>2
<1>4. ASSUME NEW i \in Jobs \ outOfTurn', jobStatus'[i] # "none"
      PROVE  jobStatus'[i] = JobStatusOf(attempt'[<<i, currentAttempt'[i]>>])
  <2>1. CASE i = j
    <3>1. n = currentAttempt[j] /\ attempt'[<<j, n>>] = status
      BY <1>1, <1>4, <2>1 DEF TypeOK
    <3> QED
      BY <1>1, <2>1, <3>1 DEF TypeOK
  <2>2. CASE i # j
    <3>1. jobStatus[i] # "none" /\ jobStatus'[i] = jobStatus[i]
      BY <1>1, <1>4, <2>2 DEF TypeOK
    <3>2. attempt'[<<i, currentAttempt[i]>>] = attempt[<<i, currentAttempt[i]>>]
      BY <1>2, <2>2, <3>1, CurrentSlot
    <3> QED
      BY <1>1, <1>4, <3>1, <3>2 DEF Agreement, JobMirrorsCurrentAttempt
  <2> QED
    BY <2>1, <2>2
<1> QED
  BY <1>3, <1>4 DEF Agreement, JobMirrorsCurrentAttempt, OnlyCurrentAttemptOpen

(* dispatchOne writes attempt and job alike, or marks the job out of turn. *)
LEMMA AgreementDispatch ==
  ASSUME Inv, Agreement, NEW d \in Dispatchers, Dispatch(d)
  PROVE  Agreement'
<1> TypeOK /\ AttemptsAreConsecutive
  BY DEF Inv
<1>1. CASE MarkQueued(d)
  <2>1. /\ dispatcher[d].job \in Jobs /\ dispatcher[d].number \in Numbers
        /\ dispatcher[d].number <= currentAttempt[dispatcher[d].job]
    BY <1>1, DispatcherSlot DEF MarkQueued
  <2>2. JobStatusOf("published") = "queued" /\ "published" \in ActiveAttempt
    BY DEF JobStatusOf, ActiveAttempt
  <2> QED
    BY <1>1, <2>1, <2>2, AgreementWrite DEF MarkQueued
<1>2. CASE MarkRunning(d)
  <2>1. /\ dispatcher[d].job \in Jobs /\ dispatcher[d].number \in Numbers
        /\ dispatcher[d].number <= currentAttempt[dispatcher[d].job]
    BY <1>2, DispatcherSlot DEF MarkRunning
  <2>2. JobStatusOf("running") = "running" /\ "running" \in ActiveAttempt
    BY DEF JobStatusOf, ActiveAttempt
  <2> QED
    BY <1>2, <2>1, <2>2, AgreementWrite DEF MarkRunning
<1>3. CASE ~MarkQueued(d) /\ ~MarkRunning(d)
  BY <1>3, AgreementFrame DEF Dispatch, Claim, PublishConfirmed, PublishFails, DispatcherStops,
                              jobVars, attemptVars
<1> QED
  BY <1>1, <1>2, <1>3

(* A result writes attempt and job alike, or marks the job out of turn. *)
LEMMA AgreementResult ==
  ASSUME Inv, Agreement, NEW m \in outcomes, ProcessResult(m)
  PROVE  Agreement'
<1> TypeOK /\ AttemptsAreConsecutive
  BY DEF Inv
<1>1. m.job \in Jobs /\ m.number \in Numbers /\ Slot(m) = <<m.job, m.number>>
  BY MessageFacts
<1>2. ASSUME Applicable(m),
             NEW status \in {"completed", "retry_wait", "failed"},
             attempt' = [attempt EXCEPT ![Slot(m)] = status],
             WriteJobFor(m.job, m.number, status),
             UNCHANGED currentAttempt
      PROVE  Agreement'
  <2>1. m.number <= currentAttempt[m.job]
    BY <1>1, <1>2 DEF Applicable, ActiveAttempt, AttemptsAreConsecutive
  <2>2. JobStatusOf(status) = status /\ status \in ActiveAttempt \cup TerminalAttempt
    BY DEF JobStatusOf, ActiveAttempt, TerminalAttempt
  <2> QED
    BY <1>1, <1>2, <2>1, <2>2, AgreementWrite
<1>3. CASE Complete(m)
  BY <1>2, <1>3 DEF Complete
<1>4. CASE ScheduleRetry(m)
  BY <1>2, <1>4 DEF ScheduleRetry
<1>5. CASE FailFinally(m)
  BY <1>2, <1>5 DEF FailFinally
<1>6. CASE SkipProcessed(m) \/ IgnoreLate(m) \/ RejectResult(m)
  BY <1>6, AgreementFrame DEF SkipProcessed, IgnoreLate, RejectResult, jobVars, attemptVars
<1> QED
  BY <1>3, <1>4, <1>5, <1>6 DEF ProcessResult

(* failRetry and the retry transaction, from snapshots that may be stale. *)
LEMMA AgreementRetry ==
  ASSUME Inv, Agreement, NEW r \in Retriers, Retry(r)
  PROVE  Agreement'
<1> TypeOK /\ AttemptsAreConsecutive /\ Custody
  BY DEF Inv
<1> USE SlotFacts
<1>1. CASE FailRetry(r)
  <2> DEFINE j == retrier[r].job
             n == retrier[r].number
  <2>1. j \in Jobs /\ n \in Numbers /\ <<j, n>> \in Slots /\ n <= currentAttempt[j]
    BY <1>1, RetrierFacts DEF FailRetry, Custody
  <2>2. /\ attempt' = [attempt EXCEPT ![<<j, n>>] = IF @ = "retry_wait" THEN "failed" ELSE @]
        /\ IF Waiting(j) THEN WriteJobFor(j, n, "failed") ELSE UNCHANGED <<jobStatus, outOfTurn>>
        /\ UNCHANGED currentAttempt
    BY <1>1 DEF FailRetry
  <2> HIDE DEF j, n
  <2>3. JobStatusOf("failed") = "failed" /\ JobStatusOf("retry_wait") = "retry_wait"
        /\ "failed" \in TerminalAttempt
    BY DEF JobStatusOf, TerminalAttempt
  <2>4. CASE attempt[<<j, n>>] = "retry_wait" /\ Waiting(j)
    BY <2>1, <2>2, <2>3, <2>4, AgreementWrite
  <2>5. CASE attempt[<<j, n>>] # "retry_wait" /\ ~Waiting(j)
    <3>1. attempt' = attempt
      BY <2>1, <2>2, <2>5 DEF TypeOK
    <3> QED
      BY <2>2, <2>5, <3>1, AgreementFrame
  <2>6. CASE attempt[<<j, n>>] = "retry_wait" /\ ~Waiting(j)
    <3>1. j \in outOfTurn
      <4> SUFFICES ASSUME j \notin outOfTurn PROVE FALSE
        OBVIOUS
      <4>1. n = currentAttempt[j]
        <5>1. ~(n < currentAttempt[j])
          BY <2>1, <2>6 DEF Agreement, OnlyCurrentAttemptOpen, TerminalAttempt
        <5>2. n \in Nat /\ currentAttempt[j] \in Nat
          BY <2>1 DEF TypeOK
        <5> QED
          BY <2>1, <5>1, <5>2
      <4>2. jobStatus[j] # "none"
        BY <2>1, <4>1, ConstantsAssumption DEF AttemptsAreConsecutive, Numbers
      <4> QED
        BY <2>1, <2>3, <2>6, <4>1, <4>2 DEF Agreement, JobMirrorsCurrentAttempt, Waiting
    <3>2. UNCHANGED <<jobStatus, outOfTurn, currentAttempt>>
      BY <2>2, <2>6
    <3>3. \A i \in Jobs \ outOfTurn, k \in Numbers : attempt'[<<i, k>>] = attempt[<<i, k>>]
      BY <2>2, <3>1 DEF TypeOK
    <3>4. \A i \in Jobs \ outOfTurn : jobStatus[i] # "none" => currentAttempt[i] \in Numbers
      BY CurrentSlot
    <3> QED
      BY <3>2, <3>3, <3>4 DEF Agreement, JobMirrorsCurrentAttempt, OnlyCurrentAttemptOpen
  <2>7. CASE attempt[<<j, n>>] # "retry_wait" /\ Waiting(j)
    <3>1. attempt' = attempt
      BY <2>1, <2>2, <2>7 DEF TypeOK
    <3>2. j \in outOfTurn'
      <4>1. CASE n # currentAttempt[j]
        BY <2>2, <2>7, <4>1 DEF WriteJobFor
      <4>2. CASE n = currentAttempt[j]
        <5>1. j \in outOfTurn
          <6> SUFFICES ASSUME j \notin outOfTurn PROVE FALSE
            OBVIOUS
          <6>1. jobStatus[j] = JobStatusOf(attempt[<<j, n>>])
            BY <2>1, <2>7, <4>2 DEF Agreement, JobMirrorsCurrentAttempt, Waiting
          <6> QED
            BY <2>7, <6>1 DEF JobStatusOf, Waiting
        <5> QED
          BY <2>2, <2>7, <4>2, <5>1 DEF WriteJobFor
      <4> QED
        BY <4>1, <4>2
    <3>3. outOfTurn \subseteq outOfTurn' /\ UNCHANGED currentAttempt
          /\ \A i \in Jobs \ outOfTurn' : jobStatus'[i] = jobStatus[i]
      BY <2>2, <2>7, <3>2 DEF WriteJobFor, TypeOK
    <3> QED
      BY <3>1, <3>3 DEF Agreement, JobMirrorsCurrentAttempt, OnlyCurrentAttemptOpen
  <2> QED
    BY <2>4, <2>5, <2>6, <2>7
<1>2. CASE CommitRetry(r)
  <2> DEFINE j == retrier[r].job
             n == retrier[r].number
  <2>1. j \in Jobs /\ n \in Numbers /\ <<j, n>> \in Slots
    BY <1>2, RetrierFacts DEF CommitRetry
  <2>2. n + 1 \in Numbers /\ <<j, n + 1>> \in Slots
    BY <1>2, <2>1, ConstantsAssumption DEF CommitRetry, Custody, Numbers, Slots
  <2>3. /\ currentAttempt[j] = n
        /\ jobStatus[j] \in {"retry_wait", "failed", "completed"}
        /\ currentAttempt' = [currentAttempt EXCEPT ![j] = n + 1]
        /\ jobStatus' = [jobStatus EXCEPT ![j] = "created"]
        /\ attempt' = [attempt EXCEPT
                         ![<<j, n>>] = IF @ = "retry_wait" THEN "failed" ELSE @,
                         ![<<j, n + 1>>] = "created"]
        /\ UNCHANGED outOfTurn
    BY <1>2 DEF CommitRetry, ClaimsRetry
  <2> HIDE DEF j, n
  <2>4. \A i \in Jobs, k \in Numbers : <<i, k>> \notin {<<j, n>>, <<j, n + 1>>} =>
           attempt'[<<i, k>>] = attempt[<<i, k>>]
    BY <2>3 DEF TypeOK
  <2>5. attempt'[<<j, n + 1>>] = "created" /\ n # n + 1
    BY <2>1, <2>2, <2>3 DEF TypeOK
  <2>6. ASSUME j \notin outOfTurn PROVE attempt'[<<j, n>>] \in TerminalAttempt
    <3>1. jobStatus[j] = JobStatusOf(attempt[<<j, n>>])
      BY <2>3, <2>1, <2>6 DEF Agreement, JobMirrorsCurrentAttempt
    <3>2. attempt[<<j, n>>] \in {"retry_wait", "failed", "completed", "timed_out"}
      BY <2>1, <2>3, <3>1 DEF JobStatusOf, TypeOK, ActiveAttempt, TerminalAttempt
    <3>3. attempt'[<<j, n>>] = IF attempt[<<j, n>>] = "retry_wait" THEN "failed"
                               ELSE attempt[<<j, n>>]
      BY <2>1, <2>2, <2>3, <2>5 DEF TypeOK
    <3> QED
      BY <3>2, <3>3 DEF TerminalAttempt
  <2>7. ASSUME NEW i \in Jobs \ outOfTurn', NEW k \in Numbers, k < currentAttempt'[i]
        PROVE  attempt'[<<i, k>>] \in TerminalAttempt
    <3>1. CASE i = j /\ k = n
      BY <2>3, <2>6, <2>7, <3>1
    <3>2. CASE i = j /\ k # n
      <4>1. n \in Nat /\ k \in Nat /\ currentAttempt'[i] = n + 1
        BY <2>1, <2>3, <3>2 DEF TypeOK
      <4>2. k < n /\ k # n + 1
        BY <2>7, <3>2, <4>1
      <4>3. attempt'[<<i, k>>] = attempt[<<i, k>>]
        BY <2>4, <3>2, <4>2
      <4> QED
        BY <2>1, <2>3, <2>7, <3>2, <4>2, <4>3 DEF Agreement, OnlyCurrentAttemptOpen
    <3>3. CASE i # j
      BY <2>3, <2>4, <2>7, <3>3 DEF Agreement, OnlyCurrentAttemptOpen, TypeOK
    <3> QED
      BY <3>1, <3>2, <3>3
  <2>8. ASSUME NEW i \in Jobs \ outOfTurn', jobStatus'[i] # "none"
        PROVE  jobStatus'[i] = JobStatusOf(attempt'[<<i, currentAttempt'[i]>>])
    <3>1. CASE i = j
      <4>1. JobStatusOf("created") = "created"
        BY DEF JobStatusOf
      <4> QED
        BY <2>1, <2>3, <2>5, <3>1, <4>1 DEF TypeOK
    <3>2. CASE i # j
      <4>1. /\ jobStatus'[i] = jobStatus[i] /\ currentAttempt'[i] = currentAttempt[i]
            /\ jobStatus[i] # "none"
        BY <2>3, <2>8, <3>2 DEF TypeOK
      <4>2. currentAttempt[i] \in Numbers
        BY <4>1, CurrentSlot
      <4> QED
        BY <2>3, <2>4, <3>2, <4>1, <4>2 DEF Agreement, JobMirrorsCurrentAttempt
    <3> QED
      BY <3>1, <3>2
  <2> QED
    BY <2>7, <2>8 DEF Agreement, JobMirrorsCurrentAttempt, OnlyCurrentAttemptOpen
<1>3. CASE ~FailRetry(r) /\ ~CommitRetry(r)
  BY <1>3, AgreementFrame DEF Retry, LoadRetryJob, AbandonRetry, jobVars, attemptVars
<1> QED
  BY <1>1, <1>2, <1>3

(* A timeout writes the job only for its current attempt. *)
LEMMA AgreementReconcile ==
  ASSUME Inv, Agreement, NEW j \in Jobs, NEW n \in Numbers, Reconcile(j, n)
  PROVE  Agreement'
<1> TypeOK /\ AttemptsAreConsecutive
  BY DEF Inv
<1> USE SlotFacts
<1>1. /\ attempt[<<j, n>>] \in ActiveAttempt
      /\ attempt' = [attempt EXCEPT ![<<j, n>>] = "timed_out"]
      /\ IF JobTimesOut(j, n) THEN WriteJobFor(j, n, "failed")
                              ELSE UNCHANGED <<jobStatus, outOfTurn>>
      /\ UNCHANGED currentAttempt
  BY DEF Reconcile, ReconciledStatus
<1>2. n <= currentAttempt[j] /\ n \in Nat /\ currentAttempt[j] \in Nat
  BY <1>1 DEF AttemptsAreConsecutive, ActiveAttempt, TypeOK
<1>3. JobStatusOf("timed_out") = "failed" /\ "timed_out" \in TerminalAttempt
  BY DEF JobStatusOf, TerminalAttempt
<1>4. CASE JobTimesOut(j, n)
  BY <1>1, <1>2, <1>3, <1>4, AgreementWrite
<1>5. CASE ~JobTimesOut(j, n)
  <2>1. j \in outOfTurn
    <3> SUFFICES ASSUME j \notin outOfTurn PROVE FALSE
      OBVIOUS
    <3>1. n = currentAttempt[j]
      BY <1>1, <1>2 DEF Agreement, OnlyCurrentAttemptOpen, ActiveAttempt, TerminalAttempt
    <3>2. jobStatus[j] = JobStatusOf(attempt[<<j, n>>])
      BY <3>1 DEF Agreement, JobMirrorsCurrentAttempt, AttemptsAreConsecutive, Numbers
    <3> QED
      BY <1>1, <1>5, <3>1, <3>2 DEF JobTimesOut, JobStatusOf, ActiveAttempt, ActiveJob
  <2>2. UNCHANGED <<jobStatus, outOfTurn, currentAttempt>>
    BY <1>1, <1>5
  <2>3. \A i \in Jobs \ outOfTurn, k \in Numbers : attempt'[<<i, k>>] = attempt[<<i, k>>]
    BY <1>1, <2>1 DEF TypeOK
  <2>4. \A i \in Jobs \ outOfTurn : jobStatus[i] # "none" => currentAttempt[i] \in Numbers
    BY CurrentSlot
  <2> QED
    BY <2>2, <2>3, <2>4 DEF Agreement, JobMirrorsCurrentAttempt, OnlyCurrentAttemptOpen
<1> QED
  BY <1>4, <1>5

(* A new job and its first attempt are both created. *)
LEMMA AgreementCreate ==
  ASSUME Inv, Agreement, NEW j \in Jobs, NEW c \in Commits, Create(j, c)
  PROVE  Agreement'
<1> TypeOK /\ AttemptsAreConsecutive
  BY DEF Inv
<1> USE SlotFacts
<1>1. /\ jobStatus' = [jobStatus EXCEPT ![j] = "created"]
      /\ currentAttempt' = [currentAttempt EXCEPT ![j] = 1]
      /\ attempt' = [attempt EXCEPT ![<<j, 1>>] = "created"]
      /\ UNCHANGED outOfTurn
  BY DEF Create
<1>2. \A i \in Jobs \ {j} :
         /\ jobStatus'[i] = jobStatus[i] /\ currentAttempt'[i] = currentAttempt[i]
         /\ \A k \in Numbers : attempt'[<<i, k>>] = attempt[<<i, k>>]
  BY <1>1 DEF TypeOK
<1>3. /\ jobStatus'[j] = "created" /\ currentAttempt'[j] = 1
      /\ attempt'[<<j, 1>>] = "created" /\ JobStatusOf("created") = "created"
  BY <1>1 DEF TypeOK, JobStatusOf
<1>4. \A i \in Jobs : jobStatus[i] # "none" => currentAttempt[i] \in Numbers
  BY CurrentSlot
<1>5. \A k \in Numbers : ~(k < 1)
  BY DEF Numbers
<1> QED
  BY <1>1, <1>2, <1>3, <1>4, <1>5 DEF Agreement, JobMirrorsCurrentAttempt, OnlyCurrentAttemptOpen

(* Every step keeps jobs and attempts in agreement. *)
LEMMA AgreementNext == Inv /\ Agreement /\ [Next]_vars => Agreement'
<1> SUFFICES ASSUME Inv, Agreement, [Next]_vars PROVE Agreement'
  OBVIOUS
<1>1. ASSUME \/ \E c \in Commits : SyncPullRequest(c)
             \/ \E l \in Limits : UpdateSettings(l)
             \/ \E j \in Jobs, n \in Numbers : LeaseExpires(j, n)
             \/ \E j \in Jobs, n \in Numbers, k \in OutcomeKind : WorkerAnswers(j, n, k)
             \/ \E j \in Jobs : PublishStatus(j)
             \/ UNCHANGED vars
      PROVE  Agreement'
  BY <1>1, AgreementFrame
  DEF SyncPullRequest, UpdateSettings, LeaseExpires, WorkerAnswers, PublishStatus,
      vars, jobVars, attemptVars
<1> QED
  BY <1>1, AgreementCreate, AgreementDispatch, AgreementResult, AgreementRetry,
     AgreementReconcile DEF Next

(* A job whose row was only ever written for its current attempt is in     *)
(* agreement with its attempts: the two theorems after this say how.       *)
THEOREM JobAgreesWithAttempts == Spec => [](Inv /\ Agreement)
<1>1. Inv /\ Agreement /\ [Next]_vars => (Inv /\ Agreement)'
  BY InvNext, AgreementNext
<1>2. Init => Inv /\ Agreement
  BY InvInit, AgreementInit
<1> QED
  BY <1>1, <1>2, PTL DEF Spec

(* It shows that attempt's status, through every race of dispatchOne, the  *)
(* result transactions, createRetryAttempt and reconcile.                  *)
THEOREM JobShowsAttempt == Spec => []JobMirrorsCurrentAttempt
<1>1. Inv /\ Agreement => JobMirrorsCurrentAttempt
  BY DEF Agreement
<1> QED
  BY <1>1, JobAgreesWithAttempts, PTL

(* Its earlier attempts have all ended: no two of its reviews are at work. *)
THEOREM EarlierAttemptsEnded == Spec => []OnlyCurrentAttemptOpen
<1>1. Inv /\ Agreement => OnlyCurrentAttemptOpen
  BY DEF Agreement
<1> QED
  BY <1>1, JobAgreesWithAttempts, PTL

(* dispatchOne after the confirm and failRetry, holding an attempt that a  *)
(* retry has superseded, are the only ways in which a job is written for   *)
(* another attempt than its current one, the first time.                   *)
THEOREM HoldersDisturb == Spec => OnlyHoldersDisturb
<1> DEFINE Held(j) ==
      \/ \E d \in Dispatchers :
           /\ MarkQueued(d) \/ MarkRunning(d)
           /\ dispatcher[d].job = j /\ dispatcher[d].number < currentAttempt[j]
      \/ \E r \in Retriers :
           /\ FailRetry(r)
           /\ retrier[r].job = j /\ retrier[r].number < currentAttempt[j]
<1>1. ASSUME Inv, Agreement, [Next]_vars, NEW j \in Jobs, j \notin outOfTurn, j \in outOfTurn'
      PROVE  Held(j)
  <2> TypeOK /\ AttemptsAreConsecutive /\ Custody
    BY <1>1 DEF Inv
  <2> USE SlotFacts
  <2>1. ASSUME NEW i \in Jobs, NEW n \in Numbers, NEW status, WriteJobFor(i, n, status)
        PROVE  i = j /\ n # currentAttempt[j]
    BY <1>1, <2>1 DEF WriteJobFor
  <2>2. ~UNCHANGED outOfTurn
    BY <1>1
  <2>3. ASSUME NEW d \in Dispatchers, Dispatch(d) PROVE Held(j)
    <3>1. MarkQueued(d) \/ MarkRunning(d)
      BY <2>2, <2>3 DEF Dispatch, Claim, PublishConfirmed, PublishFails, DispatcherStops, jobVars
    <3>2. /\ dispatcher[d].job \in Jobs /\ dispatcher[d].number \in Numbers
          /\ dispatcher[d].number <= currentAttempt[dispatcher[d].job]
      BY <1>1, <3>1, DispatcherSlot DEF MarkQueued, MarkRunning
    <3>3. \E status : WriteJobFor(dispatcher[d].job, dispatcher[d].number, status)
      BY <3>1 DEF MarkQueued, MarkRunning
    <3>4. dispatcher[d].job = j /\ dispatcher[d].number # currentAttempt[j]
      BY <2>1, <3>2, <3>3
    <3>5. dispatcher[d].number \in Nat /\ currentAttempt[j] \in Nat
      BY <3>2 DEF TypeOK
    <3>6. dispatcher[d].number < currentAttempt[j]
      BY <3>2, <3>4, <3>5
    <3> QED
      BY <3>1, <3>4, <3>6
  <2>4. ASSUME NEW m \in outcomes, ProcessResult(m) PROVE FALSE
    <3>1. m.job \in Jobs /\ m.number \in Numbers /\ Slot(m) = <<m.job, m.number>>
      BY MessageFacts
    <3>2. Applicable(m) /\ \E status : WriteJobFor(m.job, m.number, status)
      BY <2>2, <2>4 DEF ProcessResult, SkipProcessed, IgnoreLate, RejectResult, Complete,
                        ScheduleRetry, FailFinally, jobVars
    <3>3. m.job = j /\ m.number # currentAttempt[j]
      BY <2>1, <3>1, <3>2
    <3>4. attempt[<<j, m.number>>] \in ActiveAttempt
      BY <3>1, <3>2, <3>3 DEF Applicable
    <3>5. m.number <= currentAttempt[j]
      BY <3>1, <3>4 DEF AttemptsAreConsecutive, ActiveAttempt
    <3>6. m.number \in Nat /\ currentAttempt[j] \in Nat
      BY <3>1 DEF TypeOK
    <3>7. m.number < currentAttempt[j]
      BY <3>3, <3>5, <3>6
    <3>8. attempt[<<j, m.number>>] \in TerminalAttempt
      BY <1>1, <3>1, <3>7 DEF Agreement, OnlyCurrentAttemptOpen
    <3> QED
      BY <3>4, <3>8 DEF ActiveAttempt, TerminalAttempt
  <2>5. ASSUME NEW r \in Retriers, Retry(r) PROVE Held(j)
    <3>1. FailRetry(r)
      BY <2>2, <2>5 DEF Retry, LoadRetryJob, CommitRetry, AbandonRetry, jobVars
    <3>2. /\ retrier[r].job \in Jobs /\ retrier[r].number \in Numbers
          /\ retrier[r].number <= currentAttempt[retrier[r].job]
      BY <3>1, RetrierFacts DEF FailRetry, Custody
    <3>3. WriteJobFor(retrier[r].job, retrier[r].number, "failed")
      BY <2>2, <3>1 DEF FailRetry
    <3>4. retrier[r].job = j /\ retrier[r].number # currentAttempt[j]
      BY <2>1, <3>2, <3>3
    <3>5. retrier[r].number \in Nat /\ currentAttempt[j] \in Nat
      BY <3>2 DEF TypeOK
    <3>6. retrier[r].number < currentAttempt[j]
      BY <3>2, <3>4, <3>5
    <3> QED
      BY <3>1, <3>4, <3>6
  <2>6. ASSUME NEW i \in Jobs, NEW n \in Numbers, Reconcile(i, n) PROVE FALSE
    <3>1. JobTimesOut(i, n) /\ WriteJobFor(i, n, "failed")
      BY <2>2, <2>6 DEF Reconcile
    <3> QED
      BY <2>1, <3>1 DEF JobTimesOut
  <2> QED
    BY <1>1, <2>2, <2>3, <2>4, <2>5, <2>6
    DEF Next, Create, SyncPullRequest, UpdateSettings, LeaseExpires, WorkerAnswers,
        PublishStatus, vars, jobVars
<1>2. Inv /\ Agreement /\ [Next]_vars =>
        [ \A j \in Jobs : j \notin outOfTurn /\ j \in outOfTurn' => Held(j) ]_vars
  BY <1>1
<1> HIDE DEF Held
<1> QED
  BY <1>2, JobAgreesWithAttempts, PTL DEF Spec, OnlyHoldersDisturb, Held

----------------------------------------------------------------------------
(* What one step may never do. *)

(* Timing out a superseded attempt spares its job: no assumption on how    *)
(* the attempt came to be open again.                                      *)
THEOREM NewerAttemptSpared == Spec => TimeoutSparesNewerAttempt
<1>1. ASSUME Inv, [Next]_vars, NEW j \in Jobs, NEW n \in Numbers,
             attempt[<<j, n>>] # "timed_out", attempt'[<<j, n>>] = "timed_out",
             n < currentAttempt[j]
      PROVE  /\ jobStatus'[j] = jobStatus[j]
             /\ statusPub'[j] = statusPub[j]
             /\ attempt'[<<j, currentAttempt[j]>>] = attempt[<<j, currentAttempt[j]>>]
  <2> TypeOK /\ AttemptsAreConsecutive
    BY <1>1 DEF Inv
  <2> USE SlotFacts
  <2>1. \E i \in Jobs, k \in Numbers : Reconcile(i, k)
    <3>1. ASSUME UNCHANGED attempt PROVE FALSE
      BY <1>1, <3>1
    <3>2. ASSUME NEW s \in Slots \cup {<<j, n>>}, NEW st \in {"created", "published", "running", "completed", "retry_wait", "failed"},
                 attempt' = [attempt EXCEPT ![s] = st]
          PROVE  FALSE
      BY <1>1, <3>2 DEF TypeOK
    <3>3. ASSUME NEW i \in Jobs, NEW c \in Commits, Create(i, c) PROVE FALSE
      BY <3>2, <3>3 DEF Create
    <3>4. ASSUME NEW d \in Dispatchers, Dispatch(d) PROVE FALSE
      <4>1. CASE MarkQueued(d)
        BY <3>2, <4>1, DispatcherFacts DEF MarkQueued
      <4>2. CASE MarkRunning(d)
        BY <3>2, <4>2, DispatcherFacts DEF MarkRunning
      <4> QED
        BY <3>1, <3>4, <4>1, <4>2
        DEF Dispatch, Claim, PublishConfirmed, PublishFails, DispatcherStops, attemptVars
    <3>5. ASSUME NEW m \in outcomes, ProcessResult(m) PROVE FALSE
      <4>1. Slot(m) \in Slots
        BY MessageFacts
      <4> QED
        BY <3>1, <3>2, <3>5, <4>1
        DEF ProcessResult, SkipProcessed, IgnoreLate, RejectResult, Complete,
            ScheduleRetry, FailFinally, attemptVars
    <3>6. ASSUME NEW r \in Retriers, Retry(r) PROVE FALSE
      <4>1. CASE FailRetry(r)
        BY <1>1, <4>1 DEF FailRetry, TypeOK
      <4>2. CASE CommitRetry(r)
        BY <1>1, <4>2 DEF CommitRetry, TypeOK
      <4> QED
        BY <3>1, <3>6, <4>1, <4>2 DEF Retry, LoadRetryJob, AbandonRetry, attemptVars
    <3> QED
      BY <1>1, <3>1, <3>3, <3>4, <3>5, <3>6
      DEF Next, SyncPullRequest, UpdateSettings, LeaseExpires, WorkerAnswers,
          PublishStatus, vars, attemptVars
  <2>2. PICK i \in Jobs, k \in Numbers : Reconcile(i, k)
    BY <2>1
  <2>3. i = j /\ k = n
    BY <1>1, <2>2 DEF Reconcile, TypeOK
  <2>4. n \in Nat /\ currentAttempt[j] \in Nat /\ n # currentAttempt[j]
    BY <1>1 DEF TypeOK
  <2>5. UNCHANGED <<jobStatus, statusPub>>
    BY <2>2, <2>3, <2>4 DEF Reconcile, JobTimesOut
  <2> QED
    BY <2>2, <2>3, <2>4, <2>5 DEF Reconcile, TypeOK
<1>2. Inv /\ [Next]_vars =>
        [ \A j \in Jobs, n \in Numbers :
            /\ attempt[<<j, n>>] # "timed_out"
            /\ attempt'[<<j, n>>] = "timed_out"
            /\ n < currentAttempt[j]
            => /\ jobStatus'[j] = jobStatus[j]
               /\ statusPub'[j] = statusPub[j]
               /\ attempt'[<<j, currentAttempt[j]>>]
                    = attempt[<<j, currentAttempt[j]>>] ]_vars
  BY <1>1
<1> QED
  BY <1>2, LifecycleInvariant, PTL DEF Spec, TimeoutSparesNewerAttempt

(* Whoever ends a job has its outcome published: the job ends only in the  *)
(* result transactions, in failRetry and in the reconciler, and each sets  *)
(* the publication back to pending.                                        *)
THEOREM EndReported == Spec => EndedJobIsReported
<1>1. ASSUME Inv, [Next]_vars, NEW j \in Jobs,
             jobStatus[j] \notin TerminalJob, jobStatus'[j] \in TerminalJob
      PROVE  statusPub'[j] = "pending"
  <2> TypeOK
    BY <1>1 DEF Inv
  <2> USE DEF TerminalJob
  <2>1. ~UNCHANGED jobStatus
    BY <1>1
  <2>2. ASSUME NEW i \in Jobs, RequestStatus(i),
               \E st \in TerminalJob : jobStatus' = [jobStatus EXCEPT ![i] = st]
        PROVE  statusPub'[j] = "pending"
    <3>1. i = j
      BY <1>1, <2>2 DEF TypeOK
    <3> QED
      BY <2>2, <3>1 DEF RequestStatus, TypeOK
  <2>3. ASSUME NEW i \in Jobs, NEW st \in ActiveJob,
               jobStatus' = [jobStatus EXCEPT ![i] = st]
        PROVE  FALSE
    BY <1>1, <2>3 DEF TypeOK, ActiveJob
  <2>4. ASSUME NEW i \in Jobs, NEW c \in Commits, Create(i, c) PROVE FALSE
    BY <2>3, <2>4 DEF Create, ActiveJob
  <2>5. ASSUME NEW d \in Dispatchers, Dispatch(d) PROVE FALSE
    <3>1. CASE MarkQueued(d)
      BY <2>3, <3>1, DispatcherFacts DEF MarkQueued, WriteJobFor, ActiveJob
    <3>2. CASE MarkRunning(d)
      BY <2>3, <3>2, DispatcherFacts DEF MarkRunning, WriteJobFor, ActiveJob
    <3> QED
      BY <2>1, <2>5, <3>1, <3>2
      DEF Dispatch, Claim, PublishConfirmed, PublishFails, DispatcherStops, jobVars
  <2>6. ASSUME NEW m \in outcomes, ProcessResult(m)
        PROVE  statusPub'[j] = "pending"
    <3> m.job \in Jobs
      BY MessageFacts
    <3>1. CASE Complete(m)
      BY <2>2, <3>1 DEF Complete, WriteJobFor
    <3>2. CASE FailFinally(m)
      BY <2>2, <3>2 DEF FailFinally, WriteJobFor
    <3>3. CASE ScheduleRetry(m)
      BY <2>3, <3>3 DEF ScheduleRetry, WriteJobFor, ActiveJob
    <3> QED
      BY <2>1, <2>6, <3>1, <3>2, <3>3
      DEF ProcessResult, SkipProcessed, IgnoreLate, RejectResult, jobVars
  <2>7. ASSUME NEW r \in Retriers, Retry(r)
        PROVE  statusPub'[j] = "pending"
    <3>1. CASE FailRetry(r)
      BY <2>1, <2>2, <3>1, RetrierFacts DEF FailRetry, WriteJobFor
    <3>2. CASE CommitRetry(r)
      BY <2>3, <3>2, RetrierFacts DEF CommitRetry, ActiveJob
    <3> QED
      BY <2>1, <2>7, <3>1, <3>2 DEF Retry, LoadRetryJob, AbandonRetry, jobVars
  <2>8. ASSUME NEW i \in Jobs, NEW n \in Numbers, Reconcile(i, n)
        PROVE  statusPub'[j] = "pending"
    BY <2>1, <2>2, <2>8 DEF Reconcile, WriteJobFor
  <2> QED
    BY <1>1, <2>1, <2>4, <2>5, <2>6, <2>7, <2>8
    DEF Next, SyncPullRequest, UpdateSettings, LeaseExpires, WorkerAnswers,
        PublishStatus, vars, jobVars
<1>2. Inv /\ [Next]_vars =>
        [ \A j \in Jobs :
            jobStatus[j] \notin TerminalJob /\ jobStatus'[j] \in TerminalJob
              => statusPub'[j] = "pending" ]_vars
  BY <1>1
<1> QED
  BY <1>2, LifecycleInvariant, PTL DEF Spec, EndedJobIsReported

(* No attempt row is created over one that exists: the number after the    *)
(* snapshot's is free while the CAS finds the snapshot's number current.   *)
THEOREM CreatedOnce == Spec => AttemptCreatedOnce
<1>1. ASSUME Inv, [Next]_vars, NEW s \in Slots,
             attempt[s] \notin {"none", "created"}, attempt'[s] = "created"
      PROVE  FALSE
  <2> TypeOK /\ AttemptsAreConsecutive
    BY <1>1 DEF Inv
  <2> USE SlotFacts
  <2>1. ~UNCHANGED attempt
    BY <1>1
  <2>2. ASSUME NEW t \in Slots,
               \E st : st # "created" /\ attempt' = [attempt EXCEPT ![t] = st]
        PROVE  FALSE
    BY <1>1, <2>2 DEF TypeOK
  <2>3. ASSUME NEW i \in Jobs, NEW c \in Commits, Create(i, c) PROVE FALSE
    <3>1. attempt[<<i, 1>>] = "none"
      BY <2>3 DEF Create, AttemptsAreConsecutive
    <3> QED
      BY <1>1, <2>3, <3>1 DEF Create, TypeOK
  <2>4. ASSUME NEW d \in Dispatchers, Dispatch(d) PROVE FALSE
    <3>1. CASE MarkQueued(d)
      BY <2>2, <3>1, DispatcherFacts DEF MarkQueued
    <3>2. CASE MarkRunning(d)
      BY <2>2, <3>2, DispatcherFacts DEF MarkRunning
    <3> QED
      BY <2>1, <2>4, <3>1, <3>2
      DEF Dispatch, Claim, PublishConfirmed, PublishFails, DispatcherStops, attemptVars
  <2>5. ASSUME NEW m \in outcomes, ProcessResult(m) PROVE FALSE
    <3> Slot(m) \in Slots
      BY MessageFacts
    <3> QED
      BY <2>1, <2>2, <2>5
      DEF ProcessResult, SkipProcessed, IgnoreLate, RejectResult, Complete,
          ScheduleRetry, FailFinally, attemptVars
  <2>6. ASSUME NEW r \in Retriers, Retry(r) PROVE FALSE
    <3>1. CASE FailRetry(r)
      BY <1>1, <3>1, RetrierFacts DEF FailRetry, TypeOK
    <3>2. CASE CommitRetry(r)
      <4> DEFINE i == retrier[r].job
                 n == retrier[r].number
      <4>1. i \in Jobs /\ n \in Numbers /\ n + 1 \in Numbers /\ currentAttempt[i] = n
        <5>1. /\ i \in Jobs /\ n \in Numbers /\ currentAttempt[i] = n
              /\ retrier[r] # IdleRetrier
          BY <3>2, RetrierFacts DEF CommitRetry, ClaimsRetry
        <5>2. n < MaxAttempts
          BY <1>1, <5>1 DEF Inv, Custody
        <5> QED
          BY <5>1, <5>2, ConstantsAssumption DEF Numbers
      <4>2. attempt[<<i, n + 1>>] = "none"
        BY <4>1, ConstantsAssumption DEF AttemptsAreConsecutive, Numbers
      <4>3. attempt' = [attempt EXCEPT
                          ![<<i, n>>] = IF @ = "retry_wait" THEN "failed" ELSE @,
                          ![<<i, n + 1>>] = "created"]
        BY <3>2 DEF CommitRetry
      <4>4. <<i, n>> \in Slots /\ <<i, n + 1>> \in Slots
        BY <4>1
      <4>5. s # <<i, n + 1>>
        BY <1>1, <4>2
      <4> HIDE DEF i, n
      <4> QED
        BY <1>1, <4>3, <4>4, <4>5 DEF TypeOK
    <3> QED
      BY <2>1, <2>6, <3>1, <3>2 DEF Retry, LoadRetryJob, AbandonRetry, attemptVars
  <2>7. ASSUME NEW i \in Jobs, NEW n \in Numbers, Reconcile(i, n) PROVE FALSE
    BY <2>2, <2>7 DEF Reconcile
  <2> QED
    BY <1>1, <2>1, <2>3, <2>4, <2>5, <2>6, <2>7
    DEF Next, SyncPullRequest, UpdateSettings, LeaseExpires, WorkerAnswers,
        PublishStatus, vars, attemptVars
<1>2. Inv /\ [Next]_vars =>
        [ \A s \in Slots :
            attempt[s] \notin {"none", "created"} => attempt'[s] # "created" ]_vars
  BY <1>1
<1> QED
  BY <1>2, LifecycleInvariant, PTL DEF Spec, AttemptCreatedOnce

(* The message taken off the results queue is the one processed, and one   *)
(* whose event is in the inbox, or whose attempt has ended, changes no row:*)
(* effects are exactly-once over an at-least-once queue.                   *)
THEOREM AppliedOnce == Spec => OutcomeAppliedOnce
<1>1. ASSUME [Next]_vars, NEW m \in outcomes, m \notin outcomes',
             Id(m) \in inbox \/ attempt[Slot(m)] \in TerminalAttempt
      PROVE  UNCHANGED <<jobStatus, attempt, statusPub>>
  <2>1. ~UNCHANGED outcomes
    BY <1>1
  <2>2. PICK x \in outcomes : ProcessResult(x)
    <3>1. ASSUME NEW d \in Dispatchers, Dispatch(d) PROVE FALSE
      BY <2>1, <3>1
      DEF Dispatch, Claim, PublishConfirmed, PublishFails, MarkQueued, MarkRunning,
          DispatcherStops, resultVars
    <3>2. ASSUME NEW r \in Retriers, Retry(r) PROVE FALSE
      BY <2>1, <3>2
      DEF Retry, LoadRetryJob, FailRetry, CommitRetry, AbandonRetry, resultVars
    <3>3. ASSUME NEW j \in Jobs, NEW n \in Numbers, NEW k \in OutcomeKind,
                 WorkerAnswers(j, n, k)
          PROVE  FALSE
      BY <1>1, <3>3 DEF WorkerAnswers
    <3> QED
      BY <1>1, <2>1, <3>1, <3>2, <3>3
      DEF Next, Create, SyncPullRequest, UpdateSettings, LeaseExpires, Reconcile,
          PublishStatus, vars, resultVars
  <2>3. x = m
    BY <1>1, <2>2
    DEF ProcessResult, SkipProcessed, IgnoreLate, Complete, ScheduleRetry,
        FailFinally, RejectResult, Settle
  <2>4. ~Applicable(m)
    BY <1>1 DEF Applicable, TerminalAttempt, ActiveAttempt
  <2>5. SkipProcessed(m) \/ IgnoreLate(m) \/ RejectResult(m)
    BY <2>2, <2>3, <2>4 DEF ProcessResult, Complete, ScheduleRetry, FailFinally
  <2> QED
    BY <2>5 DEF SkipProcessed, IgnoreLate, RejectResult, jobVars, attemptVars
<1>2. [Next]_vars =>
        [ \A m \in outcomes :
            /\ m \notin outcomes'
            /\ Id(m) \in inbox \/ attempt[Slot(m)] \in TerminalAttempt
            => UNCHANGED <<jobStatus, attempt, statusPub>> ]_vars
  BY <1>1
<1> QED
  BY <1>2, PTL DEF Spec, OutcomeAppliedOnce
=============================================================================
