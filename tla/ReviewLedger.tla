------------------------------ MODULE ReviewLedger ------------------------------
(***************************************************************************)
(* What the rows of review_jobs, review_job_attempts, message_outbox and   *)
(* message_inbox promise to a reader who knows nothing of dispatchers,     *)
(* leases, retries and redeliveries: attempts are made one after the other *)
(* for a job nobody is working on, a request is closed only once it was    *)
(* sent, and every event is recorded once, for a request that was sent.    *)
(* ReviewLifecycle implements it.                                          *)
(***************************************************************************)
EXTENDS Naturals

CONSTANTS
    Jobs,       \* review jobs
    MaxAttempts \* attempts a job may have

VARIABLES
    made,    \* how many attempts each job has had
    sent,    \* attempts whose request the broker was given
    closed,  \* attempts whose request need not be sent again
    recorded,\* events that have been taken in
    atWork   \* jobs under review, which no retry may touch

vars == <<made, sent, closed, recorded, atWork>>

Slots  == Jobs \X (1..MaxAttempts)
Events == Jobs \X (1..MaxAttempts) \X (1..2)

Init ==
    /\ made = [j \in Jobs |-> 0]
    /\ sent = {}
    /\ closed = {}
    /\ recorded = {}
    /\ atWork = {}

(* The next attempt, and the job is at work. *)
Make(j) ==
    /\ j \notin atWork
    /\ made[j] < MaxAttempts
    /\ made' = [made EXCEPT ![j] = @ + 1]
    /\ atWork' = atWork \cup {j}
    /\ UNCHANGED <<sent, closed, recorded>>

(* The request of an attempt that was made is sent for the first time. *)
Send(s) ==
    /\ s[2] <= made[s[1]]
    /\ sent' = sent \cup {s}
    /\ UNCHANGED <<made, closed, recorded, atWork>>

(* A request that was sent is closed, and its job is (again) at work. *)
Close(s) ==
    /\ s \in sent
    /\ closed' = closed \cup {s}
    /\ atWork' = atWork \cup {s[1]}
    /\ UNCHANGED <<made, sent, recorded>>

(* An event is recorded, and may take its job from work. *)
Record(e) ==
    /\ <<e[1], e[2]>> \in sent
    /\ e \notin recorded
    /\ recorded' = recorded \cup {e}
    /\ atWork' \in {atWork, atWork \ {e[1]}}
    /\ UNCHANGED <<made, sent, closed>>

(* A request is opened again, by a sender that did not get it through.     *)
Reopen(s) ==
    /\ closed' = closed \ {s}
    /\ UNCHANGED <<made, sent, recorded, atWork>>

(* A job is given up. *)
GiveUp(j) ==
    /\ atWork' = atWork \ {j}
    /\ UNCHANGED <<made, sent, closed, recorded>>

(* A job is taken up again, for a request that was sent. *)
TakeUp(s) ==
    /\ s \in sent
    /\ atWork' = atWork \cup {s[1]}
    /\ UNCHANGED <<made, sent, closed, recorded>>

Next ==
    \/ \E j \in Jobs : Make(j) \/ GiveUp(j)
    \/ \E s \in Slots : Send(s) \/ Close(s) \/ Reopen(s) \/ TakeUp(s)
    \/ \E e \in Events : Record(e)

Spec == Init /\ [][Next]_vars

=============================================================================
