----------------------------- MODULE WebhooksProofs -----------------------------
(***************************************************************************)
(* Theorems about Webhooks, for any number of events, requests, pushes and *)
(* faults, and any configuration that may vary.                            *)
(***************************************************************************)
EXTENDS Webhooks, FiniteSetTheorems, TLAPS

(* A request works on an event of Azure DevOps unless it came to           *)
(* POST /review-jobs, and what it is about to write is there.              *)
Shape(h) ==
    /\ handler[h].event # NoEvent => event[handler[h].event] # "none"
    /\ handler[h].pc = "idle" => handler[h] = Idle
    /\ handler[h].pc \in {"claimed", "published", "created"} => handler[h].event # NoEvent
    /\ handler[h].pc = "creating" => handler[h].commit # NoCommit
    /\ handler[h].pc = "created" => job[handler[h].event] # NoCommit

TypeInv == TypeOK /\ \A h \in Handlers : Shape(h)

(* Nobody has seen a commit that was not pushed. *)
Reported ==
    /\ \A e \in Events : about[e] # NoCommit => about[e] <= head
    /\ row # NoCommit => row <= head
    /\ \A h \in Handlers :
         /\ handler[h].seen # NoCommit => handler[h].seen <= head
         /\ handler[h].commit # NoCommit => handler[h].commit <= head

(* The row follows the jobs; an event that reports a commit gets a job for *)
(* it or for a later one, since the commit is fetched after the event.     *)
Followed ==
    /\ row # NoCommit => row \in reviewed
    /\ \A h \in Handlers : handler[h].seen # NoCommit => handler[h].seen \in reviewed
    /\ \A h \in Handlers :
         /\ handler[h].pc = "creating" /\ handler[h].event # NoEvent
         /\ about[handler[h].event] # NoCommit
         => handler[h].commit >= about[handler[h].event]
    /\ \A e \in Events : job[e] # NoCommit =>
         /\ event[e] # "none"
         /\ job[e] \in reviewed
         /\ about[e] # NoCommit => job[e] >= about[e]

PushInv == Reported /\ Followed /\ NoPushMissed

(* A lease that has not ended under its holder has one. *)
OneHolder ==
    \A e \in Events \ overrun : \A h \in WorkingOn(e) :
        event[e] = "claimed" /\ WorkingOn(e) = {h}

(* While no job was created behind another's back, the row is the latest   *)
(* commit with a job, and a request is about to review a later one.        *)
Monotone ==
    ~crossed =>
        /\ \A c \in reviewed : row # NoCommit /\ c <= row
        /\ \A h \in Handlers :
             /\ handler[h].pc \in {"preparing", "creating"} /\ handler[h].event # NoEvent
                  /\ handler[h].seen # NoCommit => handler[h].seen < head
             /\ handler[h].pc = "creating" /\ handler[h].seen # NoCommit =>
                  /\ handler[h].seen <= handler[h].commit
                  /\ handler[h].event # NoEvent => handler[h].seen < handler[h].commit

Inv == TypeInv /\ PushInv /\ OneHolder /\ Monotone

----------------------------------------------------------------------------
(* The steps of one request, and those of the rest of the world. *)
Step(h) ==
    \/ \E e \in Events : Receive(h, e)
    \/ CreateManually(h)
    \/ Work(h)
    \/ Crash(h)

Elsewhere ==
    \/ \E s \in Switchable : Switch(s)
    \/ \E e \in Events : AnswerDuplicate(e) \/ LeaseExpires(e)

LEMMA NextCases ==
  Next <=> \/ \E e \in Events : Emit(e)
           \/ Elsewhere
           \/ \E h \in Handlers : Step(h)
  BY DEF Next, Step, Elsewhere

(* Records of requests. *)
AnyRequest == [pc : {"idle", "claimed", "published", "preparing", "creating", "created"},
               event : Events \cup {NoEvent}, on : SUBSET ReviewSettings,
               seen : Maybe, commit : Maybe]

LEMMA RequestFacts ==
  /\ Idle \in AnyRequest
  /\ {Idle} \cup Busy \subseteq AnyRequest
  /\ \A c \in AnyRequest : c.pc # "idle" => c \in Busy
  /\ NoEvent \notin Events
  /\ Events \subseteq Nat /\ Commits \subseteq Nat /\ NoCommit \notin Commits
  BY WebhooksAssumption DEF AnyRequest, Idle, Busy, Events, NoEvent, Commits, Maybe

(* What a step makes of the request that takes it, and where it goes on.   *)
LEMMA StepsOn ==
  ASSUME TypeInv, NEW h \in Handlers, Step(h)
  PROVE  /\ \A k \in Handlers \ {h} : handler'[k] = handler[k]
         /\ handler'[h] \in {Idle} \cup Busy
         /\ DOMAIN handler' = Handlers /\ handler' \in [Handlers -> AnyRequest]
         /\ \/ handler'[h] = Idle /\ ~\E e \in Events : Receive(h, e)
            \/ \E e \in Events :
                 /\ Receive(h, e) /\ handler'[h].pc = "claimed" /\ handler'[h].event = e
                 /\ handler'[h].seen = NoCommit /\ handler'[h].commit = NoCommit
            \/ /\ CreateManually(h) /\ handler'[h].pc = "preparing"
               /\ handler'[h].event = NoEvent
               /\ handler'[h].seen = row /\ handler'[h].commit = NoCommit
            \/ /\ PublishDiscord(h) /\ handler'[h].pc = "published"
               /\ handler'[h].event = handler[h].event
               /\ handler'[h].seen \in {row, NoCommit}
               /\ handler'[h].commit = handler[h].commit
            \/ /\ BeginCreate(h) /\ handler'[h].pc = "preparing"
               /\ handler'[h].event = handler[h].event
               /\ handler'[h].seen = handler[h].seen
               /\ handler'[h].commit = handler[h].commit
            \/ /\ FetchPullRequest(h) /\ handler'[h].pc = "creating"
               /\ handler'[h].event = handler[h].event
               /\ handler'[h].seen = handler[h].seen
               /\ handler'[h].commit = head
            \/ /\ CreateJob(h) /\ handler'[h].pc = "created"
               /\ handler[h].event # NoEvent
               /\ handler'[h].event = handler[h].event
               /\ handler'[h].seen = NoCommit /\ handler'[h].commit = NoCommit
<1>1. handler \in [Handlers -> AnyRequest] /\ row \in Maybe /\ head \in Maybe
  BY RequestFacts DEF TypeInv, TypeOK, Maybe
<1>2. /\ Idle \in AnyRequest /\ Idle.pc = "idle" /\ Idle.event = NoEvent
      /\ Idle.seen = NoCommit /\ Idle.commit = NoCommit
  BY RequestFacts DEF Idle
<1>3. \A c \in AnyRequest : c.pc # "idle" => c \in Busy
  BY RequestFacts
<1>4. CASE \E e \in Events : Receive(h, e)
  <2>1. PICK e \in Events : Receive(h, e)
    BY <1>4
  <2> DEFINE c == [Idle EXCEPT !.pc = "claimed", !.event = e, !.on = on \cap ReviewSettings]
  <2>2. /\ c \in AnyRequest /\ c.pc = "claimed" /\ c.event = e
        /\ c.seen = NoCommit /\ c.commit = NoCommit
    BY <1>2 DEF AnyRequest
  <2> QED
    BY <1>1, <1>3, <2>1, <2>2 DEF Receive
<1>5. CASE CreateManually(h)
  <2> DEFINE c == [Idle EXCEPT !.pc = "preparing", !.seen = row, !.on = on \cap {"targetBranch"}]
  <2>1. /\ c \in AnyRequest /\ c.pc = "preparing" /\ c.event = NoEvent
        /\ c.seen = row /\ c.commit = NoCommit
    BY <1>1, <1>2 DEF AnyRequest, ReviewSettings
  <2> QED
    BY <1>1, <1>3, <1>5, <2>1 DEF CreateManually
<1>6. CASE PublishDiscord(h)
  <2>1. handler'[h] = [handler[h] EXCEPT !.pc = "published",
                         !.seen = IF ShouldReview(h) THEN row ELSE NoCommit]
    BY <1>1, <1>6 DEF PublishDiscord
  <2>2. handler'[h] \in AnyRequest
    BY <1>1, <2>1 DEF AnyRequest, Maybe
  <2> QED
    BY <1>1, <1>3, <1>6, <2>1, <2>2 DEF PublishDiscord, AnyRequest
<1>7. CASE BeginCreate(h)
  <2>1. handler'[h] = [handler[h] EXCEPT !.pc = "preparing", !.on = on \cap {"targetBranch"}]
    BY <1>1, <1>7 DEF BeginCreate
  <2>2. handler'[h] \in AnyRequest
    BY <1>1, <2>1 DEF AnyRequest, ReviewSettings
  <2> QED
    BY <1>1, <1>3, <1>7, <2>1, <2>2 DEF BeginCreate, AnyRequest
<1>8. CASE FetchPullRequest(h)
  <2>1. handler'[h] = [handler[h] EXCEPT !.pc = "creating", !.commit = head]
    BY <1>1, <1>8 DEF FetchPullRequest
  <2>2. handler'[h] \in AnyRequest
    BY <1>1, <2>1 DEF AnyRequest
  <2> QED
    BY <1>1, <1>3, <1>8, <2>1, <2>2 DEF FetchPullRequest, AnyRequest
<1>9. CASE CreateJob(h)
  <2> DEFINE e == handler[h].event
             c == [Idle EXCEPT !.pc = "created", !.event = e]
  <2>1. e \in Events \cup {NoEvent}
    BY <1>1 DEF AnyRequest
  <2>2. /\ c \in AnyRequest /\ c.pc = "created" /\ c.event = e
        /\ c.seen = NoCommit /\ c.commit = NoCommit
    BY <1>2, <2>1 DEF AnyRequest
  <2>3. \/ handler' = [handler EXCEPT ![h] = Idle]
        \/ e # NoEvent /\ handler' = [handler EXCEPT ![h] = c]
    BY <1>9 DEF CreateJob
  <2>4. ~\E d \in Events : Receive(h, d)
    BY <1>2, <1>9 DEF CreateJob, Receive
  <2> QED
    BY <1>1, <1>2, <1>3, <1>9, <2>2, <2>3, <2>4
<1>10. CASE Ignore(h) \/ NothingToDo(h) \/ LinkJob(h) \/ Fails(h) \/ Crash(h)
  <2>1. handler[h] # Idle /\ handler' = [handler EXCEPT ![h] = Idle]
    BY <1>2, <1>10 DEF Ignore, NothingToDo, ComparesCommits, LinkJob, Process, Fails, Fail, Crash
  <2> QED
    BY <1>1, <1>2, <2>1 DEF Receive
<1> QED
  BY <1>4, <1>5, <1>6, <1>7, <1>8, <1>9, <1>10 DEF Step, Work

----------------------------------------------------------------------------
(* Types and shapes *)

LEMMA TypeInit == Init => TypeInv
<1> SUFFICES ASSUME Init PROVE TypeInv
  OBVIOUS
<1>1. TypeOK
  <2>1. 0 \in Commits /\ 0 \in 0..MaxManual /\ 0 \in 0..MaxFaults
    BY WebhooksAssumption DEF Commits
  <2> QED
    BY <2>1 DEF Init, TypeOK, Maybe
<1>2. \A h \in Handlers : Shape(h)
  BY DEF Init, Shape, Idle
<1> QED
  BY <1>1, <1>2 DEF TypeInv

(* The events of a request: taken, ended, or given back. *)
LEMMA EventSteps ==
  ASSUME TypeInv, NEW h \in Handlers, Step(h)
  PROVE  /\ event' \in [Events -> {"none", "waiting", "claimed", "expired", "processed"}]
         /\ \A e \in Events :
              /\ event[e] # "none" => event'[e] # "none"
              /\ event'[e] # event[e] =>
                   \/ Receive(h, e)
                   \/ handler[h].event = e /\ handler'[h] = Idle
         /\ due' \subseteq Events /\ posted' \subseteq Events
         /\ deferred' \cup overrun' \cup skipped' \subseteq Events
         /\ overrun' = overrun
         /\ UNCHANGED <<azureVars, on>>
         /\ manual' \in 0..MaxManual /\ faults' \in 0..MaxFaults
<1> USE WebhooksAssumption DEF TypeInv, TypeOK, azureVars, reviewVars, historyVars
<1>1. handler[h] \in AnyRequest /\ handler[h].event \in Events \cup {NoEvent}
  BY RequestFacts DEF AnyRequest
<1>3. ASSUME Process(h)
      PROVE  /\ due' \subseteq Events /\ faults' \in 0..MaxFaults /\ deferred' \subseteq Events
             /\ event' = [event EXCEPT ![handler[h].event] = "processed"]
             /\ handler'[h] = Idle
  BY <1>3 DEF Process, Answer, Fault
<1>4. CASE \E e \in Events : Receive(h, e)
  <2>1. PICK e \in Events : Receive(h, e)
    BY <1>4
  <2>2. event' = [event EXCEPT ![e] = "claimed"]
    BY <2>1 DEF Receive
  <2> QED
    BY <2>1, <2>2 DEF Receive
<1>5. CASE CreateManually(h) \/ PublishDiscord(h) \/ BeginCreate(h) \/ FetchPullRequest(h) \/ CreateJob(h)
  <2>1. CASE CreateManually(h)
    BY <2>1 DEF CreateManually, Manual
  <2>2. CASE PublishDiscord(h)
    <3>1. handler[h].pc = "claimed" /\ handler[h].event \in Events
      BY <1>1, <2>2 DEF PublishDiscord, Shape
    <3> QED
      BY <2>2, <3>1 DEF PublishDiscord
  <2>3. CASE BeginCreate(h) \/ FetchPullRequest(h) \/ CreateJob(h)
    BY <2>3 DEF BeginCreate, FetchPullRequest, CreateJob
  <2> QED
    BY <1>5, <2>1, <2>2, <2>3
<1>6. CASE Ignore(h) \/ NothingToDo(h) \/ LinkJob(h)
  <2>1. Process(h) /\ handler[h].event \in Events
    BY <1>1, <1>6 DEF Ignore, NothingToDo, ComparesCommits, LinkJob, Shape
  <2>2. overrun' = overrun /\ skipped' \in {skipped, skipped \cup {handler[h].event}}
        /\ UNCHANGED <<azureVars, on, posted, manual>>
    BY <1>6 DEF Ignore, NothingToDo, LinkJob
  <2> QED
    BY <1>3, <2>1, <2>2
<1>7. CASE Fails(h)
  <2>1. Fail(h) /\ faults' \in 0..MaxFaults
    BY <1>7 DEF Fails, Fault
  <2>2. handler'[h] = Idle
    BY <2>1 DEF Fail
  <2>3. posted' \subseteq Events
    BY <1>1, <2>1 DEF Fail, Shape
  <2> QED
    BY <1>1, <2>1, <2>2, <2>3 DEF Fail
<1>8. CASE Crash(h)
  BY <1>8 DEF Crash, Fault
<1> QED
  BY <1>4, <1>5, <1>6, <1>7, <1>8 DEF Step, Work

(* Only the transaction of create writes rows, jobs and what it reviewed.  *)
LEMMA ReviewSteps ==
  ASSUME TypeInv, NEW h \in Handlers, Step(h)
  PROVE  \/ UNCHANGED reviewVars /\ ~CreateJob(h)
         \/ LET e == handler[h].event
                c == handler[h].commit
            IN  /\ CreateJob(h) /\ handler[h].pc = "creating" /\ c \in Commits
                /\ row' = c /\ reviewed' = reviewed \cup {c}
                /\ crossed' = (crossed \/ row # handler[h].seen)
                /\ event' = event
                /\ \/ e = NoEvent /\ job' = job /\ handler'[h] = Idle
                   \/ /\ e \in Events /\ job[e] = NoCommit
                      /\ job' = [job EXCEPT ![e] = c]
                      /\ handler'[h].pc = "created"
<1>1. handler \in [Handlers -> AnyRequest]
  BY RequestFacts DEF TypeInv, TypeOK
<1>2. CASE CreateJob(h)
  <2>1. /\ handler[h].event \in Events \cup {NoEvent}
        /\ handler[h].commit \in Commits
    BY <1>1, <1>2 DEF CreateJob, AnyRequest, Maybe, TypeInv, Shape
  <2>2. /\ handler[h].pc = "creating" /\ event' = event
        /\ row' = handler[h].commit /\ reviewed' = reviewed \cup {handler[h].commit}
        /\ crossed' = (crossed \/ row # handler[h].seen)
    BY <1>2 DEF CreateJob, CommitFetched
  <2>3. CASE handler[h].event = NoEvent
    BY <1>1, <1>2, <2>1, <2>2, <2>3 DEF CreateJob
  <2>4. CASE handler[h].event # NoEvent
    <3> DEFINE c == [Idle EXCEPT !.pc = "created", !.event = handler[h].event]
    <3>1. /\ handler' = [handler EXCEPT ![h] = c]
          /\ job[handler[h].event] = NoCommit
          /\ job' = [job EXCEPT ![handler[h].event] = handler[h].commit]
      BY <1>2, <2>4 DEF CreateJob, CommitFetched
    <3>2. c.pc = "created"
      BY DEF Idle
    <3> QED
      BY <1>1, <1>2, <2>1, <2>2, <2>4, <3>1, <3>2
  <2> QED
    BY <2>3, <2>4
<1>3. CASE \/ PublishDiscord(h) \/ Ignore(h) \/ NothingToDo(h) \/ BeginCreate(h)
           \/ FetchPullRequest(h) \/ LinkJob(h) \/ CreateManually(h)
  <2>1. handler[h].pc # "creating"
    BY <1>3 DEF PublishDiscord, Ignore, NothingToDo, BeginCreate, NeedsJob, ComparesCommits, FetchPullRequest,
                LinkJob, CreateManually, Idle
  <2> QED
    BY <1>3, <2>1 DEF PublishDiscord, Ignore, NothingToDo, BeginCreate, FetchPullRequest,
                      LinkJob, CreateManually, CreateJob
<1>4. CASE \/ Fails(h) \/ Crash(h) \/ \E e \in Events : Receive(h, e)
  <2>1. UNCHANGED reviewVars
    BY <1>4 DEF Fails, Fail, Crash, Receive
  <2> QED
    BY <1>2, <2>1
<1> QED
  BY <1>2, <1>3, <1>4 DEF Step, Work

LEMMA TypeNext == TypeInv /\ [Next]_vars => TypeInv'
<1> SUFFICES ASSUME TypeInv, [Next]_vars PROVE TypeInv'
  OBVIOUS
<1> USE WebhooksAssumption
<1>1. CASE UNCHANGED vars
  BY <1>1 DEF TypeInv, TypeOK, Shape, vars, azureVars, reviewVars, historyVars
<1>2. CASE Elsewhere
  <2>1. UNCHANGED <<azureVars, reviewVars, posted, handler>> /\ skipped' = skipped
    BY <1>2 DEF Elsewhere, Switch, AnswerDuplicate, LeaseExpires, historyVars
  <2>2. /\ event' \in [Events -> {"none", "waiting", "claimed", "expired", "processed"}]
        /\ \A e \in Events : event[e] # "none" => event'[e] # "none"
        /\ on' \subseteq Switches /\ due' \subseteq Events
        /\ deferred' \cup overrun' \subseteq Events
        /\ manual' \in 0..MaxManual /\ faults' \in 0..MaxFaults
    <3>1. CASE \E s \in Switchable : Switch(s)
      BY <3>1 DEF Switch, Manual, TypeInv, TypeOK, historyVars
    <3>2. CASE \E e \in Events : AnswerDuplicate(e)
      BY <3>2 DEF AnswerDuplicate, Answer, Fault, TypeInv, TypeOK
    <3>3. CASE \E e \in Events : LeaseExpires(e)
      BY <3>3 DEF LeaseExpires, TypeInv, TypeOK
    <3> QED
      BY <1>2, <3>1, <3>2, <3>3 DEF Elsewhere
  <2>3. TypeOK'
    BY <2>1, <2>2 DEF TypeInv, TypeOK, azureVars, reviewVars
  <2>4. ASSUME NEW h \in Handlers PROVE Shape(h)'
    <3>1. handler[h].event \in Events \cup {NoEvent} /\ Shape(h)
      BY RequestFacts DEF TypeInv, TypeOK, AnyRequest
    <3> QED
      BY <2>1, <2>2, <3>1 DEF Shape, reviewVars
  <2> QED
    BY <2>3, <2>4 DEF TypeInv
<1>3. CASE \E e \in Events : Emit(e)
  BY <1>3 DEF Emit, TypeInv, TypeOK, Shape, Commits, Maybe, azureVars, reviewVars, historyVars
<1>4. ASSUME NEW h \in Handlers, Step(h) PROVE TypeInv'
  <2>1. TypeOK'
    <3>1. /\ row' \in Maybe /\ job' \in [Events -> Maybe] /\ reviewed' \subseteq Commits
          /\ crossed' \in BOOLEAN
      <4>1. CASE UNCHANGED reviewVars
        BY <4>1 DEF TypeInv, TypeOK, reviewVars
      <4>2. CASE CreateJob(h)
        <5> DEFINE c == handler[h].commit
        <5>1. /\ c \in Commits /\ row' = c /\ reviewed' = reviewed \cup {c}
              /\ crossed' = (crossed \/ row # handler[h].seen)
              /\ job' = job \/ job' = [job EXCEPT ![handler[h].event] = c]
          BY <1>4, <4>2, ReviewSteps
        <5> QED
          BY <5>1 DEF TypeInv, TypeOK, Maybe
      <4> QED
        BY <1>4, <4>1, <4>2, ReviewSteps
    <3>2. handler' \in [Handlers -> {Idle} \cup Busy]
      BY <1>4, StepsOn DEF TypeInv, TypeOK
    <3> QED
      BY <1>4, <3>1, <3>2, EventSteps DEF TypeInv, TypeOK, azureVars
  <2>2. /\ \A e \in Events : event[e] # "none" => event'[e] # "none"
        /\ \A e \in Events : job[e] # NoCommit => job'[e] # NoCommit
    <3>1. \A e \in Events : job[e] # NoCommit => job'[e] # NoCommit
      BY <1>4, ReviewSteps, RequestFacts DEF TypeInv, TypeOK, reviewVars
    <3> QED
      BY <1>4, <3>1, EventSteps
  <2>3. ASSUME NEW k \in Handlers \ {h} PROVE Shape(k)'
    <3>1. handler'[k] = handler[k] /\ Shape(k)
      BY <1>4, StepsOn DEF TypeInv
    <3>2. handler[k].event \in Events \cup {NoEvent}
      BY RequestFacts DEF TypeInv, TypeOK, AnyRequest
    <3> QED
      BY <2>2, <3>1, <3>2 DEF Shape
  <2>4. Shape(h)'
    <3>1. handler[h].event \in Events \cup {NoEvent} /\ Shape(h) /\ head # NoCommit
      BY RequestFacts DEF TypeInv, TypeOK, AnyRequest
    <3>2. CASE handler'[h] = Idle
      BY <3>2 DEF Shape, Idle
    <3>3. CASE \E e \in Events : Receive(h, e)
      <4>1. PICK e \in Events : /\ Receive(h, e) /\ handler'[h].pc = "claimed"
                                /\ handler'[h].event = e
        <5>1. PICK e \in Events : Receive(h, e)
          BY <3>3
        <5>2. handler[h] = Idle /\ handler[h].pc = "idle"
          BY <5>1 DEF Receive, Idle
        <5>3. /\ ~CreateJob(h) /\ ~BeginCreate(h) /\ ~FetchPullRequest(h)
              /\ ~PublishDiscord(h)
          BY <5>2 DEF CreateJob, BeginCreate, NeedsJob, ComparesCommits, FetchPullRequest, PublishDiscord
        <5>4. ~CreateManually(h)
          BY <5>1, WebhooksAssumption DEF CreateManually, Manual, Receive, TypeInv, TypeOK
        <5> QED
          BY <1>4, <3>3, <5>3, <5>4, StepsOn
      <4>2. event'[e] = "claimed"
        BY <4>1 DEF Receive, TypeInv, TypeOK
      <4> QED
        BY <4>1, <4>2, RequestFacts DEF Shape
    <3>4. CASE \/ /\ CreateManually(h) /\ handler'[h].pc = "preparing"
                  /\ handler'[h].event = NoEvent
               \/ /\ FetchPullRequest(h) /\ handler'[h].pc = "creating"
                  /\ handler'[h].event = handler[h].event
                  /\ handler'[h].commit = head
      BY <2>2, <3>1, <3>4 DEF Shape
    <3>5. CASE \/ /\ PublishDiscord(h) /\ handler'[h].pc = "published"
                  /\ handler'[h].event = handler[h].event
               \/ /\ BeginCreate(h) /\ handler'[h].pc = "preparing"
                  /\ handler'[h].event = handler[h].event
      BY <2>2, <3>1, <3>5 DEF Shape, PublishDiscord
    <3>6. CASE /\ CreateJob(h) /\ handler'[h].pc = "created"
               /\ handler[h].event # NoEvent
               /\ handler'[h].event = handler[h].event
      <4>1. job'[handler[h].event] # NoCommit
        BY <1>4, <3>1, <3>6, ReviewSteps, RequestFacts DEF TypeInv, TypeOK
      <4> QED
        BY <2>2, <3>1, <3>6, <4>1 DEF Shape
    <3> QED
      BY <1>4, <3>2, <3>3, <3>4, <3>5, <3>6, StepsOn
  <2> QED
    BY <2>1, <2>3, <2>4 DEF TypeInv
<1> QED
  BY <1>1, <1>2, <1>3, <1>4, NextCases

----------------------------------------------------------------------------
(* NoPushMissed *)

LEMMA PushInit == Init => PushInv
  BY DEF Init, PushInv, Reported, Followed, NoPushMissed, Idle

(* The numbers among the values of a state. *)
LEMMA Numbers ==
  ASSUME TypeInv
  PROVE  /\ head \in Nat /\ NoCommit \notin Nat /\ NoEvent \notin Events
         /\ row # NoCommit => row \in Nat
         /\ reviewed \subseteq Nat
         /\ \A e \in Events : /\ about[e] # NoCommit => about[e] \in Nat
                              /\ job[e] # NoCommit => job[e] \in Nat
         /\ \A h \in Handlers :
              /\ handler[h].event \in Events \cup {NoEvent}
              /\ handler[h].seen # NoCommit => handler[h].seen \in Nat
              /\ handler[h].commit # NoCommit => handler[h].commit \in Nat
<1>1. \A c \in Maybe : c # NoCommit => c \in Nat
  BY RequestFacts DEF Maybe
<1>2. handler \in [Handlers -> AnyRequest]
  BY RequestFacts DEF TypeInv, TypeOK
<1> QED
  BY <1>1, <1>2, RequestFacts, WebhooksAssumption DEF TypeInv, TypeOK, AnyRequest

(* A request saw a commit in the row and fetched the pull request's. *)
LEMMA SeenOfStep ==
  ASSUME TypeInv, NEW h \in Handlers, Step(h)
  PROVE  /\ handler'[h].seen \in {NoCommit, row, handler[h].seen}
         /\ handler'[h].commit \in {NoCommit, head, handler[h].commit}
  BY StepsOn DEF Idle

LEMMA ReportedNext == TypeInv /\ Reported /\ [Next]_vars => Reported'
<1> SUFFICES ASSUME TypeInv, Reported, [Next]_vars PROVE Reported'
  OBVIOUS
<1>1. CASE UNCHANGED vars \/ Elsewhere
  <2>1. UNCHANGED <<azureVars, row, handler>>
    BY <1>1 DEF vars, reviewVars, Elsewhere, Switch, AnswerDuplicate, LeaseExpires
  <2> QED
    BY <2>1 DEF Reported, azureVars
<1>2. CASE \E e \in Events : Emit(e)
  <2>1. PICK e \in Events : Emit(e)
    BY <1>2
  <2>2. /\ head' \in Nat /\ head' >= head
        /\ \A f \in Events \ {e} : about'[f] = about[f]
        /\ about'[e] \in {head', about[e]}
        /\ UNCHANGED <<row, handler>>
    BY <2>1, Numbers DEF Emit, TypeInv, TypeOK, reviewVars
  <2>3. \A c \in Nat : c <= head => c <= head'
    BY <2>2, Numbers
  <2> QED
    BY <2>2, <2>3, Numbers DEF Reported
<1>3. ASSUME NEW h \in Handlers, Step(h) PROVE Reported'
  <2>1. UNCHANGED azureVars /\ \A k \in Handlers \ {h} : handler'[k] = handler[k]
    BY <1>3, EventSteps, StepsOn
  <2>2. row' # NoCommit => row' <= head
    BY <1>3, ReviewSteps, RequestFacts DEF Reported, reviewVars
  <2> QED
    BY <1>3, <2>1, <2>2, SeenOfStep, Numbers DEF Reported, azureVars
<1> QED
  BY <1>1, <1>2, <1>3, NextCases

LEMMA FollowedNext == TypeInv /\ Reported /\ Followed /\ [Next]_vars => Followed'
<1> SUFFICES ASSUME TypeInv, Reported, Followed, [Next]_vars PROVE Followed'
  OBVIOUS
<1>1. CASE UNCHANGED vars \/ Elsewhere
  <2>1. UNCHANGED <<azureVars, reviewVars, handler>>
    BY <1>1 DEF vars, Elsewhere, Switch, AnswerDuplicate, LeaseExpires
  <2>2. \A e \in Events : event[e] # "none" => event'[e] # "none"
    BY <1>1 DEF vars, Elsewhere, Switch, AnswerDuplicate, LeaseExpires, TypeInv, TypeOK
  <2> QED
    BY <2>1, <2>2 DEF Followed, azureVars, reviewVars
<1>2. CASE \E e \in Events : Emit(e)
  <2>1. PICK e \in Events : Emit(e)
    BY <1>2
  <2>2. event[e] = "none"
    BY <2>1, RequestFacts DEF Emit
  <2>3. /\ \A f \in Events : event[f] # "none" => about'[f] = about[f]
        /\ UNCHANGED <<event, reviewVars, handler>>
    BY <2>1, <2>2 DEF Emit, TypeInv, TypeOK
  <2>4. \A h \in Handlers : handler[h].event # NoEvent =>
          handler[h].event \in Events /\ event[handler[h].event] # "none"
    BY Numbers DEF TypeInv, Shape
  <2> QED
    BY <2>3, <2>4 DEF Followed, reviewVars
<1>3. ASSUME NEW h \in Handlers, Step(h) PROVE Followed'
  <2>1. /\ UNCHANGED azureVars /\ \A k \in Handlers \ {h} : handler'[k] = handler[k]
        /\ \A e \in Events : event[e] # "none" => event'[e] # "none"
    BY <1>3, EventSteps, StepsOn
  <2>2. reviewed \subseteq reviewed' /\ (row' # NoCommit => row' \in reviewed')
    BY <1>3, ReviewSteps DEF Followed, reviewVars
  <2>3. handler'[h].seen # NoCommit => handler'[h].seen \in reviewed'
    BY <1>3, <2>2, SeenOfStep DEF Followed
  <2>4. handler'[h].pc = "creating" /\ handler'[h].event # NoEvent
          /\ about[handler'[h].event] # NoCommit
        => handler'[h].commit >= about[handler'[h].event]
    <3> SUFFICES ASSUME handler'[h].pc = "creating", handler'[h].event # NoEvent,
                        about[handler'[h].event] # NoCommit
                 PROVE  head >= about[handler'[h].event] /\ handler'[h].commit = head
      OBVIOUS
    <3>1. handler'[h].commit = head /\ handler'[h].event = handler[h].event
      BY <1>3, StepsOn DEF Idle
    <3> QED
      BY <3>1, Numbers DEF Reported
  <2>5. ASSUME NEW e \in Events, job'[e] # NoCommit
        PROVE  /\ event'[e] # "none" /\ job'[e] \in reviewed'
               /\ about[e] # NoCommit => job'[e] >= about[e]
    <3>1. CASE job'[e] = job[e]
      BY <2>1, <2>2, <2>5, <3>1 DEF Followed
    <3>2. CASE job'[e] # job[e]
      <4>1. /\ handler[h].event = e /\ handler[h].pc = "creating"
            /\ job'[e] = handler[h].commit /\ job'[e] \in reviewed'
        BY <1>3, <3>2, ReviewSteps DEF TypeInv, TypeOK, reviewVars
      <4>2. event[e] # "none" /\ e # NoEvent
        BY <4>1, Numbers DEF TypeInv, Shape
      <4> QED
        BY <2>1, <4>1, <4>2 DEF Followed
    <3> QED
      BY <3>1, <3>2
  <2> QED
    BY <2>1, <2>2, <2>3, <2>4, <2>5 DEF Followed, azureVars
<1> QED
  BY <1>1, <1>2, <1>3, NextCases

(* A request that ends its event without ignoring it leaves a job for the  *)
(* event's commit or a later one.                                          *)
LEMMA ProcessedIsReviewed ==
  ASSUME TypeInv, Reported, Followed, NEW h \in Handlers, NothingToDo(h) \/ LinkJob(h),
         about[handler[h].event] \notin {NoCommit, 0}
  PROVE  \E c \in reviewed : c >= about[handler[h].event]
<1> DEFINE e == handler[h].event
<1>1. e \in Events /\ about[e] \in Nat /\ about[e] <= head
  BY Numbers DEF NothingToDo, ComparesCommits, LinkJob, TypeInv, Shape, Reported
<1>2. job[e] # NoCommit => job[e] \in reviewed /\ job[e] >= about[e]
  BY <1>1 DEF Followed
<1>3. CASE LinkJob(h)
  BY <1>2, <1>3 DEF LinkJob, TypeInv, Shape
<1>4. CASE NothingToDo(h) /\ ~HasCodeChanges(h)
  <2>1. head = handler[h].seen /\ handler[h].seen # NoCommit
    BY <1>1, <1>4, Numbers DEF HasCodeChanges
  <2>2. head \in reviewed
    BY <2>1 DEF Followed
  <2> QED
    BY <1>1, <2>2, Numbers
<1>5. CASE NothingToDo(h) /\ HasCodeChanges(h)
  BY <1>2, <1>5 DEF NothingToDo
<1> QED
  BY <1>3, <1>4, <1>5

LEMMA NoPushMissedNext ==
  TypeInv /\ Reported /\ Followed /\ NoPushMissed /\ [Next]_vars => NoPushMissed'
<1> SUFFICES ASSUME TypeInv, Reported, Followed, NoPushMissed, [Next]_vars
             PROVE  NoPushMissed'
  OBVIOUS
<1>1. CASE UNCHANGED vars \/ Elsewhere
  <2>1. UNCHANGED <<azureVars, reviewVars, skipped>>
    BY <1>1 DEF vars, historyVars, Elsewhere, Switch, AnswerDuplicate, LeaseExpires
  <2>2. \A e \in Events : event'[e] = "processed" => event[e] = "processed"
    BY <1>1 DEF vars, Elsewhere, Switch, AnswerDuplicate, LeaseExpires, TypeInv, TypeOK
  <2> QED
    BY <2>1, <2>2 DEF NoPushMissed, azureVars, reviewVars
<1>2. CASE \E e \in Events : Emit(e)
  <2>1. PICK e \in Events : Emit(e)
    BY <1>2
  <2>2. event[e] = "none"
    BY <2>1, RequestFacts DEF Emit
  <2>3. /\ \A f \in Events \ {e} : about'[f] = about[f]
        /\ UNCHANGED <<event, reviewVars, skipped>>
    BY <2>1 DEF Emit, TypeInv, TypeOK, historyVars
  <2> QED
    BY <2>2, <2>3 DEF NoPushMissed, reviewVars
<1>3. ASSUME NEW h \in Handlers, Step(h) PROVE NoPushMissed'
  <2>1. UNCHANGED azureVars /\ reviewed \subseteq reviewed'
    BY <1>3, EventSteps, ReviewSteps DEF reviewVars
  <2>2. skipped \subseteq skipped'
    BY <1>3 DEF Step, Work, Receive, CreateManually, PublishDiscord, Ignore, NothingToDo,
                BeginCreate, FetchPullRequest, CreateJob, LinkJob, Fails, Fail, Crash, historyVars
  <2>3. ASSUME NEW e \in Events, event'[e] = "processed", event[e] # "processed",
               e \notin skipped', about[e] \notin {NoCommit, 0}
        PROVE  \E c \in reviewed : c >= about[e]
    <3>1. ~Receive(h, e) /\ handler[h].event = e
      <4>1. ~Receive(h, e)
        BY <2>3 DEF Receive, TypeInv, TypeOK
      <4> QED
        BY <1>3, <2>3, <4>1, EventSteps
    <3>2. ~Ignore(h)
      BY <2>3, <3>1 DEF Ignore
    <3>3. NothingToDo(h) \/ LinkJob(h)
      BY <1>3, <2>3, <3>2 DEF Step, Work, Receive, CreateManually, PublishDiscord,
             BeginCreate, FetchPullRequest, CreateJob, Fails, Fail, Crash, TypeInv, TypeOK
    <3> QED
      BY <2>3, <3>1, <3>3, ProcessedIsReviewed
  <2> QED
    BY <2>1, <2>2, <2>3 DEF NoPushMissed, azureVars
<1> QED
  BY <1>1, <1>2, <1>3, NextCases

----------------------------------------------------------------------------
(* OneAtWork *)

LEMMA OneHolderInit == Init => OneHolder
  BY DEF Init, OneHolder, WorkingOn, Idle, Events, NoEvent

LEMMA OneHolderNext == TypeInv /\ OneHolder /\ [Next]_vars => OneHolder'
<1> SUFFICES ASSUME TypeInv, OneHolder, [Next]_vars PROVE OneHolder'
  OBVIOUS
<1>1. CASE UNCHANGED vars \/ (\E e \in Events : Emit(e) \/ AnswerDuplicate(e))
             \/ (\E s \in Switchable : Switch(s))
  <2>1. UNCHANGED <<event, handler, overrun>>
    BY <1>1 DEF vars, historyVars, Emit, AnswerDuplicate, Switch
  <2> QED
    BY <2>1 DEF OneHolder, WorkingOn
<1>2. CASE \E e \in Events : LeaseExpires(e)
  <2>1. PICK e \in Events : LeaseExpires(e)
    BY <1>2
  <2>2. /\ \A f \in Events \ {e} : event'[f] = event[f]
        /\ UNCHANGED handler /\ overrun \subseteq overrun'
        /\ WorkingOn(e) # {} => e \in overrun'
    BY <2>1 DEF LeaseExpires, TypeInv, TypeOK
  <2> QED
    BY <2>2 DEF OneHolder, WorkingOn
<1>3. ASSUME NEW h \in Handlers, Step(h) PROVE OneHolder'
  <2>1. /\ overrun' = overrun /\ \A k \in Handlers \ {h} : handler'[k] = handler[k]
        /\ \A e \in Events : event'[e] # event[e] =>
             \/ Receive(h, e)
             \/ handler[h].event = e /\ handler'[h] = Idle
    BY <1>3, EventSteps, StepsOn
  <2>2. SUFFICES ASSUME NEW e \in Events \ overrun, NEW k \in WorkingOn(e)'
                 PROVE  event'[e] = "claimed" /\ WorkingOn(e)' = {k}
    BY <2>1 DEF OneHolder
  <2>3. NoEvent \notin Events
    BY RequestFacts
  <2>4. CASE Receive(h, e)
    <3>1. WorkingOn(e) = {} /\ event'[e] = "claimed"
      BY <2>4 DEF Receive, Claimable, OneHolder, TypeInv, TypeOK
    <3>2. WorkingOn(e)' \subseteq {h}
      BY <2>1, <3>1 DEF WorkingOn
    <3> QED
      BY <3>1, <3>2
  <2>5. CASE ~Receive(h, e)
    <3>1. handler'[h].event = e => handler[h].event = e
      <4>1. \A d \in Events : Receive(h, d) => handler'[h].event = d
        BY DEF Receive, TypeInv, TypeOK, Idle
      <4> QED
        BY <1>3, <2>3, <2>5, <4>1, StepsOn DEF Idle
    <3>2. WorkingOn(e)' \subseteq WorkingOn(e)
      BY <2>1, <3>1 DEF WorkingOn
    <3>3. event[e] = "claimed" /\ WorkingOn(e) = {k}
      BY <2>2, <3>2 DEF OneHolder
    <3>4. event'[e] = event[e]
      <4>1. handler[h].event = e => h = k
        BY <3>3 DEF WorkingOn
      <4>2. handler'[h] # Idle \/ handler[h].event # e
        BY <2>2, <2>3, <4>1 DEF WorkingOn, Idle
      <4> QED
        BY <2>1, <2>5, <4>2
    <3> QED
      BY <2>2, <3>2, <3>3, <3>4
  <2> QED
    BY <2>4, <2>5
<1> QED
  BY <1>1, <1>2, <1>3, NextCases DEF Elsewhere

----------------------------------------------------------------------------
(* OneReviewPerCommit *)

LEMMA MonotoneInit == Init => Monotone
  BY DEF Init, Monotone, Idle

LEMMA MonotoneNext == TypeInv /\ Reported /\ Monotone /\ [Next]_vars => Monotone'
<1> SUFFICES ASSUME TypeInv, Reported, Monotone, [Next]_vars, ~crossed' PROVE Monotone'
  BY DEF Monotone
<1>1. CASE UNCHANGED vars \/ Elsewhere
  <2>1. UNCHANGED <<azureVars, reviewVars, handler>>
    BY <1>1 DEF vars, Elsewhere, Switch, AnswerDuplicate, LeaseExpires
  <2> QED
    BY <2>1 DEF Monotone, azureVars, reviewVars
<1>2. CASE \E e \in Events : Emit(e)
  <2>1. /\ head' \in Nat /\ head' >= head
        /\ UNCHANGED <<reviewVars, handler>>
    BY <1>2, Numbers DEF Emit, TypeInv, TypeOK
  <2>2. \A c \in Nat : c < head => c < head'
    BY <2>1, Numbers
  <2> QED
    BY <2>1, <2>2, Numbers DEF Monotone, reviewVars
<1>3. ASSUME NEW h \in Handlers, Step(h) PROVE Monotone'
  <2>1. UNCHANGED azureVars /\ \A k \in Handlers \ {h} : handler'[k] = handler[k]
    BY <1>3, EventSteps, StepsOn
  <2>2. ~crossed
    BY <1>3, ReviewSteps DEF reviewVars
  <2>3. \A c \in reviewed' : row' # NoCommit /\ c <= row'
    <3>1. CASE UNCHANGED reviewVars
      BY <2>2, <3>1 DEF Monotone, reviewVars
    <3>2. CASE CreateJob(h)
      <4> DEFINE c == handler[h].commit
      <4>1. /\ c \in Commits /\ row' = c /\ reviewed' = reviewed \cup {c}
            /\ row = handler[h].seen /\ handler[h].pc = "creating"
        BY <1>3, <3>2, ReviewSteps
      <4>2. row # NoCommit => row <= c
        BY <2>2, <4>1 DEF Monotone
      <4>3. c \in Nat /\ c # NoCommit
        BY <4>1, RequestFacts
      <4> QED
        BY <2>2, <4>1, <4>2, <4>3, Numbers DEF Monotone
    <3> QED
      BY <1>3, <3>1, <3>2, ReviewSteps
  <2>4. /\ handler'[h].pc \in {"preparing", "creating"} /\ handler'[h].event # NoEvent
             /\ handler'[h].seen # NoCommit => handler'[h].seen < head
        /\ handler'[h].pc = "creating" /\ handler'[h].seen # NoCommit =>
             /\ handler'[h].seen <= handler'[h].commit
             /\ handler'[h].event # NoEvent => handler'[h].seen < handler'[h].commit
    <3>1. CASE handler'[h].pc \notin {"preparing", "creating"}
      BY <3>1
    <3>2. CASE CreateManually(h) /\ handler'[h].pc = "preparing" /\ handler'[h].event = NoEvent
      BY <3>2
    <3>3. CASE BeginCreate(h) /\ handler'[h].pc = "preparing"
               /\ handler'[h].seen = handler[h].seen
      <4>1. handler[h].seen # NoCommit => handler[h].seen # head /\ handler[h].seen <= head
        BY <3>3 DEF BeginCreate, NeedsJob, HasCodeChanges, Reported
      <4> QED
        BY <3>3, <4>1, Numbers
    <3>4. CASE FetchPullRequest(h) /\ handler'[h].pc = "creating"
               /\ handler'[h].event = handler[h].event
               /\ handler'[h].seen = handler[h].seen /\ handler'[h].commit = head
      <4>1. handler[h].seen # NoCommit => handler[h].seen <= head
        BY DEF Reported
      <4>2. handler[h].event # NoEvent /\ handler[h].seen # NoCommit => handler[h].seen < head
        BY <2>2, <3>4 DEF FetchPullRequest, Monotone
      <4> QED
        BY <3>4, <4>1, <4>2
    <3> QED
      BY <1>3, <3>1, <3>2, <3>3, <3>4, StepsOn DEF Idle
  <2> QED
    BY <2>1, <2>2, <2>3, <2>4 DEF Monotone, azureVars
<1> QED
  BY <1>1, <1>2, <1>3, NextCases

----------------------------------------------------------------------------
(* The inductive invariant: shapes, commits that were reported, jobs that  *)
(* follow them, one holder of a lease, and a row that only moves on.       *)
THEOREM WebhooksInvariant == Spec => []Inv
<1>1. Init => Inv
  BY TypeInit, PushInit, OneHolderInit, MonotoneInit DEF Inv
<1>2. Inv /\ [Next]_vars => Inv'
  BY TypeNext, ReportedNext, FollowedNext, NoPushMissedNext, OneHolderNext, MonotoneNext
  DEF Inv, PushInv
<1> QED
  BY <1>1, <1>2, PTL DEF Spec

(* The rows and the requests keep their types: a job is created for a      *)
(* commit that was fetched.                                                *)
THEOREM WebhooksTypes == Spec => []TypeOK
<1>1. Inv => TypeOK
  BY DEF Inv, TypeInv
<1> QED
  BY <1>1, WebhooksInvariant, PTL

(* WebhooksService.azureDevOps: an event that is processed left a job for  *)
(* its commit or a later one, unless its settings had it ignored.          *)
THEOREM PushesAreReviewed == Spec => []NoPushMissed
<1>1. Inv => NoPushMissed
  BY DEF Inv, PushInv
<1> QED
  BY <1>1, WebhooksInvariant, PTL

(* The lease on webhook_events keeps deliveries of one event apart until   *)
(* it ends under one at work.                                              *)
THEOREM LeaseIsExclusive == Spec => []OneAtWork
<1>1. Inv => OneAtWork
  <2> SUFFICES ASSUME Inv, NEW e \in Events \ overrun
               PROVE  Cardinality(WorkingOn(e)) <= 1
    BY DEF OneAtWork
  <2>1. CASE WorkingOn(e) = {}
    BY <2>1, FS_EmptySet
  <2>2. CASE WorkingOn(e) # {}
    <3>1. PICK h \in WorkingOn(e) : WorkingOn(e) = {h}
      BY <2>2 DEF Inv, OneHolder
    <3>2. Cardinality({h}) = 1
      BY FS_Singleton
    <3> QED
      BY <3>1, <3>2
  <2> QED
    BY <2>1, <2>2
<1> QED
  BY <1>1, WebhooksInvariant, PTL

(* hasCodeChanges against the pull request row, and create's fetch after   *)
(* it: an event creates a job for a commit that has none, unless a job was *)
(* created meanwhile.                                                      *)
THEOREM ReviewsFollowCommits == Spec => OneReviewPerCommit
<1>1. ASSUME Inv, [Next]_vars, NEW e \in Events, job'[e] # job[e], ~crossed'
      PROVE  job'[e] \notin reviewed
  <2>1. TypeInv /\ Reported /\ Monotone
    BY <1>1 DEF Inv, PushInv
  <2>2. PICK h \in Handlers : Step(h)
    BY <1>1, NextCases DEF Elsewhere, Emit, Switch, AnswerDuplicate, LeaseExpires,
       reviewVars, vars
  <2>3. /\ handler[h].event = e /\ handler[h].pc = "creating"
        /\ job'[e] = handler[h].commit /\ handler[h].commit \in Commits
        /\ ~crossed /\ row = handler[h].seen
    BY <1>1, <2>1, <2>2, ReviewSteps DEF reviewVars, TypeInv, TypeOK
  <2>4. handler[h].seen # NoCommit => handler[h].seen < handler[h].commit
    BY <2>1, <2>3, RequestFacts DEF Monotone
  <2>5. ASSUME handler[h].commit \in reviewed PROVE FALSE
    <3>1. row # NoCommit /\ handler[h].commit <= row
      BY <2>1, <2>3, <2>5 DEF Monotone
    <3> QED
      BY <2>1, <2>3, <2>4, <3>1, Numbers, RequestFacts
  <2> QED
    BY <2>3, <2>5
<1>2. Inv /\ [Next]_vars =>
        [\A e \in Events : job'[e] # job[e] => job'[e] \notin reviewed \/ crossed']_vars
  BY <1>1
<1> QED
  BY <1>2, WebhooksInvariant, PTL DEF Spec, OneReviewPerCommit
=============================================================================
