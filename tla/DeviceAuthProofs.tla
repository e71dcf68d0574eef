---------------------------- MODULE DeviceAuthProofs ----------------------------
(***************************************************************************)
(* Theorems about DeviceAuth, for any number of calls of start.            *)
(***************************************************************************)
EXTENDS DeviceAuth, FiniteSetTheorems, TLAPS

(* A session is made once, by Register: before, and if start was rejected, *)
(* nothing of it exists but the directory.                                 *)
BirthInv(s) ==
    /\ startPc[s] # "done" => state[s] = "none"
    /\ state[s] = "none" =>
        /\ s \notin known \cup ending \cup removing \cup sweeping
        /\ s \notin timer \cup evicting \cup stored
        /\ active # s /\ completing[s] = "no" /\ child[s] = "none"
        /\ s \in dir => startPc[s] \in {"made", "done"}
        /\ s \notin unanswered

(* cancel, fail and complete on one session: what each has done so far, and*)
(* how far the login is stored while complete is at work.                  *)
WorkInv(s) ==
    /\ s \in removing \cup evicting => state[s] \in Terminal
    /\ completing[s] # "no" => /\ s \in ending /\ child[s] = "closed"
                               /\ state[s] # "completed"
    /\ completing[s] = "invalid" => state[s] = "failed"
    /\ completing[s] \in {"reading", "storing"} => s \notin stored
    /\ completing[s] = "invalid" /\ s \in stored => s \in unanswered
    /\ completing[s] \in {"committed", "saved"} => s \in stored
    /\ completing[s] = "no" =>
        /\ state[s] = "completed" => s \in stored
        /\ s \in stored => state[s] = "completed" \/ s \in unanswered
    /\ s \in unanswered => state[s] = "failed" /\ completing[s] \in {"no", "invalid"}

(* What an ended session has left. *)
CleanInv(s) ==
    /\ state[s] \in Terminal => child[s] # "running" /\ s \notin timer
    /\ completing[s] \in {"saved", "invalid"} => s \notin timer
    /\ Settled(s) \/ s \in evicting => s \notin dir \/ s \in unremoved
    /\ s \in evicting => active # s

(* Nothing runs that the map does not know, up to onModuleDestroy; then the*)
(* sweep has killed it or has yet to remove its directory.                 *)
ShutdownInv(s) ==
    /\ process = "up" /\ state[s] # "none" /\ s \notin known =>
        child[s] # "running" /\ (s \in dir => s \in unremoved)
    /\ process # "up" /\ s \notin late =>
        /\ startPc[s] = "done" /\ child[s] # "running"
        /\ s \in dir => \/ s \in unremoved \/ Rejected(s)
                        \/ process = "destroying" /\ s \in sweeping

SessionInv(s) == BirthInv(s) /\ WorkInv(s) /\ CleanInv(s) /\ ShutdownInv(s)

(* While calls of start do not overlap, the one live session has the       *)
(* organization's entry, and there is none while a call is on its way.     *)
AloneInv ==
    process = "up" /\ ~overlapped =>
        /\ \A s \in Sessions : state[s] \in Live => active = s
        /\ \A s \in Sessions : OnItsWay(s) =>
             \A t \in Sessions : state[t] \notin Live /\ (OnItsWay(t) => t = s)

Inv == TypeOK /\ EntryIsKnown /\ AloneInv /\ \A s \in Sessions : SessionInv(s)

----------------------------------------------------------------------------
(* The initial states, and types *)

LEMMA InvInit == Init => Inv
<1> SUFFICES ASSUME Init PROVE Inv
  OBVIOUS
<1>1. TypeOK
  BY DEF Init, TypeOK, Live, Terminal
<1>2. EntryIsKnown /\ AloneInv
  BY DEF Init, EntryIsKnown, AloneInv, OnItsWay, Live
<1>3. ASSUME NEW s \in Sessions PROVE SessionInv(s)
  BY DeviceAuthAssumption
  DEF Init, SessionInv, BirthInv, WorkInv, CleanInv, ShutdownInv, Settled, Rejected, Terminal
<1> QED
  BY <1>1, <1>2, <1>3 DEF Inv

(* The steps, one group for each part of the service. *)
StartStep(s) == StartFirst(s) \/ StartOver(s) \/ Cancelled(s) \/ MakeDirectory(s)
                \/ StartRejects(s) \/ Register(s)
EndStep(s)   == Cancel(s) \/ RemovalEnds(s) \/ Evict(s)
ChildStep(s) == ReadOutput(s) \/ ChildCloses(s) \/ TimeoutFires(s)
LoginStep(s) == ReadLogin(s) \/ StoreLogin(s) \/ LoginStored(s) \/ CompleteEnds(s)
Step(s)      == StartStep(s) \/ EndStep(s) \/ ChildStep(s) \/ LoginStep(s)
Shutdown     == Destroy \/ (\E s \in Sessions : SweepEnds(s)) \/ Destroyed \/ Exit

LEMMA NextCases == Next <=> (\E s \in Sessions : Step(s)) \/ Shutdown
  BY DEF Next, Start, Proceed, Step, StartStep, EndStep, ChildStep, LoginStep, Shutdown

(* Terminate, for a session in the map of states. *)
LEMMA TerminateTypes ==
  ASSUME TypeOK, NEW s \in Sessions, NEW outcome \in {"cancelled", "failed"},
         Terminate(s, outcome)
  PROVE  /\ state' \in [Sessions -> {"none"} \cup Live \cup Terminal]
         /\ ending' \subseteq Sessions /\ removing' \subseteq Sessions
         /\ child' \in [Sessions -> {"none", "running", "killed", "closed"}]
         /\ timer' \subseteq Sessions /\ evicting' \subseteq Sessions
<1>1. /\ ending' = ending \cup {s} /\ removing' = removing \cup {s}
      /\ timer' = timer \ {s} /\ evicting' = evicting \ {s}
      /\ state' = [state EXCEPT ![s] = outcome]
      /\ child' = [t \in Sessions |->
                     IF t \in {s} /\ child[t] = "running" THEN "killed" ELSE child[t]]
  BY DEF Terminate, CleanupBegins
<1>2. outcome \in Terminal
  BY DEF Terminal
<1> QED
  BY <1>1, <1>2 DEF TypeOK

LEMMA TypeNext == TypeOK /\ EntryIsKnown /\ [Next]_vars => TypeOK'
<1> SUFFICES ASSUME TypeOK, EntryIsKnown, [Next]_vars PROVE TypeOK'
  OBVIOUS
<1>1. CASE UNCHANGED vars
  BY <1>1 DEF vars, mapVars, flagVars, startVars, osVars, timerVars, dirVars, loginVars, TypeOK
<1>2. ASSUME NEW s \in Sessions, StartStep(s) PROVE TypeOK'
  <2>1. CASE StartFirst(s)
    BY <2>1 DEF StartFirst, mapVars, flagVars, osVars, timerVars, dirVars, loginVars, TypeOK
  <2>2. CASE StartOver(s)
    <3>1. active \in Sessions
      BY <2>2 DEF StartOver, dirVars, loginVars, TypeOK
    <3>2. Terminate(active, "cancelled")
      BY <2>2 DEF StartOver
    <3>3. /\ state' \in [Sessions -> {"none"} \cup Live \cup Terminal]
          /\ ending' \subseteq Sessions /\ removing' \subseteq Sessions
          /\ child' \in [Sessions -> {"none", "running", "killed", "closed"}]
          /\ timer' \subseteq Sessions /\ evicting' \subseteq Sessions
      BY <3>1, <3>2, TerminateTypes
    <3>4. /\ startPc' \in [Sessions -> {"idle", "cancelling", "making", "made", "done"}]
          /\ cancels' \in [Sessions -> Sessions \cup {None}] /\ overlapped' \in BOOLEAN
      BY <2>2, <3>1 DEF StartOver, dirVars, loginVars, TypeOK
    <3>5. UNCHANGED <<process, late, mapVars, completing, sweeping, dirVars, loginVars>>
      BY <2>2 DEF StartOver
    <3> QED
      BY <3>3, <3>4, <3>5 DEF mapVars, dirVars, loginVars, TypeOK
  <2>3. CASE Cancelled(s)
    BY <2>3 DEF Cancelled, mapVars, flagVars, osVars, timerVars, dirVars, loginVars, TypeOK
  <2>4. CASE MakeDirectory(s)
    BY <2>4 DEF MakeDirectory, mapVars, flagVars, timerVars, dirVars, loginVars, TypeOK
  <2>5. CASE StartRejects(s)
    BY <2>5 DEF StartRejects, mapVars, flagVars, osVars, timerVars, dirVars, loginVars, TypeOK
  <2>6. CASE Register(s)
    BY <2>6 DEF Register, dirVars, loginVars, TypeOK, Live
  <2> QED
    BY <1>2, <2>1, <2>2, <2>3, <2>4, <2>5, <2>6 DEF StartStep
<1>3. ASSUME NEW s \in Sessions, EndStep(s) PROVE TypeOK'
  <2>1. CASE Cancel(s)
    <3>1. Terminate(s, "cancelled")
      BY <2>1 DEF Cancel
    <3>2. UNCHANGED <<process, late, mapVars, startVars, completing, sweeping, dirVars, loginVars>>
      BY <2>1 DEF Cancel
    <3> QED
      BY <3>1, <3>2, TerminateTypes DEF mapVars, startVars, dirVars, loginVars, TypeOK
  <2>2. CASE RemovalEnds(s)
    BY <2>2 DEF RemovalEnds, CleanupEnds, DropEntry, flagVars, startVars, dirVars, loginVars,
        TypeOK
  <2>3. CASE Evict(s)
    BY <2>3 DEF Evict, flagVars, startVars, osVars, dirVars, loginVars, TypeOK
  <2> QED
    BY <1>3, <2>1, <2>2, <2>3 DEF EndStep
<1>4. ASSUME NEW s \in Sessions, ChildStep(s) PROVE TypeOK'
  <2>1. CASE ReadOutput(s)
    <3>1. UNCHANGED <<process, late, mapVars, startVars, completing, sweeping, dirVars, loginVars>>
      BY <2>1 DEF ReadOutput
    <3>2. CASE Terminate(s, "failed")
      BY <3>1, <3>2, TerminateTypes DEF mapVars, startVars, dirVars, loginVars, TypeOK
    <3>3. CASE /\ state' = [state EXCEPT ![s] = "awaiting_authorization"]
               /\ UNCHANGED <<ending, removing, child, timerVars>>
      BY <3>1, <3>3 DEF mapVars, startVars, timerVars, dirVars, loginVars, TypeOK, Live
    <3> QED
      BY <2>1, <3>2, <3>3 DEF ReadOutput
  <2>2. CASE ChildCloses(s)
    BY <2>2 DEF ChildCloses, flagVars, mapVars, startVars, timerVars, dirVars, loginVars,
        TypeOK, Terminal
  <2>3. CASE TimeoutFires(s)
    <3>1. UNCHANGED <<process, late, mapVars, startVars, completing, sweeping, dirVars, loginVars>>
      BY <2>3 DEF TimeoutFires
    <3>2. CASE Terminate(s, "failed")
      BY <3>1, <3>2, TerminateTypes DEF mapVars, startVars, dirVars, loginVars, TypeOK
    <3>3. CASE timer' = timer \ {s} /\ UNCHANGED <<flagVars, removing, child, evicting>>
      BY <3>1, <3>3 DEF mapVars, startVars, flagVars, dirVars, loginVars, TypeOK
    <3> QED
      BY <2>3, <3>2, <3>3 DEF TimeoutFires
  <2> QED
    BY <1>4, <2>1, <2>2, <2>3 DEF ChildStep
<1>5. ASSUME NEW s \in Sessions, LoginStep(s) PROVE TypeOK'
  <2>1. ASSUME RejectLogin(s)
        PROVE  /\ state' \in [Sessions -> {"none"} \cup Live \cup Terminal]
               /\ completing' \in [Sessions -> {"no", "reading", "storing", "committed", "saved",
                                                "invalid"}]
               /\ child' \in [Sessions -> {"none", "running", "killed", "closed"}]
               /\ timer' \subseteq Sessions /\ evicting' \subseteq Sessions
    BY <2>1 DEF RejectLogin, CleanupBegins, dirVars, loginVars, TypeOK, Terminal
  <2>2. CASE ReadLogin(s)
    BY <2>1, <2>2 DEF ReadLogin, mapVars, startVars, timerVars, dirVars, loginVars, TypeOK
  <2>3. CASE StoreLogin(s)
    BY <2>1, <2>3 DEF StoreLogin, mapVars, startVars, timerVars, dirVars, loginVars, TypeOK
  <2>4. CASE LoginStored(s)
    BY <2>4 DEF LoginStored, CleanupBegins, mapVars, flagVars, startVars, dirVars, loginVars,
        TypeOK
  <2>5. CASE CompleteEnds(s)
    <3>1. Outcome(s) \in {"none"} \cup Live \cup Terminal
      BY DEF Outcome, dirVars, loginVars, TypeOK, Terminal
    <3> QED
      BY <2>5, <3>1 DEF CompleteEnds, CleanupEnds, DropEntry, startVars, dirVars, loginVars,
          TypeOK
  <2> QED
    BY <1>5, <2>2, <2>3, <2>4, <2>5 DEF LoginStep
<1>6. CASE Shutdown
  <2>1. CASE Destroy
    BY <2>1 DEF Destroy, Swept, CleanupBegins, mapVars, flagVars, startVars, dirVars,
        loginVars, TypeOK
  <2>2. CASE \E s \in Sessions : SweepEnds(s)
    BY <2>2 DEF SweepEnds, CleanupEnds, DropEntry, flagVars, startVars, timerVars, dirVars,
        loginVars, TypeOK
  <2>3. CASE Destroyed \/ Exit
    BY <2>3 DEF Destroyed, Exit, flagVars, startVars, osVars, timerVars, dirVars, loginVars,
        TypeOK
  <2> QED
    BY <1>6, <2>1, <2>2, <2>3 DEF Shutdown
<1> QED
  BY <1>1, <1>2, <1>3, <1>4, <1>5, <1>6, NextCases DEF Step

----------------------------------------------------------------------------
(* One session *)

LEMMA StartKeepsSession ==
  ASSUME TypeOK, EntryIsKnown, \A u \in Sessions : SessionInv(u),
         NEW s \in Sessions, StartStep(s), NEW t \in Sessions
  PROVE  SessionInv(t)'
<1>1. SessionInv(t) /\ SessionInv(s)
  OBVIOUS
<1>2. CASE StartFirst(s) \/ Cancelled(s)
  BY <1>1, <1>2
  DEF StartFirst, Cancelled, TypeOK, SessionInv, BirthInv, WorkInv, CleanInv, ShutdownInv,
      Settled, Rejected, osVars, dirVars, loginVars,
      mapVars, flagVars, startVars, timerVars
<1>3. CASE StartOver(s)
  BY <1>1, <1>3
  DEF StartOver, Terminate, CleanupBegins, EntryIsKnown, TypeOK, SessionInv, BirthInv, WorkInv,
      CleanInv, ShutdownInv, Settled, Rejected, osVars, dirVars, loginVars, mapVars, Terminal
<1>4. CASE MakeDirectory(s)
  BY <1>1, <1>4
  DEF MakeDirectory, TypeOK, SessionInv, BirthInv, WorkInv, CleanInv, ShutdownInv, Settled,
      Rejected, osVars, dirVars, loginVars,
      mapVars, flagVars, timerVars, Terminal
<1>5. CASE StartRejects(s)
  BY <1>1, <1>5
  DEF StartRejects, TypeOK, SessionInv, BirthInv, WorkInv, CleanInv, ShutdownInv, Settled,
      Rejected,
      osVars, dirVars, loginVars, mapVars, flagVars, timerVars, Terminal
<1>6. CASE Register(s)
  BY <1>1, <1>6
  DEF Register, TypeOK, SessionInv, BirthInv, WorkInv, CleanInv, ShutdownInv, Settled,
      Rejected, osVars, dirVars, loginVars, Terminal
<1> QED
  BY <1>2, <1>3, <1>4, <1>5, <1>6 DEF StartStep

LEMMA EndKeepsSession ==
  ASSUME TypeOK, \A u \in Sessions : SessionInv(u),
         NEW s \in Sessions, EndStep(s), NEW t \in Sessions
  PROVE  SessionInv(t)'
<1>1. SessionInv(t) /\ SessionInv(s) /\ None # t
  BY DeviceAuthAssumption
<1>2. CASE Cancel(s)
  BY <1>1, <1>2
  DEF Cancel, Terminate, CleanupBegins, TypeOK, SessionInv, BirthInv, WorkInv, CleanInv,
      ShutdownInv, Settled, Rejected, osVars, dirVars, loginVars, mapVars, startVars, Terminal
<1>3. CASE RemovalEnds(s)
  BY <1>1, <1>3
  DEF RemovalEnds, CleanupEnds, DropEntry, TypeOK, SessionInv, BirthInv, WorkInv, CleanInv,
      ShutdownInv, Settled, Rejected, osVars, dirVars, loginVars, flagVars, startVars, Terminal
<1>4. CASE Evict(s)
  BY <1>1, <1>4
  DEF Evict, TypeOK, SessionInv, BirthInv, WorkInv, CleanInv, ShutdownInv, Settled, Rejected,
      osVars, dirVars, loginVars, flagVars,
      startVars, Terminal
<1> QED
  BY <1>2, <1>3, <1>4 DEF EndStep

LEMMA ChildKeepsSession ==
  ASSUME TypeOK, \A u \in Sessions : SessionInv(u),
         NEW s \in Sessions, ChildStep(s), NEW t \in Sessions
  PROVE  SessionInv(t)'
<1>1. SessionInv(t) /\ SessionInv(s)
  OBVIOUS
<1>2. CASE ReadOutput(s)
  BY <1>1, <1>2
  DEF ReadOutput, Terminalized, Terminate, CleanupBegins, TypeOK, SessionInv, BirthInv, WorkInv,
      CleanInv, ShutdownInv, Settled, Rejected, osVars, dirVars, loginVars, mapVars,
      startVars, timerVars, Terminal
<1>3. CASE ChildCloses(s)
  <2>1. UNCHANGED <<process, late, mapVars, startVars, sweeping, dirVars, loginVars>>
    BY <1>3 DEF ChildCloses
  <2>2. CASE /\ Terminalized(s)
             /\ child' = [child EXCEPT ![s] = "closed"]
             /\ UNCHANGED <<flagVars, removing, completing, timerVars>>
    <3>1. /\ UNCHANGED <<process, late, active, known, startPc, sweeping, dir, unremoved,
                         stored, unanswered, state, ending, removing, completing, timer,
                         evicting>>
          /\ child'[t] \in {child[t], "closed"} /\ (t # s => child'[t] = child[t])
      BY <2>1, <2>2 DEF mapVars, startVars, dirVars, loginVars, flagVars, timerVars, TypeOK
    <3>2. child[s] # "none"
      BY <1>3 DEF ChildCloses
    <3>3. state[t] = "none" => child'[t] = "none"
      BY <1>1, <3>1, <3>2 DEF SessionInv, BirthInv
    <3> QED
      BY <1>1, <3>1, <3>3
      DEF SessionInv, BirthInv, WorkInv, CleanInv, ShutdownInv, Settled, Rejected
  <2>3. CASE /\ ~Terminalized(s) /\ child[s] = "running"
             /\ child' = [child EXCEPT ![s] = "closed"]
             /\ ending' = ending \cup {s}
             /\ completing' = [completing EXCEPT ![s] = "reading"]
             /\ UNCHANGED <<state, removing, timerVars>>
    <3>1. UNCHANGED <<process, late, active, known, startPc, sweeping, dir, unremoved, stored,
                      unanswered, state, removing, timer, evicting>>
      BY <2>1, <2>3 DEF mapVars, startVars, dirVars, loginVars, timerVars
    <3>2. CASE t = s
      <4>1. /\ child[t] = "running" /\ child'[t] = "closed" /\ completing'[t] = "reading"
            /\ t \in ending' /\ state[t] \notin Terminal
        BY <2>3, <3>2 DEF TypeOK, Terminalized
      <4>2. /\ completing[t] = "no" /\ state[t] # "none"
            /\ t \notin stored \cup unanswered
        BY <1>1, <2>3, <3>2, <4>1 DEF SessionInv, BirthInv, WorkInv, Terminalized, Terminal
      <4>3. BirthInv(t)' /\ WorkInv(t)'
        BY <1>1, <2>3, <3>1, <3>2, <4>1, <4>2
        DEF SessionInv, BirthInv, WorkInv, Terminalized, Terminal
      <4>4. CleanInv(t)' /\ ShutdownInv(t)'
        BY <1>1, <3>1, <4>1 DEF SessionInv, CleanInv, ShutdownInv, Settled, Rejected
      <4> QED
        BY <4>3, <4>4 DEF SessionInv
    <3>3. CASE t # s
      <4>1. /\ child'[t] = child[t] /\ completing'[t] = completing[t]
            /\ t \in ending' <=> t \in ending
        BY <2>3, <3>3 DEF TypeOK
      <4> QED
        BY <1>1, <3>1, <4>1
        DEF SessionInv, BirthInv, WorkInv, CleanInv, ShutdownInv, Settled, Rejected
    <3> QED
      BY <3>2, <3>3
  <2>4. CASE /\ ~Terminalized(s) /\ child[s] \in {"running", "killed"}
             /\ ending' = ending \cup {s}
             /\ state' = [state EXCEPT ![s] = "failed"]
             /\ child' = [child EXCEPT ![s] = "closed"]
             /\ timer' = timer \ {s}
             /\ evicting' = evicting \ {s}
             /\ removing' = removing \cup {s}
             /\ UNCHANGED completing
    BY <1>1, <2>1, <2>4
    DEF Terminalized, TypeOK, SessionInv, BirthInv, WorkInv, CleanInv, ShutdownInv, Settled,
        Rejected, osVars,
        dirVars, loginVars, mapVars, flagVars, startVars, timerVars, Terminal
  <2> QED
    BY <1>3, <2>2, <2>3, <2>4 DEF ChildCloses
<1>4. CASE TimeoutFires(s)
  BY <1>1, <1>4
  DEF TimeoutFires, FailsOnTimeout, Terminalized, Terminate, CleanupBegins, TypeOK, SessionInv,
      BirthInv, WorkInv, CleanInv, ShutdownInv, Settled, Rejected, osVars, dirVars, loginVars,
      mapVars, flagVars, startVars, Terminal
<1> QED
  BY <1>2, <1>3, <1>4 DEF ChildStep

LEMMA LoginKeepsSession ==
  ASSUME TypeOK, \A u \in Sessions : SessionInv(u),
         NEW s \in Sessions, LoginStep(s), NEW t \in Sessions
  PROVE  SessionInv(t)'
<1>1. SessionInv(t) /\ SessionInv(s) /\ None # t
  BY DeviceAuthAssumption
<1>2. CASE ReadLogin(s)
  BY <1>1, <1>2
  DEF ReadLogin, RejectLogin, CleanupBegins, TypeOK, SessionInv, BirthInv, WorkInv, CleanInv,
      ShutdownInv, Settled, Rejected, osVars, dirVars, loginVars, mapVars, startVars,
      timerVars, Terminal
<1>3. CASE StoreLogin(s)
  BY <1>1, <1>3
  DEF StoreLogin, RejectLogin, CleanupBegins, TypeOK, SessionInv, BirthInv, WorkInv, CleanInv,
      ShutdownInv, Settled, Rejected, osVars, dirVars, loginVars, mapVars, startVars,
      timerVars, Terminal
<1>4. CASE LoginStored(s)
  BY <1>1, <1>4
  DEF LoginStored, CleanupBegins, TypeOK, SessionInv, BirthInv, WorkInv, CleanInv, ShutdownInv,
      Settled, Rejected, osVars, dirVars, loginVars, mapVars, flagVars, startVars, Terminal
<1>5. CASE CompleteEnds(s)
  BY <1>1, <1>5
  DEF CompleteEnds, Outcome, CleanupEnds, DropEntry, TypeOK, SessionInv, BirthInv, WorkInv,
      CleanInv, ShutdownInv, Settled, Rejected, osVars, dirVars, loginVars, startVars, Terminal
<1> QED
  BY <1>2, <1>3, <1>4, <1>5 DEF LoginStep

LEMMA ShutdownKeepsSession ==
  ASSUME TypeOK, \A u \in Sessions : SessionInv(u), Shutdown, NEW t \in Sessions
  PROVE  SessionInv(t)'
<1>1. SessionInv(t) /\ None # t
  BY DeviceAuthAssumption
<1>2. CASE Destroy
  BY <1>1, <1>2
  DEF Destroy, Swept, CleanupBegins, TypeOK, SessionInv, BirthInv, WorkInv, CleanInv,
      ShutdownInv,
      Settled, Rejected, osVars, dirVars, loginVars, mapVars, flagVars, startVars, Terminal
<1>3. CASE \E s \in Sessions : SweepEnds(s)
  BY <1>1, <1>3
  DEF SweepEnds, CleanupEnds, DropEntry, TypeOK, SessionInv, BirthInv, WorkInv, CleanInv,
      ShutdownInv, Settled, Rejected, osVars, dirVars, loginVars, flagVars, startVars,
      timerVars, Terminal
<1>4. CASE Destroyed \/ Exit
  BY <1>1, <1>4
  DEF Destroyed, Exit, TypeOK, SessionInv, BirthInv, WorkInv, CleanInv, ShutdownInv, Settled,
      Rejected, osVars, dirVars, loginVars,
      flagVars, startVars, timerVars, Terminal
<1> QED
  BY <1>2, <1>3, <1>4 DEF Shutdown

----------------------------------------------------------------------------
(* The sessions together *)

LEMMA EntryNext ==
  ASSUME TypeOK, EntryIsKnown, \A s \in Sessions : SessionInv(s), [Next]_vars
  PROVE  EntryIsKnown'
<1>1. CASE UNCHANGED vars
  BY <1>1 DEF vars, mapVars, EntryIsKnown
<1>2. ASSUME NEW s \in Sessions, Step(s), ~Register(s), ~Evict(s)
      PROVE  known' = known /\ (active' = active \/ active' = None)
  BY <1>2
  DEF Step, StartStep, EndStep, ChildStep, LoginStep, StartFirst, StartOver, Cancelled,
      MakeDirectory, StartRejects, Cancel, RemovalEnds, ReadOutput, ChildCloses, TimeoutFires,
      ReadLogin,
      StoreLogin, LoginStored, CompleteEnds, CleanupEnds, DropEntry, mapVars
<1>3. ASSUME NEW s \in Sessions, Register(s) \/ Evict(s) PROVE EntryIsKnown'
  BY <1>3 DEF Register, Evict, EntryIsKnown, SessionInv, CleanInv
<1>4. CASE Shutdown
  BY <1>4 DEF Shutdown, Destroy, SweepEnds, Destroyed, Exit, CleanupEnds, DropEntry, mapVars,
              EntryIsKnown
<1> QED
  BY <1>1, <1>2, <1>3, <1>4, NextCases DEF EntryIsKnown

(* What a step other than those of start does to the live sessions: none   *)
(* becomes live, and only one that has ended may lose the entry.           *)
LEMMA LiveSteps ==
  ASSUME TypeOK, EntryIsKnown, \A u \in Sessions : SessionInv(u),
         NEW s \in Sessions, EndStep(s) \/ ChildStep(s) \/ LoginStep(s)
  PROVE  /\ UNCHANGED <<process, overlapped, startPc>>
         /\ \A t \in Sessions : state'[t] \in Live =>
              state[t] \in Live /\ (active = t => active' = t)
<1>1. SessionInv(s) /\ Live \cap Terminal = {}
  BY DEF Live, Terminal
<1>2. /\ UNCHANGED <<process, overlapped, startPc>>
      /\ active' = active \/ (active' = IF active = s THEN None ELSE active)
  BY DEF EndStep, ChildStep, LoginStep, Cancel, RemovalEnds, Evict, ReadOutput, ChildCloses,
         TimeoutFires, ReadLogin, StoreLogin, LoginStored, CompleteEnds, CleanupEnds, DropEntry,
         mapVars, startVars
<1>3. \A t \in Sessions \ {s} : state'[t] = state[t]
  BY DEF EndStep, ChildStep, LoginStep, Cancel, RemovalEnds, Evict, ReadOutput, ChildCloses,
         TimeoutFires, ReadLogin, StoreLogin, LoginStored, CompleteEnds, RejectLogin, Terminate,
         flagVars, TypeOK
<1>4. state'[s] \in Live => state[s] \in Live /\ active' = active
  <2>1. CASE EndStep(s)
    BY <1>1, <2>1 DEF EndStep, Cancel, RemovalEnds, Evict, Terminate, flagVars, mapVars, TypeOK,
                      SessionInv, WorkInv, Live, Terminal
  <2>2. CASE ReadOutput(s)
    BY <1>1, <2>2 DEF ReadOutput, Terminalized, mapVars, TypeOK, SessionInv, BirthInv
  <2>3. CASE ChildCloses(s) \/ TimeoutFires(s)
    BY <2>3 DEF ChildCloses, TimeoutFires, Terminate, flagVars, mapVars, TypeOK, Live
  <2>4. CASE ReadLogin(s) \/ StoreLogin(s) \/ LoginStored(s)
    BY <2>4 DEF ReadLogin, StoreLogin, LoginStored, RejectLogin, flagVars, mapVars, TypeOK, Live
  <2>5. CASE CompleteEnds(s)
    BY <1>1, <2>5 DEF CompleteEnds, Outcome, TypeOK, SessionInv, WorkInv, Live
  <2> QED
    BY <2>1, <2>2, <2>3, <2>4, <2>5 DEF ChildStep, LoginStep
<1> QED
  BY <1>2, <1>3, <1>4

LEMMA AloneNext ==
  ASSUME TypeOK, EntryIsKnown, AloneInv, \A s \in Sessions : SessionInv(s), [Next]_vars
  PROVE  AloneInv'
<1>1. CASE UNCHANGED vars
  BY <1>1 DEF vars, mapVars, flagVars, startVars, AloneInv, OnItsWay
<1>2. CASE Shutdown
  <2>1. process' # "up"
    BY <1>2 DEF Shutdown, Destroy, SweepEnds, Destroyed, Exit
  <2> QED
    BY <2>1 DEF AloneInv
<1>3. ASSUME NEW s \in Sessions, EndStep(s) \/ ChildStep(s) \/ LoginStep(s) PROVE AloneInv'
  BY <1>3, LiveSteps DEF AloneInv, OnItsWay
<1>4. ASSUME NEW s \in Sessions, StartStep(s) PROVE AloneInv'
  <2> SUFFICES ASSUME process' = "up", ~overlapped'
               PROVE  /\ \A t \in Sessions : state'[t] \in Live => active' = t
                      /\ \A u \in Sessions : OnItsWay(u)' =>
                           \A t \in Sessions : state'[t] \notin Live /\ (OnItsWay(t)' => t = u)
    BY DEF AloneInv
  <2>1. CASE StartFirst(s)
    <3>1. /\ process = "up" /\ ~overlapped
          /\ \A t \in Sessions : ~OnItsWay(t) /\ (OnItsWay(t)' => t = s)
          /\ UNCHANGED <<state, active>> /\ NothingToCancel
      BY <2>1 DEF StartFirst, OnItsWay, flagVars, mapVars, TypeOK
    <3>2. \A t \in Sessions : state[t] \notin Live
      BY <3>1, DeviceAuthAssumption DEF AloneInv, NothingToCancel, Live, Terminal
    <3> QED
      BY <3>1, <3>2
  <2>2. CASE StartOver(s)
    <3>1. /\ process = "up" /\ ~overlapped
          /\ \A t \in Sessions : ~OnItsWay(t) /\ (OnItsWay(t)' => t = s)
          /\ active \in Sessions
          /\ state' = [state EXCEPT ![active] = "cancelled"]
      BY <2>2 DEF StartOver, Terminate, OnItsWay, TypeOK
    <3>2. \A t \in Sessions : state'[t] \notin Live
      BY <3>1 DEF AloneInv, TypeOK, Live
    <3> QED
      BY <3>1, <3>2
  <2>3. CASE Cancelled(s) \/ MakeDirectory(s) \/ StartRejects(s)
    <3>1. /\ process = "up" /\ ~overlapped /\ UNCHANGED <<state, active>>
          /\ \A t \in Sessions : OnItsWay(t)' => OnItsWay(t)
      BY <2>3 DEF Cancelled, MakeDirectory, StartRejects, OnItsWay, flagVars, mapVars, TypeOK
    <3> QED
      BY <3>1 DEF AloneInv
  <2>4. CASE Register(s)
    <3>1. /\ process = "up" /\ ~overlapped /\ OnItsWay(s) /\ active' = s
          /\ \A t \in Sessions : OnItsWay(t)' => OnItsWay(t) /\ t # s
          /\ \A t \in Sessions \ {s} : state'[t] = state[t]
      BY <2>4 DEF Register, OnItsWay, TypeOK
    <3>2. \A t \in Sessions : ~OnItsWay(t)'
      BY <3>1 DEF AloneInv
    <3> QED
      BY <3>1, <3>2 DEF AloneInv
  <2> QED
    BY <1>4, <2>1, <2>2, <2>3, <2>4 DEF StartStep
<1> QED
  BY <1>1, <1>2, <1>3, <1>4, NextCases DEF Step

----------------------------------------------------------------------------
(* The theorems *)

(* The inductive invariant holds in every behaviour: how far cancel, fail, *)
(* complete and the sweep have come with a session, and what it has left.  *)
THEOREM DeviceAuthInvariant == Spec => []Inv
<1>1. Init => Inv
  BY InvInit
<1>2. Inv /\ [Next]_vars => Inv'
  <2> SUFFICES ASSUME Inv, [Next]_vars PROVE Inv'
    OBVIOUS
  <2>1. /\ TypeOK /\ EntryIsKnown /\ AloneInv
        /\ \A s \in Sessions : SessionInv(s)
    BY DEF Inv
  <2>2. TypeOK' /\ EntryIsKnown' /\ AloneInv'
    BY <2>1, TypeNext, EntryNext, AloneNext
  <2>3. ASSUME NEW t \in Sessions PROVE SessionInv(t)'
    <3>1. CASE UNCHANGED vars
      BY <2>1, <3>1 DEF vars, mapVars, flagVars, startVars, osVars,
                        dirVars, loginVars, timerVars, SessionInv, BirthInv,
                        WorkInv, CleanInv, ShutdownInv, Settled, Rejected
    <3>2. CASE Shutdown
      BY <2>1, <3>2, ShutdownKeepsSession
    <3>3. ASSUME NEW s \in Sessions, Step(s) PROVE SessionInv(t)'
      BY <2>1, <3>3, StartKeepsSession, EndKeepsSession, ChildKeepsSession, LoginKeepsSession
      DEF Step
    <3> QED
      BY <3>1, <3>2, <3>3, NextCases
  <2> QED
    BY <2>2, <2>3 DEF Inv
<1> QED
  BY <1>1, <1>2, PTL DEF Spec

(* The sessions, and what is left of them, keep their shape. *)
THEOREM DeviceAuthTypes == Spec => []TypeOK
<1>1. Inv => TypeOK
  BY DEF Inv
<1> QED
  BY <1>1, DeviceAuthInvariant, PTL

(* cleanup: however cancel, fail, complete and the timeout meet, an ended  *)
(* session leaves no process, directory or armed timeout.                  *)
THEOREM EndedIsClean == Spec => []SettledIsClean
<1>1. Inv => SettledIsClean
  BY DEF Inv, SessionInv, CleanInv, SettledIsClean, Settled, Rejected
<1> QED
  BY <1>1, DeviceAuthInvariant, PTL

(* activeByOrganization names a session that requireSession will find. *)
THEOREM EntryIsFound == Spec => []EntryIsKnown
<1>1. Inv => EntryIsKnown
  BY DEF Inv
<1> QED
  BY <1>1, DeviceAuthInvariant, PTL

(* A set with no two members has at most one. *)
LEMMA AtMostOne ==
  ASSUME NEW S, \A s, t \in S : s = t
  PROVE  Cardinality(S) <= 1
<1>1. CASE S = {}
  BY <1>1, FS_EmptySet
<1>2. CASE S # {}
  <2>1. PICK s \in S : S = {s}
    BY <1>2
  <2>2. Cardinality({s}) = 1
    BY FS_Singleton
  <2> QED
    BY <2>1, <2>2
<1> QED
  BY <1>1, <1>2

(* start: one session and one codex process at a time, while no two calls  *)
(* overlap and the process is not shutting down.                           *)
THEOREM OneSession == Spec => []OneAtATime
<1>1. Inv => OneAtATime
  <2> SUFFICES ASSUME Inv, process = "up", ~overlapped
               PROVE  /\ Cardinality({s \in known : state[s] \in Live}) <= 1
                      /\ Cardinality({s \in Sessions : child[s] = "running"}) <= 1
    BY DEF OneAtATime
  <2>1. \A s \in Sessions : state[s] \in Live => active = s
    BY DEF Inv, AloneInv
  <2>2. \A s \in Sessions : child[s] = "running" => state[s] \in Live
    BY DEF Inv, TypeOK, SessionInv, BirthInv, CleanInv
  <2>3. known \subseteq Sessions
    BY DEF Inv, TypeOK
  <2>4. Cardinality({s \in known : state[s] \in Live}) <= 1
    <3> DEFINE S == {s \in known : state[s] \in Live}
    <3>1. \A s, t \in S : s = t
      BY <2>1, <2>3
    <3> HIDE DEF S
    <3>2. Cardinality(S) <= 1
      BY <3>1, AtMostOne
    <3> QED
      BY <3>2 DEF S
  <2>5. Cardinality({s \in Sessions : child[s] = "running"}) <= 1
    <3> DEFINE S == {s \in Sessions : child[s] = "running"}
    <3>1. \A s, t \in S : s = t
      BY <2>1, <2>2
    <3> HIDE DEF S
    <3>2. Cardinality(S) <= 1
      BY <3>1, AtMostOne
    <3> QED
      BY <3>2 DEF S
  <2> QED
    BY <2>4, <2>5
<1> QED
  BY <1>1, DeviceAuthInvariant, PTL

(* The state a client is told at the end says whether CredentialsService   *)
(* .store has stored the login.                                            *)
THEOREM OutcomeIsTrue == Spec => []OutcomeTellsStored
<1>1. Inv => OutcomeTellsStored
  BY DEF Inv, SessionInv, WorkInv, OutcomeTellsStored, Settled, Rejected
<1> QED
  BY <1>1, DeviceAuthInvariant, PTL

(* onModuleDestroy leaves no process of any session whose call of start    *)
(* was over when it ran, and a directory only where rm failed on it, or    *)
(* start was rejected after it had made it.                                *)
THEOREM NothingIsLeft == Spec => []DestroyLeavesNothing
<1>1. Inv => DestroyLeavesNothing
  BY DEF Inv, SessionInv, ShutdownInv, DestroyLeavesNothing, Rejected
<1> QED
  BY <1>1, DeviceAuthInvariant, PTL
=============================================================================
