------------------------------ MODULE DeviceAuth ------------------------------
(***************************************************************************)
(* CodexDeviceAuthService: the device authorizations of ONE organization   *)
(* in one API process (sessions of other organizations share no state).    *)
(*                                                                         *)
(* JavaScript runs to completion between two awaits: one step is such a    *)
(* stretch, from a request, a child process event, a timer or the end of   *)
(* an awaited call to the next await.  A session is named by the call of   *)
(* start that makes it.  A timer may fire at any moment while it is armed. *)
(***************************************************************************)
EXTENDS Naturals, FiniteSets

CONSTANTS
    Sessions,  \* calls of start, and the sessions they make
    None       \* no session

ASSUME DeviceAuthAssumption == None \notin Sessions

VARIABLES
    process,    \* the API process, around onModuleDestroy
    active,     \* activeByOrganization.get(organization)
    known,      \* keys of the sessions map
    state,      \* session.state, "none" before the session exists
    ending,     \* sessions with the terminalizing flag
    startPc,    \* where each call of start is
    cancels,    \* the session whose cancellation the call of start awaits
    removing,   \* sessions cancel or fail is cleaning up
    completing, \* where complete is
    sweeping,   \* sessions onModuleDestroy is cleaning up
    child,      \* the codex process of the session
    dir,        \* sessions whose directory exists
    timer,      \* sessions whose timeout is armed
    evicting,   \* sessions with a retention timer armed
    stored,     \* sessions whose login became the stored credential
    unremoved,  \* history: sessions a removal of whose directory failed
    unanswered, \* history: sessions whose store committed without an answer
    overlapped, \* history: two calls of start were on their way at once
    late        \* history: calls of start not over when onModuleDestroy ran

startVars == <<startPc, cancels, overlapped>>
dirVars   == <<dir, unremoved>>
osVars    == <<child, dirVars>>
loginVars == <<stored, unanswered>>
timerVars == <<timer, evicting>>
mapVars   == <<active, known>>
flagVars  == <<state, ending>>
vars == <<process, late, mapVars, flagVars, startVars, removing, completing,
          sweeping, osVars, timerVars, loginVars>>

Terminal == {"completed", "failed", "cancelled"}
Live     == {"starting", "awaiting_authorization"}

TypeOK ==
    /\ process \in {"up", "destroying", "destroyed", "down"}
    /\ active \in Sessions \cup {None}
    /\ known \subseteq Sessions
    /\ state \in [Sessions -> {"none"} \cup Live \cup Terminal]
    /\ ending \subseteq Sessions
    /\ startPc \in [Sessions -> {"idle", "cancelling", "making", "made", "done"}]
    /\ cancels \in [Sessions -> Sessions \cup {None}]
    /\ removing \subseteq Sessions
    /\ completing \in [Sessions -> {"no", "reading", "storing", "committed",
                                    "saved", "invalid"}]
    /\ sweeping \subseteq Sessions
    /\ child \in [Sessions -> {"none", "running", "killed", "closed"}]
    /\ dir \subseteq Sessions
    /\ timer \subseteq Sessions
    /\ evicting \subseteq Sessions
    /\ stored \subseteq Sessions
    /\ unremoved \subseteq Sessions
    /\ unanswered \subseteq Sessions
    /\ overlapped \in BOOLEAN
    /\ late \subseteq Sessions

Init ==
    /\ process = "up"
    /\ active = None
    /\ known = {}
    /\ state = [s \in Sessions |-> "none"]
    /\ ending = {}
    /\ startPc = [s \in Sessions |-> "idle"]
    /\ cancels = [s \in Sessions |-> None]
    /\ removing = {}
    /\ completing = [s \in Sessions |-> "no"]
    /\ sweeping = {}
    /\ child = [s \in Sessions |-> "none"]
    /\ dir = {}
    /\ timer = {}
    /\ evicting = {}
    /\ stored = {}
    /\ unremoved = {}
    /\ unanswered = {}
    /\ overlapped = FALSE
    /\ late = {}

----------------------------------------------------------------------------
(* cleanup, cancel and fail *)

(* Mutant: the process is left running. *)
CleanupSparesProcess(S, kill) ==
    /\ timer' = timer \ S
    /\ evicting' = evicting \ S
    /\ UNCHANGED child

(* What cleanup does at once: timers cleared, processes killed if asked.   *)
CleanupBegins(S, kill) ==
    /\ timer' = timer \ S
    /\ evicting' = evicting \ S
    /\ child' = [s \in Sessions |->
         IF s \in kill /\ child[s] = "running" THEN "killed" ELSE child[s]]

(* Mutants: the organization's entry is kept, or deleted whoever has it. *)
KeepEntry(s) == active' = active
DropAnyEntry(s) == active' = None

(* The entry of the organization goes if it is still this session's. *)
DropEntry(s) == active' = IF active = s THEN None ELSE active

(* The rest of cleanup, when rm returns: the directory is gone, or it stays*)
(* (the killed process is not awaited and may be writing) and the error is *)
(* swallowed.                                                              *)
CleanupEnds(s) ==
    /\ \/ dir' = dir \ {s} /\ UNCHANGED unremoved
       \/ s \in dir /\ unremoved' = unremoved \cup {s} /\ UNCHANGED dir
    /\ DropEntry(s)

Terminalized(s) == s \in ending \/ state[s] \in Terminal

(* cancel and fail up to the removal of the directory. *)
Terminate(s, outcome) ==
    /\ ending' = ending \cup {s}
    /\ state' = [state EXCEPT ![s] = outcome]
    /\ CleanupBegins({s}, {s})
    /\ removing' = removing \cup {s}

(* DELETE of a session: refused if unknown, nothing if it has ended. *)
Cancel(s) ==
    /\ process # "down"
    /\ s \in known
    /\ state[s] \notin Terminal
    /\ Terminate(s, "cancelled")
    /\ UNCHANGED <<process, late, mapVars, startVars, completing, sweeping, dirVars, loginVars>>

(* The cleanup of a cancelled or failed session is over: it is retained. *)
RemovalEnds(s) ==
    /\ process # "down"
    /\ s \in removing
    /\ CleanupEnds(s)
    /\ removing' = removing \ {s}
    /\ evicting' = evicting \cup {s}
    /\ UNCHANGED <<process, late, known, flagVars, startVars, completing, sweeping,
                   child, timer, loginVars>>

(* The retention timer: the session is forgotten. *)
Evict(s) ==
    /\ process # "down"
    /\ s \in evicting
    /\ evicting' = evicting \ {s}
    /\ known' = known \ {s}
    /\ UNCHANGED <<process, late, active, flagVars, startVars, removing, completing,
                   sweeping, osVars, timer, loginVars>>

----------------------------------------------------------------------------
(* start *)

(* A call of start that has not returned. *)
OnItsWay(s) == startPc[s] \in {"cancelling", "making", "made"}

(* Mutant: an earlier session is not looked for. *)
AnySession == TRUE

(* The organization has no session, or one that has just ended. *)
NothingToCancel == active # None => active \in known /\ state[active] \in Terminal

(* Nothing is cancelled: the call goes straight to mkdtemp. *)
StartFirst(s) ==
    /\ process # "down"
    /\ startPc[s] = "idle"
    /\ NothingToCancel
    /\ startPc' = [startPc EXCEPT ![s] = "making"]
    /\ overlapped' = (overlapped \/ \E t \in Sessions : OnItsWay(t))
    /\ UNCHANGED <<process, late, mapVars, flagVars, cancels, removing, completing,
                   sweeping, osVars, timerVars, loginVars>>

(* The session of the organization is cancelled, and its cleanup awaited. *)
StartOver(s) ==
    /\ process # "down"
    /\ startPc[s] = "idle"
    /\ active # None /\ active \in known
    /\ state[active] \notin Terminal
    /\ Terminate(active, "cancelled")
    /\ startPc' = [startPc EXCEPT ![s] = "cancelling"]
    /\ cancels' = [cancels EXCEPT ![s] = active]
    /\ overlapped' = (overlapped \/ \E t \in Sessions : OnItsWay(t))
    /\ UNCHANGED <<process, late, mapVars, completing, sweeping, dirVars, loginVars>>

Cancelled(s) ==
    /\ process # "down"
    /\ startPc[s] = "cancelling"
    /\ cancels[s] \notin removing
    /\ startPc' = [startPc EXCEPT ![s] = "making"]
    /\ cancels' = [cancels EXCEPT ![s] = None]
    /\ UNCHANGED <<process, late, mapVars, flagVars, overlapped, removing, completing,
                   sweeping, osVars, timerVars, loginVars>>

(* mkdtemp makes the directory, or start rejects. *)
MakeDirectory(s) ==
    /\ process # "down"
    /\ startPc[s] = "making"
    /\ \/ startPc' = [startPc EXCEPT ![s] = "made"] /\ dir' = dir \cup {s}
       \/ startPc' = [startPc EXCEPT ![s] = "done"] /\ UNCHANGED dir
    /\ UNCHANGED <<process, late, mapVars, flagVars, cancels, overlapped, removing,
                   completing, sweeping, child, unremoved, timerVars, loginVars>>

(* chmod fails or spawn throws: start rejects, and the directory, of which *)
(* no session knows, stays.                                                *)
StartRejects(s) ==
    /\ process # "down"
    /\ startPc[s] = "made"
    /\ startPc' = [startPc EXCEPT ![s] = "done"]
    /\ UNCHANGED <<process, late, mapVars, flagVars, cancels, overlapped, removing,
                   completing, sweeping, osVars, timerVars, loginVars>>

(* The process is spawned, the session registered, its timeout armed. *)
Register(s) ==
    /\ process # "down"
    /\ startPc[s] = "made"
    /\ startPc' = [startPc EXCEPT ![s] = "done"]
    /\ child' = [child EXCEPT ![s] = "running"]
    /\ state' = [state EXCEPT ![s] = "starting"]
    /\ timer' = timer \cup {s}
    /\ known' = known \cup {s}
    /\ active' = s
    /\ UNCHANGED <<process, late, ending, cancels, overlapped, removing, completing,
                   sweeping, dirVars, evicting, loginVars>>

----------------------------------------------------------------------------
(* Events of the child process, and the timeout *)

(* Output with an allowed URL and a code; output that is too long or names *)
(* another host. consumeOutput looks at neither once the session ends.     *)
ReadOutput(s) ==
    /\ process # "down"
    /\ child[s] = "running"
    /\ ~Terminalized(s)
    /\ \/ /\ state' = [state EXCEPT ![s] = "awaiting_authorization"]
          /\ UNCHANGED <<ending, removing, child, timerVars>>
       \/ Terminate(s, "failed")
    /\ UNCHANGED <<process, late, mapVars, startVars, completing, sweeping, dirVars, loginVars>>

(* The process ends: of itself, killed, or because it could not start. *)
ChildCloses(s) ==
    /\ process # "down"
    /\ child[s] \in {"running", "killed"}
    /\ \/ /\ Terminalized(s)
          /\ child' = [child EXCEPT ![s] = "closed"]
          /\ UNCHANGED <<flagVars, removing, completing, timerVars>>
       \/ /\ ~Terminalized(s) /\ child[s] = "running"
          /\ child' = [child EXCEPT ![s] = "closed"]
          /\ ending' = ending \cup {s}
          /\ completing' = [completing EXCEPT ![s] = "reading"]
          /\ UNCHANGED <<state, removing, timerVars>>
       \/ /\ ~Terminalized(s)
          /\ ending' = ending \cup {s}
          /\ state' = [state EXCEPT ![s] = "failed"]
          /\ child' = [child EXCEPT ![s] = "closed"]
          /\ timer' = timer \ {s}
          /\ evicting' = evicting \ {s}
          /\ removing' = removing \cup {s}
          /\ UNCHANGED completing
    /\ UNCHANGED <<process, late, mapVars, startVars, sweeping, dirVars, loginVars>>

(* Mutant: the timeout does nothing once the code was shown. *)
FailsOnTimeoutAtFirst(s) == ~Terminalized(s) /\ state[s] = "starting"

FailsOnTimeout(s) == ~Terminalized(s)

TimeoutFires(s) ==
    /\ process # "down"
    /\ s \in timer
    /\ IF FailsOnTimeout(s)
       THEN Terminate(s, "failed")
       ELSE timer' = timer \ {s} /\ UNCHANGED <<flagVars, removing, child, evicting>>
    /\ UNCHANGED <<process, late, mapVars, startVars, completing, sweeping, dirVars, loginVars>>

----------------------------------------------------------------------------
(* complete, from the end of one awaited call to the next *)

(* The catch: the session has failed, even if it was cancelled meanwhile. *)
RejectLogin(s) ==
    /\ state' = [state EXCEPT ![s] = "failed"]
    /\ completing' = [completing EXCEPT ![s] = "invalid"]
    /\ CleanupBegins({s}, {})

(* auth.json is read, if the directory is still there, and validated. *)
ReadLogin(s) ==
    /\ process # "down"
    /\ completing[s] = "reading"
    /\ \/ /\ s \in dir
          /\ completing' = [completing EXCEPT ![s] = "storing"]
          /\ UNCHANGED <<state, child, timerVars>>
       \/ RejectLogin(s)
    /\ UNCHANGED <<process, late, mapVars, ending, startVars, removing, sweeping,
                   dirVars, loginVars>>

(* The database stores the credential, or refuses, or stores it and the    *)
(* answer is lost, which complete cannot tell from a refusal.              *)
StoreLogin(s) ==
    /\ process # "down"
    /\ completing[s] = "storing"
    /\ \/ /\ completing' = [completing EXCEPT ![s] = "committed"]
          /\ stored' = stored \cup {s}
          /\ UNCHANGED <<state, child, timerVars, unanswered>>
       \/ RejectLogin(s) /\ UNCHANGED loginVars
       \/ /\ RejectLogin(s)
          /\ stored' = stored \cup {s}
          /\ unanswered' = unanswered \cup {s}
    /\ UNCHANGED <<process, late, mapVars, ending, startVars, removing, sweeping, dirVars>>

(* The usage cache is invalidated (another module) and cleanup begins. *)
LoginStored(s) ==
    /\ process # "down"
    /\ completing[s] = "committed"
    /\ completing' = [completing EXCEPT ![s] = "saved"]
    /\ CleanupBegins({s}, {})
    /\ UNCHANGED <<process, late, mapVars, flagVars, startVars, removing, sweeping,
                   dirVars, loginVars>>

(* Mutants: a failed login gets a state nobody knows; a cancellation that  *)
(* came meanwhile is respected.                                            *)
CompletedOrInvalid(s) == IF completing[s] = "saved" THEN "completed" ELSE "invalid"
CompletedUnlessCancelled(s) ==
    IF completing[s] = "saved" /\ state[s] # "cancelled" THEN "completed" ELSE state[s]

(* The session of a stored login is completed, whatever came meanwhile. *)
Outcome(s) == IF completing[s] = "saved" THEN "completed" ELSE state[s]

(* The cleanup is over: the session has its outcome and is retained. *)
CompleteEnds(s) ==
    /\ process # "down"
    /\ completing[s] \in {"saved", "invalid"}
    /\ CleanupEnds(s)
    /\ state' = [state EXCEPT ![s] = Outcome(s)]
    /\ completing' = [completing EXCEPT ![s] = "no"]
    /\ evicting' = evicting \cup {s}
    /\ UNCHANGED <<process, late, known, ending, startVars, removing, sweeping,
                   child, timer, loginVars>>

----------------------------------------------------------------------------
(* onModuleDestroy, and the end of the process after it *)

(* Mutant: only the session of the organization's entry. *)
OnlyActive == {active} \cap known

Swept == known

Destroy ==
    /\ process = "up"
    /\ process' = "destroying"
    /\ CleanupBegins(Swept, Swept)
    /\ sweeping' = Swept
    /\ late' = {s \in Sessions : startPc[s] # "done"}
    /\ UNCHANGED <<mapVars, flagVars, startVars, removing, completing, dirVars, loginVars>>

SweepEnds(s) ==
    /\ process = "destroying"
    /\ s \in sweeping
    /\ CleanupEnds(s)
    /\ sweeping' = sweeping \ {s}
    /\ UNCHANGED <<process, late, known, flagVars, startVars, removing, completing,
                   child, timerVars, loginVars>>

Destroyed ==
    /\ process = "destroying"
    /\ sweeping = {}
    /\ process' = "destroyed"
    /\ known' = {}
    /\ active' = None
    /\ UNCHANGED <<late, flagVars, startVars, removing, completing, sweeping, osVars,
                   timerVars, loginVars>>

(* The process exits: what it held in memory is gone. *)
Exit ==
    /\ process = "destroyed"
    /\ process' = "down"
    /\ known' = {}
    /\ active' = None
    /\ UNCHANGED <<late, flagVars, startVars, removing, completing, sweeping, osVars,
                   timerVars, loginVars>>

----------------------------------------------------------------------------
Start(s) == StartFirst(s) \/ StartOver(s)

(* What happens without a client or the codex process doing anything. *)
Proceed(s) ==
    \/ RemovalEnds(s)
    \/ Cancelled(s)
    \/ MakeDirectory(s)
    \/ StartRejects(s)
    \/ Register(s)
    \/ ReadLogin(s)
    \/ StoreLogin(s)
    \/ LoginStored(s)
    \/ CompleteEnds(s)
    \/ SweepEnds(s)

Next ==
    \/ \E s \in Sessions :
         Start(s) \/ Cancel(s) \/ Proceed(s) \/ Evict(s)
           \/ ReadOutput(s) \/ ChildCloses(s) \/ TimeoutFires(s)
    \/ Destroy
    \/ Destroyed
    \/ Exit

Spec == Init /\ [][Next]_vars

(* Awaited calls return and armed timers fire; nothing is assumed of the   *)
(* clients, of the codex process or of a shutdown.                         *)
Fairness ==
    /\ \A s \in Sessions :
         WF_vars(Proceed(s)) /\ WF_vars(TimeoutFires(s)) /\ WF_vars(Evict(s))
    /\ WF_vars(Destroyed)

FairSpec == Spec /\ Fairness

----------------------------------------------------------------------------
(* Properties *)

(* Nobody works on the session any more. *)
Settled(s) == state[s] \in Terminal /\ s \notin removing /\ completing[s] = "no"

(* However success, failure, cancellation and timeout meet, they leave no  *)
(* process and no timer that could still fail the session; a directory is  *)
(* left only if rm failed on it.  specs/task-008 asks for none at all      *)
(* (line 44), which cleanup cannot keep: it swallows the error.            *)
SettledIsClean ==
    \A s \in Sessions : Settled(s) =>
        /\ child[s] # "running" /\ s \notin timer
        /\ s \in dir => s \in unremoved

(* The organization's entry names a session the map still has, else start  *)
(* would answer "not found" for ever.                                      *)
EntryIsKnown == active # None => active \in known

(* Until onModuleDestroy, one session and one codex process at a time,     *)
(* unless two calls of start overlapped: whatever ended the earlier one,   *)
(* and although its cleanup may end, or complete store its login, later.   *)
OneAtATime ==
    process = "up" /\ ~overlapped =>
        /\ Cardinality({s \in known : state[s] \in Live}) <= 1
        /\ Cardinality({s \in Sessions : child[s] = "running"}) <= 1

(* A client that is told "failed" or "cancelled" has the credential it had:*)
(* at rest, the outcome says whether the login was stored, even if cancel  *)
(* came while complete was storing it, but for a commit without an answer. *)
OutcomeTellsStored ==
    \A s \in Sessions : Settled(s) =>
        /\ state[s] = "completed" => s \in stored
        /\ s \in stored => state[s] = "completed" \/ s \in unanswered

(* A call of start that is over without having made a session. *)
Rejected(s) == startPc[s] = "done" /\ state[s] = "none"

(* onModuleDestroy leaves no process behind, but for calls of start that   *)
(* were not over when it ran; a directory only if rm failed on it, or of a *)
(* call of start that was rejected after making it, of which it knows      *)
(* nothing.                                                                *)
DestroyLeavesNothing ==
    process \in {"destroyed", "down"} =>
        \A s \in Sessions \ late :
            /\ child[s] # "running"
            /\ s \in dir => s \in unremoved \/ Rejected(s)

(* Every session is forgotten in the end, with nobody polling it. *)
SessionForgotten == \A s \in Sessions : s \in known ~> s \notin known

----------------------------------------------------------------------------
(* What the documents promise and the code does not keep *)

(* specs/task-008: at most one active session per organization. Two calls  *)
(* of start that both find no session both register one.                   *)
AtMostOneActive == Cardinality({s \in known : state[s] \in Live}) <= 1

=============================================================================
