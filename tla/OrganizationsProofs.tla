--------------------------- MODULE OrganizationsProofs ---------------------------
(***************************************************************************)
(* Theorems about Organizations, for any people, invitations, models,      *)
(* repositories and number of requests at a time.                          *)
(***************************************************************************)
EXTENDS Organizations, FiniteSetTheorems, TLAPS

(* Answers to /me hold invitations of their user, each still pending or    *)
(* known to be late, the one in hand among them.                           *)
Answers(q) ==
    request[q].pc \in Answering =>
        /\ \A i \in request[q].todo :
             /\ invite[i] # NoInvite /\ invite[i].user = request[q].user
             /\ Pending(i) \/ i \in request[q].late
        /\ request[q].pc # "accepting" => request[q].invite \in request[q].todo

TypeInv == TypeOK /\ \A q \in Requests : Answers(q)

(* A pending invitation of a member is honoured, and so is the one that a  *)
(* call of /me is about to mark.                                           *)
HonouredInv ==
    /\ \A i \in Invites :
         Pending(i) /\ role[invite[i].user] # "none" => i \in honoured
    /\ \A q \in Requests :
         request[q].pc = "joined" /\ Pending(request[q].invite)
           => request[q].invite \in honoured
    /\ AcceptedInviteWasHonoured

(* Until an owner is removed, whoever was an owner at the guard is one, and*)
(* one who is about to remove himself has been seen not to be the only one.*)
(* Nobody is made an owner.                                                *)
Reading(q) ==
    /\ request[q].pc = "authorized" /\ request[q].role = "owner" /\ ~request[q].late
         => request[q].by \in Owners
    /\ request[q].pc \in {"counting", "deleting"} /\ ~request[q].late
         => request[q].by \in Owners
    /\ request[q].pc = "deleting" /\ ~request[q].late
         => request[q].by # request[q].user \/ Owners \ {request[q].user} # {}
    /\ request[q].pc = "changing" => request[q].user \notin Owners

OwnersInv == (\A q \in Requests : Reading(q)) /\ OwnerUnlessRaced

(* The default is an allowed model, and so is one that is about to be saved*)
(* unless the policy has been replaced.                                    *)
ModelsInv ==
    /\ policy = NoPolicy \/ policy.default \in policy.allowed
    /\ \A q \in Requests :
         request[q].pc \in {"saving", "registering"} /\ ~request[q].late
           => request[q].model \in AllowedModels

Inv == TypeInv /\ HonouredInv /\ OwnersInv /\ ModelsInv

----------------------------------------------------------------------------
(* Records of requests *)

AnyRequest == {Idle} \cup Authorized \cup RoleChange \cup Removal \cup Acceptance
                \cup Joining \cup ModelChoice

(* What a request is, by where it is. *)
LEMMA Kinds ==
  ASSUME NEW c \in AnyRequest
  PROVE  /\ c.pc = "idle" => c = Idle
         /\ c.pc = "authorized" => c \in Authorized
         /\ c.pc = "changing" => c \in RoleChange
         /\ c.pc \in {"counting", "deleting"} => c \in Removal
         /\ c.pc = "accepting" => c \in Acceptance
         /\ c.pc \in {"joining", "joined"} => c \in Joining
         /\ c.pc \in {"saving", "registering"} => c \in ModelChoice
         /\ c.pc \in {"idle", "authorized", "changing", "counting", "deleting", "accepting",
                      "joining", "joined", "saving", "registering"}
  BY DEF AnyRequest, Idle, Authorized, RoleChange, Removal, Acceptance, Joining, ModelChoice

LEMMA RequestType == TypeOK => request \in [Requests -> AnyRequest]
  BY DEF TypeOK, AnyRequest

(* The ways in which steps change the requests keep their types. *)
LEMMA ContinueKeeps ==
  ASSUME request \in [Requests -> AnyRequest], NEW q \in Requests, NEW c \in AnyRequest,
         Continue(q, c)
  PROVE  /\ request' \in [Requests -> AnyRequest]
         /\ request'[q] = c
         /\ \A p \in Requests \ {q} : request'[p] = request[p]
  BY DEF Continue

LEMMA LateKeeps ==
  ASSUME NEW c \in AnyRequest, NEW S \in SUBSET Invites
  PROVE  /\ c.pc \in Answering => [c EXCEPT !.late = @ \cup (S \cap c.todo)] \in AnyRequest
         /\ c.pc \in {"authorized", "counting", "deleting", "saving", "registering"}
              => [c EXCEPT !.late = TRUE] \in AnyRequest
<1>1. CASE c.pc = "accepting"
  <2>1. c \in Acceptance
    BY <1>1, Kinds
  <2>2. [c EXCEPT !.late = @ \cup (S \cap c.todo)] \in Acceptance
    BY <2>1 DEF Acceptance
  <2> QED
    BY <1>1, <2>2 DEF AnyRequest
<1>2. CASE c.pc \in {"joining", "joined"}
  <2>1. c \in Joining
    BY <1>2, Kinds
  <2>2. [c EXCEPT !.late = @ \cup (S \cap c.todo)] \in Joining
    BY <2>1 DEF Joining
  <2> QED
    BY <1>2, <2>2 DEF AnyRequest
<1>3. CASE c.pc \in {"authorized", "counting", "deleting", "saving", "registering"}
  <2>1. c \in Authorized \/ c \in Removal \/ c \in ModelChoice
    BY <1>3, Kinds
  <2>2. c \in Authorized => [c EXCEPT !.late = TRUE] \in Authorized
    BY DEF Authorized
  <2>3. c \in Removal => [c EXCEPT !.late = TRUE] \in Removal
    BY DEF Removal
  <2>4. c \in ModelChoice => [c EXCEPT !.late = TRUE] \in ModelChoice
    BY DEF ModelChoice
  <2> QED
    BY <1>3, <2>1, <2>2, <2>3, <2>4 DEF AnyRequest, Answering
<1> QED
  BY <1>1, <1>2, <1>3 DEF Answering

LEMMA SettlingKeeps ==
  ASSUME request \in [Requests -> AnyRequest], NEW q \in Requests, NEW c \in AnyRequest,
         NEW S \in SUBSET Invites, ContinueSettling(q, c, S)
  PROVE  /\ request' \in [Requests -> AnyRequest]
         /\ request'[q] = c
         /\ \A p \in Requests \ {q} :
              request'[p] = IF request[p].pc \in Answering
                            THEN [request[p] EXCEPT !.late = @ \cup (S \cap request[p].todo)]
                            ELSE request[p]
<1> DEFINE d(p) == [request[p] EXCEPT !.late = @ \cup (S \cap request[p].todo)]
<1>1. \A p \in Requests : request[p].pc \in Answering => d(p) \in AnyRequest
  BY LateKeeps
<1>2. request' = [p \in Requests |-> IF p = q THEN c
                    ELSE IF request[p].pc \in Answering THEN d(p) ELSE request[p]]
  BY DEF ContinueSettling
<1> HIDE DEF d
<1>3. /\ request' \in [Requests -> AnyRequest] /\ request'[q] = c
      /\ \A p \in Requests \ {q} :
           request'[p] = IF request[p].pc \in Answering THEN d(p) ELSE request[p]
  BY <1>1, <1>2
<1> QED
  BY <1>3 DEF d

(* The requests that an owner's removal or a new policy overtakes. *)
LEMMA OvertakenKeeps ==
  ASSUME request \in [Requests -> AnyRequest], NEW q \in Requests,
         NEW P \in SUBSET {"authorized", "counting", "deleting", "saving", "registering"},
         request' = [p \in Requests |->
            IF p = q THEN Idle
            ELSE IF request[p].pc \in P THEN [request[p] EXCEPT !.late = TRUE] ELSE request[p]]
  PROVE  /\ request' \in [Requests -> AnyRequest]
         /\ request'[q] = Idle
         /\ \A p \in Requests \ {q} :
              request'[p] = IF request[p].pc \in P
                            THEN [request[p] EXCEPT !.late = TRUE] ELSE request[p]
<1> DEFINE d(p) == [request[p] EXCEPT !.late = TRUE]
<1>1. \A p \in Requests : request[p].pc \in P => d(p) \in AnyRequest
  BY LateKeeps
<1>2. Idle \in AnyRequest
  BY DEF AnyRequest
<1>3. request' = [p \in Requests |-> IF p = q THEN Idle
                    ELSE IF request[p].pc \in P THEN d(p) ELSE request[p]]
  OBVIOUS
<1> HIDE DEF d
<1>4. /\ request' \in [Requests -> AnyRequest] /\ request'[q] = Idle
      /\ \A p \in Requests \ {q} :
           request'[p] = IF request[p].pc \in P THEN d(p) ELSE request[p]
  BY <1>1, <1>2, <1>3
<1> QED
  BY <1>4 DEF d

----------------------------------------------------------------------------
(* The steps of one request *)

Step(q) ==
    \/ \E u \in Users : Authorize(q, u)
    \/ ManageInvites(q)
    \/ AcceptInvites(q)
    \/ ManageMembers(q)
    \/ ManageModels(q)
    \/ RequestStops(q)

LEMMA NextCases ==
  Next <=> (\E q \in Requests : Step(q)) \/ (\E i \in Invites : BecomesDue(i))
  BY DEF Next, Step

(* Steps that leave the other requests alone, that settle invitations that *)
(* others may hold, and that make others' readings older.                  *)
ContinueStep(q) ==
    \/ \E u \in Users : Authorize(q, u)
    \/ RequestStops(q)
    \/ \E i \in Invites, u \in Users, r \in ManageableMemberRole : InviteMember(q, i, u, r)
    \/ \E i \in Invites : LookUpMember(q, i)
    \/ CreateMember(q)
    \/ \E u \in Users, r \in ManageableMemberRole : FindMember(q, u, r)
    \/ UpdateRole(q)
    \/ \E u \in Users : FindRemoved(q, u)
    \/ CountOwners(q)
    \/ DeleteMember(q) /\ role[request[q].user] # "owner"
    \/ \E r \in Repositories, m \in Models : AssertModel(q, r, m)
    \/ \E r \in Repositories : TakeDefault(q, r)
    \/ SaveModel(q)

SettlingStep(q) ==
    \/ ListInvites(q)
    \/ \E i \in Invites : RevokeInvite(q, i)
    \/ \E u \in Users : AcceptPendingInvites(q, u)
    \/ MarkAccepted(q)

RemovesOwner(q)   == DeleteMember(q) /\ role[request[q].user] = "owner"
ReplacesPolicy(q) == \E A \in SUBSET Models, m \in Models : UpdateModelPolicy(q, A, m)

LEMMA StepCases ==
  ASSUME NEW q
  PROVE  Step(q) <=> \/ ContinueStep(q) \/ SettlingStep(q)
                     \/ RemovesOwner(q) \/ ReplacesPolicy(q)
  BY DEF Step, ContinueStep, SettlingStep, RemovesOwner, ReplacesPolicy, ManageInvites,
         AcceptInvites, ManageMembers, ManageModels

(* Where a step takes its request when the others are left alone ...       *)
LEMMA ContinueSteps ==
  ASSUME TypeOK, NEW q \in Requests, ContinueStep(q)
  PROVE  \E c \in AnyRequest : Continue(q, c)
<1>1. request[q] \in AnyRequest /\ Idle \in AnyRequest
  BY RequestType DEF AnyRequest
<1>2. CASE \E u \in Users : Authorize(q, u)
  <2>1. PICK u \in Users : Authorize(q, u)
    BY <1>2
  <2> DEFINE c == [pc |-> "authorized", by |-> u, role |-> role[u], late |-> FALSE]
  <2>2. c \in Authorized
    BY <2>1 DEF Authorize, Authorized
  <2> QED
    BY <2>1, <2>2 DEF Authorize, AnyRequest
<1>3. CASE \/ RequestStops(q) \/ UpdateRole(q) \/ SaveModel(q)
           \/ DeleteMember(q) /\ role[request[q].user] # "owner"
           \/ \E i \in Invites, u \in Users, r \in ManageableMemberRole : InviteMember(q, i, u, r)
  <2>1. Finish(q)
    BY <1>3 DEF RequestStops, UpdateRole, SaveModel, DeleteMember, InviteMember
  <2> QED
    BY <1>1, <2>1 DEF Finish
<1>4. CASE \E i \in Invites : LookUpMember(q, i)
  <2>1. PICK i \in Invites : LookUpMember(q, i)
    BY <1>4
  <2> DEFINE c == [pc |-> IF AlreadyMember(request[q].user) THEN "joined" ELSE "joining",
                   user |-> request[q].user, todo |-> request[q].todo,
                   late |-> request[q].late, invite |-> i]
  <2>2. request[q] \in Acceptance
    BY <1>1, <2>1, Kinds DEF LookUpMember
  <2>3. c \in Joining
    BY <2>2 DEF Acceptance, Joining
  <2> QED
    BY <2>1, <2>3 DEF LookUpMember, AnyRequest
<1>5. CASE CreateMember(q)
  <2> DEFINE c == [request[q] EXCEPT !.pc = "joined"]
  <2>1. request[q] \in Joining
    BY <1>1, <1>5, Kinds DEF CreateMember
  <2>2. c \in Joining
    BY <2>1 DEF Joining
  <2> QED
    BY <1>5, <2>2 DEF CreateMember, AnyRequest
<1>6. CASE \E u \in Users, r \in ManageableMemberRole : FindMember(q, u, r)
  <2>1. PICK u \in Users, r \in ManageableMemberRole : FindMember(q, u, r)
    BY <1>6
  <2>2. [pc |-> "changing", user |-> u, role |-> r] \in RoleChange
    BY DEF RoleChange
  <2> QED
    BY <2>1, <2>2 DEF FindMember, AnyRequest
<1>7. CASE \E u \in Users : FindRemoved(q, u)
  <2>1. PICK u \in Users : FindRemoved(q, u)
    BY <1>7
  <2>2. request[q] \in Authorized
    BY <1>1, <2>1, Kinds DEF FindRemoved, ByOwner
  <2> DEFINE c == [pc |-> IF role[u] = "owner" THEN "counting" ELSE "deleting",
                   by |-> request[q].by, user |-> u, late |-> request[q].late]
  <2>3. c \in Removal
    BY <2>2 DEF Authorized, Removal
  <2> QED
    BY <2>1, <2>3 DEF FindRemoved, AnyRequest
<1>8. CASE CountOwners(q)
  <2> DEFINE c == [request[q] EXCEPT !.pc = "deleting"]
  <2>1. request[q] \in Removal
    BY <1>1, <1>8, Kinds DEF CountOwners
  <2>2. c \in Removal
    BY <2>1 DEF Removal
  <2> QED
    BY <1>8, <2>2 DEF CountOwners, AnyRequest
<1>9. CASE \E r \in Repositories, m \in Models : AssertModel(q, r, m)
  <2>1. PICK r \in Repositories, m \in Models : AssertModel(q, r, m)
    BY <1>9
  <2>2. [pc |-> "saving", repository |-> r, model |-> m, late |-> FALSE] \in ModelChoice
    BY DEF ModelChoice
  <2> QED
    BY <2>1, <2>2 DEF AssertModel, AnyRequest
<1>10. CASE \E r \in Repositories : TakeDefault(q, r)
  <2>1. PICK r \in Repositories : TakeDefault(q, r)
    BY <1>10
  <2>2. DefaultModel \in Models
    BY OrganizationAssumption DEF DefaultModel, TypeOK, NoPolicy, ModelPolicy
  <2>3. [pc |-> "registering", repository |-> r, model |-> DefaultModel, late |-> FALSE]
          \in ModelChoice
    BY <2>2 DEF ModelChoice
  <2> QED
    BY <2>1, <2>3 DEF TakeDefault, AnyRequest
<1> QED
  BY <1>2, <1>3, <1>4, <1>5, <1>6, <1>7, <1>8, <1>9, <1>10 DEF ContinueStep

(* ... and when invitations that others hold are settled.                  *)
LEMMA SettlingSteps ==
  ASSUME TypeOK, NEW q \in Requests, SettlingStep(q)
  PROVE  \E c \in AnyRequest, S \in SUBSET Invites, s \in {"accepted", "expired", "revoked"} :
           /\ ContinueSettling(q, c, S) /\ Settle(S, s)
           /\ UNCHANGED <<memberVars, modelVars>>
           /\ s = "accepted" <=> MarkAccepted(q)
           /\ MarkAccepted(q) => S = {request[q].invite}
           /\ \/ c = Idle
              \/ /\ MarkAccepted(q) /\ c.pc = "accepting" /\ c.user = request[q].user
                 /\ c.todo = request[q].todo \ S /\ c.late = request[q].late \ S
              \/ \E u \in Users :
                   /\ c.pc = "accepting" /\ c.user = u /\ c.late = {}
                   /\ c.todo = ValidInvites(u) /\ S = ExpiredInvites(u)
<1>1. request[q] \in AnyRequest /\ Idle \in AnyRequest /\ due \in SUBSET Invites
  BY RequestType DEF AnyRequest, TypeOK
<1>2. ASSUME MarkAccepted(q)
      PROVE  /\ request[q] \in Joining /\ request[q].pc = "joined"
             /\ ~\E u \in Users : AcceptPendingInvites(q, u)
             /\ ~ListInvites(q) /\ ~\E i \in Invites : RevokeInvite(q, i)
  BY <1>1, <1>2, Kinds
  DEF MarkAccepted, AcceptPendingInvites, ListInvites, RevokeInvite, ByOwner, Idle
<1>3. CASE ListInvites(q)
  BY <1>1, <1>2, <1>3 DEF ListInvites
<1>4. CASE \E i \in Invites : RevokeInvite(q, i)
  <2>1. PICK i \in Invites : RevokeInvite(q, i)
    BY <1>4
  <2>2. ~MarkAccepted(q) /\ {i} \in SUBSET Invites
    BY <1>2, <1>4
  <2> QED
    BY <1>1, <2>1, <2>2 DEF RevokeInvite
<1>5. CASE \E u \in Users : AcceptPendingInvites(q, u)
  <2>1. PICK u \in Users : AcceptPendingInvites(q, u)
    BY <1>5
  <2> DEFINE c == [pc |-> "accepting", user |-> u, todo |-> ValidInvites(u), late |-> {}]
  <2>2. c \in Acceptance /\ ExpiredInvites(u) \in SUBSET Invites
    BY <1>1 DEF Acceptance, ValidInvites, ExpiredInvites
  <2>3. c \in AnyRequest /\ ~MarkAccepted(q)
    BY <1>2, <1>5, <2>2 DEF AnyRequest
  <2>4. /\ ContinueSettling(q, IF ValidInvites(u) = {} THEN Idle ELSE c, ExpiredInvites(u))
        /\ Settle(ExpiredInvites(u), "expired") /\ UNCHANGED <<memberVars, modelVars>>
    BY <2>1 DEF AcceptPendingInvites
  <2>5. CASE ValidInvites(u) = {}
    <3>1. ContinueSettling(q, Idle, ExpiredInvites(u))
      BY <2>4, <2>5
    <3> QED
      BY <1>1, <2>2, <2>3, <2>4, <3>1
  <2>6. CASE ValidInvites(u) # {}
    <3>1. ContinueSettling(q, c, ExpiredInvites(u))
      BY <2>4, <2>6
    <3>2. c.pc = "accepting" /\ c.user = u /\ c.todo = ValidInvites(u)
      OBVIOUS
    <3> QED
      BY <2>2, <2>3, <2>4, <3>1, <3>2
  <2> QED
    BY <2>5, <2>6
<1>6. CASE MarkAccepted(q)
  <2> DEFINE i == request[q].invite
             rest == request[q].todo \ {i}
             c == [pc |-> "accepting", user |-> request[q].user, todo |-> rest,
                   late |-> request[q].late \ {i}]
  <2>1. c \in Acceptance /\ {i} \in SUBSET Invites
    BY <1>2, <1>6 DEF Acceptance, Joining
  <2>2. c \in AnyRequest
    BY <2>1 DEF AnyRequest
  <2>3. /\ ContinueSettling(q, IF rest = {} THEN Idle ELSE c, {i})
        /\ Settle({i}, "accepted") /\ UNCHANGED <<memberVars, modelVars>>
    BY <1>6 DEF MarkAccepted
  <2>4. CASE rest = {}
    <3>1. ContinueSettling(q, Idle, {i})
      BY <2>3, <2>4
    <3> QED
      BY <1>1, <1>6, <2>1, <2>3, <3>1
  <2>5. CASE rest # {}
    <3>1. ContinueSettling(q, c, {i})
      BY <2>3, <2>5
    <3>2. /\ c.pc = "accepting" /\ c.user = request[q].user
          /\ c.todo = rest /\ c.late = request[q].late \ {i}
      OBVIOUS
    <3> QED
      BY <1>6, <2>1, <2>2, <2>3, <3>1, <3>2
  <2> QED
    BY <2>4, <2>5
<1> QED
  BY <1>3, <1>4, <1>5, <1>6 DEF SettlingStep

(* The other requests keep their place and what they have read; only that  *)
(* it is late may be noted.                                                *)
LEMMA OthersStay ==
  ASSUME TypeOK, NEW q \in Requests, Step(q)
  PROVE  /\ request' \in [Requests -> AnyRequest]
         /\ \A p \in Requests \ {q} :
              \/ request'[p] = request[p]
              \/ /\ request[p].pc \in Answering /\ SettlingStep(q)
                 /\ \E S \in SUBSET Invites :
                      request'[p] = [request[p] EXCEPT !.late = @ \cup (S \cap request[p].todo)]
              \/ /\ request[p].pc \in {"authorized", "counting", "deleting"} /\ RemovesOwner(q)
                 /\ request'[p] = [request[p] EXCEPT !.late = TRUE]
              \/ /\ request[p].pc \in {"saving", "registering"} /\ ReplacesPolicy(q)
                 /\ request'[p] = [request[p] EXCEPT !.late = TRUE]
<1>1. request \in [Requests -> AnyRequest]
  BY RequestType
<1>2. CASE ContinueStep(q)
  BY <1>1, <1>2, ContinueSteps, ContinueKeeps
<1>3. CASE SettlingStep(q)
  <2>1. PICK c \in AnyRequest, S \in SUBSET Invites : ContinueSettling(q, c, S)
    BY <1>3, SettlingSteps
  <2>2. /\ request' \in [Requests -> AnyRequest]
        /\ \A p \in Requests \ {q} :
             request'[p] = IF request[p].pc \in Answering
                           THEN [request[p] EXCEPT !.late = @ \cup (S \cap request[p].todo)]
                           ELSE request[p]
    BY <1>1, <2>1, SettlingKeeps
  <2> QED
    BY <1>3, <2>2
<1>4. CASE RemovesOwner(q)
  <2>1. OwnerGone(q)
    BY <1>4 DEF RemovesOwner, DeleteMember
  <2>2. {"authorized", "counting", "deleting"}
          \in SUBSET {"authorized", "counting", "deleting", "saving", "registering"}
    OBVIOUS
  <2> QED
    BY <1>1, <1>4, <2>1, <2>2, OvertakenKeeps DEF OwnerGone
<1>5. CASE ReplacesPolicy(q)
  <2>1. request' = [p \in Requests |->
           IF p = q THEN Idle
           ELSE IF request[p].pc \in {"saving", "registering"}
                THEN [request[p] EXCEPT !.late = TRUE] ELSE request[p]]
    BY <1>5 DEF ReplacesPolicy, UpdateModelPolicy
  <2>2. {"saving", "registering"}
          \in SUBSET {"authorized", "counting", "deleting", "saving", "registering"}
    OBVIOUS
  <2> QED
    BY <1>1, <1>5, <2>1, <2>2, OvertakenKeeps
<1> QED
  BY <1>2, <1>3, <1>4, <1>5, StepCases

----------------------------------------------------------------------------
(* Types, and what a call of /me holds *)

(* Settling changes the status of pending invitations of S.                *)
LEMMA SettleFacts ==
  ASSUME TypeOK, NEW S \in SUBSET Invites, NEW s \in {"accepted", "expired", "revoked"},
         Settle(S, s)
  PROVE  /\ invite' \in [Invites -> {NoInvite} \cup Invite]
         /\ due' \subseteq Invites /\ honoured' \subseteq Invites
         /\ \A i \in Invites :
              /\ i \in S /\ Pending(i) =>
                   /\ invite'[i].status = s /\ invite'[i] \in Invite
                   /\ invite'[i].user = invite[i].user /\ invite'[i].role = invite[i].role
              /\ i \notin S \/ ~Pending(i) => invite'[i] = invite[i]
              /\ i \in honoured' <=> i \in honoured /\ (s = "accepted" \/ i \notin S \/ ~Pending(i))
<1>1. \A i \in Invites : Pending(i) => invite[i] \in Invite
  BY DEF TypeOK, Pending, NoInvite
<1>2. \A i \in Invites : Pending(i) =>
        LET d == [invite[i] EXCEPT !.status = s]
        IN  d \in Invite /\ d.status = s /\ d.user = invite[i].user /\ d.role = invite[i].role
  BY <1>1 DEF Invite, InviteStatus
<1>3. \A i \in Invites :
        invite'[i] = IF i \in S /\ Pending(i) THEN [invite[i] EXCEPT !.status = s] ELSE invite[i]
  BY DEF Settle
<1>4. invite' \in [Invites -> {NoInvite} \cup Invite]
  <2>1. invite' = [i \in Invites |-> invite'[i]]
    BY DEF Settle
  <2>2. \A i \in Invites : invite'[i] \in {NoInvite} \cup Invite
    BY <1>2, <1>3 DEF TypeOK
  <2> QED
    BY <2>1, <2>2
<1> QED
  BY <1>2, <1>3, <1>4 DEF Settle, TypeOK

LEMMA TypeInit == Init => TypeInv
<1> SUFFICES ASSUME Init PROVE TypeInv
  OBVIOUS
<1>1. TypeOK
  BY DEF Init, TypeOK, MemberRole
<1>2. \A q \in Requests : Answers(q)
  BY DEF Init, Answers, Answering, Idle
<1> QED
  BY <1>1, <1>2 DEF TypeInv

LEMMA TypeOKNext == TypeInv /\ [Next]_vars => TypeOK'
<1> SUFFICES ASSUME TypeInv, [Next]_vars PROVE TypeOK'
  OBVIOUS
<1>0. TypeOK /\ \A q \in Requests : Answers(q)
  BY DEF TypeInv
<1> USE <1>0
<1>1. CASE UNCHANGED vars
  BY <1>1 DEF vars, memberVars, inviteVars, modelVars, TypeOK
<1>2. CASE \E i \in Invites : BecomesDue(i)
  BY <1>2 DEF BecomesDue, memberVars, modelVars, TypeOK
<1>3. ASSUME NEW q \in Requests, Step(q) PROVE TypeOK'
  <2>1. request \in [Requests -> AnyRequest] /\ request' \in [Requests -> AnyRequest]
    BY <1>3, RequestType, OthersStay
  <2> DEFINE MembersOK == role' \in [Users -> {"none"} \cup MemberRole] /\ raced' \in BOOLEAN
             InvitesOK == /\ invite' \in [Invites -> {NoInvite} \cup Invite]
                          /\ due' \subseteq Invites /\ honoured' \subseteq Invites
             ModelsOK  == /\ policy' \in {NoPolicy} \cup ModelPolicy
                          /\ setting' \in [Repositories -> {NoModel} \cup Models]
  <2>2. UNCHANGED memberVars => MembersOK
    BY DEF memberVars, TypeOK
  <2>3. UNCHANGED inviteVars => InvitesOK
    BY DEF inviteVars, TypeOK
  <2>4. UNCHANGED modelVars => ModelsOK
    BY DEF modelVars, TypeOK
  <2>5. CASE ContinueStep(q)
    <3>1. CASE \E i \in Invites, u \in Users, r \in ManageableMemberRole : InviteMember(q, i, u, r)
      <4>1. PICK i \in Invites, u \in Users, r \in ManageableMemberRole : InviteMember(q, i, u, r)
        BY <3>1
      <4>2. [status |-> "pending", user |-> u, role |-> r] \in Invite
        BY DEF Invite, InviteStatus
      <4>3. InvitesOK /\ UNCHANGED <<memberVars, modelVars>>
        BY <4>1, <4>2 DEF InviteMember, TypeOK
      <4> QED
        BY <2>1, <2>2, <2>4, <4>3 DEF TypeOK, AnyRequest
    <3>2. CASE CreateMember(q)
      <4>1. request[q] \in Joining
        BY <2>1, <3>2, Kinds DEF CreateMember
      <4> DEFINE i == request[q].invite
      <4>2. i \in Invites /\ invite[i] \in Invite
        <5>1. i \in Invites /\ i \in request[q].todo
          BY <3>2, <4>1 DEF CreateMember, Joining, Answers, Answering
        <5>2. invite[i] # NoInvite
          BY <3>2, <5>1 DEF CreateMember, Answers, Answering
        <5> QED
          BY <5>1, <5>2 DEF TypeOK
      <4>3. MembersOK /\ InvitesOK /\ UNCHANGED modelVars
        BY <3>2, <4>2 DEF CreateMember, TypeOK, Invite, MemberRole, ManageableMemberRole
      <4> QED
        BY <2>1, <2>4, <4>3 DEF TypeOK, AnyRequest
    <3>3. CASE UpdateRole(q)
      <4>1. request[q].role \in ManageableMemberRole
        BY <2>1, <3>3, Kinds DEF UpdateRole, RoleChange
      <4>2. MembersOK /\ UNCHANGED <<inviteVars, modelVars>>
        BY <3>3, <4>1 DEF UpdateRole, TypeOK, MemberRole, ManageableMemberRole
      <4> QED
        BY <2>1, <2>3, <2>4, <4>2 DEF TypeOK, AnyRequest
    <3>4. CASE DeleteMember(q)
      <4>1. MembersOK /\ UNCHANGED <<inviteVars, modelVars>>
        <5>1. role' \in [Users -> {"none"} \cup MemberRole]
          BY <3>4 DEF DeleteMember, TypeOK
        <5>2. raced' \in BOOLEAN
          BY <2>1, <3>4 DEF DeleteMember
        <5> QED
          BY <3>4, <5>1, <5>2 DEF DeleteMember
      <4> QED
        BY <2>1, <2>3, <2>4, <4>1 DEF TypeOK, AnyRequest
    <3>5. CASE SaveModel(q)
      <4>1. request[q] \in ModelChoice
        BY <2>1, <3>5, Kinds DEF SaveModel
      <4>2. ModelsOK /\ UNCHANGED <<memberVars, inviteVars>>
        BY <3>5, <4>1 DEF SaveModel, TypeOK, ModelChoice
      <4> QED
        BY <2>1, <2>2, <2>3, <4>2 DEF TypeOK, AnyRequest
    <3>6. CASE UNCHANGED <<memberVars, inviteVars, modelVars>>
      BY <2>1, <2>2, <2>3, <2>4, <3>6 DEF TypeOK, AnyRequest
    <3> QED
      BY <2>5, <3>1, <3>2, <3>3, <3>4, <3>5, <3>6
      DEF ContinueStep, Authorize, RequestStops, LookUpMember, FindMember, FindRemoved,
          CountOwners, AssertModel, TakeDefault
  <2>6. CASE SettlingStep(q)
    <3>1. InvitesOK /\ UNCHANGED <<memberVars, modelVars>>
      BY <2>6, SettlingSteps, SettleFacts
    <3> QED
      BY <2>1, <2>2, <2>4, <3>1 DEF TypeOK, AnyRequest
  <2>7. CASE RemovesOwner(q)
    <3>1. MembersOK /\ UNCHANGED <<inviteVars, modelVars>>
      <4>1. role' \in [Users -> {"none"} \cup MemberRole]
        BY <2>7 DEF RemovesOwner, DeleteMember, TypeOK
      <4>2. raced' \in BOOLEAN
        BY <2>7 DEF RemovesOwner, DeleteMember
      <4> QED
        BY <2>7, <4>1, <4>2 DEF RemovesOwner, DeleteMember
    <3> QED
      BY <2>1, <2>3, <2>4, <3>1 DEF TypeOK, AnyRequest
  <2>8. CASE ReplacesPolicy(q)
    <3>1. PICK A \in SUBSET Models, m \in Models : UpdateModelPolicy(q, A, m)
      BY <2>8 DEF ReplacesPolicy
    <3>2. [allowed |-> A, default |-> m] \in ModelPolicy
      <4>1. m \in A
        BY <3>1 DEF UpdateModelPolicy
      <4>2. A # {}
        BY <4>1
      <4> QED
        BY <4>2 DEF ModelPolicy
    <3>3. ModelsOK /\ UNCHANGED <<memberVars, inviteVars>>
      BY <3>1, <3>2 DEF UpdateModelPolicy, AdaptedSettings, TypeOK
    <3> QED
      BY <2>1, <2>2, <2>3, <3>3 DEF TypeOK, AnyRequest
  <2> QED
    BY <1>3, <2>5, <2>6, <2>7, <2>8, StepCases
<1> QED
  BY <1>1, <1>2, <1>3, NextCases

(* What a request has read is not touched when it is noted to be late.     *)
LEMMA LateFields ==
  ASSUME NEW c \in AnyRequest, NEW T \in SUBSET Invites, c.pc \in Answering
  PROVE  LET d == [c EXCEPT !.late = T]
         IN  /\ d.pc = c.pc /\ d.user = c.user /\ d.todo = c.todo /\ d.late = T
             /\ c.pc # "accepting" => d.invite = c.invite
<1>1. CASE c.pc = "accepting"
  <2>1. c \in Acceptance
    BY <1>1, Kinds
  <2> QED
    BY <1>1, <2>1 DEF Acceptance
<1>2. CASE c.pc \in {"joining", "joined"}
  <2>1. c \in Joining
    BY <1>2, Kinds
  <2> QED
    BY <1>2, <2>1 DEF Joining
<1> QED
  BY <1>1, <1>2 DEF Answering

LEMMA LateFlag ==
  ASSUME NEW c \in AnyRequest,
         c.pc \in {"authorized", "counting", "deleting", "saving", "registering"}
  PROVE  LET d == [c EXCEPT !.late = TRUE] IN d.pc = c.pc /\ d.late = TRUE
<1>1. c \in Authorized \/ c \in Removal \/ c \in ModelChoice
  BY Kinds
<1> QED
  BY <1>1 DEF Authorized, Removal, ModelChoice

(* An invitation stays what it is, but that a pending one may be settled   *)
(* with the calls of /me that hold it being told, other than the one that  *)
(* settles it.                                                             *)
LEMMA InviteSteps ==
  ASSUME TypeInv, NEW q \in Requests, Step(q), NEW i \in Invites, invite[i] # NoInvite
  PROVE  /\ invite'[i] # NoInvite
         /\ invite'[i].user = invite[i].user /\ invite'[i].role = invite[i].role
         /\ ~SettlingStep(q) => invite'[i] = invite[i]
<1>1. TypeOK
  BY DEF TypeInv
<1>2. CASE SettlingStep(q)
  <2>1. PICK S \in SUBSET Invites, s \in {"accepted", "expired", "revoked"} : Settle(S, s)
    BY <1>1, <1>2, SettlingSteps
  <2>2. /\ i \in S /\ Pending(i) =>
             /\ invite'[i] \in Invite
             /\ invite'[i].user = invite[i].user /\ invite'[i].role = invite[i].role
        /\ i \notin S \/ ~Pending(i) => invite'[i] = invite[i]
    BY <1>1, <2>1, SettleFacts
  <2>3. NoInvite \notin Invite
    BY DEF NoInvite, Invite, InviteStatus
  <2> QED
    BY <1>2, <2>2, <2>3
<1>3. CASE ContinueStep(q)
  BY <1>1, <1>3
  DEF ContinueStep, Authorize, RequestStops, InviteMember, LookUpMember, CreateMember, FindMember,
      UpdateRole, FindRemoved, CountOwners, DeleteMember, AssertModel, TakeDefault, SaveModel,
      inviteVars, TypeOK
<1>4. CASE RemovesOwner(q) \/ ReplacesPolicy(q)
  BY <1>4 DEF RemovesOwner, ReplacesPolicy, DeleteMember, UpdateModelPolicy, inviteVars
<1> QED
  BY <1>2, <1>3, <1>4, StepCases, Zenon

(* The calls of /me that hold a snapshot while another request takes a step. *)
LEMMA OthersAnswer ==
  ASSUME TypeInv, NEW q \in Requests, Step(q), NEW p \in Requests \ {q}
  PROVE  Answers(p)'
<1>1. /\ TypeOK /\ Answers(p) /\ request \in [Requests -> AnyRequest]
      /\ request[p] \in AnyRequest
  BY RequestType DEF TypeInv
<1> SUFFICES ASSUME request'[p].pc \in Answering
             PROVE  /\ \A i \in request'[p].todo :
                         /\ invite'[i] # NoInvite /\ invite'[i].user = request'[p].user
                         /\ invite'[i].status = "pending" \/ i \in request'[p].late
                    /\ request'[p].pc # "accepting" => request'[p].invite \in request'[p].todo
  BY DEF Answers, Pending
<1>2. CASE SettlingStep(q)
  <2>1. PICK c \in AnyRequest, S \in SUBSET Invites, s \in {"accepted", "expired", "revoked"} :
           ContinueSettling(q, c, S) /\ Settle(S, s)
    BY <1>1, <1>2, SettlingSteps
  <2> DEFINE d == [request[p] EXCEPT !.late = @ \cup (S \cap request[p].todo)]
  <2>2. request'[p] = IF request[p].pc \in Answering THEN d ELSE request[p]
    BY <1>1, <2>1, SettlingKeeps
  <2>3. request[p].pc \in Answering
    BY <2>2
  <2>4. /\ request[p].todo \in SUBSET Invites
        /\ request[p].late \in SUBSET Invites
    <3>1. request[p] \in Acceptance \/ request[p] \in Joining
      BY <1>1, <2>3, Kinds DEF Answering
    <3> QED
      BY <3>1 DEF Acceptance, Joining
  <2>5. /\ d.pc = request[p].pc /\ d.user = request[p].user /\ d.todo = request[p].todo
        /\ d.late = request[p].late \cup (S \cap request[p].todo)
        /\ d.pc # "accepting" => d.invite = request[p].invite
    <3>1. (request[p].late \cup (S \cap request[p].todo)) \in SUBSET Invites
      BY <2>4
    <3> QED
      BY <1>1, <2>3, <3>1, LateFields
  <2>6. \A i \in Invites : i \notin S \/ ~Pending(i) => invite'[i] = invite[i]
    BY <1>1, <2>1, SettleFacts
  <2>7. \A i \in request[p].todo : invite'[i] # NoInvite /\ invite'[i].user = invite[i].user
    BY <1>1, <2>3, <2>4, InviteSteps DEF Answers
  <2> HIDE DEF d
  <2> QED
    BY <1>1, <2>2, <2>3, <2>4, <2>5, <2>6, <2>7 DEF Answers, Pending
<1>3. CASE ~SettlingStep(q)
  <2>1. request'[p] = request[p]
    <3>1. \/ request'[p] = request[p]
          \/ /\ request[p].pc \in {"authorized", "counting", "deleting", "saving", "registering"}
             /\ request'[p] = [request[p] EXCEPT !.late = TRUE]
      BY <1>1, <1>3, OthersStay
    <3> QED
      BY <1>1, <3>1, LateFlag DEF Answering
  <2>2. request[p].todo \in SUBSET Invites
    <3>1. request[p] \in Acceptance \/ request[p] \in Joining
      BY <1>1, <2>1, Kinds DEF Answering
    <3> QED
      BY <3>1 DEF Acceptance, Joining
  <2>3. \A i \in request[p].todo : invite'[i] = invite[i]
    BY <1>1, <1>3, <2>1, <2>2, InviteSteps DEF Answers
  <2> QED
    BY <1>1, <2>1, <2>3 DEF Answers, Pending
<1> QED
  BY <1>2, <1>3

(* The call of /me that takes the step: the snapshot shrinks by what it has *)
(* marked.                                                                 *)
LEMMA OwnAnswer ==
  ASSUME TypeInv, NEW q \in Requests, Step(q)
  PROVE  Answers(q)'
<1>1. /\ TypeOK /\ Answers(q) /\ request \in [Requests -> AnyRequest]
      /\ request[q] \in AnyRequest
  BY RequestType DEF TypeInv
<1> SUFFICES ASSUME request'[q].pc \in Answering
             PROVE  /\ \A i \in request'[q].todo :
                         /\ invite'[i] # NoInvite /\ invite'[i].user = request'[q].user
                         /\ invite'[i].status = "pending" \/ i \in request'[q].late
                    /\ request'[q].pc # "accepting" => request'[q].invite \in request'[q].todo
  BY DEF Answers, Pending
<1>2. ASSUME request[q].pc \in Answering
      PROVE  request[q].todo \in SUBSET Invites /\ request[q].late \in SUBSET Invites
  <2>1. request[q] \in Acceptance \/ request[q] \in Joining
    BY <1>1, <1>2, Kinds DEF Answering
  <2> QED
    BY <2>1 DEF Acceptance, Joining
<1>3. CASE SettlingStep(q)
  <2>1. PICK c \in AnyRequest, S \in SUBSET Invites, s \in {"accepted", "expired", "revoked"} :
           /\ ContinueSettling(q, c, S) /\ Settle(S, s)
           /\ MarkAccepted(q) => S = {request[q].invite}
           /\ \/ c = Idle
              \/ /\ MarkAccepted(q) /\ c.pc = "accepting" /\ c.user = request[q].user
                 /\ c.todo = request[q].todo \ S /\ c.late = request[q].late \ S
              \/ \E u \in Users :
                   /\ c.pc = "accepting" /\ c.user = u
                   /\ c.todo = ValidInvites(u) /\ S = ExpiredInvites(u)
    BY <1>1, <1>3, SettlingSteps
  <2>2. request'[q] = c /\ c.pc # "idle"
    BY <1>1, <2>1, SettlingKeeps DEF Answering
  <2>3. \A i \in Invites : i \notin S \/ ~Pending(i) => invite'[i] = invite[i]
    BY <1>1, <2>1, SettleFacts
  <2>4. CASE /\ MarkAccepted(q) /\ c.pc = "accepting" /\ c.user = request[q].user
             /\ c.todo = request[q].todo \ S /\ c.late = request[q].late \ S
    <3>1. request[q].pc \in Answering
      BY <2>4 DEF MarkAccepted, Answering
    <3>2. \A i \in c.todo : i \in request[q].todo /\ i \notin S /\ i \in Invites
      BY <1>2, <2>4, <3>1
    <3>3. \A i \in c.todo : invite'[i] = invite[i]
      BY <2>3, <3>2
    <3> QED
      BY <1>1, <2>2, <2>4, <3>1, <3>2, <3>3 DEF Answers, Pending
  <2>5. CASE \E u \in Users : /\ c.pc = "accepting" /\ c.user = u
                              /\ c.todo = ValidInvites(u) /\ S = ExpiredInvites(u)
    <3>1. PICK u \in Users : /\ c.pc = "accepting" /\ c.user = u
                             /\ c.todo = ValidInvites(u) /\ S = ExpiredInvites(u)
      BY <2>5
    <3>2. \A i \in c.todo : /\ i \in Invites /\ i \notin S
                            /\ invite[i].status = "pending" /\ invite[i].user = u
      BY <3>1 DEF ValidInvites, ExpiredInvites, Pending
    <3>3. \A i \in c.todo : invite'[i] = invite[i]
      BY <2>3, <3>2
    <3> QED
      BY <2>2, <3>1, <3>2, <3>3 DEF NoInvite
  <2> QED
    BY <2>1, <2>2, <2>4, <2>5 DEF Idle
<1>4. CASE ~SettlingStep(q)
  <2>1. CASE RemovesOwner(q) \/ ReplacesPolicy(q)
    <3>1. request'[q] = Idle
      BY <1>1, <2>1 DEF RemovesOwner, ReplacesPolicy, DeleteMember, OwnerGone, UpdateModelPolicy
    <3> QED
      BY <3>1 DEF Idle, Answering
  <2>2. CASE (\E i \in Invites : LookUpMember(q, i)) \/ CreateMember(q)
    <3>1. /\ request[q].pc \in Answering
          /\ request'[q].user = request[q].user /\ request'[q].todo = request[q].todo
          /\ request'[q].late = request[q].late
          /\ request'[q].invite \in request[q].todo
      <4>1. CASE \E i \in Invites : LookUpMember(q, i)
        BY <1>1, <4>1 DEF LookUpMember, Continue, Answering
      <4>2. CASE CreateMember(q)
        <5>1. request[q] \in Joining /\ request'[q] = [request[q] EXCEPT !.pc = "joined"]
          BY <1>1, <4>2, Kinds DEF CreateMember, Continue
        <5>2. request[q].pc = "joining" /\ request[q].invite \in request[q].todo
          BY <1>1, <4>2 DEF CreateMember, Answers, Answering
        <5> QED
          BY <5>1, <5>2 DEF Joining, Answering
      <4> QED
        BY <2>2, <4>1, <4>2
    <3>2. \A i \in request[q].todo : invite'[i] = invite[i]
      BY <1>1, <1>2, <1>4, <3>1, InviteSteps DEF Answers
    <3> QED
      BY <1>1, <3>1, <3>2 DEF Answers, Pending
  <2>3. CASE ContinueStep(q) /\ ~((\E i \in Invites : LookUpMember(q, i)) \/ CreateMember(q))
    <3>1. request'[q].pc \notin Answering
      <4>1. CASE CountOwners(q)
        <5>1. request[q] \in Removal /\ request'[q] = [request[q] EXCEPT !.pc = "deleting"]
          BY <1>1, <4>1, Kinds DEF CountOwners, Continue
        <5> QED
          BY <5>1 DEF Removal, Answering
      <4>2. CASE ~CountOwners(q)
        BY <1>1, <2>3, <4>2
        DEF ContinueStep, Authorize, RequestStops, InviteMember, FindMember, UpdateRole, FindRemoved,
            DeleteMember, AssertModel, TakeDefault, SaveModel, Finish, Continue, Idle, Answering
      <4> QED
        BY <4>1, <4>2
    <3> QED
      BY <3>1
  <2> QED
    BY <1>4, <2>1, <2>2, <2>3, StepCases
<1> QED
  BY <1>3, <1>4

LEMMA TypeNext == TypeInv /\ [Next]_vars => TypeInv'
<1> SUFFICES ASSUME TypeInv, [Next]_vars PROVE TypeInv'
  OBVIOUS
<1>1. TypeOK'
  BY TypeOKNext
<1>2. ASSUME NEW p \in Requests PROVE Answers(p)'
  <2>1. CASE UNCHANGED vars \/ \E i \in Invites : BecomesDue(i)
    BY <2>1 DEF BecomesDue, vars, inviteVars, TypeInv, Answers, Pending
  <2>2. ASSUME NEW q \in Requests, Step(q) PROVE Answers(p)'
    BY <2>2, OthersAnswer, OwnAnswer
  <2> QED
    BY <2>1, <2>2, NextCases
<1> QED
  BY <1>1, <1>2 DEF TypeInv

----------------------------------------------------------------------------
(* Invitations that made somebody a member *)

(* An invitation is open because it was, or because it has just been made. *)
LEMMA OpenBefore ==
  ASSUME TypeInv, NEW q \in Requests, Step(q), NEW i \in Invites, invite'[i].status = "pending"
  PROVE  \/ Pending(i) /\ invite'[i] = invite[i]
         \/ /\ invite[i] = NoInvite
            /\ \E u \in Users, r \in ManageableMemberRole : InviteMember(q, i, u, r)
<1>1. TypeOK
  BY DEF TypeInv
<1>2. CASE SettlingStep(q)
  <2>1. PICK S \in SUBSET Invites, s \in {"accepted", "expired", "revoked"} : Settle(S, s)
    BY <1>1, <1>2, SettlingSteps
  <2>2. /\ i \in S /\ Pending(i) => invite'[i].status = s
        /\ i \notin S \/ ~Pending(i) => invite'[i] = invite[i]
    BY <1>1, <2>1, SettleFacts
  <2> QED
    BY <2>2 DEF Pending
<1>3. CASE ~SettlingStep(q) /\ invite[i] # NoInvite
  BY <1>3, InviteSteps DEF Pending
<1>4. CASE ~SettlingStep(q) /\ invite[i] = NoInvite
  <2>1. invite'[i] # invite[i]
    BY <1>4 DEF NoInvite
  <2>2. ASSUME NEW j \in Invites, NEW u \in Users, NEW r \in ManageableMemberRole,
               InviteMember(q, j, u, r)
        PROVE  j = i
    BY <1>1, <2>1, <2>2 DEF InviteMember, TypeOK
  <2>3. \E j \in Invites, u \in Users, r \in ManageableMemberRole : InviteMember(q, j, u, r)
    BY <1>3, <1>4, <2>1, StepCases
    DEF ContinueStep, RemovesOwner, ReplacesPolicy, Authorize, RequestStops, LookUpMember,
        CreateMember, FindMember, UpdateRole, FindRemoved, CountOwners, DeleteMember, AssertModel,
        TakeDefault, SaveModel, UpdateModelPolicy, inviteVars
  <2> QED
    BY <1>4, <2>2, <2>3
<1> QED
  BY <1>2, <1>3, <1>4

(* What was honoured stays so while it is open or accepted. *)
LEMMA HonouredKept ==
  ASSUME TypeInv, NEW q \in Requests, Step(q), NEW i \in honoured,
         invite'[i].status \in {"pending", "accepted"}
  PROVE  i \in honoured'
<1>1. TypeOK /\ i \in Invites
  BY DEF TypeInv, TypeOK
<1>2. CASE SettlingStep(q)
  <2>1. PICK S \in SUBSET Invites, s \in {"accepted", "expired", "revoked"} : Settle(S, s)
    BY <1>1, <1>2, SettlingSteps
  <2>2. /\ i \in S /\ Pending(i) => invite'[i].status = s
        /\ i \in honoured' <=> i \in honoured /\ (s = "accepted" \/ i \notin S \/ ~Pending(i))
    BY <1>1, <2>1, SettleFacts
  <2> QED
    BY <2>2
<1>3. CASE ContinueStep(q)
  BY <1>3
  DEF ContinueStep, Authorize, RequestStops, InviteMember, LookUpMember, CreateMember, FindMember,
      UpdateRole, FindRemoved, CountOwners, DeleteMember, AssertModel, TakeDefault, SaveModel,
      inviteVars
<1>4. CASE RemovesOwner(q) \/ ReplacesPolicy(q)
  BY <1>4 DEF RemovesOwner, ReplacesPolicy, DeleteMember, UpdateModelPolicy, inviteVars
<1> QED
  BY <1>2, <1>3, <1>4, StepCases, Zenon

(* Only CreateMember makes somebody a member; owners are never made, and   *)
(* an owner stays one but for his removal.                                 *)
LEMMA RoleSteps ==
  ASSUME TypeInv, NEW q \in Requests, Step(q), NEW u \in Users, role'[u] # role[u]
  PROVE  \/ CreateMember(q) /\ u = request[q].user
         \/ UpdateRole(q) /\ u = request[q].user /\ role[u] # "none"
         \/ DeleteMember(q) /\ u = request[q].user /\ role'[u] = "none"
<1>1. TypeOK
  BY DEF TypeInv
<1>2. CASE SettlingStep(q)
  BY <1>1, <1>2, SettlingSteps DEF memberVars
<1>3. CASE ContinueStep(q) /\ ~(CreateMember(q) \/ UpdateRole(q) \/ DeleteMember(q))
  BY <1>3
  DEF ContinueStep, Authorize, RequestStops, InviteMember, LookUpMember, FindMember, FindRemoved,
      CountOwners, AssertModel, TakeDefault, SaveModel, memberVars
<1>4. CASE ReplacesPolicy(q)
  BY <1>4 DEF ReplacesPolicy, UpdateModelPolicy, memberVars
<1>5. CASE CreateMember(q) \/ UpdateRole(q) \/ DeleteMember(q)
  <2>1. role \in [Users -> {"none"} \cup MemberRole]
    BY <1>1 DEF TypeOK
  <2> QED
    BY <1>5, <2>1 DEF CreateMember, UpdateRole, DeleteMember
<1> QED
  BY <1>2, <1>3, <1>4, <1>5, StepCases DEF RemovesOwner, ContinueStep

(* The invitation that a call of /me has in hand is one of its user's. *)
LEMMA InHand ==
  ASSUME TypeInv, NEW q \in Requests, request[q].pc \in {"joining", "joined"}
  PROVE  /\ request[q] \in Joining
         /\ request[q].invite \in Invites /\ request[q].invite \in request[q].todo
         /\ request[q].user \in Users
         /\ invite[request[q].invite] \in Invite
         /\ invite[request[q].invite].user = request[q].user
         /\ Pending(request[q].invite) \/ request[q].invite \in request[q].late
<1>1. TypeOK /\ Answers(q) /\ request[q] \in Joining
  BY RequestType, Kinds DEF TypeInv
<1>2. request[q].invite \in request[q].todo /\ request[q].pc \in Answering
  BY <1>1 DEF Answers, Answering
<1> QED
  BY <1>1, <1>2 DEF Answers, TypeOK, Joining

LEMMA HonouredInit == Init => HonouredInv
  BY DEF Init, HonouredInv, AcceptedInviteWasHonoured, Pending, NoInvite, Idle

LEMMA HonouredStep ==
  ASSUME TypeInv, HonouredInv, NEW q \in Requests, Step(q)
  PROVE  HonouredInv'
<1>1. TypeOK /\ TypeInv'
  BY TypeNext, NextCases DEF TypeInv
<1>2. TypeOK'
  BY <1>1 DEF TypeInv
<1>3. ASSUME NEW i \in Invites, Pending(i)', role'[invite'[i].user] # "none"
      PROVE  i \in honoured'
  <2>1. invite'[i].status = "pending"
    BY <1>3 DEF Pending
  <2>2. CASE \E u \in Users, r \in ManageableMemberRole : InviteMember(q, i, u, r)
    <3>1. PICK u \in Users, r \in ManageableMemberRole : InviteMember(q, i, u, r)
      BY <2>2
    <3>2. invite'[i].user = u
      BY <1>1, <3>1 DEF InviteMember, TypeOK
    <3> QED
      BY <1>3, <3>1, <3>2 DEF InviteMember, memberVars
  <2>3. CASE Pending(i) /\ invite'[i] = invite[i]
    <3> DEFINE u == invite[i].user
    <3>1. u \in Users
      BY <1>1, <2>3 DEF TypeOK, Pending, NoInvite, Invite
    <3>2. CASE role[u] # "none"
      BY <2>1, <2>3, <3>2, HonouredKept DEF HonouredInv
    <3>3. CASE role[u] = "none"
      <4>1. role'[u] # role[u]
        BY <1>3, <2>3, <3>3
      <4>2. CreateMember(q) /\ u = request[q].user
        BY <1>3, <2>3, <3>1, <3>3, <4>1, RoleSteps
      <4> QED
        BY <2>3, <4>2 DEF CreateMember
    <3> QED
      BY <3>2, <3>3
  <2> QED
    BY <2>1, <2>2, <2>3, OpenBefore
<1>4. ASSUME NEW p \in Requests, request'[p].pc = "joined", Pending(request[p].invite)'
      PROVE  request'[p].invite \in honoured'
  <2> DEFINE i == request'[p].invite
  <2>1. i \in Invites /\ invite'[i].status = "pending"
    <3>1. request'[p] \in AnyRequest
      BY <1>1, OthersStay
    <3>2. request'[p] \in Joining
      BY <1>4, <3>1, Kinds
    <3> QED
      BY <1>4, <3>2 DEF Joining, Pending
  <2>2. ASSUME request[p].pc = "joined", request[p].invite = i
        PROVE  i \in honoured'
    <3>1. invite[i] \in Invite
      BY <2>2, InHand
    <3>2. Pending(i)
      BY <2>1, <3>1, OpenBefore DEF NoInvite, Invite
    <3> QED
      BY <2>1, <2>2, <3>2, HonouredKept DEF HonouredInv
  <2>3. CASE p # q
    <3>1. request[p] \in AnyRequest
      BY <1>1, RequestType
    <3>2. \/ request'[p] = request[p]
          \/ /\ request[p].pc \in Answering
             /\ \E S \in SUBSET Invites :
                  request'[p] = [request[p] EXCEPT !.late = @ \cup (S \cap request[p].todo)]
          \/ /\ request[p].pc \in {"authorized", "counting", "deleting", "saving", "registering"}
             /\ request'[p] = [request[p] EXCEPT !.late = TRUE]
      BY <1>1, <2>3, OthersStay
    <3>3. request[p].pc = "joined" /\ request[p].invite = i
      <4>1. CASE request'[p] = request[p]
        BY <1>4, <4>1
      <4>2. CASE /\ request[p].pc \in Answering
                 /\ \E S \in SUBSET Invites :
                      request'[p] = [request[p] EXCEPT !.late = @ \cup (S \cap request[p].todo)]
        <5>1. PICK S \in SUBSET Invites :
                 request'[p] = [request[p] EXCEPT !.late = @ \cup (S \cap request[p].todo)]
          BY <4>2
        <5>2. request[p] \in Acceptance \/ request[p] \in Joining
          BY <3>1, <4>2, Kinds DEF Answering
        <5>3. (request[p].late \cup (S \cap request[p].todo)) \in SUBSET Invites
          BY <5>2 DEF Acceptance, Joining
        <5> QED
          BY <1>4, <3>1, <4>2, <5>1, <5>3, LateFields
      <4>3. CASE /\ request[p].pc \in {"authorized", "counting", "deleting", "saving",
                                       "registering"}
                 /\ request'[p] = [request[p] EXCEPT !.late = TRUE]
        BY <1>4, <3>1, <4>3, LateFlag
      <4> QED
        BY <3>2, <4>1, <4>2, <4>3
    <3> QED
      BY <2>2, <3>3
  <2>4. CASE p = q
    <3>1. CASE \E j \in Invites : LookUpMember(q, j)
      <4>1. PICK j \in Invites : LookUpMember(q, j)
        BY <3>1
      <4>2. /\ i = j /\ AlreadyMember(request[q].user) /\ honoured' = honoured /\ invite' = invite
            /\ request[q].pc \in Answering /\ j \in request[q].todo
        BY <1>1, <1>4, <2>4, <4>1, RequestType DEF LookUpMember, Continue, Answering, inviteVars
      <4>3. invite[j].user = request[q].user /\ Pending(j)
        BY <2>1, <4>2 DEF TypeInv, Answers, Pending
      <4> QED
        BY <4>2, <4>3 DEF HonouredInv, AlreadyMember
    <3>2. CASE CreateMember(q)
      <4>1. request[q] \in Joining /\ request'[q] = [request[q] EXCEPT !.pc = "joined"]
        BY <1>1, <3>2, InHand, RequestType DEF CreateMember, Continue
      <4>2. i = request[q].invite /\ invite' = invite
        BY <2>4, <3>2, <4>1 DEF Joining, CreateMember
      <4>3. Pending(i) /\ invite[i].user = request[q].user
        BY <2>1, <3>2, <4>2, InHand DEF Pending, CreateMember
      <4> QED
        BY <2>1, <3>2, <4>3 DEF CreateMember
    <3>3. CASE ~((\E j \in Invites : LookUpMember(q, j)) \/ CreateMember(q))
      <4>1. CASE SettlingStep(q)
        <5>1. PICK c \in AnyRequest, S \in SUBSET Invites :
                 ContinueSettling(q, c, S) /\ (c = Idle \/ c.pc = "accepting")
          BY <1>1, <4>1, SettlingSteps
        <5>2. request'[q] = c
          BY <1>1, <5>1, RequestType, SettlingKeeps
        <5> QED
          BY <1>4, <2>4, <5>1, <5>2 DEF Idle
      <4>2. CASE CountOwners(q)
        <5>1. request[q] \in Removal /\ request'[q] = [request[q] EXCEPT !.pc = "deleting"]
          BY <1>1, <4>2, Kinds, RequestType DEF CountOwners, Continue
        <5> QED
          BY <1>4, <2>4, <5>1 DEF Removal
      <4>3. CASE RemovesOwner(q) \/ ReplacesPolicy(q)
        <5>1. request'[q] = Idle
          BY <1>1, <4>3 DEF RemovesOwner, ReplacesPolicy, DeleteMember, OwnerGone,
                            UpdateModelPolicy
        <5> QED
          BY <1>4, <2>4, <5>1 DEF Idle
      <4>4. CASE ContinueStep(q) /\ ~CountOwners(q)
        <5>1. request \in [Requests -> AnyRequest]
          BY <1>1, RequestType
        <5> QED
          BY <1>4, <2>4, <3>3, <4>4, <5>1
          DEF ContinueStep, Authorize, RequestStops, InviteMember, FindMember, UpdateRole,
              FindRemoved, DeleteMember, AssertModel, TakeDefault, SaveModel, Finish, Continue, Idle
      <4> QED
        BY <4>1, <4>2, <4>3, <4>4, StepCases
    <3> QED
      BY <3>1, <3>2, <3>3
  <2> QED
    BY <2>3, <2>4
<1>5. ASSUME NEW i \in Invites, invite'[i].status = "accepted"
      PROVE  i \in honoured'
  <2>1. CASE invite[i].status = "accepted"
    BY <1>5, <2>1, HonouredKept DEF HonouredInv, AcceptedInviteWasHonoured
  <2>2. CASE invite[i].status # "accepted"
    <3>1. invite'[i] # invite[i]
      BY <1>5, <2>2
    <3>2. CASE invite[i] = NoInvite
      <4>1. ~SettlingStep(q)
        <5>1. ASSUME SettlingStep(q) PROVE FALSE
          <6>1. PICK S \in SUBSET Invites, s \in {"accepted", "expired", "revoked"} : Settle(S, s)
            BY <1>1, <5>1, SettlingSteps
          <6>2. i \notin S \/ ~Pending(i) => invite'[i] = invite[i]
            BY <1>1, <6>1, SettleFacts
          <6> QED
            BY <3>1, <3>2, <6>2 DEF Pending, NoInvite
        <5> QED
          BY <5>1
      <4>2. \E j \in Invites, u \in Users, r \in ManageableMemberRole : InviteMember(q, j, u, r)
        BY <3>1, <4>1, StepCases
        DEF ContinueStep, RemovesOwner, ReplacesPolicy, Authorize, RequestStops, LookUpMember,
            CreateMember, FindMember, UpdateRole, FindRemoved, CountOwners, DeleteMember,
            AssertModel, TakeDefault, SaveModel, UpdateModelPolicy, inviteVars
      <4> QED
        BY <1>1, <1>5, <3>1, <4>2 DEF InviteMember, TypeOK
    <3>3. CASE invite[i] # NoInvite
      <4>1. SettlingStep(q)
        BY <3>1, <3>3, InviteSteps
      <4>2. PICK S \in SUBSET Invites, s \in {"accepted", "expired", "revoked"} :
               /\ Settle(S, s)
               /\ s = "accepted" <=> MarkAccepted(q)
               /\ MarkAccepted(q) => S = {request[q].invite}
        BY <1>1, <4>1, SettlingSteps
      <4>3. /\ i \in S /\ Pending(i) => invite'[i].status = s
            /\ i \notin S \/ ~Pending(i) => invite'[i] = invite[i]
            /\ i \in honoured' <=> i \in honoured /\ (s = "accepted" \/ i \notin S \/ ~Pending(i))
        BY <1>1, <4>2, SettleFacts
      <4>4. i \in S /\ Pending(i) /\ s = "accepted"
        BY <1>5, <3>1, <4>3
      <4>5. MarkAccepted(q) /\ i = request[q].invite
        BY <4>2, <4>4
      <4>6. i \in honoured
        BY <4>4, <4>5 DEF HonouredInv, MarkAccepted
      <4> QED
        BY <4>3, <4>4, <4>6
    <3> QED
      BY <3>2, <3>3
  <2> QED
    BY <2>1, <2>2
<1> QED
  BY <1>3, <1>4, <1>5 DEF HonouredInv, AcceptedInviteWasHonoured, Pending

----------------------------------------------------------------------------
(* What requests have read of owners and models *)

(* What the request that takes a step has read, unless it is a call of /me. *)
LEMMA OwnRequest ==
  ASSUME TypeOK, NEW q \in Requests, Step(q)
  PROVE  \/ request'[q] = Idle
         \/ request'[q].pc \in Answering
         \/ \E u \in Users :
              /\ Authorize(q, u)
              /\ request'[q] = [pc |-> "authorized", by |-> u, role |-> role[u], late |-> FALSE]
         \/ \E u \in Users, r \in ManageableMemberRole :
              /\ FindMember(q, u, r)
              /\ request'[q] = [pc |-> "changing", user |-> u, role |-> r]
         \/ \E u \in Users :
              /\ FindRemoved(q, u)
              /\ request'[q] = [pc |-> IF role[u] = "owner" THEN "counting" ELSE "deleting",
                                by |-> request[q].by, user |-> u, late |-> request[q].late]
         \/ /\ CountOwners(q) /\ request[q] \in Removal
            /\ request'[q] = [request[q] EXCEPT !.pc = "deleting"]
         \/ \E r \in Repositories, m \in Models :
              /\ AssertModel(q, r, m) \/ (TakeDefault(q, r) /\ m = DefaultModel)
              /\ request'[q] = [pc |-> "saving", repository |-> r, model |-> m, late |-> FALSE]
                 \/ request'[q] = [pc |-> "registering", repository |-> r, model |-> m,
                                   late |-> FALSE]
<1>1. request \in [Requests -> AnyRequest]
  BY RequestType
<1>2. CASE SettlingStep(q)
  <2>1. PICK c \in AnyRequest, S \in SUBSET Invites :
           ContinueSettling(q, c, S) /\ (c = Idle \/ c.pc = "accepting")
    BY <1>2, SettlingSteps
  <2>2. request'[q] = c
    BY <1>1, <2>1, SettlingKeeps
  <2> QED
    BY <2>1, <2>2 DEF Answering
<1>3. CASE RemovesOwner(q) \/ ReplacesPolicy(q)
  <2>1. request'[q] = Idle
    BY <1>1, <1>3 DEF RemovesOwner, ReplacesPolicy, DeleteMember, OwnerGone, UpdateModelPolicy
  <2> QED
    BY <2>1
<1>4. CASE CountOwners(q)
  BY <1>1, <1>4, Kinds DEF CountOwners, Continue
<1>5. CASE CreateMember(q)
  <2>1. request[q] \in Joining /\ request'[q] = [request[q] EXCEPT !.pc = "joined"]
    BY <1>1, <1>5, Kinds DEF CreateMember, Continue
  <2>2. request'[q].pc = "joined"
    BY <2>1 DEF Joining
  <2> QED
    BY <2>2 DEF Answering
<1>6. CASE \E i \in Invites : LookUpMember(q, i)
  <2>1. request'[q].pc \in Answering
    BY <1>1, <1>6 DEF LookUpMember, Continue, Answering
  <2> QED
    BY <2>1
<1>7. CASE \/ RequestStops(q) \/ UpdateRole(q) \/ SaveModel(q)
           \/ DeleteMember(q) /\ role[request[q].user] # "owner"
           \/ \E i \in Invites, u \in Users, r \in ManageableMemberRole : InviteMember(q, i, u, r)
  <2>1. request'[q] = Idle
    BY <1>1, <1>7 DEF RequestStops, UpdateRole, SaveModel, DeleteMember, InviteMember, Finish,
                      Continue
  <2> QED
    BY <2>1
<1>8. CASE \E u \in Users : Authorize(q, u)
  BY <1>1, <1>8 DEF Authorize, Continue
<1>9. CASE \E u \in Users, r \in ManageableMemberRole : FindMember(q, u, r)
  BY <1>1, <1>9 DEF FindMember, Continue
<1>10. CASE \E u \in Users : FindRemoved(q, u)
  BY <1>1, <1>10 DEF FindRemoved, Continue
<1>11. CASE \E r \in Repositories, m \in Models : AssertModel(q, r, m)
  BY <1>1, <1>11 DEF AssertModel, Continue
<1>12. CASE \E r \in Repositories : TakeDefault(q, r)
  <2>1. DefaultModel \in Models
    BY OrganizationAssumption DEF DefaultModel, TypeOK, NoPolicy, ModelPolicy
  <2> QED
    BY <1>1, <1>12, <2>1 DEF TakeDefault, Continue
<1> QED
  BY <1>2, <1>3, <1>4, <1>5, <1>6, <1>7, <1>8, <1>9, <1>10, <1>11, <1>12, StepCases
  DEF ContinueStep

(* The others have read what they had, and know if it is late. *)
LEMMA OtherRequests ==
  ASSUME TypeOK, NEW q \in Requests, Step(q), NEW p \in Requests \ {q}
  PROVE  \/ request'[p] = request[p] /\ (RemovesOwner(q) =>
                               request[p].pc \notin {"authorized", "counting", "deleting"})
                           /\ (ReplacesPolicy(q) => request[p].pc \notin {"saving", "registering"})
         \/ request'[p].pc \in Answering
         \/ /\ request'[p].pc \in {"authorized", "counting", "deleting", "saving", "registering"}
            /\ request'[p].late
<1>1. request \in [Requests -> AnyRequest] /\ request[p] \in AnyRequest
  BY RequestType
<1>2. CASE RemovesOwner(q) /\ request[p].pc \in {"authorized", "counting", "deleting"}
  <2>1. request'[p] = [request[p] EXCEPT !.late = TRUE]
    BY <1>1, <1>2 DEF RemovesOwner, DeleteMember, OwnerGone
  <2> QED
    BY <1>1, <1>2, <2>1, LateFlag
<1>3. CASE ReplacesPolicy(q) /\ request[p].pc \in {"saving", "registering"}
  <2>1. request'[p] = [request[p] EXCEPT !.late = TRUE]
    BY <1>1, <1>3 DEF ReplacesPolicy, UpdateModelPolicy
  <2> QED
    BY <1>1, <1>3, <2>1, LateFlag
<1>4. CASE request[p].pc \in Answering
  <2>1. \/ request'[p] = request[p]
        \/ \E S \in SUBSET Invites :
             request'[p] = [request[p] EXCEPT !.late = @ \cup (S \cap request[p].todo)]
    BY <1>4, OthersStay DEF Answering
  <2>2. request[p].todo \in SUBSET Invites /\ request[p].late \in SUBSET Invites
    <3>1. request[p] \in Acceptance \/ request[p] \in Joining
      BY <1>1, <1>4, Kinds DEF Answering
    <3> QED
      BY <3>1 DEF Acceptance, Joining
  <2>3. ASSUME NEW S \in SUBSET Invites,
               request'[p] = [request[p] EXCEPT !.late = @ \cup (S \cap request[p].todo)]
        PROVE  request'[p].pc = request[p].pc
    <3>1. (request[p].late \cup (S \cap request[p].todo)) \in SUBSET Invites
      BY <2>2
    <3> QED
      BY <1>1, <1>4, <2>3, <3>1, LateFields
  <2> QED
    BY <1>4, <2>1, <2>3
<1> QED
  BY <1>2, <1>3, <1>4, OthersStay

LEMMA OwnersInit == Init => OwnersInv
<1> SUFFICES ASSUME Init PROVE OwnersInv
  OBVIOUS
<1>1. PICK owners \in (SUBSET Users) \ {{}} :
         role = [u \in Users |-> IF u \in owners THEN "owner" ELSE "none"]
  BY DEF Init
<1>2. PICK u \in owners : TRUE
  BY <1>1
<1>3. u \in Owners
  BY <1>1, <1>2 DEF Owners
<1>4. \A q \in Requests : Reading(q)
  BY DEF Init, Reading, Idle
<1> QED
  BY <1>3, <1>4 DEF OwnersInv, OwnerUnlessRaced

(* Owners are only lost, one at a time, and by RemovesOwner. *)
LEMMA OwnerSteps ==
  ASSUME TypeInv, NEW q \in Requests, Step(q), Reading(q)
  PROVE  /\ Owners' \subseteq Owners
         /\ ~RemovesOwner(q) => Owners' = Owners
         /\ RemovesOwner(q) => Owners' = Owners \ {request[q].user}
<1>1. TypeOK /\ request[q] \in AnyRequest
  BY RequestType DEF TypeInv
<1>2. ASSUME NEW u \in Users, role[u] = "owner"
      PROVE  role'[u] = "owner" \/ (RemovesOwner(q) /\ u = request[q].user)
  <2>1. ~(CreateMember(q) /\ u = request[q].user)
    BY <1>2 DEF CreateMember
  <2>2. ~(UpdateRole(q) /\ u = request[q].user)
    BY <1>2 DEF UpdateRole, Reading, Owners
  <2> QED
    BY <1>2, <2>1, <2>2, RoleSteps DEF RemovesOwner
<1>3. ASSUME NEW u \in Users, role'[u] = "owner", role[u] # "owner"
      PROVE  FALSE
  <2>1. \/ CreateMember(q) /\ u = request[q].user
        \/ UpdateRole(q) /\ u = request[q].user
    BY <1>3, RoleSteps
  <2>2. CASE CreateMember(q) /\ u = request[q].user
    <3>1. invite[request[q].invite] \in Invite
      BY <2>2, InHand DEF CreateMember
    <3>2. role'[u] = invite[request[q].invite].role
      BY <1>1, <2>2 DEF CreateMember, TypeOK
    <3> QED
      BY <1>3, <3>1, <3>2 DEF Invite, ManageableMemberRole
  <2>3. CASE UpdateRole(q) /\ u = request[q].user
    <3>1. request[q] \in RoleChange
      BY <1>1, <2>3, Kinds DEF UpdateRole
    <3>2. role'[u] = request[q].role
      BY <1>1, <2>3 DEF UpdateRole, TypeOK
    <3> QED
      BY <1>3, <3>1, <3>2 DEF RoleChange, ManageableMemberRole
  <2> QED
    BY <2>1, <2>2, <2>3
<1>4. RemovesOwner(q) => role'[request[q].user] = "none"
  <2>1. ASSUME RemovesOwner(q) PROVE request[q].user \in Users
    BY <1>1, <2>1, Kinds DEF RemovesOwner, DeleteMember, Removal
  <2> QED
    BY <1>1, <2>1 DEF RemovesOwner, DeleteMember, TypeOK
<1> QED
  BY <1>2, <1>3, <1>4 DEF Owners

LEMMA OwnersStep ==
  ASSUME TypeInv, OwnersInv, NEW q \in Requests, Step(q)
  PROVE  OwnersInv'
<1>1. /\ TypeOK /\ request[q] \in AnyRequest /\ Reading(q)
      /\ \A p \in Requests : Reading(p)
  BY RequestType DEF TypeInv, OwnersInv
<1>2. /\ Owners' \subseteq Owners
      /\ ~RemovesOwner(q) => Owners' = Owners
      /\ RemovesOwner(q) => Owners' = Owners \ {request[q].user}
  BY <1>1, OwnerSteps
<1>3. ASSUME NEW p \in Requests \ {q} PROVE Reading(p)'
  <2>1. Reading(p)
    BY <1>1
  <2>2. CASE request'[p] = request[p] /\ (RemovesOwner(q) =>
                request[p].pc \notin {"authorized", "counting", "deleting"})
    BY <1>2, <2>1, <2>2 DEF Reading
  <2>3. CASE request'[p].pc \in Answering
    BY <2>3 DEF Reading, Answering
  <2>4. CASE /\ request'[p].pc \in {"authorized", "counting", "deleting", "saving", "registering"}
             /\ request'[p].late
    BY <2>4 DEF Reading
  <2> QED
    BY <1>1, <2>2, <2>3, <2>4, OtherRequests
<1>4. Reading(q)'
  <2>1. CASE request'[q] = Idle \/ request'[q].pc \in Answering
    BY <2>1 DEF Reading, Idle, Answering
  <2>2. ASSUME NEW u \in Users, Authorize(q, u),
               request'[q] = [pc |-> "authorized", by |-> u, role |-> role[u], late |-> FALSE]
        PROVE  Reading(q)'
    <3>1. Owners' = Owners
      BY <2>2 DEF Authorize, memberVars, Owners
    <3> QED
      BY <2>2, <3>1 DEF Reading, Owners
  <2>3. ASSUME NEW u \in Users, NEW r \in ManageableMemberRole, FindMember(q, u, r),
               request'[q] = [pc |-> "changing", user |-> u, role |-> r]
        PROVE  Reading(q)'
    <3>1. u \notin Owners
      BY <2>3 DEF FindMember, Changeable, ManageableMemberRole, Owners
    <3> QED
      BY <1>2, <2>3, <3>1 DEF Reading
  <2>4. ASSUME NEW u \in Users, FindRemoved(q, u),
               request'[q] = [pc |-> IF role[u] = "owner" THEN "counting" ELSE "deleting",
                              by |-> request[q].by, user |-> u, late |-> request[q].late]
        PROVE  Reading(q)'
    <3>1. Owners' = Owners
      BY <2>4 DEF FindRemoved, memberVars, Owners
    <3>2. ~request[q].late => request[q].by \in Owners
      BY <1>1, <2>4 DEF FindRemoved, ByOwner, Reading
    <3>3. role[u] # "owner" => u \notin Owners
      BY DEF Owners
    <3> QED
      BY <2>4, <3>1, <3>2, <3>3 DEF Reading
  <2>5. ASSUME CountOwners(q), request[q] \in Removal,
               request'[q] = [request[q] EXCEPT !.pc = "deleting"]
        PROVE  Reading(q)'
    <3>1. Owners' = Owners
      BY <2>5 DEF CountOwners, memberVars, Owners
    <3>2. /\ request'[q].pc = "deleting" /\ request'[q].by = request[q].by
          /\ request'[q].user = request[q].user /\ request'[q].late = request[q].late
      BY <2>5 DEF Removal
    <3>3. ~request[q].late => request[q].by \in Owners
      BY <1>1, <2>5 DEF CountOwners, Reading
    <3>4. request[q].by # request[q].user \/ Owners \ {request[q].user} # {}
      <4>1. CASE Owners \ {request[q].user} = {}
        <5>1. Owners = {} \/ Owners = {request[q].user}
          BY <4>1
        <5>2. Cardinality(Owners) = 0 \/ Cardinality(Owners) = 1
          BY <5>1, FS_EmptySet, FS_Singleton
        <5>3. Cardinality(Owners) <= 1
          BY <5>2
        <5> QED
          BY <2>5, <5>3 DEF CountOwners, RemovesLastOwner
      <4> QED
        BY <4>1
    <3> QED
      BY <3>1, <3>2, <3>3, <3>4 DEF Reading
  <2>6. ASSUME NEW r, NEW m,
               \/ request'[q] = [pc |-> "saving", repository |-> r, model |-> m, late |-> FALSE]
               \/ request'[q] = [pc |-> "registering", repository |-> r, model |-> m,
                                 late |-> FALSE]
        PROVE  Reading(q)'
    BY <2>6 DEF Reading
  <2> QED
    BY <1>1, <2>1, <2>2, <2>3, <2>4, <2>5, <2>6, OwnRequest
<1>5. OwnerUnlessRaced'
  <2>1. raced => raced'
    <3>1. CASE SettlingStep(q)
      BY <1>1, <3>1, SettlingSteps DEF memberVars
    <3>2. CASE RemovesOwner(q) \/ ReplacesPolicy(q)
      BY <3>2 DEF RemovesOwner, ReplacesPolicy, DeleteMember, UpdateModelPolicy, memberVars
    <3>3. CASE ContinueStep(q)
      BY <3>3
      DEF ContinueStep, Authorize, RequestStops, InviteMember, LookUpMember, CreateMember,
          FindMember, UpdateRole, FindRemoved, CountOwners, DeleteMember, AssertModel, TakeDefault,
          SaveModel, memberVars
    <3> QED
      BY <3>1, <3>2, <3>3, StepCases
  <2>2. CASE ~RemovesOwner(q)
    BY <1>2, <2>1, <2>2 DEF OwnersInv, OwnerUnlessRaced
  <2>3. CASE RemovesOwner(q)
    <3>1. request[q].late => raced'
      BY <2>3 DEF RemovesOwner, DeleteMember
    <3>2. ~request[q].late => Owners \ {request[q].user} # {}
      BY <1>1, <2>3 DEF RemovesOwner, DeleteMember, Reading
    <3> QED
      BY <1>2, <2>3, <3>1, <3>2 DEF OwnerUnlessRaced
  <2> QED
    BY <2>2, <2>3
<1> QED
  BY <1>3, <1>4, <1>5 DEF OwnersInv

LEMMA ModelsInit == Init => ModelsInv
  BY DEF Init, ModelsInv, Idle

(* The default of the policy in force is one of its models. *)
LEMMA DefaultIsAllowed ==
  ASSUME TypeOK, policy = NoPolicy \/ policy.default \in policy.allowed
  PROVE  DefaultModel \in AllowedModels
<1>1. CASE policy = NoPolicy
  BY <1>1, OrganizationAssumption DEF NoPolicy, DefaultModel, AllowedModels
<1>2. CASE policy # NoPolicy
  <2>1. policy \in ModelPolicy
    BY <1>2 DEF TypeOK
  <2>2. policy.default \in Models /\ policy.allowed # {} /\ policy.default \in policy.allowed
    BY <1>2, <2>1 DEF ModelPolicy
  <2> QED
    BY <2>2, OrganizationAssumption DEF DefaultModel, AllowedModels
<1> QED
  BY <1>1, <1>2

(* Only a new policy and SaveModel touch what is configured. *)
LEMMA ModelSteps ==
  ASSUME TypeOK, NEW q \in Requests, Step(q), ~ReplacesPolicy(q)
  PROVE  /\ policy' = policy
         /\ SaveModel(q) \/ UNCHANGED modelVars
<1>1. CASE SettlingStep(q)
  BY <1>1, SettlingSteps DEF modelVars
<1>2. CASE RemovesOwner(q)
  BY <1>2 DEF RemovesOwner, DeleteMember, modelVars
<1>3. CASE ContinueStep(q)
  BY <1>3
  DEF ContinueStep, Authorize, RequestStops, InviteMember, LookUpMember, CreateMember, FindMember,
      UpdateRole, FindRemoved, CountOwners, DeleteMember, AssertModel, TakeDefault, SaveModel,
      modelVars
<1> QED
  BY <1>1, <1>2, <1>3, StepCases

LEMMA ModelsStep ==
  ASSUME TypeInv, ModelsInv, NEW q \in Requests, Step(q)
  PROVE  ModelsInv'
<1>1. TypeOK /\ request[q] \in AnyRequest
  BY RequestType DEF TypeInv
<1>2. CASE ReplacesPolicy(q)
  <2>1. PICK A \in SUBSET Models, m \in Models : UpdateModelPolicy(q, A, m)
    BY <1>2 DEF ReplacesPolicy
  <2>2. /\ m \in A /\ policy' = [allowed |-> A, default |-> m]
        /\ setting' = AdaptedSettings(A, m)
    BY <2>1 DEF UpdateModelPolicy
  <2>3. AllowedModels' = A
    <3>1. A # {} /\ policy'.allowed = A
      BY <2>2
    <3> QED
      BY <3>1 DEF AllowedModels
  <2>4. policy'.default \in policy'.allowed
    BY <2>2
  <2>6. ASSUME NEW p \in Requests, request'[p].pc \in {"saving", "registering"}, ~request'[p].late
        PROVE  FALSE
    <3>1. CASE p = q
      <4>1. request'[q] = Idle
        BY <1>1, <2>1, RequestType DEF UpdateModelPolicy
      <4> QED
        BY <2>6, <3>1, <4>1 DEF Idle
    <3>2. CASE p # q
      BY <1>1, <1>2, <2>6, <3>2, OtherRequests DEF Answering
    <3> QED
      BY <3>1, <3>2
  <2> QED
    BY <2>3, <2>4, <2>6 DEF ModelsInv
<1>3. CASE ~ReplacesPolicy(q)
  <2>1. policy' = policy /\ AllowedModels' = AllowedModels
    BY <1>1, <1>3, ModelSteps DEF AllowedModels
  <2>2. policy' = NoPolicy \/ policy'.default \in policy'.allowed
    BY <2>1 DEF ModelsInv
  <2>3. ASSUME NEW p \in Requests \ {q},
               request'[p].pc \in {"saving", "registering"}, ~request'[p].late
        PROVE  request'[p].model \in AllowedModels
    <3>1. request'[p] = request[p]
      BY <1>1, <2>3, OtherRequests DEF Answering
    <3> QED
      BY <2>3, <3>1 DEF ModelsInv
  <2>4. ASSUME request'[q].pc \in {"saving", "registering"}, ~request'[q].late
        PROVE  request'[q].model \in AllowedModels
    <3>1. ~CountOwners(q) \/ request[q] \notin Removal
             \/ request'[q] # [request[q] EXCEPT !.pc = "deleting"]
      BY <2>4 DEF Removal
    <3>2. /\ request'[q] # Idle /\ request'[q].pc \notin Answering
          /\ \A u \in Users :
               request'[q] # [pc |-> "authorized", by |-> u, role |-> role[u], late |-> FALSE]
          /\ \A u \in Users, r \in ManageableMemberRole :
               request'[q] # [pc |-> "changing", user |-> u, role |-> r]
          /\ \A u \in Users :
               request'[q] # [pc |-> IF role[u] = "owner" THEN "counting" ELSE "deleting",
                              by |-> request[q].by, user |-> u, late |-> request[q].late]
      BY <2>4 DEF Idle, Answering
    <3>3. PICK r \in Repositories, m \in Models :
             /\ AssertModel(q, r, m) \/ (TakeDefault(q, r) /\ m = DefaultModel)
             /\ \/ request'[q] = [pc |-> "saving", repository |-> r, model |-> m, late |-> FALSE]
                \/ request'[q] = [pc |-> "registering", repository |-> r, model |-> m,
                                  late |-> FALSE]
      BY <1>1, <3>1, <3>2, OwnRequest, Zenon
    <3>4. request'[q].model = m
      BY <3>3
    <3> QED
      BY <1>1, <3>3, <3>4, DefaultIsAllowed DEF ModelsInv, AssertModel
  <2> QED
    BY <2>1, <2>2, <2>3, <2>4 DEF ModelsInv
<1> QED
  BY <1>2, <1>3

----------------------------------------------------------------------------
(* The invitation by which CreateMember makes a member. *)
MemberOfInvitation(q, u) ==
    /\ request[q].pc = "joining" /\ request'[q].pc = "joined"
    /\ LET i == request[q].invite IN
        /\ i \in Invites
        /\ invite[i] # NoInvite
        /\ invite[i].user = u
        /\ invite[i].role = role'[u]
        /\ Pending(i) \/ i \in request[q].late

LEMMA CreatedMember ==
  ASSUME TypeInv, NEW q \in Requests, CreateMember(q)
  PROVE  MemberOfInvitation(q, request[q].user)
<1>1. TypeOK
  BY DEF TypeInv
<1> DEFINE i == request[q].invite
           u == request[q].user
<1>2. /\ request[q].pc = "joining" /\ i \in Invites /\ invite[i] \in Invite
      /\ invite[i].user = u /\ (Pending(i) \/ i \in request[q].late)
  BY InHand DEF CreateMember
<1>3. invite[i] # NoInvite
  BY <1>2 DEF Invite, InviteStatus, NoInvite
<1>4. request[q] \in Joining
  BY <1>1, <1>2, RequestType, Kinds
<1>5. request'[q].pc = "joined"
  <2>1. request' = [request EXCEPT ![q] = [request[q] EXCEPT !.pc = "joined"]]
    BY DEF CreateMember, Continue
  <2> QED
    BY <1>1, <1>4, <2>1, RequestType DEF Joining
<1>6. u \in Users /\ role'[u] = invite[i].role
  BY <1>1, <1>4 DEF CreateMember, TypeOK, Joining
<1> QED
  BY <1>2, <1>3, <1>5, <1>6 DEF MemberOfInvitation

----------------------------------------------------------------------------
(* The theorems *)

(* The inductive invariant holds in every behaviour: what requests have    *)
(* read of invitations, owners and models is true, or known to be old.     *)
THEOREM OrganizationsInvariant == Spec => []Inv
<1>1. Init => Inv
  BY TypeInit, HonouredInit, OwnersInit, ModelsInit DEF Inv
<1>2. Inv /\ [Next]_vars => Inv'
  <2> SUFFICES ASSUME Inv, [Next]_vars PROVE Inv'
    OBVIOUS
  <2>1. TypeInv'
    BY TypeNext DEF Inv
  <2>2. ASSUME NEW q \in Requests, Step(q) PROVE Inv'
    BY <2>1, <2>2, HonouredStep, OwnersStep, ModelsStep DEF Inv
  <2>3. CASE UNCHANGED vars \/ \E i \in Invites : BecomesDue(i)
    <3>1. UNCHANGED <<memberVars, modelVars, request, invite, honoured>>
      BY <2>3 DEF vars, inviteVars, BecomesDue
    <3>2. HonouredInv'
      BY <3>1 DEF Inv, HonouredInv, AcceptedInviteWasHonoured, Pending, memberVars
    <3>3. OwnersInv'
      BY <3>1 DEF Inv, OwnersInv, OwnerUnlessRaced, Reading, Owners, memberVars
    <3>4. ModelsInv'
      BY <3>1 DEF Inv, ModelsInv, AllowedModels, modelVars
    <3> QED
      BY <2>1, <3>2, <3>3, <3>4 DEF Inv
  <2> QED
    BY <2>2, <2>3, NextCases
<1> QED
  BY <1>1, <1>2, PTL DEF Spec

(* Members, invitations, policies and what requests hold keep their shape. *)
THEOREM OrganizationsTypes == Spec => []TypeOK
<1>1. Inv => TypeOK
  BY DEF Inv, TypeInv
<1> QED
  BY <1>1, OrganizationsInvariant, PTL

(* removeMember and updateMemberRole keep an owner, whatever their order,   *)
(* if the removals of two owners do not overlap.                           *)
THEOREM AnOwnerRemains == Spec => []OwnerUnlessRaced
<1>1. Inv => OwnerUnlessRaced
  BY DEF Inv, OwnersInv
<1> QED
  BY <1>1, OrganizationsInvariant, PTL

(* acceptPendingInvitesForEmail marks accepted only an invitation whose     *)
(* user is, or has been, a member since it was sent.                       *)
THEOREM AcceptedIsHonoured == Spec => []AcceptedInviteWasHonoured
<1>1. Inv => AcceptedInviteWasHonoured
  BY DEF Inv, HonouredInv
<1> QED
  BY <1>1, OrganizationsInvariant, PTL

(* What a step does to the models configured.                              *)
LEMMA SettingSteps ==
  ASSUME TypeInv, ModelsInv, NEW q \in Requests, Step(q), NEW r \in Repositories,
         ~ModelIsAllowed(r)'
  PROVE  \/ UNCHANGED <<policy, setting[r]>>
         \/ /\ request[q].pc \in {"saving", "registering"} /\ request'[q] = Idle
            /\ request[q].repository = r
            /\ request[q].late
<1>1. TypeOK /\ request[q] \in AnyRequest
  BY RequestType DEF TypeInv
<1>2. CASE ReplacesPolicy(q)
  <2>1. PICK A \in SUBSET Models, m \in Models : UpdateModelPolicy(q, A, m)
    BY <1>2 DEF ReplacesPolicy
  <2>2. /\ m \in A /\ policy' = [allowed |-> A, default |-> m]
        /\ setting' = AdaptedSettings(A, m)
    BY <2>1 DEF UpdateModelPolicy
  <2>3. AllowedModels' = A
    <3>1. A # {} /\ policy'.allowed = A
      BY <2>2
    <3> QED
      BY <3>1 DEF AllowedModels
  <2>4. setting'[r] \in A \cup {NoModel}
    BY <2>2 DEF AdaptedSettings
  <2> QED
    BY <2>3, <2>4 DEF ModelIsAllowed
<1>3. CASE UNCHANGED modelVars
  BY <1>3 DEF modelVars
<1>4. CASE SaveModel(q) /\ policy' = policy
  <2> DEFINE s == request[q].repository
  <2>1. s \in Repositories /\ request[q].pc \in {"saving", "registering"}
    BY <1>1, <1>4, Kinds DEF SaveModel, ModelChoice
  <2>2. setting' = [setting EXCEPT ![s] = request[q].model] /\ request'[q] = Idle
    BY <1>1, <1>4, RequestType DEF SaveModel, Finish, Continue
  <2>3. CASE s # r
    BY <1>1, <1>4, <2>2, <2>3 DEF TypeOK
  <2>4. CASE s = r
    <3>1. setting'[r] = request[q].model
      BY <1>1, <2>2, <2>4 DEF TypeOK
    <3>2. request[q].model \notin AllowedModels
      BY <1>4, <3>1 DEF ModelIsAllowed, AllowedModels
    <3>3. request[q].late
      BY <2>1, <3>2 DEF ModelsInv
    <3> QED
      BY <2>1, <2>2, <2>4, <3>3
  <2> QED
    BY <2>3, <2>4
<1> QED
  BY <1>1, <1>2, <1>3, <1>4, ModelSteps

(* updateModelPolicy, updateSettings and create: a model that is not        *)
(* allowed gets into a repository's settings only by a request that checked*)
(* it against a policy replaced since, and the next policy removes it.     *)
THEOREM ModelsAreAllowed == Spec => OnlyLateSavesDisallow
<1> DEFINE Kept ==
      \A r \in Repositories :
          ~ModelIsAllowed(r)' =>
            \/ UNCHANGED <<policy, setting[r]>>
            \/ \E q \in Requests :
                 /\ request[q].pc \in {"saving", "registering"} /\ request'[q] = Idle
                 /\ request[q].repository = r
                 /\ request[q].late
<1>1. Inv /\ [Next]_vars => [Kept]_vars
  <2> SUFFICES ASSUME Inv, Next, NEW r \in Repositories, ~ModelIsAllowed(r)'
               PROVE  \/ UNCHANGED <<policy, setting[r]>>
                      \/ \E q \in Requests :
                           /\ request[q].pc \in {"saving", "registering"} /\ request'[q] = Idle
                           /\ request[q].repository = r
                           /\ request[q].late
    OBVIOUS
  <2>1. CASE \E i \in Invites : BecomesDue(i)
    BY <2>1 DEF BecomesDue, modelVars
  <2>2. ASSUME NEW q \in Requests, Step(q)
        PROVE  \/ UNCHANGED <<policy, setting[r]>>
               \/ /\ request[q].pc \in {"saving", "registering"} /\ request'[q] = Idle
                  /\ request[q].repository = r
                  /\ request[q].late
    BY <2>2, SettingSteps DEF Inv
  <2> QED
    BY <2>1, <2>2, NextCases
<1> HIDE DEF Kept
<1> QED
  BY <1>1, OrganizationsInvariant, PTL DEF Spec, OnlyLateSavesDisallow, Kept

(* Whoever becomes a member was invited, with that role, by an invitation   *)
(* that the call of /me read open: it is, or was settled under that call.  *)
THEOREM MembersAreInvited == Spec => MembersWereInvited
<1> DEFINE Invited ==
      \A u \in Users :
        role[u] = "none" /\ role'[u] # "none" =>
          \E q \in Requests :
              /\ request[q].pc = "joining" /\ request'[q].pc = "joined"
              /\ LET i == request[q].invite IN
                  /\ invite[i] # NoInvite
                  /\ invite[i].user = u
                  /\ invite[i].role = role'[u]
                  /\ Pending(i) \/ i \in request[q].late
<1>1. Inv /\ [Next]_vars => Invited
  <2> SUFFICES ASSUME Inv, [Next]_vars,
                      NEW u \in Users, role[u] = "none", role'[u] # "none"
               PROVE  \E q \in Requests :
                         /\ request[q].pc = "joining" /\ request'[q].pc = "joined"
                         /\ LET i == request[q].invite IN
                             /\ invite[i] # NoInvite
                             /\ invite[i].user = u
                             /\ invite[i].role = role'[u]
                             /\ Pending(i) \/ i \in request[q].late
    OBVIOUS
  <2>1. TypeInv /\ TypeOK
    BY DEF Inv, TypeInv
  <2>2. PICK q \in Requests : Step(q)
    BY NextCases DEF vars, memberVars, BecomesDue
  <2>3. CreateMember(q) /\ u = request[q].user
    BY <2>1, <2>2, RoleSteps
  <2>4. MemberOfInvitation(q, u)
    BY <2>1, <2>3, CreatedMember
  <2> QED
    BY <2>4 DEF MemberOfInvitation
<1>2. Inv /\ [Next]_vars => [Invited]_vars
  BY <1>1
<1> HIDE DEF Invited
<1> QED
  BY <1>2, OrganizationsInvariant, PTL DEF Spec, MembersWereInvited, Invited

----------------------------------------------------------------------------
(* Without concurrent requests *)

(* What a call of /me holds is known to be late only by what others did. *)
NoLater(q) ==
    request'[q].pc \in Answering =>
        \A i \in request'[q].late : request[q].pc \in Answering /\ i \in request[q].late

LEMMA OthersMakeLate ==
  ASSUME TypeOK, NEW q \in Requests, Step(q)
  PROVE  NoLater(q)
<1>1. request \in [Requests -> AnyRequest]
  BY RequestType
<1>2. CASE SettlingStep(q)
  <2>1. PICK c \in AnyRequest, S \in SUBSET Invites :
           /\ ContinueSettling(q, c, S)
           /\ \/ c = Idle \/ c.late = {}
              \/ MarkAccepted(q) /\ c.late = request[q].late \ S
    BY <1>2, SettlingSteps
  <2>2. request'[q] = c
    BY <1>1, <2>1, SettlingKeeps
  <2> QED
    BY <2>1, <2>2 DEF Answering, Idle, MarkAccepted, NoLater
<1>3. CASE \E i \in Invites : LookUpMember(q, i)
  BY <1>1, <1>3 DEF LookUpMember, Continue, Answering, NoLater
<1>4. CASE CreateMember(q)
  <2>1. request[q] \in Joining /\ request'[q] = [request[q] EXCEPT !.pc = "joined"]
    BY <1>1, <1>4, Kinds DEF CreateMember, Continue
  <2>2. request'[q].late = request[q].late /\ request[q].pc \in Answering
    BY <2>1 DEF Joining, Answering
  <2> QED
    BY <2>2 DEF NoLater
<1>5. CASE ~(SettlingStep(q) \/ CreateMember(q) \/ \E i \in Invites : LookUpMember(q, i))
  <2>1. \/ RemovesOwner(q) \/ ReplacesPolicy(q)
        \/ ContinueStep(q)
    BY <1>5, StepCases
  <2>2. CASE RemovesOwner(q) \/ ReplacesPolicy(q)
    <3>1. request'[q] = Idle
      BY <1>1, <2>2 DEF RemovesOwner, ReplacesPolicy, DeleteMember, OwnerGone, UpdateModelPolicy
    <3> QED
      BY <3>1 DEF Idle, Answering, NoLater
  <2>3. CASE ContinueStep(q)
    <3>1. CASE CountOwners(q)
      <4>1. request[q] \in Removal /\ request'[q] = [request[q] EXCEPT !.pc = "deleting"]
        BY <1>1, <3>1, Kinds DEF CountOwners, Continue
      <4> QED
        BY <4>1 DEF Removal, Answering, NoLater
    <3>2. CASE ~CountOwners(q)
      BY <1>1, <1>5, <2>3, <3>2
      DEF ContinueStep, Authorize, RequestStops, InviteMember, FindMember, UpdateRole,
          FindRemoved, DeleteMember, AssertModel, TakeDefault, SaveModel, Finish, Continue,
          Idle, Answering, NoLater
    <3> QED
      BY <3>1, <3>2
  <2> QED
    BY <2>1, <2>2, <2>3
<1> QED
  BY <1>2, <1>3, <1>4, <1>5

(* Nothing is late, and so no removals raced. *)
OnTime ==
    /\ ~raced
    /\ \A q \in Requests :
         /\ request[q].pc \in {"authorized", "counting", "deleting", "saving", "registering"}
              => ~request[q].late
         /\ request[q].pc \in Answering => request[q].late = {}

LEMMA OnTimeNext ==
  ASSUME \A p, q \in Requests : p = q
  PROVE  TypeInv /\ OnTime /\ [Next]_vars => OnTime'
<1> SUFFICES ASSUME TypeInv, OnTime, [Next]_vars PROVE OnTime'
  OBVIOUS
<1>1. CASE UNCHANGED vars \/ \E i \in Invites : BecomesDue(i)
  BY <1>1 DEF BecomesDue, vars, memberVars, modelVars, OnTime
<1>2. ASSUME NEW q \in Requests, Step(q) PROVE OnTime'
  <2>1. TypeOK /\ Requests = {q}
    BY DEF TypeInv
  <2>2. ~raced'
    <3>1. CASE SettlingStep(q)
      BY <2>1, <3>1, SettlingSteps DEF memberVars, OnTime
    <3>2. CASE DeleteMember(q)
      BY <3>2 DEF DeleteMember, OnTime
    <3>3. CASE ReplacesPolicy(q)
      BY <3>3 DEF ReplacesPolicy, UpdateModelPolicy, memberVars, OnTime
    <3>4. CASE ContinueStep(q) /\ ~DeleteMember(q)
      BY <3>4
      DEF ContinueStep, Authorize, RequestStops, InviteMember, LookUpMember, CreateMember,
          FindMember, UpdateRole, FindRemoved, CountOwners, AssertModel, TakeDefault, SaveModel,
          memberVars, OnTime
    <3> QED
      BY <1>2, <3>1, <3>2, <3>3, <3>4, StepCases DEF RemovesOwner
  <2>3. ASSUME request'[q].pc \in Answering PROVE request'[q].late = {}
    <3>1. NoLater(q)
      BY <1>2, <2>1, OthersMakeLate
    <3>2. request[q].pc \in Answering => request[q].late = {}
      BY DEF OnTime
    <3>3. request'[q] \in AnyRequest /\ request'[q].late \in SUBSET Invites
      <4>1. request'[q] \in AnyRequest
        BY <1>2, <2>1, OthersStay, RequestType
      <4> QED
        BY <2>3, <4>1, Kinds DEF Answering, Acceptance, Joining
    <3> QED
      BY <2>3, <3>1, <3>2, <3>3 DEF NoLater
  <2>4. ASSUME request'[q].pc \in {"authorized", "counting", "deleting", "saving", "registering"}
        PROVE  ~request'[q].late
    <3>1. ASSUME NEW u \in Users, FindRemoved(q, u),
                 request'[q] = [pc |-> IF role[u] = "owner" THEN "counting" ELSE "deleting",
                                by |-> request[q].by, user |-> u, late |-> request[q].late]
          PROVE  ~request'[q].late
      BY <3>1 DEF FindRemoved, ByOwner, OnTime
    <3>2. ASSUME CountOwners(q), request[q] \in Removal,
                 request'[q] = [request[q] EXCEPT !.pc = "deleting"]
          PROVE  ~request'[q].late
      <4>1. request'[q].late = request[q].late
        BY <3>2 DEF Removal
      <4> QED
        BY <3>2, <4>1 DEF CountOwners, OnTime
    <3>3. ASSUME NEW u \in Users,
                 request'[q] = [pc |-> "authorized", by |-> u, role |-> role[u], late |-> FALSE]
          PROVE  ~request'[q].late
      BY <3>3
    <3>4. ASSUME NEW r, NEW m,
                 \/ request'[q] = [pc |-> "saving", repository |-> r, model |-> m, late |-> FALSE]
                 \/ request'[q] = [pc |-> "registering", repository |-> r, model |-> m,
                                   late |-> FALSE]
          PROVE  ~request'[q].late
      BY <3>4
    <3>5. request'[q] # Idle /\ request'[q].pc \notin Answering
      BY <2>4 DEF Idle, Answering
    <3>6. \A u \in Users, r \in ManageableMemberRole :
             request'[q] # [pc |-> "changing", user |-> u, role |-> r]
      BY <2>4
    <3> QED
      BY <1>2, <2>1, <3>1, <3>2, <3>3, <3>4, <3>5, <3>6, OwnRequest
  <2> QED
    BY <2>1, <2>2, <2>3, <2>4 DEF OnTime
<1> QED
  BY <1>1, <1>2, NextCases

(* specs/task-002 and task-009 are kept by requests that come one after the*)
(* other, with crashes between any two of their steps: there is an owner,  *)
(* every configured model is allowed, and whoever becomes a member does so *)
(* by an invitation that is pending. Only concurrency breaks these.        *)
THEOREM SerialRequests ==
  ASSUME \A p, q \in Requests : p = q
  PROVE  Spec => [](AlwaysAnOwner /\ EveryModelAllowed) /\ OnlyPendingInvites
<1> DEFINE Invited ==
      \A u \in Users :
        role[u] = "none" /\ role'[u] # "none" =>
          \E i \in Invites : Pending(i) /\ invite[i].user = u
                             /\ invite[i].role = role'[u]
<1>1. Init => OnTime /\ EveryModelAllowed
  BY DEF Init, OnTime, Idle, Answering, EveryModelAllowed, ModelIsAllowed
<1>2. Inv /\ OnTime /\ [Next]_vars => OnTime'
  BY OnTimeNext DEF Inv
<1>3. Inv /\ OnTime /\ EveryModelAllowed /\ [Next]_vars => EveryModelAllowed'
  <2> SUFFICES ASSUME Inv, OnTime, EveryModelAllowed, [Next]_vars,
                      NEW r \in Repositories, ~ModelIsAllowed(r)'
               PROVE  FALSE
    BY DEF EveryModelAllowed
  <2>1. CASE UNCHANGED vars \/ \E i \in Invites : BecomesDue(i)
    <3>1. UNCHANGED <<policy, setting>>
      BY <2>1 DEF vars, modelVars, BecomesDue
    <3> QED
      BY <3>1 DEF EveryModelAllowed, ModelIsAllowed, AllowedModels
  <2>2. ASSUME NEW q \in Requests, Step(q) PROVE FALSE
    <3>1. UNCHANGED <<policy, setting[r]>>
      BY <2>2, SettingSteps DEF Inv, OnTime
    <3> QED
      BY <3>1 DEF EveryModelAllowed, ModelIsAllowed, AllowedModels
  <2> QED
    BY <2>1, <2>2, NextCases
<1>4. Inv /\ OnTime => AlwaysAnOwner
  BY DEF Inv, OnTime, OwnersInv, OwnerUnlessRaced, AlwaysAnOwner
<1>5. Inv /\ OnTime /\ [Next]_vars => Invited
  <2> SUFFICES ASSUME Inv, OnTime, [Next]_vars,
                      NEW u \in Users, role[u] = "none", role'[u] # "none"
               PROVE  \E i \in Invites : Pending(i) /\ invite[i].user = u
                                         /\ invite[i].role = role'[u]
    OBVIOUS
  <2>1. PICK q \in Requests : Step(q)
    BY NextCases DEF vars, memberVars, BecomesDue
  <2>2. CreateMember(q) /\ u = request[q].user
    BY <2>1, RoleSteps DEF Inv
  <2>3. MemberOfInvitation(q, u)
    BY <2>2, CreatedMember DEF Inv
  <2>4. request[q].late = {}
    BY <2>3 DEF MemberOfInvitation, OnTime, Answering
  <2> QED
    BY <2>3, <2>4 DEF MemberOfInvitation
<1>6. Inv /\ OnTime /\ [Next]_vars => [Invited]_vars
  BY <1>5
<1> HIDE DEF Invited
<1> QED
  BY <1>1, <1>2, <1>3, <1>4, <1>6, OrganizationsInvariant, PTL
  DEF Spec, OnlyPendingInvites, Invited
=============================================================================
