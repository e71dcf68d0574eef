----------------------------- MODULE Organizations -----------------------------
(***************************************************************************)
(* OrganizationsService for one organization: its members, invitations and *)
(* model policy, with the two places where other services act on what the  *)
(* policy said, ReviewsService.updateSettings and RepositoriesService      *)
(* .create. Requests run concurrently in any API process; one step is one  *)
(* database statement or transaction. SupabaseAuthGuard reads the caller's *)
(* role before the handler begins, and nothing reads it again.             *)
(*                                                                         *)
(* A user stands for the e-mail he logs in with. Owners come from          *)
(* prisma/seed.ts only, which runs once for each of them.                  *)
(***************************************************************************)
EXTENDS FiniteSets, Naturals

CONSTANTS
    Users,        \* people who are, were or may become members
    Invites,      \* bound: invitations ever made
    Repositories, \* repositories that may be registered
    Models,       \* CODEX_MODEL_VALUES
    GlobalModels, \* review.allowedModels of the configuration
    GlobalDefault,\* review.defaultModel of the configuration
    Requests,     \* bound: requests being answered at a time
    NoModel       \* a null defaultModel, a repository not registered

ASSUME OrganizationAssumption ==
    /\ Users # {}
    /\ GlobalModels \subseteq Models
    /\ GlobalDefault \in GlobalModels
    /\ NoModel \notin Models

VARIABLES
    role,     \* organization_members.role, "none" without a row
    invite,   \* organization_invites rows
    due,      \* pending invitations whose expiresAt has passed
    policy,   \* organizations.allowedModels and .defaultModel
    setting,  \* review_settings.model of each repository
    request,  \* how far each request is, and what it has read
    honoured, \* history: invitations, pending or accepted, whose user was a member since
    raced     \* history: two removals of owners overlapped

memberVars  == <<role, raced>>
inviteVars  == <<invite, due, honoured>>
modelVars   == <<policy, setting>>
vars == <<memberVars, inviteVars, modelVars, request>>

----------------------------------------------------------------------------
(* Types *)

MemberRole           == {"owner", "admin", "member"}
ManageableMemberRole == {"admin", "member"}
InviteStatus         == {"pending", "accepted", "expired", "revoked"}

NoInvite == [status |-> "none"]
Invite   == [status : InviteStatus, user : Users, role : ManageableMemberRole]

NoPolicy    == [allowed |-> {}, default |-> NoModel]
ModelPolicy == [allowed : (SUBSET Models) \ {{}}, default : Models]

Idle        == [pc |-> "idle"]
Authorized  == [pc : {"authorized"}, by : Users, role : {"owner", "admin"},
                late : BOOLEAN]
RoleChange  == [pc : {"changing"}, user : Users, role : ManageableMemberRole]
Removal     == [pc : {"counting", "deleting"}, by : Users, user : Users,
                late : BOOLEAN]
Acceptance  == [pc : {"accepting"}, user : Users, todo : SUBSET Invites,
                late : SUBSET Invites]
Joining     == [pc : {"joining", "joined"}, user : Users, todo : SUBSET Invites,
                late : SUBSET Invites, invite : Invites]
ModelChoice == [pc : {"saving", "registering"}, repository : Repositories,
                model : Models, late : BOOLEAN]

TypeOK ==
    /\ role \in [Users -> {"none"} \cup MemberRole]
    /\ invite \in [Invites -> {NoInvite} \cup Invite]
    /\ due \subseteq Invites
    /\ policy \in {NoPolicy} \cup ModelPolicy
    /\ setting \in [Repositories -> {NoModel} \cup Models]
    /\ request \in [Requests -> {Idle} \cup Authorized \cup RoleChange
                      \cup Removal \cup Acceptance \cup Joining \cup ModelChoice]
    /\ honoured \subseteq Invites
    /\ raced \in BOOLEAN

----------------------------------------------------------------------------
(* prisma/seed.ts has made the owners, at least one. *)
Init ==
    /\ \E owners \in (SUBSET Users) \ {{}} :
         role = [u \in Users |-> IF u \in owners THEN "owner" ELSE "none"]
    /\ invite = [i \in Invites |-> NoInvite]
    /\ due = {}
    /\ policy = NoPolicy
    /\ setting = [r \in Repositories |-> NoModel]
    /\ request = [q \in Requests |-> Idle]
    /\ honoured = {}
    /\ raced = FALSE

Owners == {u \in Users : role[u] = "owner"}

(* The request goes on with the record next, or ends. *)
Continue(q, next) == request' = [request EXCEPT ![q] = next]
Finish(q)         == Continue(q, Idle)

(* SupabaseAuthGuard.canActivate: the caller is a member with one of the   *)
(* roles of the handler, at this moment.                                   *)
Authorize(q, u) ==
    /\ request[q] = Idle
    /\ role[u] \in {"owner", "admin"}
    /\ Continue(q, [pc |-> "authorized", by |-> u, role |-> role[u], late |-> FALSE])
    /\ UNCHANGED <<memberVars, inviteVars, modelVars>>

(* The guard of a handler with @Roles("owner"). *)
ByOwner(q) == request[q].pc = "authorized" /\ request[q].role = "owner"

(* The caller is refused or goes away, a statement is refused, or the      *)
(* process dies: what was written stays.                                   *)
RequestStops(q) ==
    /\ request[q] # Idle
    /\ Finish(q)
    /\ UNCHANGED <<memberVars, inviteVars, modelVars>>

----------------------------------------------------------------------------
(* Invitations *)

Pending(i) == invite[i].status = "pending"

Answering == {"accepting", "joining", "joined"}

(* updateMany ... where status = pending: the invitations of S are settled.*)
Settle(S, status) ==
    LET settled == {i \in S : Pending(i)} IN
    /\ invite' = [i \in Invites |->
                    IF i \in settled THEN [invite[i] EXCEPT !.status = status]
                                    ELSE invite[i]]
    /\ due' = due \ settled
    /\ honoured' = IF status = "accepted" THEN honoured ELSE honoured \ settled

(* Request q goes on with next (or ends), and the calls of /me that hold   *)
(* invitations of S in their snapshot hold something out of date now.      *)
ContinueSettling(q, next, S) ==
    request' = [p \in Requests |->
        IF p = q THEN next
        ELSE IF request[p].pc \in Answering
             THEN [request[p] EXCEPT !.late = @ \cup (S \cap request[p].todo)]
             ELSE request[p]]

(* inviteMember, after Supabase has sent its mail. *)
InviteMember(q, i, u, r) ==
    /\ ByOwner(q)
    /\ invite[i] = NoInvite
    /\ invite' = [invite EXCEPT ![i] = [status |-> "pending", user |-> u, role |-> r]]
    /\ honoured' = IF role[u] = "none" THEN honoured ELSE honoured \cup {i}
    /\ Finish(q)
    /\ UNCHANGED <<memberVars, due, modelVars>>

(* expiresAt of a pending invitation passes. *)
BecomesDue(i) ==
    /\ Pending(i)
    /\ i \notin due
    /\ due' = due \cup {i}
    /\ UNCHANGED <<memberVars, invite, honoured, modelVars, request>>

(* listInvites marks the expired ones before it lists the others. *)
ListInvites(q) ==
    /\ ByOwner(q)
    /\ Settle(due, "expired")
    /\ ContinueSettling(q, Idle, due)
    /\ UNCHANGED <<memberVars, modelVars>>

(* revokeInvite; an invitation that is not pending any more is a 404. *)
RevokeInvite(q, i) ==
    /\ ByOwner(q)
    /\ Pending(i)
    /\ Settle({i}, "revoked")
    /\ ContinueSettling(q, Idle, {i})
    /\ UNCHANGED <<memberVars, modelVars>>

(* Mutant: an invitation is looked up by its address alone. *)
ReadByAddress(u) == {i \in Invites \ due : invite[i] # NoInvite /\ invite[i].user = u}

(* What acceptPendingInvitesForEmail reads: pending, and not yet expired. *)
ValidInvites(u) == {i \in Invites \ due : Pending(i) /\ invite[i].user = u}

ExpiredInvites(u) == {i \in due : Pending(i) /\ invite[i].user = u}

(* GET /me: the snapshot of the user's invitations; the expired are marked. *)
AcceptPendingInvites(q, u) ==
    /\ request[q] = Idle
    /\ ValidInvites(u) \cup ExpiredInvites(u) # {}
    /\ Settle(ExpiredInvites(u), "expired")
    /\ ContinueSettling(q,
           IF ValidInvites(u) = {} THEN Idle
           ELSE [pc |-> "accepting", user |-> u, todo |-> ValidInvites(u), late |-> {}],
           ExpiredInvites(u))
    /\ UNCHANGED <<memberVars, modelVars>>

(* Mutant: if (existing) create ... *)
SkipsCreate(u) == role[u] = "none"

(* An existing membership is left as it is. *)
AlreadyMember(u) == role[u] # "none"

(* The next invitation of the snapshot: is the user a member already? *)
LookUpMember(q, i) ==
    /\ request[q].pc = "accepting"
    /\ i \in request[q].todo
    /\ Continue(q, [pc |-> IF AlreadyMember(request[q].user) THEN "joined" ELSE "joining",
                    user |-> request[q].user, todo |-> request[q].todo,
                    late |-> request[q].late, invite |-> i])
    /\ UNCHANGED <<memberVars, inviteVars, modelVars>>

(* The membership is created with the role of the invitation, which may    *)
(* have been settled since the snapshot. When another call has created it  *)
(* meanwhile the key is refused and the request fails (RequestStops).      *)
CreateMember(q) ==
    /\ request[q].pc = "joining"
    /\ LET u == request[q].user IN
        /\ role[u] = "none"
        /\ role' = [role EXCEPT ![u] = invite[request[q].invite].role]
        /\ honoured' = honoured \cup {i \in Invites : Pending(i) /\ invite[i].user = u}
    /\ Continue(q, [request[q] EXCEPT !.pc = "joined"])
    /\ UNCHANGED <<raced, invite, due, modelVars>>

(* The invitation becomes accepted if it is still pending; on to the next. *)
MarkAccepted(q) ==
    /\ request[q].pc = "joined"
    /\ LET i    == request[q].invite
           rest == request[q].todo \ {i}
       IN  /\ Settle({i}, "accepted")
           /\ ContinueSettling(q,
                  IF rest = {} THEN Idle
                  ELSE [pc |-> "accepting", user |-> request[q].user, todo |-> rest,
                        late |-> request[q].late \ {i}],
                  {i})
    /\ UNCHANGED <<memberVars, modelVars>>

----------------------------------------------------------------------------
(* Members *)

(* Mutant: any member's role may be changed. *)
ChangeableAnyway(u) == role[u] # "none"

(* The role of an owner cannot be changed. *)
Changeable(u) == role[u] \in ManageableMemberRole

(* updateMemberRole reads the member ... *)
FindMember(q, u, r) ==
    /\ ByOwner(q)
    /\ Changeable(u)
    /\ Continue(q, [pc |-> "changing", user |-> u, role |-> r])
    /\ UNCHANGED <<memberVars, inviteVars, modelVars>>

(* ... and writes the row, if it is still there. *)
UpdateRole(q) ==
    /\ request[q].pc = "changing"
    /\ role[request[q].user] # "none"
    /\ role' = [role EXCEPT ![request[q].user] = request[q].role]
    /\ Finish(q)
    /\ UNCHANGED <<raced, inviteVars, modelVars>>

(* removeMember reads the member; an owner's removal counts owners first. *)
FindRemoved(q, u) ==
    /\ ByOwner(q)
    /\ role[u] # "none"
    /\ Continue(q, [pc |-> IF role[u] = "owner" THEN "counting" ELSE "deleting",
                    by |-> request[q].by, user |-> u, late |-> request[q].late])
    /\ UNCHANGED <<memberVars, inviteVars, modelVars>>

(* Mutant: the owner who removes himself is one of the owners counted. *)
LeavesNobody(q) == request[q].by = request[q].user /\ Cardinality(Owners) < 1

(* The only owner is refused to remove himself. *)
RemovesLastOwner(q) == request[q].by = request[q].user /\ Cardinality(Owners) <= 1

CountOwners(q) ==
    /\ request[q].pc = "counting"
    /\ ~RemovesLastOwner(q)
    /\ Continue(q, [request[q] EXCEPT !.pc = "deleting"])
    /\ UNCHANGED <<memberVars, inviteVars, modelVars>>

(* Once an owner is gone, every request past its guard acts on a reading   *)
(* that is older.                                                          *)
OwnerGone(q) ==
    request' = [p \in Requests |->
        IF p = q THEN Idle
        ELSE IF request[p].pc \in {"authorized", "counting", "deleting"}
             THEN [request[p] EXCEPT !.late = TRUE]
             ELSE request[p]]

(* The member's row is deleted, if it is still there. *)
DeleteMember(q) ==
    /\ request[q].pc = "deleting"
    /\ LET u == request[q].user IN
        /\ role[u] # "none"
        /\ role' = [role EXCEPT ![u] = "none"]
        /\ raced' = (raced \/ (role[u] = "owner" /\ request[q].late))
        /\ IF role[u] = "owner" THEN OwnerGone(q) ELSE Finish(q)
    /\ UNCHANGED <<inviteVars, modelVars>>

----------------------------------------------------------------------------
(* The model policy *)

(* resolveModelPolicy: the organization's own, or that of the environment. *)
AllowedModels == IF policy.allowed # {} THEN policy.allowed ELSE GlobalModels

(* Mutant: an organization without a default has none. *)
OwnDefault == policy.default

DefaultModel == IF policy.default # NoModel THEN policy.default ELSE GlobalDefault

(* Mutant: the settings are left as they are. *)
KeptSettings(allowed, default) == setting

(* updateMany: every setting that is no longer allowed gets the default. *)
AdaptedSettings(allowed, default) ==
    [r \in Repositories |->
        IF setting[r] \in allowed \cup {NoModel} THEN setting[r] ELSE default]

(* updateModelPolicy: one transaction for the policy and the settings. *)
UpdateModelPolicy(q, allowed, default) ==
    /\ ByOwner(q)
    /\ default \in allowed
    /\ policy' = [allowed |-> allowed, default |-> default]
    /\ setting' = AdaptedSettings(allowed, default)
    /\ request' = [p \in Requests |->
                     IF p = q THEN Idle
                     ELSE IF request[p].pc \in {"saving", "registering"}
                          THEN [request[p] EXCEPT !.late = TRUE]
                          ELSE request[p]]
    /\ UNCHANGED <<memberVars, inviteVars>>

(* ReviewsService.updateSettings asserts the model against the policy ... *)
AssertModel(q, r, m) ==
    /\ request[q].pc = "authorized"
    /\ setting[r] # NoModel
    /\ m \in AllowedModels
    /\ Continue(q, [pc |-> "saving", repository |-> r, model |-> m, late |-> FALSE])
    /\ UNCHANGED <<memberVars, inviteVars, modelVars>>

(* RepositoriesService.create takes the default model from the policy ... *)
TakeDefault(q, r) ==
    /\ request[q].pc = "authorized"
    /\ Continue(q, [pc |-> "registering", repository |-> r,
                    model |-> DefaultModel, late |-> FALSE])
    /\ UNCHANGED <<memberVars, inviteVars, modelVars>>

(* ... and both write it later. A repository is registered only once.      *)
SaveModel(q) ==
    /\ request[q].pc \in {"saving", "registering"}
    /\ LET r == request[q].repository IN
        /\ request[q].pc = "registering" => setting[r] = NoModel
        /\ setting' = [setting EXCEPT ![r] = request[q].model]
    /\ Finish(q)
    /\ UNCHANGED <<memberVars, inviteVars, policy>>

----------------------------------------------------------------------------
ManageInvites(q) ==
    \/ \E i \in Invites, u \in Users, r \in ManageableMemberRole : InviteMember(q, i, u, r)
    \/ ListInvites(q)
    \/ \E i \in Invites : RevokeInvite(q, i)

AcceptInvites(q) ==
    \/ \E u \in Users : AcceptPendingInvites(q, u)
    \/ \E i \in Invites : LookUpMember(q, i)
    \/ CreateMember(q)
    \/ MarkAccepted(q)

ManageMembers(q) ==
    \/ \E u \in Users, r \in ManageableMemberRole : FindMember(q, u, r)
    \/ UpdateRole(q)
    \/ \E u \in Users : FindRemoved(q, u)
    \/ CountOwners(q)
    \/ DeleteMember(q)

ManageModels(q) ==
    \/ \E A \in SUBSET Models, m \in Models : UpdateModelPolicy(q, A, m)
    \/ \E r \in Repositories, m \in Models : AssertModel(q, r, m)
    \/ \E r \in Repositories : TakeDefault(q, r)
    \/ SaveModel(q)

Next ==
    \/ \E q \in Requests :
         \/ \E u \in Users : Authorize(q, u)
         \/ ManageInvites(q)
         \/ AcceptInvites(q)
         \/ ManageMembers(q)
         \/ ManageModels(q)
         \/ RequestStops(q)
    \/ \E i \in Invites : BecomesDue(i)

Spec == Init /\ [][Next]_vars

----------------------------------------------------------------------------
(* The organization keeps an owner through any sequence of removals and    *)
(* role changes, by the owners themselves or by each other, unless the     *)
(* removals of two owners overlapped (see AlwaysAnOwner).                  *)
OwnerUnlessRaced == Owners # {} \/ raced

(* An invitation is not used up for nothing: one that is accepted made its *)
(* user a member, or found him one, although the membership is created and *)
(* the invitation marked in two steps with crashes and other calls between.*)
AcceptedInviteWasHonoured ==
    \A i \in Invites : invite[i].status = "accepted" => i \in honoured

(* Whoever becomes a member does so by an invitation to him, with its role,*)
(* which the very call of /me had read while it was open: if it is not     *)
(* pending any more, it was settled under that call. An invitation settled *)
(* earlier, or one for somebody else, is never used. (Less than            *)
(* OnlyPendingInvites, which the documents ask for.)                       *)
MembersWereInvited ==
    [][ \A u \in Users :
          role[u] = "none" /\ role'[u] # "none" =>
            \E q \in Requests :
                /\ request[q].pc = "joining" /\ request'[q].pc = "joined"
                /\ LET i == request[q].invite IN
                    /\ invite[i] # NoInvite
                    /\ invite[i].user = u
                    /\ invite[i].role = role'[u]
                    /\ Pending(i) \/ i \in request[q].late ]_vars

ModelIsAllowed(r) == setting[r] \in AllowedModels \cup {NoModel}

(* What can make a configured model one that is not allowed: only the      *)
(* request that saves it, having read its policy before it was replaced.   *)
(* Another policy, however it narrows the models, leaves none behind, and  *)
(* mends those that were. (Less than EveryModelAllowed, which the documents*)
(* ask for.)                                                               *)
OnlyLateSavesDisallow ==
    [][ \A r \in Repositories :
          ~ModelIsAllowed(r)' =>
            \/ UNCHANGED <<policy, setting[r]>>
            \/ \E q \in Requests :
                 /\ request[q].pc \in {"saving", "registering"} /\ request'[q] = Idle
                 /\ request[q].repository = r
                 /\ request[q].late ]_vars

----------------------------------------------------------------------------
(* What the documents promise and the code does not keep *)

(* specs/task-002 requirement 6: the organization keeps at least one owner.*)
(* The owners are counted in one statement and deleted in another.         *)
AlwaysAnOwner == Owners # {}

(* specs/task-009, lines 11 and 34: every configured model is an allowed   *)
(* one. updateSettings and create check the policy in one statement and    *)
(* write the model in another.                                             *)
EveryModelAllowed == \A r \in Repositories : ModelIsAllowed(r)

(* specs/task-002, line 38: an invitation that is accepted, expired or     *)
(* revoked cannot create a membership. acceptPendingInvitesForEmail writes *)
(* from its snapshot, without looking at the invitation again.             *)
OnlyPendingInvites ==
    [][ \A u \in Users :
          role[u] = "none" /\ role'[u] # "none" =>
            \E i \in Invites : Pending(i) /\ invite[i].user = u
                               /\ invite[i].role = role'[u] ]_vars

=============================================================================
