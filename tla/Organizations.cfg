SPECIFICATION Spec
CONSTANTS
    Users = {u1, u2}
    Invites = {i1, i2}
    Repositories = {repo}
    Models = {m1, m2}
    GlobalModels = {m1}
    GlobalDefault = m1
    Requests = {q1, q2}
    NoModel = NoModel
SYMMETRY Symmetry
INVARIANT TypeOK
INVARIANT OwnerUnlessRaced
INVARIANT AcceptedInviteWasHonoured
PROPERTY MembersWereInvited
PROPERTY OnlyLateSavesDisallow
\* without an owner and without an invitation nobody can act any more
CHECK_DEADLOCK FALSE
