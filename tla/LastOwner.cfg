SPECIFICATION Spec
CONSTANTS
    Users = {u1, u2}
    Invites = {i1}
    Repositories = {repo}
    Models = {m1}
    GlobalModels = {m1}
    GlobalDefault = m1
    Requests = {q1, q2}
    NoModel = NoModel
SYMMETRY Symmetry
INVARIANT AlwaysAnOwner
CHECK_DEADLOCK FALSE
