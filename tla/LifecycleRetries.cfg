SPECIFICATION FairSpec
CONSTANTS
    Jobs = {j1}
    Dispatchers = {d1}
    Retriers = {r1, r2}
    Commits = {c1}
    MaxAttempts = 2
    Limits = {1, 2}
    MaxDuplicates = 1
    MaxFaults = 1
    NoJob = NoJob
INVARIANT AttemptsAreConsecutive
INVARIANT OnlyCurrentAttemptOpen
PROPERTY OnlyHoldersDisturb
PROPERTY AttemptCreatedOnce
PROPERTY RequestDelivered
PROPERTY UndisturbedJobEnds
CHECK_DEADLOCK FALSE
