SPECIFICATION FairSpec
CONSTANTS
    Publishers = {p1, p2}
    StatusRow = status
    FindingRows = {f1}
    MaxTries = 2
    MaxAsks = 1
    MaxCrashes = 1
    NoRow = NoRow
INVARIANT TypeOK
INVARIANT CompletedWasPublished
INVARIANT OnlyRequestShown
INVARIANT ThreadsWithinTries
INVARIANT NoDuplicateThread
PROPERTY PublicationSettles
CHECK_DEADLOCK FALSE
