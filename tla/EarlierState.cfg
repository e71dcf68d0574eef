SPECIFICATION FairSpec
CONSTANTS
    Publishers = {p1}
    StatusRow = status
    FindingRows = {}
    MaxTries = 2
    MaxAsks = 2
    MaxCrashes = 0
    NoRow = NoRow
PROPERTY FinalStateShown
CHECK_DEADLOCK FALSE
