SPECIFICATION FairSpec
CONSTANTS
    MaxEvents = 2
    Handlers = {h1, h2}
    Switchable = {"targetBranch", "codexLogin"}
    MaxPushes = 1
    MaxManual = 1
    MaxFaults = 1
    NoCommit = NoCommit
INVARIANT TypeOK
INVARIANT NoPushMissed
INVARIANT OneAtWork
PROPERTY OneReviewPerCommit
 
\* nothing is due once every event has been answered
CHECK_DEADLOCK FALSE
