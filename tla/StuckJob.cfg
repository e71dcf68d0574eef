SPECIFICATION FairSpec
CONSTANTS
    Jobs = {j1}
    Dispatchers = {d1}
    Retriers = {r1}
    Commits = {c1}
    MaxAttempts = 2
    Limits = {2}
    MaxDuplicates = 1
    MaxFaults = 1
    NoJob = NoJob
PROPERTY ActiveJobEnds
\* every job may have ended with no retry left: nothing is due then
CHECK_DEADLOCK FALSE
