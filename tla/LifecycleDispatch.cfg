SPECIFICATION Spec
CONSTANTS
    Jobs = {j1}
    Dispatchers = {d1, d2}
    Retriers = {r1}
    Commits = {c1, c2}
    MaxAttempts = 2
    Limits = {2}
    MaxDuplicates = 0
    MaxFaults = 1
    NoJob = NoJob
SYMMETRY Symmetry
INVARIANT TypeOK
INVARIANT NoLostRequest
INVARIANT JobMirrorsCurrentAttempt
PROPERTY ImplementsLedger
PROPERTY OutcomeAppliedOnce
PROPERTY TimeoutSparesNewerAttempt
PROPERTY EndedJobIsReported
\* every job may have ended with no retry left: nothing is due then
CHECK_DEADLOCK FALSE
