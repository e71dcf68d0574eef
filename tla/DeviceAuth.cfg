SPECIFICATION FairSpec
CONSTANTS
    Sessions = {s1, s2}
    None = None
INVARIANT TypeOK
INVARIANT SettledIsClean
INVARIANT EntryIsKnown
INVARIANT OneAtATime
INVARIANT OutcomeTellsStored
INVARIANT DestroyLeavesNothing
PROPERTY SessionForgotten
\* after the exit, or with every session forgotten, nothing happens
CHECK_DEADLOCK FALSE
