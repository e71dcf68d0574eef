SPECIFICATION FairSpec
CONSTANTS
    MaxEvents = 1
    Handlers = {h1, h2}
    Switchable = {}
    MaxPushes = 1
    MaxManual = 0
    MaxFaults = 1
    NoCommit = NoCommit
PROPERTY EveryEventPosted
CHECK_DEADLOCK FALSE
