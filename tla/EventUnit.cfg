CONSTANTS
    NumWorkers = 3
    MaxRegions = 2
SPECIFICATION FairSpec
INVARIANTS ExactlyOnce NoTornEvent
PROPERTIES RegionCompletes WorkersExit
CHECK_DEADLOCK FALSE
