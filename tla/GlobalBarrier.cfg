CONSTANTS
    NumClusters = 3
    NumCompute = 1
    SubSize = 2
    Rounds = 3
SPECIFICATION FairSpec
INVARIANTS NobodyPassesEarly HwBarriersMatch NoStaleWakeup
PROPERTY Terminates
