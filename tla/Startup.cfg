CONSTANTS
    NumClusters = 2
    NumCompute = 1
    MaxAllocs = 1
    MainReduces = 0
SPECIFICATION FairSpec
INVARIANTS InitialisedBeforeMain WokenAfterBss HwBarriersMatch NoStaleReset ExitCodeIsTheSum
PROPERTY Terminates
