CONSTANTS
    MaxThreads = 4
    MaxRegions = 2
    Argcs = {0, 2, 11, 12, 13}
    MaxArgc = 13
    MaxNargs = 12
    MaxUpper = 7
    Incrs = {1}
    Lowers = {0}
SPECIFICATION Spec
INVARIANTS OwnArguments PartsPartitionTheLoop LastFlagIsRight
