CONSTANTS
    NumCompute = 2
    Base = 8
    End = 20
    L3Base = 9
    L3End = 17
    AddrMod = 64
    MinChunk = 4
    Sizes = {1, 3}
    Aligns = {1, 4}
    MaxCalls = 3
    Mixed = FALSE
SPECIFICATION Spec
INVARIANTS CoresAgree ChunksDisjoint ChunksInHeap
