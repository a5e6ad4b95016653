CONSTANTS
    Size = 8
    NumCompute = 1
    NumLevels = 3
SPECIFICATION Spec
INVARIANT SumUnlessOverwritten
