SPECIFICATION Spec
CONSTANT Queue = 32
CONSTANT FewWords = 1
CONSTANT Words = 2
CONSTANT MoreWords = 3
CONSTANT ChainDepth = 4
INVARIANT StreamsConsumed
INVARIANT StreamsInBounds
INVARIANT ResultsRight
PROPERTY KernelReturns
