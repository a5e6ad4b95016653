CONSTANTS
    Harts = {h1, h2, h3, h4}
    ItMod = 2
SPECIFICATION FairSpec
INVARIANT IInv
PROPERTY ImplementsBarrier
PROPERTY EveryoneReturns
