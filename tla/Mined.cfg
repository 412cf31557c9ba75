SPECIFICATION ClientsFairSpec
CONSTANTS
    MaxHeight = 3
    MaxTrouble = 2
    N = 2
    Minerless <- MCMinerless
INVARIANT OnceUnlessTroubled
INVARIANT SteadyClientAnswers
PROPERTY AtLeastOnce
PROPERTY TipIsIndexed
