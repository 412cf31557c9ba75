SPECIFICATION WindowSpec
CONSTANTS
    MaxHeight = 3
    MaxTrouble = 2
    Day = 2
    MaxNow = 5
    ProofOfStake <- MCProofOfStake
    BlockTime <- MCBlockTime
INVARIANT LeftOutOnlyByFailure
INVARIANT DayIsCounted
PROPERTY AtMostOnce
