SPECIFICATION Spec
CONSTANTS
    None = None
    MaxTx = 2
    MaxBlock = 3
    Calls = {c1}
    Spends <- MCSpends
INVARIANT NothingTwice
INVARIANT NothingLost
INVARIANT SpentIsGone
