SPECIFICATION SummarySpec
CONSTANTS
    None = None
    MaxTx = 1
    MaxBlock = 3
    Summaries = {s1}
    Spends <- MCSpends
INVARIANT FiguresAgree
INVARIANT NothingLeftOut
INVARIANT AmountsAreCurrent
