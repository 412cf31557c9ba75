SPECIFICATION Spec
CONSTANTS
    c = c
    d = d
    e = e
    router = router
    alice = alice
    bob = bob
    Contracts = {c, d, e, router}
    Holders = {alice, bob}
    Nobody = Nobody
    None = None
    MaxHeight = 3
    MaxTrouble = 1
    UpdateFrom = 0
    TxsOf <- MCTxsOf
INVARIANT TransfersKept
INVARIANT RowsAreCurrent
