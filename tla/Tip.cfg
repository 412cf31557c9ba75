SPECIFICATION TipSpec
CONSTANTS
    n1 = n1
    n2 = n2
    Nodes = {n1, n2}
    Spawned = {n1}
    MaxTip = 3
    HeightOf <- MCHeightOf
    RapidInterval = 1
    KnownSize = 3
    MaxPolls = 2
    MaxAsks = 1
CHECK_DEADLOCK FALSE
INVARIANT BlockEventOnce
INVARIANT TipSettled
INVARIANT HeightSettled
INVARIANT FollowedInTime
