SPECIFICATION ApiSpec
CONSTANTS
    c1 = c1
    c2 = c2
    Clients = {c1, c2}
    TypeOf <- MCTypeOf
    Limit <- MCLimit
    Interval <- MCInterval
    BanInterval <- MCBanInterval
    MaxVisits = 2
    BlockHeight = 1
    BlockCacheConfirmations = 3
    Followers = {1, 2}
    MaxHeight = 3
CHECK_DEADLOCK FALSE
INVARIANT WithinLimit
INVARIANT KeptIsTrue
PROPERTY BanHolds
