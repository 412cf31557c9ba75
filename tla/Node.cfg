SPECIFICATION FairSpec
CONSTANTS
    silubiumd = silubiumd
    web = web
    insight = insight
    Services <- MCServices
    DependsOn <- MCDependsOn
    Order <- MCOrder
    Daemon = silubiumd
    Reindexing = TRUE
    MaxSpawns = 3
    MaxPasses = 2
CHECK_DEADLOCK FALSE
INVARIANT OneProcess
INVARIANT StoppedInOrder
INVARIANT LeftRunningIsReported
PROPERTY ShutdownEnds
PROPERTY RestartComes
