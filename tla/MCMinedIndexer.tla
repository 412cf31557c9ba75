-------------------------- MODULE MCMinedIndexer ---------------------------
\* Three blocks, the second without a miner's address, read from two processes.
EXTENDS ClientRounds
MCMinerless == {2}
=============================================================================
