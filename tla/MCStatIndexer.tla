--------------------------- MODULE MCStatIndexer ---------------------------
\* Three blocks, the last two proof of stake.  The second has an older time than the
\* first.  A day is two ticks long: the walk of start ends inside the chain, or finds
\* the chain younger than a day.
EXTENDS StatWindow, TLC
MCProofOfStake == {2, 3}
MCBlockTime == <<2, 1, 3>> @@ (0 :> 0)
=============================================================================
