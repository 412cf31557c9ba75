-------------------------- MODULE MCAddressSummary --------------------------
\* No transaction of the address spends an output of it: the summary does not look.
EXTENDS AddressSummary
MCSpends == [t \in Txs |-> 0]
=============================================================================
