--------------------------- MODULE MCAddressLists ---------------------------
\* Two transactions of the address; the second spends the output of the first.
EXTENDS AddressLists
MCSpends == <<0, 1>>
=============================================================================
