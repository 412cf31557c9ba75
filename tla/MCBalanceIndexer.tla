-------------------------- MODULE MCBalanceIndexer --------------------------
\* Two addresses.  The second block leaves the first address without balance, the
\* third gives to both; a reorganisation that replaces the first block leaves the
\* second address alone.  Amounts lie on and between borders.
EXTENDS BalanceIndexer
CONSTANTS a1, a2
MCAddresses == {a1, a2}
MCTouched == <<{a1}, {a1}, {a1, a2}>>
MCHave(x, y) == [a \in MCAddresses |-> IF a = a1 THEN x ELSE y]
MCAmount == <<MCHave(10, 0), MCHave(0, 0), MCHave(1, 3)>>
=============================================================================
