-------------------------- MODULE MCSubscriptions ---------------------------
\* One transaction that names its address twice; one of two addresses is invalid.
\* A client with two calls, and another with one.
EXTENDS Subscriptions
CONSTANTS a1, a2, t1, b1, b2
MCAddressesOf == [t \in Transactions |-> <<a1, a1>>]
MCMaxCalls == [b \in Buses |-> IF b = b1 THEN 2 ELSE 1]
=============================================================================
