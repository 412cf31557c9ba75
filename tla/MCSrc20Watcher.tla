--------------------------- MODULE MCSrc20Watcher ---------------------------
\* Block 1 creates a contract, which logs the making of a token.  Block 2 fails to create
\* another one, and has a transaction with two calls that both log a transfer.  Block 3
\* makes tokens and leaves an address without any, by a call of a contract that is not a
\* token, in a transaction that creates a contract as well.
EXTENDS Src20Watcher

CONSTANTS c, d, e, router, alice, bob

Tx(creates, receipt) == [creates |-> creates, receipt |-> receipt]
Output(contract, supply, born) ==
    [contract |-> contract, creator |-> alice, supply |-> supply, born |-> born]
New(contract, log) == [call |-> FALSE, called |-> contract, log |-> log]
Call(called, log) == [call |-> TRUE, called |-> called, log |-> log]
Sent(contract, from, to, value) ==
    [contract |-> contract, from |-> from, to |-> to, value |-> value]

MCTxsOf ==
    <<  << Tx(<<Output(c, 1, TRUE)>>, << New(c, <<Sent(c, Nobody, alice, 1)>>) >>) >>,
        << Tx(<<Output(e, 1, FALSE)>>, << New(Nobody, <<>>) >>),
           Tx(<<>>, << Call(c, <<Sent(c, alice, bob, 2)>>),
                       Call(c, <<Sent(c, bob, alice, 1)>>) >>) >>,
        << Tx(<<Output(d, 0, TRUE)>>,
              << New(d, <<Sent(d, Nobody, bob, 1)>>),
                 Call(router, <<Sent(c, Nobody, alice, 1), Sent(c, bob, alice, 1)>>) >>) >>  >>
=============================================================================
