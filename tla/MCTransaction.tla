--------------------------- MODULE MCTransaction ----------------------------
EXTENDS Transaction

\* One output of each kind: a key hash, a key, a bare multisig that one of two keys may sign,
\* and a script hash of two keys that both must.
MCUtxos ==
    [u \in {"a", "b", "m", "p"} |->
        CASE u = "a" -> [kind |-> "pkh", script |-> PublicKeyHashOut("k1"), keys |-> <<"k1">>,
                         threshold |-> 1, satoshis |-> 6, rank |-> 2]
          [] u = "b" -> [kind |-> "multisig", script |-> MultisigOut(<<"k1", "k2">>, 1),
                         keys |-> <<"k1", "k2">>, threshold |-> 1, satoshis |-> 5, rank |-> 3]
          [] u = "m" -> [kind |-> "p2sh", script |-> ScriptHashOut(MultisigOut(<<"k1", "k2">>, 2)),
                         keys |-> <<"k1", "k2">>, threshold |-> 2, satoshis |-> 8, rank |-> 1]
          [] u = "p" -> [kind |-> "pk", script |-> PublicKeyOut("k2"), keys |-> <<"k2">>,
                         threshold |-> 1, satoshis |-> 4, rank |-> 4]]

MCPayments == {[script |-> PublicKeyOut("k8"), satoshis |-> 3],
               [script |-> DataOut, satoshis |-> 0]}

MCChangeScript == PublicKeyOut("k9")
=============================================================================
