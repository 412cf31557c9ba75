--------------------------- MODULE MCInterpreter ----------------------------
EXTENDS Interpreter

MCTx == [inputs   |-> <<[utxo |-> "a", seq |-> "locktime"]>>,
         outputs  |-> <<[script |-> PublicKeyOut("k9"), satoshis |-> 1]>>,
         nLockTime |-> 2]

\* The same transaction with another amount: a signature over it is of no use.
OtherTx == [MCTx EXCEPT !.outputs[1].satoshis = 2]

ALL == [base |-> "ALL", anyoneCanPay |-> FALSE]
NONE == [base |-> "NONE", anyoneCanPay |-> TRUE]

ThisSig(k, script) == Sign(MCTx, k, ALL, 1, script)
OtherSig(k, script) == Sign(OtherTx, k, ALL, 1, script)

Spend(scriptSig, scriptPubkey, flags) ==
    [scriptSig |-> scriptSig, scriptPubkey |-> scriptPubkey, flags |-> flags]

Standard == {"P2SH", "STRICTENC", "MINIMALDATA", "NULLDUMMY"}

\* Every script of at most n of the chunks.
ScriptsOf(chunks, n) == UNION {[1..i -> chunks] : i \in 0..n}

\* Conditionals in every arrangement, nested up to three deep, closed or not.
Branches ==
    {Spend(<<SmallInt(0), SmallInt(1)>>, script, {}) :
        script \in ScriptsOf({SmallInt(1), Op("IF"), Op("NOTIF"), Op("ELSE"), Op("ENDIF")}, 6)}

\* A key hash behind every short script of an input.
KeyHashSpends ==
    {Spend(script, PublicKeyHashOut("k1"), flags) :
        script \in ScriptsOf({Push(ThisSig("k1", PublicKeyHashOut("k1"))),
                              Push(OtherSig("k1", PublicKeyHashOut("k1"))),
                              Push(Key("k1")), Push(Key("k2")), SmallInt(0), SmallInt(1),
                              Op("IF"), Op("CHECKSIG"), Op("DUP")}, 3),
        flags \in {{}, Standard, {"SIGPUSHONLY"}}}

\* Multisigs of two or three keys, one of them twice, with every few signatures.
KeyLists == {<<"k1", "k2", "k3">>, <<"k1", "k1", "k2">>, <<"k1", "k2">>}

MultisigSpends(wrap(_), flagSets) ==
    UNION {LET out == MultisigOut(keys, threshold)
               sigs == {ThisSig(k, out) : k \in {"k1", "k2", "k3"}}
                           \cup {OtherSig("k1", out), Sign(MCTx, "k2", NONE, 1, out), False}
           IN  {Spend(<<SmallInt(dummy)>> \o [i \in DOMAIN s |-> Push(s[i])] \o wrap(out)[1],
                      wrap(out)[2], flags) :
                    s \in UNION {[1..n -> sigs] : n \in 1..2} \cup {<<ThisSig(k, out), ThisSig("k2", out), ThisSig("k3", out)>> : k \in {"k1", "k2"}},
                    dummy \in {0, 1}, flags \in flagSets} :
               keys \in KeyLists, threshold \in 1..2}

BareMultisigs == MultisigSpends(LAMBDA out : <<<<>>, out>>, {{}, Standard})

ScriptHashMultisigs ==
    MultisigSpends(LAMBDA out : <<<<Push(Serialized(out))>>, ScriptHashOut(out)>>,
                   {{}, {"P2SH"}})
    \cup MultisigSpends(LAMBDA out : <<<<Op("NOP"), Push(Serialized(out))>>, ScriptHashOut(out)>>,
                        {{"P2SH"}})

\* Every opcode on a stack of numbers and of other things.
EachOp ==
    {Spend(stack, <<Op(op)>>, flags) :
        op \in PlainOps \cup Nops \cup Disabled
                 \cup {"NOP", "CLTV", "VERIFY", "VERIF", "VERNOTIF", "RETURN", "RESERVED", "TOALTSTACK",
                       "FROMALTSTACK", "PICK", "ROLL", "CODESEPARATOR", "CHECKSIGVERIFY",
                       "CHECKMULTISIGVERIFY"},
        stack \in {<<>>, [n \in 1..6 |-> SmallInt(7 - n)],
                   <<Push(NegativeZero), SmallInt(1)>>, <<Push(Num(9)), Push(NegativeZero)>>,
                   <<Push(Key("k1"))>>, <<SmallInt(2), SmallInt(-1)>>,
                   <<Push(Num(8)), SmallInt(0), Push(Num(2))>>},
        flags \in {{}, Standard \cup {"CLTV", "NOPS"}}}

\* Signatures that do not sign themselves, code separators, and the limits.
Others ==
    LET out == <<Op("NOP"), Op("CODESEPARATOR"), Push(Key("k1")), Op("CHECKSIG")>>
        rest == SubSeq(out, 3, 4)
        long == [i \in 1..7 |-> Op("NOP")]
    IN  {Spend(<<Push(ThisSig("k1", rest))>>, out, {}),
         Spend(<<Push(ThisSig("k1", out))>>, out, {}),
         Spend(<<SmallInt(1)>>, long, {}), Spend(<<SmallInt(1)>>, long \o long, {}),
         Spend([i \in 1..9 |-> SmallInt(1)], <<>>, {}),
         Spend(<<SmallInt(1), SmallInt(1), Op("TOALTSTACK")>>, <<Op("FROMALTSTACK")>>, {}),
         Spend(<<SmallInt(1)>>, <<Op("TOALTSTACK"), Op("FROMALTSTACK")>>, {})}

MCSpends == Branches \cup KeyHashSpends \cup BareMultisigs \cup ScriptHashMultisigs
                \cup EachOp \cup Others
=============================================================================
