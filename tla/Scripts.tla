------------------------------ MODULE Scripts -------------------------------
(***************************************************************************)
(* Scripts of silubiumcore-lib (script/script.js): the chunks they are     *)
(* made of, the builders of the standard scripts, and what the             *)
(* classifiers recognise.                                                  *)
(*                                                                         *)
(* A buffer is what it holds: a number in its shortest encoding, zero in a *)
(* longer one, the hash of a buffer (hashes never collide), a public key,  *)
(* a signature of a key over a digest, or a serialized script.             *)
(***************************************************************************)
EXTENDS Integers, Sequences, SequencesExt

Num(n) == [num |-> n]
NegativeZero == [zero |-> "negative"]
Hash(how, item) == [hash |-> how, of |-> item]
Key(k) == [key |-> k]
Signed(k, type, digest) == [by |-> k, type |-> type, over |-> digest]
Serialized(script) == [script |-> script]

True == Num(1)
False == Num(0)

IsA(item, field) == field \in DOMAIN item
IsSignature(item) == IsA(item, "over")
IsKey(item) == IsA(item, "key")

\* The numbers that are written with a byte, and with no more than two.
OneByte == -127..127
TwoBytes == -32767..32767

\* The bytes of a buffer; keys, signatures and scripts have one length each.
Size(item) ==
    CASE IsA(item, "num")  -> IF item.num = 0 THEN 0
                              ELSE IF item.num \in OneByte THEN 1
                              ELSE IF item.num \in TwoBytes THEN 2 ELSE 4
      [] IsA(item, "zero") -> 1
      [] IsA(item, "hash") -> IF item.hash \in {"SHA256", "HASH256"} THEN 32 ELSE 20
      [] IsKey(item)       -> 33
      [] OTHER             -> 71

-----------------------------------------------------------------------------
(* Chunks: an opcode, a push of a buffer, or one of OP_1NEGATE, OP_0 to OP_16. *)

Op(name) == [op |-> name]
Push(item) == [op |-> "PUSH", item |-> item]
SmallInt(n) == [op |-> "SMALLINT", n |-> n]

Ops(script) == [i \in DOMAIN script |-> script[i].op]

PublicKeyHashOut(k) ==
    <<Op("DUP"), Op("HASH160"), Push(Hash("HASH160", Key(k))),
      Op("EQUALVERIFY"), Op("CHECKSIG")>>

PublicKeyOut(k) == <<Push(Key(k)), Op("CHECKSIG")>>

\* keys are in the order of their encodings.
MultisigOut(keys, threshold) ==
    <<SmallInt(threshold)>> \o [i \in DOMAIN keys |-> Push(Key(keys[i]))]
        \o <<SmallInt(Len(keys)), Op("CHECKMULTISIG")>>

ScriptHashOut(script) ==
    <<Op("HASH160"), Push(Hash("HASH160", Serialized(script))), Op("EQUAL")>>

DataOut == <<Op("RETURN"), Push(Num(1))>>

PublicKeyIn(signature) == <<Push(signature)>>

PublicKeyHashIn(k, signature) == <<Push(signature), Push(Key(k))>>

MultisigIn(signatures) ==
    <<SmallInt(0)>> \o [i \in DOMAIN signatures |-> Push(signatures[i])]

P2SHMultisigIn(signatures, redeemScript) ==
    MultisigIn(signatures) \o <<Push(Serialized(redeemScript))>>

-----------------------------------------------------------------------------
(* Classifiers. *)

IsScriptHashOut(script) ==
    /\ Ops(script) = <<"HASH160", "PUSH", "EQUAL">>
    /\ Size(script[2].item) = 20

IsDataOut(script) ==
    /\ script # <<>> /\ script[1].op = "RETURN"
    /\ Len(script) = 1 \/ (Len(script) = 2 /\ script[2].op = "PUSH")

\* No opcode above OP_16.
IsPushOnly(script) ==
    \A i \in DOMAIN script : script[i].op \in {"PUSH", "SMALLINT", "RESERVED"}

\* checkMinimalPush: a push of a number that has an opcode of its own.
IsMinimalPush(chunk) ==
    ~(chunk.op = "PUSH" /\ IsA(chunk.item, "num") /\ chunk.item.num \in (-1..16) \ {0})

\* An empty buffer is pushed as OP_0.
Pushes(chunk, item) ==
    \/ chunk.op = "PUSH" /\ chunk.item = item
    \/ chunk = SmallInt(0) /\ item = False

\* findAndDelete: the loop goes past the chunk that comes after one it has deleted.
FindAndDelete(script, item) ==
    FoldLeft(LAMBDA done, chunk :
                 IF ~done.pass /\ Pushes(chunk, item)
                 THEN [done EXCEPT !.pass = TRUE]
                 ELSE [chunks |-> Append(done.chunks, chunk), pass |-> FALSE],
             [chunks |-> <<>>, pass |-> FALSE], script).chunks

RemoveCodeseparators(script) ==
    SelectSeq(script, LAMBDA chunk : chunk.op # "CODESEPARATOR")
=============================================================================
