------------------------------ MODULE Sighash -------------------------------
(***************************************************************************)
(* What a signature of a transaction covers (transaction/sighash.js).  A   *)
(* digest is the copy of the transaction that is hashed; equal digests are *)
(* equal copies.                                                           *)
(***************************************************************************)
EXTENDS Scripts

SigTypes == [base : {"ALL", "NONE", "SINGLE"}, anyoneCanPay : BOOLEAN]

\* An output before the one that SIGHASH_SINGLE covers.
Blank == [script |-> <<>>, satoshis |-> -1]

\* With SIGHASH_SINGLE and no output at the index of the input, the digest is the
\* number one, whatever the transaction.
SinglePastTheEnd(tx, type, nin) == type.base = "SINGLE" /\ nin > Len(tx.outputs)

CoveredInputs(tx, type, nin, subscript) ==
    LET Cover(i) == [utxo   |-> tx.inputs[i].utxo,
                     seq    |-> IF type.base = "ALL" \/ i = nin
                                THEN tx.inputs[i].seq ELSE "zero",
                     script |-> IF i = nin THEN RemoveCodeseparators(subscript)
                                ELSE <<>>]
    IN  IF type.anyoneCanPay THEN <<Cover(nin)>>
        ELSE [i \in DOMAIN tx.inputs |-> Cover(i)]

CoveredOutputs(tx, type, nin) ==
    CASE type.base = "ALL"    -> tx.outputs
      [] type.base = "NONE"   -> <<>>
      [] type.base = "SINGLE" -> [i \in 1..nin |-> IF i < nin THEN Blank
                                                   ELSE tx.outputs[i]]

Digest(tx, type, nin, subscript) ==
    IF SinglePastTheEnd(tx, type, nin)
    THEN [one |-> TRUE]
    ELSE [inputs   |-> CoveredInputs(tx, type, nin, subscript),
          outputs  |-> CoveredOutputs(tx, type, nin),
          lockTime |-> tx.nLockTime,
          type     |-> type]

Sign(tx, k, type, nin, subscript) == Signed(k, type, Digest(tx, type, nin, subscript))

\* A buffer that is no signature, or no key, verifies as false.
VerifySignature(tx, sig, pubkey, nin, subscript) ==
    /\ IsSignature(sig) /\ IsKey(pubkey)
    /\ sig.by = pubkey.key
    /\ sig.over = Digest(tx, sig.type, nin, subscript)
=============================================================================
