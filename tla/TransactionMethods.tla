------------------------- MODULE TransactionMethods -------------------------
(***************************************************************************)
(* The methods of a Transaction of silubiumcore-lib and of its inputs      *)
(* (transaction/transaction.js, transaction/input/), as functions from     *)
(* transactions to transactions.                                           *)
(*                                                                         *)
(* A method that throws leaves what it had done: thrown marks its result.  *)
(* Sizes, and with them fees, are scaled down by the constants.            *)
(***************************************************************************)
EXTENDS ScriptSteps

CONSTANTS Utxos,        \* a record of kind, script, keys, threshold, satoshis and rank for each
          BaseRate,     \* FEE_PER_KB
          Kb, ExtraSize, InputSize, OutputSize, ChangeSize,  \* sizes
          Margin,       \* FEE_SECURITY_MARGIN
          Dust,         \* DUST_AMOUNT
          None

OutputSum(outputs) == FoldLeft(LAMBDA sum, output : sum + output.satoshis, 0, outputs)
InputSum(inputs) == FoldLeft(LAMBDA sum, input : sum + Utxos[input.utxo].satoshis, 0, inputs)

-----------------------------------------------------------------------------
(* Inputs.  The kind is the class of the input; "base" is Input itself,    *)
(* which has no signatures, and throws when it is asked for them.          *)

\* The keys an input keeps signatures for, in its order.
KeysOf(input) == Utxos[input.utxo].keys

NewInput(u, info) ==
    [utxo |-> u, info |-> info, seq |-> "final",
     kind |-> IF info THEN Utxos[u].kind ELSE "base",
     signatures |-> [i \in DOMAIN Utxos[u].keys |-> None]]

IsMultisig(input) == input.kind \in {"multisig", "p2sh"}

Given(input) == {i \in DOMAIN input.signatures : input.signatures[i] # None}

InputIsFullySigned(input) ==
    IF IsMultisig(input) THEN Cardinality(Given(input)) = Utxos[input.utxo].threshold
    ELSE Given(input) # {}

\* The script that a signature of this input covers.
SubscriptOf(input) ==
    LET utxo == Utxos[input.utxo]
    IN  IF input.kind = "p2sh" THEN MultisigOut(utxo.keys, utxo.threshold) ELSE utxo.script

\* _createSignatures: in the order of the keys, whatever the order of signing.
CreateSignatures(input) ==
    FoldLeft(LAMBDA given, s : IF s = None THEN given ELSE Append(given, s), <<>>, input.signatures)

ScriptOf(input) ==
    LET signatures == CreateSignatures(input)
    IN  CASE input.kind = "pkh"      -> PublicKeyHashIn(KeysOf(input)[1], signatures[1])
          [] input.kind = "pk"       -> PublicKeyIn(signatures[1])
          [] input.kind = "multisig" -> MultisigIn(signatures)
          [] input.kind = "p2sh"     -> P2SHMultisigIn(signatures, SubscriptOf(input))

InputAccepted(t, i) ==
    Verify([scriptSig    |-> ScriptOf(t.inputs[i]),
            scriptPubkey |-> Utxos[t.inputs[i].utxo].script,
            flags        |-> {"P2SH", "STRICTENC", "MINIMALDATA", "NULLDUMMY"}], t, i)

-----------------------------------------------------------------------------
(* The transaction's own methods. *)

Throw(t) == [t EXCEPT !.thrown = TRUE]

\* Input by input; at one that has no signatures the rest is left as it is.
ClearSignatures(t) ==
    LET bases == {i \in DOMAIN t.inputs : t.inputs[i].kind = "base"}
        Cleared(input) == [input EXCEPT !.signatures = [i \in DOMAIN @ |-> None]]
    IN  [t EXCEPT !.inputs = [i \in DOMAIN @ |-> IF \E j \in bases : j <= i THEN @[i]
                                                 ELSE Cleared(@[i])],
                  !.thrown = bases # {}]

\* _getInputAmount: at an input without its output it throws, and what it had added up
\* stays as the cached sum.
GetInputAmount(t) ==
    LET Known(n) == \A i \in 1..n : t.inputs[i].info
        n        == CHOOSE m \in 0..Len(t.inputs) :
                        Known(m) /\ (m < Len(t.inputs) => ~t.inputs[m + 1].info)
    IN  IF t.inputAmount # None THEN t
        ELSE [t EXCEPT !.inputAmount = InputSum(SubSeq(t.inputs, 1, n)),
                       !.thrown = n < Len(t.inputs)]

GetOutputAmount(t) ==
    IF t.outputAmount # None THEN t
    ELSE [t EXCEPT !.outputAmount = OutputSum(t.outputs)]

\* Both sums, cached.
GetAmounts(t) == LET known == GetInputAmount(t) IN IF known.thrown THEN known ELSE GetOutputAmount(known)

Unspent(t) == t.inputAmount - t.outputAmount

CeilDiv(a, b) == (a + b - 1) \div b

\* _estimateFee, which reckons with a change output when there is enough for one; a rate
\* of 0 stands for the default.
EstimateFee(t, available) ==
    LET size == ExtraSize + InputSize * Len(t.inputs) + OutputSize * Len(t.outputs)
        rate == IF t.feePerKb \in {None, 0} THEN BaseRate ELSE t.feePerKb
        Fee(bytes) == CeilDiv(bytes, Kb) * rate
    IN  IF available > Fee(size) THEN Fee(size + ChangeSize) ELSE Fee(size)

\* getFee when there is a change script.
FeeOf(t, available) == IF t.fee # None THEN t.fee ELSE EstimateFee(t, available)

\* Wrong: the cached sum stays.
AppendOutputSumKept(t, output) == [t EXCEPT !.outputs = Append(@, output)]

\* _addOutput
AppendOutput(t, output) ==
    [t EXCEPT !.outputs = Append(@, output), !.outputAmount = None]

\* _removeOutput: an index past the end removes nothing.
DropOutput(t, index) ==
    [t EXCEPT !.outputs = IF index \in DOMAIN @ THEN RemoveAt(@, index) ELSE @,
              !.outputAmount = None]

\* Wrong: the index stays when no change is left.
UpdateChangeOutputIndexKept(t) ==
    LET cleared == ClearSignatures(t)
        without == IF t.changeIndex = None THEN cleared ELSE DropOutput(cleared, t.changeIndex)
        summed  == GetAmounts(without)
        change  == Unspent(summed) - FeeOf(summed, Unspent(summed))
    IN  IF t.changeScript = None THEN t
        ELSE IF cleared.thrown THEN cleared
        ELSE IF summed.thrown THEN summed
        ELSE IF change > 0
        THEN AppendOutput([summed EXCEPT !.changeIndex = Len(summed.outputs) + 1],
                          [script |-> t.changeScript, satoshis |-> change])
        ELSE summed

\* Wrong: the signatures stay when there is no change output to take away.
UpdateChangeOutputSignaturesKept(t) ==
    LET cleared == IF t.changeIndex = None THEN t ELSE ClearSignatures(t)
        without == IF t.changeIndex = None THEN cleared ELSE DropOutput(cleared, t.changeIndex)
        summed  == GetAmounts(without)
        change  == Unspent(summed) - FeeOf(summed, Unspent(summed))
    IN  IF t.changeScript = None THEN t
        ELSE IF cleared.thrown THEN cleared
        ELSE IF summed.thrown THEN summed
        ELSE IF change > 0
        THEN AppendOutput([summed EXCEPT !.changeIndex = Len(summed.outputs) + 1],
                          [script |-> t.changeScript, satoshis |-> change])
        ELSE [summed EXCEPT !.changeIndex = None]

\* _updateChangeOutput
UpdateChangeOutput(t) ==
    LET cleared == ClearSignatures(t)
        without == IF t.changeIndex = None THEN cleared ELSE DropOutput(cleared, t.changeIndex)
        summed  == GetAmounts(without)
        change  == Unspent(summed) - FeeOf(summed, Unspent(summed))
    IN  IF t.changeScript = None THEN t
        ELSE IF cleared.thrown THEN cleared
        ELSE IF summed.thrown THEN summed
        ELSE IF change > 0
        THEN AppendOutput([summed EXCEPT !.changeIndex = Len(summed.outputs) + 1],
                          [script |-> t.changeScript, satoshis |-> change])
        ELSE [summed EXCEPT !.changeIndex = None]

\* addSignature of an input.
AddSignature(t, s) ==
    LET input == t.inputs[s.inputIndex]
        index == {i \in DOMAIN KeysOf(input) : KeysOf(input)[i] = s.key}
        valid == VerifySignature(t, s.signature, Key(s.key), s.inputIndex, SubscriptOf(input))
    IN  IF \/ s.inputIndex \notin DOMAIN t.inputs
           \/ input.kind = "base"
           \/ IsMultisig(input) /\ (InputIsFullySigned(input) \/ index = {})
           \/ ~valid
        THEN Throw(t)
        ELSE [t EXCEPT !.inputs[s.inputIndex].signatures[CHOOSE i \in index : TRUE] = s.signature]

\* getSignatures, input by input.
SignaturesBy(t, k) ==
    LET Mine(i) == {j \in DOMAIN KeysOf(t.inputs[i]) : KeysOf(t.inputs[i])[j] = k}
        ALL     == [base |-> "ALL", anyoneCanPay |-> FALSE]
        Own(i)  == [inputIndex |-> i, key |-> k,
                    signature  |-> Sign(t, k, ALL, i, SubscriptOf(t.inputs[i]))]
    IN  FoldLeft(LAMBDA signatures, i : IF Mine(i) = {} THEN signatures
                                        ELSE Append(signatures, Own(i)),
                 <<>>, [i \in DOMAIN t.inputs |-> i])

\* An Input itself, or one whose output is not known, cannot be signed.
CannotSign(t) == \E i \in DOMAIN t.inputs : t.inputs[i].kind = "base"

\* Wrong: the index is left where it was.
NewOutputOrderIndexKept(t, outputs) == [t EXCEPT !.outputs = outputs]

\* _newOutputOrder: the change output is found again by what is in it; 0, where no output
\* is, for an index that _.findIndex does not find.
NewOutputOrder(t, outputs) ==
    LET found == {i \in DOMAIN outputs :
                     t.changeIndex \in DOMAIN t.outputs => outputs[i] = t.outputs[t.changeIndex]}
    IN  [t EXCEPT !.outputs = outputs,
                  !.changeIndex = IF @ = None THEN None ELSE IF found = {} THEN 0 ELSE Min(found)]

\* A copy by fromObject of toObject: an index or a fee of zero is taken for none, and the
\* rate is not in the object.
Copy(t) ==
    [t EXCEPT !.changeIndex = IF @ = 1 THEN None ELSE @,
              !.fee = IF @ = 0 THEN None ELSE @,
              !.feePerKb = None, !.inputAmount = None, !.outputAmount = None]

\* fromObject throws at inputs of these kinds.
CannotCopy(t) == \E i \in DOMAIN t.inputs : t.inputs[i].info /\ t.inputs[i].kind \in {"base", "multisig"}

\* What getSerializationError lets through, with the sums it finds cached.
Serializable(t) ==
    LET summed   == GetAmounts(t)
        unspent  == Unspent(summed)
        estimate == EstimateFee(t, unspent)
    IN  /\ ~summed.thrown
        /\ unspent >= 0
        /\ t.fee # None => t.fee = unspent
        /\ unspent <= Margin * estimate
        /\ unspent >= CeilDiv(estimate, Margin)
        /\ \A i \in DOMAIN t.outputs :
              t.outputs[i].satoshis >= Dust \/ IsDataOut(t.outputs[i].script)
        /\ ~CannotSign(t)
        /\ \A i \in DOMAIN t.inputs : InputIsFullySigned(t.inputs[i])
=============================================================================
