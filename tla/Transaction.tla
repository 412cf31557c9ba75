---------------------------- MODULE Transaction -----------------------------
(***************************************************************************)
(* A Transaction of silubiumcore-lib while it is put together: inputs and  *)
(* outputs come and go, the change output is worked out again after each   *)
(* call, the sums are cached, and signatures are added at any time.        *)
(***************************************************************************)
EXTENDS TransactionMethods

CONSTANTS Payments,     \* the outputs that calls ask for
          ChangeScript, \* the script of the change address
          Fees, Rates, LockTimes, SignerKeys,  \* what calls are made with
          MaxInputs, MaxOutputs, MaxCalls   \* bounds

ASSUME BuildAssumption ==
    /\ \A u \in DOMAIN Utxos :
          /\ Utxos[u].kind \in {"pkh", "pk", "multisig", "p2sh"}
          /\ Utxos[u].satoshis \in Nat
          /\ DOMAIN Utxos[u].keys = 1..Len(Utxos[u].keys) /\ Len(Utxos[u].keys) \in Nat
    /\ \A p \in Payments : p.satoshis \in Nat
    /\ Fees \cup Rates \cup LockTimes \subseteq Nat
    /\ {BaseRate, Kb, ExtraSize, InputSize, OutputSize, ChangeSize, Margin, Dust} \subseteq Nat
    /\ Kb > 0 /\ Margin > 0
    /\ None \notin Int /\ ChangeScript # None

\* The outputs are those that the classes of inputs are made for: from and the inputs
\* check that the script is the one of the keys and the threshold.  There are few enough
\* keys (a script is built with at most 16), so that the interpreter's limits are not met.
FitsInput(utxo) ==
    LET n == Len(utxo.keys)
    IN  /\ 2 * n + 3 <= MaxOps /\ n + 2 <= MaxStack /\ n <= MaxKeys /\ n <= MaxNum
        /\ utxo.kind \in {"pkh", "pk"} => n = 1
        /\ utxo.kind = "pkh" => utxo.script = PublicKeyHashOut(utxo.keys[1])
        /\ utxo.kind = "pk" => utxo.script = PublicKeyOut(utxo.keys[1])
        /\ utxo.kind \in {"multisig", "p2sh"} => utxo.threshold \in 1..n
        /\ utxo.kind = "multisig" => utxo.script = MultisigOut(utxo.keys, utxo.threshold)
        /\ utxo.kind = "p2sh" => utxo.script = ScriptHashOut(MultisigOut(utxo.keys, utxo.threshold))

\* A signature, of 71 bytes, is no more than may be pushed.
ASSUME InputAssumption == MaxElement >= 71 /\ \A u \in DOMAIN Utxos : FitsInput(Utxos[u])

VARIABLES tx,       \* the Transaction
          pending,  \* signatures from getSignatures that are not applied yet
          asked,    \* how often each payment was asked for, and not removed again
          broken,   \* a call has thrown in the middle
          strayed,  \* removeOutput was called at or before the change output
          lost,     \* a copy has dropped a setting
          careless, \* a call that does not clear them found the present signatures there
          calls

buildVars == <<tx, pending, asked, broken, strayed, lost, careless, calls>>

\* What SIGHASH_ALL covers, and no signature is part of.
Covered(t) == <<[i \in DOMAIN t.inputs |-> <<t.inputs[i].utxo, t.inputs[i].seq>>],
                t.outputs, t.nLockTime>>

HasSignatures(t) == \E i \in DOMAIN t.inputs : Given(t.inputs[i]) # {}

BuildTypeOK ==
    /\ tx.changeIndex \in Nat \cup {None}
    /\ tx.changeIndex # None => tx.changeScript = ChangeScript
    /\ \A i \in DOMAIN tx.inputs : tx.inputs[i].utxo \in DOMAIN Utxos
    /\ asked \in [Payments -> 0..MaxCalls]
    /\ {broken, strayed, lost, careless} \subseteq BOOLEAN
    /\ calls \in 0..MaxCalls

BuildInit ==
    /\ tx = [inputs |-> <<>>, outputs |-> <<>>, inputAmount |-> None, outputAmount |-> None,
             changeScript |-> None, changeIndex |-> None, fee |-> None, feePerKb |-> None,
             nLockTime |-> 0, thrown |-> FALSE]
    /\ pending = {}
    /\ asked = [p \in Payments |-> 0]
    /\ broken = FALSE /\ strayed = FALSE /\ lost = FALSE /\ careless = FALSE
    /\ calls = 0

-----------------------------------------------------------------------------
(* The calls. *)

\* A call makes t of the transaction; clears says whether it leaves no signature that was
\* there before.
Call(t, clears) ==
    /\ calls < MaxCalls
    /\ calls' = calls + 1
    /\ tx' = [t EXCEPT !.thrown = FALSE]
    /\ broken' = (broken \/ t.thrown)
    /\ careless' = (HasSignatures(t) /\ (careless \/ (~clears /\ Covered(t) # Covered(tx))))

\* A call that ends in _updateChangeOutput.
Updated(t) == LET new == UpdateChangeOutput(t) IN Call(new, t.changeScript # None /\ ~new.thrown)

\* from, for an output that is no input yet: with one that is, it does nothing.  Without
\* info the call is uncheckedAddInput.
From(u, info) ==
    /\ Len(tx.inputs) < MaxInputs
    /\ \A i \in DOMAIN tx.inputs : tx.inputs[i].utxo # u
    /\ Updated([tx EXCEPT !.inputs = Append(@, NewInput(u, info)), !.inputAmount = None])
    /\ UNCHANGED <<pending, asked, strayed, lost>>

RemoveInput(i) ==
    /\ Updated([tx EXCEPT !.inputs = RemoveAt(@, i), !.inputAmount = None])
    /\ UNCHANGED <<pending, asked, strayed, lost>>

\* to, addData and addOutput.
AddOutput(payment) ==
    /\ Len(tx.outputs) < MaxOutputs
    /\ Updated(AppendOutput(tx, payment))
    /\ asked' = [asked EXCEPT ![payment] = @ + 1]
    /\ UNCHANGED <<pending, strayed, lost>>

RemoveOutput(i) ==
    /\ Updated(DropOutput(tx, i))
    /\ IF tx.changeIndex # None /\ i <= tx.changeIndex
       THEN strayed' = TRUE /\ UNCHANGED asked
       ELSE /\ UNCHANGED strayed
            /\ asked' = IF tx.outputs[i] \in Payments
                        THEN [asked EXCEPT ![tx.outputs[i]] = IF @ > 0 THEN @ - 1 ELSE 0]
                        ELSE asked
    /\ UNCHANGED <<pending, lost>>

\* clearOutputs, which has emptied the list when an input throws.
ClearOutputs ==
    LET cleared == ClearSignatures([tx EXCEPT !.outputs = <<>>])
    IN  /\ IF cleared.thrown THEN Call(cleared, FALSE)
           ELSE LET new == UpdateChangeOutput([cleared EXCEPT !.outputAmount = None,
                                                              !.changeIndex = None])
                IN  Call(new, TRUE)
        /\ asked' = [p \in Payments |-> 0]
        /\ UNCHANGED <<pending, strayed, lost>>

Change ==
    /\ Updated([tx EXCEPT !.changeScript = ChangeScript])
    /\ UNCHANGED <<pending, asked, strayed, lost>>

SetFee(amount) ==
    /\ Updated([tx EXCEPT !.fee = amount])
    /\ UNCHANGED <<pending, asked, strayed, lost>>

FeePerKb(rate) ==
    /\ Updated([tx EXCEPT !.feePerKb = rate])
    /\ UNCHANGED <<pending, asked, strayed, lost>>

Orders(n) == {p \in [1..n -> 1..n] : \A i, j \in 1..n : p[i] = p[j] => i = j}

\* sortOutputs and shuffleOutputs: any order, and the signatures stay.
SortOutputs(p) ==
    /\ Call(NewOutputOrder(tx, [i \in DOMAIN p |-> tx.outputs[p[i]]]), FALSE)
    /\ UNCHANGED <<pending, asked, strayed, lost>>

\* sort: inputs by the output they spend, outputs by amount, then by the bytes of the
\* script, which may fall either way.
Sort(p, q) ==
    LET inputs  == [i \in DOMAIN q |-> tx.inputs[q[i]]]
        sorted  == ClearSignatures([tx EXCEPT !.inputs = inputs])
        outputs == [i \in DOMAIN p |-> tx.outputs[p[i]]]
    IN  /\ \A i, j \in DOMAIN q :
              i < j => Utxos[inputs[i].utxo].rank <= Utxos[inputs[j].utxo].rank
        /\ \A i, j \in DOMAIN p : i < j => outputs[i].satoshis <= outputs[j].satoshis
        /\ IF sorted.thrown THEN Call(sorted, FALSE)
           ELSE Call(NewOutputOrder(sorted, outputs), TRUE)
        /\ UNCHANGED <<pending, asked, strayed, lost>>

\* lockUntilBlockHeight and lockUntilDate.
LockUntil(time) ==
    /\ Call([tx EXCEPT !.nLockTime = time,
                       !.inputs = [i \in DOMAIN @ |->
                                      IF @[i].seq = "final" THEN [@[i] EXCEPT !.seq = "locktime"]
                                      ELSE @[i]]], FALSE)
    /\ UNCHANGED <<pending, asked, strayed, lost>>

EnableRBF ==
    /\ Call([tx EXCEPT !.inputs = [i \in DOMAIN @ |-> [@[i] EXCEPT !.seq = "rbf"]]], FALSE)
    /\ UNCHANGED <<pending, asked, strayed, lost>>

\* sign: the signatures for all the inputs, then one after the other; the first that is
\* refused ends the call.  It does not begin with an input that cannot be signed.
SignWith(k) ==
    LET signed == FoldLeft(LAMBDA t, s : IF t.thrown THEN t ELSE AddSignature(t, s),
                           tx, SignaturesBy(tx, k))
    IN  /\ ~CannotSign(tx)
        /\ Call([signed EXCEPT !.thrown = FALSE], TRUE)
        /\ UNCHANGED <<pending, asked, strayed, lost>>

GetSignatures(k) ==
    /\ ~CannotSign(tx) /\ SignaturesBy(tx, k) # <<>>
    /\ pending' = ToSet(SignaturesBy(tx, k))
    /\ calls < MaxCalls /\ calls' = calls + 1
    /\ UNCHANGED <<tx, asked, broken, strayed, lost, careless>>

\* applySignature, which throws without a trace when the input refuses.
ApplySignature(s) ==
    /\ ~AddSignature(tx, s).thrown
    /\ Call(AddSignature(tx, s), TRUE)
    /\ pending' = pending \ {s}
    /\ UNCHANGED <<asked, strayed, lost>>

\* serialize, getFee and the sums as properties.
Query ==
    /\ None \in {tx.inputAmount, tx.outputAmount}
    /\ Call(GetAmounts(tx), TRUE)
    /\ UNCHANGED <<pending, asked, strayed, lost>>

Reload ==
    /\ ~CannotCopy(tx)
    /\ tx.changeIndex # None =>
          /\ tx.changeIndex \in DOMAIN tx.outputs
          /\ tx.outputs[tx.changeIndex].script = tx.changeScript
    /\ Call(Copy(tx), TRUE)
    /\ lost' = (lost \/ Copy(tx).changeIndex # tx.changeIndex \/ Copy(tx).fee # tx.fee
                     \/ tx.feePerKb # None)
    /\ UNCHANGED <<pending, asked, strayed>>

BuildNext ==
    \/ \E u \in DOMAIN Utxos, info \in BOOLEAN : From(u, info)
    \/ \E i \in DOMAIN tx.inputs : RemoveInput(i)
    \/ \E p \in Payments : AddOutput(p)
    \/ \E i \in DOMAIN tx.outputs : RemoveOutput(i)
    \/ ClearOutputs
    \/ Change
    \/ \E amount \in Fees : SetFee(amount)
    \/ \E rate \in Rates : FeePerKb(rate)
    \/ \E p \in Orders(Len(tx.outputs)) :
          SortOutputs(p) \/ \E q \in Orders(Len(tx.inputs)) : Sort(p, q)
    \/ \E time \in LockTimes : LockUntil(time)
    \/ EnableRBF
    \/ \E k \in SignerKeys : SignWith(k) \/ GetSignatures(k)
    \/ \E s \in pending : ApplySignature(s)
    \/ Query
    \/ Reload

BuildSpec == BuildInit /\ [][BuildNext]_buildVars

-----------------------------------------------------------------------------

\* What the inputs bring more than the outputs take, added up anew.
TrueFee == InputSum(tx.inputs) - OutputSum(tx.outputs)

\* A transaction that serialize lets through pays the fee that was set, and in any case one
\* between the bounds around the estimate, has no dust, and every input of it is accepted
\* by the interpreter: the cached sums it was judged by and the count of the signatures
\* were those of the transaction as it is now.  Not claimed after a call that threw in the
\* middle, nor of signatures that saw a call which does not clear them.
SerializedIsSound ==
    Serializable(tx) /\ ~broken =>
        LET estimate == EstimateFee(tx, TrueFee)
        IN  /\ tx.fee # None => TrueFee = tx.fee
            /\ TrueFee \in CeilDiv(estimate, Margin)..(Margin * estimate)
            /\ \A i \in DOMAIN tx.outputs :
                   tx.outputs[i].satoshis < Dust => IsDataOut(tx.outputs[i].script)
            /\ ~careless => \A i \in DOMAIN tx.inputs : InputAccepted(tx, i)

\* With a change address, the transaction pays exactly the fee in force and the rest goes
\* to an output of the change address, or nothing is left over and there is no such
\* output, whatever was called since and in whichever order the outputs are now.
ChangeIsCurrent ==
    tx.changeScript # None /\ ~broken /\ ~lost =>
        LET Rest(t) == TrueFee - FeeOf(t, TrueFee)
            index == tx.changeIndex
        IN  IF index = None THEN Rest(tx) <= 0
            ELSE /\ index \in DOMAIN tx.outputs
                 /\ tx.outputs[index].script = tx.changeScript
                 /\ LET without == DropOutput(tx, index)
                        available == InputSum(tx.inputs) - OutputSum(without.outputs)
                    IN  tx.outputs[index].satoshis = available - FeeOf(without, available)

HowOften(p, outputs) == Cardinality({i \in DOMAIN outputs : outputs[i] = p})

\* The outputs without the change output are those that were asked for and not removed, as
\* often as they were: working the change out again never takes a payment for the change.
\* Not claimed once removeOutput has been called at or before the change output, where
\* the code forgets to adjust its index, nor after a copy that has forgotten the index.
PaymentsKept ==
    ~broken /\ ~strayed /\ ~lost =>
        LET kept == IF tx.changeIndex = None THEN tx.outputs
                    ELSE DropOutput(tx, tx.changeIndex).outputs
        IN  \A p \in Payments : HowOften(p, kept) = asked[p]

\* An input with all its signatures is accepted by the interpreter for this transaction as
\* it is now, however many signers there were, in whichever order they came, and whatever
\* else was called, unless a call that does not clear signatures changed what they cover.
SignedIsValid ==
    ~careless =>
        \A i \in DOMAIN tx.inputs :
            tx.inputs[i].kind # "base" /\ InputIsFullySigned(tx.inputs[i]) => InputAccepted(tx, i)
=============================================================================
