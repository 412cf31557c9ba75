---------------------------- MODULE ScriptSteps -----------------------------
(***************************************************************************)
(* The stack machine of silubiumcore-lib (script/interpreter.js): what one *)
(* chunk does to a machine, and whether a spend is accepted.               *)
(*                                                                         *)
(* A machine is an Interpreter in the middle of a script.  pc counts the   *)
(* chunks read; the top of a stack is its last element.  A script that     *)
(* returns false or throws has failed, and says no more than that.         *)
(***************************************************************************)
EXTENDS Sighash, FiniteSets

CONSTANTS MaxOps,             \* 201: opcodes above OP_16, and keys of multisigs
          MaxStack,           \* 1000: both stacks together, when a script ends
          MaxElement,         \* 520: bytes of a push
          MaxNum,             \* 2^31 - 1: operands of arithmetic
          MaxKeys,            \* 20: keys of a multisig
          LockTimeThreshold   \* 500000000: lock times from there on are times

ASSUME LimitsAreNumbers ==
    {MaxOps, MaxStack, MaxElement, MaxNum, MaxKeys, LockTimeThreshold} \subseteq Nat

Disabled == {"CAT", "SUBSTR", "LEFT", "RIGHT", "INVERT", "AND", "OR", "XOR", "2MUL",
             "2DIV", "MUL", "DIV", "MOD", "LSHIFT", "RSHIFT"}

Conditionals == {"IF", "NOTIF", "VERIF", "VERNOTIF", "ELSE", "ENDIF"}

Nops == {"NOP1", "NOP3", "NOP4", "NOP5", "NOP6", "NOP7", "NOP8", "NOP9", "NOP10"}

Hashes == {"RIPEMD160", "SHA1", "SHA256", "HASH160", "HASH256"}

\* What the plain stack operations take from the top, and which of it they put back.
Rearranged ==
    [op \in {"2DROP", "2DUP", "3DUP", "2OVER", "2ROT", "2SWAP", "DROP", "DUP", "NIP",
             "OVER", "ROT", "SWAP", "TUCK"} |->
        CASE op = "2DROP" -> [takes |-> 2, puts |-> <<>>]
          [] op = "2DUP"  -> [takes |-> 2, puts |-> <<1, 2, 1, 2>>]
          [] op = "3DUP"  -> [takes |-> 3, puts |-> <<1, 2, 3, 1, 2, 3>>]
          [] op = "2OVER" -> [takes |-> 4, puts |-> <<1, 2, 3, 4, 1, 2>>]
          [] op = "2ROT"  -> [takes |-> 6, puts |-> <<3, 4, 5, 6, 1, 2>>]
          [] op = "2SWAP" -> [takes |-> 4, puts |-> <<3, 4, 1, 2>>]
          [] op = "DROP"  -> [takes |-> 1, puts |-> <<>>]
          [] op = "DUP"   -> [takes |-> 1, puts |-> <<1, 1>>]
          [] op = "NIP"   -> [takes |-> 2, puts |-> <<2>>]
          [] op = "OVER"  -> [takes |-> 2, puts |-> <<1, 2, 1>>]
          [] op = "ROT"   -> [takes |-> 3, puts |-> <<2, 3, 1>>]
          [] op = "SWAP"  -> [takes |-> 2, puts |-> <<2, 1>>]
          [] op = "TUCK"  -> [takes |-> 2, puts |-> <<2, 1, 2>>]]

Bit(b) == IF b THEN 1 ELSE 0

Unary == {"1ADD", "1SUB", "NEGATE", "ABS", "NOT", "0NOTEQUAL"}

OfOne(op, a) ==
    CASE op = "1ADD"      -> a + 1
      [] op = "1SUB"      -> a - 1
      [] op = "NEGATE"    -> -a
      [] op = "ABS"       -> IF a < 0 THEN -a ELSE a
      [] op = "NOT"       -> Bit(a = 0)
      [] op = "0NOTEQUAL" -> Bit(a # 0)

Binary == {"ADD", "SUB", "BOOLAND", "BOOLOR", "NUMEQUAL", "NUMEQUALVERIFY",
           "NUMNOTEQUAL", "LESSTHAN", "GREATERTHAN", "LESSTHANOREQUAL",
           "GREATERTHANOREQUAL", "MIN", "MAX"}

OfTwo(op, a, b) ==
    CASE op = "ADD"                -> a + b
      [] op = "SUB"                -> a - b
      [] op = "BOOLAND"            -> Bit(a # 0 /\ b # 0)
      [] op = "BOOLOR"             -> Bit(a # 0 \/ b # 0)
      [] op \in {"NUMEQUAL", "NUMEQUALVERIFY"} -> Bit(a = b)
      [] op = "NUMNOTEQUAL"        -> Bit(a # b)
      [] op = "LESSTHAN"           -> Bit(a < b)
      [] op = "GREATERTHAN"        -> Bit(a > b)
      [] op = "LESSTHANOREQUAL"    -> Bit(a <= b)
      [] op = "GREATERTHANOREQUAL" -> Bit(a >= b)
      [] op = "MIN"                -> IF a < b THEN a ELSE b
      [] op = "MAX"                -> IF a > b THEN a ELSE b

-----------------------------------------------------------------------------
(* Machines. *)

Machine(script, stack, tx, nin, flags) ==
    [script |-> script, pc |-> 0, stack |-> stack, altstack |-> <<>>, vfExec |-> <<>>,
     nOpCount |-> 0, pbegincodehash |-> 0, failed |-> FALSE,
     tx |-> tx, nin |-> nin, flags |-> flags]

Fail(m) == [m EXCEPT !.failed = TRUE]

Depth(m) == Len(m.stack)

\* The n-th item from the top.
Top(m, n) == m.stack[Depth(m) - n + 1]

Items(m, from, n) == [j \in 1..n |-> Top(m, from + j - 1)]

Below(m, n) == SubSeq(m.stack, 1, Depth(m) - n)

\* The machine when the n topmost items give way to those of items.
Replace(m, n, items) == [m EXCEPT !.stack = Below(m, n) \o items]

PushOn(m, item) == Replace(m, 0, <<item>>)

CastToBool(item) == item \notin {False, NegativeZero}

\* The buffers a script reads as numbers without an exception.
IsNumber(m, item) ==
    \/ IsA(item, "num") /\ item.num \in -MaxNum..MaxNum
    \/ item = NegativeZero /\ "MINIMALDATA" \notin m.flags

NumberOf(item) == IF item = NegativeZero THEN 0 ELSE item.num

Truth(b) == IF b THEN True ELSE False

\* checkSignatureEncoding and checkPubkeyEncoding; all signatures here are of low S.
WellEncoded(m, sig, pubkey) ==
    /\ m.flags \cap {"DERSIG", "LOW_S", "STRICTENC"} # {} => IsSignature(sig)
    /\ "STRICTENC" \in m.flags => IsKey(pubkey)

\* The script from the last OP_CODESEPARATOR on, without the signatures themselves.
Subscript(m, sigs) ==
    FoldLeft(FindAndDelete, SubSeq(m.script, m.pbegincodehash + 1, Len(m.script)), sigs)

-----------------------------------------------------------------------------
(* Signatures. *)

\* The result of a check, left on the stack or, for a ...VERIFY, taken off again.
Answer(m, n, ok, verify) ==
    IF ~verify THEN Replace(m, n, <<Truth(ok)>>)
    ELSE IF ok THEN Replace(m, n, <<>>) ELSE Fail(m)

CheckSig(m, verify) ==
    LET sig == Top(m, 2)  pubkey == Top(m, 1)
    IN  IF Depth(m) < 2 \/ ~WellEncoded(m, sig, pubkey) THEN Fail(m)
        ELSE Answer(m, 2, VerifySignature(m.tx, sig, pubkey, m.nin, Subscript(m, <<sig>>)),
                    verify)

\* Wrong: the first key that does not verify its signature ends the loop.
MatchKeysFirstFailureEnds(m, sigs, keys, subscript) ==
    FoldLeft(LAMBDA loop, j :
                 IF ~loop.fSuccess \/ loop.isig > Len(sigs) THEN loop
                 ELSE LET ok == VerifySignature(m.tx, sigs[loop.isig], keys[j], m.nin, subscript)
                      IN  [loop EXCEPT !.isig = @ + 1, !.fSuccess = ok],
             [isig |-> 1, fSuccess |-> TRUE, wellEncoded |-> TRUE],
             [j \in 1..Len(keys) |-> j])

\* Wrong: one key too many may fail, so that a signature is left when the keys are used up.
MatchKeysOneFailureTooMany(m, sigs, keys, subscript) ==
    FoldLeft(LAMBDA loop, j :
                 IF ~loop.fSuccess \/ loop.isig > Len(sigs) THEN loop
                 ELSE LET ok   == VerifySignature(m.tx, sigs[loop.isig], keys[j], m.nin, subscript)
                          isig == IF ok THEN loop.isig + 1 ELSE loop.isig
                      IN  [isig         |-> isig,
                           fSuccess     |-> Len(sigs) - isig <= Len(keys) - j,
                           wellEncoded  |-> TRUE],
             [isig |-> 1, fSuccess |-> TRUE, wellEncoded |-> TRUE],
             [j \in 1..Len(keys) |-> j])

\* The loop over the keys, from the top down: a signature is given up for the next one
\* when a key verifies it, a key whether or not it verifies; it ends when fewer keys are
\* left than signatures.
MatchKeys(m, sigs, keys, subscript) ==
    FoldLeft(LAMBDA loop, j :
                 IF ~loop.fSuccess \/ loop.isig > Len(sigs) THEN loop
                 ELSE LET ok   == VerifySignature(m.tx, sigs[loop.isig], keys[j], m.nin, subscript)
                          isig == IF ok THEN loop.isig + 1 ELSE loop.isig
                      IN  [isig         |-> isig,
                           fSuccess     |-> Len(sigs) - isig < Len(keys) - j,
                           wellEncoded  |-> loop.wellEncoded
                                            /\ WellEncoded(m, sigs[loop.isig], keys[j])],
             [isig |-> 1, fSuccess |-> TRUE, wellEncoded |-> TRUE],
             [j \in 1..Len(keys) |-> j])

\* The parts of a multisig on the stack: where they lie, counted from the top.
IsCount(m, at, max) ==
    /\ Depth(m) >= at /\ IsNumber(m, Top(m, at))
    /\ NumberOf(Top(m, at)) \in 0..max

NKeys(m) == NumberOf(Top(m, 1))
NSigs(m) == NumberOf(Top(m, NKeys(m) + 2))
MultisigKeys(m) == Items(m, 2, NKeys(m))
MultisigSigs(m) == Items(m, NKeys(m) + 3, NSigs(m))

CheckMultisig(m, verify) ==
    IF ~IsCount(m, 1, MaxKeys) \/ m.nOpCount + NKeys(m) > MaxOps
       \/ ~IsCount(m, NKeys(m) + 2, NKeys(m))
    THEN Fail(m)
    ELSE LET i    == NKeys(m) + NSigs(m) + 3
             sigs == MultisigSigs(m)
         IN  IF Depth(m) < i THEN Fail(m)
             ELSE LET loop == MatchKeys(m, sigs, MultisigKeys(m), Subscript(m, sigs))
                  IN  IF \/ ~loop.wellEncoded
                         \/ "NULLDUMMY" \in m.flags /\ Size(Top(m, i)) > 0
                      THEN Fail(m)
                      ELSE Answer([m EXCEPT !.nOpCount = @ + NKeys(m)], i,
                                  loop.fSuccess, verify)

\* checkLockTime, with the names of the source: isFinal holds for a sequence number
\* that is not the last.
CheckLockTime(m, nLockTime) ==
    /\ m.tx.nLockTime < LockTimeThreshold <=> nLockTime < LockTimeThreshold
    /\ nLockTime <= m.tx.nLockTime
    /\ m.tx.inputs[m.nin].seq # "final"

-----------------------------------------------------------------------------
(* One chunk. *)

\* Opcodes up to OP_16, OP_RESERVED among them, do not count.
Counts(chunk) == chunk.op \notin {"PUSH", "SMALLINT", "RESERVED"}

CurrentChunk(m) == m.script[m.pc + 1]

\* No branch that is open at this chunk was turned down.
Executing(m) == \A i \in DOMAIN m.vfExec : m.vfExec[i]

\* Wrong: a conditional inside a branch that is not taken is passed over, its
\* OP_ENDIF is not.
ConditionalPassedOver(m, op) ==
    LET open == Len(m.vfExec)
    IN  CASE op \in {"IF", "NOTIF"} ->
               IF ~Executing(m) THEN m
               ELSE IF Depth(m) < 1 THEN Fail(m)
               ELSE [Replace(m, 1, <<>>) EXCEPT
                        !.vfExec = Append(@, CastToBool(Top(m, 1)) <=> op = "IF")]
          [] op = "ELSE"  -> IF open = 0 THEN Fail(m)
                             ELSE [m EXCEPT !.vfExec[open] = ~@]
          [] op = "ENDIF" -> IF open = 0 THEN Fail(m)
                             ELSE [m EXCEPT !.vfExec = SubSeq(@, 1, open - 1)]
          [] OTHER        -> Fail(m)

Conditional(m, op) ==
    LET open == Len(m.vfExec)
    IN  CASE op \in {"IF", "NOTIF"} ->
               IF ~Executing(m) THEN [m EXCEPT !.vfExec = Append(@, FALSE)]
               ELSE IF Depth(m) < 1 THEN Fail(m)
               ELSE [Replace(m, 1, <<>>) EXCEPT
                        !.vfExec = Append(@, CastToBool(Top(m, 1)) <=> op = "IF")]
          [] op = "ELSE"  -> IF open = 0 THEN Fail(m)
                             ELSE [m EXCEPT !.vfExec[open] = ~@]
          [] op = "ENDIF" -> IF open = 0 THEN Fail(m)
                             ELSE [m EXCEPT !.vfExec = SubSeq(@, 1, open - 1)]
          [] OTHER        -> Fail(m)

CheckLockTimeVerify(m) ==
    IF "CLTV" \notin m.flags
    THEN IF "NOPS" \in m.flags THEN Fail(m) ELSE m
    ELSE IF /\ Depth(m) >= 1
            /\ IsA(Top(m, 1), "num") \/ IsNumber(m, Top(m, 1))
            /\ NumberOf(Top(m, 1)) >= 0
            /\ CheckLockTime(m, NumberOf(Top(m, 1)))
         THEN m ELSE Fail(m)

\* OP_PICK and OP_ROLL need two items, whatever the number says.
PickOrRoll(m, op) ==
    IF Depth(m) < 2 \/ ~IsNumber(m, Top(m, 1)) THEN Fail(m)
    ELSE LET n    == NumberOf(Top(m, 1))
             rest == Replace(m, 1, <<>>)
         IN  IF n \notin 0..(Depth(rest) - 1) THEN Fail(m)
             ELSE IF op = "PICK" THEN PushOn(rest, Top(rest, n + 1))
             ELSE Replace(rest, n + 1, Reverse(Items(rest, 1, n)) \o <<Top(rest, n + 1)>>)

\* Operations that take n items and leave some in their place.
Takes(op) ==
    CASE op \in DOMAIN Rearranged                 -> Rearranged[op].takes
      [] op \in Binary \cup {"EQUAL", "EQUALVERIFY"} -> 2
      [] op = "WITHIN"                            -> 3
      [] op = "DEPTH"                             -> 0
      [] OTHER                                    -> 1

\* All the items that such an operation takes must be numbers.
Numeric(op) == op \in Unary \cup Binary \cup {"WITHIN"}

Leaves(m, op, x) ==
    CASE op \in DOMAIN Rearranged -> [j \in DOMAIN Rearranged[op].puts |-> x[Rearranged[op].puts[j]]]
      [] op = "IFDUP"             -> IF CastToBool(x[1]) THEN <<x[1], x[1]>> ELSE x
      [] op = "DEPTH"             -> <<Num(Depth(m))>>
      [] op = "SIZE"              -> <<x[1], Num(Size(x[1]))>>
      [] op = "EQUAL"             -> <<Truth(x[1] = x[2])>>
      [] op \in Unary             -> <<Num(OfOne(op, NumberOf(x[1])))>>
      [] op \in Binary            -> <<Num(OfTwo(op, NumberOf(x[1]), NumberOf(x[2])))>>
      [] op = "WITHIN"            -> <<Truth(NumberOf(x[1]) \in NumberOf(x[2])..(NumberOf(x[3]) - 1))>>
      [] op \in Hashes            -> <<Hash(op, x[1])>>

Plain(m, op) ==
    LET n == Takes(op)
        x == SubSeq(m.stack, Depth(m) - n + 1, Depth(m))
        verify == op \in {"EQUALVERIFY", "NUMEQUALVERIFY"}
    IN  IF \/ Depth(m) < n
           \/ Numeric(op) /\ \E j \in 1..n : ~IsNumber(m, x[j])
        THEN Fail(m)
        ELSE CASE op = "EQUALVERIFY"    -> Answer(m, 2, x[1] = x[2], TRUE)
               [] op = "NUMEQUALVERIFY" -> Answer(m, 2, NumberOf(x[1]) = NumberOf(x[2]), TRUE)
               [] OTHER                 -> Replace(m, n, Leaves(m, op, x))

PlainOps == DOMAIN Rearranged \cup {"IFDUP", "DEPTH", "SIZE", "EQUAL", "EQUALVERIFY", "WITHIN"}
                \cup Unary \cup Binary \cup Hashes

\* A chunk that is not a conditional, in a branch that is taken.  An opcode that
\* step has no case for fails.
Execute(m, chunk) ==
    LET op == chunk.op
    IN  CASE op = "PUSH"      -> IF "MINIMALDATA" \in m.flags /\ ~IsMinimalPush(chunk)
                                 THEN Fail(m) ELSE PushOn(m, chunk.item)
          [] op = "SMALLINT"  -> PushOn(m, Num(chunk.n))
          [] op = "NOP"       -> m
          [] op = "CLTV"      -> CheckLockTimeVerify(m)
          [] op \in Nops      -> IF "NOPS" \in m.flags THEN Fail(m) ELSE m
          [] op = "VERIFY"    -> IF Depth(m) >= 1 /\ CastToBool(Top(m, 1))
                                 THEN Replace(m, 1, <<>>) ELSE Fail(m)
          [] op = "TOALTSTACK" ->
                 IF Depth(m) < 1 THEN Fail(m)
                 ELSE [Replace(m, 1, <<>>) EXCEPT !.altstack = Append(@, Top(m, 1))]
          [] op = "FROMALTSTACK" ->
                 IF m.altstack = <<>> THEN Fail(m)
                 ELSE [PushOn(m, Last(m.altstack)) EXCEPT !.altstack = Front(@)]
          [] op \in {"PICK", "ROLL"} -> PickOrRoll(m, op)
          [] op \in PlainOps  -> Plain(m, op)
          [] op = "CODESEPARATOR" -> [m EXCEPT !.pbegincodehash = m.pc]
          [] op \in {"CHECKSIG", "CHECKSIGVERIFY"} -> CheckSig(m, op = "CHECKSIGVERIFY")
          [] op \in {"CHECKMULTISIG", "CHECKMULTISIGVERIFY"} ->
                 CheckMultisig(m, op = "CHECKMULTISIGVERIFY")
          [] OTHER            -> Fail(m)

Step(m) ==
    LET chunk == CurrentChunk(m)
        read  == [m EXCEPT !.pc = @ + 1, !.nOpCount = @ + Bit(Counts(chunk))]
    IN  IF \/ chunk.op = "PUSH" /\ Size(chunk.item) > MaxElement
           \/ read.nOpCount > MaxOps
           \/ chunk.op \in Disabled
        THEN Fail(read)
        ELSE IF chunk.op \in Conditionals THEN Conditional(read, chunk.op)
        ELSE IF Executing(m) THEN Execute(read, chunk)
        ELSE read

-----------------------------------------------------------------------------
(* Whole scripts, and a spend. *)

Finished(m) == m.pc = Len(m.script)

\* What evaluate asks of a machine at the end of its script.
Evaluated(m) ==
    /\ ~m.failed
    /\ Len(m.stack) + Len(m.altstack) <= MaxStack
    /\ m.vfExec = <<>>

Evaluate(m) ==
    FoldLeft(LAMBDA at, chunk : IF at.failed THEN at ELSE Step(at), m, m.script)

EndsTrue(m) == Evaluated(m) /\ m.stack # <<>> /\ CastToBool(Last(m.stack))

\* The three scripts of a spend: that of the input, that of the output on the stack it
\* leaves, and, for pay to script hash, the redeem script on that stack without itself.
SigMachine(spend, tx, nin) == Machine(spend.scriptSig, <<>>, tx, nin, spend.flags)

PubkeyMachine(spend, m) ==
    Machine(spend.scriptPubkey, m.stack, m.tx, m.nin, spend.flags)

RedeemMachine(spend, stackCopy, m) ==
    Machine(Last(stackCopy).script, Front(stackCopy), m.tx, m.nin, spend.flags)

RefusedAtOnce(spend) == "SIGPUSHONLY" \in spend.flags /\ ~IsPushOnly(spend.scriptSig)

NeedsRedeem(spend) == "P2SH" \in spend.flags /\ IsScriptHashOut(spend.scriptPubkey)

Verify(spend, tx, nin) ==
    LET sig    == Evaluate(SigMachine(spend, tx, nin))
        pubkey == Evaluate(PubkeyMachine(spend, sig))
    IN  /\ ~RefusedAtOnce(spend)
        /\ Evaluated(sig)
        /\ EndsTrue(pubkey)
        /\ NeedsRedeem(spend) =>
              /\ IsPushOnly(spend.scriptSig)
              /\ EndsTrue(Evaluate(RedeemMachine(spend, sig.stack, sig)))
=============================================================================
