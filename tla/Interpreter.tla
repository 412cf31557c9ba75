---------------------------- MODULE Interpreter -----------------------------
(***************************************************************************)
(* An Interpreter of silubiumcore-lib while verify runs: the script of an  *)
(* input, then that of the output it spends, then, for pay to script hash, *)
(* the redeem script, one chunk at a time.  Every spend of Spends is a     *)
(* behaviour of its own.                                                   *)
(***************************************************************************)
EXTENDS ScriptSteps

CONSTANTS Spends,  \* records of scriptSig, scriptPubkey and flags
          Tx       \* the transaction that spends, in its first input

VARIABLES spend, phase, machine,
          stackCopy,  \* the stack that the input's script left, for the redeem script
          chosen      \* what each OP_IF and OP_NOTIF that was executed decided

vars == <<spend, phase, machine, stackCopy, chosen>>

Phases == {"sig", "pubkey", "redeem", "accepted", "rejected"}

Running == phase \in {"sig", "pubkey", "redeem"}

TypeOK ==
    /\ phase \in Phases
    /\ machine.pc \in 0..Len(machine.script)
    /\ \A i \in DOMAIN machine.vfExec : machine.vfExec[i] \in BOOLEAN
    /\ DOMAIN chosen \subseteq 1..machine.pc

Init ==
    /\ spend \in Spends
    /\ phase = IF RefusedAtOnce(spend) THEN "rejected" ELSE "sig"
    /\ machine = SigMachine(spend, Tx, 1)
    /\ stackCopy = <<>>
    /\ chosen = <<>>

\* The choices with that of the conditional at i.
WithChoice(choices, i, choice) ==
    [j \in DOMAIN choices \cup {i} |-> IF j = i THEN choice ELSE choices[j]]

\* One call of step.
Chunk ==
    /\ Running /\ ~machine.failed /\ ~Finished(machine)
    /\ machine' = Step(machine)
    /\ chosen' = IF CurrentChunk(machine).op \in {"IF", "NOTIF"} /\ Executing(machine)
                    /\ ~machine'.failed
                 THEN WithChoice(chosen, machine'.pc,
                                 CastToBool(Top(machine, 1)) <=> CurrentChunk(machine).op = "IF")
                 ELSE chosen
    /\ UNCHANGED <<spend, phase, stackCopy>>

Begin(nextPhase, nextMachine) ==
    /\ phase' = nextPhase
    /\ machine' = nextMachine
    /\ chosen' = <<>>
    /\ UNCHANGED spend

Finish(verdict) ==
    /\ phase' = verdict
    /\ UNCHANGED <<spend, machine, stackCopy, chosen>>

Passes == IF phase = "sig" THEN Evaluated(machine) ELSE EndsTrue(machine)

\* evaluate returns false, or verify does after it.
Reject ==
    /\ \/ Running /\ machine.failed
       \/ Running /\ ~machine.failed /\ Finished(machine) /\ ~Passes
       \/ /\ phase = "pubkey" /\ Finished(machine) /\ EndsTrue(machine)
          /\ NeedsRedeem(spend) /\ ~IsPushOnly(spend.scriptSig)
    /\ Finish("rejected")

SpendOutput ==
    /\ phase = "sig" /\ Finished(machine) /\ Evaluated(machine)
    /\ Begin("pubkey", PubkeyMachine(spend, machine))
    /\ stackCopy' = machine.stack

Redeem ==
    /\ phase = "pubkey" /\ Finished(machine) /\ EndsTrue(machine)
    /\ NeedsRedeem(spend) /\ IsPushOnly(spend.scriptSig)
    /\ Begin("redeem", RedeemMachine(spend, stackCopy, machine))
    /\ UNCHANGED stackCopy

Accept ==
    /\ Finished(machine) /\ EndsTrue(machine)
    /\ \/ phase = "pubkey" /\ ~NeedsRedeem(spend)
       \/ phase = "redeem"
    /\ Finish("accepted")

Next == Chunk \/ Reject \/ SpendOutput \/ Redeem \/ Accept

Spec == Init /\ [][Next]_vars

-----------------------------------------------------------------------------
(* What scripts are made of, whatever the machine keeps in vfExec. *)

Count(script, ops, from, to) == Cardinality({i \in from..to : script[i].op \in ops})

Opens == {"IF", "NOTIF"}

\* The conditional at i contains the chunk at p: no OP_ENDIF before p is its own.
Encloses(script, i, p) ==
    /\ i < p /\ script[i].op \in Opens
    /\ \A j \in i..(p - 1) : Count(script, Opens, i, j) > Count(script, {"ENDIF"}, i, j)

\* The OP_ELSEs before p that belong to the conditional at i.
Elses(script, i, p) ==
    {j \in (i + 1)..(p - 1) :
        /\ script[j].op = "ELSE"
        /\ Encloses(script, i, j)
        /\ ~\E k \in (i + 1)..(j - 1) : Encloses(script, k, j)}

\* p lies in the halves that the conditionals around it chose.
Taken(script, p) ==
    \A i \in 1..(p - 1) :
        Encloses(script, i, p) =>
            /\ i \in DOMAIN chosen
            /\ chosen[i] <=> Cardinality(Elses(script, i, p)) % 2 = 0

Balanced(script) ==
    /\ Count(script, Opens, 1, Len(script)) = Count(script, {"ENDIF"}, 1, Len(script))
    /\ \A i \in DOMAIN script :
           Count(script, {"ENDIF"}, 1, i) <= Count(script, Opens, 1, i)

Reads == phase' = phase /\ machine' # machine

\* A chunk changes the stacks only in the branches its script has chosen, a conditional
\* takes its condition off the stack only there, a push there is never left out, and a
\* script that passes has every conditional closed: however conditionals are nested and
\* however many OP_ELSE each has, vfExec says what the structure of the script says.
BranchesFollowStructure ==
    [][LET script == machine.script
           p      == machine.pc + 1
       IN  /\ Reads /\ ~machine'.failed =>
                 IF ~Taken(script, p)
                 THEN /\ <<machine'.stack, machine'.altstack>> = <<machine.stack, machine.altstack>>
                      /\ machine'.pbegincodehash = machine.pbegincodehash
                 ELSE /\ script[p].op \in Opens => machine'.stack = Front(machine.stack)
                      /\ script[p].op \in {"PUSH", "SMALLINT"} =>
                             Front(machine'.stack) = machine.stack
           /\ ~Reads /\ phase' # "rejected" => Balanced(script)]_vars

\* The keys can be given, in their order, to all the signatures, each verifying its own.
Matching(sigs, keys, m, subscript) ==
    \E f \in [DOMAIN sigs -> DOMAIN keys] :
        /\ \A i, j \in DOMAIN sigs : i < j => f[i] < f[j]
        /\ \A i \in DOMAIN sigs : VerifySignature(m.tx, sigs[i], keys[f[i]], m.nin, subscript)

\* OP_CHECKMULTISIG answers true exactly when the signatures have keys of their own in the
\* order of the keys, although its loop never goes back to a key it has passed.
MultisigIsMatching ==
    [][/\ Reads /\ ~machine'.failed
       /\ CurrentChunk(machine).op \in {"CHECKMULTISIG", "CHECKMULTISIGVERIFY"}
       /\ Executing(machine)
       => (Matching(MultisigSigs(machine), MultisigKeys(machine), machine,
                    Subscript(machine, MultisigSigs(machine)))
           <=> \/ CurrentChunk(machine).op = "CHECKMULTISIGVERIFY"
               \/ Last(machine'.stack) = True)]_vars

-----------------------------------------------------------------------------
(* Who has to sign. *)

\* The keys of a standard script, and how many of them it wants; none of any other.
Lock(script) ==
    CASE Ops(script) = <<"DUP", "HASH160", "PUSH", "EQUALVERIFY", "CHECKSIG">> ->
           [keys |-> <<script[3].item.of.key>>, threshold |-> 1]
      [] Ops(script) = <<"PUSH", "CHECKSIG">> ->
           [keys |-> <<script[1].item.key>>, threshold |-> 1]
      [] script # <<>> /\ Last(script).op = "CHECKMULTISIG" ->
           [keys |-> [i \in 1..(Len(script) - 3) |-> script[i + 1].item.key],
            threshold |-> script[1].n]
      [] OTHER -> [keys |-> <<>>, threshold |-> 0]

Signatures == {c.item : c \in {d \in ToSet(spend.scriptSig) : d.op = "PUSH" /\ IsSignature(d.item)}}

\* The keys whose owners' signature over this very transaction the input's script holds;
\* a key that stands twice in a multisig counts twice.
Signers(script) ==
    {i \in DOMAIN Lock(script).keys :
        \E s \in Signatures :
            s.by = Lock(script).keys[i] /\ s.over = Digest(Tx, s.type, 1, script)}

\* The script that decides about a spend: that of the output, or the one whose hash it is.
Decides(s) == IF NeedsRedeem(s) THEN s.scriptPubkey[2].item.of.script ELSE s.scriptPubkey

SpentScript == Decides(spend)

IsScript(script) == script \in Seq(ToSet(script))

\* A script that wants keys is one that a builder of Script makes.
IsStandard(script) ==
    LET lock == Lock(script)
    IN  \/ lock.threshold = 0
        \/ script = PublicKeyHashOut(lock.keys[1])
        \/ script = PublicKeyOut(lock.keys[1])
        \/ /\ lock.threshold \in 1..Len(lock.keys)
           /\ script = MultisigOut(lock.keys, lock.threshold)

\* Outputs to a script hash commit to a script; outputs that want keys are standard.
ASSUME SpendsOfScripts ==
    \A s \in Spends :
        /\ IsScript(s.scriptSig) /\ IsScript(s.scriptPubkey)
        /\ IsScript(Decides(s)) /\ IsStandard(Decides(s))
        /\ NeedsRedeem(s) =>
               s.scriptPubkey[2].item = Hash("HASH160", Serialized(Decides(s)))

\* An output to keys is spent only with signatures over this transaction for as many
\* of the keys as its script wants, whatever else the script of the input does: no
\* branch it leaves open, nothing it leaves on a stack and no script it commits to passes
\* the check in their place.
SpendsAreAuthorized ==
    phase = "accepted" =>
        Cardinality(Signers(SpentScript)) >= Lock(SpentScript).threshold
=============================================================================
