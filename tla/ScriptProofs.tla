---------------------------- MODULE ScriptProofs -----------------------------
(***************************************************************************)
(* That an Interpreter takes the branches which the structure of a script  *)
(* says, that its loop over keys and signatures finds a matching when      *)
(* there is one, and that it accepts a spend of an output to keys with     *)
(* the signatures the output asks for, and only with them; for every       *)
(* script, every transaction and all limits of the machine.                *)
(***************************************************************************)
EXTENDS Interpreter, SequenceTheorems, FiniteSetTheorems, WellFoundedInduction, TLAPS

LEMMA LeastOf ==
    ASSUME NEW T \in SUBSET Nat, T # {}
    PROVE  \E x \in T : \A y \in T : x <= y
<1>1. PICK x \in T : \A y \in T : ~(<<y, x>> \in OpToRel(<, Nat))
  BY NatLessThanWellFounded, WFMin
<1>2. \A y \in T : ~(y < x)
  BY <1>1 DEF OpToRel
<1> QED
  BY <1>2

\* Induction, for a set of numbers.
LEMMA AllNumbers ==
    ASSUME NEW n \in Nat, NEW T, 0 \in T, \A k \in 0..(n - 1) : k \in T => k + 1 \in T
    PROVE  0..n \subseteq T
<1> SUFFICES ASSUME NEW b \in 0..n, b \notin T PROVE FALSE
  OBVIOUS
<1> DEFINE U == {k \in 0..n : k \notin T}
<1>1. U \in SUBSET Nat /\ U # {}
  OBVIOUS
<1>2. PICK k \in U : \A y \in U : k <= y
  BY <1>1, LeastOf
<1>3. k # 0 /\ k - 1 \in 0..(n - 1) /\ k - 1 \notin U
  BY <1>2
<1>4. k - 1 \in T
  BY <1>3
<1> QED
  BY <1>2, <1>3, <1>4

LEMMA GreatestOf ==
    ASSUME NEW n \in Nat, NEW T \in SUBSET (1..n), T # {}
    PROVE  Max(T) \in T /\ \A y \in T : Max(T) >= y
<1> DEFINE U == {n - x : x \in T}
<1>1. U \in SUBSET Nat /\ U # {}
  <2>1. \A x \in T : n - x \in Nat
    OBVIOUS
  <2> QED
    BY <2>1
<1>2. PICK u \in U : \A v \in U : u <= v
  BY <1>1, LeastOf
<1>3. PICK x \in T : u = n - x
  BY <1>2
<1>4. \A y \in T : x >= y
  <2> SUFFICES ASSUME NEW y \in T PROVE x >= y
    OBVIOUS
  <2>1. n - y \in U
    OBVIOUS
  <2>2. n - x <= n - y
    BY <1>2, <1>3, <2>1
  <2> QED
    BY <2>2
<1>5. \E z \in T : \A y \in T : z >= y
  BY <1>3, <1>4
<1> QED
  BY <1>5 DEF Max

LEMMA MaxOfInterval ==
    ASSUME NEW n \in Nat, NEW k \in 1..n, NEW T \in SUBSET (1..n), k \in T, \A y \in T : y <= k
    PROVE  Max(T) = k
<1>1. Max(T) \in T /\ \A y \in T : Max(T) >= y
  BY GreatestOf
<1>2. PICK x \in T : x = Max(T)
  BY <1>1
<1>3. x >= k /\ x <= k /\ x \in Int
  BY <1>1, <1>2
<1> QED
  BY <1>2, <1>3

-----------------------------------------------------------------------------
(* Folds.  What FoldLeft computes is a function on the sets of places; such  *)
(* a function exists, and then it goes from place to place.                  *)

IsFold(g, A, base, n, F) ==
    /\ g = [s \in SUBSET (1..n) |-> IF s = {} THEN base ELSE F[<<g[s \ {Max(s)}], Max(s)>>]]
    /\ \A s \in SUBSET (1..n) : g[s] \in A

LEMMA FoldExists ==
    ASSUME NEW A, NEW base \in A, NEW n \in Nat, NEW F,
           \A a \in A, i \in 1..n : F[<<a, i>>] \in A
    PROVE  \E g : IsFold(g, A, base, n, F)
<1> DEFINE Folds(g, k) ==
             /\ g = [s \in SUBSET (1..k) |->
                        IF s = {} THEN base ELSE F[<<g[s \ {Max(s)}], Max(s)>>]]
             /\ \A s \in SUBSET (1..k) : g[s] \in A
           T == {k \in 0..n : \E g : Folds(g, k)}
<1>1. 0 \in T
  <2> DEFINE g == [s \in SUBSET (1..0) |-> base]
  <2>1. SUBSET (1..0) = {{}}
    OBVIOUS
  <2>2. Folds(g, 0)
    BY <2>1
  <2>3. \E f : Folds(f, 0)
    <3> HIDE DEF Folds
    <3> QED
      BY <2>2
  <2> HIDE DEF Folds
  <2> QED
    BY <2>3
<1>2. ASSUME NEW k \in 0..(n - 1), k \in T PROVE k + 1 \in T
  <2>1. PICK g : Folds(g, k)
    BY <1>2
  <2> DEFINE h == [s \in SUBSET (1..(k + 1)) |->
                      IF k + 1 \in s THEN F[<<g[s \ {k + 1}], k + 1>>] ELSE g[s]]
  <2>2. \A s \in SUBSET (1..(k + 1)) : s \ {k + 1} \in SUBSET (1..k)
    OBVIOUS
  <2>3. \A s \in SUBSET (1..(k + 1)) : k + 1 \notin s => s \in SUBSET (1..k)
    OBVIOUS
  <2>4. \A s \in SUBSET (1..(k + 1)) : h[s] \in A
    <3> SUFFICES ASSUME NEW s \in SUBSET (1..(k + 1)) PROVE h[s] \in A
      OBVIOUS
    <3>1. CASE k + 1 \in s
      <4>1. k + 1 \in 1..n
        OBVIOUS
      <4>2. g[s \ {k + 1}] \in A
        BY <2>1, <2>2
      <4> QED
        BY <3>1, <4>1, <4>2
    <3>2. CASE k + 1 \notin s
      BY <2>1, <2>3, <3>2
    <3> QED
      BY <3>1, <3>2
  <2>5. ASSUME NEW s \in SUBSET (1..(k + 1))
        PROVE  h[s] = IF s = {} THEN base ELSE F[<<h[s \ {Max(s)}], Max(s)>>]
    <3>1. CASE k + 1 \in s
      <4>1. Max(s) = k + 1
        <5>1. k + 1 \in Nat /\ k + 1 \in 1..(k + 1)
          OBVIOUS
        <5> QED
          BY <3>1, <5>1, MaxOfInterval
      <4>2. h[s \ {k + 1}] = g[s \ {k + 1}]
        BY <2>2
      <4> QED
        BY <3>1, <4>1, <4>2
    <3>2. CASE s = {}
      BY <2>1, <3>2
    <3>3. CASE k + 1 \notin s /\ s # {}
      <4>1. s \in SUBSET (1..k)
        BY <2>3, <3>3
      <4>2. h[s] = F[<<g[s \ {Max(s)}], Max(s)>>]
        BY <2>1, <3>3, <4>1
      <4>3. s \ {Max(s)} \in SUBSET (1..(k + 1)) /\ k + 1 \notin s \ {Max(s)}
        BY <3>3
      <4>4. h[s \ {Max(s)}] = g[s \ {Max(s)}]
        BY <4>3
      <4> QED
        BY <3>3, <4>2, <4>4
    <3> QED
      BY <3>1, <3>2, <3>3
  <2>6. Folds(h, k + 1)
    <3> HIDE DEF h
    <3>1. h = [s \in SUBSET (1..(k + 1)) |-> h[s]]
      BY DEF h
    <3> QED
      BY <2>4, <2>5, <3>1
  <2>7. \E f : Folds(f, k + 1)
    <3> HIDE DEF Folds, h
    <3> QED
      BY <2>6
  <2> HIDE DEF Folds
  <2> QED
    BY <2>7
<1>3. n \in T
  <2> HIDE DEF T
  <2>1. 0..n \subseteq T
    BY <1>1, <1>2, AllNumbers
  <2> QED
    BY <2>1
<1> QED
  BY <1>3 DEF IsFold

-----------------------------------------------------------------------------
(* Stacks.  G are the signatures that may lie on one. *)

Stack(s, G) == \E Y : s \in Seq(Y) /\ \A y \in Y : IsSignature(y) => y \in G

LEMMA StackFacts ==
    ASSUME NEW G, NEW s, Stack(s, G)
    PROVE  /\ Len(s) \in Nat /\ DOMAIN s = 1..Len(s)
           /\ \A i \in 1..Len(s) : IsSignature(s[i]) => s[i] \in G
BY DEF Stack

LEMMA NoStack == ASSUME NEW G PROVE Stack(<<>>, G)
BY DEF Stack

LEMMA OneItem ==
    ASSUME NEW G, NEW x, IsSignature(x) => x \in G
    PROVE  Stack(<<x>>, G)
<1>1. <<x>> \in Seq({x})
  OBVIOUS
<1> QED
  BY <1>1 DEF Stack

LEMMA Items1 ==
    ASSUME NEW G, NEW n \in Nat, NEW s, s = [i \in 1..n |-> s[i]],
           \A i \in 1..n : IsSignature(s[i]) => s[i] \in G
    PROVE  Stack(s, G)
<1> DEFINE Y == {s[i] : i \in 1..n}
<1>1. s \in Seq(Y)
  OBVIOUS
<1>2. \A y \in Y : IsSignature(y) => y \in G
  OBVIOUS
<1> HIDE DEF Y
<1> QED
  BY <1>1, <1>2 DEF Stack

LEMMA Concatenated ==
    ASSUME NEW G, NEW s, NEW t, Stack(s, G), Stack(t, G)
    PROVE  /\ Stack(s \o t, G) /\ Len(s \o t) = Len(s) + Len(t)
           /\ \A i \in 1..Len(s) : (s \o t)[i] = s[i]
           /\ \A i \in 1..Len(t) : (s \o t)[Len(s) + i] = t[i]
<1>1. PICK Y : s \in Seq(Y) /\ \A y \in Y : IsSignature(y) => y \in G
  BY DEF Stack
<1>2. PICK Z : t \in Seq(Z) /\ \A y \in Z : IsSignature(y) => y \in G
  BY DEF Stack
<1>3. s \in Seq(Y \cup Z) /\ t \in Seq(Y \cup Z)
  BY <1>1, <1>2, SeqMonotonic
<1>4. s \o t \in Seq(Y \cup Z)
  BY <1>3, ConcatProperties
<1>5. Stack(s \o t, G)
  BY <1>1, <1>2, <1>4 DEF Stack
<1> QED
  BY <1>3, <1>5, ConcatProperties

LEMMA Cut ==
    ASSUME NEW G, NEW s, Stack(s, G), NEW a \in Nat \ {0}, NEW b \in 0..Len(s)
    PROVE  /\ Stack(SubSeq(s, a, b), G)
           /\ Len(SubSeq(s, a, b)) = IF a <= b THEN b - a + 1 ELSE 0
           /\ \A i \in 1..(b - a + 1) : SubSeq(s, a, b)[i] = s[a + i - 1]
<1>1. PICK Y : s \in Seq(Y) /\ \A y \in Y : IsSignature(y) => y \in G
  BY DEF Stack
<1>2. \A i \in a..b : s[i] \in Y
  BY <1>1
<1>3. a \in Int /\ b \in Int
  BY <1>1
<1>4. SubSeq(s, a, b) \in Seq(Y)
  BY <1>2, <1>3, SubSeqProperties
<1>5. Stack(SubSeq(s, a, b), G)
  BY <1>1, <1>4 DEF Stack
<1> QED
  BY <1>2, <1>3, <1>5, SubSeqProperties

-----------------------------------------------------------------------------
(* Machines. *)

IsMachine(m) ==
    m = [script |-> m.script, pc |-> m.pc, stack |-> m.stack, altstack |-> m.altstack,
         vfExec |-> m.vfExec, nOpCount |-> m.nOpCount, pbegincodehash |-> m.pbegincodehash,
         failed |-> m.failed, tx |-> m.tx, nin |-> m.nin, flags |-> m.flags]

MachineOK(m, G) ==
    /\ IsMachine(m)
    /\ Stack(m.stack, G) /\ Stack(m.altstack, G)
    /\ m.vfExec \in Seq(BOOLEAN)
    /\ m.pc \in Nat /\ m.nOpCount \in Nat /\ m.pbegincodehash \in Nat
    /\ m.failed \in BOOLEAN

\* What a chunk does not change.
SameRun(m, n) ==
    n.script = m.script /\ n.pc = m.pc /\ n.tx = m.tx /\ n.nin = m.nin /\ n.flags = m.flags

Kept(m, n, G) == MachineOK(n, G) /\ SameRun(m, n) /\ n.vfExec = m.vfExec

LEMMA WithFailed ==
    ASSUME NEW m, IsMachine(m), NEW b
    PROVE  [m EXCEPT !.failed = b] =
               [script |-> m.script, pc |-> m.pc, stack |-> m.stack, altstack |-> m.altstack,
                vfExec |-> m.vfExec, nOpCount |-> m.nOpCount,
                pbegincodehash |-> m.pbegincodehash, failed |-> b, tx |-> m.tx,
                nin |-> m.nin, flags |-> m.flags]
BY DEF IsMachine

LEMMA FailKept ==
    ASSUME NEW G, NEW m, MachineOK(m, G)
    PROVE  Kept(m, Fail(m), G) /\ Fail(m).failed = TRUE
<1>1. Fail(m) = [script |-> m.script, pc |-> m.pc, stack |-> m.stack, altstack |-> m.altstack,
                 vfExec |-> m.vfExec, nOpCount |-> m.nOpCount,
                 pbegincodehash |-> m.pbegincodehash, failed |-> TRUE, tx |-> m.tx,
                 nin |-> m.nin, flags |-> m.flags]
  BY WithFailed, Zenon DEF Fail, MachineOK
<1>2. Fail(m).failed = TRUE
  BY <1>1
<1>3. IsMachine(Fail(m))
  BY <1>1 DEF IsMachine
<1>4. SameRun(m, Fail(m)) /\ Fail(m).vfExec = m.vfExec
  BY <1>1 DEF SameRun
<1>5. MachineOK(Fail(m), G)
  BY <1>1, <1>2, <1>3 DEF MachineOK
<1> QED
  BY <1>2, <1>4, <1>5 DEF Kept

LEMMA BelowIsStack ==
    ASSUME NEW G, NEW m, MachineOK(m, G), NEW k \in 0..Depth(m)
    PROVE  Stack(Below(m, k), G)
<1>1. Stack(m.stack, G) /\ Depth(m) = Len(m.stack)
  BY DEF MachineOK, Depth
<1>2. PICK d \in Nat : d = Len(m.stack) /\ d = Depth(m)
  BY <1>1, StackFacts
<1>3. PICK b \in 0..Len(m.stack) : b = Depth(m) - k
  <2>1. k \in 0..d
    BY <1>2
  <2>2. d - k \in 0..d
    BY <2>1
  <2> QED
    BY <1>2, <2>2
<1>4. 1 \in Nat \ {0}
  OBVIOUS
<1>5. Stack(SubSeq(m.stack, 1, b), G)
  BY <1>1, <1>4, Cut
<1> QED
  BY <1>3, <1>5 DEF Below

LEMMA ReplaceKept ==
    ASSUME NEW G, NEW m, MachineOK(m, G), NEW k \in 0..Depth(m), NEW items, Stack(items, G)
    PROVE  /\ Kept(m, Replace(m, k, items), G) /\ Replace(m, k, items).failed = m.failed
           /\ Replace(m, k, items).altstack = m.altstack
           /\ Replace(m, k, items).stack = Below(m, k) \o items
<1>1. Depth(m) \in Nat
  BY StackFacts DEF MachineOK, Depth
<1>2. Stack(Below(m, k), G)
  BY BelowIsStack
<1>3. Stack(Below(m, k) \o items, G)
  BY <1>2, Concatenated
<1> DEFINE new == Below(m, k) \o items
<1>4. Replace(m, k, items) = [m EXCEPT !.stack = new]
  BY DEF Replace
<1> HIDE DEF new
<1>5. Stack(new, G)
  BY <1>3 DEF new
<1> QED
  BY <1>4, <1>5 DEF Kept, MachineOK, IsMachine, SameRun, new
-----------------------------------------------------------------------------
(* What the chunks do. *)

LEMMA NoSignatures ==
    /\ \A n : ~IsSignature(Num(n))
    /\ \A how, x : ~IsSignature(Hash(how, x))
    /\ ~IsSignature(True) /\ ~IsSignature(False)
BY DEF IsSignature, IsA, Num, Hash, True, False

LEMMA Numbers ==
    ASSUME NEW m, NEW item, IsNumber(m, item)
    PROVE  NumberOf(item) \in Int
<1>1. MaxNum \in Nat
  BY LimitsAreNumbers
<1> QED
  BY <1>1 DEF IsNumber, NumberOf

LEMMA AnswerKept ==
    ASSUME NEW G, NEW m, MachineOK(m, G), NEW k \in 0..Depth(m),
           NEW n, n \in {Replace(m, k, <<True>>), Replace(m, k, <<False>>), Replace(m, k, <<>>), Fail(m)}
    PROVE  Kept(m, n, G)
<1>1. Stack(<<True>>, G) /\ Stack(<<False>>, G) /\ Stack(<<>>, G)
  BY OneItem, NoStack, NoSignatures
<1> QED
  BY <1>1, ReplaceKept, FailKept

LEMMA CheckSigKept ==
    ASSUME NEW G, NEW m, MachineOK(m, G), NEW verify \in BOOLEAN
    PROVE  Kept(m, CheckSig(m, verify), G)
<1>1. Depth(m) \in Nat
  BY StackFacts DEF MachineOK, Depth
<1>2. CASE CheckSig(m, verify) = Fail(m)
  BY <1>2, FailKept
<1>3. CASE Depth(m) >= 2 /\ CheckSig(m, verify) # Fail(m)
  <2>1. CheckSig(m, verify) \in {Replace(m, 2, <<True>>), Replace(m, 2, <<False>>),
                                  Replace(m, 2, <<>>), Fail(m)}
    BY <1>3 DEF CheckSig, Answer, Truth
  <2> QED
    BY <1>1, <1>3, <2>1, AnswerKept
<1>4. ~(Depth(m) >= 2) => CheckSig(m, verify) = Fail(m)
  BY <1>1 DEF CheckSig
<1> QED
  BY <1>2, <1>3, <1>4

\* A multisig that does not fail: where its parts lie, and what it answers.
LEMMA MultisigParts ==
    ASSUME NEW G, NEW m, MachineOK(m, G), NEW verify \in BOOLEAN, CheckMultisig(m, verify) # Fail(m)
    PROVE  LET i    == NKeys(m) + NSigs(m) + 3
               sigs == MultisigSigs(m)
               loop == MatchKeys(m, sigs, MultisigKeys(m), Subscript(m, sigs))
           IN  /\ NKeys(m) \in Nat /\ NSigs(m) \in Nat /\ NSigs(m) <= NKeys(m)
               /\ i \in 0..Depth(m)
               /\ CheckMultisig(m, verify) =
                      Answer([m EXCEPT !.nOpCount = @ + NKeys(m)], i, loop.fSuccess, verify)
<1>1. MaxKeys \in Nat /\ Depth(m) \in Nat
  BY LimitsAreNumbers, StackFacts DEF MachineOK, Depth
<1>2. IsCount(m, 1, MaxKeys) /\ IsCount(m, NKeys(m) + 2, NKeys(m))
  BY DEF CheckMultisig
<1>3. NKeys(m) \in Nat
  BY <1>1, <1>2 DEF IsCount, NKeys
<1>4. NSigs(m) \in Nat /\ NSigs(m) <= NKeys(m)
  BY <1>2, <1>3 DEF IsCount, NSigs
<1>5. ~(Depth(m) < NKeys(m) + NSigs(m) + 3)
  BY DEF CheckMultisig
<1>6. NKeys(m) + NSigs(m) + 3 \in 0..Depth(m)
  BY <1>1, <1>3, <1>4, <1>5
<1> QED
  BY <1>3, <1>4, <1>6 DEF CheckMultisig

LEMMA CountedKept ==
    ASSUME NEW G, NEW m, MachineOK(m, G), NEW k \in Nat
    PROVE  LET n == [m EXCEPT !.nOpCount = @ + k]
           IN  /\ Kept(m, n, G) /\ n.stack = m.stack /\ n.altstack = m.altstack
               /\ n.pbegincodehash = m.pbegincodehash /\ n.failed = m.failed
<1> DEFINE n == [m EXCEPT !.nOpCount = @ + k]
<1>1. m.nOpCount + k \in Nat
  BY DEF MachineOK
<1> DEFINE c == m.nOpCount + k
<1>2. n = [m EXCEPT !.nOpCount = c]
  OBVIOUS
<1>3. c \in Nat
  BY <1>1
<1> HIDE DEF c
<1> QED
  BY <1>2, <1>3 DEF Kept, MachineOK, IsMachine, SameRun

LEMMA KeptKept ==
    ASSUME NEW G, NEW m, NEW n, NEW o, Kept(m, n, G), Kept(n, o, G)
    PROVE  Kept(m, o, G)
BY DEF Kept, SameRun

LEMMA CheckMultisigKept ==
    ASSUME NEW G, NEW m, MachineOK(m, G), NEW verify \in BOOLEAN
    PROVE  Kept(m, CheckMultisig(m, verify), G)
<1>1. CASE CheckMultisig(m, verify) = Fail(m)
  BY <1>1, FailKept
<1>2. CASE CheckMultisig(m, verify) # Fail(m)
  <2> DEFINE n == [m EXCEPT !.nOpCount = @ + NKeys(m)]
             i == NKeys(m) + NSigs(m) + 3
  <2>1. NKeys(m) \in Nat /\ i \in 0..Depth(m)
    BY <1>2, MultisigParts
  <2>2. CheckMultisig(m, verify) \in {Replace(n, i, <<True>>), Replace(n, i, <<False>>),
                                      Replace(n, i, <<>>), Fail(n)}
    BY <1>2, MultisigParts DEF Answer, Truth
  <2>3. Kept(m, n, G) /\ n.stack = m.stack
    BY <2>1, CountedKept
  <2>4. MachineOK(n, G) /\ i \in 0..Depth(n)
    BY <2>1, <2>3 DEF Kept, Depth
  <2> HIDE DEF n, i
  <2>5. Kept(n, CheckMultisig(m, verify), G)
    BY <2>2, <2>4, AnswerKept
  <2> QED
    BY <2>3, <2>5, KeptKept
<1> QED
  BY <1>1, <1>2
-----------------------------------------------------------------------------
\* The table of the plain stack operations puts back only what it takes.
LEMMA RearrangedOps ==
    DOMAIN Rearranged = {"2DROP", "2DUP", "3DUP", "2OVER", "2ROT", "2SWAP", "DROP", "DUP", "NIP",
                         "OVER", "ROT", "SWAP", "TUCK"}
BY Zenon DEF Rearranged

LEMMA RearrangedFacts ==
    ASSUME NEW op \in DOMAIN Rearranged
    PROVE  /\ Rearranged[op].takes \in Nat
           /\ Rearranged[op].puts \in Seq(1..Rearranged[op].takes)
<1>1. CASE op = "2DROP"
  <2>1. Rearranged[op] = [takes |-> 2, puts |-> <<>>]
    BY <1>1, Zenon DEF Rearranged
  <2> QED
    BY <2>1
<1>2. CASE op = "2DUP"
  <2>1. Rearranged[op] = [takes |-> 2, puts |-> <<1, 2, 1, 2>>]
    BY <1>2, Zenon DEF Rearranged
  <2> QED
    BY <2>1
<1>3. CASE op = "3DUP"
  <2>1. Rearranged[op] = [takes |-> 3, puts |-> <<1, 2, 3, 1, 2, 3>>]
    BY <1>3, Zenon DEF Rearranged
  <2> QED
    BY <2>1
<1>4. CASE op = "2OVER"
  <2>1. Rearranged[op] = [takes |-> 4, puts |-> <<1, 2, 3, 4, 1, 2>>]
    BY <1>4, Zenon DEF Rearranged
  <2> QED
    BY <2>1
<1>5. CASE op = "2ROT"
  <2>1. Rearranged[op] = [takes |-> 6, puts |-> <<3, 4, 5, 6, 1, 2>>]
    BY <1>5, Zenon DEF Rearranged
  <2> QED
    BY <2>1
<1>6. CASE op = "2SWAP"
  <2>1. Rearranged[op] = [takes |-> 4, puts |-> <<3, 4, 1, 2>>]
    BY <1>6, Zenon DEF Rearranged
  <2> QED
    BY <2>1
<1>7. CASE op = "DROP"
  <2>1. Rearranged[op] = [takes |-> 1, puts |-> <<>>]
    BY <1>7, Zenon DEF Rearranged
  <2> QED
    BY <2>1
<1>8. CASE op = "DUP"
  <2>1. Rearranged[op] = [takes |-> 1, puts |-> <<1, 1>>]
    BY <1>8, Zenon DEF Rearranged
  <2> QED
    BY <2>1
<1>9. CASE op = "NIP"
  <2>1. Rearranged[op] = [takes |-> 2, puts |-> <<2>>]
    BY <1>9, Zenon DEF Rearranged
  <2> QED
    BY <2>1
<1>10. CASE op = "OVER"
  <2>1. Rearranged[op] = [takes |-> 2, puts |-> <<1, 2, 1>>]
    BY <1>10, Zenon DEF Rearranged
  <2> QED
    BY <2>1
<1>11. CASE op = "ROT"
  <2>1. Rearranged[op] = [takes |-> 3, puts |-> <<2, 3, 1>>]
    BY <1>11, Zenon DEF Rearranged
  <2> QED
    BY <2>1
<1>12. CASE op = "SWAP"
  <2>1. Rearranged[op] = [takes |-> 2, puts |-> <<2, 1>>]
    BY <1>12, Zenon DEF Rearranged
  <2> QED
    BY <2>1
<1>13. CASE op = "TUCK"
  <2>1. Rearranged[op] = [takes |-> 2, puts |-> <<2, 1, 2>>]
    BY <1>13, Zenon DEF Rearranged
  <2> QED
    BY <2>1
<1> QED
  BY <1>1, <1>2, <1>3, <1>4, <1>5, <1>6, <1>7, <1>8, <1>9, <1>10, <1>11, <1>12, <1>13, RearrangedOps

LEMMA TakesFacts == ASSUME NEW op PROVE Takes(op) \in Nat
<1>1. CASE op \in DOMAIN Rearranged
  <2>1. op \notin Binary \cup {"EQUAL", "EQUALVERIFY"} /\ op # "WITHIN" /\ op # "DEPTH"
    BY <1>1, RearrangedOps DEF Binary
  <2>2. Takes(op) = Rearranged[op].takes
    BY <1>1, <2>1, Zenon DEF Takes
  <2> QED
    BY <1>1, <2>2, RearrangedFacts
<1>2. CASE op \notin DOMAIN Rearranged
  <2>1. op = "WITHIN" => op \notin Binary \cup {"EQUAL", "EQUALVERIFY"}
    BY DEF Binary
  <2>2. op = "DEPTH" => op \notin Binary \cup {"EQUAL", "EQUALVERIFY"}
    BY DEF Binary
  <2>3. Takes(op) \in {0, 1, 2, 3}
    BY <1>2, <2>1, <2>2, Zenon DEF Takes
  <2> QED
    BY <2>3
<1> QED
  BY <1>1, <1>2

\* The items an operation takes.
LEMMA Taken1 ==
    ASSUME NEW G, NEW m, MachineOK(m, G), NEW n \in 0..Depth(m)
    PROVE  LET x == SubSeq(m.stack, Depth(m) - n + 1, Depth(m))
           IN  /\ Stack(x, G) /\ Len(x) = n
               /\ \A j \in 1..n : x[j] = m.stack[Depth(m) - n + j]
<1>1. PICK d \in Nat : d = Depth(m) /\ d = Len(m.stack)
  BY StackFacts DEF MachineOK, Depth
<1>2. d - n + 1 \in Nat \ {0} /\ d \in 0..Len(m.stack)
  BY <1>1
<1>3. /\ Stack(SubSeq(m.stack, d - n + 1, d), G)
      /\ Len(SubSeq(m.stack, d - n + 1, d)) = IF d - n + 1 <= d THEN d - (d - n + 1) + 1 ELSE 0
      /\ \A j \in 1..(d - (d - n + 1) + 1) :
             SubSeq(m.stack, d - n + 1, d)[j] = m.stack[(d - n + 1) + j - 1]
  BY <1>1, <1>2, Cut DEF MachineOK
<1>4. \A j \in Int : (d - n + 1) + j - 1 = d - n + j
  BY <1>1
<1>5. d - (d - n + 1) + 1 = n
  BY <1>1
<1> QED
  BY <1>1, <1>3, <1>4, <1>5

LEMMA LeavesFacts ==
    ASSUME NEW G, NEW m, NEW op \in PlainOps \ {"EQUALVERIFY", "NUMEQUALVERIFY"}, NEW x,
           Stack(x, G), Len(x) = Takes(op)
    PROVE  Stack(Leaves(m, op, x), G)
<1> DEFINE Names == {"IFDUP", "DEPTH", "SIZE", "EQUAL", "WITHIN"}
<1>1. CASE op \in DOMAIN Rearranged
  <2> DEFINE puts == Rearranged[op].puts
             left == [j \in DOMAIN puts |-> x[puts[j]]]
  <2>1. /\ op \notin Names /\ op \notin Unary /\ op \notin Binary /\ op \notin Hashes
        /\ op # "EQUALVERIFY"
    BY <1>1, RearrangedOps DEF Unary, Binary, Hashes
  <2>2. Leaves(m, op, x) = left
    BY <1>1, <2>1, Zenon DEF Leaves
  <2>3. Takes(op) = Rearranged[op].takes
    BY <1>1, <2>1, Zenon DEF Takes
  <2>4. puts \in Seq(1..Len(x))
    BY <1>1, <2>3, RearrangedFacts
  <2>5. PICK k \in Nat : k = Len(puts) /\ DOMAIN puts = 1..k
    BY <2>4, LenProperties
  <2>6. \A j \in 1..k : puts[j] \in 1..Len(x)
    BY <2>4, <2>5
  <2> HIDE DEF puts
  <2>7. \A j \in 1..k : IsSignature(left[j]) => left[j] \in G
    BY <2>5, <2>6, StackFacts
  <2>8. left = [j \in 1..k |-> left[j]]
    BY <2>5
  <2> HIDE DEF left
  <2> QED
    BY <2>2, <2>7, <2>8, <2>5, Items1
<1>2. CASE op \notin DOMAIN Rearranged
  <2>1. op \in {"IFDUP", "SIZE"} => Takes(op) = 1
    <3>1. op \in {"IFDUP", "SIZE"} => op \notin Binary
      BY DEF Binary
    <3> QED
      BY <1>2, <3>1, Zenon DEF Takes
  <2>2. op \in {"IFDUP", "SIZE"} => (IsSignature(x[1]) => x[1] \in G)
    BY <2>1, StackFacts
  <2>3. \A n : Stack(<<Num(n)>>, G)
    BY OneItem, NoSignatures
  <2>4. \A b : Stack(<<Truth(b)>>, G)
    BY OneItem, NoSignatures DEF Truth
  <2>5. CASE op = "IFDUP"
    <3>1. Stack(<<x[1], x[1]>>, G)
      <4>1. <<x[1], x[1]>> \in Seq({x[1]})
        OBVIOUS
      <4> QED
        BY <2>2, <2>5, <4>1 DEF Stack
    <3>2. op \notin Unary /\ op \notin Binary /\ op \notin Hashes
      BY <2>5 DEF Unary, Binary, Hashes
    <3>3. Leaves(m, op, x) = IF CastToBool(x[1]) THEN <<x[1], x[1]>> ELSE x
      BY <1>2, <2>5, <3>2, Zenon DEF Leaves
    <3> QED
      BY <3>1, <3>3
  <2>6. CASE op = "SIZE"
    <3> DEFINE z == Num(Size(x[1]))
    <3>1. ~IsSignature(z)
      BY NoSignatures
    <3>2. op \notin Unary /\ op \notin Binary /\ op \notin Hashes
      BY <2>6 DEF Unary, Binary, Hashes
    <3>3. Leaves(m, op, x) = <<x[1], z>>
      BY <1>2, <2>6, <3>2, Zenon DEF Leaves
    <3> HIDE DEF z
    <3>4. <<x[1], z>> \in Seq({x[1], z})
      OBVIOUS
    <3>5. Stack(<<x[1], z>>, G)
      <4>1. \A y \in {x[1], z} : IsSignature(y) => y \in G
        BY <2>2, <2>6, <3>1
      <4> QED
        BY <3>4, <4>1, Zenon DEF Stack
    <3> QED
      BY <3>3, <3>5
  <2>7. CASE op = "DEPTH"
    <3>1. op \notin Unary /\ op \notin Binary /\ op \notin Hashes
      BY <2>7 DEF Unary, Binary, Hashes
    <3>2. Leaves(m, op, x) = <<Num(Depth(m))>>
      BY <1>2, <2>7, <3>1, Zenon DEF Leaves
    <3> QED
      BY <2>3, <3>2
  <2>8. CASE op = "EQUAL"
    <3>1. op \notin Unary /\ op \notin Binary /\ op \notin Hashes
      BY <2>8 DEF Unary, Binary, Hashes
    <3>2. Leaves(m, op, x) = <<Truth(x[1] = x[2])>>
      BY <1>2, <2>8, <3>1, Zenon DEF Leaves
    <3> QED
      BY <2>4, <3>2
  <2>9. CASE op \in Unary
    <3>1. op \notin Names /\ op \notin Binary /\ op \notin Hashes
      BY <2>9 DEF Unary, Binary, Hashes
    <3>2. Leaves(m, op, x) = <<Num(OfOne(op, NumberOf(x[1])))>>
      BY <1>2, <2>9, <3>1, Zenon DEF Leaves
    <3> QED
      BY <2>3, <3>2
  <2>10. CASE op \in Binary
    <3>1. op \notin Names /\ op \notin Unary /\ op \notin Hashes
      BY <2>10 DEF Unary, Binary, Hashes
    <3>2. Leaves(m, op, x) = <<Num(OfTwo(op, NumberOf(x[1]), NumberOf(x[2])))>>
      BY <1>2, <2>10, <3>1, Zenon DEF Leaves
    <3> QED
      BY <2>3, <3>2
  <2>11. CASE op = "WITHIN"
    <3>1. op \notin Unary /\ op \notin Binary /\ op \notin Hashes
      BY <2>11 DEF Unary, Binary, Hashes
    <3>2. Leaves(m, op, x) =
              <<Truth(NumberOf(x[1]) \in NumberOf(x[2])..(NumberOf(x[3]) - 1))>>
      BY <1>2, <2>11, <3>1, Zenon DEF Leaves
    <3> QED
      BY <2>4, <3>2, Zenon
  <2>12. CASE op \in Hashes
    <3>1. op \notin Names /\ op \notin Unary /\ op \notin Binary
      BY <2>12 DEF Unary, Binary, Hashes
    <3>2. Leaves(m, op, x) = <<Hash(op, x[1])>>
      BY <1>2, <2>12, <3>1, Zenon DEF Leaves
    <3> QED
      BY <3>2, OneItem, NoSignatures
  <2> QED
    BY <1>2, <2>5, <2>6, <2>7, <2>8, <2>9, <2>10, <2>11, <2>12 DEF PlainOps
<1> QED
  BY <1>1, <1>2

LEMMA PlainKept ==
    ASSUME NEW G, NEW m, MachineOK(m, G), NEW op \in PlainOps
    PROVE  Kept(m, Plain(m, op), G)
<1> DEFINE n == Takes(op)
           x == SubSeq(m.stack, Depth(m) - n + 1, Depth(m))
<1>1. n \in Nat /\ Depth(m) \in Nat
  BY TakesFacts, StackFacts DEF MachineOK, Depth
<1>2. CASE Plain(m, op) = Fail(m)
  BY <1>2, FailKept
<1>3. CASE Plain(m, op) # Fail(m)
  <2>0. ~(Depth(m) < n)
    BY <1>3, Zenon DEF Plain
  <2>1. n \in 0..Depth(m)
    BY <1>1, <2>0
  <2>2. Stack(x, G) /\ Len(x) = n
    BY <2>1, Taken1
  <2>3. CASE op \in {"EQUALVERIFY", "NUMEQUALVERIFY"}
    <3>1. op \notin DOMAIN Rearranged /\ op \in Binary \cup {"EQUAL", "EQUALVERIFY"}
      BY <2>3, RearrangedOps DEF Binary
    <3>2. n = 2
      BY <3>1, <2>3, Zenon DEF Takes
    <3>3. \/ Plain(m, op) = Answer(m, 2, x[1] = x[2], TRUE)
          \/ Plain(m, op) = Answer(m, 2, NumberOf(x[1]) = NumberOf(x[2]), TRUE)
      BY <1>3, <2>3, Zenon DEF Plain
    <3>4. Plain(m, op) \in {Replace(m, 2, <<>>), Fail(m)}
      BY <3>3 DEF Answer
    <3> QED
      BY <2>1, <3>2, <3>4, AnswerKept
  <2>4. CASE op \notin {"EQUALVERIFY", "NUMEQUALVERIFY"}
    <3>1. Plain(m, op) = Replace(m, n, Leaves(m, op, x))
      BY <1>3, <2>4, Zenon DEF Plain
    <3>2. Stack(Leaves(m, op, x), G)
      BY <2>2, <2>4, LeavesFacts
    <3> QED
      BY <2>1, <3>1, <3>2, ReplaceKept
  <2> QED
    BY <2>3, <2>4
<1> QED
  BY <1>2, <1>3

LEMMA TopFacts ==
    ASSUME NEW G, NEW m, MachineOK(m, G), NEW n \in 1..Depth(m)
    PROVE  IsSignature(Top(m, n)) => Top(m, n) \in G
<1>1. PICK d \in Nat : d = Depth(m) /\ d = Len(m.stack)
  BY StackFacts DEF MachineOK, Depth
<1>2. d - n + 1 \in 1..Len(m.stack)
  BY <1>1
<1> QED
  BY <1>1, <1>2, StackFacts DEF Top, MachineOK

LEMMA PickOrRollKept ==
    ASSUME NEW G, NEW m, MachineOK(m, G), NEW op
    PROVE  Kept(m, PickOrRoll(m, op), G)
<1>1. PICK d \in Nat : d = Depth(m)
  BY StackFacts DEF MachineOK, Depth
<1>2. CASE PickOrRoll(m, op) = Fail(m)
  BY <1>2, FailKept
<1>3. CASE PickOrRoll(m, op) # Fail(m)
  <2> DEFINE rest == Replace(m, 1, <<>>)
             n    == NumberOf(Top(m, 1))
             kept == Reverse(Items(rest, 1, n)) \o <<Top(rest, n + 1)>>
  <2>1. ~(d < 2) /\ IsNumber(m, Top(m, 1))
    BY <1>1, <1>3 DEF PickOrRoll
  <2>2. n \in 0..(Depth(rest) - 1)
    BY <1>3 DEF PickOrRoll
  <2>3. \/ PickOrRoll(m, op) = PushOn(rest, Top(rest, n + 1))
        \/ PickOrRoll(m, op) = Replace(rest, n + 1, kept)
    BY <1>3 DEF PickOrRoll
  <2>4. Kept(m, rest, G)
    <3>1. 1 \in 0..Depth(m)
      BY <1>1, <2>1
    <3> QED
      BY <3>1, NoStack, ReplaceKept
  <2> HIDE DEF rest, n
  <2>5. MachineOK(rest, G) /\ Depth(rest) \in Nat
    BY <2>4, StackFacts DEF Kept, MachineOK, Depth
  <2>6. n \in Nat /\ n + 1 \in 1..Depth(rest) /\ n + 1 \in 0..Depth(rest) /\ 0 \in 0..Depth(rest)
    BY <2>2, <2>5
  <2>7. Stack(<<Top(rest, n + 1)>>, G)
    BY <2>5, <2>6, TopFacts, OneItem
  <2>8. Stack(kept, G)
    <3> DEFINE items == Items(rest, 1, n)
    <3>1. items = [j \in 1..n |-> Top(rest, j)]
      BY <2>6 DEF Items
    <3>2. \A j \in 1..n : IsSignature(items[j]) => items[j] \in G
      BY <2>5, <2>6, <3>1, TopFacts
    <3>3. Len(items) = n
      BY <2>6, <3>1
    <3> HIDE DEF items
    <3> DEFINE back == [j \in 1..n |-> items[(n - j) + 1]]
    <3>4. Reverse(items) = back
      BY <3>3 DEF Reverse
    <3>5. \A j \in 1..n : IsSignature(back[j]) => back[j] \in G
      BY <2>6, <3>2
    <3>6. back = [j \in 1..n |-> back[j]]
      OBVIOUS
    <3> HIDE DEF back
    <3>7. Stack(back, G)
      BY <2>6, <3>5, <3>6, Items1
    <3> QED
      BY <2>7, <3>4, <3>7, Concatenated DEF items
  <2> HIDE DEF kept
  <2>9. Kept(rest, PickOrRoll(m, op), G)
    BY <2>3, <2>5, <2>6, <2>7, <2>8, ReplaceKept DEF PushOn
  <2> QED
    BY <2>4, <2>9, KeptKept
<1> QED
  BY <1>2, <1>3

LEMMA SameKept == ASSUME NEW G, NEW m, MachineOK(m, G) PROVE Kept(m, m, G)
BY DEF Kept, SameRun

LEMMA PushOnKept ==
    ASSUME NEW G, NEW m, MachineOK(m, G), NEW item, IsSignature(item) => item \in G
    PROVE  /\ Kept(m, PushOn(m, item), G) /\ PushOn(m, item).failed = m.failed
           /\ PushOn(m, item).altstack = m.altstack
<1>1. Depth(m) \in Nat /\ Stack(<<item>>, G)
  BY StackFacts, OneItem DEF MachineOK, Depth
<1> QED
  BY <1>1, ReplaceKept DEF PushOn

LEMMA WithAltstack ==
    ASSUME NEW G, NEW m, MachineOK(m, G), NEW alt, Stack(alt, G)
    PROVE  Kept(m, [m EXCEPT !.altstack = alt], G)
BY DEF Kept, MachineOK, IsMachine, SameRun

LEMMA AltstackKept ==
    ASSUME NEW G, NEW m, MachineOK(m, G)
    PROVE  /\ Depth(m) >= 1 =>
                  Kept(m, [Replace(m, 1, <<>>) EXCEPT !.altstack = Append(@, Top(m, 1))], G)
           /\ m.altstack # <<>> =>
                  Kept(m, [PushOn(m, Last(m.altstack)) EXCEPT !.altstack = Front(@)], G)
<1>1. PICK d \in Nat : d = Depth(m)
  BY StackFacts DEF MachineOK, Depth
<1>2. PICK Y : m.altstack \in Seq(Y) /\ \A y \in Y : IsSignature(y) => y \in G
  BY DEF MachineOK, Stack
<1>3. ASSUME d >= 1
      PROVE  Kept(m, [Replace(m, 1, <<>>) EXCEPT !.altstack = Append(@, Top(m, 1))], G)
  <2> DEFINE n   == Replace(m, 1, <<>>)
             alt == Append(m.altstack, Top(m, 1))
  <2>1. Kept(m, n, G) /\ n.altstack = m.altstack
    <3>1. 1 \in 0..Depth(m)
      BY <1>1, <1>3
    <3> QED
      BY <3>1, NoStack, ReplaceKept
  <2>2. Stack(alt, G)
    <3>1. alt \in Seq(Y \cup {Top(m, 1)})
      BY <1>2, SeqMonotonic, AppendProperties
    <3>2. IsSignature(Top(m, 1)) => Top(m, 1) \in G
      BY <1>1, <1>3, TopFacts
    <3> QED
      BY <1>2, <3>1, <3>2 DEF Stack
  <2>3. [Replace(m, 1, <<>>) EXCEPT !.altstack = Append(@, Top(m, 1))] = [n EXCEPT !.altstack = alt]
    BY <2>1
  <2> HIDE DEF n, alt
  <2>4. Kept(n, [n EXCEPT !.altstack = alt], G)
    BY <2>1, <2>2, WithAltstack DEF Kept
  <2> QED
    BY <2>1, <2>3, <2>4, KeptKept
<1>4. ASSUME m.altstack # <<>>
      PROVE  Kept(m, [PushOn(m, Last(m.altstack)) EXCEPT !.altstack = Front(@)], G)
  <2> DEFINE last == Last(m.altstack)
             n    == PushOn(m, last)
             alt  == Front(m.altstack)
  <2>1. PICK a \in Nat \ {0} : a = Len(m.altstack)
    BY <1>2, <1>4, EmptySeq
  <2>2. IsSignature(last) => last \in G
    BY <1>2, <2>1 DEF Last
  <2>3. Kept(m, n, G) /\ n.altstack = m.altstack
    BY <2>2, PushOnKept
  <2>4. Stack(alt, G)
    <3>1. a - 1 \in 0..Len(m.altstack) /\ 1 \in Nat \ {0} /\ Stack(m.altstack, G)
      BY <2>1 DEF MachineOK
    <3> QED
      BY <2>1, <3>1, Cut DEF Front
  <2>5. [PushOn(m, Last(m.altstack)) EXCEPT !.altstack = Front(@)] = [n EXCEPT !.altstack = alt]
    BY <2>3
  <2> HIDE DEF n, alt
  <2>6. Kept(n, [n EXCEPT !.altstack = alt], G)
    BY <2>3, <2>4, WithAltstack DEF Kept
  <2> QED
    BY <2>3, <2>5, <2>6, KeptKept
<1> QED
  BY <1>1, <1>3, <1>4

LEMMA ExecuteKept ==
    ASSUME NEW G, NEW m, MachineOK(m, G), NEW chunk,
           chunk.op = "PUSH" /\ IsSignature(chunk.item) => chunk.item \in G
    PROVE  Kept(m, Execute(m, chunk), G)
<1> DEFINE op == chunk.op
           n  == Execute(m, chunk)
           Sig == {"CHECKSIG", "CHECKSIGVERIFY"}
           Multi == {"CHECKMULTISIG", "CHECKMULTISIGVERIFY"}
           Named == {"PUSH", "SMALLINT", "NOP", "CLTV", "VERIFY", "TOALTSTACK", "FROMALTSTACK",
                     "PICK", "ROLL", "CODESEPARATOR"} \cup Sig \cup Multi
<1>0. Depth(m) \in Nat
  BY StackFacts DEF MachineOK, Depth
<1>1. Named \cap PlainOps = {} /\ Named \cap Nops = {} /\ PlainOps \cap Nops = {}
  BY RearrangedOps DEF PlainOps, Nops, Unary, Binary, Hashes
<1>2. CASE op = "PUSH"
  <2>1. op \notin PlainOps /\ op \notin Nops
    BY <1>1, <1>2
  <2>2. n = Fail(m) \/ n = PushOn(m, chunk.item)
    BY <1>2, <2>1, Zenon DEF Execute
  <2>3. CASE n = Fail(m)
    <3>1. Kept(m, Fail(m), G)
      BY FailKept
    <3> QED
      BY <2>3, <3>1, Zenon
  <2>4. CASE n = PushOn(m, chunk.item)
    <3>1. PICK item : item = chunk.item
      OBVIOUS
    <3>2. IsSignature(item) => item \in G
      BY <1>2, <3>1
    <3>3. Kept(m, PushOn(m, item), G)
      BY <3>2, PushOnKept
    <3> QED
      BY <2>4, <3>1, <3>3, Zenon
  <2> QED
    BY <2>2, <2>3, <2>4, Zenon
<1>3. CASE op = "SMALLINT"
  <2>1. op \notin PlainOps /\ op \notin Nops
    BY <1>1, <1>3
  <2>2. n = PushOn(m, Num(chunk.n))
    BY <1>3, <2>1, Zenon DEF Execute
  <2> QED
    BY <2>2, PushOnKept, NoSignatures
<1>4. CASE op = "CODESEPARATOR"
  <2>1. op \notin PlainOps /\ op \notin Nops
    BY <1>1, <1>4
  <2>2. n = [m EXCEPT !.pbegincodehash = m.pc]
    BY <1>4, <2>1, Zenon DEF Execute
  <2> QED
    BY <2>2 DEF Kept, MachineOK, IsMachine, SameRun
<1>5. CASE op \in {"NOP", "CLTV"} \cup Nops
  <2>1. n = m \/ n = Fail(m)
    <3>1. CASE op = "NOP"
      <4>1. op \notin PlainOps /\ op \notin Nops
        BY <1>1, <3>1
      <4> QED
        BY <3>1, <4>1, Zenon DEF Execute
    <3>2. CASE op = "CLTV"
      <4>1. op \notin PlainOps /\ op \notin Nops
        BY <1>1, <3>2
      <4>2. n = CheckLockTimeVerify(m)
        BY <3>2, <4>1, Zenon DEF Execute
      <4> QED
        BY <4>2 DEF CheckLockTimeVerify
    <3>3. CASE op \in Nops
      <4>1. op \notin PlainOps /\ op \notin Named
        BY <1>1, <3>3
      <4> QED
        BY <3>3, <4>1, Zenon DEF Execute
    <3> QED
      BY <1>5, <3>1, <3>2, <3>3
  <2> QED
    BY <2>1, SameKept, FailKept
<1>6. CASE op = "VERIFY"
  <2>1. op \notin PlainOps /\ op \notin Nops
    BY <1>1, <1>6
  <2>2. n = IF Depth(m) >= 1 /\ CastToBool(Top(m, 1)) THEN Replace(m, 1, <<>>) ELSE Fail(m)
    BY <1>6, <2>1, Zenon DEF Execute
  <2>3. Depth(m) >= 1 => 1 \in 0..Depth(m)
    BY <1>0
  <2>4. Depth(m) >= 1 => Kept(m, Replace(m, 1, <<>>), G)
    BY <2>3, ReplaceKept, NoStack
  <2>5. Kept(m, Fail(m), G)
    BY FailKept
  <2> QED
    BY <2>2, <2>4, <2>5, Zenon
<1>7. CASE op = "TOALTSTACK"
  <2>1. op \notin PlainOps /\ op \notin Nops
    BY <1>1, <1>7
  <2>2. n = IF Depth(m) < 1 THEN Fail(m)
            ELSE [Replace(m, 1, <<>>) EXCEPT !.altstack = Append(@, Top(m, 1))]
    BY <1>7, <2>1, Zenon DEF Execute
  <2>3. Depth(m) < 1 \/ Depth(m) >= 1
    BY <1>0
  <2>4. Kept(m, Fail(m), G)
    BY FailKept
  <2> QED
    BY <2>2, <2>3, <2>4, AltstackKept, Zenon
<1>8. CASE op = "FROMALTSTACK"
  <2>1. op \notin PlainOps /\ op \notin Nops
    BY <1>1, <1>8
  <2>2. n = IF m.altstack = <<>> THEN Fail(m)
            ELSE [PushOn(m, Last(m.altstack)) EXCEPT !.altstack = Front(@)]
    BY <1>8, <2>1, Zenon DEF Execute
  <2>3. Kept(m, Fail(m), G)
    BY FailKept
  <2> QED
    BY <2>2, <2>3, AltstackKept, Zenon
<1>9. CASE op \in {"PICK", "ROLL"}
  <2>1. op \notin PlainOps /\ op \notin Nops
    BY <1>1, <1>9
  <2>2. n = PickOrRoll(m, op)
    BY <1>9, <2>1, Zenon DEF Execute
  <2> QED
    BY <2>2, PickOrRollKept
<1>10. CASE op \in PlainOps
  <2>1. op \notin Named /\ op \notin Nops
    BY <1>1, <1>10
  <2>2. n = Plain(m, op)
    BY <1>10, <2>1, Zenon DEF Execute
  <2> QED
    BY <1>10, <2>2, PlainKept
<1>11. CASE op \in Sig
  <2>1. op \notin PlainOps /\ op \notin Nops
    BY <1>1, <1>11
  <2>2. n = CheckSig(m, op = "CHECKSIGVERIFY")
    BY <1>11, <2>1, Zenon DEF Execute
  <2>3. \A b \in BOOLEAN : Kept(m, CheckSig(m, b), G)
    BY CheckSigKept
  <2> QED
    BY <2>2, <2>3, Zenon
<1>12. CASE op \in Multi
  <2>1. op \notin PlainOps /\ op \notin Nops
    BY <1>1, <1>12
  <2>2. n = CheckMultisig(m, op = "CHECKMULTISIGVERIFY")
    BY <1>12, <2>1, Zenon DEF Execute
  <2>3. \A b \in BOOLEAN : Kept(m, CheckMultisig(m, b), G)
    BY CheckMultisigKept
  <2> QED
    BY <2>2, <2>3, Zenon
<1>13. CASE op \notin Named \cup Nops \cup PlainOps
  <2>1. n = Fail(m)
    BY <1>13, Zenon DEF Execute
  <2> QED
    BY <2>1, FailKept
<1> QED
  BY <1>2, <1>3, <1>4, <1>5, <1>6, <1>7, <1>8, <1>9, <1>10, <1>11, <1>12, <1>13

-----------------------------------------------------------------------------
(* Conditionals, and whole steps. *)

LEMMA WithVfExec ==
    ASSUME NEW G, NEW m, MachineOK(m, G), NEW v \in Seq(BOOLEAN)
    PROVE  LET n == [m EXCEPT !.vfExec = v]
           IN  MachineOK(n, G) /\ SameRun(m, n) /\ n.vfExec = v
BY DEF MachineOK, IsMachine, SameRun

LEMMA BooleanAppended ==
    ASSUME NEW s \in Seq(BOOLEAN), NEW b \in BOOLEAN
    PROVE  Append(s, b) \in Seq(BOOLEAN)
BY AppendProperties

LEMMA BooleanNegated ==
    ASSUME NEW s \in Seq(BOOLEAN), NEW k \in 1..Len(s)
    PROVE  [s EXCEPT ![k] = ~@] \in Seq(BOOLEAN)
<1>1. (~s[k]) \in BOOLEAN
  OBVIOUS
<1>2. \A b \in BOOLEAN : [s EXCEPT ![k] = b] \in Seq(BOOLEAN)
  BY ExceptSeq
<1> QED
  BY <1>1, <1>2, Zenon

LEMMA ConditionalKept ==
    ASSUME NEW G, NEW m, MachineOK(m, G), NEW op
    PROVE  MachineOK(Conditional(m, op), G) /\ SameRun(m, Conditional(m, op))
<1> DEFINE n    == Conditional(m, op)
           open == Len(m.vfExec)
<1>1. m.vfExec \in Seq(BOOLEAN) /\ open \in Nat
  BY DEF MachineOK
<1>2. MachineOK(Fail(m), G) /\ SameRun(m, Fail(m))
  BY FailKept DEF Kept
<1>3. CASE op \in {"IF", "NOTIF"}
  <2> DEFINE taken == [Replace(m, 1, <<>>) EXCEPT
                           !.vfExec = Append(@, CastToBool(Top(m, 1)) <=> op = "IF")]
             left  == [m EXCEPT !.vfExec = Append(@, FALSE)]
  <2>1. n = IF ~Executing(m) THEN left
            ELSE IF Depth(m) < 1 THEN Fail(m) ELSE taken
    BY <1>3, Zenon DEF Conditional
  <2>2. MachineOK(left, G) /\ SameRun(m, left)
    <3>1. Append(m.vfExec, FALSE) \in Seq(BOOLEAN)
      BY <1>1, BooleanAppended
    <3> QED
      BY <3>1, WithVfExec
  <2>3. ASSUME ~(Depth(m) < 1) PROVE MachineOK(taken, G) /\ SameRun(m, taken)
    <3>1. 1 \in 0..Depth(m)
      BY <2>3, StackFacts DEF MachineOK, Depth
    <3>2. PICK o : o = Replace(m, 1, <<>>)
      OBVIOUS
    <3>3. MachineOK(o, G) /\ SameRun(m, o)
      BY <3>1, <3>2, ReplaceKept, NoStack DEF Kept
    <3>4. PICK b \in BOOLEAN : b = (CastToBool(Top(m, 1)) <=> op = "IF")
      BY Zenon
    <3>5. taken = [o EXCEPT !.vfExec = Append(@, b)]
      BY <3>2, <3>4, Zenon
    <3>6. Append(o.vfExec, b) \in Seq(BOOLEAN)
      BY <3>3, BooleanAppended DEF MachineOK
    <3>7. taken = [o EXCEPT !.vfExec = Append(o.vfExec, b)]
      BY <3>5
    <3>8. PICK v \in Seq(BOOLEAN) : v = Append(o.vfExec, b)
      BY <3>6
    <3>9. taken = [o EXCEPT !.vfExec = v]
      BY <3>7, <3>8
    <3>10. MachineOK(taken, G) /\ SameRun(o, taken)
      BY <3>3, <3>9, WithVfExec
    <3> HIDE DEF taken
    <3> QED
      BY <3>3, <3>10 DEF SameRun
  <2> HIDE DEF taken, left
  <2> QED
    BY <1>2, <2>1, <2>2, <2>3, Zenon
<1>4. CASE op = "ELSE"
  <2> DEFINE turned == [m EXCEPT !.vfExec[open] = ~@]
  <2>1. n = IF open = 0 THEN Fail(m) ELSE turned
    BY <1>4, Zenon DEF Conditional
  <2>2. ASSUME open # 0 PROVE MachineOK(turned, G) /\ SameRun(m, turned)
    <3> DEFINE v == [m.vfExec EXCEPT ![open] = ~@]
    <3>1. v \in Seq(BOOLEAN)
      BY <1>1, <2>2, BooleanNegated
    <3>2. turned = [m EXCEPT !.vfExec = v]
      OBVIOUS
    <3> HIDE DEF v, turned
    <3> QED
      BY <3>1, <3>2, WithVfExec
  <2> HIDE DEF turned
  <2> QED
    BY <1>2, <2>1, <2>2, Zenon
<1>5. CASE op = "ENDIF"
  <2> DEFINE v == SubSeq(m.vfExec, 1, open - 1)
  <2>1. n = IF open = 0 THEN Fail(m) ELSE [m EXCEPT !.vfExec = v]
    BY <1>5, Zenon DEF Conditional
  <2>2. open # 0 => v \in Seq(BOOLEAN)
    BY <1>1
  <2>3. open # 0 => MachineOK([m EXCEPT !.vfExec = v], G) /\ SameRun(m, [m EXCEPT !.vfExec = v])
    <3> HIDE DEF v
    <3> QED
      BY <2>2, WithVfExec
  <2> QED
    BY <1>2, <2>1, <2>3, Zenon
<1>6. CASE op \notin {"IF", "NOTIF", "ELSE", "ENDIF"}
  <2>1. n = Fail(m)
    BY <1>6, Zenon DEF Conditional
  <2> QED
    BY <1>2, <2>1
<1> QED
  BY <1>3, <1>4, <1>5, <1>6

\* The machine that has read its chunk.
Read(m) == [m EXCEPT !.pc = @ + 1, !.nOpCount = @ + Bit(Counts(CurrentChunk(m)))]

LEMMA ReadKept ==
    ASSUME NEW G, NEW m, MachineOK(m, G), NEW r, r = Read(m)
    PROVE  /\ MachineOK(r, G) /\ r.pc = m.pc + 1
           /\ r.script = m.script /\ r.tx = m.tx /\ r.nin = m.nin /\ r.flags = m.flags
           /\ r.stack = m.stack /\ r.altstack = m.altstack /\ r.vfExec = m.vfExec
           /\ r.pbegincodehash = m.pbegincodehash /\ r.failed = m.failed
<1>1. PICK c \in Nat : c = m.nOpCount + Bit(Counts(CurrentChunk(m)))
  BY DEF MachineOK, Bit
<1>2. PICK p \in Nat : p = m.pc + 1
  BY DEF MachineOK
<1>3. r = [m EXCEPT !.pc = p, !.nOpCount = c]
  BY <1>1, <1>2 DEF Read
<1> QED
  BY <1>2, <1>3 DEF MachineOK, IsMachine

LEMMA StepIs ==
    ASSUME NEW m
    PROVE  \/ Step(m) = Fail(Read(m))
           \/ /\ CurrentChunk(m).op \in Conditionals
              /\ Step(m) = Conditional(Read(m), CurrentChunk(m).op)
           \/ /\ Executing(m) /\ CurrentChunk(m).op \notin Conditionals
              /\ Step(m) = Execute(Read(m), CurrentChunk(m))
           \/ /\ ~Executing(m) /\ CurrentChunk(m).op \notin Conditionals
              /\ Step(m) = Read(m)
BY DEF Step, Read

\* What a step keeps of a machine, and of what its stacks hold.
LEMMA StepKept ==
    ASSUME NEW G, NEW m, MachineOK(m, G),
           CurrentChunk(m).op = "PUSH" /\ IsSignature(CurrentChunk(m).item)
               => CurrentChunk(m).item \in G
    PROVE  LET n == Step(m)
           IN  /\ MachineOK(n, G) /\ n.pc = m.pc + 1
               /\ n.script = m.script /\ n.tx = m.tx /\ n.nin = m.nin /\ n.flags = m.flags
<1> DEFINE n == Step(m)
           r == Read(m)
           chunk == CurrentChunk(m)
<1>2. MachineOK(r, G) /\ r.pc = m.pc + 1
  BY ReadKept
<1>3. r.script = m.script /\ r.tx = m.tx /\ r.nin = m.nin /\ r.flags = m.flags
  <2> HIDE DEF r
  <2> QED
    BY ReadKept DEF r
<1>4. MachineOK(Fail(r), G) /\ SameRun(r, Fail(r))
  BY <1>2, FailKept DEF Kept
<1>5. MachineOK(Conditional(r, chunk.op), G) /\ SameRun(r, Conditional(r, chunk.op))
  BY <1>2, ConditionalKept
<1>6. MachineOK(Execute(r, chunk), G) /\ SameRun(r, Execute(r, chunk))
  BY <1>2, ExecuteKept DEF Kept
<1>7. MachineOK(n, G) /\ SameRun(r, n)
  <2>1. SameRun(r, r)
    BY DEF SameRun
  <2> HIDE DEF r, chunk
  <2>2. n = Fail(r) \/ n = Conditional(r, chunk.op) \/ n = Execute(r, chunk) \/ n = r
    BY StepIs DEF r, chunk
  <2> QED
    BY <1>2, <1>4, <1>5, <1>6, <2>1, <2>2
<1> QED
  BY <1>2, <1>3, <1>7 DEF SameRun

-----------------------------------------------------------------------------
(* The loop of OP_CHECKMULTISIG, as a run of its states. *)

\* One turn.
MatchStep(m, sigs, keys, subscript, loop, j) ==
    IF ~loop.fSuccess \/ loop.isig > Len(sigs) THEN loop
    ELSE LET ok   == VerifySignature(m.tx, sigs[loop.isig], keys[j], m.nin, subscript)
             isig == IF ok THEN loop.isig + 1 ELSE loop.isig
         IN  [isig         |-> isig,
              fSuccess     |-> Len(sigs) - isig < Len(keys) - j,
              wellEncoded  |-> loop.wellEncoded /\ WellEncoded(m, sigs[loop.isig], keys[j])]

LoopStates == [isig : Nat, fSuccess : BOOLEAN, wellEncoded : BOOLEAN]

LEMMA LoopState ==
    ASSUME NEW i \in Nat, NEW b \in BOOLEAN, NEW c \in BOOLEAN
    PROVE  [isig |-> i, fSuccess |-> b, wellEncoded |-> c] \in LoopStates
BY DEF LoopStates

LEMMA MatchStepType ==
    ASSUME NEW m, NEW sigs, NEW keys, NEW subscript, NEW loop \in LoopStates, NEW j
    PROVE  MatchStep(m, sigs, keys, subscript, loop, j) \in LoopStates
<1> DEFINE ok   == VerifySignature(m.tx, sigs[loop.isig], keys[j], m.nin, subscript)
           isig == IF ok THEN loop.isig + 1 ELSE loop.isig
           more == Len(sigs) - isig < Len(keys) - j
           well == loop.wellEncoded /\ WellEncoded(m, sigs[loop.isig], keys[j])
<1>1. isig \in Nat
  BY DEF LoopStates
<1>2. more \in BOOLEAN /\ well \in BOOLEAN
  <2>1. more \in BOOLEAN
    <3> HIDE DEF isig
    <3> QED
      OBVIOUS
  <2>2. well \in BOOLEAN
    BY Zenon
  <2> QED
    BY <2>1, <2>2
<1>3. [isig |-> isig, fSuccess |-> more, wellEncoded |-> well] \in LoopStates
  BY <1>1, <1>2, LoopState, Zenon
<1>4. \/ MatchStep(m, sigs, keys, subscript, loop, j) = loop
      \/ MatchStep(m, sigs, keys, subscript, loop, j)
             = [isig |-> isig, fSuccess |-> more, wellEncoded |-> well]
  BY Zenon DEF MatchStep
<1> QED
  BY <1>3, <1>4, Zenon

IsMatchRun(st, m, sigs, keys, subscript, n) ==
    /\ st \in [0..n -> LoopStates]
    /\ st[0] = [isig |-> 1, fSuccess |-> TRUE, wellEncoded |-> TRUE]
    /\ \A j \in 1..n : st[j] = MatchStep(m, sigs, keys, subscript, st[j - 1], j)
    /\ MatchKeys(m, sigs, keys, subscript) = st[n]

LEMMA MatchRun ==
    ASSUME NEW m, NEW sigs, NEW keys, NEW subscript, NEW n \in Nat, n = Len(keys)
    PROVE  \E st : IsMatchRun(st, m, sigs, keys, subscript, n)
<1> DEFINE base == [isig |-> 1, fSuccess |-> TRUE, wellEncoded |-> TRUE]
           Turn(a, j) == MatchStep(m, sigs, keys, subscript, a, j)
           seq == [j \in 1..Len(keys) |-> j]
           Iter(g) == g = [s \in SUBSET (DOMAIN seq) |->
                              IF s = {} THEN base
                              ELSE Turn(g[s \ {Max(s)}], seq[Max(s)])]
           F == [p \in LoopStates \X (1..n) |-> Turn(p[1], p[2])]
<1>0. base \in LoopStates
  BY LoopState
<1>1. \A a \in LoopStates, j \in 1..n : F[<<a, j>>] = Turn(a, j) /\ F[<<a, j>>] \in LoopStates
  <2>1. \A a \in LoopStates, j \in 1..n : Turn(a, j) \in LoopStates
    BY MatchStepType
  <2> HIDE DEF Turn
  <2> QED
    BY <2>1
<1> HIDE DEF base, Turn, F
<1>2. PICK g : IsFold(g, LoopStates, base, n, F)
  <2>1. \A a \in LoopStates, i \in 1..n : F[<<a, i>>] \in LoopStates
    BY <1>1, Zenon
  <2> QED
    BY <1>0, <2>1, FoldExists
<1>3. \A s \in SUBSET (1..n) : s # {} => Max(s) \in s /\ s \ {Max(s)} \in SUBSET (1..n)
  BY GreatestOf
<1>4. Iter(g)
  <2>1. \A s \in SUBSET (1..n) : s # {} =>
            F[<<g[s \ {Max(s)}], Max(s)>>] = Turn(g[s \ {Max(s)}], seq[Max(s)])
    BY <1>1, <1>2, <1>3 DEF IsFold
  <2>2. \A s \in SUBSET (1..n) :
            g[s] = IF s = {} THEN base ELSE Turn(g[s \ {Max(s)}], seq[Max(s)])
    BY <1>2, <2>1 DEF IsFold
  <2>3. g = [s \in SUBSET (1..n) |-> g[s]]
    BY <1>2 DEF IsFold
  <2> QED
    BY <2>2, <2>3
<1>5. PICK it : Iter(it) /\ MatchKeys(m, sigs, keys, subscript) = it[DOMAIN seq]
  <2> DEFINE it == CHOOSE h : Iter(h)
  <2>1. Iter(it)
    BY <1>4, Zenon
  <2>2. MatchKeys(m, sigs, keys, subscript) = it[DOMAIN seq]
    BY Zenon DEF MatchKeys, FoldLeft, MapThenFoldSet, MatchStep, base, Turn
  <2> QED
    BY <2>1, <2>2
<1>6. /\ it[{}] = base
      /\ \A s \in SUBSET (1..n) : s # {} => it[s] = Turn(it[s \ {Max(s)}], Max(s))
  BY <1>3, <1>5
<1> DEFINE st == [j \in 0..n |-> it[1..j]]
<1>7. st[0] = base
  <2>1. 1..0 = {}
    OBVIOUS
  <2> QED
    BY <1>6, <2>1
<1>8. \A j \in 1..n : st[j] = Turn(st[j - 1], j)
  <2> SUFFICES ASSUME NEW j \in 1..n PROVE st[j] = Turn(st[j - 1], j)
    OBVIOUS
  <2>1. 1..j \in SUBSET (1..n) /\ 1..j # {} /\ (1..j) \ {j} = 1..(j - 1)
    <3>1. \A i \in 1..j : i \in 1..n
      OBVIOUS
    <3>2. j \in 1..j
      OBVIOUS
    <3>3. \A i : i \in (1..j) \ {j} <=> i \in 1..(j - 1)
      OBVIOUS
    <3> QED
      BY <3>1, <3>2, <3>3
  <2>2. Max(1..j) = j
    <3>1. j \in 1..j /\ \A y \in 1..j : y <= j
      OBVIOUS
    <3> QED
      BY <2>1, <3>1, MaxOfInterval
  <2> QED
    BY <1>6, <2>1, <2>2
<1>9. st \in [0..n -> LoopStates]
  <2> DEFINE T == {j \in 0..n : st[j] \in LoopStates}
  <2>1. 0 \in T
    BY <1>0, <1>7
  <2>2. \A k \in 0..(n - 1) : k \in T => k + 1 \in T
    <3> SUFFICES ASSUME NEW k \in 0..(n - 1), k \in T PROVE k + 1 \in T
      OBVIOUS
    <3>0. k + 1 \in 1..n /\ (k + 1) - 1 = k /\ st[k] \in LoopStates
      OBVIOUS
    <3> HIDE DEF st
    <3>1. st[k + 1] = Turn(st[k], k + 1)
      BY <1>8, <3>0
    <3>2. Turn(st[k], k + 1) \in LoopStates
      BY <1>1, <3>0
    <3> QED
      BY <3>1, <3>2
  <2> HIDE DEF T, st
  <2>3. 0..n \subseteq T
    BY <2>1, <2>2, AllNumbers
  <2> QED
    BY <2>3 DEF T, st
<1>10. MatchKeys(m, sigs, keys, subscript) = st[n]
  BY <1>5
<1> HIDE DEF st
<1>11. IsMatchRun(st, m, sigs, keys, subscript, n)
  BY <1>7, <1>8, <1>9, <1>10 DEF base, Turn, IsMatchRun
<1> QED
  BY <1>11

\* The first p signatures have keys of their own, in order, among the first j keys, when V
\* holds the pairs of a signature and a key that verifies it.
Match(V, p, j) ==
    \E f \in [1..p -> 1..j] :
        /\ \A a, b \in 1..p : a < b => f[a] < f[b]
        /\ \A a \in 1..p : <<a, f[a]>> \in V

LEMMA MatchNone == ASSUME NEW V, NEW j \in Nat PROVE Match(V, 0, j)
<1> DEFINE f == [a \in 1..0 |-> 1]
<1>1. f \in [1..0 -> 1..j]
  OBVIOUS
<1>2. \A a \in 1..0 : FALSE
  OBVIOUS
<1> HIDE DEF f
<1> QED
  BY <1>1, <1>2 DEF Match

LEMMA MatchMoreKeys ==
    ASSUME NEW V, NEW p \in Nat, NEW j \in Nat, Match(V, p, j)
    PROVE  Match(V, p, j + 1)
<1>1. PICK f \in [1..p -> 1..j] : /\ \A a, b \in 1..p : a < b => f[a] < f[b]
                                  /\ \A a \in 1..p : <<a, f[a]>> \in V
  BY DEF Match
<1>2. f \in [1..p -> 1..(j + 1)]
  BY <1>1
<1> QED
  BY <1>1, <1>2 DEF Match

LEMMA MatchFewer ==
    ASSUME NEW V, NEW p \in Nat, NEW q \in 0..p, NEW j \in Nat, Match(V, p, j)
    PROVE  Match(V, q, j)
<1>1. PICK f \in [1..p -> 1..j] : /\ \A a, b \in 1..p : a < b => f[a] < f[b]
                                  /\ \A a \in 1..p : <<a, f[a]>> \in V
  BY DEF Match
<1> DEFINE g == [a \in 1..q |-> f[a]]
<1>2. g \in [1..q -> 1..j]
  BY <1>1
<1>3. /\ \A a, b \in 1..q : a < b => g[a] < g[b]
      /\ \A a \in 1..q : <<a, g[a]>> \in V
  BY <1>1
<1> HIDE DEF g
<1> QED
  BY <1>2, <1>3 DEF Match

LEMMA MatchNext ==
    ASSUME NEW V, NEW p \in Nat, NEW j \in Nat, Match(V, p, j), <<p + 1, j + 1>> \in V
    PROVE  Match(V, p + 1, j + 1)
<1>1. PICK f \in [1..p -> 1..j] : /\ \A a, b \in 1..p : a < b => f[a] < f[b]
                                  /\ \A a \in 1..p : <<a, f[a]>> \in V
  BY DEF Match
<1> DEFINE g == [a \in 1..(p + 1) |-> IF a = p + 1 THEN j + 1 ELSE f[a]]
<1>2. g \in [1..(p + 1) -> 1..(j + 1)]
  BY <1>1
<1>3. \A a, b \in 1..(p + 1) : a < b => g[a] < g[b]
  BY <1>1
<1>4. \A a \in 1..(p + 1) : <<a, g[a]>> \in V
  <2>1. \A a \in 1..p : <<a, g[a]>> \in V
    BY <1>1
  <2>2. g[p + 1] = j + 1
    OBVIOUS
  <2>3. \A a \in 1..(p + 1) : a \in 1..p \/ a = p + 1
    OBVIOUS
  <2> HIDE DEF g
  <2> QED
    BY <2>1, <2>2, <2>3
<1> HIDE DEF g
<1> QED
  BY <1>2, <1>3, <1>4 DEF Match

\* The last of the keys is given to the last of the signatures, or is not needed.
LEMMA MatchLast ==
    ASSUME NEW V, NEW p \in Nat, NEW j \in Nat, Match(V, p + 1, j + 1)
    PROVE  /\ Match(V, p + 1, j) \/ (<<p + 1, j + 1>> \in V /\ Match(V, p, j))
           /\ Match(V, p, j)
<1>1. PICK f \in [1..(p + 1) -> 1..(j + 1)] :
          /\ \A a, b \in 1..(p + 1) : a < b => f[a] < f[b]
          /\ \A a \in 1..(p + 1) : <<a, f[a]>> \in V
  BY DEF Match
<1>2. \A a \in 1..p : f[a] \in 1..j
  <2> SUFFICES ASSUME NEW a \in 1..p PROVE f[a] \in 1..j
    OBVIOUS
  <2>1. a \in 1..(p + 1) /\ p + 1 \in 1..(p + 1) /\ a < p + 1
    OBVIOUS
  <2>2. f[a] < f[p + 1]
    BY <1>1, <2>1
  <2>3. f[a] \in 1..(j + 1) /\ f[p + 1] \in 1..(j + 1)
    BY <1>1, <2>1
  <2> QED
    BY <2>2, <2>3
<1>3. Match(V, p, j)
  <2> DEFINE g == [a \in 1..p |-> f[a]]
  <2>1. g \in [1..p -> 1..j]
    BY <1>2
  <2>2. /\ \A a, b \in 1..p : a < b => g[a] < g[b]
        /\ \A a \in 1..p : <<a, g[a]>> \in V
    BY <1>1
  <2> HIDE DEF g
  <2> QED
    BY <2>1, <2>2 DEF Match
<1>4. CASE f[p + 1] = j + 1
  BY <1>1, <1>3, <1>4
<1>5. CASE f[p + 1] # j + 1
  <2>1. f \in [1..(p + 1) -> 1..j]
    <3>1. f[p + 1] \in 1..j
      BY <1>1, <1>5
    <3>2. \A a \in 1..(p + 1) : a \in 1..p \/ a = p + 1
      OBVIOUS
    <3> QED
      BY <1>1, <1>2, <3>1, <3>2
  <2> QED
    BY <1>1, <1>3, <2>1 DEF Match
<1> QED
  BY <1>4, <1>5

LEMMA MatchBack ==
    ASSUME NEW V, NEW k \in Nat, NEW n \in Nat, NEW d \in Nat, d <= k, d <= n, Match(V, k, n)
    PROVE  Match(V, k - d, n - d)
<1> DEFINE T == {e \in 0..d : Match(V, k - e, n - e)}
<1>1. 0 \in T
  OBVIOUS
<1>2. ASSUME NEW e \in 0..(d - 1), e \in T PROVE e + 1 \in T
  <2>1. PICK p \in Nat, j \in Nat : p = k - (e + 1) /\ j = n - (e + 1)
    OBVIOUS
  <2>2. k - e = p + 1 /\ n - e = j + 1
    BY <2>1
  <2>3. Match(V, p + 1, j + 1)
    BY <1>2, <2>2
  <2>4. Match(V, p, j)
    BY <2>3, MatchLast
  <2> QED
    BY <2>1, <2>4
<1> HIDE DEF T
<1>3. 0..d \subseteq T
  BY <1>1, <1>2, AllNumbers
<1>4. d \in T
  BY <1>3
<1> QED
  BY <1>4 DEF T

\* What the loop has established after j keys.
LoopInv(V, k, n, s, j) ==
    /\ s.isig \in 1..(k + 1)
    /\ s.fSuccess = TRUE  => /\ Match(V, s.isig - 1, j)
                             /\ s.isig <= k => ~Match(V, s.isig, j)
                             /\ (k - s.isig) + 1 <= n - j
    /\ s.fSuccess = FALSE => ~Match(V, k, n)

\* The loop never goes back to a key, and needs not: after j keys it has given away as
\* many signatures as the first j keys can serve.
LEMMA MatchKeysIsGreedy ==
    ASSUME NEW m, NEW sigs, NEW keys, NEW subscript, NEW k \in Nat, NEW n \in Nat,
           k = Len(sigs), n = Len(keys), k <= n,
           DOMAIN sigs = 1..k, DOMAIN keys = 1..n
    PROVE  (MatchKeys(m, sigs, keys, subscript).fSuccess = TRUE)
               <=> Matching(sigs, keys, m, subscript)
<1> DEFINE Verifies(a, b) == VerifySignature(m.tx, sigs[a], keys[b], m.nin, subscript)
           V == {q \in (1..k) \X (1..n) : Verifies(q[1], q[2])}
<1>0. PICK st : IsMatchRun(st, m, sigs, keys, subscript, n)
  BY MatchRun
<1>1. /\ st \in [0..n -> LoopStates]
      /\ st[0] = [isig |-> 1, fSuccess |-> TRUE, wellEncoded |-> TRUE]
      /\ \A j \in 1..n : st[j] = MatchStep(m, sigs, keys, subscript, st[j - 1], j)
      /\ MatchKeys(m, sigs, keys, subscript) = st[n]
  BY <1>0 DEF IsMatchRun
<1>2. \A a \in 1..k, b \in 1..n : <<a, b>> \in V <=> Verifies(a, b)
  OBVIOUS
<1>3. Matching(sigs, keys, m, subscript) <=> Match(V, k, n)
  BY <1>2 DEF Matching, Match
<1> HIDE DEF V
<1> DEFINE T == {j \in 0..n : LoopInv(V, k, n, st[j], j)}
<1>4. 0 \in T
  <2>1. st[0].isig = 1 /\ st[0].fSuccess = TRUE
    BY <1>1
  <2>2. ~Match(V, 1, 0)
    BY DEF Match
  <2>3. Match(V, 0, 0)
    BY MatchNone
  <2> QED
    BY <2>1, <2>2, <2>3 DEF LoopInv
<1>5. ASSUME NEW j \in 0..(n - 1), j \in T PROVE j + 1 \in T
  <2>1. PICK s \in LoopStates : s = st[j]
    BY <1>1
  <2>2. LoopInv(V, k, n, s, j)
    BY <1>5, <2>1
  <2>3. j + 1 \in 1..n /\ (j + 1) - 1 = j /\ j \in Nat
    OBVIOUS
  <2>4. st[j + 1] = MatchStep(m, sigs, keys, subscript, s, j + 1)
    BY <1>1, <2>1, <2>3
  <2>5. PICK i \in 1..(k + 1) : i = s.isig
    BY <2>2 DEF LoopInv
  <2>6. s.fSuccess \in BOOLEAN
    BY DEF LoopStates
  <2>7. CASE s.fSuccess = FALSE
    <3>1. st[j + 1] = s
      BY <2>4, <2>7, Zenon DEF MatchStep
    <3> QED
      BY <2>2, <2>3, <2>7, <3>1 DEF LoopInv
  <2>8. CASE s.fSuccess = TRUE /\ i > k
    <3>1. st[j + 1] = s
      BY <2>4, <2>5, <2>8 DEF MatchStep
    <3>2. Match(V, s.isig - 1, j + 1)
      <4>1. s.isig - 1 \in Nat
        BY <2>5
      <4> QED
        BY <2>2, <2>3, <2>8, <4>1, MatchMoreKeys DEF LoopInv
    <3>3. (k - s.isig) + 1 <= n - (j + 1)
      BY <2>5, <2>8
    <3> QED
      BY <2>2, <2>3, <2>5, <2>8, <3>1, <3>2, <3>3 DEF LoopInv
  <2>9. CASE s.fSuccess = TRUE /\ ~(i > k)
    <3> DEFINE ok == Verifies(i, j + 1)
               more == k - (IF ok THEN i + 1 ELSE i) < n - (j + 1)
    <3>1. PICK x \in 1..(k + 1) : x = IF ok THEN i + 1 ELSE i
      BY <2>9
    <3>2. st[j + 1].isig = x /\ (st[j + 1].fSuccess = TRUE <=> k - x < n - (j + 1))
          /\ st[j + 1].fSuccess \in BOOLEAN
      <4>1. PICK w : w = (s.wellEncoded /\ WellEncoded(m, sigs[i], keys[j + 1]))
        BY Zenon
      <4>2. PICK b \in BOOLEAN : b = (k - x < n - (j + 1))
        <5>1. (k - x < n - (j + 1)) \in BOOLEAN
          OBVIOUS
        <5> QED
          BY <5>1, Zenon
      <4>3. ~(s.fSuccess = FALSE \/ s.isig > Len(sigs))
        BY <2>5, <2>9
      <4>4. st[j + 1] = [isig |-> x, fSuccess |-> b, wellEncoded |-> w]
        BY <2>4, <2>5, <2>9, <3>1, <4>1, <4>2, <4>3, Zenon DEF MatchStep
      <4>5. st[j + 1].isig = x /\ st[j + 1].fSuccess = b
        BY <4>4
      <4>6. b = TRUE <=> k - x < n - (j + 1)
        BY <4>2, Zenon
      <4> QED
        BY <4>2, <4>5, <4>6
    <3>3. <<i, j + 1>> \in V <=> ok
      BY <1>2, <2>3, <2>9
    <3>4. PICK p \in Nat : p = i - 1 /\ i = p + 1 /\ p + 1 <= k
      BY <2>9
    <3>5. Match(V, p, j) /\ ~Match(V, p + 1, j)
      BY <2>2, <2>5, <2>9, <3>4 DEF LoopInv
    <3>6. Match(V, x - 1, j + 1) /\ (x <= k => ~Match(V, x, j + 1))
      <4>1. CASE ok
        <5>1. x = (p + 1) + 1 /\ x - 1 = p + 1
          BY <3>1, <3>4, <4>1
        <5>2. Match(V, p + 1, j + 1)
          BY <2>3, <3>3, <3>4, <3>5, <4>1, MatchNext
        <5>3. ~Match(V, (p + 1) + 1, j + 1)
          <6> SUFFICES ASSUME Match(V, (p + 1) + 1, j + 1) PROVE FALSE
            OBVIOUS
          <6>1. p + 1 \in Nat
            OBVIOUS
          <6> QED
            BY <2>3, <3>5, <6>1, MatchLast
        <5> QED
          BY <5>1, <5>2, <5>3
      <4>2. CASE ~ok
        <5>1. x = p + 1 /\ x - 1 = p
          BY <3>1, <3>4, <4>2
        <5>2. Match(V, p, j + 1)
          BY <2>3, <3>5, MatchMoreKeys
        <5>3. ~Match(V, p + 1, j + 1)
          BY <2>3, <3>3, <3>4, <3>5, <4>2, MatchLast
        <5> QED
          BY <5>1, <5>2, <5>3
      <4> QED
        BY <4>1, <4>2
    <3>7. ASSUME ~(k - x < n - (j + 1)) PROVE ~Match(V, k, n)
      <4> SUFFICES ASSUME Match(V, k, n) PROVE FALSE
        OBVIOUS
      <4>1. x <= k
        BY <2>3, <3>7
      <4>2. PICK d \in Nat : d = n - (j + 1) /\ d <= k /\ d <= n /\ n - d = j + 1 /\ x \in 0..(k - d)
        BY <2>3, <3>7, <4>1
      <4>3. Match(V, k - d, j + 1)
        BY <4>2, MatchBack
      <4>4. Match(V, x, j + 1)
        <5>1. k - d \in Nat /\ j + 1 \in Nat
          BY <2>3, <4>2
        <5> QED
          BY <4>2, <4>3, <5>1, MatchFewer
      <4> QED
        BY <3>6, <4>1, <4>4
    <3>8. k - x < n - (j + 1) => (k - x) + 1 <= n - (j + 1)
      OBVIOUS
    <3> HIDE DEF ok, more
    <3>9. LoopInv(V, k, n, st[j + 1], j + 1)
      <4>1. PICK t : t = st[j + 1]
        OBVIOUS
      <4>2. t.isig = x /\ (t.fSuccess = TRUE <=> k - x < n - (j + 1))
        BY <3>2, <4>1
      <4>3. LoopInv(V, k, n, t, j + 1)
        BY <3>2, <3>6, <3>7, <3>8, <4>1, <4>2 DEF LoopInv
      <4> QED
        BY <4>1, <4>3
    <3> QED
      BY <2>3, <3>9
  <2> QED
    BY <2>5, <2>6, <2>7, <2>8, <2>9
<1> HIDE DEF T
<1>6. 0..n \subseteq T
  BY <1>4, <1>5, AllNumbers
<1>7. LoopInv(V, k, n, st[n], n)
  <2>1. n \in T
    BY <1>6
  <2> QED
    BY <2>1 DEF T
<1>8. PICK s \in LoopStates : s = st[n]
  BY <1>1
<1>9. s.fSuccess \in BOOLEAN
  BY DEF LoopStates
<1>10. CASE s.fSuccess = TRUE
  <2>1. PICK i \in 1..(k + 1) : i = s.isig
    BY <1>7, <1>8 DEF LoopInv
  <2>2. (k - i) + 1 <= n - n /\ Match(V, i - 1, n)
    BY <1>7, <1>8, <1>10, <2>1 DEF LoopInv
  <2>3. i - 1 = k
    BY <2>2
  <2> QED
    BY <1>1, <1>3, <1>8, <1>10, <2>2, <2>3
<1>11. CASE s.fSuccess = FALSE
  BY <1>1, <1>3, <1>7, <1>8, <1>11 DEF LoopInv
<1> QED
  BY <1>9, <1>10, <1>11

LEMMA LastOfReplaced ==
    ASSUME NEW G, NEW m, MachineOK(m, G), NEW k \in 0..Depth(m), NEW t, ~IsSignature(t)
    PROVE  Last(Replace(m, k, <<t>>).stack) = t
<1>1. PICK items : items = <<t>> /\ Stack(items, G)
  BY OneItem
<1>2. PICK n : n = Replace(m, k, items)
  OBVIOUS
<1>3. n.stack = Below(m, k) \o items
  <2>1. PICK new : new = Below(m, k) \o items
    OBVIOUS
  <2>2. n = [m EXCEPT !.stack = new]
    BY <1>2, <2>1 DEF Replace
  <2> QED
    BY <2>1, <2>2 DEF MachineOK, IsMachine
<1>4. Stack(Below(m, k), G)
  BY BelowIsStack
<1>5. PICK b \in Nat : b = Len(Below(m, k))
  BY <1>4, StackFacts
<1>6. Len(n.stack) = b + 1 /\ n.stack[b + 1] = t
  <2>1. Len(items) = 1 /\ items[1] = t /\ 1 \in 1..1
    BY <1>1
  <2> QED
    BY <1>1, <1>3, <1>4, <1>5, <2>1, Concatenated
<1> QED
  BY <1>1, <1>2, <1>6 DEF Last

\* What an OP_CHECKMULTISIG that does not fail leaves, whatever the machine.
LEMMA MultisigAnswer ==
    ASSUME NEW G, NEW m, MachineOK(m, G), NEW verify \in BOOLEAN,
           CheckMultisig(m, verify).failed = FALSE
    PROVE  /\ Matching(MultisigSigs(m), MultisigKeys(m), m, Subscript(m, MultisigSigs(m)))
               <=> (verify \/ Last(CheckMultisig(m, verify).stack) = True)
           /\ ~verify => Last(CheckMultisig(m, verify).stack) \in {True, False}
<1> DEFINE n    == CheckMultisig(m, verify)
           sigs == MultisigSigs(m)
           keys == MultisigKeys(m)
           loop == MatchKeys(m, sigs, keys, Subscript(m, sigs))
           i    == NKeys(m) + NSigs(m) + 3
           o    == [m EXCEPT !.nOpCount = @ + NKeys(m)]
<1>1. n # Fail(m)
  BY FailKept
<1>2. /\ NKeys(m) \in Nat /\ NSigs(m) \in Nat /\ NSigs(m) <= NKeys(m)
      /\ i \in 0..Depth(m)
      /\ n = Answer(o, i, loop.fSuccess, verify)
  BY <1>1, MultisigParts
<1>3. /\ Len(sigs) = NSigs(m) /\ DOMAIN sigs = 1..NSigs(m)
      /\ Len(keys) = NKeys(m) /\ DOMAIN keys = 1..NKeys(m)
  BY <1>2 DEF MultisigSigs, MultisigKeys, Items
<1>4. (loop.fSuccess = TRUE) <=> Matching(sigs, keys, m, Subscript(m, sigs))
  <2> HIDE DEF sigs, keys
  <2> QED
    BY <1>2, <1>3, MatchKeysIsGreedy
<1>5. loop.fSuccess \in BOOLEAN
  <2> DEFINE sub == Subscript(m, sigs)
  <2> HIDE DEF sigs, keys, sub
  <2>1. PICK st : IsMatchRun(st, m, sigs, keys, sub, NKeys(m))
    BY <1>2, <1>3, MatchRun
  <2>2. st[NKeys(m)] \in LoopStates /\ MatchKeys(m, sigs, keys, sub) = st[NKeys(m)]
    BY <1>2, <2>1 DEF IsMatchRun
  <2> QED
    BY <2>2 DEF LoopStates, sub
<1>6. MachineOK(o, G) /\ o.stack = m.stack
  BY <1>2, CountedKept DEF Kept
<1> HIDE DEF o, loop, sigs, keys
<1>7. i \in 0..Depth(o)
  BY <1>2, <1>6 DEF Depth
<1> HIDE DEF i, n
<1>8. CASE verify = TRUE
  <2>1. CASE loop.fSuccess = TRUE
    BY <1>4, <1>8, <2>1, Zenon DEF sigs, keys
  <2>2. CASE loop.fSuccess = FALSE
    <3>1. n = Fail(o)
      BY <1>2, <1>8, <2>2 DEF Answer
    <3> QED
      BY <1>6, <3>1, FailKept DEF n
  <2> QED
    BY <1>5, <2>1, <2>2
<1>9. CASE verify = FALSE
  <2> DEFINE t == Truth(loop.fSuccess)
  <2>1. n = Replace(o, i, <<t>>)
    BY <1>2, <1>9 DEF Answer
  <2>2. t = IF loop.fSuccess = TRUE THEN True ELSE False
    BY <1>5 DEF Truth
  <2>3. ~IsSignature(t)
    BY <2>2, NoSignatures
  <2> HIDE DEF t
  <2>8. Last(n.stack) = t
    BY <1>6, <1>7, <2>1, <2>3, LastOfReplaced
  <2>9. True # False
    BY DEF True, False, Num
  <2>10. (t = True) <=> (loop.fSuccess = TRUE)
    BY <2>2, <2>9
  <2>11. t \in {True, False}
    BY <2>2
  <2> QED
    BY <1>4, <1>9, <2>8, <2>10, <2>11, Zenon DEF sigs, keys, n
<1> QED
  BY <1>8, <1>9

-----------------------------------------------------------------------------
(* The whole verification. *)

LEMMA MoreSignatures ==
    ASSUME NEW G, NEW H, G \subseteq H
    PROVE  /\ \A s : Stack(s, G) => Stack(s, H)
           /\ \A m : MachineOK(m, G) => MachineOK(m, H)
<1>1. \A s : Stack(s, G) => Stack(s, H)
  BY DEF Stack
<1> QED
  BY <1>1 DEF MachineOK

LEMMA NewMachine ==
    ASSUME NEW G, NEW script, NEW stack, Stack(stack, G), NEW tx, NEW nin, NEW flags
    PROVE  MachineOK(Machine(script, stack, tx, nin, flags), G)
<1>1. Stack(<<>>, G)
  BY NoStack
<1>2. <<>> \in Seq(BOOLEAN)
  OBVIOUS
<1> QED
  BY <1>1, <1>2 DEF Machine, MachineOK, IsMachine

LEMMA FrontOfStack ==
    ASSUME NEW G, NEW s, Stack(s, G)
    PROVE  Stack(Front(s), G)
<1>1. PICK d \in Nat : d = Len(s)
  BY StackFacts
<1>2. CASE d = 0
  <2>1. SubSeq(s, 1, d - 1) = <<>>
    BY <1>1, <1>2 DEF Stack
  <2> QED
    BY <1>1, <2>1, NoStack DEF Front
<1>3. CASE d # 0
  <2>1. d - 1 \in 0..Len(s) /\ 1 \in Nat \ {0}
    BY <1>1, <1>3
  <2> QED
    BY <1>1, <2>1, Cut DEF Front
<1> QED
  BY <1>2, <1>3

MachineInv == \E G : MachineOK(machine, G) /\ Stack(stackCopy, G)

\* Whatever scripts a spend is made of, a machine of verify holds a position in its script,
\* stacks of items and a list of booleans, after any number of chunks (step of interpreter.js).
THEOREM MachinesAreMachines == Spec => []MachineInv
<1>1. Init => MachineInv
  <2> SUFFICES ASSUME Init PROVE MachineInv
    OBVIOUS
  <2>1. Stack(<<>>, {})
    BY NoStack
  <2>2. MachineOK(machine, {})
    BY <2>1, NewMachine DEF Init, SigMachine
  <2> QED
    BY <2>1, <2>2 DEF Init, MachineInv
<1>2. ASSUME MachineInv, [Next]_vars PROVE MachineInv'
  <2>1. PICK G : MachineOK(machine, G) /\ Stack(stackCopy, G)
    BY <1>2 DEF MachineInv
  <2>2. CASE Chunk
    <3> DEFINE H == G \cup {CurrentChunk(machine).item}
    <3>1. MachineOK(machine, H) /\ Stack(stackCopy, H)
      BY <2>1, MoreSignatures
    <3>2. MachineOK(Step(machine), H)
      BY <3>1, StepKept
    <3> HIDE DEF H
    <3> QED
      BY <2>2, <3>1, <3>2 DEF Chunk, MachineInv
  <2>3. CASE Reject
    BY <2>1, <2>3 DEF Reject, Finish, MachineInv
  <2>4. CASE SpendOutput
    <3>1. Stack(machine.stack, G)
      BY <2>1 DEF MachineOK
    <3>2. MachineOK(PubkeyMachine(spend, machine), G)
      BY <3>1, NewMachine DEF PubkeyMachine
    <3> QED
      BY <2>4, <3>1, <3>2 DEF SpendOutput, Begin, MachineInv
  <2>5. CASE Redeem
    <3>1. MachineOK(RedeemMachine(spend, stackCopy, machine), G)
      BY <2>1, FrontOfStack, NewMachine DEF RedeemMachine
    <3> QED
      BY <2>1, <2>5, <3>1 DEF Redeem, Begin, MachineInv
  <2>6. CASE Accept
    BY <2>1, <2>6 DEF Accept, Finish, MachineInv
  <2>7. CASE UNCHANGED vars
    BY <2>1, <2>7 DEF vars, MachineInv
  <2> QED
    BY <1>2, <2>2, <2>3, <2>4, <2>5, <2>6, <2>7 DEF Next
<1> QED
  BY <1>1, <1>2, PTL DEF Spec

\* A step that reads a chunk is one of Chunk.
LEMMA ReadsIsChunk == ASSUME Next, Reads PROVE Chunk
<1>1. ~Reject /\ ~Accept
  BY DEF Reads, Reject, Accept, Finish
<1>2. ~SpendOutput /\ ~Redeem
  BY DEF Reads, SpendOutput, Redeem, Begin
<1> QED
  BY <1>1, <1>2 DEF Next

\* OP_CHECKMULTISIG finds keys of their own for all signatures, in the order of the keys,
\* exactly when there are any (step of interpreter.js): its loop gives each signature, from
\* the last on, the last key left that verifies it, and no other choice leaves more keys.
THEOREM MultisigMatches == Spec => MultisigIsMatching
<1> DEFINE Multi == {"CHECKMULTISIG", "CHECKMULTISIGVERIFY"}
           P == Reads /\ ~machine'.failed /\ CurrentChunk(machine).op \in Multi /\ Executing(machine)
           Sigs == MultisigSigs(machine)
           Matches == Matching(Sigs, MultisigKeys(machine), machine, Subscript(machine, Sigs))
           Says == CurrentChunk(machine).op = "CHECKMULTISIGVERIFY" \/ Last(machine'.stack) = True
<1>1. ASSUME MachineInv, Next, P PROVE Matches <=> Says
  <2>1. Chunk
    BY <1>1, ReadsIsChunk
  <2>2. PICK G : MachineOK(machine, G)
    BY <1>1 DEF MachineInv
  <2>3. PICK m : m = machine
    OBVIOUS
  <2>4. PICK r : r = Read(m)
    OBVIOUS
  <2>5. MachineOK(m, G) /\ MachineOK(r, G)
    BY <2>2, <2>3, <2>4, ReadKept
  <2>6. /\ r.script = m.script /\ r.tx = m.tx /\ r.nin = m.nin /\ r.flags = m.flags
        /\ r.stack = m.stack /\ r.pbegincodehash = m.pbegincodehash
    BY <2>4, <2>5, ReadKept
  <2>7. PICK op : op = CurrentChunk(m).op
    OBVIOUS
  <2>8. machine' = Step(m) /\ machine'.failed # TRUE /\ op \in Multi /\ Executing(m)
    BY <1>1, <2>1, <2>3, <2>7 DEF Chunk
  <2>9. Step(m) = Execute(r, CurrentChunk(m))
    <3>1. Fail(r).failed = TRUE
      BY <2>5, FailKept
    <3>2. op \notin Conditionals
      BY <2>8 DEF Conditionals
    <3> QED
      BY <2>4, <2>7, <2>8, <3>1, <3>2, StepIs
  <2>10. PICK verify \in BOOLEAN : verify = (op = "CHECKMULTISIGVERIFY")
    BY Zenon
  <2>11. Step(m) = CheckMultisig(r, verify)
    <3>1. op \notin PlainOps /\ op \notin Nops
      BY <2>8, RearrangedOps DEF PlainOps, Nops, Unary, Binary, Hashes
    <3>2. Execute(r, CurrentChunk(m)) = CheckMultisig(r, op = "CHECKMULTISIGVERIFY")
      BY <2>7, <2>8, <3>1, Zenon DEF Execute
    <3> QED
      BY <2>9, <2>10, <3>2, Zenon
  <2>12. CheckMultisig(r, verify).failed = FALSE
    <3>1. MachineOK(CheckMultisig(r, verify), G)
      BY <2>5, CheckMultisigKept DEF Kept
    <3> QED
      BY <2>8, <2>11, <3>1 DEF MachineOK
  <2> DEFINE sigs == MultisigSigs(r)
  <2>13. Matching(sigs, MultisigKeys(r), r, Subscript(r, sigs))
             <=> (verify \/ Last(CheckMultisig(r, verify).stack) = True)
    BY <2>5, <2>12, MultisigAnswer
  <2>14. NKeys(r) = NKeys(m) /\ NSigs(r) = NSigs(m)
    BY <2>6 DEF NKeys, NSigs, Top, Depth
  <2>15. sigs = MultisigSigs(m) /\ MultisigKeys(r) = MultisigKeys(m)
    BY <2>6, <2>14 DEF MultisigSigs, MultisigKeys, Items, Top, Depth
  <2>16. Subscript(r, sigs) = Subscript(m, sigs)
    BY <2>6, Zenon DEF Subscript
  <2> HIDE DEF sigs
  <2>17. Matching(sigs, MultisigKeys(r), r, Subscript(r, sigs))
             <=> Matching(sigs, MultisigKeys(m), m, Subscript(m, sigs))
    BY <2>6, <2>15, <2>16 DEF Matching
  <2> QED
    BY <2>3, <2>7, <2>8, <2>10, <2>11, <2>13, <2>15, <2>17, Zenon
<1>2. ASSUME MachineInv, [Next]_vars PROVE [P => (Matches <=> Says)]_vars
  BY <1>1, <1>2
<1>3. MachineInv /\ [Next]_vars => [P => (Matches <=> Says)]_vars
  BY <1>2
<1> QED
  BY <1>3, MachinesAreMachines, PTL DEF Spec, MultisigIsMatching

-----------------------------------------------------------------------------
(* What the opcodes of the standard scripts do to the top of the stack. *)

\* n has items where m had its k topmost ones.
Changed(m, n, k, items) ==
    /\ k \in 0..Depth(m)
    /\ Depth(n) = (Depth(m) - k) + Len(items)
    /\ \A i \in 1..Len(items) : Top(n, i) = items[(Len(items) - i) + 1]
    /\ \A i \in 1..(Depth(m) - k) : Top(n, Len(items) + i) = Top(m, k + i)
    /\ n.vfExec = m.vfExec /\ n.pbegincodehash = m.pbegincodehash

LEMMA ReplaceChanges ==
    ASSUME NEW G, NEW m, MachineOK(m, G), NEW k \in 0..Depth(m), NEW items, Stack(items, G),
           NEW n, n = Replace(m, k, items)
    PROVE  Changed(m, n, k, items)
<1>1. PICK d \in Nat : d = Depth(m) /\ d = Len(m.stack)
  BY StackFacts DEF MachineOK, Depth
<1>2. PICK q \in Nat : q = Len(items)
  BY StackFacts
<1>3. PICK below : below = Below(m, k)
  OBVIOUS
<1>4. d - k \in 0..Len(m.stack) /\ 1 \in Nat \ {0} /\ Stack(m.stack, G)
  BY <1>1 DEF MachineOK
<1>5. /\ Stack(below, G) /\ Len(below) = d - k
      /\ \A i \in 1..(d - k) : below[i] = m.stack[i]
  <2>1. below = SubSeq(m.stack, 1, d - k)
    BY <1>1, <1>3 DEF Below
  <2>2. Stack(below, G) /\ Len(below) = IF 1 <= d - k THEN (d - k) - 1 + 1 ELSE 0
    BY <1>4, <2>1, Cut
  <2>3. \A i \in 1..((d - k) - 1 + 1) : below[i] = m.stack[1 + i - 1]
    BY <1>4, <2>1, Cut
  <2>4. \A i \in 1..(d - k) : i \in 1..((d - k) - 1 + 1) /\ 1 + i - 1 = i
    BY <1>1
  <2> QED
    BY <1>1, <2>2, <2>3, <2>4
<1>6. PICK new : new = below \o items
  OBVIOUS
<1>7. n = [m EXCEPT !.stack = new]
  BY <1>3, <1>6 DEF Replace
<1>8. n.stack = new /\ n.vfExec = m.vfExec /\ n.pbegincodehash = m.pbegincodehash
  BY <1>7 DEF MachineOK, IsMachine
<1>9. /\ Len(new) = (d - k) + q
      /\ \A i \in 1..(d - k) : new[i] = m.stack[i]
      /\ \A i \in 1..q : new[(d - k) + i] = items[i]
  BY <1>2, <1>5, <1>6, Concatenated
<1>10. Depth(n) = (d - k) + q
  BY <1>8, <1>9 DEF Depth
<1>11. \A i \in 1..q : Top(n, i) = items[(q - i) + 1]
  <2> SUFFICES ASSUME NEW i \in 1..q PROVE Top(n, i) = items[(q - i) + 1]
    OBVIOUS
  <2>1. Top(n, i) = new[((d - k) + q) - i + 1]
    BY <1>8, <1>10 DEF Top
  <2>2. (q - i) + 1 \in 1..q /\ ((d - k) + q) - i + 1 = (d - k) + ((q - i) + 1)
    <3>1. (q - i) + 1 \in 1..q
      BY <1>2
    <3>2. PICK b \in Int : b = d - k
      BY <1>1
    <3>3. (b + q) - i + 1 = b + ((q - i) + 1)
      BY <1>2, <3>2
    <3> QED
      BY <3>1, <3>2, <3>3
  <2> QED
    BY <1>9, <2>1, <2>2
<1>12. \A i \in 1..(d - k) : Top(n, q + i) = Top(m, k + i)
  <2> SUFFICES ASSUME NEW i \in 1..(d - k) PROVE Top(n, q + i) = Top(m, k + i)
    OBVIOUS
  <2>1. Top(n, q + i) = new[((d - k) + q) - (q + i) + 1] /\ Top(m, k + i) = m.stack[d - (k + i) + 1]
    BY <1>1, <1>8, <1>10 DEF Top
  <2>2. PICK j \in 1..(d - k) : j = ((d - k) + q) - (q + i) + 1 /\ j = d - (k + i) + 1
    <3>1. (d - k) - i + 1 \in 1..(d - k)
      BY <1>1
    <3>2. ((d - k) + q) - (q + i) + 1 = (d - k) - i + 1 /\ d - (k + i) + 1 = (d - k) - i + 1
      BY <1>1, <1>2
    <3> QED
      BY <3>1, <3>2
  <2> QED
    BY <1>9, <2>1, <2>2
<1> QED
  BY <1>1, <1>2, <1>8, <1>10, <1>11, <1>12 DEF Changed

\* A step that does not fail, where no conditional is open.
LEMMA StepExecutes ==
    ASSUME NEW G, NEW m, MachineOK(m, G), Executing(m), Step(m).failed = FALSE,
           NEW op, op = CurrentChunk(m).op, op \notin Conditionals
    PROVE  LET r == Read(m)
           IN  /\ Step(m) = Execute(r, CurrentChunk(m)) /\ Step(m) # Fail(r)
               /\ MachineOK(r, G) /\ r.pc = m.pc + 1
               /\ r.script = m.script /\ r.tx = m.tx /\ r.nin = m.nin /\ r.flags = m.flags
               /\ r.stack = m.stack /\ r.altstack = m.altstack /\ r.vfExec = m.vfExec
               /\ r.pbegincodehash = m.pbegincodehash
<1>1. PICK r : r = Read(m)
  OBVIOUS
<1>2. /\ MachineOK(r, G) /\ r.pc = m.pc + 1
      /\ r.script = m.script /\ r.tx = m.tx /\ r.nin = m.nin /\ r.flags = m.flags
      /\ r.stack = m.stack /\ r.altstack = m.altstack /\ r.vfExec = m.vfExec
      /\ r.pbegincodehash = m.pbegincodehash
  BY <1>1, ReadKept
<1>5. Fail(r).failed = TRUE
  <2>1. Kept(r, Fail(r), G) /\ Fail(r).failed = TRUE
    BY <1>2, FailKept
  <2> QED
    BY <2>1
<1>6. Step(m) = Execute(r, CurrentChunk(m)) /\ Step(m) # Fail(r)
  BY <1>1, <1>5, StepIs
<1> QED
  BY <1>1, <1>2, <1>6

\* The machine before the chunk and the one that has read it have the same stack.
LEMMA SameStack ==
    ASSUME NEW m, NEW r, r.stack = m.stack, r.vfExec = m.vfExec,
           r.pbegincodehash = m.pbegincodehash
    PROVE  /\ Depth(r) = Depth(m) /\ \A i : Top(r, i) = Top(m, i)
           /\ \A n, k, items : Changed(r, n, k, items) => Changed(m, n, k, items)
BY DEF Depth, Top, Changed

LEMMA StepPushes ==
    ASSUME NEW G, NEW m, MachineOK(m, G), Executing(m), Step(m).failed = FALSE, NEW item,
           \/ CurrentChunk(m).op = "PUSH" /\ CurrentChunk(m).item = item /\ ~IsSignature(item)
           \/ CurrentChunk(m).op = "SMALLINT" /\ item = Num(CurrentChunk(m).n)
    PROVE  Changed(m, Step(m), 0, <<item>>)
<1>1. PICK op : op = CurrentChunk(m).op
  OBVIOUS
<1>2. op \in {"PUSH", "SMALLINT"}
  BY <1>1
<1>3. op \notin Conditionals /\ op \notin PlainOps /\ op \notin Nops
  BY <1>2, RearrangedOps DEF Conditionals, PlainOps, Nops, Unary, Binary, Hashes
<1>4. PICK r : r = Read(m)
  OBVIOUS
<1>5. /\ Step(m) = Execute(r, CurrentChunk(m)) /\ Step(m) # Fail(r) /\ MachineOK(r, G)
      /\ r.stack = m.stack /\ r.vfExec = m.vfExec /\ r.pbegincodehash = m.pbegincodehash
  BY <1>1, <1>3, <1>4, StepExecutes
<1>6. Step(m) = PushOn(r, item)
  <2>1. CASE op = "PUSH"
    <3>1. CurrentChunk(m).item = item
      BY <1>1, <2>1
    <3>2. Execute(r, CurrentChunk(m)) = Fail(r) \/ Execute(r, CurrentChunk(m)) = PushOn(r, item)
      BY <1>1, <1>3, <2>1, <3>1, Zenon DEF Execute
    <3> QED
      BY <1>5, <3>2
  <2>2. CASE op = "SMALLINT"
    <3>1. Execute(r, CurrentChunk(m)) = PushOn(r, Num(CurrentChunk(m).n))
      BY <1>1, <1>3, <2>2, Zenon DEF Execute
    <3> QED
      BY <1>1, <1>5, <2>2, <3>1
  <2> QED
    BY <1>2, <2>1, <2>2
<1>7. PICK items : items = <<item>> /\ Stack(items, G)
  <2>1. ~IsSignature(item)
    BY NoSignatures
  <2> QED
    BY <2>1, OneItem
<1>8. 0 \in 0..Depth(r)
  BY <1>5, StackFacts DEF MachineOK, Depth
<1>9. Changed(r, Step(m), 0, items)
  BY <1>5, <1>6, <1>7, <1>8, ReplaceChanges DEF PushOn
<1> QED
  BY <1>5, <1>7, <1>9, SameStack

\* Plain operations that do not fail.
LEMMA StepPlain ==
    ASSUME NEW G, NEW m, MachineOK(m, G), Executing(m), Step(m).failed = FALSE,
           NEW op, op = CurrentChunk(m).op, op \in {"DUP", "HASH160", "EQUAL", "EQUALVERIFY"}
    PROVE  /\ op = "DUP" =>
                  /\ Depth(m) >= 1
                  /\ Changed(m, Step(m), 1, <<Top(m, 1), Top(m, 1)>>)
           /\ op = "HASH160" =>
                  /\ Depth(m) >= 1
                  /\ Changed(m, Step(m), 1, <<Hash("HASH160", Top(m, 1))>>)
           /\ op = "EQUAL" =>
                  /\ Depth(m) >= 2
                  /\ Changed(m, Step(m), 2, <<Truth(Top(m, 2) = Top(m, 1))>>)
           /\ op = "EQUALVERIFY" =>
                  /\ Depth(m) >= 2 /\ Top(m, 2) = Top(m, 1)
                  /\ Changed(m, Step(m), 2, <<>>)
<1>1. /\ op \notin Conditionals /\ op \in PlainOps /\ op \notin Nops
      /\ op \notin {"PUSH", "SMALLINT", "NOP", "CLTV", "VERIFY", "TOALTSTACK", "FROMALTSTACK",
                    "PICK", "ROLL", "CODESEPARATOR", "CHECKSIG", "CHECKSIGVERIFY",
                    "CHECKMULTISIG", "CHECKMULTISIGVERIFY"}
      /\ op \notin Unary
      /\ op \in {"EQUAL", "EQUALVERIFY"} => op \notin Hashes /\ op \notin DOMAIN Rearranged
      /\ op = "HASH160" => op \in Hashes /\ op \notin DOMAIN Rearranged /\ op \notin Binary
      /\ op = "DUP" => op \notin Hashes /\ op \in DOMAIN Rearranged /\ op \notin Binary
      /\ op = "EQUAL" => op \notin Binary
  BY RearrangedOps DEF Conditionals, PlainOps, Nops, Unary, Binary, Hashes
<1>2. PICK r : r = Read(m)
  OBVIOUS
<1>3. /\ Step(m) = Execute(r, CurrentChunk(m)) /\ Step(m) # Fail(r) /\ MachineOK(r, G)
      /\ r.stack = m.stack /\ r.vfExec = m.vfExec /\ r.pbegincodehash = m.pbegincodehash
  BY <1>1, <1>2, StepExecutes
<1>4. Step(m) = Plain(r, op)
  <2>1. Execute(r, CurrentChunk(m)) = Plain(r, op)
    BY <1>1, Zenon DEF Execute
  <2> QED
    BY <1>3, <2>1
<1> DEFINE n == Takes(op)
           x == SubSeq(r.stack, Depth(r) - n + 1, Depth(r))
<1>5. PICK d \in Nat : d = Depth(r) /\ d = Depth(m)
  BY <1>3, StackFacts, SameStack DEF MachineOK, Depth
<1>6. n \in Nat /\ ~(Depth(r) < n)
  <2>1. ~(Depth(r) < n)
    BY <1>3, <1>4, Zenon DEF Plain
  <2> QED
    BY <2>1, TakesFacts
<1>7. n \in 0..Depth(r)
  BY <1>5, <1>6
<1>8. \A j \in 1..n : x[j] = Top(m, (n - j) + 1)
  <2> SUFFICES ASSUME NEW j \in 1..n PROVE x[j] = Top(m, (n - j) + 1)
    OBVIOUS
  <2>1. x[j] = r.stack[d - n + j]
    BY <1>3, <1>5, <1>7, Taken1
  <2>2. d - ((n - j) + 1) + 1 = d - n + j
    BY <1>5, <1>6
  <2> QED
    BY <1>3, <1>5, <2>1, <2>2 DEF Top
<1>9. CASE op = "DUP"
  <2>1. Rearranged[op] = [takes |-> 1, puts |-> <<1, 1>>]
    BY <1>9, Zenon DEF Rearranged
  <2>2. Takes(op) = Rearranged[op].takes
    BY <1>1, <1>9, Zenon DEF Takes
  <2>3. n = 1 /\ x[1] = Top(m, 1)
    <3>1. n = 1
      BY <2>1, <2>2
    <3>2. 1 \in 1..n /\ (n - 1) + 1 = 1
      BY <3>1
    <3> HIDE DEF n, x
    <3> QED
      BY <1>8, <3>1, <3>2
  <2>4. Leaves(r, op, x) = [j \in DOMAIN Rearranged[op].puts |-> x[Rearranged[op].puts[j]]]
    BY <1>1, <1>9, Zenon DEF Leaves
  <2>5. Leaves(r, op, x) = <<x[1], x[1]>>
    <3> HIDE DEF x
    <3> QED
      BY <2>1, <2>4
  <2>6. PICK items : items = <<Top(m, 1), Top(m, 1)>> /\ items = Leaves(r, op, x)
    BY <2>3, <2>5
  <2>7. Step(m) = Replace(r, 1, items)
    <3>1. Step(m) = Replace(r, n, Leaves(r, op, x))
      BY <1>3, <1>4, <1>9, Zenon DEF Plain
    <3> QED
      BY <2>3, <2>6, <3>1, Zenon
  <2>8. Stack(items, G)
    <3>1. IsSignature(Top(m, 1)) => Top(m, 1) \in G
      BY <1>5, <1>7, <2>3, TopFacts
    <3>2. items \in Seq({Top(m, 1)})
      BY <2>6
    <3> QED
      BY <3>1, <3>2 DEF Stack
  <2>9. Changed(r, Step(m), 1, items)
    <3>1. 1 \in 0..Depth(r)
      BY <1>7, <2>3
    <3> QED
      BY <1>3, <2>7, <2>8, <3>1, ReplaceChanges
  <2>10. Changed(m, Step(m), 1, items)
    BY <1>3, <2>9, SameStack
  <2>11. Depth(m) >= 1
    BY <1>5, <1>7, <2>3
  <2> QED
    BY <1>9, <2>6, <2>10, <2>11
<1>10. CASE op = "HASH160"
  <2>1. n = 1
    BY <1>1, <1>10, Zenon DEF Takes
  <2>2. x[1] = Top(m, 1)
    <3>1. 1 \in 1..n /\ (n - 1) + 1 = 1
      BY <2>1
    <3> HIDE DEF n, x
    <3> QED
      BY <1>8, <3>1
  <2>3. Leaves(r, op, x) = <<Hash(op, x[1])>>
    BY <1>1, <1>10, Zenon DEF Leaves
  <2>4. PICK items : items = <<Hash("HASH160", Top(m, 1))>> /\ items = Leaves(r, op, x)
    BY <1>10, <2>2, <2>3
  <2>5. Step(m) = Replace(r, 1, items)
    <3>1. Step(m) = Replace(r, n, Leaves(r, op, x))
      BY <1>3, <1>4, <1>10, Zenon DEF Plain
    <3> QED
      BY <2>1, <2>4, <3>1, Zenon
  <2>6. Stack(items, G)
    BY <2>4, NoSignatures, OneItem
  <2>7. Changed(r, Step(m), 1, items)
    <3>1. 1 \in 0..Depth(r)
      BY <1>7, <2>1
    <3> QED
      BY <1>3, <2>5, <2>6, <3>1, ReplaceChanges
  <2>8. Changed(m, Step(m), 1, items)
    BY <1>3, <2>7, SameStack
  <2>9. Depth(m) >= 1
    BY <1>5, <1>7, <2>1
  <2> QED
    BY <1>10, <2>4, <2>8, <2>9
<1>11. CASE op \in {"EQUAL", "EQUALVERIFY"}
  <2>1. n = 2
    BY <1>1, <1>11, Zenon DEF Takes
  <2>2. x[1] = Top(m, 2) /\ x[2] = Top(m, 1)
    <3>1. 1 \in 1..n /\ (n - 1) + 1 = 2 /\ 2 \in 1..n /\ (n - 2) + 1 = 1
      BY <2>1
    <3> HIDE DEF n, x
    <3> QED
      BY <1>8, <3>1
  <2>3. Depth(m) >= 2 /\ 2 \in 0..Depth(r)
    BY <1>5, <1>7, <2>1
  <2>4. CASE op = "EQUAL"
    <3>1. Leaves(r, op, x) = <<Truth(x[1] = x[2])>>
      BY <1>1, <2>4, Zenon DEF Leaves
    <3>2. PICK t : t = Truth(Top(m, 2) = Top(m, 1))
      OBVIOUS
    <3>3. PICK items : items = <<t>>
      OBVIOUS
    <3>4. items = Leaves(r, op, x)
      BY <2>2, <3>1, <3>2, <3>3, Zenon
    <3>5. Step(m) = Replace(r, n, Leaves(r, op, x))
      BY <1>3, <1>4, <2>4, Zenon DEF Plain
    <3>6. Step(m) = Replace(r, 2, items)
      BY <2>1, <3>4, <3>5, Zenon
    <3>7. Stack(items, G)
      <4>1. ~IsSignature(t)
        BY <3>2, NoSignatures, Zenon DEF Truth
      <4> QED
        BY <3>3, <4>1, OneItem
    <3>8. Changed(r, Step(m), 2, items)
      BY <1>3, <2>3, <3>6, <3>7, ReplaceChanges
    <3>9. Changed(m, Step(m), 2, <<t>>)
      BY <1>3, <3>3, <3>8, SameStack
    <3> QED
      BY <2>3, <2>4, <3>2, <3>9, Zenon
  <2>5. CASE op = "EQUALVERIFY"
    <3>1. Step(m) = Answer(r, 2, x[1] = x[2], TRUE)
      BY <1>3, <1>4, <2>5, Zenon DEF Plain
    <3>2. x[1] = x[2] /\ Step(m) = Replace(r, 2, <<>>)
      BY <1>3, <3>1 DEF Answer
    <3>3. Changed(r, Step(m), 2, <<>>)
      BY <1>3, <2>3, <3>2, NoStack, ReplaceChanges
    <3>4. Changed(m, Step(m), 2, <<>>)
      BY <1>3, <3>3, SameStack
    <3> QED
      BY <2>2, <2>3, <2>5, <3>2, <3>4
  <2> QED
    BY <1>11, <2>4, <2>5
<1> QED
  BY <1>9, <1>10, <1>11

-----------------------------------------------------------------------------
(* First numbers, and beginnings of sequences. *)

LEMMA FirstNumbers ==
    ASSUME NEW n \in Nat, NEW j \in 1..n
    PROVE  /\ 1..j \in SUBSET (1..n) /\ 1..j # {} /\ (1..j) \ {j} = 1..(j - 1)
           /\ Max(1..j) = j
<1>1. \A i \in 1..j : i \in 1..n
  OBVIOUS
<1>2. j \in 1..j /\ \A y \in 1..j : y <= j
  OBVIOUS
<1>3. \A i : i \in (1..j) \ {j} <=> i \in 1..(j - 1)
  OBVIOUS
<1>4. 1..j \in SUBSET (1..n) /\ 1..j # {} /\ (1..j) \ {j} = 1..(j - 1)
  BY <1>1, <1>2, <1>3
<1>5. Max(1..j) = j
  BY <1>2, <1>4, MaxOfInterval
<1> QED
  BY <1>4, <1>5

IsJoined(st, s, t, p, q, Y) ==
    /\ st \in Seq(Y) /\ Len(st) = p + q
    /\ \A i \in 1..p : st[i] = s[i]
    /\ \A i \in 1..q : st[p + i] = t[i]

LEMMA Joined ==
    ASSUME NEW Y, NEW s \in Seq(Y), NEW t \in Seq(Y), NEW p \in Nat, NEW q \in Nat,
           p = Len(s), q = Len(t), NEW st, st = s \o t
    PROVE  IsJoined(st, s, t, p, q, Y)
<1>1. /\ s \o t \in Seq(Y) /\ Len(s \o t) = Len(s) + Len(t)
      /\ \A i \in 1..Len(s) : (s \o t)[i] = s[i]
      /\ \A i \in 1..Len(t) : (s \o t)[Len(s) + i] = t[i]
  BY ConcatProperties
<1> QED
  BY <1>1 DEF IsJoined

LEMMA OneMore ==
    ASSUME NEW X, NEW s \in Seq(X), NEW k \in 0..(Len(s) - 1)
    PROVE  Append(SubSeq(s, 1, k), s[k + 1]) = SubSeq(s, 1, k + 1)
<1>1. \A i \in 1..(k + 1) : s[i] \in X
  OBVIOUS
<1>2. SubSeq(s, 1, k) \in Seq(X) /\ Len(SubSeq(s, 1, k)) = k
  BY SubSeqProperties
<1>3. SubSeq(s, 1, k + 1) \in Seq(X) /\ Len(SubSeq(s, 1, k + 1)) = k + 1
  BY SubSeqProperties
<1>4. PICK a : a = Append(SubSeq(s, 1, k), s[k + 1])
  OBVIOUS
<1>5. a \in Seq(X) /\ Len(a) = k + 1 /\ a[k + 1] = s[k + 1]
  BY <1>1, <1>2, <1>4
<1>6. \A i \in 1..k : a[i] = s[i]
  BY <1>1, <1>2, <1>4, SubSeqProperties
<1>7. \A i \in 1..(k + 1) : a[i] = s[i]
  BY <1>5, <1>6
<1>8. \A i \in 1..(k + 1) : SubSeq(s, 1, k + 1)[i] = s[i]
  OBVIOUS
<1> QED
  BY <1>3, <1>4, <1>5, <1>7, <1>8, SeqEqual
-----------------------------------------------------------------------------
(* The script that a signature of a standard script covers. *)

\* One turn of findAndDelete.
Delete(done, chunk, item) ==
    IF ~done.pass /\ Pushes(chunk, item)
    THEN [done EXCEPT !.pass = TRUE]
    ELSE [chunks |-> Append(done.chunks, chunk), pass |-> FALSE]

\* findAndDelete leaves a script alone in which no chunk pushes the item.
LEMMA NothingToDelete ==
    ASSUME NEW X, NEW script \in Seq(X), NEW item,
           \A i \in DOMAIN script : ~Pushes(script[i], item)
    PROVE  FindAndDelete(script, item) = script
<1> DEFINE A == [chunks : Seq(X), pass : {FALSE}]
           base == [chunks |-> <<>>, pass |-> FALSE]
           Turn(a, c) == Delete(a, c, item)
           Iter(g) == g = [s \in SUBSET (DOMAIN script) |->
                              IF s = {} THEN base
                              ELSE Turn(g[s \ {Max(s)}], script[Max(s)])]
           More(a, i) == [chunks |-> Append(a.chunks, script[i]), pass |-> FALSE]
<1>0. PICK n \in Nat : n = Len(script) /\ DOMAIN script = 1..n
  OBVIOUS
<1> DEFINE F == [p \in A \X (1..n) |-> More(p[1], p[2])]
<1>1. base \in A
  OBVIOUS
<1>2. \A a \in A, i \in 1..n : More(a, i) \in A
  <2> SUFFICES ASSUME NEW a \in A, NEW i \in 1..n PROVE More(a, i) \in A
    OBVIOUS
  <2>1. a.chunks \in Seq(X) /\ script[i] \in X
    BY <1>0
  <2>2. Append(a.chunks, script[i]) \in Seq(X)
    BY <2>1
  <2> QED
    BY <2>2
<1>3. \A a \in A, i \in 1..n : Turn(a, script[i]) = More(a, i)
  BY <1>0, Zenon DEF Delete
<1> HIDE DEF Turn, base
<1>4. \A a \in A, i \in 1..n : F[<<a, i>>] = Turn(a, script[i]) /\ F[<<a, i>>] \in A
  <2> HIDE DEF More, A
  <2> QED
    BY <1>2, <1>3
<1> HIDE DEF F, A
<1>5. PICK g : IsFold(g, A, base, n, F)
  <2>1. \A a \in A, i \in 1..n : F[<<a, i>>] \in A
    BY <1>4, Zenon
  <2> QED
    BY <1>0, <1>1, <2>1, FoldExists
<1>6. \A s \in SUBSET (1..n) : s # {} => Max(s) \in s /\ s \ {Max(s)} \in SUBSET (1..n)
  BY <1>0, GreatestOf
<1>7. Iter(g)
  <2>1. \A s \in SUBSET (1..n) : s # {} =>
            F[<<g[s \ {Max(s)}], Max(s)>>] = Turn(g[s \ {Max(s)}], script[Max(s)])
    BY <1>4, <1>5, <1>6 DEF IsFold
  <2>2. \A s \in SUBSET (1..n) :
            g[s] = IF s = {} THEN base ELSE Turn(g[s \ {Max(s)}], script[Max(s)])
    BY <1>5, <2>1 DEF IsFold
  <2>3. g = [s \in SUBSET (1..n) |-> g[s]]
    BY <1>5 DEF IsFold
  <2> QED
    BY <1>0, <2>2, <2>3
<1>8. PICK it : Iter(it) /\ FindAndDelete(script, item) = it[DOMAIN script].chunks
  <2> DEFINE it == CHOOSE h : Iter(h)
  <2>1. Iter(it)
    BY <1>7, Zenon
  <2>2. FindAndDelete(script, item) = it[DOMAIN script].chunks
    BY Zenon DEF FindAndDelete, FoldLeft, MapThenFoldSet, Delete, base, Turn
  <2> QED
    BY <2>1, <2>2
<1>9. /\ it[{}] = base
      /\ \A s \in SUBSET (1..n) : s # {} => it[s] = Turn(it[s \ {Max(s)}], script[Max(s)])
  BY <1>0, <1>6, <1>8
<1> DEFINE st == [j \in 0..n |-> it[1..j]]
<1>10. st[0] = base
  <2>1. 1..0 = {}
    OBVIOUS
  <2> QED
    BY <1>0, <1>9, <2>1
<1>11. \A j \in 1..n : st[j] = Turn(st[j - 1], script[j])
  <2> SUFFICES ASSUME NEW j \in 1..n PROVE st[j] = Turn(st[j - 1], script[j])
    OBVIOUS
  <2>1. 1..j \in SUBSET (1..n) /\ 1..j # {} /\ (1..j) \ {j} = 1..(j - 1)
    BY <1>0, FirstNumbers
  <2>2. Max(1..j) = j
    BY <1>0, FirstNumbers
  <2> QED
    BY <1>0, <1>9, <2>1, <2>2
<1> DEFINE T == {j \in 0..n : st[j].pass = FALSE /\ st[j].chunks = SubSeq(script, 1, j)}
<1>12. 0 \in T
  <2>1. SubSeq(script, 1, 0) = <<>>
    OBVIOUS
  <2>2. st[0].pass = FALSE /\ st[0].chunks = <<>>
    BY <1>10 DEF base
  <2>3. 0 \in 0..n
    BY <1>0
  <2> HIDE DEF st
  <2> QED
    BY <2>1, <2>2, <2>3, Zenon
<1>13. \A k \in 0..(n - 1) : k \in T => k + 1 \in T
  <2> SUFFICES ASSUME NEW k \in 0..(n - 1), k \in T PROVE k + 1 \in T
    OBVIOUS
  <2>0. k + 1 \in 1..n /\ k + 1 \in 0..n /\ (k + 1) - 1 = k
    BY <1>0
  <2>1. st[k + 1] = Turn(st[k], script[k + 1])
    BY <1>11, <2>0
  <2>2. st[k].pass = FALSE /\ st[k].chunks = SubSeq(script, 1, k)
    OBVIOUS
  <2> HIDE DEF st
  <2>3. Turn(st[k], script[k + 1])
            = [chunks |-> Append(st[k].chunks, script[k + 1]), pass |-> FALSE]
    BY <1>0, <2>0, Zenon DEF Turn, Delete
  <2>4. Append(SubSeq(script, 1, k), script[k + 1]) = SubSeq(script, 1, k + 1)
    BY <1>0, <2>0, OneMore
  <2>5. st[k + 1].pass = FALSE /\ st[k + 1].chunks = SubSeq(script, 1, k + 1)
    BY <2>1, <2>2, <2>3, <2>4
  <2> QED
    BY <2>0, <2>5
<1>14. n \in T
  <2> HIDE DEF T
  <2>1. 0..n \subseteq T
    BY <1>0, <1>12, <1>13, AllNumbers
  <2> QED
    BY <1>0, <2>1
<1>15. it[DOMAIN script].chunks = SubSeq(script, 1, n)
  <2>1. n \in 0..n
    BY <1>0
  <2> QED
    BY <1>0, <1>14, <2>1
<1>16. SubSeq(script, 1, n) = script
  BY <1>0
<1> QED
  BY <1>8, <1>15, <1>16

LEMMA WholeSubscript ==
    ASSUME NEW X, NEW m, m.script \in Seq(X), m.pbegincodehash = 0,
           NEW n \in Nat, NEW sigs, DOMAIN sigs = 1..n,
           \A i \in DOMAIN m.script, j \in 1..n : ~Pushes(m.script[i], sigs[j])
    PROVE  Subscript(m, sigs) = m.script
<1> DEFINE A == {m.script}
           base == SubSeq(m.script, m.pbegincodehash + 1, Len(m.script))
           Iter(g) == g = [s \in SUBSET (DOMAIN sigs) |->
                              IF s = {} THEN base
                              ELSE FindAndDelete(g[s \ {Max(s)}], sigs[Max(s)])]
           F == [p \in A \X (1..n) |-> m.script]
<1>1. base = m.script
  BY SubSeqFull
<1>2. \A j \in 1..n : FindAndDelete(m.script, sigs[j]) = m.script
  BY NothingToDelete
<1> HIDE DEF base
<1>3. \A a \in A, i \in 1..n : F[<<a, i>>] = FindAndDelete(a, sigs[i]) /\ F[<<a, i>>] \in A
  BY <1>2
<1>4. base \in A
  BY <1>1
<1> HIDE DEF F, A
<1>5. PICK g : IsFold(g, A, base, n, F)
  <2>1. \A a \in A, i \in 1..n : F[<<a, i>>] \in A
    BY <1>3, Zenon
  <2> QED
    BY <1>4, <2>1, FoldExists
<1>6. \A s \in SUBSET (1..n) : s # {} => Max(s) \in s /\ s \ {Max(s)} \in SUBSET (1..n)
  BY GreatestOf
<1>7. Iter(g)
  <2>1. \A s \in SUBSET (1..n) : s # {} =>
            F[<<g[s \ {Max(s)}], Max(s)>>] = FindAndDelete(g[s \ {Max(s)}], sigs[Max(s)])
    BY <1>3, <1>5, <1>6 DEF IsFold
  <2>2. \A s \in SUBSET (1..n) :
            g[s] = IF s = {} THEN base ELSE FindAndDelete(g[s \ {Max(s)}], sigs[Max(s)])
    BY <1>5, <2>1 DEF IsFold
  <2>3. g = [s \in SUBSET (1..n) |-> g[s]]
    BY <1>5 DEF IsFold
  <2> QED
    BY <2>2, <2>3
<1>8. PICK it : Iter(it) /\ Subscript(m, sigs) = it[DOMAIN sigs]
  <2> DEFINE it == CHOOSE h : Iter(h)
  <2>1. Iter(it)
    BY <1>7, Zenon
  <2>2. Subscript(m, sigs) = it[DOMAIN sigs]
    BY Zenon DEF Subscript, FoldLeft, MapThenFoldSet, base
  <2> QED
    BY <2>1, <2>2
<1>9. /\ it[{}] = base
      /\ \A s \in SUBSET (1..n) : s # {} =>
             it[s] = FindAndDelete(it[s \ {Max(s)}], sigs[Max(s)])
  BY <1>6, <1>8
<1> DEFINE T == {j \in 0..n : it[1..j] = m.script}
<1>10. 0 \in T
  <2>1. 1..0 = {}
    OBVIOUS
  <2> QED
    BY <1>1, <1>9, <2>1
<1>11. \A k \in 0..(n - 1) : k \in T => k + 1 \in T
  <2> SUFFICES ASSUME NEW k \in 0..(n - 1), k \in T PROVE k + 1 \in T
    OBVIOUS
  <2>0. k + 1 \in 1..n /\ (k + 1) - 1 = k
    OBVIOUS
  <2>1. /\ 1..(k + 1) \in SUBSET (1..n) /\ 1..(k + 1) # {}
        /\ (1..(k + 1)) \ {k + 1} = 1..((k + 1) - 1) /\ Max(1..(k + 1)) = k + 1
    BY <2>0, FirstNumbers
  <2>2. it[1..(k + 1)] = FindAndDelete(it[1..k], sigs[k + 1])
    BY <1>9, <2>0, <2>1
  <2>3. it[1..k] = m.script
    OBVIOUS
  <2> QED
    BY <1>2, <2>0, <2>2, <2>3
<1>12. n \in T
  <2> HIDE DEF T
  <2>1. 0..n \subseteq T
    BY <1>10, <1>11, AllNumbers
  <2> QED
    BY <2>1
<1> QED
  BY <1>8, <1>12

\* A script that pushes no signature.
NoSigs(script) == \A i \in DOMAIN script : script[i].op = "PUSH" => ~IsSignature(script[i].item)

LEMMA NothingPushed ==
    ASSUME NEW script, NoSigs(script), NEW item, IsSignature(item)
    PROVE  \A i \in DOMAIN script : ~Pushes(script[i], item)
<1>1. item # False
  BY NoSignatures
<1> QED
  BY <1>1 DEF NoSigs, Pushes

\* What OP_CHECKSIG answers in such a script: that the signature covers all of the script.
LEMMA StepCheckSig ==
    ASSUME NEW G, NEW m, MachineOK(m, G), Executing(m), Step(m).failed = FALSE,
           CurrentChunk(m).op = "CHECKSIG",
           NEW X, m.script \in Seq(X), m.pbegincodehash = 0, NoSigs(m.script)
    PROVE  /\ Depth(m) >= 2
           /\ \E ok \in BOOLEAN :
                  /\ Changed(m, Step(m), 2, <<Truth(ok)>>)
                  /\ ok => VerifySignature(m.tx, Top(m, 2), Top(m, 1), m.nin, m.script)
<1>1. PICK op : op = CurrentChunk(m).op
  OBVIOUS
<1>2. op = "CHECKSIG"
  BY <1>1
<1>3. op \notin Conditionals /\ op \notin PlainOps /\ op \notin Nops
  BY <1>2, RearrangedOps DEF Conditionals, PlainOps, Nops, Unary, Binary, Hashes
<1>4. PICK r : r = Read(m)
  OBVIOUS
<1>5. /\ Step(m) = Execute(r, CurrentChunk(m)) /\ Step(m) # Fail(r) /\ MachineOK(r, G)
      /\ r.stack = m.stack /\ r.vfExec = m.vfExec /\ r.pbegincodehash = m.pbegincodehash
      /\ r.script = m.script /\ r.tx = m.tx /\ r.nin = m.nin
  BY <1>1, <1>3, <1>4, StepExecutes
<1>6. PICK verify \in BOOLEAN : verify = (op = "CHECKSIGVERIFY")
  BY Zenon
<1>7. verify = FALSE
  BY <1>2, <1>6
<1>8. Step(m) = CheckSig(r, verify)
  <2>1. Execute(r, CurrentChunk(m)) = CheckSig(r, op = "CHECKSIGVERIFY")
    BY <1>1, <1>2, <1>3, Zenon DEF Execute
  <2> QED
    BY <1>5, <1>6, <2>1, Zenon
<1> DEFINE sig == Top(r, 2)
           key == Top(r, 1)
           sub == Subscript(r, <<sig>>)
<1>9. PICK ok \in BOOLEAN : ok = VerifySignature(r.tx, sig, key, r.nin, sub)
  BY Zenon DEF VerifySignature
<1>10. ~(Depth(r) < 2) /\ Step(m) = Answer(r, 2, ok, verify)
  BY <1>5, <1>8, <1>9, Zenon DEF CheckSig
<1>11. PICK t : t = Truth(ok)
  OBVIOUS
<1>12. Step(m) = Replace(r, 2, <<t>>)
  BY <1>7, <1>10, <1>11, Zenon DEF Answer
<1>13. 2 \in 0..Depth(r)
  BY <1>5, <1>10, StackFacts DEF MachineOK, Depth
<1>14. PICK items : items = <<t>> /\ Stack(items, G)
  <2>1. ~IsSignature(t)
    BY <1>11, NoSignatures, Zenon DEF Truth
  <2> QED
    BY <2>1, OneItem
<1>15. Changed(r, Step(m), 2, items)
  BY <1>5, <1>12, <1>13, <1>14, ReplaceChanges
<1>16. Changed(m, Step(m), 2, <<t>>)
  BY <1>5, <1>14, <1>15, SameStack
<1>17. Depth(m) >= 2 /\ Top(m, 2) = sig /\ Top(m, 1) = key
  <2>1. Depth(m) = Depth(r) /\ \A i : Top(r, i) = Top(m, i)
    BY <1>5, SameStack
  <2> QED
    BY <1>13, <2>1
<1>18. ASSUME ok PROVE VerifySignature(m.tx, sig, key, m.nin, m.script)
  <2>1. IsSignature(sig)
    BY <1>9, <1>18 DEF VerifySignature
  <2> HIDE DEF sig, key
  <2>2. \A i \in DOMAIN r.script : ~Pushes(r.script[i], sig)
    BY <1>5, <2>1, NothingPushed
  <2>3. PICK sigs : sigs = <<sig>>
    OBVIOUS
  <2>4. DOMAIN sigs = 1..1 /\ \A j \in 1..1 : sigs[j] = sig
    BY <2>3
  <2>5. \A i \in DOMAIN r.script, j \in 1..1 : ~Pushes(r.script[i], sigs[j])
    BY <2>2, <2>4
  <2>6. r.script \in Seq(X) /\ r.pbegincodehash = 0
    BY <1>5
  <2>7. Subscript(r, sigs) = r.script
    BY <2>4, <2>5, <2>6, WholeSubscript
  <2> QED
    BY <1>5, <1>9, <1>18, <2>3, <2>7
<1> HIDE DEF sig, key, sub
<1> QED
  BY <1>11, <1>16, <1>17, <1>18, Zenon

\* What OP_CHECKMULTISIG answers in such a script: that the signatures, each covering all
\* of the script, have keys of their own.
LEMMA StepMultisig ==
    ASSUME NEW G, NEW m, MachineOK(m, G), Executing(m), Step(m).failed = FALSE,
           CurrentChunk(m).op = "CHECKMULTISIG",
           NEW X, m.script \in Seq(X), m.pbegincodehash = 0, NoSigs(m.script)
    PROVE  /\ NKeys(m) \in Nat /\ NSigs(m) \in Nat /\ NKeys(m) + NSigs(m) + 3 <= Depth(m)
           /\ Last(Step(m).stack) \in {True, False}
           /\ Last(Step(m).stack) = True =>
                  Matching(MultisigSigs(m), MultisigKeys(m), m, m.script)
<1>1. PICK op : op = CurrentChunk(m).op
  OBVIOUS
<1>2. op = "CHECKMULTISIG"
  BY <1>1
<1>3. op \notin Conditionals /\ op \notin PlainOps /\ op \notin Nops
  BY <1>2, RearrangedOps DEF Conditionals, PlainOps, Nops, Unary, Binary, Hashes
<1>4. PICK r : r = Read(m)
  OBVIOUS
<1>5. /\ Step(m) = Execute(r, CurrentChunk(m)) /\ Step(m) # Fail(r) /\ MachineOK(r, G)
      /\ r.stack = m.stack /\ r.vfExec = m.vfExec /\ r.pbegincodehash = m.pbegincodehash
      /\ r.script = m.script /\ r.tx = m.tx /\ r.nin = m.nin
  BY <1>1, <1>3, <1>4, StepExecutes
<1>6. PICK verify \in BOOLEAN : verify = (op = "CHECKMULTISIGVERIFY")
  BY Zenon
<1>7. verify = FALSE
  BY <1>2, <1>6
<1>8. Step(m) = CheckMultisig(r, verify)
  <2>1. Execute(r, CurrentChunk(m)) = CheckMultisig(r, op = "CHECKMULTISIGVERIFY")
    BY <1>1, <1>2, <1>3, Zenon DEF Execute
  <2> QED
    BY <1>5, <1>6, <2>1, Zenon
<1>9. NKeys(r) \in Nat /\ NSigs(r) \in Nat /\ NKeys(r) + NSigs(r) + 3 \in 0..Depth(r)
  <2>1. CheckMultisig(r, verify) # Fail(r)
    BY <1>5, <1>8
  <2> QED
    BY <1>5, <2>1, MultisigParts
<1>10. NKeys(r) = NKeys(m) /\ NSigs(r) = NSigs(m) /\ Depth(r) = Depth(m)
  BY <1>5 DEF NKeys, NSigs, Top, Depth
<1>11. MultisigSigs(r) = MultisigSigs(m) /\ MultisigKeys(r) = MultisigKeys(m)
  BY <1>5, <1>10 DEF MultisigSigs, MultisigKeys, Items, Top, Depth
<1>12. NKeys(m) \in Nat /\ NSigs(m) \in Nat /\ NKeys(m) + NSigs(m) + 3 <= Depth(m)
  <2>1. Depth(r) \in Nat
    BY <1>5, StackFacts DEF MachineOK, Depth
  <2> QED
    BY <1>9, <1>10, <2>1
<1> DEFINE sigs == MultisigSigs(r)
<1>13. /\ Matching(sigs, MultisigKeys(r), r, Subscript(r, sigs))
              <=> (verify \/ Last(Step(m).stack) = True)
       /\ ~verify => Last(Step(m).stack) \in {True, False}
  <2>1. CheckMultisig(r, verify).failed = FALSE
    BY <1>8
  <2> QED
    BY <1>5, <1>8, <2>1, MultisigAnswer
<1>14. ASSUME Last(Step(m).stack) = True
       PROVE  Matching(sigs, MultisigKeys(r), r, r.script)
  <2>1. Matching(sigs, MultisigKeys(r), r, Subscript(r, sigs))
    BY <1>13, <1>14
  <2>2. DOMAIN sigs = 1..NSigs(r)
    BY <1>9 DEF MultisigSigs, Items
  <2> HIDE DEF sigs
  <2>3. \A j \in DOMAIN sigs : IsSignature(sigs[j])
    BY <2>1 DEF Matching, VerifySignature
  <2>4. \A i \in DOMAIN r.script, j \in 1..NSigs(r) : ~Pushes(r.script[i], sigs[j])
    BY <1>5, <2>2, <2>3, NothingPushed
  <2>5. r.script \in Seq(X) /\ r.pbegincodehash = 0
    BY <1>5
  <2>6. Subscript(r, sigs) = r.script
    BY <1>9, <2>2, <2>4, <2>5, WholeSubscript
  <2> QED
    BY <2>1, <2>6
<1>15. Matching(sigs, MultisigKeys(r), r, r.script)
           => Matching(MultisigSigs(m), MultisigKeys(m), m, m.script)
  <2>1. sigs = MultisigSigs(m)
    BY <1>11
  <2> HIDE DEF sigs
  <2> QED
    BY <1>5, <1>11, <2>1 DEF Matching
<1> QED
  BY <1>7, <1>12, <1>13, <1>14, <1>15, Zenon

-----------------------------------------------------------------------------
(* Who has to sign, and what the script that asks for it does. *)

AuthorizedBy(G, script) ==
    Cardinality({i \in DOMAIN Lock(script).keys :
                    \E s \in G : /\ s.by = Lock(script).keys[i]
                                 /\ s.over = Digest(Tx, s.type, 1, script)})
        >= Lock(script).threshold

\* The three shapes of a lock.
LEMMA LockIs ==
    ASSUME NEW script, IsScript(script)
    PROVE  \/ \E k : Lock(script) = [keys |-> <<k>>, threshold |-> 1]
           \/ /\ script # <<>> /\ Last(script).op = "CHECKMULTISIG"
              /\ Lock(script) = [keys |-> [i \in 1..(Len(script) - 3) |-> script[i + 1].item.key],
                                 threshold |-> script[1].n]
           \/ Lock(script) = [keys |-> <<>>, threshold |-> 0]
<1> DEFINE KeyHash == Ops(script) = <<"DUP", "HASH160", "PUSH", "EQUALVERIFY", "CHECKSIG">>
           OneKey == Ops(script) = <<"PUSH", "CHECKSIG">>
           Multi == script # <<>> /\ Last(script).op = "CHECKMULTISIG"
<1>0. ~(KeyHash /\ OneKey)
  OBVIOUS
<1>1. script \in Seq(ToSet(script)) /\ DOMAIN script = 1..Len(script) /\ Len(script) \in Nat
  BY DEF IsScript
<1>2. KeyHash => ~Multi
  <2> SUFFICES ASSUME KeyHash PROVE ~Multi
    OBVIOUS
  <2>1. DOMAIN Ops(script) = 1..5 /\ Ops(script)[5] = "CHECKSIG"
    OBVIOUS
  <2>2. Len(script) = 5 /\ script[5].op = "CHECKSIG"
    BY <1>1, <2>1 DEF Ops
  <2> QED
    BY <2>2 DEF Last
<1>3. OneKey => ~Multi
  <2> SUFFICES ASSUME OneKey PROVE ~Multi
    OBVIOUS
  <2>1. DOMAIN Ops(script) = 1..2 /\ Ops(script)[2] = "CHECKSIG"
    OBVIOUS
  <2>2. Len(script) = 2 /\ script[2].op = "CHECKSIG"
    BY <1>1, <2>1 DEF Ops
  <2> QED
    BY <2>2 DEF Last
<1>4. CASE KeyHash
  <2>1. Lock(script) = [keys |-> <<script[3].item.of.key>>, threshold |-> 1]
    BY <1>0, <1>2, <1>4, Zenon DEF Lock
  <2> QED
    BY <2>1, Zenon
<1>5. CASE OneKey
  <2>1. Lock(script) = [keys |-> <<script[1].item.key>>, threshold |-> 1]
    BY <1>0, <1>3, <1>5, Zenon DEF Lock
  <2> QED
    BY <2>1, Zenon
<1>6. CASE Multi
  BY <1>2, <1>3, <1>6, Zenon DEF Lock
<1>7. CASE ~KeyHash /\ ~OneKey /\ ~Multi
  BY <1>7, Zenon DEF Lock
<1> QED
  BY <1>4, <1>5, <1>6, <1>7, Zenon


\* The chunks of the three standard scripts.
ChunksOfKeyHash(script, k) ==
    /\ Len(script) = 5 /\ DOMAIN script = 1..5
    /\ script[1].op = "DUP" /\ script[2].op = "HASH160" /\ script[3].op = "PUSH"
    /\ script[3].item = Hash("HASH160", Key(k))
    /\ script[4].op = "EQUALVERIFY" /\ script[5].op = "CHECKSIG"

ChunksOfKey(script, k) ==
    /\ Len(script) = 2 /\ DOMAIN script = 1..2
    /\ script[1].op = "PUSH" /\ script[1].item = Key(k) /\ script[2].op = "CHECKSIG"

ChunksOfKeys(script, keys, n, t) ==
    /\ n \in Nat /\ Len(script) = n + 3 /\ DOMAIN script = 1..(n + 3)
    /\ script[1].op = "SMALLINT" /\ script[1].n = t
    /\ \A i \in 1..n : script[1 + i].op = "PUSH" /\ script[1 + i].item = Key(keys[i])
    /\ script[n + 2].op = "SMALLINT" /\ script[n + 2].n = n
    /\ script[n + 3].op = "CHECKMULTISIG"

LEMMA KeyHashChunks ==
    ASSUME NEW k, NEW script, script = PublicKeyHashOut(k)
    PROVE  ChunksOfKeyHash(script, k) /\ NoSigs(script) /\ Last(script).op = "CHECKSIG"
<1>1. ChunksOfKeyHash(script, k)
  BY DEF PublicKeyHashOut, ChunksOfKeyHash, Op, Push
<1>2. \A i \in 1..5 : script[i].op = "PUSH" => i = 3
  BY <1>1 DEF ChunksOfKeyHash
<1>3. NoSigs(script)
  BY <1>1, <1>2, NoSignatures DEF ChunksOfKeyHash, NoSigs
<1> QED
  BY <1>1, <1>3 DEF ChunksOfKeyHash, Last

LEMMA KeyChunks ==
    ASSUME NEW k, NEW script, script = PublicKeyOut(k)
    PROVE  ChunksOfKey(script, k) /\ NoSigs(script) /\ Last(script).op = "CHECKSIG"
<1>1. ChunksOfKey(script, k)
  BY DEF PublicKeyOut, ChunksOfKey, Op, Push
<1>2. ~IsSignature(Key(k))
  BY DEF IsSignature, IsA, Key
<1>3. \A i \in 1..2 : script[i].op = "PUSH" => i = 1
  BY <1>1 DEF ChunksOfKey
<1>4. NoSigs(script)
  BY <1>1, <1>2, <1>3 DEF ChunksOfKey, NoSigs
<1> QED
  BY <1>1, <1>4 DEF ChunksOfKey, Last

LEMMA KeysChunks ==
    ASSUME NEW n \in Nat, NEW keys, Len(keys) = n, DOMAIN keys = 1..n, NEW t,
           NEW script, script = MultisigOut(keys, t)
    PROVE  ChunksOfKeys(script, keys, n, t) /\ NoSigs(script) /\ \E Y : script \in Seq(Y)
<1> DEFINE a == <<SmallInt(t)>>
           b == [i \in 1..n |-> Push(Key(keys[i]))]
           c == <<SmallInt(n), Op("CHECKMULTISIG")>>
<1>1. script = (a \o b) \o c
  BY DEF MultisigOut
<1>2. PICK Y : Y = {SmallInt(t), SmallInt(n), Op("CHECKMULTISIG")} \cup {Push(Key(keys[i])) : i \in 1..n}
  OBVIOUS
<1>3. a \in Seq(Y) /\ b \in Seq(Y) /\ c \in Seq(Y)
  <2>1. a \in Seq(Y)
    BY <1>2
  <2>2. \A i \in 1..n : Push(Key(keys[i])) \in Y
    BY <1>2
  <2>3. b \in Seq(Y)
    BY <2>2
  <2>4. c \in Seq(Y)
    BY <1>2
  <2> QED
    BY <2>1, <2>3, <2>4
<1>4. /\ Len(a) = 1 /\ a[1] = SmallInt(t)
      /\ Len(b) = n /\ \A i \in 1..n : b[i] = Push(Key(keys[i]))
      /\ Len(c) = 2 /\ c[1] = SmallInt(n) /\ c[2] = Op("CHECKMULTISIG")
  BY <1>3
<1> HIDE DEF a, b, c
<1>5. PICK ab : ab = a \o b
  OBVIOUS
<1>6. /\ ab \in Seq(Y) /\ Len(ab) = n + 1 /\ ab[1] = SmallInt(t)
      /\ \A i \in 1..n : ab[1 + i] = Push(Key(keys[i]))
  <2>1. /\ ab \in Seq(Y) /\ Len(ab) = 1 + n
        /\ \A i \in 1..1 : ab[i] = a[i]
        /\ \A i \in 1..n : ab[1 + i] = b[i]
    <3>1. 1 \in Nat /\ n \in Nat /\ 1 = Len(a) /\ n = Len(b)
      BY <1>4
    <3>2. IsJoined(ab, a, b, 1, n, Y)
      BY <1>3, <1>5, <3>1, Joined
    <3> QED
      BY <3>2 DEF IsJoined
  <2> QED
    BY <1>4, <2>1
<1>7. script = ab \o c
  BY <1>1, <1>5
<1>8. /\ script \in Seq(Y) /\ Len(script) = n + 3
      /\ \A i \in 1..(n + 1) : script[i] = ab[i]
      /\ script[n + 2] = SmallInt(n) /\ script[n + 3] = Op("CHECKMULTISIG")
  <2>1. /\ script \in Seq(Y) /\ Len(script) = (n + 1) + 2
        /\ \A i \in 1..(n + 1) : script[i] = ab[i]
        /\ \A i \in 1..2 : script[(n + 1) + i] = c[i]
    <3>1. n + 1 \in Nat /\ 2 \in Nat /\ n + 1 = Len(ab) /\ 2 = Len(c)
      BY <1>4, <1>6
    <3>2. IsJoined(script, ab, c, n + 1, 2, Y)
      BY <1>3, <1>6, <1>7, <3>1, Joined
    <3> QED
      BY <3>2 DEF IsJoined
  <2>2. 1 \in 1..2 /\ 2 \in 1..2 /\ (n + 1) + 1 = n + 2 /\ (n + 1) + 2 = n + 3
    OBVIOUS
  <2> QED
    BY <1>4, <2>1, <2>2
<1>9. /\ script[1] = SmallInt(t) /\ DOMAIN script = 1..(n + 3)
      /\ \A i \in 1..n : script[1 + i] = Push(Key(keys[i]))
  <2>1. 1 \in 1..(n + 1) /\ \A i \in 1..n : 1 + i \in 1..(n + 1)
    OBVIOUS
  <2> QED
    BY <1>6, <1>8, <2>1
<1>10. ChunksOfKeys(script, keys, n, t)
  <2>1. /\ \A x : SmallInt(x).op = "SMALLINT" /\ SmallInt(x).n = x
        /\ \A x : Push(x).op = "PUSH" /\ Push(x).item = x
        /\ Op("CHECKMULTISIG").op = "CHECKMULTISIG"
    BY DEF SmallInt, Push, Op
  <2> QED
    BY <1>8, <1>9, <2>1 DEF ChunksOfKeys
<1>11. NoSigs(script)
  <2> SUFFICES ASSUME NEW i \in 1..(n + 3), script[i].op = "PUSH"
               PROVE  ~IsSignature(script[i].item)
    BY <1>9 DEF NoSigs
  <2>1. i # 1 /\ i # n + 2 /\ i # n + 3
    BY <1>10 DEF ChunksOfKeys
  <2>2. PICK j \in 1..n : i = 1 + j
    BY <2>1
  <2>3. script[i].item = Key(keys[j])
    BY <1>10, <2>2 DEF ChunksOfKeys
  <2> QED
    BY <2>3 DEF IsSignature, IsA, Key
<1>12. \E Z : script \in Seq(Z)
  BY <1>8
<1> QED
  BY <1>10, <1>11, <1>12

\* A script that wants keys is one of these.
LEMMA StandardIs ==
    ASSUME NEW script, IsScript(script), IsStandard(script), Lock(script).threshold # 0
    PROVE  /\ NoSigs(script)
           /\ \/ \E k : /\ Lock(script) = [keys |-> <<k>>, threshold |-> 1]
                        /\ ChunksOfKeyHash(script, k)
              \/ \E k : /\ Lock(script) = [keys |-> <<k>>, threshold |-> 1]
                        /\ ChunksOfKey(script, k)
              \/ \E n \in Nat, t \in Nat :
                     /\ t \in 1..n /\ Lock(script).threshold = t
                     /\ DOMAIN Lock(script).keys = 1..n
                     /\ ChunksOfKeys(script, Lock(script).keys, n, t)
<1> DEFINE lock == Lock(script)
           OneKey == \E k : lock = [keys |-> <<k>>, threshold |-> 1]
           Keys == [i \in 1..(Len(script) - 3) |-> script[i + 1].item.key]
           Multi == /\ script # <<>> /\ Last(script).op = "CHECKMULTISIG"
                    /\ lock = [keys |-> Keys, threshold |-> script[1].n]
<1>1. OneKey \/ Multi
  <2>1. OneKey \/ Multi \/ lock = [keys |-> <<>>, threshold |-> 0]
    BY LockIs, Zenon
  <2> HIDE DEF OneKey, Multi, lock
  <2>2. lock.threshold # 0
    BY DEF lock
  <2> QED
    BY <2>1, <2>2
<1>2. CASE script = PublicKeyHashOut(lock.keys[1])
  <2>1. PICK k : k = lock.keys[1]
    OBVIOUS
  <2>2. ChunksOfKeyHash(script, k) /\ NoSigs(script) /\ Last(script).op = "CHECKSIG"
    BY <1>2, <2>1, KeyHashChunks
  <2>3. PICK j : lock = [keys |-> <<j>>, threshold |-> 1]
    <3>1. ~Multi
      BY <2>2
    <3> QED
      BY <1>1, <3>1, Zenon
  <2> HIDE DEF lock
  <2>4. j = k
    BY <2>1, <2>3
  <2> QED
    BY <2>2, <2>3, <2>4, Zenon DEF lock
<1>3. CASE script = PublicKeyOut(lock.keys[1])
  <2>1. PICK k : k = lock.keys[1]
    OBVIOUS
  <2>2. ChunksOfKey(script, k) /\ NoSigs(script) /\ Last(script).op = "CHECKSIG"
    BY <1>3, <2>1, KeyChunks
  <2>3. PICK j : lock = [keys |-> <<j>>, threshold |-> 1]
    <3>1. ~Multi
      BY <2>2
    <3> QED
      BY <1>1, <3>1, Zenon
  <2> HIDE DEF lock
  <2>4. j = k
    BY <2>1, <2>3
  <2> QED
    BY <2>2, <2>3, <2>4, Zenon DEF lock
<1>4. CASE lock.threshold \in 1..Len(lock.keys) /\ script = MultisigOut(lock.keys, lock.threshold)
  <2>1. \E n \in Nat : DOMAIN lock.keys = 1..n /\ Len(lock.keys) = n
    <3>1. CASE OneKey
      <4>1. PICK k : lock = [keys |-> <<k>>, threshold |-> 1]
        BY <3>1
      <4> HIDE DEF lock
      <4>2. lock.keys = <<k>>
        BY <4>1
      <4>3. DOMAIN lock.keys = 1..1 /\ Len(lock.keys) = 1
        BY <4>2
      <4> QED
        BY <4>3
    <3>2. CASE Multi
      <4>1. Len(script) \in Nat
        BY DEF IsScript
      <4>2. lock = [keys |-> Keys, threshold |-> script[1].n]
        BY <3>2
      <4> HIDE DEF lock
      <4>3. lock.keys = Keys
        BY <4>2
      <4>4. CASE Len(script) - 3 \in Nat
        <5>1. DOMAIN Keys = 1..(Len(script) - 3)
          OBVIOUS
        <5>2. Len(Keys) = Len(script) - 3
          BY <4>4
        <5> QED
          BY <4>3, <4>4, <5>1, <5>2
      <4>5. CASE Len(script) - 3 \notin Nat
        <5>1. 1..(Len(script) - 3) = 1..0
          BY <4>1, <4>5
        <5>2. DOMAIN Keys = 1..0
          BY <5>1
        <5>3. Keys \in Seq({})
          <6>1. Keys = [i \in 1..0 |-> Keys[i]]
            BY <5>1
          <6>2. \A i \in 1..0 : Keys[i] \in {}
            OBVIOUS
          <6> HIDE DEF Keys
          <6> QED
            BY <6>1, <6>2, IsASeq
        <5> HIDE DEF Keys
        <5>4. Len(Keys) = 0
          BY <5>2, <5>3
        <5> QED
          BY <4>3, <5>2, <5>4
      <4> QED
        BY <4>4, <4>5
    <3> QED
      BY <1>1, <3>1, <3>2
  <2>2. PICK n \in Nat : DOMAIN lock.keys = 1..n /\ Len(lock.keys) = n
    BY <2>1
  <2>3. PICK t : t = lock.threshold
    OBVIOUS
  <2>4. t \in 1..n /\ t \in Nat
    BY <1>4, <2>2, <2>3
  <2> HIDE DEF lock
  <2>5. ChunksOfKeys(script, lock.keys, n, t) /\ NoSigs(script)
    BY <1>4, <2>2, <2>3, KeysChunks
  <2> QED
    BY <2>2, <2>3, <2>4, <2>5, Zenon DEF lock
<1> QED
  <2>1. lock.threshold # 0
    OBVIOUS
  <2>2. \/ lock.threshold = 0
        \/ script = PublicKeyHashOut(lock.keys[1])
        \/ script = PublicKeyOut(lock.keys[1])
        \/ /\ lock.threshold \in 1..Len(lock.keys)
           /\ script = MultisigOut(lock.keys, lock.threshold)
    BY Zenon DEF IsStandard
  <2> QED
    BY <1>2, <1>3, <1>4, <2>1, <2>2, Zenon


LEMMA AuthorizedByKey ==
    ASSUME NEW G, NEW script, NEW k, Lock(script) = [keys |-> <<k>>, threshold |-> 1],
           NEW s \in G, s.by = k, s.over = Digest(Tx, s.type, 1, script)
    PROVE  AuthorizedBy(G, script)
<1>1. PICK keys : keys = Lock(script).keys /\ keys = <<k>>
  OBVIOUS
<1>2. Lock(script).threshold = 1
  OBVIOUS
<1>3. PICK S : S = {i \in DOMAIN keys : \E x \in G : /\ x.by = keys[i]
                                                     /\ x.over = Digest(Tx, x.type, 1, script)}
  OBVIOUS
<1>4. S = {1}
  <2>1. DOMAIN keys = {1} /\ keys[1] = k
    BY <1>1
  <2>2. 1 \in S
    BY <1>3, <2>1
  <2> QED
    BY <1>3, <2>1, <2>2
<1>5. Cardinality(S) = 1
  BY <1>4, FS_Singleton
<1> QED
  BY <1>1, <1>2, <1>3, <1>5 DEF AuthorizedBy

\* Keys of their own for as many signatures as the threshold: f says which.
KeysOfTheirOwn(f, G, script, t, n) ==
    /\ Lock(script).threshold = t /\ DOMAIN Lock(script).keys = 1..n
    /\ f \in [1..t -> 1..n] /\ \A i, j \in 1..t : i # j => f[i] # f[j]
    /\ \A i \in 1..t : \E s \in G : /\ s.by = Lock(script).keys[f[i]]
                                    /\ s.over = Digest(Tx, s.type, 1, script)

LEMMA AuthorizedByKeys ==
    ASSUME NEW G, NEW script, NEW n \in Nat, NEW t \in 1..n, NEW f,
           KeysOfTheirOwn(f, G, script, t, n)
    PROVE  AuthorizedBy(G, script)
<1> DEFINE S == {i \in DOMAIN Lock(script).keys :
                    \E s \in G : /\ s.by = Lock(script).keys[i]
                                 /\ s.over = Digest(Tx, s.type, 1, script)}
<1>0. /\ Lock(script).threshold = t /\ DOMAIN Lock(script).keys = 1..n
      /\ f \in [1..t -> 1..n] /\ \A i, j \in 1..t : i # j => f[i] # f[j]
      /\ \A i \in 1..t : \E s \in G : /\ s.by = Lock(script).keys[f[i]]
                                      /\ s.over = Digest(Tx, s.type, 1, script)
  BY Zenon DEF KeysOfTheirOwn
<1>1. IsFiniteSet(1..n) /\ S \in SUBSET (1..n)
  BY <1>0, FS_Interval
<1>2. IsFiniteSet(S)
  BY <1>1, FS_Subset
<1>3. \A i \in 1..t : f[i] \in S
  BY <1>0
<1> HIDE DEF S
<1>4. f \in [1..t -> S]
  BY <1>0, <1>3
<1>5. f \in Injection(1..t, S)
  BY <1>0, <1>4 DEF Injection, IsInjective
<1>6. Cardinality(1..t) <= Cardinality(S)
  BY <1>2, <1>5, FS_Injection
<1>7. Cardinality(1..t) = t
  <2>1. 1 \in Int /\ t \in Int /\ ~(1 > t) /\ t - 1 + 1 = t
    OBVIOUS
  <2>2. Cardinality(1..t) = IF 1 > t THEN 0 ELSE t - 1 + 1
    BY <2>1, FS_Interval, Zenon
  <2> QED
    BY <2>1, <2>2
<1>8. Cardinality(S) \in Nat
  BY <1>2, FS_CardinalityType
<1>9. Lock(script).threshold = t
  BY <1>0
<1> QED
  BY <1>6, <1>7, <1>8, <1>9 DEF AuthorizedBy, S

-----------------------------------------------------------------------------
(* Stacks after a step, item by item. *)

LEMMA AfterNone ==
    ASSUME NEW m, NEW n, NEW k \in Nat, Depth(m) \in Nat, Changed(m, n, k, <<>>)
    PROVE  /\ Depth(n) = Depth(m) - k
           /\ \A i \in 1..(Depth(m) - k) : Top(n, i) = Top(m, k + i)
           /\ n.vfExec = m.vfExec /\ n.pbegincodehash = m.pbegincodehash
<1>1. PICK items : items = <<>> /\ Len(items) = 0
  OBVIOUS
<1>2. Changed(m, n, k, items)
  BY <1>1
<1>3. \A i \in 1..(Depth(m) - k) : 0 + i = i
  OBVIOUS
<1> QED
  BY <1>1, <1>2, <1>3 DEF Changed

LEMMA AfterOne ==
    ASSUME NEW m, NEW n, NEW k \in Nat, NEW a, Depth(m) \in Nat, Changed(m, n, k, <<a>>)
    PROVE  /\ Depth(n) = (Depth(m) - k) + 1 /\ Top(n, 1) = a
           /\ \A i \in 1..(Depth(m) - k) : Top(n, 1 + i) = Top(m, k + i)
           /\ n.vfExec = m.vfExec /\ n.pbegincodehash = m.pbegincodehash
<1>1. PICK items : items = <<a>> /\ Len(items) = 1 /\ items[1] = a
  OBVIOUS
<1>2. Changed(m, n, k, items)
  BY <1>1
<1>3. 1 \in 1..1 /\ (1 - 1) + 1 = 1
  OBVIOUS
<1> QED
  BY <1>1, <1>2, <1>3 DEF Changed

LEMMA AfterTwo ==
    ASSUME NEW m, NEW n, NEW k \in Nat, NEW a, NEW b, Depth(m) \in Nat, Changed(m, n, k, <<a, b>>)
    PROVE  /\ Depth(n) = (Depth(m) - k) + 2 /\ Top(n, 1) = b /\ Top(n, 2) = a
           /\ \A i \in 1..(Depth(m) - k) : Top(n, 2 + i) = Top(m, k + i)
           /\ n.vfExec = m.vfExec /\ n.pbegincodehash = m.pbegincodehash
<1>1. PICK items : items = <<a, b>> /\ Len(items) = 2 /\ items[1] = a /\ items[2] = b
  OBVIOUS
<1>2. Changed(m, n, k, items)
  BY <1>1
<1>3. 1 \in 1..2 /\ 2 \in 1..2 /\ (2 - 1) + 1 = 2 /\ (2 - 2) + 1 = 1
  OBVIOUS
<1>4. Top(n, 1) = items[(2 - 1) + 1] /\ Top(n, 2) = items[(2 - 2) + 1]
  BY <1>1, <1>2, <1>3 DEF Changed
<1> QED
  BY <1>1, <1>2, <1>3, <1>4 DEF Changed

LEMMA LastIsTop ==
    ASSUME NEW G, NEW m, MachineOK(m, G)
    PROVE  Depth(m) \in Nat /\ Last(m.stack) = Top(m, 1)
<1>1. PICK d \in Nat : d = Depth(m) /\ d = Len(m.stack)
  BY StackFacts DEF MachineOK, Depth
<1>2. d - 1 + 1 = d
  OBVIOUS
<1> QED
  BY <1>1, <1>2 DEF Last, Top


-----------------------------------------------------------------------------
(* The standard scripts, chunk by chunk.  m has read pc chunks of the script; G are the   *)
(* signatures that the stack may hold.                                                    *)

\* What a script has answered when it ends.
Answered(m, script, G) == CastToBool(Last(m.stack)) => AuthorizedBy(G, script)

KeyHashTrace(m, k, script, G) ==
    /\ m.pc = 1 => Depth(m) >= 2 /\ Top(m, 1) = Top(m, 2)
    /\ m.pc = 2 => Depth(m) >= 2 /\ Top(m, 1) = Hash("HASH160", Top(m, 2))
    /\ m.pc = 3 => /\ Depth(m) >= 3 /\ Top(m, 1) = Hash("HASH160", Key(k))
                   /\ Top(m, 2) = Hash("HASH160", Top(m, 3))
    /\ m.pc = 4 => Depth(m) >= 1 /\ Top(m, 1) = Key(k)
    /\ m.pc = 5 => Answered(m, script, G)

SingleKeyTrace(m, k, script, G) ==
    /\ m.pc = 1 => Depth(m) >= 1 /\ Top(m, 1) = Key(k)
    /\ m.pc = 2 => Answered(m, script, G)

KeysTrace(m, n, t, script, G) ==
    LET keys == Lock(script).keys
    IN  /\ m.pc \in 1..(n + 1) =>
               /\ Depth(m) >= m.pc /\ Top(m, m.pc) = Num(t)
               /\ \A i \in 1..(m.pc - 1) : Top(m, i) = Key(keys[m.pc - i])
        /\ m.pc = n + 2 =>
               /\ Depth(m) >= n + 2 /\ Top(m, 1) = Num(n) /\ Top(m, n + 2) = Num(t)
               /\ \A i \in 1..n : Top(m, 1 + i) = Key(keys[(n + 1) - i])
        /\ m.pc = n + 3 => Answered(m, script, G)

\* A machine in the middle of a script that pushes no signature and opens no conditional.
Runs(m, script, G) ==
    /\ MachineOK(m, G) /\ m.failed = FALSE /\ m.script = script
    /\ m.tx = Tx /\ m.nin = 1
    /\ script \in Seq(ToSet(script)) /\ NoSigs(script)
    /\ m.vfExec = <<>> /\ m.pbegincodehash = 0

LEMMA Verdict ==
    ASSUME NEW b \in BOOLEAN, NEW x, x = Truth(b), CastToBool(x)
    PROVE  b = TRUE
<1>1. CASE b = FALSE
  <2>1. x = False
    BY <1>1 DEF Truth
  <2> QED
    BY <2>1 DEF CastToBool
<1> QED
  BY <1>1

\* OP_CHECKSIG at the end of a script of one key.
LEMMA OneKeyAnswers ==
    ASSUME NEW G, NEW script, NEW m, Runs(m, script, G), Step(m).failed = FALSE,
           CurrentChunk(m).op = "CHECKSIG", NEW k, Top(m, 1) = Key(k),
           Lock(script) = [keys |-> <<k>>, threshold |-> 1]
    PROVE  Answered(Step(m), script, G)
<1>1. Executing(m) /\ MachineOK(m, G) /\ m.script \in Seq(ToSet(script)) /\ NoSigs(m.script)
  BY DEF Runs, Executing
<1>2. PICK ok \in BOOLEAN : /\ Depth(m) >= 2
                            /\ Changed(m, Step(m), 2, <<Truth(ok)>>)
                            /\ ok => VerifySignature(Tx, Top(m, 2), Top(m, 1), 1, script)
  <2>1. m.pbegincodehash = 0 /\ m.tx = Tx /\ m.nin = 1 /\ m.script = script
    BY DEF Runs
  <2> QED
    BY <1>1, <2>1, StepCheckSig
<1>3. PICK a : a = Truth(ok)
  OBVIOUS
<1>4. PICK n : n = Step(m)
  OBVIOUS
<1>5. MachineOK(n, G) /\ Depth(m) \in Nat
  <2>1. MachineOK(Step(m), G)
    BY <1>1, StepKept
  <2> QED
    BY <1>1, <1>4, <2>1, LastIsTop
<1>6. Last(n.stack) = a
  <2>1. PICK two \in Nat : two = 2
    OBVIOUS
  <2>2. Changed(m, n, two, <<a>>)
    BY <1>2, <1>3, <1>4, <2>1
  <2>3. Depth(m) \in Nat
    BY <1>5
  <2>4. Top(n, 1) = a
    BY <2>2, <2>3, AfterOne
  <2> QED
    BY <1>5, <2>4, LastIsTop
<1>7. ASSUME CastToBool(a) PROVE AuthorizedBy(G, script)
  <2>1. VerifySignature(Tx, Top(m, 2), Key(k), 1, script)
    BY <1>2, <1>3, <1>7, Verdict
  <2>2. PICK s : s = Top(m, 2)
    OBVIOUS
  <2>3. IsSignature(s) /\ s.by = k /\ s.over = Digest(Tx, s.type, 1, script)
    <3>1. Key(k).key = k
      BY DEF Key
    <3> QED
      BY <2>1, <2>2, <3>1, Zenon DEF VerifySignature
  <2>4. s \in G
    <3>1. 2 \in 1..Depth(m)
      BY <1>2, <1>5
    <3> QED
      BY <1>1, <2>2, <2>3, <3>1, TopFacts
  <2> QED
    BY <2>3, <2>4, AuthorizedByKey
<1> QED
  BY <1>4, <1>6, <1>7, Zenon DEF Answered


\* One step of each of the three.
LEMMA KeyHashStep ==
    ASSUME NEW G, NEW script, NEW m, Runs(m, script, G), Step(m).failed = FALSE,
           NEW k, Lock(script) = [keys |-> <<k>>, threshold |-> 1],
           ChunksOfKeyHash(script, k), m.pc \in 0..4, KeyHashTrace(m, k, script, G)
    PROVE  /\ KeyHashTrace(Step(m), k, script, G)
           /\ m.pc < 4 => Step(m).vfExec = m.vfExec /\ Step(m).pbegincodehash = m.pbegincodehash
<1>1. Executing(m) /\ MachineOK(m, G) /\ m.script = script
  BY DEF Runs, Executing
<1>2. PICK d \in Nat : d = Depth(m)
  BY <1>1, LastIsTop
<1>3. PICK c : c = CurrentChunk(m)
  OBVIOUS
<1>4. PICK n : n = Step(m)
  OBVIOUS
<1>5. c = script[m.pc + 1]
  BY <1>1, <1>3 DEF CurrentChunk
<1>6. n.pc = m.pc + 1
  <2>1. c.op = "PUSH" => ~IsSignature(c.item)
    <3>1. m.pc + 1 \in DOMAIN script
      BY DEF ChunksOfKeyHash
    <3> QED
      BY <1>5, <3>1 DEF Runs, NoSigs
  <2>2. Step(m).pc = m.pc + 1
    BY <1>1, <1>3, <2>1, StepKept
  <2> QED
    BY <1>4, <2>2
<1>7. CASE m.pc = 0
  <2>1. c.op = "DUP"
    BY <1>5, <1>7 DEF ChunksOfKeyHash
  <2>2. d >= 1 /\ Changed(m, n, 1, <<Top(m, 1), Top(m, 1)>>)
    BY <1>1, <1>2, <1>3, <1>4, <2>1, StepPlain
  <2>3. /\ Depth(n) = (d - 1) + 2 /\ Top(n, 1) = Top(m, 1) /\ Top(n, 2) = Top(m, 1)
        /\ n.vfExec = m.vfExec /\ n.pbegincodehash = m.pbegincodehash
    BY <1>2, <2>2, AfterTwo
  <2> QED
    BY <1>2, <1>4, <1>6, <1>7, <2>2, <2>3 DEF KeyHashTrace
<1>8. CASE m.pc = 1
  <2>1. c.op = "HASH160"
    BY <1>5, <1>8 DEF ChunksOfKeyHash
  <2>2. d >= 2 /\ Top(m, 1) = Top(m, 2)
    BY <1>2, <1>8 DEF KeyHashTrace
  <2>3. PICK a : a = Hash("HASH160", Top(m, 1))
    OBVIOUS
  <2>4. Changed(m, n, 1, <<a>>)
    BY <1>1, <1>3, <1>4, <2>1, <2>3, StepPlain
  <2>5. /\ Depth(n) = (d - 1) + 1 /\ Top(n, 1) = a
        /\ \A i \in 1..(d - 1) : Top(n, 1 + i) = Top(m, 1 + i)
        /\ n.vfExec = m.vfExec /\ n.pbegincodehash = m.pbegincodehash
    BY <1>2, <2>4, AfterOne
  <2>6. Top(n, 2) = Top(m, 2)
    <3>1. 1 \in 1..(d - 1) /\ 1 + 1 = 2
      BY <1>2, <2>2
    <3> QED
      BY <2>5, <3>1
  <2> QED
    BY <1>2, <1>4, <1>6, <1>8, <2>2, <2>3, <2>5, <2>6 DEF KeyHashTrace
<1>9. CASE m.pc = 2
  <2>1. c.op = "PUSH" /\ c.item = Hash("HASH160", Key(k))
    BY <1>5, <1>9 DEF ChunksOfKeyHash
  <2>2. d >= 2 /\ Top(m, 1) = Hash("HASH160", Top(m, 2))
    BY <1>2, <1>9 DEF KeyHashTrace
  <2>3. PICK a : a = Hash("HASH160", Key(k))
    OBVIOUS
  <2>4. ~IsSignature(a)
    BY <2>3, NoSignatures
  <2>5. Changed(m, n, 0, <<a>>)
    BY <1>1, <1>3, <1>4, <2>1, <2>3, <2>4, StepPushes
  <2>6. /\ Depth(n) = (d - 0) + 1 /\ Top(n, 1) = a
        /\ \A i \in 1..(d - 0) : Top(n, 1 + i) = Top(m, 0 + i)
        /\ n.vfExec = m.vfExec /\ n.pbegincodehash = m.pbegincodehash
    BY <1>2, <2>5, AfterOne
  <2>7. Top(n, 2) = Top(m, 1) /\ Top(n, 3) = Top(m, 2)
    <3>1. 1 \in 1..(d - 0) /\ 1 + 1 = 2 /\ 2 \in 1..(d - 0) /\ 1 + 2 = 3 /\ 0 + 1 = 1 /\ 0 + 2 = 2
      BY <1>2, <2>2
    <3> QED
      BY <2>6, <3>1
  <2> QED
    BY <1>2, <1>4, <1>6, <1>9, <2>2, <2>3, <2>6, <2>7 DEF KeyHashTrace
<1>10. CASE m.pc = 3
  <2>1. c.op = "EQUALVERIFY"
    BY <1>5, <1>10 DEF ChunksOfKeyHash
  <2>2. /\ d >= 3 /\ Top(m, 1) = Hash("HASH160", Key(k))
        /\ Top(m, 2) = Hash("HASH160", Top(m, 3))
    BY <1>2, <1>10 DEF KeyHashTrace
  <2>3. Top(m, 2) = Top(m, 1) /\ Changed(m, n, 2, <<>>)
    BY <1>1, <1>3, <1>4, <2>1, StepPlain
  <2>4. Top(m, 3) = Key(k)
    BY <2>2, <2>3 DEF Hash
  <2>5. /\ Depth(n) = d - 2
        /\ \A i \in 1..(d - 2) : Top(n, i) = Top(m, 2 + i)
        /\ n.vfExec = m.vfExec /\ n.pbegincodehash = m.pbegincodehash
    BY <1>2, <2>3, AfterNone
  <2>6. Top(n, 1) = Top(m, 3)
    <3>1. 1 \in 1..(d - 2) /\ 2 + 1 = 3
      BY <1>2, <2>2
    <3> QED
      BY <2>5, <3>1
  <2> QED
    BY <1>2, <1>4, <1>6, <1>10, <2>2, <2>4, <2>5, <2>6 DEF KeyHashTrace
<1>11. CASE m.pc = 4
  <2>1. c.op = "CHECKSIG"
    BY <1>5, <1>11 DEF ChunksOfKeyHash
  <2>2. Top(m, 1) = Key(k)
    BY <1>11 DEF KeyHashTrace
  <2>3. Answered(n, script, G)
    BY <1>3, <1>4, <2>1, <2>2, OneKeyAnswers
  <2> QED
    BY <1>4, <1>6, <1>11, <2>3 DEF KeyHashTrace
<1> QED
  BY <1>7, <1>8, <1>9, <1>10, <1>11

LEMMA SingleKeyStep ==
    ASSUME NEW G, NEW script, NEW m, Runs(m, script, G), Step(m).failed = FALSE,
           NEW k, Lock(script) = [keys |-> <<k>>, threshold |-> 1],
           ChunksOfKey(script, k), m.pc \in 0..1, SingleKeyTrace(m, k, script, G)
    PROVE  /\ SingleKeyTrace(Step(m), k, script, G)
           /\ m.pc < 1 => Step(m).vfExec = m.vfExec /\ Step(m).pbegincodehash = m.pbegincodehash
<1>1. Executing(m) /\ MachineOK(m, G) /\ m.script = script
  BY DEF Runs, Executing
<1>2. PICK d \in Nat : d = Depth(m)
  BY <1>1, LastIsTop
<1>3. PICK c : c = CurrentChunk(m)
  OBVIOUS
<1>4. PICK n : n = Step(m)
  OBVIOUS
<1>5. c = script[m.pc + 1]
  BY <1>1, <1>3 DEF CurrentChunk
<1>6. n.pc = m.pc + 1
  <2>1. c.op = "PUSH" => ~IsSignature(c.item)
    <3>1. m.pc + 1 \in DOMAIN script
      BY DEF ChunksOfKey
    <3> QED
      BY <1>5, <3>1 DEF Runs, NoSigs
  <2>2. Step(m).pc = m.pc + 1
    BY <1>1, <1>3, <2>1, StepKept
  <2> QED
    BY <1>4, <2>2
<1>7. CASE m.pc = 0
  <2>1. c.op = "PUSH" /\ c.item = Key(k)
    BY <1>5, <1>7 DEF ChunksOfKey
  <2>2. PICK a : a = Key(k)
    OBVIOUS
  <2>3. ~IsSignature(a)
    BY <2>2 DEF IsSignature, IsA, Key
  <2>4. Changed(m, n, 0, <<a>>)
    BY <1>1, <1>3, <1>4, <2>1, <2>2, <2>3, StepPushes
  <2>5. /\ Depth(n) = (d - 0) + 1 /\ Top(n, 1) = a
        /\ n.vfExec = m.vfExec /\ n.pbegincodehash = m.pbegincodehash
    BY <1>2, <2>4, AfterOne
  <2> QED
    BY <1>2, <1>4, <1>6, <1>7, <2>2, <2>5 DEF SingleKeyTrace
<1>8. CASE m.pc = 1
  <2>1. c.op = "CHECKSIG"
    BY <1>5, <1>8 DEF ChunksOfKey
  <2>2. Top(m, 1) = Key(k)
    BY <1>8 DEF SingleKeyTrace
  <2>3. Answered(n, script, G)
    BY <1>3, <1>4, <2>1, <2>2, OneKeyAnswers
  <2> QED
    BY <1>4, <1>6, <1>8, <2>3 DEF SingleKeyTrace
<1> QED
  BY <1>7, <1>8


\* OP_CHECKMULTISIG at the end of a script of n keys.
LEMMA KeysAnswer ==
    ASSUME NEW G, NEW script, NEW m, Runs(m, script, G), Step(m).failed = FALSE,
           CurrentChunk(m).op = "CHECKMULTISIG", NEW n \in Nat, NEW t \in 1..n,
           Lock(script).threshold = t, DOMAIN Lock(script).keys = 1..n,
           Top(m, 1) = Num(n), Top(m, n + 2) = Num(t),
           \A i \in 1..n : Top(m, 1 + i) = Key(Lock(script).keys[(n + 1) - i])
    PROVE  Answered(Step(m), script, G)
<1> DEFINE keys == Lock(script).keys
           Sigs == MultisigSigs(m)
           Keys == MultisigKeys(m)
<1>1. Executing(m) /\ MachineOK(m, G) /\ m.script \in Seq(ToSet(script)) /\ NoSigs(m.script)
  BY DEF Runs, Executing
<1>2. /\ m.pbegincodehash = 0 /\ m.tx = Tx /\ m.nin = 1 /\ m.script = script
  BY DEF Runs
<1>3. /\ NKeys(m) + NSigs(m) + 3 <= Depth(m)
      /\ Last(Step(m).stack) \in {True, False}
      /\ Last(Step(m).stack) = True => Matching(Sigs, Keys, m, script)
  BY <1>1, <1>2, StepMultisig
<1>4. NKeys(m) = n /\ NSigs(m) = t
  <2>1. \A x : NumberOf(Num(x)) = x
    BY DEF NumberOf, Num, NegativeZero
  <2>2. NKeys(m) = n
    BY <2>1 DEF NKeys
  <2> QED
    BY <2>1, <2>2 DEF NSigs
<1>5. Depth(m) \in Nat
  BY <1>1, LastIsTop
<1>6. /\ DOMAIN Sigs = 1..t /\ \A i \in 1..t : Sigs[i] = Top(m, n + 3 + i - 1)
      /\ DOMAIN Keys = 1..n /\ \A j \in 1..n : Keys[j] = Top(m, 2 + j - 1)
  BY <1>4 DEF MultisigSigs, MultisigKeys, Items
<1>7. \A i \in 1..t : IsSignature(Sigs[i]) => Sigs[i] \in G
  <2> SUFFICES ASSUME NEW i \in 1..t, IsSignature(Sigs[i]) PROVE Sigs[i] \in G
    OBVIOUS
  <2>1. PICK p \in 1..Depth(m) : p = n + 3 + i - 1
    <3>1. n + 3 + i - 1 \in 1..Depth(m)
      BY <1>3, <1>4, <1>5
    <3> QED
      BY <3>1
  <2>2. Sigs[i] = Top(m, p)
    BY <1>6, <2>1
  <2> HIDE DEF Sigs
  <2> QED
    BY <1>1, <2>2, TopFacts
<1>8. \A j \in 1..n : (n + 1) - j \in 1..n /\ Keys[j] = Key(keys[(n + 1) - j])
  <2> SUFFICES ASSUME NEW j \in 1..n
               PROVE  (n + 1) - j \in 1..n /\ Keys[j] = Key(keys[(n + 1) - j])
    OBVIOUS
  <2>1. 2 + j - 1 = 1 + j /\ (n + 1) - j \in 1..n
    <3>1. 2 + j - 1 = 1 + j
      OBVIOUS
    <3>2. (n + 1) - j \in 1..n
      OBVIOUS
    <3> QED
      BY <3>1, <3>2
  <2>2. Keys[j] = Top(m, 1 + j)
    BY <1>6, <2>1
  <2> HIDE DEF Keys
  <2> QED
    BY <2>1, <2>2
<1> HIDE DEF Sigs, Keys
<1>9. ASSUME Matching(Sigs, Keys, m, script) PROVE AuthorizedBy(G, script)
  <2>1. PICK f \in [1..t -> 1..n] :
            /\ \A i, j \in 1..t : i < j => f[i] < f[j]
            /\ \A i \in 1..t : VerifySignature(m.tx, Sigs[i], Keys[f[i]], m.nin, script)
    BY <1>6, <1>9, Zenon DEF Matching
  <2>2. PICK g : g = [i \in 1..t |-> (n + 1) - f[i]]
    OBVIOUS
  <2>3. g \in [1..t -> 1..n] /\ \A i \in 1..t : g[i] = (n + 1) - f[i] /\ f[i] \in 1..n
    BY <1>8, <2>2
  <2>4. \A i, j \in 1..t : i # j => g[i] # g[j]
    <3> SUFFICES ASSUME NEW i \in 1..t, NEW j \in 1..t, i # j PROVE g[i] # g[j]
      OBVIOUS
    <3>0. PICK u \in 1..n, v \in 1..n : u = f[i] /\ v = f[j]
      BY <2>1
    <3>1. CASE i < j
      <4>1. u < v
        BY <2>1, <3>0, <3>1
      <4> QED
        BY <2>3, <3>0, <4>1
    <3>2. CASE j < i
      <4>1. v < u
        BY <2>1, <3>0, <3>2
      <4> QED
        BY <2>3, <3>0, <4>1
    <3> QED
      BY <3>1, <3>2
  <2>5. \A i \in 1..t : \E s \in G : /\ s.by = keys[g[i]]
                                     /\ s.over = Digest(Tx, s.type, 1, script)
    <3> SUFFICES ASSUME NEW i \in 1..t
                 PROVE  \E s \in G : s.by = keys[g[i]] /\ s.over = Digest(Tx, s.type, 1, script)
      OBVIOUS
    <3>1. PICK s : s = Sigs[i]
      OBVIOUS
    <3>2. PICK key : key = keys[g[i]]
      OBVIOUS
    <3>3. Keys[f[i]] = Key(key)
      BY <1>8, <2>3, <3>2
    <3>4. VerifySignature(Tx, s, Key(key), 1, script)
      BY <1>2, <2>1, <3>1, <3>3
    <3>5. IsSignature(s) /\ s.by = key /\ s.over = Digest(Tx, s.type, 1, script)
      <4>1. Key(key).key = key
        BY DEF Key
      <4> QED
        BY <3>4, <4>1, Zenon DEF VerifySignature
    <3>6. s \in G
      BY <1>7, <3>1, <3>5
    <3> QED
      BY <3>2, <3>5, <3>6, Zenon
  <2>6. Lock(script).threshold = t /\ DOMAIN Lock(script).keys = 1..n
    OBVIOUS
  <2>7. \A i \in 1..t : \E s \in G : /\ s.by = Lock(script).keys[g[i]]
                                     /\ s.over = Digest(Tx, s.type, 1, script)
    BY <2>5
  <2>8. KeysOfTheirOwn(g, G, script, t, n)
    BY <2>3, <2>4, <2>6, <2>7, Zenon DEF KeysOfTheirOwn
  <2> QED
    BY <2>8, AuthorizedByKeys
<1>10. CASE Last(Step(m).stack) = False
  BY <1>10 DEF Answered, CastToBool
<1>11. CASE Last(Step(m).stack) = True
  BY <1>3, <1>9, <1>11 DEF Answered
<1> QED
  BY <1>3, <1>10, <1>11

LEMMA KeysStep ==
    ASSUME NEW G, NEW script, NEW m, Runs(m, script, G), Step(m).failed = FALSE,
           NEW n \in Nat, NEW t \in 1..n,
           Lock(script).threshold = t, DOMAIN Lock(script).keys = 1..n,
           ChunksOfKeys(script, Lock(script).keys, n, t), m.pc \in 0..(n + 2),
           KeysTrace(m, n, t, script, G)
    PROVE  /\ KeysTrace(Step(m), n, t, script, G)
           /\ m.pc < n + 2 => /\ Step(m).vfExec = m.vfExec
                              /\ Step(m).pbegincodehash = m.pbegincodehash
<1> DEFINE keys == Lock(script).keys
<1>1. Executing(m) /\ MachineOK(m, G) /\ m.script = script
  BY DEF Runs, Executing
<1>2. PICK d \in Nat : d = Depth(m)
  BY <1>1, LastIsTop
<1>3. PICK c : c = CurrentChunk(m)
  OBVIOUS
<1>4. PICK z : z = Step(m)
  OBVIOUS
<1>5. c = script[m.pc + 1]
  BY <1>1, <1>3 DEF CurrentChunk
<1>6. z.pc = m.pc + 1
  <2>1. c.op = "PUSH" => ~IsSignature(c.item)
    <3>1. m.pc + 1 \in DOMAIN script
      BY DEF ChunksOfKeys
    <3> QED
      BY <1>5, <3>1 DEF Runs, NoSigs
  <2>2. Step(m).pc = m.pc + 1
    BY <1>1, <1>3, <2>1, StepKept
  <2> QED
    BY <1>4, <2>2
<1>7. PICK p \in 0..(n + 2) : p = m.pc
  OBVIOUS
\* What pushing does to the stack.
<1>8. ASSUME NEW a, Changed(m, z, 0, <<a>>)
      PROVE  /\ Depth(z) = d + 1 /\ Top(z, 1) = a
             /\ \A i \in 1..d : Top(z, 1 + i) = Top(m, i)
             /\ z.vfExec = m.vfExec /\ z.pbegincodehash = m.pbegincodehash
  <2>1. /\ Depth(z) = (d - 0) + 1 /\ Top(z, 1) = a
        /\ \A i \in 1..(d - 0) : Top(z, 1 + i) = Top(m, 0 + i)
        /\ z.vfExec = m.vfExec /\ z.pbegincodehash = m.pbegincodehash
    BY <1>2, <1>8, AfterOne
  <2>2. d - 0 = d /\ \A i \in 1..d : 0 + i = i
    BY <1>2
  <2> QED
    BY <2>1, <2>2
<1>9. CASE p = 0
  <2>1. c.op = "SMALLINT" /\ c.n = t
    BY <1>5, <1>7, <1>9 DEF ChunksOfKeys
  <2>2. PICK a : a = Num(t)
    OBVIOUS
  <2>3. Changed(m, z, 0, <<a>>)
    BY <1>1, <1>3, <1>4, <2>1, <2>2, StepPushes
  <2>4. /\ Depth(z) = d + 1 /\ Top(z, 1) = a
        /\ z.vfExec = m.vfExec /\ z.pbegincodehash = m.pbegincodehash
    BY <1>8, <2>3
  <2>5. z.pc = 1
    BY <1>6, <1>7, <1>9
  <2> QED
    BY <1>2, <1>4, <2>2, <2>4, <2>5 DEF KeysTrace
<1>10. CASE p \in 1..n
  <2>1. c.op = "PUSH" /\ c.item = Key(keys[p])
    <3>1. m.pc + 1 = 1 + p
      BY <1>7
    <3> QED
      BY <1>5, <1>10, <3>1 DEF ChunksOfKeys
  <2>2. PICK a : a = Key(keys[p])
    OBVIOUS
  <2>3. ~IsSignature(a)
    BY <2>2 DEF IsSignature, IsA, Key
  <2>4. Changed(m, z, 0, <<a>>)
    BY <1>1, <1>3, <1>4, <2>1, <2>2, <2>3, StepPushes
  <2>5. /\ Depth(z) = d + 1 /\ Top(z, 1) = a
        /\ \A i \in 1..d : Top(z, 1 + i) = Top(m, i)
        /\ z.vfExec = m.vfExec /\ z.pbegincodehash = m.pbegincodehash
    BY <1>8, <2>4
  <2>6. /\ d >= p /\ Top(m, p) = Num(t)
        /\ \A i \in 1..(p - 1) : Top(m, i) = Key(keys[p - i])
    <3>1. m.pc \in 1..(n + 1)
      BY <1>7, <1>10
    <3>2. /\ Depth(m) >= m.pc /\ Top(m, m.pc) = Num(t)
          /\ \A i \in 1..(m.pc - 1) : Top(m, i) = Key(keys[m.pc - i])
      BY <3>1 DEF KeysTrace
    <3> QED
      BY <1>2, <1>7, <3>2
  <2>7. z.pc = p + 1 /\ z.pc \in 1..(n + 1) /\ Depth(z) >= p + 1
    BY <1>2, <1>6, <1>7, <1>10, <2>5, <2>6
  <2>8. Top(z, p + 1) = Num(t)
    <3>1. p \in 1..d /\ 1 + p = p + 1
      BY <1>2, <1>10, <2>6
    <3> QED
      BY <2>5, <2>6, <3>1
  <2>9. \A i \in 1..p : Top(z, i) = Key(keys[(p + 1) - i])
    <3> SUFFICES ASSUME NEW i \in 1..p PROVE Top(z, i) = Key(keys[(p + 1) - i])
      OBVIOUS
    <3>1. CASE i = 1
      <4>1. (p + 1) - i = p
        BY <3>1
      <4> QED
        BY <2>2, <2>5, <3>1, <4>1
    <3>2. CASE i # 1
      <4>1. PICK j \in 1..(p - 1) : i = 1 + j
        BY <3>2
      <4>2. j \in 1..d /\ (p + 1) - i = p - j
        BY <1>2, <2>6, <4>1
      <4> QED
        BY <2>5, <2>6, <4>1, <4>2
    <3> QED
      BY <3>1, <3>2
  <2>10. (p + 1) - 1 = p
    OBVIOUS
  <2>11. z.pc # n + 2 /\ z.pc # n + 3
    BY <2>7
  <2> QED
    BY <1>4, <2>5, <2>7, <2>8, <2>9, <2>10, <2>11 DEF KeysTrace
<1>11. CASE p = n + 1
  <2>1. c.op = "SMALLINT" /\ c.n = n
    <3>1. m.pc + 1 = n + 2
      BY <1>7, <1>11
    <3> QED
      BY <1>5, <3>1 DEF ChunksOfKeys
  <2>2. PICK a : a = Num(n)
    OBVIOUS
  <2>3. Changed(m, z, 0, <<a>>)
    BY <1>1, <1>3, <1>4, <2>1, <2>2, StepPushes
  <2>4. /\ Depth(z) = d + 1 /\ Top(z, 1) = a
        /\ \A i \in 1..d : Top(z, 1 + i) = Top(m, i)
        /\ z.vfExec = m.vfExec /\ z.pbegincodehash = m.pbegincodehash
    BY <1>8, <2>3
  <2>5. /\ d >= n + 1 /\ Top(m, n + 1) = Num(t)
        /\ \A i \in 1..((n + 1) - 1) : Top(m, i) = Key(keys[(n + 1) - i])
    BY <1>2, <1>7, <1>11 DEF KeysTrace
  <2>6. z.pc = n + 2 /\ Depth(z) >= n + 2
    BY <1>2, <1>6, <1>7, <1>11, <2>4, <2>5
  <2>7. Top(z, n + 2) = Num(t)
    <3>1. n + 1 \in 1..d /\ 1 + (n + 1) = n + 2
      BY <1>2, <2>5
    <3> QED
      BY <2>4, <2>5, <3>1
  <2>8. \A i \in 1..n : Top(z, 1 + i) = Key(keys[(n + 1) - i])
    <3> SUFFICES ASSUME NEW i \in 1..n PROVE Top(z, 1 + i) = Key(keys[(n + 1) - i])
      OBVIOUS
    <3>1. i \in 1..d /\ i \in 1..((n + 1) - 1)
      BY <1>2, <2>5
    <3> QED
      BY <2>4, <2>5, <3>1
  <2>9. z.pc \notin 1..(n + 1) /\ z.pc # n + 3
    BY <2>6
  <2> QED
    BY <1>4, <2>2, <2>4, <2>6, <2>7, <2>8, <2>9 DEF KeysTrace
<1>12. CASE p = n + 2
  <2>1. c.op = "CHECKMULTISIG"
    <3>1. m.pc + 1 = n + 3
      BY <1>7, <1>12
    <3> QED
      BY <1>5, <3>1 DEF ChunksOfKeys
  <2>2. /\ Top(m, 1) = Num(n) /\ Top(m, n + 2) = Num(t)
        /\ \A i \in 1..n : Top(m, 1 + i) = Key(keys[(n + 1) - i])
    BY <1>7, <1>12 DEF KeysTrace
  <2>3. Answered(z, script, G)
    BY <1>3, <1>4, <2>1, <2>2, KeysAnswer
  <2>4. z.pc = n + 3 /\ z.pc # n + 2 /\ z.pc \notin 1..(n + 1) /\ ~(m.pc < n + 2)
    BY <1>6, <1>7, <1>12
  <2> QED
    BY <1>4, <2>3, <2>4 DEF KeysTrace
<1> QED
  <2>1. p = 0 \/ p \in 1..n \/ p = n + 1 \/ p = n + 2
    OBVIOUS
  <2> QED
    BY <1>9, <1>10, <1>11, <1>12, <2>1


\* Where a machine is in a script that wants keys.
KeyTrace(m, script, G) ==
    /\ NoSigs(script)
    /\ \/ \E k : /\ Lock(script) = [keys |-> <<k>>, threshold |-> 1]
                 /\ ChunksOfKeyHash(script, k) /\ KeyHashTrace(m, k, script, G)
       \/ \E k : /\ Lock(script) = [keys |-> <<k>>, threshold |-> 1]
                 /\ ChunksOfKey(script, k) /\ SingleKeyTrace(m, k, script, G)
       \/ \E n \in Nat, t \in Nat :
              /\ t \in 1..n /\ Lock(script).threshold = t
              /\ DOMAIN Lock(script).keys = 1..n
              /\ ChunksOfKeys(script, Lock(script).keys, n, t)
              /\ KeysTrace(m, n, t, script, G)

LEMMA KeyTraceStarts ==
    ASSUME NEW G, NEW script, IsScript(script), IsStandard(script),
           Lock(script).threshold # 0, NEW m, m.pc = 0
    PROVE  KeyTrace(m, script, G)
<1>1. /\ \A k : KeyHashTrace(m, k, script, G) /\ SingleKeyTrace(m, k, script, G)
      /\ \A n \in Nat, t \in Nat : KeysTrace(m, n, t, script, G)
  BY DEF KeyHashTrace, SingleKeyTrace, KeysTrace
<1> QED
  BY <1>1, StandardIs, Zenon DEF KeyTrace

LEMMA KeyTraceEnds ==
    ASSUME NEW G, NEW script, NEW m, m.pc = Len(script), KeyTrace(m, script, G)
    PROVE  Answered(m, script, G)
<1>1. ASSUME NEW k, ChunksOfKeyHash(script, k), KeyHashTrace(m, k, script, G)
      PROVE  Answered(m, script, G)
  BY <1>1 DEF ChunksOfKeyHash, KeyHashTrace
<1>2. ASSUME NEW k, ChunksOfKey(script, k), SingleKeyTrace(m, k, script, G)
      PROVE  Answered(m, script, G)
  BY <1>2 DEF ChunksOfKey, SingleKeyTrace
<1>3. ASSUME NEW n \in Nat, NEW t \in Nat, ChunksOfKeys(script, Lock(script).keys, n, t),
             KeysTrace(m, n, t, script, G)
      PROVE  Answered(m, script, G)
  BY <1>3 DEF ChunksOfKeys, KeysTrace
<1> QED
  BY <1>1, <1>2, <1>3, Zenon DEF KeyTrace

LEMMA KeyTraceStep ==
    ASSUME NEW G, NEW script, NEW m, Runs(m, script, G), Step(m).failed = FALSE,
           NEW p \in 0..(Len(script) - 1), m.pc = p, KeyTrace(m, script, G)
    PROVE  /\ KeyTrace(Step(m), script, G)
           /\ p + 1 < Len(script) => /\ Step(m).vfExec = <<>>
                                     /\ Step(m).pbegincodehash = 0
<1> DEFINE Same == Step(m).vfExec = m.vfExec /\ Step(m).pbegincodehash = m.pbegincodehash
<1>0. m.vfExec = <<>> /\ m.pbegincodehash = 0 /\ NoSigs(script)
  BY DEF Runs
<1>1. ASSUME NEW k, Lock(script) = [keys |-> <<k>>, threshold |-> 1],
             ChunksOfKeyHash(script, k), KeyHashTrace(m, k, script, G)
      PROVE  /\ KeyTrace(Step(m), script, G)
             /\ p + 1 < Len(script) => Same
  <2>1. m.pc \in 0..4 /\ (p + 1 < Len(script) => m.pc < 4)
    BY <1>1 DEF ChunksOfKeyHash
  <2>2. KeyHashTrace(Step(m), k, script, G) /\ (m.pc < 4 => Same)
    BY <1>1, <2>1, KeyHashStep
  <2>3. KeyTrace(Step(m), script, G)
    BY <1>0, <1>1, <2>2, Zenon DEF KeyTrace
  <2> QED
    BY <2>1, <2>2, <2>3
<1>2. ASSUME NEW k, Lock(script) = [keys |-> <<k>>, threshold |-> 1],
             ChunksOfKey(script, k), SingleKeyTrace(m, k, script, G)
      PROVE  /\ KeyTrace(Step(m), script, G)
             /\ p + 1 < Len(script) => Same
  <2>1. m.pc \in 0..1 /\ (p + 1 < Len(script) => m.pc < 1)
    BY <1>2 DEF ChunksOfKey
  <2>2. SingleKeyTrace(Step(m), k, script, G) /\ (m.pc < 1 => Same)
    BY <1>2, <2>1, SingleKeyStep
  <2>3. KeyTrace(Step(m), script, G)
    BY <1>0, <1>2, <2>2, Zenon DEF KeyTrace
  <2> QED
    BY <2>1, <2>2, <2>3
<1>3. ASSUME NEW n \in Nat, NEW t \in Nat, t \in 1..n, Lock(script).threshold = t,
             DOMAIN Lock(script).keys = 1..n,
             ChunksOfKeys(script, Lock(script).keys, n, t), KeysTrace(m, n, t, script, G)
      PROVE  /\ KeyTrace(Step(m), script, G)
             /\ p + 1 < Len(script) => Same
  <2>1. m.pc \in 0..(n + 2) /\ (p + 1 < Len(script) => m.pc < n + 2)
    <3>1. Len(script) = n + 3
      BY <1>3 DEF ChunksOfKeys
    <3> QED
      BY <3>1
  <2>2. KeysTrace(Step(m), n, t, script, G) /\ (m.pc < n + 2 => Same)
    BY <1>3, <2>1, KeysStep
  <2>3. KeyTrace(Step(m), script, G)
    BY <1>0, <1>3, <2>2, Zenon DEF KeyTrace
  <2> QED
    BY <2>1, <2>2, <2>3
<1>4. KeyTrace(Step(m), script, G) /\ (p + 1 < Len(script) => Same)
  <2> HIDE DEF Same
  <2> QED
    BY <1>1, <1>2, <1>3, Zenon DEF KeyTrace
<1> QED
  BY <1>0, <1>4

-----------------------------------------------------------------------------
(* The script of an output to a script hash: stack is what the input left. *)

ChunksOfHash(script, redeem) ==
    /\ Len(script) = 3 /\ DOMAIN script = 1..3
    /\ script[1].op = "HASH160" /\ script[2].op = "PUSH" /\ script[3].op = "EQUAL"
    /\ script[2].item = Hash("HASH160", Serialized(redeem))

HashTrace(m, stack, redeem) ==
    /\ m.pc = 0 => m.stack = stack
    /\ m.pc = 1 => Depth(m) >= 1 /\ Top(m, 1) = Hash("HASH160", Last(stack))
    /\ m.pc = 2 => /\ Depth(m) >= 2 /\ Top(m, 1) = Hash("HASH160", Serialized(redeem))
                   /\ Top(m, 2) = Hash("HASH160", Last(stack))
    /\ m.pc = 3 => (CastToBool(Last(m.stack)) => Last(stack) = Serialized(redeem))

LEMMA HashChunks ==
    ASSUME NEW script, script \in Seq(ToSet(script)), IsScriptHashOut(script), NEW redeem,
           script[2].item = Hash("HASH160", Serialized(redeem))
    PROVE  ChunksOfHash(script, redeem) /\ NoSigs(script)
<1>1. DOMAIN script = 1..Len(script) /\ Len(script) \in Nat
  OBVIOUS
<1>2. Ops(script) = <<"HASH160", "PUSH", "EQUAL">>
  BY DEF IsScriptHashOut
<1>3. DOMAIN Ops(script) = 1..3
  BY <1>2
<1>4. Len(script) = 3 /\ DOMAIN script = 1..3
  BY <1>1, <1>3 DEF Ops
<1>5. script[1].op = "HASH160" /\ script[2].op = "PUSH" /\ script[3].op = "EQUAL"
  BY <1>2, <1>4 DEF Ops
<1>6. \A i \in 1..3 : script[i].op = "PUSH" => i = 2
  BY <1>5
<1>7. NoSigs(script)
  BY <1>4, <1>6, NoSignatures DEF NoSigs
<1> QED
  BY <1>4, <1>5, <1>7 DEF ChunksOfHash

LEMMA HashStep ==
    ASSUME NEW G, NEW script, NEW m, Runs(m, script, G), Step(m).failed = FALSE,
           NEW stack, NEW redeem, ChunksOfHash(script, redeem), m.pc \in 0..2,
           HashTrace(m, stack, redeem)
    PROVE  /\ HashTrace(Step(m), stack, redeem)
           /\ Step(m).vfExec = m.vfExec /\ Step(m).pbegincodehash = m.pbegincodehash
<1>1. Executing(m) /\ MachineOK(m, G) /\ m.script = script
  BY DEF Runs, Executing
<1>2. PICK d \in Nat : d = Depth(m)
  BY <1>1, LastIsTop
<1>3. PICK c : c = CurrentChunk(m)
  OBVIOUS
<1>4. PICK n : n = Step(m)
  OBVIOUS
<1>5. c = script[m.pc + 1]
  BY <1>1, <1>3 DEF CurrentChunk
<1>6. n.pc = m.pc + 1 /\ MachineOK(n, G)
  <2>1. c.op = "PUSH" => ~IsSignature(c.item)
    <3>1. m.pc + 1 \in DOMAIN script
      BY DEF ChunksOfHash
    <3> QED
      BY <1>5, <3>1 DEF Runs, NoSigs
  <2>2. Step(m).pc = m.pc + 1 /\ MachineOK(Step(m), G)
    BY <1>1, <1>3, <2>1, StepKept
  <2> QED
    BY <1>4, <2>2
<1>7. CASE m.pc = 0
  <2>1. c.op = "HASH160"
    BY <1>5, <1>7 DEF ChunksOfHash
  <2>2. Top(m, 1) = Last(stack)
    BY <1>1, <1>7, LastIsTop DEF HashTrace
  <2>3. PICK a : a = Hash("HASH160", Top(m, 1))
    OBVIOUS
  <2>4. d >= 1 /\ Changed(m, n, 1, <<a>>)
    BY <1>1, <1>2, <1>3, <1>4, <2>1, <2>3, StepPlain
  <2>5. /\ Depth(n) = (d - 1) + 1 /\ Top(n, 1) = a
        /\ n.vfExec = m.vfExec /\ n.pbegincodehash = m.pbegincodehash
    BY <1>2, <2>4, AfterOne
  <2> QED
    BY <1>2, <1>4, <1>6, <1>7, <2>2, <2>3, <2>4, <2>5 DEF HashTrace
<1>8. CASE m.pc = 1
  <2>1. c.op = "PUSH" /\ c.item = Hash("HASH160", Serialized(redeem))
    BY <1>5, <1>8 DEF ChunksOfHash
  <2>2. d >= 1 /\ Top(m, 1) = Hash("HASH160", Last(stack))
    BY <1>2, <1>8 DEF HashTrace
  <2>3. PICK a : a = Hash("HASH160", Serialized(redeem))
    OBVIOUS
  <2>4. ~IsSignature(a)
    BY <2>3, NoSignatures
  <2>5. Changed(m, n, 0, <<a>>)
    BY <1>1, <1>3, <1>4, <2>1, <2>3, <2>4, StepPushes
  <2>6. /\ Depth(n) = (d - 0) + 1 /\ Top(n, 1) = a
        /\ \A i \in 1..(d - 0) : Top(n, 1 + i) = Top(m, 0 + i)
        /\ n.vfExec = m.vfExec /\ n.pbegincodehash = m.pbegincodehash
    BY <1>2, <2>5, AfterOne
  <2>7. Top(n, 2) = Top(m, 1)
    <3>1. 1 \in 1..(d - 0) /\ 1 + 1 = 2 /\ 0 + 1 = 1
      BY <1>2, <2>2
    <3> QED
      BY <2>6, <3>1
  <2> QED
    BY <1>2, <1>4, <1>6, <1>8, <2>2, <2>3, <2>6, <2>7 DEF HashTrace
<1>9. CASE m.pc = 2
  <2>1. c.op = "EQUAL"
    BY <1>5, <1>9 DEF ChunksOfHash
  <2>2. /\ Top(m, 1) = Hash("HASH160", Serialized(redeem))
        /\ Top(m, 2) = Hash("HASH160", Last(stack))
    BY <1>9 DEF HashTrace
  <2>3. PICK b \in BOOLEAN : b = (Top(m, 2) = Top(m, 1))
    BY Zenon
  <2>4. PICK a : a = Truth(b)
    OBVIOUS
  <2>5. Changed(m, n, 2, <<a>>)
    <3>1. Changed(m, Step(m), 2, <<Truth(Top(m, 2) = Top(m, 1))>>)
      BY <1>1, <1>3, <2>1, StepPlain, Zenon
    <3> QED
      BY <1>4, <2>3, <2>4, <3>1, Zenon
  <2>6. /\ Depth(n) = (d - 2) + 1 /\ Top(n, 1) = a
        /\ n.vfExec = m.vfExec /\ n.pbegincodehash = m.pbegincodehash
    BY <1>2, <2>5, AfterOne
  <2>7. Last(n.stack) = a
    BY <1>6, <2>6, LastIsTop
  <2>8. ASSUME CastToBool(a) PROVE Last(stack) = Serialized(redeem)
    <3>1. b = TRUE
      BY <2>4, <2>8, Verdict
    <3>2. Top(m, 2) = Top(m, 1)
      BY <2>3, <3>1
    <3> QED
      BY <2>2, <3>2 DEF Hash
  <2> QED
    BY <1>4, <1>6, <1>9, <2>6, <2>7, <2>8 DEF HashTrace
<1> QED
  BY <1>7, <1>8, <1>9


-----------------------------------------------------------------------------
(* Who has signed when a spend is accepted. *)

\* Where a machine is in the script of the output, or in the redeem script.
OnTheWay(ph, m, stack, s, G) ==
    /\ m.pc < Len(m.script) => m.vfExec = <<>> /\ m.pbegincodehash = 0
    /\ IF ph = "pubkey" /\ NeedsRedeem(s)
       THEN HashTrace(m, stack, Decides(s))
       ELSE KeyTrace(m, Decides(s), G)

\* The machine of a spend whose output wants keys.
SpendOf(ph, m, stack, s, G) ==
    /\ m.tx = Tx /\ m.nin = 1 /\ MachineOK(m, G) /\ Stack(stack, G)
    /\ m.pc \in 0..Len(m.script)
    /\ ph = "sig" => m.script = s.scriptSig
    /\ ph = "pubkey" => m.script = s.scriptPubkey
    /\ ph = "redeem" => m.script = Decides(s)
    /\ ph \in {"pubkey", "redeem"} /\ m.failed = FALSE => OnTheWay(ph, m, stack, s, G)
    /\ ph = "accepted" => AuthorizedBy(G, Decides(s))

SpendInv ==
    /\ spend \in Spends
    /\ Lock(SpentScript).threshold # 0
           => SpendOf(phase, machine, stackCopy, spend, Signatures)

\* The scripts of a spend whose output wants keys.
LEMMA ScriptsOfSpend ==
    ASSUME NEW s \in Spends, Lock(Decides(s)).threshold # 0
    PROVE  /\ s.scriptSig \in Seq(ToSet(s.scriptSig))
           /\ s.scriptPubkey \in Seq(ToSet(s.scriptPubkey)) /\ NoSigs(s.scriptPubkey)
           /\ Decides(s) \in Seq(ToSet(Decides(s))) /\ NoSigs(Decides(s))
           /\ IsScript(Decides(s)) /\ IsStandard(Decides(s))
           /\ ~NeedsRedeem(s) => Decides(s) = s.scriptPubkey
           /\ NeedsRedeem(s) => ChunksOfHash(s.scriptPubkey, Decides(s))
<1>1. /\ IsScript(s.scriptSig) /\ IsScript(s.scriptPubkey)
      /\ IsScript(Decides(s)) /\ IsStandard(Decides(s))
      /\ NeedsRedeem(s) => s.scriptPubkey[2].item = Hash("HASH160", Serialized(Decides(s)))
  BY SpendsOfScripts
<1>2. NoSigs(Decides(s))
  BY <1>1, StandardIs
<1>3. ~NeedsRedeem(s) => Decides(s) = s.scriptPubkey
  BY DEF Decides
<1>4. ASSUME NeedsRedeem(s) PROVE ChunksOfHash(s.scriptPubkey, Decides(s)) /\ NoSigs(s.scriptPubkey)
  <2>1. IsScriptHashOut(s.scriptPubkey) /\ s.scriptPubkey \in Seq(ToSet(s.scriptPubkey))
    BY <1>1, <1>4 DEF NeedsRedeem, IsScript
  <2> QED
    BY <1>1, <1>4, <2>1, HashChunks
<1> QED
  BY <1>1, <1>2, <1>3, <1>4 DEF IsScript

\* A chunk of a spend whose output wants keys.
LEMMA SpendStep ==
    ASSUME NEW s \in Spends, Lock(Decides(s)).threshold # 0, NEW G,
           \A c \in ToSet(s.scriptSig) : c.op = "PUSH" /\ IsSignature(c.item) => c.item \in G,
           NEW ph \in {"sig", "pubkey", "redeem"}, NEW m, NEW stack, SpendOf(ph, m, stack, s, G),
           m.failed = FALSE, m.pc # Len(m.script)
    PROVE  SpendOf(ph, Step(m), stack, s, G)
<1>1. /\ m.tx = Tx /\ m.nin = 1 /\ MachineOK(m, G) /\ Stack(stack, G)
      /\ m.pc \in 0..Len(m.script)
      /\ ph = "sig" => m.script = s.scriptSig
      /\ ph = "pubkey" => m.script = s.scriptPubkey
      /\ ph = "redeem" => m.script = Decides(s)
      /\ ph \in {"pubkey", "redeem"} => OnTheWay(ph, m, stack, s, G)
  BY DEF SpendOf
<1>2. /\ s.scriptSig \in Seq(ToSet(s.scriptSig))
      /\ s.scriptPubkey \in Seq(ToSet(s.scriptPubkey)) /\ NoSigs(s.scriptPubkey)
      /\ Decides(s) \in Seq(ToSet(Decides(s))) /\ NoSigs(Decides(s))
  BY ScriptsOfSpend
<1>3. PICK script : script = m.script /\ script \in Seq(ToSet(script))
  BY <1>1, <1>2
<1>4. PICK l \in Nat : l = Len(script) /\ DOMAIN script = 1..l
  BY <1>3
<1>5. PICK p \in 0..(l - 1) : p = m.pc
  BY <1>1, <1>3, <1>4
<1>6. PICK c : c = CurrentChunk(m) /\ c = script[p + 1] /\ p + 1 \in DOMAIN script
  BY <1>3, <1>4, <1>5 DEF CurrentChunk
<1>7. c.op = "PUSH" /\ IsSignature(c.item) => c.item \in G
  <2>1. CASE ph = "sig"
    <3>1. c \in ToSet(s.scriptSig)
      BY <1>1, <1>3, <1>6, <2>1 DEF ToSet
    <3> QED
      BY <3>1
  <2>2. CASE ph \in {"pubkey", "redeem"}
    <3>1. NoSigs(script)
      BY <1>1, <1>2, <1>3, <2>2
    <3> QED
      BY <1>6, <3>1 DEF NoSigs
  <2> QED
    BY <2>1, <2>2
<1>8. PICK n : n = Step(m)
  OBVIOUS
<1>9. /\ MachineOK(n, G) /\ n.pc = p + 1
      /\ n.script = script /\ n.tx = Tx /\ n.nin = 1
  <2>1. /\ MachineOK(Step(m), G) /\ Step(m).pc = m.pc + 1 /\ Step(m).script = m.script
        /\ Step(m).tx = m.tx /\ Step(m).nin = m.nin
    BY <1>1, <1>6, <1>7, StepKept
  <2> QED
    BY <1>1, <1>3, <1>5, <1>8, <2>1
<1>10. n.pc \in 0..Len(n.script)
  BY <1>4, <1>5, <1>9
<1>11. ASSUME ph \in {"pubkey", "redeem"}, n.failed = FALSE
       PROVE  OnTheWay(ph, n, stack, s, G)
  <2>1. Runs(m, script, G)
    <3>1. NoSigs(script)
      BY <1>1, <1>2, <1>3, <1>11
    <3>2. m.vfExec = <<>> /\ m.pbegincodehash = 0
      <4>1. m.pc < Len(m.script)
        BY <1>3, <1>4, <1>5
      <4> QED
        BY <1>1, <1>11, <4>1 DEF OnTheWay
    <3> QED
      BY <1>1, <1>3, <3>1, <3>2 DEF Runs
  <2>2. CASE ph = "pubkey" /\ NeedsRedeem(s)
    <3>1. ChunksOfHash(script, Decides(s))
      BY <1>1, <1>3, <2>2, ScriptsOfSpend
    <3>2. m.pc \in 0..2
      BY <1>4, <1>5, <3>1 DEF ChunksOfHash
    <3>3. HashTrace(m, stack, Decides(s))
      BY <1>1, <1>11, <2>2 DEF OnTheWay
    <3>4. /\ HashTrace(n, stack, Decides(s))
          /\ n.vfExec = m.vfExec /\ n.pbegincodehash = m.pbegincodehash
      BY <1>8, <1>11, <2>1, <3>1, <3>2, <3>3, HashStep
    <3>5. n.vfExec = <<>> /\ n.pbegincodehash = 0
      BY <2>1, <3>4 DEF Runs
    <3> QED
      BY <2>2, <3>4, <3>5 DEF OnTheWay
  <2>3. CASE ~(ph = "pubkey" /\ NeedsRedeem(s))
    <3>1. script = Decides(s)
      BY <1>1, <1>3, <1>11, <2>3, ScriptsOfSpend
    <3>2. KeyTrace(m, script, G)
      BY <1>1, <1>11, <2>3, <3>1 DEF OnTheWay
    <3>3. /\ KeyTrace(n, script, G)
          /\ p + 1 < Len(script) => n.vfExec = <<>> /\ n.pbegincodehash = 0
      BY <1>4, <1>5, <1>8, <1>11, <2>1, <3>2, KeyTraceStep
    <3> QED
      BY <1>9, <2>3, <3>1, <3>3 DEF OnTheWay
  <2> QED
    BY <2>2, <2>3
<1> QED
  BY <1>1, <1>3, <1>8, <1>9, <1>10, <1>11 DEF SpendOf

\* An output to keys is spent only with signatures of as many of them as its script wants,
\* over this very transaction (evaluateVerify and step of interpreter.js): the stack holds
\* no signatures but those the input's script pushes, the script of the output neither
\* opens a branch nor moves the code separator, and each of its chunks leaves on top of
\* the stack what the next one asks for, up to the answer of the check.
THEOREM AcceptedIsSigned == Spec => []SpendsAreAuthorized
<1>1. ASSUME Init PROVE SpendInv
  <2>1. spend \in Spends
    BY <1>1 DEF Init
  <2>2. ASSUME Lock(SpentScript).threshold # 0
        PROVE  SpendOf(phase, machine, stackCopy, spend, Signatures)
    <3>1. PICK G : G = Signatures
      OBVIOUS
    <3>2. machine = Machine(spend.scriptSig, <<>>, Tx, 1, spend.flags) /\ stackCopy = <<>>
      BY <1>1 DEF Init, SigMachine
    <3>3. Stack(<<>>, G)
      BY NoStack
    <3>4. MachineOK(machine, G)
      BY <3>2, <3>3, NewMachine
    <3>5. machine.script = spend.scriptSig /\ machine.pc = 0 /\ machine.tx = Tx /\ machine.nin = 1
      BY <3>2 DEF Machine
    <3>6. machine.pc \in 0..Len(machine.script)
      <4>1. Len(spend.scriptSig) \in Nat
        BY <2>1, SpendsOfScripts DEF IsScript
      <4> QED
        BY <3>5, <4>1
    <3>7. phase \in {"sig", "rejected"}
      BY <1>1 DEF Init
    <3> QED
      BY <3>1, <3>2, <3>3, <3>4, <3>5, <3>6, <3>7 DEF SpendOf
  <2> QED
    BY <2>1, <2>2 DEF SpendInv
<1>2. ASSUME SpendInv, [Next]_vars PROVE SpendInv'
  <2>1. spend' = spend /\ spend \in Spends
    BY <1>2 DEF SpendInv, Next, Chunk, Reject, SpendOutput, Redeem, Accept, Begin, Finish, vars
  <2>2. Signatures' = Signatures /\ SpentScript' = SpentScript
    BY <2>1 DEF Signatures, SpentScript
  <2> SUFFICES ASSUME Lock(SpentScript).threshold # 0
               PROVE  SpendOf(phase, machine, stackCopy, spend, Signatures)'
    BY <2>1, <2>2 DEF SpendInv
  <2>3. PICK G : G = Signatures
    OBVIOUS
  <2>4. SpendOf(phase, machine, stackCopy, spend, G)
    BY <1>2, <2>3 DEF SpendInv
  <2>5. Lock(Decides(spend)).threshold # 0
    BY DEF SpentScript
  <2>6. /\ machine.tx = Tx /\ machine.nin = 1 /\ MachineOK(machine, G) /\ Stack(stackCopy, G)
        /\ machine.pc \in 0..Len(machine.script)
        /\ phase = "pubkey" => machine.script = spend.scriptPubkey
        /\ phase = "redeem" => machine.script = Decides(spend)
        /\ phase \in {"pubkey", "redeem"} /\ machine.failed = FALSE
               => OnTheWay(phase, machine, stackCopy, spend, G)
    BY <2>4 DEF SpendOf
  <2>7. EndsTrue(machine) => machine.failed = FALSE /\ CastToBool(Last(machine.stack))
    BY <2>6 DEF EndsTrue, Evaluated, MachineOK
  <2> SUFFICES SpendOf(phase', machine', stackCopy', spend, G)
    BY <2>1, <2>2, <2>3
  <2>8. CASE Chunk
    <3>1. /\ machine' = Step(machine) /\ phase' = phase /\ stackCopy' = stackCopy
          /\ phase \in {"sig", "pubkey", "redeem"} /\ ~machine.failed
          /\ machine.pc # Len(machine.script)
      BY <2>8 DEF Chunk, Running, Finished
    <3>2. machine.failed = FALSE
      BY <2>6, <3>1 DEF MachineOK
    <3>3. \A c \in ToSet(spend.scriptSig) : c.op = "PUSH" /\ IsSignature(c.item) => c.item \in G
      BY <2>3 DEF Signatures
    <3>4. SpendOf(phase, Step(machine), stackCopy, spend, G)
      BY <2>1, <2>4, <2>5, <3>1, <3>2, <3>3, SpendStep
    <3> QED
      BY <3>1, <3>4
  <2>9. CASE Reject
    BY <2>6, <2>9 DEF Reject, Finish, SpendOf
  <2>10. CASE SpendOutput
    <3>1. phase' = "pubkey" /\ machine' = PubkeyMachine(spend, machine) /\ stackCopy' = machine.stack
      BY <2>10 DEF SpendOutput, Begin
    <3>2. machine' = Machine(spend.scriptPubkey, machine.stack, Tx, 1, spend.flags)
      BY <2>6, <3>1 DEF PubkeyMachine
    <3>3. PICK n : n = machine'
      OBVIOUS
    <3>4. /\ n.script = spend.scriptPubkey /\ n.pc = 0 /\ n.stack = machine.stack
          /\ n.vfExec = <<>> /\ n.pbegincodehash = 0 /\ n.tx = Tx /\ n.nin = 1
      BY <3>2, <3>3 DEF Machine
    <3>5. Stack(machine.stack, G) /\ MachineOK(n, G)
      BY <2>6, <3>2, <3>3, NewMachine DEF MachineOK
    <3>6. n.pc \in 0..Len(n.script)
      <4>1. Len(spend.scriptPubkey) \in Nat
        BY <2>1, SpendsOfScripts DEF IsScript
      <4> QED
        BY <3>4, <4>1
    <3>7. KeyTrace(n, Decides(spend), G)
      BY <2>1, <2>5, <3>4, ScriptsOfSpend, KeyTraceStarts
    <3>8. HashTrace(n, machine.stack, Decides(spend))
      BY <3>4 DEF HashTrace
    <3>9. OnTheWay("pubkey", n, machine.stack, spend, G)
      BY <3>4, <3>7, <3>8 DEF OnTheWay
    <3> QED
      BY <3>1, <3>3, <3>4, <3>5, <3>6, <3>9 DEF SpendOf
  <2>11. CASE Redeem
    <3>1. /\ phase = "pubkey" /\ machine.pc = Len(machine.script) /\ EndsTrue(machine)
          /\ NeedsRedeem(spend) /\ phase' = "redeem" /\ stackCopy' = stackCopy
          /\ machine' = RedeemMachine(spend, stackCopy, machine)
      BY <2>11 DEF Redeem, Begin, Finished
    <3>2. Last(stackCopy) = Serialized(Decides(spend))
      <4>1. HashTrace(machine, stackCopy, Decides(spend))
        BY <2>6, <2>7, <3>1 DEF OnTheWay
      <4>2. machine.pc = 3
        BY <2>1, <2>5, <2>6, <3>1, ScriptsOfSpend DEF ChunksOfHash
      <4> QED
        BY <2>7, <3>1, <4>1, <4>2 DEF HashTrace
    <3>3. machine' = Machine(Decides(spend), Front(stackCopy), Tx, 1, spend.flags)
      <4>1. Last(stackCopy).script = Decides(spend)
        BY <3>2 DEF Serialized
      <4> QED
        BY <2>6, <3>1, <4>1 DEF RedeemMachine
    <3>4. PICK n : n = machine'
      OBVIOUS
    <3>5. /\ n.script = Decides(spend) /\ n.pc = 0
          /\ n.vfExec = <<>> /\ n.pbegincodehash = 0 /\ n.tx = Tx /\ n.nin = 1
      BY <3>3, <3>4 DEF Machine
    <3>6. MachineOK(n, G)
      BY <2>6, <3>3, <3>4, FrontOfStack, NewMachine
    <3>7. n.pc \in 0..Len(n.script)
      <4>1. Len(Decides(spend)) \in Nat
        BY <2>1, SpendsOfScripts DEF IsScript
      <4> QED
        BY <3>5, <4>1
    <3>8. KeyTrace(n, Decides(spend), G)
      BY <2>1, <2>5, <3>5, ScriptsOfSpend, KeyTraceStarts
    <3>9. OnTheWay("redeem", n, stackCopy, spend, G)
      BY <3>5, <3>8 DEF OnTheWay
    <3> QED
      BY <2>6, <3>1, <3>4, <3>5, <3>6, <3>7, <3>9 DEF SpendOf
  <2>12. CASE Accept
    <3>1. /\ machine.pc = Len(machine.script) /\ EndsTrue(machine)
          /\ (phase = "pubkey" /\ ~NeedsRedeem(spend)) \/ phase = "redeem"
          /\ phase' = "accepted" /\ machine' = machine /\ stackCopy' = stackCopy
      BY <2>12 DEF Accept, Finish, Finished
    <3>2. machine.script = Decides(spend)
      BY <2>1, <2>5, <2>6, <3>1, ScriptsOfSpend
    <3>3. KeyTrace(machine, Decides(spend), G)
      BY <2>6, <2>7, <3>1 DEF OnTheWay
    <3>4. Answered(machine, Decides(spend), G)
      BY <3>1, <3>2, <3>3, KeyTraceEnds
    <3>5. AuthorizedBy(G, Decides(spend))
      BY <2>7, <3>1, <3>4 DEF Answered
    <3> QED
      BY <2>6, <3>1, <3>5 DEF SpendOf
  <2>13. CASE UNCHANGED vars
    BY <2>4, <2>13 DEF vars
  <2> QED
    BY <1>2, <2>8, <2>9, <2>10, <2>11, <2>12, <2>13 DEF Next
<1>3. ASSUME SpendInv PROVE SpendsAreAuthorized
  <2> SUFFICES ASSUME phase = "accepted"
               PROVE  Cardinality(Signers(SpentScript)) >= Lock(SpentScript).threshold
    BY DEF SpendsAreAuthorized
  <2>1. Cardinality(Signers(SpentScript)) \in Nat
    <3>1. IsFiniteSet(DOMAIN Lock(SpentScript).keys)
      <4>1. IsScript(SpentScript)
        BY <1>3, SpendsOfScripts DEF SpendInv, SpentScript
      <4>2. PICK s : s = SpentScript /\ IsScript(s) /\ Len(s) \in Nat
        BY <4>1 DEF IsScript
      <4>3. CASE \E k : Lock(s) = [keys |-> <<k>>, threshold |-> 1]
        <5>1. PICK k : Lock(s) = [keys |-> <<k>>, threshold |-> 1]
          BY <4>3
        <5>2. DOMAIN Lock(s).keys = {1}
          BY <5>1
        <5>3. IsFiniteSet({1})
          BY FS_Singleton
        <5> QED
          BY <4>2, <5>2, <5>3
      <4>4. CASE Lock(s) = [keys |-> [i \in 1..(Len(s) - 3) |-> s[i + 1].item.key],
                            threshold |-> s[1].n]
        <5>1. PICK b \in Int : b = Len(s) - 3
          BY <4>2
        <5>2. DOMAIN Lock(s).keys = 1..b
          BY <4>4, <5>1
        <5>3. IsFiniteSet(1..b)
          BY FS_Interval
        <5> QED
          BY <4>2, <5>2, <5>3
      <4>5. CASE Lock(s) = [keys |-> <<>>, threshold |-> 0]
        <5>1. DOMAIN Lock(s).keys = {}
          BY <4>5
        <5> QED
          BY <4>2, <5>1, FS_EmptySet
      <4> QED
        BY <4>2, <4>3, <4>4, <4>5, LockIs, Zenon
    <3> QED
      BY <3>1, FS_Subset, FS_CardinalityType DEF Signers
  <2>2. CASE Lock(SpentScript).threshold = 0
    BY <2>1, <2>2
  <2>3. CASE Lock(SpentScript).threshold # 0
    <3>1. AuthorizedBy(Signatures, SpentScript)
      BY <1>3, <2>3 DEF SpendInv, SpendOf, SpentScript
    <3> QED
      BY <3>1, Zenon DEF AuthorizedBy, Signers
  <2> QED
    BY <2>2, <2>3
<1> QED
  BY <1>1, <1>2, <1>3, PTL DEF Spec


-----------------------------------------------------------------------------
(* Conditionals.  Level(script, p) is the number of conditionals that are   *)
(* open behind the chunk at p.                                               *)

Level(script, p) == Count(script, Opens, 1, p) - Count(script, {"ENDIF"}, 1, p)

\* What the chunk at p adds to the level.
LevelChange(script, p) ==
    IF script[p].op \in Opens THEN 1 ELSE IF script[p].op = "ENDIF" THEN -1 ELSE 0

LEMMA CountMore ==
    ASSUME NEW script, NEW ops, NEW a \in Nat \ {0}, NEW b \in Nat, a <= b + 1
    PROVE  /\ Count(script, ops, a, b) \in Nat
           /\ Count(script, ops, a, b + 1) =
                  Count(script, ops, a, b) + (IF script[b + 1].op \in ops THEN 1 ELSE 0)
<1> DEFINE S == {i \in a..b : script[i].op \in ops}
           R == {i \in a..(b + 1) : script[i].op \in ops}
<1>1. IsFiniteSet(S)
  <2>1. a \in Int /\ b \in Int
    OBVIOUS
  <2>2. IsFiniteSet(a..b)
    BY <2>1, FS_Interval
  <2> QED
    BY <2>2, FS_Subset
<1>2. /\ Cardinality(S) \in Nat
      /\ Count(script, ops, a, b) = Cardinality(S)
      /\ Count(script, ops, a, b + 1) = Cardinality(R)
  BY <1>1, FS_CardinalityType DEF Count
<1>3. CASE script[b + 1].op \in ops
  <2>1. R = S \cup {b + 1} /\ b + 1 \notin S
    BY <1>3
  <2>2. Cardinality(R) = Cardinality(S) + 1
    BY <1>1, <2>1, FS_AddElement
  <2> HIDE DEF S, R
  <2> QED
    BY <1>2, <1>3, <2>2
<1>4. CASE script[b + 1].op \notin ops
  <2>1. R = S
    BY <1>4
  <2> HIDE DEF S, R
  <2> QED
    BY <1>2, <1>4, <2>1
<1> QED
  BY <1>3, <1>4

LEMMA CountNone ==
    ASSUME NEW script, NEW ops, NEW a \in Nat \ {0}
    PROVE  Count(script, ops, a, a - 1) = 0
<1>1. {i \in a..(a - 1) : script[i].op \in ops} = {}
  OBVIOUS
<1> QED
  BY <1>1, FS_EmptySet DEF Count

LEMMA LevelNext ==
    ASSUME NEW script, NEW p \in Nat
    PROVE  /\ Level(script, p) \in Int
           /\ Level(script, p + 1) = Level(script, p) + LevelChange(script, p + 1)
           /\ Level(script, 0) = 0
<1>1. "ENDIF" \notin Opens
  BY DEF Opens
<1>2. 1 - 1 = 0 /\ 1 \in Nat \ {0} /\ 1 <= p + 1
  OBVIOUS
<1>3. Count(script, Opens, 1, 0) = 0 /\ Count(script, {"ENDIF"}, 1, 0) = 0
  BY <1>2, CountNone
<1>4. /\ Count(script, Opens, 1, p) \in Nat /\ Count(script, {"ENDIF"}, 1, p) \in Nat
      /\ Count(script, Opens, 1, p + 1) =
             Count(script, Opens, 1, p) + (IF script[p + 1].op \in Opens THEN 1 ELSE 0)
      /\ Count(script, {"ENDIF"}, 1, p + 1) =
             Count(script, {"ENDIF"}, 1, p) + (IF script[p + 1].op \in {"ENDIF"} THEN 1 ELSE 0)
  BY <1>2, CountMore
<1> QED
  BY <1>1, <1>3, <1>4 DEF Level, LevelChange

LEMMA LevelBetween ==
    ASSUME NEW script, NEW i \in Nat \ {0}, NEW n \in Nat
    PROVE  Count(script, Opens, i, i - 1 + n) - Count(script, {"ENDIF"}, i, i - 1 + n)
               = Level(script, i - 1 + n) - Level(script, i - 1)
<1> DEFINE Net(j) == Count(script, Opens, i, j) - Count(script, {"ENDIF"}, i, j)
           T == {k \in 0..n : Net(i - 1 + k) = Level(script, i - 1 + k) - Level(script, i - 1)}
<1>1. 0 \in T
  <2>1. Net(i - 1) = 0
    BY CountNone
  <2>2. Level(script, i - 1) \in Int
    BY LevelNext
  <2>3. i - 1 + 0 = i - 1
    OBVIOUS
  <2>4. Net(i - 1 + 0) = Level(script, i - 1 + 0) - Level(script, i - 1)
    BY <2>1, <2>2, <2>3
  <2> QED
    BY <2>4
<1>2. ASSUME NEW k \in 0..(n - 1), k \in T PROVE k + 1 \in T
  <2>1. PICK j \in Nat : j = i - 1 + k /\ i <= j + 1 /\ j + 1 = i - 1 + (k + 1)
    OBVIOUS
  <2>2. Level(script, j + 1) = Level(script, j) + LevelChange(script, j + 1)
        /\ Level(script, j) \in Int /\ Level(script, i - 1) \in Int
    BY LevelNext
  <2>3. Net(j + 1) = Net(j) + LevelChange(script, j + 1) /\ Net(j) \in Int
    <3>1. /\ Count(script, Opens, i, j) \in Nat /\ Count(script, {"ENDIF"}, i, j) \in Nat
          /\ Count(script, Opens, i, j + 1) =
                 Count(script, Opens, i, j) + (IF script[j + 1].op \in Opens THEN 1 ELSE 0)
          /\ Count(script, {"ENDIF"}, i, j + 1) =
                 Count(script, {"ENDIF"}, i, j) + (IF script[j + 1].op \in {"ENDIF"} THEN 1 ELSE 0)
      BY <2>1, CountMore
    <3>2. "ENDIF" \notin Opens
      BY DEF Opens
    <3> QED
      BY <3>1, <3>2 DEF LevelChange
  <2>4. Net(j) = Level(script, j) - Level(script, i - 1)
    BY <1>2, <2>1
  <2>5. LevelChange(script, j + 1) \in Int
    BY DEF LevelChange
  <2>6. Net(j + 1) = Level(script, j + 1) - Level(script, i - 1)
    <3> HIDE DEF Net
    <3> QED
      BY <2>2, <2>3, <2>4, <2>5
  <2> HIDE DEF Net
  <2> QED
    BY <2>1, <2>6
<1>3. n \in T
  <2> HIDE DEF T
  <2>1. 0..n \subseteq T
    BY <1>1, <1>2, AllNumbers
  <2> QED
    BY <2>1
<1> QED
  BY <1>3

LEMMA EnclosesIs ==
    ASSUME NEW script, NEW i \in Nat \ {0}, NEW p \in Nat
    PROVE  Encloses(script, i, p) <=>
               /\ i < p /\ script[i].op \in Opens
               /\ \A j \in i..(p - 1) : Level(script, j) > Level(script, i - 1)
<1>1. ASSUME NEW j \in i..(p - 1)
      PROVE  Count(script, Opens, i, j) > Count(script, {"ENDIF"}, i, j)
                 <=> Level(script, j) > Level(script, i - 1)
  <2>1. PICK n \in Nat : j = i - 1 + n
    <3>1. j - i + 1 \in Nat /\ j = i - 1 + (j - i + 1)
      OBVIOUS
    <3> QED
      BY <3>1
  <2>2. Count(script, Opens, i, j) - Count(script, {"ENDIF"}, i, j)
            = Level(script, j) - Level(script, i - 1)
    BY <2>1, LevelBetween
  <2>3. Count(script, Opens, i, j) \in Nat /\ Count(script, {"ENDIF"}, i, j) \in Nat
    <3>1. j \in Nat /\ i <= j + 1
      OBVIOUS
    <3> QED
      BY <3>1, CountMore
  <2>4. Level(script, j) \in Int /\ Level(script, i - 1) \in Int
    <3>1. j \in Nat /\ i - 1 \in Nat
      OBVIOUS
    <3> QED
      BY <3>1, LevelNext
  <2> QED
    BY <2>2, <2>3, <2>4
<1> QED
  BY <1>1, Zenon DEF Encloses

\* Where a conditional opens, and what it encloses when there is one more chunk.
LEMMA EnclosesFacts ==
    ASSUME NEW script, NEW q \in Nat \ {0}, NEW i \in 1..q
    PROVE  /\ Encloses(script, i, q) =>
                  /\ i < q /\ Level(script, i) = Level(script, i - 1) + 1
                  /\ Level(script, i) <= Level(script, q - 1)
           /\ Encloses(script, i, q + 1) <=>
                  \/ i = q /\ script[q].op \in Opens
                  \/ i < q /\ Encloses(script, i, q) /\ Level(script, q) > Level(script, i - 1)
<1>1. PICK a \in Nat : a = i - 1 /\ a + 1 = i
  <2>1. i - 1 \in Nat /\ (i - 1) + 1 = i
    OBVIOUS
  <2> QED
    BY <2>1
<1>2. /\ Level(script, i) = Level(script, a) + LevelChange(script, i) /\ Level(script, a) \in Int
  BY <1>1, LevelNext
<1>3. i \in Nat \ {0} /\ q \in Nat /\ q + 1 \in Nat
  OBVIOUS
<1>4. Level(script, q) \in Int /\ Level(script, q - 1) \in Int
  BY LevelNext
<1>5. Encloses(script, i, q) <=>
          /\ i < q /\ script[i].op \in Opens
          /\ \A j \in i..(q - 1) : Level(script, j) > Level(script, a)
  BY <1>1, <1>3, EnclosesIs
<1>6. Encloses(script, i, q + 1) <=>
          /\ i < q + 1 /\ script[i].op \in Opens
          /\ \A j \in i..q : Level(script, j) > Level(script, a)
  <2>1. (q + 1) - 1 = q
    OBVIOUS
  <2> QED
    BY <1>1, <1>3, <2>1, EnclosesIs
<1>7. script[i].op \in Opens => Level(script, i) = Level(script, a) + 1
  BY <1>2 DEF LevelChange
<1>8. CASE i = q
  <2>1. \A j \in i..q : j = i
    BY <1>8
  <2> QED
    BY <1>1, <1>2, <1>5, <1>6, <1>7, <1>8, <2>1
<1>9. CASE i # q
  <2>1. i < q /\ q - 1 \in i..(q - 1) /\ i..q = (i..(q - 1)) \cup {q}
    BY <1>9
  <2>2. Encloses(script, i, q) => Level(script, q - 1) > Level(script, a)
    BY <1>5, <2>1
  <2> QED
    BY <1>1, <1>2, <1>4, <1>5, <1>6, <1>7, <1>9, <2>1, <2>2
<1> QED
  BY <1>8, <1>9

LEMMA InnerIsHigher ==
    ASSUME NEW script, NEW q \in Nat \ {0}, NEW i \in 1..q, NEW k \in 1..q,
           Encloses(script, i, q), Encloses(script, k, q), i < k
    PROVE  Level(script, i) < Level(script, k)
<1>1. /\ i < q /\ Level(script, i) = Level(script, i - 1) + 1
      /\ k < q /\ Level(script, k) = Level(script, k - 1) + 1
  BY EnclosesFacts
<1>2. k - 1 \in i..(q - 1) /\ i \in Nat \ {0} /\ q \in Nat /\ i - 1 \in Nat /\ k - 1 \in Nat
  BY <1>1
<1>3. Level(script, k - 1) > Level(script, i - 1)
  BY <1>2, EnclosesIs
<1>4. Level(script, k - 1) \in Int /\ Level(script, i - 1) \in Int
  BY <1>2, LevelNext
<1> QED
  BY <1>1, <1>3, <1>4

\* Each level that is open was opened by a conditional.
LEMMA OpenedAt ==
    ASSUME NEW script, NEW q \in Nat \ {0}, NEW j \in Nat \ {0}, j <= Level(script, q - 1)
    PROVE  \E i \in 1..q : Encloses(script, i, q) /\ Level(script, i) = j
<1> DEFINE U == {i \in 1..q : Level(script, i - 1) <= j - 1}
<1>1. \A i \in 1..q : Level(script, i - 1) \in Int /\ Level(script, i) \in Int
  <2>1. \A i \in 1..q : i - 1 \in Nat /\ i \in Nat
    OBVIOUS
  <2> QED
    BY <2>1, LevelNext
<1>2. 1 \in U
  <2>1. Level(script, 0) = 0 /\ 1 - 1 = 0 /\ 1 \in 1..q
    BY LevelNext
  <2>2. Level(script, 1 - 1) <= j - 1
    BY <2>1
  <2> QED
    BY <2>1, <2>2
<1>3. PICK i \in U : i = Max(U) /\ \A y \in U : y <= i
  <2>1. U \in SUBSET (1..q) /\ U # {}
    BY <1>2
  <2>2. Max(U) \in U /\ \A y \in U : Max(U) >= y
    BY <2>1, GreatestOf
  <2>3. \A y \in U : y <= Max(U)
    BY <2>1, <2>2
  <2> QED
    BY <2>2, <2>3
<1>4. i \in 1..q /\ i # q
  <2>1. q \notin U
    BY <1>1
  <2> QED
    BY <2>1
<1>5. ASSUME NEW l \in i..(q - 1) PROVE Level(script, l) > j - 1
  <2>1. l + 1 \in 1..q /\ (l + 1) - 1 = l /\ ~(l + 1 <= i)
    BY <1>4
  <2>2. l + 1 \notin U
    BY <1>3, <2>1
  <2>3. Level(script, l) \in Int /\ ~(Level(script, l) <= j - 1)
    BY <1>1, <2>1, <2>2
  <2> QED
    BY <2>3
<1>6. /\ Level(script, i) = Level(script, i - 1) + LevelChange(script, i)
      /\ Level(script, i - 1) \in Int
  <2>1. i - 1 \in Nat /\ (i - 1) + 1 = i
    BY <1>4
  <2> QED
    BY <2>1, LevelNext
<1>7. Level(script, i) > j - 1 /\ Level(script, i - 1) <= j - 1
  BY <1>3, <1>4, <1>5
<1>8. script[i].op \in Opens /\ Level(script, i) = j /\ Level(script, i - 1) = j - 1
  BY <1>6, <1>7 DEF LevelChange
<1>9. Encloses(script, i, q)
  <2>1. i \in Nat \ {0} /\ q \in Nat /\ i < q
    BY <1>4
  <2> QED
    BY <1>5, <1>8, <2>1, EnclosesIs
<1> QED
  BY <1>4, <1>8, <1>9

\* The conditional whose OP_ELSE an OP_ELSE is.
LEMMA InnermostIs ==
    ASSUME NEW script, NEW q \in Nat \ {0}, NEW i \in 1..q, Encloses(script, i, q),
           Level(script, i - 1) \in Nat
    PROVE  (~\E k \in (i + 1)..(q - 1) : Encloses(script, k, q))
               <=> Level(script, i) = Level(script, q - 1)
<1>1. /\ i < q /\ Level(script, i) = Level(script, i - 1) + 1
      /\ Level(script, i) <= Level(script, q - 1)
  BY EnclosesFacts
<1>2. Level(script, q - 1) \in Int
  BY LevelNext
<1>3. ASSUME NEW k \in (i + 1)..(q - 1), Encloses(script, k, q)
      PROVE  Level(script, i) # Level(script, q - 1)
  <2>1. k \in 1..q /\ i < k
    OBVIOUS
  <2>2. Level(script, i) < Level(script, k) /\ Level(script, k) <= Level(script, q - 1)
    BY <1>3, <2>1, InnerIsHigher, EnclosesFacts
  <2>3. k \in Nat
    OBVIOUS
  <2>4. Level(script, k) \in Int
    BY <2>3, LevelNext
  <2> QED
    BY <1>1, <1>2, <2>2, <2>4
<1>4. ASSUME Level(script, i) # Level(script, q - 1)
      PROVE  \E k \in (i + 1)..(q - 1) : Encloses(script, k, q)
  <2>1. Level(script, i) + 1 \in Nat \ {0} /\ Level(script, i) + 1 <= Level(script, q - 1)
    BY <1>1, <1>2, <1>4
  <2>2. PICK k \in 1..q : Encloses(script, k, q) /\ Level(script, k) = Level(script, i) + 1
    BY <2>1, OpenedAt
  <2>3. ~(k < i)
    <3>1. k < i => Level(script, k) < Level(script, i)
      BY <2>2, InnerIsHigher
    <3> QED
      BY <1>1, <2>2, <3>1
  <2>4. k # i
    BY <1>1, <2>2
  <2>5. k < q
    BY <2>2, EnclosesFacts
  <2>6. k \in (i + 1)..(q - 1)
    BY <2>3, <2>4, <2>5
  <2> QED
    BY <2>2, <2>6
<1> QED
  BY <1>3, <1>4


LEMMA ElsesNext ==
    ASSUME NEW script, NEW q \in Nat \ {0}, NEW i \in 1..q, Encloses(script, i, q),
           Level(script, i - 1) \in Nat
    PROVE  /\ Cardinality(Elses(script, i, q)) \in Nat
           /\ Cardinality(Elses(script, i, q + 1)) =
                  Cardinality(Elses(script, i, q))
                  + (IF script[q].op = "ELSE" /\ Level(script, i) = Level(script, q - 1)
                     THEN 1 ELSE 0)
<1>1. i < q
  BY EnclosesFacts
<1>2. IsFiniteSet(Elses(script, i, q))
  <2>1. i + 1 \in Int /\ q - 1 \in Int
    OBVIOUS
  <2>2. IsFiniteSet((i + 1)..(q - 1))
    BY <2>1, FS_Interval
  <2>3. Elses(script, i, q) \subseteq (i + 1)..(q - 1)
    BY DEF Elses
  <2> QED
    BY <2>2, <2>3, FS_Subset
<1>3. (q + 1) - 1 = q /\ q \in (i + 1)..q
  BY <1>1
<1>4. \A j \in (i + 1)..q : j = q \/ j \in (i + 1)..(q - 1)
  OBVIOUS
<1>5. /\ q \notin Elses(script, i, q)
      /\ (i + 1)..(q - 1) \subseteq (i + 1)..q
  BY DEF Elses
<1>6. q \in Elses(script, i, q + 1)
          <=> script[q].op = "ELSE" /\ Level(script, i) = Level(script, q - 1)
  <2>1. q \in Elses(script, i, q + 1)
            <=> script[q].op = "ELSE" /\ ~\E k \in (i + 1)..(q - 1) : Encloses(script, k, q)
    BY <1>3 DEF Elses
  <2> QED
    BY <2>1, InnermostIs
<1>7. \A j \in (i + 1)..(q - 1) : j \in Elses(script, i, q + 1) <=> j \in Elses(script, i, q)
  BY <1>3, <1>5 DEF Elses
<1>8. Elses(script, i, q + 1) \subseteq (i + 1)..q /\ Elses(script, i, q) \subseteq (i + 1)..(q - 1)
  BY <1>3 DEF Elses
<1>9. PICK S : S = Elses(script, i, q)
  OBVIOUS
<1>10. PICK R : R = Elses(script, i, q + 1)
  OBVIOUS
<1>11. CASE q \in R
  <2>1. R = S \cup {q}
    BY <1>3, <1>4, <1>5, <1>7, <1>8, <1>9, <1>10, <1>11
  <2>2. Cardinality(R) = Cardinality(S) + 1
    BY <1>2, <1>5, <1>9, <2>1, FS_AddElement
  <2> QED
    BY <1>2, <1>6, <1>9, <1>10, <1>11, <2>2, FS_CardinalityType
<1>12. CASE q \notin R
  <2>1. R = S
    BY <1>3, <1>4, <1>5, <1>7, <1>8, <1>9, <1>10, <1>12
  <2> QED
    BY <1>2, <1>6, <1>9, <1>10, <1>12, <2>1, FS_CardinalityType
<1> QED
  BY <1>11, <1>12

\* What vfExec and chosen say of the conditionals around the chunk after p: a conditional
\* decided when those around it had all chosen the half it lies in, and vfExec has at its
\* level whether the OP_ELSEs since leave the half that it chose.
OfLevel(script, p, v, ch, i) ==
    /\ i \in DOMAIN ch <=> \A l \in 1..(Level(script, i) - 1) : v[l] = TRUE
    /\ i \in DOMAIN ch => (v[Level(script, i)] = TRUE <=>
                             (ch[i] = TRUE <=> Cardinality(Elses(script, i, p + 1)) % 2 = 0))

Structured(script, p, v, ch) ==
    /\ v \in Seq(BOOLEAN)
    /\ Level(script, p) = Len(v)
    /\ \A j \in 0..p : Level(script, j) \in Nat
    /\ DOMAIN ch \subseteq 1..p
    /\ \A i \in 1..p : Encloses(script, i, p + 1) => OfLevel(script, p, v, ch, i)

LEMMA LevelsSoFar ==
    ASSUME NEW script, NEW p \in Nat, NEW v, NEW ch, Structured(script, p, v, ch),
           NEW n \in Nat, n = Len(v) + LevelChange(script, p + 1)
    PROVE  /\ Level(script, p + 1) = n
           /\ \A j \in 0..(p + 1) : Level(script, j) \in Nat
<1>1. Level(script, p + 1) = n
  BY LevelNext DEF Structured
<1>2. \A j \in 0..(p + 1) : j = p + 1 \/ j \in 0..p
  OBVIOUS
<1> QED
  BY <1>1, <1>2 DEF Structured

\* A conditional that stays open keeps its level.
LEMMA StillOpen ==
    ASSUME NEW script, NEW p \in Nat, NEW v, NEW ch, Structured(script, p, v, ch),
           NEW i \in 1..p, Encloses(script, i, p + 2)
    PROVE  /\ Encloses(script, i, p + 1) /\ OfLevel(script, p, v, ch, i)
           /\ Level(script, i) \in 1..Len(v) /\ Level(script, i) <= Level(script, p + 1)
           /\ Cardinality(Elses(script, i, p + 1)) \in Nat
           /\ Cardinality(Elses(script, i, p + 2)) =
                  Cardinality(Elses(script, i, p + 1))
                  + (IF script[p + 1].op = "ELSE" /\ Level(script, i) = Len(v) THEN 1 ELSE 0)
<1>1. PICK q \in Nat \ {0} : q = p + 1 /\ q - 1 = p /\ q + 1 = p + 2
  OBVIOUS
<1>2. i \in 1..q /\ i < q
  BY <1>1
<1>3. Encloses(script, i, q) /\ Level(script, q) > Level(script, i - 1)
  BY <1>1, <1>2, EnclosesFacts
<1>4. Level(script, i) = Level(script, i - 1) + 1 /\ Level(script, i) <= Level(script, p)
  BY <1>1, <1>2, <1>3, EnclosesFacts
<1>5. Level(script, i - 1) \in Nat /\ Level(script, i) \in Nat /\ Level(script, p) = Len(v)
  <2>1. i - 1 \in 0..p /\ i \in 0..p
    BY <1>1
  <2> QED
    BY <2>1 DEF Structured
<1>6. Level(script, q) \in Int
  BY LevelNext
<1>7. /\ Cardinality(Elses(script, i, q)) \in Nat
      /\ Cardinality(Elses(script, i, q + 1)) =
                  Cardinality(Elses(script, i, q))
                  + (IF script[q].op = "ELSE" /\ Level(script, i) = Level(script, q - 1)
                     THEN 1 ELSE 0)
  BY <1>2, <1>3, <1>5, ElsesNext
<1>8. Level(script, i) \in 1..Len(v) /\ Level(script, i) <= Level(script, q)
  <2>1. PICK a \in Nat : a = Level(script, i - 1)
    BY <1>5
  <2>2. Len(v) \in Nat
    BY DEF Structured
  <2>3. Level(script, i) = a + 1 /\ a + 1 <= Len(v)
    BY <1>4, <1>5, <2>1
  <2>4. a + 1 <= Level(script, q)
    BY <1>3, <1>6, <2>1
  <2> QED
    BY <2>2, <2>3, <2>4
<1> QED
  BY <1>1, <1>2, <1>3, <1>5, <1>7, <1>8 DEF Structured

LEMMA StructuredSame ==
    ASSUME NEW script, NEW p \in Nat, NEW v, NEW ch, Structured(script, p, v, ch),
           script[p + 1].op \notin Opens \cup {"ELSE", "ENDIF"}
    PROVE  Structured(script, p + 1, v, ch)
<1>1. v \in Seq(BOOLEAN) /\ Len(v) \in Nat /\ DOMAIN ch \subseteq 1..(p + 1)
  BY DEF Structured
<1>2. LevelChange(script, p + 1) = 0 /\ Len(v) + 0 = Len(v)
  BY <1>1 DEF LevelChange
<1>3. /\ Level(script, p + 1) = Len(v)
      /\ \A j \in 0..(p + 1) : Level(script, j) \in Nat
  BY <1>1, <1>2, LevelsSoFar
<1>4. ASSUME NEW i \in 1..(p + 1), Encloses(script, i, (p + 1) + 1)
      PROVE  OfLevel(script, p + 1, v, ch, i)
  <2>1. (p + 1) + 1 = p + 2 /\ p + 1 \in Nat \ {0}
    OBVIOUS
  <2>2. i # p + 1
    BY <1>4, <2>1, EnclosesFacts
  <2>3. i \in 1..p
    BY <2>2
  <2>4. /\ OfLevel(script, p, v, ch, i)
        /\ Cardinality(Elses(script, i, p + 1)) \in Nat
        /\ Cardinality(Elses(script, i, p + 2)) = Cardinality(Elses(script, i, p + 1)) + 0
    BY <1>4, <2>1, <2>3, StillOpen
  <2>5. Cardinality(Elses(script, i, (p + 1) + 1)) = Cardinality(Elses(script, i, p + 1))
    BY <2>1, <2>4
  <2> QED
    BY <2>4, <2>5 DEF OfLevel
<1> QED
  BY <1>1, <1>3, <1>4 DEF Structured

LEMMA StructuredElse ==
    ASSUME NEW script, NEW p \in Nat, NEW v, NEW ch, Structured(script, p, v, ch),
           script[p + 1].op = "ELSE", Len(v) > 0, NEW w, w = [v EXCEPT ![Len(v)] = ~@]
    PROVE  Structured(script, p + 1, w, ch)
<1>1. v \in Seq(BOOLEAN) /\ Len(v) \in Nat /\ DOMAIN ch \subseteq 1..(p + 1)
  BY DEF Structured
<1>2. PICK b \in BOOLEAN : b = ~v[Len(v)]
  BY Zenon
<1>3. w = [v EXCEPT ![Len(v)] = b]
  BY <1>2, Zenon
<1>4. Len(v) \in 1..Len(v)
  BY <1>1
<1>5. /\ w \in Seq(BOOLEAN) /\ Len(w) = Len(v)
      /\ \A l \in 1..(Len(v) - 1) : w[l] = v[l]
      /\ w[Len(v)] = b
  BY <1>1, <1>3, <1>4
<1>6. w[Len(v)] = TRUE <=> ~(v[Len(v)] = TRUE)
  <2>1. v[Len(v)] \in BOOLEAN
    BY <1>1, <1>4
  <2> QED
    BY <1>2, <1>5, <2>1, Zenon
<1>7. LevelChange(script, p + 1) = 0 /\ Len(v) + 0 = Len(v)
  BY <1>1 DEF LevelChange, Opens
<1>8. /\ Level(script, p + 1) = Len(v)
      /\ \A j \in 0..(p + 1) : Level(script, j) \in Nat
  BY <1>1, <1>7, LevelsSoFar
<1>9. ASSUME NEW i \in 1..(p + 1), Encloses(script, i, (p + 1) + 1)
      PROVE  OfLevel(script, p + 1, w, ch, i)
  <2>1. (p + 1) + 1 = p + 2 /\ p + 1 \in Nat \ {0}
    OBVIOUS
  <2>2. i # p + 1
    <3>1. script[p + 1].op \notin Opens
      BY DEF Opens
    <3> QED
      BY <1>9, <2>1, <3>1, EnclosesFacts
  <2>3. i \in 1..p
    BY <2>2
  <2>4. PICK j \in 1..Len(v) : j = Level(script, i)
    BY <1>9, <2>1, <2>3, StillOpen
  <2>5. PICK c \in Nat : c = Cardinality(Elses(script, i, p + 1))
    BY <1>9, <2>1, <2>3, StillOpen
  <2>6. Cardinality(Elses(script, i, (p + 1) + 1)) = c + (IF j = Len(v) THEN 1 ELSE 0)
    BY <1>9, <2>1, <2>3, <2>4, <2>5, StillOpen
  <2>7. /\ i \in DOMAIN ch <=> \A l \in 1..(j - 1) : v[l] = TRUE
        /\ i \in DOMAIN ch => (v[j] = TRUE <=> (ch[i] = TRUE <=> c % 2 = 0))
    <3>1. OfLevel(script, p, v, ch, i)
      BY <1>9, <2>1, <2>3, StillOpen
    <3> QED
      BY <2>4, <2>5, <3>1 DEF OfLevel
  <2>8. \A l \in 1..(j - 1) : w[l] = v[l]
    <3>1. j <= Len(v)
      BY <2>4
    <3>2. \A l \in 1..(j - 1) : l \in 1..(Len(v) - 1)
      BY <1>1, <3>1
    <3> QED
      BY <1>5, <3>2, Zenon
  <2>9. CASE j = Len(v)
    <3>1. (c + 1) % 2 = 0 <=> ~(c % 2 = 0)
      OBVIOUS
    <3>2. w[j] = TRUE <=> ~(v[j] = TRUE)
      BY <1>6, <2>9
    <3> QED
      BY <2>4, <2>6, <2>7, <2>8, <2>9, <3>1, <3>2 DEF OfLevel
  <2>10. CASE j # Len(v)
    <3>1. w[j] = v[j]
      <4>1. j <= Len(v) /\ j # Len(v)
        BY <2>4, <2>10
      <4>2. j \in 1..(Len(v) - 1)
        BY <1>1, <4>1
      <4> QED
        BY <1>5, <4>2, Zenon
    <3>2. Cardinality(Elses(script, i, (p + 1) + 1)) = c
      BY <2>6, <2>10
    <3> QED
      BY <2>4, <2>7, <2>8, <3>1, <3>2 DEF OfLevel
  <2> QED
    BY <2>9, <2>10
<1> QED
  BY <1>1, <1>5, <1>8, <1>9 DEF Structured

LEMMA StructuredEndif ==
    ASSUME NEW script, NEW p \in Nat, NEW v, NEW ch, Structured(script, p, v, ch),
           script[p + 1].op = "ENDIF", Len(v) > 0, NEW w, w = SubSeq(v, 1, Len(v) - 1)
    PROVE  Structured(script, p + 1, w, ch)
<1>1. v \in Seq(BOOLEAN) /\ Len(v) \in Nat /\ DOMAIN ch \subseteq 1..(p + 1)
  BY DEF Structured
<1>2. PICK n \in Nat : n = Len(v) - 1
  BY <1>1
<1>3. w \in Seq(BOOLEAN) /\ Len(w) = n /\ \A l \in 1..n : w[l] = v[l]
  BY <1>1, <1>2
<1>4. n = Len(v) + LevelChange(script, p + 1)
  BY <1>1, <1>2 DEF LevelChange, Opens
<1>5. /\ Level(script, p + 1) = n
      /\ \A j \in 0..(p + 1) : Level(script, j) \in Nat
  BY <1>4, LevelsSoFar
<1>6. ASSUME NEW i \in 1..(p + 1), Encloses(script, i, (p + 1) + 1)
      PROVE  OfLevel(script, p + 1, w, ch, i)
  <2>1. (p + 1) + 1 = p + 2 /\ p + 1 \in Nat \ {0}
    OBVIOUS
  <2>2. i # p + 1
    <3>1. script[p + 1].op \notin Opens
      BY DEF Opens
    <3> QED
      BY <1>6, <2>1, <3>1, EnclosesFacts
  <2>3. i \in 1..p
    BY <2>2
  <2>4. PICK j \in 1..n : j = Level(script, i)
    BY <1>1, <1>2, <1>5, <1>6, <2>1, <2>3, StillOpen
  <2>5. /\ OfLevel(script, p, v, ch, i)
        /\ Cardinality(Elses(script, i, p + 1)) \in Nat
        /\ Cardinality(Elses(script, i, p + 2)) = Cardinality(Elses(script, i, p + 1)) + 0
    BY <1>6, <2>1, <2>3, StillOpen
  <2>6. Cardinality(Elses(script, i, (p + 1) + 1)) = Cardinality(Elses(script, i, p + 1))
    BY <2>1, <2>5
  <2>7. w[j] = v[j] /\ \A l \in 1..(j - 1) : w[l] = v[l]
    <3>1. \A l \in 1..j : l \in 1..n
      OBVIOUS
    <3> QED
      BY <1>3, <3>1
  <2> QED
    BY <2>4, <2>5, <2>6, <2>7 DEF OfLevel
<1> QED
  BY <1>1, <1>3, <1>5, <1>6 DEF Structured

LEMMA StructuredOpen ==
    ASSUME NEW script, NEW p \in Nat, NEW v, NEW ch, Structured(script, p, v, ch),
           script[p + 1].op \in Opens, NEW b \in BOOLEAN, NEW ch2,
           \/ (\A l \in 1..Len(v) : v[l] = TRUE) /\ ch2 = WithChoice(ch, p + 1, b)
           \/ (\E l \in 1..Len(v) : v[l] # TRUE) /\ ch2 = ch
    PROVE  Structured(script, p + 1, Append(v, b), ch2)
<1>1. v \in Seq(BOOLEAN) /\ Len(v) \in Nat /\ DOMAIN ch \subseteq 1..p
  BY DEF Structured
<1>2. PICK w : w = Append(v, b)
  OBVIOUS
<1>3. PICK n \in Nat : n = Len(v) + 1
  BY <1>1
<1>4. /\ w \in Seq(BOOLEAN) /\ Len(w) = n /\ w[n] = b
      /\ \A l \in 1..Len(v) : w[l] = v[l]
  BY <1>1, <1>2, <1>3
<1>5. n = Len(v) + LevelChange(script, p + 1)
  BY <1>3 DEF LevelChange
<1>6. /\ Level(script, p + 1) = n
      /\ \A j \in 0..(p + 1) : Level(script, j) \in Nat
  BY <1>5, LevelsSoFar
<1>7. /\ \A i \in 1..p : (i \in DOMAIN ch2 <=> i \in DOMAIN ch)
                         /\ (i \in DOMAIN ch => ch2[i] = ch[i])
      /\ DOMAIN ch2 \subseteq 1..(p + 1)
      /\ p + 1 \in DOMAIN ch2 <=> \A l \in 1..Len(v) : v[l] = TRUE
      /\ p + 1 \in DOMAIN ch2 => ch2[p + 1] = b
  <2>1. p + 1 \notin DOMAIN ch /\ \A i \in 1..p : i # p + 1
    BY <1>1
  <2>2. CASE (\A l \in 1..Len(v) : v[l] = TRUE) /\ ch2 = WithChoice(ch, p + 1, b)
    <3>1. /\ DOMAIN ch2 = {p + 1} \cup DOMAIN ch /\ ch2[p + 1] = b
          /\ \A i \in DOMAIN ch : i # p + 1 => ch2[i] = ch[i]
      BY <2>2 DEF WithChoice
    <3>2. \A i \in 1..p : (i \in DOMAIN ch2 <=> i \in DOMAIN ch)
                           /\ (i \in DOMAIN ch => ch2[i] = ch[i])
      BY <2>1, <3>1
    <3>3. DOMAIN ch2 \subseteq 1..(p + 1) /\ p + 1 \in DOMAIN ch2
      BY <1>1, <3>1
    <3> QED
      BY <2>2, <3>1, <3>2, <3>3
  <2>3. CASE (\E l \in 1..Len(v) : v[l] # TRUE) /\ ch2 = ch
    <3>1. DOMAIN ch2 \subseteq 1..(p + 1) /\ p + 1 \notin DOMAIN ch2
      BY <1>1, <2>1, <2>3
    <3>2. ~\A l \in 1..Len(v) : v[l] = TRUE
      BY <2>3
    <3> QED
      BY <2>3, <3>1, <3>2, Zenon
  <2>4. \/ (\A l \in 1..Len(v) : v[l] = TRUE) /\ ch2 = WithChoice(ch, p + 1, b)
        \/ (\E l \in 1..Len(v) : v[l] # TRUE) /\ ch2 = ch
    OBVIOUS
  <2> QED
    BY <2>2, <2>3, <2>4
<1>8. ASSUME NEW i \in 1..(p + 1), Encloses(script, i, (p + 1) + 1)
      PROVE  OfLevel(script, p + 1, w, ch2, i)
  <2>1. (p + 1) + 1 = p + 2 /\ p + 1 \in Nat \ {0} /\ script[p + 1].op # "ELSE"
    BY DEF Opens
  <2>2. CASE i = p + 1
    <3>1. Elses(script, i, (p + 1) + 1) = {}
      <4>1. (i + 1)..(((p + 1) + 1) - 1) = {}
        BY <2>2
      <4> QED
        BY <4>1 DEF Elses
    <3>2. Cardinality(Elses(script, i, (p + 1) + 1)) % 2 = 0
      <4>1. Cardinality(Elses(script, i, (p + 1) + 1)) = 0
        BY <3>1, FS_EmptySet
      <4>2. 0 % 2 = 0
        OBVIOUS
      <4> QED
        BY <4>1, <4>2
    <3>3. Level(script, i) = n /\ n - 1 = Len(v)
      BY <1>1, <1>3, <1>6, <2>2
    <3>4. (\A l \in 1..(n - 1) : w[l] = TRUE) <=> (\A l \in 1..Len(v) : v[l] = TRUE)
      BY <1>4, <3>3
    <3>5. i \in DOMAIN ch2 => (w[n] = TRUE <=> ch2[i] = TRUE)
      BY <1>4, <1>7, <2>2
    <3> QED
      BY <1>7, <2>2, <3>2, <3>3, <3>4, <3>5 DEF OfLevel
  <2>3. CASE i # p + 1
    <3>1. i \in 1..p
      BY <2>3
    <3>2. PICK j \in 1..Len(v) : j = Level(script, i)
      BY <1>8, <2>1, <3>1, StillOpen
    <3>3. /\ OfLevel(script, p, v, ch, i)
          /\ Cardinality(Elses(script, i, p + 1)) \in Nat
          /\ Cardinality(Elses(script, i, p + 2)) = Cardinality(Elses(script, i, p + 1)) + 0
      BY <1>8, <2>1, <3>1, StillOpen
    <3>4. Cardinality(Elses(script, i, (p + 1) + 1)) = Cardinality(Elses(script, i, p + 1))
      BY <2>1, <3>3
    <3>5. w[j] = v[j] /\ \A l \in 1..(j - 1) : w[l] = v[l]
      BY <1>1, <1>4, <3>2
    <3>6. /\ i \in DOMAIN ch2 <=> i \in DOMAIN ch
          /\ i \in DOMAIN ch => ch2[i] = ch[i]
      BY <1>7, <3>1
    <3> QED
      BY <3>2, <3>3, <3>4, <3>5, <3>6 DEF OfLevel
  <2> QED
    BY <2>2, <2>3
<1> QED
  BY <1>2, <1>4, <1>6, <1>7, <1>8 DEF Structured

-----------------------------------------------------------------------------
(* What one chunk does in a branch that is taken and in one that is not.   *)

LEMMA ReplacedByNone ==
    ASSUME NEW G, NEW m, MachineOK(m, G), 1 <= Depth(m), NEW n, n = Replace(m, 1, <<>>)
    PROVE  /\ MachineOK(n, G) /\ n.stack = Front(m.stack) /\ n.altstack = m.altstack
           /\ n.pbegincodehash = m.pbegincodehash /\ n.vfExec = m.vfExec
<1>1. Stack(m.stack, G) /\ Depth(m) = Len(m.stack) /\ Depth(m) \in Nat
  BY StackFacts DEF MachineOK, Depth
<1>2. 1 \in 0..Depth(m)
  BY <1>1
<1>3. /\ Kept(m, n, G) /\ n.altstack = m.altstack /\ n.stack = Below(m, 1) \o <<>>
  <2>1. \A none : Stack(none, G) =>
            /\ Kept(m, Replace(m, 1, none), G)
            /\ Replace(m, 1, none).altstack = m.altstack
            /\ Replace(m, 1, none).stack = Below(m, 1) \o none
    BY <1>2, ReplaceKept
  <2>2. Stack(<<>>, G)
    BY NoStack
  <2> QED
    BY <2>1, <2>2, Zenon
<1>4. Below(m, 1) = Front(m.stack)
  BY <1>1 DEF Below, Front
<1>5. Stack(Front(m.stack), G)
  BY <1>1, FrontOfStack
<1>6. Front(m.stack) \o <<>> = Front(m.stack)
  <2>1. PICK Y : Front(m.stack) \in Seq(Y)
    BY <1>5 DEF Stack
  <2> QED
    BY <2>1, ConcatEmptySeq
<1>7. n.pbegincodehash = m.pbegincodehash
  <2>1. n = [m EXCEPT !.stack = Below(m, 1) \o <<>>]
    BY DEF Replace
  <2> QED
    BY <2>1 DEF MachineOK, IsMachine
<1> QED
  BY <1>3, <1>4, <1>6, <1>7 DEF Kept

\* The outcomes of a conditional that does not fail.
Turned(m, n, op) ==
    \/ /\ op \in Opens /\ ~Executing(m)
       /\ n.stack = m.stack /\ n.vfExec = Append(m.vfExec, FALSE)
    \/ /\ op \in Opens /\ Executing(m) /\ n.stack = Front(m.stack)
       /\ \E b \in BOOLEAN : /\ b = (CastToBool(Top(m, 1)) <=> op = "IF")
                             /\ n.vfExec = Append(m.vfExec, b)
    \/ /\ op = "ELSE" /\ Len(m.vfExec) > 0
       /\ n.stack = m.stack /\ n.vfExec = [m.vfExec EXCEPT ![Len(m.vfExec)] = ~@]
    \/ /\ op = "ENDIF" /\ Len(m.vfExec) > 0
       /\ n.stack = m.stack /\ n.vfExec = SubSeq(m.vfExec, 1, Len(m.vfExec) - 1)

LEMMA WithBranches ==
    ASSUME NEW G, NEW m, MachineOK(m, G), NEW v, NEW n, n = [m EXCEPT !.vfExec = v]
    PROVE  /\ n.vfExec = v /\ n.stack = m.stack /\ n.altstack = m.altstack
           /\ n.pbegincodehash = m.pbegincodehash
BY DEF MachineOK, IsMachine

LEMMA ConditionalTurns ==
    ASSUME NEW G, NEW m, MachineOK(m, G), NEW op, NEW n, n = Conditional(m, op), n # Fail(m)
    PROVE  /\ n.altstack = m.altstack /\ n.pbegincodehash = m.pbegincodehash
           /\ Turned(m, n, op)
<1>1. PICK v : v = m.vfExec /\ v \in Seq(BOOLEAN) /\ Len(v) \in Nat
  BY DEF MachineOK
<1>2. CASE op \in {"IF", "NOTIF"}
  <2> DEFINE taken == [Replace(m, 1, <<>>) EXCEPT
                           !.vfExec = Append(@, CastToBool(Top(m, 1)) <=> op = "IF")]
             left  == [m EXCEPT !.vfExec = Append(@, FALSE)]
  <2>1. n = IF ~Executing(m) THEN left
            ELSE IF Depth(m) < 1 THEN Fail(m) ELSE taken
    BY <1>2, Zenon DEF Conditional
  <2>2. op \in Opens
    BY <1>2 DEF Opens
  <2>3. CASE ~Executing(m)
    <3>1. n = [m EXCEPT !.vfExec = Append(v, FALSE)]
      BY <1>1, <2>1, <2>3
    <3>2. PICK w : w = Append(v, FALSE)
      OBVIOUS
    <3>3. n = [m EXCEPT !.vfExec = w]
      BY <3>1, <3>2
    <3>4. /\ n.vfExec = w /\ n.stack = m.stack /\ n.altstack = m.altstack
          /\ n.pbegincodehash = m.pbegincodehash
      BY <3>3, WithBranches
    <3> QED
      BY <1>1, <2>2, <2>3, <3>2, <3>4, Zenon DEF Turned
  <2>4. CASE Executing(m)
    <3>1. ~(Depth(m) < 1) /\ n = taken
      BY <2>1, <2>4, Zenon
    <3>2. 1 <= Depth(m)
      BY <3>1, StackFacts DEF MachineOK, Depth
    <3>3. PICK o : o = Replace(m, 1, <<>>)
      OBVIOUS
    <3>4. /\ MachineOK(o, G) /\ o.stack = Front(m.stack) /\ o.altstack = m.altstack
          /\ o.pbegincodehash = m.pbegincodehash /\ o.vfExec = v
      BY <1>1, <3>2, <3>3, ReplacedByNone
    <3>5. PICK b \in BOOLEAN : b = (CastToBool(Top(m, 1)) <=> op = "IF")
      BY Zenon
    <3>6. n = [o EXCEPT !.vfExec = Append(@, b)]
      BY <3>1, <3>3, <3>5, Zenon
    <3>7. PICK w : w = Append(v, b)
      OBVIOUS
    <3>8. n = [o EXCEPT !.vfExec = w]
      BY <3>4, <3>6, <3>7
    <3>9. /\ n.vfExec = w /\ n.stack = o.stack /\ n.altstack = o.altstack
          /\ n.pbegincodehash = o.pbegincodehash
      BY <3>4, <3>8, WithBranches
    <3>10. n.stack = Front(m.stack) /\ n.vfExec = Append(m.vfExec, b)
      BY <1>1, <3>4, <3>7, <3>9
    <3>11. Turned(m, n, op)
      BY <2>2, <2>4, <3>5, <3>10, Zenon DEF Turned
    <3> QED
      BY <3>4, <3>9, <3>11
  <2> QED
    BY <2>3, <2>4
<1>3. CASE op = "ELSE"
  <2>1. n = IF Len(v) = 0 THEN Fail(m) ELSE [m EXCEPT !.vfExec[Len(v)] = ~@]
    BY <1>1, <1>3, Zenon DEF Conditional
  <2>2. Len(v) > 0
    BY <1>1, <2>1
  <2>3. PICK w : w = [v EXCEPT ![Len(v)] = ~@]
    OBVIOUS
  <2>4. n = [m EXCEPT !.vfExec = w]
    BY <1>1, <2>1, <2>2, <2>3
  <2>5. /\ n.vfExec = w /\ n.stack = m.stack /\ n.altstack = m.altstack
        /\ n.pbegincodehash = m.pbegincodehash
    BY <2>4, WithBranches
  <2> QED
    BY <1>1, <1>3, <2>2, <2>3, <2>5, Zenon DEF Turned
<1>4. CASE op = "ENDIF"
  <2>1. n = IF Len(v) = 0 THEN Fail(m) ELSE [m EXCEPT !.vfExec = SubSeq(@, 1, Len(v) - 1)]
    BY <1>1, <1>4, Zenon DEF Conditional
  <2>2. Len(v) > 0
    BY <1>1, <2>1
  <2>3. PICK w : w = SubSeq(v, 1, Len(v) - 1)
    OBVIOUS
  <2>4. n = [m EXCEPT !.vfExec = w]
    BY <1>1, <2>1, <2>2, <2>3
  <2>5. /\ n.vfExec = w /\ n.stack = m.stack /\ n.altstack = m.altstack
        /\ n.pbegincodehash = m.pbegincodehash
    BY <2>4, WithBranches
  <2> QED
    BY <1>1, <1>4, <2>2, <2>3, <2>5, Zenon DEF Turned
<1>5. CASE op \notin {"IF", "NOTIF", "ELSE", "ENDIF"}
  <2>1. n = Fail(m)
    BY <1>5, Zenon DEF Conditional
  <2> QED
    BY <2>1
<1> QED
  BY <1>2, <1>3, <1>4, <1>5

LEMMA OnePushed ==
    ASSUME NEW G, NEW m, MachineOK(m, G), NEW item, NEW n, n = PushOn(m, item)
    PROVE  Front(n.stack) = m.stack
<1>1. PICK H : MachineOK(m, H) /\ (IsSignature(item) => item \in H)
  <2>1. MachineOK(m, G \cup {item})
    BY MoreSignatures
  <2> QED
    BY <2>1
<1>2. PICK d \in Nat : d = Depth(m) /\ d = Len(m.stack) /\ DOMAIN m.stack = 1..d
  BY <1>1, StackFacts DEF MachineOK, Depth
<1>3. PICK Y : m.stack \in Seq(Y)
  BY <1>1 DEF MachineOK, Stack
<1>4. Stack(<<item>>, H) /\ 0 \in 0..Depth(m)
  BY <1>1, <1>2, OneItem
<1>5. n.stack = Below(m, 0) \o <<item>>
  BY <1>1, <1>4, ReplaceKept DEF PushOn
<1>6. Below(m, 0) = m.stack
  <2>1. SubSeq(m.stack, 1, d) = m.stack
    BY <1>2, <1>3
  <2>2. d - 0 = d
    BY <1>2
  <2> QED
    BY <1>2, <2>1, <2>2 DEF Below
<1>7. n.stack = Append(m.stack, item)
  BY <1>3, <1>5, <1>6
<1>8. Front(Append(m.stack, item)) = m.stack
  <2>1. PICK Z : m.stack \in Seq(Z) /\ item \in Z
    <3>1. m.stack \in Seq(Y \cup {item})
      BY <1>3, SeqMonotonic
    <3> QED
      BY <3>1
  <2>2. Append(m.stack, item) \in Seq(Z) /\ Len(Append(m.stack, item)) = d + 1
    BY <1>2, <2>1
  <2>3. SubSeq(Append(m.stack, item), 1, d) = m.stack
    BY <1>2, <2>1, <2>2
  <2>4. (d + 1) - 1 = d
    BY <1>2
  <2> QED
    BY <2>2, <2>3, <2>4 DEF Front
<1> QED
  BY <1>7, <1>8

\* What a chunk that does not fail does to the stacks, and to vfExec.
StacksFollow(m, n, c) ==
    /\ ~Executing(m) => /\ n.stack = m.stack /\ n.altstack = m.altstack
                        /\ n.pbegincodehash = m.pbegincodehash
    /\ Executing(m) /\ c.op \in Opens => n.stack = Front(m.stack)
    /\ Executing(m) /\ c.op \in {"PUSH", "SMALLINT"} => Front(n.stack) = m.stack

LEMMA StepFollows ==
    ASSUME NEW G, NEW m, MachineOK(m, G), NEW n, n = Step(m), n.failed = FALSE,
           NEW c, c = CurrentChunk(m)
    PROVE  /\ StacksFollow(m, n, c)
           /\ IF c.op \in Opens \cup {"ELSE", "ENDIF"}
              THEN Turned(m, n, c.op) ELSE n.vfExec = m.vfExec
<1>1. PICK r : r = Read(m)
  OBVIOUS
<1>2. /\ MachineOK(r, G) /\ r.stack = m.stack /\ r.altstack = m.altstack
      /\ r.vfExec = m.vfExec /\ r.pbegincodehash = m.pbegincodehash
  BY <1>1, ReadKept
<1>3. n # Fail(r)
  <2>1. Fail(r).failed = TRUE
    BY <1>2, FailKept
  <2> QED
    BY <2>1
<1>4. Opens \cup {"ELSE", "ENDIF"} \subseteq Conditionals /\ "ELSE" \notin Opens /\ "ENDIF" \notin Opens
  BY DEF Opens, Conditionals
<1>5. (Executing(r) <=> Executing(m)) /\ Top(r, 1) = Top(m, 1)
  BY <1>2 DEF Executing, Top, Depth
<1>6. CASE c.op \in Conditionals
  <2>1. n = Conditional(r, c.op)
    BY <1>1, <1>3, <1>6, StepIs
  <2>2. /\ n.altstack = r.altstack /\ n.pbegincodehash = r.pbegincodehash
        /\ Turned(r, n, c.op)
    BY <1>2, <1>3, <2>1, ConditionalTurns
  <2>3. Turned(m, n, c.op)
    BY <1>2, <1>5, <2>2 DEF Turned
  <2>4. StacksFollow(m, n, c)
    <3>1. c.op \notin {"PUSH", "SMALLINT"}
      BY <1>6 DEF Conditionals
    <3>2. n.altstack = m.altstack /\ n.pbegincodehash = m.pbegincodehash
      BY <1>2, <2>2
    <3>3. ~Executing(m) => n.stack = m.stack
      BY <2>3 DEF Turned
    <3>4. Executing(m) /\ c.op \in Opens => n.stack = Front(m.stack)
      BY <1>4, <2>3 DEF Turned
    <3> QED
      BY <3>1, <3>2, <3>3, <3>4 DEF StacksFollow
  <2>5. c.op \in Opens \cup {"ELSE", "ENDIF"}
    BY <2>3 DEF Turned
  <2> QED
    BY <2>3, <2>4, <2>5
<1>7. CASE c.op \notin Conditionals /\ ~Executing(m)
  <2>1. n = r
    BY <1>1, <1>3, <1>7, StepIs
  <2> QED
    BY <1>2, <1>4, <1>7, <2>1 DEF StacksFollow
<1>8. CASE c.op \notin Conditionals /\ Executing(m)
  <2>1. n = Execute(r, c)
    BY <1>1, <1>3, <1>8, StepIs
  <2>2. n.vfExec = m.vfExec
    <3>1. PICK H : MachineOK(r, H) /\ c.item \in H
      <4>1. MachineOK(r, G \cup {c.item})
        BY <1>2, MoreSignatures
      <4> QED
        BY <4>1
    <3>2. Kept(r, Execute(r, c), H)
      BY <3>1, ExecuteKept
    <3> QED
      BY <1>2, <2>1, <3>2 DEF Kept
  <2>3. ASSUME c.op \in {"PUSH", "SMALLINT"} PROVE Front(n.stack) = m.stack
    <3>1. c.op \notin PlainOps /\ c.op \notin Nops
      BY <2>3, RearrangedOps DEF PlainOps, Nops, Unary, Binary, Hashes
    <3>2. \E item : n = PushOn(r, item)
      <4>1. CASE c.op = "PUSH"
        <5>1. Execute(r, c) = Fail(r) \/ Execute(r, c) = PushOn(r, c.item)
          BY <3>1, <4>1, Zenon DEF Execute
        <5> QED
          BY <1>3, <2>1, <5>1
      <4>2. CASE c.op = "SMALLINT"
        <5>1. Execute(r, c) = PushOn(r, Num(c.n))
          BY <3>1, <4>2, Zenon DEF Execute
        <5> QED
          BY <2>1, <5>1
      <4> QED
        BY <2>3, <4>1, <4>2
    <3> QED
      BY <1>2, <3>2, OnePushed
  <2>4. StacksFollow(m, n, c)
    BY <1>4, <1>8, <2>3 DEF StacksFollow
  <2> QED
    BY <1>4, <1>8, <2>2, <2>4
<1> QED
  BY <1>6, <1>7, <1>8

-----------------------------------------------------------------------------
(* vfExec follows the structure of the script. *)

\* What Chunk makes of chosen.
Choice(m, n, ch) ==
    IF CurrentChunk(m).op \in {"IF", "NOTIF"} /\ Executing(m)
    THEN WithChoice(ch, n.pc, CastToBool(Top(m, 1)) <=> CurrentChunk(m).op = "IF")
    ELSE ch

LEMMA StructuredStep ==
    ASSUME NEW G, NEW m, MachineOK(m, G), NEW n, n = Step(m), n.failed = FALSE,
           NEW script, script = m.script, NEW p \in Nat, p = m.pc, n.pc = p + 1,
           NEW ch, Structured(script, p, m.vfExec, ch)
    PROVE  Structured(script, p + 1, n.vfExec, Choice(m, n, ch))
<1>1. PICK c : c = CurrentChunk(m) /\ c = script[p + 1]
  BY DEF CurrentChunk
<1>2. IF c.op \in Opens \cup {"ELSE", "ENDIF"}
      THEN Turned(m, n, c.op) ELSE n.vfExec = m.vfExec
  BY <1>1, StepFollows
<1>3. PICK v : v = m.vfExec /\ v \in Seq(BOOLEAN) /\ DOMAIN v = 1..Len(v)
  BY DEF MachineOK
<1>4. Executing(m) <=> \A l \in 1..Len(v) : v[l] = TRUE
  BY <1>3 DEF Executing
<1>5. c.op \notin Opens => Choice(m, n, ch) = ch
  BY <1>1 DEF Choice, Opens
<1>6. CASE c.op \notin Opens \cup {"ELSE", "ENDIF"}
  BY <1>1, <1>2, <1>3, <1>5, <1>6, StructuredSame
<1>7. CASE c.op = "ELSE"
  <2>1. Len(v) > 0 /\ n.vfExec = [v EXCEPT ![Len(v)] = ~@] /\ c.op \notin Opens
    BY <1>2, <1>3, <1>7 DEF Turned, Opens
  <2> QED
    BY <1>1, <1>3, <1>5, <1>7, <2>1, StructuredElse
<1>8. CASE c.op = "ENDIF"
  <2>1. Len(v) > 0 /\ n.vfExec = SubSeq(v, 1, Len(v) - 1) /\ c.op \notin Opens
    BY <1>2, <1>3, <1>8 DEF Turned, Opens
  <2> QED
    BY <1>1, <1>3, <1>5, <1>8, <2>1, StructuredEndif
<1>9. CASE c.op \in Opens /\ ~Executing(m)
  <2>1. n.vfExec = Append(v, FALSE)
    BY <1>2, <1>3, <1>9 DEF Turned, Opens
  <2>2. Choice(m, n, ch) = ch
    BY <1>9 DEF Choice
  <2>3. \E l \in 1..Len(v) : v[l] # TRUE
    BY <1>4, <1>9
  <2> QED
    BY <1>1, <1>3, <1>9, <2>1, <2>2, <2>3, StructuredOpen
<1>10. CASE c.op \in Opens /\ Executing(m)
  <2>1. PICK b \in BOOLEAN : /\ b = (CastToBool(Top(m, 1)) <=> c.op = "IF")
                             /\ n.vfExec = Append(m.vfExec, b)
    BY <1>2, <1>10 DEF Turned, Opens
  <2>2. Choice(m, n, ch) = WithChoice(ch, p + 1, b)
    <3>1. c.op \in {"IF", "NOTIF"}
      BY <1>10 DEF Opens
    <3>2. Choice(m, n, ch) = WithChoice(ch, n.pc, CastToBool(Top(m, 1)) <=> c.op = "IF")
      BY <1>1, <1>10, <3>1, Zenon DEF Choice
    <3> QED
      BY <2>1, <3>2, Zenon
  <2>3. \A l \in 1..Len(v) : v[l] = TRUE
    BY <1>4, <1>10
  <2>4. Structured(script, p + 1, Append(v, b), WithChoice(ch, p + 1, b))
    BY <1>1, <1>3, <1>10, <2>3, StructuredOpen
  <2> QED
    BY <1>3, <2>1, <2>2, <2>4
<1> QED
  BY <1>6, <1>7, <1>8, <1>9, <1>10

\* A chunk is executed exactly when it lies in the halves that were chosen.
LEMMA ExecutingIsTaken ==
    ASSUME NEW script, NEW p \in Nat, NEW v, NEW ch, Structured(script, p, v, ch)
    PROVE  (\A l \in 1..Len(v) : v[l] = TRUE)
               <=> \A i \in 1..p : Encloses(script, i, p + 1) =>
                       /\ i \in DOMAIN ch
                       /\ ch[i] = TRUE <=> Cardinality(Elses(script, i, p + 1)) % 2 = 0
<1>1. v \in Seq(BOOLEAN) /\ Len(v) \in Nat /\ Level(script, p) = Len(v)
  BY DEF Structured
<1>2. p + 1 \in Nat \ {0} /\ (p + 1) - 1 = p
  OBVIOUS
<1>3. \A i \in 1..p : Encloses(script, i, p + 1) =>
          OfLevel(script, p, v, ch, i) /\ Level(script, i) \in 1..Len(v)
  <2> SUFFICES ASSUME NEW i \in 1..p, Encloses(script, i, p + 1)
               PROVE  OfLevel(script, p, v, ch, i) /\ Level(script, i) \in 1..Len(v)
    OBVIOUS
  <2>1. OfLevel(script, p, v, ch, i)
    BY DEF Structured
  <2>2. i \in 1..(p + 1)
    OBVIOUS
  <2>3. /\ Level(script, i) = Level(script, i - 1) + 1
        /\ Level(script, i) <= Level(script, (p + 1) - 1)
    BY <1>2, <2>2, EnclosesFacts
  <2>4. i - 1 \in 0..p
    OBVIOUS
  <2>5. Level(script, i - 1) \in Nat
    BY <2>4 DEF Structured
  <2>6. PICK a \in Nat : a = Level(script, i - 1)
    BY <2>5
  <2>7. Level(script, i) = a + 1 /\ a + 1 <= Len(v)
    BY <1>1, <1>2, <2>3, <2>6
  <2> QED
    BY <1>1, <2>1, <2>7
<1>4. ASSUME \A l \in 1..Len(v) : v[l] = TRUE, NEW i \in 1..p, Encloses(script, i, p + 1)
      PROVE  /\ i \in DOMAIN ch
             /\ ch[i] = TRUE <=> Cardinality(Elses(script, i, p + 1)) % 2 = 0
  <2>1. PICK j \in 1..Len(v) : j = Level(script, i)
    BY <1>3, <1>4
  <2>2. OfLevel(script, p, v, ch, i)
    BY <1>3, <1>4
  <2>3. v[j] = TRUE /\ \A l \in 1..(j - 1) : v[l] = TRUE
    BY <1>1, <1>4
  <2> QED
    BY <2>1, <2>2, <2>3 DEF OfLevel
<1>5. ASSUME \A i \in 1..p : Encloses(script, i, p + 1) =>
                 /\ i \in DOMAIN ch
                 /\ ch[i] = TRUE <=> Cardinality(Elses(script, i, p + 1)) % 2 = 0,
             NEW l \in 1..Len(v)
      PROVE  v[l] = TRUE
  <2>1. l \in Nat \ {0} /\ l <= Level(script, (p + 1) - 1)
    BY <1>1, <1>2
  <2>2. PICK i \in 1..(p + 1) : Encloses(script, i, p + 1) /\ Level(script, i) = l
    BY <1>2, <2>1, OpenedAt
  <2>3. i \in 1..p
    BY <2>2, EnclosesFacts, <1>2
  <2>4. OfLevel(script, p, v, ch, i)
    BY <1>3, <2>2, <2>3
  <2>5. i \in DOMAIN ch /\ (ch[i] = TRUE <=> Cardinality(Elses(script, i, p + 1)) % 2 = 0)
    BY <1>5, <2>2, <2>3
  <2> QED
    BY <2>2, <2>4, <2>5 DEF OfLevel
<1> QED
  BY <1>4, <1>5

LEMMA StructuredStart ==
    ASSUME NEW script
    PROVE  Structured(script, 0, <<>>, <<>>)
<1>1. Level(script, 0) = 0
  BY LevelNext
<1>2. \A j \in 0..0 : j = 0
  OBVIOUS
<1> QED
  BY <1>1, <1>2 DEF Structured

LEMMA ClosedIsBalanced ==
    ASSUME NEW script, script \in Seq(ToSet(script)), NEW ch,
           Structured(script, Len(script), <<>>, ch)
    PROVE  Balanced(script)
<1>1. Len(script) \in Nat /\ DOMAIN script = 1..Len(script)
  OBVIOUS
<1>2. ASSUME NEW p \in Nat
      PROVE  Count(script, Opens, 1, p) \in Nat /\ Count(script, {"ENDIF"}, 1, p) \in Nat
  <2>1. 1 \in Nat \ {0} /\ 1 <= p + 1
    OBVIOUS
  <2> QED
    BY <2>1, CountMore
<1>3. Level(script, Len(script)) = 0 /\ \A j \in 0..Len(script) : Level(script, j) \in Nat
  BY DEF Structured
<1>4. Count(script, Opens, 1, Len(script)) = Count(script, {"ENDIF"}, 1, Len(script))
  BY <1>1, <1>2, <1>3 DEF Level
<1>5. ASSUME NEW i \in DOMAIN script
      PROVE  Count(script, {"ENDIF"}, 1, i) <= Count(script, Opens, 1, i)
  <2>1. i \in 0..Len(script) /\ i \in Nat
    BY <1>1
  <2>2. PICK a \in Nat : a = Count(script, Opens, 1, i)
    BY <1>2, <2>1
  <2>3. PICK b \in Nat : b = Count(script, {"ENDIF"}, 1, i)
    BY <1>2, <2>1
  <2>4. a - b \in Nat
    BY <1>3, <2>1, <2>2, <2>3 DEF Level
  <2>5. b <= a
    BY <2>4
  <2> QED
    BY <2>2, <2>3, <2>5
<1> QED
  BY <1>4, <1>5 DEF Balanced

\* Where verify is in its scripts, and what vfExec and chosen say of the one it runs.
BranchInv ==
    /\ spend \in Spends /\ machine.tx = Tx /\ machine.nin = 1
    /\ phase = "sig" => machine.script = spend.scriptSig
    /\ phase = "pubkey" => machine.script = spend.scriptPubkey
    /\ phase = "redeem" => machine.script = Decides(spend)
    /\ Running => machine.pc \in 0..Len(machine.script)
    /\ \A i \in DOMAIN chosen : chosen[i] \in BOOLEAN
    /\ Running /\ machine.failed = FALSE
           => Structured(machine.script, machine.pc, machine.vfExec, chosen)
    /\ phase = "pubkey" /\ NeedsRedeem(spend) /\ machine.failed = FALSE
           => /\ HashTrace(machine, stackCopy, Decides(spend))
              /\ machine.pc < Len(machine.script)
                     => machine.vfExec = <<>> /\ machine.pbegincodehash = 0

LEMMA ScriptsAreScripts ==
    ASSUME NEW s \in Spends
    PROVE  /\ s.scriptSig \in Seq(ToSet(s.scriptSig))
           /\ s.scriptPubkey \in Seq(ToSet(s.scriptPubkey))
           /\ Decides(s) \in Seq(ToSet(Decides(s)))
           /\ NeedsRedeem(s) => /\ ChunksOfHash(s.scriptPubkey, Decides(s))
                                /\ NoSigs(s.scriptPubkey)
<1>1. /\ IsScript(s.scriptSig) /\ IsScript(s.scriptPubkey) /\ IsScript(Decides(s))
      /\ NeedsRedeem(s) => s.scriptPubkey[2].item = Hash("HASH160", Serialized(Decides(s)))
  BY SpendsOfScripts
<1>2. ASSUME NeedsRedeem(s)
      PROVE  ChunksOfHash(s.scriptPubkey, Decides(s)) /\ NoSigs(s.scriptPubkey)
  <2>1. IsScriptHashOut(s.scriptPubkey) /\ s.scriptPubkey \in Seq(ToSet(s.scriptPubkey))
    BY <1>1, <1>2 DEF NeedsRedeem, IsScript
  <2> QED
    BY <1>1, <1>2, <2>1, HashChunks
<1> QED
  BY <1>1, <1>2 DEF IsScript

LEMMA ChosenStays ==
    ASSUME NEW ch, \A i \in DOMAIN ch : ch[i] \in BOOLEAN, NEW m, NEW n
    PROVE  \A i \in DOMAIN Choice(m, n, ch) : Choice(m, n, ch)[i] \in BOOLEAN
<1>1. ASSUME NEW b \in BOOLEAN, NEW j
      PROVE  \A i \in DOMAIN WithChoice(ch, j, b) : WithChoice(ch, j, b)[i] \in BOOLEAN
  BY <1>1 DEF WithChoice
<1>2. PICK b \in BOOLEAN : b = (CastToBool(Top(m, 1)) <=> CurrentChunk(m).op = "IF")
  BY Zenon
<1>3. Choice(m, n, ch) = WithChoice(ch, n.pc, b) \/ Choice(m, n, ch) = ch
  BY <1>2, Zenon DEF Choice
<1> QED
  BY <1>1, <1>3

LEMMA BranchesAtStart == Init => BranchInv
<1> SUFFICES ASSUME Init PROVE BranchInv
  OBVIOUS
<1>1. machine = Machine(spend.scriptSig, <<>>, Tx, 1, spend.flags) /\ chosen = <<>>
      /\ spend \in Spends /\ phase \in {"sig", "rejected"}
  BY DEF Init, SigMachine
<1>2. /\ machine.script = spend.scriptSig /\ machine.pc = 0 /\ machine.tx = Tx
      /\ machine.nin = 1 /\ machine.vfExec = <<>>
  BY <1>1 DEF Machine
<1>3. machine.pc \in 0..Len(machine.script)
  BY <1>1, <1>2, ScriptsAreScripts
<1>4. Structured(machine.script, machine.pc, machine.vfExec, chosen)
  BY <1>1, <1>2, StructuredStart
<1> QED
  BY <1>1, <1>2, <1>3, <1>4 DEF BranchInv

LEMMA BranchesAtChunk == BranchInv /\ MachineInv /\ Chunk => BranchInv'
<1> SUFFICES ASSUME BranchInv, MachineInv, Chunk PROVE BranchInv'
  OBVIOUS
<1>1. /\ machine' = Step(machine) /\ spend' = spend /\ phase' = phase /\ stackCopy' = stackCopy
      /\ phase \in {"sig", "pubkey", "redeem"} /\ ~machine.failed
      /\ machine.pc # Len(machine.script)
  BY DEF Chunk, Running, Finished
<1>2. PICK m : m = machine
  OBVIOUS
<1>3. PICK n : n = machine' /\ n = Step(m)
  BY <1>1, <1>2
<1>4. PICK G : MachineOK(m, G) /\ CurrentChunk(m).item \in G
  <2>1. PICK H : MachineOK(m, H)
    BY <1>2 DEF MachineInv
  <2>2. MachineOK(m, H \cup {CurrentChunk(m).item})
    BY <2>1, MoreSignatures
  <2> QED
    BY <2>2
<1>5. m.failed = FALSE
  BY <1>1, <1>2, <1>4 DEF MachineOK
<1>6. /\ MachineOK(n, G) /\ n.pc = m.pc + 1 /\ n.script = m.script
      /\ n.tx = m.tx /\ n.nin = m.nin
  BY <1>3, <1>4, StepKept
<1>7. PICK script : script = m.script /\ script \in Seq(ToSet(script))
  BY <1>1, <1>2, ScriptsAreScripts DEF BranchInv
<1>8. PICK p \in Nat : p = m.pc /\ p < Len(script) /\ p \in 0..(Len(script) - 1)
  BY <1>1, <1>2, <1>7 DEF BranchInv, Running
<1>9. n.pc = p + 1 /\ n.pc \in 0..Len(script)
  BY <1>6, <1>7, <1>8
<1>10. chosen' = Choice(m, n, chosen) \/ chosen' = chosen
  BY <1>2, <1>3, Zenon DEF Chunk, Choice
<1>11. \A i \in DOMAIN chosen' : chosen'[i] \in BOOLEAN
  <2>1. \A i \in DOMAIN chosen : chosen[i] \in BOOLEAN
    BY DEF BranchInv
  <2>2. \A i \in DOMAIN Choice(m, n, chosen) : Choice(m, n, chosen)[i] \in BOOLEAN
    BY <2>1, ChosenStays
  <2> QED
    BY <1>10, <2>1, <2>2
<1>12. ASSUME n.failed = FALSE PROVE Structured(script, p + 1, n.vfExec, chosen')
  <2>1. chosen' = Choice(m, n, chosen)
    BY <1>2, <1>3, <1>12, Zenon DEF Chunk, Choice
  <2>2. Structured(script, p, m.vfExec, chosen)
    BY <1>1, <1>2, <1>5, <1>7, <1>8 DEF BranchInv, Running
  <2> QED
    BY <1>3, <1>4, <1>7, <1>8, <1>9, <1>12, <2>1, <2>2, StructuredStep
<1>13. ASSUME phase = "pubkey", NeedsRedeem(spend), n.failed = FALSE
       PROVE  /\ HashTrace(n, stackCopy, Decides(spend))
              /\ n.vfExec = <<>> /\ n.pbegincodehash = 0
  <2>1. ChunksOfHash(script, Decides(spend)) /\ NoSigs(script)
    BY <1>2, <1>7, <1>13, ScriptsAreScripts DEF BranchInv
  <2>2. /\ HashTrace(m, stackCopy, Decides(spend))
        /\ m.vfExec = <<>> /\ m.pbegincodehash = 0
    BY <1>2, <1>5, <1>7, <1>8, <1>13 DEF BranchInv
  <2>3. Runs(m, script, G)
    BY <1>2, <1>4, <1>5, <1>7, <2>1, <2>2 DEF Runs, BranchInv
  <2>4. m.pc \in 0..2
    BY <1>8, <2>1 DEF ChunksOfHash
  <2>5. PICK redeem : redeem = Decides(spend)
    OBVIOUS
  <2>6. Step(m).failed = FALSE /\ ChunksOfHash(script, redeem) /\ HashTrace(m, stackCopy, redeem)
    BY <1>3, <1>13, <2>1, <2>2, <2>5
  <2>7. /\ HashTrace(Step(m), stackCopy, redeem)
        /\ Step(m).vfExec = m.vfExec /\ Step(m).pbegincodehash = m.pbegincodehash
    BY <2>3, <2>4, <2>6, HashStep
  <2>8. /\ HashTrace(n, stackCopy, Decides(spend))
        /\ n.vfExec = m.vfExec /\ n.pbegincodehash = m.pbegincodehash
    BY <1>3, <2>5, <2>7
  <2> QED
    BY <2>2, <2>8
<1>14. /\ spend \in Spends /\ machine.tx = Tx /\ machine.nin = 1
       /\ phase = "sig" => machine.script = spend.scriptSig
       /\ phase = "pubkey" => machine.script = spend.scriptPubkey
       /\ phase = "redeem" => machine.script = Decides(spend)
  BY DEF BranchInv
<1> QED
  BY <1>1, <1>2, <1>3, <1>6, <1>7, <1>9, <1>11, <1>12, <1>13, <1>14 DEF BranchInv, Running

LEMMA BranchesAtRest == BranchInv /\ MachineInv /\ [Reject \/ SpendOutput \/ Redeem \/ Accept]_vars => BranchInv'
<1> SUFFICES ASSUME BranchInv, MachineInv, [Reject \/ SpendOutput \/ Redeem \/ Accept]_vars
             PROVE  BranchInv'
  OBVIOUS
<1>1. /\ spend \in Spends /\ machine.tx = Tx /\ machine.nin = 1
      /\ \A i \in DOMAIN chosen : chosen[i] \in BOOLEAN
  BY DEF BranchInv
<1>2. EndsTrue(machine) => machine.failed = FALSE /\ CastToBool(Last(machine.stack))
  BY DEF EndsTrue, Evaluated, MachineInv, MachineOK
<1>3. CASE Reject
  <2>1. /\ phase' = "rejected" /\ spend' = spend /\ machine' = machine /\ chosen' = chosen
        /\ stackCopy' = stackCopy
    BY <1>3 DEF Reject, Finish
  <2> QED
    BY <1>1, <2>1 DEF BranchInv, Running
<1>4. CASE SpendOutput
  <2>1. /\ phase' = "pubkey" /\ stackCopy' = machine.stack /\ spend' = spend /\ chosen' = <<>>
        /\ machine' = Machine(spend.scriptPubkey, machine.stack, Tx, 1, spend.flags)
    BY <1>1, <1>4 DEF SpendOutput, Begin, PubkeyMachine
  <2>2. PICK n : n = machine'
    OBVIOUS
  <2>3. /\ n.script = spend.scriptPubkey /\ n.pc = 0 /\ n.stack = machine.stack
        /\ n.vfExec = <<>> /\ n.pbegincodehash = 0 /\ n.tx = Tx /\ n.nin = 1
    BY <2>1, <2>2 DEF Machine
  <2>4. n.pc \in 0..Len(n.script)
    BY <1>1, <2>3, ScriptsAreScripts
  <2>5. Structured(n.script, n.pc, n.vfExec, chosen')
    BY <2>1, <2>3, StructuredStart
  <2>6. HashTrace(n, machine.stack, Decides(spend))
    BY <2>3 DEF HashTrace
  <2> QED
    BY <1>1, <2>1, <2>2, <2>3, <2>4, <2>5, <2>6 DEF BranchInv, Running
<1>5. CASE Redeem
  <2>1. /\ phase = "pubkey" /\ machine.pc = Len(machine.script) /\ EndsTrue(machine)
        /\ NeedsRedeem(spend) /\ phase' = "redeem" /\ stackCopy' = stackCopy
        /\ spend' = spend /\ chosen' = <<>>
        /\ machine' = RedeemMachine(spend, stackCopy, machine)
    BY <1>5 DEF Redeem, Begin, Finished
  <2>2. Last(stackCopy) = Serialized(Decides(spend))
    <3>1. HashTrace(machine, stackCopy, Decides(spend)) /\ machine.script = spend.scriptPubkey
      BY <1>2, <2>1 DEF BranchInv
    <3>2. machine.pc = 3
      BY <1>1, <2>1, <3>1, ScriptsAreScripts DEF ChunksOfHash
    <3> QED
      BY <1>2, <2>1, <3>1, <3>2 DEF HashTrace
  <2>3. machine' = Machine(Decides(spend), Front(stackCopy), Tx, 1, spend.flags)
    <3>1. Last(stackCopy).script = Decides(spend)
      BY <2>2 DEF Serialized
    <3> QED
      BY <1>1, <2>1, <3>1 DEF RedeemMachine
  <2>4. PICK n : n = machine'
    OBVIOUS
  <2>5. /\ n.script = Decides(spend) /\ n.pc = 0 /\ n.vfExec = <<>> /\ n.tx = Tx /\ n.nin = 1
    BY <2>3, <2>4 DEF Machine
  <2>6. n.pc \in 0..Len(n.script)
    BY <1>1, <2>5, ScriptsAreScripts
  <2>7. Structured(n.script, n.pc, n.vfExec, chosen')
    BY <2>1, <2>5, StructuredStart
  <2> QED
    BY <1>1, <2>1, <2>4, <2>5, <2>6, <2>7 DEF BranchInv, Running
<1>6. CASE Accept
  <2>1. /\ phase' = "accepted" /\ spend' = spend /\ machine' = machine /\ chosen' = chosen
        /\ stackCopy' = stackCopy
    BY <1>6 DEF Accept, Finish
  <2> QED
    BY <1>1, <2>1 DEF BranchInv, Running
<1>7. CASE UNCHANGED vars
  BY <1>7 DEF vars, BranchInv, Running
<1> QED
  BY <1>3, <1>4, <1>5, <1>6, <1>7

\* A chunk changes the stacks only in the branches its script has chosen, a conditional takes
\* its condition off the stack only there, a push there is never left out, and a script that
\* passes has every conditional closed (step of interpreter.js): vfExec has a value for each
\* conditional that the structure of the script leaves open, and that value is TRUE exactly
\* in the half which the conditional chose.
THEOREM BranchesAreTaken == Spec => BranchesFollowStructure
<1> DEFINE script == machine.script
           q == machine.pc + 1
           NotTaken == /\ <<machine'.stack, machine'.altstack>> = <<machine.stack, machine.altstack>>
                       /\ machine'.pbegincodehash = machine.pbegincodehash
           IsTaken == /\ script[q].op \in Opens => machine'.stack = Front(machine.stack)
                      /\ script[q].op \in {"PUSH", "SMALLINT"} =>
                             Front(machine'.stack) = machine.stack
           P == /\ Reads /\ ~machine'.failed => IF ~Taken(script, q) THEN NotTaken ELSE IsTaken
                /\ ~Reads /\ phase' # "rejected" => Balanced(script)
<1>1. ASSUME MachineInv, BranchInv, Next PROVE P
  <2>1. ASSUME Reads, ~machine'.failed
        PROVE  IF ~Taken(script, q) THEN NotTaken ELSE IsTaken
    <3>1. Chunk
      BY <1>1, <2>1, ReadsIsChunk
    <3>2. PICK m : m = machine
      OBVIOUS
    <3>3. PICK n : n = machine' /\ n = Step(m)
      BY <3>1, <3>2 DEF Chunk
    <3>4. PICK G : MachineOK(m, G) /\ CurrentChunk(m).item \in G
      <4>1. PICK H : MachineOK(m, H)
        BY <1>1, <3>2 DEF MachineInv
      <4>2. MachineOK(m, H \cup {CurrentChunk(m).item})
        BY <4>1, MoreSignatures
      <4> QED
        BY <4>2
    <3>5. n.failed = FALSE /\ m.failed = FALSE /\ Running
      <4>1. MachineOK(n, G)
        BY <3>3, <3>4, StepKept
      <4> QED
        BY <2>1, <3>1, <3>2, <3>3, <3>4, <4>1 DEF MachineOK, Chunk
    <3>6. PICK p \in Nat : p = m.pc
      BY <3>4 DEF MachineOK
    <3>7. PICK s : s = m.script
      OBVIOUS
    <3>8. StacksFollow(m, n, s[p + 1])
      <4>1. CurrentChunk(m) = s[p + 1]
        BY <3>6, <3>7 DEF CurrentChunk
      <4> QED
        BY <3>3, <3>4, <3>5, <4>1, StepFollows
    <3>9. Structured(s, p, m.vfExec, chosen)
      BY <1>1, <3>2, <3>5, <3>6, <3>7 DEF BranchInv
    <3>10. Executing(m) <=> Taken(s, p + 1)
      <4>1. Executing(m) <=> \A l \in 1..Len(m.vfExec) : m.vfExec[l] = TRUE
        BY <3>4 DEF Executing, MachineOK
      <4>2. (p + 1) - 1 = p
        OBVIOUS
      <4>3. \A i \in DOMAIN chosen : chosen[i] <=> chosen[i] = TRUE
        BY <1>1 DEF BranchInv
      <4>4. Taken(s, p + 1) <=>
                \A i \in 1..p : Encloses(s, i, p + 1) =>
                    /\ i \in DOMAIN chosen
                    /\ chosen[i] = TRUE <=> Cardinality(Elses(s, i, p + 1)) % 2 = 0
        BY <4>2, <4>3, Zenon DEF Taken
      <4>5. (\A l \in 1..Len(m.vfExec) : m.vfExec[l] = TRUE) <=>
                \A i \in 1..p : Encloses(s, i, p + 1) =>
                    /\ i \in DOMAIN chosen
                    /\ chosen[i] = TRUE <=> Cardinality(Elses(s, i, p + 1)) % 2 = 0
        BY <3>9, ExecutingIsTaken, Zenon
      <4> QED
        BY <4>1, <4>4, <4>5, Zenon
    <3> QED
      BY <3>2, <3>3, <3>6, <3>7, <3>8, <3>10 DEF StacksFollow
  <2>2. ASSUME ~Reads, phase' # "rejected" PROVE Balanced(script)
    <3>1. ~Chunk
      <4>1. PICK G : MachineOK(machine, G) /\ CurrentChunk(machine).item \in G
        <5>1. PICK H : MachineOK(machine, H)
          BY <1>1 DEF MachineInv
        <5>2. MachineOK(machine, H \cup {CurrentChunk(machine).item})
          BY <5>1, MoreSignatures
        <5> QED
          BY <5>2
      <4>2. Step(machine).pc = machine.pc + 1 /\ machine.pc \in Nat
        BY <4>1, StepKept DEF MachineOK
      <4>3. Step(machine) # machine
        BY <4>2
      <4> QED
        BY <2>2, <4>3 DEF Chunk, Reads
    <3>2. ~Reject
      BY <2>2 DEF Reject, Finish
    <3>3. /\ Running /\ machine.pc = Len(script) /\ machine.failed = FALSE /\ machine.vfExec = <<>>
      BY <1>1, <3>1, <3>2 DEF Next, SpendOutput, Redeem, Accept, Running, Finished, EndsTrue,
                              Evaluated, MachineInv, MachineOK
    <3>4. Structured(script, Len(script), <<>>, chosen)
      BY <1>1, <3>3 DEF BranchInv
    <3>5. script \in Seq(ToSet(script))
      BY <1>1, <3>3, ScriptsAreScripts DEF BranchInv, Running
    <3> HIDE DEF script
    <3> QED
      BY <3>4, <3>5, ClosedIsBalanced
  <2> QED
    BY <2>1, <2>2, Zenon
<1>2. Init => BranchInv
  BY BranchesAtStart
<1>3. MachineInv /\ BranchInv /\ [Next]_vars => BranchInv'
  BY BranchesAtChunk, BranchesAtRest DEF Next
<1> HIDE DEF P
<1>4. MachineInv /\ BranchInv /\ [Next]_vars => [P]_vars
  BY <1>1
<1>5. Spec => [][P]_vars
  BY <1>2, <1>3, <1>4, MachinesAreMachines, PTL DEF Spec
<1> QED
  BY <1>5 DEF BranchesFollowStructure, P

-----------------------------------------------------------------------------
(* The other way round: the signatures that a script asks for are accepted. *)
(* What evaluate does is a run of turns, one for each chunk until one fails. *)

\* A turn of the loop in evaluate.
TurnOf(m) == IF m.failed THEN m ELSE Step(m)

AreTurns(st, m, n) == st[0] = m /\ \A j \in 1..n : st[j] = TurnOf(st[j - 1])

LEMMA TurnsExist ==
    ASSUME NEW m, NEW n \in Nat
    PROVE  \E st : AreTurns(st, m, n)
<1> DEFINE Runs1(s, k) == s[0] = m /\ \A j \in 1..k : s[j] = TurnOf(s[j - 1])
           T == {k \in 0..n : \E s : Runs1(s, k)}
<1>1. 0 \in T
  <2>1. Runs1([j \in 0..0 |-> m], 0)
    OBVIOUS
  <2> HIDE DEF Runs1
  <2> QED
    BY <2>1
<1>2. ASSUME NEW k \in 0..(n - 1), k \in T PROVE k + 1 \in T
  <2>1. PICK s : Runs1(s, k)
    BY <1>2
  <2> DEFINE t == [j \in 0..(k + 1) |-> IF j <= k THEN s[j] ELSE TurnOf(s[k])]
  <2>2. \A j \in 0..k : t[j] = s[j]
    OBVIOUS
  <2>3. t[k + 1] = TurnOf(s[k])
    OBVIOUS
  <2> HIDE DEF t
  <2>4. \A j \in 1..(k + 1) : t[j] = TurnOf(t[j - 1])
    <3> SUFFICES ASSUME NEW j \in 1..(k + 1) PROVE t[j] = TurnOf(t[j - 1])
      OBVIOUS
    <3>1. j - 1 \in 0..k
      OBVIOUS
    <3>2. t[j - 1] = s[j - 1]
      BY <2>2, <3>1
    <3>3. CASE j \in 1..k
      <4>1. t[j] = s[j]
        BY <2>2, <3>3
      <4>2. s[j] = TurnOf(s[j - 1])
        BY <2>1, <3>3
      <4> QED
        BY <3>2, <4>1, <4>2
    <3>4. CASE j = k + 1
      <4>1. j - 1 = k
        BY <3>4
      <4> QED
        BY <2>3, <3>2, <3>4, <4>1
    <3> QED
      BY <3>3, <3>4
  <2>5. t[0] = m
    <3>1. 0 \in 0..k
      OBVIOUS
    <3> QED
      BY <2>1, <2>2, <3>1
  <2>6. Runs1(t, k + 1)
    BY <2>4, <2>5
  <2> HIDE DEF Runs1
  <2> QED
    BY <2>6
<1>3. 0..n \subseteq T
  <2> HIDE DEF T
  <2> QED
    BY <1>1, <1>2, AllNumbers
<1> QED
  BY <1>3 DEF AreTurns

\* What evaluate does: chunk after chunk, until one fails.
LEMMA EvaluationRuns ==
    ASSUME NEW X, NEW m, m.script \in Seq(X), NEW n \in Nat, n = Len(m.script)
    PROVE  \E st : AreTurns(st, m, n) /\ Evaluate(m) = st[n]
<1>0. PICK st : AreTurns(st, m, n)
  BY TurnsExist
<1>1. st[0] = m /\ \A j \in 1..n : st[j] = TurnOf(st[j - 1])
  BY <1>0 DEF AreTurns
<1>2. PICK seq : seq = m.script
  OBVIOUS
<1>3. DOMAIN seq = 1..n
  BY <1>2
<1> DEFINE Do(at, chunk) == IF at.failed THEN at ELSE Step(at)
           Iter(g) == g = [s \in SUBSET (DOMAIN seq) |->
                              IF s = {} THEN m
                              ELSE Do(g[s \ {Max(s)}], seq[Max(s)])]
<1>4. Evaluate(m) = FoldLeft(Do, m, seq)
  BY <1>2, Zenon DEF Evaluate
<1>5. \A a, c : Do(a, c) = TurnOf(a)
  BY Zenon DEF TurnOf
<1> HIDE DEF Do
<1>6. \A s \in SUBSET (1..n) : s # {} => Max(s) \in s /\ s \ {Max(s)} \in SUBSET (1..n)
  BY GreatestOf
<1> DEFINE g == [s \in SUBSET (1..n) |-> st[Cardinality(s)]]
<1>7. \A s \in SUBSET (1..n) : s # {} =>
          Cardinality(s) \in 1..n /\ Cardinality(s \ {Max(s)}) = Cardinality(s) - 1
  <2> SUFFICES ASSUME NEW s \in SUBSET (1..n), s # {}
               PROVE  Cardinality(s) \in 1..n /\ Cardinality(s \ {Max(s)}) = Cardinality(s) - 1
    OBVIOUS
  <2>1. IsFiniteSet(1..n) /\ Cardinality(1..n) = n
    <3>1. 1 \in Int /\ n \in Int /\ (1 > n => n = 0) /\ n - 1 + 1 = n
      OBVIOUS
    <3>2. IsFiniteSet(1..n) /\ Cardinality(1..n) = IF 1 > n THEN 0 ELSE n - 1 + 1
      BY <3>1, FS_Interval, Zenon
    <3> QED
      BY <3>1, <3>2
  <2>2. IsFiniteSet(s) /\ Cardinality(s) <= n
    BY <2>1, FS_Subset
  <2>3. Cardinality(s) \in Nat /\ Cardinality(s) # 0
    BY <2>2, FS_CardinalityType, FS_EmptySet
  <2>4. Cardinality(s \ {Max(s)}) = Cardinality(s) - 1
    <3>1. Max(s) \in s
      BY <1>6
    <3>2. Cardinality(s \ {Max(s)}) = IF Max(s) \in s THEN Cardinality(s) - 1 ELSE Cardinality(s)
      BY <2>2, FS_RemoveElement
    <3> QED
      BY <3>1, <3>2
  <2> QED
    BY <2>2, <2>3, <2>4
<1>8. Iter(g)
  <2>1. \A s \in SUBSET (1..n) : g[s] = IF s = {} THEN m ELSE Do(g[s \ {Max(s)}], seq[Max(s)])
    <3> SUFFICES ASSUME NEW s \in SUBSET (1..n)
                 PROVE  g[s] = IF s = {} THEN m ELSE Do(g[s \ {Max(s)}], seq[Max(s)])
      OBVIOUS
    <3>1. CASE s = {}
      <4>1. Cardinality(s) = 0
        BY <3>1, FS_EmptySet
      <4> QED
        BY <1>1, <3>1, <4>1
    <3>2. CASE s # {}
      <4>1. PICK c \in 1..n : c = Cardinality(s) /\ Cardinality(s \ {Max(s)}) = c - 1
        BY <1>7, <3>2
      <4>2. g[s \ {Max(s)}] = st[c - 1]
        BY <1>6, <3>2, <4>1
      <4>3. st[c] = TurnOf(st[c - 1])
        BY <1>1
      <4> QED
        BY <1>5, <3>2, <4>1, <4>2, <4>3
    <3> QED
      BY <3>1, <3>2
  <2>2. g = [s \in SUBSET (1..n) |-> g[s]]
    OBVIOUS
  <2> HIDE DEF g
  <2> QED
    BY <1>3, <2>1, <2>2
<1> HIDE DEF g
<1>9. PICK it : Iter(it) /\ Evaluate(m) = it[DOMAIN seq]
  <2> DEFINE it == CHOOSE h : Iter(h)
  <2>1. Iter(it)
    BY <1>8, Zenon
  <2>2. Evaluate(m) = it[DOMAIN seq]
    BY <1>4, Zenon DEF FoldLeft, MapThenFoldSet
  <2> QED
    BY <2>1, <2>2
<1>10. /\ it[{}] = m
       /\ \A s \in SUBSET (1..n) : s # {} => it[s] = TurnOf(it[s \ {Max(s)}])
  BY <1>3, <1>5, <1>9
<1> DEFINE T == {j \in 0..n : it[1..j] = st[j]}
<1>11. 0 \in T
  <2>1. 1..0 = {}
    OBVIOUS
  <2> QED
    BY <1>1, <1>10, <2>1
<1>12. ASSUME NEW k \in 0..(n - 1), k \in T PROVE k + 1 \in T
  <2>1. k + 1 \in 1..n /\ (k + 1) - 1 = k
    OBVIOUS
  <2>2. /\ 1..(k + 1) \in SUBSET (1..n) /\ 1..(k + 1) # {} /\ (1..(k + 1)) \ {k + 1} = 1..k
        /\ Max(1..(k + 1)) = k + 1
    BY <2>1, FirstNumbers
  <2>3. it[1..(k + 1)] = TurnOf(it[1..k])
    BY <1>10, <2>2
  <2>4. st[k + 1] = TurnOf(st[k])
    BY <1>1, <2>1
  <2> QED
    BY <1>12, <2>1, <2>3, <2>4
<1>13. it[1..n] = st[n]
  <2> HIDE DEF T
  <2>1. 0..n \subseteq T
    BY <1>11, <1>12, AllNumbers
  <2> QED
    BY <2>1 DEF T
<1> QED
  BY <1>0, <1>3, <1>9, <1>13

\* The flags with which the inputs of a transaction are checked.
InputFlags == {"P2SH", "STRICTENC", "MINIMALDATA", "NULLDUMMY"}

\* A machine that has read pc chunks of a script of loads and plain opcodes.
OnCourse(m, script, G, t, i, pc) ==
    /\ MachineOK(m, G) /\ m.failed = FALSE /\ m.script = script
    /\ m.tx = t /\ m.nin = i /\ m.flags = InputFlags
    /\ m.vfExec = <<>> /\ m.altstack = <<>> /\ m.pbegincodehash = 0
    /\ m.pc = pc /\ m.nOpCount <= pc

\* A step at a chunk that belongs to no conditional is what its opcode does.
LEMMA StepReads ==
    ASSUME NEW script, NEW G, NEW t, NEW i, NEW pc \in Nat, NEW m, OnCourse(m, script, G, t, i, pc),
           pc + 1 <= MaxOps, NEW c, c = script[pc + 1], c.op \notin Disabled \cup Conditionals,
           c.op = "PUSH" => ~(Size(c.item) > MaxElement)
    PROVE  \E r : /\ OnCourse(r, script, G, t, i, pc + 1) /\ r.stack = m.stack
                  /\ Step(m) = Execute(r, c)
<1>1. c = CurrentChunk(m)
  BY DEF CurrentChunk, OnCourse
<1>2. PICK r : r = Read(m)
  OBVIOUS
<1>3. MachineOK(m, G)
  BY DEF OnCourse
<1>4. /\ MachineOK(r, G) /\ r.pc = m.pc + 1
      /\ r.script = m.script /\ r.tx = m.tx /\ r.nin = m.nin /\ r.flags = m.flags
      /\ r.stack = m.stack /\ r.altstack = m.altstack /\ r.vfExec = m.vfExec
      /\ r.pbegincodehash = m.pbegincodehash /\ r.failed = m.failed
  BY <1>2, <1>3, ReadKept
<1>5. r.nOpCount <= pc + 1 /\ r.nOpCount \in Nat
  <2>1. PICK b \in 0..1 : b = Bit(Counts(c))
    BY DEF Bit
  <2>2. PICK q \in Nat : q = m.nOpCount + b
    BY <1>3, <2>1 DEF MachineOK
  <2>3. PICK p : p = m.pc + 1
    OBVIOUS
  <2>4. r = [m EXCEPT !.pc = p, !.nOpCount = q]
    BY <1>1, <1>2, <2>1, <2>2, <2>3 DEF Read
  <2>5. r.nOpCount = q
    BY <1>3, <2>4 DEF MachineOK, IsMachine
  <2>6. m.nOpCount <= pc /\ m.nOpCount \in Nat
    BY DEF OnCourse, MachineOK
  <2> QED
    BY <2>1, <2>2, <2>5, <2>6
<1>6. OnCourse(r, script, G, t, i, pc + 1)
  BY <1>4, <1>5 DEF OnCourse
<1>7. Executing(m)
  BY DEF Executing, OnCourse
<1>8. ~(r.nOpCount > MaxOps)
  <2>1. MaxOps \in Nat
    BY LimitsAreNumbers
  <2> QED
    BY <1>5, <2>1
<1>9. Step(m) = Execute(r, c)
  BY <1>1, <1>2, <1>7, <1>8, Zenon DEF Step, Read
<1> QED
  BY <1>4, <1>6, <1>9

LEMMA ReplacedOnCourse ==
    ASSUME NEW script, NEW G, NEW t, NEW i, NEW pc, NEW r, OnCourse(r, script, G, t, i, pc),
           NEW k \in 0..Depth(r), NEW items, Stack(items, G), NEW n, n = Replace(r, k, items)
    PROVE  OnCourse(n, script, G, t, i, pc) /\ Changed(r, n, k, items)
<1>1. MachineOK(r, G)
  BY DEF OnCourse
<1>2. Changed(r, n, k, items)
  BY <1>1, ReplaceChanges
<1>3. Kept(r, n, G) /\ n.failed = r.failed /\ n.altstack = r.altstack
  BY <1>1, ReplaceKept
<1>4. n.nOpCount = r.nOpCount
  <2>1. PICK new : new = Below(r, k) \o items
    OBVIOUS
  <2>2. n = [r EXCEPT !.stack = new]
    BY <2>1 DEF Replace
  <2> QED
    BY <1>1, <2>2 DEF MachineOK, IsMachine
<1> QED
  BY <1>2, <1>3, <1>4 DEF OnCourse, Kept, SameRun, Changed

\* One chunk read, and the k topmost items have given way to those of items.
Advanced(m, n, k, items, script, G, t, i, pc) ==
    OnCourse(n, script, G, t, i, pc) /\ Changed(m, n, k, items)

\* A step whose opcode puts items in place of the topmost.
LEMMA StepReplaces ==
    ASSUME NEW script, NEW G, NEW t, NEW i, NEW pc, NEW m, NEW r,
           OnCourse(m, script, G, t, i, pc), OnCourse(r, script, G, t, i, pc + 1), r.stack = m.stack,
           NEW k \in 0..Depth(m), NEW items, Stack(items, G), NEW n, n = Replace(r, k, items)
    PROVE  Advanced(m, n, k, items, script, G, t, i, pc + 1)
<1>1. r.vfExec = m.vfExec /\ r.pbegincodehash = m.pbegincodehash
  BY DEF OnCourse
<1>2. Depth(r) = Depth(m) /\ \A j, its : Changed(r, n, j, its) => Changed(m, n, j, its)
  BY <1>1, SameStack
<1>3. OnCourse(n, script, G, t, i, pc + 1) /\ Changed(r, n, k, items)
  BY <1>2, ReplacedOnCourse
<1> QED
  BY <1>2, <1>3 DEF Advanced

\* A chunk that puts an item on the stack.
Loads(c, item) ==
    \/ c.op = "PUSH" /\ c.item = item /\ ~(Size(item) > MaxElement) /\ IsMinimalPush(c)
    \/ c.op = "SMALLINT" /\ item = Num(c.n)

\* A push or a small number lays its item on the stack.
LEMMA StepLoads ==
    ASSUME NEW script, NEW G, NEW t, NEW i, NEW pc \in Nat, NEW m, OnCourse(m, script, G, t, i, pc),
           pc + 1 <= MaxOps, NEW item, Loads(script[pc + 1], item), IsSignature(item) => item \in G
    PROVE  Advanced(m, Step(m), 0, <<item>>, script, G, t, i, pc + 1)
<1>1. PICK c : c = script[pc + 1]
  OBVIOUS
<1>2. PICK op : op = c.op
  OBVIOUS
<1>3. op \in {"PUSH", "SMALLINT"}
  BY <1>1, <1>2 DEF Loads
<1>4. op \notin Conditionals /\ op \notin PlainOps /\ op \notin Nops /\ op \notin Disabled
  BY <1>3, RearrangedOps DEF Conditionals, PlainOps, Nops, Unary, Binary, Hashes, Disabled
<1>5. c.op = "PUSH" => ~(Size(c.item) > MaxElement)
  BY <1>1 DEF Loads
<1>6. PICK r : /\ OnCourse(r, script, G, t, i, pc + 1) /\ r.stack = m.stack
               /\ Step(m) = Execute(r, c)
  BY <1>1, <1>2, <1>4, <1>5, StepReads
<1>7. Step(m) = PushOn(r, item)
  <2>1. CASE op = "PUSH"
    <3>1. c.item = item /\ IsMinimalPush(c)
      BY <1>1, <1>2, <2>1 DEF Loads
    <3> QED
      BY <1>2, <1>4, <1>6, <2>1, <3>1, Zenon DEF Execute
  <2>2. CASE op = "SMALLINT"
    <3>1. item = Num(c.n)
      BY <1>1, <1>2, <2>2 DEF Loads
    <3> QED
      BY <1>2, <1>4, <1>6, <2>2, <3>1, Zenon DEF Execute
  <2> QED
    BY <1>3, <2>1, <2>2
<1>8. PICK items, z : items = <<item>> /\ Stack(items, G) /\ z = 0
  BY OneItem
<1>9. z \in 0..Depth(m)
  <2>1. MachineOK(m, G)
    BY DEF OnCourse
  <2> QED
    BY <1>8, <2>1, LastIsTop
<1>10. Step(m) = Replace(r, z, items)
  BY <1>7, <1>8 DEF PushOn
<1>11. Advanced(m, Step(m), z, items, script, G, t, i, pc + 1)
  BY <1>6, <1>8, <1>9, <1>10, StepReplaces
<1> QED
  BY <1>8, <1>11

-----------------------------------------------------------------------------
(* What one opcode of a standard script does to the stack. *)

\* x are the n topmost items.
AreOperands(x, m, n) == x = SubSeq(m.stack, Depth(m) - n + 1, Depth(m))

\* The operands of a plain operation.
LEMMA Operands ==
    ASSUME NEW G, NEW m, MachineOK(m, G), NEW r, MachineOK(r, G), r.stack = m.stack,
           NEW n \in Nat, n <= Depth(m), NEW x, AreOperands(x, r, n)
    PROVE  /\ Depth(r) = Depth(m) /\ ~(Depth(r) < n) /\ n \in 0..Depth(m)
           /\ \A j \in 1..n : x[j] = Top(m, (n - j) + 1)
<1>1. PICK d \in Nat : d = Depth(r) /\ d = Depth(m)
  BY StackFacts DEF MachineOK, Depth
<1>2. n \in 0..Depth(r)
  BY <1>1
<1>3. \A j \in 1..n : x[j] = Top(m, (n - j) + 1)
  <2> SUFFICES ASSUME NEW j \in 1..n PROVE x[j] = Top(m, (n - j) + 1)
    OBVIOUS
  <2>1. x[j] = r.stack[d - n + j]
    <3>1. x = SubSeq(r.stack, Depth(r) - n + 1, Depth(r))
      BY DEF AreOperands
    <3>2. \A b \in 1..n : SubSeq(r.stack, Depth(r) - n + 1, Depth(r))[b] = r.stack[Depth(r) - n + b]
      BY <1>2, Taken1
    <3> QED
      BY <1>1, <3>1, <3>2, Zenon
  <2>2. d - ((n - j) + 1) + 1 = d - n + j
    BY <1>1
  <2> QED
    BY <1>1, <2>1, <2>2 DEF Top
<1> QED
  BY <1>1, <1>3

LEMMA StepDup ==
    ASSUME NEW script, NEW G, NEW t, NEW i, NEW pc \in Nat, NEW m, OnCourse(m, script, G, t, i, pc),
           pc + 1 <= MaxOps, script[pc + 1].op = "DUP", Depth(m) >= 1, NEW a, a = Top(m, 1)
    PROVE  Advanced(m, Step(m), 1, <<a, a>>, script, G, t, i, pc + 1)
<1>1. PICK c : c = script[pc + 1]
  OBVIOUS
<1>2. PICK op : op = c.op
  OBVIOUS
<1>3. op = "DUP"
  BY <1>1, <1>2
<1>4. /\ op \notin Conditionals /\ op \in PlainOps /\ op \notin Nops /\ op \notin Disabled
      /\ op \notin {"PUSH", "SMALLINT", "NOP", "CLTV", "VERIFY", "TOALTSTACK", "FROMALTSTACK",
                    "PICK", "ROLL", "CODESEPARATOR", "CHECKSIG", "CHECKSIGVERIFY",
                    "CHECKMULTISIG", "CHECKMULTISIGVERIFY"}
      /\ op \notin Unary /\ op \notin Hashes /\ op \in DOMAIN Rearranged /\ op \notin Binary
      /\ op \notin {"EQUAL", "EQUALVERIFY", "NUMEQUALVERIFY", "WITHIN"}
  BY <1>3, RearrangedOps DEF Conditionals, PlainOps, Nops, Unary, Binary, Hashes, Disabled
<1>5. c.op # "PUSH"
  BY <1>2, <1>4
<1>6. PICK r : /\ OnCourse(r, script, G, t, i, pc + 1) /\ r.stack = m.stack
               /\ Step(m) = Execute(r, c)
  BY <1>1, <1>2, <1>4, <1>5, StepReads
<1>7. Step(m) = Plain(r, op)
  BY <1>2, <1>4, <1>6, Zenon DEF Execute
<1>8. Takes(op) = 1
  <2>1. Rearranged[op] = [takes |-> 1, puts |-> <<1, 1>>]
    BY <1>3, Zenon DEF Rearranged
  <2>2. Takes(op) = Rearranged[op].takes
    BY <1>3, <1>4, Zenon DEF Takes
  <2> QED
    BY <2>1, <2>2
<1>9. PICK n, x : n = 1 /\ AreOperands(x, r, n)
  BY DEF AreOperands
<1>10. MachineOK(m, G) /\ MachineOK(r, G)
  BY <1>6 DEF OnCourse
<1>11. /\ ~(Depth(r) < n) /\ n \in 0..Depth(m)
       /\ \A j \in 1..n : x[j] = Top(m, (n - j) + 1)
  <2>1. n \in Nat /\ n <= Depth(m)
    BY <1>9
  <2> QED
    BY <1>6, <1>9, <1>10, <2>1, Operands
<1>12. x[1] = a
  <2>1. 1 \in 1..n /\ (n - 1) + 1 = 1
    BY <1>9
  <2> QED
    BY <1>11, <2>1
<1>13. PICK items : items = <<a, a>> /\ items = Leaves(r, op, x)
  <2>1. Leaves(r, op, x) = [j \in DOMAIN Rearranged[op].puts |-> x[Rearranged[op].puts[j]]]
    BY <1>3, <1>4, Zenon DEF Leaves
  <2>2. Rearranged[op] = [takes |-> 1, puts |-> <<1, 1>>]
    BY <1>3, Zenon DEF Rearranged
  <2>3. Leaves(r, op, x) = <<x[1], x[1]>>
    BY <2>1, <2>2
  <2> QED
    BY <1>12, <2>3
<1>14. Step(m) = Replace(r, n, items)
  <2>1. ~Numeric(op)
    BY <1>4 DEF Numeric
  <2>2. Plain(r, op) = Replace(r, Takes(op), Leaves(r, op, SubSeq(r.stack, Depth(r) - Takes(op) + 1, Depth(r))))
    BY <1>4, <1>8, <1>9, <1>11, <2>1, Zenon DEF Plain, AreOperands
  <2> QED
    BY <1>7, <1>8, <1>9, <1>13, <2>2, Zenon DEF AreOperands
<1>15. Stack(items, G)
  <2>1. 1 \in 1..Depth(m)
    BY <1>9, <1>11
  <2>2. IsSignature(Top(m, 1)) => Top(m, 1) \in G
    BY <1>10, <2>1, TopFacts
  <2>3. items \in Seq({a})
    BY <1>13
  <2> QED
    BY <2>2, <2>3 DEF Stack
<1>16. Advanced(m, Step(m), n, items, script, G, t, i, pc + 1)
  BY <1>6, <1>11, <1>14, <1>15, StepReplaces
<1> QED
  BY <1>9, <1>13, <1>16

LEMMA StepHash160 ==
    ASSUME NEW script, NEW G, NEW t, NEW i, NEW pc \in Nat, NEW m, OnCourse(m, script, G, t, i, pc),
           pc + 1 <= MaxOps, script[pc + 1].op = "HASH160", Depth(m) >= 1,
           NEW a, a = Hash("HASH160", Top(m, 1))
    PROVE  Advanced(m, Step(m), 1, <<a>>, script, G, t, i, pc + 1)
<1>1. PICK c : c = script[pc + 1]
  OBVIOUS
<1>2. PICK op : op = c.op
  OBVIOUS
<1>3. op = "HASH160"
  BY <1>1, <1>2
<1>4. /\ op \notin Conditionals /\ op \in PlainOps /\ op \notin Nops /\ op \notin Disabled
      /\ op \notin {"PUSH", "SMALLINT", "NOP", "CLTV", "VERIFY", "TOALTSTACK", "FROMALTSTACK",
                    "PICK", "ROLL", "CODESEPARATOR", "CHECKSIG", "CHECKSIGVERIFY",
                    "CHECKMULTISIG", "CHECKMULTISIGVERIFY"}
      /\ op \notin Unary /\ op \in Hashes /\ op \notin DOMAIN Rearranged /\ op \notin Binary
      /\ op \notin {"EQUAL", "EQUALVERIFY", "NUMEQUALVERIFY", "WITHIN", "IFDUP", "DEPTH", "SIZE"}
  BY <1>3, RearrangedOps DEF Conditionals, PlainOps, Nops, Unary, Binary, Hashes, Disabled
<1>5. c.op # "PUSH"
  BY <1>2, <1>4
<1>6. PICK r : /\ OnCourse(r, script, G, t, i, pc + 1) /\ r.stack = m.stack
               /\ Step(m) = Execute(r, c)
  BY <1>1, <1>2, <1>4, <1>5, StepReads
<1>7. Step(m) = Plain(r, op)
  BY <1>2, <1>4, <1>6, Zenon DEF Execute
<1>8. Takes(op) = 1
  BY <1>4, Zenon DEF Takes
<1>9. PICK n, x : n = 1 /\ AreOperands(x, r, n)
  BY DEF AreOperands
<1>10. MachineOK(m, G) /\ MachineOK(r, G)
  BY <1>6 DEF OnCourse
<1>11. /\ ~(Depth(r) < n) /\ n \in 0..Depth(m)
       /\ \A j \in 1..n : x[j] = Top(m, (n - j) + 1)
  <2>1. n \in Nat /\ n <= Depth(m)
    BY <1>9
  <2> QED
    BY <1>6, <1>9, <1>10, <2>1, Operands
<1>12. x[1] = Top(m, 1)
  <2>1. 1 \in 1..n /\ (n - 1) + 1 = 1
    BY <1>9
  <2> QED
    BY <1>11, <2>1
<1>13. PICK items : items = <<a>> /\ items = Leaves(r, op, x)
  <2>1. Leaves(r, op, x) = <<Hash(op, x[1])>>
    BY <1>4, Zenon DEF Leaves
  <2> QED
    BY <1>3, <1>12, <2>1
<1>14. Step(m) = Replace(r, n, items)
  <2>1. ~Numeric(op)
    BY <1>4 DEF Numeric
  <2>2. Plain(r, op) = Replace(r, Takes(op), Leaves(r, op, SubSeq(r.stack, Depth(r) - Takes(op) + 1, Depth(r))))
    BY <1>4, <1>8, <1>9, <1>11, <2>1, Zenon DEF Plain, AreOperands
  <2> QED
    BY <1>7, <1>8, <1>9, <1>13, <2>2, Zenon DEF AreOperands
<1>15. Stack(items, G)
  BY <1>13, NoSignatures, OneItem
<1>16. Advanced(m, Step(m), n, items, script, G, t, i, pc + 1)
  BY <1>6, <1>11, <1>14, <1>15, StepReplaces
<1> QED
  BY <1>9, <1>13, <1>16

LEMMA StepEqual ==
    ASSUME NEW script, NEW G, NEW t, NEW i, NEW pc \in Nat, NEW m, OnCourse(m, script, G, t, i, pc),
           pc + 1 <= MaxOps, NEW op, op = script[pc + 1].op, op \in {"EQUAL", "EQUALVERIFY"},
           Depth(m) >= 2, Top(m, 2) = Top(m, 1)
    PROVE  /\ op = "EQUAL" => Advanced(m, Step(m), 2, <<True>>, script, G, t, i, pc + 1)
           /\ op = "EQUALVERIFY" => Advanced(m, Step(m), 2, <<>>, script, G, t, i, pc + 1)
<1>1. PICK c : c = script[pc + 1]
  OBVIOUS
<1>2. op = c.op
  BY <1>1
<1>4. /\ op \notin Conditionals /\ op \in PlainOps /\ op \notin Nops /\ op \notin Disabled
      /\ op \notin {"PUSH", "SMALLINT", "NOP", "CLTV", "VERIFY", "TOALTSTACK", "FROMALTSTACK",
                    "PICK", "ROLL", "CODESEPARATOR", "CHECKSIG", "CHECKSIGVERIFY",
                    "CHECKMULTISIG", "CHECKMULTISIGVERIFY"}
      /\ op \notin Unary /\ op \notin Hashes /\ op \notin DOMAIN Rearranged /\ op \notin Binary
      /\ op \notin {"NUMEQUALVERIFY", "WITHIN", "IFDUP", "DEPTH", "SIZE"}
  BY RearrangedOps DEF Conditionals, PlainOps, Nops, Unary, Binary, Hashes, Disabled
<1>5. c.op # "PUSH"
  BY <1>2, <1>4
<1>6. PICK r : /\ OnCourse(r, script, G, t, i, pc + 1) /\ r.stack = m.stack
               /\ Step(m) = Execute(r, c)
  BY <1>1, <1>2, <1>4, <1>5, StepReads
<1>7. Step(m) = Plain(r, op)
  BY <1>2, <1>4, <1>6, Zenon DEF Execute
<1>8. Takes(op) = 2
  BY <1>4, Zenon DEF Takes
<1>9. PICK n, x : n = 2 /\ AreOperands(x, r, n)
  BY DEF AreOperands
<1>10. MachineOK(m, G) /\ MachineOK(r, G)
  BY <1>6 DEF OnCourse
<1>11. /\ ~(Depth(r) < n) /\ n \in 0..Depth(m)
       /\ \A j \in 1..n : x[j] = Top(m, (n - j) + 1)
  <2>1. n \in Nat /\ n <= Depth(m)
    BY <1>9
  <2> QED
    BY <1>6, <1>9, <1>10, <2>1, Operands
<1>12. x[1] = x[2]
  <2>1. 1 \in 1..n /\ (n - 1) + 1 = 2 /\ 2 \in 1..n /\ (n - 2) + 1 = 1
    BY <1>9
  <2> QED
    BY <1>11, <2>1
<1>13. ~Numeric(op)
  BY <1>4 DEF Numeric
<1>14. ASSUME op = "EQUAL" PROVE Advanced(m, Step(m), 2, <<True>>, script, G, t, i, pc + 1)
  <2>1. PICK items : items = <<True>> /\ items = Leaves(r, op, x)
    <3>1. Leaves(r, op, x) = <<Truth(x[1] = x[2])>>
      BY <1>4, <1>14, Zenon DEF Leaves
    <3>2. Truth(x[1] = x[2]) = True
      BY <1>12, Zenon DEF Truth
    <3> QED
      BY <3>1, <3>2, Zenon
  <2>2. Step(m) = Replace(r, n, items)
    <3>1. Plain(r, op) = Replace(r, Takes(op), Leaves(r, op, SubSeq(r.stack, Depth(r) - Takes(op) + 1, Depth(r))))
      BY <1>4, <1>8, <1>9, <1>11, <1>13, <1>14, Zenon DEF Plain, AreOperands
    <3> QED
      BY <1>7, <1>8, <1>9, <2>1, <3>1, Zenon DEF AreOperands
  <2>3. Stack(items, G)
    BY <2>1, NoSignatures, OneItem
  <2>4. Advanced(m, Step(m), n, items, script, G, t, i, pc + 1)
    BY <1>6, <1>11, <2>2, <2>3, StepReplaces
  <2> QED
    BY <1>9, <2>1, <2>4
<1>15. ASSUME op = "EQUALVERIFY" PROVE Advanced(m, Step(m), 2, <<>>, script, G, t, i, pc + 1)
  <2>1. PICK items : items = <<>> /\ Stack(items, G)
    BY NoStack
  <2>2. Plain(r, op) = Answer(r, 2, x[1] = x[2], TRUE)
    BY <1>4, <1>8, <1>9, <1>11, <1>13, <1>15, Zenon DEF Plain, AreOperands
  <2>3. Step(m) = Replace(r, n, items)
    BY <1>7, <1>9, <1>12, <2>1, <2>2, Zenon DEF Answer
  <2>4. Advanced(m, Step(m), n, items, script, G, t, i, pc + 1)
    BY <1>6, <1>11, <2>1, <2>3, StepReplaces
  <2> QED
    BY <1>9, <2>1, <2>4
<1> QED
  BY <1>14, <1>15

\* A signature that verifies passes OP_CHECKSIG.
LEMMA StepSignature ==
    ASSUME NEW script, NEW G, NEW t, NEW i, NEW pc \in Nat, NEW m, OnCourse(m, script, G, t, i, pc),
           pc + 1 <= MaxOps, script[pc + 1].op = "CHECKSIG", Depth(m) >= 2,
           NEW X, script \in Seq(X), NoSigs(script),
           VerifySignature(t, Top(m, 2), Top(m, 1), i, script)
    PROVE  Advanced(m, Step(m), 2, <<True>>, script, G, t, i, pc + 1)
<1>1. PICK c : c = script[pc + 1]
  OBVIOUS
<1>2. PICK op : op = c.op
  OBVIOUS
<1>3. op = "CHECKSIG"
  BY <1>1, <1>2
<1>4. op \notin Conditionals /\ op \notin PlainOps /\ op \notin Nops /\ op \notin Disabled
  BY <1>3, RearrangedOps DEF Conditionals, PlainOps, Nops, Unary, Binary, Hashes, Disabled
<1>5. c.op # "PUSH"
  BY <1>2, <1>3
<1>6. PICK r : /\ OnCourse(r, script, G, t, i, pc + 1) /\ r.stack = m.stack
               /\ Step(m) = Execute(r, c)
  BY <1>1, <1>2, <1>4, <1>5, StepReads
<1>7. Step(m) = CheckSig(r, op = "CHECKSIGVERIFY")
  BY <1>2, <1>3, <1>4, <1>6, Zenon DEF Execute
<1>8. PICK verify \in BOOLEAN : verify = (op = "CHECKSIGVERIFY")
  BY Zenon
<1>9. verify = FALSE /\ Step(m) = CheckSig(r, verify)
  <2>1. verify = FALSE
    BY <1>3, <1>8
  <2>2. Step(m) = CheckSig(r, verify)
    BY <1>7, <1>8, Zenon
  <2> QED
    BY <2>1, <2>2
<1>10. MachineOK(m, G) /\ MachineOK(r, G) /\ r.vfExec = m.vfExec /\ r.pbegincodehash = m.pbegincodehash
  BY <1>6 DEF OnCourse
<1>11. Depth(r) = Depth(m) /\ \A j : Top(r, j) = Top(m, j)
  BY <1>6, <1>10, SameStack
<1>12. PICK d \in Nat : d = Depth(m)
  BY <1>10, LastIsTop
<1>13. PICK sig, key : sig = Top(r, 2) /\ key = Top(r, 1)
  OBVIOUS
<1>14. VerifySignature(t, sig, key, i, script)
  BY <1>11, <1>13
<1>15. IsSignature(sig) /\ IsKey(key)
  BY <1>14 DEF VerifySignature
<1>16. Subscript(r, <<sig>>) = script
  <2>1. r.script = script /\ r.pbegincodehash = 0
    BY <1>6 DEF OnCourse
  <2>2. \A j \in DOMAIN r.script : ~Pushes(r.script[j], sig)
    BY <1>15, <2>1, NothingPushed
  <2>3. PICK sigs : sigs = <<sig>>
    OBVIOUS
  <2>4. DOMAIN sigs = 1..1 /\ \A j \in 1..1 : sigs[j] = sig
    BY <2>3
  <2>5. \A a \in DOMAIN r.script, j \in 1..1 : ~Pushes(r.script[a], sigs[j])
    BY <2>2, <2>4
  <2>6. Subscript(r, sigs) = r.script
    BY <2>1, <2>4, <2>5, WholeSubscript
  <2> QED
    BY <2>1, <2>3, <2>6
<1>17. r.tx = t /\ r.nin = i
  BY <1>6 DEF OnCourse
<1>18. ~(Depth(r) < 2) /\ 2 \in 0..Depth(m)
  BY <1>11, <1>12
<1>19. WellEncoded(r, sig, key)
  BY <1>15 DEF WellEncoded
<1>20. PICK items : items = <<True>> /\ Stack(items, G)
  BY NoSignatures, OneItem
<1>21. Step(m) = Replace(r, 2, items)
  <2>1. CheckSig(r, verify) =
            Answer(r, 2, VerifySignature(r.tx, sig, key, r.nin, Subscript(r, <<sig>>)), verify)
    BY <1>13, <1>18, <1>19, Zenon DEF CheckSig
  <2>2. PICK ok \in BOOLEAN : ok = VerifySignature(r.tx, sig, key, r.nin, Subscript(r, <<sig>>))
    BY Zenon DEF VerifySignature
  <2>3. ok = TRUE
    BY <1>14, <1>16, <1>17, <2>2, Zenon
  <2>4. Truth(ok) = True
    BY <2>3 DEF Truth
  <2> QED
    BY <1>9, <1>20, <2>1, <2>2, <2>4, Zenon DEF Answer
<1>22. Advanced(m, Step(m), 2, items, script, G, t, i, pc + 1)
  BY <1>6, <1>18, <1>20, <1>21, StepReplaces
<1> QED
  BY <1>20, <1>22

\* All the signatures and keys the loop looks at are well encoded.
LEMMA MatchWellEncoded ==
    ASSUME NEW m, NEW sigs, NEW keys, NEW subscript, NEW k \in Nat, NEW n \in Nat,
           k = Len(sigs), n = Len(keys),
           \A a \in 1..k : IsSignature(sigs[a]), \A a \in 1..n : IsKey(keys[a])
    PROVE  MatchKeys(m, sigs, keys, subscript).wellEncoded = TRUE
<1>1. PICK st : IsMatchRun(st, m, sigs, keys, subscript, n)
  BY MatchRun
<1> DEFINE T == {j \in 0..n : st[j].wellEncoded = TRUE /\ st[j].isig >= 1}
<1>2. 0 \in T
  BY <1>1 DEF IsMatchRun
<1>3. ASSUME NEW j \in 0..(n - 1), j \in T PROVE j + 1 \in T
  <2>1. PICK s : s = st[j]
    OBVIOUS
  <2>2. PICK r : r = st[j + 1]
    OBVIOUS
  <2>3. s \in LoopStates /\ r \in LoopStates
    BY <1>1, <2>1, <2>2 DEF IsMatchRun
  <2>4. r = MatchStep(m, sigs, keys, subscript, s, j + 1)
    <3>1. j + 1 \in 1..n /\ (j + 1) - 1 = j
      OBVIOUS
    <3> QED
      BY <1>1, <2>1, <2>2, <3>1 DEF IsMatchRun
  <2>5. s.wellEncoded = TRUE /\ s.isig >= 1
    BY <1>3, <2>1
  <2>6. ASSUME ~s.fSuccess \/ s.isig > Len(sigs)
        PROVE  r.wellEncoded = TRUE /\ r.isig >= 1
    <3>1. r = s
      BY <2>4, <2>6, Zenon DEF MatchStep
    <3> QED
      BY <2>5, <3>1
  <2>7. ASSUME ~(~s.fSuccess \/ s.isig > Len(sigs))
        PROVE  r.wellEncoded = TRUE /\ r.isig >= 1
    <3>1. s.isig \in 1..k
      BY <2>3, <2>5, <2>7 DEF LoopStates
    <3>2. IsSignature(sigs[s.isig]) /\ IsKey(keys[j + 1])
      BY <3>1
    <3>3. WellEncoded(m, sigs[s.isig], keys[j + 1])
      BY <3>2 DEF WellEncoded
    <3>4. PICK ok \in BOOLEAN : ok = VerifySignature(m.tx, sigs[s.isig], keys[j + 1], m.nin, subscript)
      BY Zenon DEF VerifySignature
    <3>5. PICK isig : isig = IF ok THEN s.isig + 1 ELSE s.isig
      OBVIOUS
    <3>6. PICK w \in BOOLEAN : w = (s.wellEncoded /\ WellEncoded(m, sigs[s.isig], keys[j + 1]))
      BY Zenon
    <3>7. w = TRUE
      BY <2>5, <3>3, <3>6
    <3>8. PICK f : f = (Len(sigs) - isig < Len(keys) - (j + 1))
      BY Zenon
    <3>9. r = [isig |-> isig, fSuccess |-> f, wellEncoded |-> w]
      BY <2>4, <2>7, <3>4, <3>5, <3>6, <3>8, Zenon DEF MatchStep
    <3>10. r.wellEncoded = w /\ r.isig = isig
      BY <3>9
    <3>11. isig >= 1
      BY <3>1, <3>5
    <3> QED
      BY <3>7, <3>10, <3>11
  <2>8. r.wellEncoded = TRUE /\ r.isig >= 1
    BY <2>6, <2>7
  <2>9. j + 1 \in 0..n
    OBVIOUS
  <2> QED
    BY <2>2, <2>8, <2>9, Zenon
<1>4. st[n].wellEncoded = TRUE
  <2> HIDE DEF T
  <2>1. 0..n \subseteq T
    BY <1>2, <1>3, AllNumbers
  <2> QED
    BY <2>1 DEF T
<1> QED
  BY <1>1, <1>4 DEF IsMatchRun

\* A machine whose script is over, with what accepts it on top.
Ended(m, G) ==
    MachineOK(m, G) /\ m.failed = FALSE /\ m.vfExec = <<>> /\ m.altstack = <<>> /\ Top(m, 1) = True

\* The parts of a multisig on the stack, and keys for all the signatures.
Prepared(m, n, k, script, t, i) ==
    /\ n \in Nat /\ k \in 0..n /\ n <= MaxKeys /\ n <= MaxNum
    /\ Depth(m) = n + k + 3 /\ Top(m, 1) = Num(n) /\ Top(m, n + 2) = Num(k)
    /\ Size(Top(m, n + k + 3)) = 0
    /\ \A a \in 1..k : IsSignature(Top(m, n + 2 + a))
    /\ \A a \in 1..n : IsKey(Top(m, 1 + a))
    /\ \E f \in [1..k -> 1..n] :
          /\ \A a, b \in 1..k : a < b => f[a] < f[b]
          /\ \A a \in 1..k : VerifySignature(t, Top(m, n + 2 + a), Top(m, 1 + f[a]), i, script)

LEMMA CountIs ==
    ASSUME NEW m, NEW at \in Nat, NEW max \in Nat, NEW n \in 0..max, n <= MaxNum,
           Depth(m) >= at, Top(m, at) = Num(n)
    PROVE  IsCount(m, at, max) /\ NumberOf(Top(m, at)) = n
<1>1. IsA(Num(n), "num") /\ Num(n).num = n /\ Num(n) # NegativeZero
  BY DEF IsA, Num, NegativeZero
<1>2. NumberOf(Top(m, at)) = n
  BY <1>1 DEF NumberOf
<1>3. MaxNum \in Nat
  BY LimitsAreNumbers
<1>4. n \in -MaxNum..MaxNum
  BY <1>3
<1>5. IsNumber(m, Top(m, at))
  BY <1>1, <1>4 DEF IsNumber
<1> QED
  BY <1>2, <1>5 DEF IsCount

LEMMA PreparedMatches ==
    ASSUME NEW m, NEW n, NEW k, NEW script, NEW t, NEW i, Prepared(m, n, k, script, t, i),
           NEW r, r.stack = m.stack, r.tx = t, r.nin = i,
           NEW sigs, sigs = [j \in 1..k |-> Top(r, n + 2 + j)],
           NEW keys, keys = [j \in 1..n |-> Top(r, 1 + j)]
    PROVE  Matching(sigs, keys, r, script)
<1>1. PICK f \in [1..k -> 1..n] :
          /\ \A a, b \in 1..k : a < b => f[a] < f[b]
          /\ \A a \in 1..k : VerifySignature(t, Top(m, n + 2 + a), Top(m, 1 + f[a]), i, script)
  BY DEF Prepared
<1>2. DOMAIN sigs = 1..k /\ DOMAIN keys = 1..n
  OBVIOUS
<1>3. \A j : Top(r, j) = Top(m, j)
  BY DEF Top, Depth
<1>4. \A a \in 1..k : VerifySignature(r.tx, sigs[a], keys[f[a]], r.nin, script)
  <2> SUFFICES ASSUME NEW a \in 1..k PROVE VerifySignature(r.tx, sigs[a], keys[f[a]], r.nin, script)
    OBVIOUS
  <2>1. sigs[a] = Top(m, n + 2 + a) /\ keys[f[a]] = Top(m, 1 + f[a])
    BY <1>1, <1>3
  <2>2. VerifySignature(t, Top(m, n + 2 + a), Top(m, 1 + f[a]), i, script)
    BY <1>1
  <2> QED
    BY <2>1, <2>2
<1>5. f \in [DOMAIN sigs -> DOMAIN keys] /\ \A a, b \in DOMAIN sigs : a < b => f[a] < f[b]
  BY <1>1, <1>2
<1> QED
  BY <1>2, <1>4, <1>5 DEF Matching

\* Signatures that have keys of their own, in the order of the keys, pass OP_CHECKMULTISIG.
LEMMA StepKeys ==
    ASSUME NEW script, NEW G, NEW t, NEW i, NEW pc \in Nat, NEW m, OnCourse(m, script, G, t, i, pc),
           script[pc + 1].op = "CHECKMULTISIG", NEW X, script \in Seq(X), NoSigs(script),
           NEW n, NEW k, Prepared(m, n, k, script, t, i), pc + 1 + n <= MaxOps
    PROVE  Ended(Step(m), G) /\ Depth(Step(m)) = 1
<1>1. PICK c : c = script[pc + 1]
  OBVIOUS
<1>2. PICK op : op = c.op
  OBVIOUS
<1>3. op = "CHECKMULTISIG"
  BY <1>1, <1>2
<1>4. op \notin Conditionals /\ op \notin PlainOps /\ op \notin Nops /\ op \notin Disabled
  BY <1>3, RearrangedOps DEF Conditionals, PlainOps, Nops, Unary, Binary, Hashes, Disabled
<1>5. c.op # "PUSH"
  BY <1>2, <1>3
<1>6. n \in Nat /\ k \in 0..n /\ n <= MaxKeys /\ n <= MaxNum /\ Depth(m) = n + k + 3
  BY DEF Prepared
<1>7. MaxOps \in Nat /\ MaxKeys \in Nat /\ MaxNum \in Nat /\ pc + 1 <= MaxOps
  <2>1. MaxOps \in Nat /\ MaxKeys \in Nat /\ MaxNum \in Nat
    BY LimitsAreNumbers
  <2> QED
    BY <1>6, <2>1
<1>8. PICK r : /\ OnCourse(r, script, G, t, i, pc + 1) /\ r.stack = m.stack
               /\ Step(m) = Execute(r, c)
  BY <1>1, <1>2, <1>4, <1>5, <1>7, StepReads
<1>9. PICK verify \in BOOLEAN : verify = FALSE
  OBVIOUS
<1>10. Step(m) = CheckMultisig(r, verify)
  <2>1. Step(m) = CheckMultisig(r, op = "CHECKMULTISIGVERIFY")
    BY <1>2, <1>3, <1>4, <1>8, Zenon DEF Execute
  <2>2. (op = "CHECKMULTISIGVERIFY") = verify
    BY <1>3, <1>9
  <2> QED
    BY <2>1, <2>2, Zenon
<1>11. /\ MachineOK(m, G) /\ MachineOK(r, G) /\ r.vfExec = m.vfExec
       /\ r.pbegincodehash = m.pbegincodehash /\ r.pbegincodehash = 0 /\ r.script = script
       /\ r.tx = t /\ r.nin = i /\ r.nOpCount <= pc + 1 /\ r.failed = FALSE
       /\ r.vfExec = <<>> /\ r.altstack = <<>>
  BY <1>8 DEF OnCourse
<1>12. Depth(r) = Depth(m) /\ \A j : Top(r, j) = Top(m, j)
  BY <1>8, <1>11, SameStack
<1>13. IsCount(r, 1, MaxKeys) /\ NKeys(r) = n
  <2>1. Top(r, 1) = Num(n) /\ Depth(r) >= 1 /\ n \in 0..MaxKeys
    BY <1>6, <1>7, <1>12 DEF Prepared
  <2> QED
    BY <1>6, <1>7, <2>1, CountIs DEF NKeys
<1>14. IsCount(r, NKeys(r) + 2, NKeys(r)) /\ NSigs(r) = k
  <2>1. PICK at \in Nat : at = n + 2
    BY <1>6
  <2>2. Top(r, at) = Num(k) /\ Depth(r) >= at
    BY <1>6, <1>12, <2>1 DEF Prepared
  <2>3. k <= MaxNum
    BY <1>6, <1>7
  <2>4. IsCount(r, at, n) /\ NumberOf(Top(r, at)) = k
    BY <1>6, <2>2, <2>3, CountIs
  <2> QED
    BY <1>13, <2>1, <2>4 DEF NSigs
<1>15. PICK sigs, keys : sigs = MultisigSigs(r) /\ keys = MultisigKeys(r)
  OBVIOUS
<1>16. sigs = [j \in 1..k |-> Top(r, n + 2 + j)]
  <2>1. sigs = [j \in 1..k |-> Top(r, (n + 3) + j - 1)]
    BY <1>13, <1>14, <1>15 DEF MultisigSigs, Items
  <2>2. \A j \in 1..k : (n + 3) + j - 1 = n + 2 + j
    BY <1>6
  <2> QED
    BY <2>1, <2>2
<1>17. keys = [j \in 1..n |-> Top(r, 1 + j)]
  <2>1. keys = [j \in 1..n |-> Top(r, 2 + j - 1)]
    BY <1>13, <1>15 DEF MultisigKeys, Items
  <2>2. \A j \in 1..n : 2 + j - 1 = 1 + j
    BY <1>6
  <2> QED
    BY <2>1, <2>2
<1>18. Matching(sigs, keys, r, script)
  BY <1>8, <1>11, <1>16, <1>17, PreparedMatches
<1>19. /\ DOMAIN sigs = 1..k /\ Len(sigs) = k /\ DOMAIN keys = 1..n /\ Len(keys) = n
       /\ \A a \in 1..k : IsSignature(sigs[a])
       /\ \A a \in 1..n : IsKey(keys[a])
  <2>1. DOMAIN sigs = 1..k /\ Len(sigs) = k /\ DOMAIN keys = 1..n /\ Len(keys) = n
    BY <1>6, <1>16, <1>17
  <2>2. \A a \in 1..k : IsSignature(sigs[a])
    BY <1>12, <1>16 DEF Prepared
  <2>3. \A a \in 1..n : IsKey(keys[a])
    BY <1>12, <1>17 DEF Prepared
  <2> QED
    BY <2>1, <2>2, <2>3
<1>20. Subscript(r, sigs) = script
  <2>1. \A a \in DOMAIN r.script, j \in 1..k : ~Pushes(r.script[a], sigs[j])
    BY <1>11, <1>19, NothingPushed
  <2>2. r.script \in Seq(X) /\ r.pbegincodehash = 0 /\ k \in Nat /\ DOMAIN sigs = 1..k
    BY <1>6, <1>11, <1>19
  <2>3. Subscript(r, sigs) = r.script
    BY <2>1, <2>2, WholeSubscript
  <2> QED
    BY <1>11, <2>3
<1>21. PICK loop : loop = MatchKeys(r, sigs, keys, script)
  OBVIOUS
<1>22. loop.fSuccess = TRUE /\ loop.wellEncoded = TRUE
  <2>1. k \in Nat /\ k <= n
    BY <1>6
  <2>2. (MatchKeys(r, sigs, keys, script).fSuccess = TRUE) <=> Matching(sigs, keys, r, script)
    BY <1>6, <1>19, <2>1, MatchKeysIsGreedy
  <2>3. MatchKeys(r, sigs, keys, script).wellEncoded = TRUE
    BY <1>6, <1>19, <2>1, MatchWellEncoded
  <2> QED
    BY <1>18, <1>21, <2>2, <2>3
<1>23. PICK q : q = n + k + 3
  OBVIOUS
<1>24. q \in 0..Depth(r) /\ ~(Depth(r) < q) /\ q = NKeys(r) + NSigs(r) + 3 /\ q = Depth(r)
  BY <1>6, <1>12, <1>13, <1>14, <1>23
<1>25. ~(Size(Top(r, q)) > 0)
  BY <1>12, <1>23 DEF Prepared
<1>26. PICK counted : counted = [r EXCEPT !.nOpCount = @ + NKeys(r)]
  OBVIOUS
<1>27. Step(m) = Replace(counted, q, <<True>>)
  <2>1. ~(r.nOpCount + NKeys(r) > MaxOps)
    <3>1. r.nOpCount \in Nat
      BY <1>11 DEF MachineOK
    <3> QED
      BY <1>6, <1>7, <1>11, <1>13, <3>1
  <2>2. CheckMultisig(r, verify) = Answer(counted, q, loop.fSuccess, verify)
    BY <1>13, <1>14, <1>15, <1>20, <1>21, <1>22, <1>24, <1>25, <1>26, <2>1, Zenon DEF CheckMultisig
  <2>3. PICK ok \in BOOLEAN : ok = loop.fSuccess /\ ok = TRUE
    BY <1>22
  <2>4. Truth(ok) = True
    BY <2>3 DEF Truth
  <2> QED
    BY <1>9, <1>10, <2>2, <2>3, <2>4, Zenon DEF Answer
<1>28. /\ Kept(r, counted, G) /\ counted.stack = r.stack /\ counted.altstack = r.altstack
       /\ counted.pbegincodehash = r.pbegincodehash /\ counted.failed = r.failed
  <2>1. PICK x \in Nat : x = NKeys(r)
    BY <1>6, <1>13
  <2>2. counted = [r EXCEPT !.nOpCount = @ + x]
    BY <1>26, <2>1
  <2> QED
    BY <1>11, <2>2, CountedKept
<1>29. PICK items : items = <<True>> /\ Stack(items, G)
  BY NoSignatures, OneItem
<1>30. PICK new : new = Step(m) /\ new = Replace(counted, q, items)
  BY <1>27, <1>29
<1>31. MachineOK(counted, G) /\ Depth(counted) = Depth(r) /\ q \in 0..Depth(counted)
  BY <1>24, <1>28 DEF Kept, Depth
<1>32. Kept(counted, new, G) /\ new.failed = counted.failed /\ new.altstack = counted.altstack
  <2>1. /\ Kept(counted, Replace(counted, q, items), G)
        /\ Replace(counted, q, items).failed = counted.failed
        /\ Replace(counted, q, items).altstack = counted.altstack
    BY <1>29, <1>31, ReplaceKept
  <2> QED
    BY <1>30, <2>1
<1>33. Changed(counted, new, q, items)
  BY <1>29, <1>30, <1>31, ReplaceChanges
<1>34. Depth(new) = 1 /\ Top(new, 1) = True
  <2>1. Changed(counted, new, q, <<True>>) /\ q \in Nat /\ Depth(counted) \in Nat
    <3>1. Depth(counted) \in Nat
      BY <1>31, LastIsTop
    <3> QED
      BY <1>29, <1>31, <1>33, <3>1
  <2>2. Depth(new) = (Depth(counted) - q) + 1 /\ Top(new, 1) = True
    BY <2>1, AfterOne
  <2> QED
    BY <1>24, <1>31, <2>1, <2>2
<1> QED
  BY <1>11, <1>28, <1>30, <1>32, <1>34 DEF Ended, Kept

-----------------------------------------------------------------------------
(* Scripts that only load items, and scripts that follow them. *)

\* n has j items more than m on its stack, those of x.
Laid(m, n, x, j) ==
    /\ Depth(n) = Depth(m) + j
    /\ \A a \in 1..j : Top(n, a) = x[(j + 1) - a]
    /\ \A a \in 1..Depth(m) : Top(n, j + a) = Top(m, a)

LEMMA OneLaid ==
    ASSUME NEW m, NEW n, NEW o, NEW x, NEW j \in Nat, Depth(m) \in Nat, Laid(m, n, x, j),
           NEW z, z = 0, NEW e, e = x[j + 1], Changed(n, o, z, <<e>>)
    PROVE  Laid(m, o, x, j + 1)
<1>1. PICK d \in Nat : d = Depth(m) /\ d + j = Depth(n)
  BY DEF Laid
<1>3. /\ Depth(o) = (Depth(n) - z) + 1 /\ Top(o, 1) = e
      /\ \A a \in 1..(Depth(n) - z) : Top(o, 1 + a) = Top(n, z + a)
  <2>1. z \in Nat /\ Depth(n) \in Nat
    BY <1>1
  <2> QED
    BY <2>1, AfterOne
<1>4. \A a \in 1..(d + j) : Top(o, 1 + a) = Top(n, a)
  BY <1>1, <1>3
<1>5. \A a \in 1..(j + 1) : Top(o, a) = x[((j + 1) + 1) - a]
  <2> SUFFICES ASSUME NEW a \in 1..(j + 1) PROVE Top(o, a) = x[((j + 1) + 1) - a]
    OBVIOUS
  <2>1. CASE a = 1
    <3>1. ((j + 1) + 1) - a = j + 1
      BY <2>1
    <3> QED
      BY <1>3, <2>1, <3>1
  <2>2. CASE a # 1
    <3>1. PICK b \in 1..j : a = 1 + b
      BY <2>2
    <3>2. b \in 1..(d + j) /\ ((j + 1) + 1) - a = (j + 1) - b
      BY <1>1, <3>1
    <3>3. Top(n, b) = x[(j + 1) - b]
      BY <3>1 DEF Laid
    <3> QED
      BY <1>4, <3>1, <3>2, <3>3
  <2> QED
    BY <2>1, <2>2
<1>6. \A a \in 1..d : Top(o, (j + 1) + a) = Top(m, a)
  <2> SUFFICES ASSUME NEW a \in 1..d PROVE Top(o, (j + 1) + a) = Top(m, a)
    OBVIOUS
  <2>1. PICK b \in 1..(d + j) : b = j + a
    BY <1>1
  <2>2. (j + 1) + a = 1 + b
    BY <2>1
  <2>3. Top(n, j + a) = Top(m, a)
    BY <1>1 DEF Laid
  <2> QED
    BY <1>4, <2>1, <2>2, <2>3
<1> QED
  BY <1>1, <1>3, <1>5, <1>6 DEF Laid

LEMMA TurnIsStep ==
    ASSUME NEW script, NEW G, NEW t, NEW i, NEW pc, NEW m, OnCourse(m, script, G, t, i, pc)
    PROVE  TurnOf(m) = Step(m)
BY DEF OnCourse, TurnOf

\* The first chunks of a script, when each of them loads an item.
LEMMA LoadsRun ==
    ASSUME NEW script, NEW G, NEW t, NEW i, NEW z, z = 0, NEW m, OnCourse(m, script, G, t, i, z),
           NEW l \in Nat, l <= MaxOps, NEW x,
           \A j \in 1..l : Loads(script[j], x[j]) /\ (IsSignature(x[j]) => x[j] \in G),
           NEW n \in Nat, l <= n, NEW st, AreTurns(st, m, n)
    PROVE  OnCourse(st[l], script, G, t, i, l) /\ Laid(m, st[l], x, l)
<1>0. MaxOps \in Nat
  BY LimitsAreNumbers
<1>1. Depth(m) \in Nat
  <2>1. MachineOK(m, G)
    BY DEF OnCourse
  <2> QED
    BY <2>1, LastIsTop
<1> DEFINE T == {j \in 0..l : OnCourse(st[j], script, G, t, i, j) /\ Laid(m, st[j], x, j)}
<1>2. z \in T
  <2>1. Laid(m, m, x, z)
    BY <1>1 DEF Laid
  <2>2. st[z] = m
    BY DEF AreTurns
  <2> QED
    BY <2>1, <2>2
<1>3. ASSUME NEW j \in 0..(l - 1), j \in T PROVE j + 1 \in T
  <2>1. j + 1 \in 1..l /\ j + 1 \in 1..n /\ (j + 1) - 1 = j /\ j \in Nat /\ j + 1 <= MaxOps
    BY <1>0
  <2>2. PICK a : a = st[j]
    OBVIOUS
  <2>3. OnCourse(a, script, G, t, i, j) /\ Laid(m, a, x, j)
    BY <1>3, <2>2
  <2>4. st[j + 1] = Step(a)
    <3>1. st[j + 1] = TurnOf(st[j])
      BY <2>1 DEF AreTurns
    <3> QED
      BY <2>2, <2>3, <3>1, TurnIsStep
  <2>5. PICK e : e = x[j + 1]
    OBVIOUS
  <2>6. Loads(script[j + 1], e) /\ (IsSignature(e) => e \in G)
    BY <2>1, <2>5
  <2>7. Advanced(a, Step(a), 0, <<e>>, script, G, t, i, j + 1)
    BY <2>1, <2>3, <2>6, StepLoads
  <2>8. OnCourse(Step(a), script, G, t, i, j + 1) /\ Changed(a, Step(a), 0, <<e>>)
    BY <2>7 DEF Advanced
  <2>9. Laid(m, Step(a), x, j + 1)
    BY <1>1, <2>1, <2>3, <2>5, <2>8, OneLaid
  <2> QED
    BY <2>1, <2>4, <2>8, <2>9
<1>4. l \in T
  <2> HIDE DEF T
  <2>1. 0..l \subseteq T
    BY <1>2, <1>3, AllNumbers
  <2> QED
    BY <2>1
<1> QED
  BY <1>4

\* The sizes of the buffers that the standard scripts push.
LEMMA SizeOf ==
    ASSUME NEW x
    PROVE  /\ "num" \in DOMAIN x /\ "zero" \notin DOMAIN x /\ "hash" \notin DOMAIN x
                  /\ "key" \notin DOMAIN x /\ x.num = 0 => Size(x) = 0
           /\ "num" \notin DOMAIN x /\ "zero" \notin DOMAIN x /\ "hash" \in DOMAIN x
                  /\ "key" \notin DOMAIN x /\ x.hash \notin {"SHA256", "HASH256"} => Size(x) = 20
           /\ "num" \notin DOMAIN x /\ "zero" \notin DOMAIN x /\ "hash" \notin DOMAIN x
                  /\ "key" \in DOMAIN x => Size(x) = 33
           /\ "num" \notin DOMAIN x /\ "zero" \notin DOMAIN x /\ "hash" \notin DOMAIN x
                  /\ "key" \notin DOMAIN x => Size(x) = 71
<1>1. ASSUME "num" \in DOMAIN x, "zero" \notin DOMAIN x, "hash" \notin DOMAIN x,
             "key" \notin DOMAIN x, x.num = 0
      PROVE  Size(x) = 0
  BY <1>1, Zenon DEF Size, IsA, IsKey
<1>2. ASSUME "num" \notin DOMAIN x, "zero" \notin DOMAIN x, "hash" \in DOMAIN x,
             "key" \notin DOMAIN x, x.hash \notin {"SHA256", "HASH256"}
      PROVE  Size(x) = 20
  BY <1>2, Zenon DEF Size, IsA, IsKey
<1>3. ASSUME "num" \notin DOMAIN x, "zero" \notin DOMAIN x, "hash" \notin DOMAIN x,
             "key" \in DOMAIN x
      PROVE  Size(x) = 33
  BY <1>3, Zenon DEF Size, IsA, IsKey
<1>4. ASSUME "num" \notin DOMAIN x, "zero" \notin DOMAIN x, "hash" \notin DOMAIN x,
             "key" \notin DOMAIN x
      PROVE  Size(x) = 71
  BY <1>4, Zenon DEF Size, IsA, IsKey
<1> QED
  BY <1>1, <1>2, <1>3, <1>4, Zenon

\* Buffers that are no numbers, and short.
LEMMA PlainItems ==
    /\ \A k : Size(Key(k)) = 33 /\ "num" \notin DOMAIN Key(k)
    /\ \A x : Size(Hash("HASH160", x)) = 20 /\ "num" \notin DOMAIN Hash("HASH160", x)
    /\ \A s : Size(Serialized(s)) = 71 /\ "num" \notin DOMAIN Serialized(s)
    /\ \A k, type, d : Size(Signed(k, type, d)) = 71 /\ "num" \notin DOMAIN Signed(k, type, d)
<1>1. ASSUME NEW k PROVE Size(Key(k)) = 33 /\ "num" \notin DOMAIN Key(k)
  <2>1. DOMAIN Key(k) = {"key"}
    BY DEF Key
  <2> QED
    BY <2>1, SizeOf
<1>2. ASSUME NEW x PROVE Size(Hash("HASH160", x)) = 20 /\ "num" \notin DOMAIN Hash("HASH160", x)
  <2>1. DOMAIN Hash("HASH160", x) = {"hash", "of"} /\ Hash("HASH160", x).hash = "HASH160"
    BY DEF Hash
  <2> QED
    BY <2>1, SizeOf
<1>3. ASSUME NEW s PROVE Size(Serialized(s)) = 71 /\ "num" \notin DOMAIN Serialized(s)
  <2>1. DOMAIN Serialized(s) = {"script"}
    BY DEF Serialized
  <2> QED
    BY <2>1, SizeOf
<1>4. ASSUME NEW k, NEW type, NEW d
      PROVE Size(Signed(k, type, d)) = 71 /\ "num" \notin DOMAIN Signed(k, type, d)
  <2>1. DOMAIN Signed(k, type, d) = {"by", "type", "over"}
    BY DEF Signed
  <2> QED
    BY <2>1, SizeOf
<1> QED
  BY <1>1, <1>2, <1>3, <1>4, Zenon

\* A push of a short buffer that is no number is one that the flags allow.
LEMMA PushLoads ==
    ASSUME MaxElement >= 71, NEW item, Size(item) \in {20, 33, 71}, "num" \notin DOMAIN item,
           NEW c, c.op = "PUSH", c.item = item
    PROVE  Loads(c, item)
<1>0. MaxElement \in Nat
  BY LimitsAreNumbers
<1>1. ~(Size(item) > MaxElement)
  BY <1>0
<1>2. IsMinimalPush(c)
  BY Zenon DEF IsMinimalPush, IsA
<1> QED
  BY <1>1, <1>2, Zenon DEF Loads

LEMMA EmptyItem == Size(Num(0)) = 0
<1>1. DOMAIN Num(0) = {"num"} /\ Num(0).num = 0
  BY DEF Num
<1> QED
  BY <1>1, SizeOf

\* A machine at the beginning of a script.
LEMMA MachineStarts ==
    ASSUME NEW G, NEW script, NEW stack, Stack(stack, G), NEW t, NEW i, NEW z, z = 0,
           NEW m, m = Machine(script, stack, t, i, InputFlags)
    PROVE  OnCourse(m, script, G, t, i, z) /\ m.stack = stack /\ m.script = script
<1>1. MachineOK(m, G)
  BY NewMachine
<1>2. /\ m.failed = FALSE /\ m.script = script /\ m.tx = t /\ m.nin = i /\ m.flags = InputFlags
      /\ m.vfExec = <<>> /\ m.altstack = <<>> /\ m.pbegincodehash = 0 /\ m.pc = 0 /\ m.nOpCount = 0
      /\ m.stack = stack
  BY DEF Machine
<1> QED
  BY <1>1, <1>2 DEF OnCourse

\* A script that is over, with true on top, accepts.
LEMMA EndsWell ==
    ASSUME NEW G, NEW m, Ended(m, G), Depth(m) >= 1, Depth(m) <= MaxStack
    PROVE  EndsTrue(m)
<1>0. MaxStack \in Nat /\ Depth(m) \in Nat
  <2>1. MachineOK(m, G)
    BY DEF Ended
  <2> QED
    BY <2>1, LastIsTop, LimitsAreNumbers
<1>1. Evaluated(m)
  <2>1. Len(m.stack) + Len(m.altstack) <= MaxStack
    BY <1>0 DEF Ended, Depth
  <2>2. m.failed = FALSE /\ m.vfExec = <<>>
    BY DEF Ended
  <2> QED
    BY <2>1, <2>2, Zenon DEF Evaluated
<1>2. m.stack # <<>>
  BY <1>0 DEF Depth
<1>3. CastToBool(Last(m.stack))
  <2>1. Last(m.stack) = True
    <3>1. MachineOK(m, G) /\ Top(m, 1) = True
      BY DEF Ended
    <3> QED
      BY <3>1, LastIsTop
  <2>2. True # False /\ True # NegativeZero
    <3>1. True.num = 1 /\ False.num = 0 /\ DOMAIN True = {"num"} /\ DOMAIN NegativeZero = {"zero"}
      BY DEF True, False, Num, NegativeZero
    <3> QED
      BY <3>1
  <2> QED
    BY <2>1, <2>2 DEF CastToBool
<1> QED
  BY <1>1, <1>2, <1>3 DEF EndsTrue

\* The next state of a run that has not failed is that of a step.
LEMMA NextTurn ==
    ASSUME NEW st, NEW m, NEW n \in Nat, AreTurns(st, m, n), NEW j \in Nat, j + 1 <= n,
           NEW script, NEW G, NEW t, NEW i, NEW a, a = st[j], OnCourse(a, script, G, t, i, j)
    PROVE  st[j + 1] = Step(a)
<1>1. j + 1 \in 1..n /\ (j + 1) - 1 = j
  OBVIOUS
<1>2. st[j + 1] = TurnOf(st[j])
  BY <1>1 DEF AreTurns
<1> QED
  BY <1>1, <1>2, TurnIsStep

\* The outcome of a script of loads on an empty stack.
Loaded(m, x, l, script, G, t, i) ==
    /\ OnCourse(m, script, G, t, i, l) /\ Depth(m) = l
    /\ \A a \in 1..l : Top(m, a) = x[(l + 1) - a]

\* A script of loads leaves its items on the stack, the last on top.
LEMMA LoadsAll ==
    ASSUME NEW X, NEW script, script \in Seq(X), NEW G, NEW t, NEW i, NEW l \in Nat, l = Len(script),
           l <= MaxOps, NEW x,
           \A j \in 1..l : Loads(script[j], x[j]) /\ (IsSignature(x[j]) => x[j] \in G),
           NEW m, m = Machine(script, <<>>, t, i, InputFlags)
    PROVE  Loaded(Evaluate(m), x, l, script, G, t, i)
<1>1. PICK z \in Nat : z = 0
  OBVIOUS
<1>2. OnCourse(m, script, G, t, i, z) /\ m.stack = <<>> /\ m.script = script
  <2>1. Stack(<<>>, G)
    BY NoStack
  <2> QED
    BY <1>1, <2>1, MachineStarts
<1>3. PICK st : AreTurns(st, m, l) /\ Evaluate(m) = st[l]
  BY <1>2, EvaluationRuns
<1>4. OnCourse(st[l], script, G, t, i, l) /\ Laid(m, st[l], x, l)
  BY <1>1, <1>2, <1>3, LoadsRun
<1>5. Depth(m) = 0
  BY <1>2 DEF Depth
<1>6. Depth(st[l]) = l /\ \A a \in 1..l : Top(st[l], a) = x[(l + 1) - a]
  BY <1>4, <1>5 DEF Laid
<1> QED
  BY <1>3, <1>4, <1>6 DEF Loaded

\* The next script gets the stack of the first.
Follows(m, o, next, G, t, i) ==
    /\ OnCourse(m, next, G, t, i, 0)
    /\ Depth(m) = Depth(o) /\ \A a : Top(m, a) = Top(o, a)

LEMMA NextScript ==
    ASSUME NEW G, NEW script, NEW t, NEW i, NEW l, NEW o, OnCourse(o, script, G, t, i, l),
           NEW next, NEW m, m = Machine(next, o.stack, o.tx, o.nin, InputFlags)
    PROVE  Follows(m, o, next, G, t, i)
<1>1. Stack(o.stack, G)
  <2>1. MachineOK(o, G)
    BY DEF OnCourse
  <2> QED
    BY <2>1 DEF MachineOK
<1>2. o.tx = t /\ o.nin = i
  BY DEF OnCourse
<1>3. PICK z : z = 0
  OBVIOUS
<1>4. OnCourse(m, next, G, t, i, z) /\ m.stack = o.stack
  BY <1>1, <1>2, <1>3, MachineStarts
<1> QED
  BY <1>3, <1>4 DEF Follows, Depth, Top

LEMMA OnCourseDepth ==
    ASSUME NEW m, NEW script, NEW G, NEW t, NEW i, NEW pc, OnCourse(m, script, G, t, i, pc)
    PROVE  Depth(m) \in Nat
<1>1. MachineOK(m, G)
  BY DEF OnCourse
<1> QED
  BY <1>1, LastIsTop

LEMMA EndedWell ==
    ASSUME NEW m, NEW script, NEW G, NEW t, NEW i, NEW pc, OnCourse(m, script, G, t, i, pc),
           Top(m, 1) = True
    PROVE  Ended(m, G)
BY DEF OnCourse, Ended

LEMMA AfterPush ==
    ASSUME NEW m, NEW n, NEW z, z = 0, NEW e, Changed(m, n, z, <<e>>), NEW d \in Nat, d = Depth(m)
    PROVE  /\ Depth(n) = d + 1 /\ Top(n, 1) = e
           /\ \A a \in 1..d : Top(n, 1 + a) = Top(m, a)
<1>1. z \in Nat /\ Depth(m) \in Nat
  OBVIOUS
<1>2. /\ Depth(n) = (Depth(m) - z) + 1 /\ Top(n, 1) = e
      /\ \A a \in 1..(Depth(m) - z) : Top(n, 1 + a) = Top(m, z + a)
  BY <1>1, AfterOne
<1> QED
  BY <1>2

\* OP_CHECKSIG of a public key accepts a signature of the key.
LEMMA KeyAccepts ==
    ASSUME MaxElement >= 71, MaxOps >= 5,
           NEW X, NEW script, script \in Seq(X), NoSigs(script), NEW k, ChunksOfKey(script, k),
           NEW G, NEW t, NEW i, NEW z, z = 0, NEW m, OnCourse(m, script, G, t, i, z),
           Depth(m) = 1, VerifySignature(t, Top(m, 1), Key(k), i, script)
    PROVE  Ended(Evaluate(m), G) /\ Depth(Evaluate(m)) = 1
<1>0. MaxOps \in Nat
  BY LimitsAreNumbers
<1>1. PICK n \in Nat : n = 2
  OBVIOUS
<1>2. n = Len(script) /\ m.script = script
  BY <1>1 DEF ChunksOfKey, OnCourse
<1>3. PICK st : AreTurns(st, m, n) /\ Evaluate(m) = st[n]
  BY <1>2, EvaluationRuns
<1>4. PICK p0 \in Nat, p1 \in Nat, p2 \in Nat : p0 = z /\ p1 = p0 + 1 /\ p2 = p1 + 1 /\ p2 = n
  BY <1>1
<1>5. st[p0] = m /\ p1 <= n /\ p2 <= n /\ p1 <= MaxOps /\ p2 <= MaxOps
  BY <1>0, <1>1, <1>4, <1>3 DEF AreTurns
<1>6. /\ script[p1].op = "PUSH" /\ script[p1].item = Key(k)
      /\ script[p2].op = "CHECKSIG"
  <2>1. p1 = 1 /\ p2 = 2
    BY <1>4
  <2> QED
    BY <2>1 DEF ChunksOfKey
<1>7. PICK b : b = Step(m)
  OBVIOUS
<1>8. st[p1] = b
  BY <1>3, <1>4, <1>5, <1>7, NextTurn
<1> PICK item : item = Key(k)
  OBVIOUS
<1>9. Advanced(m, b, 0, <<item>>, script, G, t, i, p1)
  <2>1. item = Key(k)
    OBVIOUS
  <2>2. Size(item) \in {20, 33, 71} /\ "num" \notin DOMAIN item /\ ~IsSignature(item)
    <3>1. DOMAIN item = {"key"}
      BY <2>1 DEF Key
    <3> QED
      BY <2>1, <3>1, PlainItems DEF IsSignature, IsA
  <2>3. Loads(script[p1], item)
    BY <1>6, <2>1, <2>2, PushLoads
  <2> QED
    BY <1>4, <1>5, <1>7, <2>1, <2>2, <2>3, StepLoads
<1>10. OnCourse(b, script, G, t, i, p1) /\ Changed(m, b, 0, <<item>>)
  BY <1>9 DEF Advanced
<1>11. Depth(b) = 2 /\ Top(b, 1) = Key(k) /\ Top(b, 2) = Top(m, 1)
  <2>1. PICK d \in Nat : d = Depth(m)
    BY <1>10, OnCourseDepth
  <2>2. PICK e : e = 0
    OBVIOUS
  <2>3. Changed(m, b, e, <<item>>)
    BY <1>10, <2>2
  <2>4. Depth(b) = d + 1 /\ Top(b, 1) = item /\ \A a \in 1..d : Top(b, 1 + a) = Top(m, a)
    BY <2>1, <2>2, <2>3, AfterPush
  <2>5. d = 1
    BY <2>1
  <2>6. Top(b, 1 + 1) = Top(m, 1)
    BY <2>4, <2>5
  <2> QED
    BY <2>4, <2>5, <2>6
<1>12. PICK c : c = Step(b)
  OBVIOUS
<1>13. st[p2] = c
  BY <1>3, <1>4, <1>5, <1>8, <1>10, <1>12, NextTurn
<1>14. Advanced(b, c, 2, <<True>>, script, G, t, i, p2)
  <2>1. VerifySignature(t, Top(b, 2), Top(b, 1), i, script)
    BY <1>11
  <2> QED
    BY <1>4, <1>5, <1>6, <1>10, <1>11, <1>12, <2>1, StepSignature
<1>15. OnCourse(c, script, G, t, i, p2) /\ Depth(c) = 1 /\ Top(c, 1) = True
  <2>1. OnCourse(c, script, G, t, i, p2) /\ Changed(b, c, 2, <<True>>)
    BY <1>14 DEF Advanced
  <2>2. Depth(c) = (Depth(b) - 2) + 1 /\ Top(c, 1) = True
    <3>1. PICK e \in Nat : e = 2
      OBVIOUS
    <3>2. Depth(b) \in Nat /\ Changed(b, c, e, <<True>>)
      BY <1>11, <2>1, <3>1
    <3> QED
      BY <3>1, <3>2, AfterOne
  <2> QED
    BY <1>11, <2>1, <2>2
<1> QED
  BY <1>3, <1>4, <1>13, <1>15, EndedWell

-----------------------------------------------------------------------------
(* The standard scripts, run to their ends. *)

\* Two items in place of one.
LEMMA AfterDup ==
    ASSUME NEW m, NEW n, NEW k, k = 1, NEW a, NEW b, Changed(m, n, k, <<a, b>>),
           NEW d \in Nat, d = Depth(m), d >= 1
    PROVE  /\ Depth(n) = d + 1 /\ Top(n, 1) = b /\ Top(n, 2) = a
           /\ \A j \in 1..(d - 1) : Top(n, 2 + j) = Top(m, 1 + j)
<1>1. k \in Nat /\ Depth(m) \in Nat
  OBVIOUS
<1>2. /\ Depth(n) = (Depth(m) - k) + 2 /\ Top(n, 1) = b /\ Top(n, 2) = a
      /\ \A i \in 1..(Depth(m) - k) : Top(n, 2 + i) = Top(m, k + i)
  BY <1>1, AfterTwo
<1> QED
  BY <1>2

\* The script of a key hash accepts the key that hashes to it, with a signature of the key.
LEMMA KeyHashAccepts ==
    ASSUME MaxElement >= 71, MaxOps >= 5,
           NEW X, NEW script, script \in Seq(X), NoSigs(script), NEW k, ChunksOfKeyHash(script, k),
           NEW G, NEW t, NEW i, NEW z, z = 0, NEW m, OnCourse(m, script, G, t, i, z),
           Depth(m) = 2, Top(m, 1) = Key(k), VerifySignature(t, Top(m, 2), Key(k), i, script)
    PROVE  Ended(Evaluate(m), G) /\ Depth(Evaluate(m)) = 1
<1>0. MaxOps \in Nat
  BY LimitsAreNumbers
<1>1. PICK n \in Nat : n = 5
  OBVIOUS
<1>2. n = Len(script) /\ m.script = script
  BY <1>1 DEF ChunksOfKeyHash, OnCourse
<1>3. PICK st : AreTurns(st, m, n) /\ Evaluate(m) = st[n]
  BY <1>2, EvaluationRuns
<1>4. PICK p0 \in Nat, p1 \in Nat, p2 \in Nat, p3 \in Nat, p4 \in Nat, p5 \in Nat :
        /\ p0 = z /\ p1 = p0 + 1 /\ p2 = p1 + 1 /\ p3 = p2 + 1 /\ p4 = p3 + 1 /\ p5 = p4 + 1
        /\ p5 = n
  <2>1. PICK p0 \in Nat, p1 \in Nat, p2 \in Nat, p3 \in Nat, p4 \in Nat, p5 \in Nat :
          p0 = 0 /\ p1 = 1 /\ p2 = 2 /\ p3 = 3 /\ p4 = 4 /\ p5 = 5
    OBVIOUS
  <2> QED
    BY <1>1, <2>1
<1>5. /\ st[p0] = m /\ p1 <= n /\ p2 <= n /\ p3 <= n /\ p4 <= n /\ p5 <= n
      /\ p1 <= MaxOps /\ p2 <= MaxOps /\ p3 <= MaxOps /\ p4 <= MaxOps /\ p5 <= MaxOps
  BY <1>0, <1>1, <1>4, <1>3 DEF AreTurns
<1> PICK item : item = Key(k)
  OBVIOUS
<1> PICK h : h = Hash("HASH160", Key(k))
  OBVIOUS
<1> PICK sig : sig = Top(m, 2)
  OBVIOUS
<1>6. /\ script[p1].op = "DUP" /\ script[p2].op = "HASH160"
      /\ script[p3].op = "PUSH" /\ script[p3].item = h
      /\ script[p4].op = "EQUALVERIFY" /\ script[p5].op = "CHECKSIG"
  <2>1. p1 = 1 /\ p2 = 2 /\ p3 = 3 /\ p4 = 4 /\ p5 = 5
    BY <1>1, <1>4
  <2> QED
    BY <2>1 DEF ChunksOfKeyHash
<1>7. PICK one \in Nat, two \in Nat : one = 1 /\ two = 2
  OBVIOUS
<1>8. PICK b : b = Step(m)
  OBVIOUS
<1>9. /\ OnCourse(b, script, G, t, i, p1) /\ st[p1] = b
      /\ Depth(b) = 3 /\ Top(b, 1) = item /\ Top(b, 2) = item /\ Top(b, 3) = sig
  <2>1. st[p1] = b
    BY <1>3, <1>4, <1>5, <1>8, NextTurn
  <2>2. Advanced(m, b, 1, <<item, item>>, script, G, t, i, p1)
    BY <1>4, <1>5, <1>6, <1>8, StepDup
  <2>3. OnCourse(b, script, G, t, i, p1) /\ Changed(m, b, one, <<item, item>>)
    BY <1>7, <2>2 DEF Advanced
  <2>4. PICK d \in Nat : d = Depth(m) /\ d = 2
    OBVIOUS
  <2>5. /\ Depth(b) = d + 1 /\ Top(b, 1) = item /\ Top(b, 2) = item
        /\ \A j \in 1..(d - 1) : Top(b, 2 + j) = Top(m, 1 + j)
    <3>1. d \in Nat /\ d = Depth(m) /\ d >= 1
      BY <2>4
    <3>2. one = 1 /\ Changed(m, b, one, <<item, item>>)
      BY <1>7, <2>3
    <3> QED
      BY <3>1, <3>2, AfterDup
  <2>6. Top(b, 2 + 1) = Top(m, 1 + 1)
    BY <2>4, <2>5
  <2> QED
    BY <2>1, <2>3, <2>4, <2>5, <2>6
<1>10. PICK c : c = Step(b)
  OBVIOUS
<1>11. /\ OnCourse(c, script, G, t, i, p2) /\ st[p2] = c
       /\ Depth(c) = 3 /\ Top(c, 1) = h /\ Top(c, 2) = item /\ Top(c, 3) = sig
  <2>1. st[p2] = c
    BY <1>3, <1>4, <1>5, <1>9, <1>10, NextTurn
  <2>2. Advanced(b, c, 1, <<h>>, script, G, t, i, p2)
    <3>1. /\ OnCourse(b, script, G, t, i, p1) /\ p1 + 1 <= MaxOps
          /\ script[p1 + 1].op = "HASH160" /\ Depth(b) >= 1
      BY <1>4, <1>5, <1>6, <1>9
    <3>2. h = Hash("HASH160", Top(b, 1))
      BY <1>9
    <3>3. Advanced(b, Step(b), 1, <<h>>, script, G, t, i, p1 + 1)
      BY <3>1, <3>2, StepHash160
    <3> QED
      BY <1>4, <1>10, <3>3
  <2>3. OnCourse(c, script, G, t, i, p2) /\ Changed(b, c, one, <<h>>)
    BY <1>7, <2>2 DEF Advanced
  <2>4. PICK d \in Nat : d = Depth(b) /\ d = 3
    BY <1>9
  <2>5. /\ Depth(c) = (Depth(b) - one) + 1 /\ Top(c, 1) = h
        /\ \A j \in 1..(Depth(b) - one) : Top(c, 1 + j) = Top(b, one + j)
    <3>1. Depth(b) \in Nat
      BY <2>4
    <3> QED
      BY <2>3, <3>1, AfterOne
  <2>6. Top(c, 1 + 1) = Top(b, one + 1) /\ Top(c, 1 + 2) = Top(b, one + 2)
    BY <1>7, <1>9, <2>5
  <2> QED
    BY <1>7, <1>9, <2>1, <2>3, <2>5, <2>6
<1>12. PICK e : e = Step(c)
  OBVIOUS
<1>13. /\ OnCourse(e, script, G, t, i, p3) /\ st[p3] = e
       /\ Depth(e) = 4 /\ Top(e, 1) = h /\ Top(e, 2) = h /\ Top(e, 3) = item /\ Top(e, 4) = sig
  <2>1. st[p3] = e
    BY <1>3, <1>4, <1>5, <1>11, <1>12, NextTurn
  <2>2. Size(h) \in {20, 33, 71} /\ "num" \notin DOMAIN h /\ ~IsSignature(h)
    BY PlainItems, NoSignatures
  <2>3. Loads(script[p3], h)
    BY <1>6, <2>2, PushLoads
  <2>4. Advanced(c, e, 0, <<h>>, script, G, t, i, p3)
    BY <1>4, <1>5, <1>11, <1>12, <2>2, <2>3, StepLoads
  <2>5. PICK zero : zero = 0
    OBVIOUS
  <2>6. OnCourse(e, script, G, t, i, p3) /\ Changed(c, e, zero, <<h>>)
    BY <2>4, <2>5 DEF Advanced
  <2>7. PICK d \in Nat : d = Depth(c)
    BY <1>11
  <2>8. Depth(e) = d + 1 /\ Top(e, 1) = h /\ \A a \in 1..d : Top(e, 1 + a) = Top(c, a)
    BY <2>5, <2>6, <2>7, AfterPush
  <2>9. d = 3
    BY <1>11, <2>7
  <2>10. Top(e, 1 + 1) = Top(c, 1) /\ Top(e, 1 + 2) = Top(c, 2) /\ Top(e, 1 + 3) = Top(c, 3)
    BY <2>8, <2>9
  <2> QED
    BY <1>11, <2>1, <2>6, <2>8, <2>9, <2>10
<1>14. PICK f : f = Step(e)
  OBVIOUS
<1>15. /\ OnCourse(f, script, G, t, i, p4) /\ st[p4] = f
       /\ Depth(f) = 2 /\ Top(f, 1) = item /\ Top(f, 2) = sig
  <2>1. st[p4] = f
    BY <1>3, <1>4, <1>5, <1>13, <1>14, NextTurn
  <2>2. Advanced(e, f, 2, <<>>, script, G, t, i, p4)
    <3>1. PICK op : op = script[p4].op
      OBVIOUS
    <3>2. op \in {"EQUAL", "EQUALVERIFY"} /\ op = "EQUALVERIFY"
      BY <1>6, <3>1
    <3>3. Depth(e) >= 2 /\ Top(e, 2) = Top(e, 1)
      BY <1>13
    <3> QED
      BY <1>4, <1>5, <1>13, <1>14, <3>1, <3>2, <3>3, StepEqual
  <2>3. OnCourse(f, script, G, t, i, p4) /\ Changed(e, f, two, <<>>)
    BY <1>7, <2>2 DEF Advanced
  <2>4. PICK d \in Nat : d = Depth(e) /\ d = 4
    BY <1>13
  <2>5. /\ Depth(f) = Depth(e) - two
        /\ \A j \in 1..(Depth(e) - two) : Top(f, j) = Top(e, two + j)
    <3>1. Depth(e) \in Nat
      BY <2>4
    <3> QED
      BY <2>3, <3>1, AfterNone
  <2>6. Top(f, 1) = Top(e, two + 1) /\ Top(f, 2) = Top(e, two + 2)
    BY <1>7, <1>13, <2>5
  <2> QED
    BY <1>7, <1>13, <2>1, <2>3, <2>5, <2>6
<1>16. PICK g : g = Step(f)
  OBVIOUS
<1>17. st[p5] = g
  BY <1>3, <1>4, <1>5, <1>15, <1>16, NextTurn
<1>18. Advanced(f, g, 2, <<True>>, script, G, t, i, p5)
  <2>1. VerifySignature(t, Top(f, 2), Top(f, 1), i, script)
    BY <1>15
  <2> QED
    BY <1>4, <1>5, <1>6, <1>15, <1>16, <2>1, StepSignature
<1>19. OnCourse(g, script, G, t, i, p5) /\ Depth(g) = 1 /\ Top(g, 1) = True
  <2>1. OnCourse(g, script, G, t, i, p5) /\ Changed(f, g, two, <<True>>)
    BY <1>7, <1>18 DEF Advanced
  <2>2. Depth(g) = (Depth(f) - two) + 1 /\ Top(g, 1) = True
    <3>1. Depth(f) \in Nat
      BY <1>15
    <3> QED
      BY <2>1, <3>1, AfterOne
  <2> QED
    BY <1>7, <1>15, <2>1, <2>2
<1> QED
  BY <1>3, <1>4, <1>17, <1>19, EndedWell

\* A script that commits to another is satisfied by it, and leaves what lay below.
LEMMA HashAccepts ==
    ASSUME MaxElement >= 71, MaxOps >= 5,
           NEW X, NEW script, script \in Seq(X), NEW redeem, ChunksOfHash(script, redeem),
           NEW G, NEW t, NEW i, NEW z, z = 0, NEW m, OnCourse(m, script, G, t, i, z),
           NEW d \in Nat, d = Depth(m), d >= 1, Top(m, 1) = Serialized(redeem)
    PROVE  Ended(Evaluate(m), G) /\ Depth(Evaluate(m)) = d
<1>0. MaxOps \in Nat
  BY LimitsAreNumbers
<1>1. PICK n \in Nat : n = 3
  OBVIOUS
<1>2. n = Len(script) /\ m.script = script
  BY <1>1 DEF ChunksOfHash, OnCourse
<1>3. PICK st : AreTurns(st, m, n) /\ Evaluate(m) = st[n]
  BY <1>2, EvaluationRuns
<1>4. PICK p0 \in Nat, p1 \in Nat, p2 \in Nat, p3 \in Nat :
        p0 = z /\ p1 = p0 + 1 /\ p2 = p1 + 1 /\ p3 = p2 + 1 /\ p3 = n
  <2>1. PICK p0 \in Nat, p1 \in Nat, p2 \in Nat, p3 \in Nat : p0 = 0 /\ p1 = 1 /\ p2 = 2 /\ p3 = 3
    OBVIOUS
  <2> QED
    BY <1>1, <2>1
<1>5. /\ st[p0] = m /\ p1 <= n /\ p2 <= n /\ p3 <= n
      /\ p1 <= MaxOps /\ p2 <= MaxOps /\ p3 <= MaxOps
  BY <1>0, <1>1, <1>4, <1>3 DEF AreTurns
<1> PICK h : h = Hash("HASH160", Serialized(redeem))
  OBVIOUS
<1>6. /\ script[p1].op = "HASH160" /\ script[p2].op = "PUSH" /\ script[p2].item = h
      /\ script[p3].op = "EQUAL"
  <2>1. p1 = 1 /\ p2 = 2 /\ p3 = 3
    BY <1>1, <1>4
  <2> QED
    BY <2>1 DEF ChunksOfHash
<1>7. PICK one \in Nat, two \in Nat : one = 1 /\ two = 2
  OBVIOUS
<1>8. PICK b : b = Step(m)
  OBVIOUS
<1>9. OnCourse(b, script, G, t, i, p1) /\ st[p1] = b /\ Depth(b) = d /\ Top(b, 1) = h
  <2>1. st[p1] = b
    BY <1>3, <1>4, <1>5, <1>8, NextTurn
  <2>2. Advanced(m, b, 1, <<h>>, script, G, t, i, p1)
    <3>1. /\ OnCourse(m, script, G, t, i, p0) /\ p0 + 1 <= MaxOps
          /\ script[p0 + 1].op = "HASH160" /\ Depth(m) >= 1
      BY <1>4, <1>5, <1>6
    <3>2. h = Hash("HASH160", Top(m, 1))
      OBVIOUS
    <3>3. Advanced(m, Step(m), 1, <<h>>, script, G, t, i, p0 + 1)
      BY <3>1, <3>2, StepHash160
    <3> QED
      BY <1>4, <1>8, <3>3
  <2>3. OnCourse(b, script, G, t, i, p1) /\ Changed(m, b, one, <<h>>)
    BY <1>7, <2>2 DEF Advanced
  <2>4. Depth(b) = (Depth(m) - one) + 1 /\ Top(b, 1) = h
    <3>1. Depth(m) \in Nat
      OBVIOUS
    <3> QED
      BY <2>3, <3>1, AfterOne
  <2> QED
    BY <1>7, <2>1, <2>3, <2>4
<1>10. PICK c : c = Step(b)
  OBVIOUS
<1>11. /\ OnCourse(c, script, G, t, i, p2) /\ st[p2] = c
       /\ Depth(c) = d + 1 /\ Top(c, 1) = h /\ Top(c, 2) = h
  <2>1. st[p2] = c
    BY <1>3, <1>4, <1>5, <1>9, <1>10, NextTurn
  <2>2. Size(h) \in {20, 33, 71} /\ "num" \notin DOMAIN h /\ ~IsSignature(h)
    BY PlainItems, NoSignatures
  <2>3. Loads(script[p2], h)
    BY <1>6, <2>2, PushLoads
  <2>4. Advanced(b, c, 0, <<h>>, script, G, t, i, p2)
    BY <1>4, <1>5, <1>9, <1>10, <2>2, <2>3, StepLoads
  <2>5. PICK zero : zero = 0
    OBVIOUS
  <2>6. OnCourse(c, script, G, t, i, p2) /\ Changed(b, c, zero, <<h>>)
    BY <2>4, <2>5 DEF Advanced
  <2>7. d = Depth(b)
    BY <1>9
  <2>8. Depth(c) = d + 1 /\ Top(c, 1) = h /\ \A a \in 1..d : Top(c, 1 + a) = Top(b, a)
    BY <2>5, <2>6, <2>7, AfterPush
  <2>9. Top(c, 1 + 1) = Top(b, 1)
    BY <2>8
  <2> QED
    BY <1>9, <2>1, <2>6, <2>8, <2>9
<1>12. PICK e : e = Step(c)
  OBVIOUS
<1>13. st[p3] = e
  BY <1>3, <1>4, <1>5, <1>11, <1>12, NextTurn
<1>14. Advanced(c, e, 2, <<True>>, script, G, t, i, p3)
  <2>1. PICK op : op = script[p3].op
    OBVIOUS
  <2>2. op \in {"EQUAL", "EQUALVERIFY"} /\ op = "EQUAL"
    BY <1>6, <2>1
  <2>3. Depth(c) >= 2
    BY <1>11
  <2> QED
    BY <1>4, <1>5, <1>11, <1>12, <2>1, <2>2, <2>3, StepEqual
<1>15. OnCourse(e, script, G, t, i, p3) /\ Depth(e) = d /\ Top(e, 1) = True
  <2>1. OnCourse(e, script, G, t, i, p3) /\ Changed(c, e, two, <<True>>)
    BY <1>7, <1>14 DEF Advanced
  <2>2. Depth(e) = (Depth(c) - two) + 1 /\ Top(e, 1) = True
    <3>1. Depth(c) \in Nat
      BY <1>11
    <3> QED
      BY <2>1, <3>1, AfterOne
  <2> QED
    BY <1>7, <1>11, <2>1, <2>2
<1> QED
  BY <1>3, <1>4, <1>13, <1>15, EndedWell

\* What the chunks of a multisig load before the last of them.
KeyItems(n, keys, q) ==
    [j \in 1..(n + 2) |-> IF j = 1 THEN Num(q) ELSE IF j = n + 2 THEN Num(n) ELSE Key(keys[j - 1])]

\* All chunks of a multisig but the last load the numbers and the keys.
LEMMA KeysLoad ==
    ASSUME MaxElement >= 71, NEW script, NEW n \in Nat, NEW q, NEW keys,
           ChunksOfKeys(script, keys, n, q), NEW x, x = KeyItems(n, keys, q)
    PROVE  /\ x[1] = Num(q) /\ x[n + 2] = Num(n) /\ \A a \in 1..n : x[1 + a] = Key(keys[a])
           /\ \A j \in 1..(n + 2) : Loads(script[j], x[j]) /\ ~IsSignature(x[j])
<1>1. x[1] = Num(q) /\ x[n + 2] = Num(n)
  BY DEF KeyItems
<1>2. \A a \in 1..n : x[1 + a] = Key(keys[a])
  <2> SUFFICES ASSUME NEW a \in 1..n PROVE x[1 + a] = Key(keys[a])
    OBVIOUS
  <2>1. 1 + a \in 1..(n + 2) /\ 1 + a # 1 /\ 1 + a # n + 2 /\ (1 + a) - 1 = a
    OBVIOUS
  <2> QED
    BY <2>1 DEF KeyItems
<1>3. ASSUME NEW j \in 1..(n + 2) PROVE Loads(script[j], x[j]) /\ ~IsSignature(x[j])
  <2>1. CASE j = 1
    <3>1. script[j].op = "SMALLINT" /\ x[j] = Num(script[j].n) /\ x[j] = Num(q)
      BY <1>1, <2>1 DEF ChunksOfKeys
    <3> QED
      BY <3>1, NoSignatures, Zenon DEF Loads
  <2>2. CASE j = n + 2
    <3>1. script[j].op = "SMALLINT" /\ x[j] = Num(script[j].n) /\ x[j] = Num(n)
      BY <1>1, <2>2 DEF ChunksOfKeys
    <3> QED
      BY <3>1, NoSignatures, Zenon DEF Loads
  <2>3. CASE j # 1 /\ j # n + 2
    <3>1. PICK a \in 1..n : j = 1 + a
      BY <2>3
    <3>2. x[j] = Key(keys[a]) /\ script[j].op = "PUSH" /\ script[j].item = Key(keys[a])
      BY <1>2, <3>1 DEF ChunksOfKeys
    <3>3. PICK item : item = Key(keys[a])
      OBVIOUS
    <3>4. Size(item) \in {20, 33, 71} /\ "num" \notin DOMAIN item /\ ~IsSignature(item)
      <4>1. DOMAIN item = {"key"}
        BY <3>3 DEF Key
      <4> QED
        BY <3>3, <4>1, PlainItems DEF IsSignature, IsA
    <3>5. Loads(script[j], item)
      BY <3>2, <3>3, <3>4, PushLoads
    <3> QED
      BY <3>2, <3>3, <3>4, <3>5
  <2> QED
    BY <2>1, <2>2, <2>3
<1> QED
  BY <1>1, <1>2, <1>3

\* Signatures in the order of the keys that verify them.
InOrder(m, n, q, keys, t, i, script) ==
    \E f \in [1..q -> 1..n] :
        /\ \A a, b \in 1..q : a < b => f[a] < f[b]
        /\ \A a \in 1..q : VerifySignature(t, Top(m, (q + 1) - a), Key(keys[f[a]]), i, script)

\* Then the stack is what OP_CHECKMULTISIG takes its parts from.
LEMMA KeysPrepare ==
    ASSUME NEW n \in Nat, n <= MaxKeys, n <= MaxNum, NEW q \in 1..n, NEW keys,
           NEW script, NEW t, NEW i, NEW m, InOrder(m, n, q, keys, t, i, script),
           Depth(m) = q + 1, Top(m, q + 1) = Num(0),
           NEW x, x[1] = Num(q), x[n + 2] = Num(n), \A a \in 1..n : x[1 + a] = Key(keys[a]),
           NEW o, Laid(m, o, x, n + 2)
    PROVE  Prepared(o, n, q, script, t, i)
<1>1. /\ Depth(o) = (q + 1) + (n + 2)
      /\ \A a \in 1..(n + 2) : Top(o, a) = x[((n + 2) + 1) - a]
      /\ \A a \in 1..(q + 1) : Top(o, (n + 2) + a) = Top(m, a)
  BY DEF Laid
<1>2. Top(o, 1) = Num(n)
  <2>1. 1 \in 1..(n + 2) /\ ((n + 2) + 1) - 1 = n + 2
    OBVIOUS
  <2> QED
    BY <1>1, <2>1
<1>3. Top(o, n + 2) = Num(q)
  <2>1. n + 2 \in 1..(n + 2) /\ ((n + 2) + 1) - (n + 2) = 1
    OBVIOUS
  <2> QED
    BY <1>1, <2>1
<1>4. \A a \in 1..n : Top(o, 1 + a) = Key(keys[(n + 1) - a])
  <2> SUFFICES ASSUME NEW a \in 1..n PROVE Top(o, 1 + a) = Key(keys[(n + 1) - a])
    OBVIOUS
  <2>1. PICK b \in 1..n : b = (n + 1) - a
    OBVIOUS
  <2>2. 1 + a \in 1..(n + 2) /\ ((n + 2) + 1) - (1 + a) = 1 + b
    BY <2>1
  <2> QED
    BY <1>1, <2>1, <2>2
<1>5. Size(Top(o, n + q + 3)) = 0
  <2>1. PICK c \in 1..(q + 1) : c = q + 1 /\ n + q + 3 = (n + 2) + c
    OBVIOUS
  <2>2. Top(o, n + q + 3) = Num(0)
    BY <1>1, <2>1
  <2> QED
    BY <2>2, EmptyItem
<1>6. \A a \in 1..n : IsKey(Top(o, 1 + a))
  <2> SUFFICES ASSUME NEW a \in 1..n PROVE IsKey(Top(o, 1 + a))
    OBVIOUS
  <2>1. PICK k : k = keys[(n + 1) - a]
    OBVIOUS
  <2>2. DOMAIN Key(k) = {"key"}
    BY DEF Key
  <2> QED
    BY <1>4, <2>1, <2>2 DEF IsKey, IsA
<1>7. PICK f \in [1..q -> 1..n] :
        /\ \A a, b \in 1..q : a < b => f[a] < f[b]
        /\ \A a \in 1..q : VerifySignature(t, Top(m, (q + 1) - a), Key(keys[f[a]]), i, script)
  BY DEF InOrder
<1> DEFINE g == [a \in 1..q |-> (n + 1) - f[(q + 1) - a]]
<1>8. g \in [1..q -> 1..n]
  <2> SUFFICES ASSUME NEW a \in 1..q PROVE (n + 1) - f[(q + 1) - a] \in 1..n
    OBVIOUS
  <2>1. PICK b \in 1..q : b = (q + 1) - a
    OBVIOUS
  <2>2. f[b] \in 1..n
    BY <1>7
  <2> QED
    BY <2>1, <2>2
<1>9. \A a, b \in 1..q : a < b => g[a] < g[b]
  <2> SUFFICES ASSUME NEW a \in 1..q, NEW b \in 1..q, a < b PROVE g[a] < g[b]
    OBVIOUS
  <2>1. PICK c \in 1..q, d \in 1..q : c = (q + 1) - a /\ d = (q + 1) - b /\ d < c
    OBVIOUS
  <2>2. f[d] < f[c] /\ f[c] \in 1..n /\ f[d] \in 1..n
    BY <1>7, <2>1
  <2> QED
    BY <2>1, <2>2
<1>10. \A a \in 1..q : VerifySignature(t, Top(o, n + 2 + a), Top(o, 1 + g[a]), i, script)
  <2> SUFFICES ASSUME NEW a \in 1..q
               PROVE  VerifySignature(t, Top(o, n + 2 + a), Top(o, 1 + g[a]), i, script)
    OBVIOUS
  <2>1. PICK c \in 1..q : c = (q + 1) - a /\ (q + 1) - c = a
    OBVIOUS
  <2>2. VerifySignature(t, Top(m, a), Key(keys[f[c]]), i, script)
    BY <1>7, <2>1
  <2>3. Top(o, n + 2 + a) = Top(m, a)
    BY <1>1
  <2>4. PICK b \in 1..n : b = f[c]
    BY <1>7
  <2>5. PICK e \in 1..n : e = (n + 1) - b /\ (n + 1) - e = b
    OBVIOUS
  <2>6. g[a] = e
    BY <2>1, <2>4, <2>5
  <2>7. Top(o, 1 + e) = Key(keys[b])
    BY <1>4, <2>5
  <2> HIDE DEF g
  <2> QED
    BY <2>2, <2>3, <2>4, <2>6, <2>7
<1> HIDE DEF g
<1>11. \A a \in 1..q : IsSignature(Top(o, n + 2 + a))
  BY <1>10 DEF VerifySignature
<1>12. Depth(o) = n + q + 3 /\ q \in 0..n
  BY <1>1
<1>13. \E h \in [1..q -> 1..n] :
          /\ \A a, b \in 1..q : a < b => h[a] < h[b]
          /\ \A a \in 1..q : VerifySignature(t, Top(o, n + 2 + a), Top(o, 1 + h[a]), i, script)
  BY <1>8, <1>9, <1>10, Zenon
<1> QED
  BY <1>2, <1>3, <1>5, <1>6, <1>11, <1>12, <1>13, Zenon DEF Prepared

\* A multisig accepts as many signatures as it asks for, in the order of their keys.
LEMMA KeysAccept ==
    ASSUME MaxElement >= 71,
           NEW X, NEW script, script \in Seq(X), NoSigs(script),
           NEW n \in Nat, n <= MaxKeys, n <= MaxNum, 2 * n + 3 <= MaxOps, NEW q \in 1..n, NEW keys,
           ChunksOfKeys(script, keys, n, q),
           NEW G, NEW t, NEW i, NEW z, z = 0, NEW m, OnCourse(m, script, G, t, i, z),
           InOrder(m, n, q, keys, t, i, script), Depth(m) = q + 1, Top(m, q + 1) = Num(0)
    PROVE  Ended(Evaluate(m), G) /\ Depth(Evaluate(m)) = 1
<1>0. MaxOps \in Nat
  BY LimitsAreNumbers
<1>1. PICK l \in Nat, p \in Nat : l = n + 2 /\ p = l + 1 /\ p = n + 3
  OBVIOUS
<1>2. p = Len(script) /\ m.script = script
  BY <1>1 DEF ChunksOfKeys, OnCourse
<1>3. PICK st : AreTurns(st, m, p) /\ Evaluate(m) = st[p]
  BY <1>2, EvaluationRuns
<1>4. PICK x : x = KeyItems(n, keys, q)
  OBVIOUS
<1>5. /\ x[1] = Num(q) /\ x[n + 2] = Num(n) /\ \A a \in 1..n : x[1 + a] = Key(keys[a])
      /\ \A j \in 1..(n + 2) : Loads(script[j], x[j]) /\ ~IsSignature(x[j])
  BY <1>4, KeysLoad
<1>6. PICK o : o = st[l]
  OBVIOUS
<1>7. OnCourse(o, script, G, t, i, l) /\ Laid(m, o, x, l)
  <2>1. \A j \in 1..l : Loads(script[j], x[j]) /\ (IsSignature(x[j]) => x[j] \in G)
    BY <1>1, <1>5
  <2>2. l <= MaxOps /\ l <= p
    BY <1>0, <1>1
  <2> QED
    BY <1>3, <1>6, <2>1, <2>2, LoadsRun
<1>8. Prepared(o, n, q, script, t, i)
  <2>1. Laid(m, o, x, n + 2)
    BY <1>1, <1>7
  <2> QED
    BY <1>5, <2>1, KeysPrepare
<1>9. st[p] = Step(o)
  BY <1>1, <1>3, <1>6, <1>7, NextTurn
<1>10. script[l + 1].op = "CHECKMULTISIG" /\ l + 1 + n <= MaxOps
  BY <1>0, <1>1 DEF ChunksOfKeys
<1>11. Ended(Step(o), G) /\ Depth(Step(o)) = 1
  BY <1>7, <1>8, <1>10, StepKeys
<1> QED
  BY <1>3, <1>9, <1>11

-----------------------------------------------------------------------------
(* A spend whose first script only loads. *)

LEMMA LoadedIsEvaluated ==
    ASSUME NEW script, NEW G, NEW t, NEW i, NEW l \in Nat, l <= MaxStack, NEW x,
           NEW o, Loaded(o, x, l, script, G, t, i)
    PROVE  Evaluated(o)
<1>1. o.failed = FALSE /\ o.vfExec = <<>> /\ o.altstack = <<>>
  BY DEF Loaded, OnCourse
<1>2. Len(o.stack) + Len(o.altstack) <= MaxStack
  <2>1. Len(o.stack) = l
    BY DEF Loaded, Depth
  <2> QED
    BY <1>1, <2>1
<1> QED
  BY <1>1, <1>2, Zenon DEF Evaluated

LEMMA NotScriptHash ==
    ASSUME NEW script, 1 \in DOMAIN script, script[1].op # "HASH160"
    PROVE  ~IsScriptHashOut(script)
<1>1. Ops(script)[1] # "HASH160"
  BY DEF Ops
<1>2. <<"HASH160", "PUSH", "EQUAL">>[1] = "HASH160"
  OBVIOUS
<1> QED
  BY <1>1, <1>2 DEF IsScriptHashOut

LEMMA NoFlag == "SIGPUSHONLY" \notin InputFlags /\ "P2SH" \in InputFlags
BY DEF InputFlags

\* An output that is none to a script hash: the two scripts, one after the other.
LEMMA VerifiesPlain ==
    ASSUME NEW s, s.flags = InputFlags, ~IsScriptHashOut(s.scriptPubkey),
           NEW G, NEW t, NEW i, NEW l \in Nat, l <= MaxStack, NEW x,
           NEW o, o = Evaluate(Machine(s.scriptSig, <<>>, t, i, InputFlags)),
           Loaded(o, x, l, s.scriptSig, G, t, i),
           NEW p, p = Evaluate(Machine(s.scriptPubkey, o.stack, o.tx, o.nin, InputFlags)),
           Ended(p, G), Depth(p) = 1, MaxStack >= 1
    PROVE  Verify(s, t, i)
<1>1. o = Evaluate(SigMachine(s, t, i)) /\ p = Evaluate(PubkeyMachine(s, o))
  BY DEF SigMachine, PubkeyMachine
<1>2. ~RefusedAtOnce(s) /\ ~NeedsRedeem(s)
  BY NoFlag DEF RefusedAtOnce, NeedsRedeem
<1>3. Evaluated(o)
  BY LoadedIsEvaluated
<1>4. EndsTrue(p)
  <2>1. Depth(p) >= 1 /\ Depth(p) <= MaxStack
    BY LimitsAreNumbers
  <2> QED
    BY <2>1, EndsWell
<1> QED
  BY <1>1, <1>2, <1>3, <1>4, Zenon DEF Verify

\* An output to a script hash: the redeem script gets what the input left below it.
LEMMA VerifiesRedeem ==
    ASSUME NEW s, s.flags = InputFlags, IsPushOnly(s.scriptSig),
           NEW G, NEW t, NEW i, NEW l \in Nat, l <= MaxStack, NEW x,
           NEW o, o = Evaluate(Machine(s.scriptSig, <<>>, t, i, InputFlags)),
           Loaded(o, x, l, s.scriptSig, G, t, i),
           NEW p, p = Evaluate(Machine(s.scriptPubkey, o.stack, o.tx, o.nin, InputFlags)),
           Ended(p, G), Depth(p) = l, l >= 1,
           NEW r, r = Evaluate(Machine(Last(o.stack).script, Front(o.stack), o.tx, o.nin, InputFlags)),
           Ended(r, G), Depth(r) = 1
    PROVE  Verify(s, t, i)
<1>1. /\ o = Evaluate(SigMachine(s, t, i)) /\ p = Evaluate(PubkeyMachine(s, o))
      /\ r = Evaluate(RedeemMachine(s, o.stack, o))
  BY DEF SigMachine, PubkeyMachine, RedeemMachine
<1>2. ~RefusedAtOnce(s)
  BY NoFlag DEF RefusedAtOnce
<1>3. Evaluated(o)
  BY LoadedIsEvaluated
<1>4. EndsTrue(p)
  BY EndsWell
<1>5. EndsTrue(r)
  <2>1. Depth(r) >= 1 /\ Depth(r) <= MaxStack
    BY LimitsAreNumbers
  <2> QED
    BY <2>1, EndsWell
<1> QED
  BY <1>1, <1>2, <1>3, <1>4, <1>5, Zenon DEF Verify

\* A signature as Sign makes it.
IsMade(sig) == \E k, type, d : sig = Signed(k, type, d)

\* A push of a signature, and of a public key, loads it.
LEMMA MadeLoads ==
    ASSUME MaxElement >= 71, NEW sig, IsMade(sig), NEW c, c = Push(sig)
    PROVE  Loads(c, sig)
<1>1. Size(sig) \in {20, 33, 71} /\ "num" \notin DOMAIN sig
  BY PlainItems DEF IsMade
<1>2. c.op = "PUSH" /\ c.item = sig
  BY DEF Push
<1> QED
  BY <1>1, <1>2, PushLoads

LEMMA KeyLoads ==
    ASSUME MaxElement >= 71, NEW k, NEW item, item = Key(k), NEW c, c = Push(item)
    PROVE  Loads(c, item) /\ ~IsSignature(item)
<1>1. Size(item) \in {20, 33, 71} /\ "num" \notin DOMAIN item
  BY PlainItems
<1>2. c.op = "PUSH" /\ c.item = item
  BY DEF Push
<1>3. ~IsSignature(item)
  <2>1. DOMAIN item = {"key"}
    BY DEF Key
  <2> QED
    BY <2>1 DEF IsSignature, IsA
<1> QED
  BY <1>1, <1>2, <1>3, PushLoads

\* A spend of an output to a key, with a signature of it, is accepted.
LEMMA KeyVerifies ==
    ASSUME MaxElement >= 71, MaxOps >= 5, MaxStack >= 3,
           NEW s, s.flags = InputFlags, NEW k, NEW sig, IsMade(sig),
           s.scriptSig = PublicKeyIn(sig), NEW script, script = PublicKeyOut(k),
           s.scriptPubkey = script, NEW t, NEW i, VerifySignature(t, sig, Key(k), i, script)
    PROVE  Verify(s, t, i)
<1>0. MaxOps \in Nat /\ MaxStack \in Nat
  BY LimitsAreNumbers
<1> PICK G, x : G = {sig} /\ x = <<sig>>
  OBVIOUS
<1> PICK z : z = 0
  OBVIOUS
<1> PICK one \in Nat : one = 1
  OBVIOUS
<1>1. G = {sig} /\ x = <<sig>> /\ one = 1 /\ z = 0
  OBVIOUS
<1>2. PICK first : first = s.scriptSig
  OBVIOUS
<1>3. first = <<Push(sig)>>
  BY <1>2 DEF PublicKeyIn
<1>4. PICK X : first \in Seq(X) /\ Len(first) = one
  <2>1. first \in Seq({Push(sig)}) /\ Len(first) = 1
    BY <1>3
  <2> QED
    BY <1>1, <2>1
<1>5. \A j \in 1..one : Loads(first[j], x[j]) /\ (IsSignature(x[j]) => x[j] \in G)
  <2>1. first[1] = Push(sig) /\ x[1] = sig /\ sig \in G
    BY <1>1, <1>3
  <2>2. Loads(first[1], sig)
    BY <2>1, MadeLoads
  <2> QED
    BY <1>1, <2>1, <2>2
<1>6. PICK o : o = Evaluate(Machine(first, <<>>, t, i, InputFlags))
  OBVIOUS
<1>7. Loaded(o, x, one, first, G, t, i)
  <2>1. one <= MaxOps /\ one = Len(first)
    BY <1>0, <1>1, <1>4
  <2> QED
    BY <1>4, <1>5, <1>6, <2>1, LoadsAll
<1>8. OnCourse(o, first, G, t, i, one) /\ Depth(o) = 1 /\ Top(o, 1) = sig
  <2>1. /\ OnCourse(o, first, G, t, i, one) /\ Depth(o) = one
        /\ \A a \in 1..one : Top(o, a) = x[(one + 1) - a]
    BY <1>7 DEF Loaded
  <2>2. 1 \in 1..one /\ (one + 1) - 1 = 1 /\ x[1] = sig
    BY <1>1
  <2> QED
    BY <1>1, <2>1, <2>2
<1>9. PICK m : m = Machine(script, o.stack, o.tx, o.nin, InputFlags)
  OBVIOUS
<1>10. OnCourse(m, script, G, t, i, z) /\ Depth(m) = 1 /\ Top(m, 1) = sig
  <2>1. OnCourse(o, first, G, t, i, one)
    BY <1>8
  <2>2. Follows(m, o, script, G, t, i)
    BY <1>9, <2>1, NextScript
  <2> QED
    BY <1>1, <1>8, <2>2 DEF Follows
<1>11. /\ ChunksOfKey(script, k) /\ NoSigs(script)
       /\ script \in Seq({Push(Key(k)), Op("CHECKSIG")})
  <2>1. ChunksOfKey(script, k) /\ NoSigs(script)
    BY KeyChunks
  <2>2. PICK a, b : a = Push(Key(k)) /\ b = Op("CHECKSIG")
    OBVIOUS
  <2>3. script = <<a, b>>
    BY <2>2 DEF PublicKeyOut
  <2>4. script \in Seq({a, b})
    BY <2>3
  <2> QED
    BY <2>1, <2>2, <2>4
<1>12. PICK p : p = Evaluate(m)
  OBVIOUS
<1>13. Ended(p, G) /\ Depth(p) = 1
  <2>1. PICK Y : script \in Seq(Y)
    BY <1>11
  <2>2. VerifySignature(t, Top(m, 1), Key(k), i, script)
    BY <1>10
  <2> QED
    BY <1>1, <1>10, <1>11, <1>12, <2>1, <2>2, KeyAccepts
<1>14. ~IsScriptHashOut(script)
  <2>1. 1 \in DOMAIN script /\ script[1].op # "HASH160"
    BY <1>11 DEF ChunksOfKey
  <2> QED
    BY <2>1, NotScriptHash
<1>15. one <= MaxStack /\ MaxStack >= 1
  BY <1>0, <1>1
<1> QED
  BY <1>2, <1>6, <1>7, <1>9, <1>12, <1>13, <1>14, <1>15, VerifiesPlain

\* A spend of an output to a key hash, with the key and a signature of it, is accepted.
LEMMA KeyHashVerifies ==
    ASSUME MaxElement >= 71, MaxOps >= 5, MaxStack >= 3,
           NEW s, s.flags = InputFlags, NEW k, NEW sig, IsMade(sig),
           s.scriptSig = PublicKeyHashIn(k, sig), NEW script, script = PublicKeyHashOut(k),
           s.scriptPubkey = script, NEW t, NEW i, VerifySignature(t, sig, Key(k), i, script)
    PROVE  Verify(s, t, i)
<1>0. MaxOps \in Nat /\ MaxStack \in Nat
  BY LimitsAreNumbers
<1> PICK key : key = Key(k)
  OBVIOUS
<1> PICK G, x : G = {sig} /\ x = <<sig, key>>
  OBVIOUS
<1> PICK z : z = 0
  OBVIOUS
<1> PICK two \in Nat : two = 2
  OBVIOUS
<1>1. G = {sig} /\ x = <<sig, key>> /\ two = 2 /\ z = 0
  OBVIOUS
<1>2. PICK first : first = s.scriptSig
  OBVIOUS
<1>3. first = <<Push(sig), Push(key)>>
  BY <1>2 DEF PublicKeyHashIn
<1>4. PICK X : first \in Seq(X) /\ Len(first) = two
  <2>1. PICK a, b : a = Push(sig) /\ b = Push(key)
    OBVIOUS
  <2>2. first \in Seq({a, b}) /\ Len(first) = 2
    BY <1>3, <2>1
  <2> QED
    BY <1>1, <2>2
<1>5. \A j \in 1..two : Loads(first[j], x[j]) /\ (IsSignature(x[j]) => x[j] \in G)
  <2>1. /\ first[1] = Push(sig) /\ x[1] = sig /\ sig \in G
        /\ first[2] = Push(key) /\ x[2] = key
    BY <1>1, <1>3
  <2>2. Loads(first[1], sig)
    BY <2>1, MadeLoads
  <2>3. Loads(first[2], key) /\ ~IsSignature(key)
    BY <2>1, KeyLoads
  <2>4. \A j \in 1..two : j = 1 \/ j = 2
    BY <1>1
  <2> QED
    BY <2>1, <2>2, <2>3, <2>4
<1>6. PICK o : o = Evaluate(Machine(first, <<>>, t, i, InputFlags))
  OBVIOUS
<1>7. Loaded(o, x, two, first, G, t, i)
  <2>1. two <= MaxOps /\ two = Len(first)
    BY <1>0, <1>1, <1>4
  <2> QED
    BY <1>4, <1>5, <1>6, <2>1, LoadsAll
<1>8. OnCourse(o, first, G, t, i, two) /\ Depth(o) = 2 /\ Top(o, 1) = key /\ Top(o, 2) = sig
  <2>1. /\ OnCourse(o, first, G, t, i, two) /\ Depth(o) = two
        /\ \A a \in 1..two : Top(o, a) = x[(two + 1) - a]
    BY <1>7 DEF Loaded
  <2>2. /\ 1 \in 1..two /\ (two + 1) - 1 = 2 /\ x[2] = key
        /\ 2 \in 1..two /\ (two + 1) - 2 = 1 /\ x[1] = sig
    BY <1>1
  <2> QED
    BY <1>1, <2>1, <2>2
<1>9. PICK m : m = Machine(script, o.stack, o.tx, o.nin, InputFlags)
  OBVIOUS
<1>10. OnCourse(m, script, G, t, i, z) /\ Depth(m) = 2 /\ Top(m, 1) = Key(k) /\ Top(m, 2) = sig
  <2>1. OnCourse(o, first, G, t, i, two)
    BY <1>8
  <2>2. Follows(m, o, script, G, t, i)
    BY <1>9, <2>1, NextScript
  <2> QED
    BY <1>1, <1>8, <2>2 DEF Follows
<1>11. ChunksOfKeyHash(script, k) /\ NoSigs(script) /\ \E Y : script \in Seq(Y)
  <2>1. ChunksOfKeyHash(script, k) /\ NoSigs(script)
    BY KeyHashChunks
  <2>2. PICK a, b, c, d, e :
          /\ a = Op("DUP") /\ b = Op("HASH160") /\ c = Push(Hash("HASH160", Key(k)))
          /\ d = Op("EQUALVERIFY") /\ e = Op("CHECKSIG")
    OBVIOUS
  <2>3. script = <<a, b, c, d, e>>
    BY <2>2 DEF PublicKeyHashOut
  <2>4. script \in Seq({a, b, c, d, e})
    BY <2>3
  <2> QED
    BY <2>1, <2>4
<1>12. PICK p : p = Evaluate(m)
  OBVIOUS
<1>13. Ended(p, G) /\ Depth(p) = 1
  <2>1. PICK Y : script \in Seq(Y)
    BY <1>11
  <2>2. VerifySignature(t, Top(m, 2), Key(k), i, script)
    BY <1>10
  <2> QED
    BY <1>1, <1>10, <1>11, <1>12, <2>1, <2>2, KeyHashAccepts
<1>14. ~IsScriptHashOut(script)
  <2>1. 1 \in DOMAIN script /\ script[1].op # "HASH160"
    BY <1>11 DEF ChunksOfKeyHash
  <2> QED
    BY <2>1, NotScriptHash
<1>15. two <= MaxStack /\ MaxStack >= 1
  BY <1>0, <1>1
<1> QED
  BY <1>2, <1>6, <1>7, <1>9, <1>12, <1>13, <1>14, <1>15, VerifiesPlain

-----------------------------------------------------------------------------
(* Spends of outputs to several keys, and to script hashes. *)

\* The chunks of an input of a multisig, and perhaps one more.
SigChunks(first, sigs, q) ==
    /\ \E Y : first \in Seq(Y)
    /\ Len(first) \in (q + 1)..(q + 2) /\ first[1] = SmallInt(0)
    /\ \A a \in 1..q : first[1 + a] = Push(sigs[a])

\* The inputs that carry several signatures, chunk by chunk.
LEMMA SigsIn ==
    ASSUME NEW q \in Nat, NEW sigs, DOMAIN sigs = 1..q, NEW first, first = MultisigIn(sigs)
    PROVE  SigChunks(first, sigs, q) /\ Len(first) = q + 1
<1> DEFINE a == <<SmallInt(0)>>
           b == [i \in 1..q |-> Push(sigs[i])]
<1>1. first = a \o b
  BY DEF MultisigIn
<1>2. PICK Y : Y = {SmallInt(0)} \cup {Push(sigs[i]) : i \in 1..q}
  OBVIOUS
<1>3. a \in Seq(Y) /\ b \in Seq(Y)
  <2>1. a \in Seq(Y)
    BY <1>2
  <2>2. \A i \in 1..q : Push(sigs[i]) \in Y
    BY <1>2
  <2> QED
    BY <2>1, <2>2
<1>4. Len(a) = 1 /\ a[1] = SmallInt(0) /\ Len(b) = q /\ \A i \in 1..q : b[i] = Push(sigs[i])
  BY <1>3
<1> HIDE DEF a, b
<1>5. PICK one \in Nat : one = 1
  OBVIOUS
<1>6. IsJoined(first, a, b, one, q, Y)
  <2>1. one = Len(a) /\ q = Len(b)
    BY <1>4, <1>5
  <2> QED
    BY <1>1, <1>3, <2>1, Joined
<1>7. /\ first \in Seq(Y) /\ Len(first) = one + q
      /\ \A i \in 1..one : first[i] = a[i]
      /\ \A i \in 1..q : first[one + i] = b[i]
  BY <1>6 DEF IsJoined
<1>8. first[1] = SmallInt(0) /\ \A i \in 1..q : first[1 + i] = Push(sigs[i])
  BY <1>4, <1>5, <1>7
<1> QED
  BY <1>5, <1>7, <1>8 DEF SigChunks

LEMMA SigsRedeemIn ==
    ASSUME NEW q \in Nat, NEW sigs, DOMAIN sigs = 1..q, NEW redeem,
           NEW first, first = P2SHMultisigIn(sigs, redeem)
    PROVE  /\ SigChunks(first, sigs, q) /\ Len(first) = q + 2
           /\ first[q + 2] = Push(Serialized(redeem))
<1>1. PICK a, c : a = MultisigIn(sigs) /\ c = Push(Serialized(redeem))
  OBVIOUS
<1>2. first = a \o <<c>>
  BY <1>1 DEF P2SHMultisigIn
<1>3. SigChunks(a, sigs, q) /\ Len(a) = q + 1
  BY <1>1, SigsIn
<1>4. PICK X : a \in Seq(X)
  BY <1>3 DEF SigChunks
<1>5. PICK b : b = <<c>>
  OBVIOUS
<1>6. PICK Y : Y = X \cup {c}
  OBVIOUS
<1>7. a \in Seq(Y) /\ b \in Seq(Y) /\ Len(b) = 1 /\ b[1] = c
  BY <1>4, <1>5, <1>6
<1>8. PICK p \in Nat, one \in Nat : p = q + 1 /\ one = 1
  OBVIOUS
<1>9. IsJoined(first, a, b, p, one, Y)
  <2>1. p = Len(a) /\ one = Len(b) /\ first = a \o b
    BY <1>2, <1>3, <1>5, <1>7, <1>8
  <2> QED
    BY <1>7, <2>1, Joined
<1>10. /\ first \in Seq(Y) /\ Len(first) = p + one
       /\ \A i \in 1..p : first[i] = a[i]
       /\ \A i \in 1..one : first[p + i] = b[i]
  BY <1>9 DEF IsJoined
<1>11. first[1] = SmallInt(0) /\ \A i \in 1..q : first[1 + i] = Push(sigs[i])
  <2>1. a[1] = SmallInt(0) /\ \A i \in 1..q : a[1 + i] = Push(sigs[i])
    BY <1>3 DEF SigChunks
  <2>2. 1 \in 1..p /\ \A i \in 1..q : 1 + i \in 1..p
    BY <1>8
  <2> QED
    BY <1>10, <2>1, <2>2
<1>12. first[q + 2] = c /\ Len(first) = q + 2
  <2>1. q + 2 = p + 1 /\ 1 \in 1..one
    BY <1>8
  <2> QED
    BY <1>7, <1>8, <1>10, <2>1
<1> QED
  BY <1>1, <1>10, <1>11, <1>12 DEF SigChunks

\* The chunk after the signatures, when there is one, pushes the redeem script.
RedeemLast(first, x, l, q, redeem) ==
    l = q + 2 => first[q + 2] = Push(Serialized(redeem)) /\ x[q + 2] = Serialized(redeem)

\* All chunks of such an input load an item.
LEMMA SigsLoad ==
    ASSUME MaxElement >= 71, NEW q \in Nat, NEW sigs, \A a \in 1..q : IsMade(sigs[a]),
           NEW first, SigChunks(first, sigs, q), NEW l, l = Len(first),
           NEW x, x[1] = Num(0), \A a \in 1..q : x[1 + a] = sigs[a],
           NEW redeem, RedeemLast(first, x, l, q, redeem),
           NEW G, \A a \in 1..q : sigs[a] \in G
    PROVE  /\ \A j \in 1..l : Loads(first[j], x[j]) /\ (IsSignature(x[j]) => x[j] \in G)
           /\ IsPushOnly(first)
<1>1. l \in (q + 1)..(q + 2) /\ DOMAIN first = 1..l
  BY DEF SigChunks
<1>2. ASSUME NEW j \in 1..l
      PROVE  /\ Loads(first[j], x[j]) /\ (IsSignature(x[j]) => x[j] \in G)
             /\ first[j].op \in {"PUSH", "SMALLINT"}
  <2>1. CASE j = 1
    <3>1. first[j].op = "SMALLINT" /\ x[j] = Num(first[j].n) /\ x[j] = Num(0)
      BY <2>1 DEF SigChunks, SmallInt
    <3>2. first[j].op \in {"PUSH", "SMALLINT"}
      BY <3>1
    <3> QED
      BY <3>1, <3>2, NoSignatures, Zenon DEF Loads
  <2>2. CASE j \in 2..(q + 1)
    <3>1. PICK a \in 1..q : j = 1 + a
      BY <2>2
    <3>2. first[j] = Push(sigs[a]) /\ x[j] = sigs[a] /\ IsMade(sigs[a]) /\ sigs[a] \in G
      BY <3>1 DEF SigChunks
    <3>3. Loads(first[j], x[j])
      BY <3>2, MadeLoads
    <3>4. first[j].op = "PUSH"
      BY <3>2 DEF Push
    <3> QED
      BY <3>2, <3>3, <3>4
  <2>3. CASE j = q + 2
    <3>1. l = q + 2
      BY <1>1, <2>3
    <3>2. PICK item : item = Serialized(redeem)
      OBVIOUS
    <3>3. first[j] = Push(item) /\ x[j] = item
      BY <2>3, <3>1, <3>2 DEF RedeemLast
    <3>4. Size(item) \in {20, 33, 71} /\ "num" \notin DOMAIN item /\ ~IsSignature(item)
      <4>1. DOMAIN item = {"script"}
        BY <3>2 DEF Serialized
      <4> QED
        BY <3>2, <4>1, PlainItems DEF IsSignature, IsA
    <3>5. first[j].op = "PUSH" /\ first[j].item = item
      BY <3>3 DEF Push
    <3>6. Loads(first[j], item)
      BY <3>4, <3>5, PushLoads
    <3> QED
      BY <3>3, <3>4, <3>5, <3>6
  <2> QED
    BY <1>1, <2>1, <2>2, <2>3
<1>3. IsPushOnly(first)
  <2>1. \A j \in DOMAIN first : first[j].op \in {"PUSH", "SMALLINT", "RESERVED"}
    BY <1>1, <1>2
  <2> QED
    BY <2>1 DEF IsPushOnly
<1> QED
  BY <1>2, <1>3

\* Signatures in the order of the keys that verify them.
SignedInOrder(sigs, n, q, keys, t, i, script) ==
    \E f \in [1..q -> 1..n] :
        /\ \A a, b \in 1..q : a < b => f[a] < f[b]
        /\ \A a \in 1..q : VerifySignature(t, sigs[a], Key(keys[f[a]]), i, script)

\* Signatures in order lie on the stack in order.
LEMMA OrderOnStack ==
    ASSUME NEW n \in Nat, NEW q \in Nat, NEW sigs, NEW keys, NEW t, NEW i, NEW script,
           SignedInOrder(sigs, n, q, keys, t, i, script),
           NEW m, \A a \in 1..q : Top(m, (q + 1) - a) = sigs[a]
    PROVE  InOrder(m, n, q, keys, t, i, script)
<1>1. PICK f \in [1..q -> 1..n] :
        /\ \A a, b \in 1..q : a < b => f[a] < f[b]
        /\ \A a \in 1..q : VerifySignature(t, sigs[a], Key(keys[f[a]]), i, script)
  BY DEF SignedInOrder
<1>2. \A a \in 1..q : VerifySignature(t, Top(m, (q + 1) - a), Key(keys[f[a]]), i, script)
  <2> SUFFICES ASSUME NEW a \in 1..q
               PROVE  VerifySignature(t, Top(m, (q + 1) - a), Key(keys[f[a]]), i, script)
    OBVIOUS
  <2>1. Top(m, (q + 1) - a) = sigs[a]
    OBVIOUS
  <2>2. VerifySignature(t, sigs[a], Key(keys[f[a]]), i, script)
    BY <1>1
  <2> QED
    BY <2>1, <2>2
<1> QED
  BY <1>1, <1>2, Zenon DEF InOrder

\* What a list of keys may be, so that a script of them can be met.
Allowed(n) ==
    /\ n \in Nat /\ n <= MaxKeys /\ n <= MaxNum /\ 2 * n + 3 <= MaxOps /\ n + 2 <= MaxStack

\* A spend of an output to keys, with signatures of enough of them in their order, is
\* accepted.
LEMMA KeysVerify ==
    ASSUME MaxElement >= 71, NEW n, Allowed(n), NEW q \in 1..n, NEW keys,
           Len(keys) = n, DOMAIN keys = 1..n,
           NEW sigs, DOMAIN sigs = 1..q, \A a \in 1..q : IsMade(sigs[a]),
           NEW s, s.flags = InputFlags, s.scriptSig = MultisigIn(sigs),
           NEW script, script = MultisigOut(keys, q), s.scriptPubkey = script, NEW t, NEW i,
           SignedInOrder(sigs, n, q, keys, t, i, script)
    PROVE  Verify(s, t, i)
<1>0. /\ MaxOps \in Nat /\ MaxStack \in Nat
      /\ n \in Nat /\ n <= MaxKeys /\ n <= MaxNum /\ 2 * n + 3 <= MaxOps /\ n + 2 <= MaxStack
  BY LimitsAreNumbers DEF Allowed
<1>1. PICK first : first = s.scriptSig
  OBVIOUS
<1>2. q \in Nat /\ SigChunks(first, sigs, q) /\ Len(first) = q + 1
  BY <1>0, <1>1, SigsIn
<1>3. PICK l \in Nat : l = q + 1
  OBVIOUS
<1>4. PICK x : x = [j \in 1..l |-> IF j = 1 THEN Num(0) ELSE sigs[j - 1]]
  OBVIOUS
<1>5. x[1] = Num(0) /\ \A a \in 1..q : x[1 + a] = sigs[a]
  <2>1. \A a \in 1..q : 1 + a \in 1..l /\ 1 + a # 1 /\ (1 + a) - 1 = a
    BY <1>3
  <2> QED
    BY <1>3, <1>4, <2>1
<1>6. PICK G : G = {sigs[a] : a \in 1..q}
  OBVIOUS
<1>7. \A j \in 1..l : Loads(first[j], x[j]) /\ (IsSignature(x[j]) => x[j] \in G)
  <2>1. \A a \in 1..q : sigs[a] \in G
    BY <1>6
  <2>2. l = Len(first) /\ l # q + 2
    BY <1>2, <1>3
  <2>3. PICK redeem : RedeemLast(first, x, l, q, redeem)
    BY <2>2 DEF RedeemLast
  <2>4. q \in Nat /\ SigChunks(first, sigs, q) /\ l = Len(first)
    BY <1>2, <2>2
  <2>5. x[1] = Num(0) /\ \A a \in 1..q : x[1 + a] = sigs[a]
    BY <1>5
  <2> QED
    BY <2>1, <2>3, <2>4, <2>5, SigsLoad
<1>8. PICK o : o = Evaluate(Machine(first, <<>>, t, i, InputFlags))
  OBVIOUS
<1>9. Loaded(o, x, l, first, G, t, i)
  <2>1. PICK X : first \in Seq(X)
    BY <1>2 DEF SigChunks
  <2>2. l <= MaxOps /\ l = Len(first)
    BY <1>0, <1>2, <1>3
  <2> QED
    BY <1>7, <1>8, <2>1, <2>2, LoadsAll
<1>10. /\ OnCourse(o, first, G, t, i, l) /\ Depth(o) = l
       /\ \A a \in 1..l : Top(o, a) = x[(l + 1) - a]
  BY <1>9 DEF Loaded
<1>11. PICK m : m = Machine(script, o.stack, o.tx, o.nin, InputFlags)
  OBVIOUS
<1>12. Follows(m, o, script, G, t, i)
  BY <1>10, <1>11, NextScript
<1>13. /\ Depth(m) = q + 1 /\ Top(m, q + 1) = Num(0)
       /\ \A a \in 1..q : Top(m, (q + 1) - a) = sigs[a]
  <2>1. Depth(m) = l /\ \A a : Top(m, a) = Top(o, a)
    BY <1>10, <1>12 DEF Follows
  <2>2. Top(o, q + 1) = x[1]
    <3>1. q + 1 \in 1..l /\ (l + 1) - (q + 1) = 1
      BY <1>3
    <3> QED
      BY <1>10, <3>1
  <2>3. ASSUME NEW a \in 1..q PROVE Top(o, (q + 1) - a) = sigs[a]
    <3>1. (q + 1) - a \in 1..l /\ (l + 1) - ((q + 1) - a) = 1 + a
      BY <1>3
    <3> QED
      BY <1>5, <1>10, <3>1
  <2> QED
    BY <1>3, <1>5, <2>1, <2>2, <2>3
<1>14. /\ ChunksOfKeys(script, keys, n, q) /\ NoSigs(script)
       /\ \E Y : script \in Seq(Y)
  BY <1>0, KeysChunks
<1>15. PICK p : p = Evaluate(m)
  OBVIOUS
<1>16. Ended(p, G) /\ Depth(p) = 1
  <2>1. PICK Y : script \in Seq(Y)
    BY <1>14
  <2>2. PICK z : z = 0
    OBVIOUS
  <2>3. OnCourse(m, script, G, t, i, z)
    BY <1>12, <2>2 DEF Follows
  <2>4. InOrder(m, n, q, keys, t, i, script)
    BY <1>0, <1>2, <1>13, OrderOnStack
  <2>5. Ended(Evaluate(m), G) /\ Depth(Evaluate(m)) = 1
    BY <1>0, <1>13, <1>14, <2>1, <2>2, <2>3, <2>4, KeysAccept
  <2> QED
    BY <1>15, <2>5
<1>17. ~IsScriptHashOut(script)
  <2>1. 1 \in DOMAIN script /\ script[1].op # "HASH160"
    BY <1>0, <1>14 DEF ChunksOfKeys
  <2> QED
    BY <2>1, NotScriptHash
<1>18. l <= MaxStack /\ MaxStack >= 1
  BY <1>0, <1>3
<1> QED
  BY <1>1, <1>8, <1>9, <1>11, <1>15, <1>16, <1>17, <1>18, VerifiesPlain

\* The redeem script gets the stack without its topmost item.
FollowsWithout(m, o, next, G, t, i) ==
    /\ OnCourse(m, next, G, t, i, 0)
    /\ Depth(m) = Depth(o) - 1 /\ \A a \in 1..(Depth(o) - 1) : Top(m, a) = Top(o, 1 + a)

LEMMA RedeemScript ==
    ASSUME NEW G, NEW script, NEW t, NEW i, NEW l, NEW o, OnCourse(o, script, G, t, i, l),
           Depth(o) >= 1,
           NEW next, NEW m, m = Machine(next, Front(o.stack), o.tx, o.nin, InputFlags)
    PROVE  FollowsWithout(m, o, next, G, t, i)
<1>1. Stack(o.stack, G)
  <2>1. MachineOK(o, G)
    BY DEF OnCourse
  <2> QED
    BY <2>1 DEF MachineOK
<1>2. o.tx = t /\ o.nin = i
  BY DEF OnCourse
<1>3. PICK z : z = 0
  OBVIOUS
<1>3a. PICK s : s = o.stack
  OBVIOUS
<1>3b. PICK Y : s \in Seq(Y)
  BY <1>1, <1>3a DEF Stack
<1>3c. PICK d \in Nat : d = Len(s) /\ DOMAIN s = 1..d
  BY <1>3b
<1>4. s = o.stack /\ d = Depth(o) /\ d = Len(s) /\ DOMAIN s = 1..d
  BY <1>3a, <1>3c DEF Depth
<1>5. Stack(Front(s), G)
  BY <1>1, <1>4, FrontOfStack
<1>6. OnCourse(m, next, G, t, i, z) /\ m.stack = Front(s)
  BY <1>2, <1>3, <1>4, <1>5, MachineStarts
<1>7. Len(Front(s)) = d - 1 /\ \A a \in 1..(d - 1) : Front(s)[a] = s[a]
  <2>2. Front(s) = SubSeq(s, 1, d - 1)
    BY <1>4 DEF Front
  <2> QED
    BY <1>3b, <1>3c, <1>4, <2>2
<1>8. Depth(m) = d - 1
  BY <1>6, <1>7 DEF Depth
<1>9. ASSUME NEW a \in 1..(d - 1) PROVE Top(m, a) = Top(o, 1 + a)
  <2>1. PICK c \in 1..(d - 1) : c = ((d - 1) - a) + 1 /\ c = (d - (1 + a)) + 1
    OBVIOUS
  <2>2. Top(m, a) = Front(s)[c]
    BY <1>6, <1>8, <2>1 DEF Top
  <2>3. Top(o, 1 + a) = s[c]
    BY <1>4, <2>1 DEF Top
  <2> QED
    BY <1>7, <2>2, <2>3
<1> QED
  BY <1>3, <1>4, <1>6, <1>8, <1>9 DEF FollowsWithout

\* The script of an output to a script hash, chunk by chunk.
LEMMA ScriptHashChunks ==
    ASSUME NEW redeem, NEW script, script = ScriptHashOut(redeem)
    PROVE  ChunksOfHash(script, redeem) /\ \E Y : script \in Seq(Y)
<1>1. PICK a, b, c :
        /\ a = Op("HASH160") /\ b = Push(Hash("HASH160", Serialized(redeem))) /\ c = Op("EQUAL")
  OBVIOUS
<1>2. script = <<a, b, c>>
  BY <1>1 DEF ScriptHashOut
<1>3. script \in Seq({a, b, c})
  BY <1>2
<1>4. /\ a.op = "HASH160" /\ b.op = "PUSH" /\ c.op = "EQUAL"
      /\ b.item = Hash("HASH160", Serialized(redeem))
  BY <1>1 DEF Op, Push
<1>5. ChunksOfHash(script, redeem)
  BY <1>2, <1>4 DEF ChunksOfHash
<1> QED
  BY <1>3, <1>5

\* A spend of an output to the hash of a multisig, with the multisig and signatures of enough
\* of its keys in their order, is accepted.
LEMMA HashVerifies ==
    ASSUME MaxElement >= 71, NEW n, Allowed(n), NEW q \in 1..n, NEW keys,
           Len(keys) = n, DOMAIN keys = 1..n,
           NEW sigs, DOMAIN sigs = 1..q, \A a \in 1..q : IsMade(sigs[a]),
           NEW redeem, redeem = MultisigOut(keys, q),
           NEW s, s.flags = InputFlags, s.scriptSig = P2SHMultisigIn(sigs, redeem),
           NEW script, script = ScriptHashOut(redeem), s.scriptPubkey = script, NEW t, NEW i,
           SignedInOrder(sigs, n, q, keys, t, i, redeem)
    PROVE  Verify(s, t, i)
<1>0. /\ MaxOps \in Nat /\ MaxStack \in Nat
      /\ n \in Nat /\ n <= MaxKeys /\ n <= MaxNum /\ 2 * n + 3 <= MaxOps /\ n + 2 <= MaxStack
  BY LimitsAreNumbers DEF Allowed
<1>1. PICK first : first = s.scriptSig
  OBVIOUS
<1>2. /\ q \in Nat /\ SigChunks(first, sigs, q) /\ Len(first) = q + 2
      /\ first[q + 2] = Push(Serialized(redeem))
  BY <1>0, <1>1, SigsRedeemIn
<1>3. PICK l \in Nat : l = q + 2
  OBVIOUS
<1>4. PICK x : x = [j \in 1..l |-> IF j = 1 THEN Num(0) ELSE IF j = q + 2 THEN Serialized(redeem)
                                   ELSE sigs[j - 1]]
  OBVIOUS
<1>5. x[1] = Num(0) /\ x[q + 2] = Serialized(redeem) /\ \A a \in 1..q : x[1 + a] = sigs[a]
  <2>1. \A a \in 1..q : 1 + a \in 1..l /\ 1 + a # 1 /\ 1 + a # q + 2 /\ (1 + a) - 1 = a
    BY <1>3
  <2>2. 1 \in 1..l /\ q + 2 \in 1..l /\ q + 2 # 1
    BY <1>3
  <2> QED
    BY <1>4, <2>1, <2>2
<1>6. PICK G : G = {sigs[a] : a \in 1..q}
  OBVIOUS
<1>7. /\ \A j \in 1..l : Loads(first[j], x[j]) /\ (IsSignature(x[j]) => x[j] \in G)
      /\ IsPushOnly(first)
  <2>1. \A a \in 1..q : sigs[a] \in G
    BY <1>6
  <2>2. l = Len(first)
    BY <1>2, <1>3
  <2>3. RedeemLast(first, x, l, q, redeem)
    BY <1>2, <1>5 DEF RedeemLast
  <2>6. q \in Nat /\ SigChunks(first, sigs, q) /\ x[1] = Num(0) /\ \A a \in 1..q : x[1 + a] = sigs[a]
    BY <1>2, <1>5
  <2> QED
    BY <2>1, <2>2, <2>3, <2>6, SigsLoad
<1>8. PICK o : o = Evaluate(Machine(first, <<>>, t, i, InputFlags))
  OBVIOUS
<1>9. Loaded(o, x, l, first, G, t, i)
  <2>1. PICK X : first \in Seq(X)
    BY <1>2 DEF SigChunks
  <2>2. l <= MaxOps /\ l = Len(first)
    BY <1>0, <1>2, <1>3
  <2> QED
    BY <1>7, <1>8, <2>1, <2>2, LoadsAll
<1>10. /\ OnCourse(o, first, G, t, i, l) /\ Depth(o) = l
       /\ \A a \in 1..l : Top(o, a) = x[(l + 1) - a]
  BY <1>9 DEF Loaded
<1>11. Top(o, 1) = Serialized(redeem)
  <2>1. 1 \in 1..l /\ (l + 1) - 1 = q + 2
    BY <1>3
  <2> QED
    BY <1>5, <1>10, <2>1
<1>12. PICK m : m = Machine(script, o.stack, o.tx, o.nin, InputFlags)
  OBVIOUS
<1>13. Follows(m, o, script, G, t, i)
  BY <1>10, <1>12, NextScript
<1>14. ChunksOfHash(script, redeem) /\ \E Y : script \in Seq(Y)
  BY ScriptHashChunks
<1>15. PICK p : p = Evaluate(m)
  OBVIOUS
<1>16. Ended(p, G) /\ Depth(p) = l
  <2>1. PICK Y : script \in Seq(Y)
    BY <1>14
  <2>2. PICK z : z = 0
    OBVIOUS
  <2>3. OnCourse(m, script, G, t, i, z) /\ l = Depth(m) /\ Top(m, 1) = Serialized(redeem)
    BY <1>10, <1>11, <1>13, <2>2 DEF Follows
  <2>4. l >= 1 /\ MaxOps >= 5
    BY <1>0, <1>3
  <2>5. Ended(Evaluate(m), G) /\ Depth(Evaluate(m)) = l
    BY <1>14, <2>1, <2>2, <2>3, <2>4, HashAccepts
  <2> QED
    BY <1>15, <2>5
<1>17. Last(o.stack).script = redeem
  <2>1. Last(o.stack) = Serialized(redeem)
    <3>1. MachineOK(o, G)
      BY <1>10 DEF OnCourse
    <3> QED
      BY <1>11, <3>1, LastIsTop
  <2> QED
    BY <2>1 DEF Serialized
<1>18. PICK m2 : m2 = Machine(redeem, Front(o.stack), o.tx, o.nin, InputFlags)
  OBVIOUS
<1>19. FollowsWithout(m2, o, redeem, G, t, i)
  <2>1. Depth(o) >= 1 /\ OnCourse(o, first, G, t, i, l)
    BY <1>3, <1>10
  <2> QED
    BY <1>18, <2>1, RedeemScript
<1>20. /\ Depth(m2) = q + 1 /\ Top(m2, q + 1) = Num(0)
       /\ \A a \in 1..q : Top(m2, (q + 1) - a) = sigs[a]
  <2>1. Depth(m2) = q + 1 /\ \A a \in 1..(q + 1) : Top(m2, a) = Top(o, 1 + a)
    BY <1>3, <1>10, <1>19 DEF FollowsWithout
  <2>2. Top(o, 1 + (q + 1)) = x[1]
    <3>1. 1 + (q + 1) \in 1..l /\ (l + 1) - (1 + (q + 1)) = 1
      BY <1>3
    <3> QED
      BY <1>10, <3>1
  <2>3. ASSUME NEW a \in 1..q PROVE Top(o, 1 + ((q + 1) - a)) = sigs[a]
    <3>1. 1 + ((q + 1) - a) \in 1..l /\ (l + 1) - (1 + ((q + 1) - a)) = 1 + a
      BY <1>3
    <3> QED
      BY <1>5, <1>10, <3>1
  <2>4. ASSUME NEW a \in 1..q PROVE Top(m2, (q + 1) - a) = sigs[a]
    <3>1. PICK c \in 1..(q + 1) : c = (q + 1) - a
      OBVIOUS
    <3> QED
      BY <2>1, <2>3, <3>1
  <2>5. Top(m2, q + 1) = Num(0)
    <3>1. q + 1 \in 1..(q + 1)
      BY <1>2
    <3> QED
      BY <1>5, <2>1, <2>2, <3>1
  <2> QED
    BY <2>1, <2>4, <2>5
<1>21. /\ ChunksOfKeys(redeem, keys, n, q) /\ NoSigs(redeem)
       /\ \E Y : redeem \in Seq(Y)
  BY <1>0, KeysChunks
<1>22. PICK r : r = Evaluate(m2)
  OBVIOUS
<1>23. Ended(r, G) /\ Depth(r) = 1
  <2>1. PICK Y : redeem \in Seq(Y)
    BY <1>21
  <2>2. PICK z : z = 0
    OBVIOUS
  <2>3. OnCourse(m2, redeem, G, t, i, z)
    BY <1>19, <2>2 DEF FollowsWithout
  <2>4. InOrder(m2, n, q, keys, t, i, redeem)
    BY <1>0, <1>2, <1>20, OrderOnStack
  <2>5. Ended(Evaluate(m2), G) /\ Depth(Evaluate(m2)) = 1
    BY <1>0, <1>20, <1>21, <2>1, <2>2, <2>3, <2>4, KeysAccept
  <2> QED
    BY <1>22, <2>5
<1>24. l <= MaxStack /\ l >= 1
  BY <1>0, <1>3
<1>25. r = Evaluate(Machine(Last(o.stack).script, Front(o.stack), o.tx, o.nin, InputFlags))
  BY <1>17, <1>18, <1>22
<1> QED
  BY <1>1, <1>7, <1>8, <1>9, <1>12, <1>15, <1>16, <1>23, <1>24, <1>25, VerifiesRedeem
=============================================================================
