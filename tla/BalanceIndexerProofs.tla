------------------------ MODULE BalanceIndexerProofs -------------------------
(***************************************************************************)
(* That the rows of AddressBalanceService show the balances of the node,   *)
(* for every chain with its addresses and amounts, every reorganisation of *)
(* the last block and every order of requests, announcements, errors and   *)
(* restarts; and that the lists made of the rows count every row once and  *)
(* sum up what the rows say.                                               *)
(***************************************************************************)
EXTENDS BalanceIndexer, SequenceTheorems, FiniteSetTheorems, WellFoundedInduction, TLAPS

\* The lists are left out: ListsFollowRows says what they hold.
Typed ==
    /\ chain \in Seq(Blocks) /\ made \in Blocks
    /\ heightOf \in [Blocks -> 0..MaxBlock] /\ replaced \subseteq Addresses
    /\ tip \in 0..made /\ tipHeight \in 0..MaxBlock
    /\ cache \in [Addresses -> Entries \cup {None}]
    /\ query \in [Addresses -> Replies \cup {None, Asked}]
    /\ phase \in Phases
    /\ lastTipHeight \in 0..MaxBlock /\ lastCheckedBlock \in 0..MaxBlock
    /\ target \in 0..MaxBlock /\ cursor \in 0..MaxBlock
    /\ step \in Steps /\ stalled \in BOOLEAN
    /\ left \subseteq Addresses
    /\ stored \in 0..MaxBlock
    /\ row \in [Addresses -> Balances] /\ late \subseteq Addresses

\* The chain never gets shorter, and the best block is its last one.
ChainInv ==
    /\ Len(chain) \in 1..made
    /\ heightOf[made] = Len(chain)
    /\ \A b, c \in 1..made : b <= c => heightOf[b] <= heightOf[c]

Working == {"next", "asked", "answered", "write", "save"}

\* The loop works on the block after the last one checked, on the way to a height
\* that is on the chain; the row of the checkpoint is at most one ahead of memory.
LoopInv ==
    /\ tipHeight = IF tip = 0 THEN 0 ELSE heightOf[tip]
    /\ lastTipHeight <= Len(chain) /\ target <= lastTipHeight /\ stored <= Len(chain)
    /\ step # "idle" => phase = "up"
    /\ step \in Working \cup {"block"} => cursor = lastCheckedBlock + 1 /\ cursor <= target
    /\ phase \in {"info", "caches", "richest"} => lastCheckedBlock = stored
    /\ phase = "up" => stored = lastCheckedBlock \/ stored = lastCheckedBlock + 1
    /\ phase \notin {"up", "failed"} => \A a \in Addresses : cache[a] = None /\ query[a] = None

\* The heights of the blocks that touch an address.
Touching(a, blocks) == {h \in DOMAIN blocks : a \in Touched[blocks[h]]}

\* What NodeBalance(a) is with these blocks as the chain.
BalanceIn(a, blocks) ==
    IF Touching(a, blocks) = {} THEN 0 ELSE blocks[Max(Touching(a, blocks))]

\* The balance of an address changes, or is no longer followed, with a block above
\* a height or one that was replaced.
ChangedIn(a, height, blocks, gone) ==
    a \in gone \/ \E h \in DOMAIN blocks : h > height /\ a \in Touched[blocks[h]]
Changed(a, height) == ChangedIn(a, height, chain, replaced)

\* A balance is that of now, or that of a time when the chain reached a height.
OfHeight(a, balance, height) == balance = BalanceIn(a, chain) \/ Changed(a, height)

ReplyOK(a, reply) ==
    /\ reply.best <= made
    /\ OfHeight(a, reply.balance, heightOf[reply.best])
    /\ tip <= reply.best => lastTipHeight <= heightOf[reply.best]

\* What is on its way was worked out at a time whose height is known; what is in the
\* cache and not overtaken is of a chain that reached every height heard of.
QueriesOK == \A a \in Addresses : query[a] \notin {None, Asked} => ReplyOK(a, query[a])

CachedOK ==
    \A a \in Addresses : cache[a] # None /\ cache[a].overtaken = FALSE
        => /\ OfHeight(a, cache[a].balance, tipHeight)
           /\ OfHeight(a, cache[a].balance, lastTipHeight)

AnswerOK ==
    /\ step \in {"asked", "answered", "write"} => at \in Addresses
    /\ step = "answered" => answer \in Replies /\ ReplyOK(at, answer)
                            /\ cursor <= heightOf[answer.best]
    /\ step = "write" => answer \in Entries
                         /\ (answer.overtaken = FALSE => OfHeight(at, answer.balance, cursor))

AnswersInv == QueriesOK /\ CachedOK /\ AnswerOK

IsCurrent(a) == row[a] = Shown(a, BalanceIn(a, chain))

\* A row is current, or a block above the checkpoint will have it written; in the
\* block under way, the addresses that are done are current or change above it.
RowsInv ==
    /\ \A a \in Addresses \ late : IsCurrent(a) \/ Changed(a, stored)
    /\ step \in Working => \A a \in Touched[chain[cursor]] \ left :
                               a \in late \/ IsCurrent(a) \/ Changed(a, cursor)
    /\ step = "save" => left = {}

IInv == Typed /\ ChainInv /\ LoopInv /\ AnswersInv /\ RowsInv

-----------------------------------------------------------------------------
(* The chain. *)

LEMMA GreatestOf ==
    ASSUME NEW n \in Nat, NEW T \in SUBSET (1..n), T # {}
    PROVE  Max(T) \in T /\ \A y \in T : Max(T) >= y
<1> DEFINE U == {n - x : x \in T}
<1>1. U \in SUBSET Nat /\ U # {}
  <2>1. \A x \in T : n - x \in Nat
    OBVIOUS
  <2> QED
    BY <2>1
<1>2. PICK u \in U : \A v \in U : ~(<<v, u>> \in OpToRel(<, Nat))
  BY <1>1, NatLessThanWellFounded, WFMin
<1>3. PICK x \in T : u = n - x
  BY <1>2
<1>4. \A y \in T : x >= y
  <2> SUFFICES ASSUME NEW y \in T PROVE x >= y
    OBVIOUS
  <2>1. n - y \in U /\ n - y \in Nat /\ u \in Nat
    BY <1>1
  <2>2. ~(n - y < u)
    BY <1>2, <2>1 DEF OpToRel
  <2> QED
    BY <1>3, <2>1, <2>2
<1>5. \E z \in T : \A y \in T : z >= y
  BY <1>3, <1>4
<1> QED
  BY <1>5 DEF Max

LEMMA NodeBalanceIs == \A a : NodeBalance(a) = BalanceIn(a, chain)
BY DEF NodeBalance, BalanceIn, Touching

LEMMA LastTouching ==
    ASSUME NEW a, NEW blocks \in Seq(Blocks), Touching(a, blocks) # {}
    PROVE  Max(Touching(a, blocks)) \in Touching(a, blocks)
<1>1. Len(blocks) \in Nat /\ Touching(a, blocks) \in SUBSET (1..Len(blocks))
  BY DEF Touching
<1> HIDE DEF Touching
<1> QED
  BY <1>1, GreatestOf

\* A balance is a block of the chain, or none.
LEMMA BalanceTyped ==
    ASSUME NEW a, NEW blocks \in Seq(Blocks)
    PROVE  BalanceIn(a, blocks) \in Balances
<1>1. CASE Touching(a, blocks) = {}
  BY <1>1, BalanceAssumption DEF BalanceIn, Balances
<1>2. CASE Touching(a, blocks) # {}
  <2>1. Max(Touching(a, blocks)) \in Touching(a, blocks)
    BY <1>2, LastTouching
  <2>2. BalanceIn(a, blocks) \in Blocks
    BY <1>2, <2>1 DEF BalanceIn, Touching
  <2> QED
    BY <2>2 DEF Balances, Blocks
<1> QED
  BY <1>1, <1>2

\* It depends on the blocks that touch the address only.
LEMMA SameBalance ==
    ASSUME NEW a, NEW blocks \in Seq(Blocks), NEW others \in Seq(Blocks),
           Touching(a, others) = Touching(a, blocks),
           \A h \in Touching(a, blocks) : others[h] = blocks[h]
    PROVE  BalanceIn(a, others) = BalanceIn(a, blocks)
<1>1. CASE Touching(a, blocks) = {}
  BY <1>1 DEF BalanceIn
<1>2. CASE Touching(a, blocks) # {}
  <2>1. Max(Touching(a, blocks)) \in Touching(a, blocks)
    BY <1>2, LastTouching
  <2> QED
    BY <1>2, <2>1 DEF BalanceIn
<1> QED
  BY <1>1, <1>2

\* A block on top: an address it touches has changed above every earlier height, the
\* balance of any other is what it was.
LEMMA NewBlockGrows ==
    ASSUME Typed, ChainInv, NewBlock
    PROVE  /\ chain' \in Seq(Blocks) /\ Len(chain') = Len(chain) + 1 /\ replaced' = replaced
           /\ \A h \in 1..Len(chain) : chain'[h] = chain[h]
           /\ chain'[Len(chain) + 1] = made + 1
           /\ made' = made + 1 /\ made' \in Blocks
           /\ heightOf' \in [Blocks -> 0..MaxBlock]
           /\ heightOf'[made + 1] = Len(chain) + 1
           /\ \A b \in 1..made : heightOf'[b] = heightOf[b]
<1>1. /\ chain \in Seq(Blocks) /\ made \in 1..MaxBlock /\ Len(chain) \in 1..made
      /\ heightOf \in [Blocks -> 0..MaxBlock] /\ MaxBlock \in Nat \ {0}
  BY BalanceAssumption DEF Typed, ChainInv, Blocks
<1>2. /\ made < MaxBlock /\ made' = made + 1 /\ replaced' = replaced
      /\ chain' = Append(chain, made + 1)
      /\ heightOf' = [heightOf EXCEPT ![made + 1] = Len(chain) + 1]
  BY DEF NewBlock
<1>3. made + 1 \in Blocks /\ Len(chain) + 1 \in 0..MaxBlock
  BY <1>1, <1>2 DEF Blocks
<1> QED
  BY <1>1, <1>2, <1>3 DEF Blocks

LEMMA ReorganiseGrows ==
    ASSUME Typed, ChainInv, Reorganise
    PROVE  /\ chain' \in Seq(Blocks) /\ Len(chain') = Len(chain) + 1
           /\ \A h \in 1..Len(chain) : h # Len(chain) => chain'[h] = chain[h]
           /\ chain'[Len(chain)] = made + 1 /\ chain'[Len(chain) + 1] = made + 2
           /\ replaced' = replaced \cup Touched[chain[Len(chain)]] \cup Touched[made + 1]
           /\ made' = made + 2 /\ made' \in Blocks /\ made + 1 \in Blocks
           /\ heightOf' \in [Blocks -> 0..MaxBlock]
           /\ heightOf'[made + 1] = Len(chain) /\ heightOf'[made + 2] = Len(chain) + 1
           /\ \A b \in 1..made : heightOf'[b] = heightOf[b]
<1>1. /\ chain \in Seq(Blocks) /\ made \in 1..MaxBlock /\ Len(chain) \in 1..made
      /\ heightOf \in [Blocks -> 0..MaxBlock] /\ MaxBlock \in Nat \ {0}
  BY BalanceAssumption DEF Typed, ChainInv, Blocks
<1>2. /\ made + 2 <= MaxBlock /\ made' = made + 2
      /\ chain' = [chain EXCEPT ![Len(chain)] = made + 1] \o <<made + 2>>
      /\ heightOf' = [heightOf EXCEPT ![made + 1] = Len(chain), ![made + 2] = Len(chain) + 1]
      /\ replaced' = replaced \cup Touched[chain[Len(chain)]] \cup Touched[made + 1]
  BY DEF Reorganise
<1>3. made + 1 \in Blocks /\ made + 2 \in Blocks /\ Len(chain) + 1 \in 0..MaxBlock /\ Len(chain) \in 0..MaxBlock
  <2>1. PICK n \in Nat : n = Len(chain)
    BY <1>1
  <2>2. made \in Nat /\ MaxBlock \in Nat /\ 1 <= made /\ made + 2 <= MaxBlock /\ 1 <= n /\ n <= made
    BY <1>1, <1>2, <2>1
  <2> QED
    BY <2>1, <2>2 DEF Blocks
<1>4. PICK base : base = [chain EXCEPT ![Len(chain)] = made + 1]
  OBVIOUS
<1>5. /\ base \in Seq(Blocks) /\ Len(base) = Len(chain)
      /\ \A h \in 1..Len(chain) : base[h] = IF h = Len(chain) THEN made + 1 ELSE chain[h]
  BY <1>1, <1>3, <1>4
<1>6. chain' = base \o <<made + 2>> /\ <<made + 2>> \in Seq(Blocks) /\ Len(<<made + 2>>) = 1
  BY <1>2, <1>3, <1>4
<1>7. /\ chain' \in Seq(Blocks) /\ Len(chain') = Len(chain) + 1
      /\ \A h \in 1..Len(chain) : chain'[h] = base[h]
      /\ chain'[Len(chain) + 1] = made + 2
  <2>1. PICK top \in Seq(Blocks) : top = <<made + 2>> /\ Len(top) = 1 /\ top[1] = made + 2
    BY <1>6
  <2>2. chain' = base \o top
    BY <1>6, <2>1
  <2>3. PICK n \in Nat : n = Len(chain)
    BY <1>1
  <2>4. Len(base) = n /\ Len(top) = 1
    BY <1>5, <2>1, <2>3
  <2>5. /\ chain' \in Seq(Blocks) /\ Len(chain') = n + 1
        /\ \A h \in 1..(n + 1) : chain'[h] = IF h <= n THEN base[h] ELSE top[h - n]
    BY <1>5, <2>1, <2>2, <2>4, ConcatProperties
  <2>6. chain'[n + 1] = top[1]
    BY <2>3, <2>5
  <2> QED
    BY <2>1, <2>3, <2>5, <2>6
<1>8. /\ heightOf' \in [Blocks -> 0..MaxBlock]
      /\ heightOf'[made + 1] = Len(chain) /\ heightOf'[made + 2] = Len(chain) + 1
      /\ \A b \in 1..made : heightOf'[b] = heightOf[b]
  <2>1. PICK one : one = [heightOf EXCEPT ![made + 1] = Len(chain)]
    OBVIOUS
  <2>2. heightOf' = [one EXCEPT ![made + 2] = Len(chain) + 1]
    BY <1>2, <2>1
  <2>3. /\ one \in [Blocks -> 0..MaxBlock] /\ one[made + 1] = Len(chain)
        /\ \A b \in Blocks : b # made + 1 => one[b] = heightOf[b]
    BY <1>1, <1>3, <2>1
  <2>4. /\ heightOf' \in [Blocks -> 0..MaxBlock] /\ heightOf'[made + 2] = Len(chain) + 1
        /\ \A b \in Blocks : b # made + 2 => heightOf'[b] = one[b]
    BY <1>1, <1>3, <2>2, <2>3
  <2>5. \A b \in 1..made : b \in Blocks /\ b # made + 1 /\ b # made + 2
    BY <1>1 DEF Blocks
  <2>6. \A b \in 1..made : heightOf'[b] = heightOf[b]
    BY <2>3, <2>4, <2>5
  <2>7. made + 1 # made + 2
    BY <1>1
  <2> QED
    BY <1>3, <2>3, <2>4, <2>6, <2>7
<1>9. /\ \A h \in 1..Len(chain) : h # Len(chain) => chain'[h] = chain[h]
      /\ chain'[Len(chain)] = made + 1
  <2>1. Len(chain) \in 1..Len(chain)
    BY <1>1
  <2> QED
    BY <1>5, <1>7, <2>1
<1> QED
  BY <1>2, <1>3, <1>7, <1>8, <1>9

\* However the chain grows, what has changed above a height has still changed above it,
\* and a balance that is another one has changed above the chain there was.
LEMMA ChangesStay ==
    ASSUME Typed, ChainInv, NewBlock \/ Reorganise, NEW a, NEW height \in 0..Len(chain),
           Changed(a, height)
    PROVE  ChangedIn(a, height, chain', replaced')
<1>1. chain \in Seq(Blocks) /\ Len(chain) \in Nat /\ DOMAIN chain = 1..Len(chain)
  BY DEF Typed
<1>2. CASE NewBlock
  <2>1. /\ chain' \in Seq(Blocks) /\ Len(chain') = Len(chain) + 1 /\ replaced' = replaced
        /\ \A h \in 1..Len(chain) : chain'[h] = chain[h]
    BY <1>2, NewBlockGrows
  <2> QED
    BY <1>1, <2>1 DEF Changed, ChangedIn
<1>3. CASE Reorganise
  <2>1. /\ chain' \in Seq(Blocks) /\ Len(chain') = Len(chain) + 1
        /\ \A h \in 1..Len(chain) : h # Len(chain) => chain'[h] = chain[h]
        /\ replaced' = replaced \cup Touched[chain[Len(chain)]] \cup Touched[made + 1]
    BY <1>3, ReorganiseGrows
  <2>2. CASE a \in replaced
    BY <2>1, <2>2 DEF ChangedIn
  <2>3. CASE a \notin replaced
    <3>1. PICK h \in 1..Len(chain) : h > height /\ a \in Touched[chain[h]]
      BY <1>1, <2>3 DEF Changed, ChangedIn
    <3>2. CASE h = Len(chain)
      BY <2>1, <3>1, <3>2 DEF ChangedIn
    <3>3. CASE h # Len(chain)
      <4>1. chain'[h] = chain[h]
        BY <2>1, <3>3
      <4>2. h \in DOMAIN chain'
        <5>1. chain' \in Seq(Blocks) /\ Len(chain') = Len(chain) + 1
          BY <2>1
        <5> QED
          BY <1>1, <5>1
      <4> QED
        BY <3>1, <4>1, <4>2 DEF ChangedIn
    <3> QED
      BY <3>2, <3>3
  <2> QED
    BY <2>2, <2>3
<1> QED
  BY <1>2, <1>3

LEMMA BalancesStay ==
    ASSUME Typed, ChainInv, NewBlock \/ Reorganise, NEW a
    PROVE  \/ BalanceIn(a, chain') = BalanceIn(a, chain)
           \/ ChangedIn(a, Len(chain), chain', replaced')
<1> SUFFICES ASSUME a \notin replaced', \A h \in DOMAIN chain' : h > Len(chain) => a \notin Touched[chain'[h]]
             PROVE  BalanceIn(a, chain') = BalanceIn(a, chain)
  BY DEF ChangedIn
<1>1. chain \in Seq(Blocks) /\ Len(chain) \in Nat \ {0} /\ DOMAIN chain = 1..Len(chain)
  BY DEF Typed, ChainInv, Blocks
<1>2. /\ chain' \in Seq(Blocks) /\ Len(chain') = Len(chain) + 1
      /\ \A h \in 1..Len(chain) : chain'[h] # chain[h] =>
            a \notin Touched[chain[h]] /\ a \notin Touched[chain'[h]]
  <2>1. CASE NewBlock
    BY <2>1, NewBlockGrows
  <2>2. CASE Reorganise
    BY <2>2, <1>1, ReorganiseGrows
  <2> QED
    BY <2>1, <2>2
<1>3. a \notin Touched[chain'[Len(chain) + 1]]
  BY <1>1, <1>2
<1>4. Touching(a, chain') = Touching(a, chain)
  BY <1>1, <1>2, <1>3 DEF Touching
<1>5. \A h \in Touching(a, chain) : chain'[h] = chain[h]
  BY <1>1, <1>2 DEF Touching
<1> QED
  BY <1>1, <1>2, <1>4, <1>5, SameBalance

LEMMA OfHeightStays ==
    ASSUME Typed, ChainInv, NewBlock \/ Reorganise, NEW a, NEW balance,
           NEW height \in 0..Len(chain), OfHeight(a, balance, height)
    PROVE  balance = BalanceIn(a, chain') \/ ChangedIn(a, height, chain', replaced')
<1>1. CASE Changed(a, height)
  BY <1>1, ChangesStay
<1>2. CASE balance = BalanceIn(a, chain)
  <2>2. ChangedIn(a, Len(chain), chain', replaced') => ChangedIn(a, height, chain', replaced')
    <3>1. chain' \in Seq(Blocks) /\ Len(chain) \in Nat
      BY NewBlockGrows, ReorganiseGrows DEF Typed
    <3> QED
      BY <3>1 DEF ChangedIn
  <2> QED
    BY <1>2, <2>2, BalancesStay
<1> QED
  BY <1>1, <1>2 DEF OfHeight

LEMMA GrownFacts ==
    ASSUME Typed, ChainInv, NewBlock \/ Reorganise
    PROVE  /\ Len(chain') = Len(chain) + 1 /\ made < made' /\ ChainInv' /\ Typed'
           /\ \A b \in 1..made : heightOf'[b] = heightOf[b]
           /\ UNCHANGED <<cacheVars, phase, loopVars, blockVars, stored, rowVars>>
<1>1. UNCHANGED <<cacheVars, phase, loopVars, blockVars, stored, rowVars>>
  BY DEF NewBlock, Reorganise
<1>2. /\ made \in Nat \ {0} /\ Len(chain) \in 1..made /\ heightOf[made] = Len(chain)
      /\ \A b, c \in 1..made : b <= c => heightOf[b] <= heightOf[c]
      /\ heightOf \in [Blocks -> 0..MaxBlock] /\ MaxBlock \in Nat
      /\ \A b \in 1..made : heightOf[b] \in Nat
  BY BalanceAssumption DEF Typed, ChainInv, Blocks
<1>3. /\ chain' \in Seq(Blocks) /\ Len(chain') = Len(chain) + 1
      /\ made' \in Blocks /\ heightOf' \in [Blocks -> 0..MaxBlock]
      /\ made' = made + 1 \/ made' = made + 2
      /\ heightOf'[made'] = Len(chain) + 1
      /\ made' = made + 2 => heightOf'[made + 1] = Len(chain)
      /\ \A b \in 1..made : heightOf'[b] = heightOf[b]
      /\ replaced' \subseteq Addresses
  <2>1. CASE NewBlock
    <3>1. made' # made + 2
      BY <1>2, <2>1, NewBlockGrows
    <3> QED
      BY <2>1, <3>1, NewBlockGrows DEF Typed
  <2>2. CASE Reorganise
    <3>1. chain[Len(chain)] \in Blocks
      BY <1>2 DEF Typed
    <3>2. replaced' \subseteq Addresses
      BY <2>2, <3>1, ReorganiseGrows, BalanceAssumption DEF Typed
    <3> QED
      BY <2>2, <3>2, ReorganiseGrows
  <2> QED
    BY <2>1, <2>2
<1>4. made < made' /\ made' \in Nat
  BY <1>2, <1>3
<1>5. \A b, c \in 1..made' : b <= c => heightOf'[b] <= heightOf'[c]
  <2> SUFFICES ASSUME NEW b \in 1..made', NEW c \in 1..made', b <= c
               PROVE  heightOf'[b] <= heightOf'[c]
    OBVIOUS
  <2>1. \A d \in 1..made : heightOf[d] <= Len(chain)
    BY <1>2
  <2>0. \A d \in 1..made' : d > made => d = made' \/ (made' = made + 2 /\ d = made + 1)
    <3>1. CASE made' = made + 1
      BY <1>2, <3>1
    <3>2. CASE made' = made + 2
      BY <1>2, <3>2
    <3> QED
      BY <1>3, <3>1, <3>2
  <2>2. \A d \in 1..made' : d > made => heightOf'[d] \in {Len(chain), Len(chain) + 1}
    BY <1>3, <2>0
  <2>3. \A d, e \in 1..made' : d > made /\ d <= e => heightOf'[d] <= heightOf'[e]
    <3> SUFFICES ASSUME NEW d \in 1..made', NEW e \in 1..made', d > made, d <= e
                 PROVE  heightOf'[d] <= heightOf'[e]
      OBVIOUS
    <3>1. e = made' => heightOf'[d] <= heightOf'[e]
      BY <1>2, <1>3, <2>2
    <3>2. e = made' \/ e = d
      <4>1. e > made
        BY <1>2, <1>4
      <4> QED
        BY <1>2, <1>4, <2>0, <4>1
    <3>3. heightOf'[d] \in Nat
      BY <1>2, <2>2
    <3> QED
      BY <3>1, <3>2, <3>3
  <2>4. CASE b <= made /\ c <= made
    <3>1. b \in 1..made /\ c \in 1..made
      BY <1>2, <2>4
    <3>2. heightOf[b] <= heightOf[c]
      BY <1>2, <3>1
    <3>3. heightOf'[b] = heightOf[b] /\ heightOf'[c] = heightOf[c]
      BY <1>3, <3>1
    <3> QED
      BY <3>2, <3>3
  <2>5. CASE b <= made /\ c > made
    <3>1. heightOf'[b] = heightOf[b] /\ b \in 1..made
      BY <1>2, <1>3, <2>5
    <3>2. PICK n \in Nat : n = Len(chain)
      BY <1>2
    <3>3. heightOf'[b] \in Nat /\ heightOf'[b] <= n
      BY <1>2, <2>1, <3>1, <3>2
    <3>4. heightOf'[c] \in {n, n + 1}
      BY <2>2, <2>5, <3>2
    <3> QED
      BY <3>3, <3>4
  <2>6. CASE b > made
    BY <2>3, <2>6
  <2> QED
    BY <1>2, <1>4, <2>4, <2>5, <2>6
<1>6. ChainInv'
  BY <1>2, <1>3, <1>4, <1>5 DEF ChainInv
<1>7. Typed'
  <2>1. UNCHANGED <<tip, tipHeight, cache, query, phase, lastTipHeight, lastCheckedBlock, target,
                    cursor, step, stalled, left, stored, row, late>>
    BY <1>1 DEF cacheVars, loopVars, blockVars, rowVars
  <2>2. tip' \in 0..made'
    BY <1>2, <1>4, <2>1 DEF Typed
  <2> QED
    BY <1>3, <2>1, <2>2 DEF Typed
<1> QED
  BY <1>1, <1>3, <1>4, <1>6, <1>7

LEMMA ChainStep ==
    ASSUME IInv, NewBlock \/ Reorganise
    PROVE  IInv'
<1>1. Typed /\ ChainInv /\ LoopInv /\ AnswersInv /\ RowsInv
  BY DEF IInv
<1>2. /\ Len(chain') = Len(chain) + 1 /\ made < made' /\ ChainInv' /\ Typed'
      /\ \A b \in 1..made : heightOf'[b] = heightOf[b]
      /\ UNCHANGED <<tip, tipHeight, cache, query, phase, lastTipHeight, lastCheckedBlock, target,
                     cursor, step, stalled, left, at, answer, stored, row, late>>
  BY <1>1, GrownFacts DEF cacheVars, loopVars, blockVars, rowVars
<1>3. /\ made \in Nat /\ Len(chain) \in 1..made /\ tip \in 0..made /\ tipHeight \in Nat
      /\ lastTipHeight \in Nat /\ target \in Nat /\ cursor \in Nat /\ stored \in Nat
      /\ heightOf[made] = Len(chain)
      /\ \A b \in 1..made : heightOf[b] \in Nat /\ heightOf[b] <= Len(chain)
  BY <1>1, BalanceAssumption DEF Typed, ChainInv, Blocks
<1>4. tipHeight <= Len(chain) /\ lastTipHeight <= Len(chain) /\ stored <= Len(chain)
      /\ (step \in Working \cup {"block"} => cursor <= Len(chain))
  <2>1. tipHeight <= Len(chain)
    BY <1>1, <1>3 DEF LoopInv
  <2> QED
    BY <1>1, <1>3, <2>1 DEF LoopInv
<1>5. LoopInv'
  <2>1. (tipHeight = IF tip = 0 THEN 0 ELSE heightOf[tip])'
    BY <1>1, <1>2, <1>3 DEF LoopInv
  <2> QED
    BY <1>1, <1>2, <1>3, <1>4, <2>1 DEF LoopInv
<1>6. \A a, balance : \A height \in 0..Len(chain) :
        OfHeight(a, balance, height) =>
            balance = BalanceIn(a, chain') \/ ChangedIn(a, height, chain', replaced')
  BY <1>1, OfHeightStays
<1>7. ASSUME NEW a, NEW reply \in Replies, ReplyOK(a, reply) PROVE ReplyOK(a, reply)'
  <2>1. reply.best \in 1..made
    BY <1>3, <1>7 DEF ReplyOK, Replies, Blocks
  <2>2. heightOf'[reply.best] = heightOf[reply.best] /\ heightOf[reply.best] \in 0..Len(chain)
    BY <1>2, <1>3, <2>1
  <2>3. reply.balance = BalanceIn(a, chain') \/ ChangedIn(a, heightOf[reply.best], chain', replaced')
    BY <1>6, <1>7, <2>2 DEF ReplyOK
  <2>4. reply.best <= made'
    BY <1>2, <1>3, <2>1 DEF Typed, Blocks
  <2> QED
    BY <1>2, <1>7, <2>2, <2>3, <2>4 DEF ReplyOK, OfHeight, Changed
<1>8. AnswersInv'
  <2>1. ASSUME NEW a \in Addresses, query[a] \notin {None, Asked} PROVE ReplyOK(a, query[a])'
    <3>1. query[a] \in Replies /\ ReplyOK(a, query[a]) /\ query' = query
      BY <1>1, <1>2, <2>1 DEF Typed, AnswersInv, QueriesOK, CachedOK, AnswerOK
    <3>2. PICK reply \in Replies : reply = query[a]
      BY <3>1
    <3> QED
      BY <1>7, <3>1, <3>2 DEF ReplyOK
  <2>2. ASSUME NEW a \in Addresses, cache[a] # None, cache[a].overtaken = FALSE
        PROVE  /\ OfHeight(a, cache[a].balance, tipHeight)'
               /\ OfHeight(a, cache[a].balance, lastTipHeight)'
    <3>1. OfHeight(a, cache[a].balance, tipHeight) /\ OfHeight(a, cache[a].balance, lastTipHeight)
      BY <1>1, <2>2 DEF AnswersInv, QueriesOK, CachedOK, AnswerOK
    <3>2. tipHeight \in 0..Len(chain) /\ lastTipHeight \in 0..Len(chain)
      BY <1>3, <1>4
    <3> QED
      BY <1>2, <1>6, <3>1, <3>2 DEF OfHeight, Changed
  <2>3. step \in {"asked", "answered", "write"} => at \in Addresses
    BY <1>1 DEF AnswersInv, QueriesOK, CachedOK, AnswerOK
  <2>4. ASSUME step = "answered"
        PROVE  answer \in Replies /\ ReplyOK(at, answer)' /\ cursor <= heightOf'[answer.best]
    <3>1. answer \in Replies /\ ReplyOK(at, answer) /\ cursor <= heightOf[answer.best]
      BY <1>1, <2>4 DEF AnswersInv, QueriesOK, CachedOK, AnswerOK
    <3>2. answer.best \in 1..made
      BY <1>3, <3>1 DEF ReplyOK, Replies, Blocks
    <3>3. PICK b \in {at}, reply \in Replies : reply = answer
      BY <3>1
    <3>4. ReplyOK(b, reply)'
      BY <1>7, <3>1, <3>3
    <3> QED
      BY <1>2, <3>1, <3>2, <3>3, <3>4 DEF ReplyOK
  <2>5. ASSUME step = "write"
        PROVE  answer \in Entries /\ (answer.overtaken = FALSE => OfHeight(at, answer.balance, cursor)')
    <3>1. answer \in Entries /\ (answer.overtaken = FALSE => OfHeight(at, answer.balance, cursor))
      BY <1>1, <2>5 DEF AnswersInv, QueriesOK, CachedOK, AnswerOK
    <3>2. cursor \in 0..Len(chain)
      BY <1>3, <1>4, <2>5 DEF Working
    <3> QED
      BY <1>2, <1>6, <3>1, <3>2 DEF OfHeight, Changed
  <2> QED
    BY <1>2, <2>1, <2>2, <2>3, <2>4, <2>5 DEF AnswersInv, QueriesOK, CachedOK, AnswerOK
<1>9. RowsInv'
  <2>1. ASSUME NEW a, NEW height \in 0..Len(chain), IsCurrent(a) \/ Changed(a, height)
        PROVE  row[a] = Shown(a, BalanceIn(a, chain')) \/ ChangedIn(a, height, chain', replaced')
    <3>1. CASE Changed(a, height)
      BY <1>1, <3>1, ChangesStay
    <3>2. CASE IsCurrent(a)
      <4>1. OfHeight(a, BalanceIn(a, chain), height)
        BY DEF OfHeight
      <4>2. BalanceIn(a, chain) = BalanceIn(a, chain') \/ ChangedIn(a, height, chain', replaced')
        BY <1>1, <4>1, OfHeightStays
      <4> QED
        BY <3>2, <4>2 DEF IsCurrent
    <3> QED
      BY <2>1, <3>1, <3>2
  <2>2. ASSUME NEW a \in Addresses \ late PROVE IsCurrent(a)' \/ Changed(a, stored)'
    <3>1. IsCurrent(a) \/ Changed(a, stored)
      BY <1>1, <2>2 DEF RowsInv
    <3>2. stored \in 0..Len(chain)
      BY <1>3, <1>4
    <3>3. row[a] = Shown(a, BalanceIn(a, chain')) \/ ChangedIn(a, stored, chain', replaced')
      BY <2>1, <3>1, <3>2
    <3> QED
      BY <1>2, <3>3 DEF IsCurrent, Changed
  <2>3. ASSUME step \in Working, NEW a \in Touched[chain'[cursor]] \ left
        PROVE  a \in late \/ IsCurrent(a)' \/ Changed(a, cursor)'
    <3>1. cursor \in 1..Len(chain)
      <4>1. lastCheckedBlock \in Nat
        BY <1>1 DEF Typed
      <4> QED
        BY <1>1, <1>3, <1>4, <2>3, <4>1 DEF LoopInv
    <3>2. a \in Touched[chain[cursor]] \/ a \in replaced'
      <4>1. CASE NewBlock
        BY <1>1, <2>3, <3>1, <4>1, NewBlockGrows
      <4>2. CASE Reorganise
        BY <1>1, <2>3, <3>1, <4>2, ReorganiseGrows
      <4> QED
        BY <4>1, <4>2
    <3>3. CASE a \in replaced'
      BY <3>3 DEF Changed, ChangedIn
    <3>4. CASE a \in Touched[chain[cursor]]
      <4>1. a \in late \/ IsCurrent(a) \/ Changed(a, cursor)
        BY <1>1, <2>3, <3>4 DEF RowsInv
      <4>2. CASE a \in late
        BY <4>2
      <4>3. CASE IsCurrent(a) \/ Changed(a, cursor)
        <5>1. row[a] = Shown(a, BalanceIn(a, chain')) \/ ChangedIn(a, cursor, chain', replaced')
          BY <2>1, <3>1, <4>3
        <5> QED
          BY <1>2, <5>1 DEF IsCurrent, Changed
      <4> QED
        BY <4>1, <4>2, <4>3
    <3> QED
      BY <3>2, <3>3, <3>4
  <2> QED
    BY <1>1, <1>2, <2>2, <2>3 DEF RowsInv
<1> QED
  BY <1>2, <1>5, <1>8, <1>9 DEF IInv

-----------------------------------------------------------------------------
(* Every other step leaves the chain alone. *)

LEMMA SameNode ==
    ASSUME UNCHANGED nodeVars
    PROVE  /\ chain' = chain /\ made' = made /\ heightOf' = heightOf /\ replaced' = replaced
           /\ ChainInv => ChainInv'
           /\ \A a, height : Changed(a, height)' <=> Changed(a, height)
           /\ \A a, balance, height :
                 OfHeight(a, balance, height)' <=> OfHeight(a, balance, height)
<1>1. chain' = chain /\ made' = made /\ heightOf' = heightOf /\ replaced' = replaced
  BY DEF nodeVars
<1>2. ChainInv => ChainInv'
  BY <1>1 DEF ChainInv
<1>3. \A a, height : Changed(a, height)' <=> Changed(a, height)
  BY <1>1 DEF Changed
<1>4. \A a, balance, height : OfHeight(a, balance, height)' <=> OfHeight(a, balance, height)
  BY <1>1, <1>3 DEF OfHeight
<1> QED
  BY <1>1, <1>2, <1>3, <1>4

\* What changed above a height changed above every lower one.
LEMMA ChangedBelow ==
    ASSUME Typed, NEW a, NEW height \in Nat, NEW lower \in 0..height
    PROVE  /\ Changed(a, height) => Changed(a, lower)
           /\ \A balance : OfHeight(a, balance, height) => OfHeight(a, balance, lower)
<1>1. DOMAIN chain \in SUBSET Nat
  BY DEF Typed
<1>2. Changed(a, height) => Changed(a, lower)
  BY <1>1 DEF Changed, ChangedIn
<1> QED
  BY <1>2 DEF OfHeight

\* The numbers of a state, for arithmetic.
LEMMA Numbers ==
    ASSUME IInv
    PROVE  /\ MaxBlock \in Nat /\ made \in 1..MaxBlock /\ Len(chain) \in 1..made
           /\ DOMAIN chain = 1..Len(chain) /\ heightOf[made] = Len(chain)
           /\ \A b \in 1..made : heightOf[b] \in 0..Len(chain)
           /\ \A b, c \in 1..made : b <= c => heightOf[b] <= heightOf[c]
           /\ tip \in 0..made /\ tipHeight \in 0..Len(chain)
           /\ tipHeight = IF tip = 0 THEN 0 ELSE heightOf[tip]
           /\ lastTipHeight \in 0..Len(chain) /\ target \in 0..lastTipHeight
           /\ stored \in 0..Len(chain) /\ lastCheckedBlock \in 0..MaxBlock
           /\ cursor \in 0..MaxBlock
           /\ step \in Working \cup {"block"} =>
                 cursor = lastCheckedBlock + 1 /\ cursor \in 1..target
<1>1. Typed /\ ChainInv /\ LoopInv
  BY DEF IInv
<1>2. /\ MaxBlock \in Nat /\ made \in 1..MaxBlock /\ Len(chain) \in 1..made
      /\ DOMAIN chain = 1..Len(chain) /\ heightOf[made] = Len(chain)
      /\ \A b, c \in 1..made : b <= c => heightOf[b] <= heightOf[c]
      /\ \A b \in 1..made : heightOf[b] \in Nat
      /\ tip \in 0..made /\ lastTipHeight \in Nat /\ target \in Nat /\ stored \in Nat
      /\ lastCheckedBlock \in 0..MaxBlock /\ cursor \in 0..MaxBlock
  BY <1>1, BalanceAssumption DEF Typed, ChainInv, Blocks
<1>3. \A b \in 1..made : heightOf[b] \in 0..Len(chain)
  BY <1>2
<1>4. tipHeight = IF tip = 0 THEN 0 ELSE heightOf[tip]
  BY <1>1 DEF LoopInv
<1>5. tipHeight \in 0..Len(chain)
  BY <1>2, <1>3, <1>4
<1>6. lastTipHeight <= Len(chain) /\ target <= lastTipHeight /\ stored <= Len(chain)
  BY <1>1 DEF LoopInv
<1>7. step \in Working \cup {"block"} => cursor = lastCheckedBlock + 1 /\ cursor <= target
  BY <1>1 DEF LoopInv
<1> QED
  BY <1>2, <1>3, <1>4, <1>5, <1>6, <1>7

\* The addresses of the block that is done are current, or change above it.
LEMMA DoneUpTo ==
    ASSUME IInv, step = "save", NEW a \in Addresses \ late
    PROVE  IsCurrent(a) \/ Changed(a, cursor)
<1>1. Typed /\ LoopInv /\ RowsInv
  BY DEF IInv
<1>2. IsCurrent(a) \/ Changed(a, stored)
  BY <1>1 DEF RowsInv
<1>3. ASSUME Changed(a, stored), a \notin replaced PROVE IsCurrent(a) \/ Changed(a, cursor)
  <2>1. PICK h \in DOMAIN chain : h > stored /\ a \in Touched[chain[h]]
    BY <1>3 DEF Changed, ChangedIn
  <2>2. CASE h > cursor
    BY <2>1, <2>2 DEF Changed, ChangedIn
  <2>3. CASE h <= cursor
    <3>1. cursor = lastCheckedBlock + 1 /\ phase = "up"
      BY <1>1 DEF LoopInv, Working
    <3>2. stored = lastCheckedBlock \/ stored = lastCheckedBlock + 1
      BY <1>1, <3>1 DEF LoopInv
    <3>3. h \in Nat /\ lastCheckedBlock \in Nat
      BY Numbers
    <3>4. h = cursor
      BY <2>1, <2>3, <3>1, <3>2, <3>3
    <3>5. a \in Touched[chain[cursor]] \ left
      BY <1>1, <2>1, <3>4 DEF RowsInv
    <3> QED
      BY <1>1, <3>5 DEF RowsInv, Working
  <2> QED
    <3>1. h \in Nat /\ cursor \in Nat
      BY Numbers
    <3> QED
      BY <2>2, <2>3, <3>1
<1> QED
  BY <1>2, <1>3 DEF Changed, ChangedIn

\* A row that is written is current, or its address changes above the block, or the
\* balance was answered before the caches were emptied.
LEMMA WriteRowOK ==
    ASSUME IInv, step = "write", WriteRow, UNCHANGED nodeVars
    PROVE  /\ row' \in [Addresses -> Balances] /\ late' \subseteq Addresses
           /\ \A a \in Addresses \ late' : IsCurrent(a)' \/ Changed(a, stored)
           /\ \A a \in Touched[chain[cursor]] \ (left \ {at}) :
                 a \in late' \/ IsCurrent(a)' \/ Changed(a, cursor)
<1>1. Typed /\ LoopInv /\ AnswersInv /\ RowsInv
  BY DEF IInv
<1>2. /\ at \in Addresses /\ answer \in Entries
      /\ answer.overtaken = FALSE => OfHeight(at, answer.balance, cursor)
  BY <1>1 DEF AnswersInv, QueriesOK, CachedOK, AnswerOK
<1>3. /\ row' = [row EXCEPT ![at] = Shown(at, answer.balance)]
      /\ late' = IF answer.overtaken THEN late \cup {at} ELSE late \ {at}
      /\ chain' = chain
  BY DEF WriteRow, Written, nodeVars
<1>4. row \in [Addresses -> Balances] /\ late \subseteq Addresses
  BY <1>1 DEF Typed
<1>5. answer.balance \in Balances /\ answer.overtaken \in BOOLEAN
  BY <1>2 DEF Entries
<1>6. Shown(at, answer.balance) \in Balances
  <2>1. 0 \in Balances
    BY BalanceAssumption DEF Balances
  <2> QED
    BY <1>5, <2>1 DEF Shown
<1>7. row' \in [Addresses -> Balances] /\ late' \subseteq Addresses
  BY <1>2, <1>3, <1>4, <1>6
<1>8. \A a \in Addresses : a # at => row'[a] = row[a]
  BY <1>3, <1>4
<1>9. row'[at] = Shown(at, answer.balance)
  BY <1>2, <1>3, <1>4
<1>10. ASSUME NEW a \in {at} PROVE a \in late' \/ IsCurrent(a)' \/ Changed(a, cursor)
  <2>1. CASE answer.overtaken = TRUE
    BY <1>3, <2>1
  <2>2. CASE answer.overtaken = FALSE
    <3>1. answer.balance = BalanceIn(a, chain) \/ Changed(a, cursor)
      BY <1>2, <2>2 DEF OfHeight
    <3>2. answer.balance = BalanceIn(a, chain) => row'[a] = Shown(a, BalanceIn(a, chain'))
      BY <1>3, <1>9
    <3> QED
      BY <3>1, <3>2 DEF IsCurrent
  <2> QED
    BY <1>5, <2>1, <2>2
<1>11. ASSUME NEW a \in Addresses, a # at, a \notin late'
       PROVE  a \notin late /\ (IsCurrent(a) => IsCurrent(a)')
  BY <1>3, <1>8, <1>11 DEF IsCurrent
<1>12. ASSUME NEW a \in Addresses \ late' PROVE IsCurrent(a)' \/ Changed(a, stored)
  <2>1. CASE a = at
    <3>1. IsCurrent(a)' \/ Changed(a, cursor)
      BY <1>10, <1>12, <2>1
    <3>2. stored \in 0..cursor /\ cursor \in Nat
      <4>1. cursor = lastCheckedBlock + 1 /\ phase = "up"
        BY <1>1 DEF LoopInv, Working
      <4>2. stored = lastCheckedBlock \/ stored = lastCheckedBlock + 1
        BY <1>1, <4>1 DEF LoopInv
      <4> QED
        BY <4>1, <4>2, Numbers
    <3> QED
      BY <1>1, <3>1, <3>2, ChangedBelow
  <2>2. CASE a # at
    BY <1>1, <1>11, <1>12, <2>2 DEF RowsInv
  <2> QED
    BY <2>1, <2>2
<1>13. ASSUME NEW a \in Touched[chain[cursor]] \ (left \ {at})
       PROVE  a \in late' \/ IsCurrent(a)' \/ Changed(a, cursor)
  <2>1. CASE a = at
    BY <1>10, <2>1
  <2>2. CASE a # at
    <3>1. a \in Addresses
      <4>1. chain[cursor] \in Blocks
        <5>1. cursor \in 1..Len(chain)
          BY Numbers DEF Working
        <5> QED
          BY <1>1, <5>1 DEF Typed
      <4> QED
        BY <4>1, BalanceAssumption
    <3>2. a \in late \/ IsCurrent(a) \/ Changed(a, cursor)
      BY <1>1, <1>13, <2>2 DEF RowsInv, Working
    <3>3. a \in late => a \in late'
      BY <1>3, <2>2
    <3> QED
      BY <1>11, <2>2, <3>1, <3>2, <3>3
  <2> QED
    BY <2>1, <2>2
<1> QED
  BY <1>7, <1>12, <1>13

-----------------------------------------------------------------------------
(* The cache and the requests of the API. *)

LEMMA RowsSame ==
    ASSUME RowsInv, UNCHANGED <<nodeVars, rowVars, stored, left, step, cursor>>
    PROVE  RowsInv'
<1>1. UNCHANGED <<chain, row, late, stored, left, step, cursor>>
  BY DEF nodeVars, rowVars
<1>2. \A a : IsCurrent(a)' <=> IsCurrent(a)
  BY <1>1 DEF IsCurrent
<1> QED
  BY <1>1, <1>2, SameNode DEF RowsInv

\* An answer that the node makes now.
LEMMA NodeAnswerOK ==
    ASSUME IInv, NEW a
    PROVE  /\ NodeAnswer(a) \in Replies /\ ReplyOK(a, NodeAnswer(a))
           /\ heightOf[NodeAnswer(a).best] = Len(chain)
<1>1. chain \in Seq(Blocks) /\ made \in Blocks
  BY DEF IInv, Typed
<1>2. NodeAnswer(a) = [balance |-> BalanceIn(a, chain), best |-> made]
  BY NodeBalanceIs DEF NodeAnswer, Best
<1>3. NodeAnswer(a) \in Replies
  BY <1>1, <1>2, BalanceTyped DEF Replies
<1>4. heightOf[made] = Len(chain) /\ lastTipHeight <= Len(chain) /\ made <= made
  BY Numbers
<1> QED
  BY <1>2, <1>3, <1>4 DEF ReplyOK, OfHeight

\* What an answer in the cache says, when the caches were not emptied meanwhile.
LEMMA EntryOK ==
    ASSUME IInv, NEW a, NEW reply \in Replies, ReplyOK(a, reply)
    PROVE  /\ Entry(reply) \in Entries /\ Entry(reply).balance = reply.balance
           /\ Entry(reply).overtaken = FALSE =>
                 /\ OfHeight(a, reply.balance, tipHeight)
                 /\ OfHeight(a, reply.balance, lastTipHeight)
<1>1. Entry(reply) = [balance |-> reply.balance, overtaken |-> reply.best < tip]
  BY DEF Entry
<1>2. Entry(reply) \in Entries /\ Entry(reply).balance = reply.balance
  BY <1>1 DEF Entries, Replies
<1>3. ASSUME Entry(reply).overtaken = FALSE
      PROVE  /\ OfHeight(a, reply.balance, tipHeight)
             /\ OfHeight(a, reply.balance, lastTipHeight)
  <2>1. reply.best \in 1..made /\ OfHeight(a, reply.balance, heightOf[reply.best])
    BY Numbers DEF Replies, ReplyOK, Blocks
  <2>2. tip <= reply.best
    <3>1. Entry(reply).overtaken = (reply.best < tip)
      BY <1>1
    <3>2. ~(reply.best < tip)
      BY <1>3, <3>1, Zenon
    <3> QED
      BY <2>1, <3>2, Numbers
  <2>3. lastTipHeight <= heightOf[reply.best]
    BY <2>2 DEF ReplyOK
  <2>4. tipHeight <= heightOf[reply.best]
    <3>1. CASE tip = 0
      BY <2>1, <3>1, Numbers
    <3>2. CASE tip # 0
      BY <2>1, <2>2, <3>2, Numbers
    <3> QED
      BY <3>1, <3>2
  <2>5. tipHeight \in 0..heightOf[reply.best] /\ lastTipHeight \in 0..heightOf[reply.best]
        /\ heightOf[reply.best] \in Nat
    BY <2>1, <2>3, <2>4, Numbers
  <2> QED
    BY <2>1, <2>5, ChangedBelow DEF IInv
<1> QED
  BY <1>2, <1>3

LEMMA UpdateTipStep ==
    ASSUME IInv, NEW b \in 1..made, UpdateTip(b)
    PROVE  IInv'
<1>1. Typed /\ ChainInv /\ LoopInv /\ AnswersInv /\ RowsInv
  BY DEF IInv
<1>2. /\ phase # "down" /\ b > tip /\ tip' = b
      /\ cache' = [a \in Addresses |-> None]
      /\ tipHeight' = Larger(tipHeight, heightOf[b])
      /\ UNCHANGED <<nodeVars, query, phase, loopVars, blockVars, stored, rowVars>>
  BY DEF UpdateTip
<1>3. UNCHANGED <<chain, made, heightOf, replaced, query, phase, lastTipHeight, lastCheckedBlock,
                  target, cursor, step, stalled, left, at, answer, stored, row, late>>
  BY <1>2 DEF nodeVars, loopVars, blockVars, rowVars
<1>4. tipHeight' = heightOf[b] /\ heightOf[b] \in 0..Len(chain)
  <2>1. tipHeight <= heightOf[b] /\ heightOf[b] \in 0..Len(chain) /\ tipHeight \in Nat
    BY <1>2, Numbers
  <2> QED
    BY <1>2, <2>1, Numbers DEF Larger
<1>5. Typed'
  <2>1. tip' \in 0..made' /\ tipHeight' \in 0..MaxBlock
    BY <1>2, <1>3, <1>4, Numbers
  <2>2. cache' \in [Addresses -> Entries \cup {None}]
    BY <1>2
  <2> QED
    BY <1>1, <1>3, <2>1, <2>2 DEF Typed
<1>6. LoopInv'
  <2>1. tip' # 0 /\ \A a \in Addresses : cache'[a] = None
    BY <1>2, Numbers
  <2> QED
    BY <1>1, <1>2, <1>3, <1>4, <2>1 DEF LoopInv
<1>7. ASSUME NEW a, NEW reply \in Replies, ReplyOK(a, reply) PROVE ReplyOK(a, reply)'
  <2>1. tip' <= reply.best => tip <= reply.best
    BY <1>2, Numbers DEF Replies, Blocks
  <2> QED
    BY <1>2, <1>3, <1>7, <2>1, SameNode DEF ReplyOK
<1>8. AnswersInv'
  <2>1. ASSUME NEW a \in Addresses, query[a] \notin {None, Asked} PROVE ReplyOK(a, query[a])'
    <3>1. PICK reply \in Replies : reply = query[a] /\ ReplyOK(a, reply)
      BY <1>1, <2>1 DEF Typed, AnswersInv, QueriesOK, CachedOK, AnswerOK
    <3> QED
      BY <1>3, <1>7, <3>1 DEF ReplyOK
  <2>2. ASSUME step = "answered"
        PROVE  answer \in Replies /\ ReplyOK(at, answer)' /\ cursor <= heightOf[answer.best]
    <3>1. PICK a \in {at}, reply \in Replies :
            reply = answer /\ ReplyOK(a, reply) /\ cursor <= heightOf[reply.best]
      BY <1>1, <2>2 DEF AnswersInv, QueriesOK, CachedOK, AnswerOK
    <3> QED
      BY <1>3, <1>7, <3>1 DEF ReplyOK
  <2>3. ASSUME step = "write"
        PROVE  answer \in Entries /\ (answer.overtaken = FALSE => OfHeight(at, answer.balance, cursor)')
    BY <1>1, <1>2, <1>3, <2>3, SameNode DEF AnswersInv, QueriesOK, CachedOK, AnswerOK
  <2>4. \A a \in Addresses : cache'[a] = None
    BY <1>2
  <2>5. step \in {"asked", "answered", "write"} => at \in Addresses
    BY <1>1 DEF AnswersInv, QueriesOK, CachedOK, AnswerOK
  <2> QED
    BY <1>3, <2>1, <2>2, <2>3, <2>4, <2>5 DEF AnswersInv, QueriesOK, CachedOK, AnswerOK
<1>9. ChainInv' /\ RowsInv'
  BY <1>1, <1>2, <1>3, SameNode, RowsSame
<1> QED
  BY <1>5, <1>6, <1>8, <1>9 DEF IInv

\* What a step leaves right that does not touch it.
LEMMA AnswersSame ==
    ASSUME Typed, AnswersInv, UNCHANGED <<nodeVars, tip, tipHeight, lastTipHeight>>
    PROVE  /\ \A a, reply : ReplyOK(a, reply)' <=> ReplyOK(a, reply)
           /\ query' = query => QueriesOK'
           /\ cache' = cache => CachedOK'
           /\ UNCHANGED <<step, at, answer, cursor>> => AnswerOK'
<1>1. UNCHANGED <<chain, made, heightOf, replaced, tip, tipHeight, lastTipHeight>>
  BY DEF nodeVars
<1>2. \A a, reply : ReplyOK(a, reply)' <=> ReplyOK(a, reply)
  BY <1>1, SameNode DEF ReplyOK
<1>3. query' = query => QueriesOK'
  BY <1>2 DEF AnswersInv, QueriesOK, ReplyOK, OfHeight, Changed
<1>4. cache' = cache => CachedOK'
  BY <1>1 DEF AnswersInv, CachedOK, OfHeight, Changed
<1>5. UNCHANGED <<step, at, answer, cursor>> => AnswerOK'
  BY <1>1 DEF AnswersInv, AnswerOK, ReplyOK, OfHeight, Changed
<1> QED
  BY <1>2, <1>3, <1>4, <1>5

LEMMA ApiStep ==
    ASSUME IInv, NEW a \in Addresses, ApiAsks(a) \/ NodeAnswersApi(a) \/ ApiAnswered(a)
    PROVE  IInv'
<1>1. Typed /\ ChainInv /\ LoopInv /\ AnswersInv /\ RowsInv
  BY DEF IInv
<1>2. UNCHANGED <<nodeVars, tip, tipHeight, phase, loopVars, blockVars, stored, rowVars>>
  BY DEF ApiAsks, NodeAnswersApi, ApiAnswered
<1>3. UNCHANGED <<chain, made, heightOf, replaced, tip, tipHeight, phase, lastTipHeight,
                  lastCheckedBlock, target, cursor, step, stalled, left, at, answer, stored,
                  row, late>>
  BY <1>2 DEF nodeVars, loopVars, blockVars, rowVars
<1>4. query[a] \in Replies \cup {None, Asked} /\ cache \in [Addresses -> Entries \cup {None}]
      /\ query \in [Addresses -> Replies \cup {None, Asked}]
  BY <1>1 DEF Typed
<1>5. phase \in {"up", "failed"}
  <2>1. query[a] # None => phase \in {"up", "failed"}
    BY <1>1 DEF LoopInv
  <2> QED
    BY <2>1, BalanceAssumption DEF ApiAsks, NodeAnswersApi, ApiAnswered
<1>0. ASSUME cache' = cache PROVE CachedOK' /\ cache' \in [Addresses -> Entries \cup {None}]
  BY <1>0, <1>1, <1>2, <1>3, <1>4, AnswersSame
<1>6. ASSUME ApiAsks(a)
      PROVE  /\ query' \in [Addresses -> Replies \cup {None, Asked}]
             /\ cache' \in [Addresses -> Entries \cup {None}]
             /\ QueriesOK' /\ CachedOK'
  <2>1. query' = [query EXCEPT ![a] = Asked] /\ cache' = cache
    BY <1>6 DEF ApiAsks
  <2>2. query' \in [Addresses -> Replies \cup {None, Asked}]
    BY <1>4, <2>1
  <2>3. QueriesOK'
    BY <1>1, <1>2, <1>3, <1>4, <2>1, AnswersSame DEF QueriesOK, AnswersInv
  <2> QED
    BY <1>0, <2>1, <2>2, <2>3
<1>7. ASSUME NodeAnswersApi(a)
      PROVE  /\ query' \in [Addresses -> Replies \cup {None, Asked}]
             /\ cache' \in [Addresses -> Entries \cup {None}]
             /\ QueriesOK' /\ CachedOK'
  <2>1. PICK reply \in Replies : reply = NodeAnswer(a) /\ ReplyOK(a, reply)
    BY NodeAnswerOK
  <2>2. query' = [query EXCEPT ![a] = reply] /\ cache' = cache
    BY <1>7, <2>1 DEF NodeAnswersApi
  <2>3. query' \in [Addresses -> Replies \cup {None, Asked}]
    BY <1>4, <2>2
  <2>4. ASSUME NEW b \in Addresses, query'[b] \notin {None, Asked} PROVE ReplyOK(b, query'[b])
    BY <1>1, <1>4, <2>1, <2>2, <2>4 DEF QueriesOK, AnswersInv
  <2>5. QueriesOK'
    BY <1>1, <1>2, <1>3, <2>4, AnswersSame DEF QueriesOK
  <2> QED
    BY <1>0, <2>2, <2>3, <2>5
<1>8. ASSUME ApiAnswered(a)
      PROVE  /\ query' \in [Addresses -> Replies \cup {None, Asked}]
             /\ cache' \in [Addresses -> Entries \cup {None}]
             /\ QueriesOK' /\ CachedOK'
  <2>1. PICK reply \in Replies : reply = query[a] /\ ReplyOK(a, reply)
    BY <1>1, <1>4, <1>8 DEF ApiAnswered, AnswersInv, QueriesOK
  <2>2. query' = [query EXCEPT ![a] = None] /\ cache' = [cache EXCEPT ![a] = Entry(reply)]
    BY <1>8, <2>1 DEF ApiAnswered
  <2>3. query' \in [Addresses -> Replies \cup {None, Asked}]
    BY <1>4, <2>2
  <2>4. QueriesOK'
    BY <1>1, <1>2, <1>3, <1>4, <2>2, AnswersSame DEF QueriesOK, AnswersInv
  <2>5. PICK entry \in Entries :
          /\ entry = Entry(reply)
          /\ entry.overtaken = FALSE => /\ OfHeight(a, entry.balance, tipHeight)
                                        /\ OfHeight(a, entry.balance, lastTipHeight)
    BY <2>1, EntryOK
  <2>6. cache' = [cache EXCEPT ![a] = entry] /\ cache' \in [Addresses -> Entries \cup {None}]
    BY <1>4, <2>2, <2>5
  <2>7. ASSUME NEW b \in Addresses, cache'[b] # None, cache'[b].overtaken = FALSE
        PROVE  /\ OfHeight(b, cache'[b].balance, tipHeight)
               /\ OfHeight(b, cache'[b].balance, lastTipHeight)
    BY <1>1, <1>4, <2>5, <2>6, <2>7 DEF AnswersInv, CachedOK
  <2>8. CachedOK'
    BY <1>2, <1>3, <2>7, SameNode DEF CachedOK
  <2> QED
    BY <2>3, <2>4, <2>6, <2>8
<1>9. /\ query' \in [Addresses -> Replies \cup {None, Asked}]
      /\ cache' \in [Addresses -> Entries \cup {None}]
      /\ QueriesOK' /\ CachedOK'
  BY <1>6, <1>7, <1>8
<1>10. AnswerOK'
  BY <1>1, <1>2, <1>3, AnswersSame
<1>11. Typed'
  BY <1>1, <1>3, <1>9 DEF Typed
<1>12. LoopInv'
  BY <1>1, <1>3, <1>5 DEF LoopInv
<1>13. ChainInv' /\ RowsInv'
  BY <1>1, <1>2, <1>3, SameNode, RowsSame
<1> QED
  BY <1>9, <1>10, <1>11, <1>12, <1>13 DEF IInv, AnswersInv

-----------------------------------------------------------------------------
(* Start. *)

\* Until the service is up nothing is asked, cached or worked on.
LEMMA StartStep ==
    ASSUME IInv, Start \/ StartFails \/ GetLastBlock \/ GetInfo
    PROVE  IInv'
<1>1. Typed /\ ChainInv /\ LoopInv /\ AnswersInv /\ RowsInv
  BY DEF IInv
<1>2. /\ phase \in {"down", "load", "info", "caches", "richest"}
      /\ UNCHANGED <<chain, made, heightOf, replaced, cache, query, target, cursor, step, stalled,
                     left, at, answer, stored, row, late>>
      /\ UNCHANGED <<nodeVars, rowVars>>
  BY DEF Start, StartFails, GetLastBlock, GetInfo, nodeVars, cacheVars, loopVars, blockVars, rowVars
<1>3. /\ step = "idle"
      /\ \A a \in Addresses : cache[a] = None /\ query[a] = None
  BY <1>1, <1>2 DEF LoopInv
<1>4. /\ tip' \in 0..made /\ tipHeight' \in 0..MaxBlock
      /\ tipHeight' = IF tip' = 0 THEN 0 ELSE heightOf[tip']
  <2>1. CASE Start
    BY <2>1, Numbers DEF Start, Best
  <2>2. CASE ~Start
    <3>1. UNCHANGED <<tip, tipHeight>>
      BY <2>2 DEF StartFails, GetLastBlock, GetInfo, cacheVars
    <3> QED
      BY <3>1, Numbers
  <2> QED
    BY <2>1, <2>2
<1>5. lastTipHeight' \in 0..Len(chain) /\ target \in 0..lastTipHeight'
  <2>1. CASE GetInfo
    BY <2>1, Numbers DEF GetInfo
  <2>2. CASE ~GetInfo
    <3>1. lastTipHeight' = lastTipHeight
      BY <2>2 DEF Start, StartFails, GetLastBlock, loopVars
    <3> QED
      BY <3>1, Numbers
  <2> QED
    BY <2>1, <2>2
<1>6. lastCheckedBlock' \in 0..MaxBlock /\ phase' \in Phases \ {"down", "richest", "up"}
      /\ (phase' \in {"info", "caches"} => lastCheckedBlock' = stored)
  <2>1. CASE GetLastBlock
    BY <1>1, <2>1 DEF GetLastBlock, Phases, Typed
  <2>2. CASE ~GetLastBlock
    <3>1. lastCheckedBlock' = lastCheckedBlock
      BY <2>2 DEF Start, StartFails, GetInfo, loopVars
    <3> QED
      BY <1>1, <2>2, <3>1 DEF Start, StartFails, GetInfo, Phases, Typed, LoopInv
  <2> QED
    BY <2>1, <2>2
<1>7. Typed'
  <2>1. lastTipHeight' \in 0..MaxBlock
    BY <1>5, Numbers
  <2>2. phase' \in Phases
    BY <1>6
  <2>3. chain' = chain /\ made' = made /\ heightOf' = heightOf /\ replaced' = replaced
    BY <1>2
  <2> QED
    BY <1>1, <1>2, <1>4, <1>6, <2>1, <2>2, <2>3 DEF Typed
<1>8. LoopInv'
  <2>1. stored <= Len(chain) /\ lastTipHeight' <= Len(chain) /\ target <= lastTipHeight'
    BY <1>5, Numbers
  <2> QED
    BY <1>2, <1>3, <1>4, <1>6, <2>1 DEF LoopInv, Working, Phases
<1>9. AnswersInv'
  BY <1>2, <1>3 DEF AnswersInv, QueriesOK, CachedOK, AnswerOK
<1>10. ChainInv' /\ RowsInv'
  BY <1>1, <1>2, SameNode, RowsSame
<1> QED
  BY <1>7, <1>8, <1>9, <1>10 DEF IInv

-----------------------------------------------------------------------------
(* The loop. *)

\* What Proceed leaves.
LEMMA ProceedOK ==
    ASSUME NEW checked \in 0..MaxBlock, NEW height \in 0..MaxBlock, MaxBlock \in Nat,
           cursor \in 0..MaxBlock, Proceed(checked, height)
    PROVE  /\ target' = height /\ step' \in {"block", "caches"} /\ cursor' \in 0..MaxBlock
           /\ step' = "block" => cursor' = checked + 1 /\ cursor' <= height
BY DEF Proceed

LEMMA LoopStep ==
    ASSUME IInv,
           \/ IntervalsMade \/ ListsMade \/ CachesUpdated
           \/ \E height \in Blocks : Tip(height)
    PROVE  IInv'
<1>1. Typed /\ ChainInv /\ LoopInv /\ AnswersInv /\ RowsInv
  BY DEF IInv
<1>2. /\ UNCHANGED <<chain, made, heightOf, replaced, tip, tipHeight, cache, query,
                     lastCheckedBlock, left, at, answer, stored, row, late>>
      /\ UNCHANGED <<nodeVars, rowVars>>
  BY DEF IntervalsMade, ListsMade, CachesUpdated, Tip, nodeVars, cacheVars, blockVars, rowVars
<1>3. /\ lastTipHeight' \in {lastTipHeight} \cup 0..tipHeight /\ lastTipHeight <= lastTipHeight'
      /\ UNCHANGED lastTipHeight \/ tipHeight # 0
  <2>1. CASE \E height \in Blocks : Tip(height)
    <3>1. PICK height \in Blocks : height <= tipHeight /\ lastTipHeight' = Larger(lastTipHeight, height)
      BY <2>1 DEF Tip
    <3> QED
      BY <3>1, Numbers DEF Larger, Blocks
  <2>2. CASE IntervalsMade \/ ListsMade \/ CachesUpdated
    <3>1. lastTipHeight' = lastTipHeight
      BY <2>2 DEF IntervalsMade, ListsMade, CachesUpdated
    <3> QED
      BY <3>1, Numbers
  <2> QED
    BY <2>1, <2>2
<1>4. lastTipHeight' \in 0..Len(chain) /\ lastTipHeight' \in 0..MaxBlock
  BY <1>3, Numbers
<1> DEFINE Goes == /\ target' \in 0..lastTipHeight' /\ cursor' \in 0..MaxBlock
                   /\ step' \in {"block", "caches", "richest", "idle"}
                   /\ step' = "block" => cursor' = lastCheckedBlock + 1 /\ cursor' <= target'
            Kept == UNCHANGED <<target, cursor, step>>
<1>5. (Goes \/ Kept) /\ stalled' \in BOOLEAN
  <2>1. lastCheckedBlock \in 0..MaxBlock /\ cursor \in 0..MaxBlock /\ stalled \in BOOLEAN
        /\ lastTipHeight \in 0..MaxBlock /\ target \in 0..lastTipHeight /\ MaxBlock \in Nat
    BY <1>1, Numbers DEF Typed
  <2>2. ASSUME NEW height \in 0..MaxBlock, height <= lastTipHeight', Proceed(lastCheckedBlock, height)
        PROVE  Goes
    <3>1. /\ target' = height /\ step' \in {"block", "caches"} /\ cursor' \in 0..MaxBlock
          /\ step' = "block" => cursor' = lastCheckedBlock + 1 /\ cursor' <= height
      BY <2>1, <2>2, ProceedOK
    <3> QED
      BY <1>4, <2>2, <3>1
  <2>3. CASE IntervalsMade
    BY <1>3, <2>1, <2>3 DEF IntervalsMade
  <2>4. CASE ListsMade
    <3>1. Proceed(lastCheckedBlock, lastTipHeight) /\ stalled' = FALSE
      BY <2>4 DEF ListsMade
    <3> HIDE DEF Goes
    <3> QED
      BY <1>3, <2>1, <2>2, <3>1
  <2>5. CASE CachesUpdated
    <3>1. CASE lastTipHeight # target
      <4>1. Proceed(lastCheckedBlock, lastTipHeight) /\ stalled' = stalled
        BY <2>5, <3>1 DEF CachesUpdated
      <4> HIDE DEF Goes
      <4> QED
        BY <1>3, <2>1, <2>2, <4>1
    <3>2. CASE lastTipHeight = target
      BY <1>3, <2>1, <2>5, <3>2 DEF CachesUpdated
    <3> QED
      BY <3>1, <3>2
  <2>6. CASE \E height \in Blocks : Tip(height)
    <3>1. PICK height \in Blocks : Tip(height)
      BY <2>6
    <3>2. height \in 0..MaxBlock /\ height <= lastTipHeight'
      <4>1. lastTipHeight' = Larger(lastTipHeight, height)
        BY <3>1 DEF Tip
      <4> QED
        BY <2>1, <4>1 DEF Larger, Blocks
    <3>3. CASE step # "idle"
      BY <2>1, <3>1, <3>3 DEF Tip
    <3>4. CASE step = "idle"
      <4>1. Proceed(lastCheckedBlock, height) /\ stalled' = FALSE
        BY <3>1, <3>4 DEF Tip
      <4> HIDE DEF Goes
      <4> QED
        BY <2>2, <3>2, <4>1
    <3> QED
      BY <3>3, <3>4
  <2> QED
    BY <2>3, <2>4, <2>5, <2>6
<1>6. /\ phase' \in Phases /\ (step' # "idle" => phase' = "up")
      /\ phase' = phase \/ (phase = "caches" /\ phase' = "richest")
                        \/ (phase = "richest" /\ phase' = "up")
  <2>1. CASE IntervalsMade
    BY <1>1, <2>1 DEF IntervalsMade, Typed, LoopInv, Phases
  <2>2. CASE ListsMade
    BY <2>2 DEF ListsMade, Phases
  <2>3. CASE CachesUpdated
    BY <1>1, <2>3 DEF CachesUpdated, Typed, LoopInv
  <2>4. CASE \E height \in Blocks : Tip(height)
    BY <1>1, <2>4 DEF Tip, Typed
  <2> QED
    BY <2>1, <2>2, <2>3, <2>4
<1>7. LoopInv'
  <2>1. lastTipHeight' <= Len(chain) /\ target' <= lastTipHeight'
        /\ (step' \in Working \cup {"block"} => cursor' = lastCheckedBlock + 1 /\ cursor' <= target')
    <3>1. CASE Goes
      BY <1>4, <3>1 DEF Working
    <3>2. CASE Kept
      BY <1>3, <1>4, <3>2, Numbers
    <3> QED
      BY <1>5, <3>1, <3>2
  <2> HIDE DEF Goes, Kept
  <2> QED
    BY <1>1, <1>2, <1>6, <2>1 DEF LoopInv
<1>8. Typed'
  <2>1. step' \in Steps /\ target' \in 0..MaxBlock /\ cursor' \in 0..MaxBlock
    <3>1. CASE Goes
      BY <1>4, <3>1, BalanceAssumption DEF Steps
    <3>2. CASE Kept
      BY <1>1, <3>2 DEF Typed
    <3> QED
      BY <1>5, <3>1, <3>2
  <2> HIDE DEF Goes, Kept
  <2> QED
    BY <1>1, <1>2, <1>4, <1>5, <1>6, <2>1 DEF Typed
<1>9. ASSUME NEW a, NEW reply \in Replies, ReplyOK(a, reply) PROVE ReplyOK(a, reply)'
  <2>1. reply.best \in 1..made
    BY <1>9, Numbers DEF ReplyOK, Replies, Blocks
  <2>2. tip <= reply.best => lastTipHeight' <= heightOf[reply.best]
    <3> SUFFICES ASSUME tip <= reply.best PROVE lastTipHeight' <= heightOf[reply.best]
      OBVIOUS
    <3>1. lastTipHeight <= heightOf[reply.best]
      BY <1>9 DEF ReplyOK
    <3>2. tipHeight # 0 => tipHeight <= heightOf[reply.best]
      BY <2>1, Numbers
    <3> QED
      BY <1>3, <2>1, <3>1, <3>2, Numbers
  <2> QED
    BY <1>2, <1>9, <2>2, SameNode DEF ReplyOK
<1>10. QueriesOK'
  <2>1. ASSUME NEW a \in Addresses, query[a] \notin {None, Asked} PROVE ReplyOK(a, query[a])'
    <3>1. PICK reply \in Replies : reply = query[a] /\ ReplyOK(a, reply)
      BY <1>1, <2>1 DEF Typed, AnswersInv, QueriesOK
    <3> QED
      BY <1>2, <1>9, <3>1 DEF ReplyOK
  <2> QED
    BY <1>2, <2>1 DEF QueriesOK
<1>11. CachedOK'
  <2>1. ASSUME NEW a \in Addresses, cache[a] # None, cache[a].overtaken = FALSE
        PROVE  /\ OfHeight(a, cache[a].balance, tipHeight)
               /\ OfHeight(a, cache[a].balance, lastTipHeight')
    <3>1. OfHeight(a, cache[a].balance, tipHeight) /\ OfHeight(a, cache[a].balance, lastTipHeight)
      BY <1>1, <2>1 DEF AnswersInv, CachedOK
    <3>2. tipHeight \in Nat
      BY Numbers
    <3> QED
      BY <1>1, <1>3, <3>1, <3>2, ChangedBelow
  <2> QED
    BY <1>2, <2>1, SameNode DEF CachedOK
<1>12. AnswerOK'
  <2>1. CASE Kept
    <3>1. ASSUME step = "answered"
          PROVE  answer \in Replies /\ ReplyOK(at, answer)' /\ cursor <= heightOf[answer.best]
      <4>1. PICK a \in {at}, reply \in Replies :
              reply = answer /\ ReplyOK(a, reply) /\ cursor <= heightOf[reply.best]
        BY <1>1, <3>1 DEF AnswersInv, AnswerOK
      <4> QED
        BY <1>2, <1>9, <4>1 DEF ReplyOK
    <3>2. ASSUME step = "write"
          PROVE  answer \in Entries /\ (answer.overtaken = FALSE => OfHeight(at, answer.balance, cursor)')
      BY <1>1, <1>2, <2>1, <3>2, SameNode DEF AnswersInv, AnswerOK
    <3>3. step \in {"asked", "answered", "write"} => at \in Addresses
      BY <1>1 DEF AnswersInv, AnswerOK
    <3> QED
      BY <1>2, <2>1, <3>1, <3>2, <3>3 DEF AnswerOK
  <2>2. CASE Goes
    BY <2>2 DEF AnswerOK
  <2> QED
    BY <1>5, <2>1, <2>2
<1>13. RowsInv'
  <2>1. \A a : IsCurrent(a)' <=> IsCurrent(a)
    BY <1>2 DEF IsCurrent
  <2>2. CASE Kept
    BY <1>1, <1>2, <2>2, RowsSame
  <2>3. CASE Goes
    BY <1>1, <1>2, <2>1, <2>3, SameNode DEF RowsInv, Working
  <2> QED
    BY <1>5, <2>2, <2>3
<1>14. ChainInv'
  BY <1>1, <1>2, SameNode
<1> QED
  BY <1>7, <1>8, <1>10, <1>11, <1>12, <1>13, <1>14 DEF IInv, AnswersInv

-----------------------------------------------------------------------------
(* A block. *)

\* The steps of a block stay within the loop.
LEMMA WithinBlock ==
    ASSUME IInv, step \in Working \cup {"block"}, step' \in Working,
           UNCHANGED <<nodeVars, tip, tipHeight, query, phase, lastTipHeight,
                       lastCheckedBlock, target, cursor, stalled, stored>>,
           phase = "up"
    PROVE  ChainInv' /\ LoopInv' /\ QueriesOK'
<1>1. Typed /\ ChainInv /\ LoopInv /\ AnswersInv
  BY DEF IInv
<1>2. UNCHANGED <<chain, made, heightOf, replaced, tip, tipHeight, query, phase, lastTipHeight,
                  lastCheckedBlock, target, cursor, stalled, stored>>
  BY DEF nodeVars
<1>3. LoopInv'
  BY <1>1, <1>2 DEF LoopInv
<1>4. QueriesOK'
  BY <1>1, <1>2, AnswersSame
<1> QED
  BY <1>1, <1>3, <1>4, SameNode

LEMMA GetBlockStep ==
    ASSUME IInv, GetBlock
    PROVE  IInv'
<1>1. Typed /\ ChainInv /\ LoopInv /\ AnswersInv /\ RowsInv
  BY DEF IInv
<1>2. /\ step = "block" /\ phase = "up" /\ left' = Touched[chain[cursor]]
      /\ step' = IF left' = {} THEN "save" ELSE "next"
      /\ UNCHANGED <<chain, made, heightOf, replaced, tip, tipHeight, cache, query, phase,
                     lastTipHeight, lastCheckedBlock, target, cursor, stalled, at, answer,
                     stored, row, late>>
      /\ UNCHANGED nodeVars
  BY <1>1 DEF GetBlock, LoopInv, nodeVars, cacheVars, rowVars
<1>3. ChainInv' /\ LoopInv' /\ QueriesOK'
  BY <1>1, <1>2, WithinBlock DEF Working
<1>4. CachedOK' /\ AnswerOK'
  BY <1>1, <1>2, AnswersSame DEF AnswerOK
<1>5. Typed'
  <2>1. left' \subseteq Addresses
    <3>1. cursor \in 1..Len(chain)
      BY <1>2, Numbers
    <3>2. chain[cursor] \in Blocks
      BY <1>1, <3>1 DEF Typed
    <3> QED
      BY <1>2, <3>2, BalanceAssumption
  <2>2. step' \in Steps
    BY <1>2 DEF Steps
  <2> QED
    BY <1>1, <1>2, <2>1, <2>2 DEF Typed
<1>6. RowsInv'
  <2>1. \A a : IsCurrent(a)' <=> IsCurrent(a)
    BY <1>2 DEF IsCurrent
  <2> QED
    BY <1>1, <1>2, <2>1, SameNode DEF RowsInv
<1> QED
  BY <1>3, <1>4, <1>5, <1>6 DEF IInv, AnswersInv

LEMMA AskStep ==
    ASSUME IInv, (\E a \in Addresses : GetBalance(a)) \/ NodeAnswers \/ BalanceAnswered
    PROVE  IInv'
<1>1. Typed /\ ChainInv /\ LoopInv /\ AnswersInv /\ RowsInv
  BY DEF IInv
<1>2. /\ step \in {"next", "asked", "answered"} /\ step' \in {"asked", "answered", "write"}
      /\ UNCHANGED <<chain, made, heightOf, replaced, tip, tipHeight, query, phase,
                     lastTipHeight, lastCheckedBlock, target, cursor, stalled, left,
                     stored, row, late>>
      /\ UNCHANGED nodeVars
  BY DEF GetBalance, NodeAnswers, BalanceAnswered, nodeVars, cacheVars, rowVars
<1>3. phase = "up" /\ cursor \in 1..target /\ target \in 0..lastTipHeight
      /\ lastTipHeight \in 0..Len(chain) /\ Len(chain) \in Nat
  BY <1>1, <1>2, Numbers DEF LoopInv, Working
<1>4. ChainInv' /\ LoopInv' /\ QueriesOK'
  BY <1>2, <1>3, WithinBlock DEF Working
<1>5. cache' \in [Addresses -> Entries \cup {None}] /\ CachedOK' /\ AnswerOK'
  <2>1. CASE \E a \in Addresses : GetBalance(a)
    <3>1. PICK a \in Addresses : GetBalance(a)
      BY <2>1
    <3>2. /\ at' = a /\ answer' = cache[a] /\ cache' = cache
          /\ step' = IF cache[a] # None THEN "write" ELSE "asked"
      BY <3>1 DEF GetBalance, cacheVars
    <3>3. ASSUME cache[a] # None, cache[a].overtaken = FALSE
          PROVE  OfHeight(a, cache[a].balance, cursor)
      <4>1. OfHeight(a, cache[a].balance, lastTipHeight)
        BY <1>1, <3>3 DEF AnswersInv, CachedOK
      <4>2. lastTipHeight \in Nat /\ cursor \in 0..lastTipHeight
        BY <1>3
      <4> QED
        BY <1>1, <4>1, <4>2, ChangedBelow
    <3>4. cache[a] # None => cache[a] \in Entries
      BY <1>1 DEF Typed
    <3>5. AnswerOK'
      BY <1>2, <3>2, <3>3, <3>4, SameNode DEF AnswerOK
    <3>6. CachedOK'
      BY <1>1, <1>2, <3>2, AnswersSame
    <3> QED
      BY <1>1, <3>2, <3>5, <3>6 DEF Typed
  <2>2. CASE NodeAnswers
    <3>1. /\ answer' = NodeAnswer(at) /\ step' = "answered" /\ at' = at /\ cache' = cache
          /\ at \in Addresses
      BY <1>1, <2>2 DEF NodeAnswers, cacheVars, AnswersInv, AnswerOK
    <3>2. PICK a \in Addresses, reply \in Replies :
            /\ a = at /\ reply = NodeAnswer(at) /\ ReplyOK(a, reply)
            /\ heightOf[reply.best] = Len(chain)
      BY <3>1, NodeAnswerOK
    <3>3. cursor <= heightOf[reply.best]
      BY <1>3, <3>2
    <3>4. AnswerOK'
      <4>1. ReplyOK(a, reply)'
        BY <1>1, <1>2, <3>2, AnswersSame
      <4> QED
        BY <1>2, <3>1, <3>2, <3>3, <4>1 DEF AnswerOK
    <3>5. CachedOK'
      BY <1>1, <1>2, <3>1, AnswersSame
    <3> QED
      BY <1>1, <3>1, <3>4, <3>5 DEF Typed
  <2>3. CASE BalanceAnswered
    <3>1. /\ step = "answered" /\ answer' = Entry(answer) /\ step' = "write" /\ at' = at
          /\ cache' = [cache EXCEPT ![at] = answer']
      BY <2>3 DEF BalanceAnswered
    <3>2. PICK a \in Addresses, reply \in Replies :
            a = at /\ reply = answer /\ ReplyOK(a, reply)
      BY <1>1, <3>1 DEF AnswersInv, AnswerOK
    <3>3. PICK entry \in Entries :
            /\ entry = Entry(reply)
            /\ entry.overtaken = FALSE => /\ OfHeight(a, entry.balance, tipHeight)
                                          /\ OfHeight(a, entry.balance, lastTipHeight)
      BY <3>2, EntryOK
    <3>4. answer' = entry /\ cache' = [cache EXCEPT ![a] = entry]
      BY <3>1, <3>2, <3>3
    <3>5. cache \in [Addresses -> Entries \cup {None}]
      BY <1>1 DEF Typed
    <3>6. cache' \in [Addresses -> Entries \cup {None}]
      BY <3>4, <3>5
    <3>7. ASSUME NEW b \in Addresses, cache'[b] # None, cache'[b].overtaken = FALSE
          PROVE  /\ OfHeight(b, cache'[b].balance, tipHeight)
                 /\ OfHeight(b, cache'[b].balance, lastTipHeight)
      BY <1>1, <3>3, <3>4, <3>5, <3>7 DEF AnswersInv, CachedOK
    <3>8. CachedOK'
      BY <1>2, <3>7, SameNode DEF CachedOK
    <3>9. entry.overtaken = FALSE => OfHeight(a, entry.balance, cursor)
      <4>1. lastTipHeight \in Nat /\ cursor \in 0..lastTipHeight
        BY <1>3
      <4> QED
        BY <1>1, <3>3, <4>1, ChangedBelow
    <3>10. AnswerOK'
      BY <1>2, <3>1, <3>2, <3>3, <3>4, <3>9, SameNode DEF AnswerOK
    <3> QED
      BY <3>6, <3>8, <3>10
  <2> QED
    BY <2>1, <2>2, <2>3
<1>6. Typed'
  BY <1>1, <1>2, <1>5 DEF Typed, Steps
<1>7. RowsInv'
  <2>1. \A a : IsCurrent(a)' <=> IsCurrent(a)
    BY <1>2 DEF IsCurrent
  <2> QED
    BY <1>1, <1>2, <2>1, SameNode DEF RowsInv, Working
<1> QED
  BY <1>4, <1>5, <1>6, <1>7 DEF IInv, AnswersInv

LEMMA RowWrittenStep ==
    ASSUME IInv, RowWritten
    PROVE  IInv'
<1>1. Typed /\ ChainInv /\ LoopInv /\ AnswersInv /\ RowsInv
  BY DEF IInv
<1>2. /\ step = "write" /\ WriteRow /\ left' = left \ {at}
      /\ step' = IF left' = {} THEN "save" ELSE "next"
      /\ UNCHANGED <<chain, made, heightOf, replaced, tip, tipHeight, cache, query, phase,
                     lastTipHeight, lastCheckedBlock, target, cursor, stalled, stored>>
      /\ UNCHANGED nodeVars
  BY DEF RowWritten, nodeVars, cacheVars
<1>3. phase = "up"
  BY <1>1, <1>2 DEF LoopInv
<1>4. ChainInv' /\ LoopInv' /\ QueriesOK'
  BY <1>2, <1>3, WithinBlock DEF Working
<1>5. CachedOK' /\ AnswerOK'
  BY <1>1, <1>2, AnswersSame DEF AnswerOK
<1>6. /\ row' \in [Addresses -> Balances] /\ late' \subseteq Addresses
      /\ \A a \in Addresses \ late' : IsCurrent(a)' \/ Changed(a, stored)
      /\ \A a \in Touched[chain[cursor]] \ (left \ {at}) :
            a \in late' \/ IsCurrent(a)' \/ Changed(a, cursor)
  BY <1>2, WriteRowOK
<1>7. Typed'
  BY <1>1, <1>2, <1>6 DEF Typed, Steps
<1>8. RowsInv'
  BY <1>2, <1>6, SameNode DEF RowsInv
<1> QED
  BY <1>4, <1>5, <1>7, <1>8 DEF IInv, AnswersInv

LEMMA SaveStep ==
    ASSUME IInv, Save
    PROVE  IInv'
<1>1. Typed /\ ChainInv /\ LoopInv /\ AnswersInv /\ RowsInv
  BY DEF IInv
<1>2. /\ step = "save" /\ stored' = cursor /\ lastCheckedBlock' = cursor /\ Proceed(cursor, target)
      /\ UNCHANGED <<chain, made, heightOf, replaced, tip, tipHeight, cache, query, phase,
                     lastTipHeight, stalled, left, at, answer, row, late>>
      /\ UNCHANGED nodeVars
  BY DEF Save, nodeVars, cacheVars, blockVars, rowVars
<1>3. phase = "up" /\ cursor \in 1..target /\ target \in 0..lastTipHeight /\ lastTipHeight \in 0..Len(chain)
      /\ Len(chain) \in 0..MaxBlock /\ MaxBlock \in Nat
  BY <1>1, <1>2, Numbers DEF LoopInv, Working
<1>4. /\ target' = target /\ step' \in {"block", "caches"} /\ cursor' \in 0..MaxBlock
      /\ step' = "block" => cursor' = cursor + 1 /\ cursor' <= target
  <2>1. cursor \in 0..MaxBlock /\ target \in 0..MaxBlock
    BY <1>3
  <2> QED
    BY <1>2, <1>3, <2>1, ProceedOK
<1>5. Typed'
  BY <1>1, <1>2, <1>3, <1>4 DEF Typed, Steps
<1>6. LoopInv'
  <2>1. stored' <= Len(chain)
    BY <1>2, <1>3
  <2>2. step' \notin Working
    BY <1>4 DEF Working
  <2> QED
    BY <1>1, <1>2, <1>3, <1>4, <2>1, <2>2 DEF LoopInv
<1>7. AnswersInv'
  BY <1>1, <1>2, <1>4, AnswersSame DEF AnswersInv, AnswerOK
<1>8. RowsInv'
  <2>1. \A a : IsCurrent(a)' <=> IsCurrent(a)
    BY <1>2 DEF IsCurrent
  <2>2. \A a \in Addresses \ late : IsCurrent(a) \/ Changed(a, cursor)
    BY <1>2, DoneUpTo
  <2> QED
    BY <1>2, <1>4, <2>1, <2>2, SameNode DEF RowsInv, Working
<1> QED
  BY <1>1, <1>2, <1>5, <1>6, <1>7, <1>8, SameNode DEF IInv

-----------------------------------------------------------------------------
(* Errors and crashes. *)

\* The write under way, whether it took effect or not.
LEMMA UnderWayOK ==
    ASSUME IInv, WriteUnderWay, UNCHANGED nodeVars
    PROVE  /\ row' \in [Addresses -> Balances] /\ late' \subseteq Addresses
           /\ stored' \in 0..Len(chain) /\ stored' \in 0..MaxBlock
           /\ phase = "up" => stored' = lastCheckedBlock \/ stored' = lastCheckedBlock + 1
           /\ \A a \in Addresses \ late' : IsCurrent(a)' \/ Changed(a, stored')
<1>1. Typed /\ LoopInv /\ RowsInv /\ chain' = chain
  BY DEF IInv, nodeVars
<1>2. CASE UNCHANGED <<rowVars, stored>>
  BY <1>1, <1>2, Numbers DEF rowVars, Typed, LoopInv, RowsInv, IsCurrent
<1>3. CASE step = "write" /\ WriteRow /\ UNCHANGED stored
  BY <1>1, <1>3, Numbers, WriteRowOK DEF LoopInv
<1>4. CASE step = "save" /\ stored' = cursor /\ UNCHANGED rowVars
  <2>1. row' = row /\ late' = late
    BY <1>4 DEF rowVars
  <2>2. \A a \in Addresses \ late : IsCurrent(a) \/ Changed(a, cursor)
    BY <1>4, DoneUpTo
  <2>3. \A a : IsCurrent(a)' <=> IsCurrent(a)
    BY <1>1, <2>1 DEF IsCurrent
  <2>4. stored' \in 0..Len(chain) /\ stored' \in 0..MaxBlock /\ stored' = lastCheckedBlock + 1
    <3>1. cursor = lastCheckedBlock + 1 /\ cursor \in 1..target
      BY <1>4, Numbers DEF Working
    <3> QED
      BY <1>4, <3>1, Numbers
  <2> QED
    BY <1>1, <1>4, <2>1, <2>2, <2>3, <2>4 DEF Typed
<1> QED
  BY <1>2, <1>3, <1>4 DEF WriteUnderWay

LEMMA LoopFailsStep ==
    ASSUME IInv, LoopFails
    PROVE  IInv'
<1>1. Typed /\ ChainInv /\ LoopInv /\ AnswersInv /\ RowsInv
  BY DEF IInv
<1>2. /\ phase = "up" /\ WriteUnderWay /\ left' = {} /\ step' = "idle" /\ stalled' = TRUE
      /\ UNCHANGED <<chain, made, heightOf, replaced, tip, tipHeight, cache, query, phase,
                     lastTipHeight, lastCheckedBlock, target, cursor>>
      /\ UNCHANGED nodeVars
  BY DEF LoopFails, nodeVars, cacheVars
<1>3. /\ row' \in [Addresses -> Balances] /\ late' \subseteq Addresses
      /\ stored' \in 0..Len(chain) /\ stored' \in 0..MaxBlock
      /\ stored' = lastCheckedBlock \/ stored' = lastCheckedBlock + 1
      /\ \A a \in Addresses \ late' : IsCurrent(a)' \/ Changed(a, stored')
  BY <1>2, UnderWayOK
<1>4. Typed'
  BY <1>1, <1>2, <1>3 DEF Typed, Steps
<1>5. LoopInv'
  <2>1. stored' <= Len(chain)
    BY <1>3, Numbers
  <2> QED
    BY <1>1, <1>2, <1>3, <2>1 DEF LoopInv, Working
<1>6. AnswersInv'
  BY <1>1, <1>2, AnswersSame DEF AnswersInv, AnswerOK
<1>7. RowsInv'
  BY <1>2, <1>3 DEF RowsInv, Working, Changed
<1> QED
  BY <1>1, <1>2, <1>4, <1>5, <1>6, <1>7, SameNode DEF IInv

LEMMA CrashStep ==
    ASSUME IInv, Crash
    PROVE  IInv'
<1>1. Typed /\ ChainInv /\ LoopInv /\ AnswersInv /\ RowsInv
  BY DEF IInv
<1>2. /\ phase' = "down" /\ WriteUnderWay /\ left' = {} /\ step' = "idle" /\ stalled' = FALSE
      /\ tip' = 0 /\ tipHeight' = 0
      /\ cache' = [a \in Addresses |-> None] /\ query' = [a \in Addresses |-> None]
      /\ lastTipHeight' = 0 /\ lastCheckedBlock' = 0 /\ target' = 0 /\ cursor' = 0
      /\ UNCHANGED <<chain, made, heightOf, replaced>>
      /\ UNCHANGED nodeVars
  BY DEF Crash, nodeVars
<1>3. /\ row' \in [Addresses -> Balances] /\ late' \subseteq Addresses
      /\ stored' \in 0..Len(chain) /\ stored' \in 0..MaxBlock
      /\ \A a \in Addresses \ late' : IsCurrent(a)' \/ Changed(a, stored')
  BY <1>2, UnderWayOK
<1>4. Typed'
  <2>1. 0 \in 0..MaxBlock /\ 0 \in 0..made
    BY Numbers
  <2> QED
    BY <1>1, <1>2, <1>3, <2>1 DEF Typed, Steps, Phases
<1>5. LoopInv'
  <2>1. stored' <= Len(chain) /\ 0 <= Len(chain)
    BY <1>3, Numbers
  <2> QED
    BY <1>2, <2>1 DEF LoopInv, Working
<1>6. AnswersInv'
  BY <1>2 DEF AnswersInv, QueriesOK, CachedOK, AnswerOK
<1>7. RowsInv'
  BY <1>2, <1>3 DEF RowsInv, Working, Changed
<1> QED
  BY <1>1, <1>2, <1>4, <1>5, <1>6, <1>7, SameNode DEF IInv

-----------------------------------------------------------------------------
(* The theorem. *)

LEMMA InitIInv == Init => IInv
<1> SUFFICES ASSUME Init PROVE IInv
  OBVIOUS
<1>1. MaxBlock \in Nat \ {0} /\ 1 \in Blocks /\ 0 \in Balances
  BY BalanceAssumption DEF Blocks, Balances
<1>2. chain \in Seq(Blocks) /\ Len(chain) = 1 /\ made = 1
  BY <1>1 DEF Init
<1>3. Typed
  <2>1. made \in Blocks /\ tip \in 0..made /\ heightOf \in [Blocks -> 0..MaxBlock]
        /\ replaced \subseteq Addresses /\ tipHeight \in 0..MaxBlock
    BY <1>1, <1>2 DEF Init
  <2>2. 0 \in 0..MaxBlock /\ phase \in Phases /\ step \in Steps
    BY <1>1 DEF Init, Phases, Steps
  <2>3. /\ cache \in [Addresses -> Entries \cup {None}]
        /\ query \in [Addresses -> Replies \cup {None, Asked}]
        /\ row \in [Addresses -> Balances]
    BY <1>1 DEF Init
  <2> QED
    BY <1>2, <2>1, <2>2, <2>3 DEF Init, Typed
<1>4. ChainInv
  BY <1>1, <1>2 DEF Init, ChainInv
<1>5. LoopInv
  BY <1>2 DEF Init, LoopInv, Working
<1>6. AnswersInv
  BY DEF Init, AnswersInv, QueriesOK, CachedOK, AnswerOK
<1>7. RowsInv
  <2>1. ASSUME NEW a \in Addresses PROVE IsCurrent(a) \/ Changed(a, stored)
    <3>1. CASE a \in Touched[1]
      BY <1>2, <3>1 DEF Init, Changed, ChangedIn
    <3>2. CASE a \notin Touched[1]
      <4>1. Touching(a, chain) = {}
        BY <1>2, <3>2 DEF Init, Touching
      <4>2. BalanceIn(a, chain) = 0
        BY <4>1 DEF BalanceIn
      <4>3. Shown(a, 0) = 0
        BY DEF Shown
      <4> QED
        BY <4>2, <4>3 DEF Init, IsCurrent
    <3> QED
      BY <3>1, <3>2
  <2> QED
    BY <2>1 DEF Init, RowsInv, Working
<1> QED
  BY <1>3, <1>4, <1>5, <1>6, <1>7 DEF IInv

LEMMA NextIInv == IInv /\ [Next]_vars => IInv'
<1> SUFFICES ASSUME IInv, [Next]_vars PROVE IInv'
  OBVIOUS
<1>1. ASSUME NewBlock \/ Reorganise PROVE IInv'
  BY <1>1, ChainStep
<1>2. ASSUME NEW b \in 1..made, UpdateTip(b) PROVE IInv'
  BY <1>2, UpdateTipStep
<1>3. ASSUME NEW a \in Addresses, ApiAsks(a) \/ NodeAnswersApi(a) \/ ApiAnswered(a) PROVE IInv'
  BY <1>3, ApiStep
<1>4. ASSUME Start \/ StartFails \/ GetLastBlock \/ GetInfo PROVE IInv'
  BY <1>4, StartStep
<1>5. ASSUME \/ IntervalsMade \/ ListsMade \/ CachesUpdated
             \/ \E height \in Blocks : Tip(height)
      PROVE  IInv'
  BY <1>5, LoopStep
<1>6. ASSUME GetBlock PROVE IInv'
  BY <1>6, GetBlockStep
<1>7. ASSUME (\E a \in Addresses : GetBalance(a)) \/ NodeAnswers \/ BalanceAnswered PROVE IInv'
  BY <1>7, AskStep
<1>8. ASSUME RowWritten PROVE IInv'
  BY <1>8, RowWrittenStep
<1>9. ASSUME Save PROVE IInv'
  BY <1>9, SaveStep
<1>10. ASSUME LoopFails PROVE IInv'
  BY <1>10, LoopFailsStep
<1>11. ASSUME Crash PROVE IInv'
  BY <1>11, CrashStep
<1>12. ASSUME UNCHANGED vars PROVE IInv'
  <2>1. UNCHANGED <<chain, made, heightOf, replaced, tip, tipHeight, cache, query, phase,
                    lastTipHeight, lastCheckedBlock, target, cursor, step, stalled, left, at,
                    answer, stored, row, late>>
        /\ UNCHANGED nodeVars /\ UNCHANGED rowVars
    BY <1>12 DEF vars, nodeVars, cacheVars, loopVars, blockVars, rowVars
  <2>2. Typed /\ ChainInv /\ LoopInv /\ AnswersInv /\ RowsInv
    BY DEF IInv
  <2>3. Typed' /\ LoopInv'
    BY <2>1, <2>2 DEF Typed, LoopInv
  <2>4. AnswersInv'
    BY <2>1, <2>2, AnswersSame DEF AnswersInv
  <2>5. ChainInv' /\ RowsInv'
    BY <2>1, <2>2, SameNode, RowsSame
  <2> QED
    BY <2>3, <2>4, <2>5 DEF IInv
<1> QED
  BY <1>1, <1>2, <1>3, <1>4, <1>5, <1>6, <1>7, <1>8, <1>9, <1>10, <1>11, <1>12 DEF Next

\* The rows of the addresses that the checkpoint has passed show the balances of the
\* node, but for the rows written from an answer that was under way when the caches were
\* emptied and for the addresses of replaced blocks.
THEOREM RowsShowTheBalances == Spec => []RowsAreCurrent
<1>1. Init => IInv
  BY InitIInv
<1>2. IInv /\ [Next]_vars => IInv'
  BY NextIInv
<1>3. IInv => RowsAreCurrent
  <2> SUFFICES ASSUME IInv, NEW a \in Addresses \ (Waiting \cup late \cup replaced)
               PROVE  row[a] = Shown(a, NodeBalance(a))
    BY DEF RowsAreCurrent
  <2>1. ~Changed(a, stored)
    BY DEF Waiting, Changed, ChangedIn
  <2>2. IsCurrent(a)
    BY <2>1 DEF IInv, RowsInv
  <2> QED
    BY <2>2, NodeBalanceIs DEF IsCurrent
<1> QED
  BY <1>1, <1>2, <1>3, PTL DEF Spec

-----------------------------------------------------------------------------
(* Sums over finite sets. *)

LEMMA LeastOf ==
    ASSUME NEW T \in SUBSET Nat, T # {}
    PROVE  \E x \in T : \A y \in T : x <= y
<1>1. PICK x \in T : \A y \in T : ~(<<y, x>> \in OpToRel(<, Nat))
  BY NatLessThanWellFounded, WFMin
<1>2. \A y \in T : ~(y < x)
  BY <1>1 DEF OpToRel
<1> QED
  BY <1>2

\* What holds of 0, and of a number's successor when it holds of the number, holds of
\* every number.
LEMMA AllNumbers ==
    ASSUME NEW T, 0 \in T, \A k \in Nat : k \in T => k + 1 \in T
    PROVE  Nat \subseteq T
<1> SUFFICES ASSUME NEW b \in Nat, b \notin T PROVE FALSE
  OBVIOUS
<1> DEFINE U == {k \in Nat : k \notin T}
<1>1. U \in SUBSET Nat /\ U # {}
  OBVIOUS
<1>2. PICK k \in U : \A y \in U : k <= y
  BY <1>1, LeastOf
<1>3. k # 0 /\ k - 1 \in Nat /\ k - 1 \notin U
  BY <1>2
<1> QED
  BY <1>2, <1>3

\* A property of the subsets of a finite set that holds of the empty one, and of a
\* subset when it holds of those with fewer members, holds of all.
LEMMA AllSubsets ==
    ASSUME NEW S, IsFiniteSet(S), NEW T,
           \A s \in SUBSET S :
               (\A r \in SUBSET S : Cardinality(r) < Cardinality(s) => r \in T) => s \in T
    PROVE  SUBSET S \subseteq T
<1> SUFFICES ASSUME NEW s \in SUBSET S, s \notin T PROVE FALSE
  OBVIOUS
<1> DEFINE U == {Cardinality(r) : r \in {r \in SUBSET S : r \notin T}}
<1>1. \A r \in SUBSET S : Cardinality(r) \in Nat
  BY FS_Subset, FS_CardinalityType
<1>2. U \in SUBSET Nat /\ U # {}
  BY <1>1
<1>3. PICK n \in U : \A k \in U : n <= k
  BY <1>2, LeastOf
<1>4. PICK r \in SUBSET S : r \notin T /\ n = Cardinality(r)
  BY <1>3
<1>5. \A q \in SUBSET S : Cardinality(q) < Cardinality(r) => q \in T
  <2> SUFFICES ASSUME NEW q \in SUBSET S, Cardinality(q) < Cardinality(r), q \notin T PROVE FALSE
    OBVIOUS
  <2>1. Cardinality(q) \in U
    OBVIOUS
  <2> HIDE DEF U
  <2> QED
    BY <1>1, <1>3, <1>4, <2>1
<1> QED
  BY <1>4, <1>5

\* The member that a sum takes first.
One(s) == CHOOSE x \in s : TRUE

\* 'it' gives, for each subset of S, the sum of the weights w of its members.
IsSum(it, w, S) ==
    it = [s \in SUBSET S |-> IF s = {} THEN 0 ELSE w[One(s)] + it[s \ {One(s)}]]

LEMMA OneOf == \A s : s # {} => One(s) \in s
BY DEF One

LEMMA Fewer ==
    ASSUME NEW S, IsFiniteSet(S), NEW s \in SUBSET S, NEW x \in s
    PROVE  /\ s \ {x} \in SUBSET S /\ Cardinality(s) \in Nat \ {0}
           /\ Cardinality(s \ {x}) = Cardinality(s) - 1
<1>1. IsFiniteSet(s)
  BY FS_Subset
<1> QED
  BY <1>1, FS_RemoveElement, FS_CardinalityType, FS_EmptySet

\* The sum of the weights does not depend on the order: it is that of any member and
\* that of the others.
LEMMA SumAgrees ==
    ASSUME NEW S, IsFiniteSet(S), NEW R, NEW w, NEW v, NEW it, NEW jt,
           IsSum(it, w, S), IsSum(jt, v, R), S \subseteq R, \A x \in S : w[x] = v[x]
    PROVE  \A s \in SUBSET S : it[s] = jt[s]
<1> DEFINE T == {s \in SUBSET S : it[s] = jt[s]}
<1>1. ASSUME NEW s \in SUBSET S,
             \A r \in SUBSET S : Cardinality(r) < Cardinality(s) => r \in T
      PROVE  s \in T
  <2>1. CASE s = {}
    BY <2>1 DEF IsSum
  <2>2. CASE s # {}
    <3>1. One(s) \in s
      BY <2>2, OneOf
    <3>2. s \ {One(s)} \in T
      BY <1>1, <3>1, Fewer
    <3>3. it[s] = w[One(s)] + it[s \ {One(s)}] /\ jt[s] = v[One(s)] + jt[s \ {One(s)}]
      BY <2>2 DEF IsSum
    <3> QED
      BY <3>1, <3>2, <3>3
  <2> QED
    BY <2>1, <2>2
<1> HIDE DEF T
<1>2. SUBSET S \subseteq T
  BY <1>1, AllSubsets
<1> QED
  BY <1>2 DEF T

LEMMA SumExists ==
    ASSUME NEW S, IsFiniteSet(S), NEW w \in [S -> Nat]
    PROVE  \E it \in [SUBSET S -> Nat] : IsSum(it, w, S)
<1> DEFINE Sub(n) == {s \in SUBSET S : Cardinality(s) <= n}
           Sums(it, n) == /\ it \in [Sub(n) -> Nat]
                          /\ \A s \in Sub(n) :
                               it[s] = IF s = {} THEN 0 ELSE w[One(s)] + it[s \ {One(s)}]
           T == {n \in Nat : \E it : Sums(it, n)}
<1>0. \A s \in SUBSET S : Cardinality(s) \in Nat /\ Cardinality(s) <= Cardinality(S)
  BY FS_Subset, FS_CardinalityType
<1>1. 0 \in T
  <2>1. \A s \in Sub(0) : s = {}
    BY <1>0, FS_Subset, FS_EmptySet
  <2>2. Sums([s \in Sub(0) |-> 0], 0)
    BY <2>1
  <2> QED
    BY <2>2
<1>2. ASSUME NEW n \in Nat, n \in T PROVE n + 1 \in T
  <2>1. PICK it : Sums(it, n)
    BY <1>2
  <2> DEFINE jt == [s \in Sub(n + 1) |->
                      IF s \in Sub(n) THEN it[s] ELSE w[One(s)] + it[s \ {One(s)}]]
  <2>2. \A s \in Sub(n + 1) : s # {} =>
            One(s) \in S /\ s \ {One(s)} \in Sub(n) /\ s \ {One(s)} \in Sub(n + 1)
    <3> SUFFICES ASSUME NEW s \in Sub(n + 1), s # {}
                 PROVE  One(s) \in S /\ s \ {One(s)} \in Sub(n) /\ s \ {One(s)} \in Sub(n + 1)
      OBVIOUS
    <3>1. One(s) \in s
      BY OneOf
    <3>2. s \ {One(s)} \in SUBSET S /\ Cardinality(s) \in Nat \ {0}
          /\ Cardinality(s \ {One(s)}) = Cardinality(s) - 1
      BY <3>1, Fewer
    <3> QED
      BY <3>1, <3>2
  <2>3. \A s \in Sub(n + 1) : s \notin Sub(n) => s # {}
    BY FS_EmptySet
  <2>4. jt \in [Sub(n + 1) -> Nat]
    <3> SUFFICES ASSUME NEW s \in Sub(n + 1) PROVE jt[s] \in Nat
      OBVIOUS
    <3>1. CASE s \in Sub(n)
      BY <2>1, <3>1
    <3>2. CASE s \notin Sub(n)
      <4>1. One(s) \in S /\ s \ {One(s)} \in Sub(n)
        BY <2>2, <2>3, <3>2
      <4>2. w[One(s)] \in Nat /\ it[s \ {One(s)}] \in Nat
        BY <2>1, <4>1
      <4> QED
        BY <3>2, <4>2
    <3> QED
      BY <3>1, <3>2
  <2>5. \A s \in Sub(n + 1) :
            jt[s] = IF s = {} THEN 0 ELSE w[One(s)] + jt[s \ {One(s)}]
    <3> SUFFICES ASSUME NEW s \in Sub(n + 1)
                 PROVE  jt[s] = IF s = {} THEN 0 ELSE w[One(s)] + jt[s \ {One(s)}]
      OBVIOUS
    <3>1. s # {} => jt[s \ {One(s)}] = it[s \ {One(s)}]
      BY <2>2
    <3>2. CASE s \in Sub(n)
      <4>1. jt[s] = it[s]
        BY <3>2
      <4> QED
        BY <2>1, <3>1, <3>2, <4>1
    <3>3. CASE s \notin Sub(n)
      <4>1. jt[s] = w[One(s)] + it[s \ {One(s)}] /\ s # {}
        BY <2>3, <3>3
      <4> QED
        BY <3>1, <4>1
    <3> QED
      BY <3>2, <3>3
  <2>6. Sums(jt, n + 1)
    BY <2>4, <2>5
  <2> HIDE DEF Sums, jt
  <2>7. n + 1 \in Nat
    OBVIOUS
  <2>8. \E kt : Sums(kt, n + 1)
    BY <2>6
  <2> QED
    BY <2>7, <2>8
<1> HIDE DEF T
<1>3. Nat \subseteq T
  BY <1>1, <1>2, AllNumbers
<1>4. PICK it : Sums(it, Cardinality(S))
  BY <1>3, FS_CardinalityType DEF T
<1>5. Sub(Cardinality(S)) = SUBSET S
  BY <1>0
<1> QED
  BY <1>4, <1>5 DEF IsSum

LEMMA SumTyped ==
    ASSUME NEW S, IsFiniteSet(S), NEW w \in [S -> Nat], NEW it, IsSum(it, w, S)
    PROVE  it \in [SUBSET S -> Nat] /\ it[{}] = 0
<1>1. PICK jt \in [SUBSET S -> Nat] : IsSum(jt, w, S)
  BY SumExists
<1>2. \A s \in SUBSET S : it[s] = jt[s]
  BY <1>1, SumAgrees
<1>3. it = [s \in SUBSET S |-> it[s]] /\ it[{}] = 0
  BY DEF IsSum
<1> QED
  BY <1>2, <1>3

\* Which member is taken first does not matter.
TakesAny(it, w, S) == \A s \in SUBSET S, x \in S : x \in s => it[s] = w[x] + it[s \ {x}]

LEMMA SumTakes ==
    ASSUME NEW S, IsFiniteSet(S), NEW w \in [S -> Nat], NEW it, IsSum(it, w, S)
    PROVE  TakesAny(it, w, S)
<1> DEFINE T == {s \in SUBSET S : \A x \in s : it[s] = w[x] + it[s \ {x}]}
<1>0. it \in [SUBSET S -> Nat]
  BY SumTyped
<1>1. ASSUME NEW s \in SUBSET S,
             \A r \in SUBSET S : Cardinality(r) < Cardinality(s) => r \in T
      PROVE  s \in T
  <2> SUFFICES ASSUME NEW x \in s PROVE it[s] = w[x] + it[s \ {x}]
    OBVIOUS
  <2>1. PICK y \in s : y = One(s)
    BY OneOf
  <2>2. it[s] = w[y] + it[s \ {y}]
    BY <2>1 DEF IsSum
  <2>3. CASE x = y
    BY <2>2, <2>3
  <2>4. CASE x # y
    <3>1. s \ {y} \in T
      <4>1. s \ {y} \in SUBSET S /\ Cardinality(s) \in Nat \ {0}
            /\ Cardinality(s \ {y}) = Cardinality(s) - 1
        BY Fewer
      <4>2. Cardinality(s \ {y}) < Cardinality(s)
        BY <4>1
      <4> HIDE DEF T
      <4> QED
        BY <1>1, <4>1, <4>2, Zenon
    <3>2. s \ {x} \in T
      <4>1. s \ {x} \in SUBSET S /\ Cardinality(s) \in Nat \ {0}
            /\ Cardinality(s \ {x}) = Cardinality(s) - 1
        BY Fewer
      <4>2. Cardinality(s \ {x}) < Cardinality(s)
        BY <4>1
      <4> HIDE DEF T
      <4> QED
        BY <1>1, <4>1, <4>2, Zenon
    <3>3. it[s \ {y}] = w[x] + it[(s \ {y}) \ {x}]
      BY <2>4, <3>1
    <3>4. it[s \ {x}] = w[y] + it[(s \ {x}) \ {y}]
      BY <2>4, <3>2
    <3>5. PICK r \in SUBSET S : r = (s \ {y}) \ {x} /\ r = (s \ {x}) \ {y}
      OBVIOUS
    <3>6. it[r] \in Nat /\ w[x] \in Nat /\ w[y] \in Nat
      BY <1>0
    <3>7. it[s \ {y}] = w[x] + it[r] /\ it[s \ {x}] = w[y] + it[r]
      BY <3>3, <3>4, <3>5
    <3> QED
      BY <2>2, <3>6, <3>7
  <2> QED
    BY <2>3, <2>4
<1> HIDE DEF T
<1>2. SUBSET S \subseteq T
  BY <1>1, AllSubsets
<1> QED
  BY <1>2 DEF T, TakesAny

\* A measure of the subsets of S adds up over disjoint ones.
Additive(m, S) ==
    /\ m \in [SUBSET S -> Nat] /\ m[{}] = 0
    /\ \A q, s \in SUBSET S : q \cap s = {} => m[q \cup s] = m[q] + m[s]

LEMMA SumJoins ==
    ASSUME NEW S, IsFiniteSet(S), NEW w \in [S -> Nat], NEW it, IsSum(it, w, S)
    PROVE  Additive(it, S)
<1> SUFFICES ASSUME NEW q \in SUBSET S
             PROVE  \A s \in SUBSET S : q \cap s = {} => it[q \cup s] = it[q] + it[s]
  BY SumTyped DEF Additive
<1> DEFINE T == {s \in SUBSET S : q \cap s = {} => it[q \cup s] = it[q] + it[s]}
<1>0. it \in [SUBSET S -> Nat] /\ it[{}] = 0
  BY SumTyped
<1>3. TakesAny(it, w, S)
  BY SumTakes
<1>1. ASSUME NEW s \in SUBSET S,
             \A r \in SUBSET S : Cardinality(r) < Cardinality(s) => r \in T
      PROVE  s \in T
  <2> SUFFICES ASSUME q \cap s = {} PROVE it[q \cup s] = it[q] + it[s]
    OBVIOUS
  <2>1. CASE s = {}
    <3>1. q \cup s = q /\ it[q] \in Nat
      BY <1>0, <2>1
    <3> QED
      BY <1>0, <2>1, <3>1
  <2>2. CASE s # {}
    <3>1. PICK x \in s : TRUE
      BY <2>2
    <3>2. PICK r \in SUBSET S : r = s \ {x}
      OBVIOUS
    <3>3. r \in T
      <4>1. r \in SUBSET S /\ Cardinality(s) \in Nat \ {0} /\ Cardinality(r) = Cardinality(s) - 1
        BY <3>1, <3>2, Fewer
      <4>2. Cardinality(r) < Cardinality(s)
        BY <4>1
      <4> HIDE DEF T
      <4> QED
        BY <1>1, <4>1, <4>2
    <3>4. q \cap r = {} /\ (q \cup s) \ {x} = q \cup r /\ x \in q \cup s /\ q \cup s \in SUBSET S
      BY <3>2
    <3>5. it[q \cup s] = w[x] + it[q \cup r]
      BY <1>3, <3>4 DEF TakesAny
    <3>6. it[s] = w[x] + it[r]
      BY <1>3, <3>2 DEF TakesAny
    <3>7. it[q \cup r] = it[q] + it[r]
      BY <3>3, <3>4
    <3>8. it[q] \in Nat /\ it[r] \in Nat /\ w[x] \in Nat
      BY <1>0
    <3> QED
      BY <3>5, <3>6, <3>7, <3>8
  <2> QED
    BY <2>1, <2>2
<1> HIDE DEF T
<1>2. SUBSET S \subseteq T
  BY <1>1, AllSubsets
<1> QED
  BY <1>2 DEF T

\* A sum over the numbers up to n, one number at a time.
OneByOne(it, v, n) ==
    /\ it[1..0] = 0
    /\ \A k \in Nat : k + 1 <= n => it[1..(k + 1)] = v[k + 1] + it[1..k]

LEMMA SumOfNumbers ==
    ASSUME NEW n \in Nat, NEW v \in [1..n -> Nat], NEW it, IsSum(it, v, 1..n)
    PROVE  OneByOne(it, v, n)
<1> DEFINE dom == 1..n
<1>1. IsFiniteSet(dom)
  <2>1. 1 \in Int /\ n \in Int
    OBVIOUS
  <2> QED
    BY <2>1, FS_Interval
<1>2. v \in [dom -> Nat] /\ IsSum(it, v, dom)
  OBVIOUS
<1>3. ASSUME NEW k \in Nat, k + 1 <= n
      PROVE  1..(k + 1) \in SUBSET dom /\ k + 1 \in dom /\ k + 1 \in 1..(k + 1)
             /\ (1..(k + 1)) \ {k + 1} = 1..k
  BY <1>3
<1>4. 1..0 = {}
  OBVIOUS
<1> HIDE DEF dom
<1>5. it \in [SUBSET dom -> Nat] /\ it[{}] = 0
  BY <1>1, <1>2, SumTyped
<1>6. TakesAny(it, v, dom)
  BY <1>1, <1>2, SumTakes
<1>7. ASSUME NEW k \in Nat, k + 1 <= n PROVE it[1..(k + 1)] = v[k + 1] + it[1..k]
  <2>1. PICK s \in SUBSET dom : s = 1..(k + 1)
    BY <1>3, <1>7
  <2>2. PICK x \in dom : x = k + 1
    BY <1>3, <1>7
  <2>3. x \in s /\ s \ {x} = 1..k
    BY <1>3, <1>7, <2>1, <2>2
  <2>4. it[s] = v[x] + it[s \ {x}]
    BY <1>6, <2>3 DEF TakesAny
  <2> QED
    BY <2>1, <2>2, <2>3, <2>4
<1> QED
  BY <1>4, <1>5, <1>7 DEF OneByOne

\* The parts from 1 to n are disjoint and make up S; v is the measure of each.
Partition(part, S, n) ==
    /\ part \in [1..n -> SUBSET S]
    /\ \A i, k \in 1..n : i < k => part[i] \cap part[k] = {}
    /\ \A x \in S : \E i \in 1..n : x \in part[i]
Measures(v, m, part, n) == v \in [1..n -> Nat] /\ \A i \in 1..n : v[i] = m[part[i]]

\* A measure that adds up over disjoint sets is that of a set when it is summed over a
\* partition of the set.
LEMMA SumOfParts ==
    ASSUME NEW S, IsFiniteSet(S), NEW m, Additive(m, S), NEW n \in Nat,
           NEW part, Partition(part, S, n), NEW v, Measures(v, m, part, n),
           NEW it, IsSum(it, v, 1..n)
    PROVE  it[1..n] = m[S]
<1> DEFINE Pre(k) == {x \in S : \E i \in 1..k : x \in part[i]}
           T == {k \in Nat : k <= n => it[1..k] = m[Pre(k)]}
<1>8. m \in [SUBSET S -> Nat] /\ m[{}] = 0 /\ v \in [1..n -> Nat]
  BY DEF Additive, Measures
<1>1. OneByOne(it, v, n)
  BY <1>8, SumOfNumbers
<1>0. /\ part \in [1..n -> SUBSET S]
      /\ \A i, k \in 1..n : i < k => part[i] \cap part[k] = {}
      /\ \A x \in S : \E i \in 1..n : x \in part[i]
  BY DEF Partition
<1>2. Pre(0) = {} /\ Pre(n) = S
  BY <1>0
<1>3. \A k \in Nat : k + 1 <= n =>
        /\ Pre(k) \in SUBSET S /\ part[k + 1] \in SUBSET S
        /\ part[k + 1] \cap Pre(k) = {} /\ Pre(k + 1) = part[k + 1] \cup Pre(k)
  <2> SUFFICES ASSUME NEW k \in Nat, k + 1 <= n
               PROVE  /\ part[k + 1] \in SUBSET S
                      /\ part[k + 1] \cap Pre(k) = {} /\ Pre(k + 1) = part[k + 1] \cup Pre(k)
    OBVIOUS
  <2>1. k + 1 \in 1..n /\ part[k + 1] \in SUBSET S
    BY <1>0
  <2>2. 1..(k + 1) = (1..k) \cup {k + 1}
    OBVIOUS
  <2>3. \A i \in 1..k : i \in 1..n /\ i < k + 1
    OBVIOUS
  <2>4. \A i \in 1..k : part[i] \cap part[k + 1] = {}
    BY <1>0, <2>1, <2>3
  <2> QED
    BY <2>1, <2>2, <2>4
<1> HIDE DEF Pre
<1>4. 0 \in T
  BY <1>8, <1>1, <1>2 DEF OneByOne
<1>5. ASSUME NEW k \in Nat, k \in T PROVE k + 1 \in T
  <2> SUFFICES ASSUME k + 1 <= n PROVE it[1..(k + 1)] = m[Pre(k + 1)]
    OBVIOUS
  <2>1. it[1..k] = m[Pre(k)]
    BY <1>5
  <2> HIDE DEF T
  <2>2. v[k + 1] = m[part[k + 1]]
    BY DEF Measures
  <2>3. PICK before \in SUBSET S : before = Pre(k)
    BY <1>3
  <2>4. PICK here \in SUBSET S : here = part[k + 1]
    BY <1>3
  <2>5. here \cap before = {} /\ Pre(k + 1) = here \cup before
    BY <1>3, <2>3, <2>4
  <2>6. m[here \cup before] = m[here] + m[before]
    BY <2>5 DEF Additive
  <2>7. it[1..(k + 1)] = m[here] + m[before]
    BY <1>1, <2>1, <2>2, <2>3, <2>4 DEF OneByOne
  <2> QED
    BY <2>5, <2>6, <2>7
<1> HIDE DEF T
<1>6. Nat \subseteq T
  BY <1>4, <1>5, AllNumbers
<1>7. n \in T /\ n <= n
  BY <1>6
<1> QED
  BY <1>2, <1>7 DEF T

-----------------------------------------------------------------------------
(* The intervals. *)

\* The addresses with a row, and what a row says.
Holders(r) == {a \in Addresses : r[a] # 0}
Has(r, a) == Amount[r[a]][a]

CountsOf(ivs, S) == MapThenSumSet(LAMBDA i : ivs[i].count, S)
SumsOf(ivs, S) == MapThenSumSet(LAMBDA i : ivs[i].sum, S)
HadOf(r, S) == MapThenSumSet(LAMBDA a : Has(r, a), S)

\* The sums that the model takes are such sums.
LEMMA SumOfHad ==
    ASSUME NEW r, NEW S, IsFiniteSet(S), NEW w \in [S -> Nat], \A a \in S : w[a] = Has(r, a)
    PROVE  \E it : IsSum(it, w, S) /\ HadOf(r, S) = it[S]
<1> HIDE DEF Has
<1> DEFINE Iter(g) == g = [s \in SUBSET S |->
                             IF s = {} THEN 0
                             ELSE Has(r, CHOOSE x \in s : TRUE) + g[s \ {CHOOSE x \in s : TRUE}]]
<1>1. PICK jt \in [SUBSET S -> Nat] : IsSum(jt, w, S)
  BY SumExists
<1>2. \A s \in SUBSET S : s # {} => w[One(s)] = Has(r, One(s))
  BY OneOf
<1>3. \A g : Iter(g) <=> IsSum(g, w, S)
  <2> SUFFICES ASSUME NEW g PROVE Iter(g) <=> IsSum(g, w, S)
    BY Zenon
  <2> DEFINE one == [s \in SUBSET S |-> IF s = {} THEN 0 ELSE Has(r, One(s)) + g[s \ {One(s)}]]
             two == [s \in SUBSET S |-> IF s = {} THEN 0 ELSE w[One(s)] + g[s \ {One(s)}]]
  <2>1. one = two
    BY <1>2
  <2>2. Iter(g) <=> g = one
    BY Zenon DEF One
  <2>3. IsSum(g, w, S) <=> g = two
    BY Zenon DEF IsSum
  <2> HIDE DEF one, two, Iter
  <2> QED
    BY <2>1, <2>2, <2>3, Zenon
<1>4. Iter(jt)
  <2> HIDE DEF Iter
  <2> QED
    BY <1>1, <1>3
<1> DEFINE it == CHOOSE g : Iter(g)
<1>5. Iter(it)
  <2>1. \E g : Iter(g)
    <3> HIDE DEF Iter
    <3> QED
      BY <1>4, Zenon
  <2> HIDE DEF Iter
  <2> QED
    BY <2>1, Zenon
<1>6. HadOf(r, S) = it[S]
  BY Zenon DEF HadOf, MapThenSumSet, MapThenFoldSet
<1> HIDE DEF it
<1>7. IsSum(it, w, S)
  <2> HIDE DEF Iter
  <2> QED
    BY <1>3, <1>5, Zenon
<1> QED
  BY <1>6, <1>7

LEMMA SumOfCounts ==
    ASSUME NEW ivs, NEW S, IsFiniteSet(S), NEW w \in [S -> Nat], \A i \in S : w[i] = ivs[i].count
    PROVE  \E it : IsSum(it, w, S) /\ CountsOf(ivs, S) = it[S]
<1> DEFINE Iter(g) == g = [s \in SUBSET S |->
                             IF s = {} THEN 0
                             ELSE ivs[CHOOSE x \in s : TRUE].count + g[s \ {CHOOSE x \in s : TRUE}]]
<1>1. PICK jt \in [SUBSET S -> Nat] : IsSum(jt, w, S)
  BY SumExists
<1>2. \A s \in SUBSET S : s # {} => w[One(s)] = ivs[One(s)].count
  BY OneOf
<1>3. \A g : Iter(g) <=> IsSum(g, w, S)
  <2> SUFFICES ASSUME NEW g PROVE Iter(g) <=> IsSum(g, w, S)
    BY Zenon
  <2> DEFINE one == [s \in SUBSET S |-> IF s = {} THEN 0 ELSE ivs[One(s)].count + g[s \ {One(s)}]]
             two == [s \in SUBSET S |-> IF s = {} THEN 0 ELSE w[One(s)] + g[s \ {One(s)}]]
  <2>1. one = two
    BY <1>2
  <2>2. Iter(g) <=> g = one
    BY Zenon DEF One
  <2>3. IsSum(g, w, S) <=> g = two
    BY Zenon DEF IsSum
  <2> HIDE DEF one, two, Iter
  <2> QED
    BY <2>1, <2>2, <2>3, Zenon
<1>4. Iter(jt)
  <2> HIDE DEF Iter
  <2> QED
    BY <1>1, <1>3
<1> DEFINE it == CHOOSE g : Iter(g)
<1>5. Iter(it)
  <2>1. \E g : Iter(g)
    <3> HIDE DEF Iter
    <3> QED
      BY <1>4, Zenon
  <2> HIDE DEF Iter
  <2> QED
    BY <2>1, Zenon
<1>6. CountsOf(ivs, S) = it[S]
  BY Zenon DEF CountsOf, MapThenSumSet, MapThenFoldSet
<1> HIDE DEF it
<1>7. IsSum(it, w, S)
  <2> HIDE DEF Iter
  <2> QED
    BY <1>3, <1>5, Zenon
<1> QED
  BY <1>6, <1>7

LEMMA SumOfSums ==
    ASSUME NEW ivs, NEW S, IsFiniteSet(S), NEW w \in [S -> Nat], \A i \in S : w[i] = ivs[i].sum
    PROVE  \E it : IsSum(it, w, S) /\ SumsOf(ivs, S) = it[S]
<1> DEFINE Iter(g) == g = [s \in SUBSET S |->
                             IF s = {} THEN 0
                             ELSE ivs[CHOOSE x \in s : TRUE].sum + g[s \ {CHOOSE x \in s : TRUE}]]
<1>1. PICK jt \in [SUBSET S -> Nat] : IsSum(jt, w, S)
  BY SumExists
<1>2. \A s \in SUBSET S : s # {} => w[One(s)] = ivs[One(s)].sum
  BY OneOf
<1>3. \A g : Iter(g) <=> IsSum(g, w, S)
  <2> SUFFICES ASSUME NEW g PROVE Iter(g) <=> IsSum(g, w, S)
    BY Zenon
  <2> DEFINE one == [s \in SUBSET S |-> IF s = {} THEN 0 ELSE ivs[One(s)].sum + g[s \ {One(s)}]]
             two == [s \in SUBSET S |-> IF s = {} THEN 0 ELSE w[One(s)] + g[s \ {One(s)}]]
  <2>1. one = two
    BY <1>2
  <2>2. Iter(g) <=> g = one
    BY Zenon DEF One
  <2>3. IsSum(g, w, S) <=> g = two
    BY Zenon DEF IsSum
  <2> HIDE DEF one, two, Iter
  <2> QED
    BY <2>1, <2>2, <2>3, Zenon
<1>4. Iter(jt)
  <2> HIDE DEF Iter
  <2> QED
    BY <1>1, <1>3
<1> DEFINE it == CHOOSE g : Iter(g)
<1>5. Iter(it)
  <2>1. \E g : Iter(g)
    <3> HIDE DEF Iter
    <3> QED
      BY <1>4, Zenon
  <2> HIDE DEF Iter
  <2> QED
    BY <2>1, Zenon
<1>6. SumsOf(ivs, S) = it[S]
  BY Zenon DEF SumsOf, MapThenSumSet, MapThenFoldSet
<1> HIDE DEF it
<1>7. IsSum(it, w, S)
  <2> HIDE DEF Iter
  <2> QED
    BY <1>3, <1>5, Zenon
<1> QED
  BY <1>6, <1>7

\* The borders: each is ten times the one before.
BorderFacts ==
    /\ Border \in [Nat -> Nat] /\ Border[0] = MinBorder
    /\ \A n \in Nat : Border[n + 1] = 10 * Border[n]

LEMMA BordersMultiply == BorderFacts
<1> DEFINE Starts(g, n) == /\ g \in [0..n -> Nat] /\ g[0] = MinBorder
                           /\ \A i \in 1..n : g[i] = 10 * g[i - 1]
           T == {n \in Nat : \E g : Starts(g, n)}
           G(n) == CHOOSE g : Starts(g, n)
           all == [n \in Nat |-> G(n)[n]]
           Is(g) == g = [i \in Nat |-> IF i = 0 THEN MinBorder ELSE 10 * g[i - 1]]
<1>0. MinBorder \in Nat
  BY BalanceAssumption
<1>1. 0 \in T
  <2>1. Starts([i \in 0..0 |-> MinBorder], 0)
    BY <1>0
  <2> QED
    BY <2>1
<1>2. ASSUME NEW n \in Nat, n \in T PROVE n + 1 \in T
  <2>1. PICK g : Starts(g, n)
    BY <1>2
  <2> DEFINE h == [i \in 0..(n + 1) |-> IF i = n + 1 THEN 10 * g[n] ELSE g[i]]
  <2>2. \A i \in 0..n : g[i] \in Nat /\ h[i] = g[i]
    BY <2>1
  <2>3. \A i \in 0..(n + 1) : i = n + 1 \/ i \in 0..n
    OBVIOUS
  <2>4. h \in [0..(n + 1) -> Nat]
    <3>1. n \in 0..n
      OBVIOUS
    <3>2. 10 * g[n] \in Nat
      <4>1. g[n] \in Nat
        BY <2>1, <3>1
      <4> QED
        BY <4>1
    <3>3. \A i \in 0..(n + 1) : h[i] \in Nat
      BY <2>2, <2>3, <3>2
    <3> QED
      BY <3>3
  <2>5. h[n + 1] = 10 * h[n] /\ h[0] = MinBorder
    BY <2>1, <2>2
  <2>6. \A i \in 1..(n + 1) : h[i] = 10 * h[i - 1]
    <3> SUFFICES ASSUME NEW i \in 1..(n + 1) PROVE h[i] = 10 * h[i - 1]
      OBVIOUS
    <3>1. CASE i = n + 1
      BY <2>5, <3>1
    <3>2. CASE i # n + 1
      <4>1. i \in 1..n /\ i \in 0..n /\ i - 1 \in 0..n
        BY <3>2
      <4> QED
        BY <2>1, <2>2, <4>1
    <3> QED
      BY <3>1, <3>2
  <2>7. Starts(h, n + 1)
    BY <2>4, <2>5, <2>6
  <2> HIDE DEF h, Starts
  <2>8. n + 1 \in Nat
    OBVIOUS
  <2>9. \E k : Starts(k, n + 1)
    BY <2>7
  <2> QED
    BY <2>8, <2>9
<1> HIDE DEF T
<1>3. Nat \subseteq T
  BY <1>1, <1>2, AllNumbers
<1>4. ASSUME NEW n \in Nat PROVE Starts(G(n), n)
  <2> HIDE DEF Starts
  <2>1. \E g : Starts(g, n)
    BY <1>3 DEF T
  <2> QED
    BY <2>1
<1> HIDE DEF G
<1>5. ASSUME NEW n \in Nat PROVE G(n + 1)[n] = G(n)[n]
  <2> DEFINE U == {i \in Nat : i <= n => G(n + 1)[i] = G(n)[i]}
  <2>1. Starts(G(n), n) /\ Starts(G(n + 1), n + 1)
    <3> HIDE DEF Starts
    <3>1. n + 1 \in Nat
      OBVIOUS
    <3> QED
      BY <1>4, <3>1
  <2>2. 0 \in U
    BY <2>1
  <2>3. ASSUME NEW i \in Nat, i \in U PROVE i + 1 \in U
    <3> SUFFICES ASSUME i + 1 <= n PROVE G(n + 1)[i + 1] = G(n)[i + 1]
      OBVIOUS
    <3>1. PICK k \in 1..n : k = i + 1
      OBVIOUS
    <3>2. k \in 1..(n + 1) /\ k - 1 = i /\ i <= n
      BY <3>1
    <3>3. G(n + 1)[k] = 10 * G(n + 1)[k - 1] /\ G(n)[k] = 10 * G(n)[k - 1]
      BY <2>1, <3>2
    <3>4. G(n + 1)[i] = G(n)[i]
      BY <2>3, <3>2
    <3> QED
      BY <3>1, <3>2, <3>3, <3>4
  <2> HIDE DEF U
  <2>4. Nat \subseteq U
    BY <2>2, <2>3, AllNumbers
  <2>5. n \in U /\ n <= n
    BY <2>4
  <2> QED
    BY <2>5 DEF U
<1>6. all \in [Nat -> Nat]
  BY <1>4
<1>7. all[0] = MinBorder
  BY <1>4
<1>8. \A n \in Nat : all[n + 1] = 10 * all[n]
  <2> SUFFICES ASSUME NEW n \in Nat PROVE all[n + 1] = 10 * all[n]
    OBVIOUS
  <2>1. PICK k \in Nat : k = n + 1
    OBVIOUS
  <2>2. Starts(G(k), k) /\ k \in 1..k /\ k - 1 = n
    BY <1>4, <2>1
  <2>3. G(k)[k] = 10 * G(k)[n]
    BY <2>2
  <2>4. G(k)[n] = G(n)[n]
    BY <1>5, <2>1
  <2>5. all[k] = G(k)[k] /\ all[n] = G(n)[n]
    OBVIOUS
  <2> QED
    BY <2>1, <2>3, <2>4, <2>5
<1> HIDE DEF all, Starts
<1>9. Is(all)
  <2>1. \A i \in Nat : all[i] = IF i = 0 THEN MinBorder ELSE 10 * all[i - 1]
    <3> SUFFICES ASSUME NEW i \in Nat, i # 0 PROVE all[i] = 10 * all[i - 1]
      BY <1>7
    <3>1. PICK k \in Nat : i = k + 1
      <4>1. i - 1 \in Nat /\ i = (i - 1) + 1
        OBVIOUS
      <4> QED
        BY <4>1
    <3>2. i - 1 = k
      BY <3>1
    <3> QED
      BY <1>8, <3>1, <3>2
  <2>2. all = [i \in Nat |-> all[i]]
    BY <1>6
  <2> QED
    BY <2>1, <2>2
<1>10. Border = CHOOSE g : Is(g)
  BY Zenon DEF Border
<1>11. Is(Border)
  BY <1>9, <1>10, Zenon
<1> DEFINE V == {n \in Nat : Border[n] = all[n]}
<1>12. 0 \in V
  BY <1>7, <1>11
<1>13. ASSUME NEW n \in Nat, n \in V PROVE n + 1 \in V
  <2>1. PICK k \in Nat : k = n + 1 /\ k # 0 /\ k - 1 = n
    OBVIOUS
  <2>2. Border[k] = 10 * Border[n]
    BY <1>11, <2>1
  <2> QED
    BY <1>8, <1>13, <2>1, <2>2
<1> HIDE DEF V
<1>14. Nat \subseteq V
  BY <1>12, <1>13, AllNumbers
<1>15. \A n \in Nat : Border[n] = all[n]
  BY <1>14 DEF V
<1>16. Border \in [Nat -> Nat]
  <2>1. Border = [n \in Nat |-> Border[n]]
    BY <1>11
  <2>2. \A n \in Nat : Border[n] \in Nat
    BY <1>6, <1>15
  <2> QED
    BY <2>1, <2>2
<1>17. Border[0] = MinBorder
  BY <1>7, <1>15
<1>18. \A n \in Nat : Border[n + 1] = 10 * Border[n]
  BY <1>8, <1>15
<1> QED
  BY <1>16, <1>17, <1>18 DEF BorderFacts

LEMMA BordersGrow ==
    /\ \A n \in Nat : Border[n] \in Nat /\ n < Border[n]
    /\ \A i, k \in Nat : i <= k => Border[i] <= Border[k]
<1> DEFINE T == {n \in Nat : n < Border[n]}
<1>1. BorderFacts
  BY BordersMultiply
<1>2. \A n \in Nat : Border[n] \in Nat /\ Border[n + 1] = 10 * Border[n]
  BY <1>1 DEF BorderFacts
<1>3. 0 \in T
  BY <1>1, BalanceAssumption DEF BorderFacts
<1>4. ASSUME NEW n \in Nat, n \in T PROVE n + 1 \in T
  <2>1. PICK b \in Nat : b = Border[n]
    BY <1>2
  <2>2. PICK c \in Nat : c = Border[n + 1]
    BY <1>2
  <2>3. n < b /\ c = 10 * b
    BY <1>2, <1>4, <2>1, <2>2
  <2>4. n + 1 < c
    BY <2>3
  <2> QED
    BY <2>2, <2>4
<1> HIDE DEF T
<1>5. Nat \subseteq T
  BY <1>3, <1>4, AllNumbers
<1>6. ASSUME NEW i \in Nat PROVE \A k \in Nat : i <= k => Border[i] <= Border[k]
  <2> DEFINE U == {k \in Nat : i <= k => Border[i] <= Border[k]}
  <2>1. 0 \in U
    BY <1>2
  <2>2. ASSUME NEW k \in Nat, k \in U PROVE k + 1 \in U
    <3> SUFFICES ASSUME i <= k + 1 PROVE Border[i] <= Border[k + 1]
      OBVIOUS
    <3>1. CASE i = k + 1
      BY <1>2, <3>1
    <3>2. CASE i # k + 1
      <4>1. PICK b \in Nat : b = Border[k]
        BY <1>2
      <4>2. PICK c \in Nat : c = Border[k + 1]
        BY <1>2
      <4>3. PICK d \in Nat : d = Border[i]
        BY <1>2
      <4>4. c = 10 * b
        BY <1>2, <4>1, <4>2
      <4>5. i <= k
        BY <3>2
      <4>6. d <= b
        BY <2>2, <4>1, <4>3, <4>5
      <4>7. d <= c
        BY <4>4, <4>6
      <4> QED
        BY <4>2, <4>3, <4>7
    <3> QED
      BY <3>1, <3>2
  <2> HIDE DEF U
  <2>3. Nat \subseteq U
    BY <2>1, <2>2, AllNumbers
  <2> QED
    BY <2>3 DEF U
<1>7. \A n \in Nat : n < Border[n]
  BY <1>5 DEF T
<1> QED
  BY <1>2, <1>6, <1>7

\* The loop over the borders ends, at the first one above the largest balance.
LEMMA BordersEnd ==
    ASSUME NEW top \in Nat
    PROVE  BordersUpTo(top) \in Nat /\ top < Border[BordersUpTo(top)]
<1> DEFINE U == {n \in Nat : top < Border[n]}
<1>1. U \in SUBSET Nat /\ top \in U
  BY BordersGrow
<1>2. PICK n \in U : \A k \in U : n <= k
  BY <1>1, LeastOf
<1>3. n \in 0..top
  BY <1>1, <1>2
<1>4. CASE n = 0
  <2>1. n \in 0..top /\ top < Border[n] /\ (n = 0 \/ Border[n - 1] <= top)
    BY <1>2, <1>3, <1>4
  <2> QED
    BY <2>1 DEF BordersUpTo
<1>5. CASE n # 0
  <2>1. n - 1 \in Nat /\ n - 1 \notin U
    BY <1>2, <1>3, <1>5
  <2>2. PICK b \in Nat : b = Border[n - 1]
    BY <2>1, BordersGrow
  <2>3. b <= top
    BY <2>1, <2>2
  <2>4. n \in 0..top /\ top < Border[n] /\ (n = 0 \/ Border[n - 1] <= top)
    BY <1>2, <1>3, <2>2, <2>3
  <2> QED
    BY <2>4 DEF BordersUpTo
<1> QED
  BY <1>4, <1>5

\* A row is there only for a balance that is not zero.
ShownRows == \A a \in Addresses : row[a] # 0 => Amount[row[a]][a] # 0

\* The intervals ivs count each of these rows once.
SumsOK(ivs, r) ==
    /\ CountsOf(ivs, DOMAIN ivs) = Cardinality(Holders(r))
    /\ SumsOf(ivs, DOMAIN ivs) = HadOf(r, Holders(r))

LEMMA HoldersFinite == \A r : \A S \in SUBSET Holders(r) : IsFiniteSet(S)
BY BalanceAssumption, FS_Subset DEF Holders

LEMMA HadTyped ==
    ASSUME NEW r \in [Addresses -> Balances]
    PROVE  \A a \in Holders(r) : Has(r, a) \in Nat
<1> SUFFICES ASSUME NEW a \in Holders(r) PROVE Has(r, a) \in Nat
  OBVIOUS
<1>1. a \in Addresses /\ r[a] \in Blocks
  BY BalanceAssumption DEF Holders, Balances, Blocks
<1>2. Amount[r[a]] \in [Addresses -> Nat]
  BY <1>1, BalanceAssumption
<1> QED
  BY <1>1, <1>2 DEF Has

LEMMA NoRows ==
    ASSUME NEW r, Holders(r) = {}
    PROVE  SumsOK(<<>>, r)
<1> DEFINE nothing == {}
           w == [i \in nothing |-> 0]
<1>1. w \in [nothing -> Nat] /\ IsFiniteSet(nothing) /\ Cardinality(nothing) = 0
  BY FS_EmptySet
<1>2. PICK ivs : ivs = <<>>
  OBVIOUS
<1>3. /\ \A i \in nothing : w[i] = ivs[i].count
      /\ \A i \in nothing : w[i] = ivs[i].sum
      /\ \A i \in nothing : w[i] = Has(r, i)
  OBVIOUS
<1>4. \A it : IsSum(it, w, nothing) => it[nothing] = 0
  BY DEF IsSum
<1>5. DOMAIN ivs = nothing /\ Holders(r) = nothing
  BY <1>2
<1> HIDE DEF w, nothing
<1>6. CountsOf(ivs, nothing) = 0
  BY <1>1, <1>3, <1>4, SumOfCounts
<1>7. SumsOf(ivs, nothing) = 0
  BY <1>1, <1>3, <1>4, SumOfSums
<1>8. HadOf(r, nothing) = 0
  BY <1>1, <1>3, <1>4, SumOfHad
<1> QED
  BY <1>1, <1>2, <1>5, <1>6, <1>7, <1>8 DEF SumsOK

\* Counting is a measure.
LEMMA CountAdds ==
    ASSUME NEW S, IsFiniteSet(S), NEW m, m = [s \in SUBSET S |-> Cardinality(s)]
    PROVE  Additive(m, S)
<1>1. \A s \in SUBSET S : IsFiniteSet(s) /\ Cardinality(s) \in Nat
  BY FS_Subset, FS_CardinalityType
<1>2. ASSUME NEW q \in SUBSET S, NEW s \in SUBSET S, q \cap s = {}
      PROVE  Cardinality(q \cup s) = Cardinality(q) + Cardinality(s)
  <2>1. Cardinality(q \cup s) = Cardinality(q) + Cardinality(s) - Cardinality(q \cap s)
    BY <1>1, FS_Union
  <2>2. Cardinality(q \cap s) = 0
    BY <1>2, FS_EmptySet
  <2> QED
    BY <1>1, <2>1, <2>2
<1> QED
  BY <1>1, <1>2, FS_EmptySet DEF Additive

LEMMA MakeIntervalsOK ==
    ASSUME row \in [Addresses -> Balances], ShownRows, MakeIntervals
    PROVE  SumsOK(intervals', row)
<1> DEFINE R == Holders(row)
           w == [a \in R |-> Has(row, a)]
<1>1. /\ Rows = R /\ IsFiniteSet(R) /\ R \subseteq Addresses
      /\ \A S \in SUBSET R : IsFiniteSet(S)
  BY HoldersFinite DEF Holders, Rows
<1>2. \A a \in R : AmountOf(a) = Has(row, a) /\ Has(row, a) \in Nat \ {0}
  BY HadTyped DEF AmountOf, Has, ShownRows, Holders
<1>3. w \in [R -> Nat] /\ \A a \in R : w[a] = Has(row, a)
  BY <1>2
<1>4. CASE R = {}
  <2>1. intervals' = <<>>
    BY <1>1, <1>4 DEF MakeIntervals
  <2> QED
    BY <1>4, <2>1, NoRows
<1>5. CASE R # {}
  <2> DEFINE top == Max({AmountOf(a) : a \in Rows})
             N == BordersUpTo(top) + 1
             lo == [i \in 1..N |-> IF i = 1 THEN 0 ELSE Border[i - 2]]
             hi == [i \in 1..N |-> Border[i - 1]]
             part == [i \in 1..N |-> Within(lo[i], hi[i])]
  <2>1. PICK it : IsSum(it, w, R) /\ HadOf(row, R) = it[R]
    <3> HIDE DEF w, R
    <3> QED
      BY <1>1, <1>3, SumOfHad
  <2>2. it \in [SUBSET R -> Nat] /\ it[{}] = 0 /\ TakesAny(it, w, R) /\ Additive(it, R)
    <3> HIDE DEF w, R
    <3> QED
      BY <1>1, <1>3, <2>1, SumTyped, SumTakes, SumJoins
  <2>3. top \in Nat /\ \A a \in R : Has(row, a) <= top
    <3>1. ASSUME NEW a \in R PROVE Has(row, a) \in 1..it[R]
      <4>1. it[R] = w[a] + it[R \ {a}]
        BY <2>2 DEF TakesAny
      <4>2. it[R] \in Nat /\ it[R \ {a}] \in Nat /\ Has(row, a) \in Nat \ {0}
        BY <1>2, <2>2
      <4> QED
        BY <1>3, <4>1, <4>2
    <3> DEFINE V == {AmountOf(a) : a \in Rows}
    <3>2. PICK n \in Nat : n = it[R]
      BY <2>2
    <3>3. V \in SUBSET (1..n) /\ V # {}
      BY <1>1, <1>2, <1>5, <3>1, <3>2
    <3>4. \A a \in R : Has(row, a) \in V
      BY <1>1, <1>2
    <3>5. top = Max(V)
      OBVIOUS
    <3> HIDE DEF V, top
    <3>6. Max(V) \in V /\ \A y \in V : Max(V) >= y
      BY <3>3, GreatestOf
    <3>7. \A y \in V : y \in Nat
      BY <3>3
    <3> QED
      BY <3>4, <3>5, <3>6, <3>7
  <2>4. /\ N \in Nat \ {0} /\ top < Border[N - 1]
        /\ intervals' = [i \in 1..N |-> Interval(i - 1)]
    <3>1. intervals' = [i \in 1..N |-> Interval(i - 1)]
      BY <1>1, <1>5 DEF MakeIntervals
    <3> HIDE DEF top
    <3>2. BordersUpTo(top) \in Nat /\ top < Border[BordersUpTo(top)]
      BY <2>3, BordersEnd
    <3>3. N - 1 = BordersUpTo(top)
      BY <3>2
    <3> QED
      BY <3>1, <3>2, <3>3
  <2> HIDE DEF top, N
  <2>5. PICK n \in Nat \ {0} : n = N
    BY <2>4
  <2>6. /\ \A i \in 1..n : part[i] = {a \in R : lo[i] < Has(row, a) /\ Has(row, a) <= hi[i]}
        /\ part \in [1..n -> SUBSET R]
    BY <1>1, <1>2, <2>5 DEF Within
  <2>7. \A i \in 1..n : lo[i] \in Nat /\ hi[i] \in Nat
    <3> SUFFICES ASSUME NEW i \in 1..n PROVE lo[i] \in Nat /\ hi[i] \in Nat
      OBVIOUS
    <3>1. i - 1 \in Nat /\ (i # 1 => i - 2 \in Nat)
      OBVIOUS
    <3> QED
      BY <2>5, <3>1, BordersGrow
  <2>8. \A i, k \in 1..n : i < k => hi[i] <= lo[k]
    <3> SUFFICES ASSUME NEW i \in 1..n, NEW k \in 1..n, i < k PROVE hi[i] <= lo[k]
      OBVIOUS
    <3>1. i - 1 \in Nat /\ k - 2 \in Nat /\ i - 1 <= k - 2 /\ k # 1
      OBVIOUS
    <3> QED
      BY <2>5, <3>1, BordersGrow
  <2>9. \A i, k \in 1..n : i < k => part[i] \cap part[k] = {}
    <3> SUFFICES ASSUME NEW i \in 1..n, NEW k \in 1..n, i < k, NEW a \in R, a \in part[i], a \in part[k]
                 PROVE  FALSE
      BY <2>6
    <3>1. Has(row, a) \in Nat /\ Has(row, a) <= hi[i] /\ lo[k] < Has(row, a)
      <4>1. Has(row, a) \in Nat
        BY <1>2
      <4>2. /\ part[i] = {b \in R : lo[i] < Has(row, b) /\ Has(row, b) <= hi[i]}
            /\ part[k] = {b \in R : lo[k] < Has(row, b) /\ Has(row, b) <= hi[k]}
        BY <2>6, Zenon
      <4> HIDE DEF part, lo, hi, R
      <4> QED
        BY <4>1, <4>2
    <3>2. lo[k] \in Nat /\ hi[i] \in Nat /\ hi[i] <= lo[k]
      BY <2>7, <2>8
    <3> QED
      BY <3>1, <3>2
  <2>10. \A a \in R : \E i \in 1..n : a \in part[i]
    <3> SUFFICES ASSUME NEW a \in R PROVE \E i \in 1..n : a \in part[i]
      OBVIOUS
    <3> DEFINE U == {k \in 1..n : Has(row, a) <= hi[k]}
    <3>1. n \in U
      <4>1. n \in 1..n /\ hi[n] = Border[n - 1] /\ hi[n] \in Nat
        BY <2>5, <2>7
      <4>2. top < hi[n]
        BY <2>4, <2>5, <4>1
      <4>3. Has(row, a) \in Nat /\ Has(row, a) <= top
        BY <1>2, <2>3
      <4>4. Has(row, a) <= hi[n]
        BY <2>3, <4>1, <4>2, <4>3
      <4> QED
        BY <4>1, <4>4
    <3>2. PICK k \in U : \A l \in U : k <= l
      <4>2. U \subseteq 1..n /\ 1..n \subseteq Nat
        <5>1. U \subseteq 1..n
          OBVIOUS
        <5> HIDE DEF U
        <5> QED
          BY <2>5, <5>1
      <4> HIDE DEF U
      <4>1. U \in SUBSET Nat /\ U # {}
        BY <3>1, <4>2
      <4> QED
        BY <4>1, LeastOf
    <3>3. Has(row, a) \in Nat \ {0}
      BY <1>2
    <3>4. lo[k] < Has(row, a)
      <4>1. CASE k = 1
        BY <2>5, <3>2, <3>3, <4>1
      <4>2. CASE k # 1
        <5>1. PICK l \in 1..n : l = k - 1
          BY <3>2, <4>2
        <5>2. l \notin U
          <6>1. k \in 1..n
            BY <3>2
          <6>2. ~(k <= l)
            BY <5>1, <6>1
          <6> HIDE DEF U
          <6> QED
            BY <3>2, <6>2, Zenon
        <5>3. lo[k] = hi[l]
          BY <2>5, <3>2, <4>2, <5>1
        <5>4. hi[l] \in Nat /\ ~(Has(row, a) <= hi[l])
          BY <2>7, <5>2
        <5> QED
          BY <3>3, <5>3, <5>4
      <4> QED
        BY <4>1, <4>2
    <3>5. k \in 1..n /\ a \in part[k]
      BY <2>6, <3>2, <3>4
    <3> QED
      BY <3>5
  <2>11. \A i \in 1..n : /\ intervals'[i].count = Cardinality(part[i])
                         /\ intervals'[i].sum = it[part[i]]
    <3> SUFFICES ASSUME NEW i \in 1..n
                 PROVE  /\ intervals'[i].count = Cardinality(part[i])
                        /\ intervals'[i].sum = it[part[i]]
      OBVIOUS
    <3>1. PICK S \in SUBSET R : S = part[i]
      BY <2>6
    <3>2. Within(IF i - 1 = 0 THEN 0 ELSE Border[(i - 1) - 1], Border[i - 1]) = S
      <4>1. i - 1 = 0 <=> i = 1
        OBVIOUS
      <4>2. (i - 1) - 1 = i - 2
        OBVIOUS
      <4> QED
        BY <2>5, <3>1, <4>1, <4>2
    <3>3. intervals'[i] = Interval(i - 1)
      BY <2>4, <2>5
    <3>4. Interval(i - 1).count = Cardinality(S) /\ Interval(i - 1).sum = MapThenSumSet(AmountOf, S)
      BY <3>2 DEF Interval
    <3>5. MapThenSumSet(AmountOf, S) = HadOf(row, S)
      BY Zenon DEF HadOf, MapThenSumSet, MapThenFoldSet, AmountOf, Has
    <3>6. HadOf(row, S) = it[S]
      <4> DEFINE u == [a \in S |-> w[a]]
      <4>1. u \in [S -> Nat] /\ \A a \in S : u[a] = Has(row, a) /\ u[a] = w[a]
        BY <1>3
      <4> HIDE DEF u, w, R
      <4>2. PICK jt : IsSum(jt, u, S) /\ HadOf(row, S) = jt[S]
        BY <1>1, <4>1, SumOfHad
      <4>3. jt[S] = it[S]
        BY <1>1, <2>1, <4>1, <4>2, SumAgrees
      <4> QED
        BY <4>2, <4>3
    <3> QED
      BY <3>1, <3>3, <3>4, <3>5, <3>6
  <2>12. DOMAIN intervals' = 1..n
    BY <2>4, <2>5
  <2>13. PICK ivs : ivs = intervals'
    OBVIOUS
  <2>17. PICK parts : parts = part
    OBVIOUS
  <2> HIDE DEF part
  <2>18. Partition(parts, R, n)
    BY <2>6, <2>9, <2>10, <2>17 DEF Partition
  <2>19. \A i \in 1..n : /\ ivs[i].count = Cardinality(parts[i]) /\ ivs[i].sum = it[parts[i]]
                         /\ parts[i] \in SUBSET R
    BY <2>6, <2>11, <2>13, <2>17
  <2>14. IsFiniteSet(1..n)
    <3>1. 1 \in Int /\ n \in Int
      OBVIOUS
    <3> QED
      BY <3>1, FS_Interval
  <2>15. CountsOf(ivs, 1..n) = Cardinality(R)
    <3>1. PICK m : m = [s \in SUBSET R |-> Cardinality(s)]
      OBVIOUS
    <3>2. Additive(m, R)
      <4> HIDE DEF R
      <4> QED
        BY <1>1, <3>1, CountAdds
    <3>3. PICK v \in [1..n -> Nat] : Measures(v, m, parts, n)
      <4>1. [i \in 1..n |-> m[parts[i]]] \in [1..n -> Nat]
        BY <2>19, <3>2 DEF Additive
      <4> QED
        BY <4>1 DEF Measures
    <3>4. \A i \in 1..n : v[i] = ivs[i].count
      <4> SUFFICES ASSUME NEW i \in 1..n PROVE v[i] = ivs[i].count
        OBVIOUS
      <4>1. PICK S \in SUBSET R : S = parts[i]
        BY <2>19
      <4>2. v[i] = m[S] /\ m[S] = Cardinality(S)
        BY <3>1, <3>3, <4>1 DEF Measures
      <4> QED
        BY <2>19, <4>1, <4>2
    <3> HIDE DEF R
    <3>5. PICK jt : IsSum(jt, v, 1..n) /\ CountsOf(ivs, 1..n) = jt[1..n]
      <4>1. PICK S : S = 1..n
        OBVIOUS
      <4>2. IsFiniteSet(S) /\ v \in [S -> Nat] /\ \A i \in S : v[i] = ivs[i].count
        BY <2>14, <3>4, <4>1
      <4>3. \E jt : IsSum(jt, v, S) /\ CountsOf(ivs, S) = jt[S]
        BY <4>2, SumOfCounts
      <4> QED
        BY <4>1, <4>3, Zenon
    <3>7. n \in Nat
      OBVIOUS
    <3>6. jt[1..n] = m[R]
      BY <1>1, <2>18, <3>2, <3>3, <3>5, <3>7, SumOfParts
    <3> QED
      BY <3>1, <3>5, <3>6
  <2>16. SumsOf(ivs, 1..n) = HadOf(row, R)
    <3>1. PICK v \in [1..n -> Nat] : Measures(v, it, parts, n)
      <4>1. [i \in 1..n |-> it[parts[i]]] \in [1..n -> Nat]
        BY <2>2, <2>19
      <4> QED
        BY <4>1 DEF Measures
    <3>2. \A i \in 1..n : v[i] = ivs[i].sum
      BY <2>19, <3>1 DEF Measures
    <3> HIDE DEF R, w
    <3>3. PICK jt : IsSum(jt, v, 1..n) /\ SumsOf(ivs, 1..n) = jt[1..n]
      <4>1. PICK S : S = 1..n
        OBVIOUS
      <4>2. IsFiniteSet(S) /\ v \in [S -> Nat] /\ \A i \in S : v[i] = ivs[i].sum
        BY <2>14, <3>2, <4>1
      <4>3. \E jt : IsSum(jt, v, S) /\ SumsOf(ivs, S) = jt[S]
        BY <4>2, SumOfSums
      <4> QED
        BY <4>1, <4>3, Zenon
    <3>4. jt[1..n] = it[R]
      BY <1>1, <2>2, <2>18, <3>1, <3>3, SumOfParts
    <3> QED
      BY <2>1, <3>3, <3>4
  <2> QED
    BY <2>12, <2>13, <2>15, <2>16 DEF SumsOK
<1> QED
  BY <1>4, <1>5

-----------------------------------------------------------------------------
(* The richest, and the lists together. *)

\* The list has balances of these rows, and leaves out no row with more than one of it.
RichestOK(list, r) ==
    /\ \A i \in DOMAIN list : list[i].address \in Holders(r)
                              /\ list[i].balance = Has(r, list[i].address)
    /\ \A a \in Holders(r) : \/ \E i \in DOMAIN list : list[i].address = a
                             \/ /\ Len(list) = Limit
                                /\ \A i \in DOMAIN list : list[i].balance >= Has(r, a)

LEMMA MakeRichestOK ==
    ASSUME row \in [Addresses -> Balances], MakeRichest
    PROVE  RichestOK(richest', row)
<1> DEFINE R == Holders(row)
           Ranks(s, m, T) ==
             /\ s \in [1..m -> T]
             /\ \A i \in 1..m, a \in T :
                  (\A k \in 1..i : s[k] # a) => AmountOf(s[i]) >= AmountOf(a)
             /\ \A i, k \in 1..m : s[i] = s[k] => i = k
             /\ richest' = [i \in 1..m |-> [address |-> s[i], balance |-> AmountOf(s[i])]]
<1>1. /\ Rows = R /\ IsFiniteSet(R)
      /\ \A a \in R : AmountOf(a) = Has(row, a) /\ Has(row, a) \in Nat
  BY HoldersFinite, HadTyped DEF Holders, Rows, AmountOf, Has
<1>2. PICK c \in Nat : c = Cardinality(R)
  BY <1>1, FS_CardinalityType
<1>3. Limit \in Nat
  BY BalanceAssumption
<1>4. PICK n \in Nat : n = Min({Limit, Cardinality(Rows)}) /\ (n = Limit \/ n = c) /\ n <= c
  <2>1. \E x \in {Limit, c} : \A y \in {Limit, c} : x <= y
    BY <1>3
  <2>2. Min({Limit, c}) \in {Limit, c} /\ \A y \in {Limit, c} : Min({Limit, c}) <= y
    BY <2>1 DEF Min
  <2> QED
    BY <1>1, <1>2, <1>3, <2>2
<1>5. PICK s : Ranks(s, n, R)
  <2>1. PICK m : m = Min({Limit, Cardinality(Rows)})
    OBVIOUS
  <2>2. \E s : Ranks(s, m, Rows)
    BY <2>1, Zenon DEF MakeRichest
  <2>3. m = n /\ Rows = R
    BY <1>1, <1>4, <2>1
  <2> HIDE DEF R, Ranks
  <2> QED
    BY <2>2, <2>3
<1>10. s \in [1..n -> R] /\ \A i \in 1..n : s[i] \in R
  <2>1. s \in [1..n -> R]
    BY <1>5
  <2> HIDE DEF R, Ranks
  <2> QED
    BY <2>1
<1>6. PICK list : list = richest'
  OBVIOUS
<1>7. /\ DOMAIN list = 1..n /\ Len(list) = n
      /\ \A i \in 1..n : list[i].address = s[i] /\ list[i].balance = Has(row, s[i]) /\ s[i] \in R
  <2>1. list = [i \in 1..n |-> [address |-> s[i], balance |-> AmountOf(s[i])]]
    BY <1>5, <1>6
  <2>2. DOMAIN list = 1..n /\ \A i \in 1..n : list[i].address = s[i] /\ list[i].balance = AmountOf(s[i])
    BY <2>1
  <2>3. list \in Seq({list[i] : i \in 1..n}) /\ Len(list) = n
    BY <2>1
  <2> QED
    BY <1>1, <1>10, <2>2, <2>3
<1>8. ASSUME NEW a \in R, \A i \in 1..n : s[i] # a
      PROVE  n = Limit /\ \A i \in 1..n : Has(row, s[i]) >= Has(row, a)
  <2>1. \A i \in 1..n : Has(row, s[i]) >= Has(row, a)
    <3> SUFFICES ASSUME NEW i \in 1..n PROVE Has(row, s[i]) >= Has(row, a)
      OBVIOUS
    <3>1. \A k \in 1..i : s[k] # a
      BY <1>8
    <3>2. s[i] \in R
      BY <1>10
    <3> QED
      BY <1>1, <1>5, <3>1, <3>2
  <2>2. n # c
    <3> SUFFICES ASSUME n = c PROVE FALSE
      OBVIOUS
    <3>1. s \in Injection(1..n, R)
      BY <1>5, <1>10 DEF Injection, IsInjective
    <3>2. Cardinality(1..n) = n
      <4>1. 1 \in Int /\ n \in Int
        OBVIOUS
      <4> QED
        BY <4>1, FS_Interval
    <3> HIDE DEF R
    <3>3. s \in Surjection(1..n, R)
      BY <1>1, <1>2, <3>1, <3>2, FS_Injection
    <3> QED
      BY <1>8, <3>3 DEF Surjection
  <2> QED
    BY <1>4, <2>1, <2>2
<1>9. RichestOK(list, row)
  <2>1. \A i \in DOMAIN list : list[i].address \in R /\ list[i].balance = Has(row, list[i].address)
    BY <1>7
  <2>2. ASSUME NEW a \in R
        PROVE  \/ \E i \in DOMAIN list : list[i].address = a
               \/ /\ Len(list) = Limit
                  /\ \A i \in DOMAIN list : list[i].balance >= Has(row, a)
    <3>1. CASE \E i \in 1..n : s[i] = a
      BY <1>7, <3>1
    <3>2. CASE \A i \in 1..n : s[i] # a
      BY <1>7, <1>8, <3>2
    <3> QED
      BY <3>1, <3>2
  <2> QED
    BY <2>1, <2>2 DEF RichestOK
<1> QED
  BY <1>6, <1>9

\* Between updates the lists are those of the rows; while the second list is made, the
\* first is; and the loop comes to the lists only when the checkpoint has come to the
\* height it was for.
ListsFollowRows ==
    /\ ShownRows
    /\ phase = "richest" => SumsOK(intervals, row)
    /\ phase = "up" /\ step = "richest" => SumsOK(intervals, row)
    /\ phase = "up" /\ step \in {"caches", "richest"} => lastCheckedBlock >= target
    /\ phase = "up" /\ step = "idle" /\ ~stalled =>
         lastCheckedBlock >= lastTipHeight /\ SumsOK(intervals, row) /\ RichestOK(richest, row)

LEMMA ListsSame ==
    ASSUME ListsFollowRows, row' = row, intervals' = intervals, richest' = richest,
           phase' = phase, step' = step, stalled' = stalled,
           lastCheckedBlock' = lastCheckedBlock, lastTipHeight' = lastTipHeight, target' = target
    PROVE  ListsFollowRows'
BY DEF ListsFollowRows, ShownRows

\* The steps after which there is nothing to show: the service is not up, or an update
\* is under way in its blocks or has failed.
LEMMA ListsQuiet ==
    ASSUME ShownRows', phase' # "richest",
           phase' = "up" => step' \notin {"caches", "richest", "idle"} \/ (step' = "idle" /\ stalled')
    PROVE  ListsFollowRows'
BY DEF ListsFollowRows

LEMMA WrittenShown ==
    ASSUME row \in [Addresses -> Balances], answer.balance \in Balances, ShownRows, WriteRow
    PROVE  ShownRows'
<1> SUFFICES ASSUME NEW a \in Addresses, row'[a] # 0 PROVE Amount[row'[a]][a] # 0
  BY DEF ShownRows
<1>1. CASE a = at
  <2>1. row'[a] = Shown(a, answer.balance)
    BY <1>1 DEF WriteRow, Written
  <2> QED
    BY <2>1 DEF Shown, Balances, Blocks
<1>2. CASE a # at
  BY <1>2 DEF WriteRow, Written, ShownRows
<1> QED
  BY <1>1, <1>2

LEMMA UnderWayShown ==
    ASSUME IInv, ShownRows, WriteUnderWay
    PROVE  ShownRows'
<1>1. CASE row' = row
  BY <1>1 DEF ShownRows
<1>2. CASE step = "write" /\ WriteRow
  <2>1. answer \in Entries /\ row \in [Addresses -> Balances]
    BY <1>2 DEF IInv, AnswersInv, AnswerOK, Typed
  <2>2. answer.balance \in Balances
    BY <2>1 DEF Entries
  <2> QED
    BY <1>2, <2>1, <2>2, WrittenShown
<1> QED
  BY <1>1, <1>2 DEF WriteUnderWay, rowVars

LEMMA InitLists == Init => ListsFollowRows
BY DEF Init, ListsFollowRows, ShownRows

LEMMA ListsSteps ==
    ASSUME IInv, ListsFollowRows, IntervalsMade \/ ListsMade \/ CachesUpdated
    PROVE  ListsFollowRows'
<1>1. row \in [Addresses -> Balances] /\ (step # "idle" => phase = "up") /\ ShownRows
      /\ {target, lastCheckedBlock, lastTipHeight} \subseteq Nat
  BY BalanceAssumption DEF IInv, Typed, LoopInv, ListsFollowRows
<1>2. CASE IntervalsMade
  <2>1. /\ row' = row /\ MakeIntervals
        /\ lastCheckedBlock' = lastCheckedBlock /\ target' = target
        /\ \/ phase = "caches" /\ phase' = "richest" /\ step' = step
           \/ step = "caches" /\ step' = "richest" /\ phase' = phase
    BY <1>2 DEF IntervalsMade, rowVars
  <2>2. SumsOK(intervals', row')
    BY <1>1, <2>1, MakeIntervalsOK
  <2>3. ShownRows'
    BY <1>1, <2>1 DEF ShownRows
  <2>4. phase' = "up" => step' = "richest" /\ step = "caches" /\ phase = "up"
    BY <1>1, <2>1
  <2> QED
    BY <2>1, <2>2, <2>3, <2>4 DEF ListsFollowRows
<1>3. CASE ListsMade
  <2>1. /\ row' = row /\ MakeRichest /\ phase' = "up" /\ intervals' = intervals
        /\ lastCheckedBlock' = lastCheckedBlock /\ Proceed(lastCheckedBlock, lastTipHeight)
    BY <1>3 DEF ListsMade, rowVars
  <2>2. step' \in {"block", "caches"} /\ (step' = "caches" => lastCheckedBlock' >= target')
    BY <1>1, <2>1 DEF Proceed
  <2>3. ShownRows'
    BY <1>1, <2>1 DEF ShownRows
  <2> QED
    BY <2>1, <2>2, <2>3 DEF ListsFollowRows
<1>4. CASE CachesUpdated
  <2>1. /\ step = "richest" /\ row' = row /\ MakeRichest /\ phase' = phase /\ intervals' = intervals
        /\ lastCheckedBlock' = lastCheckedBlock /\ lastTipHeight' = lastTipHeight
        /\ IF lastTipHeight # target
           THEN Proceed(lastCheckedBlock, lastTipHeight)
           ELSE step' = "idle" /\ target' = target
    BY <1>4 DEF CachesUpdated, rowVars
  <2>2. ShownRows'
    BY <1>1, <2>1 DEF ShownRows
  <2>3. SumsOK(intervals', row') /\ lastCheckedBlock >= target /\ phase' = "up"
    BY <1>1, <2>1 DEF ListsFollowRows
  <2>4. RichestOK(richest', row')
    BY <1>1, <2>1, MakeRichestOK
  <2>5. CASE lastTipHeight # target
    <3>1. step' \in {"block", "caches"} /\ (step' = "caches" => lastCheckedBlock' >= target')
      BY <1>1, <2>1, <2>5 DEF Proceed
    <3> QED
      BY <2>2, <2>3, <3>1 DEF ListsFollowRows
  <2>6. CASE lastTipHeight = target
    BY <2>1, <2>2, <2>3, <2>4, <2>6 DEF ListsFollowRows
  <2> QED
    BY <2>5, <2>6
<1> QED
  BY <1>2, <1>3, <1>4

LEMMA ListsNext == IInv /\ ListsFollowRows /\ [Next]_vars => ListsFollowRows'
<1> SUFFICES ASSUME IInv, ListsFollowRows, [Next]_vars PROVE ListsFollowRows'
  OBVIOUS
<1>0. /\ row \in [Addresses -> Balances] /\ (step # "idle" => phase = "up") /\ ShownRows
      /\ {target, cursor, lastCheckedBlock, lastTipHeight} \subseteq Nat
  BY BalanceAssumption DEF IInv, Typed, LoopInv, ListsFollowRows
<1>1. ASSUME \/ NewBlock \/ Reorganise \/ (\E b \in 1..made : UpdateTip(b))
             \/ \E a \in Addresses : ApiAsks(a) \/ NodeAnswersApi(a) \/ ApiAnswered(a)
             \/ UNCHANGED vars
      PROVE  ListsFollowRows'
  <2>1. UNCHANGED <<row, intervals, richest, phase, step, stalled, lastCheckedBlock,
                    lastTipHeight, target>>
    BY <1>1 DEF NewBlock, Reorganise, UpdateTip, ApiAsks, NodeAnswersApi, ApiAnswered, vars,
                loopVars, rowVars, listVars
  <2> QED
    BY <2>1, ListsSame
<1>2. ASSUME Start \/ StartFails \/ GetLastBlock \/ GetInfo PROVE ListsFollowRows'
  <2>1. row' = row /\ phase' \in {"load", "failed", "info", "caches"}
    BY <1>2 DEF Start, StartFails, GetLastBlock, GetInfo, rowVars
  <2>2. ShownRows'
    BY <1>0, <2>1 DEF ShownRows
  <2> QED
    BY <2>1, <2>2, ListsQuiet
<1>3. ASSUME IntervalsMade \/ ListsMade \/ CachesUpdated PROVE ListsFollowRows'
  BY <1>3, ListsSteps
<1>4. ASSUME NEW height \in Blocks, Tip(height) PROVE ListsFollowRows'
  <2>1. /\ row' = row /\ intervals' = intervals /\ phase = "up" /\ phase' = phase
        /\ lastCheckedBlock' = lastCheckedBlock
        /\ IF step # "idle" THEN target' = target /\ step' = step
           ELSE Proceed(lastCheckedBlock, height)
    BY <1>4 DEF Tip, rowVars, listVars
  <2>2. ShownRows'
    BY <1>0, <2>1 DEF ShownRows
  <2>3. CASE step # "idle"
    BY <2>1, <2>2, <2>3 DEF ListsFollowRows
  <2>4. CASE step = "idle"
    <3>1. height \in Nat
      BY DEF Blocks
    <3>2. step' \in {"block", "caches"} /\ (step' = "caches" => lastCheckedBlock' >= target')
      BY <1>0, <2>1, <2>4, <3>1 DEF Proceed
    <3> QED
      BY <2>1, <2>2, <3>2 DEF ListsFollowRows
  <2> QED
    BY <2>3, <2>4
<1>5. ASSUME \/ GetBlock \/ (\E a \in Addresses : GetBalance(a)) \/ NodeAnswers \/ BalanceAnswered
      PROVE  ListsFollowRows'
  <2>1. row' = row /\ phase' = "up" /\ step' \in Working
    BY <1>0, <1>5 DEF GetBlock, GetBalance, NodeAnswers, BalanceAnswered, rowVars, Working
  <2>2. ShownRows'
    BY <1>0, <2>1 DEF ShownRows
  <2> QED
    BY <2>1, <2>2, ListsQuiet DEF Working
<1>6. ASSUME RowWritten PROVE ListsFollowRows'
  <2>1. step = "write" /\ WriteRow /\ phase' = "up" /\ step' \in {"save", "next"}
    BY <1>0, <1>6 DEF RowWritten
  <2>2. answer.balance \in Balances
    BY <2>1 DEF IInv, AnswersInv, AnswerOK, Entries
  <2>3. ShownRows'
    BY <1>0, <2>1, <2>2, WrittenShown
  <2> QED
    BY <2>1, <2>3, ListsQuiet
<1>7. ASSUME Save PROVE ListsFollowRows'
  <2>1. /\ row' = row /\ phase' = "up" /\ lastCheckedBlock' = cursor /\ Proceed(cursor, target)
    BY <1>0, <1>7 DEF Save, rowVars
  <2>2. ShownRows'
    BY <1>0, <2>1 DEF ShownRows
  <2>3. step' \in {"block", "caches"} /\ (step' = "caches" => lastCheckedBlock' >= target')
    BY <1>0, <2>1 DEF Proceed
  <2> QED
    BY <2>1, <2>2, <2>3 DEF ListsFollowRows
<1>8. ASSUME LoopFails \/ Crash PROVE ListsFollowRows'
  <2>1. ShownRows'
    BY <1>0, <1>8, UnderWayShown DEF LoopFails, Crash
  <2>2. (phase' = "up" /\ step' = "idle" /\ stalled') \/ phase' = "down"
    BY <1>8 DEF LoopFails, Crash
  <2> QED
    BY <2>1, <2>2, ListsQuiet
<1> QED
  BY <1>1, <1>2, <1>3, <1>4, <1>5, <1>6, <1>7, <1>8 DEF Next

\* Between updates, unless the last one ended with an error, the intervals count every
\* row once and sum up all balances, and the list of the richest leaves out no address
\* that has more than one of it, at the highest tip the service heard of.
THEOREM ListsShowTheRows == Spec => []ListsAreCurrent
<1>1. Init => IInv /\ ListsFollowRows
  BY InitIInv, InitLists
<1>2. IInv /\ ListsFollowRows /\ [Next]_vars => (IInv /\ ListsFollowRows)'
  BY NextIInv, ListsNext
<1>3. IInv /\ ListsFollowRows => ListsAreCurrent
  <2> SUFFICES ASSUME ListsFollowRows, phase = "up", step = "idle", ~stalled
               PROVE  /\ lastCheckedBlock >= lastTipHeight
                      /\ MapThenSumSet(LAMBDA i : intervals[i].count, DOMAIN intervals)
                           = Cardinality(Rows)
                      /\ MapThenSumSet(LAMBDA i : intervals[i].sum, DOMAIN intervals)
                           = MapThenSumSet(AmountOf, Rows)
                      /\ \A i \in DOMAIN richest :
                           /\ richest[i].address \in Rows
                           /\ richest[i].balance = AmountOf(richest[i].address)
                      /\ \A a \in Rows :
                           \/ \E i \in DOMAIN richest : richest[i].address = a
                           \/ /\ Len(richest) = Limit
                              /\ \A i \in DOMAIN richest : richest[i].balance >= AmountOf(a)
    BY Zenon DEF ListsAreCurrent
  <2>1. lastCheckedBlock >= lastTipHeight /\ SumsOK(intervals, row) /\ RichestOK(richest, row)
    BY DEF ListsFollowRows
  <2>2. Rows = Holders(row) /\ \A a : AmountOf(a) = Has(row, a)
    BY DEF Rows, Holders, AmountOf, Has
  <2>3. MapThenSumSet(LAMBDA i : intervals[i].count, DOMAIN intervals) = Cardinality(Rows)
    BY <2>1, <2>2, Zenon DEF SumsOK, CountsOf
  <2>4. MapThenSumSet(LAMBDA i : intervals[i].sum, DOMAIN intervals) = HadOf(row, Rows)
    BY <2>1, <2>2, Zenon DEF SumsOK, SumsOf
  <2>5. HadOf(row, Rows) = MapThenSumSet(AmountOf, Rows)
    BY Zenon DEF HadOf, MapThenSumSet, MapThenFoldSet, AmountOf, Has
  <2>6. /\ \A i \in DOMAIN richest : richest[i].address \in Rows
                                     /\ richest[i].balance = AmountOf(richest[i].address)
        /\ \A a \in Rows : \/ \E i \in DOMAIN richest : richest[i].address = a
                           \/ /\ Len(richest) = Limit
                              /\ \A i \in DOMAIN richest : richest[i].balance >= AmountOf(a)
    BY <2>1, <2>2 DEF RichestOK
  <2> QED
    BY <2>1, <2>3, <2>4, <2>5, <2>6, Zenon
<1> QED
  BY <1>1, <1>2, <1>3, PTL DEF Spec
=============================================================================
