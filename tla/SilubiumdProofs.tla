-------------------------- MODULE SilubiumdProofs --------------------------
(***************************************************************************)
(* Proofs about the silubiumd service.                                     *)
(*                                                                         *)
(* First, that the answers about an address, joined of two lists or of     *)
(* three figures, some from caches, agree with each other and with the     *)
(* node but for what moved between their makings; for every number of      *)
(* transactions, blocks and calls.  The argument is of the chain at every  *)
(* best block there was: the steps of the node extend such a history, and  *)
(* every list and figure is of one entry of it.                            *)
(*                                                                         *)
(* Then, about TipUpdate, for every set of processes, every sequence of    *)
(* best blocks with their heights and every bound: the state is well       *)
(* typed, a block the service remembers is not reported again, and the two *)
(* ways the tracked tip and height settle.                                 *)
(***************************************************************************)
EXTENDS AddressLists, AddressSummary, TipUpdate, SequenceTheorems, FiniteSetTheorems, TLAPS

-----------------------------------------------------------------------------
(* Answers about an address. *)

\* What a transaction of txs spends is in txs.
Closed(txs) == \A t \in txs : Ready(t, txs)

\* No transaction is in two blocks, and each comes with or after what it spends.
Ordered(blocks) ==
    /\ \A h, k \in DOMAIN blocks : h # k => blocks[h] \cap blocks[k] = {}
    /\ \A h \in DOMAIN blocks : \A t \in blocks[h] :
          Spends[t] = 0 \/ \E k \in 1..h : Spends[t] \in blocks[k]

\* Nothing in the chain is pending.
NodeInv == NodeTypeOK /\ Ordered(chain) /\ pool \cap Confirmed = {}

\* H[b] is what was confirmed when b was the best block.
HistoryOK(H) ==
    /\ H \in [0..MaxBlock -> SUBSET Txs]
    /\ H[made] = Confirmed
    /\ \A b \in 0..made : Closed(H[b]) /\ H[b] \subseteq Known
    /\ \A b, c \in 0..made : SymDiff(H[b], H[c]) \subseteq MovedBetween(b, c)

\* What the node lists of what is confirmed.
ListOf(name, txs) ==
    IF name = "utxos" THEN {t \in txs : ~IsSpentBy(t, txs)} ELSE txs

EntryOK(name, entry, H) ==
    /\ entry \in Entries /\ entry.best \in 0..made
    /\ entry.txs = ListOf(name, H[entry.best])
    /\ entry.overtaken = FALSE => tip <= entry.best

\* What is in a cache is of a block not older than the last one that emptied it, or
\* was overtaken.
CachesInv(H) ==
    /\ tip \in 0..made
    /\ cache \in [Caches -> Entries \cup {None}]
    /\ \A name \in Caches : cache[name] # None => EntryOK(name, cache[name], H)

\* A call that has what it asked for has the list of the block since, and what it
\* knew pending or in the chain of the block until.
CallOK(call, H) ==
    /\ call \in CallRecords
    /\ call.mode = "mempool" => call.kind = "txids"
    /\ call.since \in 0..made /\ call.until \in 0..made
    /\ call.known \subseteq Known /\ call.mempool \subseteq Known /\ call.list \subseteq Known
    /\ (call.hit # None \/ call.step = "listed" \/ (call.step = "done" /\ call.mode # "mempool"))
          => call.list = ListOf(call.kind, H[call.since])
    /\ call.mode = "mempool" =>
          /\ call.step \in {"mempool", "done"} /\ call.list = {}
          /\ call.hit = None /\ call.known \cap H[call.since] = {}
    /\ call.step # "mempool" =>
          /\ call.known \subseteq call.mempool \cup H[call.until]
          /\ call.mempool \cap H[call.until] = {}

CallsInv(H) ==
    /\ DOMAIN calls = Calls
    /\ \A c \in Calls : calls[c] # Idle => CallOK(calls[c], H)

ListsInv == NodeInv /\ \E H : HistoryOK(H) /\ CachesInv(H) /\ CallsInv(H)

-----------------------------------------------------------------------------
(* Summaries. *)

FigureOK(figure, H) == figure \in Figures /\ figure.best \in 0..made /\ figure.txs = H[figure.best]

\* What the mempool was with a best block: what the call knew is in it or in the chain.
PendingOK(figure, ids, H) ==
    /\ figure.best \in 0..made
    /\ figure.txs \cap H[figure.best] = {}
    /\ ids \subseteq figure.txs \cup H[figure.best]

SummaryOK(call, H) ==
    /\ call \in SummaryRecords
    /\ call.begun \in 0..made /\ call.known \ call.pending = H[call.begun]
    /\ call.known \subseteq Known
    /\ \A p \in Cached :
          call.step = "done" \/ call.part[p] \in {"made", "done"} => FigureOK(call.figures[p], H)
    /\ call.queryMempool /\ call.part["mempool"] \in {"made", "done"} =>
          PendingOK(call.figures["mempool"], call.known, H)
    /\ call.step = "done" /\ call.noTxList = FALSE => call.part["mempool"] = "done"

KeptOK(H) ==
    summaryCache # None =>
        /\ summaryCache \in Kept
        /\ \A p \in Cached :
              /\ FigureOK(summaryCache.figures[p], H)
              /\ summaryCache.overtaken = FALSE => tip <= summaryCache.figures[p].best

SummariesInv(H) ==
    /\ DOMAIN summaries = Summaries
    /\ \A c \in Summaries : summaries[c] # Idle => SummaryOK(summaries[c], H)
    /\ KeptOK(H)

SummaryInv == NodeInv /\ \E H : HistoryOK(H) /\ CachesInv(H) /\ SummariesInv(H)

-----------------------------------------------------------------------------
(* The node. *)

LEMMA InBlocks == \A blocks, t : t \in In(blocks) <=> \E h \in DOMAIN blocks : t \in blocks[h]
BY DEF In, ToSet

LEMMA OnTop ==
    ASSUME NEW prefix \in Seq(SUBSET Txs), NEW txs \in SUBSET Txs
    PROVE  /\ Append(prefix, txs) \in Seq(SUBSET Txs)
           /\ In(Append(prefix, txs)) = In(prefix) \cup txs
<1>1. PICK blocks : blocks = Append(prefix, txs)
  OBVIOUS
<1>2. /\ blocks \in Seq(SUBSET Txs) /\ Len(prefix) \in Nat
      /\ DOMAIN blocks = 1..(Len(prefix) + 1) /\ DOMAIN prefix = 1..Len(prefix)
      /\ \A h \in 1..Len(prefix) : blocks[h] = prefix[h]
      /\ blocks[Len(prefix) + 1] = txs
  BY <1>1
<1>3. \A t : t \in In(blocks) <=> t \in In(prefix) \/ t \in txs
  <2> SUFFICES ASSUME NEW t PROVE t \in In(blocks) <=> t \in In(prefix) \/ t \in txs
    OBVIOUS
  <2>1. t \in In(blocks) <=> \E h \in 1..(Len(prefix) + 1) : t \in blocks[h]
    BY <1>2, InBlocks
  <2>2. t \in In(prefix) <=> \E h \in 1..Len(prefix) : t \in prefix[h]
    BY <1>2, InBlocks
  <2> QED
    BY <1>2, <2>1, <2>2
<1> QED
  BY <1>1, <1>2, <1>3

LEMMA WithoutLast ==
    ASSUME NEW blocks \in Seq(SUBSET Txs), blocks # <<>>
    PROVE  /\ Front(blocks) \in Seq(SUBSET Txs) /\ Last(blocks) \in SUBSET Txs
           /\ In(blocks) = In(Front(blocks)) \cup Last(blocks)
           /\ Ordered(blocks) => Ordered(Front(blocks)) /\ In(Front(blocks)) \cap Last(blocks) = {}
<1>1. Len(blocks) \in Nat \ {0} /\ DOMAIN blocks = 1..Len(blocks)
      /\ \A h \in 1..Len(blocks) : blocks[h] \in SUBSET Txs
  BY EmptySeq
<1>2. PICK front : front = Front(blocks)
  OBVIOUS
<1>3. /\ front \in Seq(SUBSET Txs) /\ DOMAIN front = 1..(Len(blocks) - 1)
      /\ \A h \in 1..(Len(blocks) - 1) : front[h] = blocks[h]
  BY <1>1, <1>2, SubSeqProperties DEF Front
<1>4. Last(blocks) = blocks[Len(blocks)] /\ Last(blocks) \in SUBSET Txs
  BY <1>1 DEF Last
<1>5. \A t : t \in In(blocks) <=> t \in In(front) \/ t \in Last(blocks)
  <2> SUFFICES ASSUME NEW t PROVE t \in In(blocks) <=> t \in In(front) \/ t \in Last(blocks)
    OBVIOUS
  <2>1. t \in In(blocks) <=> \E h \in 1..Len(blocks) : t \in blocks[h]
    BY <1>1, InBlocks
  <2>2. t \in In(front) <=> \E h \in 1..(Len(blocks) - 1) : t \in blocks[h]
    BY <1>3, InBlocks
  <2> QED
    BY <1>1, <1>4, <2>1, <2>2
<1>6. ASSUME Ordered(blocks) PROVE Ordered(front) /\ In(front) \cap Last(blocks) = {}
  <2>1. Ordered(front)
    BY <1>1, <1>3, <1>6 DEF Ordered
  <2>2. ASSUME NEW t \in In(front) PROVE t \notin Last(blocks)
    <3>1. PICK h \in 1..(Len(blocks) - 1) : t \in blocks[h]
      BY <1>3, InBlocks
    <3>2. h # Len(blocks) /\ h \in 1..Len(blocks) /\ Len(blocks) \in 1..Len(blocks)
      <4>1. PICK n \in Nat \ {0} : n = Len(blocks)
        BY <1>1
      <4>2. h \in 1..(n - 1)
        BY <3>1, <4>1
      <4>3. h # n /\ h \in 1..n /\ n \in 1..n
        BY <4>2
      <4> QED
        BY <4>1, <4>3
    <3>3. blocks[h] \cap blocks[Len(blocks)] = {}
      BY <1>1, <1>6, <3>2 DEF Ordered
    <3> QED
      BY <1>4, <3>1, <3>3
  <2> QED
    BY <2>1, <2>2
<1> QED
  BY <1>2, <1>3, <1>4, <1>5, <1>6

\* A block that brings nothing twice, and nothing without what it spends.
LEMMA ExtendOrdered ==
    ASSUME NEW prefix \in Seq(SUBSET Txs), NEW txs \in SUBSET Txs, Ordered(prefix),
           txs \cap In(prefix) = {}, \A t \in txs : Ready(t, In(prefix) \cup txs)
    PROVE  Ordered(Append(prefix, txs))
<1>1. PICK blocks : blocks = Append(prefix, txs)
  OBVIOUS
<1>2. /\ blocks \in Seq(SUBSET Txs) /\ Len(prefix) \in Nat
      /\ DOMAIN blocks = 1..(Len(prefix) + 1) /\ DOMAIN prefix = 1..Len(prefix)
      /\ \A h \in 1..Len(prefix) : blocks[h] = prefix[h]
      /\ blocks[Len(prefix) + 1] = txs
  BY <1>1
<1>3. \A h \in 1..Len(prefix) : blocks[h] \cap txs = {}
  BY <1>2, InBlocks
<1>4. ASSUME NEW h \in DOMAIN blocks, NEW k \in DOMAIN blocks, h # k
      PROVE  blocks[h] \cap blocks[k] = {}
  <2>1. CASE h = Len(prefix) + 1
    <3>1. k \in 1..Len(prefix)
      BY <1>2, <1>4, <2>1
    <3> QED
      BY <1>2, <1>3, <2>1, <3>1
  <2>2. CASE k = Len(prefix) + 1
    <3>1. h \in 1..Len(prefix)
      BY <1>2, <1>4, <2>2
    <3> QED
      BY <1>2, <1>3, <2>2, <3>1
  <2>3. CASE h # Len(prefix) + 1 /\ k # Len(prefix) + 1
    <3>1. h \in 1..Len(prefix) /\ k \in 1..Len(prefix)
      BY <1>2, <2>3
    <3> QED
      BY <1>2, <1>4, <3>1 DEF Ordered
  <2> QED
    BY <2>1, <2>2, <2>3
<1>5. ASSUME NEW h \in DOMAIN blocks, NEW t \in blocks[h], Spends[t] # 0
      PROVE  \E k \in 1..h : Spends[t] \in blocks[k]
  <2>1. CASE h = Len(prefix) + 1
    <3>1. Spends[t] \in In(prefix) \/ Spends[t] \in txs
      BY <1>2, <1>5, <2>1 DEF Ready
    <3>2. ASSUME Spends[t] \in In(prefix) PROVE \E k \in 1..h : Spends[t] \in blocks[k]
      <4>1. PICK k \in 1..Len(prefix) : Spends[t] \in prefix[k]
        BY <1>2, <3>2, InBlocks
      <4>2. k \in 1..h /\ blocks[k] = prefix[k]
        BY <1>2, <2>1
      <4> QED
        BY <4>1, <4>2
    <3>3. ASSUME Spends[t] \in txs PROVE \E k \in 1..h : Spends[t] \in blocks[k]
      <4>1. h \in 1..h
        BY <1>2, <2>1
      <4> QED
        BY <1>2, <2>1, <3>3, <4>1
    <3> QED
      BY <3>1, <3>2, <3>3
  <2>2. CASE h # Len(prefix) + 1
    <3>1. h \in 1..Len(prefix)
      BY <1>2, <2>2
    <3>2. PICK k \in 1..h : Spends[t] \in prefix[k]
      BY <1>2, <1>5, <3>1 DEF Ordered
    <3>3. k \in 1..Len(prefix)
      BY <1>2, <3>1
    <3> QED
      BY <1>2, <3>2, <3>3
  <2> QED
    BY <2>1, <2>2
<1> QED
  BY <1>1, <1>4, <1>5 DEF Ordered

LEMMA OrderedClosed ==
    ASSUME NEW blocks \in Seq(SUBSET Txs), Ordered(blocks)
    PROVE  Closed(In(blocks))
<1> SUFFICES ASSUME NEW t \in In(blocks), Spends[t] # 0 PROVE Spends[t] \in In(blocks)
  BY DEF Closed, Ready
<1>1. PICK h \in DOMAIN blocks : t \in blocks[h]
  BY InBlocks
<1>2. PICK k \in 1..h : Spends[t] \in blocks[k]
  BY <1>1 DEF Ordered
<1>3. k \in DOMAIN blocks
  <2>1. DOMAIN blocks = 1..Len(blocks) /\ Len(blocks) \in Nat
    OBVIOUS
  <2> QED
    BY <2>1
<1> QED
  BY <1>2, <1>3, InBlocks

\* A step of the node forgets no transaction; a block on top of the chain, or in the
\* place of the last one, is noted with what it moved.
LEMMA NodeStep ==
    ASSUME NodeInv, NodeMoves
    PROVE  /\ NodeInv' /\ Known \subseteq Known'
           /\ \/ made' = made /\ moved' = moved /\ Confirmed' = Confirmed
              \/ /\ made' = made + 1 /\ made + 1 \in Blocks
                 /\ \A b \in 1..made : moved'[b] = moved[b]
                 /\ SymDiff(Confirmed, Confirmed') \subseteq moved'[made + 1]
<1>1. /\ pool \in SUBSET Txs /\ chain \in Seq(SUBSET Txs) /\ made \in 0..MaxBlock
      /\ moved \in [Blocks -> SUBSET Txs] /\ Ordered(chain) /\ pool \cap Confirmed = {}
      /\ Confirmed = In(chain) /\ MaxBlock \in Nat
  BY NodeAssumption DEF NodeInv, NodeTypeOK, Confirmed
<1>2. Confirmed' = In(chain')
  BY DEF Confirmed
<1>3. ASSUME NEW prefix \in Seq(SUBSET Txs), NEW txs \in SUBSET Txs, NEW changed \in SUBSET Txs,
             Ordered(prefix), txs \cap In(prefix) = {}, Extend(prefix, txs, changed),
             SymDiff(Confirmed, In(prefix) \cup txs) \subseteq changed,
             pool' \in SUBSET Txs, pool' \cap (In(prefix) \cup txs) = {},
             Known \subseteq pool' \cup In(prefix) \cup txs
      PROVE  /\ NodeInv' /\ Known \subseteq Known'
             /\ made' = made + 1 /\ made + 1 \in Blocks
             /\ \A b \in 1..made : moved'[b] = moved[b]
             /\ SymDiff(Confirmed, Confirmed') \subseteq moved'[made + 1]
  <2>1. /\ made < MaxBlock /\ \A t \in txs : Ready(t, In(prefix) \cup txs)
        /\ made' = made + 1 /\ chain' = Append(prefix, txs)
        /\ moved' = [moved EXCEPT ![made + 1] = changed]
    BY <1>3 DEF Extend
  <2>2. made + 1 \in Blocks /\ \A b \in 1..made : b \in Blocks /\ b # made + 1
    BY <1>1, <2>1 DEF Blocks
  <2>3. /\ chain' \in Seq(SUBSET Txs) /\ Confirmed' = In(prefix) \cup txs /\ Ordered(chain')
    BY <1>2, <1>3, <2>1, OnTop, ExtendOrdered
  <2>4. /\ moved' \in [Blocks -> SUBSET Txs] /\ moved'[made + 1] = changed
        /\ \A b \in 1..made : moved'[b] = moved[b]
    BY <1>1, <2>1, <2>2
  <2>5. made' \in 0..MaxBlock
    BY <1>1, <2>1
  <2>6. NodeInv'
    BY <1>3, <2>3, <2>4, <2>5 DEF NodeInv, NodeTypeOK
  <2>7. Known \subseteq Known'
    BY <1>3, <2>3 DEF Known
  <2> QED
    BY <1>3, <2>1, <2>2, <2>3, <2>4, <2>6, <2>7
<1>4. ASSUME NEW t \in Txs, NewTransaction(t)
      PROVE  NodeInv' /\ Known \subseteq Known' /\ made' = made /\ moved' = moved /\ Confirmed' = Confirmed
  <2>1. t \notin Confirmed /\ pool' = pool \cup {t} /\ chain' = chain /\ made' = made /\ moved' = moved
    BY <1>4 DEF NewTransaction, Known
  <2>2. Confirmed' = Confirmed
    BY <1>1, <1>2, <2>1
  <2> QED
    BY <1>1, <2>1, <2>2 DEF NodeInv, NodeTypeOK, Known
<1>5. ASSUME NEW txs \in SUBSET Txs, NewBlock(txs)
      PROVE  \E changed \in SUBSET Txs, prefix \in Seq(SUBSET Txs) :
                /\ Ordered(prefix) /\ txs \cap In(prefix) = {} /\ Extend(prefix, txs, changed)
                /\ SymDiff(Confirmed, In(prefix) \cup txs) \subseteq changed
                /\ pool' \in SUBSET Txs /\ pool' \cap (In(prefix) \cup txs) = {}
                /\ Known \subseteq pool' \cup In(prefix) \cup txs
  <2>1. txs \cap In(chain) = {} /\ Extend(chain, txs, txs) /\ pool' = pool \ txs
    BY <1>1, <1>5 DEF NewBlock
  <2>2. /\ SymDiff(Confirmed, In(chain) \cup txs) \subseteq txs
        /\ pool' \in SUBSET Txs /\ pool' \cap (In(chain) \cup txs) = {}
        /\ Known \subseteq pool' \cup In(chain) \cup txs
    BY <1>1, <2>1 DEF SymDiff, Known
  <2> QED
    BY <1>1, <2>1, <2>2
<1>6. ASSUME NEW txs \in SUBSET Txs, Reorganise(txs)
      PROVE  \E changed \in SUBSET Txs, prefix \in Seq(SUBSET Txs) :
                /\ Ordered(prefix) /\ txs \cap In(prefix) = {} /\ Extend(prefix, txs, changed)
                /\ SymDiff(Confirmed, In(prefix) \cup txs) \subseteq changed
                /\ pool' \in SUBSET Txs /\ pool' \cap (In(prefix) \cup txs) = {}
                /\ Known \subseteq pool' \cup In(prefix) \cup txs
  <2>1. chain # <<>>
    BY <1>6 DEF Reorganise
  <2>2. PICK front \in Seq(SUBSET Txs), dropped \in SUBSET Txs :
          /\ front = Front(chain) /\ dropped = Last(chain)
          /\ Confirmed = In(front) \cup dropped /\ Ordered(front) /\ In(front) \cap dropped = {}
    BY <1>1, <2>1, WithoutLast
  <2>3. txs \cap In(front) = {} /\ Extend(front, txs, dropped \cup txs)
        /\ pool' = (pool \cup dropped) \ txs
    BY <1>6, <2>2 DEF Reorganise
  <2>4. /\ SymDiff(Confirmed, In(front) \cup txs) \subseteq dropped \cup txs
        /\ pool' \in SUBSET Txs /\ pool' \cap (In(front) \cup txs) = {}
        /\ Known \subseteq pool' \cup In(front) \cup txs
    BY <1>1, <2>2, <2>3 DEF SymDiff, Known
  <2> QED
    BY <2>2, <2>3, <2>4
<1>7. CASE \E t \in Txs : NewTransaction(t)
  BY <1>4, <1>7
<1>8. CASE \E txs \in SUBSET Txs : NewBlock(txs) \/ Reorganise(txs)
  <2>1. PICK txs \in SUBSET Txs : NewBlock(txs) \/ Reorganise(txs)
    BY <1>8
  <2>2. PICK changed \in SUBSET Txs, prefix \in Seq(SUBSET Txs) :
          /\ Ordered(prefix) /\ txs \cap In(prefix) = {} /\ Extend(prefix, txs, changed)
          /\ SymDiff(Confirmed, In(prefix) \cup txs) \subseteq changed
          /\ pool' \in SUBSET Txs /\ pool' \cap (In(prefix) \cup txs) = {}
          /\ Known \subseteq pool' \cup In(prefix) \cup txs
    BY <1>5, <1>6, <2>1
  <2> QED
    BY <1>3, <2>2
<1> QED
  BY <1>7, <1>8 DEF NodeMoves

\* What moved between two best blocks does not change when a third one comes.
LEMMA MovedStays ==
    ASSUME NodeInv, NodeMoves
    PROVE  \A b, c \in 0..made : MovedBetween(b, c)' = MovedBetween(b, c)
<1>1. made \in Nat /\ \A d \in Blocks : d <= made => moved'[d] = moved[d]
  BY NodeStep, NodeAssumption DEF NodeInv, NodeTypeOK, Blocks
<1> SUFFICES ASSUME NEW b \in 0..made, NEW c \in 0..made
             PROVE  MovedBetween(b, c)' = MovedBetween(b, c)
  OBVIOUS
<1>2. \A d \in {d \in Blocks : (b < d /\ d <= c) \/ (c < d /\ d <= b)} : moved'[d] = moved[d]
  BY <1>1 DEF Blocks
<1> QED
  BY <1>2 DEF MovedBetween

\* The history goes on.
LEMMA HistoryStep ==
    ASSUME NodeInv, NodeMoves, NEW H, HistoryOK(H)
    PROVE  \E G : HistoryOK(G)' /\ \A b \in 0..made : G[b] = H[b]
<1>1. /\ made \in 0..MaxBlock /\ MaxBlock \in Nat /\ NodeInv' /\ Known \subseteq Known'
      /\ H \in [0..MaxBlock -> SUBSET Txs] /\ H[made] = Confirmed
      /\ \A b \in 0..made : Closed(H[b]) /\ H[b] \subseteq Known
      /\ \A b, c \in 0..made : SymDiff(H[b], H[c]) \subseteq MovedBetween(b, c)
  BY NodeStep, NodeAssumption DEF HistoryOK, NodeInv, NodeTypeOK
<1>2. CASE made' = made /\ Confirmed' = Confirmed
  <2>1. HistoryOK(H)'
    BY <1>1, <1>2, MovedStays DEF HistoryOK
  <2> QED
    BY <2>1
<1>3. CASE /\ made' = made + 1 /\ made + 1 \in Blocks
           /\ SymDiff(Confirmed, Confirmed') \subseteq moved'[made + 1]
  <2>1. made + 1 \in 0..MaxBlock /\ \A b \in 0..made : b \in 0..MaxBlock /\ b # made + 1
    BY <1>1, <1>3 DEF Blocks
  <2>2. Confirmed' \in SUBSET Txs /\ Closed(Confirmed')
    <3>1. chain' \in Seq(SUBSET Txs) /\ Ordered(chain') /\ Confirmed' = In(chain')
      BY <1>1 DEF NodeInv, NodeTypeOK, Confirmed
    <3>2. Confirmed' \in SUBSET Txs
      <4>1. \A h \in DOMAIN chain' : chain'[h] \subseteq Txs
        BY <3>1
      <4> QED
        BY <3>1, <4>1, InBlocks
    <3> QED
      BY <3>1, <3>2, OrderedClosed
  <2>3. PICK G : G = [H EXCEPT ![made + 1] = Confirmed']
    OBVIOUS
  <2>4. /\ G \in [0..MaxBlock -> SUBSET Txs] /\ G[made + 1] = Confirmed'
        /\ \A b \in 0..made : G[b] = H[b]
    BY <1>1, <2>1, <2>2, <2>3
  <2>5. \A b \in 0..made' : b = made + 1 \/ b \in 0..made
    BY <1>1, <1>3
  <2>6. PICK n \in Nat : n = made
    BY <1>1
  <2>7. made' = n + 1 /\ n + 1 \in Blocks
    BY <1>3, <2>6
  <2>8. ASSUME NEW b \in 0..n
        PROVE  /\ SymDiff(G[b], G[n + 1]) \subseteq MovedBetween(b, n + 1)'
               /\ SymDiff(G[n + 1], G[b]) \subseteq MovedBetween(n + 1, b)'
    <3>1. SymDiff(H[b], Confirmed) \subseteq MovedBetween(b, n)
      BY <1>1, <2>6
    <3>2. SymDiff(H[b], Confirmed') \subseteq SymDiff(H[b], Confirmed) \cup SymDiff(Confirmed, Confirmed')
      BY DEF SymDiff
    <3>3. MovedBetween(b, n) = MovedBetween(b, n)' /\ n \in 0..made
      <4>1. n \in 0..made
        BY <2>6
      <4> QED
        BY <2>6, <4>1, MovedStays
    <3>4. MovedBetween(b, n)' \cup moved'[n + 1] \subseteq MovedBetween(b, n + 1)'
      <4>1. \A d \in Blocks : (b < d /\ d <= n) \/ (n < d /\ d <= b) => b < d /\ d <= n + 1
        BY <2>6 DEF Blocks
      <4>2. b < n + 1 /\ n + 1 <= n + 1
        BY <2>6
      <4> QED
        BY <2>7, <4>1, <4>2 DEF MovedBetween
    <3>5. MovedBetween(b, n + 1)' = MovedBetween(n + 1, b)'
      BY DEF MovedBetween
    <3>6. G[b] = H[b] /\ G[n + 1] = Confirmed' /\ SymDiff(Confirmed, Confirmed') \subseteq moved'[n + 1]
      BY <1>3, <2>4, <2>6
    <3>7. SymDiff(G[b], G[n + 1]) = SymDiff(G[n + 1], G[b])
      BY DEF SymDiff
    <3> QED
      BY <3>1, <3>2, <3>3, <3>4, <3>5, <3>6, <3>7
  <2>9. ASSUME NEW b \in 0..made', NEW c \in 0..made'
        PROVE  SymDiff(G[b], G[c]) \subseteq MovedBetween(b, c)'
    <3>1. CASE b \in 0..made /\ c \in 0..made
      BY <1>1, <2>4, <3>1, MovedStays
    <3>2. CASE b \in 0..made /\ c = made + 1
      BY <2>6, <2>8, <3>2
    <3>3. CASE b = made + 1 /\ c \in 0..made
      BY <2>6, <2>8, <3>3
    <3>4. CASE b = made + 1 /\ c = made + 1
      BY <3>4 DEF SymDiff
    <3> QED
      BY <2>5, <3>1, <3>2, <3>3, <3>4
  <2>10. \A b \in 0..made' : Closed(G[b]) /\ G[b] \subseteq Known'
    BY <1>1, <2>2, <2>4, <2>5 DEF Known
  <2>11. HistoryOK(G)'
    BY <1>3, <2>4, <2>9, <2>10 DEF HistoryOK
  <2> QED
    BY <2>4, <2>11
<1> QED
  BY <1>2, <1>3, NodeStep

\* What stays as it is when blocks are made and transactions arrive: what was said of a
\* best block there was.
Later(H, G) ==
    /\ made \in Nat /\ made' \in Nat /\ made <= made' /\ Known \subseteq Known'
    /\ \A b \in 0..made : G[b] = H[b]

LEMMA CachesStay ==
    ASSUME NEW H, NEW G, Later(H, G), CachesInv(H), tip' = tip, cache' = cache
    PROVE  CachesInv(G)'
<1>1. \A b \in 0..made : b \in 0..made' /\ G[b] = H[b]
  BY DEF Later
<1>2. ASSUME NEW name \in Caches, cache[name] # None
      PROVE  EntryOK(name, cache[name], G)'
  <2>1. EntryOK(name, cache[name], H)
    BY <1>2 DEF CachesInv
  <2>2. G[cache[name].best] = H[cache[name].best]
    BY <1>1, <2>1 DEF EntryOK
  <2> QED
    BY <1>1, <2>1, <2>2 DEF EntryOK
<1> QED
  BY <1>1, <1>2 DEF CachesInv

LEMMA CallStays ==
    ASSUME NEW H, NEW G, Later(H, G), NEW call, CallOK(call, H)
    PROVE  CallOK(call, G)'
<1>1. \A b \in 0..made : b \in 0..made' /\ G[b] = H[b]
  BY DEF Later
<1>2. /\ call.since \in 0..made' /\ G[call.since] = H[call.since]
      /\ call.until \in 0..made' /\ G[call.until] = H[call.until]
  BY <1>1 DEF CallOK
<1>3. call.known \subseteq Known' /\ call.mempool \subseteq Known' /\ call.list \subseteq Known'
  BY DEF CallOK, Later
<1> QED
  BY <1>2, <1>3 DEF CallOK

LEMMA CallsStay ==
    ASSUME NEW H, NEW G, Later(H, G), CallsInv(H), calls' = calls
    PROVE  CallsInv(G)'
<1>1. ASSUME NEW c \in Calls, calls[c] # Idle PROVE CallOK(calls[c], G)'
  <2>1. PICK call : call = calls[c]
    OBVIOUS
  <2>2. CallOK(call, G)'
    BY <1>1, <2>1, CallStays DEF CallsInv
  <2> QED
    BY <2>1, <2>2
<1> QED
  BY <1>1 DEF CallsInv

\* While the node stays as it is, so does the history.
LEMMA NodeRests ==
    ASSUME NodeInv, UNCHANGED nodeVars
    PROVE  /\ NodeInv' /\ Known' = Known /\ Confirmed' = Confirmed
           /\ \A H : HistoryOK(H) => HistoryOK(H)' /\ Later(H, H)
<1>1. chain' = chain /\ pool' = pool /\ made' = made /\ moved' = moved
  BY DEF nodeVars
<1>2. NodeInv' /\ Known' = Known /\ Confirmed' = Confirmed /\ made \in Nat
  BY <1>1, NodeAssumption DEF NodeInv, NodeTypeOK, Known, Confirmed
<1>3. \A b, c : MovedBetween(b, c)' = MovedBetween(b, c)
  BY <1>1 DEF MovedBetween
<1> QED
  BY <1>1, <1>2, <1>3 DEF HistoryOK, Later

\* One step of one call.
LEMMA OneCall ==
    ASSUME NEW H, CallsInv(H), NodeInv, UNCHANGED nodeVars, HistoryOK(H),
           NEW c \in Calls, NEW call, calls' = [calls EXCEPT ![c] = call],
           call # Idle => CallOK(call, H)
    PROVE  CallsInv(H)'
<1>1. Later(H, H)
  BY NodeRests
<1>2. DOMAIN calls' = Calls /\ calls'[c] = call /\ \A d \in Calls \ {c} : calls'[d] = calls[d]
  BY DEF CallsInv
<1>3. ASSUME NEW d \in Calls, calls'[d] # Idle PROVE CallOK(calls[d], H)'
  <2>1. PICK other : other = calls'[d]
    OBVIOUS
  <2>2. CallOK(other, H)
    BY <1>2, <1>3, <2>1 DEF CallsInv
  <2>3. CallOK(other, H)'
    BY <1>1, <2>2, CallStays
  <2> QED
    BY <2>1, <2>3
<1> QED
  BY <1>2, <1>3 DEF CallsInv

-----------------------------------------------------------------------------
(* The caches. *)

\* A best block is heard of.
LEMMA ResetStep ==
    ASSUME NEW H, NEW b \in 1..made, ResetCaches(b), NodeInv
    PROVE  UNCHANGED nodeVars /\ CachesInv(H)'
<1>1. UNCHANGED nodeVars /\ tip' = b /\ cache' = [name \in Caches |-> None]
  BY DEF ResetCaches
<1>2. made' = made /\ made \in Nat
  BY <1>1, NodeAssumption DEF nodeVars, NodeInv, NodeTypeOK
<1> QED
  BY <1>1, <1>2 DEF CachesInv

\* An answer of the node goes into a cache.
LEMMA EntryStep ==
    ASSUME NEW H, CachesInv(H), HistoryOK(H), NodeInv, UNCHANGED nodeVars, tip' = tip,
           NEW name \in Caches, NEW txs \in SUBSET Txs, NEW best \in 0..made,
           txs = ListOf(name, H[best]), cache' = [cache EXCEPT ![name] = Entry(txs, best)]
    PROVE  CachesInv(H)'
<1>1. /\ made' = made /\ made \in 0..MaxBlock /\ MaxBlock \in Nat /\ tip \in 0..made
      /\ cache \in [Caches -> Entries \cup {None}]
  BY NodeAssumption DEF nodeVars, NodeInv, NodeTypeOK, CachesInv
<1>2. PICK entry : entry = Entry(txs, best)
  OBVIOUS
<1>3. entry.txs = txs /\ entry.best = best /\ entry \in Entries
  BY <1>1, <1>2 DEF Entry, Entries
<1>4. entry.overtaken = (best < tip)
  BY <1>2, Zenon DEF Entry
<1>5. entry.overtaken = FALSE => ~(best < tip)
  BY <1>4, Zenon
<1>6. EntryOK(name, entry, H)
  BY <1>1, <1>3, <1>5 DEF EntryOK
<1>7. cache' \in [Caches -> Entries \cup {None}] /\ cache'[name] = entry
      /\ \A other \in Caches \ {name} : cache'[other] = cache[other]
  BY <1>1, <1>2, <1>3
<1>8. ASSUME NEW other \in Caches, cache'[other] # None PROVE EntryOK(other, cache[other], H)'
  <2>1. PICK e : e = cache'[other]
    OBVIOUS
  <2>2. EntryOK(other, e, H)
    BY <1>6, <1>7, <1>8, <2>1 DEF CachesInv
  <2>3. EntryOK(other, e, H)'
    BY <1>1, <2>2 DEF EntryOK
  <2> QED
    BY <2>1, <2>3
<1> QED
  BY <1>1, <1>7, <1>8 DEF CachesInv

\* What is taken from a cache is of the block it counts as being of.
LEMMA CacheIsOf ==
    ASSUME NEW H, CachesInv(H), NodeInv, NEW name \in Caches, cache[name] # None
    PROVE  /\ BestOf(cache[name], cache[name].best) = cache[name].best
           /\ cache[name].best \in 0..made /\ cache[name].txs = ListOf(name, H[cache[name].best])
           /\ cache[name] \in Entries
<1>1. EntryOK(name, cache[name], H) /\ made \in Nat /\ tip \in 0..made
  BY NodeAssumption DEF CachesInv, NodeInv, NodeTypeOK
<1>2. cache[name].overtaken \in BOOLEAN
  BY <1>1 DEF EntryOK, Entries
<1> QED
  BY <1>1, <1>2 DEF EntryOK, BestOf, Larger

-----------------------------------------------------------------------------
(* The calls for a list. *)

\* What the node lists is what ListOf says.
LEMMA NodeListIs == \A kind \in Lists : NodeList(kind) = ListOf(kind, Confirmed)
BY DEF NodeList, ListOf, Lists

LEMMA BeginStep ==
    ASSUME NEW H, NodeInv, HistoryOK(H), CachesInv(H), CallsInv(H), NEW c \in Calls,
           NEW kind \in Lists, NEW mode \in Modes(kind), Begin(c, kind, mode)
    PROVE  CallsInv(H)' /\ UNCHANGED <<nodeVars, cacheVars>>
<1>1. PICK hit : hit = IF mode \in {"all", "confirmed"} THEN cache[kind] ELSE None
  OBVIOUS
<1>2. PICK call : call =
             [step    |-> IF mode \in {"all", "mempool"} THEN "mempool"
                          ELSE IF hit # None THEN "done" ELSE "list",
              kind    |-> kind,
              mode    |-> mode,
              known   |-> CASE mode = "all" -> Known
                            [] mode = "mempool" -> pool
                            [] OTHER -> Confirmed,
              hit     |-> hit,
              mempool |-> {},
              list    |-> IF hit # None THEN hit.txs ELSE {},
              since   |-> IF hit = None THEN made ELSE BestOf(hit, hit.best),
              until   |-> made]
  OBVIOUS
<1>3. UNCHANGED <<nodeVars, cacheVars>> /\ calls' = [calls EXCEPT ![c] = call]
  BY <1>1, <1>2 DEF Begin
<1>4. /\ made \in 0..MaxBlock /\ made \in 0..made /\ Known \in SUBSET Txs /\ pool \subseteq Known
      /\ Confirmed \subseteq Known /\ H[made] = Confirmed /\ pool \cap H[made] = {}
      /\ \A b \in 0..made : H[b] \subseteq Known
  <2>1. made \in 0..MaxBlock /\ made \in 0..made
    BY NodeAssumption DEF NodeInv, NodeTypeOK
  <2>2. H[made] = Confirmed /\ H[made] \in SUBSET Txs
    BY <2>1 DEF HistoryOK
  <2> QED
    BY <2>1, <2>2 DEF HistoryOK, NodeInv, NodeTypeOK, Known
<1>5. ASSUME hit # None
      PROVE  /\ hit \in Entries /\ hit.txs \in SUBSET Txs /\ hit.txs \subseteq Known
             /\ BestOf(hit, hit.best) \in 0..made
             /\ hit.txs = ListOf(kind, H[BestOf(hit, hit.best)])
  <2>1. hit = cache[kind] /\ kind \in Caches
    BY <1>1, <1>5 DEF Lists, Caches
  <2>2. /\ BestOf(hit, hit.best) = hit.best /\ hit.best \in 0..made /\ hit \in Entries
        /\ hit.txs = ListOf(kind, H[hit.best])
    BY <1>5, <2>1, CacheIsOf
  <2>3. hit.txs \subseteq H[hit.best]
    BY <2>2 DEF ListOf
  <2> QED
    BY <1>4, <2>2, <2>3 DEF Entries
<1>6. /\ call.kind = kind /\ call.mode = mode /\ call.hit = hit /\ call.mempool = {}
      /\ call.until = made
      /\ call.step = IF mode \in {"all", "mempool"} THEN "mempool"
                     ELSE IF hit # None THEN "done" ELSE "list"
      /\ call.list = (IF hit # None THEN hit.txs ELSE {})
      /\ call.since = IF hit = None THEN made ELSE BestOf(hit, hit.best)
      /\ call.known = CASE mode = "all" -> Known
                        [] mode = "mempool" -> pool
                        [] OTHER -> Confirmed
  BY <1>2
<1>7. /\ call.known \in SUBSET Txs /\ call.known \subseteq Known
      /\ mode = "mempool" => call.known = pool
      /\ mode \notin {"all", "mempool"} => call.known = Confirmed
  BY <1>4, <1>6
<1>8. /\ call.list \in SUBSET Txs /\ call.list \subseteq Known /\ call.since \in 0..made
      /\ call.since \in 0..MaxBlock
      /\ hit # None => call.list = ListOf(kind, H[call.since])
      /\ hit = None => call.list = {} /\ call.since = made
  <2>1. CASE hit = None
    BY <1>4, <1>6, <2>1
  <2>2. CASE hit # None
    <3>1. call.list = hit.txs /\ call.since = BestOf(hit, hit.best)
      BY <1>6, <2>2
    <3>2. call.since \in 0..MaxBlock
      <4>1. \A b \in 0..made : b \in 0..MaxBlock
        BY <1>4, NodeAssumption
      <4> QED
        BY <1>5, <2>2, <3>1, <4>1
    <3> QED
      BY <1>5, <2>2, <3>1, <3>2
  <2> QED
    BY <2>1, <2>2
<1>9. call \in CallRecords
  <2>1. hit \in Entries \cup {None}
    BY <1>5
  <2>2. call.step \in {"mempool", "list", "listed", "done"}
    BY <1>6
  <2>3. call = [step |-> call.step, kind |-> call.kind, mode |-> call.mode,
                known |-> call.known, hit |-> call.hit, mempool |-> call.mempool,
                list |-> call.list, since |-> call.since, until |-> call.until]
    BY <1>2
  <2>4. call.mode \in UNION {Modes(k) : k \in Lists}
    BY <1>6
  <2> QED
    BY <1>4, <1>6, <1>7, <1>8, <2>1, <2>2, <2>3, <2>4 DEF CallRecords
<1>10. mode = "mempool" => kind = "txids" /\ hit = None
  BY <1>1 DEF Modes
<1>11. call.step # "listed" /\ (call.step = "done" => hit # None)
       /\ (call.step # "mempool" => mode \notin {"all", "mempool"})
  BY <1>6
<1>12. CallOK(call, H)
  BY <1>4, <1>6, <1>7, <1>8, <1>9, <1>10, <1>11 DEF CallOK
<1> QED
  BY <1>3, <1>12, OneCall

LEMMA MempoolStep ==
    ASSUME NEW H, NodeInv, HistoryOK(H), CallsInv(H), NEW c \in Calls, MempoolAnswered(c)
    PROVE  CallsInv(H)' /\ UNCHANGED <<nodeVars, cacheVars>>
<1>1. PICK old : old = calls[c]
  OBVIOUS
<1>2. PICK call : call =
         [old EXCEPT !.mempool = pool, !.until = made,
                     !.step = IF old.hit # None \/ old.mode = "mempool" THEN "done" ELSE "list"]
  OBVIOUS
<1>3. /\ UNCHANGED <<nodeVars, cacheVars>> /\ old.step = "mempool"
      /\ calls' = [calls EXCEPT ![c] = call]
  BY <1>1, <1>2 DEF MempoolAnswered
<1>4. CallOK(old, H)
  BY <1>1, <1>3 DEF CallsInv, Idle
<1>5. /\ made \in 0..MaxBlock /\ made \in 0..made /\ pool \in SUBSET Txs /\ pool \subseteq Known
      /\ H[made] = Confirmed /\ pool \cap H[made] = {} /\ Known = Confirmed \cup pool
  BY NodeAssumption DEF NodeInv, NodeTypeOK, HistoryOK, Known
<1>6. /\ call \in CallRecords /\ call.mempool = pool /\ call.until = made
      /\ call.step = (IF old.hit # None \/ old.mode = "mempool" THEN "done" ELSE "list")
      /\ call.kind = old.kind /\ call.mode = old.mode /\ call.known = old.known
      /\ call.hit = old.hit /\ call.list = old.list /\ call.since = old.since
  BY <1>2, <1>4, <1>5 DEF CallOK, CallRecords
<1>7. CallOK(call, H)
  BY <1>4, <1>5, <1>6 DEF CallOK
<1> QED
  BY <1>3, <1>7, OneCall

LEMMA NodeListsStep ==
    ASSUME NEW H, NodeInv, HistoryOK(H), CallsInv(H), NEW c \in Calls, NodeLists(c)
    PROVE  CallsInv(H)' /\ UNCHANGED <<nodeVars, cacheVars>>
<1>1. PICK old : old = calls[c]
  OBVIOUS
<1>2. PICK call : call =
         [old EXCEPT !.list = NodeList(old.kind), !.since = made, !.step = "listed"]
  OBVIOUS
<1>3. /\ UNCHANGED <<nodeVars, cacheVars>> /\ old.step = "list"
      /\ calls' = [calls EXCEPT ![c] = call]
  BY <1>1, <1>2 DEF NodeLists
<1>4. CallOK(old, H) /\ old.kind \in Lists
  BY <1>1, <1>3 DEF CallsInv, Idle, CallOK, CallRecords
<1>5. /\ made \in 0..MaxBlock /\ made \in 0..made /\ H[made] = Confirmed
      /\ Confirmed \in SUBSET Txs /\ Confirmed \subseteq Known
  BY NodeAssumption DEF NodeInv, NodeTypeOK, HistoryOK, Known
<1>6. NodeList(old.kind) = ListOf(old.kind, H[made])
  BY <1>4, <1>5, NodeListIs
<1>7. NodeList(old.kind) \subseteq Confirmed
  BY DEF NodeList
<1>8. /\ call \in CallRecords /\ call.list = NodeList(old.kind) /\ call.since = made
      /\ call.step = "listed" /\ call.until = old.until /\ call.mempool = old.mempool
      /\ call.kind = old.kind /\ call.mode = old.mode /\ call.known = old.known
      /\ call.hit = old.hit
  BY <1>2, <1>4, <1>5, <1>7 DEF CallOK, CallRecords
<1>9. CallOK(call, H)
  BY <1>3, <1>4, <1>5, <1>6, <1>7, <1>8 DEF CallOK
<1> QED
  BY <1>3, <1>9, OneCall

LEMMA ListAnsweredStep ==
    ASSUME NEW H, NodeInv, HistoryOK(H), CachesInv(H), CallsInv(H), NEW c \in Calls,
           ListAnswered(c)
    PROVE  CallsInv(H)' /\ CachesInv(H)' /\ UNCHANGED nodeVars
<1>1. PICK old : old = calls[c]
  OBVIOUS
<1>2. PICK call : call = [old EXCEPT !.step = "done"]
  OBVIOUS
<1>3. /\ UNCHANGED nodeVars /\ tip' = tip /\ old.step = "listed"
      /\ calls' = [calls EXCEPT ![c] = call]
      /\ cache' = IF old.mode = "range" THEN cache
                  ELSE [cache EXCEPT ![old.kind] = Entry(old.list, old.since)]
  BY <1>1, <1>2 DEF ListAnswered
<1>4. CallOK(old, H)
  BY <1>1, <1>3 DEF CallsInv, Idle
<1>5. /\ call \in CallRecords /\ call.list = old.list /\ call.since = old.since
      /\ call.step = "done" /\ call.until = old.until /\ call.mempool = old.mempool
      /\ call.kind = old.kind /\ call.mode = old.mode /\ call.known = old.known
      /\ call.hit = old.hit
  BY <1>2, <1>4 DEF CallOK, CallRecords
<1>6. CallOK(call, H)
  BY <1>3, <1>4, <1>5 DEF CallOK
<1>7. CachesInv(H)'
  <2>1. CASE old.mode = "range"
    BY <1>3, <2>1, NodeRests, CachesStay
  <2>2. CASE old.mode # "range"
    <3>1. /\ old.kind \in Caches /\ old.list \in SUBSET Txs /\ old.since \in 0..made
          /\ old.list = ListOf(old.kind, H[old.since])
      BY <1>3, <1>4 DEF CallOK, CallRecords, Lists, Caches
    <3> QED
      BY <1>3, <2>2, <3>1, EntryStep
  <2> QED
    BY <2>1, <2>2
<1> QED
  BY <1>3, <1>6, <1>7, OneCall

LEMMA InitialHistory ==
    ASSUME CachesInit
    PROVE  NodeInv /\ \E H : HistoryOK(H) /\ CachesInv(H)
<1>1. /\ chain = <<>> /\ pool = {} /\ made = 0 /\ moved = [b \in Blocks |-> {}] /\ tip = 0
      /\ cache = [name \in Caches |-> None] /\ MaxBlock \in Nat
  BY NodeAssumption DEF CachesInit, NodeInit
<1>2. Confirmed = {} /\ chain \in Seq(SUBSET Txs) /\ Ordered(chain)
  <2>1. DOMAIN chain = {}
    BY <1>1
  <2>2. \A t : t \notin In(chain)
    BY <2>1, InBlocks
  <2> QED
    BY <1>1, <2>1, <2>2 DEF Ordered, Confirmed
<1>3. NodeInv
  BY <1>1, <1>2 DEF NodeInv, NodeTypeOK
<1>4. PICK H : H = [b \in 0..MaxBlock |-> {}]
  OBVIOUS
<1>5. HistoryOK(H)
  <2>1. \A b \in 0..made : b = 0 /\ b \in 0..MaxBlock /\ H[b] = {}
    BY <1>1, <1>4
  <2>2. H \in [0..MaxBlock -> SUBSET Txs] /\ H[made] = Confirmed
    BY <1>1, <1>2, <1>4
  <2> QED
    BY <2>1, <2>2 DEF HistoryOK, Closed, SymDiff
<1>6. CachesInv(H)
  BY <1>1 DEF CachesInv
<1> QED
  BY <1>3, <1>5, <1>6

LEMMA ListsInit == ASSUME Init PROVE ListsInv
<1>1. \A H : CallsInv(H)
  BY DEF Init, CallsInv
<1> QED
  BY <1>1, InitialHistory DEF Init, ListsInv

LEMMA ListsStep == ASSUME ListsInv, [Next]_vars PROVE ListsInv'
<1>1. NodeInv
  BY DEF ListsInv
<1>2. PICK H : HistoryOK(H) /\ CachesInv(H) /\ CallsInv(H)
  BY DEF ListsInv
<1>3. ASSUME UNCHANGED nodeVars, CachesInv(H)', CallsInv(H)' PROVE ListsInv'
  BY <1>1, <1>2, <1>3, NodeRests DEF ListsInv
<1>4. ASSUME UNCHANGED <<nodeVars, cacheVars>>, CallsInv(H)' PROVE ListsInv'
  BY <1>1, <1>2, <1>3, <1>4, NodeRests, CachesStay DEF cacheVars
<1>5. CASE NodeMoves /\ UNCHANGED <<cacheVars, calls>>
  <2>1. PICK G : HistoryOK(G)' /\ \A b \in 0..made : G[b] = H[b]
    BY <1>1, <1>2, <1>5, HistoryStep
  <2>2. NodeInv' /\ Later(H, G)
    BY <1>1, <1>5, <2>1, NodeStep, NodeAssumption DEF NodeInv, NodeTypeOK, Later
  <2>3. CachesInv(G)' /\ CallsInv(G)'
    BY <1>2, <1>5, <2>2, CachesStay, CallsStay DEF cacheVars
  <2> QED
    BY <2>1, <2>2, <2>3 DEF ListsInv
<1>6. ASSUME NEW b \in 1..made, TipUpdated(b) PROVE ListsInv'
  <2>1. UNCHANGED nodeVars /\ CachesInv(H)' /\ calls' = calls
    BY <1>1, <1>6, ResetStep DEF TipUpdated
  <2>2. CallsInv(H)'
    BY <1>1, <1>2, <2>1, NodeRests, CallsStay
  <2> QED
    BY <1>3, <2>1, <2>2
<1>7. ASSUME NEW c \in Calls, CallMoves(c) PROVE ListsInv'
  <2>1. ASSUME NEW kind \in Lists, NEW mode \in Modes(kind), Begin(c, kind, mode) PROVE ListsInv'
    BY <1>1, <1>2, <1>4, <2>1, BeginStep
  <2>2. CASE MempoolAnswered(c)
    BY <1>1, <1>2, <1>4, <2>2, MempoolStep
  <2>3. CASE NodeLists(c)
    BY <1>1, <1>2, <1>4, <2>3, NodeListsStep
  <2>4. CASE ListAnswered(c)
    BY <1>1, <1>2, <1>3, <2>4, ListAnsweredStep
  <2>5. CASE Fails(c) \/ Returned(c)
    <3>1. UNCHANGED <<nodeVars, cacheVars>> /\ calls' = [calls EXCEPT ![c] = Idle]
      BY <2>5 DEF Fails, Returned
    <3> QED
      BY <1>1, <1>2, <1>4, <3>1, OneCall
  <2> QED
    BY <1>7, <2>1, <2>2, <2>3, <2>4, <2>5 DEF CallMoves
<1>8. CASE UNCHANGED vars
  <2>1. UNCHANGED <<nodeVars, cacheVars>> /\ calls' = calls
    BY <1>8 DEF vars
  <2> QED
    BY <1>1, <1>2, <1>4, <2>1, NodeRests, CallsStay
<1> QED
  BY <1>5, <1>6, <1>7, <1>8 DEF Next

-----------------------------------------------------------------------------
(* What the invariant says of an answer. *)

\* An answer lists what is pending and not in the list, and the list; of outputs, those
\* that nothing pending spends.
LEMMA WhatIsListed ==
    ASSUME NEW call, call.kind \in Lists
    PROVE  /\ \A t \in DOMAIN Answer(call) : Answer(call)[t] = 1
           /\ \A t : t \in DOMAIN Answer(call) <=>
                /\ t \in call.mempool \cup call.list
                /\ call.kind = "utxos" => ~IsSpentBy(t, call.mempool)
<1>1. PICK bag : bag = Joined(call.mempool, call.list)
  OBVIOUS
<1>2. /\ DOMAIN bag = call.mempool \cup call.list
      /\ \A t \in DOMAIN bag : bag[t] = 1
  BY <1>1 DEF Joined, Unlisted, SetToBag, (+)
<1>3. CASE call.kind = "txids"
  <2>1. Answer(call) = bag
    BY <1>1, <1>3 DEF Answer, Merged
  <2> QED
    BY <1>2, <1>3, <2>1
<1>4. CASE call.kind = "utxos"
  <2>1. Answer(call) = [t \in {u \in DOMAIN bag : ~IsSpentBy(u, call.mempool)} |-> bag[t]]
    BY <1>1, <1>4 DEF Answer, Merged
  <2> QED
    BY <1>2, <1>4, <2>1
<1> QED
  BY <1>3, <1>4 DEF Lists

\* What is confirmed at one best block and not at another one moved between them.
LEMMA DifferenceMoved ==
    ASSUME NEW H, HistoryOK(H), NEW b \in 0..made, NEW c \in 0..made, NEW t \in H[b], t \notin H[c]
    PROVE  t \in MovedBetween(b, c) /\ t \in MovedBetween(c, b)
BY DEF HistoryOK, SymDiff

LEMMA ListsAnswers ==
    ASSUME ListsInv
    PROVE  NothingTwice /\ NothingLost /\ SpentIsGone
<1>1. PICK H : HistoryOK(H) /\ CallsInv(H)
  BY DEF ListsInv
<1>2. ASSUME NEW kind, NEW call \in Answered(kind)
      PROVE  call.kind = kind /\ call.step = "done" /\ CallOK(call, H)
  <2>1. PICK c \in Calls : call = calls[c] /\ calls[c].step = "done" /\ calls[c].kind = kind
    BY <1>2 DEF Answered
  <2> QED
    BY <1>1, <2>1 DEF CallsInv, Idle
<1>3. NothingTwice
  BY <1>2, WhatIsListed DEF NothingTwice
<1>4. ASSUME NEW kind \in Lists, NEW call \in Answered(kind), NEW t \in call.known,
             kind = "txids" \/ ~IsSpentBy(t, Known), t \notin Moved(call)
      PROVE  t \in DOMAIN Answer(call)
  <2>1. /\ CallOK(call, H) /\ call.kind = kind /\ call.step = "done"
        /\ call.since \in 0..made /\ call.until \in 0..made /\ H[call.since] \subseteq Known
        /\ call.mempool \subseteq Known /\ call.known \subseteq call.mempool \cup H[call.until]
    BY <1>1, <1>2, <1>4 DEF CallOK, HistoryOK
  <2>2. t \in call.mempool \/ t \in H[call.since]
    BY <1>1, <1>4, <2>1, DifferenceMoved DEF Moved
  <2>3. t \in call.mempool \/ t \in call.list
    <3>1. CASE call.mode = "mempool"
      BY <1>4, <2>1, <2>2, <3>1 DEF CallOK
    <3>2. CASE call.mode # "mempool"
      <4>1. call.list = ListOf(kind, H[call.since])
        BY <2>1, <3>2 DEF CallOK
      <4>2. kind = "utxos" => ~IsSpentBy(t, H[call.since])
        BY <1>4, <2>1 DEF IsSpentBy
      <4> QED
        BY <2>2, <4>1, <4>2 DEF ListOf
    <3> QED
      BY <3>1, <3>2
  <2>4. kind = "utxos" => ~IsSpentBy(t, call.mempool)
    BY <1>4, <2>1 DEF IsSpentBy
  <2> QED
    BY <2>1, <2>3, <2>4, WhatIsListed
<1>5. ASSUME NEW call \in Answered("utxos"), NEW s \in call.known,
             Spends[s] \in DOMAIN Answer(call), s \notin Moved(call)
      PROVE  FALSE
  <2>1. /\ CallOK(call, H) /\ call.kind = "utxos" /\ call.step = "done" /\ call.mode # "mempool"
        /\ call.since \in 0..made /\ call.until \in 0..made
        /\ call.known \subseteq call.mempool \cup H[call.until] /\ call.known \subseteq Txs
        /\ call.mempool \cap H[call.until] = {} /\ call.mempool \subseteq Txs
        /\ call.list = ListOf("utxos", H[call.since]) /\ call.kind \in Lists
    BY <1>2, <1>5 DEF CallOK, CallRecords
  <2>2. /\ Spends[s] \in call.mempool \cup call.list
        /\ ~IsSpentBy(Spends[s], call.mempool)
    BY <1>5, <2>1, WhatIsListed
  <2>3. s \notin call.mempool
    BY <2>2 DEF IsSpentBy
  <2>4. s \in H[call.until] /\ s \in H[call.since]
    BY <1>1, <1>5, <2>1, <2>3, DifferenceMoved DEF Moved
  <2>5. Spends[s] \notin call.list
    BY <2>1, <2>4 DEF ListOf, IsSpentBy
  <2>6. Spends[s] # 0 /\ Closed(H[call.until])
    BY <1>1, <2>1, <2>2, <2>5 DEF HistoryOK, Txs
  <2>7. Spends[s] \in H[call.until]
    BY <2>4, <2>6 DEF Closed, Ready
  <2> QED
    BY <2>1, <2>2, <2>5, <2>7
<1> QED
  BY <1>3, <1>4, <1>5 DEF NothingLost, SpentIsGone

\* The invariant of the calls for a list, in every reachable state.
LEMMA ListsInductive == Spec => []ListsInv
<1>1. Init => ListsInv
  BY ListsInit
<1>2. ListsInv /\ [Next]_vars => ListsInv'
  BY ListsStep
<1> QED
  BY <1>1, <1>2, PTL DEF Spec

\* No transaction and no output is twice in an answer (filterDuplicates).
THEOREM AnswersListNothingTwice == Spec => []NothingTwice
BY ListsInductive, ListsAnswers, PTL

\* What the node had when the call began is in the answer, unless it went into or out
\* of the chain between the two lists: the order of the requests of getAddressTxids and
\* getAddressUnspentOutputs, and the reset of their caches, lose nothing else.
THEOREM AnswersLoseNothing == Spec => []NothingLost
BY ListsInductive, ListsAnswers, PTL

\* An output that a transaction known when the call began spends is not in the answer
\* of getAddressUnspentOutputs, unless that transaction moved.
THEOREM SpentOutputsAreGone == Spec => []SpentIsGone
BY ListsInductive, ListsAnswers, PTL

-----------------------------------------------------------------------------
(* Summaries. *)

LEMMA SummaryStays ==
    ASSUME NEW H, NEW G, Later(H, G), NEW call, SummaryOK(call, H)
    PROVE  SummaryOK(call, G)'
<1>1. \A b \in 0..made : b \in 0..made' /\ G[b] = H[b]
  BY DEF Later
<1>2. call.begun \in 0..made' /\ G[call.begun] = H[call.begun] /\ call.known \subseteq Known'
  BY <1>1 DEF SummaryOK, Later
<1>3. ASSUME NEW figure, FigureOK(figure, H) PROVE FigureOK(figure, G)'
  BY <1>1, <1>3 DEF FigureOK
<1>4. ASSUME NEW figure, NEW ids, PendingOK(figure, ids, H) PROVE PendingOK(figure, ids, G)'
  BY <1>1, <1>4 DEF PendingOK
<1>5. \A p \in Cached :
        call.step = "done" \/ call.part[p] \in {"made", "done"} => FigureOK(call.figures[p], G)'
  <2> SUFFICES ASSUME NEW p \in Cached, call.step = "done" \/ call.part[p] \in {"made", "done"}
               PROVE  FigureOK(call.figures[p], G)'
    OBVIOUS
  <2>1. PICK figure : figure = call.figures[p]
    OBVIOUS
  <2>2. FigureOK(figure, H)
    BY <2>1 DEF SummaryOK
  <2>3. FigureOK(figure, G)'
    BY <1>3, <2>2
  <2> QED
    BY <2>1, <2>3
<1>6. call.queryMempool /\ call.part["mempool"] \in {"made", "done"} =>
        PendingOK(call.figures["mempool"], call.known, G)'
  <2> SUFFICES ASSUME call.queryMempool, call.part["mempool"] \in {"made", "done"}
               PROVE  PendingOK(call.figures["mempool"], call.known, G)'
    OBVIOUS
  <2>1. PICK figure, ids : figure = call.figures["mempool"] /\ ids = call.known
    OBVIOUS
  <2>2. PendingOK(figure, ids, H)
    BY <2>1 DEF SummaryOK
  <2>3. PendingOK(figure, ids, G)'
    BY <1>4, <2>2
  <2> QED
    BY <2>1, <2>3
<1> QED
  BY <1>2, <1>5, <1>6 DEF SummaryOK

LEMMA KeptStays ==
    ASSUME NEW H, NEW G, Later(H, G), KeptOK(H), tip' = tip, summaryCache' = summaryCache
    PROVE  KeptOK(G)'
<1>1. \A b \in 0..made : b \in 0..made' /\ G[b] = H[b]
  BY DEF Later
<1>2. ASSUME NEW p \in Cached, summaryCache # None
      PROVE  FigureOK(summaryCache.figures[p], G)'
  <2>1. FigureOK(summaryCache.figures[p], H)
    BY <1>2 DEF KeptOK
  <2>2. G[summaryCache.figures[p].best] = H[summaryCache.figures[p].best]
    BY <1>1, <2>1 DEF FigureOK
  <2> QED
    BY <1>1, <2>1, <2>2 DEF FigureOK
<1> QED
  BY <1>2 DEF KeptOK

LEMMA SummariesStay ==
    ASSUME NEW H, NEW G, Later(H, G), SummariesInv(H), tip' = tip,
           UNCHANGED <<summaryCache, summaries>>
    PROVE  SummariesInv(G)'
<1>1. ASSUME NEW c \in Summaries, summaries[c] # Idle PROVE SummaryOK(summaries[c], G)'
  <2>1. PICK call : call = summaries[c]
    OBVIOUS
  <2>2. SummaryOK(call, G)'
    BY <1>1, <2>1, SummaryStays DEF SummariesInv
  <2> QED
    BY <2>1, <2>2
<1>2. KeptOK(G)'
  BY KeptStays DEF SummariesInv
<1> QED
  BY <1>1, <1>2 DEF SummariesInv

\* One step of one summary.
LEMMA OneSummary ==
    ASSUME NEW H, SummariesInv(H), NodeInv, UNCHANGED nodeVars, HistoryOK(H), KeptOK(H)',
           NEW c \in Summaries, NEW call, summaries' = [summaries EXCEPT ![c] = call],
           call # Idle => SummaryOK(call, H)
    PROVE  SummariesInv(H)'
<1>1. Later(H, H)
  BY NodeRests
<1>2. /\ DOMAIN summaries' = Summaries /\ summaries'[c] = call
      /\ \A d \in Summaries \ {c} : summaries'[d] = summaries[d]
  BY DEF SummariesInv
<1>3. ASSUME NEW d \in Summaries, summaries'[d] # Idle PROVE SummaryOK(summaries[d], H)'
  <2>1. PICK other : other = summaries'[d]
    OBVIOUS
  <2>2. SummaryOK(other, H)
    BY <1>2, <1>3, <2>1 DEF SummariesInv
  <2>3. SummaryOK(other, H)'
    BY <1>1, <2>2, SummaryStays
  <2> QED
    BY <2>1, <2>3
<1> QED
  BY <1>2, <1>3 DEF SummariesInv

\* The summary in the cache is of the blocks its figures count as being of.
LEMMA KeptIsOf ==
    ASSUME NEW H, NodeInv, CachesInv(H), KeptOK(H), summaryCache # None
    PROVE  /\ \A p \in Parts : BestOf(summaryCache, summaryCache.figures[p].best) \in 0..MaxBlock
           /\ \A p \in Cached :
                BestOf(summaryCache, summaryCache.figures[p].best) = summaryCache.figures[p].best
<1>1. /\ summaryCache \in Kept /\ made \in 0..MaxBlock /\ tip \in 0..made /\ MaxBlock \in Nat
      /\ \A p \in Cached : FigureOK(summaryCache.figures[p], H)
                           /\ (summaryCache.overtaken = FALSE => tip <= summaryCache.figures[p].best)
  BY NodeAssumption DEF KeptOK, CachesInv, NodeInv, NodeTypeOK
<1>2. summaryCache.overtaken \in BOOLEAN /\ tip \in 0..MaxBlock
      /\ \A p \in Parts : summaryCache.figures[p].best \in 0..MaxBlock
  BY <1>1 DEF Kept, Figures
<1>3. ASSUME NEW p \in Parts
      PROVE  BestOf(summaryCache, summaryCache.figures[p].best) \in 0..MaxBlock
  BY <1>2 DEF BestOf, Larger
<1>4. ASSUME NEW p \in Cached
      PROVE  BestOf(summaryCache, summaryCache.figures[p].best) = summaryCache.figures[p].best
  <2>1. CASE summaryCache.overtaken
    BY <2>1 DEF BestOf
  <2>2. CASE ~summaryCache.overtaken
    <3>1. tip <= summaryCache.figures[p].best /\ summaryCache.figures[p].best \in 0..made
      BY <1>1, <1>2, <2>2 DEF FigureOK
    <3> QED
      BY <1>1, <2>2, <3>1 DEF BestOf, Larger
  <2> QED
    BY <2>1, <2>2
<1> QED
  BY <1>3, <1>4

LEMMA AnswerFromCacheStep ==
    ASSUME NEW H, NodeInv, HistoryOK(H), CachesInv(H), SummariesInv(H), NEW c \in Summaries,
           NEW queryMempool \in BOOLEAN, AnswerFromCache(c, queryMempool)
    PROVE  SummariesInv(H)' /\ UNCHANGED <<nodeVars, cacheVars>>
<1>1. PICK figures : figures =
             [p \in Parts |-> [txs  |-> summaryCache.figures[p].txs,
                               best |-> BestOf(summaryCache, summaryCache.figures[p].best)]]
  OBVIOUS
<1>2. PICK call : call =
             [step |-> "done", noTxList |-> TRUE, queryMempool |-> queryMempool,
              part |-> [p \in Parts |-> "off"], figures |-> figures,
              known |-> Known, pending |-> pool, begun |-> made]
  OBVIOUS
<1>3. /\ UNCHANGED <<nodeVars, cacheVars, summaryCache>> /\ summaryCache # None
      /\ summaries' = [summaries EXCEPT ![c] = call]
  BY <1>1, <1>2 DEF AnswerFromCache
<1>4. /\ made \in 0..MaxBlock /\ made \in 0..made /\ Known \in SUBSET Txs /\ pool \in SUBSET Txs
      /\ Known \ pool = H[made]
  BY NodeAssumption DEF NodeInv, NodeTypeOK, HistoryOK, Known
<1>5. KeptOK(H) /\ summaryCache \in Kept
  BY <1>3 DEF SummariesInv, KeptOK
<1>6. figures \in [Parts -> Figures]
  <2>1. \A p \in Parts : summaryCache.figures[p].txs \in SUBSET Txs
    BY <1>5 DEF Kept, Figures
  <2>2. \A p \in Parts : BestOf(summaryCache, summaryCache.figures[p].best) \in 0..MaxBlock
    BY <1>3, <1>5, KeptIsOf
  <2>3. ASSUME NEW p \in Parts
        PROVE  [txs  |-> summaryCache.figures[p].txs,
                best |-> BestOf(summaryCache, summaryCache.figures[p].best)] \in Figures
    BY <2>1, <2>2 DEF Figures
  <2> QED
    BY <1>1, <2>3
<1>7. ASSUME NEW p \in Cached PROVE FigureOK(figures[p], H)
  <2>1. /\ p \in Parts /\ FigureOK(summaryCache.figures[p], H)
        /\ BestOf(summaryCache, summaryCache.figures[p].best) = summaryCache.figures[p].best
    BY <1>3, <1>5, KeptIsOf DEF Parts, KeptOK
  <2>2. /\ figures[p].txs = summaryCache.figures[p].txs
        /\ figures[p].best = summaryCache.figures[p].best /\ figures[p] \in Figures
    BY <1>1, <1>6, <2>1
  <2> QED
    BY <2>1, <2>2 DEF FigureOK
<1>8. call \in SummaryRecords
  BY <1>2, <1>4, <1>6 DEF SummaryRecords
<1>9. SummaryOK(call, H)
  <2>1. /\ call.step = "done" /\ call.noTxList = TRUE /\ call.part["mempool"] = "off"
        /\ call.figures = figures /\ call.known = Known /\ call.pending = pool
        /\ call.begun = made
    BY <1>2 DEF Parts
  <2> QED
    BY <1>4, <1>7, <1>8, <2>1 DEF SummaryOK
<1>10. KeptOK(H)'
  BY <1>3, <1>5, NodeRests, KeptStays DEF cacheVars
<1> QED
  BY <1>3, <1>9, <1>10, OneSummary

LEMMA QuerySummaryStep ==
    ASSUME NEW H, NodeInv, HistoryOK(H), CachesInv(H), SummariesInv(H), NEW c \in Summaries,
           NEW noTxList \in BOOLEAN, NEW queryMempool \in BOOLEAN,
           QuerySummary(c, noTxList, queryMempool)
    PROVE  SummariesInv(H)' /\ UNCHANGED <<nodeVars, cacheVars>>
<1>1. PICK part : part =
             [p \in Parts |-> IF p = "mempool"
                              THEN IF queryMempool THEN "asked" ELSE "done"
                              ELSE IF cache[p] # None THEN "done" ELSE "asked"]
  OBVIOUS
<1>2. PICK figures : figures =
             [p \in Parts |-> IF p \in Cached /\ cache[p] # None
                              THEN [txs  |-> cache[p].txs,
                                    best |-> BestOf(cache[p], cache[p].best)]
                              ELSE Nothing]
  OBVIOUS
<1>3. PICK call : call =
             [step |-> "asking", noTxList |-> noTxList, queryMempool |-> queryMempool,
              part |-> part, figures |-> figures,
              known |-> Known, pending |-> pool, begun |-> made]
  OBVIOUS
<1>4. /\ UNCHANGED <<nodeVars, cacheVars, summaryCache>>
      /\ summaries' = [summaries EXCEPT ![c] = call]
  BY <1>1, <1>2, <1>3 DEF QuerySummary
<1>5. /\ made \in 0..MaxBlock /\ made \in 0..made /\ Known \in SUBSET Txs /\ pool \in SUBSET Txs
      /\ Known \ pool = H[made] /\ \A b \in 0..made : b \in 0..MaxBlock
  BY NodeAssumption DEF NodeInv, NodeTypeOK, HistoryOK, Known
<1>6. ASSUME NEW p \in Cached, cache[p] # None PROVE FigureOK(figures[p], H)
  <2>1. p \in Parts /\ p \in Caches /\ p # "utxos"
    BY DEF Cached, Parts, Caches
  <2>2. /\ BestOf(cache[p], cache[p].best) = cache[p].best /\ cache[p].best \in 0..made
        /\ cache[p].txs = H[cache[p].best] /\ cache[p] \in Entries
    BY <1>6, <2>1, CacheIsOf DEF ListOf
  <2>3. figures[p] = [txs |-> cache[p].txs, best |-> cache[p].best]
    BY <1>2, <1>6, <2>1, <2>2
  <2>4. cache[p].txs \in SUBSET Txs /\ cache[p].best \in 0..MaxBlock
    BY <2>2 DEF Entries
  <2> QED
    BY <2>2, <2>3, <2>4 DEF FigureOK, Figures
<1>7. figures \in [Parts -> Figures]
  <2>1. ASSUME NEW p \in Parts PROVE figures[p] \in Figures
    <3>1. CASE p \in Cached /\ cache[p] # None
      BY <1>6, <3>1 DEF FigureOK
    <3>2. CASE ~(p \in Cached /\ cache[p] # None)
      <4>1. figures[p] = Nothing
        BY <1>2, <3>2
      <4>2. 0 \in 0..MaxBlock
        BY NodeAssumption
      <4> QED
        BY <4>1, <4>2 DEF Nothing, Figures
    <3> QED
      BY <3>1, <3>2
  <2>2. figures = [p \in Parts |-> figures[p]]
    BY <1>2
  <2> QED
    BY <2>1, <2>2
<1>8. part \in [Parts -> {"off", "asked", "made", "done"}]
  BY <1>1
<1>9. call \in SummaryRecords
  BY <1>3, <1>5, <1>7, <1>8 DEF SummaryRecords
<1>10. SummaryOK(call, H)
  <2>1. /\ call.step = "asking" /\ call.part = part /\ call.queryMempool = queryMempool
        /\ call.figures = figures /\ call.known = Known /\ call.pending = pool
        /\ call.begun = made
    BY <1>3
  <2>2. \A p \in Cached : part[p] \in {"made", "done"} => cache[p] # None
    BY <1>1 DEF Cached, Parts
  <2>3. queryMempool => part["mempool"] = "asked"
    BY <1>1 DEF Parts
  <2> QED
    BY <1>5, <1>6, <1>9, <2>1, <2>2, <2>3 DEF SummaryOK
<1>11. KeptOK(H)'
  BY <1>4, NodeRests, KeptStays DEF cacheVars, SummariesInv
<1> QED
  BY <1>4, <1>10, <1>11, OneSummary

LEMMA NodeAnswersStep ==
    ASSUME NEW H, NodeInv, HistoryOK(H), SummariesInv(H), NEW c \in Summaries, NEW p \in Parts,
           NodeAnswers(c, p)
    PROVE  SummariesInv(H)' /\ UNCHANGED <<nodeVars, cacheVars>>
<1>1. PICK old : old = summaries[c]
  OBVIOUS
<1>2. PICK figure : figure = [txs  |-> IF p = "mempool" THEN pool ELSE Confirmed, best |-> made]
  OBVIOUS
<1>3. PICK part : part = [old.part EXCEPT ![p] = "made"]
  OBVIOUS
<1>4. PICK figures : figures = [old.figures EXCEPT ![p] = figure]
  OBVIOUS
<1>5. PICK call : call = [old EXCEPT !.part = part, !.figures = figures]
  OBVIOUS
<1>6. /\ UNCHANGED <<nodeVars, cacheVars, summaryCache>> /\ old # Idle /\ old.part[p] = "asked"
      /\ summaries' = [summaries EXCEPT ![c] = call]
  BY <1>1, <1>2, <1>3, <1>4, <1>5 DEF NodeAnswers
<1>7. SummaryOK(old, H)
  BY <1>1, <1>6 DEF SummariesInv
<1>8. /\ made \in 0..MaxBlock /\ made \in 0..made /\ pool \in SUBSET Txs /\ Confirmed \in SUBSET Txs
      /\ H[made] = Confirmed /\ pool \cap Confirmed = {} /\ Known = Confirmed \cup pool
  BY NodeAssumption DEF NodeInv, NodeTypeOK, HistoryOK, Known
<1>9. /\ figure.txs = (IF p = "mempool" THEN pool ELSE Confirmed) /\ figure.best = made
      /\ figure \in Figures
  BY <1>2, <1>8 DEF Figures
<1>10. /\ old.part \in [Parts -> {"off", "asked", "made", "done"}]
       /\ old.figures \in [Parts -> Figures]
  BY <1>7 DEF SummaryOK, SummaryRecords
<1>11. /\ part \in [Parts -> {"off", "asked", "made", "done"}] /\ part[p] = "made"
       /\ \A q \in Parts \ {p} : part[q] = old.part[q]
  BY <1>3, <1>10
<1>12. /\ figures \in [Parts -> Figures] /\ figures[p] = figure
       /\ \A q \in Parts \ {p} : figures[q] = old.figures[q]
  BY <1>4, <1>9, <1>10
<1>13. /\ call \in SummaryRecords /\ call.part = part /\ call.figures = figures
       /\ call.step = old.step /\ call.noTxList = old.noTxList
       /\ call.queryMempool = old.queryMempool /\ call.known = old.known
       /\ call.pending = old.pending /\ call.begun = old.begun
  BY <1>5, <1>7, <1>11, <1>12 DEF SummaryOK, SummaryRecords
<1>14. ASSUME NEW q \in Cached, call.step = "done" \/ part[q] \in {"made", "done"}
       PROVE  FigureOK(figures[q], H)
  <2>1. q \in Parts /\ q # "mempool"
    BY DEF Parts, Cached
  <2>2. CASE q = p
    BY <1>8, <1>9, <1>12, <2>1, <2>2 DEF FigureOK
  <2>3. CASE q # p
    BY <1>7, <1>11, <1>12, <1>13, <1>14, <2>1, <2>3 DEF SummaryOK
  <2> QED
    BY <2>2, <2>3
<1>15. ASSUME old.queryMempool, part["mempool"] \in {"made", "done"}
       PROVE  PendingOK(figures["mempool"], old.known, H)
  <2>1. CASE p = "mempool"
    BY <1>7, <1>8, <1>9, <1>12, <2>1 DEF PendingOK, SummaryOK
  <2>2. CASE p # "mempool"
    BY <1>7, <1>11, <1>12, <1>15, <2>2 DEF SummaryOK, Parts
  <2> QED
    BY <2>1, <2>2
<1>16. old.step = "done" /\ old.noTxList = FALSE => part["mempool"] = "done"
  BY <1>6, <1>7, <1>11 DEF SummaryOK, Parts
<1>17. SummaryOK(call, H)
  BY <1>7, <1>13, <1>14, <1>15, <1>16 DEF SummaryOK
<1>18. KeptOK(H)'
  BY <1>6, NodeRests, KeptStays DEF cacheVars, SummariesInv
<1> QED
  BY <1>6, <1>17, <1>18, OneSummary

\* A part whose figure is there, or that fails.
LEMMA PartOver ==
    ASSUME NEW H, NEW old, SummaryOK(old, H), NEW p \in Parts, NEW over \in {"off", "done"},
           over = "done" => old.part[p] = "made", over = "off" => old.part[p] = "asked",
           NEW step \in {old.step, "failed"},
           NEW call, call = [old EXCEPT !.part = [old.part EXCEPT ![p] = over], !.step = step]
    PROVE  SummaryOK(call, H)
<1>1. PICK part : part = [old.part EXCEPT ![p] = over]
  OBVIOUS
<1>2. call = [old EXCEPT !.part = part, !.step = step]
  BY <1>1
<1>3. old \in SummaryRecords /\ old.part \in [Parts -> {"off", "asked", "made", "done"}]
  BY DEF SummaryOK, SummaryRecords
<1>4. /\ part \in [Parts -> {"off", "asked", "made", "done"}] /\ part[p] = over
      /\ \A q \in Parts \ {p} : part[q] = old.part[q]
  BY <1>1, <1>3
<1>5. /\ call \in SummaryRecords /\ call.part = part /\ call.figures = old.figures
      /\ call.step = step /\ call.noTxList = old.noTxList
      /\ call.queryMempool = old.queryMempool /\ call.known = old.known
      /\ call.pending = old.pending /\ call.begun = old.begun
  BY <1>2, <1>3, <1>4 DEF SummaryRecords
<1>6. \A q \in Parts : part[q] \in {"made", "done"} => old.part[q] \in {"made", "done"}
  BY <1>4
<1>7. step = "done" => old.step = "done"
  OBVIOUS
<1>8. "mempool" \in Parts /\ Cached \subseteq Parts
  BY DEF Parts
<1>9. old.step = "done" /\ old.noTxList = FALSE => part["mempool"] = "done"
  BY <1>4, <1>8 DEF SummaryOK
<1> QED
  BY <1>5, <1>6, <1>7, <1>8, <1>9 DEF SummaryOK

LEMMA PartAnsweredStep ==
    ASSUME NEW H, NodeInv, HistoryOK(H), CachesInv(H), SummariesInv(H), NEW c \in Summaries,
           NEW p \in Parts, PartAnswered(c, p)
    PROVE  SummariesInv(H)' /\ CachesInv(H)' /\ UNCHANGED nodeVars
<1>1. PICK old : old = summaries[c]
  OBVIOUS
<1>2. PICK call : call = [old EXCEPT !.part = [old.part EXCEPT ![p] = "done"], !.step = old.step]
  OBVIOUS
<1>3. /\ UNCHANGED nodeVars /\ UNCHANGED <<tip, summaryCache>> /\ old # Idle
      /\ old.part[p] = "made"
      /\ summaries' = [summaries EXCEPT ![c].part[p] = "done"]
      /\ cache' = IF p \in Cached
                  THEN [cache EXCEPT ![p] = Entry(old.figures[p].txs, old.figures[p].best)]
                  ELSE cache
  BY <1>1 DEF PartAnswered
<1>4. SummaryOK(old, H) /\ old \in SummaryRecords
  BY <1>1, <1>3 DEF SummariesInv, SummaryOK
<1>5. summaries' = [summaries EXCEPT ![c] = call]
  <2>1. call = [old EXCEPT !.part = [old.part EXCEPT ![p] = "done"]]
    BY <1>2, <1>4 DEF SummaryRecords
  <2> QED
    BY <1>1, <1>3, <2>1
<1>6. SummaryOK(call, H)
  BY <1>2, <1>3, <1>4, PartOver
<1>7. CachesInv(H)'
  <2>1. CASE p \in Cached
    <3>1. FigureOK(old.figures[p], H)
      BY <1>3, <1>4, <2>1 DEF SummaryOK
    <3>2. PICK txs, best : txs = old.figures[p].txs /\ best = old.figures[p].best
      OBVIOUS
    <3>3. /\ p \in Caches /\ txs \in SUBSET Txs /\ best \in 0..made /\ txs = ListOf(p, H[best])
      BY <2>1, <3>1, <3>2 DEF FigureOK, Figures, Cached, Caches, ListOf
    <3> QED
      BY <1>3, <2>1, <3>2, <3>3, EntryStep
  <2>2. CASE p \notin Cached
    BY <1>3, <2>2, NodeRests, CachesStay
  <2> QED
    BY <2>1, <2>2
<1>8. KeptOK(H)'
  BY <1>3, NodeRests, KeptStays DEF SummariesInv
<1> QED
  BY <1>3, <1>5, <1>6, <1>7, <1>8, OneSummary

LEMMA PartFailsStep ==
    ASSUME NEW H, NodeInv, HistoryOK(H), SummariesInv(H), NEW c \in Summaries,
           NEW p \in Parts, PartFails(c, p)
    PROVE  SummariesInv(H)' /\ UNCHANGED <<nodeVars, cacheVars>>
<1>1. PICK old : old = summaries[c]
  OBVIOUS
<1>2. PICK call : call = [old EXCEPT !.part = [old.part EXCEPT ![p] = "off"], !.step = "failed"]
  OBVIOUS
<1>3. /\ UNCHANGED <<nodeVars, cacheVars, summaryCache>> /\ old # Idle
      /\ old.part[p] = "asked" /\ summaries' = [summaries EXCEPT ![c] = call]
  BY <1>1, <1>2 DEF PartFails
<1>4. SummaryOK(old, H)
  BY <1>1, <1>3 DEF SummariesInv
<1>5. SummaryOK(call, H)
  BY <1>2, <1>3, <1>4, PartOver
<1>6. KeptOK(H)'
  BY <1>3, NodeRests, KeptStays DEF cacheVars, SummariesInv
<1> QED
  BY <1>3, <1>5, <1>6, OneSummary

LEMMA FinishStep ==
    ASSUME NEW H, NodeInv, HistoryOK(H), CachesInv(H), SummariesInv(H), NEW c \in Summaries,
           Finish(c)
    PROVE  SummariesInv(H)' /\ UNCHANGED <<nodeVars, cacheVars>>
<1>1. PICK old : old = summaries[c]
  OBVIOUS
<1>2. PICK call : call = [old EXCEPT !.step = "done"]
  OBVIOUS
<1>3. /\ UNCHANGED <<nodeVars, cacheVars>> /\ old.step = "asking"
      /\ \A p \in Parts : old.part[p] = "done"
      /\ summaries' = [summaries EXCEPT ![c] = call]
      /\ summaryCache' = [figures |-> old.figures,
                          overtaken |-> \E p \in Cached : old.figures[p].best < tip]
  BY <1>1, <1>2 DEF Finish, Whole
<1>4. SummaryOK(old, H) /\ old \in SummaryRecords
  BY <1>1, <1>3 DEF SummariesInv, SummaryOK, Idle
<1>5. Cached \subseteq Parts /\ "mempool" \in Parts
  BY DEF Parts
<1>6. \A p \in Cached : FigureOK(old.figures[p], H)
  BY <1>3, <1>4, <1>5 DEF SummaryOK
<1>7. /\ call \in SummaryRecords /\ call.part = old.part /\ call.figures = old.figures
      /\ call.step = "done" /\ call.queryMempool = old.queryMempool /\ call.known = old.known
      /\ call.pending = old.pending /\ call.begun = old.begun
  BY <1>2, <1>4 DEF SummaryRecords
<1>8. SummaryOK(call, H)
  BY <1>3, <1>4, <1>5, <1>6, <1>7 DEF SummaryOK
<1>9. KeptOK(H)'
  <2>1. made' = made /\ tip' = tip /\ tip \in 0..made /\ made \in Nat
    BY <1>3, NodeAssumption DEF nodeVars, cacheVars, CachesInv, NodeInv, NodeTypeOK
  <2>2. PICK late : late = (\E p \in Cached : old.figures[p].best < tip)
    OBVIOUS
  <2>3. late \in BOOLEAN
    BY <2>2, Zenon
  <2>4. late = FALSE => \A p \in Cached : ~(old.figures[p].best < tip)
    BY <2>2, Zenon
  <2>5. summaryCache' = [figures |-> old.figures, overtaken |-> late]
    BY <1>3, <2>2
  <2>6. summaryCache' \in Kept /\ summaryCache'.figures = old.figures
        /\ summaryCache'.overtaken = late
    BY <1>4, <2>3, <2>5 DEF SummaryRecords, Kept
  <2>7. ASSUME NEW p \in Cached PROVE FigureOK(old.figures[p], H)'
    <3>1. PICK figure : figure = old.figures[p] /\ FigureOK(figure, H)
      BY <1>6
    <3>2. FigureOK(figure, H)'
      BY <2>1, <3>1 DEF FigureOK
    <3> QED
      BY <3>1, <3>2
  <2>8. ASSUME NEW p \in Cached, late = FALSE PROVE tip <= old.figures[p].best
    BY <1>6, <2>1, <2>4, <2>8 DEF FigureOK
  <2> QED
    BY <2>1, <2>6, <2>7, <2>8 DEF KeptOK
<1> QED
  BY <1>3, <1>8, <1>9, OneSummary

LEMMA SummaryStarts == ASSUME SummaryInit PROVE SummaryInv
<1>1. \A H : SummariesInv(H)
  BY DEF SummaryInit, SummariesInv, KeptOK
<1> QED
  BY <1>1, InitialHistory DEF SummaryInit, SummaryInv

LEMMA SummaryStep == ASSUME SummaryInv, [SummaryNext]_summaryVars PROVE SummaryInv'
<1>1. NodeInv
  BY DEF SummaryInv
<1>2. PICK H : HistoryOK(H) /\ CachesInv(H) /\ SummariesInv(H)
  BY DEF SummaryInv
<1>3. ASSUME UNCHANGED nodeVars, CachesInv(H)', SummariesInv(H)' PROVE SummaryInv'
  BY <1>1, <1>2, <1>3, NodeRests DEF SummaryInv
<1>4. ASSUME UNCHANGED <<nodeVars, cacheVars>>, SummariesInv(H)' PROVE SummaryInv'
  BY <1>1, <1>2, <1>3, <1>4, NodeRests, CachesStay DEF cacheVars
<1>5. CASE NodeMoves /\ UNCHANGED <<cacheVars, summaryCache, summaries>>
  <2>1. PICK G : HistoryOK(G)' /\ \A b \in 0..made : G[b] = H[b]
    BY <1>1, <1>2, <1>5, HistoryStep
  <2>2. NodeInv' /\ Later(H, G)
    BY <1>1, <1>5, <2>1, NodeStep, NodeAssumption DEF NodeInv, NodeTypeOK, Later
  <2>3. CachesInv(G)' /\ SummariesInv(G)'
    BY <1>2, <1>5, <2>2, CachesStay, SummariesStay DEF cacheVars
  <2> QED
    BY <2>1, <2>2, <2>3 DEF SummaryInv
<1>6. ASSUME NEW b \in 1..made, SummaryReset(b) PROVE SummaryInv'
  <2>1. UNCHANGED nodeVars /\ CachesInv(H)' /\ summaryCache' = None /\ summaries' = summaries
    BY <1>1, <1>6, ResetStep DEF SummaryReset
  <2>2. ASSUME NEW c \in Summaries, summaries[c] # Idle PROVE SummaryOK(summaries[c], H)'
    <3>1. PICK call : call = summaries[c]
      OBVIOUS
    <3>2. SummaryOK(call, H)'
      BY <1>1, <1>2, <2>1, <2>2, <3>1, NodeRests, SummaryStays DEF SummariesInv
    <3> QED
      BY <2>1, <3>1, <3>2
  <2>3. SummariesInv(H)'
    BY <1>2, <2>1, <2>2 DEF SummariesInv, KeptOK
  <2> QED
    BY <1>3, <2>1, <2>3
<1>7. ASSUME NEW c \in Summaries, SummaryMoves(c) PROVE SummaryInv'
  <2>1. ASSUME NEW queryMempool \in BOOLEAN, AnswerFromCache(c, queryMempool) PROVE SummaryInv'
    BY <1>1, <1>2, <1>4, <2>1, AnswerFromCacheStep
  <2>2. ASSUME NEW noTxList \in BOOLEAN, NEW queryMempool \in BOOLEAN,
               QuerySummary(c, noTxList, queryMempool)
        PROVE  SummaryInv'
    BY <1>1, <1>2, <1>4, <2>2, QuerySummaryStep
  <2>3. ASSUME NEW p \in Parts, NodeAnswers(c, p) \/ PartAnswered(c, p) \/ PartFails(c, p)
        PROVE  SummaryInv'
    <3>1. CASE NodeAnswers(c, p)
      BY <1>1, <1>2, <1>4, <3>1, NodeAnswersStep
    <3>2. CASE PartAnswered(c, p)
      BY <1>1, <1>2, <1>3, <3>2, PartAnsweredStep
    <3>3. CASE PartFails(c, p)
      BY <1>1, <1>2, <1>4, <3>3, PartFailsStep
    <3> QED
      BY <2>3, <3>1, <3>2, <3>3
  <2>4. CASE Finish(c)
    BY <1>1, <1>2, <1>4, <2>4, FinishStep
  <2>5. CASE SummaryReturned(c)
    <3>1. UNCHANGED <<nodeVars, cacheVars, summaryCache>>
          /\ summaries' = [summaries EXCEPT ![c] = Idle]
      BY <2>5 DEF SummaryReturned
    <3>2. KeptOK(H)'
      BY <1>1, <1>2, <3>1, NodeRests, KeptStays DEF cacheVars, SummariesInv
    <3>3. SummariesInv(H)'
      BY <1>1, <1>2, <3>1, <3>2, OneSummary
    <3> QED
      BY <1>4, <3>1, <3>3
  <2> QED
    BY <1>7, <2>1, <2>2, <2>3, <2>4, <2>5 DEF SummaryMoves
<1>8. CASE UNCHANGED summaryVars
  <2>1. UNCHANGED <<nodeVars, cacheVars>> /\ UNCHANGED <<summaryCache, summaries>>
    BY <1>8 DEF summaryVars
  <2> QED
    BY <1>1, <1>2, <1>4, <2>1, NodeRests, SummariesStay DEF cacheVars
<1> QED
  BY <1>5, <1>6, <1>7, <1>8 DEF SummaryNext

LEMMA SummaryAnswers ==
    ASSUME SummaryInv
    PROVE  FiguresAgree /\ NothingLeftOut /\ AmountsAreCurrent
<1>1. PICK H : HistoryOK(H) /\ SummariesInv(H)
  BY DEF SummaryInv
<1>2. ASSUME NEW call \in Given
      PROVE  /\ SummaryOK(call, H) /\ call.begun \in 0..made
             /\ call.known \ call.pending = H[call.begun]
             /\ FigureOK(call.figures["txids"], H) /\ FigureOK(call.figures["balance"], H)
             /\ (call.queryMempool /\ ~call.noTxList) =>
                   PendingOK(call.figures["mempool"], call.known, H)
  <2>1. PICK c \in Summaries : call = summaries[c] /\ summaries[c].step = "done"
    BY DEF Given
  <2>2. SummaryOK(call, H) /\ call.step = "done" /\ call.noTxList \in BOOLEAN
    BY <1>1, <2>1 DEF SummariesInv, Idle, SummaryOK, SummaryRecords
  <2> QED
    BY <2>2 DEF SummaryOK, Cached
<1>3. FiguresAgree
  <2> SUFFICES ASSUME NEW call \in Given
               PROVE  /\ SymDiff(call.figures["txids"].txs, call.figures["balance"].txs)
                            \subseteq MovedBetweenParts(call, "txids", "balance")
                      /\ (call.queryMempool /\ ~call.noTxList) =>
                            call.figures["txids"].txs \cap call.figures["mempool"].txs
                                \subseteq MovedBetweenParts(call, "txids", "mempool")
    BY DEF FiguresAgree
  <2>1. PICK x, y : x = call.figures["txids"].best /\ y = call.figures["balance"].best
    OBVIOUS
  <2>2. /\ x \in 0..made /\ y \in 0..made
        /\ call.figures["txids"].txs = H[x] /\ call.figures["balance"].txs = H[y]
    BY <1>2, <2>1 DEF FigureOK
  <2>3. SymDiff(H[x], H[y]) \subseteq MovedBetween(x, y)
    BY <1>1, <2>2 DEF HistoryOK
  <2>4. ASSUME call.queryMempool /\ ~call.noTxList
        PROVE  call.figures["txids"].txs \cap call.figures["mempool"].txs
                  \subseteq MovedBetweenParts(call, "txids", "mempool")
    <3>1. PICK m : m = call.figures["mempool"].best
      OBVIOUS
    <3>2. m \in 0..made /\ call.figures["mempool"].txs \cap H[m] = {}
      BY <1>2, <2>4, <3>1 DEF PendingOK
    <3>3. \A t \in H[x] : t \notin H[m] => t \in MovedBetween(x, m)
      BY <1>1, <2>2, <3>2, DifferenceMoved
    <3> QED
      BY <2>1, <2>2, <3>1, <3>2, <3>3 DEF MovedBetweenParts
  <2> QED
    BY <2>1, <2>2, <2>3, <2>4 DEF MovedBetweenParts
<1>4. NothingLeftOut
  <2> SUFFICES ASSUME NEW call \in Given, call.queryMempool /\ ~call.noTxList
               PROVE  call.known \subseteq
                          call.figures["txids"].txs \cup call.figures["mempool"].txs
                              \cup MovedBetweenParts(call, "txids", "mempool")
    BY DEF NothingLeftOut
  <2>1. PICK x, m : x = call.figures["txids"].best /\ m = call.figures["mempool"].best
    OBVIOUS
  <2>2. /\ x \in 0..made /\ m \in 0..made /\ call.figures["txids"].txs = H[x]
        /\ call.known \subseteq call.figures["mempool"].txs \cup H[m]
    BY <1>2, <2>1 DEF FigureOK, PendingOK
  <2>3. \A t \in H[m] : t \notin H[x] => t \in MovedBetween(x, m)
    BY <1>1, <2>2, DifferenceMoved
  <2> QED
    BY <2>1, <2>2, <2>3 DEF MovedBetweenParts
<1>5. AmountsAreCurrent
  <2> SUFFICES ASSUME NEW call \in Given
               PROVE  SymDiff(call.known \ call.pending, call.figures["balance"].txs)
                         \subseteq MovedBetween(call.figures["balance"].best, call.begun)
    BY DEF AmountsAreCurrent
  <2>1. PICK y, b : y = call.figures["balance"].best /\ b = call.begun
    OBVIOUS
  <2>2. /\ y \in 0..made /\ b \in 0..made
        /\ call.figures["balance"].txs = H[y] /\ call.known \ call.pending = H[b]
    BY <1>2, <2>1 DEF FigureOK
  <2>3. SymDiff(H[y], H[b]) \subseteq MovedBetween(y, b)
    BY <1>1, <2>2 DEF HistoryOK
  <2> QED
    BY <2>1, <2>2, <2>3 DEF SymDiff
<1> QED
  BY <1>3, <1>4, <1>5

\* The invariant of the summaries, in every reachable state.
LEMMA SummaryInductive == SummarySpec => []SummaryInv
<1>1. SummaryInit => SummaryInv
  BY SummaryStarts
<1>2. SummaryInv /\ [SummaryNext]_summaryVars => SummaryInv'
  BY SummaryStep
<1> QED
  BY <1>1, <1>2, PTL DEF SummarySpec

\* The list, the balance and the mempool of a summary are of one chain, but for what
\* went into or out of it between the answers of the node (querySummary).
THEOREM PartsAgree == SummarySpec => []FiguresAgree
BY SummaryInductive, SummaryAnswers, PTL

\* The list of a summary has what the node had when the call began, but for what moved
\* between the answers it is joined of (finishWithTxids).
THEOREM SummariesLoseNothing == SummarySpec => []NothingLeftOut
BY SummaryInductive, SummaryAnswers, PTL

\* The amounts of a summary are those of the chain when the call began or later, those
\* from the caches included (_resetCaches).
THEOREM SummaryAmountsAreCurrent == SummarySpec => []AmountsAreCurrent
BY SummaryInductive, SummaryAnswers, PTL

-----------------------------------------------------------------------------
(* Following the chain tip. *)

\* There is a process to name in the timer that is not armed.
LEMMA SomeNodeIsANode == SomeNode \in Nodes
BY TipAssumption DEF SomeNode

LEMMA NoTimerType ==
    NoTimer \in [armed : BOOLEAN, left : 0..RapidInterval, node : Nodes, tip : Tips]
BY SomeNodeIsANode, TipAssumption DEF NoTimer, Tips

\* Touching an entry of the LRU keeps it a sequence of tips.
LEMMA RememberType ==
    ASSUME known \in Seq(Tips), NEW t \in Tips
    PROVE  Remember(t) \in Seq(Tips)
<1> DEFINE last == IF Remembered(t)
                   THEN CHOOSE i \in 1..Len(known) : known[i] = t
                   ELSE IF Len(known) < KnownSize THEN Len(known) + 1
                                                  ELSE Len(known)
           size == IF last > Len(known) THEN last ELSE Len(known)
           new == [i \in 1..size |-> IF i = 1 THEN t
                        ELSE IF i <= last THEN known[i - 1] ELSE known[i]]
<1>1. Len(known) \in Nat /\ \A i \in 1..Len(known) : known[i] \in Tips
  OBVIOUS
<1>2. last \in 0..(Len(known) + 1)
  BY <1>1 DEF Remembered
<1>3. size \in Nat /\ size <= Len(known) + 1 /\ last <= size
  BY <1>1, <1>2
<1>4. ASSUME NEW i \in 1..size
      PROVE  new[i] \in Tips
  <2>1. CASE i = 1
    BY <2>1
  <2>2. CASE i # 1 /\ i <= last
    BY <1>1, <1>2, <1>3, <2>2
  <2>3. CASE i # 1 /\ i > last
    BY <1>1, <1>2, <1>3, <2>3
  <2>. QED
    BY <1>2, <1>3, <2>1, <2>2, <2>3
<1>5. new \in [1..size -> Tips]
  BY <1>4
<1>6. new \in Seq(Tips)
  <2> HIDE DEF new, size
  <2>. QED
    BY <1>3, <1>5, SeqDef
<1>. QED
  BY <1>6 DEF Remember

\* The part of the type invariant that _updateTip reads and writes.
LEMMA UpdateTipType ==
    ASSUME TipTypeOK, NEW n \in Nodes, NEW t \in Tips, UpdateTip(n, t)
    PROVE  /\ tiphash' \in Tips \cup {0}
           /\ asks' \in [Nodes -> [Tips -> Nat]]
           /\ crossed' \in BOOLEAN
<1>1. /\ asks \in [Nodes -> [Tips -> Nat]]
      /\ tiphash \in Tips \cup {0} /\ crossed \in BOOLEAN
  BY DEF TipTypeOK
<1>2. CASE t = tiphash
  BY <1>1, <1>2 DEF UpdateTip
<1>3. CASE t # tiphash
  <2>1. /\ tiphash' = t
        /\ asks' = [asks EXCEPT ![n][t] = @ + 1]
        /\ crossed' = ~HeightQuiet
    BY <1>3 DEF UpdateTip
  <2>2. asks' \in [Nodes -> [Tips -> Nat]]
    BY <1>1, <2>1
  <2>3. crossed' \in BOOLEAN
    BY <2>1
  <2>. QED
    BY <2>1, <2>2, <2>3
<1>. QED
  BY <1>2, <1>3

\* The count of the delay begins at 1 or at 0.
LEMMA FollowedType ==
    ASSUME TipTypeOK, NEW told \in BOOLEAN, Followed(told)
    PROVE  unfollowed' \in 0..(MaxDelay + 2)
<1>1. unfollowed' \in {0, 1, unfollowed}
  BY DEF Followed
<1>2. unfollowed \in 0..(MaxDelay + 2) /\ MaxDelay \in Nat
  BY TipAssumption DEF TipTypeOK, MaxDelay
<1>. QED
  BY <1>1, <1>2

\* The armed timer after an announcement names a process and a tip.
LEMMA TimerAfterType ==
    ASSUME TipTypeOK, NEW n \in Nodes, NEW t \in Tips
    PROVE  TimerAfter(n, t) \in [armed : BOOLEAN, left : 0..RapidInterval,
                                 node : Nodes, tip : Tips]
BY TipAssumption DEF TipTypeOK, TimerAfter

LEMMA TipInitTyped == TipInit => TipTypeOK
<1> SUFFICES ASSUME TipInit PROVE TipTypeOK
  OBVIOUS
<1>1. 1 \in Tips
  BY TipAssumption DEF Tips
<1>2. /\ nodeTip \in [Nodes -> Tips]
      /\ wire \in [Nodes -> Seq(Tips)]
      /\ known \in Seq(Tips)
  BY <1>1 DEF TipInit
<1>3. /\ boot \in [Nodes -> [phase : {"best", "block", "up"}, tip : Tips]]
      /\ init \in [phase : {"best", "block", "done"}, tip : Tips]
  BY <1>1 DEF TipInit, Request
<1>4. /\ interval \in [Nodes -> {"unset", "running", "cleared"}]
      /\ polls \in [Nodes -> [1..MaxPolls ->
                    [stage : {"idle", "best", "info"}, from : Tips]]]
      /\ handlers \in [Nodes -> Nat]
  BY <1>1 DEF TipInit, NoPoll
<1>5. /\ age \in 0..(RapidInterval + 1)
      /\ timer \in [armed : BOOLEAN, left : 0..RapidInterval,
                    node : Nodes, tip : Tips]
  BY NoTimerType, TipAssumption DEF TipInit
<1>6. /\ tiphash \in Tips \cup {0}
      /\ asks \in [Nodes -> [Tips -> Nat]]
      /\ height \in Nat
      /\ stopping \in BOOLEAN
      /\ zmqEvents \in [Tips -> Nat]
      /\ latest \in Tips \cup {0}
      /\ overtaken \in BOOLEAN /\ crossed \in BOOLEAN
  BY DEF TipInit
<1>7. unfollowed \in 0..(MaxDelay + 2)
  BY TipAssumption DEF TipInit, MaxDelay
<1>. QED
  BY <1>2, <1>3, <1>4, <1>5, <1>6, <1>7 DEF TipTypeOK

-----------------------------------------------------------------------------
(* Every action keeps the state well typed. *)

PollsSet == [Nodes -> [1..MaxPolls -> [stage : {"idle", "best", "info"}, from : Tips]]]

LEMMA NoPollType == NoPoll \in [stage : {"idle", "best", "info"}, from : Tips]
BY TipAssumption DEF NoPoll, Tips

\* A poll may be replaced by any other poll.
LEMMA PollsType ==
    ASSUME polls \in PollsSet, NEW n \in Nodes, NEW i,
           NEW p \in [stage : {"idle", "best", "info"}, from : Tips]
    PROVE  [polls EXCEPT ![n][i] = p] \in PollsSet
BY DEF PollsSet

LEMMA PollsTyped == TipTypeOK => polls \in PollsSet
BY DEF TipTypeOK, PollsSet

LEMMA EndOfCheckType ==
    ASSUME TipTypeOK, NEW n \in Nodes, NEW i \in 1..MaxPolls, EndOfCheck(n, i)
    PROVE  /\ polls' \in PollsSet
           /\ interval' \in [Nodes -> {"unset", "running", "cleared"}]
           /\ handlers' \in [Nodes -> Nat]
<1>1. /\ polls' = [polls EXCEPT ![n][i] = NoPoll]
      /\ interval' = IF interval[n] = "unset"
                     THEN [interval EXCEPT ![n] = "running"] ELSE interval
      /\ handlers' = handlers
  BY DEF EndOfCheck
<1>2. polls \in PollsSet /\ interval \in [Nodes -> {"unset", "running", "cleared"}]
      /\ handlers \in [Nodes -> Nat]
  BY DEF TipTypeOK, PollsSet
<1>3. polls' \in PollsSet
  BY <1>1, <1>2, NoPollType, PollsType
<1>. QED
  BY <1>1, <1>2, <1>3

LEMMA TipStepTyped == TipTypeOK /\ [TipNext]_trackingVars => TipTypeOK'
<1> SUFFICES ASSUME TipTypeOK, [TipNext]_trackingVars PROVE TipTypeOK'
  OBVIOUS
<1> USE DEF zmqVars, pollVars, tipVars, clockVars
<1>1. CASE Tick
  <2>1. age \in 0..(RapidInterval + 1) /\ timer.left \in 0..RapidInterval
    BY DEF TipTypeOK
  <2>2. age' \in 0..(RapidInterval + 1)
    BY <1>1, <2>1, TipAssumption DEF Tick
  <2>3. timer' \in [armed : BOOLEAN, left : 0..RapidInterval, node : Nodes, tip : Tips]
    <3>1. CASE timer.left > 0
      <4>1. timer.left - 1 \in 0..RapidInterval
        BY <2>1, <3>1, TipAssumption
      <4>. QED
        BY <1>1, <3>1, <4>1 DEF Tick, TipTypeOK
    <3>2. CASE ~(timer.left > 0)
      BY <1>1, <3>2 DEF Tick, TipTypeOK
    <3>. QED
      BY <3>1, <3>2
  <2>4. UNCHANGED <<nodeTip, zmqVars, boot, init, pollVars, tipVars, height,
                    stopping, crossed>>
    BY <1>1 DEF Tick
  <2>5. unfollowed' \in 0..(MaxDelay + 2)
    <3>1. unfollowed \in 0..(MaxDelay + 2)
      BY DEF TipTypeOK
    <3>. QED
      BY <1>1, <3>1, TipAssumption DEF Tick, Counting, MaxDelay
  <2>. QED
    BY <2>2, <2>3, <2>4, <2>5 DEF TipTypeOK
<1>2. CASE TimerFires
  <2>1. UpdateTip(timer.node, timer.tip) /\ timer.node \in Nodes /\ timer.tip \in Tips
    BY <1>2 DEF TimerFires, TipTypeOK
  <2>2. /\ tiphash' \in Tips \cup {0}
        /\ asks' \in [Nodes -> [Tips -> Nat]]
        /\ crossed' \in BOOLEAN
    BY <2>1, UpdateTipType
  <2>3. /\ timer' = NoTimer
        /\ UNCHANGED <<nodeTip, zmqVars, boot, init, pollVars, age, latest,
                       overtaken, height, stopping>>
    BY <1>2 DEF TimerFires
  <2>4. unfollowed' \in 0..(MaxDelay + 2)
    BY <1>2, FollowedType DEF TimerFires
  <2>. QED
    BY <2>2, <2>3, <2>4, NoTimerType DEF TipTypeOK
<1>3. CASE InitBlock
  <2>1. height' \in Nat
    BY <1>3, TipAssumption DEF TipTypeOK, InitBlock
  <2>2. init' \in [phase : {"best", "block", "done"}, tip : Tips]
    <3>1. 1 \in Tips
      BY TipAssumption DEF Tips
    <3>. QED
      BY <1>3, <3>1 DEF InitBlock, Request
  <2>. QED
    BY <1>3, <2>1, <2>2 DEF TipTypeOK, InitBlock
<1>4. CASE Stop
  <2>1. interval' \in [Nodes -> {"unset", "running", "cleared"}]
    BY <1>4 DEF TipTypeOK, Stop
  <2>2. /\ stopping' = TRUE
        /\ UNCHANGED <<nodeTip, zmqVars, boot, init, polls, handlers, clockVars, tipVars, height, crossed>>
    BY <1>4 DEF Stop
  <2>. QED
    BY <2>1, <2>2 DEF TipTypeOK
<1>5. ASSUME NEW n \in Nodes, NodeAdvances(n) PROVE TipTypeOK'
  <2>1. nodeTip[n] \in Tips /\ nodeTip[n] < MaxTip
    BY <1>5 DEF TipTypeOK, NodeAdvances
  <2>2. nodeTip[n] + 1 \in Tips
    BY <2>1, TipAssumption DEF Tips
  <2>3. nodeTip' \in [Nodes -> Tips]
    BY <1>5, <2>2 DEF TipTypeOK, NodeAdvances
  <2>4. wire' \in [Nodes -> Seq(Tips)]
    <3>1. wire[n] \in Seq(Tips)
      BY DEF TipTypeOK
    <3>2. Append(wire[n], nodeTip[n] + 1) \in Seq(Tips)
      BY <2>2, <3>1
    <3>. QED
      BY <1>5, <3>2 DEF TipTypeOK, NodeAdvances
  <2>5. UNCHANGED <<known, zmqEvents, boot, init, pollVars, clockVars, tipVars,
                    height, stopping, crossed>>
    BY <1>5 DEF NodeAdvances
  <2>. QED
    BY <2>3, <2>4, <2>5 DEF TipTypeOK
<1>6. ASSUME NEW n \in Nodes, MessageLost(n) PROVE TipTypeOK'
  <2>1. wire' \in [Nodes -> Seq(Tips)]
    <3>1. Tail(wire[n]) \in Seq(Tips)
      BY <1>6, HeadTailProperties DEF TipTypeOK, MessageLost
    <3>. QED
      BY <1>6, <3>1 DEF TipTypeOK, MessageLost
  <2>2. UNCHANGED <<nodeTip, known, zmqEvents, boot, init, pollVars, clockVars,
                    tipVars, height, stopping, crossed>>
    BY <1>6 DEF MessageLost
  <2>. QED
    BY <2>1, <2>2 DEF TipTypeOK
<1>7. ASSUME NEW n \in Nodes, ReceiveBlock(n) PROVE TipTypeOK'
  <2> DEFINE t == Received(n)
  <2>1. wire[n] \in Seq(Tips) /\ wire[n] # <<>>
    BY <1>7 DEF TipTypeOK, ReceiveBlock
  <2>2. t \in Tips /\ Tail(wire[n]) \in Seq(Tips)
    BY <2>1, HeadTailProperties DEF Received
  <2>3. /\ tiphash' \in Tips \cup {0}
        /\ asks' \in [Nodes -> [Tips -> Nat]]
        /\ crossed' \in BOOLEAN
        /\ age' \in 0..(RapidInterval + 1)
    <3>1. CASE Rapid
      <4>1. UNCHANGED <<age, tiphash, asks, crossed>>
        BY <1>7, <3>1 DEF ReceiveBlock, AgeAfter
      <4>. QED
        BY <4>1 DEF TipTypeOK
    <3>2. CASE ~Rapid
      <4>1. age' = 0 /\ UpdateTip(n, t)
        BY <1>7, <3>2 DEF ReceiveBlock, AgeAfter
      <4>2. age' \in 0..(RapidInterval + 1)
        BY <4>1, TipAssumption
      <4>. QED
        BY <2>2, <4>1, <4>2, UpdateTipType
    <3>. QED
      BY <3>1, <3>2
  <2>4. timer' \in [armed : BOOLEAN, left : 0..RapidInterval, node : Nodes, tip : Tips]
    <3>1. timer' = TimerAfter(n, t)
      BY <1>7 DEF ReceiveBlock
    <3>. QED
      BY <2>2, <3>1, TimerAfterType
  <2>5. known' \in Seq(Tips)
    <3>1. known' = Remember(t) /\ known \in Seq(Tips)
      BY <1>7 DEF ReceiveBlock, TipTypeOK
    <3>. QED
      BY <2>2, <3>1, RememberType
  <2>6. /\ latest' = t
        /\ overtaken' = (~Rapid /\ handlers[n] = 1 /\ timer.armed /\ timer.tip # t)
        /\ wire' = [wire EXCEPT ![n] = Tail(@)]
        /\ zmqEvents' = [zmqEvents EXCEPT ![t] = @ + EventsFor(n, t)]
        /\ UNCHANGED <<nodeTip, boot, init, pollVars, height, stopping>>
    BY <1>7 DEF ReceiveBlock
  <2>7. wire' \in [Nodes -> Seq(Tips)]
    <3>1. wire \in [Nodes -> Seq(Tips)]
      BY DEF TipTypeOK
    <3> HIDE DEF t
    <3>. QED
      BY <2>2, <2>6, <3>1
  <2>8. zmqEvents' \in [Tips -> Nat]
    <3>1. zmqEvents \in [Tips -> Nat] /\ handlers[n] \in Nat
      BY DEF TipTypeOK
    <3>2. EventsFor(n, t) \in Nat
      BY <3>1 DEF EventsFor
    <3> HIDE DEF t
    <3>. QED
      BY <2>2, <2>6, <3>1, <3>2
  <2>9. overtaken' \in BOOLEAN
    BY <2>6
  <2>10. unfollowed' \in 0..(MaxDelay + 2)
    BY <1>7, FollowedType DEF ReceiveBlock
  <2> HIDE DEF t
  <2>. QED
    BY <2>2, <2>3, <2>4, <2>5, <2>6, <2>7, <2>8, <2>9, <2>10 DEF TipTypeOK
<1>8. ASSUME NEW n \in Nodes, BootBest(n) PROVE TipTypeOK'
  <2>1. boot' \in [Nodes -> [phase : {"best", "block", "up"}, tip : Tips]]
    BY <1>8 DEF TipTypeOK, BootBest, Request
  <2>2. crossed' = TRUE /\ UNCHANGED <<nodeTip, zmqVars, init, pollVars, clockVars, tipVars, height, stopping>>
    BY <1>8 DEF BootBest
  <2>. QED
    BY <2>1, <2>2 DEF TipTypeOK
<1>9. ASSUME NEW n \in Nodes, BootBlock(n) PROVE TipTypeOK'
  <2>1. height' \in Nat
    BY <1>9, TipAssumption DEF TipTypeOK, BootBlock
  <2>2. boot' \in [Nodes -> [phase : {"best", "block", "up"}, tip : Tips]]
    <3>1. Request("up", 1) \in [phase : {"best", "block", "up"}, tip : Tips]
      BY TipAssumption DEF Tips, Request
    <3>. QED
      BY <1>9, <3>1 DEF TipTypeOK, BootBlock
  <2>3. /\ polls' \in [Nodes -> [1..MaxPolls ->
                           [stage : {"idle", "best", "info"}, from : Tips]]]
        /\ handlers' \in [Nodes -> Nat]
    <3>1. CASE n \in Spawned
      <4>1. /\ polls' = [polls EXCEPT ![n][1] = [stage |-> "best", from |-> nodeTip[n]]]
            /\ handlers' = handlers /\ nodeTip[n] \in Tips
        BY <1>9, <3>1 DEF BootBlock, TipTypeOK
      <4>2. [stage |-> "best", from |-> nodeTip[n]]
              \in [stage : {"idle", "best", "info"}, from : Tips]
        BY <4>1
      <4>3. polls' \in PollsSet
        BY <4>1, <4>2, PollsTyped, PollsType
      <4>. QED
        BY <4>1, <4>3 DEF TipTypeOK, PollsSet
    <3>2. CASE n \notin Spawned
      <4>1. handlers' = [handlers EXCEPT ![n] = @ + 1] /\ polls' = polls
        BY <1>9, <3>2 DEF BootBlock
      <4>2. handlers \in [Nodes -> Nat] /\ polls \in PollsSet
        BY DEF TipTypeOK, PollsSet
      <4>. QED
        BY <4>1, <4>2 DEF PollsSet
    <3>. QED
      BY <3>1, <3>2
  <2>4. UNCHANGED <<nodeTip, zmqVars, init, interval, clockVars,
                    tipVars, stopping, crossed>>
    BY <1>9 DEF BootBlock
  <2>. QED
    BY <2>1, <2>2, <2>3, <2>4 DEF TipTypeOK
<1>10. ASSUME NEW n \in Nodes, BootError(n) PROVE TipTypeOK'
  <2>1. 1 \in Tips
    BY TipAssumption DEF Tips
  <2>2. boot' \in [Nodes -> [phase : {"best", "block", "up"}, tip : Tips]]
    BY <1>10, <2>1 DEF TipTypeOK, BootError, Request
  <2>3. UNCHANGED <<nodeTip, zmqVars, init, pollVars, clockVars, tipVars,
                    height, stopping, crossed>>
    BY <1>10 DEF BootError
  <2>. QED
    BY <2>2, <2>3 DEF TipTypeOK
<1>11. ASSUME NEW n \in Nodes, InitBest(n) PROVE TipTypeOK'
  <2>1. init' \in [phase : {"best", "block", "done"}, tip : Tips]
    BY <1>11 DEF TipTypeOK, InitBest, Request
  <2>2. crossed' = TRUE /\ UNCHANGED <<nodeTip, zmqVars, boot, pollVars, clockVars, tipVars, height, stopping>>
    BY <1>11 DEF InitBest
  <2>. QED
    BY <2>1, <2>2 DEF TipTypeOK
<1>12. ASSUME NEW n \in Nodes, NEW t \in Tips, AnswerHeight(n, t) PROVE TipTypeOK'
  <2>1. asks[n][t] - 1 \in Nat
    <3>1. asks[n][t] > 0 /\ asks[n][t] \in Nat
      BY <1>12 DEF TipTypeOK, AnswerHeight
    <3>. QED
      BY <3>1
  <2>2. asks' \in [Nodes -> [Tips -> Nat]]
    BY <1>12, <2>1 DEF TipTypeOK, AnswerHeight
  <2>3. height' \in Nat
    BY <1>12, TipAssumption DEF AnswerHeight, HeightAnswered
  <2>4. UNCHANGED <<nodeTip, zmqVars, boot, init, pollVars, clockVars, tiphash,
                    latest, overtaken, stopping, crossed>>
    BY <1>12 DEF AnswerHeight
  <2>. QED
    BY <2>2, <2>3, <2>4 DEF TipTypeOK
<1>13. ASSUME NEW n \in Nodes, NEW t \in Tips, AnswerError(n, t) PROVE TipTypeOK'
  <2>1. asks[n][t] - 1 \in Nat
    <3>1. asks[n][t] > 0 /\ asks[n][t] \in Nat
      BY <1>13 DEF TipTypeOK, AnswerError
    <3>. QED
      BY <3>1
  <2>2. asks' \in [Nodes -> [Tips -> Nat]]
    BY <1>13, <2>1 DEF TipTypeOK, AnswerError
  <2>3. crossed' = TRUE /\ UNCHANGED <<nodeTip, zmqVars, boot, init, pollVars, clockVars, tiphash, latest, overtaken, height, stopping>>
    BY <1>13 DEF AnswerError
  <2>. QED
    BY <2>2, <2>3 DEF TipTypeOK
<1>14. ASSUME NEW n \in Nodes, NEW i \in 1..MaxPolls, Poll(n, i) PROVE TipTypeOK'
  <2>1. CASE PollStarts(n, i)
    <3>1. /\ polls' = [polls EXCEPT ![n][i] = [stage |-> "best", from |-> nodeTip[n]]]
          /\ nodeTip[n] \in Tips
          /\ UNCHANGED <<nodeTip, zmqVars, boot, init, interval, handlers, clockVars, tipVars, height, stopping, crossed>>
      BY <2>1 DEF PollStarts, TipTypeOK
    <3>2. polls' \in PollsSet
      <4>1. [stage |-> "best", from |-> nodeTip[n]]
              \in [stage : {"idle", "best", "info"}, from : Tips]
        BY <3>1
      <4>. QED
        BY <3>1, <4>1, PollsType, PollsTyped
    <3>. QED
      BY <3>1, <3>2 DEF TipTypeOK, PollsSet
  <2>2. CASE PollBest(n, i)
    <3>1. PICK t \in polls[n][i].from .. nodeTip[n] :
            /\ polls' = [polls EXCEPT ![n][i].stage = "info"]
            /\ UpdateTip(n, t)
            /\ latest' = t
            /\ overtaken' = (timer.armed /\ timer.tip # t)
            /\ Followed(TRUE)
            /\ UNCHANGED <<nodeTip, zmqVars, boot, init, interval, handlers, age, timer,
                            height, stopping>>
      BY <2>2 DEF PollBest
    <3>2. t \in Tips
      <4>1. polls[n][i].from \in Tips /\ nodeTip[n] \in Tips
        <5>1. polls[n] \in [1..MaxPolls -> [stage : {"idle", "best", "info"}, from : Tips]]
          BY PollsTyped DEF PollsSet
        <5>2. polls[n][i] \in [stage : {"idle", "best", "info"}, from : Tips]
          BY <5>1
        <5>. QED
          BY <5>2 DEF TipTypeOK
      <4>. QED
        BY <4>1, TipAssumption DEF Tips
    <3>3. /\ tiphash' \in Tips \cup {0}
          /\ asks' \in [Nodes -> [Tips -> Nat]]
          /\ crossed' \in BOOLEAN
      BY <3>1, <3>2, UpdateTipType
    <3>4. polls' \in PollsSet
      <4>1. polls[n] \in [1..MaxPolls -> [stage : {"idle", "best", "info"}, from : Tips]]
        BY PollsTyped DEF PollsSet
      <4>2. [polls[n][i] EXCEPT !.stage = "info"]
              \in [stage : {"idle", "best", "info"}, from : Tips]
        BY <4>1
      <4>3. polls' = [polls EXCEPT ![n][i] = [polls[n][i] EXCEPT !.stage = "info"]]
        BY <3>1
      <4>. QED
        BY <4>2, <4>3, PollsType, PollsTyped
    <3>5. overtaken' \in BOOLEAN
      BY <3>1
    <3>6. unfollowed' \in 0..(MaxDelay + 2)
      BY <3>1, FollowedType
    <3>. QED
      BY <3>1, <3>2, <3>3, <3>4, <3>5, <3>6 DEF TipTypeOK, PollsSet
  <2>3. CASE PollError(n, i)
    <3>1. EndOfCheck(n, i) /\ UNCHANGED <<nodeTip, zmqVars, boot, init, clockVars, tipVars, height, stopping, crossed>>
      BY <2>3 DEF PollError
    <3>. QED
      BY <3>1, EndOfCheckType DEF TipTypeOK, PollsSet
  <2>4. CASE PollSynced(n, i)
    <3>1. /\ polls' = [polls EXCEPT ![n][i] = NoPoll]
          /\ UNCHANGED <<nodeTip, zmqVars, boot, init, clockVars,
                         tipVars, height, stopping, crossed>>
      BY <2>4 DEF PollSynced
    <3>2. polls' \in PollsSet
      BY <3>1, NoPollType, PollsType, PollsTyped
    <3>3. /\ interval' \in [Nodes -> {"unset", "running", "cleared"}]
          /\ handlers' \in [Nodes -> Nat]
      <4>1. /\ interval' = [interval EXCEPT ![n] = "cleared"]
            /\ handlers' = [handlers EXCEPT ![n] = @ + 1]
        BY <2>4 DEF PollSynced
      <4>2. /\ interval \in [Nodes -> {"unset", "running", "cleared"}]
            /\ handlers \in [Nodes -> Nat]
        BY DEF TipTypeOK
      <4>. QED
        BY <4>1, <4>2
    <3>. QED
      BY <3>1, <3>2, <3>3 DEF TipTypeOK, PollsSet
  <2>5. CASE PollNotSynced(n, i)
    <3>1. EndOfCheck(n, i) /\ UNCHANGED <<nodeTip, zmqVars, boot, init, clockVars, tipVars, height, stopping, crossed>>
      BY <2>5 DEF PollNotSynced
    <3>. QED
      BY <3>1, EndOfCheckType DEF TipTypeOK, PollsSet
  <2>. QED
    BY <1>14, <2>1, <2>2, <2>3, <2>4, <2>5 DEF Poll
<1>15. CASE UNCHANGED trackingVars
  BY <1>15 DEF trackingVars, TipTypeOK
<1>. QED
  BY <1>1, <1>2, <1>3, <1>4, <1>5, <1>6, <1>7, <1>8, <1>9, <1>10, <1>11, <1>12,
     <1>13, <1>14, <1>15 DEF TipNext

\* Type correctness: the variables stay in the sets the model declares, for
\* every chain and every number of processes and polls.
THEOREM TypeCorrect == TipSpec => []TipTypeOK
<1>1. TipInit => TipTypeOK
  BY TipInitTyped
<1>2. TipTypeOK /\ [TipNext]_trackingVars => TipTypeOK'
  BY TipStepTyped
<1>. QED
  BY <1>1, <1>2, PTL DEF TipSpec

-----------------------------------------------------------------------------
(* The tip settles on the last hash the service was told of. *)

\* After _updateTip(n, t) the tip is t, whether or not it was before.
LEMMA UpdateTipSets ==
    ASSUME NEW n, NEW t, UpdateTip(n, t)
    PROVE  tiphash' = t
BY DEF UpdateTip

LEMMA StepTipInv == TipTypeOK /\ TipInv /\ [TipNext]_trackingVars => TipInv'
<1> SUFFICES ASSUME TipTypeOK, TipInv, [TipNext]_trackingVars PROVE TipInv'
  OBVIOUS
<1> USE DEF tipVars, clockVars
<1>1. CASE Tick
  <2>1. timer'.armed = timer.armed /\ timer'.tip = timer.tip
    <3>1. timer \in [armed : BOOLEAN, left : 0..RapidInterval, node : Nodes, tip : Tips]
      BY DEF TipTypeOK
    <3>. QED
      BY <1>1, <3>1 DEF Tick
  <2>2. UNCHANGED <<tiphash, latest, overtaken>>
    BY <1>1 DEF Tick
  <2>. QED
    BY <2>1, <2>2 DEF TipInv
<1>2. CASE TimerFires
  <2>1. tiphash' = timer.tip
    BY <1>2, UpdateTipSets DEF TimerFires
  <2>2. timer.armed /\ timer' = NoTimer /\ UNCHANGED <<latest, overtaken>>
    BY <1>2 DEF TimerFires
  <2>. QED
    BY <2>1, <2>2 DEF TipInv, NoTimer
<1>3. ASSUME NEW n \in Nodes, ReceiveBlock(n) PROVE TipInv'
  <2> DEFINE t == Received(n)
  <2>1. /\ timer' = TimerAfter(n, t)
        /\ latest' = t
        /\ overtaken' = (~Rapid /\ handlers[n] = 1 /\ timer.armed /\ timer.tip # t)
        /\ handlers[n] > 0
    BY <1>3 DEF ReceiveBlock
  <2>2. CASE Rapid \/ handlers[n] > 1
    <3>1. timer'.armed /\ timer'.tip = t
      BY <2>1, <2>2 DEF TimerAfter
    <3>. QED
      BY <2>1, <3>1 DEF TipInv
  <2>3. CASE ~Rapid /\ ~(handlers[n] > 1)
    <3>1. timer' = timer
      BY <2>1, <2>3 DEF TimerAfter
    <3>2. UpdateTip(n, t)
      BY <1>3, <2>3 DEF ReceiveBlock
    <3>3. tiphash' = t
      BY <3>2, UpdateTipSets
    <3>4. handlers[n] = 1
      <4>1. handlers[n] \in Nat
        BY DEF TipTypeOK
      <4>. QED
        BY <2>1, <2>3, <4>1
    <3>. QED
      BY <2>1, <2>3, <3>1, <3>3, <3>4 DEF TipInv
  <2>. QED
    BY <2>2, <2>3
<1>4. ASSUME NEW n \in Nodes, NEW i \in 1..MaxPolls, PollBest(n, i) PROVE TipInv'
  <2>1. PICK t : /\ UpdateTip(n, t)
                 /\ latest' = t
                 /\ overtaken' = (timer.armed /\ timer.tip # t)
                 /\ timer' = timer
    BY <1>4 DEF PollBest
  <2>2. tiphash' = t
    BY <2>1, UpdateTipSets
  <2>. QED
    BY <2>1, <2>2 DEF TipInv
<1>5. ASSUME UNCHANGED <<timer, tiphash, latest, overtaken>> PROVE TipInv'
  BY <1>5 DEF TipInv
<1>6. ASSUME NEW n \in Nodes, NEW i \in 1..MaxPolls, Poll(n, i), ~PollBest(n, i)
      PROVE  UNCHANGED <<timer, tiphash, latest, overtaken>>
  BY <1>6 DEF Poll, PollStarts, PollError, PollSynced, PollNotSynced
<1>7. ASSUME NEW n \in Nodes,
             \/ NodeAdvances(n) \/ MessageLost(n) \/ BootBest(n) \/ BootBlock(n)
             \/ BootError(n) \/ InitBest(n)
             \/ \E t \in Tips : AnswerHeight(n, t) \/ AnswerError(n, t)
      PROVE  UNCHANGED <<timer, tiphash, latest, overtaken>>
  BY <1>7 DEF NodeAdvances, MessageLost, BootBest, BootBlock, BootError, InitBest,
              AnswerHeight, AnswerError
<1>8. ASSUME InitBlock \/ Stop \/ UNCHANGED trackingVars
      PROVE  UNCHANGED <<timer, tiphash, latest, overtaken>>
  BY <1>8 DEF InitBlock, Stop, trackingVars
<1>. QED
  BY <1>1, <1>2, <1>3, <1>4, <1>5, <1>6, <1>7, <1>8 DEF TipNext

\* With no delayed update pending, the tip is the last hash announced or polled,
\* except when an immediate update overtook an armed timer.
THEOREM TipSettles == TipSpec => []TipSettled
<1>1. TipInit => TipInv
  BY DEF TipInit, TipInv, NoTimer
<1>2. TipTypeOK /\ TipInv /\ [TipNext]_trackingVars => TipInv'
  BY StepTipInv
<1>3. TipInv => TipSettled
  BY DEF TipInv, TipSettled
<1>. QED
  BY <1>1, <1>2, <1>3, TypeCorrect, PTL DEF TipSpec

-----------------------------------------------------------------------------
(* The tip is never long behind what the service was told. *)

\* A delay within one interval and a whole run of the timer.
LEMMA TwoIntervals ==
    ASSUME NEW u \in Nat, NEW a \in Nat, NEW r \in Nat, u - 1 <= a, a <= r
    PROVE  u - 1 + r <= 2 * r
OBVIOUS

LEMMA StepDelayInv == TipTypeOK /\ DelayInv /\ [TipNext]_trackingVars => DelayInv'
<1> SUFFICES ASSUME TipTypeOK, DelayInv, [TipNext]_trackingVars PROVE DelayInv'
  OBVIOUS
<1> USE DEF tipVars, clockVars
<1>0. /\ unfollowed \in Nat /\ age \in Nat /\ RapidInterval \in Nat \ {0}
      /\ timer \in [armed : BOOLEAN, left : 0..RapidInterval, node : Nodes, tip : Tips]
      /\ MaxDelay = 2 * RapidInterval
  BY TipAssumption DEF TipTypeOK, MaxDelay
<1>1. CASE Tick
  <2>1. timer.left \in 0..RapidInterval
    BY <1>0
  <2>2. CASE timer.left > 0
    <3>1. timer' = [timer EXCEPT !.left = @ - 1]
      BY <1>1, <2>2 DEF Tick
    <3>2. timer'.armed = timer.armed /\ timer'.tip = timer.tip /\ timer'.left = timer.left - 1
      BY <1>0, <3>1
    <3>. QED
      BY <1>0, <1>1, <2>1, <2>2, <3>2 DEF Tick, Counting, DelayInv
  <2>3. CASE timer.left = 0
    <3>1. timer' = timer /\ latest' = latest
      BY <1>1, <2>3 DEF Tick
    <3>2. unfollowed' = unfollowed
      BY <1>0, <1>1, <2>3 DEF Tick, Counting, DelayInv
    <3>3. age' <= RapidInterval => age <= age'
      BY <1>0, <1>1 DEF Tick
    <3>4. age' \in Nat
      BY <1>0, <1>1 DEF Tick
    <3>. QED
      BY <1>0, <3>1, <3>2, <3>3, <3>4 DEF DelayInv
  <2>. QED
    BY <2>1, <2>2, <2>3
<1>2. CASE TimerFires
  <2>1. tiphash' = timer.tip /\ latest' = latest /\ Followed(FALSE)
    BY <1>2, UpdateTipSets DEF TimerFires
  <2>2. unfollowed' = 0
    BY <1>0, <2>1 DEF Followed, DelayInv
  <2>. QED
    BY <2>2 DEF DelayInv
<1>3. ASSUME NEW n \in Nodes, ReceiveBlock(n) PROVE DelayInv'
  <2> DEFINE t == Received(n)
  <2>1. timer' = TimerAfter(n, t) /\ latest' = t /\ age' = AgeAfter /\ Followed(TRUE)
    BY <1>3 DEF ReceiveBlock
  <2>2. CASE Rapid
    <3>1. timer' = [armed |-> TRUE, left |-> RapidInterval, node |-> n, tip |-> t]
      BY <2>1, <2>2 DEF TimerAfter
    <3>2. timer'.armed /\ timer'.tip = latest' /\ timer'.left = RapidInterval
      BY <2>1, <3>1
    <3>3. age' = age /\ age <= RapidInterval
      BY <1>0, <2>1, <2>2 DEF AgeAfter, Rapid
    <3>4. unfollowed' = 0 \/ unfollowed' = 1 \/ unfollowed' = unfollowed
      BY <2>1 DEF Followed
    <3>5. unfollowed > 0 => unfollowed - 1 <= age
      BY <3>3 DEF DelayInv
    <3>6. unfollowed - 1 <= age
      BY <1>0, <3>5
    <3>7. unfollowed \in Nat /\ age \in Nat /\ RapidInterval \in Nat
      BY <1>0
    <3>8. unfollowed' \in Nat /\ unfollowed' - 1 <= age
      BY <3>4, <3>6, <3>7
    <3>9. unfollowed' - 1 + RapidInterval <= MaxDelay
      <4>1. unfollowed' \in Nat /\ unfollowed' - 1 <= age /\ age <= RapidInterval
        BY <3>3, <3>8
      <4>2. unfollowed' - 1 + RapidInterval <= 2 * RapidInterval
        BY ONLY <3>7, <4>1, TwoIntervals
      <4>. QED
        BY <1>0, <4>2
    <3>. QED
      BY <3>2, <3>3, <3>8, <3>9 DEF DelayInv
  <2>3. CASE ~Rapid
    <3>1. tiphash' = t
      BY <1>3, <2>3, UpdateTipSets DEF ReceiveBlock
    <3>. QED
      BY <2>1, <3>1 DEF Followed, DelayInv
  <2>. QED
    BY <2>2, <2>3
<1>4. ASSUME NEW n \in Nodes, NEW i \in 1..MaxPolls, PollBest(n, i) PROVE DelayInv'
  <2>1. PICK t : UpdateTip(n, t) /\ latest' = t /\ Followed(TRUE)
    BY <1>4 DEF PollBest
  <2>. QED
    BY <2>1, UpdateTipSets DEF Followed, DelayInv
<1>5. ASSUME UNCHANGED <<clockVars, latest>> PROVE DelayInv'
  BY <1>5 DEF DelayInv
<1>6. ASSUME NEW n \in Nodes, NEW i \in 1..MaxPolls, Poll(n, i), ~PollBest(n, i)
      PROVE  UNCHANGED <<clockVars, latest>>
  BY <1>6 DEF Poll, PollStarts, PollError, PollSynced, PollNotSynced
<1>7. ASSUME NEW n \in Nodes,
             \/ NodeAdvances(n) \/ MessageLost(n) \/ BootBest(n) \/ BootBlock(n)
             \/ BootError(n) \/ InitBest(n)
             \/ \E t \in Tips : AnswerHeight(n, t) \/ AnswerError(n, t)
      PROVE  UNCHANGED <<clockVars, latest>>
  BY <1>7 DEF NodeAdvances, MessageLost, BootBest, BootBlock, BootError, InitBest,
              AnswerHeight, AnswerError
<1>8. ASSUME InitBlock \/ Stop \/ UNCHANGED trackingVars
      PROVE  UNCHANGED <<clockVars, latest>>
  BY <1>8 DEF InitBlock, Stop, trackingVars
<1>. QED
  BY <1>1, <1>2, <1>3, <1>4, <1>5, <1>6, <1>7, <1>8 DEF TipNext

\* For every number of processes and any stream of announcements, a hash the service
\* was told of, or one it was told later, is the tip within two intervals, but for the
\* time a timer that is due is not run (_rapidProtectedUpdateTip).
THEOREM FollowsInTime == TipSpec => []FollowedInTime
<1>1. TipInit => DelayInv
  BY DEF TipInit, DelayInv
<1>2. TipTypeOK /\ DelayInv /\ [TipNext]_trackingVars => DelayInv'
  BY StepDelayInv
<1>3. TipTypeOK /\ DelayInv => FollowedInTime
  <2> SUFFICES ASSUME TipTypeOK, DelayInv PROVE FollowedInTime
    OBVIOUS
  <2>1. unfollowed \in Nat /\ timer.left \in Nat /\ MaxDelay \in Nat
    BY TipAssumption DEF TipTypeOK, MaxDelay
  <2>. QED
    BY <2>1 DEF DelayInv, FollowedInTime
<1>. QED
  BY <1>1, <1>2, <1>3, TypeCorrect, PTL DEF TipSpec

-----------------------------------------------------------------------------
(* The height settles on the height of the tip. *)

\* An update that finds no other answer on its way leaves only its own request.
LEMMA UpdateTipHeightInv ==
    ASSUME TipTypeOK, HeightInv, NEW n \in Nodes, NEW t \in Tips, UpdateTip(n, t),
           UNCHANGED <<init, boot, height>>
    PROVE  HeightInv'
<1>1. CASE t = tiphash
  <2>1. UNCHANGED <<tiphash, asks, crossed>>
    BY <1>1 DEF UpdateTip
  <2>. QED
    BY <2>1 DEF HeightInv, NoAsks
<1>2. CASE t # tiphash
  <2>1. /\ tiphash' = t
        /\ asks' = [asks EXCEPT ![n][t] = @ + 1]
        /\ crossed' = ~HeightQuiet
    BY <1>2 DEF UpdateTip
  <2>2. SUFFICES ASSUME HeightQuiet PROVE HeightInv'
    BY <2>1 DEF HeightInv
  <2>3. /\ asks \in [Nodes -> [Tips -> Nat]]
        /\ \A m \in Nodes, u \in Tips : asks[m][u] = 0
    BY <2>2 DEF TipTypeOK, HeightQuiet, NoAsks
  <2>4. \A m \in Nodes, u \in Tips : asks'[m][u] = IF m = n /\ u = t THEN 1 ELSE 0
    BY <2>1, <2>3
  <2>5. ~NoAsks'
    BY <2>4 DEF NoAsks
  <2>6. init'.phase # "block" /\ \A m \in Nodes : boot'[m].phase # "block"
    BY <2>2 DEF HeightQuiet
  <2>. QED
    BY <2>1, <2>4, <2>5, <2>6 DEF HeightInv
<1>. QED
  BY <1>1, <1>2

LEMMA StepHeightInv == TipTypeOK /\ HeightInv /\ [TipNext]_trackingVars => HeightInv'
<1> SUFFICES ASSUME TipTypeOK, HeightInv, [TipNext]_trackingVars PROVE HeightInv'
  OBVIOUS
<1> USE DEF tipVars, zmqVars, pollVars, clockVars
<1>1. CASE TimerFires
  <2>1. /\ UpdateTip(timer.node, timer.tip)
        /\ timer.node \in Nodes /\ timer.tip \in Tips
        /\ UNCHANGED <<init, boot, height>>
    BY <1>1 DEF TimerFires, TipTypeOK
  <2>. QED
    BY <2>1, UpdateTipHeightInv
<1>2. ASSUME NEW n \in Nodes, ReceiveBlock(n) PROVE HeightInv'
  <2>1. UNCHANGED <<init, boot, height>>
    BY <1>2 DEF ReceiveBlock
  <2>2. CASE Rapid
    <3>1. UNCHANGED <<tiphash, asks, crossed>>
      BY <1>2, <2>2 DEF ReceiveBlock
    <3>. QED
      BY <2>1, <3>1 DEF HeightInv, NoAsks
  <2>3. CASE ~Rapid
    <3>1. UpdateTip(n, Received(n))
      BY <1>2, <2>3 DEF ReceiveBlock
    <3>2. Received(n) \in Tips
      BY <1>2, HeadTailProperties DEF ReceiveBlock, Received, TipTypeOK
    <3>. QED
      BY <2>1, <3>1, <3>2, UpdateTipHeightInv
  <2>. QED
    BY <2>2, <2>3
<1>3. ASSUME NEW n \in Nodes, NEW i \in 1..MaxPolls, PollBest(n, i) PROVE HeightInv'
  <2>1. PICK t \in polls[n][i].from .. nodeTip[n] :
          UpdateTip(n, t) /\ UNCHANGED <<init, boot, height>>
    BY <1>3 DEF PollBest
  <2>2. polls[n][i].from \in Tips /\ nodeTip[n] \in Tips
    <3>1. polls[n] \in [1..MaxPolls -> [stage : {"idle", "best", "info"}, from : Tips]]
      BY PollsTyped DEF PollsSet
    <3>2. polls[n][i] \in [stage : {"idle", "best", "info"}, from : Tips]
      BY <3>1
    <3>. QED
      BY <3>2 DEF TipTypeOK
  <2>3. t \in Tips
    BY <2>2, TipAssumption DEF Tips
  <2>. QED
    BY <2>1, <2>3, UpdateTipHeightInv
<1>4. ASSUME NEW n \in Nodes, NEW t \in Tips, AnswerHeight(n, t) PROVE HeightInv'
  <2>1. /\ asks[n][t] > 0
        /\ asks' = [asks EXCEPT ![n][t] = @ - 1]
        /\ height' = HeightOf[t]
        /\ UNCHANGED <<init, boot, tiphash, crossed>>
    BY <1>4 DEF AnswerHeight, HeightAnswered
  <2>2. \A m \in Nodes, u \in Tips : asks'[m][u] > 0 => asks[m][u] > 0
    <3>1. asks \in [Nodes -> [Tips -> Nat]]
      BY DEF TipTypeOK
    <3>. QED
      BY <2>1, <3>1
  <2>. QED
    BY <2>1, <2>2 DEF HeightInv
<1>5. ASSUME \/ \E n \in Nodes : BootBest(n) \/ InitBest(n)
             \/ \E n \in Nodes, t \in Tips : AnswerError(n, t)
      PROVE  HeightInv'
  <2>1. crossed' = TRUE
    BY <1>5 DEF BootBest, InitBest, AnswerError
  <2>. QED
    BY <2>1 DEF HeightInv
<1>6. ASSUME NEW n \in Nodes, BootBlock(n) \/ BootError(n) PROVE HeightInv'
  <2>1. boot[n].phase = "block" /\ crossed' = crossed
    BY <1>6 DEF BootBlock, BootError
  <2>. QED
    BY <2>1 DEF HeightInv
<1>7. CASE InitBlock
  BY <1>7 DEF InitBlock, HeightInv
<1>8. ASSUME UNCHANGED <<init, boot, height, tiphash, asks, crossed>> PROVE HeightInv'
  BY <1>8 DEF HeightInv, NoAsks
<1>9. ASSUME NEW n \in Nodes, NEW i \in 1..MaxPolls, Poll(n, i), ~PollBest(n, i)
      PROVE  UNCHANGED <<init, boot, height, tiphash, asks, crossed>>
  BY <1>9 DEF Poll, PollStarts, PollError, PollSynced, PollNotSynced
<1>10. ASSUME \/ \E n \in Nodes : NodeAdvances(n) \/ MessageLost(n)
              \/ Tick \/ Stop \/ UNCHANGED trackingVars
       PROVE  UNCHANGED <<init, boot, height, tiphash, asks, crossed>>
  BY <1>10 DEF NodeAdvances, MessageLost, Tick, Stop, trackingVars
<1>. QED
  BY <1>1, <1>2, <1>3, <1>4, <1>5, <1>6, <1>7, <1>8, <1>9, <1>10 DEF TipNext

\* With every request answered, the height is that of the tip, unless answers
\* crossed or the request of the last update failed.
THEOREM HeightSettles == TipSpec => []HeightSettled
<1>1. TipInit => HeightInv
  <2> SUFFICES ASSUME TipInit PROVE HeightInv
    OBVIOUS
  <2>1. tiphash = 0 /\ init.phase # "block"
    BY DEF TipInit, Request
  <2>2. \A n \in Nodes : boot[n].phase # "block"
    BY DEF TipInit, Request
  <2>3. \A n \in Nodes, t \in Tips : asks[n][t] = 0
    BY DEF TipInit
  <2>. QED
    BY <2>1, <2>2, <2>3 DEF HeightInv
<1>2. TipTypeOK /\ HeightInv /\ [TipNext]_trackingVars => HeightInv'
  BY StepHeightInv
<1>3. HeightInv => HeightSettled
  BY DEF HeightInv, HeightSettled, HeightQuiet
<1>. QED
  BY <1>1, <1>2, <1>3, TypeCorrect, PTL DEF TipSpec

-----------------------------------------------------------------------------
(* One 'block' event for a block, while the LRU has room for every block. *)

\* No hash is in zmqKnownBlocks twice.
KnownDistinct == \A i, j \in 1..Len(known) : known[i] = known[j] => i = j

\* A block whose event was emitted is remembered, and has had one event.
EventInv ==
    MaxTip <= KnownSize =>
        /\ KnownDistinct
        /\ \A t \in Tips : zmqEvents[t] <= 1 /\ (zmqEvents[t] # 0 => Remembered(t))

\* Distinct tips fit into the LRU: a block that is not among them finds room.
LEMMA NewBlockFits ==
    ASSUME TipTypeOK, KnownDistinct, MaxTip <= KnownSize, NEW t \in Tips, ~Remembered(t)
    PROVE  Len(known) < KnownSize
<1>1. known \in Seq(Tips) /\ Len(known) \in Nat
  BY DEF TipTypeOK
<1>2. MaxTip \in Nat \ {0} /\ KnownSize \in Nat \ {0}
  BY TipAssumption
<1>3. SUFFICES ASSUME Len(known) >= MaxTip PROVE FALSE
  BY <1>1, <1>2
<1>4. IsFiniteSet(1..MaxTip) /\ Cardinality(1..MaxTip) = MaxTip
  BY <1>2, FS_Interval
<1>5. IsFiniteSet(Tips \ {t}) /\ Cardinality(Tips \ {t}) = MaxTip - 1
  BY <1>4, FS_RemoveElement DEF Tips
<1>6. \A i \in 1..MaxTip : i \in 1..Len(known) /\ known[i] \in Tips \ {t}
  BY <1>1, <1>2, <1>3 DEF Remembered
<1> DEFINE f == [i \in 1..MaxTip |-> known[i]]
<1>7. f \in [1..MaxTip -> Tips \ {t}]
  BY <1>6
<1>8. Cardinality(Tips \ {t}) < Cardinality(1..MaxTip)
  BY <1>2, <1>4, <1>5
<1>9. PICK i, j \in 1..MaxTip : i # j /\ f[i] = f[j]
  <2> HIDE DEF f
  <2>. QED
    BY <1>4, <1>5, <1>7, <1>8, FS_PigeonHole
<1>. QED
  BY <1>6, <1>9 DEF KnownDistinct

\* An interval from 1 has one end.
LEMMA SameLength ==
    ASSUME NEW a \in Nat, NEW b \in Nat, 1..a = 1..b
    PROVE  a = b
<1>1. CASE a < b
  <2>1. b \in 1..b /\ ~(b \in 1..a)
    BY <1>1
  <2>. QED BY <2>1
<1>2. CASE b < a
  <2>1. a \in 1..a /\ ~(a \in 1..b)
    BY <1>2
  <2>. QED BY <2>1
<1>. QED BY <1>1, <1>2

\* zmqKnownBlocks.set moves an entry to the front and keeps all others, when
\* there is room: no hash is forgotten or stored twice.
LEMMA RememberKeeps ==
    ASSUME TipTypeOK, KnownDistinct, MaxTip <= KnownSize, NEW t \in Tips, known' = Remember(t)
    PROVE  /\ KnownDistinct'
           /\ \E i \in DOMAIN known' : known'[i] = t
           /\ \A s \in Tips : s = t \/ Remembered(s) => Remembered(s)'
<1>1. known \in Seq(Tips) /\ Len(known) \in Nat
  BY DEF TipTypeOK
<1>2. known' \in Seq(Tips) /\ Len(known') \in Nat /\ DOMAIN known' = 1..Len(known')
  <2>1. known' \in Seq(Tips)
    BY <1>1, RememberType
  <2>. QED
    BY <2>1
<1>3. ASSUME NEW p \in 1..(Len(known) + 1), NEW size \in {p, Len(known)},
             p <= size, Len(known) <= size,
             p <= Len(known) => known[p] = t,
             p = Len(known) + 1 => ~Remembered(t),
             known' = [i \in 1..size |-> IF i = 1 THEN t
                                         ELSE IF i <= p THEN known[i - 1] ELSE known[i]]
      PROVE  /\ KnownDistinct'
             /\ \E i \in DOMAIN known' : known'[i] = t
             /\ \A s \in Tips : s = t \/ Remembered(s) => Remembered(s)'
  <2>1. size \in Nat /\ size >= 1 /\ DOMAIN known' = 1..size
    BY <1>1, <1>3
  <2>2. Len(known') = size
    <3>1. 1..Len(known') = 1..size
      BY <1>2, <2>1
    <3> HIDE DEF Remember
    <3>. QED BY ONLY <1>2, <2>1, <3>1, SameLength
  <2>3. known'[1] = t /\ 1 \in 1..size
    BY <1>3, <2>1
  <2>4. \A i \in 2..p : known'[i] = known[i - 1] /\ i \in 1..size /\ i - 1 \in 1..Len(known)
    BY <1>1, <1>3, <2>1
  <2>5. \A i \in (p + 1)..size : known'[i] = known[i] /\ i \in 1..size /\ i \in 1..Len(known)
    BY <1>1, <1>3, <2>1
  <2>6. \A i \in 1..Len(known) : i # p => known[i] # t
    <3>1. CASE p = Len(known) + 1
      BY <1>3, <3>1 DEF Remembered
    <3>2. CASE p <= Len(known)
      <4>1. p \in 1..Len(known) /\ known[p] = t
        BY <1>1, <1>3, <3>2
      <4>. QED BY <4>1 DEF KnownDistinct
    <3>. QED BY <1>1, <3>1, <3>2
  <2>7. KnownDistinct'
    <3>1. SUFFICES ASSUME NEW i \in 1..size, NEW j \in 1..size, i < j
                   PROVE  known'[i] # known'[j]
      BY <1>1, <2>1, <2>2 DEF KnownDistinct
    <3>2. CASE i = 1 /\ j <= p
      BY <1>1, <2>1, <2>3, <2>4, <2>6, <3>1, <3>2
    <3>3. CASE i = 1 /\ j > p
      BY <1>1, <2>1, <2>3, <2>5, <2>6, <3>1, <3>3
    <3>4. CASE i # 1 /\ j <= p
      <4>1. i \in 2..p /\ j \in 2..p
        BY <1>1, <2>1, <3>1, <3>4
      <4>. QED BY <2>4, <3>1, <4>1 DEF KnownDistinct
    <3>5. CASE i # 1 /\ i <= p /\ j > p
      <4>1. i \in 2..p /\ j \in (p + 1)..size
        BY <1>1, <2>1, <3>1, <3>5
      <4>2. i - 1 # j
        BY <3>1
      <4>. QED BY <2>4, <2>5, <4>1, <4>2 DEF KnownDistinct
    <3>6. CASE i > p
      <4>1. i \in (p + 1)..size /\ j \in (p + 1)..size
        BY <1>1, <2>1, <3>1, <3>6
      <4>. QED BY <2>5, <3>1, <4>1 DEF KnownDistinct
    <3>. QED BY <1>1, <2>1, <3>2, <3>3, <3>4, <3>5, <3>6
  <2>8. ASSUME NEW s \in Tips, s # t, Remembered(s) PROVE Remembered(s)'
    <3>1. PICK i \in 1..Len(known) : known[i] = s
      BY <2>8 DEF Remembered
    <3>2. i # p
      BY <1>1, <1>3, <2>8, <3>1
    <3>3. CASE i < p
      <4>1. i + 1 \in 2..p /\ (i + 1) - 1 = i
        BY <1>1, <1>3, <3>1, <3>3
      <4>. QED BY <2>2, <2>4, <3>1, <4>1 DEF Remembered
    <3>4. CASE i > p
      <4>1. i \in (p + 1)..size
        BY <1>1, <1>3, <3>1, <3>4
      <4>. QED BY <2>2, <2>5, <3>1, <4>1 DEF Remembered
    <3>. QED BY <1>1, <3>2, <3>3, <3>4
  <2>9. Remembered(t)'
    BY <2>2, <2>3 DEF Remembered
  <2>. QED BY <2>1, <2>3, <2>7, <2>8, <2>9
<1>4. CASE Remembered(t)
  <2> DEFINE p == CHOOSE i \in 1..Len(known) : known[i] = t
  <2>1. p \in 1..Len(known) /\ known[p] = t
    BY <1>4 DEF Remembered
  <2>2. known' = [i \in 1..Len(known) |-> IF i = 1 THEN t
                                          ELSE IF i <= p THEN known[i - 1] ELSE known[i]]
    BY <1>1, <1>4, <2>1 DEF Remember
  <2> HIDE DEF p
  <2>. QED BY <1>1, <1>3, <2>1, <2>2
<1>5. CASE ~Remembered(t)
  <2>1. Len(known) < KnownSize
    BY <1>5, NewBlockFits
  <2>2. known' = [i \in 1..(Len(known) + 1) |-> IF i = 1 THEN t
                       ELSE IF i <= Len(known) + 1 THEN known[i - 1] ELSE known[i]]
    BY <1>1, <1>5, <2>1 DEF Remember
  <2>. QED BY <1>1, <1>3, <1>5, <2>2
<1>. QED BY <1>4, <1>5

LEMMA StepEventInv == TipTypeOK /\ EventInv /\ [TipNext]_trackingVars => EventInv'
<1> SUFFICES ASSUME TipTypeOK, EventInv, [TipNext]_trackingVars, MaxTip <= KnownSize
             PROVE  /\ KnownDistinct'
                    /\ \A s \in Tips :
                          zmqEvents'[s] <= 1 /\ (zmqEvents'[s] # 0 => Remembered(s)')
  BY DEF EventInv
<1>1. KnownDistinct /\ \A t \in Tips : zmqEvents[t] <= 1 /\ (zmqEvents[t] # 0 => Remembered(t))
  BY DEF EventInv
<1>2. ASSUME NEW n \in Nodes, ReceiveBlock(n)
      PROVE  /\ KnownDistinct'
             /\ \A s \in Tips : zmqEvents'[s] <= 1 /\ (zmqEvents'[s] # 0 => Remembered(s)')
  <2> DEFINE t == Received(n)
  <2>1. t \in Tips
    BY <1>2, HeadTailProperties DEF ReceiveBlock, Received, TipTypeOK
  <2>2. known' = Remember(t) /\ zmqEvents' = [zmqEvents EXCEPT ![t] = @ + EventsFor(n, t)]
    BY <1>2 DEF ReceiveBlock
  <2>3. /\ KnownDistinct'
        /\ \E i \in DOMAIN known' : known'[i] = t
        /\ \A s \in Tips : s = t \/ Remembered(s) => Remembered(s)'
    <3> HIDE DEF t
    <3>. QED BY <1>1, <2>1, <2>2, RememberKeeps
  <2>4. zmqEvents \in [Tips -> Nat]
    BY DEF TipTypeOK
  <2>5. EventsFor(n, t) = IF Remembered(t) THEN 0 ELSE 1
    BY <2>3 DEF EventsFor
  <2>6. zmqEvents'[t] = zmqEvents[t] + EventsFor(n, t) /\ \A s \in Tips \ {t} : zmqEvents'[s] = zmqEvents[s]
    BY <2>1, <2>2, <2>4
  <2>7. zmqEvents'[t] <= 1
    BY <1>1, <2>1, <2>4, <2>5, <2>6
  <2> HIDE DEF t
  <2>. QED BY <1>1, <2>1, <2>3, <2>6, <2>7
<1>3. ASSUME UNCHANGED <<known, zmqEvents>>
      PROVE  /\ KnownDistinct'
             /\ \A s \in Tips : zmqEvents'[s] <= 1 /\ (zmqEvents'[s] # 0 => Remembered(s)')
  BY <1>1, <1>3 DEF KnownDistinct, Remembered
<1>4. ASSUME NEW n \in Nodes, NEW i \in 1..MaxPolls, Poll(n, i) PROVE UNCHANGED <<known, zmqEvents>>
  BY <1>4 DEF Poll, PollStarts, PollBest, PollError, PollSynced, PollNotSynced, zmqVars
<1>5. ASSUME \/ Tick \/ TimerFires \/ InitBlock \/ Stop \/ UNCHANGED trackingVars
             \/ \E n \in Nodes :
                  \/ NodeAdvances(n) \/ MessageLost(n)
                  \/ BootBest(n) \/ BootBlock(n) \/ BootError(n) \/ InitBest(n)
                  \/ \E t \in Tips : AnswerHeight(n, t) \/ AnswerError(n, t)
      PROVE  UNCHANGED <<known, zmqEvents>>
  BY <1>5 DEF Tick, TimerFires, InitBlock, Stop, NodeAdvances, MessageLost, BootBest, BootBlock,
              BootError, InitBest, AnswerHeight, AnswerError, zmqVars, trackingVars
<1>. QED
  BY <1>2, <1>3, <1>4, <1>5 DEF TipNext

\* While the LRU has room for every block, a block is announced to the rest of
\* the node once, whatever the number of processes and listeners is
\* (_zmqBlockHandler).
THEOREM BlockEventsOnce == TipSpec => []BlockEventOnce
<1>1. TipInit => EventInv
  <2> SUFFICES ASSUME TipInit PROVE EventInv
    OBVIOUS
  <2>1. known = <<>> /\ \A t \in Tips : zmqEvents[t] = 0
    BY DEF TipInit
  <2>2. KnownDistinct
    BY <2>1 DEF KnownDistinct
  <2>. QED
    BY <2>1, <2>2 DEF EventInv
<1>2. TipTypeOK /\ EventInv /\ [TipNext]_trackingVars => EventInv'
  BY StepEventInv
<1>3. EventInv => BlockEventOnce
  BY DEF EventInv, BlockEventOnce
<1>. QED
  BY <1>1, <1>2, <1>3, TypeCorrect, PTL DEF TipSpec
=============================================================================
