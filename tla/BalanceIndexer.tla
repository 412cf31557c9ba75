--------------------------- MODULE BalanceIndexer ---------------------------
(***************************************************************************)
(* AddressBalanceService (insight-api/services) with the balance cache of  *)
(* the silubiumd service.  The indexer walks the chain block by block; for *)
(* every address of a block it asks for the balance the address has NOW    *)
(* and writes it over the row of the address, or removes the row when it   *)
(* is zero.  The balance comes from a cache that is emptied when the       *)
(* service hears of a new best block, and that an answer is put into when  *)
(* it arrives, also when the cache was emptied since it was asked for.     *)
(*                                                                         *)
(* A block is the number of its making; a balance is the last block that   *)
(* changed it (0: none did).  After an update, and before the first, the   *)
(* lists that the API serves are made of the rows: the intervals of powers *)
(* of ten with the addresses in each, and the richest addresses.  The list *)
(* of addresses richer than an amount of dollars is always empty, for      *)
(* MarketsService no longer asks for the price.                            *)
(***************************************************************************)
EXTENDS Integers, Sequences, FiniteSetsExt

CONSTANTS
    Addresses,
    MaxBlock,       \* bound: blocks made, on the chain or replaced
    Touched,        \* Touched[b]: the addresses of the transactions of block b
    Amount,         \* Amount[b][a]: what a has when block b was the last to change it
    MinBorder,      \* MIN_BORDER
    Limit,          \* BALANCES_LIMIT
    None,           \* no cache entry, no answer
    Asked           \* a request that the node has not answered

Blocks == 1..MaxBlock
Balances == 0..MaxBlock

ASSUME BalanceAssumption ==
    /\ MaxBlock \in Nat \ {0} /\ IsFiniteSet(Addresses)
    /\ Touched \in [Blocks -> SUBSET Addresses]
    /\ Amount \in [Blocks -> [Addresses -> Nat]]
    /\ MinBorder \in Nat \ {0} /\ Limit \in Nat \ {0}
    /\ None \notin Balances /\ Asked # None

VARIABLES
    chain,              \* the node's blocks, from height 1
    made,               \* blocks made so far; the best block is the last one made
    heightOf,           \* heightOf[b]: height of block b
    tip,                \* the block the caches were last emptied for
    tipHeight,          \* heights up to this one may be reported by 'tip'
    cache,              \* balanceCache: the balance answered, and (history) whether
                        \* the caches had been emptied since the answer was made
    query,              \* query[a]: a request of the API for the balance of a
    phase,              \* the service: "down", its start steps, "up", "failed"
    lastTipHeight, lastCheckedBlock, target, cursor, step, stalled,
    left,               \* addresses of the block whose balance is still to be done
    at,                 \* the address being done
    answer,             \* its balance, once it is known
    stored,             \* last_block_number of ADDRESS_BALANCE
    row,                \* row[a]: the balance of a in the collection, 0 for none
    intervals,          \* cacheIntervals
    richest,            \* richestAddressesListCache
    late,               \* history: addresses whose row was written from such a balance
    replaced            \* history: addresses of replaced blocks

nodeVars == <<chain, made, heightOf, replaced>>
cacheVars == <<tip, tipHeight, cache, query>>
loopVars == <<lastTipHeight, lastCheckedBlock, target, cursor, step, stalled>>
blockVars == <<left, at, answer>>
rowVars  == <<row, late>>
listVars == <<intervals, richest>>
vars == <<nodeVars, cacheVars, phase, loopVars, blockVars, stored, rowVars, listVars>>

Phases  == {"down", "load", "info", "caches", "richest", "up", "failed"}
Steps   == {"idle", "block", "next", "asked", "answered", "write", "save",
            "caches", "richest"}
Replies == [balance : Balances, best : Blocks]
Entries == [balance : Balances, overtaken : BOOLEAN]

TypeOK ==
    /\ chain \in Seq(Blocks) /\ made \in Blocks
    /\ heightOf \in [Blocks -> 0..MaxBlock] /\ replaced \subseteq Addresses
    /\ tip \in 0..made /\ tipHeight \in 0..MaxBlock
    /\ cache \in [Addresses -> Entries \cup {None}]
    /\ query \in [Addresses -> Replies \cup {None, Asked}]
    /\ phase \in Phases
    /\ {lastTipHeight, lastCheckedBlock, target, cursor} \subseteq 0..MaxBlock
    /\ step \in Steps /\ stalled \in BOOLEAN
    /\ left \subseteq Addresses /\ at \in Addresses \cup {None}
    /\ answer \in Replies \cup Entries \cup {None}
    /\ stored \in 0..MaxBlock
    /\ row \in [Addresses -> Balances] /\ late \subseteq Addresses
    /\ intervals \in Seq([min : Nat, max : Nat, count : Nat, sum : Nat])
    /\ richest \in Seq([address : Addresses, balance : Nat])

Init ==
    /\ chain = <<1>> /\ made = 1 /\ replaced = {}
    /\ heightOf = [b \in Blocks |-> IF b = 1 THEN 1 ELSE 0]
    /\ tip = 0 /\ tipHeight = 0
    /\ cache = [a \in Addresses |-> None] /\ query = [a \in Addresses |-> None]
    /\ phase = "down"
    /\ lastTipHeight = 0 /\ lastCheckedBlock = 0 /\ target = 0 /\ cursor = 0
    /\ step = "idle" /\ stalled = FALSE
    /\ left = {} /\ at = None /\ answer = None
    /\ stored = 0
    /\ row = [a \in Addresses |-> 0] /\ late = {}
    /\ intervals = <<>> /\ richest = <<>>

-----------------------------------------------------------------------------
(* The node. *)

Best == made

\* The balance of a: the last block of the chain with a transaction of it.
NodeBalance(a) ==
    LET touching == {h \in DOMAIN chain : a \in Touched[chain[h]]}
    IN  IF touching = {} THEN 0 ELSE chain[Max(touching)]

\* The answer of the node, from the chain it has when it works it out.
NodeAnswer(a) == [balance |-> NodeBalance(a), best |-> Best]

NewBlock ==
    /\ made < MaxBlock
    /\ made' = made + 1
    /\ chain' = Append(chain, made + 1)
    /\ heightOf' = [heightOf EXCEPT ![made + 1] = Len(chain) + 1]
    /\ UNCHANGED <<replaced, cacheVars, phase, loopVars, blockVars, stored, rowVars,
                   listVars>>

\* The last block gives way to two new ones.
Reorganise ==
    /\ made + 2 <= MaxBlock
    /\ made' = made + 2
    /\ chain' = [chain EXCEPT ![Len(chain)] = made + 1] \o <<made + 2>>
    /\ heightOf' = [heightOf EXCEPT ![made + 1] = Len(chain),
                                    ![made + 2] = Len(chain) + 1]
    /\ replaced' = replaced \cup Touched[chain[Len(chain)]] \cup Touched[made + 1]
    /\ UNCHANGED <<cacheVars, phase, loopVars, blockVars, stored, rowVars, listVars>>

-----------------------------------------------------------------------------
(* The silubiumd service. *)

Larger(x, y) == IF x > y THEN x ELSE y

\* Wrong: the balance cache is not among those that are emptied.
UpdateTip_KeepsBalances(b) ==
    /\ phase # "down" /\ b > tip
    /\ tip' = b
    /\ tipHeight' = Larger(tipHeight, heightOf[b])
    /\ UNCHANGED <<nodeVars, cache, query, phase, loopVars, blockVars, stored,
                   rowVars, listVars>>

\* The announcement of a best block arrives, or the delayed update for it is run:
\* _resetCaches, and a request whose answer will be reported by 'tip'.
UpdateTip(b) ==
    /\ phase # "down" /\ b > tip
    /\ tip' = b
    /\ cache' = [a \in Addresses |-> None]
    /\ tipHeight' = Larger(tipHeight, heightOf[b])
    /\ UNCHANGED <<nodeVars, query, phase, loopVars, blockVars, stored, rowVars, listVars>>

\* A client of the HTTP API asks for the balance of a, which is not in the cache.
ApiAsks(a) ==
    /\ phase \in {"up", "failed"}
    /\ query[a] = None /\ cache[a] = None
    /\ query' = [query EXCEPT ![a] = Asked]
    /\ UNCHANGED <<nodeVars, tip, tipHeight, cache, phase, loopVars, blockVars,
                   stored, rowVars, listVars>>

NodeAnswersApi(a) ==
    /\ query[a] = Asked
    /\ query' = [query EXCEPT ![a] = NodeAnswer(a)]
    /\ UNCHANGED <<nodeVars, tip, tipHeight, cache, phase, loopVars, blockVars,
                   stored, rowVars, listVars>>

\* What the callback of getAddressBalance puts into the cache.
Entry(reply) == [balance |-> reply.balance, overtaken |-> reply.best < tip]

ApiAnswered(a) ==
    /\ query[a] \notin {None, Asked}
    /\ cache' = [cache EXCEPT ![a] = Entry(query[a])]
    /\ query' = [query EXCEPT ![a] = None]
    /\ UNCHANGED <<nodeVars, tip, tipHeight, phase, loopVars, blockVars, stored,
                   rowVars, listVars>>

-----------------------------------------------------------------------------
(* start *)

\* The silubiumd service has loaded its tip; setLastBlockType.
Start ==
    /\ phase = "down"
    /\ phase' = "load"
    /\ tip' = Best /\ tipHeight' = heightOf[Best]
    /\ UNCHANGED <<nodeVars, cache, query, loopVars, blockVars, stored, rowVars, listVars>>

StartFails ==
    /\ phase \in {"load", "info", "caches", "richest"}
    /\ phase' = "failed"
    /\ UNCHANGED <<nodeVars, cacheVars, loopVars, blockVars, stored, rowVars, listVars>>

GetLastBlock ==
    /\ phase = "load"
    /\ phase' = "info"
    /\ lastCheckedBlock' = stored
    /\ UNCHANGED <<nodeVars, cacheVars, lastTipHeight, target, cursor, step, stalled,
                   blockVars, stored, rowVars, listVars>>

GetInfo ==
    /\ phase = "info"
    /\ phase' = "caches"
    /\ lastTipHeight' = Len(chain)
    /\ UNCHANGED <<nodeVars, cacheVars, lastCheckedBlock, target, cursor, step,
                   stalled, blockVars, stored, rowVars, listVars>>

-----------------------------------------------------------------------------
(* _updateCaches: the lists are made of the rows. *)

Rows == {a \in Addresses : row[a] # 0}
AmountOf(a) == Amount[row[a]][a]
Within(lo, hi) == {a \in Rows : lo < AmountOf(a) /\ AmountOf(a) <= hi}

Border[i \in Nat] == IF i = 0 THEN MinBorder ELSE 10 * Border[i - 1]

\* The loop that adds an interval ends at the first border above the largest
\* balance.
BordersUpTo(top) ==
    CHOOSE n \in 0..top : top < Border[n] /\ (n = 0 \/ Border[n - 1] <= top)

\* getInfoByInterval for the interval with the border i at its upper end.
Interval(i) ==
    LET lo   == IF i = 0 THEN 0 ELSE Border[i - 1]
        held == Within(lo, Border[i])
    IN  [min |-> lo, max |-> Border[i], count |-> Cardinality(held),
         sum |-> MapThenSumSet(AmountOf, held)]

\* updateCacheIntervals; no intervals without a balance.
MakeIntervals ==
    intervals' =
        IF Rows = {} THEN <<>>
        ELSE LET top == Max({AmountOf(a) : a \in Rows})
             IN  [i \in 1..(BordersUpTo(top) + 1) |-> Interval(i - 1)]

\* updateRichestAddressesList; which comes first of two that have the same is for
\* the database to choose.
MakeRichest ==
    LET n == Min({Limit, Cardinality(Rows)})
    IN  \E s \in [1..n -> Rows] :
            /\ \A i \in 1..n, a \in Rows :
                 (\A k \in 1..i : s[k] # a) => AmountOf(s[i]) >= AmountOf(a)
            /\ \A i, k \in 1..n : s[i] = s[k] => i = k
            /\ richest' = [i \in 1..n |-> [address |-> s[i], balance |-> AmountOf(s[i])]]

-----------------------------------------------------------------------------
(* _rapidProtectedUpdateTip and _processLastBlocks *)

\* Wrong: the lists are made again only when there are no more blocks to do.
Proceed_WithoutLists(checked, height) ==
    /\ target' = height
    /\ IF checked < height THEN step' = "block" /\ cursor' = checked + 1
                           ELSE step' = "idle" /\ UNCHANGED cursor

\* The next block on the way to height, or the lists when it is reached.
Proceed(checked, height) ==
    /\ target' = height
    /\ IF checked < height THEN step' = "block" /\ cursor' = checked + 1
                           ELSE step' = "caches" /\ UNCHANGED cursor

\* The first half of _updateCaches, of start and of an update.
IntervalsMade ==
    /\ MakeIntervals
    /\ \/ phase = "caches" /\ phase' = "richest" /\ UNCHANGED step
       \/ step = "caches" /\ step' = "richest" /\ UNCHANGED phase
    /\ UNCHANGED <<nodeVars, cacheVars, lastTipHeight, lastCheckedBlock, target,
                   cursor, stalled, blockVars, stored, rowVars, richest>>

\* The lists of start are made; the service listens to 'tip' and starts its first
\* update.
ListsMade ==
    /\ phase = "richest"
    /\ MakeRichest
    /\ phase' = "up"
    /\ stalled' = FALSE
    /\ Proceed(lastCheckedBlock, lastTipHeight)
    /\ UNCHANGED <<nodeVars, cacheVars, lastTipHeight, lastCheckedBlock, blockVars,
                   stored, rowVars, intervals>>

Tip(height) ==
    /\ phase = "up" /\ height <= tipHeight
    /\ lastTipHeight' = Larger(lastTipHeight, height)
    /\ IF step # "idle"
       THEN UNCHANGED <<target, cursor, step, stalled>>
       ELSE stalled' = FALSE /\ Proceed(lastCheckedBlock, height)
    /\ UNCHANGED <<nodeVars, cacheVars, phase, lastCheckedBlock, blockVars, stored,
                   rowVars, listVars>>

\* The lists of an update are made, then lastTipHeight is looked at again.
CachesUpdated ==
    /\ step = "richest"
    /\ MakeRichest
    /\ IF lastTipHeight # target
       THEN Proceed(lastCheckedBlock, lastTipHeight)
       ELSE step' = "idle" /\ UNCHANGED <<target, cursor>>
    /\ UNCHANGED <<nodeVars, cacheVars, phase, lastTipHeight, lastCheckedBlock,
                   stalled, blockVars, stored, rowVars, intervals>>

-----------------------------------------------------------------------------
(* processBlock *)

\* getBlockOverview and its transactions: the addresses of the block.
GetBlock ==
    /\ step = "block" /\ cursor \in DOMAIN chain
    /\ left' = Touched[chain[cursor]]
    /\ step' = IF left' = {} THEN "save" ELSE "next"
    /\ UNCHANGED <<nodeVars, cacheVars, phase, lastTipHeight, lastCheckedBlock,
                   target, cursor, stalled, at, answer, stored, rowVars, listVars>>

\* getAddressBalance for the next address: from the cache, or from the node.
GetBalance(a) ==
    /\ step = "next" /\ a \in left
    /\ at' = a
    /\ answer' = cache[a]
    /\ step' = IF cache[a] # None THEN "write" ELSE "asked"
    /\ UNCHANGED <<nodeVars, cacheVars, phase, lastTipHeight, lastCheckedBlock,
                   target, cursor, stalled, left, stored, rowVars, listVars>>

NodeAnswers ==
    /\ step = "asked"
    /\ answer' = NodeAnswer(at)
    /\ step' = "answered"
    /\ UNCHANGED <<nodeVars, cacheVars, phase, lastTipHeight, lastCheckedBlock,
                   target, cursor, stalled, left, at, stored, rowVars, listVars>>

\* The callback of getAddressBalance.
BalanceAnswered ==
    /\ step = "answered"
    /\ answer' = Entry(answer)
    /\ cache' = [cache EXCEPT ![at] = answer']
    /\ step' = "write"
    /\ UNCHANGED <<nodeVars, tip, tipHeight, query, phase, lastTipHeight,
                   lastCheckedBlock, target, cursor, stalled, left, at, stored,
                   rowVars, listVars>>

\* What a row with this balance of a shows; a zero balance has no row.
Shown(a, balance) ==
    IF balance \in Blocks /\ Amount[balance][a] = 0 THEN 0 ELSE balance

\* createOrUpdateBalance, or removeBalanceByAddress.
Written(a, balance) == [row EXCEPT ![a] = Shown(a, balance)]

WriteRow ==
    /\ row' = Written(at, answer.balance)
    /\ late' = IF answer.overtaken THEN late \cup {at} ELSE late \ {at}

RowWritten ==
    /\ step = "write"
    /\ WriteRow
    /\ left' = left \ {at}
    /\ step' = IF left' = {} THEN "save" ELSE "next"
    /\ at' = None /\ answer' = None
    /\ UNCHANGED <<nodeVars, cacheVars, phase, lastTipHeight, lastCheckedBlock,
                   target, cursor, stalled, stored, listVars>>

\* updateOrAddLastBlock, then the next block.
Save ==
    /\ step = "save"
    /\ stored' = cursor
    /\ lastCheckedBlock' = cursor
    /\ Proceed(cursor, target)
    /\ UNCHANGED <<nodeVars, cacheVars, phase, lastTipHeight, stalled, blockVars,
                   rowVars, listVars>>

\* The write under way when something fails may have taken effect.
WriteUnderWay ==
    \/ UNCHANGED <<rowVars, stored>>
    \/ step = "write" /\ WriteRow /\ UNCHANGED stored
    \/ step = "save" /\ stored' = cursor /\ UNCHANGED rowVars

\* A request or a write of the update is answered with an error.
LoopFails ==
    /\ step # "idle" /\ phase = "up"
    /\ WriteUnderWay
    /\ left' = {} /\ at' = None /\ answer' = None
    /\ step' = "idle" /\ stalled' = TRUE
    /\ UNCHANGED <<nodeVars, cacheVars, phase, lastTipHeight, lastCheckedBlock,
                   target, cursor, listVars>>

\* The process ends.
Crash ==
    /\ phase # "down"
    /\ WriteUnderWay
    /\ phase' = "down"
    /\ tip' = 0 /\ tipHeight' = 0
    /\ cache' = [a \in Addresses |-> None] /\ query' = [a \in Addresses |-> None]
    /\ lastTipHeight' = 0 /\ lastCheckedBlock' = 0 /\ target' = 0 /\ cursor' = 0
    /\ step' = "idle" /\ stalled' = FALSE
    /\ left' = {} /\ at' = None /\ answer' = None
    /\ intervals' = <<>> /\ richest' = <<>>
    /\ UNCHANGED nodeVars

-----------------------------------------------------------------------------
Next ==
    \/ NewBlock \/ Reorganise
    \/ \E b \in 1..made : UpdateTip(b)
    \/ \E a \in Addresses : ApiAsks(a) \/ NodeAnswersApi(a) \/ ApiAnswered(a)
    \/ Start \/ StartFails \/ GetLastBlock \/ GetInfo \/ IntervalsMade \/ ListsMade
    \/ \E height \in Blocks : Tip(height)
    \/ GetBlock \/ \E a \in Addresses : GetBalance(a)
    \/ NodeAnswers \/ BalanceAnswered \/ RowWritten \/ Save \/ CachesUpdated
    \/ LoopFails \/ Crash

Spec == Init /\ [][Next]_vars

-----------------------------------------------------------------------------
(* Properties. *)

\* Addresses with a transaction in a block the checkpoint has not passed.
Waiting == UNION {Touched[chain[h]] : h \in {k \in DOMAIN chain : k > stored}}

\* The rows of the addresses the checkpoint has passed show the balances of the
\* node, through errors, crashes and restarts; what may be wrong is a row written
\* from an answer that was under way when the caches were emptied, and a row of an
\* address of a replaced block, which is not looked at again (processBlock).
RowsAreCurrent ==
    \A a \in Addresses \ (Waiting \cup late \cup replaced) :
        row[a] = Shown(a, NodeBalance(a))

\* Between updates, unless the last one ended with an error, the checkpoint is at the
\* highest tip the service heard of, and the lists are those of the rows: every row
\* counts in one interval, and the richest list has the balances of now and leaves
\* out no address that has more than one of it (_updateCaches,
\* _rapidProtectedUpdateTip).
ListsAreCurrent ==
    phase = "up" /\ step = "idle" /\ ~stalled =>
        /\ lastCheckedBlock >= lastTipHeight
        /\ LET All(field(_)) == MapThenSumSet(LAMBDA i : field(intervals[i]), DOMAIN intervals)
           IN  /\ All(LAMBDA interval : interval.count) = Cardinality(Rows)
               /\ All(LAMBDA interval : interval.sum) = MapThenSumSet(AmountOf, Rows)
        /\ \A i \in DOMAIN richest :
             /\ richest[i].address \in Rows
             /\ richest[i].balance = AmountOf(richest[i].address)
        /\ \A a \in Rows :
             \/ \E i \in DOMAIN richest : richest[i].address = a
             \/ /\ Len(richest) = Limit
                /\ \A i \in DOMAIN richest : richest[i].balance >= AmountOf(a)
=============================================================================
