--------------------------- MODULE AddressCaches ----------------------------
(***************************************************************************)
(* The caches of the silubiumd service for what it was told of one         *)
(* address: its transactions, its unspent outputs and its balance.  All    *)
(* are emptied when the service hears of a new best block; an answer that  *)
(* was under way then is put into its cache all the same.                  *)
(***************************************************************************)
EXTENDS AddressNode

CONSTANT None           \* nothing in the cache

VARIABLES
    tip,                \* the block the caches were last emptied for
    cache               \* txidsCache, utxosCache and balanceCache

cacheVars == <<tip, cache>>

Caches == {"txids", "utxos", "balance"}

\* The transactions of an answer, the best block it is of, and (history) whether the
\* caches had been emptied for a later one when it came.  A list of the node is a set,
\* for the node lists nothing twice; the order of a list is left out.
Entries == [txs : SUBSET Txs, best : 0..MaxBlock, overtaken : BOOLEAN]

ASSUME CacheAssumption == None \notin Entries

\* A call that is not made.
Idle == [step |-> "idle"]

CachesTypeOK ==
    /\ NodeTypeOK
    /\ tip \in 0..made
    /\ cache \in [Caches -> Entries \cup {None}]

CachesInit ==
    /\ NodeInit
    /\ tip = 0
    /\ cache = [name \in Caches |-> None]

\* Wrong: the lists are not among the caches that are emptied.
ResetCaches_KeepsLists(b) ==
    /\ b > tip
    /\ tip' = b
    /\ cache' = [cache EXCEPT !["balance"] = None]
    /\ UNCHANGED nodeVars

\* The service hears of best block b: _resetCaches.
ResetCaches(b) ==
    /\ b > tip
    /\ tip' = b
    /\ cache' = [name \in Caches |-> None]
    /\ UNCHANGED nodeVars

\* What a cache keeps of an answer.
Entry(txs, best) == [txs |-> txs, best |-> best, overtaken |-> best < tip]

\* (history) The block an entry counts as being of when it is used: it has survived
\* the last reset, so it is not older, unless it was overtaken on its way into the cache.
BestOf(entry, best) == IF entry.overtaken THEN best ELSE Larger(best, tip)
=============================================================================
