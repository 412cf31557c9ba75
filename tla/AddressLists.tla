---------------------------- MODULE AddressLists ----------------------------
(***************************************************************************)
(* getAddressTxids and getAddressUnspentOutputs of the silubiumd service,  *)
(* for one address.  Their answers join two lists the node gives at two    *)
(* times: the mempool, asked for on every call, and what is confirmed,     *)
(* which may come from a cache that is looked up when the call begins and  *)
(* emptied when the service hears of a new best block.  Blocks, mempool    *)
(* and calls go on in between.  A list that is joined of two is a bag.     *)
(***************************************************************************)
EXTENDS AddressCaches

CONSTANT Calls          \* bound: calls under way at a time

VARIABLE calls

vars == <<nodeVars, cacheVars, calls>>

\* What a call asks for.
Lists == {"txids", "utxos"}

\* queryMempool (the default), queryMempool = false, start and end, queryMempoolOnly.
Modes(kind) ==
    IF kind = "txids" THEN {"all", "confirmed", "range", "mempool"}
                      ELSE {"all", "confirmed"}

\* since and until: the blocks between the makings of the two lists.
CallRecords ==
    [step : {"mempool", "list", "listed", "done"}, kind : Lists,
     mode : UNION {Modes(kind) : kind \in Lists}, known : SUBSET Txs,
     hit : Entries \cup {None}, mempool : SUBSET Txs, list : SUBSET Txs,
     since : 0..MaxBlock, until : 0..MaxBlock]

CallStates == {Idle} \cup CallRecords

TypeOK == CachesTypeOK /\ calls \in [Calls -> CallStates]

Init == CachesInit /\ calls = [c \in Calls |-> Idle]

-----------------------------------------------------------------------------
IsSpentBy(t, txs) == \E s \in txs : Spends[s] = t

\* getaddresstxids and getaddressutxos.
NodeList(kind) ==
    IF kind = "txids" THEN Confirmed ELSE {t \in Confirmed : ~IsSpentBy(t, Confirmed)}

-----------------------------------------------------------------------------
(* The silubiumd service. *)

TipUpdated(b) == ResetCaches(b) /\ UNCHANGED calls

\* Wrong: a transaction that both lists have is listed twice.
Unlisted_All(mempool, list) == mempool

\* filterDuplicates.
Unlisted(mempool, list) == mempool \ list

\* The transactions of the mempool, then those of the list.
Joined(mempool, list) == SetToBag(Unlisted(mempool, list)) (+) SetToBag(list)

\* Wrong: outputs that the mempool spends are listed.
Merged_KeepsSpent(kind, mempool, list) == Joined(mempool, list)

\* updateWithMempool also takes out the outputs the mempool spends.
Merged(kind, mempool, list) ==
    IF kind = "txids" THEN Joined(mempool, list)
    ELSE [t \in {u \in DOMAIN Joined(mempool, list) : ~IsSpentBy(u, mempool)}
            |-> Joined(mempool, list)[t]]

\* The cache is looked up first, in every mode but that of the mempool alone; a range
\* query does not use what it finds.
Begin(c, kind, mode) ==
    LET hit == IF mode \in {"all", "confirmed"} THEN cache[kind] ELSE None
    IN  /\ calls[c] = Idle
        /\ calls' = [calls EXCEPT ![c] =
             [step    |-> IF mode \in {"all", "mempool"} THEN "mempool"
                          ELSE IF hit # None THEN "done" ELSE "list",
              kind    |-> kind,
              mode    |-> mode,
              known   |-> CASE mode = "all" -> Known
                            [] mode = "mempool" -> pool
                            [] OTHER -> Confirmed,
              hit     |-> hit,
              mempool |-> {},
              list    |-> IF hit # None THEN hit.txs ELSE {},
              since   |-> IF hit = None THEN made ELSE BestOf(hit, hit.best),
              until   |-> made]]
        /\ UNCHANGED <<nodeVars, cacheVars>>

\* getAddressMempool, worked out and delivered; then finish.
MempoolAnswered(c) ==
    /\ calls[c].step = "mempool"
    /\ calls' = [calls EXCEPT ![c] =
         [@ EXCEPT !.mempool = pool, !.until = made,
                   !.step = IF calls[c].hit # None \/ calls[c].mode = "mempool"
                            THEN "done" ELSE "list"]]
    /\ UNCHANGED <<nodeVars, cacheVars>>

\* The node works out the confirmed list.
NodeLists(c) ==
    /\ calls[c].step = "list"
    /\ calls' = [calls EXCEPT ![c] =
         [@ EXCEPT !.list = NodeList(calls[c].kind), !.since = made, !.step = "listed"]]
    /\ UNCHANGED <<nodeVars, cacheVars>>

\* It arrives, and goes into the cache unless it is that of a range.
ListAnswered(c) ==
    /\ calls[c].step = "listed"
    /\ calls' = [calls EXCEPT ![c].step = "done"]
    /\ cache' = IF calls[c].mode = "range" THEN cache
                ELSE [cache EXCEPT ![calls[c].kind] = Entry(calls[c].list, calls[c].since)]
    /\ UNCHANGED <<nodeVars, tip>>

\* An error of the node ends the call.
Fails(c) ==
    /\ calls[c].step \in {"mempool", "list"}
    /\ calls' = [calls EXCEPT ![c] = Idle]
    /\ UNCHANGED <<nodeVars, cacheVars>>

\* The caller has its answer.
Returned(c) ==
    /\ calls[c].step = "done"
    /\ calls' = [calls EXCEPT ![c] = Idle]
    /\ UNCHANGED <<nodeVars, cacheVars>>

Answer(call) == Merged(call.kind, call.mempool, call.list)

-----------------------------------------------------------------------------
\* A step of a call.
CallMoves(c) ==
    \/ \E kind \in Lists : \E mode \in Modes(kind) : Begin(c, kind, mode)
    \/ MempoolAnswered(c) \/ NodeLists(c) \/ ListAnswered(c)
    \/ Fails(c) \/ Returned(c)

Next ==
    \/ NodeMoves /\ UNCHANGED <<cacheVars, calls>>
    \/ \E b \in 1..made : TipUpdated(b)
    \/ \E c \in Calls : CallMoves(c)

Spec == Init /\ [][Next]_vars

-----------------------------------------------------------------------------
(* Properties of the answers. *)

Answered(kind) == {calls[c] : c \in {d \in Calls : calls[d].step = "done"
                                                     /\ calls[d].kind = kind}}

\* Transactions that went into or out of the chain between the makings of the lists.
\* Of a list from the cache, only the blocks count that the service had not heard of
\* when the call began, unless the answer was overtaken on its way into the cache.
Moved(call) == MovedBetween(call.since, call.until)

\* No transaction and no output is in an answer twice, also when it is confirmed
\* between the two requests (filterDuplicates).
NothingTwice ==
    \A kind \in Lists : \A call \in Answered(kind) : \A t \in DOMAIN Answer(call) : Answer(call)[t] = 1

\* An output that a transaction known when the call began spends is not in the
\* answer, unless that transaction moved (getAddressUnspentOutputs).
SpentIsGone ==
    \A call \in Answered("utxos") : \A s \in call.known :
        Spends[s] \in DOMAIN Answer(call) => s \in Moved(call)

\* A transaction the node had when the call began, or, of the unspent outputs, one
\* whose output nothing spends, is in the answer, unless it moved between the two
\* lists: the mempool is read before the confirmed list, and the cache looked up
\* before both (getAddressTxids, getAddressUnspentOutputs).
NothingLost ==
    \A kind \in Lists : \A call \in Answered(kind) : \A t \in call.known :
        kind = "txids" \/ ~IsSpentBy(t, Known) => t \in DOMAIN Answer(call) \cup Moved(call)
=============================================================================
