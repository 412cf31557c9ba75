--------------------------- MODULE AddressSummary ---------------------------
(***************************************************************************)
(* getAddressSummary of the silubiumd service, for one address.  It asks   *)
(* for three things at once, the confirmed transactions, the balance and   *)
(* the mempool, and joins them when the last has come; the first two may   *)
(* come from caches, and the whole goes into a third one, from which calls *)
(* that want no list are answered.  That one, too, is emptied when the     *)
(* service hears of a new best block.                                      *)
(*                                                                         *)
(* What the node knows of the balance is the set of transactions it has    *)
(* taken into account.                                                     *)
(***************************************************************************)
EXTENDS AddressCaches

CONSTANT Summaries      \* bound: summaries under way at a time

VARIABLES summaryCache, summaries

summaryVars == <<nodeVars, cacheVars, summaryCache, summaries>>

Cached == {"txids", "balance"}
Parts == Cached \cup {"mempool"}

\* What a part brings: the transactions, and the best block they are of.
Figures == [txs : SUBSET Txs, best : 0..MaxBlock]
Nothing == [txs |-> {}, best |-> 0]

Kept == [figures : [Parts -> Figures], overtaken : BOOLEAN]

ASSUME SummaryAssumption == None \notin Kept

SummaryRecords ==
    [step : {"asking", "failed", "done"}, noTxList : BOOLEAN, queryMempool : BOOLEAN,
     part : [Parts -> {"off", "asked", "made", "done"}], figures : [Parts -> Figures],
     known : SUBSET Txs, pending : SUBSET Txs, begun : 0..MaxBlock]

SummaryStates == {Idle} \cup SummaryRecords

SummaryTypeOK ==
    /\ CachesTypeOK
    /\ summaryCache \in Kept \cup {None}
    /\ summaries \in [Summaries -> SummaryStates]

SummaryInit ==
    /\ CachesInit
    /\ summaryCache = None
    /\ summaries = [c \in Summaries |-> Idle]

-----------------------------------------------------------------------------
\* Wrong: the summaries are not among the caches that are emptied.
SummaryReset_KeepsSummary(b) ==
    /\ ResetCaches(b)
    /\ UNCHANGED <<summaryCache, summaries>>

\* _resetCaches empties the summaries as well.
SummaryReset(b) ==
    /\ ResetCaches(b)
    /\ summaryCache' = None
    /\ UNCHANGED summaries

\* A call that wants no list is answered with the summary in the cache.
AnswerFromCache(c, queryMempool) ==
    /\ summaries[c] = Idle
    /\ summaryCache # None
    /\ summaries' = [summaries EXCEPT ![c] =
         [step         |-> "done",
          noTxList     |-> TRUE,
          queryMempool |-> queryMempool,
          part         |-> [p \in Parts |-> "off"],
          figures      |-> [p \in Parts |-> [txs  |-> summaryCache.figures[p].txs,
                                             best |-> BestOf(summaryCache,
                                                             summaryCache.figures[p].best)]],
          known        |-> Known,
          pending      |-> pool,
          begun        |-> made]]
    /\ UNCHANGED <<nodeVars, cacheVars, summaryCache>>

\* Otherwise the three are asked for at once: querySummary.
QuerySummary(c, noTxList, queryMempool) ==
    /\ summaries[c] = Idle
    /\ noTxList => summaryCache = None
    /\ summaries' = [summaries EXCEPT ![c] =
         [step         |-> "asking",
          noTxList     |-> noTxList,
          queryMempool |-> queryMempool,
          part         |-> [p \in Parts |->
                              IF p = "mempool"
                              THEN IF queryMempool THEN "asked" ELSE "done"
                              ELSE IF cache[p] # None THEN "done" ELSE "asked"],
          figures      |-> [p \in Parts |->
                              IF p \in Cached /\ cache[p] # None
                              THEN [txs  |-> cache[p].txs,
                                    best |-> BestOf(cache[p], cache[p].best)]
                              ELSE Nothing],
          known        |-> Known,
          pending      |-> pool,
          begun        |-> made]]
    /\ UNCHANGED <<nodeVars, cacheVars, summaryCache>>

\* The node works out a part.
NodeAnswers(c, p) ==
    /\ summaries[c] # Idle /\ summaries[c].part[p] = "asked"
    /\ summaries' = [summaries EXCEPT ![c] =
         [@ EXCEPT !.part[p] = "made",
                   !.figures[p] = [txs  |-> IF p = "mempool" THEN pool ELSE Confirmed,
                                   best |-> made]]]
    /\ UNCHANGED <<nodeVars, cacheVars, summaryCache>>

\* It arrives, and goes into its cache, also when another part has failed.
PartAnswered(c, p) ==
    LET figure == summaries[c].figures[p]
    IN  /\ summaries[c] # Idle /\ summaries[c].part[p] = "made"
        /\ summaries' = [summaries EXCEPT ![c].part[p] = "done"]
        /\ cache' = IF p \in Cached THEN [cache EXCEPT ![p] = Entry(figure.txs, figure.best)]
                                   ELSE cache
        /\ UNCHANGED <<nodeVars, tip, summaryCache>>

\* A part fails: the caller is called back at once, the other parts go on.
PartFails(c, p) ==
    /\ summaries[c] # Idle /\ summaries[c].part[p] = "asked"
    /\ summaries' = [summaries EXCEPT ![c] =
         [@ EXCEPT !.part[p] = "off", !.step = "failed"]]
    /\ UNCHANGED <<nodeVars, cacheVars, summaryCache>>

\* Wrong: the summary is made without waiting for the mempool.
Whole_NoMempool(call) ==
    /\ call.step = "asking"
    /\ \A p \in Cached : call.part[p] = "done"

\* async.parallel: every part is there.
Whole(call) ==
    /\ call.step = "asking"
    /\ \A p \in Parts : call.part[p] = "done"

\* The summary goes into its cache, and finishWithTxids.
Finish(c) ==
    /\ Whole(summaries[c])
    /\ summaries' = [summaries EXCEPT ![c].step = "done"]
    /\ summaryCache' = [figures |-> summaries[c].figures,
                        overtaken |-> \E p \in Cached : summaries[c].figures[p].best < tip]
    /\ UNCHANGED <<nodeVars, cacheVars>>

\* The caller has its answer, and nothing the call asked for is on its way.
SummaryReturned(c) ==
    /\ summaries[c] # Idle /\ summaries[c].step \in {"done", "failed"}
    /\ \A p \in Parts : summaries[c].part[p] \in {"off", "done"}
    /\ summaries' = [summaries EXCEPT ![c] = Idle]
    /\ UNCHANGED <<nodeVars, cacheVars, summaryCache>>

-----------------------------------------------------------------------------
SummaryMoves(c) ==
    \/ \E queryMempool \in BOOLEAN :
         \/ AnswerFromCache(c, queryMempool)
         \/ \E noTxList \in BOOLEAN : QuerySummary(c, noTxList, queryMempool)
    \/ \E p \in Parts : NodeAnswers(c, p) \/ PartAnswered(c, p) \/ PartFails(c, p)
    \/ Finish(c) \/ SummaryReturned(c)

SummaryNext ==
    \/ NodeMoves /\ UNCHANGED <<cacheVars, summaryCache, summaries>>
    \/ \E b \in 1..made : SummaryReset(b)
    \/ \E c \in Summaries : SummaryMoves(c)

SummarySpec == SummaryInit /\ [][SummaryNext]_summaryVars

-----------------------------------------------------------------------------
(* Properties of the answers. *)

Given == {summaries[c] : c \in {d \in Summaries : summaries[d].step = "done"}}

MovedBetweenParts(call, p, q) == MovedBetween(call.figures[p].best, call.figures[q].best)

\* The parts of a summary are of one chain: its list and its amounts differ, and a
\* transaction is twice in the list, joined without a look for duplicates, only where
\* the transaction went into or out of the chain between the two answers of the node
\* (querySummary, which joins what it asked for at once, and finishWithTxids).
FiguresAgree ==
    \A call \in Given :
        /\ SymDiff(call.figures["txids"].txs, call.figures["balance"].txs)
              \subseteq MovedBetweenParts(call, "txids", "balance")
        /\ (call.queryMempool /\ ~call.noTxList) =>
              call.figures["txids"].txs \cap call.figures["mempool"].txs
                  \subseteq MovedBetweenParts(call, "txids", "mempool")

\* What the node had when the call began is in the list, unless it moved between the
\* two answers.
NothingLeftOut ==
    \A call \in Given :
        (call.queryMempool /\ ~call.noTxList) =>
            call.known \subseteq
                call.figures["txids"].txs \cup call.figures["mempool"].txs
                    \cup MovedBetweenParts(call, "txids", "mempool")

\* The amounts are those of the chain when the call began or later: what comes
\* from a cache is of the best block the service had heard of, unless it was overtaken.
AmountsAreCurrent ==
    \A call \in Given :
        SymDiff(call.known \ call.pending, call.figures["balance"].txs)
            \subseteq MovedBetween(call.figures["balance"].best, call.begun)
=============================================================================
