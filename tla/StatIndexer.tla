---------------------------- MODULE StatIndexer ----------------------------
(***************************************************************************)
(* StatisticService (insight-api/services): adds every block to the        *)
(* figures of its day and every proof-of-stake reward to a running total.  *)
(* The checkpoint is written before the figures, in memory even before the *)
(* checkpoint: a failure has a block left out and never counted twice.     *)
(***************************************************************************)
EXTENDS IndexerLoop

CONSTANT ProofOfStake   \* the blocks with block.flags = PROOF_OF_STAKE

ASSUME StatAssumption == ProofOfStake \subseteq Heights

VARIABLES
    knownBlocks,    \* keys of the LRU, which is never full
    subsidy,        \* getSubsidy answered for the block being processed
    day,            \* day[h]: times block h was added to the figures of its day
    total           \* total[h]: times its reward was added to the total

statVars == <<knownBlocks, subsidy, day, total>>
vars == <<loopVars, statVars>>

Phases == {"down", "load", "previous", "up", "failed"}
Steps  == {"idle", "block", "claim", "day", "total"}

TypeOK ==
    /\ LoopTypeOK(Phases, Steps)
    /\ knownBlocks \subseteq Heights /\ subsidy \in BOOLEAN
    /\ day \in [Heights -> Nat] /\ total \in [Heights -> Nat]

Init ==
    /\ LoopInit
    /\ knownBlocks = {} /\ subsidy = FALSE
    /\ day = [h \in Heights |-> 0] /\ total = [h \in Heights |-> 0]

-----------------------------------------------------------------------------
(* start *)

\* The height of the silubiumd service, which start keeps for its first update
\* (here in target); setLastBlockType.
Start ==
    \E height \in 1..high :
        /\ phase = "down"
        /\ phase' = "load"
        /\ target' = height
        /\ UNCHANGED <<nodeVars, stored, tipVars, lastCheckedBlock, cursor, step,
                       trouble, statVars>>

StartFails ==
    /\ phase \in {"down", "load", "previous"}
    /\ phase' = "failed"
    /\ UNCHANGED <<nodeVars, stored, tipVars, runVars, trouble, statVars>>

GetLastBlock ==
    /\ phase = "load"
    /\ phase' = "previous"
    /\ LoadChecked
    /\ UNCHANGED <<nodeVars, stored, tipVars, target, cursor, step, trouble,
                   statVars>>

\* An update asked for below lastCheckedBlock is dropped.
Ignored(height) == height < lastCheckedBlock

\* processPrevBlocks has filled the 24h caches; the service listens to 'tip' and
\* starts its first update.
PreviousDone ==
    /\ phase = "previous"
    /\ phase' = "up"
    /\ IF Ignored(target)
       THEN lastTipHeight' = target /\ UNCHANGED <<stalled, target, cursor, step>>
       ELSE BeginUpdate(lastCheckedBlock, target)
    /\ UNCHANGED <<nodeVars, stored, lastCheckedBlock, trouble, statVars>>

Tip(height) == TipEvent(height, Ignored(height)) /\ UNCHANGED statVars

NodeMoves ==
    /\ ChainMoves
    /\ UNCHANGED <<stored, phase, tipVars, runVars, trouble, statVars>>

-----------------------------------------------------------------------------
(* _getBlockInfo and processBlock *)

\* The block is there, with or without its subsidy (an error of getSubsidy is
\* dropped).  From here on it is checked.  A block known already would call a
\* callback that is not defined: NoUndefinedCallback.
GetBlockInfo ==
    /\ step = "block" /\ cursor <= best
    /\ knownBlocks' = knownBlocks \cup {cursor}
    /\ subsidy' \in BOOLEAN
    /\ IF subsidy' THEN UNCHANGED trouble ELSE Troubled(cursor)
    /\ lastCheckedBlock' = cursor
    /\ step' = "claim"
    /\ UNCHANGED <<nodeVars, stored, phase, tipVars, target, cursor, day, total>>

ReadFails ==
    /\ step = "block"
    /\ LoopFails
    /\ UNCHANGED <<nodeVars, stored, phase, lastCheckedBlock, trouble, statVars>>

\* updateOrAddLastBlock.
Claim ==
    /\ step = "claim"
    /\ stored' = cursor
    /\ step' = "day"
    /\ UNCHANGED <<nodeVars, phase, tipVars, lastCheckedBlock, target, cursor,
                   trouble, statVars>>

Added(count, h) == [count EXCEPT ![h] = @ + 1]

\* Wrong: the reward of every block is left out of the total.
UpdateDay_NoTotal ==
    /\ step = "day"
    /\ day' = Added(day, cursor)
    /\ Proceed(cursor, target, lastTipHeight)
    /\ UNCHANGED <<nodeVars, stored, phase, tipVars, lastCheckedBlock, trouble,
                   knownBlocks, subsidy, total>>

\* updateOrCreateDay; only a proof-of-stake block with a subsidy goes on to the
\* total, the others to process24hBlock and the next block.
UpdateDay ==
    /\ step = "day"
    /\ day' = Added(day, cursor)
    /\ IF subsidy /\ cursor \in ProofOfStake
       THEN step' = "total" /\ UNCHANGED <<target, cursor>>
       ELSE Proceed(cursor, target, lastTipHeight)
    /\ UNCHANGED <<nodeVars, stored, phase, tipVars, lastCheckedBlock, trouble,
                   knownBlocks, subsidy, total>>

\* createOrUpdatePosTotalAmount, after getPOSTotalAmount.
UpdateTotal ==
    /\ step = "total"
    /\ total' = Added(total, cursor)
    /\ Proceed(cursor, target, lastTipHeight)
    /\ UNCHANGED <<nodeVars, stored, phase, tipVars, lastCheckedBlock, trouble,
                   knownBlocks, subsidy, day>>

\* The write under way when something fails may have taken effect.
WriteUnderWay(took) ==
    /\ stored' = IF took /\ step = "claim" THEN cursor ELSE stored
    /\ day' = IF took /\ step = "day" THEN Added(day, cursor) ELSE day
    /\ total' = IF took /\ step = "total" THEN Added(total, cursor) ELSE total

\* Wrong: a failed block is tried again by the next update.
WriteFails_TriesAgain ==
    /\ step \in {"claim", "day", "total"}
    /\ \E took \in BOOLEAN : WriteUnderWay(took)
    /\ Troubled(cursor)
    /\ LoopFails
    /\ lastCheckedBlock' = cursor - 1
    /\ UNCHANGED <<nodeVars, phase, knownBlocks, subsidy>>

WriteFails ==
    /\ step \in {"claim", "day", "total"}
    /\ \E took \in BOOLEAN : WriteUnderWay(took)
    /\ Troubled(cursor)
    /\ LoopFails
    /\ UNCHANGED <<nodeVars, phase, lastCheckedBlock, knownBlocks, subsidy>>

\* The process is stopped or dies.
Crash ==
    /\ phase # "down"
    /\ \E took \in BOOLEAN : WriteUnderWay(took)
    /\ IF step \in {"claim", "day", "total"} THEN Troubled(cursor)
                                             ELSE UNCHANGED trouble
    /\ ProcessLost
    /\ knownBlocks' = {} /\ subsidy' = FALSE
    /\ UNCHANGED nodeVars

-----------------------------------------------------------------------------
\* One answer to the work on the current block.
Work == GetBlockInfo \/ ReadFails \/ Claim \/ UpdateDay \/ UpdateTotal \/ WriteFails

Next ==
    \/ Start \/ StartFails \/ GetLastBlock \/ PreviousDone \/ Crash \/ NodeMoves
    \/ Work
    \/ \E height \in Heights : Tip(height)

Spec == Init /\ [][Next]_vars

-----------------------------------------------------------------------------
(* Properties. *)

\* A block is added to the figures of its day at most once, and its reward to the
\* total only with it, whatever fails and however often the service restarts.
CountedOnce == \A h \in Heights : day[h] <= 1 /\ total[h] <= day[h]

Working(h) == step # "idle" /\ cursor = h

\* A block the checkpoint has passed is in the figures of its day and, if it is
\* proof of stake, in the total, unless a failure hit the work on it: the
\* checkpoint that is written first leaves out nothing else.
LeftOutOnlyByFailure ==
    \A h \in 1..stored :
        trouble[h] = 0 /\ ~Working(h)
            => day[h] = 1 /\ (h \in ProofOfStake => total[h] = 1)

\* processBlock never meets a block of knownBlocks, for which it would call a name
\* that is not defined.
NoUndefinedCallback == step = "block" => cursor \notin knownBlocks

\* lastCheckedBlock is ahead of the row by claims that failed and by the one under
\* way; the work on a block is the one after its claim.
RowInv ==
    /\ phase \in {"previous", "up"} => stored <= lastCheckedBlock
    /\ step = "block" => cursor = lastCheckedBlock + 1
    /\ step \in {"claim", "day", "total"} => cursor = lastCheckedBlock
    /\ step = "claim" => stored < cursor
    /\ step \in {"day", "total"} => stored = cursor

\* knownBlocks holds checked blocks, and none before the first update.
KnownInv ==
    /\ \A h \in knownBlocks : h <= lastCheckedBlock
    /\ phase # "up" => knownBlocks = {}

\* Figures are those of blocks at or below the checkpoint, and the block being
\* worked on is not in those still to come.
FiguresInv ==
    /\ CountedOnce
    /\ \A h \in Heights : h > stored => day[h] = 0
    /\ step = "day" => day[cursor] = 0
    /\ step = "total" => day[cursor] = 1 /\ total[cursor] = 0

\* The blocks the service, or the next start of it, takes as done.
Done == IF phase \in {"previous", "up"} THEN lastCheckedBlock ELSE stored

\* LeftOutOnlyByFailure for every block taken as done; a block worked on without
\* its subsidy counts as hit by a failure.
LeftOutInv ==
    /\ \A h \in Heights :
         h <= Done /\ trouble[h] = 0 /\ ~Working(h)
            => day[h] = 1 /\ (h \in ProofOfStake => total[h] = 1)
    /\ step \in {"claim", "day", "total"} /\ ~subsidy => trouble[cursor] > 0

\* The inductive invariant.
StatInv == LoopInv /\ RowInv /\ KnownInv /\ FiguresInv /\ LeftOutInv

\* The promise of the checkpoint.
Promise == INSTANCE Checkpoint WITH applied <- day, Skipped <- {}
AtMostOnce == Promise!AtMostOnce
=============================================================================
