---------------------------- MODULE MinedIndexer ----------------------------
(***************************************************************************)
(* AddressBlocksMinedService (insight-api/services): counts for every      *)
(* address the blocks it mined.  A block is read, its miner's count is     *)
(* incremented in the database, and then last_block_number is written: a   *)
(* failure between the two writes has the block counted again.             *)
(***************************************************************************)
EXTENDS IndexerLoop

CONSTANT Minerless      \* blocks whose miner's output names no address

ASSUME MinedAssumption == Minerless \subseteq Heights

VARIABLE credited       \* credited[h]: $inc operations for block h

vars == <<loopVars, credited>>

Phases == {"down", "load", "info", "up", "failed"}
Steps  == {"idle", "block", "transaction", "credit", "save"}

TypeOK == LoopTypeOK(Phases, Steps) /\ credited \in [Heights -> Nat]

Init == LoopInit /\ credited = [h \in Heights |-> 0]

-----------------------------------------------------------------------------
(* start *)

\* setLastBlockType(TYPE, 0).
Start ==
    /\ phase = "down"
    /\ phase' = "load"
    /\ UNCHANGED <<nodeVars, stored, tipVars, runVars, trouble, credited>>

\* An error in one of the start steps: insight-api logs it and goes on without
\* the service, until the process is started again.
StartFails ==
    /\ phase \in {"down", "load", "info"}
    /\ phase' = "failed"
    /\ UNCHANGED <<nodeVars, stored, tipVars, runVars, trouble, credited>>

\* Wrong: the service starts from the first block again.
GetLastBlock_Ignored ==
    /\ phase = "load"
    /\ phase' = "info"
    /\ UNCHANGED <<nodeVars, stored, tipVars, runVars, trouble, credited>>

\* getLastBlockByType.
GetLastBlock ==
    /\ phase = "load"
    /\ phase' = "info"
    /\ LoadChecked
    /\ UNCHANGED <<nodeVars, stored, tipVars, target, cursor, step, trouble,
                   credited>>

\* The answer to getInfo starts the first update, and the service listens to
\* 'tip' from then on: tips between the answer's making and now are missed.
GetInfo ==
    \E blocks \in 1..high :
        /\ phase = "info"
        /\ phase' = "up"
        /\ BeginUpdate(lastCheckedBlock, blocks)
        /\ UNCHANGED <<nodeVars, stored, lastCheckedBlock, trouble, credited>>

Tip(height) == TipEvent(height, FALSE) /\ UNCHANGED credited

NodeMoves ==
    /\ ChainMoves
    /\ UNCHANGED <<stored, phase, tipVars, runVars, trouble, credited>>

-----------------------------------------------------------------------------
(* processBlock *)

\* getJsonBlock(blockHeight): its hash by height, then the block by hash, which the
\* node also has of a block replaced in between.
GetBlock ==
    /\ step = "block" /\ cursor <= high
    /\ step' = "transaction"
    /\ UNCHANGED <<nodeVars, stored, phase, tipVars, lastCheckedBlock, target,
                   cursor, trouble, credited>>

\* getDetailedTransaction of the coinstake or coinbase.
GetTransaction ==
    /\ step = "transaction"
    /\ step' = IF cursor \in Minerless THEN "save" ELSE "credit"
    /\ UNCHANGED <<nodeVars, stored, phase, tipVars, lastCheckedBlock, target,
                   cursor, trouble, credited>>

ReadFails ==
    /\ step \in {"block", "transaction"}
    /\ LoopFails
    /\ UNCHANGED <<nodeVars, stored, phase, lastCheckedBlock, trouble, credited>>

Incremented(h) == [credited EXCEPT ![h] = @ + 1]

\* createOrUpdateAddress.
Credit ==
    /\ step = "credit"
    /\ credited' = Incremented(cursor)
    /\ step' = "save"
    /\ UNCHANGED <<nodeVars, stored, phase, tipVars, lastCheckedBlock, target,
                   cursor, trouble>>

\* updateOrAddLastBlock, then the next block of _processLastBlocks.
Save ==
    /\ step = "save"
    /\ stored' = cursor
    /\ lastCheckedBlock' = cursor
    /\ Proceed(cursor, target, lastTipHeight)
    /\ UNCHANGED <<nodeVars, phase, tipVars, trouble, credited>>

\* The write under way when something fails may have taken effect.
WriteUnderWay(took) ==
    /\ credited' = IF took /\ step = "credit" THEN Incremented(cursor) ELSE credited
    /\ stored' = IF took /\ step = "save" THEN cursor ELSE stored

\* Wrong: after a write error the loop goes on with the next block.
WriteFails_Skips ==
    /\ step \in {"credit", "save"}
    /\ \E took \in BOOLEAN : WriteUnderWay(took)
    /\ Troubled(cursor)
    /\ lastCheckedBlock' = cursor
    /\ Proceed(cursor, target, lastTipHeight)
    /\ UNCHANGED <<nodeVars, phase, tipVars>>

WriteFails ==
    /\ step \in {"credit", "save"}
    /\ \E took \in BOOLEAN : WriteUnderWay(took)
    /\ Troubled(cursor)
    /\ LoopFails
    /\ UNCHANGED <<nodeVars, phase, lastCheckedBlock>>

\* The process is stopped or dies.
Crash ==
    /\ phase # "down"
    /\ \E took \in BOOLEAN : WriteUnderWay(took)
    /\ IF step \in {"credit", "save"} THEN Troubled(cursor) ELSE UNCHANGED trouble
    /\ ProcessLost
    /\ UNCHANGED nodeVars

-----------------------------------------------------------------------------
\* One answer to the work on the current block.
Work == GetBlock \/ GetTransaction \/ ReadFails \/ Credit \/ Save \/ WriteFails

Next ==
    \/ Start \/ StartFails \/ GetLastBlock \/ GetInfo \/ Crash \/ NodeMoves
    \/ Work
    \/ \E height \in Heights : Tip(height)

Spec == Init /\ [][Next]_vars

\* Every call to the node and to the database is answered.
FairSpec == Spec /\ WF_vars(Work)

-----------------------------------------------------------------------------
(* Properties. *)

\* No block below the checkpoint is missing from the counts, whatever failed and
\* however often the service was restarted (processBlock).
NoGap == \A h \in 1..stored : h \in Minerless \/ credited[h] > 0

\* A block is counted twice only when a failure hit its two writes: one more count
\* per failure at most (createOrUpdateAddress before updateOrAddLastBlock).
OnceUnlessTroubled == \A h \in Heights : credited[h] <= 1 + trouble[h]

\* The blocks the service, or the next start of it, takes as done.
Done == IF phase \in {"info", "up"} THEN lastCheckedBlock ELSE stored

\* The memory and the row agree, but for a checkpoint written by a call that
\* reported an error; the loop is at the block after the last one checked.
RowInv ==
    /\ phase \in {"info", "up"} => stored \in {lastCheckedBlock, lastCheckedBlock + 1}
    /\ step # "idle" => cursor = lastCheckedBlock + 1
    /\ step = "save" => cursor \in Minerless \/ credited[cursor] > 0

\* A block is counted once beyond its failures when it is done or waits for its
\* checkpoint, before that only for failures.
CountInv ==
    \A h \in Heights :
        \/ credited[h] <= trouble[h]
        \/ credited[h] = trouble[h] + 1 /\ (h <= Done \/ (step = "save" /\ h = cursor))

\* The inductive invariant.
MinedInv == LoopInv /\ NoGap /\ RowInv /\ CountInv

\* A tip the service heard of is indexed, unless an error or the end of the process
\* comes first: no tip is left behind by the loop.
TipIsIndexed ==
    \A h \in Heights :
        phase = "up" /\ lastTipHeight >= h
            ~> lastCheckedBlock >= h \/ stalled \/ phase # "up"

\* The promise of the checkpoint.
Promise == INSTANCE Checkpoint WITH applied <- credited, Skipped <- Minerless
AtLeastOnce == Promise!AtLeastOnce
=============================================================================
