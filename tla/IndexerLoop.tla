---------------------------- MODULE IndexerLoop ----------------------------
(***************************************************************************)
(* The loop that the mined-blocks and the statistic service of insight-api *)
(* share: blocks are processed one after the other from the one after      *)
(* lastCheckedBlock up to the height of a tip; a tip that comes meanwhile  *)
(* only raises lastTipHeight, which is looked at again when the loop ends; *)
(* an error ends the loop until the next tip.  last_block_number in the    *)
(* database (stored) outlives the process, everything else is lost with it.*)
(*                                                                         *)
(* This module holds the state and the moves of the loop; MinedIndexer and *)
(* StatIndexer add what each service does with a block.  lastTipInProcess  *)
(* is step # "idle".  No row of the LastBlocks collection and a row with   *)
(* last_block_number 0 are both stored = 0, so that setLastBlockType       *)
(* changes nothing when its updateFrom is 0.                               *)
(***************************************************************************)
EXTENDS Integers

CONSTANTS
    MaxHeight,      \* bound: the highest block
    MaxTrouble      \* bound: counted failures of the work on one block

Heights == 1..MaxHeight

ASSUME LoopAssumption == MaxHeight \in Nat \ {0} /\ MaxTrouble \in Nat \ {0}

VARIABLES
    best,               \* the node's best height; it answers up to this one
    high,               \* the highest best so far
    stored,             \* last_block_number of the service's type
    phase,              \* the service: "down", its start steps, "up", "failed"
    lastTipHeight,
    lastCheckedBlock,
    target,             \* the height _rapidProtectedUpdateTip was called with
    cursor,             \* the block being processed
    step,               \* where its processing is
    stalled,            \* history: the last update ended with an error
    trouble             \* history: failures that hit the work on a block

nodeVars == <<best, high>>
tipVars  == <<lastTipHeight, stalled>>
runVars  == <<lastCheckedBlock, target, cursor, step>>
loopVars == <<nodeVars, stored, phase, tipVars, runVars, trouble>>

LoopTypeOK(phases, steps) ==
    /\ best \in Heights /\ high \in Heights
    /\ stored \in 0..MaxHeight
    /\ phase \in phases
    /\ lastTipHeight \in 0..MaxHeight
    /\ lastCheckedBlock \in 0..MaxHeight
    /\ target \in 0..MaxHeight
    /\ cursor \in 0..MaxHeight
    /\ step \in steps
    /\ stalled \in BOOLEAN
    /\ trouble \in [Heights -> Nat]

LoopInit ==
    /\ best \in Heights /\ high = best
    /\ stored = 0
    /\ phase = "down"
    /\ lastTipHeight = 0 /\ stalled = FALSE
    /\ lastCheckedBlock = 0 /\ target = 0 /\ cursor = 0 /\ step = "idle"
    /\ trouble = [h \in Heights |-> 0]

-----------------------------------------------------------------------------
Larger(a, b) == IF a > b THEN a ELSE b

\* The node's chain grows, or a reorganisation leaves it shorter.
ChainMoves ==
    /\ best' \in Heights \ {best}
    /\ high' = Larger(high, best')

\* Wrong: the tips that came during the loop are forgotten.
Proceed_Forgets(checked, goal, tip) ==
    IF checked < goal
    THEN step' = "block" /\ cursor' = checked + 1 /\ target' = goal
    ELSE step' = "idle" /\ UNCHANGED <<cursor, target>>

\* With everything up to checked done, the next block on the way to goal; at
\* the goal, lastTipHeight is looked at again, and the loop goes on to it.
Proceed(checked, goal, tip) ==
    IF checked < goal \/ checked < tip
    THEN /\ step' = "block" /\ cursor' = checked + 1
         /\ target' = IF checked < goal THEN goal ELSE tip
    ELSE step' = "idle" /\ UNCHANGED <<cursor, target>>

\* _rapidProtectedUpdateTip with a loop not running.
BeginUpdate(checked, height) ==
    /\ lastTipHeight' = Larger(lastTipHeight, height)
    /\ Proceed(checked, height, Larger(lastTipHeight, height))
    /\ stalled' = FALSE

\* _rapidProtectedUpdateTip called by the 'tip' event: any height the node has
\* had, since the silubiumd service may report its answers out of order.
TipEvent(height, ignored) ==
    /\ phase = "up" /\ height <= high
    /\ IF step # "idle" \/ ignored
       THEN /\ lastTipHeight' = Larger(lastTipHeight, height)
            /\ UNCHANGED <<stalled, target, cursor, step>>
       ELSE BeginUpdate(lastCheckedBlock, height)
    /\ UNCHANGED <<nodeVars, stored, phase, lastCheckedBlock, trouble>>

\* An error reaches the callback of the loop.
LoopFails ==
    /\ step' = "idle" /\ stalled' = TRUE
    /\ UNCHANGED <<lastTipHeight, target, cursor>>

\* A failure is counted against the block it hit.
Troubled(h) ==
    /\ trouble[h] < MaxTrouble
    /\ trouble' = [trouble EXCEPT ![h] = @ + 1]

\* The process ends: what it kept in memory is gone.
ProcessLost ==
    /\ phase' = "down"
    /\ lastTipHeight' = 0 /\ stalled' = FALSE
    /\ lastCheckedBlock' = 0 /\ target' = 0 /\ cursor' = 0 /\ step' = "idle"

\* getLastBlockByType at start.
LoadChecked == lastCheckedBlock' = stored

-----------------------------------------------------------------------------
(* Properties of the loop. *)

\* Between updates every block up to the highest tip heard of is checked, unless
\* the last update ended with an error: no tip that came while a loop ran is lost
\* (_rapidProtectedUpdateTip).
IdleIsCaughtUp ==
    phase = "up" /\ step = "idle" /\ ~stalled => lastCheckedBlock >= lastTipHeight

\* The loop works on the block after the last checked one, on the way to a goal
\* that was a tip.
LoopInv ==
    /\ IdleIsCaughtUp
    /\ best <= high
    /\ phase # "up" => step = "idle"
    /\ step # "idle" => cursor \in 1..target /\ target <= lastTipHeight
=============================================================================
