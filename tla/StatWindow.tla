----------------------------- MODULE StatWindow -----------------------------
(***************************************************************************)
(* StatIndexer with the caches of the last 24 hours that StatisticService  *)
(* keeps in memory and getTotal sums up: blocksByHeight and the three that *)
(* are filled with it.  start fills them from the height of the node       *)
(* downwards until it meets a block older than a day, processBlock adds    *)
(* each block as the last thing it does, and an entry lives until its      *)
(* block is a day old.                                                     *)
(*                                                                         *)
(* getTotal counts downwards from lastCheckedBlock and ends at the first   *)
(* height that is absent, so one block left out hides all those below it.  *)
(* Nothing in the code makes the times of blocks grow with their heights,  *)
(* or keeps them from being ahead of the clock of the service.             *)
(***************************************************************************)
EXTENDS StatIndexer

CONSTANTS
    Day,            \* maxAge is counted back from a day ago
    BlockTime,      \* BlockTime[h]: block.time, from the first block (height 0)
    MaxNow          \* bound: the clock

ASSUME WindowAssumption ==
    /\ Day \in Nat /\ MaxNow \in Nat
    /\ BlockTime \in [0..MaxHeight -> 0..MaxNow]

VARIABLES
    now,            \* Date.now()
    walk,           \* the height processPrevBlocks asks for, -1 below the first block
    window,         \* heights set in blocksByHeight, those that expired included
    missed          \* history: heights this process has checked and not set

windowVars == <<now, walk, window, missed>>

WindowTypeOK ==
    /\ TypeOK
    /\ now \in 0..MaxNow /\ walk \in -1..MaxHeight
    /\ window \subseteq 0..MaxHeight /\ missed \subseteq Heights

WindowInit ==
    /\ Init
    /\ now \in 0..MaxNow
    /\ walk = 0 /\ window = {} /\ missed = {}

\* maxAge > 0: the block is less than a day old.
Young(h) == now < BlockTime[h] + Day

\* What blocksByHeight.get(h) finds.
Alive(h) == h \in window /\ now <= BlockTime[h] + Day

-----------------------------------------------------------------------------
(* start and processPrevBlocks *)

StartWalk == Start /\ walk' = target' /\ UNCHANGED <<now, window, missed>>

\* A height the service has checked is not processed; the walk starts below it.
LoadRow ==
    /\ GetLastBlock
    /\ missed' = {h \in Heights : target < h /\ h <= stored}
    /\ UNCHANGED <<now, walk, window>>

\* process24hBlock.
Set24h(h) == window' = IF Young(h) THEN window \cup {h} ELSE window

\* A block less than a day old: it is set, and the one below is asked for.
WalkBack ==
    /\ phase = "previous" /\ walk >= 0 /\ walk <= best
    /\ Young(walk)
    /\ Set24h(walk)
    /\ walk' = walk - 1
    /\ UNCHANGED <<now, missed, vars>>

\* The first older block ends the walk.  Below the first block there is none: on a
\* chain younger than a day the start fails.
WalkEnds ==
    /\ walk >= 0 /\ walk <= best
    /\ ~Young(walk)
    /\ PreviousDone
    /\ UNCHANGED windowVars

-----------------------------------------------------------------------------
(* processBlock *)

\* Wrong: a block without a reward is not set.
DayDone_RewardsOnly == UpdateDay /\ UNCHANGED windowVars

\* A block without a reward goes on to process24hBlock.
DayDone ==
    /\ UpdateDay
    /\ IF step' = "total" THEN UNCHANGED window ELSE Set24h(cursor)
    /\ UNCHANGED <<now, walk, missed>>

TotalDone == UpdateTotal /\ Set24h(cursor) /\ UNCHANGED <<now, walk, missed>>

\* After a failed write the block is checked and not set.
BlockLost ==
    /\ WriteFails
    /\ missed' = missed \cup {cursor}
    /\ UNCHANGED <<now, walk, window>>

\* The steps that leave the caches alone.
Elsewhere ==
    /\ \/ StartFails \/ GetBlockInfo \/ ReadFails \/ Claim \/ NodeMoves
       \/ \E height \in Heights : Tip(height)
    /\ UNCHANGED windowVars

ClockTicks ==
    /\ now < MaxNow
    /\ now' = now + 1
    /\ UNCHANGED <<walk, window, missed, vars>>

\* The caches end with the process.
CrashOfWindow ==
    /\ Crash
    /\ walk' = 0 /\ window' = {} /\ missed' = {}
    /\ UNCHANGED now

WindowNext ==
    \/ StartWalk \/ LoadRow \/ WalkBack \/ WalkEnds
    \/ DayDone \/ TotalDone \/ BlockLost \/ Elsewhere
    \/ ClockTicks \/ CrashOfWindow

WindowSpec == WindowInit /\ [][WindowNext]_<<vars, windowVars>>

-----------------------------------------------------------------------------
(* Properties. *)

\* The heights getTotal sums up.
Counted == {h \in 1..lastCheckedBlock : \A k \in h..lastCheckedBlock : Alive(k)}

\* Nothing from h up to the last checked block, or up to where the walk of start ended,
\* is a day old or was left out.
Expected(h) == \A k \in h..Larger(lastCheckedBlock, walk) : Young(k) /\ k \notin missed

\* getTotal sums up every block of the last day the service has checked, except
\* those with a block at or above them that a failed write left out of the caches,
\* or that was checked by an earlier process above the height this one started at,
\* or that is a day old by its own time: a block may be older than the one below it.
\* Such a block ends the walk of start too, also above lastCheckedBlock.
\* Between the two steps that check a block and set it (lastCheckedBlock is moved
\* first, StatisticService.js:418) the sums are of nothing, and nothing is said.
DayIsCounted ==
    phase = "up" /\ step \in {"idle", "block"} =>
        \A h \in 1..lastCheckedBlock : Expected(h) => h \in Counted

\* What the walk of start has passed is set, unless old, and so is what this process
\* has checked, unless old or missed, but for the block it works on; the walk ends at
\* an old block.  With StatInv, the inductive invariant of DayIsCounted.
WindowInv ==
    /\ phase = "load" => walk = target
    /\ phase = "previous" => \A h \in Heights :
         IF h <= target THEN walk < h /\ Young(h) => h \in window
                        ELSE h <= lastCheckedBlock => h \in missed
    /\ phase = "up" => walk >= 0 /\ ~Young(walk)
    /\ phase = "up" => \A h \in 1..lastCheckedBlock :
         walk < h /\ Young(h) /\ (step \in {"idle", "block"} \/ h # cursor)
            => h \in window \cup missed
=============================================================================
