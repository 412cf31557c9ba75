------------------------- MODULE StatIndexerProofs --------------------------
(***************************************************************************)
(* Proofs about StatIndexer for every chain, every set of proof-of-stake   *)
(* blocks and every number of failures: the inductive invariant StatInv,   *)
(* and from it that the service implements Checkpoint!AtMostOnce.  Then    *)
(* about StatWindow: it moves as StatIndexer does, and the sums of the     *)
(* last 24 hours for every chain with its times and every length of a day. *)
(***************************************************************************)
EXTENDS StatWindow, TLAPS

USE DEF loopVars, nodeVars, tipVars, runVars, statVars

(* The loop, and what a count and a failure leave alone. *)

\* The loop goes on with the block after the last checked one, towards a tip it
\* has heard of, or rests with everything checked.
LEMMA ProceedGoesOn ==
    ASSUME NEW checked \in 0..MaxHeight, NEW goal \in 0..MaxHeight,
           NEW tip \in 0..MaxHeight, goal <= tip,
           cursor \in 0..MaxHeight, target \in 0..MaxHeight,
           Proceed(checked, goal, tip)
    PROVE  /\ step' \in {"idle", "block"}
           /\ cursor' \in 0..MaxHeight /\ target' \in 0..MaxHeight
           /\ step' = "idle" => checked >= tip
           /\ step' # "idle" => /\ cursor' = checked + 1
                                /\ cursor' <= target' /\ target' <= tip
BY LoopAssumption DEF Proceed

\* An update that a tip or the start begins is one of those.
LEMMA BeginUpdateGoesOn ==
    ASSUME lastTipHeight \in 0..MaxHeight, lastCheckedBlock \in 0..MaxHeight,
           cursor \in 0..MaxHeight, target \in 0..MaxHeight,
           NEW height \in 0..MaxHeight, BeginUpdate(lastCheckedBlock, height)
    PROVE  /\ lastTipHeight' \in 0..MaxHeight /\ lastTipHeight' >= lastTipHeight
           /\ stalled' = FALSE
           /\ step' \in {"idle", "block"}
           /\ cursor' \in 0..MaxHeight /\ target' \in 0..MaxHeight
           /\ step' = "idle" => lastCheckedBlock >= lastTipHeight'
           /\ step' # "idle" => /\ cursor' = lastCheckedBlock + 1
                                /\ cursor' <= target' /\ target' <= lastTipHeight'
<1> DEFINE tip == Larger(lastTipHeight, height)
<1>1. tip \in 0..MaxHeight /\ height <= tip /\ lastTipHeight <= tip
  BY LoopAssumption DEF Larger
<1>2. lastTipHeight' = tip /\ stalled' = FALSE
      /\ Proceed(lastCheckedBlock, height, tip)
  BY DEF BeginUpdate
<1>. QED
  BY <1>1, <1>2, ProceedGoesOn

\* A count that goes up stays a count, and only for the one block.
LEMMA OneMore ==
    ASSUME NEW count \in [Heights -> Nat], NEW c \in Heights
    PROVE  /\ [count EXCEPT ![c] = @ + 1] \in [Heights -> Nat]
           /\ \A h \in Heights : [count EXCEPT ![c] = @ + 1][h] =
                                  IF h = c THEN count[h] + 1 ELSE count[h]
OBVIOUS

\* A counted failure touches the one block.
LEMMA TroubledEffect ==
    ASSUME trouble \in [Heights -> Nat], NEW c \in Heights, Troubled(c)
    PROVE  /\ trouble' \in [Heights -> Nat]
           /\ \A h \in Heights : trouble'[h] = IF h = c THEN trouble[h] + 1 ELSE trouble[h]
BY OneMore DEF Troubled

-----------------------------------------------------------------------------
LEMMA InitInv == Init => TypeOK /\ StatInv
<1> SUFFICES ASSUME Init PROVE TypeOK /\ StatInv
  OBVIOUS
<1>1. /\ best \in Heights /\ high = best /\ stored = 0 /\ phase = "down"
      /\ step = "idle" /\ stalled = FALSE /\ knownBlocks = {} /\ subsidy = FALSE
      /\ lastTipHeight = 0 /\ lastCheckedBlock = 0 /\ target = 0 /\ cursor = 0
      /\ day = [h \in Heights |-> 0] /\ total = [h \in Heights |-> 0]
      /\ trouble = [h \in Heights |-> 0]
  BY DEF Init, LoopInit
<1>2. TypeOK
  <2>1. /\ stored \in 0..MaxHeight /\ lastTipHeight \in 0..MaxHeight
        /\ lastCheckedBlock \in 0..MaxHeight
        /\ target \in 0..MaxHeight /\ cursor \in 0..MaxHeight
    BY <1>1, LoopAssumption
  <2>2. phase \in Phases /\ step \in Steps /\ stalled \in BOOLEAN
    BY <1>1 DEF Phases, Steps
  <2>3. /\ trouble \in [Heights -> Nat]
        /\ day \in [Heights -> Nat] /\ total \in [Heights -> Nat]
    BY <1>1
  <2>. QED
    BY <1>1, <2>1, <2>2, <2>3 DEF TypeOK, LoopTypeOK
<1>3. \A h \in Heights : day[h] = 0 /\ total[h] = 0 /\ ~(h <= 0) /\ best \in Int
  BY <1>1, LoopAssumption DEF Heights
<1>4. LoopInv /\ RowInv /\ KnownInv
  BY <1>1, <1>3 DEF LoopInv, IdleIsCaughtUp, RowInv, KnownInv
<1>5. FiguresInv /\ LeftOutInv
  BY <1>1, <1>3 DEF FiguresInv, CountedOnce, LeftOutInv, Done
<1>. QED
  BY <1>2, <1>4, <1>5 DEF StatInv

\* What WriteFails and Crash do to the figures and to the row.
LEMMA WriteUnderWayEffect ==
    ASSUME TypeOK, LoopInv, NEW took \in BOOLEAN, WriteUnderWay(took)
    PROVE  /\ stored' \in 0..MaxHeight
           /\ stored' = stored \/ (step = "claim" /\ stored' = cursor)
           /\ day' \in [Heights -> Nat] /\ total' \in [Heights -> Nat]
           /\ \A h \in Heights :
                /\ \/ day'[h] = day[h]
                   \/ step = "day" /\ h = cursor /\ day'[h] = day[h] + 1
                /\ \/ total'[h] = total[h]
                   \/ step = "total" /\ h = cursor /\ total'[h] = total[h] + 1
<1>1. /\ day \in [Heights -> Nat] /\ total \in [Heights -> Nat]
      /\ stored \in 0..MaxHeight /\ cursor \in 0..MaxHeight
  BY DEF TypeOK, LoopTypeOK
<1>2. step # "idle" => cursor \in Heights
  BY <1>1 DEF LoopInv, Heights
<1>3. CASE took /\ step = "day"
  <2>1. stored' = stored /\ total' = total /\ day' = [day EXCEPT ![cursor] = @ + 1]
    BY <1>3 DEF WriteUnderWay, Added
  <2>. QED
    BY <1>1, <1>2, <1>3, <2>1, OneMore
<1>4. CASE took /\ step = "total"
  <2>1. stored' = stored /\ day' = day /\ total' = [total EXCEPT ![cursor] = @ + 1]
    BY <1>4 DEF WriteUnderWay, Added
  <2>. QED
    BY <1>1, <1>2, <1>4, <2>1, OneMore
<1>5. CASE took /\ step = "claim"
  <2>1. stored' = cursor /\ day' = day /\ total' = total
    BY <1>5 DEF WriteUnderWay
  <2>. QED
    BY <1>1, <1>5, <2>1
<1>6. CASE ~(took /\ step \in {"claim", "day", "total"})
  <2>1. stored' = stored /\ day' = day /\ total' = total
    BY <1>6 DEF WriteUnderWay
  <2>. QED
    BY <1>1, <2>1
<1>. QED
  BY <1>3, <1>4, <1>5, <1>6

\* The first update, and one that a tip starts or is too late for.
LEMMA UpdateStarts ==
    ASSUME TypeOK, NEW height \in 0..MaxHeight, BeginUpdate(lastCheckedBlock, height)
    PROVE  /\ lastTipHeight' \in 0..MaxHeight
           /\ stalled' = FALSE
           /\ step' \in {"idle", "block"}
           /\ cursor' \in 0..MaxHeight /\ target' \in 0..MaxHeight
           /\ step' = "idle" => lastCheckedBlock >= lastTipHeight'
           /\ step' # "idle" => /\ cursor' = lastCheckedBlock + 1
                                /\ cursor' <= target' /\ target' <= lastTipHeight'
BY BeginUpdateGoesOn DEF TypeOK, LoopTypeOK

\* After a block the loop goes on with the next one or rests.
LEMMA NextBlock ==
    ASSUME TypeOK, LoopInv, step # "idle", Proceed(cursor, target, lastTipHeight)
    PROVE  /\ step' \in {"idle", "block"}
           /\ cursor' \in 0..MaxHeight /\ target' \in 0..MaxHeight
           /\ step' = "idle" => cursor >= lastTipHeight
           /\ step' # "idle" => /\ cursor' = cursor + 1
                                /\ cursor' <= target' /\ target' <= lastTipHeight
<1>1. /\ cursor \in 0..MaxHeight /\ target \in 0..MaxHeight
      /\ lastTipHeight \in 0..MaxHeight /\ target <= lastTipHeight
  BY DEF TypeOK, LoopTypeOK, LoopInv
<1>. QED
  BY <1>1, ProceedGoesOn

LEMMA StepTypeOK == TypeOK /\ LoopInv /\ [Next]_vars => TypeOK'
<1> SUFFICES ASSUME TypeOK, LoopInv, [Next]_vars
             PROVE  TypeOK'
  OBVIOUS
<1> USE LoopAssumption DEF Phases, Steps
<1>0. /\ day \in [Heights -> Nat] /\ total \in [Heights -> Nat]
      /\ trouble \in [Heights -> Nat]
      /\ stored \in 0..MaxHeight /\ lastTipHeight \in 0..MaxHeight
      /\ cursor \in 0..MaxHeight /\ target \in 0..MaxHeight
      /\ best \in Heights /\ high \in Heights
      /\ step # "idle" => cursor \in Heights
      /\ knownBlocks \subseteq Heights
      /\ Heights \subseteq 0..MaxHeight
  BY DEF TypeOK, LoopTypeOK, LoopInv, Heights
<1>1. CASE Start
  <2>1. target' \in 0..MaxHeight
    BY <1>0, <1>1 DEF Start, Heights
  <2>. QED
    BY <1>1, <2>1 DEF Start, TypeOK, LoopTypeOK
<1>2. CASE StartFails
  BY <1>2 DEF StartFails, TypeOK, LoopTypeOK
<1>3. CASE GetLastBlock
  BY <1>3 DEF GetLastBlock, LoadChecked, TypeOK, LoopTypeOK
<1>4. CASE PreviousDone
  <2>1. /\ phase' = "up"
        /\ UNCHANGED <<nodeVars, stored, lastCheckedBlock, trouble, statVars>>
    BY <1>4 DEF PreviousDone
  <2>2. CASE Ignored(target)
    BY <1>0, <1>4, <2>1, <2>2 DEF PreviousDone, TypeOK, LoopTypeOK
  <2>3. CASE ~Ignored(target)
    BY <1>0, <1>4, <2>1, <2>3, UpdateStarts DEF PreviousDone, TypeOK, LoopTypeOK
  <2>. QED
    BY <2>2, <2>3
<1>5. ASSUME NEW height \in Heights, Tip(height)
      PROVE  TypeOK'
  <2>1. UNCHANGED <<nodeVars, stored, phase, lastCheckedBlock, trouble, statVars>>
    BY <1>5 DEF Tip, TipEvent
  <2>2. CASE step # "idle" \/ Ignored(height)
    BY <1>0, <1>5, <2>1, <2>2 DEF Tip, TipEvent, Larger, TypeOK, LoopTypeOK, Heights
  <2>3. CASE ~(step # "idle" \/ Ignored(height))
    <3>1. BeginUpdate(lastCheckedBlock, height) /\ height \in 0..MaxHeight
      BY <1>5, <2>3 DEF Tip, TipEvent, Heights
    <3>. QED
      BY <2>1, <3>1, UpdateStarts DEF TypeOK, LoopTypeOK
  <2>. QED
    BY <2>2, <2>3
<1>6. CASE NodeMoves
  BY <1>0, <1>6 DEF NodeMoves, ChainMoves, Larger, TypeOK, LoopTypeOK, Heights
<1>7. CASE GetBlockInfo
  <2>1. trouble' \in [Heights -> Nat]
    BY <1>0, <1>7, TroubledEffect DEF GetBlockInfo
  <2>2. knownBlocks' \subseteq Heights /\ lastCheckedBlock' \in 0..MaxHeight
    BY <1>0, <1>7 DEF GetBlockInfo
  <2>. QED
    BY <1>7, <2>1, <2>2 DEF GetBlockInfo, TypeOK, LoopTypeOK
<1>8. CASE ReadFails \/ Claim
  BY <1>8 DEF ReadFails, Claim, LoopFails, TypeOK, LoopTypeOK
<1>9. CASE UpdateDay
  <2>1. day' \in [Heights -> Nat]
    BY <1>0, <1>9, OneMore DEF UpdateDay, Added
  <2>2. /\ step' \in {"idle", "block", "total"}
        /\ cursor' \in 0..MaxHeight /\ target' \in 0..MaxHeight
    BY <1>0, <1>9, NextBlock DEF UpdateDay
  <2>. QED
    BY <1>9, <2>1, <2>2 DEF UpdateDay, TypeOK, LoopTypeOK
<1>10. CASE UpdateTotal
  <2>1. total' \in [Heights -> Nat]
    BY <1>0, <1>10, OneMore DEF UpdateTotal, Added
  <2>2. /\ step' \in {"idle", "block"}
        /\ cursor' \in 0..MaxHeight /\ target' \in 0..MaxHeight
    BY <1>10, NextBlock DEF UpdateTotal
  <2>. QED
    BY <1>10, <2>1, <2>2 DEF UpdateTotal, TypeOK, LoopTypeOK
<1>11. CASE WriteFails
  <2>1. /\ day' \in [Heights -> Nat] /\ total' \in [Heights -> Nat]
        /\ stored' \in 0..MaxHeight
    BY <1>11, WriteUnderWayEffect DEF WriteFails
  <2>2. trouble' \in [Heights -> Nat]
    BY <1>0, <1>11, TroubledEffect DEF WriteFails
  <2>. QED
    BY <1>11, <2>1, <2>2 DEF WriteFails, LoopFails, TypeOK, LoopTypeOK
<1>12. CASE Crash
  <2>1. /\ day' \in [Heights -> Nat] /\ total' \in [Heights -> Nat]
        /\ stored' \in 0..MaxHeight
    BY <1>12, WriteUnderWayEffect DEF Crash
  <2>2. trouble' \in [Heights -> Nat]
    BY <1>0, <1>12, TroubledEffect DEF Crash
  <2>3. /\ phase' = "down" /\ lastTipHeight' = 0 /\ stalled' = FALSE
        /\ lastCheckedBlock' = 0 /\ target' = 0 /\ cursor' = 0 /\ step' = "idle"
        /\ knownBlocks' = {} /\ subsidy' = FALSE
        /\ UNCHANGED nodeVars
    BY <1>12 DEF Crash, ProcessLost
  <2>4. /\ lastTipHeight' \in 0..MaxHeight /\ lastCheckedBlock' \in 0..MaxHeight
        /\ target' \in 0..MaxHeight /\ cursor' \in 0..MaxHeight
        /\ best' \in Heights /\ high' \in Heights
    BY <1>0, <2>3
  <2>5. phase' \in Phases /\ step' \in Steps /\ stalled' \in BOOLEAN
    BY <2>3
  <2>. QED
    BY <2>1, <2>2, <2>3, <2>4, <2>5 DEF TypeOK, LoopTypeOK
<1>13. CASE UNCHANGED vars
  BY <1>13 DEF vars, TypeOK, LoopTypeOK
<1>. QED
  BY <1>1, <1>2, <1>3, <1>4, <1>5, <1>6, <1>7, <1>8, <1>9, <1>10, <1>11, <1>12,
     <1>13 DEF Next, Work

-----------------------------------------------------------------------------
(* The parts of the invariant, one lemma each. *)

LEMMA LoopInvStep == TypeOK /\ LoopInv /\ RowInv /\ [Next]_vars => LoopInv'
<1> SUFFICES ASSUME TypeOK, LoopInv, RowInv, [Next]_vars
             PROVE  LoopInv'
  OBVIOUS
<1> USE LoopAssumption
<1>0. /\ lastTipHeight \in 0..MaxHeight /\ lastCheckedBlock \in 0..MaxHeight
      /\ best \in Heights /\ high \in Heights /\ high \in 1..MaxHeight
      /\ cursor \in 0..MaxHeight /\ target \in 0..MaxHeight
      /\ step # "idle" => phase = "up"
      /\ step \in {"day", "total"} => cursor = lastCheckedBlock
  BY DEF TypeOK, LoopTypeOK, Heights, LoopInv, RowInv
<1>1. CASE Start \/ StartFails \/ GetLastBlock
  BY <1>1 DEF Start, StartFails, GetLastBlock, LoopInv, IdleIsCaughtUp
\* The loop starts: it is where UpdateStarts says.
<1>2. ASSUME NEW height \in 0..MaxHeight, BeginUpdate(lastCheckedBlock, height),
             UNCHANGED <<nodeVars, lastCheckedBlock>>, phase' = "up"
      PROVE  LoopInv'
  <2>1. /\ stalled' = FALSE /\ target' \in 0..MaxHeight
        /\ step' = "idle" => lastCheckedBlock >= lastTipHeight'
        /\ step' # "idle" => /\ cursor' = lastCheckedBlock + 1
                             /\ cursor' <= target' /\ target' <= lastTipHeight'
    BY <1>2, UpdateStarts
  <2>. QED
    BY <1>0, <1>2, <2>1 DEF LoopInv, IdleIsCaughtUp
\* The loop goes on after a block that is checked: it is where NextBlock says.
<1>3. ASSUME step \in {"day", "total"}, Proceed(cursor, target, lastTipHeight),
             UNCHANGED <<nodeVars, phase, tipVars, lastCheckedBlock>>
      PROVE  LoopInv'
  <2>1. /\ step' = "idle" => cursor >= lastTipHeight
        /\ step' # "idle" => /\ cursor' = cursor + 1
                             /\ cursor' <= target' /\ target' <= lastTipHeight
        /\ target' \in 0..MaxHeight
    BY <1>3, NextBlock
  <2>. QED
    BY <1>0, <1>3, <2>1 DEF LoopInv, IdleIsCaughtUp
<1>4. CASE PreviousDone
  <2>1. CASE Ignored(target)
    BY <1>0, <1>4, <2>1 DEF PreviousDone, Ignored, LoopInv, IdleIsCaughtUp
  <2>2. CASE ~Ignored(target)
    BY <1>0, <1>2, <1>4, <2>2 DEF PreviousDone
  <2>. QED
    BY <2>1, <2>2
<1>5. ASSUME NEW height \in Heights, Tip(height)
      PROVE  LoopInv'
  <2>1. phase = "up" /\ UNCHANGED <<nodeVars, phase, lastCheckedBlock>>
    BY <1>5 DEF Tip, TipEvent
  <2>2. CASE step # "idle" \/ Ignored(height)
    <3>1. /\ lastTipHeight' = Larger(lastTipHeight, height)
          /\ UNCHANGED <<stalled, target, cursor, step>>
      BY <1>5, <2>2 DEF Tip, TipEvent
    <3>. QED
      BY <1>0, <2>1, <2>2, <3>1 DEF Larger, Ignored, LoopInv, IdleIsCaughtUp, Heights
  <2>3. CASE ~(step # "idle" \/ Ignored(height))
    <3>1. BeginUpdate(lastCheckedBlock, height) /\ height \in 0..MaxHeight
      BY <1>5, <2>3 DEF Tip, TipEvent, Heights
    <3>. QED
      BY <1>2, <2>1, <3>1
  <2>. QED
    BY <2>2, <2>3
<1>6. CASE NodeMoves
  BY <1>0, <1>6 DEF NodeMoves, ChainMoves, Larger, LoopInv, IdleIsCaughtUp, Heights
<1>7. CASE GetBlockInfo \/ Claim
  BY <1>7 DEF GetBlockInfo, Claim, LoopInv, IdleIsCaughtUp
<1>8. CASE UpdateDay
  <2>1. CASE step' = "total" /\ UNCHANGED <<target, cursor>>
    BY <1>8, <2>1 DEF UpdateDay, LoopInv, IdleIsCaughtUp
  <2>2. CASE Proceed(cursor, target, lastTipHeight)
    BY <1>3, <1>8, <2>2 DEF UpdateDay
  <2>. QED
    BY <1>8, <2>1, <2>2 DEF UpdateDay
<1>9. CASE UpdateTotal
  BY <1>3, <1>9 DEF UpdateTotal
<1>10. CASE ReadFails \/ WriteFails
  BY <1>10 DEF ReadFails, WriteFails, LoopFails, LoopInv, IdleIsCaughtUp
<1>11. CASE Crash
  BY <1>11 DEF Crash, ProcessLost, LoopInv, IdleIsCaughtUp
<1>12. CASE UNCHANGED vars
  BY <1>12 DEF vars, LoopInv, IdleIsCaughtUp
<1>. QED
  BY <1>1, <1>4, <1>5, <1>6, <1>7, <1>8, <1>9, <1>10, <1>11, <1>12 DEF Next, Work

\* What one step does to the row, the checked block and the place of the work: the
\* loop starts, goes on, is stopped, or the step is named here.
LEMMA RowInvStep == TypeOK /\ LoopInv /\ RowInv /\ [Next]_vars => RowInv'
<1> SUFFICES ASSUME TypeOK, LoopInv, RowInv, [Next]_vars
             PROVE  RowInv'
  OBVIOUS
<1> USE LoopAssumption
<1>0. /\ lastTipHeight \in 0..MaxHeight /\ lastCheckedBlock \in 0..MaxHeight
      /\ stored \in 0..MaxHeight
      /\ cursor \in 0..MaxHeight /\ target \in 0..MaxHeight
      /\ step # "idle" => phase = "up"
  BY DEF TypeOK, LoopTypeOK, LoopInv
<1>1. CASE Start \/ StartFails \/ GetLastBlock
  BY <1>0, <1>1 DEF Start, StartFails, GetLastBlock, LoadChecked, LoopInv, RowInv
<1>2. ASSUME NEW height \in 0..MaxHeight, BeginUpdate(lastCheckedBlock, height),
             phase \in {"previous", "up"}, UNCHANGED <<stored, lastCheckedBlock>>
      PROVE  RowInv'
  BY <1>2, UpdateStarts DEF RowInv
<1>3. CASE PreviousDone
  <2>1. CASE Ignored(target)
    BY <1>0, <1>3, <2>1 DEF PreviousDone, LoopInv, RowInv
  <2>2. CASE ~Ignored(target)
    BY <1>0, <1>2, <1>3, <2>2 DEF PreviousDone
  <2>. QED
    BY <2>1, <2>2
<1>4. ASSUME NEW height \in Heights, Tip(height)
      PROVE  RowInv'
  <2>1. phase = "up" /\ UNCHANGED <<stored, phase, lastCheckedBlock>>
    BY <1>4 DEF Tip, TipEvent
  <2>2. CASE step # "idle" \/ Ignored(height)
    BY <1>4, <2>1, <2>2 DEF Tip, TipEvent, RowInv
  <2>3. CASE ~(step # "idle" \/ Ignored(height))
    <3>1. BeginUpdate(lastCheckedBlock, height) /\ height \in 0..MaxHeight
      BY <1>4, <2>3 DEF Tip, TipEvent, Heights
    <3>. QED
      BY <1>2, <2>1, <3>1
  <2>. QED
    BY <2>2, <2>3
<1>5. CASE NodeMoves \/ ReadFails
  BY <1>5 DEF NodeMoves, ReadFails, LoopFails, RowInv
<1>6. CASE GetBlockInfo
  <2>1. /\ step = "block" /\ step' = "claim" /\ lastCheckedBlock' = cursor
        /\ UNCHANGED <<stored, phase, cursor>>
    BY <1>6 DEF GetBlockInfo
  <2>. QED
    BY <1>0, <2>1 DEF RowInv
<1>7. CASE Claim
  BY <1>0, <1>7 DEF Claim, RowInv
<1>8. CASE UpdateDay \/ UpdateTotal
  <2>1. step \in {"day", "total"} /\ UNCHANGED <<stored, phase, lastCheckedBlock>>
    BY <1>8 DEF UpdateDay, UpdateTotal
  <2>2. \/ step = "day" /\ step' = "total" /\ cursor' = cursor
        \/ step' = "idle"
        \/ step' = "block" /\ cursor' = cursor + 1
    BY <1>8, NextBlock DEF UpdateDay, UpdateTotal
  <2>. QED
    BY <2>1, <2>2 DEF RowInv
<1>9. CASE WriteFails
  <2>1. /\ stored' = stored \/ (step = "claim" /\ stored' = cursor)
        /\ step' = "idle" /\ UNCHANGED <<phase, lastCheckedBlock>>
    BY <1>9, WriteUnderWayEffect DEF WriteFails, LoopFails
  <2>. QED
    BY <1>0, <2>1 DEF RowInv
<1>10. CASE Crash
  BY <1>10 DEF Crash, ProcessLost, RowInv
<1>11. CASE UNCHANGED vars
  BY <1>11 DEF vars, RowInv
<1>. QED
  BY <1>1, <1>3, <1>4, <1>5, <1>6, <1>7, <1>8, <1>9, <1>10, <1>11 DEF Next, Work

LEMMA KnownInvStep ==
    TypeOK /\ LoopInv /\ RowInv /\ KnownInv /\ [Next]_vars => KnownInv'
<1> SUFFICES ASSUME TypeOK, LoopInv, RowInv, KnownInv, [Next]_vars
             PROVE  KnownInv'
  OBVIOUS
<1>0. /\ lastCheckedBlock \in 0..MaxHeight /\ knownBlocks \subseteq Heights
      /\ step = "block" => cursor = lastCheckedBlock + 1 /\ phase = "up"
  BY DEF TypeOK, LoopTypeOK, LoopInv, RowInv
<1>1. CASE UNCHANGED <<knownBlocks, lastCheckedBlock>> /\ (phase' = phase \/ phase # "up")
  BY <1>1 DEF KnownInv
<1>2. CASE GetLastBlock
  BY <1>2 DEF GetLastBlock, KnownInv
<1>3. CASE GetBlockInfo
  <2>1. /\ step = "block" /\ phase' = phase
        /\ knownBlocks' = knownBlocks \cup {cursor} /\ lastCheckedBlock' = cursor
    BY <1>3 DEF GetBlockInfo
  <2>2. \A h \in knownBlocks : h \in Int /\ h <= lastCheckedBlock
    BY <1>0 DEF KnownInv, Heights
  <2>. QED
    BY <1>0, <2>1, <2>2 DEF KnownInv
<1>4. CASE Crash
  BY <1>4 DEF Crash, KnownInv
<1>. QED
  BY <1>1, <1>2, <1>3, <1>4
     DEF Next, Work, vars, Start, StartFails, PreviousDone, NodeMoves, Tip, TipEvent,
         ReadFails, Claim, UpdateDay, UpdateTotal, WriteFails

LEMMA FiguresInvStep ==
    TypeOK /\ LoopInv /\ RowInv /\ FiguresInv /\ [Next]_vars => FiguresInv'
<1> SUFFICES ASSUME TypeOK, LoopInv, RowInv, FiguresInv, [Next]_vars
             PROVE  FiguresInv'
  OBVIOUS
<1>0. /\ day \in [Heights -> Nat] /\ total \in [Heights -> Nat]
      /\ \A h \in Heights : day[h] \in Nat /\ total[h] \in Nat /\ h \in Int
      /\ stored \in Int /\ cursor \in Int
      /\ step # "idle" => cursor \in Heights
  <2>1. day \in [Heights -> Nat] /\ total \in [Heights -> Nat]
    BY DEF TypeOK
  <2>2. \A h \in Heights : h \in Int
    BY DEF Heights
  <2>3. stored \in Int /\ cursor \in Int /\ target \in 0..MaxHeight
    BY DEF TypeOK, LoopTypeOK
  <2>4. step # "idle" => cursor \in Heights
    BY <2>3, LoopAssumption DEF LoopInv, Heights
  <2>. QED
    BY <2>1, <2>2, <2>3, <2>4
\* Nothing is written, and no write is about to start.
<1>1. CASE UNCHANGED <<stored, day, total>> /\ step' \notin {"day", "total"}
  BY <1>1 DEF FiguresInv, CountedOnce
<1>2. CASE UNCHANGED <<stored, day, total, step, cursor>>
  BY <1>2 DEF FiguresInv, CountedOnce
<1>3. CASE Claim
  <2>1. /\ step = "claim" /\ step' = "day" /\ stored' = cursor /\ stored < cursor
        /\ UNCHANGED <<cursor, day, total>>
    BY <1>3 DEF Claim, RowInv
  <2>. QED
    BY <1>0, <2>1 DEF FiguresInv, CountedOnce
<1>4. CASE UpdateDay
  <2>1. /\ step = "day" /\ stored = cursor /\ UNCHANGED <<stored, total>>
        /\ \/ step' = "total" /\ cursor' = cursor
           \/ step' \in {"idle", "block"}
    BY <1>4, NextBlock DEF UpdateDay, RowInv
  <2>2. \A h \in Heights : day'[h] = IF h = cursor THEN day[h] + 1 ELSE day[h]
    BY <1>0, <1>4, OneMore DEF UpdateDay, Added
  <2>3. total[cursor] = 0
    BY <1>0, <2>1 DEF FiguresInv, CountedOnce
  <2>. QED
    BY <1>0, <2>1, <2>2, <2>3 DEF FiguresInv, CountedOnce
<1>5. CASE UpdateTotal
  <2>1. /\ step = "total" /\ UNCHANGED <<stored, day>> /\ step' \in {"idle", "block"}
    BY <1>5, NextBlock DEF UpdateTotal
  <2>2. \A h \in Heights : total'[h] = IF h = cursor THEN total[h] + 1 ELSE total[h]
    BY <1>0, <1>5, OneMore DEF UpdateTotal, Added
  <2>. QED
    BY <1>0, <2>1, <2>2 DEF FiguresInv, CountedOnce
<1>6. ASSUME NEW took \in BOOLEAN, WriteUnderWay(took), step' = "idle"
      PROVE  FiguresInv'
  <2>1. /\ stored' = stored \/ (step = "claim" /\ stored' = cursor)
        /\ \A h \in Heights :
             /\ \/ day'[h] = day[h]
                \/ step = "day" /\ h = cursor /\ day'[h] = day[h] + 1
             /\ \/ total'[h] = total[h]
                \/ step = "total" /\ h = cursor /\ total'[h] = total[h] + 1
    BY <1>6, WriteUnderWayEffect
  <2>2. /\ step = "claim" => stored < cursor
        /\ step \in {"day", "total"} => stored = cursor
    BY DEF RowInv
  <2>3. \A h \in Heights : day'[h] <= 1 /\ total'[h] <= day'[h]
    BY <1>0, <2>1 DEF FiguresInv, CountedOnce
  <2>4. \A h \in Heights : h > stored' => day'[h] = 0
    BY <1>0, <2>1, <2>2 DEF FiguresInv
  <2>. QED
    BY <1>6, <2>3, <2>4 DEF FiguresInv, CountedOnce
<1>7. CASE WriteFails \/ Crash
  BY <1>6, <1>7 DEF WriteFails, LoopFails, Crash, ProcessLost
<1>8. CASE PreviousDone \/ \E height \in Heights : Tip(height)
  <2>1. UNCHANGED <<stored, day, total>> /\ step \in Steps
    BY <1>8 DEF PreviousDone, Tip, TipEvent, TypeOK, LoopTypeOK
  <2>2. CASE UNCHANGED <<step, cursor>>
    BY <1>2, <2>1, <2>2
  <2>3. ASSUME NEW height \in 0..MaxHeight, BeginUpdate(lastCheckedBlock, height)
        PROVE  FiguresInv'
    BY <1>1, <2>1, <2>3, UpdateStarts
  <2>4. CASE PreviousDone
    <3>1. target \in 0..MaxHeight
      BY DEF TypeOK, LoopTypeOK
    <3>. QED
      BY <2>2, <2>3, <2>4, <3>1 DEF PreviousDone
  <2>5. ASSUME NEW height \in Heights, Tip(height)
        PROVE  FiguresInv'
    <3>1. height \in 0..MaxHeight
      BY LoopAssumption DEF Heights
    <3>. QED
      BY <2>2, <2>3, <2>5, <3>1 DEF Tip, TipEvent
  <2>. QED
    BY <1>8, <2>4, <2>5
<1>. QED
  BY <1>1, <1>2, <1>3, <1>4, <1>5, <1>7, <1>8
     DEF Next, Work, vars, Start, StartFails, GetLastBlock, NodeMoves, GetBlockInfo,
         ReadFails, LoopFails

LEMMA LeftOutInvStep ==
    TypeOK /\ LoopInv /\ RowInv /\ FiguresInv /\ LeftOutInv /\ [Next]_vars => LeftOutInv'
<1> SUFFICES ASSUME TypeOK, LoopInv, RowInv, FiguresInv, LeftOutInv, [Next]_vars
             PROVE  LeftOutInv'
  OBVIOUS
<1>0. /\ day \in [Heights -> Nat] /\ total \in [Heights -> Nat]
      /\ trouble \in [Heights -> Nat]
      /\ \A h \in Heights : trouble[h] \in Nat /\ h \in Int
      /\ stored \in Int /\ cursor \in Int /\ lastCheckedBlock \in Int
      /\ step # "idle" => cursor \in Heights /\ phase = "up"
      /\ step = "block" => cursor = lastCheckedBlock + 1
      /\ step \in {"claim", "day", "total"} => cursor = lastCheckedBlock
      /\ phase \in {"previous", "up"} => stored <= lastCheckedBlock
  <2>1. /\ day \in [Heights -> Nat] /\ total \in [Heights -> Nat]
        /\ trouble \in [Heights -> Nat]
    BY DEF TypeOK, LoopTypeOK
  <2>2. \A h \in Heights : h \in Int
    BY DEF Heights
  <2>3. /\ stored \in Int /\ cursor \in Int /\ lastCheckedBlock \in Int
        /\ target \in 0..MaxHeight
    BY DEF TypeOK, LoopTypeOK
  <2>4. step # "idle" => cursor \in Heights /\ phase = "up"
    BY <2>3, LoopAssumption DEF LoopInv, Heights
  <2>. QED
    BY <2>1, <2>2, <2>3, <2>4 DEF RowInv
\* Nothing is counted and no work ends; what is done does not grow.
<1>1. ASSUME UNCHANGED <<day, total, trouble>>, Done' <= Done,
             Done \in Int, Done' \in Int,
             step = "idle", step' \in {"idle", "block"}
      PROVE  LeftOutInv'
  BY <1>0, <1>1 DEF LeftOutInv, Working
<1>2. CASE Start \/ StartFails \/ GetLastBlock
  <2>1. UNCHANGED <<day, total, trouble>> /\ step = "idle" /\ step' = "idle"
    BY <1>0, <1>2 DEF Start, StartFails, GetLastBlock
  <2>2. Done' <= Done /\ Done \in Int /\ Done' \in Int
    BY <1>0, <1>2 DEF Start, StartFails, GetLastBlock, LoadChecked, Done
  <2>. QED
    BY <1>1, <2>1, <2>2
<1>3. CASE PreviousDone \/ \E height \in Heights : Tip(height)
  <2>1. /\ UNCHANGED <<stored, lastCheckedBlock, day, total, trouble, subsidy>>
        /\ phase \in {"previous", "up"} /\ phase' = "up"
    BY <1>3 DEF PreviousDone, Tip, TipEvent
  <2>2. Done' = Done /\ Done \in Int
    BY <1>0, <2>1 DEF Done
  <2>3. CASE UNCHANGED <<step, cursor>>
    BY <2>1, <2>2, <2>3 DEF LeftOutInv, Working
  <2>4. ASSUME NEW height \in 0..MaxHeight, BeginUpdate(lastCheckedBlock, height),
               step = "idle"
        PROVE  LeftOutInv'
    <3>1. step' \in {"idle", "block"}
      BY <2>4, UpdateStarts
    <3>2. Done' <= Done /\ Done' \in Int
      BY <2>2
    <3>. QED
      BY <1>1, <2>1, <2>2, <2>4, <3>1, <3>2
  <2>5. CASE PreviousDone
    <3>1. target \in 0..MaxHeight /\ step = "idle"
      BY <1>0, <2>5 DEF TypeOK, LoopTypeOK, PreviousDone
    <3>. QED
      BY <2>3, <2>4, <2>5, <3>1 DEF PreviousDone
  <2>6. ASSUME NEW height \in Heights, Tip(height)
        PROVE  LeftOutInv'
    <3>1. height \in 0..MaxHeight
      BY LoopAssumption DEF Heights
    <3>. QED
      BY <2>3, <2>4, <2>6, <3>1 DEF Tip, TipEvent
  <2>. QED
    BY <1>3, <2>5, <2>6
<1>4. CASE NodeMoves
  BY <1>4 DEF NodeMoves, LeftOutInv, Working, Done
<1>5. CASE GetBlockInfo
  <2>1. /\ step = "block" /\ step' = "claim" /\ lastCheckedBlock' = cursor
        /\ UNCHANGED <<stored, phase, cursor, day, total>>
        /\ Done = lastCheckedBlock /\ Done' = cursor
    BY <1>0, <1>5 DEF GetBlockInfo, Done
  <2>2. \A h \in Heights : h # cursor => trouble'[h] = trouble[h]
    BY <1>0, <1>5, <2>1, TroubledEffect DEF GetBlockInfo
  <2>3. ~subsidy' => trouble'[cursor] > 0
    BY <1>0, <1>5, <2>1, TroubledEffect DEF GetBlockInfo
  <2>. QED
    BY <1>0, <2>1, <2>2, <2>3 DEF LeftOutInv, Working
<1>6. CASE ReadFails
  <2>1. /\ step = "block" /\ step' = "idle"
        /\ UNCHANGED <<day, total, trouble>>
        /\ Done = lastCheckedBlock /\ Done' = Done
    BY <1>0, <1>6 DEF ReadFails, LoopFails, Done
  <2>. QED
    BY <1>0, <2>1 DEF LeftOutInv, Working
<1>7. CASE Claim
  <2>1. /\ step = "claim" /\ step' = "day"
        /\ UNCHANGED <<cursor, day, total, trouble, subsidy>>
        /\ Done' = Done
    BY <1>0, <1>7 DEF Claim, Done
  <2>. QED
    BY <2>1 DEF LeftOutInv, Working
<1>8. CASE UpdateDay
  <2>1. /\ step = "day" /\ UNCHANGED <<total, trouble, subsidy>> /\ Done' = Done
        /\ Done = cursor
    BY <1>0, <1>8 DEF UpdateDay, Done
  <2>2. \A h \in Heights : h # cursor => day'[h] = day[h]
    BY <1>0, <1>8, OneMore DEF UpdateDay, Added
  <2>3. CASE step' = "total" /\ cursor' = cursor
    BY <2>1, <2>2, <2>3 DEF LeftOutInv, Working
  <2>4. CASE Proceed(cursor, target, lastTipHeight) /\ ~(subsidy /\ cursor \in ProofOfStake)
    <3>1. day'[cursor] = 1
      BY <1>0, <1>8, <2>1, OneMore DEF UpdateDay, Added, FiguresInv
    <3>2. cursor \in ProofOfStake => trouble[cursor] > 0
      BY <2>1, <2>4 DEF LeftOutInv
    <3>3. step' \in {"idle", "block"} /\ (step' = "block" => cursor' = cursor + 1)
      BY <2>1, <2>4, NextBlock
    <3>. QED
      BY <1>0, <2>1, <2>2, <3>1, <3>2, <3>3 DEF LeftOutInv, Working
  <2>. QED
    BY <1>8, <2>3, <2>4 DEF UpdateDay
<1>9. CASE UpdateTotal
  <2>1. /\ step = "total" /\ UNCHANGED <<day, trouble, subsidy>> /\ Done' = Done
        /\ Done = cursor
    BY <1>0, <1>9 DEF UpdateTotal, Done
  <2>2. \A h \in Heights : h # cursor => total'[h] = total[h]
    BY <1>0, <1>9, OneMore DEF UpdateTotal, Added
  <2>3. day[cursor] = 1 /\ total'[cursor] = 1
    BY <1>0, <1>9, <2>1, OneMore DEF UpdateTotal, Added, FiguresInv
  <2>4. step' \in {"idle", "block"} /\ (step' = "block" => cursor' = cursor + 1)
    BY <1>9, <2>1, NextBlock DEF UpdateTotal
  <2>. QED
    BY <1>0, <2>1, <2>2, <2>3, <2>4 DEF LeftOutInv, Working
\* The work on a block ends with a failure that is counted.
<1>10. ASSUME NEW took \in BOOLEAN, WriteUnderWay(took), step' = "idle",
              step \in {"claim", "day", "total"}, Troubled(cursor),
              Done' <= Done, Done \in Int, Done' \in Int
       PROVE  LeftOutInv'
  <2>1. \A h \in Heights : h # cursor => UNCHANGED <<day[h], total[h], trouble[h]>>
    BY <1>0, <1>10, WriteUnderWayEffect, TroubledEffect
  <2>2. trouble'[cursor] # 0
    BY <1>0, <1>10, TroubledEffect
  <2>. QED
    BY <1>0, <1>10, <2>1, <2>2 DEF LeftOutInv, Working
<1>11. CASE WriteFails
  <2>1. Done' = Done /\ Done \in Int
    BY <1>0, <1>11 DEF WriteFails, Done
  <2>. QED
    BY <1>10, <1>11, <2>1 DEF WriteFails, LoopFails
<1>12. CASE Crash
  <2>1. PICK took \in BOOLEAN : WriteUnderWay(took)
    BY <1>12 DEF Crash
  <2>2. stored' \in Int /\ (stored' = stored \/ (step = "claim" /\ stored' = cursor))
    BY <1>0, <2>1, WriteUnderWayEffect
  <2>3. Done' = stored' /\ stored' <= Done /\ Done \in Int
    BY <1>0, <1>12, <2>2 DEF Crash, ProcessLost, Done
  <2>4. CASE step \in {"claim", "day", "total"}
    BY <1>10, <1>12, <2>1, <2>2, <2>3, <2>4 DEF Crash, ProcessLost
  <2>5. CASE step \notin {"claim", "day", "total"}
    <3>1. UNCHANGED <<day, total, trouble, stored>> /\ step' = "idle"
      BY <1>12, <2>5 DEF Crash, ProcessLost, WriteUnderWay
    <3>2. \A h \in Heights : h <= Done' => ~Working(h)
      <4>1. step = "block" => Done' < cursor
        BY <1>0, <2>3, <3>1
      <4>2. step \in {"idle", "block"}
        BY <2>5 DEF TypeOK, LoopTypeOK, Steps
      <4>. QED
        BY <1>0, <2>2, <2>3, <4>1, <4>2 DEF Working
    <3>. QED
      BY <1>0, <2>2, <2>3, <3>1, <3>2 DEF LeftOutInv
  <2>. QED
    BY <2>4, <2>5
<1>13. CASE UNCHANGED vars
  BY <1>13 DEF vars, LeftOutInv, Working, Done
<1>. QED
  BY <1>2, <1>3, <1>4, <1>5, <1>6, <1>7, <1>8, <1>9, <1>11, <1>12, <1>13
     DEF Next, Work

-----------------------------------------------------------------------------
(* The theorems. *)

\* The state of StatIndexer is well typed and StatInv holds of it.
THEOREM Invariant == Spec => [](TypeOK /\ StatInv)
<1>1. TypeOK /\ StatInv /\ [Next]_vars => (TypeOK /\ StatInv)'
  BY StepTypeOK, LoopInvStep, RowInvStep, KnownInvStep, FiguresInvStep,
     LeftOutInvStep DEF StatInv
<1>. QED
  BY <1>1, InitInv, PTL DEF Spec

\* StatisticService adds a block to its day at most once, and its reward to the total
\* only with it.
THEOREM StatCountsOnce == Spec => []CountedOnce
BY Invariant, PTL DEF StatInv, FiguresInv

\* What the checkpoint has passed is counted, unless a failure hit it.
THEOREM StatLeavesOutOnlyByFailure == Spec => []LeftOutOnlyByFailure
<1>1. TypeOK /\ StatInv => LeftOutOnlyByFailure
  <2> SUFFICES ASSUME TypeOK, StatInv, NEW h \in 1..stored
               PROVE  trouble[h] = 0 /\ ~Working(h)
                        => day[h] = 1 /\ (h \in ProofOfStake => total[h] = 1)
    BY DEF LeftOutOnlyByFailure
  <2>1. h \in Heights /\ stored \in Int
    BY LoopAssumption DEF TypeOK, LoopTypeOK, Heights
  <2>2. h <= Done
    BY <2>1, LoopAssumption DEF Done, StatInv, RowInv, TypeOK, LoopTypeOK
  <2>. QED
    BY <2>1, <2>2 DEF StatInv, LeftOutInv
<1>. QED
  BY <1>1, Invariant, PTL

\* The branch of processBlock for a known block, which would throw, is never taken.
THEOREM StatCallsOnlyDefinedNames == Spec => []NoUndefinedCallback
<1>1. TypeOK /\ StatInv => NoUndefinedCallback
  <2> SUFFICES ASSUME TypeOK, StatInv, step = "block", cursor \in knownBlocks
               PROVE  FALSE
    BY DEF NoUndefinedCallback
  <2>1. cursor = lastCheckedBlock + 1 /\ cursor <= lastCheckedBlock
    BY DEF StatInv, RowInv, KnownInv
  <2>. QED
    BY <2>1, LoopAssumption DEF TypeOK, LoopTypeOK
<1>. QED
  BY <1>1, Invariant, PTL

\* Between updates no tip that the service heard of is left, but after an error.
THEOREM StatIdleIsCaughtUp == Spec => []IdleIsCaughtUp
BY Invariant, PTL DEF StatInv, LoopInv

\* StatisticService implements the at-most-once checkpoint: a step of the database is
\* a claim of a later block or the first count of the claimed one.
THEOREM StatImplementsAtMostOnce == Spec => AtMostOnce
<1>1. Init => Promise!Init
  BY DEF Init, LoopInit, Promise!Init, Heights, Promise!Heights
<1>2. TypeOK /\ StatInv /\ [Next]_vars
        => [Promise!Claim \/ Promise!Count]_<<stored, day>>
  <2> SUFFICES ASSUME TypeOK, StatInv, [Next]_vars
               PROVE  [Promise!Claim \/ Promise!Count]_<<stored, day>>
    OBVIOUS
  <2>0. /\ step # "idle" => cursor \in Promise!Heights
        /\ step = "claim" => cursor > stored
        /\ step = "day" => cursor = stored /\ day[cursor] = 0
    BY LoopAssumption
       DEF TypeOK, LoopTypeOK, StatInv, LoopInv, RowInv, FiguresInv, Promise!Heights
  <2>1. ASSUME step = "claim", stored' = cursor, day' = day
        PROVE  Promise!Claim
    BY <2>0, <2>1 DEF Promise!Claim
  <2>2. ASSUME step = "day", day' = Added(day, cursor), stored' = stored
        PROVE  Promise!Count
    BY <2>0, <2>2 DEF Promise!Count, Promise!Apply, Added
  <2>3. CASE Claim
    BY <2>1, <2>3 DEF Claim
  <2>4. CASE UpdateDay
    BY <2>2, <2>4 DEF UpdateDay
  <2>5. ASSUME NEW took \in BOOLEAN, WriteUnderWay(took)
        PROVE  [Promise!Claim \/ Promise!Count]_<<stored, day>>
    <3>1. CASE took /\ step = "day"
      BY <2>2, <2>5, <3>1 DEF WriteUnderWay
    <3>2. CASE took /\ step = "claim"
      BY <2>1, <2>5, <3>2 DEF WriteUnderWay
    <3>3. CASE ~(took /\ step \in {"claim", "day"})
      BY <2>5, <3>3 DEF WriteUnderWay
    <3>. QED
      BY <3>1, <3>2, <3>3
  <2>6. CASE WriteFails \/ Crash
    BY <2>5, <2>6 DEF WriteFails, Crash
  <2>7. CASE UNCHANGED <<stored, day>>
    BY <2>7
  <2>. QED
    BY <2>3, <2>4, <2>6, <2>7
       DEF Next, Work, vars, Start, StartFails, GetLastBlock, PreviousDone, NodeMoves,
           GetBlockInfo, ReadFails, UpdateTotal, Tip, TipEvent
<1>. QED
  BY <1>1, <1>2, Invariant, PTL DEF Spec, AtMostOnce, Promise!AtMostOnce

-----------------------------------------------------------------------------
(* The figures of the last 24 hours. *)

\* With its caches the service moves as the indexer does, or leaves it alone.
LEMMA WindowStepIsStep == WindowNext => [Next]_vars
BY DEF WindowNext, StartWalk, LoadRow, WalkBack, WalkEnds, DayDone, TotalDone,
       BlockLost, Elsewhere, ClockTicks, CrashOfWindow, Next, Work

THEOREM WindowImplementsIndexer == WindowSpec => Spec
<1>1. [WindowNext]_<<vars, windowVars>> => [Next]_vars
  BY WindowStepIsStep
<1>2. WindowInit => Init
  BY DEF WindowInit
<1>. QED
  BY <1>1, <1>2, PTL DEF WindowSpec, Spec

\* The variables that the start steps and the window relate.
LEMMA WindowTypes ==
    ASSUME TypeOK
    PROVE  /\ lastCheckedBlock \in 0..MaxHeight /\ target \in 0..MaxHeight
           /\ stored \in 0..MaxHeight /\ cursor \in 0..MaxHeight
           /\ best \in Heights
           /\ MaxHeight \in Nat
BY LoopAssumption DEF TypeOK, LoopTypeOK

LEMMA WindowInitOK == WindowInit => WindowTypeOK /\ WindowInv
<1> SUFFICES ASSUME WindowInit PROVE WindowTypeOK /\ WindowInv
  OBVIOUS
<1>1. TypeOK /\ phase = "down"
  BY InitInv DEF WindowInit, Init, LoopInit
<1>2. now \in 0..MaxNow
  BY DEF WindowInit
<1>. QED
  BY <1>1, <1>2, LoopAssumption DEF WindowInit, WindowTypeOK, WindowInv

LEMMA WindowTypeStep ==
    WindowTypeOK /\ TypeOK' /\ LoopInv /\ [WindowNext]_<<vars, windowVars>> => WindowTypeOK'
<1> SUFFICES ASSUME WindowTypeOK, TypeOK', LoopInv, [WindowNext]_<<vars, windowVars>>
             PROVE  WindowTypeOK'
  OBVIOUS
<1>0. /\ now \in 0..MaxNow /\ walk \in -1..MaxHeight
      /\ window \subseteq 0..MaxHeight /\ missed \subseteq Heights
      /\ cursor \in 0..MaxHeight /\ target' \in 0..MaxHeight /\ MaxNow \in Nat
      /\ MaxHeight \in Nat
  BY LoopAssumption, WindowAssumption DEF WindowTypeOK, TypeOK, LoopTypeOK
<1>1. CASE StartWalk
  BY <1>0, <1>1 DEF StartWalk, WindowTypeOK
<1>2. CASE LoadRow
  BY <1>0, <1>2 DEF LoadRow, WindowTypeOK
<1>3. CASE WalkBack
  BY <1>0, <1>3 DEF WalkBack, Set24h, WindowTypeOK
<1>4. CASE DayDone
  BY <1>0, <1>4 DEF DayDone, Set24h, WindowTypeOK
<1>5. CASE TotalDone
  BY <1>0, <1>5 DEF TotalDone, Set24h, WindowTypeOK
<1>6. CASE BlockLost
  <2>1. cursor \in Heights
    BY <1>0, <1>6 DEF BlockLost, WriteFails, LoopInv, Heights
  <2>. QED
    BY <1>0, <1>6, <2>1 DEF BlockLost, WindowTypeOK
<1>7. CASE ClockTicks
  BY <1>0, <1>7 DEF ClockTicks, WindowTypeOK
<1>8. CASE CrashOfWindow
  BY <1>0, <1>8 DEF CrashOfWindow, WindowTypeOK
<1>9. CASE UNCHANGED windowVars
  BY <1>0, <1>9 DEF windowVars, WindowTypeOK
<1>. QED
  BY <1>1, <1>2, <1>3, <1>4, <1>5, <1>6, <1>7, <1>8, <1>9
     DEF WindowNext, WalkEnds, Elsewhere, windowVars

\* A young block is young until now is a day after it: later there are no more.
LEMMA YoungShrinks ==
    ASSUME WindowTypeOK, NEW h \in 0..MaxHeight, now' = now \/ now' = now + 1, Young(h)'
    PROVE  Young(h)
<1>1. now \in Nat /\ BlockTime[h] \in Int /\ Day \in Int
  BY WindowAssumption DEF WindowTypeOK
<1>. QED
  BY <1>1 DEF Young

\* What a step of the work on a block does to what the service has checked.
LEMMA WorkOnBlock ==
    ASSUME TypeOK, LoopInv, RowInv, step \in {"claim", "day", "total"}
    PROVE  phase = "up" /\ cursor = lastCheckedBlock /\ cursor \in Heights
BY LoopAssumption DEF TypeOK, LoopTypeOK, LoopInv, RowInv, Heights

LEMMA WindowInvStep ==
    WindowTypeOK /\ TypeOK' /\ StatInv /\ WindowInv /\ [WindowNext]_<<vars, windowVars>>
        => WindowInv'
<1> SUFFICES ASSUME WindowTypeOK, TypeOK', LoopInv, RowInv, WindowInv,
                    [WindowNext]_<<vars, windowVars>>
             PROVE  WindowInv'
  BY DEF StatInv
<1> USE DEF WindowTypeOK
<1>0. /\ lastCheckedBlock \in 0..MaxHeight /\ target \in 0..MaxHeight
      /\ stored \in 0..MaxHeight /\ MaxHeight \in Nat
      /\ phase # "up" => step = "idle"
  BY WindowTypes DEF LoopInv
<1>1. CASE StartWalk
  BY <1>1 DEF StartWalk, Start, WindowInv
<1>2. CASE LoadRow
  <2>1. /\ phase = "load" /\ phase' = "previous" /\ walk' = target /\ target' = target
        /\ lastCheckedBlock' = stored
        /\ missed' = {h \in Heights : target < h /\ h <= stored}
    BY <1>2 DEF LoadRow, GetLastBlock, LoadChecked, WindowInv
  <2>. QED
    BY <2>1, <1>0 DEF WindowInv, Heights
<1>3. CASE WalkBack
  <2>1. /\ phase = "previous" /\ phase' = "previous" /\ walk' = walk - 1
        /\ target' = target /\ lastCheckedBlock' = lastCheckedBlock
        /\ missed' = missed /\ now' = now /\ window' = window \cup {walk}
    BY <1>3 DEF WalkBack, Set24h, vars, loopVars, runVars
  <2>2. \A h \in Heights : Young(h)' = Young(h)
    BY <2>1 DEF Young
  <2>. QED
    BY <2>1, <2>2, <1>0 DEF WindowInv, Heights
<1>4. CASE WalkEnds
  <2>1. /\ phase = "previous" /\ phase' = "up" /\ walk \in 0..MaxHeight /\ ~Young(walk)
        /\ lastCheckedBlock' = lastCheckedBlock
        /\ UNCHANGED <<now, walk, window, missed>>
    BY <1>4 DEF WalkEnds, PreviousDone, windowVars
  <2>2. ASSUME NEW h \in 1..lastCheckedBlock, walk < h, Young(h)
        PROVE  h \in window \cup missed
    <3>1. h \in Heights
      BY <1>0 DEF Heights
    <3>. QED
      BY <2>1, <2>2, <3>1 DEF WindowInv
  <2>3. \A h \in 0..MaxHeight : Young(h)' = Young(h)
    BY <2>1 DEF Young
  <2>. QED
    BY <2>1, <2>2, <2>3, <1>0 DEF WindowInv, Heights
<1>5. ASSUME UpdateDay \/ UpdateTotal, step' # "total", Set24h(cursor),
             UNCHANGED <<now, walk, missed>>
      PROVE  WindowInv'
  <2>1. phase = "up" /\ cursor = lastCheckedBlock /\ cursor \in Heights
    BY <1>5, WorkOnBlock DEF UpdateDay, UpdateTotal
  <2>2. phase' = "up" /\ lastCheckedBlock' = lastCheckedBlock
    BY <1>5, <2>1 DEF UpdateDay, UpdateTotal
  <2>3. ASSUME NEW h \in 1..lastCheckedBlock, walk < h, Young(h)
        PROVE  h \in window' \cup missed'
    BY <1>5, <2>1, <2>3 DEF WindowInv, Set24h
  <2>4. \A h \in 0..MaxHeight : Young(h)' = Young(h)
    BY <1>5 DEF Young
  <2>5. walk' >= 0 /\ ~Young(walk)'
    BY <1>5, <2>1 DEF WindowInv, Young
  <2>6. \A h \in 1..lastCheckedBlock' : walk' < h /\ Young(h)' => h \in window' \cup missed'
    BY <1>0, <1>5, <2>2, <2>3, <2>4
  <2>. QED
    BY <2>2, <2>5, <2>6 DEF WindowInv
<1>6. CASE DayDone
  <2>1. CASE step' # "total"
    BY <1>5, <1>6, <2>1 DEF DayDone
  <2>2. CASE step' = "total"
    <3>1. /\ phase = "up" /\ phase' = "up" /\ step = "day"
          /\ lastCheckedBlock' = lastCheckedBlock /\ cursor' = cursor
          /\ UNCHANGED <<now, walk, window, missed>>
      BY <1>6, <2>2, <1>0, WorkOnBlock
         DEF DayDone, UpdateDay, Proceed
    <3>. QED
      BY <3>1, <2>2 DEF WindowInv, Young
  <2>. QED
    BY <2>1, <2>2
<1>7. CASE TotalDone
  <2>1. step' # "total"
    BY <1>7 DEF TotalDone, UpdateTotal, Proceed
  <2>. QED
    BY <1>5, <1>7, <2>1 DEF TotalDone
<1>8. CASE BlockLost
  <2>1. phase = "up" /\ cursor = lastCheckedBlock
    BY <1>8, WorkOnBlock DEF BlockLost, WriteFails
  <2>2. /\ phase' = "up" /\ lastCheckedBlock' = lastCheckedBlock
        /\ missed' = missed \cup {cursor} /\ UNCHANGED <<now, walk, window>>
    BY <1>8, <2>1 DEF BlockLost, WriteFails
  <2>3. walk' >= 0 /\ ~Young(walk)'
    BY <2>1, <2>2, <1>8 DEF WindowInv, Young, BlockLost, WriteFails
  <2>4. \A h \in 1..lastCheckedBlock' : walk' < h /\ Young(h)' => h \in window' \cup missed'
    BY <2>1, <2>2 DEF WindowInv, Young
  <2>. QED
    BY <2>2, <2>3, <2>4 DEF WindowInv
<1>9. CASE GetBlockInfo /\ UNCHANGED windowVars
  <2>1. /\ phase = "up" /\ phase' = "up" /\ step = "block" /\ step' = "claim"
        /\ cursor = lastCheckedBlock + 1
        /\ lastCheckedBlock' = cursor /\ cursor' = cursor
        /\ UNCHANGED <<now, walk, window, missed>>
    BY <1>9, <1>0 DEF GetBlockInfo, RowInv, windowVars
  <2>2. \A h \in 0..MaxHeight : Young(h)' = Young(h)
    BY <2>1 DEF Young
  <2>3. ASSUME NEW h \in 1..cursor, h # cursor, walk < h, Young(h)
        PROVE  h \in window \cup missed
    <3>1. h \in 1..lastCheckedBlock
      BY <1>0, <2>1, <2>3
    <3>. QED
      BY <2>1, <2>3, <3>1 DEF WindowInv
  <2>4. 1..cursor \subseteq Heights
    BY <1>0, <2>1, WindowTypes DEF Heights
  <2>5. walk' >= 0 /\ ~Young(walk)'
    BY <2>1 DEF WindowInv, Young
  <2>6. \A h \in 1..lastCheckedBlock' :
          walk' < h /\ Young(h)' /\ h # cursor' => h \in window' \cup missed'
    BY <1>0, <2>1, <2>2, <2>3, <2>4 DEF Heights
  <2>. QED
    BY <2>1, <2>5, <2>6 DEF WindowInv
<1>10. CASE ClockTicks
  <2>1. /\ now' = now + 1
        /\ UNCHANGED <<phase, walk, window, missed, target, lastCheckedBlock, step, cursor>>
    BY <1>10 DEF ClockTicks, vars, loopVars, runVars
  <2>2. \A h \in 0..MaxHeight : Young(h)' => Young(h)
    BY <2>1, <1>0, YoungShrinks
  <2>. QED
    BY <2>1, <2>2, <1>0 DEF WindowInv, Heights
<1>11. CASE CrashOfWindow
  BY <1>11 DEF CrashOfWindow, Crash, ProcessLost, WindowInv
<1>12. CASE StartFails
  BY <1>12 DEF StartFails, WindowInv
<1>13. ASSUME UNCHANGED windowVars, UNCHANGED <<phase, lastCheckedBlock>>,
              phase # "up" => UNCHANGED target,
              \/ UNCHANGED <<step, cursor>>
              \/ step \in {"idle", "block"} /\ step' \in {"idle", "block"}
       PROVE  WindowInv'
  BY <1>13 DEF windowVars, WindowInv, Young
<1>14. CASE (ReadFails \/ Claim \/ \E height \in Heights : Tip(height))
            /\ UNCHANGED windowVars
  <2>1. CASE ReadFails
    BY <1>13, <1>14, <2>1, <1>0 DEF ReadFails, LoopFails
  <2>2. CASE Claim
    <3>1. /\ UNCHANGED <<phase, lastCheckedBlock, cursor, target>>
          /\ step = "claim" /\ step' = "day"
      BY <2>2 DEF Claim
    <3>. QED
      BY <1>14, <3>1 DEF WindowInv, Young, windowVars
  <2>3. ASSUME NEW height \in Heights, Tip(height) PROVE WindowInv'
    BY <1>13, <1>14, <2>3 DEF Tip, TipEvent, BeginUpdate, Proceed
  <2>. QED
    BY <1>14, <2>1, <2>2, <2>3
<1>15. CASE NodeMoves /\ UNCHANGED windowVars
  BY <1>13, <1>15 DEF NodeMoves, runVars
<1>16. CASE UNCHANGED <<vars, windowVars>>
  BY <1>13, <1>16 DEF vars, loopVars, runVars
<1>. QED
  BY <1>1, <1>2, <1>3, <1>4, <1>6, <1>7, <1>8, <1>9, <1>10, <1>11, <1>12, <1>14,
     <1>15, <1>16 DEF WindowNext, Elsewhere

\* The invariant of the indexer with its caches.
THEOREM WindowInvariant == WindowSpec => [](WindowTypeOK /\ StatInv /\ WindowInv)
<1>1. WindowTypeOK => TypeOK
  BY DEF WindowTypeOK
<1>2. StatInv => LoopInv
  BY DEF StatInv
<1>. QED
  BY <1>1, <1>2, WindowInitOK, WindowTypeStep, WindowInvStep, WindowImplementsIndexer,
     Invariant, PTL DEF WindowSpec

\* For every chain, whatever the times of its blocks, getTotal sums up every block
\* the service has checked, up to the first one that is a day old or was left out.
THEOREM DayIsSummedUp == WindowSpec => []DayIsCounted
<1>1. WindowTypeOK /\ WindowInv => DayIsCounted
  <2> SUFFICES ASSUME WindowTypeOK, WindowInv, phase = "up", step \in {"idle", "block"},
                      NEW h \in 1..lastCheckedBlock, Expected(h),
                      NEW k \in h..lastCheckedBlock
               PROVE  Alive(k)
    BY DEF DayIsCounted, Counted
  <2>1. /\ lastCheckedBlock \in 0..MaxHeight /\ k \in 0..MaxHeight /\ h <= k
        /\ k \in 1..lastCheckedBlock
    BY WindowTypes DEF WindowTypeOK
  <2>2. walk \in 0..MaxHeight /\ ~Young(walk)
    BY DEF WindowTypeOK, WindowInv
  <2>3. \A j \in h..Larger(lastCheckedBlock, walk) : Young(j) /\ j \notin missed
    BY DEF Expected
  <2>4. Young(k) /\ k \notin missed
    BY <2>1, <2>2, <2>3 DEF Larger
  <2>5. walk < h
    BY <2>1, <2>2, <2>3 DEF Larger
  <2>6. k \in window
    BY <2>1, <2>2, <2>4, <2>5 DEF WindowInv
  <2>7. now \in Int /\ BlockTime[k] \in Int /\ Day \in Int
    BY <2>1, WindowAssumption DEF WindowTypeOK
  <2>. QED
    BY <2>4, <2>6, <2>7 DEF Alive, Young
<1>. QED
  BY <1>1, WindowInvariant, PTL
=============================================================================
