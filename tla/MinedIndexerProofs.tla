------------------------- MODULE MinedIndexerProofs -------------------------
(***************************************************************************)
(* Proofs about MinedIndexer for every chain, every set of blocks without  *)
(* a miner and every number of failures: the inductive invariant MinedInv, *)
(* and from it that the service implements Checkpoint!AtLeastOnce.         *)
(***************************************************************************)
EXTENDS ClientRounds, TLAPS

USE DEF loopVars, nodeVars, tipVars, runVars

(* The loop, and what a count and a failure leave alone. *)

\* The loop goes on with the block after the last checked one, towards a tip it
\* has heard of, or rests with everything checked.
LEMMA ProceedGoesOn ==
    ASSUME NEW checked \in 0..MaxHeight, NEW goal \in 0..MaxHeight,
           NEW tip \in 0..MaxHeight, goal <= tip,
           cursor \in 0..MaxHeight, target \in 0..MaxHeight,
           Proceed(checked, goal, tip)
    PROVE  /\ step' \in {"idle", "block"}
           /\ cursor' \in 0..MaxHeight /\ target' \in 0..MaxHeight
           /\ step' = "idle" => checked >= tip
           /\ step' # "idle" => /\ cursor' = checked + 1
                                /\ cursor' <= target' /\ target' <= tip
BY LoopAssumption DEF Proceed

\* An update that a tip or the start begins is one of those.
LEMMA BeginUpdateGoesOn ==
    ASSUME lastTipHeight \in 0..MaxHeight, lastCheckedBlock \in 0..MaxHeight,
           cursor \in 0..MaxHeight, target \in 0..MaxHeight,
           NEW height \in 0..MaxHeight, BeginUpdate(lastCheckedBlock, height)
    PROVE  /\ lastTipHeight' \in 0..MaxHeight /\ lastTipHeight' >= lastTipHeight
           /\ stalled' = FALSE
           /\ step' \in {"idle", "block"}
           /\ cursor' \in 0..MaxHeight /\ target' \in 0..MaxHeight
           /\ step' = "idle" => lastCheckedBlock >= lastTipHeight'
           /\ step' # "idle" => /\ cursor' = lastCheckedBlock + 1
                                /\ cursor' <= target' /\ target' <= lastTipHeight'
<1> DEFINE tip == Larger(lastTipHeight, height)
<1>1. tip \in 0..MaxHeight /\ height <= tip /\ lastTipHeight <= tip
  BY LoopAssumption DEF Larger
<1>2. lastTipHeight' = tip /\ stalled' = FALSE
      /\ Proceed(lastCheckedBlock, height, tip)
  BY DEF BeginUpdate
<1>. QED
  BY <1>1, <1>2, ProceedGoesOn

\* A count that goes up stays a count, and only for the one block.
LEMMA OneMore ==
    ASSUME NEW count \in [Heights -> Nat], NEW c \in Heights
    PROVE  /\ [count EXCEPT ![c] = @ + 1] \in [Heights -> Nat]
           /\ \A h \in Heights : [count EXCEPT ![c] = @ + 1][h] =
                                  IF h = c THEN count[h] + 1 ELSE count[h]
OBVIOUS

\* A counted failure touches the one block.
LEMMA TroubledEffect ==
    ASSUME trouble \in [Heights -> Nat], NEW c \in Heights, Troubled(c)
    PROVE  /\ trouble' \in [Heights -> Nat]
           /\ \A h \in Heights : trouble'[h] = IF h = c THEN trouble[h] + 1 ELSE trouble[h]
BY OneMore DEF Troubled

-----------------------------------------------------------------------------
LEMMA InitInv == Init => TypeOK /\ MinedInv
<1> SUFFICES ASSUME Init PROVE TypeOK /\ MinedInv
  OBVIOUS
<1>1. TypeOK
  <2>1. /\ best \in Heights /\ high \in Heights /\ stored \in 0..MaxHeight
        /\ lastTipHeight \in 0..MaxHeight /\ lastCheckedBlock \in 0..MaxHeight
        /\ target \in 0..MaxHeight /\ cursor \in 0..MaxHeight
    BY LoopAssumption DEF Init, LoopInit
  <2>2. /\ phase \in Phases /\ step \in Steps /\ stalled \in BOOLEAN
    BY DEF Init, LoopInit, Phases, Steps
  <2>3. trouble \in [Heights -> Nat] /\ credited \in [Heights -> Nat]
    BY DEF Init, LoopInit
  <2>. QED
    BY <2>1, <2>2, <2>3 DEF TypeOK, LoopTypeOK
<1>2. /\ stored = 0 /\ phase = "down" /\ step = "idle" /\ best <= high
      /\ \A h \in Heights : credited[h] = 0 /\ trouble[h] = 0
  BY LoopAssumption DEF Init, LoopInit, Heights
<1>3. MinedInv
  BY <1>2, LoopAssumption
     DEF MinedInv, LoopInv, RowInv, CountInv, IdleIsCaughtUp, NoGap, Heights
<1>. QED
  BY <1>1, <1>3

\* What WriteFails and Crash do to the counts and to the row.
LEMMA WriteUnderWayEffect ==
    ASSUME TypeOK, LoopInv, NEW took \in BOOLEAN, WriteUnderWay(took)
    PROVE  /\ credited' \in [Heights -> Nat] /\ stored' \in 0..MaxHeight
           /\ stored' = stored \/ (step = "save" /\ stored' = cursor)
           /\ \A h \in Heights :
                \/ credited'[h] = credited[h]
                \/ step = "credit" /\ h = cursor /\ credited'[h] = credited[h] + 1
<1>1. credited \in [Heights -> Nat] /\ stored \in 0..MaxHeight /\ cursor \in 0..MaxHeight
  BY DEF TypeOK, LoopTypeOK
<1>2. step # "idle" => cursor \in Heights
  BY <1>1 DEF LoopInv, Heights
<1>3. CASE took /\ step = "credit"
  <2>1. stored' = stored /\ credited' = [credited EXCEPT ![cursor] = @ + 1]
    BY <1>3 DEF WriteUnderWay, Incremented
  <2>. QED
    BY <1>1, <1>2, <1>3, <2>1, OneMore
<1>4. CASE took /\ step = "save"
  <2>1. stored' = cursor /\ credited' = credited
    BY <1>4 DEF WriteUnderWay
  <2>. QED
    BY <1>1, <1>4, <2>1
<1>5. CASE ~(took /\ step \in {"credit", "save"})
  <2>1. stored' = stored /\ credited' = credited
    BY <1>5 DEF WriteUnderWay
  <2>. QED
    BY <1>1, <2>1
<1>. QED
  BY <1>3, <1>4, <1>5

LEMMA StepTypeOK == TypeOK /\ LoopInv /\ [Next]_vars => TypeOK'
<1> SUFFICES ASSUME TypeOK, LoopInv, [Next]_vars
             PROVE  TypeOK'
  OBVIOUS
<1> USE LoopAssumption DEF Phases, Steps
<1>0. /\ credited \in [Heights -> Nat] /\ trouble \in [Heights -> Nat]
      /\ stored \in 0..MaxHeight /\ lastTipHeight \in 0..MaxHeight
      /\ lastCheckedBlock \in 0..MaxHeight
      /\ cursor \in 0..MaxHeight /\ target \in 0..MaxHeight
      /\ best \in Heights /\ high \in Heights
      /\ step # "idle" => cursor \in Heights
  BY DEF TypeOK, LoopTypeOK, LoopInv, Heights
<1>1. CASE Start \/ StartFails
  BY <1>1 DEF Start, StartFails, TypeOK, LoopTypeOK
<1>2. CASE GetLastBlock
  BY <1>2 DEF GetLastBlock, LoadChecked, TypeOK, LoopTypeOK
<1>3. CASE GetInfo
  <2>1. PICK blocks \in 1..high :
          /\ phase' = "up"
          /\ BeginUpdate(lastCheckedBlock, blocks)
          /\ UNCHANGED <<nodeVars, stored, lastCheckedBlock, trouble, credited>>
    BY <1>3 DEF GetInfo
  <2>2. blocks \in 0..MaxHeight
    BY <1>0 DEF Heights
  <2>. QED
    BY <1>0, <2>1, <2>2, BeginUpdateGoesOn DEF TypeOK, LoopTypeOK
<1>4. CASE Crash
  <2>1. PICK took \in BOOLEAN : WriteUnderWay(took)
    BY <1>4 DEF Crash
  <2>2. credited' \in [Heights -> Nat] /\ stored' \in 0..MaxHeight
    BY <2>1, WriteUnderWayEffect
  <2>3. trouble' \in [Heights -> Nat]
    BY <1>0, <1>4, TroubledEffect DEF Crash
  <2>4. /\ phase' = "down" /\ lastTipHeight' = 0 /\ stalled' = FALSE
        /\ lastCheckedBlock' = 0 /\ target' = 0 /\ cursor' = 0 /\ step' = "idle"
        /\ UNCHANGED nodeVars
    BY <1>4 DEF Crash, ProcessLost
  <2>5. /\ lastTipHeight' \in 0..MaxHeight /\ lastCheckedBlock' \in 0..MaxHeight
        /\ target' \in 0..MaxHeight /\ cursor' \in 0..MaxHeight
        /\ best' \in Heights /\ high' \in Heights
    BY <1>0, <2>4
  <2>6. phase' \in Phases /\ step' \in Steps /\ stalled' \in BOOLEAN
    BY <2>4
  <2>. QED
    BY <2>2, <2>3, <2>5, <2>6 DEF TypeOK, LoopTypeOK
<1>5. CASE NodeMoves
  BY <1>0, <1>5 DEF NodeMoves, ChainMoves, Larger, TypeOK, LoopTypeOK, Heights
<1>6. CASE GetBlock \/ GetTransaction \/ ReadFails
  BY <1>6 DEF GetBlock, GetTransaction, ReadFails, LoopFails, TypeOK, LoopTypeOK
<1>7. CASE Credit
  <2>1. credited' \in [Heights -> Nat]
    BY <1>0, <1>7, OneMore DEF Credit, Incremented
  <2>. QED
    BY <1>7, <2>1 DEF Credit, TypeOK, LoopTypeOK
<1>8. CASE Save
  <2>1. /\ cursor \in 0..MaxHeight /\ target \in 0..MaxHeight
        /\ target <= lastTipHeight /\ Proceed(cursor, target, lastTipHeight)
    BY <1>8 DEF Save, TypeOK, LoopTypeOK, LoopInv
  <2>2. /\ step' \in {"idle", "block"}
        /\ cursor' \in 0..MaxHeight /\ target' \in 0..MaxHeight
    BY <1>0, <2>1, ProceedGoesOn
  <2>. QED
    BY <1>8, <2>1, <2>2 DEF Save, TypeOK, LoopTypeOK
<1>9. CASE WriteFails
  <2>1. PICK took \in BOOLEAN : WriteUnderWay(took)
    BY <1>9 DEF WriteFails
  <2>2. credited' \in [Heights -> Nat] /\ stored' \in 0..MaxHeight
    BY <2>1, WriteUnderWayEffect
  <2>3. trouble' \in [Heights -> Nat]
    BY <1>0, <1>9, TroubledEffect DEF WriteFails
  <2>4. step' \in Steps /\ stalled' \in BOOLEAN
    BY <1>9 DEF WriteFails, LoopFails
  <2>5. UNCHANGED <<nodeVars, phase, lastCheckedBlock, lastTipHeight, target, cursor>>
    BY <1>9 DEF WriteFails, LoopFails
  <2>. QED
    BY <2>2, <2>3, <2>4, <2>5 DEF nodeVars, TypeOK, LoopTypeOK
<1>10. ASSUME NEW height \in Heights, Tip(height)
       PROVE  TypeOK'
  <2>1. UNCHANGED <<nodeVars, stored, phase, lastCheckedBlock, trouble, credited>>
    BY <1>10 DEF Tip, TipEvent
  <2>2. CASE step # "idle"
    <3>1. /\ lastTipHeight' = Larger(lastTipHeight, height)
          /\ UNCHANGED <<stalled, target, cursor, step>>
      BY <1>10, <2>2 DEF Tip, TipEvent
    <3>2. lastTipHeight' \in 0..MaxHeight
      BY <1>0, <3>1 DEF Larger, Heights
    <3>. QED
      BY <2>1, <3>1, <3>2 DEF nodeVars, TypeOK, LoopTypeOK
  <2>3. CASE step = "idle"
    <3>1. BeginUpdate(lastCheckedBlock, height) /\ height \in 0..MaxHeight
      BY <1>10, <2>3 DEF Tip, TipEvent, Heights
    <3>. QED
      BY <1>0, <2>1, <3>1, BeginUpdateGoesOn DEF TypeOK, LoopTypeOK
  <2>. QED
    BY <2>2, <2>3
<1>11. CASE UNCHANGED vars
  BY <1>11 DEF vars, TypeOK, LoopTypeOK
<1>. QED
  BY <1>1, <1>2, <1>3, <1>4, <1>5, <1>6, <1>7, <1>8, <1>9, <1>10, <1>11
     DEF Next, Work

-----------------------------------------------------------------------------
(* The parts of the invariant, one lemma each. *)

LEMMA LoopInvStep == TypeOK /\ LoopInv /\ RowInv /\ [Next]_vars => LoopInv'
<1> SUFFICES ASSUME TypeOK, LoopInv, RowInv, [Next]_vars
             PROVE  LoopInv'
  OBVIOUS
<1> USE LoopAssumption
<1>0. /\ lastTipHeight \in 0..MaxHeight /\ lastCheckedBlock \in 0..MaxHeight
      /\ best \in Heights /\ high \in Heights /\ high \in 1..MaxHeight
      /\ cursor \in 0..MaxHeight /\ target \in 0..MaxHeight
  BY DEF TypeOK, LoopTypeOK, Heights
<1>1. CASE Start \/ StartFails \/ GetLastBlock
  BY <1>1 DEF Start, StartFails, GetLastBlock, LoopInv, IdleIsCaughtUp
<1>2. CASE GetInfo
  <2>1. PICK blocks \in 1..high :
          /\ phase' = "up"
          /\ BeginUpdate(lastCheckedBlock, blocks)
          /\ UNCHANGED <<nodeVars, lastCheckedBlock>>
    BY <1>2 DEF GetInfo
  <2>2. blocks \in 0..MaxHeight
    BY <1>0
  <2>. QED
    <3>1. /\ stalled' = FALSE /\ target' \in 0..MaxHeight
          /\ step' = "idle" => lastCheckedBlock >= lastTipHeight'
          /\ step' # "idle" => /\ cursor' = lastCheckedBlock + 1
                               /\ cursor' <= target' /\ target' <= lastTipHeight'
      BY <1>0, <2>1, <2>2, BeginUpdateGoesOn
    <3>. QED
      BY <1>0, <2>1, <3>1 DEF LoopInv, IdleIsCaughtUp
<1>3. CASE Crash
  BY <1>3 DEF Crash, ProcessLost, LoopInv, IdleIsCaughtUp
<1>4. CASE NodeMoves
  BY <1>0, <1>4 DEF NodeMoves, ChainMoves, Larger, LoopInv, IdleIsCaughtUp, Heights
<1>5. CASE GetBlock \/ GetTransaction \/ Credit
  BY <1>5 DEF GetBlock, GetTransaction, Credit, LoopInv, IdleIsCaughtUp
<1>6. CASE ReadFails \/ WriteFails
  BY <1>6 DEF ReadFails, WriteFails, LoopFails, LoopInv, IdleIsCaughtUp
<1>7. CASE Save
  <2>1. /\ target <= lastTipHeight /\ Proceed(cursor, target, lastTipHeight)
        /\ lastCheckedBlock' = cursor /\ phase = "up"
        /\ UNCHANGED <<nodeVars, phase, tipVars>>
    BY <1>7 DEF Save, LoopInv
  <2>2. /\ step' = "idle" => cursor >= lastTipHeight
        /\ step' # "idle" => /\ cursor' = cursor + 1
                             /\ cursor' <= target' /\ target' <= lastTipHeight
        /\ target' \in 0..MaxHeight
    BY <1>0, <2>1, ProceedGoesOn
  <2>. QED
    BY <1>0, <2>1, <2>2 DEF LoopInv, IdleIsCaughtUp
<1>8. ASSUME NEW height \in Heights, Tip(height)
      PROVE  LoopInv'
  <2>1. phase = "up" /\ UNCHANGED <<nodeVars, phase, lastCheckedBlock>>
    BY <1>8 DEF Tip, TipEvent
  <2>2. CASE step # "idle"
    BY <1>0, <1>8, <2>1, <2>2 DEF Tip, TipEvent, Larger, LoopInv, IdleIsCaughtUp, Heights
  <2>3. CASE step = "idle"
    <3>1. BeginUpdate(lastCheckedBlock, height) /\ height \in 0..MaxHeight
      BY <1>8, <2>3 DEF Tip, TipEvent, Heights
    <3>2. /\ stalled' = FALSE /\ target' \in 0..MaxHeight
          /\ step' = "idle" => lastCheckedBlock >= lastTipHeight'
          /\ step' # "idle" => /\ cursor' = lastCheckedBlock + 1
                               /\ cursor' <= target' /\ target' <= lastTipHeight'
      BY <1>0, <3>1, BeginUpdateGoesOn
    <3>. QED
      BY <1>0, <2>1, <3>2 DEF LoopInv, IdleIsCaughtUp
  <2>. QED
    BY <2>2, <2>3
<1>9. CASE UNCHANGED vars
  BY <1>9 DEF vars, LoopInv, IdleIsCaughtUp
<1>. QED
  BY <1>1, <1>2, <1>3, <1>4, <1>5, <1>6, <1>7, <1>8, <1>9 DEF Next, Work

LEMMA RowInvStep == TypeOK /\ LoopInv /\ RowInv /\ [Next]_vars => RowInv'
<1> SUFFICES ASSUME TypeOK, LoopInv, RowInv, [Next]_vars
             PROVE  RowInv'
  OBVIOUS
<1> USE LoopAssumption
<1>0. /\ lastTipHeight \in 0..MaxHeight /\ lastCheckedBlock \in 0..MaxHeight
      /\ high \in 1..MaxHeight /\ stored \in 0..MaxHeight
      /\ cursor \in 0..MaxHeight /\ target \in 0..MaxHeight
      /\ step # "idle" => phase = "up" /\ cursor \in Heights
      /\ credited \in [Heights -> Nat]
  BY DEF TypeOK, LoopTypeOK, LoopInv, Heights
<1>1. CASE Start \/ StartFails \/ GetLastBlock
  BY <1>0, <1>1 DEF Start, StartFails, GetLastBlock, LoadChecked, LoopInv, RowInv
<1>2. CASE GetInfo
  <2>1. PICK blocks \in 1..high :
          /\ phase = "info"
          /\ BeginUpdate(lastCheckedBlock, blocks)
          /\ UNCHANGED <<stored, lastCheckedBlock, credited>>
    BY <1>2 DEF GetInfo
  <2>2. blocks \in 0..MaxHeight
    BY <1>0
  <2>. QED
    BY <1>0, <2>1, <2>2, BeginUpdateGoesOn DEF RowInv
<1>3. CASE Crash
  BY <1>3 DEF Crash, ProcessLost, RowInv
<1>4. CASE NodeMoves \/ GetBlock \/ GetTransaction \/ ReadFails
  BY <1>4 DEF NodeMoves, GetBlock, GetTransaction, ReadFails, LoopFails, RowInv
<1>5. CASE Credit
  <2>1. credited'[cursor] = credited[cursor] + 1
    BY <1>0, <1>5, OneMore DEF Credit, Incremented
  <2>2. credited[cursor] \in Nat
    BY <1>0, <1>5 DEF Credit
  <2>. QED
    BY <1>5, <2>1, <2>2 DEF Credit, RowInv
<1>6. CASE WriteFails
  <2>1. PICK took \in BOOLEAN : WriteUnderWay(took)
    BY <1>6 DEF WriteFails
  <2>2. stored' = stored \/ stored' = cursor
    BY <2>1, WriteUnderWayEffect
  <2>. QED
    BY <1>0, <1>6, <2>2 DEF WriteFails, LoopFails, RowInv
<1>7. CASE Save
  <2>1. /\ target <= lastTipHeight /\ Proceed(cursor, target, lastTipHeight)
        /\ lastCheckedBlock' = cursor /\ stored' = cursor
    BY <1>7 DEF Save, LoopInv
  <2>2. step' \in {"idle", "block"} /\ (step' # "idle" => cursor' = cursor + 1)
    BY <1>0, <2>1, ProceedGoesOn
  <2>. QED
    BY <2>1, <2>2 DEF RowInv
<1>8. ASSUME NEW height \in Heights, Tip(height)
      PROVE  RowInv'
  <2>1. phase = "up" /\ UNCHANGED <<stored, phase, lastCheckedBlock, credited>>
    BY <1>8 DEF Tip, TipEvent
  <2>2. CASE step # "idle"
    BY <1>8, <2>1, <2>2 DEF Tip, TipEvent, RowInv
  <2>3. CASE step = "idle"
    <3>1. BeginUpdate(lastCheckedBlock, height) /\ height \in 0..MaxHeight
      BY <1>8, <2>3 DEF Tip, TipEvent, Heights
    <3>. QED
      BY <1>0, <2>1, <3>1, BeginUpdateGoesOn DEF RowInv
  <2>. QED
    BY <2>2, <2>3
<1>9. CASE UNCHANGED vars
  BY <1>9 DEF vars, RowInv
<1>. QED
  BY <1>1, <1>2, <1>3, <1>4, <1>5, <1>6, <1>7, <1>8, <1>9 DEF Next, Work

\* Only a checkpoint moves stored, and only past a block that is counted.
LEMMA NoGapStep == TypeOK /\ LoopInv /\ RowInv /\ NoGap /\ [Next]_vars => NoGap'
<1> SUFFICES ASSUME TypeOK, LoopInv, RowInv, NoGap, [Next]_vars
             PROVE  NoGap'
  OBVIOUS
<1> USE LoopAssumption
<1>0. /\ lastCheckedBlock \in 0..MaxHeight /\ stored \in 0..MaxHeight
      /\ step # "idle" => /\ phase = "up" /\ cursor \in Heights
                          /\ cursor = lastCheckedBlock + 1
                          /\ stored \in {lastCheckedBlock, lastCheckedBlock + 1}
      /\ credited \in [Heights -> Nat]
  BY DEF TypeOK, LoopTypeOK, LoopInv, RowInv, Heights
<1>1. CASE UNCHANGED <<stored, credited>>
  BY <1>1 DEF NoGap
<1>2. CASE Credit
  <2>1. stored' = stored /\ \A h \in Heights : credited'[h] >= credited[h]
    BY <1>0, <1>2, OneMore DEF Credit, Incremented
  <2>2. \A h \in Heights : credited'[h] \in Nat /\ credited[h] \in Nat
    BY <1>0, <1>2, OneMore DEF Credit, Incremented
  <2>. QED
    BY <1>0, <2>1, <2>2 DEF NoGap, Heights
<1>3. CASE Save
  <2>1. /\ stored' = cursor /\ credited' = credited
        /\ cursor \in Minerless \/ credited[cursor] > 0
    BY <1>3 DEF Save, RowInv
  <2>. QED
    BY <1>0, <1>3, <2>1 DEF NoGap, Save
<1>4. ASSUME NEW took \in BOOLEAN, WriteUnderWay(took)
      PROVE  NoGap'
  <2>1. /\ stored' = stored \/ (step = "save" /\ stored' = cursor)
        /\ \A h \in Heights : credited'[h] \in Nat /\ credited'[h] >= credited[h]
    BY <1>0, <1>4, WriteUnderWayEffect
  <2>2. \A h \in 1..stored : h \in Minerless \/ credited'[h] > 0
    BY <1>0, <2>1 DEF NoGap, Heights
  <2>3. CASE step = "save" /\ stored' = cursor
    <3>1. cursor \in Minerless \/ credited'[cursor] > 0
      BY <1>0, <2>1, <2>3 DEF RowInv
    <3>. QED
      BY <1>0, <2>2, <2>3, <3>1 DEF NoGap
  <2>. QED
    BY <2>1, <2>2, <2>3 DEF NoGap
<1>. QED
  BY <1>1, <1>2, <1>3, <1>4
     DEF Next, Work, vars, Start, StartFails, GetLastBlock, GetInfo, Crash, NodeMoves,
         GetBlock, GetTransaction, ReadFails, WriteFails, Tip, TipEvent

LEMMA CountInvStep ==
    TypeOK /\ LoopInv /\ RowInv /\ CountInv /\ [Next]_vars => CountInv'
<1> SUFFICES ASSUME TypeOK, LoopInv, RowInv, CountInv, [Next]_vars
             PROVE  CountInv'
  OBVIOUS
<1> USE LoopAssumption
<1>0. /\ lastCheckedBlock \in 0..MaxHeight /\ stored \in 0..MaxHeight
      /\ step # "idle" => /\ phase = "up" /\ cursor \in Heights
                          /\ cursor = lastCheckedBlock + 1
      /\ phase \in {"info", "up"} => stored \in {lastCheckedBlock, lastCheckedBlock + 1}
      /\ credited \in [Heights -> Nat] /\ trouble \in [Heights -> Nat]
      /\ \A h \in Heights : credited[h] \in Nat /\ trouble[h] \in Nat
      /\ Heights \subseteq Int
  BY DEF TypeOK, LoopTypeOK, LoopInv, RowInv, Heights
\* The counts are left alone, and what is done is not taken back.
<1>1. ASSUME UNCHANGED <<credited, trouble>>, step # "save", Done' >= Done,
             Done \in Int, Done' \in Int
      PROVE  CountInv'
  BY <1>0, <1>1 DEF CountInv
<1>2. CASE Start \/ StartFails
  <2>1. UNCHANGED <<credited, trouble>> /\ step # "save"
    BY <1>0, <1>2 DEF Start, StartFails
  <2>2. Done' >= Done /\ Done \in Int /\ Done' \in Int
    BY <1>0, <1>2 DEF Start, StartFails, Done
  <2>. QED
    BY <1>1, <2>1, <2>2
<1>3. CASE GetLastBlock
  <2>1. UNCHANGED <<credited, trouble>> /\ step # "save"
    BY <1>0, <1>3 DEF GetLastBlock
  <2>2. Done' >= Done /\ Done \in Int /\ Done' \in Int
    BY <1>0, <1>3 DEF GetLastBlock, LoadChecked, Done
  <2>. QED
    BY <1>1, <2>1, <2>2
<1>4. CASE GetInfo
  <2>1. UNCHANGED <<credited, trouble>> /\ step # "save"
    BY <1>0, <1>4 DEF GetInfo
  <2>2. Done' >= Done /\ Done \in Int /\ Done' \in Int
    BY <1>0, <1>4 DEF GetInfo, Done
  <2>. QED
    BY <1>1, <2>1, <2>2
<1>5. CASE Save
  <2>1. /\ UNCHANGED <<credited, trouble>> /\ step = "save"
        /\ Done = lastCheckedBlock /\ Done' = cursor
    BY <1>0, <1>5 DEF Save, Done
  <2>. QED
    BY <1>0, <2>1 DEF CountInv
<1>6. CASE Credit
  <2>1. /\ trouble' = trouble /\ step = "credit" /\ step' = "save" /\ cursor' = cursor
        /\ Done = lastCheckedBlock /\ Done' = Done
    BY <1>0, <1>6 DEF Credit, Done
  <2>2. \A h \in Heights : credited'[h] = IF h = cursor THEN credited[h] + 1 ELSE credited[h]
    BY <1>6, OneMore DEF Credit, Incremented, TypeOK
  <2>. QED
    BY <1>0, <2>1, <2>2 DEF CountInv
\* A failure in the credit or save step is counted, with or without its write.
<1>7. ASSUME step \in {"credit", "save"}, Troubled(cursor), Done' >= Done, Done' \in Int,
             NEW took \in BOOLEAN, WriteUnderWay(took)
      PROVE  CountInv'
  <2>1. Done = lastCheckedBlock
    BY <1>0, <1>7 DEF Done
  <2>2. \A h \in Heights : trouble'[h] = IF h = cursor THEN trouble[h] + 1 ELSE trouble[h]
    BY <1>0, <1>7, TroubledEffect
  <2>3. \A h \in Heights :
          \/ credited'[h] = credited[h]
          \/ step = "credit" /\ h = cursor /\ credited'[h] = credited[h] + 1
    BY <1>7, WriteUnderWayEffect
  <2>. QED
    BY <1>0, <1>7, <2>1, <2>2, <2>3 DEF CountInv
<1>8. CASE WriteFails
  <2>1. Done' >= Done /\ Done' \in Int
    BY <1>0, <1>8 DEF WriteFails, Done
  <2>. QED
    BY <1>7, <1>8, <2>1 DEF WriteFails
<1>9. CASE Crash
  <2>1. PICK took \in BOOLEAN : WriteUnderWay(took)
    BY <1>9 DEF Crash
  <2>2. stored' = stored \/ (step = "save" /\ stored' = cursor)
    BY <2>1, WriteUnderWayEffect
  <2>3. Done' = stored' /\ stored' >= Done /\ stored' \in Int /\ Done \in Int
    BY <1>0, <1>9, <2>2 DEF Crash, ProcessLost, Done, Heights
  <2>4. CASE step \in {"credit", "save"}
    BY <1>7, <1>9, <2>1, <2>3, <2>4 DEF Crash
  <2>5. CASE step \notin {"credit", "save"}
    <3>1. UNCHANGED <<credited, trouble>>
      BY <1>9, <2>5 DEF Crash, WriteUnderWay
    <3>. QED
      BY <1>1, <2>3, <2>5, <3>1
  <2>. QED
    BY <2>4, <2>5
<1>10. CASE NodeMoves \/ GetBlock \/ GetTransaction \/ ReadFails
            \/ \E height \in Heights : Tip(height)
  <2>1. UNCHANGED <<credited, trouble, phase, stored, lastCheckedBlock>>
    BY <1>10 DEF NodeMoves, GetBlock, GetTransaction, ReadFails, Tip, TipEvent
  <2>2. Done' = Done /\ Done \in Int
    BY <1>0, <2>1 DEF Done
  <2>3. CASE step # "save"
    BY <1>1, <2>1, <2>2, <2>3
  <2>4. CASE step = "save"
    <3>1. step' = "save" /\ cursor' = cursor
      BY <1>10, <2>4 DEF NodeMoves, GetBlock, GetTransaction, ReadFails, Tip, TipEvent
    <3>. QED
      BY <2>1, <2>2, <2>4, <3>1 DEF CountInv
  <2>. QED
    BY <2>3, <2>4
<1>11. CASE UNCHANGED vars
  BY <1>11 DEF vars, CountInv, Done
<1>. QED
  BY <1>2, <1>3, <1>4, <1>5, <1>6, <1>8, <1>9, <1>10, <1>11 DEF Next, Work

-----------------------------------------------------------------------------
(* The theorems. *)

\* The state of MinedIndexer is well typed and MinedInv holds of it.
THEOREM Invariant == Spec => [](TypeOK /\ MinedInv)
<1>1. TypeOK /\ MinedInv /\ [Next]_vars => (TypeOK /\ MinedInv)'
  BY StepTypeOK, LoopInvStep, RowInvStep, NoGapStep, CountInvStep DEF MinedInv
<1>. QED
  BY <1>1, InitInv, PTL DEF Spec

\* No block below the checkpoint of AddressBlocksMinedService is missing from the
\* counts.
THEOREM MinedHasNoGap == Spec => []NoGap
BY Invariant, PTL DEF MinedInv

\* A block is counted at most once more than failures hit its two writes.
THEOREM CountedOnceUnlessTroubled == Spec => []OnceUnlessTroubled
<1>1. TypeOK /\ MinedInv => OnceUnlessTroubled
  <2> SUFFICES ASSUME TypeOK, MinedInv, NEW h \in Heights
               PROVE  credited[h] <= 1 + trouble[h]
    BY DEF OnceUnlessTroubled
  <2>1. credited[h] \in Nat /\ trouble[h] \in Nat
    BY DEF TypeOK, LoopTypeOK
  <2>. QED
    BY <2>1 DEF MinedInv, CountInv
<1>. QED
  BY <1>1, Invariant, PTL

\* Between updates no tip that the service heard of is left unindexed, but after an
\* error.
THEOREM MinedIdleIsCaughtUp == Spec => []IdleIsCaughtUp
BY Invariant, PTL DEF MinedInv, LoopInv

\* AddressBlocksMinedService implements the at-least-once checkpoint: every step is
\* the effect of the block at or after the checkpoint, a checkpoint that follows its
\* effect, or invisible in the database.
THEOREM MinedImplementsAtLeastOnce == Spec => AtLeastOnce
<1>1. Init => Promise!Init
  BY DEF Init, LoopInit, Promise!Init, Heights, Promise!Heights
<1>2. TypeOK /\ MinedInv /\ [Next]_vars
        => [Promise!Work \/ Promise!Pass]_<<stored, credited>>
  <2> SUFFICES ASSUME TypeOK, MinedInv, [Next]_vars
               PROVE  [Promise!Work \/ Promise!Pass]_<<stored, credited>>
    OBVIOUS
  <2> USE LoopAssumption
  <2>0. /\ lastCheckedBlock \in 0..MaxHeight /\ stored \in 0..MaxHeight
        /\ step # "idle" => /\ cursor \in Promise!Heights
                            /\ cursor = stored \/ cursor = stored + 1
        /\ step = "save" => cursor \in Minerless \/ credited[cursor] > 0
    BY DEF TypeOK, LoopTypeOK, MinedInv, LoopInv, RowInv, Heights, Promise!Heights
  <2>1. ASSUME step = "save", stored' = cursor, credited' = credited
        PROVE  [Promise!Pass]_<<stored, credited>>
    BY <2>0, <2>1 DEF Promise!Pass
  <2>2. ASSUME step = "credit", credited' = Incremented(cursor), stored' = stored
        PROVE  Promise!Work
    BY <2>0, <2>2 DEF Promise!Work, Promise!Apply, Incremented
  <2>3. CASE Save
    BY <2>1, <2>3 DEF Save
  <2>4. CASE Credit
    BY <2>2, <2>4 DEF Credit
  <2>5. ASSUME NEW took \in BOOLEAN, WriteUnderWay(took)
        PROVE  [Promise!Work \/ Promise!Pass]_<<stored, credited>>
    <3>1. CASE took /\ step = "credit"
      BY <2>2, <2>5, <3>1 DEF WriteUnderWay
    <3>2. CASE took /\ step = "save"
      BY <2>1, <2>5, <3>2 DEF WriteUnderWay
    <3>3. CASE ~(took /\ step \in {"credit", "save"})
      BY <2>5, <3>3 DEF WriteUnderWay
    <3>. QED
      BY <3>1, <3>2, <3>3
  <2>6. CASE WriteFails \/ Crash
    BY <2>5, <2>6 DEF WriteFails, Crash
  <2>7. CASE UNCHANGED <<stored, credited>>
    BY <2>7
  <2>. QED
    BY <2>3, <2>4, <2>6, <2>7
       DEF Next, Work, vars, Start, StartFails, GetLastBlock, GetInfo, NodeMoves,
           GetBlock, GetTransaction, ReadFails, Tip, TipEvent
<1>. QED
  BY <1>1, <1>2, Invariant, PTL DEF Spec, AtLeastOnce, Promise!AtLeastOnce

-----------------------------------------------------------------------------
(* The rounds of clients, for any number of them. *)

\* With its rounds the service moves as the indexer does, or leaves it alone.
THEOREM ClientsImplementIndexer == ClientsSpec => Spec
<1>1. [ClientsNext]_<<vars, clientVars>> => [Next]_vars
  BY DEF ClientsNext, Reading, AskHash, HashAnswered, BlockCached, BlockAnswered,
         AskTransaction, TransactionCached, TransactionAnswered, TryFails, RoundFails,
         ClientsChange, ChainChanges, Otherwise, CrashOfAll, Next, Work
<1>2. ClientsInit => Init
  BY DEF ClientsInit
<1>. QED
  BY <1>1, <1>2, PTL DEF ClientsSpec, Spec

\* A round begins with nobody asked.
LEMMA BeginOK ==
    ASSUME able \subseteq Clients, NEW what \in {"hash", "block", "transaction"}, Begin(what),
           step = IF what = "transaction" THEN "transaction" ELSE "block",
           UNCHANGED <<cursor, best, step, able>>
    PROVE  RoundInv' /\ round' \in Rounds
<1>1. PICK i \in Clients : round' = RoundOf(what, i)
  BY DEF Begin
<1>2. /\ round'.first = i /\ round'.at = i /\ round'.left = N /\ N \in Nat
      /\ round'.what = what
      /\ round'.steady = AbleToAnswer(able)
  BY <1>1, ClientsAssumption DEF RoundOf
<1>3. AskedBefore(round') = {} /\ AskedBefore(round)' = {}
  BY <1>2 DEF AskedBefore
<1>4. AbleToAnswer(able)' = AbleToAnswer(able) /\ AbleToAnswer(able) \subseteq Clients
  BY DEF AbleToAnswer
<1>5. round' \in Rounds
  BY <1>1, <1>4, ClientsAssumption DEF RoundOf, Rounds
<1>. QED
  BY <1>2, <1>3, <1>4, <1>5 DEF RoundInv, Clients

\* Whoever stays able to answer stays steady, and nobody else.
LEMMA SteadyOK ==
    ASSUME RoundInv, round \in Rounds \cup {NoRound}, NEW clients,
           round' = StillSteady(clients), step' = step,
           \A c \in AbleToAnswer(able) \cap clients : c \in AbleToAnswer(able)'
    PROVE  RoundInv' /\ round' \in Rounds \cup {NoRound}
<1>1. CASE round = NoRound
  BY <1>1 DEF StillSteady, RoundInv
<1>2. CASE round # NoRound
  <2>1. /\ round \in Rounds /\ round' = [round EXCEPT !.steady = @ \cap clients]
        /\ round'.steady = round.steady \cap clients
        /\ round'.first = round.first /\ round'.at = round.at /\ round'.left = round.left
        /\ round'.what = round.what /\ round' \in Rounds
    BY <1>2 DEF StillSteady, Rounds
  <2>2. AskedBefore(round)' = AskedBefore(round)
    BY <2>1 DEF AskedBefore
  <2>. QED
    BY <1>2, <2>1, <2>2 DEF RoundInv
<1>. QED
  BY <1>1, <1>2

LEMMA RoundMoves ==
    ASSUME NEW r \in Rounds, NEW i \in Clients, NEW left \in 0..N
    PROVE  [r EXCEPT !.at = i, !.left = left] \in Rounds
BY DEF Rounds

\* A client that fails was not able, so that the steady ones are among those left.
LEMMA TryFailsOK ==
    ASSUME RoundInv, round \in Rounds \cup {NoRound}, TryFails
    PROVE  RoundInv' /\ round' \in Rounds \cup {NoRound}
<1>1. /\ round \in Rounds /\ round.left \in 1..N /\ N \in Nat \ {0}
      /\ round.first \in 1..N /\ round.at \in 1..N /\ round.steady \subseteq Clients
  BY ClientsAssumption DEF TryFails, Rounds, Clients
<1>2. /\ round'.first = round.first /\ round'.at = After(round.at)
      /\ round'.left = round.left - 1 /\ round'.steady = round.steady
      /\ round'.what = round.what /\ step' = step
      /\ After(round.at) \in 1..N
  BY <1>1 DEF TryFails, Rounds, After, vars
<1>3. round' \in Rounds
  <2>1. After(round.at) \in Clients /\ round.left - 1 \in 0..N
    BY <1>1, <1>2 DEF Clients
  <2>. QED
    BY <1>1, <2>1, RoundMoves DEF TryFails
<1>4. AskedBefore(round)' \subseteq AskedBefore(round) \cup {round.at}
  <2>1. SUFFICES ASSUME NEW c \in AskedBefore(round)' PROVE c \in AskedBefore(round) \cup {round.at}
    OBVIOUS
  <2>2. IF round.first < After(round.at)
        THEN c \in round.first..(After(round.at) - 1)
        ELSE c \in round.first..N \cup 1..(After(round.at) - 1)
    BY <1>1, <1>2, <2>1 DEF AskedBefore
  <2>3. CASE round.left = N
    <3>1. round.at = round.first
      BY <1>1, <2>3 DEF RoundInv, TryFails
    <3>2. c = round.at
      BY <1>1, <2>2, <3>1 DEF After
    <3>. QED
      BY <3>2
  <2>4. CASE round.left # N
    <3>1. AskedBefore(round) = IF round.first < round.at THEN round.first..(round.at - 1)
                               ELSE round.first..N \cup 1..(round.at - 1)
      BY <2>4 DEF AskedBefore
    <3>2. round.first # round.at
      BY <1>1, <2>4 DEF RoundInv, TryFails
    <3>. QED
      BY <1>1, <2>2, <3>1, <3>2 DEF After
  <2>. QED
    BY <2>3, <2>4
<1>5. round.at \notin round.steady
  BY DEF TryFails, RoundInv
<1>6. AbleToAnswer(able)' = AbleToAnswer(able)
  BY DEF TryFails, AbleToAnswer, vars, loopVars, nodeVars, runVars
<1>7. /\ round'.steady \cap AskedBefore(round)' = {}
      /\ round'.steady \subseteq AbleToAnswer(able)'
  BY <1>2, <1>4, <1>5, <1>6 DEF TryFails, RoundInv
<1>8. IF round'.first < round'.at THEN round'.left = N - (round'.at - round'.first)
      ELSE IF round'.at < round'.first THEN round'.left = round'.first - round'.at
      ELSE round'.left \in {0, N}
  BY <1>1, <1>2 DEF TryFails, RoundInv, After
<1>. QED
  BY <1>2, <1>3, <1>7, <1>8 DEF RoundInv, TryFails

LEMMA RoundStep ==
    ASSUME TypeOK, LoopInv, able \subseteq Clients, round \in Rounds \cup {NoRound}, RoundInv,
           [ClientsNext]_<<vars, clientVars>>
    PROVE  able' \subseteq Clients /\ round' \in Rounds \cup {NoRound} /\ RoundInv'
<1>1. ASSUME NEW what \in {"hash", "block", "transaction"}, Begin(what), UNCHANGED <<vars, able>>,
             step = IF what = "transaction" THEN "transaction" ELSE "block"
      PROVE  able' \subseteq Clients /\ round' \in Rounds \cup {NoRound} /\ RoundInv'
  <2>1. UNCHANGED <<cursor, best, step, able>>
    BY <1>1 DEF vars
  <2>. QED
    BY <1>1, <2>1, BeginOK
<1>2. ASSUME round' = NoRound, able' \subseteq Clients
      PROVE  able' \subseteq Clients /\ round' \in Rounds \cup {NoRound} /\ RoundInv'
  BY <1>2 DEF RoundInv
<1>3. CASE Reading
  <2>1. CASE AskHash
    BY <1>1, <2>1 DEF AskHash
  <2>2. CASE HashAnswered
    <3>1. step = "block"
      BY <2>2 DEF HashAnswered, Asking, RoundInv
    <3>. QED
      BY <1>1, <2>2, <3>1 DEF HashAnswered
  <2>3. CASE AskTransaction
    BY <1>1, <2>3 DEF AskTransaction
  <2>4. CASE BlockCached \/ BlockAnswered \/ TransactionAnswered \/ RoundFails
    BY <1>2, <2>4 DEF BlockCached, BlockAnswered, TransactionAnswered, RoundFails
  <2>5. CASE TransactionCached
    BY <1>2, <2>5 DEF TransactionCached, clientVars
  <2>6. CASE TryFails
    BY <2>6, TryFailsOK DEF TryFails
  <2>. QED
    BY <1>3, <2>1, <2>2, <2>3, <2>4, <2>5, <2>6 DEF Reading
<1>4. CASE Otherwise
  <2>1. round' = round /\ able' = able
    BY <1>4 DEF Otherwise, clientVars
  <2>2. CASE round = NoRound
    BY <1>2, <2>1, <2>2
  <2>3. CASE round # NoRound
    <3>1. step \in {"block", "transaction"} /\ phase = "up"
      BY <2>3 DEF RoundInv, LoopInv
    <3>2. \E height \in Heights : Tip(height)
      BY <1>4, <3>1 DEF Otherwise, Start, StartFails, GetLastBlock, GetInfo, Credit, Save, WriteFails
    <3>3. UNCHANGED <<cursor, best, step>>
      BY <3>1, <3>2 DEF Tip, TipEvent
    <3>. QED
      BY <2>1, <3>3 DEF RoundInv, AbleToAnswer, AskedBefore
  <2>. QED
    BY <2>2, <2>3
<1>5. CASE ClientsChange
  <2>1. \A c \in AbleToAnswer(able) \cap able' : c \in AbleToAnswer(able)'
    BY <1>5 DEF ClientsChange, AbleToAnswer, vars
  <2>2. step' = step /\ able' \subseteq Clients /\ round' = StillSteady(able')
    BY <1>5 DEF ClientsChange, vars
  <2>. QED
    BY <2>1, <2>2, SteadyOK
<1>6. CASE ChainChanges
  <2>1. step' = step /\ cursor' = cursor /\ able' = able
    BY <1>6 DEF ChainChanges, NodeMoves
  <2>2. \A c \in AbleToAnswer(able) \cap (IF cursor <= best' THEN Clients ELSE {}) :
            c \in AbleToAnswer(able)'
    BY <2>1 DEF AbleToAnswer
  <2>. QED
    BY <1>6, <2>1, <2>2, SteadyOK DEF ChainChanges
<1>7. CASE CrashOfAll
  BY <1>2, <1>7 DEF CrashOfAll
<1>8. CASE UNCHANGED <<vars, clientVars>>
  <2>1. UNCHANGED <<able, round, cursor, best, step>>
    BY <1>8 DEF vars, clientVars
  <2>. QED
    BY <2>1 DEF RoundInv, AbleToAnswer, AskedBefore
<1>. QED
  BY <1>3, <1>4, <1>5, <1>6, <1>7, <1>8 DEF ClientsNext

\* A round without a try left has asked everybody (_tryAllClients): a process that
\* could answer all the while would have answered.
LEMMA AllAsked ==
    ASSUME round \in Rounds \cup {NoRound}, RoundInv
    PROVE  SteadyClientAnswers
<1> SUFFICES ASSUME round # NoRound, round.left = 0 PROVE round.steady = {}
  BY DEF SteadyClientAnswers
<1>1. /\ N \in Nat \ {0} /\ round.first \in 1..N /\ round.at \in 1..N
      /\ round.steady \subseteq 1..N
  BY ClientsAssumption DEF Rounds, Clients
<1>2. round.first = round.at
  BY <1>1 DEF RoundInv
<1>3. AskedBefore(round) = round.first..N \cup 1..(round.first - 1)
  BY <1>1, <1>2 DEF AskedBefore
<1>4. \A c \in 1..N : c \in AskedBefore(round)
  BY <1>1, <1>3
<1>. QED
  BY <1>1, <1>4 DEF RoundInv

\* A read fails only when no process could have answered it all the while, for any
\* number of processes and whatever other requests do to the shared index.
THEOREM SteadyIsAnswered == ClientsSpec => []SteadyClientAnswers
<1> DEFINE ClientsOK == able \subseteq Clients /\ round \in Rounds \cup {NoRound}
<1>1. ClientsInit => ClientsOK /\ RoundInv
  BY DEF ClientsInit, RoundInv
<1>2. TypeOK /\ MinedInv /\ ClientsOK /\ RoundInv /\ [ClientsNext]_<<vars, clientVars>>
      => (ClientsOK /\ RoundInv)'
  BY RoundStep DEF MinedInv
<1>3. ClientsOK /\ RoundInv => SteadyClientAnswers
  BY AllAsked
<1>4. ClientsSpec => [](TypeOK /\ MinedInv)
  BY ClientsImplementIndexer, Invariant, PTL
<1>. QED
  BY <1>1, <1>2, <1>3, <1>4, PTL DEF ClientsSpec
=============================================================================
