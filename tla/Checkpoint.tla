---------------------------- MODULE Checkpoint -----------------------------
(***************************************************************************)
(* What a service that follows the chain through last_block_number may     *)
(* promise about the durable effect of each block, seen from the database  *)
(* alone: restarts, errors and tips do not appear.                         *)
(***************************************************************************)
EXTENDS Integers

CONSTANTS
    MaxHeight,
    Skipped         \* blocks that have no effect

Heights == 1..MaxHeight

VARIABLES
    stored,         \* last_block_number
    applied         \* applied[h]: how often block h took effect

Init == stored = 0 /\ applied = [h \in Heights |-> 0]

\* Block h takes effect.
Apply(h) ==
    /\ h \in Heights
    /\ applied' = [applied EXCEPT ![h] = @ + 1]
    /\ UNCHANGED stored

\* At least once: the work is on the block after the checkpoint, or on the one at
\* the checkpoint again, and the checkpoint follows the effect.
Work == Apply(stored) \/ Apply(stored + 1)

Pass ==
    /\ stored + 1 \in Heights
    /\ stored + 1 \in Skipped \/ applied[stored + 1] > 0
    /\ stored' = stored + 1
    /\ UNCHANGED applied

AtLeastOnce == Init /\ [][Work \/ Pass]_<<stored, applied>>

\* At most once: the checkpoint goes first, and the effect is that of the block at
\* the checkpoint.
Claim ==
    /\ \E h \in Heights : h > stored /\ stored' = h
    /\ UNCHANGED applied

Count == Apply(stored) /\ applied[stored] = 0

AtMostOnce == Init /\ [][Claim \/ Count]_<<stored, applied>>
=============================================================================
