---------------------------- MODULE MCTipUpdate ----------------------------
(* TLC instances of TipUpdate. *)
EXTENDS TipUpdate

\* Tip 3 replaces tip 2 at the same height: a reorganisation.
MCHeightOf == [t \in Tips |-> IF t = 1 THEN 1 ELSE t - 1]
=============================================================================
