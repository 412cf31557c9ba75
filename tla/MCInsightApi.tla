---------------------------- MODULE MCInsightApi ----------------------------
(* A client with the normal limit and one of the blacklist. *)
EXTENDS InsightApi

CONSTANTS c1, c2

MCTypeOf == [c \in {c1, c2} |-> IF c = c1 THEN "normal" ELSE "blacklist"]
MCLimit == [t \in Types |-> CASE t = "normal" -> 1 [] t = "blacklist" -> 0 [] OTHER -> -1]
MCInterval == [t \in Types |-> IF t = "normal" THEN 2 ELSE 1]
MCBanInterval == [t \in Types |-> IF t = "normal" THEN 2 ELSE 1]
=============================================================================
