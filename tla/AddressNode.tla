---------------------------- MODULE AddressNode -----------------------------
(***************************************************************************)
(* What the node knows of one address: the transactions in its chain and   *)
(* in its mempool.  AddressLists and AddressSummary add what the silubiumd *)
(* service makes of them.                                                  *)
(*                                                                         *)
(* A transaction pays one output to the address and spends at most one of  *)
(* its outputs; the output has the number of its transaction.              *)
(***************************************************************************)
EXTENDS Integers, Sequences, SequencesExt

CONSTANTS
    MaxTx,          \* bound: the transactions of the address
    Spends,         \* Spends[t]: the output that t spends, 0 for none
    MaxBlock        \* bound: blocks made

Txs == 1..MaxTx
Blocks == 1..MaxBlock

ASSUME NodeAssumption ==
    /\ MaxTx \in Nat \ {0} /\ MaxBlock \in Nat \ {0}
    /\ Spends \in [Txs -> 0..MaxTx] /\ \A t \in Txs : Spends[t] < t

VARIABLES
    chain,          \* the transactions of every block, oldest first
    pool,           \* the mempool
    made,           \* blocks made; the best block is the last one
    moved           \* history: moved[b]: transactions that block b brought into or
                    \* out of the chain

nodeVars == <<chain, pool, made, moved>>

NodeTypeOK ==
    /\ pool \subseteq Txs /\ chain \in Seq(SUBSET Txs)
    /\ made \in 0..MaxBlock /\ moved \in [Blocks -> SUBSET Txs]

NodeInit ==
    /\ chain = <<>> /\ pool = {} /\ made = 0
    /\ moved = [b \in Blocks |-> {}]

-----------------------------------------------------------------------------
\* The transactions of some blocks.
In(blocks) == UNION ToSet(blocks)

Confirmed == In(chain)
Known == Confirmed \cup pool

\* The outputs a transaction needs are there already.
Ready(t, there) == Spends[t] = 0 \/ Spends[t] \in there

NewTransaction(t) ==
    /\ t \notin Known /\ Ready(t, Known)
    /\ pool' = pool \cup {t}
    /\ UNCHANGED <<chain, made, moved>>

\* A block with the transactions txs goes on top of prefix.
Extend(prefix, txs, changed) ==
    /\ made < MaxBlock
    /\ \A t \in txs : Ready(t, In(prefix) \cup txs)
    /\ made' = made + 1
    /\ chain' = Append(prefix, txs)
    /\ moved' = [moved EXCEPT ![made + 1] = changed]

NewBlock(txs) ==
    /\ txs \cap Confirmed = {}
    /\ Extend(chain, txs, txs)
    /\ pool' = pool \ txs

\* The last block is replaced; what it held and the new one does not is pending again.
Reorganise(txs) ==
    /\ chain # <<>>
    /\ LET dropped == Last(chain)
       IN  /\ txs \cap In(Front(chain)) = {}
           /\ Extend(Front(chain), txs, dropped \cup txs)
           /\ pool' = (pool \cup dropped) \ txs

NodeMoves ==
    \/ \E t \in Txs : NewTransaction(t)
    \/ \E txs \in SUBSET Txs : NewBlock(txs) \/ Reorganise(txs)

\* Transactions that went into or out of the chain between two best blocks.
MovedBetween(b, c) ==
    UNION {moved[d] : d \in {d \in Blocks : (b < d /\ d <= c) \/ (c < d /\ d <= b)}}

Larger(x, y) == IF x > y THEN x ELSE y
=============================================================================
