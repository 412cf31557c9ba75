---------------------------- MODULE ClientRounds ----------------------------
(***************************************************************************)
(* MinedIndexer where the silubiumd service is connected to N processes.   *)
(* A block is read by three requests, each of them a round of the clients  *)
(* (_tryAllClients): its hash by height, the block by hash, and its        *)
(* coinbase or coinstake.  A round starts at the client that the shared    *)
(* nodesIndex points to, wherever the other requests of the service have   *)
(* moved it, and goes on from client to client on an index of its own,     *)
(* with tryAllInterval between two tries, until one of them answers or     *)
(* each had its try.                                                       *)
(***************************************************************************)
EXTENDS MinedIndexer

CONSTANT N              \* nodes.length

Clients == 1..N

ASSUME ClientsAssumption == N \in Nat \ {0}

VARIABLES
    able,               \* clients whose process answers and has the best block
    round               \* the round under way for the indexer

clientVars == <<able, round>>

NoRound == [what |-> "nothing"]

\* first: where it started; at: whom it asks; left: the tries it has left, that one
\* included; steady (history): clients able to answer it all the time so far.
Rounds == [what : {"hash", "block", "transaction"}, first : Clients, at : Clients,
           left : 0..N, steady : SUBSET Clients]

ClientsTypeOK ==
    /\ TypeOK
    /\ able \subseteq Clients
    /\ round \in Rounds \cup {NoRound}

ClientsInit == Init /\ able \in SUBSET Clients /\ round = NoRound

-----------------------------------------------------------------------------
(* _tryAllClients *)

\* Those of the clients that can answer a request about the block being read.
AbleToAnswer(clients) == IF cursor <= best THEN clients ELSE {}

RoundOf(what, i) ==
    [what |-> what, first |-> i, at |-> i, left |-> N, steady |-> AbleToAnswer(able)]

Begin(what) == \E i \in Clients : round' = RoundOf(what, i)

\* (nodesIndex + 1) % nodes.length
After(i) == IF i = N THEN 1 ELSE i + 1

\* Wrong: the next try goes where the shared index points by then (getRawBlock does).
TryFails_Shared ==
    /\ round # NoRound /\ round.left > 0
    /\ round.at \notin AbleToAnswer(able)
    /\ \E i \in Clients : round' = [round EXCEPT !.at = i, !.left = @ - 1]
    /\ UNCHANGED <<vars, able>>

\* The client does not answer, or has no such block.
TryFails ==
    /\ round # NoRound /\ round.left > 0
    /\ round.at \notin AbleToAnswer(able)
    /\ round' = [round EXCEPT !.at = After(@), !.left = @ - 1]
    /\ UNCHANGED <<vars, able>>

\* The error of the last client ends the round and the update.
RoundFails ==
    /\ round # NoRound /\ round.left = 0
    /\ ReadFails
    /\ round' = NoRound
    /\ UNCHANGED able

\* A client may have what is asked for and not be able: one that is behind, or one
\* that fails a moment later.
Asking(what) == round # NoRound /\ round.what = what /\ round.left > 0

-----------------------------------------------------------------------------
(* getJsonBlock and getDetailedTransaction: what another service asked for since   *)
(* the last tip may be in their caches, the same as the processes would answer.    *)

\* _maybeGetBlockHash.
AskHash ==
    /\ step = "block" /\ round = NoRound
    /\ Begin("hash")
    /\ UNCHANGED <<vars, able>>

HashAnswered ==
    /\ Asking("hash") /\ cursor <= best
    /\ Begin("block")
    /\ UNCHANGED <<vars, able>>

BlockCached ==
    /\ Asking("hash") /\ cursor <= best
    /\ GetBlock
    /\ round' = NoRound /\ UNCHANGED able

BlockAnswered ==
    /\ Asking("block")
    /\ GetBlock
    /\ round' = NoRound /\ UNCHANGED able

AskTransaction ==
    /\ step = "transaction" /\ round = NoRound
    /\ Begin("transaction")
    /\ UNCHANGED <<vars, able>>

TransactionCached ==
    /\ step = "transaction" /\ round = NoRound
    /\ GetTransaction
    /\ UNCHANGED clientVars

TransactionAnswered ==
    /\ Asking("transaction")
    /\ GetTransaction
    /\ round' = NoRound /\ UNCHANGED able

-----------------------------------------------------------------------------
(* The processes, and everything else. *)

StillSteady(clients) ==
    IF round = NoRound THEN round
    ELSE [round EXCEPT !.steady = @ \cap clients]

\* A process stops answering, falls behind, or comes back.
ClientsChange ==
    /\ able' \in SUBSET Clients \ {able}
    /\ round' = StillSteady(able')
    /\ UNCHANGED vars

\* A block that is gone from the chain is not there for those who ask by its height.
ChainChanges ==
    /\ NodeMoves
    /\ round' = StillSteady(IF cursor <= best' THEN Clients ELSE {})
    /\ UNCHANGED able

Otherwise ==
    /\ \/ Start \/ StartFails \/ GetLastBlock \/ GetInfo \/ Credit \/ Save \/ WriteFails
       \/ \E height \in Heights : Tip(height)
    /\ UNCHANGED clientVars

CrashOfAll == Crash /\ round' = NoRound /\ UNCHANGED able

-----------------------------------------------------------------------------
Reading ==
    \/ AskHash \/ HashAnswered \/ BlockCached \/ BlockAnswered
    \/ AskTransaction \/ TransactionCached \/ TransactionAnswered
    \/ TryFails \/ RoundFails

ClientsNext == Reading \/ Otherwise \/ ClientsChange \/ ChainChanges \/ CrashOfAll

ClientsSpec == ClientsInit /\ [][ClientsNext]_<<vars, clientVars>>

\* Every try is answered or fails, every call to the database too.
ClientsFairSpec ==
    ClientsSpec /\ WF_<<vars, clientVars>>(Reading \/ (Otherwise /\ (Credit \/ Save \/ WriteFails)))

-----------------------------------------------------------------------------
(* Properties. *)

\* A request fails only when no process could have answered it all the while: one
\* that is up and has the block is asked in every round, wherever the round starts
\* and whatever other requests do to the shared index (_tryAllClients).
SteadyClientAnswers == round # NoRound /\ round.left = 0 => round.steady = {}

\* The clients a round has asked: from the first up to the one at hand, around the end.
AskedBefore(r) ==
    IF r.left = N THEN {}
    ELSE IF r.first < r.at THEN r.first..(r.at - 1)
    ELSE r.first..N \cup 1..(r.at - 1)

\* Who was asked was not able then, and the tries left are as many as were not asked:
\* with LoopInv, the inductive invariant of SteadyClientAnswers.
RoundInv ==
    round # NoRound =>
        /\ step = IF round.what = "transaction" THEN "transaction" ELSE "block"
        /\ round.steady \cap AskedBefore(round) = {}
        /\ round.steady \subseteq AbleToAnswer(able)
        /\ IF round.first < round.at THEN round.left = N - (round.at - round.first)
           ELSE IF round.at < round.first THEN round.left = round.first - round.at
           ELSE round.left \in {0, N}
=============================================================================
