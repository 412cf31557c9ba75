----------------------------- MODULE BlockPages -----------------------------
(* Two caches of the block controller (insight-api/lib/blocks.js), seen from *)
(* one block that clients ask for by its hash: the page getBlockByHash makes *)
(* of it and the summary _getBlockSummary makes for the lists.  Both are     *)
(* kept once the block has blockCacheConfirmations, and never made again     *)
(* while they are kept; the page counts the confirmations of the header, the *)
(* summary those of the service's height, which may be newer than its block. *)
(* The chain of silubiumd is reduced to what the block sees of it.           *)
EXTENDS Integers

CONSTANTS Callers,                  \* who may have a request under way
          BlockHeight,              \* the height of the block
          BlockCacheConfirmations,  \* 6 in the code
          Followers,                \* the blocks that may follow it
          MaxHeight                 \* bound: the height the node's chain reaches

VARIABLES nodeHeight,   \* of the chain of silubiumd
          onChain,      \* whether the block is on that chain
          follower,     \* which block follows it there; 0 for none
          highest,      \* ghost: the greatest height the chain had
          deepest,      \* ghost: how far below that height it was ever cut
          height,       \* of the silubiumd service
          page,         \* blockCache: the page of the block, or Nothing
          summary,      \* blockSummaryCache: its summary, or Nothing
          run           \* of each caller: the request under way

nodeVars == <<nodeHeight, onChain, follower, highest, deepest>>
pageVars == <<nodeHeight, onChain, follower, highest, deepest, height, page, summary, run>>

Nothing == [kept |-> FALSE]
Idle == [step |-> "idle"]

\* What the node says of the block: -1 confirmations when it is not on the chain.
Confirmations == IF onChain THEN nodeHeight - BlockHeight + 1 ELSE -1
Header == [confirmations |-> Confirmations, next |-> follower]

PagesInit ==
    /\ nodeHeight = BlockHeight
    /\ onChain = TRUE
    /\ follower = 0
    /\ highest = BlockHeight
    /\ deepest = 0
    /\ height = BlockHeight
    /\ page = Nothing
    /\ summary = Nothing
    /\ run = [c \in Callers |-> Idle]

-----------------------------------------------------------------------------
(* silubiumd *)

\* A request whose block was read before the chain left or came back to it.
Crossed(r) == IF r.step = "summary transaction" THEN [r EXCEPT !.crossed = TRUE] ELSE r

\* The chain loses its last `dropped` blocks and gets `added` others: it may become
\* longer, shorter or stay as high.  One that reaches the block takes it off the chain,
\* or may bring it back.
NodeAdvances(dropped, added) ==
    LET kept == nodeHeight - dropped IN
    /\ dropped <= nodeHeight
    /\ dropped + added > 0
    /\ kept + added <= MaxHeight
    /\ nodeHeight' = kept + added
    /\ highest' = IF kept + added > highest THEN kept + added ELSE highest
    /\ deepest' = IF highest - kept > deepest THEN highest - kept ELSE deepest
    /\ IF kept >= BlockHeight THEN UNCHANGED onChain
       ELSE onChain' \in {FALSE, ~onChain /\ kept + added >= BlockHeight}
    /\ IF kept > BlockHeight THEN UNCHANGED follower
       ELSE follower' \in IF onChain' /\ kept + added > BlockHeight THEN Followers ELSE {0}
    /\ run' = IF onChain' = onChain THEN run ELSE [c \in Callers |-> Crossed(run[c])]
    /\ UNCHANGED <<height, page, summary>>

\* The service learns the height of a block the node announced; answers may arrive out
\* of order, and after the chain has become shorter.
HeightArrives(h) ==
    /\ h \in 0 .. highest
    /\ height' = h
    /\ UNCHANGED <<nodeVars, page, summary, run>>

-----------------------------------------------------------------------------
(* getBlockByHash: a page that is kept is answered with the confirmations of *)
(* the service's height, any other is made of four requests in a row.        *)

AskPage(c) ==
    /\ run[c] = Idle
    /\ IF page.kept
       THEN /\ page' = [page EXCEPT !.confirmations = height - BlockHeight + 1]
            /\ UNCHANGED run
       ELSE /\ run' = [run EXCEPT ![c] = [step |-> "page block"]]
            /\ UNCHANGED page
    /\ UNCHANGED <<nodeVars, height, summary>>

BlockAnswered(c) ==
    /\ run[c].step = "page block"
    /\ run' = [run EXCEPT ![c] = [step |-> "page header"]]
    /\ UNCHANGED <<nodeVars, height, page, summary>>

HeaderAnswered(c) ==
    /\ run[c].step = "page header"
    /\ run' = [run EXCEPT ![c] = [step |-> "page subsidy", info |-> Header]]
    /\ UNCHANGED <<nodeVars, height, page, summary>>

SubsidyAnswered(c) ==
    /\ run[c].step = "page subsidy"
    /\ run' = [run EXCEPT ![c].step = "page transaction"]
    /\ UNCHANGED <<nodeVars, height, page, summary>>

KeepsPageSooner(info) == info.confirmations >= BlockCacheConfirmations - 1     \* Wrong: off by one.
KeepsPage(info) == info.confirmations >= BlockCacheConfirmations

\* transformBlock, and the page is kept when it has enough confirmations.
PageDone(c) ==
    LET info == run[c].info IN
    /\ run[c].step = "page transaction"
    /\ run' = [run EXCEPT ![c] = Idle]
    /\ page' = IF KeepsPage(info)
               THEN [kept |-> TRUE, confirmations |-> info.confirmations,
                     nextblockhash |-> info.next, isMainChain |-> info.confirmations # -1]
               ELSE page
    /\ UNCHANGED <<nodeVars, height, summary>>

-----------------------------------------------------------------------------
(* _getBlockSummary: the block, then its first transaction. *)

AskSummary(c) ==
    /\ run[c] = Idle
    /\ IF summary.kept THEN UNCHANGED run
       ELSE run' = [run EXCEPT ![c] = [step |-> "summary block"]]
    /\ UNCHANGED <<nodeVars, height, page, summary>>

SummaryBlockAnswered(c) ==
    /\ run[c].step = "summary block"
    /\ run' = [run EXCEPT ![c] = [step |-> "summary transaction",
                                  confirmations |-> Confirmations, crossed |-> FALSE]]
    /\ UNCHANGED <<nodeVars, height, page, summary>>

KeepsSummary == height - BlockHeight + 1 >= BlockCacheConfirmations

SummaryDone(c) ==
    LET r == run[c] IN
    /\ r.step = "summary transaction"
    /\ run' = [run EXCEPT ![c] = Idle]
    /\ summary' = IF KeepsSummary
                  THEN [kept |-> TRUE, isMainChain |-> r.confirmations # -1, crossed |-> r.crossed]
                  ELSE summary
    /\ UNCHANGED <<nodeVars, height, page>>

\* A request fails, or its client has gone: nothing is kept.
RequestFails(c) ==
    /\ run[c] # Idle
    /\ run' = [run EXCEPT ![c] = Idle]
    /\ UNCHANGED <<nodeVars, height, page, summary>>

\* The least recently used entries make room for others.
Evicted ==
    \/ /\ page.kept
       /\ page' = Nothing
       /\ UNCHANGED <<nodeVars, height, summary, run>>
    \/ /\ summary.kept
       /\ summary' = Nothing
       /\ UNCHANGED <<nodeVars, height, page, run>>

-----------------------------------------------------------------------------
\* While no reorganisation cuts the chain as far below its greatest height as a page
\* needs confirmations to be kept, a kept page stays true: its block is on the chain,
\* and it claims no confirmations the node does not see, but those it saw before the
\* chain became shorter.  The block it names as the next has one confirmation less, so
\* it is the next while reorganisations are one smaller.
PagesAreTrue ==
    page.kept =>
        /\ deepest < BlockCacheConfirmations =>
              /\ onChain /\ page.isMainChain
              /\ page.confirmations <= Confirmations + (highest - nodeHeight)
        /\ deepest < BlockCacheConfirmations - 1 => page.nextblockhash = follower

\* The same of a kept summary and of whether it calls its block one of the main
\* chain, unless the chain crossed the request that made it: the confirmations
\* that decide are counted at its end, the flag is of its beginning.
SummariesAreTrue ==
    summary.kept /\ ~summary.crossed /\ deepest < BlockCacheConfirmations =>
        summary.isMainChain = onChain
=============================================================================
