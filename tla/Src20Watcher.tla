---------------------------- MODULE Src20Watcher ----------------------------
(***************************************************************************)
(* Src20Watcher (insight-api/lib): follows the token contracts of the      *)
(* chain.  For every block it records the contracts created, their supply, *)
(* the transfers their calls logged, and the balances of the addresses of  *)
(* these transfers.  Supply and balances are asked of the node as they are *)
(* NOW, while the blocks are taken one after the other; every write        *)
(* replaces what the row held, and the checkpoint is the last write.       *)
(*                                                                         *)
(* A transaction is what the node says of it: the token contracts that its *)
(* outputs create, and its receipt, an item for every output that creates  *)
(* or calls a contract, with the transfers logged there.                   *)
(* Blocks are not replaced here (see BalanceIndexer for what that does).   *)
(***************************************************************************)
EXTENDS IndexerLoop, Sequences, SequencesExt, FiniteSetsExt, Functions

CONSTANTS
    Contracts, Holders,
    Nobody,         \* the zero address: where tokens are made and burnt
    TxsOf,          \* TxsOf[h]: the transactions of block h
    UpdateFrom,     \* updateFromBlockHeight of the configuration
    None            \* no contract

VARIABLES
    tx,             \* the transaction being processed
    todo,           \* what is left to do for it
    item,           \* what is being done
    held,           \* answers of the node that wait to be written
    contracts,      \* SRC20_CONTRACTS: the contracts known
    supplies,       \* their total_supply
    transfers,      \* SRC20_TRANSFER
    balances,       \* SRC20_BALANCE, 0 for no row
    missed          \* history: contracts whose lookup for the supply failed

workVars == <<tx, todo, item, held>>
rowVars  == <<contracts, supplies, transfers, balances, missed>>
vars == <<loopVars, workVars, rowVars>>

-----------------------------------------------------------------------------
(* What the transactions hold. *)

\* A contract is made by one output, and if it is made, whatever it logs comes then or
\* later.
CreatesOf(h, t) ==
    {[create |-> TxsOf[h][t].creates[i], height |-> h, tx |-> t, at |-> i]
     : i \in DOMAIN TxsOf[h][t].creates}
LogOf(h, t, i) ==
    {[event |-> TxsOf[h][t].receipt[i].log[j], height |-> h, tx |-> t, at |-> i, idx |-> j]
     : j \in DOMAIN TxsOf[h][t].receipt[i].log}
EventsOf(h, t) == UNION {LogOf(h, t, i) : i \in DOMAIN TxsOf[h][t].receipt}

Creates == UNION {UNION {CreatesOf(h, t) : t \in DOMAIN TxsOf[h]} : h \in Heights}
Events  == UNION {UNION {EventsOf(h, t) : t \in DOMAIN TxsOf[h]} : h \in Heights}

Create   == [contract : Contracts, creator : Holders, supply : Nat, born : BOOLEAN]
Transfer == [contract : Contracts, from : Holders \cup {Nobody}, to : Holders \cup {Nobody},
             value : Nat]
Receipt  == [call : BOOLEAN, called : Contracts \cup {Nobody}, log : Seq(Transfer)]
Txs      == [creates : Seq(Create), receipt : Seq(Receipt)]

ASSUME ChainAssumption ==
    /\ UpdateFrom \in 0..MaxHeight
    /\ TxsOf \in [Heights -> Seq(Txs)]
    /\ \A m, n \in Creates : m.create.contract = n.create.contract => m = n
    /\ \A n \in Creates, e \in Events : n.create.contract = e.event.contract =>
          /\ n.create.born
          /\ n.height < e.height \/ (n.height = e.height /\ n.tx <= e.tx)

Given(creates) == MapThenSumSet(LAMBDA n : n.create.supply, creates)
Amount(events) == MapThenSumSet(LAMBDA e : e.event.value, events)
Total(amounts) == FoldFunction(+, 0, amounts)

\* balanceOf(a) and totalSupply() of contract c at height h.
Born(c, h) == {n \in Creates : n.height <= h /\ n.create.contract = c /\ n.create.born}
Logged(c, h) == {e \in Events : e.height <= h /\ e.event.contract = c}
BalanceAt(c, a, h) ==
    IF a = Nobody THEN 0
    ELSE Given({n \in Born(c, h) : n.create.creator = a})
           + Amount({e \in Logged(c, h) : e.event.to = a})
           - Amount({e \in Logged(c, h) : e.event.from = a})

SupplyAt(c, h) ==
    IF Born(c, h) = {} THEN 0 ELSE Total([a \in Holders |-> BalanceAt(c, a, h)])

\* A row of a transfer is found by its transaction, the place of the event in its
\* item, and the contract; the item is not part of it.
KeyOf(e) == [height |-> e.height, tx |-> e.tx, idx |-> e.idx, contract |-> e.event.contract]

-----------------------------------------------------------------------------
(* What is to be done for a transaction. *)

CreatePlace(n) == [kind |-> "create", at |-> n.at, idx |-> 0, contract |-> n.create.contract]
SupplyPlace(i, c) == [kind |-> "supply", at |-> i, idx |-> 0, contract |-> c]
EventPlace(e) == [kind |-> "event", at |-> e.at, idx |-> e.idx, contract |-> e.event.contract]
NoPlace == [kind |-> "none", at |-> 0, idx |-> 0, contract |-> None]

\* The contracts whose supply is looked at for an item: uniq, so each once.
Concerned(receiptItem) ==
    IF receiptItem.log = <<>> THEN {}
    ELSE {receiptItem.called} \cup
         {receiptItem.log[j].contract : j \in DOMAIN receiptItem.log}

Calls(h, t) == {i \in DOMAIN TxsOf[h][t].receipt : TxsOf[h][t].receipt[i].call}

\* processCreate, processCall for the outputs that call a contract, and processReceipt for
\* all the items.
CreateWork(h, t) == {CreatePlace(n) : n \in CreatesOf(h, t)}
SupplyWork(h, t) ==
    UNION {{SupplyPlace(i, c) : c \in Concerned(TxsOf[h][t].receipt[i])} : i \in Calls(h, t)}
EventWork(h, t) == {EventPlace(e) : e \in EventsOf(h, t)}

\* processBlock: without calls only the creates are looked at.
WorkOf(h, t) ==
    CreateWork(h, t) \cup (IF Calls(h, t) = {} THEN {}
                           ELSE SupplyWork(h, t) \cup EventWork(h, t))

\* In this order; processCall takes the contracts of an item in any.
Rank == [create |-> 1, supply |-> 2, event |-> 3]
Before(p, q) ==
    \/ Rank[p.kind] < Rank[q.kind]
    \/ p.kind = q.kind /\ p.at < q.at
    \/ p.kind = q.kind /\ p.at = q.at /\ p.idx < q.idx

-----------------------------------------------------------------------------
Phases == {"down", "load", "info", "up", "failed"}
Reads  == {"block", "transaction", "receipt", "work", "supply", "created", "creator",
           "from", "to"}
Writes == {"balance", "contract", "total", "transfer", "writefrom", "writeto", "save"}
Steps  == {"idle"} \cup Reads \cup Writes

NoAnswers == [supply |-> 0, from |-> 0, to |-> 0]

TypeOK ==
    /\ LoopTypeOK(Phases, Steps)
    /\ tx \in Nat /\ (todo # {} => todo \subseteq WorkOf(cursor, tx))
    /\ item \in todo \cup {NoPlace}
    /\ held \in [supply : Int, from : Int, to : Int]
    /\ contracts \subseteq Contracts
    /\ supplies \in [Contracts -> Int]
    /\ transfers \subseteq Events
    /\ balances \in [Contracts -> [Holders \cup {Nobody} -> Int]]
    /\ missed \subseteq Contracts

Init ==
    /\ LoopInit
    /\ tx = 0 /\ todo = {} /\ item = NoPlace /\ held = NoAnswers
    /\ contracts = {}
    /\ supplies = [c \in Contracts |-> 0]
    /\ transfers = {}
    /\ balances = [c \in Contracts |-> [a \in Holders \cup {Nobody} |-> 0]]
    /\ missed = {}

NodeMoves ==
    /\ best < MaxHeight
    /\ best' = best + 1 /\ high' = best + 1
    /\ UNCHANGED <<stored, phase, tipVars, runVars, trouble, workVars, rowVars>>

-----------------------------------------------------------------------------
(* start *)

\* setLastBlockType(COIN_TYPE, updateFromBlockHeight).
Start ==
    /\ phase = "down"
    /\ phase' = "load"
    /\ stored' = Larger(stored, UpdateFrom)
    /\ UNCHANGED <<nodeVars, tipVars, runVars, trouble, workVars, rowVars>>

\* The database is not there, or a start step fails: the watcher stays away until the
\* process is started again.
StartFails ==
    /\ phase \in {"down", "load", "info"}
    /\ phase' = "failed"
    /\ UNCHANGED <<nodeVars, stored, tipVars, runVars, trouble, workVars, rowVars>>

GetLastBlock ==
    /\ phase = "load"
    /\ phase' = "info"
    /\ LoadChecked
    /\ UNCHANGED <<nodeVars, stored, tipVars, target, cursor, step, trouble, workVars,
                   rowVars>>

GetInfo ==
    \E blocks \in 1..high :
        /\ phase = "info"
        /\ phase' = "up"
        /\ BeginUpdate(lastCheckedBlock, blocks)
        /\ UNCHANGED <<nodeVars, stored, lastCheckedBlock, trouble, workVars, rowVars>>

Tip(height) == TipEvent(height, FALSE) /\ UNCHANGED <<workVars, rowVars>>

-----------------------------------------------------------------------------
(* processBlock *)

Stays == UNCHANGED <<nodeVars, stored, phase, tipVars, lastCheckedBlock, target, cursor,
                     trouble>>

\* getBlockOverview.
GetBlock ==
    /\ step = "block" /\ cursor <= best
    /\ tx' = 1
    /\ step' = IF TxsOf[cursor] = <<>> THEN "save" ELSE "transaction"
    /\ Stays /\ UNCHANGED <<todo, item, held, rowVars>>

\* getJsonRawTransaction.
GetTransaction ==
    /\ step = "transaction"
    /\ step' = "receipt"
    /\ Stays /\ UNCHANGED <<workVars, rowVars>>

\* With rest left to do: the next of it, the next transaction, or the checkpoint.
GoOn(rest) ==
    /\ todo' = rest
    /\ item' = NoPlace /\ held' = NoAnswers
    /\ IF rest # {} THEN step' = "work" /\ tx' = tx
       ELSE /\ tx' = tx + 1
            /\ step' = IF tx < Len(TxsOf[cursor]) THEN "transaction" ELSE "save"

\* getTransactionReceipt.
GetReceipt ==
    /\ step = "receipt"
    /\ GoOn(WorkOf(cursor, tx))
    /\ Stays /\ UNCHANGED rowVars

Known(c) == c \in contracts
NextIs(p) == \A q \in todo : ~Before(q, p)
Done(p) == GoOn(todo \ {p})

Created(p) == TxsOf[cursor][tx].creates[p.at]
Event(p) == TxsOf[cursor][tx].receipt[p.at].log[p.idx]
TransferOf(p) ==
    [event |-> Event(p), height |-> cursor, tx |-> tx, at |-> p.at, idx |-> p.idx]

Begin(p, next) == step' = next /\ item' = p /\ UNCHANGED <<tx, todo, held>>

\* The next is begun: for a contract that is not known there is nothing to do.
Work(p) ==
    /\ step = "work" /\ NextIs(p)
    /\ \/ p.kind = "create" /\ Begin(p, IF Created(p).born THEN "created" ELSE "contract")
       \/ p.kind = "supply" /\ Known(p.contract) /\ Begin(p, "supply")
       \/ p.kind = "event" /\ Known(p.contract) /\ Begin(p, "transfer")
       \/ p.kind # "create" /\ ~Known(p.contract) /\ Done(p)
    /\ Stays /\ UNCHANGED rowVars

\* processCall drops the error of fetchContract and goes on as if the contract were
\* not known.
SupplyLookupFails(p) ==
    /\ step = "work" /\ NextIs(p) /\ p.kind = "supply"
    /\ Done(p)
    /\ missed' = missed \cup {p.contract}
    /\ Stays /\ UNCHANGED <<contracts, supplies, transfers, balances>>

-----------------------------------------------------------------------------
(* processCreate *)

Answered(answers, next) ==
    /\ held' = answers
    /\ step' = next
    /\ Stays /\ UNCHANGED <<tx, todo, item, rowVars>>

\* totalSupply(), decimals(), name(), version() and symbol() of the new contract.
CreatedAnswered ==
    step = "created"
    /\ Answered([held EXCEPT !.supply = SupplyAt(item.contract, best)], "creator")

CreatorAnswered ==
    step = "creator"
    /\ Answered([held EXCEPT !.to = BalanceAt(item.contract, Created(item).creator, best)],
                "balance")

\* Wrong: an address without tokens keeps its row.
CheckBalance_KeepsRow(c, a, amount) ==
    balances' = IF amount = 0 THEN balances
                ELSE [balances EXCEPT ![c] = [@ EXCEPT ![a] = amount]]

\* checkBalance: the row of the address is replaced, or removed when there is nothing.
CheckBalance(c, a, amount) ==
    balances' = [balances EXCEPT ![c] = [@ EXCEPT ![a] = amount]]

CreatorWritten ==
    /\ CheckBalance(item.contract, Created(item).creator, held.to)
    /\ UNCHANGED <<contracts, supplies, transfers, missed>>

\* createOrUpdateTx of the contract; one that was not born has no supply.
ContractWritten ==
    /\ contracts' = contracts \cup {item.contract}
    /\ supplies' = [supplies EXCEPT ![item.contract] = held.supply]
    /\ missed' = missed \ {item.contract}
    /\ UNCHANGED <<transfers, balances>>

-----------------------------------------------------------------------------
(* processCall and processReceipt *)

SupplyAnswered ==
    /\ step = "supply"
    /\ LET supply == SupplyAt(item.contract, best)
       IN  IF supply = supplies[item.contract]
           THEN /\ Done(item)
                /\ missed' = missed \ {item.contract}
                /\ Stays /\ UNCHANGED <<contracts, supplies, transfers, balances>>
           ELSE Answered([held EXCEPT !.supply = supply], "total")

\* updateTotalSupply.
TotalWritten ==
    /\ supplies' = [supplies EXCEPT ![item.contract] = held.supply]
    /\ missed' = missed \ {item.contract}
    /\ UNCHANGED <<contracts, transfers, balances>>

\* createOrUpdateTx of the transfer.
TransferWritten ==
    /\ transfers' = {e \in transfers : KeyOf(e) # KeyOf(TransferOf(item))}
                    \cup {TransferOf(item)}
    /\ UNCHANGED <<contracts, supplies, balances, missed>>

\* updateBalances: both balances are asked for, then both are written.
FromAnswered ==
    step = "from"
    /\ Answered([held EXCEPT !.from = BalanceAt(item.contract, Event(item).from, best)], "to")

ToAnswered ==
    step = "to"
    /\ Answered([held EXCEPT !.to = BalanceAt(item.contract, Event(item).to, best)],
                "writefrom")

FromWritten ==
    /\ CheckBalance(item.contract, Event(item).from, held.from)
    /\ UNCHANGED <<contracts, supplies, transfers, missed>>

ToWritten ==
    /\ CheckBalance(item.contract, Event(item).to, held.to)
    /\ UNCHANGED <<contracts, supplies, transfers, missed>>

-----------------------------------------------------------------------------
\* What the write of a step does to the rows.
Written ==
    CASE step = "balance"   -> CreatorWritten
      [] step = "contract"  -> ContractWritten
      [] step = "total"     -> TotalWritten
      [] step = "transfer"  -> TransferWritten
      [] step = "writefrom" -> FromWritten
      [] step = "writeto"   -> ToWritten
      [] OTHER              -> UNCHANGED rowVars

AfterWrite == [balance |-> "contract", transfer |-> "from", writefrom |-> "writeto"]

\* A write is acknowledged.
Write ==
    /\ step \in Writes \ {"save"}
    /\ Written
    /\ IF step \in DOMAIN AfterWrite
       THEN step' = AfterWrite[step] /\ UNCHANGED workVars
       ELSE Done(item)
    /\ Stays

\* updateOrAddLastBlock, then the next block of _processLastBlocks.
Save ==
    /\ step = "save"
    /\ stored' = cursor
    /\ lastCheckedBlock' = cursor
    /\ Proceed(cursor, target, lastTipHeight)
    /\ UNCHANGED <<nodeVars, phase, tipVars, trouble, workVars, rowVars>>

\* The write under way when something fails may have taken effect.
WriteUnderWay ==
    \/ Written /\ stored' = IF step = "save" THEN cursor ELSE stored
    \/ UNCHANGED <<rowVars, stored>>

NoWork == tx' = 0 /\ todo' = {} /\ item' = NoPlace /\ held' = NoAnswers

\* Wrong: after an error the loop goes on with the next block.
Fails_Skips ==
    /\ step \notin {"idle", "transaction"}
    /\ WriteUnderWay
    /\ NoWork
    /\ lastCheckedBlock' = cursor
    /\ Proceed(cursor, target, lastTipHeight)
    /\ UNCHANGED <<nodeVars, phase, tipVars, trouble>>

\* A request or a write is answered with an error, or there is no receipt.
Fails ==
    /\ step \notin {"idle", "transaction"}
    /\ WriteUnderWay
    /\ NoWork
    /\ LoopFails
    /\ UNCHANGED <<nodeVars, phase, lastCheckedBlock, trouble>>

\* An error of getJsonRawTransaction is not looked at: reading the time of the missing
\* transaction throws, which ends the process.
TransactionFails ==
    /\ step = "transaction"
    /\ NoWork
    /\ ProcessLost
    /\ UNCHANGED <<nodeVars, stored, trouble, rowVars>>

\* The process ends; the handlers of the look-ups for push messages do so too when one
\* fails, whatever the watcher is at by then.
Crash ==
    /\ phase # "down"
    /\ WriteUnderWay
    /\ NoWork
    /\ ProcessLost
    /\ UNCHANGED <<nodeVars, trouble>>

Next ==
    \/ NodeMoves \/ Start \/ StartFails \/ GetLastBlock \/ GetInfo
    \/ \E height \in Heights : Tip(height)
    \/ GetBlock \/ GetTransaction \/ GetReceipt
    \/ \E p \in todo : Work(p) \/ SupplyLookupFails(p)
    \/ CreatedAnswered \/ CreatorAnswered \/ SupplyAnswered
    \/ FromAnswered \/ ToAnswered \/ Write \/ Save
    \/ Fails \/ TransactionFails \/ Crash

Spec == Init /\ [][Next]_vars

-----------------------------------------------------------------------------
(* Properties. *)

\* The contracts that come after the block the configuration has the watcher begin
\* with; it never knows of earlier ones.
Ours == {n.create.contract : n \in {m \in Creates : m.height > UpdateFrom}}

\* processBlock leaves a transaction without calls alone.
LeftAlone(e) == Calls(e.height, e.tx) = {}

\* The events the checkpoint has passed are in the collection, through errors, crashes
\* and repeated blocks; of events with the same key only one is: processReceipt numbers
\* the events of every item from 0, so that transfers of one transaction can share it.
TransfersKept ==
    \A e \in Events :
        e.height <= stored /\ e.event.contract \in Ours /\ ~LeftAlone(e)
            => \E f \in transfers : KeyOf(f) = KeyOf(e)

\* Block h makes contract c.
CreatedIn(c, h) == {n \in Creates : n.create.contract = c /\ n.height = h}

\* The balance of an address no transfer of which waits for the checkpoint, or was left
\* alone, is that of the node now, although it was asked for at another time
\* (updateBalances).  For the creator, what the block of the contract logs is no matter.
BalancesAreCurrent ==
    \A c \in contracts, a \in Holders :
        LET Unseen(e) == \/ e.height > stored
                         \/ /\ LeftAlone(e)
                            /\ \A n \in CreatedIn(c, e.height) : n.create.creator # a
            unseen == \E e \in Logged(c, best) : a \in {e.event.from, e.event.to} /\ Unseen(e)
        IN  ~unseen => balances[c][a] = BalanceAt(c, a, best)

\* The supply in the row of a contract is that of the node, unless a transfer of it
\* waits for the checkpoint or was logged by an output that is no call, once the block
\* of the contract is over; or a dropped error of the database hid the contract
\* (processCall).
SuppliesAreCurrent ==
    \A c \in contracts \ missed :
        LET unseen == \E e \in Logged(c, best) :
                          \/ e.height > stored
                          \/ e.at \notin Calls(e.height, e.tx) /\ CreatedIn(c, e.height) = {}
        IN  ~unseen => supplies[c] = SupplyAt(c, best)

\* Both: what the watcher keeps of tokens is what the node says of them now.
RowsAreCurrent == BalancesAreCurrent /\ SuppliesAreCurrent
=============================================================================
