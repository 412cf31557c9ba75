# Verification of the Silubium API

TLA+ specifications of the Silubium API (`src/`), the runs that check them on small
instances with TLC, and proofs of the central properties for all instances with TLAPS.
Paths below are relative to the repository; `silubiumd.js` is
`silubiumcore-node/lib/services/silubiumd.js`, and the names of services are those of
`insight-api/services/` and `insight-api/lib/`.

    tlc -config Tip.cfg MCTipUpdate          # one of the runs listed below
    tlapm MinedIndexerProofs.tla             # the proofs of one component

`PROJECT.json` lists the components, the runs with the properties they check, the source
lines each definition stands for, the hazards and the theorems.

## 1. The system

One Node.js process holds a node (`silubiumcore-node/lib/node.js`) with three services,
started in the order of their dependencies:

 * **silubiumd** keeps one or more `silubiumd` processes (spawned by it, or connected to),
   talks to them by JSON-RPC over HTTP (`silubiumd-rpc`), and listens to what they publish
   over ZMQ;
 * **web** serves HTTP and web sockets;
 * **insight-api** serves the routes and web-socket events, and runs the *indexers*:
   services that follow the chain and write to MongoDB.

`silubiumd` tells the others of a new best block by its `tip` and `block` events and of
transactions by `tx`. The indexers listen to `tip` and ask silubiumd for blocks,
transactions, receipts and balances; the controllers of insight-api ask the same methods
for the clients. Everything runs on one event loop, so a handler is atomic up to its next
request; what interleaves is the answers of the processes and the database, ZMQ messages,
timers, and the calls of clients. The process may be stopped or die between any two steps;
the database keeps what was written.

### Components, state and what makes them correct

| component | state | operations | what is hard | what makes it correct |
|---|---|---|---|---|
| chain tip (`silubiumd.js`) | `tiphash`, `height`, `zmqKnownBlocks`, `lastTip`, `lastTipTimeout` | ZMQ block handler, immediate and delayed update, load at start, polls of a spawned process | announcements of several processes, a timer racing an immediate update, answers out of order, overlapping polls | a block is reported once; tip and height settle on the newest |
| caches of addresses (`silubiumd.js`) | `txidsCache`, `utxosCache`, `balanceCache`, `summaryCache` | `getAddressTxids`, `getAddressUnspentOutputs`, `getAddressBalance`, `getAddressSummary`, `_resetCaches` | an answer made before a block and stored after it; mempool and chain read at different moments | nothing twice, nothing lost, nothing spent offered as unspent |
| subscriptions (`silubiumd.js`, `bus.js`, `web.js`, `insight-api/lib/index.js`) | lists of emitters per event and address, `zmqKnownTransactions` | subscribe, unsubscribe, close, notify | duplicate announcements, clients that leave while a request is under way | who is subscribed is told once, nobody else is |
| block caches, transactions, node information (`silubiumd.js`) | block, header, transaction, receipt and subsidy caches | `getBlock`, `getTransaction`, `getInfo`, `callContract`, ... | confirmations move on; reorganisations | a cached answer is that of the node |
| processes and clients (`silubiumd.js`) | the spawned process, its pid file, `nodes`, `nodesIndex` | start, restart, stop, reindex, `_tryAllClients` | a process that dies while starting or stopping, retries | one process at a time, and a dead one is replaced; who can answer is asked |
| lifecycle (`node.js`, `scaffold/start.js`) | services by name, `stopping` | start in order, stop in reverse order, signals and exceptions | a failed start, a second exception while stopping, stops side by side | dependents are stopped first, a shutdown ends, what is left running is reported |
| AddressBlocksMinedService | `lastTipHeight`, `lastCheckedBlock`, a checkpoint row, a count per miner | tip, block | stop between the two writes of a block | no block left out |
| StatisticService | the same, `knownBlocks`, figures per day and in total, caches of the last 24 hours | tip, block, start, queries | the checkpoint is written before the figures; the sums end at the first gap of the caches | no block counted twice; no gap but by a failure |
| AddressBalanceService | the same, a row per address, lists of the richest | tip, block, lists | balances of *now* written while walking the past | rows show the balances of the node, lists those of the rows |
| Src20Watcher | the same, contracts, transfers, balances, supplies | tip, block, contract, receipt | many writes per block, dropped errors, exceptions | what the checkpoint passed is recorded and current |
| AllTokensListService | a list, `lastTipInProcess` | tip | - | nothing reads the list |
| insight-api start and routes | services, events | start, events | a failed start is logged only | absent services stay absent |
| rate limiter (`ratelimiter.js`) | visits and bans per client | request, timers | interval against ban timer, late timers | limit and ban hold |
| block controller (`blocks.js`) | `blockCache`, `blockSummaryCache` | a page, a summary | confirmations move on, reorganisations between requests | what is kept stays true |
| other controllers, MarketsService, TransactionService | figures that stay 0 | read and format | - | agree with the services |
| transaction builder (`silubiumcore-lib/lib/transaction/`) | inputs, outputs, cached sums, index of the change, signatures | from, to, change, fee, sort, lock, sign, serialize, copies | everything derived is cached or kept by index and cleared by hand | what is serialized pays the fee and is signed as it is |
| scripts and interpreter (`silubiumcore-lib/lib/script/`) | the stacks, `vfExec`, the position in a script | verify, evaluate, step | conditionals, multisig, the redeem script | only who the output names can spend it |
| rest of silubiumcore-lib, silubiumjs-lib | none (values) | keys, encodings, merkle blocks | boundaries | agree with their definitions |
| web, scaffolding, command line, logging | - | glue | - | - |

## 2. Modules

| module | models | used by |
|---|---|---|
| `TipUpdate` | how the silubiumd service follows the tip | `MCTipUpdate`, `SilubiumdProofs` |
| `Subscriptions` | who is told of what | `MCSubscriptions`, `NodeProofs` |
| `IndexerLoop` | the loop shared by the indexers: tips, target, checkpoint | `MinedIndexer`, `StatIndexer`, `Src20Watcher` |
| `Checkpoint` | abstract: what a checkpoint promises, at least once or at most once | refined by `MinedIndexer`, `StatIndexer` |
| `MinedIndexer` | AddressBlocksMinedService over `IndexerLoop` | `ClientRounds`, `MinedIndexerProofs` |
| `ClientRounds` | `MinedIndexer` reading its blocks from several processes, by rounds of their clients | `MCMinedIndexer`, `MinedIndexerProofs` |
| `StatIndexer` | StatisticService, its figures per day and in total | `StatWindow`, `StatIndexerProofs` |
| `StatWindow` | `StatIndexer` with the caches of the last 24 hours and a clock | `MCStatIndexer`, `StatIndexerProofs` |
| `Src20Watcher` | Src20Watcher over `IndexerLoop` | `MCSrc20Watcher`, `Src20WatcherProofs` |
| `BalanceIndexer` | AddressBalanceService with its lists, the shared balance cache and a chain that is reorganised | `MCBalanceIndexer`, `BalanceIndexerProofs` |
| `AddressNode` | external: chain and mempool of one address | `AddressCaches` |
| `AddressCaches` | the caches of what the node says of an address, and their reset | `AddressLists`, `AddressSummary` |
| `AddressLists` | `getAddressTxids`, `getAddressUnspentOutputs` and their caches | `MCAddressLists`, `SilubiumdProofs` |
| `AddressSummary` | `getAddressSummary` and its three caches | `MCAddressSummary`, `SilubiumdProofs` |
| `ServiceOrder` | the order of the services (`Node.getServiceOrder`), as an operator | `MCNodeLifecycle` |
| `NodeLifecycle` | start and stop of the node and the life of the silubiumd process | `MCNodeLifecycle`, `NodeProofs` |
| `Scripts` | chunks, the standard scripts and their classifiers (`script.js`) | `Sighash` |
| `Sighash` | what a signature covers, for every hash type (`sighash.js`) | `ScriptSteps` |
| `ScriptSteps` | the stack machine, one chunk at a time, and `Verify`, as operators | `Interpreter`, `TransactionMethods` |
| `Interpreter` | `verify` as a state machine over those steps | `MCInterpreter`, `ScriptProofs` |
| `TransactionMethods` | the methods of a `Transaction` and its inputs, as operators | `Transaction` |
| `Transaction` | a `Transaction` under any sequence of calls | `MCTransaction`, `TransactionProofs` |
| `RateLimiter` | visits, bans and timers of clients | `InsightApi` |
| `BlockPages` | the page and the summary of a block and their caches | `InsightApi` |
| `InsightApi` | requests: limiter in front, block controller behind | `MCInsightApi`, `NodeProofs` |

`MC...` modules give the constants their values, `...Proofs` modules hold the theorems. A definition
with a suffix (`Save_OneAhead`) and a comment *Wrong* is a plausible mistake in the definition
that follows it; each property is known to fail when one of them takes the place of the right one.

### TipUpdate

A tip is the position of a best block in the sequence of best blocks the network has, so
a later tip is a newer block and a reorganisation is a later tip at the same height or
below. `ReceiveBlock` is the whole of `_zmqBlockHandler` and `_rapidProtectedUpdateTip`
for one message and *all* listeners registered on the socket: the first may update at
once, the second then finds the update rapid and arms the timer. `UpdateTip` sets
`tiphash` and issues the `getBlock` request; `AnswerHeight` and `AnswerError` are its
answer. `BootBest`/`BootBlock`/`BootError` are `_loadTipFromNode` under its retry,
`InitBest`/`InitBlock` are `_initChain`, the `Poll...` actions are
`_checkSyncedAndSubscribeZmqEvents`, of which up to `MaxPolls` overlap. Time is relative:
`age` of the last immediate update, saturated just above the interval, and what is left on
the timer, so that no clock needs a bound. `unfollowed` is a history of how long the tip has been
behind what the service was told; while a timer is due and the event loop has not come to it, no time counts.

### Subscriptions

A list is the number of times each bus is in it. `Enter` and `Leave` are the bodies of the
subscribe and unsubscribe functions for any set of lists; `Disconnect` is `bus.close`, which
leaves every list once. `NewTransaction`, `NewBlock`, `PollReports` and `Updated` are the
handlers; those that need an answer first add to `asked`, and `Answered` tells the list as
it is when the answer has come. `wants`, `repeated`, `polled` and `owed` are histories.

### The indexers

`IndexerLoop` has the node's height, the checkpoint `stored` (`last_block_number`), the
tips and the position of the loop; everything but `stored` is lost by `Crash`. Each module
adds its effect on the database: `credited[h]` and `day[h]`, `total[h]` count how often block
`h` took effect, and Src20Watcher has its collections. Each request and each write of a
block is an action of its own, and each can fail. A write that is under way when it fails,
or when the process stops, may or may not have taken effect (`WriteUnderWay`).
`trouble[h]` is a history of the failures that hit the writes on block `h`; properties use
it to say *only a failure does this*.

`ClientRounds` takes the reading of a block apart: its hash by height, the block by hash, its coinbase or
coinstake, each a round of the clients as `_tryAllClients` makes it. A round starts at any client,
since every request of the service moves the shared `nodesIndex`, and has an index of its own from then on; between its tries
the processes fail, fall behind and come back (`able`). A cached answer is one that another service may
have asked for, and spares the round. `steady` is a history of the clients that could have answered all the while.

`StatWindow` adds a clock and what StatisticService keeps in memory. `walk` is the height
`processPrevBlocks` has come to on its way down from the best block at the start; it stops
at the first block older than a day, and on a chain younger than that it asks for a block
below the first one, so that the start fails. `window` is the heights that were set: the four
caches are set together (`process24hBlock`), so one set stands for them, and `Alive` says
which of its entries have not expired. `missed` is a history of heights checked without being set.
Nothing is assumed of the times of blocks: the chain asks of a block only to be later than the median of the eleven
before it, so a block may be stamped older than the one below it, or ahead of the service's clock.

`BalanceIndexer` has a chain of its own with replaced blocks, and the cache that
`getAddressBalance` shares between the indexer and the requests of clients: a request, the
moment the node works its answer out, and the moment the answer is delivered are three
steps, and `TipUpdated` empties the cache between any two of them. When an update is through,
and at the start, the intervals and then the richest addresses are made of the rows, each by
one query (`IntervalsMade`, `ListsMade`). The list of addresses richer than an amount of
dollars is left out: the price it divides by is never asked for, and it stays empty.

`Src20Watcher` has what is left to do for the transaction it is at as a set of places (`todo`, at first
`WorkOf`): contracts created, supplies of contracts called, events of the receipts. The next one is always the least
in the order of the code (`Before`); the contracts of one call come in any order. A transaction without calls has its
creates done and nothing else, as `processBlock` has it. A receipt has an item for every output that creates or
calls a contract. Answers of the node are of its best block at that moment; a balance is what the events and the
supplies given at creation add up to (`BalanceAt`), and what a token contract itself computes is left out.

### Addresses

One address, some transactions that pay it and may spend its outputs, blocks and
reorganisations. A call goes through its requests; the node's answer is worked out at one
moment (`NodeLists`, `NodeAnswers`) and delivered at a later one. `since`, `until` and
`best` are histories of the blocks an answer is of, and `Moved` is what went into or out of
the chain between them: the properties allow exactly those transactions to differ. A list of
the node is a set, since the node lists nothing twice, and a list joined of two is a bag; in
which order it is listed is left out. `Entry` is what goes into a cache, and `BestOf` the block
it counts as being of when it is used.

### NodeLifecycle

The services start one after the other (`starting`); a stop is a *pass* over them in
reverse order, and since a SIGINT, every uncaught exception and a failed start each begin
one, several run side by side and the first to end ends the program. `ComeTo` is the loop of
`node.stop` up to the next callback. A call of `_spawnChildProcess` is a record: where it
is, what became of its process, whether its exit armed the restart timer. `current` is
`spawn.process`, which a new call forgets, so that a stop may find no process while one is
about to come. A start that waits for its process to answer is answered by any process of
the node that lives, the replacement of its own included.

### RateLimiter, BlockPages, InsightApi

Time is counted in ticks and a timer that is due fires at once or any time later. A name
that has no record gets one and its timer with its first request. Whether the record is
forgotten is looked at when the interval ends; a banned one is forgotten by a second timer.
`admitted` (the requests let through in the last ticks) and `sinceBan` are histories. `BlockPages` looks at the chain as one block sees it:
whether it is on it, what follows it, how high the node's chain is. A step of the chain (`NodeAdvances`) drops any
number of blocks and adds any other, so that it may become longer, stay as high or become shorter, also below the
block. `deepest` is a history of how far below its greatest height (`highest`) the chain was ever cut, so that shallow
reorganisations which follow each other without the chain growing back count together. A page is made of four
requests, a summary of two; the page counts the confirmations of the header, the summary
those of the service's own height, which is set by answers in any order.

### Scripts, Sighash, ScriptSteps, Interpreter

A buffer is what it holds: a number, a hash of a buffer, a key, a signature of a key over a
digest, a serialized script. A digest is the copy of the transaction that would be hashed,
cut down as the hash type says, so that two digests are equal when the copies are. `Step`
is one turn of `evaluate`'s loop with every opcode, the checks before it and the limits
after it; `Verify` folds it over a spend, and `Interpreter` takes the same steps one at a
time, which lets properties look at each of them. `vfExec` is kept as in the code, while
`Taken` in the properties says from the script alone which branches are to run.

### TransactionMethods, Transaction

A method is a function from transactions to transactions; one that throws leaves what it had
done and sets `thrown`. `Transaction` lets any sequence of them run, in any order, on inputs of four kinds
and on inputs added without their output (`uncheckedAddInput`), with the signatures of
`getSignatures` applied at any later time. The sums `inputAmount` and `outputAmount` are
the cached ones of the code; the properties add up anew. Whether signatures are good is asked of
`Verify` of `ScriptSteps`: what the builder signs is run by the interpreter.

## 3. Runs

All finish within three minutes with two workers. Deadlock is checked except where noted.

| run | question | bounds | states |
|---|---|---|---|
| `tip` | overlapping polls of a spawned process and two listeners, next to a process the service connects to: events once, tip and height settle, the tip follows what was told in time | 2 processes, one behind the other by any number of blocks; 3 best blocks, one of them a reorganisation; 2 polls at a time | 3.0 M |
| `subscriptions` | who is told of what | two clients with 2 and 1 calls; a transaction that names its address twice, an invalid address, a block, an update; 2 announcements of each | 0.6 M |
| `mined` | nothing left out, extra counts owed to failures; a read fails only when no process could answer it; refinement of `AtLeastOnce`; with fairness tips are indexed | 3 blocks, one without a miner's address, 2 failures per block; 2 processes | 0.14 M |
| `stat` | only failures leave out; refinement of `AtMostOnce`; the sums of the last day have no gap | 3 blocks, two of them proof of stake, one stamped older than the block below it and one that stays ahead of the clock for a while; 2 failures per block; a clock up to 5, a day of 2 | 0.83 M |
| `balance` | rows against the node, lists against the rows | 3 blocks, on the chain or replaced; 2 addresses with amounts on and between the borders; 1 richest | 0.57 M |
| `lists` | transactions and unspent outputs of an address | 2 transactions, one spending the other; 3 blocks; 1 call after the other | 0.6 M |
| `summary` | the summary of an address | 1 transaction, 3 blocks, 1 call after the other | 4.4 M |
| `src20` | collections against the node | 3 blocks with a contract made, one that fails, transfers that share a key, tokens made, a call through another contract, a contract that logs in its own making; any failure | 14 k |
| `node` | one silubiumd process, services stopped in order, shutdowns that end, processes replaced; and `getServiceOrder` for every configuration of three services | 3 services, 3 spawns, 2 stops at a time, a reindex | 0.1 M |
| `transaction` | what serialize lets through, change, payments, signatures | 6 calls; at most 2 inputs and 2 outputs; inputs of 4 kinds, with and without their output; 2 payments, 2 signers | 0.5 M |
| `script` | branches, multisigs, and who can spend | every script of up to 6 conditional chunks; every input of up to 3 chunks before a key hash; multisigs of 2 and 3 keys, bare and behind a script hash, with up to 3 signatures of any hash type tried; every opcode on 7 stacks | 0.2 M |
| `api` | limit, ban and what the block controller keeps | 2 clients with limits 1 and 0; a chain of up to 3 blocks from the one asked for on, that becomes longer or shorter and is reorganised at any depth; kept after 3 confirmations | 0.9 M |

**Why these bounds.** Three best blocks are the least with an announcement before, during
and after the one that matters, and a reorganisation among them; two overlapping polls give
the second listener, and a third adds nothing that a second does not
(`ReceiveBlock` looks at one, or more than one). Two processes announce up to four blocks after the service listens,
the older ones last, which is enough for two immediate updates with re-arming announcements of either before, between and
behind them; that longer streams do not postpone the tip either is `FollowsInTime`, for any number of processes and blocks. Three heights let a tip come while the loop
is between two blocks, with one behind the checkpoint; two failures per block let a repeat fail again. Two
addresses let one be written while another waits. For the answers of addresses, one
transaction confirmed, replaced and confirmed again between two answers, and an output with
its spender, are what tells the joins apart; calls under way share nothing but the caches,
which a first call fills and a second one reads in the same run, an answer being stored late
included. Three spawns are a process, its replacement, and one that dies again while the
first start still retries; two stops are the least that run side by side. Six calls build a transaction (an
input, a payment, a change address, a signature) and leave two to spoil it; two signers give
a multisig its wrong order. Six chunks nest conditionals three deep and leave room for a
repeated `OP_ELSE` one level up. The chain of the api run reaches the height that keeps
a page and no more, but it can be cut from there to any height, in one step or several, and grow back, so that a page is kept,
outlives shallow reorganisations and a chain that became shorter, and can be reached by a deep one. The limits of the
interpreter (operations, stack, size of numbers) and sizes and fees of transactions are scaled
down so that they are met. The proofs lift the bounds of all runs for
the properties they cover: any number of processes for the tip, of clients for the subscriptions, of
blocks and transactions for the balances and the answers about addresses, and so on.

**Deadlock.** `CHECK_DEADLOCK FALSE` stands in `tip` (the sequence of best blocks is bounded, and
once the service has stopped and everything has been delivered nothing is left to do),
`subscriptions` (the clients have left and no news comes), `node` (the program has ended),
`script` (the verdict is there), `transaction` (the calls are used up) and `api` (a chain at its
bound). The other systems always have a step, the stop and restart of the process if nothing else.

**Fairness.** The tip needs none: how long it may be behind is a bound in ticks, and ticks stop for nothing but a
timer that is due and not yet run. `ClientRounds!ClientsFairSpec` assumes
weak fairness of the work on a block as a whole: the try or write under way is answered, by success
or error. It does not assume that the service starts, that tips come, or that errors stop;
`TipIsIndexed` therefore ends in *indexed, or an error or the end of the process came first*.
`NodeLifecycle!FairSpec` assumes that a service's stop calls back or `shutdownTimeout` ends, that
the restart timer fires, and that a spawn succeeds or fails once the process of an earlier run has gone; it does not assume that a process
exits when told to, that it answers, or that a service's start calls back.

### What the properties say

 * `BlockEventOnce`, `TipSettled`, `HeightSettled`, `FollowedInTime`: however the
   announcements of the processes, the timer, the polls and the answers interleave, a block
   is reported once by the ZMQ handler, and when nothing is pending the tip is the last one
   announced and the height is its height. Two races are excepted by name, `overtaken` (an
   immediate update under an armed timer) and `crossed` (two answers that both set the
   height, or a failed one). A steady stream of announcements does not starve the update: within two intervals
   the tip is what was told, or something told after it. That is the *last* told and not the newest: see 12 below.
 * `ListsFollowClients`, `NotifiedOnce`, `NothingMissed`, `OnlyWhoAsked`: the lists are
   those the clients asked for; each is told once; nobody who left is told. Excepted are
   the lists of raw transactions and of block hashes, which take a bus more than once while
   `bus.close` removes it once, and blocks that polls report.
 * `OnceUnlessTroubled`, `AtLeastOnce`, and `LeftOutOnlyByFailure`, `AtMostOnce`: the two
   services make opposite promises, because one writes the checkpoint last and the other first.
   (`NoGap`, `CountedOnce` and `NoUndefinedCallback`, the branch of `processBlock` that would
   call an undefined name, are proved and no longer run.)
 * `DayIsCounted`: `getTotal` counts down from the last checked block to the first height its caches
   lack, so one gap hides all blocks below it. There is none but for a failed write, for
   blocks an earlier process checked above the height this one started at, or for a block that is a day old by its
   own time above one that is not (13 below). While a block is
   checked and not yet set, `lastCheckedBlock` is one ahead and the sums are of nothing.
 * `TipIsIndexed`: no tip is forgotten (`IdleIsCaughtUp`, its safety part, is proved and no longer run).
 * `SteadyClientAnswers`: a process that is up and has the block is asked in every round, so that
   a request fails only when none was so all the while. `getRawBlock` (silubiumd.js:1802) asks the shared index
   instead of its round's, and has no such promise; nothing but `_initChain` and the raw block route uses it.
 * `RowsAreCurrent`: balances of now, written block by block from a cache, agree with the
   node for every address the checkpoint has passed. Two exceptions: an answer that
   was overtaken by a new block, and addresses of replaced blocks. `ListsAreCurrent`: between updates
   every row counts in exactly one interval, borders included, and the richest are the richest.
 * `NothingTwice`, `NothingLost`, `SpentIsGone`, `FiguresAgree`, `NothingLeftOut`,
   `AmountsAreCurrent`: the answers for an address differ from one state of the node at most by what
   moved between the parts they are joined from.
 * `TransfersKept`, and `RowsAreCurrent` for balances and supplies of tokens: the collections of
   Src20Watcher. Excepted are transfers of one transaction that share a key, those of a transaction without
   calls (`LeftAlone`: what a contract logs in its own making is not looked at, but the balance of its creator is), contracts
   made before the watcher began, a supply changed by an output that is no call, and one whose contract was hidden by a
   dropped error (`missed`).
 * `OneProcess`: never two silubiumd processes on one data directory, nor one with another about to
   be spawned. `StoppedInOrder`: however many stops run, no service is stopped before those that
   depend on it, and a reported success means all were. `LeftRunningIsReported`: a process
   the program leaves behind was interrupted, or the program says it failed. `ShutdownEnds`, `RestartComes`.
 * `SerializedIsSound`, `ChangeIsCurrent`, `PaymentsKept`, `SignedIsValid`: see the calls they except below.
 * `BranchesFollowStructure`, `MultisigIsMatching`, `SpendsAreAuthorized`: `vfExec` says what
   the structure of a script says; the loop of a multisig, which never goes back, finds a matching when
   there is one; nothing but signatures of enough keys over this transaction spends an output to keys.
 * `WithinLimit`, `BanHolds`, `KeptIsTrue`: a client gets through at most twice its limit within
   an interval; a ban lasts, however late timers are; kept pages and summaries stay true while
   no reorganisation cuts the chain `blockCacheConfirmations` below the greatest height it had. A page never claims more
   confirmations than the node has counted; more than it counts now only after the chain has become shorter (14 below).

### What the properties except by name

While modelling, these behaviours of the code turned out to break the property one would like
to state. The models contain them; the properties name them as exceptions, so that nothing
else can hide behind them.

 1. `overtaken`: `_rapidProtectedUpdateTip` (silubiumd.js:654) updates at once without
    clearing a timer that is still armed, which then sets the tip back to an earlier block
    until the next announcement.
 2. `polled`: `checkAndSubscribe` (silubiumd.js:817) emits `block` for the same block on
    every poll; the ZMQ handler does not.
 3. `overtaken` in the cache modules: an answer from before a new block is stored after the caches
    were emptied for it (silubiumd.js:1223, 1322, 1753), although they are commented "caches
    valid until there is a new block" (silubiumd.js:127).
 4. `replaced`: blocks of a reorganisation at heights done are not indexed again.
 5. `OneProcess` holds while the node is stopping too, but a restart timer is not cleared by a stop
    (silubiumd.js:1025): a process may be spawned behind the shutdown and outlive it, which is why
    `LeftRunningIsReported` allows a replacement when the program reports a failure. And where silubiumd
    is behind another service in the order, a stop passes it over before it was started, and the series
    of starts, which a stop does not end, spawns its process afterwards; the property is for silubiumd first.
 6. `strayed`: `removeOutput` (transaction.js:1034) at or before the change output leaves the
    change's index alone, and the next update removes the output it now names: a payment is lost.
 7. `careless`: `to`, `from`, `fee` and others clear signatures only when there is a change script
    (transaction.js:941), and `sortOutputs`, the lock times and `enableRBF` never do, although the
    documentation says that signatures are removed when the transaction changes
    (docs/transaction.md:103).
 8. `lost`: a copy by `toObject` and `fromObject` forgets a change index of 0, a fee of 0 and the fee per kilobyte.
 9. `broken`: an exception midway, at an input without its output, leaves a sum of some inputs in the cache.
 10. A ban is not prolonged by requests made during it, and the page's next block is true only for
     reorganisations one block smaller than those its other fields survive.
 11. `crossed`: the summary's main-chain flag is read before the height that decides whether it is kept.
 12. A process that lags announces an older block within a second of the newest, and silubiumd.js:658 arms the timer
     anew with it: the older block becomes the tip, and stays it until the next announcement. `TipSettled` and `FollowedInTime`
     are about what the service was told last; no property says that the tip is the newest block of any process.
 13. A block stamped older than the one below it expires first, and `getTotal` (StatisticService.js:936-974), which ends at the first
     height that is absent, leaves out the younger blocks below it; for the same reason the walk of a
     start (`processPrevBlocks`, StatisticService.js:167-232) ends above them and never sets them.
 14. The confirmations of a page are counted of the service's own height (blocks.js:90) or were those of its header: when
     a reorganisation leaves the node's chain shorter, the page claims those of the longer chain until the service hears of a block
     of the new one and somebody asks again.

## 4. Proofs

The theorems hold for every value of the constants that satisfies the named assumptions
(`TipAssumption`, `LoopAssumption`, `MinedAssumption`, `StatAssumption`, `WindowAssumption`, `ClientsAssumption`,
`BalanceAssumption`, `NodeAssumption`, `CacheAssumption`, `SummaryAssumption`, `ChainAssumption`, `SubscriptionsAssumption`,
`OrderAssumption`, `BoundAssumption`, `LimiterAssumption`, `PagesAssumption`, `SpendsOfScripts`, `BuildAssumption`), which the runs evaluate.
They assume no fairness. One theorem has a hypothesis of its own, `LeftRunningIsKnown`.

**SilubiumdProofs.** Of the tip: `TypeCorrect`, `BlockEventsOnce`, `TipSettles`, `HeightSettles`, `FollowsInTime`. `TipSettled` speaks of
states without an armed timer only, so it is not inductive: `TipInv` adds that an armed
timer holds the last hash announced. `HeightSettled` speaks of states without a request;
`HeightInv` adds that, unless answers crossed, all requests are for the tip itself. Each
action is a lemma: those that touch neither, those that announce, those that answer. `FollowsInTime` is `FollowedInTime` for any
stream of announcements. With `DelayInv`, a tip that is behind has a timer armed with the last hash told, and what it has waited and what is left
on the timer are within two intervals: an announcement can re-arm the timer only while the last immediate update is less than an interval ago,
and the tip has not been behind for longer than that.

**MinedIndexerProofs.** `Invariant`, `MinedHasNoGap`, `CountedOnceUnlessTroubled`,
`MinedIdleIsCaughtUp`, `MinedImplementsAtLeastOnce`. The inductive invariant
`MinedInv == LoopInv /\ NoGap /\ RowInv /\ CountInv`: the loop works on the block after the
last checked one (`LoopInv`); memory and row agree but for a checkpoint written by a call
that reported an error (`RowInv`), which is why a restart repeats at most that block; and a
block that is done, or waits for its checkpoint, is counted once more than its failures, any
other at most as often as its failures (`CountInv`). The refinement maps a count to `Work`,
a checkpoint to `Pass`, everything else to a stutter.
`ClientsImplementIndexer` carries all this over to `ClientRounds`, where `SteadyIsAnswered` proves
`SteadyClientAnswers` for any number of processes: `RoundInv` says that the clients asked so far are those from
where the round started up to where it is, around the end of the list, that none of them is steady,
and that as many tries are left as clients not asked.

**StatIndexerProofs.** `StatCountsOnce`, `StatLeavesOutOnlyByFailure`,
`StatCallsOnlyDefinedNames`, `StatIdleIsCaughtUp`, `StatImplementsAtMostOnce`, from
`StatInv == LoopInv /\ RowInv /\ KnownInv /\ FiguresInv /\ LeftOutInv`: here memory may be
ahead of the row (`RowInv`), figures exist only at or below the checkpoint (`FiguresInv`),
and what is taken as done without figures has had a failure (`LeftOutInv`).
`WindowImplementsIndexer`: with its caches and its clock the service still moves as
`StatIndexer` does, so that these theorems hold for it. `DayIsSummedUp` is `DayIsCounted`
for every chain, whatever the times of its blocks, every length of a day and any number of failures. The invariant
`WindowInv` follows the walk down (what it has passed and is young is set; it ends at an old block) and then the blocks (what
is checked and young is set or missed, but for the block being worked on); that blocks only grow older does the rest.

**BalanceIndexerProofs.** `RowsShowTheBalances` is `RowsAreCurrent` for any addresses, amounts and blocks. A row
is written with the balance of now while the checkpoint walks the past, so the invariant is about *heights*: a
balance is *of a height* when it is that of the chain now, or when a block above that height, or a replaced
one, touches the address (`OfHeight`). `IInv == Typed /\ ChainInv /\ LoopInv /\ AnswersInv /\ RowsInv` says that
what is on its way is of the height the node had when it worked it out, that what is in the cache and not overtaken
is of every height the service has heard of, that an answer is of the height of the block under way, and that
the rows are of the checkpoint's height. A step that empties the cache, or writes a row, or moves the checkpoint
keeps that; a block that is connected changes only balances of addresses it touches, and lies above every height.
`ListsShowTheRows` is `ListsAreCurrent`, for any amounts, smallest border and limit. `ListsFollowRows` follows the lists through
the steps that make them: the intervals stay those of the rows while the list of the richest is made, for no row is written
meanwhile, and the loop comes to the lists only with the checkpoint at its target. That the intervals are those
of the rows (`MakeIntervalsOK`) is a lemma about sums: the borders grow tenfold until one lies above the largest balance (`BordersEnd`),
so each row lies between two borders next to each other, and a measure that adds up over disjoint sets, such as the number of rows or
the sum of their balances, is that of all rows when it is added up over the intervals (`SumOfParts`). A sum that the model takes is
a fold over a set of unknown order; that the order does not matter is `SumTakes`, by the size of the set. That as many different
addresses as there are rows are all of them gives the list of the richest (`MakeRichestOK`).

Of what is asked about an address, in `SilubiumdProofs`: the six properties of the answers about an address: `AnswersListNothingTwice`, `AnswersLoseNothing`,
`SpentOutputsAreGone`, `PartsAgree`, `SummariesLoseNothing`, `SummaryAmountsAreCurrent`. They compare lists
made at different times, which no state of the system holds together. The invariants `ListsInv` and `SummaryInv`
therefore say that there *is* a history `H`, the transactions confirmed at every best block so far (`HistoryOK`): two
entries differ at most by what moved between their blocks, and an entry has what its transactions spend.
Every list, figure and cache entry is that of one entry of `H` (`CallOK`, `SummaryOK`, `EntryOK`); a cache entry is not
older than the block the caches were last emptied for, unless it was overtaken. The steps of the node extend `H`
(`HistoryStep`), those of the service leave it alone. That a spent output is gone needs one thing more: what
is pending with a best block is not confirmed in it, so that of an output and its spender one cannot be listed
as pending below the other.

**Src20WatcherProofs.** `TransfersAreKept` and `RowsAreTheNodes`, for every chain, any contracts and holders. The argument is of
what is *settled*: a piece of work is, when the checkpoint has passed its block or the pass under way has done it. Failures and
crashes make less of it settled, and the checkpoint moves only when the work on a transaction and those before it is done.
`RowInv` says that what is settled is in the collections, and that every row is of some height with nothing settled above it
that changes it; so a repeated block, whose answers are of later heights, does no harm. The rest of `IInv` follows the work:
what is left is work of the transaction (`WorkInv`), the contract of an event at hand is known (`ItemInv`, since what makes
a contract is before what it logs, `KnownInTime`), and the answers that wait are of the block under way or later (`HeldInv`).
Each write is right for what was settled before it (`RowsWritten`), and going on settles at most the piece it was for (`GoesOn`).
`ChainAssumption` says of the chain that a contract is made by one output, and logs nothing before.

**NodeProofs.** Of the node: `TypeCorrect` and `AtMostOneProcess`, for any set of services and any
order of them. `OneProcess` is about calls of `_spawnChildProcess` that have a process or may yet get one; it is
inductive with three additions: a timer belongs to a call whose process has exited, a call that has not
spawned yet has no process (`CallsConsistent`), and before the start of silubiumd there is no call (`NoneBeforeStart`).
`StopsAreInOrder`: with `StopInv`, everything behind a service that was stopped, or that a stop has come to, and
that had been started, has been stopped; a second stop that overtakes the first finds it so. `LeftRunningIsKnown` is `LeftRunningIsReported`
under `DaemonFirst`, silubiumd is the first of the services, as in the default configuration (`default-base-config.js:21`).
For another order it is false (see 5 above); under it the process that lives is always that of the last call
(`LastLives`), and a stop that waits for one has interrupted it (`WaitsInterrupted`).

Of insight-api, in the same module: `LimiterTypeCorrect`, `BannedStayOut` and `TwiceTheLimit`, for the limiter with whatever is behind it.
A record and its one timer come and go together (`TimersMatch`); until the
time of the ban is over the record is banned and above the limit, and a timer that could delete it
has at least the rest of the ban left (`KeptOut`). What was let through within an interval is what the record of now
has let through, at most the limit, and what the record before it had. `KeptPagesAreTrue`: what
a header said of a block that is deep enough to be kept stays true while no reorganisation cuts the chain as far below its greatest height
as the confirmations it takes (`SaysTrue`); the block is that deep for good, since depth is counted from `highest`, which never falls, and what a block said of the main chain does unless the chain crossed the request; both of
the requests under way and of what is kept (`PagesInv`).
For the clients with a web socket: `ListsFollow` and `OnlySubscribersAreTold`, for any number of
clients, addresses and calls. `ListsInv` strengthens the first: but for repeated calls a
bus is in a list *at most once*, which is what makes one `splice` enough. The second
follows since every message goes to a place in a list (`TellReaches`). `ToldOnlyOnce`: messages
sent and requests out add up to at most one, and to none for what the service does not know yet (`OnceInv`).
`SubscribersAreTold`: who wants anything has an open socket (`OpenInv`), and what is owed was sent or is being
asked for (`OwedInv`).

**ScriptProofs.** `MultisigMatches`, `AcceptedIsSigned` and `BranchesAreTaken`, for every script, every
transaction and every limit. What a sequence of chunks does is proved as an invariant of the machine, and what a fold
does (`MatchKeys`, `FindAndDelete`) by way of its *run*, the sequence of its intermediate values: induction
over the places of a run is a least counterexample in a set of numbers (`LeastOf`, `AllNumbers`), which needs no theorem about operators.
 * `MultisigMatches` rests on `MatchKeysIsGreedy`: after j keys the loop has given away as many signatures as those
   keys can serve (`LoopInv`), so when it gives up no matching exists, and when it comes to its end it has made one.
 * `BranchesAreTaken`: the level of a position is how many conditionals are open there, and `vfExec` has a value for each level
   (`Structured`, kept by every chunk; `BranchInv`). The value at the level of a conditional is whether the half is taken that the
   `OP_ELSE`s since then lead to, and a conditional chose anything only if those around it were all taken there (`OfLevel`).
   An `OP_ELSE` turns the last value, which belongs to the innermost conditional; an `OP_ENDIF` takes it away.
 * `AcceptedIsSigned`: no stack ever holds a signature that the input's script did not push (`MachineOK`, for any set of signatures). The
   script that decides is a standard one; the machine that runs it leaves, chunk by chunk, what the next chunk asks for (`KeyTrace`, and `HashTrace` for
   an output to a script hash; `SpendInv`), and the last chunk answers true only for signatures over the digest of the whole script.
   `SpendsOfScripts` says what outputs are: sequences of chunks, those that want keys made by the builders of `Script`, and a script hash one of a script.
 * The other way round, the lemmas `KeyVerifies`, `KeyHashVerifies`, `KeysVerify` and `HashVerifies`: `Verify` accepts the standard spends of a key,
   a key hash, several keys and a script hash of these when the signatures verify, those of several keys in their order. A machine that is
   on course (`OnCourse`) has not failed and has read so many chunks; a script of pushes leaves its items (`LoadsAll`), the next script starts
   with them (`Follows`, `FollowsWithout`), and the loop over keys finds the matching that the order gives (`KeysAccept`).

**TransactionProofs.** `ChangeStaysCurrent` and `PaymentsStay`, for any unspent outputs, payments and fees, and any number of
inputs, outputs and calls. They rest on one invariant, `BuildInv`: but for calls that threw in the middle, the cached sums
are those of the inputs and outputs (`SumsOK`) and the index of the change is that of an output (`IndexOK`); with a change address
the output there has the change script and what the others leave over (`CurrentChange`), so that taking it away and working it out again comes
to the same; and the outputs without it are, each as often, those asked for (`Counted`).
Every method is a lemma about a transaction and what it makes of it (`AddOutputKeeps`, `SortKeeps`, `SignWithKeeps`
and so on), and most calls end with `_updateChangeOutput`, for which `IsUpdated` lists what it promises. A sum over the
outputs is a fold; how an output more or less or another order of them changes it is proved by its run. `_newOutputOrder` may find another
output that looks like the change, which is as good: what is in it is the same.
`SignaturesStayValid`: the signatures in the inputs are of the keys in whose places they are and cover the transaction as it is now,
whatever calls come between signing, getting and applying them (`SignaturesInv`: no output is spent twice, what `getSignatures` gave
and was not applied yet still fits).
`SignedStaysValid` adds the interpreter: what `_createSignatures` gives are the signatures in the places, in the order of the keys (`CreatedFacts`,
by the run of the fold), and with the acceptance lemmas of `ScriptProofs` an input with all of them is accepted (`SignedIsAccepted`).
It needs `InputAssumption`: the scripts of the outputs are those of their keys and threshold, which `from` and the inputs check
(`transaction.js:655`, `multisig.js:27`, `multisigscripthash.js:27`), and the keys are few enough for the limits of
the interpreter, which they always are with at most 16 keys in a script (`Opcode.smallInt`). A script has one length in
the models, below the 520 bytes that may be pushed; a redeem script of 16 keys of 33 bytes has more, and is outside of the theorem.
`SerializedStaysSound` joins that with `BuildInv`: what `serialize` lets through is judged by sums that are those of the transaction,
and by signatures that are valid.

Model-checked only: liveness (`TipIsIndexed`, `ShutdownEnds`, `RestartComes`), for the prover has no rules
for fairness and ENABLED. Every invariant and every action property that a run checks is a theorem.

## 5. Limits of the models

 * Reorganisations: a service that follows the chain by height does not look again at
   heights it has done. `BalanceIndexer` names the rows this leaves wrong (`replaced`);
   the counts of `MinedIndexer` and `StatIndexer` and the entries of `StatWindow` are per height, and `Src20Watcher` has no
   reorganisations.
 * `TipUpdated` of the cache modules empties the caches for later blocks only; a tip that goes
   back (`overtaken`) empties them once more, which only helps.
 * Several processes: the cache modules ask one node. That two processes differ in their
   best block while a call goes to either is in `ClientRounds` only.
 * The summary in the cache lacks transactions that became pending later, until the next
   block; `NothingLeftOut` is about calls that join a list, which do not use that cache.
 * LRU caches are never full but for `zmqKnownBlocks` in `TipUpdate`; eviction from the
   others only causes another request.
 * Push messages of Src20Watcher are left out, and with them an error of their look-ups,
   which ends the process like `Crash` does.
 * `connect` and `disconnect` of a bus are single; a socket that reconnects is a new bus. A subscription to
   `addresstxid` or `addressbalance` brings a list of addresses; without one the call throws before it changes anything
   (silubiumd.js:274, 339), and no client makes it.
 * Scripts: signatures and keys are of one length each and hashes never collide; the limit of 10000 bytes,
   low S and the forms of DER beyond *well encoded or not* are left out. Hash types other than
   `ALL` occur in the script run only; the builder of transactions signs with `ALL`.
 * Transactions: sizes are constants, and the byte formats are left out. `from` recognises an output that is an
   input already only when it has the fields of an `UnspentOutput`; objects in the form of
   `listunspent`, which it does not recognise, are not modelled. Signatures that are applied came of `getSignatures` of
   some transaction, so the key is one of the input's, which inputs to one key do not check (publickeyhash.js:62,
   publickey.js:57). Every output added is an object of its own: `_removeOutput` (transaction.js:1030) would drop each occurrence
   of one that was added twice.
 * The rate limiter's clients are names; how a name is made of an address and headers is not modelled.
 * Start of insight-api: an error while its services start is logged only (`index.js:301`); the
   indexers model it as `StartFails`, the absence of the services after the one that failed is not.
 * Not modelled, and why: the web service's HTTP, the scaffolding, the command line
   and logging (glue and one-shot commands); the generated bundles, more than half the lines of the repository; `silubiumjs-lib`
   (constants and wrappers); MarketsService (its polling is commented out); AllTokensListService (nothing reads its list); Mongoose schemas;
   keys, addresses and encodings of silubiumcore-lib (functions on bytes, without state); regtests.

## 6. Plan

Modelled so far is what everything else depends on, in this order: the tip, the indexers that write what
outlives the process, the answers about addresses, the subscriptions; then the life of the node, the
builder of transactions and the interpreter, and the API's limiter with its block controller. What is left:

 1. The first connection to processes that are not spawned (`_connectProcess`).
 2. Block, transaction and subsidy caches of `silubiumd.js`, `getAddressHistory` and paging.
 3. Pure algorithms against reference definitions over bounded inputs: merkle trees and merkle blocks,
    variable-length integers, derivation paths.
 4. Proofs: the abstract promises (`Checkpoint`) for `Src20Watcher`; the settings of `Transaction`, once its methods are
    written without recursive operators.
