----------------------------- MODULE TipUpdate -----------------------------
(***************************************************************************)
(* How the silubiumd service follows the chain tip                         *)
(* (silubiumcore-node/lib/services/silubiumd.js).                          *)
(*                                                                         *)
(* Every silubiumd process announces its new best block over ZMQ.  The     *)
(* service turns the announcements into 'block' events, at most one for a  *)
(* block it remembers, and into updates of tiphash: at once when more than *)
(* a second has passed since the last immediate update, otherwise from a   *)
(* timer that each further announcement re-arms.  An update asks the       *)
(* process for the block and sets the height when the answer comes; the    *)
(* answers of two updates travel on separate HTTP requests.  A spawned     *)
(* process is polled for its best block until it is synced, and only then  *)
(* is the ZMQ handler registered.                                          *)
(*                                                                         *)
(* A tip is the position of a block in the sequence of best blocks of the  *)
(* network: 1 is the oldest, a reorganisation is a later tip whose height  *)
(* is not larger.  Time is relative: the age of the last immediate update  *)
(* and the time left on the timer, so no clock runs out.                   *)
(***************************************************************************)
EXTENDS Integers, Sequences

CONSTANTS
    Nodes,          \* the silubiumd processes the service is attached to
    Spawned,        \* those it spawned (polled first); the others it connects to
    MaxTip,         \* length of the network's sequence of best blocks
    HeightOf,       \* HeightOf[t]: the height of the block that is tip t
    RapidInterval,  \* the 1000 ms of _rapidProtectedUpdateTip, in ticks
    KnownSize,      \* capacity of the zmqKnownBlocks LRU (50)
    MaxPolls,       \* bound: polls of one process that overlap
    MaxAsks         \* bound: getBlock requests in flight for one process and tip

Tips == 1..MaxTip

\* What a delayed update may take: what is left of the second since the last
\* immediate one when it is asked for, and the whole of the timer.
MaxDelay == 2 * RapidInterval

ASSUME TipAssumption ==
    /\ Nodes # {} /\ Spawned \subseteq Nodes
    /\ MaxTip \in Nat \ {0}
    /\ HeightOf \in [Tips -> Nat]
    /\ RapidInterval \in Nat \ {0}
    /\ KnownSize \in Nat \ {0}
    /\ MaxPolls \in Nat \ {0} /\ MaxAsks \in Nat \ {0}

VARIABLES
    nodeTip,    \* nodeTip[n]: best block of process n
    wire,       \* wire[n]: announcements of n on their way to the service
    boot,       \* boot[n]: _loadTipFromNode, phase and the tip it asks for
    init,       \* _initChain, phase and the tip it asks for
    interval,   \* interval[n]: the polling interval of a spawned process
    polls,      \* polls[n][i]: the i-th overlapping checkAndSubscribe
    handlers,   \* handlers[n]: 'message' listeners on the ZMQ socket of n
    known,      \* zmqKnownBlocks, the most recently used first
    age,        \* time since lastTip, saturated above RapidInterval
    timer,      \* lastTipTimeout and the closure it runs
    tiphash,    \* self.tiphash, 0 before the first update
    asks,       \* asks[n][t]: getBlock requests of _updateTip in flight
    height,     \* self.height
    stopping,   \* node.stopping
    zmqEvents,  \* history: 'block' events of each tip from the ZMQ handler
    latest,     \* history: the hash last handed to the tip tracking
    overtaken,  \* history: latest was applied at once under an older timer
    crossed,    \* history: latest update's height may lose to another answer
    unfollowed  \* history: 1 + the time since a hash told that the tip, set to
                \* neither it nor a later one, has not followed; 0 when it has

zmqVars  == <<wire, known, zmqEvents>>
pollVars == <<interval, polls, handlers>>
clockVars == <<age, timer, unfollowed>>
tipVars  == <<tiphash, asks, latest, overtaken>>
trackingVars == <<nodeTip, zmqVars, boot, init, pollVars, clockVars, tipVars,
                  height, stopping, crossed>>

-----------------------------------------------------------------------------
SomeNode == CHOOSE n \in Nodes : TRUE
NoTimer  == [armed |-> FALSE, left |-> 0, node |-> SomeNode, tip |-> 1]
NoPoll   == [stage |-> "idle", from |-> 1]
Request(phase, t) == [phase |-> phase, tip |-> t]

TipTypeOK ==
    /\ nodeTip \in [Nodes -> Tips]
    /\ wire \in [Nodes -> Seq(Tips)]
    /\ boot \in [Nodes -> [phase : {"best", "block", "up"}, tip : Tips]]
    /\ init \in [phase : {"best", "block", "done"}, tip : Tips]
    /\ interval \in [Nodes -> {"unset", "running", "cleared"}]
    /\ polls \in [Nodes -> [1..MaxPolls ->
                    [stage : {"idle", "best", "info"}, from : Tips]]]
    /\ handlers \in [Nodes -> Nat]
    /\ known \in Seq(Tips)
    /\ age \in 0..(RapidInterval + 1)
    /\ timer \in [armed : BOOLEAN, left : 0..RapidInterval,
                  node : Nodes, tip : Tips]
    /\ tiphash \in Tips \cup {0}
    /\ asks \in [Nodes -> [Tips -> Nat]]
    /\ height \in Nat
    /\ stopping \in BOOLEAN
    /\ zmqEvents \in [Tips -> Nat]
    /\ latest \in Tips \cup {0}
    /\ overtaken \in BOOLEAN /\ crossed \in BOOLEAN
    /\ unfollowed \in 0..(MaxDelay + 2)

TipInit ==
    /\ nodeTip = [n \in Nodes |-> 1]
    /\ wire = [n \in Nodes |-> <<>>]
    /\ boot = [n \in Nodes |-> Request("best", 1)]
    /\ init = Request("best", 1)
    /\ interval = [n \in Nodes |-> "unset"]
    /\ polls = [n \in Nodes |-> [i \in 1..MaxPolls |-> NoPoll]]
    /\ handlers = [n \in Nodes |-> 0]
    /\ known = <<>>
    /\ age = RapidInterval + 1
    /\ timer = NoTimer
    /\ tiphash = 0
    /\ asks = [n \in Nodes |-> [t \in Tips |-> 0]]
    /\ height = 0
    /\ stopping = FALSE
    /\ zmqEvents = [t \in Tips |-> 0]
    /\ latest = 0
    /\ overtaken = FALSE /\ crossed = FALSE /\ unfollowed = 0

-----------------------------------------------------------------------------
(* The processes and the ZMQ transport (not part of src/). *)

\* A process connects the next best block and publishes it; a PUB socket
\* sends nothing to a service that has not subscribed.
NodeAdvances(n) ==
    /\ nodeTip[n] < MaxTip
    /\ nodeTip' = [nodeTip EXCEPT ![n] = @ + 1]
    /\ wire' = IF handlers[n] > 0
               THEN [wire EXCEPT ![n] = Append(@, nodeTip[n] + 1)]
               ELSE wire
    /\ UNCHANGED <<known, zmqEvents, boot, init, pollVars, clockVars, tipVars,
                   height, stopping, crossed>>

\* ZMQ PUB/SUB may drop a message.
MessageLost(n) ==
    /\ wire[n] # <<>>
    /\ wire' = [wire EXCEPT ![n] = Tail(@)]
    /\ UNCHANGED <<nodeTip, known, zmqEvents, boot, init, pollVars, clockVars,
                   tipVars, height, stopping, crossed>>

\* The delay of the tip is counted up to just above MaxDelay, but for the time the
\* event loop leaves a timer that is due unattended.
Counting == unfollowed \in 1..(MaxDelay + 1) /\ ~(timer.armed /\ timer.left = 0)

\* Time passes for the rapid-update guard and for the armed timer.
Tick ==
    /\ age <= RapidInterval \/ timer.left > 0 \/ Counting
    /\ age' = IF age <= RapidInterval THEN age + 1 ELSE age
    /\ timer' = IF timer.left > 0
                THEN [timer EXCEPT !.left = @ - 1] ELSE timer
    /\ unfollowed' = IF Counting THEN unfollowed + 1 ELSE unfollowed
    /\ UNCHANGED <<nodeTip, zmqVars, boot, init, pollVars, tipVars, height,
                   stopping, crossed>>

-----------------------------------------------------------------------------
(* _updateTip: what every path to a new tip ends in. *)

NoAsks == \A n \in Nodes, t \in Tips : asks[n][t] = 0

\* No other answer that sets the height is on its way.
HeightQuiet ==
    /\ NoAsks
    /\ init.phase # "block"
    /\ \A n \in Nodes : boot[n].phase # "block"

\* Bound on the requests one process may have unanswered for one tip.
Room(n, t) == t = tiphash \/ asks[n][t] < MaxAsks

\* A tip that is not the current one becomes it; the block is requested.
UpdateTip(n, t) ==
    IF t = tiphash
    THEN UNCHANGED <<tiphash, asks, crossed>>
    ELSE /\ tiphash' = t
         /\ asks' = [asks EXCEPT ![n][t] = @ + 1]
         /\ crossed' = ~HeightQuiet

\* The history of a step after which the last hash told is the tip, or is not yet.
Followed(told) ==
    unfollowed' = IF tiphash' = latest' THEN 0
                  ELSE IF told /\ unfollowed = 0 THEN 1 ELSE unfollowed

\* Wrong: every new tip is one block higher.
HeightAnswered_Counts(t) == height + 1

\* response.result.height
HeightAnswered(t) == HeightOf[t]

\* The answer to getBlock sets the height and emits 'tip'.
AnswerHeight(n, t) ==
    /\ asks[n][t] > 0
    /\ asks' = [asks EXCEPT ![n][t] = @ - 1]
    /\ height' = HeightAnswered(t)
    /\ UNCHANGED <<nodeTip, zmqVars, boot, init, pollVars, clockVars, tiphash,
                   latest, overtaken, stopping, crossed>>

\* The request fails: 'error' is emitted, the height stays what it was.
AnswerError(n, t) ==
    /\ asks[n][t] > 0
    /\ asks' = [asks EXCEPT ![n][t] = @ - 1]
    /\ crossed' = TRUE
    /\ UNCHANGED <<nodeTip, zmqVars, boot, init, pollVars, clockVars, tiphash,
                   latest, overtaken, height, stopping>>

-----------------------------------------------------------------------------
(* _zmqBlockHandler and _rapidProtectedUpdateTip. *)

Remembered(t) == \E i \in 1..Len(known) : known[i] = t

\* Wrong: the hash is never stored.
Remember_Not(t) == known

\* zmqKnownBlocks.get / .set: the entry moves to the front, the least
\* recently used one falls out when a new one finds the cache full.
Remember(t) ==
    LET last == IF Remembered(t)
                THEN CHOOSE i \in 1..Len(known) : known[i] = t
                ELSE IF Len(known) < KnownSize THEN Len(known) + 1
                                               ELSE Len(known)
        size == IF last > Len(known) THEN last ELSE Len(known)
    IN  [i \in 1..size |-> IF i = 1 THEN t
                           ELSE IF i <= last THEN known[i - 1] ELSE known[i]]

Rapid == age <= RapidInterval

\* The socket hands over the messages of a process in the order they came.
Received(n) == Head(wire[n])

\* Wrong: clearTimeout without a new setTimeout.
TimerAfter_OnlyClears(n, t) == IF Rapid THEN NoTimer ELSE timer

\* The timer after n announced t: re-armed by a rapid announcement, and by the
\* second listener of a process; left alone by an immediate update.
TimerAfter(n, t) ==
    IF Rapid \/ handlers[n] > 1
    THEN [armed |-> TRUE, left |-> RapidInterval, node |-> n, tip |-> t]
    ELSE timer

\* Wrong: lastTip is set by every announcement, not only by an immediate update.
AgeAfter_Each == 0

\* lastTip is set by an immediate update alone.
AgeAfter == IF Rapid THEN age ELSE 0

\* The 'block' events of t: none when its hash is known, one when the first
\* listener stores it for the others to find.
EventsFor(n, t) == IF Remembered(t) THEN 0
                   ELSE IF \E i \in DOMAIN known' : known'[i] = t
                        THEN 1 ELSE handlers[n]

\* Each listener registered on the socket runs the handler in turn.  The
\* first run may update at once; a second run then finds the update rapid and
\* (re-)arms the timer with the same block.  An immediate update leaves a timer
\* that is already armed alone.
ReceiveBlock(n) ==
    LET t == Received(n) IN
    /\ wire[n] # <<>> /\ handlers[n] > 0
    /\ Room(n, t)
    /\ wire' = [wire EXCEPT ![n] = Tail(@)]
    /\ IF Rapid THEN UNCHANGED <<tiphash, asks, crossed>> ELSE UpdateTip(n, t)
    /\ age' = AgeAfter
    /\ timer' = TimerAfter(n, t)
    /\ known' = Remember(t)
    /\ zmqEvents' = [zmqEvents EXCEPT ![t] = @ + EventsFor(n, t)]
    /\ latest' = t
    /\ overtaken' = (~Rapid /\ handlers[n] = 1 /\ timer.armed /\ timer.tip # t)
    /\ Followed(TRUE)
    /\ UNCHANGED <<nodeTip, boot, init, pollVars, height, stopping>>

\* The timer runs _updateTip with the block it was armed with; it does not
\* touch lastTip.
TimerFires ==
    /\ timer.armed /\ timer.left = 0
    /\ Room(timer.node, timer.tip)
    /\ UpdateTip(timer.node, timer.tip)
    /\ timer' = NoTimer
    /\ UNCHANGED <<nodeTip, zmqVars, boot, init, pollVars, age, latest,
                   overtaken, height, stopping>>
    /\ Followed(FALSE)

-----------------------------------------------------------------------------
(* Start-up: _loadTipFromNode under async.retry, then _initChain. *)

BootBest(n) ==
    /\ boot[n].phase = "best" /\ ~stopping
    /\ boot' = [boot EXCEPT ![n] = Request("block", nodeTip[n])]
    /\ crossed' = TRUE
    /\ UNCHANGED <<nodeTip, zmqVars, init, pollVars, clockVars, tipVars,
                   height, stopping>>

\* The height is loaded and 'tip' emitted; a process the service connects to
\* gets its ZMQ listener, a spawned one its first poll.
BootBlock(n) ==
    /\ boot[n].phase = "block"
    /\ boot' = [boot EXCEPT ![n] = Request("up", 1)]
    /\ height' = HeightOf[boot[n].tip]
    /\ IF n \in Spawned
       THEN /\ polls' = [polls EXCEPT ![n][1] = [stage |-> "best", from |-> nodeTip[n]]]
            /\ UNCHANGED handlers
       ELSE /\ handlers' = [handlers EXCEPT ![n] = @ + 1]
            /\ UNCHANGED polls
    /\ UNCHANGED <<nodeTip, zmqVars, init, interval, clockVars,
                   tipVars, stopping, crossed>>

BootError(n) ==
    /\ boot[n].phase = "block"
    /\ boot' = [boot EXCEPT ![n] = Request("best", 1)]
    /\ UNCHANGED <<nodeTip, zmqVars, init, pollVars, clockVars, tipVars,
                   height, stopping, crossed>>

\* _initChain runs once every process is up, while announcements come in.
InitBest(n) ==
    /\ \A m \in Nodes : boot[m].phase = "up"
    /\ init.phase = "best"
    /\ init' = Request("block", nodeTip[n])
    /\ crossed' = TRUE
    /\ UNCHANGED <<nodeTip, zmqVars, boot, pollVars, clockVars, tipVars,
                   height, stopping>>

InitBlock ==
    /\ init.phase = "block"
    /\ init' = Request("done", 1)
    /\ height' = HeightOf[init.tip]
    /\ UNCHANGED <<nodeTip, zmqVars, boot, pollVars, clockVars, tipVars,
                   stopping, crossed>>

-----------------------------------------------------------------------------
(* _checkSyncedAndSubscribeZmqEvents: the polls of a spawned process. *)

\* The interval starts another check, whether or not the last one is done.
PollStarts(n, i) ==
    /\ interval[n] = "running" /\ ~stopping
    /\ polls[n][i].stage = "idle"
    /\ polls' = [polls EXCEPT ![n][i] = [stage |-> "best", from |-> nodeTip[n]]]
    /\ UNCHANGED <<nodeTip, zmqVars, boot, init, interval, handlers, clockVars, tipVars, height, stopping, crossed>>

\* The first check to end without success starts the interval.
EndOfCheck(n, i) ==
    /\ polls' = [polls EXCEPT ![n][i] = NoPoll]
    /\ interval' = IF interval[n] = "unset"
                   THEN [interval EXCEPT ![n] = "running"] ELSE interval
    /\ UNCHANGED handlers

\* The best block arrives (as it was at some moment since the request): a
\* 'block' event without a look at zmqKnownBlocks, and an immediate update.
PollBest(n, i) ==
    \E t \in polls[n][i].from .. nodeTip[n] :
        /\ polls[n][i].stage = "best"
        /\ Room(n, t)
        /\ polls' = [polls EXCEPT ![n][i].stage = "info"]
        /\ UpdateTip(n, t)
        /\ latest' = t
        /\ overtaken' = (timer.armed /\ timer.tip # t)
        /\ Followed(TRUE)
        /\ UNCHANGED <<nodeTip, zmqVars, boot, init, interval, handlers, age, timer,
                       height, stopping>>

\* getBlockchainInfo says synced: listen to ZMQ and clear the interval.
PollSynced(n, i) ==
    /\ polls[n][i].stage = "info"
    /\ polls' = [polls EXCEPT ![n][i] = NoPoll]
    /\ interval' = [interval EXCEPT ![n] = "cleared"]
    /\ handlers' = [handlers EXCEPT ![n] = @ + 1]
    /\ UNCHANGED <<nodeTip, zmqVars, boot, init, clockVars,
                   tipVars, height, stopping, crossed>>

PollNotSynced(n, i) ==
    /\ polls[n][i].stage = "info"
    /\ EndOfCheck(n, i)
    /\ UNCHANGED <<nodeTip, zmqVars, boot, init, clockVars,
                   tipVars, height, stopping, crossed>>

PollError(n, i) ==
    /\ polls[n][i].stage = "best"
    /\ EndOfCheck(n, i)
    /\ UNCHANGED <<nodeTip, zmqVars, boot, init, clockVars,
                   tipVars, height, stopping, crossed>>

\* Node.stop: the next run of the interval clears it.
Stop ==
    /\ ~stopping
    /\ stopping' = TRUE
    /\ interval' = [n \in Nodes |-> IF interval[n] = "running" THEN "cleared"
                                                               ELSE interval[n]]
    /\ UNCHANGED <<nodeTip, zmqVars, boot, init, polls, handlers, clockVars, tipVars, height, crossed>>

-----------------------------------------------------------------------------
Poll(n, i) ==
    \/ PollStarts(n, i) \/ PollBest(n, i) \/ PollError(n, i)
    \/ PollSynced(n, i) \/ PollNotSynced(n, i)

TipNext ==
    \/ Tick \/ TimerFires \/ InitBlock \/ Stop
    \/ \E n \in Nodes :
         \/ NodeAdvances(n) \/ MessageLost(n) \/ ReceiveBlock(n)
         \/ BootBest(n) \/ BootBlock(n) \/ BootError(n) \/ InitBest(n)
         \/ \E t \in Tips : AnswerHeight(n, t) \/ AnswerError(n, t)
         \/ \E i \in 1..MaxPolls : Poll(n, i)

TipSpec == TipInit /\ [][TipNext]_trackingVars

-----------------------------------------------------------------------------
(* Properties. *)

\* While no announced block can have been evicted from zmqKnownBlocks, the ZMQ
\* handler emits 'block' at most once for a block, whichever processes announce
\* it and however many listeners a process got (_zmqBlockHandler).
BlockEventOnce == MaxTip <= KnownSize => \A t \in Tips : zmqEvents[t] <= 1

\* When no delayed update is pending, tiphash is the last hash the service was
\* told of, unless that one was applied at once under a timer still armed with
\* an earlier one (_rapidProtectedUpdateTip): no other order of announcements,
\* polls and timers settles on a stale tip.
TipSettled == ~timer.armed /\ ~overtaken => tiphash = latest

\* The inductive form of TipSettled: the pending update, or else the tip itself,
\* is the last hash the service was told of.
TipInv == ~overtaken => IF timer.armed THEN timer.tip = latest ELSE tiphash = latest

\* When every request for a block has been answered, the height is that of
\* tiphash, unless the update was issued while another answer that sets the
\* height was on its way, or its own request failed (_updateTip, _initChain).
HeightSettled == HeightQuiet /\ ~crossed /\ tiphash # 0 => height = HeightOf[tiphash]

\* The inductive form of HeightSettled: only requests for tiphash are in flight,
\* and the height is right once none is.
HeightInv ==
    ~crossed =>
        /\ init.phase # "block"
        /\ \A n \in Nodes : boot[n].phase # "block"
        /\ \A n \in Nodes, t \in Tips : asks[n][t] > 0 => t = tiphash
        /\ NoAsks /\ tiphash # 0 => height = HeightOf[tiphash]

\* However steadily announcements come, and whichever processes make them: within
\* MaxDelay of being told a hash, the tip is set to it or to one told after it, every
\* re-arming of the timer included (_rapidProtectedUpdateTip).  The one told after it
\* may be an older block, of a process that lags; and an overtaken timer may set the
\* tip back later (TipSettled).
FollowedInTime == unfollowed <= MaxDelay + 1

\* The inductive form of FollowedInTime: while the tip is behind, a timer is armed
\* with the last hash told, and has begun its last run before lastTip was a second
\* ago, or else the announcement would have been applied at once.
DelayInv ==
    unfollowed > 0 =>
        /\ timer.armed /\ timer.tip = latest
        /\ unfollowed - 1 + timer.left <= MaxDelay
        /\ age <= RapidInterval => unfollowed - 1 <= age
=============================================================================
