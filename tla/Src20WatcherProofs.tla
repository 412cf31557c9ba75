------------------------- MODULE Src20WatcherProofs -------------------------
(***************************************************************************)
(* That the watcher records every transfer and keeps balances and supplies *)
(* that are the node's, whatever fails and is repeated meanwhile, for every *)
(* chain, any number of contracts and holders.                             *)
(*                                                                         *)
(* The argument is of what is settled: a piece of work in a block that the *)
(* checkpoint has passed, or done in the block under way.  Failures and    *)
(* crashes make less of it settled, never more; every row is of a height   *)
(* such that no later event about it is settled.                           *)
(***************************************************************************)
EXTENDS Src20Watcher, TLAPS

\* The steps of the work on one transaction, and of the work on one piece of it.
Begun   == {"created", "creator", "balance", "contract", "supply", "total", "transfer",
            "from", "to", "writefrom", "writeto"}
Working == Begun \cup {"work"}

Typed ==
    /\ best \in Heights /\ stored \in Nat /\ lastCheckedBlock \in Nat /\ cursor \in Nat
    /\ step \in Steps /\ tx \in Nat
    /\ contracts \subseteq Contracts /\ DOMAIN supplies = Contracts
    /\ DOMAIN balances = Contracts
    /\ \A c \in Contracts : DOMAIN balances[c] = Holders \cup {Nobody}
    /\ DOMAIN held = {"supply", "from", "to"}

\* The block being processed is the one after the last one checked, and the checkpoint is
\* at most one ahead of memory.
LoopOK ==
    /\ phase # "up" => step = "idle"
    /\ phase \in {"load", "info", "up"} => UpdateFrom <= stored
    /\ phase \in {"info", "up"} =>
          UpdateFrom <= lastCheckedBlock /\ lastCheckedBlock <= stored
          /\ stored <= lastCheckedBlock + 1
    /\ stored <= best \/ stored <= UpdateFrom
    /\ step # "idle" => cursor = lastCheckedBlock + 1
    /\ step \notin {"idle", "block"} => cursor <= best

\* Work p for transaction t of block h is done, in the pass over the block that is under
\* way or in one that went through.
Passed(h, t, p) ==
    /\ step \notin {"idle", "block"} /\ h = cursor
    /\ t < tx \/ (t = tx /\ step \notin {"transaction", "receipt"} /\ p \notin todo)
Settled(h, t, p) == h <= stored \/ Passed(h, t, p)

CreateDone(n) == Settled(n.height, n.tx, CreatePlace(n))
EventDone(e)  == Settled(e.height, e.tx, EventPlace(e))
SupplyDone(e) == Settled(e.height, e.tx, SupplyPlace(e.at, e.event.contract))

Kept(T, e) == \E f \in T : KeyOf(f) = KeyOf(e)

\* A value that is of the block being processed or a later one.
NowBalance(v, c, a) == \E h \in cursor..best : v = BalanceAt(c, a, h)
MadeBy(c, h) == \A n \in Creates : n.create.contract = c => n.height <= h
NowSupply(v, c) == \E h \in cursor..best : v = SupplyAt(c, h) /\ MadeBy(c, h)

\* A value that is of a height such that nothing later that changes it is settled.
Touches(e, a) == a \in {e.event.from, e.event.to}
FreshBalance(C, v, c, a) ==
    \E h \in 0..best :
        /\ v = BalanceAt(c, a, h)
        /\ \A e \in Logged(c, best) :
              Touches(e, a) /\ e.height > h /\ ~LeftAlone(e) => ~EventDone(e)
        /\ \A n \in Creates : n.create.contract = c /\ n.create.born /\ n.create.creator = a
                              /\ c \in C => n.height <= h
FreshSupply(v, c) ==
    \E h \in 0..best :
        /\ v = SupplyAt(c, h) /\ MadeBy(c, h)
        /\ \A e \in Logged(c, best) :
              e.height > h /\ e.at \in Calls(e.height, e.tx) => ~SupplyDone(e)

\* The rows, for the work that is settled.
KnownOK(C) ==
    \A n \in Creates : UpdateFrom < n.height /\ CreateDone(n) => n.create.contract \in C
CameOK(C) ==
    \A c \in C : \E n \in Creates : /\ n.create.contract = c
                                    /\ UpdateFrom < n.height /\ n.height <= best
TransfersOK(T) ==
    \A e \in Events : e.event.contract \in Ours /\ ~LeftAlone(e) /\ EventDone(e) => Kept(T, e)
BalancesOK(C, B) == \A c \in Ours, a \in Holders : FreshBalance(C, B[c][a], c, a)
SuppliesOK(C, S, M) == \A c \in C \ M : FreshSupply(S[c], c)
RowsOK(C, S, T, B, M) ==
    /\ KnownOK(C) /\ CameOK(C) /\ TransfersOK(T) /\ BalancesOK(C, B) /\ SuppliesOK(C, S, M)

RowInv == RowsOK(contracts, supplies, transfers, balances, missed)

\* The work left is of the transaction under way.
WorkInv ==
    /\ step \in Working \cup {"transaction", "receipt"} => tx \in DOMAIN TxsOf[cursor]
    /\ step = "save" => Len(TxsOf[cursor]) < tx
    /\ step \in Working => todo \subseteq WorkOf(cursor, tx)
    /\ step \in Begun => item \in todo

\* What is begun, and what is known of it then.
ItemInv ==
    /\ step \in {"created", "creator", "balance", "contract"} => item.kind = "create"
    /\ step \in {"created", "creator", "balance"} => Created(item).born
    /\ step \in {"supply", "total"} => item.kind = "supply" /\ Known(item.contract)
    /\ step \in {"transfer", "from", "to", "writefrom", "writeto"} =>
          item.kind = "event" /\ Known(item.contract)
    /\ step \in {"from", "to", "writefrom", "writeto"} => Kept(transfers, TransferOf(item))

\* The answers that wait, and those just written.
HeldInv ==
    /\ step = "work" => held = NoAnswers
    /\ step \in {"creator", "balance", "contract", "total"} =>
          NowSupply(held.supply, item.contract)
    /\ step = "balance" => NowBalance(held.to, item.contract, Created(item).creator)
    /\ step = "contract" /\ Created(item).born =>
          NowBalance(balances[item.contract][Created(item).creator], item.contract,
                     Created(item).creator)
    /\ step \in {"to", "writefrom"} =>
          NowBalance(held.from, item.contract, Event(item).from)
    /\ step \in {"writefrom", "writeto"} =>
          NowBalance(held.to, item.contract, Event(item).to)
    /\ step = "writeto" =>
          NowBalance(balances[item.contract][Event(item).from], item.contract,
                     Event(item).from)

IInv == Typed /\ LoopOK /\ WorkInv /\ ItemInv /\ HeldInv /\ RowInv

-----------------------------------------------------------------------------
(* The chain. *)

LEMMA ChainTypes ==
    ASSUME NEW h \in Heights
    PROVE  /\ TxsOf[h] \in Seq(Txs)
           /\ \A t \in DOMAIN TxsOf[h] : /\ TxsOf[h][t].creates \in Seq(Create)
                                         /\ TxsOf[h][t].receipt \in Seq(Receipt)
<1>1. TxsOf[h] \in Seq(Txs)
  BY ChainAssumption
<1>2. ASSUME NEW t \in DOMAIN TxsOf[h] PROVE TxsOf[h][t] \in Txs
  BY <1>1
<1> QED
  BY <1>1, <1>2 DEF Txs

LEMMA EventFacts ==
    ASSUME NEW e \in Events
    PROVE  /\ e.height \in Heights /\ e.tx \in DOMAIN TxsOf[e.height]
           /\ e.at \in DOMAIN TxsOf[e.height][e.tx].receipt
           /\ e.idx \in DOMAIN TxsOf[e.height][e.tx].receipt[e.at].log
           /\ e.event = TxsOf[e.height][e.tx].receipt[e.at].log[e.idx]
           /\ e \in EventsOf(e.height, e.tx)
           /\ e = [event |-> e.event, height |-> e.height, tx |-> e.tx, at |-> e.at,
                   idx |-> e.idx]
           /\ e.event \in Transfer
<1>1. PICK h \in Heights : e \in UNION {EventsOf(h, t) : t \in DOMAIN TxsOf[h]}
  BY DEF Events
<1>2. PICK t \in DOMAIN TxsOf[h] : e \in EventsOf(h, t)
  BY <1>1
<1>3. PICK i \in DOMAIN TxsOf[h][t].receipt : e \in LogOf(h, t, i)
  BY <1>2 DEF EventsOf
<1>4. PICK j \in DOMAIN TxsOf[h][t].receipt[i].log :
        e = [event |-> TxsOf[h][t].receipt[i].log[j], height |-> h, tx |-> t, at |-> i, idx |-> j]
  BY <1>3 DEF LogOf
<1>5. /\ e.height = h /\ e.tx = t /\ e.at = i /\ e.idx = j
      /\ e.event = TxsOf[h][t].receipt[i].log[j]
  BY <1>4
<1>6. TxsOf[h][t].receipt[i].log \in Seq(Transfer)
  <2>1. TxsOf[h][t].receipt[i] \in Receipt
    BY ChainTypes
  <2> QED
    BY <2>1 DEF Receipt
<1>7. e.event \in Transfer
  BY <1>5, <1>6
<1> QED
  BY <1>2, <1>4, <1>5, <1>7

LEMMA EventThere ==
    ASSUME NEW h \in Heights, NEW t \in DOMAIN TxsOf[h], NEW e \in EventsOf(h, t)
    PROVE  e \in Events /\ e.height = h /\ e.tx = t
BY DEF Events, EventsOf, LogOf

LEMMA CreateFacts ==
    ASSUME NEW n \in Creates
    PROVE  /\ n.height \in Heights /\ n.tx \in DOMAIN TxsOf[n.height]
           /\ n.at \in DOMAIN TxsOf[n.height][n.tx].creates
           /\ n.create = TxsOf[n.height][n.tx].creates[n.at]
           /\ n \in CreatesOf(n.height, n.tx)
           /\ n = [create |-> n.create, height |-> n.height, tx |-> n.tx, at |-> n.at]
           /\ n.create \in Create
<1>1. PICK h \in Heights : n \in UNION {CreatesOf(h, t) : t \in DOMAIN TxsOf[h]}
  BY DEF Creates
<1>2. PICK t \in DOMAIN TxsOf[h] : n \in CreatesOf(h, t)
  BY <1>1
<1>3. PICK i \in DOMAIN TxsOf[h][t].creates :
        n = [create |-> TxsOf[h][t].creates[i], height |-> h, tx |-> t, at |-> i]
  BY <1>2 DEF CreatesOf
<1>4. n.height = h /\ n.tx = t /\ n.at = i /\ n.create = TxsOf[h][t].creates[i]
  BY <1>3
<1>5. n.create \in Create
  BY <1>4, ChainTypes
<1> QED
  BY <1>2, <1>3, <1>4, <1>5

LEMMA CreateThere ==
    ASSUME NEW h \in Heights, NEW t \in DOMAIN TxsOf[h], NEW n \in CreatesOf(h, t)
    PROVE  n \in Creates /\ n.height = h /\ n.tx = t
BY DEF Creates, CreatesOf

\* Heights are numbers, those of events and of creations too.
LEMMA HeightsAreNumbers == \A h \in Heights : h \in Nat /\ 1 <= h
<1>1. MaxHeight \in Nat
  BY LoopAssumption
<1> QED
  BY <1>1 DEF Heights

LEMMA EventHeights == \A e \in Events : e.height \in Nat /\ 1 <= e.height
<1> SUFFICES ASSUME NEW e \in Events PROVE e.height \in Nat /\ 1 <= e.height
  OBVIOUS
<1>1. e.height \in Heights
  BY EventFacts
<1> QED
  BY <1>1, HeightsAreNumbers

LEMMA CreateHeights == \A n \in Creates : n.height \in Nat /\ 1 <= n.height
<1> SUFFICES ASSUME NEW n \in Creates PROVE n.height \in Nat /\ 1 <= n.height
  OBVIOUS
<1>1. n.height \in Heights
  BY CreateFacts
<1> QED
  BY <1>1, HeightsAreNumbers

\* The pieces of work and what they are of.
LEMMA Pieces ==
    ASSUME NEW h \in Heights, NEW t \in DOMAIN TxsOf[h], NEW p \in WorkOf(h, t)
    PROVE  /\ p.kind \in {"create", "supply", "event"} /\ p # NoPlace
           /\ p.kind = "create" => \E n \in Creates : n.height = h /\ n.tx = t /\ p = CreatePlace(n)
           /\ p.kind = "event" => \E e \in Events : e.height = h /\ e.tx = t /\ p = EventPlace(e)
           /\ p.kind = "supply" => p = SupplyPlace(p.at, p.contract)
           /\ p.kind # "create" => Calls(h, t) # {}
<1>1. CASE p \in CreateWork(h, t)
  <2>1. PICK n \in CreatesOf(h, t) : p = CreatePlace(n)
    BY <1>1 DEF CreateWork
  <2>2. n \in Creates /\ n.height = h /\ n.tx = t
    BY <2>1, CreateThere
  <2>3. p.kind = "create" /\ p # NoPlace
    BY <2>1 DEF CreatePlace, NoPlace
  <2> QED
    BY <2>1, <2>2, <2>3
<1>2. CASE Calls(h, t) # {} /\ p \in SupplyWork(h, t)
  <2>1. PICK i \in Calls(h, t) :
          p \in {SupplyPlace(i, c) : c \in Concerned(TxsOf[h][t].receipt[i])}
    BY <1>2 DEF SupplyWork
  <2>2. PICK c \in Concerned(TxsOf[h][t].receipt[i]) : p = SupplyPlace(i, c)
    BY <2>1
  <2>3. p.kind = "supply" /\ p # NoPlace /\ p = SupplyPlace(p.at, p.contract)
    BY <2>2 DEF SupplyPlace, NoPlace
  <2> QED
    BY <1>2, <2>3
<1>3. CASE Calls(h, t) # {} /\ p \in EventWork(h, t)
  <2>1. PICK e \in EventsOf(h, t) : p = EventPlace(e)
    BY <1>3 DEF EventWork
  <2>2. e \in Events /\ e.height = h /\ e.tx = t
    BY <2>1, EventThere
  <2>3. p.kind = "event" /\ p # NoPlace
    BY <2>1 DEF EventPlace, NoPlace
  <2> QED
    BY <1>3, <2>1, <2>2, <2>3
<1> QED
  BY <1>1, <1>2, <1>3 DEF WorkOf

LEMMA CreateIsWork ==
    ASSUME NEW n \in Creates
    PROVE  CreatePlace(n) \in WorkOf(n.height, n.tx)
BY CreateFacts DEF WorkOf, CreateWork

LEMMA EventIsWork ==
    ASSUME NEW e \in Events, ~LeftAlone(e)
    PROVE  EventPlace(e) \in WorkOf(e.height, e.tx)
BY EventFacts DEF WorkOf, EventWork, LeftAlone

LEMMA SupplyIsWork ==
    ASSUME NEW e \in Events, e.at \in Calls(e.height, e.tx)
    PROVE  SupplyPlace(e.at, e.event.contract) \in WorkOf(e.height, e.tx)
<1>1. e.event.contract \in Concerned(TxsOf[e.height][e.tx].receipt[e.at])
  <2>1. /\ e.idx \in DOMAIN TxsOf[e.height][e.tx].receipt[e.at].log
        /\ e.event = TxsOf[e.height][e.tx].receipt[e.at].log[e.idx]
    BY EventFacts
  <2>2. TxsOf[e.height][e.tx].receipt[e.at].log # <<>>
    <3>1. DOMAIN <<>> = {}
      OBVIOUS
    <3> QED
      BY <2>1, <3>1
  <2> QED
    BY <2>1, <2>2 DEF Concerned
<1>2. SupplyPlace(e.at, e.event.contract) \in SupplyWork(e.height, e.tx)
  BY <1>1 DEF SupplyWork
<1>3. Calls(e.height, e.tx) # {}
  OBVIOUS
<1> QED
  BY <1>2, <1>3 DEF WorkOf

\* The event of a piece of work, and the contract that one makes.
LEMMA ItsEvent ==
    ASSUME NEW p, p.kind = "event", cursor \in Heights, tx \in DOMAIN TxsOf[cursor],
           p \in WorkOf(cursor, tx)
    PROVE  /\ TransferOf(p) \in Events /\ TransferOf(p).event = Event(p)
           /\ TransferOf(p).height = cursor /\ TransferOf(p).tx = tx
           /\ Event(p).contract = p.contract /\ ~LeftAlone(TransferOf(p))
           /\ Event(p) \in Transfer
           /\ \A e \in Events : e.height = cursor /\ e.tx = tx /\ EventPlace(e) = p
                                   => e = TransferOf(p)
<1>1. PICK e \in Events : e.height = cursor /\ e.tx = tx /\ p = EventPlace(e)
  BY Pieces
<1>2. ASSUME NEW f \in Events, f.height = cursor, f.tx = tx, EventPlace(f) = p
      PROVE  f = TransferOf(p)
  <2>1. f.at = p.at /\ f.idx = p.idx
    BY <1>2 DEF EventPlace
  <2>2. f.event = TxsOf[f.height][f.tx].receipt[f.at].log[f.idx]
    BY EventFacts
  <2>3. f.event = Event(p)
    BY <1>2, <2>1, <2>2 DEF Event
  <2>4. f = [event |-> f.event, height |-> f.height, tx |-> f.tx, at |-> f.at, idx |-> f.idx]
    BY EventFacts
  <2> QED
    BY <1>2, <2>1, <2>3, <2>4 DEF TransferOf
<1>3. e = TransferOf(p)
  BY <1>1, <1>2
<1>4. TransferOf(p).event = Event(p)
  BY DEF TransferOf
<1>5. e.event.contract = p.contract
  BY <1>1 DEF EventPlace
<1>6. Calls(cursor, tx) # {}
  BY Pieces
<1> QED
  BY <1>1, <1>2, <1>3, <1>4, <1>5, <1>6, EventFacts DEF LeftAlone

LEMMA ItsCreate ==
    ASSUME NEW p, p.kind = "create", cursor \in Heights, tx \in DOMAIN TxsOf[cursor],
           p \in WorkOf(cursor, tx)
    PROVE  \E n \in Creates : /\ n.height = cursor /\ n.tx = tx /\ p = CreatePlace(n)
                              /\ n.create = Created(p) /\ n.create.contract = p.contract
<1>1. PICK n \in Creates : n.height = cursor /\ n.tx = tx /\ p = CreatePlace(n)
  BY Pieces
<1>2. n.at = p.at /\ n.create.contract = p.contract
  BY <1>1 DEF CreatePlace
<1>3. n.create = Created(p)
  BY <1>1, <1>2, CreateFacts DEF Created
<1> QED
  BY <1>1, <1>2, <1>3

-----------------------------------------------------------------------------
(* Balances and supplies at two heights. *)

LEMMA BalanceStays ==
    ASSUME NEW c, NEW a, NEW h \in Nat, NEW k \in Nat, h <= k,
           \A e \in Logged(c, k) : Touches(e, a) => e.height <= h,
           \A n \in Born(c, k) : n.create.creator = a => n.height <= h
    PROVE  BalanceAt(c, a, h) = BalanceAt(c, a, k)
<1>1. \A e \in Events : e.height \in Nat
  BY EventHeights
<1>2. \A n \in Creates : n.height \in Nat
  BY CreateHeights
<1>3. {n \in Born(c, h) : n.create.creator = a} = {n \in Born(c, k) : n.create.creator = a}
  BY <1>2 DEF Born
<1>4. {e \in Logged(c, h) : e.event.to = a} = {e \in Logged(c, k) : e.event.to = a}
  BY <1>1 DEF Logged, Touches
<1>5. {e \in Logged(c, h) : e.event.from = a} = {e \in Logged(c, k) : e.event.from = a}
  BY <1>1 DEF Logged, Touches
<1> QED
  BY <1>3, <1>4, <1>5 DEF BalanceAt

LEMMA SupplyStays ==
    ASSUME NEW c, NEW h \in Nat, NEW k \in Nat, h <= k,
           \A e \in Logged(c, k) : e.height <= h,
           \A n \in Born(c, k) : n.height <= h
    PROVE  SupplyAt(c, h) = SupplyAt(c, k)
<1>1. \A n \in Creates : n.height \in Nat
  BY CreateHeights
<1>2. Born(c, h) = Born(c, k)
  BY <1>1 DEF Born
<1>3. \A a \in Holders : BalanceAt(c, a, h) = BalanceAt(c, a, k)
  BY BalanceStays
<1>4. [a \in Holders |-> BalanceAt(c, a, h)] = [a \in Holders |-> BalanceAt(c, a, k)]
  BY <1>3
<1> QED
  BY <1>2, <1>4 DEF SupplyAt

\* Nothing adds up to nothing.
LEMMA NothingGiven == Given({}) = 0
<1> DEFINE Sums == [s \in SUBSET {} |-> 0]
<1>1. SUBSET {} = {{}}
  OBVIOUS
<1> DEFINE Iter(g) == g = [s \in SUBSET {} |->
                             IF s = {} THEN 0
                             ELSE LET x == CHOOSE x \in s : TRUE IN x.create.supply + g[s \ {x}]]
           it == CHOOSE g : Iter(g)
<1>2. \A g : Iter(g) <=> g = Sums
  OBVIOUS
<1>3. Sums[{}] = 0
  BY <1>1
<1>4. Given({}) = it[{}]
  BY Zenon DEF Given, MapThenSumSet, MapThenFoldSet
<1>5. it = Sums
  <2>1. Iter(Sums)
    BY <1>2, Zenon
  <2> HIDE DEF Iter, Sums
  <2>2. Iter(it)
    BY <2>1, Zenon
  <2> QED
    BY <1>2, <2>2, Zenon
<1> QED
  BY <1>3, <1>4, <1>5, Zenon

LEMMA NothingMoved == Amount({}) = 0
<1> DEFINE Sums == [s \in SUBSET {} |-> 0]
<1>1. SUBSET {} = {{}}
  OBVIOUS
<1> DEFINE Iter(g) == g = [s \in SUBSET {} |->
                             IF s = {} THEN 0
                             ELSE LET x == CHOOSE x \in s : TRUE IN x.event.value + g[s \ {x}]]
           it == CHOOSE g : Iter(g)
<1>2. \A g : Iter(g) <=> g = Sums
  OBVIOUS
<1>3. Sums[{}] = 0
  BY <1>1
<1>4. Amount({}) = it[{}]
  BY Zenon DEF Amount, MapThenSumSet, MapThenFoldSet
<1>5. it = Sums
  <2>1. Iter(Sums)
    BY <1>2, Zenon
  <2> HIDE DEF Iter, Sums
  <2>2. Iter(it)
    BY <2>1, Zenon
  <2> QED
    BY <1>2, <2>2, Zenon
<1> QED
  BY <1>3, <1>4, <1>5, Zenon

LEMMA AtFirst ==
    ASSUME NEW c, NEW a
    PROVE  BalanceAt(c, a, 0) = 0
<1>1. Born(c, 0) = {} /\ Logged(c, 0) = {}
  BY EventHeights, CreateHeights DEF Born, Logged
<1>2. {n \in Born(c, 0) : n.create.creator = a} = {}
  BY <1>1
<1>3. {e \in Logged(c, 0) : e.event.to = a} = {} /\ {e \in Logged(c, 0) : e.event.from = a} = {}
  BY <1>1
<1>4. Given({n \in Born(c, 0) : n.create.creator = a}) = 0
  BY <1>2, NothingGiven
<1>5. /\ Amount({e \in Logged(c, 0) : e.event.to = a}) = 0
      /\ Amount({e \in Logged(c, 0) : e.event.from = a}) = 0
  BY <1>3, NothingMoved
<1>6. 0 + 0 - 0 = 0
  OBVIOUS
<1> QED
  BY <1>4, <1>5, <1>6 DEF BalanceAt

\* A contract that is not born has no supply.
LEMMA NotBorn ==
    ASSUME NEW n \in Creates, ~n.create.born, NEW h
    PROVE  SupplyAt(n.create.contract, h) = 0
<1>1. Born(n.create.contract, h) = {}
  BY ChainAssumption DEF Born
<1> QED
  BY <1>1 DEF SupplyAt

-----------------------------------------------------------------------------
(* What is settled. *)

\* The numbers of the loop.
LEMMA Numbers ==
    ASSUME Typed, LoopOK
    PROVE  /\ MaxHeight \in Nat /\ UpdateFrom \in Nat /\ best \in 1..MaxHeight
           /\ stored \in Nat /\ lastCheckedBlock \in Nat /\ cursor \in Nat
           /\ step # "idle" => /\ phase = "up" /\ cursor = lastCheckedBlock + 1
                               /\ UpdateFrom < cursor /\ stored <= cursor
                               /\ cursor - 1 <= stored
           /\ step \notin {"idle", "block"} => cursor \in Heights /\ cursor <= best
<1>1. MaxHeight \in Nat \ {0} /\ UpdateFrom \in 0..MaxHeight
  BY LoopAssumption, ChainAssumption
<1>2. best \in 1..MaxHeight /\ stored \in Nat /\ lastCheckedBlock \in Nat /\ cursor \in Nat
  BY <1>1 DEF Typed, Heights
<1>3. ASSUME step # "idle"
      PROVE  /\ phase = "up" /\ cursor = lastCheckedBlock + 1
             /\ UpdateFrom < cursor /\ stored <= cursor /\ cursor - 1 <= stored
  <2>1. phase = "up" /\ cursor = lastCheckedBlock + 1
    BY <1>3 DEF LoopOK
  <2>2. /\ UpdateFrom <= lastCheckedBlock /\ lastCheckedBlock <= stored
        /\ stored <= lastCheckedBlock + 1
    BY <2>1 DEF LoopOK
  <2> QED
    BY <1>1, <1>2, <2>1, <2>2
<1>4. ASSUME step \notin {"idle", "block"}
      PROVE  cursor \in Heights /\ cursor <= best
  <2>1. cursor <= best
    BY <1>4 DEF LoopOK
  <2>2. UpdateFrom < cursor
    BY <1>3, <1>4
  <2> QED
    BY <1>1, <1>2, <2>1, <2>2 DEF Heights
<1> QED
  BY <1>1, <1>2, <1>3, <1>4

\* Nothing above the best block is settled but what the watcher does not look at, and
\* nothing above the block under way.
LEMMA SettledIsBelow ==
    ASSUME Typed, LoopOK, NEW h \in Heights, NEW t, NEW p, Settled(h, t, p)
    PROVE  /\ UpdateFrom < h => h <= best
           /\ step # "idle" => h <= cursor
<1>1. h \in Nat
  BY LoopAssumption DEF Heights
<1>2. CASE h <= stored
  <2>1. stored <= best \/ stored <= UpdateFrom
    BY DEF LoopOK
  <2> QED
    BY <1>1, <1>2, <2>1, Numbers
<1>3. CASE Passed(h, t, p)
  <2>1. h = cursor /\ step \notin {"idle", "block"}
    BY <1>3 DEF Passed
  <2> QED
    BY <2>1, Numbers
<1> QED
  BY <1>2, <1>3 DEF Settled

\* An event of a contract of ours is above where the watcher began.
LEMMA OursIsAbove ==
    ASSUME NEW e \in Events, e.event.contract \in Ours
    PROVE  UpdateFrom < e.height
<1>1. PICK n \in Creates : n.height > UpdateFrom /\ n.create.contract = e.event.contract
  BY DEF Ours
<1>2. n.height <= e.height
  <2>1. n.height \in Nat /\ e.height \in Nat
    BY EventHeights, CreateHeights
  <2>2. n.height < e.height \/ n.height = e.height
    BY <1>1, ChainAssumption
  <2> QED
    BY <2>1, <2>2
<1>3. n.height \in Nat /\ e.height \in Nat
  BY EventHeights, CreateHeights
<1>4. UpdateFrom \in Nat
  BY ChainAssumption, LoopAssumption
<1> QED
  BY <1>1, <1>2, <1>3, <1>4

-----------------------------------------------------------------------------
(* Going on: p, if it is a piece of work, is settled, and nothing else that *)
(* is the watcher's to do.                                                  *)

Gains(p) ==
    \A h \in Heights : \A t \in DOMAIN TxsOf[h] : \A q \in WorkOf(h, t) :
        UpdateFrom < h /\ Settled(h, t, q)' => Settled(h, t, q) \/ (h = cursor /\ t = tx /\ q = p)

\* The rows are right for p.
Served(p, C, S, T, B, M) ==
    /\ cursor \in Heights /\ tx \in DOMAIN TxsOf[cursor] /\ p \in WorkOf(cursor, tx)
    /\ step \notin {"idle", "block"}
    /\ p.kind = "create" => p.contract \in C
    /\ p.kind = "event" /\ p.contract \in Ours =>
          /\ Kept(T, TransferOf(p))
          /\ \A a \in Holders : Touches(TransferOf(p), a)
                                    => NowBalance(B[p.contract][a], p.contract, a)
    /\ p.kind = "supply" /\ p.contract \in C \ M => NowSupply(S[p.contract], p.contract)

LEMMA GoesOn ==
    ASSUME Typed, LoopOK, Typed', LoopOK', best' \in {best, best + 1},
           NEW C, NEW S, NEW T, NEW B, NEW M, RowsOK(C, S, T, B, M),
           NEW p, Gains(p), p = NoPlace \/ (best' = best /\ Served(p, C, S, T, B, M))
    PROVE  RowsOK(C, S, T, B, M)'
<1>0. /\ best \in Nat /\ best' \in Nat /\ best <= best' /\ cursor \in Nat /\ UpdateFrom \in Nat
      /\ \A e \in Events : e.height \in Nat
      /\ \A n \in Creates : n.height \in Nat
  <2>1. best \in Nat /\ cursor \in Nat /\ UpdateFrom \in Nat
    BY Numbers
  <2>2. best' \in Nat /\ best <= best'
    BY <2>1
  <2> QED
    BY <2>1, <2>2, EventHeights, CreateHeights
<1>1. ASSUME NEW n \in Creates, UpdateFrom < n.height, CreateDone(n)'
      PROVE  CreateDone(n) \/ (p = CreatePlace(n) /\ p.kind = "create" /\ p.contract = n.create.contract)
  <2>1. Settled(n.height, n.tx, CreatePlace(n))'
    BY <1>1 DEF CreateDone
  <2>2. /\ n.height \in Heights /\ n.tx \in DOMAIN TxsOf[n.height]
        /\ CreatePlace(n) \in WorkOf(n.height, n.tx)
    BY CreateFacts, CreateIsWork
  <2>3. Settled(n.height, n.tx, CreatePlace(n)) \/ CreatePlace(n) = p
    BY <1>1, <2>1, <2>2 DEF Gains
  <2> QED
    BY <2>3 DEF CreateDone, CreatePlace
<1>2. ASSUME NEW e \in Events, e.event.contract \in Ours, ~LeftAlone(e), EventDone(e)'
      PROVE  \/ EventDone(e)
             \/ /\ p = EventPlace(e) /\ p.kind = "event" /\ p.contract = e.event.contract
                /\ e.height = cursor /\ e = TransferOf(p) /\ p # NoPlace
  <2>1. Settled(e.height, e.tx, EventPlace(e))'
    BY <1>2 DEF EventDone
  <2>2. /\ e.height \in Heights /\ e.tx \in DOMAIN TxsOf[e.height]
        /\ EventPlace(e) \in WorkOf(e.height, e.tx)
    BY <1>2, EventFacts, EventIsWork
  <2>3. Settled(e.height, e.tx, EventPlace(e))
        \/ (e.height = cursor /\ e.tx = tx /\ EventPlace(e) = p)
    BY <1>2, <2>1, <2>2, OursIsAbove DEF Gains
  <2>4. CASE Settled(e.height, e.tx, EventPlace(e))
    BY <2>4 DEF EventDone
  <2>5. CASE e.height = cursor /\ e.tx = tx /\ EventPlace(e) = p
    <3>1. p.kind = "event" /\ p.contract = e.event.contract /\ p # NoPlace
      BY <2>5 DEF EventPlace, NoPlace
    <3>2. cursor \in Heights /\ tx \in DOMAIN TxsOf[cursor] /\ p \in WorkOf(cursor, tx)
      BY <2>2, <2>5
    <3>3. e = TransferOf(p)
      BY <2>5, <3>1, <3>2, ItsEvent
    <3> QED
      BY <2>5, <3>1, <3>3
  <2> QED
    BY <2>3, <2>4, <2>5
<1>3. ASSUME NEW e \in Events, e.event.contract \in Ours, e.at \in Calls(e.height, e.tx),
             SupplyDone(e)'
      PROVE  \/ SupplyDone(e)
             \/ /\ p.kind = "supply" /\ p.contract = e.event.contract /\ e.height = cursor
                /\ p # NoPlace
  <2>1. Settled(e.height, e.tx, SupplyPlace(e.at, e.event.contract))'
    BY <1>3 DEF SupplyDone
  <2>2. /\ e.height \in Heights /\ e.tx \in DOMAIN TxsOf[e.height]
        /\ SupplyPlace(e.at, e.event.contract) \in WorkOf(e.height, e.tx)
    BY <1>3, EventFacts, SupplyIsWork
  <2>3. Settled(e.height, e.tx, SupplyPlace(e.at, e.event.contract))
        \/ (e.height = cursor /\ SupplyPlace(e.at, e.event.contract) = p)
    BY <1>3, <2>1, <2>2, OursIsAbove DEF Gains
  <2> QED
    BY <2>3 DEF SupplyDone, SupplyPlace, NoPlace
<1>4. KnownOK(C)'
  <2> SUFFICES ASSUME NEW n \in Creates, UpdateFrom < n.height, CreateDone(n)'
               PROVE  n.create.contract \in C
    BY DEF KnownOK
  <2>1. CASE CreateDone(n)
    BY <2>1 DEF RowsOK, KnownOK
  <2>2. CASE p = CreatePlace(n) /\ p.kind = "create" /\ p.contract = n.create.contract
    BY <2>2 DEF Served, NoPlace
  <2> QED
    BY <1>1, <2>1, <2>2
<1>5. CameOK(C)'
  <2> SUFFICES ASSUME NEW c \in C
               PROVE  \E n \in Creates : /\ n.create.contract = c
                                         /\ UpdateFrom < n.height /\ n.height <= best'
    BY DEF CameOK
  <2>1. PICK n \in Creates : n.create.contract = c /\ UpdateFrom < n.height /\ n.height <= best
    BY DEF RowsOK, CameOK
  <2> QED
    BY <1>0, <2>1
<1>6. TransfersOK(T)'
  <2> SUFFICES ASSUME NEW e \in Events, e.event.contract \in Ours, ~LeftAlone(e), EventDone(e)'
               PROVE  Kept(T, e)
    BY DEF TransfersOK
  <2>1. CASE EventDone(e)
    BY <2>1 DEF RowsOK, TransfersOK
  <2>2. CASE ~EventDone(e)
    BY <1>2, <2>2 DEF Served
  <2> QED
    BY <2>1, <2>2
<1>7. BalancesOK(C, B)'
  <2> SUFFICES ASSUME NEW c \in Ours, NEW a \in Holders
               PROVE  FreshBalance(C, B[c][a], c, a)'
    BY DEF BalancesOK
  <2>1. PICK h \in 0..best :
          /\ B[c][a] = BalanceAt(c, a, h)
          /\ \A e \in Logged(c, best) :
                Touches(e, a) /\ e.height > h /\ ~LeftAlone(e) => ~EventDone(e)
          /\ \A n \in Creates : n.create.contract = c /\ n.create.born /\ n.create.creator = a
                                /\ c \in C => n.height <= h
    BY DEF RowsOK, BalancesOK, FreshBalance
  <2>2. ASSUME NEW e \in Events, e.event.contract = c, EventDone(e)
        PROVE  e.height <= best /\ (step # "idle" => e.height <= cursor)
    <3>1. UpdateFrom < e.height
      BY <2>2, OursIsAbove
    <3>2. Settled(e.height, e.tx, EventPlace(e))
      BY <2>2 DEF EventDone
    <3> QED
      BY <3>1, <3>2, SettledIsBelow, EventFacts
  <2>3. CASE \E e \in Events : /\ e.event.contract = c /\ Touches(e, a) /\ ~LeftAlone(e)
                               /\ EventDone(e)' /\ ~EventDone(e)
    <3>1. PICK e \in Events : /\ e.event.contract = c /\ Touches(e, a) /\ ~LeftAlone(e)
                              /\ EventDone(e)' /\ ~EventDone(e)
      BY <2>3
    <3>2. /\ p.kind = "event" /\ p.contract = c /\ e.height = cursor /\ e = TransferOf(p)
          /\ p # NoPlace
      BY <1>2, <3>1
    <3>3. /\ NowBalance(B[c][a], c, a) /\ best' = best /\ step \notin {"idle", "block"}
      BY <3>1, <3>2 DEF Served
    <3>4. PICK k \in cursor..best : B[c][a] = BalanceAt(c, a, k)
      BY <3>3 DEF NowBalance
    <3>5. k \in 0..best' /\ k \in Nat /\ cursor <= k
      BY <1>0, <3>3, <3>4
    <3>6. ASSUME NEW f \in Logged(c, best'), Touches(f, a), f.height > k, ~LeftAlone(f),
                 EventDone(f)'
          PROVE  FALSE
      <4>1. f \in Events /\ f.event.contract = c
        BY DEF Logged
      <4>2. f.height # cursor
        BY <1>0, <3>5, <3>6, <4>1
      <4>3. EventDone(f)
        BY <1>2, <3>6, <4>1, <4>2
      <4>4. f.height <= cursor
        BY <2>2, <3>3, <4>1, <4>3
      <4> QED
        BY <1>0, <3>5, <3>6, <4>1, <4>4
    <3>7. ASSUME NEW n \in Creates, n.create.contract = c
          PROVE  n.height <= k
      <4>1. n.height < e.height \/ n.height = e.height
        BY <3>1, <3>7, ChainAssumption
      <4> QED
        BY <1>0, <3>2, <3>5, <4>1
    <3> QED
      BY <3>4, <3>5, <3>6, <3>7 DEF FreshBalance
  <2>4. CASE ~\E e \in Events : /\ e.event.contract = c /\ Touches(e, a) /\ ~LeftAlone(e)
                                /\ EventDone(e)' /\ ~EventDone(e)
    <3>1. h \in 0..best'
      BY <1>0
    <3>2. ASSUME NEW f \in Logged(c, best'), Touches(f, a), f.height > h, ~LeftAlone(f),
                 EventDone(f)'
          PROVE  FALSE
      <4>1. f \in Events /\ f.event.contract = c
        BY DEF Logged
      <4>2. EventDone(f)
        BY <2>4, <3>2, <4>1
      <4>3. f \in Logged(c, best)
        BY <2>2, <4>1, <4>2 DEF Logged
      <4> QED
        BY <2>1, <3>2, <4>2, <4>3
    <3> QED
      BY <2>1, <3>1, <3>2 DEF FreshBalance
  <2> QED
    BY <2>3, <2>4
<1>8. SuppliesOK(C, S, M)'
  <2> SUFFICES ASSUME NEW c \in C \ M
               PROVE  FreshSupply(S[c], c)'
    BY DEF SuppliesOK
  <2>0. c \in Ours
    BY <1>0 DEF RowsOK, CameOK, Ours
  <2>1. PICK h \in 0..best :
          /\ S[c] = SupplyAt(c, h) /\ MadeBy(c, h)
          /\ \A e \in Logged(c, best) :
                e.height > h /\ e.at \in Calls(e.height, e.tx) => ~SupplyDone(e)
    BY DEF RowsOK, SuppliesOK, FreshSupply
  <2>2. ASSUME NEW e \in Events, e.event.contract = c, SupplyDone(e)
        PROVE  e.height <= best /\ (step # "idle" => e.height <= cursor)
    <3>1. UpdateFrom < e.height
      BY <2>0, <2>2, OursIsAbove
    <3>2. Settled(e.height, e.tx, SupplyPlace(e.at, e.event.contract))
      BY <2>2 DEF SupplyDone
    <3> QED
      BY <3>1, <3>2, SettledIsBelow, EventFacts
  <2>3. CASE \E e \in Events : /\ e.event.contract = c /\ e.at \in Calls(e.height, e.tx)
                               /\ SupplyDone(e)' /\ ~SupplyDone(e)
    <3>1. PICK e \in Events : /\ e.event.contract = c /\ e.at \in Calls(e.height, e.tx)
                              /\ SupplyDone(e)' /\ ~SupplyDone(e)
      BY <2>3
    <3>2. p.kind = "supply" /\ p.contract = c /\ e.height = cursor /\ p # NoPlace
      BY <1>3, <2>0, <3>1
    <3>3. /\ NowSupply(S[c], c) /\ best' = best /\ step \notin {"idle", "block"}
      BY <3>2 DEF Served
    <3>4. PICK k \in cursor..best : S[c] = SupplyAt(c, k) /\ MadeBy(c, k)
      BY <3>3 DEF NowSupply
    <3>5. k \in 0..best' /\ k \in Nat /\ cursor <= k
      BY <1>0, <3>3, <3>4
    <3>6. ASSUME NEW f \in Logged(c, best'), f.height > k, f.at \in Calls(f.height, f.tx),
                 SupplyDone(f)'
          PROVE  FALSE
      <4>1. f \in Events /\ f.event.contract = c
        BY DEF Logged
      <4>2. f.height # cursor
        BY <1>0, <3>5, <3>6, <4>1
      <4>3. SupplyDone(f)
        BY <1>3, <2>0, <3>6, <4>1, <4>2
      <4>4. f.height <= cursor
        BY <2>2, <3>3, <4>1, <4>3
      <4> QED
        BY <1>0, <3>5, <3>6, <4>1, <4>4
    <3> QED
      BY <3>4, <3>5, <3>6 DEF FreshSupply
  <2>4. CASE ~\E e \in Events : /\ e.event.contract = c /\ e.at \in Calls(e.height, e.tx)
                                /\ SupplyDone(e)' /\ ~SupplyDone(e)
    <3>1. h \in 0..best'
      BY <1>0
    <3>2. ASSUME NEW f \in Logged(c, best'), f.height > h, f.at \in Calls(f.height, f.tx),
                 SupplyDone(f)'
          PROVE  FALSE
      <4>1. f \in Events /\ f.event.contract = c
        BY DEF Logged
      <4>2. SupplyDone(f)
        BY <2>4, <3>2, <4>1
      <4>3. f \in Logged(c, best)
        BY <2>2, <4>1, <4>2 DEF Logged
      <4> QED
        BY <2>1, <3>2, <4>2, <4>3
    <3> QED
      BY <2>1, <3>1, <3>2 DEF FreshSupply
  <2> QED
    BY <2>3, <2>4
<1> QED
  BY <1>4, <1>5, <1>6, <1>7, <1>8 DEF RowsOK

-----------------------------------------------------------------------------
(* The writes. *)

LEMMA AtWork ==
    ASSUME IInv, step \in Begun
    PROVE  /\ cursor \in Heights /\ cursor <= best /\ UpdateFrom < cursor
           /\ step \notin {"idle", "block"} /\ step \in Working
           /\ tx \in DOMAIN TxsOf[cursor] /\ item \in todo /\ item \in WorkOf(cursor, tx)
           /\ todo \subseteq WorkOf(cursor, tx)
<1>1. step \notin {"idle", "block"} /\ step \in Working
  BY DEF Begun, Working
<1>2. tx \in DOMAIN TxsOf[cursor] /\ item \in todo /\ todo \subseteq WorkOf(cursor, tx)
  BY <1>1 DEF IInv, WorkInv
<1> QED
  BY <1>1, <1>2, Numbers DEF IInv

\* The contract that the item makes.
LEMMA ItemCreates ==
    ASSUME IInv, step \in Begun, item.kind = "create"
    PROVE  \E n \in Creates :
              /\ n.height = cursor /\ n.tx = tx /\ item = CreatePlace(n)
              /\ n.create = Created(item) /\ n.create.contract = item.contract
              /\ item.contract \in Contracts /\ Created(item).creator \in Holders
              /\ \A m \in Creates : m.create.contract = item.contract => m = n
<1>1. PICK n \in Creates : /\ n.height = cursor /\ n.tx = tx /\ item = CreatePlace(n)
                           /\ n.create = Created(item) /\ n.create.contract = item.contract
  BY AtWork, ItsCreate
<1>2. n.create \in Create
  BY CreateFacts
<1> QED
  BY <1>1, <1>2, ChainAssumption DEF Create

\* The event that the item is.
LEMMA ItemMoves ==
    ASSUME IInv, step \in Begun, item.kind = "event"
    PROVE  /\ TransferOf(item) \in Events /\ TransferOf(item).event = Event(item)
           /\ TransferOf(item).height = cursor /\ Event(item).contract = item.contract
           /\ item.contract \in Contracts
           /\ Event(item).from \in Holders \cup {Nobody}
           /\ Event(item).to \in Holders \cup {Nobody}
           /\ \A m \in Creates : m.create.contract = item.contract => m.height <= cursor
<1>1. /\ TransferOf(item) \in Events /\ TransferOf(item).event = Event(item)
      /\ TransferOf(item).height = cursor /\ Event(item).contract = item.contract
      /\ Event(item) \in Transfer
  BY AtWork, ItsEvent
<1>2. ASSUME NEW m \in Creates, m.create.contract = item.contract
      PROVE  m.height <= cursor
  <2>1. m.height < cursor \/ m.height = cursor
    BY <1>1, <1>2, ChainAssumption
  <2> QED
    BY <2>1, CreateFacts, AtWork DEF Heights
<1> QED
  BY <1>1, <1>2 DEF Transfer

\* An answer of now is fresh.
LEMMA NowIsFresh ==
    ASSUME Typed, LoopOK, step \notin {"idle", "block"}, NEW C, NEW v, NEW c \in Ours, NEW a,
           NowBalance(v, c, a),
           \A n \in Creates : n.create.contract = c => n.height <= cursor
    PROVE  FreshBalance(C, v, c, a)
<1>1. PICK h \in cursor..best : v = BalanceAt(c, a, h)
  BY DEF NowBalance
<1>2. cursor \in Nat /\ best \in Nat /\ h \in 0..best /\ cursor <= h /\ h \in Nat
  BY <1>1, Numbers
<1>3. ASSUME NEW e \in Logged(c, best), e.height > h, EventDone(e)
      PROVE  FALSE
  <2>1. e \in Events /\ e.event.contract = c
    BY DEF Logged
  <2>2. Settled(e.height, e.tx, EventPlace(e)) /\ e.height \in Heights
    BY <1>3, <2>1, EventFacts DEF EventDone
  <2>3. e.height <= cursor
    BY <2>2, SettledIsBelow
  <2> QED
    BY <1>2, <1>3, <2>2, <2>3, LoopAssumption DEF Heights
<1>4. ASSUME NEW n \in Creates, n.create.contract = c
      PROVE  n.height <= h
  <2>1. n.height \in Nat /\ n.height <= cursor
    BY <1>4, CreateFacts, LoopAssumption DEF Heights
  <2> QED
    BY <1>2, <2>1
<1> QED
  BY <1>1, <1>2, <1>3, <1>4 DEF FreshBalance

LEMMA NowIsFreshSupply ==
    ASSUME Typed, LoopOK, step \notin {"idle", "block"}, NEW v, NEW c \in Ours,
           NowSupply(v, c)
    PROVE  FreshSupply(v, c)
<1>1. PICK h \in cursor..best : v = SupplyAt(c, h) /\ MadeBy(c, h)
  BY DEF NowSupply
<1>2. cursor \in Nat /\ best \in Nat /\ h \in 0..best /\ cursor <= h /\ h \in Nat
  BY <1>1, Numbers
<1>3. ASSUME NEW e \in Logged(c, best), e.height > h, SupplyDone(e)
      PROVE  FALSE
  <2>1. e \in Events /\ e.event.contract = c
    BY DEF Logged
  <2>2. Settled(e.height, e.tx, SupplyPlace(e.at, e.event.contract)) /\ e.height \in Heights
    BY <1>3, <2>1, EventFacts DEF SupplyDone
  <2>3. e.height <= cursor
    BY <2>2, SettledIsBelow
  <2> QED
    BY <1>2, <1>3, <2>2, <2>3, LoopAssumption DEF Heights
<1> QED
  BY <1>1, <1>2, <1>3 DEF FreshSupply

\* The contracts known are ours.
LEMMA KnownAreOurs ==
    ASSUME NEW C, CameOK(C)
    PROVE  C \subseteq Ours
<1> SUFFICES ASSUME NEW c \in C PROVE c \in Ours
  OBVIOUS
<1>1. PICK n \in Creates : n.create.contract = c /\ UpdateFrom < n.height
  BY DEF CameOK
<1>2. n.height > UpdateFrom
  BY <1>1, CreateFacts, LoopAssumption, ChainAssumption DEF Heights
<1> QED
  BY <1>1, <1>2 DEF Ours

LEMMA RowReplaced ==
    ASSUME Typed, NEW c \in Contracts, NEW a \in Holders \cup {Nobody}, NEW v,
           CheckBalance(c, a, v), NEW B, B = balances'
    PROVE  /\ DOMAIN B = Contracts
           /\ \A x \in Contracts : DOMAIN B[x] = Holders \cup {Nobody}
           /\ \A x \in Contracts, y \in Holders \cup {Nobody} :
                 B[x][y] = IF x = c /\ y = a THEN v ELSE balances[x][y]
<1>1. DOMAIN balances = Contracts /\ \A x \in Contracts : DOMAIN balances[x] = Holders \cup {Nobody}
  BY DEF Typed
<1>2. PICK f : f = [balances[c] EXCEPT ![a] = v]
  OBVIOUS
<1>3. B = [balances EXCEPT ![c] = f]
  BY <1>2 DEF CheckBalance
<1>4. DOMAIN f = Holders \cup {Nobody}
      /\ \A y \in Holders \cup {Nobody} : f[y] = IF y = a THEN v ELSE balances[c][y]
  BY <1>1, <1>2
<1>5. DOMAIN B = Contracts /\ \A x \in Contracts : B[x] = IF x = c THEN f ELSE balances[x]
  BY <1>1, <1>3
<1>6. \A x \in Contracts : DOMAIN B[x] = Holders \cup {Nobody}
  BY <1>1, <1>4, <1>5
<1>7. ASSUME NEW x \in Contracts, NEW y \in Holders \cup {Nobody}
      PROVE  B[x][y] = IF x = c /\ y = a THEN v ELSE balances[x][y]
  BY <1>4, <1>5
<1> QED
  BY <1>5, <1>6, <1>7

\* A replaced row of balances is right if its answer is of now.
LEMMA BalanceWritten ==
    ASSUME Typed, LoopOK, step \notin {"idle", "block"}, NEW C, BalancesOK(C, balances),
           Ours \subseteq Contracts,
           NEW c \in Contracts, NEW a \in Holders \cup {Nobody}, NEW v,
           NowBalance(v, c, a),
           \A n \in Creates : n.create.contract = c => n.height <= cursor,
           CheckBalance(c, a, v), NEW B, B = balances'
    PROVE  BalancesOK(C, B)
<1> SUFFICES ASSUME NEW x \in Ours, NEW y \in Holders
             PROVE  FreshBalance(C, B[x][y], x, y)
  BY DEF BalancesOK
<1>1. B[x][y] = IF x = c /\ y = a THEN v ELSE balances[x][y]
  BY RowReplaced
<1>2. CASE x = c /\ y = a
  <2>1. FreshBalance(C, v, c, a)
    BY <1>2, NowIsFresh
  <2> QED
    BY <1>1, <1>2, <2>1
<1>3. CASE ~(x = c /\ y = a)
  <2>1. B[x][y] = balances[x][y]
    BY <1>1, <1>3
  <2> QED
    BY <2>1 DEF BalancesOK
<1> QED
  BY <1>2, <1>3

LEMMA OursAreContracts == Ours \subseteq Contracts
BY CreateFacts DEF Ours, Create

\* What a write leaves is right for the work settled before it.
LEMMA RowsWritten ==
    ASSUME IInv, Written, NEW C, NEW S, NEW T, NEW B, NEW M,
           C = contracts', S = supplies', T = transfers', B = balances', M = missed'
    PROVE  RowsOK(C, S, T, B, M)
<1>0. /\ Typed /\ LoopOK /\ Ours \subseteq Contracts /\ contracts \subseteq Ours
      /\ KnownOK(contracts) /\ CameOK(contracts) /\ TransfersOK(transfers)
      /\ BalancesOK(contracts, balances) /\ SuppliesOK(contracts, supplies, missed)
  BY OursAreContracts, KnownAreOurs DEF IInv, RowInv, RowsOK
<1>1. CASE step = "balance"
  <2>1. CreatorWritten
    BY <1>1 DEF Written
  <2>2. C = contracts /\ S = supplies /\ T = transfers /\ M = missed
        /\ CheckBalance(item.contract, Created(item).creator, held.to)
    BY <2>1 DEF CreatorWritten
  <2>3. step \in Begun /\ step \notin {"idle", "block"} /\ item.kind = "create"
    BY <1>1 DEF IInv, ItemInv, Begun
  <2>4. /\ item.contract \in Contracts /\ Created(item).creator \in Holders \cup {Nobody}
        /\ \A m \in Creates : m.create.contract = item.contract => m.height <= cursor
    BY <2>3, ItemCreates, AtWork DEF Heights
  <2>5. NowBalance(held.to, item.contract, Created(item).creator)
    BY <1>1 DEF IInv, HeldInv
  <2>6. BalancesOK(C, B)
    BY <1>0, <2>2, <2>3, <2>4, <2>5, BalanceWritten
  <2> QED
    BY <1>0, <2>2, <2>6 DEF RowsOK
<1>2. CASE step = "contract"
  <2>1. ContractWritten
    BY <1>2 DEF Written
  <2>2. /\ C = contracts \cup {item.contract} /\ T = transfers /\ M = missed \ {item.contract}
        /\ B = balances /\ S = [supplies EXCEPT ![item.contract] = held.supply]
    BY <2>1 DEF ContractWritten
  <2>3. step \in Begun /\ step \notin {"idle", "block"} /\ item.kind = "create"
    BY <1>2 DEF IInv, ItemInv, Begun
  <2>4. PICK n \in Creates :
          /\ n.height = cursor /\ n.create = Created(item)
          /\ n.create.contract = item.contract /\ item.contract \in Contracts
          /\ \A m \in Creates : m.create.contract = item.contract => m = n
    BY <2>3, ItemCreates
  <2>5. UpdateFrom < cursor /\ cursor <= best
    BY <2>3, AtWork
  <2>6. KnownOK(C)
    BY <1>0, <2>2 DEF KnownOK
  <2>7. CameOK(C)
    BY <1>0, <2>2, <2>4, <2>5 DEF CameOK
  <2>8. item.contract \in Ours
    BY <2>2, <2>7, KnownAreOurs
  <2>9. BalancesOK(C, B)
    <3> SUFFICES ASSUME NEW c \in Ours, NEW a \in Holders
                 PROVE  FreshBalance(C, balances[c][a], c, a)
      BY <2>2 DEF BalancesOK
    <3>1. FreshBalance(contracts, balances[c][a], c, a)
      BY <1>0 DEF BalancesOK
    <3>2. CASE c # item.contract
      <4>1. c \in C => c \in contracts
        BY <2>2, <3>2
      <4> QED
        BY <3>1, <4>1 DEF FreshBalance
    <3>3. CASE c = item.contract /\ Created(item).born /\ Created(item).creator = a
      <4>1. NowBalance(balances[c][a], c, a)
        BY <1>2, <3>3 DEF IInv, HeldInv
      <4>2. \A m \in Creates : m.create.contract = c => m.height <= cursor
        BY <2>3, <2>4, <3>3, AtWork DEF Heights
      <4> QED
        BY <1>0, <2>3, <4>1, <4>2, NowIsFresh
    <3>4. CASE c = item.contract /\ ~(Created(item).born /\ Created(item).creator = a)
      <4>1. ASSUME NEW m \in Creates, m.create.contract = c, m.create.born,
                   m.create.creator = a
            PROVE  FALSE
        BY <2>4, <3>4, <4>1
      <4> QED
        BY <3>1, <4>1 DEF FreshBalance
    <3> QED
      BY <3>2, <3>3, <3>4
  <2>10. SuppliesOK(C, S, M)
    <3> SUFFICES ASSUME NEW c \in C \ M
                 PROVE  FreshSupply(S[c], c)
      BY DEF SuppliesOK
    <3>1. CASE c = item.contract
      <4>1. NowSupply(held.supply, c)
        BY <1>2, <3>1 DEF IInv, HeldInv
      <4>2. S[c] = held.supply
        BY <2>2, <2>4, <3>1 DEF IInv, Typed
      <4> QED
        BY <1>0, <2>3, <2>8, <3>1, <4>1, <4>2, NowIsFreshSupply
    <3>2. CASE c # item.contract
      <4>1. S[c] = supplies[c] /\ c \in contracts \ missed
        BY <2>2, <3>2 DEF IInv, Typed
      <4> QED
        BY <1>0, <4>1 DEF SuppliesOK
    <3> QED
      BY <3>1, <3>2
  <2> QED
    BY <1>0, <2>2, <2>6, <2>7, <2>9, <2>10 DEF RowsOK
<1>3. CASE step = "total"
  <2>1. TotalWritten
    BY <1>3 DEF Written
  <2>2. /\ C = contracts /\ T = transfers /\ M = missed \ {item.contract}
        /\ B = balances /\ S = [supplies EXCEPT ![item.contract] = held.supply]
    BY <2>1 DEF TotalWritten
  <2>3. step \notin {"idle", "block"} /\ item.contract \in contracts
    BY <1>3 DEF IInv, ItemInv, Known
  <2>4. SuppliesOK(C, S, M)
    <3> SUFFICES ASSUME NEW c \in C \ M
                 PROVE  FreshSupply(S[c], c)
      BY DEF SuppliesOK
    <3>1. CASE c = item.contract
      <4>1. NowSupply(held.supply, c)
        BY <1>3, <3>1 DEF IInv, HeldInv
      <4>2. S[c] = held.supply
        BY <1>0, <2>2, <2>3, <3>1 DEF Typed
      <4>3. c \in Ours
        BY <1>0, <2>3, <3>1
      <4> QED
        BY <1>0, <2>3, <4>1, <4>2, <4>3, NowIsFreshSupply
    <3>2. CASE c # item.contract
      <4>1. S[c] = supplies[c] /\ c \in contracts \ missed
        BY <2>2, <3>2 DEF IInv, Typed
      <4> QED
        BY <1>0, <4>1 DEF SuppliesOK
    <3> QED
      BY <3>1, <3>2
  <2> QED
    BY <1>0, <2>2, <2>4 DEF RowsOK
<1>4. CASE step = "transfer"
  <2>1. TransferWritten
    BY <1>4 DEF Written
  <2>2. /\ C = contracts /\ S = supplies /\ B = balances /\ M = missed
        /\ T = {e \in transfers : KeyOf(e) # KeyOf(TransferOf(item))} \cup {TransferOf(item)}
    BY <2>1 DEF TransferWritten
  <2>3. ASSUME NEW e, Kept(transfers, e)
        PROVE  Kept(T, e)
    BY <2>2, <2>3 DEF Kept
  <2>4. TransfersOK(T)
    BY <1>0, <2>3 DEF TransfersOK
  <2> QED
    BY <1>0, <2>2, <2>4 DEF RowsOK
<1>5. CASE step = "writefrom"
  <2>1. FromWritten
    BY <1>5 DEF Written
  <2>2. C = contracts /\ S = supplies /\ T = transfers /\ M = missed
        /\ CheckBalance(item.contract, Event(item).from, held.from)
    BY <2>1 DEF FromWritten
  <2>3. step \in Begun /\ step \notin {"idle", "block"} /\ item.kind = "event"
    BY <1>5 DEF IInv, ItemInv, Begun
  <2>4. NowBalance(held.from, item.contract, Event(item).from)
    BY <1>5 DEF IInv, HeldInv
  <2>5. BalancesOK(C, B)
    BY <1>0, <2>2, <2>3, <2>4, ItemMoves, BalanceWritten
  <2> QED
    BY <1>0, <2>2, <2>5 DEF RowsOK
<1>6. CASE step = "writeto"
  <2>1. ToWritten
    BY <1>6 DEF Written
  <2>2. C = contracts /\ S = supplies /\ T = transfers /\ M = missed
        /\ CheckBalance(item.contract, Event(item).to, held.to)
    BY <2>1 DEF ToWritten
  <2>3. step \in Begun /\ step \notin {"idle", "block"} /\ item.kind = "event"
    BY <1>6 DEF IInv, ItemInv, Begun
  <2>4. NowBalance(held.to, item.contract, Event(item).to)
    BY <1>6 DEF IInv, HeldInv
  <2>5. BalancesOK(C, B)
    BY <1>0, <2>2, <2>3, <2>4, ItemMoves, BalanceWritten
  <2> QED
    BY <1>0, <2>2, <2>5 DEF RowsOK
<1>7. CASE step \notin {"balance", "contract", "total", "transfer", "writefrom", "writeto"}
  <2>1. UNCHANGED rowVars
    BY <1>7 DEF Written
  <2> QED
    BY <1>0, <2>1 DEF rowVars, RowsOK
<1> QED
  BY <1>1, <1>2, <1>3, <1>4, <1>5, <1>6, <1>7

-----------------------------------------------------------------------------
(* What the steps settle. *)

\* A step that leaves the work on transactions: at most the checkpoint is raised, to
\* where the watcher begins or to a block that is over.
LEMMA LeavingGains ==
    ASSUME Typed, LoopOK, WorkInv, step' \in {"idle", "block"},
           stored' \in {stored, Larger(stored, UpdateFrom)} \/ (step = "save" /\ stored' = cursor),
           NEW p
    PROVE  Gains(p)
<1> SUFFICES ASSUME NEW h \in Heights, NEW t \in DOMAIN TxsOf[h], NEW q,
                    UpdateFrom < h, Settled(h, t, q)'
             PROVE  Settled(h, t, q)
  BY DEF Gains
<1>1. h <= stored'
  BY DEF Settled, Passed
<1>2. h \in Nat /\ stored \in Nat /\ cursor \in Nat /\ UpdateFrom \in Nat
  BY Numbers, LoopAssumption DEF Heights
<1>3. CASE step = "save" /\ stored' = cursor
  <2>1. cursor - 1 <= stored /\ Len(TxsOf[cursor]) < tx
    BY <1>3, Numbers DEF WorkInv
  <2>2. CASE h < cursor
    BY <1>2, <2>1, <2>2 DEF Settled
  <2>3. CASE h = cursor
    <3>1. t < tx
      BY <2>1, <2>3, ChainTypes DEF Typed
    <3> QED
      BY <1>3, <2>3, <3>1 DEF Settled, Passed
  <2> QED
    BY <1>1, <1>2, <1>3, <2>2, <2>3
<1>4. CASE stored' \in {stored, Larger(stored, UpdateFrom)}
  BY <1>1, <1>2, <1>4 DEF Settled, Larger
<1> QED
  BY <1>3, <1>4

\* A step that stays with the work it is at.
LEMMA StayingGains ==
    ASSUME UNCHANGED <<stored, cursor, tx, todo>>,
           step' = step \/ (step \in Working /\ step' \in Working), NEW p
    PROVE  Gains(p)
<1> SUFFICES ASSUME NEW h, NEW t, NEW q, Settled(h, t, q)'
             PROVE  Settled(h, t, q)
  BY DEF Gains
<1> QED
  BY DEF Settled, Passed, Working, Begun

\* Going on settles p, and leads to more work on the transaction, to the next one, or to
\* the checkpoint.
LEMMA GoOnGains ==
    ASSUME Typed, LoopOK, WorkInv, UNCHANGED <<stored, cursor>>, NEW p, NEW rest, GoOn(rest),
           \/ step = "receipt" /\ rest = WorkOf(cursor, tx)
           \/ step \in Working /\ rest = todo \ {p}
    PROVE  /\ Gains(p)
           /\ WorkInv' /\ step' \in {"work", "transaction", "save"} /\ tx' \in Nat
           /\ held' = NoAnswers
<1>1. /\ tx \in DOMAIN TxsOf[cursor] /\ rest \subseteq WorkOf(cursor, tx)
      /\ step \notin {"idle", "block"} /\ cursor \in Heights
  <2>1. step \notin {"idle", "block"}
    BY DEF Working, Begun
  <2> QED
    BY <2>1, Numbers DEF WorkInv
<1>2. tx \in Nat /\ Len(TxsOf[cursor]) \in Nat /\ DOMAIN TxsOf[cursor] = 1..Len(TxsOf[cursor])
  BY <1>1, ChainTypes DEF Typed
<1>3. step' \in {"work", "transaction", "save"} /\ todo' = rest /\ held' = NoAnswers
      /\ tx' \in {tx, tx + 1} /\ (rest # {} => tx' = tx /\ step' = "work")
      /\ (rest = {} => /\ tx' = tx + 1
                       /\ step' = IF tx < Len(TxsOf[cursor]) THEN "transaction" ELSE "save")
  BY DEF GoOn
<1>4. Gains(p)
  <2> SUFFICES ASSUME NEW h \in Heights, NEW t \in DOMAIN TxsOf[h], NEW q \in WorkOf(h, t),
                      Settled(h, t, q)'
               PROVE  Settled(h, t, q) \/ (h = cursor /\ t = tx /\ q = p)
    BY DEF Gains
  <2>1. CASE h <= stored
    BY <2>1 DEF Settled
  <2>2. CASE ~(h <= stored)
    <3>1. Passed(h, t, q)'
      BY <2>2 DEF Settled
    <3>2. h = cursor /\ (t < tx' \/ (t = tx' /\ step' # "transaction" /\ q \notin rest))
      BY <1>3, <3>1 DEF Passed
    <3>3. t \in Nat /\ t <= Len(TxsOf[cursor])
      BY <1>2, <3>2
    <3>4. CASE t < tx
      BY <1>1, <3>2, <3>4 DEF Settled, Passed
    <3>5. CASE t = tx /\ q \notin rest
      <4>1. CASE step = "receipt"
        BY <3>2, <3>5, <4>1 DEF Working, Begun
      <4>2. CASE step \in Working /\ q = p
        BY <3>2, <3>5, <4>2
      <4>3. CASE step \in Working /\ q # p
        <5>1. q \notin todo
          BY <3>5, <4>3 DEF Working, Begun
        <5>2. step \notin {"idle", "block", "transaction", "receipt"}
          BY <4>3 DEF Working, Begun
        <5> QED
          BY <3>2, <3>5, <5>1, <5>2 DEF Settled, Passed
      <4> QED
        BY <4>1, <4>2, <4>3
    <3>6. t < tx \/ (t = tx /\ q \notin rest)
      BY <1>2, <1>3, <3>2, <3>3
    <3> QED
      BY <3>4, <3>5, <3>6
  <2> QED
    BY <2>1, <2>2
<1>5. WorkInv'
  <2>1. CASE rest # {}
    BY <1>1, <1>3, <2>1 DEF WorkInv, Working, Begun
  <2>2. CASE rest = {}
    <3>1. step' = "transaction" => tx' \in DOMAIN TxsOf[cursor]
      BY <1>2, <1>3, <2>2
    <3>2. step' = "save" => Len(TxsOf[cursor]) < tx'
      BY <1>2, <1>3, <2>2
    <3>3. step' \in {"transaction", "save"}
      BY <1>3, <2>2
    <3> QED
      BY <1>3, <3>1, <3>2, <3>3 DEF WorkInv, Working, Begun
  <2> QED
    BY <2>1, <2>2
<1> QED
  BY <1>2, <1>3, <1>4, <1>5

\* An event comes after what makes its contract: when its turn comes, a contract of ours is
\* known.
LEMMA KnownInTime ==
    ASSUME IInv, step = "work", NEW p \in todo, NextIs(p), p.kind = "event",
           p.contract \in Ours
    PROVE  Known(p.contract)
<1>1. /\ cursor \in Heights /\ cursor - 1 <= stored /\ tx \in DOMAIN TxsOf[cursor]
      /\ p \in WorkOf(cursor, tx) /\ cursor \in Nat /\ stored \in Nat /\ UpdateFrom \in Nat
  BY Numbers DEF IInv, WorkInv, Working
<1>2. /\ TransferOf(p) \in Events /\ TransferOf(p).event.contract = p.contract
      /\ TransferOf(p).height = cursor /\ TransferOf(p).tx = tx
  BY <1>1, ItsEvent
<1>3. PICK n \in Creates : n.height > UpdateFrom /\ n.create.contract = p.contract
  BY DEF Ours
<1>4. n.height < cursor \/ (n.height = cursor /\ n.tx <= tx)
  BY <1>2, <1>3, ChainAssumption
<1>5. n.height \in Nat /\ n.tx \in Nat /\ tx \in Nat
  BY <1>1, CreateFacts, ChainTypes DEF Heights
<1>6. CreateDone(n)
  <2>1. CASE n.height < cursor
    BY <1>1, <1>5, <2>1 DEF CreateDone, Settled
  <2>2. CASE n.height = cursor /\ n.tx < tx
    BY <2>2 DEF CreateDone, Settled, Passed
  <2>3. CASE n.height = cursor /\ n.tx = tx
    <3>1. Before(CreatePlace(n), p)
      BY DEF Before, CreatePlace, Rank
    <3>2. CreatePlace(n) \notin todo
      BY <3>1 DEF NextIs
    <3> QED
      BY <2>3, <3>2 DEF CreateDone, Settled, Passed
  <2> QED
    BY <1>4, <1>5, <2>1, <2>2, <2>3
<1>7. UpdateFrom < n.height
  BY <1>1, <1>3, <1>5
<1> QED
  BY <1>3, <1>6, <1>7 DEF IInv, RowInv, RowsOK, KnownOK, Known

LEMMA RowsFollow ==
    ASSUME NEW C, NEW S, NEW T, NEW B, NEW M,
           C = contracts', S = supplies', T = transfers', B = balances', M = missed',
           RowsOK(C, S, T, B, M)'
    PROVE  RowInv'
BY DEF RowInv, RowsOK, KnownOK, CameOK, TransfersOK, BalancesOK, SuppliesOK, FreshBalance

-----------------------------------------------------------------------------
(* Every step keeps the invariant. *)

LEMMA WrittenTyped ==
    ASSUME IInv, Written \/ UNCHANGED <<contracts, supplies, balances>>
    PROVE  /\ contracts' \subseteq Contracts /\ DOMAIN supplies' = Contracts
           /\ DOMAIN balances' = Contracts
           /\ \A c \in Contracts : DOMAIN balances'[c] = Holders \cup {Nobody}
<1>0. Typed
  BY DEF IInv
<1>1. CASE step = "balance" /\ Written
  <2>1. step \in Begun /\ item.kind = "create"
    BY <1>1 DEF IInv, ItemInv, Begun
  <2>2. item.contract \in Contracts /\ Created(item).creator \in Holders \cup {Nobody}
    BY <2>1, ItemCreates
  <2>3. CheckBalance(item.contract, Created(item).creator, held.to)
        /\ UNCHANGED <<contracts, supplies>>
    BY <1>1 DEF Written, CreatorWritten
  <2> QED
    BY <1>0, <2>2, <2>3, RowReplaced DEF Typed
<1>2. CASE step = "contract" /\ Written
  <2>1. step \in Begun /\ item.kind = "create"
    BY <1>2 DEF IInv, ItemInv, Begun
  <2>2. item.contract \in Contracts
    BY <2>1, ItemCreates
  <2>3. ContractWritten
    BY <1>2 DEF Written
  <2> QED
    BY <1>0, <2>2, <2>3 DEF Typed, ContractWritten
<1>3. CASE step \in {"writefrom", "writeto"} /\ Written
  <2>1. step \in Begun /\ item.kind = "event"
    BY <1>3 DEF IInv, ItemInv, Begun
  <2>2. /\ item.contract \in Contracts /\ Event(item).from \in Holders \cup {Nobody}
        /\ Event(item).to \in Holders \cup {Nobody}
    BY <2>1, ItemMoves
  <2>3. /\ \/ CheckBalance(item.contract, Event(item).from, held.from)
           \/ CheckBalance(item.contract, Event(item).to, held.to)
        /\ UNCHANGED <<contracts, supplies>>
    BY <1>3 DEF Written, FromWritten, ToWritten
  <2> QED
    BY <1>0, <2>2, <2>3, RowReplaced DEF Typed
<1>4. CASE step = "total" /\ Written
  BY <1>0, <1>4 DEF Written, TotalWritten, Typed
<1>5. CASE step = "transfer" /\ Written
  BY <1>0, <1>5 DEF Written, TransferWritten, Typed
<1>6. CASE step \notin {"balance", "contract", "total", "transfer", "writefrom", "writeto"}
           /\ Written
  <2>1. UNCHANGED rowVars
    BY <1>6 DEF Written
  <2> QED
    BY <1>0, <2>1 DEF rowVars, Typed
<1>7. CASE UNCHANGED <<contracts, supplies, balances>>
  BY <1>0, <1>7 DEF Typed
<1> QED
  BY <1>1, <1>2, <1>3, <1>4, <1>5, <1>6, <1>7

\* The rows, when nothing new is settled.
LEMMA RowsKept ==
    ASSUME IInv, Typed', LoopOK', best' \in {best, best + 1}, Gains(NoPlace),
           Written \/ UNCHANGED rowVars
    PROVE  RowInv'
<1>1. PICK C, S, T, B, M : /\ C = contracts' /\ S = supplies' /\ T = transfers'
                           /\ B = balances' /\ M = missed'
  OBVIOUS
<1>2. RowsOK(C, S, T, B, M)
  <2>1. CASE Written
    BY <1>1, <2>1, RowsWritten
  <2>2. CASE UNCHANGED rowVars
    BY <1>1, <2>2 DEF IInv, RowInv, rowVars, RowsOK
  <2> QED
    BY <2>1, <2>2
<1>3. RowsOK(C, S, T, B, M)'
  BY <1>2, GoesOn DEF IInv
<1> QED
  BY <1>1, <1>3, RowsFollow

\* A step that leaves the work on transactions.
LEMMA Leaves ==
    ASSUME IInv, Typed', LoopOK', best' = best, step' \in {"idle", "block"},
           stored' \in {stored, Larger(stored, UpdateFrom)} \/ (step = "save" /\ stored' = cursor),
           Written \/ UNCHANGED rowVars
    PROVE  IInv'
<1>1. Gains(NoPlace)
  BY LeavingGains DEF IInv
<1>2. RowInv'
  BY <1>1, RowsKept
<1>3. WorkInv' /\ ItemInv' /\ HeldInv'
  BY DEF WorkInv, ItemInv, HeldInv, Working, Begun
<1> QED
  BY <1>2, <1>3 DEF IInv

LEMMA Untouched ==
    ASSUME IInv, UNCHANGED <<best, stored, phase, lastCheckedBlock, cursor, step, workVars, rowVars>>
    PROVE  IInv'
<1>1. Typed' /\ LoopOK'
  BY DEF IInv, Typed, LoopOK, workVars, rowVars
<1>2. WorkInv'
  BY DEF IInv, WorkInv, workVars
<1>3. ItemInv'
  BY DEF IInv, ItemInv, Kept, Created, TransferOf, Event, Known, workVars, rowVars
<1>4. HeldInv'
  BY DEF IInv, HeldInv, NowBalance, NowSupply, Created, Event, workVars, rowVars
<1>5. Gains(NoPlace)
  BY StayingGains DEF workVars
<1>6. RowInv'
  BY <1>1, <1>5, RowsKept
<1> QED
  BY <1>1, <1>2, <1>3, <1>4, <1>6 DEF IInv

LEMMA NodeKeeps ==
    ASSUME IInv, NodeMoves
    PROVE  IInv'
<1>1. /\ best' = best + 1 /\ best' \in Heights /\ best \in Nat
      /\ UNCHANGED <<stored, phase, lastCheckedBlock, cursor, step, workVars, rowVars>>
  BY LoopAssumption DEF IInv, Typed, NodeMoves, runVars, Heights
<1>2. Typed'
  BY <1>1 DEF IInv, Typed, workVars, rowVars
<1>3. LoopOK'
  <2>1. stored \in Nat /\ UpdateFrom \in Nat /\ cursor \in Nat
    BY Numbers DEF IInv
  <2> QED
    BY <1>1, <2>1 DEF IInv, LoopOK
<1>4. WorkInv'
  BY <1>1 DEF IInv, WorkInv, workVars
<1>5. ItemInv'
  BY <1>1 DEF IInv, ItemInv, Kept, Created, TransferOf, Event, Known, workVars, rowVars
<1>6. \A h \in cursor..best : h \in cursor'..best'
  BY <1>1 DEF IInv, Typed
<1>7. HeldInv'
  BY <1>1, <1>6 DEF IInv, HeldInv, NowBalance, NowSupply, Created, Event, workVars, rowVars
<1>8. Gains(NoPlace)
  BY <1>1, StayingGains DEF workVars
<1>9. RowInv'
  BY <1>1, <1>2, <1>3, <1>8, RowsKept
<1> QED
  BY <1>2, <1>3, <1>4, <1>5, <1>7, <1>9 DEF IInv

\* Loading and starting an update.
LEMMA StartKeeps ==
    ASSUME IInv, Start \/ StartFails \/ GetLastBlock \/ GetInfo
    PROVE  IInv'
<1>1. /\ phase # "up" /\ step = "idle" /\ UNCHANGED <<best, workVars, rowVars>>
      /\ stored \in Nat /\ UpdateFrom \in Nat /\ lastCheckedBlock \in Nat
  BY Numbers DEF Start, StartFails, GetLastBlock, GetInfo, IInv, LoopOK, nodeVars
<1>2. CASE Start
  <2>1. /\ phase' = "load" /\ stored' = Larger(stored, UpdateFrom)
        /\ UNCHANGED <<lastCheckedBlock, cursor, step>>
    BY <1>2 DEF Start, runVars
  <2>2. Typed' /\ LoopOK'
    BY <1>1, <2>1 DEF IInv, Typed, LoopOK, Larger, workVars, rowVars
  <2> QED
    BY <1>1, <2>1, <2>2, Leaves
<1>3. CASE StartFails
  <2>1. phase' = "failed" /\ UNCHANGED <<stored, lastCheckedBlock, cursor, step>>
    BY <1>3 DEF StartFails, runVars
  <2>2. Typed' /\ LoopOK'
    BY <1>1, <2>1 DEF IInv, Typed, LoopOK, workVars, rowVars
  <2> QED
    BY <1>1, <2>1, <2>2, Leaves
<1>4. CASE GetLastBlock
  <2>1. /\ phase = "load" /\ phase' = "info" /\ lastCheckedBlock' = stored
        /\ UNCHANGED <<stored, cursor, step>>
    BY <1>4 DEF GetLastBlock, LoadChecked
  <2>2. Typed' /\ LoopOK'
    BY <1>1, <2>1 DEF IInv, Typed, LoopOK, workVars, rowVars
  <2> QED
    BY <1>1, <2>1, <2>2, Leaves
<1>5. CASE GetInfo
  <2>1. /\ phase = "info" /\ phase' = "up" /\ UNCHANGED <<stored, lastCheckedBlock>>
        /\ \/ step' = "block" /\ cursor' = lastCheckedBlock + 1
           \/ step' = "idle" /\ cursor' = cursor
    BY <1>5 DEF GetInfo, BeginUpdate, Proceed
  <2>2. Typed' /\ LoopOK'
    BY <1>1, <2>1 DEF IInv, Typed, LoopOK, workVars, rowVars, Steps, Reads
  <2> QED
    BY <1>1, <2>1, <2>2, Leaves
<1> QED
  BY <1>2, <1>3, <1>4, <1>5

LEMMA TipKeeps ==
    ASSUME IInv, NEW height, Tip(height)
    PROVE  IInv'
<1>1. /\ phase = "up" /\ UNCHANGED <<best, stored, phase, lastCheckedBlock, workVars, rowVars>>
      /\ \/ UNCHANGED <<cursor, step>>
         \/ step' = "block" /\ cursor' = lastCheckedBlock + 1
         \/ step = "idle" /\ step' = "idle" /\ cursor' = cursor
  BY DEF Tip, TipEvent, BeginUpdate, Proceed, nodeVars
<1>2. CASE UNCHANGED <<cursor, step>>
  BY <1>1, <1>2, Untouched
<1>3. CASE step' = "block" /\ cursor' = lastCheckedBlock + 1
  <2>1. Typed' /\ LoopOK'
    BY <1>1, <1>3 DEF IInv, Typed, LoopOK, workVars, rowVars, Steps, Reads
  <2> QED
    BY <1>1, <1>3, <2>1, Leaves
<1> QED
  BY <1>1, <1>2, <1>3

LEMMA SaveKeeps ==
    ASSUME IInv, Save
    PROVE  IInv'
<1>1. /\ step = "save" /\ stored' = cursor /\ lastCheckedBlock' = cursor
      /\ UNCHANGED <<best, phase, workVars, rowVars>>
      /\ \/ step' = "block" /\ cursor' = cursor + 1
         \/ step' = "idle" /\ cursor' = cursor
  BY DEF Save, Proceed, nodeVars
<1>2. phase = "up" /\ cursor \in Nat /\ cursor <= best /\ UpdateFrom < cursor /\ UpdateFrom \in Nat
  BY <1>1, Numbers DEF IInv
<1>3. Typed'
  BY <1>1, <1>2 DEF IInv, Typed, workVars, rowVars, Steps, Reads
<1>4. LoopOK'
  BY <1>1, <1>2 DEF LoopOK
<1> QED
  BY <1>1, <1>3, <1>4, Leaves

\* Errors and the end of the process.
LEMMA FailuresKeep ==
    ASSUME IInv, Fails \/ TransactionFails \/ Crash
    PROVE  IInv'
<1>1. /\ step' = "idle" /\ best' = best
      /\ UNCHANGED stored \/ (step = "save" /\ stored' = cursor)
      /\ Written \/ UNCHANGED rowVars
      /\ tx' = 0 /\ held' = NoAnswers
      /\ \/ phase' = "down" /\ lastCheckedBlock' = 0 /\ cursor' = 0
         \/ UNCHANGED <<phase, lastCheckedBlock, cursor>>
  BY DEF Fails, TransactionFails, Crash, WriteUnderWay, LoopFails, ProcessLost, NoWork, nodeVars
<1>2. /\ contracts' \subseteq Contracts /\ DOMAIN supplies' = Contracts
      /\ DOMAIN balances' = Contracts
      /\ \A c \in Contracts : DOMAIN balances'[c] = Holders \cup {Nobody}
  BY <1>1, WrittenTyped DEF rowVars
<1>3. stored' \in Nat
  BY <1>1 DEF IInv, Typed
<1>4. Typed'
  BY <1>1, <1>2, <1>3 DEF IInv, Typed, Steps, NoAnswers
<1>5. LoopOK'
  <2>1. step = "save" => /\ phase = "up" /\ cursor = lastCheckedBlock + 1 /\ cursor <= best
                         /\ UpdateFrom < cursor
    BY Numbers DEF IInv
  <2>2. UpdateFrom \in Nat /\ lastCheckedBlock \in Nat /\ best \in Nat
    BY Numbers DEF IInv
  <2> QED
    BY <1>1, <2>1, <2>2 DEF IInv, LoopOK
<1>6. stored' \in {stored, Larger(stored, UpdateFrom)} \/ (step = "save" /\ stored' = cursor)
  BY <1>1
<1> QED
  BY <1>1, <1>4, <1>5, <1>6, Leaves

-----------------------------------------------------------------------------
(* The steps of the work. *)

\* Types and loop, for a step of the work.
LEMMA WorkTyped ==
    ASSUME IInv, Stays, step # "idle", cursor <= best, step' \in Steps \ {"idle", "block"},
           tx' \in Nat, DOMAIN held' = {"supply", "from", "to"},
           Written \/ UNCHANGED <<contracts, supplies, balances>>
    PROVE  /\ Typed' /\ LoopOK' /\ UNCHANGED <<best, stored, cursor>>
<1>1. UNCHANGED <<best, stored, phase, lastCheckedBlock, cursor>>
  BY DEF Stays, nodeVars
<1>2. Typed'
  BY <1>1, WrittenTyped DEF IInv, Typed
<1>3. LoopOK'
  BY <1>1, Numbers DEF IInv, LoopOK
<1> QED
  BY <1>1, <1>2, <1>3

\* A step that settles p, with the rows right for it.
LEMMA Serves ==
    ASSUME IInv, Stays, step \in Working, NEW p \in todo, Done(p),
           Written \/ UNCHANGED <<contracts, supplies, balances>>,
           NEW C, NEW S, NEW T, NEW B, NEW M,
           C = contracts', S = supplies', T = transfers', B = balances', M = missed',
           RowsOK(C, S, T, B, M), Served(p, C, S, T, B, M)
    PROVE  IInv'
<1>1. step \notin {"idle", "block"} /\ cursor <= best
  BY Numbers DEF IInv, Working, Begun
<1>2. GoOn(todo \ {p}) /\ UNCHANGED <<stored, cursor, best>>
  BY DEF Done, Stays, nodeVars
<1>3. /\ Gains(p) /\ WorkInv' /\ step' \in {"work", "transaction", "save"} /\ tx' \in Nat
      /\ held' = NoAnswers
  BY <1>2, GoOnGains DEF IInv
<1>4. Typed' /\ LoopOK'
  BY <1>1, <1>3, WorkTyped DEF NoAnswers, Steps, Reads, Writes
<1>5. RowsOK(C, S, T, B, M)'
  BY <1>2, <1>3, <1>4, GoesOn DEF IInv
<1>6. RowInv'
  BY <1>5, RowsFollow
<1>7. ItemInv' /\ HeldInv'
  BY <1>3 DEF ItemInv, HeldInv
<1> QED
  BY <1>3, <1>4, <1>6, <1>7 DEF IInv

\* A step that stays with a piece of work.
LEMMA Continues ==
    ASSUME IInv, Stays, step \in Working, step' \in Begun, UNCHANGED <<tx, todo>>,
           item' \in todo, DOMAIN held' = {"supply", "from", "to"},
           Written \/ UNCHANGED rowVars
    PROVE  Typed' /\ LoopOK' /\ WorkInv' /\ RowInv' /\ UNCHANGED <<best, stored, cursor>>
<1>1. step \notin {"idle", "block"} /\ cursor <= best
  BY Numbers DEF IInv, Working, Begun
<1>2. step' \in Steps \ {"idle", "block"} /\ step' \in Working /\ tx' \in Nat
      /\ step' \notin {"transaction", "receipt", "save"}
  BY DEF IInv, Typed, Begun, Working, Steps, Reads, Writes
<1>3. Typed' /\ LoopOK' /\ UNCHANGED <<best, stored, cursor>>
  BY <1>1, <1>2, WorkTyped DEF rowVars
<1>4. WorkInv'
  BY <1>2, <1>3 DEF IInv, WorkInv
<1>5. Gains(NoPlace)
  BY <1>2, <1>3, StayingGains
<1>6. RowInv'
  BY <1>3, <1>5, RowsKept
<1> QED
  BY <1>3, <1>4, <1>6

LEMMA BlockKeeps ==
    ASSUME IInv, GetBlock \/ GetTransaction \/ GetReceipt
    PROVE  IInv'
<1>1. CASE GetBlock
  <2>1. /\ step = "block" /\ cursor <= best /\ Stays /\ tx' = 1 /\ UNCHANGED <<held, rowVars>>
        /\ step' = IF TxsOf[cursor] = <<>> THEN "save" ELSE "transaction"
    BY <1>1 DEF GetBlock
  <2>2. Typed' /\ LoopOK' /\ UNCHANGED <<best, stored, cursor>>
    BY <2>1, WorkTyped DEF IInv, Typed, Steps, Reads, Writes, rowVars
  <2>3. cursor \in Heights /\ cursor \in Nat
    BY <2>1, <2>2, Numbers DEF IInv, Heights
  <2>4. TxsOf[cursor] = <<>> => Len(TxsOf[cursor]) = 0
    OBVIOUS
  <2>5. TxsOf[cursor] # <<>> => 1 \in DOMAIN TxsOf[cursor]
    BY <2>3, ChainTypes
  <2>6. WorkInv'
    BY <2>1, <2>2, <2>4, <2>5 DEF WorkInv, Working, Begun
  <2>7. ItemInv' /\ HeldInv'
    BY <2>1 DEF ItemInv, HeldInv
  <2>8. Gains(NoPlace)
    <3> SUFFICES ASSUME NEW h \in Heights, NEW t \in DOMAIN TxsOf[h], NEW q, Settled(h, t, q)'
                 PROVE  Settled(h, t, q)
      BY DEF Gains
    <3>1. CASE h <= stored
      BY <3>1 DEF Settled
    <3>2. CASE ~(h <= stored)
      <4>1. Passed(h, t, q)'
        BY <2>2, <3>2 DEF Settled
      <4>2. h = cursor /\ (t < 1 \/ (t = 1 /\ step' # "transaction"))
        BY <2>1, <2>2, <4>1 DEF Passed
      <4>3. t \in 1..Len(TxsOf[h])
        BY ChainTypes
      <4> QED
        BY <2>1, <2>4, <4>2, <4>3
    <3> QED
      BY <3>1, <3>2
  <2>9. RowInv'
    BY <2>1, <2>2, <2>8, RowsKept
  <2> QED
    BY <2>2, <2>6, <2>7, <2>9 DEF IInv
<1>2. CASE GetTransaction
  <2>1. step = "transaction" /\ step' = "receipt" /\ Stays /\ UNCHANGED <<workVars, rowVars>>
    BY <1>2 DEF GetTransaction
  <2>2. cursor <= best
    BY <2>1, Numbers DEF IInv
  <2>3. Typed' /\ LoopOK' /\ UNCHANGED <<best, stored, cursor>>
    BY <2>1, <2>2, WorkTyped DEF IInv, Typed, Steps, Reads, Writes, rowVars, workVars
  <2>4. WorkInv' /\ ItemInv' /\ HeldInv'
    BY <2>1, <2>3 DEF IInv, WorkInv, ItemInv, HeldInv, Working, Begun, workVars
  <2>5. Gains(NoPlace)
    BY <2>1, <2>3 DEF Gains, Settled, Passed, workVars
  <2>6. RowInv'
    BY <2>1, <2>3, <2>5, RowsKept
  <2> QED
    BY <2>3, <2>4, <2>6 DEF IInv
<1>3. CASE GetReceipt
  <2>1. step = "receipt" /\ GoOn(WorkOf(cursor, tx)) /\ Stays /\ UNCHANGED rowVars
    BY <1>3 DEF GetReceipt
  <2>2. cursor <= best /\ UNCHANGED <<stored, cursor, best>>
    BY <2>1, Numbers DEF IInv, Stays, nodeVars
  <2>3. /\ Gains(NoPlace) /\ WorkInv' /\ step' \in {"work", "transaction", "save"}
        /\ tx' \in Nat /\ held' = NoAnswers
    BY <2>1, <2>2, GoOnGains DEF IInv
  <2>4. Typed' /\ LoopOK'
    BY <2>1, <2>2, <2>3, WorkTyped DEF NoAnswers, Steps, Reads, Writes, rowVars
  <2>5. RowInv'
    BY <2>1, <2>2, <2>3, <2>4, RowsKept
  <2>6. ItemInv' /\ HeldInv'
    BY <2>3 DEF ItemInv, HeldInv
  <2> QED
    BY <2>3, <2>4, <2>5, <2>6 DEF IInv
<1> QED
  BY <1>1, <1>2, <1>3

\* The next piece is begun, or passed over.
LEMMA WorkKeeps ==
    ASSUME IInv, NEW p \in todo, Work(p) \/ SupplyLookupFails(p)
    PROVE  IInv'
<1>0. /\ step = "work" /\ NextIs(p) /\ step \in Working /\ Stays
  BY DEF Work, SupplyLookupFails, Working
<1>1. /\ tx \in DOMAIN TxsOf[cursor] /\ cursor \in Heights /\ cursor <= best
      /\ cursor \in Nat /\ best \in Nat /\ p \in WorkOf(cursor, tx) /\ UpdateFrom < cursor
  BY <1>0, Numbers DEF IInv, WorkInv
<1>2. ASSUME UNCHANGED rowVars \/ SupplyLookupFails(p), Done(p), p.kind # "create",
             p.kind = "event" => p.contract \notin Ours,
             p.kind = "supply" => p.contract \notin contracts \/ SupplyLookupFails(p)
      PROVE  IInv'
  <2>1. PICK C, S, T, B, M : /\ C = contracts' /\ S = supplies' /\ T = transfers'
                             /\ B = balances' /\ M = missed'
    OBVIOUS
  <2>2. /\ C = contracts /\ S = supplies /\ T = transfers /\ B = balances /\ missed \subseteq M
        /\ p.kind = "supply" => p.contract \notin C \ M
    BY <1>2, <2>1 DEF rowVars, SupplyLookupFails
  <2>3. RowsOK(C, S, T, B, M)
    BY <2>2 DEF IInv, RowInv, RowsOK, SuppliesOK
  <2>4. Served(p, C, S, T, B, M)
    BY <1>0, <1>1, <1>2, <2>2 DEF Served
  <2> QED
    BY <1>0, <1>2, <2>1, <2>3, <2>4, Serves DEF rowVars, SupplyLookupFails
<1>3. ASSUME NEW next \in Begun, Begin(p, next), UNCHANGED rowVars
      PROVE  /\ Typed' /\ LoopOK' /\ WorkInv' /\ RowInv' /\ step' = next /\ item' = p
             /\ UNCHANGED <<best, stored, cursor, tx, todo, held, rowVars>>
  <2>1. step' = next /\ item' = p /\ UNCHANGED <<tx, todo, held>>
    BY <1>3 DEF Begin
  <2>2. DOMAIN held' = {"supply", "from", "to"}
    BY <2>1 DEF IInv, Typed
  <2> QED
    BY <1>0, <1>3, <2>1, <2>2, Continues
<1>4. CASE SupplyLookupFails(p)
  BY <1>2, <1>4 DEF SupplyLookupFails
<1>5. CASE Work(p) /\ p.kind = "create"
  <2>1. Begin(p, IF Created(p).born THEN "created" ELSE "contract") /\ UNCHANGED rowVars
    BY <1>5 DEF Work
  <2>2. PICK next \in {"created", "contract"} :
          next = IF Created(p).born THEN "created" ELSE "contract"
    OBVIOUS
  <2>3. next \in Begun
    BY <2>2 DEF Begun
  <2>4. /\ Typed' /\ LoopOK' /\ WorkInv' /\ RowInv' /\ step' = next /\ item' = p
        /\ UNCHANGED <<best, stored, cursor, tx, todo, held, rowVars>>
    BY <1>3, <2>1, <2>2, <2>3
  <2>5. Created(item)' = Created(p)
    BY <2>4 DEF Created
  <2>6. ItemInv'
    BY <1>5, <2>2, <2>4, <2>5 DEF ItemInv
  <2>7. ASSUME next = "contract" PROVE HeldInv'
    <3>1. PICK n \in Creates : /\ n.height = cursor /\ n.create = Created(p)
                               /\ n.create.contract = p.contract
      BY <1>1, <1>5, ItsCreate
    <3>2. ~Created(p).born
      BY <2>2, <2>7
    <3>3. SupplyAt(p.contract, cursor) = 0
      BY <3>1, <3>2, NotBorn
    <3>4. held.supply = 0
      BY <1>0 DEF IInv, HeldInv, NoAnswers
    <3>5. MadeBy(p.contract, cursor)
      BY <1>1, <3>1, ChainAssumption DEF MadeBy
    <3>6. cursor \in cursor..best
      BY <1>1
    <3>7. NowSupply(held.supply, p.contract)
      BY <3>3, <3>4, <3>5, <3>6 DEF NowSupply
    <3>8. NowSupply(held.supply, item.contract)'
      BY <2>4, <3>7 DEF NowSupply
    <3> QED
      BY <2>4, <2>5, <2>7, <3>2, <3>8 DEF HeldInv
  <2>8. ASSUME next = "created" PROVE HeldInv'
    BY <2>4, <2>8 DEF HeldInv
  <2> QED
    BY <2>2, <2>4, <2>6, <2>7, <2>8 DEF IInv
<1>6. CASE Work(p) /\ p.kind = "supply" /\ Known(p.contract)
  <2>1. Begin(p, "supply") /\ UNCHANGED rowVars
    BY <1>6 DEF Work
  <2>2. /\ Typed' /\ LoopOK' /\ WorkInv' /\ RowInv' /\ step' = "supply" /\ item' = p
        /\ UNCHANGED <<best, stored, cursor, tx, todo, held, rowVars>>
    BY <1>3, <2>1 DEF Begun
  <2>3. ItemInv' /\ HeldInv'
    BY <1>6, <2>2 DEF ItemInv, HeldInv, Known, rowVars
  <2> QED
    BY <2>2, <2>3 DEF IInv
<1>7. CASE Work(p) /\ p.kind = "event" /\ Known(p.contract)
  <2>1. Begin(p, "transfer") /\ UNCHANGED rowVars
    BY <1>7 DEF Work
  <2>2. /\ Typed' /\ LoopOK' /\ WorkInv' /\ RowInv' /\ step' = "transfer" /\ item' = p
        /\ UNCHANGED <<best, stored, cursor, tx, todo, held, rowVars>>
    BY <1>3, <2>1 DEF Begun
  <2>3. ItemInv' /\ HeldInv'
    BY <1>7, <2>2 DEF ItemInv, HeldInv, Known, rowVars
  <2> QED
    BY <2>2, <2>3 DEF IInv
<1>8. CASE Work(p) /\ p.kind # "create" /\ ~Known(p.contract)
  <2>1. Done(p) /\ UNCHANGED rowVars
    BY <1>8 DEF Work
  <2>2. p.kind = "event" => p.contract \notin Ours
    BY <1>0, <1>8, KnownInTime
  <2> QED
    BY <1>2, <1>8, <2>1, <2>2 DEF Known
<1>9. p.kind \in {"create", "supply", "event"}
  BY <1>1, Pieces
<1> QED
  BY <1>4, <1>5, <1>6, <1>7, <1>8, <1>9

\* The contract of the item is made by now, whatever the item is.
LEMMA ItemIsMade ==
    ASSUME IInv, step \in Begun,
           item.kind = "create" \/ (item.kind \in {"supply", "event"} /\ Known(item.contract))
    PROVE  MadeBy(item.contract, best)
<1>1. CASE item.kind = "create"
  <2>1. PICK n \in Creates : /\ n.height = cursor
                             /\ \A m \in Creates : m.create.contract = item.contract => m = n
    BY <1>1, ItemCreates
  <2> QED
    BY <2>1, AtWork DEF MadeBy
<1>2. CASE Known(item.contract)
  <2>1. PICK n \in Creates : n.create.contract = item.contract /\ n.height <= best
    BY <1>2 DEF Known, IInv, RowInv, RowsOK, CameOK
  <2> QED
    BY <2>1, ChainAssumption DEF MadeBy
<1> QED
  BY <1>1, <1>2

\* An answer taken now is of now.
LEMMA AnswerIsNow ==
    ASSUME IInv, step \in Begun, NEW c, NEW a
    PROVE  /\ NowBalance(BalanceAt(c, a, best), c, a)
           /\ MadeBy(c, best) => NowSupply(SupplyAt(c, best), c)
<1>1. best \in cursor..best
  <2>1. cursor \in Nat /\ best \in Nat /\ cursor <= best
    BY AtWork, Numbers DEF IInv
  <2> QED
    BY <2>1
<1> QED
  BY <1>1 DEF NowBalance, NowSupply

\* An answer waits for its write.
LEMMA AnswersKeep ==
    ASSUME IInv, \/ CreatedAnswered \/ CreatorAnswered \/ FromAnswered \/ ToAnswered
                 \/ SupplyAnswered /\ SupplyAt(item.contract, best) # supplies[item.contract]
    PROVE  IInv'
<1>0. DOMAIN held = {"supply", "from", "to"}
  BY DEF IInv, Typed
<1>1. ASSUME step \in Begun, NEW next \in Begun, NEW answers, Answered(answers, next),
             DOMAIN answers = {"supply", "from", "to"}
      PROVE  /\ Typed' /\ LoopOK' /\ WorkInv' /\ RowInv' /\ step' = next /\ held' = answers
             /\ UNCHANGED <<best, stored, cursor, tx, todo, item, rowVars>>
  <2>1. /\ step' = next /\ held' = answers /\ Stays /\ UNCHANGED <<tx, todo, item, rowVars>>
    BY <1>1 DEF Answered
  <2>2. item' \in todo /\ step \in Working
    BY <1>1, <2>1, AtWork
  <2> QED
    BY <1>1, <2>1, <2>2, Continues
<1>2. CASE CreatedAnswered
  <2>1. PICK answers : answers = [held EXCEPT !.supply = SupplyAt(item.contract, best)]
    OBVIOUS
  <2>2. step = "created" /\ Answered(answers, "creator")
    BY <1>2, <2>1 DEF CreatedAnswered
  <2>3. answers.supply = SupplyAt(item.contract, best) /\ DOMAIN answers = {"supply", "from", "to"}
    BY <1>0, <2>1
  <2>4. /\ Typed' /\ LoopOK' /\ WorkInv' /\ RowInv' /\ step' = "creator" /\ held' = answers
        /\ UNCHANGED <<best, stored, cursor, tx, todo, item, rowVars>>
    BY <1>1, <2>2, <2>3 DEF Begun
  <2>5. item.kind = "create" /\ Created(item).born /\ step \in Begun
    BY <2>2 DEF IInv, ItemInv, Begun
  <2>6. ItemInv'
    BY <2>4, <2>5 DEF ItemInv, Created
  <2>7. NowSupply(answers.supply, item.contract)
    BY <2>3, <2>5, ItemIsMade, AnswerIsNow
  <2>8. HeldInv'
    BY <2>4, <2>7 DEF HeldInv, NowSupply
  <2> QED
    BY <2>4, <2>6, <2>8 DEF IInv
<1>3. CASE CreatorAnswered
  <2>1. PICK answers :
          answers = [held EXCEPT !.to = BalanceAt(item.contract, Created(item).creator, best)]
    OBVIOUS
  <2>2. step = "creator" /\ Answered(answers, "balance")
    BY <1>3, <2>1 DEF CreatorAnswered
  <2>3. /\ answers.to = BalanceAt(item.contract, Created(item).creator, best)
        /\ answers.supply = held.supply /\ DOMAIN answers = {"supply", "from", "to"}
    BY <1>0, <2>1
  <2>4. /\ Typed' /\ LoopOK' /\ WorkInv' /\ RowInv' /\ step' = "balance" /\ held' = answers
        /\ UNCHANGED <<best, stored, cursor, tx, todo, item, rowVars>>
    BY <1>1, <2>2, <2>3 DEF Begun
  <2>5. item.kind = "create" /\ Created(item).born /\ step \in Begun
    BY <2>2 DEF IInv, ItemInv, Begun
  <2>6. ItemInv'
    BY <2>4, <2>5 DEF ItemInv, Created
  <2>7. NowSupply(answers.supply, item.contract)
    BY <2>2, <2>3 DEF IInv, HeldInv
  <2>8. NowBalance(answers.to, item.contract, Created(item).creator)
    BY <2>3, <2>5, AnswerIsNow
  <2>9. HeldInv'
    BY <2>4, <2>7, <2>8 DEF HeldInv, NowSupply, NowBalance, Created
  <2> QED
    BY <2>4, <2>6, <2>9 DEF IInv
<1>4. CASE FromAnswered
  <2>1. PICK answers : answers = [held EXCEPT !.from = BalanceAt(item.contract, Event(item).from, best)]
    OBVIOUS
  <2>2. step = "from" /\ Answered(answers, "to")
    BY <1>4, <2>1 DEF FromAnswered
  <2>3. /\ answers.from = BalanceAt(item.contract, Event(item).from, best)
        /\ DOMAIN answers = {"supply", "from", "to"}
    BY <1>0, <2>1
  <2>4. /\ Typed' /\ LoopOK' /\ WorkInv' /\ RowInv' /\ step' = "to" /\ held' = answers
        /\ UNCHANGED <<best, stored, cursor, tx, todo, item, rowVars>>
    BY <1>1, <2>2, <2>3 DEF Begun
  <2>5. /\ item.kind = "event" /\ Known(item.contract) /\ Kept(transfers, TransferOf(item))
        /\ step \in Begun
    BY <2>2 DEF IInv, ItemInv, Begun
  <2>6. ItemInv'
    BY <2>4, <2>5 DEF ItemInv, Known, Kept, TransferOf, Event, rowVars
  <2>7. NowBalance(answers.from, item.contract, Event(item).from)
    BY <2>3, <2>5, AnswerIsNow
  <2>8. HeldInv'
    BY <2>4, <2>7 DEF HeldInv, NowBalance, Event
  <2> QED
    BY <2>4, <2>6, <2>8 DEF IInv
<1>5. CASE ToAnswered
  <2>1. PICK answers : answers = [held EXCEPT !.to = BalanceAt(item.contract, Event(item).to, best)]
    OBVIOUS
  <2>2. step = "to" /\ Answered(answers, "writefrom")
    BY <1>5, <2>1 DEF ToAnswered
  <2>3. /\ answers.to = BalanceAt(item.contract, Event(item).to, best)
        /\ answers.from = held.from /\ DOMAIN answers = {"supply", "from", "to"}
    BY <1>0, <2>1
  <2>4. /\ Typed' /\ LoopOK' /\ WorkInv' /\ RowInv' /\ step' = "writefrom" /\ held' = answers
        /\ UNCHANGED <<best, stored, cursor, tx, todo, item, rowVars>>
    BY <1>1, <2>2, <2>3 DEF Begun
  <2>5. /\ item.kind = "event" /\ Known(item.contract) /\ Kept(transfers, TransferOf(item))
        /\ step \in Begun
    BY <2>2 DEF IInv, ItemInv, Begun
  <2>6. ItemInv'
    BY <2>4, <2>5 DEF ItemInv, Known, Kept, TransferOf, Event, rowVars
  <2>7. NowBalance(answers.from, item.contract, Event(item).from)
    BY <2>2, <2>3 DEF IInv, HeldInv
  <2>8. NowBalance(answers.to, item.contract, Event(item).to)
    BY <2>3, <2>5, AnswerIsNow
  <2>9. HeldInv'
    BY <2>4, <2>7, <2>8 DEF HeldInv, NowBalance, Event
  <2> QED
    BY <2>4, <2>6, <2>9 DEF IInv
<1>6. CASE SupplyAnswered /\ SupplyAt(item.contract, best) # supplies[item.contract]
  <2>1. PICK answers : answers = [held EXCEPT !.supply = SupplyAt(item.contract, best)]
    OBVIOUS
  <2>2. step = "supply" /\ Answered(answers, "total")
    BY <1>6, <2>1 DEF SupplyAnswered
  <2>3. answers.supply = SupplyAt(item.contract, best) /\ DOMAIN answers = {"supply", "from", "to"}
    BY <1>0, <2>1
  <2>4. /\ Typed' /\ LoopOK' /\ WorkInv' /\ RowInv' /\ step' = "total" /\ held' = answers
        /\ UNCHANGED <<best, stored, cursor, tx, todo, item, rowVars>>
    BY <1>1, <2>2, <2>3 DEF Begun
  <2>5. item.kind = "supply" /\ Known(item.contract) /\ step \in Begun
    BY <2>2 DEF IInv, ItemInv, Begun
  <2>6. ItemInv'
    BY <2>4, <2>5 DEF ItemInv, Known, rowVars
  <2>7. NowSupply(answers.supply, item.contract)
    BY <2>3, <2>5, ItemIsMade, AnswerIsNow
  <2>8. HeldInv'
    BY <2>4, <2>7 DEF HeldInv, NowSupply
  <2> QED
    BY <2>4, <2>6, <2>8 DEF IInv
<1> QED
  BY <1>2, <1>3, <1>4, <1>5, <1>6

\* The supply in the row is that of the node.
LEMMA SameSupplyKeeps ==
    ASSUME IInv, SupplyAnswered, SupplyAt(item.contract, best) = supplies[item.contract]
    PROVE  IInv'
<1>1. /\ step = "supply" /\ Done(item) /\ missed' = missed \ {item.contract} /\ Stays
      /\ UNCHANGED <<contracts, supplies, transfers, balances>>
  BY DEF SupplyAnswered
<1>2. item.kind = "supply" /\ Known(item.contract) /\ step \in Begun
  BY <1>1 DEF IInv, ItemInv, Begun
<1>3. NowSupply(supplies[item.contract], item.contract)
  BY <1>2, ItemIsMade, AnswerIsNow
<1>4. PICK C, S, T, B, M : /\ C = contracts' /\ S = supplies' /\ T = transfers'
                           /\ B = balances' /\ M = missed'
  OBVIOUS
<1>5. /\ C = contracts /\ S = supplies /\ T = transfers /\ B = balances
      /\ M = missed \ {item.contract}
  BY <1>1, <1>4
<1>6. RowsOK(C, S, T, B, M)
  <2>1. item.contract \in Ours
    BY <1>2, KnownAreOurs DEF IInv, RowInv, RowsOK, Known
  <2>2. FreshSupply(supplies[item.contract], item.contract)
    BY <1>2, <1>3, <2>1, AtWork, NowIsFreshSupply DEF IInv
  <2>3. SuppliesOK(C, S, M)
    BY <1>5, <2>2 DEF IInv, RowInv, RowsOK, SuppliesOK
  <2> QED
    BY <1>5, <2>3 DEF IInv, RowInv, RowsOK
<1>7. Served(item, C, S, T, B, M)
  BY <1>2, <1>3, <1>5, AtWork DEF Served
<1> QED
  BY <1>1, <1>2, <1>4, <1>6, <1>7, AtWork, Serves

\* A write after which there is more to do for the item.
LEMMA HalfWrittenKeeps ==
    ASSUME IInv, Write, step \in {"balance", "transfer", "writefrom"}
    PROVE  IInv'
<1>0. /\ DOMAIN AfterWrite = {"balance", "transfer", "writefrom"}
      /\ AfterWrite["balance"] = "contract" /\ AfterWrite["transfer"] = "from"
      /\ AfterWrite["writefrom"] = "writeto"
  BY DEF AfterWrite
<1>1. /\ Written /\ Stays /\ UNCHANGED <<tx, todo, item, held>>
      /\ step' = AfterWrite[step]
  BY <1>0 DEF Write, workVars
<1>2. step \in Begun /\ step' \in Begun
  BY <1>0, <1>1 DEF Begun
<1>3. Typed' /\ LoopOK' /\ WorkInv' /\ RowInv' /\ UNCHANGED <<best, stored, cursor>>
  <2>1. item' \in todo /\ step \in Working
    BY <1>1, <1>2, AtWork
  <2>2. DOMAIN held' = {"supply", "from", "to"}
    BY <1>1 DEF IInv, Typed
  <2> QED
    BY <1>1, <1>2, <2>1, <2>2, Continues
<1>4. CASE step = "balance"
  <2>1. /\ step' = "contract" /\ item.kind = "create" /\ Created(item).born
        /\ NowSupply(held.supply, item.contract)
        /\ NowBalance(held.to, item.contract, Created(item).creator)
    BY <1>0, <1>1, <1>4 DEF IInv, ItemInv, HeldInv
  <2>2. item.contract \in Contracts /\ Created(item).creator \in Holders \cup {Nobody}
    BY <1>2, <2>1, ItemCreates
  <2>3. CheckBalance(item.contract, Created(item).creator, held.to)
    BY <1>1, <1>4 DEF Written, CreatorWritten
  <2>4. balances'[item.contract][Created(item).creator] = held.to
    BY <2>2, <2>3, RowReplaced DEF IInv
  <2>5. ItemInv'
    BY <1>1, <2>1 DEF ItemInv
  <2>6. Created(item)' = Created(item)
    BY <1>1, <1>3 DEF Created
  <2>7. HeldInv'
    BY <1>1, <1>3, <2>1, <2>4, <2>6 DEF HeldInv, NowSupply, NowBalance
  <2> QED
    BY <1>3, <2>5, <2>7 DEF IInv
<1>5. CASE step = "transfer"
  <2>1. step' = "from" /\ item.kind = "event" /\ Known(item.contract)
    BY <1>0, <1>1, <1>5 DEF IInv, ItemInv
  <2>2. TransferOf(item) \in transfers' /\ contracts' = contracts
    BY <1>1, <1>5 DEF Written, TransferWritten
  <2>3. TransferOf(item)' = TransferOf(item)
    BY <1>1, <1>3 DEF TransferOf, Event
  <2>4. Kept(transfers, TransferOf(item))'
    BY <2>2, <2>3 DEF Kept
  <2>5. ItemInv'
    BY <1>1, <2>1, <2>2, <2>4 DEF ItemInv, Known
  <2>6. HeldInv'
    BY <2>1 DEF HeldInv
  <2> QED
    BY <1>3, <2>5, <2>6 DEF IInv
<1>6. CASE step = "writefrom"
  <2>1. /\ step' = "writeto" /\ item.kind = "event" /\ Known(item.contract)
        /\ Kept(transfers, TransferOf(item))
        /\ NowBalance(held.from, item.contract, Event(item).from)
        /\ NowBalance(held.to, item.contract, Event(item).to)
    BY <1>0, <1>1, <1>6 DEF IInv, ItemInv, HeldInv
  <2>2. item.contract \in Contracts /\ Event(item).from \in Holders \cup {Nobody}
    BY <1>2, <2>1, ItemMoves
  <2>3. CheckBalance(item.contract, Event(item).from, held.from)
        /\ UNCHANGED <<contracts, transfers>>
    BY <1>1, <1>6 DEF Written, FromWritten
  <2>4. balances'[item.contract][Event(item).from] = held.from
    BY <2>2, <2>3, RowReplaced DEF IInv
  <2>5. Event(item)' = Event(item) /\ TransferOf(item)' = TransferOf(item)
    BY <1>1, <1>3 DEF Event, TransferOf
  <2>6. ItemInv'
    BY <1>1, <2>1, <2>3, <2>5 DEF ItemInv, Known, Kept
  <2>7. HeldInv'
    BY <1>1, <1>3, <2>1, <2>4, <2>5 DEF HeldInv, NowBalance
  <2> QED
    BY <1>3, <2>6, <2>7 DEF IInv
<1> QED
  BY <1>4, <1>5, <1>6

\* The last write for an item.
LEMMA LastWriteKeeps ==
    ASSUME IInv, Write, step \in {"contract", "total", "writeto"}
    PROVE  IInv'
<1>0. step \notin DOMAIN AfterWrite
  BY DEF AfterWrite
<1>1. Written /\ Stays /\ Done(item)
  BY <1>0 DEF Write
<1>2. step \in Begun
  BY DEF Begun
<1>3. PICK C, S, T, B, M : /\ C = contracts' /\ S = supplies' /\ T = transfers'
                           /\ B = balances' /\ M = missed'
  OBVIOUS
<1>4. RowsOK(C, S, T, B, M)
  BY <1>1, <1>3, RowsWritten
<1>5. /\ cursor \in Heights /\ tx \in DOMAIN TxsOf[cursor] /\ item \in WorkOf(cursor, tx)
      /\ step \notin {"idle", "block"} /\ item \in todo /\ step \in Working
  BY <1>2, AtWork
<1>6. CASE step = "contract"
  <2>1. item.kind = "create" /\ item.contract \in C
    BY <1>1, <1>3, <1>6 DEF IInv, ItemInv, Written, ContractWritten
  <2>2. Served(item, C, S, T, B, M)
    BY <1>5, <2>1 DEF Served
  <2> QED
    BY <1>1, <1>3, <1>4, <1>5, <2>2, Serves
<1>7. CASE step = "total"
  <2>1. /\ item.kind = "supply" /\ item.contract \in contracts
        /\ NowSupply(held.supply, item.contract)
    BY <1>7 DEF IInv, ItemInv, HeldInv, Known
  <2>2. S[item.contract] = held.supply
    BY <1>1, <1>3, <1>7, <2>1 DEF IInv, Typed, Written, TotalWritten
  <2>3. Served(item, C, S, T, B, M)
    BY <1>5, <2>1, <2>2 DEF Served
  <2> QED
    BY <1>1, <1>3, <1>4, <1>5, <2>3, Serves
<1>8. CASE step = "writeto"
  <2>1. /\ item.kind = "event" /\ Kept(transfers, TransferOf(item))
        /\ NowBalance(held.to, item.contract, Event(item).to)
        /\ NowBalance(balances[item.contract][Event(item).from], item.contract,
                      Event(item).from)
    BY <1>8 DEF IInv, ItemInv, HeldInv
  <2>2. /\ CheckBalance(item.contract, Event(item).to, held.to) /\ T = transfers
    BY <1>1, <1>3, <1>8 DEF Written, ToWritten
  <2>3. /\ item.contract \in Contracts /\ Event(item).to \in Holders \cup {Nobody}
        /\ Event(item).from \in Holders \cup {Nobody} /\ TransferOf(item).event = Event(item)
    BY <1>2, <2>1, ItemMoves
  <2>4. \A a \in Holders \cup {Nobody} :
           B[item.contract][a] = IF a = Event(item).to THEN held.to ELSE balances[item.contract][a]
    <3>1. B = balances' /\ Typed
      BY <1>3 DEF IInv
    <3>2. ASSUME NEW a \in Holders \cup {Nobody}
          PROVE  B[item.contract][a] =
                    IF a = Event(item).to THEN held.to ELSE balances[item.contract][a]
      BY <2>2, <2>3, <3>1, RowReplaced
    <3> QED
      BY <3>2
  <2>5. ASSUME NEW a \in Holders, Touches(TransferOf(item), a)
        PROVE  NowBalance(B[item.contract][a], item.contract, a)
    <3>1. a = Event(item).from \/ a = Event(item).to
      BY <2>3, <2>5 DEF Touches
    <3>2. CASE a = Event(item).to
      <4>1. B[item.contract][a] = held.to
        BY <2>4, <3>2
      <4> QED
        BY <2>1, <3>2, <4>1
    <3>3. CASE a # Event(item).to
      <4>1. B[item.contract][a] = balances[item.contract][a]
        BY <2>4, <3>3
      <4> QED
        BY <2>1, <3>1, <3>3, <4>1
    <3> QED
      BY <3>2, <3>3
  <2>6. Kept(T, TransferOf(item))
    BY <2>1, <2>2
  <2>7. Served(item, C, S, T, B, M)
    BY <1>5, <2>1, <2>5, <2>6 DEF Served
  <2> QED
    BY <1>1, <1>3, <1>4, <1>5, <2>7, Serves
<1> QED
  BY <1>6, <1>7, <1>8

LEMMA InitLemma ==
    ASSUME Init
    PROVE  IInv
<1>0. MaxHeight \in Nat \ {0} /\ UpdateFrom \in 0..MaxHeight
  BY LoopAssumption, ChainAssumption
<1>1. Typed
  BY DEF Init, LoopInit, Typed, Steps, NoAnswers
<1>2. LoopOK
  BY <1>0 DEF Init, LoopInit, LoopOK, Heights
<1>3. WorkInv /\ ItemInv /\ HeldInv
  BY DEF Init, LoopInit, WorkInv, ItemInv, HeldInv, Working, Begun
<1>4. ASSUME NEW h \in Heights, NEW t, NEW p, Settled(h, t, p)
      PROVE  FALSE
  BY <1>0, <1>4 DEF Settled, Passed, Init, LoopInit, Heights
<1>5. KnownOK(contracts) /\ CameOK(contracts) /\ SuppliesOK(contracts, supplies, missed)
  <2>1. KnownOK(contracts)
    BY <1>4, CreateFacts DEF KnownOK, CreateDone
  <2> QED
    BY <2>1 DEF CameOK, SuppliesOK, Init
<1>6. TransfersOK(transfers)
  BY <1>4, EventFacts DEF TransfersOK, EventDone
<1>7. BalancesOK(contracts, balances)
  <2> SUFFICES ASSUME NEW c \in Ours, NEW a \in Holders
               PROVE  FreshBalance(contracts, balances[c][a], c, a)
    BY DEF BalancesOK
  <2>1. c \in Contracts
    BY OursAreContracts
  <2>2. balances[c][a] = 0
    BY <2>1 DEF Init
  <2>3. balances[c][a] = BalanceAt(c, a, 0)
    BY <2>2, AtFirst
  <2>4. 0 \in 0..best /\ c \notin contracts
    BY <1>0, <1>1 DEF Typed, Heights, Init
  <2>5. \A e \in Logged(c, best) : ~EventDone(e)
    BY <1>4, EventFacts DEF EventDone, Logged
  <2> QED
    BY <2>3, <2>4, <2>5 DEF FreshBalance
<1> QED
  BY <1>1, <1>2, <1>3, <1>5, <1>6, <1>7 DEF IInv, RowInv, RowsOK

LEMMA StepLemma ==
    ASSUME IInv, [Next]_vars
    PROVE  IInv'
<1>1. CASE UNCHANGED vars
  BY <1>1, Untouched DEF vars, loopVars, nodeVars, runVars
<1>2. CASE NodeMoves
  BY <1>2, NodeKeeps
<1>3. CASE Start \/ StartFails \/ GetLastBlock \/ GetInfo
  BY <1>3, StartKeeps
<1>4. CASE \E height \in Heights : Tip(height)
  BY <1>4, TipKeeps
<1>5. CASE GetBlock \/ GetTransaction \/ GetReceipt
  BY <1>5, BlockKeeps
<1>6. CASE \E p \in todo : Work(p) \/ SupplyLookupFails(p)
  BY <1>6, WorkKeeps
<1>7. CASE CreatedAnswered \/ CreatorAnswered \/ FromAnswered \/ ToAnswered
  BY <1>7, AnswersKeep
<1>8. CASE SupplyAnswered
  BY <1>8, AnswersKeep, SameSupplyKeeps
<1>9. CASE Write
  <2>1. step \in {"balance", "transfer", "writefrom"} \/ step \in {"contract", "total", "writeto"}
    BY <1>9 DEF Write, Writes
  <2> QED
    BY <1>9, <2>1, HalfWrittenKeeps, LastWriteKeeps
<1>10. CASE Save
  BY <1>10, SaveKeeps
<1>11. CASE Fails \/ TransactionFails \/ Crash
  BY <1>11, FailuresKeep
<1> QED
  BY <1>1, <1>2, <1>3, <1>4, <1>5, <1>6, <1>7, <1>8, <1>9, <1>10, <1>11 DEF Next

-----------------------------------------------------------------------------
(* What it is for. *)

\* The invariant holds: what the rows hold is right for the work that is settled.
THEOREM RowsAreRight == Spec => []IInv
<1>1. Init => IInv
  BY InitLemma
<1>2. IInv /\ [Next]_vars => IInv'
  BY StepLemma
<1> QED
  BY <1>1, <1>2, PTL DEF Spec

\* The events the checkpoint has passed are in the collection, whatever failed, crashed and
\* was done again on the way (processReceipt, Src20Watcher.js).
THEOREM TransfersAreKept == Spec => []TransfersKept
<1>1. IInv => TransfersKept
  BY DEF IInv, RowInv, RowsOK, TransfersOK, EventDone, Settled, Kept, TransfersKept
<1> QED
  BY <1>1, RowsAreRight, PTL

\* The balances and the supplies in the rows are those of the node now, although they were
\* asked for at other times and in blocks that may have been processed several times
\* (updateBalances, updateTotalSupply).
THEOREM RowsAreTheNodes == Spec => []RowsAreCurrent
<1>1. ASSUME IInv PROVE BalancesAreCurrent
  <2> DEFINE Unseen(e, c, a) ==
               \/ e.height > stored
               \/ /\ LeftAlone(e)
                  /\ \A n \in CreatedIn(c, e.height) : n.create.creator # a
  <2> SUFFICES ASSUME NEW c \in contracts, NEW a \in Holders,
                      \A e \in Logged(c, best) : a \in {e.event.from, e.event.to}
                                                    => ~Unseen(e, c, a)
               PROVE  balances[c][a] = BalanceAt(c, a, best)
    BY DEF BalancesAreCurrent
  <2>1. c \in Ours
    BY <1>1, KnownAreOurs DEF IInv, RowInv, RowsOK
  <2>2. PICK h \in 0..best :
          /\ balances[c][a] = BalanceAt(c, a, h)
          /\ \A e \in Logged(c, best) :
                Touches(e, a) /\ e.height > h /\ ~LeftAlone(e) => ~EventDone(e)
          /\ \A n \in Creates : n.create.contract = c /\ n.create.born /\ n.create.creator = a
                                => n.height <= h
    BY <1>1, <2>1 DEF IInv, RowInv, RowsOK, BalancesOK, FreshBalance
  <2>3. h \in Nat /\ best \in Nat /\ h <= best /\ stored \in Nat
    BY <1>1, <2>2, Numbers DEF IInv
  <2>4. ASSUME NEW e \in Logged(c, best), Touches(e, a)
        PROVE  e.height <= h
    <3>1. ~Unseen(e, c, a)
      BY <2>4 DEF Touches
    <3>2. e \in Events /\ e.event.contract = c /\ e.height \in Nat
      <4>1. e \in Events /\ e.event.contract = c
        BY DEF Logged
      <4>2. e.height \in Heights
        BY <4>1, EventFacts
      <4> QED
        BY <4>1, <4>2, LoopAssumption DEF Heights
    <3>3. e.height <= stored
      BY <2>3, <3>1, <3>2
    <3>4. CASE LeftAlone(e)
      <4>1. PICK n \in CreatedIn(c, e.height) : n.create.creator = a
        BY <3>1, <3>4
      <4>2. n \in Creates /\ n.create.contract = c /\ n.height = e.height
        BY <4>1 DEF CreatedIn
      <4>3. n.create.born
        BY <3>2, <4>2, ChainAssumption
      <4> QED
        BY <2>2, <4>1, <4>2, <4>3
    <3>5. CASE ~LeftAlone(e)
      <4>1. EventDone(e)
        BY <3>3 DEF EventDone, Settled
      <4> QED
        BY <2>2, <2>3, <2>4, <3>2, <3>5, <4>1
    <3> QED
      BY <3>4, <3>5
  <2>5. \A n \in Born(c, best) : n.create.creator = a => n.height <= h
    BY <2>2 DEF Born
  <2> QED
    BY <2>2, <2>3, <2>4, <2>5, BalanceStays
<1>2. ASSUME IInv PROVE SuppliesAreCurrent
  <2> DEFINE Unseen(e, c) == \/ e.height > stored
                             \/ e.at \notin Calls(e.height, e.tx) /\ CreatedIn(c, e.height) = {}
  <2> SUFFICES ASSUME NEW c \in contracts \ missed, \A e \in Logged(c, best) : ~Unseen(e, c)
               PROVE  supplies[c] = SupplyAt(c, best)
    BY DEF SuppliesAreCurrent
  <2>1. PICK h \in 0..best :
          /\ supplies[c] = SupplyAt(c, h) /\ MadeBy(c, h)
          /\ \A e \in Logged(c, best) :
                e.height > h /\ e.at \in Calls(e.height, e.tx) => ~SupplyDone(e)
    BY <1>2 DEF IInv, RowInv, RowsOK, SuppliesOK, FreshSupply
  <2>2. h \in Nat /\ best \in Nat /\ h <= best /\ stored \in Nat
    BY <1>2, <2>1, Numbers DEF IInv
  <2>3. ASSUME NEW e \in Logged(c, best)
        PROVE  e.height <= h
    <3>1. ~Unseen(e, c)
      OBVIOUS
    <3>2. e \in Events /\ e.height \in Nat
      <4>1. e \in Events
        BY DEF Logged
      <4>2. e.height \in Heights
        BY <4>1, EventFacts
      <4> QED
        BY <4>1, <4>2, LoopAssumption DEF Heights
    <3>3. e.height <= stored
      BY <2>2, <3>1, <3>2
    <3>4. CASE CreatedIn(c, e.height) # {}
      <4>1. PICK n \in Creates : n.create.contract = c /\ n.height = e.height
        BY <3>4 DEF CreatedIn
      <4> QED
        BY <2>1, <4>1 DEF MadeBy
    <3>5. CASE e.at \in Calls(e.height, e.tx)
      <4>1. SupplyDone(e)
        BY <3>3 DEF SupplyDone, Settled
      <4> QED
        BY <2>1, <2>2, <3>2, <3>5, <4>1
    <3> QED
      BY <3>1, <3>4, <3>5
  <2>4. \A n \in Born(c, best) : n.height <= h
    BY <2>1 DEF Born, MadeBy
  <2> QED
    BY <2>1, <2>2, <2>3, <2>4, SupplyStays
<1>3. IInv => RowsAreCurrent
  BY <1>1, <1>2 DEF RowsAreCurrent
<1> QED
  BY <1>3, RowsAreRight, PTL
=============================================================================
