--------------------------- MODULE Subscriptions ----------------------------
(***************************************************************************)
(* Who is told of what.  Every web socket has a bus (web.js, bus.js); a    *)
(* client subscribes its bus to events of the silubiumd service and of     *)
(* insight-api, which keep lists of buses: one for each kind of message    *)
(* and, for addresses, one for each address.  Transactions and blocks that *)
(* several processes announce are passed on once; the balance of an        *)
(* address, the content of a block and the figures of the status page are  *)
(* asked for first, and go to who is in the list when the answer comes.    *)
(*                                                                         *)
(* A list is the number of times each bus is in it.                        *)
(***************************************************************************)
EXTENDS Integers, Sequences, SequencesExt

CONSTANTS
    Buses,          \* the sockets, each connected once
    Addresses,
    Valid,          \* the addresses of the network
    Transactions,
    AddressesOf,    \* AddressesOf[t]: the addresses of its inputs and outputs
    Blocks,
    Updates,        \* 'updated' events of the statistic service
    None,           \* the room is not that of an address
    MaxCalls,       \* bound: MaxCalls[b]: calls of the client of b
    MaxArrivals     \* bound: announcements of one transaction or block

ASSUME SubscriptionsAssumption ==
    /\ Valid \subseteq Addresses
    /\ Updates \cap (Transactions \cup Blocks) = {}
    /\ AddressesOf \in [Transactions -> Seq(Valid)]
    /\ MaxCalls \in [Buses -> Nat] /\ MaxArrivals \in Nat

Room(name) == [name |-> name, address |-> None]
AddressRoom(name, a) == [name |-> name, address |-> a]

Plain    == {Room("rawtransaction"), Room("hashblock")}
Inv      == Room("inv")
Silubium == Room("silubium")
PerAddress == {"address", "balance"}
AddressRooms == {AddressRoom(name, a) : name \in PerAddress, a \in Addresses}
Rooms == Plain \cup {Inv, Silubium} \cup AddressRooms
Items == Transactions \cup Blocks \cup Updates

VARIABLES
    socket,         \* socket[b]: "new", "open" or "closed"
    calls,          \* calls[b]: calls made by the client of b
    entries,        \* entries[r][b]: how often b is in the list of r
    known,          \* zmqKnownTransactions and zmqKnownBlocks, never full
    arrivals,       \* arrivals[x]: announcements of x
    asked,          \* asked[r][x]: requests under way for what r is told of x
    sent,           \* sent[b][r][x]: messages of r on x sent to the client
    wants,          \* history: rooms the client of b subscribed to
    repeated,       \* history: rooms it was in more than once
    polled,         \* history: blocks reported by a poll
    owed            \* history: what a client was subscribed to when it happened

listVars == <<socket, calls, entries, wants, repeated>>
newsVars == <<known, arrivals, asked, sent, polled>>
busVars == <<listVars, newsVars, owed>>

BusesTypeOK ==
    /\ socket \in [Buses -> {"new", "open", "closed"}]
    /\ \A b \in Buses : calls[b] \in 0..MaxCalls[b]
    /\ entries \in [Rooms -> [Buses -> Nat]]
    /\ known \subseteq Items
    /\ arrivals \in [Items -> 0..MaxArrivals]
    /\ asked \in [Rooms -> [Items -> Nat]]
    /\ sent \in [Buses -> [Rooms -> [Items -> Nat]]]
    /\ wants \in [Buses -> SUBSET Rooms] /\ repeated \in [Buses -> SUBSET Plain]
    /\ polled \subseteq Blocks
    /\ owed \subseteq [bus : Buses, room : Rooms, item : Items]

BusesInit ==
    /\ socket = [b \in Buses |-> "new"]
    /\ calls = [b \in Buses |-> 0]
    /\ entries = [r \in Rooms |-> [b \in Buses |-> 0]]
    /\ known = {} /\ arrivals = [x \in Items |-> 0]
    /\ asked = [r \in Rooms |-> [x \in Items |-> 0]]
    /\ sent = [b \in Buses |-> [r \in Rooms |-> [x \in Items |-> 0]]]
    /\ wants = [b \in Buses |-> {}] /\ repeated = [b \in Buses |-> {}]
    /\ polled = {} /\ owed = {}

-----------------------------------------------------------------------------
(* The calls of a client. *)

\* A bus enters a list that it is looked for in.
EnteredOnce(n) == IF n = 0 THEN 1 ELSE n

\* Wrong: the list of an address is not searched either.
Entered_Again(r, n) == n + 1

\* subscribe of the silubiumd service does not look for the bus in its list; the
\* others do (indexOf).
Entered(r, n) == IF r \in Plain THEN n + 1 ELSE EnteredOnce(n)

\* splice of the first place the bus is found at, if any.
Left(n) == IF n > 0 THEN n - 1 ELSE 0

\* The bus of a socket that connects.
Connect(b) ==
    /\ socket[b] = "new"
    /\ socket' = [socket EXCEPT ![b] = "open"]
    /\ UNCHANGED <<calls, entries, wants, repeated, newsVars, owed>>

Calls(b) ==
    /\ socket[b] = "open" /\ calls[b] < MaxCalls[b]
    /\ calls' = [calls EXCEPT ![b] = @ + 1]
    /\ UNCHANGED <<socket, newsVars>>

Enter(b, rooms) ==
    /\ entries' = [r \in Rooms |->
         IF r \in rooms THEN [entries[r] EXCEPT ![b] = Entered(r, @)] ELSE entries[r]]
    /\ wants' = [wants EXCEPT ![b] = @ \cup rooms]
    /\ repeated' = [repeated EXCEPT ![b] =
         @ \cup {r \in rooms \cap Plain : entries[r][b] > 0}]

\* Wrong: nobody is taken out of the list of an address.
Leave_KeepsAddresses(b, rooms) ==
    /\ entries' = [r \in Rooms |->
         IF r \in rooms \ AddressRooms THEN [entries[r] EXCEPT ![b] = Left(@)]
                                       ELSE entries[r]]
    /\ wants' = [wants EXCEPT ![b] = @ \ rooms]
    /\ owed' = {o \in owed : o.bus # b \/ o.room \notin rooms}
    /\ UNCHANGED repeated

Leave(b, rooms) ==
    /\ entries' = [r \in Rooms |->
         IF r \in rooms THEN [entries[r] EXCEPT ![b] = Left(@)] ELSE entries[r]]
    /\ wants' = [wants EXCEPT ![b] = @ \ rooms]
    /\ owed' = {o \in owed : o.bus # b \/ o.room \notin rooms}
    /\ UNCHANGED repeated

\* bus.subscribe(name) and bus.unsubscribe(name).
Subscribe(b, r) == Calls(b) /\ Enter(b, {r}) /\ UNCHANGED owed
Unsubscribe(b, r) == Calls(b) /\ Leave(b, {r})

RoomsOf(name, as) == {AddressRoom(name, a) : a \in as}

\* bitcore.Address.isValid.
Accepted(as) == as \cap Valid

\* subscribeAddress and subscribeBalance.
SubscribeAddresses(b, name, as) ==
    Calls(b) /\ Enter(b, RoomsOf(name, Accepted(as))) /\ UNCHANGED owed

\* unsubscribeAddress and unsubscribeBalance, of some addresses or, without any
\* given, of all.
UnsubscribeAddresses(b, name, as) == Calls(b) /\ Leave(b, RoomsOf(name, as))

\* bus.close: the bus leaves every list once.
Disconnect(b) ==
    /\ socket[b] = "open"
    /\ socket' = [socket EXCEPT ![b] = "closed"]
    /\ Leave(b, Rooms)
    /\ UNCHANGED <<calls, newsVars>>

-----------------------------------------------------------------------------
(* What happens, and who is told. *)

\* _getAddressesFromTransaction, without repetition: how often r is told of t.
Concerns(t, r) == IF r.address \in ToSet(AddressesOf[t]) THEN 1 ELSE 0

Occupied(r) == \E b \in Buses : entries[r][b] > 0

\* Wrong: the loop over a list ends with its first bus.
Tell_First(rooms, x) ==
    sent' = [b \in Buses |-> [r \in Rooms |->
        IF r \in DOMAIN rooms /\ socket[b] = "open"
            /\ b = CHOOSE c \in Buses : Occupied(r) => entries[r][c] > 0
        THEN [sent[b][r] EXCEPT ![x] = @ + rooms[r] * entries[r][b]] ELSE sent[b][r]]]

\* rooms[r] messages on x go to every place in the list of r; a socket that is not
\* connected gets none.
Tell(rooms, x) ==
    sent' = [b \in Buses |-> [r \in Rooms |->
        IF r \in DOMAIN rooms /\ socket[b] = "open"
        THEN [sent[b][r] EXCEPT ![x] = @ + rooms[r] * entries[r][b]] ELSE sent[b][r]]]

\* A request is made for each of the rooms that has anyone in its list.
Ask(rooms, x) ==
    asked' = [r \in Rooms |->
        IF r \in rooms /\ Occupied(r) THEN [asked[r] EXCEPT ![x] = @ + 1] ELSE asked[r]]

\* (history) Who is in a room that is told of x is to hear of it.
Owe(rooms, x) ==
    owed' = owed \cup {o \in [bus : Buses, room : rooms, item : {x}] :
                          o.room \in wants[o.bus]}

Announced(x) ==
    /\ arrivals[x] < MaxArrivals
    /\ arrivals' = [arrivals EXCEPT ![x] = @ + 1]

AlreadyKnown(x) ==
    /\ Announced(x) /\ x \in known
    /\ UNCHANGED <<listVars, known, asked, sent, polled, owed>>

\* _zmqTransactionHandler: 'tx' for insight-api, rawtransaction, then the addresses;
\* their balances are asked for.
NewTransaction(t) ==
    LET told == [r \in {Room("rawtransaction"), Inv, Silubium} |-> 1]
        addressed == {r \in AddressRooms : Concerns(t, r) > 0}
        addresses == {r \in addressed : r.name = "address"}
    IN  /\ Announced(t) /\ t \notin known
        /\ known' = known \cup {t}
        /\ Tell([r \in DOMAIN told \cup addresses |->
                    IF r \in addresses THEN Concerns(t, r) ELSE 1], t)
        /\ Ask(addressed \ addresses, t)
        /\ Owe(DOMAIN told \cup addressed, t)
        /\ UNCHANGED <<listVars, polled>>

\* blockEventHandler: inv at once, silubium when the block and its transactions are
\* there.
NewBlock(b) ==
    /\ Announced(b) /\ b \notin known
    /\ known' = known \cup {b}
    /\ Tell([r \in {Inv, Room("hashblock")} |-> 1], b)
    /\ Ask({Silubium}, b)
    /\ Owe({Inv, Silubium, Room("hashblock")}, b)
    /\ UNCHANGED <<listVars, polled>>

\* The 'block' of a poll passes zmqKnownBlocks by (see TipUpdate).
PollReports(b) ==
    /\ Announced(b)
    /\ Tell([r \in {Inv} |-> 1], b)
    /\ Ask({Silubium}, b)
    /\ Owe({Inv, Silubium}, b)
    /\ polled' = polled \cup {b}
    /\ UNCHANGED <<listVars, known>>

\* 'updated' of the statistic service: the figures are asked for.
Updated(u) ==
    /\ arrivals[u] = 0 /\ arrivals' = [arrivals EXCEPT ![u] = 1]
    /\ Ask({Inv}, u)
    /\ Owe({Inv}, u)
    /\ UNCHANGED <<listVars, known, sent, polled>>

\* The answer goes to the list as it is now.
Answered(r, x) ==
    /\ asked[r][x] > 0
    /\ asked' = [asked EXCEPT ![r][x] = @ - 1]
    /\ Tell([room \in {r} |-> 1], x)
    /\ UNCHANGED <<listVars, known, arrivals, polled, owed>>

\* An error of the request ends it; nobody is told.
Fails(r, x) ==
    /\ asked[r][x] > 0
    /\ asked' = [asked EXCEPT ![r][x] = @ - 1]
    /\ owed' = {o \in owed : o.room # r \/ o.item # x}
    /\ UNCHANGED <<listVars, known, arrivals, sent, polled>>

-----------------------------------------------------------------------------
BusesNext ==
    \/ \E b \in Buses :
         \/ Connect(b) \/ Disconnect(b)
         \/ \E r \in Rooms \ AddressRooms : Subscribe(b, r) \/ Unsubscribe(b, r)
         \/ \E name \in PerAddress, as \in (SUBSET Addresses) \ {{}} :
              SubscribeAddresses(b, name, as) \/ UnsubscribeAddresses(b, name, as)
    \/ \E x \in Transactions \cup Blocks : AlreadyKnown(x)
    \/ \E t \in Transactions : NewTransaction(t)
    \/ \E b \in Blocks : NewBlock(b) \/ PollReports(b)
    \/ \E u \in Updates : Updated(u)
    \/ \E r \in Rooms, x \in Items : Answered(r, x) \/ Fails(r, x)

BusesSpec == BusesInit /\ [][BusesNext]_busVars

-----------------------------------------------------------------------------
(* Properties. *)

\* A bus is in the lists its client asked for and in no other, also after it was
\* closed, but for the two lists that take a bus more than once: bus.close takes it
\* out of them only once.
ListsFollowClients ==
    \A b \in Buses, r \in Rooms :
        (entries[r][b] > 0 <=> r \in wants[b]) \/ r \in repeated[b]

\* A client is told once of a transaction, a block or an update by each room,
\* however many processes announce it and however often the transaction names the
\* address, but for blocks that polls report and the lists it is in twice.
NotifiedOnce ==
    \A b \in Buses, r \in Rooms, x \in Items :
        sent[b][r][x] <= 1 \/ r \in repeated[b] \/ x \in polled

\* A client that is subscribed from the moment something happens is told of it,
\* at once or when the answer has come, unless the request for it fails.
NothingMissed ==
    \A o \in owed : sent[o.bus][o.room][o.item] > 0 \/ asked[o.room][o.item] > 0

\* Nothing is sent to a client that unsubscribed, or closed its socket, while the
\* request for it was under way (_notifyBalanceSubscriber, blockEventHandler).
OnlyWhoAsked ==
    [][\A b \in Buses, r \in Rooms :
         sent'[b][r] # sent[b][r] =>
             socket[b] = "open" /\ (r \in wants[b] \/ r \in repeated[b])]_busVars
=============================================================================
