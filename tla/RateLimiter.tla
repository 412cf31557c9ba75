---------------------------- MODULE RateLimiter ----------------------------
(* The rate limiter of the insight API (insight-api/lib/ratelimiter.js):     *)
(* an express middleware that counts the visits of a client by its name,     *)
(* refuses it over the limit, and forgets it by timers.  A client gets its   *)
(* timer when its record is made; whether the record is forgotten then or    *)
(* only after a ban is looked at when the timer fires.  Time is counted in   *)
(* ticks; a timer fires at its time or, in a busy event loop, any time       *)
(* later.                                                                    *)
EXTENDS Integers

CONSTANTS Clients,      \* the names: an address, or what a header says
          TypeOf,       \* of each name: its list
          Limit,        \* of each type: totalRequests, -1 for no limit
          Interval,     \* of each type, in ticks
          BanInterval,  \* of each type, in ticks
          MaxVisits     \* bound: visits counted of a client without limit

Types == {"whitelist", "blacklist", "normal"}

ASSUME LimiterAssumption ==
    /\ TypeOf \in [Clients -> Types]
    /\ Limit \in [Types -> Nat \cup {-1}]
    /\ Interval \in [Types -> Nat \ {0}]
    /\ BanInterval \in [Types -> Nat \ {0}]
    /\ MaxVisits \in Nat

VARIABLES clients,      \* of each name: its record, or NoClient
          timers,       \* of each name: its pending timers
          admitted,     \* ghost: of each name and a: requests let through in the
                        \* current tick and the a ticks before it
          sinceBan      \* ghost: ticks since the name was banned

limiterVars == <<clients, timers, admitted, sinceBan>>

LimitOf(c) == Limit[TypeOf[c]]
IntervalOf(c) == Interval[TypeOf[c]]
BanOf(c) == BanInterval[TypeOf[c]]

NoClient == [visits |-> 0, isBanned |-> FALSE]
NewClient == [visits |-> 1, isBanned |-> FALSE]

\* exceeded: more visits than the limit, when there is one.
ExceededFirst(c, client) == LimitOf(c) # -1 /\ client.visits > LimitOf(c) + 1  \* Wrong: counts from 0.
Exceeded(c, client) == LimitOf(c) # -1 /\ client.visits > LimitOf(c)

Timer(kind, left) == [kind |-> kind, left |-> left]

LimiterTypeOK ==
    /\ clients \in [Clients -> [visits : Nat, isBanned : BOOLEAN]]
    /\ timers \in [Clients -> SUBSET [kind : {"interval", "ban"}, left : Nat]]
    /\ DOMAIN admitted = Clients
    /\ \A c \in Clients : admitted[c] \in [0 .. IntervalOf(c) - 1 -> Nat]
    /\ sinceBan \in [Clients -> Nat]

LimiterInit ==
    /\ clients = [c \in Clients |-> NoClient]
    /\ timers = [c \in Clients |-> {}]
    /\ admitted = [c \in Clients |-> [a \in 0 .. IntervalOf(c) - 1 |-> 0]]
    /\ sinceBan = [c \in Clients |-> BanOf(c)]

-----------------------------------------------------------------------------
\* The record of a request's name; addClient makes it, and arms its timer.
Found(c) == IF clients[c] = NoClient THEN NewClient ELSE clients[c]

Armed(c) ==
    IF clients[c] = NoClient
    THEN timers[c] \cup {Timer("interval", IntervalOf(c))}
    ELSE timers[c]

\* _middleware: the request goes on, and the visit is counted.
Admit(c) ==
    /\ ~Exceeded(c, Found(c))
    /\ Found(c).visits < MaxVisits \/ LimitOf(c) # -1
    /\ clients' = [clients EXCEPT ![c] = [Found(c) EXCEPT !.visits = @ + 1]]
    /\ timers' = [timers EXCEPT ![c] = Armed(c)]
    /\ admitted' = [admitted EXCEPT ![c] = [a \in 0 .. IntervalOf(c) - 1 |-> @[a] + 1]]
    /\ UNCHANGED sinceBan

\* _middleware: 429, and the client is banned.
Refuse(c) ==
    /\ Exceeded(c, Found(c))
    /\ clients' = [clients EXCEPT ![c] = [Found(c) EXCEPT !.isBanned = TRUE]]
    /\ timers' = [timers EXCEPT ![c] = Armed(c)]
    /\ sinceBan' = [sinceBan EXCEPT ![c] = IF Found(c).isBanned THEN @ ELSE 0]
    /\ UNCHANGED admitted

\* What is left of the timers when one has fired: the ban begins when the
\* interval ends with the client banned (or gone).
Forgotten(c) == clients[c] # NoClient /\ ~clients[c].isBanned

ForgetAnyway(c, t) == TRUE          \* Wrong: the ban is not looked at.
Forgets(c, t) == t.kind = "ban" \/ Forgotten(c)

TimerFires(c) ==
    \E t \in timers[c] :
        /\ t.left = 0
        /\ IF Forgets(c, t)
           THEN /\ clients' = [clients EXCEPT ![c] = NoClient]
                /\ timers' = [timers EXCEPT ![c] = @ \ {t}]
           ELSE /\ timers' = [timers EXCEPT ![c] = (@ \ {t}) \cup {Timer("ban", BanOf(c))}]
                /\ UNCHANGED clients
        /\ UNCHANGED <<admitted, sinceBan>>

Sooner(t) == IF t.left = 0 THEN t ELSE Timer(t.kind, t.left - 1)

\* Time passes; a timer that is due may still have to wait.
Tick ==
    /\ timers' = [c \in Clients |-> {Sooner(t) : t \in timers[c]}]
    /\ admitted' = [c \in Clients |->
          [a \in 0 .. IntervalOf(c) - 1 |-> IF a = 0 THEN 0 ELSE admitted[c][a - 1]]]
    /\ sinceBan' = [c \in Clients |->
          IF sinceBan[c] < BanOf(c) THEN sinceBan[c] + 1 ELSE sinceBan[c]]
    /\ UNCHANGED clients

LimiterNext == (\E c \in Clients : Admit(c) \/ Refuse(c) \/ TimerFires(c)) \/ Tick

LimiterSpec == LimiterInit /\ [][LimiterNext]_limiterVars

-----------------------------------------------------------------------------
\* In any stretch of time as long as the interval no client has more than
\* twice its limit of requests let through: a record lives at least that long
\* and lets through its limit (visits count from 1, and the request that is
\* equal to the limit still passes).
WithinLimit ==
    \A c \in Clients : LimitOf(c) # -1 =>
        admitted[c][IntervalOf(c) - 1] <= 2 * LimitOf(c)

\* A client that has been banned is not let through again before the time of a
\* ban has passed, whichever timers fire in between, and however late.  (The
\* ban is not prolonged by requests during it.)
BanHolds == [][\A c \in Clients : sinceBan[c] < BanOf(c) => ~Admit(c)]_limiterVars
=============================================================================
