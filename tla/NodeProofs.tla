----------------------------- MODULE NodeProofs -----------------------------
(***************************************************************************)
(* The node around its indexers: how it serves its clients and how it      *)
(* starts and stops, each part by its own specification.                   *)
(*                                                                         *)
(* The limit and the ban of the rate limiter hold for every set of         *)
(* clients, every limit and every interval, and whatever the controllers   *)
(* behind it do; what the block controller keeps is true, for any block,   *)
(* any number of confirmations and any requests that overlap.  The lists   *)
(* of the clients with a web socket are those they asked for.  Last, the   *)
(* node's lifecycle: it never has two silubiumd processes, and services    *)
(* are stopped in the order of their dependencies however many stops run.  *)
(***************************************************************************)
EXTENDS InsightApi, Subscriptions, NodeLifecycle,
        SequenceTheorems, WellFoundedInduction, TLAPS

-----------------------------------------------------------------------------
(* The rate limiter and the block controller. *)

\* Types of what decides on a request; the ghost that counts them comes below.
RecordsTyped ==
    /\ clients \in [Clients -> [visits : Nat, isBanned : BOOLEAN]]
    /\ timers \in [Clients -> SUBSET [kind : {"interval", "ban"}, left : Nat]]
    /\ sinceBan \in [Clients -> Nat]

\* A record and its one timer come and go together, and the timer of a ban is
\* pending only for a banned record.
TimersMatch(c) ==
    /\ clients[c] = NoClient => timers[c] = {}
    /\ clients[c] # NoClient => \E t \in timers[c] : timers[c] = {t}
    /\ \A t \in timers[c] : t.kind = "ban" => clients[c].isBanned

\* What keeps a banned client out: its record over the limit, and a timer that
\* cannot delete it before the time of the ban is over.
KeptOut(c) ==
    sinceBan[c] < BanOf(c) =>
        /\ clients[c].isBanned
        /\ Exceeded(c, clients[c])
        /\ \A t \in timers[c] : t.kind = "ban" => t.left + sinceBan[c] >= BanOf(c)

LimiterInv ==
    /\ RecordsTyped
    /\ \A c \in Clients : TimersMatch(c) /\ KeptOut(c)

LEMMA TypesOfTimes ==
    ASSUME NEW c \in Clients
    PROVE  /\ IntervalOf(c) \in Nat \ {0}
           /\ BanOf(c) \in Nat \ {0}
           /\ LimitOf(c) \in Int
  BY LimiterAssumption DEF IntervalOf, BanOf, LimitOf

LEMMA RecordsDiffer ==
    /\ NoClient \in [visits : Nat, isBanned : BOOLEAN]
    /\ NewClient \in [visits : Nat, isBanned : BOOLEAN]
    /\ NoClient.isBanned = FALSE
    /\ NoClient.visits = 0
    /\ NewClient.isBanned = FALSE
  BY DEF NoClient, NewClient

LEMMA TimersAreTyped ==
    ASSUME NEW kind \in {"interval", "ban"}, NEW left \in Nat
    PROVE  /\ Timer(kind, left) \in [kind : {"interval", "ban"}, left : Nat]
           /\ Timer(kind, left).kind = kind
           /\ Timer(kind, left).left = left
  BY DEF Timer

\* The record found for a name has the shape of a record, and is the client's
\* own one when there is one.
LEMMA FoundIsTyped ==
    ASSUME RecordsTyped, NEW c \in Clients
    PROVE  /\ Found(c) \in [visits : Nat, isBanned : BOOLEAN]
           /\ clients[c] # NoClient => Found(c) = clients[c]
           /\ clients[c] = NoClient => Found(c) = NewClient
  BY RecordsDiffer DEF Found, RecordsTyped

LEMMA ArmedIsTyped ==
    ASSUME RecordsTyped, NEW c \in Clients
    PROVE  Armed(c) \in SUBSET [kind : {"interval", "ban"}, left : Nat]
  BY TypesOfTimes, TimersAreTyped DEF Armed, RecordsTyped

LEMMA Initially == LimiterInit => LimiterInv
  <1> SUFFICES ASSUME LimiterInit PROVE LimiterInv
    OBVIOUS
  <1>1. RecordsTyped
    BY RecordsDiffer, TypesOfTimes DEF LimiterInit, RecordsTyped
  <1>2. ASSUME NEW c \in Clients PROVE TimersMatch(c) /\ KeptOut(c)
    BY <1>2, TypesOfTimes DEF LimiterInit, TimersMatch, KeptOut
  <1> QED BY <1>1, <1>2 DEF LimiterInv

\* A request changes the record of its own client only: after it the client
\* has a record, and one timer.
LEMMA AfterRequest ==
    ASSUME LimiterInv, NEW c \in Clients, Admit(c) \/ Refuse(c)
    PROVE  /\ clients'[c] # NoClient
           /\ timers'[c] = Armed(c)
           /\ \E t \in Armed(c) : Armed(c) = {t}
           /\ \A t \in Armed(c) : t.kind = "ban" => clients[c].isBanned /\ t \in timers[c]
           /\ clients'[c].isBanned = (Found(c).isBanned \/ Refuse(c))
  <1>1. RecordsTyped /\ TimersMatch(c)
    BY DEF LimiterInv
  <1>2. timers'[c] = Armed(c)
    BY <1>1 DEF Admit, Refuse, RecordsTyped
  <1>3. PICK r \in [visits : Nat, isBanned : BOOLEAN] : r = Found(c)
    BY <1>1, FoundIsTyped
  <1>4. ASSUME Admit(c)
        PROVE  /\ clients'[c] # NoClient
               /\ clients'[c].isBanned = Found(c).isBanned
               /\ ~Refuse(c)
    <2>1. clients'[c] = [r EXCEPT !.visits = @ + 1]
      BY <1>1, <1>3, <1>4 DEF Admit, RecordsTyped
    <2>2. clients'[c].visits = r.visits + 1 /\ clients'[c].isBanned = r.isBanned
      BY <2>1
    <2>3. clients'[c] # NoClient
      BY <2>2, RecordsDiffer
    <2>4. ~Refuse(c)
      BY <1>4 DEF Admit, Refuse
    <2> QED BY <2>2, <2>3, <2>4, <1>3
  <1>5. ASSUME Refuse(c)
        PROVE  clients'[c] # NoClient /\ clients'[c].isBanned = TRUE
    <2>1. clients'[c] = [r EXCEPT !.isBanned = TRUE]
      BY <1>1, <1>3, <1>5 DEF Refuse, RecordsTyped
    <2>2. clients'[c].isBanned = TRUE
      BY <2>1
    <2> QED BY <2>2, RecordsDiffer
  <1>6. /\ \E t \in Armed(c) : Armed(c) = {t}
        /\ \A t \in Armed(c) : t.kind = "ban" => clients[c].isBanned /\ t \in timers[c]
    BY <1>1, TypesOfTimes, TimersAreTyped DEF Armed, TimersMatch
  <1>7. clients'[c].isBanned = (Found(c).isBanned \/ Refuse(c))
    BY <1>1, <1>4, <1>5, FoundIsTyped
  <1> QED BY <1>2, <1>4, <1>5, <1>6, <1>7

\* Types are kept by every step of the limiter.
LEMMA TypesKept ==
    ASSUME LimiterInv, LimiterNext
    PROVE  RecordsTyped'
  <1>1. RecordsTyped
    BY DEF LimiterInv
  <1>2. ASSUME NEW c \in Clients, Admit(c) PROVE RecordsTyped'
    <2>1. [Found(c) EXCEPT !.visits = @ + 1] \in [visits : Nat, isBanned : BOOLEAN]
      <3>1. PICK r \in [visits : Nat, isBanned : BOOLEAN] : r = Found(c)
        BY <1>1, FoundIsTyped
      <3>2. [r EXCEPT !.visits = @ + 1] \in [visits : Nat, isBanned : BOOLEAN]
        OBVIOUS
      <3> QED BY <3>1, <3>2
    <2>2. clients' \in [Clients -> [visits : Nat, isBanned : BOOLEAN]]
      BY <1>1, <1>2, <2>1 DEF Admit, RecordsTyped
    <2>3. timers' \in [Clients -> SUBSET [kind : {"interval", "ban"}, left : Nat]]
      BY <1>1, <1>2, ArmedIsTyped DEF Admit, RecordsTyped
    <2> QED BY <1>1, <1>2, <2>2, <2>3 DEF Admit, RecordsTyped
  <1>3. ASSUME NEW c \in Clients, Refuse(c) PROVE RecordsTyped'
    <2>1. [Found(c) EXCEPT !.isBanned = TRUE] \in [visits : Nat, isBanned : BOOLEAN]
      <3>1. PICK r \in [visits : Nat, isBanned : BOOLEAN] : r = Found(c)
        BY <1>1, FoundIsTyped
      <3>2. [r EXCEPT !.isBanned = TRUE] \in [visits : Nat, isBanned : BOOLEAN]
        OBVIOUS
      <3> QED BY <3>1, <3>2
    <2>2. clients' \in [Clients -> [visits : Nat, isBanned : BOOLEAN]]
      BY <1>1, <1>3, <2>1 DEF Refuse, RecordsTyped
    <2>3. timers' \in [Clients -> SUBSET [kind : {"interval", "ban"}, left : Nat]]
      BY <1>1, <1>3, ArmedIsTyped DEF Refuse, RecordsTyped
    <2>4. sinceBan' \in [Clients -> Nat]
      BY <1>1, <1>3 DEF Refuse, RecordsTyped
    <2> QED BY <2>2, <2>3, <2>4 DEF RecordsTyped
  <1>4. ASSUME NEW c \in Clients, TimerFires(c) PROVE RecordsTyped'
    <2>1. Timer("ban", BanOf(c)) \in [kind : {"interval", "ban"}, left : Nat]
      BY TypesOfTimes, TimersAreTyped
    <2>2. PICK t \in timers[c] :
             IF Forgets(c, t)
             THEN /\ clients' = [clients EXCEPT ![c] = NoClient]
                  /\ timers' = [timers EXCEPT ![c] = @ \ {t}]
             ELSE /\ timers' = [timers EXCEPT ![c] = (@ \ {t}) \cup {Timer("ban", BanOf(c))}]
                  /\ UNCHANGED clients
      BY <1>4 DEF TimerFires
    <2>3. UNCHANGED sinceBan
      BY <1>4 DEF TimerFires
    <2>4. CASE Forgets(c, t)
      BY <1>1, <2>2, <2>3, <2>4, RecordsDiffer DEF RecordsTyped
    <2>5. CASE ~Forgets(c, t)
      BY <1>1, <2>1, <2>2, <2>3, <2>5 DEF RecordsTyped
    <2> QED BY <2>4, <2>5
  <1>5. ASSUME Tick PROVE RecordsTyped'
    <2>1. ASSUME NEW t \in [kind : {"interval", "ban"}, left : Nat]
          PROVE  Sooner(t) \in [kind : {"interval", "ban"}, left : Nat]
      BY DEF Sooner, Timer
    <2>2. timers' \in [Clients -> SUBSET [kind : {"interval", "ban"}, left : Nat]]
      BY <1>1, <1>5, <2>1 DEF Tick, RecordsTyped
    <2>3. sinceBan' \in [Clients -> Nat]
      BY <1>1, <1>5 DEF Tick, RecordsTyped
    <2> QED BY <1>1, <1>5, <2>2, <2>3 DEF Tick, RecordsTyped
  <1> QED BY <1>2, <1>3, <1>4, <1>5 DEF LimiterNext

\* A request of one client leaves the records of the others alone.
LEMMA OthersUntouched ==
    ASSUME LimiterInv, NEW c \in Clients, NEW d \in Clients, c # d,
           Admit(c) \/ Refuse(c) \/ TimerFires(c)
    PROVE  clients'[d] = clients[d] /\ timers'[d] = timers[d] /\ sinceBan'[d] = sinceBan[d]
  <1>1. RecordsTyped
    BY DEF LimiterInv
  <1>2. CASE Admit(c)
    BY <1>1, <1>2 DEF Admit, RecordsTyped
  <1>3. CASE Refuse(c)
    BY <1>1, <1>3 DEF Refuse, RecordsTyped
  <1>4. CASE TimerFires(c)
    BY <1>1, <1>4 DEF TimerFires, RecordsTyped
  <1> QED BY <1>2, <1>3, <1>4

LEMMA RequestsKeep ==
    ASSUME LimiterInv, NEW c \in Clients, Admit(c) \/ Refuse(c)
    PROVE  TimersMatch(c)' /\ KeptOut(c)'
  <1>1. RecordsTyped /\ TimersMatch(c) /\ KeptOut(c)
    BY DEF LimiterInv
  <1>2. Found(c).isBanned = clients[c].isBanned
    BY <1>1, FoundIsTyped, RecordsDiffer
  <1>3. TimersMatch(c)'
    BY <1>1, <1>2, AfterRequest, RecordsDiffer DEF TimersMatch, RecordsTyped
  <1>4. CASE Admit(c)
    <2>1. ~Exceeded(c, Found(c))
      BY <1>4 DEF Admit
    <2>2. clients[c] = NoClient => ~clients[c].isBanned
      BY RecordsDiffer
    <2>3. ~(sinceBan[c] < BanOf(c))
      BY <1>1, <2>1, <2>2, FoundIsTyped DEF KeptOut
    <2>4. sinceBan' = sinceBan
      BY <1>4 DEF Admit
    <2> QED BY <1>3, <2>3, <2>4 DEF KeptOut, BanOf
  <1>5. CASE Refuse(c)
    <2>1. clients'[c].isBanned
      BY <1>5, AfterRequest
    <2>2. Exceeded(c, clients'[c])
      <3>1. PICK r \in [visits : Nat, isBanned : BOOLEAN] : r = Found(c)
        BY <1>1, FoundIsTyped
      <3>2. clients'[c] = [r EXCEPT !.isBanned = TRUE]
        BY <1>1, <1>5, <3>1 DEF Refuse, RecordsTyped
      <3>3. clients'[c].visits = r.visits
        BY <3>2
      <3> QED BY <1>5, <3>1, <3>3 DEF Refuse, Exceeded
    <2>3. ASSUME NEW t \in Armed(c), t.kind = "ban"
          PROVE  t \in timers[c] /\ clients[c].isBanned /\ sinceBan'[c] = sinceBan[c]
      <3>1. t \in timers[c] /\ clients[c].isBanned
        BY <1>5, <2>3, AfterRequest
      <3> QED BY <1>1, <1>2, <1>5, <3>1 DEF Refuse, RecordsTyped
    <2>4. ASSUME NEW t \in timers'[c], t.kind = "ban", sinceBan'[c] < BanOf(c)
          PROVE  t.left + sinceBan'[c] >= BanOf(c)
      BY <1>1, <1>5, <2>3, <2>4, AfterRequest DEF KeptOut
    <2> QED BY <1>3, <2>1, <2>2, <2>4 DEF KeptOut, Exceeded, BanOf, LimitOf
  <1> QED BY <1>4, <1>5

LEMMA TimersKeep ==
    ASSUME LimiterInv, NEW c \in Clients, TimerFires(c)
    PROVE  TimersMatch(c)' /\ KeptOut(c)'
  <1>1. RecordsTyped /\ TimersMatch(c) /\ KeptOut(c)
    BY DEF LimiterInv
  <1>2. PICK t \in timers[c] :
          /\ t.left = 0
          /\ IF Forgets(c, t)
             THEN /\ clients' = [clients EXCEPT ![c] = NoClient]
                  /\ timers' = [timers EXCEPT ![c] = @ \ {t}]
             ELSE /\ timers' = [timers EXCEPT ![c] = (@ \ {t}) \cup {Timer("ban", BanOf(c))}]
                  /\ UNCHANGED clients
          /\ UNCHANGED sinceBan
    BY <1>1 DEF TimerFires
  <1>3. timers[c] = {t} /\ clients[c] # NoClient
    BY <1>1, <1>2 DEF TimersMatch
  <1>4. CASE Forgets(c, t)
    <2>1. clients'[c] = NoClient /\ timers'[c] = {}
      BY <1>1, <1>2, <1>3, <1>4 DEF RecordsTyped
    <2>2. ~(sinceBan[c] < BanOf(c))
      <3>1. CASE t.kind = "ban"
        BY <1>1, <1>2, <3>1, TypesOfTimes DEF KeptOut, RecordsTyped
      <3>2. CASE ~clients[c].isBanned
        BY <1>1, <3>2 DEF KeptOut
      <3> QED BY <1>4, <3>1, <3>2 DEF Forgets, Forgotten
    <2> QED BY <1>2, <2>1, <2>2 DEF TimersMatch, KeptOut, BanOf
  <1>5. CASE ~Forgets(c, t)
    <2>1. clients'[c] = clients[c] /\ timers'[c] = {Timer("ban", BanOf(c))}
      BY <1>1, <1>2, <1>3, <1>5 DEF RecordsTyped
    <2>2. clients[c].isBanned
      BY <1>3, <1>5 DEF Forgets, Forgotten
    <2>3. Timer("ban", BanOf(c)).left = BanOf(c)
      BY TypesOfTimes, TimersAreTyped
    <2>4. TimersMatch(c)'
      BY <1>3, <2>1, <2>2 DEF TimersMatch
    <2>5. BanOf(c) + sinceBan[c] >= BanOf(c)
      BY <1>1, TypesOfTimes DEF RecordsTyped
    <2> QED BY <1>1, <1>2, <2>1, <2>2, <2>3, <2>4, <2>5 DEF KeptOut, BanOf, Exceeded, LimitOf
  <1> QED BY <1>4, <1>5

LEMMA TickKeeps ==
    ASSUME LimiterInv, NEW c \in Clients, Tick
    PROVE  TimersMatch(c)' /\ KeptOut(c)'
  <1>1. RecordsTyped /\ TimersMatch(c) /\ KeptOut(c)
    BY DEF LimiterInv
  <1>2. clients'[c] = clients[c] /\ timers'[c] = {Sooner(t) : t \in timers[c]}
    BY DEF Tick
  <1>3. ASSUME NEW t \in timers[c]
        PROVE  /\ Sooner(t).kind = t.kind
               /\ Sooner(t).left \in Nat
               /\ Sooner(t).left + 1 >= t.left
    <2>1. t.left \in Nat /\ t.kind \in {"interval", "ban"}
      BY <1>1 DEF RecordsTyped
    <2>2. CASE t.left = 0
      BY <2>1, <2>2 DEF Sooner
    <2>3. CASE t.left # 0
      BY <2>1, <2>3, TimersAreTyped DEF Sooner
    <2> QED BY <2>2, <2>3
  <1>4. TimersMatch(c)'
    <2>1. clients[c] = NoClient => timers'[c] = {}
      BY <1>1, <1>2 DEF TimersMatch
    <2>2. clients[c] # NoClient => \E t \in timers'[c] : timers'[c] = {t}
      BY <1>1, <1>2 DEF TimersMatch
    <2>3. \A t \in timers'[c] : t.kind = "ban" => clients[c].isBanned
      BY <1>1, <1>2, <1>3 DEF TimersMatch
    <2> QED BY <1>2, <2>1, <2>2, <2>3 DEF TimersMatch
  <1>5. KeptOut(c)'
    <2>1. sinceBan'[c] = IF sinceBan[c] < BanOf(c) THEN sinceBan[c] + 1 ELSE sinceBan[c]
      BY DEF Tick
    <2>2. sinceBan[c] \in Nat /\ BanOf(c) \in Nat
      BY <1>1, TypesOfTimes DEF RecordsTyped
    <2>3. SUFFICES ASSUME sinceBan'[c] < BanOf(c)
                   PROVE  /\ clients'[c].isBanned
                          /\ Exceeded(c, clients'[c])
                          /\ \A t \in timers'[c] :
                                t.kind = "ban" => t.left + sinceBan'[c] >= BanOf(c)
      BY DEF KeptOut, BanOf, Exceeded, LimitOf
    <2>4. sinceBan[c] < BanOf(c) /\ sinceBan'[c] = sinceBan[c] + 1
      BY <2>1, <2>2, <2>3
    <2>5. ASSUME NEW t \in timers[c], t.kind = "ban"
          PROVE  Sooner(t).left + sinceBan'[c] >= BanOf(c)
      <3>1. t.left + sinceBan[c] >= BanOf(c)
        BY <1>1, <2>4, <2>5 DEF KeptOut
      <3>2. t.left \in Nat
        BY <1>1 DEF RecordsTyped
      <3> QED BY <1>3, <2>2, <2>4, <3>1, <3>2
    <2>6. clients'[c].isBanned /\ Exceeded(c, clients'[c])
      BY <1>1, <1>2, <2>4 DEF KeptOut
    <2>7. \A t \in timers'[c] : t.kind = "ban" => t.left + sinceBan'[c] >= BanOf(c)
      BY <1>2, <1>3, <2>5
    <2> QED BY <2>6, <2>7
  <1> QED BY <1>4, <1>5

LEMMA InvariantKept == LimiterInv /\ [LimiterNext]_limiterVars => LimiterInv'
  <1> SUFFICES ASSUME LimiterInv, [LimiterNext]_limiterVars PROVE LimiterInv'
    OBVIOUS
  <1>1. CASE LimiterNext
    <2>1. ASSUME NEW d \in Clients PROVE TimersMatch(d)' /\ KeptOut(d)'
      <3>1. ASSUME NEW c \in Clients, Admit(c) \/ Refuse(c) \/ TimerFires(c)
            PROVE  TimersMatch(d)' /\ KeptOut(d)'
        <4>1. CASE c = d
          BY <3>1, <4>1, RequestsKeep, TimersKeep
        <4>2. CASE c # d
          <5>1. clients'[d] = clients[d] /\ timers'[d] = timers[d] /\ sinceBan'[d] = sinceBan[d]
            BY <3>1, <4>2, OthersUntouched
          <5>2. TimersMatch(d) /\ KeptOut(d)
            BY DEF LimiterInv
          <5> QED BY <5>1, <5>2 DEF TimersMatch, KeptOut, BanOf, Exceeded, LimitOf
        <4> QED BY <4>1, <4>2
      <3>2. CASE Tick
        BY <3>2, TickKeeps
      <3> QED BY <1>1, <3>1, <3>2 DEF LimiterNext
    <2> QED BY <1>1, <2>1, TypesKept DEF LimiterInv
  <1>2. CASE UNCHANGED limiterVars
    BY <1>2 DEF limiterVars, LimiterInv, RecordsTyped, TimersMatch, KeptOut, BanOf,
                Exceeded, LimitOf
  <1> QED BY <1>1, <1>2

\* Whatever the API does, its limiter takes a step of its own or none.
LEMMA ApiKeepsLimiter == [ApiNext]_apiVars => [LimiterNext]_limiterVars
  BY DEF ApiNext, apiVars, limiterVars, LimiterNext, RequestPage, RequestSummary, RequestOther,
         RequestRefused, TimePasses, PagesMove

\* A banned client is refused for the whole time of its ban, for every
\* configuration, however requests, controllers and timers interleave
\* (ratelimiter.js: exceeded, and the two timers of addClient).
THEOREM BannedStayOut == ApiSpec => BanHolds
  <1> DEFINE Held == \A c \in Clients : sinceBan[c] < BanOf(c) => ~Admit(c)
  <1>1. ApiInit => LimiterInv
    BY Initially DEF ApiInit
  <1>2. LimiterInv /\ [ApiNext]_apiVars => LimiterInv'
    BY InvariantKept, ApiKeepsLimiter
  <1>3. LimiterInv => Held
    <2> SUFFICES ASSUME LimiterInv, NEW c \in Clients, sinceBan[c] < BanOf(c), Admit(c)
                 PROVE  FALSE
      OBVIOUS
    <2>1. RecordsTyped /\ KeptOut(c)
      BY DEF LimiterInv
    <2>2. clients[c] # NoClient
      BY <2>1, RecordsDiffer DEF KeptOut
    <2> QED BY <2>1, <2>2, FoundIsTyped DEF KeptOut, Admit
  <1>4. LimiterInv /\ [ApiNext]_apiVars => [Held]_limiterVars
    BY <1>3
  <1> QED BY <1>1, <1>2, <1>4, PTL DEF ApiSpec, BanHolds

-----------------------------------------------------------------------------
(* How many requests are let through. *)

CountsTyped ==
    /\ DOMAIN admitted = Clients
    /\ \A c \in Clients : admitted[c] \in [0 .. IntervalOf(c) - 1 -> Nat]

\* What the limit leaves of a stretch of time that ends now.  Without a record all of it
\* belongs to one record that lived longer; with one, what is older than the record
\* does, and the record has let through one less than it counts.
WindowAt(c, a) ==
    /\ clients[c] = NoClient => admitted[c][a] <= LimitOf(c)
    /\ \A t \in timers[c] :
          admitted[c][a] <= clients[c].visits - 1
              + IF t.kind = "interval" /\ a + t.left >= IntervalOf(c) THEN LimitOf(c) ELSE 0

CountOf(c) ==
    /\ clients[c] # NoClient => clients[c].visits - 1 \in 0 .. LimitOf(c)
    /\ \A a \in 0 .. IntervalOf(c) - 1 : WindowAt(c, a)

CountsInv == CountsTyped /\ \A c \in Clients : LimitOf(c) # -1 => CountOf(c)

LEMMA LimitIsNat ==
    ASSUME NEW c \in Clients, LimitOf(c) # -1
    PROVE  LimitOf(c) \in Nat
  BY LimiterAssumption DEF LimitOf

LEMMA InitCounts == LimiterInit => CountsInv
  <1> SUFFICES ASSUME LimiterInit PROVE CountsInv
    OBVIOUS
  <1>1. CountsTyped
    BY TypesOfTimes DEF LimiterInit, CountsTyped
  <1>2. ASSUME NEW c \in Clients, LimitOf(c) # -1 PROVE CountOf(c)
    BY <1>2, LimitIsNat, TypesOfTimes DEF LimiterInit, CountOf, WindowAt
  <1> QED BY <1>1, <1>2 DEF CountsInv

LEMMA CountsKeepTypes ==
    ASSUME CountsTyped, LimiterNext
    PROVE  CountsTyped'
  <1>1. CASE \E c \in Clients : Admit(c)
    <2>1. PICK c \in Clients : Admit(c)
      BY <1>1
    <2>2. [a \in 0 .. IntervalOf(c) - 1 |-> admitted[c][a] + 1] \in [0 .. IntervalOf(c) - 1 -> Nat]
      <3>1. \A a \in 0 .. IntervalOf(c) - 1 : admitted[c][a] \in Nat
        BY DEF CountsTyped
      <3> QED BY <3>1
    <2>3. admitted' = [admitted EXCEPT ![c] = [a \in 0 .. IntervalOf(c) - 1 |-> @[a] + 1]]
      BY <2>1 DEF Admit
    <2> QED BY <2>2, <2>3 DEF CountsTyped, IntervalOf
  <1>2. CASE Tick
    <2>1. ASSUME NEW c \in Clients
          PROVE  [a \in 0 .. IntervalOf(c) - 1 |-> IF a = 0 THEN 0 ELSE admitted[c][a - 1]]
                    \in [0 .. IntervalOf(c) - 1 -> Nat]
      BY TypesOfTimes DEF CountsTyped
    <2> QED BY <1>2, <2>1 DEF Tick, CountsTyped, IntervalOf
  <1>3. CASE \E c \in Clients : Refuse(c) \/ TimerFires(c)
    BY <1>3 DEF Refuse, TimerFires, CountsTyped, IntervalOf
  <1> QED BY <1>1, <1>2, <1>3 DEF LimiterNext

\* A request that is let through is one visit more of the record it is found with.
LEMMA AdmitCounts ==
    ASSUME LimiterInv, CountsInv, NEW c \in Clients, Admit(c), LimitOf(c) # -1
    PROVE  CountOf(c)'
  <1>1. RecordsTyped /\ TimersMatch(c) /\ CountOf(c) /\ CountsTyped
    BY DEF LimiterInv, CountsInv
  <1>2. PICK r \in [visits : Nat, isBanned : BOOLEAN] : r = Found(c)
    BY <1>1, FoundIsTyped
  <1>3. clients'[c] = [r EXCEPT !.visits = @ + 1]
    BY <1>1, <1>2 DEF Admit, RecordsTyped
  <1>4. clients'[c].visits = r.visits + 1
    BY <1>3
  <1>5. r.visits <= LimitOf(c) /\ LimitOf(c) \in Nat
    BY <1>2, LimitIsNat, TypesOfTimes DEF Admit, Exceeded
  <1>6. clients'[c] # NoClient /\ timers'[c] = Armed(c)
    BY AfterRequest
  <1>7. ASSUME NEW a \in 0 .. IntervalOf(c) - 1
        PROVE  admitted'[c][a] = admitted[c][a] + 1 /\ admitted[c][a] \in Nat
    BY <1>1 DEF Admit, CountsTyped
  <1>8. ASSUME NEW a \in 0 .. IntervalOf(c) - 1 PROVE WindowAt(c, a)'
    <2>1. WindowAt(c, a) /\ a \in Nat /\ IntervalOf(c) \in Nat
      BY <1>1, TypesOfTimes DEF CountOf
    <2>2. CASE clients[c] = NoClient
      <3>1. r.visits = 1
        BY <1>1, <1>2, <2>2, FoundIsTyped DEF NewClient
      <3>2. timers'[c] = {Timer("interval", IntervalOf(c))}
        BY <1>1, <1>6, <2>2 DEF Armed, TimersMatch
      <3>3. admitted'[c][a] <= LimitOf(c) + 1
        BY <1>5, <1>7, <2>1, <2>2 DEF WindowAt
      <3>4. a + IntervalOf(c) >= IntervalOf(c)
        BY <2>1
      <3> QED BY <1>4, <1>5, <1>6, <3>1, <3>2, <3>3, <3>4, <2>1, TimersAreTyped
              DEF WindowAt, IntervalOf, LimitOf
    <2>3. CASE clients[c] # NoClient
      <3>1. r = clients[c] /\ timers'[c] = timers[c]
        BY <1>1, <1>2, <1>6, <2>3, FoundIsTyped DEF Armed
      <3>2. ASSUME NEW t \in timers[c]
            PROVE  admitted'[c][a] <= clients'[c].visits - 1
                     + IF t.kind = "interval" /\ a + t.left >= IntervalOf(c)
                       THEN LimitOf(c) ELSE 0
        BY <1>4, <1>5, <1>7, <2>1, <3>1 DEF WindowAt
      <3> QED BY <1>6, <3>1, <3>2 DEF WindowAt, IntervalOf, LimitOf
    <2> QED BY <2>2, <2>3
  <1>9. clients'[c].visits - 1 \in 0 .. LimitOf(c)
    BY <1>4, <1>5
  <1> QED BY <1>8, <1>9 DEF CountOf, IntervalOf, LimitOf

\* A refusal counts no visit; it may make the record when nothing at all is let through.
LEMMA RefuseCounts ==
    ASSUME LimiterInv, CountsInv, NEW c \in Clients, Refuse(c), LimitOf(c) # -1
    PROVE  CountOf(c)'
  <1>1. RecordsTyped /\ TimersMatch(c) /\ CountOf(c) /\ CountsTyped
    BY DEF LimiterInv, CountsInv
  <1>2. PICK r \in [visits : Nat, isBanned : BOOLEAN] : r = Found(c)
    BY <1>1, FoundIsTyped
  <1>3. clients'[c] = [r EXCEPT !.isBanned = TRUE]
    BY <1>1, <1>2 DEF Refuse, RecordsTyped
  <1>4. clients'[c].visits = r.visits
    BY <1>3
  <1>5. LimitOf(c) \in Nat /\ admitted' = admitted
    BY LimitIsNat DEF Refuse
  <1>6. clients'[c] # NoClient /\ timers'[c] = Armed(c)
    BY AfterRequest
  <1>7. r.visits - 1 \in 0 .. LimitOf(c)
    <2>1. CASE clients[c] = NoClient
      <3>1. r.visits = 1
        BY <1>1, <1>2, <2>1, FoundIsTyped DEF NewClient
      <3> QED BY <1>5, <3>1
    <2>2. CASE clients[c] # NoClient
      BY <1>1, <1>2, <2>2, FoundIsTyped DEF CountOf
    <2> QED BY <2>1, <2>2
  <1>8. ASSUME NEW a \in 0 .. IntervalOf(c) - 1 PROVE WindowAt(c, a)'
    <2>1. WindowAt(c, a) /\ a \in Nat /\ IntervalOf(c) \in Nat /\ admitted[c][a] \in Nat
      BY <1>1, TypesOfTimes DEF CountOf, CountsTyped
    <2>2. CASE clients[c] = NoClient
      <3>1. r.visits = 1
        BY <1>1, <1>2, <2>2, FoundIsTyped DEF NewClient
      <3>2. timers'[c] = {Timer("interval", IntervalOf(c))}
        BY <1>1, <1>6, <2>2 DEF Armed, TimersMatch
      <3>3. admitted'[c][a] <= LimitOf(c)
        BY <1>5, <2>1, <2>2 DEF WindowAt
      <3>4. a + IntervalOf(c) >= IntervalOf(c)
        BY <2>1
      <3> QED BY <1>4, <1>5, <1>6, <3>1, <3>2, <3>3, <3>4, <2>1, TimersAreTyped
              DEF WindowAt, IntervalOf, LimitOf
    <2>3. CASE clients[c] # NoClient
      <3>1. r = clients[c] /\ timers'[c] = timers[c]
        BY <1>1, <1>2, <1>6, <2>3, FoundIsTyped DEF Armed
      <3> QED BY <1>4, <1>5, <1>6, <2>1, <3>1 DEF WindowAt, IntervalOf, LimitOf
    <2> QED BY <2>2, <2>3
  <1> QED BY <1>4, <1>7, <1>8 DEF CountOf, IntervalOf, LimitOf

\* When the timer of the interval fires the record has lived for all of it.
LEMMA TimerCounts ==
    ASSUME LimiterInv, CountsInv, NEW c \in Clients, TimerFires(c), LimitOf(c) # -1
    PROVE  CountOf(c)'
  <1>1. RecordsTyped /\ TimersMatch(c) /\ CountOf(c) /\ CountsTyped
    BY DEF LimiterInv, CountsInv
  <1>2. PICK t \in timers[c] :
           /\ t.left = 0
           /\ IF Forgets(c, t)
              THEN /\ clients' = [clients EXCEPT ![c] = NoClient]
                   /\ timers' = [timers EXCEPT ![c] = @ \ {t}]
              ELSE /\ timers' = [timers EXCEPT ![c] = (@ \ {t}) \cup {Timer("ban", BanOf(c))}]
                   /\ UNCHANGED clients
           /\ UNCHANGED <<admitted, sinceBan>>
    BY DEF TimerFires
  <1>3. timers[c] = {t} /\ clients[c] # NoClient
    BY <1>1, <1>2 DEF TimersMatch
  <1>4. LimitOf(c) \in Nat /\ clients[c].visits - 1 \in 0 .. LimitOf(c) /\ clients[c].visits \in Nat
    BY <1>1, <1>3, LimitIsNat DEF CountOf, RecordsTyped
  <1>5. ASSUME NEW a \in 0 .. IntervalOf(c) - 1
        PROVE  admitted[c][a] \in Nat /\ admitted[c][a] <= clients[c].visits - 1
    <2>1. WindowAt(c, a) /\ IntervalOf(c) \in Nat /\ admitted[c][a] \in Nat
      BY <1>1, TypesOfTimes DEF CountOf, CountsTyped
    <2>2. ~(a + t.left >= IntervalOf(c))
      BY <1>2, <2>1
    <2> QED BY <1>2, <1>4, <2>1, <2>2 DEF WindowAt
  <1>6. CASE Forgets(c, t)
    <2>1. clients'[c] = NoClient /\ timers'[c] = {}
      BY <1>1, <1>2, <1>3, <1>6 DEF RecordsTyped
    <2>2. \A a \in 0 .. IntervalOf(c) - 1 : WindowAt(c, a)'
      BY <1>2, <1>4, <1>5, <2>1 DEF WindowAt, LimitOf
    <2> QED BY <2>1, <2>2 DEF CountOf, IntervalOf
  <1>7. CASE ~Forgets(c, t)
    <2>1. clients'[c] = clients[c] /\ timers'[c] = {Timer("ban", BanOf(c))}
      BY <1>1, <1>2, <1>3, <1>7 DEF RecordsTyped
    <2>2. \A a \in 0 .. IntervalOf(c) - 1 : WindowAt(c, a)'
      BY <1>2, <1>3, <1>4, <1>5, <2>1, TypesOfTimes, TimersAreTyped DEF WindowAt
    <2> QED BY <1>4, <2>1, <2>2 DEF CountOf, IntervalOf, LimitOf
  <1> QED BY <1>6, <1>7

\* Time makes the record older by a tick and with it what it did not let through.
LEMMA TickCounts ==
    ASSUME LimiterInv, CountsInv, NEW c \in Clients, Tick, LimitOf(c) # -1
    PROVE  CountOf(c)'
  <1>1. RecordsTyped /\ TimersMatch(c) /\ CountOf(c) /\ CountsTyped
    BY DEF LimiterInv, CountsInv
  <1>2. clients' = clients /\ timers'[c] = {Sooner(t) : t \in timers[c]}
    BY DEF Tick
  <1>3. LimitOf(c) \in Nat /\ IntervalOf(c) \in Nat \ {0}
    BY LimitIsNat, TypesOfTimes
  <1>4. clients[c] # NoClient => clients[c].visits - 1 \in 0 .. LimitOf(c)
    BY <1>1 DEF CountOf
  <1>5. clients[c].visits \in Nat
    BY <1>1 DEF RecordsTyped
  <1>6. ASSUME NEW a \in 0 .. IntervalOf(c) - 1 PROVE WindowAt(c, a)'
    <2>1. admitted'[c][a] = IF a = 0 THEN 0 ELSE admitted[c][a - 1]
      BY DEF Tick
    <2>2. CASE a = 0
      BY <1>2, <1>3, <1>4, <1>5, <2>1, <2>2, <1>1 DEF WindowAt, LimitOf, IntervalOf, TimersMatch
    <2>3. CASE a # 0
      <3>1. a - 1 \in 0 .. IntervalOf(c) - 1 /\ WindowAt(c, a - 1) /\ admitted[c][a - 1] \in Nat
        BY <1>1, <1>3, <2>3 DEF CountOf, CountsTyped
      <3>2. ASSUME NEW t \in timers[c]
            PROVE  admitted'[c][a] <= clients[c].visits - 1
                     + IF Sooner(t).kind = "interval" /\ a + Sooner(t).left >= IntervalOf(c)
                       THEN LimitOf(c) ELSE 0
        <4>1. t.left \in Nat /\ t.kind \in {"interval", "ban"}
          BY <1>1 DEF RecordsTyped
        <4>2. Sooner(t).kind = t.kind
          BY <4>1, TimersAreTyped DEF Sooner
        <4>3. t.left # 0 => Sooner(t).left = t.left - 1
          BY <4>1, TimersAreTyped DEF Sooner
        <4>4. (a - 1) + t.left >= IntervalOf(c) => a + Sooner(t).left >= IntervalOf(c)
          BY <1>3, <4>1, <4>3
        <4> QED BY <1>3, <1>5, <2>1, <2>3, <3>1, <4>2, <4>4 DEF WindowAt
      <3> QED BY <1>2, <2>1, <2>3, <3>1, <3>2 DEF WindowAt, LimitOf, IntervalOf
    <2> QED BY <2>2, <2>3
  <1> QED BY <1>2, <1>4, <1>6 DEF CountOf, IntervalOf, LimitOf

LEMMA CountsKept ==
    LimiterInv /\ CountsInv /\ [LimiterNext]_limiterVars => CountsInv'
  <1> SUFFICES ASSUME LimiterInv, CountsInv, [LimiterNext]_limiterVars PROVE CountsInv'
    OBVIOUS
  <1>1. CASE LimiterNext
    <2>1. CountsTyped'
      BY <1>1, CountsKeepTypes DEF CountsInv
    <2>2. ASSUME NEW d \in Clients, LimitOf(d) # -1 PROVE CountOf(d)'
      <3>1. ASSUME NEW c \in Clients, Admit(c) \/ Refuse(c) \/ TimerFires(c)
            PROVE  CountOf(d)'
        <4>1. CASE c = d
          BY <2>2, <3>1, <4>1, AdmitCounts, RefuseCounts, TimerCounts
        <4>2. CASE c # d
          <5>1. clients'[d] = clients[d] /\ timers'[d] = timers[d]
            BY <3>1, <4>2, OthersUntouched
          <5>2. admitted'[d] = admitted[d]
            BY <3>1, <4>2 DEF Admit, Refuse, TimerFires, CountsInv, CountsTyped
          <5> QED BY <2>2, <5>1, <5>2 DEF CountsInv, CountOf, WindowAt, LimitOf, IntervalOf
        <4> QED BY <4>1, <4>2
      <3> QED BY <1>1, <2>2, <3>1, TickCounts DEF LimiterNext
    <2> QED BY <2>1, <2>2 DEF CountsInv, LimitOf
  <1>2. CASE UNCHANGED limiterVars
    BY <1>2 DEF limiterVars, CountsInv, CountsTyped, CountOf, WindowAt, LimitOf, IntervalOf
  <1> QED BY <1>1, <1>2

\* What the limiter keeps about every client, in every behaviour of the API.
LEMMA LimiterKept == ApiSpec => [](LimiterInv /\ CountsInv)
  <1>1. ApiInit => LimiterInv /\ CountsInv
    BY Initially, InitCounts DEF ApiInit
  <1>2. LimiterInv /\ CountsInv /\ [ApiNext]_apiVars => LimiterInv' /\ CountsInv'
    BY InvariantKept, CountsKept, ApiKeepsLimiter
  <1> QED BY <1>1, <1>2, PTL DEF ApiSpec

\* The records, timers, bans and counts of the limiter are well typed for every set of
\* clients and every configuration.
THEOREM LimiterTypeCorrect == ApiSpec => []LimiterTypeOK
  <1>1. LimiterInv /\ CountsInv => LimiterTypeOK
    BY DEF LimiterInv, CountsInv, RecordsTyped, CountsTyped, LimiterTypeOK
  <1> QED BY <1>1, LimiterKept, PTL

\* For every set of clients, limits and intervals, however late timers fire, no client
\* has more than twice its limit let through in a stretch of time as long as the
\* interval (ratelimiter.js: visits count from 1, and a record outlives its interval).
THEOREM TwiceTheLimit == ApiSpec => []WithinLimit
  <1>1. LimiterInv /\ CountsInv => WithinLimit
    <2> SUFFICES ASSUME LimiterInv, CountsInv, NEW c \in Clients, LimitOf(c) # -1
                 PROVE  admitted[c][IntervalOf(c) - 1] <= 2 * LimitOf(c)
      BY DEF WithinLimit
    <2> DEFINE a == IntervalOf(c) - 1
    <2>1. LimitOf(c) \in Nat /\ a \in 0 .. IntervalOf(c) - 1
      BY LimitIsNat, TypesOfTimes
    <2>2. CountOf(c) /\ TimersMatch(c) /\ clients[c].visits \in Nat /\ admitted[c][a] \in Nat
      BY <2>1 DEF LimiterInv, CountsInv, CountsTyped, RecordsTyped
    <2>3. WindowAt(c, a)
      BY <2>1, <2>2 DEF CountOf
    <2> SUFFICES admitted[c][a] <= 2 * LimitOf(c)
      OBVIOUS
    <2> HIDE DEF a
    <2>4. CASE clients[c] = NoClient
      BY <2>1, <2>2, <2>3, <2>4 DEF WindowAt
    <2>5. CASE clients[c] # NoClient
      <3>1. PICK t \in timers[c] : TRUE
        BY <2>2, <2>5 DEF TimersMatch
      <3>2. clients[c].visits - 1 <= LimitOf(c)
        BY <2>1, <2>2, <2>5 DEF CountOf
      <3>3. admitted[c][a] <= clients[c].visits - 1 + LimitOf(c)
        BY <2>1, <2>2, <2>3, <3>1 DEF WindowAt
      <3> QED BY <2>1, <2>2, <3>2, <3>3
    <2> QED BY <2>4, <2>5
  <1> QED BY <1>1, LimiterKept, PTL

-----------------------------------------------------------------------------
(* What the block controller keeps. *)

Infos == [confirmations : Int, next : Nat]
KeptPages == [kept : {TRUE}, confirmations : Int, nextblockhash : Nat, isMainChain : BOOLEAN]
KeptSummaries == [kept : {TRUE}, isMainChain : BOOLEAN, crossed : BOOLEAN]

ChainTyped ==
    /\ nodeHeight \in Nat /\ highest \in Nat /\ nodeHeight <= highest
    /\ height \in 0 .. highest
    /\ onChain \in BOOLEAN /\ (onChain => BlockHeight <= nodeHeight)
    /\ follower \in Nat /\ deepest \in Nat

\* So far below the greatest height that only a reorganisation that is too deep reaches it.
Deep == highest - BlockHeight >= BlockCacheConfirmations - 1

\* What a page says of its block stays true from the moment it may be kept.
SaysTrue(confirmations, next) ==
    /\ Deep
    /\ confirmations <= highest - BlockHeight + 1
    /\ deepest < BlockCacheConfirmations => onChain
    /\ deepest < BlockCacheConfirmations - 1 => next = follower

PageKept ==
    page # Pages!Nothing =>
        /\ page \in KeptPages
        /\ page.isMainChain
        /\ SaysTrue(page.confirmations, page.nextblockhash)

SummaryKept ==
    summary # Pages!Nothing =>
        /\ summary \in KeptSummaries
        /\ Deep
        /\ ~summary.crossed /\ deepest < BlockCacheConfirmations => summary.isMainChain = onChain

\* A request under way: what the header said, once it may be kept, and what the block
\* said of the main chain, unless the chain has crossed the request.
NothingRead(r) == r \in [step : {"idle", "page block", "page header", "summary block"}]
HeaderRead(r) ==
    /\ r \in [step : {"page subsidy", "page transaction"}, info : Infos]
    /\ r.info.confirmations >= BlockCacheConfirmations =>
          SaysTrue(r.info.confirmations, r.info.next)
BlockRead(r) ==
    /\ r \in [step : {"summary transaction"}, confirmations : Int, crossed : BOOLEAN]
    /\ ~r.crossed => (r.confirmations # -1 <=> onChain)

RequestsTrue ==
    /\ DOMAIN run = Clients
    /\ \A c \in Clients : NothingRead(run[c]) \/ HeaderRead(run[c]) \/ BlockRead(run[c])

PagesInv == ChainTyped /\ PageKept /\ SummaryKept /\ RequestsTrue

LEMMA NothingIsNotKept ==
    /\ Pages!Nothing.kept = FALSE
    /\ \A p \in KeptPages \cup KeptSummaries : p.kept = TRUE
  BY DEF Pages!Nothing, KeptPages, KeptSummaries

\* The node counts a confirmation or more for a block that is on its chain.
LEMMA CountedOnChain ==
    ASSUME ChainTyped
    PROVE  /\ Pages!Confirmations \in Int
           /\ onChain => Pages!Confirmations = nodeHeight - BlockHeight + 1
           /\ Pages!Confirmations # -1 <=> onChain
  BY PagesAssumption DEF ChainTyped, Pages!Confirmations

LEMMA InitPages == Pages!PagesInit => PagesInv
  <1> SUFFICES ASSUME Pages!PagesInit PROVE PagesInv
    OBVIOUS
  <1>1. ChainTyped
    BY PagesAssumption DEF Pages!PagesInit, ChainTyped
  <1>2. PageKept /\ SummaryKept
    BY DEF Pages!PagesInit, PageKept, SummaryKept
  <1>3. RequestsTrue
    BY DEF Pages!PagesInit, Pages!Idle, RequestsTrue, NothingRead
  <1> QED BY <1>1, <1>2, <1>3 DEF PagesInv

-----------------------------------------------------------------------------
LEMMA HigherBy ==
    ASSUME NEW a \in Int, NEW b \in Int, NEW d \in Int, NEW x \in Int, a <= b
    PROVE  /\ x <= a - d + 1 => x <= b - d + 1
           /\ a - d >= x - 1 => b - d >= x - 1
  OBVIOUS

\* New blocks, and the reorganisation that may come with them, leave true what was true
\* of a deep block, as long as no reorganisation is too deep.
LEMMA ChainMoves ==
    ASSUME ChainTyped, NEW dropped \in Nat, NEW added \in Nat,
           Pages!NodeAdvances(dropped, added)
    PROVE  /\ ChainTyped'
           /\ highest' >= highest /\ deepest' >= deepest
           /\ Deep => Deep'
           /\ Deep /\ deepest' < BlockCacheConfirmations => onChain' = onChain
           /\ Deep /\ deepest' < BlockCacheConfirmations - 1 => follower' = follower
  <1> DEFINE kept == nodeHeight - dropped
  <1>1. nodeHeight' = kept + added /\ height' = height /\ dropped <= nodeHeight
    BY DEF Pages!NodeAdvances
  <1>2. /\ deepest' = IF highest - kept > deepest THEN highest - kept ELSE deepest
        /\ highest' = IF kept + added > highest THEN kept + added ELSE highest
    BY DEF Pages!NodeAdvances
  <1>3. /\ kept >= BlockHeight => onChain' = onChain
        /\ ~(kept >= BlockHeight) =>
              onChain' = FALSE \/ onChain' = (~onChain /\ kept + added >= BlockHeight)
    BY DEF Pages!NodeAdvances
  <1>4. /\ kept > BlockHeight => follower' = follower
        /\ follower' \in {follower, 0} \cup Followers
    BY DEF Pages!NodeAdvances
  <1>5. kept \in Int /\ kept >= 0 /\ kept <= nodeHeight /\ kept + added \in Nat
    BY <1>1 DEF ChainTyped
  <1> HIDE DEF kept
  <1>6. nodeHeight' \in Nat /\ highest' \in Nat /\ nodeHeight' <= highest' /\ highest' >= highest
    BY <1>1, <1>2, <1>5 DEF ChainTyped
  <1>7. deepest' \in Nat /\ deepest' >= deepest /\ deepest' >= highest - kept
    BY <1>2, <1>5 DEF ChainTyped
  <1>8. onChain' \in BOOLEAN /\ (onChain' => BlockHeight <= nodeHeight')
    <2>1. CASE kept >= BlockHeight
      BY <1>1, <1>3, <1>5, <2>1, PagesAssumption DEF ChainTyped
    <2>2. CASE ~(kept >= BlockHeight)
      BY <1>1, <1>3, <1>5, <2>2, PagesAssumption DEF ChainTyped
    <2> QED BY <2>1, <2>2
  <1>9. follower' \in Nat
    BY <1>4, PagesAssumption DEF ChainTyped
  <1>10. height' \in 0 .. highest'
    BY <1>1, <1>6 DEF ChainTyped
  <1>11. ChainTyped'
    BY <1>6, <1>7, <1>8, <1>9, <1>10 DEF ChainTyped
  <1>12. Deep => Deep'
    <2>1. highest \in Int /\ highest' \in Int /\ highest <= highest'
      BY <1>6 DEF ChainTyped
    <2>2. BlockHeight \in Int /\ BlockCacheConfirmations \in Int
      BY PagesAssumption
    <2> QED BY <2>1, <2>2, HigherBy DEF Deep
  <1>13. Deep /\ deepest' < BlockCacheConfirmations => kept >= BlockHeight
    BY <1>5, <1>7, PagesAssumption DEF ChainTyped, Deep
  <1>14. Deep /\ deepest' < BlockCacheConfirmations - 1 => kept > BlockHeight
    BY <1>5, <1>7, PagesAssumption DEF ChainTyped, Deep
  <1> QED BY <1>3, <1>4, <1>6, <1>7, <1>11, <1>12, <1>13, <1>14

LEMMA TruthStays ==
    ASSUME ChainTyped, NEW dropped \in Nat, NEW added \in Nat,
           Pages!NodeAdvances(dropped, added),
           NEW confirmations \in Int, NEW next, SaysTrue(confirmations, next)
    PROVE  SaysTrue(confirmations, next)'
  <1>1. Deep /\ Deep'
    BY ChainMoves DEF SaysTrue
  <1>2. confirmations <= highest' - BlockHeight + 1
    <2>1. highest \in Int /\ highest' \in Int /\ highest <= highest'
      BY ChainMoves DEF ChainTyped
    <2>2. confirmations <= highest - BlockHeight + 1
      BY DEF SaysTrue
    <2>3. BlockHeight \in Int
      BY PagesAssumption
    <2> QED BY <2>1, <2>2, <2>3, HigherBy
  <1>3. ASSUME deepest' < BlockCacheConfirmations
        PROVE  onChain'
    <2>1. deepest < BlockCacheConfirmations
      BY <1>3, ChainMoves, PagesAssumption DEF ChainTyped
    <2> QED BY <1>1, <1>3, <2>1, ChainMoves DEF SaysTrue
  <1>4. ASSUME deepest' < BlockCacheConfirmations - 1
        PROVE  next = follower'
    <2>1. deepest < BlockCacheConfirmations - 1
      BY <1>4, ChainMoves, PagesAssumption DEF ChainTyped
    <2> QED BY <1>1, <1>4, <2>1, ChainMoves DEF SaysTrue
  <1> QED BY <1>1, <1>2, <1>3, <1>4 DEF SaysTrue

LEMMA NodeKeepsPages ==
    ASSUME PagesInv, NEW dropped \in Nat, NEW added \in Nat,
           Pages!NodeAdvances(dropped, added)
    PROVE  PagesInv'
  <1>1. ChainTyped /\ ChainTyped'
    BY ChainMoves DEF PagesInv
  <1>2. page' = page /\ summary' = summary
    BY DEF Pages!NodeAdvances
  <1>3. PageKept'
    <2>1. page # Pages!Nothing => page.confirmations \in Int
      BY DEF PagesInv, PageKept, KeptPages
    <2> QED BY <1>1, <1>2, <2>1, TruthStays DEF PagesInv, PageKept, Pages!Nothing
  <1>4. SummaryKept'
    <2>1. deepest' < BlockCacheConfirmations => deepest < BlockCacheConfirmations
      BY <1>1, ChainMoves, PagesAssumption DEF ChainTyped
    <2> QED BY <1>1, <1>2, <2>1, ChainMoves DEF PagesInv, SummaryKept, Pages!Nothing
  <1>5. \/ onChain' = onChain /\ run' = run
        \/ onChain' # onChain /\ run' = [c \in Clients |-> Pages!Crossed(run[c])]
    BY DEF Pages!NodeAdvances
  <1>6. ASSUME NEW c \in Clients
        PROVE  NothingRead(run[c])' \/ HeaderRead(run[c])' \/ BlockRead(run[c])'
    <2>1. CASE NothingRead(run[c])
      <3>1. run'[c] = run[c]
        BY <1>5, <2>1 DEF Pages!Crossed, NothingRead
      <3> QED BY <2>1, <3>1 DEF NothingRead
    <2>2. CASE HeaderRead(run[c])
      <3>1. run'[c] = run[c]
        BY <1>5, <2>2 DEF Pages!Crossed, HeaderRead
      <3>2. run[c].info.confirmations \in Int
        BY <2>2 DEF HeaderRead, Infos
      <3> QED BY <1>1, <2>2, <3>1, <3>2, TruthStays DEF HeaderRead
    <2>3. CASE BlockRead(run[c])
      <3>1. PICK r \in [step : {"summary transaction"}, confirmations : Int, crossed : BOOLEAN] :
               r = run[c]
        BY <2>3 DEF BlockRead
      <3>2. CASE onChain' = onChain
        BY <1>5, <2>3, <3>2 DEF BlockRead
      <3>3. CASE onChain' # onChain
        <4>1. run'[c] = [r EXCEPT !.crossed = TRUE]
          BY <1>5, <3>1, <3>3 DEF Pages!Crossed
        <4>2. /\ run'[c] \in [step : {"summary transaction"}, confirmations : Int, crossed : BOOLEAN]
              /\ run'[c].crossed
          BY <4>1
        <4> QED BY <4>2 DEF BlockRead
      <3> QED BY <3>2, <3>3
    <2> QED BY <2>1, <2>2, <2>3 DEF PagesInv, RequestsTrue
  <1>7. DOMAIN run' = Clients
    BY <1>5 DEF PagesInv, RequestsTrue
  <1>8. RequestsTrue'
    BY <1>6, <1>7 DEF RequestsTrue
  <1> QED BY <1>1, <1>3, <1>4, <1>8 DEF PagesInv

-----------------------------------------------------------------------------
chainVars == <<nodeHeight, onChain, follower, highest, deepest>>

\* The request of one client takes a step; what the others know stays true.
LEMMA OneRequest ==
    ASSUME PagesInv, UNCHANGED chainVars, NEW c \in Clients, NEW r,
           run' = [run EXCEPT ![c] = r],
           NothingRead(r) \/ HeaderRead(r) \/ BlockRead(r)
    PROVE  RequestsTrue'
  <1>1. DOMAIN run' = Clients
    BY DEF PagesInv, RequestsTrue
  <1>2. ASSUME NEW d \in Clients
        PROVE  NothingRead(run[d])' \/ HeaderRead(run[d])' \/ BlockRead(run[d])'
    <2>1. run'[d] = IF d = c THEN r ELSE run[d]
      BY DEF PagesInv, RequestsTrue
    <2>2. \/ NothingRead(run'[d])
          \/ HeaderRead(run'[d])
          \/ BlockRead(run'[d])
      BY <2>1 DEF PagesInv, RequestsTrue
    <2> QED BY <2>2 DEF NothingRead, HeaderRead, BlockRead, SaysTrue, Deep, chainVars
  <1> QED BY <1>1, <1>2 DEF RequestsTrue

LEMMA SameRequests ==
    ASSUME PagesInv, UNCHANGED chainVars, UNCHANGED run
    PROVE  RequestsTrue'
  BY DEF PagesInv, RequestsTrue, NothingRead, HeaderRead, BlockRead, SaysTrue, Deep, chainVars

LEMMA SamePage ==
    ASSUME PagesInv, UNCHANGED chainVars, UNCHANGED page
    PROVE  PageKept'
  BY DEF PagesInv, PageKept, SaysTrue, Deep, chainVars, Pages!Nothing

LEMMA SameSummary ==
    ASSUME PagesInv, UNCHANGED chainVars, UNCHANGED summary
    PROVE  SummaryKept'
  BY DEF PagesInv, SummaryKept, Deep, chainVars, Pages!Nothing

LEMMA SameChain ==
    ASSUME PagesInv, UNCHANGED chainVars, UNCHANGED height
    PROVE  ChainTyped'
  BY DEF PagesInv, ChainTyped, chainVars

\* A step of a request that reads nothing it keeps.
PlainStep(c) ==
    \/ Pages!BlockAnswered(c) \/ Pages!RequestFails(c)
    \/ Pages!AskSummary(c)
    \/ Pages!AskPage(c) /\ page' = page

LEMMA PlainSteps ==
    ASSUME PagesInv, NEW c \in Clients, PlainStep(c)
    PROVE  PagesInv'
  <1>1. UNCHANGED <<nodeHeight, onChain, follower, highest, deepest, height, page, summary>>
    BY DEF PlainStep, Pages!BlockAnswered, Pages!RequestFails, Pages!AskSummary,
           Pages!AskPage, Pages!nodeVars
  <1>2. UNCHANGED chainVars
    BY <1>1 DEF chainVars
  <1>3. UNCHANGED run \/ \E r : NothingRead(r) /\ run' = [run EXCEPT ![c] = r]
    <2>1. /\ NothingRead(Pages!Idle) /\ NothingRead([step |-> "page header"])
          /\ NothingRead([step |-> "page block"]) /\ NothingRead([step |-> "summary block"])
      BY DEF NothingRead, Pages!Idle
    <2> QED BY <2>1 DEF PlainStep, Pages!BlockAnswered, Pages!RequestFails,
                        Pages!AskSummary, Pages!AskPage
  <1>4. RequestsTrue'
    BY <1>2, <1>3, OneRequest, SameRequests
  <1> QED BY <1>1, <1>2, <1>4, SamePage, SameSummary, SameChain DEF PagesInv

\* A kept page is served with the confirmations of the service's height, which are never
\* more than the node ever counted.
LEMMA ServedPage ==
    ASSUME PagesInv, NEW c \in Clients, Pages!AskPage(c), page.kept
    PROVE  PagesInv'
  <1>1. /\ UNCHANGED <<nodeHeight, onChain, follower, highest, deepest, height, summary, run>>
        /\ page' = [page EXCEPT !.confirmations = height - BlockHeight + 1]
    BY DEF Pages!AskPage, Pages!nodeVars
  <1>2. UNCHANGED chainVars
    BY <1>1 DEF chainVars
  <1>3. page \in KeptPages /\ page.isMainChain /\ SaysTrue(page.confirmations, page.nextblockhash)
    BY NothingIsNotKept DEF PagesInv, PageKept
  <1>4. height - BlockHeight + 1 \in Int /\ height - BlockHeight + 1 <= highest - BlockHeight + 1
    BY PagesAssumption DEF PagesInv, ChainTyped
  <1>5. /\ page' \in KeptPages /\ page'.isMainChain
        /\ page'.confirmations = height - BlockHeight + 1
        /\ page'.nextblockhash = page.nextblockhash
    BY <1>1, <1>3, <1>4 DEF KeptPages
  <1>7. SaysTrue(page'.confirmations, page'.nextblockhash)
    BY <1>3, <1>4, <1>5 DEF SaysTrue
  <1>8. PageKept'
    BY <1>2, <1>5, <1>7 DEF PageKept, SaysTrue, Deep, chainVars
  <1> QED BY <1>1, <1>2, <1>8, SameSummary, SameRequests, SameChain DEF PagesInv

\* What the header says is true when it comes.
LEMMA HeaderIsTrue ==
    ASSUME PagesInv, NEW c \in Clients, Pages!HeaderAnswered(c)
    PROVE  PagesInv'
  <1> DEFINE r == [step |-> "page subsidy", info |-> Pages!Header]
  <1>1. /\ UNCHANGED <<nodeHeight, onChain, follower, highest, deepest, height, page, summary>>
        /\ run' = [run EXCEPT ![c] = r]
    BY DEF Pages!HeaderAnswered, Pages!nodeVars
  <1>2. UNCHANGED chainVars
    BY <1>1 DEF chainVars
  <1>3. Pages!Header.confirmations = Pages!Confirmations /\ Pages!Header.next = follower
    BY DEF Pages!Header
  <1>4. Pages!Header \in Infos
    BY CountedOnChain DEF Pages!Header, Infos, PagesInv, ChainTyped
  <1>5. Pages!Confirmations >= BlockCacheConfirmations => SaysTrue(Pages!Confirmations, follower)
    <2>1. ASSUME Pages!Confirmations >= BlockCacheConfirmations
          PROVE  onChain /\ Deep /\ Pages!Confirmations <= highest - BlockHeight + 1
      BY <2>1, CountedOnChain, PagesAssumption DEF PagesInv, ChainTyped, Deep
    <2> QED BY <2>1 DEF SaysTrue
  <1>6. HeaderRead(r)
    BY <1>3, <1>4, <1>5 DEF HeaderRead
  <1>7. RequestsTrue'
    BY <1>1, <1>2, <1>6, OneRequest
  <1> QED BY <1>1, <1>2, <1>7, SamePage, SameSummary, SameChain DEF PagesInv

LEMMA SubsidyKeepsHeader ==
    ASSUME PagesInv, NEW c \in Clients, Pages!SubsidyAnswered(c)
    PROVE  PagesInv'
  <1>1. /\ UNCHANGED <<nodeHeight, onChain, follower, highest, deepest, height, page, summary>>
        /\ run[c].step = "page subsidy"
        /\ run' = [run EXCEPT ![c].step = "page transaction"]
    BY DEF Pages!SubsidyAnswered, Pages!nodeVars
  <1>2. UNCHANGED chainVars
    BY <1>1 DEF chainVars
  <1>3. HeaderRead(run[c])
    BY <1>1 DEF PagesInv, RequestsTrue, NothingRead, BlockRead
  <1>4. PICK r \in [step : {"page subsidy", "page transaction"}, info : Infos] : r = run[c]
    BY <1>3 DEF HeaderRead
  <1> DEFINE q == [r EXCEPT !.step = "page transaction"]
  <1>5. run' = [run EXCEPT ![c] = q]
    BY <1>1, <1>4 DEF PagesInv, RequestsTrue
  <1>6. HeaderRead(q)
    <2>1. q \in [step : {"page subsidy", "page transaction"}, info : Infos] /\ q.info = r.info
      OBVIOUS
    <2> QED BY <1>3, <1>4, <2>1 DEF HeaderRead
  <1> HIDE DEF q
  <1>7. RequestsTrue'
    BY <1>2, <1>5, <1>6, OneRequest
  <1> QED BY <1>1, <1>2, <1>7, SamePage, SameSummary, SameChain DEF PagesInv

\* The page is kept for what the header said, and that has stayed true.
LEMMA PageIsTrue ==
    ASSUME PagesInv, NEW c \in Clients, Pages!PageDone(c)
    PROVE  PagesInv'
  <1>1. /\ UNCHANGED <<nodeHeight, onChain, follower, highest, deepest, height, summary>>
        /\ run[c].step = "page transaction"
        /\ run' = [run EXCEPT ![c] = Pages!Idle]
    BY DEF Pages!PageDone, Pages!nodeVars
  <1>2. UNCHANGED chainVars
    BY <1>1 DEF chainVars
  <1>3. HeaderRead(run[c])
    BY <1>1 DEF PagesInv, RequestsTrue, NothingRead, BlockRead
  <1>4. PICK info \in Infos : info = run[c].info
    BY <1>3 DEF HeaderRead
  <1>5. page' = IF info.confirmations >= BlockCacheConfirmations
                THEN [kept |-> TRUE, confirmations |-> info.confirmations,
                      nextblockhash |-> info.next, isMainChain |-> info.confirmations # -1]
                ELSE page
    BY <1>4 DEF Pages!PageDone, Pages!KeepsPage
  <1>6. PageKept'
    <2>1. CASE info.confirmations >= BlockCacheConfirmations
      <3>1. info.confirmations # -1 /\ info.confirmations \in Int /\ info.next \in Nat
        BY <2>1, PagesAssumption DEF Infos
      <3>2. /\ page' \in KeptPages /\ page'.isMainChain
            /\ page'.confirmations = info.confirmations /\ page'.nextblockhash = info.next
        BY <1>5, <2>1, <3>1 DEF KeptPages
      <3>3. SaysTrue(info.confirmations, info.next)
        BY <1>3, <1>4, <2>1 DEF HeaderRead
      <3> QED BY <1>2, <3>2, <3>3 DEF PageKept, SaysTrue, Deep, chainVars
    <2>2. CASE ~(info.confirmations >= BlockCacheConfirmations)
      BY <1>2, <1>5, <2>2, SamePage
    <2> QED BY <2>1, <2>2
  <1>7. RequestsTrue'
    BY <1>1, <1>2, OneRequest DEF NothingRead, Pages!Idle
  <1> QED BY <1>1, <1>2, <1>6, <1>7, SameSummary, SameChain DEF PagesInv

\* What the block says of the main chain is true when it comes.
LEMMA BlockIsTrue ==
    ASSUME PagesInv, NEW c \in Clients, Pages!SummaryBlockAnswered(c)
    PROVE  PagesInv'
  <1> DEFINE r == [step |-> "summary transaction",
                   confirmations |-> Pages!Confirmations, crossed |-> FALSE]
  <1>1. /\ UNCHANGED <<nodeHeight, onChain, follower, highest, deepest, height, page, summary>>
        /\ run' = [run EXCEPT ![c] = r]
    BY DEF Pages!SummaryBlockAnswered, Pages!nodeVars
  <1>2. UNCHANGED chainVars
    BY <1>1 DEF chainVars
  <1>3. BlockRead(r)
    BY CountedOnChain DEF BlockRead, PagesInv
  <1>4. RequestsTrue'
    BY <1>1, <1>2, <1>3, OneRequest
  <1> QED BY <1>1, <1>2, <1>4, SamePage, SameSummary, SameChain DEF PagesInv

\* The summary is kept for the height of the service, which the node has reached.
LEMMA SummaryIsTrue ==
    ASSUME PagesInv, NEW c \in Clients, Pages!SummaryDone(c)
    PROVE  PagesInv'
  <1>0. Pages!KeepsSummary => Deep
    <2>1. height \in Nat /\ highest \in Nat /\ height <= highest
      BY PagesAssumption DEF PagesInv, ChainTyped
    <2> QED BY <2>1, PagesAssumption DEF Pages!KeepsSummary, Deep
  <1>1. /\ UNCHANGED <<nodeHeight, onChain, follower, highest, deepest, height, page>>
        /\ run[c].step = "summary transaction"
        /\ run' = [run EXCEPT ![c] = Pages!Idle]
    BY DEF Pages!SummaryDone, Pages!nodeVars
  <1>2. UNCHANGED chainVars
    BY <1>1 DEF chainVars
  <1>3. BlockRead(run[c])
    BY <1>1 DEF PagesInv, RequestsTrue, NothingRead, HeaderRead
  <1>4. PICK r \in [step : {"summary transaction"}, confirmations : Int, crossed : BOOLEAN] :
           r = run[c]
    BY <1>3 DEF BlockRead
  <1>5. summary' = IF Pages!KeepsSummary
                   THEN [kept |-> TRUE, isMainChain |-> r.confirmations # -1,
                         crossed |-> r.crossed]
                   ELSE summary
    BY <1>4 DEF Pages!SummaryDone
  <1>6. SummaryKept'
    <2>1. CASE Pages!KeepsSummary
      <3>1. Deep
        BY <1>0, <2>1
      <3>2. /\ summary' \in KeptSummaries
            /\ summary'.isMainChain = (r.confirmations # -1) /\ summary'.crossed = r.crossed
        BY <1>5, <2>1 DEF KeptSummaries
      <3>3. ~r.crossed => (r.confirmations # -1) = onChain
        BY <1>3, <1>4 DEF BlockRead, PagesInv, ChainTyped
      <3> QED BY <1>2, <3>1, <3>2, <3>3 DEF SummaryKept, Deep, chainVars
    <2>2. CASE ~Pages!KeepsSummary
      BY <1>2, <1>5, <2>2, SameSummary
    <2> QED BY <2>1, <2>2
  <1>7. RequestsTrue'
    BY <1>1, <1>2, OneRequest DEF NothingRead, Pages!Idle
  <1> QED BY <1>1, <1>2, <1>6, <1>7, SamePage, SameChain DEF PagesInv

LEMMA OtherSteps ==
    ASSUME PagesInv, Pages!Evicted \/ \E h : Pages!HeightArrives(h)
    PROVE  PagesInv'
  <1>1. UNCHANGED <<nodeHeight, onChain, follower, highest, deepest, run>> /\ UNCHANGED chainVars
    BY DEF Pages!Evicted, Pages!HeightArrives, Pages!nodeVars, chainVars
  <1>2. ChainTyped'
    <2>1. height' \in 0 .. highest
      BY DEF Pages!Evicted, Pages!HeightArrives, PagesInv, ChainTyped
    <2> QED BY <1>1, <2>1 DEF PagesInv, ChainTyped
  <1>3. (page' = page \/ page' = Pages!Nothing) /\ (summary' = summary \/ summary' = Pages!Nothing)
    BY DEF Pages!Evicted, Pages!HeightArrives
  <1>4. PageKept'
    BY <1>1, <1>3, SamePage DEF PageKept, Pages!Nothing
  <1>5. SummaryKept'
    BY <1>1, <1>3, SameSummary DEF SummaryKept, Pages!Nothing
  <1> QED BY <1>1, <1>2, <1>4, <1>5, SameRequests DEF PagesInv

\* Whatever the limiter lets through, the controller takes a step of its own or none.
LEMMA PagesKeepTrue == PagesInv /\ [ApiNext]_apiVars => PagesInv'
  <1> SUFFICES ASSUME PagesInv, [ApiNext]_apiVars PROVE PagesInv'
    OBVIOUS
  <1>1. CASE UNCHANGED pageVars
    <2>1. UNCHANGED <<chainVars, height, page, summary, run>>
      BY <1>1 DEF pageVars, chainVars
    <2> QED BY <2>1, SamePage, SameSummary, SameRequests, SameChain DEF PagesInv
  <1>2. ASSUME NEW c \in Clients, Pages!AskPage(c) \/ Pages!AskSummary(c) PROVE PagesInv'
    <2>1. CASE Pages!AskPage(c) /\ page.kept
      BY <2>1, ServedPage
    <2>2. CASE Pages!AskPage(c) /\ ~page.kept
      <3>1. page' = page
        BY <2>2 DEF Pages!AskPage
      <3>2. PlainStep(c)
        BY <2>2, <3>1 DEF PlainStep
      <3> QED BY <3>2, PlainSteps
    <2>3. CASE Pages!AskSummary(c)
      <3>1. PlainStep(c)
        BY <2>3 DEF PlainStep
      <3> QED BY <3>1, PlainSteps
    <2>4. page.kept \/ ~page.kept
      OBVIOUS
    <2> QED BY <1>2, <2>1, <2>2, <2>3, <2>4
  <1>3. ASSUME NEW c \in Clients, PageAnswered(c) PROVE PagesInv'
    BY <1>3, PlainSteps, HeaderIsTrue, SubsidyKeepsHeader, PageIsTrue, BlockIsTrue, SummaryIsTrue
       DEF PageAnswered, PlainStep
  <1>4. CASE PagesMove
    <2>1. \A n \in 0 .. MaxHeight : n \in Nat
      BY PagesAssumption
    <2> QED BY <1>3, <1>4, <2>1, NodeKeepsPages, OtherSteps DEF PagesMove
  <1>5. CASE \E c \in Clients :
                RequestPage(c) \/ RequestSummary(c) \/ RequestOther(c) \/ RequestRefused(c)
    BY <1>1, <1>2, <1>5 DEF RequestPage, RequestSummary, RequestOther, RequestRefused
  <1>6. CASE TimePasses
    BY <1>1, <1>6 DEF TimePasses
  <1>7. CASE UNCHANGED apiVars
    BY <1>1, <1>7 DEF apiVars, pageVars
  <1> QED BY <1>4, <1>5, <1>6, <1>7 DEF ApiNext

\* For every block, number of confirmations and set of clients, whatever requests and
\* reorganisations overlap, what the block controller keeps is true until a
\* reorganisation cuts the chain as far below its greatest height as the confirmations
\* it waited for; the chain may become shorter, and several reorganisations may add up
\* (getBlockByHash, _getBlockSummary).
THEOREM KeptPagesAreTrue == ApiSpec => []KeptIsTrue
  <1>1. ApiInit => PagesInv
    BY InitPages DEF ApiInit
  <1>2. PagesInv => KeptIsTrue
    <2> SUFFICES ASSUME PagesInv PROVE Pages!PagesAreTrue /\ Pages!SummariesAreTrue
      BY DEF KeptIsTrue
    <2>1. Pages!PagesAreTrue
      <3> SUFFICES ASSUME page.kept PROVE Pages!PagesAreTrue
        BY DEF Pages!PagesAreTrue
      <3>1. /\ page.confirmations \in Int /\ page.isMainChain
            /\ SaysTrue(page.confirmations, page.nextblockhash)
        BY NothingIsNotKept DEF PagesInv, PageKept, KeptPages
      <3>2. ASSUME deepest < BlockCacheConfirmations
            PROVE  onChain /\ page.confirmations <= Pages!Confirmations + (highest - nodeHeight)
        <4>1. onChain /\ page.confirmations <= highest - BlockHeight + 1
          BY <3>1, <3>2 DEF SaysTrue
        <4>2. Pages!Confirmations = nodeHeight - BlockHeight + 1
          BY <4>1, CountedOnChain DEF PagesInv
        <4> QED BY <3>1, <4>1, <4>2, PagesAssumption DEF PagesInv, ChainTyped
      <3> QED BY <3>1, <3>2 DEF SaysTrue, Pages!PagesAreTrue
    <2>2. Pages!SummariesAreTrue
      BY NothingIsNotKept DEF PagesInv, SummaryKept, Pages!SummariesAreTrue
    <2> QED BY <2>1, <2>2
  <1> QED BY <1>1, <1>2, PagesKeepTrue, PTL DEF ApiSpec

-----------------------------------------------------------------------------
(***************************************************************************)
(* The clients with a web socket: the lists of buses follow what the       *)
(* clients asked for, whoever is in one is told, once, and nothing is sent *)
(* to anyone else; for any number of clients, calls and messages.          *)
(***************************************************************************)


ListTypes ==
    /\ socket \in [Buses -> {"new", "open", "closed"}]
    /\ entries \in [Rooms -> [Buses -> Nat]]
    /\ wants \in [Buses -> SUBSET Rooms]
    /\ repeated \in [Buses -> SUBSET Plain]

\* A wanted room has the bus, and but for repeated calls it has it once, and only then.
InvAt(b, r) ==
    /\ r \in wants[b] => entries[r][b] > 0
    /\ r \notin repeated[b] => entries[r][b] <= 1
    /\ r \notin repeated[b] /\ entries[r][b] > 0 => r \in wants[b]

ListsInv == \A b \in Buses, r \in Rooms : InvAt(b, r)

\* What was sent to whom is counted.
SentType == sent \in [Buses -> [Rooms -> [Items -> Nat]]]

-----------------------------------------------------------------------------
\* The rooms of one call are rooms.
LEMMA CallRooms ==
    /\ \A r \in Rooms \ AddressRooms : {r} \in SUBSET Rooms
    /\ \A name \in PerAddress, as \in SUBSET Addresses :
         /\ RoomsOf(name, as) \in SUBSET Rooms
         /\ RoomsOf(name, Accepted(as)) \in SUBSET Rooms
BY DEF Rooms, RoomsOf, AddressRooms, Accepted

\* The values of a list that a bus enters or leaves.
LEMMA EnterValue ==
    ASSUME NEW r, NEW n \in Nat
    PROVE  /\ Entered(r, n) \in Nat /\ Entered(r, n) > 0
           /\ r \notin Plain /\ n <= 1 => Entered(r, n) = 1
           /\ n = 0 => Entered(r, n) = 1
BY DEF Entered, EnteredOnce

LEMMA LeaveValue ==
    ASSUME NEW n \in Nat
    PROVE  Left(n) \in Nat /\ Left(n) <= n /\ (n <= 1 => Left(n) = 0)
BY DEF Left

\* A bus enters rooms: its client wants them now.
LEMMA EnterStep ==
    ASSUME ListTypes, ListsInv, NEW b \in Buses, NEW rooms \in SUBSET Rooms,
           Enter(b, rooms), socket' \in [Buses -> {"new", "open", "closed"}]
    PROVE  ListTypes' /\ ListsInv'
<1>1. \A r \in Rooms : entries'[r] =
        IF r \in rooms THEN [entries[r] EXCEPT ![b] = Entered(r, @)] ELSE entries[r]
  BY DEF Enter
<1>2. \A r \in Rooms, c \in Buses : entries[r][c] \in Nat
  BY DEF ListTypes
<1>3. \A r \in Rooms, c \in Buses : entries'[r][c] =
        IF r \in rooms /\ c = b THEN Entered(r, entries[r][b]) ELSE entries[r][c]
  BY <1>1 DEF ListTypes
<1>4. \A r \in Rooms : Entered(r, entries[r][b]) \in Nat
  BY <1>2, EnterValue
<1>5. ListTypes'
  <2>1. entries' \in [Rooms -> [Buses -> Nat]]
    BY <1>4 DEF Enter, ListTypes
  <2>2. wants' \in [Buses -> SUBSET Rooms]
    BY DEF Enter, ListTypes
  <2>3. repeated' \in [Buses -> SUBSET Plain]
    BY DEF Enter, ListTypes
  <2> QED BY <2>1, <2>2, <2>3 DEF ListTypes
<1>6. ASSUME NEW c \in Buses, NEW r \in Rooms PROVE InvAt(c, r)'
  <2>1. CASE c = b /\ r \in rooms
    <3>1. entries'[r][c] = Entered(r, entries[r][b]) /\ entries'[r][c] > 0
      BY <1>2, <1>3, <2>1, EnterValue
    <3>2. r \in wants'[c]
      BY <2>1 DEF Enter, ListTypes
    <3>3. ASSUME r \notin repeated'[c] PROVE entries'[r][c] <= 1
      <4>1. r \notin repeated[b] /\ ~(r \in Plain /\ entries[r][b] > 0)
        BY <3>3, <2>1 DEF Enter, ListTypes
      <4>2. entries[r][b] <= 1
        BY <4>1 DEF ListsInv, InvAt
      <4>3. CASE r \in Plain
        <5>1. entries[r][b] = 0
          BY <4>1, <4>3, <1>2
        <5> QED BY <5>1, <3>1, EnterValue
      <4>4. CASE r \notin Plain
        BY <4>2, <4>4, <3>1, <1>2, EnterValue
      <4> QED BY <4>3, <4>4
    <3> QED BY <3>1, <3>2, <3>3 DEF InvAt
  <2>2. CASE ~(c = b /\ r \in rooms)
    <3>1. entries'[r][c] = entries[r][c]
      BY <1>3, <2>2
    <3>2. r \in wants'[c] <=> r \in wants[c]
      BY <2>2 DEF Enter, ListTypes
    <3>3. r \in repeated[c] <=> r \in repeated'[c]
      BY <2>2 DEF Enter, ListTypes
    <3> QED BY <3>1, <3>2, <3>3 DEF InvAt, ListsInv
  <2> QED BY <2>1, <2>2
<1> QED BY <1>5, <1>6 DEF ListsInv

\* A bus leaves rooms: its client wants them no more.
LEMMA LeaveStep ==
    ASSUME ListTypes, ListsInv, NEW b \in Buses, NEW rooms \in SUBSET Rooms,
           Leave(b, rooms), socket' \in [Buses -> {"new", "open", "closed"}]
    PROVE  ListTypes' /\ ListsInv'
<1>1. \A r \in Rooms : entries'[r] =
        IF r \in rooms THEN [entries[r] EXCEPT ![b] = Left(@)] ELSE entries[r]
  BY DEF Leave
<1>2. \A r \in Rooms, c \in Buses : entries[r][c] \in Nat
  BY DEF ListTypes
<1>3. \A r \in Rooms, c \in Buses : entries'[r][c] =
        IF r \in rooms /\ c = b THEN Left(entries[r][b]) ELSE entries[r][c]
  BY <1>1 DEF ListTypes
<1>4. \A r \in Rooms : Left(entries[r][b]) \in Nat
  BY <1>2, LeaveValue
<1>5. ListTypes'
  <2>1. entries' \in [Rooms -> [Buses -> Nat]]
    BY <1>4 DEF Leave, ListTypes
  <2>2. wants' \in [Buses -> SUBSET Rooms]
    BY DEF Leave, ListTypes
  <2> QED BY <2>1, <2>2 DEF ListTypes, Leave
<1>6. ASSUME NEW c \in Buses, NEW r \in Rooms PROVE InvAt(c, r)'
  <2>1. CASE c = b /\ r \in rooms
    <3>1. entries'[r][c] = Left(entries[r][b])
      BY <1>3, <2>1
    <3>2. r \notin wants'[c]
      BY <2>1 DEF Leave, ListTypes
    <3>3. ASSUME r \notin repeated'[c] PROVE entries'[r][c] = 0
      <4>1. entries[r][b] <= 1
        BY <3>3, <2>1 DEF Leave, ListsInv, InvAt
      <4> QED BY <4>1, <3>1, <1>2, LeaveValue
    <3> QED BY <3>2, <3>3 DEF InvAt
  <2>2. CASE ~(c = b /\ r \in rooms)
    <3>1. entries'[r][c] = entries[r][c]
      BY <1>3, <2>2
    <3>2. r \in wants'[c] <=> r \in wants[c]
      BY <2>2 DEF Leave, ListTypes
    <3> QED BY <3>1, <3>2 DEF InvAt, ListsInv, Leave
  <2> QED BY <2>1, <2>2
<1> QED BY <1>5, <1>6 DEF ListsInv

-----------------------------------------------------------------------------
LEMMA InitLists == BusesInit => ListTypes /\ ListsInv
BY DEF BusesInit, ListTypes, ListsInv, InvAt

\* What happens in the network leaves the lists alone.
LEMMA NewsStep ==
    ASSUME NEW x, NEW r,
           \/ AlreadyKnown(x) \/ NewTransaction(x) \/ NewBlock(x) \/ PollReports(x)
           \/ Updated(x) \/ Answered(r, x) \/ Fails(r, x)
    PROVE  UNCHANGED listVars
BY DEF AlreadyKnown, NewTransaction, NewBlock, PollReports, Updated, Answered, Fails

LEMMA ListsStep == ListTypes /\ ListsInv /\ [BusesNext]_busVars => ListTypes' /\ ListsInv'
<1> SUFFICES ASSUME ListTypes, ListsInv, [BusesNext]_busVars PROVE ListTypes' /\ ListsInv'
  OBVIOUS
<1>0. CASE UNCHANGED listVars
  BY <1>0 DEF listVars, ListTypes, ListsInv, InvAt
<1>1. CASE UNCHANGED busVars
  BY <1>0, <1>1 DEF busVars
<1>2. ASSUME NEW b \in Buses, Connect(b) PROVE ListTypes' /\ ListsInv'
  BY <1>2 DEF Connect, ListTypes, ListsInv, InvAt
<1>3. ASSUME NEW b \in Buses, Disconnect(b) PROVE ListTypes' /\ ListsInv'
  <2>1. socket' \in [Buses -> {"new", "open", "closed"}]
    BY <1>3 DEF Disconnect, ListTypes
  <2> QED BY <1>3, <2>1, LeaveStep DEF Disconnect
<1>4. ASSUME NEW b \in Buses, NEW r \in Rooms \ AddressRooms,
             Subscribe(b, r) \/ Unsubscribe(b, r)
      PROVE  ListTypes' /\ ListsInv'
  <2>1. socket' \in [Buses -> {"new", "open", "closed"}]
    BY <1>4 DEF Subscribe, Unsubscribe, Calls, ListTypes
  <2>2. CASE Subscribe(b, r)
    BY <2>1, <2>2, CallRooms, EnterStep DEF Subscribe
  <2>3. CASE Unsubscribe(b, r)
    BY <2>1, <2>3, CallRooms, LeaveStep DEF Unsubscribe
  <2> QED BY <1>4, <2>2, <2>3
<1>5. ASSUME NEW b \in Buses, NEW name \in PerAddress, NEW as \in (SUBSET Addresses) \ {{}},
             SubscribeAddresses(b, name, as) \/ UnsubscribeAddresses(b, name, as)
      PROVE  ListTypes' /\ ListsInv'
  <2>1. socket' \in [Buses -> {"new", "open", "closed"}]
    BY <1>5 DEF SubscribeAddresses, UnsubscribeAddresses, Calls, ListTypes
  <2>2. CASE SubscribeAddresses(b, name, as)
    BY <2>1, <2>2, CallRooms, EnterStep DEF SubscribeAddresses
  <2>3. CASE UnsubscribeAddresses(b, name, as)
    BY <2>1, <2>3, CallRooms, LeaveStep DEF UnsubscribeAddresses
  <2> QED BY <1>5, <2>2, <2>3
<1>6. CASE \/ \E x \in Transactions \cup Blocks : AlreadyKnown(x)
           \/ \E t \in Transactions : NewTransaction(t)
           \/ \E b \in Blocks : NewBlock(b) \/ PollReports(b)
           \/ \E u \in Updates : Updated(u)
           \/ \E r \in Rooms, x \in Items : Answered(r, x) \/ Fails(r, x)
  BY <1>0, <1>6, NewsStep
<1> QED BY <1>1, <1>2, <1>3, <1>4, <1>5, <1>6 DEF BusesNext

\* In every behaviour a bus is in the lists its client asked for and in no other, but
\* for a list of raw transactions or blocks it entered twice (Bus.subscribe, Bus.close).
THEOREM ListsFollow == BusesSpec => []ListsFollowClients
<1>1. ListTypes /\ ListsInv => ListsFollowClients
  <2> SUFFICES ASSUME ListTypes, ListsInv, NEW b \in Buses, NEW r \in Rooms
               PROVE  (entries[r][b] > 0 <=> r \in wants[b]) \/ r \in repeated[b]
    BY DEF ListsFollowClients
  <2> QED BY DEF ListsInv, InvAt
<1> QED BY <1>1, InitLists, ListsStep, PTL DEF BusesSpec

-----------------------------------------------------------------------------
\* What a step may send: something to a place in a list, of an open socket.
Reach(b, r) == sent'[b][r] # sent[b][r] => socket[b] = "open" /\ entries[r][b] > 0

LEMMA TellReaches ==
    ASSUME ListTypes, SentType, NEW x \in Items, NEW rooms, Tell(rooms, x),
           \A r \in DOMAIN rooms : rooms[r] \in Nat
    PROVE  SentType' /\ \A b \in Buses, r \in Rooms : Reach(b, r)
<1>1. ASSUME NEW b \in Buses, NEW r \in Rooms
      PROVE  /\ sent'[b][r] \in [Items -> Nat]
             /\ Reach(b, r)
  <2>1. sent[b][r] \in [Items -> Nat] /\ entries[r][b] \in Nat
    BY DEF SentType, ListTypes
  <2>2. CASE ~(r \in DOMAIN rooms /\ socket[b] = "open")
    BY <2>1, <2>2 DEF Tell, Reach
  <2>3. CASE r \in DOMAIN rooms /\ socket[b] = "open"
    <3>1. PICK n \in Nat : n = rooms[r]
      BY <2>3
    <3>2. sent'[b][r] = [sent[b][r] EXCEPT ![x] = @ + n * entries[r][b]]
      BY <2>3, <3>1 DEF Tell
    <3>3. n * entries[r][b] \in Nat
      BY <2>1
    <3>4. sent'[b][r] \in [Items -> Nat]
      BY <2>1, <3>2, <3>3
    <3>5. CASE entries[r][b] = 0
      <4>1. n * entries[r][b] = 0
        BY <3>5
      <4>2. sent'[b][r] = sent[b][r]
        BY <2>1, <3>2, <4>1
      <4> QED BY <3>4, <4>2 DEF Reach
    <3>6. CASE entries[r][b] > 0
      BY <2>3, <3>4, <3>6 DEF Reach
    <3> QED BY <2>1, <3>5, <3>6
  <2> QED BY <2>2, <2>3
<1>2. sent' = [b \in Buses |-> [r \in Rooms |-> sent'[b][r]]]
  BY DEF Tell
<1> QED BY <1>1, <1>2 DEF SentType

LEMMA SameSent ==
    ASSUME SentType, UNCHANGED sent
    PROVE  SentType' /\ \A b \in Buses, r \in Rooms : Reach(b, r)
BY DEF SentType, Reach

LEMMA SentStep ==
    ASSUME ListTypes, SentType, [BusesNext]_busVars
    PROVE  SentType' /\ \A b \in Buses, r \in Rooms : Reach(b, r)
<1> DEFINE Goal == SentType' /\ \A b \in Buses, r \in Rooms : Reach(b, r)
<1>1. CASE UNCHANGED busVars
  BY <1>1, SameSent DEF busVars, newsVars
<1>2. ASSUME NEW b \in Buses, Connect(b) \/ Disconnect(b) PROVE Goal
  BY <1>2, SameSent DEF Connect, Disconnect, newsVars
<1>3. ASSUME NEW b \in Buses, Calls(b) PROVE Goal
  BY <1>3, SameSent DEF Calls, newsVars
<1>4. ASSUME NEW t \in Transactions, NewTransaction(t) PROVE Goal
  <2> DEFINE addresses == {r \in {q \in AddressRooms : Concerns(t, q) > 0} :
                              r.name = "address"}
             told == DOMAIN [r \in {Room("rawtransaction"), Inv, Silubium} |-> 1]
             rooms == [r \in told \cup addresses |->
                          IF r \in addresses THEN Concerns(t, r) ELSE 1]
  <2>1. Tell(rooms, t)
    BY <1>4 DEF NewTransaction
  <2>2. \A r \in told \cup addresses : rooms[r] \in Nat
    BY DEF Concerns
  <2>3. DOMAIN rooms = told \cup addresses
    OBVIOUS
  <2>4. t \in Items
    BY DEF Items
  <2> HIDE DEF rooms, addresses, told
  <2> QED BY <2>1, <2>2, <2>3, <2>4, TellReaches
<1>5. ASSUME NEW x \in Items, NEW R, Tell([r \in R |-> 1], x) PROVE Goal
  BY <1>5, TellReaches
<1>6. ASSUME NEW b \in Blocks, NewBlock(b) \/ PollReports(b) PROVE Goal
  BY <1>5, <1>6 DEF NewBlock, PollReports, Items
<1>7. ASSUME NEW x, AlreadyKnown(x) \/ Updated(x) PROVE Goal
  BY <1>7, SameSent DEF AlreadyKnown, Updated
<1>8. ASSUME NEW r \in Rooms, NEW x \in Items, Answered(r, x) \/ Fails(r, x) PROVE Goal
  BY <1>5, <1>8, SameSent DEF Answered, Fails
<1>9. ASSUME NEW b \in Buses,
             \/ \E r \in Rooms \ AddressRooms : Subscribe(b, r) \/ Unsubscribe(b, r)
             \/ \E name \in PerAddress, as \in (SUBSET Addresses) \ {{}} :
                  SubscribeAddresses(b, name, as) \/ UnsubscribeAddresses(b, name, as)
      PROVE  Calls(b)
  BY <1>9 DEF Subscribe, Unsubscribe, SubscribeAddresses, UnsubscribeAddresses
<1>10. CASE \E b \in Buses :
             \/ Connect(b) \/ Disconnect(b)
             \/ \E r \in Rooms \ AddressRooms : Subscribe(b, r) \/ Unsubscribe(b, r)
             \/ \E name \in PerAddress, as \in (SUBSET Addresses) \ {{}} :
                  SubscribeAddresses(b, name, as) \/ UnsubscribeAddresses(b, name, as)
  BY <1>2, <1>3, <1>9, <1>10
<1>11. CASE \/ \E x \in Transactions \cup Blocks : AlreadyKnown(x)
            \/ \E t \in Transactions : NewTransaction(t)
            \/ \E b \in Blocks : NewBlock(b) \/ PollReports(b)
            \/ \E u \in Updates : Updated(u)
            \/ \E r \in Rooms, x \in Items : Answered(r, x) \/ Fails(r, x)
  BY <1>4, <1>6, <1>7, <1>8, <1>11
<1> QED BY <1>1, <1>10, <1>11 DEF BusesNext

LEMMA InitSent == BusesInit => SentType
BY DEF BusesInit, SentType

\* In every behaviour, whatever order calls, announcements, answers and errors come in,
\* only an open socket whose client is subscribed is sent a message, but for the lists
\* of raw transactions and blocks it entered twice (_notifyBalanceSubscriber,
\* blockEventHandler read the list when the answer is there).
THEOREM OnlySubscribersAreTold == BusesSpec => OnlyWhoAsked
<1> DEFINE TInv == ListTypes /\ ListsInv /\ SentType
           Asked == \A b \in Buses, r \in Rooms :
                       sent'[b][r] # sent[b][r] =>
                           socket[b] = "open" /\ (r \in wants[b] \/ r \in repeated[b])
<1>1. BusesInit => TInv
  BY InitLists, InitSent
<1>2. TInv /\ [BusesNext]_busVars => TInv'
  BY ListsStep, SentStep
<1>3. TInv /\ [BusesNext]_busVars => [Asked]_busVars
  <2> SUFFICES ASSUME TInv, [BusesNext]_busVars, NEW b \in Buses, NEW r \in Rooms,
                      sent'[b][r] # sent[b][r]
               PROVE  socket[b] = "open" /\ (r \in wants[b] \/ r \in repeated[b])
    OBVIOUS
  <2>1. socket[b] = "open" /\ entries[r][b] > 0
    BY SentStep DEF Reach
  <2> QED BY <2>1 DEF ListsInv, InvAt
<1> QED BY <1>1, <1>2, <1>3, PTL DEF BusesSpec, OnlyWhoAsked

-----------------------------------------------------------------------------
(* What was announced and what is asked for, and what one step adds to it. *)

NewsTypes ==
    /\ SentType
    /\ asked \in [Rooms -> [Items -> Nat]]
    /\ arrivals \in [Items -> Nat]
    /\ polled \subseteq Blocks

\* The rooms a transaction is told of at once, and those it is asked for.
TxRooms(t) ==
    {Room("rawtransaction"), Inv, Silubium}
        \cup {r \in {q \in AddressRooms : Concerns(t, q) > 0} : r.name = "address"}
TxAsks(t) ==
    {q \in AddressRooms : Concerns(t, q) > 0}
        \ {r \in {q \in AddressRooms : Concerns(t, q) > 0} : r.name = "address"}

\* A list that is told takes the message once or not at all.
Once(rooms) == \A r \in DOMAIN rooms : rooms[r] = 1

LEMMA RoomKinds ==
    /\ Inv \in Rooms /\ Silubium \in Rooms
    /\ Room("rawtransaction") \in Rooms /\ Room("hashblock") \in Rooms
    /\ Silubium \notin {Inv, Room("hashblock")} /\ Inv # Room("hashblock")
    /\ \A r \in AddressRooms : r \in Rooms /\ r.name \in PerAddress
    /\ \A r \in {Room("rawtransaction"), Inv, Silubium} : r.name \notin PerAddress
BY DEF Rooms, Plain, Inv, Silubium, Room, AddressRooms, AddressRoom, PerAddress

\* No room is told of a transaction and asked for as well.
LEMMA TxRoomsApart ==
    ASSUME NEW t
    PROVE  /\ TxRooms(t) \subseteq Rooms /\ TxAsks(t) \subseteq Rooms
           /\ TxRooms(t) \cap TxAsks(t) = {}
BY RoomKinds DEF TxRooms, TxAsks

\* What a new transaction does, its rooms named.
LEMMA NewTransactionDoes ==
    ASSUME NEW t \in Transactions, NewTransaction(t)
    PROVE  /\ t \notin known /\ known' = known \cup {t} /\ Announced(t)
           /\ \E rooms : Tell(rooms, t) /\ DOMAIN rooms = TxRooms(t) /\ Once(rooms)
           /\ Ask(TxAsks(t), t)
           /\ Owe(TxRooms(t) \cup TxAsks(t), t)
           /\ UNCHANGED <<listVars, polled>>
<1> DEFINE addressed == {r \in AddressRooms : Concerns(t, r) > 0}
           addresses == {r \in addressed : r.name = "address"}
           told == DOMAIN [r \in {Room("rawtransaction"), Inv, Silubium} |-> 1]
           rooms == [r \in told \cup addresses |->
                        IF r \in addresses THEN Concerns(t, r) ELSE 1]
<1>1. /\ t \notin known /\ known' = known \cup {t} /\ Announced(t)
      /\ Tell(rooms, t) /\ Ask(addressed \ addresses, t) /\ Owe(told \cup addressed, t)
      /\ UNCHANGED <<listVars, polled>>
  BY DEF NewTransaction
<1>2. DOMAIN rooms = TxRooms(t)
  BY DEF TxRooms
<1>3. Once(rooms)
  BY DEF Once, Concerns
<1>4. addressed \ addresses = TxAsks(t)
  BY DEF TxAsks
<1>5. told \cup addressed = TxRooms(t) \cup TxAsks(t)
  BY DEF TxRooms, TxAsks
<1> HIDE DEF rooms, told, addressed, addresses
<1> QED BY <1>1, <1>2, <1>3, <1>4, <1>5

\* What is told reaches every place in the lists of the rooms, and nobody else.
LEMMA ToldOnce ==
    ASSUME ListTypes, SentType, NEW x \in Items, NEW rooms, Tell(rooms, x), Once(rooms),
           NEW b \in Buses, NEW r \in Rooms, NEW y \in Items
    PROVE  sent'[b][r][y] = sent[b][r][y] +
             IF y = x /\ r \in DOMAIN rooms /\ socket[b] = "open"
             THEN entries[r][b] ELSE 0
<1>1. sent[b][r] \in [Items -> Nat] /\ entries[r][b] \in Nat
  BY DEF SentType, ListTypes
<1>2. CASE r \in DOMAIN rooms /\ socket[b] = "open"
  <2>1. rooms[r] = 1
    BY <1>2 DEF Once
  <2>2. sent'[b][r] = [sent[b][r] EXCEPT ![x] = @ + 1 * entries[r][b]]
    BY <1>2, <2>1 DEF Tell
  <2>3. 1 * entries[r][b] = entries[r][b]
    BY <1>1
  <2> QED BY <1>1, <1>2, <2>2, <2>3
<1>3. CASE ~(r \in DOMAIN rooms /\ socket[b] = "open")
  <2>1. sent'[b][r] = sent[b][r]
    BY <1>3 DEF Tell
  <2> QED BY <1>1, <1>3, <2>1
<1> QED BY <1>2, <1>3

LEMMA OnceReaches ==
    ASSUME ListTypes, SentType, NEW x \in Items, NEW rooms, Tell(rooms, x), Once(rooms)
    PROVE  SentType'
BY TellReaches DEF Once

\* A request is one more for each of the rooms that has anyone in its list.
LEMMA AskedOnce ==
    ASSUME NewsTypes, NEW x \in Items, NEW rooms, Ask(rooms, x)
    PROVE  /\ asked' \in [Rooms -> [Items -> Nat]]
           /\ \A r \in Rooms, y \in Items : asked'[r][y] = asked[r][y] +
                IF y = x /\ r \in rooms /\ Occupied(r) THEN 1 ELSE 0
<1>1. ASSUME NEW r \in Rooms
      PROVE  /\ asked'[r] \in [Items -> Nat]
             /\ \A y \in Items : asked'[r][y] = asked[r][y] +
                  IF y = x /\ r \in rooms /\ Occupied(r) THEN 1 ELSE 0
  <2>1. asked[r] \in [Items -> Nat]
    BY DEF NewsTypes
  <2>2. CASE r \in rooms /\ Occupied(r)
    BY <2>1, <2>2 DEF Ask
  <2>3. CASE ~(r \in rooms /\ Occupied(r))
    BY <2>1, <2>3 DEF Ask
  <2> QED BY <2>2, <2>3
<1>2. asked' = [r \in Rooms |-> asked'[r]]
  BY DEF Ask
<1> QED BY <1>1, <1>2

\* A request that ends is one less.
LEMMA AskedLess ==
    ASSUME NewsTypes, NEW r \in Rooms, NEW x \in Items, asked[r][x] > 0,
           asked' = [asked EXCEPT ![r][x] = @ - 1]
    PROVE  /\ asked' \in [Rooms -> [Items -> Nat]]
           /\ \A q \in Rooms, y \in Items : asked'[q][y] = asked[q][y] -
                IF q = r /\ y = x THEN 1 ELSE 0
BY DEF NewsTypes

-----------------------------------------------------------------------------
(* Told once. *)

\* Nothing has been said of x yet: no process announced it, no poll reported it.
Fresh(x) ==
    \/ x \in Transactions \cup Blocks /\ x \notin known /\ x \notin polled
    \/ x \in Updates /\ arrivals[x] = 0

\* Of what is fresh nobody was told or will be; of anything else a room is told when it
\* is announced or when it was asked for, not both.
OnceAt(b, r, x) ==
    /\ Fresh(x) => sent[b][r][x] = 0 /\ asked[r][x] = 0
    /\ x \notin polled /\ r \notin repeated[b] => sent[b][r][x] + asked[r][x] <= 1

OnceInv == \A b \in Buses, r \in Rooms, x \in Items : OnceAt(b, r, x)

\* The state this is about.
TellInv == ListTypes /\ ListsInv /\ NewsTypes /\ OnceInv

\* What a step may add when something happens: to a room told of x at most what is in
\* its list, to one that is asked for one request, and to no room both.
Adds(x, told, asks) ==
    /\ SentType'
    /\ \A b \in Buses, r \in Rooms, y \in Items : sent'[b][r][y] = sent[b][r][y] +
         IF y = x /\ r \in told /\ socket[b] = "open" THEN entries[r][b] ELSE 0
    /\ asked' \in [Rooms -> [Items -> Nat]]
    /\ \A r \in Rooms, y \in Items : asked'[r][y] = asked[r][y] +
         IF y = x /\ r \in asks /\ Occupied(r) THEN 1 ELSE 0

\* Something happens that was fresh, or that a poll reports.
LEMMA OnceWhenItHappens ==
    ASSUME TellInv, NEW x \in Items, NEW told, NEW asks, Adds(x, told, asks),
           told \cap asks = {}, Fresh(x) \/ x \in polled',
           \A y \in Items : Fresh(y)' => Fresh(y) /\ y # x,
           polled \subseteq polled', UNCHANGED listVars
    PROVE  OnceInv'
<1> SUFFICES ASSUME NEW b \in Buses, NEW r \in Rooms, NEW y \in Items
             PROVE  OnceAt(b, r, y)'
  BY DEF OnceInv
<1>1. OnceAt(b, r, y) /\ sent[b][r][y] \in Nat /\ asked[r][y] \in Nat /\ entries[r][b] \in Nat
  BY DEF TellInv, OnceInv, NewsTypes, SentType, ListTypes
<1>2. CASE y # x
  <2>1. sent'[b][r][y] = sent[b][r][y] /\ asked'[r][y] = asked[r][y]
    BY <1>1, <1>2 DEF Adds
  <2>2. repeated' = repeated
    BY DEF listVars
  <2> QED BY <1>1, <2>1, <2>2 DEF OnceAt
<1>3. CASE y = x
  <2>1. ~Fresh(y)'
    BY <1>3
  <2>2. ASSUME y \notin polled', r \notin repeated'[b]
        PROVE  sent'[b][r][y] + asked'[r][y] <= 1
    <3>1. sent[b][r][y] = 0 /\ asked[r][y] = 0
      BY <1>1, <1>3, <2>2 DEF OnceAt
    <3>2. entries[r][b] <= 1
      BY <2>2 DEF TellInv, ListsInv, InvAt, listVars
    <3>3. CASE r \in told
      <4>1. asked'[r][y] = 0
        BY <1>1, <3>1, <3>3 DEF Adds
      <4>2. sent'[b][r][y] <= 1
        BY <1>1, <3>1, <3>2 DEF Adds
      <4> QED BY <3>1, <4>1, <4>2 DEF Adds, SentType
    <3>4. CASE r \notin told
      <4>1. sent'[b][r][y] = 0
        BY <1>1, <3>1, <3>4 DEF Adds
      <4>2. asked'[r][y] \in {0, 1}
        BY <1>1, <3>1 DEF Adds
      <4> QED BY <4>1, <4>2
    <3> QED BY <3>3, <3>4
  <2> QED BY <2>1, <2>2 DEF OnceAt
<1> QED BY <1>2, <1>3

\* A request ends: with an answer, which goes to every place in the list, or an error.
LEMMA OnceWhenItEnds ==
    ASSUME TellInv, NEW q \in Rooms, NEW x \in Items, Answered(q, x) \/ Fails(q, x)
    PROVE  NewsTypes' /\ OnceInv'
<1>1. /\ asked[q][x] > 0
      /\ asked' \in [Rooms -> [Items -> Nat]]
      /\ \A r \in Rooms, y \in Items : asked'[r][y] = asked[r][y] -
           IF r = q /\ y = x THEN 1 ELSE 0
  BY AskedLess DEF Answered, Fails, TellInv
<1>2. UNCHANGED <<listVars, known, arrivals, polled>>
  BY DEF Answered, Fails
<1>3. /\ SentType'
      /\ \A b \in Buses, r \in Rooms, y \in Items :
           /\ sent'[b][r][y] >= sent[b][r][y]
           /\ r # q \/ y # x => sent'[b][r][y] = sent[b][r][y]
           /\ sent'[b][r][y] <= sent[b][r][y] + entries[r][b]
  <2>1. \A b \in Buses, r \in Rooms, y \in Items :
          sent[b][r][y] \in Nat /\ entries[r][b] \in Nat
    BY DEF TellInv, NewsTypes, SentType, ListTypes
  <2>2. CASE Answered(q, x)
    <3> DEFINE rooms == [room \in {q} |-> 1]
    <3>1. Tell(rooms, x) /\ Once(rooms) /\ DOMAIN rooms = {q}
      BY <2>2 DEF Answered, Once
    <3> HIDE DEF rooms
    <3>2. \A b \in Buses, r \in Rooms, y \in Items : sent'[b][r][y] = sent[b][r][y] +
            IF y = x /\ r \in {q} /\ socket[b] = "open" THEN entries[r][b] ELSE 0
      BY <3>1, ToldOnce DEF TellInv, NewsTypes
    <3>3. SentType'
      BY <3>1, OnceReaches DEF TellInv, NewsTypes
    <3> QED BY <2>1, <3>2, <3>3
  <2>3. CASE Fails(q, x)
    BY <2>1, <2>3 DEF Fails, TellInv, NewsTypes, SentType
  <2> QED BY <2>2, <2>3
<1>4. NewsTypes'
  BY <1>1, <1>2, <1>3 DEF TellInv, NewsTypes
<1>5. ASSUME NEW b \in Buses, NEW r \in Rooms, NEW y \in Items
      PROVE  OnceAt(b, r, y)'
  <2>1. OnceAt(b, r, y) /\ sent[b][r][y] \in Nat /\ asked[r][y] \in Nat /\ entries[r][b] \in Nat
    BY DEF TellInv, OnceInv, NewsTypes, SentType, ListTypes
  <2>2. Fresh(y)' <=> Fresh(y)
    BY <1>2 DEF Fresh
  <2>3. polled' = polled /\ repeated' = repeated
    BY <1>2 DEF listVars
  <2>4. CASE r = q /\ y = x
    <3>1. ~Fresh(y)
      BY <1>1, <2>1, <2>4 DEF OnceAt
    <3>2. asked'[r][y] = asked[r][y] - 1
      BY <1>1, <2>4
    <3>3. ASSUME y \notin polled, r \notin repeated[b]
          PROVE  sent'[b][r][y] + asked'[r][y] <= 1
      <4>1. entries[r][b] <= 1
        BY <3>3 DEF TellInv, ListsInv, InvAt
      <4>2. sent'[b][r][y] <= sent[b][r][y] + 1
        BY <1>3, <2>1, <4>1 DEF SentType
      <4>3. sent[b][r][y] + asked[r][y] <= 1
        BY <2>1, <3>3 DEF OnceAt
      <4>4. sent'[b][r][y] \in Nat
        BY <1>3 DEF SentType
      <4> QED BY <2>1, <3>2, <4>2, <4>3, <4>4
    <3> QED BY <2>2, <2>3, <3>1, <3>3 DEF OnceAt
  <2>5. CASE ~(r = q /\ y = x)
    <3>1. sent'[b][r][y] = sent[b][r][y] /\ asked'[r][y] = asked[r][y]
      BY <1>1, <1>3, <2>1, <2>5
    <3> QED BY <2>1, <2>2, <2>3, <3>1 DEF OnceAt
  <2> QED BY <2>4, <2>5
<1> QED BY <1>4, <1>5 DEF OnceInv

\* The five ways something happens: what is told, what is asked for, and to whom a
\* message is owed.
Happens(x, told, asks) ==
    /\ x \in Items /\ told \subseteq Rooms /\ asks \subseteq Rooms /\ told \cap asks = {}
    /\ Adds(x, told, asks)
    /\ Fresh(x) \/ x \in polled'
    /\ \A y \in Items : Fresh(y)' => Fresh(y) /\ y # x
    /\ polled \subseteq polled' /\ polled' \subseteq Blocks
    /\ arrivals' \in [Items -> Nat]
    /\ Owe(told \cup asks, x)
    /\ UNCHANGED listVars

LEMMA AddsBoth ==
    ASSUME ListTypes, NewsTypes, NEW x \in Items, NEW rooms, NEW asks,
           Tell(rooms, x), Once(rooms), Ask(asks, x)
    PROVE  Adds(x, DOMAIN rooms, asks)
<1>1. SentType'
  BY OnceReaches DEF NewsTypes
<1>2. \A b \in Buses, r \in Rooms, y \in Items : sent'[b][r][y] = sent[b][r][y] +
        IF y = x /\ r \in DOMAIN rooms /\ socket[b] = "open" THEN entries[r][b] ELSE 0
  BY ToldOnce DEF NewsTypes
<1> QED BY <1>1, <1>2, AskedOnce DEF Adds

LEMMA ArrivalsTyped ==
    ASSUME NewsTypes, NEW x \in Items, Announced(x)
    PROVE  arrivals' \in [Items -> Nat] /\ \A y \in Items : arrivals'[y] >= arrivals[y]
BY DEF Announced, NewsTypes

\* What is announced or polled is not fresh any more, and nothing becomes fresh.
LEMMA StaleNow ==
    ASSUME NewsTypes, NEW x \in Transactions \cup Blocks, Announced(x),
           known \subseteq known', polled \subseteq polled', x \in known' \cup polled'
    PROVE  \A y \in Items : Fresh(y)' => Fresh(y) /\ y # x
<1> SUFFICES ASSUME NEW y \in Items, Fresh(y)' PROVE Fresh(y) /\ y # x
  OBVIOUS
<1>1. CASE y \in Updates
  <2>1. y # x /\ y \notin Transactions \cup Blocks
    BY <1>1, SubscriptionsAssumption
  <2>2. arrivals'[y] = 0
    BY <2>1 DEF Fresh
  <2>3. arrivals'[y] >= arrivals[y] /\ arrivals[y] \in Nat
    BY ArrivalsTyped DEF NewsTypes, Items
  <2> QED BY <1>1, <2>1, <2>2, <2>3 DEF Fresh
<1>2. CASE y \notin Updates
  BY <1>2 DEF Fresh
<1> QED BY <1>1, <1>2

LEMMA TransactionHappens ==
    ASSUME ListTypes, NewsTypes, NEW t \in Transactions, NewTransaction(t)
    PROVE  Happens(t, TxRooms(t), TxAsks(t))
<1>1. PICK rooms : Tell(rooms, t) /\ DOMAIN rooms = TxRooms(t) /\ Once(rooms)
  BY NewTransactionDoes
<1>2. /\ t \notin known /\ known' = known \cup {t} /\ Announced(t)
      /\ Ask(TxAsks(t), t) /\ Owe(TxRooms(t) \cup TxAsks(t), t)
      /\ UNCHANGED <<listVars, polled>>
  BY NewTransactionDoes
<1>3. t \in Items
  BY DEF Items
<1>4. Adds(t, TxRooms(t), TxAsks(t))
  BY <1>1, <1>2, <1>3, AddsBoth
<1>5. \A y \in Items : Fresh(y)' => Fresh(y) /\ y # t
  BY <1>2, <1>3, StaleNow DEF listVars
<1>6. arrivals' \in [Items -> Nat]
  BY <1>2, <1>3, ArrivalsTyped
<1>7. Fresh(t) \/ t \in polled'
  BY <1>2 DEF Fresh
<1> QED BY <1>2, <1>3, <1>4, <1>5, <1>6, <1>7, TxRoomsApart DEF Happens, NewsTypes

LEMMA BlockHappens ==
    ASSUME ListTypes, NewsTypes, NEW x \in Blocks, NewBlock(x)
    PROVE  Happens(x, {Inv, Room("hashblock")}, {Silubium})
<1> DEFINE rooms == [r \in {Inv, Room("hashblock")} |-> 1]
<1>1. /\ x \notin known /\ known' = known \cup {x} /\ Announced(x)
      /\ Tell(rooms, x) /\ Ask({Silubium}, x)
      /\ Owe({Inv, Silubium, Room("hashblock")}, x)
      /\ UNCHANGED <<listVars, polled>>
  BY DEF NewBlock
<1>2. DOMAIN rooms = {Inv, Room("hashblock")} /\ Once(rooms)
  BY DEF Once
<1> HIDE DEF rooms
<1>3. x \in Items
  BY DEF Items
<1>4. Adds(x, {Inv, Room("hashblock")}, {Silubium})
  BY <1>1, <1>2, <1>3, AddsBoth
<1>5. \A y \in Items : Fresh(y)' => Fresh(y) /\ y # x
  BY <1>1, StaleNow
<1>6. arrivals' \in [Items -> Nat]
  BY <1>1, <1>3, ArrivalsTyped
<1>7. Fresh(x) \/ x \in polled'
  BY <1>1 DEF Fresh
<1>8. {Inv, Room("hashblock")} \cup {Silubium} = {Inv, Silubium, Room("hashblock")}
  OBVIOUS
<1> QED BY <1>1, <1>3, <1>4, <1>5, <1>6, <1>7, <1>8, RoomKinds DEF Happens, NewsTypes

LEMMA PollHappens ==
    ASSUME ListTypes, NewsTypes, NEW x \in Blocks, PollReports(x)
    PROVE  Happens(x, {Inv}, {Silubium})
<1> DEFINE rooms == [r \in {Inv} |-> 1]
<1>1. /\ Announced(x) /\ polled' = polled \cup {x}
      /\ Tell(rooms, x) /\ Ask({Silubium}, x)
      /\ Owe({Inv, Silubium}, x)
      /\ UNCHANGED <<listVars, known>>
  BY DEF PollReports
<1>2. DOMAIN rooms = {Inv} /\ Once(rooms)
  BY DEF Once
<1> HIDE DEF rooms
<1>3. x \in Items
  BY DEF Items
<1>4. Adds(x, {Inv}, {Silubium})
  BY <1>1, <1>2, <1>3, AddsBoth
<1>5. \A y \in Items : Fresh(y)' => Fresh(y) /\ y # x
  BY <1>1, StaleNow
<1>6. arrivals' \in [Items -> Nat]
  BY <1>1, <1>3, ArrivalsTyped
<1>7. {Inv} \cup {Silubium} = {Inv, Silubium}
  OBVIOUS
<1> QED BY <1>1, <1>3, <1>4, <1>5, <1>6, <1>7, RoomKinds DEF Happens, NewsTypes

LEMMA UpdateHappens ==
    ASSUME ListTypes, NewsTypes, NEW u \in Updates, Updated(u)
    PROVE  Happens(u, {}, {Inv})
<1>1. /\ arrivals[u] = 0 /\ arrivals' = [arrivals EXCEPT ![u] = 1]
      /\ Ask({Inv}, u) /\ Owe({Inv}, u)
      /\ UNCHANGED <<listVars, known, sent, polled>>
  BY DEF Updated
<1>2. u \in Items /\ u \notin Transactions \cup Blocks
  BY SubscriptionsAssumption DEF Items
<1>3. Adds(u, {}, {Inv})
  <2>1. \A b \in Buses, r \in Rooms, y \in Items : sent'[b][r][y] = sent[b][r][y] + 0
    BY <1>1 DEF NewsTypes, SentType
  <2>2. SentType'
    BY <1>1 DEF NewsTypes, SentType
  <2> QED BY <1>1, <1>2, <2>1, <2>2, AskedOnce DEF Adds
<1>4. arrivals' \in [Items -> Nat]
  BY <1>1 DEF NewsTypes
<1>5. \A y \in Items : Fresh(y)' => Fresh(y) /\ y # u
  BY <1>1, <1>2 DEF Fresh, NewsTypes
<1>6. Fresh(u)
  BY <1>1 DEF Fresh
<1>7. {} \cup {Inv} = {Inv}
  OBVIOUS
<1> QED BY <1>1, <1>2, <1>3, <1>4, <1>5, <1>6, <1>7, RoomKinds DEF Happens, NewsTypes

LEMMA HappeningKeepsOnce ==
    ASSUME TellInv, NEW x, NEW told, NEW asks, Happens(x, told, asks)
    PROVE  NewsTypes' /\ OnceInv'
<1>1. OnceInv'
  BY OnceWhenItHappens DEF Happens
<1>2. NewsTypes'
  BY DEF Happens, Adds, NewsTypes
<1> QED BY <1>1, <1>2

\* The calls of the clients say nothing of anything.
CallOf(b) ==
    \/ Connect(b) \/ Disconnect(b)
    \/ \E r \in Rooms \ AddressRooms : Subscribe(b, r) \/ Unsubscribe(b, r)
    \/ \E name \in PerAddress, as \in (SUBSET Addresses) \ {{}} :
         SubscribeAddresses(b, name, as) \/ UnsubscribeAddresses(b, name, as)

LEMMA CallsKeepNews ==
    ASSUME ListTypes, NEW b \in Buses, CallOf(b)
    PROVE  UNCHANGED newsVars /\ \A c \in Buses : repeated[c] \subseteq repeated'[c]
BY DEF CallOf, Connect, Disconnect, Subscribe, Unsubscribe, SubscribeAddresses,
       UnsubscribeAddresses, Calls, Enter, Leave, ListTypes

LEMMA OnceStep == TellInv /\ [BusesNext]_busVars => TellInv'
<1> SUFFICES ASSUME TellInv, [BusesNext]_busVars PROVE TellInv'
  OBVIOUS
<1>1. ListTypes' /\ ListsInv'
  BY ListsStep DEF TellInv
<1>2. ASSUME UNCHANGED newsVars, \A c \in Buses : repeated[c] \subseteq repeated'[c]
      PROVE  NewsTypes' /\ OnceInv'
  BY <1>2 DEF newsVars, TellInv, NewsTypes, SentType, OnceInv, OnceAt, Fresh
<1>3. CASE UNCHANGED busVars
  BY <1>1, <1>2, <1>3 DEF busVars, listVars, TellInv
<1>4. CASE \E b \in Buses : CallOf(b)
  BY <1>1, <1>2, <1>4, CallsKeepNews DEF TellInv
<1>5. ASSUME NEW x, AlreadyKnown(x), x \in Transactions \cup Blocks PROVE NewsTypes' /\ OnceInv'
  <2>1. x \in Items /\ Announced(x) /\ x \in known
        /\ UNCHANGED <<listVars, known, asked, sent, polled>>
    BY <1>5 DEF AlreadyKnown, Items
  <2>2. \A y \in Items : Fresh(y)' => Fresh(y)
    BY <1>5, <2>1, StaleNow DEF TellInv
  <2>3. arrivals' \in [Items -> Nat]
    BY <2>1, ArrivalsTyped DEF TellInv
  <2> QED BY <2>1, <2>2, <2>3 DEF TellInv, NewsTypes, SentType, OnceInv, OnceAt, listVars
<1>6. CASE \/ \E x \in Transactions \cup Blocks : AlreadyKnown(x)
           \/ \E t \in Transactions : NewTransaction(t)
           \/ \E b \in Blocks : NewBlock(b) \/ PollReports(b)
           \/ \E u \in Updates : Updated(u)
  BY <1>1, <1>5, <1>6, TransactionHappens, BlockHappens, PollHappens, UpdateHappens,
     HappeningKeepsOnce DEF TellInv
<1>7. CASE \E r \in Rooms, x \in Items : Answered(r, x) \/ Fails(r, x)
  BY <1>1, <1>7, OnceWhenItEnds DEF TellInv
<1> QED BY <1>3, <1>4, <1>6, <1>7 DEF BusesNext, CallOf

LEMMA InitNews == BusesInit => TellInv
<1> SUFFICES ASSUME BusesInit PROVE TellInv
  OBVIOUS
<1>1. NewsTypes
  BY InitSent DEF BusesInit, NewsTypes
<1>2. OnceInv
  BY DEF BusesInit, OnceInv, OnceAt
<1> QED BY <1>1, <1>2, InitLists DEF TellInv

\* In every behaviour a client hears once from a room of a transaction, a block or an
\* update, however many processes announce it and whenever it subscribes and leaves, but
\* for what a poll reports and the lists it entered twice (zmqKnownTransactions,
\* zmqKnownBlocks, blockEventHandler, _notifyBalanceSubscriber).
THEOREM ToldOnlyOnce == BusesSpec => []NotifiedOnce
<1>1. TellInv => NotifiedOnce
  <2> SUFFICES ASSUME TellInv, NEW b \in Buses, NEW r \in Rooms, NEW x \in Items,
                      r \notin repeated[b], x \notin polled
               PROVE  sent[b][r][x] <= 1
    BY DEF NotifiedOnce
  <2>1. sent[b][r][x] + asked[r][x] <= 1
    BY DEF TellInv, OnceInv, OnceAt
  <2>2. sent[b][r][x] \in Nat /\ asked[r][x] \in Nat
    BY DEF TellInv, NewsTypes, SentType
  <2> QED BY <2>1, <2>2
<1> QED BY <1>1, InitNews, OnceStep, PTL DEF BusesSpec

-----------------------------------------------------------------------------
(* Told at all. *)

\* Who wants anything is connected.
OpenInv == \A b \in Buses : wants[b] # {} => socket[b] = "open"

\* What is owed is still wanted, and was sent or is being asked for.
OwedAt(o) ==
    /\ o.bus \in Buses /\ o.room \in Rooms /\ o.item \in Items
    /\ o.room \in wants[o.bus]
    /\ sent[o.bus][o.room][o.item] > 0 \/ asked[o.room][o.item] > 0

OwedInv == \A o \in owed : OwedAt(o)

\* Who wants a room is in its list and can be reached.
LEMMA WantedIsReached ==
    ASSUME ListTypes, ListsInv, OpenInv, NEW b \in Buses, NEW r \in wants[b]
    PROVE  r \in Rooms /\ entries[r][b] > 0 /\ socket[b] = "open" /\ Occupied(r)
<1>1. r \in Rooms
  BY DEF ListTypes
<1>2. entries[r][b] > 0
  BY <1>1 DEF ListsInv, InvAt
<1> QED BY <1>1, <1>2 DEF OpenInv, Occupied

LEMMA HappeningKeepsOwed ==
    ASSUME TellInv, OpenInv, OwedInv, NEW x, NEW told, NEW asks, Happens(x, told, asks)
    PROVE  OpenInv' /\ OwedInv'
<1>1. OpenInv'
  BY DEF Happens, listVars, OpenInv
<1>2. wants' = wants
  BY DEF Happens, listVars
<1>3. \A b \in Buses, r \in Rooms, y \in Items :
        /\ sent[b][r][y] \in Nat /\ asked[r][y] \in Nat /\ entries[r][b] \in Nat
        /\ sent'[b][r][y] = sent[b][r][y] +
             IF y = x /\ r \in told /\ socket[b] = "open" THEN entries[r][b] ELSE 0
        /\ asked'[r][y] = asked[r][y] + IF y = x /\ r \in asks /\ Occupied(r) THEN 1 ELSE 0
  BY DEF Happens, Adds, TellInv, NewsTypes, SentType, ListTypes
<1>4. ASSUME NEW o \in owed' PROVE OwedAt(o)'
  <2>1. CASE o \in owed
    <3>1. OwedAt(o)
      BY <2>1 DEF OwedInv
    <3>2. /\ sent'[o.bus][o.room][o.item] >= sent[o.bus][o.room][o.item]
          /\ asked'[o.room][o.item] >= asked[o.room][o.item]
          /\ sent[o.bus][o.room][o.item] \in Nat /\ asked[o.room][o.item] \in Nat
          /\ sent'[o.bus][o.room][o.item] \in Nat /\ asked'[o.room][o.item] \in Nat
      BY <1>3, <3>1 DEF OwedAt
    <3> QED BY <1>2, <3>1, <3>2 DEF OwedAt
  <2>2. CASE o \notin owed
    <3>1. o \in [bus : Buses, room : told \cup asks, item : {x}] /\ o.room \in wants[o.bus]
      BY <2>2 DEF Happens, Owe
    <3>2. PICK b \in Buses, r \in told \cup asks : o.bus = b /\ o.room = r /\ o.item = x
      BY <3>1
    <3>3. r \in Rooms /\ x \in Items /\ r \in wants[b]
      BY <3>1, <3>2 DEF Happens
    <3>4. entries[r][b] > 0 /\ socket[b] = "open" /\ Occupied(r)
      BY <3>3, WantedIsReached DEF TellInv
    <3>5. CASE r \in told
      <4>1. sent'[b][r][x] = sent[b][r][x] + entries[r][b]
        BY <1>3, <3>3, <3>4, <3>5
      <4>2. sent'[b][r][x] > 0
        BY <1>3, <3>3, <3>4, <4>1
      <4> QED BY <1>2, <3>2, <3>3, <4>2 DEF OwedAt
    <3>6. CASE r \in asks
      <4>1. asked'[r][x] = asked[r][x] + 1
        BY <1>3, <3>3, <3>4, <3>6
      <4>2. asked'[r][x] > 0
        BY <1>3, <3>3, <4>1
      <4> QED BY <1>2, <3>2, <3>3, <4>2 DEF OwedAt
    <3> QED BY <3>2, <3>5, <3>6
  <2> QED BY <2>1, <2>2
<1> QED BY <1>1, <1>4 DEF OwedInv

\* The answer is sent to whom it is owed; an error ends what was owed.
LEMMA EndKeepsOwed ==
    ASSUME TellInv, OpenInv, OwedInv, NEW q \in Rooms, NEW x \in Items,
           Answered(q, x) \/ Fails(q, x)
    PROVE  OpenInv' /\ OwedInv'
<1>1. UNCHANGED listVars
  BY DEF Answered, Fails
<1>2. OpenInv' /\ wants' = wants
  BY <1>1 DEF listVars, OpenInv
<1>3. \A r \in Rooms, y \in Items : r # q \/ y # x => asked'[r][y] = asked[r][y]
  BY AskedLess DEF Answered, Fails, TellInv
<1>4. ASSUME NEW o \in owed' PROVE OwedAt(o)'
  <2>1. o \in owed
    BY DEF Answered, Fails
  <2>2. OwedAt(o)
    BY <2>1 DEF OwedInv
  <2>3. PICK b \in Buses, r \in Rooms, y \in Items : b = o.bus /\ r = o.room /\ y = o.item
    BY <2>2 DEF OwedAt
  <2>4. /\ r \in wants[b] /\ (sent[b][r][y] > 0 \/ asked[r][y] > 0)
        /\ sent[b][r][y] \in Nat /\ entries[r][b] \in Nat
    BY <2>2, <2>3 DEF OwedAt, TellInv, NewsTypes, SentType, ListTypes
  <2>5. entries[r][b] > 0 /\ socket[b] = "open"
    BY <2>4, WantedIsReached DEF TellInv
  <2>6. CASE Answered(q, x)
    <3> DEFINE rooms == [room \in {q} |-> 1]
    <3>1. Tell(rooms, x) /\ Once(rooms) /\ DOMAIN rooms = {q}
      BY <2>6 DEF Answered, Once
    <3> HIDE DEF rooms
    <3>2. sent'[b][r][y] = sent[b][r][y] + IF y = x /\ r = q THEN entries[r][b] ELSE 0
      BY <2>5, <3>1, ToldOnce DEF TellInv, NewsTypes
    <3>3. sent'[b][r][y] > 0 \/ asked'[r][y] > 0
      BY <1>3, <2>4, <2>5, <3>2
    <3> QED BY <1>2, <2>3, <2>4, <3>3 DEF OwedAt
  <2>7. CASE Fails(q, x)
    <3>1. r # q \/ y # x
      BY <2>3, <2>7 DEF Fails
    <3>2. asked'[r][y] = asked[r][y] /\ sent' = sent
      BY <1>3, <2>7, <3>1 DEF Fails
    <3> QED BY <1>2, <2>3, <2>4, <3>2 DEF OwedAt
  <2> QED BY <2>6, <2>7
<1> QED BY <1>2, <1>4 DEF OwedInv

\* What a client gives up is owed no more; what it does not stays wanted.
LEMMA LeaveKeepsOwed ==
    ASSUME ListTypes, OwedInv, NEW b \in Buses, NEW rooms, Leave(b, rooms), UNCHANGED newsVars
    PROVE  OwedInv'
<1> SUFFICES ASSUME NEW o \in owed' PROVE OwedAt(o)'
  BY DEF OwedInv
<1>1. o \in owed /\ (o.bus # b \/ o.room \notin rooms)
  BY DEF Leave
<1>2. OwedAt(o)
  BY <1>1 DEF OwedInv
<1>3. o.room \in wants'[o.bus]
  BY <1>1, <1>2 DEF Leave, OwedAt, ListTypes
<1> QED BY <1>2, <1>3 DEF OwedAt, newsVars

LEMMA EnterKeepsOwed ==
    ASSUME ListTypes, OwedInv, NEW b \in Buses, NEW rooms, Enter(b, rooms),
           UNCHANGED <<newsVars, owed>>
    PROVE  OwedInv'
<1> SUFFICES ASSUME NEW o \in owed' PROVE OwedAt(o)'
  BY DEF OwedInv
<1>1. OwedAt(o)
  BY DEF OwedInv
<1>2. o.room \in wants'[o.bus]
  BY <1>1 DEF Enter, OwedAt, ListTypes
<1> QED BY <1>1, <1>2 DEF OwedAt, newsVars

LEMMA CallsKeepOwed ==
    ASSUME ListTypes, OpenInv, OwedInv, NEW b \in Buses, CallOf(b)
    PROVE  OpenInv' /\ OwedInv'
<1>1. CASE Connect(b)
  <2>1. OwedInv'
    BY <1>1 DEF Connect, OwedInv, OwedAt, newsVars
  <2>2. OpenInv'
    BY <1>1 DEF Connect, OpenInv, ListTypes
  <2> QED BY <2>1, <2>2
<1>2. CASE Disconnect(b)
  <2>1. OwedInv'
    BY <1>2, LeaveKeepsOwed DEF Disconnect
  <2>2. wants' = [wants EXCEPT ![b] = {}] /\ socket' = [socket EXCEPT ![b] = "closed"]
    BY <1>2 DEF Disconnect, Leave, ListTypes
  <2> QED BY <2>1, <2>2 DEF OpenInv, ListTypes
<1>3. CASE Calls(b) /\ \E rooms : Enter(b, rooms) /\ UNCHANGED owed
  <2>1. OwedInv'
    BY <1>3, EnterKeepsOwed DEF Calls
  <2>2. OpenInv'
    BY <1>3 DEF Calls, Enter, OpenInv, ListTypes
  <2> QED BY <2>1, <2>2
<1>4. CASE Calls(b) /\ \E rooms : Leave(b, rooms)
  <2>1. OwedInv'
    BY <1>4, LeaveKeepsOwed DEF Calls
  <2>2. OpenInv'
    BY <1>4 DEF Calls, Leave, OpenInv, ListTypes
  <2> QED BY <2>1, <2>2
<1> QED BY <1>1, <1>2, <1>3, <1>4 DEF CallOf, Subscribe, Unsubscribe, SubscribeAddresses,
            UnsubscribeAddresses

LEMMA OwedStep ==
    TellInv /\ OpenInv /\ OwedInv /\ [BusesNext]_busVars => OpenInv' /\ OwedInv'
<1> SUFFICES ASSUME TellInv, OpenInv, OwedInv, [BusesNext]_busVars PROVE OpenInv' /\ OwedInv'
  OBVIOUS
<1>1. CASE UNCHANGED busVars
  BY <1>1 DEF busVars, listVars, newsVars, OpenInv, OwedInv, OwedAt
<1>2. CASE \E b \in Buses : CallOf(b)
  BY <1>2, CallsKeepOwed DEF TellInv
<1>3. CASE \E x \in Transactions \cup Blocks : AlreadyKnown(x)
  BY <1>3 DEF AlreadyKnown, listVars, OpenInv, OwedInv, OwedAt
<1>4. CASE \/ \E t \in Transactions : NewTransaction(t)
           \/ \E b \in Blocks : NewBlock(b) \/ PollReports(b)
           \/ \E u \in Updates : Updated(u)
  BY <1>4, TransactionHappens, BlockHappens, PollHappens, UpdateHappens,
     HappeningKeepsOwed DEF TellInv
<1>5. CASE \E r \in Rooms, x \in Items : Answered(r, x) \/ Fails(r, x)
  BY <1>5, EndKeepsOwed
<1> QED BY <1>1, <1>2, <1>3, <1>4, <1>5 DEF BusesNext, CallOf

\* In every behaviour a client that is subscribed from the moment something happens is
\* told of it, at once or by the answer under way, unless the request for it fails
\* (_zmqTransactionHandler, blockEventHandler, notifyBalanceSubscriber, updated).
THEOREM SubscribersAreTold == BusesSpec => []NothingMissed
<1>1. BusesInit => OpenInv /\ OwedInv
  BY DEF BusesInit, OpenInv, OwedInv
<1>2. OwedInv => NothingMissed
  BY DEF OwedInv, OwedAt, NothingMissed
<1> QED BY <1>1, <1>2, InitNews, OnceStep, OwedStep, PTL DEF BusesSpec

-----------------------------------------------------------------------------
(* The lifecycle of the node. *)

\* The first call of _spawnChildProcess is made when the starts come to silubiumd.
NoneBeforeStart == \A i \in 1..N : Order[i] = Daemon /\ starting < i => spawns = <<>>

\* A timer is armed within the bound on the calls.
RoomForTimer == \A c \in Spawned : spawns[c].timer => Len(spawns) < MaxSpawns

\* A timer is that of a call whose process has been and is no more, and a call
\* that looks for the process of an earlier run has none of its own yet.
Consistent(call) ==
    /\ call.timer => call.proc = "dead" /\ call.step # "pid"
    /\ call.step = "pid" => call.proc = "none"
CallsConsistent == \A c \in Spawned : Consistent(spawns[c])

IInv == TypeOK /\ OneProcess /\ NoneBeforeStart /\ RoomForTimer /\ CallsConsistent

\* The part of IInv about the spawn calls, for the state after a step.
SpawnsKept ==
    /\ spawns' \in Seq(SpawnCall) /\ Len(spawns') = Len(spawns)
    /\ \A c \in 1..Len(spawns) :
        /\ Prospect(spawns'[c]) => Prospect(spawns[c])
        /\ spawns'[c].timer => spawns[c].timer
        /\ Consistent(spawns'[c])

LEMMA OrderFacts ==
    /\ N \in Nat \ {0}
    /\ \A i \in 1..N : Order[i] \in Services
BY OrderAssumption DEF N

LEMMA LeastOf ==
    ASSUME NEW T \in SUBSET Nat, T # {}
    PROVE  \E x \in T : \A y \in T : x <= y
<1>1. PICK x \in T : \A y \in T : ~(<<y, x>> \in OpToRel(<, Nat))
  BY NatLessThanWellFounded, WFMin
<1>2. \A y \in T : ~(y < x)
  BY <1>1 DEF OpToRel
<1> QED
  BY <1>2

LEMMA NewCallFacts == NewSpawnCall \in SpawnCall /\ ~NewSpawnCall.timer /\ Consistent(NewSpawnCall)
BY DEF NewSpawnCall, SpawnCall, Consistent

\* A stop that comes to a service changes no call but for the interrupt.
LEMMA ComeToLemma ==
    ASSUME TypeOK, NEW p \in 1..(Len(passes) + 1), p <= MaxPasses, NEW place \in 0..N,
           NEW uncaught \in BOOLEAN, NEW S \in Seq(SpawnCall), Len(S) = Len(spawns),
           ComeTo(p, place, uncaught, S)
    PROVE  /\ spawns' \in Seq(SpawnCall) /\ Len(spawns') = Len(S)
           /\ \A c \in 1..Len(S) : /\ spawns'[c].step = S[c].step /\ spawns'[c].proc = S[c].proc
                                   /\ spawns'[c].timer = S[c].timer
           /\ stopped' \subseteq Services
           /\ exit' \in {"no", "0", "1", "-1"}
           /\ passes' \in Seq(Pass) /\ Len(passes') <= MaxPasses
<1> DEFINE next  == IF place > 0 /\ Immediate(place) THEN place - 1 ELSE place
           child == IF next > 0 /\ Order[next] = Daemon /\ Loaded(next) THEN current ELSE 0
           pass  == [at |-> next, child |-> child, uncaught |-> uncaught]
<1>1. next \in 0..N
  BY OrderFacts
<1>2. child \in 0..Len(S) /\ child \in 0..MaxSpawns
  BY BoundAssumption DEF TypeOK
<1>3. /\ spawns' = IF child = 0 THEN S ELSE [S EXCEPT ![child].told = TRUE]
      /\ stopped' = stopped \cup {Order[i] : i \in {j \in {place, next} \ {0} : Loaded(j)}}
      /\ exit' = IF next = 0 THEN ExitCode(uncaught, FALSE) ELSE exit
      /\ passes' = IF next = 0 THEN passes
                   ELSE IF p > Len(passes) THEN Append(passes, pass) ELSE [passes EXCEPT ![p] = pass]
  BY DEF ComeTo
<1>4. /\ spawns' \in Seq(SpawnCall) /\ Len(spawns') = Len(S)
      /\ \A c \in 1..Len(S) : /\ spawns'[c].step = S[c].step /\ spawns'[c].proc = S[c].proc
                              /\ spawns'[c].timer = S[c].timer
  <2> HIDE DEF child
  <2>1. CASE child = 0
    BY <2>1, <1>3
  <2>2. CASE child # 0
    <3>1. child \in 1..Len(S)
      BY <2>2, <1>2
    <3>2. S[child] \in SpawnCall
      BY <3>1
    <3>3. [S[child] EXCEPT !.told = TRUE] \in SpawnCall
      BY <3>2 DEF SpawnCall
    <3>4. spawns' = [S EXCEPT ![child] = [S[child] EXCEPT !.told = TRUE]]
      BY <2>2, <1>3
    <3> QED
      BY <3>1, <3>2, <3>3, <3>4 DEF SpawnCall
  <2> QED
    BY <2>1, <2>2
<1>5. stopped' \subseteq Services
  <2>1. \A j \in {place, next} \ {0} : Order[j] \in Services
    BY <1>1, OrderFacts
  <2> QED
    BY <1>3, <2>1 DEF TypeOK
<1>6. exit' \in {"no", "0", "1", "-1"}
  BY <1>3 DEF ExitCode, TypeOK
<1>7. passes' \in Seq(Pass) /\ Len(passes') <= MaxPasses
  <2> HIDE DEF next, child
  <2>1. CASE next = 0
    BY <2>1, <1>3 DEF TypeOK
  <2>2. CASE next # 0
    <3>1. pass \in Pass
      BY <2>2, <1>1, <1>2 DEF Pass
    <3> HIDE DEF pass
    <3>2. CASE p > Len(passes)
      <4>1. passes' = Append(passes, pass)
        BY <3>2, <2>2, <1>3
      <4>2. p = Len(passes) + 1
        BY <3>2 DEF TypeOK
      <4> QED
        BY <3>1, <4>1, <4>2 DEF TypeOK
    <3>3. CASE p <= Len(passes)
      <4>1. passes' = [passes EXCEPT ![p] = pass]
        BY <3>3, <2>2, <1>3 DEF TypeOK
      <4> QED
        BY <3>1, <4>1, <3>3 DEF TypeOK
    <3> QED
      BY <3>2, <3>3 DEF TypeOK
  <2> QED
    BY <2>1, <2>2
<1> QED
  BY <1>4, <1>5, <1>6, <1>7

\* Steps that make no new prospect of a process keep the invariant of the calls.
LEMMA KeptLemma ==
    ASSUME IInv, SpawnsKept, starting' = starting
    PROVE  OneProcess' /\ NoneBeforeStart' /\ RoomForTimer' /\ CallsConsistent'
<1>1. OneProcess'
  BY DEF IInv, OneProcess, SpawnsKept, Spawned
<1>2. NoneBeforeStart'
  <2> SUFFICES ASSUME NEW i \in 1..N, Order[i] = Daemon, starting < i PROVE spawns' = <<>>
    BY DEF NoneBeforeStart, N
  <2>1. Len(spawns) = 0
    BY DEF IInv, NoneBeforeStart
  <2> QED
    BY <2>1, EmptySeq DEF SpawnsKept
<1>3. RoomForTimer'
  BY DEF IInv, RoomForTimer, SpawnsKept, Spawned
<1>4. CallsConsistent'
  BY DEF CallsConsistent, SpawnsKept, Spawned
<1> QED
  BY <1>1, <1>2, <1>3, <1>4

LEMMA BeginStopLemma ==
    ASSUME IInv, NEW uncaught \in BOOLEAN, NEW S \in Seq(SpawnCall), Len(S) = Len(spawns),
           \A c \in 1..Len(S) : /\ Prospect(S[c]) => Prospect(spawns[c])
                                /\ S[c].timer => spawns[c].timer
                                /\ Consistent(S[c]),
           BeginStop(uncaught, S), startFailed' \in BOOLEAN, shuttingDown' \in BOOLEAN,
           UNCHANGED <<starting, current>>
    PROVE  TypeOK' /\ SpawnsKept
<1>1. TypeOK
  BY DEF IInv
<1>2. /\ Len(passes) + 1 \in 1..(Len(passes) + 1) /\ Len(passes) + 1 <= MaxPasses
      /\ N \in 0..N
  BY <1>1, OrderFacts, BoundAssumption DEF BeginStop, TypeOK
<1>3. ComeTo(Len(passes) + 1, N, uncaught, S)
  BY DEF BeginStop
<1>4. /\ spawns' \in Seq(SpawnCall) /\ Len(spawns') = Len(S)
      /\ \A c \in 1..Len(S) : /\ spawns'[c].step = S[c].step /\ spawns'[c].proc = S[c].proc
                              /\ spawns'[c].timer = S[c].timer
      /\ stopped' \subseteq Services
      /\ exit' \in {"no", "0", "1", "-1"}
      /\ passes' \in Seq(Pass) /\ Len(passes') <= MaxPasses
  BY <1>1, <1>2, <1>3, ComeToLemma
<1>5. SpawnsKept
  BY <1>4 DEF SpawnsKept, Prospect, Consistent
<1>6. stopping' \in BOOLEAN /\ late' \in 0..(N + 1)
  BY <1>1 DEF BeginStop, TypeOK
<1> QED
  BY <1>1, <1>4, <1>5, <1>6 DEF TypeOK, N

\* A call of _spawnChildProcess that fails leaves its process as it is.
LEMMA SpawnCallFailsLemma ==
    ASSUME IInv, NEW c \in Spawned, SpawnCallFails(c), UNCHANGED <<shuttingDown, current>>
    PROVE  TypeOK' /\ SpawnsKept /\ starting' = starting
<1> DEFINE S == [spawns EXCEPT ![c].step = "failed"]
<1>1. TypeOK
  BY DEF IInv
<1>2. /\ S \in Seq(SpawnCall) /\ Len(S) = Len(spawns)
      /\ \A d \in 1..Len(S) : /\ Prospect(S[d]) => Prospect(spawns[d])
                              /\ S[d].timer => spawns[d].timer
                              /\ Consistent(S[d])
  <2>1. spawns \in Seq(SpawnCall) /\ c \in 1..Len(spawns) /\ spawns[c] \in SpawnCall
    BY <1>1 DEF TypeOK, Spawned
  <2>2. PICK failed : failed = [spawns[c] EXCEPT !.step = "failed"]
    OBVIOUS
  <2>3. failed \in SpawnCall /\ failed.proc = spawns[c].proc /\ failed.timer = spawns[c].timer /\ failed.step # "pid"
    BY <2>1, <2>2 DEF SpawnCall
  <2>4. S = [spawns EXCEPT ![c] = failed]
    BY <2>2
  <2>5. Consistent(failed)
    BY <2>1, <2>3 DEF IInv, CallsConsistent, Spawned, Consistent
  <2>6. \A d \in 1..Len(spawns) : Consistent(spawns[d])
    BY DEF IInv, CallsConsistent, Spawned
  <2> HIDE DEF S
  <2> QED
    BY <2>1, <2>3, <2>4, <2>5, <2>6 DEF Prospect
<1> HIDE DEF S
<1>3. CASE c = 1
  <2>1. startFailed' = TRUE /\ BeginStop(FALSE, S) /\ UNCHANGED starting
    BY <1>3 DEF SpawnCallFails, S
  <2>2. shuttingDown' \in BOOLEAN /\ startFailed' \in BOOLEAN
    BY <2>1, <1>1 DEF TypeOK
  <2> QED
    BY <2>1, <2>2, <1>2, BeginStopLemma
<1>4. CASE c # 1
  <2>1. spawns' = S /\ UNCHANGED <<startVars, stopping, passes, exit, late, stopped>>
    BY <1>4 DEF SpawnCallFails, S
  <2>2. SpawnsKept
    BY <2>1, <1>2 DEF SpawnsKept
  <2>3. UNCHANGED <<starting, startFailed, stopping, shuttingDown, passes, exit, late, stopped, current>>
    BY <2>1 DEF startVars
  <2> QED
    BY <2>2, <2>3, <1>1 DEF TypeOK, N, SpawnsKept
<1> QED
  BY <1>3, <1>4

LEMMA InitLemma == Init => IInv
<1> SUFFICES ASSUME Init PROVE IInv
  OBVIOUS
<1>1. spawns \in Seq(SpawnCall) /\ Len(spawns) <= 1
  BY NewCallFacts DEF Init
<1>2. TypeOK
  <2>1. passes \in Seq(Pass) /\ Len(passes) = 0
    BY DEF Init
  <2>2. starting \in 1..(N + 1) /\ late \in 0..(N + 1) /\ current \in 0..Len(spawns)
    BY <1>1, OrderFacts DEF Init
  <2>3. /\ startFailed \in BOOLEAN /\ stopping \in BOOLEAN /\ shuttingDown \in BOOLEAN
        /\ exit = "no" /\ stopped = {}
    BY DEF Init
  <2> QED
    BY <2>1, <2>2, <2>3, <1>1, BoundAssumption DEF TypeOK
<1>3. OneProcess
  BY <1>1 DEF OneProcess, Spawned
<1>4. NoneBeforeStart
  <2>1. starting = 1
    BY DEF Init
  <2>2. \A i, j \in 1..N : Order[i] = Order[j] => i = j
    BY OrderAssumption DEF N
  <2>3. ASSUME NEW i \in 1..N, Order[i] = Daemon, 1 < i  PROVE  Order[1] # Daemon
    <3>1. 1 \in 1..N /\ i # 1
      BY <2>3, OrderFacts
    <3> QED
      BY <2>2, <2>3, <3>1
  <2>4. Order[1] # Daemon => spawns = <<>>
    BY DEF Init
  <2> QED
    BY <2>1, <2>3, <2>4 DEF NoneBeforeStart
<1>5. RoomForTimer
  BY NewCallFacts DEF RoomForTimer, Init, Spawned
<1>6. CallsConsistent
  BY NewCallFacts DEF CallsConsistent, Init, Spawned
<1> QED
  BY <1>2, <1>3, <1>4, <1>5, <1>6 DEF IInv

\* The steps of one call of _spawnChildProcess.
LEMMA SpawnStepLemma ==
    ASSUME IInv, NEW c \in Spawned, SpawnStep(c)
    PROVE  IInv'
<1>1. TypeOK /\ OneProcess /\ NoneBeforeStart /\ RoomForTimer /\ CallsConsistent
  BY DEF IInv
<1>2. spawns \in Seq(SpawnCall) /\ c \in 1..Len(spawns) /\ spawns[c] \in SpawnCall
  BY <1>1 DEF TypeOK, Spawned
<1>3. ASSUME SpawnsKept, starting' = starting, TypeOK' PROVE IInv'
  BY <1>3, KeptLemma DEF IInv
<1>4. CASE CannotSpawn(c) \/ CannotConnect(c) \/ ReindexError(c)
  BY <1>4, <1>3, SpawnCallFailsLemma DEF CannotSpawn, CannotConnect, ReindexError
<1>5. ASSUME NEW call \in SpawnCall, spawns' = [spawns EXCEPT ![c] = call],
             Prospect(call) => Prospect(spawns[c]), call.timer => spawns[c].timer, Consistent(call),
             UNCHANGED <<startVars, shuttingDown, stopVars>>, current' \in 0..Len(spawns)
      PROVE  IInv'
  <2>1. SpawnsKept
    BY <1>1, <1>2, <1>5 DEF SpawnsKept, CallsConsistent, Spawned
  <2>2. TypeOK'
    BY <1>1, <1>5, <2>1 DEF TypeOK, SpawnsKept, startVars, stopVars, N
  <2> QED
    BY <1>3, <2>1, <2>2, <1>5 DEF startVars
<1>6. CASE SpawnProcess(c)
  <2>1. PICK outcome \in {"alive", "broken"} :
          spawns' = [spawns EXCEPT ![c].step = "connect", ![c].proc = outcome]
    BY <1>6 DEF SpawnProcess
  <2>2. PICK call : call = [spawns[c] EXCEPT !.step = "connect", !.proc = outcome]
    OBVIOUS
  <2>3. call \in SpawnCall /\ call.timer = spawns[c].timer
    BY <1>2, <2>2 DEF SpawnCall
  <2>4. spawns' = [spawns EXCEPT ![c] = call]
    BY <1>2, <2>1, <2>2 DEF SpawnCall
  <2>5. Prospect(spawns[c]) /\ ~spawns[c].timer /\ Consistent(call)
    BY <1>1, <1>2, <1>6, <2>2, <2>3 DEF SpawnProcess, Prospect, CallsConsistent, Consistent, SpawnCall
  <2>6. current' \in 0..Len(spawns) /\ UNCHANGED <<startVars, shuttingDown, stopVars>>
    BY <1>2, <1>6 DEF SpawnProcess
  <2> QED
    BY <1>5, <2>3, <2>4, <2>5, <2>6
<1>7. CASE Connects(c) \/ Reindexed(c)
  <2>1. PICK step \in {"reindex", "done"} : spawns' = [spawns EXCEPT ![c].step = step]
    BY <1>7 DEF Connects, Reindexed
  <2>2. PICK call : call = [spawns[c] EXCEPT !.step = step]
    OBVIOUS
  <2>3. call \in SpawnCall /\ call.timer = spawns[c].timer /\ call.proc = spawns[c].proc /\ call.step # "pid"
    BY <1>2, <2>2 DEF SpawnCall
  <2>4. spawns' = [spawns EXCEPT ![c] = call]
    BY <2>1, <2>2
  <2>5. current' \in 0..Len(spawns) /\ UNCHANGED <<startVars, shuttingDown, stopVars>>
    BY <1>1, <1>7 DEF Connects, Reindexed, TypeOK
  <2>6. Consistent(call)
    BY <1>1, <2>3 DEF CallsConsistent, Consistent
  <2> QED
    BY <1>5, <2>3, <2>4, <2>5, <2>6 DEF Prospect
<1>8. CASE ProcessExits(c)
  <2>1. PICK call : call = [spawns[c] EXCEPT !.proc = "dead", !.timer = ~stopping]
    OBVIOUS
  <2>2. call \in SpawnCall /\ call.timer = ~stopping
    BY <1>1, <1>2, <2>1 DEF SpawnCall, TypeOK
  <2>3. spawns' = [spawns EXCEPT ![c] = call]
    BY <1>2, <1>8, <2>1 DEF ProcessExits, SpawnCall
  <2>4. /\ spawns' \in Seq(SpawnCall) /\ Len(spawns') = Len(spawns)
        /\ \A d \in 1..Len(spawns) : spawns'[d] = IF d = c THEN call ELSE spawns[d]
    BY <1>2, <2>2, <2>3
  <2>5. Prospect(spawns[c])
    BY <1>8 DEF ProcessExits, Prospect
  <2>6. OneProcess'
    BY <1>1, <1>2, <2>4, <2>5 DEF OneProcess, Spawned
  <2>7. RoomForTimer'
    <3>1. call.timer => Len(spawns) < MaxSpawns
      BY <1>8, <1>1, <2>2 DEF ProcessExits, TypeOK
    <3> QED
      BY <1>1, <1>2, <2>4, <3>1 DEF RoomForTimer, Spawned
  <2>8. NoneBeforeStart'
    BY <1>1, <1>2, <1>8, <2>4 DEF NoneBeforeStart, ProcessExits, startVars, N
  <2>9. PICK clean \in BOOLEAN : AfterExit(c, clean)
    BY <1>8 DEF ProcessExits
  <2>10. /\ exit' \in {"no", "0", "1", "-1"} /\ stopped' \subseteq Services
         /\ passes' \in Seq(Pass) /\ Len(passes') <= MaxPasses
    <3> DEFINE waiting == {p \in 1..Len(passes) : passes[p].child = c}
               first   == CHOOSE p \in waiting : \A q \in waiting : p <= q
               place   == passes[first].at - 1
    <3>1. CASE waiting = {}
      BY <3>1, <2>9, <1>1 DEF AfterExit, TypeOK
    <3>2. CASE waiting # {} /\ (~clean \/ place = 0)
      BY <3>2, <2>9, <1>1 DEF AfterExit, TypeOK, ExitCode
    <3>3. CASE waiting # {} /\ ~(~clean \/ place = 0)
      <4>1. /\ passes' = [p \in 1..Len(passes) |->
                   IF p \in waiting THEN [passes[p] EXCEPT !.at = place, !.child = 0] ELSE passes[p]]
            /\ stopped' = stopped \cup {s \in {Order[place]} : Loaded(place)}
            /\ UNCHANGED exit
        BY <3>3, <2>9 DEF AfterExit
      <4>2. place \in 1..N
        <5>1. \E p \in waiting : \A q \in waiting : p <= q
          <6>1. waiting \in SUBSET Nat /\ waiting # {}
            BY <3>3
          <6> QED
            BY <6>1, LeastOf
        <5>2. first \in waiting
          BY <5>1
        <5>3. passes[first] \in Pass
          BY <5>2, <1>1 DEF TypeOK
        <5>4. passes[first].at \in 1..N
          BY <5>3 DEF Pass
        <5> HIDE DEF first
        <5> QED
          BY <5>4, <3>3, OrderFacts
      <4> HIDE DEF waiting, place
      <4>3. \A p \in 1..Len(passes) : passes'[p] \in Pass
        <5> SUFFICES ASSUME NEW p \in 1..Len(passes) PROVE passes'[p] \in Pass
          OBVIOUS
        <5>1. passes[p] \in Pass
          BY <1>1 DEF TypeOK
        <5>2. 0 \in 0..MaxSpawns
          BY BoundAssumption
        <5>3. [passes[p] EXCEPT !.at = place, !.child = 0] \in Pass
          BY <5>1, <5>2, <4>2 DEF Pass
        <5> QED
          BY <4>1, <5>1, <5>3
      <4>4. passes' \in Seq(Pass) /\ Len(passes') = Len(passes)
        <5>1. Len(passes) \in Nat
          BY <1>1 DEF TypeOK
        <5>2. passes' \in [1..Len(passes) -> Pass]
          BY <4>1, <4>3
        <5>3. passes' \in Seq(Pass)
          BY <5>1, <5>2, SeqDef
        <5> QED
          BY <5>1, <5>2, <5>3, LenProperties
      <4>5. Order[place] \in Services
        BY <4>2, OrderFacts
      <4> QED
        BY <4>1, <4>4, <4>5, <1>1 DEF TypeOK
    <3> QED
      BY <3>1, <3>2, <3>3
  <2>11. TypeOK'
    BY <1>1, <1>8, <2>4, <2>10 DEF TypeOK, ProcessExits, startVars, N
  <2>12. CallsConsistent'
    <3>1. call.proc = "dead" /\ call.step = spawns[c].step
      BY <1>2, <2>1 DEF SpawnCall
    <3>2. spawns[c].step # "pid"
      BY <1>1, <1>8 DEF CallsConsistent, Consistent, ProcessExits
    <3> QED
      BY <1>1, <1>2, <2>4, <3>1, <3>2 DEF CallsConsistent, Spawned, Consistent
  <2> QED
    BY <2>6, <2>7, <2>8, <2>11, <2>12 DEF IInv
<1>9. CASE RestartTimer(c)
  <2>1. spawns[c].timer /\ current' = 0 /\ UNCHANGED <<startVars, shuttingDown, stopVars>>
    BY <1>9 DEF RestartTimer
  <2>2. PICK call : call = [spawns[c] EXCEPT !.timer = FALSE]
    OBVIOUS
  <2>3. call \in SpawnCall /\ ~call.timer /\ call.proc = spawns[c].proc /\ call.step = spawns[c].step
    BY <1>2, <2>2 DEF SpawnCall
  <2>4. PICK S : S = [spawns EXCEPT ![c] = call]
    OBVIOUS
  <2>5. spawns' = Append(S, NewSpawnCall)
    BY <1>9, <2>2, <2>4 DEF RestartTimer
  <2>6. S \in Seq(SpawnCall) /\ Len(S) = Len(spawns) /\ \A d \in 1..Len(S) : S[d] = IF d = c THEN call ELSE spawns[d]
    BY <1>2, <2>3, <2>4
  <2>7. /\ spawns' \in Seq(SpawnCall) /\ Len(spawns') = Len(spawns) + 1
        /\ \A d \in 1..Len(spawns) : spawns'[d] = IF d = c THEN call ELSE spawns[d]
        /\ spawns'[Len(spawns) + 1] = NewSpawnCall
    BY <1>2, <2>5, <2>6, NewCallFacts
  <2>8. Len(spawns) < MaxSpawns
    BY <1>1, <1>2, <2>1 DEF RoomForTimer, Spawned
  <2>9. \A d \in 1..Len(spawns) : ~spawns'[d].timer
    BY <1>1, <1>2, <2>1, <2>3, <2>7 DEF OneProcess, Prospect, Spawned
  <2>10. OneProcess'
    <3>1. \A d \in 1..Len(spawns) : d # c => ~Prospect(spawns'[d])
      BY <1>1, <1>2, <2>1, <2>7 DEF OneProcess, Prospect, Spawned
    <3>2. ~Prospect(spawns'[c])
      BY <1>1, <1>2, <2>1, <2>3, <2>7 DEF Prospect, CallsConsistent, Consistent
    <3> QED
      BY <1>2, <2>7, <3>1, <3>2 DEF OneProcess, Spawned
  <2>11. RoomForTimer'
    BY <1>2, <2>7, <2>9, NewCallFacts DEF RoomForTimer, Spawned
  <2>12. NoneBeforeStart'
    BY <1>1, <1>2, <2>1 DEF NoneBeforeStart, startVars, N
  <2>13. TypeOK'
    BY <1>1, <1>2, <2>1, <2>7, <2>8, BoundAssumption DEF TypeOK, startVars, stopVars, N
  <2>14. CallsConsistent'
    <3>1. Consistent(call)
      BY <1>1, <2>3 DEF CallsConsistent, Consistent
    <3> QED
      BY <1>1, <1>2, <2>7, <3>1, NewCallFacts DEF CallsConsistent, Spawned
  <2> QED
    BY <2>10, <2>11, <2>12, <2>13, <2>14 DEF IInv
<1> QED
  BY <1>4, <1>6, <1>7, <1>8, <1>9 DEF SpawnStep

LEMMA StopStepLemma ==
    ASSUME IInv, NEW p \in 1..Len(passes), StopStep(p)
    PROVE  IInv'
<1>1. TypeOK
  BY DEF IInv
<1>2. spawns \in Seq(SpawnCall) /\ \A c \in 1..Len(spawns) : Consistent(spawns[c])
  BY DEF IInv, TypeOK, CallsConsistent, Spawned
<1>3. CASE ServiceStopped(p)
  <2>1. /\ ComeTo(p, passes[p].at - 1, passes[p].uncaught, spawns)
        /\ UNCHANGED <<startVars, shuttingDown, current, stopping, late>>
    BY <1>3 DEF ServiceStopped
  <2>2. passes[p] \in Pass
    BY <1>1 DEF TypeOK
  <2>3. passes[p].at - 1 \in 0..N /\ passes[p].uncaught \in BOOLEAN /\ p \in 1..(Len(passes) + 1) /\ p <= MaxPasses
    <3>1. passes[p].at \in 1..N /\ passes[p].uncaught \in BOOLEAN
      BY <2>2 DEF Pass
    <3>2. Len(passes) \in Nat /\ Len(passes) <= MaxPasses /\ MaxPasses \in Nat
      BY <1>1, BoundAssumption DEF TypeOK
    <3> QED
      BY <3>1, <3>2, OrderFacts
  <2>4. /\ spawns' \in Seq(SpawnCall) /\ Len(spawns') = Len(spawns)
        /\ \A c \in 1..Len(spawns) : /\ spawns'[c].step = spawns[c].step /\ spawns'[c].proc = spawns[c].proc
                                     /\ spawns'[c].timer = spawns[c].timer
        /\ stopped' \subseteq Services
        /\ exit' \in {"no", "0", "1", "-1"}
        /\ passes' \in Seq(Pass) /\ Len(passes') <= MaxPasses
    BY <1>1, <1>2, <2>1, <2>3, ComeToLemma
  <2>5. SpawnsKept
    BY <1>2, <2>4 DEF SpawnsKept, Prospect, Consistent
  <2>6. TypeOK' /\ starting' = starting
    BY <1>1, <2>1, <2>4 DEF TypeOK, startVars, N
  <2> QED
    BY <2>5, <2>6, KeptLemma DEF IInv
<1>4. CASE ShutdownTimeout(p)
  <2>1. SpawnsKept
    BY <1>2, <1>4 DEF SpawnsKept, ShutdownTimeout, procVars
  <2>2. TypeOK' /\ starting' = starting
    BY <1>1, <1>4 DEF TypeOK, ShutdownTimeout, startVars, procVars, ExitCode, N
  <2> QED
    BY <2>1, <2>2, KeptLemma DEF IInv
<1> QED
  BY <1>3, <1>4 DEF StopStep

LEMMA StepLemma == IInv /\ [Next]_vars => IInv'
<1> SUFFICES ASSUME IInv, [Next]_vars PROVE IInv'
  OBVIOUS
<1>1. TypeOK
  BY DEF IInv
<1>2. spawns \in Seq(SpawnCall) /\ \A c \in 1..Len(spawns) : Consistent(spawns[c])
  BY DEF IInv, TypeOK, CallsConsistent, Spawned
<1>3. CASE ServiceStarted
  <2>1. UNCHANGED <<startFailed, shuttingDown, stopVars, current>> /\ starting <= N /\ starting' = starting + 1
    BY <1>3 DEF ServiceStarted, StartNext
  <2>2. CASE starting + 1 <= N /\ Order[starting + 1] = Daemon
    <3>1. spawns = <<>>
      BY <1>1, <2>2, OrderFacts DEF IInv, NoneBeforeStart, TypeOK
    <3>2. spawns' = <<NewSpawnCall>>
      BY <1>3, <2>2, <3>1 DEF ServiceStarted, StartNext
    <3>3. spawns' \in Seq(SpawnCall) /\ Len(spawns') = 1 /\ spawns'[1] = NewSpawnCall
      BY <3>2, NewCallFacts
    <3>4. OneProcess' /\ RoomForTimer' /\ CallsConsistent'
      BY <3>3, NewCallFacts DEF OneProcess, RoomForTimer, CallsConsistent, Spawned
    <3>5. NoneBeforeStart'
      <4>1. starting + 1 \in 1..N
        BY <2>1, <2>2, <1>1, OrderFacts DEF TypeOK
      <4>2. \A i \in 1..N : Order[i] = Daemon => i = starting + 1
        BY <4>1, <2>2, OrderAssumption DEF N
      <4>3. N' = N
        BY DEF N
      <4> QED
        BY <4>1, <4>2, <4>3, <2>1, OrderFacts DEF NoneBeforeStart
    <3>6. TypeOK'
      BY <1>1, <2>1, <2>2, <3>1, <3>3, BoundAssumption, OrderFacts DEF TypeOK, stopVars, N
    <3> QED
      BY <3>4, <3>5, <3>6 DEF IInv
  <2>3. CASE ~(starting + 1 <= N /\ Order[starting + 1] = Daemon)
    <3>1. spawns' = spawns
      BY <1>3, <2>3 DEF ServiceStarted, StartNext
    <3>2. OneProcess' /\ RoomForTimer' /\ CallsConsistent'
      BY <3>1 DEF IInv, OneProcess, RoomForTimer, CallsConsistent, Spawned
    <3>3. NoneBeforeStart'
      BY <1>1, <2>1, <3>1, OrderFacts DEF IInv, NoneBeforeStart, TypeOK, N
    <3>4. TypeOK'
      BY <1>1, <2>1, <3>1, OrderFacts DEF TypeOK, stopVars, N
    <3> QED
      BY <3>2, <3>3, <3>4 DEF IInv
  <2> QED
    BY <2>2, <2>3
<1>4. ASSUME NEW uncaught \in BOOLEAN, BeginStop(uncaught, spawns),
             startFailed' \in BOOLEAN, shuttingDown' \in BOOLEAN, UNCHANGED <<starting, current>>
      PROVE  IInv'
  <2>1. TypeOK' /\ SpawnsKept
    BY <1>2, <1>4, BeginStopLemma
  <2> QED
    BY <2>1, <1>4, KeptLemma DEF IInv
<1>5. CASE ServiceFails
  BY <1>1, <1>4, <1>5 DEF ServiceFails, TypeOK
<1>6. CASE Sigint
  BY <1>1, <1>4, <1>6 DEF Sigint, TypeOK, startVars
<1>7. CASE UncaughtException
  BY <1>1, <1>4, <1>7 DEF UncaughtException, TypeOK, startVars
<1>8. CASE \E c \in Spawned : SpawnStep(c)
  BY <1>8, SpawnStepLemma
<1>9. CASE \E p \in 1..Len(passes) : StopStep(p)
  BY <1>9, StopStepLemma
<1>10. CASE UNCHANGED vars
  <2>1. UNCHANGED <<starting, startFailed, shuttingDown, spawns, current, stopping, passes, exit, late, stopped>>
    BY <1>10 DEF vars, startVars, procVars, stopVars
  <2>2. SpawnsKept
    BY <1>2, <2>1 DEF SpawnsKept
  <2>3. TypeOK'
    BY <1>1, <2>1 DEF TypeOK, N
  <2> QED
    BY <2>1, <2>2, <2>3, KeptLemma DEF IInv
<1> QED
  BY <1>3, <1>5, <1>6, <1>7, <1>8, <1>9, <1>10 DEF Next

\* The variables have their types in every state (all of the lifecycle).
THEOREM TypeCorrect == Spec => []TypeOK
<1>1. IInv => TypeOK
  BY DEF IInv
<1> QED
  BY InitLemma, StepLemma, <1>1, PTL DEF Spec

\* The node never has two silubiumd processes, nor one while it is about to
\* spawn another (_spawnChildProcess, its handler of the exit, and stop).
THEOREM AtMostOneProcess == Spec => []OneProcess
<1>1. IInv => OneProcess
  BY DEF IInv
<1> QED
  BY InitLemma, StepLemma, <1>1, PTL DEF Spec

-----------------------------------------------------------------------------
(* The order of the stops. *)

\* The services from a place on that had been started are in S.
CoveredFrom(k, started, S) == \A j \in 1..N : k <= j /\ j <= started => Order[j] \in S

\* A pass has had everything behind it stopped, whatever was stopped had everything
\* behind it stopped before, and a pass that succeeded went through them all.
StopsInOrder ==
    /\ \A p \in 1..Len(passes) : CoveredFrom(passes[p].at, late, stopped)
    /\ \A j \in 1..N : Order[j] \in stopped => CoveredFrom(j, late, stopped)
    /\ exit = "0" => CoveredFrom(1, late, stopped)

StopInv ==
    /\ IInv /\ StopsInOrder
    /\ late <= starting
    /\ ~stopping => passes = <<>> /\ stopped = {}

\* The next service of a pass, and the one it waits for.
NextOf(place) == IF place > 0 /\ Immediate(place) THEN place - 1 ELSE place
ChildOf(place) ==
    IF NextOf(place) > 0 /\ Order[NextOf(place)] = Daemon /\ Loaded(NextOf(place))
    THEN current ELSE 0
PassOf(place, uncaught) ==
    [at |-> NextOf(place), child |-> ChildOf(place), uncaught |-> uncaught]

LEMMA ComeToDoes ==
    ASSUME NEW p, NEW place, NEW uncaught, NEW S, ComeTo(p, place, uncaught, S)
    PROVE  /\ spawns' = IF ChildOf(place) = 0 THEN S
                        ELSE [S EXCEPT ![ChildOf(place)].told = TRUE]
           /\ stopped' = stopped
                \cup {Order[i] : i \in {j \in {place, NextOf(place)} \ {0} : Loaded(j)}}
           /\ exit' = IF NextOf(place) = 0 THEN ExitCode(uncaught, FALSE) ELSE exit
           /\ passes' = IF NextOf(place) = 0 THEN passes
                        ELSE IF p > Len(passes) THEN Append(passes, PassOf(place, uncaught))
                        ELSE [passes EXCEPT ![p] = PassOf(place, uncaught)]
BY DEF ComeTo, NextOf, ChildOf, PassOf

LEMMA NextFacts ==
    ASSUME TypeOK, NEW place \in 0..N
    PROVE  /\ NextOf(place) \in 0..N
           /\ NextOf(place) = place \/ (place > 0 /\ NextOf(place) = place - 1 /\ Immediate(place))
BY OrderFacts DEF NextOf

\* What is added to a pass by the step: the rest stay as they are.
LEMMA PassesAfter ==
    ASSUME TypeOK, NEW place \in 0..N, NEW uncaught, NEW p \in 1..(Len(passes) + 1), NEW S,
           ComeTo(p, place, uncaught, S), NEW q \in 1..Len(passes')
    PROVE  \/ q \in 1..Len(passes) /\ passes'[q] = passes[q]
           \/ NextOf(place) # 0 /\ passes'[q] = PassOf(place, uncaught)
<1>1. passes \in Seq(Pass) /\ Len(passes) \in Nat
  BY DEF TypeOK
<1>2. passes' = IF NextOf(place) = 0 THEN passes
                ELSE IF p > Len(passes) THEN Append(passes, PassOf(place, uncaught))
                ELSE [passes EXCEPT ![p] = PassOf(place, uncaught)]
  BY DEF ComeTo, NextOf, ChildOf, PassOf
<1>3. CASE NextOf(place) = 0
  BY <1>2, <1>3
<1>4. CASE NextOf(place) # 0 /\ p > Len(passes)
  <2> HIDE DEF PassOf
  <2>1. passes' = Append(passes, PassOf(place, uncaught))
    BY <1>2, <1>4
  <2> QED BY <1>1, <1>4, <2>1
<1>5. CASE NextOf(place) # 0 /\ ~(p > Len(passes))
  <2>1. passes' = [passes EXCEPT ![p] = PassOf(place, uncaught)]
    BY <1>2, <1>5
  <2>2. p \in 1..Len(passes)
    BY <1>1, <1>5
  <2>3. Len(passes') = Len(passes)
    BY <1>1, <2>1
  <2> QED BY <1>1, <1>5, <2>1, <2>2, <2>3
<1> QED BY <1>3, <1>4, <1>5

LEMMA ComeToKeepsOrder ==
    ASSUME TypeOK, exit = "no", late' \in 0..starting, NEW place \in 0..N,
           NEW uncaught \in BOOLEAN, NEW p \in 1..(Len(passes) + 1), NEW S,
           ComeTo(p, place, uncaught, S),
           CoveredFrom(place + 1, late', stopped),
           \A q \in 1..Len(passes) : CoveredFrom(passes[q].at, late', stopped),
           \A j \in 1..N : Order[j] \in stopped => CoveredFrom(j, late', stopped)
    PROVE  StopsInOrder'
<1>0. /\ NextOf(place) \in 0..N
      /\ NextOf(place) = place \/ (place > 0 /\ NextOf(place) = place - 1)
  BY NextFacts
<1>1. starting \in Nat /\ late' \in Nat /\ N \in Nat \ {0}
  BY OrderFacts DEF TypeOK
<1>2. stopped' = stopped
        \cup {Order[i] : i \in {j \in {place, NextOf(place)} \ {0} : Loaded(j)}}
  BY ComeToDoes
<1>3. stopped \subseteq stopped'
  BY <1>2
<1>4. \A j \in {place, NextOf(place)} \ {0} : j <= late' => Order[j] \in stopped'
  <2>1. \A j \in {place, NextOf(place)} \ {0} : j <= late' => Loaded(j)
    BY <1>0, <1>1 DEF Loaded
  <2> QED BY <1>2, <2>1
<1>5. CoveredFrom(NextOf(place), late', stopped')
  <2> SUFFICES ASSUME NEW j \in 1..N, NextOf(place) <= j, j <= late' PROVE Order[j] \in stopped'
    BY DEF CoveredFrom
  <2>1. j = place \/ j = NextOf(place) \/ place + 1 <= j
    BY <1>0, <1>1
  <2> QED BY <1>3, <1>4, <2>1 DEF CoveredFrom
<1>6. \A q \in 1..Len(passes') : CoveredFrom(passes'[q].at, late', stopped')
  <2> SUFFICES ASSUME NEW q \in 1..Len(passes')
               PROVE  CoveredFrom(passes'[q].at, late', stopped')
    OBVIOUS
  <2>1. CASE q \in 1..Len(passes) /\ passes'[q] = passes[q]
    BY <1>3, <2>1 DEF CoveredFrom
  <2>2. CASE passes'[q] = PassOf(place, uncaught)
    BY <1>5, <2>2 DEF PassOf
  <2> QED BY <2>1, <2>2, PassesAfter
<1>7. ASSUME NEW j \in 1..N, Order[j] \in stopped' PROVE CoveredFrom(j, late', stopped')
  <2>1. CASE Order[j] \in stopped
    BY <1>3, <2>1 DEF CoveredFrom
  <2>2. CASE Order[j] \notin stopped
    <3>1. PICK i \in {place, NextOf(place)} \ {0} : Order[j] = Order[i]
      BY <1>2, <1>7, <2>2
    <3>2. i \in 1..N
      BY <1>0, <1>1, <3>1
    <3>3. i = j
      BY <3>1, <3>2, OrderAssumption DEF N
    <3>4. NextOf(place) <= j
      BY <1>0, <1>1, <3>1, <3>3
    <3> QED BY <1>0, <1>1, <1>5, <3>4 DEF CoveredFrom
  <2> QED BY <2>1, <2>2
<1>8. ASSUME exit' = "0" PROVE CoveredFrom(1, late', stopped')
  <2>1. NextOf(place) = 0
    BY <1>8, ComeToDoes
  <2> QED BY <1>1, <1>5, <2>1 DEF CoveredFrom
<1> QED BY <1>6, <1>7, <1>8 DEF StopsInOrder, CoveredFrom, N

\* What StopInv says besides IInv, for the state after a step.
OrderKept == StopsInOrder /\ late <= starting /\ (~stopping => passes = <<>> /\ stopped = {})

LEMMA OrderStays ==
    ASSUME StopInv, UNCHANGED <<stopping, passes, stopped, late>>, exit' # "0", starting' \in Nat, starting <= starting'
    PROVE  OrderKept'
<1>1. starting \in Nat /\ late \in Nat /\ late <= starting
  BY OrderFacts DEF StopInv, IInv, TypeOK
<1>2. late' <= starting'
  BY <1>1
<1>3. StopsInOrder'
  BY DEF StopInv, StopsInOrder, CoveredFrom, N
<1> QED
  BY <1>2, <1>3 DEF OrderKept, StopInv

LEMMA BeginStopKeepsOrder ==
    ASSUME StopInv, exit = "no", NEW uncaught \in BOOLEAN, NEW S, BeginStop(uncaught, S),
           starting' = starting
    PROVE  OrderKept'
<1>1. TypeOK /\ StopsInOrder /\ late <= starting /\ (~stopping => passes = <<>> /\ stopped = {})
  BY DEF StopInv, IInv
<1>2. starting \in Nat /\ late \in Nat /\ N \in Nat \ {0} /\ Len(passes) \in Nat
  BY <1>1, OrderFacts DEF TypeOK
<1>3. stopping' = TRUE /\ late' = IF stopping THEN late ELSE starting
  BY DEF BeginStop
<1>4. late' \in 0..starting
  BY <1>1, <1>2, <1>3
<1>5. CoveredFrom(N + 1, late', stopped)
  BY <1>2 DEF CoveredFrom
<1>6. /\ \A q \in 1..Len(passes) : CoveredFrom(passes[q].at, late', stopped)
      /\ \A j \in 1..N : Order[j] \in stopped => CoveredFrom(j, late', stopped)
  <2>1. CASE stopping
    BY <1>1, <1>3, <2>1 DEF StopsInOrder
  <2>2. CASE ~stopping
    BY <1>1, <2>2
  <2> QED
    BY <2>1, <2>2
<1>7. ComeTo(Len(passes) + 1, N, uncaught, S) /\ Len(passes) + 1 \in 1..(Len(passes) + 1) /\ N \in 0..N
  BY <1>2 DEF BeginStop
<1>8. StopsInOrder'
  BY <1>1, <1>4, <1>5, <1>6, <1>7, ComeToKeepsOrder
<1>9. late' <= starting'
  BY <1>2, <1>4
<1> QED
  BY <1>3, <1>8, <1>9 DEF OrderKept

\* The first pass that waits for a process, when one does.
WaitingFor(c) == {p \in 1..Len(passes) : passes[p].child = c}
FirstFor(c) == CHOOSE p \in WaitingFor(c) : \A q \in WaitingFor(c) : p <= q

LEMMA FirstForWaits ==
    ASSUME TypeOK, NEW c, WaitingFor(c) # {}
    PROVE  FirstFor(c) \in WaitingFor(c) /\ \A q \in WaitingFor(c) : FirstFor(c) <= q
<1>1. WaitingFor(c) \in SUBSET Nat
  BY DEF WaitingFor, TypeOK
<1>2. \E p \in WaitingFor(c) : \A q \in WaitingFor(c) : p <= q
  BY <1>1, LeastOf
<1> QED
  BY <1>2 DEF FirstFor

LEMMA AfterExitDoes ==
    ASSUME NEW c, NEW clean, AfterExit(c, clean)
    PROVE  \/ WaitingFor(c) = {} /\ UNCHANGED <<passes, exit, stopped>>
           \/ /\ WaitingFor(c) # {} /\ (~clean \/ passes[FirstFor(c)].at - 1 = 0)
              /\ exit' = ExitCode(passes[FirstFor(c)].uncaught, ~clean)
              /\ UNCHANGED <<passes, stopped>>
           \/ /\ WaitingFor(c) # {} /\ passes[FirstFor(c)].at - 1 # 0
              /\ passes' = [p \in 1..Len(passes) |->
                    IF p \in WaitingFor(c)
                    THEN [passes[p] EXCEPT !.at = passes[FirstFor(c)].at - 1, !.child = 0]
                    ELSE passes[p]]
              /\ stopped' = stopped \cup
                    {s \in {Order[passes[FirstFor(c)].at - 1]} : Loaded(passes[FirstFor(c)].at - 1)}
              /\ UNCHANGED exit
BY DEF AfterExit, WaitingFor, FirstFor

\* The passes that wait for a process go on to the service before the one they stopped.
LEMMA AfterExitKeepsOrder ==
    ASSUME StopInv, exit = "no", NEW c, NEW clean \in BOOLEAN, AfterExit(c, clean),
           UNCHANGED <<starting, stopping, late>>
    PROVE  OrderKept'
<1>1. TypeOK /\ StopsInOrder /\ late <= starting /\ (~stopping => passes = <<>> /\ stopped = {})
  BY DEF StopInv, IInv
<1>2. starting \in Nat /\ late \in Nat /\ N \in Nat \ {0} /\ Len(passes) \in Nat
  BY <1>1, OrderFacts DEF TypeOK
<1>3. CASE WaitingFor(c) = {} /\ UNCHANGED <<passes, exit, stopped>>
  BY <1>2, <1>3, OrderStays
<1>4. CASE WaitingFor(c) # {} /\ (~clean \/ passes[FirstFor(c)].at - 1 = 0)
           /\ exit' = ExitCode(passes[FirstFor(c)].uncaught, ~clean)
           /\ UNCHANGED <<passes, stopped>>
  <2>1. FirstFor(c) \in 1..Len(passes)
    BY <1>1, <1>4, FirstForWaits DEF WaitingFor
  <2>2. passes[FirstFor(c)] \in Pass
    BY <1>1, <2>1 DEF TypeOK
  <2>3. passes[FirstFor(c)].at \in 1..N
    BY <2>2 DEF Pass
  <2>4. exit' = "0" => CoveredFrom(1, late', stopped')
    <3>1. SUFFICES ASSUME exit' = "0" PROVE CoveredFrom(1, late', stopped')
      OBVIOUS
    <3>2. clean
      BY <1>4, <3>1 DEF ExitCode
    <3>3. passes[FirstFor(c)].at = 1
      BY <1>2, <1>4, <2>3, <3>2
    <3> QED
      BY <1>1, <1>4, <2>1, <3>3 DEF StopsInOrder
  <2>5. StopsInOrder'
    BY <1>1, <1>4, <2>4 DEF StopsInOrder, CoveredFrom, N
  <2> QED
    BY <1>1, <1>4, <2>5 DEF OrderKept
<1>5. CASE WaitingFor(c) # {} /\ passes[FirstFor(c)].at - 1 # 0
           /\ passes' = [p \in 1..Len(passes) |->
                 IF p \in WaitingFor(c)
                 THEN [passes[p] EXCEPT !.at = passes[FirstFor(c)].at - 1, !.child = 0]
                 ELSE passes[p]]
           /\ stopped' = stopped \cup
                 {s \in {Order[passes[FirstFor(c)].at - 1]} : Loaded(passes[FirstFor(c)].at - 1)}
           /\ UNCHANGED exit
  <2>1. FirstFor(c) \in 1..Len(passes)
    BY <1>1, <1>5, FirstForWaits DEF WaitingFor
  <2>2. passes[FirstFor(c)] \in Pass
    BY <1>1, <2>1 DEF TypeOK
  <2>3. passes[FirstFor(c)].at \in 1..N
    BY <2>2 DEF Pass
  <2>4. PICK place \in 1..N : place + 1 = passes[FirstFor(c)].at /\ place = passes[FirstFor(c)].at - 1
    <3>1. PICK at \in 1..N : at = passes[FirstFor(c)].at
      BY <2>3
    <3>2. at - 1 # 0
      BY <1>5, <3>1
    <3>3. at - 1 \in 1..N /\ (at - 1) + 1 = at
      BY <1>2, <3>2
    <3> QED
      BY <3>1, <3>3
  <2>5. stopped \subseteq stopped' /\ (Loaded(place) => Order[place] \in stopped')
        /\ stopped' \subseteq stopped \cup {Order[place]}
    BY <1>5, <2>4
  <2>6. CoveredFrom(place, late, stopped')
    <3> SUFFICES ASSUME NEW j \in 1..N, place <= j, j <= late PROVE Order[j] \in stopped'
      BY DEF CoveredFrom
    <3>1. CoveredFrom(place + 1, late, stopped)
      BY <1>1, <2>1, <2>4 DEF StopsInOrder
    <3>2. j = place \/ place + 1 <= j
      BY <1>2
    <3>3. CASE j = place
      BY <1>1, <1>2, <2>5, <3>3 DEF Loaded
    <3> QED
      BY <2>5, <3>1, <3>2, <3>3 DEF CoveredFrom
  <2>7. ASSUME NEW q \in 1..Len(passes) PROVE CoveredFrom(passes'[q].at, late, stopped')
    <3>1. passes[q] \in Pass
      BY <1>1 DEF TypeOK
    <3>2. CASE q \in WaitingFor(c)
      <4>1. passes'[q].at = place
        BY <1>5, <2>4, <3>1, <3>2 DEF Pass
      <4> QED
        BY <2>6, <4>1
    <3>3. CASE q \notin WaitingFor(c)
      <4>1. passes'[q] = passes[q]
        BY <1>5, <3>3
      <4> QED
        BY <1>1, <2>5, <4>1 DEF StopsInOrder, CoveredFrom
    <3> QED
      BY <3>2, <3>3
  <2>8. Len(passes') = Len(passes)
    <3>1. DOMAIN passes' = 1..Len(passes)
      BY <1>5
    <3>2. passes' \in [1..Len(passes) -> {passes'[q] : q \in 1..Len(passes)}]
      BY <1>5, <3>1
    <3>3. passes' \in Seq({passes'[q] : q \in 1..Len(passes)})
      BY <1>2, <3>2, SeqDef
    <3> QED
      BY <1>2, <3>1, <3>3, LenProperties
  <2>9. ASSUME NEW j \in 1..N, Order[j] \in stopped' PROVE CoveredFrom(j, late, stopped')
    <3>1. CASE Order[j] \in stopped
      BY <1>1, <2>5, <3>1 DEF StopsInOrder, CoveredFrom
    <3>2. CASE Order[j] = Order[place]
      <4>1. j = place
        BY <3>2, OrderAssumption DEF N
      <4> QED
        BY <2>6, <4>1
    <3> QED
      BY <2>5, <2>9, <3>1, <3>2
  <2>10. StopsInOrder'
    BY <1>5, <2>7, <2>8, <2>9 DEF StopsInOrder, CoveredFrom, N
  <2>11. stopping
    BY <1>1, <1>2, <2>1
  <2> QED
    BY <1>1, <2>10, <2>11 DEF OrderKept
<1> QED
  BY <1>3, <1>4, <1>5, AfterExitDoes

LEMMA OrderInit == Init => StopInv
<1> SUFFICES ASSUME Init PROVE StopInv
  OBVIOUS
<1>1. IInv
  BY InitLemma
<1>2. late = 0 /\ starting = 1 /\ passes = <<>> /\ stopped = {} /\ exit = "no"
  BY DEF Init
<1>3. StopsInOrder
  BY <1>2 DEF StopsInOrder
<1> QED
  BY <1>1, <1>2, <1>3 DEF StopInv

LEMMA OrderStep == StopInv /\ [Next]_vars => StopInv'
<1> SUFFICES ASSUME StopInv, [Next]_vars PROVE OrderKept'
  BY StepLemma DEF StopInv, OrderKept
<1>1. /\ TypeOK /\ StopsInOrder /\ late <= starting
      /\ ~stopping => passes = <<>> /\ stopped = {}
  BY DEF StopInv, IInv
<1>2. starting \in Nat /\ late \in Nat /\ N \in Nat \ {0} /\ Len(passes) \in Nat
  BY <1>1, OrderFacts DEF TypeOK
<1>3. CASE ServiceStarted
  <2>1. starting' = starting + 1 /\ exit = "no" /\ UNCHANGED stopVars
    BY <1>3 DEF ServiceStarted, StartNext
  <2> QED
    BY <1>2, <2>1, OrderStays DEF stopVars
<1>4. CASE ServiceFails \/ Sigint \/ UncaughtException
  <2>1. /\ exit = "no" /\ starting' = starting
        /\ \E uncaught \in BOOLEAN : BeginStop(uncaught, spawns)
    BY <1>4 DEF ServiceFails, Sigint, UncaughtException, startVars
  <2> QED
    BY <2>1, BeginStopKeepsOrder
<1>5. ASSUME NEW c \in Spawned, SpawnStep(c) PROVE OrderKept'
  <2>1. CASE SpawnProcess(c) \/ Connects(c) \/ Reindexed(c) \/ RestartTimer(c)
    <3>1. exit = "no" /\ UNCHANGED <<startVars, stopVars>>
      BY <2>1 DEF SpawnProcess, Connects, Reindexed, RestartTimer
    <3> QED
      BY <1>2, <3>1, OrderStays DEF startVars, stopVars
  <2>2. CASE CannotSpawn(c) \/ CannotConnect(c) \/ ReindexError(c)
    <3>1. exit = "no" /\ SpawnCallFails(c)
      BY <2>2 DEF CannotSpawn, CannotConnect, ReindexError
    <3>2. CASE c = 1
      <4>1. starting' = starting /\ BeginStop(FALSE, [spawns EXCEPT ![c].step = "failed"])
        BY <3>1, <3>2 DEF SpawnCallFails
      <4> QED
        BY <3>1, <4>1, BeginStopKeepsOrder
    <3>3. CASE c # 1
      <4>1. UNCHANGED <<starting, stopping, passes, exit, late, stopped>>
        BY <3>1, <3>3 DEF SpawnCallFails, startVars
      <4> QED
        BY <1>2, <3>1, <4>1, OrderStays
    <3> QED
      BY <3>2, <3>3
  <2>3. CASE ProcessExits(c)
    <3>1. PICK clean \in BOOLEAN : AfterExit(c, clean)
      BY <2>3 DEF ProcessExits
    <3>2. exit = "no" /\ UNCHANGED <<starting, stopping, late>>
      BY <2>3 DEF ProcessExits, startVars
    <3> QED
      BY <3>1, <3>2, AfterExitKeepsOrder
  <2> QED
    BY <1>5, <2>1, <2>2, <2>3 DEF SpawnStep
<1>6. ASSUME NEW p \in 1..Len(passes), StopStep(p) PROVE OrderKept'
  <2>1. passes[p] \in Pass
    BY <1>1 DEF TypeOK
  <2>2. PICK place \in 0..N : place = passes[p].at - 1 /\ place + 1 = passes[p].at
    <3>1. PICK at \in 1..N : at = passes[p].at
      BY <2>1 DEF Pass
    <3>2. at - 1 \in 0..N /\ (at - 1) + 1 = at
      BY <1>2
    <3> QED
      BY <3>1, <3>2
  <2>3. PICK uncaught \in BOOLEAN : uncaught = passes[p].uncaught
    BY <2>1 DEF Pass
  <2>4. CASE ServiceStopped(p)
    <3>1. exit = "no" /\ ComeTo(p, place, uncaught, spawns) /\ UNCHANGED <<starting, stopping, late>>
      BY <2>2, <2>3, <2>4 DEF ServiceStopped, startVars
    <3>2. CoveredFrom(place + 1, late, stopped)
      BY <1>1, <2>2 DEF StopsInOrder
    <3>3. late' \in 0..starting /\ p \in 1..(Len(passes) + 1)
      BY <1>1, <1>2, <3>1
    <3>4. StopsInOrder'
      <4>1. /\ \A q \in 1..Len(passes) : CoveredFrom(passes[q].at, late', stopped)
            /\ \A j \in 1..N : Order[j] \in stopped => CoveredFrom(j, late', stopped)
            /\ CoveredFrom(place + 1, late', stopped)
        BY <1>1, <3>1, <3>2 DEF StopsInOrder
      <4> QED
        BY <1>1, <3>1, <3>3, <4>1, ComeToKeepsOrder
    <3>5. stopping
      BY <1>1, <1>2
    <3> QED
      BY <1>1, <3>1, <3>4, <3>5 DEF OrderKept
  <2>5. CASE ShutdownTimeout(p)
    <3>1. exit' # "0" /\ UNCHANGED <<starting, stopping, passes, late, stopped>>
      BY <2>5 DEF ShutdownTimeout, startVars, ExitCode
    <3> QED
      BY <1>2, <3>1, OrderStays
  <2> QED
    BY <1>6, <2>4, <2>5 DEF StopStep
<1>7. CASE UNCHANGED vars
  <2>1. UNCHANGED <<starting, stopping, passes, exit, late, stopped>>
    BY <1>7 DEF vars, startVars, stopVars
  <2> QED
    BY <1>1, <2>1 DEF OrderKept, StopsInOrder, CoveredFrom, N
<1> QED
  BY <1>3, <1>4, <1>5, <1>6, <1>7 DEF Next

\* However many stops run at once, no service is stopped while one that depends
\* on it runs on unstopped, and a stop that succeeds has called the stop of every
\* service that had been started (Node.stop, getServiceOrder).
THEOREM StopsAreInOrder == Spec => []StoppedInOrder
<1>1. StopInv => StoppedInOrder
  <2> SUFFICES ASSUME StopInv PROVE StoppedInOrder
    OBVIOUS
  <2>1. N \in Nat /\ late \in Nat
    BY OrderFacts DEF StopInv, IInv, TypeOK
  <2>2. ASSUME NEW i \in 1..N, NEW j \in 1..N, Order[j] \in stopped,
               Order[j] \in DependsOn[Order[i]], i <= late
        PROVE  Order[i] \in stopped
    <3>1. PICK k \in 1..(i - 1) : Order[k] = Order[j]
      BY <2>2, OrderAssumption DEF N
    <3>2. k = j
      BY <2>1, <3>1, OrderAssumption DEF N
    <3>3. j <= i
      BY <2>1, <3>1, <3>2
    <3> QED
      BY <2>2, <3>3 DEF StopInv, StopsInOrder, CoveredFrom
  <2>3. ASSUME exit = "0", NEW i \in 1..N, i <= late PROVE Order[i] \in stopped
    BY <2>1, <2>3 DEF StopInv, StopsInOrder, CoveredFrom
  <2> QED
    BY <2>2, <2>3 DEF StoppedInOrder
<1> QED
  BY OrderInit, OrderStep, <1>1, PTL DEF Spec

-----------------------------------------------------------------------------
(* A process that is left running. *)

\* silubiumd is the first service: what the default configuration says.
DaemonFirst == Order[1] = Daemon

\* The process that lives is the last one, the call that looks for an earlier
\* run's is the last one too, and a pass that has come to silubiumd, and only
\* such a pass, waits for a process that it has interrupted.
LastLives ==
    /\ \A c \in Spawned : spawns[c].proc = "alive" => c = current
    /\ current = 0 \/ current = Len(spawns)
    /\ \A c \in Spawned : spawns[c].step = "pid" => c = Len(spawns)
WaitsInterrupted ==
    \A p \in 1..Len(passes) :
        IF passes[p].at = 1 THEN passes[p].child \in Spawned /\ spawns[passes[p].child].told
        ELSE passes[p].child = 0

LeftInv == DaemonFirst /\ IInv /\ LastLives /\ WaitsInterrupted /\ LeftRunningIsReported
LeftKept == LastLives /\ WaitsInterrupted /\ LeftRunningIsReported

\* Nothing lives or the one that lives has been interrupted: the program may end.
LEMMA NothingLeft ==
    ASSUME \A c \in Alive : spawns[c].told
    PROVE  LeftRunningIsReported
BY DEF LeftRunningIsReported

\* A step of the calls that leaves the passes alone.
LEMMA LeftStays ==
    ASSUME LeftInv, exit' = "no", passes' = passes, Len(spawns) <= Len(spawns'), Len(spawns') \in Nat,
           \A c \in Spawned : spawns[c].told => spawns'[c].told
    PROVE  WaitsInterrupted' /\ LeftRunningIsReported'
<1>1. ASSUME NEW p \in 1..Len(passes), passes[p].at = 1
      PROVE  passes[p].child \in 1..Len(spawns') /\ spawns'[passes[p].child].told
  <2>1. passes[p].child \in Spawned /\ spawns[passes[p].child].told
    BY <1>1 DEF LeftInv, WaitsInterrupted, Spawned
  <2>2. Len(spawns) \in Nat
    BY DEF LeftInv, IInv, TypeOK
  <2>3. passes[p].child \in 1..Len(spawns')
    BY ONLY <2>1, <2>2, Len(spawns) <= Len(spawns'), Len(spawns') \in Nat DEF Spawned
  <2> QED
    BY <2>1, <2>3
<1>2. WaitsInterrupted'
  BY <1>1 DEF LeftInv, WaitsInterrupted, Spawned
<1>3. LeftRunningIsReported'
  BY DEF LeftRunningIsReported
<1> QED
  BY <1>2, <1>3

\* A stop comes to a service; S is what spawns is otherwise set to.
LEMMA ComeToKeepsLeft ==
    ASSUME LeftInv, exit = "no", NEW place \in 1..N, NEW uncaught \in BOOLEAN,
           NEW p \in 1..(Len(passes) + 1), p <= MaxPasses,
           NEW S \in Seq(SpawnCall), Len(S) = Len(spawns),
           \A c \in 1..Len(S) : /\ S[c].proc = spawns[c].proc
                                /\ S[c].step = "pid" => spawns[c].step = "pid"
                                /\ spawns[c].told => S[c].told,
           ComeTo(p, place, uncaught, S), current' = current
    PROVE  LeftKept'
<1>1. TypeOK /\ LastLives /\ WaitsInterrupted /\ DaemonFirst
  BY DEF LeftInv, IInv
<1>2. /\ spawns \in Seq(SpawnCall) /\ Len(spawns) \in Nat /\ starting \in 1..(N + 1)
      /\ N \in Nat \ {0} /\ current \in 0..Len(spawns) /\ place \in 0..N
      /\ Len(passes) \in Nat
  BY <1>1, OrderFacts DEF TypeOK
<1>3. /\ spawns' \in Seq(SpawnCall) /\ Len(spawns') = Len(S)
      /\ \A c \in 1..Len(S) : spawns'[c].step = S[c].step /\ spawns'[c].proc = S[c].proc
  BY <1>1, <1>2, ComeToLemma
<1>4. Loaded(1)
  BY <1>2 DEF Loaded
<1>5. \A i \in 1..N : Order[i] = Daemon <=> i = 1
  <2>1. \A i, j \in 1..N : Order[i] = Order[j] => i = j
    BY OrderAssumption DEF N
  <2>2. 1 \in 1..N /\ Order[1] = Daemon
    BY <1>1, <1>2 DEF DaemonFirst
  <2> QED
    BY <2>1, <2>2
<1>6. IF place = 1 /\ current = 0 THEN NextOf(place) = 0 ELSE NextOf(place) = place
  BY <1>2, <1>4, <1>5 DEF NextOf, Immediate
<1>7. ChildOf(place) = IF place = 1 THEN current ELSE 0
  BY <1>2, <1>4, <1>5, <1>6 DEF ChildOf
<1>8. spawns' = IF ChildOf(place) = 0 THEN S ELSE [S EXCEPT ![ChildOf(place)].told = TRUE]
  BY ComeToDoes
<1>9. /\ \A c \in 1..Len(spawns) : spawns[c].told => spawns'[c].told
      /\ ChildOf(place) # 0 => spawns'[ChildOf(place)].told
  <2>1. CASE ChildOf(place) = 0
    BY <1>8, <2>1
  <2>2. CASE ChildOf(place) # 0
    <3>1. PICK child \in 1..Len(S) : child = ChildOf(place)
      BY <1>2, <1>7, <2>2
    <3>2. PICK call : call = [S[child] EXCEPT !.told = TRUE]
      OBVIOUS
    <3>3. S[child] \in SpawnCall
      OBVIOUS
    <3>4. call \in SpawnCall /\ call.told
      BY <3>2, <3>3 DEF SpawnCall
    <3>5. spawns' = [S EXCEPT ![child] = call]
      BY <1>8, <2>2, <3>1, <3>2
    <3>6. \A c \in 1..Len(S) : spawns'[c] = IF c = child THEN call ELSE S[c]
      BY <3>4, <3>5
    <3> QED
      BY <3>1, <3>4, <3>6
  <2> QED
    BY <2>1, <2>2
<1>10. LastLives'
  BY <1>1, <1>2, <1>3 DEF LastLives, Spawned
<1>11. WaitsInterrupted'
  <2> SUFFICES ASSUME NEW q \in 1..Len(passes')
               PROVE  IF passes'[q].at = 1
                      THEN passes'[q].child \in 1..Len(spawns') /\ spawns'[passes'[q].child].told
                      ELSE passes'[q].child = 0
    BY DEF WaitsInterrupted, Spawned
  <2>1. CASE q \in 1..Len(passes) /\ passes'[q] = passes[q]
    BY <1>1, <1>3, <1>9, <2>1 DEF WaitsInterrupted, Spawned
  <2>2. CASE NextOf(place) # 0 /\ passes'[q] = PassOf(place, uncaught)
    <3>1. passes'[q].at = place /\ passes'[q].child = ChildOf(place)
      BY <1>6, <2>2 DEF PassOf
    <3>2. place = 1 => ChildOf(place) \in 1..Len(spawns)
      BY <1>2, <1>6, <1>7, <2>2
    <3>3. place # 1 => ChildOf(place) = 0
      BY <1>7
    <3> QED
      BY <1>3, <1>9, <3>1, <3>2, <3>3
  <2> QED
    BY <1>1, <1>2, <2>1, <2>2, PassesAfter
<1>12. LeftRunningIsReported'
  <2>1. CASE NextOf(place) = 0
    <3>1. current = 0
      BY <1>2, <1>6, <2>1
    <3>2. \A c \in 1..Len(spawns) : spawns[c].proc # "alive"
      BY <1>1, <3>1 DEF LastLives, Spawned
    <3>3. \A c \in 1..Len(spawns') : spawns'[c].proc # "alive"
      BY <1>3, <3>2
    <3> QED
      BY <3>3 DEF LeftRunningIsReported, Alive, Spawned
  <2>2. CASE NextOf(place) # 0
    <3>1. exit' = "no"
      BY <2>2, ComeToDoes
    <3> QED
      BY <3>1 DEF LeftRunningIsReported
  <2> QED
    BY <2>1, <2>2
<1> QED
  BY <1>10, <1>11, <1>12 DEF LeftKept

LEMMA LeftInit == DaemonFirst /\ Init => LeftInv
<1> SUFFICES ASSUME DaemonFirst, Init PROVE LeftInv
  OBVIOUS
<1>1. IInv
  BY InitLemma
<1>2. spawns = <<NewSpawnCall>> /\ current = 0 /\ passes = <<>> /\ exit = "no"
  BY DEF Init, DaemonFirst
<1>3. LastLives
  BY <1>2 DEF LastLives, Spawned, NewSpawnCall
<1>4. WaitsInterrupted /\ LeftRunningIsReported
  BY <1>2 DEF WaitsInterrupted, LeftRunningIsReported
<1> QED
  BY <1>1, <1>3, <1>4 DEF LeftInv

LEMMA LeftSpawnStep ==
    ASSUME LeftInv, NEW c \in Spawned, SpawnStep(c)
    PROVE  LeftKept'
<1>1. TypeOK /\ OneProcess /\ CallsConsistent /\ LastLives /\ WaitsInterrupted /\ DaemonFirst
  BY DEF LeftInv, IInv
<1>2. /\ spawns \in Seq(SpawnCall) /\ c \in 1..Len(spawns) /\ spawns[c] \in SpawnCall
      /\ Len(spawns) \in Nat /\ current \in 0..Len(spawns) /\ Len(passes) \in Nat
      /\ N \in 1..N
  BY <1>1, OrderFacts DEF TypeOK, Spawned
<1>3. ASSUME NEW call \in SpawnCall, spawns' = [spawns EXCEPT ![c] = call], call.told = spawns[c].told,
             call.proc = "alive" => spawns[c].proc = "alive",
             call.step = "pid" => spawns[c].step = "pid",
             current' = current
      PROVE  /\ LastLives' /\ Len(spawns') = Len(spawns)
             /\ \A d \in Spawned : spawns[d].told => spawns'[d].told
  <2>1. \A d \in 1..Len(spawns) : spawns'[d] = IF d = c THEN call ELSE spawns[d]
    BY <1>2, <1>3
  <2>2. Len(spawns') = Len(spawns)
    BY <1>2, <1>3
  <2> QED
    BY <1>1, <1>2, <1>3, <2>1, <2>2 DEF LastLives, Spawned
<1>4. CASE SpawnProcess(c)
  <2>1. PICK outcome \in {"alive", "broken"} :
          spawns' = [spawns EXCEPT ![c].step = "connect", ![c].proc = outcome]
    BY <1>4 DEF SpawnProcess
  <2>2. PICK call : call = [spawns[c] EXCEPT !.step = "connect", !.proc = outcome]
    OBVIOUS
  <2>3. call \in SpawnCall /\ call.told = spawns[c].told /\ call.step = "connect"
    BY <1>2, <2>2 DEF SpawnCall
  <2>4. spawns' = [spawns EXCEPT ![c] = call]
    BY <1>2, <2>1, <2>2 DEF SpawnCall
  <2>5. \A d \in 1..Len(spawns) : spawns'[d] = IF d = c THEN call ELSE spawns[d]
    BY <1>2, <2>3, <2>4
  <2>6. exit' = "no" /\ passes' = passes /\ current' = c /\ spawns[c].step = "pid" /\ Len(spawns') = Len(spawns)
    BY <1>2, <1>4, <2>4 DEF SpawnProcess, stopVars
  <2>7. \A d \in 1..Len(spawns) : d # c => spawns[d].proc # "alive"
    BY <1>1, <1>2, <2>6 DEF OneProcess, Prospect, Spawned
  <2>8. LastLives'
    BY <1>1, <1>2, <2>3, <2>5, <2>6, <2>7 DEF LastLives, Spawned
  <2>9. \A d \in Spawned : spawns[d].told => spawns'[d].told
    BY <2>3, <2>5 DEF Spawned
  <2>10. WaitsInterrupted' /\ LeftRunningIsReported'
    BY <1>2, <2>6, <2>9, LeftStays
  <2> QED
    BY <2>8, <2>10 DEF LeftKept
<1>5. CASE Connects(c) \/ Reindexed(c)
  <2>1. PICK step \in {"reindex", "done"} : spawns' = [spawns EXCEPT ![c].step = step]
    BY <1>5 DEF Connects, Reindexed
  <2>2. PICK call : call = [spawns[c] EXCEPT !.step = step]
    OBVIOUS
  <2>3. call \in SpawnCall /\ call.told = spawns[c].told /\ call.proc = spawns[c].proc /\ call.step # "pid"
    BY <1>2, <2>2 DEF SpawnCall
  <2>4. spawns' = [spawns EXCEPT ![c] = call]
    BY <2>1, <2>2
  <2>5. exit' = "no" /\ passes' = passes /\ current' = current
    BY <1>5 DEF Connects, Reindexed, stopVars
  <2>6. LastLives' /\ Len(spawns') = Len(spawns) /\ \A d \in Spawned : spawns[d].told => spawns'[d].told
    BY <1>3, <2>3, <2>4, <2>5
  <2>7. WaitsInterrupted' /\ LeftRunningIsReported'
    BY <1>2, <2>5, <2>6, LeftStays
  <2> QED
    BY <2>6, <2>7 DEF LeftKept
<1>6. CASE CannotSpawn(c) \/ CannotConnect(c) \/ ReindexError(c)
  <2>1. exit = "no" /\ SpawnCallFails(c) /\ current' = current
    BY <1>6 DEF CannotSpawn, CannotConnect, ReindexError
  <2>2. PICK S : S = [spawns EXCEPT ![c].step = "failed"]
    OBVIOUS
  <2>3. PICK call : call = [spawns[c] EXCEPT !.step = "failed"]
    OBVIOUS
  <2>4. call \in SpawnCall /\ call.told = spawns[c].told /\ call.proc = spawns[c].proc /\ call.step # "pid"
    BY <1>2, <2>3 DEF SpawnCall
  <2>5. S = [spawns EXCEPT ![c] = call]
    BY <2>2, <2>3
  <2>6. /\ S \in Seq(SpawnCall) /\ Len(S) = Len(spawns)
        /\ \A d \in 1..Len(S) : S[d] = IF d = c THEN call ELSE spawns[d]
    BY <1>2, <2>4, <2>5
  <2>7. CASE c = 1
    <3>1. BeginStop(FALSE, S)
      BY <2>1, <2>2, <2>7 DEF SpawnCallFails
    <3>2. Len(passes) + 1 \in 1..(Len(passes) + 1) /\ Len(passes) + 1 <= MaxPasses
      BY <1>2, <3>1, BoundAssumption DEF BeginStop
    <3>3. ComeTo(Len(passes) + 1, N, FALSE, S)
      BY <3>1 DEF BeginStop
    <3>4. \A d \in 1..Len(S) : /\ S[d].proc = spawns[d].proc
                               /\ S[d].step = "pid" => spawns[d].step = "pid"
                               /\ spawns[d].told => S[d].told
      BY <2>4, <2>6
    <3> QED
      BY <1>2, <2>1, <2>6, <3>2, <3>3, <3>4, ComeToKeepsLeft
  <2>8. CASE c # 1
    <3>1. spawns' = S /\ exit' = "no" /\ passes' = passes
      BY <2>1, <2>2, <2>8 DEF SpawnCallFails
    <3>2. LastLives' /\ Len(spawns') = Len(spawns) /\ \A d \in Spawned : spawns[d].told => spawns'[d].told
      BY <1>3, <2>1, <2>4, <2>5, <3>1
    <3>3. WaitsInterrupted' /\ LeftRunningIsReported'
      BY <1>2, <3>1, <3>2, LeftStays
    <3> QED
      BY <3>2, <3>3 DEF LeftKept
  <2> QED
    BY <2>7, <2>8
<1>7. CASE ProcessExits(c)
  <2>1. PICK call : call = [spawns[c] EXCEPT !.proc = "dead", !.timer = ~stopping]
    OBVIOUS
  <2>2. call \in SpawnCall /\ call.told = spawns[c].told /\ call.proc = "dead" /\ call.step = spawns[c].step
    BY <1>1, <1>2, <2>1 DEF SpawnCall, TypeOK
  <2>3. spawns' = [spawns EXCEPT ![c] = call] /\ current' = current /\ exit = "no" /\ spawns[c].proc = "alive"
    BY <1>2, <1>7, <2>1 DEF ProcessExits, SpawnCall
  <2>4. LastLives' /\ Len(spawns') = Len(spawns) /\ \A d \in Spawned : spawns[d].told => spawns'[d].told
    BY <1>3, <2>2, <2>3
  <2>5. PICK clean \in BOOLEAN : AfterExit(c, clean)
    BY <1>7 DEF ProcessExits
  <2>6. passes' = passes
    <3>1. CASE WaitingFor(c) = {}
      BY <2>5, <3>1, AfterExitDoes
    <3>2. CASE WaitingFor(c) # {}
      <4>1. FirstFor(c) \in 1..Len(passes) /\ passes[FirstFor(c)].child = c
        BY <1>1, <3>2, FirstForWaits DEF WaitingFor
      <4>2. passes[FirstFor(c)].at = 1
        BY <1>1, <1>2, <4>1 DEF WaitsInterrupted
      <4>3. passes[FirstFor(c)].at - 1 = 0
        BY <4>2
      <4> QED
        BY <2>5, <3>2, <4>3, AfterExitDoes
    <3> QED
      BY <3>1, <3>2
  <2>7. \A d \in 1..Len(spawns') : spawns'[d].proc # "alive"
    <3>1. \A d \in 1..Len(spawns) : spawns'[d] = IF d = c THEN call ELSE spawns[d]
      BY <1>2, <2>2, <2>3
    <3>2. \A d \in 1..Len(spawns) : d # c => spawns[d].proc # "alive"
      BY <1>1, <1>2, <2>3 DEF LastLives, Spawned
    <3> QED
      BY <2>2, <2>4, <3>1, <3>2
  <2>8. LeftRunningIsReported'
    BY <2>7 DEF LeftRunningIsReported, Alive, Spawned
  <2>9. WaitsInterrupted'
    BY <1>1, <2>4, <2>6 DEF WaitsInterrupted, Spawned
  <2> QED
    BY <2>4, <2>8, <2>9 DEF LeftKept
<1>8. CASE RestartTimer(c)
  <2>1. spawns[c].timer /\ current' = 0 /\ passes' = passes /\ exit' = "no"
    BY <1>8 DEF RestartTimer, stopVars
  <2>2. PICK call : call = [spawns[c] EXCEPT !.timer = FALSE]
    OBVIOUS
  <2>3. call \in SpawnCall /\ call.told = spawns[c].told /\ call.proc = spawns[c].proc /\ call.step = spawns[c].step
    BY <1>2, <2>2 DEF SpawnCall
  <2>4. PICK S : S = [spawns EXCEPT ![c] = call]
    OBVIOUS
  <2>5. spawns' = Append(S, NewSpawnCall)
    BY <1>8, <2>2, <2>4 DEF RestartTimer
  <2>6. S \in Seq(SpawnCall) /\ Len(S) = Len(spawns) /\ \A d \in 1..Len(S) : S[d] = IF d = c THEN call ELSE spawns[d]
    BY <1>2, <2>3, <2>4
  <2>7. /\ Len(spawns') = Len(spawns) + 1
        /\ \A d \in 1..Len(spawns) : spawns'[d] = IF d = c THEN call ELSE spawns[d]
        /\ spawns'[Len(spawns) + 1] = NewSpawnCall
    BY <1>2, <2>5, <2>6, NewCallFacts
  <2>8. \A d \in 1..Len(spawns) : spawns[d].proc # "alive" /\ spawns[d].step # "pid"
    <3>1. spawns[c].proc = "dead" /\ spawns[c].step # "pid"
      BY <1>1, <2>1 DEF CallsConsistent, Consistent
    <3>2. \A d \in 1..Len(spawns) : d # c => ~Prospect(spawns[d])
      BY <1>1, <1>2, <2>1 DEF OneProcess, Prospect, Spawned
    <3> QED
      BY <3>1, <3>2 DEF Prospect
  <2>9. LastLives'
    <3>1. \A d \in 1..Len(spawns') : spawns'[d].proc # "alive"
      BY <1>2, <2>3, <2>7, <2>8 DEF NewSpawnCall
    <3>2. \A d \in 1..Len(spawns') : spawns'[d].step = "pid" => d = Len(spawns')
      BY <1>2, <2>3, <2>7, <2>8
    <3> QED
      BY <2>1, <3>1, <3>2 DEF LastLives, Spawned
  <2>10. \A d \in Spawned : spawns[d].told => spawns'[d].told
    BY <2>3, <2>7 DEF Spawned
  <2>11. WaitsInterrupted' /\ LeftRunningIsReported'
    BY <1>2, <2>1, <2>7, <2>10, LeftStays
  <2> QED
    BY <2>9, <2>11 DEF LeftKept
<1> QED
  BY <1>4, <1>5, <1>6, <1>7, <1>8 DEF SpawnStep

LEMMA LeftStopStep ==
    ASSUME LeftInv, NEW p \in 1..Len(passes), StopStep(p)
    PROVE  LeftKept'
<1>1. TypeOK /\ LastLives /\ WaitsInterrupted
  BY DEF LeftInv, IInv
<1>2. /\ spawns \in Seq(SpawnCall) /\ Len(spawns) \in Nat /\ current \in 0..Len(spawns)
      /\ Len(passes) \in Nat /\ N \in Nat \ {0} /\ passes[p] \in Pass
  BY <1>1, OrderFacts DEF TypeOK
<1>3. PICK at \in 1..N : at = passes[p].at
  BY <1>2 DEF Pass
<1>4. CASE ServiceStopped(p)
  <2>1. at # 1
    <3>1. passes[p].child = 0
      BY <1>4 DEF ServiceStopped
    <3> QED
      BY <1>1, <1>2, <1>3, <3>1 DEF WaitsInterrupted, Spawned
  <2>2. at - 1 \in 1..N
    BY <1>2, <2>1
  <2>3. /\ exit = "no" /\ ComeTo(p, at - 1, passes[p].uncaught, spawns)
        /\ passes[p].uncaught \in BOOLEAN /\ current' = current
    BY <1>2, <1>3, <1>4 DEF ServiceStopped, Pass
  <2>4. p \in 1..(Len(passes) + 1) /\ p <= MaxPasses
    BY <1>1, <1>2, BoundAssumption DEF TypeOK
  <2> QED
    BY <1>2, <2>2, <2>3, <2>4, ComeToKeepsLeft
<1>5. CASE ShutdownTimeout(p)
  <2>1. /\ passes[p].child # 0 /\ exit' # "0" /\ UNCHANGED <<passes, spawns, current>>
    BY <1>5 DEF ShutdownTimeout, ExitCode, procVars
  <2>2. passes[p].child \in 1..Len(spawns) /\ spawns[passes[p].child].told
    BY <1>1, <2>1 DEF WaitsInterrupted, Spawned
  <2>3. ASSUME NEW c \in 1..Len(spawns), spawns[c].proc = "alive", ~spawns[c].told
        PROVE  c > 1
    <3>1. c = Len(spawns)
      BY <1>1, <1>2, <2>3 DEF LastLives, Spawned
    <3>2. passes[p].child # c
      BY <2>2, <2>3
    <3> QED
      BY <1>2, <2>2, <3>1, <3>2
  <2>4. LeftRunningIsReported'
    BY <2>1, <2>3 DEF LeftRunningIsReported, Alive, Spawned
  <2> QED
    BY <1>1, <2>1, <2>4 DEF LeftKept, LastLives, WaitsInterrupted, Spawned
<1> QED
  BY <1>4, <1>5 DEF StopStep

LEMMA LeftStep == LeftInv /\ [Next]_vars => LeftInv'
<1> SUFFICES ASSUME LeftInv, [Next]_vars PROVE LeftKept'
  BY StepLemma DEF LeftInv, LeftKept, DaemonFirst
<1>1. TypeOK /\ LastLives /\ WaitsInterrupted /\ DaemonFirst
  BY DEF LeftInv, IInv
<1>2. /\ spawns \in Seq(SpawnCall) /\ Len(spawns) \in Nat /\ starting \in 1..(N + 1)
      /\ N \in Nat \ {0} /\ Len(passes) \in Nat /\ N \in 1..N
  BY <1>1, OrderFacts DEF TypeOK
<1>3. CASE ServiceStarted
  <2>1. exit' = "no" /\ passes' = passes /\ current' = current
    BY <1>3 DEF ServiceStarted, StartNext, stopVars
  <2>2. spawns' = spawns
    <3>1. starting + 1 # 1
      BY <1>2
    <3>2. starting + 1 <= N => Order[starting + 1] # Daemon
      <4>1. \A i, j \in 1..N : Order[i] = Order[j] => i = j
        BY OrderAssumption DEF N
      <4>2. starting + 1 <= N => starting + 1 \in 1..N /\ 1 \in 1..N
        BY <1>2
      <4> QED
        BY <1>1, <3>1, <4>1, <4>2 DEF DaemonFirst
    <3> QED
      BY <1>3, <3>2 DEF ServiceStarted, StartNext
  <2>3. WaitsInterrupted' /\ LeftRunningIsReported'
    BY <1>2, <2>1, <2>2, LeftStays
  <2> QED
    BY <1>1, <2>1, <2>2, <2>3 DEF LeftKept, LastLives, Spawned
<1>4. CASE ServiceFails \/ Sigint \/ UncaughtException
  <2>1. PICK uncaught \in BOOLEAN : BeginStop(uncaught, spawns)
    BY <1>4 DEF ServiceFails, Sigint, UncaughtException
  <2>2. exit = "no" /\ current' = current
    BY <1>4 DEF ServiceFails, Sigint, UncaughtException
  <2>3. Len(passes) + 1 \in 1..(Len(passes) + 1) /\ Len(passes) + 1 <= MaxPasses
    BY <1>2, <2>1, BoundAssumption DEF BeginStop
  <2>4. ComeTo(Len(passes) + 1, N, uncaught, spawns)
    BY <2>1 DEF BeginStop
  <2> QED
    BY <1>2, <2>2, <2>3, <2>4, ComeToKeepsLeft
<1>5. CASE \E c \in Spawned : SpawnStep(c)
  BY <1>5, LeftSpawnStep
<1>6. CASE \E p \in 1..Len(passes) : StopStep(p)
  BY <1>6, LeftStopStep
<1>7. CASE UNCHANGED vars
  <2>1. UNCHANGED <<spawns, current, passes, exit>>
    BY <1>7 DEF vars, procVars, stopVars
  <2>2. LeftRunningIsReported'
    BY <2>1 DEF LeftInv, LeftRunningIsReported, Alive, Spawned
  <2> QED
    BY <1>1, <2>1, <2>2 DEF LeftKept, LastLives, WaitsInterrupted, Spawned
<1> QED
  BY <1>3, <1>4, <1>5, <1>6, <1>7 DEF Next

\* Where silubiumd is the first of the services, as in the default configuration
\* (getDefaultBaseConfig), a process that the program leaves running has been
\* interrupted, or it replaces one that had exited by itself and the program
\* reports a failure (the stop of silubiumd, the exit handler of its process).
THEOREM LeftRunningIsKnown == DaemonFirst /\ Spec => []LeftRunningIsReported
<1>1. LeftInv => LeftRunningIsReported
  BY DEF LeftInv
<1> QED
  BY LeftInit, LeftStep, <1>1, PTL DEF Spec
=============================================================================
