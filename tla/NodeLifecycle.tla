--------------------------- MODULE NodeLifecycle ---------------------------
(***************************************************************************)
(* The life of a node: its services are started in order, SIGINT, an       *)
(* uncaught exception or a failed start stop them in the reverse order and *)
(* end the program, and the silubiumd service keeps a silubiumd process of *)
(* its own running: it spawns it, spawns another one some time after it    *)
(* has exited, and interrupts it when the service is stopped.              *)
(*                                                                         *)
(* The event loop runs one callback at a time; every action is one.        *)
(***************************************************************************)
EXTENDS Naturals, Sequences, FiniteSets

CONSTANTS
    Services,     \* the configured services
    DependsOn,    \* [Services -> SUBSET Services]
    Order,        \* the services in the order of getServiceOrder
    Daemon,       \* the silubiumd service
    Reindexing,   \* silubium.conf asks for a reindex
    MaxSpawns,    \* bound: calls of _spawnChildProcess
    MaxPasses     \* bound: calls of node.stop

ASSUME OrderAssumption ==
    /\ IsFiniteSet(Services)
    /\ Daemon \in Services
    /\ DependsOn \in [Services -> SUBSET Services]
    /\ Order \in Seq(Services)
    /\ \A s \in Services : \E i \in 1..Len(Order) : Order[i] = s
    /\ \A i, j \in 1..Len(Order) : Order[i] = Order[j] => i = j
    /\ \A i \in 1..Len(Order) : \A d \in DependsOn[Order[i]] :
            \E j \in 1..(i - 1) : Order[j] = d

ASSUME BoundAssumption ==
    /\ Reindexing \in BOOLEAN
    /\ MaxSpawns \in Nat \ {0}
    /\ MaxPasses \in Nat

VARIABLES
    starting,      \* the service whose start is under way, as a place in Order; Len(Order) + 1 at the end
    startFailed,   \* the series of starts has ended with an error
    stopping,      \* node.stopping
    shuttingDown,  \* a SIGINT has been taken
    spawns,        \* the calls of _spawnChildProcess, in their order
    current,       \* the call whose process is spawn.process, 0 for none
    passes,        \* the calls of node.stop, in their order
    exit,          \* how the program has ended: "no" while it runs
    late,          \* history: the place in Order where the starts were when the first stop began
    stopped        \* history: the services whose stop has been called

startVars == <<starting, startFailed>>
procVars  == <<spawns, current>>
stopVars  == <<stopping, passes, exit, late, stopped>>
vars      == <<startVars, shuttingDown, procVars, stopVars>>

N == Len(Order)

\* One call of _spawnChildProcess.  step: where the call is; proc: its
\* process ("broken": it could not be executed and never exits); told: it was
\* sent a SIGINT; timer: its exit has armed the timer of the next call.
SpawnCall == [step : {"pid", "connect", "reindex", "done", "failed"},
              proc : {"none", "alive", "broken", "dead"},
              told : BOOLEAN, timer : BOOLEAN]
NewSpawnCall == [step |-> "pid", proc |-> "none", told |-> FALSE, timer |-> FALSE]
Spawned == 1..Len(spawns)
Alive == {c \in Spawned : spawns[c].proc = "alive"}

\* One call of node.stop.  at: the place in Order of the service it waits
\* for; child: the process that service waits for, 0 for none; uncaught: it
\* was made for an uncaught exception.
Pass == [at : 1..N, child : 0..MaxSpawns, uncaught : BOOLEAN]

\* A service is in node.services from the moment its start is called.
\* Wrong: a service is added once it has started.
LoadedOnceUp(place) == place < starting
Loaded(place) == place <= starting

-----------------------------------------------------------------------------
(* Stopping: a pass over the services in reverse order. *)

ExitCode(uncaught, failed) == IF uncaught THEN "-1" ELSE IF failed THEN "1" ELSE "0"

\* The silubiumd service without a process calls back at once.
Immediate(place) == Order[place] = Daemon /\ Loaded(place) /\ current = 0

\* Pass p comes to the service at a place, 0 when there is none left.  Spawns
\* is what spawns is otherwise set to: the stop of silubiumd interrupts its
\* process.
ComeTo(p, place, uncaught, Spawns) ==
    LET next  == IF place > 0 /\ Immediate(place) THEN place - 1 ELSE place
        child == IF next > 0 /\ Order[next] = Daemon /\ Loaded(next) THEN current ELSE 0
        pass  == [at |-> next, child |-> child, uncaught |-> uncaught]
    IN  /\ spawns' = IF child = 0 THEN Spawns ELSE [Spawns EXCEPT ![child].told = TRUE]
        /\ stopped' = stopped \cup {Order[i] : i \in {j \in {place, next} \ {0} : Loaded(j)}}
        /\ exit' = IF next = 0 THEN ExitCode(uncaught, FALSE) ELSE exit
        /\ passes' = IF next = 0 THEN passes
                     ELSE IF p > Len(passes) THEN Append(passes, pass) ELSE [passes EXCEPT ![p] = pass]

\* Wrong: the services are not reversed, and nothing comes before the first.
BeginStopUnreversed(uncaught, Spawns) ==
    /\ Len(passes) < MaxPasses
    /\ stopping' = TRUE
    /\ late' = IF stopping THEN late ELSE starting
    /\ ComeTo(Len(passes) + 1, 1, uncaught, Spawns)

\* node.stop: whatever is stopped already is stopped again.
BeginStop(uncaught, Spawns) ==
    /\ Len(passes) < MaxPasses
    /\ stopping' = TRUE
    /\ late' = IF stopping THEN late ELSE starting
    /\ ComeTo(Len(passes) + 1, N, uncaught, Spawns)

\* The stop of a service without a process calls back: the next one is stopped.
ServiceStopped(p) ==
    /\ exit = "no"
    /\ passes[p].child = 0
    /\ ComeTo(p, passes[p].at - 1, passes[p].uncaught, spawns)
    /\ UNCHANGED <<startVars, shuttingDown, current, stopping, late>>

\* Wrong: a process that has exited already is not given a time to exit.
ShutdownTimeoutOfLiving(p) ==
    /\ exit = "no"
    /\ passes[p].child # 0
    /\ spawns[passes[p].child].proc = "alive"
    /\ exit' = ExitCode(passes[p].uncaught, TRUE)
    /\ UNCHANGED <<startVars, shuttingDown, procVars, stopping, passes, late, stopped>>

\* The process did not exit within shutdownTimeout: the pass ends with an error.
ShutdownTimeout(p) ==
    /\ exit = "no"
    /\ passes[p].child # 0
    /\ exit' = ExitCode(passes[p].uncaught, TRUE)
    /\ UNCHANGED <<startVars, shuttingDown, procVars, stopping, passes, late, stopped>>

\* Ctrl+C: taken once.
Sigint ==
    /\ exit = "no" /\ ~shuttingDown
    /\ shuttingDown' = TRUE
    /\ BeginStop(FALSE, spawns)
    /\ UNCHANGED <<startVars, current>>

\* An exception that nothing catches: every one starts a stop of its own.
UncaughtException ==
    /\ exit = "no"
    /\ BeginStop(TRUE, spawns)
    /\ UNCHANGED <<startVars, shuttingDown, current>>

-----------------------------------------------------------------------------
(* The process of the silubiumd service. *)

\* A call of _spawnChildProcess ends with an error.  The first one was made by
\* the start of the service, which fails and shuts the node down; a later
\* one's error is logged.
SpawnCallFails(c) ==
    LET failed == [spawns EXCEPT ![c].step = "failed"]
    IN  IF c = 1
        THEN startFailed' = TRUE /\ BeginStop(FALSE, failed) /\ UNCHANGED starting
        ELSE spawns' = failed /\ UNCHANGED <<startVars, stopping, passes, exit, late, stopped>>

\* No process of an earlier run is left: the process is spawned.
SpawnProcess(c) ==
    /\ exit = "no"
    /\ spawns[c].step = "pid"
    /\ \E outcome \in {"alive", "broken"} :
         spawns' = [spawns EXCEPT ![c].step = "connect", ![c].proc = outcome]
    /\ current' = c
    /\ UNCHANGED <<startVars, shuttingDown, stopVars>>

\* The configuration, or the pid file of an earlier run, cannot be dealt with.
CannotSpawn(c) ==
    /\ exit = "no"
    /\ spawns[c].step = "pid"
    /\ SpawnCallFails(c)
    /\ UNCHANGED <<shuttingDown, current>>

\* A process answers: the socket is made, and a reindex is waited for.
Connects(c) ==
    /\ exit = "no"
    /\ spawns[c].step = "connect"
    /\ Alive # {}
    /\ spawns' = [spawns EXCEPT ![c].step = IF Reindexing THEN "reindex" ELSE "done"]
    /\ UNCHANGED <<startVars, shuttingDown, current, stopVars>>

\* Wrong: a call whose attempts have failed has another process spawned.
CannotConnectAgain(c) ==
    /\ exit = "no"
    /\ spawns[c].step = "connect"
    /\ Len(spawns) < MaxSpawns
    /\ spawns' = [spawns EXCEPT ![c].step = "failed", ![c].timer = TRUE]
    /\ UNCHANGED <<startVars, shuttingDown, current, stopVars>>

\* 60 attempts have failed, or the node is stopping.
CannotConnect(c) ==
    /\ exit = "no"
    /\ spawns[c].step = "connect"
    /\ SpawnCallFails(c)
    /\ UNCHANGED <<shuttingDown, current>>

Reindexed(c) ==
    /\ exit = "no"
    /\ spawns[c].step = "reindex"
    /\ Alive # {}
    /\ spawns' = [spawns EXCEPT ![c].step = "done"]
    /\ UNCHANGED <<startVars, shuttingDown, current, stopVars>>

ReindexError(c) ==
    /\ exit = "no"
    /\ spawns[c].step = "reindex"
    /\ SpawnCallFails(c)
    /\ UNCHANGED <<shuttingDown, current>>

\* The passes that wait for process c go on when it has exited with code 0
\* and end with an error otherwise; the one that began first comes first.
AfterExit(c, clean) ==
    LET waiting == {p \in 1..Len(passes) : passes[p].child = c}
        first   == CHOOSE p \in waiting : \A q \in waiting : p <= q
        place   == passes[first].at - 1
    IN  IF waiting = {} THEN UNCHANGED <<passes, exit, stopped>>
        ELSE IF ~clean \/ place = 0
        THEN exit' = ExitCode(passes[first].uncaught, ~clean) /\ UNCHANGED <<passes, stopped>>
        ELSE /\ passes' = [p \in 1..Len(passes) |->
                    IF p \in waiting THEN [passes[p] EXCEPT !.at = place, !.child = 0] ELSE passes[p]]
             /\ stopped' = stopped \cup {s \in {Order[place]} : Loaded(place)}
             /\ UNCHANGED exit

\* The process exits, by itself or because it was told to: unless the node is
\* stopping, another one is spawned after spawnRestartTime.
ProcessExits(c) ==
    /\ exit = "no"
    /\ spawns[c].proc = "alive"
    /\ stopping \/ Len(spawns) < MaxSpawns
    /\ spawns' = [spawns EXCEPT ![c].proc = "dead", ![c].timer = ~stopping]
    /\ \E clean \in BOOLEAN : AfterExit(c, clean)
    /\ UNCHANGED <<startVars, shuttingDown, current, stopping, late>>

\* Wrong: a process is replaced only when its service has come up.
RestartTimerOnceUp(c) ==
    /\ exit = "no"
    /\ spawns[c].timer /\ spawns[1].step = "done"
    /\ spawns' = Append([spawns EXCEPT ![c].timer = FALSE], NewSpawnCall)
    /\ current' = 0
    /\ UNCHANGED <<startVars, shuttingDown, stopVars>>

\* The timer ends: _spawnChildProcess is called, which forgets the old process.
RestartTimer(c) ==
    /\ exit = "no"
    /\ spawns[c].timer
    /\ spawns' = Append([spawns EXCEPT ![c].timer = FALSE], NewSpawnCall)
    /\ current' = 0
    /\ UNCHANGED <<startVars, shuttingDown, stopVars>>

-----------------------------------------------------------------------------
(* Starting: a series over the services in order. *)

\* A service starts: silubiumd by spawning its process.
StartNext(place) ==
    /\ starting' = place
    /\ IF place <= N /\ Order[place] = Daemon
       THEN spawns' = Append(spawns, NewSpawnCall)
       ELSE UNCHANGED spawns
    /\ UNCHANGED current

\* Whether the start of silubiumd has come to the requests of _initChain.
InitChain == Len(spawns) > 0 /\ spawns[1].step = "done"

\* The start of a service calls back and the next service is started.  That of
\* insight-api calls back without an error whatever its own services say.
ServiceStarted ==
    /\ exit = "no" /\ ~startFailed /\ starting <= N
    /\ Order[starting] = Daemon => InitChain /\ Alive # {}
    /\ StartNext(starting + 1)
    /\ UNCHANGED <<startFailed, shuttingDown, stopVars>>

\* It calls back with an error: no further service is started and the node stops.
ServiceFails ==
    /\ exit = "no" /\ ~startFailed /\ starting <= N
    /\ Order[starting] = Daemon => InitChain
    /\ startFailed' = TRUE
    /\ BeginStop(FALSE, spawns)
    /\ UNCHANGED <<starting, shuttingDown, current>>

\* The program has called node.start.
Init ==
    /\ starting = 1 /\ startFailed = FALSE
    /\ stopping = FALSE /\ shuttingDown = FALSE
    /\ spawns = IF Order[1] = Daemon THEN <<NewSpawnCall>> ELSE <<>>
    /\ current = 0
    /\ passes = <<>> /\ exit = "no" /\ late = 0 /\ stopped = {}

SpawnStep(c) ==
    \/ SpawnProcess(c) \/ CannotSpawn(c) \/ Connects(c) \/ CannotConnect(c)
    \/ Reindexed(c) \/ ReindexError(c) \/ ProcessExits(c) \/ RestartTimer(c)

StopStep(p) == ServiceStopped(p) \/ ShutdownTimeout(p)

Next ==
    \/ ServiceStarted \/ ServiceFails \/ Sigint \/ UncaughtException
    \/ \E c \in Spawned : SpawnStep(c)
    \/ \E p \in 1..Len(passes) : StopStep(p)

Spec == Init /\ [][Next]_vars

\* The event loop goes on: stops call back, timers end, and the process of an
\* earlier run goes away once it is interrupted.
FairSpec ==
    /\ Spec
    /\ \A p \in 1..MaxPasses : WF_vars(p <= Len(passes) /\ StopStep(p))
    /\ \A c \in 1..MaxSpawns :
         WF_vars(c \in Spawned /\ (SpawnProcess(c) \/ CannotSpawn(c) \/ RestartTimer(c)))

-----------------------------------------------------------------------------
TypeOK ==
    /\ starting \in 1..(N + 1) /\ late \in 0..(N + 1)
    /\ startFailed \in BOOLEAN /\ stopping \in BOOLEAN /\ shuttingDown \in BOOLEAN
    /\ spawns \in Seq(SpawnCall) /\ Len(spawns) <= MaxSpawns
    /\ current \in 0..Len(spawns)
    /\ passes \in Seq(Pass) /\ Len(passes) <= MaxPasses
    /\ exit \in {"no", "0", "1", "-1"}
    /\ stopped \subseteq Services

\* A call of _spawnChildProcess that has, or may yet have, a process.
Prospect(call) == call.proc = "alive" \/ call.step = "pid" \/ call.timer

\* At no time are there two silubiumd processes of this node on the data
\* directory, nor one and the prospect of another: a call of
\* _spawnChildProcess that has yet to spawn, or a timer that will make one.
OneProcess == \A c, d \in Spawned : Prospect(spawns[c]) /\ Prospect(spawns[d]) => c = d

\* "Will stop all running services in the reverse order that they were initially
\* started" (Node.stop), in whatever order several stops run: no service is stopped
\* while one that depends on it runs on unstopped, and when the program reports
\* success, the stop of every service has been called.  Apart from both are the
\* services that a series of starts still under way has begun behind the shutdown.
StoppedInOrder ==
    /\ \A i, j \in 1..N :
         Order[j] \in stopped /\ Order[j] \in DependsOn[Order[i]] /\ i <= late
             => Order[i] \in stopped
    /\ exit = "0" => \A i \in 1..N : i <= late => Order[i] \in stopped

\* Where silubiumd is the first service (the default configuration), a process
\* that the program leaves running has been interrupted, or it replaces one that
\* had exited by itself and the program reports a failure.  With silubiumd behind
\* another service, a series of starts that a stop has passed over spawns it.
LeftRunningIsReported ==
    exit # "no" => \A c \in Alive : spawns[c].told \/ (c > 1 /\ exit # "0")

\* A shutdown comes to its end, however many were begun and whatever the
\* process does (shutdownTimeout).
ShutdownEnds == stopping ~> exit # "no"

\* A process that exits by itself is replaced, unless the node stops or the
\* new call cannot deal with the configuration or the pid file.
RestartComes ==
    \A c \in 1..MaxSpawns :
        (c \in Spawned /\ spawns[c].timer) ~> (stopping \/ (c + 1 \in Spawned /\ spawns[c + 1].step # "pid"))

=============================================================================
