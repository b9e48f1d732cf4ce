------------------------------- MODULE Server -------------------------------
(***************************************************************************)
(* The life of the process (server.go and cmd/server/main.go): start-up,   *)
(* the listeners of the main and of the drain server, the health check,    *)
(* drain calls, the signal, and the two shutdowns with their timeouts,     *)
(* around the requests of RequestHandler.                                  *)
(*                                                                         *)
(* Time is a set of timers that Tick counts down.  A timer that has run    *)
(* out fires before more time passes.                                      *)
(***************************************************************************)
EXTENDS RequestHandler

CONSTANTS
    DrainReq,           \* calls to the drain server
    DrainSeconds,       \* DRAIN_SECONDS
    ShutdownTimeout     \* the 30 seconds of stopMainServer and stopDrainServer

ASSUME ServerAssumption == DrainSeconds \in Nat /\ ShutdownTimeout \in Nat

VARIABLES
    phase,              \* where main and Start are
    listener,           \* the goroutines of ListenAndServe
    isHealthy,
    drainCall,          \* drain calls
    drainLeft,          \* what is left of a drain call's sleep
    stopLeft,           \* what is left of the timeout of the current shutdown
    misled,             \* history: drain calls during whose sleep a health
                        \* check was answered with 200
    sinceSignal,        \* history: the time since the signal
    caught              \* history: requests whose call to the node was under way
                        \* when stopMainServer began

life == <<phase, listener, isHealthy, drainCall, drainLeft, stopLeft, misled,
          sinceSignal, caught>>
serverVars == <<handler, record, life>>

Listener == {"main", "drain", "metrics"}

Over == {"failed", "crashed", "exited"}

ServerTypeOK ==
    /\ HandlerTypeOK
    /\ phase \in {"init", "serving", "stopDrain", "stopMain"} \cup Over
    /\ listener \in [Listener -> {"none", "spawned", "open", "closed"}]
    /\ isHealthy \in BOOLEAN
    /\ drainCall \in [DrainReq -> {"new", "sleeping", "returned"}]
    /\ drainLeft \in [DrainReq -> 0..DrainSeconds]
    /\ stopLeft \in 0..ShutdownTimeout
    /\ misled \subseteq DrainReq
    /\ sinceSignal \in Nat
    /\ caught \subseteq HttpReq

ServerInit ==
    /\ HandlerInit
    /\ phase = "init"
    /\ listener = [s \in Listener |-> "none"]
    /\ isHealthy = TRUE
    /\ drainCall = [d \in DrainReq |-> "new"]
    /\ drainLeft = [d \in DrainReq |-> 0]
    /\ stopLeft = 0
    /\ misled = {}
    /\ sinceSignal = 0
    /\ caught = {}

Alive == phase \notin Over

-----------------------------------------------------------------------------
\* main and NewRpcEndPointServer: customer configuration, Redis, builder list,
\* chain id and default node, of which any failure ends the process; then
\* Start, which spawns both listeners and waits for a signal.
Start ==
    /\ phase = "init"
    /\ \/ "start" \in ServerFaults /\ phase' = "failed" /\ UNCHANGED listener
       \/ phase' = "serving" /\ listener' = [s \in Listener |-> "spawned"]
    /\ UNCHANGED <<isHealthy, drainCall, drainLeft, stopLeft, misled,
                   sinceSignal, caught, handler, record>>

\* Start calls Shutdown on one server after the other; each closes its listener
\* first.  The pointer s.drain is nil once stopDrainServer has returned.
ShuttingDown(s) ==
    \/ s = "drain" /\ phase = "stopDrain"
    \/ s = "main" /\ phase = "stopMain"

\* The goroutine runs.  It listens, or fails to, which is logged, but fatal for
\* the metrics server (log.Crit); or its server has been shut down before, or
\* the pointer to it is nil, which panics.
Listen(s) ==
    /\ Alive /\ listener[s] = "spawned"
    /\ \/ /\ ~ShuttingDown(s) /\ ~(s = "drain" /\ phase = "stopMain")
          /\ listener' = [listener EXCEPT ![s] = "open"]
          /\ UNCHANGED phase
       \/ /\ ShuttingDown(s) \/ "bind" \in ServerFaults
          /\ listener' = [listener EXCEPT ![s] = "closed"]
          /\ phase' = IF s = "metrics" THEN "crashed" ELSE phase
       \/ /\ s = "drain" /\ phase = "stopMain"
          /\ phase' = "crashed"
          /\ UNCHANGED listener
    /\ UNCHANGED <<isHealthy, drainCall, drainLeft, stopLeft, misled,
                   sinceSignal, caught, handler, record>>

\* HandleHttpRequest: a POST reaches its handler.  (GET is redirected and
\* OPTIONS answered at once.)
Accept(h) ==
    /\ Alive /\ listener["main"] = "open" /\ stage[h] = "new"
    /\ stage' = [stage EXCEPT ![h] = "process"]
    /\ \E m \in Method : method' = [method EXCEPT ![h] = m]
    /\ UNCHANGED <<proxyLeft, answer, valid, cache, record, life>>

HandlerStep(h) == Alive /\ Handle(h) /\ UNCHANGED life
SaverStep(h) == Alive /\ SaveRecord(h) /\ UNCHANGED life

\* A health check answered with 200.  (The others change nothing.)
HealthCheck ==
    /\ Alive /\ listener["main"] = "open"
    /\ isHealthy
    /\ misled' = misled \cup {d \in DrainReq : drainCall[d] = "sleeping"}
    /\ UNCHANGED <<phase, listener, isHealthy, drainCall, drainLeft, stopLeft,
                   sinceSignal, caught, handler, record>>

\* Mutant: the server is marked unhealthy after the sleep.
HandleDrainLate(d) ==
    /\ Alive /\ listener["drain"] = "open" /\ drainCall[d] = "new"
    /\ drainCall' = [drainCall EXCEPT ![d] = "sleeping"]
    /\ drainLeft' = [drainLeft EXCEPT ![d] = DrainSeconds]
    /\ UNCHANGED <<isHealthy, phase, listener, stopLeft, misled, sinceSignal, caught,
                   handler, record>>

\* handleDrain: the first call marks the server unhealthy and sleeps, without
\* the lock; any other returns at once.
HandleDrain(d) ==
    /\ Alive /\ listener["drain"] = "open" /\ drainCall[d] = "new"
    /\ isHealthy' = FALSE
    /\ IF isHealthy
       THEN /\ drainCall' = [drainCall EXCEPT ![d] = "sleeping"]
            /\ drainLeft' = [drainLeft EXCEPT ![d] = DrainSeconds]
       ELSE /\ drainCall' = [drainCall EXCEPT ![d] = "returned"]
            /\ UNCHANGED drainLeft
    /\ UNCHANGED <<phase, listener, stopLeft, misled, sinceSignal, caught, handler,
                   record>>

DrainReturns(d) ==
    /\ Alive /\ drainCall[d] = "sleeping" /\ drainLeft[d] = 0
    /\ drainCall' = [drainCall EXCEPT ![d] = "returned"]
    /\ UNCHANGED <<phase, listener, isHealthy, drainLeft, stopLeft, misled,
                   sinceSignal, caught, handler, record>>

Close(s) == listener' = [listener EXCEPT ![s] = IF @ = "open" THEN "closed" ELSE @]

\* Mutant: both servers are shut down at once.
SignalBoth ==
    /\ phase = "serving"
    /\ phase' = "stopMain"
    /\ stopLeft' = ShutdownTimeout
    /\ listener' = [s \in Listener |-> "closed"]
    /\ UNCHANGED <<isHealthy, drainCall, drainLeft, misled, sinceSignal, caught,
                   handler, record>>

\* Mutant: the drain server is given the time that a drain call sleeps.
SignalWaitsForDrain ==
    /\ phase = "serving"
    /\ phase' = "stopDrain"
    /\ stopLeft' = DrainSeconds
    /\ Close("drain")
    /\ UNCHANGED <<isHealthy, drainCall, drainLeft, misled, sinceSignal, caught,
                   handler, record>>

\* SIGINT or SIGTERM: Start goes on to stopDrainServer.
Signal ==
    /\ phase = "serving"
    /\ phase' = "stopDrain"
    /\ stopLeft' = ShutdownTimeout
    /\ Close("drain")
    /\ UNCHANGED <<isHealthy, drainCall, drainLeft, misled, sinceSignal, caught,
                   handler, record>>

NodeCalls == {h \in HttpReq : stage[h] = "proxy"}

\* Mutant: one context with one timeout for both servers.
DrainServerStoppedShared ==
    /\ phase = "stopDrain"
    /\ stopLeft = 0 \/ \A d \in DrainReq : drainCall[d] # "sleeping"
    /\ phase' = "stopMain"
    /\ caught' = NodeCalls
    /\ Close("main")
    /\ UNCHANGED <<stopLeft, isHealthy, drainCall, drainLeft, misled, sinceSignal,
                   handler, record>>

\* Shutdown returns when no drain call is running, or at its timeout; then
\* stopMainServer begins, with a timeout of its own.
DrainServerStopped ==
    /\ phase = "stopDrain"
    /\ stopLeft = 0 \/ \A d \in DrainReq : drainCall[d] # "sleeping"
    /\ phase' = "stopMain"
    /\ stopLeft' = ShutdownTimeout
    /\ caught' = NodeCalls
    /\ Close("main")
    /\ UNCHANGED <<isHealthy, drainCall, drainLeft, misled, sinceSignal,
                   handler, record>>

\* Mutant: Shutdown without a timeout.
MainServerAwaited ==
    /\ phase = "stopMain"
    /\ \A h \in HttpReq : stage[h] \in {"new", "done"}
    /\ phase' = "exited"
    /\ UNCHANGED <<stopLeft, listener, isHealthy, drainCall, drainLeft, misled,
                   sinceSignal, caught, handler, record>>

\* Shutdown returns when no request is being handled, or at its timeout; main
\* returns and the process is gone, whatever goroutines it still has.
MainServerStopped ==
    /\ phase = "stopMain"
    /\ stopLeft = 0 \/ \A h \in HttpReq : stage[h] \in {"new", "done"}
    /\ phase' = "exited"
    /\ UNCHANGED <<stopLeft, listener, isHealthy, drainCall, drainLeft, misled,
                   sinceSignal, caught, handler, record>>

Stopping == DrainServerStopped \/ MainServerStopped

Signalled == phase \in {"stopDrain", "stopMain"}

Down(n) == IF n = 0 THEN 0 ELSE n - 1

\* One unit of time passes, unless a timer has run out and not fired yet, or a
\* goroutine of Start has not been scheduled.
TimePasses ==
    /\ Alive
    /\ \A s \in Listener : listener[s] # "spawned"
    /\ \A h \in HttpReq : stage[h] = "proxy" => proxyLeft[h] > 0
    /\ \A d \in DrainReq : drainCall[d] = "sleeping" => drainLeft[d] > 0
    /\ Signalled => stopLeft > 0
    /\ proxyLeft' = [h \in HttpReq |-> IF stage[h] = "proxy" THEN proxyLeft[h] - 1
                                                             ELSE proxyLeft[h]]
    /\ drainLeft' = [d \in DrainReq |-> Down(drainLeft[d])]
    /\ stopLeft' = Down(stopLeft)
    /\ sinceSignal' = IF Signalled THEN sinceSignal + 1 ELSE sinceSignal
    /\ CacheTick
    /\ UNCHANGED <<method, stage, answer, valid, record,
                   phase, listener, isHealthy, drainCall, misled, caught>>

ServerNext ==
    \/ Start \/ Signal \/ Stopping \/ HealthCheck \/ TimePasses
    \/ \E s \in Listener : Listen(s)
    \/ \E h \in HttpReq : Accept(h) \/ HandlerStep(h) \/ SaverStep(h)
    \/ \E d \in DrainReq : HandleDrain(d) \/ DrainReturns(d)

ServerSpec == ServerInit /\ [][ServerNext]_serverVars

\* What the runtime, the timers and the 10 second limit of the inserts see to.
\* Nothing is assumed of clients, of the signal, or of the relay's answers.
ServerFairness ==
    /\ WF_serverVars(Start)
    /\ WF_serverVars(TimePasses)
    /\ WF_serverVars(Stopping)
    /\ \A s \in Listener : WF_serverVars(Listen(s))
    /\ \A h \in HttpReq : /\ WF_serverVars(SaverStep(h))
                          /\ WF_serverVars(Alive /\ ProxyFails(h) /\ UNCHANGED life)
    /\ \A d \in DrainReq : WF_serverVars(DrainReturns(d))

FairServer == ServerSpec /\ ServerFairness

-----------------------------------------------------------------------------
\* A call to the node that is under way when stopMainServer begins has come back
\* when the process exits, whatever drain calls, submissions and status checks
\* are under way with it, if the client's timeout is below the 30 seconds that
\* stopMainServer has for itself (server.go:201); a longer call has had all of
\* them.
NodeCallsAnswered ==
    phase = "exited" =>
        \A h \in caught \cap NodeCalls : proxyLeft[h] + ShutdownTimeout <= ProxyTimeout

\* While a drain call sleeps, so that the load balancer notices, the main server
\* goes on accepting requests, also after the signal: stopMainServer begins
\* before the drain call returns only if that has slept through the whole
\* timeout of stopDrainServer.
ServesWhileDraining ==
    \A d \in DrainReq :
        drainCall[d] = "sleeping" /\ phase \in {"stopMain", "exited"}
            => drainLeft[d] + ShutdownTimeout <= DrainSeconds

\* From the moment a drain call marks the server until it has slept through
\* DrainSeconds, no health check is answered with 200, whatever other drain
\* calls and health checks run meanwhile.
DrainSeen == misled = {}

\* Start spends at most one timeout on each of the two servers, one after the
\* other: after a signal the main server accepts requests for at most one
\* timeout more and the process is gone after at most two, however long a drain
\* call still has to sleep and whatever requests hang.
ShutdownBounded ==
    /\ sinceSignal <= 2 * ShutdownTimeout
    /\ listener["main"] = "open" => sinceSignal <= ShutdownTimeout

\* After a signal the process ends, though requests hang, a drain call sleeps,
\* or a listener never came up.
SignalEndsProcess == phase = "stopDrain" ~> phase \in Over

\* The record of every answered submission that is worth keeping reaches the
\* database, unless an insert failed or the process ended before.
RecordsSaved ==
    \A h \in HttpReq :
        stage[h] = "done" /\ valid[h]
            ~> h \in dbRawTxs \/ h \in dbErr \/ phase \in Over
=============================================================================
