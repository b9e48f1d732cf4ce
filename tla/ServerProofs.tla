---------------------------- MODULE ServerProofs ----------------------------
(***************************************************************************)
(* Proofs about Server, for any number of requests and drain calls, and    *)
(* for any ttl and timeouts: how old a cached answer can be, what the      *)
(* tables hold, and what a drain call and a shutdown promise.              *)
(***************************************************************************)
EXTENDS Server, TLAPS

Asked(h) == h \in HttpReq /\ stage[h] # "new" /\ method[h] = "web3_clientVersion"

\* The entry of the cache is the answer to a request for the version, and is at
\* most one call's timeout older than its stamp.
CacheInv ==
    /\ cache.id # Nobody => Asked(cache.id) /\ cache.age <= cache.stamp + ProxyTimeout
    /\ \A h \in HttpReq : stage[h] = "cache" => method[h] = "web3_clientVersion"
    /\ \A h \in HttpReq : answer[h].id \notin {h, Nobody} =>
          /\ Asked(h) /\ Asked(answer[h].id)
          /\ answer[h].age <= CacheTTL + ProxyTimeout

\* SaveRecord runs for finished submissions whose entry is valid, and comes to
\* the transactions once the request is in the database.
Kept(h) == stage[h] = "done" /\ valid[h] = TRUE /\ method[h] \in Submission

RecordInv ==
    /\ \A h \in HttpReq : stage[h] = "send" => method[h] \in Submission
    /\ \A h \in HttpReq : saver[h] # "none" => Kept(h)
    /\ \A h \in HttpReq : saver[h] = "saveRawTx" => h \in dbRequests
    /\ \A h \in dbRequests : Kept(h)
    /\ dbRawTxs \subseteq dbRequests

\* A sleeping drain call keeps the server unhealthy, and has slept at least as
\* long as stopDrainServer has been waiting for it; none starts after a signal.
DrainInv ==
    /\ misled = {}
    /\ \A d \in DrainReq : drainCall[d] = "sleeping" => isHealthy = FALSE
    /\ phase \in {"stopDrain", "stopMain", "exited"} => listener["drain"] # "open"
    /\ \A d \in DrainReq : drainCall[d] = "sleeping" =>
          /\ phase = "stopDrain" =>
                drainLeft[d] + ShutdownTimeout <= DrainSeconds + stopLeft
          /\ phase \in {"stopMain", "exited"} =>
                drainLeft[d] + ShutdownTimeout <= DrainSeconds

\* The time since the signal and what is left of the current timeout are one
\* timeout together for the drain server, and at most two for the main server,
\* whose listener is closed by then.
ShutdownInv ==
    /\ phase \in {"init", "serving", "failed"} => sinceSignal = 0
    /\ phase = "stopDrain" => sinceSignal + stopLeft = ShutdownTimeout
    /\ phase \in {"stopMain", "exited"} => /\ sinceSignal + stopLeft <= 2 * ShutdownTimeout
                                           /\ listener["main"] # "open"
    /\ phase = "crashed" => ShutdownBounded

\* A call to the node that was under way when stopMainServer began is not made
\* again, and is counted down together with the timeout.
CaughtInv ==
    /\ phase \in {"stopMain", "exited"} => \A h \in caught :
          /\ stage[h] \in {"proxy", "receipt", "done"}
          /\ stage[h] = "proxy" => proxyLeft[h] + ShutdownTimeout <= ProxyTimeout + stopLeft
    /\ NodeCallsAnswered

ServerInv == /\ ServerTypeOK /\ CacheInv /\ RecordInv /\ DrainInv
             /\ CaughtInv /\ ShutdownInv /\ RecordNotDropped

-----------------------------------------------------------------------------
Answers == [id : HttpReq \cup {Nobody}, age : Nat]
Running == {"process", "send", "cache", "proxy", "receipt"}

\* How a handler finishes: with an entry worth keeping only if it submitted a
\* transaction, with a response of its own unless the cache has one, and with
\* the node's answer put into the cache only if it asked for the version.
Finishes(h, v, a) ==
    /\ stage[h] \in Running
    /\ Finish(h, v, a)
    /\ v => method[h] \in Submission
    /\ \/ a \in {NoAnswer, Own(h)}
       \/ /\ stage[h] = "cache" /\ CacheHit
          /\ a = [id |-> cache.id, age |-> cache.age]
    /\ \/ UNCHANGED cache
       \/ /\ method[h] = "web3_clientVersion"
          /\ \E age \in 0..ProxyTimeout : CacheSet(h, age)

\* rpcCache.Get finds nothing and the node is asked.
Misses(h) ==
    /\ stage[h] = "cache"
    /\ CacheMiss
    /\ stage' = [stage EXCEPT ![h] = "proxy"]
    /\ UNCHANGED <<method, proxyLeft, answer, valid, record>>

\* A step of a handler is one of these, or ProcessRequest's choice.
LEMMA HandleCases ==
  ASSUME HandlerTypeOK, RecordInv, NEW h \in HttpReq, Handle(h)
  PROVE  \/ Dispatch(h) \/ Misses(h) \/ NullReceipt(h)
         \/ \E v \in BOOLEAN, a \in Answers : Finishes(h, v, a)
<1>0. NoAnswer \in Answers /\ Own(h) \in Answers
  BY DEF NoAnswer, Own, Answers
<1>1. CASE NoResponse(h) \/ BadParameters(h)
  BY <1>0, <1>1, Zenon DEF NoResponse, BadParameters, Finishes, Running
<1>2. CASE BadSignature(h)
  <2>1. Valid(h, TRUE, FALSE) \in BOOLEAN /\ (Valid(h, TRUE, FALSE) => method[h] \in Submission)
    BY DEF Valid, Submission
  <2> QED
    BY <1>0, <1>2, <2>1, Zenon DEF BadSignature, Finishes, Running
<1>3. CASE AnswerLocally(h)
  BY <1>0, <1>3, Zenon DEF AnswerLocally, Finishes, Running
<1>4. CASE SendReturns(h)
  <2>1. PICK error \in BOOLEAN, sent \in BOOLEAN : Finish(h, Valid(h, error, sent), Own(h))
    BY <1>4 DEF SendReturns
  <2>2. Valid(h, error, sent) \in BOOLEAN
    BY Zenon DEF Valid
  <2>3. stage[h] = "send" /\ method[h] \in Submission /\ UNCHANGED cache
    BY <1>4 DEF SendReturns, RecordInv
  <2> QED
    BY <1>0, <2>1, <2>2, <2>3 DEF Finishes, Running
<1>5. CASE AskCache(h)
  <2>1. [id |-> cache.id, age |-> cache.age] \in Answers
    BY DEF HandlerTypeOK, Cached, Answers
  <2> QED
    BY <1>0, <1>5, <2>1, Zenon DEF AskCache, Finishes, Misses, Running
<1>6. CASE ProxyReply(h)
  <2>1. PICK age \in 0..(ProxyTimeout - proxyLeft[h]) :
            /\ Finish(h, FALSE, Own(h))
            /\ IF method[h] = "web3_clientVersion" THEN CacheSet(h, age)
                                                   ELSE UNCHANGED cache
    BY <1>6, Zenon DEF ProxyReply
  <2>2. age \in 0..ProxyTimeout
    BY HandlerAssumption DEF HandlerTypeOK
  <2> QED
    BY <1>0, <1>6, <2>1, <2>2, Zenon DEF ProxyReply, Finishes, Running
<1>7. CASE ProxyFails(h)
  BY <1>0, <1>7, Zenon DEF ProxyFails, Finishes, Running
<1>8. CASE ReceiptChecked(h)
  BY <1>0, <1>8, Zenon DEF ReceiptChecked, Finishes, Running
<1> QED
  BY <1>1, <1>2, <1>3, <1>4, <1>5, <1>6, <1>7, <1>8 DEF Handle

\* The steps of the process itself.
LifeStep ==
    \/ Start \/ Signal \/ Stopping \/ HealthCheck
    \/ \E s \in Listener : Listen(s)
    \/ \E d \in DrainReq : HandleDrain(d) \/ DrainReturns(d)

\* They leave the requests alone.
LEMMA LifeFrame ==
  ASSUME LifeStep
  PROVE  UNCHANGED <<handler, record>>
BY DEF LifeStep, Start, Signal, Stopping, DrainServerStopped, MainServerStopped,
   HealthCheck, Listen, HandleDrain, DrainReturns

\* The state of the requests stays well typed.
LEMMA HandlerTypeStep ==
  ASSUME HandlerTypeOK, RecordInv, [ServerNext]_serverVars
  PROVE  HandlerTypeOK'
<1>1. CASE LifeStep \/ UNCHANGED serverVars
  BY <1>1, LifeFrame DEF serverVars, handler, record, HandlerTypeOK
<1>2. ASSUME NEW h \in HttpReq, Accept(h)
      PROVE  HandlerTypeOK'
  BY <1>2 DEF Accept, record, HandlerTypeOK, Stages
<1>3. ASSUME NEW h \in HttpReq, HandlerStep(h)
      PROVE  HandlerTypeOK'
  <2>1. CASE Dispatch(h)
    BY <2>1, HandlerAssumption DEF Dispatch, record, HandlerTypeOK, Stages
  <2>2. CASE Misses(h)
    <3>1. cache' \in Cached
      BY <2>2, CacheAssumption DEF Misses, CacheMiss, NoEntry, Cached
    <3> QED
      BY <2>2, <3>1 DEF Misses, record, HandlerTypeOK, Stages
  <2>3. ASSUME NEW v \in BOOLEAN, NEW a \in Answers, Finishes(h, v, a)
        PROVE  HandlerTypeOK'
    <3>1. cache' \in Cached
      BY <2>3, CacheAssumption, HandlerAssumption
      DEF Finishes, CacheSet, Cached, HandlerTypeOK
    <3>2. Finish(h, v, a)
      BY <2>3 DEF Finishes
    <3>3. valid' \in [HttpReq -> BOOLEAN]
      BY <3>2 DEF Finish, HandlerTypeOK
    <3> QED
      BY <3>1, <3>2, <3>3, HandlerAssumption DEF Finish, HandlerTypeOK, Stages, Answers
  <2>4. CASE NullReceipt(h)
    BY <2>4, HandlerAssumption DEF NullReceipt, record, HandlerTypeOK, Stages
  <2> QED
    BY <1>3, <2>1, <2>2, <2>3, <2>4, HandleCases DEF HandlerStep
<1>4. ASSUME NEW h \in HttpReq, SaverStep(h)
      PROVE  HandlerTypeOK'
  BY <1>4 DEF SaverStep, SaveRecord, SaveRequestEntry, SaveRawTxEntries, SaveFails,
     handler, HandlerTypeOK
<1>5. CASE TimePasses
  <2>1. cache' \in Cached
    <3>1. cache \in Cached /\ CacheTTL \in Nat
      BY CacheAssumption DEF HandlerTypeOK
    <3>2. CASE cache.stamp <= CacheTTL
      <4>1. cache.stamp + 1 \in 0..CacheTTL + 1 /\ cache.age + 1 \in Nat
        BY <3>1, <3>2 DEF Cached
      <4> QED
        BY <1>5, <3>1, <4>1, Zenon DEF TimePasses, CacheTick, Cached
    <3>3. CASE ~(cache.stamp <= CacheTTL)
      BY <1>5, <3>1, <3>3 DEF TimePasses, CacheTick
    <3> QED
      BY <3>2, <3>3
  <2> QED
    BY <1>5, <2>1, HandlerAssumption DEF TimePasses, record, HandlerTypeOK
<1> QED
  BY <1>1, <1>2, <1>3, <1>4, <1>5 DEF ServerNext, LifeStep

\* The state of the process stays well typed.
LEMMA ServerTypeStep ==
  ASSUME ServerTypeOK, RecordInv, [ServerNext]_serverVars
  PROVE  ServerTypeOK'
<1>0. HandlerTypeOK'
  BY HandlerTypeStep DEF ServerTypeOK
<1>1. CASE Start \/ Signal \/ Stopping
  <2>1. caught' \subseteq HttpReq
    BY <1>1, Zenon DEF Start, Signal, Stopping, DrainServerStopped, MainServerStopped,
       NodeCalls, ServerTypeOK
  <2>2. /\ listener' \in [Listener -> {"none", "spawned", "open", "closed"}]
        /\ stopLeft' \in 0..ShutdownTimeout
    BY <1>1, ServerAssumption DEF Start, Signal, Stopping, DrainServerStopped,
       MainServerStopped, Close, ServerTypeOK
  <2>3. /\ phase' \in {"serving", "stopDrain", "stopMain", "failed", "exited"}
        /\ UNCHANGED <<isHealthy, drainCall, drainLeft, misled, sinceSignal>>
    BY <1>1, Zenon DEF Start, Signal, Stopping, DrainServerStopped, MainServerStopped
  <2> QED
    BY <1>0, <2>1, <2>2, <2>3 DEF Over, ServerTypeOK
<1>2. ASSUME NEW s \in Listener, Listen(s)
      PROVE  ServerTypeOK'
  BY <1>0, <1>2 DEF Listen, Over, ServerTypeOK
<1>3. CASE HealthCheck
  <2>1. misled' \subseteq DrainReq
    BY <1>3 DEF HealthCheck, ServerTypeOK
  <2> QED
    BY <1>0, <1>3, <2>1, Zenon DEF HealthCheck, ServerTypeOK
<1>4. ASSUME NEW d \in DrainReq, HandleDrain(d) \/ DrainReturns(d)
      PROVE  ServerTypeOK'
  <2>1. /\ drainCall' \in [DrainReq -> {"new", "sleeping", "returned"}]
        /\ drainLeft' \in [DrainReq -> 0..DrainSeconds]
    BY <1>4, ServerAssumption DEF HandleDrain, DrainReturns, ServerTypeOK
  <2>2. isHealthy' \in BOOLEAN
    BY <1>4, Zenon DEF HandleDrain, DrainReturns, ServerTypeOK
  <2>3. UNCHANGED <<phase, listener, stopLeft, misled, sinceSignal, caught>>
    BY <1>4 DEF HandleDrain, DrainReturns
  <2> QED
    BY <1>0, <2>1, <2>2, <2>3, Zenon DEF ServerTypeOK
<1>5. CASE TimePasses
  <2>1. /\ drainLeft' \in [DrainReq -> 0..DrainSeconds]
        /\ stopLeft' \in 0..ShutdownTimeout
    BY <1>5, ServerAssumption DEF TimePasses, Down, ServerTypeOK
  <2>2. sinceSignal' \in Nat
    BY <1>5 DEF TimePasses, ServerTypeOK
  <2> QED
    BY <1>0, <1>5, <2>1, <2>2, Zenon DEF TimePasses, ServerTypeOK
<1>6. ASSUME UNCHANGED life
      PROVE  ServerTypeOK'
  BY <1>0, <1>6 DEF life, ServerTypeOK
<1>7. ASSUME NEW h \in HttpReq, Accept(h) \/ HandlerStep(h) \/ SaverStep(h)
      PROVE  UNCHANGED life
  BY <1>7 DEF Accept, HandlerStep, SaverStep
<1> QED
  BY <1>1, <1>2, <1>3, <1>4, <1>5, <1>6, <1>7 DEF ServerNext, serverVars

-----------------------------------------------------------------------------
\* A request for the version stays one.
LEMMA AskedKept ==
  ASSUME HandlerTypeOK, RecordInv, [ServerNext]_serverVars, NEW h, Asked(h)
  PROVE  Asked(h)'
<1>1. CASE LifeStep \/ UNCHANGED serverVars
  BY <1>1, LifeFrame DEF serverVars, handler, Asked
<1>2. ASSUME NEW q \in HttpReq, Accept(q)
      PROVE  Asked(h)'
  BY <1>2 DEF Accept, Asked, HandlerTypeOK
<1>3. ASSUME NEW q \in HttpReq, HandlerStep(q)
      PROVE  Asked(h)'
  BY <1>3, HandleCases DEF HandlerStep, Dispatch, Misses, NullReceipt, Finishes, Finish,
     Asked, HandlerTypeOK
<1>4. ASSUME NEW q \in HttpReq, SaverStep(q)
      PROVE  Asked(h)'
  BY <1>4 DEF SaverStep, SaveRecord, handler, Asked
<1>5. CASE TimePasses
  BY <1>5 DEF TimePasses, Asked
<1> QED
  BY <1>1, <1>2, <1>3, <1>4, <1>5 DEF ServerNext, LifeStep

\* The cache: its entry ages with its stamp, and is replaced by an answer at
\* most ProxyTimeout old; Get hands out nothing older than the ttl.
LEMMA CacheStep ==
  ASSUME HandlerTypeOK, RecordInv, CacheInv, [ServerNext]_serverVars
  PROVE  CacheInv'
<1>1. CASE LifeStep \/ UNCHANGED serverVars
  BY <1>1, LifeFrame DEF serverVars, handler, CacheInv, Asked
<1>2. ASSUME NEW q \in HttpReq, Accept(q)
      PROVE  CacheInv'
  BY <1>2, AskedKept DEF Accept, CacheInv, HandlerTypeOK
<1>3. ASSUME NEW q \in HttpReq, HandlerStep(q)
      PROVE  CacheInv'
  <2>1. CASE Dispatch(q)
    BY <2>1, AskedKept DEF Dispatch, CacheInv, HandlerTypeOK, Submission
  <2>2. CASE Misses(q)
    BY <2>2, AskedKept DEF Misses, CacheMiss, NoEntry, CacheInv, HandlerTypeOK
  <2>3. ASSUME NEW v \in BOOLEAN, NEW a \in Answers, Finishes(q, v, a)
        PROVE  CacheInv'
    <3>1. Finish(q, v, a) /\ stage[q] \in Running
      BY <2>3 DEF Finishes
    <3>2. (cache.id # Nobody => Asked(cache.id) /\ cache.age <= cache.stamp + ProxyTimeout)'
      <4>1. CASE UNCHANGED cache
        BY <4>1, AskedKept DEF CacheInv, Asked
      <4>2. CASE /\ method[q] = "web3_clientVersion"
                 /\ \E age \in 0..ProxyTimeout : CacheSet(q, age)
        <5>1. Asked(q)
          BY <3>1, <4>2 DEF Asked, Running
        <5> QED
          BY <4>2, <5>1, AskedKept, HandlerAssumption DEF CacheSet, Asked
      <4> QED
        BY <2>3, <4>1, <4>2 DEF Finishes
    <3>3. a.id \notin {q, Nobody} =>
             Asked(q) /\ Asked(a.id) /\ a.age <= CacheTTL + ProxyTimeout
      BY <2>3, CacheAssumption, HandlerAssumption
      DEF Finishes, NoAnswer, Own, CacheHit, CacheInv, Asked, HandlerTypeOK, Cached
    <3>4. \A h \in HttpReq : stage'[h] = "cache" => method'[h] = "web3_clientVersion"
      BY <3>1 DEF Finish, CacheInv, HandlerTypeOK
    <3>5. answer' = [answer EXCEPT ![q] = a]
      BY <3>1 DEF Finish
    <3> QED
      BY <3>2, <3>3, <3>4, <3>5, AskedKept DEF CacheInv, Asked, HandlerTypeOK
  <2>4. CASE NullReceipt(q)
    BY <2>4, AskedKept DEF NullReceipt, CacheInv, HandlerTypeOK
  <2> QED
    BY <1>3, <2>1, <2>2, <2>3, <2>4, HandleCases DEF HandlerStep
<1>4. ASSUME NEW q \in HttpReq, SaverStep(q)
      PROVE  CacheInv'
  BY <1>4 DEF SaverStep, SaveRecord, handler, CacheInv, Asked
<1>5. CASE TimePasses
  <2>1. cache'.id = cache.id
    BY <1>5 DEF TimePasses, CacheTick, HandlerTypeOK, Cached
  <2>2. cache.id # Nobody => cache'.age <= cache'.stamp + ProxyTimeout
    BY <1>5, HandlerAssumption DEF TimePasses, CacheTick, CacheInv, HandlerTypeOK, Cached
  <2> QED
    BY <1>5, <2>1, <2>2, AskedKept DEF TimePasses, CacheInv
<1> QED
  BY <1>1, <1>2, <1>3, <1>4, <1>5 DEF ServerNext, LifeStep

\* The record: a goroutine of SaveRecord starts when its handler is done, and
\* nothing touches the request after that.
LEMMA RecordStep ==
  ASSUME HandlerTypeOK, RecordInv, [ServerNext]_serverVars
  PROVE  RecordInv'
<1>1. CASE LifeStep \/ UNCHANGED serverVars
  BY <1>1, LifeFrame DEF serverVars, handler, record, RecordInv, Kept
<1>2. ASSUME NEW q \in HttpReq, Accept(q)
      PROVE  RecordInv'
  BY <1>2 DEF Accept, record, RecordInv, Kept, HandlerTypeOK
<1>3. ASSUME NEW q \in HttpReq, HandlerStep(q)
      PROVE  RecordInv'
  <2>1. CASE Dispatch(q)
    BY <2>1 DEF Dispatch, record, RecordInv, Kept, HandlerTypeOK
  <2>2. CASE Misses(q)
    BY <2>2 DEF Misses, record, RecordInv, Kept, HandlerTypeOK
  <2>3. ASSUME NEW v \in BOOLEAN, NEW a \in Answers, Finishes(q, v, a)
        PROVE  RecordInv'
    <3>1. Finish(q, v, a) /\ stage[q] \in Running
      BY <2>3 DEF Finishes
    <3>2. v = TRUE => method[q] \in Submission
      BY <2>3 DEF Finishes
    <3>3. q \notin dbRequests /\ saver[q] = "none"
      BY <3>1 DEF RecordInv, Kept, Running
    <3>4. CASE v = TRUE
      BY <3>1, <3>2, <3>3, <3>4 DEF Finish, RecordInv, Kept, HandlerTypeOK
    <3>5. CASE v = FALSE
      BY <3>1, <3>3, <3>5 DEF Finish, RecordInv, Kept, HandlerTypeOK
    <3> QED
      BY <3>4, <3>5, Zenon
  <2>4. CASE NullReceipt(q)
    BY <2>4 DEF NullReceipt, record, RecordInv, Kept, HandlerTypeOK
  <2> QED
    BY <1>3, <2>1, <2>2, <2>3, <2>4, HandleCases DEF HandlerStep
<1>4. ASSUME NEW q \in HttpReq, SaverStep(q)
      PROVE  RecordInv'
  BY <1>4 DEF SaverStep, SaveRecord, SaveRequestEntry, SaveRawTxEntries, SaveFails,
     handler, RecordInv, Kept, HandlerTypeOK
<1>5. CASE TimePasses
  BY <1>5, Zenon DEF TimePasses, record, RecordInv, Kept
<1> QED
  BY <1>1, <1>2, <1>3, <1>4, <1>5 DEF ServerNext, LifeStep

\* Draining: Signal closes the drain listener before the timeout starts to run,
\* and from then on a sleep and the timeout are counted down together.
LEMMA DrainStep ==
  ASSUME ServerTypeOK, DrainInv, [ServerNext]_serverVars
  PROVE  DrainInv'
<1> USE ServerAssumption
<1>1. CASE Start
  BY <1>1 DEF Start, DrainInv
<1>2. CASE Signal
  BY <1>2 DEF Signal, Close, DrainInv, ServerTypeOK, Listener
<1>3. CASE Stopping
  BY <1>3 DEF Stopping, DrainServerStopped, MainServerStopped, Close, DrainInv,
     ServerTypeOK, Listener
<1>4. CASE HealthCheck
  BY <1>4 DEF HealthCheck, DrainInv
<1>5. ASSUME NEW s \in Listener, Listen(s)
      PROVE  DrainInv'
  <2>1. /\ phase' \in {phase, "crashed"}
        /\ UNCHANGED <<isHealthy, drainCall, drainLeft, stopLeft, misled>>
    BY <1>5 DEF Listen
  <2>2. phase' \in {"stopDrain", "stopMain", "exited"} => listener'["drain"] # "open"
    BY <1>5, <2>1 DEF Listen, ShuttingDown, Alive, Over, DrainInv, ServerTypeOK, Listener
  <2> QED
    BY <2>1, <2>2 DEF DrainInv
<1>6. ASSUME NEW d \in DrainReq, HandleDrain(d)
      PROVE  DrainInv'
  BY <1>6 DEF HandleDrain, Alive, Over, DrainInv, ServerTypeOK
<1>7. ASSUME NEW d \in DrainReq, DrainReturns(d)
      PROVE  DrainInv'
  BY <1>7 DEF DrainReturns, DrainInv, ServerTypeOK
<1>8. CASE TimePasses
  BY <1>8 DEF TimePasses, Down, Alive, Over, DrainInv, ServerTypeOK
<1>9. ASSUME UNCHANGED life
      PROVE  DrainInv'
  BY <1>9 DEF life, DrainInv
<1>10. ASSUME NEW h \in HttpReq, Accept(h) \/ HandlerStep(h) \/ SaverStep(h)
       PROVE  UNCHANGED life
  BY <1>10 DEF Accept, HandlerStep, SaverStep
<1> QED
  BY <1>1, <1>2, <1>3, <1>4, <1>5, <1>6, <1>7, <1>8, <1>9, <1>10
  DEF ServerNext, serverVars

\* The calls to the node that stopMainServer finds under way.
LEMMA CaughtStep ==
  ASSUME ServerTypeOK, RecordInv, CaughtInv, [ServerNext]_serverVars
  PROVE  CaughtInv'
<1>0. /\ ShutdownTimeout \in Nat /\ ProxyTimeout \in Nat /\ stopLeft \in Nat
      /\ caught \subseteq HttpReq /\ stage \in [HttpReq -> Stages]
      /\ proxyLeft \in [HttpReq -> 0..ProxyTimeout]
  BY ServerAssumption, HandlerAssumption DEF ServerTypeOK, HandlerTypeOK
<1>1. CASE Start \/ Signal
  BY <1>1 DEF Start, Signal, CaughtInv, NodeCallsAnswered
<1>2. CASE DrainServerStopped
  BY <1>0, <1>2 DEF DrainServerStopped, handler, CaughtInv, NodeCallsAnswered, NodeCalls
<1>3. CASE MainServerStopped
  BY <1>0, <1>3 DEF MainServerStopped, handler, CaughtInv, NodeCallsAnswered, NodeCalls
<1>4. ASSUME UNCHANGED <<stage, proxyLeft, stopLeft, caught>>, phase' \in {phase, "crashed"}
      PROVE  CaughtInv'
  BY <1>4 DEF CaughtInv, NodeCallsAnswered, NodeCalls
<1>5. ASSUME \/ HealthCheck \/ UNCHANGED serverVars
             \/ \E s \in Listener : Listen(s)
             \/ \E h \in HttpReq : SaverStep(h)
             \/ \E d \in DrainReq : HandleDrain(d) \/ DrainReturns(d)
      PROVE  UNCHANGED <<stage, proxyLeft, stopLeft, caught>> /\ phase' \in {phase, "crashed"}
  BY <1>5 DEF HealthCheck, Listen, SaverStep, SaveRecord, HandleDrain, DrainReturns,
     serverVars, handler, life
<1>6. ASSUME NEW q \in HttpReq, Accept(q) \/ HandlerStep(q)
      PROVE  CaughtInv'
  <2>1. phase \notin Over /\ UNCHANGED <<phase, stopLeft, caught>>
    BY <1>6 DEF Accept, HandlerStep, Alive, life
  <2>2. \A h \in HttpReq \ {q} : stage'[h] = stage[h] /\ proxyLeft'[h] = proxyLeft[h]
    BY <1>0, <1>6, HandleCases DEF ServerTypeOK, Accept, HandlerStep, Dispatch, Misses,
       NullReceipt, Finishes, Finish
  <2>3. stage[q] \in {"proxy", "receipt", "done"} => stage'[q] \in {"receipt", "done"}
    BY <1>0, <1>6, HandleCases DEF ServerTypeOK, Accept, HandlerStep, Dispatch, Misses,
       NullReceipt, Finishes, Finish
  <2> QED
    BY <1>0, <2>1, <2>2, <2>3 DEF Over, CaughtInv, NodeCallsAnswered
<1>7. CASE TimePasses
  <2>1. /\ phase \notin Over /\ UNCHANGED <<phase, stage, caught>>
        /\ phase = "stopMain" => stopLeft' = stopLeft - 1
        /\ \A h \in HttpReq : stage[h] = "proxy" => proxyLeft'[h] = proxyLeft[h] - 1
    BY <1>0, <1>7 DEF TimePasses, Alive, Signalled, Down
  <2> QED
    BY <1>0, <2>1 DEF Over, CaughtInv, NodeCallsAnswered
<1> QED
  BY <1>1, <1>2, <1>3, <1>4, <1>5, <1>6, <1>7 DEF ServerNext, Stopping

\* The shutdown: TimePasses moves a unit from the timeout to the time since the
\* signal, and the second timeout starts when at most the first has passed.
LEMMA ShutdownStep ==
  ASSUME ServerTypeOK, ShutdownInv, [ServerNext]_serverVars
  PROVE  ShutdownInv'
<1>0. /\ ShutdownTimeout \in Nat /\ sinceSignal \in Nat /\ stopLeft \in Nat
      /\ listener \in [Listener -> {"none", "spawned", "open", "closed"}]
      /\ "main" \in Listener
      /\ stopLeft <= ShutdownTimeout
  BY ServerAssumption DEF ServerTypeOK, Listener
<1>1. CASE Start
  BY <1>0, <1>1 DEF Start, ShutdownInv
<1>2. CASE Signal
  BY <1>0, <1>2 DEF Signal, ShutdownInv
<1>3. CASE DrainServerStopped
  <2>1. listener'["main"] # "open"
    BY <1>0, <1>3 DEF DrainServerStopped, Close
  <2> QED
    BY <1>0, <1>3, <2>1 DEF DrainServerStopped, ShutdownInv
<1>4. CASE MainServerStopped
  BY <1>4 DEF MainServerStopped, ShutdownInv
<1>5. ASSUME NEW s \in Listener, Listen(s)
      PROVE  ShutdownInv'
  <2>1. /\ phase \notin Over
        /\ phase' \in {phase, "crashed"}
        /\ UNCHANGED <<stopLeft, sinceSignal>>
    BY <1>5 DEF Listen, Alive
  <2>2. phase = "stopMain" => listener'["main"] # "open"
    BY <1>0, <1>5 DEF Listen, ShuttingDown, ShutdownInv
  <2>3. CASE phase' = phase
    BY <2>1, <2>2, <2>3 DEF ShutdownInv, Over
  <2>4. CASE phase' = "crashed"
    <3>1. /\ sinceSignal <= 2 * ShutdownTimeout
          /\ phase # "stopMain" => sinceSignal <= ShutdownTimeout
      BY <1>0, <2>1 DEF ShutdownInv, ServerTypeOK, Over
    <3> QED
      BY <2>1, <2>2, <2>4, <3>1 DEF ShutdownInv, ShutdownBounded
  <2> QED
    BY <2>1, <2>3, <2>4
<1>6. CASE TimePasses
  <2>1. /\ phase \notin Over
        /\ UNCHANGED <<phase, listener>>
        /\ Signalled => stopLeft > 0
        /\ stopLeft' = Down(stopLeft)
        /\ sinceSignal' = IF Signalled THEN sinceSignal + 1 ELSE sinceSignal
    BY <1>6 DEF TimePasses, Alive
  <2> QED
    BY <1>0, <2>1 DEF Signalled, Down, Over, ShutdownInv
<1>7. ASSUME UNCHANGED <<phase, listener, stopLeft, sinceSignal>>
      PROVE  ShutdownInv'
  BY <1>7 DEF ShutdownInv, ShutdownBounded
<1>8. ASSUME \/ HealthCheck \/ UNCHANGED serverVars
             \/ \E h \in HttpReq : Accept(h) \/ HandlerStep(h) \/ SaverStep(h)
             \/ \E d \in DrainReq : HandleDrain(d) \/ DrainReturns(d)
      PROVE  UNCHANGED <<phase, listener, stopLeft, sinceSignal>>
  BY <1>8, Zenon DEF HealthCheck, Accept, HandlerStep, SaverStep, HandleDrain, DrainReturns,
     serverVars, life
<1> QED
  BY <1>1, <1>2, <1>3, <1>4, <1>5, <1>6, <1>7, <1>8, Zenon DEF ServerNext, Stopping

\* The record, seen from the response: Finish starts the goroutine together with
\* it, and nothing but the goroutine's own steps ends it.
LEMMA NotDroppedStep ==
  ASSUME HandlerTypeOK, RecordInv, RecordNotDropped, [ServerNext]_serverVars
  PROVE  RecordNotDropped'
<1>1. CASE LifeStep \/ UNCHANGED serverVars
  BY <1>1, LifeFrame DEF serverVars, handler, record, RecordNotDropped
<1>2. ASSUME NEW q \in HttpReq, Accept(q)
      PROVE  RecordNotDropped'
  BY <1>2 DEF Accept, record, RecordNotDropped, HandlerTypeOK
<1>3. ASSUME NEW q \in HttpReq, HandlerStep(q)
      PROVE  RecordNotDropped'
  <2>1. CASE Dispatch(q)
    BY <2>1 DEF Dispatch, record, RecordNotDropped, HandlerTypeOK, Submission
  <2>2. CASE Misses(q)
    BY <2>2 DEF Misses, record, RecordNotDropped, HandlerTypeOK
  <2>3. ASSUME NEW v \in BOOLEAN, NEW a \in Answers, Finishes(q, v, a)
        PROVE  RecordNotDropped'
    <3>1. Finish(q, v, a)
      BY <2>3 DEF Finishes
    <3>2. /\ \A h \in HttpReq \ {q} : /\ stage'[h] = stage[h] /\ saver'[h] = saver[h]
                                      /\ valid'[h] = valid[h]
          /\ valid'[q] = v
          /\ v = TRUE => saver'[q] = "saveRequest"
          /\ UNCHANGED <<dbRequests, dbRawTxs, dbErr>>
      BY <3>1 DEF Finish, HandlerTypeOK
    <3> QED
      BY <3>2, Zenon DEF RecordNotDropped
  <2>4. CASE NullReceipt(q)
    BY <2>4 DEF NullReceipt, record, RecordNotDropped, HandlerTypeOK
  <2> QED
    BY <1>3, <2>1, <2>2, <2>3, <2>4, HandleCases DEF HandlerStep
<1>4. ASSUME NEW q \in HttpReq, SaverStep(q)
      PROVE  RecordNotDropped'
  <2>1. UNCHANGED <<stage, valid>>
    BY <1>4 DEF SaverStep, SaveRecord, handler
  <2>2. /\ \A h \in HttpReq \ {q} : saver'[h] = saver[h]
        /\ dbRequests \subseteq dbRequests'
        /\ dbRawTxs \subseteq dbRawTxs'
        /\ dbErr \subseteq dbErr'
    BY <1>4 DEF SaverStep, SaveRecord, SaveRequestEntry, SaveRawTxEntries, SaveFails,
       HandlerTypeOK
  <2>3. \/ saver'[q] = "saveRawTx" /\ q \in dbRequests'
        \/ saver'[q] = "end" /\ q \in dbErr' \cup (dbRequests' \cap dbRawTxs')
    BY <1>4 DEF SaverStep, SaveRecord, SaveRequestEntry, SaveRawTxEntries, SaveFails,
       HandlerTypeOK, RecordInv
  <2> QED
    BY <2>1, <2>2, <2>3 DEF RecordNotDropped
<1>5. CASE TimePasses
  BY <1>5, Zenon DEF TimePasses, record, RecordNotDropped
<1> QED
  BY <1>1, <1>2, <1>3, <1>4, <1>5 DEF ServerNext, LifeStep

\* The invariant of the process with its requests: types, the cache, the record,
\* draining and the shutdown.
THEOREM ServerInvariant == ServerSpec => []ServerInv
<1>1. ServerInit => ServerInv
  <2> SUFFICES ASSUME ServerInit PROVE ServerInv
    OBVIOUS
  <2>1. HandlerTypeOK
    BY CacheAssumption, HandlerAssumption
    DEF ServerInit, HandlerInit, HandlerTypeOK, Method, Stages, NoAnswer, NoEntry, Cached
  <2>2. ServerTypeOK
    BY <2>1, ServerAssumption DEF ServerInit, ServerTypeOK
  <2>3. CacheInv /\ RecordInv
    BY DEF ServerInit, HandlerInit, CacheInv, RecordInv, NoAnswer, NoEntry
  <2>4. DrainInv /\ CaughtInv
    BY DEF ServerInit, DrainInv, CaughtInv, NodeCallsAnswered
  <2>5. ShutdownInv /\ RecordNotDropped
    BY DEF ServerInit, HandlerInit, ShutdownInv, RecordNotDropped
  <2> QED
    BY <2>2, <2>3, <2>4, <2>5 DEF ServerInv
<1>2. ServerInv /\ [ServerNext]_serverVars => ServerInv'
  BY ServerTypeStep, CacheStep, RecordStep, DrainStep, CaughtStep, ShutdownStep,
     NotDroppedStep
  DEF ServerInv, ServerTypeOK
<1> QED
  BY <1>1, <1>2, PTL DEF ServerSpec

\* A response with another request's id answers web3_clientVersion and is at
\* most the ttl and one call's timeout old.
THEOREM CachedAnswers == ServerSpec => []CachedAnswerAge
<1>1. ServerInv => CachedAnswerAge
  BY DEF ServerInv, CacheInv, CachedAnswerAge, Asked
<1> QED
  BY <1>1, ServerInvariant, PTL

\* No row of a raw transaction without the row of its request, and no row for an
\* entry that getValidRawTxEntriesToSave rejects.
THEOREM Rows == ServerSpec => []RawTxsHaveRequest
<1>1. ServerInv => RawTxsHaveRequest
  BY DEF ServerInv, RecordInv, Kept, RawTxsHaveRequest
<1> QED
  BY <1>1, ServerInvariant, PTL

\* A call to the node that stopMainServer finds under way has come back when the
\* process exits, if its timeout is below that of the shutdown.
THEOREM NodeCallsTheorem == ServerSpec => []NodeCallsAnswered
<1>1. ServerInv => NodeCallsAnswered
  BY DEF ServerInv, CaughtInv
<1> QED
  BY <1>1, ServerInvariant, PTL

\* The main server accepts requests while a drain call sleeps, unless that has
\* already slept through the timeout of stopDrainServer.
THEOREM Draining == ServerSpec => []ServesWhileDraining
<1>1. ServerInv => ServesWhileDraining
  BY DEF ServerInv, DrainInv, ServesWhileDraining
<1> QED
  BY <1>1, ServerInvariant, PTL

\* No health check is answered with 200 while a drain call sleeps.
THEOREM DrainTheorem == ServerSpec => []DrainSeen
<1>1. ServerInv => DrainSeen
  BY DEF ServerInv, DrainInv, DrainSeen
<1> QED
  BY <1>1, ServerInvariant, PTL

\* After a signal the main server accepts requests for at most one timeout, and
\* the process is there for at most two: the bound behind SignalEndsProcess.
THEOREM Shutdown == ServerSpec => []ShutdownBounded
<1>1. ServerInv => ShutdownBounded
  <2> SUFFICES ASSUME ServerInv PROVE ShutdownBounded
    OBVIOUS
  <2>1. ShutdownTimeout \in Nat /\ sinceSignal \in Nat /\ stopLeft \in Nat
    BY ServerAssumption DEF ServerInv, ServerTypeOK
  <2> QED
    BY <2>1 DEF ServerInv, ServerTypeOK, Over, ShutdownInv, ShutdownBounded
<1> QED
  BY <1>1, ServerInvariant, PTL

\* The goroutine of a valid entry is there with the response and gives up only
\* after a failed insert: the safety half of RecordsSaved.
THEOREM Records == ServerSpec => []RecordNotDropped
<1>1. ServerInv => RecordNotDropped
  BY DEF ServerInv
<1> QED
  BY <1>1, ServerInvariant, PTL
=============================================================================
