--------------------------- MODULE RequestHandler ---------------------------
(***************************************************************************)
(* A JSON-RPC request from HandleHttpRequest (server.go) through process   *)
(* and processRequest (request_handler.go) and the dispatch of             *)
(* ProcessRequest (request_processor.go) to its response, and the record   *)
(* of it (request_record.go) that a goroutine saves afterwards.            *)
(*                                                                         *)
(* What a submission does inside "send" is TxRelay; what is left of it     *)
(* here is how long it takes, which nothing bounds, and the flags it       *)
(* leaves in the entry of the record.                                      *)
(***************************************************************************)
EXTENDS RpcCache

CONSTANTS
    ProxyTimeout,   \* PROXY_TIMEOUT_SECONDS, the timeout of the node's client
    ServerFaults    \* what may go wrong: "db", "node", "bind", "start"

ASSUME HandlerAssumption == ProxyTimeout \in Nat

Method == {"eth_sendRawTransaction", "eth_sendPrivateTransaction",
           "web3_clientVersion", "eth_getTransactionReceipt", "other"}
Submission == {"eth_sendRawTransaction", "eth_sendPrivateTransaction"}

VARIABLES
    method,         \* the method of a request
    stage,          \* where its handler is
    proxyLeft,      \* time left of its call to the node
    answer,         \* the response: whose id it carries; its age, if cached
    valid,          \* its entry is one getValidRawTxEntriesToSave returns
    saver,          \* the goroutine of finishRequest
    dbRequests,     \* rows of rpc_endpoint_requests
    dbRawTxs,       \* rows of rpc_endpoint_eth_send_raw_txs
    dbErr           \* history: requests for which an insert failed

handler == <<method, stage, proxyLeft, answer, valid, cache>>
record == <<saver, dbRequests, dbRawTxs, dbErr>>

Stages == {"new", "process", "send", "cache", "proxy", "receipt", "done"}
NoAnswer == [id |-> Nobody, age |-> 0]

HandlerTypeOK ==
    /\ method \in [HttpReq -> Method]
    /\ stage \in [HttpReq -> Stages]
    /\ proxyLeft \in [HttpReq -> 0..ProxyTimeout]
    /\ answer \in [HttpReq -> [id : HttpReq \cup {Nobody}, age : Nat]]
    /\ valid \in [HttpReq -> BOOLEAN]
    /\ cache \in Cached
    /\ saver \in [HttpReq -> {"none", "saveRequest", "saveRawTx", "end"}]
    /\ dbRequests \subseteq HttpReq
    /\ dbRawTxs \subseteq HttpReq
    /\ dbErr \subseteq HttpReq

HandlerInit ==
    /\ method = [h \in HttpReq |-> "other"]
    /\ stage = [h \in HttpReq |-> "new"]
    /\ proxyLeft = [h \in HttpReq |-> 0]
    /\ answer = [h \in HttpReq |-> NoAnswer]
    /\ valid = [h \in HttpReq |-> FALSE]
    /\ cache = NoEntry
    /\ saver = [h \in HttpReq |-> "none"]
    /\ dbRequests = {}
    /\ dbRawTxs = {}
    /\ dbErr = {}

-----------------------------------------------------------------------------
\* Mutant: finishRequest is called at the end of process, not deferred.
FinishAtEnd(h, v, a) ==
    /\ stage' = [stage EXCEPT ![h] = "done"]
    /\ valid' = [valid EXCEPT ![h] = v]
    /\ answer' = [answer EXCEPT ![h] = a]
    /\ saver' = [saver EXCEPT ![h] =
           IF v /\ stage[h] # "process" THEN "saveRequest" ELSE "none"]
    /\ proxyLeft' = [proxyLeft EXCEPT ![h] = 0]
    /\ UNCHANGED <<method, dbRequests, dbRawTxs, dbErr>>

\* The handler writes its response and returns: the deferred finishRequest
\* starts the goroutine of SaveRecord, which has nothing to do without a valid
\* entry.
Finish(h, v, a) ==
    /\ stage' = [stage EXCEPT ![h] = "done"]
    /\ valid' = [valid EXCEPT ![h] = v]
    /\ answer' = [answer EXCEPT ![h] = a]
    /\ saver' = [saver EXCEPT ![h] = IF v THEN "saveRequest" ELSE "none"]
    /\ proxyLeft' = [proxyLeft EXCEPT ![h] = 0]
    /\ UNCHANGED <<method, dbRequests, dbRawTxs, dbErr>>

Own(h) == [id |-> h, age |-> 0]

\* The body could not be read, is empty or is no JSON (status 400); or it is
\* null, or an eth_call or a submission whose parameter has the wrong type, and
\* the handler panics, which net/http turns into a closed connection.  No
\* JSON-RPC response.
NoResponse(h) ==
    /\ stage[h] = "process"
    /\ Finish(h, FALSE, NoAnswer)
    /\ UNCHANGED cache

\* Invalid URL parameters, before there is an entry.
BadParameters(h) ==
    /\ stage[h] = "process"
    /\ Finish(h, FALSE, Own(h))
    /\ UNCHANGED cache

\* getValidRawTxEntriesToSave asks for an error code, or that the transaction
\* was sent to the relay or the mempool.  writeRpcError notes the error code in
\* the entry of eth_sendRawTransaction only.
Valid(h, error, sent) ==
    (error /\ method[h] = "eth_sendRawTransaction") \/ sent

\* An invalid X-Flashbots-Signature, after the entry was added.
BadSignature(h) ==
    /\ stage[h] = "process"
    /\ Finish(h, Valid(h, TRUE, FALSE), Own(h))
    /\ UNCHANGED cache

\* ProcessRequest: the request is answered here (net_version, a balance for a
\* bundle, an intercepted eth_call or eth_getTransactionCount), ...
AnswerLocally(h) ==
    /\ stage[h] = "process"
    /\ method[h] = "other"
    /\ Finish(h, FALSE, Own(h))
    /\ UNCHANGED cache

\* ... or handed to the submission handlers, the cache or the node.
Dispatch(h) ==
    /\ stage[h] = "process"
    /\ stage' = [stage EXCEPT ![h] =
           CASE method[h] \in Submission -> "send"
             [] method[h] = "web3_clientVersion" -> "cache"
             [] OTHER -> "proxy"]
    /\ proxyLeft' = [proxyLeft EXCEPT ![h] =
           IF method[h] \in Submission THEN 0 ELSE ProxyTimeout]
    /\ UNCHANGED <<method, answer, valid, cache, record>>

\* The handlers of TxRelay return: with an error, before or after the relay was
\* called, with the transaction sent, or with neither (blocked, cancelled,
\* collected in a bundle).
SendReturns(h) ==
    /\ stage[h] = "send"
    /\ \E error, sent \in BOOLEAN : Finish(h, Valid(h, error, sent), Own(h))
    /\ UNCHANGED cache

\* rpcCache.Get
AskCache(h) ==
    /\ stage[h] = "cache"
    /\ \/ /\ CacheHit
          /\ Finish(h, FALSE, [id |-> cache.id, age |-> cache.age])
          /\ UNCHANGED cache
       \/ /\ CacheMiss
          /\ stage' = [stage EXCEPT ![h] = "proxy"]
          /\ UNCHANGED <<method, proxyLeft, answer, valid, record>>

\* proxyRequestRead succeeds; the node repeats the id.  The node took its answer
\* at some moment since the call; rpcCache.Set stamps it with the present one.
ProxyReply(h) ==
    /\ stage[h] = "proxy"
    /\ \E age \in 0..(ProxyTimeout - proxyLeft[h]) :
          /\ Finish(h, FALSE, Own(h))
          /\ IF method[h] = "web3_clientVersion" THEN CacheSet(h, age)
                                                 ELSE UNCHANGED cache

\* The node has no receipt: check_post_getTransactionReceipt begins.
NullReceipt(h) ==
    /\ stage[h] = "proxy"
    /\ method[h] = "eth_getTransactionReceipt"
    /\ stage' = [stage EXCEPT ![h] = "receipt"]
    /\ proxyLeft' = [proxyLeft EXCEPT ![h] = 0]
    /\ UNCHANGED <<method, answer, valid, cache, record>>

\* It has asked the status API, which has no timeout, and Redis (NonceFix has
\* what it does there), and the node's answer is the response; or the hash is
\* no string, and the handler panics.
ReceiptChecked(h) ==
    /\ stage[h] = "receipt"
    /\ \E a \in {Own(h), NoAnswer} : Finish(h, FALSE, a)
    /\ UNCHANGED cache

\* An error of the node's server, an unreadable answer, or the timeout.
ProxyFails(h) ==
    /\ stage[h] = "proxy"
    /\ "node" \in ServerFaults \/ proxyLeft[h] = 0
    /\ Finish(h, FALSE, Own(h))
    /\ UNCHANGED cache

Handle(h) ==
    \/ NoResponse(h) \/ BadParameters(h) \/ BadSignature(h) \/ AnswerLocally(h)
    \/ Dispatch(h) \/ SendReturns(h) \/ AskCache(h)
    \/ ProxyReply(h) \/ NullReceipt(h) \/ ReceiptChecked(h) \/ ProxyFails(h)

-----------------------------------------------------------------------------
\* Mutant: the raw transactions are saved first.
SaveRequestEntrySecond(h) ==
    /\ saver[h] = "saveRequest"
    /\ dbRawTxs' = dbRawTxs \cup {h}
    /\ saver' = [saver EXCEPT ![h] = "saveRawTx"]
    /\ UNCHANGED <<dbRequests, dbErr>>

\* SaveRecord inserts the request, ...
SaveRequestEntry(h) ==
    /\ saver[h] = "saveRequest"
    /\ dbRequests' = dbRequests \cup {h}
    /\ saver' = [saver EXCEPT ![h] = "saveRawTx"]
    /\ UNCHANGED <<dbRawTxs, dbErr>>

\* ... then its transactions.
SaveRawTxEntries(h) ==
    /\ saver[h] = "saveRawTx"
    /\ dbRawTxs' = dbRawTxs \cup {h}
    /\ saver' = [saver EXCEPT ![h] = "end"]
    /\ UNCHANGED <<dbRequests, dbErr>>

\* An insert fails or exceeds its 10 seconds, after taking effect or not; the
\* error is logged and the rest of the record is given up.
SaveFails(h) ==
    /\ "db" \in ServerFaults
    /\ dbErr' = dbErr \cup {h}
    /\ saver' = [saver EXCEPT ![h] = "end"]
    /\ \/ /\ saver[h] = "saveRequest"
          /\ dbRequests' \in {dbRequests, dbRequests \cup {h}}
          /\ UNCHANGED dbRawTxs
       \/ /\ saver[h] = "saveRawTx"
          /\ dbRawTxs' \in {dbRawTxs, dbRawTxs \cup {h}}
          /\ UNCHANGED dbRequests

SaveRecord(h) ==
    /\ SaveRequestEntry(h) \/ SaveRawTxEntries(h) \/ SaveFails(h)
    /\ UNCHANGED handler

-----------------------------------------------------------------------------
\* A response that carries another request's id comes from the cache: it only
\* ever answers web3_clientVersion, with what the node said at most the ttl and
\* one call's timeout before, however Get and Set of concurrent requests
\* interleave and in whatever order the node's answers arrive.
CachedAnswerAge ==
    \A h \in HttpReq : answer[h].id \notin {h, Nobody} =>
        /\ method[h] = "web3_clientVersion"
        /\ method[answer[h].id] = "web3_clientVersion"
        /\ answer[h].age <= CacheTTL + ProxyTimeout

\* rpc_endpoint_eth_send_raw_txs never refers to a request that is missing from
\* rpc_endpoint_requests, whichever insert fails and whenever the process ends;
\* and only valid entries of submissions are ever inserted.
RawTxsHaveRequest ==
    /\ dbRawTxs \subseteq dbRequests
    /\ \A h \in dbRequests : valid[h] /\ method[h] \in Submission

\* No record is dropped on the way: as soon as a submission with a valid entry is
\* answered its goroutine is there, and that gives up only after an insert
\* failed, whatever else the process does; when it ends without, both rows are in
\* the database.
RecordNotDropped ==
    \A h \in HttpReq : stage[h] = "done" /\ valid[h] =>
        \/ saver[h] = "saveRequest"
        \/ saver[h] = "saveRawTx" /\ h \in dbRequests
        \/ saver[h] = "end" /\ h \in dbErr \cup (dbRequests \cap dbRawTxs)
=============================================================================
