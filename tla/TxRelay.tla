------------------------------- MODULE TxRelay -------------------------------
(***************************************************************************)
(* Submission and cancellation of private transactions: what one HTTP      *)
(* request does from handle_sendRawTransaction (request_sendrawtx.go) to   *)
(* its response, through handleCancelTx and sendTxToRelay                  *)
(* (request_processor.go), while other requests do the same and time       *)
(* passes.  One action is one Redis command or one call to another         *)
(* service, with the local code up to the next one.                        *)
(*                                                                         *)
(* The relay, the Ethereum node and the transaction-status API are         *)
(* external.  They may answer with an error when Faults names them.        *)
(***************************************************************************)
EXTENDS RedisState, Integers

CONSTANTS
    Req,            \* HTTP requests; each is made once, a retry is another one
    Options,        \* what a request can ask for besides its transaction
    CancelTx,       \* sent to oneself with (almost) no data
    ZeroTipTx,      \* gas tip cap 0
    OversizeTx,     \* over 128 KB, no blob, target not allow-listed
    OFACTx,         \* from or to an address on the OFAC list
    BlockedTx,      \* hashes under the blocked-tx-hash prefix
    NonceLimit,     \* the 1e9 of request_sendrawtx.go:78
    ResendAfter,    \* the 5 minutes of blockResendingTxToRelay
    DebugModes,     \* the values DebugDontSendTx is started with
    MaxMined        \* bound: the node counts at most this many transactions

OptionType == [method : {"eth_sendRawTransaction", "eth_sendPrivateTransaction"},
               bundle : BOOLEAN,        \* ?bundle=... was given
               useMempool : BOOLEAN,    \* ?useMempool=true
               blockRange : Nat,        \* ?blockRange=..., 0 if not given
               maxBlock : BOOLEAN]      \* maxBlockNumberOverride > 0

ASSUME RelayAssumption ==
    /\ Options \subseteq OptionType /\ DebugModes \subseteq BOOLEAN
    /\ CancelTx \cup ZeroTipTx \cup OversizeTx \cup OFACTx \cup BlockedTx \subseteq Tx
    /\ NonceLimit \in Nat /\ ResendAfter \in Nat /\ MaxMined \in Nat

VARIABLES
    debug,          \* DebugDontSendTx, read once at start-up
    tx,             \* the transaction of a request, Nil if it does not decode
    opt,            \* its options
    pc,             \* the command or call it makes next
    jsonRes,        \* the response it has so far
    entry,          \* the flags set in its ethSendRawTxEntry
    initialTx,      \* handleCancelTx: initialTxHash
    timeSent,       \* blockResendingTxToRelay: timeSent
    minNonce,       \* GetAddressNonceRange: minNonce
    setMax          \* the goroutine running SetSenderMaxNonce

\* What the other services have seen.
VARIABLES
    mined,          \* node: how many transactions of an account are mined
    relayed,        \* relay: requests whose transaction it accepted
    cancelled,      \* relay: requests whose cancellation it accepted
    mempooled,      \* node: requests whose cancel-tx went to the mempool
    bundled         \* Redis list: requests whose transaction joined a bundle

\* History, never read by the program.
VARIABLES
    markedUntil,    \* when the request's own tx-sent-to-relay mark expires
    passedBy,       \* why blockResendingTxToRelay let the request pass
    dup,            \* whether another request's mark was live at that check
    skippedRange    \* requests whose nonce was not checked

request == <<tx, opt, debug>>
control == <<pc, jsonRes, entry>>
locals  == <<initialTx, timeSent, minNonce>>
services == <<mined, relayed, cancelled, mempooled, bundled>>
history == <<markedUntil, passedBy, dup, skippedRange>>
vars == <<now, redis, request, control, locals, setMax, services, history>>

Labels == {"idle", "setNonce", "addToBundle",
           "getInitial", "getInitialSent", "getCancelSent", "setCancelSent",
           "sendMempool", "cancelAtRelay",
           "getSent", "getStatus", "setSent", "getMinNonce", "getMaxNonce",
           "setTxHash", "getBlockNumber", "sendToRelay", "done", "panic"}
Flags == {"sentToRelay", "isBlocked", "isCancelTx", "error"}
Reasons == {"none", "notSent", "redisErr", "statusErr", "FAILED", "UNKNOWN"}

RequestTypeOK ==
    /\ debug \in BOOLEAN
    /\ tx \in [Req -> Tx \cup {Nil}]
    /\ opt \in [Req -> Options]
    /\ pc \in [Req -> Labels]
    /\ jsonRes \in [Req -> {"none", "error", "txHash", "initialTxHash"}]
    /\ entry \in [Req -> SUBSET Flags]
    /\ \A r \in Req : tx[r] = Nil => pc[r] \in {"idle", "done", "panic"}

LocalTypeOK ==
    /\ initialTx \in [Req -> Tx \cup {Nil}]
    /\ timeSent \in [Req -> Nat]
    /\ minNonce \in [Req -> Nat]
    /\ setMax \in [Req -> {"none", "get", "set", "end"}]
    /\ \A r \in Req : tx[r] = Nil => setMax[r] = "none"

OutsideTypeOK ==
    /\ mined \in [Account -> Nat]
    /\ relayed \subseteq Req /\ cancelled \subseteq Req
    /\ mempooled \subseteq Req /\ bundled \subseteq Req
    /\ markedUntil \in [Req -> Nat]
    /\ passedBy \in [Req -> Reasons]
    /\ dup \in [Req -> BOOLEAN]
    /\ skippedRange \subseteq Req

\* The type invariant of the handlers' state.
TypeOK == RedisTypeOK /\ RequestTypeOK /\ LocalTypeOK /\ OutsideTypeOK

Init ==
    /\ RedisInit
    /\ debug \in DebugModes
    /\ tx \in [Req -> Tx \cup {Nil}]
    /\ opt \in [Req -> Options]
    /\ pc = [r \in Req |-> "idle"]
    /\ jsonRes = [r \in Req |-> "none"]
    /\ entry = [r \in Req |-> {}]
    /\ initialTx = [r \in Req |-> Nil]
    /\ timeSent = [r \in Req |-> 0]
    /\ minNonce = [r \in Req |-> 0]
    /\ setMax = [r \in Req |-> "none"]
    /\ mined = [a \in Account |-> 0]
    /\ relayed = {} /\ cancelled = {} /\ mempooled = {} /\ bundled = {}
    /\ markedUntil = [r \in Req |-> 0]
    /\ passedBy = [r \in Req |-> "none"]
    /\ dup = [r \in Req |-> FALSE]
    /\ skippedRange = {}

-----------------------------------------------------------------------------
(* Responses and control flow of one request. *)

Sender(r) == TxFrom[tx[r]]
Nonce(r) == TxNonce[tx[r]]

Goto(r, label) ==
    /\ pc' = [pc EXCEPT ![r] = label]
    /\ UNCHANGED <<jsonRes, entry>>

\* writeRpcError records the error in the entry for eth_sendRawTransaction only.
ErrorFlag(r) ==
    IF opt[r].method = "eth_sendRawTransaction" THEN {"error"} ELSE {}

\* writeRpcError(...); return
Fail(r) ==
    /\ pc' = [pc EXCEPT ![r] = "done"]
    /\ jsonRes' = [jsonRes EXCEPT ![r] = "error"]
    /\ entry' = [entry EXCEPT ![r] = @ \cup ErrorFlag(r)]

\* writeRpcResult(res); return
Succeed(r, res) ==
    /\ pc' = [pc EXCEPT ![r] = "done"]
    /\ jsonRes' = [jsonRes EXCEPT ![r] = res]
    /\ UNCHANGED entry

\* A cancel-tx without an initial transaction at the relay is sent like any
\* other: IsCancelTx is taken back and sendTxToRelay called.
NotACancellation(r) ==
    /\ pc' = [pc EXCEPT ![r] = "getSent"]
    /\ entry' = [entry EXCEPT ![r] = @ \ {"isCancelTx"}]
    /\ UNCHANGED jsonRes

-----------------------------------------------------------------------------
(* handle_sendRawTransaction *)

\* Mutant: the return after the error is missing.
RejectUndecodableNoReturn(r) ==
    /\ pc[r] = "idle" /\ tx[r] = Nil
    /\ pc' = [pc EXCEPT ![r] = "getSent"]
    /\ jsonRes' = [jsonRes EXCEPT ![r] = "error"]
    /\ entry' = [entry EXCEPT ![r] = @ \cup ErrorFlag(r)]
    /\ UNCHANGED <<now, redis, request, locals, setMax, services, history>>

\* No parameter, a string of the wrong length, not a transaction, no sender.
RejectUndecodable(r) ==
    /\ pc[r] = "idle" /\ tx[r] = Nil
    /\ Fail(r)
    /\ UNCHANGED <<now, redis, request, locals, setMax, services, history>>

\* The type assertion on a parameter that is no string panics and net/http
\* closes the connection; a nil parameter has been reported before, without
\* returning.
PanicOnParameter(r) ==
    /\ pc[r] = "idle" /\ tx[r] = Nil
    /\ pc' = [pc EXCEPT ![r] = "panic"]
    /\ \/ /\ jsonRes' = [jsonRes EXCEPT ![r] = "error"]
          /\ entry' = [entry EXCEPT ![r] = @ \cup ErrorFlag(r)]
       \/ UNCHANGED <<jsonRes, entry>>
    /\ UNCHANGED <<now, redis, request, locals, setMax, services, history>>

\* From the OFAC check on: bundle, cancellation, underpriced, or to the relay.
Dispatch(r) ==
    CASE tx[r] \in OFACTx -> Fail(r)
      [] tx[r] \notin OFACTx /\ opt[r].bundle -> Goto(r, "addToBundle")
      [] tx[r] \notin OFACTx /\ ~opt[r].bundle /\ tx[r] \in CancelTx ->
             /\ pc' = [pc EXCEPT ![r] = "getInitial"]
             /\ entry' = [entry EXCEPT ![r] = @ \cup {"isCancelTx"}]
             /\ UNCHANGED jsonRes
      [] OTHER -> IF tx[r] \in ZeroTipTx THEN Fail(r) ELSE Goto(r, "getSent")

\* The nonce limit and GetBlockedTxHash, whose error counts as "not blocked";
\* then the first command of SetSenderAndNonceOfTxHash.  When that one fails
\* the second is not issued; the caller ignores the error.  (No handler writes
\* a blocked hash, so the look-up needs no step of its own.)
Receive(r) ==
    /\ pc[r] = "idle" /\ tx[r] # Nil
    /\ \/ /\ Nonce(r) >= NonceLimit \/ tx[r] \in BlockedTx
          /\ Fail(r)
          /\ UNCHANGED redis
       \/ /\ Nonce(r) < NonceLimit
          /\ tx[r] \in BlockedTx => "redisGet" \in Faults
          /\ \/ SetSenderOfTxHash(tx[r]) /\ Goto(r, "setNonce")
             \/ RedisErr /\ Dispatch(r)
    /\ UNCHANGED <<now, request, locals, setMax, services, history>>

\* Mutant: the hash is made available to handleCancelTx before any check.
RememberNonceAndHash(r) ==
    /\ pc[r] = "setNonce"
    /\ SetTxHashForSenderAndNonce(SlotOf(tx[r]), tx[r])
    /\ Dispatch(r)
    /\ UNCHANGED <<now, request, locals, setMax, services, history>>

RememberNonce(r) ==
    /\ pc[r] = "setNonce"
    /\ SetNonceOfTxHash(tx[r]) \/ RedisErr
    /\ Dispatch(r)
    /\ UNCHANGED <<now, request, locals, setMax, services, history>>

\* Mutant: the return after a successful AddTxToWhitehatBundle is missing.
AddToBundleAndSend(r) ==
    /\ pc[r] = "addToBundle"
    /\ Goto(r, "getSent") /\ bundled' = bundled \cup {r}
    /\ UNCHANGED <<now, redis, request, locals, setMax, history,
                   mined, relayed, cancelled, mempooled>>

\* AddTxToWhitehatBundle, of which only the outcome matters here: it fails with
\* its first write, or with a later one when the transaction is on the list.
AddToBundle(r) ==
    /\ pc[r] = "addToBundle"
    /\ \/ Succeed(r, "txHash") /\ bundled' = bundled \cup {r}
       \/ /\ "bundle" \in Faults
          /\ Fail(r)
          /\ bundled' \in {bundled, bundled \cup {r}}
    /\ UNCHANGED <<now, redis, request, locals, setMax, history,
                   mined, relayed, cancelled, mempooled>>

-----------------------------------------------------------------------------
(* handleCancelTx *)

\* Mutant: whether the initial transaction was sent is not looked up.
GetInitialUnchecked(r) ==
    /\ pc[r] = "getInitial"
    /\ LET e == txHashForSenderAndNonce[SlotOf(tx[r])] IN
       \/ /\ ~Found(e)
          /\ NotACancellation(r)
          /\ UNCHANGED initialTx
       \/ /\ Found(e)
          /\ initialTx' = [initialTx EXCEPT ![r] = e.val]
          /\ Goto(r, "getCancelSent")
    /\ UNCHANGED <<now, redis, request, timeSent, minNonce, setMax, services, history>>

GetInitial(r) ==
    /\ pc[r] = "getInitial"
    /\ LET e == txHashForSenderAndNonce[SlotOf(tx[r])] IN
       \/ /\ ~Found(e)
          /\ NotACancellation(r)
          /\ UNCHANGED initialTx
       \/ /\ Found(e)
          /\ initialTx' = [initialTx EXCEPT ![r] = e.val]
          /\ Goto(r, "getInitialSent")
       \/ /\ "redisGet" \in Faults
          /\ Fail(r)
          /\ UNCHANGED initialTx
    /\ UNCHANGED <<now, redis, request, timeSent, minNonce, setMax, services, history>>

GetInitialSent(r) ==
    /\ pc[r] = "getInitialSent"
    /\ LET e == txSentToRelay[initialTx[r]] IN
       \/ ~Found(e) /\ NotACancellation(r)
       \/ Found(e) /\ Goto(r, "getCancelSent")
       \/ "redisGet" \in Faults /\ Fail(r)
    /\ UNCHANGED <<now, redis, request, locals, setMax, services, history>>

\* Mutant: the hash of the initial transaction is looked up twice.
GetCancelSentOfInitial(r) ==
    /\ pc[r] = "getCancelSent"
    /\ LET e == txSentToRelay[initialTx[r]] IN
       \/ Found(e) /\ Succeed(r, "txHash")
       \/ ~Found(e) /\ Goto(r, "setCancelSent")
    /\ UNCHANGED <<now, redis, request, locals, setMax, services, history>>

GetCancelSent(r) ==
    /\ pc[r] = "getCancelSent"
    /\ LET e == txSentToRelay[tx[r]] IN
       \/ Found(e) /\ Succeed(r, "txHash")
       \/ ~Found(e) /\ Goto(r, "setCancelSent")
       \/ "redisGet" \in Faults /\ Fail(r)
    /\ UNCHANGED <<now, redis, request, locals, setMax, services, history>>

\* RState.SetTxSentToRelay, whose error is only logged.
MarkSent(r) ==
    \/ /\ SetTxSentToRelay(tx[r])
       /\ markedUntil' = [markedUntil EXCEPT ![r] = now + KeyTTL]
    \/ RedisErr /\ UNCHANGED markedUntil

SetCancelSent(r) ==
    /\ pc[r] = "setCancelSent"
    /\ MarkSent(r)
    /\ IF debug THEN Succeed(r, "initialTxHash")
       ELSE Goto(r, IF opt[r].useMempool THEN "sendMempool" ELSE "cancelAtRelay")
    /\ UNCHANGED <<now, request, locals, setMax, services,
                   passedBy, dup, skippedRange>>

\* Mutant: the caller is told that nothing was cancelled, and goes on to
\* sendTxToRelay.
SendMempoolAndSubmit(r) ==
    /\ pc[r] = "sendMempool"
    /\ Goto(r, "getSent") /\ mempooled' = mempooled \cup {r}
    /\ UNCHANGED <<now, redis, request, locals, setMax, history,
                   mined, relayed, cancelled, bundled>>

\* The cancel-tx is in the mempool, or Dial or SendTransaction fails, the latter
\* perhaps because its answer is lost.
SendMempool(r) ==
    /\ pc[r] = "sendMempool"
    /\ \/ Goto(r, "cancelAtRelay") /\ mempooled' = mempooled \cup {r}
       \/ /\ "node" \in Faults
          /\ Fail(r)
          /\ mempooled' \in {mempooled, mempooled \cup {r}}
    /\ UNCHANGED <<now, redis, request, locals, setMax, history,
                   mined, relayed, cancelled, bundled>>

\* The relay accepts, refuses, or accepts and its answer is lost.
CancelAtRelay(r) ==
    /\ pc[r] = "cancelAtRelay"
    /\ \/ Succeed(r, "txHash") /\ cancelled' = cancelled \cup {r}
       \/ /\ "relay" \in Faults
          /\ Fail(r)
          /\ cancelled' \in {cancelled, cancelled \cup {r}}
    /\ UNCHANGED <<now, redis, request, locals, setMax, history,
                   mined, relayed, mempooled, bundled>>

-----------------------------------------------------------------------------
(* sendTxToRelay *)

\* Mutant: a Redis error blocks.
GetSentErrorBlocks(r) ==
    /\ pc[r] = "getSent"
    /\ Succeed(r, "txHash")
    /\ UNCHANGED <<now, redis, request, locals, setMax, services, history>>

\* Mutant: a lock on the transaction, held until the relay has answered, closes
\* the race between the check and the mark.
GetSentLocked(r) ==
    /\ pc[r] = "getSent"
    /\ \A q \in Req \ {r} : tx[q] = tx[r] =>
          pc[q] \notin {"setSent", "getMinNonce", "getMaxNonce", "setTxHash",
                        "getBlockNumber", "sendToRelay"}
    /\ Goto(r, "setSent")
    /\ UNCHANGED <<now, redis, request, locals, setMax, services, history>>

\* blockResendingTxToRelay, first half: a Redis error does not block.
GetSent(r) ==
    /\ pc[r] = "getSent"
    /\ dup' = [dup EXCEPT ![r] =
           \E q \in Req : tx[q] = tx[r] /\ markedUntil[q] > now]
    /\ LET e == txSentToRelay[tx[r]] IN
       \/ /\ ~Found(e)
          /\ passedBy' = [passedBy EXCEPT ![r] = "notSent"]
          /\ Goto(r, "setSent")
          /\ UNCHANGED timeSent
       \/ /\ Found(e)
          /\ timeSent' = [timeSent EXCEPT ![r] = e.val]
          /\ Goto(r, "getStatus")
          /\ UNCHANGED passedBy
       \/ /\ "redisGet" \in Faults
          /\ passedBy' = [passedBy EXCEPT ![r] = "redisErr"]
          /\ Goto(r, "setSent")
          /\ UNCHANGED timeSent
    /\ UNCHANGED <<now, redis, request, initialTx, minNonce, setMax, services,
                   markedUntil, skippedRange>>

\* Mutant: an unknown status is asked for again until it is known.
GetStatusPolling(r) ==
    /\ pc[r] = "getStatus"
    /\ Goto(r, "getSent") \/ Succeed(r, "txHash")
    /\ timeSent' = [timeSent EXCEPT ![r] = 0]
    /\ UNCHANGED <<now, redis, request, initialTx, minNonce, setMax, services,
                   history>>

\* Second half: GetTxStatus.  Blocked, the request is answered like a success.
GetStatus(r) ==
    /\ pc[r] = "getStatus"
    /\ \/ \E s \in {"FAILED", "UNKNOWN", "statusErr"} :
             /\ s = "UNKNOWN" => now - timeSent[r] >= ResendAfter
             /\ s = "statusErr" => "status" \in Faults
             /\ passedBy' = [passedBy EXCEPT ![r] = s]
             /\ Goto(r, "setSent")
       \/ \E s \in {"PENDING", "INCLUDED", "UNKNOWN"} :
             /\ s = "UNKNOWN" => now - timeSent[r] < ResendAfter
             /\ pc' = [pc EXCEPT ![r] = "done"]
             /\ jsonRes' = [jsonRes EXCEPT ![r] = "txHash"]
             /\ entry' = [entry EXCEPT ![r] = @ \cup {"isBlocked"}]
             /\ UNCHANGED passedBy
    /\ timeSent' = [timeSent EXCEPT ![r] = 0]
    /\ UNCHANGED <<now, redis, request, initialTx, minNonce, setMax, services,
                   markedUntil, dup, skippedRange>>

SetSent(r) ==
    /\ pc[r] = "setSent"
    /\ MarkSent(r)
    /\ pc' = [pc EXCEPT ![r] = "getMinNonce"]
    /\ entry' = [entry EXCEPT ![r] = @ \cup {"sentToRelay"}]
    /\ UNCHANGED <<now, request, jsonRes, locals, setMax, services,
                   passedBy, dup, skippedRange>>

\* Mutant: large transactions go to every target.
AdmitAnySize(r) ==
    /\ setMax' = [setMax EXCEPT ![r] = "get"]
    /\ Goto(r, "setTxHash")

\* Past the nonce check: SetSenderMaxNonce starts in the background, before
\* the size check can still refuse the transaction.
Admit(r) ==
    /\ setMax' = [setMax EXCEPT ![r] = "get"]
    /\ IF tx[r] \in OversizeTx THEN Fail(r) ELSE Goto(r, "setTxHash")

\* GetAddressNonceRange: the node's count, which may lag; when the call fails
\* the range is not checked.
GetMinNonce(r) ==
    /\ pc[r] = "getMinNonce"
    /\ \/ \E n \in 0..mined[Sender(r)] :
             /\ minNonce' = [minNonce EXCEPT ![r] = n]
             /\ Goto(r, "getMaxNonce")
             /\ UNCHANGED <<setMax, skippedRange>>
       \/ /\ "node" \in Faults
          /\ skippedRange' = skippedRange \cup {r}
          /\ Admit(r)
          /\ UNCHANGED minNonce
    /\ UNCHANGED <<now, redis, request, initialTx, timeSent, services,
                   markedUntil, passedBy, dup>>

\* An answer that is no string (a JSON-RPC error of the node): writeRpcError
\* is called, the error returned, and the caller carries on regardless.
GetMinNonceUnreadable(r) ==
    /\ pc[r] = "getMinNonce" /\ "node" \in Faults
    /\ skippedRange' = skippedRange \cup {r}
    /\ setMax' = [setMax EXCEPT ![r] = "get"]
    /\ pc' = [pc EXCEPT ![r] = IF tx[r] \in OversizeTx THEN "done" ELSE "setTxHash"]
    /\ jsonRes' = [jsonRes EXCEPT ![r] = "error"]
    /\ entry' = [entry EXCEPT ![r] = @ \cup ErrorFlag(r)]
    /\ UNCHANGED <<now, redis, request, locals, services, markedUntil, passedBy, dup>>

\* Mutant: one nonce too many.
InRangePlusTwo(r, redisMax) ==
    LET maxNonce == IF redisMax > minNonce[r] THEN redisMax ELSE minNonce[r]
    IN  Nonce(r) >= minNonce[r] /\ Nonce(r) <= maxNonce + 2

\* maxNonce := Max(minNonce, GetSenderMaxNonce), which reads 0 when the key is
\* not there or Redis fails; then the nonce check of sendTxToRelay.
InRange(r, redisMax) ==
    LET maxNonce == IF redisMax > minNonce[r] THEN redisMax ELSE minNonce[r]
    IN  Nonce(r) >= minNonce[r] /\ Nonce(r) <= maxNonce + 1

\* Mutant: the check is skipped when Redis fails.
GetMaxNonceErrorAdmits(r) ==
    /\ pc[r] = "getMaxNonce" /\ "redisGet" \in Faults
    /\ Admit(r)
    /\ minNonce' = [minNonce EXCEPT ![r] = 0]
    /\ UNCHANGED <<now, redis, request, initialTx, timeSent, services, history>>

GetMaxNonce(r) ==
    /\ pc[r] = "getMaxNonce"
    /\ \E m \in {IF Found(senderMaxNonce[Sender(r)])
                 THEN senderMaxNonce[Sender(r)].val ELSE 0}
                \cup (IF "redisGet" \in Faults THEN {0} ELSE {}) :
          IF InRange(r, m) THEN Admit(r) ELSE Fail(r) /\ UNCHANGED setMax
    /\ minNonce' = [minNonce EXCEPT ![r] = 0]
    /\ UNCHANGED <<now, redis, request, initialTx, timeSent, services, history>>

\* The hash is remembered before the relay has been called.
SetTxHash(r) ==
    /\ pc[r] = "setTxHash"
    /\ SetTxHashForSenderAndNonce(SlotOf(tx[r]), tx[r]) \/ RedisErr
    /\ IF debug THEN Succeed(r, "txHash")
       ELSE Goto(r, IF opt[r].blockRange > 0 /\ ~opt[r].maxBlock
                    THEN "getBlockNumber" ELSE "sendToRelay")
    /\ UNCHANGED <<now, request, locals, setMax, services, history>>

GetBlockNumber(r) ==
    /\ pc[r] = "getBlockNumber"
    /\ Goto(r, "sendToRelay") \/ ("node" \in Faults /\ Fail(r))
    /\ UNCHANGED <<now, redis, request, locals, setMax, services, history>>

\* eth_sendPrivateTransaction: accepted, refused, or accepted and the answer
\* lost.
SendToRelay(r) ==
    /\ pc[r] = "sendToRelay"
    /\ \/ Succeed(r, "txHash") /\ relayed' = relayed \cup {r}
       \/ /\ "relay" \in Faults
          /\ Fail(r)
          /\ relayed' \in {relayed, relayed \cup {r}}
    /\ UNCHANGED <<now, redis, request, locals, setMax, history,
                   mined, cancelled, mempooled, bundled>>

-----------------------------------------------------------------------------
(* SetSenderMaxNonce, run by a goroutine of its own *)

SetMaxGet(r) ==
    /\ setMax[r] = "get"
    /\ LET e == senderMaxNonce[Sender(r)] IN
       \/ /\ Found(e) => e.val < Nonce(r)
          /\ setMax' = [setMax EXCEPT ![r] = "set"]
       \/ /\ (Found(e) /\ e.val >= Nonce(r)) \/ "redisGet" \in Faults
          /\ setMax' = [setMax EXCEPT ![r] = "end"]
    /\ UNCHANGED <<now, redis, request, control, locals, services, history>>

SetMaxSet(r) ==
    /\ setMax[r] = "set"
    /\ PutSenderMaxNonce(Sender(r), Nonce(r), opt[r].blockRange) \/ RedisErr
    /\ setMax' = [setMax EXCEPT ![r] = "end"]
    /\ UNCHANGED <<now, request, control, locals, services, history>>

-----------------------------------------------------------------------------

\* The node counts one more mined transaction of account a.
Mine(a) ==
    /\ mined[a] < MaxMined
    /\ mined' = [mined EXCEPT ![a] = @ + 1]
    /\ UNCHANGED <<now, redis, request, control, locals, setMax, history,
                   relayed, cancelled, mempooled, bundled>>

TimePasses ==
    /\ Tick
    /\ UNCHANGED <<request, control, locals, setMax, services, history>>

Ended(r) == pc[r] \in {"done", "panic"}

\* Every request has been answered and its goroutine has ended: the model has
\* no more of them, which is no deadlock.
AllEnded ==
    /\ \A r \in Req : Ended(r) /\ setMax[r] \in {"none", "end"}
    /\ UNCHANGED vars

Cancelling(r) ==
    \/ GetInitial(r) \/ GetInitialSent(r) \/ GetCancelSent(r)
    \/ SetCancelSent(r) \/ SendMempool(r) \/ CancelAtRelay(r)

Sending(r) ==
    \/ GetSent(r) \/ GetStatus(r) \/ SetSent(r)
    \/ GetMinNonce(r) \/ GetMinNonceUnreadable(r) \/ GetMaxNonce(r)
    \/ SetTxHash(r) \/ GetBlockNumber(r) \/ SendToRelay(r)

Handle(r) ==
    \/ RejectUndecodable(r) \/ PanicOnParameter(r) \/ Receive(r)
    \/ RememberNonce(r) \/ AddToBundle(r)
    \/ Cancelling(r) \/ Sending(r)

SetSenderMaxNonce(r) == SetMaxGet(r) \/ SetMaxSet(r)

Next ==
    \/ \E r \in Req : Handle(r) \/ SetSenderMaxNonce(r)
    \/ \E a \in Account : Mine(a)
    \/ TimePasses
    \/ AllEnded

\* The calls that are made without a timeout: http.Get to the status API, the
\* ethclient with context.Background(), and flashbotsrpc.
Untimed == {"getStatus", "sendMempool", "getBlockNumber", "cancelAtRelay", "sendToRelay"}

\* A request that has arrived runs on, and so does its goroutine: the Redis client
\* and the proxy client have timeouts, so their calls return, with an answer or an
\* error.  The other calls may never return.
Fairness ==
    \A r \in Req : /\ WF_vars(pc[r] \notin Untimed \cup {"idle"} /\ Handle(r))
                   /\ WF_vars(SetSenderMaxNonce(r))

Spec == Init /\ [][Next]_vars
FairSpec == Spec /\ Fairness

-----------------------------------------------------------------------------
(* Properties *)

\* The request's nonce passed the check of sendTxToRelay or was not checked.
Admitted(r) == setMax[r] # "none"

\* The nonces admitted for an account leave no gap above the node's count: a
\* transaction may only run ahead of the chain behind others that run ahead of
\* it, although the pending maximum is read from Redis, written by goroutines
\* that race each other, and expires.  (The count itself may be missing: with
\* nothing pending the code admits count + 1.)  Accounts for which the node
\* once failed to answer are exempt, as the code then skips the check.
NoNonceGap ==
    \A r \in Req :
        (Admitted(r) /\ \A q \in skippedRange : Sender(q) # Sender(r)) =>
            \A k \in (mined[Sender(r)] + 1)..(Nonce(r) - 1) :
                \E q \in Req : Admitted(q) /\ Sender(q) = Sender(r) /\ Nonce(q) = k

\* blockResendingTxToRelay: a transaction that another request had already
\* marked as sent reaches the relay again only because Redis could not be
\* read, its status was FAILED or could not be read, or it was still UNKNOWN
\* after five minutes.
ResendNeedsReason ==
    \A r \in relayed : dup[r] =>
        passedBy[r] \in {"redisErr", "statusErr", "FAILED", "UNKNOWN"}

\* A request answered with a hash has had an effect, at the relay or in a
\* bundle, or stands on another request that marked the same transaction as
\* sent to the relay (a blocked resend, a repeated cancellation).
SuccessIsBacked ==
    \A r \in Req : (pc[r] = "done" /\ jsonRes[r] # "error" /\ ~debug) =>
        \/ r \in relayed \cup cancelled \cup bundled
        \/ \E q \in Req \ {r} : tx[q] = tx[r] /\ markedUntil[q] > 0

\* handleCancelTx asks the relay to cancel only a transaction of the same
\* sender with the same nonce that sendTxToRelay admitted and marked.
CancelTargetsAdmitted ==
    \A r \in cancelled :
        /\ SlotOf(initialTx[r]) = SlotOf(tx[r])
        /\ \E q \in Req : tx[q] = initialTx[r] /\ Admitted(q)
        /\ \E q \in Req : tx[q] = initialTx[r] /\ markedUntil[q] > 0

\* What reaches the relay went through every check of the handlers and is
\* recorded as sent; a cancellation, a bundle and a submission exclude each
\* other, and in debug mode nothing leaves the endpoint.
OnlyVettedRelayed ==
    /\ \A r \in relayed :
         /\ tx[r] \notin OFACTx \cup OversizeTx /\ Nonce(r) < NonceLimit
         /\ tx[r] \in ZeroTipTx => tx[r] \in CancelTx
         /\ "sentToRelay" \in entry[r] /\ Admitted(r)
         /\ r \notin cancelled \cup bundled \cup mempooled
    /\ debug => relayed \cup cancelled \cup mempooled = {}

\* A request that arrived ends, unless a call it makes without a timeout never
\* returns: neither Redis nor the node behind the proxy can keep it, and above all
\* no other request can, not even one for the same transaction or account that
\* hangs with its marks and its nonce in Redis.  The goroutine of SetSenderMaxNonce
\* ends in any case.  (No request that has arrived is idle again.)
HangsOnlyOutside ==
    \A r \in Req :
        <>[](/\ Ended(r) \/ pc[r] \in Untimed \cup {"idle"}
             /\ setMax[r] \in {"none", "end"})

\* The order in which a request makes its calls, and its goroutine its own.
CallRank ==
    [idle |-> 0, setNonce |-> 1, addToBundle |-> 2, getInitial |-> 2,
     getInitialSent |-> 3, getCancelSent |-> 4, setCancelSent |-> 5,
     sendMempool |-> 6, cancelAtRelay |-> 7, getSent |-> 8, getStatus |-> 9,
     setSent |-> 10, getMinNonce |-> 11, getMaxNonce |-> 12, setTxHash |-> 13,
     getBlockNumber |-> 14, sendToRelay |-> 15, done |-> 16, panic |-> 16]
GoRank == [none |-> 0, get |-> 1, set |-> 2, end |-> 3]

Advances(r) ==
    \/ /\ CallRank[pc[r]] < CallRank[pc'[r]]
       /\ GoRank[setMax[r]] <= GoRank[setMax'[r]]
    \/ pc'[r] = pc[r] /\ GoRank[setMax[r]] < GoRank[setMax'[r]]

\* Nobody retries without end: no request or goroutine ever returns to a call it
\* has made, also not where handleCancelTx hands over to sendTxToRelay, a request
\* starts its goroutine once, and every step but those of the clock and the chain
\* takes one of them further.  So a request ends after at most 16 steps, and its
\* goroutine after 2, whatever the other requests and services do.
RequestsAdvance ==
    [][/\ \A r \in Req : Advances(r) \/ UNCHANGED <<pc[r], setMax[r]>>
       /\ (\E r \in Req : Advances(r)) \/ now' # now \/ mined' # mined]_vars

-----------------------------------------------------------------------------
(* The inductive invariants behind those properties, one per shared key *)

Claimed(t, Q) == \E q \in Q : tx[q] = t /\ markedUntil[q] > 0

\* A mark in Redis was made by some request and lives at least as long as the
\* last one made, at most KeyTTL from now.
MarkInv ==
    /\ \A q \in Req : markedUntil[q] > 0 =>
          tx[q] \in Tx /\ markedUntil[q] <= txSentToRelay[tx[q]].exp
    /\ \A t \in Tx : /\ txSentToRelay[t].exp > 0 => Claimed(t, Req)
                     /\ txSentToRelay[t].exp <= now + KeyTTL

BeforeMark == {"idle", "setNonce", "addToBundle", "getInitial", "getInitialSent",
               "getCancelSent", "setCancelSent", "getSent", "getStatus", "setSent"}
AfterCheck == {"setSent", "getMinNonce", "getMaxNonce", "setTxHash",
               "getBlockNumber", "sendToRelay"}

PassInvOf(r) ==
    /\ pc[r] \in BeforeMark => markedUntil[r] = 0
    /\ pc[r] \in BeforeMark \ {"setSent"} => passedBy[r] = "none"
    /\ pc[r] = "getStatus" => Claimed(tx[r], Req \ {r})
    /\ passedBy[r] = "notSent" => ~dup[r]
    /\ pc[r] \in AfterCheck \/ r \in relayed => passedBy[r] # "none"
    /\ (pc[r] = "done" /\ jsonRes[r] # "error" /\ ~debug) =>
          r \in relayed \cup cancelled \cup bundled \/ Claimed(tx[r], Req \ {r})

PassInv == \A r \in Req : PassInvOf(r)

\* The pending maximum of an account is the nonce of an admitted request.
AdmittedNonce(x, n) ==
    \E q \in Req : Admitted(q) /\ Sender(q) = x /\ Nonce(q) = n

NonceInv ==
    /\ \A r \in Req : pc[r] = "getMaxNonce" => minNonce[r] <= mined[Sender(r)]
    /\ \A x \in Account : senderMaxNonce[x].exp > 0 =>
          AdmittedNonce(x, senderMaxNonce[x].val)
    /\ NoNonceGap

\* The hash under a sender and nonce is an admitted transaction of that sender
\* with that nonce.
HashInv ==
    \A s \in Slot : txHashForSenderAndNonce[s].exp > 0 =>
        LET t == txHashForSenderAndNonce[s].val IN
        t \in Tx /\ SlotOf(t) = s /\ \E q \in Req : tx[q] = t /\ Admitted(q)

CancelInvOf(r) ==
    /\ pc[r] \in {"setTxHash", "getBlockNumber", "sendToRelay"} => Admitted(r)
    /\ (\/ pc[r] \in {"getInitialSent", "getCancelSent", "setCancelSent",
                       "sendMempool", "cancelAtRelay"}
        \/ r \in cancelled) =>
          /\ initialTx[r] \in Tx /\ SlotOf(initialTx[r]) = SlotOf(tx[r])
          /\ \E q \in Req : tx[q] = initialTx[r] /\ Admitted(q)
    /\ (\/ pc[r] \in {"getCancelSent", "setCancelSent", "sendMempool", "cancelAtRelay"}
        \/ r \in cancelled) => Claimed(initialTx[r], Req)
    /\ r \in cancelled => pc[r] = "done"

CancelInv == HashInv /\ \A r \in Req : CancelInvOf(r)

\* What the checks have established about the transaction of a request by the
\* time it makes each call, and what it cannot have done yet.
CancelLabels == {"getInitial", "getInitialSent", "getCancelSent", "setCancelSent",
                 "sendMempool", "cancelAtRelay"}
AfterAdmission == {"setTxHash", "getBlockNumber", "sendToRelay"}
BeforeAdmission == Labels \ (AfterAdmission \cup {"done", "panic"})

VetInvOf(r) ==
    /\ pc[r] \notin {"idle", "done", "panic"} => Nonce(r) < NonceLimit
    /\ pc[r] \notin {"idle", "setNonce", "done", "panic"} => tx[r] \notin OFACTx
    /\ pc[r] \in CancelLabels => tx[r] \in CancelTx
    /\ pc[r] \in {"getSent", "getStatus"} \cup AfterCheck =>
          (tx[r] \in ZeroTipTx => tx[r] \in CancelTx)
    /\ pc[r] \in AfterCheck \ {"setSent"} => "sentToRelay" \in entry[r]
    /\ pc[r] \in AfterAdmission => tx[r] \notin OversizeTx /\ Admitted(r)
    /\ pc[r] \in BeforeAdmission => ~Admitted(r)
    /\ pc[r] \in {"sendMempool", "cancelAtRelay", "getBlockNumber", "sendToRelay"} =>
          ~debug
    /\ pc[r] # "done" => r \notin relayed \cup cancelled \cup bundled
    /\ r \in mempooled => pc[r] \in {"cancelAtRelay", "done"}
    /\ r \in relayed =>
          /\ tx[r] \notin OFACTx \cup OversizeTx /\ Nonce(r) < NonceLimit
          /\ tx[r] \in ZeroTipTx => tx[r] \in CancelTx
          /\ "sentToRelay" \in entry[r] /\ Admitted(r)
          /\ r \notin cancelled \cup bundled \cup mempooled
    /\ r \in relayed \cup cancelled \cup mempooled => ~debug

VetInv == \A r \in Req : VetInvOf(r)

-----------------------------------------------------------------------------
(* Statements of comments that the code does not keep *)

\* request_processor.go:204, "Send only if (a) not sent before": of two
\* requests for one transaction at most one is sent because it was not sent
\* before (while the mark is live).
SentOnceUnlessFailed ==
    \A r, q \in relayed :
        (r # q /\ tx[r] = tx[q]) =>
            ~(passedBy[r] = "notSent" /\ passedBy[q] = "notSent")

\* request_sendrawtx.go:130, "returns true if tx was cancelled at the relay":
\* a cancellation of another transaction that is reported as successful was,
\* once no request is under way, accepted by the relay.
CancelReportedIsCancelled ==
    (\A r \in Req : pc[r] = "idle" \/ Ended(r)) =>
        \A r \in Req : (/\ "isCancelTx" \in entry[r] /\ jsonRes[r] = "txHash"
                         /\ initialTx[r] # tx[r]) =>
            \E q \in cancelled : tx[q] = tx[r]
=============================================================================
