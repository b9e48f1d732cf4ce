---------------------------- MODULE RelayForwards ----------------------------
(***************************************************************************)
(* The refinement mapping from the handlers of TxRelay to the promises of  *)
(* Forwarding.                                                             *)
(***************************************************************************)
EXTENDS TxRelay

\* The response as the client sees it: it is written when the handler ends.
Answered(r) ==
    CASE pc[r] = "panic" -> "panic"
      [] pc[r] = "done" /\ jsonRes[r] = "error" -> "error"
      [] pc[r] = "done" /\ jsonRes[r] # "error" -> "result"
      [] OTHER -> "none"

\* The checks handle_sendRawTransaction and sendTxToRelay make of a
\* transaction, whatever the state.
VettedTx ==
    {t \in Tx : /\ t \notin OFACTx \cup OversizeTx
                /\ TxNonce[t] < NonceLimit
                /\ t \in ZeroTipTx => t \in CancelTx}

F == INSTANCE Forwarding WITH
        answer    <- [r \in Req |-> Answered(r)],
        claimed   <- {r \in Req : markedUntil[r] > 0},
        admitted  <- {r \in Req : Admitted(r)},
        unchecked <- skippedRange,
        published <- mempooled,
        Vetted    <- VettedTx,
        Cancels   <- CancelTx

\* Every behaviour of the handlers, with concurrent requests, expiring keys,
\* failing services and lost answers, is one the promises of Forwarding allow:
\* sendTxToRelay forwards only vetted transactions whose nonce was admitted,
\* handleCancelTx cancels and publishes only on behalf of a recorded one, and
\* success is only reported for an effect or for another request's claim.
Forwards == F!ForwardingSpec

\* Bundle, cancellation and relay exclude each other in handle_sendRawTransaction
\* also where handleCancelTx hands over to sendTxToRelay, where the mempool or the
\* relay fails, and while requests for the same transaction run; and the hash is
\* answered for an effect of the request or of another one before it.
ExclusiveOutcomes == F!Outcomes
=============================================================================
