------------------------------ MODULE Endpoint -------------------------------
(***************************************************************************)
(* Requests that submit and cancel transactions (TxRelay) and calls for    *)
(* receipts and transaction counts (NonceFix), at work on the same Redis   *)
(* keys: the first raise the pending maximum that the second read and      *)
(* delete, and write the sender and the nonce that the second look up.     *)
(***************************************************************************)
EXTENDS TxRelay, NonceFix

CONSTANT MaxPending     \* bound: the node's pending count of an account

ASSUME PendingAssumption == MaxPending \in Nat

VARIABLE raced          \* history: calls that have read a pending maximum and not
                        \* returned, and for whose account one was stored since

endpointVars == <<vars, fixVars, raced>>

EndpointInit == Init /\ FixInit /\ raced = {}

\* Calls that act on a maximum they have read.
Judging(w) == call[w].at \in {"getNonce", "delMax", "askNode", "delCached"}

\* The step is the SET of SetSenderMaxNonce for account x.
Stores(x) == \E r \in Req : /\ setMax[r] = "set" /\ setMax'[r] # "set"
                            /\ Sender(r) = x

\* The node is asked for its pending count: what is mined, with transactions
\* sent through other providers, or less when it lags or answers an error.
NodeCounts == 0..MaxPending

\* A step of a request, its goroutine, the node or the clock.
RelayStep ==
    /\ Next
    /\ raced' = raced \cup {w \in Client : Judging(w) /\ Stores(call[w].acct)}
    /\ UNCHANGED fixVars

ClientStep(w) ==
    /\ ReceiptStep(w) \/ CountStep(w, NodeCounts)
    /\ raced' = {v \in raced : Judging(v)'}
    /\ UNCHANGED <<now, request, control, locals, setMax, services, history>>

EndpointNext == RelayStep \/ \E w \in Client : ClientStep(w)

EndpointSpec == EndpointInit /\ [][EndpointNext]_endpointVars

-----------------------------------------------------------------------------

\* The nonce that intercept_signed_eth_getTransactionCount answers from the
\* cache leaves no gap: every nonce between the node's count and the answer
\* belongs to an admitted transaction, even if the maximum was lowered or
\* deleted between the two reads.  (Accounts for which sendTxToRelay once
\* skipped the nonce check are exempt.)
SuggestedLeavesNoGap ==
    \A s \in suggested :
        (\A q \in skippedRange : Sender(q) # s[1]) =>
            \A k \in (mined[s[1]] + 1)..(s[2] - 1) :
                \E q \in Req : Admitted(q) /\ Sender(q) = s[1] /\ Nonce(q) = k

\* A pending maximum is deleted only for what is known of it: after a receipt
\* because it is the nonce of the failed transaction of that sender
\* (resetMaxNonce, request_intercepts.go:39), and after a count because the
\* node has overtaken it, although it is read, judged and deleted in separate
\* commands while other calls delete it, it expires, and requests store others.
\* There are two exceptions: a maximum stored between the read and the deletion
\* is deleted unseen, and a look-up that fails is taken for nonce 0.
DeletesStaleMaximum ==
    \A w \in Client \ raced :
        LET max == senderMaxNonce[call[w].acct]
        IN  /\ Calling(w, "delMax") /\ Found(max) =>
                  /\ call[w].acct = TxFrom[call[w].hash]
                  /\ max.val \in {TxNonce[call[w].hash], 0}
            /\ Calling(w, "delCached") /\ Found(max) => max.val + 1 < call[w].num

-----------------------------------------------------------------------------
(* The inductive invariant behind them *)

\* What is stored for a hash is what the transaction says.
LookupInv ==
    \A t \in Tx :
        /\ senderOfTxHash[t].exp > 0 => senderOfTxHash[t].val = TxFrom[t]
        /\ nonceOfTxHash[t].exp > 0 => nonceOfTxHash[t].val = TxNonce[t]

\* A maximum that a call has read, and a nonce it has answered from it, were
\* admitted, whatever has become of the maximum since.
CachedInv ==
    /\ \A w \in Client : Calling(w, "askNode") =>
          AdmittedNonce(call[w].acct, call[w].num)
    /\ \A s \in suggested : AdmittedNonce(s[1], s[2] - 1)

\* What a call knows of the maximum of its account, unless one was stored since
\* it read it.
JudgedInv ==
    /\ \A w \in Client :
          /\ call[w].at \in {"getFix", "setFix", "getMax", "getNonce", "delMax"} =>
                call[w].acct = TxFrom[call[w].hash]
          /\ Calling(w, "delMax") => call[w].num \in {TxNonce[call[w].hash], 0}
    /\ \A w \in Client \ raced :
          LET max == senderMaxNonce[call[w].acct]
          IN  Judging(w) /\ Found(max) =>
                IF Calling(w, "delCached") THEN max.val + 1 < call[w].num
                ELSE max.val = call[w].num
=============================================================================
