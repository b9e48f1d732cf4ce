------------------------------ MODULE NonceFix -------------------------------
(***************************************************************************)
(* Receipts and transaction counts (server/request_intercepts.go).  A      *)
(* wallet asks for the receipt of a private transaction; when it failed,   *)
(* check_post_getTransactionReceipt puts a "nonce fix" on its sender, so   *)
(* that the next calls of eth_getTransactionCount are answered with a      *)
(* wrong nonce and MetaMask drops the transaction.  A signed               *)
(* eth_getTransactionCount is answered from the pending maximum.           *)
(*                                                                         *)
(* A client makes one call after another; an action is one Redis command   *)
(* or one call to another service, with the local code around it.  A call  *)
(* that is only forwarded to the node changes nothing and has no action.   *)
(***************************************************************************)
EXTENDS RedisState

CONSTANTS
    Client,         \* wallets and pages that call concurrently
    FixLimit        \* the 4 of intercept_mm_eth_getTransactionCount

ASSUME FixAssumption == FixLimit \in Nat

VARIABLES
    call,           \* the call of each client, with the locals it needs
    suggested,      \* history: <<account, nonce>> answered from the cache
    wrongNonces,    \* history: wrong nonces given since the fix was set up
    overlapped      \* history: accounts whose fix calls set up or count at once

fixVars == <<call, suggested, wrongNonces, overlapped>>

CallLabels == {"idle", "getFix", "setFix", "getMax", "getNonce", "delMax",
               "askNode", "delCached", "getCount", "setCount"}

NoCall == [at |-> "idle", hash |-> Nil, acct |-> Nil, num |-> 0]

FixTypeOK ==
    /\ call \in [Client -> [at : CallLabels, hash : Tx \cup {Nil},
                            acct : Account \cup {Nil}, num : Nat]]
    /\ \A w \in Client : call[w].at # "idle" => call[w].acct \in Account
    /\ \A w \in Client :
         call[w].at \in {"getFix", "setFix", "getMax", "getNonce", "delMax"} =>
            call[w].hash \in Tx
    /\ suggested \subseteq Account \X Nat
    /\ wrongNonces \in [Account -> Nat]
    /\ overlapped \subseteq Account

FixInit ==
    /\ call = [w \in Client |-> NoCall]
    /\ suggested = {}
    /\ wrongNonces = [a \in Account |-> 0]
    /\ overlapped = {}

\* Redis refuses a write of these handlers.  ("fixSet" and "fixGet" are "redisSet"
\* and "redisGet" for the calls of this module, so that an instance can let the
\* one or the other half of the endpoint fail.)
FixErr == "fixSet" \in Faults /\ UNCHANGED redis

Calling(w, label) == call[w].at = label
Proceed(w, label) == call' = [call EXCEPT ![w] = [@ EXCEPT !.at = label]]
Return(w) == call' = [call EXCEPT ![w] = NoCall]

\* The calls that have read the count of a and not yet written it back.
Counting(a) == {v \in Client : Calling(v, "setCount") /\ call[v].acct = a}

-----------------------------------------------------------------------------
(* check_post_getTransactionReceipt, after the node answered "null" and the *)
(* status API FAILED (or UNKNOWN, when started with DebugDontSendTx): with  *)
(* any other answer the handler returns at once.                            *)

\* Mutant: whether the sender was found is not looked at.
AskReceiptUnknownSender(w, t) ==
    /\ Calling(w, "idle")
    /\ call' = [call EXCEPT ![w] = [at |-> "getFix", hash |-> t,
                                    acct |-> senderOfTxHash[t].val, num |-> 0]]
    /\ UNCHANGED <<redis, suggested, wrongNonces, overlapped>>

\* ensureAccountFixIsInPlace: GetSenderOfTxHash, without which nothing is done.
AskReceipt(w, t) ==
    /\ Calling(w, "idle")
    /\ Found(senderOfTxHash[t])
    /\ call' = [call EXCEPT ![w] = [at |-> "getFix", hash |-> t,
                                    acct |-> senderOfTxHash[t].val, num |-> 0]]
    /\ UNCHANGED <<redis, suggested, wrongNonces, overlapped>>

\* A fix that is in place is left alone, whatever its count.
GetFix(w) ==
    /\ Calling(w, "getFix")
    /\ \/ ~Found(nonceFixForAccount[call[w].acct]) /\ Proceed(w, "setFix")
       \/ /\ Found(nonceFixForAccount[call[w].acct]) \/ "fixGet" \in Faults
          /\ Return(w)
    /\ UNCHANGED <<redis, suggested, wrongNonces, overlapped>>

\* A fix that another call set up since GetFix is started again.  (For the
\* history it is still the same fix, and a new one is free of the old calls
\* that overlapped once they have ended.)
SetFix(w) ==
    /\ Calling(w, "setFix")
    /\ \/ /\ SetNonceFixForAccount(call[w].acct, 0)
          /\ LET x == call[w].acct IN
             IF Found(nonceFixForAccount[x])
             THEN overlapped' = overlapped \cup {x} /\ UNCHANGED wrongNonces
             ELSE /\ wrongNonces' = [wrongNonces EXCEPT ![x] = 0]
                  /\ overlapped' = IF Counting(x) = {} THEN overlapped \ {x} ELSE overlapped
          /\ Proceed(w, "getMax")
       \/ FixErr /\ Return(w) /\ UNCHANGED <<wrongNonces, overlapped>>
    /\ UNCHANGED suggested

\* resetMaxNonce: nothing to do without a pending maximum.
GetMax(w) ==
    /\ Calling(w, "getMax")
    /\ LET e == senderMaxNonce[call[w].acct] IN
       \/ /\ Found(e)
          /\ call' = [call EXCEPT ![w] = [@ EXCEPT !.at = "getNonce", !.num = e.val]]
       \/ (~Found(e) \/ "fixGet" \in Faults) /\ Return(w)
    /\ UNCHANGED <<redis, suggested, wrongNonces, overlapped>>

\* Mutant: the maximum of the sender is deleted whichever transaction failed.
GetNonceUnchecked(w) ==
    /\ Calling(w, "getNonce")
    /\ Proceed(w, "delMax")
    /\ UNCHANGED <<redis, suggested, wrongNonces, overlapped>>

\* GetNonceOfTxHash, which is 0 when the key is missing or Redis fails.
GetNonce(w) ==
    /\ Calling(w, "getNonce")
    /\ LET e == nonceOfTxHash[call[w].hash] IN
       \E n \in {IF Found(e) THEN e.val ELSE 0}
                  \cup (IF "fixGet" \in Faults THEN {0} ELSE {}) :
          IF call[w].num = n THEN Proceed(w, "delMax") ELSE Return(w)
    /\ UNCHANGED <<redis, suggested, wrongNonces, overlapped>>

DelMax(w) ==
    /\ Calling(w, "delMax")
    /\ DelSenderMaxNonce(call[w].acct) \/ FixErr
    /\ Return(w)
    /\ UNCHANGED <<suggested, wrongNonces, overlapped>>

-----------------------------------------------------------------------------
(* intercept_signed_eth_getTransactionCount, for a call that is signed by   *)
(* the account it asks for; then, if it did not answer,                     *)
(* intercept_mm_eth_getTransactionCount.                                    *)

\* GetSenderMaxNonce; without a maximum the next intercept has its turn.
AskSignedCount(w, a) ==
    /\ Calling(w, "idle")
    /\ LET e == senderMaxNonce[a] IN
       \/ /\ Found(e)
          /\ call' = [call EXCEPT ![w] = [at |-> "askNode", hash |-> Nil,
                                          acct |-> a, num |-> e.val]]
       \/ /\ ~Found(e) \/ "fixGet" \in Faults
          /\ call' = [call EXCEPT ![w] = [at |-> "getCount", hash |-> Nil,
                                          acct |-> a, num |-> 0]]
    /\ UNCHANGED <<redis, suggested, wrongNonces, overlapped>>

\* Mutant: the cached maximum is preferred even if the node is ahead, and the
\* next free nonce is taken to be one further.
AskNodePlusTwo(w, count) ==
    /\ Calling(w, "askNode")
    /\ suggested' = suggested \cup {<<call[w].acct, call[w].num + 2>>}
    /\ Return(w)
    /\ UNCHANGED <<redis, wrongNonces, overlapped>>

\* The node counts "count" transactions (0 if it answers with an error), or
\* cannot be reached, or its answer cannot be read: an error response.  The
\* greater of the two is answered.
AskNode(w, count) ==
    /\ Calling(w, "askNode")
    /\ \/ /\ count <= call[w].num + 1
          /\ suggested' = suggested \cup {<<call[w].acct, call[w].num + 1>>}
          /\ Return(w)
       \/ /\ count > call[w].num + 1
          /\ call' = [call EXCEPT ![w] = [@ EXCEPT !.at = "delCached", !.num = count]]
          /\ UNCHANGED suggested
       \/ "proxy" \in Faults /\ Return(w) /\ UNCHANGED suggested
    /\ UNCHANGED <<redis, wrongNonces, overlapped>>

\* The cached value was behind the node; an error is logged and the node's
\* count answered all the same.
DelCached(w) ==
    /\ Calling(w, "delCached")
    /\ DelSenderMaxNonce(call[w].acct) \/ FixErr
    /\ Return(w)
    /\ UNCHANGED <<suggested, wrongNonces, overlapped>>

\* eth_getTransactionCount without a signature.
AskCount(w, a) ==
    /\ Calling(w, "idle")
    /\ call' = [call EXCEPT ![w] = [at |-> "getCount", hash |-> Nil,
                                    acct |-> a, num |-> 0]]
    /\ UNCHANGED <<redis, suggested, wrongNonces, overlapped>>

\* Mutant: the limit is looked at before the count is increased.
GetCountEarly(w) ==
    /\ Calling(w, "getCount")
    /\ LET x == call[w].acct
           e == nonceFixForAccount[x] IN
       \/ /\ Found(e) /\ e.val <= FixLimit
          /\ call' = [call EXCEPT ![w] = [@ EXCEPT !.at = "setCount", !.num = e.val + 1]]
          /\ overlapped' = IF Counting(x) = {} THEN overlapped ELSE overlapped \cup {x}
       \/ ~Found(e) /\ Return(w) /\ UNCHANGED overlapped
    /\ UNCHANGED <<redis, suggested, wrongNonces>>

\* Mutant: above the limit the count starts again.
GetCountRestart(w) ==
    /\ Calling(w, "getCount")
    /\ LET e == nonceFixForAccount[call[w].acct] IN
       \/ /\ Found(e)
          /\ call' = [call EXCEPT ![w] = [@ EXCEPT !.at = "setCount",
                !.num = IF e.val + 1 > FixLimit THEN 1 ELSE e.val + 1]]
       \/ ~Found(e) /\ Return(w)
    /\ UNCHANGED <<redis, suggested, wrongNonces, overlapped>>

\* GetNonceFixForAccount; without a fix, above the limit and after an error
\* the call is forwarded.
GetCount(w) ==
    /\ Calling(w, "getCount")
    /\ LET x == call[w].acct
           e == nonceFixForAccount[x] IN
       \/ /\ Found(e) /\ e.val + 1 <= FixLimit
          /\ call' = [call EXCEPT ![w] = [@ EXCEPT !.at = "setCount", !.num = e.val + 1]]
          /\ overlapped' = IF Counting(x) = {} THEN overlapped ELSE overlapped \cup {x}
       \/ /\ ~Found(e) \/ e.val + 1 > FixLimit \/ "fixGet" \in Faults
          /\ Return(w)
          /\ UNCHANGED overlapped
    /\ UNCHANGED <<redis, suggested, wrongNonces>>

\* Only a count that was written is followed by a wrong nonce.
SetCount(w) ==
    /\ Calling(w, "setCount")
    /\ \/ /\ SetNonceFixForAccount(call[w].acct, call[w].num)
          /\ wrongNonces' = [wrongNonces EXCEPT ![call[w].acct] = @ + 1]
       \/ FixErr /\ UNCHANGED wrongNonces
    /\ Return(w)
    /\ UNCHANGED <<suggested, overlapped>>

ReceiptStep(w) ==
    \/ \E t \in Tx : AskReceipt(w, t)
    \/ GetFix(w) \/ SetFix(w) \/ GetMax(w) \/ GetNonce(w) \/ DelMax(w)

\* counts: what the node may answer.
CountStep(w, counts) ==
    \/ \E a \in Account : AskSignedCount(w, a) \/ AskCount(w, a)
    \/ \E n \in counts : AskNode(w, n)
    \/ DelCached(w) \/ GetCount(w) \/ SetCount(w)

-----------------------------------------------------------------------------
(* Properties *)

\* request_intercepts.go:56, "a txNonce of 0 will never match": the maximum is
\* never deleted on the strength of a look-up that failed.
FailedLookupNeverMatches ==
    \A w \in Client : Calling(w, "delMax") =>
        call[w].num = TxNonce[call[w].hash]

\* The counts that calls under way are about to write.
Writing(a) == {call[w].num : w \in Counting(a)}

\* The nonce fix wears off: although calls read the count and write it back
\* in two commands, and so may set it back, no step takes it, or what is still
\* to be written to it, below everything that was there before.  Only
\* check_post_getTransactionReceipt starts it again.
FixNeverRewinds ==
    [][\A a \in Account :
         (/\ Found(nonceFixForAccount[a])
          /\ ~\E w \in Client : /\ Calling(w, "setFix") /\ call[w].acct = a
                                /\ call'[w] # call[w]) =>
            \A n \in {nonceFixForAccount'[a].val} \cup Writing(a)' :
               \E m \in {nonceFixForAccount[a].val} \cup Writing(a) : m <= n
      ]_<<redis, fixVars>>

\* What remains of the limit although the count is read and written back in two
\* commands, and the fix looked for and set up in two: a wallet gets more wrong
\* nonces from one fix only if two calls for its account read the count before
\* one wrote it back, or the fix was set up anew while it was in place.
\* Failures, expiry and calls one after the other never exceed the limit.
OverLimitNeedsOverlap ==
    \A a \in Account : wrongNonces[a] > FixLimit => a \in overlapped

\* The inductive invariant behind it: away from overlaps the count keeps up with
\* the wrong nonces given, also while it is being written back, and also in a fix
\* that expired meanwhile.
OverlapInv ==
    \A a \in Account \ overlapped :
        /\ wrongNonces[a] <= FixLimit
        /\ Found(nonceFixForAccount[a]) => wrongNonces[a] <= nonceFixForAccount[a].val
        /\ \A v \in Counting(a) : wrongNonces[a] < call[v].num /\ call[v].num <= FixLimit
        /\ \A u, v \in Counting(a) : u = v

\* docs/metamask.md:10, "MetaMask needs to receive a wrong nonce exactly 4
\* times", and request_intercepts.go:143, "Intercept max 4 times".
AtMostFourWrongNonces == \A a \in Account : wrongNonces[a] <= FixLimit
=============================================================================
