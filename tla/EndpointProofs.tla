--------------------------- MODULE EndpointProofs ---------------------------
(***************************************************************************)
(* Proofs about Endpoint: what TxRelay keeps also survives the calls for   *)
(* receipts and transaction counts, and what these calls do to wallets.    *)
(***************************************************************************)
EXTENDS Endpoint, ForwardingProofs

\* A number is a bound of itself.
LEMMA Reflexive == \A n \in Nat : n <= n
  OBVIOUS

-----------------------------------------------------------------------------
\* What a step of a client, or of a request, can change.

\* A call for a receipt or a count leaves the requests of TxRelay alone, and
\* issues at most one command: it deletes a maximum or writes a nonce fix.
LEMMA ClientFrame ==
  ASSUME FixTypeOK, NEW w \in Client, ClientStep(w)
  PROVE  /\ UNCHANGED <<now, request, control, locals, setMax, services, history>>
         /\ \/ UNCHANGED redis
            \/ \E a \in Account : DelSenderMaxNonce(a)
            \/ \E a \in Account, n \in Nat : SetNonceFixForAccount(a, n)
<1>1. UNCHANGED <<now, request, control, locals, setMax, services, history>>
  BY DEF ClientStep
<1>2. CASE DelMax(w) \/ DelCached(w)
  BY <1>1, <1>2 DEF DelMax, DelCached, FixErr, FixTypeOK, Calling
<1>3. CASE SetFix(w) \/ SetCount(w)
  BY <1>1, <1>3 DEF SetFix, SetCount, FixErr, FixTypeOK, Calling
<1>4. CASE \/ \E t \in Tx : AskReceipt(w, t)
           \/ \E a \in Account : AskSignedCount(w, a) \/ AskCount(w, a)
           \/ \E n \in NodeCounts : AskNode(w, n)
           \/ GetFix(w) \/ GetMax(w) \/ GetNonce(w) \/ GetCount(w)
  BY <1>1, <1>4, Zenon DEF AskReceipt, AskSignedCount, AskCount, AskNode, GetFix, GetMax,
     GetNonce, GetCount
<1> QED
  BY <1>2, <1>3, <1>4 DEF ClientStep, ReceiptStep, CountStep

\* The handlers' state stays well typed.
LEMMA ClientTypeStep ==
  ASSUME TypeOK, FixTypeOK, NEW w \in Client, ClientStep(w)
  PROVE  TypeOK'
<1>1. RedisTypeOK'
  BY ClientFrame, RedisTypeUnchanged, RedisTypeWrite DEF TypeOK
<1>2. UNCHANGED <<request, control, locals, setMax, services, history>>
  BY ClientFrame
<1> QED
  BY <1>1, <1>2, Zenon DEF TypeOK, RequestTypeOK, LocalTypeOK, OutsideTypeOK,
     request, control, locals, services, history

\* Sender and nonce of a hash are written by handle_sendRawTransaction only.
LEMMA LookupStep ==
  ASSUME TypeOK, FixTypeOK, LookupInv, [EndpointNext]_endpointVars
  PROVE  LookupInv'
<1> USE DEF redis, RedisErr
<1>1. ASSUME NEW r \in Req, Receive(r) \/ RememberNonce(r)
      PROVE  LookupInv'
  BY <1>1 DEF Receive, RememberNonce, SetSenderOfTxHash, SetNonceOfTxHash, Put,
     LookupInv, TypeOK, RedisTypeOK
<1>2. ASSUME UNCHANGED <<senderOfTxHash, nonceOfTxHash>>
      PROVE  LookupInv'
  BY <1>2 DEF LookupInv
<1>3. ASSUME NEW w \in Client, ClientStep(w)
      PROVE  LookupInv'
  BY <1>2, <1>3, ClientFrame DEF DelSenderMaxNonce, SetNonceFixForAccount
<1>4. ASSUME NEW r \in Req,
             \/ RejectUndecodable(r) \/ PanicOnParameter(r) \/ AddToBundle(r)
             \/ GetInitial(r) \/ GetInitialSent(r) \/ GetCancelSent(r)
             \/ SendMempool(r) \/ CancelAtRelay(r) \/ GetSent(r) \/ GetStatus(r)
             \/ GetMinNonce(r) \/ GetMinNonceUnreadable(r) \/ GetMaxNonce(r)
             \/ GetBlockNumber(r) \/ SendToRelay(r) \/ SetMaxGet(r)
      PROVE  LookupInv'
  <2>1. UNCHANGED redis
    BY <1>4, Zenon DEF RejectUndecodable, PanicOnParameter, AddToBundle, GetInitial,
       GetInitialSent, GetCancelSent, SendMempool, CancelAtRelay, GetSent, GetStatus,
       GetMinNonce, GetMinNonceUnreadable, GetMaxNonce, GetBlockNumber, SendToRelay,
       SetMaxGet
  <2> QED
    BY <1>2, <2>1
<1>5. ASSUME NEW r \in Req,
             \/ SetCancelSent(r) \/ SetSent(r) \/ SetTxHash(r) \/ SetMaxSet(r)
      PROVE  LookupInv'
  BY <1>2, <1>5, Zenon DEF SetCancelSent, SetSent, SetTxHash, SetMaxSet, MarkSent,
     SetTxSentToRelay, SetTxHashForSenderAndNonce, PutSenderMaxNonce
<1>6. ASSUME (\E a \in Account : Mine(a)) \/ TimePasses \/ UNCHANGED vars
      PROVE  LookupInv'
  BY <1>2, <1>6 DEF Mine, TimePasses, Tick, vars
<1> QED
  BY <1>1, <1>3, <1>4, <1>5, <1>6 DEF EndpointNext, RelayStep, endpointVars, Next,
     Handle, Cancelling, Sending, SetSenderMaxNonce, AllEnded

\* The handlers of TxRelay never touch a nonce fix, and only the clock moves on.
LEMMA FixFrame ==
  ASSUME [Next]_vars
  PROVE  UNCHANGED nonceFixForAccount /\ now' \in {now, now + 1}
<1> USE DEF redis, RedisErr
<1>1. ASSUME NEW r \in Req,
             \/ RejectUndecodable(r) \/ PanicOnParameter(r) \/ AddToBundle(r)
             \/ GetInitial(r) \/ GetInitialSent(r) \/ GetCancelSent(r)
             \/ SendMempool(r) \/ CancelAtRelay(r) \/ GetSent(r) \/ GetStatus(r)
             \/ GetMinNonce(r) \/ GetMinNonceUnreadable(r) \/ GetMaxNonce(r)
             \/ GetBlockNumber(r) \/ SendToRelay(r) \/ SetMaxGet(r)
      PROVE  UNCHANGED <<now, nonceFixForAccount>>
  BY <1>1, Zenon DEF RejectUndecodable, PanicOnParameter, AddToBundle, GetInitial,
     GetInitialSent, GetCancelSent, SendMempool, CancelAtRelay, GetSent, GetStatus,
     GetMinNonce, GetMinNonceUnreadable, GetMaxNonce, GetBlockNumber, SendToRelay,
     SetMaxGet
<1>2. ASSUME NEW r \in Req,
             \/ Receive(r) \/ RememberNonce(r)
             \/ SetCancelSent(r) \/ SetSent(r) \/ SetTxHash(r) \/ SetMaxSet(r)
      PROVE  UNCHANGED <<now, nonceFixForAccount>>
  BY <1>2, Zenon DEF Receive, RememberNonce, SetCancelSent, SetSent, SetTxHash, SetMaxSet,
     MarkSent, SetSenderOfTxHash, SetNonceOfTxHash, SetTxSentToRelay,
     SetTxHashForSenderAndNonce, PutSenderMaxNonce
<1> QED
  BY <1>1, <1>2 DEF Next, Handle, Cancelling, Sending, SetSenderMaxNonce, AllEnded,
     Mine, TimePasses, Tick, vars

\* The calls stay well typed: whatever goes past its first look-up has an account
\* and, for a receipt, a hash.
LEMMA FixTypeStep ==
  ASSUME TypeOK, FixTypeOK, LookupInv, [EndpointNext]_endpointVars
  PROVE  FixTypeOK'
<1>1. CASE UNCHANGED fixVars
  BY <1>1 DEF fixVars, FixTypeOK, Calling
<1>2. ASSUME NEW w \in Client, ClientStep(w)
      PROVE  FixTypeOK'
  <2> USE DEF FixTypeOK, Calling, Proceed, Return, NoCall, CallLabels
  <2>1. CASE \E t \in Tx : AskReceipt(w, t)
    <3> PICK t \in Tx : AskReceipt(w, t)
      BY <2>1
    <3>1. senderOfTxHash[t].val \in Account
      <4>1. Found(senderOfTxHash[t])
        BY Zenon DEF AskReceipt
      <4>2. senderOfTxHash[t].exp \in Nat /\ now \in Nat
        BY DEF TypeOK, RedisTypeOK, Entry
      <4>3. senderOfTxHash[t].exp > 0
        BY <4>1, <4>2 DEF Found
      <4> QED
        BY <4>3, RedisAssumption DEF LookupInv
    <3> QED
      BY <3>1 DEF AskReceipt
  <2>2. CASE GetFix(w) \/ GetNonce(w) \/ DelMax(w) \/ DelCached(w)
    BY <2>2 DEF GetFix, GetNonce, DelMax, DelCached
  <2>0. \A a \in Account : /\ senderMaxNonce[a].val \in Nat
                           /\ nonceFixForAccount[a].val \in Nat
    BY DEF TypeOK, RedisTypeOK, Entry
  <2>a. ASSUME NEW c \in [at : CallLabels, hash : Tx \cup {Nil},
                         acct : Account \cup {Nil}, num : Nat],
               c.at # "idle" => c.acct \in Account,
               c.at \in {"getFix", "setFix", "getMax", "getNonce", "delMax"} =>
                  c.hash \in Tx,
               call' = [call EXCEPT ![w] = c], UNCHANGED <<suggested, wrongNonces>>,
               overlapped' \subseteq Account
        PROVE  FixTypeOK'
    BY <2>a
  <2>3. CASE GetMax(w)
    <3> DEFINE c == [call[w] EXCEPT !.at = "getNonce",
                                    !.num = senderMaxNonce[call[w].acct].val]
    <3>1. /\ c \in [at : CallLabels, hash : Tx \cup {Nil},
                    acct : Account \cup {Nil}, num : Nat]
          /\ c.acct \in Account /\ c.hash \in Tx
      BY <2>0, <2>3, Zenon DEF GetMax
    <3>2. CASE call' = [call EXCEPT ![w] = c]
      <4>1. UNCHANGED <<suggested, wrongNonces>> /\ overlapped' \subseteq Account
        BY <2>3 DEF GetMax
      <4> HIDE DEF c
      <4> QED
        BY <2>a, <3>1, <3>2, <4>1
    <3>3. CASE Return(w)
      BY <2>3, <3>3 DEF GetMax
    <3> QED
      BY <2>3, <3>2, <3>3 DEF GetMax
  <2>4. CASE GetCount(w)
    <3> DEFINE c == [call[w] EXCEPT !.at = "setCount",
                                    !.num = nonceFixForAccount[call[w].acct].val + 1]
    <3>0. /\ call[w].acct \in Account /\ call[w].hash \in Tx \cup {Nil}
          /\ nonceFixForAccount[call[w].acct].val + 1 \in Nat
      BY <2>0, <2>4 DEF GetCount
    <3>1. /\ c \in [at : CallLabels, hash : Tx \cup {Nil},
                    acct : Account \cup {Nil}, num : Nat]
          /\ c.acct \in Account /\ c.at = "setCount"
      BY <3>0, Zenon
    <3>2. CASE call' = [call EXCEPT ![w] = c]
      <4>1. UNCHANGED <<suggested, wrongNonces>> /\ overlapped' \subseteq Account
        BY <2>4, <3>0, Zenon DEF GetCount
      <4> HIDE DEF c
      <4> QED
        BY <2>a, <3>1, <3>2, <4>1
    <3>3. CASE Return(w) /\ UNCHANGED overlapped
      BY <2>4, <3>3 DEF GetCount
    <3> QED
      BY <2>4, <3>2, <3>3 DEF GetCount
  <2>5. CASE \E a \in Account : AskSignedCount(w, a) \/ AskCount(w, a)
    <3> PICK a \in Account : AskSignedCount(w, a) \/ AskCount(w, a)
      BY <2>5
    <3>1. CASE AskCount(w, a)
      BY <2>a, <3>1 DEF AskCount
    <3>2. CASE AskSignedCount(w, a)
      BY <2>0, <2>a, <3>2, Zenon DEF AskSignedCount
    <3> QED
      BY <3>1, <3>2
  <2>6. CASE SetFix(w) \/ SetCount(w)
    <3>1. wrongNonces' \in [Account -> Nat] /\ UNCHANGED suggested
      BY <2>6 DEF SetFix, SetCount
    <3>2. overlapped' \subseteq Account
      BY <2>6 DEF SetFix, SetCount
    <3>3. (Proceed(w, "getMax") /\ call[w].at = "setFix") \/ Return(w)
      BY <2>6 DEF SetFix, SetCount
    <3> QED
      BY <3>1, <3>2, <3>3
  <2>7. CASE \E n \in NodeCounts : AskNode(w, n)
    <3> PICK n \in NodeCounts : AskNode(w, n)
      BY <2>7
    <3> DEFINE c == [call[w] EXCEPT !.at = "delCached", !.num = n]
    <3>1. CASE Return(w)
      BY <3>1 DEF AskNode
    <3>2. CASE call' = [call EXCEPT ![w] = c] /\ UNCHANGED suggested
      <4>1. /\ c \in [at : CallLabels, hash : Tx \cup {Nil},
                      acct : Account \cup {Nil}, num : Nat]
            /\ c.acct \in Account /\ c.at = "delCached"
        <5>1. call[w].acct \in Account /\ call[w].hash \in Tx \cup {Nil} /\ n \in Nat
          BY PendingAssumption DEF AskNode, NodeCounts
        <5> QED
          BY <5>1, Zenon
      <4>2. UNCHANGED <<wrongNonces, overlapped>>
        BY DEF AskNode
      <4> HIDE DEF c
      <4> QED
        BY <2>a, <3>2, <4>1, <4>2
    <3> QED
      BY <3>1, <3>2, Zenon DEF AskNode
  <2> QED
    BY <1>2, <2>1, <2>2, <2>3, <2>4, <2>5, <2>6, <2>7, Zenon
    DEF ClientStep, ReceiptStep, CountStep
<1> QED
  BY <1>1, <1>2 DEF EndpointNext, RelayStep, endpointVars

\* A step of a client is a step of its own call; it waits for the node, or is about
\* to delete the maximum after a receipt, for one reason each.
LEMMA CallFrame ==
  ASSUME FixTypeOK, NEW w \in Client, ClientStep(w)
  PROVE  /\ \A v \in Client \ {w} : call'[v] = call[v]
         /\ call'[w].at = "askNode" => \E a \in Account : AskSignedCount(w, a)
         /\ call'[w].at = "delMax" => GetNonce(w)
         /\ call'[w].at = "getNonce" => GetMax(w)
         /\ call'[w].at = "delCached" => \E n \in NodeCounts : AskNode(w, n)
         /\ call'[w].at = "setCount" => GetCount(w)
<1>1. ASSUME NEW c, call' = [call EXCEPT ![w] = c]
      PROVE  call'[w] = c /\ \A v \in Client \ {w} : call'[v] = call[v]
  BY <1>1 DEF FixTypeOK
<1>2. ASSUME NEW l, Proceed(w, l)
      PROVE  call'[w].at = l /\ \A v \in Client \ {w} : call'[v] = call[v]
  BY <1>2 DEF Proceed, FixTypeOK
<1>3. ASSUME Return(w)
      PROVE  call'[w].at = "idle" /\ \A v \in Client \ {w} : call'[v] = call[v]
  BY <1>1, <1>3, Zenon DEF Return, NoCall
<1>4. CASE \E t \in Tx : AskReceipt(w, t)
  BY <1>4 DEF AskReceipt, FixTypeOK
<1>5. CASE \E a \in Account : AskSignedCount(w, a)
  <2> PICK a \in Account : AskSignedCount(w, a)
    BY <1>5
  <2> DEFINE Ask(l, n) == [at |-> l, hash |-> Nil, acct |-> a, num |-> n]
  <2>1. ASSUME NEW l, NEW n, call' = [call EXCEPT ![w] = Ask(l, n)]
        PROVE  call'[w].at = l /\ \A v \in Client \ {w} : call'[v] = call[v]
    BY <1>1, <2>1, Zenon
  <2>2. \/ call' = [call EXCEPT ![w] = Ask("askNode", senderMaxNonce[a].val)]
        \/ call' = [call EXCEPT ![w] = Ask("getCount", 0)]
    BY DEF AskSignedCount
  <2> HIDE DEF Ask
  <2> QED
    BY <1>5, <2>1, <2>2
<1>6. CASE \E a \in Account : AskCount(w, a)
  BY <1>6 DEF AskCount, FixTypeOK
<1>7. CASE \E n \in NodeCounts : AskNode(w, n)
  <2>1. ASSUME NEW n, call' = [call EXCEPT ![w] = [@ EXCEPT !.at = "delCached", !.num = n]]
        PROVE  call'[w].at = "delCached" /\ \A v \in Client \ {w} : call'[v] = call[v]
    BY <2>1 DEF FixTypeOK
  <2> QED
    BY <1>3, <1>7, <2>1, Zenon DEF AskNode
<1>8. CASE GetFix(w) \/ SetFix(w)
  <2>1. Proceed(w, "setFix") \/ Proceed(w, "getMax") \/ Return(w)
    BY <1>8 DEF GetFix, SetFix
  <2> QED
    BY <1>2, <1>3, <2>1
<1>9. CASE GetNonce(w)
  <2>1. Proceed(w, "delMax") \/ Return(w)
    BY <1>9 DEF GetNonce
  <2> QED
    BY <1>2, <1>3, <1>9, <2>1
<1>10. CASE DelMax(w) \/ DelCached(w) \/ SetCount(w)
  BY <1>3, <1>10 DEF DelMax, DelCached, SetCount
<1>11. CASE GetMax(w)
  <2>1. ASSUME NEW n, call' = [call EXCEPT ![w] = [@ EXCEPT !.at = "getNonce", !.num = n]]
        PROVE  call'[w].at = "getNonce" /\ \A v \in Client \ {w} : call'[v] = call[v]
    BY <2>1 DEF FixTypeOK
  <2> QED
    BY <1>3, <1>11, <2>1, Zenon DEF GetMax
<1>12. CASE GetCount(w)
  <2>1. ASSUME NEW n, call' = [call EXCEPT ![w] = [@ EXCEPT !.at = "setCount", !.num = n]]
        PROVE  call'[w].at = "setCount" /\ \A v \in Client \ {w} : call'[v] = call[v]
    BY <2>1 DEF FixTypeOK
  <2> QED
    BY <1>3, <1>12, <2>1, Zenon DEF GetCount
<1> QED
  BY <1>4, <1>5, <1>6, <1>7, <1>8, <1>9, <1>10, <1>11, <1>12, Zenon
  DEF ClientStep, ReceiptStep, CountStep

-----------------------------------------------------------------------------
\* The invariants of TxRelay, and those of the calls.
\* Deleting a maximum only makes the nonce check stricter.
LEMMA ClientNonceStep ==
  ASSUME TypeOK, FixTypeOK, NonceInv, NEW w \in Client, ClientStep(w)
  PROVE  NonceInv'
<1>1. UNCHANGED <<tx, pc, minNonce, setMax, mined, skippedRange>>
  BY ClientFrame DEF request, control, locals, services, history
<1>2. \A x \in Account : \/ senderMaxNonce'[x] = senderMaxNonce[x]
                         \/ senderMaxNonce'[x].exp = 0
  BY ClientFrame DEF redis, DelSenderMaxNonce, SetNonceFixForAccount, Gone, TypeOK,
     RedisTypeOK
<1>3. \A x \in Account : senderMaxNonce'[x].exp > 0 =>
          AdmittedNonce(x, senderMaxNonce'[x].val)
  BY <1>2 DEF NonceInv
<1>4. \A x, n : AdmittedNonce(x, n) <=> AdmittedNonce(x, n)'
  BY <1>1, Zenon DEF AdmittedNonce, Admitted, Sender, Nonce
<1>5. NoNonceGap'
  <2>1. \A q : /\ Admitted(q)' = Admitted(q)
               /\ Sender(q)' = Sender(q) /\ Nonce(q)' = Nonce(q)
    BY <1>1, Zenon DEF Admitted, Sender, Nonce
  <2> QED
    BY <1>1, <2>1, Zenon DEF NonceInv, NoNonceGap
<1> QED
  BY <1>1, <1>3, <1>4, <1>5, Zenon DEF NonceInv, Sender

\* A step of the endpoint keeps an admitted nonce admitted.
LEMMA AdmittedNonceKept ==
  ASSUME TypeOK, FixTypeOK, [EndpointNext]_endpointVars, NEW x, NEW n, AdmittedNonce(x, n)
  PROVE  AdmittedNonce(x, n)'
<1>1. PICK q \in Req : Admitted(q) /\ Sender(q) = x /\ Nonce(q) = n
  BY DEF AdmittedNonce
<1>2. CASE [Next]_vars
  BY <1>1, <1>2, AdmissionKept, Zenon DEF AdmittedNonce, Sender, Nonce
<1>3. ASSUME NEW w \in Client, ClientStep(w)
      PROVE  AdmittedNonce(x, n)'
  <2>1. UNCHANGED <<tx, setMax>>
    BY <1>3, ClientFrame DEF request
  <2> QED
    BY <1>1, <2>1 DEF AdmittedNonce, Admitted, Sender, Nonce
<1> QED
  BY <1>2, <1>3 DEF EndpointNext, RelayStep, endpointVars, vars

\* What a call has read from the pending maximum was admitted, and so was what it
\* answers.
LEMMA CachedStep ==
  ASSUME TypeOK, FixTypeOK, NonceInv, CachedInv, [EndpointNext]_endpointVars
  PROVE  CachedInv'
<1>1. CASE UNCHANGED fixVars
  BY <1>1, AdmittedNonceKept DEF CachedInv, fixVars, Calling
<1>2. ASSUME NEW w \in Client, ClientStep(w)
      PROVE  CachedInv'
  <2>1. \A v \in Client \ {w} : call'[v] = call[v]
    BY <1>2, CallFrame
  <2>2. Calling(w, "askNode")' => AdmittedNonce(call'[w].acct, call'[w].num)
    <3> SUFFICES ASSUME call'[w].at = "askNode"
                 PROVE  AdmittedNonce(call'[w].acct, call'[w].num)
      BY DEF Calling
    <3> PICK a \in Account : AskSignedCount(w, a)
      BY <1>2, CallFrame
    <3>1. Found(senderMaxNonce[a]) => AdmittedNonce(a, senderMaxNonce[a].val)
      BY DEF NonceInv, Found, TypeOK, RedisTypeOK, Entry
    <3>2. /\ Found(senderMaxNonce[a])
          /\ call'[w].acct = a /\ call'[w].num = senderMaxNonce[a].val
      BY DEF AskSignedCount, FixTypeOK
    <3> QED
      BY <3>1, <3>2, Zenon
  <2>3. \A s \in suggested' : s \in suggested \/ AdmittedNonce(s[1], s[2] - 1)
    <3>1. CASE \E n \in NodeCounts : AskNode(w, n)
      <4>1. \A s \in suggested' : \/ s \in suggested
                                  \/ s = <<call[w].acct, call[w].num + 1>>
        BY <3>1 DEF AskNode
      <4>2. AdmittedNonce(call[w].acct, call[w].num) /\ call[w].num \in Nat
        BY <3>1 DEF AskNode, CachedInv, FixTypeOK
      <4> QED
        BY <4>1, <4>2
    <3>2. CASE ~\E n \in NodeCounts : AskNode(w, n)
      BY <1>2, <3>2, Zenon DEF ClientStep, ReceiptStep, CountStep, AskReceipt, AskSignedCount,
         AskCount, GetFix, GetMax, GetNonce, GetCount, DelMax, DelCached, SetFix, SetCount
    <3> QED
      BY <3>1, <3>2
  <2>4. UNCHANGED <<tx, setMax>>
    BY <1>2, ClientFrame DEF request
  <2> QED
    BY <2>1, <2>2, <2>3, <2>4 DEF CachedInv, Calling, AdmittedNonce, Admitted, Sender, Nonce
<1> QED
  BY <1>1, <1>2 DEF EndpointNext, RelayStep, endpointVars

\* The pending maximum is stored by SetSenderMaxNonce only.
LEMMA MaxFrame ==
  ASSUME [Next]_vars
  PROVE  UNCHANGED senderMaxNonce \/ \E r \in Req : SetMaxSet(r)
<1> USE DEF redis, RedisErr
<1>1. ASSUME NEW r \in Req,
             \/ RejectUndecodable(r) \/ PanicOnParameter(r) \/ AddToBundle(r)
             \/ GetInitial(r) \/ GetInitialSent(r) \/ GetCancelSent(r)
             \/ SendMempool(r) \/ CancelAtRelay(r) \/ GetSent(r) \/ GetStatus(r)
             \/ GetMinNonce(r) \/ GetMinNonceUnreadable(r) \/ GetMaxNonce(r)
             \/ GetBlockNumber(r) \/ SendToRelay(r) \/ SetMaxGet(r)
      PROVE  UNCHANGED senderMaxNonce
  BY <1>1, Zenon DEF RejectUndecodable, PanicOnParameter, AddToBundle, GetInitial,
     GetInitialSent, GetCancelSent, SendMempool, CancelAtRelay, GetSent, GetStatus,
     GetMinNonce, GetMinNonceUnreadable, GetMaxNonce, GetBlockNumber, SendToRelay,
     SetMaxGet
<1>2. ASSUME NEW r \in Req,
             \/ Receive(r) \/ RememberNonce(r)
             \/ SetCancelSent(r) \/ SetSent(r) \/ SetTxHash(r)
      PROVE  UNCHANGED senderMaxNonce
  BY <1>2, Zenon DEF Receive, RememberNonce, SetCancelSent, SetSent, SetTxHash,
     MarkSent, SetSenderOfTxHash, SetNonceOfTxHash, SetTxSentToRelay,
     SetTxHashForSenderAndNonce
<1> QED
  BY <1>1, <1>2 DEF Next, Handle, Cancelling, Sending, SetSenderMaxNonce, AllEnded,
     Mine, TimePasses, Tick, vars

\* What a call knows of the pending maximum stays true until a request stores
\* another: the other calls and the clock can only remove it.
LEMMA JudgedStep ==
  ASSUME TypeOK, FixTypeOK, LookupInv, JudgedInv, [EndpointNext]_endpointVars
  PROVE  JudgedInv'
<1> DEFINE Pending(w) == senderMaxNonce[call[w].acct]
           Known(w) == Judging(w) /\ Found(Pending(w)) =>
                          IF Calling(w, "delCached") THEN Pending(w).val + 1 < call[w].num
                          ELSE Pending(w).val = call[w].num
           Own(w) ==
             /\ call[w].at \in {"getFix", "setFix", "getMax", "getNonce", "delMax"} =>
                   call[w].acct = TxFrom[call[w].hash]
             /\ Calling(w, "delMax") => call[w].num \in {TxNonce[call[w].hash], 0}
<1>0. /\ \A w \in Client : Own(w)
      /\ \A w \in Client \ raced : Known(w)
      /\ now \in Nat /\ \A x \in Account : senderMaxNonce[x].exp \in Nat
      /\ \A w \in Client : Judging(w) => call[w].acct \in Account
  BY DEF JudgedInv, TypeOK, RedisTypeOK, Entry, FixTypeOK, Judging
<1>1. ASSUME NEW w \in Client, call'[w] = call[w], Known(w), now' \in {now, now + 1},
             Judging(w) => \/ senderMaxNonce'[call[w].acct] = senderMaxNonce[call[w].acct]
                           \/ senderMaxNonce'[call[w].acct].exp = 0
      PROVE  Known(w)'
  <2>1. Judging(w)' = Judging(w) /\ Calling(w, "delCached")' = Calling(w, "delCached")
    BY <1>1, Zenon DEF Judging, Calling
  <2>2. now \in Nat /\ (Judging(w) => senderMaxNonce[call[w].acct].exp \in Nat)
    BY <1>0, Zenon
  <2>3. Judging(w) /\ Found(Pending(w))' => Found(Pending(w)) /\ Pending(w)' = Pending(w)
    <3>1. /\ call'[w].acct = call[w].acct /\ now' \in {now, now + 1}
          /\ Judging(w) => \/ senderMaxNonce'[call[w].acct] = senderMaxNonce[call[w].acct]
                           \/ senderMaxNonce'[call[w].acct].exp = 0
      BY <1>1, Zenon
    <3> QED
      BY <2>2, <3>1 DEF Found
  <2> QED
    BY <1>1, <2>1, <2>3, Zenon
<1>2. CASE RelayStep
  <2>1. UNCHANGED call /\ [Next]_vars
        /\ raced' = raced \cup {w \in Client : Judging(w) /\ Stores(call[w].acct)}
    BY <1>2 DEF fixVars, RelayStep
  <2>2. ASSUME NEW w \in Client, w \notin raced'
        PROVE  Known(w)'
    <3>1. Known(w) /\ (Judging(w) => ~Stores(call[w].acct))
      BY <1>0, <2>1, <2>2, Zenon
    <3>2. ASSUME Judging(w)
          PROVE  senderMaxNonce'[call[w].acct] = senderMaxNonce[call[w].acct]
      <4>1. ASSUME NEW r \in Req, SetMaxSet(r)
            PROVE  senderMaxNonce'[call[w].acct] = senderMaxNonce[call[w].acct]
        <5>1. Sender(r) # call[w].acct
          <6>1. setMax[r] = "set" /\ setMax'[r] = "end"
            BY <4>1, Zenon DEF SetMaxSet, TypeOK, LocalTypeOK
          <6> QED
            BY <3>1, <3>2, <6>1, Zenon DEF Stores
        <5> QED
          BY <1>0, <3>2, <4>1, <5>1, Zenon DEF SetMaxSet, PutSenderMaxNonce, RedisErr, redis, TypeOK,
             RedisTypeOK
      <4> QED
        BY <2>1, <4>1, MaxFrame, Zenon
    <3> QED
      BY <1>1, <2>1, <3>1, <3>2, FixFrame, Zenon
  <2> QED
    BY <1>0, <2>1, <2>2, Zenon DEF JudgedInv, Calling
<1>3. CASE UNCHANGED endpointVars
  BY <1>3, Zenon DEF endpointVars, vars, redis, fixVars, JudgedInv, Judging, Calling, Found
<1>4. ASSUME NEW v \in Client, ClientStep(v)
      PROVE  JudgedInv'
  <2>1. /\ now' = now
        /\ raced' = {u \in raced : Judging(u)'}
        /\ \A w \in Client \ {v} : call'[w] = call[w]
        /\ \A x \in Account : \/ senderMaxNonce'[x] = senderMaxNonce[x]
                              \/ senderMaxNonce'[x].exp = 0
    <3>1. /\ now' = now /\ \A w \in Client \ {v} : call'[w] = call[w]
          /\ raced' = {u \in raced : Judging(u)'}
      BY <1>4, ClientFrame, CallFrame, Zenon DEF ClientStep
    <3>2. ASSUME UNCHANGED senderMaxNonce \/ \E a \in Account : DelSenderMaxNonce(a)
          PROVE  \A x \in Account : \/ senderMaxNonce'[x] = senderMaxNonce[x]
                                    \/ senderMaxNonce'[x].exp = 0
      <4>1. DOMAIN senderMaxNonce = Account
        BY DEF TypeOK, RedisTypeOK
      <4> QED
        BY <3>2, <4>1 DEF DelSenderMaxNonce, Gone
    <3>3. UNCHANGED senderMaxNonce \/ \E a \in Account : DelSenderMaxNonce(a)
      BY <1>4, ClientFrame, Zenon DEF redis, SetNonceFixForAccount
    <3> QED
      BY <3>1, <3>2, <3>3, Zenon
  <2>2. ASSUME NEW w \in Client \ {v}
        PROVE  Own(w)' /\ (w \notin raced' => Known(w)')
    <3>1. Own(w)'
      BY <1>0, <2>1, <2>2, Zenon DEF Calling
    <3>2. CASE w \notin raced
      BY <1>0, <1>1, <2>1, <2>2, <3>1, <3>2, Zenon
    <3>3. CASE w \in raced
      BY <2>1, <3>1, <3>3, Zenon
    <3> QED
      BY <3>2, <3>3, Zenon
  <2>3. Own(v)' /\ (v \notin raced' => Known(v)')
    <3> DEFINE Goal == Own(v)' /\ (v \notin raced' => Known(v)')
    <3>1. ASSUME NEW c, call' = [call EXCEPT ![v] = c]
          PROVE  call'[v] = c
      BY <3>1 DEF FixTypeOK
    <3>2. ASSUME NEW l, Proceed(v, l)
          PROVE  /\ call'[v].at = l /\ call'[v].hash = call[v].hash
                 /\ call'[v].acct = call[v].acct /\ call'[v].num = call[v].num
      BY <3>2 DEF Proceed, FixTypeOK
    <3>3. ASSUME call'[v].at \in {"idle", "getCount", "setCount"}
          PROVE  Goal
      BY <3>3 DEF Judging, Calling
    <3>4. ASSUME Return(v)
          PROVE  Goal
      BY <3>1, <3>3, <3>4, Zenon DEF Return, NoCall
    <3>5. ASSUME UNCHANGED redis
          PROVE  \A w \in Client : call'[w].acct = call[w].acct =>
                    Pending(w)' = Pending(w) /\ (Found(Pending(w))' <=> Found(Pending(w)))
      BY <2>1, <3>5, Zenon DEF redis, Found
    <3>6. CASE \E t \in Tx : AskReceipt(v, t)
      <4> PICK t \in Tx : AskReceipt(v, t)
        BY <3>6
      <4>1. call'[v] = [at |-> "getFix", hash |-> t, acct |-> senderOfTxHash[t].val, num |-> 0]
        BY <3>1, Zenon DEF AskReceipt
      <4>2. senderOfTxHash[t].val = TxFrom[t]
        <5>1. now \in Nat /\ senderOfTxHash[t].exp \in Nat
          BY DEF TypeOK, RedisTypeOK, Entry
        <5>2. Found(senderOfTxHash[t])
          BY Zenon DEF AskReceipt
        <5> QED
          BY <5>1, <5>2 DEF Found, LookupInv
      <4>3. call'[v].at = "getFix" /\ call'[v].acct = TxFrom[call'[v].hash]
        BY <4>1, <4>2
      <4> QED
        BY <4>3, Zenon DEF Judging, Calling
    <3>7. CASE (GetFix(v) \/ SetFix(v)) /\ ~Return(v)
      <4>1. /\ call[v].at \in {"getFix", "setFix"}
            /\ Proceed(v, "setFix") \/ Proceed(v, "getMax")
        BY <3>7 DEF GetFix, SetFix, Calling
      <4>2. call[v].acct = TxFrom[call[v].hash]
        BY <1>0, <4>1, Zenon
      <4>3. /\ call'[v].at \in {"setFix", "getMax"}
            /\ call'[v].acct = call[v].acct /\ call'[v].hash = call[v].hash
        BY <3>2, <4>1, Zenon
      <4> QED
        BY <4>2, <4>3 DEF Judging, Calling
    <3>8. CASE GetMax(v) /\ ~Return(v)
      <4>1. /\ call' = [call EXCEPT ![v] = [@ EXCEPT !.at = "getNonce", !.num = Pending(v).val]]
            /\ UNCHANGED redis /\ call[v].at = "getMax"
        BY <3>8, Zenon DEF GetMax, Calling
      <4>2. /\ call'[v].at = "getNonce" /\ call'[v].num = Pending(v).val
            /\ call'[v].acct = call[v].acct /\ call'[v].hash = call[v].hash
        BY <4>1 DEF FixTypeOK
      <4>3. Pending(v)' = Pending(v) /\ call[v].acct = TxFrom[call[v].hash]
        BY <1>0, <3>5, <4>1, <4>2
      <4> QED
        BY <4>2, <4>3 DEF Judging, Calling
    <3>9. CASE GetNonce(v) /\ ~Return(v)
      <4>1. /\ Proceed(v, "delMax") /\ UNCHANGED redis /\ call[v].at = "getNonce"
            /\ \/ call[v].num = 0
               \/ /\ Found(nonceOfTxHash[call[v].hash])
                  /\ call[v].num = nonceOfTxHash[call[v].hash].val
        BY <3>9, Zenon DEF GetNonce, Calling
      <4>2. Found(nonceOfTxHash[call[v].hash]) =>
               nonceOfTxHash[call[v].hash].val = TxNonce[call[v].hash]
        <5>1. call[v].hash \in Tx
          BY <4>1, Zenon DEF FixTypeOK
        <5>2. nonceOfTxHash[call[v].hash].exp \in Nat
          BY <5>1 DEF TypeOK, RedisTypeOK, Entry
        <5>3. now \in Nat
          BY <1>0, Zenon
        <5> QED
          BY <5>1, <5>2, <5>3 DEF LookupInv, Found
      <4>3. /\ call'[v].at = "delMax" /\ call'[v].num = call[v].num
            /\ call'[v].acct = call[v].acct /\ call'[v].hash = call[v].hash
        BY <3>2, <4>1
      <4>4. Own(v)'
        BY <1>0, <4>1, <4>2, <4>3, Zenon DEF Calling
      <4>5. v \notin raced' => Known(v)
        BY <1>0, <2>1, <4>3, Zenon DEF Judging
      <4> QED
        BY <3>5, <4>1, <4>3, <4>4, <4>5, Zenon DEF Judging, Calling
    <3>10. CASE \E x \in Account : AskSignedCount(v, x)
      <4> PICK x \in Account : AskSignedCount(v, x)
        BY <3>10
      <4>1. UNCHANGED redis
        BY Zenon DEF AskSignedCount
      <4>2. CASE call'[v] = [at |-> "askNode", hash |-> Nil, acct |-> x,
                             num |-> senderMaxNonce[x].val]
        <5>1. /\ call'[v].at = "askNode" /\ call'[v].acct = x
              /\ call'[v].num = senderMaxNonce[x].val
          BY <4>2
        <5>2. Pending(v)'.val = call'[v].num
          BY <4>1, <5>1, Zenon DEF redis
        <5> QED
          BY <5>1, <5>2 DEF Judging, Calling
      <4>3. CASE call'[v] = [at |-> "getCount", hash |-> Nil, acct |-> x, num |-> 0]
        <5>1. call'[v].at \in {"idle", "getCount", "setCount"}
          BY <4>3
        <5> QED
          BY <3>3, <5>1, Zenon
      <4> QED
        BY <3>1, <4>2, <4>3, Zenon DEF AskSignedCount
    <3>11. CASE (\E n \in NodeCounts : AskNode(v, n)) /\ ~Return(v)
      <4> PICK n \in NodeCounts : AskNode(v, n)
        BY <3>11
      <4>1. /\ call' = [call EXCEPT ![v] = [@ EXCEPT !.at = "delCached", !.num = n]]
            /\ n > call[v].num + 1 /\ UNCHANGED redis /\ call[v].at = "askNode"
        BY <3>11, Zenon DEF AskNode, Calling
      <4>2. call'[v].at = "delCached" /\ call'[v].num = n /\ call'[v].acct = call[v].acct
        BY <4>1 DEF FixTypeOK
      <4>3. v \notin raced' => Known(v)
        BY <1>0, <2>1, <4>2, Zenon DEF Judging
      <4>4. call[v].num \in Nat /\ n \in Nat
        BY PendingAssumption DEF FixTypeOK, NodeCounts
      <4>5. call[v].num + 1 < n
        BY <4>1, <4>4
      <4>6. Own(v)'
        BY <4>2 DEF Calling
      <4>7. Known(v) /\ Found(Pending(v)) => Pending(v).val = call[v].num
        BY <4>1 DEF Judging, Calling
      <4>8. Pending(v)' = Pending(v) /\ (Found(Pending(v))' <=> Found(Pending(v)))
        BY <3>5, <4>1, <4>2
      <4>9. v \notin raced' /\ Found(Pending(v))' => Pending(v)'.val + 1 < call'[v].num
        BY <4>2, <4>3, <4>5, <4>7, <4>8, Zenon
      <4>10. Calling(v, "delCached")'
        BY <4>2 DEF Calling
      <4> HIDE DEF Own
      <4> QED
        BY <4>6, <4>9, <4>10
    <3>12. CASE (\E x \in Account : AskCount(v, x)) \/ (GetCount(v) /\ ~Return(v))
      <4>1. call \in [Client -> [at : CallLabels, hash : Tx \cup {Nil},
                                acct : Account \cup {Nil}, num : Nat]]
        BY DEF FixTypeOK
      <4>2. ASSUME NEW x \in Account, AskCount(v, x)
            PROVE  call'[v].at = "getCount"
        <5>1. call'[v] = [at |-> "getCount", hash |-> Nil, acct |-> x, num |-> 0]
          BY <4>1, <4>2 DEF AskCount
        <5> QED
          BY <5>1
      <4>3. ASSUME GetCount(v), ~Return(v)
            PROVE  call'[v].at = "setCount"
        <5>1. call' = [call EXCEPT ![v] = [call[v] EXCEPT !.at = "setCount",
                         !.num = nonceFixForAccount[call[v].acct].val + 1]]
          BY <4>3 DEF GetCount
        <5> QED
          BY <4>1, <5>1
      <4>4. call'[v].at \in {"getCount", "setCount"}
        BY <3>12, <4>2, <4>3
      <4> QED
        BY <3>3, <4>4
    <3> HIDE DEF Goal
    <3> QED
      BY <1>4, <3>4, <3>6, <3>7, <3>8, <3>9, <3>10, <3>11, <3>12, Zenon
      DEF ClientStep, ReceiptStep, CountStep, DelMax, DelCached, SetCount, Goal
  <2> QED
    BY <2>2, <2>3, Zenon DEF JudgedInv
<1> QED
  BY <1>2, <1>3, <1>4 DEF EndpointNext

\* Away from overlaps, the count of a fix keeps up with the wrong nonces given.
LEMMA OverlapStep ==
  ASSUME TypeOK, FixTypeOK, OverlapInv, [EndpointNext]_endpointVars
  PROVE  OverlapInv'
<1> DEFINE Kept(a) ==
      /\ wrongNonces[a] <= FixLimit
      /\ Found(nonceFixForAccount[a]) => wrongNonces[a] <= nonceFixForAccount[a].val
      /\ \A v \in Counting(a) : wrongNonces[a] < call[v].num /\ call[v].num <= FixLimit
      /\ \A u, v \in Counting(a) : u = v
<1>0. /\ \A a \in Account : /\ wrongNonces[a] \in Nat
                            /\ nonceFixForAccount[a].val \in Nat
                            /\ nonceFixForAccount[a].exp \in Nat
      /\ nonceFixForAccount \in [Account -> Entry(Nat)]
      /\ now \in Nat /\ FixLimit \in Nat
  BY FixAssumption DEF FixTypeOK, TypeOK, RedisTypeOK, Entry
<1>1. CASE UNCHANGED <<nonceFixForAccount, fixVars>> /\ now' \in Nat /\ now <= now'
  <2>1. \A a \in Account : Found(nonceFixForAccount[a])' => Found(nonceFixForAccount[a])
    BY <1>0, <1>1 DEF Found
  <2>2. \A a \in Account : Counting(a)' = Counting(a)
    BY <1>1 DEF Counting, Calling, fixVars
  <2>3. /\ call' = call /\ wrongNonces' = wrongNonces /\ overlapped' = overlapped
        /\ nonceFixForAccount' = nonceFixForAccount
    BY <1>1 DEF fixVars
  <2>4. ASSUME NEW a \in Account, Kept(a)
        PROVE  Kept(a)'
    BY <2>1, <2>2, <2>3, <2>4
  <2> QED
    BY <2>3, <2>4, Zenon DEF OverlapInv
<1>2. ASSUME NEW w \in Client, ClientStep(w)
      PROVE  OverlapInv'
  <2> SUFFICES ASSUME NEW a \in Account, a \notin overlapped'
               PROVE  Kept(a)'
    BY Zenon DEF OverlapInv
  <2>1. /\ now' = now
        /\ \A v \in Client \ {w} : call'[v] = call[v]
        /\ Counting(a)' \subseteq Counting(a) \cup {w}
        /\ \A v \in Counting(a)' \ {w} : v \in Counting(a) /\ call'[v] = call[v]
    BY <1>2, ClientFrame, CallFrame, Zenon DEF Counting, Calling
  <2>2. CASE GetCount(w) /\ ~Return(w)
    <3> DEFINE b == call[w].acct
    <3>1. /\ b \in Account /\ Found(nonceFixForAccount[b])
          /\ nonceFixForAccount[b].val + 1 <= FixLimit
          /\ call' = [call EXCEPT ![w] = [@ EXCEPT !.at = "setCount",
                                            !.num = nonceFixForAccount[b].val + 1]]
          /\ overlapped' = IF Counting(b) = {} THEN overlapped ELSE overlapped \cup {b}
          /\ UNCHANGED <<redis, wrongNonces>>
      BY <2>2, Zenon DEF GetCount, Calling, FixTypeOK
    <3>2. call'[w].acct = b /\ call'[w].num = nonceFixForAccount[b].val + 1
      BY <3>1 DEF FixTypeOK
    <3>3. a \notin overlapped /\ UNCHANGED <<nonceFixForAccount, wrongNonces, now>>
      BY <2>1, <3>1 DEF redis
    <3>4. Kept(a)
      BY <3>3 DEF OverlapInv
    <3>5. Found(nonceFixForAccount[a])' <=> Found(nonceFixForAccount[a])
      BY <3>3 DEF Found
    <3>6. CASE a = b
      <4>1. Counting(a) = {}
        BY <3>1, <3>6
      <4>2. Counting(a)' \subseteq {w}
        BY <2>1, <4>1
      <4>3. wrongNonces[a] < call'[w].num /\ call'[w].num <= FixLimit
        BY <1>0, <3>1, <3>2, <3>4, <3>6
      <4> QED
        BY <3>3, <3>4, <3>5, <4>2, <4>3
    <3>7. CASE a # b
      <4>1. w \notin Counting(a)'
        BY <3>2, <3>7 DEF Counting
      <4> QED
        BY <2>1, <3>3, <3>4, <3>5, <4>1
    <3> QED
      BY <3>6, <3>7
  <2>3. ASSUME call'[w].at # "setCount"
        PROVE  Counting(a)' \subseteq Counting(a) \ {w}
    BY <2>1, <2>3 DEF Counting, Calling
  <2>4. CASE SetFix(w)
    <3> DEFINE b == call[w].acct
    <3>1. call'[w].at # "setCount" /\ b \in Account
      BY <2>4 DEF SetFix, Proceed, Return, NoCall, Calling, FixTypeOK
    <3>2. CASE UNCHANGED <<redis, wrongNonces, overlapped>>
      <4>1. Found(nonceFixForAccount[a])' <=> Found(nonceFixForAccount[a])
        BY <2>1, <3>2, Zenon DEF Found, redis
      <4>2. Kept(a) /\ nonceFixForAccount' = nonceFixForAccount
        BY <3>2, Zenon DEF OverlapInv, redis
      <4> QED
        BY <2>1, <2>3, <3>1, <3>2, <4>1, <4>2, Zenon
    <3>3. CASE SetNonceFixForAccount(b, 0) /\ ~UNCHANGED <<redis, wrongNonces, overlapped>>
      <4>1. /\ nonceFixForAccount' =
                 [nonceFixForAccount EXCEPT ![b] = [val |-> 0, exp |-> now + KeyTTL]]
        BY <3>3, Zenon DEF SetNonceFixForAccount, Put
      <4>2. CASE Found(nonceFixForAccount[b])
        <5>1. overlapped' = overlapped \cup {b} /\ UNCHANGED wrongNonces
          BY <2>4, <3>3, <4>2, Zenon DEF SetFix, FixErr
        <5>2. a # b /\ Kept(a) /\ nonceFixForAccount'[a] = nonceFixForAccount[a]
          BY <1>0, <4>1, <5>1, Zenon DEF OverlapInv
        <5> QED
          BY <2>1, <2>3, <3>1, <5>1, <5>2, Zenon DEF Found
      <4>3. CASE ~Found(nonceFixForAccount[b])
        <5>1. /\ wrongNonces' = [wrongNonces EXCEPT ![b] = 0]
              /\ overlapped' = IF Counting(b) = {} THEN overlapped \ {b} ELSE overlapped
          BY <2>4, <3>3, <4>3, Zenon DEF SetFix, FixErr
        <5>2. CASE a = b
          <6>1. wrongNonces'[a] = 0 /\ nonceFixForAccount'[a].val = 0
            BY <1>0, <4>1, <5>1, <5>2 DEF FixTypeOK
          <6>2. Counting(a) = {} \/ Kept(a)
            BY <5>1, <5>2 DEF OverlapInv
          <6>3. \A v \in Counting(a)' : 0 < call'[v].num /\ call'[v].num <= FixLimit
            <7>1. \A v \in Counting(a)' : v \in Counting(a) /\ call'[v] = call[v]
              BY <2>1, <2>3, <3>1
            <7>2. \A v \in Counting(a) : call[v].num \in Nat
              BY DEF Counting, FixTypeOK
            <7> QED
              BY <1>0, <6>2, <7>1, <7>2
          <6>4. \A u, v \in Counting(a)' : u = v
            BY <2>3, <3>1, <6>2
          <6>5. 0 <= FixLimit /\ 0 <= 0
            BY FixAssumption
          <6> QED
            BY <6>1, <6>3, <6>4, <6>5, Zenon
        <5>3. CASE a # b
          <6>1. /\ Kept(a) /\ nonceFixForAccount'[a] = nonceFixForAccount[a]
                /\ wrongNonces'[a] = wrongNonces[a]
            BY <1>0, <4>1, <5>1, <5>3, Zenon DEF OverlapInv, FixTypeOK
          <6> QED
            BY <2>1, <2>3, <3>1, <6>1, Zenon DEF Found
        <5> QED
          BY <5>2, <5>3
      <4> QED
        BY <4>2, <4>3, Zenon
    <3> QED
      BY <2>4, <3>2, <3>3, Zenon DEF SetFix, FixErr
  <2>5. CASE SetCount(w)
    <3> DEFINE b == call[w].acct
    <3>1. call'[w].at # "setCount" /\ b \in Account /\ w \in Counting(b)
      BY <2>5 DEF SetCount, Return, NoCall, Calling, Counting, FixTypeOK
    <3>2. a \notin overlapped /\ Kept(a)
      BY <2>5, Zenon DEF SetCount, OverlapInv
    <3>3. CASE UNCHANGED <<redis, wrongNonces>>
      <4>1. Found(nonceFixForAccount[a])' <=> Found(nonceFixForAccount[a])
        BY <2>1, <3>3, Zenon DEF Found, redis
      <4>2. nonceFixForAccount' = nonceFixForAccount
        BY <3>3 DEF redis
      <4> QED
        BY <2>1, <2>3, <3>1, <3>2, <3>3, <4>1, <4>2, Zenon
    <3>4. CASE ~UNCHANGED <<redis, wrongNonces>>
      <4>1. /\ nonceFixForAccount' = [nonceFixForAccount EXCEPT
                   ![b] = [val |-> call[w].num, exp |-> now + KeyTTL]]
            /\ wrongNonces' = [wrongNonces EXCEPT ![b] = @ + 1]
        BY <2>5, <3>4, Zenon DEF SetCount, FixErr, SetNonceFixForAccount, Put
      <4>2. CASE a = b
        <5>1. wrongNonces'[a] = wrongNonces[a] + 1 /\ nonceFixForAccount'[a].val = call[w].num
          BY <1>0, <4>1, <4>2, Zenon DEF FixTypeOK
        <5>2. Counting(a)' = {}
          BY <2>3, <3>1, <3>2, <4>2
        <5>3. wrongNonces[a] < call[w].num /\ call[w].num <= FixLimit /\ call[w].num \in Nat
          BY <3>1, <3>2, <4>2, Zenon DEF FixTypeOK
        <5>4. wrongNonces[a] + 1 <= FixLimit /\ wrongNonces[a] + 1 <= call[w].num
          BY <1>0, <5>3
        <5> QED
          BY <5>1, <5>2, <5>4, Zenon
      <4>3. CASE a # b
        <5>1. /\ nonceFixForAccount'[a] = nonceFixForAccount[a]
              /\ wrongNonces'[a] = wrongNonces[a]
          BY <1>0, <4>1, <4>3 DEF FixTypeOK
        <5> QED
          BY <2>1, <2>3, <3>1, <3>2, <5>1, Zenon DEF Found
      <4> QED
        BY <4>2, <4>3
    <3> QED
      BY <3>3, <3>4, Zenon
  <2>6. CASE ~SetFix(w) /\ ~SetCount(w) /\ ~(GetCount(w) /\ ~Return(w))
    <3>1. UNCHANGED <<nonceFixForAccount, wrongNonces, overlapped>>
      <4>1. CASE GetCount(w) /\ Return(w)
        <5>1. call'[w].at = "idle"
          BY <4>1 DEF Return, NoCall, FixTypeOK
        <5>2. UNCHANGED overlapped
          BY <4>1, <5>1, Zenon DEF GetCount, FixTypeOK
        <5> QED
          BY <4>1, <5>2, Zenon DEF GetCount, redis
      <4>2. CASE ~GetCount(w)
        BY <1>2, <2>6, <4>2, Zenon DEF ClientStep, ReceiptStep, CountStep, AskReceipt,
           AskSignedCount, AskCount, AskNode, GetFix, GetMax, GetNonce,
           DelMax, DelCached, DelSenderMaxNonce, FixErr, redis
      <4> QED
        BY <2>6, <4>1, <4>2
    <3>2. call'[w].at # "setCount"
      <4>1. Return(w) => call'[w].at = "idle"
        BY DEF Return, NoCall, FixTypeOK
      <4> QED
        BY <1>2, <2>6, <4>1, CallFrame, Zenon
    <3>3. Found(nonceFixForAccount[a])' <=> Found(nonceFixForAccount[a])
      BY <2>1, <3>1 DEF Found
    <3>4. Kept(a)
      BY <3>1 DEF OverlapInv
    <3> QED
      BY <2>1, <2>3, <3>1, <3>2, <3>3, <3>4, Zenon
  <2> QED
    BY <2>2, <2>4, <2>5, <2>6, Zenon
<1>3. CASE RelayStep \/ UNCHANGED endpointVars
  <2>1. [Next]_vars /\ UNCHANGED fixVars
    BY <1>3 DEF RelayStep, endpointVars
  <2>2. now' \in Nat /\ now <= now'
    BY <1>0, <2>1, FixFrame
  <2> QED
    BY <1>1, <2>1, <2>2, FixFrame
<1> QED
  BY <1>2, <1>3 DEF EndpointNext

EndpointInv == /\ TypeOK /\ FixTypeOK /\ NonceInv
               /\ LookupInv /\ CachedInv /\ JudgedInv /\ OverlapInv

\* The invariant of the composed system: the types of both halves, the nonces of
\* sendTxToRelay, the keys of SetSenderAndNonceOfTxHash, and what the calls of
\* request_intercepts.go have read.
THEOREM EndpointInvariant == EndpointSpec => []EndpointInv
<1>1. EndpointInit => EndpointInv
  <2>1. EndpointInit => TypeOK /\ NonceInv
    BY TypeInit, NonceInvInit DEF EndpointInit
  <2>2. EndpointInit => FixTypeOK /\ CachedInv /\ JudgedInv /\ OverlapInv
    <3>1. FixInit => \A w \in Client : call[w] = NoCall
      BY DEF FixInit
    <3>2. FixInit => CachedInv /\ JudgedInv
      <4>1. FixInit => suggested = {} /\ \A w \in Client : call[w].at = "idle"
        BY <3>1 DEF FixInit, NoCall
      <4> QED
        BY <4>1, Zenon DEF CachedInv, JudgedInv, Judging, Calling
    <3>3. NoCall \in [at : CallLabels, hash : Tx \cup {Nil},
                     acct : Account \cup {Nil}, num : Nat]
      BY DEF NoCall, CallLabels
    <3>4. FixInit => FixTypeOK
      BY <3>1, <3>3 DEF FixInit, FixTypeOK, NoCall
    <3>5. FixInit => \A a \in Account : Counting(a) = {} /\ wrongNonces[a] = 0
      <4>1. NoCall.at # "setCount"
        BY DEF NoCall
      <4> QED
        BY <3>1, <4>1, Zenon DEF FixInit, Counting, Calling
    <3>6. EndpointInit => \A a \in Account : nonceFixForAccount[a].val \in Nat
      BY <2>1 DEF TypeOK, RedisTypeOK, Entry
    <3>7. EndpointInit => OverlapInv
      <4> SUFFICES ASSUME EndpointInit, NEW a \in Account
                   PROVE  /\ wrongNonces[a] = 0 /\ Counting(a) = {}
                          /\ 0 <= nonceFixForAccount[a].val /\ 0 <= FixLimit
        BY Zenon DEF OverlapInv
      <4> QED
        BY <3>5, <3>6, FixAssumption DEF EndpointInit
    <3> QED
      BY <3>2, <3>4, <3>7 DEF EndpointInit
  <2>3. EndpointInit => LookupInv
    <3>0. EndpointInit => /\ senderOfTxHash = [t \in Tx |-> Gone(Nil)]
                          /\ nonceOfTxHash = [t \in Tx |-> Gone(0)]
      BY Zenon DEF EndpointInit, Init, RedisInit
    <3>1. EndpointInit => \A t \in Tx : /\ senderOfTxHash[t] = Gone(Nil)
                                        /\ nonceOfTxHash[t] = Gone(0)
      BY <3>0, Zenon
    <3>2. Gone(Nil).exp = 0 /\ Gone(0).exp = 0 /\ ~(0 > 0)
      BY DEF Gone
    <3> QED
      BY <3>1, <3>2, Zenon DEF LookupInv
  <2> QED
    BY <2>1, <2>2, <2>3 DEF EndpointInv
<1>2. EndpointInv /\ [EndpointNext]_endpointVars => EndpointInv'
  <2> SUFFICES ASSUME EndpointInv, [EndpointNext]_endpointVars PROVE EndpointInv'
    OBVIOUS
  <2> USE DEF EndpointInv
  <2>1. TypeOK' /\ NonceInv'
    <3>1. CASE [Next]_vars
      BY <3>1, TypeStep, NonceInvStep
    <3>2. ASSUME NEW w \in Client, ClientStep(w)
          PROVE  TypeOK' /\ NonceInv'
      BY <3>2, ClientTypeStep, ClientNonceStep
    <3> QED
      BY <3>1, <3>2 DEF EndpointNext, RelayStep, endpointVars, vars
  <2> QED
    BY <2>1, FixTypeStep, LookupStep, CachedStep, JudgedStep, OverlapStep
<1> QED
  BY <1>1, <1>2, PTL DEF EndpointSpec

\* The calls of request_intercepts.go and the wallets' state stay well typed: a
\* receipt call only goes on to reset a nonce fix or a maximum once it has found
\* the sender of the transaction.
THEOREM FixTypes == EndpointSpec => []FixTypeOK
<1>1. EndpointInv => FixTypeOK
  BY DEF EndpointInv
<1> QED
  BY <1>1, EndpointInvariant, PTL

\* The admitted nonces leave no gap, also while receipts and counts delete the
\* pending maximum under the feet of sendTxToRelay.
THEOREM EndpointNonceGap == EndpointSpec => []NoNonceGap
<1>1. EndpointInv => NoNonceGap
  BY DEF EndpointInv, NonceInv
<1> QED
  BY <1>1, EndpointInvariant, PTL

\* A signed eth_getTransactionCount never suggests a nonce beyond a gap.
THEOREM SuggestedTheorem == EndpointSpec => []SuggestedLeavesNoGap
<1>1. EndpointInv => SuggestedLeavesNoGap
  <2> SUFFICES ASSUME EndpointInv, NEW s \in suggested,
                      \A q \in skippedRange : Sender(q) # s[1],
                      NEW k \in (mined[s[1]] + 1)..(s[2] - 1)
               PROVE  AdmittedNonce(s[1], k)
    BY DEF SuggestedLeavesNoGap, AdmittedNonce
  <2>1. PICK q \in Req : Admitted(q) /\ Sender(q) = s[1] /\ Nonce(q) = s[2] - 1
    BY DEF EndpointInv, CachedInv, AdmittedNonce
  <2>2. CASE k = s[2] - 1
    BY <2>1, <2>2 DEF AdmittedNonce
  <2>3. CASE k # s[2] - 1
    <3>0. s \in Account \X Nat /\ mined \in [Account -> Nat]
      BY Zenon DEF EndpointInv, FixTypeOK, TypeOK, OutsideTypeOK
    <3>1. mined[s[1]] \in Nat /\ s[2] \in Nat
      BY <3>0
    <3>2. k \in (mined[Sender(q)] + 1)..(Nonce(q) - 1)
      BY <2>1, <2>3, <3>1
    <3>3. NoNonceGap
      BY Zenon DEF EndpointInv, NonceInv
    <3>4. \A p \in skippedRange : Sender(p) # Sender(q)
      BY <2>1, Zenon
    <3>5. \E p \in Req : Admitted(p) /\ Sender(p) = Sender(q) /\ Nonce(p) = k
      BY <2>1, <3>2, <3>3, <3>4, Zenon DEF NoNonceGap
    <3> QED
      BY <2>1, <3>5, Zenon DEF AdmittedNonce
  <2> QED
    BY <2>2, <2>3
<1> QED
  BY <1>1, EndpointInvariant, PTL

\* Receipts and counts delete a pending maximum only if it is the nonce of the
\* failed transaction, or 0, or the node has overtaken it, unless it was stored
\* between their read and their deletion.
THEOREM StaleMaximumTheorem == EndpointSpec => []DeletesStaleMaximum
<1>1. EndpointInv => DeletesStaleMaximum
  BY Zenon DEF EndpointInv, JudgedInv, DeletesStaleMaximum, Judging, Calling
<1> QED
  BY <1>1, EndpointInvariant, PTL

\* A fix gives more wrong nonces than its limit only where calls for the account
\* overlapped: failed commands, expiry of the fix and calls in sequence never do.
THEOREM OverLimitTheorem == EndpointSpec => []OverLimitNeedsOverlap
<1>1. EndpointInv => OverLimitNeedsOverlap
  <2> SUFFICES ASSUME EndpointInv, NEW a \in Account, wrongNonces[a] > FixLimit,
                      a \notin overlapped
               PROVE  FALSE
    BY Zenon DEF OverLimitNeedsOverlap
  <2>1. wrongNonces[a] \in Nat /\ wrongNonces[a] <= FixLimit
    BY Zenon DEF EndpointInv, OverlapInv, FixTypeOK
  <2> QED
    BY <2>1, FixAssumption
<1> QED
  BY <1>1, EndpointInvariant, PTL

\* Steps of the handlers never take the nonce-fix count below what was stored or
\* about to be stored, however the calls interleave.
THEOREM RewindTheorem == EndpointSpec => FixNeverRewinds
<1> DEFINE NoRewind ==
      \A a \in Account :
        (/\ Found(nonceFixForAccount[a])
         /\ ~\E w \in Client : /\ Calling(w, "setFix") /\ call[w].acct = a
                               /\ call'[w] # call[w]) =>
           \A n \in {nonceFixForAccount'[a].val} \cup Writing(a)' :
              \E m \in {nonceFixForAccount[a].val} \cup Writing(a) : m <= n
<1>1. EndpointInv /\ [EndpointNext]_endpointVars =>
        [NoRewind]_<<redis, fixVars>>
  <2> SUFFICES ASSUME EndpointInv, [EndpointNext]_endpointVars
               PROVE  [NoRewind]_<<redis, fixVars>>
    BY Zenon
  <2>0. \A a \in Account :
           /\ nonceFixForAccount[a].val \in Nat
           /\ \A n \in Writing(a) : n \in Nat
    <3>1. \A a \in Account : nonceFixForAccount[a].val \in Nat
      BY Zenon DEF EndpointInv, TypeOK, RedisTypeOK, Entry
    <3>2. \A w \in Client : call[w].num \in Nat
      BY Zenon DEF EndpointInv, FixTypeOK
    <3> QED
      BY <3>1, <3>2, Zenon DEF Writing, Counting
  <2>1. ASSUME UNCHANGED <<nonceFixForAccount, fixVars>>
        PROVE  NoRewind
    <3>1. \A a \in Account : Writing(a)' = Writing(a)
      BY <2>1 DEF Writing, Counting, Calling, fixVars
    <3> SUFFICES ASSUME NEW a \in Account,
                        NEW n \in {nonceFixForAccount'[a].val} \cup Writing(a)'
                 PROVE  \E m \in {nonceFixForAccount[a].val} \cup Writing(a) : m <= n
      BY Zenon
    <3>2. n \in {nonceFixForAccount[a].val} \cup Writing(a) /\ n \in Nat
      BY <2>0, <2>1, <3>1, Zenon
    <3> QED
      BY <3>2, Reflexive, Zenon
  <2>2. ASSUME NEW w \in Client, ClientStep(w)
        PROVE  NoRewind
    <3> SUFFICES ASSUME NEW a \in Account, Found(nonceFixForAccount[a]),
                        ~\E v \in Client : /\ Calling(v, "setFix") /\ call[v].acct = a
                                           /\ call'[v] # call[v],
                        NEW n \in {nonceFixForAccount'[a].val} \cup Writing(a)'
                 PROVE  \E m \in {nonceFixForAccount[a].val} \cup Writing(a) : m <= n
      OBVIOUS
    <3>1. CASE n = nonceFixForAccount'[a].val
      <4>1. \/ nonceFixForAccount'[a] = nonceFixForAccount[a]
            \/ nonceFixForAccount'[a].val \in Writing(a)
        <5>1. CASE SetCount(w)
          <6>1. \/ UNCHANGED nonceFixForAccount
                \/ nonceFixForAccount' = [nonceFixForAccount EXCEPT
                       ![call[w].acct] = [val |-> call[w].num, exp |-> now + KeyTTL]]
            BY <5>1, Zenon DEF SetCount, SetNonceFixForAccount, Put, FixErr, redis
          <6>2. call[w].acct = a => call[w].num \in Writing(a)
            BY <5>1, Zenon DEF SetCount, Writing, Counting
          <6>3. nonceFixForAccount \in [Account -> Entry(Nat)]
            BY Zenon DEF EndpointInv, TypeOK, RedisTypeOK
          <6>4. CASE UNCHANGED nonceFixForAccount
            BY <6>4, Zenon
          <6>5. CASE nonceFixForAccount' = [nonceFixForAccount EXCEPT
                       ![call[w].acct] = [val |-> call[w].num, exp |-> now + KeyTTL]]
            <7>1. CASE call[w].acct = a
              <8>1. nonceFixForAccount'[a] = [val |-> call[w].num, exp |-> now + KeyTTL]
                BY <6>3, <6>5, <7>1, Zenon
              <8>2. nonceFixForAccount'[a].val = call[w].num
                BY <8>1
              <8> QED
                BY <6>2, <7>1, <8>2, Zenon
            <7>2. CASE call[w].acct # a
              BY <6>3, <6>5, <7>2, Zenon
            <7> QED
              BY <7>1, <7>2, Zenon
          <6> QED
            BY <6>1, <6>4, <6>5, Zenon
        <5>2. CASE SetFix(w)
          <6>1. call'[w].at \in {"getMax", "idle"}
            BY <5>2 DEF SetFix, Proceed, Return, NoCall, EndpointInv, FixTypeOK
          <6>2. call[w].acct # a
            BY <5>2, <6>1, Zenon DEF SetFix, Calling
          <6> QED
            BY <5>2, <6>2, Zenon DEF SetFix, SetNonceFixForAccount, FixErr, redis,
               EndpointInv, TypeOK, RedisTypeOK
        <5>3. CASE ~SetCount(w) /\ ~SetFix(w)
          <6>1. UNCHANGED nonceFixForAccount
            BY <2>2, <5>3, Zenon DEF ClientStep, ReceiptStep, CountStep, AskReceipt,
               AskSignedCount, AskCount, AskNode, GetFix, GetMax, GetNonce, GetCount,
               DelMax, DelCached, DelSenderMaxNonce, FixErr, redis
          <6> QED
            BY <6>1
        <5> QED
          BY <5>1, <5>2, <5>3, Zenon
      <4> QED
        <5>1. n \in {nonceFixForAccount[a].val} \cup Writing(a) /\ n \in Nat
          BY <2>0, <3>1, <4>1, Zenon
        <5> QED
          BY <5>1, Reflexive, Zenon
    <3>2. CASE n \in Writing(a)'
      <4>1. PICK v \in Client : /\ call'[v].at = "setCount" /\ call'[v].acct = a
                                /\ call'[v].num = n
        BY <3>2, Zenon DEF Writing, Counting, Calling
      <4>2. CASE v # w
        <5>1. call'[v] = call[v]
          BY <2>0, <2>2, <4>1, <4>2, CallFrame, Zenon DEF EndpointInv
        <5>2. n \in Writing(a)
          BY <4>1, <5>1, Zenon DEF Writing, Counting, Calling
        <5> QED
          BY <2>0, <5>2, Reflexive, Zenon
      <4>3. CASE v = w
        <5>1. GetCount(w)
          BY <2>2, <4>1, <4>3, CallFrame, Zenon DEF EndpointInv
        <5>2. call'[w] = [call[w] EXCEPT !.at = "setCount",
                              !.num = nonceFixForAccount[call[w].acct].val + 1]
          BY <4>1, <4>3, <5>1 DEF GetCount, Return, NoCall, EndpointInv, FixTypeOK
        <5>3. call[w] \in [at : CallLabels, hash : Tx \cup {Nil},
                           acct : Account \cup {Nil}, num : Nat]
          BY Zenon DEF EndpointInv, FixTypeOK
        <5>4. call[w].acct = a /\ n = nonceFixForAccount[a].val + 1
          BY <4>1, <4>3, <5>2, <5>3
        <5>5. nonceFixForAccount[a].val <= n
          BY <2>0, <5>4
        <5> QED
          BY <5>5, Zenon
      <4> QED
        BY <4>2, <4>3
    <3> QED
      BY <3>1, <3>2
  <2>3. CASE RelayStep
    BY <2>1, <2>3, FixFrame, Zenon DEF RelayStep
  <2>4. CASE UNCHANGED endpointVars
    BY <2>4, Zenon DEF endpointVars, vars
  <2> QED
    BY <2>2, <2>3, <2>4, Zenon DEF EndpointNext
<1> QED
  BY <1>1, EndpointInvariant, PTL DEF EndpointSpec, FixNeverRewinds

-----------------------------------------------------------------------------
\* What TxRelay guarantees of transactions is guaranteed of the whole endpoint.

\* The calls for receipts and counts do not touch what the checks of a submission
\* or a cancellation rest on.
LEMMA ClientRelayStep ==
  ASSUME FixTypeOK, MarkInv, PassInv, CancelInv, VetInv, NEW w \in Client, ClientStep(w)
  PROVE  MarkInv' /\ PassInv' /\ CancelInv' /\ VetInv'
<1>1. UNCHANGED <<now, txSentToRelay, txHashForSenderAndNonce>>
  BY ClientFrame DEF redis, DelSenderMaxNonce, SetNonceFixForAccount
<1>2. /\ UNCHANGED <<tx, debug, pc, jsonRes, entry, initialTx, setMax>>
      /\ UNCHANGED <<relayed, cancelled, mempooled, bundled>>
      /\ UNCHANGED <<markedUntil, passedBy, dup>>
  BY ClientFrame DEF request, control, locals, services, history
<1>3. \A t, Q : Claimed(t, Q) <=> Claimed(t, Q)'
  BY <1>2, Zenon DEF Claimed
<1>4. \A q : (Admitted(q) <=> Admitted(q)') /\ Nonce(q)' = Nonce(q)
  BY <1>2, Zenon DEF Admitted, Nonce
<1>5. MarkInv'
  BY <1>1, <1>2, <1>3, Zenon DEF MarkInv
<1>6. PassInv'
  BY <1>2, <1>3, Zenon DEF PassInv, PassInvOf
<1>7. CancelInv'
  <2>1. HashInv'
    BY <1>1, <1>2, <1>4, Zenon DEF CancelInv, HashInv
  <2>2. ASSUME NEW r \in Req PROVE CancelInvOf(r)'
    BY <1>2, <1>3, <1>4, Zenon DEF CancelInv, CancelInvOf
  <2> QED
    BY <2>1, <2>2 DEF CancelInv
<1>8. VetInv'
  BY <1>2, <1>4, Zenon DEF VetInv, VetInvOf
<1> QED
  BY <1>5, <1>6, <1>7, <1>8

\* For the promises of Forwarding they do nothing.
LEMMA ClientStutters ==
  ASSUME FixTypeOK, NEW w \in Client, ClientStep(w)
  PROVE  UNCHANGED F!promised
<1>1. UNCHANGED <<tx, debug, pc, jsonRes, markedUntil, setMax, skippedRange,
                  mined, relayed, cancelled, mempooled, bundled>>
  BY ClientFrame DEF request, control, services, history
<1>2. /\ [q \in Req |-> Answered(q)]' = [q \in Req |-> Answered(q)]
      /\ {q \in Req : Admitted(q)}' = {q \in Req : Admitted(q)}
  BY <1>1 DEF Answered, Admitted
<1> QED
  BY <1>1, <1>2 DEF F!promised, F!checks, F!outside

RelayInv == MarkInv /\ PassInv /\ CancelInv /\ VetInv

\* The invariants of TxRelay hold of the endpoint with receipts and counts.
THEOREM EndpointRelayInvariant == EndpointSpec => [](EndpointInv /\ RelayInv)
<1>1. EndpointInit => RelayInv
  BY MarkInvInit, PassInvInit, CancelInvInit, VetInvInit DEF EndpointInit, RelayInv
<1>2. EndpointInv /\ RelayInv /\ [EndpointNext]_endpointVars => RelayInv'
  <2> SUFFICES ASSUME EndpointInv, RelayInv, [EndpointNext]_endpointVars PROVE RelayInv'
    OBVIOUS
  <2>1. TypeOK /\ FixTypeOK /\ NonceInv
    BY DEF EndpointInv
  <2>2. CASE [Next]_vars
    BY <2>1, <2>2, MarkInvStep, PassInvStep, CancelInvStep, VetInvStep, Zenon DEF RelayInv
  <2>3. ASSUME NEW w \in Client, ClientStep(w) PROVE RelayInv'
    BY <2>1, <2>3, ClientRelayStep, Zenon DEF RelayInv
  <2> QED
    BY <2>2, <2>3, Zenon DEF EndpointNext, RelayStep, endpointVars, vars
<1> QED
  BY <1>1, <1>2, EndpointInvariant, PTL DEF EndpointSpec

\* What was sent is not sent again without reason, a reported success is backed,
\* cancellations hit admitted transactions, and only vetted transactions leave,
\* also while receipts reset maxima and nonce fixes come and go.
THEOREM EndpointGuarantees ==
    EndpointSpec => []( /\ ResendNeedsReason /\ SuccessIsBacked
                        /\ CancelTargetsAdmitted /\ OnlyVettedRelayed)
<1>1. EndpointInv /\ RelayInv => ResendNeedsReason
  BY Zenon DEF EndpointInv, RelayInv, TypeOK, OutsideTypeOK, Reasons, PassInv, PassInvOf,
     ResendNeedsReason
<1>2. RelayInv => SuccessIsBacked
  BY Zenon DEF RelayInv, PassInv, PassInvOf, Claimed, SuccessIsBacked
<1>3. EndpointInv /\ RelayInv => CancelTargetsAdmitted
  BY Zenon DEF EndpointInv, RelayInv, TypeOK, OutsideTypeOK, CancelInv, CancelInvOf, Claimed,
     CancelTargetsAdmitted
<1>4. EndpointInv /\ RelayInv => OnlyVettedRelayed
  BY Zenon DEF EndpointInv, RelayInv, TypeOK, OutsideTypeOK, VetInv, VetInvOf, OnlyVettedRelayed
<1> QED
  BY <1>1, <1>2, <1>3, <1>4, EndpointRelayInvariant, PTL

\* The whole endpoint, with the calls of request_intercepts.go at work on the same
\* keys, keeps the promises of Forwarding.
THEOREM EndpointForwards == EndpointSpec => Forwards
<1>1. EndpointInv /\ RelayInv /\ [EndpointNext]_endpointVars =>
        [F!ForwardingNext]_F!promised
  <2> SUFFICES ASSUME EndpointInv, RelayInv, [EndpointNext]_endpointVars
               PROVE  F!ForwardingNext \/ UNCHANGED F!promised
    BY Zenon
  <2>1. /\ TypeOK /\ FixTypeOK /\ NonceInv
        /\ MarkInv /\ PassInv /\ CancelInv /\ VetInv
    BY DEF EndpointInv, RelayInv
  <2>2. CASE [Next]_vars
    BY <2>1, <2>2, ForwardOwn, ForwardOthers, Zenon DEF Next, AllEnded
  <2>3. ASSUME NEW w \in Client, ClientStep(w) PROVE UNCHANGED F!promised
    BY <2>1, <2>3, ClientStutters, Zenon
  <2> QED
    BY <2>2, <2>3, Zenon DEF EndpointNext, RelayStep, endpointVars, vars
<1>2. EndpointInit => F!ForwardingInit
  BY ForwardInit DEF EndpointInit
<1> QED
  BY <1>1, <1>2, EndpointRelayInvariant, PTL DEF EndpointSpec, Forwards, F!ForwardingSpec

\* And with them that the ways out of a submission exclude each other.
THEOREM EndpointOutcomes == EndpointSpec => []ExclusiveOutcomes
  BY EndpointForwards, OutcomesTheorem, PTL
=============================================================================
