---------------------------- MODULE TxRelayNonces ---------------------------
(***************************************************************************)
(* Nonces: the pending maximum is an admitted nonce, and the admitted      *)
(* nonces leave no gap.  Cancellations: the hash found under a sender and  *)
(* a nonce, and the requests on whose behalf handleCancelTx acts.          *)
(***************************************************************************)
EXTENDS TxRelayMarks

\* Admission is final, a skipped check is remembered, blocks are not undone.
LEMMA AdmissionKept ==
  ASSUME TypeOK, [Next]_vars
  PROVE  /\ tx' = tx
         /\ \A q \in Req : Admitted(q) => Admitted(q)'
         /\ skippedRange \subseteq skippedRange'
         /\ \A a \in Account : mined[a] <= mined'[a]
<1> USE DEF TypeOK, RequestTypeOK, LocalTypeOK, OutsideTypeOK, request, services,
            history, Admitted
<1>1. ASSUME NEW r \in Req,
             \/ RejectUndecodable(r) \/ PanicOnParameter(r)
             \/ Receive(r) \/ RememberNonce(r) \/ AddToBundle(r)
             \/ GetInitial(r) \/ GetInitialSent(r) \/ GetCancelSent(r)
             \/ SetCancelSent(r) \/ SendMempool(r) \/ CancelAtRelay(r)
             \/ GetSent(r) \/ GetStatus(r) \/ SetSent(r)
             \/ SetTxHash(r) \/ GetBlockNumber(r) \/ SendToRelay(r)
      PROVE  UNCHANGED <<tx, setMax, skippedRange, mined>>
  BY <1>1, Zenon DEF RejectUndecodable, PanicOnParameter, Receive, RememberNonce,
          AddToBundle, GetInitial, GetInitialSent, GetCancelSent,
          SetCancelSent, SendMempool, CancelAtRelay, GetSent, GetStatus,
          SetSent, SetTxHash, GetBlockNumber, SendToRelay
<1>2. ASSUME NEW r \in Req,
             \/ GetMinNonce(r) \/ GetMinNonceUnreadable(r)
             \/ GetMaxNonce(r) \/ SetMaxGet(r) \/ SetMaxSet(r)
      PROVE  /\ tx' = tx
             /\ \A q \in Req : Admitted(q) => Admitted(q)'
             /\ skippedRange \subseteq skippedRange'
             /\ \A a \in Account : mined[a] <= mined'[a]
  BY <1>2 DEF GetMinNonce, GetMinNonceUnreadable, GetMaxNonce, SetMaxGet,
          SetMaxSet, Admit
<1>3. ASSUME \/ \E a \in Account : Mine(a)
             \/ TimePasses
             \/ UNCHANGED vars
      PROVE  /\ tx' = tx
             /\ \A q \in Req : Admitted(q) => Admitted(q)'
             /\ skippedRange \subseteq skippedRange'
             /\ \A a \in Account : mined[a] <= mined'[a]
  BY <1>3 DEF Mine, TimePasses, vars
<1> QED
  BY <1>1, <1>2, <1>3
  DEF Next, Handle, Cancelling, Sending, SetSenderMaxNonce, AllEnded

\* No nonce is admitted and no maximum stored at the start.
LEMMA NonceInvInit == Init => NonceInv
  BY DEF Init, RedisInit, Gone, NonceInv, NoNonceGap, Admitted

\* The pending maximum changes with SetSenderMaxNonce only.
LEMMA MaxNonceFrame ==
  ASSUME TypeOK, [Next]_vars
  PROVE  \/ UNCHANGED senderMaxNonce
         \/ \E r \in Req : /\ Admitted(r) /\ tx[r] \in Tx
                           /\ \E e \in Nat : senderMaxNonce' =
                                [senderMaxNonce EXCEPT ![Sender(r)] =
                                     [val |-> Nonce(r), exp |-> e]]
<1> USE DEF redis, RedisErr
<1>1. ASSUME NEW r \in Req,
             \/ RejectUndecodable(r) \/ PanicOnParameter(r)
             \/ AddToBundle(r) \/ GetInitial(r) \/ GetInitialSent(r)
             \/ GetCancelSent(r) \/ SendMempool(r) \/ CancelAtRelay(r)
             \/ GetSent(r) \/ GetStatus(r) \/ GetBlockNumber(r)
             \/ SendToRelay(r) \/ GetMinNonce(r)
             \/ GetMinNonceUnreadable(r) \/ GetMaxNonce(r)
             \/ SetMaxGet(r)
      PROVE  UNCHANGED senderMaxNonce
  BY <1>1, Zenon DEF RejectUndecodable, PanicOnParameter, AddToBundle, GetInitial,
          GetInitialSent, GetCancelSent, SendMempool, CancelAtRelay,
          GetSent, GetStatus, GetBlockNumber, SendToRelay, GetMinNonce,
          GetMinNonceUnreadable, GetMaxNonce, SetMaxGet
<1>2. ASSUME NEW r \in Req,
             Receive(r) \/ RememberNonce(r) \/ SetTxHash(r) \/ SetSent(r) \/ SetCancelSent(r)
      PROVE  UNCHANGED senderMaxNonce
  BY <1>2, Zenon DEF Receive, RememberNonce, SetTxHash, SetSent, SetCancelSent, MarkSent,
     SetSenderOfTxHash, SetNonceOfTxHash, SetTxHashForSenderAndNonce, SetTxSentToRelay
<1>3. ASSUME NEW r \in Req, SetMaxSet(r), ~UNCHANGED senderMaxNonce
      PROVE  /\ Admitted(r) /\ tx[r] \in Tx
             /\ \E e \in Nat : senderMaxNonce' =
                  [senderMaxNonce EXCEPT ![Sender(r)] = [val |-> Nonce(r), exp |-> e]]
  <2>1. Admitted(r) /\ tx[r] \in Tx
    BY <1>3 DEF SetMaxSet, Admitted, TypeOK, LocalTypeOK, RequestTypeOK
  <2>2. /\ now + MaxNonceTTL \in Nat
        /\ now + opt[r].blockRange \in Nat
    BY RedisAssumption, RelayAssumption
    DEF TypeOK, RedisTypeOK, RequestTypeOK, OptionType
  <2> QED
    BY <1>3, <2>1, <2>2 DEF SetMaxSet, PutSenderMaxNonce, Put
<1>4. ASSUME \/ \E a \in Account : Mine(a)
             \/ TimePasses
             \/ UNCHANGED vars
      PROVE  UNCHANGED senderMaxNonce
  BY <1>4 DEF Mine, TimePasses, Tick, vars
<1> QED
  BY <1>1, <1>2, <1>3, <1>4
  DEF Next, Handle, Cancelling, Sending, SetSenderMaxNonce, AllEnded

\* An admission is by the range check, or the check was skipped; and the node
\* never counts more than is mined.
LEMMA NonceOwn ==
  ASSUME TypeOK, NonceInv, NEW r \in Req, Handle(r) \/ SetSenderMaxNonce(r)
  PROVE  /\ pc'[r] = "getMaxNonce" => minNonce'[r] <= mined'[Sender(r)]
         /\ setMax'[r] # "none" /\ setMax[r] = "none" =>
              \/ r \in skippedRange'
              \/ /\ pc[r] = "getMaxNonce"
                 /\ \/ InRange(r, 0)
                    \/ /\ Found(senderMaxNonce[Sender(r)])
                       /\ InRange(r, senderMaxNonce[Sender(r)].val)
<1> USE DEF TypeOK, RequestTypeOK, LocalTypeOK, control, services, Goto, Fail,
            Succeed, NotACancellation
<1>1. ASSUME \/ RejectUndecodable(r) \/ PanicOnParameter(r)
             \/ Receive(r) \/ RememberNonce(r) \/ AddToBundle(r)
             \/ GetInitial(r) \/ GetInitialSent(r) \/ GetCancelSent(r)
             \/ SetCancelSent(r) \/ SendMempool(r) \/ CancelAtRelay(r)
             \/ GetSent(r) \/ GetStatus(r) \/ SetSent(r)
             \/ SetTxHash(r) \/ GetBlockNumber(r) \/ SendToRelay(r)
      PROVE  pc'[r] # "getMaxNonce" /\ setMax' = setMax
  BY <1>1, Zenon DEF RejectUndecodable, PanicOnParameter, Receive, RememberNonce,
          AddToBundle, GetInitial, GetInitialSent, GetCancelSent,
          SetCancelSent, SendMempool, CancelAtRelay, GetSent, GetStatus,
          SetSent, SetTxHash, GetBlockNumber, SendToRelay,
          Dispatch
<1>2. CASE GetMinNonce(r)
  BY <1>2, RedisAssumption
  DEF GetMinNonce, Admit, Sender, OutsideTypeOK
<1>3. CASE GetMinNonceUnreadable(r)
  BY <1>3, Zenon DEF GetMinNonceUnreadable
<1>4. CASE GetMaxNonce(r)
  BY <1>4 DEF GetMaxNonce, Admit
<1>5. CASE SetMaxGet(r) \/ SetMaxSet(r)
  BY <1>5 DEF SetMaxGet, SetMaxSet, locals, NonceInv
<1> QED
  BY <1>1, <1>2, <1>3, <1>4, <1>5, Zenon
  DEF Handle, Cancelling, Sending, SetSenderMaxNonce

\* The range check admits no gap, whatever maximum Redis returned.
LEMMA InRangeNoGap ==
  ASSUME TypeOK, NonceInv, NEW r \in Req, pc[r] = "getMaxNonce",
         \/ InRange(r, 0)
         \/ /\ Found(senderMaxNonce[Sender(r)])
            /\ InRange(r, senderMaxNonce[Sender(r)].val),
         \A q \in skippedRange : Sender(q) # Sender(r),
         NEW k \in (mined[Sender(r)] + 1)..(Nonce(r) - 1)
  PROVE  AdmittedNonce(Sender(r), k)
<1>0. tx[r] \in Tx /\ Sender(r) \in Account /\ Nonce(r) \in Nat
  BY RedisAssumption DEF TypeOK, RequestTypeOK, Sender, Nonce
<1>1. /\ Sender(r) \in Account /\ Nonce(r) \in Nat
      /\ minNonce[r] \in Nat /\ mined[Sender(r)] \in Nat /\ now \in Nat
      /\ senderMaxNonce[Sender(r)] \in [val : Nat, exp : Nat]
  BY <1>0 DEF TypeOK, LocalTypeOK, OutsideTypeOK, RedisTypeOK, Entry
<1>2. minNonce[r] <= mined[Sender(r)]
  BY DEF NonceInv
<1>3. /\ Found(senderMaxNonce[Sender(r)])
      /\ Nonce(r) <= senderMaxNonce[Sender(r)].val + 1
  BY <1>1, <1>2 DEF InRange
<1>4. PICK q \in Req : /\ Admitted(q) /\ Sender(q) = Sender(r)
                       /\ Nonce(q) = senderMaxNonce[Sender(r)].val
  BY <1>1, <1>3 DEF NonceInv, AdmittedNonce, Found
<1>5. CASE k = Nonce(q)
  BY <1>4, <1>5 DEF AdmittedNonce
<1>6. CASE k # Nonce(q)
  <2>1. k \in (mined[Sender(q)] + 1)..(Nonce(q) - 1)
    BY <1>1, <1>3, <1>4, <1>6
  <2> QED
    BY <1>4, <2>1 DEF NonceInv, NoNonceGap, AdmittedNonce
<1> QED
  BY <1>5, <1>6

\* Every step, of the handlers and of the SetSenderMaxNonce goroutines, keeps the
\* stored maximum an admitted nonce and the admitted nonces without gaps.
LEMMA NonceInvStep == TypeOK /\ NonceInv /\ [Next]_vars => NonceInv'
<1> SUFFICES ASSUME TypeOK, NonceInv, [Next]_vars PROVE NonceInv'
  OBVIOUS
<1>a. /\ tx' = tx
      /\ \A q \in Req : Admitted(q) => Admitted(q)'
      /\ skippedRange \subseteq skippedRange'
      /\ \A a \in Account : mined[a] <= mined'[a]
  BY AdmissionKept
<1>b. \A q \in Req : Sender(q)' = Sender(q) /\ Nonce(q)' = Nonce(q)
  BY <1>a DEF Sender, Nonce
<1>c. TypeOK'
  BY TypeStep
<1>d. \/ \E r \in Req : Handle(r) \/ SetSenderMaxNonce(r)
      \/ UNCHANGED <<pc, minNonce, setMax>>
  BY DEF Next, AllEnded, Mine, TimePasses, vars, control, locals
<1>1. ASSUME NEW r \in Req, pc'[r] = "getMaxNonce"
      PROVE  minNonce'[r] <= mined'[Sender(r)]
  <2>1. CASE Handle(r) \/ SetSenderMaxNonce(r)
    BY <1>1, <2>1, NonceOwn
  <2>2. CASE pc'[r] = pc[r] /\ minNonce'[r] = minNonce[r]
    <3>1. /\ Sender(r) \in Account /\ minNonce[r] \in Nat
      BY <1>1, <2>2, RedisAssumption
      DEF TypeOK, RequestTypeOK, LocalTypeOK, Sender
    <3>2. mined[Sender(r)] \in Nat /\ mined'[Sender(r)] \in Nat
      BY <3>1, <1>c DEF TypeOK, OutsideTypeOK
    <3> QED
      BY <1>1, <1>a, <2>2, <3>1, <3>2 DEF NonceInv
  <2> QED
    BY <1>d, <2>1, <2>2, OneRequestAtATime DEF OnlyOf
<1>2. ASSUME NEW x \in Account, senderMaxNonce'[x].exp > 0
      PROVE  \E q \in Req : /\ Admitted(q)' /\ Sender(q) = x
                            /\ Nonce(q) = senderMaxNonce'[x].val
  <2>1. CASE senderMaxNonce'[x] = senderMaxNonce[x]
    BY <1>2, <1>a, <2>1 DEF NonceInv, AdmittedNonce
  <2>2. ASSUME NEW r \in Req, NEW e \in Nat, Admitted(r), tx[r] \in Tx, x = Sender(r),
               senderMaxNonce' = [senderMaxNonce EXCEPT ![Sender(r)] =
                                      [val |-> Nonce(r), exp |-> e]]
        PROVE  Admitted(r)' /\ Nonce(r) = senderMaxNonce'[x].val
    BY <1>a, <2>2 DEF TypeOK, RedisTypeOK
  <2> QED
    BY <2>1, <2>2, MaxNonceFrame, Zenon DEF TypeOK, RedisTypeOK
<1>3. NoNonceGap'
  <2> SUFFICES ASSUME NEW r \in Req, Admitted(r)',
                      \A q \in skippedRange' : Sender(q) # Sender(r),
                      NEW k \in (mined'[Sender(r)] + 1)..(Nonce(r) - 1)
               PROVE  AdmittedNonce(Sender(r), k)
    <3>1. skippedRange' \subseteq Req
      BY <1>c DEF TypeOK, OutsideTypeOK
    <3> QED
      BY <1>a, <1>b, <3>1 DEF NoNonceGap, AdmittedNonce
  <2>0. Sender(r) \in Account /\ Nonce(r) \in Nat
    BY <1>a, <1>b, <1>c, RedisAssumption
    DEF TypeOK, RequestTypeOK, LocalTypeOK, Admitted, Sender, Nonce
  <2>1. k \in (mined[Sender(r)] + 1)..(Nonce(r) - 1)
    <3>1. mined[Sender(r)] \in Nat /\ mined'[Sender(r)] \in Nat
      BY <2>0, <1>c DEF TypeOK, OutsideTypeOK
    <3> QED
      BY <1>a, <2>0, <3>1
  <2>2. CASE Admitted(r)
    BY <1>a, <2>1, <2>2 DEF NonceInv, NoNonceGap, AdmittedNonce
  <2>3. CASE ~Admitted(r)
    <3>1. Handle(r) \/ SetSenderMaxNonce(r)
      BY <1>d, <2>3, OneRequestAtATime DEF OnlyOf, Admitted
    <3> QED
      BY <1>a, <2>1, <2>3, <3>1, NonceOwn, InRangeNoGap DEF Admitted
  <2> QED
    BY <2>2, <2>3
<1> QED
  BY <1>1, <1>2, <1>3, <1>b DEF NonceInv, AdmittedNonce

\* The nonces let through for an account have no gap above the mined ones, for
\* any number of requests and goroutines, maxima that expire, and a node that
\* lags behind the chain.
THEOREM NonceGapTheorem == Spec => []NoNonceGap
<1>1. Init => TypeOK /\ NonceInv
  BY TypeInit, NonceInvInit
<1>2. TypeOK /\ NonceInv /\ [Next]_vars => (TypeOK /\ NonceInv)'
  BY TypeStep, NonceInvStep
<1>3. NonceInv => NoNonceGap
  BY DEF NonceInv
<1> QED
  BY <1>1, <1>2, <1>3, PTL DEF Spec

-----------------------------------------------------------------------------
\* Cancellations.

\* The hash under a sender and nonce changes with sendTxToRelay only, for a
\* request that is past the nonce check.
LEMMA HashFrame ==
  ASSUME TypeOK, [Next]_vars
  PROVE  \/ UNCHANGED txHashForSenderAndNonce
         \/ \E r \in Req : /\ pc[r] = "setTxHash" /\ tx[r] \in Tx
                           /\ \E e \in Nat : txHashForSenderAndNonce' =
                                [txHashForSenderAndNonce EXCEPT ![SlotOf(tx[r])] =
                                     [val |-> tx[r], exp |-> e]]
<1> USE DEF redis, RedisErr
<1>1. ASSUME NEW r \in Req,
             \/ RejectUndecodable(r) \/ PanicOnParameter(r)
             \/ AddToBundle(r) \/ GetInitial(r) \/ GetInitialSent(r)
             \/ GetCancelSent(r) \/ SendMempool(r) \/ CancelAtRelay(r)
             \/ GetSent(r) \/ GetStatus(r) \/ GetMinNonce(r)
             \/ GetMinNonceUnreadable(r) \/ GetMaxNonce(r)
             \/ GetBlockNumber(r) \/ SendToRelay(r) \/ SetMaxGet(r)
      PROVE  UNCHANGED txHashForSenderAndNonce
  BY <1>1, Zenon DEF RejectUndecodable, PanicOnParameter, AddToBundle, GetInitial,
          GetInitialSent, GetCancelSent, SendMempool, CancelAtRelay,
          GetSent, GetStatus, GetMinNonce, GetMinNonceUnreadable,
          GetMaxNonce, GetBlockNumber, SendToRelay, SetMaxGet
<1>2. ASSUME NEW r \in Req,
             Receive(r) \/ RememberNonce(r) \/ SetMaxSet(r) \/ SetSent(r) \/ SetCancelSent(r)
      PROVE  UNCHANGED txHashForSenderAndNonce
  BY <1>2, Zenon DEF Receive, RememberNonce, SetMaxSet, SetSent, SetCancelSent, MarkSent,
     SetSenderOfTxHash, SetNonceOfTxHash, PutSenderMaxNonce, SetTxSentToRelay
<1>3. ASSUME NEW r \in Req, SetTxHash(r), ~UNCHANGED txHashForSenderAndNonce
      PROVE  /\ pc[r] = "setTxHash" /\ tx[r] \in Tx
             /\ \E e \in Nat : txHashForSenderAndNonce' =
                  [txHashForSenderAndNonce EXCEPT ![SlotOf(tx[r])] =
                       [val |-> tx[r], exp |-> e]]
  <2>1. pc[r] = "setTxHash" /\ tx[r] \in Tx /\ now + KeyTTL \in Nat
    BY <1>3, RedisAssumption DEF SetTxHash, TypeOK, RequestTypeOK, RedisTypeOK
  <2> QED
    BY <1>3, <2>1, Zenon DEF SetTxHash, SetTxHashForSenderAndNonce, Put
<1>4. ASSUME \/ \E a \in Account : Mine(a)
             \/ TimePasses
             \/ UNCHANGED vars
      PROVE  UNCHANGED txHashForSenderAndNonce
  BY <1>4 DEF Mine, TimePasses, Tick, vars
<1> QED
  BY <1>1, <1>2, <1>3, <1>4, Zenon
  DEF Next, Handle, Cancelling, Sending, SetSenderMaxNonce, AllEnded

\* No hash can be looked up at the start.
LEMMA CancelInvInit == Init => CancelInv
  BY DEF Init, RedisInit, Gone, CancelInv, HashInv, CancelInvOf

\* What handleCancelTx can look up by sender and nonce stays an admitted hash.
LEMMA HashInvStep ==
  ASSUME TypeOK, CancelInv, [Next]_vars
  PROVE  HashInv'
<1>1. tx' = tx /\ \A q \in Req : Admitted(q) => Admitted(q)'
  BY AdmissionKept, Zenon
<1> SUFFICES ASSUME NEW s \in Slot, txHashForSenderAndNonce'[s].exp > 0
             PROVE  LET t == txHashForSenderAndNonce'[s].val IN
                    /\ t \in Tx /\ SlotOf(t) = s
                    /\ \E q \in Req : tx[q] = t /\ Admitted(q)'
  BY <1>1, Zenon DEF HashInv
<1>2. CASE txHashForSenderAndNonce'[s] = txHashForSenderAndNonce[s]
  BY <1>1, <1>2, Zenon DEF CancelInv, HashInv
<1>3. ASSUME NEW r \in Req, pc[r] = "setTxHash", tx[r] \in Tx, s = SlotOf(tx[r]),
             NEW e \in Nat,
             txHashForSenderAndNonce' = [txHashForSenderAndNonce EXCEPT
                 ![SlotOf(tx[r])] = [val |-> tx[r], exp |-> e]]
      PROVE  txHashForSenderAndNonce'[s].val = tx[r] /\ Admitted(r)'
  BY <1>1, <1>3, Zenon DEF TypeOK, RedisTypeOK, CancelInv, CancelInvOf
<1> QED
  BY <1>2, <1>3, HashFrame, Zenon DEF TypeOK, RedisTypeOK

\* The invariant of a request that the step is not about.
LEMMA CancelInvOthers ==
  ASSUME TypeOK, CancelInv, [Next]_vars, NEW r \in Req, OnlyOf(r),
         NEW q \in Req \ {r}
  PROVE  CancelInvOf(q)'
<1>1. /\ tx' = tx
      /\ \A x \in Req : Admitted(x) => Admitted(x)'
      /\ \A x \in Req : markedUntil[x] > 0 => markedUntil'[x] > 0
  BY AdmissionKept, ClaimKept, Zenon
<1>2. /\ pc'[q] = pc[q] /\ initialTx'[q] = initialTx[q]
      /\ q \in cancelled' <=> q \in cancelled
  BY Zenon DEF OnlyOf
<1>3. CancelInvOf(q)
  BY DEF CancelInv
<1> QED
  BY <1>1, <1>2, <1>3, Zenon DEF CancelInvOf, Claimed

\* The invariant of the request that the step is about.
LEMMA CancelInvOwn ==
  ASSUME TypeOK, MarkInv, CancelInv, [Next]_vars, NEW r \in Req,
         Handle(r) \/ SetSenderMaxNonce(r)
  PROVE  CancelInvOf(r)'
<1>1. /\ tx' = tx
      /\ \A x \in Req : Admitted(x) => Admitted(x)'
      /\ \A x \in Req : markedUntil[x] > 0 => markedUntil'[x] > 0
  BY AdmissionKept, ClaimKept, Zenon
<1>2. CancelInvOf(r)
  BY DEF CancelInv
\* While initialTx[r] does not change, what is known of it stays true.
<1>3. /\ (\E q \in Req : tx[q] = initialTx[r] /\ Admitted(q)) =>
            \E q \in Req : tx'[q] = initialTx[r] /\ Admitted(q)'
      /\ Claimed(initialTx[r], Req) =>
            \E q \in Req : tx'[q] = initialTx[r] /\ markedUntil'[q] > 0
  BY <1>1, Zenon DEF Claimed
<1>4. Admitted(r)' <=> setMax'[r] # "none"
  BY DEF Admitted
<1>5. CASE GetInitial(r)
  <2>1. SlotOf(tx[r]) \in Slot
    BY <1>5, Zenon DEF GetInitial, Slot, SlotOf, TypeOK, RequestTypeOK
  <2>2. ASSUME Found(txHashForSenderAndNonce[SlotOf(tx[r])])
        PROVE  LET t == txHashForSenderAndNonce[SlotOf(tx[r])].val IN
               /\ t \in Tx /\ SlotOf(t) = SlotOf(tx[r])
               /\ \E q \in Req : tx[q] = t /\ Admitted(q)
    <3>1. txHashForSenderAndNonce[SlotOf(tx[r])].exp > 0
      BY <2>1, <2>2 DEF Found, TypeOK, RedisTypeOK, Entry
    <3> QED
      BY <2>1, <3>1, Zenon DEF CancelInv, HashInv
  <2>3. pc'[r] \in {"getSent", "getInitialSent", "done"} /\ cancelled' = cancelled
    BY <1>5 DEF GetInitial, NotACancellation, Goto, Fail, services, TypeOK, RequestTypeOK
  <2>4. r \notin cancelled
    BY <1>2, <1>5, Zenon DEF CancelInvOf, GetInitial
  <2>5. CASE pc'[r] = "getInitialSent"
    <3>1. /\ Found(txHashForSenderAndNonce[SlotOf(tx[r])])
          /\ initialTx'[r] = txHashForSenderAndNonce[SlotOf(tx[r])].val
      BY <1>5, <2>5 DEF GetInitial, NotACancellation, Goto, Fail, TypeOK,
         RequestTypeOK, LocalTypeOK
    <3> QED
      BY <1>1, <2>2, <2>3, <2>4, <2>5, <3>1, Zenon DEF CancelInvOf
  <2> QED
    BY <2>3, <2>4, <2>5, Zenon DEF CancelInvOf
<1>6. CASE GetInitialSent(r)
  <2>1. Found(txSentToRelay[initialTx[r]]) => Claimed(initialTx[r], Req)
    <3>1. initialTx[r] \in Tx
      BY <1>2, <1>6, Zenon DEF CancelInvOf, GetInitialSent
    <3>2. now \in Nat /\ txSentToRelay[initialTx[r]].exp \in Nat
      BY <3>1 DEF TypeOK, RedisTypeOK, Entry
    <3>3. Found(txSentToRelay[initialTx[r]]) => txSentToRelay[initialTx[r]].exp > 0
      BY <3>2 DEF Found
    <3> QED
      BY <3>1, <3>3, Zenon DEF MarkInv
  <2> QED
    BY <1>1, <1>2, <1>3, <1>6, <2>1, Zenon DEF GetInitialSent, CancelInvOf, Claimed, Goto,
       Fail, NotACancellation, TypeOK, RequestTypeOK, locals, services
<1>7. ASSUME \/ GetCancelSent(r) \/ SetCancelSent(r) \/ SendMempool(r)
             \/ CancelAtRelay(r)
      PROVE  CancelInvOf(r)'
  <2>1. initialTx' = initialTx /\ cancelled' \in {cancelled, cancelled \cup {r}}
    BY <1>7, Zenon DEF GetCancelSent, SetCancelSent, SendMempool, CancelAtRelay, locals, services
  <2>2. /\ pc[r] \in {"getCancelSent", "setCancelSent", "sendMempool", "cancelAtRelay"}
        /\ pc'[r] \in {"setCancelSent", "sendMempool", "cancelAtRelay", "done"}
        /\ r \in cancelled' => r \in cancelled \/ pc'[r] = "done"
    BY <1>7, Zenon DEF GetCancelSent, SetCancelSent, SendMempool, CancelAtRelay, Goto, Fail,
       Succeed, services, TypeOK, RequestTypeOK
  <2> QED
    BY <1>1, <1>2, <1>3, <2>1, <2>2, Zenon DEF CancelInvOf, Claimed
\* Every other step leaves the cancellation alone.
<1> DEFINE Past == {"setTxHash", "getBlockNumber", "sendToRelay"}
           Quiet == /\ initialTx' = initialTx /\ cancelled' = cancelled
                    /\ pc'[r] = pc[r] \/ pc[r] # "done"
                    /\ pc'[r] \in Past => setMax'[r] # "none" \/ pc[r] \in Past
                    /\ \/ pc'[r] = pc[r]
                       \/ pc'[r] \notin {"getInitialSent", "getCancelSent",
                              "setCancelSent", "sendMempool", "cancelAtRelay"}
<1>8. Quiet => CancelInvOf(r)'
  BY <1>1, <1>2, <1>3, <1>4, Zenon DEF CancelInvOf, Claimed
<1> USE DEF Goto, Fail, Succeed, NotACancellation, TypeOK, RequestTypeOK, LocalTypeOK,
            services, control, locals
<1>11. CASE RejectUndecodable(r)
  <2>1. Quiet
    BY <1>11 DEF RejectUndecodable
  <2> QED
    BY <2>1, <1>8, Zenon
<1>12. CASE PanicOnParameter(r)
  <2>1. Quiet
    BY <1>12 DEF PanicOnParameter
  <2> QED
    BY <2>1, <1>8, Zenon
<1>13. CASE Receive(r)
  <2>1. Quiet
    BY <1>13 DEF Receive, Dispatch
  <2> QED
    BY <2>1, <1>8, Zenon
<1>14. CASE RememberNonce(r)
  <2>1. Quiet
    BY <1>14 DEF RememberNonce, Dispatch
  <2> QED
    BY <2>1, <1>8, Zenon
<1>15. CASE AddToBundle(r)
  <2>1. Quiet
    BY <1>15 DEF AddToBundle
  <2> QED
    BY <2>1, <1>8, Zenon
<1>16. CASE GetSent(r)
  <2>1. Quiet
    BY <1>16, Zenon DEF GetSent
  <2> QED
    BY <2>1, <1>8, Zenon
<1>17. CASE GetStatus(r)
  <2>1. Quiet
    BY <1>17 DEF GetStatus
  <2> QED
    BY <2>1, <1>8, Zenon
<1>18. CASE SetSent(r)
  <2>1. Quiet
    BY <1>18 DEF SetSent
  <2> QED
    BY <2>1, <1>8, Zenon
<1>19. CASE GetMinNonce(r)
  <2>1. Quiet
    BY <1>19 DEF GetMinNonce, Admit
  <2> QED
    BY <2>1, <1>8, Zenon
<1>20. CASE GetMinNonceUnreadable(r)
  <2>1. Quiet
    BY <1>20 DEF GetMinNonceUnreadable
  <2> QED
    BY <2>1, <1>8, Zenon
<1>21. CASE GetMaxNonce(r)
  <2>1. Admit(r) \/ (Fail(r) /\ UNCHANGED setMax)
    BY <1>21, Zenon DEF GetMaxNonce
  <2>2. pc[r] = "getMaxNonce" /\ initialTx' = initialTx /\ cancelled' = cancelled
    BY <1>21, Zenon DEF GetMaxNonce
  <2>3. pc'[r] \in {"setTxHash", "done"} /\ (pc'[r] = "setTxHash" => setMax'[r] = "get")
    BY <2>1 DEF Admit
  <2> QED
    BY <2>2, <2>3, <1>8, Zenon
<1>22. CASE SetTxHash(r)
  <2>1. Quiet
    BY <1>22 DEF SetTxHash
  <2> QED
    BY <2>1, <1>8, Zenon
<1>23. CASE GetBlockNumber(r)
  <2>1. Quiet
    BY <1>23 DEF GetBlockNumber
  <2> QED
    BY <2>1, <1>8, Zenon
<1>24. CASE SendToRelay(r)
  <2>1. Quiet
    BY <1>24 DEF SendToRelay
  <2> QED
    BY <2>1, <1>8, Zenon
<1>25. CASE SetMaxGet(r)
  <2>1. Quiet
    BY <1>25, Zenon DEF SetMaxGet
  <2> QED
    BY <2>1, <1>8, Zenon
<1>26. CASE SetMaxSet(r)
  <2>1. Quiet
    BY <1>26 DEF SetMaxSet
  <2> QED
    BY <2>1, <1>8, Zenon
<1> QED
  BY <1>5, <1>6, <1>7, <1>11, <1>12, <1>13, <1>14, <1>15, <1>16, <1>17, <1>18,
     <1>19, <1>20, <1>21, <1>22, <1>23, <1>24, <1>25, <1>26
  DEF Handle, Cancelling, Sending, SetSenderMaxNonce

\* Every step keeps the hash each cancellation works on a right one.
LEMMA CancelInvStep == TypeOK /\ MarkInv /\ CancelInv /\ [Next]_vars => CancelInv'
<1> SUFFICES ASSUME TypeOK, MarkInv, CancelInv, [Next]_vars PROVE CancelInv'
  OBVIOUS
<1>1. ASSUME NEW r \in Req, Handle(r) \/ SetSenderMaxNonce(r)
      PROVE  \A q \in Req : CancelInvOf(q)'
  BY <1>1, CancelInvOwn, CancelInvOthers, OneRequestAtATime
<1>2. ASSUME \/ \E a \in Account : Mine(a)
             \/ TimePasses
             \/ UNCHANGED vars
      PROVE  \A q \in Req : CancelInvOf(q)'
  <2>1. UNCHANGED <<tx, pc, initialTx, cancelled, setMax, markedUntil>>
    BY <1>2 DEF Mine, TimePasses, vars, request, control, locals, services, history
  <2> QED
    BY <2>1 DEF CancelInv, CancelInvOf, Claimed, Admitted
<1> QED
  BY <1>1, <1>2, HashInvStep DEF Next, AllEnded, CancelInv

\* A cancellation that reaches the relay names a transaction of the same sender
\* and nonce that sendTxToRelay admitted and marked, although hash and mark are
\* written, read and expire independently.
THEOREM CancelTheorem == Spec => []CancelTargetsAdmitted
<1>1. Init => TypeOK /\ MarkInv /\ CancelInv
  BY TypeInit, MarkInvInit, CancelInvInit
<1>2. TypeOK /\ MarkInv /\ CancelInv /\ [Next]_vars => (TypeOK /\ MarkInv /\ CancelInv)'
  BY TypeStep, MarkInvStep, CancelInvStep
<1>3. TypeOK /\ CancelInv => CancelTargetsAdmitted
  BY Zenon DEF TypeOK, OutsideTypeOK, CancelInv, CancelInvOf, Claimed, CancelTargetsAdmitted
<1> QED
  BY <1>1, <1>2, <1>3, PTL DEF Spec
=============================================================================
