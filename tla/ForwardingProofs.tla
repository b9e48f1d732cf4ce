--------------------------- MODULE ForwardingProofs --------------------------
(***************************************************************************)
(* What reaches the relay has been vetted, and TxRelay implements the      *)
(* promises of Forwarding.                                                 *)
(***************************************************************************)
EXTENDS RelayForwards, TxRelayNonces

\* Nothing has been checked or sent at the start.
LEMMA VetInvInit == Init => VetInv
  BY DEF Init, VetInv, VetInvOf, Admitted, CancelLabels, AfterCheck, AfterAdmission

\* The invariant of a request that the step is not about.
LEMMA VetInvOthers ==
  ASSUME VetInv, NEW r \in Req, OnlyOf(r), NEW q \in Req \ {r}
  PROVE  VetInvOf(q)'
<1>1. VetInvOf(q)
  BY DEF VetInv
<1>2. /\ tx' = tx /\ debug' = debug /\ pc'[q] = pc[q] /\ setMax'[q] = setMax[q]
      /\ entry'[q] = entry[q]
      /\ q \in relayed' <=> q \in relayed
      /\ q \in cancelled' <=> q \in cancelled
      /\ q \in bundled' <=> q \in bundled
      /\ q \in mempooled' <=> q \in mempooled
  BY DEF OnlyOf
<1> QED
  BY <1>1, <1>2 DEF VetInvOf, Nonce, Admitted

\* The invariant of the request that the step is about.
LEMMA VetInvOwn ==
  ASSUME TypeOK, VetInv, NEW r \in Req, Handle(r) \/ SetSenderMaxNonce(r)
  PROVE  VetInvOf(r)'
<1>1. VetInvOf(r)
  BY DEF VetInv
<1>2. tx' = tx /\ debug' = debug
  BY OneRequestAtATime DEF OnlyOf
<1> USE DEF VetInvOf, TypeOK, RequestTypeOK, LocalTypeOK, OutsideTypeOK, control,
            services, Goto, Fail, Succeed, NotACancellation, Nonce, Admitted, Labels,
            CancelLabels, AfterCheck, AfterAdmission, BeforeAdmission
<1>11. CASE RejectUndecodable(r)
  BY <1>11, <1>1, <1>2 DEF RejectUndecodable
<1>12. CASE PanicOnParameter(r)
  BY <1>12, <1>1, <1>2 DEF PanicOnParameter
<1>13. CASE Receive(r)
  BY <1>13, <1>1, <1>2 DEF Receive, Dispatch
<1>14. CASE RememberNonce(r)
  BY <1>14, <1>1, <1>2 DEF RememberNonce, Dispatch
<1>15. CASE AddToBundle(r)
  BY <1>15, <1>1, <1>2 DEF AddToBundle
<1>16. CASE GetInitial(r)
  BY <1>16, <1>1, <1>2 DEF GetInitial
<1>17. CASE GetInitialSent(r)
  BY <1>17, <1>1, <1>2 DEF GetInitialSent
<1>18. CASE GetCancelSent(r)
  BY <1>18, <1>1, <1>2 DEF GetCancelSent
<1>19. CASE SetCancelSent(r)
  BY <1>19, <1>1, <1>2 DEF SetCancelSent
<1>20. CASE SendMempool(r)
  BY <1>20, <1>1, <1>2 DEF SendMempool
<1>21. CASE CancelAtRelay(r)
  BY <1>21, <1>1, <1>2 DEF CancelAtRelay
<1>22. CASE GetSent(r)
  BY <1>22, <1>1, <1>2 DEF GetSent
<1>23. CASE GetStatus(r)
  BY <1>23, <1>1, <1>2 DEF GetStatus
<1>24. CASE SetSent(r)
  BY <1>24, <1>1, <1>2 DEF SetSent
<1>25. CASE GetMinNonce(r)
  BY <1>25, <1>1, <1>2 DEF GetMinNonce, Admit
<1>26. CASE GetMinNonceUnreadable(r)
  BY <1>26, <1>1, <1>2 DEF GetMinNonceUnreadable
<1>27. CASE GetMaxNonce(r)
  <2>1. /\ pc[r] = "getMaxNonce"
        /\ Admit(r) \/ (Fail(r) /\ UNCHANGED setMax)
        /\ UNCHANGED <<request, services, history>>
    BY <1>27 DEF GetMaxNonce
  <2> QED
    BY <1>1, <1>2, <2>1 DEF Admit
<1>28. CASE SetTxHash(r)
  BY <1>28, <1>1, <1>2 DEF SetTxHash
<1>29. CASE GetBlockNumber(r)
  BY <1>29, <1>1, <1>2 DEF GetBlockNumber
<1>30. CASE SendToRelay(r)
  BY <1>30, <1>1, <1>2 DEF SendToRelay
<1>31. CASE SetMaxGet(r)
  BY <1>31, <1>1, <1>2, Zenon DEF SetMaxGet
<1>32. CASE SetMaxSet(r)
  BY <1>32, <1>1, <1>2 DEF SetMaxSet
<1> QED
  BY <1>11, <1>12, <1>13, <1>14, <1>15, <1>16, <1>17, <1>18, <1>19, <1>20, <1>21, <1>22, <1>23, <1>24, <1>25, <1>26, <1>27, <1>28, <1>29, <1>30, <1>31, <1>32, Zenon
  DEF Handle, Cancelling, Sending, SetSenderMaxNonce

\* Every step keeps what the checks have established.
LEMMA VetInvStep == TypeOK /\ VetInv /\ [Next]_vars => VetInv'
<1> SUFFICES ASSUME TypeOK, VetInv, [Next]_vars PROVE VetInv'
  OBVIOUS
<1>1. ASSUME NEW r \in Req, Handle(r) \/ SetSenderMaxNonce(r) PROVE VetInv'
  BY <1>1, VetInvOwn, VetInvOthers, OneRequestAtATime DEF VetInv
<1>2. ASSUME \/ \E a \in Account : Mine(a)
             \/ TimePasses
             \/ UNCHANGED vars
      PROVE  VetInv'
  <2>1. UNCHANGED <<tx, debug, pc, entry, setMax, relayed, cancelled, mempooled, bundled>>
    BY <1>2 DEF Mine, TimePasses, vars, request, control, services
  <2> QED
    BY <2>1 DEF VetInv, VetInvOf, Nonce, Admitted
<1> QED
  BY <1>1, <1>2 DEF Next, AllEnded

\* What reaches the relay went through every check of handle_sendRawTransaction
\* and sendTxToRelay, for any requests, options and failures.
THEOREM VettedTheorem == Spec => []OnlyVettedRelayed
<1>1. Init => TypeOK /\ VetInv
  BY TypeInit, VetInvInit
<1>2. TypeOK /\ VetInv /\ [Next]_vars => (TypeOK /\ VetInv)'
  BY TypeStep, VetInvStep
<1>3. TypeOK /\ VetInv => OnlyVettedRelayed
  BY DEF TypeOK, OutsideTypeOK, VetInv, VetInvOf, OnlyVettedRelayed
<1> QED
  BY <1>1, <1>2, <1>3, PTL DEF Spec

-----------------------------------------------------------------------------
\* Every call takes a request, or its goroutine, further.  That the goroutine is
\* started once needs the invariant: a request is not admitted before the nonce
\* check.
LEMMA AdvanceOwn ==
  ASSUME TypeOK, VetInv, NEW r \in Req, Handle(r) \/ SetSenderMaxNonce(r)
  PROVE  Advances(r)
<1>1. /\ pc \in [Req -> Labels]
      /\ setMax \in [Req -> {"none", "get", "set", "end"}]
  BY DEF TypeOK, RequestTypeOK, LocalTypeOK
<1>2. /\ CallRank["idle"] = 0 /\ CallRank["setNonce"] = 1
      /\ CallRank["addToBundle"] = 2 /\ CallRank["getInitial"] = 2
      /\ CallRank["getInitialSent"] = 3 /\ CallRank["getCancelSent"] = 4
      /\ CallRank["setCancelSent"] = 5 /\ CallRank["sendMempool"] = 6
      /\ CallRank["cancelAtRelay"] = 7 /\ CallRank["getSent"] = 8
      /\ CallRank["getStatus"] = 9 /\ CallRank["setSent"] = 10
      /\ CallRank["getMinNonce"] = 11 /\ CallRank["getMaxNonce"] = 12
      /\ CallRank["setTxHash"] = 13 /\ CallRank["getBlockNumber"] = 14
      /\ CallRank["sendToRelay"] = 15
      /\ CallRank["done"] = 16 /\ CallRank["panic"] = 16
  BY DEF CallRank
<1>3. /\ GoRank["none"] = 0 /\ GoRank["get"] = 1
      /\ GoRank["set"] = 2 /\ GoRank["end"] = 3
  BY DEF GoRank
<1>4. GoRank[setMax[r]] \in Nat
  BY <1>1, <1>3
<1>5. ASSUME setMax' = setMax, CallRank[pc[r]] < CallRank[pc'[r]]
      PROVE  Advances(r)
  BY <1>4, <1>5 DEF Advances
<1>6. CASE RejectUndecodable(r) \/ PanicOnParameter(r) \/ Receive(r) \/ RememberNonce(r)
           \/ AddToBundle(r)
  <2>1. setMax' = setMax
    BY <1>6, Zenon DEF RejectUndecodable, PanicOnParameter, Receive, RememberNonce, AddToBundle
  <2>2. \/ pc[r] = "idle" /\ pc'[r] \in {"done", "panic", "setNonce"}
        \/ /\ pc[r] \in {"idle", "setNonce"}
           /\ pc'[r] \in {"done", "addToBundle", "getInitial", "getSent"}
        \/ pc[r] = "addToBundle" /\ pc'[r] = "done"
    <3>1. Dispatch(r) => pc'[r] \in {"done", "addToBundle", "getInitial", "getSent"}
      BY <1>1 DEF Dispatch, Fail, Goto
    <3>2. CASE RejectUndecodable(r) \/ PanicOnParameter(r) \/ AddToBundle(r)
      BY <1>1, <3>2 DEF RejectUndecodable, PanicOnParameter, AddToBundle, Fail, Succeed
    <3>3. CASE Receive(r) \/ RememberNonce(r)
      BY <1>1, <3>1, <3>3 DEF Receive, RememberNonce, Fail, Goto
    <3> QED
      BY <1>6, <3>2, <3>3
  <2> QED
    BY <1>2, <1>5, <2>1, <2>2
<1>7. CASE Cancelling(r)
  <2>1. setMax' = setMax
    BY <1>7, Zenon DEF Cancelling, GetInitial, GetInitialSent, GetCancelSent, SetCancelSent,
       SendMempool, CancelAtRelay
  <2>2. \/ pc[r] = "getInitial" /\ pc'[r] \in {"getInitialSent", "getSent", "done"}
        \/ pc[r] = "getInitialSent" /\ pc'[r] \in {"getCancelSent", "getSent", "done"}
        \/ pc[r] = "getCancelSent" /\ pc'[r] \in {"setCancelSent", "done"}
        \/ pc[r] = "setCancelSent" /\ pc'[r] \in {"sendMempool", "cancelAtRelay", "done"}
        \/ pc[r] = "sendMempool" /\ pc'[r] \in {"cancelAtRelay", "done"}
        \/ pc[r] = "cancelAtRelay" /\ pc'[r] = "done"
    <3>1. CASE GetInitial(r) \/ GetInitialSent(r)
      BY <1>1, <3>1 DEF GetInitial, GetInitialSent, Fail, Goto, NotACancellation
    <3>2. CASE GetCancelSent(r) \/ SetCancelSent(r)
      BY <1>1, <3>2 DEF GetCancelSent, SetCancelSent, Fail, Goto, Succeed
    <3>3. CASE SendMempool(r) \/ CancelAtRelay(r)
      BY <1>1, <3>3 DEF SendMempool, CancelAtRelay, Fail, Goto, Succeed
    <3> QED
      BY <1>7, <3>1, <3>2, <3>3 DEF Cancelling
  <2> QED
    BY <1>2, <1>5, <2>1, <2>2
<1>8. CASE GetSent(r) \/ GetStatus(r) \/ SetSent(r)
           \/ SetTxHash(r) \/ GetBlockNumber(r) \/ SendToRelay(r)
  <2>1. setMax' = setMax
    BY <1>8, Zenon DEF GetSent, GetStatus, SetSent, SetTxHash, GetBlockNumber, SendToRelay
  <2>2. \/ pc[r] = "getSent" /\ pc'[r] \in {"getStatus", "setSent"}
        \/ pc[r] = "getStatus" /\ pc'[r] \in {"setSent", "done"}
        \/ pc[r] = "setSent" /\ pc'[r] = "getMinNonce"
        \/ pc[r] = "setTxHash" /\ pc'[r] \in {"getBlockNumber", "sendToRelay", "done"}
        \/ pc[r] = "getBlockNumber" /\ pc'[r] \in {"sendToRelay", "done"}
        \/ pc[r] = "sendToRelay" /\ pc'[r] = "done"
    <3>1. CASE GetSent(r) \/ GetStatus(r)
      BY <1>1, <3>1 DEF GetSent, GetStatus, Goto
    <3>2. CASE SetSent(r) \/ SetTxHash(r) \/ GetBlockNumber(r) \/ SendToRelay(r)
      BY <1>1, <3>2, Zenon DEF SetSent, SetTxHash, GetBlockNumber, SendToRelay, Fail, Goto, Succeed
    <3> QED
      BY <1>8, <3>1, <3>2
  <2> QED
    BY <1>2, <1>5, <2>1, <2>2
<1>9. CASE GetMinNonce(r) \/ GetMinNonceUnreadable(r) \/ GetMaxNonce(r)
  <2>1. \/ pc[r] = "getMinNonce" /\ pc'[r] \in {"getMaxNonce", "setTxHash", "done"}
        \/ pc[r] = "getMaxNonce" /\ pc'[r] \in {"setTxHash", "done"}
    <3>1. Admit(r) => pc'[r] \in {"setTxHash", "done"}
      BY <1>1 DEF Admit, Fail, Goto
    <3> QED
      BY <1>1, <1>9, <3>1 DEF GetMinNonce, GetMinNonceUnreadable, GetMaxNonce, Fail, Goto
  <2>2. setMax' = setMax \/ setMax' = [setMax EXCEPT ![r] = "get"]
    BY <1>9, Zenon DEF GetMinNonce, GetMinNonceUnreadable, GetMaxNonce, Admit
  <2>3. setMax[r] = "none"
    BY <2>1 DEF VetInv, VetInvOf, BeforeAdmission, Labels, AfterAdmission, Admitted
  <2>4. GoRank[setMax[r]] <= GoRank[setMax'[r]]
    <3>1. setMax'[r] \in {"none", "get"}
      BY <1>1, <2>2, <2>3, Zenon
    <3> QED
      BY <1>3, <2>3, <3>1
  <2> QED
    BY <1>2, <2>1, <2>4 DEF Advances
<1>10. CASE SetSenderMaxNonce(r)
  <2>1. pc' = pc
    BY <1>10, Zenon DEF SetSenderMaxNonce, SetMaxGet, SetMaxSet, control
  <2>2. \/ setMax[r] = "get" /\ setMax'[r] \in {"set", "end"}
        \/ setMax[r] = "set" /\ setMax'[r] = "end"
    BY <1>1, <1>10 DEF SetSenderMaxNonce, SetMaxGet, SetMaxSet
  <2> QED
    BY <1>3, <2>1, <2>2 DEF Advances
<1> QED
  BY <1>6, <1>7, <1>8, <1>9, <1>10 DEF Handle, Sending

\* A request of handle_sendRawTransaction, and the goroutine it starts, never
\* returns to a call it has made: the measure behind HangsOnlyOutside, for any number
\* of requests and any faults.
THEOREM AdvanceTheorem == Spec => RequestsAdvance
<1> DEFINE Advance ==
      /\ \A r \in Req : Advances(r) \/ UNCHANGED <<pc[r], setMax[r]>>
      /\ (\E r \in Req : Advances(r)) \/ now' # now \/ mined' # mined
<1>1. Init => TypeOK /\ VetInv
  BY TypeInit, VetInvInit
<1>2. TypeOK /\ VetInv /\ [Next]_vars => (TypeOK /\ VetInv)'
  BY TypeStep, VetInvStep
<1>3. TypeOK /\ VetInv /\ [Next]_vars => [Advance]_vars
  <2> SUFFICES ASSUME TypeOK, VetInv, Next, ~UNCHANGED vars PROVE Advance
    BY Zenon
  <2>1. ASSUME NEW r \in Req, Handle(r) \/ SetSenderMaxNonce(r) PROVE Advance
    <3>1. Advances(r)
      BY <2>1, AdvanceOwn
    <3>2. \A q \in Req \ {r} : UNCHANGED <<pc[q], setMax[q]>>
      BY <2>1, OneRequestAtATime, Zenon DEF OnlyOf
    <3> QED
      BY <3>1, <3>2, Zenon
  <2>2. ASSUME (\E a \in Account : Mine(a)) \/ TimePasses PROVE Advance
    <3>1. UNCHANGED <<pc, setMax>>
      BY <2>2 DEF Mine, TimePasses, control
    <3>2. mined' # mined \/ now' # now
      BY <2>2 DEF Mine, TimePasses, Tick, TypeOK, OutsideTypeOK, RedisTypeOK
    <3> QED
      BY <3>1, <3>2, Zenon
  <2> QED
    BY <2>1, <2>2, Zenon DEF Next, AllEnded
<1> QED
  BY <1>1, <1>2, <1>3, PTL DEF Spec, RequestsAdvance
-----------------------------------------------------------------------------
(* The refinement.  A step of a request changes what Forwarding sees of that *)
(* request only.                                                             *)

Claims(r) == markedUntil[r] > 0
SameClaim(r) == Claims(r)' <=> Claims(r)
SameAdmission(r) == Admitted(r)' <=> Admitted(r)

\* The state of Forwarding after a step of request r.
LEMMA MappedStep ==
  ASSUME NEW r \in Req, OnlyOf(r)
  PROVE  /\ tx' = tx /\ debug' = debug
         /\ [q \in Req |-> Answered(q)'] =
               [[q \in Req |-> Answered(q)] EXCEPT ![r] = Answered(r)']
         /\ SameClaim(r) =>
               {q \in Req : markedUntil'[q] > 0} = {q \in Req : markedUntil[q] > 0}
         /\ Claims(r)' => {q \in Req : markedUntil'[q] > 0} =
                             {q \in Req : markedUntil[q] > 0} \cup {r}
         /\ SameAdmission(r) => {q \in Req : Admitted(q)'} = {q \in Req : Admitted(q)}
         /\ Admitted(r)' =>
               {q \in Req : Admitted(q)'} = {q \in Req : Admitted(q)} \cup {r}
<1>1. tx' = tx /\ debug' = debug
  BY DEF OnlyOf
<1>2. \A q \in Req \ {r} : /\ Answered(q)' = Answered(q)
                           /\ markedUntil'[q] = markedUntil[q]
                           /\ Admitted(q)' <=> Admitted(q)
  BY DEF OnlyOf, Answered, Admitted
<1>3. [q \in Req |-> Answered(q)'] =
          [[q \in Req |-> Answered(q)] EXCEPT ![r] = Answered(r)']
  BY <1>2, Zenon
<1>4. /\ SameClaim(r) =>
            {q \in Req : markedUntil'[q] > 0} = {q \in Req : markedUntil[q] > 0}
      /\ Claims(r)' => {q \in Req : markedUntil'[q] > 0} =
                          {q \in Req : markedUntil[q] > 0} \cup {r}
  BY <1>2 DEF SameClaim, Claims
<1>5. /\ SameAdmission(r) => {q \in Req : Admitted(q)'} = {q \in Req : Admitted(q)}
      /\ Admitted(r)' =>
            {q \in Req : Admitted(q)'} = {q \in Req : Admitted(q)} \cup {r}
  BY <1>2 DEF SameAdmission
<1> QED
  BY <1>1, <1>3, <1>4, <1>5

\* A step that only moves the request on is no step of Forwarding.
LEMMA IsStutter ==
  ASSUME NEW r \in Req, OnlyOf(r), Answered(r)' = Answered(r), SameClaim(r),
         SameAdmission(r), UNCHANGED <<services, skippedRange>>
  PROVE  UNCHANGED F!promised
<1>1. [[q \in Req |-> Answered(q)] EXCEPT ![r] = Answered(r)] =
          [q \in Req |-> Answered(q)]
  OBVIOUS
<1> QED
  BY <1>1, MappedStep, Zenon DEF F!promised, F!checks, F!outside, services

\* A request that ends with an error, or panics.
LEMMA IsDecline ==
  ASSUME NEW r \in Req, OnlyOf(r), Answered(r) = "none",
         Answered(r)' \in {"error", "panic"}, SameClaim(r), SameAdmission(r),
         UNCHANGED <<services, skippedRange>>
  PROVE  F!Decline(r)
  BY MappedStep, Zenon DEF F!Decline, F!Pending, F!Answer, F!checks, F!outside, services

\* A request that records its transaction as sent.
LEMMA IsClaim ==
  ASSUME NEW r \in Req, OnlyOf(r), Answered(r) = "none", Answered(r)' = "none",
         ~Claims(r), Claims(r)', SameAdmission(r), UNCHANGED <<services, skippedRange>>
  PROVE  F!Claim(r)
<1>1. [[q \in Req |-> Answered(q)] EXCEPT ![r] = "none"] = [q \in Req |-> Answered(q)]
  OBVIOUS
<1> QED
  BY <1>1, MappedStep, Zenon DEF F!Claim, F!Pending, F!outside, services, Claims

\* A request whose nonce is accepted, or not checked.
LEMMA IsAdmit ==
  ASSUME NEW r \in Req, OnlyOf(r), tx[r] \in Tx, Answered(r) = "none",
         Answered(r)' \in {"none", "error"}, SameClaim(r), ~Admitted(r), Admitted(r)',
         r \notin mempooled, UNCHANGED services,
         \/ F!Follows(r) /\ UNCHANGED skippedRange
         \/ skippedRange' = skippedRange \cup {r}
  PROVE  F!Admit(r)
<1>1. [[q \in Req |-> Answered(q)] EXCEPT ![r] = "none"] = [q \in Req |-> Answered(q)]
  OBVIOUS
<1> QED
  BY <1>1, MappedStep, Zenon DEF F!Admit, F!Pending, F!Answer, F!outside, services

\* What handleCancelTx has found is a transaction the request replaces.
LEMMA Replacing ==
  ASSUME TypeOK, CancelInv, NEW r \in Req,
         pc[r] \in {"getCancelSent", "setCancelSent", "sendMempool", "cancelAtRelay"}
  PROVE  F!Replaces(r)
<1>1. /\ initialTx[r] \in Tx /\ SlotOf(initialTx[r]) = SlotOf(tx[r])
      /\ \E q \in Req : tx[q] = initialTx[r] /\ Admitted(q)
      /\ Claimed(initialTx[r], Req)
  BY DEF CancelInv, CancelInvOf
<1>2. PICK q \in Req : tx[q] = initialTx[r] /\ Admitted(q)
  BY <1>1
<1>3. PICK s \in Req : tx[s] = initialTx[r] /\ markedUntil[s] > 0
  BY <1>1 DEF Claimed
<1>4. TxFrom[initialTx[r]] = TxFrom[tx[r]] /\ TxNonce[initialTx[r]] = TxNonce[tx[r]]
  BY <1>1 DEF SlotOf
<1> QED
  BY <1>2, <1>3, <1>4 DEF F!Replaces, F!From, F!NonceOf

\* The range check of sendTxToRelay accepts only nonces that follow.
LEMMA Following ==
  ASSUME TypeOK, NonceInv, NEW r \in Req, pc[r] = "getMaxNonce",
         \/ InRange(r, 0)
         \/ /\ Found(senderMaxNonce[Sender(r)])
            /\ InRange(r, senderMaxNonce[Sender(r)].val)
  PROVE  F!Follows(r)
<1>1. tx[r] \in Tx /\ Sender(r) \in Account /\ Nonce(r) \in Nat
  BY RedisAssumption DEF TypeOK, RequestTypeOK, Sender, Nonce
<1>0. minNonce[r] \in Nat /\ mined[Sender(r)] \in Nat /\ minNonce[r] <= mined[Sender(r)]
  BY <1>1 DEF TypeOK, LocalTypeOK, OutsideTypeOK, NonceInv
<1>2. now \in Nat /\ senderMaxNonce[Sender(r)] \in [val : Nat, exp : Nat]
  BY <1>1, Zenon DEF TypeOK, RedisTypeOK, Entry
<1>3. CASE Nonce(r) <= mined[Sender(r)] + 1
  BY <1>3, Zenon DEF F!Follows, F!NonceOf, F!From, Nonce, Sender
<1>4. CASE ~(Nonce(r) <= mined[Sender(r)] + 1)
  <2>1. /\ Found(senderMaxNonce[Sender(r)])
        /\ Nonce(r) <= senderMaxNonce[Sender(r)].val + 1
    <3>0. ~(Nonce(r) <= minNonce[r] + 1)
      BY <1>0, <1>1, <1>4
    <3>1. ~InRange(r, 0)
      BY <1>0, <3>0 DEF InRange
    <3>2. /\ Found(senderMaxNonce[Sender(r)])
          /\ InRange(r, senderMaxNonce[Sender(r)].val)
      BY <3>1, Zenon
    <3>3. Nonce(r) <= minNonce[r] + 1 \/ Nonce(r) <= senderMaxNonce[Sender(r)].val + 1
      BY <3>2 DEF InRange
    <3> QED
      BY <3>0, <3>2, <3>3, Zenon
  <2>2. PICK q \in Req : /\ Admitted(q) /\ Sender(q) = Sender(r)
                         /\ Nonce(q) = senderMaxNonce[Sender(r)].val
    BY <1>1, <1>2, <2>1 DEF NonceInv, AdmittedNonce, Found
  <2> QED
    BY <2>1, <2>2, Zenon DEF F!Follows, F!NonceOf, F!From, Nonce, Sender
<1> QED
  BY <1>3, <1>4
\* A step of a handler, or of the goroutine it started, is one step of
\* Forwarding or none.
LEMMA ForwardOwn ==
  ASSUME TypeOK, MarkInv, PassInv, NonceInv, CancelInv, VetInv, [Next]_vars,
         NEW r \in Req, Handle(r) \/ SetSenderMaxNonce(r)
  PROVE  F!ForwardingNext \/ UNCHANGED F!promised
<1> DEFINE Goal == F!ForwardingNext \/ UNCHANGED F!promised
           End == {"done", "panic"}
           Calm == /\ setMax' = setMax /\ markedUntil' = markedUntil
                   /\ UNCHANGED <<services, skippedRange>>
<1>1. OnlyOf(r)
  BY OneRequestAtATime
<1>2. /\ pc[r] \notin End => Answered(r) = "none"
      /\ pc'[r] \notin End => Answered(r)' = "none"
      /\ pc'[r] = "panic" => Answered(r)' = "panic"
      /\ pc'[r] = "done" /\ jsonRes'[r] = "error" => Answered(r)' = "error"
      /\ pc'[r] = "done" /\ jsonRes'[r] # "error" => Answered(r)' = "result"
  BY DEF Answered
<1>3. PassInvOf(r) /\ CancelInvOf(r) /\ VetInvOf(r)
  BY DEF PassInv, CancelInv, VetInv
<1>4. ASSUME pc[r] \notin {"idle", "done", "panic"} PROVE tx[r] \in Tx
  BY <1>4 DEF TypeOK, RequestTypeOK
<1>5. ASSUME pc[r] \in BeforeMark PROVE ~Claims(r)
  BY <1>3, <1>5 DEF PassInvOf, Claims
<1>6. ASSUME Calm PROVE SameClaim(r) /\ SameAdmission(r)
  BY <1>6 DEF SameClaim, Claims, SameAdmission, Admitted
<1>7. ASSUME Calm, pc[r] \notin End,
             \/ pc'[r] \notin End \/ pc'[r] = "panic"
             \/ pc'[r] = "done" /\ jsonRes'[r] = "error"
      PROVE  Goal
  <2>1. CASE pc'[r] \notin End
    BY <1>1, <1>2, <1>6, <1>7, <2>1, IsStutter, Zenon
  <2>2. CASE pc'[r] \in End
    BY <1>1, <1>2, <1>6, <1>7, <2>2, IsDecline, Zenon DEF F!ForwardingNext
  <2> QED
    BY <2>1, <2>2
\* Steps that move the request on or end it with an error.
<1> USE DEF TypeOK, RequestTypeOK, services, history, control, Goto, Fail, Succeed,
            NotACancellation
<1>11. CASE RejectUndecodable(r)
  BY <1>11, <1>7 DEF RejectUndecodable
<1>12. CASE PanicOnParameter(r)
  BY <1>12, <1>7 DEF PanicOnParameter
<1>13. CASE Receive(r)
  BY <1>13, <1>7 DEF Receive, Dispatch
<1>14. CASE RememberNonce(r)
  BY <1>14, <1>7 DEF RememberNonce, Dispatch
<1>15. CASE GetInitial(r)
  BY <1>15, <1>7 DEF GetInitial
<1>16. CASE GetInitialSent(r)
  BY <1>16, <1>7, Zenon DEF GetInitialSent
<1>17. CASE GetSent(r)
  BY <1>17, <1>7 DEF GetSent
<1>18. CASE GetBlockNumber(r)
  BY <1>18, <1>7 DEF GetBlockNumber
<1>19. CASE SetMaxGet(r) \/ SetMaxSet(r)
  <2>1. /\ pc' = pc /\ jsonRes' = jsonRes /\ markedUntil' = markedUntil
        /\ setMax[r] # "none" /\ setMax'[r] # "none"
        /\ UNCHANGED <<services, skippedRange>>
    BY <1>19, Zenon DEF SetMaxGet, SetMaxSet, LocalTypeOK
  <2>2. Answered(r)' = Answered(r) /\ SameClaim(r) /\ SameAdmission(r)
    BY <2>1 DEF Answered, SameClaim, Claims, SameAdmission, Admitted
  <2> QED
    BY <1>1, <2>1, <2>2, IsStutter, Zenon
\* A second request for a transaction that another one has claimed.
<1>20. ASSUME Calm, pc[r] \in {"getCancelSent", "getStatus"}, pc'[r] = "done",
              jsonRes'[r] # "error", Claimed(tx[r], Req \ {r})
       PROVE  Goal
  <2>1. ~Claims(r) /\ ~Admitted(r)
    BY <1>3, <1>5, <1>20, Zenon DEF BeforeMark, VetInvOf, BeforeAdmission, Labels, AfterAdmission
  <2>2. \E q \in {p \in Req : markedUntil[p] > 0} : tx[q] = tx[r]
    BY <1>20, Zenon DEF Claimed
  <2>3. F!Repeat(r)
    BY <1>1, <1>2, <1>6, <1>20, <2>1, <2>2, MappedStep, Zenon
    DEF F!Repeat, F!Pending, F!Answer, F!checks, F!outside, Claims
  <2> QED
    BY <2>3 DEF F!ForwardingNext
<1>21. CASE GetCancelSent(r)
  <2>1. ASSUME Found(txSentToRelay[tx[r]]) PROVE Claimed(tx[r], Req \ {r})
    <3>1. tx[r] \in Tx /\ ~Claims(r)
      BY <1>4, <1>5, <1>21 DEF GetCancelSent, BeforeMark
    <3>2. txSentToRelay[tx[r]].exp > 0
      BY <2>1, <3>1 DEF Found, RedisTypeOK, Entry
    <3> QED
      BY <3>1, <3>2, Zenon DEF MarkInv, Claimed, Claims
  <2>2. Calm /\ pc[r] = "getCancelSent"
    BY <1>21 DEF GetCancelSent
  <2>3. \/ /\ pc'[r] = "done" /\ jsonRes'[r] = "txHash"
           /\ Found(txSentToRelay[tx[r]])
        \/ pc'[r] = "setCancelSent"
        \/ pc'[r] = "done" /\ jsonRes'[r] = "error"
    BY <1>21 DEF GetCancelSent
  <2> QED
    BY <1>7, <1>20, <2>1, <2>2, <2>3, Zenon
<1>22. CASE GetStatus(r)
  <2>1. Calm /\ pc[r] = "getStatus" /\ Claimed(tx[r], Req \ {r})
    BY <1>3, <1>22, Zenon DEF GetStatus, PassInvOf
  <2>2. \/ pc'[r] = "setSent"
        \/ pc'[r] = "done" /\ jsonRes'[r] = "txHash"
    BY <1>22 DEF GetStatus
  <2> QED
    BY <1>7, <1>20, <2>1, <2>2, Zenon
<1>23. CASE AddToBundle(r)
  <2>1. CASE bundled' = bundled
    <3>1. /\ Calm /\ pc[r] = "addToBundle"
          /\ pc'[r] = "done" /\ jsonRes'[r] = "error"
      BY <1>3, <1>23, <2>1, Zenon DEF AddToBundle, VetInvOf
    <3> QED
      BY <3>1, <1>7, Zenon
  <2>2. CASE bundled' # bundled
    <3>1. /\ pc[r] = "addToBundle" /\ pc'[r] = "done"
          /\ jsonRes'[r] = "txHash" \/ jsonRes'[r] = "error"
          /\ setMax' = setMax /\ markedUntil' = markedUntil
          /\ bundled' = bundled \cup {r}
          /\ UNCHANGED <<mined, relayed, cancelled, mempooled, skippedRange>>
      BY <1>23, <2>2 DEF AddToBundle
    <3>2. ~Claims(r) /\ ~Admitted(r) /\ r \notin mempooled
      BY <1>3, <1>5, <3>1, Zenon DEF BeforeMark, VetInvOf, BeforeAdmission, Labels, AfterAdmission
    <3>3. SameClaim(r) /\ SameAdmission(r)
      BY <3>1, Zenon DEF SameClaim, Claims, SameAdmission, Admitted
    <3>4. F!Collect(r)
      BY <1>1, <1>2, <3>1, <3>2, <3>3, MappedStep, Zenon
      DEF F!Collect, F!Pending, F!Answer, F!checks, Claims
    <3> QED
      BY <3>4 DEF F!ForwardingNext
  <2> QED
    BY <2>1, <2>2
\* The mark: a claim, or nothing if Redis failed; in debug mode a cancellation
\* ends with it.
<1>24. CASE SetCancelSent(r)
  <2>1. /\ pc[r] = "setCancelSent" /\ setMax' = setMax
        /\ UNCHANGED <<services, skippedRange>>
        /\ \/ debug /\ pc'[r] = "done" /\ jsonRes'[r] = "initialTxHash"
           \/ pc'[r] \notin End
    BY <1>24 DEF SetCancelSent
  <2>2. ~Claims(r) /\ ~Admitted(r) /\ tx[r] \in Tx /\ F!Replaces(r)
    BY <1>3, <1>4, <1>5, <2>1, Replacing, Zenon
    DEF BeforeMark, VetInvOf, BeforeAdmission, Labels, AfterAdmission
  <2>3. SameAdmission(r) /\ (SameClaim(r) \/ Claims(r)')
    BY <2>1, <2>2, Zenon DEF SameClaim, SameAdmission, Admitted
  <2>4. CASE pc'[r] \notin End /\ Claims(r)'
    BY <1>1, <1>2, <2>1, <2>2, <2>3, <2>4, IsClaim, Zenon DEF F!ForwardingNext
  <2>5. CASE pc'[r] \notin End /\ ~Claims(r)'
    BY <1>1, <1>2, <2>1, <2>2, <2>3, <2>5, IsStutter, Zenon DEF SameClaim
  <2>6. CASE pc'[r] = "done"
    <3>1. F!Pretend(r)
      BY <1>1, <1>2, <2>1, <2>2, <2>3, <2>6, MappedStep, Zenon
      DEF F!Pretend, F!Pending, F!Answer, F!outside
    <3> QED
      BY <3>1 DEF F!ForwardingNext
  <2> QED
    BY <2>1, <2>4, <2>5, <2>6, Zenon
<1>25. CASE SetSent(r)
  <2>1. /\ pc[r] = "setSent" /\ pc'[r] = "getMinNonce" /\ setMax' = setMax
        /\ UNCHANGED <<services, skippedRange>>
    BY <1>25 DEF SetSent
  <2>2. ~Claims(r) /\ SameAdmission(r)
    BY <1>5, <2>1, Zenon DEF BeforeMark, SameAdmission, Admitted
  <2>3. CASE Claims(r)'
    BY <1>1, <1>2, <2>1, <2>2, <2>3, IsClaim, Zenon DEF F!ForwardingNext
  <2>4. CASE ~Claims(r)'
    BY <1>1, <1>2, <2>1, <2>2, <2>4, IsStutter, Zenon DEF SameClaim
  <2> QED
    BY <2>3, <2>4
\* The cancellation reaches the mempool and the relay.
<1>26. CASE SendMempool(r)
  <2>1. CASE mempooled' = mempooled
    <3>1. /\ Calm /\ pc[r] = "sendMempool"
          /\ pc'[r] = "cancelAtRelay" \/ (pc'[r] = "done" /\ jsonRes'[r] = "error")
      BY <1>26, <2>1 DEF SendMempool
    <3> QED
      BY <3>1, <1>7, Zenon
  <2>2. CASE mempooled' # mempooled
    <3>1. /\ pc[r] = "sendMempool"
          /\ pc'[r] = "cancelAtRelay" \/ (pc'[r] = "done" /\ jsonRes'[r] = "error")
          /\ setMax' = setMax /\ markedUntil' = markedUntil
          /\ mempooled' = mempooled \cup {r}
          /\ UNCHANGED <<mined, relayed, cancelled, bundled, skippedRange>>
      BY <1>26, <2>2 DEF SendMempool
    <3>2. ~debug /\ ~Admitted(r) /\ tx[r] \in CancelTx /\ F!Replaces(r)
      BY <1>3, <3>1, Replacing, Zenon
      DEF VetInvOf, BeforeAdmission, Labels, AfterAdmission, CancelLabels
    <3>3. SameClaim(r) /\ SameAdmission(r)
      BY <3>1, Zenon DEF SameClaim, Claims, SameAdmission, Admitted
    <3>4. [[q \in Req |-> Answered(q)] EXCEPT ![r] = "none"] = [q \in Req |-> Answered(q)]
      BY <1>2, <3>1, Zenon
    <3>5. Answered(r) = "none" /\ Answered(r)' \in {"none", "error"}
      BY <1>2, <3>1, Zenon
    <3>6. F!Publish(r)
      BY <1>1, <3>1, <3>2, <3>3, <3>4, <3>5, MappedStep, Zenon
      DEF F!Publish, F!Pending, F!Answer, F!checks
    <3> QED
      BY <3>6 DEF F!ForwardingNext
  <2> QED
    BY <2>1, <2>2
<1>27. CASE CancelAtRelay(r)
  <2>1. CASE cancelled' = cancelled
    <3>1. /\ Calm /\ pc[r] = "cancelAtRelay"
          /\ pc'[r] = "done" /\ jsonRes'[r] = "error"
      BY <1>3, <1>27, <2>1, Zenon DEF CancelAtRelay, VetInvOf
    <3> QED
      BY <3>1, <1>7, Zenon
  <2>2. CASE cancelled' # cancelled
    <3>1. /\ pc[r] = "cancelAtRelay" /\ pc'[r] = "done"
          /\ setMax' = setMax /\ markedUntil' = markedUntil
          /\ cancelled' = cancelled \cup {r}
          /\ UNCHANGED <<mined, relayed, mempooled, bundled, skippedRange>>
      BY <1>27, <2>2 DEF CancelAtRelay
    <3>2. ~debug /\ ~Admitted(r) /\ tx[r] \in CancelTx /\ F!Replaces(r)
      BY <1>3, <3>1, Replacing, Zenon
      DEF VetInvOf, BeforeAdmission, Labels, AfterAdmission, CancelLabels
    <3>3. SameClaim(r) /\ SameAdmission(r)
      BY <3>1, Zenon DEF SameClaim, Claims, SameAdmission, Admitted
    <3>4. Answered(r)' \in {"result", "error"}
      BY <1>2, <3>1, Zenon
    <3>5. F!Cancel(r)
      BY <1>1, <1>2, <3>1, <3>2, <3>3, <3>4, MappedStep, Zenon
      DEF F!Cancel, F!Pending, F!Answer, F!checks
    <3> QED
      BY <3>5 DEF F!ForwardingNext
  <2> QED
    BY <2>1, <2>2
\* The nonce check.
<1>28. ASSUME pc[r] \in {"getMinNonce", "getMaxNonce"}, markedUntil' = markedUntil,
              UNCHANGED services, setMax'[r] # "none",
              pc'[r] \notin End \/ (pc'[r] = "done" /\ jsonRes'[r] = "error"),
              \/ F!Follows(r) /\ UNCHANGED skippedRange
              \/ skippedRange' = skippedRange \cup {r}
       PROVE  Goal
  <2>1. /\ tx[r] \in Tx /\ ~Admitted(r) /\ Admitted(r)' /\ SameClaim(r)
        /\ r \notin mempooled
    BY <1>3, <1>4, <1>28, Zenon DEF VetInvOf, BeforeAdmission, Labels, AfterAdmission,
       Admitted, SameClaim, Claims
  <2>2. Answered(r) = "none" /\ Answered(r)' \in {"none", "error"}
    BY <1>2, <1>28, Zenon
  <2>3. F!Admit(r)
    BY <1>1, <1>28, <2>1, <2>2, IsAdmit, Zenon
  <2> QED
    BY <2>3 DEF F!ForwardingNext
<1>29. CASE GetMinNonce(r)
  <2>1. CASE setMax' = setMax /\ skippedRange' = skippedRange
    <3>1. Calm /\ pc[r] = "getMinNonce"
      BY <1>29, <2>1 DEF GetMinNonce
    <3>2. pc'[r] = "getMaxNonce" \/ pc'[r] = "setTxHash"
             \/ (pc'[r] = "done" /\ jsonRes'[r] = "error")
      BY <1>29 DEF GetMinNonce, Admit
    <3> QED
      BY <3>1, <3>2, <1>7, Zenon
  <2>2. CASE ~(setMax' = setMax /\ skippedRange' = skippedRange)
    <3>1. /\ pc[r] = "getMinNonce" /\ markedUntil' = markedUntil
          /\ UNCHANGED services /\ setMax'[r] # "none"
          /\ skippedRange' = skippedRange \cup {r}
          /\ pc'[r] = "setTxHash" \/ (pc'[r] = "done" /\ jsonRes'[r] = "error")
      BY <1>29, <2>2 DEF GetMinNonce, Admit, LocalTypeOK
    <3> QED
      BY <3>1, <1>28, Zenon
  <2> QED
    BY <2>1, <2>2
<1>30. CASE GetMinNonceUnreadable(r)
  <2>1. /\ pc[r] = "getMinNonce" /\ markedUntil' = markedUntil
        /\ UNCHANGED services /\ setMax'[r] # "none"
        /\ skippedRange' = skippedRange \cup {r}
        /\ pc'[r] = "setTxHash" \/ (pc'[r] = "done" /\ jsonRes'[r] = "error")
    BY <1>30 DEF GetMinNonceUnreadable, LocalTypeOK
  <2> QED
    BY <2>1, <1>28, Zenon
<1>31. CASE GetMaxNonce(r)
  <2>1. /\ pc[r] = "getMaxNonce" /\ markedUntil' = markedUntil
        /\ UNCHANGED <<services, skippedRange>>
        /\ pc'[r] = "setTxHash" \/ (pc'[r] = "done" /\ jsonRes'[r] = "error")
    BY <1>31, Zenon DEF GetMaxNonce, Admit
  <2>2. \/ setMax' = setMax
        \/ /\ setMax'[r] # "none"
           /\ \/ InRange(r, 0)
              \/ /\ Found(senderMaxNonce[Sender(r)])
                 /\ InRange(r, senderMaxNonce[Sender(r)].val)
    BY <1>31, Zenon DEF GetMaxNonce, Admit, LocalTypeOK
  <2>3. CASE setMax' = setMax
    BY <2>1, <2>3, <1>7, Zenon
  <2>4. CASE setMax' # setMax
    BY <2>1, <2>2, <2>4, <1>28, Following, Zenon
  <2> QED
    BY <2>3, <2>4
\* The submission: in debug mode it ends before the relay is called.
<1>32. CASE SetTxHash(r)
  <2>1. /\ Calm /\ pc[r] = "setTxHash"
        /\ \/ debug /\ pc'[r] = "done" /\ jsonRes'[r] = "txHash"
           \/ pc'[r] \notin End
    BY <1>32, Zenon DEF SetTxHash
  <2>2. CASE pc'[r] \notin End
    BY <2>1, <2>2, <1>7, Zenon
  <2>3. CASE pc'[r] \in End
    <3>1. tx[r] \in Tx /\ Admitted(r)
      BY <1>3, <1>4, <2>1, Zenon DEF VetInvOf, AfterAdmission
    <3>2. F!Pretend(r)
      BY <1>1, <1>2, <1>6, <2>1, <2>3, <3>1, MappedStep, Zenon
      DEF F!Pretend, F!Pending, F!Answer, F!outside
    <3> QED
      BY <3>2 DEF F!ForwardingNext
  <2> QED
    BY <2>2, <2>3
<1>33. CASE SendToRelay(r)
  <2>1. CASE relayed' = relayed
    <3>1. /\ Calm /\ pc[r] = "sendToRelay"
          /\ pc'[r] = "done" /\ jsonRes'[r] = "error"
      BY <1>3, <1>33, <2>1, Zenon DEF SendToRelay, VetInvOf
    <3> QED
      BY <3>1, <1>7, Zenon
  <2>2. CASE relayed' # relayed
    <3>1. /\ pc[r] = "sendToRelay" /\ pc'[r] = "done"
          /\ setMax' = setMax /\ markedUntil' = markedUntil
          /\ relayed' = relayed \cup {r}
          /\ UNCHANGED <<mined, cancelled, mempooled, bundled, skippedRange>>
      BY <1>33, <2>2 DEF SendToRelay
    <3>2. ~debug /\ Admitted(r) /\ tx[r] \in VettedTx
      BY <1>3, <1>4, <3>1, Zenon DEF VetInvOf, AfterAdmission, AfterCheck, VettedTx, Nonce
    <3>3. SameClaim(r) /\ SameAdmission(r)
      BY <3>1, Zenon DEF SameClaim, Claims, SameAdmission, Admitted
    <3>4. Answered(r)' \in {"result", "error"}
      BY <1>2, <3>1, Zenon
    <3>5. F!Forward(r)
      BY <1>1, <1>2, <3>1, <3>2, <3>3, <3>4, MappedStep, Zenon
      DEF F!Forward, F!Pending, F!Answer, F!checks
    <3> QED
      BY <3>5 DEF F!ForwardingNext
  <2> QED
    BY <2>1, <2>2
<1> QED
  BY <1>11, <1>12, <1>13, <1>14, <1>15, <1>16, <1>17, <1>18, <1>19, <1>21, <1>22,
     <1>23, <1>24, <1>25, <1>26, <1>27, <1>29, <1>30, <1>31, <1>32, <1>33
  DEF Handle, Cancelling, Sending, SetSenderMaxNonce

\* The initial states are initial states of Forwarding.
LEMMA ForwardInit == Init => F!ForwardingInit
  BY DEF Init, F!ForwardingInit, Answered, Admitted

\* Blocks are mined; time is not seen by Forwarding.
LEMMA ForwardOthers ==
  ASSUME \/ \E a \in Account : Mine(a)
         \/ TimePasses
         \/ UNCHANGED vars
  PROVE  F!ForwardingNext \/ UNCHANGED F!promised
<1>1. UNCHANGED <<tx, debug, pc, jsonRes, markedUntil, setMax, skippedRange,
                  relayed, cancelled, mempooled, bundled>>
  BY DEF Mine, TimePasses, vars, request, control, services, history
<1>2. /\ [q \in Req |-> Answered(q)]' = [q \in Req |-> Answered(q)]
      /\ {q \in Req : Admitted(q)}' = {q \in Req : Admitted(q)}
  BY <1>1 DEF Answered, Admitted
<1>3. ASSUME NEW a \in Account, Mine(a) PROVE F!Mine(a)
  BY <1>1, <1>2, <1>3 DEF Mine, F!Mine, F!checks
<1>4. ASSUME TimePasses \/ UNCHANGED vars PROVE UNCHANGED F!promised
  <2>1. UNCHANGED mined
    BY <1>4 DEF TimePasses, vars, services
  <2> QED
    BY <1>1, <1>2, <2>1 DEF F!promised, F!checks, F!outside
<1> QED
  BY <1>3, <1>4 DEF F!ForwardingNext

\* The handlers implement the promises: for any requests, transactions, times
\* to live and faults, every behaviour of request_sendrawtx.go and
\* request_processor.go is a behaviour of Forwarding.
THEOREM ForwardTheorem == Spec => Forwards
<1> DEFINE Inv == TypeOK /\ MarkInv /\ PassInv /\ NonceInv /\ CancelInv /\ VetInv
<1>1. Init => Inv
  BY TypeInit, MarkInvInit, PassInvInit, NonceInvInit, CancelInvInit, VetInvInit
<1>2. Inv /\ [Next]_vars => Inv'
  BY TypeStep, MarkInvStep, PassInvStep, NonceInvStep, CancelInvStep, VetInvStep
<1>3. Inv /\ [Next]_vars => [F!ForwardingNext]_F!promised
  BY ForwardOwn, ForwardOthers DEF Next, AllEnded
<1> QED
  BY <1>1, <1>2, <1>3, ForwardInit, PTL DEF Spec, Forwards, F!ForwardingSpec

\* A step of Forwarding keeps its own invariant: outcomes need a pending request,
\* all but a publication end it, and a published request is not admitted.
LEMMA OutcomesStep ==
  ASSUME F!Outcomes, F!Settled, [F!ForwardingNext]_F!promised
  PROVE  F!Outcomes' /\ F!Settled'
<1> DEFINE ans == [q \in Req |-> Answered(q)]
           ansN == [q \in Req |-> Answered(q)']
           clm == {q \in Req : markedUntil[q] > 0}
           clmN == {q \in Req : markedUntil'[q] > 0}
           adm == {q \in Req : Admitted(q)}
           admN == {q \in Req : Admitted(q)'}
           Out(an, cl, ad, re, ca, pu, bu) ==
             /\ re \subseteq ad /\ (ca \cup pu \cup bu) \cap ad = {}
             /\ bu \cap (ca \cup pu) = {}
             /\ \A r \in Req : an[r] = "result" =>
                   \/ debug \/ r \in re \cup ca \cup bu
                   \/ \E q \in cl \ {r} : tx[q] = tx[r]
             /\ \A r \in re \cup ca \cup bu : r \in Req /\ an[r] # "none"
           Goal == Out(ansN, clmN, admN, relayed', cancelled', mempooled', bundled')
<1>0. tx' = tx /\ debug' = debug
  BY Zenon DEF F!ForwardingNext, F!Decline, F!Claim, F!Admit, F!Forward, F!Publish, F!Cancel,
     F!Collect, F!Repeat, F!Pretend, F!Mine, F!promised
<1>1. Out(ans, clm, adm, relayed, cancelled, mempooled, bundled)
  BY Zenon DEF F!Outcomes, F!Settled, F!Pending
<1>2. Goal => F!Outcomes' /\ F!Settled'
  <2>1. Goal => F!Outcomes'
    BY <1>0, Zenon DEF F!Outcomes
  <2>2. Goal => F!Settled'
    BY Zenon DEF F!Settled, F!Pending
  <2> QED
    BY <2>1, <2>2, Zenon
<1>3. DOMAIN ans = Req
  OBVIOUS
<1>4. ASSUME UNCHANGED F!promised
      PROVE  Goal
  <2>1. /\ ansN = ans /\ clmN = clm /\ admN = adm
        /\ UNCHANGED <<relayed, cancelled, mempooled, bundled>>
    BY <1>4, Zenon DEF F!promised, F!checks, F!outside
  <2> HIDE DEF ans, ansN, clm, clmN, adm, admN
  <2> QED
    BY <1>1, <2>1
<1>5. ASSUME NEW a \in Account, F!Mine(a)
      PROVE  Goal
  <2>1. /\ ansN = ans /\ clmN = clm /\ admN = adm
        /\ UNCHANGED <<relayed, cancelled, mempooled, bundled>>
    BY <1>5, Zenon DEF F!Mine, F!checks
  <2> HIDE DEF ans, ansN, clm, clmN, adm, admN
  <2> QED
    BY <1>1, <2>1
<1>6. ASSUME NEW r \in Req, F!Decline(r)
      PROVE  Goal
  <2>1. /\ ans[r] = "none"
        /\ ansN = [ans EXCEPT ![r] = "error"] \/ ansN = [ans EXCEPT ![r] = "panic"]
        /\ clmN = clm /\ admN = adm
        /\ UNCHANGED <<relayed, cancelled, mempooled, bundled>>
    BY <1>6, Zenon DEF F!Decline, F!Pending, F!Answer, F!checks, F!outside
  <2> HIDE DEF ans, ansN, clm, clmN, adm, admN
  <2> QED
    BY <1>1, <1>3, <2>1
<1>7. ASSUME NEW r \in Req, F!Claim(r)
      PROVE  Goal
  <2>1. /\ ans[r] = "none" /\ ansN = ans
        /\ clmN = clm \cup {r} /\ admN = adm
        /\ UNCHANGED <<relayed, cancelled, mempooled, bundled>>
    BY <1>7, Zenon DEF F!Claim, F!Pending, F!outside
  <2> HIDE DEF ans, ansN, clm, clmN, adm, admN
  <2> QED
    BY <1>1, <1>3, <2>1
<1>8. ASSUME NEW r \in Req, F!Admit(r)
      PROVE  Goal
  <2>1. /\ ans[r] = "none" /\ r \notin adm \cup mempooled
        /\ ansN = ans \/ ansN = [ans EXCEPT ![r] = "error"]
        /\ clmN = clm /\ admN = adm \cup {r}
        /\ UNCHANGED <<relayed, cancelled, mempooled, bundled>>
    BY <1>8, Zenon DEF F!Admit, F!Pending, F!Answer, F!outside
  <2> HIDE DEF ans, ansN, clm, clmN, adm, admN
  <2> QED
    BY <1>1, <1>3, <2>1
<1>9. ASSUME NEW r \in Req, F!Forward(r)
      PROVE  Goal
  <2>1. /\ ans[r] = "none" /\ r \in adm
        /\ ansN = [ans EXCEPT ![r] = "result"] \/ ansN = [ans EXCEPT ![r] = "error"]
        /\ clmN = clm /\ admN = adm
        /\ relayed' = relayed \cup {r}
        /\ UNCHANGED <<cancelled, mempooled, bundled>>
    BY <1>9, Zenon DEF F!Forward, F!Pending, F!Answer, F!checks
  <2> HIDE DEF ans, ansN, clm, clmN, adm, admN
  <2> QED
    BY <1>1, <1>3, <2>1
<1>10. ASSUME NEW r \in Req, F!Publish(r)
       PROVE  Goal
  <2>1. /\ ans[r] = "none" /\ r \notin adm
        /\ ansN = ans \/ ansN = [ans EXCEPT ![r] = "error"]
        /\ clmN = clm /\ admN = adm
        /\ mempooled' = mempooled \cup {r}
        /\ UNCHANGED <<relayed, cancelled, bundled>>
    BY <1>10, Zenon DEF F!Publish, F!Pending, F!Answer, F!checks
  <2> HIDE DEF ans, ansN, clm, clmN, adm, admN
  <2> QED
    BY <1>1, <1>3, <2>1
<1>11. ASSUME NEW r \in Req, F!Cancel(r)
       PROVE  Goal
  <2>1. /\ ans[r] = "none" /\ r \notin adm
        /\ ansN = [ans EXCEPT ![r] = "result"] \/ ansN = [ans EXCEPT ![r] = "error"]
        /\ clmN = clm /\ admN = adm
        /\ cancelled' = cancelled \cup {r}
        /\ UNCHANGED <<relayed, mempooled, bundled>>
    BY <1>11, Zenon DEF F!Cancel, F!Pending, F!Answer, F!checks
  <2> HIDE DEF ans, ansN, clm, clmN, adm, admN
  <2> QED
    BY <1>1, <1>3, <2>1
<1>12. ASSUME NEW r \in Req, F!Collect(r)
       PROVE  Goal
  <2>1. /\ ans[r] = "none" /\ r \notin adm \cup mempooled
        /\ ansN = [ans EXCEPT ![r] = "result"] \/ ansN = [ans EXCEPT ![r] = "error"]
        /\ clmN = clm /\ admN = adm
        /\ bundled' = bundled \cup {r}
        /\ UNCHANGED <<relayed, cancelled, mempooled>>
    BY <1>12, Zenon DEF F!Collect, F!Pending, F!Answer, F!checks
  <2> HIDE DEF ans, ansN, clm, clmN, adm, admN
  <2> QED
    BY <1>1, <1>3, <2>1
<1>13. ASSUME NEW r \in Req, F!Repeat(r)
       PROVE  Goal
  <2>1. /\ ans[r] = "none" /\ r \notin clm
        /\ \E q \in clm : tx[q] = tx[r]
        /\ ansN = [ans EXCEPT ![r] = "result"]
        /\ clmN = clm /\ admN = adm
        /\ UNCHANGED <<relayed, cancelled, mempooled, bundled>>
    BY <1>13, Zenon DEF F!Repeat, F!Pending, F!Answer, F!checks, F!outside
  <2> HIDE DEF ans, ansN, clm, clmN, adm, admN
  <2> QED
    BY <1>1, <1>3, <2>1
<1>14. ASSUME NEW r \in Req, F!Pretend(r)
       PROVE  Goal
  <2>1. /\ ans[r] = "none" /\ debug
        /\ ansN = [ans EXCEPT ![r] = "result"]
        /\ clm \subseteq clmN /\ admN = adm
        /\ UNCHANGED <<relayed, cancelled, mempooled, bundled>>
    BY <1>14, Zenon DEF F!Pretend, F!Pending, F!Answer, F!outside
  <2> HIDE DEF ans, ansN, clm, clmN, adm, admN
  <2> QED
    BY <1>1, <1>3, <2>1
<1> QED
  BY <1>2, <1>4, <1>5, <1>6, <1>7, <1>8, <1>9, <1>10, <1>11, <1>12, <1>13, <1>14, Zenon
  DEF F!ForwardingNext

\* The promises imply that the ways out of a request exclude each other and that
\* success has a reason: nothing of TxRelay is used but that it implements them.
THEOREM OutcomesTheorem == Forwards => []ExclusiveOutcomes
<1>1. F!ForwardingInit => F!Outcomes /\ F!Settled
  BY DEF F!ForwardingInit, F!Outcomes, F!Settled
<1>2. F!Outcomes /\ F!Settled /\ [F!ForwardingNext]_F!promised => (F!Outcomes /\ F!Settled)'
  BY OutcomesStep
<1> QED
  BY <1>1, <1>2, PTL DEF Forwards, F!ForwardingSpec, ExclusiveOutcomes

\* So they do in handle_sendRawTransaction, for any requests, options and failures.
THEOREM ExclusiveTheorem == Spec => []ExclusiveOutcomes
  BY ForwardTheorem, OutcomesTheorem, PTL
=============================================================================
