---------------------------- MODULE TxRelayTypes ----------------------------
(***************************************************************************)
(* Type correctness of TxRelay, for any number of requests, accounts and   *)
(* transactions, any times to live and any faults.                         *)
(***************************************************************************)
EXTENDS TxRelay, TLAPS

\* The keys are well typed when the endpoint starts on an empty store.
LEMMA RedisTypeInit == RedisInit => RedisTypeOK
  BY RedisAssumption DEF RedisInit, RedisTypeOK, Entry, Gone

\* Commands that leave every key alone, a failed write among them.
LEMMA RedisTypeUnchanged ==
  ASSUME RedisTypeOK, UNCHANGED now, UNCHANGED redis
  PROVE  RedisTypeOK'
  BY DEF RedisTypeOK, redis

\* The mark of a request has a time of expiry.
LEMMA MarkSentType ==
  ASSUME RedisTypeOK, markedUntil \in [Req -> Nat], NEW r \in Req, MarkSent(r)
  PROVE  markedUntil' \in [Req -> Nat]
<1>1. now + KeyTTL \in Nat
  BY RedisAssumption DEF RedisTypeOK
<1> QED
  BY <1>1 DEF MarkSent

\* Every write of a handler keeps the types of all keys.
LEMMA RedisTypeWrite ==
  ASSUME RedisTypeOK, UNCHANGED now,
         \/ \E t \in Tx : SetTxSentToRelay(t)
         \/ \E t \in Tx : SetSenderOfTxHash(t)
         \/ \E t \in Tx : SetNonceOfTxHash(t)
         \/ \E t \in Tx : SetTxHashForSenderAndNonce(SlotOf(t), t)
         \/ \E a \in Account, n, b \in Nat : PutSenderMaxNonce(a, n, b)
         \/ \E a \in Account : DelSenderMaxNonce(a)
         \/ \E a \in Account, n \in Nat : SetNonceFixForAccount(a, n)
         \/ RedisErr
  PROVE  RedisTypeOK'
<1> USE RedisAssumption DEF RedisTypeOK, Entry, Put, Gone
<1>1. CASE \E t \in Tx : SetTxSentToRelay(t)
  BY <1>1 DEF SetTxSentToRelay
<1>2. CASE \E t \in Tx : SetSenderOfTxHash(t)
  BY <1>2 DEF SetSenderOfTxHash
<1>3. CASE \E t \in Tx : SetNonceOfTxHash(t)
  BY <1>3 DEF SetNonceOfTxHash
<1>4. CASE \E t \in Tx : SetTxHashForSenderAndNonce(SlotOf(t), t)
  <2> PICK t \in Tx : SetTxHashForSenderAndNonce(SlotOf(t), t)
    BY <1>4
  <2> SlotOf(t) \in Slot
    BY DEF Slot, SlotOf
  <2> QED
    BY DEF SetTxHashForSenderAndNonce
<1>5. CASE \E a \in Account, n, b \in Nat : PutSenderMaxNonce(a, n, b)
  BY <1>5 DEF PutSenderMaxNonce
<1>6. CASE \E a \in Account : DelSenderMaxNonce(a)
  BY <1>6 DEF DelSenderMaxNonce
<1>7. CASE \E a \in Account, n \in Nat : SetNonceFixForAccount(a, n)
  BY <1>7 DEF SetNonceFixForAccount
<1>8. CASE RedisErr
  BY <1>8, RedisTypeUnchanged DEF RedisErr
<1> QED
  BY <1>1, <1>2, <1>3, <1>4, <1>5, <1>6, <1>7, <1>8

\* So does the clock.
LEMMA RedisTypeTick ==
  ASSUME RedisTypeOK, Tick
  PROVE  RedisTypeOK'
<1>1. now' \in Nat
  BY DEF RedisTypeOK, Tick
<1> QED
  BY <1>1, Zenon DEF RedisTypeOK, Tick, redis

\* The ways in which an action moves a request that carries a transaction.
LEMMA GotoType ==
  ASSUME RequestTypeOK, UNCHANGED request, NEW r \in Req, tx[r] # Nil,
         NEW l \in Labels, Goto(r, l)
  PROVE  RequestTypeOK'
  BY DEF RequestTypeOK, request, Goto

\* writeRpcError and return keeps the control state well typed.
LEMMA FailType ==
  ASSUME RequestTypeOK, UNCHANGED request, NEW r \in Req, Fail(r)
  PROVE  RequestTypeOK'
<1>1. "done" \in Labels /\ ErrorFlag(r) \subseteq Flags
  BY DEF Labels, ErrorFlag, Flags
<1> QED
  BY <1>1 DEF RequestTypeOK, request, Fail

\* writeRpcResult and return keeps the control state well typed.
LEMMA SucceedType ==
  ASSUME RequestTypeOK, UNCHANGED request, NEW r \in Req,
         NEW v \in {"txHash", "initialTxHash"}, Succeed(r, v)
  PROVE  RequestTypeOK'
<1>1. "done" \in Labels
  BY DEF Labels
<1> QED
  BY <1>1 DEF RequestTypeOK, request, Succeed

\* So does handleCancelTx when it hands over to sendTxToRelay.
LEMMA NotACancellationType ==
  ASSUME RequestTypeOK, UNCHANGED request, NEW r \in Req, tx[r] # Nil,
         NotACancellation(r)
  PROVE  RequestTypeOK'
<1>1. "getSent" \in Labels
  BY DEF Labels
<1> QED
  BY <1>1 DEF RequestTypeOK, request, NotACancellation

\* And so do the branches at the end of handle_sendRawTransaction.
LEMMA DispatchType ==
  ASSUME RequestTypeOK, UNCHANGED request, NEW r \in Req, tx[r] # Nil,
         Dispatch(r)
  PROVE  RequestTypeOK'
<1>1. /\ {"addToBundle", "getInitial", "getSent"} \subseteq Labels
      /\ "isCancelTx" \in Flags
  BY DEF Labels, Flags
<1>2. \/ Fail(r) \/ Goto(r, "addToBundle") \/ Goto(r, "getSent")
      \/ /\ pc' = [pc EXCEPT ![r] = "getInitial"]
         /\ entry' = [entry EXCEPT ![r] = @ \cup {"isCancelTx"}]
         /\ UNCHANGED jsonRes
  BY DEF Dispatch
<1>3. CASE /\ pc' = [pc EXCEPT ![r] = "getInitial"]
           /\ entry' = [entry EXCEPT ![r] = @ \cup {"isCancelTx"}]
           /\ UNCHANGED jsonRes
  BY <1>1, <1>3 DEF RequestTypeOK, request
<1> QED
  BY <1>1, <1>2, <1>3, FailType, GotoType

\* Requests start well typed, with an empty Redis.
LEMMA TypeInit == Init => TypeOK
<1> SUFFICES ASSUME Init PROVE TypeOK
  OBVIOUS
<1>1. RedisTypeOK
  BY RedisTypeInit DEF Init
<1>2. RequestTypeOK
  BY RelayAssumption DEF Init, RequestTypeOK, Labels, Flags
<1>3. LocalTypeOK /\ OutsideTypeOK
  BY DEF Init, LocalTypeOK, OutsideTypeOK, Reasons
<1> QED
  BY <1>1, <1>2, <1>3 DEF TypeOK

\* What the actions do besides moving their request keeps its type as well.
LEMMA TypeStep == TypeOK /\ [Next]_vars => TypeOK'
<1> SUFFICES ASSUME TypeOK, [Next]_vars
             PROVE  TypeOK'
  OBVIOUS
<1> USE DEF TypeOK
<1>a. ASSUME NEW r \in Req, pc[r] \notin {"idle", "done", "panic"}
      PROVE  tx[r] \in Tx /\ tx[r] # Nil /\ Sender(r) \in Account /\ Nonce(r) \in Nat
  BY <1>a, RedisAssumption DEF RequestTypeOK, Sender, Nonce
<1>1. ASSUME NEW r \in Req, RejectUndecodable(r) PROVE TypeOK'
  <2>1. RedisTypeOK'
    BY <1>1, RedisTypeUnchanged DEF RejectUndecodable
  <2>2. RequestTypeOK'
    BY <1>1, <1>a, FailType DEF RejectUndecodable
  <2>3. LocalTypeOK'
    BY <1>1, <1>a DEF LocalTypeOK, locals, request, RejectUndecodable
  <2>4. OutsideTypeOK'
    BY <1>1, <1>a DEF OutsideTypeOK, services, history, RejectUndecodable
  <2> QED
    BY <2>1, <2>2, <2>3, <2>4
<1>2. ASSUME NEW r \in Req, PanicOnParameter(r) PROVE TypeOK'
  <2>0. "panic" \in Labels /\ ErrorFlag(r) \subseteq Flags
    BY DEF Labels, ErrorFlag, Flags
  <2>1. RedisTypeOK'
    BY <1>2, RedisTypeUnchanged DEF PanicOnParameter
  <2>2. RequestTypeOK'
    BY <1>2, <2>0 DEF PanicOnParameter, RequestTypeOK, request
  <2>3. LocalTypeOK' /\ OutsideTypeOK'
    BY <1>2 DEF PanicOnParameter, LocalTypeOK, locals, request, OutsideTypeOK, services, history
  <2> QED
    BY <2>1, <2>2, <2>3
<1>3. ASSUME NEW r \in Req, Receive(r) PROVE TypeOK'
  <2>1. RedisTypeOK'
    BY <1>3, RedisTypeUnchanged, RedisTypeWrite DEF Receive, RequestTypeOK
  <2>2. RequestTypeOK'
    BY <1>3, <1>a, FailType, GotoType, DispatchType DEF Receive, Labels
  <2>3. LocalTypeOK'
    BY <1>3, <1>a DEF LocalTypeOK, locals, request, Receive
  <2>4. OutsideTypeOK'
    BY <1>3, <1>a DEF OutsideTypeOK, services, history, Receive
  <2> QED
    BY <2>1, <2>2, <2>3, <2>4
<1>4. ASSUME NEW r \in Req, RememberNonce(r) PROVE TypeOK'
  <2>1. RedisTypeOK'
    BY <1>4, <1>a, RedisTypeWrite DEF RememberNonce
  <2>2. RequestTypeOK'
    BY <1>4, <1>a, DispatchType DEF RememberNonce
  <2>3. LocalTypeOK'
    BY <1>4, <1>a DEF LocalTypeOK, locals, request, RememberNonce
  <2>4. OutsideTypeOK'
    BY <1>4, <1>a DEF OutsideTypeOK, services, history, RememberNonce
  <2> QED
    BY <2>1, <2>2, <2>3, <2>4
<1>5. ASSUME NEW r \in Req, AddToBundle(r) PROVE TypeOK'
  <2>1. RedisTypeOK'
    BY <1>5, RedisTypeUnchanged DEF AddToBundle
  <2>2. RequestTypeOK'
    BY <1>5, <1>a, FailType, SucceedType DEF AddToBundle
  <2>3. LocalTypeOK'
    BY <1>5, <1>a DEF LocalTypeOK, locals, request, AddToBundle
  <2>4. OutsideTypeOK'
    BY <1>5, <1>a DEF OutsideTypeOK, services, history, AddToBundle
  <2> QED
    BY <2>1, <2>2, <2>3, <2>4
<1>6. ASSUME NEW r \in Req, GetInitial(r) PROVE TypeOK'
  <2>1. RedisTypeOK'
    BY <1>6, RedisTypeUnchanged, Zenon DEF GetInitial
  <2>2. RequestTypeOK'
    BY <1>6, <1>a, FailType, GotoType, NotACancellationType DEF GetInitial, Labels
  <2>3. LocalTypeOK'
    <3>1. SlotOf(tx[r]) \in Slot
      BY <1>6, <1>a, Zenon DEF GetInitial, Slot, SlotOf
    <3>2. txHashForSenderAndNonce[SlotOf(tx[r])].val \in Tx \cup {Nil}
      BY <3>1 DEF RedisTypeOK, Entry
    <3> QED
      BY <1>6, <3>2, Zenon DEF LocalTypeOK, locals, request, GetInitial
  <2>4. OutsideTypeOK'
    BY <1>6, <1>a, Zenon DEF OutsideTypeOK, services, history, GetInitial
  <2> QED
    BY <2>1, <2>2, <2>3, <2>4
<1>7. ASSUME NEW r \in Req, GetInitialSent(r) PROVE TypeOK'
  <2>1. RedisTypeOK'
    BY <1>7, RedisTypeUnchanged DEF GetInitialSent
  <2>2. RequestTypeOK'
    BY <1>7, <1>a, FailType, GotoType, NotACancellationType, Zenon DEF GetInitialSent, Labels
  <2>3. LocalTypeOK'
    BY <1>7, <1>a, Zenon DEF LocalTypeOK, locals, request, GetInitialSent
  <2>4. OutsideTypeOK'
    BY <1>7, <1>a, Zenon DEF OutsideTypeOK, services, history, GetInitialSent
  <2> QED
    BY <2>1, <2>2, <2>3, <2>4
<1>8. ASSUME NEW r \in Req, GetCancelSent(r) PROVE TypeOK'
  <2>1. RedisTypeOK'
    BY <1>8, RedisTypeUnchanged, Zenon DEF GetCancelSent
  <2>2. RequestTypeOK'
    BY <1>8, <1>a, FailType, GotoType, SucceedType, Zenon DEF GetCancelSent, Labels
  <2>3. LocalTypeOK'
    BY <1>8, <1>a DEF LocalTypeOK, locals, request, GetCancelSent
  <2>4. OutsideTypeOK'
    BY <1>8, <1>a, Zenon DEF OutsideTypeOK, services, history, GetCancelSent
  <2> QED
    BY <2>1, <2>2, <2>3, <2>4
<1>9. ASSUME NEW r \in Req, SetCancelSent(r) PROVE TypeOK'
  <2>1. RedisTypeOK'
    BY <1>9, <1>a, RedisTypeWrite, Zenon DEF SetCancelSent, MarkSent
  <2>2. RequestTypeOK'
    BY <1>9, <1>a, GotoType, SucceedType, Zenon DEF SetCancelSent, Labels
  <2>3. LocalTypeOK'
    BY <1>9, <1>a, Zenon DEF LocalTypeOK, locals, request, SetCancelSent
  <2>4. OutsideTypeOK'
    <3>1. markedUntil' \in [Req -> Nat]
      BY <1>9, MarkSentType, Zenon DEF SetCancelSent, OutsideTypeOK
    <3> QED
      BY <1>9, <3>1, Zenon DEF OutsideTypeOK, services, SetCancelSent
  <2> QED
    BY <2>1, <2>2, <2>3, <2>4
<1>10. ASSUME NEW r \in Req, SendMempool(r) PROVE TypeOK'
  <2>1. RedisTypeOK'
    BY <1>10, RedisTypeUnchanged DEF SendMempool
  <2>2. RequestTypeOK'
    BY <1>10, <1>a, FailType, GotoType DEF SendMempool, Labels
  <2>3. LocalTypeOK'
    BY <1>10, <1>a, Zenon DEF LocalTypeOK, locals, request, SendMempool
  <2>4. OutsideTypeOK'
    BY <1>10, <1>a DEF OutsideTypeOK, services, history, SendMempool
  <2> QED
    BY <2>1, <2>2, <2>3, <2>4
<1>11. ASSUME NEW r \in Req, CancelAtRelay(r) PROVE TypeOK'
  <2>1. RedisTypeOK'
    BY <1>11, RedisTypeUnchanged DEF CancelAtRelay
  <2>2. RequestTypeOK'
    BY <1>11, <1>a, FailType, SucceedType, Zenon DEF CancelAtRelay
  <2>3. LocalTypeOK'
    BY <1>11, <1>a, Zenon DEF LocalTypeOK, locals, request, CancelAtRelay
  <2>4. OutsideTypeOK'
    BY <1>11, <1>a, Zenon DEF OutsideTypeOK, services, history, CancelAtRelay
  <2> QED
    BY <2>1, <2>2, <2>3, <2>4
<1>12. ASSUME NEW r \in Req, GetSent(r) PROVE TypeOK'
  <2>1. RedisTypeOK'
    BY <1>12, RedisTypeUnchanged, Zenon DEF GetSent
  <2>2. RequestTypeOK'
    BY <1>12, <1>a, GotoType, Zenon DEF GetSent, Labels
  <2>3. LocalTypeOK'
    BY <1>12, <1>a, Zenon DEF LocalTypeOK, locals, request, GetSent, RedisTypeOK, Entry
  <2>4. OutsideTypeOK'
    BY <1>12, <1>a, Zenon DEF OutsideTypeOK, services, history, GetSent, Reasons
  <2> QED
    BY <2>1, <2>2, <2>3, <2>4
<1>13. ASSUME NEW r \in Req, GetStatus(r) PROVE TypeOK'
  <2>1. RedisTypeOK'
    BY <1>13, RedisTypeUnchanged DEF GetStatus
  <2>2. RequestTypeOK'
    <3>1. "done" \in Labels /\ "setSent" \in Labels /\ "isBlocked" \in Flags
      BY DEF Labels, Flags
    <3>2. CASE Goto(r, "setSent")
      BY <1>13, <1>a, <3>1, <3>2, GotoType DEF GetStatus
    <3>3. CASE /\ pc' = [pc EXCEPT ![r] = "done"]
               /\ jsonRes' = [jsonRes EXCEPT ![r] = "txHash"]
               /\ entry' = [entry EXCEPT ![r] = @ \cup {"isBlocked"}]
      BY <1>13, <3>1, <3>3 DEF GetStatus, RequestTypeOK, request
    <3> QED
      BY <1>13, <3>2, <3>3 DEF GetStatus
  <2>3. LocalTypeOK'
    BY <1>13, <1>a DEF LocalTypeOK, locals, request, GetStatus
  <2>4. OutsideTypeOK'
    BY <1>13, <1>a, Zenon DEF OutsideTypeOK, services, history, GetStatus, Reasons
  <2> QED
    BY <2>1, <2>2, <2>3, <2>4
<1>14. ASSUME NEW r \in Req, SetSent(r) PROVE TypeOK'
  <2>1. RedisTypeOK'
    BY <1>14, <1>a, RedisTypeWrite DEF SetSent, MarkSent
  <2>2. RequestTypeOK'
    <3>1. "getMinNonce" \in Labels /\ "sentToRelay" \in Flags
      BY DEF Labels, Flags
    <3> QED
      BY <1>14, <1>a, <3>1 DEF SetSent, RequestTypeOK, request
  <2>3. LocalTypeOK'
    BY <1>14, <1>a DEF LocalTypeOK, locals, request, SetSent
  <2>4. OutsideTypeOK'
    <3>1. markedUntil' \in [Req -> Nat]
      BY <1>14, MarkSentType DEF SetSent, OutsideTypeOK
    <3> QED
      BY <1>14, <3>1, Zenon DEF OutsideTypeOK, services, SetSent
  <2> QED
    BY <2>1, <2>2, <2>3, <2>4
<1>15. ASSUME NEW r \in Req, GetMinNonce(r) PROVE TypeOK'
  <2>1. RedisTypeOK'
    BY <1>15, RedisTypeUnchanged DEF GetMinNonce
  <2>2. RequestTypeOK'
    BY <1>15, <1>a, GotoType, FailType DEF GetMinNonce, Admit, Labels
  <2>3. LocalTypeOK'
    BY <1>15, <1>a DEF LocalTypeOK, locals, request, GetMinNonce, OutsideTypeOK, Admit
  <2>4. OutsideTypeOK'
    BY <1>15, <1>a, Zenon DEF OutsideTypeOK, services, history, GetMinNonce
  <2> QED
    BY <2>1, <2>2, <2>3, <2>4
<1>16. ASSUME NEW r \in Req, GetMinNonceUnreadable(r) PROVE TypeOK'
  <2>1. RedisTypeOK'
    BY <1>16, RedisTypeUnchanged, Zenon DEF GetMinNonceUnreadable
  <2>2. RequestTypeOK'
    <3>1. /\ "done" \in Labels /\ "setTxHash" \in Labels
          /\ ErrorFlag(r) \subseteq Flags
      BY DEF Labels, Flags, ErrorFlag
    <3> QED
      BY <1>16, <1>a, <3>1 DEF GetMinNonceUnreadable, RequestTypeOK, request
  <2>3. LocalTypeOK'
    BY <1>16, <1>a DEF LocalTypeOK, locals, request, GetMinNonceUnreadable
  <2>4. OutsideTypeOK'
    BY <1>16, <1>a, Zenon DEF OutsideTypeOK, services, history, GetMinNonceUnreadable
  <2> QED
    BY <2>1, <2>2, <2>3, <2>4
<1>17. ASSUME NEW r \in Req, GetMaxNonce(r) PROVE TypeOK'
  <2>1. RedisTypeOK'
    BY <1>17, RedisTypeUnchanged, Zenon DEF GetMaxNonce
  <2>2. RequestTypeOK'
    BY <1>17, <1>a, GotoType, FailType, Zenon DEF GetMaxNonce, Admit, Labels
  <2>3. LocalTypeOK'
    BY <1>17, <1>a, Zenon DEF LocalTypeOK, locals, request, GetMaxNonce, Admit
  <2>4. OutsideTypeOK'
    BY <1>17, <1>a, Zenon DEF OutsideTypeOK, services, history, GetMaxNonce
  <2> QED
    BY <2>1, <2>2, <2>3, <2>4
<1>18. ASSUME NEW r \in Req, SetTxHash(r) PROVE TypeOK'
  <2>1. RedisTypeOK'
    BY <1>18, <1>a, RedisTypeWrite, Zenon DEF SetTxHash
  <2>2. RequestTypeOK'
    BY <1>18, <1>a, GotoType, SucceedType, Zenon DEF SetTxHash, Labels
  <2>3. LocalTypeOK'
    BY <1>18, <1>a, Zenon DEF LocalTypeOK, locals, request, SetTxHash
  <2>4. OutsideTypeOK'
    BY <1>18, <1>a, Zenon DEF OutsideTypeOK, services, history, SetTxHash
  <2> QED
    BY <2>1, <2>2, <2>3, <2>4
<1>19. ASSUME NEW r \in Req, GetBlockNumber(r) PROVE TypeOK'
  <2>1. RedisTypeOK'
    BY <1>19, RedisTypeUnchanged DEF GetBlockNumber
  <2>2. RequestTypeOK'
    BY <1>19, <1>a, GotoType, FailType, Zenon DEF GetBlockNumber, Labels
  <2>3. LocalTypeOK'
    BY <1>19, <1>a, Zenon DEF LocalTypeOK, locals, request, GetBlockNumber
  <2>4. OutsideTypeOK'
    BY <1>19, <1>a, Zenon DEF OutsideTypeOK, services, history, GetBlockNumber
  <2> QED
    BY <2>1, <2>2, <2>3, <2>4
<1>20. ASSUME NEW r \in Req, SendToRelay(r) PROVE TypeOK'
  <2>1. RedisTypeOK'
    BY <1>20, RedisTypeUnchanged DEF SendToRelay
  <2>2. RequestTypeOK'
    BY <1>20, <1>a, FailType, SucceedType DEF SendToRelay
  <2>3. LocalTypeOK'
    BY <1>20, <1>a, Zenon DEF LocalTypeOK, locals, request, SendToRelay
  <2>4. OutsideTypeOK'
    BY <1>20, <1>a, Zenon DEF OutsideTypeOK, services, history, SendToRelay
  <2> QED
    BY <2>1, <2>2, <2>3, <2>4
<1>b. ASSUME NEW r \in Req, setMax[r] # "none"
      PROVE  tx[r] \in Tx /\ Sender(r) \in Account /\ Nonce(r) \in Nat
             /\ opt[r].blockRange \in Nat
  BY <1>b, RedisAssumption, RelayAssumption
  DEF LocalTypeOK, RequestTypeOK, OptionType, Sender, Nonce
<1>21. ASSUME NEW r \in Req, SetMaxGet(r) PROVE TypeOK'
  <2>1. RedisTypeOK'
    BY <1>21, RedisTypeUnchanged, Zenon DEF SetMaxGet
  <2>2. RequestTypeOK' /\ OutsideTypeOK'
    BY <1>21, Zenon DEF SetMaxGet, RequestTypeOK, request, control, OutsideTypeOK,
                 services, history
  <2>3. LocalTypeOK'
    BY <1>21, <1>b, Zenon DEF SetMaxGet, LocalTypeOK, request, locals
  <2> QED
    BY <2>1, <2>2, <2>3
<1>22. ASSUME NEW r \in Req, SetMaxSet(r) PROVE TypeOK'
  <2>1. RedisTypeOK'
    BY <1>22, <1>b, RedisTypeWrite, Zenon DEF SetMaxSet
  <2>2. RequestTypeOK' /\ OutsideTypeOK'
    BY <1>22 DEF SetMaxSet, RequestTypeOK, request, control, OutsideTypeOK,
                 services, history
  <2>3. LocalTypeOK'
    BY <1>22, <1>b, Zenon DEF SetMaxSet, LocalTypeOK, request, locals
  <2> QED
    BY <2>1, <2>2, <2>3
<1>23. ASSUME NEW a \in Account, Mine(a) PROVE TypeOK'
  <2>1. RedisTypeOK'
    BY <1>23, RedisTypeUnchanged DEF Mine
  <2>2. RequestTypeOK' /\ LocalTypeOK'
    BY <1>23, Zenon DEF Mine, RequestTypeOK, request, control, LocalTypeOK, locals
  <2>3. OutsideTypeOK'
    BY <1>23 DEF Mine, OutsideTypeOK, history
  <2> QED
    BY <2>1, <2>2, <2>3
<1>24. CASE TimePasses
  BY <1>24, RedisTypeTick
  DEF TimePasses, RequestTypeOK, request, control, LocalTypeOK, locals,
      OutsideTypeOK, services, history
<1>25. CASE UNCHANGED vars
  BY <1>25, RedisTypeUnchanged, Zenon
  DEF vars, RequestTypeOK, request, control, LocalTypeOK, locals, OutsideTypeOK,
      services, history
<1> QED
  BY <1>1, <1>2, <1>3, <1>4, <1>5, <1>6, <1>7, <1>8, <1>9, <1>10, <1>11, <1>12,
     <1>13, <1>14, <1>15, <1>16, <1>17, <1>18, <1>19, <1>20, <1>21, <1>22,
     <1>23, <1>24, <1>25, Zenon
  DEF Next, Handle, Cancelling, Sending, SetSenderMaxNonce, AllEnded

\* Every reachable state of the handlers is well typed; in particular a request
\* gets past its checks, and starts its goroutine, only with a transaction.
THEOREM TypeCorrect == Spec => []TypeOK
<1> QED
  BY TypeInit, TypeStep, PTL DEF Spec
=============================================================================
