---------------------------- MODULE TxRelayMarks ----------------------------
(***************************************************************************)
(* The mark "sent to relay": what a step of one request leaves alone, how  *)
(* marks move, and what a request may conclude from one.                   *)
(***************************************************************************)
EXTENDS TxRelayTypes

\* No other request's state changes.
OnlyOf(r) ==
    /\ UNCHANGED <<tx, opt, debug>>
    /\ \A q \in Req \ {r} :
         /\ pc'[q] = pc[q] /\ jsonRes'[q] = jsonRes[q] /\ entry'[q] = entry[q]
         /\ initialTx'[q] = initialTx[q] /\ minNonce'[q] = minNonce[q]
         /\ setMax'[q] = setMax[q]
         /\ markedUntil'[q] = markedUntil[q] /\ passedBy'[q] = passedBy[q]
         /\ dup'[q] = dup[q]
         /\ q \in relayed' <=> q \in relayed
         /\ q \in cancelled' <=> q \in cancelled
         /\ q \in bundled' <=> q \in bundled
         /\ q \in mempooled' <=> q \in mempooled

\* A handler works on the state of its own request; what requests share they
\* share through Redis.
LEMMA OneRequestAtATime ==
  ASSUME TypeOK, NEW r \in Req, Handle(r) \/ SetSenderMaxNonce(r)
  PROVE  OnlyOf(r)
<1> USE DEF OnlyOf, TypeOK, RequestTypeOK, LocalTypeOK, OutsideTypeOK, request,
            control, locals, services, history, Goto, Fail, Succeed, NotACancellation
<1>1. CASE RejectUndecodable(r)
  BY <1>1 DEF RejectUndecodable
<1>2. CASE PanicOnParameter(r)
  BY <1>2 DEF PanicOnParameter
<1>3. CASE Receive(r)
  BY <1>3 DEF Receive, Dispatch
<1>4. CASE RememberNonce(r)
  BY <1>4 DEF RememberNonce, Dispatch
<1>5. CASE AddToBundle(r)
  BY <1>5 DEF AddToBundle
<1>6. CASE GetInitial(r)
  BY <1>6 DEF GetInitial
<1>7. CASE GetInitialSent(r)
  BY <1>7 DEF GetInitialSent
<1>8. CASE GetCancelSent(r)
  BY <1>8 DEF GetCancelSent
<1>9. CASE SetCancelSent(r)
  BY <1>9 DEF SetCancelSent, MarkSent
<1>10. CASE SendMempool(r)
  BY <1>10 DEF SendMempool
<1>11. CASE CancelAtRelay(r)
  BY <1>11 DEF CancelAtRelay
<1>12. CASE GetSent(r)
  BY <1>12 DEF GetSent
<1>13. CASE GetStatus(r)
  BY <1>13 DEF GetStatus
<1>14. CASE SetSent(r)
  BY <1>14 DEF SetSent, MarkSent
<1>15. CASE GetMinNonce(r)
  BY <1>15 DEF GetMinNonce, Admit
<1>16. CASE GetMinNonceUnreadable(r)
  BY <1>16 DEF GetMinNonceUnreadable
<1>17. CASE GetMaxNonce(r)
  BY <1>17 DEF GetMaxNonce, Admit
<1>18. CASE SetTxHash(r)
  BY <1>18 DEF SetTxHash
<1>19. CASE GetBlockNumber(r)
  BY <1>19 DEF GetBlockNumber
<1>20. CASE SendToRelay(r)
  BY <1>20 DEF SendToRelay
<1>21. CASE SetMaxGet(r)
  BY <1>21 DEF SetMaxGet
<1>22. CASE SetMaxSet(r)
  BY <1>22 DEF SetMaxSet
<1> QED
  BY <1>1, <1>2, <1>3, <1>4, <1>5, <1>6, <1>7, <1>8, <1>9, <1>10, <1>11, <1>12, <1>13, <1>14, <1>15, <1>16, <1>17, <1>18, <1>19, <1>20, <1>21, <1>22, Zenon
  DEF Handle, Cancelling, Sending, SetSenderMaxNonce

\* The marks in Redis change with a request's SetTxSentToRelay only, and
\* nothing turns back the clock.
MarksMove ==
    \/ UNCHANGED <<txSentToRelay, markedUntil>> /\ now' \in {now, now + 1}
    \/ /\ UNCHANGED now
       /\ \E r \in Req :
            /\ tx[r] \in Tx /\ pc[r] \in {"setSent", "setCancelSent"}
            /\ txSentToRelay' = [txSentToRelay EXCEPT ![tx[r]] = Put(now, KeyTTL)]
            /\ markedUntil' = [markedUntil EXCEPT ![r] = now + KeyTTL]

\* Marks move only when SetTxSentToRelay succeeds, and then for one request.
LEMMA MarksFrame ==
  ASSUME TypeOK, [Next]_vars
  PROVE  UNCHANGED tx /\ MarksMove
<1> USE DEF redis, request, history, MarksMove, RedisErr
<1>a. ASSUME NEW r \in Req, pc[r] \notin {"idle", "done", "panic"}
      PROVE  tx[r] \in Tx
  BY <1>a DEF TypeOK, RequestTypeOK
<1>1. ASSUME NEW r \in Req, Receive(r) \/ RememberNonce(r) \/ SetTxHash(r) \/ SetMaxSet(r)
      PROVE  UNCHANGED tx /\ MarksMove
  BY <1>1, Zenon DEF Receive, RememberNonce, SetTxHash, SetMaxSet, SetSenderOfTxHash,
     SetNonceOfTxHash, SetTxHashForSenderAndNonce, PutSenderMaxNonce
<1>2. ASSUME NEW r \in Req, SetSent(r) \/ SetCancelSent(r)
      PROVE  UNCHANGED tx /\ MarksMove
  BY <1>2, <1>a DEF SetSent, SetCancelSent, MarkSent, SetTxSentToRelay
<1>3. ASSUME NEW r \in Req, \/ RejectUndecodable(r) \/ PanicOnParameter(r)
                            \/ AddToBundle(r) \/ GetInitial(r) \/ GetInitialSent(r)
                            \/ GetCancelSent(r) \/ SendMempool(r) \/ CancelAtRelay(r)
      PROVE  UNCHANGED tx /\ MarksMove
  BY <1>3, Zenon DEF RejectUndecodable, PanicOnParameter, AddToBundle, GetInitial,
     GetInitialSent, GetCancelSent, SendMempool, CancelAtRelay
<1>4. ASSUME NEW r \in Req, \/ GetSent(r) \/ GetStatus(r) \/ GetMinNonce(r)
                            \/ GetMinNonceUnreadable(r) \/ GetMaxNonce(r)
                            \/ GetBlockNumber(r) \/ SendToRelay(r) \/ SetMaxGet(r)
      PROVE  UNCHANGED tx /\ MarksMove
  BY <1>4, Zenon DEF GetSent, GetStatus, GetMinNonce, GetMinNonceUnreadable, GetMaxNonce,
     GetBlockNumber, SendToRelay, SetMaxGet
<1>5. ASSUME NEW a \in Account, Mine(a) PROVE UNCHANGED tx /\ MarksMove
  BY <1>5 DEF Mine
<1>6. CASE TimePasses
  BY <1>6 DEF TimePasses, Tick
<1>7. CASE UNCHANGED vars
  BY <1>7, Zenon DEF vars
<1> QED
  BY <1>1, <1>2, <1>3, <1>4, <1>5, <1>6, <1>7, Zenon
  DEF Next, Handle, Cancelling, Sending, SetSenderMaxNonce, AllEnded

\* No mark exists before the first request.
LEMMA MarkInvInit == Init => MarkInv
  BY RedisAssumption DEF Init, RedisInit, Gone, MarkInv

\* Every step of every handler keeps marks in Redis and marks made in step.
LEMMA MarkInvStep == TypeOK /\ MarkInv /\ [Next]_vars => MarkInv'
<1> SUFFICES ASSUME TypeOK, MarkInv, [Next]_vars PROVE MarkInv'
  OBVIOUS
<1> USE RedisAssumption
<1>1. UNCHANGED tx /\ MarksMove
  BY MarksFrame
<1>t. /\ now \in Nat /\ txSentToRelay \in [Tx -> [val : Nat, exp : Nat]]
      /\ markedUntil \in [Req -> Nat]
  BY DEF TypeOK, RedisTypeOK, Entry, OutsideTypeOK
<1>2. CASE UNCHANGED <<txSentToRelay, markedUntil>> /\ now' \in {now, now + 1}
  BY <1>1, <1>2, <1>t DEF MarkInv, Claimed
<1>3. ASSUME NEW r \in Req, UNCHANGED now, tx[r] \in Tx,
             txSentToRelay' = [txSentToRelay EXCEPT ![tx[r]] = Put(now, KeyTTL)],
             markedUntil' = [markedUntil EXCEPT ![r] = now + KeyTTL]
      PROVE  MarkInv'
  <2>1. ASSUME NEW q \in Req, markedUntil'[q] > 0
        PROVE  tx[q] \in Tx /\ markedUntil'[q] <= txSentToRelay'[tx[q]].exp
    BY <1>3, <2>1, <1>t DEF MarkInv, Put
  <2>2. ASSUME NEW t \in Tx
        PROVE  /\ txSentToRelay'[t].exp > 0 => \E q \in Req : tx[q] = t /\ markedUntil'[q] > 0
               /\ txSentToRelay'[t].exp <= now' + KeyTTL
    <3>1. CASE t = tx[r]
      BY <1>3, <3>1, <1>t DEF Put
    <3>2. CASE t # tx[r]
      BY <1>3, <3>2, <1>t DEF MarkInv, Claimed
    <3> QED
      BY <3>1, <3>2
  <2> QED
    BY <1>1, <2>1, <2>2 DEF MarkInv, Claimed
<1> QED
  BY <1>1, <1>2, <1>3 DEF MarksMove

\* A claim outlives every step.
LEMMA ClaimKept ==
  ASSUME TypeOK, [Next]_vars
  PROVE  tx' = tx /\ \A q \in Req : markedUntil[q] > 0 => markedUntil'[q] > 0
<1>1. UNCHANGED tx /\ MarksMove
  BY MarksFrame
<1>2. now \in Nat /\ markedUntil \in [Req -> Nat] /\ KeyTTL \in Nat \ {0}
  BY RedisAssumption DEF TypeOK, RedisTypeOK, OutsideTypeOK
<1> QED
  BY <1>1, <1>2 DEF MarksMove

-----------------------------------------------------------------------------
(* Resends and answers *)

\* No request has passed blockResendingTxToRelay at the start.
LEMMA PassInvInit == Init => PassInv
  BY DEF Init, PassInv, PassInvOf, AfterCheck

\* The invariant of a request that the step is not about.
LEMMA PassInvOthers ==
  ASSUME TypeOK, PassInv, [Next]_vars, NEW r \in Req, OnlyOf(r),
         NEW q \in Req \ {r}
  PROVE  PassInvOf(q)'
<1>2. tx' = tx /\ debug' = debug
  BY DEF OnlyOf
<1>3. Claimed(tx[q], Req \ {q}) => Claimed(tx[q], Req \ {q})'
  BY ClaimKept DEF Claimed
<1>4. PassInvOf(q)
  BY DEF PassInv
<1>5. passedBy'[q] = "notSent" => ~dup'[q]
  BY <1>4, Zenon DEF PassInvOf, OnlyOf
<1>6. /\ pc'[q] = pc[q] /\ markedUntil'[q] = markedUntil[q] /\ jsonRes'[q] = jsonRes[q]
      /\ passedBy'[q] = passedBy[q]
      /\ q \in relayed' <=> q \in relayed
      /\ q \in cancelled' <=> q \in cancelled
      /\ q \in bundled' <=> q \in bundled
  BY Zenon DEF OnlyOf
<1> QED
  BY <1>2, <1>3, <1>4, <1>5, <1>6 DEF PassInvOf

\* The invariant of the request that the step is about.
LEMMA PassInvOwn ==
  ASSUME TypeOK, MarkInv, PassInv, [Next]_vars, NEW r \in Req,
         Handle(r) \/ SetSenderMaxNonce(r)
  PROVE  PassInvOf(r)'
<1>1. PassInvOf(r)
  BY DEF PassInv
<1>2. tx' = tx /\ debug' = debug
  BY OneRequestAtATime, Zenon DEF OnlyOf
<1>3. Claimed(tx[r], Req \ {r}) => Claimed(tx[r], Req \ {r})'
  BY ClaimKept DEF Claimed
<1>4. ASSUME pc[r] \notin {"idle", "done", "panic"} PROVE tx[r] \in Tx
  BY <1>4 DEF TypeOK, RequestTypeOK
\* A live mark of the request's transaction was made by another request.
<1>5. ASSUME pc[r] \in BeforeMark, tx[r] \in Tx, Found(txSentToRelay[tx[r]])
      PROVE  Claimed(tx[r], Req \ {r})
  <2>1. txSentToRelay[tx[r]].exp > 0
    BY <1>5 DEF Found, TypeOK, RedisTypeOK, Entry
  <2>2. PICK q \in Req : tx[q] = tx[r] /\ markedUntil[q] > 0
    BY <2>1, <1>5 DEF MarkInv, Claimed
  <2>3. q # r
    BY <1>5, <1>1, <2>2 DEF PassInvOf
  <2> QED
    BY <2>2, <2>3 DEF Claimed
<1> USE DEF PassInvOf, TypeOK, RequestTypeOK, OutsideTypeOK, control, services, history,
            Goto, Fail, Succeed, NotACancellation, BeforeMark, AfterCheck
<1>11. CASE RejectUndecodable(r)
  BY <1>11, <1>1, <1>2, <1>3 DEF RejectUndecodable
<1>12. CASE PanicOnParameter(r)
  BY <1>12, <1>1, <1>2, <1>3 DEF PanicOnParameter
<1>13. CASE Receive(r)
  BY <1>13, <1>1, <1>2, <1>3 DEF Receive, Dispatch
<1>14. CASE RememberNonce(r)
  BY <1>14, <1>1, <1>2, <1>3 DEF RememberNonce, Dispatch
<1>15. CASE AddToBundle(r)
  BY <1>15, <1>1, <1>2, <1>3 DEF AddToBundle
<1>16. CASE GetInitial(r)
  BY <1>16, <1>1, <1>2, <1>3 DEF GetInitial
<1>17. CASE GetInitialSent(r)
  BY <1>17, <1>1, <1>2, <1>3, Zenon DEF GetInitialSent
<1>18. CASE GetCancelSent(r)
  BY <1>18, <1>1, <1>2, <1>3, <1>4, <1>5 DEF GetCancelSent
<1>19. CASE SetCancelSent(r)
  BY <1>19, <1>1, <1>2, <1>3 DEF SetCancelSent, MarkSent
<1>20. CASE SendMempool(r)
  BY <1>20, <1>1, <1>2, <1>3, Zenon DEF SendMempool
<1>21. CASE CancelAtRelay(r)
  BY <1>21, <1>1, <1>2, <1>3, Zenon DEF CancelAtRelay
<1>22. CASE GetSent(r)
  <2>1. ~Found(txSentToRelay[tx[r]]) => ~dup'[r]
    <3>1. ASSUME NEW q \in Req, tx[q] = tx[r], markedUntil[q] > now
          PROVE  Found(txSentToRelay[tx[r]])
      BY <3>1, <1>22, <1>4 DEF GetSent, MarkInv, Found, RedisTypeOK, Entry
    <3> QED
      BY <3>1, <1>22 DEF GetSent
  <2>2. passedBy'[r] = "notSent" => ~dup'[r]
    <3>1. Found(txSentToRelay[tx[r]]) => passedBy'[r] # "notSent"
      BY <1>22, <1>1 DEF GetSent
    <3> QED
      BY <1>22, <2>1, <3>1 DEF GetSent
  <2>3. (pc[r] = "getStatus")' => Claimed(tx[r], Req \ {r})'
    BY <1>22, <1>3, <1>4, <1>5 DEF GetSent
  <2> QED
    BY <1>22, <1>1, <1>2, <2>2, <2>3, Zenon DEF GetSent
<1>23. CASE GetStatus(r)
  BY <1>23, <1>1, <1>2, <1>3, Zenon DEF GetStatus
<1>24. CASE SetSent(r)
  BY <1>24, <1>1, <1>2, <1>3 DEF SetSent, MarkSent
<1>25. CASE GetMinNonce(r)
  BY <1>25, <1>1, <1>2, <1>3 DEF GetMinNonce, Admit
<1>26. CASE GetMinNonceUnreadable(r)
  BY <1>26, <1>1, <1>2, <1>3 DEF GetMinNonceUnreadable
<1>27. CASE GetMaxNonce(r)
  BY <1>27, <1>1, <1>2, <1>3 DEF GetMaxNonce, Admit
<1>28. CASE SetTxHash(r)
  BY <1>28, <1>1, <1>2, <1>3 DEF SetTxHash
<1>29. CASE GetBlockNumber(r)
  BY <1>29, <1>1, <1>2, <1>3, Zenon DEF GetBlockNumber
<1>30. CASE SendToRelay(r)
  BY <1>30, <1>1, <1>2, <1>3, Zenon DEF SendToRelay
<1>31. CASE SetMaxGet(r)
  BY <1>31, <1>1, <1>2, <1>3, Zenon DEF SetMaxGet
<1>32. CASE SetMaxSet(r)
  BY <1>32, <1>1, <1>2, <1>3, Zenon DEF SetMaxSet
<1> QED
  BY <1>11, <1>12, <1>13, <1>14, <1>15, <1>16, <1>17, <1>18, <1>19, <1>20, <1>21, <1>22, <1>23, <1>24, <1>25, <1>26, <1>27, <1>28, <1>29, <1>30, <1>31, <1>32, Zenon
  DEF Handle, Cancelling, Sending, SetSenderMaxNonce

\* Every step keeps what the requests learnt in blockResendingTxToRelay true.
LEMMA PassInvStep == TypeOK /\ MarkInv /\ PassInv /\ [Next]_vars => PassInv'
<1> SUFFICES ASSUME TypeOK, MarkInv, PassInv, [Next]_vars PROVE PassInv'
  OBVIOUS
<1>1. ASSUME NEW r \in Req, Handle(r) \/ SetSenderMaxNonce(r) PROVE PassInv'
  BY <1>1, PassInvOwn, PassInvOthers, OneRequestAtATime DEF PassInv
<1>2. ASSUME \/ \E a \in Account : Mine(a)
             \/ TimePasses
             \/ UNCHANGED vars
      PROVE  PassInv'
  <2>1. UNCHANGED <<tx, debug, pc, jsonRes, relayed, cancelled, bundled,
                    markedUntil, passedBy, dup>>
    BY <1>2 DEF Mine, TimePasses, vars, request, control, services, history
  <2> QED
    BY <2>1, Zenon DEF PassInv, PassInvOf, Claimed
<1> QED
  BY <1>1, <1>2 DEF Next, AllEnded

\* The three invariants about the mark "sent to relay" hold together: Redis holds
\* a mark only if a request made it, and no request is past blockResendingTxToRelay
\* or answered by it without a reason.
THEOREM MarksInvariant == Spec => [](TypeOK /\ MarkInv /\ PassInv)
<1>1. Init => TypeOK /\ MarkInv /\ PassInv
  BY TypeInit, MarkInvInit, PassInvInit
<1>2. TypeOK /\ MarkInv /\ PassInv /\ [Next]_vars => (TypeOK /\ MarkInv /\ PassInv)'
  BY TypeStep, MarkInvStep, PassInvStep
<1> QED
  BY <1>1, <1>2, PTL DEF Spec

\* blockResendingTxToRelay sends a transaction that is already marked only for
\* one of its reasons, however requests interleave and marks expire.
THEOREM ResendTheorem == Spec => []ResendNeedsReason
<1>1. TypeOK /\ PassInv => ResendNeedsReason
  BY Zenon DEF TypeOK, OutsideTypeOK, Reasons, PassInv, PassInvOf, ResendNeedsReason
<1> QED
  BY <1>1, MarksInvariant, PTL

\* No request is told its transaction was taken unless it, or another request
\* for the same transaction, did something about it.
THEOREM SuccessTheorem == Spec => []SuccessIsBacked
<1>1. PassInv => SuccessIsBacked
  BY Zenon DEF PassInv, PassInvOf, Claimed, SuccessIsBacked
<1> QED
  BY <1>1, MarksInvariant, PTL
=============================================================================
