----------------------------- MODULE RedisState -----------------------------
(***************************************************************************)
(* The state the endpoint shares through Redis (server/redisstate.go): one *)
(* variable per key prefix, and one operator per RedisState method that    *)
(* issues a command.  Every key is written with a time to live; an entry   *)
(* carries the time at which Redis drops it, and is found while that time  *)
(* lies in the future.  A key that was never set, or was deleted, expires  *)
(* at time 0.                                                              *)
(*                                                                         *)
(* A write operator says what it does to every key, so that a handler      *)
(* conjoins exactly one of them, RedisErr, or UNCHANGED redis, per step.   *)
(***************************************************************************)
EXTENDS Naturals

CONSTANTS
    Account,        \* lower-cased sender addresses
    Tx,             \* transactions, each standing for its lower-cased hash
    TxFrom,         \* TxFrom[t]: the sender of t
    TxNonce,        \* TxNonce[t]: the nonce of t
    KeyTTL,         \* the 10 minutes of redisstate.go:18-46
    MaxNonceTTL,    \* the 280 seconds of RedisExpirySenderMaxNonce
    MaxTime,        \* bound: the clock stops here
    Faults,         \* services that may answer with an error
    Nil             \* no value

ASSUME RedisAssumption ==
    /\ TxFrom \in [Tx -> Account]
    /\ TxNonce \in [Tx -> Nat]
    /\ KeyTTL \in Nat \ {0}
    /\ MaxNonceTTL \in Nat \ {0}
    /\ MaxTime \in Nat
    /\ Nil \notin Tx
    /\ Nil \notin Account

VARIABLES
    now,                        \* Now(), in units of the TTLs
    txSentToRelay,              \* tx-sent-to-relay: hash -> time sent
    txHashForSenderAndNonce,    \* txsender-and-nonce-to-txhash: -> hash
    senderOfTxHash,             \* txsender-of-txhash: hash -> sender
    nonceOfTxHash,              \* txnonce-of-txhash: hash -> nonce
    senderMaxNonce,             \* txsender-pending-max-nonce: sender -> nonce
    nonceFixForAccount          \* txsender-with-nonce-fix: sender -> count

redis == <<txSentToRelay, txHashForSenderAndNonce, senderOfTxHash,
           nonceOfTxHash, senderMaxNonce, nonceFixForAccount>>

\* The keys "sender_nonce" that some transaction can use.
Slot == {<<TxFrom[t], TxNonce[t]>> : t \in Tx}
SlotOf(t) == <<TxFrom[t], TxNonce[t]>>

Entry(V) == [val : V, exp : Nat]
Put(v, ttl) == [val |-> v, exp |-> now + ttl]
Gone(v) == [val |-> v, exp |-> 0]

\* GET finds the entry: it is set and has not expired.
Found(e) == e.exp > now

RedisTypeOK ==
    /\ now \in Nat
    /\ txSentToRelay \in [Tx -> Entry(Nat)]
    /\ txHashForSenderAndNonce \in [Slot -> Entry(Tx \cup {Nil})]
    /\ senderOfTxHash \in [Tx -> Entry(Account \cup {Nil})]
    /\ nonceOfTxHash \in [Tx -> Entry(Nat)]
    /\ senderMaxNonce \in [Account -> Entry(Nat)]
    /\ nonceFixForAccount \in [Account -> Entry(Nat)]

RedisInit ==
    /\ now = 0
    /\ txSentToRelay = [t \in Tx |-> Gone(0)]
    /\ txHashForSenderAndNonce = [s \in Slot |-> Gone(Nil)]
    /\ senderOfTxHash = [t \in Tx |-> Gone(Nil)]
    /\ nonceOfTxHash = [t \in Tx |-> Gone(0)]
    /\ senderMaxNonce = [a \in Account |-> Gone(0)]
    /\ nonceFixForAccount = [a \in Account |-> Gone(0)]

\* A write fails and has no effect.  (A write that takes effect and whose reply
\* is lost looks like an error too; no handler acts on the error of a write in
\* a way that tells the two apart, unless its action says so.)
RedisErr == "redisSet" \in Faults /\ UNCHANGED redis

\* Mutant: the expiry of the next key.
SetTxSentToRelayShort(t) ==
    /\ txSentToRelay' = [txSentToRelay EXCEPT ![t] = Put(now, MaxNonceTTL)]
    /\ UNCHANGED <<txHashForSenderAndNonce, senderOfTxHash, nonceOfTxHash,
                   senderMaxNonce, nonceFixForAccount>>

SetTxSentToRelay(t) ==
    /\ txSentToRelay' = [txSentToRelay EXCEPT ![t] = Put(now, KeyTTL)]
    /\ UNCHANGED <<txHashForSenderAndNonce, senderOfTxHash, nonceOfTxHash,
                   senderMaxNonce, nonceFixForAccount>>

SetTxHashForSenderAndNonce(s, t) ==
    /\ txHashForSenderAndNonce' =
           [txHashForSenderAndNonce EXCEPT ![s] = Put(t, KeyTTL)]
    /\ UNCHANGED <<txSentToRelay, senderOfTxHash, nonceOfTxHash,
                   senderMaxNonce, nonceFixForAccount>>

\* The two commands of SetSenderAndNonceOfTxHash.
SetSenderOfTxHash(t) ==
    /\ senderOfTxHash' = [senderOfTxHash EXCEPT ![t] = Put(TxFrom[t], KeyTTL)]
    /\ UNCHANGED <<txSentToRelay, txHashForSenderAndNonce, nonceOfTxHash,
                   senderMaxNonce, nonceFixForAccount>>

SetNonceOfTxHash(t) ==
    /\ nonceOfTxHash' = [nonceOfTxHash EXCEPT ![t] = Put(TxNonce[t], KeyTTL)]
    /\ UNCHANGED <<txSentToRelay, txHashForSenderAndNonce, senderOfTxHash,
                   senderMaxNonce, nonceFixForAccount>>

\* The SET at the end of SetSenderMaxNonce: a block range given by the user
\* replaces the default time to live.
PutSenderMaxNonce(a, n, blockRange) ==
    /\ senderMaxNonce' = [senderMaxNonce EXCEPT ![a] =
           Put(n, IF blockRange > 0 THEN blockRange ELSE MaxNonceTTL)]
    /\ UNCHANGED <<txSentToRelay, txHashForSenderAndNonce, senderOfTxHash,
                   nonceOfTxHash, nonceFixForAccount>>

DelSenderMaxNonce(a) ==
    /\ senderMaxNonce' = [senderMaxNonce EXCEPT ![a] = Gone(0)]
    /\ UNCHANGED <<txSentToRelay, txHashForSenderAndNonce, senderOfTxHash,
                   nonceOfTxHash, nonceFixForAccount>>

SetNonceFixForAccount(a, n) ==
    /\ nonceFixForAccount' = [nonceFixForAccount EXCEPT ![a] = Put(n, KeyTTL)]
    /\ UNCHANGED <<txSentToRelay, txHashForSenderAndNonce, senderOfTxHash,
                   nonceOfTxHash, senderMaxNonce>>

\* Time passes; the entries that have reached their time to live are no
\* longer found.
Tick ==
    /\ now < MaxTime
    /\ now' = now + 1
    /\ UNCHANGED redis
=============================================================================
