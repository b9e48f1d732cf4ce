------------------------------ MODULE RpcCache ------------------------------
(***************************************************************************)
(* The cache of node answers (application/rpc_cache.go).  Its only key is  *)
(* "web3_clientVersion".  An entry is the whole JSON-RPC response, the id  *)
(* of the request it answered included, under the time of Set; Get and Set *)
(* hold the mutex throughout, so each is one step.                         *)
(*                                                                         *)
(* Time is kept as ages, which the clock of the server advances: for how   *)
(* long the entry has been set, and for how long the node's answer has     *)
(* existed.  They stop growing once the entry can no longer be served.     *)
(***************************************************************************)
EXTENDS Naturals

CONSTANTS
    HttpReq,        \* POST requests, each made once; also their JSON-RPC ids
    CacheTTL,       \* TTL_CACHE_SECONDS
    Nobody          \* no request

ASSUME CacheAssumption == CacheTTL \in Nat /\ Nobody \notin HttpReq

VARIABLE cache      \* the entry; its id is Nobody when there is none

Cached == [id : HttpReq \cup {Nobody}, age : Nat, stamp : 0..CacheTTL + 1]

NoEntry == [id |-> Nobody, age |-> 0, stamp |-> 0]

\* Mutant: the comparison is off by one.
CacheHitLate == cache.id # Nobody /\ cache.stamp <= CacheTTL + 1

\* Get finds an entry that is not older than the ttl.
CacheHit == cache.id # Nobody /\ cache.stamp <= CacheTTL

\* Get deletes an entry it finds expired.
CacheMiss == ~CacheHit /\ cache' = NoEntry

\* Set replaces the entry, by an answer that is age old.
CacheSet(h, age) == cache' = [id |-> h, age |-> age, stamp |-> 0]

\* One unit of time.
CacheTick ==
    cache' = IF cache.id # Nobody /\ cache.stamp <= CacheTTL
             THEN [cache EXCEPT !.age = @ + 1, !.stamp = @ + 1]
             ELSE cache
=============================================================================
