--------------------------- MODULE WhitehatBundle ---------------------------
(***************************************************************************)
(* The list of transactions collected under one whitehat bundle id: what   *)
(* AddTxToWhitehatBundle (redisstate.go) does for requests that run at the *)
(* same time, in one process or in several that share Redis, and what      *)
(* DELETE /bundle (server.go) and expiry do to the list meanwhile.         *)
(* GET /bundle returns the list as it is.  One action is one command.      *)
(*                                                                         *)
(* An add issues LRANGE, LPUSH, EXPIRE and LTRIM without a transaction.    *)
(* Each may fail, and the process may die between two of them, which       *)
(* leaves the list as a failure does.  Redis keeps no empty list: the key  *)
(* exists while the list has entries.                                      *)
(***************************************************************************)
EXTENDS Naturals, Sequences, FiniteSets

CONSTANTS
    Adder,          \* wallets, each adding one transaction after another
    SignedTx,       \* raw transactions
    TrimStop,       \* the 15 of LTRIM 0 15 at redisstate.go:245
    BundleTTL,      \* RedisExpiryWhitehatBundleTransactions
    MaxFaults       \* bound: commands that fail or lose their reply

ASSUME BundleAssumption ==
    /\ IsFiniteSet(Adder)
    /\ TrimStop \in Nat
    /\ BundleTTL \in Nat \ {0}
    /\ MaxFaults \in Nat

VARIABLES
    bundle,         \* whitehatBundleTransactions-<id>, newest first
    ttl,            \* time until the key expires, 0 when it has no expiry
    at,             \* the command an add issues next
    signedTx,       \* the transaction an add is about
    faults,         \* history: commands that failed or lost their reply
    untrimmed,      \* history: pushes since the last LTRIM that get none
    unexpiring,     \* history: a push since the last EXPIRE gets none
    newest          \* history: the TrimStop + 1 newest pushes onto this list

bundleVars == <<bundle, ttl, at, signedTx, faults, untrimmed, unexpiring, newest>>

Steps == {"idle", "lpush", "expire", "ltrim"}

\* The type of the state.
BundleTypeOK ==
    /\ bundle \in Seq(SignedTx)
    /\ ttl \in 0..BundleTTL
    /\ at \in [Adder -> Steps]
    /\ signedTx \in [Adder -> SignedTx]
    /\ faults \in 0..MaxFaults
    /\ untrimmed \in Nat
    /\ unexpiring \in BOOLEAN
    /\ newest \in Seq(SignedTx)

BundleInit ==
    /\ bundle = <<>>
    /\ ttl = 0
    /\ at = [r \in Adder |-> "idle"]
    /\ signedTx \in [Adder -> SignedTx]
    /\ faults = 0
    /\ untrimmed = 0
    /\ unexpiring = FALSE
    /\ newest = <<>>

-----------------------------------------------------------------------------
Listed(t) == \E i \in DOMAIN bundle : bundle[i] = t

\* The entries at offsets 0 to n, counted as Redis does.
Head0To(n, s) == SubSeq(s, 1, IF Len(s) > n + 1 THEN n + 1 ELSE Len(s))

Step(r, from, to) == at[r] = from /\ at' = [at EXCEPT ![r] = to]

\* A command fails, or its reply is lost.
Fault == faults < MaxFaults /\ faults' = faults + 1

\* The key is gone, by DEL or by expiry.
Gone ==
    /\ bundle' = <<>>
    /\ ttl' = 0
    /\ untrimmed' = 0
    /\ unexpiring' = FALSE
    /\ newest' = <<>>
    /\ UNCHANGED <<at, signedTx, faults>>

\* Mutant: the list is not searched.
LRangeUnread(r, t) ==
    /\ Step(r, "idle", "lpush")
    /\ signedTx' = [signedTx EXCEPT ![r] = t]
    /\ UNCHANGED <<bundle, ttl, faults, untrimmed, unexpiring, newest>>

\* The add begins: nothing to do for a transaction on the list.  When LRANGE
\* fails the list is not searched.
LRange(r, t) ==
    /\ Step(r, "idle", "lpush")
    /\ signedTx' = [signedTx EXCEPT ![r] = t]
    /\ \/ ~Listed(t) /\ UNCHANGED faults
       \/ Fault
    /\ UNCHANGED <<bundle, ttl, untrimmed, unexpiring, newest>>

LPush(r) ==
    /\ Step(r, "lpush", "expire")
    /\ bundle' = <<signedTx[r]>> \o bundle
    /\ newest' = Head0To(TrimStop, <<signedTx[r]>> \o newest)
    /\ UNCHANGED <<ttl, signedTx, faults, untrimmed, unexpiring>>

\* The push takes effect and the reply is lost: the Redis client sends the
\* command again, or gives up and the add returns the error.
LPushUnanswered(r) ==
    /\ Fault
    /\ \E next \in {"lpush", "idle"} : Step(r, "lpush", next)
    /\ bundle' = <<signedTx[r]>> \o bundle
    /\ newest' = Head0To(TrimStop, <<signedTx[r]>> \o newest)
    /\ untrimmed' = untrimmed + 1
    /\ unexpiring' = TRUE
    /\ UNCHANGED <<ttl, signedTx>>

LPushFails(r) ==
    /\ Fault
    /\ Step(r, "lpush", "idle")
    /\ UNCHANGED <<bundle, ttl, signedTx, untrimmed, unexpiring, newest>>

\* Mutant: the expiry is left to the add that finds itself alone on the list.
ExpireFirst(r) ==
    /\ Step(r, "expire", "ltrim")
    /\ ttl' = IF Len(bundle) = 1 THEN BundleTTL ELSE ttl
    /\ unexpiring' = FALSE
    /\ UNCHANGED <<bundle, signedTx, faults, untrimmed, newest>>

\* EXPIRE on a key that was deleted meanwhile does nothing.
Expire(r) ==
    /\ Step(r, "expire", "ltrim")
    /\ ttl' = IF bundle = <<>> THEN 0 ELSE BundleTTL
    /\ unexpiring' = FALSE
    /\ UNCHANGED <<bundle, signedTx, faults, untrimmed, newest>>

ExpireFails(r) ==
    /\ Fault
    /\ Step(r, "expire", "idle")
    /\ untrimmed' = untrimmed + 1
    /\ unexpiring' = TRUE
    /\ UNCHANGED <<bundle, ttl, signedTx, newest>>

\* The expiry is set and the reply lost: EXPIRE is sent again, or the add returns
\* the error and does not trim.
ExpireUnanswered(r) ==
    /\ Fault
    /\ \/ Step(r, "expire", "expire") /\ UNCHANGED untrimmed
       \/ Step(r, "expire", "idle") /\ untrimmed' = untrimmed + 1
    /\ ttl' = IF bundle = <<>> THEN 0 ELSE BundleTTL
    /\ unexpiring' = FALSE
    /\ UNCHANGED <<bundle, signedTx, newest>>

\* Mutant: LTRIM -16 -1 keeps the oldest entries.
LTrimNewest(r) ==
    /\ Step(r, "ltrim", "idle")
    /\ bundle' = SubSeq(bundle, IF Len(bundle) > TrimStop + 1
                                THEN Len(bundle) - TrimStop ELSE 1, Len(bundle))
    /\ untrimmed' = 0
    /\ UNCHANGED <<ttl, signedTx, faults, unexpiring, newest>>

\* Mutant: one entry is dropped, as if no other add could be running.
LTrimLast(r) ==
    /\ Step(r, "ltrim", "idle")
    /\ bundle' = SubSeq(bundle, 1, IF Len(bundle) > TrimStop + 1
                                   THEN Len(bundle) - 1 ELSE Len(bundle))
    /\ untrimmed' = 0
    /\ UNCHANGED <<ttl, signedTx, faults, unexpiring, newest>>

\* LTRIM 0 TrimStop keeps the entries at offsets 0 to TrimStop, counted from
\* the newest.
LTrim(r) ==
    /\ Step(r, "ltrim", "idle")
    /\ bundle' = Head0To(TrimStop, bundle)
    /\ untrimmed' = 0
    /\ UNCHANGED <<ttl, signedTx, faults, unexpiring, newest>>

LTrimFails(r) ==
    /\ Fault
    /\ Step(r, "ltrim", "idle")
    /\ untrimmed' = untrimmed + 1
    /\ UNCHANGED <<bundle, ttl, signedTx, unexpiring, newest>>

\* The list is trimmed and the reply lost: LTRIM is sent again, or the add returns
\* the error.
LTrimUnanswered(r) ==
    /\ Fault
    /\ \E next \in {"ltrim", "idle"} : Step(r, "ltrim", next)
    /\ bundle' = Head0To(TrimStop, bundle)
    /\ untrimmed' = 0
    /\ UNCHANGED <<ttl, signedTx, unexpiring, newest>>

AddTxToWhitehatBundle(r) ==
    \/ \E t \in SignedTx : LRange(r, t)
    \/ LPush(r) \/ LPushUnanswered(r) \/ LPushFails(r)
    \/ Expire(r) \/ ExpireUnanswered(r) \/ ExpireFails(r)
    \/ LTrim(r) \/ LTrimUnanswered(r) \/ LTrimFails(r)

\* DELETE /bundle; a DEL that fails is answered with 200 all the same.
DelWhitehatBundleTx == bundle # <<>> /\ Gone

\* Time passes, up to the expiry of the key.
BundleTick ==
    /\ ttl > 0
    /\ \/ ttl = 1 /\ Gone
       \/ /\ ttl > 1
          /\ ttl' = ttl - 1
          /\ UNCHANGED <<bundle, at, signedTx, faults, untrimmed, unexpiring, newest>>

BundleNext ==
    \/ \E r \in Adder : AddTxToWhitehatBundle(r)
    \/ DelWhitehatBundleTx
    \/ BundleTick

BundleSpec == BundleInit /\ [][BundleNext]_bundleVars

-----------------------------------------------------------------------------
\* The adds that have pushed and are going to trim.
Trimming == {r \in Adder : at[r] \in {"expire", "ltrim"}}

\* LTRIM 0 15 keeps 16 entries, and the list never holds more, but for one per add
\* that is between its LPUSH and its LTRIM, and one per push since the last LTRIM
\* whose add failed before its own: racing adds cannot grow it further.  (The
\* comment of the code says 15: LimitedAsCommented.)
BundleBounded ==
    Len(bundle) <= TrimStop + 1 + Cardinality(Trimming) + untrimmed

\* A list without expiry is about to get one, or some add failed between its
\* LPUSH and its EXPIRE and no EXPIRE has succeeded since: neither racing adds
\* nor a DELETE or an expiry between two commands leave a list that stays.
BundleExpires ==
    bundle # <<>> /\ ttl = 0 => unexpiring \/ \E r \in Adder : at[r] = "expire"

\* Whatever adds race, fail or repeat a push, the TrimStop + 1 newest pushes
\* since the list was last deleted or expired are its first entries, in order:
\* a trim issued late never drops an entry that a newer one did not displace.
NewestListed ==
    /\ Len(newest) <= Len(bundle)
    /\ \A i \in DOMAIN newest : bundle[i] = newest[i]

\* Where t is on the list s.
Copies(t, s) == {i \in DOMAIN s : s[i] = t}

\* The search before the push is not atomic with it.  Still a transaction is
\* listed at most once per wallet that adds it at the same time, and once more
\* per failed LRANGE or LPUSH reply lost: adds one after the other do not
\* repeat it, also not across deletion, expiry and trimming.
CopiesBounded ==
    \A t \in SignedTx :
        Cardinality(Copies(t, bundle)) <= Cardinality(Adder) + faults

-----------------------------------------------------------------------------
(* A statement of a comment that the code does not keep *)

\* redisstate.go:244, "Limit to 15 entries": once no add is under way, and no
\* trim is missing, the list has at most that many.
LimitedAsCommented ==
    (\A r \in Adder : at[r] = "idle") /\ untrimmed = 0 => Len(bundle) <= TrimStop
=============================================================================
