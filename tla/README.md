# A TLA+ verification of the RPC endpoint

The endpoint is a JSON-RPC proxy between wallets and a private-transaction
relay. Most methods are forwarded to an Ethereum node. Raw transactions are
sent to the relay instead, and a handful of methods are answered so that
wallets cope with transactions the public mempool never sees. What makes it
hard to get right is that nothing is kept in the process: every decision about
a transaction rests on Redis keys that expire, that every request of every
instance reads and writes with separate GET and SET commands, and that are
written *before* the call they record.

## Inventory

| Part | State | Operations | Modules |
|---|---|---|---|
| Redis state (`server/redisstate.go`) | key prefixes, each with a time to live | `Set…`, `Get…`, `Del…` | `RedisState` |
| Submission and cancellation (`request_sendrawtx.go`, `request_sendprivatetx.go`, `request_processor.go`) | per request: transaction, response, database entry; sent marks; hash by sender and nonce; pending maximum | `handle_sendRawTransaction`, `handle_sendPrivateTransaction`, `sendTxToRelay`, `blockResendingTxToRelay`, `GetAddressNonceRange`, `handleCancelTx`, the goroutine of `SetSenderMaxNonce` | `TxRelay`; its promise: `Forwarding`, `RelayForwards` |
| Receipts and transaction counts (`request_intercepts.go`) | nonce fix, pending maximum, sender and nonce of a hash | `check_post_getTransactionReceipt`, `intercept_mm_eth_getTransactionCount`, `intercept_signed_eth_getTransactionCount` | `NonceFix`, `Endpoint` |
| Whitehat bundles (`redisstate.go`, `server.go`) | a bounded list per bundle id | `AddTxToWhitehatBundle`, `HandleBundleRequest` | `WhitehatBundle` |
| Request handler, dispatch, response, record (`request_handler.go`, `request_processor.go`, `request_response.go`, `request_record.go`, `database/`) | stage of each request, its response, its rows | `process`, `ProcessRequest`, `proxyRequestRead`, `finishRequest`, `SaveRecord` | `RequestHandler` |
| Response cache (`application/rpc_cache.go`) | one entry and its age | `Get`, `Set` | `RpcCache` |
| Server life cycle (`server.go`, `cmd/server/main.go`) | listeners, health, drain calls, shutdown | `Start`, `handleDrain`, `handleHealthRequest`, `stopDrainServer`, `stopMainServer` | `Server` |
| URL parameters (`url_params.go`) | – | `normalizeQueryParams`, `ExtractParametersFromUrl` | `UrlParams` |
| Presets, customers, builder names, preferences (`configuration_watcher.go`, `request_handler.go`, `request_processor.go`, `application/builder_info.go`) | presets and their refund arrays; the builder list | `NewConfigurationWatcher`, `IsConfigurationUpdated`, `getEffectiveParameters`, `replaceZeroRefund`, `fetchBuilderInfo` | `Preferences` |

The parts meet in four places, and each has a model that holds both sides:
submissions and wallet calls share the Redis keys (`Endpoint`); requests share
the cache, the database and the life of the process (`Server`); requests share
the presets and the builder list (`Preferences`); wallets share a bundle
(`WhitehatBundle`).

Behaviours that are hard to test, all of them in the hazards of `PROJECT.json`:
two requests between the GET and the SET of one key; keys that belong together
and expire one by one; a mark that outlives the failure of the call it
announces, and the retry that trusts it; goroutines nobody waits for; errors
that are reported and then ignored; a node that lags; an answer that is lost
although the other side acted on it; a shutdown in the middle of a drain call;
a slice that two goroutines share without a lock.

## Modules

**RedisState** has one variable per key prefix and one operator per method
that issues a command. An entry carries the time it expires at; `Found` is what
GET sees. The operators say what happens to every key, so an action contains
exactly one command. `Faults` names the services that may fail: `redisGet` and
`redisSet`, `relay`, `node`, `status`, and `bundle` for the add to a bundle.

**TxRelay** is the life of requests from `handle_sendRawTransaction` to the
response. `pc[r]` is the next Redis command or outside call of request `r`, an
action performs it together with the local code up to the next one. `jsonRes`
and `entry` are the response and the flags of the database entry; `setMax` is
the program counter of the `SetSenderMaxNonce` goroutine. `initialTx`,
`timeSent` and `minNonce` are the locals that survive a call. A request is made
once; a retry is another request with the same transaction. What the external
services have accepted is in `mined`, `relayed`, `cancelled`, `mempooled` and
`bundled`. History variables (`markedUntil`, `passedBy`, `dup`,
`skippedRange`) record why a request got where it is; no guard reads them.

A transaction is a model value; `CancelTx`, `ZeroTipTx`, `OversizeTx`, `OFACTx`
and `BlockedTx` say what the predicates of the handlers answer for it. A
submission that the relay accepts with a lost answer, and one it refuses, both
end in an error. So does an add to a bundle that fails, whether or not the
transaction is in the list by then: `AddTxToWhitehatBundle` returns an error also
when a command after the push fails. A parameter that is no string panics, as the type assertion of
`request_sendrawtx.go:35` does. When the node cannot be asked for a nonce, the
range check is skipped, as the code does; when its answer is not a string, an
error response is written first and overwritten later.

**NonceFix** is `request_intercepts.go`. A client makes one call after another;
`call[w]` holds the next command of its call and the locals that survive it.
`AskReceipt` stands for a receipt the node answers with `null` and the status
API with FAILED, the only answers after which the handler does anything; which
transactions failed is left open. The signed and the MetaMask intercept of
`eth_getTransactionCount` follow each other as in `ProcessRequest`. `suggested`
and `wrongNonces` are histories of what was answered, `overlapped` of the
accounts whose fix two calls counted, or set up, at once. A read of Redis that
fails (`fixGet`), a write that fails (`fixSet`) and a node that cannot be asked
(`proxy`) are faults of their own, so that an instance can let the calls of
clients fail and the submissions not.

**Endpoint** puts both to work on the same keys: submissions raise the pending
maximum, clients read and delete it. `NodeCounts` is what the node may answer
for its pending count, independent of `mined`: it also counts transactions sent
elsewhere, and it may lag. A client judges the pending maximum with one command
and deletes it with another; `raced` is the history of the clients for whose
account a submission has stored a maximum in between.

**Forwarding** is what the endpoint promises about a private transaction,
without Redis, clocks or the order of calls: a request is claimed, admitted,
and then forwarded, cancelled, published, collected or answered on the strength
of another one's claim. **RelayForwards** maps the variables of `TxRelay` to it:
a request is claimed once it has written a mark and admitted once the nonce
check has let it through; its answer is its response at the moment it ends.
`Outcomes` is what follows from the promises alone: relay, cancellation, mempool
and bundle exclude each other, and success has a reason.

**WhitehatBundle** has one action per Redis command of `AddTxToWhitehatBundle`
for wallets that add one transaction after another to one list. Each command
may fail, and each may take effect and lose its reply, after which the add gives
up. The Redis client may also repeat the `LPUSH`; repeating `EXPIRE` or `LTRIM`
at once changes nothing. `DELETE /bundle` and expiry empty
the list between any two commands. `untrimmed`, `unexpiring`, `newest` and
`faults` are histories.

**RpcCache** is the cache with its one key; time is kept as ages. It is extended
by **RequestHandler**, the way of a request through `process` and
`ProcessRequest` (`stage[h]`) to its response and to the goroutine of
`finishRequest` (`saver[h]`). What a submission does is in `TxRelay`; here it
takes any time and leaves the flags of its entry. A call to the node takes at
most `ProxyTimeout`. A receipt that is `null` goes on to the status API, which
has no timeout (stage `receipt`); what follows on Redis is in `NonceFix`. An insert that fails may have taken effect.

**Server** adds the process: `Start` and its failures, the goroutines of the
three listeners, which may run late or fail to bind, health checks, drain calls,
the signal, and the two shutdowns one after the other. Timers count down;
`TimePasses` waits for a timer that has run out. `misled`, `sinceSignal` and
`caught`, the calls to the node that `stopMainServer` finds under way, are
histories.

**UrlParams** is the functions of `url_params.go`. A query maps keys, with their
spelling, to values; `normalizeQueryParams` is the *set* of results it can have,
because a key given in two spellings is decided by the order of a map iteration.
Presets and the URLs of customers are read once, at the start, each with one such
result; a customer's URL that is not accepted as it is read keeps the program
from starting. The builder list is refreshed only if a source is configured
(`fetcher`), also when the source first served an empty list.
**Preferences** takes a request from its URL to what the relay receives: the
builder names, preset or URL, the comparison with the customer's URLs, the
refunds. A `URLParameters` is copied from the presets but its refund slice is
not, so `refundOf` names the array a request points to and `arrays` holds the
contents. The builder list is a slice header of two words, stored one after the
other by the refresh and read without a lock; what a request reads between the
two is undefined, and the model lets it read the length of one list with the
array of the other, with anything past its end.

**MCTxRelay**, **MCEndpoint**, **MCWhitehatBundle**, **MCServer** and
**MCPreferences** give the instances. The proofs are in **TxRelayTypes** (with
the lemmas on what a command does to the keys), **TxRelayMarks**,
**TxRelayNonces**, **ForwardingProofs**, **EndpointProofs**,
**WhitehatBundleProofs**, **ServerProofs** and **PreferencesProofs**.

## Runs

| Run | Instance | Shows |
|---|---|---|
| `relay_race` | three requests, two accounts, a chain of two transactions, a cancellation and one transaction for each refusal; relay fails; no expiry | `TypeOK`, `NoNonceGap`, `SuccessIsBacked`, `CancelTargetsAdmitted`, `OnlyVettedRelayed` |
| `relay_time` | two requests, the clock runs through a whole life of every key, reads, writes and the status API fail | `NoNonceGap`, `ResendNeedsReason`, `SuccessIsBacked`, `CancelTargetsAdmitted`, `Forwards` |
| `relay_options` | two requests, bundle, mempool, block range, private transactions; node, relay and the add to the bundle fail; with fairness | `OnlyVettedRelayed`, `ExclusiveOutcomes`, `HangsOnlyOutside`, `RequestsAdvance`, `Forwards` |
| `endpoint` | two requests for transactions with nonces 0, 1 and 2 and two clients; Redis and the node fail the clients | `FixTypeOK`, `NoNonceGap`, `SuggestedLeavesNoGap`, `DeletesStaleMaximum`, `FixNeverRewinds`, `OverLimitNeedsOverlap` |
| `bundle` | three wallets, three transactions, a list of two, two faults, deletion and expiry | `BundleBounded`, `BundleExpires`, `NewestListed`, `CopiesBounded` |
| `service` | two requests, two drain calls, a process from start to exit; node, database, start-up and binding fail; with fairness | `CachedAnswerAge`, `RawTxsHaveRequest`, `NodeCallsAnswered`, `ServesWhileDraining`, `DrainSeen`, `ShutdownBounded`, `RecordNotDropped`, `SignalEndsProcess`, `RecordsSaved` |
| `params` | two submissions, one with any of fifteen URLs, the other of two, with or without the header of a preset; two lists of builders | `RefundsAsAsked`, `FastToFetchedBuilders`, `SameParametersInAnyCase`, `UnreportedIsKnown` |
| `resend_race` | two requests for one transaction | violates `SentOnceUnlessFailed` (comment `request_processor.go:204`) |
| `cancel_retry` | a transaction, its cancellation and a retry | violates `CancelReportedIsCancelled` (comment `request_sendrawtx.go:130`) |
| `fix_overcount` | one request, two clients that ask for a count at once | violates `AtMostFourWrongNonces` (comment `request_intercepts.go:143`, `docs/metamask.md:10`) |
| `reset_zero` | two requests, one client whose reads fail | violates `FailedLookupNeverMatches` (comment `request_intercepts.go:56`) |
| `bundle_limit` | one wallet that adds sixteen transactions, without a fault; `LTRIM 0 15` as in the code | violates `LimitedAsCommented` (comment `redisstate.go:244`) |

`RequestsAdvance` and `HangsOnlyOutside`, `ShutdownBounded` and `SignalEndsProcess`,
`RecordNotDropped` and `RecordsSaved` are pairs: the first is the safety half of
the second, which adds that the steps are taken. `OverLimitNeedsOverlap` says how
`fix_overcount` comes about: without an overlap of two calls for one account the
limit holds. `BundleBounded` is likewise the other side of `bundle_limit`: it
takes what `LTRIM 0 15` leaves, sixteen entries, as the limit and says by how
much races and failures exceed it.

`DeletesStaleMaximum` says that a receipt or a signed count deletes the pending
maximum it has judged, with two exceptions that the code has: a maximum that a
submission stores between the read and the deletion is deleted unread (the
clients in `raced`), and a look-up that fails reads 0 (`reset_zero`).
`NodeCallsAnswered` is about the order of two timeouts: the main server's own 30
seconds, which the drain server does not use up, outlast the client's 10.
`SameParametersInAnyCase` speaks of the parameters of `ExtractParametersFromUrl`.
The keys `bundle` and `url` are not among them: `request_handler.go:108` and `:116`
read them as they are spelt, and the comment on case (`url_params.go:44`) does not
speak of them.

The five violations are places where a comment or a doc says more than the code
does; the findings of `PROJECT.json` quote them. Three more have no run.
The comment at `url_params.go:120` says of a fast request "set all builders no
matter what's in the reqUrl", but presets are read with no builders
(`configuration_watcher.go:37`) and taken as they are: a fast preset names none.
The error at `url_params.go:31` says that refunds must add up
to less than 100% and exactly 100 is accepted. The comment at
`request_handler.go:76` says that a preset in the header is looked at first, but
the URL is parsed before, and one that is not valid is rejected whatever the
header says.

*Bounds.* Three requests are the least that show a transaction, its
cancellation and a retry or a competitor of one of them; every property
mentions at most three requests. `KeyTTL = 2`, `MaxNonceTTL = ResendAfter = 1`
and `MaxTime = 2` keep the order of the real times (280 s and 5 min against
10 min; the 20 s between the first two are below the resolution of this clock)
and let every key expire. `MaxMined = 1` lets the chain catch up with the first
transaction. The relay does not fail in `relay_time`: its answer ends the request
and no key depends on it, so the runs without a clock cover that.
Requests are symmetric: nothing orders them. The runs that use a
`VIEW` leave out the sender and the nonce of a hash, which these handlers only
write.

In `endpoint` the clock stands still: expiry is the subject of `relay_time`, and
the theorems cover it for both halves, a nonce fix that expires included. `FixLimit = 2` instead of 4 keeps it
small; two clients can still both read the last allowed count, and the number
occurs only as the limit of the comparison. `fix_overcount`, which is about the
4, uses 4. Nonce 0 is among the transactions because a look-up
that fails reads 0. `MaxPending = 4` is beyond the successor of every nonce, so
the node can be behind, level with and ahead of the cache. The chain does not
grow (`MaxMined = 0`); it does in the runs of `TxRelay`.

In `bundle` the list is trimmed to two entries (`TrimStop = 1` for the 15), so
three wallets overfill it and two faults leave it untrimmed and without expiry
at the same time; wallets and transactions are symmetric. In `service` two
requests are the fewest that race for the cache and that one can outlast the
other; `ProxyTimeout = 1`, `ShutdownTimeout = 2` and `DrainSeconds = 3` are in
the order of the 10, 30 and 60 seconds of the code. `params` has one
URL for each way a parameter is accepted or refused, at the limits of the shares
(99, 100, a sum of 100 and of 120), duplicate spellings in requests, in a preset and
in two URLs of the customer, and presets with and without refunds. One refresh is enough for two lists to meet in a read.

*Deadlock* is checked but in `service`, where the process ends, and in `params`,
where without a source of builders everything ends with the
requests.

*Fairness.* `HangsOnlyOutside` assumes weak fairness of a request's next step
where that is local code, a Redis command or a call through the proxy client, and
of the goroutine of `SetSenderMaxNonce`: Go schedules runnable goroutines, and
these two clients have timeouts. Nothing is assumed of the calls in `Untimed`, to the status
API, the relay and the node over `ethclient`, which are made without a timeout and may never
return; the property is that a request that does not end is in one of them for
ever, and that none keeps another from ending. No fairness is assumed for
arrivals, for the clock or for the chain.

`SignalEndsProcess` and `RecordsSaved` assume as little of the others. Weak fairness
holds for what the runtime and its timers see to: start-up, a spawned goroutine,
the passing of time, a shutdown whose condition holds, the end of a drain call's
sleep, the timeout of a call to the node, and the inserts, which have a limit of
10 seconds each (`postgres_store.go`). Nothing is assumed of clients, of the
signal or of the relay: a submission or the check after a receipt may hang for ever, and the process must
end all the same. `SignalEndsProcess` counts a crash as an end.

## Proofs

TLAPS checks, for any number of requests, accounts and transactions, any times
to live and any set of faults (assumptions `RedisAssumption` and
`RelayAssumption`: constants have their types, times to live are positive, the
subsets of transactions are subsets; for the endpoint also `FixAssumption` and
`PendingAssumption`: two limits are natural numbers; the assumptions of the
other components are named with them):

- `TypeCorrect`: `Spec => []TypeOK`.
- `ResendTheorem` and `SuccessTheorem` rest on `MarksInvariant`. `MarkInv` ties
  the mark in Redis to the requests that made one: a mark in Redis was made by
  some request, and the mark a request made is no longer lived than the entry.
  `PassInv` then says what a request learnt from the mark. Without it nothing
  connects the reason for which a request passed `blockResendingTxToRelay` with
  the marks that were live when it looked.
- `NonceGapTheorem`: the pending maximum in Redis, whoever wrote it last, is
  the nonce of an admitted request (`NonceInv`). That is why races and expiry,
  which can lower or lose the maximum, never open a gap: a
  smaller maximum only makes the check stricter.
- `CancelTheorem`: what is stored under a sender and nonce is an admitted hash
  of that sender and nonce (`HashInv`), and what a cancellation has read stays
  so until it reaches the relay (`CancelInv`).

- `EndpointInvariant`: `EndpointInv` joins the invariants of submissions
  (`TypeOK`, `NonceInv`), which client steps keep because they only ever delete
  the maximum, with four of its own. `LookupInv`: the sender and nonce stored for
  a hash are the transaction's. `CachedInv`: the maximum a call has read was
  admitted, whatever has become of the key since. `JudgedInv`: from the read of the
  maximum on, what a call has concluded of it is true of the key's present value,
  unless the key is gone or the call is in `raced`; `DeletesStaleMaximum` speaks of
  the last step only and is not inductive.
- `OverlapInv` is the fourth. `OverLimitNeedsOverlap` alone is not inductive: the
  number of wrong nonces must not exceed the count in Redis, nor reach the count
  that a call has read and is about to write back, and only one call may be
  writing, except for the accounts in `overlapped`; and this must hold for a fix
  that expires before the write, too. Hence `OverLimitTheorem`.
- From `EndpointInv`, `EndpointNonceGap` (receipts and counts that delete the maximum open
  no gap), `SuggestedTheorem` (nor does a nonce answered from the cache),
  `StaleMaximumTheorem` (`DeletesStaleMaximum`, from `JudgedInv`) and `RewindTheorem` (racing
  counts never fall below everything stored or about to be stored).
- `EndpointRelayInvariant`: the other invariants of submissions (`MarkInv`,
  `PassInv`, `CancelInv`, `VetInv`) hold of the whole endpoint as well, because a
  client touches the nonce fix and the maximum only. So `EndpointGuarantees`,
  `EndpointForwards` and `EndpointOutcomes` say of the endpoint with its clients
  what the theorems about `TxRelay` say of submissions on their own.

- `VettedTheorem` and `ForwardTheorem` rest on `VetInv`, which says for every
  step of the handlers which checks a request has behind it, and on what the
  other invariants say of cancellations and marks. `ForwardTheorem` is the
  refinement: initial states map to initial states of `Forwarding`, and every
  action of `TxRelay` to one of its steps or to a stutter.
- `OutcomesTheorem` is about `Forwarding` alone, with `Settled` (who was relayed,
  cancelled or collected has ended) as the strengthening; `ExclusiveTheorem`
  follows from it and the refinement.
- `AdvanceTheorem`: every step of a request or of its goroutine increases its
  rank (`CallRank`, `GoRank`). It needs `VetInv`, without which a second admission
  could start the goroutine again.

The proofs about `TxRelay` have one step per action: the effect of a request's step on
its own state (`…Own`), on the state of the others (`…Others`, through
`OneRequestAtATime`), and on the shared key (`…Frame`).

- `BundleInvariant` (any finite number of wallets, any limit and time to live:
  `BundleAssumption`). `BundleBounded` is inductive only together with the
  types; each push adds one entry and one add that will trim, and an add that
  fails moves from one count to the other. `NewestListed` needs in addition
  that no more pushes are remembered than a trim keeps, which is why a late
  trim cannot drop one of them.
  `CopiesStayBounded` has an invariant of its own, `CopiesInv`: the copies of a
  transaction together with the adds that have searched for it and will push it.
  A search that finds it adds nothing; one that does not find it starts from no
  copy, so that there are at most as many as wallets; a push turns an add into a
  copy. The lemmas count the positions of a transaction in a list before and
  after a push and a trim.
  From `BundleInvariant` `BundleStaysBounded`, `BundleAlwaysExpires`, `NewestAlwaysListed`.
- `ServerInvariant` (any number of requests and drain calls, any times:
  `CacheAssumption`, `HandlerAssumption`, `ServerAssumption`). `CacheInv`: the
  answer in the cache is at most one timeout older than its stamp. `RecordInv`:
  a saver that has come to the transactions has its request in the database.
  `DrainInv`: a sleeping drain call keeps the server unhealthy, and since the
  signal it has slept as long as the shutdown has waited. `ShutdownInv`: the time
  since the signal and what is left of the current timeout add up to one timeout
  for the drain server, and to at most two for the main server. `CaughtInv`: what
  `stopMainServer` has waited, a caught call has run. From it
  `CachedAnswers`, `Rows`, `NodeCallsTheorem`, `Draining`, `DrainTheorem`, `Shutdown`,
  `Records`.
- `PreferencesInvariant` (any URLs, presets, customers and lists, any number of
  requests: `UrlAssumption`, `PreferencesAssumption`). `ConfigInv` and
  `ParamsInv`: parameters in effect are those of an accepted reading of the
  URL, or of the preset. `RefundInv`: the array of a preset keeps what was
  parsed, and a request writes to its own array only. `BuilderInv`: outside a
  store the list is the last one fetched. From it `RefundTheorem`,
  `BuildersTheorem`, `SpellingTheorem`, `KnownTheorem`.

Only model-checked: `HangsOnlyOutside`, `SignalEndsProcess` and `RecordsSaved`
(liveness under fairness is out of the prover's reach; their safety halves are
proved) and the five violations. Every other property of the runs is a theorem.

## Not modelled

- Decoding of transactions, recovery of their senders, request signatures, and
  the fingerprint of a client: cryptography and hashes whose verdict a model
  takes as a choice or as a set of transactions.
- The tables of `ofacblacklist.go` and `whitelist.go`, `middleware.go`, metrics
  and logging: constants, and output that no decision depends on.
- A `SET` or `DEL` whose reply is lost and which the Redis client repeats: the
  write that failed and the one that succeeded are there, a second one that
  comes late is not.
- HTTP headers, the wording of errors, and the texts of the answers given
  locally (`net_version`, a balance while a bundle is collected, an `eth_call`
  to the FlashRPC contract): `AnswerLocally` keeps that they are given.
  `WhitehatBalanceCheckerRewrite` changes only the address a forwarded
  `eth_call` is sent to.
- The YAML file of the customers and the flags of `main`: read once at start.
- `txdecoder` and `mockbackend`: tools that take no part in serving.
- Memory of the process is lost at a restart and Redis is not: a process that
  dies leaves requests that take no further step, which every safety property
  of `TxRelay`, `NonceFix` and `WhitehatBundle` covers, since no action is
  forced to happen.
