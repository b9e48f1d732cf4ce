----------------------------- MODULE Preferences -----------------------------
(***************************************************************************)
(* From the URL of a submission to the preferences the relay receives with *)
(* it: the list of block builders and its refresh in the background        *)
(* (application/builder_info.go), the customers' file with the presets     *)
(* (server/configuration_watcher.go), the choice between preset and URL    *)
(* (server/request_handler.go) and the refunds as they are sent            *)
(* (server/request_processor.go).                                          *)
(*                                                                         *)
(* The HTTP requests run in goroutines of their own.  A URLParameters is   *)
(* copied from the presets into a request, but its refund slice is a       *)
(* pointer, so the request and the preset share one array: refundOf names  *)
(* the owner of the array a request points to, and arrays holds the        *)
(* contents of each.  The list of builders is a slice header of two words  *)
(* that the refresh stores, and a request reads, without a lock.           *)
(***************************************************************************)
EXTENDS UrlParams

CONSTANTS
    Caller,         \* HTTP requests with an eth_sendRawTransaction
    Sender,         \* Sender[p]: the sender of the transaction of p
    CallerUrls,     \* CallerUrls[p]: the URLs p may have
    Headers,        \* values of X-Flashbots-Origin, "" for none
    PresetUrls,     \* sets of possible preset URLs, by origin
    CustomerUrls,   \* the URLs the customers are known to use, by origin
    BuilderLists,   \* lists of builders the source may serve
    MaxRefreshes,   \* bound: the lists fetched after the first
    Lower,          \* Lower[n]: the builder's name n in lower case
    Sourced         \* whether a source of builders is configured: a BOOLEAN set

ASSUME PreferencesAssumption ==
    /\ Sender \in [Caller -> Address]
    /\ MaxRefreshes \in Nat
    /\ BuilderLists \subseteq Seq(DOMAIN Lower)
    /\ \A u \in PresetUrls : DOMAIN u \cap Caller = {}
    /\ \A u \in PresetUrls : \A o \in DOMAIN u : UrlOK(u[o])
    /\ \A p \in Caller : \A u \in CallerUrls[p] : UrlOK(u)

VARIABLES
    presets,        \* ParsedPresets, and
    customers,      \* ParsedCustomersConfig, as loaded at the start
    fetcher,        \* whether there is one
    builderInfos,   \* the slice header: its array and its length
    storing,        \* the list whose header is half stored, at most one
    fetched,        \* history: the lists fetched so far, in order
    url, header,    \* of each request
    step,           \* how far the request has come
    names,          \* builderNames, read when the request came in
    newest,         \* history: the number of the newest list then, 0 if the
                    \* names were read during a store
    params,         \* urlParams
    refundOf,       \* the owner of the array of urlParams' refunds
    arrays,         \* the contents of the refund arrays
    updated,        \* the configuration was reported as changed
    sent            \* the refunds the relay received

config == <<presets, customers, fetcher>>
builders == <<builderInfos, storing, fetched>>
request == <<url, header, step, names, newest, params, refundOf, arrays,
             updated, sent>>

\* A request that has no parameters yet.
NoParams == URLParameters(FALSE, <<>>, <<>>)

\* parseURLToParameters: no builders are known when the file is read.
parseURLToParameters(u, q) == URLParameters(u.fast, q, <<>>)

\* What may be loaded for a customer with these URLs: each is read once, and one
\* that is not accepted as it is read stops the program before it serves anything.
Loaded(urls) ==
    {{parseURLToParameters(u, read[u]) : u \in urls} :
        read \in Selections(urls, LAMBDA u : {q \in normalizeQueryParams(u.query) : Accepted(q)})}

\* A preset that is not accepted is left out.
NewConfigurationWatcher ==
    /\ \E u \in PresetUrls :
           \E read \in Selections(DOMAIN u, LAMBDA o : normalizeQueryParams(u[o].query)) :
               presets = [o \in {p \in DOMAIN u : Accepted(read[p])} |->
                             parseURLToParameters(u[o], read[o])]
    /\ customers \in Selections(DOMAIN CustomerUrls, LAMBDA o : Loaded(CustomerUrls[o]))

\* The first fetch must succeed; without a source the list stays empty.
StartBuilderInfoService ==
    /\ fetcher \in Sourced
    /\ \E list \in BuilderLists :
           LET first == IF fetcher THEN list ELSE <<>>
           IN  /\ builderInfos = [array |-> first, len |-> Len(first)]
               /\ storing = {}
               /\ fetched = <<first>>

PreferencesInit ==
    /\ NewConfigurationWatcher
    /\ StartBuilderInfoService
    /\ url \in Selections(Caller, LAMBDA p : CallerUrls[p])
    /\ header \in [Caller -> Headers]
    /\ step = [p \in Caller |-> "new"]
    /\ names = [p \in Caller |-> <<>>]
    /\ newest = [p \in Caller |-> 0]
    /\ params = [p \in Caller |-> NoParams]
    /\ refundOf = [p \in Caller |-> p]
    /\ arrays = [o \in Caller \cup DOMAIN presets |->
                    IF o \in DOMAIN presets THEN presets[o].refund ELSE <<>>]
    /\ updated = [p \in Caller |-> FALSE]
    /\ sent = [p \in Caller |-> <<>>]

-----------------------------------------------------------------------------
\* The refresh of the builders.

\* The list has been fetched and decoded; one word of the header is stored.
StoreFirstWord(list) ==
    /\ storing = {}
    /\ Len(fetched) <= MaxRefreshes
    /\ storing' = {list}
    /\ \/ builderInfos' = [builderInfos EXCEPT !.array = list]
       \/ builderInfos' = [builderInfos EXCEPT !.len = Len(list)]
    /\ UNCHANGED <<fetched, config, request>>

StoreSecondWord(list) ==
    /\ list \in storing
    /\ storing' = {}
    /\ builderInfos' = [array |-> list, len |-> Len(list)]
    /\ fetched' = Append(fetched, list)
    /\ UNCHANGED <<config, request>>

\* Mutant: the answer is decoded into the field itself.
FetchFailsInPlace ==
    /\ storing = {}
    /\ builderInfos' = [array |-> <<>>, len |-> 0]
    /\ UNCHANGED <<storing, fetched, config, request>>

\* The source does not answer, or not with a list: the old list stays.
FetchFails ==
    /\ storing = {}
    /\ UNCHANGED <<builders, config, request>>

\* The loop runs only if a source is configured.
fetchBuilderInfo ==
    /\ fetcher
    /\ \/ \E list \in BuilderLists : StoreFirstWord(list)
       \/ \E list \in storing : StoreSecondWord(list)
       \/ FetchFails

-----------------------------------------------------------------------------
\* A request.

\* What the array holds past its end is whatever lies in memory there.
BuilderNames(p) ==
    /\ step[p] = "new"
    /\ step' = [step EXCEPT ![p] = "named"]
    /\ names' = [names EXCEPT ![p] = [i \in 1..builderInfos.len |->
           IF i <= Len(builderInfos.array) THEN Lower[builderInfos.array[i]]
           ELSE "garbage"]]
    /\ newest' = [newest EXCEPT ![p] = IF storing = {} THEN Len(fetched) ELSE 0]
    /\ UNCHANGED <<config, builders, url, header, params, refundOf, arrays,
                   updated, sent>>

IsConfigurationUpdated(customer, p) ==
    /\ customer \in DOMAIN customers
    /\ ~ \E allowed \in customers[customer] : EquivalentURLParams(allowed, p)

\* The parameters p takes effect with, and the owner of their refunds.
Effective(p, new, owner) ==
    /\ step' = [step EXCEPT ![p] = "parsed"]
    /\ params' = [params EXCEPT ![p] = new]
    /\ refundOf' = [refundOf EXCEPT ![p] = owner]
    /\ arrays' = IF owner = p THEN [arrays EXCEPT ![p] = new.refund] ELSE arrays
    /\ updated' = [updated EXCEPT ![p] = IsConfigurationUpdated(new.originId, new)]
    /\ UNCHANGED <<config, builders, url, header, names, newest, sent>>

OriginOf(p, extracted) ==
    IF header[p] # "" THEN header[p] ELSE extracted.originId

getEffectiveParameters(p, q) ==
    LET extracted == URLParameters(url[p].fast, q, names[p])
        origin == OriginOf(p, extracted)
    IN  /\ Accepted(q)
        /\ IF origin \in DOMAIN presets
           THEN Effective(p, presets[origin], origin)
           ELSE Effective(p, extracted, p)

Reject(p) ==
    /\ step' = [step EXCEPT ![p] = "rejected"]
    /\ UNCHANGED <<config, builders, url, header, names, newest, params, refundOf,
                   arrays, updated, sent>>

Parse(p) ==
    /\ step[p] = "named"
    /\ \E q \in normalizeQueryParams(url[p].query) :
           \/ getEffectiveParameters(p, q)
           \/ ~Accepted(q) /\ Reject(p)

\* The refunds with the sender in the place of the null address.
WithSender(refunds, sender) ==
    [i \in DOMAIN refunds |->
        IF refunds[i].who = Zero THEN [refunds[i] EXCEPT !.who = sender]
        ELSE refunds[i]]

\* Mutant: the elements are replaced in the array the preset shares.
replaceZeroRefundInPlace(p) ==
    /\ arrays' = [arrays EXCEPT ![refundOf[p]] = WithSender(@, Sender[p])]
    /\ UNCHANGED refundOf

\* A new array, which the request points to from now on.
replaceZeroRefund(p) ==
    /\ arrays' = [arrays EXCEPT ![p] = WithSender(arrays[refundOf[p]], Sender[p])]
    /\ refundOf' = [refundOf EXCEPT ![p] = p]

\* No refund is asked for: a fast transaction gets half of the profit back.
DefaultRefund(p) ==
    /\ arrays' = [arrays EXCEPT ![p] =
           IF params[p].fast THEN <<[who |-> Sender[p], percent |-> 50]>> ELSE <<>>]
    /\ refundOf' = [refundOf EXCEPT ![p] = p]

\* The preferences of the relay's request, after all other checks have passed.
Complete(p) ==
    /\ step[p] = "parsed"
    /\ step' = [step EXCEPT ![p] = "complete"]
    /\ IF arrays[refundOf[p]] # <<>> THEN replaceZeroRefund(p)
       ELSE DefaultRefund(p)
    /\ UNCHANGED <<config, builders, url, header, names, newest, params, updated,
                   sent>>

\* The request to the relay is encoded, which reads the array.
Send(p) ==
    /\ step[p] = "complete"
    /\ step' = [step EXCEPT ![p] = "sent"]
    /\ sent' = [sent EXCEPT ![p] = arrays[refundOf[p]]]
    /\ UNCHANGED <<config, builders, url, header, names, newest, params, refundOf,
                   arrays, updated>>

\* The block number that a block range needs cannot be read.
BlockNumberFails(p) ==
    /\ step[p] = "complete"
    /\ params[p].blockRange > 0
    /\ Reject(p)

Request(p) ==
    \/ BuilderNames(p) \/ Parse(p) \/ Complete(p) \/ Send(p) \/ BlockNumberFails(p)

PreferencesNext == fetchBuilderInfo \/ \E p \in Caller : Request(p)

preferencesVars == <<config, builders, request>>

PreferencesSpec == PreferencesInit /\ [][PreferencesNext]_preferencesVars
-----------------------------------------------------------------------------
\* Properties.

\* The relay receives the refunds that were asked for, whoever else uses the
\* same preset at the same time: the same shares in the same order, each to the
\* address given for it, or to the transaction's own sender where the URL says
\* "origin" (replaceZeroRefund, request_processor.go:236); a fast transaction
\* that asks for none gets 50% for its sender.  The shares never exceed the
\* profit.
RefundsAsAsked ==
    \A p \in Caller : step[p] = "sent" =>
        LET asked == params[p].refund
        IN  IF asked = <<>>
            THEN sent[p] = IF params[p].fast THEN <<[who |-> Sender[p], percent |-> 50]>>
                                             ELSE <<>>
            ELSE /\ Len(sent[p]) = Len(asked)
                 /\ \A i \in DOMAIN asked :
                        /\ sent[p][i].percent = asked[i].percent
                        /\ sent[p][i].who = IF asked[i].who = Zero THEN Sender[p]
                                                                 ELSE asked[i].who
                 /\ Total(sent[p]) <= MaxPercent

\* The parameters of p come from its own URL.
FromUrl(p) ==
    \A q \in normalizeQueryParams(url[p].query) :
        OriginOf(p, URLParameters(url[p].fast, q, <<>>)) \notin DOMAIN presets
Parsed(p) == step[p] \in {"parsed", "complete", "sent"}
LowerAll(list) == [i \in DOMAIN list |-> Lower[list[i]]]

\* A fast request is for all the builders of the newest list the source had
\* served when it came in, however many refreshes failed since
\* (fetchBuilderInfo returns before it assigns, builder_info.go:64-76), unless
\* it came in while a refresh was storing the list, which no lock prevents.
FastToFetchedBuilders ==
    \A p \in Caller : Parsed(p) /\ FromUrl(p) /\ params[p].fast =>
        newest[p] = 0 \/ params[p].builders = LowerAll(fetched[newest[p]])

\* No key of the query is given in two spellings.
SpeltOnce(u) ==
    \A n \in NamesOf(u.query) : \A s, t \in SpellingsOf(u.query, n) : s = t
ValueOf(u, n) == u.query[<<n, CHOOSE s \in SpellingsOf(u.query, n) : TRUE>>]

SameButSpelling(u, v) ==
    /\ u.fast = v.fast
    /\ NamesOf(u.query) = NamesOf(v.query)
    /\ \A n \in NamesOf(u.query) : ValueOf(u, n) = ValueOf(v, n)

\* Two requests whose URLs differ only in the case of their keys get the same
\* URLParameters, with or without a preset, and are reported alike: "making the
\* parameter extraction case-insensitive" (url_params.go:44-45).  A key given in two
\* spellings is excepted: there the order of a map iteration decides.  It says
\* nothing of the keys bundle and url, which are not among these parameters:
\* request_handler.go:108,116 reads them from the query as they are spelt.
SameParametersInAnyCase ==
    \A p, r \in Caller :
        /\ SpeltOnce(url[p]) /\ SpeltOnce(url[r])
        /\ SameButSpelling(url[p], url[r])
        /\ header[p] = header[r] /\ names[p] = names[r]
        /\ Parsed(p)
        => /\ Parsed(r) => params[p] = params[r] /\ updated[p] = updated[r]
           /\ step[r] = "rejected" => params[r].blockRange > 0

\* The fields of two parameters that reach the relay, but for the refunds and
\* the builders of a fast request.
SamePreferences(left, right) ==
    \A field \in DOMAIN left \ {"refund", "builders", "rawNormalizedQueryParams"} :
        left[field] = right[field]

\* A request of a known customer that is not reported as a configuration
\* change has the preferences of one of the URLs the customer is known for
\* (IsConfigurationUpdated, configuration_watcher.go:98), whatever the order in
\* which duplicate spellings were read when the file was loaded and now.
UnreportedIsKnown ==
    \A p \in Caller :
        Parsed(p) /\ ~updated[p] /\ params[p].originId \in DOMAIN customers =>
            \E known \in customers[params[p].originId] :
                /\ SamePreferences(known, params[p])
                /\ params[p].fast \/ known.builders = params[p].builders
=============================================================================
