------------------------------ MODULE UrlParams ------------------------------
(***************************************************************************)
(* The preferences a wallet puts into the URL of the endpoint              *)
(* (server/url_params.go): how the query is normalised, when it is         *)
(* accepted, and the parameters it stands for.                             *)
(*                                                                         *)
(* A URL is a record: fast says whether its path starts with /fast, query  *)
(* maps a key, a pair of its lower-case name and its spelling, to the      *)
(* values given for it, which are never none.  The errors differ only in   *)
(* their wording, so a query is accepted or it is not.  A percentage that  *)
(* is not a number is 0, any other number that cannot be parsed is -1, and *)
(* both are rejected for being out of range, as the code rejects them.     *)
(***************************************************************************)
EXTENDS Integers, Sequences, SequencesExt

CONSTANTS
    Address,        \* well-formed addresses
    Zero,           \* the null address, the placeholder for the sender
    Who             \* what a URL may name as the receiver of a refund

ASSUME UrlAssumption == Zero \notin Address

\* The largest value is 100, the bound of one share is 99.
MaxPercent == 100

allowedHints == {"hash", "contract_address", "function_selector", "logs",
                 "calldata", "default_logs", "tx_hash", "full"}

DefaultAuctionHint == <<"hash", "special_logs">>

\* The functions that choose an element of Of(x) for every x in S.
Selections(S, Of(_)) ==
    {f \in [S -> UNION {Of(x) : x \in S}] : \A x \in S : f[x] \in Of(x)}

NamesOf(query) == {k[1] : k \in DOMAIN query}
SpellingsOf(query, n) == {k[2] : k \in {key \in DOMAIN query : key[1] = n}}

\* Mutant: the keys are looked up as they are written.
normalizeExact(query) ==
    LET names == {n \in NamesOf(query) : <<n, "lower">> \in DOMAIN query}
    IN  {[n \in names |-> query[<<n, "lower">>]]}

\* The keys in lower case.  When a key is given in two spellings, the one that
\* the iteration over the map visits last decides, which may be either.
normalizeQueryParams(query) ==
    {[n \in NamesOf(query) |-> query[<<n, last[n]>>]] :
        last \in Selections(NamesOf(query), LAMBDA n : SpellingsOf(query, n))}

\* The first value given for key n, or the zero value of its field.
FirstValue(q, n, zero) == IF n \in DOMAIN q THEN q[n][1] ELSE zero
IsTrue(q, n) == FirstValue(q, n, "") = "true"

\* What strconv.ParseBool takes for true and for false.
TrueWords == {"1", "t", "T", "true", "TRUE", "True"}
FalseWords == {"0", "f", "F", "false", "FALSE", "False"}

RefundAddress(who) == IF who = "origin" THEN Zero ELSE who
Sum(percents) == FoldLeft(LAMBDA sum, p : sum + p, 0, percents)
Total(refunds) == Sum([i \in DOMAIN refunds |-> refunds[i].percent])

AcceptedRefunds(refunds) ==
    /\ \A i \in DOMAIN refunds :
           /\ RefundAddress(refunds[i].who) \in Address \cup {Zero}
           /\ refunds[i].percent \in 1..(MaxPercent - 1)
    /\ Total(refunds) <= MaxPercent

Accepted(q) ==
    /\ "hint" \in DOMAIN q => ToSet(q["hint"]) \subseteq allowedHints
    /\ "refund" \in DOMAIN q => AcceptedRefunds(q["refund"])
    /\ FirstValue(q, "mempoolrpc", <<"", "">>)[2] # "unparsable"
    /\ FirstValue(q, "blockrange", 0) >= 0
    /\ FirstValue(q, "auctiontimeout", 0) >= 0
    /\ FirstValue(q, "allowtee", "false") \in TrueWords \cup FalseWords

\* What a URL is: keys as above, and refunds of a receiver and a percentage.
\* What other keys hold does not matter here.
UrlOK(u) ==
    /\ DOMAIN u.query \subseteq STRING \X STRING
    /\ \A k \in DOMAIN u.query : k[1] = "refund" =>
           u.query[k] \in Seq([who : Who, percent : Int])

\* The parameters of an accepted query q.
URLParameters(fast, q, allBuilders) ==
    [fast           |-> fast,
     hints          |-> IF "hint" \in DOMAIN q THEN q["hint"]
                        ELSE DefaultAuctionHint,
     prefWasSet     |-> "hint" \in DOMAIN q,
     originId       |-> FirstValue(q, "originid", ""),
     builders       |-> IF fast THEN allBuilders
                        ELSE IF "builder" \in DOMAIN q THEN q["builder"]
                        ELSE <<>>,
     refund         |-> IF "refund" \notin DOMAIN q THEN <<>>
                        ELSE [i \in DOMAIN q["refund"] |->
                                 [q["refund"][i] EXCEPT !.who = RefundAddress(@)]],
     useMempool     |-> IsTrue(q, "usemempool"),
     protectRefund  |-> IsTrue(q, "protectrefund"),
     canRevert      |-> IsTrue(q, "canrevert"),
     mempoolRPC     |-> IF "mempoolrpc" \in DOMAIN q
                        THEN <<"https", q["mempoolrpc"][1][2]>> ELSE <<"", "">>,
     blockRange     |-> FirstValue(q, "blockrange", 0),
     auctionTimeout |-> FirstValue(q, "auctiontimeout", 0),
     allowTEE       |-> IF "allowtee" \in DOMAIN q
                        THEN FirstValue(q, "allowtee", "") \in TrueWords ELSE fast,
     rawNormalizedQueryParams |-> q]

WithoutRefund(params) ==
    LET q == params.rawNormalizedQueryParams
    IN  [n \in DOMAIN q \ {"refund"} |-> q[n]]

\* Mutant: the numbers of parameters are not compared.
EquivalentPrefix(left, right) ==
    LET l == WithoutRefund(left)
        r == WithoutRefund(right)
    IN  /\ left.fast = right.fast
        /\ \A n \in DOMAIN l : n \in DOMAIN r /\ l[n] = r[n]

EquivalentURLParams(left, right) ==
    /\ left.fast = right.fast
    /\ WithoutRefund(left) = WithoutRefund(right)
=============================================================================
