-------------------------- MODULE PreferencesProofs --------------------------
(***************************************************************************)
(* Proofs about Preferences, for any URLs, presets, customers, lists of    *)
(* builders and number of concurrent requests.                             *)
(***************************************************************************)
EXTENDS Preferences, TLAPS

\* The parameters in effect for request p if its query is read as q.
Chosen(p, q) ==
    LET extracted == URLParameters(url[p].fast, q, names[p])
        origin == OriginOf(p, extracted)
    IN  IF origin \in DOMAIN presets THEN presets[origin] ELSE extracted

\* Refunds that were accepted.
Refunds == Seq([who : Who \cup {Zero}, percent : Int])
RefundOK(refunds) ==
    refunds \in Refunds /\ (refunds # <<>> => Total(refunds) <= MaxPercent)

\* The domains of the functions.
DomainInv ==
    /\ DOMAIN url = Caller /\ DOMAIN step = Caller /\ DOMAIN names = Caller
    /\ DOMAIN newest = Caller /\ DOMAIN params = Caller /\ DOMAIN refundOf = Caller
    /\ DOMAIN updated = Caller /\ DOMAIN sent = Caller
    /\ DOMAIN arrays = Caller \cup DOMAIN presets
    /\ DOMAIN presets \cap Caller = {}
    /\ \A p \in Caller : url[p] \in CallerUrls[p]
    /\ \A p \in Caller : refundOf[p] \in {p} \cup DOMAIN presets

\* The presets and the customers' URLs were parsed without builders.
ConfigInv ==
    /\ \A o \in DOMAIN presets : \E u \in PresetUrls :
           /\ o \in DOMAIN u
           /\ \E q \in normalizeQueryParams(u[o].query) :
                  Accepted(q) /\ presets[o] = URLParameters(u[o].fast, q, <<>>)
    /\ \A o \in DOMAIN customers : \A known \in customers[o] :
           \E u \in CustomerUrls[o] : \E q \in normalizeQueryParams(u.query) :
               Accepted(q) /\ known = URLParameters(u.fast, q, <<>>)

\* The parameters of a request are those of its preset or of its URL, and it is
\* rejected for its URL or for its block range.
ParamsInvOf(p) ==
    /\ Parsed(p) =>
          /\ \E q \in normalizeQueryParams(url[p].query) :
                 Accepted(q) /\ params[p] = Chosen(p, q)
          /\ updated[p] = IsConfigurationUpdated(params[p].originId, params[p])
    /\ step[p] = "rejected" =>
          \/ \E q \in normalizeQueryParams(url[p].query) : ~Accepted(q)
          \/ params[p].blockRange > 0

ParamsInv == \A p \in Caller : ParamsInvOf(p)

\* What a request sends once its preferences are complete.
ToSend(p) ==
    IF params[p].refund # <<>> THEN WithSender(params[p].refund, Sender[p])
    ELSE IF params[p].fast THEN <<[who |-> Sender[p], percent |-> 50]>> ELSE <<>>

\* Nobody writes to the array of a preset, or to that of another request.
RefundInvOf(p) ==
    /\ Parsed(p) => RefundOK(params[p].refund)
    /\ step[p] = "parsed" => arrays[refundOf[p]] = params[p].refund
    /\ step[p] \in {"complete", "sent"} => refundOf[p] = p /\ arrays[p] = ToSend(p)
    /\ step[p] = "sent" => sent[p] = ToSend(p)

RefundInv ==
    /\ \A o \in DOMAIN presets : arrays[o] = presets[o].refund
    /\ \A p \in Caller : RefundInvOf(p)

\* Outside a store the list is the last one fetched, and a request that read it
\* then keeps its names.
BuilderInv ==
    /\ fetched \in Seq(Seq(DOMAIN Lower)) /\ fetched # <<>>
    /\ storing \subseteq BuilderLists
    /\ storing = {} => builderInfos = [array |-> fetched[Len(fetched)],
                                       len |-> Len(fetched[Len(fetched)])]
    /\ \A p \in Caller : newest[p] \in 0..Len(fetched)
    /\ \A p \in Caller : newest[p] # 0 => names[p] = LowerAll(fetched[newest[p]])

PreferencesInv == DomainInv /\ ConfigInv /\ ParamsInv /\ RefundInv /\ BuilderInv

-----------------------------------------------------------------------------
\* Operators of UrlParams.

\* The elements of a sequence.
LEMMA Elements ==
  ASSUME NEW S, NEW s \in Seq(S)
  PROVE  DOMAIN s = 1..Len(s) /\ Len(s) \in Nat /\ \A i \in DOMAIN s : s[i] \in S
OBVIOUS

\* A function on an initial interval is a sequence.
LEMMA IsSequence ==
  ASSUME NEW S, NEW n \in Nat, NEW f \in [1..n -> S]
  PROVE  f \in Seq(S) /\ Len(f) = n
OBVIOUS

\* What Append changes and what it leaves.
LEMMA Appended ==
  ASSUME NEW S, NEW s \in Seq(S), NEW e \in S
  PROVE  /\ Append(s, e) \in Seq(S) /\ Append(s, e) # <<>>
         /\ Len(Append(s, e)) = Len(s) + 1 /\ Append(s, e)[Len(s) + 1] = e
         /\ \A i \in 1..Len(s) : Append(s, e)[i] = s[i]
OBVIOUS

\* A normalised query has the names of the query, and for each of them a value
\* given in one of its spellings.
LEMMA Normalised ==
  ASSUME NEW query, NEW q \in normalizeQueryParams(query)
  PROVE  /\ DOMAIN q = NamesOf(query)
         /\ q = [n \in DOMAIN q |-> q[n]]
         /\ \A n \in DOMAIN q : \E s \in SpellingsOf(query, n) : q[n] = query[<<n, s>>]
<1> DEFINE names0 == NamesOf(query)
<1>1. PICK s \in [names0 -> UNION {SpellingsOf(query, n) : n \in names0}] :
         /\ \A n \in names0 : s[n] \in SpellingsOf(query, n)
         /\ q = [n \in names0 |-> query[<<n, s[n]>>]]
  BY Zenon DEF normalizeQueryParams, Selections
<1> QED
  BY <1>1

\* Its refunds are receivers and percentages.
LEMMA NormalisedRefunds ==
  ASSUME NEW u, UrlOK(u), NEW q \in normalizeQueryParams(u.query), "refund" \in DOMAIN q
  PROVE  q["refund"] \in Seq([who : Who, percent : Int])
<1>1. PICK s \in SpellingsOf(u.query, "refund") : q["refund"] = u.query[<<"refund", s>>]
  BY Normalised
<1>2. PICK k \in DOMAIN u.query : k[1] = "refund" /\ k[2] = s
  BY DEF SpellingsOf
<1>3. k = <<"refund", s>>
  BY <1>2 DEF UrlOK
<1> QED
  BY <1>1, <1>2, <1>3, Zenon DEF UrlOK

\* The total depends on the percentages alone.
LEMMA SameTotal ==
  ASSUME NEW R \in Seq([who : Who \cup {Zero}, percent : Int]), NEW Q, DOMAIN Q = DOMAIN R,
         \A i \in DOMAIN R : Q[i].percent = R[i].percent
  PROVE  Total(Q) = Total(R)
<1>1. [i \in DOMAIN Q |-> Q[i].percent] = [i \in DOMAIN R |-> R[i].percent]
  OBVIOUS
<1> QED
  BY <1>1 DEF Total

\* ExtractParametersFromUrl keeps the percentages it has accepted.
LEMMA ExtractedRefunds ==
  ASSUME NEW u, UrlOK(u), NEW q \in normalizeQueryParams(u.query), Accepted(q),
         NEW fast, NEW b
  PROVE  RefundOK(URLParameters(fast, q, b).refund)
<1> DEFINE R == URLParameters(fast, q, b).refund
           Q == q["refund"]
<1>1. CASE "refund" \notin DOMAIN q
  <2>1. R = <<>>
    BY <1>1 DEF URLParameters
  <2> QED
    BY <2>1 DEF RefundOK, Refunds
<1>2. CASE "refund" \in DOMAIN q
  <2>1. Q \in Seq([who : Who, percent : Int])
    BY <1>2, NormalisedRefunds, Zenon
  <2>2. R = [i \in DOMAIN Q |-> [Q[i] EXCEPT !.who = RefundAddress(@)]]
    BY <1>2 DEF URLParameters
  <2> HIDE DEF R, Q
  <2>3. \A i \in DOMAIN Q : /\ R[i] \in [who : Who \cup {Zero}, percent : Int]
                            /\ R[i].percent = Q[i].percent
    <3> TAKE i \in DOMAIN Q
    <3>1. Q[i] \in [who : Who, percent : Int]
      BY <2>1, Elements, Zenon
    <3>2. R[i] = [Q[i] EXCEPT !.who = RefundAddress(Q[i].who)]
      BY <2>2, <3>1
    <3>3. RefundAddress(Q[i].who) \in Who \cup {Zero}
      BY <3>1 DEF RefundAddress
    <3> QED
      BY <3>1, <3>2, <3>3
  <2>4. DOMAIN R = DOMAIN Q /\ DOMAIN Q = 1..Len(Q) /\ Len(Q) \in Nat
    BY <2>1, <2>2
  <2>5. R \in Refunds
    <3>1. R = [i \in 1..Len(Q) |-> R[i]]
      BY <2>2, <2>4
    <3>2. \A i \in 1..Len(Q) : R[i] \in [who : Who \cup {Zero}, percent : Int]
      BY <2>3, <2>4
    <3>3. R \in [1..Len(Q) -> [who : Who \cup {Zero}, percent : Int]]
      BY <3>1, <3>2
    <3> QED
      BY <2>4, <3>3, IsSequence, Zenon DEF Refunds
  <2>6. Total(R) = Total(Q)
    BY <2>3, <2>4, <2>5, SameTotal, Zenon DEF Refunds
  <2>7. Total(Q) <= MaxPercent
    BY <1>2, Zenon DEF Accepted, AcceptedRefunds, Q
  <2> QED
    BY <2>5, <2>6, <2>7 DEF RefundOK, R
<1> QED
  BY <1>1, <1>2

\* So does replaceZeroRefund.
LEMMA SentRefunds ==
  ASSUME NEW R \in Refunds, NEW a \in Address
  PROVE  LET W == WithSender(R, a)
         IN  /\ Len(W) = Len(R) /\ DOMAIN W = DOMAIN R /\ (R # <<>> => W # <<>>)
             /\ \A i \in DOMAIN R :
                    /\ W[i].percent = R[i].percent
                    /\ W[i].who = IF R[i].who = Zero THEN a ELSE R[i].who
             /\ Total(W) = Total(R)
<1> DEFINE W == WithSender(R, a)
<1>1. DOMAIN R = 1..Len(R) /\ Len(R) \in Nat
  BY DEF Refunds
<1>2. DOMAIN W = 1..Len(R)
  BY <1>1 DEF WithSender
<1>3. \A i \in DOMAIN R :
         /\ W[i].percent = R[i].percent
         /\ W[i].who = IF R[i].who = Zero THEN a ELSE R[i].who
  BY DEF WithSender, Refunds
<1> HIDE DEF W
<1>4. Total(W) = Total(R)
  BY <1>1, <1>2, <1>3, SameTotal, Zenon DEF Refunds
<1>5. W \in Seq({W[i] : i \in 1..Len(R)})
  BY <1>1, <1>2 DEF W, WithSender
<1>6. Len(W) = Len(R)
  BY <1>1, <1>2, <1>5
<1> QED
  BY <1>1, <1>2, <1>3, <1>4, <1>6 DEF W

\* A fast request is for all builders.
LEMMA BuildersOfFast ==
  ASSUME NEW f, NEW q, NEW b, URLParameters(f, q, b).fast
  PROVE  URLParameters(f, q, b).builders = b
<1>1. URLParameters(f, q, b).fast = f
  BY Zenon DEF URLParameters
<1>2. f
  BY <1>1, Zenon
<1> DEFINE others == IF "builder" \in DOMAIN q THEN q["builder"] ELSE <<>>
<1>3. URLParameters(f, q, b).builders = IF f THEN b ELSE others
  BY DEF URLParameters
<1> QED
  BY <1>2, <1>3, Zenon

\* Parameters that EquivalentURLParams takes for equal have the same preferences,
\* and the same builders unless the request is fast.
LEMMA Equivalent ==
  ASSUME NEW f1, NEW q1, NEW b1, NEW f2, NEW q2, NEW b2,
         EquivalentURLParams(URLParameters(f1, q1, b1), URLParameters(f2, q2, b2))
  PROVE  LET left == URLParameters(f1, q1, b1)
             right == URLParameters(f2, q2, b2)
         IN  /\ SamePreferences(left, right)
             /\ right.originId = left.originId
             /\ right.fast \/ left.builders = right.builders
<1> DEFINE left == URLParameters(f1, q1, b1)
           right == URLParameters(f2, q2, b2)
           Plain == {"hint", "originid", "builder", "usemempool", "protectrefund",
                     "canrevert", "mempoolrpc", "blockrange", "auctiontimeout",
                     "allowtee"}
<1>1. f1 = f2
  BY Zenon DEF EquivalentURLParams, URLParameters
<1>2. [n \in DOMAIN q1 \ {"refund"} |-> q1[n]] = [n \in DOMAIN q2 \ {"refund"} |-> q2[n]]
  BY DEF EquivalentURLParams, WithoutRefund, URLParameters
<1>3. \A n \in Plain : /\ n \in DOMAIN q1 <=> n \in DOMAIN q2
                       /\ n \in DOMAIN q1 => q1[n] = q2[n]
  BY <1>2
<1>4. \A n \in Plain : \A z : FirstValue(q1, n, z) = FirstValue(q2, n, z)
  <2> TAKE n \in Plain
  <2> TAKE z
  <2>1. ASSUME n \in DOMAIN q1
        PROVE  FirstValue(q1, n, z) = FirstValue(q2, n, z)
    <3>1. n \in DOMAIN q2 /\ q1[n] = q2[n]
      BY <1>3, <2>1
    <3> QED
      BY <2>1, <3>1, Zenon DEF FirstValue
  <2>2. ASSUME n \notin DOMAIN q1
        PROVE  FirstValue(q1, n, z) = FirstValue(q2, n, z)
    BY <1>3, <2>2, Zenon DEF FirstValue
  <2> QED
    BY <2>1, <2>2
<1>5. \A n \in Plain : IsTrue(q1, n) = IsTrue(q2, n)
  <2> HIDE DEF Plain
  <2> TAKE n \in Plain
  <2>1. FirstValue(q1, n, "") = FirstValue(q2, n, "")
    BY <1>4, Zenon
  <2> QED
    BY <2>1, Zenon DEF IsTrue
<1>6. left.fast = right.fast /\ left.prefWasSet = right.prefWasSet
  <2>1. "hint" \in DOMAIN q1 <=> "hint" \in DOMAIN q2
    BY <1>3
  <2>2. left.prefWasSet = ("hint" \in DOMAIN q1) /\ right.prefWasSet = ("hint" \in DOMAIN q2)
    BY Zenon DEF URLParameters
  <2>3. left.fast = f1 /\ right.fast = f2
    BY Zenon DEF URLParameters
  <2> HIDE DEF left, right
  <2>4. CASE "hint" \in DOMAIN q1
    BY <1>1, <2>1, <2>2, <2>3, <2>4
  <2>5. CASE "hint" \notin DOMAIN q1
    BY <1>1, <2>1, <2>2, <2>3, <2>5
  <2> QED
    BY <2>4, <2>5
<1>7. left.hints = right.hints /\ left.mempoolRPC = right.mempoolRPC
  <2>1. "hint" \in DOMAIN q1 <=> "hint" \in DOMAIN q2
    BY <1>3
  <2>2. "mempoolrpc" \in DOMAIN q1 <=> "mempoolrpc" \in DOMAIN q2
    BY <1>3
  <2>3. "hint" \in DOMAIN q1 => q1["hint"] = q2["hint"]
    BY <1>3
  <2>4. "mempoolrpc" \in DOMAIN q1 => q1["mempoolrpc"] = q2["mempoolrpc"]
    BY <1>3
  <2> QED
    BY <2>1, <2>2, <2>3, <2>4, Zenon DEF URLParameters
<1>8. /\ left.useMempool = right.useMempool
      /\ left.protectRefund = right.protectRefund
      /\ left.canRevert = right.canRevert
  BY <1>5, Zenon DEF URLParameters
<1>9. /\ left.originId = right.originId
       /\ left.blockRange = right.blockRange
       /\ left.auctionTimeout = right.auctionTimeout
  BY <1>4, Zenon DEF URLParameters
<1>10. left.allowTEE = right.allowTEE
  <2>1. "allowtee" \in DOMAIN q1 <=> "allowtee" \in DOMAIN q2
    BY <1>3
  <2>2. FirstValue(q1, "allowtee", "") = FirstValue(q2, "allowtee", "")
    BY <1>4, Zenon
  <2> QED
    BY <1>1, <2>1, <2>2, Zenon DEF URLParameters
<1>11. ~f2 => left.builders = right.builders
  <2>1. "builder" \in DOMAIN q1 <=> "builder" \in DOMAIN q2
    BY <1>3
  <2>2. "builder" \in DOMAIN q1 => q1["builder"] = q2["builder"]
    BY <1>3
  <2> QED
    BY <1>1, <2>1, <2>2, Zenon DEF URLParameters
<1>12. DOMAIN left \ {"refund", "builders", "rawNormalizedQueryParams"} =
          {"fast", "hints", "prefWasSet", "originId", "useMempool", "protectRefund",
           "canRevert", "mempoolRPC", "blockRange", "auctionTimeout", "allowTEE"}
  BY Zenon DEF URLParameters
<1>13. SamePreferences(left, right)
  BY <1>6, <1>7, <1>8, <1>12, <1>9, <1>10 DEF SamePreferences
<1>14. right.fast = f2
  BY Zenon DEF URLParameters
<1> QED
  BY <1>13, <1>14, <1>9, <1>11

\* Two queries that differ in the spelling of their keys alone, each spelt once,
\* are normalised to the same, and in one way only.
LEMMA SpeltAlike ==
  ASSUME NEW u, NEW v, UrlOK(u), UrlOK(v), SpeltOnce(u), SpeltOnce(v),
         SameButSpelling(u, v),
         NEW q1 \in normalizeQueryParams(u.query), NEW q2 \in normalizeQueryParams(v.query)
  PROVE  q1 = q2
<1>1. ASSUME NEW w, SpeltOnce(w), NEW q \in normalizeQueryParams(w.query),
             NEW n \in NamesOf(w.query)
      PROVE  q[n] = ValueOf(w, n)
  <2>1. PICK s \in SpellingsOf(w.query, n) : q[n] = w.query[<<n, s>>]
    <3>1. n \in DOMAIN q
      BY <1>1, Normalised
    <3> QED
      BY <1>1, <3>1, Normalised
  <2>2. (CHOOSE t \in SpellingsOf(w.query, n) : TRUE) \in SpellingsOf(w.query, n)
    BY <2>1
  <2>3. s = CHOOSE t \in SpellingsOf(w.query, n) : TRUE
    BY <1>1, <2>1, <2>2 DEF SpeltOnce
  <2> QED
    BY <2>1, <2>3 DEF ValueOf
<1>2. DOMAIN q1 = NamesOf(u.query) /\ DOMAIN q2 = NamesOf(u.query)
  BY Normalised DEF SameButSpelling
<1>3. \A n \in DOMAIN q1 : q1[n] = q2[n]
  BY <1>1, <1>2, Normalised DEF SameButSpelling
<1>4. q1 = [n \in DOMAIN q1 |-> q1[n]] /\ q2 = [n \in DOMAIN q2 |-> q2[n]]
  BY Normalised
<1> QED
  BY <1>2, <1>3, <1>4

-----------------------------------------------------------------------------
\* Steps.

\* The refresh leaves the requests alone, ...
LEMMA FetchFrame ==
  ASSUME fetchBuilderInfo
  PROVE  UNCHANGED <<config, request>>
BY DEF fetchBuilderInfo, StoreFirstWord, StoreSecondWord, FetchFails

Alone(p) ==
    /\ UNCHANGED <<presets, customers, fetcher, builderInfos, storing, fetched, url, header>>
    /\ \A r \in Caller \ {p} :
           /\ step'[r] = step[r] /\ names'[r] = names[r] /\ newest'[r] = newest[r]
           /\ params'[r] = params[r] /\ refundOf'[r] = refundOf[r]
           /\ updated'[r] = updated[r] /\ sent'[r] = sent[r]
    /\ \A o \in DOMAIN arrays \ {p} : arrays'[o] = arrays[o]

\* ... and a request leaves alone the configuration, the builders, the URLs, the
\* other requests and every array but its own.
LEMMA RequestFrame ==
  ASSUME DomainInv, NEW p \in Caller, Request(p)
  PROVE  Alone(p) /\ DomainInv'
<1> USE DEF Alone, DomainInv, config, builders
<1>1. CASE BuilderNames(p)
  BY <1>1 DEF BuilderNames
<1>2. CASE Parse(p)
  <2>1. CASE Reject(p)
    BY <2>1 DEF Reject
  <2>2. ASSUME NEW q, getEffectiveParameters(p, q)
        PROVE  Alone(p) /\ DomainInv'
    <3>1. ASSUME NEW new, NEW owner \in {p} \cup DOMAIN presets, Effective(p, new, owner)
          PROVE  Alone(p) /\ DomainInv'
      BY <3>1 DEF Effective
    <3> QED
      BY <2>2, <3>1, Zenon DEF getEffectiveParameters
  <2> QED
    BY <1>2, <2>1, <2>2, Zenon DEF Parse
<1>3. CASE Complete(p)
  BY <1>3 DEF Complete, replaceZeroRefund, DefaultRefund
<1>4. CASE Send(p)
  BY <1>4 DEF Send
<1>5. CASE BlockNumberFails(p)
  BY <1>5 DEF BlockNumberFails, Reject
<1> QED
  BY <1>1, <1>2, <1>3, <1>4, <1>5, Zenon DEF Request

\* How a request is parsed.
LEMMA ParseCases ==
  ASSUME NEW p \in Caller, Parse(p)
  PROVE  \/ Reject(p) /\ \E q \in normalizeQueryParams(url[p].query) : ~Accepted(q)
         \/ \E q \in normalizeQueryParams(url[p].query) :
               /\ Accepted(q)
               /\ \/ Effective(p, Chosen(p, q), p) /\
                     Chosen(p, q) = URLParameters(url[p].fast, q, names[p])
                  \/ \E o \in DOMAIN presets :
                        Effective(p, Chosen(p, q), o) /\ Chosen(p, q) = presets[o]
<1>1. PICK q \in normalizeQueryParams(url[p].query) :
         getEffectiveParameters(p, q) \/ (~Accepted(q) /\ Reject(p))
  BY DEF Parse
<1>2. CASE getEffectiveParameters(p, q)
  <2> DEFINE extracted == URLParameters(url[p].fast, q, names[p])
             origin == OriginOf(p, extracted)
  <2>1. Accepted(q) /\ IF origin \in DOMAIN presets
                       THEN Effective(p, presets[origin], origin)
                       ELSE Effective(p, extracted, p)
    BY <1>2 DEF getEffectiveParameters
  <2>2. Chosen(p, q) = IF origin \in DOMAIN presets THEN presets[origin] ELSE extracted
    BY DEF Chosen
  <2> HIDE DEF extracted, origin
  <2>3. CASE origin \in DOMAIN presets
    <3>1. Chosen(p, q) = presets[origin]
      BY <2>2, <2>3
    <3> QED
      BY <2>1, <2>3, <3>1
  <2>4. CASE origin \notin DOMAIN presets
    BY <2>1, <2>2, <2>4 DEF extracted
  <2> QED
    BY <2>3, <2>4
<1> QED
  BY <1>1, <1>2

\* The parameters of a request are chosen once, by Parse.
LEMMA ParamsStep ==
  ASSUME DomainInv, ParamsInv, [PreferencesNext]_preferencesVars
  PROVE  ParamsInv'
<1>1. ASSUME NEW r \in Caller, UNCHANGED <<presets, customers, url, header>>,
             names'[r] = names[r], params'[r] = params[r], updated'[r] = updated[r],
             \/ step'[r] = step[r]
             \/ step[r] \in {"parsed", "complete"} /\ step'[r] \in {"complete", "sent"}
      PROVE  ParamsInvOf(r)'
  <2>1. \A q : Chosen(r, q)' = Chosen(r, q)
    BY <1>1 DEF Chosen, OriginOf
  <2>2. IsConfigurationUpdated(params[r].originId, params[r])' =
            IsConfigurationUpdated(params[r].originId, params[r])
    BY <1>1, Zenon DEF IsConfigurationUpdated
  <2>3. ParamsInvOf(r)
    BY DEF ParamsInv
  <2>4. (Parsed(r)' => Parsed(r)) /\ (step'[r] = "rejected" => step[r] = "rejected")
    BY <1>1 DEF Parsed
  <2> QED
    BY <1>1, <2>1, <2>2, <2>3, <2>4, Zenon DEF ParamsInvOf
<1>2. CASE fetchBuilderInfo \/ UNCHANGED preferencesVars
  <2>1. UNCHANGED <<config, request>>
    BY <1>2, FetchFrame DEF preferencesVars
  <2> QED
    BY <1>1, <2>1 DEF config, request, ParamsInv
<1>3. ASSUME NEW p \in Caller, Request(p)
      PROVE  ParamsInv'
  <2>1. Alone(p)
    BY <1>3, RequestFrame
  <2>2. ASSUME NEW r \in Caller \ {p}
        PROVE  ParamsInvOf(r)'
    BY <1>1, <2>1 DEF Alone
  <2>3. CASE BuilderNames(p)
    <3>1. step'[p] = "named"
      BY <2>3 DEF BuilderNames, DomainInv
    <3> QED
      BY <2>2, <3>1 DEF ParamsInv, ParamsInvOf, Parsed
  <2>4. CASE Parse(p)
    <3>1. CASE Reject(p) /\ \E q \in normalizeQueryParams(url[p].query) : ~Accepted(q)
      <4>1. step'[p] = "rejected" /\ url' = url
        BY <3>1 DEF Reject, DomainInv
      <4> QED
        BY <2>2, <3>1, <4>1 DEF ParamsInv, ParamsInvOf, Parsed
    <3>2. ASSUME NEW q \in normalizeQueryParams(url[p].query), Accepted(q), NEW o,
                 Effective(p, Chosen(p, q), o)
          PROVE  ParamsInvOf(p)'
      <4>1. /\ step'[p] = "parsed" /\ params'[p] = Chosen(p, q)
            /\ updated'[p] = IsConfigurationUpdated(Chosen(p, q).originId, Chosen(p, q))
            /\ UNCHANGED <<config, url, header, names>>
        BY <3>2 DEF Effective, DomainInv
      <4>2. Chosen(p, q)' = Chosen(p, q)
        BY <4>1, Zenon DEF Chosen, OriginOf, config
      <4>3. IsConfigurationUpdated(params[p].originId, params[p])' =
                IsConfigurationUpdated(Chosen(p, q).originId, Chosen(p, q))
        BY <4>1, Zenon DEF IsConfigurationUpdated, config
      <4>4. step'[p] # "rejected"
        BY <4>1
      <4> QED
        BY <3>2, <4>1, <4>2, <4>3, <4>4, Zenon DEF ParamsInvOf
    <3> QED
      BY <2>2, <2>4, <3>1, <3>2, ParseCases DEF ParamsInv
  <2>5. CASE Complete(p) \/ Send(p)
    <3>1. /\ UNCHANGED <<names, params, updated>>
          /\ step[p] \in {"parsed", "complete"} /\ step'[p] \in {"complete", "sent"}
      BY <2>5, Zenon DEF Complete, Send, DomainInv
    <3> QED
      BY <1>1, <2>1, <2>2, <3>1, Zenon DEF ParamsInv, Alone
  <2>6. CASE BlockNumberFails(p)
    <3>1. step'[p] = "rejected" /\ params' = params /\ params[p].blockRange > 0
      BY <2>6 DEF BlockNumberFails, Reject, DomainInv
    <3> QED
      BY <2>2, <3>1 DEF ParamsInv, ParamsInvOf, Parsed
  <2> QED
    BY <1>3, <2>3, <2>4, <2>5, <2>6 DEF Request
<1> QED
  BY <1>2, <1>3 DEF PreferencesNext

\* Refunds: a request copies before it writes.
LEMMA RefundStep ==
  ASSUME DomainInv, ConfigInv, ParamsInv, RefundInv, [PreferencesNext]_preferencesVars
  PROVE  RefundInv'
<1>1. CASE fetchBuilderInfo \/ UNCHANGED preferencesVars
  <2>1. UNCHANGED <<config, request>>
    BY <1>1, FetchFrame DEF preferencesVars
  <2> QED
    BY <2>1, Zenon DEF config, request, RefundInv, RefundInvOf, Parsed, ToSend
<1>2. ASSUME NEW p \in Caller, Request(p)
      PROVE  RefundInv'
  <2>1. Alone(p) /\ DomainInv'
    BY <1>2, RequestFrame
  <2>2. \A o \in DOMAIN presets : arrays'[o] = presets[o].refund
    BY <2>1 DEF Alone, DomainInv, RefundInv
  <2>3. ASSUME NEW r \in Caller \ {p}
        PROVE  RefundInvOf(r)'
    <3>1. /\ step'[r] = step[r] /\ params'[r] = params[r] /\ sent'[r] = sent[r]
          /\ refundOf'[r] = refundOf[r] /\ arrays'[r] = arrays[r]
          /\ arrays'[refundOf[r]] = arrays[refundOf[r]]
      <4>1. r \in DOMAIN arrays \ {p} /\ refundOf[r] \in DOMAIN arrays \ {p}
        BY DEF DomainInv
      <4> QED
        BY <2>1, <4>1, Zenon DEF Alone
    <3>2. RefundInvOf(r)
      BY DEF RefundInv
    <3> QED
      BY <3>1, <3>2, Zenon DEF RefundInvOf, Parsed, ToSend
  <2>4. RefundInvOf(p)
    BY DEF RefundInv
  <2>5. SUFFICES RefundInvOf(p)'
    BY <2>1, <2>2, <2>3, <2>5 DEF RefundInv, Alone
  <2>6. CASE BuilderNames(p) \/ BlockNumberFails(p)
    <3>1. step'[p] \in {"named", "rejected"}
      BY <2>6 DEF BuilderNames, BlockNumberFails, Reject, DomainInv
    <3> QED
      BY <3>1 DEF RefundInvOf, Parsed
  <2>7. CASE Parse(p)
    <3>1. CASE Reject(p)
      <4>1. step'[p] = "rejected"
        BY <3>1 DEF Reject, DomainInv
      <4> QED
        BY <4>1 DEF RefundInvOf, Parsed
    <3>2. ASSUME NEW new, NEW o, Effective(p, new, o), RefundOK(new.refund),
                 \/ o = p
                 \/ o \in DOMAIN presets /\ new = presets[o]
          PROVE  RefundInvOf(p)'
      <4>1. step'[p] = "parsed" /\ params'[p] = new /\ refundOf'[p] = o
        BY <3>2 DEF Effective, DomainInv
      <4>2. arrays'[o] = new.refund
        BY <2>2, <3>2 DEF Effective, DomainInv
      <4> QED
        BY <3>2, <4>1, <4>2 DEF RefundInvOf
    <3>3. ASSUME NEW q \in normalizeQueryParams(url[p].query), Accepted(q)
          PROVE  RefundOK(URLParameters(url[p].fast, q, names[p]).refund)
      BY <3>3, ExtractedRefunds, PreferencesAssumption DEF DomainInv
    <3>4. ASSUME NEW o \in DOMAIN presets
          PROVE  RefundOK(presets[o].refund)
      <4>1. PICK u \in PresetUrls : /\ o \in DOMAIN u
               /\ \E q \in normalizeQueryParams(u[o].query) :
                      Accepted(q) /\ presets[o] = URLParameters(u[o].fast, q, <<>>)
        BY DEF ConfigInv
      <4>2. UrlOK(u[o])
        BY <4>1, PreferencesAssumption
      <4> QED
        BY <4>1, <4>2, ExtractedRefunds
    <3> QED
      BY <2>7, <3>1, <3>2, <3>3, <3>4, ParseCases
  <2>8. CASE Complete(p)
    <3>1. step[p] = "parsed" /\ step'[p] = "complete" /\ params' = params
      BY <2>8 DEF Complete, DomainInv
    <3>2. arrays[refundOf[p]] = params[p].refund /\ RefundOK(params[p].refund)
      BY <2>4, <3>1 DEF RefundInvOf, Parsed
    <3>3. refundOf'[p] = p
      BY <2>8 DEF Complete, replaceZeroRefund, DefaultRefund, DomainInv
    <3>4. arrays'[p] = ToSend(p)
      BY <2>8, <3>2 DEF Complete, replaceZeroRefund, DefaultRefund, DomainInv, ToSend
    <3>5. ToSend(p)' = ToSend(p)
      BY <3>1 DEF ToSend
    <3> QED
      BY <3>1, <3>2, <3>3, <3>4, <3>5 DEF RefundInvOf
  <2>9. CASE Send(p)
    <3>1. /\ step[p] = "complete" /\ step'[p] = "sent"
          /\ UNCHANGED <<params, refundOf, arrays>>
          /\ sent'[p] = arrays[refundOf[p]]
      BY <2>9, Zenon DEF Send, DomainInv
    <3>2. refundOf[p] = p /\ arrays[p] = ToSend(p) /\ RefundOK(params[p].refund)
      BY <2>4, <3>1 DEF RefundInvOf, Parsed
    <3>3. ToSend(p)' = ToSend(p)
      BY <3>1 DEF ToSend
    <3> QED
      BY <3>1, <3>2, <3>3, Zenon DEF RefundInvOf
  <2> QED
    BY <1>2, <2>6, <2>7, <2>8, <2>9 DEF Request
<1> QED
  BY <1>1, <1>2 DEF PreferencesNext

\* Builders: fetchBuilderInfo appends to what was fetched, and a request reads
\* the header once.
LEMMA BuilderStep ==
  ASSUME DomainInv, BuilderInv, [PreferencesNext]_preferencesVars
  PROVE  BuilderInv'
<1>1. CASE UNCHANGED preferencesVars
  BY <1>1, Zenon DEF preferencesVars, builders, request, BuilderInv, LowerAll
<1>2. CASE fetchBuilderInfo
  <2>0. UNCHANGED <<names, newest>>
    BY <1>2, FetchFrame DEF request
  <2>1. ASSUME NEW list \in BuilderLists, StoreFirstWord(list)
        PROVE  BuilderInv'
    BY <2>0, <2>1 DEF StoreFirstWord, BuilderInv, LowerAll
  <2>2. ASSUME NEW list \in storing, StoreSecondWord(list)
        PROVE  BuilderInv'
    <3>1. list \in Seq(DOMAIN Lower)
      BY PreferencesAssumption DEF BuilderInv
    <3>2. fetched' = Append(fetched, list) /\ storing' = {}
          /\ builderInfos' = [array |-> list, len |-> Len(list)]
      BY <2>2 DEF StoreSecondWord
    <3>3. /\ fetched' \in Seq(Seq(DOMAIN Lower)) /\ fetched' # <<>>
          /\ Len(fetched') = Len(fetched) + 1 /\ fetched'[Len(fetched')] = list
          /\ \A i \in 1..Len(fetched) : fetched'[i] = fetched[i]
      BY <3>1, <3>2, Appended DEF BuilderInv
    <3>4. \A p \in Caller : /\ newest'[p] \in 0..Len(fetched')
                            /\ newest'[p] # 0 => names'[p] = LowerAll(fetched'[newest'[p]])
      <4> TAKE p \in Caller
      <4>1. newest'[p] = newest[p] /\ names'[p] = names[p] /\ newest[p] \in 0..Len(fetched)
            /\ Len(fetched) \in Nat
        BY <2>0 DEF BuilderInv
      <4>2. newest[p] # 0 => fetched'[newest[p]] = fetched[newest[p]]
        BY <3>3, <4>1
      <4> QED
        BY <3>3, <4>1, <4>2 DEF BuilderInv
    <3> QED
      BY <3>2, <3>3, <3>4, Zenon DEF BuilderInv, LowerAll
  <2>3. CASE FetchFails
    BY <2>0, <2>3, Zenon DEF FetchFails, builders, BuilderInv, LowerAll
  <2> QED
    BY <1>2, <2>1, <2>2, <2>3 DEF fetchBuilderInfo
<1>3. ASSUME NEW p \in Caller, Request(p)
      PROVE  BuilderInv'
  <2>1. Alone(p)
    BY <1>3, RequestFrame
  <2>2. /\ newest'[p] \in 0..Len(fetched)
        /\ newest'[p] # 0 => names'[p] = LowerAll(fetched[newest'[p]])
    <3>1. CASE BuilderNames(p)
      <4>1. CASE storing = {}
        <5> DEFINE L == fetched[Len(fetched)]
        <5>1. builderInfos.array = L /\ builderInfos.len = Len(L)
          BY <4>1 DEF BuilderInv
        <5>2. L \in Seq(DOMAIN Lower) /\ Len(fetched) \in 0..Len(fetched)
          BY DEF BuilderInv
        <5>3. newest'[p] = Len(fetched)
          BY <3>1, <4>1 DEF BuilderNames, DomainInv
        <5>4. names'[p] = [i \in 1..Len(L) |-> IF i <= Len(L) THEN Lower[L[i]] ELSE "garbage"]
          BY <3>1, <5>1 DEF BuilderNames, DomainInv
        <5> HIDE DEF L
        <5>5. names'[p] = [i \in DOMAIN L |-> Lower[L[i]]]
          BY <5>2, <5>4
        <5> QED
          BY <5>2, <5>3, <5>5 DEF LowerAll, L
      <4>2. CASE storing # {}
        BY <3>1, <4>2 DEF BuilderNames, DomainInv, BuilderInv
      <4> QED
        BY <4>1, <4>2
    <3>2. CASE ~BuilderNames(p)
      <4>1. UNCHANGED <<names, newest>>
        BY <1>3, <3>2, Zenon DEF Request, Parse, getEffectiveParameters, Effective, Reject,
           Complete, Send, BlockNumberFails
      <4> QED
        BY <4>1 DEF BuilderInv
    <3> QED
      BY <3>1, <3>2
  <2> QED
    BY <2>1, <2>2, ZenonT(30) DEF Alone, BuilderInv, LowerAll
<1> QED
  BY <1>1, <1>2, <1>3 DEF PreferencesNext

-----------------------------------------------------------------------------
\* The invariant of the requests with the configuration and the refresh: where
\* parameters come from, whose arrays refunds live in, and which list the
\* builders were read from.
THEOREM PreferencesInvariant == PreferencesSpec => []PreferencesInv
<1>1. PreferencesInit => PreferencesInv
  <2> SUFFICES ASSUME PreferencesInit PROVE PreferencesInv
    OBVIOUS
  <2>1. ConfigInv
    <3>1. ASSUME NEW o \in DOMAIN presets
          PROVE  \E u \in PresetUrls :
                    /\ o \in DOMAIN u
                    /\ \E q \in normalizeQueryParams(u[o].query) :
                          Accepted(q) /\ presets[o] = URLParameters(u[o].fast, q, <<>>)
      <4>1. PICK u \in PresetUrls :
               \E read \in Selections(DOMAIN u, LAMBDA c : normalizeQueryParams(u[c].query)) :
                   presets = [c \in {k \in DOMAIN u : Accepted(read[k])} |->
                                 parseURLToParameters(u[c], read[c])]
        BY Zenon DEF PreferencesInit, NewConfigurationWatcher
      <4>2. PICK read :
               /\ \A c \in DOMAIN u : read[c] \in normalizeQueryParams(u[c].query)
               /\ presets = [c \in {k \in DOMAIN u : Accepted(read[k])} |->
                                parseURLToParameters(u[c], read[c])]
        BY <4>1, Zenon DEF Selections
      <4> QED
        BY <3>1, <4>2, Zenon DEF parseURLToParameters
    <3>2. ASSUME NEW o \in DOMAIN customers, NEW known \in customers[o]
          PROVE  \E u \in CustomerUrls[o] : \E q \in normalizeQueryParams(u.query) :
                    Accepted(q) /\ known = URLParameters(u.fast, q, <<>>)
      <4>1. customers[o] \in Loaded(CustomerUrls[o])
        <5>1. customers \in Selections(DOMAIN CustomerUrls, LAMBDA c : Loaded(CustomerUrls[c]))
          BY Zenon DEF PreferencesInit, NewConfigurationWatcher
        <5>2. /\ customers \in [DOMAIN CustomerUrls ->
                                   UNION {Loaded(CustomerUrls[c]) : c \in DOMAIN CustomerUrls}]
              /\ \A c \in DOMAIN CustomerUrls : customers[c] \in Loaded(CustomerUrls[c])
          BY <5>1, Zenon DEF Selections
        <5> QED
          BY <3>2, <5>2, Zenon
      <4>2. PICK read :
               /\ \A u \in CustomerUrls[o] :
                      read[u] \in {q \in normalizeQueryParams(u.query) : Accepted(q)}
               /\ customers[o] = {parseURLToParameters(u, read[u]) : u \in CustomerUrls[o]}
        BY <4>1, Zenon DEF Loaded, Selections
      <4>3. PICK u \in CustomerUrls[o] : known = parseURLToParameters(u, read[u])
        BY <3>2, <4>2, Zenon
      <4> QED
        BY <4>2, <4>3, Zenon DEF parseURLToParameters
    <3> QED
      BY <3>1, <3>2 DEF ConfigInv
  <2>2. DOMAIN presets \cap Caller = {}
    BY <2>1, PreferencesAssumption DEF ConfigInv
  <2>3. DomainInv
    <3>1. DOMAIN url = Caller /\ \A p \in Caller : url[p] \in CallerUrls[p]
      BY Zenon DEF PreferencesInit, Selections
    <3> QED
      BY <2>2, <3>1 DEF PreferencesInit, DomainInv
  <2>4. ParamsInv
    BY Zenon DEF PreferencesInit, ParamsInv, ParamsInvOf, Parsed
  <2>5. RefundInv
    BY <2>2, Zenon DEF PreferencesInit, RefundInv, RefundInvOf, Parsed
  <2>6. BuilderInv
    <3>1. PICK list \in BuilderLists :
             LET first == IF fetcher THEN list ELSE <<>>
             IN  /\ builderInfos = [array |-> first, len |-> Len(first)]
                 /\ storing = {}
                 /\ fetched = <<first>>
      BY Zenon DEF PreferencesInit, StartBuilderInfoService
    <3> DEFINE first == IF fetcher THEN list ELSE <<>>
    <3>2. first \in Seq(DOMAIN Lower)
      <4>1. list \in Seq(DOMAIN Lower) /\ <<>> \in Seq(DOMAIN Lower)
        BY PreferencesAssumption
      <4> QED
        BY <4>1, Zenon
    <3>3. /\ builderInfos = [array |-> first, len |-> Len(first)]
          /\ storing = {} /\ fetched = <<first>>
      BY <3>1
    <3> HIDE DEF first
    <3>4. fetched \in Seq(Seq(DOMAIN Lower)) /\ fetched # <<>> /\ Len(fetched) = 1
          /\ fetched[1] = first
      BY <3>2, <3>3
    <3>5. \A p \in Caller : newest[p] = 0
      BY DEF PreferencesInit
    <3> QED
      BY <3>3, <3>4, <3>5 DEF BuilderInv
  <2> QED
    BY <2>1, <2>3, <2>4, <2>5, <2>6 DEF PreferencesInv
<1>2. PreferencesInv /\ [PreferencesNext]_preferencesVars => PreferencesInv'
  <2> SUFFICES ASSUME PreferencesInv, [PreferencesNext]_preferencesVars
               PROVE  PreferencesInv'
    OBVIOUS
  <2>1. UNCHANGED config /\ DomainInv'
    <3>1. CASE fetchBuilderInfo \/ UNCHANGED preferencesVars
      <4>1. UNCHANGED <<config, request>>
        BY <3>1, FetchFrame DEF preferencesVars
      <4> QED
        BY <4>1, Zenon DEF config, request, PreferencesInv, DomainInv
    <3> QED
      BY <3>1, RequestFrame DEF PreferencesInv, PreferencesNext, Alone, config
  <2>2. ConfigInv'
    BY <2>1, Zenon DEF config, ConfigInv, PreferencesInv
  <2> QED
    BY <2>1, <2>2, ParamsStep, RefundStep, BuilderStep DEF PreferencesInv
<1> QED
  BY <1>1, <1>2, PTL DEF PreferencesSpec

\* The relay receives the refunds that were asked for, from whichever requests
\* share the preset's array at the same time.
THEOREM RefundTheorem == PreferencesSpec => []RefundsAsAsked
<1>1. PreferencesInv => RefundsAsAsked
  <2> SUFFICES ASSUME PreferencesInv, NEW p \in Caller, step[p] = "sent"
               PROVE  LET asked == params[p].refund
                      IN  IF asked = <<>>
                          THEN sent[p] = IF params[p].fast
                                         THEN <<[who |-> Sender[p], percent |-> 50]>>
                                         ELSE <<>>
                          ELSE /\ Len(sent[p]) = Len(asked)
                               /\ \A i \in DOMAIN asked :
                                     /\ sent[p][i].percent = asked[i].percent
                                     /\ sent[p][i].who = IF asked[i].who = Zero
                                                        THEN Sender[p] ELSE asked[i].who
                               /\ Total(sent[p]) <= MaxPercent
    BY Zenon DEF RefundsAsAsked
  <2>1. sent[p] = ToSend(p) /\ RefundOK(params[p].refund)
    BY Zenon DEF PreferencesInv, RefundInv, RefundInvOf, Parsed
  <2>2. CASE params[p].refund = <<>>
    BY <2>1, <2>2, Zenon DEF ToSend
  <2>3. CASE params[p].refund # <<>>
    <3>1. /\ sent[p] = WithSender(params[p].refund, Sender[p])
          /\ params[p].refund \in Refunds /\ Total(params[p].refund) <= MaxPercent
      BY <2>1, <2>3, Zenon DEF ToSend, RefundOK
    <3>2. Sender[p] \in Address
      BY PreferencesAssumption
    <3> QED
      <4> DEFINE R == params[p].refund
                 W == WithSender(R, Sender[p])
      <4>1. /\ Len(W) = Len(R) /\ Total(W) = Total(R)
            /\ \A i \in DOMAIN R :
                   /\ W[i].percent = R[i].percent
                   /\ W[i].who = IF R[i].who = Zero THEN Sender[p] ELSE R[i].who
        BY <3>1, <3>2, SentRefunds, Zenon
      <4> HIDE DEF W
      <4> QED
        BY <2>3, <3>1, <4>1, Zenon DEF W
  <2> QED
    BY <2>2, <2>3, Zenon
<1> QED
  BY <1>1, PreferencesInvariant, PTL

\* A fast request that did not come in during a store is for all the builders of
\* the newest list.
THEOREM BuildersTheorem == PreferencesSpec => []FastToFetchedBuilders
<1>1. PreferencesInv => FastToFetchedBuilders
  <2> SUFFICES ASSUME PreferencesInv, NEW p \in Caller, Parsed(p), FromUrl(p),
                      params[p].fast, newest[p] # 0
               PROVE  params[p].builders = LowerAll(fetched[newest[p]])
    BY DEF FastToFetchedBuilders
  <2>1. PICK q \in normalizeQueryParams(url[p].query) : params[p] = Chosen(p, q)
    BY Zenon DEF PreferencesInv, ParamsInv, ParamsInvOf
  <2>2. OriginOf(p, URLParameters(url[p].fast, q, names[p])) \notin DOMAIN presets
    <3>1. URLParameters(url[p].fast, q, names[p]).originId =
              URLParameters(url[p].fast, q, <<>>).originId
      BY DEF URLParameters
    <3> QED
      BY <3>1, Zenon DEF FromUrl, OriginOf
  <2>3. params[p] = URLParameters(url[p].fast, q, names[p])
    BY <2>1, <2>2, Zenon DEF Chosen
  <2>4. params[p].builders = names[p]
    <3>1. URLParameters(url[p].fast, q, names[p]).fast
      BY <2>3, Zenon
    <3>2. URLParameters(url[p].fast, q, names[p]).builders = names[p]
      BY <3>1, BuildersOfFast
    <3> QED
      BY <2>3, <3>2
  <2> QED
    BY <2>4 DEF PreferencesInv, BuilderInv
<1> QED
  BY <1>1, PreferencesInvariant, PTL

\* What was read from the customers' file are parameters.
LEMMA ConfigParsed ==
  ASSUME ConfigInv
  PROVE  /\ \A o \in DOMAIN presets : \E f, q : presets[o] = URLParameters(f, q, <<>>)
         /\ \A o \in DOMAIN customers : \A known \in customers[o] :
                \E f, q : known = URLParameters(f, q, <<>>)
BY DEF ConfigInv

\* URLs that differ in the case of their keys alone stand for the same parameters,
\* and are reported alike.
THEOREM SpellingTheorem == PreferencesSpec => []SameParametersInAnyCase
<1>1. PreferencesInv => SameParametersInAnyCase
  <2> SUFFICES ASSUME PreferencesInv, NEW p \in Caller, NEW r \in Caller,
                      SpeltOnce(url[p]), SpeltOnce(url[r]), SameButSpelling(url[p], url[r]),
                      header[p] = header[r], names[p] = names[r], Parsed(p)
               PROVE  /\ Parsed(r) => params[p] = params[r] /\ updated[p] = updated[r]
                      /\ step[r] = "rejected" => params[r].blockRange > 0
    BY DEF SameParametersInAnyCase
  <2>1. UrlOK(url[p]) /\ UrlOK(url[r])
    BY PreferencesAssumption DEF PreferencesInv, DomainInv
  <2>2. PICK q \in normalizeQueryParams(url[p].query) : Accepted(q) /\ params[p] = Chosen(p, q)
    BY Zenon DEF PreferencesInv, ParamsInv, ParamsInvOf
  <2>3. ASSUME NEW q2 \in normalizeQueryParams(url[r].query) PROVE q = q2
    BY <2>1, <2>2, <2>3, SpeltAlike, Zenon
  <2>4. Chosen(p, q) = Chosen(r, q)
    BY Zenon DEF Chosen, OriginOf, SameButSpelling
  <2>5. ParamsInvOf(p) /\ ParamsInvOf(r)
    BY DEF PreferencesInv, ParamsInv
  <2>6. Parsed(r) => params[p] = params[r]
    BY <2>2, <2>3, <2>4, <2>5, Zenon DEF ParamsInvOf
  <2> QED
    BY <2>2, <2>3, <2>5, <2>6, Zenon DEF ParamsInvOf
<1> QED
  BY <1>1, PreferencesInvariant, PTL

\* A customer's request that is not reported has the preferences of a URL the
\* customer is known for.
THEOREM KnownTheorem == PreferencesSpec => []UnreportedIsKnown
<1>1. PreferencesInv => UnreportedIsKnown
  <2> SUFFICES ASSUME PreferencesInv, NEW p \in Caller, Parsed(p), ~updated[p],
                      params[p].originId \in DOMAIN customers
               PROVE  \E known \in customers[params[p].originId] :
                         /\ SamePreferences(known, params[p])
                         /\ params[p].fast \/ known.builders = params[p].builders
    BY Zenon DEF UnreportedIsKnown
  <2>1. PICK known \in customers[params[p].originId] : EquivalentURLParams(known, params[p])
    BY Zenon DEF PreferencesInv, ParamsInv, ParamsInvOf, IsConfigurationUpdated
  <2>2. PICK f1, q1 : known = URLParameters(f1, q1, <<>>)
    BY ConfigParsed, Zenon DEF PreferencesInv
  <2>3. \E f2, q2, b2 : params[p] = URLParameters(f2, q2, b2)
    <3>1. PICK q \in normalizeQueryParams(url[p].query) : params[p] = Chosen(p, q)
      BY Zenon DEF PreferencesInv, ParamsInv, ParamsInvOf
    <3>2. CASE OriginOf(p, URLParameters(url[p].fast, q, names[p])) \in DOMAIN presets
      <4> DEFINE o == OriginOf(p, URLParameters(url[p].fast, q, names[p]))
      <4>1. o \in DOMAIN presets /\ params[p] = presets[o]
        BY <3>1, <3>2, Zenon DEF Chosen
      <4> HIDE DEF o
      <4>2. ConfigInv
        BY Zenon DEF PreferencesInv
      <4>3. PICK f3, q3 : presets[o] = URLParameters(f3, q3, <<>>)
        BY <4>1, <4>2, ConfigParsed, Zenon
      <4> QED
        BY <4>1, <4>3, Zenon
    <3>3. CASE OriginOf(p, URLParameters(url[p].fast, q, names[p])) \notin DOMAIN presets
      BY <3>1, <3>3, Zenon DEF Chosen
    <3> QED
      BY <3>2, <3>3, Zenon
  <2>4. PICK f2, q2, b2 : params[p] = URLParameters(f2, q2, b2)
    BY <2>3, Zenon
  <2> QED
    <3>1. EquivalentURLParams(URLParameters(f1, q1, <<>>), URLParameters(f2, q2, b2))
      BY <2>1, <2>2, <2>4, Zenon
    <3>2. /\ SamePreferences(URLParameters(f1, q1, <<>>), URLParameters(f2, q2, b2))
          /\ \/ URLParameters(f2, q2, b2).fast
             \/ URLParameters(f1, q1, <<>>).builders = URLParameters(f2, q2, b2).builders
      BY <3>1, Equivalent
    <3> QED
      BY <2>1, <2>2, <2>4, <3>2, Zenon
<1> QED
  BY <1>1, PreferencesInvariant, PTL
=============================================================================
