------------------------ MODULE WhitehatBundleProofs ------------------------
(***************************************************************************)
(* The invariants of the bundle list, for any number of wallets, any limit *)
(* and any number of faults.                                               *)
(***************************************************************************)
EXTENDS WhitehatBundle, SequenceTheorems, FiniteSetTheorems, TLAPS

\* The inductive invariant: a late LTRIM keeps what newest records because
\* newest is never longer than what LTRIM keeps.
BundleInv ==
    /\ BundleTypeOK
    /\ BundleBounded
    /\ BundleExpires
    /\ NewestListed
    /\ Len(newest) <= TrimStop + 1

\* LPUSH puts the transaction first and shifts the others by one.
LEMMA PushedFirst ==
    ASSUME NEW S, NEW s \in Seq(S), NEW t \in S
    PROVE  /\ <<t>> \o s \in Seq(S)
           /\ Len(<<t>> \o s) = Len(s) + 1
           /\ (<<t>> \o s)[1] = t
           /\ \A i \in 1..Len(s) : (<<t>> \o s)[i + 1] = s[i]
  <1>1. <<t>> \in Seq(S) /\ Len(<<t>>) = 1 /\ <<t>>[1] = t
    OBVIOUS
  <1>2. Len(s) \in Nat
    BY LenProperties
  <1>. QED
    BY <1>1, <1>2, ConcatProperties

\* LTRIM 0 n keeps the first n + 1 entries, and all of a shorter list.
LEMMA HeadKept ==
    ASSUME NEW S, NEW s \in Seq(S), NEW n \in Nat
    PROVE  /\ Head0To(n, s) \in Seq(S)
           /\ Len(Head0To(n, s)) = IF Len(s) > n + 1 THEN n + 1 ELSE Len(s)
           /\ \A i \in 1..Len(Head0To(n, s)) : Head0To(n, s)[i] = s[i]
  <1>. DEFINE k == IF Len(s) > n + 1 THEN n + 1 ELSE Len(s)
  <1>1. k \in Nat /\ k <= Len(s) /\ Len(s) \in Nat
    BY LenProperties
  <1>2. \A i \in 1..k : s[i] \in S
    BY <1>1, ElementOfSeq
  <1>. HIDE DEF k
  <1>3. /\ SubSeq(s, 1, k) \in Seq(S)
        /\ Len(SubSeq(s, 1, k)) = IF 1 <= k THEN k - 1 + 1 ELSE 0
        /\ \A i \in 1..(k - 1 + 1) : SubSeq(s, 1, k)[i] = s[1 + i - 1]
    BY <1>1, <1>2, SubSeqProperties
  <1>4. /\ Len(SubSeq(s, 1, k)) = k
        /\ \A i \in 1..k : SubSeq(s, 1, k)[i] = s[i]
    BY <1>1, <1>3
  <1>. QED
    BY <1>3, <1>4 DEF Head0To, k

\* The adds counted by BundleBounded, as one of them moves on.
LEMMA TrimmingCount ==
    ASSUME BundleTypeOK, NEW r \in Adder, NEW to \in Steps,
           at' = [at EXCEPT ![r] = to]
    PROVE  /\ Cardinality(Trimming) \in Nat
           /\ Cardinality(Trimming') \in Nat
           /\ r \in Trimming /\ to \notin {"expire", "ltrim"} =>
                  Cardinality(Trimming') = Cardinality(Trimming) - 1
           /\ r \notin Trimming /\ to \in {"expire", "ltrim"} =>
                  Cardinality(Trimming') = Cardinality(Trimming) + 1
           /\ (r \in Trimming <=> to \in {"expire", "ltrim"}) =>
                  Cardinality(Trimming') = Cardinality(Trimming)
  <1>1. Trimming \in SUBSET Adder /\ Trimming' \in SUBSET Adder
    BY DEF Trimming
  <1>2. /\ IsFiniteSet(Trimming) /\ Cardinality(Trimming) \in Nat
        /\ IsFiniteSet(Trimming') /\ Cardinality(Trimming') \in Nat
    BY <1>1, BundleAssumption, FS_Subset, FS_CardinalityType
  <1>3. ASSUME r \in Trimming, to \notin {"expire", "ltrim"}
        PROVE  Trimming' = Trimming \ {r}
    BY <1>3 DEF Trimming, BundleTypeOK
  <1>4. ASSUME r \notin Trimming, to \in {"expire", "ltrim"}
        PROVE  Trimming' = Trimming \cup {r}
    BY <1>4 DEF Trimming, BundleTypeOK
  <1>5. ASSUME r \in Trimming <=> to \in {"expire", "ltrim"}
        PROVE  Trimming' = Trimming
    BY <1>5 DEF Trimming, BundleTypeOK
  <1>. QED
    BY <1>2, <1>3, <1>4, <1>5, FS_AddElement, FS_RemoveElement

\* Adding to, failing to add to, or clearing the list keeps the types.
LEMMA BundleTypes == BundleTypeOK /\ [BundleNext]_bundleVars => BundleTypeOK'
  <1>. SUFFICES ASSUME BundleTypeOK, [BundleNext]_bundleVars
                PROVE  BundleTypeOK'
    OBVIOUS
  <1>0. /\ bundle \in Seq(SignedTx) /\ newest \in Seq(SignedTx)
        /\ signedTx \in [Adder -> SignedTx] /\ TrimStop \in Nat
    BY BundleAssumption DEF BundleTypeOK
  <1>. DEFINE Scalars == /\ ttl \in 0..BundleTTL
                         /\ at \in [Adder -> Steps]
                         /\ signedTx \in [Adder -> SignedTx]
                         /\ faults \in 0..MaxFaults
                         /\ untrimmed \in Nat
                         /\ unexpiring \in BOOLEAN
  <1>1. ASSUME NEW r \in Adder, AddTxToWhitehatBundle(r)
        PROVE  Scalars'
    <2>1. at' \in [Adder -> Steps]
      BY <1>1, Zenon DEF AddTxToWhitehatBundle, LRange, LPush, LPushUnanswered, LPushFails,
                  Expire, ExpireUnanswered, ExpireFails, LTrim,
               LTrimUnanswered, LTrimFails, Step, Steps, BundleTypeOK
    <2>2. faults' \in 0..MaxFaults
      BY <1>1, BundleAssumption
         DEF AddTxToWhitehatBundle, LRange, LPush, LPushUnanswered, LPushFails,
             Expire, ExpireUnanswered, ExpireFails, LTrim,
               LTrimUnanswered, LTrimFails, Fault, BundleTypeOK
    <2>3. untrimmed' \in Nat
      BY <1>1 DEF AddTxToWhitehatBundle, LRange, LPush, LPushUnanswered, LPushFails,
                  Expire, ExpireUnanswered, ExpireFails, LTrim,
               LTrimUnanswered, LTrimFails, BundleTypeOK
    <2>6. unexpiring' \in BOOLEAN
      <3>1. unexpiring \in BOOLEAN
        BY DEF BundleTypeOK
      <3>2. unexpiring' = unexpiring \/ unexpiring' = TRUE \/ unexpiring' = FALSE
        BY <1>1, Zenon
           DEF AddTxToWhitehatBundle, LRange, LPush, LPushUnanswered, LPushFails,
               Expire, ExpireUnanswered, ExpireFails, LTrim,
               LTrimUnanswered, LTrimFails
      <3>. QED
        BY <3>1, <3>2, Zenon
    <2>4. ttl' \in 0..BundleTTL
      BY <1>1, BundleAssumption
         DEF AddTxToWhitehatBundle, LRange, LPush, LPushUnanswered, LPushFails,
             Expire, ExpireUnanswered, ExpireFails, LTrim,
               LTrimUnanswered, LTrimFails, BundleTypeOK
    <2>5. signedTx' \in [Adder -> SignedTx]
      BY <1>1 DEF AddTxToWhitehatBundle, LRange, LPush, LPushUnanswered, LPushFails,
                  Expire, ExpireUnanswered, ExpireFails, LTrim,
               LTrimUnanswered, LTrimFails, BundleTypeOK
    <2>. QED
      BY <2>1, <2>2, <2>3, <2>4, <2>5, <2>6
  <1>2. ASSUME NEW r \in Adder, AddTxToWhitehatBundle(r)
        PROVE  bundle' \in Seq(SignedTx) /\ newest' \in Seq(SignedTx)
    <2>1. \/ UNCHANGED <<bundle, newest>>
          \/ /\ bundle' = <<signedTx[r]>> \o bundle
             /\ newest' = Head0To(TrimStop, <<signedTx[r]>> \o newest)
          \/ bundle' = Head0To(TrimStop, bundle) /\ newest' = newest
      BY <1>2 DEF AddTxToWhitehatBundle, LRange, LPush, LPushUnanswered, LPushFails,
                  Expire, ExpireUnanswered, ExpireFails, LTrim,
               LTrimUnanswered, LTrimFails
    <2>2. signedTx[r] \in SignedTx
      BY <1>0
    <2>3. /\ <<signedTx[r]>> \o bundle \in Seq(SignedTx)
          /\ <<signedTx[r]>> \o newest \in Seq(SignedTx)
      BY <1>0, <2>2, PushedFirst
    <2>4. /\ Head0To(TrimStop, <<signedTx[r]>> \o newest) \in Seq(SignedTx)
          /\ Head0To(TrimStop, bundle) \in Seq(SignedTx)
      BY <1>0, <2>3, HeadKept, Zenon
    <2>. QED
      BY <1>0, <2>1, <2>3, <2>4, Zenon
  <1>3. CASE Gone
    <2>1. bundle' \in Seq(SignedTx) /\ newest' \in Seq(SignedTx)
      BY <1>3, EmptySeq DEF Gone
    <2>2. ttl' \in 0..BundleTTL /\ untrimmed' \in Nat
      BY <1>3, BundleAssumption DEF Gone
    <2>3. unexpiring' \in BOOLEAN
      BY <1>3, Zenon DEF Gone
    <2>. QED
      BY <1>3, <2>1, <2>2, <2>3 DEF Gone, BundleTypeOK
  <1>4. CASE BundleTick
    <2>1. CASE ttl > 1 /\ ttl' = ttl - 1
               /\ UNCHANGED <<bundle, at, signedTx, faults, untrimmed, unexpiring, newest>>
      <3>1. ttl' \in 0..BundleTTL
        BY <2>1, BundleAssumption DEF BundleTypeOK
      <3>. QED
        BY <2>1, <3>1 DEF BundleTypeOK
    <2>. QED
      BY <1>3, <1>4, <2>1 DEF BundleTick
  <1>5. CASE UNCHANGED bundleVars
    BY <1>5 DEF bundleVars, BundleTypeOK
  <1>. QED
    BY <1>1, <1>2, <1>3, <1>4, <1>5 DEF BundleNext, DelWhitehatBundleTx, BundleTypeOK

\* What a push does to the two lists: both get the transaction in front.
LEMMA PushKeepsNewest ==
    ASSUME BundleTypeOK, NewestListed, NEW t \in SignedTx,
           bundle' = <<t>> \o bundle,
           newest' = Head0To(TrimStop, <<t>> \o newest)
    PROVE  NewestListed' /\ Len(newest') <= TrimStop + 1
  <1>. DEFINE grown == <<t>> \o newest
  <1>1. /\ Len(bundle') = Len(bundle) + 1 /\ bundle'[1] = t
        /\ \A i \in 1..Len(bundle) : bundle'[i + 1] = bundle[i]
    BY PushedFirst DEF BundleTypeOK
  <1>2. /\ grown \in Seq(SignedTx) /\ Len(grown) = Len(newest) + 1 /\ grown[1] = t
        /\ \A i \in 1..Len(newest) : grown[i + 1] = newest[i]
    BY PushedFirst DEF BundleTypeOK
  <1>. HIDE DEF grown
  <1>3. /\ newest' \in Seq(SignedTx)
        /\ Len(newest') = IF Len(grown) > TrimStop + 1 THEN TrimStop + 1 ELSE Len(grown)
        /\ \A i \in 1..Len(newest') : newest'[i] = grown[i]
    BY <1>2, HeadKept, BundleAssumption, Zenon DEF grown
  <1>4. /\ Len(newest) \in Nat /\ DOMAIN newest = 1..Len(newest)
        /\ Len(bundle) \in Nat /\ DOMAIN newest' = 1..Len(newest')
    BY <1>3, LenProperties DEF BundleTypeOK
  <1>5. Len(newest) <= Len(bundle) /\ \A i \in 1..Len(newest) : bundle[i] = newest[i]
    BY <1>4 DEF NewestListed
  <1>6. ASSUME NEW i \in 1..(Len(newest) + 1)
        PROVE  bundle'[i] = grown[i]
    <2>1. CASE i = 1
      BY <1>1, <1>2, <2>1
    <2>2. CASE i # 1
      <3>. DEFINE j == i - 1
      <3>1. j \in 1..Len(newest) /\ j \in 1..Len(bundle) /\ i = j + 1
        BY <1>4, <1>5, <2>2
      <3>. HIDE DEF j
      <3>. QED
        BY <1>1, <1>2, <1>5, <3>1
    <2>. QED
      BY <2>1, <2>2, Zenon
  <1>7. Len(newest') <= TrimStop + 1 /\ Len(newest') <= Len(newest) + 1
    BY <1>2, <1>3, <1>4, BundleAssumption
  <1>8. ASSUME NEW i \in 1..Len(newest')
        PROVE  bundle'[i] = newest'[i]
    <2>1. Len(newest') \in Nat
      BY <1>3, LenProperties
    <2>2. i \in 1..(Len(newest) + 1)
      BY <1>4, <1>7, <2>1
    <2>. QED
      BY <1>3, <1>6, <2>2, Zenon
  <1>9. Len(newest') <= Len(bundle')
    <2>1. Len(newest') \in Nat
      BY <1>3, LenProperties
    <2>. QED
      BY <1>1, <1>4, <1>5, <1>7, <2>1
  <1>. QED
    BY <1>4, <1>7, <1>8, <1>9, Zenon DEF NewestListed

\* One command of one add.
LEMMA AddKeepsInv ==
    ASSUME BundleInv, NEW r \in Adder, AddTxToWhitehatBundle(r), BundleTypeOK'
    PROVE  BundleInv'
  <1>. USE BundleAssumption DEF Step, Steps
  <1>0. /\ BundleTypeOK /\ BundleBounded /\ BundleExpires /\ NewestListed
        /\ Len(newest) <= TrimStop + 1
        /\ Len(bundle) \in Nat /\ untrimmed \in Nat /\ Len(newest) \in Nat
        /\ at[r] \in Steps
        /\ at \in [Adder -> Steps]
    BY LenProperties DEF BundleInv, BundleTypeOK
  <1>1. ASSUME NEW t \in SignedTx, LRange(r, t)
        PROVE  BundleInv'
    <2>1. at[r] = "idle" /\ at' = [at EXCEPT ![r] = "lpush"]
      BY <1>1 DEF LRange
    <2>2. Cardinality(Trimming') = Cardinality(Trimming)
      BY <1>0, <2>1, TrimmingCount, Zenon DEF Trimming
    <2>3. BundleExpires'
      BY <1>0, <1>1, <2>1 DEF BundleExpires, LRange
    <2>. QED
      BY <1>0, <1>1, <2>2, <2>3 DEF BundleInv, BundleBounded, NewestListed, LRange
  <1>2. CASE LPush(r)
    <2>1. at[r] = "lpush" /\ at' = [at EXCEPT ![r] = "expire"]
      BY <1>2 DEF LPush
    <2>2. /\ Cardinality(Trimming') = Cardinality(Trimming) + 1
          /\ Cardinality(Trimming) \in Nat
      BY <1>0, <2>1, TrimmingCount, Zenon DEF Trimming
    <2>3. Len(bundle') = Len(bundle) + 1
      BY <1>0, <1>2, PushedFirst DEF LPush, BundleTypeOK
    <2>4. NewestListed' /\ Len(newest') <= TrimStop + 1
      BY <1>0, <1>2, PushKeepsNewest, Zenon DEF LPush, BundleTypeOK
    <2>5. at'[r] = "expire"
      BY <1>0, <2>1
    <2>6. BundleBounded'
      BY <1>0, <1>2, <2>2, <2>3 DEF BundleBounded, LPush
    <2>. QED
      BY <2>4, <2>5, <2>6 DEF BundleInv, BundleExpires
  <1>3. CASE LPushUnanswered(r)
    <2>1. PICK next \in {"lpush", "idle"} :
              at[r] = "lpush" /\ at' = [at EXCEPT ![r] = next]
      BY <1>3, Zenon DEF LPushUnanswered
    <2>2. /\ Cardinality(Trimming') = Cardinality(Trimming)
          /\ Cardinality(Trimming) \in Nat
      BY <1>0, <2>1, TrimmingCount, Zenon DEF Trimming
    <2>3. Len(bundle') = Len(bundle) + 1
      BY <1>0, <1>3, PushedFirst DEF LPushUnanswered, BundleTypeOK
    <2>4. NewestListed' /\ Len(newest') <= TrimStop + 1
      BY <1>0, <1>3, PushKeepsNewest, Zenon DEF LPushUnanswered, BundleTypeOK
    <2>5. BundleBounded'
      BY <1>0, <1>3, <2>2, <2>3 DEF BundleBounded, LPushUnanswered
    <2>. QED
      BY <1>3, <2>4, <2>5 DEF BundleInv, BundleExpires, LPushUnanswered
  <1>4. CASE LPushFails(r)
    <2>1. at[r] = "lpush" /\ at' = [at EXCEPT ![r] = "idle"]
      BY <1>4 DEF LPushFails
    <2>2. Cardinality(Trimming') = Cardinality(Trimming)
      BY <1>0, <2>1, TrimmingCount, Zenon DEF Trimming
    <2>3. BundleExpires'
      BY <1>0, <1>4, <2>1 DEF BundleExpires, LPushFails
    <2>. QED
      BY <1>0, <1>4, <2>2, <2>3 DEF BundleInv, BundleBounded, NewestListed, LPushFails
  <1>5. CASE Expire(r)
    <2>1. at[r] = "expire" /\ at' = [at EXCEPT ![r] = "ltrim"]
      BY <1>5 DEF Expire
    <2>2. Cardinality(Trimming') = Cardinality(Trimming)
      BY <1>0, <2>1, TrimmingCount, Zenon DEF Trimming
    <2>3. BundleExpires'
      BY <1>5 DEF BundleExpires, Expire
    <2>. QED
      BY <1>0, <1>5, <2>2, <2>3 DEF BundleInv, BundleBounded, NewestListed, Expire
  <1>6. CASE ExpireFails(r)
    <2>1. at[r] = "expire" /\ at' = [at EXCEPT ![r] = "idle"]
      BY <1>6 DEF ExpireFails
    <2>2. /\ Cardinality(Trimming') = Cardinality(Trimming) - 1
          /\ Cardinality(Trimming) \in Nat
      BY <1>0, <2>1, TrimmingCount, Zenon DEF Trimming
    <2>3. BundleBounded'
      BY <1>0, <1>6, <2>2 DEF BundleBounded, ExpireFails
    <2>. QED
      BY <1>0, <1>6, <2>3 DEF BundleInv, BundleExpires, NewestListed, ExpireFails
  <1>7. CASE LTrim(r) \/ LTrimUnanswered(r)
    <2>1. /\ at[r] = "ltrim"
          /\ at' = [at EXCEPT ![r] = "idle"] \/ at' = [at EXCEPT ![r] = "ltrim"]
          /\ bundle' = Head0To(TrimStop, bundle) /\ untrimmed' = 0
          /\ UNCHANGED <<ttl, unexpiring, newest>>
      BY <1>7, Zenon DEF LTrim, LTrimUnanswered
    <2>2. Cardinality(Trimming') \in Nat
      BY <1>0, <2>1, TrimmingCount, Zenon
    <2>3. /\ Len(bundle') = IF Len(bundle) > TrimStop + 1 THEN TrimStop + 1 ELSE Len(bundle)
          /\ \A i \in 1..Len(bundle') : bundle'[i] = bundle[i]
      BY <1>0, <2>1, HeadKept DEF BundleTypeOK
    <2>4. BundleBounded'
      BY <1>0, <2>1, <2>2, <2>3 DEF BundleBounded
    <2>5. NewestListed'
      <3>1. DOMAIN newest = 1..Len(newest) /\ newest' = newest
        BY <1>0, <2>1, LenProperties DEF BundleTypeOK
      <3>2. Len(newest) <= Len(bundle')
        BY <1>0, <2>3 DEF NewestListed
      <3>3. \A i \in 1..Len(newest) : bundle'[i] = newest[i]
        BY <1>0, <2>3, <3>1, <3>2 DEF NewestListed
      <3>. QED
        BY <3>1, <3>2, <3>3 DEF NewestListed
    <2>6. BundleExpires'
      <3>1. bundle' # <<>> => bundle # <<>>
        BY <1>0, <2>3 DEF BundleTypeOK
      <3>. QED
        BY <1>0, <2>1, <3>1 DEF BundleExpires
    <2>. QED
      BY <1>0, <2>1, <2>4, <2>5, <2>6 DEF BundleInv
  <1>8. CASE LTrimFails(r)
    <2>1. at[r] = "ltrim" /\ at' = [at EXCEPT ![r] = "idle"]
      BY <1>8 DEF LTrimFails
    <2>2. /\ Cardinality(Trimming') = Cardinality(Trimming) - 1
          /\ Cardinality(Trimming) \in Nat
      BY <1>0, <2>1, TrimmingCount, Zenon DEF Trimming
    <2>3. BundleBounded'
      BY <1>0, <1>8, <2>2 DEF BundleBounded, LTrimFails
    <2>4. BundleExpires'
      BY <1>0, <1>8, <2>1 DEF BundleExpires, LTrimFails
    <2>. QED
      BY <1>0, <1>8, <2>3, <2>4 DEF BundleInv, NewestListed, LTrimFails
  <1>9. CASE ExpireUnanswered(r)
    <2>1. /\ at[r] = "expire" /\ ttl' = IF bundle = <<>> THEN 0 ELSE BundleTTL
          /\ UNCHANGED <<bundle, newest>>
          /\ \/ at' = [at EXCEPT ![r] = "expire"] /\ untrimmed' = untrimmed
             \/ at' = [at EXCEPT ![r] = "idle"] /\ untrimmed' = untrimmed + 1
      BY <1>9, Zenon DEF ExpireUnanswered
    <2>2. BundleExpires'
      BY <2>1 DEF BundleExpires
    <2>3. CASE at' = [at EXCEPT ![r] = "expire"] /\ untrimmed' = untrimmed
      <3>1. at' = at
        BY <1>0, <2>1, <2>3
      <3>. QED
        BY <1>0, <2>1, <2>2, <2>3, <3>1 DEF BundleInv, BundleBounded, NewestListed, Trimming
    <2>4. CASE at' = [at EXCEPT ![r] = "idle"] /\ untrimmed' = untrimmed + 1
      <3>1. /\ Cardinality(Trimming') = Cardinality(Trimming) - 1
            /\ Cardinality(Trimming) \in Nat
        BY <1>0, <2>1, <2>4, TrimmingCount, Zenon DEF Trimming
      <3>2. BundleBounded'
        BY <1>0, <2>1, <2>4, <3>1 DEF BundleBounded
      <3>. QED
        BY <1>0, <2>1, <2>2, <3>2 DEF BundleInv, NewestListed
    <2>. QED
      BY <2>1, <2>3, <2>4, Zenon
  <1>. QED
    BY <1>1, <1>2, <1>3, <1>4, <1>5, <1>6, <1>7, <1>8, <1>9
    DEF AddTxToWhitehatBundle

\* BundleInv holds throughout, whatever wallets, DELETE and expiry do.
THEOREM BundleInvariant == BundleSpec => []BundleInv
  <1>. USE BundleAssumption
  <1>1. BundleInit => BundleInv
    <2>. SUFFICES ASSUME BundleInit PROVE BundleInv
      OBVIOUS
    <2>1. BundleTypeOK
      <3>1. bundle \in Seq(SignedTx) /\ newest \in Seq(SignedTx)
        BY EmptySeq DEF BundleInit
      <3>2. /\ ttl \in 0..BundleTTL /\ faults \in 0..MaxFaults /\ untrimmed \in Nat
            /\ at \in [Adder -> Steps]
        BY DEF BundleInit, Steps
      <3>3. unexpiring \in BOOLEAN
        BY Zenon DEF BundleInit
      <3>. QED
        BY <3>1, <3>2, <3>3 DEF BundleInit, BundleTypeOK
    <2>2. Trimming = {}
      BY DEF BundleInit, Trimming
    <2>3. BundleBounded
      BY <2>2, FS_EmptySet DEF BundleInit, BundleBounded
    <2>. QED
      BY <2>1, <2>3 DEF BundleInit, BundleInv, BundleExpires, NewestListed
  <1>2. BundleInv /\ [BundleNext]_bundleVars => BundleInv'
    <2>. SUFFICES ASSUME BundleInv, [BundleNext]_bundleVars
                  PROVE  BundleInv'
      OBVIOUS
    <2>0. BundleTypeOK'
      BY BundleTypes DEF BundleInv
    <2>1. ASSUME NEW r \in Adder, AddTxToWhitehatBundle(r)
          PROVE  BundleInv'
      BY <2>0, <2>1, AddKeepsInv
    <2>2. CASE Gone
      <3>1. Cardinality(Trimming') \in Nat
        BY FS_Subset, FS_CardinalityType DEF Trimming
      <3>. QED
        BY <2>0, <2>2, <3>1 DEF BundleInv, Gone, BundleBounded, BundleExpires, NewestListed
    <2>3. CASE BundleTick
      <3>1. CASE ttl = 1 /\ Gone
        BY <2>2, <3>1
      <3>2. CASE ttl > 1 /\ ttl' = ttl - 1
                 /\ UNCHANGED <<bundle, at, signedTx, faults, untrimmed, unexpiring, newest>>
        <4>1. ttl' # 0
          BY <3>2 DEF BundleInv, BundleTypeOK
        <4>2. Trimming' = Trimming
          BY <3>2 DEF Trimming
        <4>. QED
          BY <2>0, <3>2, <4>1, <4>2 DEF BundleInv, BundleBounded, BundleExpires, NewestListed
      <3>. QED
        BY <2>3, <3>1, <3>2 DEF BundleTick
    <2>4. CASE UNCHANGED bundleVars
      BY <2>0, <2>4 DEF BundleInv, bundleVars, BundleBounded, BundleExpires,
                        NewestListed, Trimming
    <2>. QED
      BY <2>1, <2>2, <2>3, <2>4 DEF BundleNext, DelWhitehatBundleTx
  <1>. QED
    BY <1>1, <1>2, PTL DEF BundleSpec

\* The list of a bundle stays bounded under any number of racing and failing
\* adds, by TrimStop + 1 entries and those still to be trimmed.
THEOREM BundleStaysBounded == BundleSpec => []BundleBounded
  BY BundleInvariant, PTL DEF BundleInv

\* No interleaving leaves a list that never expires, unless an add failed
\* between LPUSH and EXPIRE.
THEOREM BundleAlwaysExpires == BundleSpec => []BundleExpires
  BY BundleInvariant, PTL DEF BundleInv

\* The newest pushes are always the head of the list.
THEOREM NewestAlwaysListed == BundleSpec => []NewestListed
  BY BundleInvariant, PTL DEF BundleInv

-----------------------------------------------------------------------------
\* The adds that have searched the list for t, or failed to, and will push it.
Pushing(t) == {r \in Adder : at[r] = "lpush" /\ signedTx[r] = t}

\* CopiesBounded is not inductive: it forgets the adds that no longer look
\* before they push.  Each push turns one of them into a copy.
CopiesInv ==
    \A t \in SignedTx :
        Cardinality(Copies(t, bundle)) + Cardinality(Pushing(t))
            <= Cardinality(Adder) + faults

\* The copies on a list can be counted.
LEMMA CopiesFinite ==
    ASSUME NEW s \in Seq(SignedTx), NEW t
    PROVE  /\ IsFiniteSet(Copies(t, s))
           /\ Cardinality(Copies(t, s)) \in Nat
  <1>1. DOMAIN s = 1..Len(s) /\ Len(s) \in Nat
    BY LenProperties
  <1>2. IsFiniteSet(DOMAIN s)
    BY <1>1, FS_Interval
  <1>. QED
    BY <1>2, FS_Subset, FS_CardinalityType DEF Copies

\* LPUSH adds one copy of what is pushed and none of anything else.
LEMMA CopiesPushed ==
    ASSUME NEW s \in Seq(SignedTx), NEW u \in SignedTx, NEW t \in SignedTx
    PROVE  Cardinality(Copies(t, <<u>> \o s))
               <= Cardinality(Copies(t, s)) + (IF t = u THEN 1 ELSE 0)
  <1>. DEFINE S == Copies(t, s)
              shift == [i \in S |-> i + 1]
              T == {shift[i] : i \in S}
              grown == <<u>> \o s
  <1>1. /\ grown \in Seq(SignedTx) /\ Len(grown) = Len(s) + 1 /\ grown[1] = u
        /\ \A i \in 1..Len(s) : grown[i + 1] = s[i]
    BY PushedFirst
  <1>2. /\ DOMAIN grown = 1..Len(grown) /\ DOMAIN s = 1..Len(s) /\ Len(s) \in Nat
    BY <1>1, LenProperties
  <1>3. IsFiniteSet(S) /\ Cardinality(S) \in Nat
    BY CopiesFinite
  <1>4. IsFiniteSet(T) /\ Cardinality(T) <= Cardinality(S) /\ Cardinality(T) \in Nat
    <2>1. shift \in Surjection(S, T)
      BY DEF Surjection
    <2>. HIDE DEF S, T, shift
    <2>. QED
      BY <1>3, <2>1, FS_Surjection, FS_CardinalityType
  <1>. HIDE DEF grown
  <1>5. ASSUME NEW j \in Copies(t, grown), j # 1 PROVE j \in T
    <2>. DEFINE i == j - 1
    <2>1. i \in 1..Len(s) /\ j = i + 1
      BY <1>1, <1>2, <1>5 DEF Copies
    <2>2. s[i] = t
      BY <1>1, <1>5, <2>1 DEF Copies
    <2>3. i \in S
      BY <1>2, <2>1, <2>2 DEF Copies
    <2>. QED
      BY <2>1, <2>3
  <1>6. CASE t # u
    <2>1. 1 \notin Copies(t, grown)
      BY <1>1, <1>6 DEF Copies
    <2>2. Copies(t, grown) \in SUBSET T
      BY <1>5, <2>1
    <2>3. Cardinality(Copies(t, grown)) <= Cardinality(T)
          /\ Cardinality(Copies(t, grown)) \in Nat
      BY <1>4, <2>2, FS_Subset, FS_CardinalityType
    <2>. HIDE DEF S, T
    <2>. QED
      BY <1>3, <1>4, <1>6, <2>3 DEF S, grown
  <1>7. CASE t = u
    <2>1. Copies(t, grown) \in SUBSET (T \cup {1})
      BY <1>5
    <2>. HIDE DEF S, T
    <2>2. /\ IsFiniteSet(T \cup {1})
          /\ Cardinality(T \cup {1}) <= Cardinality(T) + 1
          /\ Cardinality(T \cup {1}) \in Nat
      <3>1. /\ IsFiniteSet(T \cup {1})
            /\ Cardinality(T \cup {1}) \in {Cardinality(T), Cardinality(T) + 1}
        BY <1>4, FS_AddElement, Zenon
      <3>. QED
        BY <1>4, <3>1
    <2>3. Cardinality(Copies(t, grown)) <= Cardinality(T \cup {1})
          /\ Cardinality(Copies(t, grown)) \in Nat
      BY <2>1, <2>2, FS_Subset, FS_CardinalityType
    <2>. QED
      BY <1>3, <1>4, <1>7, <2>2, <2>3 DEF S, grown
  <1>. QED
    BY <1>6, <1>7

\* LTRIM makes no copies.
LEMMA CopiesTrimmed ==
    ASSUME NEW s \in Seq(SignedTx), NEW n \in Nat, NEW t
    PROVE  Cardinality(Copies(t, Head0To(n, s))) <= Cardinality(Copies(t, s))
  <1>1. /\ Head0To(n, s) \in Seq(SignedTx) /\ Len(Head0To(n, s)) <= Len(s)
        /\ \A i \in 1..Len(Head0To(n, s)) : Head0To(n, s)[i] = s[i]
    BY HeadKept, LenProperties
  <1>2. /\ DOMAIN s = 1..Len(s) /\ Len(s) \in Nat
        /\ DOMAIN Head0To(n, s) = 1..Len(Head0To(n, s)) /\ Len(Head0To(n, s)) \in Nat
    BY <1>1, LenProperties
  <1>3. Copies(t, Head0To(n, s)) \in SUBSET Copies(t, s)
    BY <1>1, <1>2 DEF Copies
  <1>. QED
    BY <1>3, CopiesFinite, FS_Subset

\* The adds about to push t, as one of them arrives or leaves.
LEMMA PushingCount ==
    ASSUME NEW t
    PROVE  /\ IsFiniteSet(Pushing(t)) /\ Cardinality(Pushing(t)) \in Nat
           /\ Cardinality(Pushing(t)') \in Nat
           /\ Cardinality(Adder) \in Nat
           /\ Cardinality(Pushing(t)') <= Cardinality(Adder)
           /\ Pushing(t)' \subseteq Pushing(t) =>
                  Cardinality(Pushing(t)') <= Cardinality(Pushing(t))
           /\ \A r : Pushing(t)' \subseteq Pushing(t) \cup {r} =>
                  Cardinality(Pushing(t)') <= Cardinality(Pushing(t)) + 1
           /\ \A r \in Pushing(t) : Pushing(t)' \subseteq Pushing(t) \ {r} =>
                  Cardinality(Pushing(t)') <= Cardinality(Pushing(t)) - 1
  <1>1. Pushing(t) \in SUBSET Adder /\ Pushing(t)' \in SUBSET Adder
    BY DEF Pushing
  <1>2. /\ IsFiniteSet(Pushing(t)) /\ Cardinality(Pushing(t)) \in Nat
        /\ Cardinality(Pushing(t)') \in Nat /\ Cardinality(Adder) \in Nat
        /\ Cardinality(Pushing(t)') <= Cardinality(Adder)
    BY <1>1, BundleAssumption, FS_Subset, FS_CardinalityType
  <1>3. ASSUME NEW P, IsFiniteSet(P), Pushing(t)' \subseteq P
        PROVE  Cardinality(Pushing(t)') <= Cardinality(P)
    BY <1>3, FS_Subset
  <1>4. ASSUME NEW r
        PROVE  /\ IsFiniteSet(Pushing(t) \cup {r})
               /\ Cardinality(Pushing(t) \cup {r})
                     \in {Cardinality(Pushing(t)), Cardinality(Pushing(t)) + 1}
    BY <1>2, FS_AddElement, Zenon
  <1>5. ASSUME NEW r \in Pushing(t)
        PROVE  /\ IsFiniteSet(Pushing(t) \ {r})
               /\ Cardinality(Pushing(t) \ {r}) = Cardinality(Pushing(t)) - 1
    BY <1>2, <1>5, FS_RemoveElement, Zenon
  <1>6. ASSUME NEW r, Pushing(t)' \subseteq Pushing(t) \cup {r}
        PROVE  Cardinality(Pushing(t)') <= Cardinality(Pushing(t)) + 1
    <2>1. Cardinality(Pushing(t)') <= Cardinality(Pushing(t) \cup {r})
      BY <1>3, <1>4, <1>6, Zenon
    <2>2. Cardinality(Pushing(t) \cup {r})
              \in {Cardinality(Pushing(t)), Cardinality(Pushing(t)) + 1}
      BY <1>4, Zenon
    <2>3. ASSUME NEW c \in Nat, NEW p \in Nat, NEW k \in {p, p + 1}, c <= k
          PROVE  c <= p + 1
      BY <2>3
    <2>. QED
      BY <1>2, <2>1, <2>2, <2>3, Zenon
  <1>7. ASSUME NEW r \in Pushing(t), Pushing(t)' \subseteq Pushing(t) \ {r}
        PROVE  Cardinality(Pushing(t)') <= Cardinality(Pushing(t)) - 1
    <2>1. Cardinality(Pushing(t)') <= Cardinality(Pushing(t) \ {r})
      BY <1>3, <1>5, <1>7, Zenon
    <2>. QED
      BY <1>5, <2>1
  <1>. QED
    BY <1>2, <1>3, <1>6, <1>7, Zenon

\* A step of an add leaves the copies and the pushes to come accounted for.
LEMMA AddKeepsCopies ==
    ASSUME BundleTypeOK, CopiesInv, NEW r \in Adder, AddTxToWhitehatBundle(r),
           NEW t \in SignedTx
    PROVE  Cardinality(Copies(t, bundle')) + Cardinality(Pushing(t)')
               <= Cardinality(Adder) + faults'
  <1>. DEFINE c == Cardinality(Copies(t, bundle))
              p == Cardinality(Pushing(t))
              N == Cardinality(Adder)
  <1>0. /\ bundle \in Seq(SignedTx) /\ at \in [Adder -> Steps]
        /\ signedTx \in [Adder -> SignedTx] /\ faults \in Nat /\ TrimStop \in Nat
    BY BundleAssumption DEF BundleTypeOK
  <1>1. /\ c \in Nat /\ p \in Nat /\ N \in Nat /\ Cardinality(Pushing(t)') \in Nat
        /\ c + p <= N + faults
    BY <1>0, CopiesFinite, PushingCount DEF CopiesInv
  <1>2. ASSUME NEW u \in SignedTx, LRange(r, u)
        PROVE  Cardinality(Copies(t, bundle')) + Cardinality(Pushing(t)') <= N + faults'
    <2>1. bundle' = bundle
      BY <1>2 DEF LRange
    <2>2. Pushing(t)' \subseteq Pushing(t) \cup {r}
      BY <1>0, <1>2 DEF LRange, Step, Pushing
    <2>3. CASE t # u
      <3>1. Pushing(t)' \subseteq Pushing(t)
        BY <1>0, <1>2, <2>3 DEF LRange, Step, Pushing
      <3>2. Cardinality(Pushing(t)') <= p
        BY <3>1, PushingCount, Zenon
      <3>3. faults' \in Nat /\ faults <= faults'
        BY <1>0, <1>2 DEF LRange, Fault
      <3>. QED
        BY <1>0, <1>1, <2>1, <3>2, <3>3
    <2>4. CASE t = u /\ ~Listed(u) /\ faults' = faults
      <3>1. Copies(t, bundle) = {}
        BY <2>4 DEF Listed, Copies
      <3>2. c = 0
        BY <3>1, FS_EmptySet, Zenon
      <3>3. Cardinality(Pushing(t)') <= N
        BY PushingCount, Zenon
      <3>. QED
        BY <1>0, <1>1, <2>1, <2>4, <3>2, <3>3
    <2>5. CASE Fault
      <3>1. Cardinality(Pushing(t)') <= p + 1
        BY <2>2, PushingCount, Zenon
      <3>. QED
        BY <1>0, <1>1, <2>1, <2>5, <3>1 DEF Fault
    <2>. QED
      BY <1>2, <2>3, <2>4, <2>5 DEF LRange
  <1>3. ASSUME at[r] = "lpush", bundle' = <<signedTx[r]>> \o bundle, signedTx' = signedTx,
               \/ at' = [at EXCEPT ![r] = "expire"] /\ faults' = faults
               \/ Fault /\ \E next \in {"lpush", "idle"} : at' = [at EXCEPT ![r] = next]
        PROVE  Cardinality(Copies(t, bundle')) + Cardinality(Pushing(t)') <= N + faults'
    <2>. DEFINE d == Cardinality(Copies(t, bundle'))
    <2>1. /\ bundle' \in Seq(SignedTx)
          /\ d <= c + (IF t = signedTx[r] THEN 1 ELSE 0)
      BY <1>0, <1>3, PushedFirst, CopiesPushed
    <2>2. d \in Nat
      BY <2>1, CopiesFinite
    <2>3. Pushing(t)' \subseteq Pushing(t)
      BY <1>0, <1>3 DEF Pushing
    <2>4. Cardinality(Pushing(t)') <= p
      BY <2>3, PushingCount, Zenon
    <2>5. CASE Fault
      BY <1>0, <1>1, <2>1, <2>2, <2>4, <2>5 DEF Fault
    <2>6. CASE at' = [at EXCEPT ![r] = "expire"] /\ faults' = faults
      <3>1. CASE t = signedTx[r]
        <4>1. r \in Pushing(t) /\ Pushing(t)' \subseteq Pushing(t) \ {r}
          BY <1>0, <1>3, <2>6, <3>1 DEF Pushing
        <4>2. Cardinality(Pushing(t)') <= p - 1
          BY <4>1, PushingCount, Zenon
        <4>. QED
          BY <1>0, <1>1, <2>1, <2>2, <2>6, <3>1, <4>2
      <3>2. CASE t # signedTx[r]
        BY <1>0, <1>1, <2>1, <2>2, <2>4, <2>6, <3>2
      <3>. QED
        BY <3>1, <3>2
    <2>. QED
      BY <1>3, <2>5, <2>6
  <1>4. ASSUME bundle' \in {bundle, Head0To(TrimStop, bundle)}, signedTx' = signedTx,
               faults' = faults \/ Fault,
               \E next \in Steps \ {"lpush"} : at' = [at EXCEPT ![r] = next]
        PROVE  Cardinality(Copies(t, bundle')) + Cardinality(Pushing(t)') <= N + faults'
    <2>. DEFINE d == Cardinality(Copies(t, bundle'))
    <2>1. bundle' \in Seq(SignedTx) /\ d <= c
      <3>1. CASE bundle' = bundle
        BY <1>0, <1>1, <3>1
      <3>2. CASE bundle' = Head0To(TrimStop, bundle)
        BY <1>0, <3>2, HeadKept, CopiesTrimmed, Zenon
      <3>. QED
        BY <1>4, <3>1, <3>2
    <2>2. d \in Nat
      BY <2>1, CopiesFinite
    <2>3. Pushing(t)' \subseteq Pushing(t)
      BY <1>0, <1>4 DEF Pushing, Steps
    <2>4. Cardinality(Pushing(t)') <= p
      BY <2>3, PushingCount, Zenon
    <2>5. faults' \in Nat /\ faults <= faults'
      BY <1>0, <1>4 DEF Fault
    <2>. QED
      BY <1>0, <1>1, <2>1, <2>2, <2>4, <2>5
  <1>5. CASE LPush(r) \/ LPushUnanswered(r)
    BY <1>3, <1>5 DEF LPush, LPushUnanswered, Step
  <1>6. CASE LPushFails(r) \/ ExpireFails(r) \/ LTrimFails(r)
    BY <1>4, <1>6 DEF LPushFails, ExpireFails, LTrimFails, Step, Steps
  <1>7. CASE Expire(r) \/ LTrim(r)
    BY <1>4, <1>7 DEF Expire, LTrim, Step, Steps
  <1>8. CASE ExpireUnanswered(r) \/ LTrimUnanswered(r)
    BY <1>4, <1>8 DEF ExpireUnanswered, LTrimUnanswered, Step, Steps
  <1>. QED
    BY <1>2, <1>5, <1>6, <1>7, <1>8 DEF AddTxToWhitehatBundle

\* Also in a list that wallets, DELETE, expiry and lost replies work on at the
\* same time, AddTxToWhitehatBundle repeats a transaction at most once per
\* wallet and fault.
THEOREM CopiesStayBounded == BundleSpec => []CopiesBounded
  <1>1. BundleInit => CopiesInv
    <2>. SUFFICES ASSUME BundleInit, NEW t \in SignedTx
                  PROVE  Cardinality(Copies(t, bundle)) + Cardinality(Pushing(t))
                             <= Cardinality(Adder) + faults
      BY DEF CopiesInv
    <2>1. Copies(t, bundle) = {} /\ Pushing(t) = {}
      BY DEF BundleInit, Copies, Pushing
    <2>2. Cardinality(Adder) \in Nat
      BY BundleAssumption, FS_CardinalityType
    <2>3. Cardinality(Copies(t, bundle)) = 0 /\ Cardinality(Pushing(t)) = 0
      BY <2>1, FS_EmptySet, Zenon
    <2>. QED
      BY <2>2, <2>3 DEF BundleInit
  <1>2. BundleTypeOK /\ CopiesInv /\ [BundleNext]_bundleVars => CopiesInv'
    <2>. SUFFICES ASSUME BundleTypeOK, CopiesInv, [BundleNext]_bundleVars
                  PROVE  CopiesInv'
      OBVIOUS
    <2>1. ASSUME NEW r \in Adder, AddTxToWhitehatBundle(r) PROVE CopiesInv'
      BY <2>1, AddKeepsCopies DEF CopiesInv
    <2>2. CASE Gone
      <3>. SUFFICES ASSUME NEW t \in SignedTx
                    PROVE  Cardinality(Copies(t, bundle')) + Cardinality(Pushing(t)')
                               <= Cardinality(Adder) + faults'
        BY DEF CopiesInv
      <3>1. Copies(t, bundle') = {}
        BY <2>2 DEF Gone, Copies
      <3>2. /\ Cardinality(Pushing(t)') \in Nat /\ Cardinality(Adder) \in Nat
            /\ Cardinality(Pushing(t)') <= Cardinality(Adder)
        BY PushingCount, Zenon
      <3>3. Cardinality(Copies(t, bundle')) = 0
        BY <3>1, FS_EmptySet, Zenon
      <3>4. faults' \in Nat
        BY <2>2 DEF Gone, BundleTypeOK
      <3>. QED
        BY <3>2, <3>3, <3>4
    <2>3. CASE UNCHANGED <<bundle, at, signedTx, faults>>
      BY <2>3 DEF CopiesInv, Pushing
    <2>. QED
      BY <2>1, <2>2, <2>3 DEF BundleNext, DelWhitehatBundleTx, BundleTick, bundleVars
  <1>3. BundleTypeOK /\ CopiesInv => CopiesBounded
    <2>. SUFFICES ASSUME BundleTypeOK, CopiesInv, NEW t \in SignedTx
                  PROVE  Cardinality(Copies(t, bundle)) <= Cardinality(Adder) + faults
      BY DEF CopiesBounded
    <2>1. /\ Cardinality(Copies(t, bundle)) \in Nat /\ Cardinality(Pushing(t)) \in Nat
          /\ Cardinality(Adder) \in Nat /\ faults \in Nat
      BY CopiesFinite, PushingCount DEF BundleTypeOK
    <2>. QED
      BY <2>1 DEF CopiesInv
  <1>4. BundleSpec => []BundleTypeOK
    BY BundleInvariant, PTL DEF BundleInv
  <1>. QED
    BY <1>1, <1>2, <1>3, <1>4, PTL DEF BundleSpec
=============================================================================
