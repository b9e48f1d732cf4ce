-------------------------- MODULE MCWhitehatBundle --------------------------
(***************************************************************************)
(* WhitehatBundle on small instances.  Wallets are interchangeable, and so *)
(* are transactions.                                                       *)
(***************************************************************************)
EXTENDS WhitehatBundle, TLC

Permute == Permutations(Adder) \cup Permutations(SignedTx)

\* For the limit the length of the list matters, not which transactions it holds.
Sizes == <<Len(bundle), Len(newest), ttl, at, faults, untrimmed, unexpiring>>
=============================================================================
