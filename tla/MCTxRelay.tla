----------------------------- MODULE MCTxRelay ------------------------------
(***************************************************************************)
(* TxRelay on small instances.  Transactions are model values; what each   *)
(* one is follows from the set it belongs to.                              *)
(***************************************************************************)
EXTENDS RelayForwards, TLC

CONSTANTS a, b,                     \* accounts
          a1, a2, c1, z0, big, b0, high, blk

MCTxFrom == [t \in Tx |-> IF t = b0 THEN b ELSE a]
MCTxNonce == [t \in Tx |-> CASE t \in {z0, b0, blk} -> 0
                             [] t \in {a1, c1, big} -> 1
                             [] t = a2 -> 2
                             [] OTHER -> NonceLimit]

Plain == [method |-> "eth_sendRawTransaction", bundle |-> FALSE,
          useMempool |-> FALSE, blockRange |-> 0, maxBlock |-> FALSE]

OnlyPlain == {Plain}

\* useMempool only concerns cancellations and blockRange only submissions, so
\* one record can have both.
EveryOption == {[Plain EXCEPT !.useMempool = TRUE, !.blockRange = 2],
                [Plain EXCEPT !.method = "eth_sendPrivateTransaction",
                              !.blockRange = 2, !.maxBlock = TRUE],
                [Plain EXCEPT !.bundle = TRUE]}

\* Everything the handlers of TxRelay read, and what its properties mention:
\* the sender and nonce of a hash are only written here.
Observed == <<now, txSentToRelay, txHashForSenderAndNonce, senderMaxNonce,
              request, control, locals, setMax, services, history>>

Permute == Permutations(Req)
=============================================================================
