----------------------------- MODULE MCEndpoint ------------------------------
(***************************************************************************)
(* Endpoint on small instances.                                            *)
(***************************************************************************)
EXTENDS Endpoint, TLC

CONSTANTS a, a0, a1, a2

MCTxFrom == [t \in Tx |-> a]
MCTxNonce == [t \in Tx |-> CASE t = a0 -> 0 [] t = a1 -> 1 [] OTHER -> 2]

Plain == {[method |-> "eth_sendRawTransaction", bundle |-> FALSE,
           useMempool |-> FALSE, blockRange |-> 0, maxBlock |-> FALSE]}

\* What some guard reads or a property of the run mentions.  While calls overlap,
\* wrongNonces says nothing, and when they no longer do it starts from 0.
Observed == <<now, redis, request, pc, locals, setMax, mined, skippedRange,
              call, raced, suggested, overlapped,
              [x \in Account \ overlapped |-> wrongNonces[x]]>>

Permute == Permutations(Req) \cup Permutations(Client)
=============================================================================
