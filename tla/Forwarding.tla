----------------------------- MODULE Forwarding ------------------------------
(***************************************************************************)
(* What the endpoint promises about private transactions, without Redis,   *)
(* clocks, retries or the order of the handlers' calls: which requests may *)
(* be answered with success, which transactions may reach the relay, the   *)
(* mempool or a bundle, and when.  TxRelay implements this specification   *)
(* (module RelayForwards).                                                 *)
(*                                                                         *)
(* A request is claimed once it has recorded its transaction as sent, and  *)
(* admitted once its nonce has been accepted.                              *)
(***************************************************************************)
EXTENDS Naturals

CONSTANTS
    Req, Account, Tx, TxFrom, TxNonce,  \* as in TxRelay
    Vetted,                             \* transactions the relay may receive
    Cancels                             \* transactions that can cancel another one

VARIABLES
    tx,             \* the transactions of the requests, if they decode
    debug,          \* nothing is to leave the endpoint
    answer,         \* "none", "result", "error" or "panic"
    claimed, admitted,
    unchecked,      \* admitted without a check of the nonce
    mined,          \* transactions mined, by account
    relayed, cancelled, published, bundled  \* what the others received

outside == <<mined, relayed, cancelled, published, bundled>>
checks == <<claimed, admitted, unchecked>>
promised == <<tx, debug, answer, checks, outside>>

ForwardingInit ==
    /\ answer = [r \in Req |-> "none"]
    /\ mined = [a \in Account |-> 0]
    /\ claimed = {} /\ admitted = {} /\ unchecked = {}
    /\ relayed = {} /\ cancelled = {} /\ published = {} /\ bundled = {}

From(r) == TxFrom[tx[r]]
NonceOf(r) == TxNonce[tx[r]]
Pending(r) == answer[r] = "none"
Answer(r, a) == answer' = [answer EXCEPT ![r] = a]

\* The request ends with an error, or with a panic.
Decline(r) ==
    /\ Pending(r)
    /\ Answer(r, "error") \/ Answer(r, "panic")
    /\ UNCHANGED <<tx, debug, checks, outside>>

Claim(r) ==
    /\ Pending(r) /\ r \notin claimed
    /\ claimed' = claimed \cup {r}
    /\ UNCHANGED <<tx, debug, answer, admitted, unchecked, outside>>

\* The nonce is at most one above the count of the chain or above the nonce of
\* another admitted request of the sender.
Follows(r) ==
    \/ NonceOf(r) <= mined[From(r)] + 1
    \/ \E q \in admitted : From(q) = From(r) /\ NonceOf(r) <= NonceOf(q) + 1

\* An admitted request can still be refused for its size.
Admit(r) ==
    /\ Pending(r) /\ tx[r] \in Tx /\ r \notin admitted \cup published
    /\ \/ Follows(r) /\ UNCHANGED unchecked
       \/ unchecked' = unchecked \cup {r}
    /\ admitted' = admitted \cup {r}
    /\ UNCHANGED answer \/ Answer(r, "error")
    /\ UNCHANGED <<tx, debug, claimed, outside>>

\* The relay accepts the transaction; its answer may be lost.
Forward(r) ==
    /\ Pending(r) /\ ~debug
    /\ r \in admitted /\ tx[r] \in Vetted
    /\ relayed' = relayed \cup {r}
    /\ Answer(r, "result") \/ Answer(r, "error")
    /\ UNCHANGED <<tx, debug, checks, mined, cancelled, published, bundled>>

\* r replaces a transaction with its sender and nonce, which was recorded as
\* sent and whose nonce was accepted.
Replaces(r) ==
    \E q \in admitted, s \in claimed :
        tx[q] = tx[s] /\ From(q) = From(r) /\ NonceOf(q) = NonceOf(r)

\* The cancel-transaction goes to the public mempool; the answer may be lost.
Publish(r) ==
    /\ Pending(r) /\ ~debug
    /\ r \notin admitted /\ tx[r] \in Cancels /\ Replaces(r)
    /\ published' = published \cup {r}
    /\ UNCHANGED answer \/ Answer(r, "error")
    /\ UNCHANGED <<tx, debug, checks, mined, relayed, cancelled, bundled>>

\* The relay accepts the cancellation; its answer may be lost.
Cancel(r) ==
    /\ Pending(r) /\ ~debug
    /\ r \notin admitted /\ tx[r] \in Cancels /\ Replaces(r)
    /\ cancelled' = cancelled \cup {r}
    /\ Answer(r, "result") \/ Answer(r, "error")
    /\ UNCHANGED <<tx, debug, checks, mined, relayed, published, bundled>>

\* The bundle takes the transaction; a later write may fail.
Collect(r) ==
    /\ Pending(r)
    /\ r \notin admitted \cup claimed \cup published
    /\ bundled' = bundled \cup {r}
    /\ Answer(r, "result") \/ Answer(r, "error")
    /\ UNCHANGED <<tx, debug, checks, mined, relayed, cancelled, published>>

\* The same transaction was claimed by another request, whose success counts.
Repeat(r) ==
    /\ Pending(r)
    /\ r \notin admitted \cup claimed
    /\ \E q \in claimed : tx[q] = tx[r]
    /\ Answer(r, "result")
    /\ UNCHANGED <<tx, debug, checks, outside>>

\* In debug mode a submission and a cancellation succeed without effect.
Pretend(r) ==
    /\ Pending(r) /\ debug /\ tx[r] \in Tx
    /\ r \in admitted \/ Replaces(r)
    /\ claimed' \in {claimed, claimed \cup {r}}
    /\ Answer(r, "result")
    /\ UNCHANGED <<tx, debug, admitted, unchecked, outside>>

Mine(a) ==
    /\ mined' = [mined EXCEPT ![a] = @ + 1]
    /\ UNCHANGED <<tx, debug, answer, checks, relayed, cancelled, published, bundled>>

ForwardingNext ==
    \/ \E r \in Req : \/ Decline(r) \/ Claim(r) \/ Admit(r) \/ Forward(r)
                      \/ Publish(r) \/ Cancel(r) \/ Collect(r) \/ Repeat(r)
                      \/ Pretend(r)
    \/ \E a \in Account : Mine(a)

ForwardingSpec == ForwardingInit /\ [][ForwardingNext]_promised

-----------------------------------------------------------------------------
\* The ways out of a request exclude each other: what is relayed was admitted and
\* is not cancelled, published or collected, and what is collected goes nowhere
\* else.  Success means that one of them was taken, that nothing was to be sent,
\* or that another request for the transaction was there before.
Outcomes ==
    /\ relayed \subseteq admitted
    /\ (cancelled \cup published \cup bundled) \cap admitted = {}
    /\ bundled \cap (cancelled \cup published) = {}
    /\ \A r \in Req : answer[r] = "result" =>
          \/ debug \/ r \in relayed \cup cancelled \cup bundled
          \/ \E q \in claimed \ {r} : tx[q] = tx[r]

\* What makes it inductive: whoever is relayed, cancelled or collected has ended.
Settled == \A r \in relayed \cup cancelled \cup bundled : r \in Req /\ ~Pending(r)
=============================================================================
