---------------------------- MODULE DepositEscrow ----------------------------
(***************************************************************************)
(* What the orchestrator contract promises about deposits, without orders, *)
(* ids, accounts or a data connector.  A deposit is held at most once, and *)
(* leaves the pool in exactly one of two ways: refunded to its trader, or  *)
(* swapped against one deposit of the other asset.  DarkPool implements    *)
(* this specification.                                                     *)
(***************************************************************************)
CONSTANTS Deposits,   \* transaction hashes of external BTC/XRP deposits
          AssetType   \* the assets that can be deposited

VARIABLES held,       \* set of [deposit, asset]: everything ever taken in
          refunded,   \* the deposits handed back after a cancellation
          swaps       \* set of pairs {d, e} of deposits exchanged for each other

vars == <<held, refunded, swaps>>

\* A deposit that has not left the pool yet.
Pending(d) == d \notin refunded /\ d \notin UNION swaps

Init == held = {} /\ refunded = {} /\ swaps = {}

Hold(d, asset) ==
    /\ \A h \in held : h.deposit # d
    /\ held' = held \cup {[deposit |-> d, asset |-> asset]}
    /\ UNCHANGED <<refunded, swaps>>

Refund(h) ==
    /\ Pending(h.deposit)
    /\ refunded' = refunded \cup {h.deposit}
    /\ UNCHANGED <<held, swaps>>

Swap(h, g) ==
    /\ h.asset # g.asset
    /\ Pending(h.deposit) /\ Pending(g.deposit)
    /\ swaps' = swaps \cup {{h.deposit, g.deposit}}
    /\ UNCHANGED <<held, refunded>>

Next ==
    \/ \E d \in Deposits, asset \in AssetType : Hold(d, asset)
    \/ \E h \in held : Refund(h)
    \/ \E h, g \in held : Swap(h, g)

Spec == Init /\ [][Next]_vars
==============================================================================
