--------------------------- MODULE MCSignExtension ---------------------------
(***************************************************************************)
(* Instances of SignExtension for TLC.                                     *)
(***************************************************************************)
EXTENDS SignExtension

Order(id, pair, side, amount) ==
    [orderId |-> id, pair |-> pair, side |-> side, amount |-> amount]

\* Orders that cross, that differ in amount or pair, and one with a side that
\* is neither "buy" nor "sell", which the code accepts.
MCOrders == {Order("b1", "P", "buy", 1), Order("s1", "P", "sell", 1),
             Order("s2", "P", "sell", 2), Order("o1", "P", "swap", 1),
             Order("q1", "Q", "sell", 1)}
MCPairs == {"P", "Q"}

\* Every kind of call; this server refuses a null message like any unknown one.
AllCalls == CallType \ {NullCall}
==============================================================================
