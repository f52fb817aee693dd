----------------------------- MODULE EnclaveCalls -----------------------------
(***************************************************************************)
(* What travels between the TEE node and an extension server: the calls    *)
(* (POST /action with an operation, GET /state) and the answers.  Shared   *)
(* by the abstract service and by the servers that implement it.           *)
(***************************************************************************)
EXTENDS Naturals, Sequences, FiniteSets

CONSTANTS
    Requests,   \* HTTP requests, each sent once
    NoRequest,
    Keys,       \* private keys an UPDATE may deliver
    NoKey,
    Orders,     \* well-formed orders a MATCH may deliver
    NoOrder,
    Pairs       \* trading pairs

ASSUME CallsAssumption ==
    /\ NoRequest \notin Requests
    /\ NoKey \notin Keys
    /\ NoOrder \notin Orders
    /\ \A o \in Orders : o.pair \in Pairs

(***************************************************************************)
(* A call names its operation and what its message holds: nothing          *)
(* ("empty"), bytes that decrypt to no valid key or order ("bad"), or a    *)
(* good key, order or message to sign.  STATE and OTHER (an operation      *)
(* nobody registered, or an action that does not parse) ignore it; for     *)
(* SIGN, "empty" is also a message that is not hexadecimal.  The message   *)
(* of NullCall is the JSON text null.                                      *)
(***************************************************************************)
Ops == {"UPDATE", "SIGN", "MATCH", "STATE", "OTHER"}

UpdateCall(k) == [op |-> "UPDATE", message |-> "good", key |-> k, order |-> NoOrder]
MatchCall(o)  == [op |-> "MATCH",  message |-> "good", key |-> NoKey, order |-> o]
PlainCall(op, message) ==
    [op |-> op, message |-> message, key |-> NoKey, order |-> NoOrder]

NoCall == PlainCall("none", "empty")
NullCall == PlainCall("OTHER", "bad")

CallType ==
    {UpdateCall(k) : k \in Keys}
        \cup {MatchCall(o) : o \in Orders}
        \cup {PlainCall(op, m) : op \in {"UPDATE", "MATCH", "OTHER"}, m \in {"empty", "bad"}}
        \cup {PlainCall("SIGN", m) : m \in {"empty", "good"}}
        \cup {PlainCall("STATE", "empty")}

(***************************************************************************)
(* An answer: the key of a signature, the request whose order was matched. *)
(* "refused" stands for 400 and 501, "error" for a result with status 0,   *)
(* "lost" for a request whose server died before answering.                *)
(***************************************************************************)
AnswerKinds == {"pending", "lost", "refused", "error", "stored", "signed",
                "matched", "resting", "hasKey", "noKey"}

AnswerType == [kind : AnswerKinds, key : Keys \cup {NoKey},
               with : Requests \cup {NoRequest}]

Answer(kind) == [kind |-> kind, key |-> NoKey, with |-> NoRequest]
Signed(k)    == [kind |-> "signed", key |-> k, with |-> NoRequest]
Matched(k, r) == [kind |-> "matched", key |-> k, with |-> r]

Pending == Answer("pending")

\* The answer to a SIGN or STATE call by a server that holds key k.
ReadAnswer(c, k) ==
    CASE c.op = "STATE"  -> Answer(IF k = NoKey THEN "noKey" ELSE "hasKey")
      [] k = NoKey       -> Answer("error")
      [] c.message = "empty" -> Answer("error")
      [] OTHER           -> Signed(k)

\* Only "sell" looks for buys; every other side looks for sells.
OppositeSide(side) == IF side = "sell" THEN "buy" ELSE "sell"

\* Does the order o, coming in, match the resting order b?  (Same pair.)
Crosses(o, b) == b.side = OppositeSide(o.side) /\ b.amount = o.amount
==============================================================================
