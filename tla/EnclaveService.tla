---------------------------- MODULE EnclaveService ----------------------------
(***************************************************************************)
(* What an extension server promises, in any language: every call takes    *)
(* effect at once, at one moment between its receipt and its answer, on    *)
(* the stored key and the books of resting orders; an incoming order is    *)
(* matched with the order that has rested longest among those it crosses.  *)
(* SignExtension, LockServer and QueueServer implement this.               *)
(***************************************************************************)
EXTENDS EnclaveCalls

CONSTANT Supported      \* the operations this server has handlers for

VARIABLES
    key, books,
    call, answer,
    sent            \* the requests that got their answer, or were cut off

vars == <<key, books, call, answer, sent>>

Init ==
    /\ key = NoKey
    /\ books = [p \in Pairs |-> <<>>]
    /\ call = [r \in Requests |-> NoCall]
    /\ answer = [r \in Requests |-> Pending]
    /\ sent = {}

Received(r, op) == call[r].op = op /\ answer[r] = Pending

\* The answer is settled, and sent later.
Settle(r, a) ==
    /\ answer' = [answer EXCEPT ![r] = a]
    /\ UNCHANGED sent

\* A refusal has no effect, so when it is sent makes no difference.
Refuse(r, a) ==
    /\ answer' = [answer EXCEPT ![r] = a]
    /\ sent' = sent \cup {r}

\* Operations without a handler are refused at once, or never answered; an empty
\* message may be refused at once.
Receive(r, c) ==
    /\ call[r] = NoCall
    /\ call' = [call EXCEPT ![r] = c]
    /\ \/ c.op \in Supported \cup {"OTHER"} /\ Settle(r, Pending)
       \/ c.op \notin Supported /\ Refuse(r, Answer("refused"))
       \/ /\ c.op \in Supported \cap {"UPDATE", "MATCH"} /\ c.message = "empty"
          /\ Refuse(r, Answer("error"))
    /\ UNCHANGED <<key, books>>

\* A call whose message is empty, or that the node or the parser rejects.
Fail(r) ==
    /\ Received(r, "UPDATE") \/ Received(r, "MATCH")
    /\ Refuse(r, Answer("error"))
    /\ UNCHANGED <<key, books, call>>

Update(r) ==
    /\ Received(r, "UPDATE") /\ call[r].message = "good"
    /\ key' = call[r].key
    /\ Settle(r, Answer("stored"))
    /\ UNCHANGED <<books, call>>

Read(r) ==
    /\ Received(r, "SIGN") \/ Received(r, "STATE")
    /\ Settle(r, ReadAnswer(call[r], key))
    /\ UNCHANGED <<key, books, call>>

\* A book without its i-th entry.
Without(b, i) == [j \in 1..(Len(b) - 1) |-> IF j < i THEN b[j] ELSE b[j + 1]]

Match(r) ==
    LET pair == call[r].order.pair
        crossed(i) == Crosses(call[r].order, call[books[pair][i]].order)
        places == 1..Len(books[pair])
    IN  /\ Received(r, "MATCH") /\ call[r].message = "good"
        /\ \/ /\ \A i \in places : ~ crossed(i)
              /\ books' = [books EXCEPT ![pair] = Append(@, r)]
              /\ Settle(r, Answer("resting"))
           \/ \E i \in places :
                 /\ crossed(i)
                 /\ \A j \in places : j < i => ~ crossed(j)
                 /\ books' = [books EXCEPT ![pair] = Without(@, i)]
                 /\ Settle(r, Matched(key, books[pair][i]))
        /\ UNCHANGED <<key, call>>

Send(r) ==
    /\ call[r] # NoCall /\ answer[r] # Pending
    /\ sent' = sent \cup {r}
    /\ UNCHANGED <<key, books, call, answer>>

\* The enclave restarts: nothing of it is persistent, and every answer that is
\* not sent yet is lost, also that of a call that took effect.
Restart ==
    /\ key' = NoKey
    /\ books' = [p \in Pairs |-> <<>>]
    /\ answer' = [r \in Requests |-> IF call[r] # NoCall /\ r \notin sent
                                     THEN Answer("lost") ELSE answer[r]]
    /\ sent' = {r \in Requests : call[r] # NoCall}
    /\ UNCHANGED call

Next ==
    \/ \E r \in Requests :
          \/ \E c \in CallType : Receive(r, c)
          \/ Fail(r) \/ Update(r) \/ Read(r) \/ Match(r) \/ Send(r)
    \/ Restart

Spec == Init /\ [][Next]_vars
==============================================================================
