-------------------------- MODULE SignExtensionProofs --------------------------
(***************************************************************************)
(* The Go server, for any number of requests, keys, orders and pairs: its  *)
(* lock works, its books stay uncrossed, it implements the service that    *)
(* executes every call alone, and it loses and doubles no order.           *)
(***************************************************************************)
EXTENDS SignExtension, SequenceTheorems, FiniteSetTheorems, TLAPS

\* The lock: who holds it, and that a copied book is the book.
LockInv ==
    /\ \A r \in Requests : pc[r] = "critical" <=> writer = r
    /\ \A r \in Requests : pc[r] = "reading" <=> r \in readers
    /\ writer # NoRequest => readers = {}
    /\ \A r \in Requests :
          pc[r] = "critical" /\ call[r].op = "MATCH"
             => book[r] = openOrders[call[r].order.pair]

\* What a goroutine works on at each stage.
StageInv ==
    \A r \in Requests :
        /\ pc[r] = "idle" <=> call[r] = NoCall
        /\ pc[r] \in {"decrypt", "lock", "critical"} => call[r].op \in {"UPDATE", "MATCH"}
        /\ pc[r] \in {"lock", "critical"} => call[r].message = "good"
        /\ pc[r] \in {"rlock", "reading", "copied"} => call[r].op \in {"SIGN", "STATE"}
        /\ pc[r] \in {"reply", "done"} <=> answer[r] # Pending
        /\ answer[r].kind = "matched" => answer[r].with \in Requests

\* Only orders of answered requests rest.
BookInv ==
    \A p \in Pairs : \A r \in RangeOf(openOrders[p]) : pc[r] \in {"reply", "done"}

IInv == TypeOK /\ LockInv /\ StageInv /\ BookInv /\ BooksAreUncrossed

------------------------------------------------------------------------------
\* What a well-formed call carries.
LEMMA CallFacts ==
    ASSUME NEW c \in CallType
    PROVE  /\ c # NoCall
           /\ c.op \in Ops
           /\ c.op = "UPDATE" /\ c.message = "good" => c.key \in Keys
           /\ c.op = "MATCH" /\ c.message = "good"
                 => c.order \in Orders /\ c.order.pair \in Pairs
BY CallsAssumption DEF CallsAssumption, CallType, UpdateCall, MatchCall, PlainCall,
                       NoCall, Ops

\* What the handlers answer is an answer.
LEMMA AnswerFacts ==
    /\ \A kind \in AnswerKinds : Answer(kind) \in AnswerType /\ Answer(kind).kind = kind
    /\ \A k \in Keys \cup {NoKey}, r \in Requests :
          Matched(k, r) \in AnswerType /\ Matched(k, r).kind = "matched"
    /\ \A c, k : k \in Keys \cup {NoKey} =>
          ReadAnswer(c, k) \in AnswerType /\ ReadAnswer(c, k) # Pending
BY DEF Answer, Matched, Signed, ReadAnswer, AnswerType, AnswerKinds, Pending

\* What appending an entry leaves.
LEMMA Appended ==
    ASSUME NEW S, NEW b \in Seq(S), NEW x \in S, NEW c, c = Append(b, x)
    PROVE  /\ Len(c) = Len(b) + 1
           /\ \A j \in 1..Len(b) : c[j] = b[j]
           /\ c[Len(b) + 1] = x
BY AppendProperties

\* SubSeq and \o cut the i-th entry out of a sequence.
LEMMA CutOut ==
    ASSUME NEW S, NEW b \in Seq(S), NEW i \in 1..Len(b)
    PROVE  LET cut == SubSeq(b, 1, i - 1) \o SubSeq(b, i + 1, Len(b))
           IN  /\ cut \in Seq(S)
               /\ Len(cut) = Len(b) - 1
               /\ cut = [j \in 1..(Len(b) - 1) |-> IF j < i THEN b[j] ELSE b[j + 1]]
               /\ RangeOf(cut) \subseteq RangeOf(b)
<1> DEFINE left  == SubSeq(b, 1, i - 1)
           right == SubSeq(b, i + 1, Len(b))
           cut   == left \o right
<1>0. Len(b) \in Nat /\ \A j \in 1..Len(b) : b[j] \in S
  BY LenProperties, ElementOfSeq
<1>1. /\ left \in Seq(S) /\ Len(left) = i - 1
      /\ \A j \in 1..(i - 1) : left[j] = b[j]
  BY <1>0, SubSeqProperties
<1>2. /\ right \in Seq(S) /\ Len(right) = Len(b) - i
      /\ \A j \in 1..(Len(b) - i) : right[j] = b[i + j]
  BY <1>0, SubSeqProperties
<1> HIDE DEF left, right
<1>3. /\ cut \in Seq(S) /\ Len(cut) = Len(b) - 1
      /\ \A j \in 1..(Len(b) - 1) :
            cut[j] = IF j <= i - 1 THEN left[j] ELSE right[j - (i - 1)]
  <2>1. /\ cut \in Seq(S) /\ Len(cut) = Len(left) + Len(right)
        /\ \A j \in 1..(Len(left) + Len(right)) :
              cut[j] = IF j <= Len(left) THEN left[j] ELSE right[j - Len(left)]
    BY <1>1, <1>2, ConcatProperties
  <2>2. Len(left) + Len(right) = Len(b) - 1
    BY <1>0, <1>1, <1>2
  <2> QED
    BY <1>1, <2>1, <2>2
<1> HIDE DEF cut
<1>4. \A j \in 1..(Len(b) - 1) : cut[j] = IF j < i THEN b[j] ELSE b[j + 1]
  BY <1>0, <1>1, <1>2, <1>3
<1>5. RangeOf(cut) \subseteq RangeOf(b)
  BY <1>0, <1>3, <1>4 DEF RangeOf
<1>6. cut = [j \in 1..(Len(b) - 1) |-> IF j < i THEN b[j] ELSE b[j + 1]]
  <2>1. cut = [j \in 1..Len(cut) |-> cut[j]]
    BY <1>3, LenProperties
  <2> QED
    BY <1>3, <1>4, <2>1
<1> QED
  BY <1>3, <1>5, <1>6 DEF cut, left, right

\* New() makes a typed state in which no request has arrived.
LEMMA InitTyped == Init => TypeOK /\ StageInv
BY AnswerFacts, ExtensionAssumption
   DEF Init, Stages, ExtensionAssumption, Pending, AnswerKinds, TypeOK, StageInv

\* A match keeps the book a sequence of requests.
LEMMA MatchTyped ==
    ASSUME TypeOK, StageInv, NEW r \in Requests, MatchOrder(r)
    PROVE  TypeOK'
<1> DEFINE pair == call[r].order.pair
<1>1. pair \in Pairs
  BY CallFacts DEF TypeOK, StageInv, MatchOrder
<1>2. book[r] \in Seq(Requests)
  BY DEF TypeOK
<1>3. openOrders' \in [Pairs -> Seq(Requests)] /\ answer' \in [Requests -> AnswerType]
  <2>1. CASE Crossing(r) = {}
    <3>1. openOrders' = [openOrders EXCEPT ![pair] = Append(book[r], r)]
      BY <2>1 DEF MatchOrder
    <3>2. answer' = [answer EXCEPT ![r] = Answer("resting")]
      BY <2>1 DEF MatchOrder, Answered, Finish
    <3>3. Append(book[r], r) \in Seq(Requests)
      BY <1>2, AppendProperties
    <3> QED
      BY <3>1, <3>2, <3>3, AnswerFacts DEF TypeOK, AnswerKinds
  <2>2. CASE Crossing(r) # {}
    <3>1. PICK i \in Crossing(r) :
             /\ openOrders' = [openOrders EXCEPT ![pair] =
                   SubSeq(book[r], 1, i - 1) \o SubSeq(book[r], i + 1, Len(book[r]))]
             /\ answer' = [answer EXCEPT ![r] = Matched(privateKey, book[r][i])]
      BY <2>2 DEF MatchOrder, Answered, Finish
    <3>2. i \in 1..Len(book[r])
      BY DEF Crossing
    <3>3. SubSeq(book[r], 1, i - 1) \o SubSeq(book[r], i + 1, Len(book[r])) \in Seq(Requests)
      BY <1>2, <3>2, CutOut
    <3>4. Matched(privateKey, book[r][i]) \in AnswerType
      BY <1>2, <3>2, ElementOfSeq, AnswerFacts DEF TypeOK
    <3> QED
      BY <3>1, <3>3, <3>4 DEF TypeOK
  <2> QED
    BY <2>1, <2>2
<1>4. pc' = [pc EXCEPT ![r] = "reply"]
  BY DEF MatchOrder, Answered, Finish, Goto
<1>5. book' \in [Requests -> Seq(Requests)]
  <2>1. book' = [book EXCEPT ![r] = <<>>]
    BY DEF MatchOrder
  <2>2. <<>> \in Seq(Requests)
    OBVIOUS
  <2> QED
    BY <2>1, <2>2 DEF TypeOK
<1>6. /\ writer' = NoRequest
      /\ UNCHANGED <<privateKey, readers, call, copied, restarts, forgotten>>
  BY DEF MatchOrder, Unlock
<1> QED
  BY <1>3, <1>4, <1>5, <1>6 DEF TypeOK, Stages

\* Every step keeps the variables typed.
LEMMA NextTyped == TypeOK /\ StageInv /\ [Next]_vars => TypeOK'
<1> SUFFICES ASSUME TypeOK, StageInv, [Next]_vars PROVE TypeOK'
  OBVIOUS
<1> USE AnswerFacts DEF TypeOK, state, mu, locals, Answered, Finish, Refuse, Unlock, Goto, AnswerKinds, Stages
<1>1. ASSUME NEW r \in Requests, NEW c \in Calls, Receive(r, c) PROVE TypeOK'
  BY <1>1, ExtensionAssumption DEF Receive, ExtensionAssumption
<1>2. ASSUME NEW r \in Requests, DecryptReply(r) PROVE TypeOK'
  BY <1>2 DEF DecryptReply
<1>3. ASSUME NEW r \in Requests, Lock(r) PROVE TypeOK'
  <2>0. call[r] \in CallType /\ (call[r].op = "MATCH" => call[r].message = "good")
    BY <1>3, ExtensionAssumption DEF Lock, StageInv, ExtensionAssumption
  <2>1. call[r].op = "MATCH" => call[r].order.pair \in Pairs
    BY <2>0, CallFacts
  <2> QED
    BY <1>3, <2>1 DEF Lock
<1>4. ASSUME NEW r \in Requests, StoreKey(r) PROVE TypeOK'
  <2>1. call[r].key \in Keys
    BY <1>4, CallFacts DEF StoreKey, StageInv
  <2> QED
    BY <1>4, <2>1 DEF StoreKey
<1>5. ASSUME NEW r \in Requests, MatchOrder(r) PROVE TypeOK'
  BY <1>5, MatchTyped
<1>6. ASSUME NEW r \in Requests, RLock(r) \/ CopyKey(r) PROVE TypeOK'
  BY <1>6 DEF RLock, CopyKey
<1>7. ASSUME NEW r \in Requests, AnswerFromCopy(r) \/ WriteResponse(r) PROVE TypeOK'
  <2>1. CASE AnswerFromCopy(r)
    BY <2>1 DEF AnswerFromCopy
  <2>2. CASE WriteResponse(r)
    BY <2>2 DEF WriteResponse
  <2> QED
    BY <1>7, <2>1, <2>2
<1>8. CASE Restart
  <2>1. Resting \subseteq Requests
    BY ElementOfSeq DEF Resting, RangeOf
  <2>2. InFlight \subseteq Requests
    BY DEF InFlight, StageInv
  <2> QED
    BY <1>8, <2>1, <2>2, ExtensionAssumption DEF Restart, ExtensionAssumption
<1>9. CASE UNCHANGED vars
  BY <1>9 DEF vars
<1> QED
  BY <1>1, <1>2, <1>3, <1>4, <1>5, <1>6, <1>7, <1>8, <1>9 DEF Next, Handle

\* Every step keeps what a request's stage says of its call and its answer.
LEMMA NextStage == TypeOK /\ StageInv /\ [Next]_vars => StageInv'
<1> SUFFICES ASSUME TypeOK, StageInv, [Next]_vars PROVE StageInv'
  OBVIOUS
<1> USE AnswerFacts DEF TypeOK, StageInv, Answered, Finish, Refuse, Unlock, Goto, AnswerKinds
<1>0. /\ \A kind \in AnswerKinds \ {"pending"} : Answer(kind) # Pending
      /\ \A kind \in AnswerKinds \ {"matched"} : Answer(kind).kind # "matched"
      /\ \A k, s : Matched(k, s) # Pending /\ Matched(k, s).with = s
      /\ \A c, k : ReadAnswer(c, k).kind # "matched"
  BY DEF Answer, Matched, Pending, ReadAnswer, Signed, AnswerKinds
<1>1. ASSUME NEW r \in Requests, NEW c \in Calls, Receive(r, c) PROVE StageInv'
  BY <1>0, <1>1, ExtensionAssumption, CallFacts DEF Receive, ExtensionAssumption
<1>2. ASSUME NEW r \in Requests, DecryptReply(r) PROVE StageInv'
  BY <1>0, <1>2 DEF DecryptReply
<1>3. ASSUME NEW r \in Requests, Lock(r) PROVE StageInv'
  BY <1>3 DEF Lock
<1>4. ASSUME NEW r \in Requests, StoreKey(r) PROVE StageInv'
  BY <1>0, <1>4 DEF StoreKey
<1>5. ASSUME NEW r \in Requests, MatchOrder(r) PROVE StageInv'
  <2>1. /\ pc' = [pc EXCEPT ![r] = "reply"] /\ UNCHANGED call
        /\ \E a : /\ a # Pending /\ (a.kind = "matched" => a.with \in Requests)
                  /\ answer' = [answer EXCEPT ![r] = a]
    <3>1. \A i \in Crossing(r) : book[r][i] \in Requests
      BY ElementOfSeq DEF Crossing
    <3>2. pc' = [pc EXCEPT ![r] = "reply"] /\ UNCHANGED call
      BY <1>5 DEF MatchOrder
    <3>3. \E a : /\ a # Pending /\ (a.kind = "matched" => a.with \in Requests)
                /\ answer' = [answer EXCEPT ![r] = a]
      BY <1>0, <1>5, <3>1 DEF MatchOrder
    <3> QED
      BY <3>2, <3>3
  <2>2. pc[r] = "critical"
    BY <1>5 DEF MatchOrder
  <2> QED
    BY <2>1, <2>2
<1>6. ASSUME NEW r \in Requests, RLock(r) \/ CopyKey(r) PROVE StageInv'
  BY <1>6 DEF RLock, CopyKey
<1>7. ASSUME NEW r \in Requests, AnswerFromCopy(r) \/ WriteResponse(r) PROVE StageInv'
  <2>1. CASE AnswerFromCopy(r)
    BY <1>0, <2>1 DEF AnswerFromCopy
  <2>2. CASE WriteResponse(r)
    BY <1>0, <2>2 DEF WriteResponse
  <2> QED
    BY <1>7, <2>1, <2>2
<1>8. CASE Restart
  BY <1>0, <1>8 DEF Restart
<1>9. CASE UNCHANGED vars
  BY <1>9 DEF vars
<1> QED
  BY <1>1, <1>2, <1>3, <1>4, <1>5, <1>6, <1>7, <1>8, <1>9 DEF Next, Handle

\* TypeOK of SignExtension holds of every reachable state.
THEOREM TypeCorrect == Spec => []TypeOK
BY InitTyped, NextTyped, NextStage, PTL DEF Spec
------------------------------------------------------------------------------
\* The lock is exclusive for writers, and no one else changes a copied book.
LEMMA NextLock == TypeOK /\ StageInv /\ LockInv /\ [Next]_vars => LockInv'
<1> SUFFICES ASSUME TypeOK, StageInv, LockInv, [Next]_vars PROVE LockInv'
  OBVIOUS
<1> USE CallsAssumption
    DEF LockInv, CallsAssumption, Answered, Finish, Refuse, Unlock, Goto, state, mu, locals
<1>0. /\ pc \in [Requests -> Stages] /\ book \in [Requests -> Seq(Requests)]
      /\ call \in [Requests -> CallType \cup {NoCall}]
      /\ readers \subseteq Requests /\ writer \in Requests \cup {NoRequest}
  BY DEF TypeOK
<1>1. ASSUME NEW r \in Requests, NEW c \in Calls, Receive(r, c) PROVE LockInv'
  <2>1. \A s \in Requests \ {r} : pc'[s] = pc[s] /\ call'[s] = call[s]
    BY <1>0, <1>1 DEF Receive
  <2>2. /\ pc[r] \notin {"critical", "reading"} /\ pc'[r] \notin {"critical", "reading"}
        /\ UNCHANGED <<writer, readers, book, openOrders>>
    BY <1>0, <1>1 DEF Receive
  <2>3. \A s \in Requests : /\ pc'[s] = "critical" <=> pc[s] = "critical"
                            /\ pc'[s] = "reading" <=> pc[s] = "reading"
    BY <2>1, <2>2
  <2>4. \A s \in Requests : pc[s] = "critical" => call'[s] = call[s]
    BY <2>1, <2>2
  <2>5. \A s \in Requests : /\ pc'[s] = "critical" <=> writer' = s
                            /\ pc'[s] = "reading" <=> s \in readers'
    BY <2>2, <2>3
  <2>6. writer' # NoRequest => readers' = {}
    BY <2>2
  <2>7. ASSUME NEW s \in Requests, pc'[s] = "critical", call'[s].op = "MATCH"
        PROVE  book'[s] = openOrders'[call'[s].order.pair]
    BY <2>2, <2>3, <2>4, <2>7
  <2> QED
    BY <2>5, <2>6, <2>7
<1>2. ASSUME NEW r \in Requests, DecryptReply(r) PROVE LockInv'
  BY <1>0, <1>2 DEF DecryptReply
<1>3. ASSUME NEW r \in Requests, Lock(r) PROVE LockInv'
  <2>0. /\ pc' = [pc EXCEPT ![r] = "critical"] /\ pc[r] = "lock" /\ writer = NoRequest
        /\ writer' = r /\ readers = {} /\ UNCHANGED <<readers, call, openOrders>>
    BY <1>3 DEF Lock, CanLock
  <2>1. \A s \in Requests : pc[s] # "critical"
    BY <2>0
  <2>2. call[r].op = "MATCH" => book'[r] = openOrders[call[r].order.pair]
    BY <1>0, <1>3 DEF Lock
  <2> QED
    BY <1>0, <2>0, <2>1, <2>2
<1>4. ASSUME NEW r \in Requests, StoreKey(r) PROVE LockInv'
  BY <1>0, <1>4 DEF StoreKey
<1>5. ASSUME NEW r \in Requests, MatchOrder(r) PROVE LockInv'
  <2>1. /\ pc[r] = "critical" /\ pc' = [pc EXCEPT ![r] = "reply"]
        /\ writer' = NoRequest /\ UNCHANGED readers
    BY <1>5 DEF MatchOrder
  <2> QED
    BY <1>0, <2>1
<1>6. ASSUME NEW r \in Requests, RLock(r) PROVE LockInv'
  BY <1>0, <1>6 DEF RLock, CanRLock
<1>7. ASSUME NEW r \in Requests, CopyKey(r) PROVE LockInv'
  BY <1>0, <1>7 DEF CopyKey
<1>8. ASSUME NEW r \in Requests, AnswerFromCopy(r) \/ WriteResponse(r) PROVE LockInv'
  <2>1. CASE AnswerFromCopy(r)
    BY <1>0, <2>1 DEF AnswerFromCopy
  <2>2. CASE WriteResponse(r)
    BY <1>0, <2>2 DEF WriteResponse
  <2> QED
    BY <1>8, <2>1, <2>2
<1>9. CASE Restart
  <2>1. /\ \A r \in Requests : pc'[r] \in {"idle", "done"}
        /\ writer' = NoRequest /\ readers' = {}
    BY <1>9 DEF Restart
  <2> QED
    BY <2>1
<1>10. CASE UNCHANGED vars
  BY <1>10 DEF vars
<1> QED
  BY <1>1, <1>2, <1>3, <1>4, <1>5, <1>6, <1>7, <1>8, <1>9, <1>10 DEF Next, Handle

\* A MATCH either cuts a book or appends an order that crosses none of it, so
\* what rests afterwards is uncrossed and belongs to answered requests.
LEMMA MatchKeepsBooks ==
    ASSUME TypeOK, StageInv, LockInv, BookInv, BooksAreUncrossed,
           NEW r \in Requests, MatchOrder(r)
    PROVE  BookInv' /\ BooksAreUncrossed'
<1> DEFINE pair == call[r].order.pair
           new  == openOrders'[pair]
<1>1. /\ pair \in Pairs /\ book[r] = openOrders[pair]
      /\ book[r] \in Seq(Requests) /\ Len(book[r]) \in Nat
  BY CallFacts, LenProperties DEF TypeOK, StageInv, LockInv, MatchOrder
<1>2. /\ call' = call /\ pc' = [pc EXCEPT ![r] = "reply"]
      /\ \A p \in Pairs \ {pair} : openOrders'[p] = openOrders[p]
  BY DEF MatchOrder, Answered, Finish, Goto, TypeOK
<1>3. \/ RangeOf(new) \subseteq RangeOf(book[r])
      \/ /\ RangeOf(new) \subseteq RangeOf(book[r]) \cup {r}
         /\ \A s \in RangeOf(book[r]) : ~ Crosses(call[r].order, call[s].order)
  <2>1. CASE Crossing(r) = {}
    <3>1. openOrders' = [openOrders EXCEPT ![pair] = Append(book[r], r)]
      BY <1>1, <2>1 DEF MatchOrder
    <3>1a. new = Append(book[r], r)
      BY <1>1, <3>1 DEF TypeOK
    <3>2. /\ Len(new) = Len(book[r]) + 1
          /\ \A j \in 1..Len(book[r]) : new[j] = book[r][j]
          /\ new[Len(book[r]) + 1] = r
      <4> HIDE DEF new
      <4> QED
        BY <1>1, <3>1a, Appended
    <3>3. RangeOf(new) \subseteq RangeOf(book[r]) \cup {r}
      <4> SUFFICES ASSUME NEW j \in 1..Len(new)
                   PROVE  new[j] \in RangeOf(book[r]) \cup {r}
        BY DEF RangeOf
      <4>1. CASE j = Len(book[r]) + 1
        BY <3>2, <4>1
      <4>2. CASE j # Len(book[r]) + 1
        <5>1. j \in 1..Len(book[r])
          BY <1>1, <3>2, <4>2
        <5> QED
          BY <3>2, <5>1 DEF RangeOf
      <4> QED
        BY <4>1, <4>2
    <3>4. \A s \in RangeOf(book[r]) : ~ Crosses(call[r].order, call[s].order)
      BY <2>1 DEF Crossing, RangeOf
    <3> QED
      BY <3>3, <3>4
  <2>2. CASE Crossing(r) # {}
    <3>1. PICK i \in Crossing(r) :
             openOrders' = [openOrders EXCEPT ![pair] =
                SubSeq(book[r], 1, i - 1) \o SubSeq(book[r], i + 1, Len(book[r]))]
      BY <2>2 DEF MatchOrder
    <3>2. i \in 1..Len(book[r])
      BY DEF Crossing
    <3>3. new = SubSeq(book[r], 1, i - 1) \o SubSeq(book[r], i + 1, Len(book[r]))
      BY <1>1, <3>1 DEF TypeOK
    <3> QED
      BY <1>1, <3>2, <3>3, CutOut
  <2> QED
    BY <2>1, <2>2
<1> HIDE DEF new
<1>4. BookInv'
  <2> SUFFICES ASSUME NEW p \in Pairs, NEW s \in RangeOf(openOrders'[p])
               PROVE  pc'[s] \in {"reply", "done"}
    BY DEF BookInv, RangeOf
  <2>1. s = r \/ s \in RangeOf(openOrders[p])
    BY <1>1, <1>2, <1>3 DEF new
  <2>2. pc[s] \in {"reply", "done"} \/ s = r
    BY <2>1 DEF BookInv
  <2> QED
    BY <1>2, <2>2 DEF TypeOK
<1>5. BooksAreUncrossed'
  <2> SUFFICES ASSUME NEW p \in Pairs,
                      NEW x \in RangeOf(openOrders'[p]), NEW y \in RangeOf(openOrders'[p]),
                      call[x].order.side = "buy", call[y].order.side = "sell",
                      call[x].order.amount = call[y].order.amount
               PROVE  FALSE
    BY <1>2 DEF BooksAreUncrossed, RangeOf
  <2>1. CASE p # pair
    BY <1>2, <2>1 DEF BooksAreUncrossed
  <2>2. CASE p = pair
    <3>1. ~ (x \in RangeOf(book[r]) /\ y \in RangeOf(book[r]))
      BY <1>1 DEF BooksAreUncrossed
    <3>2. /\ x # y
          /\ x \in RangeOf(book[r]) \cup {r} /\ y \in RangeOf(book[r]) \cup {r}
          /\ \A s \in RangeOf(book[r]) : ~ Crosses(call[r].order, call[s].order)
      BY <1>3, <2>2, <3>1 DEF new
    <3>3. Crosses(call[x].order, call[y].order) /\ Crosses(call[y].order, call[x].order)
      BY DEF Crosses, OppositeSide
    <3> QED
      BY <3>1, <3>2, <3>3
  <2> QED
    BY <2>1, <2>2
<1> QED
  BY <1>4, <1>5

\* The other steps leave the books alone; a restart empties them.
LEMMA NextBook ==
    TypeOK /\ StageInv /\ LockInv /\ BookInv /\ BooksAreUncrossed /\ [Next]_vars
        => BookInv' /\ BooksAreUncrossed'
<1> SUFFICES ASSUME TypeOK, StageInv, LockInv, BookInv, BooksAreUncrossed, [Next]_vars
             PROVE  BookInv' /\ BooksAreUncrossed'
  OBVIOUS
<1>1. ASSUME NEW r \in Requests, MatchOrder(r) PROVE BookInv' /\ BooksAreUncrossed'
  BY <1>1, MatchKeepsBooks
<1>2. CASE Restart
  <2>1. \A p \in Pairs : RangeOf(openOrders'[p]) = {}
    BY <1>2 DEF Restart, RangeOf
  <2> QED
    BY <2>1 DEF BookInv, BooksAreUncrossed, RangeOf
<1>3. ASSUME openOrders' = openOrders,
             \A s \in Requests : pc[s] \in {"reply", "done"} =>
                pc'[s] \in {"reply", "done"} /\ call'[s] = call[s]
      PROVE  BookInv' /\ BooksAreUncrossed'
  <2>1. \A p \in Pairs : RangeOf(openOrders[p]) \subseteq Requests
    BY ElementOfSeq DEF TypeOK, RangeOf
  <2>2. \A p \in Pairs : \A s \in RangeOf(openOrders[p]) :
           pc'[s] \in {"reply", "done"} /\ call'[s] = call[s]
    BY <1>3, <2>1 DEF BookInv
  <2>3. BookInv'
    BY <1>3, <2>2 DEF BookInv, RangeOf
  <2>4. BooksAreUncrossed'
    BY <1>3, <2>2 DEF BooksAreUncrossed, RangeOf
  <2> QED
    BY <2>3, <2>4
<1>4. ASSUME NEW r \in Requests,
             \/ \E c \in Calls : Receive(r, c)
             \/ DecryptReply(r) \/ Lock(r) \/ StoreKey(r)
             \/ RLock(r) \/ CopyKey(r) \/ AnswerFromCopy(r) \/ WriteResponse(r)
      PROVE  /\ openOrders' = openOrders
             /\ \A s \in Requests : pc[s] \in {"reply", "done"} =>
                pc'[s] \in {"reply", "done"} /\ call'[s] = call[s]
  <2> USE DEF TypeOK, Answered, Finish, Refuse, Unlock, Goto, state
  <2>1. CASE \E c \in Calls : Receive(r, c)
    BY <2>1 DEF Receive
  <2>2. CASE DecryptReply(r) \/ Lock(r) \/ StoreKey(r)
    BY <2>2 DEF DecryptReply, Lock, StoreKey
  <2>3. CASE RLock(r) \/ CopyKey(r) \/ AnswerFromCopy(r) \/ WriteResponse(r)
    BY <2>3 DEF RLock, CopyKey, AnswerFromCopy, WriteResponse
  <2> QED
    BY <1>4, <2>1, <2>2, <2>3
<1>5. CASE UNCHANGED vars
  BY <1>3, <1>5 DEF vars, state
<1> QED
  BY <1>1, <1>2, <1>3, <1>4, <1>5 DEF Next, Handle

\* The inductive invariant holds of every reachable state.
THEOREM Inductive == Spec => []IInv
<1>1. Init => IInv
  <2> SUFFICES ASSUME Init PROVE LockInv /\ BookInv /\ BooksAreUncrossed
    BY InitTyped DEF IInv
  <2>1. \A p \in Pairs : RangeOf(openOrders[p]) = {}
    BY DEF Init, RangeOf
  <2> QED
    BY <2>1, CallsAssumption DEF Init, LockInv, BookInv, BooksAreUncrossed, CallsAssumption
<1>2. IInv /\ [Next]_vars => IInv'
  BY NextTyped, NextStage, NextLock, NextBook DEF IInv
<1> QED
  BY <1>1, <1>2, PTL DEF Spec

\* BooksAreUncrossed, for any number of concurrent MATCH handlers and any set
\* of orders: a matchable pair never rests in a book.
THEOREM BookSafety == Spec => []BooksAreUncrossed
<1>1. IInv => BooksAreUncrossed
  BY DEF IInv
<1> QED
  BY <1>1, Inductive, PTL

------------------------------------------------------------------------------
\* The answer the service has already given when a handler is past its copy.
LEMMA EffectiveFacts ==
    ASSUME IInv
    PROVE  \A r \in Requests :
              /\ pc[r] \notin {"copied", "reply", "done"} => EffectiveAnswer[r] = Pending
              /\ pc[r] \in {"reply", "done"}
                    => EffectiveAnswer[r] = answer[r] /\ answer[r] # Pending
              /\ pc[r] = "copied" => EffectiveAnswer[r] # Pending
BY AnswerFacts DEF IInv, TypeOK, StageInv, EffectiveAnswer

\* A function is updated when its values are.
LEMMA Updated ==
    ASSUME NEW S, NEW f, NEW g, NEW r \in S, NEW a,
           f = [s \in S |-> f[s]], g = [s \in S |-> g[s]],
           \A s \in S : g[s] = IF s = r THEN a ELSE f[s]
    PROVE  g = [f EXCEPT ![r] = a]
OBVIOUS

\* A step of one goroutine changes the effective answer of its request only.
LEMMA EffectiveStep ==
    ASSUME IInv, NEW r \in Requests, NEW stage, NEW a,
           pc' = [pc EXCEPT ![r] = stage],
           \A s \in Requests \ {r} : answer'[s] = answer[s]
                /\ call'[s] = call[s] /\ copied'[s] = copied[s],
           a = IF stage = "copied" THEN ReadAnswer(call'[r], copied'[r]) ELSE answer'[r]
    PROVE  EffectiveAnswer' = [EffectiveAnswer EXCEPT ![r] = a]
<1>1. pc'[r] = stage /\ \A s \in Requests \ {r} : pc'[s] = pc[s]
  BY DEF IInv, TypeOK
<1>2. EffectiveAnswer' = [s \in Requests |-> IF pc'[s] = "copied"
                              THEN ReadAnswer(call'[s], copied'[s]) ELSE answer'[s]]
  BY DEF EffectiveAnswer
<1>3. \A s \in Requests : EffectiveAnswer'[s] = IF s = r THEN a ELSE EffectiveAnswer[s]
  BY <1>1, <1>2 DEF EffectiveAnswer
<1>4. /\ EffectiveAnswer = [s \in Requests |-> EffectiveAnswer[s]]
      /\ EffectiveAnswer' = [s \in Requests |-> EffectiveAnswer'[s]]
  BY <1>2 DEF EffectiveAnswer
<1> QED
  BY <1>3, <1>4, Updated

\* A handler that answers at once.
LEMMA EffectiveReply ==
    ASSUME IInv, NEW r \in Requests, NEW a,
           pc' = [pc EXCEPT ![r] = "reply"], answer' = [answer EXCEPT ![r] = a],
           UNCHANGED <<call, copied>>
    PROVE  EffectiveAnswer' = [EffectiveAnswer EXCEPT ![r] = a]
<1>1. /\ pc'[r] = "reply" /\ answer'[r] = a
      /\ \A s \in Requests \ {r} : pc'[s] = pc[s] /\ answer'[s] = answer[s]
  BY DEF IInv, TypeOK
<1>2. EffectiveAnswer' = [s \in Requests |-> IF pc'[s] = "copied"
                              THEN ReadAnswer(call[s], copied[s]) ELSE answer'[s]]
  BY DEF EffectiveAnswer, ReadAnswer
<1>3. \A s \in Requests : EffectiveAnswer'[s] = IF s = r THEN a ELSE EffectiveAnswer[s]
  BY <1>1, <1>2 DEF EffectiveAnswer
<1>4. /\ EffectiveAnswer = [s \in Requests |-> EffectiveAnswer[s]]
      /\ EffectiveAnswer' = [s \in Requests |-> EffectiveAnswer'[s]]
  BY <1>2 DEF EffectiveAnswer
<1> QED
  BY <1>3, <1>4, Updated

\* The first crossing order is removed from the book that the service sees.
LEMMA MatchIsMatch ==
    ASSUME IInv, NEW r \in Requests, MatchOrder(r)
    PROVE  Service!Match(r)
<1> DEFINE pair == call[r].order.pair
<1> USE DEF IInv
<1>1. /\ pair \in Pairs /\ book[r] = openOrders[pair] /\ book[r] \in Seq(Requests)
      /\ pc[r] = "critical" /\ call[r].op = "MATCH" /\ call[r].message = "good"
  BY CallFacts DEF TypeOK, StageInv, LockInv, MatchOrder
<1>2. Service!Received(r, "MATCH")
  BY <1>1, EffectiveFacts DEF Service!Received, Service!Pending, Service!Answer,
                             Pending, Answer
<1>3. UNCHANGED <<privateKey, call>>
  BY DEF MatchOrder
<1>4. \A a : answer' = [answer EXCEPT ![r] = a] => Service!Settle(r, a)
  <2> SUFFICES ASSUME NEW a, answer' = [answer EXCEPT ![r] = a] PROVE Service!Settle(r, a)
    OBVIOUS
  <2>1. pc' = [pc EXCEPT ![r] = "reply"] /\ copied' = copied
    BY DEF MatchOrder, Answered, Finish, Goto
  <2>3. EffectiveAnswer' = [EffectiveAnswer EXCEPT ![r] = a]
    BY <1>3, <2>1, EffectiveReply
  <2>4. Sent' = Sent
    BY <1>1, <2>1 DEF Sent, TypeOK
  <2> QED
    BY <2>3, <2>4 DEF Service!Settle
<1>5. CASE Crossing(r) = {}
  <2>1. openOrders' = [openOrders EXCEPT ![pair] = Append(@, r)]
    BY <1>1, <1>5 DEF MatchOrder, TypeOK
  <2>2. Service!Settle(r, Service!Answer("resting"))
    BY <1>4, <1>5 DEF MatchOrder, Answered, Finish, Answer, Service!Answer
  <2>3. \A i \in 1..Len(openOrders[pair]) :
           ~ Service!Crosses(call[r].order, call[openOrders[pair][i]].order)
    BY <1>1, <1>5 DEF Crossing, Crosses, OppositeSide, Service!Crosses, Service!OppositeSide
  <2> QED
    BY <1>1, <1>2, <1>3, <2>1, <2>2, <2>3 DEF Service!Match
<1>6. CASE Crossing(r) # {}
  <2> DEFINE cut(i) == SubSeq(book[r], 1, i - 1) \o SubSeq(book[r], i + 1, Len(book[r]))
  <2>1. PICK i \in Crossing(r) :
           /\ \A j \in Crossing(r) : i <= j
           /\ openOrders' = [openOrders EXCEPT ![pair] = cut(i)]
           /\ answer' = [answer EXCEPT ![r] = Matched(privateKey, book[r][i])]
    BY <1>6 DEF MatchOrder, Answered, Finish
  <2>2. i \in 1..Len(openOrders[pair])
    BY <1>1 DEF Crossing
  <2>3. cut(i) = Service!Without(openOrders[pair], i)
    <3>1. cut(i) = [j \in 1..(Len(book[r]) - 1) |-> IF j < i THEN book[r][j] ELSE book[r][j + 1]]
      <4>1. i \in 1..Len(book[r]) /\ book[r] \in Seq(Requests)
        BY <1>1, <2>2
      <4> QED
        BY <4>1, CutOut
    <3> QED
      BY <1>1, <3>1 DEF Service!Without
  <2>4. openOrders' = [openOrders EXCEPT ![pair] = Service!Without(@, i)]
    BY <2>1, <2>3
  <2>5. Service!Settle(r, Service!Matched(privateKey, openOrders[pair][i]))
    BY <1>1, <1>4, <2>1 DEF Matched, Service!Matched
  <2>6. Service!Crosses(call[r].order, call[openOrders[pair][i]].order)
    BY <1>1 DEF Crossing, Crosses, OppositeSide, Service!Crosses, Service!OppositeSide
  <2>7. ASSUME NEW j \in 1..Len(openOrders[pair]), j < i
        PROVE  ~ Service!Crosses(call[r].order, call[openOrders[pair][j]].order)
    <3>1. j \notin Crossing(r)
      BY <1>1, <2>1, <2>2, <2>7, LenProperties
    <3> QED
      BY <1>1, <3>1 DEF Crossing, Crosses, OppositeSide, Service!Crosses, Service!OppositeSide
  <2> QED
    BY <1>1, <1>2, <1>3, <2>2, <2>4, <2>5, <2>6, <2>7 DEF Service!Match
<1> QED
  BY <1>5, <1>6

\* The service's own vocabulary is that of the server.
LEMMA SameVocabulary ==
    /\ \A kind : Service!Answer(kind) = Answer(kind)
    /\ Service!Pending = Pending /\ Service!NoCall = NoCall
    /\ \A c, k : Service!ReadAnswer(c, k) = ReadAnswer(c, k)
BY DEF Service!Answer, Answer, Service!Pending, Pending, Service!NoCall, NoCall,
       Service!PlainCall, PlainCall, Service!ReadAnswer, ReadAnswer,
       Service!Signed, Signed

\* A restart loses every call without an answer, and every answer not sent.
LEMMA RestartIsRestart == IInv /\ Restart => Service!Restart
<1> SUFFICES ASSUME IInv, Restart PROVE Service!Restart
  OBVIOUS
<1>1. EffectiveAnswer' = [r \in Requests |-> answer'[r]]
  BY DEF Restart, EffectiveAnswer
<1>2. ASSUME NEW r \in Requests
      PROVE  answer'[r] = IF call[r] # NoCall /\ r \notin Sent
                          THEN Answer("lost") ELSE EffectiveAnswer[r]
  <2>1. answer'[r] = IF pc[r] \in {"idle", "done"} THEN answer[r] ELSE Answer("lost")
    BY DEF Restart
  <2>2. pc[r] = "idle" <=> call[r] = NoCall
    BY DEF IInv, StageInv
  <2> QED
    BY <2>1, <2>2 DEF EffectiveAnswer, Sent
<1>3. EffectiveAnswer' = [r \in Requests |-> IF call[r] # Service!NoCall /\ r \notin Sent
                                            THEN Service!Answer("lost") ELSE EffectiveAnswer[r]]
  BY <1>1, <1>2, SameVocabulary
<1>4. Sent' = {r \in Requests : call[r] # Service!NoCall}
  BY SameVocabulary DEF Restart, Sent, IInv, StageInv
<1>5. /\ privateKey' = NoKey /\ openOrders' = [p \in Pairs |-> <<>>] /\ UNCHANGED call
  BY DEF Restart
<1> QED
  BY <1>3, <1>4, <1>5 DEF Service!Restart

\* Every step of the server is a step of the service, or none.
LEMMA StepRefines == IInv /\ [Next]_vars => [Service!Next]_(Service!vars)
<1> SUFFICES ASSUME IInv, [Next]_vars PROVE [Service!Next]_(Service!vars)
  OBVIOUS
<1> USE SameVocabulary DEF Service!Received, Service!Settle, Service!Refuse, state, mu, locals
<1>0. TypeOK /\ StageInv
  BY DEF IInv
<1>1. ASSUME NEW r \in Requests, NEW c \in Calls, Receive(r, c) PROVE Service!Next
  <2>1. c \in Service!CallType /\ c.op \in Ops
    BY ExtensionAssumption, CallFacts
       DEF ExtensionAssumption, CallType, UpdateCall, MatchCall, PlainCall,
           Service!CallType, Service!UpdateCall, Service!MatchCall, Service!PlainCall
  <2>2. call[r] = NoCall /\ answer[r] = Pending /\ EffectiveAnswer[r] = Pending
    BY <1>0, <1>1, EffectiveFacts DEF Receive, StageInv
  <2>3. EffectiveAnswer' = [EffectiveAnswer EXCEPT ![r] = answer'[r]]
    <3>1. PICK stage \in {"done", "decrypt", "rlock"} : pc' = [pc EXCEPT ![r] = stage]
      BY <1>1 DEF Receive, Answered, Refuse, Goto
    <3>2. \A s \in Requests \ {r} : answer'[s] = answer[s]
             /\ call'[s] = call[s] /\ copied'[s] = copied[s]
      BY <1>0, <1>1 DEF Receive, Answered, Refuse, TypeOK
    <3> QED
      BY <1>0, <3>1, <3>2 DEF EffectiveAnswer, TypeOK
  <2>4. call' = [call EXCEPT ![r] = c] /\ UNCHANGED <<privateKey, openOrders>>
    BY <1>1 DEF Receive
  <2>5. \/ /\ c.op \in {"UPDATE", "SIGN", "MATCH", "STATE"}
           /\ answer'[r] = Pending /\ Sent' = Sent
        \/ /\ c.op = "OTHER"
           /\ answer'[r] = Answer("refused") /\ Sent' = Sent \cup {r}
        \/ /\ c.op \in {"UPDATE", "MATCH"} /\ c.message = "empty"
           /\ answer'[r] = Answer("error") /\ Sent' = Sent \cup {r}
    BY <1>0, <1>1, <2>2 DEF Receive, Answered, Refuse, Goto, Sent, TypeOK
  <2>6. Service!Receive(r, c)
    BY <2>2, <2>3, <2>4, <2>5 DEF Service!Receive
  <2> QED
    BY <2>1, <2>6 DEF Service!Next
<1>2. ASSUME NEW r \in Requests, DecryptReply(r) PROVE Service!Next \/ UNCHANGED Service!vars
  <2>1. EffectiveAnswer[r] = Pending /\ call[r].op \in {"UPDATE", "MATCH"}
    BY <1>0, <1>2, EffectiveFacts DEF DecryptReply, StageInv
  <2>2. UNCHANGED <<privateKey, openOrders, call, copied>>
    BY <1>2 DEF DecryptReply
  <2>3. CASE Refuse(r, Answer("error"))
    <3>1. EffectiveAnswer' = [EffectiveAnswer EXCEPT ![r] = Answer("error")]
      BY <1>0, <2>2, <2>3, EffectiveStep DEF Answered, Refuse, Goto, TypeOK
    <3>2. Sent' = Sent \cup {r}
      BY <1>0, <2>3 DEF Answered, Refuse, Goto, Sent, TypeOK
    <3>3. Service!Fail(r)
      BY <2>1, <2>2, <3>1, <3>2 DEF Service!Fail
    <3> QED
      BY <3>3 DEF Service!Next
  <2>4. CASE Goto(r, "lock") /\ UNCHANGED answer
    <3>1. EffectiveAnswer' = [EffectiveAnswer EXCEPT ![r] = answer[r]]
      BY <2>2, <2>4, EffectiveStep DEF Goto
    <3>2. answer[r] = EffectiveAnswer[r]
      BY <1>2 DEF DecryptReply, EffectiveAnswer
    <3>3. EffectiveAnswer' = EffectiveAnswer
      BY <3>1, <3>2 DEF EffectiveAnswer
    <3>4. Sent' = Sent
      BY <1>0, <1>2, <2>4 DEF DecryptReply, Goto, Sent, TypeOK
    <3> QED
      BY <2>2, <3>3, <3>4 DEF Service!vars
  <2> QED
    BY <1>2, <2>3, <2>4 DEF DecryptReply
<1>3. ASSUME NEW r \in Requests, Lock(r) \/ RLock(r) PROVE UNCHANGED Service!vars
  <2>1. /\ pc[r] # "copied"
        /\ \E stage \in {"critical", "reading"} : pc' = [pc EXCEPT ![r] = stage]
        /\ UNCHANGED <<privateKey, openOrders, call, copied, answer>>
    BY <1>3 DEF Lock, RLock, Goto
  <2>2. EffectiveAnswer' = EffectiveAnswer
    BY <1>0, <2>1 DEF EffectiveAnswer, TypeOK
  <2>3. Sent' = Sent
    BY <1>0, <1>3, <2>1 DEF Lock, RLock, Sent, TypeOK
  <2> QED
    BY <2>1, <2>2, <2>3 DEF Service!vars
<1>4. ASSUME NEW r \in Requests, StoreKey(r) PROVE Service!Next
  <2>1. /\ EffectiveAnswer[r] = Pending
        /\ call[r].op = "UPDATE" /\ call[r].message = "good"
    BY <1>0, <1>4, EffectiveFacts DEF StoreKey, StageInv
  <2>2. UNCHANGED <<openOrders, call, copied>> /\ privateKey' = call[r].key
    BY <1>4 DEF StoreKey
  <2>3. EffectiveAnswer' = [EffectiveAnswer EXCEPT ![r] = Answer("stored")]
    BY <1>0, <1>4, <2>2, EffectiveStep DEF StoreKey, Answered, Finish, Unlock, Goto, TypeOK
  <2>4. Sent' = Sent
    BY <1>0, <1>4 DEF StoreKey, Answered, Finish, Goto, Sent, TypeOK
  <2>5. Service!Update(r)
    BY <2>1, <2>2, <2>3, <2>4 DEF Service!Update
  <2> QED
    BY <2>5 DEF Service!Next
<1>5. ASSUME NEW r \in Requests, MatchOrder(r) PROVE Service!Next
  BY <1>5, MatchIsMatch DEF Service!Next
<1>6. ASSUME NEW r \in Requests, CopyKey(r) PROVE Service!Next
  <2>1. EffectiveAnswer[r] = Pending /\ call[r].op \in {"SIGN", "STATE"}
    BY <1>0, <1>6, EffectiveFacts DEF CopyKey, StageInv
  <2>2. /\ UNCHANGED <<privateKey, openOrders, call, answer>>
        /\ copied' = [copied EXCEPT ![r] = privateKey]
        /\ pc' = [pc EXCEPT ![r] = "copied"]
    BY <1>6 DEF CopyKey, Goto
  <2>3. EffectiveAnswer' = [EffectiveAnswer EXCEPT ![r] = ReadAnswer(call[r], privateKey)]
    BY <1>0, <2>2, EffectiveStep DEF TypeOK
  <2>4. Sent' = Sent
    BY <1>0, <1>6, <2>2 DEF CopyKey, Sent, TypeOK
  <2>5. Service!Read(r)
    BY <2>1, <2>2, <2>3, <2>4 DEF Service!Read
  <2> QED
    BY <2>5 DEF Service!Next
<1>7. ASSUME NEW r \in Requests, AnswerFromCopy(r) PROVE Service!Next
  <2>1. UNCHANGED <<privateKey, openOrders, call>> /\ pc[r] = "copied"
    BY <1>7 DEF AnswerFromCopy
  <2>2. /\ EffectiveAnswer[r] = ReadAnswer(call[r], copied[r])
        /\ pc' = [pc EXCEPT ![r] = "done"]
        /\ answer' = [answer EXCEPT ![r] = ReadAnswer(call[r], copied[r])]
        /\ copied' = [copied EXCEPT ![r] = NoKey]
    BY <1>7 DEF AnswerFromCopy, Answered, Goto, EffectiveAnswer
  <2>3. EffectiveAnswer' = EffectiveAnswer
    BY <1>0, <2>1, <2>2 DEF TypeOK, EffectiveAnswer
  <2>4. Sent' = Sent \cup {r}
    BY <1>0, <2>2 DEF Sent, TypeOK
  <2>5. call[r] # NoCall /\ EffectiveAnswer[r] # Pending
    BY <1>0, <2>1, EffectiveFacts DEF StageInv
  <2>6. Service!Send(r)
    BY <2>1, <2>3, <2>4, <2>5 DEF Service!Send
  <2> QED
    BY <2>6 DEF Service!Next
<1>8. ASSUME NEW r \in Requests, WriteResponse(r) PROVE Service!Next
  <2>1. UNCHANGED <<privateKey, openOrders, call, copied, answer>>
    BY <1>8 DEF WriteResponse
  <2>2. pc[r] = "reply" /\ pc' = [pc EXCEPT ![r] = "done"]
    BY <1>8 DEF WriteResponse, Goto
  <2>3. EffectiveAnswer' = EffectiveAnswer
    BY <1>0, <2>1, <2>2 DEF TypeOK, EffectiveAnswer
  <2>4. Sent' = Sent \cup {r}
    BY <1>0, <2>2 DEF Sent, TypeOK
  <2>5. call[r] # NoCall /\ EffectiveAnswer[r] # Pending
    BY <1>0, <2>2, EffectiveFacts DEF StageInv
  <2>6. Service!Send(r)
    BY <2>1, <2>3, <2>4, <2>5 DEF Service!Send
  <2> QED
    BY <2>6 DEF Service!Next
<1>9. CASE Restart
  BY <1>9, RestartIsRestart DEF Service!Next
<1>10. CASE UNCHANGED vars
  <2>1. EffectiveAnswer' = EffectiveAnswer /\ Sent' = Sent
    BY <1>10 DEF vars, EffectiveAnswer, Sent
  <2> QED
    BY <1>10, <2>1 DEF vars, Service!vars
<1> QED
  BY <1>1, <1>2, <1>3, <1>4, <1>5, <1>6, <1>7, <1>8, <1>9, <1>10 DEF Next, Handle

\* ImplementsService: whatever the goroutines interleave, and with the mutex
\* released during decryption, the key, the books and the answers are those of
\* a service that executes every call at one moment.
THEOREM Refinement == Spec => ImplementsService
<1>1. Init => Service!Init
  BY SameVocabulary DEF Init, Service!Init, EffectiveAnswer, Sent
<1> QED
  BY <1>1, StepRefines, Inductive, PTL DEF Spec, ImplementsService, Service!Spec

------------------------------------------------------------------------------
\* What became of each order, without counting: no entry of a book is there
\* twice, and rested, filled and forgotten exclude each other.
FateInv ==
    /\ \A p, q \in Pairs : \A i \in 1..Len(openOrders[p]), j \in 1..Len(openOrders[q]) :
          openOrders[p][i] = openOrders[q][j] => p = q /\ i = j
    /\ \A r \in Requests :
          /\ \A s, t \in MatchedWith(r) : s = t
          /\ r \in Resting => MatchedWith(r) = {} /\ r \notin forgotten
          /\ MatchedWith(r) # {} => r \notin forgotten
          /\ answer[r].kind = "resting" =>
                r \in Resting \/ MatchedWith(r) # {} \/ r \in forgotten
          /\ answer[r].kind \notin {"resting", "lost"} =>
                r \notin Resting /\ MatchedWith(r) = {} /\ r \notin forgotten

\* Counted, that is what OrdersAreAccountedFor says.
LEMMA FatesCounted == FateInv => OrdersAreAccountedFor
<1> SUFFICES ASSUME FateInv, NEW r \in Requests
             PROVE  LET places == UNION {{<<p, i>> : i \in {n \in 1..Len(openOrders[p]) :
                                      openOrders[p][n] = r}} : p \in Pairs}
                        fates == Cardinality(places) + Cardinality(MatchedWith(r))
                                   + (IF r \in forgotten THEN 1 ELSE 0)
                    IN  CASE answer[r].kind = "resting" -> fates = 1
                          [] answer[r].kind = "lost"    -> fates <= 1
                          [] OTHER                      -> fates = 0
  BY DEF OrdersAreAccountedFor
<1> DEFINE places == UNION {{<<p, i>> : i \in {n \in 1..Len(openOrders[p]) :
                          openOrders[p][n] = r}} : p \in Pairs}
<1>1. Cardinality(places) = IF r \in Resting THEN 1 ELSE 0
  <2>1. CASE r \in Resting
    <3>1. PICK p \in Pairs : r \in RangeOf(openOrders[p])
      BY <2>1 DEF Resting
    <3>2. PICK i \in 1..Len(openOrders[p]) : openOrders[p][i] = r
      BY <3>1 DEF RangeOf
    <3>3. places = {<<p, i>>}
      BY <3>2 DEF FateInv
    <3> QED
      BY <2>1, <3>3, FS_Singleton
  <2>2. CASE r \notin Resting
    <3>1. places = {}
      BY <2>2 DEF Resting, RangeOf
    <3> QED
      BY <2>2, <3>1, FS_EmptySet
  <2> QED
    BY <2>1, <2>2
<1>2. Cardinality(MatchedWith(r)) = IF MatchedWith(r) # {} THEN 1 ELSE 0
  <2>1. CASE MatchedWith(r) # {}
    <3>1. PICK s : s \in MatchedWith(r)
      BY <2>1
    <3>2. MatchedWith(r) = {s}
      BY <3>1 DEF FateInv
    <3> QED
      BY <2>1, <3>2, FS_Singleton
  <2>2. CASE MatchedWith(r) = {}
    BY <2>2, FS_EmptySet
  <2> QED
    BY <2>1, <2>2
<1> HIDE DEF places
<1> QED
  BY <1>1, <1>2 DEF FateInv, places

LEMMA MatchFacts ==
    ASSUME IInv, NEW r \in Requests, MatchOrder(r)
    PROVE  LET pair == call[r].order.pair
           IN  /\ pair \in Pairs /\ book[r] = openOrders[pair]
               /\ openOrders[pair] \in Seq(Requests) /\ Len(openOrders[pair]) \in Nat
               /\ answer[r] = Pending
<1>1. pc[r] = "critical" /\ call[r].op = "MATCH"
  BY DEF MatchOrder
<1>2. call[r] \in CallType /\ call[r].message = "good" /\ answer[r] = Pending
  BY <1>1 DEF IInv, TypeOK, StageInv
<1>3. call[r].order.pair \in Pairs
  BY <1>1, <1>2, CallFacts
<1>4. book[r] = openOrders[call[r].order.pair]
  BY <1>1 DEF IInv, LockInv
<1>5. openOrders[call[r].order.pair] \in Seq(Requests)
  BY <1>3 DEF IInv, TypeOK
<1> QED
  BY <1>2, <1>3, <1>4, <1>5, LenProperties

\* A MATCH that finds nothing rests its own order, once.
LEMMA RestFate ==
    ASSUME IInv, FateInv, NEW r \in Requests, MatchOrder(r), Crossing(r) = {}
    PROVE  FateInv'
<1> DEFINE pair == call[r].order.pair
           new  == openOrders'[pair]
           old  == openOrders[pair]
<1>1. /\ pair \in Pairs /\ book[r] = old /\ old \in Seq(Requests) /\ Len(old) \in Nat
      /\ answer[r] = Pending
  BY MatchFacts
<1>2. /\ new = Append(old, r) /\ \A p \in Pairs \ {pair} : openOrders'[p] = openOrders[p]
      /\ answer' = [answer EXCEPT ![r] = Answer("resting")] /\ UNCHANGED forgotten
  BY <1>1 DEF MatchOrder, Answered, Finish, IInv, TypeOK
<1>3. /\ Len(new) = Len(old) + 1 /\ new[Len(old) + 1] = r
      /\ \A j \in 1..Len(old) : new[j] = old[j]
  <2> HIDE DEF new, old
  <2> QED
    BY <1>1, <1>2, Appended
<1>4. answer[r].kind = "pending" /\ r \notin Resting /\ MatchedWith(r) = {} /\ r \notin forgotten
  BY <1>1 DEF FateInv, Pending, Answer
<1>5. \A s \in Requests : answer'[s] = IF s = r THEN Answer("resting") ELSE answer[s]
  BY <1>2 DEF IInv, TypeOK
<1>6. \A s \in Requests : MatchedWith(s)' = MatchedWith(s)
  BY <1>1, <1>5, AnswerFacts DEF MatchedWith, Pending, Answer
<1> HIDE DEF new, old
<1>7. Resting' = Resting \cup {r}
  <2>1. RangeOf(new) = RangeOf(old) \cup {r}
    <3>1. \A j \in 1..Len(new) : new[j] \in RangeOf(old) \cup {r}
      BY <1>1, <1>3 DEF RangeOf
    <3>2. \A j \in 1..Len(old) : old[j] \in RangeOf(new)
      BY <1>1, <1>3 DEF RangeOf
    <3>3. r \in RangeOf(new)
      BY <1>1, <1>3 DEF RangeOf
    <3> QED
      BY <3>1, <3>2, <3>3 DEF RangeOf
  <2>2. \A p \in Pairs : RangeOf(openOrders'[p])
                            = IF p = pair THEN RangeOf(openOrders[p]) \cup {r}
                              ELSE RangeOf(openOrders[p])
    BY <1>1, <1>2, <2>1 DEF new, old
  <2>3. Resting' = UNION {RangeOf(openOrders'[p]) : p \in Pairs}
    BY DEF Resting, RangeOf
  <2> QED
    BY <1>1, <2>2, <2>3 DEF Resting
<1>8. ASSUME NEW p \in Pairs, NEW q \in Pairs, NEW i \in 1..Len(openOrders'[p]),
             NEW j \in 1..Len(openOrders'[q]), openOrders'[p][i] = openOrders'[q][j]
      PROVE  p = q /\ i = j
  <2>1. ASSUME NEW s \in Pairs, NEW k \in 1..Len(openOrders'[s])
        PROVE  \/ /\ k \in 1..Len(openOrders[s]) /\ openOrders'[s][k] = openOrders[s][k]
                  /\ openOrders'[s][k] # r
               \/ s = pair /\ k = Len(old) + 1 /\ openOrders'[s][k] = r
    <3>1. \A n \in 1..Len(openOrders[s]) : openOrders[s][n] # r
      BY <1>4 DEF Resting, RangeOf
    <3>2. CASE s # pair
      BY <1>2, <2>1, <3>1, <3>2
    <3>3. CASE s = pair
      <4>1. k \in 1..Len(new) /\ openOrders'[s] = new /\ openOrders[s] = old
        BY <2>1, <3>3 DEF new, old
      <4>2. k \in 1..Len(old) \/ k = Len(old) + 1
        BY <1>1, <1>3, <4>1
      <4> QED
        BY <1>3, <3>1, <3>3, <4>1, <4>2
    <3> QED
      BY <3>2, <3>3
  <2> QED
    BY <1>8, <2>1 DEF FateInv
<1>9. ASSUME NEW s \in Requests
      PROVE  /\ \A t, u \in MatchedWith(s)' : t = u
             /\ s \in Resting' => MatchedWith(s)' = {} /\ s \notin forgotten'
             /\ MatchedWith(s)' # {} => s \notin forgotten'
             /\ answer'[s].kind = "resting" =>
                   s \in Resting' \/ MatchedWith(s)' # {} \/ s \in forgotten'
             /\ answer'[s].kind \notin {"resting", "lost"} =>
                   s \notin Resting' /\ MatchedWith(s)' = {} /\ s \notin forgotten'
  <2>1. Answer("resting").kind = "resting"
    BY DEF Answer
  <2> QED
    BY <1>2, <1>4, <1>5, <1>6, <1>7, <2>1 DEF FateInv
<1> QED
  BY <1>8, <1>9 DEF FateInv

\* A MATCH that crosses takes the first crossing order out, and fills it.
LEMMA CutFate ==
    ASSUME IInv, FateInv, NEW r \in Requests, MatchOrder(r), Crossing(r) # {}
    PROVE  FateInv'
<1> DEFINE pair == call[r].order.pair
           new  == openOrders'[pair]
           old  == openOrders[pair]
<1>1. /\ pair \in Pairs /\ book[r] = old /\ old \in Seq(Requests) /\ Len(old) \in Nat
      /\ answer[r] = Pending
  BY MatchFacts
<1>2. PICK i \in 1..Len(old) :
         /\ new = SubSeq(old, 1, i - 1) \o SubSeq(old, i + 1, Len(old))
         /\ answer' = [answer EXCEPT ![r] = Matched(privateKey, old[i])]
         /\ \A p \in Pairs \ {pair} : openOrders'[p] = openOrders[p]
         /\ UNCHANGED forgotten
  <2>1. PICK i \in Crossing(r) :
           /\ openOrders' = [openOrders EXCEPT ![pair] =
                 SubSeq(book[r], 1, i - 1) \o SubSeq(book[r], i + 1, Len(book[r]))]
           /\ answer' = [answer EXCEPT ![r] = Matched(privateKey, book[r][i])]
           /\ UNCHANGED forgotten
    BY DEF MatchOrder, Answered, Finish
  <2>2. i \in 1..Len(old)
    BY <1>1 DEF Crossing
  <2>3. openOrders \in [Pairs -> Seq(Requests)]
    BY DEF IInv, TypeOK
  <2> QED
    BY <1>1, <2>1, <2>2, <2>3
<1> DEFINE x == old[i]
<1>3. /\ Len(new) = Len(old) - 1
      /\ \A j \in 1..(Len(old) - 1) : new[j] = IF j < i THEN old[j] ELSE old[j + 1]
  <2> DEFINE cut == SubSeq(old, 1, i - 1) \o SubSeq(old, i + 1, Len(old))
  <2>1. /\ Len(cut) = Len(old) - 1
        /\ cut = [j \in 1..(Len(old) - 1) |-> IF j < i THEN old[j] ELSE old[j + 1]]
    <3>1. i \in 1..Len(old) /\ old \in Seq(Requests)
      BY <1>1
    <3> HIDE DEF old
    <3>2. Len(cut) = Len(old) - 1
      BY <3>1, CutOut
    <3>3. cut = [j \in 1..(Len(old) - 1) |-> IF j < i THEN old[j] ELSE old[j + 1]]
      BY <3>1, CutOut
    <3> QED
      BY <3>2, <3>3
  <2>2. new = cut
    BY <1>2
  <2> HIDE DEF cut, new, old
  <2> QED
    BY <2>1, <2>2
<1>4. answer[r].kind = "pending" /\ r \notin Resting /\ MatchedWith(r) = {} /\ r \notin forgotten
  BY <1>1 DEF FateInv, Pending, Answer
<1>5. \A s \in Requests : answer'[s] = IF s = r THEN Matched(privateKey, x) ELSE answer[s]
  BY <1>2 DEF IInv, TypeOK
<1>6. x \in Requests /\ x \in Resting /\ MatchedWith(x) = {} /\ x \notin forgotten /\ x # r
  <2>1. x \in Requests
    BY <1>1, ElementOfSeq
  <2>2. x \in Resting
    BY <1>1 DEF Resting, RangeOf
  <2> QED
    BY <1>4, <2>1, <2>2 DEF FateInv
<1>7. \A s \in Requests : MatchedWith(s)' = IF s = x THEN {r} ELSE MatchedWith(s)
  <2>1. Matched(privateKey, x).kind = "matched" /\ Matched(privateKey, x).with = x
    BY DEF Matched
  <2>2. \A s \in Requests : r \notin MatchedWith(s)
    BY <1>4 DEF MatchedWith
  <2> HIDE DEF x
  <2>3. \A s \in Requests, t \in Requests :
           t \in MatchedWith(s)' <=> IF t = r THEN s = x ELSE t \in MatchedWith(s)
    BY <1>5, <2>1 DEF MatchedWith
  <2>4. \A s \in Requests : MatchedWith(s) \subseteq Requests /\ MatchedWith(s)' \subseteq Requests
    BY DEF MatchedWith
  <2> QED
    BY <1>6, <2>2, <2>3, <2>4
<1> DEFINE from(j) == IF j < i THEN j ELSE j + 1
<1>8. \A j \in 1..Len(new) : from(j) \in 1..Len(old) /\ from(j) # i /\ new[j] = old[from(j)]
  <2> HIDE DEF new, old
  <2> QED
    BY <1>1, <1>3
<1>9. \A n \in 1..Len(old) : n # i => \E j \in 1..Len(new) : from(j) = n
  <2> SUFFICES ASSUME NEW n \in 1..Len(old), n # i PROVE \E j \in 1..Len(new) : from(j) = n
    OBVIOUS
  <2> HIDE DEF new, old
  <2>1. CASE n < i
    BY <1>1, <1>3, <2>1
  <2>2. CASE n > i
    <3>1. n - 1 \in 1..Len(new) /\ from(n - 1) = n
      BY <1>1, <1>3, <2>2
    <3> QED
      BY <3>1
  <2> QED
    BY <1>1, <2>1, <2>2
<1>10. \A n \in 1..Len(old) : n # i => old[n] # x
  BY <1>1 DEF FateInv
<1>11. Resting' = Resting \ {x}
  <2>1. RangeOf(new) = RangeOf(old) \ {x}
    <3> HIDE DEF new, old, from
    <3>1. \A j \in 1..Len(new) : new[j] \in RangeOf(old) \ {x}
      BY <1>8, <1>10 DEF RangeOf
    <3>2. ASSUME NEW n \in 1..Len(old), old[n] # x PROVE old[n] \in RangeOf(new)
      BY <1>8, <1>9, <3>2 DEF RangeOf
    <3> QED
      BY <3>1, <3>2 DEF RangeOf
  <2>2. \A p \in Pairs \ {pair} : x \notin RangeOf(openOrders[p])
    BY <1>1 DEF FateInv, RangeOf
  <2>3. ASSUME NEW p \in Pairs PROVE RangeOf(openOrders'[p]) = RangeOf(openOrders[p]) \ {x}
    <3>1. CASE p = pair
      BY <2>1, <3>1
    <3>2. CASE p # pair
      <4>1. openOrders'[p] = openOrders[p] /\ x \notin RangeOf(openOrders[p])
        BY <1>2, <2>2, <3>2
      <4> HIDE DEF x
      <4> QED
        BY <4>1
    <3> QED
      BY <3>1, <3>2
  <2>4. Resting' = UNION {RangeOf(openOrders'[p]) : p \in Pairs}
    BY DEF Resting, RangeOf
  <2> HIDE DEF x
  <2>5. \A y : y \in Resting' <=> y \in Resting /\ y # x
    BY <2>3, <2>4 DEF Resting
  <2> QED
    BY <2>5
<1>12. ASSUME NEW p \in Pairs, NEW q \in Pairs, NEW j \in 1..Len(openOrders'[p]),
              NEW k \in 1..Len(openOrders'[q]), openOrders'[p][j] = openOrders'[q][k]
       PROVE  p = q /\ j = k
  <2> DEFINE place(s, n) == IF s = pair THEN from(n) ELSE n
  <2>1. ASSUME NEW s \in Pairs, NEW n \in 1..Len(openOrders'[s])
        PROVE  /\ place(s, n) \in 1..Len(openOrders[s])
               /\ openOrders'[s][n] = openOrders[s][place(s, n)]
    BY <1>2, <1>8, <2>1
  <2>2. /\ place(p, j) \in 1..Len(openOrders[p]) /\ place(q, k) \in 1..Len(openOrders[q])
        /\ openOrders[p][place(p, j)] = openOrders[q][place(q, k)]
    <3> HIDE DEF place
    <3> QED
      BY <1>12, <2>1
  <2>3. p = q /\ place(p, j) = place(q, k)
    <3> HIDE DEF place
    <3> QED
      BY <2>2 DEF FateInv
  <2>4. j \in Int /\ k \in Int /\ i \in Int
    OBVIOUS
  <2> QED
    BY <2>3, <2>4
<1>13. ASSUME NEW s \in Requests
       PROVE  /\ \A t, u \in MatchedWith(s)' : t = u
              /\ s \in Resting' => MatchedWith(s)' = {} /\ s \notin forgotten'
              /\ MatchedWith(s)' # {} => s \notin forgotten'
              /\ answer'[s].kind = "resting" =>
                    s \in Resting' \/ MatchedWith(s)' # {} \/ s \in forgotten'
              /\ answer'[s].kind \notin {"resting", "lost"} =>
                    s \notin Resting' /\ MatchedWith(s)' = {} /\ s \notin forgotten'
  <2>1. Matched(privateKey, x).kind = "matched"
    BY DEF Matched
  <2> HIDE DEF x
  <2>2. CASE s = x
    <3>1. /\ MatchedWith(s)' = {r} /\ s \notin Resting' /\ s \notin forgotten'
      BY <1>2, <1>6, <1>7, <1>11, <2>2
    <3>2. answer'[s] = answer[s] /\ answer[s].kind \in {"resting", "lost"}
      BY <1>5, <1>6, <2>2 DEF FateInv
    <3> QED
      BY <3>1, <3>2
  <2>3. CASE s # x
    <3>1. /\ MatchedWith(s)' = MatchedWith(s) /\ (s \in Resting' <=> s \in Resting)
          /\ s \in forgotten' <=> s \in forgotten
      BY <1>2, <1>7, <1>11, <2>3
    <3>2. CASE s = r
      BY <1>4, <1>5, <2>1, <3>1, <3>2
    <3>3. CASE s # r
      BY <1>5, <3>1, <3>3 DEF FateInv
    <3> QED
      BY <3>2, <3>3
  <2> QED
    BY <2>2, <2>3
<1> QED
  BY <1>12, <1>13 DEF FateInv

\* An answer that is no match, to a request that had none, changes no fate.
LEMMA AnswerFate ==
    ASSUME IInv, FateInv, NEW r \in Requests, answer[r] = Pending,
           NEW a, answer' = [answer EXCEPT ![r] = a],
           a.kind \notin {"matched", "resting", "lost"},
           UNCHANGED <<openOrders, forgotten>>
    PROVE  FateInv'
<1>1. \A s \in Requests : answer'[s] = IF s = r THEN a ELSE answer[s]
  BY DEF IInv, TypeOK
<1>2. answer[r].kind = "pending"
  BY DEF Pending, Answer
<1>3. \A s \in Requests : MatchedWith(s)' = MatchedWith(s)
  BY <1>1, <1>2 DEF MatchedWith
<1>4. Resting' = Resting
  BY DEF Resting, RangeOf
<1>5. ASSUME NEW s \in Requests
      PROVE  /\ \A t, u \in MatchedWith(s)' : t = u
             /\ s \in Resting' => MatchedWith(s)' = {} /\ s \notin forgotten'
             /\ MatchedWith(s)' # {} => s \notin forgotten'
             /\ answer'[s].kind = "resting" =>
                   s \in Resting' \/ MatchedWith(s)' # {} \/ s \in forgotten'
             /\ answer'[s].kind \notin {"resting", "lost"} =>
                   s \notin Resting' /\ MatchedWith(s)' = {} /\ s \notin forgotten'
  BY <1>1, <1>2, <1>3, <1>4 DEF FateInv
<1> QED
  BY <1>5 DEF FateInv

LEMMA NothingFate ==
    ASSUME FateInv, UNCHANGED <<openOrders, answer, forgotten>>
    PROVE  FateInv'
BY DEF FateInv, MatchedWith, Resting, RangeOf

\* A restart empties the books, and remembers what they held, and the orders of
\* the matches whose answers it loses.
LEMMA RestartFate ==
    ASSUME IInv, FateInv, Restart
    PROVE  FateInv'
<1>1. /\ forgotten' = forgotten \cup Resting \cup InFlight
      /\ \A p \in Pairs : openOrders'[p] = <<>>
  BY DEF Restart
<1>2. \A p \in Pairs : Len(openOrders'[p]) = 0
  BY <1>1
<1>3. Resting' = {}
  BY <1>2 DEF Resting, RangeOf
<1>4. \A s \in Requests : answer'[s] = IF pc[s] \in {"idle", "done"} THEN answer[s]
                                       ELSE Answer("lost")
  BY DEF Restart
<1>5. Answer("lost").kind = "lost"
  BY DEF Answer
<1>6. \A s, t \in Requests : t \in MatchedWith(s)' <=>
                                t \in MatchedWith(s) /\ pc[t] \in {"idle", "done"}
  BY <1>4, <1>5 DEF MatchedWith
<1>7. \A s \in Requests : s \in InFlight <=>
                             \E t \in MatchedWith(s) : pc[t] = "reply"
  BY DEF InFlight, MatchedWith
<1>8. \A s \in Requests : \A t \in MatchedWith(s) : pc[t] \in {"reply", "done"}
  BY DEF IInv, StageInv, MatchedWith, Pending, Answer
<1>9. \A s \in Requests : MatchedWith(s) \subseteq Requests /\ MatchedWith(s)' \subseteq Requests
  BY DEF MatchedWith
<1>10. ASSUME NEW s \in Requests
       PROVE  /\ \A t, u \in MatchedWith(s)' : t = u
              /\ s \in Resting' => MatchedWith(s)' = {} /\ s \notin forgotten'
              /\ MatchedWith(s)' # {} => s \notin forgotten'
              /\ answer'[s].kind = "resting" =>
                    s \in Resting' \/ MatchedWith(s)' # {} \/ s \in forgotten'
              /\ answer'[s].kind \notin {"resting", "lost"} =>
                    s \notin Resting' /\ MatchedWith(s)' = {} /\ s \notin forgotten'
  <2>1. \A t, u \in MatchedWith(s) : t = u
    BY DEF FateInv
  <2>2. \A t, u \in MatchedWith(s)' : t = u
    BY <1>6, <1>9, <2>1
  <2>3. MatchedWith(s)' # {} => s \notin forgotten'
    <3> SUFFICES ASSUME NEW t \in MatchedWith(s)' PROVE s \notin forgotten'
      OBVIOUS
    <3>1. t \in MatchedWith(s) /\ pc[t] # "reply"
      BY <1>6, <1>9
    <3>2. s \notin Resting /\ s \notin forgotten
      BY <3>1 DEF FateInv
    <3>3. s \notin InFlight
      BY <1>7, <2>1, <3>1
    <3> QED
      BY <1>1, <3>2, <3>3
  <2>4. answer'[s].kind = "resting" => MatchedWith(s)' # {} \/ s \in forgotten'
    <3> SUFFICES ASSUME answer'[s].kind = "resting"
                 PROVE  MatchedWith(s)' # {} \/ s \in forgotten'
      OBVIOUS
    <3>1. answer[s].kind = "resting"
      BY <1>4, <1>5
    <3>2. CASE s \in Resting \/ s \in forgotten
      BY <1>1, <3>2
    <3>3. CASE MatchedWith(s) # {}
      <4>1. PICK t \in MatchedWith(s) : TRUE
        BY <3>3
      <4> QED
        BY <1>1, <1>6, <1>7, <1>8, <1>9, <4>1
    <3> QED
      BY <3>1, <3>2, <3>3 DEF FateInv
  <2>5. answer'[s].kind \notin {"resting", "lost"} =>
           MatchedWith(s)' = {} /\ s \notin forgotten'
    <3> SUFFICES ASSUME answer'[s].kind \notin {"resting", "lost"}
                 PROVE  MatchedWith(s)' = {} /\ s \notin forgotten'
      OBVIOUS
    <3>1. answer[s].kind \notin {"resting", "lost"}
      BY <1>4, <1>5
    <3>2. s \notin Resting /\ MatchedWith(s) = {} /\ s \notin forgotten
      BY <3>1 DEF FateInv
    <3>3. s \notin InFlight
      BY <1>7, <3>2
    <3> QED
      BY <1>1, <1>6, <1>9, <3>2, <3>3
  <2> QED
    BY <1>3, <2>2, <2>3, <2>4, <2>5
<1>11. \A p, q \in Pairs : \A i \in 1..Len(openOrders'[p]), j \in 1..Len(openOrders'[q]) :
          openOrders'[p][i] = openOrders'[q][j] => p = q /\ i = j
  BY <1>2
<1> QED
  BY <1>10, <1>11 DEF FateInv

LEMMA NextFate == IInv /\ FateInv /\ [Next]_vars => FateInv'
<1> SUFFICES ASSUME IInv, FateInv, [Next]_vars PROVE FateInv'
  OBVIOUS
<1> USE DEF state, mu, locals, Answered, Finish, Refuse
<1>1. ASSUME NEW r \in Requests, NEW c \in Calls, Receive(r, c) PROVE FateInv'
  <2>1. answer[r] = Pending
    BY <1>1 DEF Receive, IInv, StageInv
  <2>2. CASE \/ answer' = [answer EXCEPT ![r] = Answer("refused")]
             \/ answer' = [answer EXCEPT ![r] = Answer("error")]
    BY <1>1, <2>1, <2>2, AnswerFate, AnswerFacts DEF Receive, AnswerKinds
  <2>3. CASE UNCHANGED answer
    BY <1>1, <2>3, NothingFate DEF Receive
  <2> QED
    BY <1>1, <2>2, <2>3 DEF Receive
<1>2. ASSUME NEW r \in Requests, DecryptReply(r) PROVE FateInv'
  <2>1. answer[r] = Pending
    BY <1>2 DEF DecryptReply, IInv, StageInv
  <2>2. CASE answer' = [answer EXCEPT ![r] = Answer("error")]
    BY <1>2, <2>1, <2>2, AnswerFate, AnswerFacts DEF DecryptReply, AnswerKinds
  <2>3. CASE UNCHANGED answer
    BY <1>2, <2>3, NothingFate DEF DecryptReply
  <2> QED
    BY <1>2, <2>2, <2>3 DEF DecryptReply
<1>3. ASSUME NEW r \in Requests, StoreKey(r) PROVE FateInv'
  <2>1. answer[r] = Pending
    BY <1>3 DEF StoreKey, IInv, StageInv
  <2> QED
    BY <1>3, <2>1, AnswerFate, AnswerFacts DEF StoreKey, AnswerKinds
<1>4. ASSUME NEW r \in Requests, MatchOrder(r) PROVE FateInv'
  BY <1>4, RestFate, CutFate
<1>5. ASSUME NEW r \in Requests, AnswerFromCopy(r) PROVE FateInv'
  <2>1. answer[r] = Pending
    BY <1>5 DEF AnswerFromCopy, IInv, StageInv
  <2>2. ReadAnswer(call[r], copied[r]).kind \notin {"matched", "resting", "lost"}
    BY DEF ReadAnswer, Answer, Signed
  <2> QED
    BY <1>5, <2>1, <2>2, AnswerFate DEF AnswerFromCopy
<1>6. ASSUME NEW r \in Requests, Lock(r) \/ RLock(r) \/ CopyKey(r) \/ WriteResponse(r)
      PROVE  FateInv'
  BY <1>6, NothingFate DEF Lock, RLock, CopyKey, WriteResponse
<1>7. CASE Restart
  BY <1>7, RestartFate
<1>8. CASE UNCHANGED vars
  BY <1>8, NothingFate DEF vars
<1> QED
  BY <1>1, <1>2, <1>3, <1>4, <1>5, <1>6, <1>7, <1>8 DEF Next, Handle

\* OrdersAreAccountedFor, for any number of concurrent MATCH handlers and restarts:
\* no order is lost, duplicated or filled twice.
THEOREM Accounting == Spec => []OrdersAreAccountedFor
<1>1. Init => FateInv
  <2> SUFFICES ASSUME Init PROVE FateInv
    OBVIOUS
  <2>1. \A p \in Pairs : Len(openOrders[p]) = 0
    BY DEF Init
  <2>2. Resting = {} /\ forgotten = {}
    BY <2>1 DEF Init, Resting, RangeOf
  <2>3. \A r \in Requests : answer[r].kind = "pending"
    BY DEF Init, Pending, Answer
  <2>4. \A r \in Requests : MatchedWith(r) = {}
    BY <2>3 DEF MatchedWith
  <2> QED
    BY <2>1, <2>2, <2>3, <2>4 DEF FateInv
<1> QED
  BY <1>1, NextFate, FatesCounted, Inductive, PTL DEF Spec
================================================================================
