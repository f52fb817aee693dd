--------------------------- MODULE QueueServerProofs ---------------------------
(***************************************************************************)
(* The TypeScript server, for any number of requests, keys and restarts:   *)
(* the chain of promises lets one handler run at a time and keeps the      *)
(* order of arrival, and the server implements the atomic service.         *)
(***************************************************************************)
EXTENDS QueueServer, ScriptServerProofs, FiniteSetTheorems

\* How many of the requests that arrived have left the queue.
Started == Len(arrived) - Len(handlerQueue)

\* The queue is the tail of what arrived, its members wait, and the handler that
\* awaits the node is that of the last one taken out.
OrderInv ==
    /\ Len(handlerQueue) <= Len(arrived)
    /\ \A j \in 1..Len(handlerQueue) : handlerQueue[j] = arrived[Started + j]
    /\ \A i, j \in 1..Len(arrived) : arrived[i] = arrived[j] => i = j
    /\ \A i \in 1..Len(arrived) : pc[arrived[i]] \notin {"idle", "thrown"}
    /\ \A i \in 1..Len(arrived) : i > Started <=> pc[arrived[i]] = "waiting"
    /\ \A r \in Requests : pc[r] \in {"decrypt", "stuck"} =>
          running = r /\ Started > 0 /\ r = arrived[Started]

\* The key held is that of the last update among the first n that arrived.
KeyOf(k, n) ==
    IF StoredBefore(n + 1) = {} THEN k = NoKey
    ELSE \E j \in StoredBefore(n + 1) :
            (\A m \in StoredBefore(n + 1) : m <= j) /\ k = call[arrived[j]].key

KeyInv == KeyOf(privateKey, Started)

IInv == TypeOK /\ StageInv /\ OrderInv /\ KeyInv /\ SignedInArrivalOrder

------------------------------------------------------------------------------
LEMMA Invs == IInv => RequestsInv
BY DEF IInv, TypeOK, RequestsInv

LEMMA Lengths ==
    ASSUME TypeOK
    PROVE  /\ Len(handlerQueue) \in Nat /\ Len(arrived) \in Nat
           /\ \A i \in 1..Len(arrived) : arrived[i] \in Requests
<1>1. \A s \in Seq(Requests) : Len(s) \in Nat /\ \A i \in 1..Len(s) : s[i] \in Requests
  OBVIOUS
<1> QED
  BY <1>1 DEF TypeOK

LEMMA StartedFacts ==
    ASSUME TypeOK, OrderInv
    PROVE  Started \in Nat /\ Started + Len(handlerQueue) = Len(arrived)
BY Lengths DEF Started, OrderInv

LEMMA AppendFacts ==
    ASSUME NEW s \in Seq(Requests), NEW r \in Requests
    PROVE  /\ Append(s, r) \in Seq(Requests) /\ Len(Append(s, r)) = Len(s) + 1
           /\ Append(s, r)[Len(s) + 1] = r
           /\ \A j \in 1..Len(s) : Append(s, r)[j] = s[j]
OBVIOUS

LEMMA TailFacts ==
    ASSUME NEW s \in Seq(Requests), s # <<>>
    PROVE  /\ Tail(s) \in Seq(Requests) /\ Len(Tail(s)) = Len(s) - 1 /\ Len(s) > 0
           /\ Head(s) = s[1]
           /\ \A j \in 1..Len(Tail(s)) : Tail(s)[j] = s[j + 1]
OBVIOUS

\* The first n arrivals are as they were.
Same(n) ==
    /\ n <= Len(arrived) /\ n <= Len(arrived')
    /\ \A i \in 1..n : /\ arrived'[i] = arrived[i]
                       /\ answer'[arrived[i]] = answer[arrived[i]]
                       /\ call'[arrived[i]] = call[arrived[i]]

LEMMA StoredSame ==
    ASSUME NEW n \in Nat, Same(n), NEW i \in 1..(n + 1)
    PROVE  StoredBefore(i)' = StoredBefore(i)
BY DEF Same, StoredBefore

\* What SignedInArrivalOrder says of the i-th arrival.
SignedAt(i) ==
    LET a == answer[arrived[i]]
        c == call[arrived[i]]
    IN  c.op = "SIGN" /\ a # Pending =>
          IF StoredBefore(i) = {} THEN a = Answer("error")
          ELSE \E j \in StoredBefore(i) :
                  /\ \A m \in StoredBefore(i) : m <= j
                  /\ a = ReadAnswer(c, call[arrived[j]].key)

\* Among the first n arrivals everything stays as it is said to be.
LEMMA SignedSame ==
    ASSUME NEW n \in Nat, Same(n), SignedInArrivalOrder,
           NEW i \in 1..n, Len(arrived) \in Nat
    PROVE  SignedAt(i)'
<1>1. StoredBefore(i)' = StoredBefore(i)
  BY StoredSame
<1>2. SignedAt(i)
  BY DEF SignedInArrivalOrder, SignedAt, Same
<1>3. StoredBefore(i) \subseteq 1..n
  BY DEF StoredBefore
<1>4. /\ \A j \in StoredBefore(i) : call'[arrived'[j]] = call[arrived[j]]
      /\ answer'[arrived'[i]] = answer[arrived[i]] /\ call'[arrived'[i]] = call[arrived[i]]
  BY <1>3 DEF Same
<1> QED
  BY <1>1, <1>2, <1>4 DEF SignedAt

LEMMA KeySame ==
    ASSUME NEW n \in Nat, Same(n), NEW k, KeyOf(k, n)
    PROVE  KeyOf(k, n)'
<1>1. StoredBefore(n + 1)' = StoredBefore(n + 1)
  BY StoredSame
<1>2. StoredBefore(n + 1) \subseteq 1..n
  BY DEF StoredBefore
<1> QED
  BY <1>1, <1>2 DEF KeyOf, Same

LEMMA KeyKept ==
    ASSUME NEW n \in Nat, Same(n), n = Started, KeyInv, UNCHANGED privateKey,
           Started' = n \/ (Started' = n + 1 /\ answer'[arrived'[n + 1]].kind # "stored")
    PROVE  KeyInv'
<1>1. PICK k : k = privateKey
  OBVIOUS
<1>2. KeyOf(k, n) /\ privateKey' = k
  BY <1>1 DEF KeyInv
<1>3. KeyOf(k, n)'
  BY <1>2, KeySame
<1>4. CASE Started' = n
  BY <1>2, <1>3, <1>4 DEF KeyInv, KeyOf
<1>5. CASE Started' = n + 1 /\ answer'[arrived'[n + 1]].kind # "stored"
  <2>1. StoredBefore(n + 1 + 1)' = StoredBefore(n + 1)'
    BY <1>5 DEF StoredBefore
  <2> QED
    BY <1>2, <1>3, <1>5, <2>1 DEF KeyInv, KeyOf
<1> QED
  BY <1>4, <1>5

\* The promise of the whole sequence, from that of its parts.
LEMMA SignedAll ==
    ASSUME NEW n \in Nat, Same(n), SignedInArrivalOrder, Len(arrived) \in Nat,
           Len(arrived') \in Nat,
           \A i \in (n + 1)..Len(arrived') : SignedAt(i)'
    PROVE  SignedInArrivalOrder'
<1>1. \A i \in 1..n : SignedAt(i)'
  BY SignedSame
<1>2. \A i \in 1..Len(arrived') : SignedAt(i)'
  BY <1>1
<1> QED
  BY <1>2 DEF SignedAt, SignedInArrivalOrder

------------------------------------------------------------------------------
\* With nothing arrived there is nothing to keep in order.
LEMMA NothingArrived ==
    ASSUME handlerQueue' = <<>>, arrived' = <<>>, privateKey' = NoKey,
           \A r \in Requests : pc'[r] \notin {"decrypt", "stuck"}
    PROVE  OrderInv' /\ KeyInv' /\ SignedInArrivalOrder'
<1>1. Len(handlerQueue') = 0 /\ Len(arrived') = 0 /\ Started' = 0
  BY DEF Started
<1>2. StoredBefore(0 + 1)' = {}
  BY DEF StoredBefore
<1>3. OrderInv'
  BY <1>1 DEF OrderInv
<1>4. KeyInv'
  BY <1>1, <1>2 DEF KeyInv, KeyOf
<1>5. SignedInArrivalOrder'
  BY <1>1 DEF SignedInArrivalOrder
<1> QED
  BY <1>3, <1>4, <1>5

LEMMA Initially == Init => IInv
<1> SUFFICES ASSUME Init PROVE IInv
  OBVIOUS
<1>1. Len(handlerQueue) = 0 /\ Len(arrived) = 0 /\ Started = 0
  BY DEF Init, Started
<1>2. RequestsInv
  BY InitKeeps DEF Init
<1>3. TypeOK
  BY <1>2 DEF Init, TypeOK, RequestsInit, RequestsInv
<1>4. StoredBefore(0 + 1) = {}
  BY DEF StoredBefore
<1>5. OrderInv /\ KeyInv /\ SignedInArrivalOrder
  BY <1>1, <1>4
     DEF Init, RequestsInit, OrderInv, KeyInv, KeyOf, SignedInArrivalOrder
<1> QED
  BY <1>2, <1>3, <1>5 DEF IInv, RequestsInv

\* A new arrival is last in the queue, and waits.
LEMMA ReceiveStep ==
    ASSUME IInv, NEW r \in Requests, NEW c \in Calls, Receive(r, c)
    PROVE  IInv'
<1>0. /\ TypeOK /\ StageInv /\ OrderInv /\ RequestsInv /\ RequestsTypeOK
      /\ Len(handlerQueue) \in Nat /\ Len(arrived) \in Nat
      /\ \A i \in 1..Len(arrived) : arrived[i] \in Requests
      /\ pc[r] = "idle" /\ call' = [call EXCEPT ![r] = c]
      /\ UNCHANGED <<privateKey, running, restarts>>
  BY Invs, Lengths DEF IInv, RequestsInv, Receive
<1>1. PICK stage \in {"waiting", "thrown", "done"}, a \in AnswerType :
         /\ Answered(r, stage, a)
         /\ stage = "done" <=> a # Pending
         /\ stage = "waiting" => c.op \in Registered
         /\ IF stage = "waiting"
            THEN handlerQueue' = Append(handlerQueue, r) /\ arrived' = Append(arrived, r)
            ELSE UNCHANGED <<handlerQueue, arrived>>
  BY AnswerFacts DEF Receive, AnswerKinds
<1>2. RequestsInv'
  BY <1>0, <1>1, ReceiveKeeps
<1>3. TypeOK'
  <2>1. handlerQueue' \in Seq(Requests) /\ arrived' \in Seq(Requests)
    BY <1>0, <1>1, AppendFacts DEF TypeOK
  <2>2. \A s \in Requests : pc'[s] # "handler"
    BY <1>0, <1>1 DEF TypeOK, Answered, RequestsTypeOK
  <2> QED
    BY <1>0, <1>2, <2>1, <2>2 DEF TypeOK, RequestsInv
<1>4. \A i \in 1..Len(arrived) : arrived[i] # r
  BY <1>0 DEF OrderInv
<1>5. /\ Len(arrived') >= Len(arrived) /\ Len(arrived') \in Nat
      /\ Len(handlerQueue') \in Nat
      /\ \A i \in 1..Len(arrived) : arrived'[i] = arrived[i]
      /\ Started' = Started
      /\ \/ UNCHANGED <<handlerQueue, arrived>>
         \/ /\ Len(arrived') = Len(arrived) + 1 /\ arrived'[Len(arrived) + 1] = r
            /\ Len(handlerQueue') = Len(handlerQueue) + 1
            /\ \A j \in 1..Len(handlerQueue) : handlerQueue'[j] = handlerQueue[j]
            /\ handlerQueue'[Len(handlerQueue) + 1] = r /\ stage = "waiting"
  <2>1. CASE stage # "waiting"
    BY <1>0, <1>1, <2>1 DEF Started
  <2>2. CASE stage = "waiting"
    <3>0. handlerQueue \in Seq(Requests) /\ arrived \in Seq(Requests)
      BY <1>0 DEF TypeOK
    <3>1. /\ Len(arrived') = Len(arrived) + 1 /\ arrived'[Len(arrived) + 1] = r
          /\ \A i \in 1..Len(arrived) : arrived'[i] = arrived[i]
      BY <1>1, <2>2, <3>0, AppendFacts
    <3>2. /\ Len(handlerQueue') = Len(handlerQueue) + 1
          /\ \A j \in 1..Len(handlerQueue) : handlerQueue'[j] = handlerQueue[j]
          /\ handlerQueue'[Len(handlerQueue) + 1] = r
      BY <1>1, <2>2, <3>0, AppendFacts
    <3> QED
      BY <1>0, <2>2, <3>1, <3>2 DEF Started
  <2> QED
    BY <2>1, <2>2
<1>6. Same(Len(arrived))
  BY <1>0, <1>1, <1>4, <1>5 DEF Same, Answered, RequestsTypeOK
<1>7. \A s \in Requests : pc'[s] = IF s = r THEN stage ELSE pc[s]
  BY <1>0, <1>1 DEF Answered, RequestsTypeOK
<1>8. OrderInv'
  <2>1. CASE UNCHANGED <<handlerQueue, arrived>>
    BY <1>0, <1>4, <1>5, <1>7, <2>1 DEF OrderInv, Started
  <2>2. CASE /\ Len(arrived') = Len(arrived) + 1 /\ arrived'[Len(arrived) + 1] = r
             /\ Len(handlerQueue') = Len(handlerQueue) + 1
             /\ \A j \in 1..Len(handlerQueue) : handlerQueue'[j] = handlerQueue[j]
             /\ handlerQueue'[Len(handlerQueue) + 1] = r /\ stage = "waiting"
    <3>1. ASSUME NEW j \in 1..Len(handlerQueue')
          PROVE  handlerQueue'[j] = arrived'[Started' + j]
      <4>1. Started \in Nat /\ Started + Len(handlerQueue) = Len(arrived)
        BY <1>0 DEF Started, OrderInv
      <4>2. CASE j <= Len(handlerQueue)
        <5>1. handlerQueue[j] = arrived[Started + j] /\ Started + j \in 1..Len(arrived)
          BY <1>0, <4>1, <4>2 DEF OrderInv
        <5> QED
          BY <1>0, <1>5, <2>2, <4>2, <5>1
      <4>3. CASE j = Len(handlerQueue) + 1
        BY <1>0, <1>5, <2>2, <4>1, <4>3
      <4> QED
        BY <1>0, <2>2, <4>2, <4>3
    <3>2. \A i, j \in 1..Len(arrived') : arrived'[i] = arrived'[j] => i = j
      BY <1>0, <1>4, <1>5, <2>2 DEF OrderInv
    <3>3. ASSUME NEW i \in 1..Len(arrived')
          PROVE  /\ pc'[arrived'[i]] \notin {"idle", "thrown"}
                 /\ i > Started' <=> pc'[arrived'[i]] = "waiting"
      <4>1. CASE i = Len(arrived) + 1
        <5>1. pc'[arrived'[i]] = "waiting"
          BY <1>7, <2>2, <4>1
        <5>2. Started' < Len(arrived) + 1
          BY <1>0, <1>5, StartedFacts
        <5> QED
          BY <4>1, <5>1, <5>2
      <4>2. CASE i \in 1..Len(arrived)
        <5>1. pc'[arrived'[i]] = pc[arrived[i]]
          BY <1>0, <1>4, <1>5, <1>7, <4>2
        <5> QED
          BY <1>0, <1>5, <4>2, <5>1 DEF OrderInv
      <4> QED
        BY <1>0, <2>2, <4>1, <4>2
    <3>4. ASSUME NEW s \in Requests, pc'[s] \in {"decrypt", "stuck"}
          PROVE  running' = s /\ Started' > 0 /\ s = arrived'[Started']
      <4>1. running = s /\ Started > 0 /\ s = arrived[Started]
        BY <1>0, <1>7, <2>2, <3>4 DEF OrderInv
      <4>2. Started \in 1..Len(arrived)
        BY <1>0, <4>1, StartedFacts
      <4> QED
        BY <1>0, <1>5, <4>1, <4>2
    <3> QED
      BY <1>0, <2>2, <3>1, <3>2, <3>3, <3>4 DEF OrderInv
  <2> QED
    BY <1>5, <2>1, <2>2
<1>9. KeyInv'
  <2>1. PICK n \in Nat : n = Started /\ n <= Len(arrived)
    BY <1>0 DEF Started, OrderInv
  <2>2. Same(n)
    BY <1>0, <1>6, <2>1 DEF Same
  <2> QED
    BY <1>0, <1>5, <2>1, <2>2, KeyKept DEF IInv
<1>10. SignedInArrivalOrder'
  <2>1. PICK n \in Nat : n = Len(arrived)
    BY <1>0
  <2>2. \A i \in (n + 1)..Len(arrived') : SignedAt(i)'
    BY <1>0, <1>1, <1>5, <2>1 DEF SignedAt, Answered, RequestsTypeOK
  <2> QED
    BY <1>0, <1>5, <1>6, <2>1, <2>2, SignedAll DEF IInv
<1> QED
  BY <1>2, <1>3, <1>8, <1>9, <1>10 DEF IInv, RequestsInv

\* The head of the queue starts: it is the next in the order of arrival.
LEMMA StartStep ==
    ASSUME IInv, NEW r \in Requests, Start(r)
    PROVE  IInv'
<1>0. /\ TypeOK /\ StageInv /\ OrderInv /\ RequestsInv /\ RequestsTypeOK
      /\ Len(handlerQueue) \in Nat /\ Len(arrived) \in Nat
      /\ \A i \in 1..Len(arrived) : arrived[i] \in Requests
      /\ running = NoRequest /\ handlerQueue # <<>> /\ Head(handlerQueue) = r
      /\ handlerQueue' = Tail(handlerQueue)
      /\ UNCHANGED <<privateKey, call, restarts, arrived>>
  BY Invs, Lengths DEF IInv, RequestsInv, Start, IsNext
<1>1. PICK n \in Nat : n = Started
  BY <1>0, StartedFacts
<1>2. /\ Len(handlerQueue') = Len(handlerQueue) - 1 /\ Started' = n + 1
      /\ \A j \in 1..Len(handlerQueue') : handlerQueue'[j] = handlerQueue[j + 1]
      /\ n + 1 \in 1..Len(arrived) /\ r = arrived[n + 1]
      /\ handlerQueue' \in Seq(Requests) /\ Len(handlerQueue') \in Nat
      /\ Len(arrived) = n + Len(handlerQueue)
  <2>1. /\ Len(handlerQueue') = Len(handlerQueue) - 1 /\ Len(handlerQueue) > 0
        /\ \A j \in 1..Len(handlerQueue') : handlerQueue'[j] = handlerQueue[j + 1]
        /\ handlerQueue' \in Seq(Requests) /\ r = handlerQueue[1]
    BY <1>0, TailFacts DEF TypeOK
  <2>2. r = arrived[n + 1]
    BY <1>0, <1>1, <2>1 DEF OrderInv
  <2> QED
    BY <1>0, <1>1, <2>1, <2>2 DEF Started
<1>3. pc[r] = "waiting" /\ answer[r] = Pending /\ call[r].op \in Registered
  BY <1>0, <1>1, <1>2 DEF OrderInv, StageInv
<1>4. PICK stage \in {"reply", "done", "decrypt"}, a \in AnswerType :
         /\ Answered(r, stage, a)
         /\ stage \in {"reply", "done"} <=> a # Pending
         /\ stage = "decrypt" => call[r].op = "UPDATE"
         /\ running' = IF stage = "decrypt" THEN r ELSE running
         /\ call[r].op = "SIGN" => a = ReadAnswer(call[r], privateKey)
         /\ a.kind # "stored"
  <2>1. ReadAnswer(call[r], privateKey).kind # "stored"
    BY DEF ReadAnswer, Answer, Signed
  <2> QED
    BY <1>0, <2>1, AnswerFacts DEF Start, AnswerKinds, RequestsTypeOK, Answer, Pending
<1>5. RequestsInv'
  BY <1>0, <1>3, <1>4, AnsweredKeeps DEF Stages, RequestsTypeOK
<1>6. TypeOK'
  <2>1. \A s \in Requests : pc'[s] # "handler"
    BY <1>0, <1>4 DEF TypeOK, Answered, RequestsTypeOK
  <2>2. arrived' \in Seq(Requests) /\ running' \in Requests \cup {NoRequest}
    BY <1>0, <1>4 DEF TypeOK
  <2> QED
    BY <1>2, <1>5, <2>1, <2>2 DEF TypeOK, RequestsInv
<1>7. /\ \A s \in Requests : pc'[s] = IF s = r THEN stage ELSE pc[s]
      /\ \A s \in Requests : answer'[s] = IF s = r THEN a ELSE answer[s]
  BY <1>0, <1>4 DEF Answered, RequestsTypeOK
<1>8. OrderInv'
  <2>1. \A j \in 1..Len(handlerQueue') : handlerQueue'[j] = arrived'[Started' + j]
    <3>1. ASSUME NEW j \in 1..Len(handlerQueue') PROVE handlerQueue'[j] = arrived[n + 1 + j]
      <4>1. j + 1 \in 1..Len(handlerQueue) /\ handlerQueue'[j] = handlerQueue[j + 1]
        BY <1>0, <1>2
      <4>2. handlerQueue[j + 1] = arrived[n + (j + 1)] /\ n + (j + 1) = n + 1 + j
        BY <1>0, <1>1, <4>1 DEF OrderInv
      <4> QED
        BY <4>1, <4>2
    <3> QED
      BY <1>0, <1>2, <3>1
  <2>2. \A i, j \in 1..Len(arrived') : arrived'[i] = arrived'[j] => i = j
    BY <1>0 DEF OrderInv
  <2>3. \A i \in 1..Len(arrived') :
           /\ pc'[arrived'[i]] \notin {"idle", "thrown"}
           /\ i > Started' <=> pc'[arrived'[i]] = "waiting"
    BY <1>0, <1>1, <1>2, <1>7 DEF OrderInv
  <2>4. \A s \in Requests : pc'[s] \in {"decrypt", "stuck"} =>
           running' = s /\ Started' > 0 /\ s = arrived'[Started']
    <3>1. ASSUME NEW s \in Requests, s # r PROVE pc'[s] \notin {"decrypt", "stuck"}
      BY <1>0, <1>7, <3>1, CallsAssumption DEF CallsAssumption, OrderInv
    <3> QED
      BY <1>0, <1>2, <1>4, <1>7, <3>1
  <2> QED
    BY <1>0, <1>2, <2>1, <2>2, <2>3, <2>4 DEF OrderInv
<1>9. Same(n)
  BY <1>0, <1>1, <1>2, <1>7 DEF Same, OrderInv
<1>10. KeyInv'
  BY <1>0, <1>1, <1>2, <1>4, <1>7, <1>9, KeyKept DEF IInv
<1>11. SignedInArrivalOrder'
  <2>1. ASSUME NEW i \in (n + 1)..Len(arrived'), i # n + 1 PROVE SignedAt(i)'
    <3>1. answer'[arrived'[i]] = Pending
      BY <1>0, <1>1, <1>2, <1>7, <2>1 DEF OrderInv, StageInv
    <3> QED
      BY <3>1, AnswerFacts DEF SignedAt, Answer, Pending
  <2>2. SignedAt(n + 1)'
    <3>1. StoredBefore(n + 1)' = StoredBefore(n + 1)
      BY <1>9, StoredSame
    <3>2. KeyOf(privateKey, n)
      BY <1>1 DEF IInv, KeyInv
    <3>3. ReadAnswer(call[r], NoKey) = Answer("error") \/ call[r].op # "SIGN"
      BY DEF ReadAnswer
    <3>4. arrived'[n + 1] = r /\ call' = call /\ answer'[r] = a
          /\ \A j \in 1..n : arrived'[j] = arrived[j]
      BY <1>0, <1>2, <1>7
    <3>5. StoredBefore(n + 1) \subseteq 1..n
      BY DEF StoredBefore
    <3>6. ASSUME call[r].op = "SIGN"
          PROVE  IF StoredBefore(n + 1) = {} THEN a = Answer("error")
                 ELSE \E j \in StoredBefore(n + 1) :
                         /\ \A m \in StoredBefore(n + 1) : m <= j
                         /\ a = ReadAnswer(call[r], call[arrived[j]].key)
      BY <1>4, <3>2, <3>3, <3>6 DEF KeyOf
    <3> QED
      BY <3>1, <3>4, <3>5, <3>6 DEF SignedAt
  <2>3. \A i \in (n + 1)..Len(arrived') : SignedAt(i)'
    BY <2>1, <2>2
  <2> QED
    BY <1>0, <1>9, <2>3, SignedAll DEF IInv
<1> QED
  BY <1>5, <1>6, <1>8, <1>10, <1>11 DEF IInv, RequestsInv

\* The handler whose promise settles is that of the last request that started.
LEMMA DecryptReplyStep ==
    ASSUME IInv, NEW r \in Requests, DecryptReply(r)
    PROVE  IInv'
<1>0. /\ TypeOK /\ StageInv /\ OrderInv /\ RequestsInv /\ RequestsTypeOK
      /\ Len(handlerQueue) \in Nat /\ Len(arrived) \in Nat
      /\ \A i \in 1..Len(arrived) : arrived[i] \in Requests
      /\ pc[r] = "decrypt" /\ Decrypted(r) /\ running' = NoRequest
      /\ UNCHANGED <<call, restarts, handlerQueue, arrived>>
  BY Invs, Lengths DEF IInv, RequestsInv, DecryptReply, Decrypted, Settled
<1>1. PICK n \in Nat : n + 1 = Started
  <2>1. Started \in Nat /\ Started > 0
    BY <1>0, StartedFacts DEF OrderInv
  <2>2. Started - 1 \in Nat /\ (Started - 1) + 1 = Started
    BY <2>1
  <2> QED
    BY <2>2
<1>2. /\ r = arrived[n + 1] /\ Started' = Started /\ n + 1 \in 1..Len(arrived)
      /\ answer[r] = Pending /\ call[r].op = "UPDATE"
  <2>1. r = arrived[n + 1] /\ Started' = Started
    BY <1>0, <1>1 DEF OrderInv, Started
  <2>2. n + 1 <= Len(arrived)
    BY <1>0, <1>1, StartedFacts
  <2> QED
    BY <1>0, <2>1, <2>2 DEF StageInv
<1>3. PICK stage \in {"reply", "done"}, a \in AnswerType \ {Pending} :
         /\ Answered(r, stage, a)
         /\ IF a.kind = "stored" THEN privateKey' = call[r].key ELSE UNCHANGED privateKey
  BY <1>0, AnswerFacts DEF Decrypted, AnswerKinds
<1>4. RequestsInv'
  BY <1>0, DecryptedKeeps
<1>5. TypeOK'
  <2>1. \A s \in Requests : pc'[s] # "handler"
    BY <1>0, <1>3 DEF TypeOK, Answered, RequestsTypeOK
  <2> QED
    BY <1>0, <1>4, <2>1 DEF TypeOK, RequestsInv
<1>6. /\ \A s \in Requests : pc'[s] = IF s = r THEN stage ELSE pc[s]
      /\ \A s \in Requests : answer'[s] = IF s = r THEN a ELSE answer[s]
  BY <1>0, <1>3 DEF Answered, RequestsTypeOK
<1>7. OrderInv'
  <2>1. \A i \in 1..Len(arrived') :
           /\ pc'[arrived'[i]] \notin {"idle", "thrown"}
           /\ i > Started' <=> pc'[arrived'[i]] = "waiting"
    <3>1. ASSUME NEW i \in 1..Len(arrived)
          PROVE  /\ pc'[arrived[i]] \notin {"idle", "thrown"}
                 /\ i > Started <=> pc'[arrived[i]] = "waiting"
      <4>1. arrived[i] \in Requests
        BY <1>0
      <4>2. pc[arrived[i]] \notin {"idle", "thrown"} /\ (i > Started <=> pc[arrived[i]] = "waiting")
        BY <1>0 DEF OrderInv
      <4> QED
        BY <1>0, <1>6, <4>1, <4>2
    <3> QED
      BY <1>0, <1>2, <3>1
  <2>2. \A s \in Requests : pc'[s] \notin {"decrypt", "stuck"}
    BY <1>0, <1>6 DEF OrderInv
  <2> QED
    BY <1>0, <1>2, <2>1, <2>2 DEF OrderInv
<1>8. Same(n)
  BY <1>0, <1>2, <1>6 DEF Same, OrderInv
<1>9. KeyInv'
  <2>1. KeyOf(privateKey, n + 1)
    BY <1>1 DEF IInv, KeyInv
  <2>2. StoredBefore(n + 1)' = StoredBefore(n + 1) /\ StoredBefore(n + 1) \subseteq 1..n
    BY <1>8, StoredSame DEF StoredBefore
  <2>3. /\ StoredBefore(n + 1 + 1) = StoredBefore(n + 1)
        /\ StoredBefore(n + 1 + 1)' = StoredBefore(n + 1) \cup
              (IF a.kind = "stored" THEN {n + 1} ELSE {})
    <3>1. answer[arrived[n + 1]].kind # "stored" /\ answer'[arrived'[n + 1]] = a
      BY <1>0, <1>2, <1>6 DEF Pending, Answer
    <3> QED
      BY <2>2, <3>1 DEF StoredBefore
  <2>4. CASE a.kind = "stored"
    <3>1. StoredBefore(n + 1 + 1)' = StoredBefore(n + 1) \cup {n + 1}
      BY <2>3, <2>4
    <3>2. \A m \in StoredBefore(n + 1 + 1)' : m <= n + 1
      BY <2>2, <3>1
    <3>3. privateKey' = call'[arrived'[n + 1]].key
      BY <1>0, <1>2, <1>3, <2>4
    <3>4. KeyOf(privateKey, n + 1)'
      BY <3>1, <3>2, <3>3 DEF KeyOf
    <3> QED
      BY <1>1, <1>2, <3>4 DEF KeyInv, KeyOf
  <2>5. CASE a.kind # "stored"
    BY <1>0, <1>1, <1>2, <1>3, <2>1, <2>2, <2>3, <2>5 DEF KeyInv, KeyOf
  <2> QED
    BY <2>4, <2>5
<1>10. SignedInArrivalOrder'
  <2>1. ASSUME NEW i \in (n + 1)..Len(arrived') PROVE SignedAt(i)'
    <3>1. CASE i = n + 1
      BY <1>0, <1>2, <3>1 DEF SignedAt
    <3>2. CASE i # n + 1
      <4>1. answer'[arrived'[i]] = Pending
        BY <1>0, <1>1, <1>2, <1>6, <2>1, <3>2 DEF OrderInv, StageInv
      <4> QED
        BY <4>1, AnswerFacts DEF SignedAt, Answer, Pending
    <3> QED
      BY <3>1, <3>2
  <2> QED
    BY <1>0, <1>8, <2>1, SignedAll DEF IInv
<1> QED
  BY <1>4, <1>5, <1>7, <1>9, <1>10 DEF IInv, RequestsInv

\* A step that only moves a request on answers nothing and stores nothing.
LEMMA MoveStep ==
    ASSUME IInv, NEW r \in Requests, NEW stage \in {"stuck", "reply", "done"},
           pc' = [pc EXCEPT ![r] = stage], pc[r] \in {"decrypt", "reply"},
           stage = "stuck" => pc[r] = "decrypt",
           stage # "stuck" => pc[r] = "reply",
           UNCHANGED <<privateKey, handlerQueue, running, call, answer, restarts, arrived>>
    PROVE  IInv'
<1>0. TypeOK /\ StageInv /\ OrderInv /\ RequestsTypeOK
  BY DEF IInv, TypeOK
<1>1. \A s \in Requests : pc'[s] = IF s = r THEN stage ELSE pc[s]
  BY <1>0 DEF RequestsTypeOK
<1>2. TypeOK'
  BY <1>0, <1>1 DEF TypeOK, RequestsTypeOK, Stages
<1>3. StageInv'
  BY <1>0, <1>1 DEF StageInv, Registered
<1>4. OrderInv'
  BY <1>0, <1>1, Lengths DEF OrderInv, Started
<1>5. KeyInv' /\ SignedInArrivalOrder'
  BY DEF IInv, KeyInv, KeyOf, Started, StoredBefore, SignedInArrivalOrder
<1> QED
  BY <1>2, <1>3, <1>4, <1>5 DEF IInv

LEMMA EndStep ==
    ASSUME IInv, Die, ChainLost, restarts' \in 0..MaxRestarts
    PROVE  IInv'
<1>1. RequestsInv'
  BY Invs, DieKeeps
<1>2. /\ \A r \in Requests : pc'[r] \in {"idle", "done"}
      /\ handlerQueue' = <<>> /\ arrived' = <<>> /\ running' = NoRequest
      /\ privateKey' = NoKey
  BY DEF Die, ChainLost
<1>3. TypeOK'
  BY <1>1, <1>2 DEF TypeOK, RequestsInv
<1>4. OrderInv' /\ KeyInv' /\ SignedInArrivalOrder'
  BY <1>2, NothingArrived
<1> QED
  BY <1>1, <1>3, <1>4 DEF IInv, RequestsInv

LEMMA Inductiveness == IInv /\ [Next]_vars => IInv'
<1> SUFFICES ASSUME IInv, [Next]_vars PROVE IInv'
  OBVIOUS
<1>1. ASSUME NEW r \in Requests, NEW c \in Calls, Receive(r, c) PROVE IInv'
  BY <1>1, ReceiveStep
<1>2. ASSUME NEW r \in Requests, Handle(r) PROVE IInv'
  <2>1. CASE Start(r)
    BY <2>1, StartStep
  <2>2. CASE Respond(r)
    BY <2>2, MoveStep DEF Respond, WriteResponse
  <2> QED
    BY <1>2, <2>1, <2>2 DEF Handle
<1>3. ASSUME NEW r \in Requests, NodeReply(r) PROVE IInv'
  <2>1. CASE DecryptReply(r)
    BY <2>1, DecryptReplyStep
  <2>2. CASE ResponseCut(r)
    BY <2>2, MoveStep DEF ResponseCut
  <2> QED
    BY <1>3, <2>1, <2>2 DEF NodeReply
<1>4. CASE Crash
  <2>1. restarts' \in 0..MaxRestarts
    BY <1>4 DEF Crash, IInv, TypeOK, RequestsTypeOK
  <2> QED
    BY <1>4, <2>1, EndStep DEF Crash
<1>5. CASE Restart
  <2>1. restarts' \in 0..MaxRestarts
    BY <1>5, ScriptServerAssumption
       DEF ScriptServerAssumption, Restart, IInv, TypeOK, RequestsTypeOK
  <2> QED
    BY <1>5, <2>1, EndStep DEF Restart
<1>6. CASE UNCHANGED vars
  <2>1. TypeOK' /\ StageInv'
    BY <1>6 DEF vars, requestVars, IInv, TypeOK, RequestsTypeOK, StageInv
  <2>2. OrderInv'
    BY <1>6 DEF vars, requestVars, IInv, OrderInv, Started
  <2>3. KeyInv' /\ SignedInArrivalOrder'
    BY <1>6 DEF vars, requestVars, IInv, KeyInv, KeyOf, Started, StoredBefore,
                SignedInArrivalOrder
  <2> QED
    BY <2>1, <2>2, <2>3 DEF IInv
<1> QED
  BY <1>1, <1>2, <1>3, <1>4, <1>5, <1>6 DEF Next

------------------------------------------------------------------------------
\* The strengthening of the properties below holds in every state.
THEOREM Inductive == Spec => []IInv
BY Initially, Inductiveness, PTL DEF Spec

\* TypeOK: the TypeScript server's type invariant.
THEOREM TypeCorrect == Spec => []TypeOK
<1>1. IInv => TypeOK
  BY DEF IInv
<1> QED
  BY <1>1, Inductive, PTL

\* OneHandlerAtATime: "Only one handler runs at a time" (base-spec.md), also while
\* that one awaits the node.
THEOREM OneHandler == Spec => []OneHandlerAtATime
<1>1. IInv => OneHandlerAtATime
  <2> SUFFICES ASSUME IInv PROVE OneHandlerAtATime
    OBVIOUS
  <2> DEFINE inside == {r \in Requests : pc[r] \in {"handler", "decrypt", "stuck"}}
  <2>1. inside \subseteq {running}
    BY DEF IInv, TypeOK, OrderInv
  <2>2. IsFiniteSet({running}) /\ Cardinality({running}) = 1
    BY FS_Singleton
  <2>3. Cardinality(inside) <= 1
    BY <2>1, <2>2, FS_Subset
  <2> QED
    BY <2>3 DEF OneHandlerAtATime
<1> QED
  BY <1>1, Inductive, PTL

\* SignedInArrivalOrder: the calls take effect in the order in which they arrived.
THEOREM ArrivalOrder == Spec => []SignedInArrivalOrder
<1>1. IInv => SignedInArrivalOrder
  BY DEF IInv
<1> QED
  BY <1>1, Inductive, PTL

\* Every step of the server is a step of the service, or none.
LEMMA StepRefines == IInv /\ [Next]_vars => [Service!Next]_(Service!vars)
<1> SUFFICES ASSUME IInv, [Next]_vars PROVE Service!Next \/ UNCHANGED Service!vars
  OBVIOUS
<1>0. RequestsInv /\ RequestsTypeOK /\ StageInv
  BY Invs DEF RequestsInv
<1>1. ASSUME NEW r \in Requests, NEW c \in Calls, Receive(r, c) PROVE Service!Next
  <2>1. c = NullCall => c.op = "OTHER"
    BY DEF NullCall, PlainCall
  <2> QED
    BY <1>0, <1>1, <2>1, ReceiveRefines DEF Receive
<1>2. ASSUME NEW r \in Requests, Start(r) PROVE Service!Next \/ UNCHANGED Service!vars
  <2>1. pc[r] = "waiting"
    <3>1. handlerQueue # <<>> /\ r = handlerQueue[1] /\ Len(handlerQueue) > 0
      BY <1>2, TailFacts DEF Start, IsNext, IInv, TypeOK
    <3>2. /\ Started \in Nat /\ Started + Len(handlerQueue) = Len(arrived)
          /\ Len(handlerQueue) \in Nat
      BY StartedFacts, Lengths DEF IInv
    <3>3. handlerQueue[1] = arrived[Started + 1] /\ Started + 1 \in 1..Len(arrived)
      BY <3>1, <3>2 DEF IInv, OrderInv
    <3> QED
      BY <3>1, <3>2, <3>3 DEF IInv, OrderInv
  <2>2. answer[r] = Pending
    BY <1>0, <2>1 DEF StageInv
  <2> QED
    BY <1>0, <1>2, <2>2, ReadRefines, FailRefines, MoveRefines DEF Start
<1>3. ASSUME NEW r \in Requests, Respond(r) PROVE Service!Next
  BY <1>0, <1>3, ResponseRefines DEF Respond
<1>4. ASSUME NEW r \in Requests, DecryptReply(r) PROVE Service!Next
  BY <1>0, <1>4, DecryptedRefines DEF DecryptReply
<1>5. ASSUME NEW r \in Requests, ResponseCut(r) PROVE UNCHANGED Service!vars
  BY <1>0, <1>5 DEF ResponseCut, Service!vars, Sent, RequestsTypeOK
<1>6. CASE Crash \/ Restart
  BY <1>0, <1>6, DieRefines DEF Crash, Restart
<1>7. CASE UNCHANGED vars
  BY <1>7 DEF vars, requestVars, Service!vars, Sent
<1> QED
  BY <1>1, <1>2, <1>3, <1>4, <1>5, <1>6, <1>7 DEF Next, Handle, NodeReply

\* ImplementsService: the TypeScript server executes every call at one moment, and
\* a failed update leaves the old key.
THEOREM Refinement == Spec => ImplementsService
<1>1. Init => Service!Init
  BY InitRefines DEF Init
<1> QED
  BY <1>1, StepRefines, Inductive, PTL DEF Spec, ImplementsService, Service!Spec
================================================================================
