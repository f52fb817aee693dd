----------------------------- MODULE SignExtension -----------------------------
(***************************************************************************)
(* The Go extension server.  net/http runs every request in a goroutine of *)
(* its own, so handlers interleave; the RWMutex "mu" guards the key and    *)
(* the books, and is not held while the node decrypts a message.           *)
(***************************************************************************)
EXTENDS EnclaveCalls

CONSTANTS
    Calls,        \* the calls the node may send, some of CallType
    MaxRestarts   \* bound on the restarts of the enclave

ASSUME ExtensionAssumption ==
    /\ Calls \subseteq CallType
    /\ MaxRestarts \in Nat

VARIABLES
    privateKey,   \* Extension.privateKey
    openOrders,   \* Extension.openOrders; an entry is the request it came in
    writer,       \* holder of mu.Lock(), or NoRequest
    readers,      \* holders of mu.RLock()
    pc,           \* where the goroutine of each request is
    call,         \* what each request asked
    book,         \* processOrderMatch's local copy of a book
    copied,       \* the key a SIGN or STATE handler read under the lock
    answer,       \* what each request was answered
    restarts,     \* number of restarts so far
    forgotten     \* history: the orders a restart took along

state  == <<privateKey, openOrders>>
mu     == <<writer, readers>>
locals == <<book, copied>>
vars   == <<state, mu, pc, call, locals, answer, restarts, forgotten>>

Stages == {"idle", "decrypt", "lock", "critical", "rlock", "reading", "copied",
           "reply", "done"}

Init ==
    /\ privateKey = NoKey
    /\ openOrders = [p \in Pairs |-> <<>>]
    /\ writer = NoRequest
    /\ readers = {}
    /\ pc = [r \in Requests |-> "idle"]
    /\ call = [r \in Requests |-> NoCall]
    /\ book = [r \in Requests |-> <<>>]
    /\ copied = [r \in Requests |-> NoKey]
    /\ answer = [r \in Requests |-> Pending]
    /\ restarts = 0
    /\ forgotten = {}

Goto(r, stage) == pc' = [pc EXCEPT ![r] = stage]

Answered(r, stage, a) ==
    /\ Goto(r, stage)
    /\ answer' = [answer EXCEPT ![r] = a]

\* The handler has returned; the response is still to be written.
Finish(r, a) == Answered(r, "reply", a)

\* A refusal changes nothing, so it is written at once.
Refuse(r, a) == Answered(r, "done", a)

\* A slip to compare with: an early return that keeps the lock.
Unlock_forgotten == UNCHANGED writer

\* mu.Unlock()
Unlock == writer' = NoRequest

------------------------------------------------------------------------------
\* actionHandler, processAction, processKey and processOrder up to the first
\* thing that can block; stateHandler goes straight to the read lock.
Receive(r, c) ==
    /\ pc[r] = "idle"
    /\ call' = [call EXCEPT ![r] = c]
    /\ \/ /\ c.op = "OTHER"
          /\ Refuse(r, Answer("refused"))
       \/ /\ c.op \in {"UPDATE", "MATCH"} /\ c.message = "empty"
          /\ Refuse(r, Answer("error"))
       \/ /\ c.op \in {"UPDATE", "MATCH"} /\ c.message # "empty"
          /\ Goto(r, "decrypt")
          /\ UNCHANGED answer
       \/ /\ c.op \in {"SIGN", "STATE"}
          /\ Goto(r, "rlock")
          /\ UNCHANGED answer
    /\ UNCHANGED <<state, mu, locals, restarts, forgotten>>

\* decryptViaNode returns: an error of the node, or a plaintext, which the
\* handler then parses.  The call has no timeout, so it may never return.
DecryptReply(r) ==
    /\ pc[r] = "decrypt"
    /\ \/ Refuse(r, Answer("error"))
       \/ /\ call[r].message = "good"
          /\ Goto(r, "lock")
          /\ UNCHANGED answer
    /\ UNCHANGED <<state, mu, call, locals, restarts, forgotten>>

\* A slip to compare with: MATCH and UPDATE take the lock as readers do.
CanLock_shared == readers = {}

\* mu.Lock() waits for every other holder.
CanLock == writer = NoRequest /\ readers = {}

\* mu.Lock(); a MATCH then reads the book of its pair.
Lock(r) ==
    /\ pc[r] = "lock"
    /\ CanLock
    /\ writer' = r
    /\ Goto(r, "critical")
    /\ book' = IF call[r].op = "MATCH"
               THEN [book EXCEPT ![r] = openOrders[call[r].order.pair]]
               ELSE book
    /\ UNCHANGED <<state, readers, call, copied, answer, restarts, forgotten>>

\* A slip to compare with: the bytes are stored as they came.
StoreKey_unparsed(r) ==
    /\ pc[r] = "critical" /\ call[r].op = "UPDATE"
    /\ privateKey' = call[r].message
    /\ Unlock
    /\ Finish(r, Answer("stored"))
    /\ UNCHANGED <<openOrders, readers, call, locals, restarts, forgotten>>

\* The end of processKeyUpdate: store the key, unlock, return.
StoreKey(r) ==
    /\ pc[r] = "critical" /\ call[r].op = "UPDATE"
    /\ privateKey' = call[r].key
    /\ Unlock
    /\ Finish(r, Answer("stored"))
    /\ UNCHANGED <<openOrders, readers, call, locals, restarts, forgotten>>

\* A slip to compare with: the loop stops before the newest order.
Crossing_short(r) ==
    {i \in 1..(Len(book[r]) - 1) : Crosses(call[r].order, call[book[r][i]].order)}

\* The positions in the local book that the incoming order crosses; the loop
\* takes the first.
Crossing(r) ==
    {i \in 1..Len(book[r]) : Crosses(call[r].order, call[book[r][i]].order)}

\* The rest of processOrderMatch: remove the first crossing order and sign
\* (without a key the match stays unsigned), or rest the incoming order.
MatchOrder(r) ==
    /\ pc[r] = "critical" /\ call[r].op = "MATCH"
    /\ LET pair == call[r].order.pair
       IN  \/ \E i \in Crossing(r) :
                 /\ \A j \in Crossing(r) : i <= j
                 /\ openOrders' = [openOrders EXCEPT ![pair] =
                       SubSeq(book[r], 1, i - 1)
                          \o SubSeq(book[r], i + 1, Len(book[r]))]
                 /\ Finish(r, Matched(privateKey, book[r][i]))
           \/ /\ Crossing(r) = {}
              /\ openOrders' = [openOrders EXCEPT ![pair] = Append(book[r], r)]
              /\ Finish(r, Answer("resting"))
    /\ Unlock
    /\ book' = [book EXCEPT ![r] = <<>>]
    /\ UNCHANGED <<privateKey, readers, call, copied, restarts, forgotten>>

\* A slip to compare with: the lock covers the wait for the node.
CanRLock_decrypting ==
    writer = NoRequest /\ \A r \in Requests : pc[r] # "decrypt"

\* mu.RLock() waits for a writer only.
CanRLock == writer = NoRequest

RLock(r) ==
    /\ pc[r] = "rlock"
    /\ CanRLock
    /\ readers' = readers \cup {r}
    /\ Goto(r, "reading")
    /\ UNCHANGED <<state, writer, call, locals, answer, restarts, forgotten>>

\* Copy the key and unlock.
CopyKey(r) ==
    /\ pc[r] = "reading"
    /\ copied' = [copied EXCEPT ![r] = privateKey]
    /\ readers' = readers \ {r}
    /\ Goto(r, "copied")
    /\ UNCHANGED <<state, writer, call, book, answer, restarts, forgotten>>

\* Sign with the copy, or report whether there is a key, outside the lock.
AnswerFromCopy(r) ==
    /\ pc[r] = "copied"
    /\ Answered(r, "done", ReadAnswer(call[r], copied[r]))
    /\ copied' = [copied EXCEPT ![r] = NoKey]
    /\ UNCHANGED <<state, mu, call, book, restarts, forgotten>>

\* net/http writes the response of a handler that has returned.
WriteResponse(r) ==
    /\ pc[r] = "reply"
    /\ Goto(r, "done")
    /\ UNCHANGED <<state, mu, call, locals, answer, restarts, forgotten>>

RangeOf(seq) == {seq[i] : i \in 1..Len(seq)}
Resting == UNION {RangeOf(openOrders[p]) : p \in Pairs}

\* Orders given to a match whose response is not written yet.
InFlight == {answer[r].with : r \in {s \in Requests : pc[s] = "reply"
                                        /\ answer[s].kind = "matched"}}

\* The process is replaced: its memory, its locks and its requests are gone.
Restart ==
    /\ restarts < MaxRestarts
    /\ restarts' = restarts + 1
    /\ forgotten' = forgotten \cup Resting \cup InFlight
    /\ privateKey' = NoKey
    /\ openOrders' = [p \in Pairs |-> <<>>]
    /\ writer' = NoRequest
    /\ readers' = {}
    /\ book' = [r \in Requests |-> <<>>]
    /\ copied' = [r \in Requests |-> NoKey]
    /\ pc' = [r \in Requests |-> IF pc[r] = "idle" THEN "idle" ELSE "done"]
    /\ answer' = [r \in Requests |-> IF pc[r] \in {"idle", "done"} THEN answer[r]
                                     ELSE Answer("lost")]
    /\ UNCHANGED call

\* The steps the Go runtime schedules once the request has arrived.
Handle(r) ==
    \/ Lock(r) \/ StoreKey(r) \/ MatchOrder(r)
    \/ RLock(r) \/ CopyKey(r) \/ AnswerFromCopy(r) \/ WriteResponse(r)

Next ==
    \/ \E r \in Requests :
          \/ \E c \in Calls : Receive(r, c)
          \/ DecryptReply(r)
          \/ Handle(r)
    \/ Restart

Spec == Init /\ [][Next]_vars

\* The scheduler lets every goroutine run on; sync.RWMutex does not starve the
\* waiting ones, and the requests are finitely many, so weak fairness is enough.
\* Nothing is assumed of the node: it may never answer a /decrypt.
RuntimeFairness == \A r \in Requests : WF_vars(Handle(r))

FairSpec == Spec /\ RuntimeFairness

------------------------------------------------------------------------------
TypeOK ==
    /\ privateKey \in Keys \cup {NoKey}
    /\ openOrders \in [Pairs -> Seq(Requests)]
    /\ writer \in Requests \cup {NoRequest}
    /\ readers \subseteq Requests
    /\ pc \in [Requests -> Stages]
    /\ call \in [Requests -> CallType \cup {NoCall}]
    /\ book \in [Requests -> Seq(Requests)]
    /\ copied \in [Requests -> Keys \cup {NoKey}]
    /\ answer \in [Requests -> AnswerType]
    /\ restarts \in 0..MaxRestarts
    /\ forgotten \subseteq Requests

\* A book never holds two orders that could have been matched: whatever MATCH
\* handlers interleave, a buy and a sell of the same pair and amount do not
\* rest side by side.
BooksAreUncrossed ==
    \A p \in Pairs : \A r, s \in RangeOf(openOrders[p]) :
        ~ /\ call[r].order.side = "buy" /\ call[s].order.side = "sell"
          /\ call[r].order.amount = call[s].order.amount

\* The requests that were told they were matched with the order of request r.
MatchedWith(r) == {s \in Requests : answer[s].kind = "matched" /\ answer[s].with = r}

\* No order is lost, duplicated or filled twice: an order that came to rest
\* either rests once in its book, or was given to exactly one later order, or
\* went down with a restart (resting, or in a match nobody heard of); and
\* nothing else rests or is filled, except once an order whose sender a
\* restart left without an answer.
OrdersAreAccountedFor ==
    \A r \in Requests :
        LET places == UNION {{<<p, i>> : i \in {n \in 1..Len(openOrders[p]) :
                                    openOrders[p][n] = r}} : p \in Pairs}
            fates == Cardinality(places) + Cardinality(MatchedWith(r))
                        + (IF r \in forgotten THEN 1 ELSE 0)
        IN  CASE answer[r].kind = "resting" -> fates = 1
              [] answer[r].kind = "lost"    -> fates <= 1
              [] OTHER                      -> fates = 0

\* The atomic service this server implements.
EffectiveAnswer ==
    [r \in Requests |-> IF pc[r] = "copied" THEN ReadAnswer(call[r], copied[r])
                        ELSE answer[r]]

Sent == {r \in Requests : pc[r] = "done"}

Service == INSTANCE EnclaveService
             WITH Supported <- {"UPDATE", "SIGN", "MATCH", "STATE"},
                  key <- privateKey, books <- openOrders, answer <- EffectiveAnswer,
                  sent <- Sent

\* Concurrent goroutines with a lock dropped during decryption still behave as
\* if every call were executed alone, in one order that both the answers and
\* the time priority of the books respect.
ImplementsService == Service!Spec

\* A request waits for nothing but the node's answer to its own decryption: it
\* is answered, or dies with a restart, even when the node answers nobody else,
\* because the mutex is not held meanwhile and every path gives it back.
WaitsOnlyForOwnDecryption ==
    \A r \in Requests : []<>(pc[r] \in {"idle", "decrypt", "done"})
==============================================================================
