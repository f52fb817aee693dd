------------------------------ MODULE QueueServer ------------------------------
(***************************************************************************)
(* The TypeScript extension server: one thread, and a chain of promises,   *)
(* "handlerQueue", on which every handler and every state report waits for *)
(* the one before it to settle.  The decryption of an update is awaited    *)
(* inside the chain.                                                       *)
(***************************************************************************)
EXTENDS ScriptServer

VARIABLES
    handlerQueue, \* the requests chained and not started, first come first
    running,      \* the request whose handler awaits the node, or NoRequest
    arrived       \* history: the requests chained since the start, in order

vars == <<requestVars, handlerQueue, running, arrived>>

Init ==
    /\ RequestsInit
    /\ handlerQueue = <<>> /\ running = NoRequest /\ arrived = <<>>

\* processAction threw: only what the event loop has in hand runs before Node
\* ends the process.
Rejected == \E r \in Requests : pc[r] = "thrown"

\* processAction and processState up to the await of the result.  A message that
\* is the JSON text null makes lookup throw, and nobody handles the rejection.
Receive(r, c) ==
    /\ pc[r] = "idle" /\ ~ Rejected
    /\ call' = [call EXCEPT ![r] = c]
    /\ \/ /\ c.op \in Registered
          /\ Answered(r, "waiting", Pending)
          /\ handlerQueue' = Append(handlerQueue, r)
          /\ arrived' = Append(arrived, r)
       \/ /\ c.op \notin Registered
          /\ IF c = NullCall THEN Answered(r, "thrown", Pending)
                             ELSE Answered(r, "done", Answer("refused"))
          /\ UNCHANGED <<handlerQueue, arrived>>
    /\ UNCHANGED <<privateKey, running, restarts>>

\* A slip to compare with: a handler's promise that is not returned to the
\* chain, so that the next one starts while this one awaits the node.
IsNext_unawaited(r) == handlerQueue # <<>> /\ Head(handlerQueue) = r

\* The head of the chain may run when the promise before it has settled.
IsNext(r) == running = NoRequest /\ handlerQueue # <<>> /\ Head(handlerQueue) = r

\* handleKeySign, reportState, and handleKeyUpdate up to its first await, run
\* in one turn of the event loop.
Start(r) ==
    /\ IsNext(r)
    /\ handlerQueue' = Tail(handlerQueue)
    /\ \/ /\ call[r].op \in {"SIGN", "STATE"}
          /\ Answered(r, "reply", ReadAnswer(call[r], privateKey))
          /\ UNCHANGED running
       \/ /\ call[r].op = "UPDATE" /\ call[r].message # "good"  \* or not hex
          /\ Answered(r, "done", Answer("error"))
          /\ UNCHANGED running
       \/ /\ call[r].op = "UPDATE" /\ call[r].message # "empty"
          /\ Answered(r, "decrypt", Pending)
          /\ running' = r
    /\ UNCHANGED <<privateKey, call, restarts, arrived>>

\* A slip to compare with: a path on which the promise never settles.
Settled_never == running' = running

\* The handler's promise settles, with a result in every case.
Settled == running' = NoRequest

DecryptReply(r) ==
    /\ ~ Rejected
    /\ Decrypted(r) /\ Settled
    /\ UNCHANGED <<handlerQueue, arrived>>

\* The connection breaks after the response headers: "end" never comes, nobody
\* listens for "aborted", so decryptViaNode's promise never settles.
ResponseCut(r) ==
    /\ pc[r] = "decrypt" /\ ~ Rejected
    /\ pc' = [pc EXCEPT ![r] = "stuck"]
    /\ UNCHANGED <<privateKey, handlerQueue, running, call, answer, restarts, arrived>>

Respond(r) == WriteResponse(r) /\ UNCHANGED <<handlerQueue, running, arrived>>

\* A new process has an empty chain.
ChainLost == handlerQueue' = <<>> /\ running' = NoRequest /\ arrived' = <<>>

\* The process ends because of a rejection, or is replaced.
Crash == Rejected /\ Die /\ ChainLost /\ UNCHANGED restarts
Restart ==
    /\ restarts < MaxRestarts
    /\ restarts' = restarts + 1
    /\ Die /\ ChainLost

Handle(r) == Start(r) \/ Respond(r)
NodeReply(r) == DecryptReply(r) \/ ResponseCut(r)

Next ==
    \/ \E r \in Requests :
          \/ \E c \in Calls : Receive(r, c)
          \/ Handle(r) \/ NodeReply(r)
    \/ Crash \/ Restart

Spec == Init /\ [][Next]_vars

------------------------------------------------------------------------------
TypeOK ==
    /\ RequestsTypeOK
    /\ handlerQueue \in Seq(Requests) /\ arrived \in Seq(Requests)
    /\ running \in Requests \cup {NoRequest}
    /\ \A r \in Requests : pc[r] # "handler"

\* The places in the order of arrival where a key was stored, before place i.
StoredBefore(i) == {j \in 1..(i - 1) : answer[arrived[j]].kind = "stored"}

\* Requests take effect in the order in which they arrived, though an update is
\* away at the node for any length of time: a SIGN is answered with the key of
\* the last update that arrived before it and succeeded, and with an error
\* exactly when there is none (or nothing to sign); later updates do not count.
SignedInArrivalOrder ==
    \A i \in 1..Len(arrived) :
        LET a == answer[arrived[i]]
            c == call[arrived[i]]
        IN  c.op = "SIGN" /\ a # Pending =>
              IF StoredBefore(i) = {} THEN a = Answer("error")
              ELSE \E j \in StoredBefore(i) :
                      /\ \A m \in StoredBefore(i) : m <= j
                      /\ a = ReadAnswer(c, call[arrived[j]].key)
================================================================================
