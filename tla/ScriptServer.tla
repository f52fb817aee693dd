----------------------------- MODULE ScriptServer -----------------------------
(***************************************************************************)
(* What the Python server and the TypeScript server have in common: the    *)
(* operations that they know, their state, and what they promise.  There   *)
(* is no order book: ORDER/MATCH has no handler in either.                 *)
(***************************************************************************)
EXTENDS EnclaveCalls

CONSTANTS
    Calls,        \* the calls the node may send, some of CallType
    MaxRestarts   \* bound on the restarts of the enclave

ASSUME ScriptServerAssumption ==
    /\ Calls \subseteq CallType
    /\ MaxRestarts \in Nat

VARIABLES
    privateKey,   \* the key that the handlers module holds
    pc,           \* where each request is
    call,         \* what each request asked
    answer,       \* what each request was answered
    restarts      \* number of restarts so far

requestVars == <<privateKey, pc, call, answer, restarts>>

\* "handler", which holds the lock, is Python's; a request that is "stuck" behind
\* a response cut off, or that was "thrown" out of, is TypeScript's.
Stages == {"idle", "waiting", "handler", "decrypt", "stuck", "thrown", "reply", "done"}

\* The operations that have a handler; /state needs none.
Registered == {"UPDATE", "SIGN", "STATE"}

RequestsInit ==
    /\ privateKey = NoKey
    /\ pc = [r \in Requests |-> "idle"]
    /\ call = [r \in Requests |-> NoCall]
    /\ answer = [r \in Requests |-> Pending]
    /\ restarts = 0

Answered(r, stage, a) ==
    /\ pc' = [pc EXCEPT ![r] = stage]
    /\ answer' = [answer EXCEPT ![r] = a]

\* A slip to compare with: the bytes are stored before they are validated.
Decrypted_unvalidated(r) ==
    /\ pc[r] = "decrypt"
    /\ \/ Answered(r, "done", Answer("error"))
       \/ call[r].message = "good" /\ Answered(r, "reply", Answer("stored"))
    /\ privateKey' = call[r].message
    /\ UNCHANGED <<call, restarts>>

\* The node answers (nobody sets a timeout, so it may never do): an error, or a
\* plaintext, which is validated and stored.
Decrypted(r) ==
    /\ pc[r] = "decrypt"
    /\ \/ /\ Answered(r, "done", Answer("error"))
          /\ UNCHANGED privateKey
       \/ /\ call[r].message = "good"
          /\ privateKey' = call[r].key
          /\ Answered(r, "reply", Answer("stored"))
    /\ UNCHANGED <<call, restarts>>

WriteResponse(r) ==
    /\ pc[r] = "reply"
    /\ pc' = [pc EXCEPT ![r] = "done"]
    /\ UNCHANGED <<privateKey, call, answer, restarts>>

\* The process ends: its memory and its requests are gone.
Die ==
    /\ privateKey' = NoKey
    /\ pc' = [r \in Requests |-> IF pc[r] = "idle" THEN "idle" ELSE "done"]
    /\ answer' = [r \in Requests |-> IF pc[r] \in {"idle", "done"} THEN answer[r]
                                     ELSE Answer("lost")]
    /\ UNCHANGED call

------------------------------------------------------------------------------
RequestsTypeOK ==
    /\ privateKey \in Keys \cup {NoKey}
    /\ pc \in [Requests -> Stages]
    /\ call \in [Requests -> CallType \cup {NoCall}]
    /\ answer \in [Requests -> AnswerType]
    /\ restarts \in 0..MaxRestarts

\* base-spec.md, "Only one handler runs at a time": also while the handler that
\* runs waits for the node, and whichever handler comes next.
OneHandlerAtATime ==
    Cardinality({r \in Requests : pc[r] \in {"handler", "decrypt", "stuck"}}) <= 1

Sent == {r \in Requests : pc[r] = "done"}

Service == INSTANCE EnclaveService
             WITH Supported <- Registered, key <- privateKey,
                  books <- [p \in Pairs |-> <<>>], sent <- Sent

\* The server is the atomic service without its MATCH operation: a failed
\* update leaves the old key, and a restart loses what was not sent.
ImplementsService == Service!Spec

\* With a node that answers, every request is answered or dies with a restart:
\* each way out of a handler lets the next one start.  Only a response cut off
\* by the node, which TypeScript waits for, can stop that.
EveryRequestEnds ==
    \A r \in Requests :
        (pc[r] # "idle") ~> (pc[r] = "done" \/ \E s \in Requests : pc[s] = "stuck")
================================================================================
