------------------------------ MODULE LockServer ------------------------------
(***************************************************************************)
(* The Python extension server.  ThreadingHTTPServer gives every request a *)
(* thread; one Lock, "mu", is held around the whole handler, the wait for  *)
(* the node's decryption included, and around report_state.                *)
(***************************************************************************)
EXTENDS ScriptServer

VARIABLE mu     \* the thread that holds Server.mu, or NoRequest

vars == <<requestVars, mu>>

Init == RequestsInit /\ mu = NoRequest

\* A slip to compare with: an early return that keeps the lock.
Release_forgotten == mu' = mu

\* The end of the with block.
Release == mu' = NoRequest

\* _process_action up to the lock: parse, look up a handler.
Receive(r, c) ==
    /\ pc[r] = "idle"
    /\ call' = [call EXCEPT ![r] = c]
    /\ \/ c.op \in Registered /\ Answered(r, "waiting", Pending)
       \/ c.op \notin Registered /\ Answered(r, "done", Answer("refused"))
    /\ UNCHANGED <<privateKey, mu, restarts>>

\* A slip to compare with: the handler is called without the lock.
IsFree_unlocked == mu \in Requests \cup {NoRequest}

\* with self.mu: waits for the thread that holds it.
IsFree == mu = NoRequest

Acquire(r) ==
    /\ pc[r] = "waiting"
    /\ IsFree
    /\ mu' = r
    /\ pc' = [pc EXCEPT ![r] = "handler"]
    /\ UNCHANGED <<privateKey, call, answer, restarts>>

\* handle_key_sign and report_state.
ReadKey(r) ==
    /\ pc[r] = "handler" /\ call[r].op \in {"SIGN", "STATE"}
    /\ Answered(r, "reply", ReadAnswer(call[r], privateKey))
    /\ Release
    /\ UNCHANGED <<privateKey, call, restarts>>

\* handle_key_update asks the node, holding the lock.
HandleKeyUpdate(r) ==
    /\ pc[r] = "handler" /\ call[r].op = "UPDATE"
    /\ \/ /\ call[r].message # "good"         \* empty, or not hex
          /\ Answered(r, "done", Answer("error"))
          /\ Release
       \/ /\ call[r].message # "empty"
          /\ Answered(r, "decrypt", Pending)
          /\ UNCHANGED mu
    /\ UNCHANGED <<privateKey, call, restarts>>

DecryptReply(r) == Decrypted(r) /\ Release

Respond(r) == WriteResponse(r) /\ UNCHANGED mu

\* The process is replaced, and with it its lock and its threads.
Restart ==
    /\ restarts < MaxRestarts
    /\ restarts' = restarts + 1
    /\ Die
    /\ mu' = NoRequest

Handle(r) == Acquire(r) \/ ReadKey(r) \/ HandleKeyUpdate(r) \/ Respond(r)

Next ==
    \/ \E r \in Requests :
          \/ \E c \in Calls : Receive(r, c)
          \/ Handle(r) \/ DecryptReply(r)
    \/ Restart

Spec == Init /\ [][Next]_vars

TypeOK ==
    /\ RequestsTypeOK
    /\ mu \in Requests \cup {NoRequest}
    /\ \A r \in Requests : pc[r] \notin {"stuck", "thrown"}
==============================================================================
