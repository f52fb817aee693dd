---------------------------- MODULE ServerProcesses ----------------------------
(***************************************************************************)
(* The server process that a deployment starts: .env's LANGUAGE selects    *)
(* Python, TypeScript or Go.  For Python and TypeScript this is the server *)
(* with its requests; for Go it is the process around the extension server *)
(* of module SignExtension, in each of its three programs.                 *)
(***************************************************************************)
EXTENDS ScriptServer

VARIABLES
    language,
    mu,                                   \* Python's lock
    handlerQueue, running, arrived,       \* TypeScript's chain
    program, portTaken, main, server, errCh, signal, late,
    inFlight, sent, ended, cut            \* the Go process

lockVars == <<mu>>
queueVars == <<handlerQueue, running, arrived>>
goVars == <<program, portTaken, main, server, errCh, signal, late, inFlight, sent, ended, cut>>
vars == <<language, requestVars, lockVars, queueVars, goVars>>

Python == INSTANCE LockServer
TypeScript == INSTANCE QueueServer
Go == INSTANCE NodeProcess

Init ==
    /\ language \in {"python", "typescript", "go"}
    /\ Python!Init /\ TypeScript!Init
    /\ Go!Init
    /\ language # "go" => program = "standalone" /\ ~ portTaken

\* A step of one server; the variables of the other two are not in use.
InPython(A) == language = "python" /\ A /\ UNCHANGED <<language, queueVars, goVars>>
InTypeScript(A) == language = "typescript" /\ A /\ UNCHANGED <<language, lockVars, goVars>>
InGo(A) == language = "go" /\ A /\ UNCHANGED <<language, requestVars, lockVars, queueVars>>

Next == InPython(Python!Next) \/ InTypeScript(TypeScript!Next) \/ InGo(Go!Next)

\* The interpreter runs every thread on, and the event loop every continuation.
\* A Lock is not fair, but finitely many requests cannot overtake a waiting one
\* for ever.
Run(r) == InPython(Python!Handle(r)) \/ InTypeScript(TypeScript!Handle(r) \/ TypeScript!Crash)

\* A healthy node starts a response to every /decrypt; its connection may break.
NodeReply(r) == InPython(Python!DecryptReply(r)) \/ InTypeScript(TypeScript!NodeReply(r))

FairSpec ==
    /\ Init /\ [][Next]_vars
    /\ \A r \in Requests : WF_vars(Run(r)) /\ WF_vars(NodeReply(r))
    /\ WF_vars(InGo(Go!Goroutines))

------------------------------------------------------------------------------
TypeOK ==
    CASE language = "python"     -> Python!TypeOK
      [] language = "typescript" -> TypeScript!TypeOK
      [] language = "go"         -> Go!TypeOK

\* Of QueueServer: requests take effect in the order in which they arrived.
SignedInArrivalOrder == TypeScript!SignedInArrivalOrder

\* Of NodeProcess: a process without a listener ends, and so does one that gets
\* a signal, but for what start-tee cannot hear.
FailsFast == Go!FailsFast
SignalEnds == Go!SignalEnds
================================================================================
