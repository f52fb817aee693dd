----------------------------- MODULE NodeProcess -----------------------------
(***************************************************************************)
(* A Go process with the extension in it, from its start to its end: the   *)
(* extension alone ("standalone", cmd/main.go), with the TEE node in one   *)
(* process ("docker", cmd/docker/main.go), or the same for local tests     *)
(* ("start-tee").  The server listens in a goroutine of its own and tells  *)
(* of its failure on a channel; the main function looks at that channel    *)
(* after 100 ms, and maybe later, and waits for a signal.                  *)
(***************************************************************************)
EXTENDS FiniteSets

CONSTANT Requests   \* HTTP requests, each sent once

VARIABLES
    program,    \* which main function
    portTaken,  \* the extension's port belongs to another process
    main,       \* where the main goroutine is
    server,     \* the listener of the extension
    errCh,      \* an error waits on the server's channel
    signal,     \* SIGTERM: "none", "pending", or "taken" by the shutdown
    late,       \* five seconds have passed since
    inFlight,   \* requests whose handlers run
    sent,       \* the requests so far
    ended,      \* "no", or how the process ended
    cut         \* the requests that its end cut off

vars == <<program, portTaken, main, server, errCh, signal, late, inFlight, sent, ended, cut>>

Programs == {"standalone", "docker", "start-tee"}

Init ==
    /\ program \in Programs /\ portTaken \in BOOLEAN
    /\ main = IF program = "standalone" THEN "listen" ELSE "check"
    /\ server = "unbound" /\ errCh = FALSE
    /\ signal = "none" /\ late = FALSE
    /\ inFlight = {} /\ sent = {}
    /\ ended = "no" /\ cut = {}

Running == ended = "no"

\* The process is over, and with it every handler.
Exit(how) ==
    /\ ended' = how
    /\ cut' = inFlight /\ inFlight' = {}
    /\ UNCHANGED <<program, portTaken, main, server, errCh, signal, late, sent>>

\* ListenAndServe binds the port, or fails.
Listen ==
    /\ Running /\ server = "unbound"
    /\ server' = (IF portTaken THEN "failed" ELSE "serving") /\ errCh' = portTaken
    /\ UNCHANGED <<program, portTaken, main, signal, late, inFlight, sent, ended, cut>>

\* The listener breaks later.
ServerFails ==
    /\ Running /\ server = "serving"
    /\ server' = "failed" /\ errCh' = TRUE
    /\ UNCHANGED <<program, portTaken, main, signal, late, inFlight, sent, ended, cut>>

\* standalone: ListenAndServe returns in the main goroutine, also because of a
\* shutdown that is still waiting for the handlers.
ListenReturns ==
    /\ Running /\ main = "listen"
    /\ \/ server = "failed" /\ Exit("fatal")
       \/ server = "closed" /\ Exit("ok")

\* After 100 ms, when the goroutine may have come to listen or not.
CheckEarly ==
    /\ Running /\ main = "check"
    /\ \/ errCh /\ Exit("fatal")
       \/ /\ ~ errCh
          /\ main' = IF program = "docker" THEN "wait" ELSE "configure"
          /\ UNCHANGED <<program, portTaken, server, errCh, signal, late, inFlight, sent, ended, cut>>

\* start-tee: SetProxyUrl posts to the node and has no timeout.
Configure ==
    /\ Running /\ main = "configure"
    /\ \/ Exit("fatal")
       \/ /\ main' = "wait"
          /\ UNCHANGED <<program, portTaken, server, errCh, signal, late, inFlight, sent, ended, cut>>

\* Slips to compare with: one case of the select is missing.
Wait_signalOnly  == Running /\ main = "wait" /\ signal = "pending" /\ Exit("ok")
Wait_failureOnly == Running /\ main = "wait" /\ program = "docker" /\ errCh /\ Exit("fatal")

\* docker selects between the signal and the server's error; start-tee looks at
\* the signal only.
Wait ==
    /\ Running /\ main = "wait"
    /\ \/ signal = "pending" /\ Exit("ok")
       \/ program = "docker" /\ errCh /\ Exit("fatal")

\* SIGTERM.  docker catches it only when it waits.
Signal ==
    /\ Running /\ signal = "none"
    /\ \/ program = "docker" /\ main = "check" /\ Exit("killed")
       \/ /\ ~ (program = "docker" /\ main = "check")
          /\ signal' = "pending"
          /\ UNCHANGED <<program, portTaken, main, server, errCh, late, inFlight, sent, ended, cut>>

\* standalone's other goroutine: Shutdown closes the listener, then waits for the
\* handlers, for five seconds at most; then the process exits.
Shutdown ==
    /\ Running /\ program = "standalone" /\ signal = "pending"
    /\ signal' = "taken"
    /\ server' = IF server = "failed" THEN "failed" ELSE "closed"
    /\ UNCHANGED <<program, portTaken, main, errCh, late, inFlight, sent, ended, cut>>

TimePasses ==
    /\ Running /\ signal = "taken" /\ late' = TRUE
    /\ UNCHANGED <<program, portTaken, main, server, errCh, signal, inFlight, sent, ended, cut>>

ShutdownReturns ==
    /\ Running /\ signal = "taken" /\ (inFlight = {} \/ late)
    /\ Exit("ok")

Receive(r) ==
    /\ Running /\ server = "serving" /\ r \notin sent
    /\ sent' = sent \cup {r} /\ inFlight' = inFlight \cup {r}
    /\ UNCHANGED <<program, portTaken, main, server, errCh, signal, late, ended, cut>>

Reply(r) ==
    /\ Running /\ r \in inFlight
    /\ inFlight' = inFlight \ {r}
    /\ UNCHANGED <<program, portTaken, main, server, errCh, signal, late, sent, ended, cut>>

Goroutines == Listen \/ ListenReturns \/ CheckEarly \/ Wait \/ Shutdown \/ TimePasses \/ ShutdownReturns

Next ==
    \/ Goroutines \/ ServerFails \/ Configure \/ Signal
    \/ \E r \in Requests : Receive(r) \/ Reply(r)

\* The runtime runs every goroutine on.  The node may leave SetProxyUrl waiting.
Fairness == WF_vars(Goroutines)

Spec == Init /\ [][Next]_vars
FairSpec == Spec /\ Fairness

------------------------------------------------------------------------------
TypeOK ==
    /\ program \in Programs /\ portTaken \in BOOLEAN
    /\ main \in {"listen", "check", "configure", "wait"}
    /\ server \in {"unbound", "serving", "failed", "closed"}
    /\ errCh \in BOOLEAN /\ late \in BOOLEAN
    /\ signal \in {"none", "pending", "taken"}
    /\ inFlight \subseteq sent /\ sent \subseteq Requests /\ cut \subseteq sent
    /\ ended \in {"no", "ok", "fatal", "killed"}

\* "fail fast if port binding fails": a process without a listener ends, however
\* late the listener fails; but for start-tee, which never looks again after
\* the first 100 ms and then stays, deaf, until it gets a signal.
FailsFast ==
    (server = "failed") ~> (~ Running \/ (program = "start-tee" /\ main # "check"))

\* A process that gets a signal ends, whatever its handlers do; but start-tee
\* has caught the signal before it waits for the node in SetProxyUrl.
SignalEnds == (signal # "none") ~> (~ Running \/ main = "configure")

\* "Graceful shutdown.": a signal cuts off no handler, unless it takes longer
\* than the five seconds.
StopsGracefully ==
    program = "standalone" /\ ended = "ok" /\ ~ late => cut = {}
==============================================================================
