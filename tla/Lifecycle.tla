-------------------------------- MODULE Lifecycle --------------------------------
(***************************************************************************)
(* The process around the listeners: labdns serve from loading the         *)
(* configuration to its exit, composed with the management requests it     *)
(* accepts on the way.  Three goroutines share the state: main, the one    *)
(* that serves management HTTP, and the one that waits for SIGUSR1.  What  *)
(* the DNS server does between Start and Shutdown is another module; here  *)
(* it is up or down.                                                       *)
(*                                                                         *)
(* A failed step of the start unwinds through the same Shutdown, without a *)
(* deadline.  The PID file may exist beforehand, left by another process.  *)
(***************************************************************************)
EXTENDS Management

VARIABLES main,      \* where main is
          failing,   \* main is unwinding a failed start
          late,      \* the shutdown deadline has passed
          stopping,  \* the context of serve is done (SIGTERM, SIGINT)
          snap,      \* a bootstrap snapshot is installed
          sig,       \* SIGUSR1: "off" (default action), "armed", "ending"
          pending,   \* a SIGUSR1 waits in the channel of size one
          inhibited, \* the emergency bit
          dns,       \* the DNS listeners are bound
          ln,        \* the management listener: "none", "open", "closed"
          server,    \* rest.Server.Serve: "none", "start", "stored", "serving", "ended"
          closed,    \* rest.Server.closed
          draining,  \* http.Server.Shutdown was called
          pid        \* the PID file: "none", "own", "other"

hostVars == <<main, failing, late, stopping, snap, sig, pending, inhibited, dns, ln, server, closed, draining, pid>>
vars == <<mgmtVars, hostVars>>

mgmtRest == <<scn, clock, tables, procs, sent>>
Ended == main \in {"failed", "exited", "killed"}
Quiet == \A p \in Procs : procs[p].pc = "idle" \/ procs[p].req.via = "stdio"

-----------------------------------------------------------------------------
(* Start *)

\* LoadFile and Compile: nothing is bound yet.
Load ==
    /\ main = "load"
    /\ main' \in {"install", "failed"}
    /\ UNCHANGED <<mgmtVars, failing, late, stopping, snap, sig, pending, inhibited, dns, ln, server, closed,
                   draining, pid>>

\* The startup lock and InstallBootstrap, then NotifyUSR1 and its goroutine.
Install ==
    /\ main = "install"
    /\ snap' = TRUE /\ sig' = "armed" /\ main' = "auth"
    /\ UNCHANGED <<mgmtVars, failing, late, stopping, pending, inhibited, dns, ln, server, closed, draining, pid>>

\* A failure before the runtime exists stops the signal goroutine and no more.
Abandon == main' = "abandon" /\ failing' = TRUE /\ UNCHANGED <<dns, ln, server, pid>>
Abandoned ==
    /\ main = "abandon" /\ sig = "off"
    /\ main' = "failed"
    /\ UNCHANGED <<mgmtVars, failing, late, stopping, snap, sig, pending, inhibited, dns, ln, server, closed,
                   draining, pid>>

\* The listen addresses, and bindManagementAuth while management is on: a
\* policy that cannot be built stops the start before anything listens.
BindAuth ==
    /\ main = "auth"
    /\ IF scn.dnsOn /\ (scn.mgmtOn => policy.ok)
       THEN main' = "dns" /\ UNCHANGED <<failing, dns, ln, server, pid>>
       ELSE Abandon
    /\ UNCHANGED <<mgmtVars, late, stopping, snap, sig, pending, inhibited, closed, draining>>

\* dnsserver.Start binds every DNS listener or none.
StartDNS ==
    /\ main = "dns"
    /\ \/ /\ dns' = TRUE
          /\ main' = IF scn.mgmtOn THEN "mgmt" ELSE "pid"
          /\ UNCHANGED <<failing, ln, server, pid>>
       \/ Abandon
    /\ UNCHANGED <<mgmtVars, late, stopping, snap, sig, pending, inhibited, closed, draining>>

\* A failure from here on goes through Shutdown.
Unwind == main' = "stopsig" /\ failing' = TRUE

\* The adapters are built, the listener bound, and Serve started.
StartManagement ==
    /\ main = "mgmt"
    /\ \/ ln' = "open" /\ server' = "start" /\ main' = "pid" /\ UNCHANGED failing
       \/ Unwind /\ UNCHANGED <<ln, server>>
    /\ UNCHANGED <<mgmtVars, late, stopping, snap, sig, pending, inhibited, dns, closed, draining, pid>>

\* writePIDFile: the temporary file is renamed, so the old content stays on a
\* failure.
WritePID ==
    /\ main = "pid"
    /\ \/ pid' = (IF scn.pidOn THEN "own" ELSE pid) /\ main' = "up" /\ UNCHANGED failing
       \/ scn.pidOn /\ Unwind /\ UNCHANGED pid
    /\ UNCHANGED <<mgmtVars, late, stopping, snap, sig, pending, inhibited, dns, ln, server, closed, draining>>

-----------------------------------------------------------------------------
(* Serving *)

\* rest.Server.Serve under its lock: a server already shut down closes the
\* listener instead.
ServeStore ==
    /\ ~Ended /\ server = "start"
    /\ IF closed THEN server' = "ended" /\ ln' = "closed" ELSE server' = "stored" /\ UNCHANGED ln
    /\ UNCHANGED <<mgmtVars, main, failing, late, stopping, snap, sig, pending, inhibited, dns, closed, draining,
                   pid>>

\* http.Server.Serve: refuses once Shutdown was called, and ends when its
\* listener is closed.
ServeRun ==
    /\ ~Ended
    /\ server = "stored" \/ (server = "serving" /\ ln = "closed")
    /\ IF draining \/ ln = "closed"
       THEN server' = "ended" /\ ln' = "closed" /\ accepting' = FALSE
       ELSE server' = "serving" /\ accepting' = TRUE /\ UNCHANGED ln
    /\ UNCHANGED <<mgmtRest, mcpOpen, main, failing, late, stopping, snap, sig, pending, inhibited, dns, closed,
                   draining, pid>>

\* SIGTERM or SIGINT.
Terminate ==
    /\ ~Ended /\ scn.stops /\ ~stopping /\ main # "load"
    /\ stopping' = TRUE
    /\ UNCHANGED <<mgmtVars, main, failing, late, snap, sig, pending, inhibited, dns, ln, server, closed, draining,
                   pid>>

\* labdns chaos emergency-disable --pid-file: SIGUSR1 to the process the file
\* names.  Once the handler is unregistered its default action ends the process.
SignalUSR1 ==
    /\ ~Ended /\ scn.stops /\ pid = "own" /\ ~pending /\ ~inhibited
    /\ IF sig = "off" THEN main' = "killed" /\ dns' = FALSE /\ ln' = "closed" /\ accepting' = FALSE /\ UNCHANGED pending
       ELSE pending' = TRUE /\ UNCHANGED <<main, dns, ln, accepting>>
    /\ UNCHANGED <<mgmtRest, mcpOpen, failing, late, stopping, snap, sig, inhibited, server, closed, draining, pid>>

\* ServeSignals: disables on SIGUSR1, ends when its context is done, and takes
\* either when both are ready.
ServeSignals ==
    /\ ~Ended /\ sig # "off"
    /\ \/ pending /\ inhibited' = TRUE /\ pending' = FALSE /\ UNCHANGED sig
       \/ (sig = "ending" \/ stopping) /\ sig' = "off" /\ UNCHANGED <<pending, inhibited>>
    /\ UNCHANGED <<mgmtVars, main, failing, late, stopping, snap, dns, ln, server, closed, draining, pid>>

-----------------------------------------------------------------------------
(* Shutdown *)

StopSignalsUncancelled ==
    /\ \/ main = "up" /\ stopping /\ main' = "stopsig"
       \/ main = "stopsig" /\ sig = "off" /\ main' = "stopmcp"
    /\ UNCHANGED <<mgmtVars, failing, late, stopping, snap, sig, pending, inhibited, dns, ln, server, closed,
                   draining, pid>>

\* serve leaves its wait, or a failed start unwinds: stopSig cancels the signal
\* goroutine and waits for it.
StopSignals ==
    /\ \/ main = "up" /\ stopping /\ main' = "stopsig" /\ UNCHANGED sig
       \/ main \in {"stopsig", "abandon"} /\ sig = "armed" /\ sig' = "ending" /\ UNCHANGED main
       \/ main = "stopsig" /\ sig = "off" /\ main' = "stopmcp" /\ UNCHANGED sig
    /\ UNCHANGED <<mgmtVars, failing, late, stopping, snap, pending, inhibited, dns, ln, server, closed, draining,
                   pid>>

\* CancelDelays and mcp.Close.  A start that failed before management was bound has no server.
StopMCP ==
    /\ main = "stopmcp"
    /\ IF ln = "none" THEN main' = "stopdns" /\ UNCHANGED mcpOpen
       ELSE main' = "closerest" /\ mcpOpen' = FALSE
    /\ UNCHANGED <<mgmtRest, accepting, failing, late, stopping, snap, sig, pending, inhibited, dns, ln, server,
                   closed, draining, pid>>

\* rest.Server.Shutdown first tells a Serve that has not started not to.
CloseREST ==
    /\ main = "closerest"
    /\ main' = "stoprest" /\ closed' = TRUE
    /\ UNCHANGED <<mgmtVars, failing, late, stopping, snap, sig, pending, inhibited, dns, ln, server, draining, pid>>

\* Then it reads http under the lock: without one there is nothing
\* to wait for; otherwise http.Server.Shutdown closes the listener.
StopREST ==
    /\ main = "stoprest"
    /\ IF server \in {"stored", "serving"}
       THEN /\ draining' = TRUE /\ main' = "drain" /\ accepting' = FALSE
            /\ ln' = IF server = "serving" THEN "closed" ELSE ln
       ELSE main' = "closeln" /\ UNCHANGED <<draining, ln, accepting>>
    /\ UNCHANGED <<mgmtRest, mcpOpen, failing, late, stopping, snap, sig, pending, inhibited, dns, server, closed,
                   pid>>

\* It returns when the requests are done, or at the deadline if there is one.
Drain ==
    /\ main = "drain"
    /\ \/ Quiet /\ UNCHANGED late
       \/ ~failing /\ late' = TRUE
    /\ main' = "closeln"
    /\ UNCHANGED <<mgmtVars, failing, stopping, snap, sig, pending, inhibited, dns, ln, server, closed, draining, pid>>

CloseListenerOfServer ==
    /\ main = "closeln"
    /\ ln' = (IF server = "serving" THEN "closed" ELSE ln) /\ main' = "stopdns"
    /\ UNCHANGED <<mgmtVars, failing, late, stopping, snap, sig, pending, inhibited, dns, server, closed, draining,
                   pid>>

\* mgmtLn.Close, whatever Serve had come to.
CloseListener ==
    /\ main = "closeln"
    /\ ln' = "closed" /\ main' = "stopdns"
    /\ UNCHANGED <<mgmtVars, failing, late, stopping, snap, sig, pending, inhibited, dns, server, closed, draining,
                   pid>>

\* dnsserver.Shutdown closes the listeners at once; its wait is another module's.
StopDNS ==
    /\ main = "stopdns"
    /\ dns' = FALSE /\ main' = "rmpid"
    /\ UNCHANGED <<mgmtVars, failing, late, stopping, snap, sig, pending, inhibited, ln, server, closed, draining, pid>>

\* The PID file goes last, whoever wrote it, and the process ends.
RemovePID ==
    /\ main = "rmpid"
    /\ pid' = IF scn.pidOn THEN "none" ELSE pid
    /\ main' = IF failing THEN "failed" ELSE "exited"
    /\ UNCHANGED <<mgmtVars, failing, late, stopping, snap, sig, pending, inhibited, dns, ln, server, closed, draining>>

-----------------------------------------------------------------------------
(* The specification *)

Main ==
    \/ Load \/ Install \/ Abandoned \/ BindAuth \/ StartDNS \/ StartManagement \/ WritePID
    \/ StopSignals \/ StopMCP \/ CloseREST \/ StopREST \/ Drain \/ CloseListener \/ StopDNS \/ RemovePID

Serving == ServeStore \/ ServeRun
Requests(p) == ~Ended /\ Work(p) /\ UNCHANGED hostVars
Clients == ~Ended /\ (Tick \/ \E p \in Procs : Arrive(p)) /\ UNCHANGED hostVars

\* Nothing more can happen: the process has ended, or the bounds are reached.
Rest ==
    /\ \/ Ended
       \/ /\ main = "up" /\ ~scn.stops /\ clock = scn.horizon
          /\ \A p \in Procs : procs[p].pc = "idle"
          /\ sent = scn.limit \/ (sent < scn.limit /\ ~accepting)
    /\ UNCHANGED vars

\* Either the process from its start, or one that is up.
Init ==
    /\ MgmtInit
    /\ failing = FALSE /\ late = FALSE /\ stopping = FALSE /\ pending = FALSE /\ inhibited = FALSE
    /\ closed = FALSE /\ draining = FALSE /\ mcpOpen = TRUE
    /\ IF scn.whole
       THEN /\ main = "load" /\ snap = FALSE /\ sig = "off" /\ dns = FALSE /\ ln = "none" /\ server = "none"
            /\ accepting = FALSE /\ pid \in {"none", "other"}
       ELSE /\ main = "up" /\ snap = TRUE /\ sig = "armed" /\ dns = TRUE /\ ln = "open" /\ server = "serving"
            /\ accepting = TRUE /\ pid = (IF scn.pidOn THEN "own" ELSE "none")

Next ==
    \/ Main \/ Serving \/ ServeSignals \/ Terminate \/ SignalUSR1
    \/ Clients \/ \E p \in Procs : Requests(p)
    \/ Rest

\* Every goroutine that can run does; clients, signals and time need not come.
Fairness ==
    /\ WF_vars(Main) /\ WF_vars(Serving) /\ WF_vars(ServeSignals)
    /\ \A p \in Procs : WF_vars(Requests(p))

Spec == Init /\ [][Next]_vars /\ Fairness

-----------------------------------------------------------------------------
(* Properties *)

\* A process that ends by itself, from a failed start at any step or from a
\* shutdown at any moment of Serve, leaves no listener, no signal handler and
\* no PID file of its own (serveFromConfig's error paths, serveRuntime.Shutdown).
NothingLeftBound ==
    main \in {"failed", "exited"} => ~dns /\ ln # "open" /\ ~accepting /\ sig = "off" /\ pid # "own"

\* A process told to stop, or whose start has failed, ends: no step of the
\* shutdown waits for something that waits for it (stopSig and signalDone,
\* http.Server.Shutdown, the deadline).
Stops == (stopping \/ failing) ~> Ended

-----------------------------------------------------------------------------
(* The invariant the proofs use *)

Early == {"load", "install", "auth", "dns", "abandon"}
Late == {"drain", "closeln", "stopdns", "rmpid", "failed", "exited"}

\* What is bound at each step of main.  Serve runs on beside the shutdown, so
\* from the moment Shutdown has looked at it, whatever it comes to next closes
\* the listener or finds it closed.
Unbinds ==
    /\ main \in Early => ~dns /\ ln = "none" /\ pid # "own"
    /\ main = "load" => sig = "off"
    /\ main = "mgmt" => ln = "none"
    /\ ln = "none" => server = "none"
    /\ accepting => server = "serving"
    /\ pid = "own" => scn.pidOn
    /\ main \in {"stopmcp", "closerest", "stoprest"} \cup Late => sig = "off"
    /\ main = "stoprest" => closed
    /\ main \in Late =>
        /\ ~accepting
        /\ server = "start" => closed
        /\ server = "stored" => draining \/ ln = "closed"
        /\ server = "serving" => ln = "closed"
    /\ main \in {"stopdns", "rmpid", "failed", "exited"} => ln # "open"
    /\ main \in {"rmpid", "failed", "exited"} => ~dns
    /\ main \in {"failed", "exited"} => pid # "own"
=============================================================================
