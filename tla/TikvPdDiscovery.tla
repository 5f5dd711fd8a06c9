--------------------------- MODULE TikvPdDiscovery ---------------------------
(***************************************************************************)
(* The pd-discovery process (cmd/pd-discovery/main.go): it builds its API  *)
(* clients, runs the discovery HTTP server under wait.Forever (rerun 5 s   *)
(* after each return) and serves the debug endpoint on :6060 in the main   *)
(* goroutine, exiting through klog.Fatal when that returns.  The kubelet   *)
(* restarts the container after an exit.  The server's own handlers are   *)
(* in pkg/discovery, outside this repository, and are not modelled: the    *)
(* server is Starting, Serving, or returned and waiting out the period.    *)
(***************************************************************************)
EXTENDS Naturals

CONSTANTS
    PrintVersion,  \* the -version flag
    MaxFaults      \* bound on the failures of each kind

ASSUME DiscoveryAssumption ==
    /\ PrintVersion \in BOOLEAN
    /\ MaxFaults \in Nat

VARIABLES
    proc,    \* the process: "Start" (in main), "Running" or "Exited"
    server,  \* the discovery server goroutine: "Down", "Starting",
             \* "Serving" or "Waiting" (returned, in the 5 s period)
    faults   \* failures so far, per kind

FaultKinds == {"config", "server", "debug"}

vars == <<proc, server, faults>>

Fault(kind) ==
    /\ faults[kind] < MaxFaults
    /\ faults' = [faults EXCEPT ![kind] = @ + 1]

\* Mutant of ServerReturns: the server is started once (no wait.Forever).
ServerReturnsForGood ==
    /\ server \in {"Starting", "Serving"}
    /\ Fault("server")
    /\ server' = "Down"
    /\ UNCHANGED proc

\* main, lines 44-70: -version prints and exits; a failure to load the
\* in-cluster config or to build either clientset is fatal; otherwise the
\* server goroutine starts and main serves the debug endpoint.
Main ==
    /\ proc = "Start"
    /\ \/ PrintVersion /\ proc' = "Exited" /\ UNCHANGED faults
       \/ ~PrintVersion /\ Fault("config") /\ proc' = "Exited"
       \/ ~PrintVersion /\ proc' = "Running" /\ UNCHANGED faults
    /\ server' = IF proc' = "Running" THEN "Starting" ELSE "Down"

\* server.StartServer binds its port and serves.
ServerListens ==
    /\ proc = "Running" /\ server = "Starting"
    /\ server' = "Serving"
    /\ UNCHANGED <<proc, faults>>

\* StartServer returns (its listener failed); wait.Forever calls it again
\* after the period.
ServerReturns ==
    /\ server \in {"Starting", "Serving"}
    /\ Fault("server")
    /\ server' = "Waiting"
    /\ UNCHANGED proc

PeriodElapses ==
    /\ proc = "Running" /\ server = "Waiting"
    /\ server' = "Starting"
    /\ UNCHANGED <<proc, faults>>

\* http.ListenAndServe(":6060") returns: klog.Fatal exits the process and
\* the discovery server with it.
DebugListenerFails ==
    /\ proc = "Running"
    /\ Fault("debug")
    /\ proc' = "Exited" /\ server' = "Down"

\* The kubelet restarts the exited container.
Restart ==
    /\ proc = "Exited"
    /\ proc' = "Start"
    /\ UNCHANGED <<server, faults>>

Init == proc = "Start" /\ server = "Down" /\ faults = [k \in FaultKinds |-> 0]

Next ==
    Main \/ ServerListens \/ ServerReturns \/ PeriodElapses
    \/ DebugListenerFails \/ Restart

Spec == Init /\ [][Next]_vars

\* The kubelet, the Go runtime timer and the listener each take their step
\* once it is enabled; faults are bounded.
Fairness ==
    /\ WF_vars(Main) /\ WF_vars(ServerListens) /\ WF_vars(PeriodElapses)
    /\ WF_vars(Restart)

FairSpec == Spec /\ Fairness

\* Once failures stop, the discovery server ends up serving for good: a
\* returned server is rerun by wait.Forever and an exited process is
\* restarted, unless the process was started with -version.
DiscoveryEventuallyServes ==
    ~PrintVersion => <>[](server = "Serving")
=============================================================================
