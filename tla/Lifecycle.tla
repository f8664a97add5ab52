----------------------------- MODULE Lifecycle -----------------------------
(***************************************************************************)
(* The life of the program: main.go starts the log forwarder (log/log.go), *)
(* the metrics runner and the status reporter, waits for them in this      *)
(* order, and a signal stops them all at once.                             *)
(*                                                                         *)
(* LogForwarder.Start initializes the enabled backends one after the       *)
(* other; a backend makes one goroutine of processMessages (a worker) for  *)
(* each of its addresses.  Workers are counted in the package's stopWg and *)
(* ended by the stop of their backend; a backend is stopped only if it was *)
(* put in l.backends.                                                      *)
(***************************************************************************)
EXTENDS Naturals, Sequences

CONSTANT
  Configs    \* configurations: for each enabled backend the number of
             \* addresses it forwards to, one for tsuru and gelf, any number
             \* for syslog; the empty sequence is LOG_BACKENDS=none

ASSUME LifecycleAssumption == Configs \subseteq Seq(Nat)

Worker == UNION {UNION {{k} \X (1 .. c[k]) : k \in DOMAIN c} : c \in Configs}

VARIABLES
  addrs,      \* the configuration
  mpc,        \* where main is
  b, a,       \* Start: the current backend, the addresses it connected to
  registered, \* l.backends
  workers,    \* workers alive: their number is the count of stopWg
  quits,      \* workers whose quit channel is closed
  server,     \* the syslog server
  kube,       \* the kubernetes log streamer
  runner,     \* the metrics runner
  reporter,   \* the status reporter
  signaled,   \* the signal handler ran
  stops       \* the Stop calls it made that have not ended, by what is left of
              \* them: that of the log forwarder is "log", "backends", then "kube"

logVars == <<addrs, b, a, registered, workers, quits, server, kube>>
programVars == <<mpc, logVars, runner, reporter, signaled, stops>>

Ended == {"exit", "fatal", "idle"}

ProgramTypeOK ==
  /\ addrs \in Configs
  /\ mpc \in {"backends", "server", "kube", "stop", "drain", "runner", "reporter",
              "waitLog", "waitRunner", "waitReporter", "check"} \cup Ended
  /\ b \in 1 .. (Len(addrs) + 1) /\ a \in Nat
  /\ registered \subseteq DOMAIN addrs
  /\ quits \subseteq Worker /\ workers \subseteq Worker
  /\ server \in {"nil", "listening", "running", "killed", "stopped"}
  /\ kube \in {"nil", "running", "quitting", "stopped"}
  /\ runner \in {"new", "running", "aborted", "done"}
  /\ reporter \in {"nil", "running", "aborted", "done"}
  /\ signaled \in BOOLEAN
  /\ stops \subseteq {"log", "backends", "kube", "runner", "reporter"}

ProgramInit ==
  /\ addrs \in Configs
  /\ mpc = (IF addrs = <<>> THEN "runner" ELSE "backends")
  /\ b = 1 /\ a = 0 /\ registered = {} /\ workers = {} /\ quits = {}
  /\ server = "nil" /\ kube = "nil" /\ runner = "new" /\ reporter = "nil"
  /\ signaled = FALSE /\ stops = {}
-----------------------------------------------------------------------------
MainGoto(from, to) == mpc = from /\ mpc' = to

\* Start, the loop over the backends.  initialize connects to its addresses
\* in turn, each success leaving a worker behind ...
Connect ==
  /\ mpc = "backends" /\ b \in DOMAIN addrs /\ a < addrs[b]
  /\ a' = a + 1 /\ workers' = workers \cup {<<b, a + 1>>}
  /\ UNCHANGED <<mpc, addrs, b, registered, quits, server, kube, runner, reporter, signaled, stops>>

\* ... the first failure ends it, and Start: a name that is no backend's, a
\* configuration or an address that is wrong, a peer that is not there.
InitError ==
  /\ b \in DOMAIN addrs /\ (a = 0 \/ a < addrs[b]) /\ MainGoto("backends", "stop")
  /\ UNCHANGED <<logVars, runner, reporter, signaled, stops>>

\* Mutant of RegisterBackend: the backend is not put in l.backends.
RegisterForgets ==
  /\ mpc = "backends" /\ b \in DOMAIN addrs /\ a = addrs[b]
  /\ b' = b + 1 /\ a' = 0
  /\ UNCHANGED <<mpc, addrs, registered, workers, quits, server, kube, runner, reporter, signaled, stops>>

RegisterBackend ==
  /\ mpc = "backends" /\ b \in DOMAIN addrs /\ a = addrs[b]
  /\ registered' = registered \cup {b} /\ b' = b + 1 /\ a' = 0
  /\ UNCHANGED <<mpc, addrs, workers, quits, server, kube, runner, reporter, signaled, stops>>

Initialized ==
  /\ b \notin DOMAIN addrs /\ MainGoto("backends", "server")
  /\ UNCHANGED <<logVars, runner, reporter, signaled, stops>>

\* The docker client, the syslog server and its listener.
Listen ==
  /\ MainGoto("server", "kube") /\ server' = "listening"
  /\ UNCHANGED <<addrs, b, a, registered, workers, quits, kube, runner, reporter, signaled, stops>>

ListenError ==
  /\ MainGoto("server", "stop") /\ server' \in {"nil", "listening"}
  /\ UNCHANGED <<addrs, b, a, registered, workers, quits, kube, runner, reporter, signaled, stops>>

\* The kubernetes streamer, if there is a directory for it, and Boot.
Boot ==
  /\ MainGoto("kube", "runner") /\ server' = "running"
  /\ kube' \in {"nil", "running"}
  /\ UNCHANGED <<addrs, b, a, registered, workers, quits, runner, reporter, signaled, stops>>

KubeError ==
  /\ MainGoto("kube", "stop")
  /\ UNCHANGED <<logVars, runner, reporter, signaled, stops>>

\* LogForwarder.Stop: kill the server, ...
KillServer ==
  /\ server' = (IF server = "nil" THEN "nil" ELSE "killed")
  /\ UNCHANGED <<addrs, b, a, registered, workers, kube>>

\* Mutant of StopBackends: no quit channel is closed.
StopBackendsNot == UNCHANGED quits

\* ... close the quit channels of the backends in l.backends, and stop the
\* streamer (SignalStopsKube).
StopBackends == quits' = quits \cup {x \in workers : x[1] \in registered}

\* What LogForwarder.Wait waits for: the server and stopWg.  It does not wait
\* for the streamer.
LogEnded == server \in {"nil", "stopped"} /\ workers = {}

\* The deferred stopWait of a Start that fails, when there is no streamer yet;
\* main then ends with Fatalf.
StartStops ==
  /\ MainGoto("stop", "drain") /\ KillServer /\ StopBackends
  /\ UNCHANGED <<runner, reporter, signaled, stops>>

StartFails ==
  /\ LogEnded /\ MainGoto("drain", "fatal")
  /\ UNCHANGED <<logVars, runner, reporter, signaled, stops>>
-----------------------------------------------------------------------------
\* The other two services; an error only costs a warning.
StartRunner ==
  /\ MainGoto("runner", "reporter") /\ runner' \in {"running", "done"}
  /\ UNCHANGED <<logVars, reporter, signaled, stops>>

StartReporter ==
  /\ MainGoto("reporter", "waitLog") /\ reporter' \in {"nil", "running"}
  /\ UNCHANGED <<logVars, runner, signaled, stops>>

\* The first signal; it calls Stop on each service in a goroutine of its own.
\* Further signals are taken from nobody's channel.
Waiting == mpc \in {"waitLog", "waitRunner", "waitReporter", "check"}

Signal ==
  /\ Waiting /\ ~signaled /\ signaled' = TRUE
  /\ stops' = {"log", "runner"} \cup (IF reporter = "nil" THEN {} ELSE {"reporter"})
  /\ UNCHANGED <<mpc, logVars, runner, reporter>>

SignalStopsLog ==
  /\ "log" \in stops /\ stops' = (stops \ {"log"}) \cup {"backends"} /\ KillServer
  /\ UNCHANGED <<mpc, quits, runner, reporter, signaled>>

SignalStopsBackends ==
  /\ "backends" \in stops /\ StopBackends
  /\ stops' = (stops \ {"backends"}) \cup (IF kube = "nil" THEN {} ELSE {"kube"})
  /\ UNCHANGED <<mpc, addrs, b, a, registered, workers, server, kube, runner, reporter, signaled>>

\* kubeStreamer.stop sends on a channel without a buffer: it waits until watch
\* is in its select, and watch then stops its monitors and waits for them.
SignalStopsKube ==
  /\ "kube" \in stops /\ kube = "running"
  /\ stops' = stops \ {"kube"} /\ kube' = "quitting"
  /\ UNCHANGED <<mpc, addrs, b, a, registered, workers, quits, server, runner, reporter, signaled>>

\* Stop of the runner and of the reporter: close abort (a runner that never
\* started has closed exit already) ...
SignalStopsRunner ==
  /\ "runner" \in stops /\ stops' = stops \ {"runner"}
  /\ runner' = (IF runner = "done" THEN "done" ELSE "aborted")
  /\ UNCHANGED <<mpc, logVars, reporter, signaled>>

SignalStopsReporter ==
  /\ "reporter" \in stops /\ stops' = stops \ {"reporter"} /\ reporter' = "aborted"
  /\ UNCHANGED <<mpc, logVars, runner, signaled>>

\* ... and their loops leave at the next select, closing exit.
RunnerEnds ==
  /\ mpc \notin Ended /\ runner = "aborted" /\ runner' = "done"
  /\ UNCHANGED <<mpc, logVars, reporter, signaled, stops>>

ReporterEnds ==
  /\ mpc \notin Ended /\ reporter = "aborted" /\ reporter' = "done"
  /\ UNCHANGED <<mpc, logVars, runner, signaled, stops>>

\* main waits for the services in turn.
WaitLog ==
  /\ LogEnded /\ MainGoto("waitLog", "waitRunner")
  /\ UNCHANGED <<logVars, runner, reporter, signaled, stops>>

\* Mutant of WaitRunner: main does not wait for the runner.
WaitRunnerNot ==
  /\ MainGoto("waitRunner", "waitReporter")
  /\ UNCHANGED <<logVars, runner, reporter, signaled, stops>>

WaitRunner ==
  /\ runner = "done" /\ MainGoto("waitRunner", "waitReporter")
  /\ UNCHANGED <<logVars, runner, reporter, signaled, stops>>

WaitReporter ==
  /\ reporter \in {"nil", "done"} /\ MainGoto("waitReporter", "check")
  /\ UNCHANGED <<logVars, runner, reporter, signaled, stops>>

ProgramExit ==
  /\ MainGoto("check", IF signaled THEN "exit" ELSE "idle")
  /\ UNCHANGED <<logVars, runner, reporter, signaled, stops>>
-----------------------------------------------------------------------------
\* A worker ends once its quit channel is closed (module Forwarder), the
\* server once it was killed and its clients are gone.
WorkerEnds(x) ==
  /\ mpc \notin Ended /\ x \in workers \cap quits
  /\ workers' = workers \ {x}
  /\ UNCHANGED <<mpc, addrs, b, a, registered, quits, server, kube, runner, reporter, signaled, stops>>

ServerEnds ==
  /\ mpc \notin Ended /\ server = "killed" /\ server' = "stopped"
  /\ UNCHANGED <<mpc, addrs, b, a, registered, workers, quits, kube, runner, reporter, signaled, stops>>

\* watch returns when its monitors are done (module KubeStreamer).
KubeEnds ==
  /\ mpc \notin Ended /\ kube = "quitting" /\ kube' = "stopped"
  /\ UNCHANGED <<mpc, addrs, b, a, registered, workers, quits, server, runner, reporter, signaled, stops>>

SignalStops ==
  /\ mpc \notin Ended
  /\ \/ SignalStopsLog \/ SignalStopsBackends \/ SignalStopsKube
     \/ SignalStopsRunner \/ SignalStopsReporter

Main ==
  \/ Connect \/ InitError \/ RegisterBackend \/ Initialized \/ Listen \/ ListenError
  \/ Boot \/ KubeError \/ StartStops \/ StartFails \/ StartRunner \/ StartReporter
  \/ WaitLog \/ WaitRunner \/ WaitReporter \/ ProgramExit

ProgramNext ==
  \/ Main \/ Signal \/ SignalStops \/ ServerEnds \/ KubeEnds \/ RunnerEnds \/ ReporterEnds
  \/ \E x \in Worker : WorkerEnds(x)

ProgramSpec == ProgramInit /\ [][ProgramNext]_programVars

\* main and the goroutines run; workers end (Forwarder!Terminates), the
\* clients of a killed server go away, runner and reporter leave their loops.
\* Nothing is assumed of the streamer, which may be stuck in watchOnce.
ProgramFairness ==
  /\ WF_programVars(Main) /\ WF_programVars(SignalStopsLog /\ mpc \notin Ended)
  /\ WF_programVars(SignalStopsBackends /\ mpc \notin Ended)
  /\ WF_programVars(SignalStopsRunner /\ mpc \notin Ended)
  /\ WF_programVars(SignalStopsReporter /\ mpc \notin Ended)
  /\ WF_programVars(ServerEnds) /\ WF_programVars(RunnerEnds) /\ WF_programVars(ReporterEnds)
  /\ \A x \in Worker : WF_programVars(WorkerEnds(x))

ProgramFairSpec == ProgramSpec /\ ProgramFairness
-----------------------------------------------------------------------------
\* bs ends by itself only after what main waits for: the syslog server, every
\* worker, the runner and the reporter.  The streamer is not among them, so that
\* watch and its tails may be left behind, but only while a Stop that has killed
\* the server is on its way to the streamer.  If nobody asked bs to stop,
\* nothing had been started at all (main.go:96-101, log.go:179-196).
EndsAfterServices ==
  /\ mpc \in {"exit", "idle"} =>
       LogEnded /\ runner = "done" /\ reporter \in {"nil", "done"}
  /\ mpc = "exit" /\ kube = "running" => stops \cap {"backends", "kube"} # {}
  /\ mpc = "idle" => registered = {} /\ server = "nil" /\ kube = "nil" /\ reporter = "nil"

\* A signal ends the program (main.go:90-98).
SignalExits == signaled ~> mpc = "exit"

\* Workers that a backend started before it failed to initialize: it is not in
\* l.backends, so nobody closes their quit channels.
Stranded == \E x \in workers : x[1] \notin registered

\* A Start that fails returns its error, and main ends with a message, unless
\* the failure is that of a later address of a backend: Start then waits for
\* ever for the workers of the earlier ones (log.go:121-126, main.go:66-69;
\* log_test.go:320-321 asserts the error of a Start whose only syslog address is wrong).
StartErrorReturns == mpc = "stop" /\ ~Stranded ~> mpc = "fatal"
=============================================================================
