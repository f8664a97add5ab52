----------------------------- MODULE KubeStreamer -----------------------------
(***************************************************************************)
(* The kubernetesLogStreamer of log/monitor.go: one goroutine (watch)      *)
(* looks at the log directory once a second, stops the monitors of files   *)
(* that are gone, starts one for every new file and replaces those that    *)
(* are not alive.  A monitor is a `tail' process, a goroutine that reads   *)
(* its output and then waits for it (run), and one that saves the          *)
(* position.  A read-write mutex guards the monitor's `finished' flag, and *)
(* wait holds it until the process is reaped.                              *)
(***************************************************************************)
EXTENDS Naturals, FiniteSets

CONSTANTS
  File,         \* log files of app containers (monitors are keyed by their id)
  MaxEvents,    \* bound: events that call for a new monitor
  BadLines,     \* TRUE if a log line may fail to decode as JSON
  LookupErrors  \* TRUE if reading a container's data or starting tail may fail

ASSUME KubeStreamerAssumption ==
  IsFiniteSet(File) /\ MaxEvents \in Nat /\ {BadLines, LookupErrors} \subseteq BOOLEAN

\* Monitors, in the order they are made: one per file, and one per event.
MaxMonitors == Cardinality(File) + MaxEvents
Monitor == 1 .. MaxMonitors
None == 0

VARIABLES
  present,    \* files in the directory
  owner,      \* owner[m]: the file monitor m was made for, once it was made
  made,       \* monitors made so far
  tail,       \* tail[m]: its process: "none", "running" or "dead"
  rpc,        \* rpc[m]: its run goroutine
  streamDone, \* monitors whose streamDone is closed
  posDone,    \* monitors whose posUpdateDone is closed
  finished,   \* monitors whose finished flag is set
  mu,         \* mu[m]: who holds the write lock: "free", "run" or "watch"
  monitors,   \* the map: monitors[f] \in Monitor, or None
  wpc,        \* where watch is
  todo,       \* files left in this pass / monitors left to stop
  stopping,   \* stop(): "no", "sending" or "sent" on the quit channel
  events      \* files that appeared, processes and streams that died

vars == <<present, owner, made, tail, rpc, streamDone, posDone, finished, mu,
          monitors, wpc, todo, stopping, events>>

TypeOK ==
  /\ present \in SUBSET File
  /\ made \in 0 .. MaxMonitors
  /\ owner \in [1 .. made -> File]
  /\ tail \in [Monitor -> {"none", "running", "dead"}]
  /\ rpc \in [Monitor -> {"none", "stream", "lock", "wait", "done"}]
  /\ streamDone \in SUBSET Monitor
  /\ posDone \in SUBSET Monitor
  /\ finished \in SUBSET Monitor
  /\ mu \in [Monitor -> {"free", "run", "watch"}]
  /\ monitors \in [File -> Monitor \cup {None}]
  /\ wpc \in {"sweep", "list", "scan", "select", "kill", "lock", "wait", "done"}
  /\ todo \in SUBSET File
  /\ stopping \in {"no", "sending", "sent"}
  /\ events \in 0 .. MaxEvents

Init ==
  /\ present \in SUBSET File
  /\ owner = <<>> /\ made = 0
  /\ tail = [m \in Monitor |-> "none"]
  /\ rpc = [m \in Monitor |-> "none"]
  /\ streamDone = {} /\ posDone = {} /\ finished = {}
  /\ mu = [m \in Monitor |-> "free"]
  /\ monitors = [f \in File |-> None]
  /\ wpc = "sweep" /\ todo = {} /\ stopping = "no" /\ events = 0
-----------------------------------------------------------------------------
Mapped == {f \in File : monitors[f] # None}

\* m.stop(): kill the process.
Kill(S) == tail' = [m \in Monitor |-> IF m \in S /\ tail[m] = "running" THEN "dead" ELSE tail[m]]

\* Mutant of Sweep: the monitors of files that are gone are not stopped.
SweepForgets ==
  /\ wpc = "sweep"
  /\ monitors' = [f \in File |-> IF f \in present THEN monitors[f] ELSE None]
  /\ wpc' = "list"
  /\ UNCHANGED <<present, owner, made, tail, rpc, streamDone, posDone, finished, mu, todo, stopping, events>>

\* watchOnce, first loop: stop and forget the monitors of files that are gone.
Sweep ==
  /\ wpc = "sweep"
  /\ LET gone == Mapped \ present IN
       /\ Kill({monitors[f] : f \in gone})
       /\ monitors' = [f \in File |-> IF f \in gone THEN None ELSE monitors[f]]
  /\ wpc' = "list"
  /\ UNCHANGED <<present, owner, made, rpc, streamDone, posDone, finished, mu, todo, stopping, events>>

\* Then list the directory.
Glob ==
  /\ wpc = "list" /\ wpc' = "scan"
  /\ todo' = present
  /\ UNCHANGED <<present, owner, made, tail, rpc, streamDone, posDone, finished,
                 mu, monitors, stopping, events>>

\* newFileMonitor, start and run for file f; the bound is never reached.
StartMonitor(f) ==
  /\ made < MaxMonitors
  /\ made' = made + 1
  /\ owner' = [m \in 1 .. made' |-> IF m = made' THEN f ELSE owner[m]]
  /\ tail' = [tail EXCEPT ![made'] = "running"]
  /\ rpc' = [rpc EXCEPT ![made'] = "stream"]
  /\ monitors' = [monitors EXCEPT ![f] = made']

\* alive() takes the read lock, so it waits while wait() holds the lock.
Alive(m)    == mu[m] = "free" /\ m \notin finished
\* Mutants of NotAlive: the lock is not taken; nothing is ever found dead.
NotAliveUnlocked(m) == m \in finished
NotAliveNever(m) == mu[m] = "held by nobody"

NotAlive(m) == mu[m] = "free" /\ m \in finished

\* watchOnce, second loop, for one file: the container's data cannot be read
\* (or says it is not an app's), or its new monitor does not start: skipped;
\* its monitor is alive: kept; no monitor, or a dead one: a new one.
ScanSkip(f) ==
  /\ LookupErrors /\ wpc = "scan" /\ f \in todo
  /\ todo' = todo \ {f}
  /\ UNCHANGED <<present, owner, made, tail, rpc, streamDone, posDone, finished,
                 mu, monitors, wpc, stopping, events>>

ScanKeep(f) ==
  /\ wpc = "scan" /\ f \in todo
  /\ monitors[f] # None /\ Alive(monitors[f])
  /\ todo' = todo \ {f}
  /\ UNCHANGED <<present, owner, made, tail, rpc, streamDone, posDone, finished,
                 mu, monitors, wpc, stopping, events>>

ScanStart(f) ==
  /\ wpc = "scan" /\ f \in todo
  /\ monitors[f] # None => NotAlive(monitors[f])
  /\ StartMonitor(f)
  /\ todo' = todo \ {f}
  /\ UNCHANGED <<present, streamDone, posDone, finished, mu, wpc, stopping, events>>

ScanDone ==
  /\ wpc = "scan" /\ todo = {}
  /\ wpc' = "select"
  /\ UNCHANGED <<present, owner, made, tail, rpc, streamDone, posDone, finished,
                 mu, monitors, todo, stopping, events>>

\* The select of watch: the second is over, or stop's send is received.
Tick ==
  /\ wpc = "select" /\ wpc' = "sweep"
  /\ UNCHANGED <<present, owner, made, tail, rpc, streamDone, posDone, finished,
                 mu, monitors, todo, stopping, events>>

Quit ==
  /\ wpc = "select" /\ stopping = "sending"
  /\ stopping' = "sent"
  /\ wpc' = "kill" /\ todo' = Mapped
  /\ UNCHANGED <<present, owner, made, tail, rpc, streamDone, posDone, finished,
                 mu, monitors, events>>

\* On quit, for each monitor: stop it ...
QuitKill(f) ==
  /\ wpc = "kill" /\ f \in todo
  /\ Kill({monitors[f]})
  /\ todo' = {f} /\ wpc' = "lock"
  /\ UNCHANGED <<present, owner, made, rpc, streamDone, posDone, finished,
                 mu, monitors, stopping, events>>

\* ... and wait for it: take the lock,
QuitLock(f) ==
  /\ wpc = "lock" /\ f \in todo /\ mu[monitors[f]] = "free"
  /\ mu' = [mu EXCEPT ![monitors[f]] = "watch"]
  /\ finished' = finished \cup {monitors[f]}
  /\ wpc' = "wait"
  /\ UNCHANGED <<present, owner, made, tail, rpc, streamDone, posDone,
                 monitors, todo, stopping, events>>

\* then for its goroutines and its process; the map is done with it.
QuitWait(f) ==
  /\ wpc = "wait" /\ f \in todo
  /\ LET m == monitors[f] IN
       /\ m \in streamDone /\ m \in posDone /\ tail[m] = "dead"
       /\ mu' = [mu EXCEPT ![m] = "free"]
  /\ monitors' = [monitors EXCEPT ![f] = None]
  /\ todo' = Mapped \ {f} /\ wpc' = "kill"
  /\ UNCHANGED <<present, owner, made, tail, rpc, streamDone, posDone, finished, stopping, events>>

QuitDone ==
  /\ wpc = "kill" /\ todo = {}
  /\ wpc' = "done"
  /\ UNCHANGED <<present, owner, made, tail, rpc, streamDone, posDone, finished,
                 mu, monitors, todo, stopping, events>>

-----------------------------------------------------------------------------
\* streamOutput ends: at the end of tail's output, or at a line it cannot
\* decode, with tail still running.
StreamEnd(m) ==
  /\ rpc[m] = "stream"
  /\ \/ tail[m] = "dead" /\ UNCHANGED events
     \/ BadLines /\ events < MaxEvents /\ events' = events + 1
  /\ streamDone' = streamDone \cup {m}
  /\ rpc' = [rpc EXCEPT ![m] = "lock"]
  /\ UNCHANGED <<present, owner, made, tail, posDone, finished, mu, monitors,
                 wpc, todo, stopping>>

\* updatePos's goroutine sees streamDone.
PosExit(m) ==
  /\ m \in streamDone \ posDone
  /\ posDone' = posDone \cup {m}
  /\ UNCHANGED <<present, owner, made, tail, rpc, streamDone, finished, mu,
                 monitors, wpc, todo, stopping, events>>

\* run's call of wait: the lock is taken ...
RunLock(m) ==
  /\ rpc[m] = "lock" /\ mu[m] = "free"
  /\ mu' = [mu EXCEPT ![m] = "run"]
  /\ finished' = finished \cup {m}
  /\ rpc' = [rpc EXCEPT ![m] = "wait"]
  /\ UNCHANGED <<present, owner, made, tail, streamDone, posDone, monitors,
                 wpc, todo, stopping, events>>

\* Mutant of RunReap: the lock is not released.
RunReapLocked(m) ==
  /\ rpc[m] = "wait" /\ m \in posDone /\ tail[m] = "dead"
  /\ rpc' = [rpc EXCEPT ![m] = "done"]
  /\ UNCHANGED <<present, owner, made, tail, streamDone, posDone, finished, mu,
                 monitors, wpc, todo, stopping, events>>

\* ... and held until cmd.Wait returns, when the process is dead.
RunReap(m) ==
  /\ rpc[m] = "wait" /\ m \in posDone /\ tail[m] = "dead"
  /\ mu' = [mu EXCEPT ![m] = "free"]
  /\ rpc' = [rpc EXCEPT ![m] = "done"]
  /\ UNCHANGED <<present, owner, made, tail, streamDone, posDone, finished,
                 monitors, wpc, todo, stopping, events>>

\* The world: log files come and go, something kills a tail, and the process
\* is told to stop.
Appear(f) ==
  /\ f \notin present /\ events < MaxEvents
  /\ present' = present \cup {f} /\ events' = events + 1
  /\ UNCHANGED <<owner, made, tail, rpc, streamDone, posDone, finished, mu,
                 monitors, wpc, todo, stopping>>

Vanish(f) ==
  /\ f \in present
  /\ present' = present \ {f}
  /\ UNCHANGED <<owner, made, tail, rpc, streamDone, posDone, finished, mu,
                 monitors, wpc, todo, stopping, events>>

TailDies(m) ==
  /\ tail[m] = "running" /\ events < MaxEvents
  /\ tail' = [tail EXCEPT ![m] = "dead"] /\ events' = events + 1
  /\ UNCHANGED <<present, owner, made, rpc, streamDone, posDone, finished, mu,
                 monitors, wpc, todo, stopping>>

Stop ==
  /\ stopping = "no" /\ stopping' = "sending"
  /\ UNCHANGED <<present, owner, made, tail, rpc, streamDone, posDone, finished,
                 mu, monitors, wpc, todo, events>>
-----------------------------------------------------------------------------
Watch ==
  \/ Sweep \/ Glob \/ ScanDone \/ Tick \/ Quit \/ QuitDone
  \/ \E f \in File : \/ ScanSkip(f) \/ ScanKeep(f) \/ ScanStart(f)
                      \/ QuitKill(f) \/ QuitLock(f) \/ QuitWait(f)

AfterStream(m) == PosExit(m) \/ RunLock(m) \/ RunReap(m)

Next ==
  \/ Watch
  \/ \E m \in Monitor : StreamEnd(m) \/ AfterStream(m) \/ TailDies(m)
  \/ \E f \in File : Appear(f) \/ Vanish(f)
  \/ Stop

Spec == Init /\ [][Next]_vars

\* Goroutines run; the select of watch does not ignore stop forever; reading a
\* container's data and starting tail do not fail forever.  Nothing makes a
\* stream end, so BadLines is no part of the fairness.
Fairness ==
  /\ WF_vars(Watch) /\ SF_vars(Quit)
  /\ \A f \in File : SF_vars(ScanStart(f))
  /\ \A m \in Monitor : SF_vars((tail[m] = "dead" /\ StreamEnd(m)) \/ AfterStream(m))

FairSpec == Spec /\ Fairness
-----------------------------------------------------------------------------
\* A file is read by one tail at a time: a monitor is replaced only when its
\* process is dead, although `finished' is set before that, because alive()
\* cannot look until wait() lets go of the lock (monitor.go:155-176, 284).
OneTailPerFile ==
  \A m, n \in 1 .. made :
    m # n /\ owner[m] = owner[n] => ~(tail[m] = "running" /\ tail[n] = "running")

\* When watch returned no tail is left running: those of the map were waited
\* for, those forgotten earlier were killed or dead (monitor.go:258-264, 312-318).
NoOrphanTail == wpc = "done" => \A m \in Monitor : tail[m] # "running"

\* A line that does not decode ends m's stream and leaves its tail running:
\* wait() then holds the lock for as long as the tail lives, and alive() waits.
Stuck == \E m \in Monitor : m \in streamDone /\ tail[m] = "running"

\* stop() does not leave the process hanging: watch receives quit and returns,
\* whatever monitors are being replaced or dying; only a stream that ended
\* before its tail can keep watch from it (monitor.go:253-255, 307-321).
StopReturns == stopping = "sending" ~> (wpc = "done" \/ []Stuck)

Reading(f) ==
  /\ monitors[f] # None
  /\ rpc[monitors[f]] = "stream" /\ tail[monitors[f]] = "running"

\* A file whose monitor's stream ended is read again, unless it vanishes or
\* the streamer is stopped, or a tail outlives its stream (monitor.go:284-303).
DeadMonitorReplaced ==
  \A f \in File :
    f \in present ~> (f \notin present \/ Reading(f) \/ stopping # "no" \/ []Stuck)
=============================================================================
