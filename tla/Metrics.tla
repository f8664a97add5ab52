------------------------------- MODULE Metrics -------------------------------
(***************************************************************************)
(* The metrics runner of metric/: a loop (runner.go) whose rounds          *)
(* (reporter.go) list the containers, read the connections the kernel      *)
(* tracks, send each running container's metrics and connections from a    *)
(* goroutine of its own, wait for all of them, then collect and send the   *)
(* metrics of the host (host.go).  Every value is a message of its own to  *)
(* the backend (logstash/logstash.go).                                     *)
(*                                                                         *)
(* What a value is does not matter except whether it can be marshalled: a  *)
(* quotient by zero cannot.                                                *)
(*                                                                         *)
(* External: docker, the kernel's counters and conntrack, the network.     *)
(***************************************************************************)
EXTENDS Naturals, Sequences, Functions

CONSTANTS
  Cont,   \* container ids
  IP,     \* their addresses
  Flows   \* what conntrack lists: source and destination of each connection

Loopback == "127.0.0.1"

ASSUME MetricsAssumption ==
  /\ Flows \in Seq([src : STRING, dst : STRING])
  /\ {"host", "clock"} \cap Cont = {}   \* docker's ids are hexadecimal

\* GetHostMetrics' collectors, in order.
Collectors == <<"load", "mem", "swap", "disk", "uptime", "cpu", "net">>

\* The metrics of a container whose computation divides, and the others.
ContKeys == {"cpu_max", "mem_pct_max", "mem_max"}

VARIABLES
  pc,        \* where the runner's goroutine is
  abort,     \* the abort channel is closed
  hasHost,   \* hostClient is not nil: HOST_PROC is set
  listed,    \* containers of the list not yet dealt with
  conns,     \* what conntrack returned
  wg,        \* the count of the WaitGroup
  worker,    \* the goroutine of each container
  readings,  \* the docker statistics it read
  left,      \* the metrics it has yet to send
  at,        \* the connection it looks at
  step,      \* the current collector, then the next host metric to send
  metrics,   \* the host metrics collected, as <<name, value>>
  last,      \* lastCPUStats is set
  ticked,    \* the cpu's counters advanced since they were last read
  sent,      \* history: what the backend took in this round
  spoiled,   \* history: who met an error of docker's, the kernel's or the network's in
             \* this round; "host" for the host, "clock" when its cpu time stood still
  measured   \* history: the containers whose statistics were read in this round

roundVars == <<listed, conns>>
workVars == <<wg, worker, readings, left, at>>
hostVars == <<step, metrics, last, ticked>>
histVars == <<sent, spoiled, measured>>
vars == <<pc, abort, hasHost, roundVars, workVars, hostVars, histVars>>

Readings == [limit : {0, 1}, system : {0, 1}]

TypeOK ==
  /\ pc \in {"list", "track", "fork", "wait", "collect", "hostname", "addrs", "send",
             "select", "done"}
  /\ abort \in BOOLEAN /\ hasHost \in BOOLEAN
  /\ listed \subseteq Cont /\ conns \in Seq([src : STRING, dst : STRING])
  /\ wg \in Nat
  /\ worker \in [Cont -> {"none", "inspect", "stats", "metrics", "conns", "end"}]
  /\ readings \in [Cont -> Readings]
  /\ left \in [Cont -> SUBSET ContKeys] /\ at \in [Cont -> Nat]
  /\ step \in 1 .. Len(Collectors) + 1
  /\ metrics \in Seq(Range(Collectors) \X {"number", "nan"})
  /\ last \in BOOLEAN /\ ticked \in BOOLEAN
  /\ spoiled \subseteq Cont \cup {"host", "clock"} /\ measured \subseteq Cont

NoReadings == [limit |-> 0, system |-> 0]

Init ==
  /\ pc = "list" /\ abort = FALSE /\ hasHost \in BOOLEAN
  /\ listed = {} /\ conns = <<>>
  /\ wg = 0 /\ worker = [c \in Cont |-> "none"]
  /\ readings = [c \in Cont |-> NoReadings]
  /\ left = [c \in Cont |-> {}] /\ at = [c \in Cont |-> 1]
  /\ step = 1 /\ metrics = <<>> /\ last = FALSE /\ ticked = FALSE
  /\ sent = {} /\ spoiled = {} /\ measured = {}
-----------------------------------------------------------------------------
Goto(from, to) == pc = from /\ pc' = to

Quotient(a, b) == IF b = 0 THEN "nan" ELSE "number"

\* float.MarshalJSON writes what is no number as "NaN.0", which json.Marshal
\* then refuses.
Marshals(v) == v # "nan"

\* logStash.send: the dial and the write may fail, and what is not marshalled
\* is not sent.
Sends(v) == {ok \in BOOLEAN : ok => Marshals(v)}

\* Do: a failed list is an empty one.
List ==
  /\ Goto("list", "track")
  /\ \E cs \in SUBSET Cont : listed' = cs
  /\ conns' = <<>>
  /\ sent' = {} /\ spoiled' = {} /\ measured' = {}
  /\ UNCHANGED <<abort, hasHost, workVars, hostVars>>

\* conntrack's loop: connections of the host with itself are left out.
Kept[k \in 0 .. Len(Flows)] ==
  IF k = 0 THEN <<>>
  ELSE IF Loopback \in {Flows[k].src, Flows[k].dst} THEN Kept[k - 1]
  ELSE Append(Kept[k - 1], Flows[k])

\* A failure is an empty list.
Track ==
  /\ Goto("track", "fork")
  /\ conns' \in {Kept[Len(Flows)], <<>>}
  /\ UNCHANGED <<abort, hasHost, listed, workVars, hostVars, histVars>>

\* getMetrics: a goroutine for each container that runs ...
Fork(c) ==
  /\ pc = "fork" /\ c \in listed /\ listed' = listed \ {c}
  /\ wg' = wg + 1
  /\ worker' = [worker EXCEPT ![c] = "inspect"]
  /\ UNCHANGED <<pc, abort, hasHost, conns, readings, left, at, hostVars, histVars>>

SkipStopped(c) ==
  /\ pc = "fork" /\ c \in listed /\ listed' = listed \ {c}
  /\ UNCHANGED <<pc, abort, hasHost, conns, workVars, hostVars, histVars>>

\* ... and a wait for all of them.
Forked ==
  /\ listed = {} /\ Goto("fork", "wait")
  /\ UNCHANGED <<abort, hasHost, roundVars, workVars, hostVars, histVars>>

\* Mutant of Joined: nobody waits for the goroutines.
JoinedAtOnce ==
  /\ Goto("wait", IF hasHost THEN "collect" ELSE "select")
  /\ UNCHANGED <<abort, hasHost, roundVars, workVars, hostVars, histVars>>

Joined ==
  /\ wg = 0 /\ Goto("wait", IF hasHost THEN "collect" ELSE "select")
  /\ UNCHANGED <<abort, hasHost, roundVars, workVars, hostVars, histVars>>
-----------------------------------------------------------------------------
WorkerGoto(c, from, to) == worker[c] = from /\ worker' = [worker EXCEPT ![c] = to]

\* GetContainer: the container lacks the selection variable, which is no
\* error, or has it.
NotSelected(c) ==
  /\ WorkerGoto(c, "inspect", "end")
  /\ UNCHANGED <<pc, abort, hasHost, roundVars, wg, readings, left, at, hostVars, histVars>>

Inspected(c) ==
  /\ WorkerGoto(c, "inspect", "stats")
  /\ UNCHANGED <<pc, abort, hasHost, roundVars, wg, readings, left, at, hostVars, histVars>>

\* Stats: docker's counters; a container without a limit, or whose system
\* counter did not advance between docker's two readings, among them.
GotStats(c) ==
  /\ WorkerGoto(c, "stats", "metrics")
  /\ \E r \in Readings : readings' = [readings EXCEPT ![c] = r]
  /\ left' = [left EXCEPT ![c] = ContKeys] /\ measured' = measured \cup {c}
  /\ UNCHANGED <<pc, abort, hasHost, roundVars, wg, at, hostVars, sent, spoiled>>

\* Either call fails, or there are no statistics.
WorkerError(c) ==
  /\ worker[c] \in {"inspect", "stats"} /\ worker' = [worker EXCEPT ![c] = "end"]
  /\ spoiled' = spoiled \cup {c}
  /\ UNCHANGED <<pc, abort, hasHost, roundVars, wg, readings, left, at, hostVars, sent, measured>>

\* Mutant of Value: the divisors are not looked at.
ValueUnguarded(r, k) ==
  CASE k = "cpu_max" -> Quotient(1, r.system)
    [] k = "mem_pct_max" -> Quotient(1, r.limit)
    [] OTHER -> "number"

\* statsToMetricsMap and calculateCPUPercent do not divide by zero.
Value(r, k) ==
  CASE k = "cpu_max" -> IF r.system > 0 THEN Quotient(1, r.system) ELSE "number"
    [] k = "mem_pct_max" -> IF r.limit > 0 THEN Quotient(1, r.limit) ELSE "number"
    [] OTHER -> "number"

\* One turn of sendMetrics, in the order the map yields; the first error ends
\* it, but not the goroutine.
SendMetric(c, k) ==
  /\ worker[c] = "metrics" /\ k \in left[c]
  /\ \E ok \in Sends(Value(readings[c], k)) :
       IF ok
       THEN /\ sent' = sent \cup {<<c, k>>} /\ left' = [left EXCEPT ![c] = @ \ {k}]
            /\ UNCHANGED <<worker, readings, spoiled>>
       ELSE /\ worker' = [worker EXCEPT ![c] = "conns"]
            /\ left' = [left EXCEPT ![c] = {}] /\ readings' = [readings EXCEPT ![c] = NoReadings]
            /\ spoiled' = spoiled \cup {x \in {c} : Marshals(Value(readings[c], k))}
            /\ UNCHANGED sent
  /\ UNCHANGED <<pc, abort, hasHost, roundVars, wg, at, hostVars, measured>>

MetricsSent(c) ==
  /\ left[c] = {} /\ WorkerGoto(c, "metrics", "conns")
  /\ readings' = [readings EXCEPT ![c] = NoReadings]
  /\ UNCHANGED <<pc, abort, hasHost, roundVars, wg, left, at, hostVars, histVars>>

\* The other end of connection f as seen from container c, if it is c's.
Peers(c, f) == IF f.src = IP[c] THEN {f.dst} ELSE IF f.dst = IP[c] THEN {f.src} ELSE {}

\* One turn of sendConnMetrics.
SendConn(c) ==
  /\ worker[c] = "conns" /\ at[c] <= Len(conns)
  /\ \/ /\ sent' = sent \cup {<<c, peer>> : peer \in Peers(c, conns[at[c]])}
        /\ at' = [at EXCEPT ![c] = @ + 1]
        /\ UNCHANGED <<worker, spoiled>>
     \/ /\ Peers(c, conns[at[c]]) # {}
        /\ worker' = [worker EXCEPT ![c] = "end"] /\ spoiled' = spoiled \cup {c}
        /\ UNCHANGED <<sent, at>>
  /\ UNCHANGED <<pc, abort, hasHost, roundVars, wg, readings, left, hostVars, measured>>

ConnsSent(c) ==
  /\ at[c] > Len(conns) /\ WorkerGoto(c, "conns", "end")
  /\ UNCHANGED <<pc, abort, hasHost, roundVars, wg, readings, left, at, hostVars, histVars>>

\* Mutant of WorkerDone: an early return misses wg.Done.
WorkerDoneSelected(c) ==
  /\ WorkerGoto(c, "end", "none")
  /\ wg' = IF c \in measured THEN wg - 1 ELSE wg
  /\ at' = [at EXCEPT ![c] = 1]
  /\ UNCHANGED <<pc, abort, hasHost, roundVars, readings, left, hostVars, histVars>>

\* The deferred wg.Done.
WorkerDone(c) ==
  /\ WorkerGoto(c, "end", "none")
  /\ wg' = wg - 1
  /\ at' = [at EXCEPT ![c] = 1]
  /\ UNCHANGED <<pc, abort, hasHost, roundVars, readings, left, hostVars, histVars>>
-----------------------------------------------------------------------------
\* GetHostMetrics: one collector after the other.  The cpu's shares are of the
\* time since the last reading; there is none at first.
HostValue(k) == IF k = "cpu" /\ last THEN Quotient(1, IF ticked THEN 1 ELSE 0) ELSE "number"

NextCollector(to) ==
  IF step = Len(Collectors) THEN pc' = to /\ step' = 1 ELSE step' = step + 1 /\ UNCHANGED pc

Collect ==
  /\ pc = "collect"
  /\ LET k == Collectors[step]
     IN  /\ metrics' = Append(metrics, <<k, HostValue(k)>>)
         /\ last' = (last \/ k = "cpu") /\ ticked' = (ticked /\ k # "cpu")
         /\ spoiled' = spoiled \cup {x \in {"clock"} : ~Marshals(HostValue(k))}
  /\ NextCollector("hostname")
  /\ UNCHANGED <<abort, hasHost, roundVars, workVars, sent, measured>>

\* Mutant of CollectNoInterface: it is an error like any other.
CollectNoInterfaceFails ==
  /\ pc = "collect" /\ Collectors[step] = "net"
  /\ pc' = "select" /\ step' = 1 /\ metrics' = <<>>
  /\ UNCHANGED <<abort, hasHost, roundVars, workVars, last, ticked, histVars>>

\* The network interface does not exist: its metrics are left out.
CollectNoInterface ==
  /\ pc = "collect" /\ Collectors[step] = "net"
  /\ NextCollector("hostname")
  /\ UNCHANGED <<abort, hasHost, roundVars, workVars, metrics, last, ticked, histVars>>

\* Any other error of a collector, of GetHostname or of GetNodeAddrs ends the round.
HostError ==
  /\ pc \in {"collect", "hostname", "addrs"} /\ pc' = "select"
  /\ step' = 1 /\ metrics' = <<>> /\ spoiled' = spoiled \cup {"host"}
  /\ UNCHANGED <<abort, hasHost, roundVars, workVars, last, ticked, sent, measured>>

HostInfo ==
  /\ pc \in {"hostname", "addrs"} /\ pc' = (IF pc = "hostname" THEN "addrs" ELSE "send")
  /\ UNCHANGED <<abort, hasHost, roundVars, workVars, hostVars, histVars>>

\* sendHostMetrics: the first error ends the round.
SendHost ==
  /\ pc = "send" /\ step <= Len(metrics)
  /\ LET m == metrics[step]
     IN  \E ok \in Sends(m[2]) :
           IF ok
           THEN /\ sent' = sent \cup {<<"host", m[1]>>}
                /\ step' = step + 1 /\ UNCHANGED <<pc, spoiled, metrics>>
           ELSE /\ pc' = "select" /\ step' = 1 /\ metrics' = <<>>
                /\ spoiled' = spoiled \cup {x \in {"host"} : Marshals(m[2])} /\ UNCHANGED sent
  /\ UNCHANGED <<abort, hasHost, roundVars, workVars, last, ticked, measured>>

HostSent ==
  /\ step > Len(metrics) /\ Goto("send", "select")
  /\ step' = 1 /\ metrics' = <<>>
  /\ UNCHANGED <<abort, hasHost, roundVars, workVars, last, ticked, histVars>>

\* The select of the runner's loop.  The cpu's counters may advance meanwhile;
\* when they do so matters only in that it is between two readings.
Interval ==
  /\ Goto("select", "list")
  /\ \E b \in BOOLEAN : ticked' = (ticked \/ b)
  /\ UNCHANGED <<abort, hasHost, roundVars, workVars, step, metrics, last, histVars>>

Exit ==
  /\ abort /\ Goto("select", "done")
  /\ UNCHANGED <<abort, hasHost, roundVars, workVars, hostVars, histVars>>

Stop ==
  /\ ~abort /\ abort' = TRUE
  /\ UNCHANGED <<pc, hasHost, roundVars, workVars, hostVars, histVars>>

Round ==
  \/ List \/ Track \/ Forked \/ Joined \/ (\E c \in Cont : Fork(c) \/ SkipStopped(c))
  \/ Collect \/ CollectNoInterface \/ HostError \/ HostInfo \/ SendHost \/ HostSent
  \/ Interval

Work(c) ==
  \/ NotSelected(c) \/ Inspected(c) \/ GotStats(c) \/ WorkerError(c)
  \/ (\E k \in ContKeys : SendMetric(c, k)) \/ MetricsSent(c)
  \/ SendConn(c) \/ ConnsSent(c) \/ WorkerDone(c)

Next == Round \/ Exit \/ Stop \/ \E c \in Cont : Work(c)

Spec == Init /\ [][Next]_vars

\* docker, conntrack and the backend answer or fail, so a goroutine goes on;
\* Go's select does not forever prefer one of two cases that are ready.
FairSpec == Spec /\ WF_vars(Round) /\ SF_vars(Exit) /\ \A c \in Cont : WF_vars(Work(c))
-----------------------------------------------------------------------------
\* What the backend took in this round of a container, or of the host.
SentOf(x) == {s[2] : s \in {t \in sent : t[1] = x}}

\* While the host is measured, between rounds and when Stop has returned, no
\* goroutine of getMetrics is left: rounds do not overlap (reporter.go:45-79).
RoundsApart == pc \notin {"fork", "wait"} => \A c \in Cont : worker[c] = "none"

\* Errors stay with the container they are of: when the goroutines are joined,
\* one whose own calls succeeded has sent all its metrics, those that would
\* divide by zero included, and its end of every connection that conntrack lists, and
\* nothing else, whatever happened to the others (reporter.go:50-111, container.go:9-54).
ContainersApart ==
  pc \in {"collect", "select"} =>
    \A c \in measured \ spoiled :
      SentOf(c) = ContKeys \cup UNION {Peers(c, f) : f \in Range(conns)}

\* Where no call of its own fails, a round sends all of the host's metrics but
\* those of an interface that does not exist; if the cpu time stood still since
\* the last reading it sends those that are collected before the cpu's: a share of no time
\* cannot be marshalled (reporter.go:113-148, host.go:45-68, 142-152, float.go:14-20).
HostRoundComplete ==
  pc = "select" /\ hasHost /\ "host" \notin spoiled =>
    IF "clock" \in spoiled THEN SentOf("host") = {"load", "mem", "swap", "disk", "uptime"}
                           ELSE Range(Collectors) \ {"net"} \subseteq SentOf("host")

\* Stop returns: the runner leaves its loop once the round it is in is over
\* (runner.go:68-87).
StopReturns == abort ~> pc = "done"
=============================================================================
