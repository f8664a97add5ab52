--------------------------- MODULE MetricsProofs ---------------------------
(***************************************************************************)
(* Proofs about the metrics runner for any containers, addresses and       *)
(* connections.                                                            *)
(***************************************************************************)
EXTENDS Metrics, FiniteSetTheorems, WellFoundedInduction, TLAPS

-----------------------------------------------------------------------------
\* The goroutines of getMetrics that have not ended: the WaitGroup counts them,
\* and none of them is left from an earlier round.
Live == {c \in Cont : worker[c] # "none"}

RoundInv ==
  /\ IsFiniteSet(Live) /\ wg = Cardinality(Live)
  /\ RoundsApart
  /\ pc \notin {"track", "fork"} => listed = {}
  /\ \A c \in listed : worker[c] = "none"

\* What a container has sent, by where its goroutine is.
PeersUpTo(c, k) == UNION {Peers(c, conns[j]) : j \in 1 .. k}

ContOK(c) ==
  /\ c \in listed \/ worker[c] \in {"inspect", "stats"} => c \notin measured /\ SentOf(c) = {}
  /\ worker[c] \notin {"conns", "end"} => at[c] = 1
  /\ worker[c] = "metrics" => c \in measured /\ SentOf(c) = ContKeys \ left[c]
  /\ worker[c] = "conns" =>
       /\ c \in measured /\ at[c] \in 1 .. Len(conns) + 1
       /\ c \notin spoiled => SentOf(c) = ContKeys \cup PeersUpTo(c, at[c] - 1)
  /\ worker[c] \in {"end", "none"} /\ c \in measured \ spoiled =>
       SentOf(c) = ContKeys \cup PeersUpTo(c, Len(conns))

ContInv == (pc = "track" => measured = {}) /\ \A c \in Cont : ContOK(c)

\* What the host's collectors yielded: the cpu's value is the sixth.
Collected(k) ==
  /\ Len(metrics) = k
  /\ \A j \in 1 .. k : /\ metrics[j][1] = Collectors[j]
                       /\ Marshals(metrics[j][2]) <=> ~(j = 6 /\ "clock" \in spoiled)

\* The host's part of a round, by where the runner is.
HostInv ==
  /\ pc \notin {"collect", "send"} => step = 1
  /\ pc \in {"track", "fork", "wait"} => metrics = <<>> /\ "clock" \notin spoiled
  /\ pc \in {"list", "select", "done"} => metrics = <<>>
  /\ pc \in {"track", "fork", "wait", "collect", "hostname", "addrs"} => SentOf("host") = {}
  /\ pc = "collect" => step \in 1 .. 7 /\ Collected(step - 1) /\ (step <= 6 => "clock" \notin spoiled)
  /\ pc \in {"hostname", "addrs", "send"} => Len(metrics) \in {6, 7} /\ Collected(Len(metrics))
  /\ pc = "send" =>
       /\ step \in 1 .. Len(metrics) + 1 /\ ("clock" \in spoiled => step <= 6)
       /\ SentOf("host") = {Collectors[j] : j \in 1 .. step - 1}
  /\ HostRoundComplete

MetricsInv == TypeOK /\ RoundInv /\ ContInv /\ HostInv

-----------------------------------------------------------------------------
\* Induction over the naturals, for a set.
LEMMA Least ==
  ASSUME NEW T \in SUBSET Nat, T # {}
  PROVE  \E n \in T : \A m \in T : n <= m
  <1>1. IsWellFoundedOn(OpToRel(<, Nat), Nat)
    BY NatLessThanWellFounded, Zenon
  <1>2. PICK n \in T : \A m \in T : ~(<<m, n>> \in OpToRel(<, Nat))
    BY <1>1, WFMin, Zenon
  <1>3. \A m \in T : ~(m < n)
    BY <1>2, Zenon DEF OpToRel
  <1> QED
    BY <1>3

LEMMA SetInduction ==
  ASSUME NEW S, 0 \in S, \A n \in Nat : n \in S => n + 1 \in S
  PROVE  Nat \subseteq S
  <1> SUFFICES ASSUME Nat \ S # {} PROVE FALSE
    OBVIOUS
  <1>1. PICK n \in Nat \ S : \A m \in Nat \ S : n <= m
    BY Least, Zenon
  <1>2. n # 0 /\ n - 1 \in Nat
    BY <1>1
  <1>3. n - 1 \in S
    BY <1>1, <1>2
  <1> QED
    BY <1>1, <1>2, <1>3

\* A connection of the host with itself.
Own(f) == Loopback \in {f.src, f.dst}

Flow == [src : STRING, dst : STRING]

\* The loop of conntrack, over the first m connections.
KeptUpTo(m, f) ==
  f = [k \in 0 .. m |-> IF k = 0 THEN <<>>
                        ELSE IF Own(Flows[k]) THEN f[k - 1] ELSE Append(f[k - 1], Flows[k])]

LEMMA KeptExists == \E f : KeptUpTo(Len(Flows), f)
  <1> DEFINE S == {m \in Nat : \E f : KeptUpTo(m, f)}
  <1>1. 0 \in S
    <2>1. KeptUpTo(0, [k \in 0 .. 0 |-> <<>>])
      BY DEF KeptUpTo
    <2> QED
      BY <2>1
  <1>2. ASSUME NEW m \in Nat, m \in S PROVE m + 1 \in S
    <2>1. PICK f : KeptUpTo(m, f)
      BY <1>2
    <2> DEFINE g == [k \in 0 .. m + 1 |->
                       IF k <= m THEN f[k]
                       ELSE IF Own(Flows[k]) THEN f[k - 1] ELSE Append(f[k - 1], Flows[k])]
    <2>2. \A k \in 0 .. m : f[k] = IF k = 0 THEN <<>>
                                   ELSE IF Own(Flows[k]) THEN f[k - 1] ELSE Append(f[k - 1], Flows[k])
      BY <2>1, Zenon DEF KeptUpTo
    <2>3. \A k \in 0 .. m + 1 : g[k] = IF k = 0 THEN <<>>
                                       ELSE IF Own(Flows[k]) THEN g[k - 1] ELSE Append(g[k - 1], Flows[k])
      BY <2>2
    <2>4. KeptUpTo(m + 1, g)
      BY <2>3 DEF KeptUpTo
    <2> QED
      BY <2>4
  <1> HIDE DEF S
  <1>3. Nat \subseteq S
    BY <1>1, <1>2, SetInduction
  <1>4. Len(Flows) \in S
    BY <1>3, MetricsAssumption
  <1> QED
    BY <1>4 DEF S

LEMMA KeptDef ==
  \A k \in 0 .. Len(Flows) :
    Kept[k] = IF k = 0 THEN <<>>
              ELSE IF Own(Flows[k]) THEN Kept[k - 1] ELSE Append(Kept[k - 1], Flows[k])
  <1>1. KeptUpTo(Len(Flows), Kept)
    BY KeptExists, Zenon DEF KeptUpTo, Kept, Own
  <1> QED
    BY <1>1, Zenon DEF KeptUpTo

LEMMA FlowFacts ==
  /\ Len(Flows) \in Nat /\ DOMAIN Flows = 1 .. Len(Flows)
  /\ \A k \in 1 .. Len(Flows) : Flows[k] \in Flow
  <1>1. Flows \in Seq(Flow)
    BY MetricsAssumption DEF Flow
  <1> QED
    BY <1>1

LEMMA RangeAppend ==
  ASSUME NEW S, NEW q \in Seq(S), NEW x \in S
  PROVE  Range(Append(q, x)) = Range(q) \cup {x}
  <1>1. /\ DOMAIN q = 1 .. Len(q) /\ Len(q) \in Nat /\ DOMAIN Append(q, x) = 1 .. (Len(q) + 1)
        /\ \A k \in 1 .. Len(q) : Append(q, x)[k] = q[k]
        /\ Append(q, x)[Len(q) + 1] = x
    OBVIOUS
  <1>2. 1 .. (Len(q) + 1) = (1 .. Len(q)) \cup {Len(q) + 1}
    BY <1>1
  <1> QED
    BY <1>1, <1>2, Zenon DEF Range

\* What conntrack's loop has after k turns.
KeptGood(k) ==
  /\ Kept[k] \in Seq(Flow)
  /\ Range(Kept[k]) = {Flows[j] : j \in {i \in 1 .. k : ~Own(Flows[i])}}

LEMMA KeptTurn ==
  ASSUME NEW m \in Nat, KeptGood(m), m + 1 <= Len(Flows)
  PROVE  KeptGood(m + 1)
  <1>1. m + 1 \in 1 .. Len(Flows) /\ m \in 0 .. Len(Flows) /\ Flows[m + 1] \in Flow
    BY FlowFacts
  <1>2. Kept[m + 1] = IF Own(Flows[m + 1]) THEN Kept[m] ELSE Append(Kept[m], Flows[m + 1])
    BY <1>1, KeptDef, FlowFacts
  <1>3. {i \in 1 .. m + 1 : ~Own(Flows[i])} =
          {i \in 1 .. m : ~Own(Flows[i])} \cup (IF Own(Flows[m + 1]) THEN {} ELSE {m + 1})
    OBVIOUS
  <1>4. CASE Own(Flows[m + 1])
    BY <1>2, <1>3, <1>4 DEF KeptGood
  <1>5. CASE ~Own(Flows[m + 1])
    <2>1. Kept[m + 1] \in Seq(Flow)
      BY <1>1, <1>2, <1>5 DEF KeptGood
    <2>2. Range(Kept[m + 1]) = Range(Kept[m]) \cup {Flows[m + 1]}
      BY <1>1, <1>2, <1>5, RangeAppend DEF KeptGood
    <2> QED
      BY <1>3, <1>5, <2>1, <2>2 DEF KeptGood
  <1> QED
    BY <1>4, <1>5

\* What conntrack returns: the connections of others, and no more
\* (conntrack.go:47-60).
THEOREM ConntrackKeeps ==
  /\ Kept[Len(Flows)] \in Seq(Flow)
  /\ Range(Kept[Len(Flows)]) = {f \in Range(Flows) : ~Own(f)}
  <1> DEFINE S == {k \in Nat : k <= Len(Flows) => KeptGood(k)}
  <1>1. 0 \in S
    <2>1. Kept[0] = <<>>
      BY KeptDef, FlowFacts
    <2>2. KeptGood(0)
      BY <2>1 DEF KeptGood, Range
    <2> QED
      BY <2>2
  <1>2. \A m \in Nat : m \in S => m + 1 \in S
    BY KeptTurn, FlowFacts
  <1> HIDE DEF S
  <1>3. Len(Flows) \in S
    BY <1>1, <1>2, SetInduction, FlowFacts
  <1>4. KeptGood(Len(Flows))
    BY <1>3, FlowFacts DEF S
  <1>5. {Flows[j] : j \in {i \in 1 .. Len(Flows) : ~Own(Flows[i])}} = {f \in Range(Flows) : ~Own(f)}
    BY FlowFacts DEF Range
  <1> QED
    BY <1>4, <1>5 DEF KeptGood

-----------------------------------------------------------------------------
\* The collectors, by position.
LEMMA CollectorFacts ==
  /\ Len(Collectors) = 7 /\ \A k \in 1 .. 7 : Collectors[k] \in Range(Collectors)
  /\ \A k \in 1 .. 7 : (Collectors[k] = "cpu" <=> k = 6) /\ (Collectors[k] = "net" <=> k = 7)
  /\ {Collectors[k] : k \in 1 .. 5} = {"load", "mem", "swap", "disk", "uptime"}
  /\ Range(Collectors) \ {"net"} = {Collectors[k] : k \in 1 .. 6}
  <1>1. Len(Collectors) = 7 /\ DOMAIN Collectors = 1 .. 7
    BY DEF Collectors
  <1>2. /\ Collectors[1] = "load" /\ Collectors[2] = "mem" /\ Collectors[3] = "swap"
        /\ Collectors[4] = "disk" /\ Collectors[5] = "uptime" /\ Collectors[6] = "cpu"
        /\ Collectors[7] = "net"
    BY DEF Collectors
  <1>3. Range(Collectors) = {Collectors[k] : k \in 1 .. 7}
    BY <1>1 DEF Range
  <1> QED
    BY <1>1, <1>2, <1>3

LEMMA NoElements == \A X : <<>> \in Seq(X)
  OBVIOUS

LEMMA MetricsInit == Init => MetricsInv
  <1> SUFFICES ASSUME Init PROVE MetricsInv
    OBVIOUS
  <1>1. TypeOK
    <2>1. NoReadings \in Readings
      BY DEF Readings, NoReadings
    <2>2. readings \in [Cont -> Readings] /\ left \in [Cont -> SUBSET ContKeys] /\ at \in [Cont -> Nat]
      BY <2>1 DEF Init
    <2>3. worker \in [Cont -> {"none", "inspect", "stats", "metrics", "conns", "end"}]
      BY DEF Init
    <2>4. step \in 1 .. Len(Collectors) + 1
      BY CollectorFacts DEF Init
    <2> QED
      BY <2>2, <2>3, <2>4, NoElements, Zenon DEF Init, TypeOK
  <1>2. RoundInv
    <2>1. Live = {}
      BY DEF Init, Live
    <2> QED
      BY <2>1, FS_EmptySet DEF Init, RoundInv, RoundsApart
  <1>3. ContInv
    BY DEF Init, ContInv, ContOK
  <1>4. HostInv
    BY DEF Init, HostInv, HostRoundComplete
  <1> QED
    BY <1>1, <1>2, <1>3, <1>4 DEF MetricsInv

\* Steps of a goroutine of getMetrics: what they leave alone, ...
LEMMA WorkFrame ==
  ASSUME NEW c \in Cont, Work(c)
  PROVE  UNCHANGED <<pc, abort, hasHost, roundVars, hostVars>>
  BY DEF Work, NotSelected, Inspected, GotStats, WorkerError, SendMetric, MetricsSent, SendConn,
         ConnsSent, WorkerDone

\* ... and what they may change, all of it of container c.
Places == {"none", "inspect", "stats", "metrics", "conns", "end"}

MapTypes ==
  /\ worker \in [Cont -> Places] /\ readings \in [Cont -> Readings]
  /\ left \in [Cont -> SUBSET ContKeys] /\ at \in [Cont -> Nat]

Moves(c) ==
  /\ wg' = wg /\ worker[c] # "none" /\ worker'[c] # "none" /\ MapTypes'
  /\ \A d \in Cont \ {c} : worker'[d] = worker[d] /\ left'[d] = left[d] /\ at'[d] = at[d]
  /\ measured' \in {measured, measured \cup {c}} /\ spoiled' \in {spoiled, spoiled \cup {c}}
  /\ sent' = sent \/ \E Y : sent' = sent \cup {<<c, y>> : y \in Y}

LEMMA WorkMoves ==
  ASSUME TypeOK, NEW c \in Cont, Work(c)
  PROVE  Moves(c) \/ WorkerDone(c)
  <1>1. NoReadings \in Readings /\ MapTypes
    BY DEF Readings, NoReadings, MapTypes, TypeOK, Places
  <1>2. CASE NotSelected(c) \/ Inspected(c) \/ ConnsSent(c)
    BY <1>1, <1>2 DEF NotSelected, Inspected, ConnsSent, WorkerGoto, histVars, Moves, MapTypes, Places
  <1>3. CASE GotStats(c)
    BY <1>1, <1>3 DEF GotStats, WorkerGoto, Moves, MapTypes, Places
  <1>4. CASE WorkerError(c)
    BY <1>1, <1>4 DEF WorkerError, Moves, MapTypes, Places
  <1>5. ASSUME NEW k \in ContKeys, SendMetric(c, k) PROVE Moves(c)
    <2>1. {<<c, k>>} = {<<c, y>> : y \in {k}}
      OBVIOUS
    <2>2. {x \in {c} : Marshals(Value(readings[c], k))} \in {{}, {c}}
      OBVIOUS
    <2>3. spoiled' \in {spoiled, spoiled \cup {c}} /\ (sent' = sent \/ sent' = sent \cup {<<c, k>>})
      BY <1>5, <2>2, Zenon DEF SendMetric
    <2>4. sent' = sent \/ \E Y : sent' = sent \cup {<<c, y>> : y \in Y}
      BY <2>1, <2>3, Zenon
    <2>5. /\ left' = [left EXCEPT ![c] = @ \ {k}] \/ left' = [left EXCEPT ![c] = {}]
          /\ worker' = worker \/ worker' = [worker EXCEPT ![c] = "conns"]
          /\ readings' = readings \/ readings' = [readings EXCEPT ![c] = NoReadings]
          /\ worker[c] # "none" /\ at' = at /\ measured' = measured /\ wg' = wg
      BY <1>5 DEF SendMetric
    <2>6. MapTypes' /\ worker'[c] # "none"
      BY <1>1, <2>5 DEF MapTypes, Places
    <2>7. \A d \in Cont \ {c} : worker'[d] = worker[d] /\ left'[d] = left[d] /\ at'[d] = at[d]
      BY <1>1, <2>5 DEF MapTypes
    <2> QED
      BY <2>3, <2>4, <2>5, <2>6, <2>7 DEF Moves
  <1>6. CASE MetricsSent(c)
    BY <1>1, <1>6 DEF MetricsSent, WorkerGoto, histVars, Moves, MapTypes, Places
  <1>7. CASE SendConn(c)
    <2>1. /\ at' = at \/ at' = [at EXCEPT ![c] = @ + 1]
          /\ worker' = worker \/ worker' = [worker EXCEPT ![c] = "end"]
          /\ worker[c] = "conns" /\ UNCHANGED <<wg, readings, left, measured>>
          /\ spoiled' \in {spoiled, spoiled \cup {c}}
      BY <1>7 DEF SendConn
    <2>2. sent' = sent \/ \E Y : sent' = sent \cup {<<c, y>> : y \in Y}
      BY <1>7, Zenon DEF SendConn
    <2>3. MapTypes' /\ worker'[c] # "none"
      BY <1>1, <2>1 DEF MapTypes, Places
    <2>4. \A d \in Cont \ {c} : worker'[d] = worker[d] /\ left'[d] = left[d] /\ at'[d] = at[d]
      BY <1>1, <2>1 DEF MapTypes
    <2> QED
      BY <2>1, <2>2, <2>3, <2>4 DEF Moves
  <1> QED
    BY <1>2, <1>3, <1>4, <1>5, <1>6, <1>7 DEF Work

\* Steps of the runner: what they leave alone.
RunnerSteps ==
  \/ List \/ Track \/ Forked \/ Joined \/ (\E c \in Cont : SkipStopped(c))
  \/ Collect \/ CollectNoInterface \/ HostError \/ HostInfo \/ SendHost \/ HostSent
  \/ Interval \/ Exit \/ Stop \/ UNCHANGED vars

LEMMA RunnerFrame == ASSUME RunnerSteps PROVE UNCHANGED workVars
  BY DEF RunnerSteps, List, Track, Forked, Joined, SkipStopped, Collect, CollectNoInterface, HostError,
         HostInfo, SendHost, HostSent, Interval, Exit, Stop, vars

LEMMA Steps ==
  [Next]_vars => RunnerSteps \/ \E c \in Cont : Fork(c) \/ Work(c)
  BY DEF Next, Round, RunnerSteps

\* Types.
LEMMA WorkTypes == ASSUME MetricsInv, NEW c \in Cont, Work(c) PROVE TypeOK'
  <1> USE DEF MetricsInv
  <1>1. UNCHANGED <<pc, abort, hasHost, listed, conns, step, metrics, last, ticked>>
    BY WorkFrame DEF roundVars, hostVars
  <1>2. CASE Moves(c)
    <2>1. MapTypes' /\ wg' = wg
      BY <1>2 DEF Moves
    <2>2. spoiled' \subseteq Cont \cup {"host", "clock"} /\ measured' \subseteq Cont
      BY <1>2 DEF Moves, TypeOK
    <2> QED
      BY <1>1, <2>1, <2>2 DEF MapTypes, Places, TypeOK
  <1>3. CASE WorkerDone(c)
    <2>1. c \in Live
      BY <1>3 DEF WorkerDone, WorkerGoto, Live
    <2>2. wg - 1 \in Nat
      BY <2>1, FS_EmptySet DEF RoundInv, TypeOK
    <2> QED
      BY <1>1, <1>3, <2>2 DEF WorkerDone, WorkerGoto, histVars, TypeOK
  <1> QED
    BY <1>2, <1>3, WorkMoves

\* Collecting advances step by one, or ends with it at one.
LEMMA CollectTypes ==
  ASSUME MetricsInv, pc = "collect", NextCollector("hostname")
  PROVE  /\ step \in 1 .. 7 /\ step' \in 1 .. 8
         /\ \/ step = 7 /\ pc' = "hostname" /\ step' = 1
            \/ step \in 1 .. 6 /\ pc' = pc /\ step' = step + 1
  BY CollectorFacts DEF MetricsInv, HostInv, NextCollector

LEMMA RunnerTypes == ASSUME MetricsInv, RunnerSteps PROVE TypeOK'
  <1> USE DEF MetricsInv
  <1>1. UNCHANGED <<wg, worker, readings, left, at>>
    BY RunnerFrame DEF workVars
  <1>2. pc' \in {"list", "track", "fork", "wait", "collect", "hostname", "addrs", "send", "select", "done"}
    BY DEF RunnerSteps, List, Track, Forked, Joined, SkipStopped, Collect, CollectNoInterface, HostError,
           HostInfo, SendHost, HostSent, Interval, Exit, Stop, vars, Goto, NextCollector, TypeOK
  <1>3. abort' \in BOOLEAN /\ hasHost' \in BOOLEAN /\ last' \in BOOLEAN /\ ticked' \in BOOLEAN
    BY Zenon DEF RunnerSteps, List, Track, Forked, Joined, SkipStopped, Collect, CollectNoInterface, HostError,
           HostInfo, SendHost, HostSent, Interval, Exit, Stop, vars, hostVars, TypeOK
  <1>4. listed' \subseteq Cont
    BY DEF RunnerSteps, List, Track, Forked, Joined, SkipStopped, Collect, CollectNoInterface, HostError,
           HostInfo, SendHost, HostSent, Interval, Exit, Stop, vars, roundVars, TypeOK
  <1>5. conns' \in Seq([src : STRING, dst : STRING])
    <2>1. conns' \in {conns, <<>>, Kept[Len(Flows)]}
      BY DEF RunnerSteps, List, Track, Forked, Joined, SkipStopped, Collect, CollectNoInterface, HostError,
             HostInfo, SendHost, HostSent, Interval, Exit, Stop, vars, roundVars
    <2> QED
      BY <2>1, ConntrackKeeps, NoElements, Zenon DEF TypeOK, Flow
  <1>6. step' \in 1 .. Len(Collectors) + 1
    <2>1. step' \in 1 .. 8
      <3>1. CASE Collect \/ CollectNoInterface
        BY <3>1, CollectTypes DEF Collect, CollectNoInterface
      <3>2. CASE SendHost
        <4> DEFINE n == Len(metrics)
        <4>1. pc = "send" /\ step <= n
          BY <3>2, Zenon DEF SendHost
        <4>2. step \in 1 .. n + 1 /\ n \in {6, 7}
          BY <4>1, Zenon DEF HostInv
        <4> HIDE DEF n
        <4>3. step \in 1 .. 7
          BY <4>1, <4>2
        <4>4. step' = step + 1 \/ step' = 1
          BY <3>2, Zenon DEF SendHost
        <4> QED
          BY <4>3, <4>4
      <3>3. step \in 1 .. 8
        BY CollectorFacts DEF TypeOK
      <3> QED
        BY <3>1, <3>2, <3>3
        DEF RunnerSteps, List, Track, Forked, Joined, SkipStopped, HostError,
            HostInfo, HostSent, Interval, Exit, Stop, vars, hostVars
    <2> QED
      BY <2>1, CollectorFacts
  <1>7. metrics' \in Seq(Range(Collectors) \X {"number", "nan"})
    <2>1. CASE Collect
      <3>1. \A k : HostValue(k) \in {"number", "nan"}
        BY DEF HostValue, Quotient
      <3>2. Collectors[step] \in Range(Collectors)
        BY <2>1, CollectTypes, CollectorFacts DEF Collect
      <3> DEFINE v == <<Collectors[step], HostValue(Collectors[step])>>
      <3>3. v \in Range(Collectors) \X {"number", "nan"}
        BY <3>1, <3>2
      <3>4. metrics' = Append(metrics, v)
        BY <2>1 DEF Collect
      <3> HIDE DEF v
      <3> QED
        BY <3>3, <3>4 DEF TypeOK
    <2>2. Collect \/ metrics' = metrics \/ metrics' = <<>>
      BY DEF RunnerSteps, List, Track, Forked, Joined, SkipStopped, CollectNoInterface, HostError,
             HostInfo, SendHost, HostSent, Interval, Exit, Stop, vars, hostVars
    <2> QED
      BY <2>1, <2>2, NoElements, Zenon DEF TypeOK
  <1>8. spoiled' \subseteq Cont \cup {"host", "clock"} /\ measured' \subseteq Cont
    BY DEF RunnerSteps, List, Track, Forked, Joined, SkipStopped, Collect, CollectNoInterface, HostError,
           HostInfo, SendHost, HostSent, Interval, Exit, Stop, vars, histVars, TypeOK
  <1> QED
    BY <1>1, <1>2, <1>3, <1>4, <1>5, <1>6, <1>7, <1>8 DEF TypeOK

\* The WaitGroup.
LEMMA ForkRound == ASSUME MetricsInv, NEW c \in Cont, Fork(c) PROVE TypeOK' /\ RoundInv'
  <1> USE DEF MetricsInv
  <1>1. worker[c] = "none" /\ worker' = [worker EXCEPT ![c] = "inspect"] /\ wg' = wg + 1
        /\ pc = "fork" /\ pc' = pc /\ listed' = listed \ {c}
    BY DEF Fork, RoundInv
  <1>2. Live' = Live \cup {c} /\ c \notin Live
    BY <1>1 DEF Live, TypeOK
  <1>3. IsFiniteSet(Live') /\ Cardinality(Live') = Cardinality(Live) + 1
    BY <1>2, FS_AddElement DEF RoundInv
  <1>4. RoundInv'
    BY <1>1, <1>3 DEF RoundInv, RoundsApart, TypeOK
  <1>5. TypeOK'
    BY <1>1 DEF Fork, TypeOK, hostVars, histVars
  <1> QED
    BY <1>4, <1>5

LEMMA WorkPlace ==
  ASSUME MetricsInv, NEW c \in Cont, Work(c)
  PROVE  worker[c] # "none" /\ c \in Live /\ pc \in {"fork", "wait"}
  <1>1. worker[c] # "none"
    BY WorkMoves DEF Moves, WorkerDone, WorkerGoto, MetricsInv
  <1> QED
    BY <1>1 DEF Live, MetricsInv, RoundInv, RoundsApart

LEMMA WorkRound == ASSUME MetricsInv, NEW c \in Cont, Work(c) PROVE RoundInv'
  <1> USE DEF MetricsInv
  <1>1. worker[c] # "none" /\ c \in Live /\ pc' = pc /\ listed' = listed /\ pc \in {"fork", "wait"}
    BY WorkPlace, WorkFrame DEF roundVars
  <1>2. CASE WorkerDone(c)
    <2>1. Live' = Live \ {c} /\ wg' = wg - 1 /\ \A d \in Cont : worker[d] = "none" => worker'[d] = "none"
      BY <1>2 DEF WorkerDone, WorkerGoto, Live, TypeOK
    <2>2. IsFiniteSet(Live') /\ Cardinality(Live') = Cardinality(Live) - 1
      BY <1>1, <2>1, FS_RemoveElement DEF RoundInv
    <2> QED
      BY <1>1, <2>1, <2>2 DEF RoundInv, RoundsApart, TypeOK
  <1>3. CASE Moves(c)
    <2>1. \A d \in Cont : worker'[d] = "none" <=> worker[d] = "none"
      BY <1>3 DEF Moves, TypeOK
    <2>2. Live' = Live /\ wg' = wg
      BY <1>3, <2>1 DEF Live, Moves
    <2> QED
      BY <1>1, <2>1, <2>2 DEF RoundInv, RoundsApart, TypeOK
  <1> QED
    BY <1>2, <1>3, WorkMoves

LEMMA RunnerRound == ASSUME MetricsInv, RunnerSteps PROVE RoundInv'
  <1> USE DEF MetricsInv
  <1>1. UNCHANGED <<wg, worker>> /\ Live' = Live
    BY RunnerFrame DEF workVars, Live
  <1>2. wg = 0 => \A c \in Cont : worker[c] = "none"
    BY FS_EmptySet DEF RoundInv, Live
  <1>3. pc \in {"fork", "wait"} => wg = 0 \/ pc' \in {"fork", "wait"}
    BY DEF RunnerSteps, List, Track, Forked, Joined, SkipStopped, Collect, CollectNoInterface, HostError,
           HostInfo, SendHost, HostSent, Interval, Exit, Stop, vars, Goto
  <1>4. RoundsApart'
    BY <1>1, <1>2, <1>3 DEF RoundsApart, RoundInv
  <1>5. \/ List /\ pc' = "track" /\ pc = "list"
        \/ Track /\ pc' = "fork" /\ listed' = listed
        \/ pc = "fork" /\ pc' = "fork" /\ listed' \subseteq listed
        \/ listed = {} /\ listed' = {}
        \/ pc' = pc /\ listed' = listed
    BY DEF RunnerSteps, List, Track, Forked, Joined, SkipStopped, Collect, CollectNoInterface, HostError,
           HostInfo, SendHost, HostSent, Interval, Exit, Stop, vars, Goto, roundVars, RoundInv
  <1>6. pc' \notin {"track", "fork"} => listed' = {}
    BY <1>5 DEF RoundInv
  <1>7. \A c \in listed' : worker'[c] = "none"
    BY <1>1, <1>5, RunnerTypes DEF RoundInv, RoundsApart, TypeOK
  <1> QED
    BY <1>1, <1>4, <1>6, <1>7 DEF RoundInv

\* What the backend took, and more of it.
LEMMA SentMore ==
  ASSUME NEW x, NEW Y, sent' = sent \cup {<<x, y>> : y \in Y}
  PROVE  SentOf(x)' = SentOf(x) \cup Y /\ \A z : z # x => SentOf(z)' = SentOf(z)
  <1>1. \A y \in Y : <<x, y>>[1] = x /\ <<x, y>>[2] = y
    OBVIOUS
  <1>2. {t \in sent' : t[1] = x} = {t \in sent : t[1] = x} \cup {<<x, y>> : y \in Y}
    BY <1>1
  <1>3. \A z : z # x => {t \in sent' : t[1] = z} = {t \in sent : t[1] = z}
    BY <1>1
  <1>4. SentOf(x)' = SentOf(x) \cup {s[2] : s \in {<<x, y>> : y \in Y}}
    BY <1>2 DEF SentOf
  <1>5. {s[2] : s \in {<<x, y>> : y \in Y}} = Y
    BY <1>1, Zenon
  <1> QED
    BY <1>3, <1>4, <1>5 DEF SentOf

LEMMA SentSame == ASSUME sent' = sent PROVE \A z : SentOf(z)' = SentOf(z)
  BY DEF SentOf

\* A step that leaves a container alone.
LEMMA ContSame ==
  ASSUME NEW d \in Cont, ContOK(d), worker'[d] = worker[d], at'[d] = at[d], left'[d] = left[d],
         d \in measured' <=> d \in measured, d \in spoiled' <=> d \in spoiled,
         SentOf(d)' = SentOf(d), conns' = conns, d \in listed' => d \in listed
  PROVE  ContOK(d)'
  BY DEF ContOK, PeersUpTo

\* The values of a container can be marshalled: its divisors are looked at.
LEMMA ValuesMarshal == \A r \in Readings : \A k : Marshals(Value(r, k))
  BY DEF Readings, Marshals, Value, Quotient

\* A connection more.
LEMMA PeersNext ==
  ASSUME NEW c, NEW k \in Nat, k >= 1
  PROVE  PeersUpTo(c, k) = PeersUpTo(c, k - 1) \cup Peers(c, conns[k])
  <1>1. 1 .. k = (1 .. (k - 1)) \cup {k}
    OBVIOUS
  <1> QED
    BY <1>1 DEF PeersUpTo

\* The goroutine of container c moves.
LEMMA WorkOthers ==
  ASSUME MetricsInv, NEW c \in Cont, Work(c), NEW d \in Cont, d # c
  PROVE  ContOK(d)'
  <1> USE DEF MetricsInv
  <1>1. worker'[d] = worker[d] /\ at'[d] = at[d] /\ left'[d] = left[d]
    <2>1. CASE Moves(c)
      BY <2>1 DEF Moves
    <2>2. CASE WorkerDone(c)
      BY <2>2 DEF WorkerDone, WorkerGoto, TypeOK
    <2> QED
      BY <2>1, <2>2, WorkMoves
  <1>2. (d \in measured' <=> d \in measured) /\ (d \in spoiled' <=> d \in spoiled)
    BY WorkMoves DEF Moves, WorkerDone, histVars
  <1>3. sent' = sent \/ \E Y : sent' = sent \cup {<<c, y>> : y \in Y}
    BY WorkMoves DEF Moves, WorkerDone, histVars
  <1>4. SentOf(d)' = SentOf(d)
    BY <1>3, SentMore, SentSame
  <1> QED
    BY <1>1, <1>2, <1>4, WorkFrame, ContSame DEF roundVars, ContInv

LEMMA WorkSelf == ASSUME MetricsInv, NEW c \in Cont, Work(c) PROVE ContOK(c)'
  <1> USE DEF MetricsInv
  <1>1. conns' = conns /\ listed' = listed /\ ContOK(c) /\ (worker[c] # "none" => c \notin listed)
    BY WorkFrame DEF roundVars, ContInv, RoundInv
  <1>2. CASE NotSelected(c) \/ Inspected(c)
    BY <1>1, <1>2, SentSame DEF NotSelected, Inspected, WorkerGoto, histVars, ContOK, TypeOK
  <1>3. CASE GotStats(c)
    BY <1>1, <1>3, SentSame DEF GotStats, WorkerGoto, ContOK, TypeOK
  <1>4. CASE WorkerError(c)
    BY <1>1, <1>4, SentSame DEF WorkerError, ContOK, TypeOK
  <1>5. ASSUME NEW k \in ContKeys, SendMetric(c, k) PROVE ContOK(c)'
    <2>1. Marshals(Value(readings[c], k))
      BY ValuesMarshal DEF TypeOK
    <2>2. /\ worker[c] = "metrics" /\ k \in left[c] /\ at' = at /\ measured' = measured
          /\ \/ /\ sent' = sent \cup {<<c, k>>} /\ left' = [left EXCEPT ![c] = @ \ {k}]
                /\ worker' = worker
             \/ /\ worker' = [worker EXCEPT ![c] = "conns"] /\ spoiled' = spoiled \cup {c} /\ sent' = sent
      BY <1>5, <2>1 DEF SendMetric
    <2>3. {<<c, k>>} = {<<c, y>> : y \in {k}}
      OBVIOUS
    <2>4. CASE sent' = sent \cup {<<c, k>>} /\ left' = [left EXCEPT ![c] = @ \ {k}] /\ worker' = worker
      <3>1. SentOf(c)' = SentOf(c) \cup {k}
        BY <2>3, <2>4, SentMore, Zenon
      <3>2. left'[c] = left[c] \ {k} /\ k \in ContKeys
        BY <2>4 DEF TypeOK
      <3> QED
        BY <1>1, <2>2, <2>4, <3>1, <3>2 DEF ContOK
    <2>5. CASE worker' = [worker EXCEPT ![c] = "conns"] /\ spoiled' = spoiled \cup {c} /\ sent' = sent
      BY <1>1, <2>2, <2>5 DEF ContOK, TypeOK
    <2> QED
      BY <2>2, <2>4, <2>5
  <1>6. CASE MetricsSent(c)
    <2>1. PeersUpTo(c, 0) = {}
      BY DEF PeersUpTo
    <2>2. PeersUpTo(c, 0)' = {}
      BY DEF PeersUpTo
    <2>3. /\ worker[c] = "metrics" /\ worker'[c] = "conns" /\ at' = at /\ left[c] = {}
          /\ UNCHANGED <<sent, spoiled, measured>>
      BY <1>6 DEF MetricsSent, WorkerGoto, histVars, TypeOK
    <2>4. SentOf(c)' = ContKeys /\ at'[c] = 1 /\ c \in measured'
      BY <1>1, <2>3, SentSame DEF ContOK
    <2> QED
      BY <1>1, <2>2, <2>3, <2>4 DEF ContOK, TypeOK
  <1>7. CASE SendConn(c)
    <2>1. PICK k \in Nat : k = at[c] /\ k >= 1 /\ k <= Len(conns)
      BY <1>1, <1>7 DEF SendConn, ContOK, TypeOK
    <2>2. worker[c] = "conns" /\ measured' = measured /\ c \in measured
      BY <1>1, <1>7 DEF SendConn, ContOK
    <2>3. CASE /\ sent' = sent \cup {<<c, peer>> : peer \in Peers(c, conns[k])}
               /\ at' = [at EXCEPT ![c] = @ + 1] /\ UNCHANGED <<worker, spoiled>>
      <3>1. SentOf(c)' = SentOf(c) \cup Peers(c, conns[k])
        BY <2>3, SentMore
      <3>2. at'[c] = k + 1 /\ at'[c] \in 1 .. Len(conns) + 1 /\ at'[c] - 1 = k
        BY <2>1, <2>3 DEF TypeOK
      <3>3. PeersUpTo(c, k)' = PeersUpTo(c, k - 1) \cup Peers(c, conns[k])
        BY <1>1, <2>1, PeersNext DEF PeersUpTo
      <3>4. c \notin spoiled => SentOf(c)' = ContKeys \cup PeersUpTo(c, k)'
        BY <1>1, <2>1, <2>2, <3>1, <3>3 DEF ContOK
      <3> QED
        BY <1>1, <2>2, <2>3, <3>2, <3>4 DEF ContOK
    <2>4. CASE worker' = [worker EXCEPT ![c] = "end"] /\ spoiled' = spoiled \cup {c}
      BY <1>1, <2>2, <2>4 DEF ContOK, TypeOK
    <2> QED
      BY <1>7, <2>1, <2>3, <2>4 DEF SendConn
  <1>8. CASE ConnsSent(c)
    <2>1. /\ worker[c] = "conns" /\ worker'[c] = "end" /\ at[c] > Len(conns)
          /\ UNCHANGED <<sent, spoiled, measured>>
      BY <1>8 DEF ConnsSent, WorkerGoto, histVars, TypeOK
    <2>2. at[c] - 1 = Len(conns)
      BY <1>1, <2>1 DEF ContOK, TypeOK
    <2>3. PeersUpTo(c, Len(conns))' = PeersUpTo(c, Len(conns))
      BY <1>1 DEF PeersUpTo
    <2> QED
      BY <1>1, <2>1, <2>2, <2>3, SentSame DEF ContOK
  <1>9. CASE WorkerDone(c)
    <2>1. /\ worker[c] = "end" /\ worker'[c] = "none" /\ at'[c] = 1
          /\ UNCHANGED <<sent, spoiled, measured>>
      BY <1>9 DEF WorkerDone, WorkerGoto, histVars, TypeOK
    <2>2. PeersUpTo(c, Len(conns))' = PeersUpTo(c, Len(conns))
      BY <1>1 DEF PeersUpTo
    <2> QED
      BY <1>1, <2>1, <2>2, SentSame DEF ContOK
  <1> QED
    BY <1>2, <1>3, <1>4, <1>5, <1>6, <1>7, <1>8, <1>9 DEF Work

\* The runner forks, and goes on: only a new list forgets what was sent, and
\* the host's metrics are not a container's.
LEMMA ForkCont == ASSUME MetricsInv, NEW c \in Cont, Fork(c) PROVE ContInv'
  <1> USE DEF MetricsInv
  <1>1. /\ worker' = [worker EXCEPT ![c] = "inspect"] /\ pc' = "fork" /\ c \in listed
        /\ listed' = listed \ {c} /\ UNCHANGED <<conns, left, at, sent, spoiled, measured>>
    BY DEF Fork, histVars
  <1>2. ContOK(c)'
    BY <1>1, SentSame DEF ContInv, ContOK, RoundInv, TypeOK
  <1>3. ASSUME NEW d \in Cont, d # c PROVE ContOK(d)'
    BY <1>1, <1>3, SentSame, ContSame DEF ContInv, TypeOK
  <1> QED
    BY <1>1, <1>2, <1>3 DEF ContInv

LEMMA RunnerCont == ASSUME MetricsInv, RunnerSteps PROVE ContInv'
  <1> USE DEF MetricsInv
  <1>1. UNCHANGED <<worker, at, left>>
    BY RunnerFrame DEF workVars
  <1>2. CASE List
    <2>1. /\ sent' = {} /\ measured' = {} /\ \A c \in Cont : worker[c] = "none"
      BY <1>2 DEF List, Goto, RoundInv, RoundsApart
    <2>2. \A c \in Cont : SentOf(c)' = {}
      BY <2>1 DEF SentOf
    <2> QED
      BY <1>1, <2>1, <2>2 DEF ContInv, ContOK
  <1>3. CASE Track
    <2>1. /\ UNCHANGED <<sent, measured, spoiled, listed>> /\ measured = {} /\ pc' = "fork"
          /\ \A c \in Cont : worker[c] = "none"
      BY <1>3 DEF Track, Goto, RoundInv, RoundsApart, ContInv, histVars
    <2> QED
      BY <1>1, <2>1, SentSame DEF ContInv, ContOK
  <1>4. CASE ~List /\ ~Track
    <2>1. /\ conns' = conns /\ measured' = measured /\ listed' \subseteq listed
          /\ pc' = "track" => pc = "track"
          /\ \A c \in Cont : c \in spoiled' <=> c \in spoiled
      BY <1>4, MetricsAssumption
      DEF RunnerSteps, Forked, Joined, SkipStopped, Collect, CollectNoInterface, HostError,
          HostInfo, SendHost, HostSent, Interval, Exit, Stop, vars, Goto, NextCollector, roundVars, histVars
    <2>2. sent' = sent \/ \E y : sent' = sent \cup {<<"host", y>>}
      BY <1>4, Zenon
      DEF RunnerSteps, Forked, Joined, SkipStopped, Collect, CollectNoInterface, HostError,
          HostInfo, SendHost, HostSent, Interval, Exit, Stop, vars, histVars
    <2>3. \A y : {<<"host", y>>} = {<<"host", z>> : z \in {y}}
      OBVIOUS
    <2>4. \A c \in Cont : c # "host"
      BY MetricsAssumption
    <2>5. \A c \in Cont : SentOf(c)' = SentOf(c)
      BY <2>2, <2>3, <2>4, SentMore, SentSame, Zenon
    <2> QED
      BY <1>1, <2>1, <2>5, ContSame DEF ContInv
  <1> QED
    BY <1>2, <1>3, <1>4

\* The host's part of a round does not mind the containers' ...
LEMMA HostSame ==
  ASSUME HostInv, UNCHANGED <<pc, hasHost, step, metrics>>, SentOf("host")' = SentOf("host"),
         "clock" \in spoiled' <=> "clock" \in spoiled, "host" \in spoiled' <=> "host" \in spoiled
  PROVE  HostInv'
  BY DEF HostInv, Collected, HostRoundComplete

LEMMA ContainersHost ==
  ASSUME MetricsInv, NEW c \in Cont, Fork(c) \/ Work(c)
  PROVE  HostInv'
  <1>1. UNCHANGED <<pc, hasHost, step, metrics>>
    BY WorkFrame DEF Fork, hostVars
  <1>2. c # "host" /\ c # "clock"
    BY MetricsAssumption
  <1>3. /\ spoiled' \in {spoiled, spoiled \cup {c}}
        /\ sent' = sent \/ \E Y : sent' = sent \cup {<<c, y>> : y \in Y}
    BY WorkMoves, Zenon DEF Fork, Moves, WorkerDone, histVars, MetricsInv
  <1>4. SentOf("host")' = SentOf("host")
    BY <1>2, <1>3, SentMore, SentSame
  <1> QED
    BY <1>1, <1>2, <1>3, <1>4, HostSame DEF MetricsInv

\* ... which come first ...
LEMMA BeforeHost ==
  ASSUME MetricsInv, List \/ Track \/ Forked \/ Joined \/ (\E c \in Cont : SkipStopped(c))
  PROVE  HostInv'
  <1> USE DEF MetricsInv
  <1>1. CASE List
    <2>1. pc = "list" /\ pc' = "track" /\ UNCHANGED <<step, metrics>> /\ sent' = {} /\ spoiled' = {}
      BY <1>1 DEF List, Goto, hostVars
    <2>2. SentOf("host")' = {}
      BY <2>1 DEF SentOf
    <2> QED
      BY <2>1, <2>2 DEF HostInv, HostRoundComplete
  <1>2. CASE ~List
    <2>1. /\ pc \in {"track", "fork", "wait"} /\ UNCHANGED <<step, metrics, sent, spoiled, hasHost>>
          /\ pc' \in {"fork", "wait"} \/ (pc' = "select" /\ ~hasHost) \/ pc' = "collect"
      BY <1>2 DEF Track, Forked, Joined, SkipStopped, Goto, hostVars, histVars, TypeOK
    <2>2. step = 1 /\ metrics = <<>> /\ "clock" \notin spoiled /\ SentOf("host")' = {}
      BY <2>1, SentSame DEF HostInv
    <2>3. Collected(0)' /\ step' = 1 /\ metrics' = <<>> /\ "clock" \notin spoiled'
      BY <2>1, <2>2 DEF Collected
    <2>4. CASE pc' = "collect"
      BY <2>2, <2>3, <2>4 DEF HostInv, HostRoundComplete
    <2>5. CASE pc' # "collect"
      BY <2>1, <2>2, <2>3, <2>5 DEF HostInv, HostRoundComplete
    <2> QED
      BY <2>4, <2>5
  <1> QED
    BY <1>1, <1>2

\* ... in order: its collectors, each of them with what it yields, ...
LEMMA CollectHost == ASSUME MetricsInv, Collect PROVE HostInv'
  <1> USE DEF MetricsInv
  <1>1. PICK k \in 1 .. 7 : k = step
    BY CollectTypes DEF Collect
  <1> DEFINE v == HostValue(Collectors[k])
  <1>2. /\ pc = "collect" /\ metrics' = Append(metrics, <<Collectors[k], v>>)
        /\ spoiled' = spoiled \cup {x \in {"clock"} : ~Marshals(v)} /\ sent' = sent
        /\ \/ k = 7 /\ pc' = "hostname" /\ step' = 1
           \/ k \in 1 .. 6 /\ pc' = "collect" /\ step' = k + 1
    BY <1>1, CollectTypes DEF Collect
  <1>3. k # 6 => Marshals(v)
    BY CollectorFacts DEF HostValue, Marshals
  <1> HIDE DEF v
  <1>4. Collected(k - 1) /\ SentOf("host") = {} /\ (k <= 6 => "clock" \notin spoiled)
    BY <1>1, <1>2 DEF HostInv
  <1>5. k = 6 => (Marshals(v) <=> "clock" \notin spoiled')
    BY <1>2, <1>4
  <1>6. k # 6 => ("clock" \in spoiled' <=> "clock" \in spoiled)
    BY <1>2, <1>3
  <1>7. /\ Len(metrics') = k /\ metrics'[k] = <<Collectors[k], v>>
        /\ \A j \in 1 .. k - 1 : metrics'[j] = metrics[j]
    BY <1>2, <1>4 DEF Collected, TypeOK
  <1>8. /\ metrics'[k][1] = Collectors[k]
        /\ Marshals(metrics'[k][2]) <=> ~(k = 6 /\ "clock" \in spoiled')
    BY <1>3, <1>5, <1>7
  <1>9. \A j \in 1 .. k - 1 :
          /\ metrics'[j][1] = Collectors[j]
          /\ Marshals(metrics'[j][2]) <=> ~(j = 6 /\ "clock" \in spoiled')
    BY <1>4, <1>6, <1>7 DEF Collected
  <1>10. Collected(k)'
    <2>1. \A j \in 1 .. k : j = k \/ j \in 1 .. k - 1
      OBVIOUS
    <2> QED
      BY <1>7, <1>8, <1>9, <2>1 DEF Collected, Marshals
  <1>11. SentOf("host")' = {}
    BY <1>2, <1>4, SentSame
  <1>12. CASE k = 7
    BY <1>2, <1>7, <1>10, <1>11, <1>12 DEF HostInv, HostRoundComplete
  <1>13. CASE k # 7
    <2>1. step' - 1 = k /\ step' \in 1 .. 7 /\ (step' <= 6 => "clock" \notin spoiled')
      BY <1>2, <1>4, <1>6, <1>13
    <2> QED
      BY <1>2, <1>10, <1>11, <1>13, <2>1, Zenon DEF HostInv, HostRoundComplete
  <1> QED
    BY <1>12, <1>13

LEMMA NoInterfaceHost == ASSUME MetricsInv, CollectNoInterface PROVE HostInv'
  <1> USE DEF MetricsInv
  <1>1. pc = "collect" /\ step = 7 /\ pc' = "hostname" /\ step' = 1
    <2>1. step = 7
      BY CollectTypes, CollectorFacts DEF CollectNoInterface
    <2> QED
      BY <2>1, CollectTypes DEF CollectNoInterface
  <1>2. UNCHANGED <<metrics, sent, spoiled>>
    BY DEF CollectNoInterface, histVars
  <1>3. Collected(6) /\ SentOf("host") = {}
    BY <1>1 DEF HostInv
  <1>4. Collected(6)' /\ SentOf("host")' = {} /\ Len(metrics') = 6
    BY <1>2, <1>3, SentSame DEF Collected
  <1> QED
    BY <1>1, <1>4 DEF HostInv, HostRoundComplete

LEMMA HostErrorHost == ASSUME MetricsInv, HostError PROVE HostInv'
  BY DEF HostError, HostInv, HostRoundComplete

\* ... its name and addresses, ...
LEMMA HostInfoHost == ASSUME MetricsInv, HostInfo PROVE HostInv'
  <1> USE DEF MetricsInv
  <1>1. /\ pc \in {"hostname", "addrs"} /\ pc' \in {"addrs", "send"}
        /\ UNCHANGED <<step, metrics, sent, spoiled>>
    BY DEF HostInfo, hostVars, histVars
  <1>2. step' = 1 /\ Len(metrics) \in {6, 7} /\ Collected(Len(metrics)) /\ SentOf("host") = {}
    BY <1>1 DEF HostInv
  <1>3. Len(metrics') \in {6, 7} /\ Collected(Len(metrics))' /\ SentOf("host")' = {}
    BY <1>1, <1>2, SentSame DEF Collected
  <1>4. {Collectors[j] : j \in 1 .. step' - 1} = {}
    BY <1>2
  <1> QED
    BY <1>1, <1>2, <1>3, <1>4 DEF HostInv, HostRoundComplete

\* ... and its metrics, up to the first that cannot be marshalled.
LEMMA SendHostHost == ASSUME MetricsInv, SendHost PROVE HostInv'
  <1> USE DEF MetricsInv
  <1>1. PICK k \in 1 .. 7 : /\ k = step /\ k <= Len(metrics) /\ Len(metrics) \in {6, 7}
                            /\ Collected(Len(metrics)) /\ pc = "send"
                            /\ ("clock" \in spoiled => k <= 6)
                            /\ SentOf("host") = {Collectors[j] : j \in 1 .. k - 1}
    <2>1. /\ pc = "send" /\ step <= Len(metrics) /\ Len(metrics) \in {6, 7} /\ Collected(Len(metrics))
          /\ step \in 1 .. Len(metrics) + 1 /\ ("clock" \in spoiled => step <= 6)
          /\ SentOf("host") = {Collectors[j] : j \in 1 .. step - 1}
      BY DEF SendHost, HostInv
    <2>2. step \in 1 .. 7
      <3>1. step \in 1 .. 8
        BY CollectorFacts DEF TypeOK
      <3>2. step <= Len(metrics) /\ Len(metrics) \in {6, 7}
        BY <2>1
      <3>3. \A k \in 1 .. 8 : \A m \in {6, 7} : k <= m => k \in 1 .. 7
        OBVIOUS
      <3> QED
        BY <3>1, <3>2, <3>3, Zenon
    <2> QED
      BY <2>1, <2>2
  <1>2. /\ metrics[k][1] = Collectors[k]
        /\ Marshals(metrics[k][2]) <=> ~(k = 6 /\ "clock" \in spoiled)
    BY <1>1 DEF Collected
  <1>3. \/ /\ Marshals(metrics[k][2]) /\ sent' = sent \cup {<<"host", Collectors[k]>>}
           /\ step' = k + 1 /\ UNCHANGED <<pc, spoiled, metrics, hasHost>>
        \/ /\ pc' = "select" /\ step' = 1 /\ metrics' = <<>> /\ sent' = sent
           /\ spoiled' = spoiled \cup {x \in {"host"} : Marshals(metrics[k][2])}
    BY <1>1, <1>2 DEF SendHost, Sends
  <1>4. CASE /\ Marshals(metrics[k][2]) /\ sent' = sent \cup {<<"host", Collectors[k]>>}
             /\ step' = k + 1 /\ UNCHANGED <<pc, spoiled, metrics, hasHost>>
    <2>1. {<<"host", Collectors[k]>>} = {<<"host", y>> : y \in {Collectors[k]}}
      OBVIOUS
    <2>2. SentOf("host")' = SentOf("host") \cup {Collectors[k]}
      BY <1>4, <2>1, SentMore, Zenon
    <2>3. 1 .. step' - 1 = (1 .. k - 1) \cup {k}
      BY <1>4
    <2>4. SentOf("host")' = {Collectors[j] : j \in 1 .. step' - 1}
      BY <1>1, <2>2, <2>3
    <2>5. Collected(Len(metrics))'
      BY <1>1, <1>4 DEF Collected
    <2>6. step' \in 1 .. Len(metrics) + 1 /\ ("clock" \in spoiled => step' <= 6)
      BY <1>1, <1>2, <1>4
    <2> QED
      BY <1>1, <1>4, <2>4, <2>5, <2>6 DEF HostInv, HostRoundComplete
  <1>5. CASE /\ pc' = "select" /\ step' = 1 /\ metrics' = <<>> /\ sent' = sent
             /\ spoiled' = spoiled \cup {x \in {"host"} : Marshals(metrics[k][2])}
    <2>1. "host" \notin spoiled' => k = 6 /\ "clock" \in spoiled'
      BY <1>2, <1>5
    <2>2. k = 6 => SentOf("host")' = {"load", "mem", "swap", "disk", "uptime"}
      BY <1>1, <1>5, SentSame, CollectorFacts
    <2>3. HostRoundComplete'
      BY <2>1, <2>2 DEF HostRoundComplete
    <2> QED
      BY <1>5, <2>3 DEF HostInv
  <1> QED
    BY <1>3, <1>4, <1>5

LEMMA HostSentHost == ASSUME MetricsInv, HostSent PROVE HostInv'
  <1> USE DEF MetricsInv
  <1>1. /\ pc = "send" /\ pc' = "select" /\ step > Len(metrics) /\ step' = 1 /\ metrics' = <<>>
        /\ UNCHANGED <<sent, spoiled, hasHost>>
    BY DEF HostSent, Goto, histVars
  <1>2. /\ step - 1 = Len(metrics) /\ Len(metrics) \in {6, 7} /\ ("clock" \in spoiled => step <= 6)
        /\ SentOf("host") = {Collectors[j] : j \in 1 .. step - 1}
    BY <1>1 DEF HostInv
  <1>3. "clock" \notin spoiled
    <2>1. step \in 1 .. 8
      BY CollectorFacts DEF TypeOK
    <2> QED
      BY <1>2, <2>1
  <1>4. {Collectors[j] : j \in 1 .. 6} \subseteq SentOf("host")
    BY <1>2
  <1>5. HostRoundComplete'
    BY <1>1, <1>3, <1>4, SentSame, CollectorFacts DEF HostRoundComplete
  <1> QED
    BY <1>1, <1>5 DEF HostInv

\* The runner waits for the next round.
LEMMA SelectHost == ASSUME MetricsInv, Interval \/ Exit \/ Stop \/ UNCHANGED vars PROVE HostInv'
  <1> USE DEF MetricsInv
  <1>1. /\ UNCHANGED <<step, metrics, sent, spoiled, hasHost>>
        /\ pc' = pc \/ (pc = "select" /\ pc' \in {"list", "done"})
    BY DEF Interval, Exit, Stop, Goto, vars, hostVars, histVars
  <1>2. CASE pc' = pc
    BY <1>1, <1>2, HostSame, SentSame
  <1>3. CASE pc = "select" /\ pc' \in {"list", "done"}
    BY <1>1, <1>3 DEF HostInv, HostRoundComplete
  <1> QED
    BY <1>1, <1>2, <1>3

LEMMA MetricsNext == MetricsInv /\ [Next]_vars => MetricsInv'
  <1> SUFFICES ASSUME MetricsInv, [Next]_vars PROVE MetricsInv'
    OBVIOUS
  <1>1. CASE RunnerSteps
    <2>1. HostInv'
      BY <1>1, BeforeHost, CollectHost, NoInterfaceHost, HostErrorHost, HostInfoHost, SendHostHost,
         HostSentHost, SelectHost DEF RunnerSteps
    <2> QED
      BY <1>1, <2>1, RunnerTypes, RunnerRound, RunnerCont DEF MetricsInv
  <1>2. ASSUME NEW c \in Cont, Fork(c) PROVE MetricsInv'
    BY <1>2, ForkRound, ForkCont, ContainersHost DEF MetricsInv
  <1>3. ASSUME NEW c \in Cont, Work(c) PROVE MetricsInv'
    <2>1. ContInv'
      <3>1. \A d \in Cont : ContOK(d)'
        BY <1>3, WorkSelf, WorkOthers
      <3>2. pc' # "track"
        BY <1>3, WorkPlace, WorkFrame
      <3> QED
        BY <3>1, <3>2 DEF ContInv
    <2> QED
      BY <1>3, <2>1, WorkTypes, WorkRound, ContainersHost DEF MetricsInv
  <1> QED
    BY <1>1, <1>2, <1>3, Steps

\* What was sent, by where the runner and each goroutine of a round are
\* (reporter.go:23-148).
THEOREM MetricsInvariant == Spec => []MetricsInv
  BY MetricsInit, MetricsNext, PTL DEF Spec

\* Rounds do not overlap: whenever the runner is past its wait, no goroutine
\* of getMetrics is left, however many there were (reporter.go:45-79).
THEOREM RoundsStayApart == Spec => []RoundsApart
  <1>1. MetricsInv => RoundsApart
    BY DEF MetricsInv, RoundInv
  <1> QED
    BY <1>1, MetricsInvariant, PTL

\* A container whose own calls succeeded sent all its metrics and its end of
\* every connection, whatever happened to the others
\* (reporter.go:50-111, container.go:9-54).
THEOREM ContainersStayApart == Spec => []ContainersApart
  <1>1. MetricsInv => ContainersApart
    <2> SUFFICES ASSUME MetricsInv, pc \in {"collect", "select"}, NEW c \in measured \ spoiled
                 PROVE  SentOf(c) = ContKeys \cup UNION {Peers(c, f) : f \in Range(conns)}
      BY DEF ContainersApart
    <2>1. c \in Cont /\ worker[c] = "none"
      BY DEF MetricsInv, TypeOK, RoundInv, RoundsApart
    <2>2. SentOf(c) = ContKeys \cup PeersUpTo(c, Len(conns))
      BY <2>1 DEF MetricsInv, ContInv, ContOK
    <2>3. DOMAIN conns = 1 .. Len(conns)
      BY DEF MetricsInv, TypeOK
    <2> QED
      BY <2>2, <2>3 DEF PeersUpTo, Range
  <1> QED
    BY <1>1, MetricsInvariant, PTL

\* A round whose own calls succeeded sent all the host's metrics, but those of
\* an interface that does not exist and, if the cpu time stood still, those
\* from the cpu's on (reporter.go:113-148, host.go:45-68, 142-152, float.go:14-20).
THEOREM HostRoundsComplete == Spec => []HostRoundComplete
  <1>1. MetricsInv => HostRoundComplete
    BY DEF MetricsInv, HostInv
  <1> QED
    BY <1>1, MetricsInvariant, PTL
=============================================================================
