---------------------------- MODULE MonitorProofs ----------------------------
(***************************************************************************)
(* Proofs about the kubernetes log streamer, for any finite set of files   *)
(* and any number of events, and about the monitor of one of its files,    *)
(* for any number of lines, timestamps and restarts, with and without      *)
(* faults.                                                                 *)
(***************************************************************************)
EXTENDS KubeStreamer, FileMonitor, FiniteSetTheorems, TLAPS
-----------------------------------------------------------------------------
\* The map and the monitors agree, and a tail that runs is the map's.
MapInv ==
  /\ \A f \in File : monitors[f] # None => monitors[f] <= made /\ owner[monitors[f]] = f
  /\ \A m \in Monitor : tail[m] = "running" => m <= made /\ monitors[owner[m]] = m

\* The write lock: it is held from the moment `finished' is set until the
\* process is dead, by the goroutine that set it.
LockInv ==
  /\ \A m \in finished : m <= made /\ (mu[m] = "free" => tail[m] # "running")
  /\ \A m \in Monitor : (rpc[m] = "wait" <=> mu[m] = "run") /\ (rpc[m] # "none" => m <= made)

\* The end of watch: what is left of the map is what is left to stop, one
\* monitor at a time.
QuitInv ==
  /\ wpc = "kill" => todo = Mapped
  /\ wpc \in {"lock", "wait"} => \E f \in Mapped : todo = {f}
  /\ wpc = "wait" => \A f \in todo : mu[monitors[f]] = "watch"
  /\ wpc = "done" => Mapped = {}

Inv == TypeOK /\ MapInv /\ LockInv /\ QuitInv

LEMMA MaxMonitorsNat == MaxMonitors \in Nat
  BY KubeStreamerAssumption, FS_CardinalityType DEF MaxMonitors

LEMMA InvInit == Init => Inv
  <1> SUFFICES ASSUME Init PROVE Inv
    OBVIOUS
  <1>1. TypeOK
    BY MaxMonitorsNat, KubeStreamerAssumption DEF Init, TypeOK, Monitor, None
  <1> QED
    BY <1>1 DEF Init, Inv, MapInv, LockInv, QuitInv, Mapped

\* Killing processes, and what the map forgets with them.
LEMMA SweepStep == Inv /\ Sweep => Inv'
  <1> SUFFICES ASSUME Inv, Sweep PROVE Inv'
    OBVIOUS
  <1> USE DEF Inv
  <1> DEFINE gone == Mapped \ present
  <1>1. /\ \A m \in Monitor : tail'[m] = IF m \in {monitors[f] : f \in gone} /\ tail[m] = "running"
                                         THEN "dead" ELSE tail[m]
        /\ tail' \in [Monitor -> {"none", "running", "dead"}]
    BY DEF Sweep, Kill, TypeOK
  <1>2. /\ \A f \in File : monitors'[f] = IF f \in gone THEN None ELSE monitors[f]
        /\ monitors' \in [File -> Monitor \cup {None}]
    BY DEF Sweep, TypeOK
  <1>3. /\ UNCHANGED <<present, owner, made, rpc, streamDone, posDone, finished, mu, todo, stopping, events>>
        /\ wpc' = "list"
    BY DEF Sweep
  <1>4. TypeOK'
    BY <1>1, <1>2, <1>3 DEF TypeOK
  <1>5. MapInv'
    <2>1. ASSUME NEW m \in Monitor, tail'[m] = "running"
          PROVE  m <= made' /\ monitors'[owner'[m]] = m
      <3>1. tail[m] = "running" /\ m \notin {monitors[f] : f \in gone}
        BY <1>1, <2>1
      <3>2. m <= made /\ owner[m] \in File /\ monitors[owner[m]] = m
        BY <3>1 DEF MapInv, TypeOK, Monitor
      <3> QED
        BY <1>2, <1>3, <3>1, <3>2
    <2> QED
      BY <1>2, <1>3, <2>1 DEF MapInv
  <1>6. LockInv'
    BY <1>1, <1>3 DEF LockInv, TypeOK
  <1>7. QuitInv'
    BY <1>3 DEF QuitInv
  <1> QED
    BY <1>4, <1>5, <1>6, <1>7

\* A monitor is started for a file whose last one, if any, is known to be dead.
LEMMA ScanStartStep == ASSUME Inv, NEW f \in File, ScanStart(f) PROVE Inv'
  <1> USE DEF Inv
  <1>1. /\ made' = made + 1 /\ made' \in Monitor /\ wpc' = wpc /\ wpc = "scan"
        /\ todo' = todo \ {f}
        /\ UNCHANGED <<present, streamDone, posDone, finished, mu, stopping, events>>
    BY MaxMonitorsNat DEF ScanStart, StartMonitor, TypeOK, Monitor
  <1>2. /\ owner' \in [1 .. made' -> File] /\ owner'[made'] = f
        /\ \A m \in 1 .. made : owner'[m] = owner[m]
    BY <1>1 DEF ScanStart, StartMonitor, TypeOK
  <1>3. /\ tail' \in [Monitor -> {"none", "running", "dead"}]
        /\ \A m \in Monitor \ {made'} : tail'[m] = tail[m]
    BY <1>1 DEF ScanStart, StartMonitor, TypeOK
  <1>4. /\ rpc' \in [Monitor -> {"none", "stream", "lock", "wait", "done"}]
        /\ \A m \in Monitor \ {made'} : rpc'[m] = rpc[m]
        /\ rpc'[made'] = "stream"
    BY <1>1 DEF ScanStart, StartMonitor, TypeOK
  <1>5. /\ monitors' \in [File -> Monitor \cup {None}] /\ monitors'[f] = made'
        /\ \A e \in File \ {f} : monitors'[e] = monitors[e]
    BY <1>1 DEF ScanStart, StartMonitor, TypeOK
  <1>6. TypeOK'
    BY <1>1, <1>2, <1>3, <1>4, <1>5, MaxMonitorsNat DEF TypeOK, Monitor
  <1>7. MapInv'
    <2>1. ASSUME NEW e \in File, monitors'[e] # None
          PROVE  monitors'[e] <= made' /\ owner'[monitors'[e]] = e
      <3>1. CASE e = f
        BY <1>1, <1>2, <1>5, <3>1 DEF Monitor, TypeOK
      <3>2. CASE e # f
        <4>1. monitors[e] # None /\ monitors[e] \in 1 .. made /\ owner[monitors[e]] = e
          BY <1>5, <2>1, <3>2 DEF MapInv, TypeOK, Monitor
        <4> QED
          BY <1>1, <1>2, <1>5, <3>2, <4>1 DEF TypeOK
      <3> QED
        BY <3>1, <3>2
    <2>2. ASSUME NEW m \in Monitor, tail'[m] = "running"
          PROVE  m <= made' /\ monitors'[owner'[m]] = m
      <3>1. CASE m = made'
        BY <1>1, <1>2, <1>5, <3>1 DEF Monitor
      <3>2. CASE m # made'
        <4>1. tail[m] = "running" /\ m \in 1 .. made /\ owner[m] \in File /\ monitors[owner[m]] = m
          BY <1>3, <2>2, <3>2 DEF MapInv, TypeOK, Monitor
        <4>2. owner[m] # f
          <5> SUFFICES ASSUME monitors[f] = m PROVE FALSE
            BY <4>1
          <5>1. m # None
            BY <4>1 DEF None
          <5>2. mu[m] = "free" /\ m \in finished
            BY <5>1 DEF ScanStart, NotAlive
          <5> QED
            BY <4>1, <5>2 DEF LockInv
        <4> QED
          BY <1>1, <1>2, <1>5, <4>1, <4>2 DEF TypeOK
      <3> QED
        BY <3>1, <3>2
    <2> QED
      BY <2>1, <2>2 DEF MapInv
  <1>8. LockInv'
    <2>1. \A m \in finished : m \in Monitor /\ m # made' /\ m <= made'
      BY <1>1 DEF LockInv, TypeOK, Monitor
    <2>2. mu[made'] # "run"
      BY <1>1 DEF LockInv, TypeOK
    <2> QED
      BY <1>1, <1>3, <1>4, <2>1, <2>2 DEF LockInv, TypeOK
  <1>9. QuitInv'
    BY <1>1 DEF QuitInv
  <1> QED
    BY <1>6, <1>7, <1>8, <1>9

\* watch waits for the monitors one after the other.
LEMMA QuitStep ==
  ASSUME Inv, Quit \/ QuitDone \/ \E f \in File : QuitKill(f) \/ QuitLock(f) \/ QuitWait(f)
  PROVE  Inv'
  <1> USE DEF Inv
  <1>1. CASE Quit \/ QuitDone
    <2>1. /\ UNCHANGED <<present, owner, made, tail, rpc, streamDone, posDone, finished, mu, monitors, events>>
          /\ stopping' \in {"no", "sending", "sent"} /\ todo' \subseteq File /\ wpc' \in {"kill", "done"}
      BY <1>1 DEF Quit, QuitDone, TypeOK, Mapped
    <2>2. TypeOK' /\ MapInv' /\ LockInv'
      BY <2>1 DEF TypeOK, MapInv, LockInv
    <2>3. QuitInv'
      BY <1>1, <2>1 DEF Quit, QuitDone, QuitInv, Mapped
    <2> QED
      BY <2>2, <2>3
  <1>2. ASSUME NEW f \in File, QuitKill(f) PROVE Inv'
    <2>1. /\ tail' \in [Monitor -> {"none", "running", "dead"}]
          /\ \A m \in Monitor : tail'[m] = "running" => tail[m] = "running"
      BY <1>2 DEF QuitKill, Kill, TypeOK
    <2>2. /\ UNCHANGED <<present, owner, made, rpc, streamDone, posDone, finished, mu, monitors, stopping, events>>
          /\ wpc' = "lock" /\ todo' = {f} /\ f \in Mapped
      BY <1>2 DEF QuitKill, QuitInv
    <2>3. TypeOK' /\ MapInv' /\ LockInv'
      BY <2>1, <2>2 DEF TypeOK, MapInv, LockInv
    <2>4. QuitInv'
      BY <2>2 DEF QuitInv, Mapped
    <2> QED
      BY <2>3, <2>4
  <1>3. ASSUME NEW f \in File, QuitLock(f) PROVE Inv'
    <2>1. /\ todo = {f} /\ f \in Mapped /\ monitors[f] \in Monitor /\ monitors[f] <= made
          /\ mu[monitors[f]] = "free"
      BY <1>3 DEF QuitLock, QuitInv, Mapped, MapInv, TypeOK
    <2>2. /\ mu' \in [Monitor -> {"free", "run", "watch"}] /\ mu'[monitors[f]] = "watch"
          /\ \A m \in Monitor \ {monitors[f]} : mu'[m] = mu[m]
          /\ finished' = finished \cup {monitors[f]}
      BY <1>3, <2>1 DEF QuitLock, TypeOK
    <2>3. /\ UNCHANGED <<present, owner, made, tail, rpc, streamDone, posDone, monitors, todo, stopping, events>>
          /\ wpc' = "wait"
      BY <1>3 DEF QuitLock
    <2>4. TypeOK' /\ MapInv'
      BY <2>1, <2>2, <2>3 DEF TypeOK, MapInv
    <2>5. LockInv'
      BY <2>1, <2>2, <2>3 DEF LockInv, TypeOK
    <2>6. QuitInv'
      BY <2>1, <2>2, <2>3 DEF QuitInv, Mapped
    <2> QED
      BY <2>4, <2>5, <2>6
  <1>4. ASSUME NEW f \in File, QuitWait(f) PROVE Inv'
    <2>1. /\ todo = {f} /\ monitors[f] \in Monitor /\ monitors[f] <= made
          /\ mu[monitors[f]] = "watch" /\ tail[monitors[f]] = "dead"
      BY <1>4 DEF QuitWait, QuitInv, Mapped, MapInv, TypeOK
    <2>2. /\ mu' \in [Monitor -> {"free", "run", "watch"}] /\ mu'[monitors[f]] = "free"
          /\ \A m \in Monitor \ {monitors[f]} : mu'[m] = mu[m]
      BY <1>4, <2>1 DEF QuitWait, TypeOK
    <2>3. /\ monitors' \in [File -> Monitor \cup {None}] /\ monitors'[f] = None
          /\ \A e \in File \ {f} : monitors'[e] = monitors[e]
      BY <1>4 DEF QuitWait, TypeOK
    <2>4. /\ UNCHANGED <<present, owner, made, tail, rpc, streamDone, posDone, finished, stopping, events>>
          /\ wpc' = "kill" /\ todo' = Mapped \ {f}
      BY <1>4 DEF QuitWait
    <2>5. TypeOK'
      BY <2>2, <2>3, <2>4 DEF TypeOK, Mapped
    <2>6. MapInv'
      <3>1. \A m \in Monitor : tail[m] = "running" => owner[m] \in File \ {f}
        BY <2>1 DEF MapInv, TypeOK, Monitor
      <3> QED
        BY <2>3, <2>4, <3>1 DEF MapInv
    <2>7. LockInv'
      BY <2>1, <2>2, <2>4 DEF LockInv, TypeOK
    <2>8. Mapped' = Mapped \ {f}
      BY <2>3 DEF Mapped
    <2>9. QuitInv'
      BY <2>4, <2>8 DEF QuitInv
    <2> QED
      BY <2>5, <2>6, <2>7, <2>9
  <1> QED
    BY <1>1, <1>2, <1>3, <1>4

\* A monitor's own goroutines, and the death of its process.
LEMMA MonitorStep ==
  ASSUME Inv, NEW m \in Monitor, StreamEnd(m) \/ AfterStream(m) \/ TailDies(m)
  PROVE  Inv'
  <1> USE DEF Inv
  <1>0. UNCHANGED <<present, owner, made, monitors, wpc, todo, stopping>>
    BY DEF StreamEnd, AfterStream, PosExit, RunLock, RunReap, TailDies
  <1>1. TypeOK'
    BY <1>0, KubeStreamerAssumption DEF StreamEnd, AfterStream, PosExit, RunLock, RunReap, TailDies, TypeOK
  <1>2. \A n \in Monitor : tail'[n] = "running" => tail[n] = "running"
    BY DEF StreamEnd, AfterStream, PosExit, RunLock, RunReap, TailDies, TypeOK
  <1>3. MapInv'
    BY <1>0, <1>2 DEF MapInv
  <1>4. LockInv'
    <2>1. CASE StreamEnd(m)
      BY <1>0, <2>1 DEF StreamEnd, LockInv, TypeOK
    <2>2. CASE PosExit(m)
      BY <1>0, <2>2 DEF PosExit, LockInv, TypeOK
    <2>3. CASE RunLock(m)
      BY <1>0, <2>3 DEF RunLock, LockInv, TypeOK
    <2>4. CASE RunReap(m)
      BY <1>0, <2>4 DEF RunReap, LockInv, TypeOK
    <2>5. CASE TailDies(m)
      BY <1>0, <2>5 DEF TailDies, LockInv, TypeOK
    <2> QED
      BY <2>1, <2>2, <2>3, <2>4, <2>5 DEF AfterStream
  <1>5. QuitInv'
    <2>1. \A n \in Monitor : mu[n] = "watch" => mu'[n] = "watch"
      BY DEF StreamEnd, AfterStream, PosExit, RunLock, RunReap, TailDies, TypeOK, LockInv
    <2>2. \A f \in Mapped : monitors[f] \in Monitor
      BY DEF Mapped, TypeOK
    <2> QED
      BY <1>0, <2>1, <2>2 DEF QuitInv, Mapped
  <1> QED
    BY <1>1, <1>3, <1>4, <1>5

LEMMA InvNext == Inv /\ [Next]_vars => Inv'
  <1> SUFFICES ASSUME Inv, [Next]_vars PROVE Inv'
    OBVIOUS
  <1>1. ASSUME UNCHANGED <<owner, made, tail, rpc, finished, mu, monitors>>,
               TypeOK', wpc' = wpc /\ wpc # "scan" => todo' = todo,
               wpc' # wpc => wpc' \in {"scan", "select", "sweep"}
        PROVE  Inv'
    BY <1>1 DEF Inv, MapInv, LockInv, QuitInv, Mapped
  <1>2. CASE Glob \/ ScanDone \/ Tick \/ Stop \/ \E f \in File : ScanSkip(f) \/ ScanKeep(f)
    <2>1. TypeOK'
      BY <1>2 DEF Inv, TypeOK, Glob, ScanDone, Tick, Stop, ScanSkip, ScanKeep
    <2> QED
      BY <1>1, <1>2, <2>1 DEF Glob, ScanDone, Tick, Stop, ScanSkip, ScanKeep
  <1>3. CASE \E f \in File : Appear(f) \/ Vanish(f)
    <2>1. TypeOK'
      BY <1>3, KubeStreamerAssumption DEF Inv, TypeOK, Appear, Vanish
    <2> QED
      BY <1>1, <1>3, <2>1 DEF Appear, Vanish
  <1>4. CASE UNCHANGED vars
    <2>1. TypeOK'
      BY <1>4 DEF Inv, TypeOK, vars
    <2> QED
      BY <1>1, <1>4, <2>1 DEF vars
  <1> QED
    BY <1>2, <1>3, <1>4, SweepStep, ScanStartStep, QuitStep, MonitorStep DEF Next, Watch

\* A file is read by one tail at a time, however monitors die, are replaced
\* and are stopped: `finished' is set before the process is dead, but alive()
\* is held off by the lock until it is (monitor.go:155-176, 284).
THEOREM OneTail == Spec => []OneTailPerFile
  <1>1. Inv => OneTailPerFile
    <2> SUFFICES ASSUME Inv PROVE OneTailPerFile
      OBVIOUS
    <2>1. 1 .. made \subseteq Monitor
      BY MaxMonitorsNat DEF Inv, TypeOK, Monitor
    <2> QED
      BY <2>1 DEF Inv, MapInv, OneTailPerFile
  <1> QED
    BY <1>1, InvInit, InvNext, PTL DEF Spec

\* When watch has returned no tail runs: a tail that runs is in the map, and
\* the map is empty by then (monitor.go:258-264, 312-318).
THEOREM NoOrphans == Spec => []NoOrphanTail
  <1>1. Inv => NoOrphanTail
    BY DEF Inv, MapInv, QuitInv, Mapped, NoOrphanTail, TypeOK, Monitor, None
  <1> QED
    BY <1>1, InvInit, InvNext, PTL DEF Spec


-----------------------------------------------------------------------------
\* A line with this timestamp was seen.
SeenAt(t) == \E j \in Seen : file[j] = t

\* A position that may be saved and loaded again: a line has it or it is the
\* zero time, and no line up to it is missing.
Good(t) == (t = 0 \/ SeenAt(t)) /\ \A i \in Line : file[i] <= t => SeenAt(file[i])

\* The writer's clock does not run backwards.
Ordered == \A i, j \in Line : i <= j => file[i] <= file[j]

\* A stream that ended has no line in hand; what a monitor decoded was seen.
Streamed == (stream # "run" => hand = 0) /\ \A i \in 1 .. rd : SeenAt(file[i])

Positions == Good(pos) /\ Good(loaded) /\ Good(last) /\ Good(pval)

LineInv == FileTypeOK /\ Ordered /\ Streamed /\ Positions

LEMMA LineInvInit == FileInit => LineInv
  <1> SUFFICES ASSUME FileInit PROVE LineInv
    OBVIOUS
  <1>1. Len(file) = 0 /\ Line = {}
    BY DEF FileInit, Line
  <1>2. FileTypeOK
    BY <1>1, FileMonitorAssumption DEF FileInit, FileTypeOK
  <1>3. Ordered /\ Streamed /\ Positions
    BY <1>1 DEF FileInit, Ordered, Streamed, Positions, Good
  <1> QED
    BY <1>2, <1>3 DEF LineInv

\* What was seen are lines of the file.
LEMMA SeenLines == ASSUME FileTypeOK PROVE Seen \subseteq Line
  BY DEF FileTypeOK, Seen, Line

\* Elements of a sequence, and one more of them.
LEMMA SeqElements ==
  ASSUME NEW S, NEW q \in Seq(S), NEW x \in S
  PROVE  /\ Len(q) \in Nat /\ \A k \in 1 .. Len(q) : q[k] \in S
         /\ Append(q, x) \in Seq(S) /\ Len(Append(q, x)) = Len(q) + 1
         /\ Append(q, x)[Len(q) + 1] = x /\ \A k \in 1 .. Len(q) : Append(q, x)[k] = q[k]
  OBVIOUS

LEMMA Times == ASSUME FileTypeOK PROVE Len(file) \in Nat /\ \A k \in Line : file[k] \in 1 .. MaxTime
  <1> DEFINE S == 1 .. MaxTime
  <1>1. file \in Seq(S)
    BY DEF FileTypeOK
  <1> HIDE DEF S
  <1>2. Len(file) \in Nat /\ \A k \in Line : file[k] \in S
    BY <1>1 DEF Line
  <1> QED
    BY <1>2 DEF S

\* The container writes a line.
LEMMA LogStep == ASSUME LineInv, NEW t \in 1 .. MaxTime, NEW decodes \in BOOLEAN, Log(t, decodes) PROVE LineInv'
  <1> USE DEF LineInv
  <1>1. /\ UNCHANGED <<pos, runs, stream, rd, hand, loaded, last, ppc, pval, handled, dropped, covered>>
        /\ file' = Append(file, t) /\ Len(file) < MaxLines
    BY DEF Log, local
  <1>2. /\ Len(file) \in Nat /\ Len(file') = Len(file) + 1 /\ Line' = Line \cup {Len(file')}
        /\ file'[Len(file')] = t /\ \A i \in Line : file'[i] = file[i] /\ file[i] \in 1 .. MaxTime
        /\ file' \in Seq(1 .. MaxTime)
    <2> DEFINE S == 1 .. MaxTime
    <2>1. file \in Seq(S) /\ t \in S
      BY DEF FileTypeOK
    <2> HIDE DEF S
    <2>2. /\ Len(file) \in Nat /\ Len(file') = Len(file) + 1 /\ file'[Len(file) + 1] = t
          /\ \A k \in 1 .. Len(file) : file'[k] = file[k] /\ file[k] \in S
          /\ file' \in Seq(S)
      BY <1>1, <2>1, SeqElements
    <2> QED
      BY <2>2 DEF S, Line
  <1>3. \A i \in Line : file[i] <= t
    BY <1>2 DEF Log, Ordered, Line
  <1>4. Seen' = Seen /\ Seen \subseteq Line
    BY <1>1, SeenLines DEF Seen
  <1>5. FileTypeOK'
    <2>1. garbled' \subseteq Line'
      BY <1>2 DEF Log, FileTypeOK
    <2> QED
      BY <1>1, <1>2, <2>1, FileMonitorAssumption DEF FileTypeOK, Line
  <1>6. Ordered'
    BY <1>2, <1>3 DEF Ordered, Line
  <1>7. ASSUME NEW s, SeenAt(s) PROVE SeenAt(s)'
    BY <1>2, <1>4, <1>7 DEF SeenAt
  <1>8. Streamed'
    <2>1. \A i \in 1 .. rd : i \in Line /\ SeenAt(file[i])
      BY <1>2 DEF Streamed, FileTypeOK, Line
    <2> QED
      BY <1>1, <1>2, <1>7, <2>1, Zenon DEF Streamed
  <1>9. ASSUME NEW s \in 0 .. MaxTime, Good(s) PROVE Good(s)'
    <2>1. CASE s = 0
      BY <1>2, <2>1, FileMonitorAssumption DEF Good
    <2>2. CASE s # 0
      <3>1. PICK j \in Line : j \in Seen /\ file[j] = s
        BY <1>4, <1>9, <2>2 DEF Good, SeenAt
      <3>2. t <= s => t = s
        BY <1>2, <1>3, <3>1, FileMonitorAssumption
      <3> QED
        BY <1>2, <1>4, <1>7, <1>9, <3>1, <3>2 DEF Good, SeenAt
    <2> QED
      BY <2>1, <2>2
  <1>10. Positions'
    BY <1>1, <1>9 DEF Positions, FileTypeOK
  <1> QED
    BY <1>5, <1>6, <1>8, <1>10

\* The stream decodes a line: it is noted and in hand, or one with its time
\* was seen.
LEMMA DecodeStep == ASSUME LineInv, Decode PROVE LineInv'
  <1> USE DEF LineInv
  <1>1. /\ UNCHANGED <<file, garbled, pos, runs, stream, loaded, ppc, pval, handled, dropped, covered>>
        /\ hand = 0 /\ stream = "run" /\ rd' = rd + 1 /\ rd + 1 \in Line /\ rd \in Nat /\ Len(file) \in Nat
    BY DEF Decode, disk, FileTypeOK, Line
  <1>2. file[rd + 1] \in 1 .. MaxTime
    BY <1>1, Times
  <1>3. CASE file[rd + 1] <= loaded
    <2>1. UNCHANGED <<hand, last>>
      BY <1>3 DEF Decode
    <2>2. Seen' = Seen /\ Line' = Line
      BY <1>1, <2>1 DEF Seen, Line
    <2>3. FileTypeOK' /\ Ordered'
      BY <1>1, <2>1, <2>2 DEF FileTypeOK, Ordered, Line
    <2>4. SeenAt(file[rd + 1])
      BY <1>1, <1>3 DEF Positions, Good
    <2>5. Streamed'
      BY <1>1, <2>1, <2>2, <2>4 DEF Streamed, SeenAt
    <2>6. Positions'
      BY <1>1, <2>1, <2>2 DEF Positions, Good, SeenAt
    <2> QED
      BY <2>3, <2>5, <2>6
  <1>4. CASE ~(file[rd + 1] <= loaded)
    <2>1. hand' = rd + 1 /\ last' = file[rd + 1]
      BY <1>4 DEF Decode
    <2>2. Seen' = Seen \cup {rd + 1} /\ Line' = Line
      BY <1>1, <2>1 DEF Seen, Line
    <2>3. FileTypeOK' /\ Ordered'
      BY <1>1, <1>2, <2>1, <2>2, FileMonitorAssumption DEF FileTypeOK, Ordered, Line
    <2>4. Streamed'
      BY <1>1, <2>1, <2>2 DEF Streamed, SeenAt
    <2>5. ASSUME NEW i \in Line, file[i] <= file[rd + 1] PROVE SeenAt(file[i])'
      <3>1. CASE i <= rd
        BY <1>1, <2>2, <3>1 DEF Streamed, SeenAt, Line
      <3>2. CASE i > rd
        <4>1. file[i] = file[rd + 1]
          <5>1. file[rd + 1] <= file[i] /\ file[i] \in Nat /\ file[rd + 1] \in Nat
            BY <1>1, <3>2, Times DEF Ordered, Line
          <5> QED
            BY <2>5, <5>1
        <4> QED
          BY <1>1, <2>2, <4>1 DEF SeenAt
      <3> QED
        BY <1>1, <3>1, <3>2 DEF Line
    <2>6. Good(last)'
      BY <1>1, <2>1, <2>2, <2>5 DEF Good, SeenAt
    <2>7. Good(pos)' /\ Good(loaded)' /\ Good(pval)'
      BY <1>1, <2>2 DEF Positions, Good, SeenAt
    <2> QED
      BY <2>3, <2>4, <2>6, <2>7 DEF Positions
  <1> QED
    BY <1>3, <1>4

\* Every other step leaves the file alone, forgets nothing that was seen, and
\* moves positions between lastTime, the value being written, the position
\* file and loadedLastTime, or sets them to zero.
LEMMA OtherStep ==
  ASSUME LineInv, \/ Start \/ Handle \/ PosTick \/ PosTruncate \/ PosStore \/ PosEnds
              \/ GiveUp \/ KillTail \/ Finish \/ Crash \/ UNCHANGED fileVars
  PROVE  LineInv'
  <1> USE DEF LineInv
  <1>1. file' = file /\ Line' = Line
    BY DEF Start, Handle, PosTick, PosTruncate, PosStore, PosEnds, GiveUp, KillTail, Finish, Crash,
           fileVars, disk, Line
  <1>2. Seen' = Seen
    BY DEF Start, Handle, PosTick, PosTruncate, PosStore, PosEnds, GiveUp, KillTail, Finish, Crash,
           fileVars, local, disk, Seen, Streamed
  <1>3. FileTypeOK'
    <2> USE <1>1, FileMonitorAssumption DEF FileTypeOK, local, disk
    <2>1. CASE Start
      BY <2>1 DEF Start
    <2>2. CASE Handle
      BY <2>2 DEF Handle, Line
    <2>3. CASE PosTick
      BY <2>3 DEF PosTick
    <2>4. CASE PosTruncate
      BY <2>4 DEF PosTruncate
    <2>5. CASE PosStore
      BY <2>5 DEF PosStore
    <2>6. CASE PosEnds \/ GiveUp \/ KillTail \/ Finish \/ UNCHANGED fileVars
      BY <2>6 DEF PosEnds, GiveUp, KillTail, Finish, fileVars
    <2>7. CASE Crash
      BY <2>7 DEF Crash, Line
    <2> QED
      BY <2>1, <2>2, <2>3, <2>4, <2>5, <2>6, <2>7
  <1>4. Ordered'
    BY <1>1 DEF Ordered
  <1>5. Streamed'
    <2>1. CASE Start
      BY <1>1, <1>2, <2>1 DEF Start, local, disk, Streamed, SeenAt
    <2>2. CASE Handle
      BY <1>1, <1>2, <2>2 DEF Handle, local, disk, Streamed, SeenAt
    <2>3. CASE PosTick
      BY <1>1, <1>2, <2>3 DEF PosTick, local, disk, Streamed, SeenAt
    <2>4. CASE PosTruncate
      BY <1>1, <1>2, <2>4 DEF PosTruncate, local, disk, Streamed, SeenAt
    <2>5. CASE PosStore
      BY <1>1, <1>2, <2>5 DEF PosStore, local, disk, Streamed, SeenAt
    <2>6. CASE Crash
      BY <1>1, <1>2, <2>6 DEF Crash, local, disk, Streamed, SeenAt
    <2>7. CASE PosEnds \/ GiveUp \/ KillTail \/ Finish \/ UNCHANGED fileVars
      BY <1>1, <1>2, <2>7 DEF PosEnds, GiveUp, KillTail, Finish, fileVars, local, disk, Streamed, SeenAt
    <2> QED
      BY <2>1, <2>2, <2>3, <2>4, <2>5, <2>6, <2>7
  <1>6. \A p \in {pos', loaded', last', pval'} : p \in {0, pos, loaded, last, pval}
    BY DEF Start, Handle, PosTick, PosTruncate, PosStore, PosEnds, GiveUp, KillTail, Finish, Crash,
           fileVars, local, disk
  <1>7. Good(0)
    BY FileMonitorAssumption DEF Good, FileTypeOK, Line
  <1>8. \A p \in {pos', loaded', last', pval'} : Good(p)
    BY <1>6, <1>7 DEF Positions
  <1>9. Positions'
    BY <1>1, <1>2, <1>8 DEF Positions, Good, SeenAt
  <1> QED
    BY <1>3, <1>4, <1>5, <1>9

LEMMA LineInvNext == LineInv /\ [FileNext]_fileVars => LineInv'
  BY LogStep, DecodeStep, OtherStep DEF FileNext

\* No line is skipped silently: what the saved position makes the next monitor
\* skip was seen, or shares its timestamp with a line that was, whenever and
\* however often the process dies, and at any point of a save
\* (monitor.go:113-115, 136-145).
THEOREM CoveredSeen == FileSpec => []CoveredLinesWereSeen
  <1>1. LineInv => CoveredLinesWereSeen
    BY DEF LineInv, Positions, Good, SeenAt, CoveredLinesWereSeen
  <1> QED
    BY <1>1, LineInvInit, LineInvNext, PTL DEF FileSpec
=============================================================================
