----------------------------- MODULE HostChecks -----------------------------
(***************************************************************************)
(* checkCollection.Run of status/hostcheck.go: the checks of the host run  *)
(* one after the other, each in a goroutine that sends its result on an    *)
(* unbuffered channel.  A check that outlives the timeout keeps its        *)
(* goroutine and its channel, and later calls of Run wait for that one     *)
(* instead of starting another.  The check "create" makes a container with *)
(* a fixed name, so two runs of it at once would destroy each other's.     *)
(***************************************************************************)
EXTENDS Naturals, Sequences

CONSTANTS
  Checks,   \* names of the checks in c.checks, in order
  Filter,   \* names whose kind passes checksFilterSet
  Timeout,  \* c.timeout > 0
  MaxGor    \* bound: goroutines alive at once

Name == {Checks[i] : i \in DOMAIN Checks}
Gor == 1 .. MaxGor

ASSUME HostChecksAssumption ==
  /\ Checks \in Seq(STRING)
  /\ Filter \subseteq Name
  /\ Timeout \in BOOLEAN
  /\ MaxGor \in Nat

VARIABLES
  i,        \* Run's loop: index of the current check, 0 when Run is not running
  waiting,  \* Run is in its select
  errCh,    \* errChannels: name -> the goroutine that sends on it, 0 for nil
  gor,      \* goroutine -> the check it runs and where it is
  result,   \* name -> the last result reported for it
  box,      \* external: whose container has the fixed name; 0 for none
  healthy   \* external: docker and the disk answer, promptly and without errors

vars == <<i, waiting, errCh, gor, result, box, healthy>>

Left == MaxGor + 1   \* a container left behind by an earlier run
Free == [name |-> "", pc |-> "free"]
Outcomes == {"ok", "err"}
PCs == {"run", "base", "remove", "inspect", "create", "attach", "start",
        "wait", "cleanOk", "cleanErr"} \cup Outcomes

TypeOK ==
  /\ i \in 0 .. (Len(Checks) + 1)
  /\ errCh \in [Name -> 0 .. MaxGor]
  /\ waiting \in BOOLEAN /\ (waiting => i \in DOMAIN Checks /\ errCh[Checks[i]] # 0)
  /\ gor \in [Gor -> {Free} \cup [name : Name, pc : PCs]]
  /\ result \in [Name -> {"none", "timeout"} \cup Outcomes]
  /\ box \in 0 .. Left
  /\ healthy \in BOOLEAN

Init ==
  /\ i = 0 /\ waiting = FALSE
  /\ errCh = [n \in Name |-> 0]
  /\ gor = [g \in Gor |-> Free]
  /\ result = [n \in Name |-> "none"]
  /\ box = 0 /\ healthy = TRUE
-----------------------------------------------------------------------------
\* reportStatus calls Run, and goes on when it returns.
Call ==
  /\ i = 0 /\ i' = 1
  /\ UNCHANGED <<waiting, errCh, gor, result, box, healthy>>

Return ==
  /\ i = Len(Checks) + 1 /\ i' = 0
  /\ UNCHANGED <<waiting, errCh, gor, result, box, healthy>>

At(n) == i \in 1 .. Len(Checks) /\ n = Checks[i]

\* The kind of the check is not in the filter.
Skip(n) ==
  /\ At(n) /\ n \notin Filter
  /\ i' = i + 1
  /\ UNCHANGED <<waiting, errCh, gor, result, box, healthy>>

\* Mutant of Launch: a check that still runs is waited for before the select.
LaunchWaits(n) ==
  /\ At(n) /\ n \in Filter /\ ~waiting /\ waiting' = TRUE
  /\ errCh[n] = 0
  /\ \E g \in Gor :
       /\ gor[g] = Free
       /\ errCh' = [errCh EXCEPT ![n] = g]
       /\ gor' = [gor EXCEPT ![g] = [name |-> n, pc |-> IF n = "create" THEN "base" ELSE "run"]]
  /\ UNCHANGED <<i, result, box, healthy>>

\* A goroutine is started unless the name has a channel already.
Launch(n) ==
  /\ At(n) /\ n \in Filter /\ ~waiting /\ waiting' = TRUE
  /\ \/ errCh[n] # 0 /\ UNCHANGED <<errCh, gor>>
     \/ /\ errCh[n] = 0
        /\ \E g \in Gor :
             /\ gor[g] = Free
             /\ \A h \in 1 .. (g - 1) : gor[h] # Free
             /\ errCh' = [errCh EXCEPT ![n] = g]
             /\ gor' = [gor EXCEPT ![g] = [name |-> n, pc |-> IF n = "create" THEN "base" ELSE "run"]]
  /\ UNCHANGED <<i, result, box, healthy>>

\* The select receives the result: the goroutine ends with its send.
Receive(n) ==
  /\ At(n) /\ waiting /\ errCh[n] # 0
  /\ gor[errCh[n]].pc \in Outcomes
  /\ result' = [result EXCEPT ![n] = gor[errCh[n]].pc]
  /\ gor' = [gor EXCEPT ![errCh[n]] = Free]
  /\ errCh' = [errCh EXCEPT ![n] = 0]
  /\ waiting' = FALSE /\ i' = i + 1
  /\ UNCHANGED <<box, healthy>>

\* Mutant of Expire: the channel is dropped.
ExpireDrops(n) ==
  /\ At(n) /\ waiting /\ Timeout
  /\ result' = [result EXCEPT ![n] = "timeout"]
  /\ errCh' = [errCh EXCEPT ![n] = 0]
  /\ waiting' = FALSE /\ i' = i + 1
  /\ UNCHANGED <<gor, box, healthy>>

\* The select times out: the channel, and its goroutine, are kept.
Expire(n) ==
  /\ At(n) /\ waiting /\ Timeout
  /\ result' = [result EXCEPT ![n] = "timeout"]
  /\ waiting' = FALSE /\ i' = i + 1
  /\ UNCHANGED <<errCh, gor, box, healthy>>
-----------------------------------------------------------------------------
Step(g, from, to) == gor[g].pc = from /\ gor' = [gor EXCEPT ![g].pc = to]

\* writableCheck.Run: create, write, close and remove a file; nil or an error.
Writable(g) ==
  /\ Step(g, "run", "ok") \/ (~healthy /\ Step(g, "run", "err"))
  /\ UNCHANGED box

\* createContainerCheck.Run, one step per call to docker.  A call that fails
\* may have had its effect: the client gives up before the daemon does.
Base(g) ==
  /\ Step(g, "base", "remove") \/ (~healthy /\ Step(g, "base", "err"))
  /\ UNCHANGED box

\* Mutant of RemoveOld: an old container is left alone.
RemoveOldNot(g) == Step(g, "remove", "inspect") /\ UNCHANGED box

RemoveOld(g) ==
  /\ Step(g, "remove", "inspect")
  /\ \/ box' = 0
     \/ ~healthy /\ UNCHANGED box

Inspect(g) ==
  /\ Step(g, "inspect", "create") \/ (~healthy /\ Step(g, "inspect", "err"))
  /\ UNCHANGED box

CreateContainer(g) ==
  \/ box = 0 /\ box' = g /\ Step(g, "create", "attach")
  \/ box # 0 /\ UNCHANGED box /\ Step(g, "create", "err")
  \/ box = 0 /\ ~healthy /\ box' \in {0, Left} /\ Step(g, "create", "err")

Attach(g) ==
  /\ Step(g, "attach", "start") \/ (~healthy /\ Step(g, "attach", "cleanErr"))
  /\ UNCHANGED box

Start(g) ==
  /\ Step(g, "start", "wait") \/ (~healthy /\ Step(g, "start", "cleanErr"))
  /\ UNCHANGED box

\* waiter.Wait, and the comparison of the output: a container that was
\* removed under the check gives no output.
Wait(g) ==
  /\ \/ box = g /\ Step(g, "wait", "cleanOk")
     \/ (~healthy \/ box # g) /\ Step(g, "wait", "cleanErr")
  /\ UNCHANGED box

\* The deferred RemoveContainer, by id, its error ignored.
Clean(g) ==
  /\ Step(g, "cleanOk", "ok") \/ Step(g, "cleanErr", "err")
  /\ \/ box' = IF box = g THEN 0 ELSE box
     \/ ~healthy /\ box' = IF box = g THEN Left ELSE box

Run(g) ==
  /\ \/ Writable(g) \/ Base(g) \/ RemoveOld(g) \/ Inspect(g) \/ CreateContainer(g)
     \/ Attach(g) \/ Start(g) \/ Wait(g) \/ Clean(g)
  /\ UNCHANGED <<i, waiting, errCh, result, healthy>>
-----------------------------------------------------------------------------
\* The host fails and recovers; bs may be killed with it, leaving behind the
\* container of a check.
Toggle ==
  /\ healthy' = ~healthy
  /\ UNCHANGED <<i, waiting, errCh, gor, result, box>>

Restart ==
  /\ ~healthy
  /\ i' = 0 /\ waiting' = FALSE
  /\ errCh' = [n \in Name |-> 0]
  /\ gor' = [g \in Gor |-> Free]
  /\ result' = [n \in Name |-> "none"]
  /\ box' = IF box = 0 THEN 0 ELSE Left
  /\ UNCHANGED healthy

Collect(n) == Skip(n) \/ Launch(n) \/ Receive(n) \/ Expire(n)

Next ==
  \/ Call \/ Return
  \/ \E n \in Name : Collect(n)
  \/ \E g \in Gor : Run(g)
  \/ Toggle \/ Restart

Spec == Init /\ [][Next]_vars

\* The reporter keeps calling Run, which goes on whenever it can; a check on a
\* host that works makes progress, one on a failing host may hang; a result
\* that waits to be received in round after round is in time for one of them.
Fairness ==
  /\ WF_vars(Call \/ Return \/ \E n \in Name : Collect(n))
  /\ \A n \in Name : SF_vars(Receive(n))
  /\ \A g \in Gor : WF_vars(healthy /\ Run(g))

FairSpec == Spec /\ Fairness
-----------------------------------------------------------------------------
\* From its creation to its removal the container of a running check is
\* there: no other run removes it by its fixed name (hostcheck.go:189-213).
ContainerUndisturbed ==
  \A g \in Gor : gor[g].pc \in {"attach", "start", "wait"} => box = g

\* A run that outlives its turn is not forgotten: its channel is kept, so that
\* no second run of the check starts beside it and its result, however late, is
\* received once; until then every round reports the check as timed out
\* (hostcheck.go:82-105).
LateRunsAccounted ==
  \A g \in Gor : gor[g] # Free =>
    LET n == gor[g].name
    IN  errCh[n] = g /\ (result[n] = "timeout" \/ (At(n) /\ waiting))

\* Run returns, even if a check hangs forever, when there is a timeout
\* (hostcheck.go:88-105).
RunReturns == i # 0 ~> i = 0

\* When the host works again for good every check is reported successful
\* again and again, and in the end never failed (at most late), whatever runs
\* hung and whatever containers were left behind by failures and restarts
\* (hostcheck.go:92-99, 190-213).
Recovers ==
  <>[]healthy => \A n \in Filter : []<>(result[n] = "ok") /\ <>[](result[n] # "err")
=============================================================================
