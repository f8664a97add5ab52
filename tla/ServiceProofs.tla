---------------------------- MODULE ServiceProofs ----------------------------
(***************************************************************************)
(* Proofs about the host checks, for any checks, any filter, with or       *)
(* without a timeout and for any number of goroutines; about the status    *)
(* reporter, for any set of containers; and about the life of the program, *)
(* for any set of configurations.                                          *)
(***************************************************************************)
EXTENDS HostChecks, StatusReporter, Lifecycle, TLAPS
-----------------------------------------------------------------------------
\* Where a run of the check that creates a container is, between its first
\* call to docker and its end.
CreatePCs == PCs \ ({"run"} \cup Outcomes)

\* Run waits only for checks of the filter, and knows their goroutine.
WaitsForOne == waiting => i \in 1 .. Len(Checks) /\ Checks[i] \in Filter /\ errCh[Checks[i]] # 0

\* Only the check "create" calls docker.
OnlyCreate == \A g \in Gor : gor[g].pc \in CreatePCs => gor[g].name = "create"

Inv == TypeOK /\ WaitsForOne /\ LateRunsAccounted /\ OnlyCreate /\ ContainerUndisturbed

\* What is known of Run's loop.
LEMMA Lengths == Len(Checks) \in Nat /\ DOMAIN Checks = 1 .. Len(Checks)
  BY HostChecksAssumption

\* A free goroutine is nowhere in a check, and no check's state is free.
LEMMA FreeFacts ==
  /\ Free.pc = "free" /\ "free" \notin PCs /\ "free" \notin CreatePCs
  /\ \A r : r.pc \in PCs => r # Free
  <1>1. Free.pc = "free"
    BY DEF Free
  <1>2. "free" \notin PCs /\ "free" \notin CreatePCs
    BY DEF PCs, CreatePCs, Outcomes
  <1> QED
    BY <1>1, <1>2

LEMMA InvInit == Init => Inv
  <1> SUFFICES ASSUME Init PROVE Inv
    OBVIOUS
  <1>1. \A g \in Gor : gor[g] = Free
    BY DEF Init
  <1>2. gor \in [Gor -> {Free} \cup [name : Name, pc : PCs]]
    BY DEF Init
  <1>3. i \in 0 .. (Len(Checks) + 1) /\ box \in 0 .. Left /\ waiting = FALSE
    BY Lengths, HostChecksAssumption DEF Init, Left
  <1>4. errCh \in [Name -> 0 .. MaxGor]
    BY HostChecksAssumption DEF Init
  <1>5. result \in [Name -> {"none", "timeout"} \cup Outcomes] /\ healthy \in BOOLEAN
    BY DEF Init
  <1>6. TypeOK /\ WaitsForOne
    BY <1>2, <1>3, <1>4, <1>5, Zenon DEF TypeOK, WaitsForOne
  <1>7. LateRunsAccounted /\ OnlyCreate /\ ContainerUndisturbed
    BY <1>1, FreeFacts DEF LateRunsAccounted, OnlyCreate, ContainerUndisturbed
  <1> QED
    BY <1>6, <1>7 DEF Inv

\* Two goroutines do not run the same check: each is the one of its channel.
LEMMA OneRunPerCheck ==
  ASSUME LateRunsAccounted, NEW g \in Gor, NEW h \in Gor,
         gor[g] # Free, gor[h] # Free, gor[g].name = gor[h].name
  PROVE  g = h
  BY DEF LateRunsAccounted

\* The steps of Run's loop.
LEMMA LoopStep ==
  ASSUME Inv, Call \/ Return \/ \E n \in Name : Collect(n)
  PROVE  Inv'
  <1> USE Lengths DEF Inv
  <1>1. CASE Call \/ Return \/ \E n \in Name : Skip(n)
    <2>1. ~waiting /\ UNCHANGED <<waiting, errCh, gor, result, box, healthy>>
      BY <1>1 DEF Call, Return, Skip, At, WaitsForOne, TypeOK
    <2>2. i' \in 0 .. (Len(Checks) + 1)
      BY <1>1 DEF Call, Return, Skip, At, TypeOK
    <2>3. TypeOK' /\ WaitsForOne'
      BY <2>1, <2>2 DEF TypeOK, WaitsForOne
    <2> QED
      BY <2>1, <2>3 DEF LateRunsAccounted, OnlyCreate, ContainerUndisturbed
  <1>2. ASSUME NEW n \in Name, Launch(n), errCh[n] # 0 PROVE Inv'
    <2>1. UNCHANGED <<i, errCh, gor, result, box, healthy>> /\ ~waiting /\ waiting' = TRUE
      BY <1>2 DEF Launch
    <2>2. TypeOK' /\ WaitsForOne'
      BY <1>2, <2>1 DEF Launch, At, TypeOK, WaitsForOne
    <2> QED
      BY <2>1, <2>2 DEF LateRunsAccounted, OnlyCreate, ContainerUndisturbed, At
  <1>3. ASSUME NEW n \in Name, Launch(n), errCh[n] = 0 PROVE Inv'
    <2> DEFINE p == IF n = "create" THEN "base" ELSE "run"
    <2>1. PICK g \in Gor : /\ gor[g] = Free /\ errCh' = [errCh EXCEPT ![n] = g]
                           /\ gor' = [gor EXCEPT ![g] = [name |-> n, pc |-> p]]
      BY <1>3 DEF Launch
    <2>2. UNCHANGED <<i, result, box, healthy>> /\ waiting' = TRUE /\ At(n) /\ n \in Filter
      BY <1>3 DEF Launch
    <2>3. p \in PCs /\ (p \in CreatePCs => n = "create") /\ p \notin {"attach", "start", "wait"}
      BY DEF PCs, CreatePCs, Outcomes
    <2> HIDE DEF p
    <2>4. g # 0 /\ errCh' \in [Name -> 0 .. MaxGor] /\ errCh'[n] = g
          /\ \A k \in Name \ {n} : errCh'[k] = errCh[k]
      BY <2>1, HostChecksAssumption DEF TypeOK, Gor
    <2>5. /\ gor' \in [Gor -> {Free} \cup [name : Name, pc : PCs]]
          /\ gor'[g].name = n /\ gor'[g].pc = p
          /\ \A h \in Gor \ {g} : gor'[h] = gor[h]
      BY <2>1, <2>3 DEF TypeOK
    <2>6. TypeOK' /\ WaitsForOne'
      BY <2>2, <2>4, <2>5 DEF TypeOK, WaitsForOne, At
    <2>7. LateRunsAccounted'
      <3>1. \A h \in Gor \ {g} : gor[h] # Free => gor[h].name \in Name \ {n}
        BY <1>3, <2>1 DEF LateRunsAccounted, TypeOK, Gor
      <3>2. ~waiting /\ At(n)' /\ waiting'
        BY <1>3, <2>2 DEF Launch, At
      <3> QED
        BY <2>2, <2>4, <2>5, <3>1, <3>2 DEF LateRunsAccounted
    <2>8. OnlyCreate' /\ ContainerUndisturbed'
      BY <2>2, <2>3, <2>5 DEF OnlyCreate, ContainerUndisturbed
    <2> QED
      BY <2>6, <2>7, <2>8
  <1>4. ASSUME NEW n \in Name, Receive(n) PROVE Inv'
    <2>1. /\ errCh[n] \in Gor /\ gor' = [gor EXCEPT ![errCh[n]] = Free]
          /\ errCh' = [errCh EXCEPT ![n] = 0]
          /\ result' = [result EXCEPT ![n] = gor[errCh[n]].pc]
          /\ gor[errCh[n]].pc \in Outcomes
      BY <1>4, HostChecksAssumption DEF Receive, TypeOK, Gor
    <2>2. UNCHANGED <<box, healthy>> /\ waiting' = FALSE /\ i' \in 0 .. (Len(Checks) + 1) /\ At(n)
      BY <1>4 DEF Receive, At, TypeOK
    <2>3. errCh' \in [Name -> 0 .. MaxGor] /\ \A k \in Name \ {n} : errCh'[k] = errCh[k]
      BY <2>1, HostChecksAssumption DEF TypeOK
    <2>4. /\ result' \in [Name -> {"none", "timeout"} \cup Outcomes]
          /\ \A k \in Name \ {n} : result'[k] = result[k]
      BY <2>1 DEF TypeOK
    <2>5. /\ gor' \in [Gor -> {Free} \cup [name : Name, pc : PCs]] /\ gor'[errCh[n]] = Free
          /\ \A h \in Gor \ {errCh[n]} : gor'[h] = gor[h]
      BY <2>1 DEF TypeOK
    <2>6. TypeOK' /\ WaitsForOne'
      BY <2>2, <2>3, <2>4, <2>5, Zenon DEF TypeOK, WaitsForOne
    <2>7. LateRunsAccounted'
      <3>1. \A h \in Gor \ {errCh[n]} : gor[h] # Free => gor[h].name \in Name \ {n}
        BY DEF LateRunsAccounted, TypeOK
      <3>2. \A k \in Name \ {n} : ~At(k)
        BY <2>2 DEF At
      <3> QED
        BY <2>3, <2>4, <2>5, <3>1, <3>2 DEF LateRunsAccounted
    <2>8. OnlyCreate' /\ ContainerUndisturbed'
      BY <2>1, <2>2, <2>5, FreeFacts DEF OnlyCreate, ContainerUndisturbed
    <2> QED
      BY <2>6, <2>7, <2>8
  <1>5. ASSUME NEW n \in Name, Expire(n) PROVE Inv'
    <2>1. /\ result' = [result EXCEPT ![n] = "timeout"] /\ waiting' = FALSE /\ At(n)
          /\ UNCHANGED <<errCh, gor, box, healthy>>
      BY <1>5 DEF Expire
    <2>2. i' \in 0 .. (Len(Checks) + 1)
      BY <1>5 DEF Expire, At, TypeOK
    <2>3. /\ result' \in [Name -> {"none", "timeout"} \cup Outcomes] /\ result'[n] = "timeout"
          /\ \A k \in Name \ {n} : result'[k] = result[k]
      BY <2>1 DEF TypeOK
    <2>4. TypeOK' /\ WaitsForOne'
      BY <2>1, <2>2, <2>3, Zenon DEF TypeOK, WaitsForOne
    <2>5. LateRunsAccounted'
      <3>1. \A h \in Gor : gor[h] # Free => gor[h].name \in Name
        BY DEF TypeOK
      <3>2. \A k \in Name \ {n} : ~At(k)
        BY <2>1 DEF At
      <3> QED
        BY <2>1, <2>3, <3>1, <3>2 DEF LateRunsAccounted
    <2>6. OnlyCreate' /\ ContainerUndisturbed'
      BY <2>1 DEF OnlyCreate, ContainerUndisturbed
    <2> QED
      BY <2>4, <2>5, <2>6
  <1> QED
    BY <1>1, <1>2, <1>3, <1>4, <1>5 DEF Collect

\* A step of a check's goroutine.  Whoever touches the container is the only
\* run of "create".
LEMMA RunStep ==
  ASSUME Inv, NEW g \in Gor, Run(g)
  PROVE  Inv'
  <1> USE DEF Inv
  <1>1. PICK from \in PCs, to \in PCs :
          /\ Step(g, from, to) /\ from \notin Outcomes
          /\ to \in CreatePCs => from \in CreatePCs
    BY DEF Run, Writable, Base, RemoveOld, Inspect, CreateContainer, Attach, Start, Wait, Clean,
           PCs, CreatePCs, Outcomes, Step
  <1>2. gor[g].pc = from /\ gor[g] # Free /\ gor[g] \in [name : Name, pc : PCs]
    BY <1>1, FreeFacts DEF Step, TypeOK
  <1>3. /\ \A h \in Gor : h # g => gor'[h] = gor[h]
        /\ gor'[g] = [name |-> gor[g].name, pc |-> to]
        /\ gor' \in [Gor -> {Free} \cup [name : Name, pc : PCs]]
    BY <1>1, <1>2, Zenon DEF Step, TypeOK, Free
  <1>4. UNCHANGED <<i, waiting, errCh, result, healthy>>
    BY DEF Run
  <1>5. box' \in 0 .. Left
    BY HostChecksAssumption
    DEF Run, Writable, Base, RemoveOld, Inspect, CreateContainer, Attach, Start, Wait, Clean,
        TypeOK, Left, Gor
  <1>6. TypeOK' /\ WaitsForOne'
    BY <1>3, <1>4, <1>5 DEF TypeOK, WaitsForOne
  <1>7. LateRunsAccounted'
    BY <1>2, <1>3, <1>4 DEF LateRunsAccounted, At
  <1>8. OnlyCreate'
    BY <1>1, <1>2, <1>3 DEF OnlyCreate
  <1>9. ContainerUndisturbed'
    <2> SUFFICES ASSUME NEW h \in Gor, gor'[h].pc \in {"attach", "start", "wait"}
                 PROVE  box' = h
      BY DEF ContainerUndisturbed
    <2>1. CASE h = g
      BY <1>2, <1>3, <2>1
      DEF Run, Writable, Base, RemoveOld, Inspect, CreateContainer, Attach, Start, Wait, Clean,
          Step, ContainerUndisturbed, TypeOK
    <2>2. CASE h # g
      <3>1. gor[h].pc \in {"attach", "start", "wait"} /\ box = h /\ gor[h] # Free
        BY <1>3, <2>2, FreeFacts DEF ContainerUndisturbed, PCs
      <3>2. from \notin CreatePCs
        BY <1>2, <2>2, <3>1, OneRunPerCheck DEF OnlyCreate, CreatePCs, PCs, Outcomes
      <3>3. UNCHANGED box
        BY <1>2, <3>2
        DEF Run, Writable, Base, RemoveOld, Inspect, CreateContainer, Attach, Start, Wait, Clean,
            Step, CreatePCs, PCs, Outcomes
      <3> QED
        BY <3>1, <3>3
    <2> QED
      BY <2>1, <2>2
  <1> QED
    BY <1>6, <1>7, <1>8, <1>9

LEMMA InvNext == Inv /\ [Next]_vars => Inv'
  <1> SUFFICES ASSUME Inv, [Next]_vars PROVE Inv'
    OBVIOUS
  <1>1. CASE Toggle
    BY <1>1 DEF Toggle, Inv, TypeOK, WaitsForOne, LateRunsAccounted, At, OnlyCreate,
                ContainerUndisturbed
  <1>2. CASE Restart
    <2>1. \A g \in Gor : gor'[g] = Free
      BY <1>2 DEF Restart
    <2>2. /\ i' \in 0 .. (Len(Checks) + 1) /\ waiting' = FALSE /\ box' \in 0 .. Left
          /\ healthy' \in BOOLEAN
      BY <1>2, HostChecksAssumption, Lengths DEF Restart, Left, Inv, TypeOK
    <2>3. errCh' \in [Name -> 0 .. MaxGor] /\ gor' \in [Gor -> {Free} \cup [name : Name, pc : PCs]]
      BY <1>2, HostChecksAssumption DEF Restart
    <2>4. result' \in [Name -> {"none", "timeout"} \cup Outcomes]
      BY <1>2 DEF Restart
    <2>5. TypeOK' /\ WaitsForOne'
      BY <2>2, <2>3, <2>4, Zenon DEF TypeOK, WaitsForOne
    <2>6. LateRunsAccounted' /\ OnlyCreate' /\ ContainerUndisturbed'
      BY <2>1, FreeFacts DEF LateRunsAccounted, OnlyCreate, ContainerUndisturbed
    <2> QED
      BY <2>5, <2>6 DEF Inv
  <1>3. CASE UNCHANGED vars
    BY <1>3 DEF vars, Inv, TypeOK, WaitsForOne, LateRunsAccounted, At, OnlyCreate,
                ContainerUndisturbed
  <1> QED
    BY <1>1, <1>2, <1>3, LoopStep, RunStep DEF Next

\* A run that outlives its turn keeps its channel, is the only run of its
\* check, and its check is reported as timed out until its result is received
\* (hostcheck.go:82-105).
THEOREM LateRuns == Spec => []LateRunsAccounted
  <1>1. Inv => LateRunsAccounted
    BY DEF Inv
  <1> QED
    BY <1>1, InvInit, InvNext, PTL DEF Spec

\* No run of a check removes the container of another: rests on the fact that
\* a check has one run at a time, late ones included (hostcheck.go:189-213).
THEOREM Undisturbed == Spec => []ContainerUndisturbed
  <1>1. Inv => ContainerUndisturbed
    BY DEF Inv
  <1> QED
    BY <1>1, InvInit, InvNext, PTL DEF Spec


-----------------------------------------------------------------------------
\* A removal's accounting: each key of removeMap stands for one goroutine,
\* which is in its call or in its deferred function.
Accounted ==
  /\ call \in [Cont -> Nat]
  /\ ending \subseteq removeMap /\ gone \subseteq ending
  /\ OneRemovalPerContainer

\* Every step preserves it: only TryRemove, the ends of the call and Delete
\* touch it.
LEMMA AccountedNext == Accounted /\ [ReporterNext]_reporterVars => Accounted'
  <1> SUFFICES ASSUME Accounted, [ReporterNext]_reporterVars PROVE Accounted'
    OBVIOUS
  <1> USE DEF Accounted, OneRemovalPerContainer
  <1>1. ASSUME NEW c \in Cont, TryRemove(c) PROVE Accounted'
    <2>1. CASE c \in removeMap
      BY <1>1, <2>1 DEF TryRemove, removalVars
    <2>2. CASE c \notin removeMap
      BY <1>1, <2>2 DEF TryRemove
    <2> QED
      BY <2>1, <2>2
  <1>2. ASSUME NEW c \in Cont, RemoveOK(c) \/ RemoveError(c) PROVE Accounted'
    BY <1>2 DEF RemoveOK, RemoveError
  <1>3. ASSUME NEW c \in Cont, CloseCh(c) PROVE Accounted'
    BY <1>3 DEF CloseCh
  <1>4. ASSUME NEW c \in Cont, Delete(c) PROVE Accounted'
    BY <1>4 DEF Delete
  <1>5. CASE UNCHANGED removalVars
    BY <1>5 DEF removalVars
  <1>6. Loop \/ ListOK \/ Answered \/ Exit \/ Stop \/ WaitLock \/ WaitDone => UNCHANGED removalVars
    BY DEF Loop, ListOK, ListError, InspectOther, InspectApp, InspectError, Inspected, Checked,
           RouteNotFound, Answered, NotAnswered, Handled, Tick, Exit, Stop, WaitLock, WaitDone
  <1>7. ASSUME NEW c \in Cont, World(c) PROVE UNCHANGED removalVars
    BY <1>7 DEF World, Create, Destroy, Register, Forget
  <1>8. CASE UNCHANGED reporterVars
    BY <1>8 DEF reporterVars
  <1> QED
    BY <1>1, <1>2, <1>3, <1>4, <1>5, <1>6, <1>7, <1>8 DEF ReporterNext, Removal

\* However many reports find a container again while it is being removed, one
\* removal of it runs at a time (status.go:238-261).
THEOREM RemovalsExclusive == ReporterSpec => []OneRemovalPerContainer
  <1>1. ReporterInit => Accounted
    BY DEF ReporterInit, Accounted, OneRemovalPerContainer
  <1>2. Accounted => OneRemovalPerContainer
    BY DEF Accounted
  <1> QED
    BY <1>1, <1>2, AccountedNext, PTL DEF ReporterSpec

-----------------------------------------------------------------------------
\* A container bs may ask docker to remove: tsuru's, one docker failed to inspect,
\* or one that is gone and, as docker never uses an id twice, will not come back.
Harmless(c) == c \in Managed \cup unseen \/ (c \notin fresh /\ c \notin exists)

\* What was listed exists or is gone; what is reported, answered or being
\* removed is harmless.
OnlyHarmless ==
  /\ call \in [Cont -> Nat] /\ exists \subseteq Cont \ fresh
  /\ todo \subseteq Cont \ fresh
  /\ report \subseteq Cont /\ invalid \subseteq Cont
  /\ \A c \in report \cup invalid : Harmless(c)
  /\ \A c \in Cont : call[c] > 0 => Harmless(c)
  /\ removed \subseteq Managed \cup unseen

\* No step makes a harmless container harmful.
LEMMA HarmlessStable ==
  ASSUME [ReporterNext]_reporterVars, NEW c, Harmless(c)
  PROVE  Harmless(c)'
  <1> USE DEF Harmless
  <1>1. CASE UNCHANGED <<fresh, exists>> /\ unseen \subseteq unseen'
    BY <1>1
  <1>2. ASSUME NEW d \in Cont, RemoveOK(d) PROVE Harmless(c)'
    BY <1>2 DEF RemoveOK, histVars
  <1>3. ASSUME NEW d \in Cont, Create(d) PROVE Harmless(c)'
    BY <1>3 DEF Create, histVars
  <1>4. ASSUME NEW d \in Cont, Destroy(d) PROVE Harmless(c)'
    BY <1>4 DEF Destroy, histVars
  <1>5. Loop \/ ListOK \/ Answered \/ Exit \/ Stop \/ WaitLock \/ WaitDone
          => UNCHANGED <<fresh, exists>> /\ unseen \subseteq unseen'
    BY DEF Loop, ListOK, ListError, InspectOther, InspectApp, InspectError, Inspected, Checked,
           RouteNotFound, Answered, NotAnswered, Handled, Tick, Exit, Stop, WaitLock, WaitDone,
           worldVars, histVars
  <1>6. ASSUME NEW d \in Cont, TryRemove(d) \/ Removal(d) \/ Register(d) \/ Forget(d)
        PROVE  UNCHANGED <<fresh, exists>> /\ unseen \subseteq unseen'
    BY <1>6 DEF TryRemove, Removal, RemoveError, CloseCh, Delete, Register, Forget, worldVars, histVars
  <1>7. CASE UNCHANGED reporterVars
    BY <1>7 DEF reporterVars
  <1> QED
    BY <1>1, <1>2, <1>3, <1>4, <1>5, <1>6, <1>7 DEF ReporterNext, World

\* Every step preserves OnlyHarmless.
LEMMA OnlyHarmlessNext ==
  ASSUME OnlyHarmless, [ReporterNext]_reporterVars
  PROVE  OnlyHarmless'
  <1> USE DEF OnlyHarmless
  <1>1. \A c : Harmless(c) => Harmless(c)'
    BY HarmlessStable
  <1>2. ASSUME UNCHANGED <<call, todo, report, invalid, fresh, exists, removed, unseen>>
        PROVE  OnlyHarmless'
    BY <1>1, <1>2
  <1>3. CASE ListOK
    BY <1>1, <1>3 DEF ListOK, removalVars, worldVars, histVars
  <1>4. ASSUME NEW c \in Cont, InspectOther(c) PROVE OnlyHarmless'
    BY <1>1, <1>4 DEF InspectOther, removalVars, worldVars, histVars
  <1>5. ASSUME NEW c \in Cont, c \in todo, Harmless(c), report' = report \cup {c},
               todo' = todo \ {c}, UNCHANGED <<call, invalid, fresh, exists, removed, unseen>>
        PROVE  OnlyHarmless'
    BY <1>1, <1>5
  <1>6. ASSUME NEW c \in Cont, InspectApp(c) PROVE OnlyHarmless'
    BY <1>5, <1>6 DEF InspectApp, removalVars, worldVars, histVars, Harmless
  <1>7. ASSUME NEW c \in Cont, InspectError(c) PROVE OnlyHarmless'
    BY <1>5, <1>7 DEF InspectError, removalVars, worldVars, histVars, Harmless
  <1>8. CASE Answered
    BY <1>1, <1>8 DEF Answered, removalVars, worldVars, histVars
  <1>9. ASSUME NEW c \in Cont, TryRemove(c) PROVE OnlyHarmless'
    <2>1. CASE UNCHANGED removalVars
      BY <1>1, <1>9, <2>1 DEF TryRemove, removalVars, worldVars, histVars
    <2>2. CASE call' = [call EXCEPT ![c] = @ + 1]
      BY <1>1, <1>9, <2>2 DEF TryRemove, worldVars, histVars
    <2> QED
      BY <1>9, <2>1, <2>2 DEF TryRemove
  <1>10. ASSUME NEW c \in Cont, RemoveOK(c) PROVE OnlyHarmless'
    <2>1. c \in Managed \cup unseen /\ unseen' = unseen /\ removed' = removed \cup {c} /\ exists' = exists \ {c}
      BY <1>10 DEF RemoveOK, Harmless
    <2>2. /\ call' = [call EXCEPT ![c] = @ - 1] /\ call[c] > 0
          /\ UNCHANGED <<todo, report, invalid, fresh>>
      BY <1>10 DEF RemoveOK, loopVars
    <2> QED
      BY <1>1, <2>1, <2>2
  <1>11. ASSUME NEW c \in Cont, RemoveError(c) PROVE OnlyHarmless'
    BY <1>1, <1>11 DEF RemoveError, loopVars, worldVars, histVars
  <1>12. ASSUME NEW c \in Cont, Create(c) PROVE OnlyHarmless'
    BY <1>1, <1>12 DEF Create, loopVars, removalVars, histVars
  <1>13. ASSUME NEW c \in Cont, Destroy(c) PROVE OnlyHarmless'
    BY <1>1, <1>13 DEF Destroy, loopVars, removalVars, histVars
  <1>14. CASE \/ ListError \/ Inspected \/ Checked \/ RouteNotFound \/ NotAnswered \/ Handled
              \/ Tick \/ Exit \/ Stop \/ WaitLock \/ WaitDone \/ UNCHANGED reporterVars
    BY <1>2, <1>14
       DEF ListError, Inspected, Checked, RouteNotFound, NotAnswered, Handled, Tick, Exit, Stop,
           WaitLock, WaitDone, reporterVars, loopVars, removalVars, worldVars, histVars
  <1>15. ASSUME NEW c \in Cont, CloseCh(c) \/ Delete(c) \/ Register(c) \/ Forget(c)
         PROVE  OnlyHarmless'
    BY <1>2, <1>15 DEF CloseCh, Delete, Register, Forget, loopVars, removalVars, worldVars, histVars
  <1> QED
    BY <1>3, <1>4, <1>6, <1>7, <1>8, <1>9, <1>10, <1>11, <1>12, <1>13, <1>14, <1>15
       DEF ReporterNext, Loop, Removal, World

\* bs removes only tsuru's containers and those that docker failed to inspect,
\* whatever is created, destroyed, registered or forgotten between the listing,
\* the report and the removal (status.go:167-173, 238-261).
THEOREM ForeignContainersSafe == ReporterSpec => []OnlyManagedRemoved
  <1>1. ReporterInit => OnlyHarmless
    BY DEF ReporterInit, OnlyHarmless
  <1>2. OnlyHarmless /\ [ReporterNext]_reporterVars => OnlyHarmless'
    BY OnlyHarmlessNext
  <1>3. OnlyHarmless => OnlyManagedRemoved
    BY DEF OnlyHarmless, OnlyManagedRemoved
  <1> QED
    BY <1>1, <1>2, <1>3, PTL DEF ReporterSpec

-----------------------------------------------------------------------------
\* main starts the services; it waits for one after the other, or is past it.
Starting == {"backends", "server", "kube", "stop", "drain", "fatal", "runner", "reporter"}
Started == {"runner", "reporter", "waitLog", "waitRunner", "waitReporter", "check", "exit", "idle"}
RunnerOver == {"waitReporter", "check", "exit", "idle"}
ReporterOver == {"check", "exit", "idle"}
LogOver == {"waitRunner"} \cup RunnerOver

\* Nobody is asked to stop before the signal, and each service once: what is
\* stopped, or has ended after that, will not be stopped again.
StopInv ==
  /\ mpc \in Starting \cup {"idle"} => ~signaled
  /\ mpc \in Starting => reporter = "nil"
  /\ ~signaled => stops = {} /\ reporter \in {"nil", "running"}
  /\ "reporter" \in stops => reporter = "running"

\* The log forwarder once Start returned without an error: there is no server
\* only if LOG_BACKENDS is none, and it is killed by the signal only.
LogInv ==
  mpc \in Started =>
    /\ server # "listening"
    /\ server = "nil" => registered = {} /\ workers = {}
    /\ server \in {"killed", "stopped"} => signaled /\ "log" \notin stops

\* There is a streamer only beside a server, and once the signal was given it
\* runs only until the Stop of the log forwarder, in its last step, reaches it.
KubeInv ==
  /\ mpc \notin Started => kube = "nil"
  /\ mpc \in Started /\ server = "nil" => kube = "nil"
  /\ signaled /\ kube = "running" => stops \cap {"log", "backends", "kube"} # {}

\* What main waited for stays ended.
EndInv ==
  /\ mpc \in LogOver => LogEnded
  /\ mpc \in RunnerOver => runner = "done"
  /\ mpc \in ReporterOver => reporter \in {"nil", "done"}

LifeInv == StopInv /\ LogInv /\ KubeInv /\ EndInv

LEMMA LifeInvInit == ProgramInit => LifeInv
  BY DEF ProgramInit, LifeInv, StopInv, LogInv, KubeInv, EndInv, Starting, Started, LogOver, RunnerOver, ReporterOver

\* Start, and the steps of main after it: they stop nobody.
LEMMA MainStops == ASSUME LifeInv, Main PROVE StopInv'
  BY DEF LifeInv, StopInv, Main, MainGoto, Starting, KillServer, Connect, InitError, RegisterBackend,
         Initialized, Listen, ListenError, Boot, KubeError, StartStops, StartFails,
         StartRunner, StartReporter, WaitLog, WaitRunner, WaitReporter, ProgramExit

LEMMA MainLog == ASSUME LifeInv, Main PROVE LogInv'
  BY DEF LifeInv, LogInv, Main, MainGoto, Started, KillServer, Connect, InitError, RegisterBackend,
         Initialized, Listen, ListenError, Boot, KubeError, StartStops, StartFails,
         StartRunner, StartReporter, WaitLog, WaitRunner, WaitReporter, ProgramExit, logVars

LEMMA MainKube == ASSUME LifeInv, Main PROVE KubeInv'
  BY DEF LifeInv, StopInv, KubeInv, Main, MainGoto, Starting, Started, KillServer, Connect, InitError, RegisterBackend,
         Initialized, Listen, ListenError, Boot, KubeError, StartStops, StartFails,
         StartRunner, StartReporter, WaitLog, WaitRunner, WaitReporter, ProgramExit, logVars

LEMMA MainEnd == ASSUME LifeInv, Main PROVE EndInv'
  BY DEF LifeInv, EndInv, LogOver, RunnerOver, ReporterOver, LogEnded, Main, MainGoto, KillServer,
         Connect, InitError, RegisterBackend,
         Initialized, Listen, ListenError, Boot, KubeError, StartStops, StartFails,
         StartRunner, StartReporter, WaitLog, WaitRunner, WaitReporter, ProgramExit, logVars

\* The signal and the stops it makes.
LEMMA SignalStep == ASSUME LifeInv, Signal PROVE LifeInv'
  BY DEF Signal, Waiting, logVars, LifeInv, StopInv, LogInv, KubeInv, EndInv, Starting, Started,
         LogOver, RunnerOver, ReporterOver, LogEnded

LEMMA StopLogStep ==
  ASSUME LifeInv, SignalStopsLog \/ SignalStopsBackends \/ SignalStopsKube
  PROVE  LifeInv'
  BY DEF SignalStopsLog, SignalStopsBackends, SignalStopsKube, KillServer, LifeInv, StopInv, LogInv,
         KubeInv, EndInv, Starting, Started, LogOver, RunnerOver, ReporterOver, LogEnded

LEMMA StopOtherStep == ASSUME LifeInv, SignalStopsRunner \/ SignalStopsReporter PROVE LifeInv'
  BY DEF SignalStopsRunner, SignalStopsReporter, logVars, LifeInv, StopInv, LogInv, KubeInv, EndInv,
         Starting, Started, LogOver, RunnerOver, ReporterOver, LogEnded

LEMMA EndStep ==
  ASSUME LifeInv,
         RunnerEnds \/ ReporterEnds \/ ServerEnds \/ KubeEnds \/ \E x \in Worker : WorkerEnds(x)
  PROVE  LifeInv'
  BY DEF RunnerEnds, ReporterEnds, ServerEnds, KubeEnds, WorkerEnds, logVars, LifeInv, StopInv, LogInv,
         KubeInv, EndInv, Starting, Started, LogOver, RunnerOver, ReporterOver, LogEnded

LEMMA LifeInvNext == LifeInv /\ [ProgramNext]_programVars => LifeInv'
  <1> SUFFICES ASSUME LifeInv, [ProgramNext]_programVars PROVE LifeInv'
    OBVIOUS
  <1>1. CASE UNCHANGED programVars
    BY <1>1 DEF programVars, logVars, LifeInv, StopInv, LogInv, KubeInv, EndInv, LogEnded
  <1>2. CASE Main
    BY <1>2, MainStops, MainLog, MainKube, MainEnd DEF LifeInv
  <1> QED
    BY <1>1, <1>2, SignalStep, StopLogStep, StopOtherStep, EndStep DEF ProgramNext, SignalStops

\* bs ends by itself only after the server, the workers, the runner and the
\* reporter, leaving behind at most a streamer that its Stop had not reached yet,
\* and without a signal only if there was nothing to do
\* (main.go:96-101, log.go:179-196).
THEOREM ProgramEndsAfterServices == ProgramSpec => []EndsAfterServices
  <1>1. LifeInv => EndsAfterServices
    BY DEF LifeInv, StopInv, LogInv, KubeInv, EndInv, EndsAfterServices, LogEnded, Starting, Started,
           LogOver, RunnerOver, ReporterOver
  <1> QED
    BY <1>1, LifeInvInit, LifeInvNext, PTL DEF ProgramSpec
=============================================================================
