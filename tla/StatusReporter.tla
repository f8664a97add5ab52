--------------------------- MODULE StatusReporter ---------------------------
(***************************************************************************)
(* The status reporter of status/status.go: a loop that lists the          *)
(* containers of the node, inspects each one, reports the application      *)
(* containers to tsuru and removes, in goroutines of their own, those      *)
(* tsuru does not know.  removeMap, guarded by mu, holds the removals that *)
(* are under way; waitPendingRemovals waits for them with mu held.         *)
(*                                                                         *)
(* External: the docker daemon (which containers exist, and its answers)   *)
(* and the tsuru server (which units it knows, and its answers).           *)
(***************************************************************************)
EXTENDS Naturals

CONSTANTS
  Cont,          \* container ids; docker never uses an id twice
  Managed        \* the ones with tsuru's environment variables

ASSUME StatusReporterAssumption == Managed \subseteq Cont

VARIABLES
  pc,        \* where the reporter's goroutine is
  abort,     \* the abort channel is closed
  todo,      \* listed containers not yet inspected
  report,    \* units of the report: the containers put in it so far
  invalid,   \* units of tsuru's answer with found = false, not yet handled
  removeMap, \* keys of removeMap
  gone,      \* keys of removeMap whose channel is closed
  call,      \* removals: container -> number of RemoveContainer calls running
  ending,    \* removals that returned and have yet to run the deferred function
  waiter,    \* waitPendingRemovals: "idle", or "waiting" with mu held
  fresh,     \* docker: containers not created yet
  exists,    \* docker: containers that exist
  known,     \* tsuru: the units it knows
  removed,   \* history: containers a removal took away
  unseen     \* history: containers not tsuru's that existed when docker failed to inspect them

reporterVars == <<pc, abort, todo, report, invalid, removeMap, gone, call, ending,
          waiter, fresh, exists, known, removed, unseen>>
loopVars == <<todo, report, invalid>>
removalVars == <<removeMap, gone, call, ending>>
worldVars == <<fresh, exists, known>>
histVars == <<removed, unseen>>

ReporterPCs == {"list", "inspect", "checks", "node", "units", "handle", "select", "done"}

ReporterTypeOK ==
  /\ pc \in ReporterPCs
  /\ abort \in BOOLEAN
  /\ todo \subseteq Cont /\ report \subseteq Cont /\ invalid \subseteq Cont
  /\ removeMap \subseteq Cont /\ gone \subseteq removeMap /\ ending \subseteq removeMap
  /\ call \in [Cont -> Nat]
  /\ waiter \in {"idle", "waiting"}
  /\ fresh \subseteq Cont /\ exists \subseteq Cont \ fresh
  /\ known \subseteq Managed
  /\ removed \subseteq Cont \ exists /\ unseen \subseteq Cont

ReporterInit ==
  /\ pc = "list" /\ abort = FALSE
  /\ todo = {} /\ report = {} /\ invalid = {}
  /\ removeMap = {} /\ gone = {} /\ call = [c \in Cont |-> 0] /\ ending = {}
  /\ waiter = "idle"
  /\ fresh = Cont /\ exists = {} /\ known = {} /\ removed = {} /\ unseen = {}
-----------------------------------------------------------------------------
Goto(from, to) == pc = from /\ pc' = to

\* reportStatus: list every container, running or not.
ListOK ==
  /\ Goto("list", "inspect")
  /\ todo' = exists /\ report' = {}
  /\ UNCHANGED <<invalid, abort, removalVars, waiter, worldVars, histVars>>

ListError ==
  /\ Goto("list", "select")
  /\ UNCHANGED <<loopVars, abort, removalVars, waiter, worldVars, histVars>>

\* Mutant of InspectOther: a container without tsuru's variables is reported.
InspectOtherReported(c) ==
  /\ pc = "inspect" /\ c \in todo /\ c \in exists \ Managed
  /\ todo' = todo \ {c}
  /\ report' = report \cup {c}
  /\ UNCHANGED <<pc, invalid, abort, removalVars, waiter, worldVars, histVars>>

\* One turn of retrieveContainerStatuses: a container without tsuru's
\* variables is left out ...
InspectOther(c) ==
  /\ pc = "inspect" /\ c \in todo /\ c \in exists \ Managed
  /\ todo' = todo \ {c}
  /\ UNCHANGED <<pc, report, invalid, abort, removalVars, waiter, worldVars, histVars>>

\* ... one with them is reported, with the status its state gives it ...
InspectApp(c) ==
  /\ pc = "inspect" /\ c \in todo /\ c \in exists \cap Managed
  /\ todo' = todo \ {c}
  /\ report' = report \cup {c}
  /\ UNCHANGED <<pc, invalid, abort, removalVars, waiter, worldVars, histVars>>

\* ... and one that cannot be inspected, whatever it is, is reported too, with
\* the status of an error.
InspectError(c) ==
  /\ pc = "inspect" /\ c \in todo
  /\ todo' = todo \ {c}
  /\ report' = report \cup {c}
  /\ unseen' = unseen \cup ({c} \cap (exists \ Managed))
  /\ UNCHANGED <<pc, invalid, abort, removalVars, waiter, worldVars, removed>>

Inspected ==
  /\ todo = {} /\ Goto("inspect", "checks")
  /\ UNCHANGED <<loopVars, abort, removalVars, waiter, worldVars, histVars>>

\* checks.Run() returned (module HostChecks).
Checked ==
  /\ Goto("checks", "node")
  /\ UNCHANGED <<loopVars, abort, removalVars, waiter, worldVars, histVars>>

\* updateNode: a 404 falls back on updateUnits.
RouteNotFound ==
  /\ Goto("node", "units")
  /\ UNCHANGED <<loopVars, abort, removalVars, waiter, worldVars, histVars>>

\* Either request answered with 200 and a body that parses: the units tsuru
\* does not know are marked found = false.
Answered ==
  /\ pc \in {"node", "units"} /\ pc' = "handle"
  /\ invalid' = report \ known
  /\ UNCHANGED <<todo, report, abort, removalVars, waiter, worldVars, histVars>>

\* No answer, another status code, or a body that does not parse.
NotAnswered ==
  /\ pc \in {"node", "units"} /\ pc' = "select"
  /\ UNCHANGED <<loopVars, abort, removalVars, waiter, worldVars, histVars>>

\* Mutant of TryRemove: the map is not consulted.
TryRemoveAgain(c) ==
  /\ pc = "handle" /\ c \in invalid /\ waiter = "idle"
  /\ invalid' = invalid \ {c}
  /\ removeMap' = removeMap \cup {c}
  /\ call' = [call EXCEPT ![c] = @ + 1]
  /\ UNCHANGED <<pc, abort, todo, report, gone, ending, waiter, worldVars, histVars>>

\* tryRemoveContainer, called in turn for each unit that was not found: under
\* mu, an id in removeMap is left alone; any other gets a goroutine.
TryRemove(c) ==
  /\ pc = "handle" /\ c \in invalid /\ waiter = "idle"
  /\ invalid' = invalid \ {c}
  /\ IF c \in removeMap
     THEN UNCHANGED removalVars
     ELSE /\ removeMap' = removeMap \cup {c}
          /\ call' = [call EXCEPT ![c] = @ + 1]
          /\ UNCHANGED <<gone, ending>>
  /\ UNCHANGED <<pc, abort, todo, report, waiter, worldVars, histVars>>

Handled ==
  /\ invalid = {} /\ Goto("handle", "select")
  /\ UNCHANGED <<loopVars, abort, removalVars, waiter, worldVars, histVars>>

\* The select of the loop: the interval passed, or Stop closed abort.
Tick ==
  /\ Goto("select", "list")
  /\ UNCHANGED <<loopVars, abort, removalVars, waiter, worldVars, histVars>>

Exit ==
  /\ abort /\ Goto("select", "done")
  /\ UNCHANGED <<loopVars, abort, removalVars, waiter, worldVars, histVars>>

Stop ==
  /\ ~abort /\ abort' = TRUE
  /\ UNCHANGED <<pc, loopVars, removalVars, waiter, worldVars, histVars>>
-----------------------------------------------------------------------------
\* A removal's goroutine: RemoveContainer returns, with success or not ...
RemoveOK(c) ==
  /\ call[c] > 0 /\ c \in exists
  /\ call' = [call EXCEPT ![c] = @ - 1]
  /\ ending' = ending \cup {c}
  /\ exists' = exists \ {c}
  /\ removed' = removed \cup {c}
  /\ UNCHANGED <<pc, abort, loopVars, removeMap, gone, waiter, fresh, known, unseen>>

\* Mutant of RemoveError: the error returns without the deferred function.
RemoveErrorKeepsKey(c) ==
  /\ call[c] > 0
  /\ call' = [call EXCEPT ![c] = @ - 1]
  /\ UNCHANGED <<pc, abort, loopVars, removeMap, gone, ending, waiter, worldVars, histVars>>

RemoveError(c) ==
  /\ call[c] > 0
  /\ call' = [call EXCEPT ![c] = @ - 1]
  /\ ending' = ending \cup {c}
  /\ UNCHANGED <<pc, abort, loopVars, removeMap, gone, waiter, worldVars, histVars>>

\* ... and the deferred function closes the channel, without mu, ...
CloseCh(c) ==
  /\ c \in ending \ gone
  /\ gone' = gone \cup {c}
  /\ UNCHANGED <<pc, abort, loopVars, removeMap, call, ending, waiter, worldVars, histVars>>

\* ... then deletes the key under mu.
Delete(c) ==
  /\ c \in ending \cap gone /\ waiter = "idle"
  /\ removeMap' = removeMap \ {c}
  /\ gone' = gone \ {c}
  /\ ending' = ending \ {c}
  /\ UNCHANGED <<pc, abort, loopVars, call, waiter, worldVars, histVars>>

\* waitPendingRemovals: lock mu; receive from every channel in the map; unlock.
WaitLock ==
  /\ waiter = "idle" /\ waiter' = "waiting"
  /\ UNCHANGED <<pc, abort, loopVars, removalVars, worldVars, histVars>>

WaitDone ==
  /\ waiter = "waiting" /\ removeMap \subseteq gone
  /\ waiter' = "idle"
  /\ UNCHANGED <<pc, abort, loopVars, removalVars, worldVars, histVars>>
-----------------------------------------------------------------------------
\* The world: containers are created and destroyed; tsuru learns of units and
\* forgets them.
Create(c) ==
  /\ c \in fresh /\ fresh' = fresh \ {c}
  /\ exists' = exists \cup {c}
  /\ UNCHANGED <<pc, abort, loopVars, removalVars, waiter, known, histVars>>

Destroy(c) ==
  /\ c \in exists /\ exists' = exists \ {c}
  /\ UNCHANGED <<pc, abort, loopVars, removalVars, waiter, fresh, known, histVars>>

Register(c) ==
  /\ c \in Managed \ known /\ known' = known \cup {c}
  /\ UNCHANGED <<pc, abort, loopVars, removalVars, waiter, fresh, exists, histVars>>

Forget(c) ==
  /\ c \in known /\ known' = known \ {c}
  /\ UNCHANGED <<pc, abort, loopVars, removalVars, waiter, fresh, exists, histVars>>

Loop ==
  \/ ListError \/ Inspected \/ Checked \/ RouteNotFound
  \/ NotAnswered \/ Handled \/ Tick
  \/ \E c \in Cont : InspectOther(c) \/ InspectApp(c) \/ InspectError(c)

Removal(c) == RemoveError(c) \/ CloseCh(c) \/ Delete(c)

World(c) == Create(c) \/ Destroy(c) \/ Register(c) \/ Forget(c)

ReporterNext ==
  \/ Loop \/ ListOK \/ Answered \/ Exit \/ Stop
  \/ \E c \in Cont : TryRemove(c) \/ RemoveOK(c) \/ Removal(c) \/ World(c)
  \/ WaitLock \/ WaitDone

ReporterSpec == ReporterInit /\ [][ReporterNext]_reporterVars

\* Calls to docker and tsuru end (both clients have timeouts) and are not
\* refused forever; a select does not ignore a closed channel forever; mu is
\* free again and again for whoever waits for it.
ReporterFairness ==
  /\ WF_reporterVars(Loop)
  /\ SF_reporterVars(ListOK) /\ SF_reporterVars(Answered) /\ SF_reporterVars(Exit)
  /\ SF_reporterVars(\E c \in Cont : TryRemove(c)) /\ WF_reporterVars(WaitDone)
  /\ \A c \in Cont : SF_reporterVars(RemoveOK(c)) /\ SF_reporterVars(Removal(c))

ReporterFairSpec == ReporterSpec /\ ReporterFairness
-----------------------------------------------------------------------------
\* The removals under way are exactly the keys of removeMap, one call each:
\* however slow a removal is and however many reports find its container
\* again meanwhile, it is not started a second time (status.go:238-261).
OneRemovalPerContainer ==
  \A c \in Cont : call[c] + (IF c \in ending THEN 1 ELSE 0)
                    = (IF c \in removeMap THEN 1 ELSE 0)

\* Of the containers that tsuru does not manage, bs removes only those docker
\* failed to inspect in some report: these are reported whatever they are,
\* although README.md:35 promises to leave such containers alone
\* (status.go:167-173, 238-261).
OnlyManagedRemoved == removed \subseteq Managed \cup unseen

\* A zombie, an application container tsuru does not know and goes on not
\* knowing, is removed in the end: a refused removal is tried again by a later
\* report, and waitPendingRemovals does not deadlock with the removals it waits
\* for, although it holds the lock they and the loop need (README.md:32-35,
\* status.go:238-269, 282-286).
ZombiesRemoved ==
  \A c \in Managed :
    (c \in exists /\ c \notin known) ~> (c \notin exists \/ c \in known \/ abort)
=============================================================================
