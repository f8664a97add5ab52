----------------------------- MODULE FileMonitor -----------------------------
(***************************************************************************)
(* The fileMonitor of log/monitor.go over one container's log file, and    *)
(* the position file that carries it over restarts: `tail' replays the     *)
(* file from its first line, streamOutput decodes one line at a time and   *)
(* skips those not newer than the position loaded at start, and a second   *)
(* goroutine saves the time of the last line every updatePosInterval.      *)
(* A monitor ends when its stream ends, or with the whole process at any   *)
(* point; its successor only knows the two files.                          *)
(*                                                                         *)
(* A line is its timestamp, a positive number, or does not decode; the     *)
(* writer's clock does not run backwards.  A position file that is missing, empty or unparsable    *)
(* reads as 0, as does one that holds 0.                                   *)
(***************************************************************************)
EXTENDS Naturals, Sequences, FiniteSets

CONSTANTS
  MaxLines,  \* bound: lines the container writes
  MaxTime,   \* bound: timestamps
  MaxRuns,   \* bound: monitors started for this file
  Faults     \* TRUE if the process may die, and a save fail, at any point

ASSUME FileMonitorAssumption ==
  /\ MaxLines \in Nat /\ MaxTime \in Nat /\ MaxRuns \in Nat
  /\ Faults \in BOOLEAN

VARIABLES
  file,      \* the log file: timestamps of its lines
  garbled,   \* the lines that do not decode
  pos,       \* the position file
  runs,      \* monitors started so far
  stream,    \* streamOutput: "down" (no monitor), "run", "stuck" (it returned,
             \* tail lives) or "done" (both ended)
  rd,        \* lines it decoded
  hand,      \* the line it is passing to Handle, or 0
  loaded,    \* loadedLastTime
  last,      \* lastTime
  ppc,       \* updatePos's goroutine: "sleep", "trunc", "store" or "exit"
  pval,      \* the time it is writing
  handled,   \* history: lines Handle returned for, by all monitors
  dropped,   \* history: lines in hand when the process died
  covered    \* history: the latest position ever saved

disk  == <<file, garbled, pos>>
local == <<stream, rd, hand, loaded, last, ppc, pval>>
fileVars == <<disk, runs, local, handled, dropped, covered>>

Line == 1 .. Len(file)

FileTypeOK ==
  /\ file \in Seq(1 .. MaxTime) /\ Len(file) <= MaxLines /\ garbled \subseteq Line
  /\ pos \in 0 .. MaxTime
  /\ runs \in 0 .. MaxRuns
  /\ stream \in {"down", "run", "stuck", "done"}
  /\ rd \in 0 .. Len(file)
  /\ hand \in 0 .. Len(file)
  /\ loaded \in 0 .. MaxTime
  /\ last \in 0 .. MaxTime
  /\ ppc \in {"sleep", "trunc", "store", "exit"}
  /\ pval \in 0 .. MaxTime
  /\ handled \in SUBSET Line
  /\ dropped \in SUBSET Line
  /\ covered \in 0 .. MaxTime

FileInit ==
  /\ file = <<>> /\ garbled = {} /\ pos = 0 /\ runs = 0
  /\ stream = "down" /\ rd = 0 /\ hand = 0 /\ loaded = 0 /\ last = 0
  /\ ppc = "exit" /\ pval = 0
  /\ handled = {} /\ dropped = {} /\ covered = 0
-----------------------------------------------------------------------------
\* The container writes a line; several may share a timestamp.  A line that is
\* not JSON, or not of the fields' types, is there for good.
Log(t, decodes) ==
  /\ Len(file) < MaxLines
  /\ file # <<>> => t >= file[Len(file)]
  /\ file' = Append(file, t)
  /\ garbled' = IF decodes THEN garbled ELSE garbled \cup {Len(file')}
  /\ UNCHANGED <<pos, runs, local, handled, dropped, covered>>

\* newFileMonitor, start (loadLastPos) and run.  lastTime starts at 0.
Start ==
  /\ stream = "down" /\ runs < MaxRuns
  /\ runs' = runs + 1
  /\ stream' = "run" /\ rd' = 0 /\ hand' = 0
  /\ loaded' = pos /\ last' = 0
  /\ ppc' = "sleep" /\ pval' = 0
  /\ UNCHANGED <<disk, handled, dropped, covered>>

\* Mutant of Decode: the comparison with the loaded position is off by one.
DecodeOffByOne ==
  /\ stream = "run" /\ hand = 0 /\ rd + 1 \in Line \ garbled
  /\ rd' = rd + 1
  /\ IF file[rd + 1] <= loaded + 1
     THEN UNCHANGED <<hand, last>>
     ELSE hand' = rd + 1 /\ last' = file[rd + 1]
  /\ UNCHANGED <<disk, runs, stream, loaded, ppc, pval, handled, dropped, covered>>

\* streamOutput decodes the next line and skips it, or notes its time ...
Decode ==
  /\ stream = "run" /\ hand = 0 /\ rd + 1 \in Line \ garbled
  /\ rd' = rd + 1
  /\ IF file[rd + 1] <= loaded
     THEN UNCHANGED <<hand, last>>
     ELSE hand' = rd + 1 /\ last' = file[rd + 1]
  /\ UNCHANGED <<disk, runs, stream, loaded, ppc, pval, handled, dropped, covered>>

\* ... and passes it on.
Handle ==
  /\ hand # 0
  /\ handled' = handled \cup {hand}
  /\ hand' = 0
  /\ UNCHANGED <<disk, runs, stream, rd, loaded, last, ppc, pval, dropped, covered>>

\* Mutant of PosTick: the time of the last line of the file is taken.
PosTickAhead ==
  /\ stream # "down" /\ ppc = "sleep"
  /\ ppc' = "trunc" /\ pval' = (IF file = <<>> THEN 0 ELSE file[Len(file)])
  /\ UNCHANGED <<disk, runs, stream, rd, hand, loaded, last, handled, dropped, covered>>

\* updatePos: a tick reads lastTime; WriteFile then truncates the file and
\* writes it.  Either half may fail, which is only logged.
PosTick ==
  /\ stream # "down" /\ ppc = "sleep"
  /\ ppc' = "trunc" /\ pval' = last
  /\ UNCHANGED <<disk, runs, stream, rd, hand, loaded, last, handled, dropped, covered>>

PosTruncate ==
  /\ ppc = "trunc"
  /\ \/ pos' = 0 /\ ppc' = "store"
     \/ Faults /\ pos' = pos /\ ppc' = "sleep"
  /\ UNCHANGED <<file, garbled, runs, stream, rd, hand, loaded, last, pval, handled, dropped, covered>>

PosStore ==
  /\ ppc = "store" /\ ppc' = "sleep"
  /\ \/ pos' = pval /\ covered' = (IF pval > covered THEN pval ELSE covered)
     \/ Faults /\ UNCHANGED <<pos, covered>>
  /\ UNCHANGED <<file, garbled, runs, stream, rd, hand, loaded, last, pval, handled, dropped>>

PosEnds ==
  /\ ppc = "sleep" /\ stream \in {"stuck", "done"} /\ ppc' = "exit"
  /\ UNCHANGED <<disk, runs, stream, rd, hand, loaded, last, pval, handled, dropped, covered>>

\* A line does not decode: streamOutput returns, tail goes on.
GiveUp ==
  /\ stream = "run" /\ hand = 0 /\ rd + 1 \in garbled
  /\ stream' = "stuck"
  /\ UNCHANGED <<disk, runs, rd, hand, loaded, last, ppc, pval, handled, dropped, covered>>

\* tail is killed (stop, or from outside), and its output ends.  The last
\* monitor of the model is left alone.
KillTail ==
  /\ stream \in {"run", "stuck"} /\ hand = 0 /\ runs < MaxRuns
  /\ stream' = "done"
  /\ UNCHANGED <<disk, runs, rd, hand, loaded, last, ppc, pval, handled, dropped, covered>>

\* wait returns: both goroutines are done and tail is dead, for which wait
\* waits too.  The monitor is not alive.
Finish ==
  /\ stream = "done" /\ ppc = "exit"
  /\ stream' = "down"
  /\ UNCHANGED <<disk, runs, rd, hand, loaded, last, ppc, pval, handled, dropped, covered>>

\* The process dies: only the two files survive.
Crash ==
  /\ Faults /\ stream # "down" /\ runs < MaxRuns
  /\ stream' = "down" /\ ppc' = "exit" /\ hand' = 0
  /\ dropped' = dropped \cup ({hand} \ {0})
  /\ UNCHANGED <<disk, runs, rd, loaded, last, pval, handled, covered>>
-----------------------------------------------------------------------------
FileNext ==
  \/ \E t \in 1 .. MaxTime, decodes \in BOOLEAN : Log(t, decodes)
  \/ Start \/ Decode \/ Handle
  \/ PosTick \/ PosTruncate \/ PosStore \/ PosEnds
  \/ GiveUp \/ KillTail \/ Finish \/ Crash

FileSpec == FileInit /\ [][FileNext]_fileVars

\* The watcher starts a monitor when there is none, and the goroutines run;
\* the select of updatePos does not ignore a closed streamDone forever.
FileFairSpec ==
  /\ FileSpec
  /\ WF_fileVars(Start) /\ WF_fileVars(Decode) /\ WF_fileVars(Handle)
  /\ WF_fileVars(PosTick) /\ WF_fileVars(PosTruncate) /\ WF_fileVars(PosStore)
  /\ WF_fileVars(GiveUp) /\ SF_fileVars(PosEnds) /\ WF_fileVars(Finish)
-----------------------------------------------------------------------------
\* Lines some monitor read, passed on or not.
Seen == handled \cup dropped \cup ({hand} \ {0})

\* No line is skipped silently: a line the position file will make the next
\* monitor skip was passed to Handle, is being passed, was in hand when the
\* process died, or shares its timestamp with a line that was
\* (monitor.go:113-115, 136-145).
CoveredLinesWereSeen ==
  \A i \in Line : file[i] <= pos => \E j \in Seen : file[j] = file[i]

\* Every monitor starts with the first line and stops at one it cannot decode.
Readable(i) == i \in Line /\ \A k \in 1 .. i : k \notin garbled

\* A line the container wrote is passed to Handle at last, through any number
\* of restarts, unless a line up to it does not decode, the process died with it
\* in hand or another line with its timestamp stands in for it
\* (monitor.go:123-153).
EventuallyHandled ==
  \A i \in 1 .. MaxLines :
    Readable(i) ~> \E j \in handled \cup dropped : i \in Line /\ file[j] = file[i]

\* What a restart promises: a line not newer than a position that was saved is
\* not passed to Handle again (monitor.go:136-138).
RestartDoesNotRepeat ==
  [][\A i \in Line : hand' = i /\ hand = 0 => file[i] > covered]_fileVars
=============================================================================
