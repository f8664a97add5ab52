------------------------------ MODULE Forwarder ------------------------------
(***************************************************************************)
(* processMessages (log/log.go) driving one forwarder over a buffered      *)
(* connection: backends put messages on a bounded channel without ever     *)
(* blocking, one goroutine takes them off, writes them to its connection   *)
(* and reconnects after an error or when the connection is too old, and    *)
(* closing the quit channel ends it.  The forwarder is the one of          *)
(* log/syslogforwarder.go; the connection is module BufferedConn.          *)
(*                                                                         *)
(* Messages are numbered in the order Handle produces them; message m is   *)
(* Size[m] units long.                                                     *)
(***************************************************************************)
EXTENDS Naturals, Sequences

CONSTANTS
  MaxMsgs,   \* bound: messages handed to sendMessage
  Size,      \* units of each message
  ChanSizes, \* values of LOG_*_BUFFER_SIZE, 0 for a channel without a buffer
  BufSize    \* capacity of the connection's writer, in units

Msg == 1 .. MaxMsgs

ASSUME ForwarderAssumption ==
  /\ MaxMsgs \in Nat
  /\ Size \in [Msg -> Nat \ {0}]
  /\ ChanSizes \subseteq Nat
  /\ BufSize \in Nat

VARIABLES
  cap,       \* capacity of the message channel
  next,      \* the next message Handle will pass to sendMessage
  ch,        \* messages in the channel
  quit,      \* the quit channel is closed
  pc,        \* where the goroutine of processMessages is
  cur,       \* the message it took, while it processes it; otherwise <<>>
  connected, \* conn # nil
  w, werr, timed, closed, net, wire, written,  \* its connection
  accepted,  \* history: messages the channel took
  processed, \* history: messages process was called with
  gone,      \* history: units the earlier connections accepted
  lossy      \* history: an earlier connection failed

connVars == <<w, werr, timed, closed, net, wire, written>>
vars == <<cap, next, ch, quit, pc, cur, connected, connVars,
          accepted, processed, gone, lossy>>

Unit == Msg \X Nat

\* The bytes of message m, as units.
Encode(m) == [i \in 1 .. Size[m] |-> <<m, i>>]

Conn == INSTANCE BufferedConn WITH Payloads <- {Encode(m) : m \in Msg}

PCs == {"start", "failed", "check", "connect", "loop", "process", "write",
        "close", "closing", "done"}

TypeOK ==
  /\ cap \in ChanSizes
  /\ next \in 1 .. (MaxMsgs + 1)
  /\ ch \in Seq(Msg) /\ Len(ch) <= cap
  /\ quit \in BOOLEAN
  /\ pc \in PCs
  /\ cur \in Seq(Msg) /\ Len(cur) <= 1
  /\ connected \in BOOLEAN
  /\ Conn!TypeOK
  /\ accepted \in Seq(Msg)
  /\ processed \in Seq(Msg)
  /\ gone \in Seq(Unit)
  /\ lossy \in BOOLEAN

Init ==
  /\ cap \in ChanSizes
  /\ next = 1 /\ ch = <<>> /\ quit = FALSE /\ pc = "start" /\ cur = <<>>
  /\ connected = FALSE
  /\ Conn!Fresh
  /\ accepted = <<>> /\ processed = <<>> /\ gone = <<>> /\ lossy = FALSE
-----------------------------------------------------------------------------
Goto(from, to) == pc = from /\ pc' = to

\* forwarder.connect() returns a new connection.
Dial ==
  /\ Conn!Renew
  /\ connected' = TRUE
  /\ gone' = gone \o wire
  /\ lossy' = (lossy \/ werr)

\* The first connect, made by the caller: only if it succeeds is there a
\* goroutine.
StartOK ==
  /\ Goto("start", "check") /\ Dial
  /\ UNCHANGED <<cap, next, ch, quit, cur, accepted, processed>>

StartError ==
  /\ Goto("start", "failed")
  /\ UNCHANGED <<cap, next, ch, quit, cur, connected, connVars,
                 accepted, processed, gone, lossy>>

\* sendMessage: a send that never blocks.  A full channel drops the message;
\* a channel without a buffer passes it on only to a goroutine that waits.
Send ==
  /\ pc \notin {"start", "failed"}
  /\ next \in Msg
  /\ next' = next + 1
  /\ \/ /\ Len(ch) < cap
        /\ ch' = Append(ch, next)
        /\ accepted' = Append(accepted, next)
        /\ UNCHANGED <<pc, cur>>
     \/ /\ cap = 0 /\ Goto("loop", "process")
        /\ cur' = <<next>>
        /\ accepted' = Append(accepted, next)
        /\ UNCHANGED ch
     \/ /\ Len(ch) = cap /\ (cap = 0 => pc # "loop")
        /\ UNCHANGED <<pc, cur, ch, accepted>>
  /\ UNCHANGED <<cap, quit, connected, connVars, processed, gone, lossy>>

\* The backend's stop closes the quit channel, once.
Stop ==
  /\ pc \notin {"start", "failed"}
  /\ ~quit /\ quit' = TRUE
  /\ UNCHANGED <<cap, next, ch, pc, cur, connected, connVars,
                 accepted, processed, gone, lossy>>

\* Mutant of Check: quit is not looked at.
CheckBlind ==
  /\ Goto("check", IF connected THEN "loop" ELSE "connect")
  /\ UNCHANGED <<cap, next, ch, quit, cur, connected, connVars,
                 accepted, processed, gone, lossy>>

\* Top of the goroutine's loop: return if quit is closed, else go on with
\* the connection there is or make one.
Check ==
  /\ Goto("check", IF quit THEN "done" ELSE IF connected THEN "loop" ELSE "connect")
  /\ UNCHANGED <<cap, next, ch, quit, cur, connected, connVars,
                 accepted, processed, gone, lossy>>

ConnectOK ==
  /\ Goto("connect", "loop") /\ Dial
  /\ UNCHANGED <<cap, next, ch, quit, cur, accepted, processed>>

\* A failed connect sleeps and starts over.
ConnectError ==
  /\ Goto("connect", "check")
  /\ UNCHANGED <<cap, next, ch, quit, cur, connected, connVars,
                 accepted, processed, gone, lossy>>

\* The inner select: with quit closed and messages waiting either may happen.
TakeQuit ==
  /\ quit /\ Goto("loop", "close")
  /\ UNCHANGED <<cap, next, ch, quit, cur, connected, connVars,
                 accepted, processed, gone, lossy>>

\* Mutant of TakeMsg: the message stays in the channel.
TakeMsgPeek ==
  /\ ch # <<>> /\ Goto("loop", "process")
  /\ cur' = <<Head(ch)>>
  /\ UNCHANGED <<cap, ch, next, quit, connected, connVars, accepted, processed, gone, lossy>>

TakeMsg ==
  /\ ch # <<>> /\ Goto("loop", "process")
  /\ cur' = <<Head(ch)>>
  /\ ch' = Tail(ch)
  /\ UNCHANGED <<cap, next, quit, connected, connVars, accepted, processed, gone, lossy>>

\* forwarder.process: writePart sets the deadline ...
Process ==
  /\ Goto("process", "write")
  /\ Conn!SetWriteDeadline(TRUE)
  /\ UNCHANGED <<cap, next, ch, quit, cur, connected, accepted, processed, gone, lossy>>

\* ... and writes; an error, or the age of a tcp connection, ends the inner loop.
ProcessOK(aged) ==
  /\ aged => BufSize > 0
  /\ Goto("write", IF aged THEN "close" ELSE "loop")
  /\ Conn!WriteOK(Encode(cur[1]))
  /\ processed' = processed \o cur
  /\ cur' = <<>>
  /\ UNCHANGED <<cap, next, ch, quit, connected, accepted, gone, lossy>>

ProcessError ==
  /\ Goto("write", "close")
  /\ Conn!WriteError(Encode(cur[1]))
  /\ processed' = processed \o cur
  /\ cur' = <<>>
  /\ UNCHANGED <<cap, next, ch, quit, connected, accepted, gone, lossy>>

\* forwarder.close: turn the deadline off, then close the connection, which
\* flushes it; afterwards conn = nil.
ResetDeadline ==
  /\ Goto("close", "closing")
  /\ Conn!SetWriteDeadline(FALSE)
  /\ UNCHANGED <<cap, next, ch, quit, cur, connected, accepted, processed, gone, lossy>>

CloseConn ==
  /\ Goto("closing", "check")
  /\ Conn!Close
  /\ connected' = FALSE
  /\ UNCHANGED <<cap, next, ch, quit, cur, accepted, processed, gone, lossy>>

\* The connection's flushLoop, and the network under it.
FlushTick ==
  /\ pc # "start" /\ Conn!FlushTick
  /\ UNCHANGED <<cap, next, ch, quit, pc, cur, connected, accepted, processed, gone, lossy>>

NetStep ==
  /\ connected /\ Conn!NetStep
  /\ UNCHANGED <<cap, next, ch, quit, pc, cur, connected, accepted, processed, gone, lossy>>
-----------------------------------------------------------------------------
\* Steps of the goroutine that do not depend on the peer being reachable.
Worker ==
  \/ Check \/ ConnectError \/ TakeMsg \/ Process
  \/ \E aged \in BOOLEAN : ProcessOK(aged)
  \/ ProcessError \/ ResetDeadline \/ CloseConn

Next ==
  \/ StartOK \/ StartError \/ Send \/ Stop
  \/ Worker \/ ConnectOK \/ TakeQuit
  \/ FlushTick \/ NetStep

Spec == Init /\ [][Next]_vars

\* The goroutine and the ticker run; a select does not ignore a ready quit
\* forever (it picks at random); a peer that keeps being dialled is reachable
\* at last; and a stalled peer reads, or goes away, at last: Close writes
\* without a deadline and waits for it.
Fairness ==
  /\ SF_vars(Worker)
  /\ SF_vars(TakeQuit)
  /\ SF_vars(ConnectOK)
  /\ SF_vars(FlushTick)
  /\ WF_vars(net = "stalled" /\ NetStep)

FairSpec == Spec /\ Fairness
-----------------------------------------------------------------------------
\* Messages are processed in the order the channel took them and none is
\* skipped or processed twice, whatever connections fail meanwhile: a failed
\* message is given up, never retried (log.go:91-105).
Fifo == accepted = processed \o cur \o ch

\* Once the goroutine returned nothing is in flight and its connection is
\* closed; what the channel still holds is abandoned (log.go:78-82, 106).
CleanExit == pc = "done" => cur = <<>> /\ (connected => written = <<>>) /\ (connected \/ closed)

\* A closed quit channel ends the goroutine, from wherever it is, and cleanly
\* (log.go:79, 94).
Terminates == quit ~> (pc = "done" /\ CleanExit)
=============================================================================
