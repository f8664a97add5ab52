---------------------------- MODULE WsForwarder ----------------------------
(***************************************************************************)
(* The tsuru backend of log/wsforwarder.go: processMessages over a         *)
(* websocket.  Each connection has two goroutines of its own, a reader     *)
(* that looks for pongs and a pinger, besides the flushLoop of its         *)
(* bufferedConn, and they outlive it: fields of the forwarder              *)
(* (f.bufferConn, f.expireConnCh) belong to the newest connection while    *)
(* goroutines of older ones still read them.                               *)
(*                                                                         *)
(* Messages are not told apart (modules Forwarder and BufferedConn do      *)
(* that); this module is about the goroutines, locks, channels and sockets.*)
(***************************************************************************)
EXTENDS Naturals

CONSTANTS
  MaxConns,  \* bound: connections made
  MaxAge     \* LOG_TSURU_CONN_MAX_AGE >= 0

ASSUME WsForwarderAssumption ==
  /\ MaxConns \in Nat
  /\ MaxAge \in BOOLEAN

Conns == 1 .. MaxConns

VARIABLES
  pc,        \* where the goroutine of processMessages is
  quit,      \* the quit channel is closed
  n,         \* connections made; the newest is n
  conn,      \* the conn of processMessages: n, or 0 for nil
  fbuf,      \* f.bufferConn
  fexp,      \* f.expireConnCh, 0 for a channel of a failed handshake
  expired,   \* the expire channels that are closed
  connMutex, \* the holder of f.connMutex
  bufMu,     \* connection -> holder of bufferConn.mu
  buf,       \* connection -> what its bufio.Writer holds
  timed,     \* connection -> c.to > 0
  sock,      \* connection -> its socket
  rd,        \* connection -> its reader
  pg,        \* connection -> its pinger
  pgExp,     \* connection -> the channel its pinger's select waits on, 0 outside it
             \* and for a channel of a failed handshake
  pgBuf,     \* connection -> the bufferConn its pinger locks, 0 when it does not
  crash      \* a fatal error of the Go runtime ended the program

mainVars == <<pc, quit, n, conn>>
fieldVars == <<fbuf, fexp, expired>>
connVars == <<bufMu, buf, timed, sock>>
pingVars == <<pg, pgExp, pgBuf>>
vars == <<mainVars, fieldVars, connMutex, connVars, rd, pingVars, crash>>

\* Holders of locks: nobody, the goroutine of processMessages, the flushLoop
\* of the connection, or the pinger of connection c.
Nobody == 0
Main == MaxConns + 1
Flusher == MaxConns + 2
Holders == {Nobody, Main, Flusher} \cup Conns

PCs == {"start", "failed", "check", "connect", "handshake", "loop", "process",
        "set", "write", "close", "deadline", "closing", "done"}

TypeOK ==
  /\ pc \in PCs /\ quit \in BOOLEAN
  /\ n \in 0 .. MaxConns /\ conn \in {0, n}
  /\ fbuf \in 0 .. MaxConns /\ fexp \in 0 .. MaxConns
  /\ expired \subseteq Conns
  /\ connMutex \in Holders
  /\ bufMu \in [Conns -> Holders]
  /\ buf \in [Conns -> {"empty", "data", "error"}]
  /\ timed \in [Conns -> BOOLEAN]
  /\ sock \in [Conns -> {"none", "open", "stalled", "broken", "closed"}]
  /\ rd \in [Conns -> {"none", "reading", "done"}]
  /\ pg \in [Conns -> {"none", "enter", "select", "mutex", "lock", "write", "done"}]
  /\ pgExp \in [Conns -> 0 .. MaxConns] /\ pgBuf \in [Conns -> 0 .. MaxConns]
  /\ crash \in {"no", "unlock", "close"}

Init ==
  /\ pc = "start" /\ quit = FALSE /\ n = 0 /\ conn = 0
  /\ fbuf = 0 /\ fexp = 0 /\ expired = {}
  /\ connMutex = Nobody
  /\ bufMu = [c \in Conns |-> Nobody] /\ buf = [c \in Conns |-> "empty"]
  /\ timed = [c \in Conns |-> FALSE] /\ sock = [c \in Conns |-> "none"]
  /\ rd = [c \in Conns |-> "none"] /\ pg = [c \in Conns |-> "none"]
  /\ pgExp = [c \in Conns |-> 0] /\ pgBuf = [c \in Conns |-> 0]
  /\ crash = "no"
-----------------------------------------------------------------------------
Goto(from, to) == crash = "no" /\ pc = from /\ pc' = to

\* connect, its first half: dial, and a new expire channel ...
Dial(from) ==
  /\ n < MaxConns /\ Goto(from, "handshake")
  /\ fexp' = n + 1
  /\ UNCHANGED <<quit, n, conn, fbuf, expired, connMutex, connVars, rd, pingVars, crash>>

DialError(from) ==
  /\ Goto(from, IF n = 0 THEN "failed" ELSE "check")
  /\ UNCHANGED <<quit, n, conn, fieldVars, connMutex, connVars, rd, pingVars, crash>>

\* ... its second half: the websocket handshake, the buffered connection and
\* the two goroutines.  The first connect is the caller's, before there is a
\* goroutine of processMessages.
Handshake ==
  /\ Goto("handshake", IF n = 0 THEN "check" ELSE "loop")
  /\ n' = n + 1 /\ conn' = n + 1 /\ fbuf' = n + 1
  /\ sock' = [sock EXCEPT ![n + 1] = "open"]
  /\ rd' = [rd EXCEPT ![n + 1] = "reading"]
  /\ pg' = [pg EXCEPT ![n + 1] = "enter"]
  /\ UNCHANGED <<quit, fexp, expired, connMutex, bufMu, buf, timed, pgExp, pgBuf, crash>>

\* A failed handshake leaves an expire channel that nobody will close.
HandshakeError ==
  /\ Goto("handshake", IF n = 0 THEN "failed" ELSE "check")
  /\ fexp' = 0
  /\ pgExp' = [c \in Conns |-> IF pgExp[c] = n + 1 THEN 0 ELSE pgExp[c]]
  /\ UNCHANGED <<quit, n, conn, fbuf, expired, connMutex, connVars, rd, pg, pgBuf, crash>>

Check ==
  /\ Goto("check", IF quit THEN "done" ELSE IF conn # 0 THEN "loop" ELSE "connect")
  /\ UNCHANGED <<quit, n, conn, fieldVars, connMutex, connVars, rd, pingVars, crash>>

TakeQuit ==
  /\ quit /\ Goto("loop", "close")
  /\ UNCHANGED <<quit, n, conn, fieldVars, connMutex, connVars, rd, pingVars, crash>>

TakeMsg ==
  /\ Goto("loop", "process")
  /\ UNCHANGED <<quit, n, conn, fieldVars, connMutex, connVars, rd, pingVars, crash>>

\* process: lock connMutex, set the deadline, ...
Process ==
  /\ connMutex = Nobody /\ Goto("process", "set")
  /\ connMutex' = Main
  /\ UNCHANGED <<quit, n, conn, fieldVars, connVars, rd, pingVars, crash>>

SetDeadline ==
  /\ Goto("set", "write") /\ bufMu[conn] = Nobody
  /\ timed' = [timed EXCEPT ![conn] = TRUE]
  /\ UNCHANGED <<quit, n, conn, fieldVars, connMutex, bufMu, buf, sock, rd, pingVars, crash>>

\* What a write of the connection's bufio.Writer may leave in it.
AfterWrite(c) ==
  IF buf[c] = "error" THEN {"error"}
  ELSE {"data"} \cup (IF sock[c] = "open" THEN {"empty"} ELSE {"error"})

\* ... write the message, and expire a connection that is too old; any error
\* ends the inner loop.
Write(aged) ==
  /\ pc = "write" /\ bufMu[conn] = Nobody
  /\ \E b \in AfterWrite(conn) :
       /\ buf' = [buf EXCEPT ![conn] = b]
       /\ IF b = "error" THEN Goto("write", "close") /\ UNCHANGED <<expired, crash>>
          ELSE IF ~(MaxAge /\ aged) THEN Goto("write", "loop") /\ UNCHANGED <<expired, crash>>
          ELSE /\ Goto("write", "close")
               /\ expired' = expired \cup {fexp}
               /\ crash' = IF fexp \in expired THEN "close" ELSE crash
  /\ connMutex' = Nobody
  /\ UNCHANGED <<quit, n, conn, fbuf, fexp, bufMu, timed, sock, rd, pingVars>>

\* close: lock connMutex, turn the deadline off, flush and close the socket.
\* The flush waits as long as the peer stalls it, and nobody looks at the writer
\* it leaves: sent, lost or failed, the closed connection holds nothing.
Close ==
  /\ connMutex = Nobody /\ Goto("close", "deadline")
  /\ connMutex' = Main
  /\ UNCHANGED <<quit, n, conn, fieldVars, connVars, rd, pingVars, crash>>

ResetDeadline ==
  /\ Goto("deadline", "closing") /\ bufMu[conn] = Nobody
  /\ timed' = [timed EXCEPT ![conn] = FALSE]
  /\ UNCHANGED <<quit, n, conn, fieldVars, connMutex, bufMu, buf, sock, rd, pingVars, crash>>

CloseConn ==
  /\ Goto("closing", "check") /\ bufMu[conn] = Nobody
  /\ buf[conn] = "data" => sock[conn] # "stalled"
  /\ buf' = [buf EXCEPT ![conn] = "empty"]
  /\ sock' = [sock EXCEPT ![conn] = "closed"]
  /\ conn' = 0 /\ connMutex' = Nobody
  /\ UNCHANGED <<quit, n, fieldVars, bufMu, timed, rd, pingVars, crash>>

\* stop closes the quit channel.
Stop ==
  /\ crash = "no" /\ pc \notin {"start", "failed"} /\ n > 0
  /\ ~quit /\ quit' = TRUE
  /\ UNCHANGED <<pc, n, conn, fieldVars, connMutex, connVars, rd, pingVars, crash>>
-----------------------------------------------------------------------------
\* Mutant of FlushTick: the error of a flush is forgotten.
FlushTickForgets(c) ==
  /\ crash = "no" /\ bufMu[c] = Nobody /\ buf[c] = "data"
  /\ IF sock[c] = "stalled"
     THEN bufMu' = [bufMu EXCEPT ![c] = Flusher] /\ UNCHANGED buf
     ELSE buf' = [buf EXCEPT ![c] = "empty"] /\ UNCHANGED bufMu
  /\ UNCHANGED <<mainVars, fieldVars, connMutex, timed, sock, rd, pingVars, crash>>

\* A tick of the flushLoop of c: it holds c.mu while the socket stalls it.
FlushTick(c) ==
  /\ crash = "no" /\ bufMu[c] = Nobody /\ buf[c] = "data"
  /\ IF sock[c] = "stalled"
     THEN bufMu' = [bufMu EXCEPT ![c] = Flusher] /\ UNCHANGED buf
     ELSE /\ buf' = [buf EXCEPT ![c] = IF sock[c] = "open" THEN "empty" ELSE "error"]
          /\ UNCHANGED bufMu
  /\ UNCHANGED <<mainVars, fieldVars, connMutex, timed, sock, rd, pingVars, crash>>

FlushEnd(c) ==
  /\ crash = "no" /\ bufMu[c] = Flusher
  /\ sock[c] = "stalled" => timed[c]
  /\ buf' = [buf EXCEPT ![c] = IF sock[c] = "open" THEN "empty" ELSE "error"]
  /\ bufMu' = [bufMu EXCEPT ![c] = Nobody]
  /\ UNCHANGED <<mainVars, fieldVars, connMutex, timed, sock, rd, pingVars, crash>>

\* The reader ends when reading fails, and closes the socket.
ReaderEnd(c) ==
  /\ crash = "no" /\ rd[c] = "reading" /\ sock[c] \in {"broken", "closed"}
  /\ rd' = [rd EXCEPT ![c] = "done"]
  /\ sock' = [sock EXCEPT ![c] = "closed"]
  /\ UNCHANGED <<mainVars, fieldVars, connMutex, bufMu, buf, timed, pingVars, crash>>

Ping(c, from, to) == crash = "no" /\ pg[c] = from /\ pg' = [pg EXCEPT ![c] = to]

\* The pinger enters its select, which reads f.expireConnCh: by now it may be
\* the channel of a newer connection, or of one being made.
PingSelect(c) ==
  /\ Ping(c, "enter", "select")
  /\ pgExp' = [pgExp EXCEPT ![c] = fexp]
  /\ UNCHANGED <<mainVars, fieldVars, connMutex, connVars, rd, pgBuf, crash>>

\* Mutant of PingerEnd: the socket is not closed.
PingerEndOpen(c) ==
  /\ quit \/ pgExp[c] \in expired
  /\ Ping(c, "select", "done")
  /\ UNCHANGED <<mainVars, fieldVars, connMutex, connVars, rd, pgExp, pgBuf, crash>>

\* The pinger ends, closing the socket.
PingerEnd(c) ==
  /\ quit \/ pgExp[c] \in expired
  /\ Ping(c, "select", "done")
  /\ sock' = [sock EXCEPT ![c] = "closed"]
  /\ pgExp' = [pgExp EXCEPT ![c] = 0]
  /\ UNCHANGED <<mainVars, fieldVars, connMutex, bufMu, buf, timed, rd, pgBuf, crash>>

PingTick(c) ==
  /\ Ping(c, "select", "mutex")
  /\ pgExp' = [pgExp EXCEPT ![c] = 0]
  /\ UNCHANGED <<mainVars, fieldVars, connMutex, connVars, rd, pgBuf, crash>>

\* writeWithDeadline: lock connMutex and read f.bufferConn, ...
PingMutex(c) ==
  /\ connMutex = Nobody /\ Ping(c, "mutex", "lock")
  /\ connMutex' = c
  /\ pgBuf' = [pgBuf EXCEPT ![c] = fbuf]
  /\ UNCHANGED <<mainVars, fieldVars, connVars, rd, pgExp, crash>>

\* Mutant of PingLock: the lock of the buffered connection is not taken.
PingLockNot(c) ==
  /\ Ping(c, "lock", "write")
  /\ UNCHANGED <<mainVars, fieldVars, connMutex, connVars, rd, pgExp, pgBuf, crash>>

\* ... lock the mutex of the buffered connection it found, and read the field
\* once more for the deferred unlock.  If it has changed, a mutex that the pinger
\* does not hold will be unlocked: the runtime ends the program.
PingLock(c) ==
  /\ Ping(c, "lock", "write") /\ bufMu[pgBuf[c]] = Nobody
  /\ bufMu' = [bufMu EXCEPT ![pgBuf[c]] = c]
  /\ crash' = IF fbuf # pgBuf[c] THEN "unlock" ELSE crash
  /\ UNCHANGED <<mainVars, fieldVars, connMutex, buf, timed, sock, rd, pgExp, pgBuf>>

Unlock(c) ==
  /\ bufMu' = [bufMu EXCEPT ![pgBuf[c]] = Nobody]
  /\ pgBuf' = [pgBuf EXCEPT ![c] = 0]
  /\ connMutex' = Nobody

\* The ping is written and the last pong is recent: the next turn of the loop.
PingOK(c) ==
  /\ sock[c] = "open" /\ Ping(c, "write", "enter") /\ Unlock(c)
  /\ UNCHANGED <<mainVars, fieldVars, buf, timed, sock, rd, pgExp, crash>>

\* Mutant of PingError: the pinger goes on after an error.
PingErrorIgnored(c) ==
  /\ Ping(c, "write", "enter") /\ Unlock(c)
  /\ UNCHANGED <<mainVars, fieldVars, buf, timed, sock, rd, pgExp, crash>>

\* It cannot be written in time, or there was no pong for too long.
PingError(c) ==
  /\ Ping(c, "write", "done") /\ Unlock(c)
  /\ sock' = [sock EXCEPT ![c] = "closed"]
  /\ UNCHANGED <<mainVars, fieldVars, buf, timed, rd, pgExp, crash>>

\* The network.
NetStep(c) ==
  /\ crash = "no" /\ sock[c] \in {"open", "stalled"}
  /\ sock' \in {[sock EXCEPT ![c] = s] : s \in {"open", "stalled", "broken"} \ {sock[c]}}
  /\ UNCHANGED <<mainVars, fieldVars, connMutex, bufMu, buf, timed, rd, pingVars, crash>>
-----------------------------------------------------------------------------
MainStep ==
  \/ DialError("start") \/ DialError("connect") \/ HandshakeError
  \/ Check \/ TakeQuit \/ Process \/ SetDeadline \/ (\E aged \in BOOLEAN : Write(aged))
  \/ Close \/ ResetDeadline \/ CloseConn

Pinger(c) ==
  \/ PingSelect(c) \/ PingerEnd(c) \/ PingMutex(c) \/ PingLock(c)
  \/ PingOK(c) \/ PingError(c)

Next ==
  \/ MainStep \/ Dial("start") \/ Dial("connect") \/ Handshake \/ TakeMsg \/ Stop
  \/ \E c \in Conns : \/ FlushTick(c) \/ FlushEnd(c) \/ ReaderEnd(c)
                      \/ PingTick(c) \/ Pinger(c) \/ NetStep(c)

Spec == Init /\ [][Next]_vars

\* Goroutines run and locks are granted in the end to those who wait; a
\* select does not ignore a ready channel forever; ping and flush intervals pass; a
\* peer that stalls a connection reads, or goes away, at last.
Fairness ==
  /\ SF_vars(MainStep) /\ SF_vars(TakeQuit)
  /\ \A c \in Conns :
       /\ SF_vars(PingTick(c) \/ Pinger(c)) /\ SF_vars(PingerEnd(c))
       /\ SF_vars(FlushTick(c) \/ FlushEnd(c)) /\ WF_vars(ReaderEnd(c))
       /\ WF_vars(sock[c] = "stalled" /\ NetStep(c))

FairSpec == Spec /\ Fairness
-----------------------------------------------------------------------------
Ended(c) == rd[c] \in {"none", "done"} /\ pg[c] \in {"none", "done"}
Drained == pc = "done" /\ \A c \in Conns : Ended(c)

\* A ping and the log messages are never written to a websocket at the same
\* time: whoever writes a ping to an open socket holds the lock its flushes
\* hold (wsforwarder.go:221-238, bufferconn.go:35-42, 87-89).
FramesExclusive ==
  \A c \in Conns : pg[c] = "write" /\ crash = "no" /\ sock[c] # "closed" => bufMu[c] = c

\* Closing the quit channel ends the main goroutine, the readers and the
\* pingers, so that Wait returns (log.go:73-82, 183; wsforwarder.go:171-216).
\* Only an unlock of the wrong mutex can end the program before that.
Drains == quit ~> (Drained \/ crash = "unlock")

\* Reconnecting does not accumulate goroutines: the reader and the pinger of a
\* replaced connection end, even if the pinger waits on the expire channel of
\* a newer one, and no channel is closed a second time, which would end the
\* program (wsforwarder.go:157, 172-216, 253).
ReplacedEnd == \A c \in Conns \ {MaxConns} : (c < n) ~> (Ended(c) \/ crash = "unlock")

\* A websocket that its pinger or reader closed, for want of a pong or after an
\* error, is given up by the message loop if messages keep coming: a write or
\* a flush fails, and the next connect replaces it (wsforwarder.go:203-216,
\* 240-257).
DeadReplaced ==
  \A c \in Conns :
    []<>(pc = "process" /\ crash = "no") => (conn = c /\ sock[c] = "closed" ~> conn # c)
=============================================================================
