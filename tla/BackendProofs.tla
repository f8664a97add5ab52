---------------------------- MODULE BackendProofs ----------------------------
(***************************************************************************)
(* Proofs about what each backend does by itself: the locks of the         *)
(* websocket forwarder, for any number of connections, with and without a  *)
(* maximal age; splitParts of the syslog forwarder, for every header,      *)
(* content, trailer and limit; and the fields of a GELF message, for every *)
(* text, whitelist and priority.                                           *)
(***************************************************************************)
EXTENDS WsForwarder, SplitParts, GelfFields, SequenceTheorems, WellFoundedInduction, TLAPS

-----------------------------------------------------------------------------
\* The inner loop of processMessages, from a connect that succeeds to close.
InLoop == {"loop", "process", "set", "write", "close", "deadline", "closing"}

\* The goroutine of processMessages: it has the newest connection in its inner
\* loop and none while it connects, and it is between Lock and Unlock of
\* connMutex in the bodies of process and close.
MainInv ==
  /\ fbuf = n
  /\ pc \in InLoop => conn = n /\ n > 0
  /\ pc \in {"start", "failed", "connect", "handshake"} => conn = 0
  /\ pc = "handshake" => n < MaxConns
  /\ pc \in {"set", "write", "deadline", "closing"} => connMutex = Main

\* A socket that is not the newest connection's, or that processMessages gave
\* up, is closed; what is not connected yet has no socket and no pinger.
SockInv ==
  \A c \in Conns :
    /\ c > n => sock[c] = "none" /\ pg[c] = "none"
    /\ c <= n /\ c # conn => sock[c] = "closed"

\* A pinger holds connMutex from its Lock to the deferred Unlock, and the lock
\* of one buffered connection: its own, unless a newer one took its place.
PingInv ==
  \A c \in Conns :
    /\ pg[c] \in {"lock", "write"} => connMutex = c /\ pgBuf[c] \in Conns /\ (c = n => pgBuf[c] = c)
    /\ pg[c] = "write" => bufMu[pgBuf[c]] = c

\* The expire channel of the newest connection is the forwarder's, and open,
\* while the inner loop may still close it.
ExpireInv ==
  /\ expired \subseteq 1 .. n
  /\ crash \in {"no", "unlock"}
  /\ (conn # 0 /\ pc \in {"check", "loop", "process", "set", "write"}) => fexp = n /\ n \notin expired
  /\ pc = "handshake" => fexp = n + 1

LockInv == TypeOK /\ MainInv /\ SockInv /\ PingInv /\ ExpireInv

LEMMA LockInvInit == Init => LockInv
  <1> SUFFICES ASSUME Init PROVE LockInv
    OBVIOUS
  <1>1. TypeOK
    <2>1. 0 \in 0 .. MaxConns /\ Nobody \in Holders
      BY WsForwarderAssumption DEF Holders
    <2> QED
      BY <2>1, Zenon DEF Init, TypeOK, PCs
  <1>2. MainInv /\ SockInv /\ PingInv /\ ExpireInv
    BY WsForwarderAssumption DEF Init, MainInv, SockInv, PingInv, ExpireInv, InLoop, Conns
  <1> QED
    BY <1>1, <1>2 DEF LockInv

\* Holders of locks are told apart.
LEMMA HoldersApart ==
  /\ Conns \subseteq Nat /\ Nobody \notin Conns /\ Main \notin Conns /\ Flusher \notin Conns
  /\ Main # Nobody /\ Flusher # Nobody /\ Main # Flusher
  BY WsForwarderAssumption DEF Conns, Nobody, Main, Flusher

\* Steps of processMessages that leave locks, sockets and pingers alone.
LEMMA PlainStep ==
  ASSUME LockInv,
         \/ DialError("start") \/ DialError("connect") \/ Check \/ TakeQuit \/ TakeMsg \/ Stop
         \/ Dial("start") \/ Dial("connect")
  PROVE  LockInv'
  <1> USE DEF LockInv
  <1>1. UNCHANGED <<n, conn, fbuf, connMutex, bufMu, sock, pg, pgBuf>>
    BY DEF DialError, Check, TakeQuit, TakeMsg, Stop, Dial, Goto, fieldVars, connVars, pingVars
  <1>2. TypeOK'
    <2>1. TypeOK' \/ Dial("start") \/ Dial("connect")
      BY Zenon DEF DialError, Check, TakeQuit, TakeMsg, Stop, Goto, fieldVars, connVars, pingVars,
             TypeOK, PCs
    <2>2. Dial("start") \/ Dial("connect") => TypeOK'
      BY WsForwarderAssumption DEF Dial, Goto, connVars, pingVars, TypeOK, PCs
    <2> QED
      BY <2>1, <2>2
  <1>3. MainInv'
    BY <1>1 DEF DialError, Check, TakeQuit, TakeMsg, Stop, Dial, Goto, MainInv, InLoop, TypeOK
  <1>4. SockInv' /\ PingInv'
    BY <1>1 DEF SockInv, PingInv
  <1>5. ExpireInv'
    BY <1>1, Zenon DEF DialError, Check, TakeQuit, TakeMsg, Stop, Dial, Goto, fieldVars, MainInv, ExpireInv
  <1> QED
    BY <1>2, <1>3, <1>4, <1>5

LEMMA HandshakeStep == ASSUME LockInv, Handshake PROVE LockInv'
  <1> USE DEF LockInv
  <1>1. n \in Nat /\ n + 1 \in Conns /\ conn = 0
    BY WsForwarderAssumption DEF Handshake, Goto, MainInv, TypeOK, Conns
  <1>2. TypeOK'
    <2>1. n' \in 0 .. MaxConns /\ fbuf' \in 0 .. MaxConns /\ conn' = n'
      BY <1>1, WsForwarderAssumption DEF Handshake, Conns
    <2>2. /\ sock' \in [Conns -> {"none", "open", "stalled", "broken", "closed"}]
          /\ rd' \in [Conns -> {"none", "reading", "done"}]
          /\ pg' \in [Conns -> {"none", "enter", "select", "mutex", "lock", "write", "done"}]
          /\ pgExp' \in [Conns -> 0 .. MaxConns]
      BY Zenon DEF Handshake, TypeOK
    <2>3. pc' \in PCs /\ UNCHANGED <<quit, fexp, expired, connMutex, bufMu, buf, timed, pgBuf, crash>>
      BY DEF Handshake, Goto, PCs
    <2> QED
      BY <2>1, <2>2, <2>3 DEF TypeOK
  <1>3. MainInv'
    BY <1>1 DEF Handshake, Goto, MainInv, InLoop
  <1>4. SockInv'
    <2> SUFFICES ASSUME NEW c \in Conns
                 PROVE  /\ c > n' => sock'[c] = "none" /\ pg'[c] = "none"
                        /\ c <= n' /\ c # conn' => sock'[c] = "closed"
      BY DEF SockInv
    <2>1. CASE c = n + 1
      BY <1>1, <2>1 DEF Handshake
    <2>2. CASE c # n + 1
      <3>1. sock'[c] = sock[c] /\ pg'[c] = pg[c] /\ n' = n + 1 /\ conn' = n + 1
        BY <2>2 DEF Handshake, TypeOK
      <3> QED
        BY <1>1, <2>2, <3>1, HoldersApart DEF SockInv, Nobody
    <2> QED
      BY <2>1, <2>2
  <1>5. PingInv'
    BY <1>1, HoldersApart DEF Handshake, PingInv, SockInv, TypeOK
  <1>6. ExpireInv'
    BY <1>1 DEF Handshake, Goto, ExpireInv, TypeOK
  <1> QED
    BY <1>2, <1>3, <1>4, <1>5, <1>6

LEMMA HandshakeErrorStep == ASSUME LockInv, HandshakeError PROVE LockInv'
  <1> USE DEF LockInv
  <1>1. TypeOK'
    BY WsForwarderAssumption DEF HandshakeError, Goto, connVars, TypeOK, PCs
  <1>2. MainInv' /\ SockInv' /\ PingInv'
    BY DEF HandshakeError, Goto, connVars, MainInv, InLoop, SockInv, PingInv
  <1>3. ExpireInv'
    BY DEF HandshakeError, Goto, MainInv, ExpireInv
  <1> QED
    BY <1>1, <1>2, <1>3

\* The bodies of process and close take connMutex, ...
LEMMA LockStep == ASSUME LockInv, Process \/ Close PROVE LockInv'
  <1> USE DEF LockInv
  <1>1. UNCHANGED <<n, conn, fbuf, bufMu, sock, pg, pgBuf>> /\ connMutex = Nobody
    BY DEF Process, Close, fieldVars, connVars, pingVars
  <1>2. TypeOK'
    BY DEF Process, Close, Goto, fieldVars, connVars, pingVars, TypeOK, PCs, Holders
  <1>3. MainInv'
    BY <1>1 DEF Process, Close, Goto, MainInv, InLoop
  <1>4. SockInv' /\ PingInv'
    BY <1>1, HoldersApart DEF SockInv, PingInv
  <1>5. ExpireInv'
    BY <1>1, Zenon DEF Process, Close, Goto, fieldVars, ExpireInv
  <1> QED
    BY <1>2, <1>3, <1>4, <1>5

\* ... set the deadline under it ...
LEMMA DeadlineStep == ASSUME LockInv, SetDeadline \/ ResetDeadline PROVE LockInv'
  <1> USE DEF LockInv
  <1>1. UNCHANGED <<n, conn, fbuf, connMutex, bufMu, sock, pg, pgBuf>>
    BY DEF SetDeadline, ResetDeadline, fieldVars, pingVars
  <1>2. TypeOK'
    BY Zenon DEF SetDeadline, ResetDeadline, Goto, fieldVars, pingVars, TypeOK, PCs
  <1>3. MainInv'
    BY <1>1 DEF SetDeadline, ResetDeadline, Goto, MainInv, InLoop
  <1>4. SockInv' /\ PingInv'
    BY <1>1 DEF SockInv, PingInv
  <1>5. ExpireInv'
    BY <1>1, Zenon DEF SetDeadline, ResetDeadline, Goto, fieldVars, ExpireInv
  <1> QED
    BY <1>2, <1>3, <1>4, <1>5

\* ... and give it back: no pinger holds it then.
LEMMA NoPinger ==
  ASSUME LockInv, pc \in {"set", "write", "deadline", "closing"}, NEW c \in Conns
  PROVE  pg[c] \notin {"lock", "write"}
  BY HoldersApart DEF LockInv, MainInv, PingInv

LEMMA WriteStep == ASSUME LockInv, NEW aged \in BOOLEAN, Write(aged) PROVE LockInv'
  <1> USE DEF LockInv
  <1>1. UNCHANGED <<n, conn, fbuf, bufMu, sock, pg, pgBuf>>
    BY DEF Write, pingVars
  <1>2. pc = "write" /\ pc' \in {"close", "loop"} /\ crash = "no"
    BY DEF Write, Goto
  <1>3. conn = n /\ n \in Conns /\ fexp = n /\ n \notin expired
    BY <1>2, WsForwarderAssumption DEF MainInv, InLoop, ExpireInv, TypeOK, Conns
  <1>4. /\ crash' = crash /\ fexp' = fexp
        /\ \/ expired' = expired
           \/ expired' = expired \cup {n} /\ pc' = "close"
    BY <1>3 DEF Write, Goto
  <1>5. buf' \in [Conns -> {"empty", "data", "error"}]
    BY <1>3 DEF Write, AfterWrite, TypeOK
  <1>6. TypeOK'
    BY <1>2, <1>3, <1>4, <1>5, Zenon DEF Write, pingVars, TypeOK, PCs, Holders
  <1>7. MainInv'
    BY <1>1, <1>2 DEF MainInv, InLoop
  <1>8. SockInv' /\ PingInv'
    BY <1>1, <1>2, NoPinger DEF SockInv, PingInv
  <1>9. ExpireInv'
    <2>1. n \in 1 .. n
      BY <1>3, WsForwarderAssumption DEF Conns
    <2> QED
      BY <1>1, <1>2, <1>3, <1>4, <2>1, Zenon DEF ExpireInv
  <1> QED
    BY <1>6, <1>7, <1>8, <1>9

LEMMA CloseConnStep == ASSUME LockInv, CloseConn PROVE LockInv'
  <1> USE DEF LockInv
  <1>1. UNCHANGED <<n, fbuf, bufMu, pg, pgBuf>> /\ conn' = 0 /\ pc = "closing" /\ pc' = "check"
    BY DEF CloseConn, Goto, fieldVars, pingVars
  <1>2. conn = n /\ n \in Conns
    BY <1>1, WsForwarderAssumption DEF MainInv, InLoop, TypeOK, Conns
  <1>3. buf' \in [Conns -> {"empty", "data", "error"}]
    BY <1>2 DEF CloseConn, TypeOK
  <1>4. TypeOK'
    BY <1>2, <1>3 DEF CloseConn, Goto, fieldVars, pingVars, TypeOK, PCs, Holders
  <1>5. MainInv'
    BY <1>1 DEF MainInv, InLoop
  <1>6. SockInv'
    BY <1>1, <1>2, HoldersApart DEF CloseConn, SockInv, TypeOK
  <1>7. PingInv'
    BY <1>1, NoPinger DEF PingInv
  <1>8. ExpireInv'
    BY <1>1 DEF CloseConn, fieldVars, ExpireInv
  <1> QED
    BY <1>4, <1>5, <1>6, <1>7, <1>8

\* A flushLoop takes a lock that is free and gives back its own.
LEMMA FlushStep == ASSUME LockInv, NEW c \in Conns, FlushTick(c) \/ FlushEnd(c) PROVE LockInv'
  <1> USE DEF LockInv
  <1>1. UNCHANGED <<mainVars, fieldVars, connMutex, timed, sock, rd, pingVars, crash>>
    BY DEF FlushTick, FlushEnd
  <1>2. /\ bufMu[c] \in {Nobody, Flusher}
        /\ \E h \in {bufMu[c], Nobody, Flusher} : bufMu' = [bufMu EXCEPT ![c] = h]
    BY DEF FlushTick, FlushEnd, TypeOK
  <1>3. TypeOK'
    BY <1>1 DEF FlushTick, FlushEnd, mainVars, fieldVars, pingVars, TypeOK, Holders
  <1>4. MainInv' /\ SockInv' /\ ExpireInv'
    BY <1>1 DEF mainVars, fieldVars, pingVars, MainInv, SockInv, ExpireInv
  <1>5. PingInv'
    BY <1>1, <1>2, HoldersApart DEF mainVars, pingVars, PingInv, TypeOK
  <1> QED
    BY <1>3, <1>4, <1>5

\* The reader and the network change a socket, and open none that is closed.
LEMMA SocketStep == ASSUME LockInv, NEW c \in Conns, ReaderEnd(c) \/ NetStep(c) PROVE LockInv'
  <1> USE DEF LockInv
  <1>1. UNCHANGED <<mainVars, fieldVars, connMutex, bufMu, buf, timed, pingVars, crash>>
    BY DEF ReaderEnd, NetStep
  <1>2. \/ sock' = [sock EXCEPT ![c] = "closed"] /\ sock[c] # "none"
        \/ sock[c] \in {"open", "stalled"} /\ \E s \in {"open", "stalled", "broken"} : sock' = [sock EXCEPT ![c] = s]
    BY DEF ReaderEnd, NetStep
  <1>3. TypeOK'
    BY <1>1, <1>2 DEF ReaderEnd, NetStep, mainVars, fieldVars, pingVars, TypeOK
  <1>4. MainInv' /\ PingInv' /\ ExpireInv'
    BY <1>1 DEF mainVars, fieldVars, pingVars, MainInv, PingInv, ExpireInv
  <1>5. SockInv'
    BY <1>1, <1>2 DEF mainVars, pingVars, SockInv, TypeOK
  <1> QED
    BY <1>3, <1>4, <1>5

\* What a pinger's step leaves alone.
LEMMA PingerFrame ==
  ASSUME LockInv, UNCHANGED <<mainVars, fieldVars>>, crash' \in {crash, "unlock"},
         connMutex' = connMutex \/ connMutex \in Conns \/ connMutex = Nobody
  PROVE  MainInv' /\ ExpireInv'
  <1>1. MainInv'
    BY HoldersApart DEF LockInv, mainVars, fieldVars, MainInv
  <1>2. ExpireInv'
    BY DEF LockInv, mainVars, fieldVars, ExpireInv
  <1> QED
    BY <1>1, <1>2

LEMMA PingerEndStep ==
  ASSUME LockInv, NEW c \in Conns, PingSelect(c) \/ PingerEnd(c) \/ PingTick(c)
  PROVE  LockInv'
  <1> USE DEF LockInv
  <1>1. /\ UNCHANGED <<mainVars, fieldVars, connMutex, bufMu, buf, timed, rd, pgBuf, crash>>
        /\ pg[c] \in {"enter", "select"}
        /\ \E s \in {"select", "mutex", "done"} : pg' = [pg EXCEPT ![c] = s]
        /\ sock' = sock \/ sock' = [sock EXCEPT ![c] = "closed"]
    BY DEF PingSelect, PingerEnd, PingTick, Ping, connVars
  <1>2. TypeOK'
    <2>1. 0 \in 0 .. MaxConns
      BY WsForwarderAssumption
    <2> QED
      BY <1>1, <2>1 DEF PingSelect, PingerEnd, PingTick, mainVars, fieldVars, TypeOK
  <1>3. MainInv' /\ ExpireInv'
    BY <1>1, PingerFrame
  <1>4. SockInv' /\ PingInv'
    BY <1>1 DEF mainVars, SockInv, PingInv, TypeOK
  <1> QED
    BY <1>2, <1>3, <1>4

\* A pinger that is between Lock and Unlock is the only one.
LEMMA OnePinger ==
  ASSUME LockInv, NEW c \in Conns, pg[c] \in {"lock", "write"}
  PROVE  /\ connMutex = c /\ c <= n /\ n \in Conns
         /\ \A d \in Conns \ {c} : pg[d] \notin {"lock", "write"}
  <1>1. connMutex = c
    BY DEF LockInv, PingInv
  <1>2. ~(c > n)
    BY DEF LockInv, SockInv
  <1> QED
    BY <1>1, <1>2, WsForwarderAssumption DEF LockInv, PingInv, TypeOK, Conns

\* connMutex is free: no other pinger is between Lock and Unlock.
LEMMA PingMutexStep == ASSUME LockInv, NEW c \in Conns, PingMutex(c) PROVE LockInv'
  <1> USE DEF LockInv
  <1>1. /\ UNCHANGED <<n, conn, sock, bufMu>> /\ connMutex = Nobody /\ connMutex' = c
        /\ pg[c] = "mutex" /\ pg' = [pg EXCEPT ![c] = "lock"]
        /\ pgBuf' = [pgBuf EXCEPT ![c] = n]
    BY DEF PingMutex, Ping, mainVars, connVars, MainInv
  <1>2. n \in Conns
    BY <1>1, WsForwarderAssumption DEF SockInv, TypeOK, Conns
  <1>3. TypeOK'
    BY DEF PingMutex, Ping, mainVars, fieldVars, connVars, TypeOK, Holders
  <1>4. MainInv' /\ ExpireInv'
    BY PingerFrame DEF PingMutex
  <1>5. SockInv' /\ PingInv'
    BY <1>1, <1>2, HoldersApart DEF SockInv, PingInv, TypeOK
  <1> QED
    BY <1>3, <1>4, <1>5

LEMMA PingLockStep == ASSUME LockInv, NEW c \in Conns, PingLock(c) PROVE LockInv'
  <1> USE DEF LockInv
  <1>1. UNCHANGED <<n, conn, sock, pgBuf, connMutex>> /\ pg[c] = "lock"
        /\ pg' = [pg EXCEPT ![c] = "write"] /\ bufMu' = [bufMu EXCEPT ![pgBuf[c]] = c]
    BY DEF PingLock, Ping, mainVars
  <1>2. TypeOK'
    BY Zenon DEF PingLock, Ping, mainVars, fieldVars, TypeOK, Holders
  <1>3. MainInv' /\ ExpireInv'
    BY PingerFrame DEF PingLock
  <1>4. SockInv' /\ PingInv'
    BY <1>1, OnePinger DEF SockInv, PingInv, TypeOK
  <1> QED
    BY <1>2, <1>3, <1>4

\* The deferred unlocks: the pinger gives back the locks it took.
LEMMA PingWriteStep == ASSUME LockInv, NEW c \in Conns, PingOK(c) \/ PingError(c) PROVE LockInv'
  <1> USE DEF LockInv
  <1>1. /\ UNCHANGED <<n, conn, fbuf, fexp>> /\ pg[c] = "write" /\ connMutex' = Nobody
        /\ \E s \in {"enter", "done"} : pg' = [pg EXCEPT ![c] = s]
        /\ pgBuf' = [pgBuf EXCEPT ![c] = 0] /\ bufMu' = [bufMu EXCEPT ![pgBuf[c]] = Nobody]
        /\ sock' = sock \/ sock' = [sock EXCEPT ![c] = "closed"]
    BY DEF PingOK, PingError, Ping, Unlock, mainVars, fieldVars
  <1>2. connMutex = c /\ c <= n
    BY <1>1, OnePinger
  <1>3. TypeOK'
    <2>1. 0 \in 0 .. MaxConns /\ Nobody \in Holders
      BY WsForwarderAssumption DEF Holders
    <2>2. pgExp' \in [Conns -> 0 .. MaxConns]
      BY <2>1 DEF PingOK, PingError, TypeOK
    <2>3. UNCHANGED <<mainVars, fieldVars, buf, timed, rd, crash>>
      BY DEF PingOK, PingError
    <2>4. /\ bufMu' \in [Conns -> Holders] /\ pgBuf' \in [Conns -> 0 .. MaxConns]
          /\ connMutex' \in Holders
      BY <1>1, <2>1, Zenon DEF TypeOK
    <2>5. /\ sock' \in [Conns -> {"none", "open", "stalled", "broken", "closed"}]
          /\ pg' \in [Conns -> {"none", "enter", "select", "mutex", "lock", "write", "done"}]
      BY <1>1 DEF TypeOK
    <2> QED
      BY <2>2, <2>3, <2>4, <2>5 DEF mainVars, fieldVars, TypeOK
  <1>4. MainInv' /\ ExpireInv'
    BY <1>2, PingerFrame DEF PingOK, PingError
  <1>5. SockInv'
    BY <1>1, <1>2 DEF SockInv, TypeOK
  <1>6. PingInv'
    BY <1>1, OnePinger DEF PingInv, TypeOK
  <1> QED
    BY <1>3, <1>4, <1>5, <1>6

LEMMA LockInvNext == LockInv /\ [Next]_vars => LockInv'
  <1> SUFFICES ASSUME LockInv, [Next]_vars PROVE LockInv'
    OBVIOUS
  <1>1. CASE UNCHANGED vars
    BY <1>1 DEF vars, mainVars, fieldVars, connVars, pingVars, LockInv, TypeOK, MainInv, SockInv,
                PingInv, ExpireInv
  <1>2. CASE MainStep \/ Dial("start") \/ Dial("connect") \/ Handshake \/ TakeMsg \/ Stop
    BY <1>2, PlainStep, HandshakeStep, HandshakeErrorStep, LockStep, DeadlineStep, WriteStep,
       CloseConnStep DEF MainStep
  <1>3. ASSUME NEW c \in Conns,
               FlushTick(c) \/ FlushEnd(c) \/ ReaderEnd(c) \/ PingTick(c) \/ Pinger(c) \/ NetStep(c)
        PROVE  LockInv'
    BY <1>3, FlushStep, SocketStep, PingerEndStep, PingMutexStep, PingLockStep,
       PingWriteStep DEF Pinger
  <1> QED
    BY <1>1, <1>2, <1>3 DEF Next

\* Where each goroutine is decides which mutex it holds, for any number of
\* connections and reconnections (wsforwarder.go:171-257).
THEOREM LockInvariant == Spec => []LockInv
  BY LockInvInit, LockInvNext, PTL DEF Spec

\* A ping is never written to an open websocket while its log messages are:
\* the pinger of a connection that is not given up locks that connection's own
\* bufferConn, though it takes it from a field that reconnecting changes
\* (wsforwarder.go:221-238, bufferconn.go:35-42, 87-89).
THEOREM FramesAreExclusive == Spec => []FramesExclusive
  <1>1. LockInv => FramesExclusive
    <2> SUFFICES ASSUME LockInv, NEW c \in Conns, pg[c] = "write", sock[c] # "closed"
                 PROVE  bufMu[c] = c
      BY DEF FramesExclusive
    <2>1. c <= n /\ c = conn
      BY OnePinger DEF LockInv, SockInv
    <2>2. c = n
      BY <2>1, HoldersApart DEF LockInv, TypeOK, Nobody
    <2> QED
      BY <2>2 DEF LockInv, PingInv
  <1> QED
    BY <1>1, LockInvariant, PTL

\* No expire channel is closed twice, which would end the program: a
\* connection that was too old once is not written to again, and the channel
\* in f.expireConnCh is then replaced before the next write
\* (wsforwarder.go:157, 240-257).
ClosedOnce == crash # "close"

\* Neither close(f.expireConnCh) nor any other close finds its channel closed
\* (wsforwarder.go:157, 240-257).
THEOREM ChannelsClosedOnce == Spec => []ClosedOnce
  <1>1. LockInv => ClosedOnce
    BY DEF LockInv, ExpireInv, ClosedOnce
  <1> QED
    BY <1>1, LockInvariant, PTL

-----------------------------------------------------------------------------
Record == [from : Nat, size : Nat, len : Nat, intact : BOOLEAN]

\* In the loop the message is longer than the limit, which is what protects
\* the trailer; and the content left starts where the last part ended.
SplitInv ==
  /\ SplitTypeOK
  /\ step = "loop" => limit > 0 /\ fullLen > limit
  /\ step = "begin" => parts = <<>>
  /\ parts = <<>> => rest = content
  /\ parts # <<>> => parts[Len(parts)].from + parts[Len(parts)].size = content - rest
  /\ step = "done" => rest = 0
  /\ \A k \in 1 .. Len(parts) :
       parts[k].from = IF k = 1 THEN 0 ELSE parts[k - 1].from + parts[k - 1].size
  /\ PartsFit
  /\ TrailersIntact

-----------------------------------------------------------------------------
\* The longest message is of some length.
LEMMA MaxMessageNat == MaxMessage \in Nat
  BY SMT DEF MaxMessage

\* A number has between one and nine digits ...
LEMMA DigitsRange == \A num \in Nat : Digits(num) \in 1 .. 9
  BY SMT DEF Digits

\* ... and a larger one no fewer.
LEMMA DigitsMonotone == \A m, num \in Nat : m <= num => Digits(m) <= Digits(num)
  BY SMT DEF Digits

\* A content cut into pieces of d bytes makes no more pieces than it has bytes.
LEMMA DivBound ==
  \A c \in Nat \ {0}, d \in Nat \ {0} :
    /\ c \div d \in Nat
    /\ c \div d + (IF c % d # 0 THEN 1 ELSE 0) <= c
  <1>1. \A c \in Nat, d \in Nat \ {0} : c \div d \in Nat
    BY SMT
  <1>2. \A c \in Nat, d \in Nat \ {0} : c \div d <= c
    BY SMT
  <1>3. \A c \in Nat, d \in Nat \ {0} : c % d # 0 => c \div d + 1 <= c
    BY SMT
  <1> QED
    BY <1>1, <1>2, <1>3

\* The part written in the loop takes what fits of what is left, is no longer
\* than the limit, and does not reach its own trailer.
LEMMA PartOK ==
  ASSUME SplitTypeOK, limit > 0, fullLen > limit, rest > 0, Room(i + 1) >= 0
  PROVE  LET part == Part(i + 1)
         IN  /\ part \in Record
             /\ part.from = content - rest
             /\ part.size <= rest
             /\ part.len <= limit
             /\ part.intact
  <1>1. /\ head \in Nat /\ content \in Nat /\ trailer \in Nat /\ limit \in Int
        /\ rest \in Nat /\ rest <= content /\ i \in Nat /\ nParts \in Nat
    BY MaxMessageNat DEF SplitTypeOK
  <1>2. MarkLen(i + 1, nParts) \in Nat
    BY <1>1, DigitsRange DEF MarkLen
  <1>3. /\ Room(i + 1) = limit - (head + trailer) - MarkLen(i + 1, nParts)
        /\ head + content + trailer > limit
    BY DEF Room, availableSz, fullLen
  <1> DEFINE size == Min2(Room(i + 1), rest)
  <1>4. size \in Nat /\ size <= rest /\ size <= Room(i + 1)
    BY <1>1, <1>2, <1>3 DEF Min2
  <1>5. TrailerIntact(i + 1)
    BY <1>1, <1>2, <1>3 DEF TrailerIntact, InPlace
  <1> DEFINE len == head + size + MarkLen(i + 1, nParts) + trailer
  <1>6. Part(i + 1) = [from |-> content - rest, size |-> size, len |-> len, intact |-> TRUE]
    BY <1>5, Zenon DEF Part, TrailerIntact
  <1>7. len \in Nat /\ len <= limit /\ content - rest \in Nat
    BY <1>1, <1>2, <1>3, <1>4
  <1> HIDE DEF size, len
  <1>8. Part(i + 1) \in Record
    <2>1. \A a, b, c \in Nat : [from |-> a, size |-> b, len |-> c, intact |-> TRUE] \in Record
      BY SMT DEF Record
    <2>2. content - rest \in Nat /\ size \in Nat /\ len \in Nat
      BY <1>4, <1>7
    <2> QED
      BY <1>6, <2>1, <2>2, Zenon
  <1>9. /\ Part(i + 1).from = content - rest /\ Part(i + 1).size = size
        /\ Part(i + 1).len = len /\ Part(i + 1).intact = TRUE
    BY <1>6
  <1> QED
    BY <1>4, <1>7, <1>8, <1>9, Zenon

\* Appending a part that starts where the last one ended keeps the parts
\* contiguous, within the limit and with their trailers.
LEMMA AppendOK ==
  ASSUME SplitInv, limit > 0, NEW part \in Record,
         part.from = content - rest, part.size <= rest, part.len <= limit, part.intact,
         parts' = Append(parts, part), rest' = rest - part.size, UNCHANGED message
  PROVE  /\ parts' \in Seq(Record) /\ rest' \in 0 .. content /\ parts' # <<>>
         /\ parts'[Len(parts')].from + parts'[Len(parts')].size = content' - rest'
         /\ \A k \in 1 .. Len(parts') :
              parts'[k].from = IF k = 1 THEN 0 ELSE parts'[k - 1].from + parts'[k - 1].size
         /\ PartsFit' /\ TrailersIntact'
  <1>1. /\ parts \in Seq(Record) /\ Len(parts) \in Nat
        /\ rest \in Nat /\ content \in Nat /\ rest <= content /\ limit \in Int
    BY MaxMessageNat, LenProperties DEF SplitInv, SplitTypeOK, Record
  <1>2. /\ parts' \in Seq(Record) /\ parts' # <<>> /\ Len(parts') = Len(parts) + 1
        /\ \A k \in 1 .. Len(parts) : parts'[k] = parts[k]
        /\ parts'[Len(parts) + 1] = part
    BY <1>1, AppendProperties
  <1>3. part.from \in Nat /\ part.size \in Nat /\ part.len \in Nat
    BY DEF Record
  <1>4. content' = content /\ limit' = limit
    BY DEF message
  <1>5. rest' \in 0 .. content
    <2> DEFINE z == part.size
    <2>1. z \in Nat /\ z <= rest /\ rest' = rest - z
      BY <1>3, Zenon
    <2> HIDE DEF z
    <2> QED
      BY ONLY <1>1, <2>1
  <1>6. parts'[Len(parts')].from + parts'[Len(parts')].size = content' - rest'
    <2>1. parts'[Len(parts')] = part
      BY <1>2, Zenon
    <2>2. part.from + part.size = content - (rest - part.size)
      BY <1>1, <1>3
    <2> QED
      BY <1>4, <2>1, <2>2, Zenon
  <1>7. ASSUME NEW k \in 1 .. Len(parts')
        PROVE  parts'[k].from = IF k = 1 THEN 0 ELSE parts'[k - 1].from + parts'[k - 1].size
    <2>1. CASE k \in 1 .. Len(parts)
      <3>1. parts[k].from = IF k = 1 THEN 0 ELSE parts[k - 1].from + parts[k - 1].size
        BY <2>1 DEF SplitInv
      <3>2. k # 1 => k - 1 \in 1 .. Len(parts)
        BY <1>1, <2>1
      <3> QED
        BY <1>2, <2>1, <3>1, <3>2, Zenon
    <2>2. CASE k = Len(parts) + 1 /\ parts = <<>>
      BY <1>1, <1>2, <2>2, EmptySeq DEF SplitInv
    <2>3. CASE k = Len(parts) + 1 /\ parts # <<>>
      <3>1. Len(parts) \in 1 .. Len(parts) /\ k # 1 /\ k - 1 = Len(parts)
        BY <1>1, <2>3, EmptySeq
      <3>2. parts'[k - 1] = parts[Len(parts)] /\ parts'[k] = part
        BY <1>2, <2>3, <3>1, Zenon
      <3>3. parts[Len(parts)].from + parts[Len(parts)].size = content - rest
        BY <2>3 DEF SplitInv
      <3> QED
        BY <3>1, <3>2, <3>3, Zenon
    <2> QED
      BY <1>1, <1>2, <2>1, <2>2, <2>3
  <1>8. ASSUME NEW k \in 1 .. Len(parts')
        PROVE  parts'[k].len <= limit /\ parts'[k].intact
    BY <1>1, <1>2, <1>8 DEF SplitInv, PartsFit, TrailersIntact
  <1> QED
    BY <1>2, <1>4, <1>5, <1>6, <1>7, <1>8 DEF PartsFit, TrailersIntact

-----------------------------------------------------------------------------
\* The invariant holds when splitParts is called.
LEMMA SplitInvInit == SplitInit => SplitInv
  <1> SUFFICES ASSUME SplitInit PROVE SplitInv
    OBVIOUS
  <1>1. <<>> \in Seq(Record) /\ Len(<<>>) = 0
    BY EmptySeq
  <1>2. SplitTypeOK
    BY <1>1, MaxMessageNat, SplitPartsAssumption DEF SplitInit, SplitTypeOK, Record
  <1> QED
    BY <1>1, <1>2 DEF SplitInit, SplitInv, PartsFit, TrailersIntact

\* Every step preserves it.
LEMMA SplitInvNext == SplitInv /\ [SplitNext]_splitVars => SplitInv'
  <1> SUFFICES ASSUME SplitInv, [SplitNext]_splitVars PROVE SplitInv'
    OBVIOUS
  <1>1. /\ SplitTypeOK /\ Len(parts) \in Nat
        /\ head \in Nat /\ trailer \in Nat /\ content \in Nat \ {0} /\ limit \in Int
        /\ rest \in Nat /\ i \in Nat /\ nParts \in Nat
    BY MaxMessageNat, LenProperties DEF SplitInv, SplitTypeOK
  <1>2. CASE Whole
    <2>1. CASE step' = "failed" /\ UNCHANGED <<rest, parts>>
      BY <1>2, <2>1 DEF Whole, message, SplitInv, SplitTypeOK, PartsFit, TrailersIntact
    <2>2. CASE /\ step' = "done" /\ rest' = 0
               /\ parts' = <<[from |-> 0, size |-> content, len |-> fullLen, intact |-> TRUE]>>
      <3> DEFINE part == [from |-> 0, size |-> content, len |-> fullLen, intact |-> TRUE]
      <3>1. fullLen \in Nat
        BY <1>1 DEF fullLen
      <3>2. /\ part \in Record /\ part.from = 0 /\ part.size = content /\ part.len = fullLen /\ part.intact
        <4>1. \A a, b, c \in Nat :
                [from |-> a, size |-> b, len |-> c, intact |-> TRUE] \in Record
          BY SMT DEF Record
        <4> QED
          BY <1>1, <3>1, <4>1
      <3>3. parts' = <<part>>
        BY <2>2
      <3> HIDE DEF part
      <3>4. /\ parts' \in Seq(Record) /\ Len(parts') = 1 /\ parts'[1] = part
            /\ parts' # <<>>
        BY <3>2, <3>3
      <3>5. PartsFit' /\ TrailersIntact'
        BY <1>1, <1>2, <3>2, <3>4 DEF Whole, message, PartsFit, TrailersIntact
      <3>6. SplitTypeOK'
        BY <1>1, <1>2, <2>2, <3>4 DEF Whole, message, SplitTypeOK, Record
      <3> QED
        BY <1>1, <1>2, <2>2, <3>2, <3>4, <3>5, <3>6 DEF Whole, message, SplitInv
    <2> QED
      BY <1>2, <2>1, <2>2 DEF Whole
  <1>3. CASE Count
    <2>1. nParts' \in Nat
      <3>1. CASE availableSz > 6
        <4>1. availableSz - 6 \in Nat \ {0}
          BY <1>1, <3>1 DEF availableSz
        <4>2. content \div (availableSz - 6) \in Nat
          BY <1>1, <4>1, DivBound, Zenon
        <4> QED
          BY <1>3, <3>1, <4>2 DEF Count
      <3>2. CASE ~(availableSz > 6)
        BY <1>1, <1>3, <3>2 DEF Count
      <3> QED
        BY <3>1, <3>2
    <2>2. /\ step' \in {"loop", "panic"} /\ UNCHANGED <<message, i, rest, parts>>
          /\ limit > 0 /\ fullLen > limit
      BY <1>3 DEF Count
    <2> QED
      BY <2>1, <2>2 DEF message, fullLen, SplitInv, SplitTypeOK, PartsFit, TrailersIntact
  <1>4. CASE WritePart
    <2>1. CASE step' = "failed" /\ UNCHANGED <<rest, parts>>
      BY <1>1, <1>4, <2>1 DEF WritePart, message, SplitInv, SplitTypeOK, PartsFit, TrailersIntact
    <2>2. CASE /\ parts' = Append(parts, Part(i + 1))
               /\ rest' = rest - Part(i + 1).size /\ UNCHANGED step
      <3>1. /\ step = "loop" /\ rest > 0 /\ Room(i + 1) >= 0 /\ limit > 0 /\ fullLen > limit
            /\ i' = i + 1 /\ UNCHANGED <<message, nParts>>
        BY <1>4 DEF WritePart, SplitInv
      <3> DEFINE part == Part(i + 1)
      <3>2. /\ part \in Record /\ part.from = content - rest /\ part.size <= rest
            /\ part.len <= limit /\ part.intact
        BY <1>1, <3>1, PartOK
      <3> HIDE DEF part
      <3>3. parts' = Append(parts, part) /\ rest' = rest - part.size
        BY <2>2 DEF part
      <3>4. /\ parts' \in Seq(Record) /\ rest' \in 0 .. content /\ parts' # <<>>
            /\ parts'[Len(parts')].from + parts'[Len(parts')].size = content' - rest'
            /\ \A k \in 1 .. Len(parts') :
                 parts'[k].from = IF k = 1 THEN 0 ELSE parts'[k - 1].from + parts'[k - 1].size
            /\ PartsFit' /\ TrailersIntact'
        BY <3>1, <3>2, <3>3, AppendOK
      <3>5. SplitTypeOK'
        BY <1>1, <2>2, <3>1, <3>4 DEF SplitTypeOK, Record, message
      <3>6. step' = "loop" /\ limit' > 0 /\ fullLen' > limit'
        BY <2>2, <3>1 DEF message, fullLen
      <3> QED
        BY <3>4, <3>5, <3>6 DEF SplitInv
    <2> QED
      BY <1>4, <2>1, <2>2 DEF WritePart
  <1>5. CASE SlicePanic
    BY <1>1, <1>5 DEF SlicePanic, message, SplitInv, SplitTypeOK, PartsFit, TrailersIntact
  <1>6. CASE Return
    BY <1>6 DEF Return, message, SplitInv, SplitTypeOK, PartsFit, TrailersIntact
  <1>7. CASE UNCHANGED splitVars
    BY <1>7 DEF splitVars, fullLen, SplitInv, SplitTypeOK, PartsFit, TrailersIntact
  <1> QED
    BY <1>2, <1>3, <1>4, <1>5, <1>6, <1>7 DEF SplitNext

\* The inductive invariant, for every message and limit (syslogforwarder.go:178-220).
THEOREM SplitInvariance == SplitSpec => []SplitInv
  BY SplitInvInit, SplitInvNext, PTL DEF SplitSpec

\* No part is longer than the limit.
THEOREM AllPartsFit == SplitSpec => []PartsFit
  <1>1. SplitInv => PartsFit
    BY DEF SplitInv
  <1> QED
    BY <1>1, SplitInvariance, PTL

\* The mark of the part built over the message never reaches the trailer it
\* is about to copy: the message is longer than the limit, the part is not,
\* so the room the mark takes was freed by the content already sent.
THEOREM AllTrailersIntact == SplitSpec => []TrailersIntact
  <1>1. SplitInv => TrailersIntact
    BY DEF SplitInv
  <1> QED
    BY <1>1, SplitInvariance, PTL

\* The parts carry the content once, from its first byte to its last.
THEOREM PartsContiguous == SplitSpec => []Contiguous
  <1>1. SplitInv => Contiguous
    <2> SUFFICES ASSUME SplitInv PROVE Contiguous
      OBVIOUS
    <2>1. content \in Nat \ {0} /\ rest \in Nat
      BY MaxMessageNat DEF SplitInv, SplitTypeOK
    <2>2. step = "done" => parts # <<>>
      BY <2>1 DEF SplitInv
    <2> QED
      BY <2>1, <2>2 DEF SplitInv, Contiguous
  <1> QED
    BY <1>1, SplitInvariance, PTL

-----------------------------------------------------------------------------
\* With room for a byte beside the longest mark, every part takes at least
\* one byte, so parts are never more numerous than bytes and no mark outgrows
\* the room that was allowed for.
RoomyInv ==
  /\ RoomyNeverPanics
  /\ step = "begin" => i = 0
  /\ Roomy /\ step = "loop" => nParts <= content /\ i <= content - rest

\* The room of a part of a roomy message is at least one byte.
LEMMA RoomyRoom ==
  ASSUME SplitTypeOK, Roomy, NEW k \in Nat, k <= content, nParts <= content
  PROVE  Room(k) >= 1
  <1>1. content \in Nat /\ nParts \in Nat /\ head \in Nat /\ trailer \in Nat /\ limit \in Int
    BY MaxMessageNat DEF SplitTypeOK
  <1>2. Digits(k) <= Digits(content) /\ Digits(nParts) <= Digits(content)
    BY <1>1, DigitsMonotone
  <1>3. Digits(k) \in Int /\ Digits(nParts) \in Int /\ Digits(content) \in Int
    BY <1>1, DigitsRange
  <1> QED
    BY <1>1, <1>2, <1>3 DEF Roomy, Room, MarkLen, availableSz

\* Every step preserves RoomyInv.
LEMMA RoomyNext == SplitInv /\ RoomyInv /\ [SplitNext]_splitVars => RoomyInv'
  <1> SUFFICES ASSUME SplitInv, RoomyInv, [SplitNext]_splitVars PROVE RoomyInv'
    OBVIOUS
  <1>1. /\ SplitTypeOK /\ head \in Nat /\ trailer \in Nat /\ content \in Nat \ {0} /\ limit \in Int
        /\ rest \in Nat /\ rest <= content /\ i \in Nat /\ nParts \in Nat
    BY MaxMessageNat DEF SplitInv, SplitTypeOK
  <1>2. UNCHANGED message /\ Roomy' = Roomy
    BY DEF SplitNext, Whole, Count, WritePart, SlicePanic, Return, splitVars, message,
           Roomy, availableSz
  <1>3. CASE Whole
    BY <1>2, <1>3 DEF Whole, RoomyInv, RoomyNeverPanics
  <1>4. CASE Count
    <2>1. ASSUME Roomy PROVE step' = "loop" /\ nParts' <= content
      <3>1. availableSz > 6 /\ availableSz \in Int
        BY <1>1, <2>1, DigitsRange DEF Roomy, MarkLen, availableSz
      <3>2. availableSz - 6 \in Nat \ {0}
        BY <3>1
      <3>3. content \div (availableSz - 6)
              + (IF content % (availableSz - 6) # 0 THEN 1 ELSE 0) <= content
        BY <1>1, <3>2, DivBound, Zenon
      <3> QED
        BY <1>4, <3>1, <3>3, Zenon DEF Count
    <2>2. i' = 0 /\ rest' = rest /\ content' = content /\ step' \in {"loop", "panic"}
      BY <1>4 DEF Count, RoomyInv, message
    <2> QED
      BY <1>1, <1>2, <2>1, <2>2 DEF RoomyInv, RoomyNeverPanics
  <1>5. CASE WritePart
    <2>1. step' = "failed" \/ (step' = step /\ rest' = rest - Part(i + 1).size)
      BY <1>5 DEF WritePart
    <2>2. /\ step = "loop" /\ rest > 0 /\ i' = i + 1 /\ content' = content /\ nParts' = nParts
      BY <1>5 DEF WritePart, message
    <2>3. ASSUME Roomy, rest' = rest - Part(i + 1).size PROVE i' <= content' - rest'
      <3>1. i + 1 \in Nat /\ i + 1 <= content /\ nParts <= content
        BY <1>1, <2>2, <2>3 DEF RoomyInv
      <3>2. Room(i + 1) >= 1 /\ Room(i + 1) \in Int
        <4>1. Room(i + 1) >= 1
          BY <1>1, <2>3, <3>1, RoomyRoom
        <4>2. Room(i + 1) \in Int
          BY <1>1, <3>1, DigitsRange DEF Room, availableSz, MarkLen
        <4> QED
          BY <4>1, <4>2
      <3>3. Part(i + 1).size = Min2(Room(i + 1), rest)
        BY DEF Part
      <3>4. Part(i + 1).size >= 1 /\ Part(i + 1).size \in Int
        BY <1>1, <2>2, <3>2, <3>3 DEF Min2
      <3> QED
        BY <1>1, <2>2, <2>3, <3>4 DEF RoomyInv
    <2> QED
      BY <1>2, <2>1, <2>2, <2>3 DEF RoomyInv, RoomyNeverPanics
  <1>6. CASE SlicePanic
    <2>1. ASSUME Roomy PROVE FALSE
      <3>1. i + 1 \in Nat /\ i + 1 <= content /\ nParts <= content
        BY <1>1, <1>6, <2>1 DEF SlicePanic, RoomyInv
      <3>2. Room(i + 1) >= 1
        BY <1>1, <2>1, <3>1, RoomyRoom
      <3>3. Room(i + 1) \in Int
        BY <1>1, <3>1, DigitsRange DEF Room, availableSz, MarkLen
      <3> QED
        BY <1>6, <3>2, <3>3 DEF SlicePanic
    <2> QED
      BY <1>2, <1>6, <2>1 DEF SlicePanic, RoomyInv, RoomyNeverPanics
  <1>7. CASE Return
    BY <1>2, <1>7 DEF Return, RoomyInv, RoomyNeverPanics
  <1>8. CASE UNCHANGED splitVars
    BY <1>2, <1>8 DEF splitVars, RoomyInv, RoomyNeverPanics
  <1> QED
    BY <1>3, <1>4, <1>5, <1>6, <1>7, <1>8 DEF SplitNext

\* A message whose header and trailer leave room for a byte beside the longest
\* mark a message of its length can need is sent without a panic.
THEOREM NoPanicWithRoom == SplitSpec => []RoomyNeverPanics
  <1>1. SplitInit => RoomyInv
    BY DEF SplitInit, RoomyInv, RoomyNeverPanics
  <1>2. RoomyInv => RoomyNeverPanics
    BY DEF RoomyInv
  <1> QED
    BY <1>1, <1>2, RoomyNext, SplitInvariance, PTL DEF SplitSpec

-----------------------------------------------------------------------------
\* Up to nine parts every mark has the six bytes Count allows for, so each part
\* but the last takes the same number of bytes and Count's quotient is right.
FewSize == availableSz - 6

FewInv ==
  /\ step = "begin" => i = 0 /\ nParts = 0
  /\ nParts \in 1 .. 9 =>
       /\ \A k \in 1 .. Len(parts) : parts[k].size > 0
       /\ step \in {"loop", "done"} =>
            /\ FewSize > 0 /\ i = Len(parts) /\ i <= nParts
            /\ (nParts - 1) * FewSize < content /\ content <= nParts * FewSize
            /\ rest = IF content <= i * FewSize THEN 0 ELSE content - i * FewSize

\* A multiple grows by the factor, and with it.
LEMMA Multiples ==
  ASSUME NEW a \in Nat, NEW b \in Nat, NEW d \in Nat
  PROVE  /\ a * d \in Nat
         /\ (a + 1) * d = a * d + d
         /\ b <= a => b * d <= a * d
  BY SMT

\* The quotient Count rounds up is the least number of pieces that is enough.
LEMMA CeilBounds ==
  ASSUME NEW c \in Nat \ {0}, NEW d \in Nat \ {0}, NEW num,
         num = c \div d + (IF c % d # 0 THEN 1 ELSE 0)
  PROVE  num \in Nat \ {0} /\ (num - 1) * d < c /\ c <= num * d
  <1> DEFINE q == c \div d
             m == c % d
  <1>1. q \in Nat /\ m \in 0 .. d - 1 /\ c = q * d + m
    BY SMT
  <1>2. num = q + (IF m # 0 THEN 1 ELSE 0)
    OBVIOUS
  <1> HIDE DEF q, m
  <1>3. q * d \in Nat /\ (q + 1) * d = q * d + d
    BY <1>1, Multiples
  <1>4. CASE m = 0
    <2>1. num = q /\ q * d = c
      BY <1>1, <1>2, <1>3, <1>4
    <2>2. q # 0
      BY <1>1, <2>1
    <2>3. q - 1 \in Nat /\ (q - 1) + 1 = q
      BY <1>1, <2>2
    <2>4. q * d = (q - 1) * d + d /\ (q - 1) * d \in Nat
      BY <2>3, Multiples, Zenon
    <2> QED
      BY <1>1, <2>1, <2>2, <2>4
  <1>5. CASE m # 0
    <2>1. num = q + 1 /\ num - 1 = q
      BY <1>1, <1>2, <1>5
    <2> QED
      BY <1>1, <1>3, <1>5, <2>1
  <1> QED
    BY <1>4, <1>5

\* A turn of the loop with few parts takes the common size, or what is left.
LEMMA FewTurn ==
  ASSUME SplitInv, FewInv, nParts \in 1 .. 9, step = "loop", rest > 0
  PROVE  /\ i + 1 <= nParts
         /\ Part(i + 1).size = Min2(FewSize, rest)
         /\ rest = content - i * FewSize
         /\ (i + 1) * FewSize = i * FewSize + FewSize
         /\ i * FewSize \in Nat
  <1>1. /\ i \in Nat /\ content \in Nat /\ rest \in Nat /\ nParts \in Nat
        /\ head \in Nat /\ trailer \in Nat /\ limit \in Int
    BY MaxMessageNat DEF SplitInv, SplitTypeOK
  <1>2. /\ FewSize > 0 /\ i <= nParts /\ content <= nParts * FewSize
        /\ rest = IF content <= i * FewSize THEN 0 ELSE content - i * FewSize
    BY DEF FewInv
  <1>3. FewSize \in Nat
    BY <1>1, <1>2 DEF FewSize, availableSz
  <1>4. /\ i * FewSize \in Nat /\ nParts * FewSize \in Nat
        /\ (i + 1) * FewSize = i * FewSize + FewSize
        /\ nParts <= i => nParts * FewSize <= i * FewSize
    BY <1>1, <1>3, Multiples
  <1> DEFINE x == i * FewSize
             y == nParts * FewSize
  <1>5. x \in Nat /\ (nParts <= i => y <= x) /\ content <= y /\ y \in Nat
        /\ rest = IF content <= x THEN 0 ELSE content - x
    BY <1>2, <1>4, Zenon
  <1> HIDE DEF x, y
  <1>6. i + 1 <= nParts /\ rest = content - x
    BY <1>1, <1>5
  <1>7. Digits(i + 1) = 1 /\ Digits(nParts) = 1
    BY <1>1, <1>6 DEF Digits
  <1>8. Room(i + 1) = FewSize
    BY <1>1, <1>7 DEF Room, MarkLen, FewSize, availableSz
  <1>9. Part(i + 1).size = Min2(FewSize, rest)
    BY <1>8 DEF Part
  <1> QED
    BY <1>4, <1>6, <1>9, Zenon DEF x

\* Every step preserves FewInv.
LEMMA FewNext == SplitInv /\ FewInv /\ [SplitNext]_splitVars => FewInv'
  <1> SUFFICES ASSUME SplitInv, FewInv, [SplitNext]_splitVars PROVE FewInv'
    OBVIOUS
  <1>1. /\ SplitTypeOK /\ head \in Nat /\ trailer \in Nat /\ content \in Nat \ {0} /\ limit \in Int
        /\ rest \in Nat /\ rest <= content /\ i \in Nat /\ nParts \in Nat
        /\ parts \in Seq(Record) /\ Len(parts) \in Nat
    BY MaxMessageNat, LenProperties DEF SplitInv, SplitTypeOK, Record
  <1>2. UNCHANGED message /\ FewSize' = FewSize /\ content' = content
    BY DEF SplitNext, Whole, Count, WritePart, SlicePanic, Return, splitVars, message,
           FewSize, availableSz
  <1>3. CASE Whole
    <2>1. nParts' = 0 /\ step' # "begin"
      BY <1>3 DEF Whole, FewInv
    <2> QED
      BY <2>1 DEF FewInv
  <1>4. CASE Count
    <2>1. parts' = <<>> /\ i' = 0 /\ rest' = content /\ nParts = 0 /\ step' \in {"loop", "panic"} /\ Len(parts') = 0
      BY <1>1, <1>4, EmptySeq DEF Count, SplitInv, FewInv
    <2>2. CASE step' = "loop"
      <3>1. /\ FewSize > 0 /\ FewSize \in Nat \ {0}
            /\ nParts' = content \div FewSize + (IF content % FewSize # 0 THEN 1 ELSE 0)
        BY <1>1, <1>4, <2>2 DEF Count, FewSize, availableSz
      <3>2. (nParts' - 1) * FewSize < content /\ content <= nParts' * FewSize /\ nParts' \in Nat
        BY <1>1, <3>1, CeilBounds, Zenon
      <3>3. 0 * FewSize = 0
        BY <3>1
      <3>4. rest' = IF content <= i' * FewSize THEN 0 ELSE content - i' * FewSize
        BY <1>1, <2>1, <3>3
      <3> QED
        BY <1>2, <2>1, <2>2, <3>1, <3>2, <3>4 DEF FewInv
    <2>3. CASE step' = "panic"
      <3>1. nParts' = 0
        BY <1>4, <2>1, <2>3 DEF Count
      <3> QED
        BY <2>3, <3>1 DEF FewInv
    <2> QED
      BY <2>1, <2>2, <2>3
  <1>5. CASE WritePart
    <2>1. step = "loop" /\ rest > 0 /\ i' = i + 1 /\ nParts' = nParts
      BY <1>5 DEF WritePart
    <2>2. CASE step' = "failed" /\ UNCHANGED <<rest, parts>>
      BY <2>1, <2>2 DEF FewInv
    <2>3. CASE /\ parts' = Append(parts, Part(i + 1))
               /\ rest' = rest - Part(i + 1).size /\ UNCHANGED step
      <3> SUFFICES ASSUME nParts \in 1 .. 9
                   PROVE  /\ \A k \in 1 .. Len(parts') : parts'[k].size > 0
                          /\ i' = Len(parts') /\ i' <= nParts
                          /\ rest' = IF content <= i' * FewSize THEN 0 ELSE content - i' * FewSize
        BY <1>2, <2>1, <2>3 DEF FewInv
      <3> DEFINE part == Part(i + 1)
                 x == i * FewSize
      <3>1. /\ i + 1 <= nParts /\ part.size = Min2(FewSize, rest) /\ rest = content - x
            /\ (i + 1) * FewSize = x + FewSize /\ x \in Nat
        BY <2>1, FewTurn
      <3>2. part \in Record
        BY <1>1, <1>5, PartOK DEF WritePart, SplitInv
      <3> HIDE DEF part, x
      <3>3. /\ Len(parts') = Len(parts) + 1
            /\ \A k \in 1 .. Len(parts) : parts'[k] = parts[k]
            /\ parts'[Len(parts) + 1] = part
        BY <1>1, <2>3, <3>2, AppendProperties DEF part
      <3>4. FewSize > 0 /\ FewSize \in Int /\ i = Len(parts) /\ \A k \in 1 .. Len(parts) : parts[k].size > 0
        BY <1>1, <2>1 DEF FewInv, FewSize, availableSz
      <3>5. part.size > 0 /\ rest' = IF content <= x + FewSize THEN 0 ELSE content - (x + FewSize)
        <4>1. rest' = rest - part.size
          BY <2>3 DEF part
        <4> QED
          BY <1>1, <2>1, <3>1, <3>4, <4>1 DEF Min2
      <3>6. \A k \in 1 .. Len(parts') : parts'[k].size > 0
        BY <1>1, <3>3, <3>4, <3>5
      <3>7. i' * FewSize = x + FewSize
        BY <2>1, <3>1, Zenon
      <3>8. i' = Len(parts') /\ i' <= nParts
        BY <2>1, <3>1, <3>3, <3>4
      <3> QED
        BY <3>5, <3>6, <3>7, <3>8, Zenon
    <2> QED
      BY <1>5, <2>2, <2>3 DEF WritePart
  <1>6. CASE SlicePanic
    BY <1>6 DEF SlicePanic, FewInv
  <1>7. CASE Return
    <2>1. step = "loop" /\ step' = "done" /\ UNCHANGED <<i, nParts, rest, parts>>
      BY <1>7, Zenon DEF Return
    <2> QED
      BY <1>2, <2>1, Zenon DEF FewInv
  <1>8. CASE UNCHANGED splitVars
    <2>1. UNCHANGED <<step, i, nParts, rest, parts>>
      BY <1>8, Zenon DEF splitVars
    <2> QED
      BY <1>2, <2>1, Zenon DEF FewInv
  <1> QED
    BY <1>3, <1>4, <1>5, <1>6, <1>7, <1>8 DEF SplitNext

\* Up to nine parts the number announced in the marks is the number of parts
\* sent, and none of them is empty (syslogforwarder.go:191-200).
THEOREM FewPartsAnnounced == SplitSpec => []FewPartsCounted
  <1>1. SplitInit => FewInv
    BY DEF SplitInit, FewInv
  <1>2. SplitInv /\ FewInv => FewPartsCounted
    <2> SUFFICES ASSUME SplitInv, FewInv, nParts \in 1 .. 9, step = "done" PROVE Len(parts) = nParts
      BY DEF FewPartsCounted, FewInv
    <2>1. content \in Nat \ {0} /\ i \in Nat /\ nParts \in Nat /\ head \in Nat /\ trailer \in Nat /\ limit \in Int /\ rest = 0
      BY MaxMessageNat DEF SplitInv, SplitTypeOK
    <2>2. /\ FewSize > 0 /\ i = Len(parts) /\ i <= nParts
          /\ (nParts - 1) * FewSize < content
          /\ rest = IF content <= i * FewSize THEN 0 ELSE content - i * FewSize
      BY DEF FewInv
    <2>3. FewSize \in Nat /\ nParts - 1 \in Nat
      BY <2>1, <2>2 DEF FewSize, availableSz
    <2> DEFINE x == i * FewSize
               y == (nParts - 1) * FewSize
    <2>4. x \in Nat /\ y \in Nat /\ (i <= nParts - 1 => x <= y)
      BY <2>1, <2>3, Multiples
    <2>5. y < content /\ rest = IF content <= x THEN 0 ELSE content - x
      BY <2>2, Zenon
    <2> HIDE DEF x, y
    <2> QED
      BY <2>1, <2>2, <2>4, <2>5
  <1> QED
    BY <1>1, <1>2, FewNext, SplitInvariance, PTL DEF SplitSpec

-----------------------------------------------------------------------------
\* A set of numbers has a least one ...
LEMMA Least ==
  ASSUME NEW T \in SUBSET Nat, T # {}
  PROVE  \E num \in T : \A m \in T : num <= m
  <1>1. IsWellFoundedOn(OpToRel(<, Nat), Nat)
    BY NatLessThanWellFounded, Zenon
  <1>2. PICK num \in T : \A m \in T : ~(<<m, num>> \in OpToRel(<, Nat))
    BY <1>1, WFMin, Zenon
  <1>3. \A m \in T : ~(m < num)
    BY <1>2, Zenon DEF OpToRel
  <1> QED
    BY <1>3

\* ... which is what Min gives ...
LEMMA MinIs ==
  ASSUME NEW T \in SUBSET Nat, T # {}
  PROVE  Min(T) \in T /\ \A m \in T : Min(T) <= m
  BY Least, Zenon DEF Min

\* ... and no other.
LEMMA MinOf ==
  ASSUME NEW T \in SUBSET Nat, NEW num \in T
  PROVE  num = Min(T) <=> \A m \in T : num <= m
  <1>1. Min(T) \in T /\ \A m \in T : Min(T) <= m
    BY MinIs
  <1>2. Min(T) \in Nat /\ num \in Nat
    BY <1>1, Zenon
  <1>3. num <= Min(T) /\ Min(T) <= num => num = Min(T)
    BY <1>2
  <1> QED
    BY <1>1, <1>3, Zenon

\* A sequence of one piece.
LEMMA Single ==
  ASSUME NEW x \in Pieces
  PROVE  <<x>> \in Seq(Pieces) /\ Len(<<x>>) = 1 /\ <<x>> # <<>> /\ <<x>>[1] = x
  OBVIOUS

\* A part of a sequence, piece by piece.
LEMMA PartOf ==
  ASSUME NEW s \in Seq(Pieces), NEW at \in 1 .. (Len(s) + 1), NEW j \in (at - 1) .. Len(s)
  PROVE  /\ SubSeq(s, at, j) \in Seq(Pieces) /\ Len(SubSeq(s, at, j)) = j - at + 1
         /\ \A k \in 1 .. (j - at + 1) : SubSeq(s, at, j)[k] = s[at + k - 1]
  <1>1. \A k \in at .. j : s[k] \in Pieces
    BY ElementOfSeq
  <1>2. at \in Int /\ j \in Int
    OBVIOUS
  <1> QED
    BY <1>1, <1>2, SubSeqProperties

\* A pattern occurs at at if its pieces are those of s from at on.
LEMMA OccursAt ==
  ASSUME NEW s \in Seq(Pieces), NEW q \in Seq(Pieces), q # <<>>
  PROVE  /\ Occurrences(s, q) \subseteq Nat
         /\ \A at : at \in Occurrences(s, q) <=>
              /\ at \in 1 .. Len(s) /\ at + Len(q) - 1 <= Len(s)
              /\ \A k \in 1 .. Len(q) : s[at + k - 1] = q[k]
  <1> DEFINE num == Len(q)
             len == Len(s)
  <1>1. num \in Nat /\ num > 0 /\ len \in Nat
    BY EmptySeq
  <1>2. ASSUME NEW at \in 1 .. (len + 1 - num)
        PROVE  SubSeq(s, at, at + num - 1) = q <=> \A k \in 1 .. num : s[at + k - 1] = q[k]
    <2>1. at \in 1 .. (len + 1) /\ at + num - 1 \in (at - 1) .. len /\ at + num - 1 - at + 1 = num
      BY <1>1
    <2>2. /\ SubSeq(s, at, at + num - 1) \in Seq(Pieces) /\ Len(SubSeq(s, at, at + num - 1)) = num
          /\ \A k \in 1 .. num : SubSeq(s, at, at + num - 1)[k] = s[at + k - 1]
      BY <2>1, PartOf
    <2> QED
      BY <2>2, SeqEqual
  <1> HIDE DEF num, len
  <1>3. \A at : at \in Occurrences(s, q) <=>
              /\ at \in 1 .. (len + 1 - num)
              /\ \A k \in 1 .. num : s[at + k - 1] = q[k]
    BY <1>2, Zenon DEF Occurrences, num, len
  <1>4. \A at : at \in 1 .. (len + 1 - num) <=> at \in 1 .. len /\ at + num - 1 <= len
    BY <1>1
  <1> QED
    BY <1>1, <1>3, <1>4 DEF num, len

\* The first blank ends a word.
LEMMA WordIs ==
  ASSUME NEW s \in Seq(Pieces)
  PROVE  \E num \in 0 .. Len(s) :
           /\ Word(s) = SubSeq(s, 1, num)
           /\ \A k \in 1 .. num : s[k] # Blank
           /\ num = Len(s) \/ s[num + 1] = Blank
  <1> DEFINE B == Occurrences(s, <<Blank>>)
  <1>1. /\ <<Blank>> \in Seq(Pieces) /\ <<Blank>> # <<>> /\ Len(<<Blank>>) = 1 /\ <<Blank>>[1] = Blank
        /\ Len(s) \in Nat
    BY Single, GelfFieldsAssumption
  <1>2. B \subseteq Nat /\ \A at : at \in B <=> at \in 1 .. Len(s) /\ s[at] = Blank
    <2>1. B \subseteq Nat /\ \A at : at \in B <=>
              /\ at \in 1 .. Len(s) /\ at + Len(<<Blank>>) - 1 <= Len(s)
              /\ \A k \in 1 .. Len(<<Blank>>) : s[at + k - 1] = <<Blank>>[k]
      BY <1>1, OccursAt, Zenon
    <2> QED
      BY <1>1, <2>1
  <1> HIDE DEF B
  <1>3. CASE B = {}
    <2>1. Word(s) = s
      BY <1>3 DEF Word, Index, B
    <2>2. SubSeq(s, 1, Len(s)) = s
      BY SubSeqFull
    <2>3. \A k \in 1 .. Len(s) : s[k] # Blank
      BY <1>2, <1>3
    <2>4. Len(s) \in 0 .. Len(s)
      BY <1>1
    <2> QED
      BY <2>1, <2>2, <2>3, <2>4, Zenon
  <1>4. CASE B # {}
    <2> DEFINE b == Min(B)
    <2>1. b \in B /\ \A m \in B : b <= m
      BY <1>2, <1>4, MinIs
    <2>2. Word(s) = SubSeq(s, 1, b - 1)
      BY <1>2, <1>4, <2>1 DEF Word, Index, B
    <2> HIDE DEF b
    <2>3. b - 1 \in 0 .. Len(s) /\ s[(b - 1) + 1] = Blank
      BY <1>1, <1>2, <2>1
    <2>4. \A k \in 1 .. (b - 1) : s[k] # Blank
      BY <1>1, <1>2, <2>1
    <2> QED
      BY <2>2, <2>3, <2>4, Zenon
  <1> QED
    BY <1>3, <1>4

\* The word at at goes on to the next blank.
LEMMA WordSpan ==
  ASSUME text \in Seq(Pieces), NEW at \in 1 .. (Len(text) + 1)
  PROVE  \E e \in (at - 1) .. Len(text) :
           /\ WordAt(at) = SubSeq(text, at, e)
           /\ \A k \in at .. e : text[k] # Blank
           /\ e = Len(text) \/ text[e + 1] = Blank
  <1> DEFINE r == SubSeq(text, at, Len(text))
             len == Len(text)
  <1>1. len \in Nat
    OBVIOUS
  <1>2. r \in Seq(Pieces) /\ Len(r) = len - at + 1 /\ \A k \in 1 .. (len - at + 1) : r[k] = text[at + k - 1]
    BY <1>1, PartOf
  <1>3. PICK num \in 0 .. Len(r) :
           /\ Word(r) = SubSeq(r, 1, num)
           /\ \A k \in 1 .. num : r[k] # Blank
           /\ num = Len(r) \/ r[num + 1] = Blank
    BY <1>2, WordIs, Zenon
  <1> DEFINE e == at + num - 1
  <1>4. e \in (at - 1) .. len /\ num \in Nat /\ e - at + 1 = num /\ num <= len - at + 1
    BY <1>1, <1>2
  <1>5. WordAt(at) = SubSeq(r, 1, num)
    BY <1>3 DEF WordAt
  <1> HIDE DEF r, len, e
  <1>6. /\ SubSeq(r, 1, num) \in Seq(Pieces) /\ Len(SubSeq(r, 1, num)) = num
        /\ \A k \in 1 .. num : SubSeq(r, 1, num)[k] = r[k]
    <2>1. 1 \in 1 .. (Len(r) + 1) /\ num \in (1 - 1) .. Len(r) /\ num - 1 + 1 = num
      BY <1>2, <1>4
    <2>2. /\ SubSeq(r, 1, num) \in Seq(Pieces) /\ Len(SubSeq(r, 1, num)) = num - 1 + 1
          /\ \A k \in 1 .. (num - 1 + 1) : SubSeq(r, 1, num)[k] = r[1 + k - 1]
      BY <1>2, <2>1, PartOf
    <2> QED
      BY <1>4, <2>2
  <1>7. /\ SubSeq(text, at, e) \in Seq(Pieces) /\ Len(SubSeq(text, at, e)) = num
        /\ \A k \in 1 .. num : SubSeq(text, at, e)[k] = text[at + k - 1]
    <2>1. /\ SubSeq(text, at, e) \in Seq(Pieces) /\ Len(SubSeq(text, at, e)) = e - at + 1
          /\ \A k \in 1 .. (e - at + 1) : SubSeq(text, at, e)[k] = text[at + k - 1]
      BY <1>4, PartOf DEF len
    <2> QED
      BY <1>4, <2>1
  <1>8. SubSeq(r, 1, num) = SubSeq(text, at, e)
    <2>1. \A k \in 1 .. num : SubSeq(r, 1, num)[k] = SubSeq(text, at, e)[k]
      BY <1>2, <1>4, <1>6, <1>7
    <2> QED
      BY <1>6, <1>7, <2>1, SeqEqual
  <1>9. \A k \in at .. e : text[k] # Blank
    <2> SUFFICES ASSUME NEW k \in at .. e PROVE text[k] # Blank
      OBVIOUS
    <2>1. k - at + 1 \in 1 .. num /\ k - at + 1 \in 1 .. (len - at + 1) /\ at + (k - at + 1) - 1 = k
      <3>1. k \in Int /\ at \in Int /\ at <= k /\ k <= at + num - 1
        BY <1>4 DEF e
      <3> QED
        BY <1>1, <1>4, <3>1
    <2>2. r[k - at + 1] = text[k]
      BY <1>2, <2>1
    <2> QED
      BY <1>3, <2>1, <2>2
  <1>10. e = len \/ text[e + 1] = Blank
    <2>1. CASE num = Len(r)
      BY <1>1, <1>2, <2>1 DEF e
    <2>2. CASE num # Len(r)
      <3>1. num + 1 \in 1 .. (len - at + 1) /\ at + (num + 1) - 1 = e + 1 /\ r[num + 1] = Blank
        BY <1>1, <1>2, <1>3, <1>4, <2>2 DEF e
      <3> QED
        BY <1>2, <3>1
    <2> QED
      BY <2>1, <2>2
  <1> QED
    BY <1>4, <1>5, <1>8, <1>9, <1>10 DEF len

\* The pattern of a field: its name and an equal sign, without a blank.
LEMMA PatternOf ==
  ASSUME NEW f \in Seq(Pieces), Blank \notin Range(f)
  PROVE  LET q == f \o <<"=">>
         IN  /\ q \in Seq(Pieces) /\ q # <<>> /\ Len(q) = Len(f) + 1 /\ Len(f) \in Nat
             /\ \A k \in 1 .. Len(q) : q[k] # Blank
             /\ "=" \in Range(q) /\ q[Len(f) + 1] = "="
  <1> DEFINE q == f \o <<"=">>
  <1>1. <<"=">> \in Seq(Pieces) /\ Len(<<"=">>) = 1 /\ <<"=">>[1] = "="
    BY Single, GelfFieldsAssumption
  <1>2. /\ q \in Seq(Pieces) /\ Len(q) = Len(f) + 1 /\ Len(f) \in Nat
        /\ \A k \in 1 .. (Len(f) + 1) : q[k] = IF k <= Len(f) THEN f[k] ELSE <<"=">>[k - Len(f)]
    BY <1>1, ConcatProperties
  <1>3. \A k \in 1 .. Len(f) : f[k] # Blank
    BY DEF Range
  <1>4. q[Len(f) + 1] = "="
    BY <1>1, <1>2
  <1>5. \A k \in 1 .. (Len(f) + 1) : q[k] # Blank
    <2> SUFFICES ASSUME NEW k \in 1 .. (Len(f) + 1) PROVE q[k] # Blank
      OBVIOUS
    <2>1. CASE k <= Len(f)
      BY <1>2, <1>3, <2>1
    <2>2. CASE k = Len(f) + 1
      BY <1>4, <2>2, Zenon DEF Blank
    <2> QED
      BY <1>2, <2>1, <2>2
  <1>6. q # <<>>
    BY <1>2
  <1>7. "=" \in Range(q)
    BY <1>2, <1>4 DEF Range
  <1> QED
    BY <1>2, <1>4, <1>5, <1>6, <1>7

\* Where a pattern without a blank occurs in a word of the text.
LEMMA InWord ==
  ASSUME text \in Seq(Pieces), NEW q \in Seq(Pieces), q # <<>>, \A k \in 1 .. Len(q) : q[k] # Blank,
         NEW at \in 1 .. (Len(text) + 1)
  PROVE  \A x : x \in Occurrences(WordAt(at), q) <=>
           /\ x \in Nat \ {0} /\ at + x - 1 \in Occurrences(text, q)
           /\ \A k \in at .. (at + x - 2) : text[k] # Blank
  <1> DEFINE len == Len(text)
             num == Len(q)
  <1>1. len \in Nat /\ num \in Nat /\ num > 0
    BY EmptySeq
  <1>2. PICK e \in (at - 1) .. len :
           /\ WordAt(at) = SubSeq(text, at, e)
           /\ \A k \in at .. e : text[k] # Blank
           /\ e = len \/ text[e + 1] = Blank
    BY WordSpan
  <1> DEFINE w == WordAt(at)
  <1>3. w \in Seq(Pieces) /\ Len(w) = e - at + 1 /\ \A k \in 1 .. (e - at + 1) : w[k] = text[at + k - 1]
    BY <1>2, PartOf
  <1>4. \A o : o \in Occurrences(text, q) <=>
          o \in 1 .. len /\ o + num - 1 <= len /\ \A k \in 1 .. num : text[o + k - 1] = q[k]
    BY OccursAt
  <1>5. \A x : x \in Occurrences(w, q) <=>
          x \in 1 .. (e - at + 1) /\ x + num - 1 <= e - at + 1 /\ \A k \in 1 .. num : w[x + k - 1] = q[k]
    BY <1>3, OccursAt
  <1>6. \A k \in 1 .. num : q[k] # Blank
    OBVIOUS
  <1> HIDE DEF len, num, w
  <1>7. ASSUME NEW x \in Nat \ {0}, x + num - 1 <= e - at + 1, NEW k \in 1 .. num
        PROVE  w[x + k - 1] = text[(at + x - 1) + k - 1]
    <2>1. x + k - 1 \in 1 .. (e - at + 1) /\ at + (x + k - 1) - 1 = (at + x - 1) + k - 1
      BY <1>1, <1>7
    <2> QED
      BY <1>3, <2>1
  <1>8. ASSUME NEW x \in Occurrences(w, q)
        PROVE  /\ x \in Nat \ {0} /\ at + x - 1 \in Occurrences(text, q)
               /\ \A k \in at .. (at + x - 2) : text[k] # Blank
    <2>1. x \in Nat \ {0} /\ x + num - 1 <= e - at + 1 /\ \A k \in 1 .. num : w[x + k - 1] = q[k]
      BY <1>1, <1>5
    <2>2. \A k \in 1 .. num : text[(at + x - 1) + k - 1] = q[k]
      BY <1>7, <2>1
    <2>3. at + x - 1 \in 1 .. len /\ (at + x - 1) + num - 1 <= len /\ at + x - 2 <= e
      BY <1>1, <2>1
    <2>4. ASSUME NEW k \in at .. (at + x - 2) PROVE text[k] # Blank
      <3>1. k \in at .. e
        BY <2>1, <2>3
      <3> QED
        BY <1>2, <3>1
    <2> QED
      BY <1>4, <2>1, <2>2, <2>3, <2>4, Zenon
  <1>9. ASSUME NEW x \in Nat \ {0}, at + x - 1 \in Occurrences(text, q),
               \A k \in at .. (at + x - 2) : text[k] # Blank
        PROVE  x \in Occurrences(w, q)
    <2>1. /\ at + x - 1 \in 1 .. len /\ (at + x - 1) + num - 1 <= len
          /\ \A k \in 1 .. num : text[(at + x - 1) + k - 1] = q[k]
      BY <1>4, <1>9
    <2>2. ASSUME NEW k \in at .. (at + x + num - 2) PROVE text[k] # Blank
      <3>1. CASE k <= at + x - 2
        BY <1>9, <3>1
      <3>2. CASE k > at + x - 2
        <4>1. k - (at + x - 2) \in 1 .. num /\ (at + x - 1) + (k - (at + x - 2)) - 1 = k
          BY <1>1, <3>2
        <4> QED
          BY <1>6, <2>1, <4>1
      <3> QED
        BY <1>1, <3>1, <3>2
    <2>3. at + x + num - 2 <= e
      <3> SUFFICES ASSUME e < at + x + num - 2 PROVE FALSE
        BY <1>1
      <3>1. e + 1 \in at .. (at + x + num - 2) /\ e # len
        BY <1>1, <2>1
      <3> QED
        BY <1>2, <2>2, <3>1
    <2>4. x \in 1 .. (e - at + 1) /\ x + num - 1 <= e - at + 1
      BY <1>1, <2>3
    <2>5. \A k \in 1 .. num : w[x + k - 1] = q[k]
      BY <1>7, <2>1, <2>4
    <2> QED
      BY <1>5, <2>4, <2>5
  <1> QED
    BY <1>8, <1>9 DEF w

\* A place inside a word has the word's start before it.
LEMMA WordBefore ==
  ASSUME text \in Seq(Pieces), NEW o \in 2 .. Len(text), text[o - 1] # Blank
  PROVE  \E j \in WordStarts : j < o /\ \A k \in j .. (o - 1) : text[k] # Blank
  <1> DEFINE D == {d \in 1 .. (o - 1) : o - d = 1 \/ text[o - d - 1] = Blank}
  <1>1. o - 1 \in D /\ D \subseteq Nat
    OBVIOUS
  <1>2. PICK d \in D : \A m \in D : d <= m
    BY <1>1, Least, Zenon
  <1> DEFINE j == o - d
  <1>3. d \in 1 .. (o - 1) /\ j \in 1 .. (o - 1) /\ (j = 1 \/ text[j - 1] = Blank)
    BY <1>2
  <1>4. ASSUME NEW k \in j .. (o - 1) PROVE text[k] # Blank
    <2>1. CASE k = o - 1
      BY <2>1
    <2>2. CASE k < o - 1
      <3>1. o - 1 - k \in 1 .. (o - 1) /\ o - 1 - k < d /\ o - (o - 1 - k) - 1 = k
        BY <1>3, <2>2
      <3>2. o - 1 - k \notin D
        <4> SUFFICES ASSUME o - 1 - k \in D PROVE FALSE
          OBVIOUS
        <4>1. d <= o - 1 - k
          BY <1>2, Zenon
        <4> QED
          BY <1>3, <3>1, <4>1
      <3> QED
        BY <3>1, <3>2
    <2> QED
      BY <1>3, <2>1, <2>2
  <1>5. text[j] # Blank
    BY <1>3, <1>4
  <1>6. j \in WordStarts /\ j < o
    BY <1>3, <1>5 DEF WordStarts
  <1> QED
    BY <1>4, <1>6

\* What is left of a part without its first d pieces.
LEMMA PartOfPart ==
  ASSUME NEW s \in Seq(Pieces), NEW at \in 1 .. (Len(s) + 1), NEW e \in (at - 1) .. Len(s),
         NEW d \in 0 .. (e - at + 1)
  PROVE  SubSeq(SubSeq(s, at, e), d + 1, e - at + 1) = SubSeq(s, at + d, e)
  <1> DEFINE r == SubSeq(s, at, e)
             m == e - at + 1
  <1>1. Len(s) \in Nat /\ m \in Nat /\ d \in 0 .. m
    OBVIOUS
  <1>2. r \in Seq(Pieces) /\ Len(r) = m /\ \A k \in 1 .. m : r[k] = s[at + k - 1]
    BY PartOf
  <1>3. at + d \in 1 .. (Len(s) + 1) /\ e \in (at + d - 1) .. Len(s) /\ e - (at + d) + 1 = m - d
    BY <1>1
  <1>4. /\ SubSeq(s, at + d, e) \in Seq(Pieces) /\ Len(SubSeq(s, at + d, e)) = m - d
        /\ \A k \in 1 .. (m - d) : SubSeq(s, at + d, e)[k] = s[at + d + k - 1]
    <2> DEFINE z == at + d
    <2>1. z \in 1 .. (Len(s) + 1) /\ e \in (z - 1) .. Len(s) /\ e - z + 1 = m - d
      BY <1>3
    <2> HIDE DEF z, m
    <2>2. /\ SubSeq(s, z, e) \in Seq(Pieces) /\ Len(SubSeq(s, z, e)) = e - z + 1
          /\ \A k \in 1 .. (e - z + 1) : SubSeq(s, z, e)[k] = s[z + k - 1]
      BY <2>1, PartOf
    <2>3. /\ SubSeq(s, z, e) \in Seq(Pieces) /\ Len(SubSeq(s, z, e)) = m - d
          /\ \A k \in 1 .. (m - d) : SubSeq(s, z, e)[k] = s[z + k - 1]
      BY <2>1, <2>2
    <2> QED
      BY <2>3 DEF z
  <1> HIDE DEF r, m
  <1>5. d + 1 \in 1 .. (Len(r) + 1) /\ m \in ((d + 1) - 1) .. Len(r) /\ m - (d + 1) + 1 = m - d
    BY <1>1, <1>2
  <1>6. /\ SubSeq(r, d + 1, m) \in Seq(Pieces) /\ Len(SubSeq(r, d + 1, m)) = m - d
        /\ \A k \in 1 .. (m - d) : SubSeq(r, d + 1, m)[k] = r[d + 1 + k - 1]
    <2>1. /\ SubSeq(r, d + 1, m) \in Seq(Pieces) /\ Len(SubSeq(r, d + 1, m)) = m - (d + 1) + 1
          /\ \A k \in 1 .. (m - (d + 1) + 1) : SubSeq(r, d + 1, m)[k] = r[(d + 1) + k - 1]
      BY <1>2, <1>5, PartOf
    <2> QED
      BY <1>5, <2>1
  <1>7. ASSUME NEW k \in 1 .. (m - d) PROVE SubSeq(r, d + 1, m)[k] = SubSeq(s, at + d, e)[k]
    <2>1. d + 1 + k - 1 \in 1 .. m /\ at + (d + 1 + k - 1) - 1 = at + d + k - 1
      BY <1>1
    <2> QED
      BY <1>2, <1>4, <1>6, <2>1, Zenon
  <1>8. SubSeq(r, d + 1, m) = SubSeq(s, at + d, e)
    BY <1>4, <1>6, <1>7, SeqEqual, Zenon
  <1> QED
    BY <1>8 DEF r, m

\* What findFieldInMsg finds is the value of the field, if it has one.
LEMMA FieldValue ==
  ASSUME text \in Seq(Pieces), NEW f \in Seq(Pieces), Blank \notin Range(f)
  PROVE  Values(f) = IF findFieldInMsg(text, f) = <<>> THEN {} ELSE {findFieldInMsg(text, f)}
  <1> DEFINE len == Len(text)
             q == f \o <<"=">>
             num == Len(f)
             O == Occurrences(text, q)
             given == {at \in WordStarts : Gives(WordAt(at), f)}
             value(at) == SubSeq(WordAt(at), num + 2, Len(WordAt(at)))
             hidden(at) == \E j \in WordStarts : j < at /\ Mentions(WordAt(j), f)
             found == findFieldInMsg(text, f)
  <1>1. /\ q \in Seq(Pieces) /\ q # <<>> /\ Len(q) = num + 1 /\ num \in Nat /\ len \in Nat
        /\ \A k \in 1 .. Len(q) : q[k] # Blank
    BY PatternOf
  <1>2. Values(f) = {value(at) : at \in {at \in given : at = Min(given) /\ ~hidden(at) /\ value(at) # <<>>}}
    BY DEF Values
  <1>3. found = IF Index(text, q) = 0 \/ (Index(text, q) > 1 /\ text[Index(text, q) - 1] # Blank) THEN <<>>
                ELSE Word(SubSeq(text, Index(text, q) + num + 1, len))
    BY DEF findFieldInMsg
  <1>4. /\ O \subseteq Nat
        /\ \A o \in O : o \in 1 .. len /\ o + num <= len /\ text[o] # Blank
    <2>1. \A o : o \in O <=>
            /\ o \in 1 .. len /\ o + Len(q) - 1 <= len
            /\ \A k \in 1 .. Len(q) : text[o + k - 1] = q[k]
      BY <1>1, OccursAt, Zenon
    <2>2. ASSUME NEW o \in O PROVE text[o] # Blank
      <3>1. 1 \in 1 .. Len(q) /\ o + 1 - 1 = o
        BY <1>1, <2>1
      <3> QED
        BY <1>1, <2>1, <3>1
    <2> QED
      BY <1>1, <2>1, <2>2
  <1>5. WordStarts \subseteq 1 .. len
    BY DEF WordStarts
  <1>6. ASSUME NEW at \in WordStarts
        PROVE  \A x : x \in Occurrences(WordAt(at), q) <=>
                 x \in Nat \ {0} /\ at + x - 1 \in O /\ \A k \in at .. (at + x - 2) : text[k] # Blank
    <2>1. at \in 1 .. (len + 1)
      BY <1>1, <1>5
    <2> QED
      BY <1>1, <2>1, InWord, Zenon
  <1>7. \A at \in WordStarts : Gives(WordAt(at), f) <=> at \in O
    <2> SUFFICES ASSUME NEW at \in WordStarts PROVE 1 \in Occurrences(WordAt(at), q) <=> at \in O
      BY DEF Gives
    <2>1. at + 1 - 1 = at /\ 1 \in Nat \ {0} /\ at .. (at + 1 - 2) = {}
      BY <1>5
    <2> QED
      BY <1>6, <2>1
  <1>8. given = WordStarts \cap O
    BY <1>7
  <1> HIDE DEF len, q, num, O, given, value, hidden, found
  <1>9. CASE O = {}
    <2>1. Index(text, q) = 0
      BY <1>9 DEF Index, O
    <2> QED
      BY <1>2, <1>3, <1>8, <1>9, <2>1 DEF found
  <1>10. CASE O # {}
    <2> DEFINE idx == Min(O)
    <2>1. idx \in O /\ \A o \in O : idx <= o
      BY <1>4, <1>10, MinIs
    <2>2. Index(text, q) = idx
      BY <1>10 DEF Index, O
    <2>3. idx \in 1 .. len /\ idx + num <= len /\ text[idx] # Blank
      BY <1>4, <2>1, Zenon
    <2> HIDE DEF idx
    <2>4. CASE idx = 1 \/ text[idx - 1] = Blank
      <3>1. idx \in WordStarts
        BY <2>3, <2>4 DEF WordStarts, len
      <3>2. given \subseteq Nat /\ idx \in given /\ \A at \in given : idx <= at
        BY <1>4, <1>8, <2>1, <3>1
      <3>3. \A at \in given : at = Min(given) <=> at = idx
        BY <3>2, MinOf
      <3>4. ~hidden(idx)
        <4> SUFFICES ASSUME NEW j \in WordStarts, j < idx, NEW x \in Occurrences(WordAt(j), q), x > 1
                     PROVE  FALSE
          BY DEF hidden, Mentions, q
        <4>1. x \in Nat \ {0} /\ j + x - 1 \in O /\ \A k \in j .. (j + x - 2) : text[k] # Blank
          BY <1>6
        <4>2. j \in 1 .. len /\ idx <= j + x - 1
          BY <1>5, <2>1, <4>1
        <4>3. idx - 1 \in j .. (j + x - 2) /\ idx # 1
          BY <2>3, <4>1, <4>2
        <4> QED
          BY <2>4, <4>1, <4>3
      <3>5. value(idx) = found
        <4>1. found = WordAt(idx + num + 1)
          BY <1>3, <2>2, <2>3, <2>4 DEF WordAt, len
        <4>2. idx \in 1 .. (len + 1) /\ idx + num + 1 \in 1 .. (len + 1)
          BY <1>1, <2>3
        <4>3. PICK e \in (idx - 1) .. len :
                /\ WordAt(idx) = SubSeq(text, idx, e)
                /\ \A k \in idx .. e : text[k] # Blank
                /\ e = len \/ text[e + 1] = Blank
          BY <4>2, WordSpan, Zenon DEF len
        <4>4. PICK d \in ((idx + num + 1) - 1) .. len :
                /\ WordAt(idx + num + 1) = SubSeq(text, idx + num + 1, d)
                /\ \A k \in (idx + num + 1) .. d : text[k] # Blank
                /\ d = len \/ text[d + 1] = Blank
          BY <4>2, WordSpan, Zenon DEF len
        <4>5. Len(WordAt(idx)) = e - idx + 1
          BY <4>2, <4>3, PartOf DEF len
        <4>6. 1 \in Occurrences(WordAt(idx), q) /\ WordAt(idx) \in Seq(Pieces)
          <5>1. 1 \in Occurrences(WordAt(idx), q)
            BY <1>7, <2>1, <3>1 DEF Gives, q
          <5>2. WordAt(idx) \in Seq(Pieces)
            BY <4>2, <4>3, PartOf DEF len
          <5> QED
            BY <5>1, <5>2
        <4>7. num + 1 <= e - idx + 1
          <5>1. 1 + Len(q) - 1 <= Len(WordAt(idx))
            BY <1>1, <4>6, OccursAt
          <5> QED
            BY <1>1, <4>5, <5>1
        <4>8. e = d
          <5>1. ~(e < d)
            <6> SUFFICES ASSUME e < d PROVE FALSE
              OBVIOUS
            <6>1. e + 1 \in (idx + num + 1) .. d /\ e # len
              BY <1>1, <2>3, <4>7
            <6> QED
              BY <4>3, <4>4, <6>1
          <5>2. ~(d < e)
            <6> SUFFICES ASSUME d < e PROVE FALSE
              OBVIOUS
            <6>1. d + 1 \in idx .. e /\ d # len
              BY <1>1, <2>3, <4>7
            <6> QED
              BY <4>3, <4>4, <6>1
          <5>3. e \in Int /\ d \in Int
            BY <1>1, <2>3
          <5> QED
            BY <5>1, <5>2, <5>3
        <4>9. num + 1 \in 0 .. (e - idx + 1) /\ (num + 1) + 1 = num + 2 /\ idx + (num + 1) = idx + num + 1
          BY <1>1, <2>3, <4>7
        <4>10. SubSeq(SubSeq(text, idx, e), (num + 1) + 1, e - idx + 1) = SubSeq(text, idx + (num + 1), e)
          BY <4>2, <4>9, PartOfPart, Zenon DEF len
        <4> QED
          BY <4>1, <4>3, <4>4, <4>5, <4>8, <4>9, <4>10, Zenon DEF value
      <3>6. Values(f) = {value(at) : at \in {at \in given : at = idx /\ ~hidden(at) /\ value(at) # <<>>}}
        BY <1>2, <3>3
      <3> QED
        BY <3>2, <3>4, <3>5, <3>6 DEF found
    <2>5. CASE idx # 1 /\ text[idx - 1] # Blank
      <3>1. found = <<>>
        BY <1>3, <2>2, <2>3, <2>5
      <3>2. ASSUME NEW at \in given PROVE hidden(at)
        <4>1. idx \notin WordStarts
          BY <2>5 DEF WordStarts
        <4>2. at \in WordStarts /\ idx < at
          <5>1. at \in WordStarts /\ at \in O
            BY <1>8
          <5>2. idx <= at /\ idx # at /\ at \in Nat /\ idx \in Nat
            BY <1>4, <2>1, <4>1, <5>1
          <5> QED
            BY <5>1, <5>2
        <4>3. idx \in 2 .. len
          BY <1>1, <2>3, <2>5
        <4>4. PICK j \in WordStarts : j < idx /\ \A k \in j .. (idx - 1) : text[k] # Blank
          BY <2>5, <4>3, WordBefore DEF len
        <4>5. j \in 1 .. len /\ at \in 1 .. len
          BY <1>5, <4>2
        <4>6. idx - j + 1 \in Nat \ {0} /\ j + (idx - j + 1) - 1 = idx /\ j + (idx - j + 1) - 2 = idx - 1
              /\ idx - j + 1 > 1 /\ j < at
          BY <2>3, <4>2, <4>4, <4>5
        <4>7. idx - j + 1 \in Occurrences(WordAt(j), q)
          BY <1>6, <2>1, <4>4, <4>6
        <4> QED
          BY <4>6, <4>7 DEF hidden, Mentions, q
      <3> QED
        BY <1>2, <3>1, <3>2 DEF found
    <2> QED
      BY <2>4, <2>5
  <1> QED
    BY <1>9, <1>10

\* A text without an equal sign gives no field a value.
LEMMA NoEqualSign ==
  ASSUME text \in Seq(Pieces), NEW f \in Seq(Pieces), Blank \notin Range(f), "=" \notin Range(text)
  PROVE  findFieldInMsg(text, f) = <<>>
  <1> DEFINE q == f \o <<"=">>
  <1>1. q \in Seq(Pieces) /\ q # <<>> /\ Len(q) = Len(f) + 1 /\ Len(f) \in Nat /\ q[Len(f) + 1] = "="
    BY GelfFieldsAssumption, PatternOf
  <1>2. ASSUME NEW o \in Occurrences(text, q) PROVE FALSE
    <2> HIDE DEF q
    <2>1. /\ o \in 1 .. Len(text) /\ o + Len(q) - 1 <= Len(text)
          /\ \A k \in 1 .. Len(q) : text[o + k - 1] = q[k]
      BY <1>1, OccursAt
    <2>2. Len(q) \in 1 .. Len(q) /\ o + Len(q) - 1 \in 1 .. Len(text)
      BY <1>1, <2>1
    <2>3. text[o + Len(q) - 1] = "="
      BY <1>1, <2>1, <2>2
    <2>4. DOMAIN text = 1 .. Len(text)
      OBVIOUS
    <2> QED
      BY <2>2, <2>3, <2>4 DEF Range
  <1>3. Index(text, q) = 0
    BY <1>2 DEF Index
  <1> QED
    BY <1>3 DEF findFieldInMsg

\* Both bits of LOG_ERR are set in the severities err and debug, and in no other.
LEMMA ErrorBits ==
  \A s \in Nat : PriorityLevel(s) = IF s <= MaxInt /\ s % 8 \in {3, 7} THEN LOG_ERR ELSE LOG_INFO
  BY DEF PriorityLevel, LOG_ERR, LOG_INFO

\* A value that names a level gives that level whatever it was before, and any
\* other leaves it.
LEMMA NamedFacts ==
  ASSUME NEW v, NEW x, NEW y
  PROVE  IF v \in {<<num>> : num \in UNION Range(LevelNames)} THEN Named(v, x) = Named(v, y) ELSE Named(v, x) = x
  <1>1. v \in {<<num>> : num \in UNION Range(LevelNames)}
          <=> \E l \in DOMAIN LevelNames : \E num \in LevelNames[l] : v = <<num>>
    BY DEF Range
  <1> QED
    BY <1>1 DEF Named

\* The message is one that the forwarder may get, and what it holds before its
\* fields are parsed comes from its priority alone.
GelfInv ==
  /\ text \in Texts /\ priority \in Priorities
  /\ ~parsed => extra = {} /\ level = PriorityLevel(priority)
  /\ FieldsFound

\* What parseFields stores is what the text says.
LEMMA ParsedFields ==
  ASSUME GelfInv, parseFields
  PROVE  GelfInv'
  <1>1. text \in Seq(Pieces) /\ text' = text /\ priority \in Nat /\ priority' = priority /\ ~parsed /\ parsed'
    BY GelfFieldsAssumption DEF GelfInv, parseFields
  <1>2. text' \in Texts /\ priority' \in Priorities
    BY <1>1 DEF GelfInv
  <1>3. \A f : Values(f)' = Values(f)
    BY <1>1 DEF Values, WordStarts, WordAt
  <1>4. extra = {} /\ level = PriorityLevel(priority)
    BY <1>1 DEF GelfInv
  <1>5. ASSUME NEW f \in Whitelist
        PROVE  {e[2] : e \in {x \in extra' : x[1] = f}} = Values(f)
    <2>1. f \in Seq(Pieces) /\ Blank \notin Range(f)
      BY GelfFieldsAssumption
    <2>2. Values(f) = IF findFieldInMsg(text, f) = <<>> THEN {} ELSE {findFieldInMsg(text, f)}
      BY <1>1, <2>1, FieldValue
    <2>3. CASE "=" \notin Range(text)
      <3>1. findFieldInMsg(text, f) = <<>>
        BY <1>1, <2>1, <2>3, NoEqualSign
      <3>2. extra' = {}
        BY <1>4, <2>3 DEF parseFields
      <3> QED
        BY <2>2, <3>1, <3>2
    <2>4. CASE "=" \in Range(text)
      <3>1. extra' = {e \in {<<g, findFieldInMsg(text, g)>> : g \in Whitelist} : e[2] # <<>>}
        BY <2>4 DEF parseFields
      <3>2. {x \in extra' : x[1] = f}
              = IF findFieldInMsg(text, f) = <<>> THEN {} ELSE {<<f, findFieldInMsg(text, f)>>}
        BY <3>1
      <3>3. <<f, findFieldInMsg(text, f)>>[2] = findFieldInMsg(text, f)
        OBVIOUS
      <3> DEFINE of == {x \in extra' : x[1] = f}
      <3> SUFFICES {e[2] : e \in of} = Values(f)
        OBVIOUS
      <3> HIDE DEF of
      <3>4. CASE findFieldInMsg(text, f) = <<>>
        BY <2>2, <3>2, <3>4 DEF of
      <3>5. CASE findFieldInMsg(text, f) # <<>>
        <4>1. of = {<<f, findFieldInMsg(text, f)>>}
          BY <3>2, <3>5 DEF of
        <4> QED
          BY <2>2, <3>3, <3>5, <4>1, Zenon
      <3> QED
        BY <3>4, <3>5
    <2> QED
      BY <2>3, <2>4
  <1>6. level' \in IF Values(<<"level">>) \cap {<<num>> : num \in UNION Range(LevelNames)} # {}
                   THEN {Named(v, LOG_INFO) : v \in Values(<<"level">>)}
                   ELSE {IF priority <= MaxInt /\ priority % 8 \in {3, 7} THEN LOG_ERR ELSE LOG_INFO}
    <2> DEFINE found == findFieldInMsg(text, <<"level">>)
               names == {<<num>> : num \in UNION Range(LevelNames)}
    <2>1. <<"level">> \in Seq(Pieces) /\ Blank \notin Range(<<"level">>)
      <3>1. "level" \in Pieces /\ "level" # Blank
        BY GelfFieldsAssumption, Zenon DEF Blank
      <3>2. <<"level">> \in Seq(Pieces) /\ Len(<<"level">>) = 1 /\ <<"level">>[1] = "level"
        BY <3>1, Single
      <3>3. DOMAIN <<"level">> = {1}
        BY <3>2
      <3> QED
        BY <3>1, <3>2, <3>3, Zenon DEF Range
    <2>2. Values(<<"level">>) = IF found = <<>> THEN {} ELSE {found}
      BY <1>1, <2>1, FieldValue, Zenon
    <2>3. level = IF priority <= MaxInt /\ priority % 8 \in {3, 7} THEN LOG_ERR ELSE LOG_INFO
      BY <1>1, <1>4, ErrorBits
    <2>4. <<>> \notin names
      OBVIOUS
    <2>5. level' = Named(found, level)
      <3>1. CASE "=" \notin Range(text)
        <4>1. found = <<>>
          BY <1>1, <2>1, <3>1, NoEqualSign, Zenon
        <4>2. level' = level
          BY <3>1 DEF parseFields
        <4> QED
          BY <2>4, <4>1, <4>2, NamedFacts
      <3>2. CASE "=" \in Range(text)
        BY <3>2 DEF parseFields
      <3> QED
        BY <3>1, <3>2
    <2> HIDE DEF found, names
    <2>6. CASE found \in names
      <3>1. level' = Named(found, LOG_INFO)
        BY <2>5, <2>6, NamedFacts DEF names
      <3> QED
        BY <2>2, <2>4, <2>6, <3>1 DEF names
    <2>7. CASE found \notin names
      <3>1. level' = level
        BY <2>5, <2>7, NamedFacts DEF names
      <3> QED
        BY <2>2, <2>3, <2>7, <3>1 DEF names
    <2> QED
      BY <2>6, <2>7
  <1>7. FieldsFound'
    <2>1. \A f \in Whitelist : {e[2] : e \in {x \in extra' : x[1] = f}} = Values(f)'
      BY <1>3, <1>5
    <2>2. level' \in IF Values(<<"level">>)' \cap {<<num>> : num \in UNION Range(LevelNames)} # {}
                     THEN {Named(v, LOG_INFO) : v \in Values(<<"level">>)'}
                     ELSE {IF priority' <= MaxInt /\ priority' % 8 \in {3, 7} THEN LOG_ERR ELSE LOG_INFO}
      BY <1>1, <1>3, <1>6
    <2> QED
      BY <2>1, <2>2 DEF FieldsFound
  <1> QED
    BY <1>1, <1>2, <1>7 DEF GelfInv

\* The forwarder reports exactly the fields of the whitelist that the text gives
\* a value, and the level that the text or else the priority says, for every
\* text, whitelist and priority (gelfforwarder.go:57-63, 112-145, 157-175).
THEOREM FieldsReported == GelfSpec => []FieldsFound
  <1>1. GelfInit => GelfInv
    BY DEF GelfInit, GelfInv, FieldsFound
  <1>2. GelfInv /\ [parseFields]_gelfVars => GelfInv'
    <2> SUFFICES ASSUME GelfInv, [parseFields]_gelfVars PROVE GelfInv'
      OBVIOUS
    <2>1. CASE parseFields
      BY <2>1, ParsedFields
    <2>2. CASE UNCHANGED gelfVars
      <3>1. text' = text /\ priority' = priority /\ level' = level /\ extra' = extra /\ parsed' = parsed
        BY <2>2 DEF gelfVars
      <3>2. \A f : Values(f)' = Values(f)
        BY <3>1 DEF Values, WordStarts, WordAt
      <3>3. FieldsFound'
        BY <3>1, <3>2 DEF GelfInv, FieldsFound
      <3> QED
        BY <3>1, <3>3 DEF GelfInv
    <2> QED
      BY <2>1, <2>2
  <1>3. GelfInv => FieldsFound
    BY DEF GelfInv
  <1> QED
    BY <1>1, <1>2, <1>3, PTL DEF GelfSpec
==============================================================================
