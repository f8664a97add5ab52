---------------------------- MODULE BufferedConn ----------------------------
(***************************************************************************)
(* The buffered connection of log/bufferconn.go: a bufio.Writer of BufSize *)
(* units in front of a net.Conn, flushed by Write when it overflows, by    *)
(* flushLoop every `latency', and by Close.  Every user of the writer      *)
(* holds c.mu from its first to its last access, so one call is one step.  *)
(*                                                                         *)
(* A unit is a piece of a message (bytes are never told apart).  The       *)
(* socket below the writer is described by `net': it accepts what it is    *)
(* given ("ok"), it makes the writer wait ("stalled": the peer does not    *)
(* read), or it may fail a write at any point ("broken").                  *)
(***************************************************************************)
EXTENDS Naturals, Sequences

CONSTANTS
  Unit,      \* pieces of messages
  Payloads,  \* what callers pass to Write
  BufSize    \* bufferConnSize, in units; 0 is a connection used without bufio
             \* (syslog over udp, gelf), which writes through

\* What the proofs assume of the constants.
BufferedConnAssumption ==
  /\ Payloads \subseteq Seq(Unit)
  /\ BufSize \in Nat

VARIABLES
  w,         \* units in the bufio.Writer, not yet given to the socket
  werr,      \* the writer's error: bufio never writes again once it is set
  timed,     \* c.to > 0: writes to the socket carry a deadline
  closed,    \* Close ran: c.done is closed and so is the socket
  net,       \* state of the socket
  wire,      \* units the socket accepted, in order
  written    \* history: the units of every call of Write, failed ones included

connVars == <<w, werr, timed, closed, net, wire, written>>

NetStates == {"ok", "stalled", "broken"}

TypeOK ==
  /\ w \in Seq(Unit) /\ Len(w) <= BufSize
  /\ werr \in BOOLEAN
  /\ timed \in BOOLEAN
  /\ closed \in BOOLEAN
  /\ net \in NetStates
  /\ wire \in Seq(Unit)
  /\ written \in Seq(Unit)
-----------------------------------------------------------------------------
\* newBufferedConn over a connection that was just dialled.
Fresh ==
  /\ w = <<>> /\ werr = FALSE /\ timed = FALSE /\ closed = FALSE
  /\ net = "ok" /\ wire = <<>> /\ written = <<>>

\* The same, as a step: processMessages replaces its connection.
Renew ==
  /\ w' = <<>> /\ werr' = FALSE /\ timed' = FALSE /\ closed' = FALSE
  /\ net' = "ok" /\ wire' = <<>> /\ written' = <<>>

\* What bufio.Writer.Write(p) leaves in the buffer: everything if p fits;
\* otherwise the buffer is filled and flushed, and what remains of p is kept
\* if it fits and given straight to the socket if it does not.  An empty
\* buffer is bypassed at once.
Kept(p) ==
  LET rest == SubSeq(w \o p, BufSize + 1, Len(w) + Len(p))
  IN  IF Len(p) <= BufSize - Len(w) THEN w \o p
      ELSE IF w # <<>> /\ Len(rest) <= BufSize THEN rest ELSE <<>>

\* What the same call gives to the socket.
Emitted(p) == SubSeq(w \o p, 1, Len(w) + Len(p) - Len(Kept(p)))

\* What a failed call leaves in the buffer when the socket accepted k units:
\* the rest of the flush that failed (nothing if p was being written directly).
Stranded(p, k) == IF w # <<>> THEN SubSeq(w \o p, k + 1, BufSize) ELSE <<>>

\* The socket takes a non-empty write unless the peer stalls it; a write may
\* fail part way if the connection is broken, or when its deadline expires.
Accepts == net # "stalled"
Fails   == net = "broken" \/ (net = "stalled" /\ timed)

\* Write returns without an error.
WriteOK(p) ==
  /\ ~werr
  /\ Emitted(p) # <<>> => Accepts
  /\ wire' = wire \o Emitted(p)
  /\ w' = Kept(p)
  /\ written' = written \o p
  /\ UNCHANGED <<werr, timed, closed, net>>

\* Write returns an error: the writer's earlier one, or a new one after the
\* socket accepted k units of what it was given.
WriteError(p) ==
  /\ \/ werr /\ UNCHANGED <<w, werr, wire>>
     \/ /\ ~werr /\ Fails
        /\ \E k \in 0 .. (Len(Emitted(p)) - 1) :
             /\ wire' = wire \o SubSeq(Emitted(p), 1, k)
             /\ w' = Stranded(p, k)
        /\ werr' = TRUE
  /\ written' = written \o p
  /\ UNCHANGED <<timed, closed, net>>

\* Mutant of Flush: the buffer is not emptied.
FlushKeeps ==
  /\ Accepts /\ ~werr
  /\ wire' = wire \o w
  /\ UNCHANGED <<w, werr>>

\* flush, called with c.mu held: an empty buffer or an earlier error is a
\* no-op; otherwise the socket takes the whole buffer, or part of it and fails.
Flush ==
  \/ (werr \/ w = <<>>) /\ UNCHANGED <<w, werr, wire>>
  \/ /\ ~werr /\ w # <<>> /\ Accepts
     /\ wire' = wire \o w
     /\ w' = <<>>
     /\ UNCHANGED werr
  \/ /\ ~werr /\ w # <<>> /\ Fails
     /\ \E k \in 0 .. (Len(w) - 1) :
          /\ wire' = wire \o SubSeq(w, 1, k)
          /\ w' = SubSeq(w, k + 1, Len(w))
     /\ werr' = TRUE

\* Mutant of FlushTick: only a full buffer is flushed.
FlushTickFull ==
  /\ Len(w) = BufSize /\ Flush
  /\ UNCHANGED <<timed, closed, net, written>>

\* One tick of flushLoop.  Its select may still take a tick when c.done is
\* closed: the flush then finds an empty buffer or the writer's error.
FlushTick ==
  /\ Flush
  /\ UNCHANGED <<timed, closed, net, written>>

\* SetWriteDeadline(d): a zero d turns deadlines off.
SetWriteDeadline(nonzero) ==
  /\ timed' = nonzero
  /\ UNCHANGED <<w, werr, closed, net, wire, written>>

\* Mutant of Close: the socket is closed without a flush.
CloseNoFlush ==
  /\ ~closed /\ closed' = TRUE
  /\ UNCHANGED <<w, werr, wire, timed, net, written>>

\* Close: flush, close(c.done), close the socket.  A second Close would panic.
Close ==
  /\ ~closed
  /\ Flush
  /\ closed' = TRUE
  /\ UNCHANGED <<timed, net, written>>

\* The network under the connection.  A broken connection stays broken.
NetStep ==
  /\ net # "broken"
  /\ net' \in NetStates \ {net}
  /\ UNCHANGED <<w, werr, timed, closed, wire, written>>
-----------------------------------------------------------------------------
Write(p) == WriteOK(p) \/ WriteError(p)

\* Any caller that respects the life of the connection.
Next ==
  \/ /\ ~closed
     /\ \/ \E p \in Payloads : Write(p)
        \/ \E nonzero \in BOOLEAN : SetWriteDeadline(nonzero)
        \/ Close
  \/ FlushTick
  \/ NetStep

Spec == Fresh /\ [][Next]_connVars
-----------------------------------------------------------------------------
\* The inductive core of the two properties below: until an error the socket
\* and the buffer hold every unit written, in order; after it the socket
\* holds a prefix of them.
Stream ==
  /\ ~werr => wire \o w = written
  /\ \E n \in 0 .. Len(written) : wire = SubSeq(written, 1, n)

\* Whatever flushes, failures and stalls happened, the peer is given a prefix
\* of what was written: no unit is skipped, repeated or reordered within a
\* connection, because bufio refuses to write after its first error
\* (bufferconn.go:35-42, 72-77).
WirePrefix == wire = SubSeq(written, 1, Len(wire))

\* A connection closed without any error kept nothing back: Close flushes
\* before it closes the socket, and no tick of flushLoop can undo or repeat
\* that (bufferconn.go:44-58, 79-92).
ClosedComplete == closed /\ ~werr => wire = written

\* Nothing reaches the socket once Close returned, although flushLoop may
\* still run (bufferconn.go:79-92).
SilentAfterClose == [][closed => wire' = wire]_connVars
=============================================================================
