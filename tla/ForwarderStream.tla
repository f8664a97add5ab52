--------------------------- MODULE ForwarderStream ---------------------------
(***************************************************************************)
(* Forwarder, read as a stream of units: what it has pending and what it   *)
(* delivered over all its connections, the abstract LogStream it           *)
(* implements, and the properties that need the whole stream.              *)
(***************************************************************************)
EXTENDS Forwarder, Functions

\* The units of a sequence of messages.
Units(ms) ==
  LET upTo[i \in 0 .. Len(ms)] == IF i = 0 THEN <<>> ELSE upTo[i - 1] \o Encode(ms[i])
  IN  upTo[Len(ms)]

Delivered == gone \o wire

\* A connection that failed has given up its buffer.
Pending == (IF werr THEN <<>> ELSE w) \o Units(cur) \o Units(ch)

Stream == INSTANCE LogStream
            WITH Payloads <- {Encode(m) : m \in Msg},
                 pending <- Pending, delivered <- Delivered

\* The forwarder implements LogStream: through reconnections, failed writes,
\* failed flushes and shutdown, units leave in the order they were accepted
\* and at most once (log.go:61-119, bufferconn.go).
ImplementsLogStream == Stream!Spec

\* Without a failed write nothing is lost: every accepted unit was delivered
\* or is still held, in order, also across a reconnection forced by the age
\* of the connection and after quit (log.go:106, bufferconn.go:44-58).
NoLossWithoutFailure == ~lossy /\ ~werr => Delivered \o Pending = Units(accepted)

\* An accepted message reaches the network although nothing follows it to
\* fill the buffer, unless a connection fails or the forwarder is stopped
\* first: flushLoop bounds the time it waits (bufferconn.go:79-92).
EventuallyDelivered ==
  \A m \in Msg :
    m \in Range(accepted) ~>
      (lossy \/ werr \/ quit \/ <<m, Size[m]>> \in Range(Delivered))
=============================================================================
