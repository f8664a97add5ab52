--------------------------- MODULE ForwarderProofs ---------------------------
(***************************************************************************)
(* Proofs about the goroutine of processMessages, for any channel and      *)
(* buffer size and any number and size of messages.                        *)
(***************************************************************************)
EXTENDS ForwarderStream, WellFoundedInduction, TLAPS

\* What is proved of any use of a connection, and the library's facts about
\* sequences, which BufferedConnProofs extends.
Buffered == INSTANCE BufferedConnProofs WITH Payloads <- {Encode(m) : m \in Msg}

\* The goroutine holds a message exactly while it processes it; a hand-off
\* finds the channel empty.
FifoInv ==
  /\ cap \in Nat /\ next \in Nat
  /\ ch \in Seq(Msg) /\ Len(ch) <= cap
  /\ cur \in Seq(Msg) /\ (cur = <<>> <=> pc \notin {"process", "write"})
  /\ accepted \in Seq(Msg) /\ processed \in Seq(Msg)
  /\ Fifo

\* The state of the connection at each point of the loop.
ConnInv ==
  /\ pc \in PCs
  /\ pc \in {"check", "done"} => IF connected THEN written = <<>> ELSE closed
  /\ pc = "connect" => ~connected /\ closed
  /\ pc \in {"loop", "process", "write", "close", "closing"} => connected

\* The connection's own invariant, and the life of a connection.
LinkInv ==
  /\ Buffered!Inv
  /\ gone \in Seq(Unit)
  /\ pc = "start" => w = <<>>
  /\ connected => ~closed
  /\ cur = <<>> \/ cur = <<cur[1]>>

-----------------------------------------------------------------------------
\* Concatenation is associative, for sequences of messages.
LEMMA Assoc ==
  \A x, y, z \in Seq(Msg) : (x \o y) \o z = x \o (y \o z)
  <1> TAKE x, y, z \in Seq(Msg)
  <1> QED
    BY Buffered!ConcatAssociative

\* Steps that touch neither the channel nor the message in hand.
LEMMA FifoUntouched ==
  ASSUME FifoInv, UNCHANGED <<cap, next, ch, cur, accepted, processed>>,
         pc \in {"process", "write"} <=> pc' \in {"process", "write"}
  PROVE  FifoInv'
  BY DEF FifoInv, Fifo

\* A message the buffer of the channel takes goes to its end.
LEMMA FifoAppend ==
  ASSUME FifoInv, next \in Msg, next' \in Nat, Len(ch) < cap,
         ch' = Append(ch, next), accepted' = Append(accepted, next),
         UNCHANGED <<cap, pc, cur, processed>>
  PROVE  FifoInv'
  <1>1. /\ processed \in Seq(Msg) /\ cur \in Seq(Msg) /\ ch \in Seq(Msg)
        /\ accepted \in Seq(Msg) /\ accepted = (processed \o cur) \o ch
        /\ Len(ch) \in Nat /\ cap \in Nat
    BY Buffered!LenProperties DEF FifoInv, Fifo
  <1>2. ch' \in Seq(Msg) /\ Len(ch') = Len(ch) + 1 /\ accepted' \in Seq(Msg)
    BY <1>1, Buffered!AppendProperties
  <1> DEFINE s == processed \o cur
  <1>3. s \in Seq(Msg)
    BY <1>1, Buffered!ConcatProperties
  <1>4. accepted = s \o ch
    BY <1>1
  <1> HIDE DEF s
  <1>5. <<next>> \in Seq(Msg)
    BY ONLY next \in Msg
  <1>6. (s \o ch) \o <<next>> = s \o (ch \o <<next>>)
    <2>1. s \in Seq(Msg) /\ ch \in Seq(Msg) /\ <<next>> \in Seq(Msg)
      BY <1>1, <1>3, <1>5, Zenon
    <2> QED
      BY ONLY <2>1, Assoc, Zenon
  <1>7. ch' = ch \o <<next>> /\ accepted' = accepted \o <<next>>
    BY <1>1, Buffered!AppendIsConcat
  <1>8. accepted' = s \o ch'
    BY <1>4, <1>6, <1>7, Zenon
  <1>9. s = processed' \o cur'
    BY DEF s
  <1>10. Fifo'
    BY <1>8, <1>9, Zenon DEF Fifo
  <1> QED
    BY <1>1, <1>2, <1>10 DEF FifoInv

\* A message handed over finds the channel empty and the goroutine idle.
LEMMA FifoHandOff ==
  ASSUME FifoInv, next \in Msg, next' \in Nat, cap = 0, pc = "loop", pc' = "process",
         cur' = <<next>>, accepted' = Append(accepted, next),
         UNCHANGED <<cap, ch, processed>>
  PROVE  FifoInv'
  <1>1. /\ processed \in Seq(Msg) /\ ch \in Seq(Msg) /\ accepted \in Seq(Msg)
        /\ cur = <<>> /\ accepted = (processed \o cur) \o ch /\ Len(ch) \in Nat /\ Len(ch) <= 0
    BY Buffered!LenProperties DEF FifoInv, Fifo
  <1>2. ch = <<>>
    BY <1>1, Buffered!EmptySeq
  <1>3. <<next>> \in Seq(Msg) /\ <<next>> # <<>>
    BY ONLY next \in Msg
  <1>4. accepted = processed
    BY <1>1, <1>2, Buffered!ConcatEmptySeq, Zenon
  <1>5. accepted' = accepted \o <<next>> /\ accepted' \in Seq(Msg)
    BY <1>1, Buffered!AppendIsConcat, Buffered!AppendProperties
  <1>6. (processed \o <<next>>) \o <<>> = processed \o <<next>>
    BY <1>1, <1>3, Buffered!ConcatProperties, Buffered!ConcatEmptySeq
  <1>7. Fifo'
    BY <1>2, <1>4, <1>5, <1>6, Zenon DEF Fifo
  <1> QED
    BY <1>3, <1>5, <1>7 DEF FifoInv

\* The message taken is the oldest in the channel.
LEMMA FifoTake ==
  ASSUME FifoInv, TakeMsg
  PROVE  FifoInv'
  <1>1. /\ processed \in Seq(Msg) /\ ch \in Seq(Msg) /\ accepted \in Seq(Msg)
        /\ cur = <<>> /\ accepted = (processed \o cur) \o ch
        /\ Len(ch) \in Nat /\ cap \in Nat /\ Len(ch) <= cap
    BY Buffered!LenProperties DEF FifoInv, Fifo, TakeMsg, Goto
  <1>2. /\ ch # <<>> /\ cur' = <<Head(ch)>> /\ ch' = Tail(ch) /\ pc' = "process"
        /\ UNCHANGED <<cap, next, accepted, processed>>
    BY DEF TakeMsg, Goto
  <1>3. Head(ch) \in Msg /\ Tail(ch) \in Seq(Msg) /\ Len(Tail(ch)) = Len(ch) - 1
    BY <1>1, <1>2, Buffered!HeadTailProperties
  <1>4. <<Head(ch)>> \in Seq(Msg) /\ <<Head(ch)>> # <<>>
    BY ONLY <1>3
  <1>5. <<Head(ch)>> \o Tail(ch) = ch
    <2>1. /\ Len(<<Head(ch)>> \o Tail(ch)) = Len(ch)
          /\ <<Head(ch)>> \o Tail(ch) \in Seq(Msg)
          /\ \A i \in 1 .. Len(ch) : (<<Head(ch)>> \o Tail(ch))[i] = ch[i]
      BY <1>1, <1>2, <1>3, <1>4, Buffered!ConcatProperties, Buffered!HeadTailProperties
    <2> QED
      BY <1>1, <2>1, Buffered!SeqEqual
  <1>6. (processed \o <<Head(ch)>>) \o Tail(ch) = processed \o (<<Head(ch)>> \o Tail(ch))
    <2>1. processed \in Seq(Msg) /\ <<Head(ch)>> \in Seq(Msg) /\ Tail(ch) \in Seq(Msg)
      BY <1>1, <1>3, <1>4
    <2> QED
      BY ONLY <2>1, Assoc, Zenon
  <1>7. processed \o <<>> = processed
    BY <1>1, Buffered!ConcatEmptySeq
  <1>8. Fifo'
    BY <1>1, <1>2, <1>5, <1>6, <1>7, Zenon DEF Fifo
  <1>9. Len(ch') <= cap'
    BY <1>1, <1>2, <1>3
  <1> QED
    BY <1>2, <1>3, <1>4, <1>8, <1>9 DEF FifoInv

\* The message processed is the one in hand.
LEMMA FifoProcessed ==
  ASSUME FifoInv, processed' = processed \o cur, cur' = <<>>,
         pc' \notin {"process", "write"}, UNCHANGED <<cap, next, ch, accepted>>
  PROVE  FifoInv'
  <1>1. /\ processed \in Seq(Msg) /\ cur \in Seq(Msg) /\ accepted = (processed \o cur) \o ch
    BY DEF FifoInv, Fifo
  <1>2. processed' \in Seq(Msg)
    BY <1>1, Buffered!ConcatProperties
  <1>3. processed' \o <<>> = processed'
    BY <1>2, Buffered!ConcatEmptySeq
  <1>4. Fifo'
    BY <1>1, <1>3, Zenon DEF Fifo
  <1>5. <<>> \in Seq(Msg)
    BY Buffered!EmptySeq
  <1> QED
    BY <1>2, <1>4, <1>5 DEF FifoInv

-----------------------------------------------------------------------------
\* Every step preserves FifoInv.
LEMMA FifoNext == FifoInv /\ [Next]_vars => FifoInv'
  <1> SUFFICES ASSUME FifoInv, [Next]_vars PROVE FifoInv'
    OBVIOUS
  <1>1. CASE Send
    <2>1. next \in Msg /\ next' \in Nat /\ UNCHANGED <<cap, processed>>
      BY <1>1 DEF Send, FifoInv
    <2>2. CASE /\ Len(ch) < cap /\ ch' = Append(ch, next)
               /\ accepted' = Append(accepted, next) /\ UNCHANGED <<pc, cur>>
      BY <2>1, <2>2, FifoAppend
    <2>3. CASE /\ cap = 0 /\ Goto("loop", "process") /\ cur' = <<next>>
               /\ accepted' = Append(accepted, next) /\ UNCHANGED ch
      BY <2>1, <2>3, FifoHandOff DEF Goto
    <2>4. CASE UNCHANGED <<pc, cur, ch, accepted>>
      BY <2>1, <2>4 DEF FifoInv, Fifo
    <2> QED
      BY <1>1, <2>2, <2>3, <2>4, Zenon DEF Send
  <1>2. CASE TakeMsg
    BY <1>2, FifoTake
  <1>3. ASSUME NEW aged \in BOOLEAN, ProcessOK(aged) PROVE FifoInv'
    BY <1>3, FifoProcessed DEF ProcessOK, Goto
  <1>4. CASE ProcessError
    BY <1>4, FifoProcessed DEF ProcessError, Goto
  <1>5. CASE \/ StartOK \/ StartError \/ Stop \/ Check \/ ConnectOK \/ ConnectError
             \/ TakeQuit \/ Process \/ ResetDeadline \/ CloseConn \/ FlushTick \/ NetStep
    <2>1. /\ UNCHANGED <<cap, next, ch, cur, accepted, processed>>
          /\ pc \in {"process", "write"} <=> pc' \in {"process", "write"}
      BY <1>5, Zenon DEF StartOK, StartError, Stop, Check, ConnectOK, ConnectError, TakeQuit,
                  Process, ResetDeadline, CloseConn, FlushTick, NetStep, Goto
    <2> QED
      BY <2>1, FifoUntouched
  <1>6. CASE UNCHANGED vars
    BY <1>6, FifoUntouched DEF vars
  <1> QED
    BY <1>1, <1>2, <1>3, <1>4, <1>5, <1>6 DEF Next, Worker

\* FifoInv holds before the first connection.
LEMMA FifoInit == Init => FifoInv
  <1> SUFFICES ASSUME Init PROVE FifoInv
    OBVIOUS
  <1>1. <<>> \in Seq(Msg) /\ Len(<<>>) = 0 /\ (<<>> \o <<>>) \o <<>> = <<>>
    BY Buffered!EmptySeq, Buffered!ConcatEmptySeq
  <1>2. cap \in Nat /\ 0 <= cap
    BY ForwarderAssumption DEF Init
  <1>3. Fifo /\ Len(ch) <= cap
    BY <1>1, <1>2, Zenon DEF Init, Fifo
  <1> QED
    BY <1>1, <1>2, <1>3 DEF Init, FifoInv

\* Messages are processed once each, in the order the channel took them, for
\* every channel size, the unbuffered one included (log.go:78-107).
THEOREM FifoHolds == Spec => []Fifo
  <1>1. FifoInv => Fifo
    BY DEF FifoInv
  <1> QED
    BY <1>1, FifoInit, FifoNext, PTL DEF Spec

-----------------------------------------------------------------------------
\* Every step preserves ConnInv.
LEMMA ConnNext == ConnInv /\ [Next]_vars => ConnInv'
  <1> SUFFICES ASSUME ConnInv, [Next]_vars PROVE ConnInv'
    OBVIOUS
  <1> USE DEF ConnInv, PCs, Goto
  <1>1. CASE StartOK \/ ConnectOK
    BY <1>1 DEF StartOK, ConnectOK, Dial, Conn!Renew
  <1>2. CASE StartError \/ Stop \/ Check \/ ConnectError \/ TakeQuit \/ TakeMsg
    BY <1>2 DEF StartError, Stop, Check, ConnectError, TakeQuit, TakeMsg, connVars
  <1>3. CASE Send
    BY <1>3 DEF Send, connVars
  <1>4. CASE Process \/ ResetDeadline
    BY <1>4 DEF Process, ResetDeadline, Conn!SetWriteDeadline
  <1>5. ASSUME NEW aged \in BOOLEAN, ProcessOK(aged) PROVE ConnInv'
    BY <1>5 DEF ProcessOK
  <1>6. CASE ProcessError
    BY <1>6 DEF ProcessError
  <1>7. CASE CloseConn
    BY <1>7 DEF CloseConn, Conn!Close
  <1>8. CASE FlushTick
    BY <1>8 DEF FlushTick, Conn!FlushTick
  <1>9. CASE NetStep
    BY <1>9 DEF NetStep, Conn!NetStep
  <1>10. CASE UNCHANGED vars
    BY <1>10 DEF vars, connVars
  <1> QED
    BY <1>1, <1>2, <1>3, <1>4, <1>5, <1>6, <1>7, <1>8, <1>9, <1>10 DEF Next, Worker

\* A goroutine that returned holds no message, and its connection is closed
\* or was never used (log.go:79-82, 94, 106).
THEOREM ExitIsClean == Spec => []CleanExit
  <1>1. Init => ConnInv
    BY DEF Init, ConnInv, PCs
  <1>2. ConnInv /\ FifoInv => CleanExit
    BY DEF ConnInv, FifoInv, CleanExit
  <1> QED
    BY <1>1, <1>2, FifoInit, FifoNext, ConnNext, PTL DEF Spec

-----------------------------------------------------------------------------
\* A message is a sequence of units.
LEMMA EncodeType == ASSUME NEW m \in Msg PROVE Encode(m) \in Seq(Unit)
  <1>1. Size[m] \in Nat
    BY ForwarderAssumption
  <1>2. \A i \in 1 .. Size[m] : <<m, i>> \in Unit
    BY <1>1 DEF Unit
  <1> QED
    BY <1>1, <1>2 DEF Encode

LEMMA LinkAssumption == Buffered!BufferedConnAssumption
  BY EncodeType, ForwarderAssumption DEF Buffered!BufferedConnAssumption

\* The forwarder uses its connection as Buffered allows, or replaces it.
LEMMA LinkSteps ==
  ASSUME FifoInv, ConnInv, LinkInv, [Next]_vars
  PROVE  Conn!Renew \/ [Buffered!Next]_Buffered!connVars
  <1>1. CASE StartOK \/ ConnectOK
    BY <1>1, Zenon DEF StartOK, ConnectOK, Dial
  <1>2. CASE StartError \/ Stop \/ Check \/ ConnectError \/ TakeQuit \/ TakeMsg \/ Send \/ UNCHANGED vars
    <2>1. UNCHANGED connVars
      BY <1>2, Zenon DEF StartError, Stop, Check, ConnectError, TakeQuit, TakeMsg, Send, vars
    <2> QED
      BY <2>1 DEF connVars, Buffered!connVars
  <1>3. CASE Process \/ ResetDeadline
    <2>1. ~closed
      BY <1>3, Zenon DEF Process, ResetDeadline, Goto, ConnInv, LinkInv
    <2>2. \E nonzero \in BOOLEAN : Buffered!SetWriteDeadline(nonzero)
      BY <1>3, Zenon DEF Process, ResetDeadline, Conn!SetWriteDeadline, Buffered!SetWriteDeadline
    <2> QED
      BY <2>1, <2>2, Zenon DEF Buffered!Next
  <1>4. CASE ProcessError \/ \E aged \in BOOLEAN : ProcessOK(aged)
    <2>1. pc = "write" /\ ~closed
      BY <1>4, Zenon DEF ProcessOK, ProcessError, Goto, ConnInv, LinkInv
    <2>2. cur[1] \in Msg
      BY <2>1 DEF FifoInv
    <2> DEFINE p == Encode(cur[1])
    <2>3. Conn!WriteOK(p) \/ Conn!WriteError(p)
      BY <1>4, Zenon DEF ProcessOK, ProcessError
    <2>4. p \in {Encode(m) : m \in Msg}
      BY <2>2
    <2> HIDE DEF p
    <2>5. Buffered!Write(p)
      BY <2>3, Zenon DEF Buffered!Write, Buffered!WriteOK, Conn!WriteOK, Buffered!WriteError, Conn!WriteError,
         Buffered!Emitted, Conn!Emitted, Buffered!Kept, Conn!Kept, Buffered!Stranded, Conn!Stranded,
         Buffered!Accepts, Conn!Accepts, Buffered!Fails, Conn!Fails
    <2> QED
      BY <2>1, <2>4, <2>5, Zenon DEF Buffered!Next
  <1>5. CASE CloseConn
    <2>1. ~closed
      BY <1>5, Zenon DEF CloseConn, Goto, ConnInv, LinkInv
    <2>2. Buffered!Close
      BY <1>5, Zenon DEF CloseConn, Conn!Close, Buffered!Close, Conn!Flush, Buffered!Flush,
         Buffered!Accepts, Conn!Accepts, Buffered!Fails, Conn!Fails
    <2> QED
      BY <2>1, <2>2, Zenon DEF Buffered!Next
  <1>6. CASE FlushTick
    <2>1. Buffered!FlushTick
      BY <1>6, Zenon DEF FlushTick, Conn!FlushTick, Buffered!FlushTick, Conn!Flush, Buffered!Flush,
         Buffered!Accepts, Conn!Accepts, Buffered!Fails, Conn!Fails
    <2> QED
      BY <2>1, Zenon DEF Buffered!Next
  <1>7. CASE NetStep
    <2>1. Buffered!NetStep
      BY <1>7, Zenon DEF NetStep, Conn!NetStep, Buffered!NetStep, Conn!NetStates, Buffered!NetStates
    <2> QED
      BY <2>1, Zenon DEF Buffered!Next
  <1> QED
    BY <1>1, <1>2, <1>3, <1>4, <1>5, <1>6, <1>7, Zenon DEF Next, Worker

LEMMA LinkNext ==
  ASSUME FifoInv, ConnInv, LinkInv, [Next]_vars
  PROVE  LinkInv'
  <1>1. Buffered!Inv'
    <2>1. CASE Conn!Renew
      <3>1. /\ w' = <<>> /\ werr' = FALSE /\ timed' = FALSE /\ closed' = FALSE
            /\ net' = "ok" /\ wire' = <<>> /\ written' = <<>>
        BY <2>1 DEF Conn!Renew
      <3>2. <<>> \in Seq(Unit) /\ Len(<<>>) = 0 /\ <<>> \o <<>> = <<>> /\ 0 <= BufSize /\ 0 \in 0 .. 0
        BY Buffered!EmptySeq, Buffered!ConcatEmptySeq, ForwarderAssumption
      <3>3. SubSeq(<<>>, 1, 0) = <<>>
        BY <3>2, Buffered!SubSeqFull
      <3>4. Buffered!TypeOK'
        BY <3>1, <3>2, Zenon DEF Buffered!TypeOK, Buffered!NetStates
      <3>5. Buffered!Stream'
        BY <3>1, <3>2, <3>3, Zenon DEF Buffered!Stream
      <3>6. Buffered!BufferedConnAssumption'
        BY LinkAssumption DEF Buffered!BufferedConnAssumption
      <3> QED
        BY <3>1, <3>4, <3>5, <3>6, Zenon DEF Buffered!Inv, Buffered!Quiet
    <2>2. CASE [Buffered!Next]_Buffered!connVars
      BY <2>2, Buffered!NextInv, Zenon DEF LinkInv
    <2> QED
      BY <2>1, <2>2, LinkSteps
  <1>2. gone' \in Seq(Unit)
    <2>1. wire \in Seq(Unit) /\ gone \in Seq(Unit)
      BY DEF LinkInv, Buffered!Inv, Buffered!TypeOK
    <2>2. gone \o wire \in Seq(Unit)
      BY <2>1, Buffered!ConcatProperties
    <2>3. gone' = gone \/ gone' = gone \o wire
      BY Zenon DEF Next, Worker, StartOK, ConnectOK, Dial, StartError, Stop, Check, ConnectError, TakeQuit, TakeMsg,
         Send, Process, ResetDeadline, ProcessOK, ProcessError, CloseConn, FlushTick, NetStep, vars
    <2> QED
      BY <2>1, <2>2, <2>3, Zenon
  <1>3. (pc = "start" => w = <<>>)'
    <2>1. pc' = "start" => pc = "start" /\ w' = w
      BY DEF Next, Worker, StartOK, ConnectOK, StartError, Stop, Check, ConnectError, TakeQuit, TakeMsg,
         Send, Process, ResetDeadline, ProcessOK, ProcessError, CloseConn, FlushTick, NetStep, vars, connVars, Goto,
         Conn!NetStep, Conn!SetWriteDeadline
    <2> QED
      BY <2>1 DEF LinkInv
  <1>4. (connected => ~closed)'
    <2>1. CASE Conn!Renew
      BY <2>1 DEF Conn!Renew
    <2>2. CASE CloseConn
      BY <2>2 DEF CloseConn
    <2>3. CASE ~Conn!Renew /\ ~CloseConn
      <3>1. UNCHANGED <<connected, closed>>
        BY <2>3 DEF Next, Worker, StartOK, ConnectOK, Dial, StartError, Stop, Check, ConnectError, TakeQuit, TakeMsg,
           Send, Process, ResetDeadline, ProcessOK, ProcessError, FlushTick, NetStep, vars, connVars,
           Conn!SetWriteDeadline, Conn!WriteOK, Conn!WriteError, Conn!FlushTick, Conn!NetStep
      <3> QED
        BY <3>1 DEF LinkInv
    <2> QED
      BY <2>1, <2>2, <2>3, Zenon
  <1>5. (cur = <<>> \/ cur = <<cur[1]>>)'
    <2>1. cur' \in {cur, <<>>, <<next>>, <<Head(ch)>>}
      BY Zenon DEF Next, Worker, StartOK, ConnectOK, StartError, Stop, Check, ConnectError, TakeQuit, TakeMsg,
         Send, Process, ResetDeadline, ProcessOK, ProcessError, CloseConn, FlushTick, NetStep, vars
    <2> QED
      BY <2>1 DEF LinkInv
  <1> QED
    BY <1>1, <1>2, <1>3, <1>4, <1>5, Zenon DEF LinkInv

LEMMA LinkInit == Init => LinkInv
  <1> SUFFICES ASSUME Init PROVE LinkInv
    OBVIOUS
  <1>1. Buffered!Fresh
    BY DEF Init, Conn!Fresh, Buffered!Fresh
  <1>2. Buffered!Inv
    BY <1>1, LinkAssumption, Buffered!FreshInv, Zenon
  <1>3. <<>> \in Seq(Unit)
    BY Buffered!EmptySeq
  <1> QED
    BY <1>1, <1>2, <1>3, Zenon DEF Init, LinkInv, Buffered!Fresh

-----------------------------------------------------------------------------
\* Induction over the naturals, for a set.
LEMMA Least ==
  ASSUME NEW T \in SUBSET Nat, T # {}
  PROVE  \E n \in T : \A m \in T : n <= m
  <1>1. IsWellFoundedOn(OpToRel(<, Nat), Nat)
    BY NatLessThanWellFounded, Zenon
  <1>2. PICK n \in T : \A m \in T : ~(<<m, n>> \in OpToRel(<, Nat))
    BY <1>1, WFMin, Zenon
  <1>3. \A m \in T : ~(m < n)
    BY <1>2, Zenon DEF OpToRel
  <1> QED
    BY <1>3

LEMMA SetInduction ==
  ASSUME NEW S, 0 \in S, \A n \in Nat : n \in S => n + 1 \in S
  PROVE  Nat \subseteq S
  <1> SUFFICES ASSUME Nat \ S # {} PROVE FALSE
    OBVIOUS
  <1>1. PICK n \in Nat \ S : \A m \in Nat \ S : n <= m
    BY Least, Zenon
  <1>2. n # 0 /\ n - 1 \in Nat
    BY <1>1
  <1>3. n - 1 \in S
    BY <1>1, <1>2
  <1> QED
    BY <1>1, <1>2, <1>3

-----------------------------------------------------------------------------
\* The units of the first n messages of ms, for every n.
UpTo(ms, n, f) ==
  f = [i \in 0 .. n |-> IF i = 0 THEN <<>> ELSE f[i - 1] \o Encode(ms[i])]

LEMMA UpToExists == ASSUME NEW ms, NEW n \in Nat PROVE \E f : UpTo(ms, n, f)
  <1> DEFINE S == {m \in Nat : \E f : UpTo(ms, m, f)}
  <1>1. 0 \in S
    <2>1. UpTo(ms, 0, [i \in 0 .. 0 |-> <<>>])
      BY DEF UpTo
    <2> QED
      BY <2>1
  <1>2. ASSUME NEW m \in Nat, m \in S PROVE m + 1 \in S
    <2>1. PICK f : UpTo(ms, m, f)
      BY <1>2
    <2> DEFINE g == [i \in 0 .. m + 1 |-> IF i <= m THEN f[i] ELSE f[i - 1] \o Encode(ms[i])]
    <2>2. \A i \in 0 .. m : f[i] = IF i = 0 THEN <<>> ELSE f[i - 1] \o Encode(ms[i])
      BY <2>1, Zenon DEF UpTo
    <2>3. ASSUME NEW i \in 0 .. m + 1
          PROVE  g[i] = IF i = 0 THEN <<>> ELSE g[i - 1] \o Encode(ms[i])
      <3>1. i # 0 => i - 1 \in 0 .. m + 1 /\ i - 1 <= m /\ g[i - 1] = f[i - 1]
        OBVIOUS
      <3>2. CASE i <= m
        <4>1. g[i] = f[i] /\ i \in 0 .. m
          BY <3>2
        <4> QED
          BY <2>2, <3>1, <4>1, Zenon
      <3>3. CASE ~(i <= m)
        <4>1. g[i] = f[i - 1] \o Encode(ms[i])
          BY <3>3, Zenon
        <4>2. i # 0
          BY <3>3
        <4> QED
          BY <3>1, <4>1, <4>2, Zenon
      <3> QED
        BY <3>2, <3>3
    <2>4. UpTo(ms, m + 1, g)
      BY <2>3, Zenon DEF UpTo
    <2> QED
      BY <2>4
  <1> HIDE DEF S
  <1>3. Nat \subseteq S
    BY <1>1, <1>2, SetInduction
  <1> QED
    BY <1>3 DEF S

\* Units is the last of them.
LEMMA UnitsUpTo ==
  ASSUME NEW ms \in Seq(Msg)
  PROVE  \E f : UpTo(ms, Len(ms), f) /\ Units(ms) = f[Len(ms)]
  <1> DEFINE f == CHOOSE f : f = [i \in 0 .. Len(ms) |-> IF i = 0 THEN <<>> ELSE f[i - 1] \o Encode(ms[i])]
  <1>1. Len(ms) \in Nat
    BY Buffered!LenProperties
  <1>2. Units(ms) = f[Len(ms)]
    BY Zenon DEF Units
  <1>3. UpTo(ms, Len(ms), f)
    BY <1>1, UpToExists, Zenon DEF UpTo
  <1> QED
    BY <1>2, <1>3, Zenon

\* The loop's values are sequences of units, and do not depend on what follows.
LEMMA UpToAgree ==
  ASSUME NEW s \in Seq(Msg), NEW t \in Seq(Msg), NEW f, NEW g, Len(s) <= Len(t),
         \A i \in 1 .. Len(s) : s[i] = t[i], UpTo(s, Len(s), f), UpTo(t, Len(t), g)
  PROVE  \A n \in 0 .. Len(s) : f[n] = g[n] /\ f[n] \in Seq(Unit)
  <1> DEFINE S == {n \in Nat : n <= Len(s) => f[n] = g[n] /\ f[n] \in Seq(Unit)}
  <1>1. Len(s) \in Nat /\ Len(t) \in Nat
    BY Buffered!LenProperties
  <1>2. \A i \in 0 .. Len(s) : f[i] = IF i = 0 THEN <<>> ELSE f[i - 1] \o Encode(s[i])
    BY Zenon DEF UpTo
  <1>3. \A i \in 0 .. Len(t) : g[i] = IF i = 0 THEN <<>> ELSE g[i - 1] \o Encode(t[i])
    BY Zenon DEF UpTo
  <1>4. 0 \in S
    <2>1. 0 \in 0 .. Len(s) /\ 0 \in 0 .. Len(t)
      BY <1>1
    <2>2. f[0] = <<>> /\ g[0] = <<>>
      BY <1>2, <1>3, <2>1, Zenon
    <2>3. <<>> \in Seq(Unit)
      BY Buffered!EmptySeq
    <2> QED
      BY <2>2, <2>3, Zenon
  <1>5. ASSUME NEW n \in Nat, n \in S PROVE n + 1 \in S
    <2> SUFFICES ASSUME n + 1 <= Len(s) PROVE f[n + 1] = g[n + 1] /\ f[n + 1] \in Seq(Unit)
      OBVIOUS
    <2>1. n + 1 \in 1 .. Len(s) /\ n + 1 \in 0 .. Len(s) /\ n + 1 \in 0 .. Len(t) /\ n + 1 # 0 /\ (n + 1) - 1 = n
      BY <1>1
    <2>2. f[n] = g[n] /\ f[n] \in Seq(Unit)
      BY <1>1, <1>5
    <2>3. f[n + 1] = f[n] \o Encode(s[n + 1]) /\ g[n + 1] = g[n] \o Encode(t[n + 1])
      BY <1>2, <1>3, <2>1, Zenon
    <2>4. s[n + 1] = t[n + 1] /\ s[n + 1] \in Msg
      BY <2>1, Buffered!ElementOfSeq
    <2>5. Encode(s[n + 1]) \in Seq(Unit)
      BY <2>4, EncodeType
    <2>6. f[n] \o Encode(s[n + 1]) \in Seq(Unit)
      BY <2>2, <2>5, Buffered!ConcatProperties
    <2> QED
      BY <2>2, <2>3, <2>4, <2>6, Zenon
  <1> HIDE DEF S
  <1>6. Nat \subseteq S
    BY <1>4, <1>5, SetInduction
  <1> QED
    BY <1>1, <1>6 DEF S

LEMMA UnitsType == ASSUME NEW ms \in Seq(Msg) PROVE Units(ms) \in Seq(Unit)
  <1>1. PICK f : UpTo(ms, Len(ms), f) /\ Units(ms) = f[Len(ms)]
    BY UnitsUpTo, Zenon
  <1>2. Len(ms) \in Nat /\ Len(ms) \in 0 .. Len(ms)
    BY Buffered!LenProperties
  <1> QED
    BY <1>1, <1>2, UpToAgree

LEMMA UnitsNone == Units(<<>>) = <<>>
  <1>1. <<>> \in Seq(Msg) /\ Len(<<>>) = 0
    BY Buffered!EmptySeq
  <1>2. PICK f : UpTo(<<>>, 0, f) /\ Units(<<>>) = f[0]
    BY <1>1, UnitsUpTo, Zenon
  <1> QED
    BY <1>2 DEF UpTo

\* The units of one message more.
LEMMA UnitsAppend ==
  ASSUME NEW s \in Seq(Msg), NEW m \in Msg
  PROVE  Units(Append(s, m)) = Units(s) \o Encode(m)
  <1> DEFINE t == Append(s, m)
  <1>1. /\ Len(s) \in Nat /\ t \in Seq(Msg) /\ Len(t) = Len(s) + 1
        /\ \A i \in 1 .. Len(s) : t[i] = s[i]
        /\ t[Len(s) + 1] = m
    BY Buffered!LenProperties, Buffered!AppendProperties
  <1> HIDE DEF t
  <1>2. PICK f : UpTo(s, Len(s), f) /\ Units(s) = f[Len(s)]
    BY UnitsUpTo, Zenon
  <1>3. PICK g : UpTo(t, Len(t), g) /\ Units(t) = g[Len(t)]
    BY <1>1, UnitsUpTo, Zenon
  <1>4. f[Len(s)] = g[Len(s)]
    <2>1. Len(s) <= Len(t) /\ Len(s) \in 0 .. Len(s) /\ \A i \in 1 .. Len(s) : s[i] = t[i]
      BY <1>1
    <2> QED
      BY <1>1, <1>2, <1>3, <2>1, UpToAgree
  <1>5. g[Len(t)] = g[Len(s)] \o Encode(m)
    <2>1. Len(t) \in 0 .. Len(t) /\ Len(t) # 0 /\ Len(t) - 1 = Len(s) /\ t[Len(t)] = m
      BY <1>1
    <2>2. g[Len(t)] = IF Len(t) = 0 THEN <<>> ELSE g[Len(t) - 1] \o Encode(t[Len(t)])
      BY <1>3, <2>1, Zenon DEF UpTo
    <2> QED
      BY <2>1, <2>2, Zenon
  <1> QED
    BY <1>2, <1>3, <1>4, <1>5, Zenon DEF t

LEMMA UnitsOne == ASSUME NEW m \in Msg PROVE Units(<<m>>) = Encode(m)
  <1>1. <<>> \in Seq(Msg) /\ Append(<<>>, m) = <<m>> /\ Encode(m) \in Seq(Unit)
    BY Buffered!EmptySeq, EncodeType
  <1>2. Units(Append(<<>>, m)) = Units(<<>>) \o Encode(m)
    BY <1>1, UnitsAppend, Zenon
  <1>3. <<>> \o Encode(m) = Encode(m)
    BY <1>1, Buffered!ConcatEmptySeq
  <1> QED
    BY <1>1, <1>2, <1>3, UnitsNone, Zenon

\* The units of two sequences of messages, one after the other.
LEMMA UnitsConcat ==
  ASSUME NEW s \in Seq(Msg), NEW t \in Seq(Msg)
  PROVE  Units(s \o t) = Units(s) \o Units(t)
  <1> DEFINE Holds(x) == Units(s \o x) = Units(s) \o Units(x)
             S == {n \in Nat : \A x \in Seq(Msg) : Len(x) = n => Holds(x)}
  <1>1. Units(s) \in Seq(Unit)
    BY UnitsType
  <1>2. 0 \in S
    <2>1. s \o <<>> = s /\ Units(s) \o <<>> = Units(s)
      BY <1>1, Buffered!ConcatEmptySeq
    <2>2. Holds(<<>>)
      BY <2>1, UnitsNone, Zenon
    <2>3. \A x \in Seq(Msg) : Len(x) = 0 => x = <<>>
      BY Buffered!EmptySeq
    <2> HIDE DEF Holds
    <2> QED
      BY <2>2, <2>3
  <1>3. ASSUME NEW n \in Nat, n \in S PROVE n + 1 \in S
    <2> SUFFICES ASSUME NEW x \in Seq(Msg), Len(x) = n + 1 PROVE Holds(x)
      OBVIOUS
    <2> DEFINE y == SubSeq(x, 1, n)
               m == x[n + 1]
    <2>1. /\ y \in Seq(Msg) /\ Len(y) = n /\ m \in Msg
          /\ \A i \in 1 .. n : y[i] = x[i]
      <3>1. n + 1 \in 1 .. Len(x) /\ n <= Len(x)
        OBVIOUS
      <3> QED
        BY <3>1, Buffered!ElementOfSeq, Buffered!SubSeqType
    <2>2. m = x[n + 1]
      OBVIOUS
    <2>3. Holds(y)
      BY <1>3, <2>1, Zenon
    <2> HIDE DEF y, m
    <2>4. x = Append(y, m)
      <3>1. /\ Append(y, m) \in Seq(Msg) /\ Len(Append(y, m)) = n + 1
            /\ \A i \in 1 .. n : Append(y, m)[i] = y[i]
            /\ Append(y, m)[n + 1] = m
        BY <2>1, Buffered!AppendProperties
      <3>2. \A i \in 1 .. n + 1 : x[i] = Append(y, m)[i]
        BY <2>1, <2>2, <3>1
      <3> QED
        BY <3>1, <3>2, Buffered!SeqEqual
    <2>5. s \o x = Append(s \o y, m) /\ s \o y \in Seq(Msg)
      <3>1. s \o y \in Seq(Msg) /\ <<m>> \in Seq(Msg)
        BY <2>1, Buffered!ConcatProperties
      <3>2. Append(s \o y, m) = (s \o y) \o <<m>> /\ Append(y, m) = y \o <<m>>
        BY <2>1, <3>1, Buffered!AppendIsConcat
      <3>3. (s \o y) \o <<m>> = s \o (y \o <<m>>)
        <4>1. s \in Seq(Msg) /\ y \in Seq(Msg) /\ <<m>> \in Seq(Msg)
          BY <2>1, <3>1, Zenon
        <4> QED
          BY ONLY <4>1, Assoc, Zenon
      <3> QED
        BY <2>4, <3>1, <3>2, <3>3, Zenon
    <2>6. /\ Units(s \o x) = Units(s \o y) \o Encode(m)
          /\ Units(x) = Units(y) \o Encode(m)
      BY <2>1, <2>4, <2>5, UnitsAppend, Zenon
    <2>7. Units(y) \in Seq(Unit) /\ Encode(m) \in Seq(Unit)
      BY <2>1, UnitsType, EncodeType
    <2>8. Buffered!Regroups(Units(s), Units(y), Encode(m))
      BY <1>1, <2>7, Buffered!Assoc, Zenon
    <2> QED
      BY <2>3, <2>6, <2>8, Zenon DEF Buffered!Regroups
  <1> HIDE DEF S
  <1>4. Nat \subseteq S
    BY <1>2, <1>3, SetInduction
  <1>5. Len(t) \in S
    BY <1>4, Buffered!LenProperties
  <1> QED
    BY <1>5, Zenon DEF S

-----------------------------------------------------------------------------
\* What a step does to the stream: nothing, ...
Same ==
  /\ Pending' = Pending /\ Delivered' = Delivered /\ accepted' = accepted
  /\ ~lossy' /\ ~werr' => ~lossy /\ ~werr

\* ... or one message more is pending, ...
Grows ==
  /\ \E m \in Msg : Pending' = Pending \o Encode(m) /\ accepted' = Append(accepted, m)
  /\ Delivered' = Delivered
  /\ UNCHANGED <<lossy, werr>>

\* ... or the first units leave: all of them, unless the connection fails.
Leave(x, r, k) ==
  /\ Pending = x \o r /\ Pending' = r
  /\ Delivered' = Delivered \o SubSeq(x, 1, k)
  /\ accepted' = accepted
  /\ werr' \/ (k = Len(x) /\ UNCHANGED <<lossy, werr>>)

Gives == \E x, r \in Seq(Unit) : \E k \in 0 .. Len(x) : Leave(x, r, k)

\* Everything the stream is made of is a sequence of units.
LEMMA StreamTypes ==
  ASSUME FifoInv, LinkInv
  PROVE  /\ w \in Seq(Unit) /\ wire \in Seq(Unit) /\ gone \in Seq(Unit)
         /\ Units(cur) \in Seq(Unit) /\ Units(ch) \in Seq(Unit)
         /\ Units(cur) \o Units(ch) \in Seq(Unit)
         /\ Delivered \in Seq(Unit) /\ Pending \in Seq(Unit)
         /\ werr \in BOOLEAN
  <1>1. w \in Seq(Unit) /\ wire \in Seq(Unit) /\ gone \in Seq(Unit) /\ werr \in BOOLEAN
    BY DEF LinkInv, Buffered!Inv, Buffered!TypeOK
  <1>2. Units(cur) \in Seq(Unit) /\ Units(ch) \in Seq(Unit)
    BY UnitsType DEF FifoInv
  <1> DEFINE b == IF werr THEN <<>> ELSE w
  <1>3. b \in Seq(Unit)
    BY <1>1, Buffered!EmptySeq
  <1> HIDE DEF b
  <1>4. /\ gone \o wire \in Seq(Unit)
        /\ Units(cur) \o Units(ch) \in Seq(Unit)
        /\ b \o Units(cur) \in Seq(Unit)
    BY <1>1, <1>2, <1>3, Buffered!ConcatProperties
  <1>5. (b \o Units(cur)) \o Units(ch) \in Seq(Unit)
    BY <1>2, <1>4, Buffered!ConcatProperties
  <1> QED
    BY <1>1, <1>2, <1>4, <1>5, Zenon DEF Delivered, Pending, b

\* The empty sequence, and grouping, for sequences of units.
LEMMA UnitAlgebra ==
  /\ <<>> \in Seq(Unit)
  /\ \A x \in Seq(Unit) : <<>> \o x = x /\ x \o <<>> = x
  /\ \A x, y \in Seq(Unit) : x \o y \in Seq(Unit)
  /\ \A x, y, z \in Seq(Unit) : Buffered!Regroups(x, y, z)
  /\ \A x \in Seq(Unit) : Len(x) \in Nat /\ 0 \in 0 .. Len(x) /\ Len(x) \in 0 .. Len(x)
                          /\ SubSeq(x, 1, Len(x)) = x /\ SubSeq(x, 1, 0) = <<>>
  <1>1. <<>> \in Seq(Unit)
    BY Buffered!EmptySeq
  <1>2. \A x \in Seq(Unit) : <<>> \o x = x /\ x \o <<>> = x
    BY Buffered!ConcatEmptySeq
  <1>3. \A x, y \in Seq(Unit) : x \o y \in Seq(Unit)
    BY Buffered!ConcatProperties
  <1>4. \A x, y, z \in Seq(Unit) : Buffered!Regroups(x, y, z)
    BY Buffered!Assoc, Zenon
  <1>5. ASSUME NEW x \in Seq(Unit)
        PROVE  Len(x) \in Nat /\ 0 \in 0 .. Len(x) /\ Len(x) \in 0 .. Len(x)
               /\ SubSeq(x, 1, Len(x)) = x /\ SubSeq(x, 1, 0) = <<>>
    <2>1. Len(x) \in Nat
      BY Buffered!LenProperties
    <2>2. SubSeq(x, 1, Len(x)) = x
      BY Buffered!SubSeqFull
    <2>3. SubSeq(x, 1, 0) = <<>>
      BY Buffered!SubSeqEmpty
    <2> QED
      BY <2>1, <2>2, <2>3
  <1> QED
    BY <1>1, <1>2, <1>3, <1>4, <1>5, Zenon

\* Steps that change neither buffer, channel nor message in hand.
LEMMA StreamUntouched ==
  ASSUME UNCHANGED <<w, werr, wire, gone, cur, ch, accepted, lossy>>
  PROVE  Same
  BY Zenon DEF Same, Pending, Delivered

\* A new connection finds the buffer of the old one empty, or given up.
LEMMA StreamDial ==
  ASSUME FifoInv, ConnInv, LinkInv, StartOK \/ ConnectOK
  PROVE  Same
  <1>1. /\ w' = <<>> /\ werr' = FALSE /\ wire' = <<>> /\ gone' = gone \o wire
        /\ lossy' = (lossy \/ werr) /\ UNCHANGED <<ch, cur, accepted>>
    BY DEF StartOK, ConnectOK, Dial, Conn!Renew
  <1>2. werr \/ w = <<>>
    <2>1. CASE StartOK
      BY <2>1, Zenon DEF StartOK, Goto, LinkInv
    <2>2. CASE ConnectOK
      BY <2>2, Zenon DEF ConnectOK, Goto, ConnInv, LinkInv, Buffered!Inv, Buffered!Quiet
    <2> QED
      BY <2>1, <2>2
  <1>3. Pending' = Pending
    BY <1>1, <1>2, Zenon DEF Pending
  <1>4. (gone \o wire) \o <<>> = gone \o wire
    BY StreamTypes, UnitAlgebra, Zenon DEF Delivered
  <1>5. Delivered' = Delivered
    BY <1>1, <1>4, Zenon DEF Delivered
  <1> QED
    BY <1>1, <1>3, <1>5, Zenon DEF Same

\* The oldest message of the channel comes in hand.
LEMMA StreamTake ==
  ASSUME FifoInv, LinkInv, TakeMsg
  PROVE  Same
  <1>1. /\ ch \in Seq(Msg) /\ ch # <<>> /\ cur = <<>> /\ cur' = <<Head(ch)>> /\ ch' = Tail(ch)
        /\ UNCHANGED <<w, werr, wire, gone, accepted, lossy>>
    BY DEF TakeMsg, Goto, FifoInv, connVars
  <1>2. /\ <<Head(ch)>> \in Seq(Msg) /\ Tail(ch) \in Seq(Msg)
        /\ <<Head(ch)>> \o Tail(ch) = ch
    <2>1. Head(ch) \in Msg /\ Tail(ch) \in Seq(Msg) /\ Len(Tail(ch)) = Len(ch) - 1 /\ Len(ch) \in Nat
      BY <1>1, Buffered!HeadTailProperties, Buffered!LenProperties
    <2>2. <<Head(ch)>> \in Seq(Msg)
      BY ONLY <2>1
    <2>3. /\ Len(<<Head(ch)>> \o Tail(ch)) = Len(ch)
          /\ <<Head(ch)>> \o Tail(ch) \in Seq(Msg)
          /\ \A i \in 1 .. Len(ch) : (<<Head(ch)>> \o Tail(ch))[i] = ch[i]
      BY <1>1, <2>1, <2>2, Buffered!ConcatProperties, Buffered!HeadTailProperties
    <2> QED
      BY <1>1, <2>1, <2>2, <2>3, Buffered!SeqEqual
  <1> DEFINE b == IF werr THEN <<>> ELSE w
             h == Units(<<Head(ch)>>)
             t == Units(Tail(ch))
  <1>3. Units(ch) = h \o t
    BY <1>2, UnitsConcat, Zenon
  <1>4. b \in Seq(Unit) /\ h \in Seq(Unit) /\ t \in Seq(Unit)
    BY <1>2, StreamTypes, UnitAlgebra, UnitsType, Zenon
  <1>5. Pending = (b \o <<>>) \o Units(ch)
    BY <1>1, UnitsNone, Zenon DEF Pending
  <1>6. Pending' = (b \o h) \o t
    BY <1>1, Zenon DEF Pending
  <1> HIDE DEF b, h, t
  <1>7. Buffered!Regroups(b, h, t) /\ b \o <<>> = b
    BY <1>4, UnitAlgebra, Zenon
  <1>8. Pending' = Pending
    BY <1>3, <1>5, <1>6, <1>7, Zenon DEF Buffered!Regroups
  <1> QED
    BY <1>1, <1>8, Zenon DEF Same, Delivered

\* A message the channel took is pending after all others.
LEMMA StreamSend ==
  ASSUME FifoInv, LinkInv, Send
  PROVE  Same \/ Grows
  <1>1. next \in Msg /\ UNCHANGED <<w, werr, wire, gone, lossy>>
    BY DEF Send, connVars
  <1> DEFINE b == IF werr THEN <<>> ELSE w
             e == Encode(next)
  <1>2. b \in Seq(Unit) /\ e \in Seq(Unit) /\ b \o Units(cur) \in Seq(Unit)
    BY <1>1, StreamTypes, UnitAlgebra, EncodeType, Zenon
  <1>3. Delivered' = Delivered
    BY <1>1, Zenon DEF Delivered
  <1>4. CASE ch' = Append(ch, next) /\ accepted' = Append(accepted, next) /\ UNCHANGED <<pc, cur>>
    <2>1. Units(ch') = Units(ch) \o e
      BY <1>1, <1>4, UnitsAppend, Zenon DEF FifoInv
    <2>2. Pending = (b \o Units(cur)) \o Units(ch)
      BY Zenon DEF Pending
    <2>3. Pending' = (b \o Units(cur)) \o Units(ch')
      BY <1>1, <1>4, Zenon DEF Pending
    <2>4. Buffered!Regroups(b \o Units(cur), Units(ch), e)
      BY <1>2, StreamTypes, UnitAlgebra, Zenon
    <2> HIDE DEF b
    <2>5. Pending' = Pending \o e
      BY <2>1, <2>2, <2>3, <2>4, Zenon DEF Buffered!Regroups
    <2> QED
      BY <1>1, <1>3, <1>4, <2>5, Zenon DEF Grows
  <1>5. CASE cap = 0 /\ Goto("loop", "process") /\ cur' = <<next>> /\ accepted' = Append(accepted, next) /\ UNCHANGED ch
    <2>1. ch = <<>> /\ cur = <<>>
      BY <1>5, Buffered!EmptySeq, Buffered!LenProperties DEF FifoInv, Goto
    <2>2. Units(cur) = <<>> /\ Units(ch) = <<>> /\ Units(cur') = e /\ Units(ch') = <<>>
      BY <1>1, <1>5, <2>1, UnitsNone, UnitsOne, Zenon
    <2>3. Pending = (b \o <<>>) \o <<>>
      BY <2>2, Zenon DEF Pending
    <2>4. Pending' = (b \o e) \o <<>>
      BY <1>1, <2>2, Zenon DEF Pending
    <2>5. b \o <<>> = b /\ (b \o e) \o <<>> = b \o e
      BY <1>2, UnitAlgebra, Zenon
    <2> HIDE DEF b
    <2>6. Pending' = Pending \o e
      BY <2>3, <2>4, <2>5, Zenon
    <2> QED
      BY <1>1, <1>3, <1>5, <2>6, Zenon DEF Grows
  <1>6. CASE UNCHANGED <<pc, cur, ch, accepted>>
    BY <1>1, <1>6, StreamUntouched, Zenon
  <1> QED
    BY <1>4, <1>5, <1>6, Zenon DEF Send

\* What the socket took follows what was delivered before.
LEMMA DeliveredGrows ==
  ASSUME FifoInv, LinkInv, NEW e \in Seq(Unit), wire' = wire \o e, gone' = gone
  PROVE  Delivered' = Delivered \o e
  <1>1. Buffered!Regroups(gone, wire, e)
    BY StreamTypes, UnitAlgebra, Zenon
  <1> QED
    BY <1>1, Zenon DEF Delivered, Buffered!Regroups

\* A flush gives the buffer to the socket, or part of it and fails.
LEMMA StreamFlush ==
  ASSUME FifoInv, LinkInv, Conn!Flush, UNCHANGED <<cur, ch, gone, lossy, accepted>>
  PROVE  Same \/ Gives
  <1> DEFINE r == Units(cur) \o Units(ch)
  <1>1. w \in Seq(Unit) /\ r \in Seq(Unit) /\ werr \in BOOLEAN
    BY StreamTypes, Zenon
  <1>2. ~werr => Pending = w \o r
    <2>1. Buffered!Regroups(w, Units(cur), Units(ch))
      BY StreamTypes, UnitAlgebra, Zenon
    <2> QED
      BY <2>1, Zenon DEF Pending, Buffered!Regroups
  <1>3. werr' \/ w' = <<>> => Pending' = r
    <2>1. werr' \/ w' = <<>> => Pending' = (<<>> \o Units(cur)) \o Units(ch)
      BY Zenon DEF Pending
    <2>2. <<>> \o Units(cur) = Units(cur)
      BY StreamTypes, UnitAlgebra, Zenon
    <2> QED
      BY <2>1, <2>2, Zenon
  <1> HIDE DEF r
  <1>4. CASE UNCHANGED <<w, werr, wire>>
    BY <1>4, StreamUntouched, Zenon
  <1>5. CASE ~werr /\ wire' = wire \o w /\ w' = <<>> /\ werr' = werr
    <2>1. Len(w) \in 0 .. Len(w) /\ SubSeq(w, 1, Len(w)) = w
      BY <1>1, UnitAlgebra, Zenon
    <2>2. Delivered' = Delivered \o w
      BY <1>1, <1>5, DeliveredGrows, Zenon
    <2>3. Leave(w, r, Len(w))
      BY <1>2, <1>3, <1>5, <2>1, <2>2, Zenon DEF Leave
    <2> QED
      BY <1>1, <2>1, <2>3, Zenon DEF Gives
  <1>6. ASSUME ~werr, werr', NEW k \in 0 .. Len(w) - 1, wire' = wire \o SubSeq(w, 1, k)
        PROVE  Gives
    <2>1. k \in 0 .. Len(w) /\ SubSeq(w, 1, k) \in Seq(Unit)
      BY <1>1, Buffered!LenProperties, Buffered!SubSeqType
    <2>2. Delivered' = Delivered \o SubSeq(w, 1, k)
      BY <1>6, <2>1, DeliveredGrows, Zenon
    <2>3. Leave(w, r, k)
      BY <1>2, <1>3, <1>6, <2>2, Zenon DEF Leave
    <2> QED
      BY <1>1, <2>1, <2>3, Zenon DEF Gives
  <1> QED
    BY <1>4, <1>5, <1>6, Zenon DEF Conn!Flush

\* In "write" the message in hand is what is written, and is split in two.
LEMMA InHand ==
  ASSUME FifoInv, LinkInv, pc = "write"
  PROVE  LET p == Encode(cur[1])
         IN  /\ Units(cur) = p /\ p \in Seq(Unit)
             /\ Conn!Emitted(p) \in Seq(Unit) /\ Conn!Kept(p) \in Seq(Unit)
             /\ Conn!Emitted(p) \o Conn!Kept(p) = w \o p
  <1> DEFINE p == Encode(cur[1])
  <1>1. cur[1] \in Msg /\ cur = <<cur[1]>>
    BY DEF FifoInv, LinkInv
  <1>2. Units(cur) = p /\ p \in Seq(Unit)
    BY <1>1, UnitsOne, EncodeType, Zenon
  <1> HIDE DEF p
  <1>3. /\ Buffered!Emitted(p) \in Seq(Unit) /\ Buffered!Kept(p) \in Seq(Unit)
        /\ Buffered!Emitted(p) \o Buffered!Kept(p) = w \o p
    BY <1>2, Buffered!WriteSplits, Zenon DEF LinkInv, Buffered!Inv
  <1>4. Buffered!Emitted(p) = Conn!Emitted(p) /\ Buffered!Kept(p) = Conn!Kept(p)
    BY Zenon DEF Buffered!Emitted, Buffered!Kept, Conn!Emitted, Conn!Kept
  <1> QED
    BY <1>2, <1>3, <1>4, Zenon DEF p

\* A write without an error gives what does not fit the buffer.
LEMMA StreamWriteOK ==
  ASSUME FifoInv, LinkInv, NEW aged \in BOOLEAN, ProcessOK(aged)
  PROVE  Gives
  <1> DEFINE e == Conn!Emitted(Encode(cur[1]))
             q == Conn!Kept(Encode(cur[1]))
             v == Units(ch)
  <1>1. /\ pc = "write" /\ ~werr /\ wire' = wire \o e /\ w' = q /\ cur' = <<>>
        /\ UNCHANGED <<werr, ch, gone, lossy, accepted>>
    BY DEF ProcessOK, Goto, Conn!WriteOK
  <1>2. e \in Seq(Unit) /\ q \in Seq(Unit) /\ e \o q = w \o Units(cur)
    BY <1>1, InHand, Zenon
  <1>3. Pending = (w \o Units(cur)) \o v
    BY <1>1, Zenon DEF Pending
  <1>4. Pending' = (q \o <<>>) \o v
    BY <1>1, UnitsNone, Zenon DEF Pending
  <1>5. v \in Seq(Unit)
    BY StreamTypes, Zenon
  <1> HIDE DEF e, q, v
  <1>6. /\ Buffered!Regroups(e, q, v) /\ q \o <<>> = q /\ q \o v \in Seq(Unit)
        /\ Len(e) \in 0 .. Len(e) /\ SubSeq(e, 1, Len(e)) = e
    BY <1>2, <1>5, UnitAlgebra, Zenon
  <1>7. Pending = e \o (q \o v) /\ Pending' = q \o v
    BY <1>2, <1>3, <1>4, <1>6, Zenon DEF Buffered!Regroups
  <1>8. Delivered' = Delivered \o e
    BY <1>1, <1>2, DeliveredGrows, Zenon
  <1>9. Leave(e, q \o v, Len(e))
    BY <1>1, <1>6, <1>7, <1>8, Zenon DEF Leave
  <1> QED
    BY <1>2, <1>6, <1>9, Zenon DEF Gives

\* A failed write gives up the buffer and the message, after the units the
\* socket still took.
LEMMA StreamWriteError ==
  ASSUME FifoInv, LinkInv, ProcessError
  PROVE  Gives
  <1> DEFINE p == Encode(cur[1])
             e == Conn!Emitted(p)
             q == Conn!Kept(p)
             u == Units(cur)
             v == Units(ch)
  <1>1. /\ pc = "write" /\ cur' = <<>> /\ UNCHANGED <<ch, gone, lossy, accepted>>
        /\ Conn!WriteError(p)
    BY DEF ProcessError, Goto
  <1>2. e \in Seq(Unit) /\ q \in Seq(Unit) /\ e \o q = w \o u
    BY <1>1, InHand, Zenon
  <1>3. w \in Seq(Unit) /\ u \in Seq(Unit) /\ v \in Seq(Unit) /\ w \o u \in Seq(Unit)
    BY StreamTypes, UnitAlgebra, Zenon
  <1>4. werr' => Pending' = v
    <2>1. werr' => Pending' = (<<>> \o <<>>) \o v
      BY <1>1, UnitsNone, Zenon DEF Pending
    <2> QED
      BY <1>3, <2>1, UnitAlgebra, Zenon
  <1>5. Pending = ((IF werr THEN <<>> ELSE w) \o u) \o v
    BY Zenon DEF Pending
  <1>6. CASE werr /\ UNCHANGED <<w, werr, wire>>
    <2>1. Pending = u \o v
      BY <1>3, <1>5, <1>6, UnitAlgebra, Zenon
    <2>2. Delivered' = Delivered \o <<>>
      BY <1>1, <1>6, StreamTypes, UnitAlgebra, Zenon DEF Delivered
    <2>3. SubSeq(u, 1, 0) = <<>> /\ 0 \in 0 .. Len(u)
      BY <1>3, UnitAlgebra, Zenon
    <2> HIDE DEF u, v
    <2>4. Leave(u, v, 0)
      BY <1>1, <1>4, <1>6, <2>1, <2>2, <2>3, Zenon DEF Leave
    <2> QED
      BY <1>3, <2>3, <2>4, Zenon DEF Gives
  <1>7. ASSUME ~werr, werr', NEW k \in 0 .. Len(e) - 1, wire' = wire \o SubSeq(e, 1, k)
        PROVE  Gives
    <2> HIDE DEF e, q, u, v
    <2>1. /\ k \in 0 .. Len(e) /\ SubSeq(e, 1, k) \in Seq(Unit)
      BY <1>2, Buffered!LenProperties, Buffered!SubSeqType
    <2>2. SubSeq(e \o q, 1, k) = SubSeq(e, 1, k)
      BY <1>2, <2>1, Buffered!PrefixOfConcat, Zenon
    <2>3. k \in 0 .. Len(w \o u)
      <3>1. Len(e \o q) = Len(e) + Len(q) /\ Len(e) \in Nat /\ Len(q) \in Nat
        BY <1>2, Buffered!ConcatProperties, Buffered!LenProperties
      <3>2. k \in 0 .. Len(e \o q)
        BY <2>1, <3>1
      <3> QED
        BY <1>2, <3>2, Zenon
    <2>4. Delivered' = Delivered \o SubSeq(w \o u, 1, k)
      BY <1>1, <1>2, <1>7, <2>1, <2>2, DeliveredGrows, Zenon
    <2>5. Leave(w \o u, v, k)
      BY <1>1, <1>4, <1>5, <1>7, <2>4, Zenon DEF Leave
    <2> QED
      BY <1>3, <2>3, <2>5, Zenon DEF Gives
  <1> HIDE DEF e, q, u, v, p
  <1> QED
    BY <1>1, <1>6, <1>7, Zenon DEF Conn!WriteError, e

\* Every step of the forwarder is one of the three.
LEMMA StreamNext ==
  ASSUME FifoInv, ConnInv, LinkInv, [Next]_vars
  PROVE  Same \/ Grows \/ Gives
  <1>1. CASE Stop \/ StartError \/ Check \/ ConnectError \/ TakeQuit \/ NetStep \/ Process \/ ResetDeadline
             \/ UNCHANGED vars
    <2>1. UNCHANGED <<w, werr, wire, gone, cur, ch, accepted, lossy>>
      BY <1>1 DEF Stop, StartError, Check, ConnectError, TakeQuit, NetStep, Process, ResetDeadline, vars, connVars,
                  Conn!NetStep, Conn!SetWriteDeadline
    <2> QED
      BY <2>1, StreamUntouched, Zenon
  <1>2. CASE CloseConn \/ FlushTick
    <2>1. Conn!Flush /\ UNCHANGED <<cur, ch, gone, lossy, accepted>>
      BY <1>2 DEF CloseConn, FlushTick, Conn!Close, Conn!FlushTick
    <2> QED
      BY <2>1, StreamFlush, Zenon
  <1> QED
    BY <1>1, <1>2, StreamDial, StreamTake, StreamSend, StreamWriteOK, StreamWriteError, Zenon DEF Next, Worker

\* The invariants the stream rests on hold together.
StreamInv == FifoInv /\ ConnInv /\ LinkInv /\ NoLossWithoutFailure

\* Nothing is lost by a step that leaves the connection without an error.
LEMMA NoLossNext == StreamInv /\ [Next]_vars => NoLossWithoutFailure'
  <1> SUFFICES ASSUME StreamInv, [Next]_vars, ~lossy', ~werr'
               PROVE  Delivered' \o Pending' = Units(accepted')
    BY DEF NoLossWithoutFailure
  <1>1. FifoInv /\ ConnInv /\ LinkInv /\ (~lossy /\ ~werr => Delivered \o Pending = Units(accepted))
    BY DEF StreamInv, NoLossWithoutFailure
  <1>2. Delivered \in Seq(Unit) /\ Pending \in Seq(Unit) /\ accepted \in Seq(Msg)
    BY <1>1, StreamTypes DEF FifoInv
  <1>3. CASE Same
    BY <1>1, <1>3, Zenon DEF Same
  <1>4. CASE Grows
    <2>1. PICK m \in Msg : Pending' = Pending \o Encode(m) /\ accepted' = Append(accepted, m)
      BY <1>4, Zenon DEF Grows
    <2>2. Units(accepted') = Units(accepted) \o Encode(m)
      BY <1>2, <2>1, UnitsAppend, Zenon
    <2>3. Buffered!Regroups(Delivered, Pending, Encode(m))
      BY <1>2, EncodeType, UnitAlgebra, Zenon
    <2> QED
      BY <1>1, <1>4, <2>1, <2>2, <2>3, Zenon DEF Grows, Buffered!Regroups
  <1>5. CASE Gives
    <2>1. PICK x \in Seq(Unit), r \in Seq(Unit) : \E k \in 0 .. Len(x) : Leave(x, r, k)
      BY <1>5, Zenon DEF Gives
    <2>2. PICK k \in 0 .. Len(x) : Leave(x, r, k)
      BY <2>1, Zenon
    <2>3. /\ Pending = x \o r /\ Pending' = r /\ Delivered' = Delivered \o x
          /\ UNCHANGED <<accepted, lossy, werr>>
      BY <2>2, UnitAlgebra, Zenon DEF Leave
    <2>4. Buffered!Regroups(Delivered, x, r)
      BY <1>2, UnitAlgebra, Zenon
    <2> QED
      BY <1>1, <2>3, <2>4, Zenon DEF Buffered!Regroups
  <1> QED
    BY <1>1, <1>3, <1>4, <1>5, StreamNext, Zenon

LEMMA StreamInit == Init => StreamInv
  <1> SUFFICES ASSUME Init PROVE StreamInv
    OBVIOUS
  <1>1. ConnInv
    BY DEF Init, ConnInv, PCs
  <1>2. /\ ch = <<>> /\ cur = <<>> /\ accepted = <<>> /\ gone = <<>>
        /\ w = <<>> /\ wire = <<>> /\ werr = FALSE
    BY DEF Init, Conn!Fresh
  <1>3. Pending = (<<>> \o <<>>) \o <<>> /\ Delivered = <<>> \o <<>> /\ Units(accepted) = <<>>
    BY <1>2, UnitsNone, Zenon DEF Pending, Delivered
  <1>4. NoLossWithoutFailure
    BY <1>3, UnitAlgebra, Zenon DEF NoLossWithoutFailure
  <1> QED
    BY <1>1, <1>4, FifoInit, LinkInit, Zenon DEF StreamInv

LEMMA StreamStep == StreamInv /\ [Next]_vars => StreamInv'
  BY FifoNext, ConnNext, LinkNext, NoLossNext, Zenon DEF StreamInv

\* As long as no connection failed, every unit of every accepted message was
\* given to the network or is still held, in order, whatever was aged out,
\* reconnected or stopped meanwhile (log.go:78-119, bufferconn.go:35-92).
THEOREM NothingLost == Spec => []NoLossWithoutFailure
  <1>1. StreamInv => NoLossWithoutFailure
    BY DEF StreamInv
  <1> QED
    BY <1>1, StreamInit, StreamStep, PTL DEF Spec

-----------------------------------------------------------------------------
\* Units that leave are delivered from the front of what is pending; what is
\* given up is given up from the front too.
LEMMA LeaveAdvances ==
  ASSUME NEW x \in Seq(Unit), NEW r \in Seq(Unit), NEW k \in 0 .. Len(x), Leave(x, r, k)
  PROVE  Stream!Next
  <1> DEFINE l == Len(x) - k
  <1>1. /\ Len(x) \in Nat /\ Len(r) \in Nat /\ l \in Nat /\ k + l = Len(x)
        /\ x \o r \in Seq(Unit) /\ Len(x \o r) = Len(x) + Len(r)
        /\ \A i \in 1 .. Len(r) : (x \o r)[Len(x) + i] = r[i]
    BY Buffered!LenProperties, Buffered!ConcatProperties
  <1>2. Pending = x \o r /\ Pending' = r /\ Delivered' = Delivered \o SubSeq(x, 1, k)
    BY Zenon DEF Leave
  <1>3. SubSeq(x \o r, 1, k) = SubSeq(x, 1, k)
    BY Buffered!PrefixOfConcat, Zenon
  <1>4. SubSeq(x \o r, Len(x) + 1, Len(x \o r)) = r
    <2> DEFINE z == x \o r
               y == SubSeq(z, Len(x) + 1, Len(z))
    <2>1. /\ z \in Seq(Unit) /\ Len(z) = Len(x) + Len(r)
          /\ \A i \in 1 .. Len(r) : z[Len(x) + i] = r[i]
      BY <1>1, Zenon
    <2> HIDE DEF z
    <2>2. /\ y \in Seq(Unit) /\ Len(y) = Len(r)
          /\ \A i \in 1 .. Len(r) : y[i] = z[Len(x) + i]
      <3>1. Len(x) + 1 \in Nat \ {0} /\ Len(z) \in Nat /\ Len(z) <= Len(z) /\ Len(z) - (Len(x) + 1) + 1 = Len(r)
        BY <1>1, <2>1
      <3>2. /\ y \in Seq(Unit)
            /\ Len(y) = IF Len(x) + 1 <= Len(z) THEN Len(z) - (Len(x) + 1) + 1 ELSE 0
            /\ \A i \in 1 .. Len(z) - (Len(x) + 1) + 1 : y[i] = z[Len(x) + 1 + i - 1]
        BY <2>1, <3>1, Buffered!SubSeqType
      <3> HIDE DEF y
      <3>3. \A i \in 1 .. Len(r) : Len(x) + 1 + i - 1 = Len(x) + i
        BY <1>1
      <3>4. \A i \in 1 .. Len(r) : y[i] = z[Len(x) + i]
        BY <3>1, <3>2, <3>3, Zenon
      <3>5. Len(y) = Len(r)
        BY <1>1, <3>1, <3>2
      <3> QED
        BY <3>2, <3>4, <3>5, Zenon
    <2> HIDE DEF y
    <2>3. y = r
      BY <2>1, <2>2, Buffered!SeqEqual
    <2> QED
      BY <2>3 DEF y, z
  <1>5. Stream!Advance(k, l)
    <2>1. k + l + 1 = Len(x) + 1
      BY <1>1
    <2> HIDE DEF l
    <2> QED
      BY <1>2, <1>3, <1>4, <2>1, Zenon DEF Stream!Advance
  <1>6. Len(Pending) = Len(x) + Len(r)
    BY <1>1, <1>2, Zenon
  <1>7. k \in 0 .. Len(Pending) /\ l \in 0 .. (Len(Pending) - k)
    BY <1>1, <1>6
  <1> QED
    BY <1>5, <1>7, Zenon DEF Stream!Next

\* The forwarder implements LogStream: every step accepts one message, moves
\* units from the front of what is pending to the network, gives the next up,
\* or leaves the stream alone (log.go:61-119, bufferconn.go:35-92).
THEOREM Refinement == Spec => ImplementsLogStream
  <1>1. Init => Stream!Init
    <2> SUFFICES ASSUME Init PROVE Stream!Init
      OBVIOUS
    <2>1. /\ ch = <<>> /\ cur = <<>> /\ gone = <<>> /\ w = <<>> /\ wire = <<>> /\ werr = FALSE
      BY DEF Init, Conn!Fresh
    <2>2. Pending = (<<>> \o <<>>) \o <<>> /\ Delivered = <<>> \o <<>>
      BY <2>1, UnitsNone, Zenon DEF Pending, Delivered
    <2> QED
      BY <2>2, UnitAlgebra, Zenon DEF Stream!Init
  <1>2. StreamInv /\ [Next]_vars => [Stream!Next]_<<Pending, Delivered>>
    <2> SUFFICES ASSUME StreamInv, [Next]_vars PROVE [Stream!Next]_<<Pending, Delivered>>
      OBVIOUS
    <2>1. CASE Same
      BY <2>1, Zenon DEF Same
    <2>2. CASE Grows
      <3>1. PICK m \in Msg : Pending' = Pending \o Encode(m)
        BY <2>2, Zenon DEF Grows
      <3>2. Stream!Accept(Encode(m))
        BY <2>2, <3>1, Zenon DEF Grows, Stream!Accept
      <3>3. Encode(m) \in {Encode(n) : n \in Msg}
        BY Zenon
      <3> QED
        BY <3>2, <3>3, Zenon DEF Stream!Next
    <2>3. CASE Gives
      BY <2>3, LeaveAdvances, Zenon DEF Gives
    <2> QED
      BY <2>1, <2>2, <2>3, StreamNext, Zenon DEF StreamInv
  <1> QED
    BY <1>1, <1>2, StreamInit, StreamStep, PTL DEF Spec, ImplementsLogStream, Stream!Spec

=============================================================================
