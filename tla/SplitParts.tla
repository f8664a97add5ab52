----------------------------- MODULE SplitParts -----------------------------
(***************************************************************************)
(* splitParts of log/syslogforwarder.go: a message that does not fit in    *)
(* one datagram is sent as parts, each with the message's header, a piece  *)
(* of its content, the mark " (i/n)" and its trailer.  Every part but the  *)
(* last is built in a buffer of its own; the last one is built in place,   *)
(* over the message it is read from.                                       *)
(*                                                                         *)
(* Lengths are in bytes; what the bytes are does not matter.               *)
(***************************************************************************)
EXTENDS Integers, Sequences

CONSTANTS
  Heads, Contents, Trailers,  \* lengths of the sections of a message
  Limits                      \* f.messageLimit; 0 or less means no limit

\* Bound: the syslog server below bs delivers at most 65536 bytes, a file
\* monitor a line of any length.
MaxMessage == 99999999

ASSUME SplitPartsAssumption ==
  /\ Heads \subseteq Nat /\ Trailers \subseteq Nat
  /\ Contents \subseteq 1 .. MaxMessage   \* Handle drops empty messages
  /\ Limits \subseteq Int

VARIABLES
  head, content, trailer, limit,  \* the message and f.messageLimit
  step,    \* "begin", "loop", then "done", "failed" or "panic"
  i,       \* number of the current part
  nParts,  \* number of parts, as announced in the marks
  rest,    \* len(contentBuf)
  parts    \* the parts written, in order

splitVars == <<head, content, trailer, limit, step, i, nParts, rest, parts>>
message == <<head, content, trailer, limit>>

fullLen == head + content + trailer
availableSz == limit - (head + trailer)

\* len(strconv.Itoa(n)): no number that occurs has more digits, the number of
\* a part that takes nothing included.
Digits(n) ==
  IF n < 10 THEN 1 ELSE IF n < 100 THEN 2 ELSE IF n < 1000 THEN 3
  ELSE IF n < 10000 THEN 4 ELSE IF n < 100000 THEN 5 ELSE IF n < 1000000 THEN 6
  ELSE IF n < 10000000 THEN 7 ELSE IF n < 100000000 THEN 8 ELSE 9

\* len(fmt.Sprintf(" (%d/%d)", k, n))
MarkLen(k, n) == 4 + Digits(k) + Digits(n)

Min2(a, b) == IF a <= b THEN a ELSE b

SplitTypeOK ==
  /\ head \in Nat /\ trailer \in Nat /\ content \in 1 .. MaxMessage /\ limit \in Int
  /\ step \in {"begin", "loop", "done", "failed", "panic"}
  /\ i \in Nat /\ nParts \in Nat /\ rest \in 0 .. content
  /\ parts \in Seq([from : Nat, size : Nat, len : Nat, intact : BOOLEAN])

SplitInit ==
  /\ head \in Heads /\ content \in Contents /\ trailer \in Trailers /\ limit \in Limits
  /\ step = "begin" /\ i = 0 /\ nParts = 0 /\ rest = content /\ parts = <<>>
-----------------------------------------------------------------------------
\* The fast path: the message fits and is written as it is.
Whole ==
  /\ step = "begin" /\ (limit <= 0 \/ fullLen <= limit)
  /\ \/ /\ step' = "done" /\ rest' = 0
        /\ parts' = <<[from |-> 0, size |-> content, len |-> fullLen, intact |-> TRUE]>>
     \/ step' = "failed" /\ UNCHANGED <<rest, parts>>
  /\ UNCHANGED <<message, i, nParts>>

\* Mutant of Count: the division is not rounded up.
CountDown ==
  /\ step = "begin" /\ limit > 0 /\ fullLen > limit
  /\ IF availableSz > 6
     THEN step' = "loop" /\ nParts' = content \div (availableSz - 6)
     ELSE step' = "panic" /\ UNCHANGED nParts
  /\ UNCHANGED <<message, i, rest, parts>>

\* The number of parts, for marks of six bytes.  The division panics when
\* that leaves no room at all; when it is less than nothing the first slice
\* of the content does, before anything is written.
Count ==
  /\ step = "begin" /\ limit > 0 /\ fullLen > limit
  /\ IF availableSz > 6
     THEN /\ step' = "loop"
          /\ nParts' = content \div (availableSz - 6)
                         + (IF content % (availableSz - 6) # 0 THEN 1 ELSE 0)
     ELSE step' = "panic" /\ UNCHANGED nParts
  /\ UNCHANGED <<message, i, rest, parts>>

\* Mutants of Room: every mark is taken to have six bytes, or the most it can.
RoomSix(k) == availableSz - 6
RoomLeast(k) == availableSz - MarkLen(MaxMessage, MaxMessage)

\* sizeToUse of part k, before it is cut to what is left.
Room(k) == availableSz - MarkLen(k, nParts)

\* Mutant of InPlace: every part is built over the message.
InPlaceAlways(k) == k > 0

\* The part is built over the message itself: the content left is moved down
\* behind the header, the mark put after it, then the trailer copied from
\* where the message has it, which the mark must not have reached.
InPlace(k) == Room(k) >= rest
TrailerIntact(k) == InPlace(k) => head + rest + MarkLen(k, nParts) <= head + content

Part(k) ==
  LET size == Min2(Room(k), rest)
  IN  [from |-> content - rest, size |-> size,
       len |-> head + size + MarkLen(k, nParts) + trailer,
       intact |-> TrailerIntact(k)]

\* Mutant of WritePart: a byte is skipped between two parts.
WritePartSkips ==
  /\ step = "loop" /\ rest > 1 /\ Room(i + 1) >= 0
  /\ i' = i + 1
  /\ parts' = Append(parts, Part(i + 1))
  /\ rest' = (IF Part(i + 1).size = rest THEN 0 ELSE rest - Part(i + 1).size - 1)
  /\ UNCHANGED <<message, nParts, step>>

\* One turn of the loop: write a part; an error of the connection ends it.
WritePart ==
  /\ step = "loop" /\ rest > 0 /\ Room(i + 1) >= 0
  /\ i' = i + 1
  /\ \/ /\ parts' = Append(parts, Part(i + 1))
        /\ rest' = rest - Part(i + 1).size
        /\ UNCHANGED step
     \/ step' = "failed" /\ UNCHANGED <<rest, parts>>
  /\ UNCHANGED <<message, nParts>>

\* contentBuf[:sizeToUse] with a negative size.
SlicePanic ==
  /\ step = "loop" /\ rest > 0 /\ Room(i + 1) < 0
  /\ i' = i + 1 /\ step' = "panic"
  /\ UNCHANGED <<message, nParts, rest, parts>>

Return ==
  /\ step = "loop" /\ rest = 0 /\ step' = "done"
  /\ UNCHANGED <<message, i, nParts, rest, parts>>

SplitNext == Whole \/ Count \/ WritePart \/ SlicePanic \/ Return

SplitSpec == SplitInit /\ [][SplitNext]_splitVars

-----------------------------------------------------------------------------
\* No part exceeds the limit, so none is fragmented or refused by the network
\* (syslogforwarder.go:189, 200-210).
PartsFit == limit > 0 => \A k \in 1 .. Len(parts) : parts[k].len <= limit

\* Building the last part over the message never overwrites the trailer
\* before it is copied (syslogforwarder.go:201-210).
TrailersIntact == \A k \in 1 .. Len(parts) : parts[k].intact

Roomy == availableSz > MarkLen(content, content)

\* A message whose parts have room for one byte beside the longest mark a
\* message of its length can need is sent without a panic (syslogforwarder.go:189-208).
RoomyNeverPanics == Roomy => step # "panic"

\* The parts carry the content once, from its first byte to its last
\* (syslogforwarder.go:196-218).
Contiguous ==
  /\ \A k \in 1 .. Len(parts) :
       parts[k].from = IF k = 1 THEN 0 ELSE parts[k - 1].from + parts[k - 1].size
  /\ step = "done" => LET last == parts[Len(parts)] IN last.from + last.size = content

\* Up to nine parts the number in their marks is right, and no part is empty
\* (syslogforwarder.go:191-200).
FewPartsCounted ==
  nParts \in 1 .. 9 => /\ step = "done" => Len(parts) = nParts
                      /\ \A k \in 1 .. Len(parts) : parts[k].size > 0
=============================================================================
