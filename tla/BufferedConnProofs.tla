-------------------------- MODULE BufferedConnProofs --------------------------
(***************************************************************************)
(* Proofs about BufferedConn for every buffer size, set of payloads and    *)
(* bound.  The inductive invariant is TypeOK, Stream and Quiet.            *)
(***************************************************************************)
EXTENDS BufferedConn, SequenceTheorems, TLAPS

\* A closed connection without an error has an empty buffer.
Quiet == closed => werr \/ w = <<>>

Inv == BufferedConnAssumption /\ TypeOK /\ Stream /\ Quiet

-----------------------------------------------------------------------------
\* Any bounds within a sequence make a sequence of the expected length.
LEMMA SubSeqType ==
  ASSUME NEW S, NEW s \in Seq(S), NEW m \in Nat \ {0}, NEW n \in Nat, n <= Len(s)
  PROVE  /\ SubSeq(s, m, n) \in Seq(S)
         /\ Len(SubSeq(s, m, n)) = IF m <= n THEN n - m + 1 ELSE 0
         /\ \A i \in 1 .. n - m + 1 : SubSeq(s, m, n)[i] = s[m + i - 1]
  <1>1. \A i \in m .. n : s[i] \in S
    BY ElementOfSeq, LenProperties
  <1> QED
    BY <1>1, SubSeqProperties

\* A sequence is what is before a point and what is after it.
LEMMA SplitAt ==
  ASSUME NEW S, NEW s \in Seq(S), NEW k \in 0 .. Len(s)
  PROVE  SubSeq(s, 1, k) \o SubSeq(s, k + 1, Len(s)) = s
  <1>1. Len(s) \in Nat
    BY LenProperties
  <1>2. 1 \in 1 .. Len(s) + 1 /\ k \in (1 - 1) .. Len(s) /\ Len(s) \in k .. Len(s)
    BY <1>1
  <1>3. SubSeq(s, 1, k) \o SubSeq(s, k + 1, Len(s)) = SubSeq(s, 1, Len(s))
    BY <1>2, ConcatAdjacentSubSeq, Zenon
  <1> QED
    BY <1>3, SubSeqFull, Zenon

\* A prefix of the first of two sequences is a prefix of both together.
LEMMA PrefixOfConcat ==
  ASSUME NEW S, NEW s \in Seq(S), NEW t \in Seq(S), NEW n \in 0 .. Len(s)
  PROVE  SubSeq(s \o t, 1, n) = SubSeq(s, 1, n)
  <1>1. /\ Len(s) \in Nat /\ Len(t) \in Nat
        /\ s \o t \in Seq(S) /\ Len(s \o t) = Len(s) + Len(t)
        /\ \A i \in 1 .. Len(s) : (s \o t)[i] = s[i]
    BY LenProperties, ConcatProperties
  <1>2. /\ SubSeq(s, 1, n) \in Seq(S) /\ Len(SubSeq(s, 1, n)) = n
        /\ \A i \in 1 .. n : SubSeq(s, 1, n)[i] = s[i]
    BY <1>1, SubSeqType
  <1>3. /\ SubSeq(s \o t, 1, n) \in Seq(S) /\ Len(SubSeq(s \o t, 1, n)) = n
        /\ \A i \in 1 .. n : SubSeq(s \o t, 1, n)[i] = (s \o t)[i]
    BY <1>1, SubSeqType
  <1> QED
    BY <1>1, <1>2, <1>3, SeqEqual

\* Concatenation is associative.  The equation is given a name so that a
\* leaf can cite it for three sequences without rewriting by it.
Regroups(x, y, z) == (x \o y) \o z = x \o (y \o z)

LEMMA Assoc ==
  ASSUME NEW S
  PROVE  \A x, y, z \in Seq(S) : Regroups(x, y, z)
  <1> TAKE x, y, z \in Seq(S)
  <1> QED
    BY ConcatAssociative DEF Regroups

\* A sequence followed by a prefix of another is a prefix of the two.
LEMMA ConcatPrefix ==
  ASSUME NEW S, NEW s \in Seq(S), NEW t \in Seq(S), NEW k \in 0 .. Len(t)
  PROVE  s \o SubSeq(t, 1, k) = SubSeq(s \o t, 1, Len(s) + k)
  <1> DEFINE u == SubSeq(t, 1, k)
             v == SubSeq(t, k + 1, Len(t))
  <1>1. /\ Len(s) \in Nat /\ Len(t) \in Nat
        /\ u \in Seq(S) /\ v \in Seq(S) /\ Len(u) = k
    BY LenProperties, SubSeqType
  <1>2. u \o v = t
    BY SplitAt, Zenon
  <1> HIDE DEF u, v
  <1>3. (s \o u) \o v = s \o t
    <2>1. s \in Seq(S) /\ u \in Seq(S) /\ v \in Seq(S)
      BY <1>1, Zenon
    <2>2. Regroups(s, u, v)
      BY ONLY <2>1, Assoc, Zenon
    <2> QED
      BY <1>2, <2>2, Zenon DEF Regroups
  <1>4. s \o u \in Seq(S) /\ Len(s \o u) = Len(s) + k
    BY <1>1, ConcatProperties, Zenon
  <1>5. SubSeq((s \o u) \o v, 1, Len(s) + k) = SubSeq(s \o u, 1, Len(s) + k)
    BY <1>1, <1>4, PrefixOfConcat
  <1>6. SubSeq(s \o u, 1, Len(s) + k) = s \o u
    BY <1>4, SubSeqFull
  <1> QED
    BY <1>3, <1>5, <1>6 DEF u

-----------------------------------------------------------------------------
\* What Write keeps and what it emits are the buffer and the payload, split
\* in two; a buffer that cannot take the payload is full when it is flushed.
LEMMA WriteSplits ==
  ASSUME BufferedConnAssumption, TypeOK, NEW p \in Seq(Unit)
  PROVE  /\ Kept(p) \in Seq(Unit) /\ Len(Kept(p)) <= BufSize
         /\ Emitted(p) \in Seq(Unit)
         /\ Emitted(p) \o Kept(p) = w \o p
         /\ Emitted(p) # <<>> => BufSize < Len(w) + Len(p)
  <1> DEFINE s == w \o p
             rest == SubSeq(s, BufSize + 1, Len(w) + Len(p))
             full == Len(w) + Len(p) > BufSize
  <1>1. /\ Len(w) \in Nat /\ Len(p) \in Nat /\ BufSize \in Nat /\ Len(w) <= BufSize
        /\ s \in Seq(Unit) /\ Len(s) = Len(w) + Len(p)
    BY LenProperties, ConcatProperties DEF BufferedConnAssumption, TypeOK
  <1>2. Kept(p) = IF Len(p) <= BufSize - Len(w) THEN s
                  ELSE IF w # <<>> /\ Len(rest) <= BufSize THEN rest ELSE <<>>
    BY Zenon DEF Kept
  <1>3. Emitted(p) = SubSeq(s, 1, Len(w) + Len(p) - Len(Kept(p)))
    BY Zenon DEF Emitted
  <1>4. full => rest \in Seq(Unit) /\ Len(rest) = Len(s) - BufSize
    BY <1>1, SubSeqType
  <1>5. full => SubSeq(s, 1, BufSize) \in Seq(Unit) /\ SubSeq(s, 1, BufSize) \o rest = s
    <2>1. SUFFICES ASSUME full
                   PROVE  SubSeq(s, 1, BufSize) \in Seq(Unit) /\ SubSeq(s, 1, BufSize) \o rest = s
      BY Zenon
    <2>2. BufSize \in 0 .. Len(s) /\ rest = SubSeq(s, BufSize + 1, Len(s))
      BY <1>1, <2>1
    <2> HIDE DEF s, rest
    <2>3. SubSeq(s, 1, BufSize) \in Seq(Unit)
      BY <1>1, <2>2, SubSeqType
    <2>4. SubSeq(s, 1, BufSize) \o SubSeq(s, BufSize + 1, Len(s)) = s
      BY <1>1, <2>2, SplitAt, Zenon
    <2> QED
      BY <2>2, <2>3, <2>4, Zenon
  <1>6. s = w \o p
    OBVIOUS
  <1> HIDE DEF s, rest
  <1>7. CASE ~full
    <2>1. Kept(p) = s
      BY <1>1, <1>2, <1>7
    <2>2. Emitted(p) = <<>>
      BY <1>1, <1>3, <2>1, SubSeqEmpty
    <2>3. Emitted(p) \o Kept(p) = s
      BY <1>1, <2>1, <2>2, ConcatEmptySeq, Zenon
    <2> QED
      BY <1>1, <1>6, <1>7, <2>1, <2>2, <2>3, EmptySeq
  <1>8. CASE full /\ w # <<>> /\ Len(rest) <= BufSize
    <2>1. Kept(p) = rest
      BY <1>1, <1>2, <1>8
    <2>2. Emitted(p) = SubSeq(s, 1, BufSize)
      BY <1>1, <1>3, <1>4, <1>8, <2>1
    <2> QED
      BY <1>4, <1>5, <1>6, <1>8, <2>1, <2>2
  <1>9. CASE full /\ ~(w # <<>> /\ Len(rest) <= BufSize)
    <2>1. Kept(p) = <<>>
      BY <1>1, <1>2, <1>9
    <2>2. Emitted(p) = s
      BY <1>1, <1>3, <2>1, SubSeqFull, EmptySeq
    <2>3. Emitted(p) \o Kept(p) = s
      BY <1>1, <2>1, <2>2, ConcatEmptySeq, Zenon
    <2> QED
      BY <1>1, <1>6, <1>9, <2>1, <2>2, <2>3, EmptySeq
  <1> HIDE DEF full
  <1> QED
    BY <1>7, <1>8, <1>9, Zenon

-----------------------------------------------------------------------------
\* x is what t starts with.
StartOf(x, t) == \E n \in 0 .. Len(t) : x = SubSeq(t, 1, n)

\* What the socket holds after it accepted k units of e is a prefix of what
\* it held, e and anything after it.
LEMMA PrefixGrows ==
  ASSUME NEW a \in Seq(Unit), NEW e \in Seq(Unit), NEW r \in Seq(Unit),
         NEW k \in 0 .. Len(e)
  PROVE  /\ a \o SubSeq(e, 1, k) \in Seq(Unit)
         /\ StartOf(a \o SubSeq(e, 1, k), (a \o e) \o r)
  <1> DEFINE s == a \o e
  <1>1. Len(a) \in Nat /\ Len(e) \in Nat /\ Len(r) \in Nat
    BY LenProperties
  <1>2. s \in Seq(Unit) /\ Len(s) = Len(a) + Len(e)
    BY ConcatProperties
  <1>3. a \o SubSeq(e, 1, k) = SubSeq(s, 1, Len(a) + k)
    BY ConcatPrefix
  <1> HIDE DEF s
  <1>4. Len(a) + k \in 0 .. Len(s) /\ Len(a) + k \in Nat /\ Len(a) + k <= Len(s)
    BY <1>1, <1>2
  <1>5. SubSeq(s \o r, 1, Len(a) + k) = SubSeq(s, 1, Len(a) + k)
    BY <1>2, <1>4, PrefixOfConcat
  <1>6. Len(s \o r) = Len(s) + Len(r)
    BY <1>2, ConcatProperties, Zenon
  <1>7. Len(a) + k \in 0 .. Len(s \o r)
    BY <1>1, <1>4, <1>6
  <1>8. SubSeq(s, 1, Len(a) + k) \in Seq(Unit)
    BY <1>2, <1>4, SubSeqType
  <1> QED
    BY <1>3, <1>5, <1>7, <1>8, Zenon DEF s, StartOf

\* The first of two sequences is a prefix of both together.
LEMMA FirstIsPrefix ==
  ASSUME NEW a \in Seq(Unit), NEW b \in Seq(Unit)
  PROVE  /\ a \o b \in Seq(Unit)
         /\ \E n \in 0 .. Len(a \o b) : a = SubSeq(a \o b, 1, n)
  <1>1. /\ Len(a) \in Nat /\ Len(b) \in Nat
        /\ a \o b \in Seq(Unit) /\ Len(a \o b) = Len(a) + Len(b)
    BY LenProperties, ConcatProperties
  <1>2. Len(a) \in 0 .. Len(a) /\ Len(a) \in 0 .. Len(a \o b)
    BY <1>1
  <1>3. SubSeq(a \o b, 1, Len(a)) = SubSeq(a, 1, Len(a))
    BY <1>2, PrefixOfConcat, Zenon
  <1>4. SubSeq(a, 1, Len(a)) = a
    BY SubSeqFull
  <1> QED
    BY <1>1, <1>2, <1>3, <1>4, Zenon

-----------------------------------------------------------------------------
\* A flush preserves the invariant, whether or not it also closes.
LEMMA FlushInv ==
  ASSUME Inv, Flush, UNCHANGED <<timed, net, written>>,
         closed' \in BOOLEAN
  PROVE  Inv'
  <1> USE DEF Inv
  <1>1. /\ BufSize \in Nat /\ w \in Seq(Unit) /\ wire \in Seq(Unit)
        /\ written \in Seq(Unit) /\ Len(w) \in Nat /\ Len(w) <= BufSize
    BY LenProperties DEF BufferedConnAssumption, TypeOK
  <1>2. CASE (werr \/ w = <<>>) /\ UNCHANGED <<w, werr, wire>>
    BY <1>2 DEF TypeOK, Stream, Quiet
  <1>3. CASE ~werr /\ wire' = wire \o w /\ w' = <<>> /\ UNCHANGED werr
    <2>1. wire' = written /\ written' = written /\ wire' \o w' = written
      BY <1>1, <1>3, ConcatEmptySeq DEF Stream
    <2>2. \E n \in 0 .. Len(written') : wire' = SubSeq(written', 1, n)
      <3>1. Len(written) \in 0 .. Len(written) /\ SubSeq(written, 1, Len(written)) = written
        BY <1>1, LenProperties, SubSeqFull
      <3> QED
        BY <2>1, <3>1, Zenon
    <2>3. TypeOK'
      BY <1>1, <1>3, <2>1, EmptySeq DEF TypeOK
    <2> QED
      BY <1>3, <2>1, <2>2, <2>3, Zenon DEF Stream, Quiet
  <1>4. CASE /\ ~werr /\ werr' = TRUE
             /\ \E k \in 0 .. (Len(w) - 1) :
                  wire' = wire \o SubSeq(w, 1, k) /\ w' = SubSeq(w, k + 1, Len(w))
    <2>1. PICK k \in 0 .. (Len(w) - 1) :
            wire' = wire \o SubSeq(w, 1, k) /\ w' = SubSeq(w, k + 1, Len(w))
      BY <1>4, Zenon
    <2>2. k \in 0 .. Len(w)
      BY <1>1
    <2>3. w' \in Seq(Unit) /\ Len(w') = Len(w) - k
      BY <1>1, <2>1, SubSeqType
    <2>4. written' = (wire \o w) \o <<>>
      BY <1>1, <1>4, ConcatEmptySeq DEF Stream
    <2>5. /\ wire' \in Seq(Unit)
          /\ \E n \in 0 .. Len(written') : wire' = SubSeq(written', 1, n)
      <3>1. <<>> \in Seq(Unit)
        BY EmptySeq
      <3>2. /\ wire \o SubSeq(w, 1, k) \in Seq(Unit)
            /\ StartOf(wire \o SubSeq(w, 1, k), (wire \o w) \o <<>>)
        BY <1>1, <2>2, <3>1, PrefixGrows, Zenon
      <3> QED
        BY <2>1, <2>4, <3>2, Zenon DEF StartOf
    <2>6. TypeOK'
      <3>1. Len(w') <= BufSize
        BY <1>1, <2>2, <2>3
      <3>2. /\ werr' \in BOOLEAN /\ timed' \in BOOLEAN /\ net' \in NetStates
            /\ written' \in Seq(Unit)
        BY <1>4, Zenon DEF TypeOK
      <3> QED
        BY <2>3, <2>5, <3>1, <3>2, Zenon DEF TypeOK
    <2> QED
      BY <1>4, <2>5, <2>6, Zenon DEF Stream, Quiet
  <1> QED
    BY <1>2, <1>3, <1>4, Zenon DEF Flush

\* A write that succeeds preserves the invariant.
LEMMA WriteOKInv ==
  ASSUME Inv, NEW p \in Seq(Unit), WriteOK(p), ~closed
  PROVE  Inv'
  <1> USE DEF Inv
  <1> DEFINE e == Emitted(p)
             r == Kept(p)
  <1>1. /\ w \in Seq(Unit) /\ wire \in Seq(Unit) /\ written \in Seq(Unit)
        /\ wire \o w = written
    BY DEF TypeOK, Stream, WriteOK
  <1>2. /\ r \in Seq(Unit) /\ Len(r) <= BufSize /\ e \in Seq(Unit) /\ e \o r = w \o p
    BY WriteSplits
  <1>3. /\ wire' = wire \o e /\ w' = r /\ written' = written \o p
        /\ UNCHANGED <<werr, timed, closed, net>>
    BY DEF WriteOK
  <1> HIDE DEF e, r
  <1>4. wire' \o w' = written'
    <2>1. wire \in Seq(Unit) /\ e \in Seq(Unit) /\ r \in Seq(Unit)
      BY <1>1, <1>2, Zenon
    <2>2. Regroups(wire, e, r)
      BY ONLY <2>1, Assoc, Zenon
    <2>3. wire \in Seq(Unit) /\ w \in Seq(Unit) /\ p \in Seq(Unit)
      BY <1>1
    <2>4. Regroups(wire, w, p)
      BY ONLY <2>3, Assoc, Zenon
    <2> QED
      BY <1>1, <1>2, <1>3, <2>2, <2>4, Zenon DEF Regroups
  <1>5. wire' \in Seq(Unit) /\ w' \in Seq(Unit) /\ written' \in Seq(Unit)
    BY <1>1, <1>2, <1>3, ConcatProperties
  <1>6. \E n \in 0 .. Len(wire' \o w') : wire' = SubSeq(wire' \o w', 1, n)
    BY <1>5, FirstIsPrefix, Zenon
  <1>7. \E n \in 0 .. Len(written') : wire' = SubSeq(written', 1, n)
    BY <1>4, <1>6, Zenon
  <1>8. TypeOK'
    BY <1>2, <1>3, <1>5 DEF TypeOK
  <1> QED
    BY <1>3, <1>4, <1>7, <1>8, Zenon DEF Stream, Quiet

\* A write that fails preserves the invariant.
LEMMA WriteErrorInv ==
  ASSUME Inv, NEW p \in Seq(Unit), WriteError(p), ~closed
  PROVE  Inv'
  <1> USE DEF Inv
  <1>1. /\ w \in Seq(Unit) /\ wire \in Seq(Unit) /\ written \in Seq(Unit)
        /\ Len(w) \in Nat /\ Len(p) \in Nat /\ BufSize \in Nat
    BY LenProperties DEF BufferedConnAssumption, TypeOK
  <1>2. /\ written' = written \o p /\ UNCHANGED <<timed, closed, net>>
        /\ written' \in Seq(Unit)
    BY <1>1, ConcatProperties DEF WriteError
  <1>3. CASE werr /\ UNCHANGED <<w, werr, wire>>
    <2>1. PICK n \in 0 .. Len(written) : wire = SubSeq(written, 1, n)
      BY DEF Stream
    <2>2. /\ SubSeq(written \o p, 1, n) = SubSeq(written, 1, n)
          /\ n \in 0 .. Len(written \o p)
      BY <1>1, PrefixOfConcat, ConcatProperties, LenProperties
    <2>3. \E i \in 0 .. Len(written') : wire' = SubSeq(written', 1, i)
      BY <1>2, <1>3, <2>1, <2>2, Zenon
    <2> QED
      BY <1>2, <1>3, <2>3 DEF TypeOK, Stream, Quiet
  <1>4. CASE /\ ~werr /\ werr' = TRUE
             /\ \E k \in 0 .. (Len(Emitted(p)) - 1) :
                  wire' = wire \o SubSeq(Emitted(p), 1, k) /\ w' = Stranded(p, k)
    <2> DEFINE e == Emitted(p)
               r == Kept(p)
    <2>1. PICK k \in 0 .. (Len(e) - 1) :
                  wire' = wire \o SubSeq(e, 1, k) /\ w' = Stranded(p, k)
      BY <1>4
    <2>2. /\ r \in Seq(Unit) /\ e \in Seq(Unit) /\ e \o r = w \o p
          /\ e # <<>> => BufSize < Len(w) + Len(p)
      BY WriteSplits
    <2>3. wire \o w = written
      BY <1>4 DEF Stream
    <2> HIDE DEF e, r
    <2>4. k \in 0 .. Len(e) /\ Len(e) # 0
      BY <2>2, LenProperties
    <2>5. BufSize < Len(w) + Len(p)
      BY <2>2, <2>4, EmptySeq
    <2>6. w' \in Seq(Unit) /\ Len(w') <= BufSize
      <3>1. w \o p \in Seq(Unit) /\ Len(w \o p) = Len(w) + Len(p)
        BY <1>1, ConcatProperties
      <3>2. k + 1 \in Nat \ {0} /\ BufSize <= Len(w \o p)
        BY <1>1, <2>5, <3>1
      <3>3. /\ SubSeq(w \o p, k + 1, BufSize) \in Seq(Unit)
            /\ Len(SubSeq(w \o p, k + 1, BufSize))
                 = IF k + 1 <= BufSize THEN BufSize - (k + 1) + 1 ELSE 0
        BY <1>1, <3>1, <3>2, SubSeqType
      <3>4. Len(SubSeq(w \o p, k + 1, BufSize)) <= BufSize
        BY <1>1, <3>2, <3>3
      <3>5. CASE w # <<>>
        BY <2>1, <3>3, <3>4, <3>5, Zenon DEF Stranded
      <3>6. CASE w = <<>>
        BY <1>1, <2>1, <3>6, EmptySeq DEF Stranded
      <3> QED
        BY <3>5, <3>6
    <2>7. written' = (wire \o e) \o r
      <3>1. wire \in Seq(Unit) /\ e \in Seq(Unit) /\ r \in Seq(Unit)
        BY <1>1, <2>2, Zenon
      <3>2. Regroups(wire, e, r)
        BY ONLY <3>1, Assoc, Zenon
      <3>3. wire \in Seq(Unit) /\ w \in Seq(Unit) /\ p \in Seq(Unit)
        BY <1>1
      <3>4. Regroups(wire, w, p)
        BY ONLY <3>3, Assoc, Zenon
      <3> QED
        BY <1>2, <2>2, <2>3, <3>2, <3>4, Zenon DEF Regroups
    <2>8. /\ wire \o SubSeq(e, 1, k) \in Seq(Unit)
          /\ StartOf(wire \o SubSeq(e, 1, k), (wire \o e) \o r)
      <3>1. wire \in Seq(Unit) /\ e \in Seq(Unit) /\ r \in Seq(Unit) /\ k \in 0 .. Len(e)
        BY <1>1, <2>2, <2>4, Zenon
      <3> QED
        BY ONLY <3>1, PrefixGrows, Zenon
    <2>9. /\ wire' \in Seq(Unit)
          /\ \E n \in 0 .. Len(written') : wire' = SubSeq(written', 1, n)
      BY <2>1, <2>7, <2>8, Zenon DEF StartOf
    <2> QED
      BY <1>2, <1>4, <2>6, <2>9, Zenon DEF TypeOK, Stream, Quiet
  <1> QED
    BY <1>3, <1>4, Zenon DEF WriteError

-----------------------------------------------------------------------------
\* The invariant holds of a fresh connection.
LEMMA FreshInv == BufferedConnAssumption /\ Fresh => Inv
  <1> SUFFICES ASSUME BufferedConnAssumption, Fresh PROVE Inv
    OBVIOUS
  <1>1. <<>> \in Seq(Unit) /\ Len(<<>>) = 0 /\ <<>> \o <<>> = <<>>
    BY EmptySeq, ConcatEmptySeq
  <1>2. 0 \in 0 .. Len(<<>>) /\ SubSeq(<<>>, 1, 0) = <<>>
    BY <1>1, SubSeqEmpty
  <1>3. TypeOK
    <2>1. 0 <= BufSize
      BY DEF BufferedConnAssumption
    <2> QED
      BY <1>1, <2>1, Zenon DEF Fresh, TypeOK, NetStates
  <1>4. \E n \in 0 .. Len(written) : wire = SubSeq(written, 1, n)
    BY <1>2, Zenon DEF Fresh
  <1>5. wire \o w = written
    BY <1>1, Zenon DEF Fresh
  <1> QED
    BY <1>3, <1>4, <1>5 DEF Inv, Stream, Quiet, Fresh

\* Every step preserves it.
LEMMA NextInv == Inv /\ [Next]_connVars => Inv'
  <1> SUFFICES ASSUME Inv, [Next]_connVars PROVE Inv'
    OBVIOUS
  <1>1. ASSUME NEW p \in Payloads, ~closed, Write(p) PROVE Inv'
    <2>1. p \in Seq(Unit)
      BY DEF Inv, BufferedConnAssumption
    <2> QED
      BY <1>1, <2>1, WriteOKInv, WriteErrorInv DEF Write
  <1>2. ASSUME NEW nonzero \in BOOLEAN, SetWriteDeadline(nonzero) PROVE Inv'
    BY <1>2 DEF SetWriteDeadline, Inv, TypeOK, Stream, Quiet
  <1>3. CASE Close
    BY <1>3, FlushInv DEF Close
  <1>4. CASE FlushTick
    <2>1. closed' \in BOOLEAN
      BY <1>4 DEF FlushTick, Inv, TypeOK
    <2> QED
      BY <1>4, <2>1, FlushInv DEF FlushTick
  <1>5. CASE NetStep
    BY <1>5 DEF NetStep, Inv, TypeOK, Stream, Quiet
  <1>6. CASE UNCHANGED connVars
    BY <1>6 DEF connVars, Inv, TypeOK, Stream, Quiet
  <1> QED
    BY <1>1, <1>2, <1>3, <1>4, <1>5, <1>6 DEF Next

\* The inductive invariant, for any interleaving of writes, ticks, deadlines,
\* failures and Close (bufferconn.go:35-92).
THEOREM Invariance == BufferedConnAssumption /\ Spec => []Inv
  BY FreshInv, NextInv, PTL DEF Spec

\* The buffer never holds more than its size (bufferconn.go:22-42).
THEOREM TypeCorrect == BufferedConnAssumption /\ Spec => []TypeOK
  <1>1. Inv => TypeOK
    BY DEF Inv
  <1> QED
    BY <1>1, Invariance, PTL

\* Until its first error the connection holds, on the socket and in the
\* buffer, exactly what was written; after it the socket holds a prefix.
THEOREM StreamHolds == BufferedConnAssumption /\ Spec => []Stream
  <1>1. Inv => Stream
    BY DEF Inv
  <1> QED
    BY <1>1, Invariance, PTL

\* The peer is given a prefix of what was written, whatever fails.
THEOREM NoGapOnTheWire == BufferedConnAssumption /\ Spec => []WirePrefix
  <1>1. Inv => WirePrefix
    <2> SUFFICES ASSUME Inv PROVE WirePrefix
      OBVIOUS
    <2>1. written \in Seq(Unit) /\ Len(written) \in Nat
      BY LenProperties DEF Inv, TypeOK
    <2>2. PICK n \in 0 .. Len(written) : wire = SubSeq(written, 1, n)
      BY DEF Inv, Stream
    <2>3. Len(SubSeq(written, 1, n)) = n
      BY <2>1, SubSeqType
    <2> QED
      BY <2>2, <2>3, Zenon DEF WirePrefix
  <1> QED
    BY <1>1, Invariance, PTL

\* A connection closed without an error sent everything (bufferconn.go:44-58).
THEOREM CloseFlushes == BufferedConnAssumption /\ Spec => []ClosedComplete
  <1>1. Inv => ClosedComplete
    <2> SUFFICES ASSUME Inv, closed, ~werr PROVE wire = written
      BY DEF ClosedComplete
    <2>1. w = <<>> /\ wire \o w = written /\ wire \in Seq(Unit)
      BY DEF Inv, Stream, Quiet, TypeOK
    <2>2. wire \o <<>> = wire
      BY <2>1, ConcatEmptySeq
    <2> QED
      BY <2>1, <2>2, Zenon
  <1> QED
    BY <1>1, Invariance, PTL

\* No tick of flushLoop reaches the socket after Close (bufferconn.go:79-92).
THEOREM NothingAfterClose == BufferedConnAssumption /\ Spec => SilentAfterClose
  <1>1. Inv /\ [Next]_connVars => [closed => wire' = wire]_connVars
    <2> SUFFICES ASSUME Inv, Next, closed PROVE wire' = wire
      OBVIOUS
    <2>1. werr \/ w = <<>>
      BY DEF Inv, Quiet
    <2> QED
      BY <2>1, Zenon DEF Next, FlushTick, Flush, NetStep
  <1> QED
    BY <1>1, Invariance, PTL DEF Spec, SilentAfterClose

=============================================================================
