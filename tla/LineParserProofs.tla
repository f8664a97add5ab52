-------------------------- MODULE LineParserProofs --------------------------
(***************************************************************************)
(* Proofs about the automaton of parser.go and about what Handle reads     *)
(* with it, for lines of every length.                                     *)
(***************************************************************************)
EXTENDS LineParser, TLAPS

\* The places in the grammar of parser.rl.
Node == {"start", "open", "pri", "close", "gap0", "date", "gap1", "day", "daygap", "hour",
        "colon1", "min", "colon2", "sec", "gap2", "host", "gap3", "tag", "pidopen", "pid",
        "pidclose", "end", "gap4", "content"}

\* The places that some way of matching the bytes read has come to.
Live == {t.node : t \in threads}

\* What the automaton's states stand for: parser.go is in state s when the
\* ways of matching what it has read have come to the places N.
Stands(s, N) ==
  /\ s = 0 => N = {}
  /\ s = 1 => N = {"start"}
  /\ s = 2 => N = {"open"}
  /\ s = 3 => N = {"pri"}
  /\ s = 4 => N \in {{"close"}, {"gap0"}}
  /\ s = 5 => N = {"date"}
  /\ s = 6 => N = {"gap1"}
  /\ s = 7 => N = {"tag"}
  /\ s = 8 => N = {"tag", "end"}
  /\ s = 9 => N = {"gap4"}
  /\ s = 10 => N = {"pidopen"}
  /\ s = 11 => N = {"pid"}
  /\ s = 12 => N = {"pidclose"}
  /\ s = 13 => N = {"end"}
  /\ s = 14 => N = {"host", "tag"}
  /\ s = 15 => N = {"gap3"}
  /\ s = 16 => N = {"host", "tag", "end"}
  /\ s = 17 => N = {"gap3", "gap4"}
  /\ s = 18 => N = {"day", "host", "tag"}
  /\ s = 19 => N = {"daygap", "gap3"}
  /\ s = 20 => N = {"hour", "tag"}
  /\ s = 21 => N = {"colon1", "tag", "end"}
  /\ s = 22 => N = {"min", "tag"}
  /\ s = 23 => N = {"colon2", "tag", "end"}
  /\ s = 24 => N = {"sec", "tag"}
  /\ s = 25 => N = {"gap2"}
  /\ s = 26 => N = {"content"}
  /\ s = 27 => N = {"gap4", "content"}
  /\ s = 28 => N = {"tag", "content"}
  /\ s = 29 => N = {"tag", "end", "content"}
  /\ s = 30 => N = {"pidopen", "content"}
  /\ s = 31 => N = {"pid", "content"}
  /\ s = 32 => N = {"pidclose", "content"}
  /\ s = 33 => N = {"end", "content"}
  /\ s = 34 => N = {"gap3", "gap4", "content"}

\* The automaton is in the state that stands for the live places.
ParserInv == cs \in 0 .. 34 /\ Live \subseteq Node /\ Stands(cs, Live)

\* The places after each place, one by one ...
LEMMA FollowFacts ==
  /\ Follow("start") = {"open"} /\ Follow("open") = {"pri"}
  /\ Follow("pri") = {"pri", "close"} /\ Follow("close") = {"gap0", "date"}
  /\ Follow("gap0") = {"gap0", "date"} /\ Follow("date") = {"date", "gap1"}
  /\ Follow("gap1") = {"gap1", "day", "host", "tag"} /\ Follow("day") = {"day", "daygap"}
  /\ Follow("daygap") = {"hour"} /\ Follow("hour") = {"hour", "colon1"}
  /\ Follow("colon1") = {"min"} /\ Follow("min") = {"min", "colon2"}
  /\ Follow("colon2") = {"sec"} /\ Follow("sec") = {"sec", "gap2"}
  /\ Follow("gap2") = {"gap2", "host", "tag"} /\ Follow("host") = {"host", "gap3"}
  /\ Follow("gap3") = {"gap3", "tag"} /\ Follow("tag") = {"tag", "pidopen", "end"}
  /\ Follow("pidopen") = {"pid"} /\ Follow("pid") = {"pid", "pidclose"}
  /\ Follow("pidclose") = {"end"} /\ Follow("end") = {"gap4"}
  /\ Follow("gap4") = {"gap4", "content"} /\ Follow("content") = {"content"}
  BY Zenon DEF Follow

\* ... and the bytes each stands for.
LEMMA MatchesFacts ==
  /\ Matches("open") = {"lt"} /\ Matches("pri") = {"digit"} /\ Matches("close") = {"gt"}
  /\ Matches("gap0") = {"space"} /\ Matches("gap1") = {"space"}
  /\ Matches("day") = {"digit"} /\ Matches("daygap") = {"space"}
  /\ Matches("hour") = {"digit"} /\ Matches("colon1") = {"colon"}
  /\ Matches("min") = {"digit"} /\ Matches("colon2") = {"colon"}
  /\ Matches("sec") = {"digit"} /\ Matches("gap2") = {"space"}
  /\ Matches("gap3") = {"space"} /\ Matches("pidopen") = {"lbrack"}
  /\ Matches("pid") = {"digit"} /\ Matches("pidclose") = {"rbrack"}
  /\ Matches("end") = {"colon"} /\ Matches("gap4") = {"space"} /\ Matches("date") = NonSpace
  /\ Matches("host") = HostByte /\ Matches("tag") = TagByte /\ Matches("content") = Byte
  BY Zenon DEF Matches, Any

\* The places that byte c leads to from the places N.
Survivors(N, c) == {n \in UNION {Follow(m) : m \in N} : c \in Matches(n)}

\* A thread after a byte is one from before it, extended.
LEMMA MatchThreads ==
  ASSUME NEW c
  PROVE  \A e : e \in Match(c) <=>
           \E u \in threads : \E n \in Follow(u.node) : c \in Matches(n) /\ e = Extend(u, n, c)
  BY DEF Match

\* A byte takes the live places to their survivors.
LEMMA LiveStep ==
  ASSUME NEW c, threads' = Match(c)
  PROVE  Live' = Survivors(Live, c)
  <1>1. \A t, n : Extend(t, n, c).node = n
    BY DEF Extend
  <1>2. \A x : x \in Live' <=> \E e \in Match(c) : e.node = x
    BY DEF Live
  <1>3. \A x : x \in Live' <=> \E u \in threads : x \in Follow(u.node) /\ c \in Matches(x)
    <2>1. ASSUME NEW x \in Live' PROVE \E u \in threads : x \in Follow(u.node) /\ c \in Matches(x)
      BY <1>1, <1>2, <2>1, MatchThreads
    <2>2. ASSUME NEW u \in threads, NEW x \in Follow(u.node), c \in Matches(x) PROVE x \in Live'
      <3>1. Extend(u, x, c) \in Match(c)
        BY <2>2, MatchThreads
      <3> QED
        BY <1>1, <1>2, <3>1
    <2> QED
      BY <2>1, <2>2, Zenon
  <1>4. \A x : x \in Survivors(Live, c) <=> \E u \in threads : x \in Follow(u.node) /\ c \in Matches(x)
    BY DEF Survivors, Live
  <1> QED
    BY <1>3, <1>4, Zenon

\* A transition of the automaton goes to the state that stands for the
\* survivors: one case for each st_case of parser.go.
LEMMA StandsStep ==
  ASSUME NEW c \in Byte, NEW N, Stands(cs, N), Dispatch(c)
  PROVE  cs' \in 0 .. 34 /\ Stands(cs', Survivors(N, c))
  <1> USE FollowFacts, MatchesFacts DEF Stands, Survivors, Byte, NonSpace, HostByte, TagByte, Plain, Brack, Go
  <1>1. CASE cs = 1 /\ st_case_1(c)
    BY <1>1 DEF st_case_1, st, st0
  <1>2. CASE cs = 2 /\ st_case_2(c)
    BY <1>2 DEF st_case_2, st0, tr2
  <1>3. CASE cs = 3 /\ st_case_3(c)
    BY <1>3 DEF st_case_3, st, st0, tr4
  <1>4. CASE cs = 4 /\ st_case_4(c)
    BY <1>4 DEF st_case_4, st, tr5
  <1>5. CASE cs = 5 /\ st_case_5(c)
    BY <1>5 DEF st_case_5, st, tr8
  <1>6. CASE cs = 6 /\ st_case_6(c)
    BY <1>6 DEF st_case_6, st, st0, tr9, tr11, tr12
  <1>7. CASE cs = 7 /\ st_case_7(c)
    BY <1>7 DEF st_case_7, st, st0, tr14, tr15
  <1>8. CASE cs = 8 /\ st_case_8(c)
    BY <1>8 DEF st_case_8, st, st0, tr14, tr15
  <1>9. CASE cs = 9 /\ st_case_9(c)
    BY <1>9 DEF st_case_9, tr17, tr18
  <1>10. CASE cs = 10 /\ st_case_10(c)
    BY <1>10 DEF st_case_10, st0, tr19
  <1>11. CASE cs = 11 /\ st_case_11(c)
    BY <1>11 DEF st_case_11, st, st0, tr21
  <1>12. CASE cs = 12 /\ st_case_12(c)
    BY <1>12 DEF st_case_12, st, st0
  <1>13. CASE cs = 13 /\ st_case_13(c)
    BY <1>13 DEF st_case_13, st, st0
  <1>14. CASE cs = 14 /\ st_case_14(c)
    BY <1>14 DEF st_case_14, st, st0, tr15, tr23, tr25
  <1>15. CASE cs = 15 /\ st_case_15(c)
    BY <1>15 DEF st_case_15, st, st0, tr9
  <1>16. CASE cs = 16 /\ st_case_16(c)
    BY <1>16 DEF st_case_16, st, st0, tr15, tr25, tr27
  <1>17. CASE cs = 17 /\ st_case_17(c)
    BY <1>17 DEF st_case_17, tr17, tr28, tr29
  <1>18. CASE cs = 18 /\ st_case_18(c)
    BY <1>18 DEF st_case_18, st, st0, tr15, tr25, tr30
  <1>19. CASE cs = 19 /\ st_case_19(c)
    BY <1>19 DEF st_case_19, st, st0, tr9, tr32
  <1>20. CASE cs = 20 /\ st_case_20(c)
    BY <1>20 DEF st_case_20, st, st0, tr15, tr34
  <1>21. CASE cs = 21 /\ st_case_21(c)
    BY <1>21 DEF st_case_21, st, st0, tr14, tr15
  <1>22. CASE cs = 22 /\ st_case_22(c)
    BY <1>22 DEF st_case_22, st, st0, tr15, tr36
  <1>23. CASE cs = 23 /\ st_case_23(c)
    BY <1>23 DEF st_case_23, st, st0, tr14, tr15
  <1>24. CASE cs = 24 /\ st_case_24(c)
    BY <1>24 DEF st_case_24, st, st0, tr14, tr15, tr38
  <1>25. CASE cs = 25 /\ st_case_25(c)
    BY <1>25 DEF st_case_25, st, st0, tr9, tr11
  <1>26. CASE cs = 26 /\ st_case_26(c)
    BY <1>26 DEF st_case_26, st
  <1>27. CASE cs = 27 /\ st_case_27(c)
    BY <1>27 DEF st_case_27, tr17, tr18
  <1>28. CASE cs = 28 /\ st_case_28(c)
    BY <1>28 DEF st_case_28, st, tr42, tr43
  <1>29. CASE cs = 29 /\ st_case_29(c)
    BY <1>29 DEF st_case_29, st, tr42, tr43
  <1>30. CASE cs = 30 /\ st_case_30(c)
    BY <1>30 DEF st_case_30, st, tr45
  <1>31. CASE cs = 31 /\ st_case_31(c)
    BY <1>31 DEF st_case_31, st, tr47
  <1>32. CASE cs = 32 /\ st_case_32(c)
    BY <1>32 DEF st_case_32, st
  <1>33. CASE cs = 33 /\ st_case_33(c)
    BY <1>33 DEF st_case_33, st
  <1>34. CASE cs = 34 /\ st_case_34(c)
    BY <1>34 DEF st_case_34, st_case_17, tr17, tr28, tr29
  <1> QED
    BY <1>1, <1>2, <1>3, <1>4, <1>5, <1>6, <1>7, <1>8, <1>9, <1>10, <1>11, <1>12, <1>13,
       <1>14, <1>15, <1>16, <1>17, <1>18, <1>19, <1>20, <1>21, <1>22, <1>23, <1>24, <1>25,
       <1>26, <1>27, <1>28, <1>29, <1>30, <1>31, <1>32, <1>33, <1>34,
       Zenon DEF Dispatch

\* Every step keeps the automaton with the grammar ...
LEMMA ParserInvNext == ParserInv /\ [ParserNext]_parserVars => ParserInv'
  <1> SUFFICES ASSUME ParserInv, [ParserNext]_parserVars PROVE ParserInv'
    OBVIOUS
  <1>1. ASSUME NEW c \in Byte, Read(c) PROVE ParserInv'
    <2>1. Dispatch(c) /\ Live' = Survivors(Live, c)
      BY <1>1, LiveStep DEF Read
    <2>2. cs' \in 0 .. 34 /\ Stands(cs', Live')
      BY <2>1, StandsStep DEF ParserInv
    <2>3. \A n \in Node : Follow(n) \subseteq Node
      BY FollowFacts DEF Node
    <2>4. Live' \subseteq Node
      BY <2>1, <2>3 DEF ParserInv, Survivors
    <2> QED
      BY <2>2, <2>4 DEF ParserInv
  <1>2. CASE UNCHANGED <<cs, threads>>
    <2>1. Live' = Live
      BY <1>2 DEF Live
    <2> QED
      BY <1>2, <2>1 DEF ParserInv
  <1>3. Eof \/ (\E ts \in {"error", "zero", "set"} : Handle(ts)) \/ UNCHANGED parserVars
          => UNCHANGED <<cs, threads>>
    BY DEF Eof, Handle, parserVars
  <1>4. ASSUME cs' = 1, threads' = {NewThread} PROVE ParserInv'
    <2>1. Live' = {"start"}
      BY <1>4 DEF Live, NewThread
    <2> QED
      BY <1>4, <2>1 DEF ParserInv, Stands, Node
  <1> QED
    BY <1>1, <1>2, <1>3, <1>4 DEF ParserNext, NextLine

\* ... and it starts with it.
LEMMA ParserInvInit == ParserInit => ParserInv
  <1> SUFFICES ASSUME ParserInit PROVE ParserInv
    OBVIOUS
  <1>1. Live = {"start"}
    BY DEF ParserInit, Live, NewThread
  <1> QED
    BY <1>1 DEF ParserInit, ParserInv, Stands, Node

\* The automaton of parser.go gives up exactly when the grammar of parser.rl
\* matches no line that starts with the bytes read, and ends in a final state
\* exactly for the lines the grammar matches, for lines of every length.
THEOREM AutomatonRecognises == ParserSpec => []Recognises
  <1>1. ParserInv => Recognises
    <2> SUFFICES ASSUME ParserInv PROVE Recognises
      OBVIOUS
    <2>1. Live = {} <=> threads = {}
      BY Zenon DEF Live
    <2>2. "content" \in Live <=> Derivations # {}
      BY DEF Live, Derivations
    <2>3. (Live = {} <=> cs = 0) /\ ("content" \in Live <=> cs \in Final)
      BY DEF ParserInv, Stands, Final
    <2> QED
      BY <2>1, <2>2, <2>3 DEF Recognises
  <1> QED
    BY <1>1, ParserInvInit, ParserInvNext, PTL DEF ParserSpec

-----------------------------------------------------------------------------
\* The states in which a tag may go on, in which a gap may end with one, and in
\* which the gap before the content may end.
TagStates == {7, 8, 14, 16, 18, 20, 21, 22, 23, 24, 28, 29}
GapStates == {6, 15, 17, 19, 25, 34}
ContentGaps == {9, 17, 27, 34}

\* The places behind the tag and before it.
Behind == {"pidopen", "pid", "pidclose", "end", "gap4"}
Before == Node \ (Behind \cup {"tag", "content"})

\* What the spans hold is what each way of matching says.  The priority is the
\* same for all ways.
PriorityRead(t) ==
  /\ cs = 3 => t.span[0] = <<starts[0], p>>
  /\ cs \in 4 .. 34 => t.span[0] = entries[0]

\* A way that has not come to its tag has no slash, no pid and, before the host
\* group, no host.
TagAhead(t) ==
  t.node \in Before =>
    /\ t.slash = 0 /\ t.hostlike /\ t.span[5] = Nil
    /\ t.node \notin {"host", "gap3"} => t.span[3] = Nil

\* A way in its tag has it where the automaton pushed it.
InTag(t) ==
  t.node = "tag" =>
    /\ t.span[4] = <<starts[4], p>> /\ t.slash = slash /\ t.span[5] = Nil
    /\ cs \in {14, 16, 18} => t.hostlike /\ t.span[3] = Nil

\* A way behind its tag, but not in its content, has the tag that is kept.
TagRead(t) ==
  t.node \in Behind =>
    /\ t.span[4] = entries[4] /\ TagOf(t) = Container
    /\ cs \in {16, 17, 34} => MaybeHost(t)

\* A way in its content started it no later than the automaton's last push.
InContent(t) ==
  t.node = "content" => \E s \in 0 .. starts[6] : t.span[6] = <<s, p>>

\* The tag of t is no longer kept: another may have taken its place, of a word
\* of the content.
Lost(t) == MaybeHost(t) /\ (entries[4] = Nil \/ starts[6] <= entries[4][1])

\* The way of matching that the message is read by: it has the content that
\* starts last, and its tag is the one kept unless it was lost.
Leads(t) ==
  /\ t.node = "content" /\ t.span[6] = <<starts[6], p>>
  /\ Lost(t) \/ (TagOf(t) = Container /\ cs \notin 28 .. 33)

\* The positions pushed lie within the bytes read, in order.
Places ==
  /\ p \in Nat /\ (cs \in 2 .. 34 => p > 0)
  /\ starts = [g \in Group |-> starts[g]] /\ entries = [g \in Group |-> entries[g]]
  /\ starts[6] \in 0 .. p
  /\ cs \in TagStates => starts[4] \in 1 .. (p - 1) /\ (slash = 0 \/ slash \in starts[4] .. (p - 1))
  /\ cs \in {28, 29} => starts[6] <= starts[4]
  /\ entries[4] # Nil => \E x \in 1 .. p, y \in 0 .. p : entries[4] = <<x, y>>

\* All of this, while a line is read.
Reading ==
  /\ Places
  /\ \A t \in threads :
       PriorityRead(t) /\ TagAhead(t) /\ InTag(t) /\ TagRead(t) /\ InContent(t)
  /\ cs \in Final => \E t \in threads : Leads(t)

\* And until Handle has gone on with it.
ReadInv ==
  /\ phase \in {"scan", "parse"} => Reading /\ out = Nil
  /\ phase = "scan" => entries[6] = Nil
  /\ phase = "parse" => entries[6] = Nil \/ (cs \in Final /\ entries[6] = <<starts[6], p>>)
  /\ ReadAsOneDerivation

\* What a transition does to a group: push, pop or neither.
Pushed(g) == starts'[g] = p /\ entries'[g] = Nil
Popped(g) == starts'[g] = starts[g] /\ entries'[g] = <<starts[g], p>>
Held(g) == starts'[g] = starts[g] /\ entries'[g] = entries[g]

\* What a transition does to the groups that Handle goes on with, by the state
\* it leaves and the byte, and (Moves) where it may lead.
Effect(c) ==
  /\ p' = p + 1 /\ phase' = phase
  /\ starts' = [g \in Group |-> starts'[g]] /\ entries' = [g \in Group |-> entries'[g]]
  /\ cs' = 3 => IF cs = 2 THEN Pushed(0) ELSE cs = 3 /\ Held(0)
  /\ cs' \in 4 .. 34 => IF cs = 3 THEN Popped(0) ELSE cs \in 4 .. 34 /\ Held(0)
  /\ IF cs \in GapStates /\ c \in TagByte
     THEN Pushed(4) /\ slash' = IF c = "slash" THEN p ELSE 0
     ELSE /\ IF cs \in TagStates /\ c \in {"colon", "lbrack"} THEN Popped(4) ELSE Held(4)
          /\ slash' = IF c = "slash" /\ slash = 0 THEN p ELSE slash
  /\ starts'[6] = IF cs \in ContentGaps THEN p ELSE starts[6]
  /\ entries'[6] \in {Nil, entries[6]}

Moves(c) ==
  /\ cs' \in 1 .. 34
  /\ cs' \in TagStates => cs \in TagStates \/ (cs \in GapStates /\ c \in TagByte)
  /\ cs' \in {14, 16, 18} => c \in HostByte /\ cs \in {6, 25, 14, 16, 18}
  /\ cs' \in {17, 34} => cs \in {16, 17, 34}
  /\ cs' \in {28, 29} => cs \in {28, 29} \/ (cs \in {17, 34} /\ c \in TagByte)
  /\ cs' \in 28 .. 33 => cs \in 28 .. 33 \/ (cs \in {17, 34} /\ c \in TagByte)
  /\ cs' \in Final => cs \in ContentGaps \cup {26} \cup 28 .. 33

\* Every transition of parser.go does that, or gives up.
LEMMA EffectStep ==
  ASSUME NEW c \in Byte, Dispatch(c)
  PROVE  st0 \/ (Effect(c) /\ Moves(c))
  <1> USE DEF Effect, Moves, Pushed, Popped, Held, Group, TagStates, GapStates, ContentGaps,
              Final, Byte, HostByte, TagByte, Plain, Brack, Go
  <1>1. CASE cs = 1 /\ st_case_1(c)
    BY <1>1 DEF st_case_1, st
  <1>2. CASE cs = 2 /\ st_case_2(c)
    BY <1>2 DEF st_case_2, tr2
  <1>3. CASE cs = 3 /\ st_case_3(c)
    BY <1>3 DEF st_case_3, st, tr4
  <1>4. CASE cs = 4 /\ st_case_4(c)
    BY <1>4 DEF st_case_4, st, tr5
  <1>5. CASE cs = 5 /\ st_case_5(c)
    BY <1>5 DEF st_case_5, st, tr8
  <1>6. CASE cs = 6 /\ st_case_6(c)
    BY <1>6 DEF st_case_6, st, tr9, tr11, tr12
  <1>7. CASE cs = 7 /\ st_case_7(c)
    BY <1>7 DEF st_case_7, st, tr14, tr15
  <1>8. CASE cs = 8 /\ st_case_8(c)
    BY <1>8 DEF st_case_8, st, tr14, tr15
  <1>9. CASE cs = 9 /\ st_case_9(c)
    BY <1>9 DEF st_case_9, tr17, tr18
  <1>10. CASE cs = 10 /\ st_case_10(c)
    BY <1>10 DEF st_case_10, tr19
  <1>11. CASE cs = 11 /\ st_case_11(c)
    BY <1>11 DEF st_case_11, st, tr21
  <1>12. CASE cs = 12 /\ st_case_12(c)
    BY <1>12 DEF st_case_12, st
  <1>13. CASE cs = 13 /\ st_case_13(c)
    BY <1>13 DEF st_case_13, st
  <1>14. CASE cs = 14 /\ st_case_14(c)
    BY <1>14 DEF st_case_14, st, tr15, tr23, tr25
  <1>15. CASE cs = 15 /\ st_case_15(c)
    BY <1>15 DEF st_case_15, st, tr9
  <1>16. CASE cs = 16 /\ st_case_16(c)
    BY <1>16 DEF st_case_16, st, tr15, tr25, tr27
  <1>17. CASE cs = 17 /\ st_case_17(c)
    BY <1>17 DEF st_case_17, tr17, tr28, tr29
  <1>18. CASE cs = 18 /\ st_case_18(c)
    BY <1>18 DEF st_case_18, st, tr15, tr25, tr30
  <1>19. CASE cs = 19 /\ st_case_19(c)
    BY <1>19 DEF st_case_19, st, tr9, tr32
  <1>20. CASE cs = 20 /\ st_case_20(c)
    BY <1>20 DEF st_case_20, st, tr15, tr34
  <1>21. CASE cs = 21 /\ st_case_21(c)
    BY <1>21 DEF st_case_21, st, tr14, tr15
  <1>22. CASE cs = 22 /\ st_case_22(c)
    BY <1>22 DEF st_case_22, st, tr15, tr36
  <1>23. CASE cs = 23 /\ st_case_23(c)
    BY <1>23 DEF st_case_23, st, tr14, tr15
  <1>24. CASE cs = 24 /\ st_case_24(c)
    BY <1>24 DEF st_case_24, st, tr14, tr15, tr38
  <1>25. CASE cs = 25 /\ st_case_25(c)
    BY <1>25 DEF st_case_25, st, tr9, tr11
  <1>26. CASE cs = 26 /\ st_case_26(c)
    BY <1>26 DEF st_case_26, st
  <1>27. CASE cs = 27 /\ st_case_27(c)
    BY <1>27 DEF st_case_27, tr17, tr18
  <1>28. CASE cs = 28 /\ st_case_28(c)
    BY <1>28 DEF st_case_28, st, tr42, tr43
  <1>29. CASE cs = 29 /\ st_case_29(c)
    BY <1>29 DEF st_case_29, st, tr42, tr43
  <1>30. CASE cs = 30 /\ st_case_30(c)
    BY <1>30 DEF st_case_30, st, tr45
  <1>31. CASE cs = 31 /\ st_case_31(c)
    BY <1>31 DEF st_case_31, st, tr47
  <1>32. CASE cs = 32 /\ st_case_32(c)
    BY <1>32 DEF st_case_32, st
  <1>33. CASE cs = 33 /\ st_case_33(c)
    BY <1>33 DEF st_case_33, st
  <1>34. CASE cs = 34 /\ st_case_34(c)
    BY <1>34 DEF st_case_34, st_case_17, tr17, tr28, tr29
  <1> QED
    BY <1>1, <1>2, <1>3, <1>4, <1>5, <1>6, <1>7, <1>8, <1>9, <1>10, <1>11, <1>12, <1>13,
       <1>14, <1>15, <1>16, <1>17, <1>18, <1>19, <1>20, <1>21, <1>22, <1>23, <1>24, <1>25,
       <1>26, <1>27, <1>28, <1>29, <1>30, <1>31, <1>32, <1>33, <1>34,
       Zenon DEF Dispatch

-----------------------------------------------------------------------------
\* The groups of the places.
LEMMA GroupFacts ==
  \A n \in Node :
    /\ GroupOf(n) = 0 <=> n = "pri"
    /\ GroupOf(n) = 3 <=> n = "host"
    /\ GroupOf(n) = 4 <=> n = "tag"
    /\ GroupOf(n) = 5 <=> n = "pid"
    /\ GroupOf(n) = 6 <=> n = "content"
  <1>1. /\ GroupOf("pri") = 0 /\ GroupOf("date") = 1 /\ GroupOf("host") = 3 /\ GroupOf("tag") = 4
        /\ GroupOf("pid") = 5 /\ GroupOf("content") = 6
        /\ GroupOf("day") = 2 /\ GroupOf("daygap") = 2 /\ GroupOf("hour") = 2
        /\ GroupOf("colon1") = 2 /\ GroupOf("min") = 2 /\ GroupOf("colon2") = 2 /\ GroupOf("sec") = 2
    BY Zenon DEF GroupOf
  <1>2. /\ GroupOf("start") = 7 /\ GroupOf("open") = 7 /\ GroupOf("close") = 7 /\ GroupOf("gap0") = 7
        /\ GroupOf("gap1") = 7 /\ GroupOf("gap2") = 7 /\ GroupOf("gap3") = 7 /\ GroupOf("gap4") = 7
        /\ GroupOf("pidopen") = 7 /\ GroupOf("pidclose") = 7 /\ GroupOf("end") = 7
    BY Zenon DEF GroupOf
  <1> QED
    BY <1>1, <1>2 DEF Node

\* How a way of matching comes to a place.
LEMMA Ways ==
  ASSUME NEW m \in Node, NEW n \in Follow(m), NEW c, c \in Matches(n)
  PROVE  /\ n \in Node
         /\ n \in Before => m \in Before /\ (n \notin {"host", "gap3"} => m \notin {"host", "gap3"})
         /\ n = "tag" => m \in {"tag", "gap1", "gap2", "gap3"} /\ c \in TagByte
         /\ n \in Behind => \/ m = "tag" /\ n \in {"end", "pidopen"} /\ c \in {"colon", "lbrack"}
                            \/ m \in {"pidopen", "pid", "pidclose"}
                            \/ m \in {"end", "gap4"} /\ n = "gap4" /\ c = "space"
         /\ n = "content" => m \in {"content", "gap4"}
         /\ m = "open" => n = "pri"
  BY FollowFacts, MatchesFacts DEF Node, Before, Behind

\* The states in which some way is at a place.
LEMMA Roles ==
  ASSUME NEW s \in 0 .. 34, NEW N, Stands(s, N), NEW m \in N
  PROVE  /\ m = "tag" => s \in TagStates
         /\ m \in {"gap1", "gap2"} => s \in {6, 25}
         /\ m = "gap3" => s \in {15, 17, 19, 34}
         /\ m \in {"pidopen", "pid", "pidclose"} => s \in {10, 11, 12, 30, 31, 32}
         /\ m = "gap4" => s \in ContentGaps
         /\ m = "content" => s \in Final
         /\ s = 2 => m = "open"
         /\ s = 3 <=> m = "pri"
  BY DEF Stands, TagStates, ContentGaps, Final

\* What a byte changes in a way of matching.
LEMMA Extended ==
  ASSUME NEW t, NEW n, NEW c, NEW e, e = Extend(t, n, c)
  PROVE  /\ e.node = n
         /\ \A k \in Group : e.span[k] = IF k # GroupOf(n) THEN t.span[k]
                                         ELSE <<IF GroupOf(t.node) = k THEN t.span[k][1] ELSE p, p + 1>>
         /\ e.hostlike = IF n = "tag" THEN t.hostlike /\ c \in HostByte ELSE t.hostlike
         /\ e.slash = IF n = "tag" /\ c = "slash" /\ t.slash = 0 THEN p ELSE t.slash
  BY DEF Extend

\* A slash behind the tag does not change the container read from it.
LEMMA ContainerKept ==
  ASSUME NEW c, Places, entries'[4] = entries[4], slash' = IF c = "slash" /\ slash = 0 THEN p ELSE slash
  PROVE  Container' = Container
  <1>1. CASE entries[4] = Nil
    BY <1>1 DEF Container
  <1>2. CASE entries[4] # Nil
    <2>1. PICK x \in 1 .. p, y \in 0 .. p : entries[4] = <<x, y>>
      BY <1>2, Zenon DEF Places
    <2>2. entries[4][1] = x /\ entries[4][2] = y /\ x \in Nat /\ y \in Nat /\ x > 0 /\ y <= p /\ p \in Nat
      BY <2>1 DEF Places
    <2>3. CASE slash' = slash
      BY <2>3 DEF Container
    <2>4. CASE slash = 0 /\ slash' = p
      <3>1. slash \notin x .. (y - 1) /\ slash' \notin x .. (y - 1)
        BY <2>2, <2>4
      <3> QED
        BY <2>2, <3>1, Zenon DEF Container
    <2> QED
      BY <2>3, <2>4
  <1> QED
    BY <1>1, <1>2

\* A byte keeps what is known of every way of matching ...
LEMMA ThreadStep ==
  ASSUME ParserInv, Reading, NEW c \in Byte, Effect(c), Moves(c),
         NEW u \in threads, NEW n \in Follow(u.node), c \in Matches(n),
         NEW e, e = Extend(u, n, c), e \in threads', ParserInv'
  PROVE  (PriorityRead(e) /\ TagAhead(e) /\ InTag(e) /\ TagRead(e) /\ InContent(e))'
  <1> DEFINE m == u.node
  <1>1. m \in Live /\ m \in Node /\ n \in Node /\ e.node = n
    BY Ways, Extended DEF Live, ParserInv
  <1>2. \A k \in Group : e.span[k] = IF k # GroupOf(n) THEN u.span[k]
                                     ELSE <<IF GroupOf(m) = k THEN u.span[k][1] ELSE p, p + 1>>
    BY Extended
  <1>3. /\ e.span[0] = IF n = "pri" THEN <<IF m = "pri" THEN u.span[0][1] ELSE p, p + 1>> ELSE u.span[0]
        /\ e.span[3] = IF n = "host" THEN <<IF m = "host" THEN u.span[3][1] ELSE p, p + 1>> ELSE u.span[3]
        /\ e.span[4] = IF n = "tag" THEN <<IF m = "tag" THEN u.span[4][1] ELSE p, p + 1>> ELSE u.span[4]
        /\ e.span[5] = IF n = "pid" THEN <<IF m = "pid" THEN u.span[5][1] ELSE p, p + 1>> ELSE u.span[5]
        /\ e.span[6] = IF n = "content" THEN <<IF m = "content" THEN u.span[6][1] ELSE p, p + 1>> ELSE u.span[6]
    <2>1. 0 \in Group /\ 3 \in Group /\ 4 \in Group /\ 5 \in Group /\ 6 \in Group
      BY DEF Group
    <2>2. \A x \in {m, n} :
            /\ (GroupOf(x) = 0 <=> x = "pri") /\ (GroupOf(x) = 3 <=> x = "host")
            /\ (GroupOf(x) = 4 <=> x = "tag") /\ (GroupOf(x) = 5 <=> x = "pid")
            /\ (GroupOf(x) = 6 <=> x = "content")
      BY <1>1, GroupFacts
    <2> HIDE DEF m
    <2> QED
      BY <1>2, <2>1, <2>2
  <1>4. /\ e.hostlike = IF n = "tag" THEN u.hostlike /\ c \in HostByte ELSE u.hostlike
        /\ e.slash = IF n = "tag" /\ c = "slash" /\ u.slash = 0 THEN p ELSE u.slash
    BY Extended
  <1>5. PriorityRead(u) /\ TagAhead(u) /\ InTag(u) /\ TagRead(u) /\ InContent(u) /\ Places
    BY DEF Reading
  <1>6. cs \in 0 .. 34 /\ Stands(cs, Live) /\ cs' \in 0 .. 34 /\ Stands(cs', Live') /\ n \in Live'
    BY <1>1 DEF ParserInv, Live
  <1>7. /\ (cs = 3 <=> m = "pri") /\ (cs' = 3 <=> n = "pri")
        /\ m = "tag" => cs \in TagStates
        /\ m \in {"gap1", "gap2"} => cs \in {6, 25}
        /\ m = "gap3" => cs \in {15, 17, 19, 34}
        /\ m \in {"pidopen", "pid", "pidclose"} => cs \in {10, 11, 12, 30, 31, 32}
        /\ m = "gap4" => cs \in ContentGaps
        /\ n = "gap4" => cs' \in ContentGaps
        /\ m = "content" => cs \in Final
    BY <1>1, <1>6, Roles
  <1> HIDE DEF m
  <1>8. PriorityRead(e)'
    BY <1>3, <1>5, <1>7 DEF PriorityRead, Effect, Pushed, Popped, Held, Places
  <1>9. TagAhead(e)'
    BY <1>1, <1>3, <1>4, <1>5, Ways DEF TagAhead, Before, Behind, m
  <1>10. InTag(e)'
    <2> SUFFICES ASSUME n = "tag"
                 PROVE  /\ e.span[4] = <<starts'[4], p'>> /\ e.slash = slash' /\ e.span[5] = Nil
                        /\ cs' \in {14, 16, 18} => e.hostlike /\ e.span[3] = Nil
      BY <1>1 DEF InTag
    <2>1. c \in TagByte /\ m \in {"tag", "gap1", "gap2", "gap3"}
      BY <1>1, Ways, Zenon DEF m
    <2>2. CASE m = "tag"
      <3>1. cs \in TagStates /\ cs \notin GapStates
        BY <1>7, <2>2 DEF TagStates, GapStates
      <3>2. starts'[4] = starts[4] /\ slash' = IF c = "slash" /\ slash = 0 THEN p ELSE slash
        BY <3>1 DEF Effect, Popped, Held
      <3>3. e.span[4] = <<starts'[4], p'>> /\ e.slash = slash' /\ e.span[5] = Nil
        BY <1>3, <1>4, <1>5, <2>2, <3>2 DEF InTag, Effect, m
      <3>4. cs' \in {14, 16, 18} => e.hostlike /\ e.span[3] = Nil
        BY <1>3, <1>4, <1>5, <2>2, <3>1, Zenon DEF InTag, Moves, GapStates, m
      <3> QED
        BY <3>3, <3>4
    <2>3. CASE m # "tag"
      <3>1. cs \in GapStates /\ m \in Before
        BY <1>7, <2>1, <2>3 DEF GapStates, Before, Behind, Node
      <3>2. starts'[4] = p /\ slash' = IF c = "slash" THEN p ELSE 0
        BY <2>1, <3>1 DEF Effect, Pushed
      <3>3. e.span[4] = <<starts'[4], p'>> /\ e.slash = slash' /\ e.span[5] = Nil
        BY <1>3, <1>4, <1>5, <2>3, <3>1, <3>2 DEF TagAhead, Effect, m
      <3>4. cs' \in {14, 16, 18} => e.hostlike /\ e.span[3] = Nil
        <4> SUFFICES ASSUME cs' \in {14, 16, 18} PROVE e.hostlike /\ e.span[3] = Nil
          OBVIOUS
        <4>1. m \in {"gap1", "gap2"} /\ c \in HostByte
          BY <1>7, <2>1, <2>3 DEF Moves
        <4>2. u.hostlike /\ u.span[3] = Nil
          BY <1>5, <3>1, <4>1 DEF TagAhead, m
        <4> QED
          BY <1>3, <1>4, <4>1, <4>2, Zenon
      <3> QED
        BY <3>3, <3>4
    <2> QED
      BY <2>2, <2>3
  <1>11. TagRead(e)'
    <2> SUFFICES ASSUME n \in Behind
                 PROVE  /\ e.span[4] = entries'[4] /\ TagOf(e) = Container'
                        /\ cs' \in {16, 17, 34} => MaybeHost(e)
      BY <1>1 DEF TagRead
    <2>1. \/ m = "tag" /\ n \in {"end", "pidopen"} /\ c \in {"colon", "lbrack"}
          \/ m \in {"pidopen", "pid", "pidclose"}
          \/ m \in {"end", "gap4"} /\ n = "gap4" /\ c = "space"
      BY <1>1, Ways DEF m
    <2>2. e.span[4] = u.span[4] /\ e.span[3] = u.span[3] /\ e.slash = u.slash /\ e.hostlike = u.hostlike
      BY <1>3, <1>4 DEF Behind
    <2>3. TagOf(e) = TagOf(u)
      BY <2>2 DEF TagOf
    <2>4. CASE m = "tag"
      <3>1. n \in {"end", "pidopen"} /\ c \in {"colon", "lbrack"} /\ cs \in TagStates /\ cs \notin GapStates
        BY <1>7, <2>1, <2>4 DEF TagStates, GapStates
      <3>2. entries'[4] = <<starts[4], p>> /\ slash' = slash
        BY <3>1 DEF Effect, Popped
      <3>3. /\ u.span[4] = <<starts[4], p>> /\ u.slash = slash /\ u.span[5] = Nil
            /\ cs \in {14, 16, 18} => u.hostlike /\ u.span[3] = Nil
        BY <1>5, <2>4 DEF InTag, m
      <3>4. TagOf(u) = Container'
        <4>1. /\ starts[4] \in 1 .. (p - 1) /\ (slash = 0 \/ slash \in starts[4] .. (p - 1))
          BY <1>5, <3>1 DEF Places
        <4>2. entries'[4] # Nil /\ entries'[4][1] = starts[4] /\ entries'[4][2] = p
          BY <3>2 DEF Nil
        <4>3. slash' \in entries'[4][1] .. (entries'[4][2] - 1) <=> slash # 0
          BY <3>2, <4>1, <4>2
        <4>4. Container' = IF slash # 0 THEN <<slash + 1, p>> ELSE <<starts[4], p>>
          BY <3>2, <4>2, <4>3 DEF Container
        <4>5. u.span[4][2] = p
          BY <3>3
        <4> QED
          BY <3>3, <4>4, <4>5, Zenon DEF TagOf
      <3>5. e.span[5] = Nil
        BY <1>3, <3>1, <3>3
      <3>6. cs' \in {16, 17, 34} => cs \in {14, 16, 18}
        BY <3>1 DEF Moves, TagStates
      <3> QED
        BY <2>2, <2>3, <3>2, <3>3, <3>4, <3>5, <3>6 DEF MaybeHost
    <2>5. CASE m # "tag"
      <3>1. Held(4) /\ slash' = IF c = "slash" /\ slash = 0 THEN p ELSE slash
        BY <1>7, <2>1, <2>5 DEF Effect, TagStates, GapStates, TagByte
      <3>2. m \in Behind
        BY <2>1, <2>5 DEF Behind
      <3>3. u.span[4] = entries[4] /\ TagOf(u) = Container /\ (cs \in {16, 17, 34} => MaybeHost(u))
        BY <1>5, <3>2 DEF TagRead, m
      <3>4. Container' = Container
        BY <1>5, <3>1, ContainerKept DEF Held
      <3>5. cs' \in {16, 17, 34} => MaybeHost(e)
        <4>1. cs' \in {17, 34} => cs \in {16, 17, 34}
          BY DEF Moves
        <4>2. cs' = 16 => n # "gap4" /\ m \notin {"pidopen", "pid", "pidclose"}
          BY <1>7 DEF Moves, ContentGaps
        <4>3. cs' \in {17, 34} => n = "gap4"
          BY <1>7, <2>1, <2>5, <4>1
        <4>4. n = "gap4" => e.span[5] = u.span[5]
          BY <1>3
        <4> QED
          BY <2>1, <2>2, <2>5, <3>3, <4>1, <4>2, <4>3, <4>4 DEF MaybeHost
      <3> QED
        BY <2>2, <2>3, <3>1, <3>3, <3>4, <3>5 DEF Held
    <2> QED
      BY <2>4, <2>5
  <1>12. InContent(e)'
    BY <1>1, <1>3, <1>5, <1>7, Ways DEF InContent, Effect, Places, ContentGaps, m
  <1> QED
    BY <1>8, <1>9, <1>10, <1>11, <1>12

\* ... and of the positions ...
LEMMA PlacesStep ==
  ASSUME Places, NEW c \in Byte, Effect(c), Moves(c)
  PROVE  Places'
  <1>1. p \in Nat /\ p' = p + 1
    BY DEF Places, Effect
  <1>2. starts' = [g \in Group |-> starts'[g]] /\ entries' = [g \in Group |-> entries'[g]]
    BY DEF Effect
  <1>3. starts'[6] \in 0 .. p'
    BY <1>1 DEF Places, Effect
  <1>4. p > 0 \/ cs \notin 2 .. 34
    BY DEF Places
  <1>5. CASE cs \in GapStates /\ c \in TagByte
    <2>1. starts'[4] = p /\ entries'[4] = Nil /\ slash' \in {0, p} /\ p > 0 /\ starts'[6] \in 0 .. p
      BY <1>1, <1>4, <1>5 DEF Effect, Pushed, GapStates, Places
    <2> QED
      BY <1>1, <1>2, <1>3, <2>1 DEF Places
  <1>6. CASE ~(cs \in GapStates /\ c \in TagByte)
    <2>1. starts'[4] = starts[4] /\ slash' \in {slash, p} /\ (slash' # slash => slash' = p)
      BY <1>6 DEF Effect, Popped, Held
    <2>2. cs' \in TagStates => cs \in TagStates
      BY <1>6 DEF Moves
    <2>3. cs' \in TagStates => starts'[4] \in 1 .. (p' - 1) /\ (slash' = 0 \/ slash' \in starts'[4] .. (p' - 1))
      BY <1>1, <2>1, <2>2 DEF Places
    <2>4. cs' \in {28, 29} => cs \in {28, 29} /\ starts'[6] = starts[6]
      BY <1>6 DEF Moves, Effect, GapStates, ContentGaps
    <2>5. entries'[4] # Nil => \E x \in 1 .. p', y \in 0 .. p' : entries'[4] = <<x, y>>
      <3>1. CASE entries'[4] = entries[4] /\ entries[4] # Nil
        <4>1. PICK x \in 1 .. p, y \in 0 .. p : entries[4] = <<x, y>>
          BY <3>1, Zenon DEF Places
        <4>2. x \in 1 .. p' /\ y \in 0 .. p'
          BY <1>1
        <4> QED
          BY <3>1, <4>1, <4>2
      <3>2. CASE cs \in TagStates /\ entries'[4] = <<starts[4], p>>
        BY <1>1, <3>2 DEF Places
      <3> QED
        BY <1>6, <3>1, <3>2 DEF Effect, Popped, Held
    <2> QED
      BY <1>1, <1>2, <1>3, <2>1, <2>3, <2>4, <2>5 DEF Places
  <1> QED
    BY <1>5, <1>6

\* ... and leaves a way that the message is read by: where the content starts
\* again it is the one whose content starts there, else the one from before.
LEMMA LeadStep ==
  ASSUME ParserInv, Reading, NEW c \in Byte, Effect(c), Moves(c), threads' = Match(c), cs' \in Final
  PROVE  \E t \in threads' : Leads(t)'
  <1>1. cs \in 0 .. 34 /\ Stands(cs, Live) /\ Places /\ p' = p + 1
    BY DEF ParserInv, Reading, Effect
  <1>2. ASSUME NEW u \in threads, u.node \in {"gap4", "content"}
        PROVE  \E e \in threads' :
                 /\ e.node = "content" /\ TagOf(e) = TagOf(u) /\ (MaybeHost(u) => MaybeHost(e))
                 /\ e.span[6] = <<IF u.node = "content" THEN u.span[6][1] ELSE p, p'>>
    <2> DEFINE e == Extend(u, "content", c)
    <2>1. e \in threads'
      BY <1>2, FollowFacts, MatchesFacts, MatchThreads
    <2>2. "content" \in Node /\ u.node \in Node
      BY <1>2 DEF Node
    <2>3. /\ e.node = "content" /\ e.hostlike = u.hostlike /\ e.slash = u.slash
          /\ \A k \in Group : e.span[k] = IF k # GroupOf("content") THEN u.span[k]
                              ELSE <<IF GroupOf(u.node) = k THEN u.span[k][1] ELSE p, p + 1>>
      <3>1. e = Extend(u, "content", c)
        OBVIOUS
      <3> HIDE DEF e
      <3>2. /\ e.node = "content"
            /\ \A k \in Group : e.span[k] = IF k # GroupOf("content") THEN u.span[k]
                                ELSE <<IF GroupOf(u.node) = k THEN u.span[k][1] ELSE p, p + 1>>
        BY <3>1, Extended
      <3>3. /\ e.hostlike = IF "content" = "tag" THEN u.hostlike /\ c \in HostByte ELSE u.hostlike
            /\ e.slash = IF "content" = "tag" /\ c = "slash" /\ u.slash = 0 THEN p ELSE u.slash
        BY <3>1, Extended
      <3> QED
        BY <3>2, <3>3
    <2> HIDE DEF e
    <2>4. GroupOf("content") = 6 /\ (GroupOf(u.node) = 6 <=> u.node = "content")
      BY <2>2, GroupFacts
    <2>5. /\ e.span[3] = u.span[3] /\ e.span[4] = u.span[4] /\ e.span[5] = u.span[5]
          /\ e.span[6] = <<IF u.node = "content" THEN u.span[6][1] ELSE p, p + 1>>
      BY <2>3, <2>4 DEF Group
    <2>6. TagOf(e) = TagOf(u) /\ (MaybeHost(u) => MaybeHost(e))
      BY <2>3, <2>5 DEF TagOf, MaybeHost
    <2> QED
      BY <1>1, <2>1, <2>3, <2>5, <2>6
  <1>3. CASE cs \in ContentGaps
    <2>1. "gap4" \in Live
      BY <1>1, <1>3 DEF Stands, ContentGaps
    <2>2. PICK u \in threads : u.node = "gap4"
      BY <2>1 DEF Live
    <2>3. PICK e \in threads' :
                 /\ e.node = "content" /\ TagOf(e) = TagOf(u) /\ (MaybeHost(u) => MaybeHost(e))
                 /\ e.span[6] = <<p, p'>>
      BY <1>2, <2>2, Zenon
    <2>4. TagOf(u) = Container /\ (cs \in {17, 34} => MaybeHost(u)) /\ starts'[6] = p
      BY <1>3, <2>2 DEF Reading, TagRead, Behind, Effect
    <2>5. CASE cs \in GapStates /\ c \in TagByte
      <3>1. cs \in {17, 34} /\ entries'[4] = Nil
        BY <1>3, <2>5 DEF ContentGaps, GapStates, Effect, Pushed
      <3> QED
        BY <2>3, <2>4, <3>1 DEF Leads, Lost, Nil
    <2>6. CASE ~(cs \in GapStates /\ c \in TagByte)
      <3>1. Held(4) /\ slash' = IF c = "slash" /\ slash = 0 THEN p ELSE slash
        BY <1>3, <2>6 DEF ContentGaps, TagStates, Effect
      <3>2. Container' = Container
        BY <1>1, <3>1, ContainerKept DEF Held
      <3>3. cs' \notin 28 .. 33
        BY <1>3, <2>6 DEF Moves, ContentGaps, GapStates
      <3> QED
        BY <2>3, <2>4, <3>2, <3>3 DEF Leads
    <2> QED
      BY <2>5, <2>6
  <1>4. CASE cs \notin ContentGaps
    <2>1. cs \in {26} \cup 28 .. 33 /\ cs \notin GapStates /\ starts'[6] = starts[6]
      BY <1>4 DEF Moves, Effect, GapStates, ContentGaps
    <2>2. PICK u \in threads : Leads(u)
      BY <2>1 DEF Reading, Final
    <2>3. PICK e \in threads' :
                 /\ e.node = "content" /\ TagOf(e) = TagOf(u) /\ (MaybeHost(u) => MaybeHost(e))
                 /\ e.span[6] = <<starts[6], p'>>
      BY <1>2, <2>2 DEF Leads
    <2>4. Held(4) /\ slash' = (IF c = "slash" /\ slash = 0 THEN p ELSE slash) => Container' = Container
      BY <1>1, ContainerKept, Zenon DEF Held
    <2>5. CASE cs = 26
      <3>1. Held(4) /\ slash' = (IF c = "slash" /\ slash = 0 THEN p ELSE slash)
        BY <2>5 DEF Effect, GapStates, TagStates
      <3>2. cs' \notin 28 .. 33
        BY <2>5 DEF Moves
      <3> QED
        BY <2>1, <2>2, <2>3, <2>4, <3>1, <3>2 DEF Leads, Lost, Held
    <2>6. CASE cs \in 28 .. 33
      <3>1. Lost(u)
        BY <2>2, <2>6 DEF Leads
      <3>2. entries'[4] = Nil \/ starts'[6] <= entries'[4][1]
        <4>1. CASE Held(4)
          BY <2>1, <3>1, <4>1 DEF Lost, Held
        <4>2. CASE cs \in TagStates /\ Popped(4)
          BY <1>1, <2>1, <2>6, <4>2 DEF Popped, Places, TagStates
        <4> QED
          BY <2>1, <4>1, <4>2 DEF Effect
      <3> QED
        BY <2>1, <2>3, <3>1, <3>2 DEF Leads, Lost
    <2> QED
      BY <2>1, <2>5, <2>6
  <1> QED
    BY <1>3, <1>4

\* So a byte keeps it all.
LEMMA ReadingStep ==
  ASSUME ParserInv, ParserInv', Reading, NEW c \in Byte, Dispatch(c), threads' = Match(c)
  PROVE  Reading'
  <1>1. CASE st0
    <2>1. cs' = 0 /\ UNCHANGED <<p, starts, entries, slash>>
      BY <1>1 DEF st0
    <2>2. threads' = {}
      BY <2>1 DEF ParserInv, Stands, Live
    <2>3. Places'
      <3>1. Places
        BY DEF Reading
      <3>2. cs' \notin 2 .. 34 /\ cs' \notin TagStates /\ cs' \notin {28, 29}
        BY <2>1 DEF TagStates
      <3>3. p' = p /\ starts' = starts /\ entries' = entries /\ slash' = slash
        BY <2>1
      <3> QED
        BY <3>1, <3>2, <3>3, Zenon DEF Places
    <2> QED
      BY <2>1, <2>2, <2>3 DEF Reading, Final
  <1>2. CASE Effect(c) /\ Moves(c)
    <2>1. Places'
      BY <1>2, PlacesStep DEF Reading
    <2>2. ASSUME NEW e \in threads'
          PROVE  (PriorityRead(e) /\ TagAhead(e) /\ InTag(e) /\ TagRead(e) /\ InContent(e))'
      <3>1. PICK u \in threads : \E n \in Follow(u.node) : c \in Matches(n) /\ e = Extend(u, n, c)
        BY <2>2, MatchThreads
      <3>2. PICK n \in Follow(u.node) : c \in Matches(n) /\ e = Extend(u, n, c)
        BY <3>1
      <3> QED
        BY <1>2, <2>2, <3>2, ThreadStep
    <2>3. cs' \in Final => \E t \in threads' : Leads(t)'
      BY <1>2, LeadStep
    <2> QED
      BY <2>1, <2>2, <2>3 DEF Reading, Final
  <1> QED
    BY <1>1, <1>2, EffectStep

\* What Handle goes on with is the reading of the way that leads.
LEMMA HandleStep ==
  ASSUME ParserInv, ReadInv, NEW ts, Handle(ts)
  PROVE  ReadAsOneDerivation'
  <1> SUFFICES ASSUME out' # Nil PROVE ReadAsOneDerivation'
    BY DEF ReadAsOneDerivation
  <1>1. /\ out' = [priority |-> entries[0], container |-> Container, content |-> entries[6]]
        /\ entries[6] # Nil /\ phase = "parse" /\ threads' = threads
    BY DEF Handle
  <1>2. Reading /\ cs \in Final /\ entries[6] = <<starts[6], p>>
    BY <1>1 DEF ReadInv
  <1>3. PICK t \in threads : Leads(t)
    BY <1>2 DEF Reading
  <1>4. t \in Derivations' /\ t.span[6] = <<starts[6], p>> /\ t.span[0] = entries[0]
    BY <1>1, <1>2, <1>3 DEF Leads, Derivations, Reading, PriorityRead, Final
  <1>5. ASSUME NEW u \in Derivations' PROVE u.span[6][1] <= t.span[6][1]
    <2>1. PICK s \in 0 .. starts[6] : u.span[6] = <<s, p>>
      BY <1>1, <1>2, <1>5 DEF Derivations, Reading, InContent
    <2> QED
      BY <1>2, <1>4, <2>1 DEF Reading, Places
  <1>6. out'.content = t.span[6] /\ out'.priority = t.span[0] /\ out'.container = Container
    BY <1>1, <1>2, <1>4
  <1>7. Lost(t) => Container = Nil \/ Container[1] >= out'.content[1]
    <2>1. CASE entries[4] = Nil
      BY <2>1 DEF Container
    <2>2. CASE entries[4] # Nil
      <3>1. PICK x \in 1 .. p, y \in 0 .. p : entries[4] = <<x, y>>
        BY <1>2, <2>2 DEF Reading, Places
      <3>2. Container[1] = x \/ (slash \in x .. (y - 1) /\ Container[1] = slash + 1)
        BY <3>1 DEF Container
      <3>3. out'.content[1] = starts[6] /\ starts[6] \in Nat /\ p \in Nat
        BY <1>2, <1>4, <1>6 DEF Reading, Places
      <3>4. Lost(t) => starts[6] <= x
        BY <2>2, <3>1 DEF Lost
      <3> QED
        BY <3>2, <3>3, <3>4
    <2> QED
      BY <2>1, <2>2
  <1>8. TagOf(t) = Container \/ Lost(t)
    BY <1>3 DEF Leads
  <1> QED
    BY <1>4, <1>5, <1>6, <1>7, <1>8 DEF ReadAsOneDerivation, Lost

\* Every step keeps the invariant.
LEMMA ReadInvNext == ParserInv /\ ParserInv' /\ ReadInv /\ [ParserNext]_parserVars => ReadInv'
  <1> SUFFICES ASSUME ParserInv, ParserInv', ReadInv, [ParserNext]_parserVars PROVE ReadInv'
    OBVIOUS
  <1>1. ASSUME NEW c \in Byte, Read(c) PROVE ReadInv'
    <2>1. phase = "scan" /\ Dispatch(c) /\ threads' = Match(c) /\ out' = out
      BY <1>1 DEF Read
    <2>2. Reading' /\ out' = Nil
      BY <2>1, ReadingStep DEF ReadInv
    <2>3. entries'[6] = Nil
      BY <2>1, EffectStep DEF ReadInv, st0, Effect
    <2> QED
      BY <2>2, <2>3 DEF ReadInv, ReadAsOneDerivation
  <1>2. CASE Eof
    <2>1. phase = "scan" /\ phase' = "parse" /\ UNCHANGED <<cs, p, starts, slash, threads, out>>
      BY <1>2 DEF Eof
    <2>2. Reading /\ Places /\ out = Nil /\ entries[6] = Nil
      BY <2>1 DEF ReadInv, Reading
    <2>3. /\ entries' = [g \in Group |-> entries'[g]]
          /\ \A g \in Group : g # 6 => entries'[g] = entries[g]
          /\ entries'[6] = Nil \/ (cs \in Final /\ entries'[6] = <<starts[6], p>>)
      <3>1. entries = [g \in Group |-> entries[g]]
        BY <2>2 DEF Places
      <3> QED
        BY <1>2, <2>2, <3>1 DEF Eof, Group
    <2>4. entries'[0] = entries[0] /\ entries'[4] = entries[4]
      BY <2>3 DEF Group
    <2>5. Container' = Container
      BY <2>1, <2>4 DEF Container
    <2>6. Places'
      BY <2>1, <2>2, <2>3, <2>4 DEF Places
    <2>7. Reading'
      BY <2>1, <2>2, <2>4, <2>5, <2>6
         DEF Reading, PriorityRead, TagAhead, InTag, TagRead, InContent, Leads, Lost, Final
    <2> QED
      BY <2>1, <2>2, <2>3, <2>7 DEF ReadInv, ReadAsOneDerivation, Final
  <1>3. ASSUME NEW ts, Handle(ts) PROVE ReadInv'
    BY <1>3, HandleStep DEF ReadInv, Handle
  <1>4. CASE NextLine
    <2>1. /\ phase' = "scan" /\ cs' = 1 /\ p' = 0 /\ out' = Nil /\ threads' = {NewThread}
          /\ starts' = [g \in Group |-> 0] /\ entries' = [g \in Group |-> Nil]
      BY <1>4 DEF NextLine
    <2>2. starts'[6] = 0 /\ entries'[4] = Nil /\ entries'[6] = Nil
      BY <2>1 DEF Group
    <2>3. Places'
      BY <2>1, <2>2 DEF Places, TagStates
    <2>4. Reading'
      BY <2>1, <2>3 DEF Reading, PriorityRead, TagAhead, InTag, TagRead, InContent, Behind, NewThread, Group, Final
    <2> QED
      BY <2>1, <2>2, <2>4 DEF ReadInv, ReadAsOneDerivation
  <1>5. CASE UNCHANGED parserVars
    BY <1>5 DEF parserVars, ReadInv, Reading, Places, PriorityRead, TagAhead, InTag, TagRead, InContent,
                Leads, Lost, Final, ReadAsOneDerivation, Derivations, Container
  <1> QED
    BY <1>1, <1>2, <1>3, <1>4, <1>5 DEF ParserNext

\* What Handle goes on with is one reading of the line by the grammar, that with
\* the shortest content, for lines of every length: its priority and content,
\* and its container, unless the tag may be a host and the automaton took a word
\* of the content for a tag in its place.
THEOREM OneReading == ParserSpec => []ReadAsOneDerivation
  <1>1. ParserInit => ReadInv
    <2> SUFFICES ASSUME ParserInit PROVE ReadInv
      OBVIOUS
    <2>1. starts[6] = 0 /\ entries[4] = Nil /\ entries[6] = Nil
      BY DEF ParserInit, Group
    <2>2. Places
      BY <2>1 DEF ParserInit, Places, TagStates
    <2>3. Reading
      BY <2>2 DEF ParserInit, Reading, PriorityRead, TagAhead, InTag, TagRead, InContent, Behind, NewThread,
                  Group, Final
    <2> QED
      BY <2>1, <2>3 DEF ParserInit, ReadInv, ReadAsOneDerivation
  <1>2. ReadInv => ReadAsOneDerivation
    BY DEF ReadInv
  <1> QED
    BY <1>1, <1>2, ParserInvInit, ParserInvNext, ReadInvNext, PTL DEF ParserSpec
=============================================================================
