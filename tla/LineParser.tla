----------------------------- MODULE LineParser -----------------------------
(***************************************************************************)
(* From a syslog line to a message: parseLogLine (log/parser.go, the       *)
(* automaton Ragel generates), LenientParser.Parse (log/format.go) and the *)
(* conditions under which LogForwarder.Handle (log/log.go) looks for the   *)
(* message's container.                                                    *)
(*                                                                         *)
(* A line is read one byte at a time; a byte is told apart only as far as  *)
(* the automaton does, and the line itself is not kept: a group is a span  *)
(* <<from, to>> of positions.  The states of the automaton and the names   *)
(* of its transitions are those of parser.go.  Beside it runs the grammar  *)
(* of parser.rl, read as it is written: every way of matching the bytes    *)
(* seen so far is a thread with the groups that way gives.                 *)
(***************************************************************************)
EXTENDS Naturals

CONSTANT MaxLen   \* bound: bytes in a line

Byte == {"lt", "gt", "digit", "space", "colon", "lbrack", "rbrack",
         "host",    \* a letter, '-' or '.'
         "slash", "other"}

Group == 0 .. 6     \* priority, date, time, host, tag, pid, content
Nil == <<>>         \* a nil slice

VARIABLES
  phase,    \* "scan", "parse", "handled"
  cs, p,    \* the automaton's state and position
  starts, entries,
  slash,    \* data: the first '/' since push(4), 0 if there is none
  threads,  \* the grammar: the ways of matching the bytes read
  out       \* what Handle went on with, or Nil

parserVars == <<phase, cs, p, starts, entries, slash, threads, out>>
-----------------------------------------------------------------------------
\* The grammar.  Nodes are the places in the expression of parser.rl where a
\* byte was matched; Follow says what may be matched next.
Any == Byte
NonSpace == Byte \ {"space"}
HostByte == {"host", "digit", "colon"}
TagByte == Byte \ {"space", "lbrack", "rbrack"}

\* The bytes a node stands for, and the nodes after it.
Matches(n) ==
  CASE n = "open" -> {"lt"} [] n = "close" -> {"gt"}
    [] n \in {"pri", "day", "hour", "min", "sec", "pid"} -> {"digit"}
    [] n = "date" -> NonSpace [] n = "host" -> HostByte [] n = "tag" -> TagByte
    [] n = "pidopen" -> {"lbrack"} [] n = "pidclose" -> {"rbrack"}
    [] n \in {"colon1", "colon2", "end"} -> {"colon"}
    [] n = "content" -> Any
    [] OTHER -> {"space"}

Follow(n) ==
  CASE n = "start" -> {"open"} [] n = "open" -> {"pri"} [] n = "pri" -> {"pri", "close"}
    [] n \in {"close", "gap0"} -> {"gap0", "date"} [] n = "date" -> {"date", "gap1"}
    [] n = "gap1" -> {"gap1", "day", "host", "tag"}
    [] n = "day" -> {"day", "daygap"} [] n = "daygap" -> {"hour"}
    [] n = "hour" -> {"hour", "colon1"} [] n = "colon1" -> {"min"}
    [] n = "min" -> {"min", "colon2"} [] n = "colon2" -> {"sec"}
    [] n = "sec" -> {"sec", "gap2"} [] n = "gap2" -> {"gap2", "host", "tag"}
    [] n = "host" -> {"host", "gap3"} [] n = "gap3" -> {"gap3", "tag"}
    [] n = "tag" -> {"tag", "pidopen", "end"} [] n = "pidopen" -> {"pid"}
    [] n = "pid" -> {"pid", "pidclose"} [] n = "pidclose" -> {"end"}
    [] n = "end" -> {"gap4"} [] n = "gap4" -> {"gap4", "content"}
    [] n = "content" -> {"content"}

\* The group a node belongs to; 7 is none.
GroupOf(n) ==
  CASE n = "pri" -> 0 [] n = "date" -> 1 [] n = "host" -> 3 [] n = "tag" -> 4
    [] n \in {"day", "daygap", "hour", "colon1", "min", "colon2", "sec"} -> 2
    [] n = "pid" -> 5 [] n = "content" -> 6 [] OTHER -> 7

\* A thread: its node, the spans of its groups, whether its tag is made of
\* host bytes only, and the first '/' in its tag.
Extend(t, n, c) ==
  LET g == GroupOf(n)
  IN  [node |-> n,
       span |-> [k \in Group |->
                  IF k # g THEN t.span[k]
                  ELSE <<IF GroupOf(t.node) = g THEN t.span[k][1] ELSE p, p + 1>>],
       hostlike |-> IF n = "tag" THEN t.hostlike /\ c \in HostByte ELSE t.hostlike,
       slash |-> IF n = "tag" /\ c = "slash" /\ t.slash = 0 THEN p ELSE t.slash]

Match(c) == UNION {{Extend(t, n, c) : n \in {m \in Follow(t.node) : c \in Matches(m)}} :
                     t \in threads}

NewThread == [node |-> "start", span |-> [g \in Group |-> Nil], hostlike |-> TRUE, slash |-> 0]

Derivations == {t \in threads : t.node = "content"}
-----------------------------------------------------------------------------
ParserInit ==
  /\ phase = "scan" /\ cs = 1 /\ p = 0
  /\ starts = [g \in Group |-> 0] /\ entries = [g \in Group |-> Nil]
  /\ slash = 0 /\ threads = {NewThread} /\ out = Nil

\* A transition to state `to' that calls push and pop for these groups.
Go(c, to, pushed, popped) ==
  /\ cs' = to /\ p' = p + 1
  /\ starts' = [g \in Group |-> IF g \in pushed THEN p ELSE starts[g]]
  /\ entries' = [g \in Group |-> IF g \in pushed THEN Nil
                                 ELSE IF g \in popped THEN <<starts[g], p>> ELSE entries[g]]
  /\ slash' = IF c = "slash" /\ (4 \in pushed \/ slash = 0) THEN p
              ELSE IF 4 \in pushed THEN 0 ELSE slash
  /\ UNCHANGED phase

st(c, to) == Go(c, to, {}, {})

\* The error state leaves the automaton without looking at the rest.
st0 ==
  /\ cs' = 0 /\ phase' = "parse"
  /\ UNCHANGED <<p, starts, entries, slash>>
tr2(c) == Go(c, 3, {0}, {})
tr4(c) == Go(c, 4, {}, {0})
tr5(c) == Go(c, 5, {1}, {})
tr8(c) == Go(c, 6, {}, {1})
tr9(c) == Go(c, 7, {4}, {})
tr11(c) == Go(c, 14, {3, 4}, {})
tr12(c) == Go(c, 18, {2, 3, 4}, {})
tr14(c) == Go(c, 8, {}, {4})
tr15(c) == Go(c, 10, {}, {4})
tr17(c) == Go(c, 26, {6}, {})
tr18(c) == Go(c, 27, {6}, {})
tr19(c) == Go(c, 11, {5}, {})
tr21(c) == Go(c, 12, {}, {5})
tr23(c) == Go(c, 15, {}, {3})
tr25(c) == Go(c, 16, {}, {4})
tr27(c) == Go(c, 17, {}, {3})
tr28(c) == Go(c, 28, {4, 6}, {})
tr29(c) == Go(c, 34, {6}, {})
tr30(c) == Go(c, 19, {}, {3})
tr32(c) == Go(c, 20, {4}, {})
tr34(c) == Go(c, 21, {}, {4})
tr36(c) == Go(c, 23, {}, {4})
tr38(c) == Go(c, 25, {}, {2})
tr42(c) == Go(c, 29, {}, {4})
tr43(c) == Go(c, 30, {}, {4})
tr45(c) == Go(c, 31, {5}, {})
tr47(c) == Go(c, 32, {}, {5})

\* A byte that neither ends nor splits a tag, and is in no class of its own.
Plain == {"lt", "gt", "slash", "other"}
Brack == {"lbrack", "rbrack"}

\* The header: '<' priority '>' date.
st_case_1(c) == \/ c = "lt" /\ st(c, 2)
                \/ c # "lt" /\ st0
st_case_2(c) == \/ c = "digit" /\ tr2(c)
                \/ c # "digit" /\ st0
st_case_3(c) == \/ c = "gt" /\ tr4(c)
                \/ c = "digit" /\ st(c, 3)
                \/ c \notin {"gt", "digit"} /\ st0
st_case_4(c) == \/ c = "space" /\ st(c, 4)
                \/ c # "space" /\ tr5(c)
st_case_5(c) == \/ c = "space" /\ tr8(c)
                \/ c # "space" /\ st(c, 5)
st_case_6(c) == \/ c = "space" /\ st(c, 6)
                \/ c \in {"colon", "host"} /\ tr11(c)
                \/ c = "digit" /\ tr12(c)
                \/ c \in Brack /\ st0
                \/ c \in Plain /\ tr9(c)

\* The tag when it can be nothing else, the pid and the content.
st_case_7(c) == \/ c \in {"space", "rbrack"} /\ st0
                \/ c = "colon" /\ tr14(c)
                \/ c = "lbrack" /\ tr15(c)
                \/ c \in Plain \cup {"digit", "host"} /\ st(c, 7)
st_case_8(c) == \/ c = "space" /\ st(c, 9)
                \/ c = "colon" /\ tr14(c)
                \/ c = "lbrack" /\ tr15(c)
                \/ c = "rbrack" /\ st0
                \/ c \in Plain \cup {"digit", "host"} /\ st(c, 7)
st_case_9(c) == \/ c = "space" /\ tr18(c)
                \/ c # "space" /\ tr17(c)
st_case_26(c) == st(c, 26)
st_case_27(c) == \/ c = "space" /\ tr18(c)
                 \/ c # "space" /\ tr17(c)
st_case_10(c) == \/ c = "digit" /\ tr19(c)
                 \/ c # "digit" /\ st0
st_case_11(c) == \/ c = "rbrack" /\ tr21(c)
                 \/ c = "digit" /\ st(c, 11)
                 \/ c \notin {"rbrack", "digit"} /\ st0
st_case_12(c) == \/ c = "colon" /\ st(c, 13)
                 \/ c # "colon" /\ st0
st_case_13(c) == \/ c = "space" /\ st(c, 9)
                 \/ c # "space" /\ st0

\* A word that may be the host or the tag.
st_case_14(c) == \/ c = "space" /\ tr23(c)
                 \/ c = "colon" /\ tr25(c)
                 \/ c = "lbrack" /\ tr15(c)
                 \/ c = "rbrack" /\ st0
                 \/ c \in {"digit", "host"} /\ st(c, 14)
                 \/ c \in Plain /\ st(c, 7)
st_case_15(c) == \/ c = "space" /\ st(c, 15)
                 \/ c \in Brack /\ st0
                 \/ c \notin Brack \cup {"space"} /\ tr9(c)
st_case_16(c) == \/ c = "space" /\ tr27(c)
                 \/ c = "colon" /\ tr25(c)
                 \/ c = "lbrack" /\ tr15(c)
                 \/ c = "rbrack" /\ st0
                 \/ c \in {"digit", "host"} /\ st(c, 14)
                 \/ c \in Plain /\ st(c, 7)

\* After a word of host bytes that ends in ':': the content, or the tag.
st_case_17(c) == \/ c = "space" /\ tr29(c)
                 \/ c \in Brack /\ tr17(c)
                 \/ c \notin Brack \cup {"space"} /\ tr28(c)
st_case_28(c) == \/ c \in {"space", "rbrack"} /\ st(c, 26)
                 \/ c = "colon" /\ tr42(c)
                 \/ c = "lbrack" /\ tr43(c)
                 \/ c \in Plain \cup {"digit", "host"} /\ st(c, 28)
st_case_29(c) == \/ c = "space" /\ st(c, 27)
                 \/ c = "colon" /\ tr42(c)
                 \/ c = "lbrack" /\ tr43(c)
                 \/ c = "rbrack" /\ st(c, 26)
                 \/ c \in Plain \cup {"digit", "host"} /\ st(c, 28)
st_case_30(c) == \/ c = "digit" /\ tr45(c)
                 \/ c # "digit" /\ st(c, 26)
st_case_31(c) == \/ c = "rbrack" /\ tr47(c)
                 \/ c = "digit" /\ st(c, 31)
                 \/ c \notin {"rbrack", "digit"} /\ st(c, 26)
st_case_32(c) == \/ c = "colon" /\ st(c, 33)
                 \/ c # "colon" /\ st(c, 26)
st_case_33(c) == \/ c = "space" /\ st(c, 27)
                 \/ c # "space" /\ st(c, 26)
st_case_34(c) == st_case_17(c)

\* Digits that may be the day of a time, the host or the tag.
\* Mutant of st_case_18: a second digit ends the chance of a time.
st_case_18OneDigit(c) ==
  \/ c = "space" /\ tr30(c)
  \/ c = "colon" /\ tr25(c)
  \/ c = "lbrack" /\ tr15(c)
  \/ c = "rbrack" /\ st0
  \/ c \in {"host", "digit"} /\ st(c, 14)
  \/ c \in Plain /\ st(c, 7)

st_case_18(c) == \/ c = "space" /\ tr30(c)
                 \/ c = "colon" /\ tr25(c)
                 \/ c = "lbrack" /\ tr15(c)
                 \/ c = "rbrack" /\ st0
                 \/ c = "host" /\ st(c, 14)
                 \/ c = "digit" /\ st(c, 18)
                 \/ c \in Plain /\ st(c, 7)
st_case_19(c) == \/ c = "space" /\ st(c, 15)
                 \/ c \in Brack /\ st0
                 \/ c = "digit" /\ tr32(c)
                 \/ c \in Plain \cup {"colon", "host"} /\ tr9(c)
st_case_20(c) == \/ c \in {"space", "rbrack"} /\ st0
                 \/ c = "colon" /\ tr34(c)
                 \/ c = "lbrack" /\ tr15(c)
                 \/ c = "digit" /\ st(c, 20)
                 \/ c \in Plain \cup {"host"} /\ st(c, 7)
st_case_21(c) == \/ c = "space" /\ st(c, 9)
                 \/ c = "colon" /\ tr14(c)
                 \/ c = "lbrack" /\ tr15(c)
                 \/ c = "rbrack" /\ st0
                 \/ c = "digit" /\ st(c, 22)
                 \/ c \in Plain \cup {"host"} /\ st(c, 7)
st_case_22(c) == \/ c \in {"space", "rbrack"} /\ st0
                 \/ c = "colon" /\ tr36(c)
                 \/ c = "lbrack" /\ tr15(c)
                 \/ c = "digit" /\ st(c, 22)
                 \/ c \in Plain \cup {"host"} /\ st(c, 7)
st_case_23(c) == \/ c = "space" /\ st(c, 9)
                 \/ c = "colon" /\ tr14(c)
                 \/ c = "lbrack" /\ tr15(c)
                 \/ c = "rbrack" /\ st0
                 \/ c = "digit" /\ st(c, 24)
                 \/ c \in Plain \cup {"host"} /\ st(c, 7)
st_case_24(c) == \/ c = "space" /\ tr38(c)
                 \/ c = "colon" /\ tr14(c)
                 \/ c = "lbrack" /\ tr15(c)
                 \/ c = "rbrack" /\ st0
                 \/ c = "digit" /\ st(c, 24)
                 \/ c \in Plain \cup {"host"} /\ st(c, 7)
st_case_25(c) == \/ c = "space" /\ st(c, 25)
                 \/ c \in Brack /\ st0
                 \/ c \in HostByte /\ tr11(c)
                 \/ c \in Plain /\ tr9(c)

Dispatch(c) ==
  \/ (cs = 1 /\ st_case_1(c)) \/ (cs = 2 /\ st_case_2(c)) \/ (cs = 3 /\ st_case_3(c))
  \/ (cs = 4 /\ st_case_4(c)) \/ (cs = 5 /\ st_case_5(c)) \/ (cs = 6 /\ st_case_6(c))
  \/ (cs = 7 /\ st_case_7(c)) \/ (cs = 8 /\ st_case_8(c)) \/ (cs = 9 /\ st_case_9(c))
  \/ (cs = 26 /\ st_case_26(c)) \/ (cs = 27 /\ st_case_27(c)) \/ (cs = 10 /\ st_case_10(c))
  \/ (cs = 11 /\ st_case_11(c)) \/ (cs = 12 /\ st_case_12(c)) \/ (cs = 13 /\ st_case_13(c))
  \/ (cs = 14 /\ st_case_14(c)) \/ (cs = 15 /\ st_case_15(c)) \/ (cs = 16 /\ st_case_16(c))
  \/ (cs = 17 /\ st_case_17(c)) \/ (cs = 28 /\ st_case_28(c)) \/ (cs = 29 /\ st_case_29(c))
  \/ (cs = 30 /\ st_case_30(c)) \/ (cs = 31 /\ st_case_31(c)) \/ (cs = 32 /\ st_case_32(c))
  \/ (cs = 33 /\ st_case_33(c)) \/ (cs = 34 /\ st_case_34(c)) \/ (cs = 18 /\ st_case_18(c))
  \/ (cs = 19 /\ st_case_19(c)) \/ (cs = 20 /\ st_case_20(c)) \/ (cs = 21 /\ st_case_21(c))
  \/ (cs = 22 /\ st_case_22(c)) \/ (cs = 23 /\ st_case_23(c)) \/ (cs = 24 /\ st_case_24(c))
  \/ (cs = 25 /\ st_case_25(c))

Read(c) ==
  /\ phase = "scan" /\ p < MaxLen
  /\ Dispatch(c)
  /\ threads' = Match(c)
  /\ UNCHANGED out

\* The end of the line: pop(6) in a final state.
Final == 26 .. 34

\* Mutant of Eof: pop(6) whatever the state.
EofAnywhere ==
  /\ phase = "scan" /\ phase' = "parse"
  /\ entries' = [entries EXCEPT ![6] = <<starts[6], p>>]
  /\ UNCHANGED <<cs, p, starts, slash, threads, out>>

Eof ==
  /\ phase = "scan" /\ phase' = "parse"
  /\ entries' = IF cs \in Final THEN [entries EXCEPT ![6] = <<starts[6], p>>] ELSE entries
  /\ UNCHANGED <<cs, p, starts, slash, threads, out>>

\* The container: group 4, from behind its first '/' if it has one.
Container ==
  LET g == entries[4]
  IN  IF g # Nil /\ slash \in g[1] .. (g[2] - 1) THEN <<slash + 1, g[2]>> ELSE g

\* Parse and the first part of Handle.  A line no date of which parses is an
\* error; a zero date is possible only in the format with a year; a line
\* without content or priority is ignored.
Date == {ts \in {"error", "zero", "set"} :
           /\ entries[1] = Nil => ts = "error"
           /\ entries[2] # Nil => ts # "zero"}

Handle(ts) ==
  /\ phase = "parse" /\ phase' = "handled"
  /\ ts \in Date
  /\ out' = IF ts = "set" /\ entries[6] # Nil /\ entries[0] # Nil
            THEN [priority |-> entries[0], container |-> Container, content |-> entries[6]]
            ELSE Nil
  /\ UNCHANGED <<cs, p, starts, entries, slash, threads>>

\* The parser of the next line starts anew.
NextLine ==
  /\ phase = "handled" /\ phase' = "scan" /\ cs' = 1 /\ p' = 0
  /\ starts' = [g \in Group |-> 0] /\ entries' = [g \in Group |-> Nil]
  /\ slash' = 0 /\ threads' = {NewThread} /\ out' = Nil

ParserNext ==
  \/ \E c \in Byte : Read(c)
  \/ Eof \/ NextLine
  \/ \E ts \in {"error", "zero", "set"} : Handle(ts)

ParserSpec == ParserInit /\ [][ParserNext]_parserVars
-----------------------------------------------------------------------------
\* The generated automaton recognises the grammar it was generated from: it
\* stops at the first byte no way of matching the line survives, and it is in
\* a final state exactly when the bytes so far are a whole line
\* (parser.go:113-990, parser.rl:25-31).
Recognises ==
  /\ cs = 0 <=> threads = {}
  /\ cs \in Final <=> Derivations # {}

\* A way of matching the line as a tag of host bytes followed by ": ", without
\* a host before it or a pid behind it.
MaybeHost(t) == t.hostlike /\ t.span[3] = Nil /\ t.span[5] = Nil

TagOf(t) == IF t.slash = 0 THEN t.span[4] ELSE <<t.slash + 1, t.span[4][2]>>

\* What Handle goes on with is one reading of the line: among the derivations
\* the one whose content starts last, with its priority and its tag; a line
\* the grammar rejects gives nothing, although Parse does not report it.  Only
\* a tag that could as well be the host is lost: the container is then none,
\* or the start of the content (parser.go:381-640, format.go:53-80).
ReadAsOneDerivation ==
  out # Nil =>
    \E t \in Derivations :
      /\ \A u \in Derivations : u.span[6][1] <= t.span[6][1]
      /\ out.content = t.span[6] /\ out.priority = t.span[0]
      /\ \/ out.container = TagOf(t)
         \/ /\ MaybeHost(t)
            /\ (out.container = Nil \/ out.container[1] >= out.content[1])
=============================================================================
