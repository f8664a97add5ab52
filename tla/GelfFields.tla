----------------------------- MODULE GelfFields -----------------------------
(***************************************************************************)
(* The fields that log/gelfforwarder.go looks for in the text of a message *)
(* before it sends it: words `field=value' between blanks.  A text and the *)
(* name of a field are sequences of pieces: blanks, equal signs and the    *)
(* stretches between them that names are made of, in capitals where only   *)
(* their capitals count.  The level comes from the message's priority or,  *)
(* if it has one, from its field `level'.                                  *)
(***************************************************************************)
EXTENDS Naturals, Sequences, FiniteSetsExt

CONSTANTS
  Pieces,     \* what texts and names are made of
  Whitelist,  \* b.fieldsWhitelist
  MaxInt,     \* the largest int
  Texts,      \* bound: the texts of messages ...
  Priorities  \* ... and their priorities: the parser takes any digits

Blank == " "

\* The names of the whitelist are words.
ASSUME GelfFieldsAssumption ==
  /\ {Blank, "=", "level"} \subseteq Pieces
  /\ Texts \subseteq Seq(Pieces) /\ Priorities \subseteq Nat /\ MaxInt \in Nat
  /\ Whitelist \subseteq Seq(Pieces) /\ \A f \in Whitelist : Blank \notin Range(f)

VARIABLES
  text,      \* gelfMsg.Short
  priority,  \* parts.priority
  level,     \* gelfMsg.Level
  extra,     \* the entries parseFields put in gelfMsg.Extra, as <<field, value>>
  parsed     \* parseFields returned

gelfVars == <<text, priority, level, extra, parsed>>

\* gelf.LOG_EMERG = 0 to LOG_DEBUG = 7, by the names a message may give them.
LevelNames == <<{"EMERG", "PANIC"}, {"ALERT"}, {"CRIT", "CRITICAL", "FATAL"}, {"ERR", "ERROR"},
                {"WARN", "WARNING"}, {"NOTICE"}, {"INFO"}, {"DEBUG"}>>
LOG_ERR == 3
LOG_INFO == 6

\* sendMessage: the level is error if the priority has both bits of LOG_ERR;
\* Atoi fails if it is too large.
PriorityLevel(s) == IF s <= MaxInt /\ s % 4 = LOG_ERR THEN LOG_ERR ELSE LOG_INFO

\* The message as sendMessage puts it on the channel.
GelfInit ==
  /\ text \in Texts /\ priority \in Priorities /\ level = PriorityLevel(priority)
  /\ extra = {} /\ parsed = FALSE

\* The places where pattern p occurs in s, and the first of them, 0 for none.
Occurrences(s, p) == {i \in 1 .. (Len(s) + 1 - Len(p)) : SubSeq(s, i, i + Len(p) - 1) = p}
Index(s, p) == IF Occurrences(s, p) = {} THEN 0 ELSE Min(Occurrences(s, p))

\* What is left of s up to its first blank.
Word(s) == IF Index(s, <<Blank>>) = 0 THEN s ELSE SubSeq(s, 1, Index(s, <<Blank>>) - 1)

\* Mutant of findFieldInMsg: what precedes the name is not looked at.
findFieldInMsgGlued(msg, field) ==
  LET idx == Index(msg, field \o <<"=">>)
  IN  IF idx = 0 THEN <<>> ELSE Word(SubSeq(msg, idx + Len(field) + 1, Len(msg)))

\* Only the first occurrence of `field=' counts, and only after a blank or at
\* the start.
findFieldInMsg(msg, field) ==
  LET idx == Index(msg, field \o <<"=">>)
  IN  IF idx = 0 \/ (idx > 1 /\ msg[idx - 1] # Blank)
      THEN <<>>
      ELSE Word(SubSeq(msg, idx + Len(field) + 1, Len(msg)))

\* The level with one of these names; any other value leaves it as it is.
Named(v, default) ==
  IF \E l \in DOMAIN LevelNames : \E n \in LevelNames[l] : v = <<n>>
  THEN (CHOOSE l \in DOMAIN LevelNames : \E n \in LevelNames[l] : v = <<n>>) - 1
  ELSE default

\* A text without any equal sign is not looked at.
parseFields ==
  /\ ~parsed /\ parsed' = TRUE
  /\ IF "=" \notin Range(text) THEN UNCHANGED <<extra, level>>
     ELSE /\ extra' = {e \in {<<f, findFieldInMsg(text, f)>> : f \in Whitelist} : e[2] # <<>>}
          /\ level' = Named(findFieldInMsg(text, <<"level">>), level)
  /\ UNCHANGED <<text, priority>>

GelfSpec == GelfInit /\ [][parseFields]_gelfVars
-----------------------------------------------------------------------------
\* The words of the text, its stretches without blanks, by where they start.
WordStarts == {i \in 1 .. Len(text) : text[i] # Blank /\ (i = 1 \/ text[i - 1] = Blank)}
WordAt(i) == Word(SubSeq(text, i, Len(text)))

\* A word that gives field f a value, and one that mentions `f=' further inside.
Gives(w, f) == 1 \in Occurrences(w, f \o <<"=">>)
Mentions(w, f) == \E i \in Occurrences(w, f \o <<"=">>) : i > 1

\* The value of a field, none or one: that of the first word `field=value', if
\* it is not empty; unless an earlier word contains `field=' further inside, as
\* request_uri=... does for the field uri.
Values(f) ==
  LET given == {i \in WordStarts : Gives(WordAt(i), f)}
      value(i) == SubSeq(WordAt(i), Len(f) + 2, Len(WordAt(i)))
      hidden(i) == \E j \in WordStarts : j < i /\ Mentions(WordAt(j), f)
  IN  {value(i) : i \in {i \in given : i = Min(given) /\ ~hidden(i) /\ value(i) # <<>>}}

\* parseFields reports exactly the fields that have a value, and takes the level
\* from the field of that name if it names one; if not, the level follows from
\* the severity in the priority, and is error for err and for debug, unless the
\* priority is no int (gelfforwarder.go:57-63, 112-145, 157-175).
FieldsFound ==
  parsed =>
    /\ \A f \in Whitelist : {e[2] : e \in {x \in extra : x[1] = f}} = Values(f)
    /\ level \in IF Values(<<"level">>) \cap {<<n>> : n \in UNION Range(LevelNames)} # {}
                 THEN {Named(v, LOG_INFO) : v \in Values(<<"level">>)}
                 ELSE {IF priority <= MaxInt /\ priority % 8 \in {3, 7} THEN LOG_ERR ELSE LOG_INFO}
=============================================================================
