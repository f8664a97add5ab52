---------------------------- MODULE MCMessageText ----------------------------
(***************************************************************************)
(* Instances of SplitParts and GelfFields.  SplitParts: between no room at *)
(* all and more than enough for a byte of content beside the longest mark, *)
(* and contents that take from one to more than a hundred parts.           *)
(* GelfFields: two names of the default whitelist, one the end of the      *)
(* other, in every text of up to seven pieces; the level in every text of  *)
(* up to five.                                                             *)
(***************************************************************************)
EXTENDS SplitParts, GelfFields

MCHeads == {3}
MCTrailers == {1, 2}
MCContents == 1 .. 130
MCLimits == {0} \cup 8 .. 26

MCPieces == {"request_", "uri", "level", "ERROR", "DEBUG", "=", Blank}
MCWhitelist == {<<"uri">>, <<"request_", "uri">>}
MCTexts == UNION {[1 .. k -> {"request_", "uri", "=", Blank}] : k \in 0 .. 7}
           \cup UNION {[1 .. k -> {"level", "ERROR", "DEBUG", "=", Blank}] : k \in 1 .. 5}
MCPriorities == {27, 30, 31, 259}   \* daemon.err, daemon.info, daemon.debug, no int

\* A message of any size and no text, or of the least size and any text.
MCInit ==
  /\ SplitInit
  /\ \/ content = 1 /\ trailer = 1 /\ limit = 0 /\ GelfInit
     \/ text = <<>> /\ priority = 30 /\ level = LOG_INFO /\ extra = {} /\ parsed = TRUE

MCNext ==
  \/ SplitNext /\ UNCHANGED gelfVars
  \/ parseFields /\ UNCHANGED splitVars

MCSpec == MCInit /\ [][MCNext]_<<splitVars, gelfVars>>
=============================================================================
