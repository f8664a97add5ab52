------------------------------ MODULE MCRouting ------------------------------
(***************************************************************************)
(* Two calls of Handle at a time, two addresses of the syslog backend      *)
(* between backends whose channels have no buffer, and a cache of one      *)
(* entry, so that two keys evict each other.  A message has at most two    *)
(* buffers, and the part of one that is written a third.                   *)
(***************************************************************************)
EXTENDS Routing

MCNames == [k \in Key |-> IF k = "id" THEN {"app"} ELSE {"emptied", "other"}]
MCAppNames == [c \in {"app", "emptied", "other"} |->
                CASE c = "app" -> <<"", "a">> [] c = "emptied" -> <<"a", "">> [] OTHER -> <<>>]
Channel(k, n, s) == [kind |-> k, backend |-> n, size |-> s]
MCRoute == <<Channel("tsuru", 1, 0), Channel("syslog", 2, 1), Channel("syslog", 2, 1), Channel("gelf", 3, 0)>>
=============================================================================
