---------------------------- MODULE MCHostChecks ----------------------------
(***************************************************************************)
(* Instances of HostChecks: the check of the root path and the check that  *)
(* creates a container; an extra path that is filtered out would only be   *)
(* skipped, so the filter is exercised with a third check.                 *)
(***************************************************************************)
EXTENDS HostChecks

MCChecks == <<"root", "create", "extra">>
MCFilter == {"root", "create"}
=============================================================================
