---------------------------- MODULE MCLifecycle ----------------------------
(***************************************************************************)
(* Backends with one address each, a syslog backend with none and with     *)
(* two, before and after another backend, alone without an address, and no *)
(* backend at all.                                                         *)
(***************************************************************************)
EXTENDS Lifecycle

MCConfigs == {<<1, 0, 1>>, <<1, 2>>, <<2, 1>>, <<0>>, <<>>}
=============================================================================
