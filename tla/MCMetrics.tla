------------------------------ MODULE MCMetrics ------------------------------
(***************************************************************************)
(* Two containers connected with each other, one of them with a node       *)
(* elsewhere too, and a connection of the host with itself.                *)
(***************************************************************************)
EXTENDS Metrics, TLC

MCIP == "a" :> "10.0.0.1" @@ "b" :> "10.0.0.2"

MCFlows ==
  << [src |-> "10.0.0.1", dst |-> "10.0.0.2"],
     [src |-> Loopback, dst |-> Loopback],
     [src |-> "10.9.9.9", dst |-> "10.0.0.2"] >>
=============================================================================
