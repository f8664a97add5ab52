------------------------------ MODULE LogStream ------------------------------
(***************************************************************************)
(* What a log forwarder promises of the messages it accepted: they leave   *)
(* in the order they came, each at most once; units are delivered from the *)
(* front of what is pending, and what is given up is given up from the     *)
(* front too, so nothing overtakes and nothing comes back.                 *)
(***************************************************************************)
EXTENDS Naturals, Sequences

CONSTANT Payloads   \* messages, as sequences of units

VARIABLES
  pending,    \* units accepted and neither delivered nor lost
  delivered   \* units given to the network

Init == pending = <<>> /\ delivered = <<>>

Accept(p) ==
  /\ pending' = pending \o p
  /\ UNCHANGED delivered

\* The first d pending units are delivered and the next l are lost.
Advance(d, l) ==
  /\ delivered' = delivered \o SubSeq(pending, 1, d)
  /\ pending' = SubSeq(pending, d + l + 1, Len(pending))

Next ==
  \/ \E p \in Payloads : Accept(p)
  \/ \E d \in 0 .. Len(pending) : \E l \in 0 .. (Len(pending) - d) : Advance(d, l)

Spec == Init /\ [][Next]_<<pending, delivered>>
=============================================================================
