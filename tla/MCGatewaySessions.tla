------------------------- MODULE MCGatewaySessions -------------------------
(* The instances of GatewaySessions that TLC checks. *)
EXTENDS GatewaySessions
=============================================================================
