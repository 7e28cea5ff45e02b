------------------------------ MODULE MCTunnel ------------------------------
(* The instance of Tunnel that TLC checks. *)
EXTENDS Tunnel

CONSTANTS s1, s2, none
=============================================================================
