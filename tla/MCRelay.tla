------------------------------ MODULE MCRelay ------------------------------
(* Small instances of Relay: one connection shows what can go wrong with   *)
(* one; three are in different states when the daemon stops.               *)
EXTENDS Relay

CONSTANTS c1, c2, c3

MCConns == {c1, c2, c3}
=============================================================================
