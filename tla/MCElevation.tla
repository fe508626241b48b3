---------------------------- MODULE MCElevation ----------------------------
(* Instances of Elevation: one parent and its child, with all answers.      *)
EXTENDS Elevation
=============================================================================
