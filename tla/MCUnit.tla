------------------------------- MODULE MCUnit -------------------------------
(* The unit has the numbers of its template: it is checked as it is.       *)
EXTENDS Unit
=============================================================================
