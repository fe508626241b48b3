------------------------------ MODULE MCAccess ------------------------------
(* An instance of Access: two users, passwords and keys, an address on      *)
(* every interface, one without a host part and a local one.                *)
EXTENDS Access

CONSTANTS u1, u2, p1, p2, k1, k2

MCHosts == {"0.0.0.0", "", "127.0.0.1"}
MCUsers == {u1, u2}
MCPasswords == {p1, p2}
MCKeys == {k1, k2}
=============================================================================
