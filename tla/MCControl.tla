----------------------------- MODULE MCControl -----------------------------
(* Small instances of Control: one command line or two, two accounts.      *)
EXTENDS Control

CONSTANTS a, b, u1, u2, sys

OneCli == {a}
TwoClis == {a, b}
MCNamed == {u1, u2}
OneNamed == {u1}
AllEvents == {"crash", "password", "expiry", "revoke"}
Crashes == {"crash"}
StartAndUninstall == {"start", "uninstall"}
AllActions == {"install", "start", "uninstall", "stop", "restart"}
=============================================================================
