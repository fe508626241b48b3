----------------------------- MODULE MCSession -----------------------------
(* Small instances of Session: a signal that ends the command, and one     *)
(* that sshSignalToOSSig does not know.                                    *)
EXTENDS Session

MCSignals == {"KILL", "USR1"}
MCUnixSignals == {"TERM", "INT", "KILL", "HUP"}
MCCodes == {0, 1}
=============================================================================
