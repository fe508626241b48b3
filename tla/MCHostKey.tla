----------------------------- MODULE MCHostKey -----------------------------
(* Small instances of HostKey: one process, or two that share the file,    *)
(* and a fresh key for every first run.                                    *)
EXTENDS HostKey

CONSTANTS i1, i2, k1, k2, k3, k4, k5, k6

OneInstance == {i1}
TwoInstances == {i1, i2}
FourKeys == {k1, k2, k3, k4}
SixKeys == {k1, k2, k3, k4, k5, k6}
=============================================================================
