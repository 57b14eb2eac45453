------------------------------ MODULE MCFsLock ------------------------------
(***************************************************************************)
(* Instances of FsLock for TLC.                                            *)
(***************************************************************************)
EXTENDS FsLock

CONSTANTS v1, v2, f, g, i1, i2

TwoVcpus == {v1, v2}
Second == {v2}
TwoFiles == {f, g}
TwoInodes == {i1, i2}
Write == {"write"}
=============================================================================
