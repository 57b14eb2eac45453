----------------------------- MODULE MCNetwork -----------------------------
(***************************************************************************)
(* An instance of Network for TLC.                                         *)
(***************************************************************************)
EXTENDS Network

CONSTANTS v1, v2

OneVcpu == {v1}
TwoVcpus == {v1, v2}
BothProtocols == {"tcp", "udp"}
Stream == {"tcp"}
OneLimit == {2}
=============================================================================
