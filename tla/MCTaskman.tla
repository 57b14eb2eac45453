----------------------------- MODULE MCTaskman -----------------------------
(***************************************************************************)
(* Taskman with two virtual CPUs and two images of different sizes, one of *)
(* which asks for debug mode itself.                                       *)
(***************************************************************************)
EXTENDS Taskman

Small == [init_IP |-> 0, bytesize |-> 2, datasize |-> 1, debug |-> FALSE]
Large == [init_IP |-> 1, bytesize |-> 1, datasize |-> 3, debug |-> TRUE]
TwoImages == {Small, Large}
=============================================================================
