----------------------------- MODULE StreamEnds -----------------------------
(***************************************************************************)
(* The two ends of a stream (modules/ipc.c), of one machine or of two, and *)
(* the bytes that their processes write: each is the number of bytes the   *)
(* process has written up to it.                                           *)
(***************************************************************************)
EXTENDS Integers, Sequences

Ends == {"requester", "acceptor"}
Peer(e) == IF e = "requester" THEN "acceptor" ELSE "requester"

Least(a, b) == IF a < b THEN a ELSE b

\* The bytes a to b of a process
From(a, b) == [i \in 1 .. b - a + 1 |-> a + i - 1]
=============================================================================
