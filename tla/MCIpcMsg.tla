------------------------------ MODULE MCIpcMsg ------------------------------
(* Three processes that have started and registered, and one that will. *)
EXTENDS IpcMsg

\* The last process is refused the messages of the first.
MCDenied == {<<2, 0>>}

\* MULTICAST is about how long a sender sleeps.
MCModes == {{}, {"MULTICAST"}, {"NONBLOCK"}}

MCInit ==
  /\ heard = [i \in Ids |-> {}]
  /\ m = [cpu |-> [c \in Cpus |-> IF c = 2 THEN Idle ELSE [used |-> TRUE, reg |-> 1, wait |-> "no"]],
          req |-> [i \in Ids |-> Blank], next_id |-> 0,
          own |-> [c \in Cpus |-> <<>>], incoming |-> [c \in Cpus |-> <<>>],
          sleepers |-> <<>>, starts |-> 2,
          free |-> 0, blocks |-> QueueBlocks, lost |-> 0,
          fatal |-> FALSE, cut |-> {}, wreck |-> "none", twice |-> FALSE]

MCSpec == MCInit /\ [][Next]_vars /\ Fairness
=============================================================================
