------------------------------ MODULE Exchange ------------------------------
(***************************************************************************)
(* What IPC_MSG_SEND and IPC_MSG_RECV promise of a request, without queues,*)
(* sleepers and timers: it is opened, comes to some receivers, each once,  *)
(* and is closed.  Several requests may move in one step, as one call of   *)
(* the kernel may end many.                                                *)
(***************************************************************************)
CONSTANTS Processes, Requests, Nobody

VARIABLES
  stage,         \* of each request
  first,         \* the receiver its sender is told
  got            \* the receivers that have its message

vars == <<stage, first, got>>

Init ==
  /\ stage = [r \in Requests |-> "none"]
  /\ first = [r \in Requests |-> Nobody]
  /\ got = [r \in Requests |-> {}]

\* A request is opened and closed once.
Moves(r) ==
  <<stage[r], stage'[r]>> \in
    {<<"none", "none">>, <<"none", "open">>, <<"none", "closed">>,
     <<"open", "open">>, <<"open", "closed">>, <<"closed", "closed">>}

\* A receiver gets a message while its request is open.
Comes(r) ==
  /\ got[r] \subseteq got'[r] /\ got'[r] \subseteq Processes
  /\ stage[r] = "closed" => got'[r] = got[r]
  /\ stage'[r] = "none" => got'[r] = {}

\* The first receiver is one of those that got the message first, for ever.
Names(r) ==
  IF got'[r] = {} THEN first'[r] = Nobody
  ELSE IF got[r] = {} THEN first'[r] \in got'[r]
  ELSE first'[r] = first[r]

Next == \A r \in Requests : Moves(r) /\ Comes(r) /\ Names(r)

Spec == Init /\ [][Next]_vars
=============================================================================
