------------------------------ MODULE IpcStream -----------------------------
(***************************************************************************)
(* A stream between two processes of one machine (modules/ipc.c): reading, *)
(* writing and closing.  The two ends share two buffers; a call also moves *)
(* bytes straight from or to the memory of a peer that sleeps in its own   *)
(* call, and wakes it.  The model starts when IPC_STREAM_ACK has connected *)
(* the ends, and neither slot is given to another stream afterwards.       *)
(*                                                                         *)
(* Bytes are numbered in the order in which their process writes them.     *)
(***************************************************************************)
EXTENDS StreamEnds

CONSTANTS
  Capacity,      \* STREAM_BUFFER_LEN - 1
  Counts,        \* bound: bytes asked for by a call
  MaxSent        \* bound: bytes a process writes

ASSUME IpcStreamAssumption ==
  Capacity \in Nat \ {0} /\ Counts \subseteq Nat \ {0} /\ MaxSent \in Nat

VARIABLES
  str,           \* the struct stream of each end
  buf,           \* the buffer each end writes to: its out, its peer's in
  entry,         \* whether the process's number still leads to the stream
  stranger,      \* my_vcpu of the acceptor's slot is another process
  process,       \* the process of each end
  wreck          \* the host has followed a NULL buffer: it is gone

local_vars == <<str, buf, entry, stranger, process, wreck>>

Closed == [use |-> FALSE, dead |-> FALSE, readsleep |-> FALSE, writesleep |-> FALSE, left |-> 0]

\* ipc_stream_ack does not set my_vcpu of the acceptor's slot: it is what the
\* slot's last user left.
LocalInit ==
  /\ str = [e \in Ends |-> [Closed EXCEPT !.use = TRUE]]
  /\ buf = [e \in Ends |-> <<>>]
  /\ entry = [e \in Ends |-> TRUE]
  /\ stranger \in BOOLEAN
  /\ process = [e \in Ends |-> [state |-> "running", sent |-> 0, got |-> <<>>]]
  /\ wreck = FALSE

\* A sleeper, here or at the other end, whose transfer is complete goes on.
Wakes(p, done) == [p EXCEPT !.state = IF done THEN "running" ELSE @]
Fed(p, bytes, done) == Wakes([p EXCEPT !.got = @ \o bytes], done)
Drawn(p, n, done) == Wakes([p EXCEPT !.sent = @ + n], done)

MayCall(e) == process[e].state = "running" /\ entry[e] /\ ~wreck

\* A number that leads to a slot that was given back leads to its NULL
\* buffers.
Crash(e) ==
  /\ MayCall(e) /\ ~str[e].use
  /\ wreck' = TRUE
  /\ UNCHANGED <<str, buf, entry, stranger, process>>

\* What the call of a writer that sleeps has still to transfer
Offers(p) == IF str[p].writesleep THEN str[p].left ELSE 0

\* Mutants of Drained and MovesUp: a writer that sleeps comes before the buffer;
\* the buffer is not filled again.
DrainedLast(p, n) == Least(n - Least(n, Offers(p)), Len(buf[p]))
StaysPut(p, taken, rest) == 0

\* What a read of n bytes gets from the buffer, and what moves up there.
Drained(p, n) == Least(n, Len(buf[p]))
MovesUp(p, taken, rest) == Least(Offers(p) - taken, Capacity - Len(rest))

\* IPC_STREAM_WRITE: a reader that sleeps is fed first, then the buffer.  A
\* writer whose peer sleeps in a write does not.
LocalWrite(e, n, nonblock) ==
  LET p == Peer(e)
      fed == IF str[p].readsleep THEN Least(n, str[p].left) ELSE 0
      done == str[p].readsleep /\ fed = str[p].left
      kept == Least(n - fed, Capacity - Len(buf[e]))
      sleeps == fed + kept < n /\ ~nonblock /\ ~str[p].writesleep
      sent == process[e].sent
  IN  /\ MayCall(e) /\ str[e].use /\ ~str[e].dead
      /\ sent + n <= MaxSent
      /\ buf' = [buf EXCEPT ![e] = @ \o From(sent + fed + 1, sent + fed + kept)]
      /\ str' = [str EXCEPT ![e].writesleep = sleeps,
                            ![e].left = IF sleeps THEN n - fed - kept ELSE 0,
                            ![p].readsleep = @ /\ ~done,
                            ![p].left = @ - fed]
      /\ process' = [process EXCEPT ![e].sent = @ + fed + kept,
                                    ![e].state = IF sleeps THEN "asleep" ELSE @,
                                    ![p] = Fed(@, From(sent + 1, sent + fed), done)]
      /\ UNCHANGED <<entry, stranger, wreck>>

\* IPC_STREAM_READ: the buffer first, then a writer that sleeps, whose next
\* bytes move up into the buffer.  A reader whose peer sleeps in a read does
\* not.
LocalRead(e, n, nonblock) ==
  LET p == Peer(e)
      drained == Drained(p, n)
      rest == SubSeq(buf[p], drained + 1, Len(buf[p]))
      taken == Least(n - drained, Offers(p))
      moved == MovesUp(p, taken, rest)
      done == str[p].writesleep /\ taken + moved = Offers(p)
      sleeps == drained + taken < n /\ ~nonblock /\ ~str[p].readsleep /\ ~str[e].dead
      sent == process[p].sent
  IN  /\ MayCall(e) /\ str[e].use
      /\ buf' = [buf EXCEPT ![p] = rest \o From(sent + taken + 1, sent + taken + moved)]
      /\ str' = [str EXCEPT ![e].readsleep = sleeps,
                            ![e].left = IF sleeps THEN n - drained - taken ELSE 0,
                            ![p].writesleep = @ /\ ~done,
                            ![p].left = @ - taken - moved]
      /\ process' = [process EXCEPT ![e].got = @ \o SubSeq(buf[p], 1, drained)
                                                 \o From(sent + 1, sent + taken),
                                    ![e].state = IF sleeps THEN "asleep" ELSE @,
                                    ![p] = Drawn(@, taken + moved, done)]
      /\ UNCHANGED <<entry, stranger, wreck>>

\* close_this_stream: the end that closes last gives the buffers back, the
\* first one marks the other dead and wakes it.
Shut(e) ==
  LET p == Peer(e)
  IN  IF str[e].dead
      THEN /\ str' = [str EXCEPT ![e] = Closed]
           /\ buf' = [d \in Ends |-> <<>>]
      ELSE /\ str' = [str EXCEPT ![e] = Closed,
                                 ![p].dead = TRUE, ![p].readsleep = FALSE,
                                 ![p].writesleep = FALSE, ![p].left = 0]
           /\ UNCHANGED buf

Woken(e, state) ==
  LET p == Peer(e)
      wakes == ~str[e].dead /\ (str[p].readsleep \/ str[p].writesleep)
  IN  process' = [process EXCEPT ![e].state = state, ![p] = Wakes(@, wakes)]

\* IPC_STREAM_CLOSE.  The number is given back in the table of my_vcpu.
LocalClose(e) ==
  /\ MayCall(e)
  /\ Shut(e) /\ Woken(e, "running")
  /\ entry' = [entry EXCEPT ![e] = e = "acceptor" /\ stranger]
  /\ UNCHANGED <<stranger, wreck>>

\* ipc_stream_task_cleanup
End(e) ==
  /\ process[e].state # "ended" /\ ~wreck
  /\ IF entry[e] THEN Shut(e) /\ Woken(e, "ended")
     ELSE UNCHANGED <<str, buf>> /\ process' = [process EXCEPT ![e].state = "ended"]
  /\ entry' = [entry EXCEPT ![e] = FALSE]
  /\ UNCHANGED <<stranger, wreck>>

LocalNext ==
  \E e \in Ends :
    \/ \E n \in Counts, nonblock \in BOOLEAN : LocalWrite(e, n, nonblock) \/ LocalRead(e, n, nonblock)
    \/ LocalClose(e) \/ End(e) \/ Crash(e)

LocalSpec == LocalInit /\ [][LocalNext]_local_vars

-----------------------------------------------------------------------------
(* Properties *)

LocalTypeOK ==
  /\ str \in [Ends -> [use : BOOLEAN, dead : BOOLEAN, readsleep : BOOLEAN,
                       writesleep : BOOLEAN, left : Nat]]
  /\ buf \in [Ends -> Seq(Nat)]
  /\ entry \in [Ends -> BOOLEAN] /\ stranger \in BOOLEAN /\ wreck \in BOOLEAN
  /\ process \in [Ends -> [state : {"running", "asleep", "ended"}, sent : 0 .. MaxSent,
                        got : Seq(Nat)]]

\* What a process has read, followed by the buffer as long as it can read it,
\* is what its peer's calls have sent, in order, although bytes go three ways:
\* through the buffer, from the writer's memory, to the reader's memory.  When
\* the writer has closed its end, that is all up to the end of the stream.
BytesInOrder ==
  \A e \in Ends :
    LET p == Peer(e)
    IN  process[p].got \o (IF str[p].use THEN buf[e] ELSE <<>>)
          = From(1, IF str[p].use THEN process[e].sent ELSE Len(process[p].got))

\* A process that sleeps on the stream sleeps for a reason, an empty or a
\* full buffer, and its peer is there and awake to end it: the ends never
\* wait for each other, and nobody waits for an end that is closed.
SleepersAreServed ==
  \A e \in Ends :
    LET p == Peer(e)
    IN  process[e].state = "asleep" =>
          /\ str[e].use /\ str[p].use /\ process[p].state = "running"
          /\ str[e].left > 0
          /\ \/ str[e].readsleep /\ buf[p] = <<>>
             \/ str[e].writesleep /\ Len(buf[e]) = Capacity
=============================================================================
