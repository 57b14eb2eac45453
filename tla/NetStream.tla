------------------------------ MODULE NetStream -----------------------------
(***************************************************************************)
(* A stream between processes of two machines (modules/ipc.c): the         *)
(* handshake that follows IPC_STREAM_ACK, the exchange of numbered packets *)
(* (one unacknowledged packet per direction, acknowledgements that travel  *)
(* on packets of the other direction, retransmission by a timer), reading, *)
(* writing, closing, and the timers.  The model starts when the acceptor   *)
(* has answered the request: its first PCKT_RESP is under way.             *)
(*                                                                         *)
(* A handler is an operator on a record w: the stream s of this end, its   *)
(* process p, the packets n it sends, and whether a route exists.          *)
(* Bytes are numbered in the order in which their process writes them.     *)
(***************************************************************************)
EXTENDS StreamEnds, FiniteSets

CONSTANTS
  BufferLen,     \* STREAM_BUFFER_LEN - 1, also MAX_STREAM_PAYLOAD
  MaxResend,     \* IPC_MAX_RESEND
  MaxBytes,      \* bound: bytes a process of each end writes
  Calls,         \* bound: <<count, nonblock>> of reads and writes
  MaxPackets,    \* bound: packets under way to an end; one more is lost
  Faults         \* what may happen to which end besides the loss of packets

ASSUME NetStreamAssumption ==
  /\ BufferLen \in Nat \ {0} /\ MaxResend \in Nat \ {0} /\ MaxPackets \in [Ends -> Nat \ {0}]
  /\ MaxBytes \in [Ends -> Nat] /\ Calls \subseteq Nat \X BOOLEAN
  /\ Faults \subseteq {"unanswered", "unconfirmed", "silent", "no route", "ended"} \X Ends

VARIABLES
  end,           \* the struct stream of each end
  proc,          \* the process of each end
  net,           \* packets under way to each end
  upset          \* history: faults other than lost packets that have happened

vars == <<end, proc, net, upset>>

\* A free slot of the table streams.
Free ==
  [use |-> FALSE, notready |-> FALSE, dead |-> FALSE, closing |-> FALSE,
   peerclosing |-> FALSE, readsleep |-> FALSE, writesleep |-> FALSE,
   req |-> "none", retries |-> 0, in |-> <<>>, out |-> <<>>, sent |-> 0,
   data |-> <<>>, my |-> 0, peer |-> 0, left |-> 0]

\* A stream of which the handshake has begun: the requester's counters are
\* the acceptor's exchanged.
Opened(my_count, peer_count) ==
  [Free EXCEPT !.use = TRUE, !.notready = TRUE, !.req = "sent",
               !.my = my_count, !.peer = peer_count]

Note(kind) == [kind |-> kind, number |-> 0, ack |-> 0, flags |-> {}, load |-> <<>>]

\* A process that called without IPC_FLAG_NONBLOCK sleeps in the handshake.
Init ==
  /\ end = [e \in Ends |-> IF e = "requester" THEN Opened(1, 0) ELSE Opened(0, 1)]
  /\ proc \in [Ends -> [state : {"running", "asleep"}, written : {0}, log : {<<>>},
                        eof : {FALSE}]]
  /\ net = [e \in Ends |-> IF e = "requester" THEN {Note("resp")} ELSE {}]
  /\ upset = {}

-----------------------------------------------------------------------------
(* Sending *)

Put(w, pkt) ==
  IF w.route /\ Cardinality(w.n) < w.room THEN [w EXCEPT !.n = @ \cup {pkt}] ELSE w

\* ripc_stream_send_data: a chunk of the out buffer (the one under way, if
\* there is one), a closing packet, or an unnumbered ping.
DataToSend(s) == s.out # <<>> /\ ~s.peerclosing

Chunk(s) == IF s.sent > 0 THEN SubSeq(s.out, 1, s.sent) ELSE s.out

Packet(s) ==
  LET flags == (IF DataToSend(s) THEN {"DATA"} ELSE {})
               \cup (IF s.closing /\ ~(DataToSend(s) /\ s.sent > 0) THEN {"CLOSING"} ELSE {})
  IN  [kind |-> "data", ack |-> s.peer, flags |-> flags,
       number |-> IF flags = {} THEN 0 ELSE s.my,
       load |-> IF DataToSend(s) THEN Chunk(s) ELSE <<>>]

SendData(w) ==
  IF w.s.dead THEN w
  ELSE LET x == Put(w, Packet(w.s))
           y == IF DataToSend(w.s) THEN [x EXCEPT !.s.sent = Len(Chunk(w.s))] ELSE x
       IN  [y EXCEPT !.s.dead = ~w.route]

Reset(w) == Put(w, Note("reset"))

-----------------------------------------------------------------------------
(* The process of an end *)

\* state -= VCPU_STATE_IPCWAIT, whether or not the bit is set.
Wake(w) == [w EXCEPT !.p.state = IF @ = "asleep" THEN "running" ELSE "corrupt"]

Sleep(w, flag, left) ==
  [w EXCEPT !.p.state = "asleep", !.s.left = left, !.s[flag] = TRUE]

\* The next n bytes of the process go to the out buffer.
Accept(w, n) ==
  [w EXCEPT !.s.out = @ \o [i \in 1 .. n |-> w.p.written + i], !.p.written = @ + n]

\* Mutant of Room: the slot that tells a full ring from an empty one is used.
RoomForAll(s) == BufferLen + 1 - Len(s.out)

Room(s) == BufferLen - Len(s.out)

\* The first n bytes of the in buffer go to the process.
Consume(w, n) ==
  [w EXCEPT !.p.log = @ \o SubSeq(w.s.in, 1, n), !.s.in = SubSeq(@, n + 1, Len(@))]

-----------------------------------------------------------------------------
(* ripc_stream_update *)

\* The packet that waits moves to the in buffer when that is empty.
MovesData(s) == s.data # <<>> /\ s.in = <<>>
MoveData(w) ==
  IF MovesData(w.s) THEN [w EXCEPT !.s.in = w.s.data[1], !.s.data = <<>>] ELSE w

\* Mutant of FeedReader: the end of the stream does not wake a reader.
FeedWithoutEnd(w) ==
  LET n == Least(w.s.left, Len(w.s.in))
      x == [Consume(w, n) EXCEPT !.s.left = @ - n]
  IN  IF x.s.left = 0 THEN [Wake(x) EXCEPT !.s.readsleep = FALSE] ELSE x

FeedReader(w) ==
  LET n == Least(w.s.left, Len(w.s.in))
      x == [Consume(w, n) EXCEPT !.s.left = @ - n]
      done == x.s.left = 0
  IN  IF done \/ w.s.dead
      THEN [Wake(x) EXCEPT !.s.readsleep = FALSE, !.p.eof = @ \/ ~done]
      ELSE x

FeedWriter(w) ==
  LET n == Least(w.s.left, Room(w.s))
      x == [Accept(w, n) EXCEPT !.s.left = @ - n]
  IN  IF x.s.left = 0 THEN [Wake(x) EXCEPT !.s.writesleep = FALSE] ELSE x

\* A writer whose peer has gone wakes with an exception; STR_WRITESLEEP stays.
RefuseWriter(w) == SendData(Wake(w))

Update(w, sendsth) ==
  LET a == MoveData(w)
      b == IF a.s.readsleep THEN FeedReader(a)
           ELSE IF a.s.writesleep THEN FeedWriter(a) ELSE a
      c == MoveData(b)
      change == \/ sendsth \/ MovesData(w.s) \/ MovesData(b.s)
                \/ ~a.s.readsleep /\ a.s.writesleep /\ a.s.out = <<>>
                \/ c.s.sent = 0 /\ c.s.out # <<>>
  IN  CASE w.s.notready -> w
        [] ~w.s.notready /\ ~a.s.readsleep /\ a.s.writesleep /\ (a.s.dead \/ a.s.peerclosing)
             -> RefuseWriter(a)
        [] ~w.s.notready /\ ~a.s.readsleep /\ ~a.s.writesleep /\ a.s.dead -> a
        [] OTHER -> IF change THEN SendData(c) ELSE c

-----------------------------------------------------------------------------
(* close_this_stream *)

\* The slot is given back, but not a request of it that waits for its
\* confirmation; a process asleep on the stream is not woken.
GivenBack(s) == [Free EXCEPT !.req = s.req, !.retries = s.retries]

Discard(w) ==
  [w EXCEPT !.s = GivenBack(@), !.p.state = IF @ = "asleep" THEN "lost" ELSE @]

CloseThisStream(w, hard) ==
  IF hard \/ w.s.dead \/ w.s.peerclosing THEN Discard(w)
  ELSE LET x == [w EXCEPT !.s.closing = TRUE]
       IN  IF x.s.out = <<>> THEN SendData(x) ELSE x

-----------------------------------------------------------------------------
(* Receiving *)

\* ripc_stream_resp: the acceptor's answer, at the requester.
RecvResp(w) ==
  CASE ~w.s.use -> w
    [] w.s.use /\ w.s.req = "sent" ->
         LET x == Put(w, Note("ack_ack"))
         IN  [x EXCEPT !.s.req = "none", !.p.state = "running"]
    [] OTHER -> Put(w, Note("ack_ack"))

\* ripc_stream_ack_ack: the requester's confirmation, at the acceptor.
RecvAckAck(w) ==
  CASE ~w.s.use \/ w.s.dead -> Reset(w)
    [] w.s.use /\ ~w.s.dead /\ w.s.req = "sent" ->
         SendData([w EXCEPT !.s.notready = FALSE, !.s.req = "none",
                            !.p.state = IF @ = "asleep" /\ ~w.s.readsleep /\ ~w.s.writesleep
                                        THEN "running" ELSE @])
    [] OTHER -> w

\* ripc_stream_reset, for the stream of a process that has not ended
RecvReset(w) ==
  IF ~w.s.use \/ w.s.dead \/ w.p.state = "ended" THEN w
  ELSE LET x == [w EXCEPT !.s.notready = FALSE, !.s.dead = TRUE]
       IN  IF x.s.closing THEN CloseThisStream(x, TRUE) ELSE Update(x, FALSE)

\* The packet under way has arrived: my_count is the next one's number.
NextNumber(w) == [w EXCEPT !.s.my = @ + 1]
Advance(w) ==
  [NextNumber(w) EXCEPT !.s.out = SubSeq(@, w.s.sent + 1, Len(@)), !.s.sent = 0]

\* Mutant of Finished: what has not been sent yet does not count.
FinishedSent(s) == s.closing

\* Nothing is left to acknowledge of a stream that is being closed.
Finished(s) == s.closing /\ s.out = <<>>
Finish(w) == CloseThisStream(Reset(w), TRUE)

RecvPing(w, pkt) ==
  CASE pkt.ack # w.s.my -> w
    [] pkt.ack = w.s.my /\ Finished(w.s) -> Finish(NextNumber(w))
    [] OTHER -> Update(Advance(w), TRUE)

\* Mutant of RecvOld: a packet that came before is dropped, not acknowledged.
DropOld(w, pkt) == w

RecvOld(w, pkt) ==
  LET x == IF "CLOSING" \in pkt.flags THEN [w EXCEPT !.s.peerclosing = TRUE] ELSE w
  IN  CASE "CLOSING" \in pkt.flags /\ w.s.closing ->
             Update(Reset([w EXCEPT !.s.dead = TRUE]), TRUE)
        [] ~("CLOSING" \in pkt.flags /\ w.s.closing) /\ pkt.ack = w.s.my /\ Finished(w.s) ->
             Finish(NextNumber(x))
        [] OTHER -> Update(IF pkt.ack = w.s.my THEN Advance(x) ELSE x, TRUE)

\* Mutant of Link: a packet that waits for the reader is replaced.
Replace(w, pkt) ==
  [w EXCEPT !.s.peer = pkt.number,
            !.s.data = IF "DATA" \in pkt.flags THEN <<pkt.load>> ELSE <<>>]

Link(w, pkt) ==
  IF w.s.data # <<>> THEN w
  ELSE [w EXCEPT !.s.peer = pkt.number,
                 !.s.data = IF "DATA" \in pkt.flags THEN <<pkt.load>> ELSE <<>>]

RecvNew(w, pkt) ==
  LET x == IF "CLOSING" \in pkt.flags THEN [w EXCEPT !.s.peerclosing = TRUE] ELSE w
      acked == pkt.ack = w.s.my
      y == IF acked THEN Advance(x) ELSE x
  IN  IF acked /\ Finished(w.s) THEN Finish([NextNumber(x) EXCEPT !.s.dead = TRUE])
      ELSE IF acked \/ w.s.data = <<>> THEN Update(Link(y, pkt), TRUE)
      ELSE y

\* ripc_stream_recv_data
RecvData(w, pkt) ==
  LET x == [w EXCEPT !.s.notready = FALSE]
  IN  CASE ~w.s.use \/ w.s.req # "none" \/ w.s.dead -> Reset(w)
        [] OTHER ->
             CASE pkt.number = 0 -> RecvPing(x, pkt)
               [] pkt.number # 0 /\ pkt.number = w.s.peer -> RecvOld(x, pkt)
               [] pkt.number # 0 /\ pkt.number = w.s.peer + 1 -> RecvNew(x, pkt)
               [] OTHER -> x

Recv(w, pkt) ==
  CASE pkt.kind = "resp" -> RecvResp(w)
    [] pkt.kind = "ack_ack" -> RecvAckAck(w)
    [] pkt.kind = "reset" -> RecvReset(w)
    [] OTHER -> RecvData(w, pkt)

-----------------------------------------------------------------------------
(* Steps *)

Start(e, route) == [s |-> end[e], p |-> proc[e], n |-> net[Peer(e)], room |-> MaxPackets[Peer(e)],
                   route |-> route]

\* An end runs a handler, which took the packets in taken: op, with and
\* without a route to its peer.  Without one a packet is dropped; only
\* ripc_stream_send_data looks at the result, so the missing route counts as
\* a fault where that was called.
Do(e, op, taken) ==
  \E route \in {TRUE} \cup (IF <<"no route", e>> \in Faults THEN {FALSE} ELSE {}) :
    LET w == op[route]
    IN  /\ route \/ (w.s.dead /\ ~op[TRUE].s.dead)
        /\ end' = [end EXCEPT ![e] = w.s]
        /\ proc' = [proc EXCEPT ![e] = w.p]
        /\ net' = [net EXCEPT ![e] = @ \ taken, ![Peer(e)] = w.n]
        /\ upset' = upset \cup (IF route THEN {} ELSE {<<"no route", e>>})

\* The host follows s->req to a request that was given back: nothing is said
\* about what it does then.
Wreck(e) == upset' = upset \cup {<<"wreck", e>>} /\ UNCHANGED <<end, proc, net>>
Standing == \A e \in Ends : <<"wreck", e>> \notin upset

Fault(f, e) == <<f, e>> \in Faults /\ upset' = upset \cup {<<f, e>>}

Receive(e) ==
  \E pkt \in net[e] :
    LET op == [route \in BOOLEAN |-> Recv(Start(e, route), pkt)]
    IN  IF pkt.kind = "ack_ack" /\ end[e].use /\ ~end[e].dead /\ end[e].req = "stale"
        THEN Wreck(e)
        ELSE Do(e, op, {pkt})

Lose(e) ==
  /\ \E pkt \in net[e] : net' = [net EXCEPT ![e] = @ \ {pkt}]
  /\ UNCHANGED <<end, proc, upset>>

\* The process knows the stream's number once the request is answered.
Ready(e) == proc[e].state = "running" /\ end[e].use /\ ~(e = "requester" /\ end[e].req = "sent")

\* IPC_STREAM_READ.  A reader that gets less than it asked for when the stream
\* is dead takes that for its end.
Reading(w, count, nonblock) ==
  LET n == Least(count, Len(w.s.in))
      x == Consume(w, n)
      waits == n < count /\ ~nonblock
  IN  IF w.s.dead THEN [x EXCEPT !.p.eof = @ \/ n < count]
      ELSE Update(IF waits THEN Sleep(x, "readsleep", count - n) ELSE x, FALSE)

Read(e) ==
  \E call \in Calls :
    LET op == [route \in BOOLEAN |-> Reading(Start(e, route), call[1], call[2])]
    IN  Ready(e) /\ Do(e, op, {})

\* IPC_STREAM_WRITE.  The slot of a closed stream stays valid until the peer
\* has confirmed, but no process is described that writes to it nevertheless.
Writing(w, count, nonblock) ==
  CASE ~nonblock /\ w.s.notready -> Sleep(w, "writesleep", count)
    [] ~nonblock /\ ~w.s.notready -> Update(Sleep(w, "writesleep", count), FALSE)
    [] OTHER -> Update(Accept(w, Least(count, Room(w.s))), FALSE)

Write(e) ==
  \E call \in Calls :
    LET op == [route \in BOOLEAN |-> Writing(Start(e, route), call[1], call[2])]
    IN  /\ Ready(e) /\ ~end[e].dead /\ ~end[e].closing
        /\ ~(call[2] /\ end[e].notready)
        /\ proc[e].written + call[1] <= MaxBytes[e]
        /\ Do(e, op, {})

\* IPC_STREAM_CLOSE
Close(e) ==
  LET op == [route \in BOOLEAN |-> CloseThisStream(Start(e, route), FALSE)]
  IN  Ready(e) /\ Do(e, op, {})

\* ipc_stream_task_cleanup.  (A requester that ends before its request is
\* answered is not described: see the README.)
Die(e) ==
  LET op == [route \in BOOLEAN |->
        [CloseThisStream([Start(e, route) EXCEPT !.s.readsleep = FALSE, !.s.writesleep = FALSE,
                                                 !.s.req = "none"], FALSE)
         EXCEPT !.p.state = "ended"]]
  IN  /\ <<"ended", e>> \in Faults
      /\ proc[e].state # "ended" /\ ~(e = "requester" /\ end[e].use /\ end[e].req = "sent")
      /\ IF end[e].use /\ end[e].req = "stale" THEN Wreck(e)
         ELSE IF end[e].use THEN Do(e, op, {})
         ELSE proc' = [proc EXCEPT ![e].state = "ended"] /\ UNCHANGED <<end, net, upset>>

-----------------------------------------------------------------------------
(* The timers *)

\* ipc_stream_timeouter: the request was not answered in time.
Unanswered ==
  /\ end["requester"].use /\ end["requester"].req = "sent"
  /\ Fault("unanswered", "requester")
  /\ LET w == CloseThisStream(Start("requester", TRUE), TRUE)
     IN  /\ end' = [end EXCEPT !["requester"] = w.s]
         /\ proc' = [proc EXCEPT !["requester"] = w.p]
  /\ UNCHANGED net

\* ripc_stream_timeouter: the answer is sent again, as long as the request is
\* on network_requests, even if the stream is gone ...
Repeat ==
  /\ end["acceptor"].req = "sent"
  /\ end["acceptor"].retries + 1 < MaxResend
  /\ end' = [end EXCEPT !["acceptor"].retries = @ + 1]
  /\ net' = [net EXCEPT !["requester"] = Put(Start("acceptor", TRUE), Note("resp")).n]
  /\ UNCHANGED <<proc, upset>>

\* ... and after a while given up; s->req is not cleared, and a process that
\* sleeps in IPC_STREAM_ACK is not woken.
Unconfirmed ==
  /\ end["acceptor"].req = "sent"
  /\ end["acceptor"].retries + 1 = MaxResend
  /\ Fault("unconfirmed", "acceptor")
  /\ LET v == Start("acceptor", TRUE)
         w == IF v.s.use THEN CloseThisStream(v, FALSE) ELSE v
     IN  /\ end' = [end EXCEPT !["acceptor"] = [w.s EXCEPT !.req = "stale"]]
         /\ proc' = [proc EXCEPT !["acceptor"] = w.p]
         /\ net' = [net EXCEPT !["requester"] = w.n]

\* ripc_stream_ping_timeouter
Ping(e) ==
  LET op == [route \in BOOLEAN |-> Update(Start(e, route), TRUE)]
  IN  /\ end[e].use /\ end[e].req = "none" /\ ~end[e].dead
      /\ Do(e, op, {})

\* Sending refreshes s->pong, so that only an end that may not send yet finds
\* its peer silent for STREAM_PEER_TIME.
Silent(e) ==
  /\ end[e].use /\ end[e].req = "none" /\ ~end[e].dead /\ end[e].notready
  /\ Fault("silent", e)
  /\ LET x == [Start(e, TRUE) EXCEPT !.s.dead = TRUE]
         w == IF x.s.closing THEN CloseThisStream(x, TRUE) ELSE Update(x, TRUE)
     IN  /\ end' = [end EXCEPT ![e] = w.s]
         /\ proc' = [proc EXCEPT ![e] = w.p]
  /\ UNCHANGED net

Next ==
  /\ Standing
  /\ \/ \E e \in Ends : Receive(e) \/ Lose(e) \/ Ping(e) \/ Silent(e)
     \/ \E e \in Ends : Read(e) \/ Write(e) \/ Close(e) \/ Die(e)
     \/ Unanswered \/ Repeat \/ Unconfirmed

Spec == Init /\ [][Next]_vars

\* WF_vars(Ping(e)) and SF_vars(Receive(e)), with ENABLED written out.
PingWorks(e) ==
  /\ end[e].use /\ end[e].req = "none" /\ ~end[e].dead
  /\ Update(Start(e, TRUE), TRUE) # Start(e, TRUE)

Fairness ==
  \A e \in Ends :
    /\ []<>~PingWorks(e) \/ []<><<Ping(e)>>_vars
    /\ <>[](net[e] = {}) \/ []<><<Receive(e)>>_vars

FairSpec == Spec /\ Fairness

-----------------------------------------------------------------------------
(* Properties *)

TypeOK ==
  \A e \in Ends :
    /\ end[e].req \in {"none", "sent", "stale"} /\ end[e].retries \in 0 .. MaxResend
    /\ Len(end[e].in) <= BufferLen /\ Len(end[e].out) <= BufferLen
    /\ end[e].sent \in 0 .. Len(end[e].out)
    /\ Len(end[e].data) <= 1
    /\ ~end[e].use => end[e] = GivenBack(end[e])
    /\ Cardinality(net[e]) <= MaxPackets[e]
    /\ proc[e].state \in {"running", "asleep", "lost", "corrupt", "ended"}
    /\ proc[e].written \in 0 .. MaxBytes[e]
    /\ upset \subseteq Faults \cup ({"wreck"} \X Ends)

\* What is on the way from e to its peer, and what arrived: the peer's log,
\* its buffer, the packet it keeps, and e's buffer without the part that has
\* arrived already.
Arrived(e) == IF end[Peer(e)].peer = end[e].my THEN end[e].sent ELSE 0
Pipe(e) ==
  LET p == Peer(e)
      kept == IF end[p].data = <<>> THEN <<>> ELSE end[p].data[1]
  IN  proc[p].log \o end[p].in \o kept
        \o SubSeq(end[e].out, Arrived(e) + 1, Len(end[e].out))

\* The first byte of e that can arrive: the packet an acceptor sends before
\* the requester's first one reaches it has the number 0, and what it holds
\* is lost.
Firsts(e) == IF e = "requester" THEN {1} ELSE 1 .. BufferLen + 1

\* The bytes a process reads are the bytes its peer wrote, in order, without
\* a gap and without a repetition, whatever packets are lost, repeated or
\* reordered; and until the reader closes its end, all bytes written and not
\* yet read are held at one of the ends.  Left out are the first bytes of
\* the acceptor (Firsts) and a process that writes to a stream it has closed,
\* which the code does not refuse.
BytesAreNotLost ==
  \A e \in Ends :
    LET p == Peer(e)
    IN  /\ \E k \in Firsts(e) : proc[p].log = From(k, k + Len(proc[p].log) - 1)
        /\ end[e].use /\ end[p].use /\ ~end[p].closing
             => \E k \in Firsts(e) : Pipe(e) = From(k, proc[e].written)

\* A reader that is told the stream has ended has read all that was written,
\* if the writer closed the stream (or ended) and the reader did not.
EndOfStreamIsTheEnd ==
  \A e \in Ends :
    LET p == Peer(e)
    IN  proc[p].eof /\ end[p].use /\ ~end[p].closing /\ upset = {}
          => \E k \in Firsts(e) : proc[p].log = From(k, proc[e].written)

\* Somebody will wake the process: the answer or its timer, a packet of the
\* peer or the ping timer.
Sleeps(e) == proc[e].state \in {"asleep", "lost"}
Awaited(e) ==
  /\ end[e].use
  /\ \/ end[e].req = "sent"
     \/ /\ end[e].req = "none" /\ ~end[e].dead
        /\ end[e].readsleep \/ end[e].writesleep

\* No step leaves a process asleep that nobody will wake: not the loss of a
\* packet, not the end of the peer, in whatever order its last packets come.
\* What does is a fault, sleeping on a stream whose acceptance was given up
\* and sleeping on a stream the process has itself closed.
SleepersStayAwaited ==
  [][\A e \in Ends :
       Sleeps(e)' /\ ~Awaited(e)' =>
         \/ Sleeps(e) /\ ~Awaited(e)
         \/ upset' # upset \/ end[e].closing \/ end[e].req = "stale"]_vars

\* A byte that was written does not stay in the out buffer for ever: it
\* arrives, unless the reader leaves a packet unread, an end is closed or a
\* fault happens.  Packets may be lost, but not all of them.
BytesLeave ==
  \A e \in Ends : \A n \in 1 .. MaxBytes[e] :
    (\E i \in DOMAIN end[e].out : end[e].out[i] = n)
      ~> \/ \A i \in DOMAIN end[e].out : end[e].out[i] # n
         \/ end[Peer(e)].data # <<>> \/ upset # {}
         \/ \E d \in Ends : ~end[d].use \/ end[d].closing
=============================================================================
