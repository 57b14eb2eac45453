------------------------------- MODULE IpcMsg -------------------------------
(***************************************************************************)
(* Messages between the processes of one machine (modules/ipc.c): a        *)
(* request is a record on its sender's list proces_requests, and has one   *)
(* queue element in proces_incoming of every process it is addressed to;   *)
(* requests and elements come from free lists.  IPC_MSG_SEND, IPC_MSG_RECV,*)
(* IPC_MSG_STAT, IPC_REGISTER, the timer ipc_timeouter and the cleanup of  *)
(* a process, with the exceptions they raise in other processes.           *)
(*                                                                         *)
(* The module's state is one record m, on which the handlers are composed. *)
(* The list r->targets is the set of processes with an element of r.  Some *)
(* calls of this code leave a freed request on a list (m.wreck) or put it  *)
(* on the free list twice (m.twice, which spoils that list only): the call *)
(* is carried through, and no step follows it.                             *)
(***************************************************************************)
EXTENDS Integers, FiniteSets, SequencesExt

CONSTANTS
  MaxVcpus,      \* MAX_VCPUS
  Groups,        \* values of ipc_reg a process registers
  Denied,        \* pairs <<c, d>>: HAC refuses c the messages of d
  QueuesAtOnce,  \* QUEUES_AT_ONCE
  QueueBlocks,   \* QUEUES_MAX
  MaxLive,       \* REQUESTS_MAX * REQUESTS_AT_ONCE
  Modes,         \* flags of a request
  Senders,       \* bound: processes that send
  MaxRequests,   \* bound: requests ever sent
  MaxStarts      \* bound: processes ever started

Cpus == 0 .. MaxVcpus - 1
Ids == 0 .. MaxRequests - 1
AnyVcpu == -1      \* s0 = -1: every VCPU
NoGroup == 0       \* not registered; as a target: every group

ASSUME IpcMsgAssumption ==
  /\ MaxVcpus \in Nat \ {0} /\ Groups \subseteq Nat \ {0}
  /\ Modes \subseteq SUBSET {"NONBLOCK", "MULTICAST"}
  /\ Denied \subseteq Cpus \X Cpus /\ Senders \subseteq Cpus
  /\ QueuesAtOnce \in Nat \ {0} /\ QueueBlocks \in Nat
  /\ MaxLive \in Nat /\ MaxRequests \in Nat /\ MaxStarts \in Nat

VARIABLES
  m,             \* the module's state and the processes it sees
  heard          \* history: who has received a request's message

vars == <<m, heard>>

Idle == [used |-> FALSE, reg |-> NoGroup, wait |-> "no"]

Blank ==
  [live |-> FALSE, s |-> AnyVcpu, first |-> AnyVcpu, flags |-> {}, old |-> FALSE]

Init ==
  /\ m = [cpu |-> [c \in Cpus |-> Idle],
          req |-> [i \in Ids |-> Blank], next_id |-> 0,
          own |-> [c \in Cpus |-> <<>>], incoming |-> [c \in Cpus |-> <<>>],
          sleepers |-> <<>>,
          starts |-> 0, free |-> 0, blocks |-> QueueBlocks, lost |-> 0,
          fatal |-> FALSE, cut |-> {}, wreck |-> "none", twice |-> FALSE]
  /\ heard = [i \in Ids |-> {}]

-----------------------------------------------------------------------------
\* A loop over a list: a fold from the left, as TLC evaluates it fast.
Loop(Body(_, _), s, list) ==
  LET after[n \in 0 .. Len(list)] ==
        IF n = 0 THEN s ELSE Body(after[n - 1], list[n])
  IN after[Len(list)]

Slots == [n \in 1 .. MaxVcpus |-> n - 1]

\* The list without the elements of R.
Without(list, R) ==
  Loop(LAMBDA rest, x : IF x \in R THEN rest ELSE Append(rest, x), <<>>, list)

(* Queue elements.  ipc_queue_new takes them along next; lost counts those *)
(* that are neither in use nor reachable any more.                         *)

Targets(s, i) == {c \in Cpus : Contains(s.incoming[c], i)}

Queued(s) == {e \in Cpus \X Ids : Contains(s.incoming[e[1]], e[2])}

Allocated(s) == (QueueBlocks - s.blocks) * QueuesAtOnce

\* The blocks ipc_queue_new has to allocate for n elements.
BlocksFor(s, n) ==
  IF n <= s.free THEN 0 ELSE (n - s.free + QueuesAtOnce - 1) \div QueuesAtOnce

\* ipc_queue_new, n times.
Take(s, n) ==
  [s EXCEPT !.blocks = @ - BlocksFor(s, n),
            !.free = @ + BlocksFor(s, n) * QueuesAtOnce - n]

\* Mutant of GiveBack: the element is unlinked and forgotten.
GiveNothing(s, i, c) == [s EXCEPT !.incoming[c] = Without(@, {i})]

\* IPC_UNLINK_QUEUE and ipc_queue_done.
GiveBack(s, i, c) ==
  [s EXCEPT !.incoming[c] = Without(@, {i}), !.free = @ + 1]

\* ipc_queue_done_linked, for the requests R: the elements are chained by
\* next_r in front of the free list, and ipc_queue_new finds the first only.
DropTargets(s, R) ==
  LET n == Cardinality({e \in Queued(s) : e[2] \in R}) IN
  IF n = 0 THEN s
  ELSE [s EXCEPT !.incoming = [c \in Cpus |-> Without(@[c], R)],
                 !.lost = @ + s.free + n - 1, !.free = 1]

-----------------------------------------------------------------------------
(* Requests *)

\* Two things leave the lists beyond use: a request is given back with elements
\* that still refer to it (ipc.c:2045, 5667), or the list of its sender is cut
\* off behind it.  A request that is given back twice spoils the free list only:
\* the state after it is looked at, the calls that come next are not.
Wreck(s, what) == IF s.wreck = "none" THEN [s EXCEPT !.wreck = what] ELSE s

FreedTwice(s) == [s EXCEPT !.twice = TRUE]

Intact(s) == s.wreck = "none" /\ ~ s.twice

\* s and first of a request that was given back are history.
Freed(r) == [Blank EXCEPT !.s = r.s, !.first = r.first]

\* ipc_request_done: the elements a request still has refer to a free one.
Forget(s, i) ==
  LET t == [s EXCEPT !.req[i] = Freed(@)]
  IN IF Targets(s, i) = {} THEN t ELSE Wreck(t, "freed with targets")

\* IPC_UNLINK_REQUEST: a request that is on no list has no neighbours, and
\* the head of its sender's list is overwritten.
Unlink(s, i) ==
  LET d == s.req[i].s IN
  IF Contains(s.own[d], i) THEN [s EXCEPT !.own[d] = Without(@, {i})]
  ELSE IF s.own[d] = <<>> THEN s
  ELSE Wreck([s EXCEPT !.own[d] = <<>>], "list cut off")

Flagged(s, i, flags) == [s EXCEPT !.req[i].flags = @ \cup flags]

Has(s, i, flag) == flag \in s.req[i].flags

Touched(s, i) == [s EXCEPT !.req[i].old = FALSE]

Wake(s, c) == [s EXCEPT !.cpu[c].wait = "no"]

\* Mutant of Accepted: each receiver takes the place of the one before.
AcceptedLast(s, i, c) == [Flagged(s, i, {"ACCEPTED"}) EXCEPT !.req[i].first = c]

\* The first to receive a message is the one its sender is told.
Accepted(s, i, c) ==
  IF Has(s, i, "ACCEPTED") THEN s
  ELSE [Flagged(s, i, {"ACCEPTED"}) EXCEPT !.req[i].first = c]

\* Mutant of Wakes: whoever is first wakes the sender of a multicast, too.
WakesAtFirst(s, i) == Has(s, i, "SENDERSLEEP")

\* When a receiver wakes the sender.
Wakes(s, i) ==
  /\ Has(s, i, "SENDERSLEEP")
  /\ Has(s, i, "MULTICAST") => Has(s, i, "COMPLETED")

WakeSender(s, i) ==
  [Wake(s, s.req[i].s) EXCEPT !.req[i].flags = @ \ {"SENDERSLEEP"}]

-----------------------------------------------------------------------------
(* The end of a process.  Its cleanup raises exceptions of others.  H: the *)
(* processes that have a handler.                                          *)

\* syscall_task_cleanup: the receiver c of i has gone without taking it.
Gone(s, i, c) ==
  LET t == GiveBack(s, i, c) IN
  IF Targets(t, i) # {} THEN t
  ELSE Flagged(t, i, IF Has(t, i, "ACCEPTED") THEN {"COMPLETED"} ELSE {"ERROR"})

\* Mutant of Release: a sender that sleeps is not told.
ReleaseUntold(s, i, told) ==
  CASE Targets(s, i) # {} -> s
    [] Targets(s, i) = {} /\ Has(s, i, "NONBLOCK") -> Touched(s, i)
    [] OTHER ->
         LET t == Forget(Unlink(s, i), i)
         IN IF Has(s, i, "SENDERSLEEP") THEN FreedTwice(t) ELSE t

\* The rest, for a request that waited for nobody else.  A sender that
\* sleeps has its request given back to the free list twice; told is the
\* state after its exception.
Release(s, i, told) ==
  CASE Targets(s, i) # {} -> s
    [] Targets(s, i) = {} /\ Has(s, i, "NONBLOCK") -> Touched(s, i)
    [] OTHER ->
         IF Has(s, i, "SENDERSLEEP")
         THEN FreedTwice(Forget(told, i))
         ELSE Forget(Unlink(s, i), i)

\* The sender of i is to be told; the flag it slept by goes with the request.
Awake(s, i) == Unlink(WakeSender(s, i), i)

\* Its own requests.
OwnRequests(s, c) ==
  LET R == ToSet(s.own[c]) IN
  [DropTargets(s, R) EXCEPT
    !.own[c] = <<>>,
    !.req = [i \in Ids |-> IF i \in R THEN Freed(@[i]) ELSE @[i]]]

\* Mutant of Asleep: a dead process stays among those that wait for messages.
StillAsleep(s, c) == s

\* ipc_msg_task_cleanup
Asleep(s, c) == [s EXCEPT !.sleepers = Without(@, {c})]

\* destroy_task, after the cleanup
Ended(s, c) == [s EXCEPT !.cpu[c] = Idle, !.cut = @ \ {c}]

\* destroy_task by an exception: those of others are ignored meanwhile
\* (CHECK_FAILURE_FN).
DestroyQuietly(s, c) ==
  LET Leave(t, i) ==
        LET u == Gone(t, i, c)
        IN IF Contains(t.incoming[c], i) THEN Release(u, i, Awake(u, i)) ELSE t
  IN Ended(Loop(Leave, OwnRequests(Asleep(s, c), c), s.incoming[c]), c)

\* non_fatal
Raise(s, c, H) ==
  IF s.fatal \/ c \in H THEN s ELSE DestroyQuietly([s EXCEPT !.fatal = TRUE], c)

\* destroy_task
Destroy(s, c, H) ==
  LET Leave(t, i) ==
        LET u == Gone(t, i, c)
        IN IF Contains(t.incoming[c], i)
           THEN Release(u, i, Raise(Awake(u, i), u.req[i].s, H)) ELSE t
  IN Ended(Loop(Leave, OwnRequests(Asleep(s, c), c), s.incoming[c]), c)

\* An exception of c: what comes of it.
Raises(s, c) == {Raise(s, c, H) : H \in SUBSET {c}}

\* The processes that wait for an answer of c.
Clients(s, c) ==
  {d \in Cpus : /\ s.cpu[d].wait = "send"
                /\ \E i \in ToSet(s.incoming[c]) : s.req[i].s = d}

\* destroy_task by HALT, the console or an OS signal.
Kills(s, c) ==
  {Destroy(s, c, H) : H \in SUBSET Clients(s, c)}

-----------------------------------------------------------------------------
(* The syscalls of a process c that runs.  do_cycles has cleared the       *)
(* global but_in_fact_it_was_fatal.                                        *)

Now(s) == [s EXCEPT !.fatal = FALSE]

Runs(c) == /\ Intact(m)
           /\ m.cpu[c].used /\ m.cpu[c].wait = "no"

Starts(c) ==
  /\ Intact(m) /\ ~ m.cpu[c].used /\ m.starts < MaxStarts
  /\ m' = [m EXCEPT !.cpu[c].used = TRUE, !.starts = @ + 1]
  /\ UNCHANGED heard

Register(c, g) ==
  /\ Runs(c)
  /\ m' = [Now(m) EXCEPT !.cpu[c].reg = g]
  /\ UNCHANGED heard

\* Any call of a process that has not registered, has bad arguments or lacks
\* the permission; any other exception of a process.
Fails(c) ==
  /\ Runs(c)
  /\ m' \in Raises(Now(m), c)
  /\ UNCHANGED heard

\* HALT and the console's kill, the latter also of processes that wait.
Dies(c) ==
  /\ Intact(m) /\ m.cpu[c].used
  /\ \E fatal \in {FALSE, m.fatal} : m' \in Kills([m EXCEPT !.fatal = fatal], c)
  /\ UNCHANGED heard

Registered(c) == Runs(c) /\ m.cpu[c].reg # NoGroup

\* ipc_make_targets: whom a message of c is addressed to.
Addressed(s, c, vcpu, reg) ==
  {x \in Cpus \ {c} : /\ s.cpu[x].used /\ s.cpu[x].reg # NoGroup
                      /\ vcpu \in {AnyVcpu, x}
                      /\ reg \in {NoGroup, s.cpu[x].reg}}

Addresses(c) ==
  {Addressed(m, c, vcpu, reg) : vcpu \in Cpus \cup {AnyVcpu},
                                reg \in Groups \cup {NoGroup}}

NewRequest(s, i, c, flags) ==
  [s EXCEPT !.next_id = @ + 1,
            !.req[i] = [Blank EXCEPT !.live = TRUE, !.s = c, !.flags = flags]]

\* Too few elements: those taken are given back.
Exhaust(s) ==
  LET n == s.free + s.blocks * QueuesAtOnce
  IN [s EXCEPT !.blocks = 0, !.free = IF n = 0 THEN 0 ELSE 1,
               !.lost = @ + (IF n = 0 THEN 0 ELSE n - 1)]

\* Mutant of Enough: nobody asks.
AlwaysEnough(s, n) == TRUE

Enough(s, n) == n <= s.free + s.blocks * QueuesAtOnce

MakeTargets(s, i, T) ==
  LET t == Take(s, Cardinality(T))
  IN [t EXCEPT !.incoming =
        [x \in Cpus |-> IF x \in T THEN Append(@[x], i) ELSE @[x]]]

\* The loop over msg_sleepers goes on while i has targets, and each process
\* that sleeps has to be one of them: Served are those it comes to.
Served(s, T) ==
  LET n == SelectInSeq(s.sleepers, LAMBDA x : x \notin T)
  IN IF n = 0 THEN s.sleepers ELSE SubSeq(s.sleepers, 1, n - 1)

\* The search for another one runs off the end of the list.
Faults(s, T) == /\ ToSet(Served(s, T)) # T
                /\ Len(Served(s, T)) < Len(s.sleepers)

\* Mutant of Serve: the element stays in the receiver's queue.
ServeAndQueue(s, i, T) ==
  LET S == ToSet(Served(s, T))
      t == IF S = {} THEN s ELSE Accepted(s, i, Head(s.sleepers))
  IN [t EXCEPT
       !.sleepers = SubSeq(@, Len(Served(s, T)) + 1, Len(@)),
       !.cpu = [x \in Cpus |-> IF x \in S THEN [@[x] EXCEPT !.wait = "no"]
                                          ELSE @[x]]]

\* Who is served has the message and wakes; its element is not given back.
Serve(s, i, T) ==
  LET S == ToSet(Served(s, T))
      t == IF S = {} THEN s ELSE Accepted(s, i, Head(s.sleepers))
  IN [t EXCEPT
       !.sleepers = SubSeq(@, Len(Served(s, T)) + 1, Len(@)),
       !.incoming = [x \in Cpus |-> IF x \in S THEN Without(@[x], {i}) ELSE @[x]],
       !.cpu = [x \in Cpus |-> IF x \in S THEN [@[x] EXCEPT !.wait = "no"]
                                          ELSE @[x]],
       !.lost = @ + Cardinality(S)]

\* What the sender does once its request is with the targets.
Await(s, c, i) ==
  LET queued == [s EXCEPT !.own[c] = Append(@, i)]
      done == Targets(s, i) = {}
  IN
  CASE Has(s, i, "NONBLOCK") ->
         Flagged(queued, i, IF done THEN {"COMPLETED"} ELSE {})
    [] ~ Has(s, i, "NONBLOCK") /\ done -> Forget(s, i)
    [] OTHER ->
         IF Has(s, i, "ACCEPTED") /\ ~ Has(s, i, "MULTICAST") THEN queued
         ELSE [Flagged(queued, i, {"SENDERSLEEP"}) EXCEPT !.cpu[c].wait = "send"]

\* ipc_msg_send
Send(c, flags, T) ==
  LET s == Now(m)
      i == s.next_id
      r == MakeTargets(NewRequest(s, i, c, flags), i, T)
  IN
  /\ Registered(c) /\ c \in Senders /\ i \in Ids
  /\ CASE Cardinality({x \in Ids : s.req[x].live}) >= MaxLive ->
            m' \in Raises(s, c) /\ UNCHANGED heard
       [] Cardinality({x \in Ids : s.req[x].live}) < MaxLive
            /\ ~ Enough(s, Cardinality(T)) ->
            m' \in Raises(Exhaust(s), c) /\ UNCHANGED heard
       [] OTHER ->
            IF T = {} THEN m' \in Raises(s, c) /\ UNCHANGED heard
            ELSE /\ heard' = [heard EXCEPT ![i] = ToSet(Served(s, T))]
                 /\ m' \in IF Faults(s, T) THEN Kills(Serve(r, i, T), c)
                             ELSE {Await(Serve(r, i, T), c, i)}

\* ipc_msg_recv: c receives i.
Deliver(s, c, i) ==
  LET t == GiveBack(Accepted(Touched(s, i), i, c), i, c)
      u == IF Targets(t, i) = {} THEN Flagged(t, i, {"COMPLETED"}) ELSE t
      w == IF Wakes(u, i) THEN WakeSender(u, i) ELSE u
  IN CASE Has(u, i, "NONBLOCK") -> u
       [] OTHER -> IF Has(w, i, "COMPLETED") THEN Forget(Unlink(w, i), i) ELSE w

\* ipc_msg_recv: HAC refuses c the message i.  "!r->flags & ..." is never
\* true, so that the request counts as completed.
Refuse(s, c, i) ==
  LET t == GiveBack(s, i, c)
      u == Flagged(t, i, {"COMPLETED"})
      w == IF Has(u, i, "SENDERSLEEP") THEN WakeSender(u, i) ELSE u
  IN CASE Targets(t, i) # {} -> t
       [] Targets(t, i) = {} /\ Has(t, i, "NONBLOCK") -> Touched(u, i)
       [] OTHER -> Forget(Unlink(w, i), i)

\* Nothing to receive.
Sleep(s, c) == [s EXCEPT !.sleepers = Append(@, c), !.cpu[c].wait = "recv"]

NothingFor(s, c, flags) == IF "NONBLOCK" \in flags THEN s ELSE Sleep(s, c)

Permitted(c, i) == <<c, m.req[i].s>> \notin Denied

\* After a message it was refused the loop goes on along the free list, whose
\* elements have no request; if that list is empty, it ends there.
Recv(c, flags) ==
  LET s == [Now(m) EXCEPT !.cut = @ \ {c}]
      i == Head(s.incoming[c])
  IN
  /\ Registered(c) /\ flags \subseteq {"NONBLOCK"}
  /\ CASE s.incoming[c] = <<>> ->
            m' = NothingFor(s, c, flags) /\ UNCHANGED heard
       [] s.incoming[c] # <<>> /\ Permitted(c, i) ->
            /\ m' = Deliver(s, c, i)
            /\ heard' = [heard EXCEPT ![i] = @ \cup {c}]
       [] OTHER ->
            /\ LET t == Refuse(s, c, i) IN
               m' \in IF s.free > 0 THEN Kills(t, c)
                      ELSE {NothingFor([t EXCEPT !.cut = @ \cup {c}], c, flags)}
            /\ UNCHANGED heard

\* ipc_msg_stat: what has ended is reported once; see Fails for other ids.
Stat(c, i) ==
  LET s == Now(m) IN
  /\ Registered(c)
  /\ Contains(s.own[c], i) /\ Has(s, i, "NONBLOCK")
  /\ m' = IF Has(s, i, "ERROR") \/ Has(s, i, "COMPLETED")
          THEN Forget(Unlink(s, i), i)
          ELSE s
  /\ UNCHANGED heard

-----------------------------------------------------------------------------
(* ipc_timeouter, in every task cycle *)

\* Mutant of Expire: the request is marked for a sender that polls.
ExpireMarks(s, c, i, H) ==
  IF s.req[i].old THEN Touched(Flagged(s, i, {"ERROR"}), i) ELSE s

\* A request that nobody has touched for IPC_REQUEST_TTL seconds.
Expire(s, c, i, H) ==
  LET dropped == Forget(Unlink(DropTargets(s, {i}), i), i) IN
  CASE ~ s.req[i].old -> s
    [] s.req[i].old /\ s.req[i].flags \cap {"ERROR", "COMPLETED"} # {} ->
         Forget(Unlink(s, i), i)
    [] OTHER ->
         IF Has(s, i, "SENDERSLEEP")
         THEN Raise(Forget(Unlink(DropTargets(Wake(s, c), {i}), i), i), c, H)
         ELSE IF Has(s, i, "NONBLOCK")
         THEN Touched(Flagged(s, i, {"ERROR"}), i)
         ELSE dropped

ExpireAll(s, c, H) ==
  Loop(LAMBDA t, i : IF Contains(t.own[c], i) THEN Expire(t, c, i, H) ELSE t,
           s, s.own[c])

ExpireEach(s, H) ==
  Loop(LAMBDA t, c : IF t.cpu[c].used THEN ExpireAll(t, c, H) ELSE t, s, Slots)

\* The processes whose wait for an answer ends.
Expiring == {c \in Cpus : /\ m.cpu[c].wait = "send"
                          /\ \E i \in ToSet(m.own[c]) : m.req[i].old}

Timeouter ==
  /\ Intact(m)
  /\ \E H \in SUBSET Expiring : m' = ExpireEach(m, H)
  /\ UNCHANGED heard

\* IPC_REQUEST_TTL seconds go by.
Tick ==
  /\ Intact(m)
  /\ m' = [m EXCEPT !.req = [i \in Ids |-> [m.req[i] EXCEPT !.old = @ \/ m.req[i].live]]]
  /\ UNCHANGED heard

Next ==
  \/ \E c \in Cpus : Starts(c) \/ Fails(c) \/ Dies(c)
  \/ \E c \in Cpus, g \in Groups \cup {NoGroup} : Register(c, g)
  \/ \E c \in Cpus, flags \in Modes : \E T \in Addresses(c) : Send(c, flags, T)
  \/ \E c \in Cpus, flags \in Modes : Recv(c, flags)
  \/ \E c \in Cpus, i \in Ids : Stat(c, i)
  \/ Timeouter
  \/ Tick

Spec == Init /\ [][Next]_vars

\* Time passes, and the kernel calls the timer in every cycle (this is weak
\* fairness of Timeouter as far as it wakes somebody).
Fairness ==
  /\ WF_vars(Tick)
  /\ []<><<Timeouter>>_vars \/ []<>(Expiring = {})

LiveSpec == Spec /\ Fairness
-----------------------------------------------------------------------------
(* Properties *)

Vcpus == [used : BOOLEAN, reg : Groups \cup {NoGroup}, wait : {"no", "send", "recv"}]

Requests ==
  [live : BOOLEAN, s : Cpus \cup {AnyVcpu}, first : Cpus \cup {AnyVcpu}, old : BOOLEAN,
   flags : SUBSET {"NONBLOCK", "MULTICAST", "SENDERSLEEP", "ACCEPTED", "COMPLETED", "ERROR"}]

States ==
  [cpu : [Cpus -> Vcpus], req : [Ids -> Requests],
   next_id : 0 .. MaxRequests, starts : 0 .. MaxStarts,
   own : [Cpus -> Seq(Ids)], incoming : [Cpus -> Seq(Ids)], sleepers : Seq(Cpus),
   free : Nat, blocks : 0 .. QueueBlocks, lost : Nat, fatal : BOOLEAN, cut : SUBSET Cpus,
   wreck : {"none", "freed with targets", "list cut off"}, twice : BOOLEAN]

TypeOK == m \in States /\ heard \in [Ids -> SUBSET Cpus]

Sound == m.wreck = "none"

Sleeping(i) == m.req[i].live /\ "SENDERSLEEP" \in m.req[i].flags

\* Whoever sleeps for an answer has exactly one request that says so, on the
\* own list, where the timer finds it, and somebody has yet to answer it: no
\* death, refusal or timeout of others leaves a sender behind, and neither does
\* the death of its last receiver, which wakes it by an exception and gives its
\* request back twice (ipc.c:5826-5835).  Wrecks are left out.
SendersAreAnswerable ==
  Sound =>
    /\ \A c \in Cpus :
         LET R == {i \in ToSet(m.own[c]) : Sleeping(i)}
         IN Cardinality(R) = IF m.cpu[c].wait = "send" THEN 1 ELSE 0
    /\ \A i \in Ids : Sleeping(i) => Targets(m, i) # {}

\* Queues and lists hold requests that exist, each of them once, each process's
\* own list its own ones, and no message comes to a process twice; until a
\* request is given back with elements that refer to it, or a list is cut off.
ListsAreSound ==
  Sound =>
    \A c \in Cpus :
      /\ IsInjective(m.incoming[c]) /\ IsInjective(m.own[c])
      /\ \A i \in ToSet(m.incoming[c]) : m.req[i].live /\ c \notin heard[i]
      /\ \A i \in ToSet(m.own[c]) : m.req[i].live /\ m.req[i].s = c
      /\ ~ m.cpu[c].used => m.own[c] = <<>> /\ m.incoming[c] = <<>>

\* A process does not sleep for a message while one is queued for it, but for
\* the messages of a sender that died while it looked for receivers, and for
\* those behind one that HAC refused it.
NoMessageIsMissed ==
  Sound =>
    \A c \in Cpus :
      m.cpu[c].wait = "recv" <=>
        /\ Contains(m.sleepers, c)
        /\ c \notin m.cut =>
             \A i \in ToSet(m.incoming[c]) : ~ Contains(m.own[m.req[i].s], i)

\* Every queue element ever allocated is queued, free, or was lost in one of
\* three ways: taken by a receiver that slept, or behind the first of a list
\* that ipc_queue_done_linked put back.
ElementsAddUp == Sound => Allocated(m) = Cardinality(Queued(m)) + m.free + m.lost

\* A sender that goes on before its time is up is told who got the message
\* first, and if it sent to all, nobody is left who has to get it.  But for
\* senders that HAC refuses a receiver, who are told that it was received
\* (ipc.c:1831), and for steps after which the lists are beyond use or a request
\* has been given back twice: the sender whose last receiver ended is told by an
\* exception that nobody got it.
SendersKnow ==
  [][\A i \in Ids :
       LET c == m.req[i].s IN
       /\ Sleeping(i) /\ ~ m.req[i].old
       /\ Intact(m') /\ m'.cpu[c].used /\ m'.cpu[c].wait = "no"
       /\ \A d \in Cpus : <<d, c>> \notin Denied
       => /\ m'.req[i].first \in heard'[i]
          /\ "MULTICAST" \in m.req[i].flags => Targets(m', i) = {}]_vars

\* A sender does not sleep for ever, whatever its receivers do.
SendersGoOn ==
  \A c \in Senders : []<>(m.cpu[c].wait # "send" \/ ~ Intact(m))

\* The exchange every request is, seen from outside.
Stage(i) == IF i >= m.next_id THEN "none"
            ELSE IF m.req[i].live THEN "open" ELSE "closed"

Outside == INSTANCE Exchange
  WITH Processes <- Cpus, Requests <- Ids, Nobody <- AnyVcpu,
       stage <- [i \in Ids |-> Stage(i)],
       first <- [i \in Ids |-> m.req[i].first],
       got <- heard

\* Requests are exchanges: opened once, delivered to each receiver once and
\* only while open, with the first of them on record for ever.
Exchanges == Outside!Spec
=============================================================================
