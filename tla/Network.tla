------------------------------ MODULE Network ------------------------------
(***************************************************************************)
(* The sockets of the network module (modules/network.c): each VCPU's      *)
(* table of descriptors, the set its process waits on for events, the      *)
(* waits for connections, clients and data, and the host's sockets below.  *)
(*                                                                         *)
(* A syscall is one step, and so is the handler of a wait, which the       *)
(* kernel calls once a cycle.  Steps that change nothing are left out: a   *)
(* poll of what is not ready, a transfer that ends at once, the results in *)
(* the s registers.  Refused stands for everything a syscall checks before *)
(* it does anything.                                                       *)
(***************************************************************************)
EXTENDS Integers, FiniteSets, FiniteSetsExt

CONSTANTS
  Vcpus,         \* 0 .. MAX_VCPUS - 1
  MaxNetSd,      \* MAX_NET_SD
  MaxHostFd,     \* the last descriptor the host gives to the kernel
  Protocols,     \* of u5: TCP and stream, or UDP and datagram
  Limits,        \* time limits of NET_CONNECT, in microseconds
  Second,        \* microseconds of a second
  MaxTime        \* bound: of the host's clock during a connection

Sds == 0 .. MaxNetSd - 1
HostFds == 1 .. MaxHostFd
NoFd == 0                          \* a free descriptor; the console's number
FdSetSize == MaxNetSd + 1          \* what wait_event and do_event give select

ASSUME NetworkAssumption ==
  /\ MaxNetSd \in Nat \ {0} /\ MaxHostFd \in Nat /\ MaxTime \in Nat
  /\ Second \in Nat \ {0}
  /\ Protocols \subseteq {"tcp", "udp"}
  /\ Limits \subseteq Nat \ {0}

VARIABLES
  proc,       \* per VCPU: its process, and what it waits for
  netdata,    \* per VCPU: its descriptors
  host,       \* per descriptor of the host: the socket
  lost        \* history: sockets that nobody can close any more

vars == <<proc, netdata, host, lost>>

-----------------------------------------------------------------------------
(* The host *)

Closed == [role |-> "none", st |-> "closed"]
Socket(role, st) == [role |-> role, st |-> st]

\* Roles are what the module has asked for, as in its flags.
Listening(p) == IF p = "tcp" THEN "LISTEN_TCP" ELSE "LISTEN_UDP"
Connected(p) == IF p = "tcp" THEN "CONNECTED_TCP" ELSE "CONNECTED_UDP"
Carriers == {"CONNECTED_TCP", "CONNECTED_UDP"}

\* socket(2), accept(2): the lowest free descriptor, or none
FreeFds == {d \in HostFds : host[d] = Closed}
LowestFd == IF FreeFds = {} THEN NoFd ELSE Min(FreeFds)

\* select(2) for reading
Readable(d) == host[d].st \in {"client", "data", "end", "failed"}

\* What happens outside: a connection is made or fails, a client comes, data
\* arrive, the other side ends (a datagram may also be empty) or resets.
Outside(d) ==
  /\ \E st \in {"open", "refused", "failed", "client", "data", "end"} :
       /\ \/ host[d].st = "connecting" /\ st \in {"open", "refused", "failed"}
          \/ host[d].st = "listening" /\ st = "client"
          \/ host[d].st = "open" /\ st \in {"data", "end", "failed"}
       /\ host' = [host EXCEPT ![d].st = st]
  /\ UNCHANGED <<proc, netdata, lost>>

-----------------------------------------------------------------------------
(* Processes *)

Awake == [for |-> "nothing", id |-> NoFd]
Vacant == [used |-> FALSE, wait |-> Awake]

Init ==
  /\ proc = [c \in Vcpus |-> Vacant]
  /\ netdata = [c \in Vcpus |->
       [sd |-> [n \in Sds |-> NoFd], flags |-> [n \in Sds |-> {}], fds |-> {}]]
  /\ host = [d \in HostFds |-> Closed]
  /\ lost = {}

Runs(c) == proc[c].used /\ proc[c].wait = Awake

EnterWait(c, wait) == proc' = [proc EXCEPT ![c].wait = wait]
WakeUp(c) == EnterWait(c, Awake)

FreeSds(c) == {n \in Sds : netdata[c].sd[n] = NoFd}

\* look_for_sd
LookForSd(c) == Min(FreeSds(c))

Owned(entry) == {entry.sd[n] : n \in Sds} \ {NoFd}

\* Mutant of Cleanup: the next process of the VCPU has the descriptors.
CleanupFlags(entry) ==
  [entry EXCEPT !.flags = [n \in Sds |-> IF entry.sd[n] # NoFd THEN {} ELSE entry.flags[n]]]

\* syscall_task_cleanup; the set of events stays as it is.
Cleanup(entry) ==
  [entry EXCEPT !.sd = [n \in Sds |-> NoFd],
                !.flags = [n \in Sds |-> IF entry.sd[n] # NoFd THEN {} ELSE entry.flags[n]]]

\* The process of c ends; h and l are the sockets and the lost ones before.
Die(c, entry, h, l) ==
  /\ proc' = [proc EXCEPT ![c] = Vacant]
  /\ netdata' = [netdata EXCEPT ![c] = Cleanup(entry)]
  /\ host' = [d \in HostFds |-> IF d \in Owned(entry) THEN Closed ELSE h[d]]
  /\ lost' = l

\* non_fatal: c has a handler, which is called, and the wait, if there was one,
\* is over; or c dies (see Vcpu).
Raise(c, entry, h, l) ==
  \/ /\ WakeUp(c)
     /\ netdata' = [netdata EXCEPT ![c] = entry]
     /\ host' = h
     /\ lost' = l
  \/ Die(c, entry, h, l)

Load(c) ==
  /\ ~ proc[c].used
  /\ proc' = [proc EXCEPT ![c].used = TRUE]
  /\ UNCHANGED <<netdata, host, lost>>

\* A connection that is being made has no descriptor: only the wait names it.
Connecting(c) == IF proc[c].wait.for = "conn" THEN {proc[c].wait.id} ELSE {}

\* HALT, an OS signal, or the console
End(c) ==
  /\ proc[c].used
  /\ Die(c, netdata[c], host, lost \cup Connecting(c))

\* An exception that is raised before anything is done: no access, wrong
\* parameters, no such descriptor, not a socket of the right kind, ...
Refused(c) ==
  /\ Runs(c)
  /\ Raise(c, netdata[c], host, lost)

-----------------------------------------------------------------------------
(* Opening and closing *)

\* Mutant of Registered: the socket is not watched.
Unwatched(entry, n, d, flag) == [entry EXCEPT !.sd[n] = d, !.flags[n] = @ \cup {flag}]

\* Socket d is descriptor n of c.
Registered(entry, n, d, flag) ==
  [entry EXCEPT !.sd[n] = d, !.flags[n] = @ \cup {flag}, !.fds = @ \cup {d}]

\* Mutant of Unregistered: the next socket inherits the flags.
FlagsStay(entry, n) == [entry EXCEPT !.sd[n] = NoFd, !.fds = @ \ {entry.sd[n]}]

Unregistered(entry, n) ==
  [entry EXCEPT !.sd[n] = NoFd, !.flags[n] = {}, !.fds = @ \ {entry.sd[n]}]

\* NET_CONNECT and NET_LISTEN create the host's socket first.  When they find
\* no descriptor, or the host will not make it non-blocking, bind it, listen
\* or connect, they leave it open.
Abandon(c) ==
  LET d == LowestFd IN
  /\ Runs(c) /\ d # NoFd
  /\ Raise(c, netdata[c], [host EXCEPT ![d] = Socket("none", "failed")], lost \cup {d})

\* NET_LISTEN, NET_SUN_LISTEN
Listen(c, p) ==
  LET d == LowestFd IN
  /\ Runs(c) /\ d # NoFd /\ FreeSds(c) # {}
  /\ host' = [host EXCEPT ![d] = Socket(Listening(p), IF p = "tcp" THEN "listening" ELSE "open")]
  /\ netdata' = [netdata EXCEPT ![c] = Registered(netdata[c], LookForSd(c), d, Listening(p))]
  /\ UNCHANGED <<proc, lost>>

NoLimit == [now |-> 0, u4 |-> 0]

\* A limit, the clock counted from the second it begins in, which u3 takes; u4
\* takes its end in microseconds, which are not carried over.
Limited(limit, now) == [now |-> now, u4 |-> now + limit]

ConnTimes == {NoLimit} \cup {Limited(l, now) : l \in Limits, now \in 0 .. Second - 1}

\* Mutant of IsOver: as if the microseconds were carried.
IsOverInSecond(time) == (time.now \div Second = 0) /\ (time.now % Second > time.u4)

IsOver(time) ==
  \/ time.now \div Second > 0
  \/ (time.now \div Second = 0) /\ (time.now % Second > time.u4)

\* NET_CONNECT, NET_SUN_CONNECT
Connect(c, p) ==
  LET d == LowestFd IN
  /\ Runs(c) /\ d # NoFd /\ FreeSds(c) # {}
  /\ UNCHANGED lost
  /\ \/ /\ host' = [host EXCEPT ![d] = Socket(Connected(p), "open")]
        /\ netdata' = [netdata EXCEPT ![c] = Registered(netdata[c], LookForSd(c), d, Connected(p))]
        /\ UNCHANGED proc
     \/ /\ p = "tcp"                                            \* EINPROGRESS
        /\ host' = [host EXCEPT ![d] = Socket(Connected(p), "connecting")]
        /\ \E time \in ConnTimes : EnterWait(c, [for |-> "conn", id |-> d, time |-> time])
        /\ UNCHANGED netdata

HasLimit(c) == proc[c].wait.for = "conn" /\ proc[c].wait.time.u4 # 0

\* The host's clock, as far as somebody looks at it
Tick ==
  /\ \E c \in Vcpus : HasLimit(c)
  /\ \A c \in Vcpus : HasLimit(c) => proc[c].wait.time.now < MaxTime
  /\ proc' = [c \in Vcpus |->
       IF HasLimit(c) THEN [proc[c] EXCEPT !.wait.time.now = @ + 1] ELSE proc[c]]
  /\ UNCHANGED <<netdata, host, lost>>

\* wait_for_conn.  The descriptor that do_connect has found is still free.
WaitForConn(c) ==
  LET wait == proc[c].wait
      d == wait.id
      st == host[d].st
  IN
  /\ wait.for = "conn"
  /\ \/ /\ \/ st = "refused"                   \* or the host's own time is over
           \/ st = "connecting" /\ HasLimit(c) /\ IsOver(wait.time)
        /\ Raise(c, netdata[c], [host EXCEPT ![d] = Closed], lost)
     \/ /\ st = "failed"                          \* raised without a close(2)
        /\ Raise(c, netdata[c], host, lost \cup {d})
     \/ /\ st \in {"open", "data", "end"}
        /\ netdata' = [netdata EXCEPT ![c] = Registered(netdata[c], LookForSd(c), d, "CONNECTED_TCP")]
        /\ WakeUp(c)
        /\ UNCHANGED <<host, lost>>

\* accept(2) on l when a client is there, with d for the connection
Accepted(l, d) ==
  [host EXCEPT ![l].st = "listening", ![d] = Socket("CONNECTED_TCP", "open")]

\* What do_accept and wait_for_client make of a client at l: it is descriptor
\* n, or it cannot be made non-blocking and is left open.
Take(c, l) ==
  LET d == LowestFd IN
  /\ host[l].st = "client" /\ d # NoFd
  /\ \/ /\ host' = Accepted(l, d)
        /\ netdata' = [netdata EXCEPT ![c] = Registered(netdata[c], LookForSd(c), d, "CONNECTED_TCP")]
        /\ WakeUp(c)
        /\ UNCHANGED lost
     \/ Raise(c, netdata[c], Accepted(l, d), lost \cup {d})

\* NET_ACCEPT of a listening socket, with a free descriptor
Accept(c, n) ==
  LET l == netdata[c].sd[n] IN
  /\ Runs(c) /\ l # NoFd /\ "LISTEN_TCP" \in netdata[c].flags[n] /\ FreeSds(c) # {}
  /\ \/ Take(c, l)
     \/ /\ host[l].st # "client"
        /\ EnterWait(c, [for |-> "client", id |-> l])
        /\ UNCHANGED <<netdata, host, lost>>

\* wait_for_client.  accept(2) also fails for want of a descriptor.
WaitForClient(c) ==
  LET l == proc[c].wait.id IN
  /\ proc[c].wait.for = "client"
  /\ \/ Take(c, l)
     \/ /\ host[l].st = "client" /\ LowestFd = NoFd
        /\ Raise(c, netdata[c], host, lost)

\* NET_SHUTDOWN
Shutdown(c, n) ==
  LET d == netdata[c].sd[n] IN
  /\ Runs(c) /\ d # NoFd
  /\ host' = [host EXCEPT ![d] = Closed]
  /\ netdata' = [netdata EXCEPT ![c] = Unregistered(netdata[c], n)]
  /\ UNCHANGED <<proc, lost>>

-----------------------------------------------------------------------------
(* Data and events *)

\* NET_SENDFILE looks at the flags only (see FlagsTellKind).
Carries(c, n) == netdata[c].sd[n] # NoFd /\ netdata[c].flags[n] \cap Carriers # {}

\* recv(2) on d takes what is there; the end of a stream stays.
AfterRecv(d) ==
  IF host[d].st = "data" \/ host[d] = Socket("CONNECTED_UDP", "end")
  THEN [host EXCEPT ![d].st = "open"]
  ELSE host

\* The other side of d has ended: descriptor n is of no use but to be closed.
Ended(c, n, d) ==
  Raise(c, [netdata[c] EXCEPT !.flags[n] = {}], AfterRecv(d), lost)

\* NET_RECV
Recv(c, n) ==
  LET d == netdata[c].sd[n] IN
  /\ Runs(c) /\ Carries(c, n)
  /\ \/ /\ host[d].st = "data"
        /\ host' = AfterRecv(d)
        /\ UNCHANGED <<proc, netdata, lost>>
     \/ host[d].st = "end" /\ Ended(c, n, d)
     \/ /\ host[d].st = "open"
        /\ EnterWait(c, [for |-> "recv", id |-> d, u0 |-> n])
        /\ UNCHANGED <<netdata, host, lost>>

\* wait_for_recv
WaitForRecv(c) ==
  LET d == proc[c].wait.id IN
  /\ proc[c].wait.for = "recv"
  /\ \/ /\ host[d].st = "data"
        /\ host' = AfterRecv(d)
        /\ WakeUp(c)
        /\ UNCHANGED <<netdata, lost>>
     \/ host[d].st = "end" /\ Ended(c, proc[c].wait.u0, d)
     \/ host[d].st = "failed" /\ Raise(c, netdata[c], host, lost)

\* NET_SEND, when the host does not take all at once, and NET_SENDFILE
Send(c, n) ==
  /\ Runs(c) /\ Carries(c, n)
  /\ EnterWait(c, [for |-> "send", id |-> netdata[c].sd[n]])
  /\ UNCHANGED <<netdata, host, lost>>

\* wait_for_send, wait_for_sendfile, when all is sent or nothing more can be
WaitForSend(c) ==
  LET d == proc[c].wait.id IN
  /\ proc[c].wait.for = "send"
  /\ \/ /\ host[d].st \in {"open", "data", "end"}
        /\ WakeUp(c)
        /\ UNCHANGED <<netdata, host, lost>>
     \/ /\ host[d].st \in {"end", "failed"}
        /\ Raise(c, netdata[c], host, lost)

\* What select(2) looks at for c; it fails if one of them is not open.
Watched(c) == {d \in netdata[c].fds : d <= MaxNetSd}
SelectFails(c) == \E d \in Watched(c) : host[d] = Closed

\* NET_EVENT
Event(c) ==
  /\ Runs(c)
  /\ \A d \in Watched(c) : host[d] # Closed /\ ~ Readable(d)
  /\ EnterWait(c, [for |-> "event", id |-> NoFd])
  /\ UNCHANGED <<netdata, host, lost>>

\* wait_event
WaitEvent(c) ==
  /\ proc[c].wait.for = "event"
  /\ \/ SelectFails(c) /\ Raise(c, netdata[c], host, lost)
     \/ /\ ~ SelectFails(c)
        /\ \E d \in Watched(c) : Readable(d)
        /\ WakeUp(c)
        /\ UNCHANGED <<netdata, host, lost>>

-----------------------------------------------------------------------------
Poll(c) ==
  WaitForConn(c) \/ WaitForClient(c) \/ WaitForRecv(c) \/ WaitForSend(c) \/ WaitEvent(c)

Syscall(c) ==
  \/ Refused(c) \/ Abandon(c) \/ Event(c)
  \/ \E p \in Protocols : Listen(c, p) \/ Connect(c, p)
  \/ \E n \in Sds : Accept(c, n) \/ Shutdown(c, n) \/ Recv(c, n) \/ Send(c, n)

Next ==
  \/ \E c \in Vcpus : Load(c) \/ End(c) \/ Syscall(c) \/ Poll(c)
  \/ \E d \in HostFds : Outside(d)
  \/ Tick

Spec == Init /\ [][Next]_vars

\* task_cycle calls the handler of a wait in every cycle (see Scheduler), and
\* time passes.  Nothing is assumed of the other side of a connection.
FairSpec ==
  /\ Spec
  /\ WF_vars(Tick)
  /\ \A c \in Vcpus : WF_vars(WaitForConn(c)) /\ WF_vars(WaitEvent(c))

-----------------------------------------------------------------------------
Roles == {"LISTEN_TCP", "LISTEN_UDP", "CONNECTED_TCP", "CONNECTED_UDP"}

States ==
  {"closed", "connecting", "refused", "failed", "listening", "client", "open", "data", "end"}

Sockets == [role : Roles \cup {"none"}, st : States]

Entries ==
  [sd : [Sds -> HostFds \cup {NoFd}], flags : [Sds -> SUBSET Roles], fds : SUBSET HostFds]

Waits ==
  {Awake}
  \cup [for : {"conn"}, id : HostFds, time : [now : Nat, u4 : Nat]]
  \cup [for : {"recv"}, id : HostFds, u0 : Sds]
  \cup [for : {"client", "send"}, id : HostFds]
  \cup [for : {"event"}, id : {NoFd}]

TypeOK ==
  /\ proc \in [Vcpus -> [used : BOOLEAN, wait : Waits]]
  /\ netdata \in [Vcpus -> Entries]
  /\ host \in [HostFds -> Sockets]
  /\ lost \subseteq HostFds

\* Every socket the host keeps for the kernel is one descriptor of one VCPU, or
\* the connection one process waits for, or one of those the code is known to
\* lose; and no descriptor is of a closed socket, or of one the host has
\* opened for somebody else (network.c:200-285,330-475,620-720,925-960,1125-1143).
InUse(c, d) == d \in Owned(netdata[c]) \cup Connecting(c)

SocketsAddUp ==
  /\ \A d \in HostFds : host[d] # Closed <=> d \in lost \/ \E c \in Vcpus : InUse(c, d)
  /\ \A c \in Vcpus, d \in HostFds : InUse(c, d) =>
       d \notin lost /\ \A v \in Vcpus : InUse(v, d) => v = c
  /\ \A c \in Vcpus : Owned(netdata[c]) \cap Connecting(c) = {}
  /\ \A c \in Vcpus, n, k \in Sds :
       netdata[c].sd[n] = netdata[c].sd[k] => n = k \/ netdata[c].sd[n] = NoFd

\* The flags of a descriptor are what its socket was made for, or nothing when
\* the other side has ended; those of a free descriptor are clear, so that the
\* next socket does not inherit them and NET_SENDFILE, which looks at the flags
\* only, does not take it for a connection (network.c:735-760,880-890,957,1055,1139).
FlagsTellKind ==
  \A c \in Vcpus, n \in Sds :
    LET d == netdata[c].sd[n] IN
    netdata[c].flags[n] \subseteq (IF d = NoFd THEN {} ELSE {host[d].role})

\* A process in NET_EVENT does not sleep on while something has come to one of
\* its sockets, whatever earlier processes have left in its set; for sockets
\* within the descriptors that select is told of (network.c:990-1020).
EventIsSeen ==
  \A c \in Vcpus : []<> ~ (
    /\ proc[c].wait.for = "event"
    /\ \E d \in Owned(netdata[c]) : d <= MaxNetSd /\ Readable(d))

\* A connection with a time limit is made or given up, whether the limit ends
\* in the second it began in or later (network.c:222-240,455-465).
ConnectEnds == \A c \in Vcpus : []<> ~ HasLimit(c)

-----------------------------------------------------------------------------
(* What the documentation says *)

\* 01314-network-module: u4 of NET_CONNECT is the "time limit (usecs)", and
\* NET_TIMEO is raised when the "time limit [is] exceeded".
LimitIsGiven ==
  [][\A c \in Vcpus :
       LET wait == proc[c].wait IN
       HasLimit(c) /\ host[wait.id].st = "connecting" /\ host'[wait.id] = Closed
         => wait.time.now > wait.time.u4]_vars
=============================================================================
