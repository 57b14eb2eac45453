--------------------------- MODULE Network_proofs ---------------------------
(***************************************************************************)
(* Network keeps its types, loses no socket but in the ways the code is    *)
(* known to, and its flags never outlive their socket, for every number of *)
(* VCPUs, descriptors and sockets.                                         *)
(***************************************************************************)
EXTENDS Network, FiniteSetTheorems, WellFoundedInduction, TLAPS

-----------------------------------------------------------------------------
(* Types *)

\* A set of natural numbers that is not empty has a least member.
LEMMA Least ==
  ASSUME NEW S \in SUBSET Nat, S # {}
  PROVE  Min(S) \in S
<1>1. IsWellFoundedOn(OpToRel(<, Nat), Nat)
  BY NatLessThanWellFounded
<1>2. PICK x \in S : \A y \in S : ~ (<<y, x>> \in OpToRel(<, Nat))
  BY <1>1, WFMin
<1>3. \A y \in S : ~ (y < x)
  BY <1>2 DEF OpToRel
<1>4. \A y \in S : x <= y
  BY <1>3
<1> QED BY <1>4 DEF Min

\* A descriptor that the host gives is one of its own and was closed.
LEMMA LowestIsFree ==
  ASSUME LowestFd # NoFd
  PROVE  LowestFd \in HostFds /\ host[LowestFd] = Closed
<1>1. FreeFds # {} /\ LowestFd = Min(FreeFds)
  BY DEF LowestFd
<1>2. FreeFds \in SUBSET Nat
  BY NetworkAssumption DEF FreeFds, HostFds
<1>3. LowestFd \in FreeFds
  BY <1>1, <1>2, Least
<1> QED BY <1>3 DEF FreeFds

\* look_for_sd finds a free descriptor where there is one.
LEMMA FoundIsFree ==
  ASSUME NEW c \in Vcpus, FreeSds(c) # {}
  PROVE  LookForSd(c) \in Sds /\ netdata[c].sd[LookForSd(c)] = NoFd
<1>1. FreeSds(c) \in SUBSET Nat
  BY NetworkAssumption DEF FreeSds, Sds
<1>2. LookForSd(c) \in FreeSds(c)
  BY <1>1, Least DEF LookForSd
<1> QED BY <1>2 DEF FreeSds

LEMMA RegisteredType ==
  ASSUME NEW entry \in Entries, NEW n \in Sds, NEW d \in HostFds, NEW flag \in Roles
  PROVE  Registered(entry, n, d, flag) \in Entries
BY DEF Registered, Entries

LEMMA UnregisteredType ==
  ASSUME NEW entry \in Entries, NEW n \in Sds
  PROVE  Unregistered(entry, n) \in Entries
BY DEF Unregistered, Entries

LEMMA CleanupType ==
  ASSUME NEW entry \in Entries
  PROVE  Cleanup(entry) \in Entries
BY DEF Cleanup, Entries

LEMMA SocketTypes ==
  /\ Closed \in Sockets
  /\ \A role \in Roles \cup {"none"}, st \in States : Socket(role, st) \in Sockets
  /\ \A p \in Protocols : Listening(p) \in Roles /\ Connected(p) \in Roles
  /\ "CONNECTED_TCP" \in Roles
BY DEF Closed, Socket, Sockets, Roles, States, Listening, Connected

LEMMA WaitTypes ==
  /\ Awake \in Waits
  /\ \A d \in HostFds, now, u4 \in Nat :
       [for |-> "conn", id |-> d, time |-> [now |-> now, u4 |-> u4]] \in Waits
  /\ \A d \in HostFds, n \in Sds : [for |-> "recv", id |-> d, u0 |-> n] \in Waits
  /\ \A d \in HostFds, f \in {"client", "send"} : [for |-> f, id |-> d] \in Waits
  /\ [for |-> "event", id |-> NoFd] \in Waits
BY DEF Waits

\* What the handlers find in their waits
LEMMA WaitParts ==
  ASSUME NEW w \in Waits
  PROVE  /\ w.for = "conn" => w.id \in HostFds /\ w.time \in [now : Nat, u4 : Nat]
         /\ w.for = "recv" => w.id \in HostFds /\ w.u0 \in Sds
         /\ w.for \in {"client", "send"} => w.id \in HostFds
BY DEF Waits, Awake

-----------------------------------------------------------------------------
(* Each kind of step keeps the types *)

\* The host, after a socket changes its state
LEMMA HostStateType ==
  ASSUME TypeOK, NEW d \in HostFds, NEW st \in States
  PROVE  [host EXCEPT ![d].st = st] \in [HostFds -> Sockets]
BY DEF TypeOK, Sockets

LEMMA HostSocketType ==
  ASSUME TypeOK, NEW d \in HostFds, NEW s \in Sockets
  PROVE  [host EXCEPT ![d] = s] \in [HostFds -> Sockets]
BY DEF TypeOK

LEMMA AcceptedType ==
  ASSUME TypeOK, NEW l \in HostFds, NEW d \in HostFds
  PROVE  Accepted(l, d) \in [HostFds -> Sockets]
<1> DEFINE s == Socket("CONNECTED_TCP", "open")
<1>1. s \in Sockets
  BY SocketTypes DEF States
<1>2. Accepted(l, d) = [[host EXCEPT ![l].st = "listening"] EXCEPT ![d] = s]
  BY DEF Accepted
<1>3. [host EXCEPT ![l].st = "listening"] \in [HostFds -> Sockets]
  BY HostStateType DEF States
<1> QED BY <1>1, <1>2, <1>3

\* A descriptor that is not free is one of the host's.
LEMMA SdType ==
  ASSUME TypeOK, NEW c \in Vcpus, NEW n \in Sds
  PROVE  /\ netdata[c] \in Entries /\ netdata[c].sd[n] \in HostFds \cup {NoFd}
         /\ proc[c].wait \in Waits
BY DEF TypeOK, Entries

-----------------------------------------------------------------------------
(* The invariant *)

\* Who waits for a connection or a client has a descriptor left for it, and
\* what is being connected is a socket made for that.
Waiters ==
  \A c \in Vcpus :
    /\ proc[c].wait.for \in {"conn", "client"} => \E n \in Sds : netdata[c].sd[n] = NoFd
    /\ proc[c].wait.for = "conn" => host[proc[c].wait.id].role = "CONNECTED_TCP"

Inv == TypeOK /\ SocketsAddUp /\ FlagsTellKind /\ Waiters

\* What a step of c may leave behind: wait, entry, and the sockets h and l of
\* the host and lost.
ConnOf(wait) == IF wait.for = "conn" THEN {wait.id} ELSE {}

Typed(wait, entry, h, l) ==
  wait \in Waits /\ entry \in Entries /\ h \in [HostFds -> Sockets] /\ l \in SUBSET HostFds

\* Sockets that c did not have are new, those that it has no more are closed
\* or lost, and each has one place.
Balanced(c, use, h, l) ==
  /\ \A d \in use : d \in HostFds /\ (InUse(c, d) \/ host[d] = Closed)
  /\ lost \subseteq l
  /\ \A d \in l : d \in lost \/ ((InUse(c, d) \/ host[d] = Closed) /\ d \notin use)
  /\ \A d \in HostFds :
       h[d] # Closed <=> d \in use \/ d \in l \/ (host[d] # Closed /\ ~ InUse(c, d))

Distinct(wait, entry) ==
  /\ Owned(entry) \cap ConnOf(wait) = {}
  /\ \A n, k \in Sds : entry.sd[n] = entry.sd[k] => n = k \/ entry.sd[n] = NoFd

\* The sockets of others keep their role.
Respected(c, h) ==
  \A d \in HostFds : host[d] # Closed /\ ~ InUse(c, d) => h[d].role = host[d].role

Honest(entry, h) ==
  \A n \in Sds : entry.flags[n] \subseteq (IF entry.sd[n] = NoFd THEN {} ELSE {h[entry.sd[n]].role})

Provided(wait, entry, h) ==
  /\ wait.for \in {"conn", "client"} => \E n \in Sds : entry.sd[n] = NoFd
  /\ wait.for = "conn" => h[wait.id].role = "CONNECTED_TCP"

Sound(c, wait, entry, h, l) ==
  /\ Typed(wait, entry, h, l)
  /\ Balanced(c, Owned(entry) \cup ConnOf(wait), h, l)
  /\ Distinct(wait, entry)
  /\ Respected(c, h)
  /\ Honest(entry, h)
  /\ Provided(wait, entry, h)

\* The new state of VCPU c, in one place
Becomes(c, wait, entry, h, l) ==
  /\ \E used \in BOOLEAN : proc' = [proc EXCEPT ![c] = [used |-> used, wait |-> wait]]
  /\ netdata' = [netdata EXCEPT ![c] = entry]
  /\ host' = h
  /\ lost' = l

LEMMA Places ==
  ASSUME TypeOK, NEW c \in Vcpus, NEW d
  PROVE  /\ Connecting(c) = ConnOf(proc[c].wait)
         /\ InUse(c, d) <=> d \in Owned(netdata[c]) \/ d \in ConnOf(proc[c].wait)
         /\ InUse(c, d) => d \in HostFds
<1>1. Owned(netdata[c]) \subseteq HostFds
  BY DEF Owned, TypeOK, Entries
<1>2. Connecting(c) \subseteq HostFds
  BY WaitParts DEF Connecting, TypeOK
<1> QED BY <1>1, <1>2 DEF InUse, Connecting, ConnOf

\* A sound step of one VCPU keeps the books of all.
LEMMA SoundStep ==
  ASSUME Inv, NEW c \in Vcpus, NEW wait, NEW entry, NEW h, NEW l,
         Sound(c, wait, entry, h, l), Becomes(c, wait, entry, h, l)
  PROVE  Inv'
<1>1. PICK used \in BOOLEAN : proc' = [proc EXCEPT ![c] = [used |-> used, wait |-> wait]]
  BY DEF Becomes
<1>2. /\ netdata' = [netdata EXCEPT ![c] = entry] /\ host' = h /\ lost' = l
      /\ Typed(wait, entry, h, l) /\ TypeOK
  BY DEF Becomes, Sound, Inv
<1>3. TypeOK'
  BY <1>1, <1>2 DEF TypeOK, Typed
<1>4. /\ proc'[c].wait = wait /\ netdata'[c] = entry
      /\ \A v \in Vcpus \ {c} : proc'[v] = proc[v] /\ netdata'[v] = netdata[v]
  BY <1>1, <1>2 DEF TypeOK
<1> DEFINE use == Owned(entry) \cup ConnOf(wait)
<1>5. /\ \A d : InUse(c, d)' <=> d \in use
      /\ \A d, v : v \in Vcpus /\ v # c => (InUse(v, d)' <=> InUse(v, d))
  BY <1>4 DEF InUse, Connecting, ConnOf
<1>6. Balanced(c, use, h, l)
  BY DEF Sound
<1>7. \A v \in Vcpus, d \in HostFds : v # c /\ InUse(v, d) => host[d] # Closed /\ ~ InUse(c, d) /\ d \notin lost
  BY DEF Inv, SocketsAddUp
<1> HIDE DEF use
<1>8. \A d \in HostFds : host'[d] # Closed <=> d \in lost' \/ \E v \in Vcpus : InUse(v, d)'
  <2> SUFFICES ASSUME NEW d \in HostFds
               PROVE  h[d] # Closed <=> d \in l \/ \E v \in Vcpus : InUse(v, d)'
    BY <1>2
  <2>1. h[d] # Closed <=> d \in use \/ d \in l \/ (host[d] # Closed /\ ~ InUse(c, d))
    BY <1>6 DEF Balanced
  <2>2. host[d] # Closed <=> d \in lost \/ \E v \in Vcpus : InUse(v, d)
    BY DEF Inv, SocketsAddUp
  <2>3. lost \subseteq l
    BY <1>6 DEF Balanced
  <2> QED BY <2>1, <2>2, <2>3, <1>5, <1>7
<1>9. ASSUME NEW v \in Vcpus, NEW d \in HostFds, InUse(v, d)'
      PROVE  d \notin l /\ \A w \in Vcpus : InUse(w, d)' => w = v
  <2>1. \A w, x \in Vcpus : InUse(w, d) /\ InUse(x, d) => w = x
    BY DEF Inv, SocketsAddUp
  <2>2. CASE v = c
    <3>1. d \in use /\ (InUse(c, d) \/ host[d] = Closed)
      BY <1>5, <1>6, <1>9, <2>2 DEF Balanced
    <3>2. d \notin lost
      BY <3>1 DEF Inv, SocketsAddUp
    <3>3. d \notin l
      BY <1>6, <3>1, <3>2 DEF Balanced
    <3> QED BY <1>5, <1>7, <2>2, <3>1, <3>3
  <2>3. CASE v # c
    <3>1. InUse(v, d) /\ host[d] # Closed /\ ~ InUse(c, d) /\ d \notin lost
      BY <1>5, <1>7, <1>9, <2>3
    <3>2. d \notin l /\ d \notin use
      BY <1>6, <3>1 DEF Balanced
    <3> QED BY <1>5, <2>1, <3>1, <3>2
  <2> QED BY <2>2, <2>3
<1>10. \A v \in Vcpus : Owned(netdata'[v]) \cap Connecting(v)' = {}
  <2>1. Owned(entry) \cap ConnOf(wait) = {}
    BY DEF Sound, Distinct
  <2>2. Connecting(c)' = ConnOf(wait)
    BY <1>4 DEF Connecting, ConnOf
  <2>3. \A v \in Vcpus \ {c} : Connecting(v)' = Connecting(v) /\ Owned(netdata'[v]) = Owned(netdata[v])
    BY <1>4 DEF Connecting
  <2>4. \A v \in Vcpus : Owned(netdata[v]) \cap Connecting(v) = {}
    BY DEF Inv, SocketsAddUp
  <2> QED BY <1>4, <2>1, <2>2, <2>3, <2>4
<1>11. \A v \in Vcpus, n, k \in Sds :
         netdata'[v].sd[n] = netdata'[v].sd[k] => n = k \/ netdata'[v].sd[n] = NoFd
  BY <1>4 DEF Sound, Distinct, Inv, SocketsAddUp
<1>12. SocketsAddUp'
  BY <1>2, <1>8, <1>9, <1>10, <1>11 DEF SocketsAddUp
<1>13. FlagsTellKind'
  <2> SUFFICES ASSUME NEW v \in Vcpus, NEW n \in Sds
               PROVE  netdata'[v].flags[n] \subseteq
                        (IF netdata'[v].sd[n] = NoFd THEN {} ELSE {host'[netdata'[v].sd[n]].role})
    BY DEF FlagsTellKind
  <2>1. CASE v = c
    BY <1>2, <1>4, <2>1 DEF Sound, Honest
  <2>2. CASE v # c
    <3> DEFINE d == netdata[v].sd[n]
    <3>1. netdata[v].flags[n] \subseteq (IF d = NoFd THEN {} ELSE {host[d].role})
      BY DEF Inv, FlagsTellKind
    <3>2. CASE d = NoFd
      BY <1>4, <2>2, <3>1, <3>2
    <3>3. CASE d # NoFd
      <4>1. d \in HostFds /\ InUse(v, d)
        BY <1>2, <3>3, SdType DEF InUse, Owned
      <4>2. h[d].role = host[d].role
        BY <1>7, <2>2, <4>1 DEF Sound, Respected
      <4> QED BY <1>2, <1>4, <2>2, <3>1, <3>3, <4>2
    <3> QED BY <3>2, <3>3
  <2> QED BY <2>1, <2>2
<1>14. Waiters'
  <2> SUFFICES ASSUME NEW v \in Vcpus
               PROVE  /\ proc'[v].wait.for \in {"conn", "client"} => \E n \in Sds : netdata'[v].sd[n] = NoFd
                      /\ proc'[v].wait.for = "conn" => host'[proc'[v].wait.id].role = "CONNECTED_TCP"
    BY DEF Waiters
  <2>1. CASE v = c
    BY <1>2, <1>4, <2>1 DEF Sound, Provided
  <2>2. CASE v # c
    <3>1. proc'[v] = proc[v] /\ netdata'[v] = netdata[v] /\ host' = h
      BY <1>2, <1>4, <2>2
    <3>2. CASE proc[v].wait.for = "conn"
      <4> DEFINE d == proc[v].wait.id
      <4>a. proc[v].wait \in Waits
        BY <1>2 DEF TypeOK
      <4>1. d \in HostFds /\ InUse(v, d)
        BY <3>2, <4>a, WaitParts DEF InUse, Connecting
      <4>2. h[d].role = host[d].role
        BY <1>7, <2>2, <4>1 DEF Sound, Respected
      <4> QED BY <3>1, <3>2, <4>2 DEF Inv, Waiters
    <3>3. CASE proc[v].wait.for # "conn"
      BY <3>1, <3>3 DEF Inv, Waiters
    <3> QED BY <3>2, <3>3
  <2> QED BY <2>1, <2>2
<1> QED BY <1>3, <1>12, <1>13, <1>14 DEF Inv

LEMMA DieSound ==
  ASSUME Inv, NEW c \in Vcpus, NEW entry, NEW h, NEW l,
         Sound(c, Awake, entry, h, l), Die(c, entry, h, l)
  PROVE  Inv'
<1> DEFINE e == Cleanup(entry)
           k == [d \in HostFds |-> IF d \in Owned(entry) THEN Closed ELSE h[d]]
<1>1. Typed(Awake, entry, h, l) /\ Honest(entry, h) /\ Respected(c, h)
  BY DEF Sound
<1>2. entry.sd \in [Sds -> HostFds \cup {NoFd}] /\ entry.flags \in [Sds -> SUBSET Roles]
  BY <1>1 DEF Typed, Entries
<1>3. e \in Entries /\ e.sd = [n \in Sds |-> NoFd]
      /\ e.flags = [n \in Sds |-> IF entry.sd[n] # NoFd THEN {} ELSE entry.flags[n]]
  BY <1>1, CleanupType DEF Cleanup, Typed, Entries
<1>4. Owned(e) = {} /\ ConnOf(Awake) = {}
  BY <1>3 DEF Owned, ConnOf, Awake
<1>5. Becomes(c, Awake, e, k, l)
  BY DEF Die, Becomes, Vacant
<1> HIDE DEF e
<1>6. Typed(Awake, e, k, l)
  BY <1>1, <1>3, SocketTypes DEF Typed
<1>7. Balanced(c, Owned(entry), h, l)
  <2>1. Owned(entry) \cup ConnOf(Awake) = Owned(entry)
    BY <1>4
  <2> QED BY <2>1 DEF Sound
<1>8. Balanced(c, Owned(e) \cup ConnOf(Awake), k, l)
  <2>1. Owned(e) \cup ConnOf(Awake) = {}
    BY <1>4
  <2>2. ASSUME NEW d \in HostFds
        PROVE  k[d] # Closed <=> d \in l \/ (host[d] # Closed /\ ~ InUse(c, d))
    <3>1. h[d] # Closed <=> d \in Owned(entry) \/ d \in l \/ (host[d] # Closed /\ ~ InUse(c, d))
      BY <1>7 DEF Balanced
    <3>3. d \in Owned(entry) => InUse(c, d) \/ host[d] = Closed
      BY <1>7 DEF Balanced
    <3>4. InUse(c, d) => d \notin lost
      BY DEF Inv, SocketsAddUp
    <3>5. d \in lost => host[d] # Closed
      BY DEF Inv, SocketsAddUp
    <3>6. d \in l => d \notin Owned(entry)
      BY <1>7, <3>3, <3>4, <3>5 DEF Balanced
    <3>7. k[d] = IF d \in Owned(entry) THEN Closed ELSE h[d]
      OBVIOUS
    <3> HIDE DEF k
    <3> QED BY <3>1, <3>3, <3>6, <3>7
  <2> HIDE DEF k
  <2>3. /\ lost \subseteq l
        /\ \A d \in l : d \in lost \/ (InUse(c, d) \/ host[d] = Closed)
    BY <1>7 DEF Balanced
  <2> QED BY <2>1, <2>2, <2>3 DEF Balanced
<1>9. Distinct(Awake, e)
  BY <1>3, <1>4 DEF Distinct
<1>10. Respected(c, k)
  <2> SUFFICES ASSUME NEW d \in HostFds, host[d] # Closed, ~ InUse(c, d)
               PROVE  k[d].role = host[d].role
    BY DEF Respected
  <2>1. d \notin Owned(entry)
    BY <1>7 DEF Balanced
  <2> QED BY <1>1, <2>1 DEF Respected
<1>11. Honest(e, k)
  BY <1>1, <1>2, <1>3 DEF Honest
<1>12. Provided(Awake, e, k)
  BY DEF Provided, Awake
<1> QED BY <1>5, <1>6, <1>8, <1>9, <1>10, <1>11, <1>12, SoundStep DEF Sound

\* A step that wakes c, or leaves it asleep
LEMMA WaitStep ==
  ASSUME Inv, NEW c \in Vcpus, NEW wait, NEW entry, NEW h, NEW l,
         Sound(c, wait, entry, h, l),
         EnterWait(c, wait), netdata' = [netdata EXCEPT ![c] = entry], host' = h, lost' = l
  PROVE  Inv'
<1>a. wait \in Waits /\ proc \in [Vcpus -> [used : BOOLEAN, wait : Waits]]
  BY DEF Sound, Typed, Inv, TypeOK
<1>b. [proc[c] EXCEPT !.wait = wait] = [used |-> proc[c].used, wait |-> wait]
  BY <1>a
<1>1. proc' = [proc EXCEPT ![c] = [used |-> proc[c].used, wait |-> wait]] /\ proc[c].used \in BOOLEAN
  BY <1>a, <1>b DEF EnterWait
<1>2. Becomes(c, wait, entry, h, l)
  BY <1>1 DEF Becomes
<1> QED BY <1>2, SoundStep

LEMMA RaiseSound ==
  ASSUME Inv, NEW c \in Vcpus, NEW entry, NEW h, NEW l,
         Sound(c, Awake, entry, h, l), Raise(c, entry, h, l)
  PROVE  Inv'
<1>1. CASE Die(c, entry, h, l)
  BY <1>1, DieSound
<1>2. CASE /\ WakeUp(c) /\ netdata' = [netdata EXCEPT ![c] = entry]
           /\ host' = h /\ lost' = l
  BY <1>2, WaitStep DEF WakeUp
<1> QED BY <1>1, <1>2 DEF Raise

-----------------------------------------------------------------------------
(* What the steps do to the books *)

\* The sockets but d are as open as before, and of the same kind.
Alike(h, d) ==
  \A e \in HostFds \ {d} : h[e].role = host[e].role /\ (h[e] = Closed <=> host[e] = Closed)

\* The host has just given d to c, or c has been connecting it.
Passing(c, d) ==
  d \in HostFds /\ Connecting(c) \subseteq {d} /\ (host[d] = Closed \/ d \in Connecting(c))

LEMMA PassingIsNew ==
  ASSUME Inv, NEW c \in Vcpus, NEW d, Passing(c, d)
  PROVE  /\ d \notin Owned(netdata[c]) /\ d \notin lost
         /\ \A e : InUse(c, e) => e \in Owned(netdata[c]) \/ e = d
         /\ \A e \in Owned(netdata[c]) : e \in HostFds /\ e # d /\ InUse(c, e)
<1>1. CASE host[d] = Closed
  <2>1. ~ InUse(c, d) /\ d \notin lost
    BY <1>1 DEF Inv, SocketsAddUp, Passing
  <2> QED BY <2>1, Places DEF InUse, Passing, Inv
<1>2. CASE d \in Connecting(c)
  <2>1. InUse(c, d)
    BY <1>2 DEF InUse
  <2>2. d \notin lost /\ d \notin Owned(netdata[c])
    BY <1>2, <2>1 DEF Inv, SocketsAddUp, Passing
  <2> QED BY <2>2, Places DEF InUse, Passing, Inv
<1> QED BY <1>1, <1>2 DEF Passing

\* Descriptors keep their sockets; some may lose their flags.
LEMMA StillSound ==
  ASSUME Inv, NEW c \in Vcpus, NEW wait \in Waits, NEW entry \in Entries,
         NEW h \in [HostFds -> Sockets],
         Connecting(c) = {}, ConnOf(wait) = {},
         wait.for = "client" => FreeSds(c) # {},
         entry.sd = netdata[c].sd,
         \A n \in Sds : entry.flags[n] \subseteq netdata[c].flags[n],
         Alike(h, NoFd)
  PROVE  Sound(c, wait, entry, h, lost)
<1>1. NoFd \notin HostFds
  BY NetworkAssumption DEF NoFd, HostFds
<1>2. \A d \in HostFds : h[d].role = host[d].role /\ (h[d] = Closed <=> host[d] = Closed)
  BY <1>1 DEF Alike
<1>3. lost \in SUBSET HostFds /\ TypeOK
  BY DEF Inv, TypeOK
<1>4. Owned(entry) = Owned(netdata[c])
  BY DEF Owned
<1>5. \A d : InUse(c, d) <=> d \in Owned(entry) \cup ConnOf(wait)
  BY <1>4 DEF InUse
<1>6. Typed(wait, entry, h, lost)
  BY <1>3 DEF Typed
<1>7. Balanced(c, Owned(entry) \cup ConnOf(wait), h, lost)
  <2>1. \A d : InUse(c, d) => d \in HostFds
    BY <1>3, Places
  <2>2. \A d \in HostFds : host[d] # Closed <=> InUse(c, d) \/ d \in lost \/ (host[d] # Closed /\ ~ InUse(c, d))
    BY DEF Inv, SocketsAddUp
  <2> QED BY <1>2, <1>5, <2>1, <2>2 DEF Balanced
<1>8. Distinct(wait, entry)
  BY DEF Distinct, Inv, SocketsAddUp
<1>9. Respected(c, h)
  BY <1>2 DEF Respected
<1>10. Honest(entry, h)
  <2> SUFFICES ASSUME NEW n \in Sds
               PROVE  entry.flags[n] \subseteq (IF entry.sd[n] = NoFd THEN {} ELSE {h[entry.sd[n]].role})
    BY DEF Honest
  <2>1. entry.flags[n] \subseteq (IF entry.sd[n] = NoFd THEN {} ELSE {host[entry.sd[n]].role})
    BY DEF Inv, FlagsTellKind
  <2>2. entry.sd[n] # NoFd => entry.sd[n] \in HostFds
    BY <1>3, SdType
  <2> QED BY <1>2, <2>1, <2>2
<1>11. Provided(wait, entry, h)
  BY DEF Provided, ConnOf, FreeSds
<1> QED BY <1>6, <1>7, <1>8, <1>9, <1>10, <1>11 DEF Sound

\* c gets the socket as a descriptor.
LEMMA NewSound ==
  ASSUME Inv, NEW c \in Vcpus, NEW d, Passing(c, d),
         FreeSds(c) # {}, NEW flag \in Roles, NEW h \in [HostFds -> Sockets],
         Alike(h, d), h[d] # Closed, h[d].role = flag
  PROVE  Sound(c, Awake, Registered(netdata[c], LookForSd(c), d, flag), h, lost)
<1> DEFINE n == LookForSd(c)
           entry == Registered(netdata[c], n, d, flag)
<1>1. n \in Sds /\ netdata[c].sd[n] = NoFd
  BY FoundIsFree
<1> HIDE DEF n
<1>2. TypeOK /\ netdata[c] \in Entries /\ d \in HostFds /\ d # NoFd /\ lost \in SUBSET HostFds
  BY NetworkAssumption DEF Inv, TypeOK, Passing, HostFds, NoFd
<1>3. entry \in Entries
  BY <1>1, <1>2, RegisteredType
<1>4. /\ entry.sd = [netdata[c].sd EXCEPT ![n] = d]
      /\ entry.flags = [netdata[c].flags EXCEPT ![n] = netdata[c].flags[n] \cup {flag}]
  BY <1>2 DEF Registered, Entries
<1> HIDE DEF entry
<1>5. /\ netdata[c].sd \in [Sds -> HostFds \cup {NoFd}]
      /\ netdata[c].flags \in [Sds -> SUBSET Roles]
  BY <1>2 DEF Entries
<1>6. Owned(entry) = Owned(netdata[c]) \cup {d}
  BY <1>1, <1>2, <1>4, <1>5 DEF Owned
<1>7. ConnOf(Awake) = {}
  BY DEF ConnOf, Awake
<1>8. Typed(Awake, entry, h, lost)
  BY <1>2, <1>3, WaitTypes DEF Typed
<1>9. Balanced(c, Owned(entry) \cup ConnOf(Awake), h, lost)
  <2>1. \A e \in HostFds \ {d} : h[e] = Closed <=> host[e] = Closed
    BY DEF Alike
  <2>2. \A e \in HostFds : host[e] # Closed <=> InUse(c, e) \/ e \in lost \/ (host[e] # Closed /\ ~ InUse(c, e))
    BY DEF Inv, SocketsAddUp
  <2>3. d \in Connecting(c) => InUse(c, d)
    BY DEF InUse
  <2> QED BY <1>2, <1>6, <1>7, <2>1, <2>2, <2>3, PassingIsNew DEF Balanced, Passing
<1>10. Distinct(Awake, entry)
  <2>1. \A k \in Sds : netdata[c].sd[k] # d
    BY <1>2, PassingIsNew DEF Owned
  <2>2. \A j, k \in Sds : netdata[c].sd[j] = netdata[c].sd[k] => j = k \/ netdata[c].sd[j] = NoFd
    BY DEF Inv, SocketsAddUp
  <2> QED BY <1>1, <1>4, <1>5, <1>7, <2>1, <2>2 DEF Distinct
<1>11. Respected(c, h)
  BY <1>2 DEF Respected, Alike, Passing, InUse
<1>12. Honest(entry, h)
  <2> SUFFICES ASSUME NEW k \in Sds
               PROVE  entry.flags[k] \subseteq (IF entry.sd[k] = NoFd THEN {} ELSE {h[entry.sd[k]].role})
    BY DEF Honest
  <2>1. netdata[c].flags[k] \subseteq (IF netdata[c].sd[k] = NoFd THEN {} ELSE {host[netdata[c].sd[k]].role})
    BY DEF Inv, FlagsTellKind
  <2>2. CASE k = n
    BY <1>1, <1>2, <1>4, <1>5, <2>1, <2>2
  <2>3. CASE k # n /\ netdata[c].sd[k] # NoFd
    <3>1. netdata[c].sd[k] \in Owned(netdata[c])
      BY <2>3 DEF Owned
    <3> QED BY <1>4, <1>5, <2>1, <2>3, <3>1, PassingIsNew DEF Alike
  <2>4. CASE k # n /\ netdata[c].sd[k] = NoFd
    BY <1>4, <1>5, <2>1, <2>4
  <2> QED BY <2>2, <2>3, <2>4
<1>13. Provided(Awake, entry, h)
  BY DEF Provided, Awake
<1> QED BY <1>8, <1>9, <1>10, <1>11, <1>12, <1>13 DEF Sound, entry, n

\* c does not get the socket: it is closed, or lost.
LEMMA GoneSound ==
  ASSUME Inv, NEW c \in Vcpus, NEW d, Passing(c, d),
         NEW h \in [HostFds -> Sockets], NEW l,
         l \in {lost, lost \cup {d}},
         Alike(h, d), h[d] # Closed <=> d \in l
  PROVE  Sound(c, Awake, netdata[c], h, l)
<1>1. TypeOK /\ netdata[c] \in Entries /\ d \in HostFds /\ lost \in SUBSET HostFds
  BY DEF Inv, TypeOK, Passing
<1>2. ConnOf(Awake) = {}
  BY DEF ConnOf, Awake
<1>3. Typed(Awake, netdata[c], h, l)
  BY <1>1, WaitTypes DEF Typed
<1>4. Balanced(c, Owned(netdata[c]) \cup ConnOf(Awake), h, l)
  <2>1. \A e \in HostFds \ {d} : h[e] = Closed <=> host[e] = Closed
    BY DEF Alike
  <2>2. \A e \in HostFds : host[e] # Closed <=> InUse(c, e) \/ e \in lost \/ (host[e] # Closed /\ ~ InUse(c, e))
    BY DEF Inv, SocketsAddUp
  <2>3. d \in Connecting(c) => InUse(c, d)
    BY DEF InUse
  <2>4. \A e \in Owned(netdata[c]) : e # d /\ e \in HostFds /\ InUse(c, e)
    BY PassingIsNew
  <2>5. \A e : InUse(c, e) => e \in Owned(netdata[c]) \/ e = d
    BY PassingIsNew
  <2>6. d \notin Owned(netdata[c]) /\ d \notin lost
    BY PassingIsNew
  <2>7. InUse(c, d) \/ host[d] = Closed
    BY <2>3 DEF Passing
  <2>8. Owned(netdata[c]) \cup ConnOf(Awake) = Owned(netdata[c])
    BY <1>2
  <2>9. \A e \in HostFds :
          h[e] # Closed <=> e \in Owned(netdata[c]) \/ e \in l \/ (host[e] # Closed /\ ~ InUse(c, e))
    <3> SUFFICES ASSUME NEW e \in HostFds
                 PROVE  h[e] # Closed <=> e \in Owned(netdata[c]) \/ e \in l \/ (host[e] # Closed /\ ~ InUse(c, e))
      OBVIOUS
    <3>1. CASE e = d
      BY <2>6, <2>7, <3>1
    <3>2. CASE e # d
      <4>1. e \in l <=> e \in lost
        BY <3>2
      <4>2. h[e] = Closed <=> host[e] = Closed
        BY <2>1, <3>2
      <4> QED BY <2>2, <2>4, <2>5, <3>2, <4>1, <4>2
    <3> QED BY <3>1, <3>2
  <2> QED BY <2>4, <2>6, <2>7, <2>8, <2>9 DEF Balanced
<1>5. Distinct(Awake, netdata[c])
  BY <1>2 DEF Distinct, Inv, SocketsAddUp
<1>6. Respected(c, h)
  BY <1>1 DEF Respected, Alike, Passing, InUse
<1>7. Honest(netdata[c], h)
  <2> SUFFICES ASSUME NEW k \in Sds, netdata[c].sd[k] # NoFd
               PROVE  h[netdata[c].sd[k]].role = host[netdata[c].sd[k]].role
    BY DEF Honest, Inv, FlagsTellKind
  <2>1. netdata[c].sd[k] \in Owned(netdata[c])
    BY DEF Owned
  <2> QED BY <2>1, PassingIsNew DEF Alike
<1>8. Provided(Awake, netdata[c], h)
  BY DEF Provided, Awake
<1> QED BY <1>3, <1>4, <1>5, <1>6, <1>7, <1>8 DEF Sound

\* c waits for the connection of the socket.
LEMMA ConnectingSound ==
  ASSUME Inv, NEW c \in Vcpus, NEW d, Passing(c, d), host[d] = Closed, FreeSds(c) # {},
         NEW wait \in Waits, wait.for = "conn", wait.id = d,
         NEW h \in [HostFds -> Sockets],
         Alike(h, d), h[d] # Closed, h[d].role = "CONNECTED_TCP"
  PROVE  Sound(c, wait, netdata[c], h, lost)
<1>1. TypeOK /\ netdata[c] \in Entries /\ d \in HostFds /\ lost \in SUBSET HostFds
  BY DEF Inv, TypeOK, Passing
<1>2. ConnOf(wait) = {d}
  BY DEF ConnOf
<1>3. Typed(wait, netdata[c], h, lost)
  BY <1>1 DEF Typed
<1>4. Balanced(c, Owned(netdata[c]) \cup ConnOf(wait), h, lost)
  <2>1. \A e \in HostFds \ {d} : h[e] = Closed <=> host[e] = Closed
    BY DEF Alike
  <2>2. \A e \in HostFds : host[e] # Closed <=> InUse(c, e) \/ e \in lost \/ (host[e] # Closed /\ ~ InUse(c, e))
    BY DEF Inv, SocketsAddUp
  <2> QED BY <1>1, <1>2, <2>1, <2>2, PassingIsNew DEF Balanced
<1>5. Distinct(wait, netdata[c])
  <2>1. d \notin Owned(netdata[c])
    BY PassingIsNew
  <2> QED BY <1>2, <2>1 DEF Distinct, Inv, SocketsAddUp
<1>6. Respected(c, h)
  BY <1>1 DEF Respected, Alike
<1>7. Honest(netdata[c], h)
  <2> SUFFICES ASSUME NEW k \in Sds, netdata[c].sd[k] # NoFd
               PROVE  h[netdata[c].sd[k]].role = host[netdata[c].sd[k]].role
    BY DEF Honest, Inv, FlagsTellKind
  <2>1. netdata[c].sd[k] \in Owned(netdata[c])
    BY DEF Owned
  <2> QED BY <2>1, PassingIsNew DEF Alike
<1>8. Provided(wait, netdata[c], h)
  BY DEF Provided, FreeSds
<1> QED BY <1>3, <1>4, <1>5, <1>6, <1>7, <1>8 DEF Sound

\* c closes a descriptor.
LEMMA ClosingSound ==
  ASSUME Inv, NEW c \in Vcpus, NEW n \in Sds, netdata[c].sd[n] # NoFd, Connecting(c) = {}
  PROVE  Sound(c, Awake, Unregistered(netdata[c], n),
               [host EXCEPT ![netdata[c].sd[n]] = Closed], lost)
<1> DEFINE d == netdata[c].sd[n]
           entry == Unregistered(netdata[c], n)
           h == [host EXCEPT ![d] = Closed]
<1>1. TypeOK /\ netdata[c] \in Entries /\ lost \in SUBSET HostFds
  BY DEF Inv, TypeOK
<1>2. d \in HostFds /\ InUse(c, d)
  BY <1>1, SdType DEF InUse, Owned
<1>3. entry \in Entries
  BY <1>1, UnregisteredType
<1>4. /\ entry.sd = [netdata[c].sd EXCEPT ![n] = NoFd]
      /\ entry.flags = [netdata[c].flags EXCEPT ![n] = {}]
  BY <1>1 DEF Unregistered, Entries
<1>5. h \in [HostFds -> Sockets] /\ h[d] = Closed /\ \A e \in HostFds \ {d} : h[e] = host[e]
  BY <1>1, <1>2, SocketTypes, HostSocketType DEF TypeOK
<1> HIDE DEF entry, h
<1>6. /\ netdata[c].sd \in [Sds -> HostFds \cup {NoFd}]
      /\ netdata[c].flags \in [Sds -> SUBSET Roles]
  BY <1>1 DEF Entries
<1>7. \A j, k \in Sds : netdata[c].sd[j] = netdata[c].sd[k] => j = k \/ netdata[c].sd[j] = NoFd
  BY DEF Inv, SocketsAddUp
<1>8. Owned(entry) = Owned(netdata[c]) \ {d}
  BY <1>4, <1>6, <1>7 DEF Owned
<1>9. ConnOf(Awake) = {}
  BY DEF ConnOf, Awake
<1>10. Typed(Awake, entry, h, lost)
  BY <1>1, <1>3, <1>5, WaitTypes DEF Typed
<1>11. \A e : InUse(c, e) <=> e \in Owned(netdata[c])
  BY DEF InUse
<1>12. Balanced(c, Owned(entry) \cup ConnOf(Awake), h, lost)
  <2>1. Owned(entry) \cup ConnOf(Awake) = Owned(netdata[c]) \ {d}
    BY <1>8, <1>9
  <2>2. \A e \in HostFds : host[e] # Closed <=> InUse(c, e) \/ e \in lost \/ (host[e] # Closed /\ ~ InUse(c, e))
    BY DEF Inv, SocketsAddUp
  <2>3. \A e : InUse(c, e) => e \in HostFds /\ e \notin lost
    BY <1>1, Places DEF Inv, SocketsAddUp
  <2> QED BY <1>2, <1>5, <1>11, <2>1, <2>2, <2>3 DEF Balanced
<1>13. Distinct(Awake, entry)
  BY <1>4, <1>6, <1>7, <1>9 DEF Distinct
<1>14. Respected(c, h)
  BY <1>2, <1>5 DEF Respected
<1>15. Honest(entry, h)
  <2> SUFFICES ASSUME NEW k \in Sds
               PROVE  entry.flags[k] \subseteq (IF entry.sd[k] = NoFd THEN {} ELSE {h[entry.sd[k]].role})
    BY DEF Honest
  <2>1. netdata[c].flags[k] \subseteq (IF netdata[c].sd[k] = NoFd THEN {} ELSE {host[netdata[c].sd[k]].role})
    BY DEF Inv, FlagsTellKind
  <2>2. CASE k = n
    BY <1>4, <1>6, <2>2
  <2>3. CASE k # n
    <3>1. entry.sd[k] = netdata[c].sd[k] /\ entry.flags[k] = netdata[c].flags[k]
      BY <1>4, <1>6, <2>3
    <3>2. netdata[c].sd[k] # NoFd => netdata[c].sd[k] \in HostFds \ {d}
      BY <1>6, <1>7, <2>3
    <3> QED BY <1>5, <2>1, <3>1, <3>2
  <2> QED BY <2>2, <2>3
<1>16. Provided(Awake, entry, h)
  BY DEF Provided, Awake
<1> QED BY <1>10, <1>12, <1>13, <1>14, <1>15, <1>16 DEF Sound, entry, h

-----------------------------------------------------------------------------
(* What the steps do to the host *)

LEMMA SocketSet ==
  ASSUME TypeOK, NEW d \in HostFds, NEW s \in Sockets
  PROVE  LET h == [host EXCEPT ![d] = s] IN
         h \in [HostFds -> Sockets] /\ h[d] = s /\ Alike(h, d)
BY HostSocketType DEF TypeOK, Alike

LEMMA StateSet ==
  ASSUME TypeOK, NEW d \in HostFds, NEW st \in States \ {"closed"}, host[d].st # "closed"
  PROVE  LET h == [host EXCEPT ![d].st = st] IN
         h \in [HostFds -> Sockets] /\ Alike(h, NoFd)
<1> DEFINE h == [host EXCEPT ![d].st = st]
<1>1. h \in [HostFds -> Sockets]
  BY HostStateType
<1>2. h[d].role = host[d].role /\ h[d].st = st /\ \A e \in HostFds \ {d} : h[e] = host[e]
  BY DEF TypeOK, Sockets
<1> HIDE DEF h
<1>3. h[d] # Closed /\ host[d] # Closed
  BY <1>2 DEF Closed
<1> QED BY <1>1, <1>2, <1>3 DEF Alike, h

LEMMA AcceptedSet ==
  ASSUME TypeOK, NEW l \in HostFds, NEW d \in HostFds, host[l].st = "client", host[d] = Closed
  PROVE  /\ Accepted(l, d) \in [HostFds -> Sockets] /\ Alike(Accepted(l, d), d)
         /\ Accepted(l, d)[d] # Closed /\ Accepted(l, d)[d].role = "CONNECTED_TCP"
<1> DEFINE k == [host EXCEPT ![l].st = "listening"]
           s == Socket("CONNECTED_TCP", "open")
<1>1. l # d
  BY DEF Closed
<1>2. k \in [HostFds -> Sockets] /\ Alike(k, NoFd)
  BY StateSet DEF States
<1>3. Accepted(l, d) = [k EXCEPT ![d] = s]
  BY DEF Accepted
<1>4. s # Closed /\ s.role = "CONNECTED_TCP"
  BY DEF Closed, Socket
<1>5. Accepted(l, d) \in [HostFds -> Sockets]
  BY AcceptedType
<1>6. NoFd \notin HostFds
  BY NetworkAssumption DEF NoFd, HostFds
<1> HIDE DEF k, s
<1>7. Accepted(l, d)[d] = s /\ \A e \in HostFds \ {d} : Accepted(l, d)[e] = k[e]
  BY <1>2, <1>3
<1> QED BY <1>2, <1>4, <1>5, <1>6, <1>7 DEF Alike

LEMMA AfterRecvSet ==
  ASSUME TypeOK, NEW d \in HostFds
  PROVE  AfterRecv(d) \in [HostFds -> Sockets] /\ Alike(AfterRecv(d), NoFd)
<1>1. CASE host[d].st # "closed"
  <2>1. LET h == [host EXCEPT ![d].st = "open"] IN h \in [HostFds -> Sockets] /\ Alike(h, NoFd)
    BY <1>1, StateSet DEF States
  <2> QED BY <2>1 DEF AfterRecv, TypeOK, Alike
<1>2. CASE host[d].st = "closed"
  <2>1. AfterRecv(d) = host
    BY <1>2 DEF AfterRecv, Socket
  <2> QED BY <2>1 DEF TypeOK, Alike
<1> QED BY <1>1, <1>2

LEMMA SameHost ==
  ASSUME TypeOK
  PROVE  host \in [HostFds -> Sockets] /\ \A d : Alike(host, d)
BY DEF TypeOK, Alike

\* A process that runs connects nothing, and goes on if its wait stays.
LEMMA RunsOn ==
  ASSUME TypeOK, NEW c \in Vcpus, Runs(c)
  PROVE  Connecting(c) = {} /\ (UNCHANGED proc => EnterWait(c, Awake))
<1>1. proc[c].wait = Awake
  BY DEF Runs
<1>2. Connecting(c) = {}
  BY <1>1 DEF Connecting, Awake
<1>3. proc = [proc EXCEPT ![c].wait = Awake]
  BY <1>1 DEF TypeOK
<1> QED BY <1>2, <1>3 DEF EnterWait

LEMMA SameEntry ==
  ASSUME TypeOK, NEW c \in Vcpus, UNCHANGED netdata
  PROVE  netdata' = [netdata EXCEPT ![c] = netdata[c]]
BY DEF TypeOK

\* Steps outside the processes: waits and sockets keep their kind.
LEMMA QuietStep ==
  ASSUME Inv, TypeOK', UNCHANGED <<netdata, lost>>, Alike(host', NoFd),
         \A c \in Vcpus : /\ proc'[c].wait.for = proc[c].wait.for
                          /\ proc'[c].wait.id = proc[c].wait.id
  PROVE  Inv'
<1>1. NoFd \notin HostFds
  BY NetworkAssumption DEF NoFd, HostFds
<1>2. \A d \in HostFds : host'[d].role = host[d].role /\ (host'[d] = Closed <=> host[d] = Closed)
  BY <1>1 DEF Alike
<1>3. \A c \in Vcpus : Connecting(c)' = Connecting(c) /\ Owned(netdata[c])' = Owned(netdata[c])
  BY DEF Connecting, Owned
<1>4. \A c \in Vcpus : \A d : InUse(c, d)' <=> InUse(c, d)
  BY <1>3 DEF InUse
<1>5. SocketsAddUp'
  BY <1>2, <1>3, <1>4 DEF Inv, SocketsAddUp
<1>6. FlagsTellKind'
  <2> SUFFICES ASSUME NEW c \in Vcpus, NEW n \in Sds, netdata[c].sd[n] # NoFd
               PROVE  host'[netdata[c].sd[n]].role = host[netdata[c].sd[n]].role
    BY DEF Inv, FlagsTellKind
  <2>1. netdata[c].sd[n] \in HostFds
    BY SdType DEF Inv
  <2> QED BY <1>2, <2>1
<1>7. Waiters'
  <2> SUFFICES ASSUME NEW c \in Vcpus, proc[c].wait.for = "conn"
               PROVE  host'[proc[c].wait.id].role = host[proc[c].wait.id].role
    BY DEF Inv, Waiters
  <2>1. proc[c].wait \in Waits
    BY DEF Inv, TypeOK
  <2>2. proc[c].wait.id \in HostFds
    BY <2>1, WaitParts
  <2> QED BY <1>2, <2>2
<1> QED BY <1>5, <1>6, <1>7 DEF Inv

-----------------------------------------------------------------------------
(* Every step *)

\* An exception, or an end, when nothing has been done
LEMMA NothingDone ==
  ASSUME Inv, NEW c \in Vcpus, Connecting(c) = {}
  PROVE  Sound(c, Awake, netdata[c], host, lost)
<1>1. TypeOK /\ netdata[c] \in Entries
  BY DEF Inv, TypeOK
<1>2. Awake \in Waits /\ ConnOf(Awake) = {} /\ Awake.for # "client"
  BY WaitTypes DEF ConnOf, Awake
<1> QED BY <1>1, <1>2, SameHost, StillSound

LEMMA QuietSteps ==
  ASSUME Inv, Tick \/ (\E c \in Vcpus : Load(c)) \/ (\E d \in HostFds : Outside(d))
  PROVE  Inv'
<1>a. TypeOK
  BY DEF Inv
<1>1. CASE Tick
  <2>1. /\ UNCHANGED <<netdata, host, lost>>
        /\ proc' = [c \in Vcpus |->
             IF HasLimit(c) THEN [proc[c] EXCEPT !.wait.time.now = @ + 1] ELSE proc[c]]
    BY <1>1 DEF Tick
  <2>2. ASSUME NEW c \in Vcpus
        PROVE  /\ proc'[c] \in [used : BOOLEAN, wait : Waits]
               /\ proc'[c].wait.for = proc[c].wait.for /\ proc'[c].wait.id = proc[c].wait.id
    <3>1. proc[c] \in [used : BOOLEAN, wait : Waits]
      BY <1>a DEF TypeOK
    <3>2. CASE ~ HasLimit(c)
      BY <2>1, <3>1, <3>2
    <3>3. CASE HasLimit(c)
      <4> DEFINE w == proc[c].wait
                 v == [w EXCEPT !.time.now = w.time.now + 1]
      <4>1. w \in [for : {"conn"}, id : HostFds, time : [now : Nat, u4 : Nat]]
        BY <3>1, <3>3 DEF HasLimit, Waits, Awake
      <4>2. v \in [for : {"conn"}, id : HostFds, time : [now : Nat, u4 : Nat]] /\ v.id = w.id
        BY <4>1
      <4>3. proc'[c] = [proc[c] EXCEPT !.wait = v]
        BY <2>1, <3>1, <3>3
      <4>4. proc'[c].wait = v /\ proc'[c].used = proc[c].used
            /\ proc'[c] \in [used : BOOLEAN, wait : {v}]
        BY <3>1, <4>3
      <4>5. v \in Waits
        BY <4>2 DEF Waits
      <4>6. v.for = w.for
        BY <4>1, <4>2
      <4> HIDE DEF v
      <4> QED BY <4>2, <4>4, <4>5, <4>6
    <3> QED BY <3>2, <3>3
  <2>3. TypeOK'
    BY <1>a, <2>1, <2>2 DEF TypeOK
  <2>4. Alike(host', NoFd)
    BY <2>1 DEF Alike
  <2> QED BY <2>1, <2>2, <2>3, <2>4, QuietStep
<1>2. ASSUME NEW c \in Vcpus, Load(c)
      PROVE  Inv'
  <2>1. UNCHANGED <<netdata, host, lost>> /\ proc' = [proc EXCEPT ![c].used = TRUE]
    BY <1>2 DEF Load
  <2>2. TypeOK' /\ \A v \in Vcpus : proc'[v].wait = proc[v].wait
    BY <1>a, <2>1 DEF TypeOK
  <2>3. Alike(host', NoFd)
    BY <2>1 DEF Alike
  <2> QED BY <2>1, <2>2, <2>3, QuietStep
<1>3. ASSUME NEW d \in HostFds, Outside(d)
      PROVE  Inv'
  <2>1. PICK st \in {"open", "refused", "failed", "client", "data", "end"} :
          /\ host' = [host EXCEPT ![d].st = st] /\ host[d].st # "closed"
    BY <1>3 DEF Outside
  <2>2. UNCHANGED <<proc, netdata, lost>>
    BY <1>3 DEF Outside
  <2>3. host' \in [HostFds -> Sockets] /\ Alike(host', NoFd)
    BY <1>a, <2>1, StateSet DEF States
  <2>4. TypeOK'
    BY <1>a, <2>2, <2>3 DEF TypeOK
  <2> QED BY <2>2, <2>3, <2>4, QuietStep
<1> QED BY <1>1, <1>2, <1>3

LEMMA EndStep ==
  ASSUME Inv, NEW c \in Vcpus, End(c)
  PROVE  Inv'
<1>a. TypeOK /\ Die(c, netdata[c], host, lost \cup Connecting(c))
  BY DEF Inv, End
<1>1. CASE Connecting(c) = {}
  <2>1. Sound(c, Awake, netdata[c], host, lost \cup Connecting(c))
    BY <1>1, NothingDone
  <2> QED BY <1>a, <2>1, DieSound
<1>2. CASE Connecting(c) # {}
  <2>1. PICK d : Connecting(c) = {d}
    BY <1>2 DEF Connecting
  <2>2. d \in HostFds /\ InUse(c, d)
    BY <1>a, <2>1, Places DEF InUse
  <2>3. Passing(c, d) /\ host[d] # Closed
    BY <2>1, <2>2 DEF Passing, Inv, SocketsAddUp
  <2>4. Sound(c, Awake, netdata[c], host, lost \cup {d})
    BY <1>a, <2>3, SameHost, GoneSound
  <2>5. Die(c, netdata[c], host, lost \cup {d})
    BY <1>a, <2>1
  <2> QED BY <2>4, <2>5, DieSound
<1> QED BY <1>1, <1>2

LEMMA RefusedStep ==
  ASSUME Inv, NEW c \in Vcpus, Refused(c)
  PROVE  Inv'
<1>1. TypeOK /\ Connecting(c) = {} /\ Raise(c, netdata[c], host, lost)
  BY RunsOn DEF Inv, Refused
<1> QED BY <1>1, NothingDone, RaiseSound

LEMMA AbandonStep ==
  ASSUME Inv, NEW c \in Vcpus, Abandon(c)
  PROVE  Inv'
<1> DEFINE d == LowestFd
           s == Socket("none", "failed")
           h == [host EXCEPT ![d] = s]
<1>1. TypeOK /\ Connecting(c) = {} /\ Raise(c, netdata[c], h, lost \cup {d})
  BY RunsOn DEF Inv, Abandon
<1>2. d \in HostFds /\ host[d] = Closed
  BY LowestIsFree DEF Abandon
<1>3. s \in Sockets /\ s # Closed
  BY SocketTypes DEF Socket, Closed, States
<1> HIDE DEF d, s
<1>4. h \in [HostFds -> Sockets] /\ h[d] = s /\ Alike(h, d)
  BY <1>1, <1>2, <1>3, SocketSet
<1>5. Passing(c, d)
  BY <1>1, <1>2 DEF Passing
<1> HIDE DEF h
<1>6. Sound(c, Awake, netdata[c], h, lost \cup {d})
  BY <1>3, <1>4, <1>5, GoneSound
<1> QED BY <1>1, <1>6, RaiseSound

LEMMA ListenStep ==
  ASSUME Inv, NEW c \in Vcpus, NEW p \in Protocols, Listen(c, p)
  PROVE  Inv'
<1> DEFINE d == LowestFd
           s == Socket(Listening(p), IF p = "tcp" THEN "listening" ELSE "open")
           h == [host EXCEPT ![d] = s]
           entry == Registered(netdata[c], LookForSd(c), d, Listening(p))
<1>1. /\ TypeOK /\ Connecting(c) = {} /\ EnterWait(c, Awake) /\ FreeSds(c) # {}
      /\ host' = h /\ netdata' = [netdata EXCEPT ![c] = entry] /\ lost' = lost
  BY RunsOn DEF Inv, Listen
<1>2. d \in HostFds /\ host[d] = Closed
  BY LowestIsFree DEF Listen
<1>3. Listening(p) \in Roles
  BY SocketTypes
<1>4. s \in Sockets /\ s # Closed /\ s.role = Listening(p)
  BY <1>3, SocketTypes DEF Socket, Closed, States
<1> HIDE DEF d, s
<1>5. h \in [HostFds -> Sockets] /\ h[d] = s /\ Alike(h, d)
  BY <1>1, <1>2, <1>4, SocketSet
<1>6. Passing(c, d)
  BY <1>1, <1>2 DEF Passing
<1> HIDE DEF h
<1>7. Sound(c, Awake, entry, h, lost)
  BY <1>1, <1>3, <1>4, <1>5, <1>6, NewSound
<1> QED BY <1>1, <1>7, WaitStep

LEMMA ConnectStep ==
  ASSUME Inv, NEW c \in Vcpus, NEW p \in Protocols, Connect(c, p)
  PROVE  Inv'
<1> DEFINE d == LowestFd
<1>1. TypeOK /\ Connecting(c) = {} /\ FreeSds(c) # {} /\ lost' = lost
  BY RunsOn DEF Inv, Connect
<1>2. d \in HostFds /\ host[d] = Closed
  BY LowestIsFree DEF Connect
<1>3. Connected(p) \in Roles
  BY SocketTypes
<1>4. \A st \in {"open", "connecting"} :
        LET s == Socket(Connected(p), st) IN s \in Sockets /\ s # Closed /\ s.role = Connected(p)
  BY <1>3, SocketTypes DEF Socket, Closed, States
<1>5. Passing(c, d)
  BY <1>1, <1>2 DEF Passing
<1>6. CASE /\ host' = [host EXCEPT ![d] = Socket(Connected(p), "open")]
           /\ netdata' = [netdata EXCEPT ![c] = Registered(netdata[c], LookForSd(c), d, Connected(p))]
           /\ UNCHANGED proc
  <2> DEFINE s == Socket(Connected(p), "open")
             h == [host EXCEPT ![d] = s]
             entry == Registered(netdata[c], LookForSd(c), d, Connected(p))
  <2>1. EnterWait(c, Awake)
    BY <1>1, <1>6, RunsOn DEF Connect
  <2>2. s \in Sockets /\ s # Closed /\ s.role = Connected(p)
    BY <1>4
  <2>3. host' = h /\ netdata' = [netdata EXCEPT ![c] = entry]
    BY <1>6
  <2> HIDE DEF d, s
  <2>4. h \in [HostFds -> Sockets] /\ h[d] = s /\ Alike(h, d)
    BY <1>1, <1>2, <2>2, SocketSet
  <2> HIDE DEF h
  <2>5. Sound(c, Awake, entry, h, lost)
    BY <1>1, <1>3, <1>5, <2>2, <2>4, NewSound
  <2> QED BY <1>1, <2>1, <2>3, <2>5, WaitStep
<1>7. CASE /\ p = "tcp"
           /\ host' = [host EXCEPT ![d] = Socket(Connected(p), "connecting")]
           /\ \E time \in ConnTimes :
                EnterWait(c, [for |-> "conn", id |-> d, time |-> time])
           /\ UNCHANGED netdata
  <2> DEFINE s == Socket(Connected(p), "connecting")
             h == [host EXCEPT ![d] = s]
  <2>1. PICK time \in ConnTimes :
          EnterWait(c, [for |-> "conn", id |-> d, time |-> time])
    BY <1>7
  <2>2. \E now, u4 \in Nat : time = [now |-> now, u4 |-> u4]
    <3>1. CASE time = NoLimit
      BY <3>1 DEF NoLimit
    <3>2. ASSUME NEW l \in Limits, NEW now \in 0 .. Second - 1, time = Limited(l, now)
          PROVE  \E x, u4 \in Nat : time = [now |-> x, u4 |-> u4]
      <4>1. now \in Nat /\ now + l \in Nat
        BY NetworkAssumption
      <4> QED BY <3>2, <4>1 DEF Limited
    <3> QED BY <2>1, <3>1, <3>2 DEF ConnTimes
  <2> DEFINE w == [for |-> "conn", id |-> d, time |-> time]
  <2>3. w \in Waits /\ w.for = "conn" /\ w.id = d
    BY <1>2, <2>2, WaitTypes
  <2>8. EnterWait(c, w)
    BY <2>1
  <2>4. s \in Sockets /\ s # Closed /\ s.role = "CONNECTED_TCP"
    BY <1>4, <1>7 DEF Connected
  <2>5. host' = h /\ netdata' = [netdata EXCEPT ![c] = netdata[c]]
    BY <1>1, <1>7, SameEntry
  <2> HIDE DEF d, s
  <2>6. h \in [HostFds -> Sockets] /\ h[d] = s /\ Alike(h, d)
    BY <1>1, <1>2, <2>4, SocketSet
  <2> HIDE DEF h, w
  <2>7. Sound(c, w, netdata[c], h, lost)
    BY <1>1, <1>2, <1>5, <2>3, <2>4, <2>6, ConnectingSound
  <2>9. host' = h /\ netdata' = [netdata EXCEPT ![c] = netdata[c]] /\ lost' = lost
    BY <1>1, <2>5
  <2> QED BY <2>7, <2>8, <2>9, WaitStep
<1> HIDE DEF d
<1> QED BY <1>6, <1>7 DEF Connect, d

LEMMA TakeStep ==
  ASSUME Inv, NEW c \in Vcpus, NEW l \in HostFds, FreeSds(c) # {}, Connecting(c) = {}, Take(c, l)
  PROVE  Inv'
<1> DEFINE d == LowestFd
           h == Accepted(l, d)
           entry == Registered(netdata[c], LookForSd(c), d, "CONNECTED_TCP")
<1>1. TypeOK
  BY DEF Inv
<1>2. d \in HostFds /\ host[d] = Closed
  BY LowestIsFree DEF Take
<1>3. CASE /\ host' = h /\ netdata' = [netdata EXCEPT ![c] = entry] /\ WakeUp(c) /\ UNCHANGED lost
  <2>1. h \in [HostFds -> Sockets] /\ Alike(h, d) /\ h[d] # Closed /\ h[d].role = "CONNECTED_TCP"
    BY <1>1, <1>2, AcceptedSet DEF Take
  <2>2. Passing(c, d)
    BY <1>2 DEF Passing
  <2>3. "CONNECTED_TCP" \in Roles
    BY SocketTypes
  <2> HIDE DEF d, h
  <2>4. Sound(c, Awake, entry, h, lost)
    BY <2>1, <2>2, <2>3, NewSound
  <2> QED BY <1>3, <2>4, WaitStep DEF WakeUp
<1>4. CASE Raise(c, netdata[c], h, lost \cup {d})
  <2>1. h \in [HostFds -> Sockets] /\ Alike(h, d) /\ h[d] # Closed
    BY <1>1, <1>2, AcceptedSet DEF Take
  <2>2. Passing(c, d)
    BY <1>2 DEF Passing
  <2> HIDE DEF d, h
  <2>3. Sound(c, Awake, netdata[c], h, lost \cup {d})
    BY <2>1, <2>2, GoneSound
  <2> QED BY <1>4, <2>3, RaiseSound
<1> QED BY <1>3, <1>4 DEF Take

\* c falls asleep, or wakes up.
LEMMA WaitOnly ==
  ASSUME Inv, NEW c \in Vcpus, Connecting(c) = {}, NEW wait \in Waits, ConnOf(wait) = {},
         wait.for = "client" => FreeSds(c) # {},
         EnterWait(c, wait), UNCHANGED <<netdata, lost>>,
         host' \in [HostFds -> Sockets], Alike(host', NoFd)
  PROVE  Inv'
<1>1. TypeOK /\ netdata[c] \in Entries /\ netdata' = [netdata EXCEPT ![c] = netdata[c]]
  BY SameEntry DEF Inv, TypeOK
<1>2. Sound(c, wait, netdata[c], host', lost)
  BY <1>1, StillSound
<1> QED BY <1>1, <1>2, WaitStep

LEMMA AcceptStep ==
  ASSUME Inv, NEW c \in Vcpus, NEW n \in Sds, Accept(c, n)
  PROVE  Inv'
<1> DEFINE l == netdata[c].sd[n]
<1>1. TypeOK /\ Connecting(c) = {} /\ FreeSds(c) # {} /\ l \in HostFds
  BY RunsOn, SdType DEF Inv, Accept
<1>2. CASE Take(c, l)
  BY <1>1, <1>2, TakeStep
<1>3. CASE /\ EnterWait(c, [for |-> "client", id |-> l])
           /\ UNCHANGED <<netdata, host, lost>>
  <2> DEFINE wait == [for |-> "client", id |-> l]
  <2>1. wait \in Waits /\ ConnOf(wait) = {}
    BY <1>1, WaitTypes DEF ConnOf
  <2>2. host' \in [HostFds -> Sockets] /\ Alike(host', NoFd)
    BY <1>1, <1>3, SameHost
  <2> HIDE DEF wait
  <2> QED BY <1>1, <1>3, <2>1, <2>2, WaitOnly DEF wait
<1> QED BY <1>2, <1>3 DEF Accept

LEMMA ShutdownStep ==
  ASSUME Inv, NEW c \in Vcpus, NEW n \in Sds, Shutdown(c, n)
  PROVE  Inv'
<1>1. TypeOK /\ Connecting(c) = {} /\ EnterWait(c, Awake)
  BY RunsOn DEF Inv, Shutdown
<1>2. Sound(c, Awake, Unregistered(netdata[c], n), [host EXCEPT ![netdata[c].sd[n]] = Closed], lost)
  BY <1>1, ClosingSound DEF Shutdown
<1> QED BY <1>1, <1>2, WaitStep DEF Shutdown

LEMMA EndedStep ==
  ASSUME Inv, NEW c \in Vcpus, NEW n \in Sds, NEW d \in HostFds, Connecting(c) = {},
         Ended(c, n, d)
  PROVE  Inv'
<1> DEFINE entry == [netdata[c] EXCEPT !.flags[n] = {}]
           h == AfterRecv(d)
<1>1. TypeOK /\ netdata[c] \in Entries
  BY SdType DEF Inv
<1>2. /\ entry \in Entries /\ entry.sd = netdata[c].sd
      /\ \A k \in Sds : entry.flags[k] \subseteq netdata[c].flags[k]
  BY <1>1 DEF Entries
<1>3. h \in [HostFds -> Sockets] /\ Alike(h, NoFd)
  BY <1>1, AfterRecvSet
<1>4. Awake \in Waits /\ ConnOf(Awake) = {} /\ Awake.for # "client"
  BY WaitTypes DEF ConnOf, Awake
<1>5. Raise(c, entry, h, lost)
  BY DEF Ended
<1> HIDE DEF entry, h
<1>6. Sound(c, Awake, entry, h, lost)
  BY <1>2, <1>3, <1>4, StillSound
<1> QED BY <1>5, <1>6, RaiseSound

\* What wakes or stops a process that has neither changed its descriptors nor
\* connects anything
LEMMA WakeStep ==
  ASSUME Inv, NEW c \in Vcpus, Connecting(c) = {},
         \/ WakeUp(c) /\ UNCHANGED <<netdata, host, lost>>
         \/ Raise(c, netdata[c], host, lost)
  PROVE  Inv'
<1>1. CASE WakeUp(c) /\ UNCHANGED <<netdata, host, lost>>
  <2>1. Awake \in Waits /\ ConnOf(Awake) = {} /\ Awake.for # "client"
    BY WaitTypes DEF ConnOf, Awake
  <2>2. host' \in [HostFds -> Sockets] /\ Alike(host', NoFd)
    BY <1>1, SameHost DEF Inv
  <2> QED BY <1>1, <2>1, <2>2, WaitOnly DEF WakeUp
<1>2. CASE Raise(c, netdata[c], host, lost)
  BY <1>2, NothingDone, RaiseSound
<1> QED BY <1>1, <1>2

\* What is there is taken, and the process goes on.
LEMMA TakenStep ==
  ASSUME Inv, NEW c \in Vcpus, Connecting(c) = {}, NEW d \in HostFds,
         EnterWait(c, Awake), host' = AfterRecv(d), UNCHANGED <<netdata, lost>>
  PROVE  Inv'
<1>1. Awake \in Waits /\ ConnOf(Awake) = {} /\ Awake.for # "client"
  BY WaitTypes DEF ConnOf, Awake
<1>2. host' \in [HostFds -> Sockets] /\ Alike(host', NoFd)
  BY AfterRecvSet DEF Inv
<1> QED BY <1>1, <1>2, WaitOnly

LEMMA SleepStep ==
  ASSUME Inv, NEW c \in Vcpus, Connecting(c) = {}, NEW wait \in Waits,
         wait.for \in {"recv", "send", "event"},
         EnterWait(c, wait), UNCHANGED <<netdata, host, lost>>
  PROVE  Inv'
<1>1. ConnOf(wait) = {} /\ wait.for # "client"
  BY DEF ConnOf
<1>2. host' \in [HostFds -> Sockets] /\ Alike(host', NoFd)
  BY SameHost DEF Inv
<1> QED BY <1>1, <1>2, WaitOnly

LEMMA RecvStep ==
  ASSUME Inv, NEW c \in Vcpus, NEW n \in Sds, Recv(c, n)
  PROVE  Inv'
<1> DEFINE d == netdata[c].sd[n]
<1>1. TypeOK /\ Connecting(c) = {} /\ d \in HostFds
  BY RunsOn, SdType DEF Inv, Recv, Carries
<1>2. CASE host' = AfterRecv(d) /\ UNCHANGED <<proc, netdata, lost>>
  <2>1. EnterWait(c, Awake)
    BY <1>1, <1>2, RunsOn DEF Recv
  <2> HIDE DEF d
  <2> QED BY <1>1, <1>2, <2>1, TakenStep
<1>3. CASE Ended(c, n, d)
  <2> HIDE DEF d
  <2> QED BY <1>1, <1>3, EndedStep
<1>4. CASE EnterWait(c, [for |-> "recv", id |-> d, u0 |-> n]) /\ UNCHANGED <<netdata, host, lost>>
  <2> DEFINE w == [for |-> "recv", id |-> d, u0 |-> n]
  <2>1. w \in Waits /\ w.for = "recv"
    BY <1>1, WaitTypes
  <2>2. EnterWait(c, w)
    BY <1>4
  <2> HIDE DEF w
  <2> QED BY <1>1, <1>4, <2>1, <2>2, SleepStep
<1> QED BY <1>2, <1>3, <1>4 DEF Recv

LEMMA SendStep ==
  ASSUME Inv, NEW c \in Vcpus, NEW n \in Sds, Send(c, n)
  PROVE  Inv'
<1> DEFINE w == [for |-> "send", id |-> netdata[c].sd[n]]
<1>1. TypeOK /\ Connecting(c) = {} /\ netdata[c].sd[n] \in HostFds
  BY RunsOn, SdType DEF Inv, Send, Carries
<1>2. w \in Waits /\ w.for = "send"
  BY <1>1, WaitTypes
<1>3. EnterWait(c, w) /\ UNCHANGED <<netdata, host, lost>>
  BY DEF Send
<1> HIDE DEF w
<1> QED BY <1>1, <1>2, <1>3, SleepStep

LEMMA EventStep ==
  ASSUME Inv, NEW c \in Vcpus, Event(c)
  PROVE  Inv'
<1> DEFINE w == [for |-> "event", id |-> NoFd]
<1>1. TypeOK /\ Connecting(c) = {}
  BY RunsOn DEF Inv, Event
<1>2. w \in Waits /\ w.for = "event"
  BY WaitTypes
<1>3. EnterWait(c, w) /\ UNCHANGED <<netdata, host, lost>>
  BY DEF Event
<1> HIDE DEF w
<1> QED BY <1>1, <1>2, <1>3, SleepStep

LEMMA WaitForConnStep ==
  ASSUME Inv, NEW c \in Vcpus, WaitForConn(c)
  PROVE  Inv'
<1> DEFINE d == proc[c].wait.id
           entry == Registered(netdata[c], LookForSd(c), d, "CONNECTED_TCP")
           h == [host EXCEPT ![d] = Closed]
<1>1. TypeOK /\ proc[c].wait.for = "conn" /\ proc[c].wait \in Waits /\ Connecting(c) = {d}
  BY DEF Inv, TypeOK, WaitForConn, Connecting
<1>2. d \in HostFds
  BY <1>1, WaitParts
<1>3. Passing(c, d) /\ InUse(c, d)
  BY <1>1, <1>2 DEF Passing, InUse
<1>4. host[d] # Closed /\ d \notin lost
  BY <1>2, <1>3 DEF Inv, SocketsAddUp
<1>5. FreeSds(c) # {} /\ host[d].role = "CONNECTED_TCP"
  BY <1>1 DEF Inv, Waiters, FreeSds
<1> HIDE DEF d
<1>6. CASE Raise(c, netdata[c], h, lost)
  <2>1. h \in [HostFds -> Sockets] /\ h[d] = Closed /\ Alike(h, d)
    BY <1>1, <1>2, SocketTypes, SocketSet
  <2> HIDE DEF h
  <2>2. Sound(c, Awake, netdata[c], h, lost)
    BY <1>3, <1>4, <2>1, GoneSound
  <2> QED BY <1>6, <2>2, RaiseSound
<1>7. CASE Raise(c, netdata[c], host, lost \cup {d})
  <2>1. Sound(c, Awake, netdata[c], host, lost \cup {d})
    BY <1>1, <1>3, <1>4, SameHost, GoneSound
  <2> QED BY <1>7, <2>1, RaiseSound
<1>8. CASE /\ netdata' = [netdata EXCEPT ![c] = entry] /\ WakeUp(c) /\ UNCHANGED <<host, lost>>
  <2>1. "CONNECTED_TCP" \in Roles
    BY SocketTypes
  <2>2. Sound(c, Awake, entry, host, lost)
    BY <1>1, <1>3, <1>4, <1>5, <2>1, SameHost, NewSound
  <2> QED BY <1>8, <2>2, WaitStep DEF WakeUp
<1> QED BY <1>6, <1>7, <1>8 DEF WaitForConn, d

LEMMA WaitForClientStep ==
  ASSUME Inv, NEW c \in Vcpus, WaitForClient(c)
  PROVE  Inv'
<1> DEFINE l == proc[c].wait.id
<1>1. TypeOK /\ proc[c].wait \in Waits /\ proc[c].wait.for = "client"
  BY DEF Inv, TypeOK, WaitForClient
<1>2. Connecting(c) = {} /\ l \in HostFds /\ FreeSds(c) # {}
  BY <1>1, WaitParts DEF Connecting, Inv, Waiters, FreeSds
<1>3. CASE Take(c, l)
  BY <1>2, <1>3, TakeStep
<1>4. CASE Raise(c, netdata[c], host, lost)
  BY <1>2, <1>4, WakeStep
<1> QED BY <1>3, <1>4 DEF WaitForClient

LEMMA WaitForRecvStep ==
  ASSUME Inv, NEW c \in Vcpus, WaitForRecv(c)
  PROVE  Inv'
<1> DEFINE d == proc[c].wait.id
           n == proc[c].wait.u0
<1>1. TypeOK /\ proc[c].wait \in Waits /\ proc[c].wait.for = "recv"
  BY DEF Inv, TypeOK, WaitForRecv
<1>2. Connecting(c) = {} /\ d \in HostFds /\ n \in Sds
  BY <1>1, WaitParts DEF Connecting
<1>3. CASE host' = AfterRecv(d) /\ WakeUp(c) /\ UNCHANGED <<netdata, lost>>
  <2> HIDE DEF d
  <2> QED BY <1>2, <1>3, TakenStep DEF WakeUp
<1>4. CASE Ended(c, n, d)
  <2> HIDE DEF d, n
  <2> QED BY <1>2, <1>4, EndedStep
<1>5. CASE Raise(c, netdata[c], host, lost)
  BY <1>2, <1>5, WakeStep
<1> QED BY <1>3, <1>4, <1>5 DEF WaitForRecv

LEMMA WaitForSendStep ==
  ASSUME Inv, NEW c \in Vcpus, WaitForSend(c)
  PROVE  Inv'
<1>1. Connecting(c) = {}
  BY DEF WaitForSend, Connecting
<1>2. \/ WakeUp(c) /\ UNCHANGED <<netdata, host, lost>>
      \/ Raise(c, netdata[c], host, lost)
  BY DEF WaitForSend
<1> QED BY <1>1, <1>2, WakeStep

LEMMA WaitEventStep ==
  ASSUME Inv, NEW c \in Vcpus, WaitEvent(c)
  PROVE  Inv'
<1>1. Connecting(c) = {}
  BY DEF WaitEvent, Connecting
<1>2. \/ WakeUp(c) /\ UNCHANGED <<netdata, host, lost>>
      \/ Raise(c, netdata[c], host, lost)
  BY DEF WaitEvent
<1> QED BY <1>1, <1>2, WakeStep

LEMMA InitInv ==
  ASSUME Init
  PROVE  Inv
<1>1. TypeOK
  <2>1. Closed \in Sockets /\ Vacant \in [used : BOOLEAN, wait : Waits]
    BY SocketTypes, WaitTypes DEF Vacant
  <2>2. [sd |-> [n \in Sds |-> NoFd], flags |-> [n \in Sds |-> {}], fds |-> {}] \in Entries
    BY DEF Entries
  <2> QED BY <2>1, <2>2 DEF Init, TypeOK
<1>2. \A c \in Vcpus : /\ Connecting(c) = {} /\ proc[c].wait.for = "nothing"
                       /\ \A n \in Sds : netdata[c].sd[n] = NoFd /\ netdata[c].flags[n] = {}
  BY DEF Init, Vacant, Awake, Connecting
<1>3. \A c \in Vcpus : Owned(netdata[c]) = {}
  BY <1>2 DEF Owned
<1>4. lost = {} /\ \A d \in HostFds : host[d] = Closed
  BY DEF Init
<1>5. SocketsAddUp
  BY <1>2, <1>3, <1>4 DEF SocketsAddUp, InUse
<1>6. FlagsTellKind
  BY <1>2 DEF FlagsTellKind
<1>7. Waiters
  BY <1>2 DEF Waiters
<1> QED BY <1>1, <1>5, <1>6, <1>7 DEF Inv

LEMMA NextInv ==
  ASSUME Inv, [Next]_vars
  PROVE  Inv'
<1>1. CASE UNCHANGED vars
  <2>1. UNCHANGED <<netdata, lost, host, proc>> /\ Alike(host', NoFd)
    BY <1>1 DEF vars, Alike
  <2>2. TypeOK'
    BY <2>1 DEF Inv, TypeOK
  <2> QED BY <2>1, <2>2, QuietStep
<1>2. ASSUME NEW c \in Vcpus, Syscall(c)
      PROVE  Inv'
  BY <1>2, RefusedStep, AbandonStep, EventStep, ListenStep, ConnectStep, AcceptStep,
     ShutdownStep, RecvStep, SendStep DEF Syscall
<1>3. ASSUME NEW c \in Vcpus, Poll(c)
      PROVE  Inv'
  BY <1>3, WaitForConnStep, WaitForClientStep, WaitForRecvStep, WaitForSendStep,
     WaitEventStep DEF Poll
<1> QED BY <1>1, <1>2, <1>3, QuietSteps, EndStep DEF Next

LEMMA InvHolds == Spec => []Inv
<1> QED BY InitInv, NextInv, PTL DEF Spec

-----------------------------------------------------------------------------
\* Descriptors, waits and sockets keep their types: a wait names a socket of
\* the host, and a descriptor one of the host's or none (network.c).
THEOREM TypeCorrect == Spec => []TypeOK
<1>1. Inv => TypeOK
  BY DEF Inv
<1> QED BY <1>1, InvHolds, PTL

\* However syscalls, waits, ends and the other sides interleave, every open
\* socket of the host has exactly one place: a descriptor, a connection that is
\* being made, or the sockets the code loses (network.c:200-285,330-475,620-720).
THEOREM SocketsStayAccounted == Spec => []SocketsAddUp
<1>1. Inv => SocketsAddUp
  BY DEF Inv
<1> QED BY <1>1, InvHolds, PTL

\* The flags of a descriptor never speak of another socket than its own, so
\* that every check of a syscall is of the socket it acts on (network.c:735-760).
THEOREM FlagsAreTrue == Spec => []FlagsTellKind
<1>1. Inv => FlagsTellKind
  BY DEF Inv
<1> QED BY <1>1, InvHolds, PTL
=============================================================================
