---------------------------- MODULE IpcMsg_proofs ----------------------------
(***************************************************************************)
(* Theorems about IpcMsg: its types, the soundness of its lists, that      *)
(* sleepers can be answered and miss nothing, that queue elements add up,  *)
(* and that requests are the exchanges of Exchange.  All rest on one       *)
(* inductive invariant, IInv, of which Keeps is the core.                  *)
(***************************************************************************)
EXTENDS IpcMsg, TLAPS, SequenceTheorems, FiniteSetTheorems, WellFoundedInduction

(* The parts of the invariant, of a state t and a history h; the processes *)
(* of D and the requests of E are exempt in the middle of a call.          *)

In(t, c) == ToSet(t.incoming[c])
Own(t, c) == ToSet(t.own[c])
Dozes(t, i) == t.req[i].live /\ "SENDERSLEEP" \in t.req[i].flags

\* Nothing is on a list twice.
Lists(t) ==
  /\ IsInjective(t.sleepers)
  /\ \A c \in Cpus : IsInjective(t.incoming[c]) /\ IsInjective(t.own[c])

\* What is queued lives, and its receiver does, and has not had it.
Elements(t, h) ==
  \A c \in Cpus : \A i \in In(t, c) :
    t.req[i].live /\ c \notin h[i] /\ t.req[i].s # c /\ t.cpu[c].used

\* What is on a process's list is its own.
Owned(t) ==
  \A c \in Cpus : \A i \in Own(t, c) : t.req[i].live /\ t.req[i].s = c /\ t.cpu[c].used

\* A request is younger than next_id, and none has a past before it is made.
Numbered(t, h) ==
  \A i \in Ids :
    /\ t.req[i].live => i < t.next_id /\ t.req[i].s \in Cpus
    /\ i >= t.next_id => h[i] = {} /\ t.req[i].first = AnyVcpu

\* Who sleeps for an answer does so by one request, which has targets.
Waiting(t, D, E) ==
  /\ \A i \in Ids : Dozes(t, i) =>
       /\ i \notin E => Targets(t, i) # {}
       /\ i \in Own(t, t.req[i].s)
       /\ t.cpu[t.req[i].s].wait = "send" /\ "NONBLOCK" \notin t.req[i].flags
  /\ \A i, j \in Ids : Dozes(t, i) /\ Dozes(t, j) /\ t.req[i].s = t.req[j].s => i = j
  /\ \A c \in Cpus \ D : t.cpu[c].wait = "send" => \E i \in Own(t, c) : Dozes(t, i)

\* Who sleeps for a message is among the sleepers, with nothing to receive.
Receiving(t, D) ==
  /\ \A c \in Cpus : c \in ToSet(t.sleepers) <=> t.cpu[c].wait = "recv" /\ c \notin D
  /\ \A c \in Cpus \ D : t.cpu[c].wait = "recv" /\ c \notin t.cut
       => \A i \in In(t, c) : i \notin Own(t, t.req[i].s)

\* The first receiver is one of them, and ACCEPTED says that there is one.
Named(t, h) ==
  \A i \in Ids :
    /\ h[i] = {} => t.req[i].first = AnyVcpu
    /\ h[i] # {} => t.req[i].first \in h[i]
    /\ t.req[i].live => ("ACCEPTED" \in t.req[i].flags <=> h[i] # {})

\* What has ended is queued for nobody.
Done(t) ==
  \A i \in Ids :
    /\ t.req[i].live
    /\ "COMPLETED" \in t.req[i].flags \/ ("ERROR" \in t.req[i].flags /\ "NONBLOCK" \notin t.req[i].flags)
    => Targets(t, i) = {}

AddsUp(t) == Allocated(t) = Cardinality(Queued(t)) + t.free + t.lost

Keeps(t, h, D, E) ==
  /\ Lists(t) /\ Elements(t, h) /\ Owned(t) /\ Numbered(t, h)
  /\ Waiting(t, D, E) /\ Receiving(t, D) /\ Named(t, h) /\ Done(t) /\ AddsUp(t)

-----------------------------------------------------------------------------
(* The states, with a name for each field's set; and what a step leaves    *)

VcpuTables == [Cpus -> Vcpus]
RequestTables == [Ids -> Requests]
ListTables == [Cpus -> Seq(Ids)]
Counts == 0 .. MaxRequests
StartCounts == 0 .. MaxStarts
BlockCounts == 0 .. QueueBlocks
CpuLists == Seq(Cpus)
CpuSets == SUBSET Cpus
Wrecks == {"none", "freed with targets", "list cut off"}
Machine ==
  [cpu : VcpuTables, req : RequestTables, next_id : Counts, starts : StartCounts,
   own : ListTables, incoming : ListTables, sleepers : CpuLists,
   free : Nat, blocks : BlockCounts, lost : Nat, fatal : BOOLEAN, cut : CpuSets, wreck : Wrecks,
   twice : BOOLEAN]

SameProcesses(s, t) == t.cpu = s.cpu /\ t.sleepers = s.sleepers /\ t.cut = s.cut
SameElements(s, t) ==
  t.incoming = s.incoming /\ t.free = s.free /\ t.blocks = s.blocks /\ t.lost = s.lost
SameRequests(s, t) == t.req = s.req /\ t.next_id = s.next_id
SameOwn(s, t) == t.own = s.own
SameWreck(s, t) == t.wreck = s.wreck /\ t.twice = s.twice

LEMMA Machines == States = Machine
  BY DEF States, Machine, VcpuTables, RequestTables, ListTables, Counts, StartCounts,
         BlockCounts, CpuLists, CpuSets, Wrecks

LEMMA Fields ==
  ASSUME NEW s \in Machine
  PROVE  /\ s.cpu \in VcpuTables /\ s.req \in RequestTables /\ s.next_id \in Counts
         /\ s.starts \in StartCounts
         /\ s.own \in ListTables /\ s.incoming \in ListTables /\ s.sleepers \in CpuLists
         /\ s.free \in Nat /\ s.blocks \in BlockCounts /\ s.lost \in Nat
         /\ s.fatal \in BOOLEAN /\ s.cut \in CpuSets /\ s.wreck \in Wrecks
         /\ s.twice \in BOOLEAN
  BY DEF Machine

-----------------------------------------------------------------------------
(* Loops and lists *)

\* Every set of numbers has a least element.
LEMMA Smallest ==
  ASSUME NEW N \in SUBSET Nat, N # {}
  PROVE  \E n \in N : \A i \in N : n <= i
<1>1. IsWellFoundedOn(OpToRel(<, Nat), Nat)
  BY NatLessThanWellFounded
<1>2. PICK n \in N : \A i \in N : ~ (<<i, n>> \in OpToRel(<, Nat))
  BY <1>1, WFMin
<1>3. \A i \in N : ~ (i < n)
  BY <1>2 DEF OpToRel
<1> QED BY <1>3

\* What holds at the start of a loop and is carried from turn to turn holds at
\* its end: P[n] are the states that may follow n turns.
LEMMA Climbs ==
  ASSUME NEW N \in Nat, NEW P, NEW f, f[0] \in P[0],
         \A n \in 1 .. N : f[n - 1] \in P[n - 1] => f[n] \in P[n]
  PROVE  \A n \in 0 .. N : f[n] \in P[n]
<1> DEFINE Bad == {n \in 0 .. N : f[n] \notin P[n]}
<1> SUFFICES ASSUME Bad # {} PROVE FALSE
  OBVIOUS
<1>1. Bad \in SUBSET Nat
  OBVIOUS
<1>2. PICK b \in Bad : \A n \in Bad : b <= n
  BY <1>1, Smallest
<1>3. b \in 1 .. N /\ b - 1 \in 0 .. N
  BY <1>2
<1>4. b - 1 \notin Bad
  BY <1>2, <1>3
<1> QED BY <1>2, <1>3, <1>4

\* A loop of N turns over states of T, of which F is the body, has a run from s.
HasRun(N, T, s, F) ==
  \E g \in [0 .. N -> T] : g[0] = s /\ \A n \in 1 .. N : g[n] = F[<<g[n - 1], n>>]

LEMMA LoopRuns ==
  ASSUME NEW N \in Nat, NEW T, NEW s \in T, NEW F \in [T \X (1 .. N) -> T]
  PROVE  HasRun(N, T, s, F)
<1> DEFINE Partial(k, g) ==
      g[0] = s /\ \A n \in 1 .. k : g[n] = F[<<g[n - 1], n>>]
<1> DEFINE Good == {k \in 0 .. N : \E g \in [0 .. k -> T] : Partial(k, g)}
<1> DEFINE Bad == (0 .. N) \ Good
<1>1. Bad = {}
  <2> SUFFICES ASSUME Bad # {} PROVE FALSE
    OBVIOUS
  <2>1. Bad \in SUBSET Nat
    OBVIOUS
  <2>2. PICK b \in Bad : \A n \in Bad : b <= n
    BY <2>1, Smallest
  <2>3. b # 0
    <3> DEFINE g == [n \in 0 .. 0 |-> s]
    <3>1. g \in [0 .. 0 -> T] /\ Partial(0, g)
      OBVIOUS
    <3> QED BY <3>1, <2>2
  <2>4. b \in 1 .. N /\ b - 1 \in 0 .. N
    BY <2>2, <2>3
  <2>5. b - 1 \in Good
    BY <2>2, <2>4
  <2>6. PICK g \in [0 .. b - 1 -> T] : Partial(b - 1, g)
    BY <2>5
  <2> DEFINE h == [n \in 0 .. b |-> IF n = b THEN F[<<g[b - 1], b>>] ELSE g[n]]
  <2>7. g[b - 1] \in T
    BY <2>4
  <2>8. F[<<g[b - 1], b>>] \in T
    BY <2>4, <2>7
  <2>9. h \in [0 .. b -> T]
    BY <2>4, <2>8
  <2>10. h[0] = s
    BY <2>4, <2>6
  <2>11. ASSUME NEW n \in 1 .. b PROVE h[n] = F[<<h[n - 1], n>>]
    <3>1. CASE n = b
      <4>1. n - 1 \in 0 .. b /\ n - 1 # b /\ n \in 0 .. b
        BY <3>1, <2>4
      <4>2. h[n] = F[<<g[b - 1], b>>] /\ h[n - 1] = g[b - 1]
        BY <4>1, <3>1
      <4> HIDE DEF h
      <4> QED BY <4>2, <3>1
    <3>2. CASE n # b
      <4>1. n \in 1 .. b - 1 /\ n - 1 \in 0 .. b - 1 /\ n - 1 # b /\ n \in 0 .. b /\ n - 1 \in 0 .. b
        BY <3>2, <2>4
      <4>2. h[n] = g[n] /\ h[n - 1] = g[n - 1]
        BY <4>1, <3>2
      <4> QED BY <4>1, <4>2, <2>6
    <3> QED BY <3>1, <3>2
  <2>12. Partial(b, h)
    BY <2>10, <2>11
  <2> HIDE DEF h, Partial
  <2>13. b \in Good
    BY <2>4, <2>9, <2>12
  <2> QED BY <2>2, <2>13
<1>2. N \in Good
  <2> HIDE DEF Good
  <2>1. N \in 0 .. N
    OBVIOUS
  <2> QED BY <1>1, <2>1
<1> QED BY <1>2 DEF HasRun

\* A list without the elements of R.
LEMMA WithoutFacts ==
  ASSUME NEW S, NEW q \in Seq(S), NEW R
  PROVE  /\ Without(q, R) \in Seq(S)
         /\ ToSet(Without(q, R)) = ToSet(q) \ R
         /\ IsInjective(q) => IsInjective(Without(q, R))
<1> DEFINE N == Len(q)
<1> DEFINE Turn(l, x) == IF x \in R THEN l ELSE Append(l, x)
<1>1. N \in Nat /\ \A n \in 1 .. N : q[n] \in S
  OBVIOUS
<1> DEFINE F == [p \in Seq(S) \X (1 .. N) |-> Turn(p[1], q[p[2]])]
<1>2. F \in [Seq(S) \X (1 .. N) -> Seq(S)]
  BY <1>1, AppendProperties
<1>3. <<>> \in Seq(S)
  OBVIOUS
<1> DEFINE IsLoop(g) == g = [n \in 0 .. N |-> IF n = 0 THEN <<>> ELSE Turn(g[n - 1], q[n])]
<1>4. \E g : IsLoop(g)
  <2>1. PICK g \in [0 .. N -> Seq(S)] :
          g[0] = <<>> /\ \A n \in 1 .. N : g[n] = F[<<g[n - 1], n>>]
    <3> DEFINE T == Seq(S)
               e == <<>>
    <3>1. N \in Nat /\ F \in [T \X (1 .. N) -> T] /\ e \in T
      BY <1>1, <1>2, <1>3
    <3> HIDE DEF N, F, T, e
    <3>2. HasRun(N, T, e, F)
      BY <3>1, LoopRuns
    <3> QED BY <3>2 DEF T, e, HasRun
  <2>2. ASSUME NEW n \in 1 .. N PROVE F[<<g[n - 1], n>>] = Turn(g[n - 1], q[n])
    <3>1. n - 1 \in 0 .. N
      BY <1>1
    <3>2. <<g[n - 1], n>> \in Seq(S) \X (1 .. N)
      BY <3>1, <2>1
    <3> QED BY <3>2 DEF F
  <2>3. ASSUME NEW n \in 0 .. N
        PROVE  g[n] = IF n = 0 THEN <<>> ELSE Turn(g[n - 1], q[n])
    <3>1. CASE n = 0
      BY <3>1, <2>1
    <3>2. CASE n # 0
      <4>1. n \in 1 .. N
        BY <3>2, <1>1
      <4> HIDE DEF F, Turn, N
      <4> QED BY <3>2, <4>1, <2>1, <2>2
    <3> QED BY <3>1, <3>2
  <2>4. g = [n \in 0 .. N |-> g[n]]
    BY <2>1
  <2>5. IsLoop(g)
    BY <2>3, <2>4
  <2> QED BY <2>5
<1> DEFINE f == CHOOSE g : IsLoop(g)
<1>5. IsLoop(f)
  BY <1>4
<1>6. Without(q, R) = f[N]
  BY DEF Without, Loop
<1> DEFINE Set(n) == {q[k] : k \in 1 .. n} \ R
<1> DEFINE P == [n \in 0 .. N |->
      {l \in Seq(S) : /\ ToSet(l) = Set(n)
                      /\ IsInjective(q) => IsInjective(l)}]
<1> HIDE DEF f
<1>7. f[0] = <<>> /\ \A n \in 1 .. N : f[n] = Turn(f[n - 1], q[n])
  <2>1. \A n \in 0 .. N : f[n] = IF n = 0 THEN <<>> ELSE Turn(f[n - 1], q[n])
    BY <1>5
  <2>2. 0 \in 0 .. N /\ \A n \in 1 .. N : n \in 0 .. N /\ n # 0
    BY <1>1
  <2> HIDE DEF Turn
  <2> QED BY <2>1, <2>2
<1>8. f[0] \in P[0]
  BY <1>7, <1>1, <1>3 DEF ToSet, IsInjective
<1>9. ASSUME NEW n \in 1 .. N, f[n - 1] \in P[n - 1]
      PROVE  f[n] \in P[n]
  <2> DEFINE l == f[n - 1]
  <2>1. n - 1 \in 0 .. N /\ n \in 0 .. N /\ q[n] \in S
    BY <1>1
  <2>2. l \in Seq(S) /\ ToSet(l) = Set(n - 1) /\ (IsInjective(q) => IsInjective(l))
    BY <1>9, <2>1
  <2>3. Set(n) = Set(n - 1) \cup ({q[n]} \ R)
    BY <1>1
  <2>4. f[n] = Turn(l, q[n])
    BY <1>7
  <2>5. CASE q[n] \in R
    BY <2>1, <2>2, <2>3, <2>4, <2>5
  <2>6. CASE q[n] \notin R
    <3> HIDE DEF l
    <3>1. /\ Append(l, q[n]) \in Seq(S) /\ Len(Append(l, q[n])) = Len(l) + 1
          /\ \A k \in 1 .. Len(l) : Append(l, q[n])[k] = l[k]
          /\ Append(l, q[n])[Len(l) + 1] = q[n]
      BY <2>1, <2>2, AppendProperties
    <3> DEFINE a == Append(l, q[n])
    <3> HIDE DEF a
    <3>2. a \in Seq(S) /\ DOMAIN a = 1 .. Len(l) + 1 /\ DOMAIN l = 1 .. Len(l) /\ Len(l) \in Nat
      BY <3>1, <2>2 DEF a
    <3>3. ToSet(a) = ToSet(l) \cup {q[n]}
      BY <3>1, <3>2 DEF ToSet, a
    <3>4. IsInjective(q) => q[n] \notin ToSet(l)
      BY <2>2, <1>1 DEF IsInjective
    <3>5. IsInjective(q) => IsInjective(a)
      BY <2>2, <3>1, <3>2, <3>4 DEF IsInjective, ToSet, a
    <3> QED BY <2>1, <2>2, <2>3, <2>4, <2>6, <3>2, <3>3, <3>5 DEF a
  <2> QED BY <2>5, <2>6
<1>10. f[N] \in P[N]
  <2> HIDE DEF N, P
  <2>1. \A n \in 1 .. N : f[n - 1] \in P[n - 1] => f[n] \in P[n]
    BY <1>9
  <2>2. \A n \in 0 .. N : f[n] \in P[n]
    BY <1>1, <1>8, <2>1, Climbs
  <2> QED BY <1>1, <2>2
<1>11. Set(N) = ToSet(q) \ R
  BY <1>1 DEF ToSet
<1> QED BY <1>1, <1>6, <1>10, <1>11

-----------------------------------------------------------------------------
(* Assignments to the fields of the state *)

SetIncomingFree(s, a, b) == [s EXCEPT !.incoming = a, !.free = b]

LEMMA PutIncomingFree ==
  ASSUME NEW s \in Machine, NEW a \in ListTables, NEW b \in Nat,
         NEW t, t = SetIncomingFree(s, a, b)
  PROVE  /\ t \in Machine /\ t.incoming = a /\ t.free = b
         /\ SameProcesses(s, t) /\ t.blocks = s.blocks /\ t.lost = s.lost
         /\ SameRequests(s, t) /\ SameOwn(s, t) /\ SameWreck(s, t)
  BY DEF SetIncomingFree, Machine, SameProcesses, SameElements, SameRequests, SameOwn, SameWreck

SetIncomingFreeLost(s, a, b, c) == [s EXCEPT !.incoming = a, !.free = b, !.lost = c]

LEMMA PutIncomingFreeLost ==
  ASSUME NEW s \in Machine, NEW a \in ListTables, NEW b \in Nat, NEW c \in Nat,
         NEW t, t = SetIncomingFreeLost(s, a, b, c)
  PROVE  /\ t \in Machine /\ t.incoming = a /\ t.free = b /\ t.lost = c
         /\ SameProcesses(s, t) /\ t.blocks = s.blocks /\ SameRequests(s, t)
         /\ SameOwn(s, t) /\ SameWreck(s, t)
  BY DEF SetIncomingFreeLost, Machine, SameProcesses, SameElements, SameRequests, SameOwn, SameWreck

SetIncoming(s, a) == [s EXCEPT !.incoming = a]

LEMMA PutIncoming ==
  ASSUME NEW s \in Machine, NEW a \in ListTables,
         NEW t, t = SetIncoming(s, a)
  PROVE  /\ t \in Machine /\ t.incoming = a
         /\ SameProcesses(s, t) /\ t.free = s.free /\ t.blocks = s.blocks
         /\ t.lost = s.lost /\ SameRequests(s, t) /\ SameOwn(s, t)
         /\ SameWreck(s, t)
  BY DEF SetIncoming, Machine, SameProcesses, SameElements, SameRequests, SameOwn, SameWreck

SetReq(s, a) == [s EXCEPT !.req = a]

LEMMA PutReq ==
  ASSUME NEW s \in Machine, NEW a \in RequestTables,
         NEW t, t = SetReq(s, a)
  PROVE  /\ t \in Machine /\ t.req = a
         /\ SameProcesses(s, t) /\ SameElements(s, t) /\ t.next_id = s.next_id
         /\ SameOwn(s, t) /\ SameWreck(s, t)
  BY DEF SetReq, Machine, SameProcesses, SameElements, SameRequests, SameOwn, SameWreck

SetOwn(s, a) == [s EXCEPT !.own = a]

LEMMA PutOwn ==
  ASSUME NEW s \in Machine, NEW a \in ListTables,
         NEW t, t = SetOwn(s, a)
  PROVE  /\ t \in Machine /\ t.own = a
         /\ SameProcesses(s, t) /\ SameElements(s, t) /\ SameRequests(s, t)
         /\ SameWreck(s, t)
  BY DEF SetOwn, Machine, SameProcesses, SameElements, SameRequests, SameOwn, SameWreck

SetOwnWreck(s, a, b) == [s EXCEPT !.own = a, !.wreck = b]

LEMMA PutOwnWreck ==
  ASSUME NEW s \in Machine, NEW a \in ListTables, NEW b \in Wrecks,
         NEW t, t = SetOwnWreck(s, a, b)
  PROVE  /\ t \in Machine /\ t.own = a /\ t.wreck = b /\ t.twice = s.twice
         /\ SameProcesses(s, t) /\ SameElements(s, t) /\ SameRequests(s, t)
  BY DEF SetOwnWreck, Machine, SameProcesses, SameElements, SameRequests, SameOwn, SameWreck

SetWreck(s, a) == [s EXCEPT !.wreck = a]

LEMMA PutWreck ==
  ASSUME NEW s \in Machine, NEW a \in Wrecks,
         NEW t, t = SetWreck(s, a)
  PROVE  /\ t \in Machine /\ t.wreck = a /\ t.twice = s.twice
         /\ SameProcesses(s, t) /\ SameElements(s, t) /\ SameRequests(s, t)
         /\ SameOwn(s, t)
  BY DEF SetWreck, Machine, SameProcesses, SameElements, SameRequests, SameOwn, SameWreck

LEMMA PutTwice ==
  ASSUME NEW s \in Machine, NEW t, t = FreedTwice(s)
  PROVE  /\ t \in Machine /\ t.wreck = s.wreck /\ t.twice = TRUE
         /\ SameProcesses(s, t) /\ SameElements(s, t) /\ SameRequests(s, t)
         /\ SameOwn(s, t)
  BY DEF FreedTwice, Machine, SameProcesses, SameElements, SameRequests, SameOwn

SetOwnReq(s, a, b) == [s EXCEPT !.own = a, !.req = b]

LEMMA PutOwnReq ==
  ASSUME NEW s \in Machine, NEW a \in ListTables, NEW b \in RequestTables,
         NEW t, t = SetOwnReq(s, a, b)
  PROVE  /\ t \in Machine /\ t.own = a /\ t.req = b
         /\ SameProcesses(s, t) /\ SameElements(s, t) /\ t.next_id = s.next_id
         /\ SameWreck(s, t)
  BY DEF SetOwnReq, Machine, SameProcesses, SameElements, SameRequests, SameOwn, SameWreck

SetCpu(s, a) == [s EXCEPT !.cpu = a]

LEMMA PutCpu ==
  ASSUME NEW s \in Machine, NEW a \in VcpuTables,
         NEW t, t = SetCpu(s, a)
  PROVE  /\ t \in Machine /\ t.cpu = a
         /\ t.sleepers = s.sleepers /\ t.cut = s.cut /\ SameElements(s, t)
         /\ SameRequests(s, t) /\ SameOwn(s, t) /\ SameWreck(s, t)
  BY DEF SetCpu, Machine, SameProcesses, SameElements, SameRequests, SameOwn, SameWreck

SetCpuCut(s, a, b) == [s EXCEPT !.cpu = a, !.cut = b]

LEMMA PutCpuCut ==
  ASSUME NEW s \in Machine, NEW a \in VcpuTables, NEW b \in CpuSets,
         NEW t, t = SetCpuCut(s, a, b)
  PROVE  /\ t \in Machine /\ t.cpu = a /\ t.cut = b
         /\ t.sleepers = s.sleepers /\ SameElements(s, t) /\ SameRequests(s, t)
         /\ SameOwn(s, t) /\ SameWreck(s, t)
  BY DEF SetCpuCut, Machine, SameProcesses, SameElements, SameRequests, SameOwn, SameWreck

SetFatal(s, a) == [s EXCEPT !.fatal = a]

LEMMA PutFatal ==
  ASSUME NEW s \in Machine, NEW a \in BOOLEAN,
         NEW t, t = SetFatal(s, a)
  PROVE  /\ t \in Machine /\ t.fatal = a
         /\ SameProcesses(s, t) /\ SameElements(s, t) /\ SameRequests(s, t)
         /\ SameOwn(s, t) /\ SameWreck(s, t)
  BY DEF SetFatal, Machine, SameProcesses, SameElements, SameRequests, SameOwn, SameWreck

SetCpuStarts(s, a, b) == [s EXCEPT !.cpu = a, !.starts = b]

LEMMA PutCpuStarts ==
  ASSUME NEW s \in Machine, NEW a \in VcpuTables, NEW b \in StartCounts,
         NEW t, t = SetCpuStarts(s, a, b)
  PROVE  /\ t \in Machine /\ t.cpu = a /\ t.starts = b
         /\ t.sleepers = s.sleepers /\ t.cut = s.cut /\ SameElements(s, t)
         /\ SameRequests(s, t) /\ SameOwn(s, t) /\ SameWreck(s, t)
  BY DEF SetCpuStarts, Machine, SameProcesses, SameElements, SameRequests, SameOwn, SameWreck

SetReqNext(s, a, b) == [s EXCEPT !.req = a, !.next_id = b]

LEMMA PutReqNext ==
  ASSUME NEW s \in Machine, NEW a \in RequestTables, NEW b \in Counts,
         NEW t, t = SetReqNext(s, a, b)
  PROVE  /\ t \in Machine /\ t.req = a /\ t.next_id = b
         /\ SameProcesses(s, t) /\ SameElements(s, t) /\ SameOwn(s, t)
         /\ SameWreck(s, t)
  BY DEF SetReqNext, Machine, SameProcesses, SameElements, SameRequests, SameOwn, SameWreck

SetFreeBlocks(s, a, b) == [s EXCEPT !.free = a, !.blocks = b]

LEMMA PutFreeBlocks ==
  ASSUME NEW s \in Machine, NEW a \in Nat, NEW b \in BlockCounts,
         NEW t, t = SetFreeBlocks(s, a, b)
  PROVE  /\ t \in Machine /\ t.free = a /\ t.blocks = b
         /\ SameProcesses(s, t) /\ t.incoming = s.incoming /\ t.lost = s.lost
         /\ SameRequests(s, t) /\ SameOwn(s, t) /\ SameWreck(s, t)
  BY DEF SetFreeBlocks, Machine, SameProcesses, SameElements, SameRequests, SameOwn, SameWreck

SetFreeBlocksLost(s, a, b, c) == [s EXCEPT !.free = a, !.blocks = b, !.lost = c]

LEMMA PutFreeBlocksLost ==
  ASSUME NEW s \in Machine, NEW a \in Nat, NEW b \in BlockCounts, NEW c \in Nat,
         NEW t, t = SetFreeBlocksLost(s, a, b, c)
  PROVE  /\ t \in Machine /\ t.free = a /\ t.blocks = b /\ t.lost = c
         /\ SameProcesses(s, t) /\ t.incoming = s.incoming /\ SameRequests(s, t)
         /\ SameOwn(s, t) /\ SameWreck(s, t)
  BY DEF SetFreeBlocksLost, Machine, SameProcesses, SameElements, SameRequests, SameOwn, SameWreck

SetSleepers(s, a) == [s EXCEPT !.sleepers = a]

LEMMA PutSleepers ==
  ASSUME NEW s \in Machine, NEW a \in CpuLists,
         NEW t, t = SetSleepers(s, a)
  PROVE  /\ t \in Machine /\ t.sleepers = a
         /\ t.cpu = s.cpu /\ t.cut = s.cut /\ SameElements(s, t)
         /\ SameRequests(s, t) /\ SameOwn(s, t) /\ SameWreck(s, t)
  BY DEF SetSleepers, Machine, SameProcesses, SameElements, SameRequests, SameOwn, SameWreck

SetCpuSleepers(s, a, b) == [s EXCEPT !.cpu = a, !.sleepers = b]

LEMMA PutCpuSleepers ==
  ASSUME NEW s \in Machine, NEW a \in VcpuTables, NEW b \in CpuLists,
         NEW t, t = SetCpuSleepers(s, a, b)
  PROVE  /\ t \in Machine /\ t.cpu = a /\ t.sleepers = b
         /\ t.cut = s.cut /\ SameElements(s, t) /\ SameRequests(s, t)
         /\ SameOwn(s, t) /\ SameWreck(s, t)
  BY DEF SetCpuSleepers, Machine, SameProcesses, SameElements, SameRequests, SameOwn, SameWreck

SetCpuSleepersIncomingLost(s, a, b, c, d) ==
  [s EXCEPT !.sleepers = b, !.incoming = c, !.cpu = a, !.lost = d]

LEMMA PutCpuSleepersIncomingLost ==
  ASSUME NEW s \in Machine, NEW a \in VcpuTables, NEW b \in CpuLists, NEW c \in ListTables, NEW d \in Nat,
         NEW t, t = SetCpuSleepersIncomingLost(s, a, b, c, d)
  PROVE  /\ t \in Machine /\ t.cpu = a /\ t.sleepers = b /\ t.incoming = c /\ t.lost = d
         /\ t.cut = s.cut /\ t.free = s.free /\ t.blocks = s.blocks
         /\ SameRequests(s, t) /\ SameOwn(s, t) /\ SameWreck(s, t)
  BY DEF SetCpuSleepersIncomingLost, Machine, SameProcesses, SameElements, SameRequests, SameOwn, SameWreck

SetCut(s, a) == [s EXCEPT !.cut = a]

LEMMA PutCut ==
  ASSUME NEW s \in Machine, NEW a \in CpuSets,
         NEW t, t = SetCut(s, a)
  PROVE  /\ t \in Machine /\ t.cut = a
         /\ t.cpu = s.cpu /\ t.sleepers = s.sleepers /\ SameElements(s, t)
         /\ SameRequests(s, t) /\ SameOwn(s, t) /\ SameWreck(s, t)
  BY DEF SetCut, Machine, SameProcesses, SameElements, SameRequests, SameOwn, SameWreck

SetCpuReq(s, a, b) == [s EXCEPT !.cpu = a, !.req = b]

LEMMA PutCpuReq ==
  ASSUME NEW s \in Machine, NEW a \in VcpuTables, NEW b \in RequestTables,
         NEW t, t = SetCpuReq(s, a, b)
  PROVE  /\ t \in Machine /\ t.cpu = a /\ t.req = b
         /\ t.sleepers = s.sleepers /\ t.cut = s.cut /\ SameElements(s, t)
         /\ t.next_id = s.next_id /\ SameOwn(s, t) /\ SameWreck(s, t)
  BY DEF SetCpuReq, Machine, SameProcesses, SameElements, SameRequests, SameOwn, SameWreck

-----------------------------------------------------------------------------
(* What the operations on lists do *)

LEMMA Listed ==
  ASSUME NEW S, NEW q \in Seq(S), NEW x
  PROVE  Contains(q, x) <=> x \in ToSet(q)
  BY DEF Contains, ToSet

LEMMA Tables ==
  ASSUME NEW s \in Machine, NEW c \in Cpus
  PROVE  /\ s.own[c] \in Seq(Ids) /\ s.incoming[c] \in Seq(Ids) /\ s.sleepers \in Seq(Cpus)
         /\ In(s, c) \subseteq Ids /\ Own(s, c) \subseteq Ids /\ ToSet(s.sleepers) \subseteq Cpus
<1>1. s.own[c] \in Seq(Ids) /\ s.incoming[c] \in Seq(Ids) /\ s.sleepers \in Seq(Cpus)
  BY Fields DEF ListTables, CpuLists
<1>2. \A S : \A q \in Seq(S) : ToSet(q) \subseteq S
  BY DEF ToSet
<1> QED BY <1>1, <1>2 DEF In, Own

LEMMA Receivers ==
  ASSUME NEW s \in Machine, NEW i
  PROVE  Targets(s, i) = {c \in Cpus : i \in In(s, c)}
<1>1. \A c \in Cpus : Contains(s.incoming[c], i) <=> i \in In(s, c)
  BY Tables, Listed DEF In
<1> QED BY <1>1 DEF Targets

LEMMA QueuedFacts ==
  ASSUME NEW s \in Machine
  PROVE  /\ Queued(s) = {e \in Cpus \X Ids : e[2] \in In(s, e[1])}
         /\ IsFiniteSet(Queued(s)) /\ Cardinality(Queued(s)) \in Nat
<1>1. \A c \in Cpus, i \in Ids : Contains(s.incoming[c], i) <=> i \in In(s, c)
  BY Tables, Listed DEF In
<1>2. Queued(s) = {e \in Cpus \X Ids : e[2] \in In(s, e[1])}
  BY <1>1 DEF Queued
<1>3. IsFiniteSet(Cpus) /\ IsFiniteSet(Ids)
  <2>1. MaxVcpus - 1 \in Int /\ MaxRequests - 1 \in Int /\ 0 \in Int
    BY IpcMsgAssumption
  <2> QED BY <2>1, FS_Interval DEF Cpus, Ids
<1>4. IsFiniteSet(Cpus \X Ids)
  BY <1>3, FS_Product
<1>5. Queued(s) \in SUBSET (Cpus \X Ids)
  BY <1>2
<1>6. IsFiniteSet(Queued(s))
  BY <1>4, <1>5, FS_Subset
<1> QED BY <1>2, <1>6, FS_CardinalityType

\* The finite sets the rest is about.
LEMMA CpusFinite ==
  ASSUME NEW C \in SUBSET Cpus
  PROVE  IsFiniteSet(C) /\ Cardinality(C) \in Nat
<1>1. MaxVcpus - 1 \in Int /\ 0 \in Int
  BY IpcMsgAssumption
<1>2. IsFiniteSet(Cpus)
  BY <1>1, FS_Interval DEF Cpus
<1>3. IsFiniteSet(C)
  BY <1>2, FS_Subset
<1> QED BY <1>3, FS_CardinalityType

LEMMA OneLess ==
  ASSUME NEW S, IsFiniteSet(S), NEW x \in S, NEW T, T = S \ {x}
  PROVE  Cardinality(T) = Cardinality(S) - 1
<1>1. Cardinality(S \ {x}) = IF x \in S THEN Cardinality(S) - 1 ELSE Cardinality(S)
  BY FS_RemoveElement
<1> QED BY <1>1

\* A queue loses the elements of R.
LEMMA QueueWithout ==
  ASSUME NEW s \in Machine, NEW R, NEW c \in Cpus
  PROVE  /\ Without(s.incoming[c], R) \in Seq(Ids)
         /\ ToSet(Without(s.incoming[c], R)) = In(s, c) \ R
         /\ IsInjective(s.incoming[c]) => IsInjective(Without(s.incoming[c], R))
  BY Tables, WithoutFacts DEF In

LEMMA OwnWithout ==
  ASSUME NEW s \in Machine, NEW R, NEW c \in Cpus
  PROVE  /\ Without(s.own[c], R) \in Seq(Ids)
         /\ ToSet(Without(s.own[c], R)) = Own(s, c) \ R
         /\ IsInjective(s.own[c]) => IsInjective(Without(s.own[c], R))
  BY Tables, WithoutFacts DEF Own

\* AddsUp in numbers
LEMMA AddsUpMeans ==
  ASSUME NEW s \in Machine
  PROVE  /\ QueueBlocks \in Nat /\ QueuesAtOnce \in Nat /\ s.blocks \in Nat
         /\ s.free \in Nat /\ s.lost \in Nat /\ Cardinality(Queued(s)) \in Nat
         /\ Allocated(s) = (QueueBlocks - s.blocks) * QueuesAtOnce
         /\ AddsUp(s) <=> Allocated(s) = Cardinality(Queued(s)) + s.free + s.lost
  BY IpcMsgAssumption, Fields, QueuedFacts DEF BlockCounts, Allocated, AddsUp

LEMMA GiveBackDoes ==
  ASSUME NEW s \in Machine, NEW i \in Ids, NEW c \in Cpus
  PROVE  LET t == GiveBack(s, i, c) IN
         /\ t \in Machine
         /\ SameProcesses(s, t) /\ SameRequests(s, t) /\ SameOwn(s, t) /\ SameWreck(s, t)
         /\ \A d \in Cpus : In(t, d) = IF d = c THEN In(s, d) \ {i} ELSE In(s, d)
         /\ Lists(s) => Lists(t)
         /\ AddsUp(s) /\ i \in In(s, c) => AddsUp(t)
<1> DEFINE t == GiveBack(s, i, c)
           q == [s.incoming EXCEPT ![c] = Without(s.incoming[c], {i})]
           n == s.free + 1
<1>1. t = SetIncomingFree(s, q, n)
  BY DEF GiveBack, Machine, SetIncomingFree
<1>2. q \in ListTables /\ n \in Nat
  <2>1. Without(s.incoming[c], {i}) \in Seq(Ids)
    BY QueueWithout
  <2>2. s.incoming \in ListTables /\ s.free \in Nat
    BY Fields
  <2> QED BY <2>1, <2>2 DEF ListTables
<1>3. /\ t \in Machine /\ t.incoming = q /\ t.free = n /\ t.blocks = s.blocks /\ t.lost = s.lost
      /\ SameProcesses(s, t) /\ SameRequests(s, t) /\ SameOwn(s, t) /\ SameWreck(s, t)
  <2> HIDE DEF t, q, n
  <2> QED BY <1>1, <1>2, PutIncomingFree
<1> HIDE DEF t
<1>4. \A d \in Cpus : t.incoming[d] = IF d = c THEN Without(s.incoming[d], {i}) ELSE s.incoming[d]
  BY <1>3, Fields DEF ListTables
<1>5. \A d \in Cpus : In(t, d) = IF d = c THEN In(s, d) \ {i} ELSE In(s, d)
  <2>1. ToSet(Without(s.incoming[c], {i})) = In(s, c) \ {i}
    BY QueueWithout
  <2> QED BY <1>4, <2>1 DEF In
<1>6. ASSUME Lists(s) PROVE Lists(t)
  <2>1. IsInjective(s.incoming[c]) => IsInjective(Without(s.incoming[c], {i}))
    BY QueueWithout
  <2> QED BY <1>3, <1>4, <1>6, <2>1 DEF Lists, SameProcesses, SameOwn
<1>7. ASSUME AddsUp(s), i \in In(s, c) PROVE AddsUp(t)
  <2>1. <<c, i>> \in Queued(s)
    BY <1>7, QueuedFacts
  <2>2. Queued(t) = Queued(s) \ {<<c, i>>}
    <3>1. Queued(t) = {e \in Cpus \X Ids : e[2] \in In(t, e[1])}
      BY <1>3, QueuedFacts
    <3>2. Queued(s) = {e \in Cpus \X Ids : e[2] \in In(s, e[1])}
      BY QueuedFacts
    <3>3. ASSUME NEW e \in Cpus \X Ids PROVE e \in Queued(t) <=> e \in Queued(s) /\ e # <<c, i>>
      <4>1. e = <<e[1], e[2]>> /\ e[1] \in Cpus
        OBVIOUS
      <4>2. e # <<c, i>> <=> e[1] # c \/ e[2] # i
        BY <4>1
      <4> QED BY <4>1, <4>2, <3>1, <3>2, <1>5
    <3> QED BY <3>1, <3>2, <3>3
  <2>3. Cardinality(Queued(t)) = Cardinality(Queued(s)) - 1
    BY <2>1, <2>2, QueuedFacts, OneLess
  <2> QED BY <1>3, <1>7, <2>3, AddsUpMeans
<1> QED BY <1>3, <1>5, <1>6, <1>7 DEF t

LEMMA DropTargetsDoes ==
  ASSUME NEW s \in Machine, NEW R
  PROVE  LET t == DropTargets(s, R) IN
         /\ t \in Machine
         /\ SameProcesses(s, t) /\ SameRequests(s, t) /\ SameOwn(s, t) /\ SameWreck(s, t)
         /\ \A d \in Cpus : In(t, d) = In(s, d) \ R
         /\ Lists(s) => Lists(t)
         /\ AddsUp(s) => AddsUp(t)
<1> DEFINE t == DropTargets(s, R)
           Q == {e \in Queued(s) : e[2] \in R}
           n == Cardinality(Q)
           q == [c \in Cpus |-> Without(s.incoming[c], R)]
           k == s.lost + s.free + n - 1
<1>1. IsFiniteSet(Q) /\ n \in Nat /\ (n = 0 <=> Q = {})
  <2>1. Q \in SUBSET Queued(s)
    OBVIOUS
  <2>2. IsFiniteSet(Q)
    BY <2>1, QueuedFacts, FS_Subset
  <2> QED BY <2>2, FS_CardinalityType, FS_EmptySet
<1>2. Queued(s) = {e \in Cpus \X Ids : e[2] \in In(s, e[1])}
  BY QueuedFacts
<1>3. CASE n = 0
  <2>1. t = s
    BY <1>3 DEF DropTargets
  <2>2. ASSUME NEW d \in Cpus PROVE In(s, d) = In(s, d) \ R
    <3>1. \A i \in In(s, d) : <<d, i>> \in Queued(s)
      BY <1>2, Tables
    <3>2. \A i \in In(s, d) : i \notin R
      <4> SUFFICES ASSUME NEW i \in In(s, d), i \in R PROVE FALSE
        OBVIOUS
      <4>1. <<d, i>> \in Q
        BY <3>1
      <4> HIDE DEF Q, n
      <4> QED BY <4>1, <1>1, <1>3
    <3> QED BY <3>2
  <2> HIDE DEF t, n, Q
  <2> QED BY <2>1, <2>2 DEF t, SameProcesses, SameRequests, SameOwn, SameWreck
<1>4. CASE n # 0
  <2>1. t = SetIncomingFreeLost(s, q, 1, k)
    BY <1>4 DEF DropTargets, Machine, SetIncomingFreeLost
  <2>2. q \in ListTables /\ 1 \in Nat /\ k \in Nat
    <3>1. q \in ListTables
      BY QueueWithout DEF ListTables
    <3>2. k \in Nat
      <4> HIDE DEF n
      <4> QED BY <1>1, <1>4, Fields
    <3> QED BY <3>1, <3>2
  <2>3. /\ t \in Machine /\ t.incoming = q /\ t.free = 1 /\ t.blocks = s.blocks /\ t.lost = k
        /\ SameProcesses(s, t) /\ SameRequests(s, t) /\ SameOwn(s, t) /\ SameWreck(s, t)
    <3> HIDE DEF q, k, t
    <3> QED BY <2>1, <2>2, PutIncomingFreeLost
  <2> HIDE DEF t
  <2>4. \A d \in Cpus : t.incoming[d] = Without(s.incoming[d], R)
    BY <2>3
  <2>5. \A d \in Cpus : In(t, d) = In(s, d) \ R
    BY <2>4, QueueWithout DEF In
  <2>6. ASSUME Lists(s) PROVE Lists(t)
    BY <2>3, <2>4, <2>6, QueueWithout DEF Lists, SameProcesses, SameOwn
  <2>7. ASSUME AddsUp(s) PROVE AddsUp(t)
    <3>1. Queued(t) = Queued(s) \ Q
      <4>1. Queued(t) = {e \in Cpus \X Ids : e[2] \in In(t, e[1])}
        BY <2>3, QueuedFacts
      <4>2. ASSUME NEW e \in Cpus \X Ids
            PROVE  e \in Queued(t) <=> e \in Queued(s) /\ e[2] \notin R
        BY <4>1, <1>2, <2>5
      <4> QED BY <4>1, <4>2, <1>2
    <3>2. Cardinality(Queued(t)) = Cardinality(Queued(s)) - n
      <4>1. Queued(s) \cap Q = Q
        OBVIOUS
      <4>2. Cardinality(Queued(s) \ Q) = Cardinality(Queued(s)) - Cardinality(Queued(s) \cap Q)
        BY QueuedFacts, FS_Difference
      <4> QED BY <3>1, <4>1, <4>2
    <3> HIDE DEF n, Q
    <3>3. (s.lost + s.free + n) - 1 = k
      BY <1>1, Fields
    <3> HIDE DEF k
    <3>4. Allocated(t) = Allocated(s)
      BY <2>3, AddsUpMeans
    <3> QED BY <2>3, <2>7, <3>2, <3>3, <3>4, <1>1, AddsUpMeans
  <2> QED BY <2>3, <2>5, <2>6, <2>7 DEF t
<1> QED BY <1>3, <1>4, <1>1

-----------------------------------------------------------------------------
(* What the operations on requests do *)

FlagSets == SUBSET {"NONBLOCK", "MULTICAST", "SENDERSLEEP", "ACCEPTED", "COMPLETED", "ERROR"}
Names == Cpus \cup {AnyVcpu}

LEMMA RequestFields ==
  ASSUME NEW r \in Requests
  PROVE  /\ r.live \in BOOLEAN /\ r.s \in Names /\ r.first \in Names /\ r.old \in BOOLEAN
         /\ r.flags \in FlagSets
  BY DEF Requests, FlagSets, Names

WithFlags(r, F) == [r EXCEPT !.flags = F]
WithFirst(r, F, n) == [r EXCEPT !.flags = F, !.first = n]
WithOld(r, o) == [r EXCEPT !.old = o]

LEMMA FlagsChange ==
  ASSUME NEW r \in Requests, NEW F \in FlagSets
  PROVE  /\ WithFlags(r, F) \in Requests /\ WithFlags(r, F).live = r.live
         /\ WithFlags(r, F).s = r.s /\ WithFlags(r, F).first = r.first
         /\ WithFlags(r, F).old = r.old /\ WithFlags(r, F).flags = F
<1> DEFINE N == Names
           O == BOOLEAN
<1>1. Requests = [live : O, s : N, first : N, old : O, flags : FlagSets]
  BY DEF Requests, FlagSets, Names
<1> HIDE DEF N, O
<1> QED BY <1>1 DEF WithFlags
LEMMA FirstChange ==
  ASSUME NEW r \in Requests, NEW F \in FlagSets, NEW n \in Names
  PROVE  /\ WithFirst(r, F, n) \in Requests /\ WithFirst(r, F, n).live = r.live
         /\ WithFirst(r, F, n).s = r.s /\ WithFirst(r, F, n).first = n
         /\ WithFirst(r, F, n).old = r.old /\ WithFirst(r, F, n).flags = F
<1> DEFINE N == Names
           O == BOOLEAN
<1>1. Requests = [live : O, s : N, first : N, old : O, flags : FlagSets]
  BY DEF Requests, FlagSets, Names
<1>2. n \in N
  OBVIOUS
<1> HIDE DEF N, O
<1> QED BY <1>1, <1>2 DEF WithFirst
LEMMA OldChange ==
  ASSUME NEW r \in Requests, NEW o \in BOOLEAN
  PROVE  /\ WithOld(r, o) \in Requests /\ WithOld(r, o).live = r.live
         /\ WithOld(r, o).s = r.s /\ WithOld(r, o).first = r.first
         /\ WithOld(r, o).old = o /\ WithOld(r, o).flags = r.flags
<1> DEFINE N == Names
           O == BOOLEAN
<1>1. Requests = [live : O, s : N, first : N, old : O, flags : FlagSets]
  BY DEF Requests, FlagSets, Names
<1>2. o \in O
  OBVIOUS
<1> HIDE DEF N, O
<1> QED BY <1>1, <1>2 DEF WithOld
LEMMA FreedFacts ==
  ASSUME NEW r \in Requests
  PROVE  /\ Freed(r) \in Requests /\ Freed(r).live = FALSE
         /\ Freed(r).s = r.s /\ Freed(r).first = r.first
         /\ Freed(r).old = FALSE /\ Freed(r).flags = {}
<1> DEFINE N == Names
           O == BOOLEAN
<1>1. Requests = [live : O, s : N, first : N, old : O, flags : FlagSets]
  BY DEF Requests, FlagSets, Names
<1>2. {} \in FlagSets /\ FALSE \in O /\ AnyVcpu \in N
  BY DEF FlagSets, Names
<1> HIDE DEF N, O
<1>3. Freed(r) = [[Blank EXCEPT !.s = r.s] EXCEPT !.first = r.first]
  BY DEF Freed
<1>4. Blank \in Requests /\ Blank.live = FALSE /\ Blank.old = FALSE /\ Blank.flags = {}
  BY <1>1, <1>2 DEF Blank
<1> QED BY <1>1, <1>3, <1>4
SetRequest(s, i, r) == [s EXCEPT !.req[i] = r]

LEMMA PutRequest ==
  ASSUME NEW s \in Machine, NEW i \in Ids, NEW r \in Requests,
         NEW t, t = SetRequest(s, i, r)
  PROVE  /\ t \in Machine /\ t.req[i] = r /\ \A j \in Ids \ {i} : t.req[j] = s.req[j]
         /\ SameProcesses(s, t) /\ SameElements(s, t) /\ t.next_id = s.next_id
         /\ SameOwn(s, t) /\ SameWreck(s, t)
<1> DEFINE q == [s.req EXCEPT ![i] = r]
<1>1. t = SetReq(s, q)
  BY DEF SetRequest, SetReq
<1>2. s.req \in RequestTables
  BY Fields
<1>3. q \in RequestTables /\ q[i] = r /\ \A j \in Ids \ {i} : q[j] = s.req[j]
  BY <1>2 DEF RequestTables
<1> HIDE DEF q
<1>4. /\ t \in Machine /\ t.req = q
      /\ SameProcesses(s, t) /\ SameElements(s, t) /\ t.next_id = s.next_id
      /\ SameOwn(s, t) /\ SameWreck(s, t)
  BY <1>1, <1>3, PutReq
<1> QED BY <1>3, <1>4

LEMMA Request ==
  ASSUME NEW s \in Machine, NEW i \in Ids
  PROVE  s.req[i] \in Requests
  BY Fields DEF RequestTables

\* The frame of an operation on the request i alone.
Only(s, t, i) ==
  /\ t \in Machine /\ \A j \in Ids \ {i} : t.req[j] = s.req[j]
  /\ SameProcesses(s, t) /\ SameElements(s, t) /\ t.next_id = s.next_id
  /\ SameOwn(s, t) /\ SameWreck(s, t)

LEMMA FlaggedDoes ==
  ASSUME NEW s \in Machine, NEW i \in Ids, NEW F \in FlagSets
  PROVE  LET t == Flagged(s, i, F) IN
         /\ Only(s, t, i)
         /\ t.req[i].live = s.req[i].live /\ t.req[i].s = s.req[i].s
         /\ t.req[i].first = s.req[i].first /\ t.req[i].old = s.req[i].old
         /\ t.req[i].flags = s.req[i].flags \cup F
<1> DEFINE G == s.req[i].flags \cup F
           r == WithFlags(s.req[i], G)
           t == Flagged(s, i, F)
<1>1. t = SetRequest(s, i, r)
  BY DEF Flagged, SetRequest, WithFlags
<1>2. s.req[i] \in Requests
  BY Request
<1>3. G \in FlagSets
  BY <1>2, RequestFields DEF FlagSets
<1>4. r \in Requests
  <2> HIDE DEF G
  <2> QED BY <1>2, <1>3, FlagsChange
<1>5. /\ r.live = s.req[i].live /\ r.s = s.req[i].s /\ r.flags = G
      /\ r.first = s.req[i].first /\ r.old = s.req[i].old
  <2> HIDE DEF G
  <2> QED BY <1>2, <1>3, FlagsChange
<1> HIDE DEF r, t, G
<1>6. t.req[i] = r /\ Only(s, t, i)
  BY <1>1, <1>4, PutRequest DEF Only
<1> QED BY <1>5, <1>6 DEF t, G

LEMMA TouchedDoes ==
  ASSUME NEW s \in Machine, NEW i \in Ids
  PROVE  LET t == Touched(s, i) IN
         /\ Only(s, t, i)
         /\ t.req[i].live = s.req[i].live /\ t.req[i].s = s.req[i].s
         /\ t.req[i].first = s.req[i].first /\ t.req[i].old = FALSE
         /\ t.req[i].flags = s.req[i].flags
<1> DEFINE r == WithOld(s.req[i], FALSE)
           t == Touched(s, i)
<1>1. t = SetRequest(s, i, r)
  BY DEF Touched, SetRequest, WithOld
<1>2. s.req[i] \in Requests
  BY Request
<1>4. r \in Requests
  BY <1>2, OldChange
<1>5. /\ r.live = s.req[i].live /\ r.s = s.req[i].s /\ r.flags = s.req[i].flags
      /\ r.first = s.req[i].first /\ r.old = FALSE
  BY <1>2, OldChange
<1> HIDE DEF r, t
<1>6. t.req[i] = r /\ Only(s, t, i)
  BY <1>1, <1>4, PutRequest DEF Only
<1> QED BY <1>5, <1>6 DEF t

LEMMA AcceptedDoes ==
  ASSUME NEW s \in Machine, NEW i \in Ids, NEW c \in Cpus
  PROVE  LET t == Accepted(s, i, c) IN
         /\ Only(s, t, i)
         /\ t.req[i].live = s.req[i].live /\ t.req[i].s = s.req[i].s
         /\ t.req[i].old = s.req[i].old
         /\ t.req[i].flags = s.req[i].flags \cup {"ACCEPTED"}
         /\ t.req[i].first = IF "ACCEPTED" \in s.req[i].flags THEN s.req[i].first ELSE c
<1> DEFINE t == Accepted(s, i, c)
           u == Flagged(s, i, {"ACCEPTED"})
<1>1. s.req[i] \in Requests
  BY Request
<1>2. CASE "ACCEPTED" \in s.req[i].flags
  <2>1. t = s
    BY <1>2 DEF Accepted, Has
  <2> QED BY <1>2, <2>1 DEF Only, SameProcesses, SameElements, SameOwn, SameWreck
<1>3. CASE "ACCEPTED" \notin s.req[i].flags
  <2> DEFINE G == s.req[i].flags \cup {"ACCEPTED"}
             r == WithFirst(s.req[i], G, c)
  <2>1. u = [s EXCEPT !.req = [s.req EXCEPT ![i] = [s.req[i] EXCEPT !.flags = G]]]
    BY DEF Flagged
  <2>2. t = [u EXCEPT !.req = [u.req EXCEPT ![i] = [u.req[i] EXCEPT !.first = c]]]
    BY <1>3 DEF Accepted, Has
  <2>3. t = SetRequest(s, i, r)
    <3>1. s.req \in RequestTables
      BY Fields
    <3> DEFINE q == [s.req EXCEPT ![i] = [s.req[i] EXCEPT !.flags = G]]
               p == [s.req EXCEPT ![i] = r]
    <3>2. u.req = q
      <4> HIDE DEF q
      <4> QED BY <2>1 DEF Machine, q
    <3>3. [q EXCEPT ![i] = [q[i] EXCEPT !.first = c]] = p
      BY <3>1 DEF RequestTables, WithFirst
    <3>4. t = [u EXCEPT !.req = p]
      BY <2>2, <3>2, <3>3
    <3>5. [[s EXCEPT !.req = q] EXCEPT !.req = p] = [s EXCEPT !.req = p]
      <4> HIDE DEF p, q
      <4> QED BY DEF Machine
    <3>6. u = [s EXCEPT !.req = q]
      BY <2>1
    <3>7. t = [s EXCEPT !.req = p]
      <4> HIDE DEF p, q
      <4> QED BY <3>4, <3>5, <3>6
    <3> QED BY <3>7 DEF SetRequest
  <2>4. G \in FlagSets /\ c \in Names
    BY <1>1, RequestFields DEF FlagSets, Names
  <2>5. r \in Requests
    <3> HIDE DEF G
    <3> QED BY <1>1, <2>4, FirstChange
  <2>6. /\ r.live = s.req[i].live /\ r.s = s.req[i].s /\ r.flags = G
        /\ r.first = c /\ r.old = s.req[i].old
    <3> HIDE DEF G
    <3> QED BY <1>1, <2>4, FirstChange
  <2> HIDE DEF r, t, G
  <2>7. t.req[i] = r /\ Only(s, t, i)
    BY <2>3, <2>5, PutRequest DEF Only
  <2> QED BY <2>6, <2>7, <1>3 DEF t, G
<1> QED BY <1>2, <1>3

\* A sound state comes from a sound one, and how.
LEMMA ForgetDoes ==
  ASSUME NEW s \in Machine, NEW i \in Ids
  PROVE  LET t == Forget(s, i) IN
         /\ t \in Machine /\ \A j \in Ids \ {i} : t.req[j] = s.req[j]
         /\ SameProcesses(s, t) /\ SameElements(s, t) /\ t.next_id = s.next_id /\ SameOwn(s, t)
         /\ t.req[i].live = FALSE /\ t.req[i].s = s.req[i].s
         /\ t.req[i].first = s.req[i].first /\ t.req[i].old = FALSE /\ t.req[i].flags = {}
         /\ t.wreck = "none" => s.wreck = "none" /\ \A c \in Cpus : i \notin In(s, c)
         /\ t.twice = s.twice
<1> DEFINE r == Freed(s.req[i])
           u == [s EXCEPT !.req[i] = Freed(@)]
           t == Forget(s, i)
<1>1. u = SetRequest(s, i, r)
  BY DEF SetRequest
<1>2. s.req[i] \in Requests
  BY Request
<1>4. /\ r \in Requests
      /\ r.live = FALSE /\ r.s = s.req[i].s
      /\ r.first = s.req[i].first /\ r.old = FALSE /\ r.flags = {}
  BY <1>2, FreedFacts
<1>5. t = IF Targets(s, i) = {} THEN u ELSE Wreck(u, "freed with targets")
  BY DEF Forget
<1> HIDE DEF r, u
<1>6. u.req[i] = r /\ Only(s, u, i)
  BY <1>1, <1>4, PutRequest DEF Only
<1>7. CASE Targets(s, i) = {}
  <2>1. t = u
    BY <1>5, <1>7
  <2>2. \A c \in Cpus : i \notin In(s, c)
    BY <1>7, Receivers
  <2> HIDE DEF t
  <2> QED BY <1>4, <1>6, <2>1, <2>2 DEF Only, SameWreck, t
<1>8. CASE Targets(s, i) # {}
  <2> DEFINE w == "freed with targets"
  <2>1. t = IF u.wreck = "none" THEN SetWreck(u, w) ELSE u
    BY <1>5, <1>8 DEF Wreck, SetWreck
  <2>2. w \in Wrecks /\ w # "none"
    BY DEF Wrecks
  <2> HIDE DEF t, w
  <2>3. CASE u.wreck = "none"
    <3>1. t = SetWreck(u, w)
      BY <2>1, <2>3
    <3>2. u \in Machine
      BY <1>6 DEF Only
    <3>3. /\ t \in Machine /\ t.wreck = w /\ t.twice = u.twice
          /\ SameProcesses(u, t) /\ SameElements(u, t) /\ SameRequests(u, t) /\ SameOwn(u, t)
      BY <3>1, <3>2, <2>2, PutWreck
    <3> QED BY <1>4, <1>6, <3>3, <2>2
            DEF Only, SameProcesses, SameElements, SameRequests, SameOwn, SameWreck, t
  <2>4. CASE u.wreck # "none"
    BY <1>4, <1>6, <2>1, <2>4 DEF Only, SameWreck, t
  <2> QED BY <2>3, <2>4
<1> QED BY <1>7, <1>8

\* IPC_UNLINK_REQUEST, also when s is none of the processes.
LEMMA UnlinkDoes ==
  ASSUME NEW s \in Machine, NEW i \in Ids
  PROVE  LET t == Unlink(s, i) IN
         /\ t \in Machine /\ SameProcesses(s, t) /\ SameElements(s, t) /\ SameRequests(s, t)
         /\ t.wreck = "none" => s.wreck = "none"
         /\ t.twice = s.twice
         /\ t.wreck = "none" /\ s.req[i].s \in Cpus =>
              /\ \A c \in Cpus : Own(t, c) = IF c = s.req[i].s THEN Own(s, c) \ {i} ELSE Own(s, c)
              /\ Lists(s) => Lists(t)
<1> DEFINE d == s.req[i].s
           t == Unlink(s, i)
           q == [s.own EXCEPT ![d] = Without(s.own[d], {i})]
           p == [s.own EXCEPT ![d] = <<>>]
           w == "list cut off"
<1>1. s.own \in ListTables /\ w \in Wrecks /\ w # "none"
  BY Fields DEF Wrecks
<1>2. p \in ListTables
  <2>1. <<>> \in Seq(Ids)
    OBVIOUS
  <2> HIDE DEF d
  <2> QED BY <1>1, <2>1 DEF ListTables
<1>3. q \in ListTables
  <2>1. d \in Cpus => Without(s.own[d], {i}) \in Seq(Ids)
    BY OwnWithout
  <2> HIDE DEF d
  <2> QED BY <1>1, <2>1 DEF ListTables
<1>4. t = IF Contains(s.own[d], i) THEN SetOwn(s, q)
          ELSE IF s.own[d] = <<>> THEN s
          ELSE IF s.wreck = "none" THEN SetOwnWreck(s, p, w) ELSE SetOwn(s, p)
  <2>1. s.wreck = [s EXCEPT !.own[d] = <<>>].wreck
    BY DEF Machine
  <2> QED BY <2>1 DEF Unlink, Wreck, SetOwn, SetOwnWreck
<1>5. CASE Contains(s.own[d], i)
  <2>1. t = SetOwn(s, q)
    BY <1>4, <1>5
  <2> HIDE DEF t, q
  <2>2. /\ t \in Machine /\ t.own = q
        /\ SameProcesses(s, t) /\ SameElements(s, t) /\ SameRequests(s, t) /\ SameWreck(s, t)
    BY <1>3, <2>1, PutOwn
  <2>3. ASSUME d \in Cpus
        PROVE  /\ \A c \in Cpus : Own(t, c) = IF c = d THEN Own(s, c) \ {i} ELSE Own(s, c)
               /\ Lists(s) => Lists(t)
    <3> HIDE DEF d
    <3>1. /\ ToSet(Without(s.own[d], {i})) = Own(s, d) \ {i}
          /\ IsInjective(s.own[d]) => IsInjective(Without(s.own[d], {i}))
      BY <2>3, OwnWithout
    <3>2. \A c \in Cpus : t.own[c] = IF c = d THEN Without(s.own[d], {i}) ELSE s.own[c]
      BY <1>1, <2>2 DEF q, ListTables
    <3>3. \A c \in Cpus : Own(t, c) = IF c = d THEN Own(s, c) \ {i} ELSE Own(s, c)
      BY <3>1, <3>2 DEF Own
    <3>4. ASSUME Lists(s) PROVE Lists(t)
      BY <3>1, <3>2, <2>2, <3>4 DEF Lists, SameProcesses, SameElements
    <3> QED BY <3>3, <3>4
  <2> QED BY <2>2, <2>3 DEF t, SameWreck
<1>6. CASE ~ Contains(s.own[d], i) /\ s.own[d] = <<>>
  <2>1. t = s
    BY <1>4, <1>6
  <2>2. d \in Cpus => i \notin Own(s, d)
    BY <1>6, Tables, Listed DEF Own
  <2> HIDE DEF t
  <2> QED BY <2>1, <2>2 DEF t, SameProcesses, SameElements, SameRequests
<1>7. CASE ~ Contains(s.own[d], i) /\ s.own[d] # <<>> /\ s.wreck = "none"
  <2>1. t = SetOwnWreck(s, p, w)
    BY <1>4, <1>7
  <2> HIDE DEF t, p, w
  <2> QED BY <2>1, <1>1, <1>2, PutOwnWreck DEF t
<1>8. CASE ~ Contains(s.own[d], i) /\ s.own[d] # <<>> /\ s.wreck # "none"
  <2>1. t = SetOwn(s, p)
    BY <1>4, <1>8
  <2> HIDE DEF t, p
  <2>2. /\ t \in Machine
        /\ SameProcesses(s, t) /\ SameElements(s, t) /\ SameRequests(s, t) /\ SameWreck(s, t)
    BY <2>1, <1>2, PutOwn
  <2> QED BY <2>2, <1>8 DEF t, SameWreck
<1> QED BY <1>5, <1>6, <1>7, <1>8

-----------------------------------------------------------------------------
(* What the operations on processes do *)

WithWait(v, w) == [v EXCEPT !.wait = w]
WithReg(v, g) == [v EXCEPT !.reg = g]
WithUsed(v) == [v EXCEPT !.used = TRUE]

LEMMA VcpuChange ==
  ASSUME NEW v \in Vcpus
  PROVE  /\ \A w \in {"no", "send", "recv"} :
              /\ WithWait(v, w) \in Vcpus /\ WithWait(v, w).wait = w
              /\ WithWait(v, w).used = v.used /\ WithWait(v, w).reg = v.reg
         /\ \A g \in Groups \cup {NoGroup} :
              /\ WithReg(v, g) \in Vcpus /\ WithReg(v, g).wait = v.wait
              /\ WithReg(v, g).used = v.used
         /\ WithUsed(v) \in Vcpus /\ WithUsed(v).wait = v.wait /\ WithUsed(v).used
<1> DEFINE G == Groups \cup {NoGroup}
           W == {"no", "send", "recv"}
           O == BOOLEAN
<1>1. Vcpus = [used : O, reg : G, wait : W]
  BY DEF Vcpus
<1>2. TRUE \in O
  OBVIOUS
<1> HIDE DEF G, W, O
<1>3. \A w \in W : /\ WithWait(v, w) \in Vcpus /\ WithWait(v, w).wait = w
                   /\ WithWait(v, w).used = v.used /\ WithWait(v, w).reg = v.reg
  BY <1>1 DEF WithWait
<1>4. \A g \in G : /\ WithReg(v, g) \in Vcpus /\ WithReg(v, g).wait = v.wait
                   /\ WithReg(v, g).used = v.used
  BY <1>1 DEF WithReg
<1>5. WithUsed(v) \in Vcpus /\ WithUsed(v).wait = v.wait /\ WithUsed(v).used
  BY <1>1, <1>2 DEF WithUsed
<1> QED BY <1>3, <1>4, <1>5 DEF G, W

LEMMA IdleIsOne == Idle \in Vcpus /\ Idle.wait = "no" /\ Idle.used = FALSE
<1> DEFINE G == Groups \cup {NoGroup}
           W == {"no", "send", "recv"}
           O == BOOLEAN
<1>1. Vcpus = [used : O, reg : G, wait : W]
  BY DEF Vcpus
<1>2. FALSE \in O /\ NoGroup \in G /\ "no" \in W
  OBVIOUS
<1> HIDE DEF G, W, O
<1> QED BY <1>1, <1>2 DEF Idle

LEMMA Process ==
  ASSUME NEW s \in Machine, NEW c \in Cpus
  PROVE  s.cpu[c] \in Vcpus
  BY Fields DEF VcpuTables

SetVcpu(s, c, v) == [s EXCEPT !.cpu[c] = v]

LEMMA PutVcpu ==
  ASSUME NEW s \in Machine, NEW c \in Cpus, NEW v \in Vcpus,
         NEW t, t = SetVcpu(s, c, v)
  PROVE  /\ t \in Machine /\ t.cpu[c] = v /\ \A d \in Cpus \ {c} : t.cpu[d] = s.cpu[d]
         /\ t.sleepers = s.sleepers /\ t.cut = s.cut /\ SameElements(s, t)
         /\ SameRequests(s, t) /\ SameOwn(s, t) /\ SameWreck(s, t)
<1> DEFINE q == [s.cpu EXCEPT ![c] = v]
<1>1. t = SetCpu(s, q)
  BY DEF SetVcpu, SetCpu
<1>2. s.cpu \in VcpuTables
  BY Fields
<1>3. q \in VcpuTables /\ q[c] = v /\ \A d \in Cpus \ {c} : q[d] = s.cpu[d]
  BY <1>2 DEF VcpuTables
<1> HIDE DEF q
<1>4. /\ t \in Machine /\ t.cpu = q
      /\ t.sleepers = s.sleepers /\ t.cut = s.cut /\ SameElements(s, t)
      /\ SameRequests(s, t) /\ SameOwn(s, t) /\ SameWreck(s, t)
  BY <1>1, <1>3, PutCpu
<1> QED BY <1>3, <1>4

\* The frame of an operation on how the process c waits.
Waits(s, t, c, w) ==
  /\ t.cpu[c].wait = w /\ t.cpu[c].used = s.cpu[c].used
  /\ \A d \in Cpus \ {c} : t.cpu[d] = s.cpu[d]

LEMMA WakeDoes ==
  ASSUME NEW s \in Machine, NEW c \in Cpus
  PROVE  LET t == Wake(s, c) IN
         /\ t \in Machine /\ Waits(s, t, c, "no")
         /\ t.sleepers = s.sleepers /\ t.cut = s.cut /\ SameElements(s, t)
         /\ SameRequests(s, t) /\ SameOwn(s, t) /\ SameWreck(s, t)
<1> DEFINE v == WithWait(s.cpu[c], "no")
           t == Wake(s, c)
<1>1. t = SetVcpu(s, c, v)
  BY DEF Wake, SetVcpu, WithWait
<1>2. v \in Vcpus /\ v.wait = "no" /\ v.used = s.cpu[c].used
  BY Process, VcpuChange
<1> HIDE DEF t, v
<1>3. /\ t \in Machine /\ t.cpu[c] = v /\ \A d \in Cpus \ {c} : t.cpu[d] = s.cpu[d]
      /\ t.sleepers = s.sleepers /\ t.cut = s.cut /\ SameElements(s, t)
      /\ SameRequests(s, t) /\ SameOwn(s, t) /\ SameWreck(s, t)
  BY <1>1, <1>2, PutVcpu
<1> QED BY <1>2, <1>3 DEF t, Waits

LEMMA WakeSenderDoes ==
  ASSUME NEW s \in Machine, NEW i \in Ids, s.req[i].s \in Cpus
  PROVE  LET t == WakeSender(s, i) IN
         /\ t \in Machine /\ Waits(s, t, s.req[i].s, "no")
         /\ t.sleepers = s.sleepers /\ t.cut = s.cut /\ SameElements(s, t)
         /\ t.next_id = s.next_id /\ SameOwn(s, t) /\ SameWreck(s, t)
         /\ \A j \in Ids \ {i} : t.req[j] = s.req[j]
         /\ t.req[i].live = s.req[i].live /\ t.req[i].s = s.req[i].s
         /\ t.req[i].first = s.req[i].first /\ t.req[i].old = s.req[i].old
         /\ t.req[i].flags = s.req[i].flags \ {"SENDERSLEEP"}
<1> DEFINE d == s.req[i].s
           u == Wake(s, d)
           F == s.req[i].flags \ {"SENDERSLEEP"}
           r == WithFlags(s.req[i], F)
           t == WakeSender(s, i)
<1>1. /\ u \in Machine /\ Waits(s, u, d, "no")
      /\ u.sleepers = s.sleepers /\ u.cut = s.cut /\ SameElements(s, u)
      /\ SameRequests(s, u) /\ SameOwn(s, u) /\ SameWreck(s, u)
  BY WakeDoes
<1>2. t = [u EXCEPT !.req[i] = WithFlags(u.req[i], u.req[i].flags \ {"SENDERSLEEP"})]
  BY DEF WakeSender, WithFlags
<1>3. s.req[i] \in Requests
  BY Request
<1>4. F \in FlagSets
  BY <1>3, RequestFields DEF FlagSets
<1> HIDE DEF t, u, d
<1>5. t = SetRequest(u, i, r)
  BY <1>1, <1>2 DEF SameRequests, SetRequest
<1> HIDE DEF F
<1>6. /\ r \in Requests /\ r.live = s.req[i].live /\ r.s = s.req[i].s /\ r.flags = F
      /\ r.first = s.req[i].first /\ r.old = s.req[i].old
  BY <1>3, <1>4, FlagsChange
<1> HIDE DEF r
<1>7. /\ t \in Machine /\ t.req[i] = r /\ \A j \in Ids \ {i} : t.req[j] = u.req[j]
      /\ SameProcesses(u, t) /\ SameElements(u, t) /\ t.next_id = u.next_id
      /\ SameOwn(u, t) /\ SameWreck(u, t)
  BY <1>1, <1>5, <1>6, PutRequest
<1>8. /\ t \in Machine /\ Waits(s, t, d, "no")
      /\ t.sleepers = s.sleepers /\ t.cut = s.cut /\ SameElements(s, t)
      /\ t.next_id = s.next_id /\ SameOwn(s, t) /\ SameWreck(s, t)
      /\ \A j \in Ids \ {i} : t.req[j] = s.req[j]
  BY <1>1, <1>7 DEF SameProcesses, SameElements, SameRequests, SameOwn, SameWreck, Waits
<1> QED BY <1>6, <1>7, <1>8 DEF t, d, F

\* ipc_msg_task_cleanup
LEMMA AsleepDoes ==
  ASSUME NEW s \in Machine, NEW c \in Cpus
  PROVE  LET t == Asleep(s, c) IN
         /\ t \in Machine /\ t.cpu = s.cpu /\ t.cut = s.cut /\ SameElements(s, t)
         /\ SameRequests(s, t) /\ SameOwn(s, t) /\ SameWreck(s, t)
         /\ ToSet(t.sleepers) = ToSet(s.sleepers) \ {c}
         /\ Lists(s) => Lists(t)
<1> DEFINE q == Without(s.sleepers, {c})
           t == Asleep(s, c)
<1>1. t = SetSleepers(s, q)
  BY DEF Asleep, SetSleepers
<1>2. /\ q \in CpuLists /\ ToSet(q) = ToSet(s.sleepers) \ {c}
      /\ IsInjective(s.sleepers) => IsInjective(q)
  <2>1. s.sleepers \in Seq(Cpus)
    BY Tables
  <2> QED BY <2>1, WithoutFacts DEF CpuLists
<1> HIDE DEF t, q
<1>3. /\ t \in Machine /\ t.sleepers = q /\ t.cpu = s.cpu /\ t.cut = s.cut
      /\ SameElements(s, t) /\ SameRequests(s, t) /\ SameOwn(s, t) /\ SameWreck(s, t)
  BY <1>1, <1>2, PutSleepers
<1> QED BY <1>2, <1>3 DEF t, Lists, SameElements, SameOwn

\* A process's own requests go, with their elements.
LEMMA OwnRequestsDoes ==
  ASSUME NEW s \in Machine, NEW c \in Cpus
  PROVE  LET t == OwnRequests(s, c) IN
         /\ t \in Machine /\ SameProcesses(s, t) /\ t.next_id = s.next_id /\ SameWreck(s, t)
         /\ \A d \in Cpus : In(t, d) = In(s, d) \ Own(s, c)
         /\ \A d \in Cpus : Own(t, d) = IF d = c THEN {} ELSE Own(s, d)
         /\ \A i \in Ids \ Own(s, c) : t.req[i] = s.req[i]
         /\ \A i \in Own(s, c) :
              /\ t.req[i].live = FALSE /\ t.req[i].s = s.req[i].s
              /\ t.req[i].first = s.req[i].first
         /\ Lists(s) => Lists(t)
         /\ AddsUp(s) => AddsUp(t)
<1> DEFINE R == Own(s, c)
           u == DropTargets(s, R)
           p == [s.own EXCEPT ![c] = <<>>]
           q == [i \in Ids |-> IF i \in R THEN Freed(s.req[i]) ELSE s.req[i]]
           t == OwnRequests(s, c)
<1>1. /\ u \in Machine
      /\ SameProcesses(s, u) /\ SameRequests(s, u) /\ SameOwn(s, u) /\ SameWreck(s, u)
      /\ \A d \in Cpus : In(u, d) = In(s, d) \ R
      /\ Lists(s) => Lists(u)
      /\ AddsUp(s) => AddsUp(u)
  BY DropTargetsDoes
<1>2. t = [u EXCEPT !.own[c] = <<>>,
                    !.req = [i \in Ids |-> IF i \in R THEN Freed(u.req[i]) ELSE u.req[i]]]
  BY DEF OwnRequests, Own
<1> HIDE DEF t, u, R
<1>3. t = SetOwnReq(u, p, q)
  BY <1>1, <1>2 DEF SetOwnReq, SameRequests, SameOwn
<1>4. p \in ListTables /\ q \in RequestTables
  <2>1. s.own \in ListTables /\ <<>> \in Seq(Ids)
    BY Fields
  <2>2. p \in ListTables
    BY <2>1 DEF ListTables
  <2>3. \A i \in Ids : Freed(s.req[i]) \in Requests /\ s.req[i] \in Requests
    BY Request, FreedFacts
  <2> QED BY <2>2, <2>3 DEF RequestTables
<1>5. /\ \A d \in Cpus \ {c} : p[d] = s.own[d]
      /\ p[c] = <<>>
  BY Fields DEF ListTables
<1>6. /\ \A i \in Ids \ R : q[i] = s.req[i]
      /\ \A i \in R : /\ q[i].live = FALSE /\ q[i].s = s.req[i].s
                      /\ q[i].first = s.req[i].first
  <2>1. R \subseteq Ids
    BY Tables DEF R
  <2>2. \A i \in R : q[i] = Freed(s.req[i]) /\ s.req[i] \in Requests
    BY <2>1, Request
  <2>3. \A i \in Ids \ R : q[i] = s.req[i]
    OBVIOUS
  <2> HIDE DEF q
  <2>4. ASSUME NEW i \in R
        PROVE  q[i].live = FALSE /\ q[i].s = s.req[i].s /\ q[i].first = s.req[i].first
    <3> DEFINE r == s.req[i]
    <3>1. q[i] = Freed(r) /\ r \in Requests
      BY <2>2
    <3> HIDE DEF r
    <3>2. Freed(r).live = FALSE /\ Freed(r).s = r.s /\ Freed(r).first = r.first
      BY <3>1, FreedFacts
    <3> QED BY <3>1, <3>2 DEF r
  <2> QED BY <2>3, <2>4
<1> HIDE DEF p, q
<1>7. /\ t \in Machine /\ t.own = p /\ t.req = q
      /\ SameProcesses(u, t) /\ SameElements(u, t) /\ t.next_id = u.next_id
      /\ SameWreck(u, t)
  BY <1>1, <1>3, <1>4, PutOwnReq
<1>8. /\ SameProcesses(s, t) /\ t.next_id = s.next_id /\ SameWreck(s, t)
      /\ \A d \in Cpus : In(t, d) = In(s, d) \ R
  BY <1>1, <1>7 DEF SameProcesses, SameElements, SameRequests, SameWreck, In
<1>9. ToSet(<<>>) = {} /\ IsInjective(<<>>)
  BY DEF ToSet, IsInjective
<1>10. \A d \in Cpus : Own(t, d) = IF d = c THEN {} ELSE Own(s, d)
  BY <1>5, <1>7, <1>9 DEF Own
<1>11. ASSUME Lists(s) PROVE Lists(t)
  <2>1. t.sleepers = u.sleepers /\ t.incoming = u.incoming
    BY <1>7 DEF SameProcesses, SameElements
  <2>2. \A d \in Cpus : IsInjective(t.own[d])
    BY <1>5, <1>7, <1>9, <1>11 DEF Lists
  <2> QED BY <1>1, <1>11, <2>1, <2>2 DEF Lists
<1>12. ASSUME AddsUp(s) PROVE AddsUp(t)
  BY <1>1, <1>7, <1>12 DEF SameElements, AddsUp, Allocated, Queued
<1> QED BY <1>6, <1>7, <1>8, <1>10, <1>11, <1>12 DEF t, R

\* destroy_task, after the cleanup
LEMMA EndedDoes ==
  ASSUME NEW s \in Machine, NEW c \in Cpus
  PROVE  LET t == Ended(s, c) IN
         /\ t \in Machine /\ t.cpu[c].used = FALSE /\ t.cpu[c].wait = "no"
         /\ \A d \in Cpus \ {c} : t.cpu[d] = s.cpu[d]
         /\ t.sleepers = s.sleepers /\ t.cut = s.cut \ {c} /\ SameElements(s, t)
         /\ SameRequests(s, t) /\ SameOwn(s, t) /\ SameWreck(s, t)
<1> DEFINE q == [s.cpu EXCEPT ![c] = Idle]
           k == s.cut \ {c}
           t == Ended(s, c)
<1>1. t = SetCpuCut(s, q, k)
  BY DEF Ended, SetCpuCut
<1>2. s.cpu \in VcpuTables /\ k \in CpuSets
  BY Fields DEF CpuSets
<1>3. q \in VcpuTables /\ q[c] = Idle /\ \A d \in Cpus \ {c} : q[d] = s.cpu[d]
  BY <1>2, IdleIsOne DEF VcpuTables
<1> HIDE DEF q, t
<1>4. /\ t \in Machine /\ t.cpu = q /\ t.cut = k
      /\ t.sleepers = s.sleepers /\ SameElements(s, t) /\ SameRequests(s, t)
      /\ SameOwn(s, t) /\ SameWreck(s, t)
  <2> HIDE DEF k
  <2> QED BY <1>1, <1>2, <1>3, PutCpuCut
<1> QED BY <1>3, <1>4, IdleIsOne DEF t

-----------------------------------------------------------------------------
(* The invariant through the operations.  D: the processes that are being  *)
(* destroyed; E: the requests that may have lost their last target.        *)

LEMMA KeepsMeans ==
  ASSUME NEW s, NEW h, NEW D, NEW E
  PROVE  Keeps(s, h, D, E) <=>
           /\ Lists(s) /\ Elements(s, h) /\ Owned(s) /\ Numbered(s, h)
           /\ Waiting(s, D, E) /\ Receiving(s, D) /\ Named(s, h) /\ Done(s) /\ AddsUp(s)
  BY DEF Keeps

LEMMA ElementsStay ==
  ASSUME NEW s, NEW t, SameElements(s, t)
  PROVE  /\ \A c \in Cpus : In(t, c) = In(s, c)
         /\ \A i : Targets(t, i) = Targets(s, i)
         /\ AddsUp(s) => AddsUp(t)
  BY DEF SameElements, In, Targets, AddsUp, Allocated, Queued

LEMMA OwnStays ==
  ASSUME NEW s, NEW t, SameOwn(s, t)
  PROVE  \A c \in Cpus : Own(t, c) = Own(s, c)
  BY DEF SameOwn, Own

\* The receiver c of i gives its element back.
LEMMA GiveBackKeeps ==
  ASSUME NEW s \in Machine, NEW h, NEW D, Keeps(s, h, D, {}),
         NEW i \in Ids, NEW c \in Cpus, i \in In(s, c),
         NEW t, t = GiveBack(s, i, c)
  PROVE  Keeps(t, h, D, {i})
<1>1. /\ t \in Machine
      /\ SameProcesses(s, t) /\ SameRequests(s, t) /\ SameOwn(s, t) /\ SameWreck(s, t)
      /\ \A d \in Cpus : In(t, d) = IF d = c THEN In(s, d) \ {i} ELSE In(s, d)
      /\ Lists(s) => Lists(t)
      /\ AddsUp(s) => AddsUp(t)
  BY GiveBackDoes
<1>2. /\ Lists(s) /\ Elements(s, h) /\ Owned(s) /\ Numbered(s, h)
      /\ Waiting(s, D, {}) /\ Receiving(s, D) /\ Named(s, h) /\ Done(s) /\ AddsUp(s)
  BY KeepsMeans
<1>3. \A d \in Cpus : Own(t, d) = Own(s, d)
  BY <1>1, OwnStays
<1>4. t.req = s.req /\ t.next_id = s.next_id /\ t.cpu = s.cpu
      /\ t.sleepers = s.sleepers /\ t.cut = s.cut
  BY <1>1 DEF SameProcesses, SameRequests
<1>5. /\ \A j : Targets(s, j) = {d \in Cpus : j \in In(s, d)}
      /\ \A j : Targets(t, j) = {d \in Cpus : j \in In(t, d)}
  BY <1>1, Receivers
<1>6. Elements(t, h)
  BY <1>1, <1>2, <1>4 DEF Elements
<1>7. Owned(t)
  BY <1>2, <1>3, <1>4 DEF Owned
<1>8. Numbered(t, h) /\ Named(t, h)
  BY <1>2, <1>4 DEF Numbered, Named
<1>9. Waiting(t, D, {i})
  <2>1. ASSUME NEW j \in Ids \ {i} PROVE Targets(t, j) = Targets(s, j)
    <3>1. \A d \in Cpus : j \in In(t, d) <=> j \in In(s, d)
      BY <1>1
    <3> QED BY <3>1, <1>5
  <2>2. \A j \in Ids : Dozes(t, j) <=> Dozes(s, j)
    BY <1>4 DEF Dozes
  <2>3. ASSUME NEW j \in Ids, Dozes(t, j)
        PROVE  /\ j \notin {i} => Targets(t, j) # {}
               /\ j \in Own(t, t.req[j].s)
               /\ t.cpu[t.req[j].s].wait = "send" /\ "NONBLOCK" \notin t.req[j].flags
    <3>1. /\ Targets(s, j) # {} /\ j \in Own(s, s.req[j].s)
          /\ s.cpu[s.req[j].s].wait = "send" /\ "NONBLOCK" \notin s.req[j].flags
      BY <1>2, <2>2, <2>3 DEF Waiting
    <3>2. s.req[j].s \in Cpus
      BY <1>2, <2>2, <2>3 DEF Numbered, Dozes
    <3> QED BY <3>1, <3>2, <2>1, <1>3, <1>4
  <2>4. \A j, k \in Ids : Dozes(t, j) /\ Dozes(t, k) /\ t.req[j].s = t.req[k].s => j = k
    BY <1>2, <1>4, <2>2 DEF Waiting
  <2>5. ASSUME NEW d \in Cpus \ D, t.cpu[d].wait = "send"
        PROVE  \E j \in Own(t, d) : Dozes(t, j)
    <3>1. \E j \in Own(s, d) : Dozes(s, j)
      BY <1>2, <1>4, <2>5 DEF Waiting
    <3>2. Own(s, d) \subseteq Ids
      BY Tables
    <3> QED BY <3>1, <3>2, <2>2, <1>3
  <2> QED BY <2>3, <2>4, <2>5 DEF Waiting
<1>10. Receiving(t, D)
  <2>1. \A d \in Cpus : In(t, d) \subseteq In(s, d)
    BY <1>1
  <2>2. \A d \in Cpus : \A j \in In(s, d) : s.req[j].live /\ j \in Ids /\ s.req[j].s \in Cpus
    BY <1>2, Tables DEF Elements, Numbered
  <2> QED BY <1>2, <1>3, <1>4, <2>1, <2>2 DEF Receiving
<1>11. Done(t)
  BY <1>1, <1>2, <1>4, <1>5 DEF Done
<1> QED BY <1>1, <1>2, <1>6, <1>7, <1>8, <1>9, <1>10, <1>11, KeepsMeans

\* What changes a request without who it is about: its flags COMPLETED and
\* ERROR, and its age.
Marks(s, t, i) ==
  /\ Only(s, t, i)
  /\ t.req[i].live = s.req[i].live /\ t.req[i].s = s.req[i].s
  /\ t.req[i].first = s.req[i].first
  /\ \A f \in {"NONBLOCK", "MULTICAST", "SENDERSLEEP", "ACCEPTED"} :
       f \in t.req[i].flags <=> f \in s.req[i].flags

LEMMA MarksKeeps ==
  ASSUME NEW s \in Machine, NEW h, NEW D, NEW E, Keeps(s, h, D, E),
         NEW i \in Ids, NEW t, Marks(s, t, i),
         "COMPLETED" \in t.req[i].flags =>
           "COMPLETED" \in s.req[i].flags \/ Targets(s, i) = {},
         "ERROR" \in t.req[i].flags =>
           \/ "ERROR" \in s.req[i].flags \/ "NONBLOCK" \in s.req[i].flags
           \/ Targets(s, i) = {}
  PROVE  Keeps(t, h, D, E)
<1>1. /\ Lists(s) /\ Elements(s, h) /\ Owned(s) /\ Numbered(s, h)
      /\ Waiting(s, D, E) /\ Receiving(s, D) /\ Named(s, h) /\ Done(s) /\ AddsUp(s)
  BY KeepsMeans
<1>2. /\ t \in Machine /\ SameProcesses(s, t) /\ SameElements(s, t) /\ SameOwn(s, t)
      /\ t.next_id = s.next_id
  BY DEF Marks, Only
<1>3. /\ \A d \in Cpus : In(t, d) = In(s, d)
      /\ \A j : Targets(t, j) = Targets(s, j)
      /\ AddsUp(t)
  BY <1>1, <1>2, ElementsStay
<1>4. \A d \in Cpus : Own(t, d) = Own(s, d)
  BY <1>2, OwnStays
<1>5. t.cpu = s.cpu /\ t.sleepers = s.sleepers /\ t.cut = s.cut
      /\ t.incoming = s.incoming /\ t.own = s.own
  BY <1>2 DEF SameProcesses, SameElements, SameOwn
<1>6. \A j \in Ids : /\ t.req[j].live = s.req[j].live /\ t.req[j].s = s.req[j].s
                     /\ t.req[j].first = s.req[j].first
                     /\ "ACCEPTED" \in t.req[j].flags <=> "ACCEPTED" \in s.req[j].flags
                     /\ "NONBLOCK" \in t.req[j].flags <=> "NONBLOCK" \in s.req[j].flags
                     /\ "SENDERSLEEP" \in t.req[j].flags <=> "SENDERSLEEP" \in s.req[j].flags
                     /\ "COMPLETED" \in t.req[j].flags =>
                          "COMPLETED" \in s.req[j].flags \/ Targets(s, j) = {}
                     /\ "ERROR" \in t.req[j].flags =>
                          \/ "ERROR" \in s.req[j].flags \/ "NONBLOCK" \in s.req[j].flags
                          \/ Targets(s, j) = {}
  BY DEF Marks, Only
<1>7. \A d \in Cpus : In(s, d) \subseteq Ids /\ Own(s, d) \subseteq Ids
  BY Tables
<1>8. Lists(t)
  BY <1>1, <1>5 DEF Lists
<1>9. Elements(t, h)
  BY <1>1, <1>3, <1>5, <1>6, <1>7 DEF Elements
<1>10. Owned(t)
  BY <1>1, <1>4, <1>5, <1>6, <1>7 DEF Owned
<1>11. Numbered(t, h)
  BY <1>1, <1>2, <1>6 DEF Numbered
<1>12. Named(t, h)
  BY <1>1, <1>6 DEF Named
<1>13. Waiting(t, D, E)
  <2>1. \A j \in Ids : Dozes(t, j) <=> Dozes(s, j)
    BY <1>6 DEF Dozes
  <2>2. \A j \in Ids : Dozes(s, j) => s.req[j].s \in Cpus
    BY <1>1 DEF Numbered, Dozes
  <2>3. \A j \in Ids : Dozes(t, j) =>
          /\ j \notin E => Targets(t, j) # {}
          /\ j \in Own(t, t.req[j].s)
          /\ t.cpu[t.req[j].s].wait = "send" /\ "NONBLOCK" \notin t.req[j].flags
    BY <1>1, <1>3, <1>4, <1>5, <1>6, <2>1, <2>2 DEF Waiting
  <2>4. \A j, k \in Ids : Dozes(t, j) /\ Dozes(t, k) /\ t.req[j].s = t.req[k].s => j = k
    BY <1>1, <1>6, <2>1 DEF Waiting
  <2>5. \A d \in Cpus \ D : t.cpu[d].wait = "send" => \E j \in Own(t, d) : Dozes(t, j)
    BY <1>1, <1>4, <1>5, <1>7, <2>1 DEF Waiting
  <2> QED BY <2>3, <2>4, <2>5 DEF Waiting
<1>14. Receiving(t, D)
  <2>1. \A d \in Cpus : \A j \in In(s, d) : j \in Ids /\ s.req[j].s \in Cpus
    BY <1>1, <1>7 DEF Elements, Numbered
  <2> QED BY <1>1, <1>3, <1>4, <1>5, <1>6, <2>1 DEF Receiving
<1>15. Done(t)
  BY <1>1, <1>3, <1>6 DEF Done
<1> QED BY <1>3, <1>8, <1>9, <1>10, <1>11, <1>12, <1>13, <1>14, <1>15, KeepsMeans

\* An exemption that is not needed.
LEMMA ExemptionEnds ==
  ASSUME NEW s, NEW h, NEW D, NEW i, Keeps(s, h, D, {i}),
         Dozes(s, i) => Targets(s, i) # {}
  PROVE  Keeps(s, h, D, {})
<1>1. Waiting(s, D, {i})
  BY KeepsMeans
<1>2. Waiting(s, D, {})
  BY <1>1 DEF Waiting
<1> QED BY <1>2, KeepsMeans

LEMMA ExemptionStarts ==
  ASSUME NEW s, NEW h, NEW D, NEW E, Keeps(s, h, D, {})
  PROVE  Keeps(s, h, D, E)
<1>1. Waiting(s, D, {})
  BY KeepsMeans
<1>2. Waiting(s, D, E)
  BY <1>1 DEF Waiting
<1> QED BY <1>2, KeepsMeans

\* The sender of i wakes.
LEMMA WakeSenderKeeps ==
  ASSUME NEW s \in Machine, NEW h, NEW D, NEW i \in Ids, Keeps(s, h, D, {i}),
         Dozes(s, i), NEW t, t = WakeSender(s, i)
  PROVE  Keeps(t, h, D, {})
<1>1. /\ Lists(s) /\ Elements(s, h) /\ Owned(s) /\ Numbered(s, h)
      /\ Waiting(s, D, {i}) /\ Receiving(s, D) /\ Named(s, h) /\ Done(s) /\ AddsUp(s)
  BY KeepsMeans
<1> DEFINE d == s.req[i].s
<1>2. d \in Cpus
  BY <1>1 DEF Numbered, Dozes
<1>3. /\ t \in Machine /\ Waits(s, t, d, "no")
      /\ t.sleepers = s.sleepers /\ t.cut = s.cut /\ SameElements(s, t)
      /\ t.next_id = s.next_id /\ SameOwn(s, t) /\ SameWreck(s, t)
      /\ \A j \in Ids \ {i} : t.req[j] = s.req[j]
      /\ t.req[i].live = s.req[i].live /\ t.req[i].s = s.req[i].s
      /\ t.req[i].first = s.req[i].first /\ t.req[i].old = s.req[i].old
      /\ t.req[i].flags = s.req[i].flags \ {"SENDERSLEEP"}
  BY <1>2, WakeSenderDoes
<1>4. /\ \A c \in Cpus : In(t, c) = In(s, c)
      /\ \A j : Targets(t, j) = Targets(s, j)
      /\ AddsUp(t)
  BY <1>1, <1>3, ElementsStay
<1>5. \A c \in Cpus : Own(t, c) = Own(s, c)
  BY <1>3, OwnStays
<1>6. /\ t.cpu[d].wait = "no" /\ t.cpu[d].used = s.cpu[d].used
      /\ \A c \in Cpus \ {d} : t.cpu[c] = s.cpu[c]
  BY <1>3 DEF Waits
<1>7. \A j \in Ids : /\ t.req[j].live = s.req[j].live /\ t.req[j].s = s.req[j].s
                     /\ t.req[j].first = s.req[j].first
                     /\ "ACCEPTED" \in t.req[j].flags <=> "ACCEPTED" \in s.req[j].flags
                     /\ "NONBLOCK" \in t.req[j].flags <=> "NONBLOCK" \in s.req[j].flags
                     /\ "COMPLETED" \in t.req[j].flags <=> "COMPLETED" \in s.req[j].flags
                     /\ "ERROR" \in t.req[j].flags <=> "ERROR" \in s.req[j].flags
  BY <1>3
<1>8. \A c \in Cpus : In(s, c) \subseteq Ids /\ Own(s, c) \subseteq Ids
  BY Tables
<1>9. \A j \in Ids : Dozes(t, j) <=> Dozes(s, j) /\ j # i
  BY <1>3 DEF Dozes
<1>10. s.cpu[d].wait = "send" /\ i \in Own(s, d)
  BY <1>1 DEF Waiting
<1> HIDE DEF d
<1>11. Lists(t)
  BY <1>1, <1>3 DEF Lists, SameElements, SameOwn
<1>12. Elements(t, h)
  BY <1>1, <1>4, <1>6, <1>7, <1>8 DEF Elements
<1>13. Owned(t)
  BY <1>1, <1>5, <1>6, <1>7, <1>8 DEF Owned
<1>14. Numbered(t, h) /\ Named(t, h)
  BY <1>1, <1>3, <1>7 DEF Numbered, Named
<1>15. Done(t)
  BY <1>1, <1>4, <1>7 DEF Done
<1>16. Waiting(t, D, {})
  <2>1. ASSUME NEW j \in Ids, Dozes(t, j)
        PROVE  /\ Targets(t, j) # {} /\ j \in Own(t, t.req[j].s)
               /\ t.cpu[t.req[j].s].wait = "send" /\ "NONBLOCK" \notin t.req[j].flags
    <3>1. Dozes(s, j) /\ j # i
      BY <1>9, <2>1
    <3>2. s.req[j].s \in Cpus /\ s.req[j].s # d
      BY <1>1, <3>1 DEF Numbered, Waiting, Dozes, d
    <3>3. /\ Targets(s, j) # {} /\ j \in Own(s, s.req[j].s)
          /\ s.cpu[s.req[j].s].wait = "send" /\ "NONBLOCK" \notin s.req[j].flags
      BY <1>1, <3>1 DEF Waiting
    <3> QED BY <3>2, <3>3, <1>4, <1>5, <1>6, <1>7
  <2>2. \A j, k \in Ids : Dozes(t, j) /\ Dozes(t, k) /\ t.req[j].s = t.req[k].s => j = k
    BY <1>1, <1>7, <1>9 DEF Waiting
  <2>3. ASSUME NEW c \in Cpus \ D, t.cpu[c].wait = "send"
        PROVE  \E j \in Own(t, c) : Dozes(t, j)
    <3>1. c # d /\ s.cpu[c].wait = "send"
      BY <1>6, <2>3
    <3>2. PICK j \in Own(s, c) : Dozes(s, j)
      BY <1>1, <3>1 DEF Waiting
    <3>3. s.req[j].s = c /\ j \in Ids
      BY <1>1, <1>8, <3>2 DEF Owned
    <3>4. j # i
      BY <3>1, <3>3 DEF d
    <3> QED BY <3>2, <3>3, <3>4, <1>5, <1>9
  <2> QED BY <2>1, <2>2, <2>3 DEF Waiting
<1>17. Receiving(t, D)
  <2>1. \A c \in Cpus : t.cpu[c].wait = "recv" <=> s.cpu[c].wait = "recv"
    BY <1>6, <1>10
  <2>2. \A c \in Cpus : \A j \in In(s, c) : j \in Ids /\ s.req[j].s \in Cpus
    BY <1>1, <1>8 DEF Elements, Numbered
  <2> QED BY <1>1, <1>3, <1>4, <1>5, <1>7, <2>1, <2>2 DEF Receiving
<1> QED BY <1>4, <1>11, <1>12, <1>13, <1>14, <1>15, <1>16, <1>17, KeepsMeans

\* A request that nobody sleeps for leaves its sender's list.
LEMMA UnlinkKeeps ==
  ASSUME NEW s \in Machine, NEW h, NEW D, NEW E, Keeps(s, h, D, E),
         NEW i \in Ids, s.req[i].s \in Cpus, ~ Dozes(s, i),
         NEW t, t = Unlink(s, i), t.wreck = "none"
  PROVE  Keeps(t, h, D, E) /\ \A c \in Cpus : i \notin Own(t, c)
<1>1. /\ Lists(s) /\ Elements(s, h) /\ Owned(s) /\ Numbered(s, h)
      /\ Waiting(s, D, E) /\ Receiving(s, D) /\ Named(s, h) /\ Done(s) /\ AddsUp(s)
  BY KeepsMeans
<1>2. /\ t \in Machine /\ SameProcesses(s, t) /\ SameElements(s, t) /\ SameRequests(s, t)
      /\ \A c \in Cpus : Own(t, c) = IF c = s.req[i].s THEN Own(s, c) \ {i} ELSE Own(s, c)
      /\ Lists(t)
  BY <1>1, UnlinkDoes
<1>3. /\ \A c \in Cpus : In(t, c) = In(s, c)
      /\ \A j : Targets(t, j) = Targets(s, j)
      /\ AddsUp(t)
  BY <1>1, <1>2, ElementsStay
<1>4. t.req = s.req /\ t.next_id = s.next_id /\ t.cpu = s.cpu
      /\ t.sleepers = s.sleepers /\ t.cut = s.cut
  BY <1>2 DEF SameProcesses, SameRequests
<1>5. \A c \in Cpus : In(s, c) \subseteq Ids /\ Own(s, c) \subseteq Ids
  BY Tables
<1>6. \A c \in Cpus : Own(t, c) = Own(s, c) \ {i}
  BY <1>1, <1>2 DEF Owned
<1>7. Elements(t, h) /\ Numbered(t, h) /\ Named(t, h) /\ Done(t)
  BY <1>1, <1>3, <1>4 DEF Elements, Numbered, Named, Done
<1>8. Owned(t)
  BY <1>1, <1>4, <1>6 DEF Owned
<1>9. Waiting(t, D, E)
  <2>1. \A j \in Ids : Dozes(t, j) <=> Dozes(s, j)
    BY <1>4 DEF Dozes
  <2>2. \A j \in Ids : Dozes(s, j) => s.req[j].s \in Cpus /\ j # i
    BY <1>1 DEF Numbered, Dozes
  <2>3. \A j \in Ids : Dozes(t, j) =>
          /\ j \notin E => Targets(t, j) # {}
          /\ j \in Own(t, t.req[j].s)
          /\ t.cpu[t.req[j].s].wait = "send" /\ "NONBLOCK" \notin t.req[j].flags
    BY <1>1, <1>3, <1>4, <1>6, <2>1, <2>2 DEF Waiting
  <2>4. \A j, k \in Ids : Dozes(t, j) /\ Dozes(t, k) /\ t.req[j].s = t.req[k].s => j = k
    BY <1>1, <1>4, <2>1 DEF Waiting
  <2>5. ASSUME NEW c \in Cpus \ D, t.cpu[c].wait = "send"
        PROVE  \E j \in Own(t, c) : Dozes(t, j)
    <3>1. PICK j \in Own(s, c) : Dozes(s, j)
      BY <1>1, <1>4, <2>5 DEF Waiting
    <3> QED BY <3>1, <1>5, <1>6, <2>1, <2>2
  <2> QED BY <2>3, <2>4, <2>5 DEF Waiting
<1>10. Receiving(t, D)
  <2>1. \A c \in Cpus : \A j \in In(s, c) : j \in Ids /\ s.req[j].s \in Cpus
    BY <1>1, <1>5 DEF Elements, Numbered
  <2> QED BY <1>1, <1>3, <1>4, <1>6, <2>1 DEF Receiving
<1> QED BY <1>2, <1>3, <1>6, <1>7, <1>8, <1>9, <1>10, KeepsMeans

\* A request on no list is given back.
LEMMA ForgetKeeps ==
  ASSUME NEW s \in Machine, NEW h, NEW D, NEW i \in Ids, Keeps(s, h, D, {i}),
         ~ Dozes(s, i), \A c \in Cpus : i \notin Own(s, c),
         NEW t, t = Forget(s, i), t.wreck = "none"
  PROVE  Keeps(t, h, D, {})
<1>1. /\ Lists(s) /\ Elements(s, h) /\ Owned(s) /\ Numbered(s, h)
      /\ Waiting(s, D, {i}) /\ Receiving(s, D) /\ Named(s, h) /\ Done(s) /\ AddsUp(s)
  BY KeepsMeans
<1>2. /\ t \in Machine /\ \A j \in Ids \ {i} : t.req[j] = s.req[j]
      /\ SameProcesses(s, t) /\ SameElements(s, t) /\ t.next_id = s.next_id /\ SameOwn(s, t)
      /\ t.req[i].live = FALSE /\ t.req[i].s = s.req[i].s
      /\ t.req[i].first = s.req[i].first
      /\ \A c \in Cpus : i \notin In(s, c)
  BY ForgetDoes
<1>3. /\ \A c \in Cpus : In(t, c) = In(s, c)
      /\ \A j : Targets(t, j) = Targets(s, j)
      /\ AddsUp(t)
  BY <1>1, <1>2, ElementsStay
<1>4. t.cpu = s.cpu /\ t.sleepers = s.sleepers /\ t.cut = s.cut
      /\ t.incoming = s.incoming /\ t.own = s.own
  BY <1>2 DEF SameProcesses, SameElements, SameOwn
<1>5. \A c \in Cpus : In(s, c) \subseteq Ids \ {i} /\ Own(s, c) \subseteq Ids \ {i}
  BY <1>2, Tables
<1>6. \A c \in Cpus : Own(t, c) = Own(s, c)
  BY <1>2, OwnStays
<1>7. Lists(t)
  BY <1>1, <1>4 DEF Lists
<1>8. Elements(t, h)
  BY <1>1, <1>2, <1>3, <1>4, <1>5 DEF Elements
<1>9. Owned(t)
  BY <1>1, <1>2, <1>4, <1>5, <1>6 DEF Owned
<1>10. Numbered(t, h) /\ Named(t, h) /\ Done(t)
  BY <1>1, <1>2, <1>3 DEF Numbered, Named, Done
<1>11. Waiting(t, D, {})
  <2>1. \A j \in Ids : Dozes(t, j) <=> Dozes(s, j)
    BY <1>2 DEF Dozes
  <2>2. \A j \in Ids : Dozes(s, j) => s.req[j].s \in Cpus /\ j # i
    BY <1>1 DEF Numbered, Dozes
  <2>3. \A j \in Ids : Dozes(t, j) =>
          /\ Targets(t, j) # {} /\ j \in Own(t, t.req[j].s)
          /\ t.cpu[t.req[j].s].wait = "send" /\ "NONBLOCK" \notin t.req[j].flags
    BY <1>1, <1>2, <1>3, <1>4, <1>6, <2>1, <2>2 DEF Waiting
  <2>4. \A j, k \in Ids : Dozes(t, j) /\ Dozes(t, k) /\ t.req[j].s = t.req[k].s => j = k
    BY <1>1, <1>2, <2>1, <2>2 DEF Waiting
  <2>5. \A c \in Cpus \ D : t.cpu[c].wait = "send" => \E j \in Own(t, c) : Dozes(t, j)
    BY <1>1, <1>4, <1>5, <1>6, <2>1 DEF Waiting
  <2> QED BY <2>3, <2>4, <2>5 DEF Waiting
<1>12. Receiving(t, D)
  <2>1. \A c \in Cpus : \A j \in In(s, c) : j \in Ids \ {i} /\ s.req[j].s \in Cpus
    BY <1>1, <1>5 DEF Elements, Numbered
  <2> QED BY <1>1, <1>2, <1>3, <1>4, <1>6, <2>1 DEF Receiving
<1> QED BY <1>3, <1>7, <1>8, <1>9, <1>10, <1>11, <1>12, KeepsMeans

\* A request that nobody sleeps for ends.
LEMMA CloseKeeps ==
  ASSUME NEW s \in Machine, NEW h, NEW D, NEW i \in Ids, Keeps(s, h, D, {i}),
         s.req[i].live, "SENDERSLEEP" \notin s.req[i].flags,
         NEW t, t = Forget(Unlink(s, i), i), t.wreck = "none"
  PROVE  Keeps(t, h, D, {})
<1> DEFINE u == Unlink(s, i)
<1>1. s.req[i].s \in Cpus
  BY KeepsMeans DEF Numbered
<1>2. u \in Machine /\ SameRequests(s, u)
  BY UnlinkDoes
<1>3. ~ Dozes(s, i) /\ ~ Dozes(u, i)
  BY <1>2 DEF Dozes, SameRequests
<1> HIDE DEF u
<1>4. t = Forget(u, i)
  BY DEF u
<1>5. u.wreck = "none"
  <2>1. Forget(u, i).wreck = "none" => u.wreck = "none"
    BY <1>2, ForgetDoes
  <2> QED BY <1>4, <2>1
<1>6. Keeps(u, h, D, {i}) /\ \A c \in Cpus : i \notin Own(u, c)
  BY <1>1, <1>3, <1>5, UnlinkKeeps DEF u
<1> QED BY <1>2, <1>3, <1>4, <1>6, ForgetKeeps

\* The requests R lose their elements.
LEMMA DropTargetsKeeps ==
  ASSUME NEW s \in Machine, NEW h, NEW D, Keeps(s, h, D, {}),
         NEW R, NEW t, t = DropTargets(s, R)
  PROVE  Keeps(t, h, D, R)
<1>1. /\ Lists(s) /\ Elements(s, h) /\ Owned(s) /\ Numbered(s, h)
      /\ Waiting(s, D, {}) /\ Receiving(s, D) /\ Named(s, h) /\ Done(s) /\ AddsUp(s)
  BY KeepsMeans
<1>2. /\ t \in Machine
      /\ SameProcesses(s, t) /\ SameRequests(s, t) /\ SameOwn(s, t) /\ SameWreck(s, t)
      /\ \A d \in Cpus : In(t, d) = In(s, d) \ R
      /\ Lists(t) /\ AddsUp(t)
  BY <1>1, DropTargetsDoes
<1>3. t.req = s.req /\ t.next_id = s.next_id /\ t.cpu = s.cpu
      /\ t.sleepers = s.sleepers /\ t.cut = s.cut
  BY <1>2 DEF SameProcesses, SameRequests
<1>4. \A d \in Cpus : Own(t, d) = Own(s, d)
  BY <1>2, OwnStays
<1>5. \A d \in Cpus : In(s, d) \subseteq Ids /\ Own(s, d) \subseteq Ids
  BY Tables
<1>6. /\ \A j : Targets(s, j) = {d \in Cpus : j \in In(s, d)}
      /\ \A j : Targets(t, j) = {d \in Cpus : j \in In(t, d)}
  BY <1>2, Receivers
<1>7. Elements(t, h)
  BY <1>1, <1>2, <1>3 DEF Elements
<1>8. Owned(t) /\ Numbered(t, h) /\ Named(t, h)
  BY <1>1, <1>3, <1>4 DEF Owned, Numbered, Named
<1>9. Done(t)
  BY <1>1, <1>2, <1>3, <1>6 DEF Done
<1>10. Waiting(t, D, R)
  <2>1. ASSUME NEW j \in Ids, j \notin R PROVE Targets(t, j) = Targets(s, j)
    <3>1. \A d \in Cpus : j \in In(t, d) <=> j \in In(s, d)
      BY <1>2, <2>1
    <3> QED BY <3>1, <1>6
  <2>2. \A j \in Ids : Dozes(t, j) <=> Dozes(s, j)
    BY <1>3 DEF Dozes
  <2>3. \A j \in Ids : Dozes(s, j) => s.req[j].s \in Cpus
    BY <1>1 DEF Numbered, Dozes
  <2>4. \A j \in Ids : Dozes(t, j) =>
          /\ j \notin R => Targets(t, j) # {}
          /\ j \in Own(t, t.req[j].s)
          /\ t.cpu[t.req[j].s].wait = "send" /\ "NONBLOCK" \notin t.req[j].flags
    BY <1>1, <1>3, <1>4, <2>1, <2>2, <2>3 DEF Waiting
  <2>5. \A j, k \in Ids : Dozes(t, j) /\ Dozes(t, k) /\ t.req[j].s = t.req[k].s => j = k
    BY <1>1, <1>3, <2>2 DEF Waiting
  <2>6. \A d \in Cpus \ D : t.cpu[d].wait = "send" => \E j \in Own(t, d) : Dozes(t, j)
    BY <1>1, <1>3, <1>4, <1>5, <2>2 DEF Waiting
  <2> QED BY <2>4, <2>5, <2>6 DEF Waiting
<1>11. Receiving(t, D)
  <2>1. \A d \in Cpus : \A j \in In(s, d) : j \in Ids /\ s.req[j].s \in Cpus
    BY <1>1, <1>5 DEF Elements, Numbered
  <2> QED BY <1>1, <1>2, <1>3, <1>4, <2>1 DEF Receiving
<1> QED BY <1>2, <1>7, <1>8, <1>9, <1>10, <1>11, KeepsMeans

\* ipc_msg_task_cleanup and the process's own requests
LEMMA OwnRequestsKeeps ==
  ASSUME NEW s \in Machine, NEW h, NEW D, Keeps(s, h, D, {}), NEW c \in Cpus,
         NEW t, t = OwnRequests(Asleep(s, c), c)
  PROVE  Keeps(t, h, D \cup {c}, {}) /\ Own(t, c) = {}
<1>1. /\ Lists(s) /\ Elements(s, h) /\ Owned(s) /\ Numbered(s, h)
      /\ Waiting(s, D, {}) /\ Receiving(s, D) /\ Named(s, h) /\ Done(s) /\ AddsUp(s)
  BY KeepsMeans
<1> DEFINE u == Asleep(s, c)
           R == Own(s, c)
<1>2. /\ u \in Machine /\ u.cpu = s.cpu /\ u.cut = s.cut /\ SameElements(s, u)
      /\ SameRequests(s, u) /\ SameOwn(s, u) /\ SameWreck(s, u)
      /\ ToSet(u.sleepers) = ToSet(s.sleepers) \ {c}
      /\ Lists(u)
  BY <1>1, AsleepDoes
<1> HIDE DEF u
<1>3. /\ \A d \in Cpus : In(u, d) = In(s, d)
      /\ AddsUp(u)
      /\ \A d \in Cpus : Own(u, d) = Own(s, d)
  BY <1>1, <1>2, ElementsStay, OwnStays
<1>4. /\ t \in Machine /\ SameProcesses(u, t) /\ t.next_id = u.next_id /\ SameWreck(u, t)
      /\ \A d \in Cpus : In(t, d) = In(u, d) \ Own(u, c)
      /\ \A d \in Cpus : Own(t, d) = IF d = c THEN {} ELSE Own(u, d)
      /\ \A i \in Ids \ Own(u, c) : t.req[i] = u.req[i]
      /\ \A i \in Own(u, c) :
           /\ t.req[i].live = FALSE /\ t.req[i].s = u.req[i].s
           /\ t.req[i].first = u.req[i].first
      /\ Lists(t)
      /\ AddsUp(t)
  <2>1. t = OwnRequests(u, c)
    BY DEF u
  <2> DEFINE y == OwnRequests(u, c)
  <2>2. /\ y \in Machine /\ SameProcesses(u, y) /\ y.next_id = u.next_id /\ SameWreck(u, y)
        /\ \A d \in Cpus : In(y, d) = In(u, d) \ Own(u, c)
        /\ \A d \in Cpus : Own(y, d) = IF d = c THEN {} ELSE Own(u, d)
        /\ \A i \in Ids \ Own(u, c) : y.req[i] = u.req[i]
        /\ \A i \in Own(u, c) :
             /\ y.req[i].live = FALSE /\ y.req[i].s = u.req[i].s
             /\ y.req[i].first = u.req[i].first
        /\ Lists(u) => Lists(y)
        /\ AddsUp(u) => AddsUp(y)
    BY <1>2, OwnRequestsDoes
  <2> HIDE DEF y
  <2>3. t = y
    BY <2>1 DEF y
  <2> QED BY <1>2, <1>3, <2>2, <2>3
<1>5. /\ t.next_id = s.next_id /\ t.cpu = s.cpu /\ t.cut = s.cut
      /\ ToSet(t.sleepers) = ToSet(s.sleepers) \ {c}
      /\ \A d \in Cpus : In(t, d) = In(s, d) \ R
      /\ \A d \in Cpus : Own(t, d) = IF d = c THEN {} ELSE Own(s, d)
      /\ \A i \in Ids \ R : t.req[i] = s.req[i]
      /\ \A i \in R : /\ t.req[i].live = FALSE /\ t.req[i].s = s.req[i].s
                      /\ t.req[i].first = s.req[i].first
  BY <1>2, <1>3, <1>4 DEF SameProcesses, SameRequests
<1>6. \A d \in Cpus : In(s, d) \subseteq Ids /\ Own(s, d) \subseteq Ids
  BY Tables
<1>7. \A j \in R : s.req[j].s = c /\ j \in Ids
  BY <1>1, <1>6 DEF Owned
<1>8. \A j \in Ids : t.req[j].live => j \notin R
  BY <1>5
<1> HIDE DEF R
<1>9. /\ \A j : Targets(s, j) = {d \in Cpus : j \in In(s, d)}
      /\ \A j : Targets(t, j) = {d \in Cpus : j \in In(t, d)}
  BY <1>4, Receivers
<1>10. ASSUME NEW j \in Ids, j \notin R PROVE Targets(t, j) = Targets(s, j)
  <2>1. \A d \in Cpus : j \in In(t, d) <=> j \in In(s, d)
    BY <1>5, <1>10
  <2> QED BY <1>9, <2>1
<1>11. Elements(t, h)
  BY <1>1, <1>5, <1>6 DEF Elements
<1>12. \A d \in Cpus \ {c} : \A j \in Own(s, d) : j \in Ids \ R
  BY <1>1, <1>6, <1>7 DEF Owned
<1>13. Owned(t)
  BY <1>1, <1>5, <1>12 DEF Owned
<1>14. Numbered(t, h) /\ Named(t, h)
  <2>1. ASSUME NEW j \in Ids
        PROVE  /\ t.req[j].s = s.req[j].s /\ t.req[j].first = s.req[j].first
               /\ t.req[j].live => t.req[j] = s.req[j]
    BY <1>5, <1>8
  <2> QED BY <1>1, <1>5, <2>1 DEF Numbered, Named
<1>15. Done(t)
  BY <1>1, <1>5, <1>8, <1>10 DEF Done
<1>16. Waiting(t, D \cup {c}, {})
  <2>1. \A j \in Ids : Dozes(t, j) => Dozes(s, j) /\ j \notin R
    BY <1>5, <1>8 DEF Dozes
  <2>2. \A j \in Ids \ R : Dozes(s, j) => s.req[j].s \in Cpus \ {c}
    BY <1>1 DEF Numbered, Waiting, Dozes, R
  <2>3. ASSUME NEW j \in Ids, Dozes(t, j)
        PROVE  /\ Targets(t, j) # {} /\ j \in Own(t, t.req[j].s)
               /\ t.cpu[t.req[j].s].wait = "send" /\ "NONBLOCK" \notin t.req[j].flags
    <3>1. Dozes(s, j) /\ j \notin R /\ s.req[j].s \in Cpus \ {c} /\ t.req[j] = s.req[j]
      BY <1>5, <2>1, <2>2, <2>3
    <3>2. /\ Targets(s, j) # {} /\ j \in Own(s, s.req[j].s)
          /\ s.cpu[s.req[j].s].wait = "send" /\ "NONBLOCK" \notin s.req[j].flags
      BY <1>1, <3>1 DEF Waiting
    <3> QED BY <3>1, <3>2, <1>5, <1>10
  <2>4. \A j, k \in Ids : Dozes(t, j) /\ Dozes(t, k) /\ t.req[j].s = t.req[k].s => j = k
    BY <1>1, <1>5, <2>1 DEF Waiting
  <2>5. ASSUME NEW d \in Cpus \ (D \cup {c}), t.cpu[d].wait = "send"
        PROVE  \E j \in Own(t, d) : Dozes(t, j)
    <3>1. PICK j \in Own(s, d) : Dozes(s, j)
      BY <1>1, <1>5, <2>5 DEF Waiting
    <3>2. j \in Ids \ R
      BY <1>12
    <3> QED BY <3>1, <3>2, <1>5 DEF Dozes
  <2> QED BY <2>3, <2>4, <2>5 DEF Waiting
<1>17. Receiving(t, D \cup {c})
  <2>1. \A d \in Cpus : \A j \in In(t, d) :
          j \in In(s, d) /\ t.req[j] = s.req[j] /\ s.req[j].s \in Cpus
    BY <1>1, <1>5, <1>6 DEF Elements, Numbered
  <2>2. \A d \in Cpus : Own(t, d) \subseteq Own(s, d)
    BY <1>5
  <2>3. \A d \in Cpus : d \in ToSet(t.sleepers) <=> t.cpu[d].wait = "recv" /\ d \notin D \cup {c}
    BY <1>1, <1>5 DEF Receiving
  <2> QED BY <1>1, <1>5, <2>1, <2>2, <2>3 DEF Receiving
<1> QED BY <1>4, <1>5, <1>11, <1>13, <1>14, <1>15, <1>16, <1>17, KeepsMeans

\* destroy_task, when the process has lost everything
LEMMA EndedKeeps ==
  ASSUME NEW s \in Machine, NEW h, NEW D, NEW c \in Cpus, Keeps(s, h, D \cup {c}, {}),
         Own(s, c) = {}, In(s, c) = {}, NEW t, t = Ended(s, c)
  PROVE  Keeps(t, h, D, {})
<1>1. /\ Lists(s) /\ Elements(s, h) /\ Owned(s) /\ Numbered(s, h)
      /\ Waiting(s, D \cup {c}, {}) /\ Receiving(s, D \cup {c}) /\ Named(s, h) /\ Done(s) /\ AddsUp(s)
  BY KeepsMeans
<1>2. /\ t \in Machine /\ t.cpu[c].used = FALSE /\ t.cpu[c].wait = "no"
      /\ \A d \in Cpus \ {c} : t.cpu[d] = s.cpu[d]
      /\ t.sleepers = s.sleepers /\ t.cut = s.cut \ {c} /\ SameElements(s, t)
      /\ SameRequests(s, t) /\ SameOwn(s, t) /\ SameWreck(s, t)
  BY EndedDoes
<1>3. /\ \A d \in Cpus : In(t, d) = In(s, d)
      /\ \A j : Targets(t, j) = Targets(s, j)
      /\ AddsUp(t)
      /\ \A d \in Cpus : Own(t, d) = Own(s, d)
  BY <1>1, <1>2, ElementsStay, OwnStays
<1>4. t.req = s.req /\ t.next_id = s.next_id /\ t.incoming = s.incoming /\ t.own = s.own
  BY <1>2 DEF SameRequests, SameElements, SameOwn
<1>5. \A d \in Cpus : In(s, d) \subseteq Ids /\ Own(s, d) \subseteq Ids
  BY Tables
<1>6. Lists(t)
  BY <1>1, <1>2, <1>4 DEF Lists
<1>7. Elements(t, h)
  BY <1>1, <1>2, <1>3, <1>4 DEF Elements
<1>8. Owned(t)
  BY <1>1, <1>2, <1>3, <1>4 DEF Owned
<1>9. Numbered(t, h) /\ Named(t, h) /\ Done(t)
  BY <1>1, <1>3, <1>4 DEF Numbered, Named, Done
<1>10. Waiting(t, D, {})
  <2>1. \A j \in Ids : Dozes(t, j) <=> Dozes(s, j)
    BY <1>4 DEF Dozes
  <2>2. \A j \in Ids : Dozes(s, j) => s.req[j].s \in Cpus \ {c}
    BY <1>1 DEF Numbered, Waiting, Dozes
  <2>3. \A j \in Ids : Dozes(t, j) =>
          /\ Targets(t, j) # {} /\ j \in Own(t, t.req[j].s)
          /\ t.cpu[t.req[j].s].wait = "send" /\ "NONBLOCK" \notin t.req[j].flags
    BY <1>1, <1>2, <1>3, <1>4, <2>1, <2>2 DEF Waiting
  <2>4. \A j, k \in Ids : Dozes(t, j) /\ Dozes(t, k) /\ t.req[j].s = t.req[k].s => j = k
    BY <1>1, <1>4, <2>1 DEF Waiting
  <2>5. ASSUME NEW d \in Cpus \ D, t.cpu[d].wait = "send"
        PROVE  \E j \in Own(t, d) : Dozes(t, j)
    <3>1. d \in Cpus \ (D \cup {c}) /\ s.cpu[d].wait = "send"
      BY <1>2, <2>5
    <3> QED BY <1>1, <1>3, <1>5, <2>1, <3>1 DEF Waiting
  <2> QED BY <2>3, <2>4, <2>5 DEF Waiting
<1>11. Receiving(t, D)
  <2>1. \A d \in Cpus : \A j \in In(s, d) : j \in Ids /\ s.req[j].s \in Cpus
    BY <1>1, <1>5 DEF Elements, Numbered
  <2>2. \A d \in Cpus : d \in ToSet(t.sleepers) <=> t.cpu[d].wait = "recv" /\ d \notin D
    BY <1>1, <1>2 DEF Receiving
  <2>3. ASSUME NEW d \in Cpus \ D, t.cpu[d].wait = "recv", d \notin t.cut
        PROVE  \A j \in In(t, d) : j \notin Own(t, t.req[j].s)
    <3>1. d \in Cpus \ (D \cup {c}) /\ s.cpu[d].wait = "recv" /\ d \notin s.cut
      BY <1>2, <2>3
    <3> QED BY <1>1, <1>3, <1>4, <2>1, <3>1 DEF Receiving
  <2> QED BY <2>2, <2>3 DEF Receiving
<1> QED BY <1>3, <1>6, <1>7, <1>8, <1>9, <1>10, <1>11, KeepsMeans

\* The sleep of the sender of i ends, and i with it.
LEMMA SleepEnds ==
  ASSUME NEW s \in Machine, NEW h, NEW i \in Ids, Keeps(s, h, {}, {}), Dozes(s, i),
         NEW c \in Cpus, s.req[i].s = c,
         NEW t \in Machine, t.next_id = s.next_id,
         t.sleepers = s.sleepers, t.cut = s.cut, Waits(s, t, c, "no"),
         \A j \in Ids \ {i} : t.req[j] = s.req[j],
         t.req[i].live = FALSE, t.req[i].s = s.req[i].s, t.req[i].first = s.req[i].first,
         \A d \in Cpus : In(t, d) = In(s, d) \ {i}, AddsUp(t),
         \A d \in Cpus : Own(t, d) = Own(s, d) \ {i}, Lists(t)
  PROVE  Keeps(t, h, {}, {})
<1>1. /\ Lists(s) /\ Elements(s, h) /\ Owned(s) /\ Numbered(s, h)
      /\ Waiting(s, {}, {}) /\ Receiving(s, {}) /\ Named(s, h) /\ Done(s) /\ AddsUp(s)
  BY KeepsMeans
<1>13. \A d \in Cpus : In(s, d) \subseteq Ids /\ Own(s, d) \subseteq Ids
  BY Tables
<1>14. /\ \A j : Targets(s, j) = {d \in Cpus : j \in In(s, d)}
       /\ \A j : Targets(t, j) = {d \in Cpus : j \in In(t, d)}
  BY Receivers
<1>15. ASSUME NEW j \in Ids \ {i} PROVE Targets(t, j) = Targets(s, j)
  <2>1. \A d \in Cpus : j \in In(t, d) <=> j \in In(s, d)
    OBVIOUS
  <2> QED BY <1>14, <2>1
<1>16. /\ t.cpu[c].wait = "no" /\ t.cpu[c].used = s.cpu[c].used
       /\ \A d \in Cpus \ {c} : t.cpu[d] = s.cpu[d]
       /\ s.cpu[c].wait = "send"
  BY <1>1 DEF Waits, Waiting
<1>17. Elements(t, h)
  BY <1>1, <1>13, <1>16 DEF Elements
<1>18. Owned(t)
  BY <1>1, <1>13, <1>16 DEF Owned
<1>19. Numbered(t, h) /\ Named(t, h) /\ Done(t)
  BY <1>1, <1>15 DEF Numbered, Named, Done
<1>20. Waiting(t, {}, {})
  <2>1. \A j \in Ids : Dozes(t, j) <=> Dozes(s, j) /\ j # i
    BY DEF Dozes
  <2>2. \A j \in Ids \ {i} : Dozes(s, j) => s.req[j].s \in Cpus \ {c}
    BY <1>1 DEF Numbered, Waiting, Dozes
  <2>3. \A j \in Ids : Dozes(t, j) =>
          /\ Targets(t, j) # {} /\ j \in Own(t, t.req[j].s)
          /\ t.cpu[t.req[j].s].wait = "send" /\ "NONBLOCK" \notin t.req[j].flags
    BY <1>1, <1>15, <1>16, <2>1, <2>2 DEF Waiting
  <2>4. \A j, k \in Ids : Dozes(t, j) /\ Dozes(t, k) /\ t.req[j].s = t.req[k].s => j = k
    BY <1>1, <2>1 DEF Waiting
  <2>5. ASSUME NEW d \in Cpus, t.cpu[d].wait = "send"
        PROVE  \E j \in Own(t, d) : Dozes(t, j)
    <3>1. d # c /\ s.cpu[d].wait = "send"
      BY <1>16, <2>5
    <3>2. PICK j \in Own(s, d) : Dozes(s, j)
      BY <1>1, <3>1 DEF Waiting
    <3>3. s.req[j].s = d /\ j \in Ids
      BY <1>1, <1>13, <3>2 DEF Owned
    <3> QED BY <3>1, <3>2, <3>3, <2>1
  <2> QED BY <2>3, <2>4, <2>5 DEF Waiting
<1>21. Receiving(t, {})
  <2>1. \A d \in Cpus : t.cpu[d].wait = "recv" <=> s.cpu[d].wait = "recv"
    BY <1>16
  <2>2. \A d \in Cpus : \A j \in In(t, d) :
          j \in In(s, d) /\ t.req[j] = s.req[j] /\ s.req[j].s \in Cpus
    BY <1>1, <1>13 DEF Elements, Numbered
  <2> QED BY <1>1, <2>1, <2>2 DEF Receiving
<1> QED BY <1>17, <1>18, <1>19, <1>20, <1>21, KeepsMeans

\* The timer ends the sleep of the sender of i.
LEMMA ExpiredSleepKeeps ==
  ASSUME NEW s \in Machine, NEW h, NEW i \in Ids, Keeps(s, h, {}, {}), Dozes(s, i),
         NEW c \in Cpus, s.req[i].s = c,
         NEW t, t = Forget(Unlink(DropTargets(Wake(s, c), {i}), i), i), t.wreck = "none"
  PROVE  Keeps(t, h, {}, {})
<1> DEFINE x == Wake(s, c)
           u == DropTargets(x, {i})
           v == Unlink(u, i)
           y == Forget(v, i)
<1>1. /\ Lists(s) /\ Elements(s, h) /\ Owned(s) /\ Numbered(s, h)
      /\ Waiting(s, {}, {}) /\ Receiving(s, {}) /\ Named(s, h) /\ Done(s) /\ AddsUp(s)
  BY KeepsMeans
<1>2. /\ x \in Machine /\ Waits(s, x, c, "no")
      /\ x.sleepers = s.sleepers /\ x.cut = s.cut /\ SameElements(s, x)
      /\ SameRequests(s, x) /\ SameOwn(s, x) /\ SameWreck(s, x)
  BY WakeDoes
<1>3. /\ \A d \in Cpus : In(x, d) = In(s, d)
      /\ AddsUp(x) /\ Lists(x)
      /\ \A d \in Cpus : Own(x, d) = Own(s, d)
  <2>1. Lists(x)
    BY <1>1, <1>2 DEF Lists, SameElements, SameOwn
  <2> HIDE DEF x
  <2> QED BY <1>1, <1>2, <2>1, ElementsStay, OwnStays
<1> HIDE DEF x
<1>4. /\ u \in Machine
      /\ SameProcesses(x, u) /\ SameRequests(x, u) /\ SameOwn(x, u) /\ SameWreck(x, u)
      /\ \A d \in Cpus : In(u, d) = In(x, d) \ {i}
      /\ Lists(u) /\ AddsUp(u)
  BY <1>2, <1>3, DropTargetsDoes
<1> HIDE DEF u
<1>5. u.req[i].s = c
  BY <1>2, <1>4 DEF SameRequests
<1>6. /\ v \in Machine /\ SameProcesses(u, v) /\ SameElements(u, v) /\ SameRequests(u, v)
      /\ v.wreck = "none" =>
           /\ \A d \in Cpus : Own(v, d) = IF d = c THEN Own(u, d) \ {i} ELSE Own(u, d)
           /\ Lists(v)
  BY <1>4, <1>5, UnlinkDoes
<1> HIDE DEF v
<1>7. /\ y \in Machine /\ \A j \in Ids \ {i} : y.req[j] = v.req[j]
      /\ SameProcesses(v, y) /\ SameElements(v, y) /\ y.next_id = v.next_id /\ SameOwn(v, y)
      /\ y.req[i].live = FALSE /\ y.req[i].s = v.req[i].s
      /\ y.req[i].first = v.req[i].first
      /\ y.wreck = "none" => v.wreck = "none"
  BY <1>6, ForgetDoes
<1>8. t = y
  BY DEF v, u, x
<1> HIDE DEF y
<1>9. v.wreck = "none"
  BY <1>7, <1>8
<1>10. /\ y \in Machine /\ y.next_id = s.next_id
       /\ y.sleepers = s.sleepers /\ y.cut = s.cut /\ Waits(s, y, c, "no")
       /\ \A j \in Ids \ {i} : y.req[j] = s.req[j]
       /\ y.req[i].live = FALSE /\ y.req[i].s = s.req[i].s
       /\ y.req[i].first = s.req[i].first
  BY <1>2, <1>4, <1>6, <1>7 DEF SameProcesses, SameRequests, Waits
<1>11. /\ \A d \in Cpus : In(y, d) = In(s, d) \ {i}
       /\ AddsUp(y)
  <2>1. \A d \in Cpus : In(v, d) = In(u, d) /\ AddsUp(v)
    BY <1>4, <1>6, ElementsStay
  <2>2. \A d \in Cpus : In(y, d) = In(v, d) /\ AddsUp(y)
    BY <1>7, <2>1, ElementsStay
  <2> QED BY <1>3, <1>4, <2>1, <2>2
<1>12. /\ \A d \in Cpus : Own(y, d) = Own(s, d) \ {i}
       /\ Lists(y)
  <2>1. \A d \in Cpus : Own(u, d) = Own(s, d)
    BY <1>3, <1>4, OwnStays
  <2>2. \A d \in Cpus : Own(v, d) = Own(s, d) \ {i}
    BY <1>1, <1>6, <1>9, <2>1 DEF Owned
  <2>3. \A d \in Cpus : Own(y, d) = Own(v, d)
    BY <1>7, OwnStays
  <2>4. Lists(y)
    BY <1>6, <1>7, <1>9 DEF Lists, SameProcesses, SameElements, SameOwn
  <2> QED BY <2>2, <2>3, <2>4
<1>13. Keeps(y, h, {}, {})
  BY <1>10, <1>11, <1>12, SleepEnds
<1> QED BY <1>8, <1>13


-----------------------------------------------------------------------------
(* What every call leaves alone but IPC_MSG_SEND and IPC_MSG_RECV's first  *)
(* half: requests end and processes end, and nothing comes to anybody.     *)

Loses(s, t) ==
  /\ t.next_id = s.next_id
  /\ \A i \in Ids : /\ t.req[i].s = s.req[i].s /\ t.req[i].first = s.req[i].first
                    /\ t.req[i].live => s.req[i].live
  /\ \A c \in Cpus : t.cpu[c].used => s.cpu[c].used
  /\ \A c \in Cpus : In(t, c) \subseteq In(s, c)
  /\ t.wreck = "none" => s.wreck = "none"
  /\ ~ t.twice => ~ s.twice

\* Own lists only lose requests.
Shrinks(s, t) == \A c \in Cpus : Own(t, c) \subseteq Own(s, c)

\* Whoever sleeps for an answer, and whose time is not up, sleeps on or ends.
Steady(s, t) ==
  /\ Shrinks(s, t)
  /\ \A i \in Ids : Dozes(s, i) /\ ~ s.req[i].old =>
       (Dozes(t, i) /\ ~ t.req[i].old) \/ ~ t.cpu[s.req[i].s].used

Known(s) == \A c \in Cpus : \A i \in In(s, c) : s.req[i].s \in Cpus

LEMMA Sender ==
  ASSUME NEW s \in Machine, NEW h, NEW D, NEW E, Keeps(s, h, D, E)
  PROVE  Known(s) /\ \A i \in Ids : s.req[i].live => s.req[i].s \in Cpus
<1>1. Elements(s, h) /\ Numbered(s, h)
  BY KeepsMeans
<1>2. \A c \in Cpus : In(s, c) \subseteq Ids
  BY Tables
<1> QED BY <1>1, <1>2 DEF Known, Elements, Numbered

LEMMA LosesSelf ==
  ASSUME NEW s
  PROVE  Loses(s, s)
  BY DEF Loses

LEMMA LosesChain ==
  ASSUME NEW s, NEW t, NEW u, Loses(s, t), Loses(t, u)
  PROVE  Loses(s, u)
  BY DEF Loses

LEMMA SteadySelf ==
  ASSUME NEW s
  PROVE  Steady(s, s)
  BY DEF Steady, Shrinks

LEMMA SteadyChain ==
  ASSUME NEW s \in Machine, NEW t, NEW u, Loses(s, t), Loses(t, u), Steady(s, t), Steady(t, u),
         \A i \in Ids : s.req[i].live => s.req[i].s \in Cpus
  PROVE  Steady(s, u)
<1>1. Shrinks(s, u)
  BY DEF Steady, Shrinks
<1>2. ASSUME NEW i \in Ids, Dozes(s, i), ~ s.req[i].old
      PROVE  (Dozes(u, i) /\ ~ u.req[i].old) \/ ~ u.cpu[s.req[i].s].used
  <2>1. s.req[i].s \in Cpus /\ t.req[i].s = s.req[i].s
    BY <1>2 DEF Loses, Dozes
  <2>2. CASE ~ t.cpu[s.req[i].s].used
    BY <2>1, <2>2 DEF Loses
  <2>3. CASE Dozes(t, i) /\ ~ t.req[i].old
    BY <2>1, <2>3 DEF Steady
  <2> QED BY <1>2, <2>2, <2>3 DEF Steady
<1> QED BY <1>1, <1>2 DEF Steady

LEMMA KnownStays ==
  ASSUME NEW s \in Machine, NEW t \in Machine, Loses(s, t), Known(s)
  PROVE  Known(t)
<1>1. \A c \in Cpus : In(t, c) \subseteq In(s, c) /\ In(s, c) \subseteq Ids
  BY Tables DEF Loses
<1> QED BY <1>1 DEF Known, Loses

LEMMA GiveBackLoses ==
  ASSUME NEW s \in Machine, NEW i \in Ids, NEW c \in Cpus, NEW t, t = GiveBack(s, i, c)
  PROVE  /\ t \in Machine /\ Loses(s, t) /\ Steady(s, t) /\ i \notin In(t, c)
         /\ SameProcesses(s, t)
<1> DEFINE y == GiveBack(s, i, c)
<1>1. /\ y \in Machine
      /\ SameProcesses(s, y) /\ SameRequests(s, y) /\ SameOwn(s, y) /\ SameWreck(s, y)
      /\ \A d \in Cpus : In(y, d) = IF d = c THEN In(s, d) \ {i} ELSE In(s, d)
  BY GiveBackDoes
<1>2. t = y
  OBVIOUS
<1> HIDE DEF y
<1>3. \A d \in Cpus : Own(y, d) = Own(s, d)
  BY <1>1, OwnStays
<1>4. Loses(s, y)
  BY <1>1 DEF Loses, SameProcesses, SameRequests, SameWreck
<1>5. Steady(s, y)
  BY <1>1, <1>3 DEF Steady, Shrinks, SameRequests, Dozes
<1> QED BY <1>1, <1>2, <1>4, <1>5

LEMMA DropTargetsLoses ==
  ASSUME NEW s \in Machine, NEW R, NEW t, t = DropTargets(s, R)
  PROVE  t \in Machine /\ Loses(s, t) /\ Steady(s, t)
<1> DEFINE y == DropTargets(s, R)
<1>1. /\ y \in Machine
      /\ SameProcesses(s, y) /\ SameRequests(s, y) /\ SameOwn(s, y) /\ SameWreck(s, y)
      /\ \A d \in Cpus : In(y, d) = In(s, d) \ R
  BY DropTargetsDoes
<1>2. t = y
  OBVIOUS
<1> HIDE DEF y
<1>3. \A d \in Cpus : Own(y, d) = Own(s, d)
  BY <1>1, OwnStays
<1>4. Loses(s, y)
  BY <1>1 DEF Loses, SameProcesses, SameRequests, SameWreck
<1>5. Steady(s, y)
  BY <1>1, <1>3 DEF Steady, Shrinks, SameRequests, Dozes
<1> QED BY <1>1, <1>2, <1>4, <1>5

LEMMA MarksLoses ==
  ASSUME NEW s \in Machine, NEW i \in Ids, NEW t, Marks(s, t, i),
         t.req[i].old => s.req[i].old
  PROVE  t \in Machine /\ Loses(s, t) /\ Steady(s, t)
<1>1. /\ t \in Machine /\ \A j \in Ids \ {i} : t.req[j] = s.req[j]
      /\ SameProcesses(s, t) /\ SameElements(s, t) /\ t.next_id = s.next_id
      /\ SameOwn(s, t) /\ SameWreck(s, t)
      /\ t.req[i].live = s.req[i].live /\ t.req[i].s = s.req[i].s
      /\ t.req[i].first = s.req[i].first
      /\ "SENDERSLEEP" \in t.req[i].flags <=> "SENDERSLEEP" \in s.req[i].flags
  BY DEF Marks, Only
<1>2. \A d \in Cpus : In(t, d) = In(s, d) /\ Own(t, d) = Own(s, d)
  BY <1>1, ElementsStay, OwnStays
<1>3. Loses(s, t)
  BY <1>1, <1>2 DEF Loses, SameProcesses, SameWreck
<1>4. Steady(s, t)
  BY <1>1, <1>2 DEF Steady, Shrinks, Dozes
<1> QED BY <1>1, <1>3, <1>4

LEMMA FlaggedMarks ==
  ASSUME NEW s \in Machine, NEW i \in Ids,
         NEW F \in SUBSET {"COMPLETED", "ERROR"}, NEW t, t = Flagged(s, i, F)
  PROVE  /\ Marks(s, t, i) /\ t.req[i].old = s.req[i].old
         /\ t.req[i].flags = s.req[i].flags \cup F
<1> DEFINE y == Flagged(s, i, F)
<1>1. F \in FlagSets
  BY DEF FlagSets
<1>2. /\ Only(s, y, i)
      /\ y.req[i].live = s.req[i].live /\ y.req[i].s = s.req[i].s
      /\ y.req[i].first = s.req[i].first /\ y.req[i].old = s.req[i].old
      /\ y.req[i].flags = s.req[i].flags \cup F
  BY <1>1, FlaggedDoes
<1>3. t = y
  OBVIOUS
<1> HIDE DEF y
<1>4. \A f \in {"NONBLOCK", "MULTICAST", "SENDERSLEEP", "ACCEPTED"} : f \notin F
  OBVIOUS
<1> QED BY <1>2, <1>3, <1>4 DEF Marks

LEMMA TouchedMarks ==
  ASSUME NEW s \in Machine, NEW i \in Ids, NEW t, t = Touched(s, i)
  PROVE  /\ Marks(s, t, i) /\ t.req[i].old = FALSE
         /\ t.req[i].flags = s.req[i].flags
<1> DEFINE y == Touched(s, i)
<1>2. /\ Only(s, y, i)
      /\ y.req[i].live = s.req[i].live /\ y.req[i].s = s.req[i].s
      /\ y.req[i].first = s.req[i].first /\ y.req[i].old = FALSE
      /\ y.req[i].flags = s.req[i].flags
  BY TouchedDoes
<1>3. t = y
  OBVIOUS
<1> HIDE DEF y
<1> QED BY <1>2, <1>3 DEF Marks

LEMMA UnlinkLoses ==
  ASSUME NEW s \in Machine, NEW i \in Ids, NEW t, t = Unlink(s, i)
  PROVE  /\ t \in Machine /\ Loses(s, t) /\ SameRequests(s, t) /\ SameProcesses(s, t)
         /\ t.wreck = "none" /\ s.req[i].s \in Cpus => Steady(s, t)
<1> DEFINE y == Unlink(s, i)
<1>1. /\ y \in Machine /\ SameProcesses(s, y) /\ SameElements(s, y) /\ SameRequests(s, y)
      /\ y.wreck = "none" => s.wreck = "none"
      /\ y.twice = s.twice
      /\ y.wreck = "none" /\ s.req[i].s \in Cpus =>
           \A c \in Cpus : Own(y, c) = IF c = s.req[i].s THEN Own(s, c) \ {i} ELSE Own(s, c)
  BY UnlinkDoes
<1>2. t = y
  OBVIOUS
<1> HIDE DEF y
<1>3. \A c \in Cpus : In(y, c) = In(s, c)
  BY <1>1, ElementsStay
<1>4. Loses(s, y)
  BY <1>1, <1>3 DEF Loses, SameProcesses, SameRequests
<1>5. ASSUME y.wreck = "none", s.req[i].s \in Cpus PROVE Steady(s, y)
  BY <1>1, <1>5 DEF Steady, Shrinks, SameRequests, Dozes
<1> QED BY <1>1, <1>2, <1>4, <1>5

LEMMA ForgetLoses ==
  ASSUME NEW s \in Machine, NEW i \in Ids, NEW t, t = Forget(s, i)
  PROVE  /\ t \in Machine /\ Loses(s, t) /\ SameProcesses(s, t) /\ SameOwn(s, t)
         /\ \A j \in Ids \ {i} : t.req[j] = s.req[j]
         /\ t.req[i].live = FALSE
         /\ ~ Dozes(s, i) => Steady(s, t)
<1> DEFINE y == Forget(s, i)
<1>1. /\ y \in Machine /\ \A j \in Ids \ {i} : y.req[j] = s.req[j]
      /\ SameProcesses(s, y) /\ SameElements(s, y) /\ y.next_id = s.next_id /\ SameOwn(s, y)
      /\ y.req[i].live = FALSE /\ y.req[i].s = s.req[i].s
      /\ y.req[i].first = s.req[i].first
      /\ y.wreck = "none" => s.wreck = "none"
      /\ y.twice = s.twice
  BY ForgetDoes
<1>2. t = y
  OBVIOUS
<1> HIDE DEF y
<1>3. \A c \in Cpus : In(y, c) = In(s, c) /\ Own(y, c) = Own(s, c)
  BY <1>1, ElementsStay, OwnStays
<1>4. Loses(s, y)
  BY <1>1, <1>3 DEF Loses, SameProcesses
<1>5. ASSUME ~ Dozes(s, i) PROVE Steady(s, y)
  BY <1>1, <1>3, <1>5 DEF Steady, Shrinks, Dozes
<1> QED BY <1>1, <1>2, <1>4, <1>5

LEMMA WakeLoses ==
  ASSUME NEW s \in Machine, NEW c \in Cpus, NEW t, t = Wake(s, c)
  PROVE  t \in Machine /\ Loses(s, t) /\ Steady(s, t) /\ SameRequests(s, t)
<1> DEFINE y == Wake(s, c)
<1>1. /\ y \in Machine /\ Waits(s, y, c, "no")
      /\ SameElements(s, y) /\ SameRequests(s, y) /\ SameOwn(s, y) /\ SameWreck(s, y)
  BY WakeDoes
<1>2. t = y
  OBVIOUS
<1> HIDE DEF y
<1>3. \A d \in Cpus : In(y, d) = In(s, d) /\ Own(y, d) = Own(s, d)
  BY <1>1, ElementsStay, OwnStays
<1>4. \A d \in Cpus : y.cpu[d].used = s.cpu[d].used
  BY <1>1 DEF Waits
<1>5. Loses(s, y)
  BY <1>1, <1>3, <1>4 DEF Loses, SameRequests, SameWreck
<1>6. Steady(s, y)
  BY <1>1, <1>3 DEF Steady, Shrinks, SameRequests, Dozes
<1> QED BY <1>1, <1>2, <1>5, <1>6

\* The sender of i is to be told.
LEMMA WakeSenderLoses ==
  ASSUME NEW s \in Machine, NEW i \in Ids, s.req[i].s \in Cpus, NEW t, t = WakeSender(s, i)
  PROVE  /\ t \in Machine /\ Loses(s, t) /\ \A j \in Ids \ {i} : t.req[j] = s.req[j]
         /\ t.req[i].live = s.req[i].live
         /\ t.req[i].flags = s.req[i].flags \ {"SENDERSLEEP"}
<1> DEFINE y == WakeSender(s, i)
<1>1. /\ y \in Machine /\ Waits(s, y, s.req[i].s, "no")
      /\ SameElements(s, y)
      /\ y.next_id = s.next_id /\ SameOwn(s, y) /\ SameWreck(s, y)
      /\ \A j \in Ids \ {i} : y.req[j] = s.req[j]
      /\ y.req[i].live = s.req[i].live /\ y.req[i].s = s.req[i].s
      /\ y.req[i].first = s.req[i].first
      /\ y.req[i].flags = s.req[i].flags \ {"SENDERSLEEP"}
  BY WakeSenderDoes
<1>2. t = y
  OBVIOUS
<1> HIDE DEF y
<1>3. \A d \in Cpus : In(y, d) = In(s, d)
  BY <1>1, ElementsStay
<1>4. \A d \in Cpus : y.cpu[d].used = s.cpu[d].used
  BY <1>1 DEF Waits
<1>5. Loses(s, y)
  BY <1>1, <1>3, <1>4 DEF Loses, SameWreck
<1> QED BY <1>1, <1>2, <1>5

\* The sender of i is told: it wakes, and i leaves its list.
LEMMA AwakeLoses ==
  ASSUME NEW s \in Machine, NEW i \in Ids, s.req[i].s \in Cpus, NEW t, t = Awake(s, i)
  PROVE  t \in Machine /\ Loses(s, t)
<1> DEFINE u == WakeSender(s, i)
           y == Unlink(u, i)
<1>1. u \in Machine /\ Loses(s, u)
  BY WakeSenderLoses
<1>2. t = y
  BY DEF Awake
<1> HIDE DEF u
<1>3. y \in Machine /\ Loses(u, y)
  BY <1>1, UnlinkLoses
<1> HIDE DEF y
<1> QED BY <1>1, <1>2, <1>3, LosesChain

LEMMA AwakeKeeps ==
  ASSUME NEW s \in Machine, NEW h, NEW D, NEW i \in Ids, Keeps(s, h, D, {i}),
         Dozes(s, i), NEW t, t = Awake(s, i), t.wreck = "none"
  PROVE  Keeps(t, h, D, {}) /\ Shrinks(s, t) /\ \A c \in Cpus : i \notin Own(t, c)
<1> DEFINE u == WakeSender(s, i)
<1>1. s.req[i].s \in Cpus
  BY Sender DEF Dozes
<1>2. /\ u \in Machine /\ SameOwn(s, u) /\ u.req[i].s = s.req[i].s
      /\ u.req[i].flags = s.req[i].flags \ {"SENDERSLEEP"}
  BY <1>1, WakeSenderDoes
<1>3. Keeps(u, h, D, {})
  BY WakeSenderKeeps
<1>4. t = Unlink(u, i)
  BY DEF Awake
<1> HIDE DEF u
<1>5. ~ Dozes(u, i)
  BY <1>2 DEF Dozes
<1>6. Keeps(t, h, D, {}) /\ \A c \in Cpus : i \notin Own(t, c)
  BY <1>1, <1>2, <1>3, <1>4, <1>5, UnlinkKeeps
<1>7. Steady(u, t)
  BY <1>1, <1>2, <1>4, UnlinkLoses
<1>8. \A c \in Cpus : Own(u, c) = Own(s, c)
  BY <1>2, OwnStays
<1> QED BY <1>6, <1>7, <1>8 DEF Steady, Shrinks

\* ipc_msg_task_cleanup, the own requests of c, and its end
LEMMA OwnRequestsLoses ==
  ASSUME NEW s \in Machine, NEW c \in Cpus, NEW t, t = OwnRequests(Asleep(s, c), c)
  PROVE  /\ t \in Machine /\ Loses(s, t) /\ t.cpu = s.cpu
         /\ \A d \in Cpus : Own(t, d) \subseteq Own(s, d)
         /\ \A i \in Ids \ Own(s, c) : t.req[i] = s.req[i]
<1> DEFINE u == Asleep(s, c)
           y == OwnRequests(u, c)
<1>1. /\ u \in Machine /\ u.cpu = s.cpu /\ SameElements(s, u)
      /\ SameRequests(s, u) /\ SameOwn(s, u) /\ SameWreck(s, u)
  BY AsleepDoes
<1>2. t = y
  OBVIOUS
<1> HIDE DEF u
<1>3. \A d \in Cpus : In(u, d) = In(s, d) /\ Own(u, d) = Own(s, d)
  BY <1>1, ElementsStay, OwnStays
<1>4. /\ y \in Machine /\ SameProcesses(u, y) /\ y.next_id = u.next_id /\ SameWreck(u, y)
      /\ \A d \in Cpus : In(y, d) = In(u, d) \ Own(u, c)
      /\ \A d \in Cpus : Own(y, d) = IF d = c THEN {} ELSE Own(u, d)
      /\ \A i \in Ids \ Own(u, c) : y.req[i] = u.req[i]
      /\ \A i \in Own(u, c) :
           /\ y.req[i].live = FALSE /\ y.req[i].s = u.req[i].s
           /\ y.req[i].first = u.req[i].first
  BY <1>1, OwnRequestsDoes
<1> HIDE DEF y
<1>5. /\ y.next_id = s.next_id /\ y.cpu = s.cpu /\ y.wreck = s.wreck /\ y.twice = s.twice
      /\ \A d \in Cpus : In(y, d) \subseteq In(s, d) /\ Own(y, d) \subseteq Own(s, d)
      /\ \A i \in Ids \ Own(s, c) : y.req[i] = s.req[i]
      /\ \A i \in Own(s, c) : /\ y.req[i].live = FALSE /\ y.req[i].s = s.req[i].s
                              /\ y.req[i].first = s.req[i].first
  BY <1>1, <1>3, <1>4 DEF SameProcesses, SameRequests, SameWreck
<1>6. Loses(s, y)
  BY <1>5 DEF Loses
<1> QED BY <1>2, <1>4, <1>5, <1>6

LEMMA EndedLoses ==
  ASSUME NEW s \in Machine, NEW c \in Cpus, NEW t, t = Ended(s, c)
  PROVE  /\ t \in Machine /\ Loses(s, t) /\ Steady(s, t) /\ t.cpu[c].used = FALSE
<1> DEFINE y == Ended(s, c)
<1>1. /\ y \in Machine /\ y.cpu[c].used = FALSE
      /\ \A d \in Cpus \ {c} : y.cpu[d] = s.cpu[d]
      /\ SameElements(s, y) /\ SameRequests(s, y) /\ SameOwn(s, y) /\ SameWreck(s, y)
  BY EndedDoes
<1>2. t = y
  OBVIOUS
<1> HIDE DEF y
<1>3. \A d \in Cpus : In(y, d) = In(s, d) /\ Own(y, d) = Own(s, d)
  BY <1>1, ElementsStay, OwnStays
<1>4. Loses(s, y)
  BY <1>1, <1>3 DEF Loses, SameRequests, SameWreck
<1>5. Steady(s, y)
  BY <1>1, <1>3 DEF Steady, Shrinks, SameRequests, Dozes
<1> QED BY <1>1, <1>2, <1>4, <1>5

-----------------------------------------------------------------------------
(* The end of a process *)

\* What no list, no request and no process depends on.
LEMMA KeepsSame ==
  ASSUME NEW s, NEW t, SameProcesses(s, t), SameElements(s, t), SameRequests(s, t), SameOwn(s, t)
  PROVE  /\ \A h, D, E : Keeps(s, h, D, E) => Keeps(t, h, D, E)
         /\ Steady(s, t)
         /\ SameWreck(s, t) => Loses(s, t)
<1>1. /\ t.cpu = s.cpu /\ t.sleepers = s.sleepers /\ t.cut = s.cut
      /\ t.incoming = s.incoming /\ t.free = s.free /\ t.blocks = s.blocks /\ t.lost = s.lost
      /\ t.req = s.req /\ t.next_id = s.next_id /\ t.own = s.own
  BY DEF SameProcesses, SameElements, SameRequests, SameOwn
<1>2. \A c : In(t, c) = In(s, c) /\ Own(t, c) = Own(s, c)
  BY <1>1 DEF In, Own
<1>3. /\ \A i : Targets(t, i) = Targets(s, i) /\ (Dozes(t, i) <=> Dozes(s, i))
      /\ AddsUp(s) => AddsUp(t)
  BY <1>1 DEF Targets, Dozes, AddsUp, Allocated, Queued
<1>4. Steady(s, t) /\ (SameWreck(s, t) => Loses(s, t))
  BY <1>1, <1>2, <1>3 DEF Steady, Shrinks, Loses, SameWreck
<1>5. ASSUME NEW h, NEW D, NEW E, Keeps(s, h, D, E) PROVE Keeps(t, h, D, E)
  <2>1. /\ Lists(s) /\ Elements(s, h) /\ Owned(s) /\ Numbered(s, h)
        /\ Waiting(s, D, E) /\ Receiving(s, D) /\ Named(s, h) /\ Done(s) /\ AddsUp(s)
    BY <1>5, KeepsMeans
  <2>2. Lists(t)
    BY <1>1, <2>1 DEF Lists
  <2>3. Elements(t, h) /\ Owned(t) /\ Numbered(t, h) /\ Named(t, h) /\ Done(t)
    BY <1>1, <1>2, <1>3, <2>1 DEF Elements, Owned, Numbered, Named, Done
  <2>4. Waiting(t, D, E)
    BY <1>1, <1>2, <1>3, <2>1 DEF Waiting
  <2>5. Receiving(t, D)
    BY <1>1, <1>2, <1>3, <2>1 DEF Receiving
  <2> QED BY <1>3, <2>1, <2>2, <2>3, <2>4, <2>5, KeepsMeans
<1> QED BY <1>4, <1>5

LEMMA TwiceDoes ==
  ASSUME NEW s \in Machine, NEW t, t = FreedTwice(s)
  PROVE  /\ t \in Machine /\ Loses(s, t) /\ Shrinks(s, t) /\ t.wreck = s.wreck /\ t.twice
         /\ \A h, D, E : Keeps(s, h, D, E) => Keeps(t, h, D, E)
<1>1. /\ t \in Machine /\ t.wreck = s.wreck /\ t.twice
      /\ SameProcesses(s, t) /\ SameElements(s, t) /\ SameRequests(s, t) /\ SameOwn(s, t)
  BY PutTwice
<1>2. /\ \A h, D, E : Keeps(s, h, D, E) => Keeps(t, h, D, E)
      /\ Steady(s, t)
  BY <1>1, KeepsSame
<1>3. \A d \in Cpus : In(t, d) = In(s, d)
  BY <1>1, ElementsStay
<1>4. Loses(s, t)
  BY <1>1, <1>3 DEF Loses, SameProcesses, SameRequests
<1> QED BY <1>1, <1>2, <1>4 DEF Steady

\* What follows from s for t, as long as no list is spoiled; D: the processes
\* that are about to end.
Follows(s, h, D, t) ==
  t.wreck = "none" /\ Keeps(s, h, D, {}) =>
    Keeps(t, h, D, {}) /\ Shrinks(s, t) /\ (~ t.twice => Steady(s, t))

\* What comes of the end of a process, also amid the end of others.
Ends(s, h, t) == t \in Machine /\ Loses(s, t) /\ Follows(s, h, {}, t)
EndsAmid(s, h, t) ==
  t \in Machine /\ Loses(s, t) /\ \A D \in SUBSET Cpus : Follows(s, h, D, t)

LEMMA ShrinksChain ==
  ASSUME NEW s, NEW t, NEW u, Shrinks(s, t), Shrinks(t, u)
  PROVE  Shrinks(s, u)
  BY DEF Shrinks

LEMMA FollowsSelf ==
  ASSUME NEW s, NEW h, NEW D
  PROVE  Follows(s, h, D, s)
  BY SteadySelf DEF Follows, Steady

LEMMA FollowsChain ==
  ASSUME NEW s \in Machine, NEW h, NEW D, NEW t, NEW u, Loses(s, t), Loses(t, u),
         Follows(s, h, D, t), Follows(t, h, D, u)
  PROVE  Follows(s, h, D, u)
<1> SUFFICES ASSUME u.wreck = "none", Keeps(s, h, D, {})
             PROVE  Keeps(u, h, D, {}) /\ Shrinks(s, u) /\ (~ u.twice => Steady(s, u))
  BY DEF Follows
<1>1. t.wreck = "none" /\ (~ u.twice => ~ t.twice)
  BY DEF Loses
<1>2. /\ Keeps(t, h, D, {}) /\ Shrinks(s, t) /\ (~ t.twice => Steady(s, t))
      /\ Keeps(u, h, D, {}) /\ Shrinks(t, u) /\ (~ u.twice => Steady(t, u))
  BY <1>1 DEF Follows
<1>3. \A i \in Ids : s.req[i].live => s.req[i].s \in Cpus
  BY Sender
<1>4. ASSUME ~ u.twice PROVE Steady(s, u)
  BY <1>1, <1>2, <1>3, <1>4, SteadyChain
<1> QED BY <1>2, <1>4, ShrinksChain

LEMMA AmidSelf ==
  ASSUME NEW s \in Machine, NEW h
  PROVE  EndsAmid(s, h, s)
  BY LosesSelf, FollowsSelf DEF EndsAmid

LEMMA AmidChain ==
  ASSUME NEW s \in Machine, NEW h, NEW t, NEW u, EndsAmid(s, h, t), EndsAmid(t, h, u)
  PROVE  EndsAmid(s, h, u)
<1>1. Loses(s, u)
  BY LosesChain DEF EndsAmid
<1> QED BY <1>1, FollowsChain DEF EndsAmid

LEMMA AmidEnds ==
  ASSUME NEW s, NEW h, NEW t, EndsAmid(s, h, t)
  PROVE  Ends(s, h, t)
  BY DEF EndsAmid, Ends

LEMMA EndsSelf ==
  ASSUME NEW s \in Machine, NEW h
  PROVE  Ends(s, h, s)
  BY AmidSelf, AmidEnds

LEMMA EndsChain ==
  ASSUME NEW s \in Machine, NEW h, NEW t, NEW u, Ends(s, h, t), Ends(t, h, u)
  PROVE  Ends(s, h, u)
<1>1. Loses(s, u)
  BY LosesChain DEF Ends
<1> QED BY <1>1, FollowsChain DEF Ends

\* syscall_task_cleanup: the receiver c of i has gone.
LEMMA GoneLoses ==
  ASSUME NEW s \in Machine, NEW i \in Ids, NEW c \in Cpus, NEW t, t = Gone(s, i, c)
  PROVE  t \in Machine /\ Loses(s, t) /\ Steady(s, t) /\ i \notin In(t, c)
         /\ t.req[i].live = s.req[i].live
<1> DEFINE u == GiveBack(s, i, c)
           F == IF Has(u, i, "ACCEPTED") THEN {"COMPLETED"} ELSE {"ERROR"}
           v == Flagged(u, i, F)
<1>1. u \in Machine /\ Loses(s, u) /\ Steady(s, u) /\ i \notin In(u, c)
  BY GiveBackLoses
<1>2. u.req[i].live = s.req[i].live
  BY GiveBackDoes DEF SameRequests
<1>3. t = IF Targets(u, i) # {} THEN u ELSE v
  BY DEF Gone
<1> HIDE DEF u
<1>4. F \in SUBSET {"COMPLETED", "ERROR"}
  OBVIOUS
<1> HIDE DEF F
<1>5. Marks(u, v, i) /\ v.req[i].old = u.req[i].old
  BY <1>1, <1>4, FlaggedMarks
<1> HIDE DEF v
<1>6. v \in Machine /\ Loses(u, v) /\ Steady(u, v) /\ v.req[i].live = u.req[i].live
  BY <1>1, <1>5, MarksLoses DEF Marks
<1>7. Loses(s, v) /\ i \notin In(v, c)
  BY <1>1, <1>6, LosesChain DEF Loses
<1>8. Steady(s, v)
  <2>1. \A j \in Ids : u.req[j].s = s.req[j].s /\ u.cpu = s.cpu /\ u.req = s.req
    BY GiveBackDoes DEF SameRequests, SameProcesses, u
  <2>2. SameProcesses(u, v)
    BY <1>5 DEF Marks, Only
  <2> QED BY <1>1, <1>6, <2>1, <2>2 DEF Steady, Shrinks, SameProcesses, Dozes
<1> QED BY <1>1, <1>2, <1>3, <1>6, <1>7, <1>8

LEMMA GoneKeeps ==
  ASSUME NEW s \in Machine, NEW h, NEW D, Keeps(s, h, D, {}),
         NEW i \in Ids, NEW c \in Cpus, i \in In(s, c), NEW t, t = Gone(s, i, c)
  PROVE  Keeps(t, h, D, {i})
<1> DEFINE u == GiveBack(s, i, c)
           F == IF Has(u, i, "ACCEPTED") THEN {"COMPLETED"} ELSE {"ERROR"}
           v == Flagged(u, i, F)
<1>1. u \in Machine /\ Keeps(u, h, D, {i})
  BY GiveBackLoses, GiveBackKeeps
<1>2. t = IF Targets(u, i) # {} THEN u ELSE v
  BY DEF Gone
<1> HIDE DEF u
<1>3. F \in SUBSET {"COMPLETED", "ERROR"}
  OBVIOUS
<1> HIDE DEF F
<1>4. Marks(u, v, i)
  BY <1>1, <1>3, FlaggedMarks
<1> HIDE DEF v
<1>5. ASSUME Targets(u, i) = {} PROVE Keeps(v, h, D, {i})
  BY <1>1, <1>4, <1>5, MarksKeeps
<1> QED BY <1>1, <1>2, <1>5

\* The rest of it, for a request that waited for nobody else.
LEMMA ReleaseLoses ==
  ASSUME NEW s \in Machine, NEW i \in Ids, NEW told \in Machine, Loses(s, told),
         NEW t, t = Release(s, i, told)
  PROVE  t \in Machine /\ Loses(s, t)
<1>1. CASE Targets(s, i) # {}
  BY <1>1, LosesSelf DEF Release
<1>2. CASE Targets(s, i) = {} /\ Has(s, i, "NONBLOCK")
  <2>1. t = Touched(s, i)
    BY <1>2 DEF Release
  <2> QED BY <2>1, TouchedMarks, MarksLoses
<1>3. CASE Targets(s, i) = {} /\ ~ Has(s, i, "NONBLOCK") /\ Has(s, i, "SENDERSLEEP")
  <2> DEFINE u == Forget(told, i)
  <2>1. t = FreedTwice(u)
    BY <1>3 DEF Release
  <2>2. u \in Machine /\ Loses(told, u)
    BY ForgetLoses
  <2> HIDE DEF u
  <2>3. t \in Machine /\ Loses(u, t)
    BY <2>1, <2>2, TwiceDoes
  <2>4. Loses(s, u)
    BY <2>2, LosesChain
  <2> QED BY <2>3, <2>4, LosesChain
<1>4. CASE Targets(s, i) = {} /\ ~ Has(s, i, "NONBLOCK") /\ ~ Has(s, i, "SENDERSLEEP")
  <2> DEFINE u == Unlink(s, i)
  <2>1. t = Forget(u, i)
    BY <1>4 DEF Release
  <2>2. u \in Machine /\ Loses(s, u)
    BY UnlinkLoses
  <2> HIDE DEF u
  <2>3. t \in Machine /\ Loses(u, t)
    BY <2>1, <2>2, ForgetLoses
  <2> QED BY <2>2, <2>3, LosesChain
<1> QED BY <1>1, <1>2, <1>3, <1>4

\* Closing i disturbs nobody who sleeps.
LEMMA CloseSteady ==
  ASSUME NEW s \in Machine, NEW i \in Ids, s.req[i].s \in Cpus, ~ Dozes(s, i),
         NEW t, t = Forget(Unlink(s, i), i), t.wreck = "none"
  PROVE  Steady(s, t)
<1> DEFINE u == Unlink(s, i)
<1>1. /\ u \in Machine /\ SameRequests(s, u) /\ SameProcesses(s, u)
      /\ u.wreck = "none" => Steady(s, u)
  BY UnlinkLoses
<1> HIDE DEF u
<1>2. t = Forget(u, i)
  BY DEF u
<1>3. ~ Dozes(u, i)
  BY <1>1 DEF SameRequests, Dozes
<1>4. t \in Machine /\ Loses(u, t) /\ Steady(u, t) /\ SameProcesses(u, t)
  BY <1>1, <1>2, <1>3, ForgetLoses
<1>5. u.wreck = "none"
  BY <1>4 DEF Loses
<1> QED BY <1>1, <1>4, <1>5 DEF Steady, Shrinks, SameRequests, SameProcesses, Dozes

LEMMA CloseLoses ==
  ASSUME NEW s \in Machine, NEW i \in Ids, NEW t, t = Forget(Unlink(s, i), i)
  PROVE  t \in Machine /\ Loses(s, t) /\ SameProcesses(s, t)
<1> DEFINE u == Unlink(s, i)
<1>1. u \in Machine /\ Loses(s, u) /\ SameProcesses(s, u)
  BY UnlinkLoses
<1> HIDE DEF u
<1>2. t = Forget(u, i)
  BY DEF u
<1>3. t \in Machine /\ Loses(u, t) /\ SameProcesses(u, t)
  BY <1>1, <1>2, ForgetLoses
<1>4. SameProcesses(s, t)
  BY <1>1, <1>3 DEF SameProcesses
<1> QED BY <1>1, <1>3, <1>4, LosesChain

LEMMA ReleaseKeeps ==
  ASSUME NEW s \in Machine, NEW h, NEW D \in SUBSET Cpus, NEW i \in Ids, Keeps(s, h, D, {i}),
         s.req[i].live, NEW told, EndsAmid(Awake(s, i), h, told),
         NEW t, t = Release(s, i, told), t.wreck = "none"
  PROVE  Keeps(t, h, D, {}) /\ Shrinks(s, t) /\ (~ t.twice => Steady(s, t))
<1>1. CASE Targets(s, i) # {}
  <2>1. t = s
    BY <1>1 DEF Release
  <2> QED BY <1>1, <2>1, ExemptionEnds, SteadySelf DEF Steady
<1>2. CASE Targets(s, i) = {} /\ Has(s, i, "NONBLOCK")
  <2>1. t = Touched(s, i)
    BY <1>2 DEF Release
  <2>2. ~ Dozes(s, i)
    BY <1>2, KeepsMeans DEF Waiting, Has
  <2>3. Keeps(s, h, D, {})
    BY <2>2, ExemptionEnds
  <2>4. Marks(s, t, i) /\ t.req[i].old = FALSE /\ t.req[i].flags = s.req[i].flags
    BY <2>1, TouchedMarks
  <2>5. Keeps(t, h, D, {})
    BY <2>3, <2>4, MarksKeeps
  <2>6. Steady(s, t)
    BY <2>4, MarksLoses
  <2> QED BY <2>5, <2>6 DEF Steady
<1>3. CASE Targets(s, i) = {} /\ ~ Has(s, i, "NONBLOCK") /\ Has(s, i, "SENDERSLEEP")
  <2> DEFINE w == Awake(s, i)
             u == Forget(told, i)
  <2>1. t = FreedTwice(u)
    BY <1>3 DEF Release
  <2>2. told \in Machine /\ Loses(w, told) /\ Follows(w, h, D, told)
    BY DEF EndsAmid
  <2>3. Dozes(s, i)
    BY <1>3 DEF Dozes, Has
  <2> HIDE DEF u, w
  <2>4. u \in Machine /\ Loses(told, u) /\ SameOwn(told, u)
    BY <2>2, ForgetLoses DEF u
  <2>5. /\ t \in Machine /\ Shrinks(u, t) /\ t.wreck = u.wreck /\ t.twice
        /\ Keeps(u, h, D, {}) => Keeps(t, h, D, {})
    BY <2>1, <2>4, TwiceDoes
  <2>6. u.wreck = "none" /\ told.wreck = "none" /\ w.wreck = "none"
    BY <2>2, <2>4, <2>5 DEF Loses
  <2>7. Keeps(w, h, D, {}) /\ Shrinks(s, w) /\ \A c \in Cpus : i \notin Own(w, c)
    BY <2>3, <2>6, AwakeKeeps DEF w
  <2>8. Keeps(told, h, D, {}) /\ Shrinks(w, told)
    BY <2>2, <2>6, <2>7 DEF Follows
  <2>9. \A c \in Cpus : i \notin Own(told, c)
    BY <2>7, <2>8 DEF Shrinks
  <2>10. ~ Dozes(told, i)
    BY <2>8, <2>9, KeepsMeans DEF Waiting, Numbered, Dozes
  <2>11. Keeps(told, h, D, {i})
    BY <2>8, ExemptionStarts
  <2>12. Keeps(u, h, D, {})
    BY <2>2, <2>6, <2>9, <2>10, <2>11, ForgetKeeps DEF u
  <2>13. Shrinks(told, u)
    BY <2>4, OwnStays DEF Shrinks
  <2>14. Shrinks(s, t)
    BY <2>5, <2>7, <2>8, <2>13 DEF Shrinks
  <2> QED BY <2>5, <2>12, <2>14
<1>4. CASE Targets(s, i) = {} /\ ~ Has(s, i, "NONBLOCK") /\ ~ Has(s, i, "SENDERSLEEP")
  <2>1. t = Forget(Unlink(s, i), i)
    BY <1>4 DEF Release
  <2>2. ~ Dozes(s, i) /\ "SENDERSLEEP" \notin s.req[i].flags /\ s.req[i].s \in Cpus
    BY <1>4, Sender DEF Has, Dozes
  <2>3. Keeps(t, h, D, {})
    BY <2>1, <2>2, CloseKeeps
  <2>4. Steady(s, t)
    BY <2>1, <2>2, CloseSteady
  <2> QED BY <2>3, <2>4 DEF Steady
<1> QED BY <1>1, <1>2, <1>3, <1>4

\* A turn of the loop over the queue of a process that ends; told: what its
\* sender's exception would make of it.
Parts(t, i, c, told) ==
  IF Contains(t.incoming[c], i) THEN Release(Gone(t, i, c), i, told) ELSE t

\* The exception of the sender of i, if c is among its receivers.
Tells(t, h, i, c, told) ==
  /\ Loses(Gone(t, i, c), told)
  /\ Contains(t.incoming[c], i) => EndsAmid(Awake(Gone(t, i, c), i), h, told)

\* What holds between the turns, of the states whose lists are sound.
Parting(s, h, c, t) ==
  \A D \in SUBSET Cpus :
    t.wreck = "none" /\ Keeps(s, h, D \cup {c}, {}) =>
      Keeps(t, h, D \cup {c}, {}) /\ Shrinks(s, t) /\ (~ t.twice => Steady(s, t))

LEMMA PartsLoses ==
  ASSUME NEW s \in Machine, NEW c \in Cpus, NEW t \in Machine, Loses(s, t),
         NEW i \in Ids, NEW told \in Machine, Loses(Gone(t, i, c), told),
         NEW u, u = Parts(t, i, c, told)
  PROVE  u \in Machine /\ Loses(s, u) /\ Loses(t, u) /\ i \notin In(u, c)
<1> DEFINE v == Gone(t, i, c)
<1>1. v \in Machine /\ Loses(t, v) /\ i \notin In(v, c)
  BY GoneLoses
<1>2. CASE Contains(t.incoming[c], i)
  <2>1. u = Release(v, i, told)
    BY <1>2 DEF Parts
  <2>2. Loses(v, told)
    OBVIOUS
  <2> HIDE DEF v
  <2>3. u \in Machine /\ Loses(v, u)
    BY <1>1, <2>1, <2>2, ReleaseLoses
  <2>4. i \notin In(u, c)
    BY <1>1, <2>3 DEF Loses
  <2>5. Loses(t, u)
    BY <1>1, <2>3, LosesChain
  <2> QED BY <2>3, <2>4, <2>5, LosesChain
<1>3. CASE ~ Contains(t.incoming[c], i)
  <2>1. u = t
    BY <1>3 DEF Parts
  <2>2. i \notin In(t, c)
    BY <1>3, Tables, Listed DEF In
  <2> QED BY <2>1, <2>2, LosesSelf
<1> QED BY <1>2, <1>3

LEMMA PartsKeeps ==
  ASSUME NEW s \in Machine, NEW h, NEW c \in Cpus, NEW t \in Machine, Loses(s, t),
         Parting(s, h, c, t),
         NEW i \in Ids, NEW told \in Machine, Tells(t, h, i, c, told),
         NEW u, u = Parts(t, i, c, told)
  PROVE  Parting(s, h, c, u)
<1> SUFFICES ASSUME NEW D \in SUBSET Cpus, u.wreck = "none", Keeps(s, h, D \cup {c}, {})
             PROVE  Keeps(u, h, D \cup {c}, {}) /\ Shrinks(s, u) /\ (~ u.twice => Steady(s, u))
  BY DEF Parting
<1> DEFINE X == D \cup {c}
<1>1. u \in Machine /\ Loses(s, u) /\ Loses(t, u)
  BY PartsLoses DEF Tells
<1>2. t.wreck = "none" /\ (~ u.twice => ~ t.twice) /\ X \in SUBSET Cpus
  BY <1>1 DEF Loses
<1>3. Keeps(t, h, X, {}) /\ Shrinks(s, t) /\ (~ t.twice => Steady(s, t))
  BY <1>2 DEF Parting
<1>4. Keeps(s, h, X, {})
  OBVIOUS
<1> HIDE DEF X
<1> DEFINE v == Gone(t, i, c)
<1>5. CASE Contains(t.incoming[c], i)
  <2>1. u = Release(v, i, told)
    BY <1>5 DEF Parts
  <2>2. i \in In(t, c)
    BY <1>5, Tables, Listed DEF In
  <2>3. /\ v \in Machine /\ Loses(t, v) /\ Steady(t, v) /\ Keeps(v, h, X, {i})
        /\ v.req[i].live = t.req[i].live
    BY <1>3, <2>2, GoneLoses, GoneKeeps
  <2>4. t.req[i].live
    BY <1>3, <2>2, KeepsMeans DEF Elements
  <2>5. EndsAmid(Awake(v, i), h, told) /\ Loses(v, told)
    BY <1>5 DEF Tells
  <2> HIDE DEF v
  <2>6. Keeps(u, h, X, {}) /\ Shrinks(v, u) /\ (~ u.twice => Steady(v, u))
    BY <1>2, <2>1, <2>3, <2>4, <2>5, ReleaseKeeps
  <2>7. Loses(v, u)
    BY <2>1, <2>3, <2>5, ReleaseLoses
  <2>8. ASSUME ~ u.twice PROVE Steady(s, u)
    <3>1. Steady(t, u)
      BY <1>3, <2>3, <2>6, <2>7, <2>8, Sender, SteadyChain
    <3> QED BY <1>1, <1>2, <1>3, <1>4, <2>8, <3>1, Sender, SteadyChain
  <2>9. Shrinks(s, u)
    BY <1>3, <2>3, <2>6 DEF Steady, Shrinks
  <2> QED BY <2>6, <2>8, <2>9 DEF X
<1>6. CASE ~ Contains(t.incoming[c], i)
  <2>1. u = t
    BY <1>6 DEF Parts
  <2> QED BY <2>1, <1>3 DEF X
<1> QED BY <1>5, <1>6

\* A loop has the run its recursion says.
Recurs(N, T, s, F) ==
  \E g \in [0 .. N -> T] :
    \A n \in 0 .. N : g[n] = IF n = 0 THEN s ELSE F[<<g[n - 1], n>>]

LEMMA Recursion ==
  ASSUME NEW N \in Nat, NEW T, NEW s \in T, NEW F \in [T \X (1 .. N) -> T]
  PROVE  Recurs(N, T, s, F)
<1>1. HasRun(N, T, s, F)
  BY LoopRuns
<1>2. PICK g \in [0 .. N -> T] : g[0] = s /\ \A n \in 1 .. N : g[n] = F[<<g[n - 1], n>>]
  BY <1>1 DEF HasRun
<1>3. ASSUME NEW n \in 0 .. N PROVE g[n] = IF n = 0 THEN s ELSE F[<<g[n - 1], n>>]
  <2>1. CASE n = 0
    BY <1>2, <2>1
  <2>2. CASE n # 0
    <3>1. n \in 1 .. N
      BY <2>2
    <3> QED BY <1>2, <2>2, <3>1
  <2> QED BY <2>1, <2>2
<1> QED BY <1>3 DEF Recurs

\* The whole loop: f[n] is the state after n turns.
LEMMA PartingEnds ==
  ASSUME NEW s \in Machine, NEW h, NEW c \in Cpus, NEW list \in Seq(Ids),
         In(s, c) \subseteq ToSet(list), NEW f, f[0] = s,
         \A n \in 1 .. Len(list) : f[n - 1] \in Machine /\ Loses(s, f[n - 1]) =>
           \E told \in Machine : /\ Tells(f[n - 1], h, list[n], c, told)
                                 /\ f[n] = Parts(f[n - 1], list[n], c, told)
  PROVE  LET t == f[Len(list)] IN
         /\ t \in Machine /\ Loses(s, t) /\ In(t, c) = {}
         /\ Parting(s, h, c, t)
<1> DEFINE N == Len(list)
           Left(n) == {list[k] : k \in 1 .. n}
           P == [n \in 0 .. N |->
                  {t \in Machine : /\ Loses(s, t) /\ Parting(s, h, c, t)
                                   /\ In(t, c) \cap Left(n) = {}}]
<1>1. N \in Nat /\ \A n \in 1 .. N : list[n] \in Ids
  OBVIOUS
<1>2. f[0] \in P[0]
  <2>1. Left(0) = {}
    OBVIOUS
  <2>2. Parting(s, h, c, s)
    BY SteadySelf DEF Parting, Steady
  <2>3. Loses(s, s)
    BY LosesSelf
  <2>4. 0 \in 0 .. N
    BY <1>1
  <2> HIDE DEF Left, N
  <2> QED BY <2>1, <2>2, <2>3, <2>4
<1>3. ASSUME NEW n \in 1 .. N, f[n - 1] \in P[n - 1] PROVE f[n] \in P[n]
  <2> DEFINE t == f[n - 1]
             i == list[n]
  <2>1. n - 1 \in 0 .. N /\ n \in 0 .. N /\ i \in Ids
    BY <1>1
  <2>2. t \in Machine /\ Loses(s, t) /\ Parting(s, h, c, t) /\ In(t, c) \cap Left(n - 1) = {}
    <3> HIDE DEF N, Left
    <3> QED BY <1>3, <2>1
  <2>3. PICK told \in Machine : Tells(t, h, i, c, told) /\ f[n] = Parts(t, i, c, told)
    BY <2>2
  <2> DEFINE u == f[n]
  <2> HIDE DEF t, i, u
  <2>4. u = Parts(t, i, c, told)
    BY <2>3 DEF u
  <2>5. u \in Machine /\ Loses(s, u) /\ Loses(t, u) /\ i \notin In(u, c)
    BY <2>1, <2>2, <2>3, <2>4, PartsLoses DEF Tells
  <2>6. Parting(s, h, c, u)
    BY <2>1, <2>2, <2>3, <2>4, PartsKeeps
  <2>7. Left(n) = Left(n - 1) \cup {i}
    BY <1>1 DEF i
  <2>8. In(u, c) \cap Left(n) = {}
    <3> HIDE DEF Left
    <3> QED BY <2>2, <2>5, <2>7 DEF Loses
  <2> HIDE DEF N, Left
  <2> QED BY <2>1, <2>5, <2>6, <2>8 DEF u
<1>4. f[N] \in P[N]
  <2> HIDE DEF N, P
  <2>1. \A n \in 1 .. N : f[n - 1] \in P[n - 1] => f[n] \in P[n]
    BY <1>3
  <2>2. \A n \in 0 .. N : f[n] \in P[n]
    BY <1>1, <1>2, <2>1, Climbs
  <2> QED BY <1>1, <2>2
<1>5. Left(N) = ToSet(list)
  BY <1>1 DEF ToSet
<1>6. N \in 0 .. N
  BY <1>1
<1>7. f[N] \in Machine /\ Loses(s, f[N]) /\ Parting(s, h, c, f[N]) /\ In(f[N], c) \cap Left(N) = {}
  <2> HIDE DEF N, Left
  <2> QED BY <1>4, <1>6
<1>8. In(f[N], c) = {}
  <2> HIDE DEF N, Left
  <2> QED BY <1>5, <1>7 DEF Loses
<1> QED BY <1>7, <1>8

LEMMA DestroyEnds ==
  ASSUME NEW s \in Machine, NEW h, NEW c \in Cpus,
         NEW y \in Machine, Loses(OwnRequests(Asleep(s, c), c), y), In(y, c) = {},
         Parting(OwnRequests(Asleep(s, c), c), h, c, y),
         NEW t, t = Ended(y, c)
  PROVE  EndsAmid(s, h, t) /\ t.cpu[c].used = FALSE
<1> DEFINE s0 == OwnRequests(Asleep(s, c), c)
<1>1. /\ s0 \in Machine /\ Loses(s, s0) /\ s0.cpu = s.cpu
      /\ Shrinks(s, s0)
      /\ \A i \in Ids \ Own(s, c) : s0.req[i] = s.req[i]
  BY OwnRequestsLoses DEF Shrinks
<1>2. t \in Machine /\ Loses(y, t) /\ Steady(y, t) /\ t.cpu[c].used = FALSE
  BY EndedLoses
<1>3. \A D : Keeps(s, h, D, {}) => Keeps(s0, h, D \cup {c}, {}) /\ Own(s0, c) = {}
  BY OwnRequestsKeeps
<1>4. Loses(s0, y) /\ Parting(s0, h, c, y)
  OBVIOUS
<1> HIDE DEF s0
<1>5. Loses(s0, t)
  BY <1>2, <1>4, LosesChain
<1>6. Loses(s, t)
  BY <1>1, <1>5, LosesChain
<1>7. ASSUME NEW D \in SUBSET Cpus, t.wreck = "none", Keeps(s, h, D, {})
      PROVE  Keeps(t, h, D, {}) /\ Shrinks(s, t) /\ (~ t.twice => Steady(s, t))
  <2>1. y.wreck = "none" /\ (~ t.twice => ~ y.twice)
    BY <1>2, <1>7 DEF Loses
  <2>2. Keeps(s0, h, D \cup {c}, {}) /\ Own(s0, c) = {}
    BY <1>3, <1>7
  <2>3. /\ Keeps(y, h, D \cup {c}, {}) /\ Shrinks(s0, y)
        /\ ~ y.twice => Steady(s0, y)
    BY <1>4, <1>7, <2>1, <2>2 DEF Parting
  <2>4. Own(y, c) = {}
    BY <2>2, <2>3 DEF Shrinks
  <2>5. Keeps(t, h, D, {})
    BY <2>3, <2>4, EndedKeeps
  <2>6. Shrinks(s, t)
    BY <1>1, <1>2, <2>3 DEF Steady, Shrinks
  <2>7. ASSUME ~ t.twice, NEW i \in Ids, Dozes(s, i), ~ s.req[i].old
        PROVE  (Dozes(t, i) /\ ~ t.req[i].old) \/ ~ t.cpu[s.req[i].s].used
    <3>1. CASE s.req[i].s = c
      BY <1>2, <3>1
    <3>2. CASE s.req[i].s # c
      <4>1. Owned(s)
        BY <1>7, KeepsMeans
      <4>2. i \notin Own(s, c)
        BY <3>2, <4>1 DEF Owned
      <4>3. s0.req[i] = s.req[i]
        BY <1>1, <4>2
      <4>4. Steady(s0, t)
        BY <1>1, <1>2, <1>4, <2>1, <2>2, <2>3, <2>7, Sender, SteadyChain
      <4> QED BY <2>7, <4>3, <4>4 DEF Steady, Dozes
    <3> QED BY <3>1, <3>2
  <2> QED BY <2>5, <2>6, <2>7 DEF Steady
<1>8. ASSUME NEW D \in SUBSET Cpus PROVE Follows(s, h, D, t)
  BY <1>7 DEF Follows
<1> QED BY <1>2, <1>6, <1>8 DEF EndsAmid

LEMMA DestroyQuietlyDoes ==
  ASSUME NEW s \in Machine, NEW h, NEW c \in Cpus, Known(s), NEW t, t = DestroyQuietly(s, c)
  PROVE  EndsAmid(s, h, t) /\ t.cpu[c].used = FALSE
<1> DEFINE s0 == OwnRequests(Asleep(s, c), c)
           list == s.incoming[c]
           N == Len(list)
           Turn(x, i) == LET u == Gone(x, i, c)
                         IN IF Contains(x.incoming[c], i) THEN Release(u, i, Awake(u, i)) ELSE x
           T == {x \in Machine : Loses(s0, x)}
           F == [p \in T \X (1 .. N) |-> Turn(p[1], list[p[2]])]
<1>1. s0 \in Machine /\ Loses(s, s0)
  BY OwnRequestsLoses
<1>2. list \in Seq(Ids) /\ N \in Nat /\ \A n \in 1 .. N : list[n] \in Ids
  BY Tables
<1>3. In(s0, c) \subseteq ToSet(list)
  BY <1>1 DEF Loses, In
<1>4. Known(s0)
  BY <1>1, KnownStays
<1>5. ASSUME NEW x \in T, NEW i \in Ids
      PROVE  \E told \in Machine : Tells(x, h, i, c, told) /\ Turn(x, i) = Parts(x, i, c, told)
  <2> DEFINE u == Gone(x, i, c)
  <2>1. u \in Machine /\ Loses(x, u)
    BY GoneLoses
  <2>2. CASE Contains(x.incoming[c], i)
    <3>1. i \in In(x, c)
      BY <2>2, Tables, Listed DEF In
    <3>2. x.req[i].s \in Cpus
      BY <1>1, <1>4, <3>1, KnownStays DEF Known
    <3> DEFINE w == Awake(u, i)
    <3> HIDE DEF u, w
    <3>3. w \in Machine /\ Loses(u, w)
      BY <2>1, <3>2, AwakeLoses DEF w, Loses
    <3>4. Turn(x, i) = Parts(x, i, c, w)
      BY <2>2 DEF Parts, w, u
    <3>5. EndsAmid(w, h, w)
      BY <3>3, AmidSelf
    <3> QED BY <3>3, <3>4, <3>5 DEF u, w, Tells
  <2>3. CASE ~ Contains(x.incoming[c], i)
    <3>1. Turn(x, i) = Parts(x, i, c, u)
      BY <2>3 DEF Parts
    <3> HIDE DEF u, Turn
    <3>2. u \in Machine /\ Loses(u, u)
      BY <2>1, LosesSelf
    <3> QED BY <2>3, <3>1, <3>2 DEF u, Tells
  <2> QED BY <2>2, <2>3
<1>6. F \in [T \X (1 .. N) -> T]
  <2>1. ASSUME NEW x \in T, NEW i \in Ids PROVE Turn(x, i) \in T
    <3>1. PICK told \in Machine : Tells(x, h, i, c, told) /\ Turn(x, i) = Parts(x, i, c, told)
      BY <1>5
    <3> DEFINE u == Turn(x, i)
    <3> HIDE DEF u, s0
    <3>2. u = Parts(x, i, c, told)
      BY <3>1 DEF u
    <3>3. u \in Machine /\ Loses(s0, u)
      BY <1>1, <3>1, <3>2, PartsLoses DEF Tells
    <3> QED BY <3>3 DEF u
  <2> HIDE DEF T, Turn, N, list
  <2> QED BY <1>2, <2>1
<1>7. s0 \in T
  BY <1>1, LosesSelf
<1> DEFINE IsLoop(g) == g = [n \in 0 .. N |-> IF n = 0 THEN s0 ELSE Turn(g[n - 1], list[n])]
<1>8. \E g : IsLoop(g)
  <2>1. PICK g \in [0 .. N -> T] :
          \A n \in 0 .. N : g[n] = IF n = 0 THEN s0 ELSE F[<<g[n - 1], n>>]
    <3>1. Recurs(N, T, s0, F)
      <4> HIDE DEF s0, F, N, T
      <4> QED BY <1>2, <1>6, <1>7, Recursion
    <3> HIDE DEF s0, F, N, T
    <3> QED BY <3>1 DEF Recurs
  <2>2. ASSUME NEW n \in 0 .. N
        PROVE  g[n] = IF n = 0 THEN s0 ELSE Turn(g[n - 1], list[n])
    <3>1. CASE n = 0
      BY <2>1, <3>1
    <3>2. CASE n # 0
      <4>1. n \in 1 .. N /\ n - 1 \in 0 .. N
        BY <1>2, <3>2
      <4>2. <<g[n - 1], n>> \in T \X (1 .. N)
        BY <2>1, <4>1
      <4>3. F[<<g[n - 1], n>>] = Turn(g[n - 1], list[n])
        <5> HIDE DEF T, Turn, N, list
        <5> QED BY <4>2
      <4> HIDE DEF F, Turn
      <4> QED BY <2>1, <3>2, <4>3
    <3> QED BY <3>1, <3>2
  <2>3. g = [n \in 0 .. N |-> g[n]]
    BY <2>1
  <2> HIDE DEF s0, Turn, list, N
  <2> QED BY <2>2, <2>3
<1> DEFINE f == CHOOSE g : IsLoop(g)
<1>9. IsLoop(f)
  BY <1>8
<1>10. t = Ended(f[N], c)
  BY DEF DestroyQuietly, Loop
<1> HIDE DEF f
<1>11. f[0] = s0 /\ \A n \in 1 .. N : f[n] = Turn(f[n - 1], list[n])
  <2> HIDE DEF s0, Turn, list
  <2>1. \A n \in 0 .. N : f[n] = IF n = 0 THEN s0 ELSE Turn(f[n - 1], list[n])
    BY <1>9
  <2>2. 0 \in 0 .. N /\ \A n \in 1 .. N : n \in 0 .. N /\ n # 0
    BY <1>2
  <2> QED BY <2>1, <2>2
<1>12. \A n \in 1 .. N : f[n - 1] \in Machine /\ Loses(s0, f[n - 1]) =>
         \E told \in Machine : /\ Tells(f[n - 1], h, list[n], c, told)
                               /\ f[n] = Parts(f[n - 1], list[n], c, told)
  <2> SUFFICES ASSUME NEW n \in 1 .. N, f[n - 1] \in Machine, Loses(s0, f[n - 1])
               PROVE  \E told \in Machine : /\ Tells(f[n - 1], h, list[n], c, told)
                                            /\ f[n] = Parts(f[n - 1], list[n], c, told)
    OBVIOUS
  <2>1. f[n - 1] \in T /\ list[n] \in Ids /\ f[n] = Turn(f[n - 1], list[n])
    BY <1>2, <1>11
  <2> HIDE DEF T, Turn, list
  <2> QED BY <1>5, <2>1
<1> DEFINE y == f[N]
<1>13. y \in Machine /\ Loses(s0, y) /\ In(y, c) = {} /\ Parting(s0, h, c, y)
  <2> HIDE DEF s0, list
  <2> QED BY <1>1, <1>2, <1>3, <1>11, <1>12, PartingEnds
<1> HIDE DEF y
<1>14. t = Ended(y, c)
  BY <1>10 DEF y
<1> QED BY <1>13, <1>14, DestroyEnds

LEMMA FatalDoes ==
  ASSUME NEW s \in Machine, NEW b \in BOOLEAN, NEW t, t = SetFatal(s, b)
  PROVE  /\ t \in Machine /\ Loses(s, t) /\ Steady(s, t)
         /\ \A h, D, E : Keeps(s, h, D, E) => Keeps(t, h, D, E)
         /\ SameProcesses(s, t) /\ SameElements(s, t) /\ SameRequests(s, t) /\ SameOwn(s, t)
         /\ SameWreck(s, t)
<1>1. /\ t \in Machine /\ SameProcesses(s, t) /\ SameElements(s, t) /\ SameRequests(s, t)
      /\ SameOwn(s, t) /\ SameWreck(s, t)
  BY PutFatal
<1> QED BY <1>1, KeepsSame

\* non_fatal
LEMMA RaiseDoes ==
  ASSUME NEW s \in Machine, NEW h, NEW c \in Cpus, Known(s), NEW H, NEW t, t = Raise(s, c, H)
  PROVE  EndsAmid(s, h, t)
<1> DEFINE u == SetFatal(s, TRUE)
<1>1. t = IF s.fatal \/ c \in H THEN s ELSE DestroyQuietly(u, c)
  BY DEF Raise, SetFatal
<1>2. /\ u \in Machine /\ Loses(s, u) /\ Steady(s, u)
      /\ \A D, E : Keeps(s, h, D, E) => Keeps(u, h, D, E)
  BY FatalDoes
<1> HIDE DEF u
<1>3. EndsAmid(s, h, u)
  BY <1>2 DEF EndsAmid, Follows, Steady
<1>4. Known(u)
  BY <1>2, KnownStays
<1>5. CASE s.fatal \/ c \in H
  BY <1>1, <1>5, AmidSelf
<1>6. CASE ~ (s.fatal \/ c \in H)
  <2>1. t = DestroyQuietly(u, c)
    BY <1>1, <1>6
  <2>2. EndsAmid(u, h, t)
    BY <1>2, <1>4, <2>1, DestroyQuietlyDoes
  <2> QED BY <1>3, <2>2, AmidChain
<1> QED BY <1>5, <1>6

\* destroy_task
LEMMA DestroyDoes ==
  ASSUME NEW s \in Machine, NEW h, NEW c \in Cpus, Known(s), NEW t, NEW H, t = Destroy(s, c, H)
  PROVE  EndsAmid(s, h, t) /\ t.cpu[c].used = FALSE
<1> DEFINE s0 == OwnRequests(Asleep(s, c), c)
           list == s.incoming[c]
           N == Len(list)
           Turn(x, i) == LET u == Gone(x, i, c)
                         IN IF Contains(x.incoming[c], i)
                            THEN Release(u, i, Raise(Awake(u, i), u.req[i].s, H)) ELSE x
           T == {x \in Machine : Loses(s0, x)}
           F == [p \in T \X (1 .. N) |-> Turn(p[1], list[p[2]])]
<1>1. s0 \in Machine /\ Loses(s, s0)
  BY OwnRequestsLoses
<1>2. list \in Seq(Ids) /\ N \in Nat /\ \A n \in 1 .. N : list[n] \in Ids
  BY Tables
<1>3. In(s0, c) \subseteq ToSet(list)
  BY <1>1 DEF Loses, In
<1>4. Known(s0)
  BY <1>1, KnownStays
<1>5. ASSUME NEW x \in T, NEW i \in Ids
      PROVE  \E told \in Machine : Tells(x, h, i, c, told) /\ Turn(x, i) = Parts(x, i, c, told)
  <2> DEFINE u == Gone(x, i, c)
  <2>1. u \in Machine /\ Loses(x, u)
    BY GoneLoses
  <2>2. CASE Contains(x.incoming[c], i)
    <3>1. i \in In(x, c)
      BY <2>2, Tables, Listed DEF In
    <3>2. x.req[i].s \in Cpus /\ Known(x)
      BY <1>1, <1>4, <3>1, KnownStays DEF Known
    <3>3. u.req[i].s \in Cpus /\ Known(u)
      BY <2>1, <3>2, KnownStays DEF Loses
    <3> DEFINE w == Awake(u, i)
               v == Raise(w, u.req[i].s, H)
    <3>4. Turn(x, i) = Parts(x, i, c, v)
      BY <2>2 DEF Parts
    <3> HIDE DEF u, w, v, Turn
    <3>5. w \in Machine /\ Loses(u, w)
      BY <2>1, <3>3, AwakeLoses DEF w
    <3>6. Known(w)
      BY <2>1, <3>3, <3>5, KnownStays
    <3>7. v \in Machine /\ Loses(w, v) /\ EndsAmid(w, h, v)
      BY <3>3, <3>5, <3>6, RaiseDoes DEF v, EndsAmid
    <3>8. Loses(u, v)
      BY <3>5, <3>7, LosesChain
    <3> QED BY <3>4, <3>7, <3>8 DEF u, w, Tells
  <2>3. CASE ~ Contains(x.incoming[c], i)
    <3>1. Turn(x, i) = Parts(x, i, c, u)
      BY <2>3 DEF Parts
    <3> HIDE DEF u, Turn
    <3>2. u \in Machine /\ Loses(u, u)
      BY <2>1, LosesSelf
    <3> QED BY <2>3, <3>1, <3>2 DEF u, Tells
  <2> QED BY <2>2, <2>3
<1>6. F \in [T \X (1 .. N) -> T]
  <2>1. ASSUME NEW x \in T, NEW i \in Ids PROVE Turn(x, i) \in T
    <3>1. PICK told \in Machine : Tells(x, h, i, c, told) /\ Turn(x, i) = Parts(x, i, c, told)
      BY <1>5
    <3> DEFINE u == Turn(x, i)
    <3> HIDE DEF u, s0
    <3>2. u = Parts(x, i, c, told)
      BY <3>1 DEF u
    <3>3. u \in Machine /\ Loses(s0, u)
      BY <1>1, <3>1, <3>2, PartsLoses DEF Tells
    <3> QED BY <3>3 DEF u
  <2> HIDE DEF T, Turn, N, list
  <2> QED BY <1>2, <2>1
<1>7. s0 \in T
  BY <1>1, LosesSelf
<1> DEFINE IsLoop(g) == g = [n \in 0 .. N |-> IF n = 0 THEN s0 ELSE Turn(g[n - 1], list[n])]
<1>8. \E g : IsLoop(g)
  <2>1. PICK g \in [0 .. N -> T] :
          \A n \in 0 .. N : g[n] = IF n = 0 THEN s0 ELSE F[<<g[n - 1], n>>]
    <3>1. Recurs(N, T, s0, F)
      <4> HIDE DEF s0, F, N, T
      <4> QED BY <1>2, <1>6, <1>7, Recursion
    <3> HIDE DEF s0, F, N, T
    <3> QED BY <3>1 DEF Recurs
  <2>2. ASSUME NEW n \in 0 .. N
        PROVE  g[n] = IF n = 0 THEN s0 ELSE Turn(g[n - 1], list[n])
    <3>1. CASE n = 0
      BY <2>1, <3>1
    <3>2. CASE n # 0
      <4>1. n \in 1 .. N /\ n - 1 \in 0 .. N
        BY <1>2, <3>2
      <4>2. <<g[n - 1], n>> \in T \X (1 .. N)
        BY <2>1, <4>1
      <4>3. F[<<g[n - 1], n>>] = Turn(g[n - 1], list[n])
        <5> HIDE DEF T, Turn, N, list
        <5> QED BY <4>2
      <4> HIDE DEF F, Turn
      <4> QED BY <2>1, <3>2, <4>3
    <3> QED BY <3>1, <3>2
  <2>3. g = [n \in 0 .. N |-> g[n]]
    BY <2>1
  <2> HIDE DEF s0, Turn, list, N
  <2> QED BY <2>2, <2>3
<1> DEFINE f == CHOOSE g : IsLoop(g)
<1>9. IsLoop(f)
  BY <1>8
<1>10. t = Ended(f[N], c)
  BY DEF Destroy, Loop
<1> HIDE DEF f
<1>11. f[0] = s0 /\ \A n \in 1 .. N : f[n] = Turn(f[n - 1], list[n])
  <2> HIDE DEF s0, Turn, list
  <2>1. \A n \in 0 .. N : f[n] = IF n = 0 THEN s0 ELSE Turn(f[n - 1], list[n])
    BY <1>9
  <2>2. 0 \in 0 .. N /\ \A n \in 1 .. N : n \in 0 .. N /\ n # 0
    BY <1>2
  <2> QED BY <2>1, <2>2
<1>12. \A n \in 1 .. N : f[n - 1] \in Machine /\ Loses(s0, f[n - 1]) =>
         \E told \in Machine : /\ Tells(f[n - 1], h, list[n], c, told)
                               /\ f[n] = Parts(f[n - 1], list[n], c, told)
  <2> SUFFICES ASSUME NEW n \in 1 .. N, f[n - 1] \in Machine, Loses(s0, f[n - 1])
               PROVE  \E told \in Machine : /\ Tells(f[n - 1], h, list[n], c, told)
                                            /\ f[n] = Parts(f[n - 1], list[n], c, told)
    OBVIOUS
  <2>1. f[n - 1] \in T /\ list[n] \in Ids /\ f[n] = Turn(f[n - 1], list[n])
    BY <1>2, <1>11
  <2> HIDE DEF T, Turn, list
  <2> QED BY <1>5, <2>1
<1> DEFINE y == f[N]
<1>13. y \in Machine /\ Loses(s0, y) /\ In(y, c) = {} /\ Parting(s0, h, c, y)
  <2> HIDE DEF s0, list
  <2> QED BY <1>1, <1>2, <1>3, <1>11, <1>12, PartingEnds
<1> HIDE DEF y
<1>14. t = Ended(y, c)
  BY <1>10 DEF y
<1> QED BY <1>13, <1>14, DestroyEnds

-----------------------------------------------------------------------------
(* ipc_timeouter *)

LEMMA CloseLeaves ==
  ASSUME NEW s \in Machine, NEW i \in Ids, s.req[i].s \in Cpus,
         NEW t, t = Forget(Unlink(s, i), i), t.wreck = "none"
  PROVE  /\ \A j \in Ids \ {i} : t.req[j] = s.req[j]
         /\ \A d \in Cpus : Own(t, d) \subseteq Own(s, d)
<1> DEFINE u == Unlink(s, i)
<1>1. /\ u \in Machine /\ Loses(s, u) /\ SameRequests(s, u)
      /\ u.wreck = "none" => Steady(s, u)
  BY UnlinkLoses
<1> HIDE DEF u
<1>2. t = Forget(u, i)
  BY DEF u
<1>3. /\ Loses(u, t) /\ SameOwn(u, t)
      /\ \A j \in Ids \ {i} : t.req[j] = u.req[j]
  BY <1>1, <1>2, ForgetLoses, ZenonT(60)
<1>4. \A d \in Cpus : Own(t, d) = Own(u, d)
  BY <1>3, OwnStays
<1>5. Steady(s, u)
  BY <1>1, <1>3 DEF Loses
<1> QED BY <1>1, <1>3, <1>4, <1>5 DEF Steady, Shrinks, SameRequests

\* The sender of i sleeps.
LEMMA ExpireSleeper ==
  ASSUME NEW s \in Machine, NEW h, NEW c \in Cpus, NEW i \in Own(s, c), Known(s), NEW H,
         s.req[i].old, Has(s, i, "SENDERSLEEP"),
         NEW t, t = Raise(Forget(Unlink(DropTargets(Wake(s, c), {i}), i), i), c, H)
  PROVE  Ends(s, h, t)
<1>1. i \in Ids
  BY Tables
<1> DEFINE x == Wake(s, c)
           u == DropTargets(x, {i})
           v == Forget(Unlink(u, i), i)
<1>2. x \in Machine /\ Loses(s, x) /\ SameRequests(s, x)
  BY WakeLoses
<1>3. x.sleepers = s.sleepers /\ SameOwn(s, x)
  BY WakeDoes
<1>4. v = Forget(Unlink(DropTargets(Wake(s, c), {i}), i), i)
  OBVIOUS
<1> HIDE DEF x
<1>5. u \in Machine /\ Loses(x, u)
  BY <1>2, DropTargetsLoses
<1>6. SameRequests(x, u) /\ SameOwn(x, u)
  BY <1>2, DropTargetsDoes
<1> HIDE DEF u
<1>7. v \in Machine /\ Loses(u, v)
  BY <1>1, <1>5, CloseLoses
<1>8. Loses(s, u)
  BY <1>2, <1>5, LosesChain
<1>9. Loses(s, v)
  BY <1>7, <1>8, LosesChain
<1>10. ASSUME v.wreck = "none", Keeps(s, h, {}, {})
       PROVE  Keeps(v, h, {}, {}) /\ Steady(s, v)
  <2>1. Owned(s)
    BY <1>10, KeepsMeans
  <2>2. Dozes(s, i) /\ s.req[i].s = c
    BY <2>1 DEF Owned, Dozes, Has
  <2>3. Keeps(v, h, {}, {})
    <3> HIDE DEF v
    <3> QED BY <1>1, <1>4, <1>10, <2>2, ExpiredSleepKeeps
  <2>4. u.req[i].s \in Cpus
    BY <1>2, <1>6, <2>2 DEF SameRequests
  <2>5. /\ \A j \in Ids \ {i} : v.req[j] = u.req[j]
        /\ \A d \in Cpus : Own(v, d) \subseteq Own(u, d)
    BY <1>1, <1>5, <1>10, <2>4, CloseLeaves
  <2> HIDE DEF v
  <2>10. \A d \in Cpus : Own(v, d) \subseteq Own(s, d)
    BY <1>3, <1>6, <2>5, OwnStays
  <2>11. \A j \in Ids \ {i} : v.req[j] = s.req[j]
    BY <1>2, <1>6, <2>5 DEF SameRequests
  <2>12. Steady(s, v)
    BY <2>10, <2>11 DEF Steady, Shrinks, Dozes
  <2> QED BY <2>3, <2>12
<1>11. Ends(s, h, v)
  BY <1>7, <1>9, <1>10 DEF Ends, Follows, Steady
<1>12. Known(v)
  BY <1>7, <1>9, KnownStays
<1>13. t = Raise(v, c, H)
  BY <1>4
<1> HIDE DEF v
<1>14. Ends(v, h, t)
  BY <1>7, <1>12, <1>13, RaiseDoes, AmidEnds
<1> QED BY <1>11, <1>14, EndsChain

LEMMA ExpireDoes ==
  ASSUME NEW s \in Machine, NEW h, NEW c \in Cpus, NEW i \in Own(s, c), Known(s), NEW H,
         NEW t, t = Expire(s, c, i, H)
  PROVE  Ends(s, h, t)
<1>1. i \in Ids
  BY Tables
<1>2. Keeps(s, h, {}, {}) => s.req[i].live /\ s.req[i].s = c
  BY KeepsMeans DEF Owned
<1>3. CASE ~ s.req[i].old
  <2>1. t = s
    BY <1>3 DEF Expire
  <2> QED BY <2>1, EndsSelf
<1>4. CASE s.req[i].old /\ s.req[i].flags \cap {"ERROR", "COMPLETED"} # {}
  <2>1. t = Forget(Unlink(s, i), i)
    BY <1>4 DEF Expire
  <2>2. t \in Machine /\ Loses(s, t)
    BY <1>1, <2>1, CloseLoses
  <2>3. ASSUME t.wreck = "none", Keeps(s, h, {}, {})
        PROVE  Keeps(t, h, {}, {}) /\ Steady(s, t)
    <3>1. ~ Dozes(s, i)
      <4>1. Waiting(s, {}, {}) /\ Done(s)
        BY <2>3, KeepsMeans
      <4> QED BY <1>1, <1>4, <4>1 DEF Waiting, Done, Dozes
    <3>2. "SENDERSLEEP" \notin s.req[i].flags
      BY <1>2, <2>3, <3>1 DEF Dozes
    <3>3. Keeps(s, h, {}, {i})
      BY <2>3, ExemptionStarts
    <3>4. Keeps(t, h, {}, {})
      BY <1>1, <1>2, <2>1, <2>3, <3>2, <3>3, CloseKeeps
    <3>5. Steady(s, t)
      BY <1>1, <1>2, <2>1, <2>3, <3>1, CloseSteady
    <3> QED BY <3>4, <3>5
  <2> QED BY <2>2, <2>3 DEF Ends, Follows, Steady
<1>5. CASE /\ s.req[i].old /\ s.req[i].flags \cap {"ERROR", "COMPLETED"} = {}
           /\ Has(s, i, "SENDERSLEEP")
  <2>1. t = Raise(Forget(Unlink(DropTargets(Wake(s, c), {i}), i), i), c, H)
    BY <1>5 DEF Expire
  <2> QED BY <1>5, <2>1, ExpireSleeper
<1>6. CASE /\ s.req[i].old /\ s.req[i].flags \cap {"ERROR", "COMPLETED"} = {}
           /\ ~ Has(s, i, "SENDERSLEEP") /\ Has(s, i, "NONBLOCK")
  <2> DEFINE u == Flagged(s, i, {"ERROR"})
  <2>1. t = Touched(u, i)
    BY <1>6 DEF Expire
  <2>2. Marks(s, u, i) /\ u.req[i].old = s.req[i].old /\ u.req[i].flags = s.req[i].flags \cup {"ERROR"}
    <3>1. {"ERROR"} \in SUBSET {"COMPLETED", "ERROR"}
      OBVIOUS
    <3> QED BY <1>1, <3>1, FlaggedMarks
  <2> HIDE DEF u
  <2>3. u \in Machine /\ Loses(s, u) /\ Steady(s, u)
    BY <1>1, <2>2, MarksLoses
  <2>4. Marks(u, t, i) /\ t.req[i].old = FALSE /\ t.req[i].flags = u.req[i].flags
    BY <1>1, <2>1, <2>3, TouchedMarks
  <2>5. t \in Machine /\ Loses(u, t) /\ Steady(u, t)
    BY <1>1, <2>3, <2>4, MarksLoses
  <2>6. ASSUME Keeps(s, h, {}, {}) PROVE Keeps(u, h, {}, {})
    BY <1>1, <1>6, <2>2, <2>6, MarksKeeps DEF Has
  <2>7. ASSUME Keeps(u, h, {}, {}) PROVE Keeps(t, h, {}, {})
    BY <1>1, <2>3, <2>4, <2>7, MarksKeeps
  <2>8. Ends(s, h, u) /\ Ends(u, h, t)
    BY <2>3, <2>5, <2>6, <2>7 DEF Ends, Follows, Steady
  <2> QED BY <2>8, EndsChain
<1>7. CASE /\ s.req[i].old /\ s.req[i].flags \cap {"ERROR", "COMPLETED"} = {}
           /\ ~ Has(s, i, "SENDERSLEEP") /\ ~ Has(s, i, "NONBLOCK")
  <2> DEFINE u == DropTargets(s, {i})
  <2>1. t = Forget(Unlink(u, i), i)
    BY <1>7 DEF Expire
  <2>2. u \in Machine /\ Loses(s, u) /\ Steady(s, u)
    BY DropTargetsLoses
  <2>3. SameRequests(s, u)
    BY DropTargetsDoes
  <2>4. Keeps(s, h, {}, {}) => Keeps(u, h, {}, {i})
    BY DropTargetsKeeps
  <2> HIDE DEF u
  <2>5. t \in Machine /\ Loses(u, t)
    BY <1>1, <2>1, <2>2, CloseLoses
  <2>6. Loses(s, t)
    BY <2>2, <2>5, LosesChain
  <2>7. ASSUME t.wreck = "none", Keeps(s, h, {}, {})
        PROVE  Keeps(t, h, {}, {}) /\ Steady(s, t)
    <3>1. u.req[i].live /\ u.req[i].s \in Cpus /\ "SENDERSLEEP" \notin u.req[i].flags
      BY <1>2, <1>7, <2>3, <2>7 DEF SameRequests, Has
    <3>2. Keeps(t, h, {}, {})
      BY <1>1, <2>1, <2>2, <2>4, <2>7, <3>1, CloseKeeps
    <3>3. ~ Dozes(u, i)
      BY <3>1 DEF Dozes
    <3>4. Steady(u, t)
      BY <1>1, <2>1, <2>2, <2>7, <3>1, <3>3, CloseSteady
    <3>5. Steady(s, t)
      BY <2>2, <2>5, <2>7, <3>4, Sender, SteadyChain
    <3> QED BY <3>2, <3>5
  <2> QED BY <2>5, <2>6, <2>7 DEF Ends, Follows, Steady
<1> QED BY <1>3, <1>4, <1>5, <1>6, <1>7

\* A loop stays where each turn does.
LEMMA Stays ==
  ASSUME NEW N \in Nat, NEW T, NEW f, f[0] \in T,
         \A n \in 1 .. N : f[n - 1] \in T => f[n] \in T
  PROVE  f[N] \in T
<1> DEFINE P == [n \in 0 .. N |-> T]
<1>1. f[0] \in P[0] /\ \A n \in 1 .. N : f[n - 1] \in P[n - 1] => f[n] \in P[n]
  OBVIOUS
<1>2. \A n \in 0 .. N : f[n] \in P[n]
  <2> HIDE DEF P
  <2> QED BY <1>1, Climbs
<1> QED BY <1>2

\* The requests of the process c
LEMMA ExpireAllDoes ==
  ASSUME NEW s \in Machine, NEW h, NEW c \in Cpus, Known(s), NEW H, NEW t, t = ExpireAll(s, c, H)
  PROVE  Ends(s, h, t)
<1> DEFINE list == s.own[c]
           N == Len(list)
           Turn(x, i) == IF Contains(x.own[c], i) THEN Expire(x, c, i, H) ELSE x
           T == {x \in Machine : Ends(s, h, x)}
           F == [p \in T \X (1 .. N) |-> Turn(p[1], list[p[2]])]
<1>1. N \in Nat /\ \A n \in 1 .. N : list[n] \in Ids
  BY Tables
<1>2. s \in T
  BY EndsSelf
<1>3. ASSUME NEW x \in T, NEW i \in Ids PROVE Turn(x, i) \in T
  <2>1. Loses(s, x) /\ Known(x)
    BY KnownStays DEF Ends
  <2>2. CASE Contains(x.own[c], i)
    <3> DEFINE u == Expire(x, c, i, H)
    <3>1. i \in Own(x, c)
      BY <2>2, Tables, Listed DEF Own
    <3>2. Turn(x, i) = u
      BY <2>2
    <3> HIDE DEF Turn
    <3>3. Ends(x, h, u)
      BY <2>1, <3>1, ExpireDoes
    <3> HIDE DEF u
    <3>4. Ends(s, h, u)
      BY <3>3, EndsChain
    <3> QED BY <3>2, <3>4 DEF Ends
  <2>3. CASE ~ Contains(x.own[c], i)
    BY <2>3
  <2> QED BY <2>2, <2>3
<1>4. F \in [T \X (1 .. N) -> T]
  <2> HIDE DEF T, Turn, N, list
  <2> QED BY <1>1, <1>3
<1> DEFINE IsLoop(g) == g = [n \in 0 .. N |-> IF n = 0 THEN s ELSE Turn(g[n - 1], list[n])]
<1>5. \E g : IsLoop(g)
  <2>1. PICK g \in [0 .. N -> T] :
          \A n \in 0 .. N : g[n] = IF n = 0 THEN s ELSE F[<<g[n - 1], n>>]
    <3>1. Recurs(N, T, s, F)
      <4> HIDE DEF F, N, T
      <4> QED BY <1>1, <1>2, <1>4, Recursion
    <3> HIDE DEF F, N, T
    <3> QED BY <3>1 DEF Recurs
  <2>2. ASSUME NEW n \in 0 .. N
        PROVE  g[n] = IF n = 0 THEN s ELSE Turn(g[n - 1], list[n])
    <3>1. CASE n = 0
      BY <2>1, <3>1
    <3>2. CASE n # 0
      <4>1. n \in 1 .. N /\ n - 1 \in 0 .. N
        BY <1>1, <3>2
      <4>2. <<g[n - 1], n>> \in T \X (1 .. N)
        BY <2>1, <4>1
      <4>3. F[<<g[n - 1], n>>] = Turn(g[n - 1], list[n])
        <5> HIDE DEF T, Turn, N, list
        <5> QED BY <4>2
      <4> HIDE DEF F, Turn
      <4> QED BY <2>1, <3>2, <4>3
    <3> QED BY <3>1, <3>2
  <2>3. g = [n \in 0 .. N |-> g[n]]
    BY <2>1
  <2> HIDE DEF Turn, list, N
  <2> QED BY <2>2, <2>3
<1> DEFINE f == CHOOSE g : IsLoop(g)
<1>6. IsLoop(f)
  BY <1>5
<1>7. t = f[N]
  BY DEF ExpireAll, Loop
<1> HIDE DEF f
<1>8. f[0] = s /\ \A n \in 1 .. N : f[n] = Turn(f[n - 1], list[n])
  <2> HIDE DEF Turn, list
  <2>1. \A n \in 0 .. N : f[n] = IF n = 0 THEN s ELSE Turn(f[n - 1], list[n])
    BY <1>6
  <2>2. 0 \in 0 .. N /\ \A n \in 1 .. N : n \in 0 .. N /\ n # 0
    BY <1>1
  <2> QED BY <2>1, <2>2
<1>9. f[N] \in T
  <2> HIDE DEF T, N, Turn, list
  <2>1. \A n \in 1 .. N : f[n - 1] \in T => f[n] \in T
    BY <1>1, <1>3, <1>8
  <2> QED BY <1>1, <1>2, <1>8, <2>1, Stays
<1> QED BY <1>7, <1>9

\* All processes
LEMMA TimeouterDoes ==
  ASSUME NEW s \in Machine, NEW h, Known(s), NEW H,
         NEW t, t = ExpireEach(s, H)
  PROVE  Ends(s, h, t)
<1> DEFINE list == Slots
           N == Len(list)
           Turn(x, c) == IF x.cpu[c].used THEN ExpireAll(x, c, H) ELSE x
           T == {x \in Machine : Ends(s, h, x)}
           F == [p \in T \X (1 .. N) |-> Turn(p[1], list[p[2]])]
<1>1. N \in Nat /\ \A n \in 1 .. N : list[n] \in Cpus
  <2>1. MaxVcpus \in Nat
    BY IpcMsgAssumption
  <2>2. \A n \in 1 .. MaxVcpus : n - 1 \in Cpus
    BY <2>1 DEF Cpus
  <2>3. Slots \in [1 .. MaxVcpus -> Cpus] /\ \A n \in 1 .. MaxVcpus : Slots[n] = n - 1
    BY <2>2 DEF Slots
  <2>4. Len(Slots) = MaxVcpus
    <3> HIDE DEF N
    <3> DEFINE q == Slots
    <3>1. q \in [1 .. MaxVcpus -> Cpus]
      BY <2>3
    <3> HIDE DEF q
    <3>2. q \in Seq(Cpus) /\ DOMAIN q = 1 .. MaxVcpus
      BY <2>1, <3>1, SeqDef
    <3>3. Len(q) \in Nat /\ DOMAIN q = 1 .. Len(q)
      BY <3>2, LenProperties
    <3>4. Len(q) = MaxVcpus
      BY <2>1, <3>2, <3>3
    <3> QED BY <3>4 DEF q
  <2> QED BY <2>1, <2>3, <2>4
<1>2. s \in T
  BY EndsSelf
<1>3. ASSUME NEW x \in T, NEW c \in Cpus PROVE Turn(x, c) \in T
  <2>1. Loses(s, x) /\ Known(x)
    BY KnownStays DEF Ends
  <2>2. CASE x.cpu[c].used
    <3> DEFINE u == ExpireAll(x, c, H)
    <3>2. Turn(x, c) = u
      BY <2>2
    <3> HIDE DEF Turn
    <3>3. Ends(x, h, u)
      BY <2>1, ExpireAllDoes
    <3> HIDE DEF u
    <3>4. Ends(s, h, u)
      BY <3>3, EndsChain
    <3> QED BY <3>2, <3>4 DEF Ends
  <2>3. CASE ~ x.cpu[c].used
    BY <2>3
  <2> QED BY <2>2, <2>3
<1>4. F \in [T \X (1 .. N) -> T]
  <2> HIDE DEF T, Turn, N, list
  <2> QED BY <1>1, <1>3
<1> DEFINE IsLoop(g) == g = [n \in 0 .. N |-> IF n = 0 THEN s ELSE Turn(g[n - 1], list[n])]
<1>5. \E g : IsLoop(g)
  <2>1. PICK g \in [0 .. N -> T] :
          \A n \in 0 .. N : g[n] = IF n = 0 THEN s ELSE F[<<g[n - 1], n>>]
    <3>1. Recurs(N, T, s, F)
      <4> HIDE DEF F, N, T
      <4> QED BY <1>1, <1>2, <1>4, Recursion
    <3> HIDE DEF F, N, T
    <3> QED BY <3>1 DEF Recurs
  <2>2. ASSUME NEW n \in 0 .. N
        PROVE  g[n] = IF n = 0 THEN s ELSE Turn(g[n - 1], list[n])
    <3>1. CASE n = 0
      BY <2>1, <3>1
    <3>2. CASE n # 0
      <4>1. n \in 1 .. N /\ n - 1 \in 0 .. N
        BY <1>1, <3>2
      <4>2. <<g[n - 1], n>> \in T \X (1 .. N)
        BY <2>1, <4>1
      <4>3. F[<<g[n - 1], n>>] = Turn(g[n - 1], list[n])
        <5> HIDE DEF T, Turn, N, list
        <5> QED BY <4>2
      <4> HIDE DEF F, Turn
      <4> QED BY <2>1, <3>2, <4>3
    <3> QED BY <3>1, <3>2
  <2>3. g = [n \in 0 .. N |-> g[n]]
    BY <2>1
  <2> HIDE DEF Turn, list, N
  <2> QED BY <2>2, <2>3
<1> DEFINE f == CHOOSE g : IsLoop(g)
<1>6. IsLoop(f)
  BY <1>5
<1>7. t = f[N]
  BY DEF ExpireEach, Loop
<1> HIDE DEF f
<1>8. f[0] = s /\ \A n \in 1 .. N : f[n] = Turn(f[n - 1], list[n])
  <2> HIDE DEF Turn, list
  <2>1. \A n \in 0 .. N : f[n] = IF n = 0 THEN s ELSE Turn(f[n - 1], list[n])
    BY <1>6
  <2>2. 0 \in 0 .. N /\ \A n \in 1 .. N : n \in 0 .. N /\ n # 0
    BY <1>1
  <2> QED BY <2>1, <2>2
<1>9. f[N] \in T
  <2> HIDE DEF T, N, Turn, list
  <2>1. \A n \in 1 .. N : f[n - 1] \in T => f[n] \in T
    BY <1>1, <1>3, <1>8
  <2> QED BY <1>1, <1>2, <1>8, <2>1, Stays
<1> QED BY <1>7, <1>9

-----------------------------------------------------------------------------
(* IPC_MSG_RECV *)

\* The receiver c takes i.
Takes(s, t, i, c) ==
  /\ t \in Machine /\ SameProcesses(s, t) /\ SameOwn(s, t) /\ SameWreck(s, t)
  /\ t.next_id = s.next_id /\ \A j \in Ids \ {i} : t.req[j] = s.req[j]
  /\ t.req[i].live = s.req[i].live /\ t.req[i].s = s.req[i].s /\ t.req[i].old = FALSE
  /\ t.req[i].flags = s.req[i].flags \cup {"ACCEPTED"}
  /\ t.req[i].first = IF "ACCEPTED" \in s.req[i].flags THEN s.req[i].first ELSE c
  /\ \A d \in Cpus : In(t, d) = IF d = c THEN In(s, d) \ {i} ELSE In(s, d)
  /\ Lists(s) => Lists(t)
  /\ AddsUp(s) /\ i \in In(s, c) => AddsUp(t)

LEMMA ReceivedDoes ==
  ASSUME NEW s \in Machine, NEW i \in Ids, NEW c \in Cpus,
         NEW t, t = GiveBack(Accepted(Touched(s, i), i, c), i, c)
  PROVE  Takes(s, t, i, c)
<1> DEFINE u == Touched(s, i)
           v == Accepted(u, i, c)
           y == GiveBack(v, i, c)
<1>1. /\ Only(s, u, i)
      /\ u.req[i].live = s.req[i].live /\ u.req[i].s = s.req[i].s
      /\ u.req[i].first = s.req[i].first /\ u.req[i].old = FALSE
      /\ u.req[i].flags = s.req[i].flags
  BY TouchedDoes
<1>2. t = y
  OBVIOUS
<1> HIDE DEF u
<1>3. u \in Machine
  BY <1>1 DEF Only
<1>4. /\ Only(u, v, i)
      /\ v.req[i].live = u.req[i].live /\ v.req[i].s = u.req[i].s
      /\ v.req[i].old = u.req[i].old
      /\ v.req[i].flags = u.req[i].flags \cup {"ACCEPTED"}
      /\ v.req[i].first = IF "ACCEPTED" \in u.req[i].flags THEN u.req[i].first ELSE c
  BY <1>3, AcceptedDoes
<1> HIDE DEF v
<1>5. v \in Machine
  BY <1>4 DEF Only
<1>6. /\ y \in Machine
      /\ SameProcesses(v, y) /\ SameRequests(v, y) /\ SameOwn(v, y) /\ SameWreck(v, y)
      /\ \A d \in Cpus : In(y, d) = IF d = c THEN In(v, d) \ {i} ELSE In(v, d)
      /\ Lists(v) => Lists(y)
      /\ AddsUp(v) /\ i \in In(v, c) => AddsUp(y)
  BY <1>5, GiveBackDoes
<1> HIDE DEF y
<1>7. /\ SameProcesses(s, y) /\ SameOwn(s, y) /\ SameWreck(s, y)
      /\ y.next_id = s.next_id /\ \A j \in Ids \ {i} : y.req[j] = s.req[j]
      /\ y.req = v.req
  BY <1>1, <1>4, <1>6 DEF Only, SameProcesses, SameOwn, SameWreck, SameRequests
<1>8. SameElements(s, v)
  BY <1>1, <1>4 DEF Only, SameElements
<1>9. /\ \A d \in Cpus : In(v, d) = In(s, d)
      /\ AddsUp(s) => AddsUp(v)
  BY <1>8, ElementsStay
<1>10. Lists(s) => Lists(v)
  BY <1>1, <1>4 DEF Only, Lists, SameProcesses, SameElements, SameOwn
<1> QED BY <1>1, <1>2, <1>4, <1>6, <1>7, <1>9, <1>10 DEF Takes

LEMMA ReceivedKeeps ==
  ASSUME NEW s \in Machine, NEW h \in [Ids -> SUBSET Cpus], Keeps(s, h, {}, {}),
         NEW i \in Ids, NEW c \in Cpus, i \in In(s, c),
         NEW t, t = GiveBack(Accepted(Touched(s, i), i, c), i, c),
         NEW k, k = [h EXCEPT ![i] = @ \cup {c}]
  PROVE  Keeps(t, k, {}, {i})
<1> Takes(s, t, i, c)
  BY ReceivedDoes
<1>1. /\ t \in Machine /\ SameProcesses(s, t) /\ SameOwn(s, t) /\ SameWreck(s, t)
      /\ t.next_id = s.next_id /\ \A j \in Ids \ {i} : t.req[j] = s.req[j]
      /\ t.req[i].live = s.req[i].live /\ t.req[i].s = s.req[i].s /\ t.req[i].old = FALSE
      /\ t.req[i].flags = s.req[i].flags \cup {"ACCEPTED"}
      /\ t.req[i].first = IF "ACCEPTED" \in s.req[i].flags THEN s.req[i].first ELSE c
      /\ \A d \in Cpus : In(t, d) = IF d = c THEN In(s, d) \ {i} ELSE In(s, d)
      /\ Lists(s) => Lists(t)
      /\ AddsUp(s) /\ i \in In(s, c) => AddsUp(t)
  BY DEF Takes
<1>2. /\ Lists(s) /\ Elements(s, h) /\ Owned(s) /\ Numbered(s, h)
      /\ Waiting(s, {}, {}) /\ Receiving(s, {}) /\ Named(s, h) /\ Done(s) /\ AddsUp(s)
  BY KeepsMeans
<1>3. \A d \in Cpus : Own(t, d) = Own(s, d)
  BY <1>1, OwnStays
<1>4. t.cpu = s.cpu /\ t.sleepers = s.sleepers /\ t.cut = s.cut
  BY <1>1 DEF SameProcesses
<1>5. k[i] = h[i] \cup {c} /\ \A j \in Ids \ {i} : k[j] = h[j]
  OBVIOUS
<1>6. \A j \in Ids : /\ t.req[j].live = s.req[j].live /\ t.req[j].s = s.req[j].s
                     /\ \A f \in {"NONBLOCK", "SENDERSLEEP", "COMPLETED", "ERROR"} :
                          f \in t.req[j].flags <=> f \in s.req[j].flags
  BY <1>1
<1>7. \A d \in Cpus : In(s, d) \subseteq Ids /\ Own(s, d) \subseteq Ids
  BY Tables
<1>8. /\ \A j : Targets(s, j) = {d \in Cpus : j \in In(s, d)}
      /\ \A j : Targets(t, j) = {d \in Cpus : j \in In(t, d)}
  BY <1>1, Receivers
<1>9. s.req[i].live /\ s.req[i].s \in Cpus /\ i < s.next_id
  BY <1>2 DEF Elements, Numbered
<1>10. Elements(t, k)
  BY <1>1, <1>2, <1>4, <1>5, <1>6, <1>7 DEF Elements
<1>11. Owned(t)
  BY <1>2, <1>3, <1>4, <1>6, <1>7 DEF Owned
<1>12. Numbered(t, k)
  <2>1. ASSUME NEW j \in Ids
        PROVE  /\ t.req[j].live => j < t.next_id /\ t.req[j].s \in Cpus
               /\ j >= t.next_id => k[j] = {} /\ t.req[j].first = AnyVcpu
    <3>1. CASE j # i
      BY <1>1, <1>2, <1>5, <3>1 DEF Numbered
    <3>2. CASE j = i
      <4>1. s.next_id \in Nat /\ i \in Nat
        BY Fields, IpcMsgAssumption DEF Counts, Ids
      <4>2. ~ (i >= t.next_id)
        BY <1>1, <1>9, <4>1
      <4> QED BY <1>1, <1>9, <3>2, <4>2
    <3> QED BY <3>1, <3>2
  <2> QED BY <2>1 DEF Numbered
<1>13. Named(t, k)
  <2>1. ASSUME NEW j \in Ids
        PROVE  /\ k[j] = {} => t.req[j].first = AnyVcpu
               /\ k[j] # {} => t.req[j].first \in k[j]
               /\ t.req[j].live => ("ACCEPTED" \in t.req[j].flags <=> k[j] # {})
    <3>1. CASE j # i
      BY <1>1, <1>2, <1>5, <3>1 DEF Named
    <3>2. CASE j = i
      BY <1>1, <1>2, <1>5, <1>9, <3>2 DEF Named
    <3> QED BY <3>1, <3>2
  <2> QED BY <2>1 DEF Named
<1>14. Waiting(t, {}, {i})
  <2>1. ASSUME NEW j \in Ids \ {i} PROVE Targets(t, j) = Targets(s, j)
    <3>1. \A d \in Cpus : j \in In(t, d) <=> j \in In(s, d)
      BY <1>1
    <3> QED BY <3>1, <1>8
  <2>2. \A j \in Ids : Dozes(t, j) <=> Dozes(s, j)
    BY <1>6 DEF Dozes
  <2>3. ASSUME NEW j \in Ids, Dozes(t, j)
        PROVE  /\ j \notin {i} => Targets(t, j) # {}
               /\ j \in Own(t, t.req[j].s)
               /\ t.cpu[t.req[j].s].wait = "send" /\ "NONBLOCK" \notin t.req[j].flags
    <3>1. /\ Targets(s, j) # {} /\ j \in Own(s, s.req[j].s)
          /\ s.cpu[s.req[j].s].wait = "send" /\ "NONBLOCK" \notin s.req[j].flags
      BY <1>2, <2>2, <2>3 DEF Waiting
    <3>2. s.req[j].s \in Cpus
      BY <1>2, <2>2, <2>3 DEF Numbered, Dozes
    <3> QED BY <3>1, <3>2, <2>1, <1>3, <1>4, <1>6
  <2>4. \A j, l \in Ids : Dozes(t, j) /\ Dozes(t, l) /\ t.req[j].s = t.req[l].s => j = l
    BY <1>2, <1>6, <2>2 DEF Waiting
  <2>5. ASSUME NEW d \in Cpus, t.cpu[d].wait = "send"
        PROVE  \E j \in Own(t, d) : Dozes(t, j)
    <3>1. \E j \in Own(s, d) : Dozes(s, j)
      BY <1>2, <1>4, <2>5 DEF Waiting
    <3> QED BY <3>1, <2>2, <1>3, <1>7
  <2> QED BY <2>3, <2>4, <2>5 DEF Waiting
<1>15. Receiving(t, {})
  <2>1. \A d \in Cpus : In(t, d) \subseteq In(s, d)
    BY <1>1
  <2>2. \A d \in Cpus : \A j \in In(s, d) : j \in Ids /\ s.req[j].s \in Cpus
    BY <1>2, <1>7 DEF Elements, Numbered
  <2> QED BY <1>2, <1>3, <1>4, <1>6, <2>1, <2>2 DEF Receiving
<1>16. Done(t)
  BY <1>1, <1>2, <1>6, <1>8 DEF Done
<1> QED BY <1>1, <1>2, <1>10, <1>11, <1>12, <1>13, <1>14, <1>15, <1>16, KeepsMeans

-----------------------------------------------------------------------------
(* What a step does to the requests, seen from outside *)

\* Exchanges are opened and closed once, and deliver while they are open.
Moved(s, h, t, k) ==
  \A i \in Ids :
    /\ i < s.next_id => i < t.next_id /\ (t.req[i].live => s.req[i].live)
    /\ h[i] \subseteq k[i] /\ k[i] \subseteq Cpus
    /\ i < s.next_id /\ ~ s.req[i].live => k[i] = h[i]
    /\ i >= t.next_id => k[i] = {}
    /\ k[i] = {} => t.req[i].first = AnyVcpu
    /\ k[i] # {} /\ h[i] = {} => t.req[i].first \in k[i]
    /\ h[i] # {} => t.req[i].first = s.req[i].first

\* A sender that goes on before its time is up knows who got the message.
Knows(s, t, k) ==
  \A i \in Ids :
    /\ Dozes(s, i) /\ ~ s.req[i].old
    /\ t.cpu[s.req[i].s].used /\ t.cpu[s.req[i].s].wait = "no"
    /\ \A d \in Cpus : <<d, s.req[i].s>> \notin Denied
    => /\ t.req[i].first \in k[i]
       /\ "MULTICAST" \in s.req[i].flags => Targets(t, i) = {}

LEMMA LosesMoved ==
  ASSUME NEW s \in Machine, NEW h \in [Ids -> SUBSET Cpus], NEW D, NEW E, Keeps(s, h, D, E),
         NEW t, Loses(s, t)
  PROVE  Moved(s, h, t, h)
<1>1. Numbered(s, h) /\ Named(s, h)
  BY KeepsMeans
<1>2. \A i \in Ids : h[i] \subseteq Cpus
  OBVIOUS
<1> QED BY <1>1, <1>2 DEF Moved, Loses, Numbered, Named

\* How a sleep may end in a sound state.
Answered(s, t, k, i) ==
  \/ Dozes(t, i)
  \/ ~ t.cpu[s.req[i].s].used
  \/ \E d \in Cpus : <<d, s.req[i].s>> \in Denied
  \/ k[i] # {} /\ ("MULTICAST" \in s.req[i].flags => Targets(t, i) = {})

LEMMA KnowsWhen ==
  ASSUME NEW s \in Machine, NEW t \in Machine, NEW k, Keeps(t, k, {}, {}),
         \A i \in Ids : Dozes(s, i) /\ ~ s.req[i].old =>
           t.req[i].s = s.req[i].s /\ Answered(s, t, k, i)
  PROVE  Knows(s, t, k)
<1>1. Waiting(t, {}, {}) /\ Named(t, k)
  BY KeepsMeans
<1>2. ASSUME NEW i \in Ids, Dozes(s, i), ~ s.req[i].old,
             t.cpu[s.req[i].s].used, t.cpu[s.req[i].s].wait = "no",
             \A d \in Cpus : <<d, s.req[i].s>> \notin Denied
      PROVE  /\ t.req[i].first \in k[i]
             /\ "MULTICAST" \in s.req[i].flags => Targets(t, i) = {}
  <2>1. t.req[i].s = s.req[i].s /\ Answered(s, t, k, i)
    BY <1>2
  <2>2. ~ Dozes(t, i)
    BY <1>1, <1>2, <2>1 DEF Waiting
  <2>3. k[i] # {} /\ ("MULTICAST" \in s.req[i].flags => Targets(t, i) = {})
    BY <1>2, <2>1, <2>2 DEF Answered
  <2> QED BY <1>1, <2>3 DEF Named
<1> QED BY <1>2 DEF Knows

LEMMA SteadyKnows ==
  ASSUME NEW s \in Machine, NEW t \in Machine, NEW h, Keeps(t, h, {}, {}),
         Steady(s, t), Loses(s, t)
  PROVE  Knows(s, t, h)
<1>1. \A i \in Ids : Dozes(s, i) /\ ~ s.req[i].old =>
        t.req[i].s = s.req[i].s /\ Answered(s, t, h, i)
  BY DEF Steady, Shrinks, Loses, Answered
<1> QED BY <1>1, KnowsWhen

-----------------------------------------------------------------------------
(* IPC_MSG_RECV takes a message *)

\* The last one of those addressed marks the request.
Marked(s, i) == IF Targets(s, i) = {} THEN Flagged(s, i, {"COMPLETED"}) ELSE s

LEMMA MarkedDoes ==
  ASSUME NEW s \in Machine, NEW i \in Ids, NEW t, t = Marked(s, i)
  PROVE  /\ t \in Machine /\ Loses(s, t) /\ SameProcesses(s, t)
         /\ t.req[i].live = s.req[i].live /\ \A j \in Ids \ {i} : t.req[j] = s.req[j]
         /\ \A f \in {"NONBLOCK", "MULTICAST", "SENDERSLEEP", "ACCEPTED"} :
              f \in t.req[i].flags <=> f \in s.req[i].flags
         /\ Targets(t, i) = Targets(s, i)
         /\ Targets(t, i) = {} => "COMPLETED" \in t.req[i].flags
         /\ \A h, D, E : Keeps(s, h, D, E) => Keeps(t, h, D, E)
<1>1. CASE Targets(s, i) # {}
  BY <1>1, LosesSelf DEF Marked, SameProcesses
<1>2. CASE Targets(s, i) = {}
  <2>1. t = Flagged(s, i, {"COMPLETED"}) /\ {"COMPLETED"} \in SUBSET {"COMPLETED", "ERROR"}
    BY <1>2 DEF Marked
  <2>2. /\ Marks(s, t, i) /\ t.req[i].old = s.req[i].old
        /\ t.req[i].flags = s.req[i].flags \cup {"COMPLETED"}
    BY <2>1, FlaggedMarks
  <2>3. t \in Machine /\ Loses(s, t)
    BY <2>2, MarksLoses
  <2>4. /\ SameProcesses(s, t) /\ SameElements(s, t)
        /\ t.req[i].live = s.req[i].live /\ \A j \in Ids \ {i} : t.req[j] = s.req[j]
        /\ \A f \in {"NONBLOCK", "MULTICAST", "SENDERSLEEP", "ACCEPTED"} :
             f \in t.req[i].flags <=> f \in s.req[i].flags
    BY <2>2 DEF Marks, Only
  <2>5. Targets(t, i) = Targets(s, i)
    BY <2>4, ElementsStay
  <2>6. ASSUME NEW h, NEW D, NEW E, Keeps(s, h, D, E) PROVE Keeps(t, h, D, E)
    BY <1>2, <2>2, <2>6, MarksKeeps
  <2> QED BY <2>2, <2>3, <2>4, <2>5, <2>6
<1> QED BY <1>1, <1>2

\* The answer to the sender of i, and the end of i.
Answer(u, i) ==
  LET w == IF Wakes(u, i) THEN WakeSender(u, i) ELSE u
  IN CASE Has(u, i, "NONBLOCK") -> u
       [] OTHER -> IF Has(w, i, "COMPLETED") THEN Forget(Unlink(w, i), i) ELSE w

Closes(u, k, i, t) ==
  /\ t \in Machine /\ Loses(u, t)
  /\ t.wreck = "none" =>
       /\ Keeps(t, k, {}, {})
       /\ \A j \in Ids \ {i} : t.req[j] = u.req[j]
       /\ Dozes(u, i) =>
            Dozes(t, i) \/ ("MULTICAST" \in u.req[i].flags => Targets(t, i) = {})

LEMMA AnswerDoes ==
  ASSUME NEW u \in Machine, NEW k, NEW i \in Ids, Keeps(u, k, {}, {i}), u.req[i].live,
         Targets(u, i) = {} => "COMPLETED" \in u.req[i].flags,
         NEW t, t = Answer(u, i)
  PROVE  Closes(u, k, i, t)
<1> SUFFICES
      /\ t \in Machine /\ Loses(u, t)
      /\ t.wreck = "none" =>
           /\ Keeps(t, k, {}, {})
           /\ \A j \in Ids \ {i} : t.req[j] = u.req[j]
           /\ Dozes(u, i) =>
                Dozes(t, i) \/ ("MULTICAST" \in u.req[i].flags => Targets(t, i) = {})
  BY DEF Closes
<1>1. u.req[i].s \in Cpus /\ Done(u) /\ Waiting(u, {}, {i})
  BY KeepsMeans, Sender
<1>2. CASE Has(u, i, "NONBLOCK")
  <2>1. t = u
    BY <1>2 DEF Answer
  <2>2. ~ Dozes(u, i)
    BY <1>1, <1>2 DEF Waiting, Has
  <2> QED BY <2>1, <2>2, ExemptionEnds, LosesSelf
<1>3. CASE ~ Has(u, i, "NONBLOCK") /\ Wakes(u, i)
  <2> DEFINE w == WakeSender(u, i)
  <2>1. t = IF Has(w, i, "COMPLETED") THEN Forget(Unlink(w, i), i) ELSE w
    BY <1>3 DEF Answer
  <2>2. Dozes(u, i) /\ ("MULTICAST" \in u.req[i].flags => "COMPLETED" \in u.req[i].flags)
    BY <1>3 DEF Wakes, Has, Dozes
  <2>3. /\ w \in Machine /\ Loses(u, w) /\ \A j \in Ids \ {i} : w.req[j] = u.req[j]
        /\ w.req[i].live
        /\ w.req[i].flags = u.req[i].flags \ {"SENDERSLEEP"}
    BY <1>1, WakeSenderLoses
  <2>4. Keeps(w, k, {}, {})
    BY <2>2, WakeSenderKeeps
  <2> HIDE DEF w
  <2>5. CASE Has(w, i, "COMPLETED")
    <3>1. t = Forget(Unlink(w, i), i)
      BY <2>1, <2>5
    <3>2. t \in Machine /\ Loses(w, t)
      BY <2>3, <3>1, CloseLoses
    <3>3. Loses(u, t)
      BY <2>3, <3>2, LosesChain
    <3>4. ASSUME t.wreck = "none"
          PROVE  /\ Keeps(t, k, {}, {})
                 /\ \A j \in Ids \ {i} : t.req[j] = u.req[j]
                 /\ Targets(t, i) = {}
      <4>1. Keeps(w, k, {}, {i})
        BY <2>4, ExemptionStarts
      <4>2. Keeps(t, k, {}, {})
        BY <2>3, <3>1, <3>4, <4>1, CloseKeeps
      <4>3. w.req[i].s \in Cpus
        BY <1>1, <2>3 DEF Loses
      <4>4. \A j \in Ids \ {i} : t.req[j] = w.req[j]
        BY <2>3, <3>1, <3>4, <4>3, CloseLeaves
      <4>5. Done(w)
        BY <2>4, KeepsMeans
      <4>6. Targets(w, i) = {}
        BY <2>3, <2>5, <4>5 DEF Done, Has
      <4>7. \A d \in Cpus : i \notin In(t, d)
        BY <2>3, <3>2, <4>6, Receivers DEF Loses
      <4>8. Targets(t, i) = {}
        BY <3>2, <4>7, Receivers
      <4> QED BY <2>3, <4>2, <4>4, <4>8
    <3> QED BY <3>2, <3>3, <3>4
  <2>6. CASE ~ Has(w, i, "COMPLETED")
    <3>1. t = w
      BY <2>1, <2>6
    <3>2. "MULTICAST" \notin u.req[i].flags
      BY <2>2, <2>3, <2>6 DEF Has
    <3> QED BY <2>3, <2>4, <3>1, <3>2
  <2> QED BY <2>5, <2>6
<1>4. CASE ~ Has(u, i, "NONBLOCK") /\ ~ Wakes(u, i) /\ Has(u, i, "COMPLETED")
  <2>1. t = Forget(Unlink(u, i), i)
    BY <1>4 DEF Answer
  <2>2. t \in Machine /\ Loses(u, t)
    BY <2>1, CloseLoses
  <2>3. "SENDERSLEEP" \notin u.req[i].flags
    BY <1>4 DEF Wakes, Has
  <2>4. ~ Dozes(u, i)
    BY <2>3 DEF Dozes
  <2>5. ASSUME t.wreck = "none"
        PROVE  Keeps(t, k, {}, {}) /\ \A j \in Ids \ {i} : t.req[j] = u.req[j]
    <3>1. Keeps(t, k, {}, {})
      BY <2>1, <2>3, <2>5, CloseKeeps
    <3>2. \A j \in Ids \ {i} : t.req[j] = u.req[j]
      BY <1>1, <2>1, <2>5, CloseLeaves
    <3> QED BY <3>1, <3>2
  <2> QED BY <2>2, <2>4, <2>5
<1>5. CASE ~ Has(u, i, "NONBLOCK") /\ ~ Wakes(u, i) /\ ~ Has(u, i, "COMPLETED")
  <2>1. t = u
    BY <1>5 DEF Answer
  <2>2. Targets(u, i) # {}
    BY <1>5 DEF Has
  <2> QED BY <2>1, <2>2, ExemptionEnds, LosesSelf
<1> QED BY <1>2, <1>3, <1>4, <1>5

LEMMA DeliverDoes ==
  ASSUME NEW s \in Machine, NEW h \in [Ids -> SUBSET Cpus], Keeps(s, h, {}, {}),
         NEW i \in Ids, NEW c \in Cpus, i \in In(s, c),
         NEW t, t = Deliver(s, c, i),
         NEW k, k = [h EXCEPT ![i] = @ \cup {c}]
  PROVE  /\ t \in Machine /\ Moved(s, h, t, k)
         /\ t.wreck = "none" => Keeps(t, k, {}, {}) /\ Knows(s, t, k)
<1> DEFINE x == GiveBack(Accepted(Touched(s, i), i, c), i, c)
           u == Marked(x, i)
<1>1. Takes(s, x, i, c) /\ Keeps(x, k, {}, {i})
  BY ReceivedDoes, ReceivedKeeps
<1>2. t = Answer(u, i)
  BY DEF Deliver, Answer, Marked
<1> HIDE DEF x
<1>3. /\ x \in Machine /\ x.next_id = s.next_id /\ SameProcesses(s, x) /\ SameWreck(s, x)
      /\ \A j \in Ids \ {i} : x.req[j] = s.req[j]
      /\ x.req[i].live = s.req[i].live /\ x.req[i].s = s.req[i].s
      /\ x.req[i].flags = s.req[i].flags \cup {"ACCEPTED"}
      /\ x.req[i].first = IF "ACCEPTED" \in s.req[i].flags THEN s.req[i].first ELSE c
  BY <1>1 DEF Takes
<1>4. /\ u \in Machine /\ Loses(x, u)
      /\ u.req[i].live = x.req[i].live /\ \A j \in Ids \ {i} : u.req[j] = x.req[j]
      /\ \A f \in {"NONBLOCK", "MULTICAST", "SENDERSLEEP", "ACCEPTED"} :
           f \in u.req[i].flags <=> f \in x.req[i].flags
      /\ Targets(u, i) = {} => "COMPLETED" \in u.req[i].flags
      /\ Keeps(u, k, {}, {i})
  BY <1>1, <1>3, MarkedDoes
<1> HIDE DEF u
<1>5. s.req[i].live
  BY KeepsMeans DEF Elements
<1>6. /\ t \in Machine /\ Loses(u, t)
      /\ t.wreck = "none" =>
           /\ Keeps(t, k, {}, {})
           /\ \A j \in Ids \ {i} : t.req[j] = u.req[j]
           /\ Dozes(u, i) =>
                Dozes(t, i) \/ ("MULTICAST" \in u.req[i].flags => Targets(t, i) = {})
  <2>1. u.req[i].live
    BY <1>3, <1>4, <1>5
  <2>2. Closes(u, k, i, t)
    BY <1>2, <1>4, <2>1, AnswerDoes
  <2> QED BY <2>2 DEF Closes
<1>7. Loses(x, t)
  BY <1>4, <1>6, LosesChain
<1>8. k[i] = h[i] \cup {c} /\ \A j \in Ids \ {i} : k[j] = h[j]
  OBVIOUS
<1>9. Moved(s, h, t, k)
  <2>1. Numbered(s, h) /\ Named(s, h)
    BY KeepsMeans
  <2>2. ASSUME NEW j \in Ids
        PROVE  /\ j < s.next_id => j < t.next_id /\ (t.req[j].live => s.req[j].live)
               /\ h[j] \subseteq k[j] /\ k[j] \subseteq Cpus
               /\ j < s.next_id /\ ~ s.req[j].live => k[j] = h[j]
               /\ j >= t.next_id => k[j] = {}
               /\ k[j] = {} => t.req[j].first = AnyVcpu
               /\ k[j] # {} /\ h[j] = {} => t.req[j].first \in k[j]
               /\ h[j] # {} => t.req[j].first = s.req[j].first
    <3>1. t.next_id = s.next_id /\ t.req[j].first = x.req[j].first /\ (t.req[j].live => x.req[j].live)
      BY <1>3, <1>7 DEF Loses
    <3>2. CASE j # i
      BY <1>3, <1>8, <2>1, <3>1, <3>2 DEF Numbered, Named
    <3>3. CASE j = i
      <4>1. s.next_id \in Nat /\ i \in Nat /\ i < s.next_id
        BY <1>5, <2>1, Fields, IpcMsgAssumption DEF Counts, Ids, Numbered
      <4> QED BY <1>3, <1>5, <1>8, <2>1, <3>1, <3>3, <4>1 DEF Named
    <3> QED BY <3>2, <3>3
  <2> QED BY <2>2 DEF Moved
<1>10. ASSUME t.wreck = "none" PROVE Keeps(t, k, {}, {}) /\ Knows(s, t, k)
  <2>1. Keeps(t, k, {}, {}) /\ \A j \in Ids \ {i} : t.req[j] = s.req[j]
    BY <1>3, <1>4, <1>6, <1>10
  <2>2. ASSUME NEW j \in Ids, Dozes(s, j)
        PROVE  t.req[j].s = s.req[j].s /\ Answered(s, t, k, j)
    <3>1. CASE j # i
      BY <2>1, <2>2, <3>1 DEF Dozes, Answered
    <3>2. CASE j = i
      <4>1. t.req[i].s = s.req[i].s
        BY <1>3, <1>7 DEF Loses
      <4>2. Dozes(u, i) /\ ("MULTICAST" \in u.req[i].flags <=> "MULTICAST" \in s.req[i].flags)
        BY <1>3, <1>4, <2>2, <3>2 DEF Dozes
      <4> QED BY <1>6, <1>8, <1>10, <3>2, <4>1, <4>2 DEF Answered
    <3> QED BY <3>1, <3>2
  <2>3. Knows(s, t, k)
    BY <1>6, <2>1, <2>2, KnowsWhen
  <2> QED BY <2>1, <2>3
<1> QED BY <1>6, <1>9, <1>10

-----------------------------------------------------------------------------
(* IPC_MSG_RECV is refused a message, or has none *)

LEMMA RefuseDoes ==
  ASSUME NEW s \in Machine, NEW h, Keeps(s, h, {}, {}),
         NEW i \in Ids, NEW c \in Cpus, i \in In(s, c), NEW t, t = Refuse(s, c, i)
  PROVE  /\ t \in Machine /\ Loses(s, t) /\ t.cpu[c] = s.cpu[c]
         /\ t.wreck = "none" =>
              Keeps(t, h, {}, {}) /\ \A j \in Ids \ {i} : t.req[j] = s.req[j]
<1> DEFINE x == GiveBack(s, i, c)
           u == Marked(x, i)
<1>1. x \in Machine /\ Loses(s, x) /\ SameProcesses(s, x)
  BY GiveBackLoses
<1>2. Keeps(x, h, {}, {i})
  BY GiveBackKeeps
<1>3. SameRequests(s, x)
  BY GiveBackDoes
<1>4. s.req[i].live /\ s.req[i].s \in Cpus /\ s.req[i].s # c
  BY KeepsMeans DEF Elements, Numbered
<1>5. /\ Targets(x, i) # {} => t = x
      /\ Targets(x, i) = {} =>
           t = IF Has(x, i, "NONBLOCK") THEN Touched(u, i)
               ELSE Forget(Unlink(IF Has(u, i, "SENDERSLEEP") THEN WakeSender(u, i) ELSE u, i), i)
  BY DEF Refuse, Marked
<1> HIDE DEF x
<1>6. /\ u \in Machine /\ Loses(x, u) /\ SameProcesses(x, u)
      /\ u.req[i].live = x.req[i].live /\ \A j \in Ids \ {i} : u.req[j] = x.req[j]
      /\ \A f \in {"NONBLOCK", "MULTICAST", "SENDERSLEEP", "ACCEPTED"} :
           f \in u.req[i].flags <=> f \in x.req[i].flags
      /\ Targets(u, i) = Targets(x, i)
      /\ Keeps(u, h, {}, {i})
  BY <1>1, <1>2, MarkedDoes
<1> HIDE DEF u
<1>7. /\ u.cpu = s.cpu /\ x.cpu = s.cpu /\ \A j \in Ids \ {i} : u.req[j] = s.req[j]
      /\ u.req[i].live /\ u.req[i].s = s.req[i].s
  BY <1>1, <1>3, <1>4, <1>6 DEF SameProcesses, SameRequests, Loses
<1>8. Loses(s, u)
  BY <1>1, <1>6, LosesChain
<1>9. CASE Targets(x, i) # {}
  <2>1. t = x
    BY <1>5, <1>9
  <2>2. Keeps(x, h, {}, {})
    BY <1>2, <1>9, ExemptionEnds
  <2> QED BY <1>1, <1>3, <1>7, <2>1, <2>2 DEF SameRequests
<1>10. CASE Targets(x, i) = {} /\ Has(x, i, "NONBLOCK")
  <2>1. t = Touched(u, i)
    BY <1>5, <1>10
  <2>2. ~ Dozes(u, i)
    <3>1. Waiting(u, {}, {i})
      BY <1>6, KeepsMeans
    <3>2. "NONBLOCK" \in u.req[i].flags
      BY <1>6, <1>10 DEF Has
    <3> QED BY <3>1, <3>2 DEF Waiting
  <2>3. Keeps(u, h, {}, {})
    BY <1>6, <2>2, ExemptionEnds
  <2>4. Marks(u, t, i) /\ t.req[i].old = FALSE /\ t.req[i].flags = u.req[i].flags
    BY <1>6, <2>1, TouchedMarks
  <2>5. Keeps(t, h, {}, {})
    BY <1>6, <2>3, <2>4, MarksKeeps
  <2>6. t \in Machine /\ Loses(u, t)
    BY <1>6, <2>4, MarksLoses
  <2>7. t.cpu = u.cpu /\ \A j \in Ids \ {i} : t.req[j] = u.req[j]
    BY <2>4 DEF Marks, Only, SameProcesses
  <2>8. Loses(s, t)
    BY <1>8, <2>6, LosesChain
  <2> QED BY <1>7, <2>5, <2>6, <2>7, <2>8
<1>11. CASE Targets(x, i) = {} /\ ~ Has(x, i, "NONBLOCK")
  <2> DEFINE w == IF Has(u, i, "SENDERSLEEP") THEN WakeSender(u, i) ELSE u
  <2>1. t = Forget(Unlink(w, i), i)
    BY <1>5, <1>11
  <2>2. /\ w \in Machine /\ Loses(u, w) /\ \A j \in Ids \ {i} : w.req[j] = u.req[j]
        /\ w.req[i].live /\ "SENDERSLEEP" \notin w.req[i].flags
        /\ Keeps(w, h, {}, {i}) /\ w.cpu[c] = u.cpu[c]
    <3>1. CASE Has(u, i, "SENDERSLEEP")
      <4> DEFINE y == WakeSender(u, i)
      <4>1. /\ y \in Machine /\ Loses(u, y) /\ \A j \in Ids \ {i} : y.req[j] = u.req[j]
            /\ y.req[i].live = u.req[i].live
            /\ y.req[i].flags = u.req[i].flags \ {"SENDERSLEEP"}
        BY <1>4, <1>6, <1>7, WakeSenderLoses, ZenonT(60)
      <4>2. Dozes(u, i)
        BY <1>7, <3>1 DEF Has, Dozes
      <4>3. Keeps(y, h, {}, {})
        BY <1>6, <4>2, WakeSenderKeeps
      <4>4. Waits(u, y, u.req[i].s, "no")
        BY <1>4, <1>6, <1>7, WakeSenderDoes
      <4>5. w = y
        BY <3>1
      <4> HIDE DEF y, w
      <4>6. Keeps(y, h, {}, {i})
        BY <4>3, ExemptionStarts
      <4>7. y.cpu[c] = u.cpu[c]
        BY <1>4, <1>7, <4>4 DEF Waits
      <4> QED BY <1>7, <4>1, <4>5, <4>6, <4>7
    <3>2. CASE ~ Has(u, i, "SENDERSLEEP")
      BY <1>6, <1>7, <3>2, LosesSelf DEF Has
    <3> QED BY <3>1, <3>2
  <2> HIDE DEF w
  <2>3. t \in Machine /\ Loses(w, t) /\ SameProcesses(w, t)
    BY <2>1, <2>2, CloseLoses
  <2>4. Loses(u, t)
    BY <2>2, <2>3, LosesChain
  <2>5. Loses(s, t)
    BY <1>8, <2>4, LosesChain
  <2>6. t.cpu[c] = s.cpu[c]
    BY <1>7, <2>2, <2>3 DEF SameProcesses
  <2>7. ASSUME t.wreck = "none"
        PROVE  Keeps(t, h, {}, {}) /\ \A j \in Ids \ {i} : t.req[j] = s.req[j]
    <3>1. Keeps(t, h, {}, {})
      BY <2>1, <2>2, <2>7, CloseKeeps
    <3>2. w.req[i].s \in Cpus
      BY <1>4, <1>7, <2>2 DEF Loses
    <3>3. \A j \in Ids \ {i} : t.req[j] = w.req[j]
      BY <2>1, <2>2, <2>7, <3>2, CloseLeaves
    <3> QED BY <1>7, <2>2, <3>1, <3>3
  <2> QED BY <2>3, <2>5, <2>6, <2>7
<1> QED BY <1>9, <1>10, <1>11

\* One more element at the end of a list
LEMMA AppendFacts ==
  ASSUME NEW S, NEW q \in Seq(S), NEW x \in S
  PROVE  /\ Append(q, x) \in Seq(S)
         /\ ToSet(Append(q, x)) = ToSet(q) \cup {x}
         /\ x \notin ToSet(q) /\ IsInjective(q) => IsInjective(Append(q, x))
<1> DEFINE a == Append(q, x)
<1>1. /\ a \in Seq(S) /\ Len(a) = Len(q) + 1 /\ a[Len(q) + 1] = x
      /\ \A n \in 1 .. Len(q) : a[n] = q[n]
  BY AppendProperties
<1>2. DOMAIN a = 1 .. Len(q) + 1 /\ DOMAIN q = 1 .. Len(q) /\ Len(q) \in Nat
  BY <1>1, LenProperties
<1> HIDE DEF a
<1>3. ToSet(a) = ToSet(q) \cup {x}
  BY <1>1, <1>2 DEF ToSet
<1>4. x \notin ToSet(q) /\ IsInjective(q) => IsInjective(a)
  BY <1>1, <1>2 DEF IsInjective, ToSet
<1> QED BY <1>1, <1>3, <1>4 DEF a

\* c goes to sleep for a message.
LEMMA SleepKeeps ==
  ASSUME NEW s \in Machine, NEW h, Keeps(s, h, {}, {}), NEW c \in Cpus, s.cpu[c].wait = "no",
         In(s, c) = {} \/ c \in s.cut, NEW t, t = Sleep(s, c)
  PROVE  t \in Machine /\ Keeps(t, h, {}, {}) /\ Loses(s, t) /\ SameRequests(s, t)
<1> DEFINE q == Append(s.sleepers, c)
           v == WithWait(s.cpu[c], "recv")
           p == [s.cpu EXCEPT ![c] = v]
<1>1. /\ Lists(s) /\ Elements(s, h) /\ Owned(s) /\ Numbered(s, h)
      /\ Waiting(s, {}, {}) /\ Receiving(s, {}) /\ Named(s, h) /\ Done(s) /\ AddsUp(s)
  BY KeepsMeans
<1>2. t = SetCpuSleepers(s, p, q)
  BY DEF Sleep, SetCpuSleepers, WithWait
<1>3. s.cpu \in VcpuTables /\ s.sleepers \in Seq(Cpus)
  BY Fields DEF CpuLists
<1>4. s.cpu[c] \in Vcpus
  BY <1>3 DEF VcpuTables
<1>5. v \in Vcpus /\ v.wait = "recv" /\ v.used = s.cpu[c].used
  BY <1>4, VcpuChange
<1>6. c \notin ToSet(s.sleepers)
  BY <1>1 DEF Receiving
<1>7. q \in CpuLists /\ ToSet(q) = ToSet(s.sleepers) \cup {c} /\ IsInjective(q)
  BY <1>1, <1>3, <1>6, AppendFacts DEF CpuLists, Lists
<1> HIDE DEF q, v
<1>8. p \in VcpuTables /\ p[c] = v /\ \A d \in Cpus \ {c} : p[d] = s.cpu[d]
  BY <1>3, <1>5 DEF VcpuTables
<1> HIDE DEF p
<1>9. /\ t \in Machine /\ t.cpu = p /\ t.sleepers = q
      /\ t.cut = s.cut /\ SameElements(s, t) /\ SameRequests(s, t) /\ SameOwn(s, t)
      /\ SameWreck(s, t)
  BY <1>2, <1>7, <1>8, PutCpuSleepers
<1>10. /\ \A d \in Cpus : In(t, d) = In(s, d) /\ Own(t, d) = Own(s, d)
       /\ \A i : Targets(t, i) = Targets(s, i)
       /\ AddsUp(t)
  BY <1>1, <1>9, ElementsStay, OwnStays
<1>11. /\ t.req = s.req /\ t.next_id = s.next_id /\ t.own = s.own /\ t.incoming = s.incoming
       /\ t.wreck = s.wreck /\ t.twice = s.twice
  BY <1>9 DEF SameRequests, SameOwn, SameElements, SameWreck
<1>12. /\ t.cpu[c].wait = "recv" /\ \A d \in Cpus \ {c} : t.cpu[d] = s.cpu[d]
       /\ \A d \in Cpus : t.cpu[d].used = s.cpu[d].used
  BY <1>5, <1>8, <1>9
<1>13. Lists(t) /\ Elements(t, h) /\ Owned(t) /\ Numbered(t, h) /\ Named(t, h) /\ Done(t)
  BY <1>1, <1>7, <1>9, <1>10, <1>11, <1>12 DEF Lists, Elements, Owned, Numbered, Named, Done
<1>14. Waiting(t, {}, {})
  <2>1. \A i \in Ids : Dozes(t, i) <=> Dozes(s, i)
    BY <1>11 DEF Dozes
  <2>2. \A i \in Ids : Dozes(s, i) => s.req[i].s \in Cpus \ {c}
    BY <1>1 DEF Numbered, Waiting, Dozes
  <2>3. \A d \in Cpus : Own(s, d) \subseteq Ids
    BY Tables
  <2>4. \A i \in Ids : Dozes(t, i) =>
          /\ Targets(t, i) # {} /\ i \in Own(t, t.req[i].s)
          /\ t.cpu[t.req[i].s].wait = "send" /\ "NONBLOCK" \notin t.req[i].flags
    BY <1>1, <1>10, <1>11, <1>12, <2>1, <2>2 DEF Waiting
  <2>5. \A i, j \in Ids : Dozes(t, i) /\ Dozes(t, j) /\ t.req[i].s = t.req[j].s => i = j
    BY <1>1, <1>11, <2>1 DEF Waiting
  <2>6. \A d \in Cpus : t.cpu[d].wait = "send" => \E i \in Own(t, d) : Dozes(t, i)
    BY <1>1, <1>10, <1>12, <2>1, <2>3 DEF Waiting
  <2> QED BY <2>4, <2>5, <2>6 DEF Waiting
<1>15. Receiving(t, {})
  <2>1. \A d \in Cpus : \A i \in In(s, d) : i \in Ids /\ s.req[i].s \in Cpus
    BY <1>1, Tables DEF Elements, Numbered
  <2>2. \A d \in Cpus : d \in ToSet(t.sleepers) <=> t.cpu[d].wait = "recv"
    BY <1>1, <1>7, <1>9, <1>12 DEF Receiving
  <2>3. \A d \in Cpus : t.cpu[d].wait = "recv" /\ d \notin t.cut =>
          \A i \in In(t, d) : i \notin Own(t, t.req[i].s)
    BY <1>1, <1>9, <1>10, <1>11, <1>12, <2>1 DEF Receiving
  <2> QED BY <2>2, <2>3 DEF Receiving
<1>16. Loses(s, t)
  BY <1>10, <1>11, <1>12 DEF Loses
<1> QED BY <1>9, <1>10, <1>13, <1>14, <1>15, <1>16, KeepsMeans

\* The processes whose queue was cut; nobody leaves them in his sleep.
LEMMA CutKeeps ==
  ASSUME NEW s \in Machine, NEW K \in CpuSets, NEW t, t = SetCut(s, K),
         \A d \in s.cut \ K : s.cpu[d].wait = "no"
  PROVE  /\ t \in Machine /\ t.cut = K /\ t.cpu = s.cpu
         /\ Loses(s, t) /\ Steady(s, t) /\ SameRequests(s, t) /\ SameElements(s, t) /\ SameOwn(s, t)
         /\ \A h : Keeps(s, h, {}, {}) => Keeps(t, h, {}, {})
<1>1. /\ t \in Machine /\ t.cut = K /\ t.cpu = s.cpu /\ t.sleepers = s.sleepers
      /\ SameElements(s, t) /\ SameRequests(s, t) /\ SameOwn(s, t) /\ SameWreck(s, t)
  BY PutCut
<1>2. /\ \A d \in Cpus : In(t, d) = In(s, d) /\ Own(t, d) = Own(s, d)
      /\ \A i : Targets(t, i) = Targets(s, i) /\ (Dozes(t, i) <=> Dozes(s, i))
      /\ AddsUp(s) => AddsUp(t)
  BY <1>1, ElementsStay, OwnStays DEF SameRequests, Dozes
<1>3. /\ t.req = s.req /\ t.next_id = s.next_id /\ t.own = s.own /\ t.incoming = s.incoming
      /\ t.wreck = s.wreck /\ t.twice = s.twice
  BY <1>1 DEF SameRequests, SameOwn, SameElements, SameWreck
<1>4. Loses(s, t) /\ Steady(s, t)
  BY <1>1, <1>2, <1>3 DEF Loses, Steady, Shrinks
<1>5. ASSUME NEW h, Keeps(s, h, {}, {}) PROVE Keeps(t, h, {}, {})
  <2>1. /\ Lists(s) /\ Elements(s, h) /\ Owned(s) /\ Numbered(s, h)
        /\ Waiting(s, {}, {}) /\ Receiving(s, {}) /\ Named(s, h) /\ Done(s) /\ AddsUp(s)
    BY <1>5, KeepsMeans
  <2>2. Lists(t) /\ Elements(t, h) /\ Owned(t) /\ Numbered(t, h) /\ Named(t, h) /\ Done(t)
    BY <1>1, <1>2, <1>3, <2>1 DEF Lists, Elements, Owned, Numbered, Named, Done
  <2>3. \A i \in Ids : Dozes(s, i) => s.req[i].s \in Cpus
    BY <2>1 DEF Numbered, Dozes
  <2>4. Waiting(t, {}, {})
    BY <1>1, <1>2, <1>3, <2>1, <2>3 DEF Waiting
  <2>5. \A d \in Cpus : \A i \in In(s, d) : i \in Ids /\ s.req[i].s \in Cpus
    BY <2>1, Tables DEF Elements, Numbered
  <2>6. \A d \in Cpus : s.cpu[d].wait = "recv" /\ d \notin K => d \notin s.cut
    OBVIOUS
  <2>7. Receiving(t, {})
    BY <1>1, <1>2, <1>3, <2>1, <2>5, <2>6 DEF Receiving
  <2> QED BY <1>2, <2>1, <2>2, <2>4, <2>7, KeepsMeans
<1> QED BY <1>1, <1>4, <1>5

-----------------------------------------------------------------------------
(* The steps, all but IPC_MSG_SEND *)

\* What every step from the sound state s owes.
Good(s, h, t, k) ==
  /\ t \in Machine /\ k \in [Ids -> SUBSET Cpus] /\ Moved(s, h, t, k)
  /\ t.wreck = "none" => Keeps(t, k, {}, {}) /\ (~ t.twice => Knows(s, t, k))

Before == /\ m \in Machine /\ heard \in [Ids -> SUBSET Cpus]
          /\ m.wreck = "none" /\ Keeps(m, heard, {}, {})

LEMMA EndsGood ==
  ASSUME NEW s \in Machine, NEW h \in [Ids -> SUBSET Cpus], Keeps(s, h, {}, {}),
         NEW t, Ends(s, h, t)
  PROVE  Good(s, h, t, h)
<1>1. t \in Machine /\ Loses(s, t)
  BY DEF Ends
<1>2. Moved(s, h, t, h)
  BY <1>1, LosesMoved
<1>3. ASSUME t.wreck = "none" PROVE Keeps(t, h, {}, {}) /\ (~ t.twice => Knows(s, t, h))
  <2>1. Keeps(t, h, {}, {}) /\ (~ t.twice => Steady(s, t))
    BY <1>3 DEF Ends, Follows
  <2> QED BY <1>1, <2>1, SteadyKnows
<1> QED BY <1>1, <1>2, <1>3 DEF Good

LEMMA SameGood ==
  ASSUME NEW s \in Machine, NEW h \in [Ids -> SUBSET Cpus], Keeps(s, h, {}, {}),
         NEW t \in Machine, SameRequests(s, t), Keeps(t, h, {}, {})
  PROVE  Good(s, h, t, h)
<1>1. t.req = s.req /\ t.next_id = s.next_id
  BY DEF SameRequests
<1>2. Numbered(s, h) /\ Named(s, h)
  BY KeepsMeans
<1>3. \A i \in Ids : h[i] \subseteq Cpus
  OBVIOUS
<1>4. Moved(s, h, t, h)
  BY <1>1, <1>2, <1>3 DEF Moved, Numbered, Named
<1>5. \A i \in Ids : Dozes(s, i) /\ ~ s.req[i].old =>
        t.req[i].s = s.req[i].s /\ Answered(s, t, h, i)
  BY <1>1 DEF Dozes, Answered
<1>6. Knows(s, t, h)
  BY <1>5, KnowsWhen
<1> QED BY <1>4, <1>6 DEF Good

\* What concerns a process but not its waits
LEMMA CpuKeeps ==
  ASSUME NEW s \in Machine, NEW h, Keeps(s, h, {}, {}),
         NEW t \in Machine, t.sleepers = s.sleepers, t.cut = s.cut, SameElements(s, t),
         SameRequests(s, t), SameOwn(s, t),
         \A d \in Cpus : t.cpu[d].wait = s.cpu[d].wait /\ (s.cpu[d].used => t.cpu[d].used)
  PROVE  Keeps(t, h, {}, {})
<1>1. /\ Lists(s) /\ Elements(s, h) /\ Owned(s) /\ Numbered(s, h)
      /\ Waiting(s, {}, {}) /\ Receiving(s, {}) /\ Named(s, h) /\ Done(s) /\ AddsUp(s)
  BY KeepsMeans
<1>2. /\ \A d \in Cpus : In(t, d) = In(s, d) /\ Own(t, d) = Own(s, d)
      /\ \A i : Targets(t, i) = Targets(s, i) /\ (Dozes(t, i) <=> Dozes(s, i))
      /\ AddsUp(t)
  BY <1>1, ElementsStay, OwnStays DEF SameRequests, Dozes
<1>3. /\ t.req = s.req /\ t.next_id = s.next_id /\ t.own = s.own /\ t.incoming = s.incoming
  BY DEF SameRequests, SameOwn, SameElements
<1>4. Lists(t) /\ Elements(t, h) /\ Owned(t) /\ Numbered(t, h) /\ Named(t, h) /\ Done(t)
  BY <1>1, <1>2, <1>3 DEF Lists, Elements, Owned, Numbered, Named, Done
<1>5. \A i \in Ids : Dozes(s, i) => s.req[i].s \in Cpus
  BY <1>1 DEF Numbered, Dozes
<1>6. Waiting(t, {}, {})
  BY <1>1, <1>2, <1>3, <1>5 DEF Waiting
<1>7. \A d \in Cpus : \A i \in In(s, d) : i \in Ids /\ s.req[i].s \in Cpus
  BY <1>1, Tables DEF Elements, Numbered
<1>8. Receiving(t, {})
  BY <1>1, <1>2, <1>3, <1>7 DEF Receiving
<1> QED BY <1>2, <1>4, <1>6, <1>8, KeepsMeans

LEMMA NowDoes ==
  ASSUME NEW s \in Machine, NEW t, t = Now(s)
  PROVE  /\ t \in Machine /\ Loses(s, t) /\ Steady(s, t)
         /\ \A h, D, E : Keeps(s, h, D, E) => Keeps(t, h, D, E)
         /\ SameProcesses(s, t) /\ SameElements(s, t) /\ SameRequests(s, t) /\ SameOwn(s, t)
         /\ SameWreck(s, t)
<1>1. t = SetFatal(s, FALSE)
  BY DEF Now, SetFatal
<1> QED BY <1>1, FatalDoes

LEMMA StartsGood ==
  ASSUME Before, NEW c \in Cpus, Starts(c)
  PROVE  Good(m, heard, m', heard')
<1> USE DEF Before
<1> DEFINE v == WithUsed(m.cpu[c])
           p == [m.cpu EXCEPT ![c] = v]
           n == m.starts + 1
<1>1. m' = SetCpuStarts(m, p, n) /\ heard' = heard /\ m.starts < MaxStarts
  BY DEF Starts, SetCpuStarts, WithUsed
<1>2. m.cpu \in VcpuTables /\ m.starts \in StartCounts
  BY Fields
<1>3. m.cpu[c] \in Vcpus
  BY <1>2 DEF VcpuTables
<1>4. v \in Vcpus /\ v.wait = m.cpu[c].wait /\ v.used
  BY <1>3, VcpuChange
<1> HIDE DEF v
<1>5. p \in VcpuTables /\ p[c] = v /\ \A d \in Cpus \ {c} : p[d] = m.cpu[d]
  BY <1>2, <1>4 DEF VcpuTables
<1>6. n \in StartCounts
  BY <1>1, <1>2, IpcMsgAssumption DEF StartCounts
<1> DEFINE t == m'
<1> HIDE DEF p, n, t
<1>7. /\ t \in Machine /\ t.cpu = p
      /\ t.sleepers = m.sleepers /\ t.cut = m.cut /\ SameElements(m, t)
      /\ SameRequests(m, t) /\ SameOwn(m, t) /\ SameWreck(m, t)
  BY <1>1, <1>5, <1>6, PutCpuStarts DEF t
<1>8. \A d \in Cpus : t.cpu[d].wait = m.cpu[d].wait /\ (m.cpu[d].used => t.cpu[d].used)
  BY <1>4, <1>5, <1>7
<1>9. Keeps(t, heard, {}, {})
  BY <1>7, <1>8, CpuKeeps
<1>10. Good(m, heard, t, heard)
  BY <1>7, <1>9, SameGood
<1> QED BY <1>1, <1>10 DEF t

LEMMA RegisterGood ==
  ASSUME Before, NEW c \in Cpus, NEW g \in Groups \cup {NoGroup}, Register(c, g)
  PROVE  Good(m, heard, m', heard')
<1> USE DEF Before
<1> DEFINE s == Now(m)
           v == WithReg(s.cpu[c], g)
           p == [s.cpu EXCEPT ![c] = v]
<1>1. m' = SetCpu(s, p) /\ heard' = heard
  BY DEF Register, SetCpu, WithReg
<1>2. s \in Machine /\ Keeps(s, heard, {}, {}) /\ SameRequests(m, s)
  BY NowDoes
<1> HIDE DEF s
<1>3. s.cpu \in VcpuTables
  BY <1>2, Fields
<1>4. s.cpu[c] \in Vcpus
  BY <1>3 DEF VcpuTables
<1>5. v \in Vcpus /\ v.wait = s.cpu[c].wait /\ v.used = s.cpu[c].used
  BY <1>4, VcpuChange
<1> HIDE DEF v
<1>6. p \in VcpuTables /\ p[c] = v /\ \A d \in Cpus \ {c} : p[d] = s.cpu[d]
  BY <1>3, <1>5 DEF VcpuTables
<1> DEFINE t == m'
<1> HIDE DEF p, t
<1>7. /\ t \in Machine /\ t.cpu = p
      /\ t.sleepers = s.sleepers /\ t.cut = s.cut /\ SameElements(s, t)
      /\ SameRequests(s, t) /\ SameOwn(s, t)
  BY <1>1, <1>2, <1>6, PutCpu DEF t
<1>8. \A d \in Cpus : t.cpu[d].wait = s.cpu[d].wait /\ (s.cpu[d].used => t.cpu[d].used)
  BY <1>5, <1>6, <1>7
<1>9. Keeps(t, heard, {}, {})
  BY <1>2, <1>7, <1>8, CpuKeeps
<1>10. SameRequests(m, t)
  BY <1>2, <1>7 DEF SameRequests
<1>11. Good(m, heard, t, heard)
  BY <1>7, <1>9, <1>10, SameGood
<1> QED BY <1>1, <1>11 DEF t

\* An exception of c, and the end of c by HALT
LEMMA RaisesEnds ==
  ASSUME NEW s \in Machine, NEW h, Known(s), NEW c \in Cpus, NEW t \in Raises(s, c)
  PROVE  Ends(s, h, t)
<1>1. PICK H \in SUBSET {c} : t = Raise(s, c, H)
  BY DEF Raises
<1> QED BY <1>1, RaiseDoes, AmidEnds

LEMMA KillsEnds ==
  ASSUME NEW s \in Machine, NEW h, Known(s), NEW c \in Cpus, NEW t \in Kills(s, c)
  PROVE  Ends(s, h, t) /\ t.cpu[c].used = FALSE
<1>1. PICK H \in SUBSET Clients(s, c) : t = Destroy(s, c, H)
  BY DEF Kills
<1> QED BY <1>1, DestroyDoes, AmidEnds

LEMMA FailsGood ==
  ASSUME Before, NEW c \in Cpus, Fails(c)
  PROVE  Good(m, heard, m', heard')
<1> USE DEF Before
<1> DEFINE s == Now(m)
           t == m'
<1>1. t \in Raises(s, c) /\ heard' = heard
  BY DEF Fails
<1>2. s \in Machine /\ Loses(m, s) /\ Steady(m, s) /\ Keeps(s, heard, {}, {})
  BY NowDoes
<1> HIDE DEF s, t
<1>3. Known(s)
  BY <1>2, Sender
<1>4. Ends(s, heard, t)
  BY <1>1, <1>2, <1>3, RaisesEnds
<1>5. Ends(m, heard, s)
  BY <1>2 DEF Ends, Follows, Steady
<1>6. Ends(m, heard, t)
  BY <1>4, <1>5, EndsChain
<1>7. Good(m, heard, t, heard)
  BY <1>6, EndsGood
<1> QED BY <1>1, <1>7 DEF t

LEMMA DiesGood ==
  ASSUME Before, NEW c \in Cpus, Dies(c)
  PROVE  Good(m, heard, m', heard')
<1> USE DEF Before
<1>1. PICK b \in {FALSE, m.fatal} : m' \in Kills([m EXCEPT !.fatal = b], c)
  BY DEF Dies
<1> DEFINE s == SetFatal(m, b)
           t == m'
<1>2. t \in Kills(s, c) /\ heard' = heard
  BY <1>1 DEF Dies, SetFatal
<1>3. b \in BOOLEAN
  BY Fields
<1>4. s \in Machine /\ Loses(m, s) /\ Steady(m, s) /\ Keeps(s, heard, {}, {})
  BY <1>3, FatalDoes
<1> HIDE DEF s, t
<1>5. Known(s)
  BY <1>4, Sender
<1>6. Ends(s, heard, t)
  BY <1>2, <1>4, <1>5, KillsEnds
<1>7. Ends(m, heard, s)
  BY <1>4 DEF Ends, Follows, Steady
<1>8. Ends(m, heard, t)
  BY <1>6, <1>7, EndsChain
<1>9. Good(m, heard, t, heard)
  BY <1>8, EndsGood
<1> QED BY <1>2, <1>9 DEF t

LEMMA TimeouterGood ==
  ASSUME Before, Timeouter
  PROVE  Good(m, heard, m', heard')
<1> USE DEF Before
<1>1. PICK H \in SUBSET Expiring : m' = ExpireEach(m, H)
  BY DEF Timeouter
<1>2. heard' = heard
  BY DEF Timeouter
<1> DEFINE t == m'
<1>3. t = ExpireEach(m, H)
  BY <1>1
<1> HIDE DEF t
<1>4. Known(m)
  BY Sender
<1>5. Ends(m, heard, t)
  BY <1>3, <1>4, TimeouterDoes
<1>6. Good(m, heard, t, heard)
  BY <1>5, EndsGood
<1> QED BY <1>2, <1>6 DEF t

LEMMA StatGood ==
  ASSUME Before, NEW c \in Cpus, NEW i \in Ids, Stat(c, i)
  PROVE  Good(m, heard, m', heard')
<1> USE DEF Before
<1> DEFINE s == Now(m)
           t == m'
<1>1. /\ heard' = heard /\ Contains(s.own[c], i) /\ Has(s, i, "NONBLOCK")
      /\ t = s \/ t = Forget(Unlink(s, i), i)
  BY DEF Stat
<1>2. s \in Machine /\ Loses(m, s) /\ Steady(m, s) /\ Keeps(s, heard, {}, {})
  BY NowDoes
<1> HIDE DEF s, t
<1>3. Ends(m, heard, s)
  BY <1>2 DEF Ends, Follows, Steady
<1>4. ASSUME t = s PROVE Ends(m, heard, t)
  BY <1>3, <1>4
<1>5. ASSUME t = Forget(Unlink(s, i), i) PROVE Ends(m, heard, t)
  <2>1. i \in Own(s, c)
    BY <1>1, <1>2, Tables, Listed DEF Own
  <2>2. s.req[i].live /\ s.req[i].s \in Cpus
    BY <1>2, <2>1, KeepsMeans DEF Owned
  <2>3. ~ Dozes(s, i)
    <3>1. Waiting(s, {}, {})
      BY <1>2, KeepsMeans
    <3> QED BY <1>1, <3>1 DEF Waiting, Has
  <2>4. "SENDERSLEEP" \notin s.req[i].flags
    BY <2>2, <2>3 DEF Dozes
  <2>5. t \in Machine /\ Loses(s, t)
    BY <1>2, <1>5, CloseLoses
  <2>6. ASSUME t.wreck = "none" PROVE Keeps(t, heard, {}, {}) /\ Steady(s, t)
    <3>1. Keeps(s, heard, {}, {i})
      BY <1>2, ExemptionStarts
    <3>2. Keeps(t, heard, {}, {})
      BY <1>2, <1>5, <2>2, <2>4, <2>6, <3>1, CloseKeeps
    <3> QED BY <1>2, <1>5, <2>2, <2>3, <2>6, <3>2, CloseSteady
  <2>7. Ends(s, heard, t)
    BY <2>5, <2>6 DEF Ends, Follows, Steady
  <2> QED BY <1>2, <1>3, <2>7, EndsChain
<1>6. Ends(m, heard, t)
  BY <1>1, <1>4, <1>5
<1>7. Good(m, heard, t, heard)
  BY <1>6, EndsGood
<1> QED BY <1>1, <1>7 DEF t

-----------------------------------------------------------------------------
(* The step of IPC_MSG_RECV, and time *)

LEMMA SleepDoes ==
  ASSUME NEW s \in Machine, NEW c \in Cpus, NEW t, t = Sleep(s, c)
  PROVE  /\ t \in Machine /\ Loses(s, t) /\ Steady(s, t)
         /\ SameRequests(s, t) /\ SameWreck(s, t)
<1> DEFINE q == Append(s.sleepers, c)
           v == WithWait(s.cpu[c], "recv")
           p == [s.cpu EXCEPT ![c] = v]
<1>1. t = SetCpuSleepers(s, p, q)
  BY DEF Sleep, SetCpuSleepers, WithWait
<1>2. s.cpu \in VcpuTables /\ s.sleepers \in Seq(Cpus)
  BY Fields DEF CpuLists
<1>3. s.cpu[c] \in Vcpus
  BY <1>2 DEF VcpuTables
<1>4. v \in Vcpus /\ v.used = s.cpu[c].used
  BY <1>3, VcpuChange
<1>5. q \in CpuLists
  BY <1>2, AppendFacts DEF CpuLists
<1> HIDE DEF q, v
<1>6. p \in VcpuTables /\ p[c] = v /\ \A d \in Cpus \ {c} : p[d] = s.cpu[d]
  BY <1>2, <1>4 DEF VcpuTables
<1> HIDE DEF p
<1>7. /\ t \in Machine /\ t.cpu = p /\ SameElements(s, t) /\ SameRequests(s, t)
      /\ SameOwn(s, t) /\ SameWreck(s, t)
  BY <1>1, <1>5, <1>6, PutCpuSleepers
<1>8. \A d \in Cpus : In(t, d) = In(s, d) /\ Own(t, d) = Own(s, d)
  BY <1>7, ElementsStay, OwnStays
<1>9. /\ t.req = s.req /\ t.next_id = s.next_id /\ t.wreck = s.wreck /\ t.twice = s.twice
      /\ \A d \in Cpus : t.cpu[d].used = s.cpu[d].used
  BY <1>4, <1>6, <1>7 DEF SameRequests, SameWreck
<1>10. Loses(s, t)
  BY <1>8, <1>9 DEF Loses
<1>11. Steady(s, t)
  BY <1>8, <1>9 DEF Steady, Shrinks, Dozes
<1> QED BY <1>7, <1>10, <1>11

LEMMA NothingEnds ==
  ASSUME NEW s \in Machine, NEW h, NEW c \in Cpus, s.cpu[c].wait = "no",
         In(s, c) = {} \/ c \in s.cut, NEW flags, NEW t, t = NothingFor(s, c, flags)
  PROVE  Ends(s, h, t)
<1>1. t = s \/ t = Sleep(s, c)
  BY DEF NothingFor
<1>2. ASSUME t = s PROVE Ends(s, h, t)
  BY <1>2, EndsSelf
<1>3. ASSUME t = Sleep(s, c) PROVE Ends(s, h, t)
  <2>1. t \in Machine /\ Loses(s, t) /\ Steady(s, t)
    BY <1>3, SleepDoes
  <2>2. ASSUME Keeps(s, h, {}, {}) PROVE Keeps(t, h, {}, {})
    BY <1>3, <2>2, SleepKeeps
  <2> QED BY <2>1, <2>2 DEF Ends, Follows, Steady
<1> QED BY <1>1, <1>2, <1>3

LEMMA HeadIsIn ==
  ASSUME NEW S, NEW q \in Seq(S), q # <<>>
  PROVE  Head(q) \in ToSet(q) /\ ToSet(q) # {}
<1>1. Len(q) \in Nat /\ Len(q) > 0 /\ DOMAIN q = 1 .. Len(q) /\ Head(q) = q[1]
  BY EmptySeq, LenProperties, HeadTailProperties
<1> QED BY <1>1 DEF ToSet

\* What follows the refusal of i to c; the sender of i may be told wrongly.
LEMMA RefusedGood ==
  ASSUME Before, NEW c \in Cpus, NEW i \in Ids, <<c, m.req[i].s>> \in Denied,
         NEW s \in Machine, Loses(m, s), SameRequests(m, s), Keeps(s, heard, {}, {}), i \in In(s, c),
         NEW r, r = Refuse(s, c, i), NEW t, Ends(r, heard, t)
  PROVE  Good(m, heard, t, heard)
<1> USE DEF Before
<1>1. /\ r \in Machine /\ Loses(s, r) /\ r.cpu[c] = s.cpu[c]
      /\ r.wreck = "none" =>
           Keeps(r, heard, {}, {}) /\ \A j \in Ids \ {i} : r.req[j] = s.req[j]
  BY RefuseDoes
<1>2. t \in Machine /\ Loses(r, t)
  BY DEF Ends
<1>3. Loses(m, t)
  <2>1. Loses(m, r)
    BY <1>1, LosesChain
  <2> QED BY <1>2, <2>1, LosesChain
<1>4. Moved(m, heard, t, heard)
  BY <1>3, LosesMoved
<1>5. ASSUME t.wreck = "none"
      PROVE  Keeps(t, heard, {}, {}) /\ (~ t.twice => Knows(m, t, heard))
  <2>1. r.wreck = "none"
    BY <1>2, <1>5 DEF Loses
  <2>2. Keeps(r, heard, {}, {}) /\ \A j \in Ids \ {i} : r.req[j] = s.req[j]
    BY <1>1, <2>1
  <2>3. Keeps(t, heard, {}, {}) /\ (~ t.twice => Steady(r, t))
    BY <1>5, <2>2 DEF Ends, Follows
  <2>4. ASSUME ~ t.twice, NEW j \in Ids, Dozes(m, j), ~ m.req[j].old
        PROVE  t.req[j].s = m.req[j].s /\ Answered(m, t, heard, j)
    <3>1. t.req[j].s = m.req[j].s
      BY <1>3 DEF Loses
    <3>2. CASE j = i
      BY <3>1, <3>2 DEF Answered
    <3>3. CASE j # i
      <4>1. r.req[j] = m.req[j]
        BY <2>2, <3>3 DEF SameRequests
      <4>2. Dozes(r, j) /\ ~ r.req[j].old
        BY <2>4, <4>1 DEF Dozes
      <4> QED BY <2>3, <2>4, <3>1, <4>1, <4>2 DEF Steady, Answered
    <3> QED BY <3>2, <3>3
  <2>5. ~ t.twice => Knows(m, t, heard)
    BY <1>2, <2>3, <2>4, KnowsWhen
  <2> QED BY <2>3, <2>5
<1> QED BY <1>2, <1>4, <1>5 DEF Good

LEMMA SameStart ==
  ASSUME NEW s, NEW t, NEW h, NEW k, NEW u, SameRequests(s, t), Good(t, h, u, k)
  PROVE  Good(s, h, u, k)
<1>1. t.req = s.req /\ t.next_id = s.next_id
  BY DEF SameRequests
<1>2. Moved(t, h, u, k) => Moved(s, h, u, k)
  BY <1>1 DEF Moved
<1>3. Knows(t, u, k) => Knows(s, u, k)
  BY <1>1 DEF Knows, Dozes
<1> QED BY <1>2, <1>3 DEF Good

LEMMA RecvGood ==
  ASSUME Before, NEW c \in Cpus, NEW flags, Recv(c, flags)
  PROVE  Good(m, heard, m', heard')
<1> USE DEF Before
<1> DEFINE n == Now(m)
           s == SetCut(n, n.cut \ {c})
           i == Head(s.incoming[c])
           t == m'
           r == Refuse(s, c, i)
           x == SetCut(r, r.cut \cup {c})
<1>1. m.cpu[c].wait = "no"
  BY DEF Recv, Registered, Runs
<1>2. \/ s.incoming[c] = <<>> /\ t = NothingFor(s, c, flags) /\ heard' = heard
      \/ /\ s.incoming[c] # <<>> /\ t = Deliver(s, c, i)
         /\ heard' = [heard EXCEPT ![i] = @ \cup {c}]
      \/ /\ s.incoming[c] # <<>> /\ ~ Permitted(c, i) /\ heard' = heard
         /\ t \in Kills(r, c) \/ t = NothingFor(x, c, flags)
  BY DEF Recv, SetCut
<1>3. /\ n \in Machine /\ Loses(m, n) /\ Steady(m, n) /\ SameProcesses(m, n)
      /\ SameRequests(m, n) /\ Keeps(n, heard, {}, {})
  BY NowDoes
<1> HIDE DEF n
<1>4. n.cut \ {c} \in CpuSets /\ \A d \in n.cut \ (n.cut \ {c}) : n.cpu[d].wait = "no"
  BY <1>1, <1>3, Fields DEF CpuSets, SameProcesses
<1>5. /\ s \in Machine /\ s.cpu = n.cpu /\ Loses(n, s) /\ SameRequests(n, s)
      /\ Keeps(s, heard, {}, {})
  BY <1>3, <1>4, CutKeeps
<1> HIDE DEF s
<1>6. Loses(m, s) /\ SameRequests(m, s) /\ s.cpu[c].wait = "no"
  BY <1>1, <1>3, <1>5, LosesChain DEF SameRequests, SameProcesses
<1>7. s.incoming[c] \in Seq(Ids) /\ In(s, c) \subseteq Ids
  BY <1>5, Tables
<1> HIDE DEF i, t, r, x
<1>8. ASSUME s.incoming[c] = <<>>, t = NothingFor(s, c, flags), heard' = heard
      PROVE  Good(m, heard, t, heard')
  <2>1. In(s, c) = {}
    BY <1>8 DEF In, ToSet
  <2>2. Ends(s, heard, t)
    BY <1>5, <1>6, <1>8, <2>1, NothingEnds
  <2>3. Good(s, heard, t, heard)
    BY <1>5, <2>2, EndsGood
  <2> QED BY <1>6, <1>8, <2>3, SameStart
<1>9. ASSUME s.incoming[c] # <<>> PROVE i \in Ids /\ i \in In(s, c)
  BY <1>7, <1>9, HeadIsIn DEF i, In
<1>10. ASSUME s.incoming[c] # <<>>, t = Deliver(s, c, i), heard' = [heard EXCEPT ![i] = @ \cup {c}]
       PROVE  Good(m, heard, t, heard')
  <2>1. /\ t \in Machine /\ Moved(s, heard, t, heard')
        /\ t.wreck = "none" => Keeps(t, heard', {}, {}) /\ Knows(s, t, heard')
    BY <1>5, <1>9, <1>10, DeliverDoes
  <2>2. heard' \in [Ids -> SUBSET Cpus]
    BY <1>9, <1>10
  <2>3. Good(s, heard, t, heard')
    BY <2>1, <2>2 DEF Good
  <2> QED BY <1>6, <2>3, SameStart
<1>11. ASSUME s.incoming[c] # <<>>, ~ Permitted(c, i), heard' = heard,
              t \in Kills(r, c) \/ t = NothingFor(x, c, flags)
       PROVE  Good(m, heard, t, heard')
  <2>1. i \in Ids /\ i \in In(s, c)
    BY <1>9, <1>11
  <2>2. <<c, m.req[i].s>> \in Denied
    BY <1>11 DEF Permitted
  <2>3. r \in Machine /\ Loses(s, r) /\ r.cpu[c] = s.cpu[c]
    BY <1>5, <2>1, RefuseDoes DEF r
  <2>4. Known(r)
    BY <1>5, <2>3, Sender, KnownStays
  <2>5. ASSUME t \in Kills(r, c) PROVE Ends(r, heard, t)
    BY <2>3, <2>4, <2>5, KillsEnds
  <2>6. ASSUME t = NothingFor(x, c, flags) PROVE Ends(r, heard, t)
    <3> DEFINE K == r.cut \cup {c}
    <3>0. x = SetCut(r, K)
      BY DEF x
    <3>1. K \in CpuSets
      BY <2>3, Fields DEF CpuSets
    <3>2. c \in K /\ \A d \in r.cut \ K : r.cpu[d].wait = "no"
      OBVIOUS
    <3> HIDE DEF K
    <3>3. /\ x \in Machine /\ x.cut = K /\ x.cpu = r.cpu
          /\ Loses(r, x) /\ Steady(r, x)
          /\ Keeps(r, heard, {}, {}) => Keeps(x, heard, {}, {})
      BY <2>3, <3>0, <3>1, <3>2, CutKeeps
    <3>4. Ends(r, heard, x)
      BY <3>3 DEF Ends, Follows, Steady
    <3>5. x.cpu[c].wait = "no" /\ c \in x.cut
      BY <1>6, <2>3, <3>2, <3>3
    <3>6. Ends(x, heard, t)
      BY <2>6, <3>3, <3>5, NothingEnds
    <3> QED BY <2>3, <3>4, <3>6, EndsChain
  <2>7. Ends(r, heard, t)
    BY <1>11, <2>5, <2>6
  <2>8. Good(m, heard, t, heard)
    BY <1>5, <1>6, <2>1, <2>2, <2>7, RefusedGood DEF r
  <2> QED BY <1>11, <2>8
<1>12. Good(m, heard, t, heard')
  BY <1>2, <1>8, <1>10, <1>11
<1> QED BY <1>12 DEF t

LEMMA TickGood ==
  ASSUME Before, Tick
  PROVE  Good(m, heard, m', heard')
<1> USE DEF Before
<1> DEFINE R == [i \in Ids |-> WithOld(m.req[i], m.req[i].old \/ m.req[i].live)]
           t == m'
<1>1. t = SetReq(m, R) /\ heard' = heard
  BY DEF Tick, SetReq, WithOld
<1>2. ASSUME NEW i \in Ids
      PROVE  /\ R[i] \in Requests /\ R[i].live = m.req[i].live
             /\ R[i].s = m.req[i].s /\ R[i].first = m.req[i].first
             /\ R[i].flags = m.req[i].flags
  <2> DEFINE o == m.req[i].old \/ m.req[i].live
  <2>1. m.req[i] \in Requests
    BY Request
  <2>2. o \in BOOLEAN
    OBVIOUS
  <2>3. R[i] = WithOld(m.req[i], o)
    OBVIOUS
  <2> HIDE DEF R, o
  <2> QED BY <2>1, <2>2, <2>3, OldChange
<1>3. R \in RequestTables
  BY <1>2 DEF RequestTables
<1> HIDE DEF R, t
<1>4. /\ t \in Machine /\ t.req = R
      /\ SameProcesses(m, t) /\ SameElements(m, t) /\ t.next_id = m.next_id
      /\ SameOwn(m, t) /\ SameWreck(m, t)
  BY <1>1, <1>3, PutReq
<1>5. /\ \A d \in Cpus : In(t, d) = In(m, d) /\ Own(t, d) = Own(m, d)
      /\ \A i : Targets(t, i) = Targets(m, i)
      /\ AddsUp(m) => AddsUp(t)
  BY <1>4, ElementsStay, OwnStays
<1>6. /\ t.own = m.own /\ t.incoming = m.incoming /\ t.cpu = m.cpu
      /\ t.sleepers = m.sleepers /\ t.cut = m.cut /\ t.wreck = m.wreck /\ t.twice = m.twice
  BY <1>4 DEF SameProcesses, SameElements, SameOwn, SameWreck
<1>7. \A i \in Ids : /\ t.req[i].live = m.req[i].live /\ t.req[i].s = m.req[i].s
                     /\ t.req[i].first = m.req[i].first /\ t.req[i].flags = m.req[i].flags
                     /\ Dozes(t, i) <=> Dozes(m, i)
  BY <1>2, <1>4 DEF Dozes
<1>8. /\ Lists(m) /\ Elements(m, heard) /\ Owned(m) /\ Numbered(m, heard)
      /\ Waiting(m, {}, {}) /\ Receiving(m, {}) /\ Named(m, heard) /\ Done(m) /\ AddsUp(m)
  BY KeepsMeans
<1>9. \A d \in Cpus : In(m, d) \subseteq Ids /\ Own(m, d) \subseteq Ids
  BY Tables
<1>10. /\ Lists(t) /\ Elements(t, heard) /\ Owned(t) /\ Numbered(t, heard)
       /\ Named(t, heard) /\ Done(t)
  BY <1>4, <1>5, <1>6, <1>7, <1>8, <1>9 DEF Lists, Elements, Owned, Numbered, Named, Done
<1>11. \A i \in Ids : Dozes(m, i) => m.req[i].s \in Cpus
  BY <1>8 DEF Numbered, Dozes
<1>12. Waiting(t, {}, {})
  BY <1>5, <1>6, <1>7, <1>8, <1>9, <1>11 DEF Waiting
<1>13. \A d \in Cpus : \A i \in In(m, d) : i \in Ids /\ m.req[i].s \in Cpus
  BY <1>8, <1>9 DEF Elements, Numbered
<1>14. Receiving(t, {})
  BY <1>5, <1>6, <1>7, <1>8, <1>13 DEF Receiving
<1>15. Keeps(t, heard, {}, {})
  BY <1>5, <1>8, <1>10, <1>12, <1>14, KeepsMeans
<1>16. Loses(m, t)
  BY <1>4, <1>5, <1>6, <1>7 DEF Loses
<1>17. Moved(m, heard, t, heard)
  BY <1>16, LosesMoved
<1>18. \A i \in Ids : Dozes(m, i) /\ ~ m.req[i].old =>
         t.req[i].s = m.req[i].s /\ Answered(m, t, heard, i)
  BY <1>7 DEF Answered
<1>19. Knows(m, t, heard)
  BY <1>4, <1>15, <1>18, KnowsWhen
<1>20. Good(m, heard, t, heard)
  BY <1>4, <1>15, <1>17, <1>19 DEF Good
<1> QED BY <1>1, <1>20 DEF t

-----------------------------------------------------------------------------
(* IPC_MSG_SEND: the queue elements *)

\* ipc_queue_new allocates as many blocks as it needs, and finds them.
LEMMA BlocksSuffice ==
  ASSUME NEW f \in Nat, NEW n \in Nat, NEW b \in Nat, NEW Q \in Nat \ {0}, n <= f + b * Q,
         NEW k, k = IF n <= f THEN 0 ELSE (n - f + Q - 1) \div Q
  PROVE  k \in 0 .. b /\ n <= f + k * Q
<1>1. CASE n <= f
  BY <1>1
<1>2. CASE ~ (n <= f)
  <2> DEFINE a == n - f + Q - 1
  <2>1. a \in Nat /\ a = n - f + Q - 1 /\ k = a \div Q
    BY <1>2
  <2> HIDE DEF a
  <2>2. k \in Nat /\ k * Q <= a /\ a < k * Q + Q
    BY <2>1
  <2>3. n <= f + k * Q
    <3>1. k * Q \in Nat
      BY <2>2
    <3> QED BY <2>1, <2>2, <3>1
  <2>4. k <= b
    <3> SUFFICES ASSUME b + 1 <= k PROVE FALSE
      BY <2>2
    <3> DEFINE d == k - (b + 1)
    <3>1. d \in Nat /\ k = b + 1 + d
      BY <2>2
    <3> HIDE DEF d
    <3>2. k * Q = b * Q + Q + d * Q
      BY <3>1
    <3>3. d * Q \in Nat /\ b * Q \in Nat
      BY <3>1
    <3> QED BY <2>1, <2>2, <3>2, <3>3
  <2> QED BY <2>2, <2>3, <2>4
<1> QED BY <1>1, <1>2

\* The queues of C get i.
Grows(s, t, C, i) ==
  \A d \in Cpus : /\ In(t, d) = IF d \in C THEN In(s, d) \cup {i} ELSE In(s, d)
                  /\ d \in C => i \notin In(s, d)

LEMMA QueuedGrows ==
  ASSUME NEW s \in Machine, NEW t \in Machine, NEW C \in SUBSET Cpus, NEW i \in Ids,
         Grows(s, t, C, i)
  PROVE  Cardinality(Queued(t)) = Cardinality(Queued(s)) + Cardinality(C)
<1> DEFINE N == C \X {i}
<1>1. IsFiniteSet(C) /\ Cardinality(C) \in Nat
  BY CpusFinite
<1>2. IsFiniteSet({i}) /\ Cardinality({i}) = 1
  BY FS_Singleton
<1>3. IsFiniteSet(N) /\ Cardinality(N) = Cardinality(C)
  <2>1. IsFiniteSet(N) /\ Cardinality(N) = Cardinality(C) * Cardinality({i})
    BY <1>1, <1>2, FS_Product
  <2>2. Cardinality(C) * 1 = Cardinality(C)
    BY <1>1
  <2> QED BY <1>2, <2>1, <2>2
<1>4. Queued(s) = {e \in Cpus \X Ids : e[2] \in In(s, e[1])}
  BY QueuedFacts
<1>5. Queued(t) = {e \in Cpus \X Ids : e[2] \in In(t, e[1])}
  BY QueuedFacts
<1>6. ASSUME NEW e \in Cpus \X Ids
      PROVE  /\ e \in Queued(t) <=> e \in Queued(s) \/ e \in N
             /\ ~ (e \in Queued(s) /\ e \in N)
  <2>1. e[1] \in Cpus /\ (e \in N <=> e[1] \in C /\ e[2] = i)
    OBVIOUS
  <2>2. /\ In(t, e[1]) = IF e[1] \in C THEN In(s, e[1]) \cup {i} ELSE In(s, e[1])
        /\ e[1] \in C => i \notin In(s, e[1])
    BY <2>1 DEF Grows
  <2> HIDE DEF N
  <2> QED BY <1>4, <1>5, <2>1, <2>2
<1>7. N \subseteq Cpus \X Ids
  OBVIOUS
<1> HIDE DEF N
<1>8. Queued(t) = Queued(s) \cup N /\ Queued(s) \cap N = {}
  BY <1>4, <1>5, <1>6, <1>7
<1>9. Cardinality(Queued(s) \cup N)
        = Cardinality(Queued(s)) + Cardinality(N) - Cardinality(Queued(s) \cap N)
  BY <1>3, QueuedFacts, FS_Union
<1>10. Cardinality(Queued(s) \cap N) = 0
  BY <1>8, FS_EmptySet
<1> QED BY <1>1, <1>3, <1>8, <1>9, <1>10, QueuedFacts

LEMMA Balance ==
  ASSUME NEW x \in Nat, NEW y \in Nat, NEW a \in Nat, NEW e \in Nat, NEW j \in Nat,
         NEW g \in Nat, NEW k \in Nat, y - x = a + e + j, g + k = e + x + j
  PROVE  y = a + g + k
  OBVIOUS

\* There are too few elements.
LEMMA ExhaustEnds ==
  ASSUME NEW s \in Machine, NEW h, NEW t, t = Exhaust(s)
  PROVE  Ends(s, h, t)
<1> DEFINE n == s.free + s.blocks * QueuesAtOnce
           f == IF n = 0 THEN 0 ELSE 1
           l == s.lost + (IF n = 0 THEN 0 ELSE n - 1)
<1>1. t = SetFreeBlocksLost(s, f, 0, l)
  BY DEF Exhaust, SetFreeBlocksLost
<1>2. /\ QueueBlocks \in Nat /\ QueuesAtOnce \in Nat /\ s.blocks \in Nat
      /\ s.free \in Nat /\ s.lost \in Nat /\ Cardinality(Queued(s)) \in Nat
      /\ Allocated(s) = (QueueBlocks - s.blocks) * QueuesAtOnce
      /\ AddsUp(s) <=> Allocated(s) = Cardinality(Queued(s)) + s.free + s.lost
  BY AddsUpMeans
<1> DEFINE x == s.blocks * QueuesAtOnce
           y == QueueBlocks * QueuesAtOnce
<1>3. x \in Nat /\ y \in Nat /\ Allocated(s) = y - x /\ n = s.free + x
  BY <1>2
<1> HIDE DEF x
<1>4. n \in Nat
  BY <1>2, <1>3
<1> HIDE DEF n
<1>5. f \in Nat /\ l \in Nat /\ 0 \in BlockCounts /\ f + l = n + s.lost
  BY <1>2, <1>4, IpcMsgAssumption DEF BlockCounts
<1> HIDE DEF f, l
<1>6. /\ t \in Machine /\ t.free = f /\ t.blocks = 0 /\ t.lost = l
      /\ SameProcesses(s, t) /\ t.incoming = s.incoming /\ SameRequests(s, t)
      /\ SameOwn(s, t) /\ SameWreck(s, t)
  BY <1>1, <1>5, PutFreeBlocksLost
<1>7. /\ \A d \in Cpus : In(t, d) = In(s, d) /\ Own(t, d) = Own(s, d)
      /\ \A i : Targets(t, i) = Targets(s, i)
      /\ Queued(t) = Queued(s)
  BY <1>6, OwnStays DEF In, Targets, Queued
<1>8. /\ t.req = s.req /\ t.next_id = s.next_id /\ t.own = s.own /\ t.cpu = s.cpu
      /\ t.sleepers = s.sleepers /\ t.cut = s.cut /\ t.wreck = s.wreck /\ t.twice = s.twice
  BY <1>6 DEF SameProcesses, SameRequests, SameOwn, SameWreck
<1>9. Loses(s, t) /\ Steady(s, t)
  BY <1>7, <1>8 DEF Loses, Steady, Shrinks, Dozes
<1>10. ASSUME Keeps(s, h, {}, {}) PROVE Keeps(t, h, {}, {})
  <2>1. /\ Lists(s) /\ Elements(s, h) /\ Owned(s) /\ Numbered(s, h)
        /\ Waiting(s, {}, {}) /\ Receiving(s, {}) /\ Named(s, h) /\ Done(s) /\ AddsUp(s)
    BY <1>10, KeepsMeans
  <2>2. Lists(t) /\ Elements(t, h) /\ Owned(t) /\ Numbered(t, h) /\ Named(t, h) /\ Done(t)
    BY <1>6, <1>7, <1>8, <2>1 DEF Lists, Elements, Owned, Numbered, Named, Done
  <2>3. \A i \in Ids : Dozes(t, i) <=> Dozes(s, i)
    BY <1>8 DEF Dozes
  <2>4. \A i \in Ids : Dozes(s, i) => s.req[i].s \in Cpus
    BY <2>1 DEF Numbered, Dozes
  <2>5. \A d \in Cpus : Own(s, d) \subseteq Ids
    BY Tables
  <2>6. Waiting(t, {}, {})
    BY <1>7, <1>8, <2>1, <2>3, <2>4, <2>5 DEF Waiting
  <2>7. \A d \in Cpus : \A i \in In(s, d) : i \in Ids /\ s.req[i].s \in Cpus
    BY <2>1, Tables DEF Elements, Numbered
  <2>8. Receiving(t, {})
    BY <1>7, <1>8, <2>1, <2>7 DEF Receiving
  <2>9. AddsUp(t)
    <3>1. Allocated(t) = y
      BY <1>2, <1>6 DEF Allocated
    <3>2. t \in Machine /\ t.free + t.lost = s.free + x + s.lost
      BY <1>3, <1>5, <1>6
    <3>3. t.free \in Nat /\ t.lost \in Nat
      BY <1>5, <1>6
    <3> DEFINE a == Cardinality(Queued(s))
    <3>5. a \in Nat /\ y - x = a + s.free + s.lost
      BY <1>2, <1>3, <2>1
    <3> HIDE DEF y, a
    <3>6. y = a + t.free + t.lost
      <4> DEFINE e == s.free
                 j == s.lost
                 g == t.free
                 k == t.lost
      <4>1. e \in Nat /\ j \in Nat /\ g \in Nat /\ k \in Nat /\ x \in Nat /\ y \in Nat
        BY <1>2, <1>3, <3>3
      <4>2. y - x = a + e + j /\ g + k = e + x + j
        BY <3>2, <3>5
      <4> HIDE DEF e, j, g, k
      <4>3. y = a + g + k
        BY <3>5, <4>1, <4>2, Balance
      <4> QED BY <4>3 DEF g, k
    <3>4. y = Cardinality(Queued(t)) + t.free + t.lost
      BY <1>7, <3>6 DEF a
    <3> QED BY <3>1, <3>4 DEF AddsUp
  <2> QED BY <2>1, <2>2, <2>6, <2>8, <2>9, KeepsMeans
<1> QED BY <1>6, <1>9, <1>10 DEF Ends, Follows, Steady

\* The processes that the loop over msg_sleepers comes to
LEMMA ServedDoes ==
  ASSUME NEW s \in Machine, NEW T, NEW q, q = Served(s, T)
  PROVE  /\ Len(q) \in 0 .. Len(s.sleepers)
         /\ ToSet(q) \subseteq T
         /\ ToSet(q) = {s.sleepers[n] : n \in 1 .. Len(q)}
         /\ ToSet(q) # {} => Head(s.sleepers) \in ToSet(q)
<1> DEFINE p == s.sleepers
           I == {n \in 1 .. Len(p) : p[n] \notin T}
           M == Min(I)
<1>1. p \in Seq(Cpus) /\ Len(p) \in Nat
  BY Tables, Fields, LenProperties DEF CpuLists
<1>2. ASSUME I # {} PROVE M \in I /\ \A n \in I : M <= n
  <2>1. I \in SUBSET Nat
    OBVIOUS
  <2>2. \E n \in I : \A k \in I : n <= k
    BY <1>2, <2>1, Smallest
  <2> HIDE DEF I
  <2> QED BY <2>2 DEF Min
<1>3. SelectInSeq(p, LAMBDA x : x \notin T) = IF I # {} THEN M ELSE 0
  BY DEF SelectInSeq
<1>4. CASE I = {}
  <2>1. q = p
    BY <1>3, <1>4 DEF Served
  <2>2. \A n \in 1 .. Len(p) : p[n] \in T
    BY <1>4
  <2>3. DOMAIN p = 1 .. Len(p)
    BY <1>1, LenProperties
  <2>4. ToSet(p) = {p[n] : n \in 1 .. Len(p)}
    BY <2>3 DEF ToSet
  <2>5. p # <<>> => Head(p) \in ToSet(p)
    BY <1>1, HeadIsIn
  <2>6. p = <<>> => ToSet(p) = {}
    BY DEF ToSet
  <2> QED BY <1>1, <2>1, <2>2, <2>4, <2>5, <2>6
<1>5. CASE I # {}
  <2>1. M \in 1 .. Len(p) /\ \A n \in 1 .. M - 1 : p[n] \in T
    <3>1. M \in I /\ \A n \in I : M <= n
      BY <1>2, <1>5
    <3>2. \A n \in 1 .. Len(p) : n \in I <=> p[n] \notin T
      OBVIOUS
    <3>3. I \subseteq 1 .. Len(p)
      OBVIOUS
    <3> HIDE DEF M, I
    <3>4. M \in 1 .. Len(p)
      BY <3>1, <3>3
    <3>5. ASSUME NEW n \in 1 .. M - 1 PROVE p[n] \in T
      <4>1. n \in 1 .. Len(p) /\ ~ (M <= n)
        BY <1>1, <3>4
      <4> QED BY <3>1, <3>2, <4>1
    <3> QED BY <3>4, <3>5
  <2>2. q = SubSeq(p, 1, M - 1)
    <3>1. M # 0
      BY <2>1
    <3> HIDE DEF M, I
    <3> QED BY <1>3, <1>5, <3>1 DEF Served
  <2> HIDE DEF M, I
  <2>3. /\ q \in Seq(Cpus) /\ Len(q) = M - 1 /\ \A n \in 1 .. M - 1 : q[n] = p[n]
    <3>1. \A n \in 1 .. M - 1 : p[n] \in Cpus
      BY <1>1, <2>1, ElementOfSeq
    <3>2. /\ SubSeq(p, 1, M - 1) \in Seq(Cpus)
          /\ Len(SubSeq(p, 1, M - 1)) = IF 1 <= M - 1 THEN (M - 1) - 1 + 1 ELSE 0
          /\ \A n \in 1 .. (M - 1) - 1 + 1 : SubSeq(p, 1, M - 1)[n] = p[1 + n - 1]
      BY <2>1, <3>1, SubSeqProperties
    <3> QED BY <2>1, <2>2, <3>2
  <2>4. DOMAIN q = 1 .. Len(q)
    BY <2>3, LenProperties
  <2>5. ToSet(q) = {p[n] : n \in 1 .. Len(q)}
    BY <2>3, <2>4 DEF ToSet
  <2>6. Head(p) = p[1]
    BY <1>1, <2>1, HeadTailProperties, EmptySeq
  <2>7. ToSet(q) # {} => 1 \in 1 .. Len(q)
    BY <2>1, <2>3, <2>5
  <2> QED BY <1>1, <2>1, <2>3, <2>5, <2>6, <2>7
<1> QED BY <1>4, <1>5

\* The end of a list, without its first k elements
LEMMA EndOfList ==
  ASSUME NEW S, NEW p \in Seq(S), NEW k \in 0 .. Len(p),
         NEW z, z = SubSeq(p, k + 1, Len(p))
  PROVE  /\ z \in Seq(S)
         /\ ToSet(z) = {p[j] : j \in k + 1 .. Len(p)}
         /\ IsInjective(p) => IsInjective(z)
<1> DEFINE n == Len(p)
           d == n - k
<1>1. n \in Nat /\ DOMAIN p = 1 .. n
  BY LenProperties
<1>2. \A j \in k + 1 .. n : p[j] \in S
  <2>1. \A j \in 1 .. n : p[j] \in S
    BY ElementOfSeq
  <2> QED BY <1>1, <2>1
<1>3. /\ z \in Seq(S)
      /\ Len(z) = IF k + 1 <= n THEN n - (k + 1) + 1 ELSE 0
      /\ \A j \in 1 .. n - (k + 1) + 1 : z[j] = p[(k + 1) + j - 1]
  <2> HIDE DEF d
  <2>1. k + 1 \in Int /\ n \in Int
    BY <1>1
  <2> QED BY <1>2, <2>1, SubSeqProperties
<1> HIDE DEF n
<1>4. d \in Nat /\ n = k + d /\ k \in Nat /\ k <= n
  BY <1>1 DEF n
<1> HIDE DEF d
<1>5. n - (k + 1) + 1 = d /\ (k + 1 <= n <=> d # 0)
  BY <1>1, <1>4
<1>6. Len(z) = d
  BY <1>3, <1>4, <1>5
<1>7. \A j \in 1 .. d : z[j] = p[k + j]
  <2>1. \A j \in 1 .. d : (k + 1) + j - 1 = k + j
    BY <1>4
  <2> QED BY <1>3, <1>5, <2>1
<1>8. DOMAIN z = 1 .. d
  BY <1>3, <1>6, LenProperties
<1>9. \A j \in 1 .. d : k + j \in k + 1 .. n
  BY <1>4
<1>10. \A j \in k + 1 .. n : j - k \in 1 .. d /\ j = k + (j - k)
  BY <1>4
<1>11. ToSet(z) = {p[j] : j \in k + 1 .. n}
  <2>1. ToSet(z) = {z[j] : j \in 1 .. d}
    BY <1>8 DEF ToSet
  <2>2. \A x \in ToSet(z) : x \in {p[j] : j \in k + 1 .. n}
    BY <1>7, <1>9, <2>1
  <2>3. ASSUME NEW j \in k + 1 .. n PROVE p[j] \in ToSet(z)
    <3>1. j - k \in 1 .. d /\ z[j - k] = p[j]
      BY <1>7, <1>10
    <3> QED BY <2>1, <3>1
  <2> QED BY <2>2, <2>3
<1>12. ASSUME IsInjective(p) PROVE IsInjective(z)
  <2>1. ASSUME NEW a \in 1 .. d, NEW b \in 1 .. d, z[a] = z[b] PROVE a = b
    <3>1. p[k + a] = p[k + b] /\ k + a \in 1 .. n /\ k + b \in 1 .. n
      <4>1. z[a] = p[k + a] /\ z[b] = p[k + b]
        BY <1>7
      <4>2. k + a \in 1 .. n /\ k + b \in 1 .. n
        BY <1>4
      <4> QED BY <2>1, <4>1, <4>2
    <3>2. k + a = k + b
      BY <1>1, <1>12, <3>1 DEF IsInjective
    <3> QED BY <1>4, <3>2
  <2> QED BY <1>8, <2>1 DEF IsInjective
<1> QED BY <1>3, <1>11, <1>12 DEF n

\* Those it leaves asleep
LEMMA LeftAsleep ==
  ASSUME NEW s \in Machine, IsInjective(s.sleepers), NEW T, NEW q, q = Served(s, T),
         NEW z, z = SubSeq(s.sleepers, Len(q) + 1, Len(s.sleepers))
  PROVE  /\ z \in CpuLists /\ IsInjective(z)
         /\ ToSet(z) = ToSet(s.sleepers) \ ToSet(q)
         /\ ToSet(q) \subseteq ToSet(s.sleepers)
         /\ ~ Faults(s, T) => ToSet(q) = T \/ ToSet(z) = {}
<1> DEFINE p == s.sleepers
           k == Len(q)
           n == Len(p)
<1>1. p \in Seq(Cpus) /\ n \in Nat /\ DOMAIN p = 1 .. n
  BY Tables, Fields, LenProperties DEF CpuLists
<1>2. k \in 0 .. n /\ ToSet(q) = {p[j] : j \in 1 .. k}
  BY ServedDoes
<1> HIDE DEF k
<1>3. z = SubSeq(p, k + 1, n)
  BY DEF k
<1>4. z \in Seq(Cpus) /\ IsInjective(z) /\ ToSet(z) = {p[j] : j \in k + 1 .. n}
  BY <1>1, <1>2, <1>3, EndOfList
<1>7. ToSet(p) = {p[j] : j \in 1 .. n}
  BY <1>1 DEF ToSet
<1>8. \A j \in 1 .. k, l \in k + 1 .. n : p[j] # p[l]
  BY <1>1, <1>2 DEF IsInjective
<1>9. \A j \in 1 .. n : j \in 1 .. k \/ j \in k + 1 .. n
  BY <1>1, <1>2
<1>10. 1 .. k \subseteq 1 .. n /\ k + 1 .. n \subseteq 1 .. n
  BY <1>1, <1>2
<1> HIDE DEF p, n
<1>11. ToSet(z) = ToSet(p) \ ToSet(q) /\ ToSet(q) \subseteq ToSet(p)
  BY <1>2, <1>4, <1>7, <1>8, <1>9, <1>10
<1>12. ASSUME ~ Faults(s, T) PROVE ToSet(q) = T \/ ToSet(z) = {}
  <2>1. ToSet(q) = T \/ ~ (k < n)
    BY <1>12 DEF Faults, k, n, p
  <2>2. ASSUME ~ (k < n) PROVE ToSet(z) = {}
    <3>1. n \in Nat /\ k \in 0 .. n
      BY <1>1, <1>2 DEF n
    <3>2. k + 1 .. n = {}
      BY <2>2, <3>1
    <3> QED BY <1>4, <3>2
  <2> QED BY <2>1, <2>2
<1> QED BY <1>4, <1>11, <1>12 DEF p, CpuLists

-----------------------------------------------------------------------------
(* IPC_MSG_SEND: the new request *)

New(c, F) == [Blank EXCEPT !.live = TRUE, !.s = c, !.flags = F]

LEMMA NewFacts ==
  ASSUME NEW c \in Cpus, NEW F \in FlagSets
  PROVE  /\ New(c, F) \in Requests /\ New(c, F).live = TRUE /\ New(c, F).s = c
         /\ New(c, F).first = AnyVcpu /\ New(c, F).old = FALSE /\ New(c, F).flags = F
  BY DEF New, Blank, Requests, FlagSets

\* t has the new request i of c, with an element in the queue of each of T.
Opens(s, t, i, c, F, T) ==
  /\ t \in Machine /\ SameProcesses(s, t) /\ SameOwn(s, t) /\ SameWreck(s, t)
  /\ t.next_id = i + 1 /\ \A j \in Ids \ {i} : t.req[j] = s.req[j]
  /\ t.req[i].live /\ t.req[i].s = c /\ t.req[i].first = AnyVcpu /\ ~ t.req[i].old
  /\ t.req[i].flags = F
  /\ Grows(s, t, T, i)
  /\ Lists(t) /\ AddsUp(t)

LEMMA NextIsNew ==
  ASSUME NEW s \in Machine, NEW h, Keeps(s, h, {}, {}), NEW i \in Ids, i = s.next_id
  PROVE  /\ ~ s.req[i].live /\ i \in Nat /\ i + 1 \in Counts /\ h[i] = {} /\ s.req[i].first = AnyVcpu
         /\ \A d \in Cpus : i \notin In(s, d) /\ i \notin Own(s, d)
         /\ \A j \in Ids : j >= i + 1 => j >= i /\ j # i
         /\ \A j \in Ids : j < i => j < i + 1 /\ j # i
<1>1. Numbered(s, h) /\ Elements(s, h) /\ Owned(s)
  BY KeepsMeans
<1>2. Ids \subseteq Nat /\ i < MaxRequests /\ MaxRequests \in Nat
  BY IpcMsgAssumption DEF Ids
<1>3. ~ (i < s.next_id) /\ i >= s.next_id
  BY <1>2
<1>4. ~ s.req[i].live /\ h[i] = {} /\ s.req[i].first = AnyVcpu
  BY <1>1, <1>3 DEF Numbered
<1>5. \A d \in Cpus : i \notin In(s, d) /\ i \notin Own(s, d)
  BY <1>1, <1>4 DEF Elements, Owned
<1>6. i \in Nat /\ i + 1 \in Counts
  BY <1>2 DEF Counts
<1>7. /\ \A j \in Ids : j >= i + 1 => j >= i /\ j # i
      /\ \A j \in Ids : j < i => j < i + 1 /\ j # i
  BY <1>2
<1> QED BY <1>4, <1>5, <1>6, <1>7

LEMMA TargetsDo ==
  ASSUME NEW s \in Machine, NEW i \in Ids, NEW T \in SUBSET Cpus, Enough(s, Cardinality(T)),
         AddsUp(s), Lists(s), \A d \in Cpus : i \notin In(s, d),
         NEW t, t = MakeTargets(s, i, T)
  PROVE  /\ t \in Machine /\ SameProcesses(s, t) /\ SameRequests(s, t) /\ SameOwn(s, t)
         /\ SameWreck(s, t) /\ Grows(s, t, T, i) /\ Lists(t) /\ AddsUp(t)
<1> DEFINE n == Cardinality(T)
           k == BlocksFor(s, n)
           f == s.free + k * QueuesAtOnce - n
           b == s.blocks - k
           u == SetFreeBlocks(s, f, b)
           q == [x \in Cpus |-> IF x \in T THEN Append(s.incoming[x], i) ELSE s.incoming[x]]
<1>1. t = SetIncoming(u, q)
  <2>1. Take(s, n) = u
    BY DEF Take, SetFreeBlocks
  <2>2. u.incoming = s.incoming
    BY DEF SetFreeBlocks
  <2>3. t = [u EXCEPT !.incoming = [x \in Cpus |-> IF x \in T THEN Append(u.incoming[x], i)
                                                              ELSE u.incoming[x]]]
    BY <2>1 DEF MakeTargets
  <2> HIDE DEF u
  <2> QED BY <2>2, <2>3 DEF SetIncoming
<1>2. n \in Nat /\ n <= s.free + s.blocks * QueuesAtOnce
  BY CpusFinite DEF Enough
<1>3. /\ QueueBlocks \in Nat /\ QueuesAtOnce \in Nat /\ s.blocks \in Nat
      /\ s.free \in Nat /\ s.lost \in Nat /\ Cardinality(Queued(s)) \in Nat
      /\ Allocated(s) = (QueueBlocks - s.blocks) * QueuesAtOnce
      /\ Allocated(s) = Cardinality(Queued(s)) + s.free + s.lost
  BY AddsUpMeans
<1>4. QueuesAtOnce \in Nat \ {0} /\ s.blocks \in 0 .. QueueBlocks
  BY Fields, IpcMsgAssumption DEF BlockCounts
<1> HIDE DEF n
<1>5. k = IF n <= s.free THEN 0 ELSE (n - s.free + QueuesAtOnce - 1) \div QueuesAtOnce
  BY DEF BlocksFor
<1> HIDE DEF k
<1>6. k \in 0 .. s.blocks /\ n <= s.free + k * QueuesAtOnce
  <2> DEFINE e == s.free
             o == s.blocks
             Q == QueuesAtOnce
  <2>1. e \in Nat /\ o \in Nat /\ Q \in Nat \ {0} /\ n \in Nat /\ n <= e + o * Q
    BY <1>2, <1>3, <1>4
  <2>2. k = IF n <= e THEN 0 ELSE (n - e + Q - 1) \div Q
    BY <1>5
  <2> HIDE DEF e, o, Q
  <2>3. k \in 0 .. o /\ n <= e + k * Q
    BY <2>1, <2>2, BlocksSuffice
  <2> QED BY <2>3 DEF e, o, Q
<1> DEFINE y == k * QueuesAtOnce
<1>7. y \in Nat /\ n <= s.free + y /\ f = s.free + y - n
  BY <1>3, <1>6
<1>8. f \in Nat /\ b \in BlockCounts /\ b = s.blocks - k
  <2>1. b \in BlockCounts
    BY <1>3, <1>4, <1>6 DEF BlockCounts
  <2> HIDE DEF y, f
  <2> QED BY <1>2, <1>3, <1>7, <2>1
<1>9. (QueueBlocks - b) * QueuesAtOnce = Allocated(s) + y
  BY <1>3, <1>6
<1> HIDE DEF y, f, b
<1>10. /\ u \in Machine /\ u.free = f /\ u.blocks = b
       /\ SameProcesses(s, u) /\ u.incoming = s.incoming /\ u.lost = s.lost
       /\ SameRequests(s, u) /\ SameOwn(s, u) /\ SameWreck(s, u)
  BY <1>8, PutFreeBlocks
<1> HIDE DEF u
<1>11. ASSUME NEW x \in Cpus
       PROVE  /\ q[x] \in Seq(Ids)
              /\ ToSet(q[x]) = IF x \in T THEN In(s, x) \cup {i} ELSE In(s, x)
              /\ IsInjective(q[x])
  <2>1. s.incoming[x] \in Seq(Ids) /\ IsInjective(s.incoming[x]) /\ i \notin ToSet(s.incoming[x])
    BY Tables DEF Lists, In
  <2>2. q[x] = IF x \in T THEN Append(s.incoming[x], i) ELSE s.incoming[x]
    OBVIOUS
  <2> DEFINE p == s.incoming[x]
  <2>3. /\ Append(p, i) \in Seq(Ids) /\ ToSet(Append(p, i)) = ToSet(p) \cup {i}
        /\ IsInjective(Append(p, i))
    <3> HIDE DEF p, q
    <3>1. p \in Seq(Ids) /\ IsInjective(p) /\ i \notin ToSet(p)
      BY <2>1 DEF p
    <3> QED BY <3>1, AppendFacts
  <2>4. In(s, x) = ToSet(p)
    BY DEF In
  <2> HIDE DEF q
  <2> QED BY <2>1, <2>2, <2>3, <2>4
<1>12. q \in ListTables
  BY <1>11 DEF ListTables
<1> HIDE DEF q
<1>13. /\ t \in Machine /\ t.incoming = q
       /\ SameProcesses(u, t) /\ t.free = u.free /\ t.blocks = u.blocks
       /\ t.lost = u.lost /\ SameRequests(u, t) /\ SameOwn(u, t) /\ SameWreck(u, t)
  BY <1>1, <1>10, <1>12, PutIncoming
<1>14. SameProcesses(s, t) /\ SameRequests(s, t) /\ SameOwn(s, t) /\ SameWreck(s, t)
  BY <1>10, <1>13 DEF SameProcesses, SameRequests, SameOwn, SameWreck
<1>15. Grows(s, t, T, i)
  BY <1>11, <1>13 DEF Grows, In
<1>16. Lists(t)
  BY <1>11, <1>13, <1>14 DEF Lists, SameProcesses, SameOwn
<1>17. AddsUp(t)
  <2>1. Cardinality(Queued(t)) = Cardinality(Queued(s)) + n
    BY <1>13, <1>15, QueuedGrows DEF n
  <2>2. Allocated(t) = Allocated(s) + y
    BY <1>9, <1>10, <1>13 DEF Allocated
  <2>3. t.free = f /\ t.lost = s.lost
    BY <1>10, <1>13
  <2> DEFINE a == Allocated(s)
             w == Cardinality(Queued(s))
             e == s.free
             l == s.lost
  <2>4. w \in Nat /\ e \in Nat /\ l \in Nat /\ a = w + e + l /\ f = e + y - n
    BY <1>3, <1>7
  <2>5. Allocated(t) = a + y /\ Cardinality(Queued(t)) = w + n /\ t.free = f /\ t.lost = l
    BY <2>1, <2>2, <2>3
  <2> HIDE DEF a, w, e, l
  <2>6. a + y = (w + n) + f + l
    BY <1>2, <1>7, <2>4
  <2> QED BY <2>5, <2>6 DEF AddsUp
<1> QED BY <1>13, <1>14, <1>15, <1>16, <1>17

LEMMA RequestDoes ==
  ASSUME NEW s \in Machine, NEW h, Keeps(s, h, {}, {}), NEW i \in Ids, i = s.next_id,
         NEW c \in Cpus, NEW F \in FlagSets, NEW T \in SUBSET Cpus, Enough(s, Cardinality(T)),
         NEW t, t = MakeTargets(NewRequest(s, i, c, F), i, T)
  PROVE  Opens(s, t, i, c, F, T)
<1> DEFINE r == New(c, F)
           R == [s.req EXCEPT ![i] = r]
           z == i + 1
           u == SetReqNext(s, R, z)
<1>1. NewRequest(s, i, c, F) = u
  BY DEF NewRequest, SetReqNext, New
<1>2. t = MakeTargets(u, i, T)
  BY <1>1
<1>3. /\ r \in Requests /\ r.live = TRUE /\ r.s = c
      /\ r.first = AnyVcpu /\ r.old = FALSE /\ r.flags = F
  BY NewFacts
<1> HIDE DEF r
<1>4. s.req \in RequestTables
  BY Fields
<1>5. R \in RequestTables /\ R[i] = r /\ \A j \in Ids \ {i} : R[j] = s.req[j]
  BY <1>3, <1>4 DEF RequestTables
<1>6. z \in Counts /\ \A d \in Cpus : i \notin In(s, d)
  BY NextIsNew
<1> HIDE DEF R, z
<1>7. /\ u \in Machine /\ u.req = R /\ u.next_id = z
      /\ SameProcesses(s, u) /\ SameElements(s, u) /\ SameOwn(s, u) /\ SameWreck(s, u)
  BY <1>5, <1>6, PutReqNext
<1> HIDE DEF u
<1>8. Lists(s) /\ AddsUp(s)
  BY KeepsMeans
<1>9. (\A d \in Cpus : In(u, d) = In(s, d)) /\ AddsUp(u)
  BY <1>7, <1>8, ElementsStay
<1>10. Lists(u)
  BY <1>7, <1>8 DEF Lists, SameProcesses, SameElements, SameOwn
<1>11. Enough(u, Cardinality(T))
  BY <1>7 DEF Enough, SameElements
<1>12. \A d \in Cpus : i \notin In(u, d)
  BY <1>6, <1>9
<1>13. /\ t \in Machine /\ SameProcesses(u, t) /\ SameRequests(u, t) /\ SameOwn(u, t)
       /\ SameWreck(u, t) /\ Grows(u, t, T, i) /\ Lists(t) /\ AddsUp(t)
  BY <1>2, <1>7, <1>9, <1>10, <1>11, <1>12, TargetsDo
<1>14. SameProcesses(s, t) /\ SameOwn(s, t) /\ SameWreck(s, t)
  BY <1>7, <1>13 DEF SameProcesses, SameOwn, SameWreck
<1>15. t.req = R /\ t.next_id = i + 1
  BY <1>7, <1>13 DEF SameRequests, z
<1>16. Grows(s, t, T, i)
  BY <1>9, <1>13 DEF Grows
<1> QED BY <1>3, <1>5, <1>13, <1>14, <1>15, <1>16 DEF Opens

-----------------------------------------------------------------------------
(* IPC_MSG_SEND: the receivers that sleep *)

\* S are served: they are awake, and have the message i of c to T.
Serves(s, t, i, c, F, T, S) ==
  /\ t \in Machine /\ t.cut = s.cut /\ SameOwn(s, t) /\ SameWreck(s, t)
  /\ t.next_id = i + 1 /\ \A j \in Ids \ {i} : t.req[j] = s.req[j]
  /\ t.req[i].live /\ t.req[i].s = c /\ ~ t.req[i].old
  /\ t.req[i].flags = F \cup (IF S = {} THEN {} ELSE {"ACCEPTED"})
  /\ S = {} => t.req[i].first = AnyVcpu
  /\ S # {} => t.req[i].first \in S
  /\ S \subseteq T /\ S \subseteq ToSet(s.sleepers)
  /\ ToSet(t.sleepers) = ToSet(s.sleepers) \ S
  /\ \A d \in S : t.cpu[d].wait = "no" /\ t.cpu[d].used = s.cpu[d].used
  /\ \A d \in Cpus \ S : t.cpu[d] = s.cpu[d]
  /\ \A d \in Cpus : In(t, d) = IF d \in T \ S THEN In(s, d) \cup {i} ELSE In(s, d)
  /\ Lists(t) /\ AddsUp(t)

Served1(s, i, T) ==
  LET S == ToSet(Served(s, T))
  IN IF S = {} THEN s ELSE Accepted(s, i, Head(s.sleepers))

\* i is accepted by one of S, if there is one.
TakenBy(s, t, i, S) ==
  /\ Only(s, t, i)
  /\ t.req[i].live = s.req[i].live /\ t.req[i].s = s.req[i].s
  /\ t.req[i].old = s.req[i].old
  /\ t.req[i].flags = s.req[i].flags \cup (IF S = {} THEN {} ELSE {"ACCEPTED"})
  /\ S = {} => t.req[i].first = s.req[i].first
  /\ S # {} => t.req[i].first \in S

LEMMA ServedOneDoes ==
  ASSUME NEW s \in Machine, NEW i \in Ids, NEW T, NEW S, S = ToSet(Served(s, T)), S \subseteq Cpus,
         "ACCEPTED" \notin s.req[i].flags, NEW t, t = Served1(s, i, T)
  PROVE  TakenBy(s, t, i, S)
<1>1. CASE S = {}
  <2>1. t = s
    BY <1>1 DEF Served1
  <2> QED BY <1>1, <2>1 DEF TakenBy, Only, SameProcesses, SameElements, SameOwn, SameWreck
<1>2. CASE S # {}
  <2> DEFINE c == Head(s.sleepers)
  <2>1. t = Accepted(s, i, c)
    BY <1>2 DEF Served1
  <2>2. c \in S /\ c \in Cpus
    BY <1>2, ServedDoes
  <2> HIDE DEF c
  <2>3. /\ Only(s, t, i)
        /\ t.req[i].live = s.req[i].live /\ t.req[i].s = s.req[i].s
        /\ t.req[i].old = s.req[i].old
        /\ t.req[i].flags = s.req[i].flags \cup {"ACCEPTED"}
        /\ t.req[i].first = IF "ACCEPTED" \in s.req[i].flags THEN s.req[i].first ELSE c
    BY <2>1, <2>2, AcceptedDoes
  <2> QED BY <1>2, <2>2, <2>3 DEF TakenBy
<1> QED BY <1>1, <1>2

LEMMA ServeDoes ==
  ASSUME NEW s \in Machine, NEW i \in Ids, NEW c \in Cpus, NEW F \in FlagSets, "ACCEPTED" \notin F,
         NEW T \in SUBSET Cpus, Lists(s),
         NEW r, Opens(s, r, i, c, F, T), NEW S, S = ToSet(Served(s, T)), NEW t, t = Serve(r, i, T)
  PROVE  Serves(s, t, i, c, F, T, S) /\ (~ Faults(s, T) => S = T \/ ToSet(t.sleepers) = {})
<1>1. /\ r \in Machine /\ r.cpu = s.cpu /\ r.sleepers = s.sleepers /\ r.cut = s.cut
      /\ SameOwn(s, r) /\ SameWreck(s, r)
      /\ r.next_id = i + 1 /\ \A j \in Ids \ {i} : r.req[j] = s.req[j]
      /\ r.req[i].live /\ r.req[i].s = c /\ r.req[i].first = AnyVcpu /\ ~ r.req[i].old
      /\ r.req[i].flags = F
      /\ Grows(s, r, T, i) /\ Lists(r) /\ AddsUp(r)
  BY DEF Opens, SameProcesses
<1>2. Served(r, T) = Served(s, T)
  BY <1>1 DEF Served
<1> DEFINE q == Served(s, T)
           z == SubSeq(s.sleepers, Len(q) + 1, Len(s.sleepers))
           u == Served1(r, i, T)
           p == [x \in Cpus |-> IF x \in S THEN WithWait(s.cpu[x], "no") ELSE s.cpu[x]]
           a == [x \in Cpus |-> IF x \in S THEN Without(r.incoming[x], {i}) ELSE r.incoming[x]]
           l == r.lost + Cardinality(S)
<1>3. /\ z \in CpuLists /\ IsInjective(z)
      /\ ToSet(z) = ToSet(s.sleepers) \ S
      /\ S \subseteq ToSet(s.sleepers)
      /\ ~ Faults(s, T) => S = T \/ ToSet(z) = {}
  <2>1. IsInjective(s.sleepers)
    BY DEF Lists
  <2> HIDE DEF z
  <2>2. z = SubSeq(s.sleepers, Len(q) + 1, Len(s.sleepers))
    BY DEF z
  <2> HIDE DEF q
  <2>3. q = Served(s, T)
    BY DEF q
  <2> QED BY <2>1, <2>2, <2>3, LeftAsleep, ZenonT(60)
<1>4. S \subseteq T /\ S \subseteq Cpus /\ Cardinality(S) \in Nat
  BY ServedDoes, CpusFinite
<1>5. /\ Only(r, u, i)
      /\ u.req[i].live = r.req[i].live /\ u.req[i].s = r.req[i].s
      /\ u.req[i].old = r.req[i].old
      /\ u.req[i].flags = r.req[i].flags \cup (IF S = {} THEN {} ELSE {"ACCEPTED"})
      /\ S = {} => u.req[i].first = r.req[i].first
      /\ S # {} => u.req[i].first \in S
  <2> HIDE DEF u
  <2>1. u = Served1(r, i, T) /\ S = ToSet(Served(r, T))
    BY <1>2 DEF u
  <2>2. "ACCEPTED" \notin r.req[i].flags
    BY <1>1
  <2>3. TakenBy(r, u, i, S)
    BY <1>1, <1>4, <2>1, <2>2, ServedOneDoes
  <2> QED BY <2>3 DEF TakenBy
<1>6. /\ u.cpu = s.cpu /\ u.sleepers = s.sleepers /\ u.incoming = r.incoming /\ u.lost = r.lost
      /\ u.cut = s.cut
  BY <1>1, <1>5 DEF Only, SameProcesses, SameElements
<1>7. t = SetCpuSleepersIncomingLost(u, p, z, a, l)
  <2>1. t = [u EXCEPT
              !.sleepers = SubSeq(u.sleepers, Len(Served(r, T)) + 1, Len(u.sleepers)),
              !.incoming = [x \in Cpus |-> IF x \in S THEN Without(u.incoming[x], {i}) ELSE u.incoming[x]],
              !.cpu = [x \in Cpus |-> IF x \in S THEN [u.cpu[x] EXCEPT !.wait = "no"]
                                                 ELSE u.cpu[x]],
              !.lost = u.lost + Cardinality(S)]
    BY <1>2 DEF Serve, Served1
  <2> HIDE DEF u
  <2> QED BY <1>2, <1>6, <2>1 DEF SetCpuSleepersIncomingLost, WithWait
<1> HIDE DEF u, z
<1>8. p \in VcpuTables /\ \A d \in S : p[d].wait = "no" /\ p[d].used = s.cpu[d].used
  <2>1. \A x \in Cpus : s.cpu[x] \in Vcpus
    BY Process
  <2>2. \A x \in Cpus : /\ WithWait(s.cpu[x], "no") \in Vcpus /\ WithWait(s.cpu[x], "no").wait = "no"
                        /\ WithWait(s.cpu[x], "no").used = s.cpu[x].used
    BY <2>1, VcpuChange
  <2> QED BY <1>4, <2>1, <2>2 DEF VcpuTables
<1>9. \A d \in Cpus \ S : p[d] = s.cpu[d]
  OBVIOUS
<1>10. ASSUME NEW d \in Cpus
       PROVE  /\ a[d] \in Seq(Ids) /\ IsInjective(a[d])
              /\ ToSet(a[d]) = IF d \in S THEN In(r, d) \ {i} ELSE In(r, d)
  <2>1. r.incoming[d] \in Seq(Ids) /\ IsInjective(r.incoming[d]) /\ ToSet(r.incoming[d]) = In(r, d)
    BY <1>1, Tables DEF Lists, In
  <2>2. /\ Without(r.incoming[d], {i}) \in Seq(Ids)
        /\ ToSet(Without(r.incoming[d], {i})) = In(r, d) \ {i}
        /\ IsInjective(Without(r.incoming[d], {i}))
    BY <1>1, <2>1, QueueWithout
  <2> QED BY <2>1, <2>2
<1>11. a \in ListTables /\ l \in Nat
  <2>1. r.lost \in Nat
    BY <1>1, Fields
  <2>2. \A d \in Cpus : (IF d \in S THEN Without(r.incoming[d], {i}) ELSE r.incoming[d]) \in Seq(Ids)
    <3> SUFFICES ASSUME NEW d \in Cpus
                 PROVE  (IF d \in S THEN Without(r.incoming[d], {i}) ELSE r.incoming[d]) \in Seq(Ids)
      OBVIOUS
    <3>1. a[d] \in Seq(Ids)
      BY <1>10
    <3> QED BY <3>1
  <2>3. a \in ListTables
    BY <2>2 DEF ListTables
  <2> HIDE DEF a
  <2> QED BY <1>4, <2>1, <2>3
<1> HIDE DEF p, a, l
<1>12. u \in Machine
  BY <1>5 DEF Only
<1>13. /\ t \in Machine /\ t.cpu = p /\ t.sleepers = z /\ t.incoming = a /\ t.lost = l
       /\ t.cut = u.cut /\ t.free = u.free /\ t.blocks = u.blocks
       /\ SameRequests(u, t) /\ SameOwn(u, t) /\ SameWreck(u, t)
  BY <1>3, <1>7, <1>8, <1>11, <1>12, PutCpuSleepersIncomingLost
<1>14. /\ t.cut = s.cut /\ SameOwn(s, t) /\ SameWreck(s, t) /\ t.req = u.req /\ t.next_id = i + 1
       /\ t.free = r.free /\ t.blocks = r.blocks
  BY <1>1, <1>5, <1>6, <1>13 DEF Only, SameOwn, SameWreck, SameRequests, SameElements
<1>15. \A j \in Ids \ {i} : t.req[j] = s.req[j]
  BY <1>1, <1>5, <1>14 DEF Only
<1>16. \A d \in Cpus : In(t, d) = IF d \in S THEN In(r, d) \ {i} ELSE In(r, d)
  BY <1>10, <1>13 DEF In
<1>17. \A d \in Cpus : In(t, d) = IF d \in T \ S THEN In(s, d) \cup {i} ELSE In(s, d)
  <2>1. \A d \in Cpus : /\ In(r, d) = IF d \in T THEN In(s, d) \cup {i} ELSE In(s, d)
                        /\ d \in T => i \notin In(s, d)
    BY <1>1 DEF Grows
  <2>2. \A d \in S : d \in T
    BY <1>4
  <2>3. ASSUME NEW d \in Cpus PROVE In(t, d) = IF d \in T \ S THEN In(s, d) \cup {i} ELSE In(s, d)
    <3>1. CASE d \in S
      BY <1>16, <2>1, <2>2, <3>1
    <3>2. CASE d \notin S
      BY <1>16, <2>1, <3>2
    <3> QED BY <3>1, <3>2
  <2> QED BY <2>3
<1>18. Lists(t)
  BY <1>1, <1>3, <1>10, <1>13, <1>14 DEF Lists, SameOwn
<1>19. AddsUp(t)
  <2>1. Grows(t, r, S, i)
    <3>1. \A d \in S : i \in In(r, d)
      BY <1>1, <1>4 DEF Grows
    <3> QED BY <1>16, <3>1 DEF Grows
  <2>2. Cardinality(Queued(r)) = Cardinality(Queued(t)) + Cardinality(S)
    BY <1>1, <1>4, <1>13, <2>1, QueuedGrows
  <2>3. Allocated(t) = Allocated(r)
    BY <1>14 DEF Allocated
  <2> DEFINE w == Cardinality(Queued(t))
             k == Cardinality(S)
             f == r.free
             o == r.lost
             b == Allocated(r)
  <2>4. /\ w \in Nat /\ k \in Nat /\ f \in Nat /\ o \in Nat
        /\ b = Cardinality(Queued(r)) + f + o /\ Cardinality(Queued(r)) = w + k
    BY <1>1, <1>4, <1>13, <2>2, AddsUpMeans
  <2>5. Allocated(t) = b /\ t.free = f /\ t.lost = o + k
    BY <1>13, <1>14, <2>3 DEF l
  <2> HIDE DEF w, k, f, o, b
  <2>6. b = w + f + (o + k)
    BY <2>4
  <2> QED BY <2>5, <2>6 DEF AddsUp, w
<1>20. Serves(s, t, i, c, F, T, S)
  BY <1>1, <1>3, <1>4, <1>5, <1>8, <1>9, <1>13, <1>14, <1>15, <1>17, <1>18, <1>19 DEF Serves
<1> QED BY <1>3, <1>13, <1>20

-----------------------------------------------------------------------------
(* IPC_MSG_SEND: before the sender waits *)

LEMMA ServesKeeps ==
  ASSUME NEW s \in Machine, NEW h \in [Ids -> SUBSET Cpus], Keeps(s, h, {}, {}),
         NEW i \in Ids, i = s.next_id, NEW c \in Cpus, NEW F \in SUBSET {"NONBLOCK", "MULTICAST"},
         NEW T \in SUBSET Cpus, \A d \in T : d # c /\ s.cpu[d].used,
         NEW S, NEW t, Serves(s, t, i, c, F, T, S), NEW k, k = [h EXCEPT ![i] = S]
  PROVE  Keeps(t, k, {}, {})
<1>1. /\ t \in Machine /\ t.cut = s.cut /\ t.own = s.own /\ t.wreck = s.wreck /\ t.twice = s.twice
      /\ t.next_id = i + 1 /\ \A j \in Ids \ {i} : t.req[j] = s.req[j]
      /\ t.req[i].live /\ t.req[i].s = c /\ ~ t.req[i].old
      /\ t.req[i].flags = F \cup (IF S = {} THEN {} ELSE {"ACCEPTED"})
      /\ S = {} => t.req[i].first = AnyVcpu
      /\ S # {} => t.req[i].first \in S
      /\ S \subseteq T /\ S \subseteq ToSet(s.sleepers)
      /\ ToSet(t.sleepers) = ToSet(s.sleepers) \ S
      /\ \A d \in S : t.cpu[d].wait = "no" /\ t.cpu[d].used = s.cpu[d].used
      /\ \A d \in Cpus \ S : t.cpu[d] = s.cpu[d]
      /\ \A d \in Cpus : In(t, d) = IF d \in T \ S THEN In(s, d) \cup {i} ELSE In(s, d)
      /\ Lists(t) /\ AddsUp(t)
  BY DEF Serves, SameOwn, SameWreck
<1>2. /\ Lists(s) /\ Elements(s, h) /\ Owned(s) /\ Numbered(s, h)
      /\ Waiting(s, {}, {}) /\ Receiving(s, {}) /\ Named(s, h) /\ Done(s) /\ AddsUp(s)
  BY KeepsMeans
<1>3. /\ ~ s.req[i].live /\ h[i] = {}
      /\ \A d \in Cpus : i \notin In(s, d) /\ i \notin Own(s, d)
      /\ \A j \in Ids : j >= i + 1 => j >= i /\ j # i
      /\ \A j \in Ids : j < i => j < i + 1 /\ j # i
      /\ i \in Nat
  BY NextIsNew
<1>4. k[i] = S /\ \A j \in Ids \ {i} : k[j] = h[j]
  OBVIOUS
<1>5. \A d \in Cpus : Own(t, d) = Own(s, d)
  BY <1>1 DEF Own
<1>6. \A d \in Cpus : In(s, d) \subseteq Ids /\ Own(s, d) \subseteq Ids
  BY Tables
<1>7. \A d \in Cpus : t.cpu[d].used = s.cpu[d].used
  BY <1>1
<1>8. \A d \in Cpus : \A j \in In(t, d) : (j = i /\ d \in T \ S) \/ (j # i /\ j \in In(s, d))
  BY <1>1, <1>3
<1>9. \A d \in Cpus : \A j \in Own(t, d) : j # i /\ j \in Own(s, d)
  BY <1>3, <1>5
<1>10. Elements(t, k)
  <2>1. ASSUME NEW d \in Cpus, NEW j \in In(t, d)
        PROVE  t.req[j].live /\ d \notin k[j] /\ t.req[j].s # d /\ t.cpu[d].used
    <3>1. CASE j = i /\ d \in T \ S
      BY <1>1, <1>4, <1>7, <3>1
    <3>2. CASE j # i /\ j \in In(s, d)
      BY <1>1, <1>2, <1>4, <1>6, <1>7, <3>2 DEF Elements
    <3> QED BY <1>8, <3>1, <3>2
  <2> QED BY <2>1 DEF Elements
<1>11. Owned(t)
  BY <1>1, <1>2, <1>6, <1>7, <1>9 DEF Owned
<1>12. Numbered(t, k)
  <2>1. ASSUME NEW j \in Ids
        PROVE  /\ t.req[j].live => j < t.next_id /\ t.req[j].s \in Cpus
               /\ j >= t.next_id => k[j] = {} /\ t.req[j].first = AnyVcpu
    <3>1. CASE j # i
      <4>1. t.req[j] = s.req[j] /\ k[j] = h[j]
        BY <1>1, <1>4, <3>1
      <4>2. /\ s.req[j].live => j < i /\ s.req[j].s \in Cpus
            /\ j >= i => h[j] = {} /\ s.req[j].first = AnyVcpu
        BY <1>2 DEF Numbered
      <4> QED BY <1>1, <1>3, <4>1, <4>2
    <3>2. CASE j = i
      <4>1. i < i + 1 /\ ~ (i >= i + 1)
        BY <1>3
      <4> QED BY <1>1, <3>2, <4>1
    <3> QED BY <3>1, <3>2
  <2> QED BY <2>1 DEF Numbered
<1>13. Named(t, k)
  <2>1. ASSUME NEW j \in Ids
        PROVE  /\ k[j] = {} => t.req[j].first = AnyVcpu
               /\ k[j] # {} => t.req[j].first \in k[j]
               /\ t.req[j].live => ("ACCEPTED" \in t.req[j].flags <=> k[j] # {})
    <3>1. CASE j # i
      BY <1>1, <1>2, <1>4, <3>1 DEF Named
    <3>2. CASE j = i
      <4>1. "ACCEPTED" \notin F
        OBVIOUS
      <4>2. "ACCEPTED" \in t.req[i].flags <=> S # {}
        BY <1>1, <4>1
      <4> QED BY <1>1, <1>4, <3>2, <4>2
    <3> QED BY <3>1, <3>2
  <2> QED BY <2>1 DEF Named
<1>14. \A j : Targets(s, j) = {d \in Cpus : j \in In(s, d)}
  BY Receivers
<1>15. \A j : Targets(t, j) = {d \in Cpus : j \in In(t, d)}
  BY <1>1, Receivers
<1>16. ASSUME NEW j \in Ids \ {i} PROVE Targets(t, j) = Targets(s, j)
  <2>1. \A d \in Cpus : j \in In(t, d) <=> j \in In(s, d)
    BY <1>1
  <2> QED BY <1>14, <1>15, <2>1
<1>17. \A j \in Ids : Dozes(t, j) <=> j # i /\ Dozes(s, j)
  <2>1. "SENDERSLEEP" \notin F
    OBVIOUS
  <2>2. ~ Dozes(t, i)
    BY <1>1, <2>1 DEF Dozes
  <2> QED BY <1>1, <2>2 DEF Dozes
<1>18. \A d \in Cpus : t.cpu[d].wait = "send" <=> s.cpu[d].wait = "send"
  <2>1. \A d \in S : d \in Cpus /\ s.cpu[d].wait = "recv"
    BY <1>1, <1>2, Tables DEF Receiving
  <2> QED BY <1>1, <2>1
<1>19. Waiting(t, {}, {})
  <2>1. \A j \in Ids : Dozes(s, j) => s.req[j].s \in Cpus
    BY <1>2 DEF Numbered, Dozes
  <2>2. ASSUME NEW j \in Ids, Dozes(t, j)
        PROVE  /\ Targets(t, j) # {} /\ j \in Own(t, t.req[j].s)
               /\ t.cpu[t.req[j].s].wait = "send" /\ "NONBLOCK" \notin t.req[j].flags
    <3>1. j # i /\ Dozes(s, j) /\ t.req[j] = s.req[j] /\ s.req[j].s \in Cpus
      BY <1>1, <1>17, <2>1, <2>2
    <3>2. /\ Targets(s, j) # {} /\ j \in Own(s, s.req[j].s)
          /\ s.cpu[s.req[j].s].wait = "send" /\ "NONBLOCK" \notin s.req[j].flags
      BY <1>2, <3>1 DEF Waiting
    <3> QED BY <1>5, <1>16, <1>18, <3>1, <3>2
  <2>3. ASSUME NEW j \in Ids, NEW l \in Ids, Dozes(t, j), Dozes(t, l), t.req[j].s = t.req[l].s
        PROVE  j = l
    <3>1. Dozes(s, j) /\ Dozes(s, l) /\ s.req[j].s = s.req[l].s
      BY <1>1, <1>17, <2>3
    <3> QED BY <1>2, <3>1 DEF Waiting
  <2>4. ASSUME NEW d \in Cpus, t.cpu[d].wait = "send" PROVE \E j \in Own(t, d) : Dozes(t, j)
    <3>1. PICK j \in Own(s, d) : Dozes(s, j)
      BY <1>2, <1>18, <2>4 DEF Waiting
    <3> QED BY <1>3, <1>5, <1>6, <1>17, <3>1
  <2> QED BY <2>2, <2>3, <2>4 DEF Waiting
<1>20. Receiving(t, {})
  <2>1. ASSUME NEW d \in Cpus
        PROVE  d \in ToSet(t.sleepers) <=> t.cpu[d].wait = "recv"
    BY <1>1, <1>2 DEF Receiving
  <2>2. ASSUME NEW d \in Cpus, t.cpu[d].wait = "recv", d \notin t.cut, NEW j \in In(t, d)
        PROVE  j \notin Own(t, t.req[j].s)
    <3>1. s.cpu[d].wait = "recv" /\ d \notin s.cut
      BY <1>1, <2>2
    <3>2. CASE j = i
      BY <1>1, <1>3, <1>5, <3>2
    <3>3. CASE j # i
      <4>1. j \in In(s, d) /\ j \in Ids /\ t.req[j] = s.req[j]
        BY <1>1, <1>6, <1>8, <2>2, <3>3
      <4>2. s.req[j].s \in Cpus
        BY <1>2, <4>1 DEF Elements, Numbered
      <4> QED BY <1>2, <1>5, <3>1, <4>1, <4>2 DEF Receiving
    <3> QED BY <3>2, <3>3
  <2> QED BY <2>1, <2>2 DEF Receiving
<1>21. Done(t)
  <2>1. "COMPLETED" \notin F /\ "ERROR" \notin F
    OBVIOUS
  <2>2. "COMPLETED" \notin t.req[i].flags /\ "ERROR" \notin t.req[i].flags
    BY <1>1, <2>1
  <2>3. \A j \in Ids \ {i} : t.req[j] = s.req[j] /\ Targets(t, j) = Targets(s, j)
    BY <1>1, <1>16
  <2> QED BY <1>2, <2>2, <2>3 DEF Done
<1> QED BY <1>1, <1>10, <1>11, <1>12, <1>13, <1>19, <1>20, <1>21, KeepsMeans

LEMMA ServesMoved ==
  ASSUME NEW s \in Machine, NEW h \in [Ids -> SUBSET Cpus], Keeps(s, h, {}, {}),
         NEW i \in Ids, i = s.next_id, NEW c, NEW F, NEW T \in SUBSET Cpus,
         NEW S, NEW t, Serves(s, t, i, c, F, T, S), NEW k, k = [h EXCEPT ![i] = S]
  PROVE  Moved(s, h, t, k) /\ k \in [Ids -> SUBSET Cpus]
<1>1. /\ t.next_id = i + 1 /\ \A j \in Ids \ {i} : t.req[j] = s.req[j]
      /\ S = {} => t.req[i].first = AnyVcpu
      /\ S # {} => t.req[i].first \in S
      /\ S \subseteq T
  BY DEF Serves
<1>2. Numbered(s, h) /\ Named(s, h)
  BY KeepsMeans
<1>3. /\ ~ s.req[i].live /\ h[i] = {} /\ i \in Nat
      /\ \A j \in Ids : j >= i + 1 => j >= i /\ j # i
      /\ \A j \in Ids : j < i => j < i + 1 /\ j # i
  BY NextIsNew
<1>4. k[i] = S /\ (\A j \in Ids \ {i} : k[j] = h[j]) /\ k \in [Ids -> SUBSET Cpus]
  BY <1>1
<1>5. ASSUME NEW j \in Ids
      PROVE  /\ j < s.next_id => j < t.next_id /\ (t.req[j].live => s.req[j].live)
             /\ h[j] \subseteq k[j] /\ k[j] \subseteq Cpus
             /\ j < s.next_id /\ ~ s.req[j].live => k[j] = h[j]
             /\ j >= t.next_id => k[j] = {}
             /\ k[j] = {} => t.req[j].first = AnyVcpu
             /\ k[j] # {} /\ h[j] = {} => t.req[j].first \in k[j]
             /\ h[j] # {} => t.req[j].first = s.req[j].first
  <2>1. CASE j # i
    <3>1. t.req[j] = s.req[j] /\ k[j] = h[j] /\ h[j] \subseteq Cpus
      BY <1>1, <1>4, <2>1
    <3>2. j < i => j < t.next_id
      BY <1>1, <1>3
    <3>3. j >= t.next_id => h[j] = {}
      BY <1>1, <1>2, <1>3 DEF Numbered
    <3>4. h[j] = {} => s.req[j].first = AnyVcpu
      BY <1>2 DEF Named
    <3> QED BY <3>1, <3>2, <3>3, <3>4
  <2>2. CASE j = i
    <3>1. ~ (i < s.next_id) /\ ~ (i >= t.next_id)
      BY <1>1, <1>3
    <3> QED BY <1>1, <1>3, <1>4, <2>2, <3>1
  <2> QED BY <2>1, <2>2
<1> QED BY <1>4, <1>5 DEF Moved

\* Moved goes on over a step that only loses.
LEMMA MovedOn ==
  ASSUME NEW s, NEW h, NEW t, NEW k, Moved(s, h, t, k), NEW u, Loses(t, u)
  PROVE  Moved(s, h, u, k)
  BY DEF Moved, Loses

-----------------------------------------------------------------------------
(* IPC_MSG_SEND: the sender waits, or not *)

\* v: c has sent i, which is on no list yet.
Sent(v, k, c, i) ==
  /\ v \in Machine /\ Keeps(v, k, {}, {})
  /\ v.req[i].live /\ v.req[i].s = c /\ v.cpu[c].used /\ v.cpu[c].wait = "no"
  /\ \A f \in {"SENDERSLEEP", "COMPLETED", "ERROR"} : f \notin v.req[i].flags
  /\ \A d \in Cpus : i \notin Own(v, d)
  /\ (\A d \in Cpus : i \notin In(v, d)) \/ (\A d \in Cpus : v.cpu[d].wait # "recv")

Link(v, c, i) == [v EXCEPT !.own[c] = Append(@, i)]

LEMMA LinkDoes ==
  ASSUME NEW v, NEW k, NEW c \in Cpus, NEW i \in Ids, Sent(v, k, c, i), NEW t, t = Link(v, c, i)
  PROVE  /\ t \in Machine /\ Keeps(t, k, {}, {}) /\ Loses(v, t)
         /\ SameProcesses(v, t) /\ SameElements(v, t) /\ SameRequests(v, t) /\ SameWreck(v, t)
         /\ \A d \in Cpus : Own(t, d) = IF d = c THEN Own(v, d) \cup {i} ELSE Own(v, d)
<1>1. /\ v \in Machine /\ Keeps(v, k, {}, {})
      /\ v.req[i].live /\ v.req[i].s = c /\ v.cpu[c].used /\ v.cpu[c].wait = "no"
      /\ \A f \in {"SENDERSLEEP", "COMPLETED", "ERROR"} : f \notin v.req[i].flags
      /\ \A d \in Cpus : i \notin Own(v, d)
      /\ (\A d \in Cpus : i \notin In(v, d)) \/ (\A d \in Cpus : v.cpu[d].wait # "recv")
  BY DEF Sent
<1>2. /\ Lists(v) /\ Elements(v, k) /\ Owned(v) /\ Numbered(v, k)
      /\ Waiting(v, {}, {}) /\ Receiving(v, {}) /\ Named(v, k) /\ Done(v) /\ AddsUp(v)
  BY <1>1, KeepsMeans
<1> DEFINE q == Append(v.own[c], i)
           o == [v.own EXCEPT ![c] = q]
<1>3. t = SetOwn(v, o)
  BY DEF Link, SetOwn
<1>4. v.own \in ListTables /\ v.own[c] \in Seq(Ids) /\ IsInjective(v.own[c]) /\ i \notin ToSet(v.own[c])
  BY <1>1, <1>2, Fields, Tables DEF Lists, Own
<1>5. q \in Seq(Ids) /\ ToSet(q) = ToSet(v.own[c]) \cup {i} /\ IsInjective(q)
  BY <1>4, AppendFacts
<1> HIDE DEF q
<1>6. o \in ListTables /\ o[c] = q /\ \A d \in Cpus \ {c} : o[d] = v.own[d]
  BY <1>4, <1>5 DEF ListTables
<1> HIDE DEF o
<1>7. /\ t \in Machine /\ t.own = o
      /\ SameProcesses(v, t) /\ SameElements(v, t) /\ SameRequests(v, t)
      /\ SameWreck(v, t)
  BY <1>1, <1>3, <1>6, PutOwn
<1>8. /\ \A d \in Cpus : In(t, d) = In(v, d)
      /\ \A j : Targets(t, j) = Targets(v, j)
      /\ AddsUp(t)
  BY <1>2, <1>7, ElementsStay
<1>9. /\ t.req = v.req /\ t.next_id = v.next_id /\ t.incoming = v.incoming /\ t.cpu = v.cpu
      /\ t.sleepers = v.sleepers /\ t.cut = v.cut /\ t.wreck = v.wreck /\ t.twice = v.twice
  BY <1>7 DEF SameProcesses, SameElements, SameRequests, SameWreck
<1>10. \A d \in Cpus : Own(t, d) = IF d = c THEN Own(v, d) \cup {i} ELSE Own(v, d)
  BY <1>5, <1>6, <1>7 DEF Own
<1>11. Lists(t)
  BY <1>2, <1>5, <1>6, <1>7, <1>9 DEF Lists
<1>12. Elements(t, k) /\ Numbered(t, k) /\ Named(t, k) /\ Done(t)
  BY <1>2, <1>8, <1>9 DEF Elements, Numbered, Named, Done
<1>13. Owned(t)
  BY <1>1, <1>2, <1>9, <1>10 DEF Owned
<1>14. \A j \in Ids : Dozes(t, j) <=> Dozes(v, j)
  BY <1>9 DEF Dozes
<1>15. \A j \in Ids : Dozes(v, j) => v.req[j].s \in Cpus
  BY <1>2 DEF Numbered, Dozes
<1>16. \A d \in Cpus : In(v, d) \subseteq Ids /\ Own(v, d) \subseteq Ids
  BY <1>1, Tables
<1>17. Waiting(t, {}, {})
  BY <1>2, <1>8, <1>9, <1>10, <1>14, <1>15, <1>16 DEF Waiting
<1>18. Receiving(t, {})
  <2>1. \A d \in Cpus : d \in ToSet(t.sleepers) <=> t.cpu[d].wait = "recv"
    BY <1>2, <1>9 DEF Receiving
  <2>2. ASSUME NEW d \in Cpus, t.cpu[d].wait = "recv", d \notin t.cut, NEW j \in In(t, d)
        PROVE  j \notin Own(t, t.req[j].s)
    <3>1. v.cpu[d].wait = "recv" /\ d \notin v.cut /\ j \in In(v, d) /\ j \in Ids
      BY <1>8, <1>9, <1>16, <2>2
    <3>2. j # i
      BY <1>1, <3>1
    <3>3. v.req[j].s \in Cpus /\ j \notin Own(v, v.req[j].s)
      BY <1>2, <3>1 DEF Receiving, Elements, Numbered
    <3> QED BY <1>9, <1>10, <3>2, <3>3
  <2> QED BY <2>1, <2>2 DEF Receiving
<1>19. Keeps(t, k, {}, {})
  BY <1>8, <1>11, <1>12, <1>13, <1>17, <1>18, KeepsMeans
<1>20. Loses(v, t)
  BY <1>8, <1>9 DEF Loses
<1> QED BY <1>7, <1>10, <1>19, <1>20

SleepFor(u, c, i) == [Flagged(u, i, {"SENDERSLEEP"}) EXCEPT !.cpu[c].wait = "send"]

\* Flags F were added to those of i.
Adds(s, t, i, F) ==
  /\ Only(s, t, i)
  /\ t.req[i].live = s.req[i].live /\ t.req[i].s = s.req[i].s
  /\ t.req[i].first = s.req[i].first /\ t.req[i].old = s.req[i].old
  /\ t.req[i].flags = s.req[i].flags \cup F

LEMMA FlaggedAdds ==
  ASSUME NEW s \in Machine, NEW i \in Ids, NEW F \in FlagSets, NEW t, t = Flagged(s, i, F)
  PROVE  Adds(s, t, i, F)
<1> DEFINE y == Flagged(s, i, F)
<1>1. /\ Only(s, y, i)
      /\ y.req[i].live = s.req[i].live /\ y.req[i].s = s.req[i].s
      /\ y.req[i].first = s.req[i].first /\ y.req[i].old = s.req[i].old
      /\ y.req[i].flags = s.req[i].flags \cup F
  BY FlaggedDoes
<1>2. t = y
  OBVIOUS
<1> HIDE DEF y
<1> QED BY <1>1, <1>2 DEF Adds

\* The sender c of i goes to sleep for the answer.
LEMMA SleepForDoes ==
  ASSUME NEW u \in Machine, NEW k, Keeps(u, k, {}, {}), NEW c \in Cpus, NEW i \in Ids,
         u.req[i].live, u.req[i].s = c, u.cpu[c].used, u.cpu[c].wait = "no",
         "NONBLOCK" \notin u.req[i].flags, i \in Own(u, c), Targets(u, i) # {},
         NEW t, t = SleepFor(u, c, i)
  PROVE  t \in Machine /\ Keeps(t, k, {}, {}) /\ Loses(u, t) /\ \A j \in Ids \ {i} : t.req[j] = u.req[j]
<1> DEFINE F == {"SENDERSLEEP"}
<1> DEFINE w == Flagged(u, i, F)
           v == WithWait(w.cpu[c], "send")
<1>1. t = SetVcpu(w, c, v)
  BY DEF SleepFor, SetVcpu, WithWait
<1>0. F \in FlagSets
  BY DEF FlagSets
<1> HIDE DEF F
<1>20. w = Flagged(u, i, F)
  OBVIOUS
<1> HIDE DEF w
<1>21. Adds(u, w, i, F)
  BY <1>0, <1>20, FlaggedAdds
<1>2. /\ Only(u, w, i)
      /\ w.req[i].live = u.req[i].live /\ w.req[i].s = u.req[i].s
      /\ w.req[i].first = u.req[i].first /\ w.req[i].old = u.req[i].old
      /\ w.req[i].flags = u.req[i].flags \cup F
  BY <1>21 DEF Adds
<1>3. w \in Machine
  BY <1>2 DEF Only
<1>4. v \in Vcpus /\ v.wait = "send" /\ v.used = w.cpu[c].used
  BY <1>3, Process, VcpuChange
<1> HIDE DEF v
<1>5. /\ t \in Machine /\ t.cpu[c] = v /\ \A d \in Cpus \ {c} : t.cpu[d] = w.cpu[d]
      /\ t.sleepers = w.sleepers /\ t.cut = w.cut /\ SameElements(w, t)
      /\ SameRequests(w, t) /\ SameOwn(w, t) /\ SameWreck(w, t)
  BY <1>1, <1>3, <1>4, PutVcpu
<1>51. w.cpu = u.cpu /\ w.sleepers = u.sleepers /\ w.cut = u.cut
  BY <1>2 DEF Only, SameProcesses
<1>52. t.own = u.own /\ SameOwn(u, t)
  BY <1>2, <1>5 DEF Only, SameOwn
<1>53. t.incoming = u.incoming /\ SameElements(u, t)
  BY <1>2, <1>5 DEF Only, SameElements
<1>54. t.next_id = u.next_id /\ t.req = w.req /\ t.wreck = u.wreck /\ t.twice = u.twice
  BY <1>2, <1>5 DEF Only, SameRequests, SameWreck
<1>55. t.sleepers = u.sleepers /\ t.cut = u.cut /\ \A d \in Cpus \ {c} : t.cpu[d] = u.cpu[d]
  BY <1>5, <1>51
<1>56. t.cpu[c].wait = "send" /\ t.cpu[c].used = u.cpu[c].used
  BY <1>4, <1>5, <1>51
<1>6. /\ t.own = u.own /\ t.incoming = u.incoming /\ SameElements(u, t) /\ SameOwn(u, t)
      /\ t.next_id = u.next_id /\ t.sleepers = u.sleepers /\ t.cut = u.cut /\ t.wreck = u.wreck /\ t.twice = u.twice
      /\ t.req = w.req /\ \A d \in Cpus \ {c} : t.cpu[d] = u.cpu[d]
      /\ t.cpu[c].wait = "send" /\ t.cpu[c].used = u.cpu[c].used
  BY <1>52, <1>53, <1>54, <1>55, <1>56
<1>7. /\ \A j \in Ids \ {i} : t.req[j] = u.req[j]
      /\ t.req[i].live /\ t.req[i].s = c /\ t.req[i].first = u.req[i].first
      /\ t.req[i].flags = u.req[i].flags \cup {"SENDERSLEEP"}
  <2>1. \A j \in Ids \ {i} : t.req[j] = u.req[j]
    BY <1>2, <1>6 DEF Only
  <2>2. t.req[i].flags = u.req[i].flags \cup {"SENDERSLEEP"}
    BY <1>2, <1>6 DEF F
  <2>3. t.req[i].live /\ t.req[i].s = c /\ t.req[i].first = u.req[i].first
    BY <1>2, <1>6
  <2> QED BY <2>1, <2>2, <2>3
<1>8. /\ Lists(u) /\ Elements(u, k) /\ Owned(u) /\ Numbered(u, k)
      /\ Waiting(u, {}, {}) /\ Receiving(u, {}) /\ Named(u, k) /\ Done(u) /\ AddsUp(u)
  BY KeepsMeans
<1>9. /\ \A d \in Cpus : In(t, d) = In(u, d) /\ Own(t, d) = Own(u, d)
      /\ \A j : Targets(t, j) = Targets(u, j)
      /\ AddsUp(t)
  BY <1>6, <1>8, ElementsStay, OwnStays
<1>99. u.req[i].live = TRUE /\ t.req[i].live = TRUE
  <2>1. u.req[i] \in Requests /\ t.req[i] \in Requests
    BY <1>5, Request
  <2>2. u.req[i].live \in BOOLEAN /\ t.req[i].live \in BOOLEAN
    BY <2>1, RequestFields
  <2> QED BY <1>7, <2>2
<1>10. \A j \in Ids : /\ t.req[j].live = u.req[j].live /\ t.req[j].s = u.req[j].s
                      /\ t.req[j].first = u.req[j].first
                      /\ \A f \in {"NONBLOCK", "ACCEPTED", "COMPLETED", "ERROR"} :
                           f \in t.req[j].flags <=> f \in u.req[j].flags
                      /\ Dozes(t, j) <=> (j = i \/ Dozes(u, j))
  <2> SUFFICES ASSUME NEW j \in Ids
               PROVE  /\ t.req[j].live = u.req[j].live /\ t.req[j].s = u.req[j].s
                      /\ t.req[j].first = u.req[j].first
                      /\ \A f \in {"NONBLOCK", "ACCEPTED", "COMPLETED", "ERROR"} :
                           f \in t.req[j].flags <=> f \in u.req[j].flags
                      /\ Dozes(t, j) <=> (j = i \/ Dozes(u, j))
    OBVIOUS
  <2>1. CASE j # i
    <3>1. t.req[j] = u.req[j]
      BY <1>7, <2>1
    <3> QED BY <2>1, <3>1 DEF Dozes
  <2>2. CASE j = i
    <3>1. t.req[j].live = u.req[j].live
      BY <1>7, <2>2, <1>99
    <3>2. t.req[j].s = u.req[j].s /\ t.req[j].first = u.req[j].first
      BY <1>7, <2>2
    <3>3. \A f \in {"NONBLOCK", "ACCEPTED", "COMPLETED", "ERROR"} :
             f \in t.req[j].flags <=> f \in u.req[j].flags
      BY <1>7, <2>2
    <3>4. Dozes(t, j)
      BY <1>7, <2>2 DEF Dozes
    <3> QED BY <2>2, <3>1, <3>2, <3>3, <3>4
  <2> QED BY <2>1, <2>2
<1>11. \A d \in Cpus : t.cpu[d].used = u.cpu[d].used
  BY <1>6
<1>12. \A d \in Cpus : In(u, d) \subseteq Ids /\ Own(u, d) \subseteq Ids
  BY Tables
<1>13. Lists(t) /\ Elements(t, k) /\ Owned(t) /\ Numbered(t, k) /\ Named(t, k) /\ Done(t)
  BY <1>6, <1>8, <1>9, <1>10, <1>11, <1>12 DEF Lists, Elements, Owned, Numbered, Named, Done
<1>14. \A j \in Ids : Dozes(u, j) => u.req[j].s \in Cpus \ {c}
  BY <1>8 DEF Numbered, Dozes, Waiting
<1>15. Waiting(t, {}, {})
  <2>1. ASSUME NEW j \in Ids, Dozes(t, j)
        PROVE  /\ Targets(t, j) # {} /\ j \in Own(t, t.req[j].s)
               /\ t.cpu[t.req[j].s].wait = "send" /\ "NONBLOCK" \notin t.req[j].flags
    <3>1. CASE j = i
      BY <1>6, <1>7, <1>9, <1>10, <3>1
    <3>2. CASE j # i
      <4>1. Dozes(u, j) /\ u.req[j].s \in Cpus \ {c}
        BY <1>10, <1>14, <2>1, <3>2
      <4>2. /\ Targets(u, j) # {} /\ j \in Own(u, u.req[j].s)
            /\ u.cpu[u.req[j].s].wait = "send" /\ "NONBLOCK" \notin u.req[j].flags
        BY <1>8, <4>1 DEF Waiting
      <4> QED BY <1>6, <1>7, <1>9, <3>2, <4>1, <4>2
    <3> QED BY <3>1, <3>2
  <2>2. ASSUME NEW j \in Ids, NEW l \in Ids, Dozes(t, j), Dozes(t, l), t.req[j].s = t.req[l].s
        PROVE  j = l
    BY <1>7, <1>8, <1>10, <1>14, <2>2 DEF Waiting
  <2>3. ASSUME NEW d \in Cpus, t.cpu[d].wait = "send" PROVE \E j \in Own(t, d) : Dozes(t, j)
    <3>1. CASE d = c
      BY <1>9, <1>10, <3>1
    <3>2. CASE d # c
      <4>1. PICK j \in Own(u, d) : Dozes(u, j)
        BY <1>6, <1>8, <2>3, <3>2 DEF Waiting
      <4> QED BY <1>9, <1>10, <1>12, <4>1
    <3> QED BY <3>1, <3>2
  <2> QED BY <2>1, <2>2, <2>3 DEF Waiting
<1>16. Receiving(t, {})
  <2>1. \A d \in Cpus : \A j \in In(u, d) : j \in Ids /\ u.req[j].s \in Cpus
    BY <1>8, <1>12 DEF Elements, Numbered
  <2>2. \A d \in Cpus : t.cpu[d].wait = "recv" <=> u.cpu[d].wait = "recv"
    BY <1>6
  <2> QED BY <1>6, <1>8, <1>9, <1>10, <2>1, <2>2 DEF Receiving
<1>17. Loses(u, t)
  BY <1>6, <1>9, <1>10, <1>11 DEF Loses
<1> QED BY <1>5, <1>7, <1>9, <1>13, <1>15, <1>16, <1>17, KeepsMeans

\* Of the requests, only i may differ.
One(s, t, i) == t \in Machine /\ Loses(s, t) /\ \A j \in Ids \ {i} : t.req[j] = s.req[j]

LEMMA ForgetOne ==
  ASSUME NEW s \in Machine, NEW i \in Ids, NEW t, t = Forget(s, i)
  PROVE  One(s, t, i)
<1>1. t \in Machine /\ Loses(s, t)
  BY ForgetLoses
<1>2. \A j \in Ids \ {i} : t.req[j] = s.req[j]
  BY ForgetLoses
<1> QED BY <1>1, <1>2 DEF One

LEMMA AwaitIs ==
  ASSUME NEW v, NEW c, NEW i, NEW u, u = Link(v, c, i), NEW t, t = Await(v, c, i)
  PROVE  \/ /\ Has(v, i, "NONBLOCK")
            /\ t = Flagged(u, i, IF Targets(v, i) = {} THEN {"COMPLETED"} ELSE {})
         \/ ~ Has(v, i, "NONBLOCK") /\ Targets(v, i) = {} /\ t = Forget(v, i)
         \/ ~ Has(v, i, "NONBLOCK") /\ Targets(v, i) # {} /\ t = u
         \/ ~ Has(v, i, "NONBLOCK") /\ Targets(v, i) # {} /\ t = SleepFor(u, c, i)
  BY DEF Await, Link, SleepFor

LEMMA AwaitDoes ==
  ASSUME NEW v, NEW k, NEW c \in Cpus, NEW i \in Ids, Sent(v, k, c, i), NEW t, t = Await(v, c, i)
  PROVE  /\ t \in Machine /\ Loses(v, t)
         /\ t.wreck = "none" =>
              Keeps(t, k, {}, {}) /\ \A j \in Ids \ {i} : t.req[j] = v.req[j]
<1> DEFINE u == Link(v, c, i)
<1>1. /\ u \in Machine /\ Keeps(u, k, {}, {}) /\ Loses(v, u)
      /\ SameProcesses(v, u) /\ SameElements(v, u) /\ SameRequests(v, u) /\ SameWreck(v, u)
      /\ \A d \in Cpus : Own(u, d) = IF d = c THEN Own(v, d) \cup {i} ELSE Own(v, d)
  BY LinkDoes
<1>2. \/ /\ Has(v, i, "NONBLOCK")
         /\ t = Flagged(u, i, IF Targets(v, i) = {} THEN {"COMPLETED"} ELSE {})
      \/ ~ Has(v, i, "NONBLOCK") /\ Targets(v, i) = {} /\ t = Forget(v, i)
      \/ ~ Has(v, i, "NONBLOCK") /\ Targets(v, i) # {} /\ t = u
      \/ ~ Has(v, i, "NONBLOCK") /\ Targets(v, i) # {} /\ t = SleepFor(u, c, i)
  BY AwaitIs
<1> HIDE DEF u
<1>3. /\ v \in Machine /\ Keeps(v, k, {}, {})
      /\ v.req[i].live /\ v.req[i].s = c /\ v.cpu[c].used /\ v.cpu[c].wait = "no"
      /\ \A f \in {"SENDERSLEEP", "COMPLETED", "ERROR"} : f \notin v.req[i].flags
      /\ \A d \in Cpus : i \notin Own(v, d)
  BY DEF Sent
<1>4. u.req = v.req /\ u.cpu = v.cpu /\ Targets(u, i) = Targets(v, i)
  BY <1>1, ElementsStay DEF SameRequests, SameProcesses
<1>5. ASSUME Has(v, i, "NONBLOCK"),
             t = Flagged(u, i, IF Targets(v, i) = {} THEN {"COMPLETED"} ELSE {})
      PROVE  t \in Machine /\ Loses(v, t) /\ Keeps(t, k, {}, {})
             /\ \A j \in Ids \ {i} : t.req[j] = v.req[j]
  <2> DEFINE G == IF Targets(v, i) = {} THEN {"COMPLETED"} ELSE {}
  <2>1. G \in SUBSET {"COMPLETED", "ERROR"} /\ t = Flagged(u, i, G)
    BY <1>5
  <2>2. "ERROR" \notin G /\ ("COMPLETED" \in G => Targets(u, i) = {})
    BY <1>4
  <2> HIDE DEF G
  <2>3. /\ Marks(u, t, i) /\ t.req[i].old = u.req[i].old
        /\ t.req[i].flags = u.req[i].flags \cup G
    BY <1>1, <2>1, FlaggedMarks
  <2>4. /\ "COMPLETED" \in t.req[i].flags => "COMPLETED" \in u.req[i].flags \/ Targets(u, i) = {}
        /\ "ERROR" \in t.req[i].flags =>
             \/ "ERROR" \in u.req[i].flags \/ "NONBLOCK" \in u.req[i].flags
             \/ Targets(u, i) = {}
    BY <2>2, <2>3
  <2>5. Keeps(t, k, {}, {})
    BY <1>1, <2>3, <2>4, MarksKeeps
  <2>6. t \in Machine /\ Loses(u, t)
    BY <1>1, <2>3, MarksLoses
  <2>7. Loses(v, t)
    BY <1>1, <2>6, LosesChain
  <2> QED BY <1>4, <2>3, <2>5, <2>6, <2>7 DEF Marks, Only
<1>6. ASSUME Targets(v, i) = {}, t = Forget(v, i)
      PROVE  /\ t \in Machine /\ Loses(v, t)
             /\ t.wreck = "none" =>
                  Keeps(t, k, {}, {}) /\ \A j \in Ids \ {i} : t.req[j] = v.req[j]
  <2>1. t \in Machine /\ Loses(v, t) /\ \A j \in Ids \ {i} : t.req[j] = v.req[j]
    BY <1>3, <1>6, ForgetOne DEF One
  <2>2. Keeps(v, k, {}, {i}) /\ ~ Dozes(v, i)
    BY <1>3, ExemptionStarts DEF Dozes
  <2>3. t.wreck = "none" => Keeps(t, k, {}, {})
    BY <1>3, <1>6, <2>2, ForgetKeeps
  <2> QED BY <2>1, <2>3
<1>7. ASSUME ~ Has(v, i, "NONBLOCK"), Targets(v, i) # {}, t = SleepFor(u, c, i)
      PROVE  t \in Machine /\ Loses(v, t) /\ Keeps(t, k, {}, {})
             /\ \A j \in Ids \ {i} : t.req[j] = v.req[j]
  <2>1. /\ u.req[i].live /\ u.req[i].s = c /\ u.cpu[c].used /\ u.cpu[c].wait = "no"
        /\ "NONBLOCK" \notin u.req[i].flags /\ i \in Own(u, c) /\ Targets(u, i) # {}
    BY <1>1, <1>3, <1>4, <1>7 DEF Has
  <2>2. /\ t \in Machine /\ Keeps(t, k, {}, {}) /\ Loses(u, t)
        /\ \A j \in Ids \ {i} : t.req[j] = u.req[j]
    BY <1>1, <1>7, <2>1, SleepForDoes
  <2>3. Loses(v, t)
    BY <1>1, <2>2, LosesChain
  <2> QED BY <1>4, <2>2, <2>3
<1>8. ASSUME t = u PROVE t \in Machine /\ Loses(v, t) /\ Keeps(t, k, {}, {})
                         /\ \A j \in Ids \ {i} : t.req[j] = v.req[j]
  BY <1>1, <1>4, <1>8
<1> QED BY <1>2, <1>5, <1>6, <1>7, <1>8

-----------------------------------------------------------------------------
\* Whom a message of c is addressed to
LEMMA AddressedOthers ==
  ASSUME NEW c \in Cpus, NEW T \in Addresses(c)
  PROVE  T \in SUBSET Cpus /\ \A d \in T : d # c /\ m.cpu[d].used
  BY DEF Addresses, Addressed

\* An exception instead of the message
LEMMA RefusesGood ==
  ASSUME Before, NEW s, s = Now(m), NEW u, Ends(s, heard, u), NEW c \in Cpus,
         NEW t \in Raises(u, c)
  PROVE  Good(m, heard, t, heard)
<1>1. m \in Machine /\ heard \in [Ids -> SUBSET Cpus] /\ Keeps(m, heard, {}, {})
  BY DEF Before
<1>2. s \in Machine /\ Loses(m, s) /\ Steady(m, s) /\ Keeps(s, heard, {}, {})
  BY <1>1, NowDoes
<1>3. u \in Machine /\ Loses(s, u)
  BY DEF Ends
<1>4. Known(s)
  BY <1>2, Sender
<1>5. Known(u)
  BY <1>2, <1>3, <1>4, KnownStays
<1>6. Ends(u, heard, t)
  BY <1>3, <1>5, RaisesEnds
<1>7. Ends(m, heard, s)
  BY <1>2 DEF Ends, Follows, Steady
<1>8. Ends(s, heard, t)
  BY <1>2, <1>6, EndsChain
<1>9. Ends(m, heard, t)
  BY <1>1, <1>7, <1>8, EndsChain
<1> QED BY <1>1, <1>9, EndsGood

\* Process c, which runs, sends i to T; s is the state the call finds, v the
\* one in which the loop over the sleepers ends, k whom the message has reached.
Sends(s, v, k, i, c, F, T, S) ==
  /\ s = Now(m) /\ m.cpu[c].used /\ m.cpu[c].wait = "no" /\ i \in Ids /\ i = s.next_id
  /\ \A d \in T : d # c /\ m.cpu[d].used
  /\ Serves(s, v, i, c, F, T, S) /\ k = [heard EXCEPT ![i] = S]
  /\ Keeps(v, k, {}, {}) /\ Moved(s, heard, v, k) /\ k \in [Ids -> SUBSET Cpus]

\* The same by what the call computes
Finds(s, v, k, i, c, F, T, S) ==
  /\ m.cpu[c].used /\ m.cpu[c].wait = "no"
  /\ F \in SUBSET {"NONBLOCK", "MULTICAST"}
  /\ T \in SUBSET Cpus /\ \A d \in T : d # c /\ m.cpu[d].used
  /\ s = Now(m) /\ i \in Ids /\ i = s.next_id /\ Enough(s, Cardinality(T))
  /\ S = ToSet(Served(s, T)) /\ k = [heard EXCEPT ![i] = S]
  /\ v = Serve(MakeTargets(NewRequest(s, i, c, F), i, T), i, T)

LEMMA SendsDo ==
  ASSUME Before, NEW s, NEW v, NEW k, NEW i, NEW c \in Cpus, NEW F, NEW T, NEW S,
         Finds(s, v, k, i, c, F, T, S)
  PROVE  /\ Sends(s, v, k, i, c, F, T, S)
         /\ ~ Faults(s, T) => S = T \/ ToSet(v.sleepers) = {}
<1> DEFINE r == MakeTargets(NewRequest(s, i, c, F), i, T)
<1>0. /\ m.cpu[c].used /\ m.cpu[c].wait = "no"
      /\ F \in SUBSET {"NONBLOCK", "MULTICAST"}
      /\ T \in SUBSET Cpus /\ \A d \in T : d # c /\ m.cpu[d].used
      /\ s = Now(m) /\ i \in Ids /\ i = s.next_id /\ Enough(s, Cardinality(T))
      /\ S = ToSet(Served(s, T)) /\ k = [heard EXCEPT ![i] = S]
      /\ v = Serve(r, i, T)
  BY DEF Finds
<1>1. m \in Machine /\ heard \in [Ids -> SUBSET Cpus] /\ Keeps(m, heard, {}, {})
  BY DEF Before
<1>2. s \in Machine /\ Keeps(s, heard, {}, {}) /\ s.cpu = m.cpu
  BY <1>0, <1>1, NowDoes DEF SameProcesses
<1>3. F \in FlagSets /\ "ACCEPTED" \notin F
  BY <1>0 DEF FlagSets
<1>4. Lists(s)
  BY <1>2, KeepsMeans
<1>5. Opens(s, r, i, c, F, T)
  BY <1>0, <1>2, <1>3, RequestDoes
<1> HIDE DEF r
<1>6. Serves(s, v, i, c, F, T, S) /\ (~ Faults(s, T) => S = T \/ ToSet(v.sleepers) = {})
  BY <1>0, <1>2, <1>3, <1>4, <1>5, ServeDoes
<1>7. \A d \in T : d # c /\ s.cpu[d].used
  BY <1>0, <1>2
<1>8. Keeps(v, k, {}, {})
  BY <1>0, <1>1, <1>2, <1>6, <1>7, ServesKeeps
<1>9. Moved(s, heard, v, k) /\ k \in [Ids -> SUBSET Cpus]
  BY <1>0, <1>1, <1>2, <1>6, ServesMoved
<1> QED BY <1>0, <1>6, <1>8, <1>9 DEF Sends

LEMMA SendsFind ==
  ASSUME Before, NEW s, NEW v, NEW k, NEW i, NEW c \in Cpus, NEW F \in SUBSET {"NONBLOCK", "MULTICAST"},
         NEW T, NEW S, Sends(s, v, k, i, c, F, T, S), S = T \/ ToSet(v.sleepers) = {}
  PROVE  Sent(v, k, c, i)
<1>1. m \in Machine /\ heard \in [Ids -> SUBSET Cpus] /\ Keeps(m, heard, {}, {})
  BY DEF Before
<1>2. /\ s = Now(m) /\ m.cpu[c].used /\ m.cpu[c].wait = "no" /\ i \in Ids /\ i = s.next_id
      /\ \A d \in T : d # c
      /\ Serves(s, v, i, c, F, T, S) /\ Keeps(v, k, {}, {})
  BY DEF Sends
<1>3. s \in Machine /\ Keeps(s, heard, {}, {}) /\ s.cpu = m.cpu
  BY <1>1, <1>2, NowDoes DEF SameProcesses
<1>4. \A d \in Cpus : i \notin In(s, d) /\ i \notin Own(s, d)
  BY <1>2, <1>3, NextIsNew
<1>5. /\ v \in Machine /\ SameOwn(s, v) /\ v.req[i].live /\ v.req[i].s = c
      /\ v.req[i].flags = F \cup (IF S = {} THEN {} ELSE {"ACCEPTED"})
      /\ S \subseteq T /\ \A d \in Cpus \ S : v.cpu[d] = s.cpu[d]
      /\ \A d \in Cpus : In(v, d) = IF d \in T \ S THEN In(s, d) \cup {i} ELSE In(s, d)
  BY <1>2 DEF Serves
<1>6. v.cpu[c].used /\ v.cpu[c].wait = "no"
  BY <1>2, <1>3, <1>5
<1>7. \A f \in {"SENDERSLEEP", "COMPLETED", "ERROR"} : f \notin v.req[i].flags
  BY <1>5
<1>8. \A d \in Cpus : i \notin Own(v, d)
  BY <1>4, <1>5, OwnStays
<1>9. (\A d \in Cpus : i \notin In(v, d)) \/ (\A d \in Cpus : v.cpu[d].wait # "recv")
  <2>1. CASE S = T
    BY <1>4, <1>5, <2>1
  <2>2. CASE ToSet(v.sleepers) = {}
    <3>1. Receiving(v, {})
      BY <1>2, KeepsMeans
    <3> QED BY <2>2, <3>1 DEF Receiving
  <2> QED BY <2>1, <2>2
<1> QED BY <1>2, <1>5, <1>6, <1>7, <1>8, <1>9 DEF Sent

\* What follows, if it leaves alone those that sleep for other answers
LEMMA SendsGood ==
  ASSUME Before, NEW s, NEW v, NEW k, NEW i, NEW c \in Cpus, NEW F, NEW T, NEW S,
         Sends(s, v, k, i, c, F, T, S),
         NEW t \in Machine, Loses(v, t),
         t.wreck = "none" => Keeps(t, k, {}, {}),
         t.wreck = "none" /\ ~ t.twice =>
           \A j \in Ids \ {i} : Dozes(v, j) /\ ~ v.req[j].old =>
             Dozes(t, j) \/ ~ t.cpu[v.req[j].s].used
  PROVE  Good(m, heard, t, k)
<1>1. m \in Machine /\ heard \in [Ids -> SUBSET Cpus] /\ Keeps(m, heard, {}, {})
  BY DEF Before
<1>2. /\ s = Now(m) /\ i \in Ids /\ i = s.next_id
      /\ Serves(s, v, i, c, F, T, S)
      /\ Moved(s, heard, v, k) /\ k \in [Ids -> SUBSET Cpus]
  BY DEF Sends
<1>3. s \in Machine /\ Keeps(s, heard, {}, {}) /\ SameRequests(m, s)
  BY <1>1, <1>2, NowDoes
<1>4. ~ s.req[i].live
  BY <1>2, <1>3, NextIsNew
<1>5. \A j \in Ids \ {i} : v.req[j] = s.req[j]
  BY <1>2 DEF Serves
<1>6. Moved(s, heard, t, k)
  BY <1>2, MovedOn
<1>7. ASSUME t.wreck = "none", ~ t.twice PROVE Knows(s, t, k)
  <2>1. \A j \in Ids \ {i} : Dozes(v, j) /\ ~ v.req[j].old =>
          Dozes(t, j) \/ ~ t.cpu[v.req[j].s].used
    BY <1>7
  <2>2. ASSUME NEW j \in Ids, Dozes(s, j), ~ s.req[j].old
        PROVE  t.req[j].s = s.req[j].s /\ Answered(s, t, k, j)
    <3>1. j # i
      BY <1>4, <2>2 DEF Dozes
    <3>2. v.req[j] = s.req[j]
      BY <1>5, <3>1
    <3>3. Dozes(v, j) /\ ~ v.req[j].old
      BY <2>2, <3>2 DEF Dozes
    <3>4. Dozes(t, j) \/ ~ t.cpu[s.req[j].s].used
      BY <2>1, <3>1, <3>2, <3>3
    <3>5. t.req[j].s = s.req[j].s
      BY <3>2 DEF Loses
    <3> QED BY <3>4, <3>5 DEF Answered
  <2>3. Keeps(t, k, {}, {})
    BY <1>7
  <2> QED BY <1>3, <2>2, <2>3, KnowsWhen
<1>8. Good(s, heard, t, k)
  BY <1>2, <1>6, <1>7 DEF Good
<1> QED BY <1>3, <1>8, SameStart

LEMMA SendGood ==
  ASSUME Before, NEW c \in Cpus, NEW F \in Modes, NEW T \in Addresses(c), Send(c, F, T)
  PROVE  Good(m, heard, m', heard')
<1> DEFINE s == Now(m)
           i == s.next_id
           v == Serve(MakeTargets(NewRequest(s, i, c, F), i, T), i, T)
           S == ToSet(Served(s, T))
           k == [heard EXCEPT ![i] = S]
           t == m'
<1>1. m \in Machine /\ heard \in [Ids -> SUBSET Cpus] /\ Keeps(m, heard, {}, {})
  BY DEF Before
<1>2. F \in SUBSET {"NONBLOCK", "MULTICAST"}
  BY IpcMsgAssumption
<1>3. T \in SUBSET Cpus /\ \A d \in T : d # c /\ m.cpu[d].used
  BY AddressedOthers
<1>4. m.cpu[c].used /\ m.cpu[c].wait = "no" /\ i \in Ids
  BY DEF Send, Registered, Runs
<1>5. \/ t \in Raises(s, c) /\ heard' = heard
      \/ t \in Raises(Exhaust(s), c) /\ heard' = heard
      \/ /\ Enough(s, Cardinality(T)) /\ heard' = k
         /\ t \in IF Faults(s, T) THEN Kills(v, c) ELSE {Await(v, c, i)}
  <2>1. MaxLive \in Nat
    BY IpcMsgAssumption
  <2>2. Cardinality({x \in Ids : s.req[x].live}) \in Nat
    <3>1. Ids = 0 .. MaxRequests - 1 /\ MaxRequests - 1 \in Int
      BY IpcMsgAssumption DEF Ids
    <3>2. IsFiniteSet(Ids)
      BY <3>1, FS_Interval
    <3>3. {x \in Ids : s.req[x].live} \subseteq Ids
      OBVIOUS
    <3> HIDE DEF s
    <3> QED BY <3>2, <3>3, FS_Subset, FS_CardinalityType
  <2> QED BY <2>1, <2>2 DEF Send
<1>6. s \in Machine /\ Keeps(s, heard, {}, {})
  BY <1>1, NowDoes
<1>7. ASSUME Enough(s, Cardinality(T))
      PROVE  /\ Sends(s, v, k, i, c, F, T, S)
             /\ ~ Faults(s, T) => S = T \/ ToSet(v.sleepers) = {}
  <2>1. Finds(s, v, k, i, c, F, T, S)
    BY <1>2, <1>3, <1>4, <1>7 DEF Finds
  <2> HIDE DEF s, i, v, k, S
  <2> QED BY <2>1, SendsDo
<1>8. s = Now(m)
  OBVIOUS
<1> HIDE DEF s, i, v, S, k, t
<1>9. ASSUME t \in Raises(s, c), heard' = heard PROVE Good(m, heard, t, heard')
  BY <1>6, <1>8, <1>9, EndsSelf, RefusesGood
<1>10. ASSUME t \in Raises(Exhaust(s), c), heard' = heard PROVE Good(m, heard, t, heard')
  BY <1>6, <1>8, <1>10, ExhaustEnds, RefusesGood
<1>11. ASSUME Enough(s, Cardinality(T)), heard' = k,
              t \in IF Faults(s, T) THEN Kills(v, c) ELSE {Await(v, c, i)}
       PROVE  Good(m, heard, t, heard')
  <2>1. Sends(s, v, k, i, c, F, T, S) /\ (~ Faults(s, T) => S = T \/ ToSet(v.sleepers) = {})
    BY <1>7, <1>11
  <2>2. v \in Machine /\ Keeps(v, k, {}, {})
    BY <2>1 DEF Sends, Serves
  <2>3. ASSUME Faults(s, T), t \in Kills(v, c) PROVE Good(m, heard, t, k)
    <3>1. Known(v)
      BY <2>2, Sender
    <3>2. Ends(v, k, t)
      BY <2>2, <2>3, <3>1, KillsEnds
    <3>3. /\ t \in Machine /\ Loses(v, t)
          /\ t.wreck = "none" => Keeps(t, k, {}, {})
          /\ t.wreck = "none" /\ ~ t.twice =>
               \A j \in Ids \ {i} : Dozes(v, j) /\ ~ v.req[j].old =>
                 Dozes(t, j) \/ ~ t.cpu[v.req[j].s].used
      BY <2>2, <3>2 DEF Ends, Follows, Steady
    <3> QED BY <2>1, <3>3, SendsGood
  <2>4. ASSUME ~ Faults(s, T), t = Await(v, c, i) PROVE Good(m, heard, t, k)
    <3>1. Sent(v, k, c, i)
      BY <1>2, <2>1, <2>4, SendsFind
    <3>2. i \in Ids
      BY <1>4
    <3>3. /\ t \in Machine /\ Loses(v, t)
          /\ t.wreck = "none" =>
               Keeps(t, k, {}, {}) /\ \A j \in Ids \ {i} : t.req[j] = v.req[j]
      BY <2>4, <3>1, <3>2, AwaitDoes
    <3>4. t.wreck = "none" =>
               /\ Keeps(t, k, {}, {})
               /\ \A j \in Ids \ {i} : Dozes(v, j) /\ ~ v.req[j].old =>
                    Dozes(t, j) \/ ~ t.cpu[v.req[j].s].used
      BY <3>3 DEF Dozes
    <3> QED BY <2>1, <3>3, <3>4, SendsGood
  <2> QED BY <1>11, <2>3, <2>4
<1> QED BY <1>5, <1>9, <1>10, <1>11 DEF t

-----------------------------------------------------------------------------
(* The module *)

LEMMA NextGood ==
  ASSUME Before, Next
  PROVE  Good(m, heard, m', heard')
<1>1. ASSUME NEW c \in Cpus, Starts(c) \/ Fails(c) \/ Dies(c) PROVE Good(m, heard, m', heard')
  BY <1>1, StartsGood, FailsGood, DiesGood
<1>2. ASSUME NEW c \in Cpus, NEW g \in Groups \cup {NoGroup}, Register(c, g)
      PROVE  Good(m, heard, m', heard')
  BY <1>2, RegisterGood
<1>3. ASSUME NEW c \in Cpus, NEW F \in Modes, NEW T \in Addresses(c), Send(c, F, T)
      PROVE  Good(m, heard, m', heard')
  BY <1>3, SendGood
<1>4. ASSUME NEW c \in Cpus, NEW F \in Modes, Recv(c, F) PROVE Good(m, heard, m', heard')
  BY <1>4, RecvGood
<1>5. ASSUME NEW c \in Cpus, NEW i \in Ids, Stat(c, i) PROVE Good(m, heard, m', heard')
  BY <1>5, StatGood
<1>6. ASSUME Timeouter \/ Tick PROVE Good(m, heard, m', heard')
  BY <1>6, TimeouterGood, TickGood
<1> QED BY <1>1, <1>2, <1>3, <1>4, <1>5, <1>6 DEF Next

\* The inductive invariant
IInv ==
  /\ m \in Machine /\ heard \in [Ids -> SUBSET Cpus]
  /\ m.wreck = "none" => Keeps(m, heard, {}, {})

LEMMA InitKeeps == Init => IInv
<1> SUFFICES ASSUME Init PROVE IInv
  OBVIOUS
<1>1. /\ m.cpu = [c \in Cpus |-> Idle] /\ m.req = [i \in Ids |-> Blank] /\ m.next_id = 0
      /\ m.own = [c \in Cpus |-> <<>>] /\ m.incoming = [c \in Cpus |-> <<>>]
      /\ m.sleepers = <<>> /\ m.starts = 0 /\ m.free = 0 /\ m.blocks = QueueBlocks
      /\ m.lost = 0 /\ m.cut = {}
      /\ heard = [i \in Ids |-> {}]
  BY DEF Init
<1>2. m \in Machine
  <2>1. [c \in Cpus |-> Idle] \in VcpuTables
    BY IdleIsOne DEF VcpuTables
  <2>2. [i \in Ids |-> Blank] \in RequestTables
    BY DEF RequestTables, Requests, Blank
  <2>3. [c \in Cpus |-> <<>>] \in ListTables
    BY DEF ListTables
  <2>4. 0 \in Counts /\ 0 \in StartCounts /\ QueueBlocks \in BlockCounts
    BY IpcMsgAssumption DEF Counts, StartCounts, BlockCounts
  <2>5. <<>> \in CpuLists /\ {} \in CpuSets /\ "none" \in Wrecks
    BY DEF CpuLists, CpuSets, Wrecks
  <2> QED BY <2>1, <2>2, <2>3, <2>4, <2>5 DEF Init, Machine
<1>3. heard \in [Ids -> SUBSET Cpus]
  BY <1>1
<1>4. ToSet(<<>>) = {} /\ IsInjective(<<>>)
  BY DEF ToSet, IsInjective
<1>5. /\ \A c \in Cpus : In(m, c) = {} /\ Own(m, c) = {} /\ m.cpu[c].wait = "no"
      /\ ToSet(m.sleepers) = {}
  BY <1>1, <1>4, IdleIsOne DEF In, Own
<1>6. \A i \in Ids : ~ m.req[i].live /\ m.req[i].first = AnyVcpu /\ ~ Dozes(m, i)
  BY <1>1 DEF Blank, Dozes
<1>7. Lists(m)
  BY <1>1, <1>4 DEF Lists
<1>8. Elements(m, heard) /\ Owned(m)
  BY <1>5 DEF Elements, Owned
<1>9. Numbered(m, heard) /\ Named(m, heard)
  BY <1>1, <1>6 DEF Numbered, Named
<1>10. Waiting(m, {}, {}) /\ Receiving(m, {})
  BY <1>5, <1>6 DEF Waiting, Receiving
<1>11. Done(m)
  BY <1>6 DEF Done
<1>12. AddsUp(m)
  <2>1. Queued(m) = {}
    BY <1>2, <1>5, QueuedFacts
  <2>2. Cardinality(Queued(m)) = 0
    BY <2>1, FS_EmptySet
  <2>3. QueueBlocks - QueueBlocks = 0 /\ QueuesAtOnce \in Nat
    BY IpcMsgAssumption
  <2>4. Allocated(m) = 0
    BY <1>1, <2>3 DEF Allocated
  <2> QED BY <1>1, <2>2, <2>4 DEF AddsUp
<1> QED BY <1>2, <1>3, <1>7, <1>8, <1>9, <1>10, <1>11, <1>12, KeepsMeans DEF IInv

\* No step follows a wreck.
LEMMA StepsStartSound ==
  ASSUME IInv, Next
  PROVE  Before
<1>1. m.wreck = "none"
  BY DEF Next, Starts, Fails, Dies, Register, Send, Recv, Stat, Registered, Runs, Timeouter, Tick, Intact
<1> QED BY <1>1 DEF IInv, Before

LEMMA StepsAreGood ==
  ASSUME IInv, Next
  PROVE  Good(m, heard, m', heard')
  BY StepsStartSound, NextGood

LEMMA StepKeeps == IInv /\ [Next]_vars => IInv'
<1>1. ASSUME IInv, Next PROVE IInv'
  BY <1>1, StepsAreGood DEF Good, IInv
<1>2. ASSUME IInv, UNCHANGED vars PROVE IInv'
  <2>1. m' = m /\ heard' = heard
    BY <1>2 DEF vars
  <2> QED BY <1>2, <2>1 DEF IInv
<1> QED BY <1>1, <1>2

LEMMA InvAlways == Spec => []IInv
<1> QED BY InitKeeps, StepKeeps, PTL DEF Spec

LEMMA SoundKeeps ==
  ASSUME IInv, Sound
  PROVE  /\ m \in Machine
         /\ Lists(m) /\ Elements(m, heard) /\ Owned(m) /\ Numbered(m, heard)
         /\ Waiting(m, {}, {}) /\ Receiving(m, {}) /\ Named(m, heard) /\ Done(m) /\ AddsUp(m)
  BY KeepsMeans DEF IInv, Sound

LEMMA OnLists ==
  ASSUME IInv, NEW c \in Cpus, NEW x
  PROVE  /\ Contains(m.own[c], x) <=> x \in Own(m, c)
         /\ Contains(m.incoming[c], x) <=> x \in In(m, c)
         /\ Contains(m.sleepers, x) <=> x \in ToSet(m.sleepers)
<1>1. m.own[c] \in Seq(Ids) /\ m.incoming[c] \in Seq(Ids) /\ m.sleepers \in Seq(Cpus)
  BY Tables DEF IInv
<1> QED BY <1>1, Listed DEF Own, In

-----------------------------------------------------------------------------
(* Results *)

\* Whatever processes send, receive, poll, end or are refused, the module's
\* lists, queues and requests stay of their types: every list holds ids of
\* requests or VCPUs, the counters stay in their ranges (modules/ipc.c).
THEOREM TypeCorrect == Spec => []TypeOK
<1>1. IInv => TypeOK
  BY Machines DEF IInv, TypeOK
<1> QED BY <1>1, InvAlways, PTL

\* Whoever sleeps for an answer has exactly one request that says so, on the
\* own list, where the timer finds it, and somebody has yet to answer it; for
\* any number of processes and requests, also after the death of the last
\* receiver (ipc.c:5826-5835), until a request is given back with elements that
\* refer to it or a list is cut off (ipc_msg_send, ipc_msg_recv,
\* syscall_task_cleanup, ipc_timeouter).
THEOREM SleepersAreAnswerable == Spec => []SendersAreAnswerable
<1>1. ASSUME IInv PROVE SendersAreAnswerable
  <2> SUFFICES ASSUME Sound PROVE SendersAreAnswerable
    BY DEF SendersAreAnswerable
  <2>1. m \in Machine /\ Owned(m) /\ Waiting(m, {}, {})
    BY <1>1, SoundKeeps
  <2>2. \A i \in Ids : Sleeping(i) <=> Dozes(m, i)
    BY DEF Sleeping, Dozes
  <2>3. ASSUME NEW c \in Cpus
        PROVE  Cardinality({i \in ToSet(m.own[c]) : Sleeping(i)})
                 = IF m.cpu[c].wait = "send" THEN 1 ELSE 0
    <3> DEFINE R == {i \in ToSet(m.own[c]) : Sleeping(i)}
    <3>1. ToSet(m.own[c]) = Own(m, c) /\ Own(m, c) \subseteq Ids
      BY <2>1, Tables DEF Own
    <3>2. \A i \in R : i \in Ids /\ Dozes(m, i) /\ m.req[i].s = c
      BY <2>1, <2>2, <3>1 DEF Owned
    <3>3. CASE m.cpu[c].wait = "send"
      <4>1. PICK i \in Own(m, c) : Dozes(m, i)
        BY <2>1, <3>3 DEF Waiting
      <4>2. i \in R
        BY <2>2, <3>1, <4>1
      <4>3. \A j \in R : j = i
        BY <2>1, <3>2, <4>2 DEF Waiting
      <4>4. R = {i}
        BY <4>2, <4>3
      <4> HIDE DEF R
      <4>5. Cardinality(R) = 1
        BY <4>4, FS_Singleton
      <4> QED BY <3>3, <4>5 DEF R
    <3>4. CASE m.cpu[c].wait # "send"
      <4>1. R = {}
        BY <2>1, <3>2, <3>4 DEF Waiting
      <4> HIDE DEF R
      <4>2. Cardinality(R) = 0
        BY <4>1, FS_EmptySet
      <4> QED BY <3>4, <4>2 DEF R
    <3> QED BY <3>3, <3>4
  <2>4. \A i \in Ids : Sleeping(i) => Targets(m, i) # {}
    BY <2>1, <2>2 DEF Waiting
  <2> QED BY <2>3, <2>4 DEF SendersAreAnswerable
<1> QED BY <1>1, InvAlways, PTL

\* Queues and lists hold requests that exist, each of them once, each process's
\* own list its own ones; no message comes to a process twice, and a process
\* that ended leaves nothing behind, until a request is given back with elements
\* that refer to it (ipc.c:2045, 5667) or a list is cut off (IPC_LINK_REQUEST,
\* ipc_make_targets, syscall_task_cleanup).
THEOREM ListsStaySound == Spec => []ListsAreSound
<1>1. ASSUME IInv PROVE ListsAreSound
  <2> SUFFICES ASSUME Sound, NEW c \in Cpus
               PROVE  /\ IsInjective(m.incoming[c]) /\ IsInjective(m.own[c])
                      /\ \A i \in ToSet(m.incoming[c]) : m.req[i].live /\ c \notin heard[i]
                      /\ \A i \in ToSet(m.own[c]) : m.req[i].live /\ m.req[i].s = c
                      /\ ~ m.cpu[c].used => m.own[c] = <<>> /\ m.incoming[c] = <<>>
    BY DEF ListsAreSound
  <2>1. m \in Machine /\ Lists(m) /\ Elements(m, heard) /\ Owned(m)
    BY <1>1, SoundKeeps
  <2>2. /\ ToSet(m.own[c]) = Own(m, c) /\ ToSet(m.incoming[c]) = In(m, c)
        /\ m.own[c] \in Seq(Ids) /\ m.incoming[c] \in Seq(Ids)
    BY <2>1, Tables DEF Own, In
  <2>3. /\ \A i \in In(m, c) : m.req[i].live /\ c \notin heard[i] /\ m.cpu[c].used
        /\ \A i \in Own(m, c) : m.req[i].live /\ m.req[i].s = c /\ m.cpu[c].used
    BY <2>1 DEF Elements, Owned
  <2>4. ASSUME ~ m.cpu[c].used PROVE m.own[c] = <<>> /\ m.incoming[c] = <<>>
    <3>1. ToSet(m.own[c]) = {} /\ ToSet(m.incoming[c]) = {}
      BY <2>2, <2>3, <2>4
    <3> QED BY <2>2, <3>1, HeadIsIn
  <2> QED BY <2>1, <2>2, <2>3, <2>4 DEF Lists
<1> QED BY <1>1, InvAlways, PTL

\* A process does not sleep for a message while one is queued for it, but for
\* the messages of a sender that died while it looked for receivers, and for
\* those behind one that HAC refused it (ipc_msg_recv, ipc_msg_send).
THEOREM SleepersMissNothing == Spec => []NoMessageIsMissed
<1>1. ASSUME IInv PROVE NoMessageIsMissed
  <2> SUFFICES ASSUME Sound, NEW c \in Cpus
               PROVE  m.cpu[c].wait = "recv" <=>
                        /\ Contains(m.sleepers, c)
                        /\ c \notin m.cut =>
                             \A i \in ToSet(m.incoming[c]) : ~ Contains(m.own[m.req[i].s], i)
    BY DEF NoMessageIsMissed
  <2>1. m \in Machine /\ Elements(m, heard) /\ Numbered(m, heard) /\ Receiving(m, {})
    BY <1>1, SoundKeeps
  <2>2. ToSet(m.incoming[c]) = In(m, c) /\ In(m, c) \subseteq Ids
    BY <2>1, Tables DEF In
  <2>3. \A i \in In(m, c) : m.req[i].s \in Cpus
    BY <2>1, <2>2 DEF Elements, Numbered
  <2>4. \A i \in In(m, c) : Contains(m.own[m.req[i].s], i) <=> i \in Own(m, m.req[i].s)
    BY <1>1, <2>3, OnLists
  <2>5. Contains(m.sleepers, c) <=> c \in ToSet(m.sleepers)
    BY <1>1, OnLists
  <2> QED BY <2>1, <2>2, <2>4, <2>5 DEF Receiving
<1> QED BY <1>1, InvAlways, PTL

\* Every queue element ever allocated is queued, free or lost, whatever was
\* taken, given back, cleaned up or exhausted (ipc_queue_new, ipc_queue_done,
\* ipc_queue_done_linked).
THEOREM NoElementIsInvented == Spec => []ElementsAddUp
<1>1. ASSUME IInv PROVE ElementsAddUp
  BY <1>1, SoundKeeps DEF ElementsAddUp, AddsUp
<1> QED BY <1>1, InvAlways, PTL

\* A sender that goes on before its time is up, and whose messages HAC refuses
\* nobody, is told who got the message first; and if it sent to all, nobody is
\* left who has to get it (ipc_msg_recv, syscall_task_cleanup, ipc_timeouter);
\* in every step that neither wrecks a list nor gives a request back twice, as
\* the death of the last receiver does (ipc.c:5826-5835).
THEOREM SendersAreTold == Spec => SendersKnow
<1>1. IInv /\ [Next]_vars =>
        [ \A i \in Ids :
            LET c == m.req[i].s IN
            /\ Sleeping(i) /\ ~ m.req[i].old
            /\ Intact(m') /\ m'.cpu[c].used /\ m'.cpu[c].wait = "no"
            /\ \A d \in Cpus : <<d, c>> \notin Denied
            => /\ m'.req[i].first \in heard'[i]
               /\ "MULTICAST" \in m.req[i].flags => Targets(m', i) = {} ]_vars
  <2> SUFFICES ASSUME IInv, Next, NEW i \in Ids, Sleeping(i), ~ m.req[i].old,
                      Intact(m'), m'.cpu[m.req[i].s].used,
                      m'.cpu[m.req[i].s].wait = "no",
                      \A d \in Cpus : <<d, m.req[i].s>> \notin Denied
               PROVE  /\ m'.req[i].first \in heard'[i]
                      /\ "MULTICAST" \in m.req[i].flags => Targets(m', i) = {}
    OBVIOUS
  <2>1. Knows(m, m', heard')
    BY StepsAreGood DEF Good, Intact
  <2>2. Dozes(m, i)
    BY DEF Sleeping, Dozes
  <2> QED BY <2>1, <2>2 DEF Knows
<1> QED BY <1>1, InvAlways, PTL DEF Spec, SendersKnow

\* What Moved says, with the machine's own numbers
LEMMA StepExchanges ==
  ASSUME IInv, Next
  PROVE  Outside!Next
<1>1. /\ Moved(m, heard, m', heard') /\ m \in Machine /\ m' \in Machine
      /\ heard' \in [Ids -> SUBSET Cpus] /\ heard \in [Ids -> SUBSET Cpus]
  BY StepsAreGood DEF Good, IInv
<1>2. m.next_id \in Int /\ m'.next_id \in Int /\ \A i \in Ids : i \in Int
  BY <1>1, Fields, IpcMsgAssumption DEF Counts, Ids
<1> SUFFICES ASSUME NEW i \in Ids
             PROVE  /\ <<Stage(i), Stage(i)'>> \in
                         {<<"none", "none">>, <<"none", "open">>, <<"none", "closed">>,
                          <<"open", "open">>, <<"open", "closed">>, <<"closed", "closed">>}
                    /\ heard[i] \subseteq heard'[i] /\ heard'[i] \subseteq Cpus
                    /\ Stage(i) = "closed" => heard'[i] = heard[i]
                    /\ Stage(i)' = "none" => heard'[i] = {}
                    /\ IF heard'[i] = {} THEN m'.req[i].first = AnyVcpu
                       ELSE IF heard[i] = {} THEN m'.req[i].first \in heard'[i]
                       ELSE m'.req[i].first = m.req[i].first
  BY DEF Outside!Next, Outside!Moves, Outside!Comes, Outside!Names
<1>3. /\ i < m.next_id => i < m'.next_id /\ (m'.req[i].live => m.req[i].live)
      /\ heard[i] \subseteq heard'[i] /\ heard'[i] \subseteq Cpus
      /\ i < m.next_id /\ ~ m.req[i].live => heard'[i] = heard[i]
      /\ i >= m'.next_id => heard'[i] = {}
      /\ heard'[i] = {} => m'.req[i].first = AnyVcpu
      /\ heard'[i] # {} /\ heard[i] = {} => m'.req[i].first \in heard'[i]
      /\ heard[i] # {} => m'.req[i].first = m.req[i].first
  BY <1>1 DEF Moved
<1> QED BY <1>2, <1>3 DEF Stage

\* Requests implement the exchanges of Exchange: each is opened once, comes to
\* each receiver once and only while it is open, and keeps the first of them
\* on record for ever (ipc_request_new, ipc_msg_recv, ipc_request_done).
THEOREM RequestsAreExchanges == Spec => Exchanges
<1>1. Init => Outside!Init
  BY DEF Init, Outside!Init, Stage, Blank, Ids
<1>2. IInv /\ [Next]_vars => [Outside!Next]_(Outside!vars)
  <2>1. ASSUME IInv, Next PROVE Outside!Next
    BY <2>1, StepExchanges
  <2>2. ASSUME UNCHANGED vars PROVE UNCHANGED Outside!vars
    BY <2>2 DEF vars, Outside!vars, Stage
  <2> QED BY <2>1, <2>2
<1> QED BY <1>1, <1>2, InvAlways, PTL DEF Spec, Exchanges, Outside!Spec

=============================================================================
