--------------------------- MODULE Taskman_proofs ---------------------------
(***************************************************************************)
(* Proofs about module Taskman, for any number of virtual CPUs, images and *)
(* executions: every execution is accounted for once, the task cycle       *)
(* reaches every process, the memory totals are what the processes hold,   *)
(* and whom the debugger takes for dead.                                   *)
(*                                                                         *)
(* Each operator on the task manager's state leaves a state that is well   *)
(* formed (Good), keeps the number of executions not accounted for         *)
(* (Missing), keeps the totals equal to the sums (Even), and keeps the     *)
(* mark of each slot in accordance with what became of its process         *)
(* (AllTrue); an action is a composition of these operators.  The totals   *)
(* are folds over the set of processes: the lemmas on sums say what the    *)
(* library's fold computes.                                                *)
(***************************************************************************)
EXTENDS Taskman, FiniteSetTheorems, WellFoundedInduction, TLAPS

Missing(s) ==
  s.exec_cnt
    - (Cardinality(Used(s)) + s.exit_proc + s.killed_proc + s.died_proc)

Good(s) == s \in State /\ \A x \in Used(s) : x <= s.top_cpu

IInv ==
  /\ Good(k) /\ Missing(k) + trapped = 0
  /\ curr \in Cpus \cup {NoCpu}
  /\ but_in_fact_it_was_fatal \in BOOLEAN
  /\ trapped \in Nat

-----------------------------------------------------------------------------
(* Sums over finite sets *)

\* The first element that the library's fold takes from a set.
First(s) == CHOOSE x \in s : TRUE

\* f[s] is the sum of g over s, in the order in which the fold takes them.
IsSum(f, g, D) ==
  f = [s \in D |-> IF s = {} THEN 0 ELSE g[First(s)] + f[s \ {First(s)}]]

\* g has numbers on S; f adds them up in any order; g and e agree on S.
Numbers(g, S) == \A x \in S : g[x] \in Int
AddsUp(f, g, S) ==
  \A s \in SUBSET S :
    f[s] \in Int /\ \A x \in s : f[s] = g[x] + f[s \ {x}]
Agree(g, e, S) == \A x \in S : g[x] = e[x]

SumOver(f, g, S) == IsSum(f, g, SUBSET S)
Within(T, S) == T \subseteq S
Meet(f, h, T) == f[T] = h[T]

SumOf(g, S) == (CHOOSE q : IsSum(q, g, SUBSET S))[S]

\* A set of numbers that is not empty has a least element.
LEMMA Smallest ==
  ASSUME NEW N \in SUBSET Nat, N # {}
  PROVE  \E n \in N : \A i \in N : n <= i
<1>1. IsWellFoundedOn(OpToRel(<, Nat), Nat)
  BY NatLessThanWellFounded
<1>2. PICK n \in N : \A i \in N : ~ (<<i, n>> \in OpToRel(<, Nat))
  BY <1>1, WFMin
<1>3. \A i \in N : ~ (i < n)
  BY <1>2 DEF OpToRel
<1> QED BY <1>3

\* An element less, and the size of the set is one less.
LEMMA OneLess ==
  ASSUME NEW s, IsFiniteSet(s), NEW x \in s
  PROVE  /\ IsFiniteSet(s \ {x})
         /\ Cardinality(s) \in Nat /\ Cardinality(s \ {x}) \in Nat
         /\ Cardinality(s \ {x}) = Cardinality(s) - 1
<1>1. IsFiniteSet(s \ {x})
  BY FS_Subset
<1> QED BY <1>1, FS_CardinalityType, FS_RemoveElement

LEMMA FirstIn == ASSUME NEW s, s # {} PROVE First(s) \in s
BY DEF First

\* The fold is well defined on a finite set.
LEMMA SumExists ==
  ASSUME NEW S, IsFiniteSet(S), NEW g
  PROVE  \E f : IsSum(f, g, SUBSET S)
<1> DEFINE D(n) == {s \in SUBSET S : Cardinality(s) <= n}
           Bad == {n \in Nat : ~ \E f : IsSum(f, g, D(n))}
<1>1. ASSUME NEW n \in Bad PROVE \E i \in Bad : i < n
  <2>0. n \in Nat /\ ~ \E f : IsSum(f, g, D(n))
    OBVIOUS
  <2>1. n # 0
    <3>1. D(0) = {{}}
      <4>1. \A s \in SUBSET S : Cardinality(s) <= 0 <=> s = {}
        BY FS_Subset, FS_CardinalityType, FS_EmptySet
      <4> QED BY <4>1
    <3>2. IsSum([s \in D(0) |-> 0], g, D(0))
      BY <3>1 DEF IsSum
    <3> QED BY <2>0, <3>2, Zenon
  <2>9. n - 1 \in Nat /\ n - 1 < n
    BY <2>0, <2>1
  <2> SUFFICES ASSUME n - 1 \notin Bad PROVE FALSE
    BY <2>9, Zenon
  <2>2. PICK f : IsSum(f, g, D(n - 1))
    BY <2>9, Zenon
  <2> DEFINE h == [s \in D(n) |->
                     IF s = {} THEN 0 ELSE g[First(s)] + f[s \ {First(s)}]]
  <2>3. \A s \in D(n - 1) : s \in D(n) /\ h[s] = f[s]
    <3>1. \A s \in D(n - 1) : s \in D(n)
      BY <2>1, FS_Subset, FS_CardinalityType
    <3>2. \A s \in D(n - 1) :
            f[s] = IF s = {} THEN 0 ELSE g[First(s)] + f[s \ {First(s)}]
      BY <2>2, Zenon DEF IsSum
    <3> QED BY <3>1, <3>2, Zenon
  <2>4. \A s \in D(n) : s # {} => s \ {First(s)} \in D(n - 1)
    BY FS_Subset, FirstIn, OneLess
  <2>5. \A s \in D(n) : s # {} => h[s \ {First(s)}] = f[s \ {First(s)}]
    BY <2>3, <2>4, Zenon
  <2>6. h = [s \in D(n) |->
               IF s = {} THEN 0 ELSE g[First(s)] + h[s \ {First(s)}]]
    BY <2>5, Zenon
  <2>7. IsSum(h, g, D(n))
    BY <2>6, Zenon DEF IsSum
  <2> QED BY <2>0, <2>7, Zenon
<1>2. Bad = {}
  <2> HIDE DEF Bad
  <2>1. Bad \in SUBSET Nat
    BY DEF Bad
  <2>2. Bad # {} => \E n \in Bad : \A i \in Bad : n <= i
    BY <2>1, Smallest
  <2> QED BY <1>1, <2>1, <2>2
<1>3. Cardinality(S) \in Nat
  BY FS_CardinalityType
<1>4. D(Cardinality(S)) = SUBSET S
  BY <1>3, FS_Subset
<1>5. \E f : IsSum(f, g, D(Cardinality(S)))
  BY <1>2, <1>3
<1> QED BY <1>4, <1>5

\* What the equation says of one set.
LEMMA SumStep ==
  ASSUME NEW f, NEW g, NEW D, IsSum(f, g, D)
  PROVE  \A s \in D :
           /\ s = {} => f[s] = 0
           /\ s # {} => f[s] = g[First(s)] + f[s \ {First(s)}]
BY Zenon DEF IsSum

\* Any element may be taken first.
LEMMA SumAny ==
  ASSUME NEW S, IsFiniteSet(S), NEW f, NEW g, IsSum(f, g, SUBSET S),
         Numbers(g, S)
  PROVE  AddsUp(f, g, S)
<1> DEFINE Fine(s) == f[s] \in Int /\ \A x \in s : f[s] = g[x] + f[s \ {x}]
           Bad == {n \in Nat : \E s \in SUBSET S : Cardinality(s) = n /\ ~ Fine(s)}
<1>1. ASSUME NEW n \in Bad PROVE \E i \in Bad : i < n
  <2>1. PICK s \in SUBSET S : Cardinality(s) = n /\ ~ Fine(s)
    OBVIOUS
  <2>10. IsFiniteSet(s)
    BY FS_Subset
  <2>9. \A u \in SUBSET S :
          /\ u = {} => f[u] = 0
          /\ u # {} => f[u] = g[First(u)] + f[u \ {First(u)}]
    BY SumStep, Zenon
  <2>2. s # {}
    <3> SUFFICES ASSUME s = {} PROVE FALSE
      OBVIOUS
    <3>1. f[s] = 0
      BY <2>9, Zenon
    <3> QED BY <2>1, <3>1
  <2> DEFINE c == First(s)
  <2>3. c \in s /\ f[s] = g[c] + f[s \ {c}]
    BY <2>2, <2>9, FirstIn
  <2> HIDE DEF c, Fine
  <2> SUFFICES ASSUME \A i \in Bad : ~ (i < n) PROVE FALSE
    OBVIOUS
  <2>4. \A u \in SUBSET S : \A y \in s : u = s \ {y} => Fine(u)
    <3> SUFFICES ASSUME NEW y \in s PROVE Fine(s \ {y})
      OBVIOUS
    <3>1. /\ s \ {y} \in SUBSET S /\ Cardinality(s \ {y}) \in Nat
          /\ Cardinality(s \ {y}) < n
      <4>1. /\ Cardinality(s) \in Nat /\ Cardinality(s \ {y}) \in Nat
            /\ Cardinality(s \ {y}) = Cardinality(s) - 1
        BY <2>10, OneLess, Zenon
      <4> QED BY <2>1, <4>1
    <3> QED BY <3>1
  <2>5. \A y \in s : Fine(s \ {y})
    BY <2>4 DEF Agree
  <2>6. f[s \ {c}] \in Int /\ g[c] \in Int
    BY <2>3, <2>5 DEF Fine, Numbers
  <2>7. ASSUME NEW x \in s PROVE f[s] = g[x] + f[s \ {x}]
    <3>1. CASE x = c
      BY <2>3, <3>1
    <3>2. CASE x # c
      <4>1. x \in s \ {c} /\ c \in s \ {x} /\ (s \ {c}) \ {x} = (s \ {x}) \ {c}
        BY <2>3, <3>2
      <4> DEFINE r == f[(s \ {x}) \ {c}]
      <4>2. f[s \ {c}] = g[x] + r
        BY <2>3, <2>5, <4>1 DEF Fine
      <4>3. f[s \ {x}] = g[c] + r
        BY <2>5, <4>1 DEF Fine
      <4>4. r \in Int
        <5>1. Fine(s \ {x}) /\ (s \ {x}) \in SUBSET S
          BY <2>5
        <5>2. (s \ {x}) \ {c} \in SUBSET S
          BY <5>1
        <5>3. /\ Cardinality(s \ {x}) = n - 1 /\ n \in Nat
              /\ Cardinality((s \ {x}) \ {c}) = n - 2
              /\ Cardinality((s \ {x}) \ {c}) \in Nat
          <6>1. Cardinality(s \ {x}) = n - 1 /\ n \in Nat
            BY <2>1, <2>10, OneLess
          <6>2. /\ Cardinality((s \ {x}) \ {c}) = Cardinality(s \ {x}) - 1
                /\ Cardinality((s \ {x}) \ {c}) \in Nat
            <7>1. c \in s \ {x} /\ IsFiniteSet(s \ {x})
              BY <2>10, <4>1, OneLess
            <7> QED BY <7>1, OneLess, Zenon
          <6> QED BY <6>1, <6>2
        <5>4. Fine((s \ {x}) \ {c})
          BY <5>2, <5>3
        <5> QED BY <5>4 DEF Fine
      <4> HIDE DEF r
      <4>5. g[x] \in Int /\ g[c] \in Int
        BY <2>3 DEF Numbers
      <4> QED BY <2>3, <4>2, <4>3, <4>4, <4>5
    <3> QED BY <3>1, <3>2
  <2>8. f[s] \in Int
    BY <2>3, <2>6
  <2> QED BY <2>1, <2>7, <2>8 DEF Fine
<1>2. Bad = {}
  <2> HIDE DEF Bad
  <2>1. Bad \in SUBSET Nat
    BY DEF Bad
  <2>2. Bad # {} => \E n \in Bad : \A i \in Bad : n <= i
    BY <2>1, Smallest
  <2> QED BY <1>1, <2>1, <2>2
<1>3. ASSUME NEW s \in SUBSET S PROVE Fine(s)
  <2>1. Cardinality(s) \in Nat
    BY FS_Subset, FS_CardinalityType
  <2> QED BY <1>2, <2>1
<1> QED BY <1>3 DEF AddsUp

\* The sum depends on the values at the elements alone.
LEMMA SumSame ==
  ASSUME NEW S, IsFiniteSet(S), NEW f, NEW g, SumOver(f, g, S),
         NEW T, Within(T, S),
         NEW h, NEW e, SumOver(h, e, T), Agree(g, e, T)
  PROVE  Meet(f, h, T)
<1> DEFINE Bad == {n \in Nat : \E s \in SUBSET T : Cardinality(s) = n /\ f[s] # h[s]}
<1>0. IsFiniteSet(T)
  BY FS_Subset DEF Within
<1>1. ASSUME NEW n \in Bad PROVE \E i \in Bad : i < n
  <2>1. PICK s \in SUBSET T : Cardinality(s) = n /\ f[s] # h[s]
    OBVIOUS
  <2>2. s \in SUBSET S /\ s \in SUBSET T
    BY DEF Within
  <2>8. /\ s = {} => f[s] = 0 /\ h[s] = 0
        /\ s # {} => f[s] = g[First(s)] + f[s \ {First(s)}]
        /\ s # {} => h[s] = e[First(s)] + h[s \ {First(s)}]
    <3>1. \A u \in SUBSET S :
            /\ u = {} => f[u] = 0
            /\ u # {} => f[u] = g[First(u)] + f[u \ {First(u)}]
      BY SumStep, Zenon DEF SumOver
    <3>2. \A u \in SUBSET T :
            /\ u = {} => h[u] = 0
            /\ u # {} => h[u] = e[First(u)] + h[u \ {First(u)}]
      BY SumStep, Zenon DEF SumOver
    <3> QED BY <2>2, <3>1, <3>2, Zenon
  <2>3. s # {}
    BY <2>1, <2>8
  <2> DEFINE c == First(s)
  <2>4. c \in s /\ f[s] = g[c] + f[s \ {c}] /\ h[s] = e[c] + h[s \ {c}]
    BY <2>3, <2>8, FirstIn
  <2> HIDE DEF c
  <2>5. g[c] = e[c]
    BY <2>4 DEF Agree
  <2>6. f[s \ {c}] # h[s \ {c}]
    BY <2>1, <2>4, <2>5
  <2>7. /\ s \ {c} \in SUBSET T /\ Cardinality(s \ {c}) \in Nat
        /\ Cardinality(s \ {c}) < n
    <3>1. IsFiniteSet(s)
      BY <1>0, FS_Subset
    <3>2. /\ Cardinality(s) \in Nat /\ Cardinality(s \ {c}) \in Nat
          /\ Cardinality(s \ {c}) = Cardinality(s) - 1
      BY <2>4, <3>1, OneLess, Zenon
    <3> QED BY <2>1, <3>2
  <2> QED BY <2>6, <2>7
<1>2. Bad = {}
  <2> HIDE DEF Bad
  <2>1. Bad \in SUBSET Nat
    BY DEF Bad
  <2>2. Bad # {} => \E n \in Bad : \A i \in Bad : n <= i
    BY <2>1, Smallest
  <2> QED BY <1>1, <2>1, <2>2
<1>3. Cardinality(T) \in Nat
  BY <1>0, FS_CardinalityType
<1> QED BY <1>2, <1>3 DEF Meet

\* The sum over a finite set: an element more adds its value.
LEMMA SumAdds ==
  ASSUME NEW S, IsFiniteSet(S), NEW g, NEW e, Numbers(g, S),
         NEW y \in S, Agree(g, e, S \ {y})
  PROVE  /\ SumOf(g, S) \in Int /\ SumOf(e, S \ {y}) \in Int
         /\ SumOf(g, S) = g[y] + SumOf(e, S \ {y})
<1> DEFINE T == S \ {y}
           f == CHOOSE q : IsSum(q, g, SUBSET S)
           h == CHOOSE q : IsSum(q, e, SUBSET T)
<1>1. T \in SUBSET S /\ IsFiniteSet(T) /\ Agree(g, e, T)
  BY FS_Subset
<1>2. IsSum(f, g, SUBSET S)
  BY SumExists
<1>3. IsSum(h, e, SUBSET T)
  <2> HIDE DEF T
  <2> QED BY <1>1, SumExists
<1>4. SumOf(g, S) = f[S] /\ SumOf(e, S \ {y}) = h[T]
  BY DEF SumOf
<1> HIDE DEF f, h
<1>5. f[S] \in Int /\ f[T] \in Int /\ f[S] = g[y] + f[T]
  <2>1. AddsUp(f, g, S)
    BY <1>2, SumAny, Zenon
  <2> QED BY <2>1 DEF AddsUp
<1> HIDE DEF T
<1>6. f[T] = h[T]
  <2>1. SumOver(f, g, S) /\ SumOver(h, e, T) /\ Within(T, S) /\ Agree(g, e, T)
    BY <1>1, <1>2, <1>3 DEF SumOver, Within
  <2>2. Meet(f, h, T)
    BY <1>1, <2>1, SumSame, Zenon
  <2> QED BY <2>2 DEF Meet
<1> QED BY <1>4, <1>5, <1>6

\* The same values, the same sum.
LEMMA SumKept ==
  ASSUME NEW S, IsFiniteSet(S), NEW g, NEW e, Numbers(g, S), Agree(g, e, S)
  PROVE  SumOf(g, S) \in Int /\ SumOf(g, S) = SumOf(e, S)
<1> DEFINE f == CHOOSE q : IsSum(q, g, SUBSET S)
           h == CHOOSE q : IsSum(q, e, SUBSET S)
<1>1. IsSum(f, g, SUBSET S) /\ IsSum(h, e, SUBSET S)
  BY SumExists
<1>2. SumOf(g, S) = f[S] /\ SumOf(e, S) = h[S]
  BY DEF SumOf
<1> HIDE DEF f, h
<1>3. f[S] \in Int
  <2>1. AddsUp(f, g, S)
    BY <1>1, SumAny, Zenon
  <2> QED BY <2>1 DEF AddsUp
<1>4. f[S] = h[S]
  <2>1. SumOver(f, g, S) /\ SumOver(h, e, S) /\ Within(S, S)
    BY <1>1 DEF SumOver, Within
  <2>2. Meet(f, h, S)
    BY <2>1, SumSame, Zenon
  <2> QED BY <2>2 DEF Meet
<1> QED BY <1>2, <1>3, <1>4

LEMMA SumEmpty == ASSUME NEW g PROVE SumOf(g, {}) = 0
<1> DEFINE f == CHOOSE q : IsSum(q, g, SUBSET {})
<1>1. IsSum(f, g, SUBSET {})
  <2>1. \E q : IsSum(q, g, SUBSET {})
    BY SumExists, FS_EmptySet, Zenon
  <2> QED BY <2>1, Zenon
<1>2. f[{}] = 0
  <2> HIDE DEF f
  <2>1. {} \in SUBSET {}
    OBVIOUS
  <2> QED BY <1>1, <2>1, SumStep, Zenon
<1> QED BY <1>2 DEF SumOf

-----------------------------------------------------------------------------
(* Sets of virtual CPUs *)

\* The processes are finitely many.
LEMMA UsedFinite ==
  ASSUME NEW s
  PROVE  /\ Used(s) \subseteq Cpus /\ IsFiniteSet(Used(s))
         /\ Cardinality(Used(s)) \in Nat
<1>1. IsFiniteSet(Cpus)
  BY TaskmanAssumption, FS_Interval DEF Cpus
<1>2. Used(s) \subseteq Cpus
  BY DEF Used
<1> QED BY <1>1, <1>2, FS_Subset, FS_CardinalityType

\* A set of slots that is not empty has a first one.
LEMMA FirstFree ==
  ASSUME NEW S \in SUBSET Cpus, S # {}
  PROVE  Min(S) \in S
<1>1. S \subseteq Nat
  BY TaskmanAssumption DEF Cpus
<1>2. \E x \in S : \A y \in S : x <= y
  BY <1>1, Smallest
<1> QED BY <1>2 DEF Min

-----------------------------------------------------------------------------
(* The operators on the task manager's state *)

LEMMA IdleType == Idle \in Slot /\ ~ Idle.used
BY DEF Idle, Slot

\* A slot is emptied and one more process counts as killed.
LEMMA ReapGood ==
  ASSUME NEW s, Good(s), NEW x \in Used(s)
  PROVE  /\ Good(Reap(s, x)) /\ Missing(Reap(s, x)) = Missing(s)
         /\ Reap(s, x).top_cpu = s.top_cpu
         /\ Free(Reap(s, x)) = Free(s) \cup {x}
<1> DEFINE t == Reap(s, x)
<1>1. s \in State /\ x \in Cpus /\ s.cpu[x] \in Slot
  BY DEF Good, State, Used
<1>2. /\ t \in State
      /\ t.cpu = [s.cpu EXCEPT ![x] = Idle]
      /\ t.exec_cnt = s.exec_cnt /\ t.exit_proc = s.exit_proc
      /\ t.killed_proc = s.killed_proc + 1 /\ t.died_proc = s.died_proc
      /\ t.top_cpu = s.top_cpu
  <2>1. /\ t.cpu = [s.cpu EXCEPT ![x] = Idle] /\ t.dead = s.dead
        /\ t.exec_cnt = s.exec_cnt /\ t.exit_proc = s.exit_proc
        /\ t.killed_proc = s.killed_proc + 1 /\ t.died_proc = s.died_proc
        /\ t.top_cpu = s.top_cpu
        /\ t.used_memory = s.used_memory - s.cpu[x].mem
        /\ t.used_bytecode = s.used_bytecode - s.cpu[x].size
    BY <1>1 DEF Reap, State
  <2>2. s.cpu[x].mem \in Nat /\ s.cpu[x].size \in Nat
    BY <1>1 DEF Slot
  <2>3. /\ [s.cpu EXCEPT ![x] = Idle] \in [Cpus -> Slot]
        /\ s.killed_proc + 1 \in Int
        /\ s.used_memory - s.cpu[x].mem \in Int
        /\ s.used_bytecode - s.cpu[x].size \in Int
    BY <1>1, <2>2, IdleType DEF State
  <2> QED BY <1>1, <2>1, <2>3 DEF Reap, State
<1>3. Used(t) = Used(s) \ {x}
  BY <1>1, <1>2, IdleType DEF Used, State
<1>4. Cardinality(Used(t)) = Cardinality(Used(s)) - 1
  BY <1>3, UsedFinite, FS_RemoveElement
<1>5. Missing(t) = Missing(s)
  BY <1>1, <1>2, <1>4, UsedFinite DEF Missing, State
<1>6. Good(t)
  BY <1>2, <1>3 DEF Good
<1>7. Free(t) = Free(s) \cup {x}
  BY <1>1, <1>3 DEF Free, Used
<1> QED BY <1>2, <1>5, <1>6, <1>7

\* A free slot is filled and one more execution counted.
LEMMA PlaceGood ==
  ASSUME NEW s, Good(s), NEW x \in Free(s), x <= s.top_cpu,
         NEW img \in Images, NEW mode, NEW outcome
  PROVE  LET t == Place(s, x, img, mode, outcome) IN
         Good(t) /\ Missing(t) = Missing(s) /\ x \in Used(t)
<1> DEFINE t == Place(s, x, img, mode, outcome)
<1>1. s \in State /\ x \in Cpus
  BY DEF Good, Free
<1>2. img \in [init_IP : Nat, bytesize : Nat, datasize : Nat, debug : BOOLEAN]
  BY TaskmanAssumption
<1> DEFINE
      h == img.debug /\ ~ Debugging(mode) /\ s.dead[x]
      c == [Idle EXCEPT
              !.used = TRUE,
              !.debug = img.debug \/ Debugging(mode),
              !.inherited = h,
              !.IP = IF outcome \in {"no_memory", "bad_code", "loaded"}
                     THEN img.init_IP ELSE 0,
              !.size = IF outcome \in {"no_memory", "bad_code", "loaded"}
                       THEN img.bytesize ELSE 0,
              !.mem = IF outcome \in {"bad_code", "loaded"}
                      THEN img.datasize ELSE 0,
              !.respawn = IF mode = "respawn" /\ outcome = "loaded"
                          THEN img ELSE NoImage]
      d == Marks(mode, s.dead[x])
      b == IF outcome \in {"bad_code", "loaded"}
           THEN s.used_bytecode + img.bytesize ELSE s.used_bytecode
      m == IF outcome = "loaded"
           THEN s.used_memory + img.datasize ELSE s.used_memory
      sb == IF outcome = "no_memory"
            THEN s.short_bytecode + img.bytesize ELSE s.short_bytecode
      sm == IF outcome = "bad_code"
            THEN s.short_memory + img.datasize ELSE s.short_memory
<1>3. d \in BOOLEAN /\ h \in BOOLEAN /\ Debugging(mode) \in BOOLEAN
  BY <1>1, <1>2 DEF Marks, State, Debugging
<1>4. c \in Slot /\ c.used
  BY <1>2, <1>3 DEF Idle, Slot
<1>5. t = [s EXCEPT !.exec_cnt = @ + 1, !.dead[x] = d, !.used_bytecode = b,
                    !.used_memory = m, !.short_bytecode = sb, !.short_memory = sm,
                    !.cpu[x] = c]
  BY DEF Place
<1>6. /\ t \in State
      /\ t.cpu = [s.cpu EXCEPT ![x] = c] /\ t.top_cpu = s.top_cpu
      /\ t.exec_cnt = s.exec_cnt + 1 /\ t.exit_proc = s.exit_proc
      /\ t.killed_proc = s.killed_proc /\ t.died_proc = s.died_proc
  <2>1. /\ [s.cpu EXCEPT ![x] = c] \in [Cpus -> Slot]
        /\ [s.dead EXCEPT ![x] = d] \in [Cpus -> BOOLEAN]
        /\ s.exec_cnt + 1 \in Nat /\ b \in Int /\ m \in Int
        /\ sb \in Nat /\ sm \in Nat
    BY <1>1, <1>2, <1>3, <1>4 DEF State
  <2> HIDE DEF c, d, b, m, sb, sm, t
  <2> QED BY <1>1, <1>5, <2>1 DEF State
<1> HIDE DEF c, d, b, m, sb, sm
<1>7. Used(t) = Used(s) \cup {x} /\ x \notin Used(s)
  BY <1>1, <1>4, <1>6 DEF Used, Free, State
<1>8. Cardinality(Used(t)) = Cardinality(Used(s)) + 1
  BY <1>7, UsedFinite, FS_AddElement
<1>9. Missing(t) = Missing(s)
  BY <1>1, <1>6, <1>8, UsedFinite DEF Missing, State
<1>10. Good(t)
  BY <1>6, <1>7 DEF Good
<1> QED BY <1>7, <1>9, <1>10

\* top_cpu is raised to the slot that is filled next.
LEMMA RaiseGood ==
  ASSUME NEW s, Good(s), NEW x \in Cpus
  PROVE  LET t == Raise(s, x) IN
         /\ Good(t) /\ Missing(t) = Missing(s)
         /\ Free(t) = Free(s) /\ x <= t.top_cpu
<1> DEFINE t == Raise(s, x)
<1>1. s \in State /\ Cpus \subseteq Nat
  BY TaskmanAssumption DEF Good, Cpus
<1>2. t \in State /\ x <= t.top_cpu /\ s.top_cpu <= t.top_cpu
  BY <1>1 DEF Raise, State
<1>3. /\ t.cpu = s.cpu /\ t.exec_cnt = s.exec_cnt /\ t.exit_proc = s.exit_proc
      /\ t.killed_proc = s.killed_proc /\ t.died_proc = s.died_proc
  BY <1>1 DEF Raise, State
<1>4. Used(t) = Used(s)
  BY <1>3 DEF Used
<1>5. Missing(t) = Missing(s)
  BY <1>3, <1>4 DEF Missing
<1>6. Good(t)
  <2>1. s.top_cpu \in Nat /\ t.top_cpu \in Nat
    BY <1>1, <1>2 DEF State
  <2>2. \A y \in Used(t) : y \in Nat /\ y <= s.top_cpu
    BY <1>1, <1>4, UsedFinite DEF Good
  <2> QED BY <1>2, <2>1, <2>2 DEF Good
<1> QED BY <1>2, <1>4, <1>5, <1>6 DEF Free

\* load_image, however it ends
LEMMA LoadGood ==
  ASSUME NEW s, Good(s), NEW img \in Images, NEW mode, NEW outcome
  PROVE  LET t == Load(s, img, mode, outcome) IN
         Good(t) /\ Missing(t) = Missing(s)
<1>1. CASE Free(s) = {}
  BY <1>1 DEF Load
<1>2. CASE Free(s) # {}
  <2> DEFINE x == Min(Free(s))
             t == Raise(s, x)
             placed == Place(t, x, img, mode, outcome)
  <2>1. x \in Free(s) /\ x \in Cpus
    BY <1>2, FirstFree DEF Free
  <2>2. /\ Good(t) /\ Missing(t) = Missing(s)
        /\ x \in Free(t) /\ x <= t.top_cpu
    BY <2>1, RaiseGood
  <2>3. Good(placed) /\ Missing(placed) = Missing(s) /\ x \in Used(placed)
    BY <2>2, PlaceGood
  <2>4. Good(Reap(placed, x)) /\ Missing(Reap(placed, x)) = Missing(s)
    BY <2>3, ReapGood
  <2>5. Load(s, img, mode, outcome) \in {t, placed, Reap(placed, x)}
    BY <1>2 DEF Load
  <2> QED BY <2>2, <2>3, <2>4, <2>5
<1> QED BY <1>1, <1>2

\* destroy_task, with the reload of a process in respawn mode
LEMMA DestroyGood ==
  ASSUME NEW s, Good(s), NEW x \in Used(s), NEW outcome
  PROVE  LET t == DestroyTask(s, x, outcome) IN
         Good(t) /\ Missing(t) = Missing(s)
<1>1. Good(Reap(s, x)) /\ Missing(Reap(s, x)) = Missing(s)
  BY ReapGood
<1>2. CASE Reloads(s, x)
  <2>1. s.cpu[x] \in Slot
    BY DEF Good, State, Used
  <2>2. s.cpu[x].respawn \in Images
    BY <1>2, <2>1 DEF Reloads, Slot
  <2> QED BY <1>1, <1>2, <2>2, LoadGood DEF DestroyTask
<1> QED BY <1>1, <1>2 DEF DestroyTask

\* The correction of the counters after destroy_task.
LEMMA DiedGood ==
  ASSUME NEW s, Good(s)
  PROVE  /\ Good(Died(s)) /\ Missing(Died(s)) = Missing(s)
         /\ Died(s).cpu = s.cpu
<1> DEFINE t == Died(s)
<1>1. s \in State
  BY DEF Good
<1>2. s.died_proc + 1 \in Int /\ s.killed_proc - 1 \in Int
  BY <1>1 DEF State
<1>3. /\ t \in State /\ t.cpu = s.cpu /\ t.top_cpu = s.top_cpu
      /\ t.exec_cnt = s.exec_cnt /\ t.exit_proc = s.exit_proc
      /\ t.died_proc = s.died_proc + 1 /\ t.killed_proc = s.killed_proc - 1
  BY <1>1, <1>2 DEF Died, State
<1>4. Used(t) = Used(s)
  BY <1>3 DEF Used
<1>5. Missing(t) = Missing(s)
  BY <1>1, <1>3, <1>4, UsedFinite DEF Missing, State
<1> QED BY <1>3, <1>4, <1>5 DEF Good

\* A step that changes the contents of one slot in use, and no counter of
\* processes.
LEMMA SlotGood ==
  ASSUME NEW s, Good(s), NEW x \in Used(s), NEW c \in Slot, c.used,
         NEW t \in State, t.cpu = [s.cpu EXCEPT ![x] = c],
         t.top_cpu = s.top_cpu, t.exec_cnt = s.exec_cnt,
         t.exit_proc = s.exit_proc, t.killed_proc = s.killed_proc,
         t.died_proc = s.died_proc
  PROVE  Good(t) /\ Missing(t) = Missing(s) /\ Used(t) = Used(s)
<1>1. s \in State /\ x \in Cpus /\ s.cpu[x].used
  BY DEF Good, Used
<1>2. Used(t) = Used(s)
  BY <1>1 DEF Used, State
<1>3. Missing(t) = Missing(s)
  BY <1>2 DEF Missing
<1> QED BY <1>2, <1>3 DEF Good

\* The contents of a slot in use.
LEMMA SlotType ==
  ASSUME NEW s, Good(s), NEW x \in Used(s)
  PROVE  s \in State /\ x \in Cpus /\ s.cpu[x] \in Slot /\ s.cpu[x].used
BY DEF Good, Used, State

\* do_cycles adds to IP, or an outer non_fatal clears it, after the fact.
LEMMA AfterwardsGood ==
  ASSUME NEW s, Good(s), NEW x \in Cpus, NEW ip \in Nat
  PROVE  LET t == Afterwards(s, x, ip) IN
         Good(t) /\ Missing(t) = Missing(s)
<1>1. CASE ~ s.cpu[x].used
  BY <1>1 DEF Afterwards
<1>2. CASE s.cpu[x].used
  <2> DEFINE t == [s EXCEPT !.cpu[x].IP = ip]
             c == [s.cpu[x] EXCEPT !.IP = ip]
  <2>1. x \in Used(s)
    BY <1>2 DEF Used
  <2>2. c \in Slot /\ c.used
    BY <2>1, SlotType DEF Slot
  <2>3. s \in State /\ x \in Cpus /\ t = [s EXCEPT !.cpu[x] = c]
    BY <2>1, SlotType
  <2>4. [s.cpu EXCEPT ![x] = c] \in [Cpus -> Slot]
    BY <2>2, <2>3 DEF State
  <2> HIDE DEF c
  <2>5. /\ t \in State /\ t.cpu = [s.cpu EXCEPT ![x] = c]
        /\ t.top_cpu = s.top_cpu /\ t.exec_cnt = s.exec_cnt
        /\ t.exit_proc = s.exit_proc /\ t.died_proc = s.died_proc
        /\ t.killed_proc = s.killed_proc
    BY <2>3, <2>4 DEF State
  <2> HIDE DEF t
  <2>6. Good(t) /\ Missing(t) = Missing(s)
    BY <2>1, <2>2, <2>5, SlotGood
  <2> QED BY <1>2, <2>6 DEF Afterwards, t, c
<1> QED BY <1>1, <1>2

\* An exception that nothing handles, in debug mode or not.
LEMMA UnhandledGood ==
  ASSUME NEW s, Good(s), NEW x \in Used(s), NEW outcome
  PROVE  LET t == Unhandled(s, x, outcome) IN
         Good(t) /\ Missing(t) = Missing(s)
<1>1. CASE ~ s.cpu[x].debug
  BY <1>1, DestroyGood, DiedGood DEF Unhandled
<1>2. CASE s.cpu[x].debug
  <2> DEFINE t == Trap(s, x)
             c == [s.cpu[x] EXCEPT !.stopped = TRUE, !.over = TRUE]
  <2>1. c \in Slot /\ c.used
    BY SlotType DEF Slot
  <2>2. /\ s \in State /\ x \in Cpus
        /\ t = [s EXCEPT !.dead[x] = TRUE, !.cpu[x] = c]
    BY SlotType DEF Trap
  <2> HIDE DEF c
  <2>3. [s.cpu EXCEPT ![x] = c] \in [Cpus -> Slot]
    BY <2>1, <2>2 DEF State
  <2>4. [s.dead EXCEPT ![x] = TRUE] \in [Cpus -> BOOLEAN]
    BY <2>2 DEF State
  <2>5. /\ t \in State /\ t.cpu = [s.cpu EXCEPT ![x] = c]
        /\ t.top_cpu = s.top_cpu /\ t.exec_cnt = s.exec_cnt
        /\ t.exit_proc = s.exit_proc /\ t.died_proc = s.died_proc
        /\ t.killed_proc = s.killed_proc
    BY <2>2, <2>3, <2>4 DEF State
  <2> HIDE DEF t
  <2>6. Good(t) /\ Missing(t) = Missing(s)
    BY <2>1, <2>5, SlotGood
  <2> QED BY <1>2, <2>6, DiedGood DEF Unhandled, t, c
<1> QED BY <1>1, <1>2

-----------------------------------------------------------------------------
(* The actions *)

\* What a step has to show: the state stays good and nothing goes missing.
LEMMA Balanced ==
  ASSUME IInv, Good(k'), Missing(k') + trapped' = 0, trapped' \in Nat,
         curr' \in Cpus \cup {NoCpu}, but_in_fact_it_was_fatal' \in BOOLEAN
  PROVE  IInv'
BY DEF IInv, Good, Missing, Used, State

LEMMA LoadImagePreserves == ASSUME IInv, LoadImage PROVE IInv'
<1>1. PICK img \in Images, mode \in {"plain", "respawn", "debug"},
           outcome \in Outcomes : k' = Load(k, img, mode, outcome)
  BY DEF LoadImage
<1>2. Good(k') /\ Missing(k') = Missing(k)
  BY <1>1, LoadGood DEF IInv
<1> QED BY <1>2, Balanced DEF LoadImage, IInv

\* A process in debug mode is counted as killed while it stays: trapped
\* makes up for it.
LEMMA ConsoleKillPreserves ==
  ASSUME IInv, NEW x \in Cpus, ConsoleKill(x)
  PROVE  IInv'
<1>1. x \in Used(k) /\ Good(k)
  BY DEF ConsoleKill, Used, IInv
<1>2. CASE ~ k.cpu[x].debug
  <2>1. Good(k') /\ Missing(k') = Missing(k)
    BY <1>1, <1>2, ReapGood DEF ConsoleKill
  <2> QED BY <1>2, <2>1, Balanced DEF ConsoleKill, IInv
<1>3. CASE k.cpu[x].debug
  <2> DEFINE c == [k.cpu[x] EXCEPT !.stopped = TRUE, !.over = TRUE]
             t == [k EXCEPT !.dead[x] = TRUE, !.cpu[x] = c]
  <2>1. c \in Slot /\ c.used
    BY <1>1, SlotType DEF Slot
  <2>2. /\ k' = [k EXCEPT !.killed_proc = @ + 1, !.dead[x] = TRUE,
                          !.cpu[x] = c]
        /\ trapped' = trapped + 1
    BY <1>1, <1>3, SlotType DEF ConsoleKill, Trap, State
  <2> HIDE DEF c
  <2>3. /\ [k.cpu EXCEPT ![x] = c] \in [Cpus -> Slot]
        /\ [k.dead EXCEPT ![x] = TRUE] \in [Cpus -> BOOLEAN]
        /\ k.killed_proc + 1 \in Int
    BY <1>1, <2>1, SlotType DEF State
  <2>4. /\ t \in State /\ t.cpu = [k.cpu EXCEPT ![x] = c]
        /\ t.top_cpu = k.top_cpu /\ t.exec_cnt = k.exec_cnt
        /\ t.exit_proc = k.exit_proc /\ t.died_proc = k.died_proc
        /\ t.killed_proc = k.killed_proc
    <3>1. t \in State
      <4> DEFINE cpus == [k.cpu EXCEPT ![x] = c]
                 dead == [k.dead EXCEPT ![x] = TRUE]
      <4>1. k \in State /\ t = [k EXCEPT !.dead = dead, !.cpu = cpus]
        BY <1>1, SlotType DEF State
      <4>2. cpus \in [Cpus -> Slot] /\ dead \in [Cpus -> BOOLEAN]
        BY <2>3
      <4> HIDE DEF cpus, dead
      <4> DEFINE u == [k EXCEPT !.dead = dead]
      <4>3. u \in State
        BY <4>1, <4>2, SMTT(30) DEF State
      <4>4. t = [u EXCEPT !.cpu = cpus]
        BY <4>1, Zenon
      <4> HIDE DEF u, t
      <4> QED BY <4>2, <4>3, <4>4, SMTT(30) DEF State
    <3>2. t.cpu = [k.cpu EXCEPT ![x] = c] /\ t.top_cpu = k.top_cpu
      BY <1>1, SlotType DEF State
    <3>3. /\ t.exec_cnt = k.exec_cnt
          /\ t.exit_proc = k.exit_proc /\ t.died_proc = k.died_proc
          /\ t.killed_proc = k.killed_proc
      BY <1>1, SlotType DEF State
    <3> QED BY <3>1, <3>2, <3>3
  <2>5. /\ k' \in State /\ k'.cpu = t.cpu
        /\ k'.top_cpu = k.top_cpu /\ k'.exec_cnt = k.exec_cnt
        /\ k'.exit_proc = k.exit_proc /\ k'.died_proc = k.died_proc
        /\ k'.killed_proc = k.killed_proc + 1
    BY <1>1, <2>2, <2>3, <2>4, SlotType DEF State
  <2> HIDE DEF t
  <2>6. Good(t) /\ Missing(t) = Missing(k) /\ Used(t) = Used(k)
    BY <1>1, <2>1, <2>4, SlotGood
  <2>7. Used(k') = Used(k)
    BY <2>5, <2>6 DEF Used
  <2>8. Missing(k') = Missing(k) - 1
    BY <1>1, <2>5, <2>7, UsedFinite DEF Missing, Good, State
  <2>9. Good(k')
    BY <1>1, <2>5, <2>7 DEF Good
  <2> QED BY <2>2, <2>8, <2>9, <1>1, UsedFinite, Balanced
          DEF ConsoleKill, IInv, Missing, Good, State
<1> QED BY <1>2, <1>3

\* A step that writes one slot in use, and perhaps the memory total.
LEMMA SlotStep ==
  ASSUME IInv, NEW x \in Cpus, k.cpu[x].used, NEW c \in Slot, c.used,
         NEW m \in Int, k' = [k EXCEPT !.cpu[x] = c, !.used_memory = m]
  PROVE  Good(k') /\ Missing(k') = Missing(k)
<1>1. x \in Used(k) /\ Good(k) /\ k \in State
  BY DEF Used, IInv, Good
<1>2. [k.cpu EXCEPT ![x] = c] \in [Cpus -> Slot]
  BY <1>1 DEF State
<1>3. /\ k' \in State /\ k'.cpu = [k.cpu EXCEPT ![x] = c]
      /\ k'.top_cpu = k.top_cpu /\ k'.exec_cnt = k.exec_cnt
      /\ k'.exit_proc = k.exit_proc /\ k'.died_proc = k.died_proc
      /\ k'.killed_proc = k.killed_proc
  BY <1>1, <1>2 DEF State
<1>4. \A t \in State :
        /\ t.cpu = [k.cpu EXCEPT ![x] = c]
        /\ t.top_cpu = k.top_cpu /\ t.exec_cnt = k.exec_cnt
        /\ t.exit_proc = k.exit_proc /\ t.died_proc = k.died_proc
        /\ t.killed_proc = k.killed_proc
        => Good(t) /\ Missing(t) = Missing(k)
  BY <1>1, SlotGood
<1> QED BY <1>3, <1>4

\* The same without the memory total.
LEMMA ContentsStep ==
  ASSUME IInv, NEW x \in Cpus, k.cpu[x].used, NEW c \in Slot, c.used,
         k' = [k EXCEPT !.cpu[x] = c]
  PROVE  Good(k') /\ Missing(k') = Missing(k)
<1>1. k \in State /\ k.used_memory \in Int
  BY DEF IInv, Good, State
<1>2. k' = [k EXCEPT !.cpu[x] = c, !.used_memory = k.used_memory]
  BY <1>1 DEF State
<1> QED BY <1>1, <1>2, SlotStep

\* Stopping, resuming and running a process
LEMMA StopPreserves ==
  ASSUME IInv, NEW x \in Cpus, k.cpu[x].used, NEW b \in BOOLEAN,
         k' = [k EXCEPT !.cpu[x].stopped = b],
         UNCHANGED <<curr, but_in_fact_it_was_fatal, trapped>>
  PROVE  IInv'
<1> DEFINE c == [k.cpu[x] EXCEPT !.stopped = b]
<1>1. c \in Slot /\ c.used /\ k' = [k EXCEPT !.cpu[x] = c]
  BY DEF IInv, Good, State, Slot
<1> HIDE DEF c
<1>2. Good(k') /\ Missing(k') = Missing(k)
  BY <1>1, ContentsStep
<1> QED BY <1>2, Balanced DEF IInv

LEMMA StepPreserves ==
  ASSUME IInv, NEW x \in Cpus, Step(x)
  PROVE  IInv'
<1>1. PICK ip \in Targets(x) : k' = [k EXCEPT !.cpu[x].IP = ip]
  BY DEF Step
<1> DEFINE c == [k.cpu[x] EXCEPT !.IP = ip]
<1>2. k.cpu[x].used /\ k.cpu[x] \in Slot
  BY DEF Step, Fetches, Running, IInv, Good, State
<1>3. c \in Slot /\ c.used /\ k' = [k EXCEPT !.cpu[x] = c]
  BY <1>1, <1>2 DEF Targets, Slot
<1> HIDE DEF c
<1>4. Good(k') /\ Missing(k') = Missing(k)
  BY <1>2, <1>3, ContentsStep
<1> QED BY <1>4, Balanced DEF IInv, Step

\* ALLOC and DEALLOC
LEMMA MemoryPreserves ==
  ASSUME IInv, NEW x \in Cpus, Alloc(x) \/ Dealloc(x)
  PROVE  IInv'
<1>1. k.cpu[x].used /\ k.cpu[x] \in Slot /\ k \in State
  BY DEF Alloc, Dealloc, Fetches, Running, IInv, Good, State
<1>2. PICK n \in Int : k.cpu[x].mem + n \in Nat /\ Gains(x, n)
  <2>1. CASE Alloc(x)
    <3>1. PICK n \in BlockSizes : Gains(x, n)
      BY <2>1 DEF Alloc
    <3>2. n \in Int /\ k.cpu[x].mem + n \in Nat
      BY <1>1, TaskmanAssumption DEF Slot
    <3> QED BY <3>1, <3>2
  <2>2. CASE Dealloc(x)
    <3>1. PICK n \in BlockSizes : n <= k.cpu[x].mem /\ Gains(x, - n)
      BY <2>2 DEF Dealloc, Allocated
    <3>2. - n \in Int /\ k.cpu[x].mem + (- n) \in Nat
      BY <1>1, <3>1, TaskmanAssumption DEF Slot
    <3> QED BY <3>1, <3>2
  <2> QED BY <2>1, <2>2
<1> DEFINE c == [k.cpu[x] EXCEPT !.mem = @ + n, !.IP = @ + 1]
           m == k.used_memory + n
<1>3. c \in Slot /\ c.used /\ m \in Int
  <2>1. k.cpu[x].IP + 1 \in Nat /\ m \in Int
    BY <1>1 DEF Slot, State
  <2>2. c = [[k.cpu[x] EXCEPT !.mem = k.cpu[x].mem + n]
               EXCEPT !.IP = k.cpu[x].IP + 1]
    BY <1>1 DEF Slot
  <2> QED BY <1>1, <1>2, <2>1, <2>2 DEF Slot
<1>4. k' = [k EXCEPT !.cpu[x] = c, !.used_memory = m]
  <2> DEFINE t == [k EXCEPT !.cpu[x] = c]
  <2>1. t.used_memory = k.used_memory
    BY <1>1 DEF State
  <2>2. k' = [t EXCEPT !.used_memory = t.used_memory + n]
    BY <1>2, Zenon DEF Gains
  <2>3. k' = [t EXCEPT !.used_memory = m]
    BY <2>1, <2>2, Zenon
  <2> QED BY <2>3, Zenon
<1> HIDE DEF c, m
<1>5. Good(k') /\ Missing(k') = Missing(k)
  BY <1>1, <1>3, <1>4, SlotStep
<1> QED BY <1>5, Balanced DEF IInv, Alloc, Dealloc

\* The end of a turn counts a work cycle and moves on.
LEMMA EndTurnPreserves == ASSUME IInv, EndTurn PROVE IInv'
<1>1. curr' \in Cpus \cup {NoCpu}
  <2>1. curr \in Cpus /\ k.top_cpu \in Cpus
    BY DEF EndTurn, IInv, Good, State
  <2>2. (curr' = curr + 1 /\ curr < k.top_cpu) \/ curr' = NoCpu
    BY DEF EndTurn
  <2> QED BY <2>1, <2>2, TaskmanAssumption DEF Cpus, NoCpu
<1>2. CASE k' = k
  BY <1>1, <1>2, Balanced DEF IInv, EndTurn
<1>3. CASE k.cpu[curr].used /\ k' = [k EXCEPT !.cpu[curr].work_cycles = @ + 1]
  <2> DEFINE c == [k.cpu[curr] EXCEPT !.work_cycles = @ + 1]
  <2>1. curr \in Cpus /\ k.cpu[curr] \in Slot
    BY DEF EndTurn, IInv, Good, State
  <2>2. c \in Slot /\ c.used /\ k' = [k EXCEPT !.cpu[curr] = c]
    BY <1>3, <2>1 DEF Slot
  <2> HIDE DEF c
  <2>3. Good(k') /\ Missing(k') = Missing(k)
    BY <1>3, <2>1, <2>2, ContentsStep
  <2> QED BY <1>1, <2>3, Balanced DEF IInv, EndTurn
<1> QED BY <1>2, <1>3 DEF EndTurn

\* HALT takes the kill that destroying counted back and counts an exit.
LEMMA HaltPreserves == ASSUME IInv, NEW x \in Cpus, Halt(x) PROVE IInv'
<1> DEFINE t == Reap(k, x)
<1>1. x \in Used(k) /\ Good(k)
  BY DEF Halt, Fetches, Running, Used, IInv
<1>2. Good(t) /\ Missing(t) = Missing(k)
  BY <1>1, ReapGood
<1>3. k' = [t EXCEPT !.killed_proc = @ - 1, !.exit_proc = @ + 1]
  BY DEF Halt
<1> HIDE DEF t
<1>4. t \in State /\ t.killed_proc - 1 \in Int /\ t.exit_proc + 1 \in Int
  BY <1>2 DEF Good, State
<1>5. /\ k' \in State /\ k'.cpu = t.cpu /\ k'.top_cpu = t.top_cpu
      /\ k'.exec_cnt = t.exec_cnt /\ k'.exit_proc = t.exit_proc + 1
      /\ k'.died_proc = t.died_proc /\ k'.killed_proc = t.killed_proc - 1
  BY <1>3, <1>4 DEF State
<1>6. Used(k') = Used(t)
  BY <1>5 DEF Used
<1>7. Missing(k') = Missing(t)
  BY <1>4, <1>5, <1>6, UsedFinite DEF Missing, State
<1>8. Good(k')
  BY <1>2, <1>5, <1>6 DEF Good
<1> QED BY <1>2, <1>7, <1>8, Balanced DEF IInv, Halt

\* An instruction's unhandled exception, with what is written afterwards.
LEMMA FatalPreserves == ASSUME IInv, NEW x \in Cpus, Fatal(x) PROVE IInv'
<1>1. x \in Used(k) /\ Good(k)
  BY DEF Fatal, Fetches, Running, Used, IInv
<1>2. PICK outcome \in Outcomes :
        LET t == Unhandled(k, x, outcome) IN
        \/ k' = Afterwards(t, x, t.cpu[x].IP + 1)
        \/ k' = Afterwards(t, x, 0)
  BY DEF Fatal
<1> DEFINE t == Unhandled(k, x, outcome)
<1>3. Good(t) /\ Missing(t) = Missing(k)
  BY <1>1, UnhandledGood
<1>4. k' = Afterwards(t, x, t.cpu[x].IP + 1) \/ k' = Afterwards(t, x, 0)
  BY <1>2
<1> HIDE DEF t
<1>5. t.cpu[x].IP + 1 \in Nat
  BY <1>3 DEF Good, State, Slot
<1>6. Good(k') /\ Missing(k') = Missing(t)
  BY <1>3, <1>4, <1>5, AfterwardsGood
<1>7. k.cpu[x].debug \in BOOLEAN
  BY <1>1, SlotType DEF Slot
<1> QED BY <1>3, <1>6, <1>7, Balanced DEF Fatal, IInv

\* The ways of dying that leave nothing to be written afterwards.
LEMMA DeathPreserves ==
  ASSUME IInv, NEW x \in Cpus, FatalOutside(x) \/ Signal(x) \/ DebugReap(x)
  PROVE  IInv'
<1>1. x \in Used(k) /\ Good(k)
  BY DEF FatalOutside, Signal, DebugReap, Fetches, Running, Used, IInv
<1>2. k.cpu[x].debug \in BOOLEAN
  BY <1>1, SlotType DEF Slot
<1>3. CASE FatalOutside(x)
  <2>1. Good(k') /\ Missing(k') = Missing(k)
    BY <1>1, <1>3, UnhandledGood DEF FatalOutside
  <2> QED BY <1>2, <1>3, <2>1, Balanced DEF FatalOutside, IInv
<1>4. CASE Signal(x)
  <2>1. Good(k') /\ Missing(k') = Missing(k)
    <3>1. PICK outcome \in Outcomes : k' = Died(DestroyTask(k, x, outcome))
      BY <1>4 DEF Signal
    <3> QED BY <1>1, <3>1, DestroyGood, DiedGood
  <2> QED BY <1>4, <2>1, Balanced DEF Signal, IInv
<1>5. CASE DebugReap(x)
  <2>1. Good(k') /\ Missing(k') = Missing(k)
    BY <1>1, <1>5, DestroyGood DEF DebugReap
  <2> QED BY <1>5, <2>1, Balanced DEF DebugReap, IInv
<1> QED BY <1>3, <1>4, <1>5

-----------------------------------------------------------------------------
(* What the processes hold *)

Held(s) == [x \in Cpus |-> s.cpu[x].mem]
Coded(s) == [x \in Cpus |-> s.cpu[x].size]

\* MemoryAddsUp of a state.
Even(s) ==
  /\ s.used_memory + s.short_memory = SumOf(Held(s), Used(s))
  /\ s.used_bytecode + s.short_bytecode = SumOf(Coded(s), Used(s))

\* The sums of the specification are the sums of the lemmas above.
LEMMA SumsAgree ==
  ASSUME NEW s
  PROVE  /\ MapThenSumSet(LAMBDA x : s.cpu[x].mem, Used(s)) = SumOf(Held(s), Used(s))
         /\ MapThenSumSet(LAMBDA x : s.cpu[x].size, Used(s)) = SumOf(Coded(s), Used(s))
<1>1. Used(s) \subseteq Cpus
  BY DEF Used
<1>2. MapThenSumSet(LAMBDA x : s.cpu[x].mem, Used(s)) = SumOf(Held(s), Used(s))
  BY <1>1, Zenon DEF MapThenSumSet, MapThenFoldSet, SumOf, IsSum, First, Held
<1>3. MapThenSumSet(LAMBDA x : s.cpu[x].size, Used(s)) = SumOf(Coded(s), Used(s))
  BY <1>1, Zenon DEF MapThenSumSet, MapThenFoldSet, SumOf, IsSum, First, Coded
<1> QED BY <1>2, <1>3

\* What slot x contributes to the two totals.
MemOf(s, x) == IF s.cpu[x].used THEN s.cpu[x].mem ELSE 0
CodeOf(s, x) == IF s.cpu[x].used THEN s.cpu[x].size ELSE 0

\* The sum is the contribution of a slot and the sum over the others.
LEMMA SlotApart ==
  ASSUME NEW s, Good(s), NEW t, NEW x \in Cpus,
         \A y \in Cpus \ {x} : t.cpu[y] = s.cpu[y]
  PROVE  /\ SumOf(Held(t), Used(s) \ {x}) \in Int /\ MemOf(s, x) \in Int
         /\ SumOf(Held(s), Used(s)) = MemOf(s, x) + SumOf(Held(t), Used(s) \ {x})
         /\ SumOf(Coded(t), Used(s) \ {x}) \in Int /\ CodeOf(s, x) \in Int
         /\ SumOf(Coded(s), Used(s)) = CodeOf(s, x) + SumOf(Coded(t), Used(s) \ {x})
<1> DEFINE U == Used(s)
           R == Used(s) \ {x}
<1>1. /\ IsFiniteSet(U) /\ IsFiniteSet(R) /\ U \subseteq Cpus
      /\ s \in State /\ s.cpu[x] \in Slot
  BY UsedFinite, FS_Subset DEF Good, State
<1>2. \A y \in Cpus : s.cpu[y].mem \in Nat /\ s.cpu[y].size \in Nat
  BY <1>1 DEF State, Slot
<1>3. /\ Numbers(Held(s), U) /\ Numbers(Coded(s), U)
      /\ Agree(Held(s), Held(t), R) /\ Agree(Coded(s), Coded(t), R)
  BY <1>1, <1>2 DEF Numbers, Agree, Held, Coded
<1>4. CASE s.cpu[x].used
  <2>1. x \in U
    BY <1>4 DEF Used
  <2>2. /\ SumOf(Held(t), R) \in Int
        /\ SumOf(Held(s), U) = Held(s)[x] + SumOf(Held(t), R)
    BY <1>1, <1>3, <2>1, SumAdds
  <2>3. /\ SumOf(Coded(t), R) \in Int
        /\ SumOf(Coded(s), U) = Coded(s)[x] + SumOf(Coded(t), R)
    BY <1>1, <1>3, <2>1, SumAdds
  <2> QED BY <1>2, <1>4, <2>2, <2>3 DEF MemOf, CodeOf, Held, Coded
<1>5. CASE ~ s.cpu[x].used
  <2>1. R = U
    BY <1>5 DEF Used
  <2> HIDE DEF R, U
  <2>2. SumOf(Held(s), U) \in Int /\ SumOf(Held(s), U) = SumOf(Held(t), R)
    BY <1>1, <1>3, <2>1, SumKept
  <2>3. SumOf(Coded(s), U) \in Int /\ SumOf(Coded(s), U) = SumOf(Coded(t), R)
    BY <1>1, <1>3, <2>1, SumKept
  <2> QED BY <1>5, <2>2, <2>3 DEF MemOf, CodeOf, R, U
<1> QED BY <1>4, <1>5

\* A change of one slot keeps the totals even if they change as the slot does.
LEMMA SlotEven ==
  ASSUME NEW s, Good(s), Even(s), NEW t, Good(t), NEW x \in Cpus,
         \A y \in Cpus \ {x} : t.cpu[y] = s.cpu[y],
         t.used_memory + t.short_memory
           = s.used_memory + s.short_memory + MemOf(t, x) - MemOf(s, x),
         t.used_bytecode + t.short_bytecode
           = s.used_bytecode + s.short_bytecode + CodeOf(t, x) - CodeOf(s, x)
  PROVE  Even(t)
<1>1. Used(s) \ {x} = Used(t) \ {x}
  BY DEF Used
<1> DEFINE R == Used(s) \ {x}
<1>2. /\ SumOf(Held(t), R) \in Int /\ MemOf(s, x) \in Int
      /\ SumOf(Held(s), Used(s)) = MemOf(s, x) + SumOf(Held(t), R)
      /\ SumOf(Coded(t), R) \in Int /\ CodeOf(s, x) \in Int
      /\ SumOf(Coded(s), Used(s)) = CodeOf(s, x) + SumOf(Coded(t), R)
  BY SlotApart
<1>3. /\ MemOf(t, x) \in Int /\ CodeOf(t, x) \in Int
      /\ SumOf(Held(t), Used(t)) = MemOf(t, x) + SumOf(Held(t), R)
      /\ SumOf(Coded(t), Used(t)) = CodeOf(t, x) + SumOf(Coded(t), R)
  <2>1. \A y \in Cpus \ {x} : t.cpu[y] = t.cpu[y]
    OBVIOUS
  <2> QED BY <1>1, <2>1, SlotApart
<1> HIDE DEF R
<1> QED BY <1>2, <1>3 DEF Even

\* A step that touches no slot and no total.
LEMMA SameEven ==
  ASSUME NEW s, Even(s), NEW t, t.cpu = s.cpu,
         t.used_memory = s.used_memory, t.short_memory = s.short_memory,
         t.used_bytecode = s.used_bytecode, t.short_bytecode = s.short_bytecode
  PROVE  Even(t)
BY DEF Even, Held, Coded, Used

LEMMA ReapEven ==
  ASSUME NEW s, Good(s), Even(s), NEW x \in Used(s)
  PROVE  Even(Reap(s, x))
<1> DEFINE t == Reap(s, x)
<1>1. s \in State /\ x \in Cpus /\ s.cpu[x] \in Slot /\ s.cpu[x].used
  BY SlotType
<1>2. /\ t.cpu = [s.cpu EXCEPT ![x] = Idle]
      /\ t.used_memory = s.used_memory - s.cpu[x].mem
      /\ t.used_bytecode = s.used_bytecode - s.cpu[x].size
      /\ t.short_memory = s.short_memory /\ t.short_bytecode = s.short_bytecode
  BY <1>1 DEF Reap, State
<1>3. Good(t)
  BY ReapGood
<1>4. MemOf(t, x) = 0 /\ CodeOf(t, x) = 0
  BY <1>1, <1>2, IdleType DEF State, MemOf, CodeOf
<1>5. MemOf(s, x) = s.cpu[x].mem /\ CodeOf(s, x) = s.cpu[x].size
  BY <1>1 DEF MemOf, CodeOf
<1>6. \A y \in Cpus \ {x} : t.cpu[y] = s.cpu[y]
  BY <1>1, <1>2 DEF State
<1>7. /\ s.cpu[x].mem \in Int /\ s.cpu[x].size \in Int
      /\ s.used_memory \in Int /\ s.used_bytecode \in Int
      /\ s.short_memory \in Int /\ s.short_bytecode \in Int
  BY <1>1 DEF State, Slot
<1> HIDE DEF t
<1>8. /\ t.used_memory + t.short_memory
           = s.used_memory + s.short_memory + MemOf(t, x) - MemOf(s, x)
      /\ t.used_bytecode + t.short_bytecode
           = s.used_bytecode + s.short_bytecode + CodeOf(t, x) - CodeOf(s, x)
  BY <1>2, <1>4, <1>5, <1>7
<1>9. Even(t)
  BY <1>1, <1>3, <1>6, <1>8, SlotEven
<1> QED BY <1>9 DEF t

\* Whatever load_image has added by the time it ends, the slot holds it or
\* short_memory and short_bytecode make up for it.
LEMMA PlaceEven ==
  ASSUME NEW s, Good(s), Even(s), NEW x \in Free(s), x <= s.top_cpu,
         NEW img \in Images, NEW mode, NEW outcome
  PROVE  Even(Place(s, x, img, mode, outcome))
<1> DEFINE t == Place(s, x, img, mode, outcome)
           sized == outcome \in {"no_memory", "bad_code", "loaded"}
           filled == outcome \in {"bad_code", "loaded"}
<1>1. s \in State /\ x \in Cpus /\ ~ s.cpu[x].used
  BY DEF Good, Free, Used
<1>2. img.bytesize \in Nat /\ img.datasize \in Nat
  BY TaskmanAssumption
<1>3. /\ t.used_bytecode = IF filled THEN s.used_bytecode + img.bytesize
                           ELSE s.used_bytecode
      /\ t.used_memory = IF outcome = "loaded" THEN s.used_memory + img.datasize
                         ELSE s.used_memory
      /\ t.short_bytecode = IF outcome = "no_memory"
                            THEN s.short_bytecode + img.bytesize
                            ELSE s.short_bytecode
      /\ t.short_memory = IF outcome = "bad_code"
                          THEN s.short_memory + img.datasize
                          ELSE s.short_memory
  BY <1>1 DEF Place, State
<1>4. /\ t.cpu[x].used
      /\ t.cpu[x].size = IF sized THEN img.bytesize ELSE 0
      /\ t.cpu[x].mem = IF filled THEN img.datasize ELSE 0
  BY <1>1 DEF Place, State, Idle
<1>5. \A y \in Cpus \ {x} : t.cpu[y] = s.cpu[y]
  BY <1>1 DEF Place, State
<1>6. Good(t)
  BY PlaceGood
<1>7. /\ s.used_memory \in Int /\ s.used_bytecode \in Int
      /\ s.short_memory \in Int /\ s.short_bytecode \in Int
  BY <1>1 DEF State
<1>8. MemOf(s, x) = 0 /\ CodeOf(s, x) = 0
  BY <1>1 DEF MemOf, CodeOf
<1>9. /\ MemOf(t, x) = IF filled THEN img.datasize ELSE 0
      /\ CodeOf(t, x) = IF sized THEN img.bytesize ELSE 0
  BY <1>4 DEF MemOf, CodeOf
<1> HIDE DEF t
<1>10. /\ t.used_memory + t.short_memory
            = s.used_memory + s.short_memory + MemOf(t, x) - MemOf(s, x)
       /\ t.used_bytecode + t.short_bytecode
            = s.used_bytecode + s.short_bytecode + CodeOf(t, x) - CodeOf(s, x)
  BY <1>2, <1>3, <1>7, <1>8, <1>9
<1>11. Even(t)
  BY <1>1, <1>5, <1>6, <1>10, SlotEven
<1> QED BY <1>11 DEF t

LEMMA RaiseEven ==
  ASSUME NEW s, Good(s), Even(s), NEW x \in Cpus
  PROVE  Even(Raise(s, x))
<1>1. s \in State
  BY DEF Good
<1>2. LET t == Raise(s, x) IN
      /\ t.cpu = s.cpu
      /\ t.used_memory = s.used_memory /\ t.short_memory = s.short_memory
      /\ t.used_bytecode = s.used_bytecode /\ t.short_bytecode = s.short_bytecode
  BY <1>1 DEF Raise, State
<1> QED BY <1>2, SameEven

LEMMA DiedEven ==
  ASSUME NEW s, Good(s), Even(s)
  PROVE  Even(Died(s))
<1>1. s \in State
  BY DEF Good
<1>2. LET t == Died(s) IN
      /\ t.cpu = s.cpu
      /\ t.used_memory = s.used_memory /\ t.short_memory = s.short_memory
      /\ t.used_bytecode = s.used_bytecode /\ t.short_bytecode = s.short_bytecode
  BY <1>1 DEF Died, State
<1> QED BY <1>2, SameEven

LEMMA LoadEven ==
  ASSUME NEW s, Good(s), Even(s), NEW img \in Images, NEW mode, NEW outcome
  PROVE  Even(Load(s, img, mode, outcome))
<1>1. CASE Free(s) = {}
  BY <1>1 DEF Load
<1>2. CASE Free(s) # {}
  <2> DEFINE x == Min(Free(s))
             t == Raise(s, x)
             placed == Place(t, x, img, mode, outcome)
  <2>1. x \in Free(s) /\ x \in Cpus
    BY <1>2, FirstFree DEF Free
  <2>2. Good(t) /\ Even(t) /\ x \in Free(t) /\ x <= t.top_cpu
    BY <2>1, RaiseGood, RaiseEven
  <2>3. Good(placed) /\ Even(placed) /\ x \in Used(placed)
    BY <2>2, PlaceGood, PlaceEven
  <2>4. Even(Reap(placed, x))
    BY <2>3, ReapEven
  <2>5. Load(s, img, mode, outcome) \in {t, placed, Reap(placed, x)}
    BY <1>2 DEF Load
  <2> QED BY <2>2, <2>3, <2>4, <2>5
<1> QED BY <1>1, <1>2

LEMMA DestroyEven ==
  ASSUME NEW s, Good(s), Even(s), NEW x \in Used(s), NEW outcome
  PROVE  Even(DestroyTask(s, x, outcome))
<1>1. Good(Reap(s, x)) /\ Even(Reap(s, x))
  BY ReapGood, ReapEven
<1>2. CASE Reloads(s, x)
  <2>1. s.cpu[x].respawn \in Images
    BY <1>2, SlotType DEF Reloads, Slot
  <2> QED BY <1>1, <1>2, <2>1, LoadEven DEF DestroyTask
<1> QED BY <1>1, <1>2 DEF DestroyTask

\* A slot in use that still holds what it held.
LEMMA ContentsEven ==
  ASSUME NEW s, Good(s), Even(s), NEW x \in Used(s), NEW c, c.used,
         c.mem = s.cpu[x].mem, c.size = s.cpu[x].size,
         NEW t, Good(t), t.cpu = [s.cpu EXCEPT ![x] = c],
         t.used_memory = s.used_memory, t.short_memory = s.short_memory,
         t.used_bytecode = s.used_bytecode, t.short_bytecode = s.short_bytecode
  PROVE  Even(t)
<1>1. s \in State /\ x \in Cpus /\ s.cpu[x] \in Slot /\ s.cpu[x].used
  BY SlotType
<1>2. t.cpu[x] = c /\ \A y \in Cpus \ {x} : t.cpu[y] = s.cpu[y]
  BY <1>1 DEF State
<1>3. MemOf(t, x) = MemOf(s, x) /\ CodeOf(t, x) = CodeOf(s, x)
  BY <1>1, <1>2 DEF MemOf, CodeOf
<1>4. /\ s.used_memory + s.short_memory \in Int
      /\ s.used_bytecode + s.short_bytecode \in Int
      /\ MemOf(s, x) \in Int /\ CodeOf(s, x) \in Int
  BY <1>1 DEF State, Slot, MemOf, CodeOf
<1>5. /\ t.used_memory + t.short_memory
           = s.used_memory + s.short_memory + MemOf(t, x) - MemOf(s, x)
      /\ t.used_bytecode + t.short_bytecode
           = s.used_bytecode + s.short_bytecode + CodeOf(t, x) - CodeOf(s, x)
  BY <1>3, <1>4
<1> QED BY <1>1, <1>2, <1>5, SlotEven

-----------------------------------------------------------------------------
(* The specification *)

LEMMA InitGood == ASSUME Init PROVE IInv
<1>1. 0 \in Cpus
  BY TaskmanAssumption DEF Cpus
<1>2. k \in State
  BY <1>1, IdleType DEF Init, State
<1>3. Used(k) = {}
  BY IdleType DEF Init, Used
<1>4. Missing(k) = 0
  <2>1. /\ k.exec_cnt = 0 /\ k.exit_proc = 0
        /\ k.killed_proc = 0 /\ k.died_proc = 0
    BY DEF Init
  <2>2. Cardinality(Used(k)) = 0
    BY <1>3, FS_EmptySet
  <2> QED BY <2>1, <2>2 DEF Missing
<1>5. Good(k)
  BY <1>2, <1>3 DEF Good
<1>6. /\ curr = NoCpu /\ but_in_fact_it_was_fatal \in BOOLEAN
      /\ trapped = 0
  BY DEF Init
<1> QED BY <1>4, <1>5, <1>6 DEF IInv

LEMMA NextPreserves == ASSUME IInv, [Next]_vars PROVE IInv'
<1>1. CASE LoadImage
  BY <1>1, LoadImagePreserves
<1>2. CASE StartCycle
  <2>1. 0 \in Cpus
    BY TaskmanAssumption DEF Cpus
  <2> QED BY <1>2, <2>1, Balanced DEF StartCycle, IInv
<1>3. CASE EndTurn
  BY <1>3, EndTurnPreserves
<1>4. ASSUME NEW x \in Cpus, Resume(x) \/ Breakpoint(x) PROVE IInv'
  BY <1>4, StopPreserves DEF Resume, Breakpoint, Running
<1>5. ASSUME NEW x \in Cpus, ConsoleKill(x) PROVE IInv'
  BY <1>5, ConsoleKillPreserves
<1>6. ASSUME NEW x \in Cpus, Step(x) PROVE IInv'
  BY <1>6, StepPreserves
<1>7. ASSUME NEW x \in Cpus, Alloc(x) \/ Dealloc(x) PROVE IInv'
  BY <1>7, MemoryPreserves
<1>8. ASSUME NEW x \in Cpus, Halt(x) PROVE IInv'
  BY <1>8, HaltPreserves
<1>9. ASSUME NEW x \in Cpus, Fatal(x) PROVE IInv'
  BY <1>9, FatalPreserves
<1>10. ASSUME NEW x \in Cpus, FatalOutside(x) \/ Signal(x) \/ DebugReap(x)
       PROVE  IInv'
  BY <1>10, DeathPreserves
<1>11. CASE UNCHANGED vars
  <2>1. /\ k' = k /\ curr' = curr /\ trapped' = trapped
        /\ but_in_fact_it_was_fatal' = but_in_fact_it_was_fatal
    BY <1>11 DEF vars
  <2>2. Good(k') /\ Missing(k') + trapped' = 0
    BY <2>1 DEF IInv
  <2> QED BY <2>1, <2>2, Balanced DEF IInv
<1>12. ASSUME NEW x \in Cpus,
              \/ ConsoleKill(x) \/ Resume(x) \/ DebugReap(x) \/ Breakpoint(x)
              \/ Step(x) \/ Alloc(x) \/ Dealloc(x) \/ Halt(x)
              \/ Fatal(x) \/ FatalOutside(x) \/ Signal(x)
       PROVE  IInv'
  BY <1>4, <1>5, <1>6, <1>7, <1>8, <1>9, <1>10, <1>12
<1> QED BY <1>1, <1>2, <1>3, <1>11, <1>12 DEF Next

\* Every state is good and no execution goes missing.
LEMMA Invariance == Spec => []IInv
BY InitGood, NextPreserves, PTL DEF Spec

\* The state has its type, for any number of virtual CPUs, processes, images.
THEOREM TypeCorrect == Spec => []TypeOK
<1>1. IInv => TypeOK
  BY DEF IInv, Good, TypeOK
<1> QED BY <1>1, Invariance, PTL

\* Every execution is exited, killed, died or alive, exactly once but for the
\* kills of processes in debug mode.
THEOREM ExecutionsAddUp == Spec => []ProcessesAddUp
<1>1. IInv => ProcessesAddUp
  BY UsedFinite DEF IInv, Good, State, Missing, ProcessesAddUp
<1> QED BY <1>1, Invariance, PTL

\* The task cycle reaches every process.
THEOREM CycleReachesAll == Spec => []UsedAreScheduled
<1>1. IInv => UsedAreScheduled
  BY DEF IInv, Good, UsedAreScheduled
<1> QED BY <1>1, Invariance, PTL
-----------------------------------------------------------------------------
(* The memory totals, action by action *)

\* What stands after an exception has been left unhandled.
LEMMA UnhandledEven ==
  ASSUME NEW s, Good(s), Even(s), NEW x \in Used(s), NEW outcome
  PROVE  Even(Unhandled(s, x, outcome))
<1>1. CASE ~ s.cpu[x].debug
  <2>1. Even(DestroyTask(s, x, outcome)) /\ Good(DestroyTask(s, x, outcome))
    BY DestroyGood, DestroyEven
  <2> QED BY <1>1, <2>1, DiedEven DEF Unhandled
<1>2. CASE s.cpu[x].debug
  <2> DEFINE t == Unhandled(s, x, outcome)
             c == [s.cpu[x] EXCEPT !.stopped = TRUE, !.over = TRUE]
  <2>1. s \in State /\ x \in Cpus /\ s.cpu[x] \in Slot /\ s.cpu[x].used
    BY SlotType
  <2>2. /\ t.cpu = [s.cpu EXCEPT ![x] = c]
        /\ t.used_memory = s.used_memory /\ t.short_memory = s.short_memory
        /\ t.used_bytecode = s.used_bytecode
        /\ t.short_bytecode = s.short_bytecode
    BY <1>2, <2>1 DEF Unhandled, Died, Trap, State
  <2>3. c.used /\ c.mem = s.cpu[x].mem /\ c.size = s.cpu[x].size
    BY <2>1 DEF Slot
  <2>4. Good(t)
    BY UnhandledGood
  <2> HIDE DEF t, c
  <2>5. Even(t)
    BY <2>2, <2>3, <2>4, ContentsEven
  <2> QED BY <2>5 DEF t
<1> QED BY <1>1, <1>2

LEMMA AfterwardsEven ==
  ASSUME NEW s, Good(s), Even(s), NEW x \in Cpus, NEW ip \in Nat
  PROVE  Even(Afterwards(s, x, ip))
<1>1. CASE ~ s.cpu[x].used
  BY <1>1 DEF Afterwards
<1>2. CASE s.cpu[x].used
  <2> DEFINE t == Afterwards(s, x, ip)
             c == [s.cpu[x] EXCEPT !.IP = ip]
  <2>1. s \in State /\ x \in Used(s) /\ s.cpu[x] \in Slot
    BY <1>2, SlotType DEF Good, Used, State
  <2>2. /\ t.cpu = [s.cpu EXCEPT ![x] = c]
        /\ t.used_memory = s.used_memory /\ t.short_memory = s.short_memory
        /\ t.used_bytecode = s.used_bytecode
        /\ t.short_bytecode = s.short_bytecode
    BY <1>2, <2>1 DEF Afterwards, State
  <2>3. c.used /\ c.mem = s.cpu[x].mem /\ c.size = s.cpu[x].size
    BY <1>2, <2>1 DEF Slot
  <2>4. Good(t)
    BY AfterwardsGood
  <2> HIDE DEF t, c
  <2>5. Even(t)
    BY <2>1, <2>2, <2>3, <2>4, ContentsEven
  <2> QED BY <2>5 DEF t
<1> QED BY <1>1, <1>2

\* ALLOC and DEALLOC: the process and the total change alike.
LEMMA MemoryEven ==
  ASSUME IInv, Even(k), IInv', NEW x \in Cpus, k.cpu[x].used,
         NEW n \in Int, Gains(x, n)
  PROVE  Even(k')
<1>1. k \in State /\ Good(k) /\ Good(k') /\ k.cpu[x] \in Slot
  BY DEF IInv, Good, State
<1> DEFINE c == [k.cpu[x] EXCEPT !.mem = @ + n, !.IP = @ + 1]
<1>2. /\ k'.cpu = [k.cpu EXCEPT ![x] = c]
      /\ k'.used_memory = k.used_memory + n /\ k'.short_memory = k.short_memory
      /\ k'.used_bytecode = k.used_bytecode
      /\ k'.short_bytecode = k.short_bytecode
  <2>1. k' = [k EXCEPT !.cpu[x] = c, !.used_memory = @ + n]
    BY Zenon DEF Gains
  <2> HIDE DEF c
  <2> QED BY <1>1, <2>1 DEF State
<1>3. c.used /\ c.mem = k.cpu[x].mem + n /\ c.size = k.cpu[x].size
  BY <1>1 DEF Slot
<1> HIDE DEF c
<1>4. k'.cpu[x] = c /\ \A y \in Cpus \ {x} : k'.cpu[y] = k.cpu[y]
  BY <1>1, <1>2 DEF State
<1>5. /\ MemOf(k', x) = MemOf(k, x) + n /\ CodeOf(k', x) = CodeOf(k, x)
      /\ MemOf(k, x) \in Int /\ CodeOf(k, x) \in Int
      /\ k.used_memory \in Int /\ k.used_bytecode \in Int
      /\ k.short_memory \in Int /\ k.short_bytecode \in Int
  BY <1>1, <1>3, <1>4 DEF MemOf, CodeOf, Slot, State
<1>6. /\ k'.used_memory + k'.short_memory
           = k.used_memory + k.short_memory + MemOf(k', x) - MemOf(k, x)
      /\ k'.used_bytecode + k'.short_bytecode
           = k.used_bytecode + k.short_bytecode + CodeOf(k', x) - CodeOf(k, x)
  BY <1>2, <1>5
<1> QED BY <1>1, <1>4, <1>6, SlotEven

\* Every step keeps the totals even.
LEMMA NextEven ==
  ASSUME IInv, Even(k), IInv', [Next]_vars
  PROVE  Even(k')
<1>1. Good(k) /\ k \in State
  BY DEF IInv, Good
<1>2. CASE LoadImage
  BY <1>1, <1>2, LoadEven DEF LoadImage
<1>3. CASE StartCycle \/ UNCHANGED vars
  BY <1>3 DEF StartCycle, vars
<1> DEFINE Totals ==
             /\ k'.used_memory = k.used_memory /\ k'.short_memory = k.short_memory
             /\ k'.used_bytecode = k.used_bytecode
             /\ k'.short_bytecode = k.short_bytecode
<1>4. ASSUME NEW x \in Cpus, k.cpu[x].used, Totals, NEW c, c.used,
             c.mem = k.cpu[x].mem, c.size = k.cpu[x].size,
             k'.cpu = [k.cpu EXCEPT ![x] = c]
      PROVE  Even(k')
  <2>1. x \in Used(k) /\ Good(k')
    BY <1>4 DEF Used, IInv
  <2> QED BY <1>1, <1>4, <2>1, ContentsEven
<1>5. CASE EndTurn
  <2>1. CASE k' = k
    BY <2>1
  <2>2. CASE k.cpu[curr].used /\ k' = [k EXCEPT !.cpu[curr].work_cycles = @ + 1]
    <3> DEFINE c == [k.cpu[curr] EXCEPT !.work_cycles = @ + 1]
    <3>1. curr \in Cpus /\ k.cpu[curr] \in Slot
      BY <1>1, <1>5 DEF EndTurn, State
    <3>2. c.used /\ c.mem = k.cpu[curr].mem /\ c.size = k.cpu[curr].size
      BY <2>2, <3>1 DEF Slot
    <3>3. k'.cpu = [k.cpu EXCEPT ![curr] = c] /\ Totals
      BY <1>1, <2>2, <3>1 DEF State
    <3> HIDE DEF c, Totals
    <3> QED BY <1>4, <2>2, <3>1, <3>2, <3>3
  <2> QED BY <1>5, <2>1, <2>2 DEF EndTurn
<1>6. ASSUME NEW x \in Cpus, ConsoleKill(x) PROVE Even(k')
  <2>1. k.cpu[x].used /\ x \in Used(k)
    BY <1>6 DEF ConsoleKill, Used
  <2>2. CASE k' = Reap(k, x)
    BY <1>1, <2>1, <2>2, ReapEven
  <2>3. CASE k.cpu[x].debug
    <3> DEFINE c == [k.cpu[x] EXCEPT !.stopped = TRUE, !.over = TRUE]
    <3>1. k.cpu[x] \in Slot
      BY <1>1 DEF State
    <3>2. c.used /\ c.mem = k.cpu[x].mem /\ c.size = k.cpu[x].size
      BY <2>1, <3>1 DEF Slot
    <3>3. k'.cpu = [k.cpu EXCEPT ![x] = c] /\ Totals
      BY <1>1, <1>6, <2>3 DEF State, ConsoleKill, Trap
    <3> HIDE DEF c, Totals
    <3> QED BY <1>4, <2>1, <3>2, <3>3
  <2> QED BY <1>6, <2>2, <2>3 DEF ConsoleKill
<1>7. ASSUME NEW x \in Cpus, Resume(x) \/ Breakpoint(x) PROVE Even(k')
  <2>1. PICK b : k' = [k EXCEPT !.cpu[x].stopped = b]
    BY <1>7 DEF Resume, Breakpoint
  <2> DEFINE c == [k.cpu[x] EXCEPT !.stopped = b]
  <2>2. k.cpu[x] \in Slot /\ k.cpu[x].used
    BY <1>1, <1>7 DEF State, Resume, Breakpoint, Running
  <2>3. c.used /\ c.mem = k.cpu[x].mem /\ c.size = k.cpu[x].size
    BY <2>2 DEF Slot
  <2>4. k'.cpu = [k.cpu EXCEPT ![x] = c] /\ Totals
    BY <1>1, <2>1 DEF State
  <2> HIDE DEF c, Totals
  <2> QED BY <1>4, <2>2, <2>3, <2>4
<1>8. ASSUME NEW x \in Cpus, Step(x) PROVE Even(k')
  <2>1. PICK b : k' = [k EXCEPT !.cpu[x].IP = b]
    BY <1>8 DEF Step
  <2> DEFINE c == [k.cpu[x] EXCEPT !.IP = b]
  <2>2. k.cpu[x] \in Slot /\ k.cpu[x].used
    BY <1>1, <1>8 DEF State, Step, Fetches, Running
  <2>3. c.used /\ c.mem = k.cpu[x].mem /\ c.size = k.cpu[x].size
    BY <2>2 DEF Slot
  <2>4. k'.cpu = [k.cpu EXCEPT ![x] = c] /\ Totals
    BY <1>1, <2>1 DEF State
  <2> HIDE DEF c, Totals
  <2> QED BY <1>4, <2>2, <2>3, <2>4
<1>9. ASSUME NEW x \in Cpus, Alloc(x) \/ Dealloc(x) PROVE Even(k')
  <2>1. k.cpu[x].used /\ \E n \in Int : Gains(x, n)
    BY <1>9, TaskmanAssumption DEF Alloc, Dealloc, Fetches, Running
  <2> QED BY <2>1, MemoryEven
<1>10. ASSUME NEW x \in Cpus, Halt(x) PROVE Even(k')
  <2> DEFINE t == Reap(k, x)
  <2>1. x \in Used(k)
    BY <1>10 DEF Halt, Fetches, Running, Used
  <2>2. Good(t) /\ Even(t)
    BY <1>1, <2>1, ReapGood, ReapEven
  <2>3. k' = [t EXCEPT !.killed_proc = @ - 1, !.exit_proc = @ + 1]
    BY <1>10 DEF Halt
  <2> HIDE DEF t
  <2>4. /\ k'.cpu = t.cpu
        /\ k'.used_memory = t.used_memory /\ k'.short_memory = t.short_memory
        /\ k'.used_bytecode = t.used_bytecode
        /\ k'.short_bytecode = t.short_bytecode
    BY <2>2, <2>3 DEF Good, State
  <2> QED BY <2>2, <2>4, SameEven
<1>11. ASSUME NEW x \in Cpus, FatalOutside(x) \/ Signal(x) \/ DebugReap(x)
       PROVE  Even(k')
  <2>1. x \in Used(k)
    BY <1>11 DEF FatalOutside, Signal, DebugReap, Fetches, Running, Used
  <2>2. PICK outcome \in Outcomes :
          \/ k' = Unhandled(k, x, outcome)
          \/ k' = Died(DestroyTask(k, x, outcome))
          \/ k' = DestroyTask(k, x, outcome)
    BY <1>11 DEF FatalOutside, Signal, DebugReap
  <2>3. Good(DestroyTask(k, x, outcome)) /\ Even(DestroyTask(k, x, outcome))
    BY <1>1, <2>1, DestroyGood, DestroyEven
  <2> QED BY <1>1, <2>1, <2>2, <2>3, DiedEven, UnhandledEven
<1>12. ASSUME NEW x \in Cpus, Fatal(x) PROVE Even(k')
  <2>1. x \in Used(k)
    BY <1>12 DEF Fatal, Fetches, Running, Used
  <2>2. PICK outcome \in Outcomes :
          LET t == Unhandled(k, x, outcome) IN
          \/ k' = Afterwards(t, x, t.cpu[x].IP + 1)
          \/ k' = Afterwards(t, x, 0)
    BY <1>12 DEF Fatal
  <2> DEFINE t == Unhandled(k, x, outcome)
  <2>3. Good(t) /\ Even(t)
    BY <1>1, <2>1, UnhandledGood, UnhandledEven
  <2>4. k' = Afterwards(t, x, t.cpu[x].IP + 1) \/ k' = Afterwards(t, x, 0)
    BY <2>2
  <2> HIDE DEF t
  <2>5. t.cpu[x].IP + 1 \in Nat
    BY <2>3 DEF Good, State, Slot
  <2> QED BY <2>3, <2>4, <2>5, AfterwardsEven
<1>13. ASSUME NEW x \in Cpus,
              \/ ConsoleKill(x) \/ Resume(x) \/ DebugReap(x) \/ Breakpoint(x)
              \/ Step(x) \/ Alloc(x) \/ Dealloc(x) \/ Halt(x)
              \/ Fatal(x) \/ FatalOutside(x) \/ Signal(x)
       PROVE  Even(k')
  BY <1>6, <1>7, <1>8, <1>9, <1>10, <1>11, <1>12, <1>13
<1> QED BY <1>2, <1>3, <1>5, <1>13 DEF Next

\* The console's totals are what the processes hold, less what destroy_task
\* has taken off without its having been added, for every image and whatever
\* its loading fails at (task.c load_image and destroy_task, bcode.c).
THEOREM MemoryIsAccounted == Spec => []MemoryAddsUp
<1>1. Init => Even(k)
  <2> SUFFICES ASSUME Init PROVE Even(k)
    OBVIOUS
  <2>1. Used(k) = {}
    BY IdleType DEF Init, Used
  <2>2. /\ k.used_memory = 0 /\ k.short_memory = 0
        /\ k.used_bytecode = 0 /\ k.short_bytecode = 0
    BY DEF Init
  <2> QED BY <2>1, <2>2, SumEmpty DEF Even
<1>2. IInv /\ Even(k) /\ [Next]_vars => IInv' /\ Even(k)'
  BY NextPreserves, NextEven
<1>3. Even(k) => MemoryAddsUp
  BY SumsAgree, Zenon DEF Even, MemoryAddsUp
<1> QED BY <1>1, <1>2, <1>3, InitGood, PTL DEF Spec
-----------------------------------------------------------------------------
(* The debugger's mark *)

\* What the mark of slot x says of the process there.
TrueAt(s, x) ==
  s.cpu[x].used /\ s.cpu[x].debug
    => (s.dead[x] <=> s.cpu[x].over \/ s.cpu[x].inherited)

AllTrue(s) == \A x \in Cpus : TrueAt(s, x)

\* A step that writes the slot of a process, neither what it is nor its mark.
LEMMA WriteTrue ==
  ASSUME NEW s, Good(s), AllTrue(s), NEW x \in Cpus, NEW c,
         c.used => /\ s.cpu[x].used /\ c.debug = s.cpu[x].debug
                   /\ c.over = s.cpu[x].over /\ c.inherited = s.cpu[x].inherited,
         NEW t, t.cpu = [s.cpu EXCEPT ![x] = c], t.dead = s.dead
  PROVE  AllTrue(t)
<1> SUFFICES ASSUME NEW y \in Cpus PROVE TrueAt(t, y)
  BY DEF AllTrue
<1>1. s.cpu \in [Cpus -> Slot] /\ TrueAt(s, y)
  BY DEF Good, State, AllTrue
<1>2. CASE y = x
  BY <1>1, <1>2 DEF TrueAt
<1>3. CASE y # x
  BY <1>1, <1>3 DEF TrueAt
<1> QED BY <1>2, <1>3

\* A process in debug mode that dies, or is killed, is marked.
LEMMA TrapTrue ==
  ASSUME NEW s, Good(s), AllTrue(s), NEW x \in Cpus, NEW t, NEW c, c.over,
         t.cpu = [s.cpu EXCEPT ![x] = c], t.dead = [s.dead EXCEPT ![x] = TRUE]
  PROVE  AllTrue(t)
<1> SUFFICES ASSUME NEW y \in Cpus PROVE TrueAt(t, y)
  BY DEF AllTrue
<1>1. s.cpu \in [Cpus -> Slot] /\ s.dead \in [Cpus -> BOOLEAN] /\ TrueAt(s, y)
  BY DEF Good, State, AllTrue
<1>2. CASE y = x
  BY <1>1, <1>2 DEF TrueAt
<1>3. CASE y # x
  BY <1>1, <1>3 DEF TrueAt
<1> QED BY <1>2, <1>3

\* Nothing but counters changes.
LEMMA CountersTrue ==
  ASSUME NEW s, NEW t, AllTrue(s), t.cpu = s.cpu, t.dead = s.dead
  PROVE  AllTrue(t)
BY DEF AllTrue, TrueAt

LEMMA ReapTrue ==
  ASSUME NEW s, Good(s), AllTrue(s), NEW x \in Used(s)
  PROVE  AllTrue(Reap(s, x))
<1>1. s \in State /\ x \in Cpus
  BY SlotType
<1> DEFINE t == Reap(s, x)
<1>2. t.cpu = [s.cpu EXCEPT ![x] = Idle] /\ t.dead = s.dead
  BY <1>1 DEF Reap, State
<1>3. ~ Idle.used
  BY DEF Idle
<1> HIDE DEF t
<1>4. AllTrue(t)
  BY <1>1, <1>2, <1>3, WriteTrue
<1> QED BY <1>4 DEF t

\* A process that is loaded to be debugged has its mark set anew; another one
\* in debug mode inherits what it finds.
LEMMA PlaceTrue ==
  ASSUME NEW s, Good(s), AllTrue(s), NEW x \in Cpus,
         NEW img \in Images, NEW mode, NEW outcome
  PROVE  AllTrue(Place(s, x, img, mode, outcome))
<1> DEFINE t == Place(s, x, img, mode, outcome)
<1>1. s \in State /\ img.debug \in BOOLEAN
  BY TaskmanAssumption DEF Good
<1>2. /\ t.cpu[x].debug = (img.debug \/ Debugging(mode))
      /\ t.cpu[x].inherited = (img.debug /\ ~ Debugging(mode) /\ s.dead[x])
      /\ t.cpu[x].over = FALSE
      /\ t.dead[x] = Marks(mode, s.dead[x])
  BY <1>1 DEF Place, State, Idle
<1>3. \A y \in Cpus \ {x} : t.cpu[y] = s.cpu[y] /\ t.dead[y] = s.dead[y]
  BY <1>1 DEF Place, State
<1>4. s.dead[x] \in BOOLEAN /\ Debugging(mode) \in BOOLEAN
  BY <1>1 DEF State, Debugging
<1> HIDE DEF t
<1>5. TrueAt(t, x)
  BY <1>1, <1>2, <1>4, Zenon DEF Marks, TrueAt
<1>6. AllTrue(t)
  BY <1>3, <1>5 DEF AllTrue, TrueAt
<1> QED BY <1>6 DEF t

LEMMA LoadTrue ==
  ASSUME NEW s, Good(s), AllTrue(s), NEW img \in Images, NEW mode, NEW outcome
  PROVE  AllTrue(Load(s, img, mode, outcome))
<1>1. CASE Free(s) = {}
  BY <1>1 DEF Load
<1>2. CASE Free(s) # {}
  <2> DEFINE x == Min(Free(s))
             t == Raise(s, x)
             placed == Place(t, x, img, mode, outcome)
  <2>1. x \in Free(s) /\ x \in Cpus
    BY <1>2, FirstFree DEF Free
  <2>2. Good(t) /\ x \in Free(t) /\ x <= t.top_cpu
    BY <2>1, RaiseGood
  <2>3. AllTrue(t)
    <3>1. t.cpu = s.cpu /\ t.dead = s.dead
      BY DEF Raise, Good, State
    <3> HIDE DEF t
    <3> QED BY <3>1, CountersTrue
  <2>4. Good(placed) /\ x \in Used(placed) /\ AllTrue(placed)
    BY <2>1, <2>2, <2>3, PlaceGood, PlaceTrue
  <2>5. AllTrue(Reap(placed, x))
    BY <2>4, ReapTrue
  <2>6. Load(s, img, mode, outcome) \in {t, placed, Reap(placed, x)}
    BY <1>2 DEF Load
  <2> HIDE DEF t, placed, x
  <2> QED BY <2>3, <2>4, <2>5, <2>6
<1> QED BY <1>1, <1>2

LEMMA DestroyTrue ==
  ASSUME NEW s, Good(s), AllTrue(s), NEW x \in Used(s), NEW outcome
  PROVE  AllTrue(DestroyTask(s, x, outcome))
<1>1. Good(Reap(s, x)) /\ AllTrue(Reap(s, x))
  BY ReapGood, ReapTrue
<1>2. CASE Reloads(s, x)
  <2>1. s.cpu[x].respawn \in Images
    BY <1>2, SlotType DEF Reloads, Slot
  <2> QED BY <1>1, <1>2, <2>1, LoadTrue DEF DestroyTask
<1> QED BY <1>1, <1>2 DEF DestroyTask

LEMMA DiedTrue ==
  ASSUME NEW t, AllTrue(t), Good(t)
  PROVE  AllTrue(Died(t))
<1>1. Died(t).cpu = t.cpu /\ Died(t).dead = t.dead
  BY DEF Died, Good, State
<1> QED BY <1>1, CountersTrue

\* A process in debug mode that is left with its exception is marked; any
\* other is destroyed.
LEMMA UnhandledTrue ==
  ASSUME NEW s, Good(s), AllTrue(s), NEW x \in Used(s), NEW outcome
  PROVE  AllTrue(Unhandled(s, x, outcome))
<1>1. CASE ~ s.cpu[x].debug
  BY <1>1, DestroyGood, DestroyTrue, DiedTrue DEF Unhandled
<1>2. CASE s.cpu[x].debug
  <2> DEFINE t == Unhandled(s, x, outcome)
             c == [s.cpu[x] EXCEPT !.stopped = TRUE, !.over = TRUE]
  <2>1. s \in State /\ x \in Cpus /\ s.cpu[x] \in Slot
    BY SlotType
  <2>2. t.cpu = [s.cpu EXCEPT ![x] = c] /\ t.dead = [s.dead EXCEPT ![x] = TRUE]
    BY <1>2, <2>1 DEF Unhandled, Died, Trap, State
  <2>3. c.over
    BY <2>1 DEF Slot
  <2> HIDE DEF t, c
  <2>4. AllTrue(t)
    BY <2>1, <2>2, <2>3, TrapTrue
  <2> QED BY <2>4 DEF t
<1> QED BY <1>1, <1>2

\* What is added to IP afterwards marks nothing.
LEMMA AfterwardsTrue ==
  ASSUME NEW t, Good(t), AllTrue(t), NEW x \in Cpus, NEW ip
  PROVE  AllTrue(Afterwards(t, x, ip))
<1> DEFINE u == Afterwards(t, x, ip)
<1> SUFFICES ASSUME NEW y \in Cpus PROVE TrueAt(u, y)
  BY DEF AllTrue
<1>1. /\ u.dead = t.dead /\ u.cpu[y].used = t.cpu[y].used
      /\ u.cpu[y].debug = t.cpu[y].debug
      /\ u.cpu[y].over = t.cpu[y].over /\ u.cpu[y].inherited = t.cpu[y].inherited
  BY DEF Afterwards, Good, State, Slot
<1> HIDE DEF u
<1> QED BY <1>1 DEF AllTrue, TrueAt

\* Every step leaves the marks true.
LEMMA NextTrue ==
  ASSUME IInv, AllTrue(k), Next
  PROVE  AllTrue(k')
<1>1. Good(k) /\ k \in State
  BY DEF IInv, Good
<1>2. CASE LoadImage
  BY <1>1, <1>2, LoadTrue DEF LoadImage
<1>3. ASSUME k'.cpu = k.cpu, k'.dead = k.dead PROVE AllTrue(k')
  BY <1>3, CountersTrue
<1>4. ASSUME NEW x \in Cpus, k.cpu[x].used, NEW c,
             c.debug = k.cpu[x].debug,
             c.over = k.cpu[x].over, c.inherited = k.cpu[x].inherited,
             k'.cpu = [k.cpu EXCEPT ![x] = c], k'.dead = k.dead
      PROVE  AllTrue(k')
  BY <1>1, <1>4, WriteTrue
<1>5. CASE EndTurn
  <2>1. CASE k' = k
    BY <1>3, <2>1
  <2>2. CASE k.cpu[curr].used /\ k' = [k EXCEPT !.cpu[curr].work_cycles = @ + 1]
    <3> DEFINE c == [k.cpu[curr] EXCEPT !.work_cycles = @ + 1]
    <3>1. curr \in Cpus /\ k.cpu[curr] \in Slot
      BY <1>1, <1>5 DEF EndTurn, State
    <3>2. /\ c.debug = k.cpu[curr].debug /\ c.over = k.cpu[curr].over
          /\ c.inherited = k.cpu[curr].inherited
      BY <3>1 DEF Slot
    <3>3. k'.cpu = [k.cpu EXCEPT ![curr] = c] /\ k'.dead = k.dead
      BY <1>1, <2>2, <3>1 DEF State
    <3> HIDE DEF c
    <3> QED BY <1>4, <2>2, <3>1, <3>2, <3>3
  <2> QED BY <1>5, <2>1, <2>2 DEF EndTurn
<1>6. ASSUME NEW x \in Cpus, ConsoleKill(x) PROVE AllTrue(k')
  <2>1. k.cpu[x].used /\ x \in Used(k) /\ k.cpu[x] \in Slot
    BY <1>1, <1>6 DEF ConsoleKill, Used, State
  <2>2. CASE k' = Reap(k, x)
    BY <1>1, <2>1, <2>2, ReapTrue
  <2>3. CASE k.cpu[x].debug
    <3> DEFINE c == [k.cpu[x] EXCEPT !.stopped = TRUE, !.over = TRUE]
    <3>1. c.over
      BY <2>1 DEF Slot
    <3>2. k'.cpu = [k.cpu EXCEPT ![x] = c] /\ k'.dead = [k.dead EXCEPT ![x] = TRUE]
      BY <1>1, <1>6, <2>3 DEF State, ConsoleKill, Trap
    <3> HIDE DEF c
    <3> QED BY <1>1, <3>1, <3>2, TrapTrue
  <2> QED BY <1>6, <2>2, <2>3 DEF ConsoleKill
<1>7. ASSUME NEW x \in Cpus,
             \/ Resume(x) \/ Breakpoint(x) \/ Step(x) \/ Alloc(x) \/ Dealloc(x)
      PROVE  AllTrue(k')
  <2>1. k.cpu[x].used /\ k.cpu[x] \in Slot
    BY <1>1, <1>7
       DEF Resume, Breakpoint, Step, Alloc, Dealloc, Fetches, Running, State
  <2>2. PICK c : /\ k'.cpu = [k.cpu EXCEPT ![x] = c] /\ k'.dead = k.dead
                 /\ c.debug = k.cpu[x].debug /\ c.over = k.cpu[x].over
                 /\ c.inherited = k.cpu[x].inherited
    <3>1. CASE Resume(x) \/ Breakpoint(x)
      <4>1. PICK b : k' = [k EXCEPT !.cpu[x].stopped = b]
        BY <3>1 DEF Resume, Breakpoint
      <4> DEFINE c == [k.cpu[x] EXCEPT !.stopped = b]
      <4>2. k'.cpu = [k.cpu EXCEPT ![x] = c] /\ k'.dead = k.dead
        BY <1>1, <4>1 DEF State
      <4>3. c.debug = k.cpu[x].debug /\ c.over = k.cpu[x].over /\ c.inherited = k.cpu[x].inherited
        BY <2>1 DEF Slot
      <4> QED BY <4>2, <4>3
    <3>2. CASE Step(x)
      <4>1. PICK b : k' = [k EXCEPT !.cpu[x].IP = b]
        BY <3>2 DEF Step
      <4> DEFINE c == [k.cpu[x] EXCEPT !.IP = b]
      <4>2. k'.cpu = [k.cpu EXCEPT ![x] = c] /\ k'.dead = k.dead
        BY <1>1, <4>1 DEF State
      <4>3. c.debug = k.cpu[x].debug /\ c.over = k.cpu[x].over /\ c.inherited = k.cpu[x].inherited
        BY <2>1 DEF Slot
      <4> QED BY <4>2, <4>3
    <3>3. CASE Alloc(x) \/ Dealloc(x)
      <4>1. PICK n : Gains(x, n)
        BY <3>3 DEF Alloc, Dealloc
      <4> DEFINE c == [k.cpu[x] EXCEPT !.mem = @ + n, !.IP = @ + 1]
      <4>2. k' = [k EXCEPT !.cpu[x] = c, !.used_memory = @ + n]
        BY <4>1, Zenon DEF Gains
      <4>3. c.debug = k.cpu[x].debug /\ c.over = k.cpu[x].over /\ c.inherited = k.cpu[x].inherited
        BY <2>1 DEF Slot
      <4> HIDE DEF c
      <4>4. k'.cpu = [k.cpu EXCEPT ![x] = c] /\ k'.dead = k.dead
        BY <1>1, <4>2 DEF State
      <4> QED BY <4>3, <4>4
    <3> QED BY <1>7, <3>1, <3>2, <3>3
  <2> QED BY <1>4, <2>1, <2>2
<1>8. ASSUME NEW x \in Cpus, Halt(x) PROVE AllTrue(k')
  <2> DEFINE t == Reap(k, x)
  <2>1. x \in Used(k)
    BY <1>8 DEF Halt, Fetches, Running, Used
  <2>2. Good(t) /\ AllTrue(t)
    BY <1>1, <2>1, ReapGood, ReapTrue
  <2>3. k' = [t EXCEPT !.killed_proc = @ - 1, !.exit_proc = @ + 1]
    BY <1>8 DEF Halt
  <2> HIDE DEF t
  <2>4. k'.cpu = t.cpu /\ k'.dead = t.dead
    BY <2>2, <2>3 DEF Good, State
  <2> QED BY <2>2, <2>4, CountersTrue
<1>9. ASSUME NEW x \in Cpus, FatalOutside(x) \/ Signal(x) \/ DebugReap(x)
      PROVE  AllTrue(k')
  <2>1. x \in Used(k)
    BY <1>9 DEF FatalOutside, Signal, DebugReap, Fetches, Running, Used
  <2>2. PICK outcome \in Outcomes :
          \/ k' = Unhandled(k, x, outcome)
          \/ k' = Died(DestroyTask(k, x, outcome))
          \/ k' = DestroyTask(k, x, outcome)
    BY <1>9 DEF FatalOutside, Signal, DebugReap
  <2>3. Good(DestroyTask(k, x, outcome)) /\ AllTrue(DestroyTask(k, x, outcome))
    BY <1>1, <2>1, DestroyGood, DestroyTrue
  <2> QED BY <1>1, <2>1, <2>2, <2>3, DiedTrue, UnhandledTrue
<1>10. ASSUME NEW x \in Cpus, Fatal(x) PROVE AllTrue(k')
  <2>1. x \in Used(k)
    BY <1>10 DEF Fatal, Fetches, Running, Used
  <2>2. PICK outcome \in Outcomes :
          \E ip : k' = Afterwards(Unhandled(k, x, outcome), x, ip)
    BY <1>10 DEF Fatal
  <2>3. Good(Unhandled(k, x, outcome)) /\ AllTrue(Unhandled(k, x, outcome))
    BY <1>1, <2>1, UnhandledGood, UnhandledTrue
  <2> QED BY <2>2, <2>3, AfterwardsTrue
<1>11. CASE StartCycle
  BY <1>3, <1>11 DEF StartCycle
<1> QED BY <1>2, <1>5, <1>6, <1>7, <1>8, <1>9, <1>10, <1>11 DEF Next

\* The debugger destroys those that have died, or were killed, and spares
\* those that have not; but a process whose image asks for debug mode itself
\* may have found the mark of another (debugger.c, task.c, bcode.c).
THEOREM MarksStayTrue == Spec => []MarksAreTrue
<1>1. Init => AllTrue(k)
  BY IdleType DEF Init, AllTrue, TrueAt, Idle
<1>2. IInv /\ AllTrue(k) /\ [Next]_vars => AllTrue(k)'
  <2> SUFFICES ASSUME IInv, AllTrue(k), [Next]_vars PROVE AllTrue(k')
    OBVIOUS
  <2>1. CASE Next
    BY <2>1, NextTrue
  <2>2. CASE UNCHANGED vars
    BY <2>2 DEF vars
  <2> QED BY <2>1, <2>2
<1>3. AllTrue(k) => MarksAreTrue
  BY DEF AllTrue, TrueAt, MarksAreTrue, Used
<1> QED BY <1>1, <1>2, <1>3, Invariance, PTL DEF Spec
=============================================================================
