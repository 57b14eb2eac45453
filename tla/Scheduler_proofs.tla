-------------------------- MODULE Scheduler_proofs --------------------------
(***************************************************************************)
(* Proofs about module Scheduler, for any number of slots, priorities and  *)
(* sleeps: type correctness; and, as long as the 32-bit clock does not     *)
(* wrap, that no process is woken too early, and by how much the kernel    *)
(* may sleep too long.                                                     *)
(***************************************************************************)
EXTENDS Scheduler, FiniteSetTheorems, WellFoundedInduction, TLAPS

\* The 32-bit clock does not wrap before MaxTime.
NoWrap == MaxTime < TimeSpace

\* A sleeper's wake_on is the time it asked for, and the kernel's idea of the
\* time is not ahead of the clock.
Timely ==
  /\ timer.datime <= clock
  /\ \A x \in Cpus : Sleeper(cpu, x) => cpu[x].wake_on = until[x]

-----------------------------------------------------------------------------
(* Slots *)

\* A set of slots that is not empty has a first one.
LEMMA FirstFree ==
  ASSUME NEW S \in SUBSET Cpus, S # {}
  PROVE  Min(S) \in S
<1>1. S \subseteq Nat
  BY SchedulerAssumption DEF Cpus
<1>2. IsWellFoundedOn(OpToRel(<, Nat), Nat)
  BY NatLessThanWellFounded
<1>3. PICK x \in S : \A y \in S : ~ (<<y, x>> \in OpToRel(<, Nat))
  BY <1>1, <1>2, WFMin
<1>4. \A y \in S : ~ (y < x)
  BY <1>1, <1>3 DEF OpToRel
<1>5. \A y \in S : x <= y
  BY <1>1, <1>4
<1> QED BY <1>5 DEF Min

LEMMA VacantType == Vacant \in Slot /\ ~ Vacant.used
BY DEF Vacant, Slot, Waits

LEMMA LoadedType ==
  ASSUME NEW r \in BOOLEAN, NEW p \in Priorities \cup {0}
  PROVE  Loaded(r, p) \in Slot /\ Loaded(r, p).mode = "run"
BY DEF Loaded, Vacant, Slot, Waits

\* Destroying a process, with or without a reload, touches no other process
\* and makes none that waits.
LEMMA DestroyGood ==
  ASSUME NEW slots \in [Cpus -> Slot], NEW x \in Cpus,
         NEW t \in Destroy(slots, x)
  PROVE  /\ t \in [Cpus -> Slot]
         /\ \A y \in Cpus \ {x} : slots[y].used => t[y] = slots[y]
         /\ \A y \in Cpus : t[y].used /\ t[y].mode # "run" => y # x /\ t[y] = slots[y]
<1> DEFINE u == [slots EXCEPT ![x] = Vacant]
           slot == Min({y \in Cpus : ~ u[y].used})
           v == [u EXCEPT ![slot] = Loaded(TRUE, slots[x].priority)]
<1>1. u \in [Cpus -> Slot] /\ ~ u[x].used
  BY VacantType
<1>2. slot \in Cpus /\ ~ u[slot].used
  <2> DEFINE S == {y \in Cpus : ~ u[y].used}
  <2>1. S \in SUBSET Cpus /\ S # {}
    BY <1>1
  <2> HIDE DEF S
  <2>2. Min(S) \in S
    BY <2>1, FirstFree
  <2> QED BY <2>2 DEF S
<1>3. Loaded(TRUE, slots[x].priority) \in Slot
      /\ Loaded(TRUE, slots[x].priority).mode = "run"
  <2>1. slots[x].priority \in Priorities \cup {0}
    BY DEF Slot
  <2> QED BY <2>1, LoadedType
<1>4. t = u \/ t = v
  BY DEF Destroy
<1>5. CASE t = u
  BY <1>1, <1>5
<1>6. CASE t = v
  <2> HIDE DEF slot
  <2>1. t \in [Cpus -> Slot]
    BY <1>1, <1>2, <1>3, <1>6
  <2>2. \A y \in Cpus \ {x} : slots[y].used => t[y] = slots[y]
    BY <1>1, <1>2, <1>6
  <2>3. \A y \in Cpus : t[y].used /\ t[y].mode # "run" => y # x /\ t[y] = slots[y]
    <3> SUFFICES ASSUME NEW y \in Cpus, t[y].used, t[y].mode # "run"
                 PROVE  y # x /\ t[y] = slots[y]
      OBVIOUS
    <3>1. y # slot
      BY <1>1, <1>2, <1>3, <1>6
    <3> QED BY <1>1, <1>6, <3>1
  <2> QED BY <2>1, <2>2, <2>3
<1> QED BY <1>4, <1>5, <1>6

-----------------------------------------------------------------------------
(* The end of a slot's turn *)

\* A difference of 32-bit times, halved, is a number.
LEMMA NapType ==
  ASSUME NEW t, NEW i, t.sleep_to \in Nat, t.datime \in Nat
  PROVE  Nap(t, i) \in Nat
<1> DEFINE d == Minus(t.sleep_to, t.datime)
<1>1. d \in Int
  BY SchedulerAssumption DEF Minus
<1> HIDE DEF d
<1>2. d > 0 => d \div 2 \in Nat
  BY <1>1
<1>3. (IF i.wait_babe /\ t.sleep_to # 0 /\ d > 0 THEN d \div 2 ELSE 0) \in Nat
  BY <1>2
<1>4. (IF i.safe_usleep THEN SafeUsleep ELSE 0) \in Nat
  BY SchedulerAssumption
<1> QED BY <1>3, <1>4 DEF Nap, d

LEMMA GoOnType ==
  ASSUME NEW t \in Timers, NEW i \in Idles, curr \in Cpus, clock \in Nat,
         GoOn(t, i)
  PROVE  /\ curr' \in Cpus \cup {NoCpu}
         /\ left' \in Nat \cup {NotYet}
         /\ timer' = t /\ timer' \in Timers
         /\ idle' \in Idles
<1>1. Nap(t, i) \in Nat
  BY NapType DEF Timers
<1>2. CASE curr < TopCpu
  BY <1>2, SchedulerAssumption DEF GoOn, Cpus
<1>3. CASE ~ (curr < TopCpu)
  <2>1. idle' = [i EXCEPT !.nap = Nap(t, i), !.began = clock]
    BY <1>3 DEF GoOn
  <2>2. \A n \in Nat, b \in Nat : [i EXCEPT !.nap = n, !.began = b] \in Idles
    BY DEF Idles
  <2>3. idle' \in Idles
    BY <1>1, <2>1, <2>2
  <2> QED BY <1>3, <2>3 DEF GoOn
<1> QED BY <1>2, <1>3 DEF GoOn

LEMMA BusyType == ASSUME idle \in Idles PROVE Busy \in Idles
BY DEF Busy, Idles

-----------------------------------------------------------------------------
(* Every step keeps the types *)

LEMMA TypeInit == ASSUME Init PROVE TypeOK
<1>1. Images \cup {Vacant} \subseteq Slot
  BY VacantType, LoadedType DEF Images
<1>2. cpu \in [Cpus -> Slot]
  BY <1>1 DEF Init
<1>3. timer \in Timers /\ idle \in Idles
  BY DEF Init, Timers, Idles
<1>4. curr \in Cpus \cup {NoCpu} /\ left \in Nat \cup {NotYet}
  BY DEF Init
<1>5. clock \in 0 .. MaxTime /\ until \in [Cpus -> Nat]
  BY SchedulerAssumption DEF Init
<1> QED BY <1>2, <1>3, <1>4, <1>5 DEF Init, TypeOK

\* What a step does to sleepers, unless one goes to sleep or is looked at.
Still ==
  \A y \in Cpus :
    /\ Sleeper(cpu', y) <=> Sleeper(cpu, y)
    /\ Sleeper(cpu, y) => cpu'[y] = cpu[y] /\ until'[y] = until[y]

\* A step that writes one slot, whose process does not sleep
LEMMA OneSlot ==
  ASSUME TypeOK, NEW x \in Cpus, NEW p \in Slot,
         ~ Sleeper(cpu, x), ~ p.used \/ p.mode # "sleepuntil",
         cpu' = [cpu EXCEPT ![x] = p], until' = until
  PROVE  cpu' \in [Cpus -> Slot] /\ Still
BY DEF TypeOK, Still, Sleeper

\* A step that destroys a process that does not sleep
LEMMA OneDestroyed ==
  ASSUME TypeOK, NEW x \in Cpus, ~ Sleeper(cpu, x),
         cpu' \in Destroy(cpu, x), until' = until
  PROVE  cpu' \in [Cpus -> Slot] /\ Still
<1>1. /\ cpu' \in [Cpus -> Slot]
      /\ \A y \in Cpus \ {x} : cpu[y].used => cpu'[y] = cpu[y]
      /\ \A y \in Cpus : Sleeper(cpu', y) => y # x /\ cpu'[y] = cpu[y]
  BY DestroyGood DEF TypeOK, Sleeper
<1> QED BY <1>1 DEF Still, Sleeper

LEMMA NoSlot ==
  ASSUME TypeOK, UNCHANGED <<cpu, until>>
  PROVE  cpu' \in [Cpus -> Slot] /\ Still
BY DEF TypeOK, Still, Sleeper

\* A field of a slot is written.
LEMMA FieldType ==
  ASSUME NEW p \in Slot
  PROVE  /\ \A m \in Waits \cup {"run"} : [p EXCEPT !.mode = m] \in Slot
         /\ \A o \in BOOLEAN : [p EXCEPT !.outside = o] \in Slot
         /\ \A n \in Nat : [p EXCEPT !.work_cycles = n] \in Slot
         /\ \A n \in Nat, m \in Waits \cup {"run"} :
              /\ [p EXCEPT !.mode = m, !.cnt_down = n] \in Slot
              /\ [p EXCEPT !.mode = m, !.wake_on = n] \in Slot
BY DEF Slot

LEMMA WaitModes ==
  {"sleepfor", "sleepuntil", "iowait", "critwait", "ipcwait"} \subseteq Waits
BY DEF Waits

-----------------------------------------------------------------------------
(* The cycle's steps *)

LEMMA StartCycleGood == ASSUME TypeOK, StartCycle PROVE TypeOK' /\ Still
<1>1. Now \in Nat /\ (Now + SafeUsleep) % TimeSpace \in Nat
  BY SchedulerAssumption DEF TypeOK, Now
<1>2. timer' \in Timers /\ idle' \in Idles
  BY <1>1 DEF TypeOK, StartCycle, Timers, Idles
<1>3. curr' \in Cpus
  BY SchedulerAssumption DEF StartCycle, Cpus
<1>4. Still
  BY NoSlot DEF StartCycle
<1> QED BY <1>2, <1>3, <1>4 DEF TypeOK, StartCycle

\* The slot is left: what remains to be shown is its new contents.
LEMMA GoOnGood ==
  ASSUME TypeOK, NEW x \in Cpus, curr = x,
         NEW t \in Timers, NEW i \in Idles, GoOn(t, i),
         cpu' \in [Cpus -> Slot], but_in_fact_it_was_fatal' \in BOOLEAN,
         UNCHANGED <<clock, until>>
  PROVE  TypeOK' /\ timer' = t
<1> clock \in Nat
  BY SchedulerAssumption DEF TypeOK
<1>1. /\ curr' \in Cpus \cup {NoCpu} /\ left' \in Nat \cup {NotYet}
      /\ timer' = t /\ timer' \in Timers /\ idle' \in Idles
  BY GoOnType
<1> QED BY <1>1 DEF TypeOK

LEMMA SkipGood ==
  ASSUME TypeOK, NEW x \in Cpus, SkipIdle(x) \/ SkipIPC(x)
  PROVE  TypeOK' /\ Still /\ timer' = timer
<1>1. curr = x /\ GoOn(timer, idle) /\ UNCHANGED <<cpu, but_in_fact_it_was_fatal, clock, until>>
  BY DEF SkipIdle, SkipIPC, Waiting, Looks
<1>2. cpu' \in [Cpus -> Slot] /\ Still
  BY <1>1, NoSlot
<1>3. timer \in Timers /\ idle \in Idles /\ but_in_fact_it_was_fatal' \in BOOLEAN
  BY <1>1 DEF TypeOK
<1> QED BY <1>1, <1>2, <1>3, GoOnGood

LEMMA CountDownGood ==
  ASSUME TypeOK, NEW x \in Cpus, CountDown(x)
  PROVE  TypeOK' /\ Still /\ timer' = timer
<1> DEFINE n == Fewer(cpu[x].cnt_down)
           m == IF Counted(cpu[x].cnt_down) THEN "run" ELSE cpu[x].mode
           p == [cpu[x] EXCEPT !.cnt_down = n, !.mode = m]
<1>1. curr = x /\ cpu[x].mode = "sleepfor"
  BY DEF CountDown, Waiting, Looks
<1>2. p \in Slot /\ p.mode # "sleepuntil"
  <2>1. cpu[x] \in Slot /\ n \in Nat
    BY DEF TypeOK, Slot, Fewer
  <2>2. m \in Waits \cup {"run"} /\ m # "sleepuntil"
    BY <1>1, WaitModes
  <2> HIDE DEF n, m
  <2> QED BY <2>1, <2>2 DEF Slot
<1>3. cpu' = [cpu EXCEPT ![x] = p]
  BY DEF CountDown, TypeOK
<1>4. cpu' \in [Cpus -> Slot] /\ Still
  <2> HIDE DEF p
  <2> QED BY <1>1, <1>2, <1>3, OneSlot DEF CountDown, Sleeper
<1>5. timer \in Timers /\ Busy \in Idles /\ but_in_fact_it_was_fatal' \in BOOLEAN
  BY BusyType DEF TypeOK, CountDown
<1> QED BY <1>1, <1>4, <1>5, GoOnGood DEF CountDown

LEMMA PollIOGood ==
  ASSUME TypeOK, NEW x \in Cpus, PollIO(x)
  PROVE  TypeOK' /\ Still /\ timer' = timer
<1> DEFINE i == Alert(cpu[x])
<1>1. curr = x /\ ~ Sleeper(cpu, x) /\ GoOn(timer, i) /\ UNCHANGED <<clock, until>>
  BY DEF PollIO, Waiting, Looks, Sleeper
<1>2. cpu[x] \in Slot /\ timer \in Timers /\ i \in Idles
  BY BusyType DEF TypeOK, Alert
<1> HIDE DEF i
<1>3. /\ cpu' \in [Cpus -> Slot] /\ Still
      /\ but_in_fact_it_was_fatal' \in BOOLEAN
  <2>1. CASE cpu' = [cpu EXCEPT ![x].mode = "run"] /\ UNCHANGED but_in_fact_it_was_fatal
    <3>1. [cpu[x] EXCEPT !.mode = "run"] \in Slot
      BY <1>2, FieldType
    <3>2. [cpu[x] EXCEPT !.mode = "run"].mode = "run"
      BY <1>2 DEF Slot
    <3>3. cpu' = [cpu EXCEPT ![x] = [cpu[x] EXCEPT !.mode = "run"]]
      BY <2>1
    <3> QED BY <1>1, <2>1, <3>1, <3>2, <3>3, OneSlot DEF TypeOK
  <2>2. CASE UNCHANGED <<cpu, but_in_fact_it_was_fatal>>
    BY <1>1, <2>2, NoSlot DEF TypeOK
  <2>3. CASE cpu' = [cpu EXCEPT ![x].outside = FALSE] /\ UNCHANGED but_in_fact_it_was_fatal
    <3>1. [cpu[x] EXCEPT !.outside = FALSE] \in Slot
      BY <1>2, FieldType
    <3>2. [cpu[x] EXCEPT !.outside = FALSE].mode # "sleepuntil"
      BY <1>2 DEF Slot, PollIO, Waiting
    <3>3. cpu' = [cpu EXCEPT ![x] = [cpu[x] EXCEPT !.outside = FALSE]]
      BY <2>3
    <3> QED BY <1>1, <2>3, <3>1, <3>2, <3>3, OneSlot DEF TypeOK
  <2>4. CASE cpu' \in Destroy(cpu, x) /\ but_in_fact_it_was_fatal' = TRUE
    BY <1>1, <2>4, OneDestroyed
  <2> QED BY <2>1, <2>2, <2>3, <2>4 DEF PollIO
<1> QED BY <1>1, <1>2, <1>3, GoOnGood

\* What looking at a sleeper does to sleepers: it may wake up this one, if the
\* time the kernel read is later than its wake_on.
LEMMA CheckTimeGood ==
  ASSUME TypeOK, NEW x \in Cpus, CheckTime(x)
  PROVE  /\ TypeOK' /\ timer'.datime = timer.datime /\ until' = until
         /\ clock' = clock
         /\ \A y \in Cpus : Sleeper(cpu', y) =>
              Sleeper(cpu, y) /\ cpu'[y].wake_on = cpu[y].wake_on
         /\ \A y \in Cpus : Sleeper(cpu, y) /\ ~ Sleeper(cpu', y) =>
              timer.datime > cpu[y].wake_on
<1> DEFINE m == IF timer.datime > cpu[x].wake_on THEN "run" ELSE cpu[x].mode
           p == [cpu[x] EXCEPT !.mode = m]
           t == Sooner(Noticed(timer), cpu[x])
           i == [idle EXCEPT !.safe_usleep = FALSE]
<1>1. curr = x /\ cpu[x] \in Slot /\ Sleeper(cpu, x)
  BY DEF CheckTime, Waiting, Looks, TypeOK, Sleeper
<1>2. t \in Timers /\ i \in Idles /\ t.datime = timer.datime
  <2>1. Noticed(timer) \in Timers /\ Noticed(timer).datime = timer.datime
    BY DEF TypeOK, Noticed, Timers
  <2>2. cpu[x].wake_on \in Nat
    BY <1>1 DEF Slot
  <2> QED BY <2>1, <2>2 DEF Sooner, Timers, TypeOK, Idles
<1>3. m \in Waits \cup {"run"}
  BY <1>1 DEF Slot
<1>4. p \in Slot
  BY <1>1, <1>3, FieldType
<1>5. cpu' = [cpu EXCEPT ![x] = p]
  BY DEF CheckTime, TypeOK
<1>6. /\ p.used = cpu[x].used /\ p.wake_on = cpu[x].wake_on
      /\ p.mode = m
  BY <1>1 DEF Slot
<1>7. cpu' \in [Cpus -> Slot]
  BY <1>4, <1>5 DEF TypeOK
<1>8. TypeOK' /\ timer' = t
  <2> HIDE DEF t, i
  <2>1. GoOn(t, i) /\ UNCHANGED <<clock, until>> /\ but_in_fact_it_was_fatal' \in BOOLEAN
    BY DEF CheckTime, t, i, TypeOK
  <2> QED BY <1>1, <1>2, <1>7, <2>1, GoOnGood
<1>9. \A y \in Cpus \ {x} : cpu'[y] = cpu[y]
  BY <1>5 DEF TypeOK
<1>10. cpu'[x] = p
  BY <1>5 DEF TypeOK
<1>11. \A y \in Cpus : Sleeper(cpu', y) =>
         Sleeper(cpu, y) /\ cpu'[y].wake_on = cpu[y].wake_on
  BY <1>1, <1>6, <1>9, <1>10 DEF Sleeper
<1>12. \A y \in Cpus : Sleeper(cpu, y) /\ ~ Sleeper(cpu', y) =>
         timer.datime > cpu[y].wake_on
  <2> SUFFICES ASSUME NEW y \in Cpus, Sleeper(cpu, y), ~ Sleeper(cpu', y)
               PROVE  timer.datime > cpu[y].wake_on
    OBVIOUS
  <2>1. y = x
    BY <1>9 DEF Sleeper
  <2>2. p.mode # "sleepuntil"
    BY <1>1, <1>6, <1>10, <2>1 DEF Sleeper
  <2>3. timer.datime > cpu[x].wake_on
    BY <1>1, <1>6, <2>2 DEF Sleeper
  <2> QED BY <2>1, <2>3
<1> QED BY <1>2, <1>8, <1>11, <1>12 DEF CheckTime

LEMMA BeginTurnGood ==
  ASSUME TypeOK, NEW x \in Cpus, BeginTurn(x)
  PROVE  TypeOK' /\ Still /\ timer' = timer
<1>1. left' \in Nat
  BY SchedulerAssumption DEF BeginTurn, TypeOK, Slot
<1>2. Still
  BY NoSlot DEF BeginTurn
<1> QED BY <1>1, <1>2 DEF BeginTurn, TypeOK

LEMMA EndTurnGood ==
  ASSUME TypeOK, NEW x \in Cpus, EndTurn(x)
  PROVE  TypeOK' /\ timer' = timer
         /\ \A y \in Cpus : /\ Sleeper(cpu', y) <=> Sleeper(cpu, y)
                            /\ cpu'[y].wake_on = cpu[y].wake_on
         /\ until' = until /\ clock' = clock
<1>1. curr = x /\ cpu[x] \in Slot
  BY DEF EndTurn, InTurn, TypeOK
<1>2. /\ cpu' \in [Cpus -> Slot]
      /\ \A y \in Cpus : /\ Sleeper(cpu', y) <=> Sleeper(cpu, y)
                         /\ cpu'[y].wake_on = cpu[y].wake_on
  <2> DEFINE n == cpu[x].work_cycles + 1
             p == [cpu[x] EXCEPT !.work_cycles = n]
  <2>1. CASE cpu' = cpu
    BY <2>1 DEF TypeOK, Sleeper
  <2>2. CASE cpu' = [cpu EXCEPT ![x].work_cycles = @ + 1]
    <3>1. n \in Nat
      BY <1>1 DEF Slot
    <3>2. p \in Slot
      BY <1>1, <3>1, FieldType
    <3>3. p.used = cpu[x].used /\ p.mode = cpu[x].mode /\ p.wake_on = cpu[x].wake_on
      BY <1>1 DEF Slot
    <3>4. cpu' = [cpu EXCEPT ![x] = p]
      BY <2>2 DEF TypeOK
    <3> HIDE DEF p
    <3> QED BY <3>2, <3>3, <3>4 DEF TypeOK, Sleeper
  <2> QED BY <2>1, <2>2 DEF EndTurn
<1>3. timer \in Timers /\ Busy \in Idles /\ but_in_fact_it_was_fatal' \in BOOLEAN
  BY BusyType DEF TypeOK, EndTurn
<1>4. TypeOK' /\ timer' = timer
  BY <1>1, <1>2, <1>3, GoOnGood DEF EndTurn
<1> QED BY <1>2, <1>4 DEF EndTurn

-----------------------------------------------------------------------------
(* The instructions *)

\* What is left of the turn
LEMMA FetchesGood ==
  ASSUME TypeOK, NEW x \in Cpus, Fetches(x)
  PROVE  /\ left' \in Nat /\ cpu[x] \in Slot /\ ~ Sleeper(cpu, x)
         /\ cpu[x].mode = "run"
         /\ UNCHANGED <<curr, clock, timer, idle>>
BY DEF Fetches, Running, TypeOK, Sleeper, NotYet

\* An instruction that rewrites its slot but does not begin a sleep
LEMMA RewriteGood ==
  ASSUME TypeOK, NEW x \in Cpus, Fetches(x), NEW p \in Slot,
         ~ p.used \/ p.mode # "sleepuntil",
         cpu' = [cpu EXCEPT ![x] = p], until' = until,
         but_in_fact_it_was_fatal' \in BOOLEAN
  PROVE  TypeOK' /\ Still /\ timer' = timer
<1>1. cpu' \in [Cpus -> Slot] /\ Still
  BY FetchesGood, OneSlot
<1> QED BY <1>1, FetchesGood DEF TypeOK

LEMMA ComputeGood ==
  ASSUME TypeOK, NEW x \in Cpus, Compute(x)
  PROVE  TypeOK' /\ Still /\ timer' = timer
<1>1. Fetches(x) /\ cpu[x] \in Slot /\ cpu[x].mode = "run"
  BY FetchesGood DEF Compute
<1>2. PICK o \in BOOLEAN : cpu' = [cpu EXCEPT ![x].outside = o]
  BY DEF Compute
<1>3. [cpu[x] EXCEPT !.outside = o] \in Slot
  BY <1>1, FieldType
<1>4. [cpu[x] EXCEPT !.outside = o].mode = "run"
  BY <1>1 DEF Slot
<1>5. cpu' = [cpu EXCEPT ![x] = [cpu[x] EXCEPT !.outside = o]]
  BY <1>2
<1> QED BY <1>1, <1>3, <1>4, <1>5, RewriteGood DEF Compute

LEMMA CwaitGood ==
  ASSUME TypeOK, NEW x \in Cpus, Cwait(x)
  PROVE  TypeOK' /\ Still /\ timer' = timer
<1>1. Fetches(x) /\ cpu[x] \in Slot
  BY FetchesGood DEF Cwait
<1>2. PICK n \in Counts :
        cpu' = [cpu EXCEPT ![x].mode = "sleepfor", ![x].cnt_down = n]
  BY DEF Cwait
<1> DEFINE p == [cpu[x] EXCEPT !.mode = "sleepfor", !.cnt_down = n]
<1>3. p \in Slot
  BY <1>1, FieldType, WaitModes, SchedulerAssumption
<1>4. p.mode = "sleepfor"
  BY <1>1 DEF Slot
<1>5. cpu' = [cpu EXCEPT ![x] = p]
  BY <1>2 DEF TypeOK
<1> HIDE DEF p
<1> QED BY <1>1, <1>3, <1>4, <1>5, RewriteGood DEF Cwait

LEMMA EnterWaitGood ==
  ASSUME TypeOK, NEW x \in Cpus, EnterWait(x)
  PROVE  TypeOK' /\ Still /\ timer' = timer
<1>1. Fetches(x) /\ cpu[x] \in Slot
  BY FetchesGood DEF EnterWait
<1>2. PICK m \in {"iowait", "critwait", "ipcwait"} : cpu' = [cpu EXCEPT ![x].mode = m]
  BY DEF EnterWait
<1>3. [cpu[x] EXCEPT !.mode = m] \in Slot
  BY <1>1, FieldType, WaitModes
<1>4. [cpu[x] EXCEPT !.mode = m].mode # "sleepuntil"
  BY <1>1 DEF Slot
<1>5. cpu' = [cpu EXCEPT ![x] = [cpu[x] EXCEPT !.mode = m]]
  BY <1>2
<1> QED BY <1>1, <1>3, <1>4, <1>5, RewriteGood DEF EnterWait

LEMMA HaltGood ==
  ASSUME TypeOK, NEW x \in Cpus, Halt(x)
  PROVE  TypeOK' /\ Still /\ timer' = timer
BY VacantType, RewriteGood DEF Halt

LEMMA CrashGood ==
  ASSUME TypeOK, NEW x \in Cpus, Crash(x)
  PROVE  TypeOK' /\ Still /\ timer' = timer
<1>1. cpu' \in [Cpus -> Slot] /\ Still
  BY FetchesGood, OneDestroyed DEF Crash
<1> QED BY <1>1, FetchesGood DEF Crash, TypeOK

LEMMA SignalGood ==
  ASSUME TypeOK, NEW x \in Cpus, Signal(x)
  PROVE  TypeOK' /\ Still /\ timer' = timer
<1>1. ~ Sleeper(cpu, x)
  BY DEF Signal, Running, Sleeper
<1>2. cpu' \in [Cpus -> Slot] /\ Still
  BY <1>1, OneDestroyed DEF Signal
<1> QED BY <1>2 DEF Signal, TypeOK

LEMMA OutsideCodeGood ==
  ASSUME TypeOK, NEW x \in Cpus, OutsideCode(x)
  PROVE  TypeOK' /\ Still /\ timer' = timer
<1>1. /\ ~ Sleeper(cpu, x) /\ cpu[x] \in Slot /\ left' \in Nat
      /\ cpu[x].mode = "run" /\ until' = until
  BY DEF OutsideCode, Running, Sleeper, TypeOK, NotYet
<1>2. /\ cpu' \in [Cpus -> Slot] /\ Still
      /\ but_in_fact_it_was_fatal' \in BOOLEAN
  <2>1. CASE UNCHANGED <<cpu, but_in_fact_it_was_fatal>>
    BY <1>1, <2>1, NoSlot DEF TypeOK
  <2>2. CASE cpu' = [cpu EXCEPT ![x].outside = FALSE] /\ UNCHANGED but_in_fact_it_was_fatal
    <3>1. [cpu[x] EXCEPT !.outside = FALSE] \in Slot
      BY <1>1, FieldType
    <3>2. [cpu[x] EXCEPT !.outside = FALSE].mode = "run"
      BY <1>1 DEF Slot
    <3>3. cpu' = [cpu EXCEPT ![x] = [cpu[x] EXCEPT !.outside = FALSE]]
      BY <2>2
    <3> QED BY <1>1, <2>2, <3>1, <3>2, <3>3, OneSlot DEF TypeOK
  <2>3. CASE cpu' \in Destroy(cpu, x) /\ but_in_fact_it_was_fatal' = TRUE
    BY <1>1, <2>3, OneDestroyed
  <2> QED BY <2>1, <2>2, <2>3 DEF OutsideCode
<1> QED BY <1>1, <1>2 DEF OutsideCode, TypeOK

LEMMA IPCWakeGood ==
  ASSUME TypeOK, NEW x \in Cpus, IPCWake(x)
  PROVE  TypeOK' /\ Still /\ timer' = timer
<1>1. ~ Sleeper(cpu, x) /\ cpu[x] \in Slot
  BY DEF IPCWake, Sleeper, TypeOK
<1>2. [cpu[x] EXCEPT !.mode = "run"] \in Slot
  BY <1>1, FieldType
<1>3. [cpu[x] EXCEPT !.mode = "run"].mode = "run"
  BY <1>1 DEF Slot
<1>4. cpu' = [cpu EXCEPT ![x] = [cpu[x] EXCEPT !.mode = "run"]]
  BY DEF IPCWake
<1>5. cpu' \in [Cpus -> Slot] /\ Still
  BY <1>1, <1>2, <1>3, <1>4, OneSlot DEF IPCWake
<1> QED BY <1>5 DEF IPCWake, TypeOK

LEMMA TickGood == ASSUME TypeOK, Tick PROVE TypeOK' /\ Still /\ timer' = timer
BY NoSlot, SchedulerAssumption DEF Tick, TypeOK

\* A process goes to sleep until n microseconds from now.
LEMMA TwaitGood ==
  ASSUME TypeOK, NEW x \in Cpus, Twait(x)
  PROVE  /\ TypeOK' /\ timer' = timer /\ clock' = clock
         /\ \A y \in Cpus \ {x} : /\ cpu'[y] = cpu[y] /\ until'[y] = until[y]
         /\ \E n \in Micros :
              /\ clock + n < MaxTime
              /\ cpu'[x].wake_on = WakeOn(n) /\ until'[x] = clock + n
<1>1. Fetches(x) /\ cpu[x] \in Slot
  BY FetchesGood DEF Twait
<1>2. PICK n \in Micros :
        /\ clock + n < MaxTime
        /\ cpu' = [cpu EXCEPT ![x].mode = "sleepuntil", ![x].wake_on = WakeOn(n)]
        /\ until' = [until EXCEPT ![x] = clock + n]
  BY DEF Twait
<1> DEFINE p == [cpu[x] EXCEPT !.mode = "sleepuntil", !.wake_on = WakeOn(n)]
<1>3. n \in Nat /\ WakeOn(n) \in Nat /\ clock + n \in Nat
  BY SchedulerAssumption DEF TypeOK, WakeOn, Now
<1>4. p \in Slot /\ p.wake_on = WakeOn(n)
  <2>1. p \in Slot
    BY <1>1, <1>3, FieldType, WaitModes
  <2> QED BY <1>1, <2>1 DEF Slot
<1>5. cpu' = [cpu EXCEPT ![x] = p]
  BY <1>2 DEF TypeOK
<1> HIDE DEF p
<1>6. cpu' \in [Cpus -> Slot] /\ cpu'[x] = p /\ \A y \in Cpus \ {x} : cpu'[y] = cpu[y]
  BY <1>4, <1>5 DEF TypeOK
<1>7. /\ until' \in [Cpus -> Nat] /\ until'[x] = clock + n
      /\ \A y \in Cpus \ {x} : until'[y] = until[y]
  BY <1>2, <1>3 DEF TypeOK
<1>8. TypeOK' /\ timer' = timer /\ clock' = clock
  BY <1>1, <1>6, <1>7, FetchesGood DEF Twait, TypeOK
<1> QED BY <1>2, <1>4, <1>6, <1>7, <1>8

\* The steps that neither begin nor end a sleep
Others ==
  \/ StartCycle \/ Tick
  \/ \E x \in Cpus :
       \/ SkipIdle(x) \/ CountDown(x) \/ PollIO(x) \/ SkipIPC(x) \/ BeginTurn(x)
       \/ Compute(x) \/ Cwait(x) \/ EnterWait(x) \/ Halt(x)
       \/ Crash(x) \/ OutsideCode(x) \/ Signal(x) \/ IPCWake(x)

LEMMA OthersGood ==
  ASSUME TypeOK, Others
  PROVE  TypeOK' /\ Still /\ (StartCycle \/ timer' = timer)
BY StartCycleGood, SkipGood, CountDownGood, PollIOGood, BeginTurnGood,
   ComputeGood, CwaitGood, EnterWaitGood, HaltGood, CrashGood, OutsideCodeGood,
   SignalGood, IPCWakeGood, TickGood DEF Others

LEMMA NextCases ==
  ASSUME Next
  PROVE  Others \/ \E x \in Cpus : CheckTime(x) \/ EndTurn(x) \/ Twait(x)
BY DEF Next, Cycle, Others

LEMMA TypePreserved == ASSUME TypeOK, [Next]_vars PROVE TypeOK'
<1>1. CASE Next
  BY <1>1, NextCases, OthersGood, CheckTimeGood, EndTurnGood, TwaitGood
<1>2. CASE UNCHANGED vars
  BY <1>2 DEF vars, TypeOK
<1> QED BY <1>1, <1>2

\* The slots, the counters and the two clocks of the kernel keep their types,
\* whatever processes do, how often they crash, and when (task.c task_cycle).
THEOREM TypeCorrect == Spec => []TypeOK
<1>1. Init => TypeOK
  BY TypeInit
<1>2. TypeOK /\ [Next]_vars => TypeOK'
  BY TypePreserved
<1> QED BY <1>1, <1>2, PTL DEF Spec

-----------------------------------------------------------------------------
(* Sleepers are not woken early. *)

\* A 32-bit number below 2^32 is itself.
LEMMA NoWrapMod ==
  ASSUME NoWrap, NEW n \in Nat, n <= MaxTime
  PROVE  n % TimeSpace = n
BY SchedulerAssumption DEF NoWrap

LEMMA TimelyInit == ASSUME Init PROVE Timely
<1>1. \A p \in Images \cup {Vacant} : ~ (p.used /\ p.mode = "sleepuntil")
  <2>1. ~ (Vacant.used /\ Vacant.mode = "sleepuntil")
    BY VacantType
  <2>2. \A r \in BOOLEAN, q \in Priorities : Loaded(r, q).mode = "run"
    BY LoadedType
  <2> QED BY <2>1, <2>2 DEF Images
<1>2. \A x \in Cpus : ~ Sleeper(cpu, x)
  BY <1>1 DEF Init, Sleeper
<1> QED BY <1>2 DEF Init, Timely

\* The clock never goes back, and is not ahead of what it is read as.
LEMMA ClockGrows == ASSUME TypeOK, Others PROVE clock <= clock'
<1>1. clock' = clock \/ Tick
  BY DEF Others, StartCycle, SkipIdle, CountDown, PollIO, SkipIPC, BeginTurn,
         Compute, Cwait, EnterWait, Halt, Crash, OutsideCode, Signal, IPCWake,
         Fetches
<1> QED BY <1>1 DEF Tick, TypeOK

LEMMA TimelyPreserved ==
  ASSUME NoWrap, TypeOK, Timely, [Next]_vars
  PROVE  Timely'
<1>1. clock \in Nat /\ clock <= MaxTime /\ timer.datime \in Nat
  BY SchedulerAssumption DEF TypeOK, Timers
<1>2. CASE Others
  <2>1. Still /\ (StartCycle \/ timer' = timer) /\ clock <= clock'
    BY <1>2, OthersGood, ClockGrows
  <2>2. timer'.datime <= clock'
    <3>1. CASE timer' = timer
      <4>1. clock' \in Nat
        BY <1>2, OthersGood, SchedulerAssumption DEF TypeOK
      <4> QED BY <1>1, <2>1, <3>1, <4>1 DEF Timely
    <3>2. CASE StartCycle
      <4>1. timer'.datime \in {timer.datime, Now} /\ clock' = clock
        BY <3>2 DEF StartCycle
      <4>2. Now = clock
        BY <1>1, NoWrapMod DEF Now
      <4> QED BY <1>1, <4>1, <4>2 DEF Timely
    <3> QED BY <2>1, <3>1, <3>2
  <2>3. \A y \in Cpus : Sleeper(cpu', y) => cpu'[y].wake_on = until'[y]
    BY <2>1 DEF Still, Timely
  <2> QED BY <2>2, <2>3 DEF Timely
<1>3. ASSUME NEW x \in Cpus, CheckTime(x) PROVE Timely'
  BY <1>3, CheckTimeGood DEF Timely
<1>4. ASSUME NEW x \in Cpus, EndTurn(x) PROVE Timely'
  BY <1>4, EndTurnGood DEF Timely
<1>5. ASSUME NEW x \in Cpus, Twait(x) PROVE Timely'
  <2>1. PICK n \in Micros :
          /\ clock + n < MaxTime
          /\ cpu'[x].wake_on = WakeOn(n) /\ until'[x] = clock + n
    BY <1>5, TwaitGood
  <2>2. n \in Nat
    BY SchedulerAssumption
  <2>3. WakeOn(n) = clock + n
    <3>1. Now = clock
      BY <1>1, NoWrapMod DEF Now
    <3>2. (clock + n) % TimeSpace = clock + n
      BY <1>1, <2>1, <2>2, NoWrapMod, SchedulerAssumption
    <3> QED BY <3>1, <3>2 DEF WakeOn
  <2>4. \A y \in Cpus \ {x} : cpu'[y] = cpu[y] /\ until'[y] = until[y]
    BY <1>5, TwaitGood
  <2>5. \A y \in Cpus : Sleeper(cpu', y) => cpu'[y].wake_on = until'[y]
    BY <2>1, <2>3, <2>4 DEF Timely, Sleeper
  <2> QED BY <1>5, <2>5, TwaitGood DEF Timely
<1>6. CASE UNCHANGED vars
  BY <1>6 DEF vars, Timely, Sleeper
<1> QED BY <1>2, <1>3, <1>4, <1>5, <1>6, NextCases

\* The step that wakes a sleeper compares its wake_on with a time that the
\* clock has reached.
LEMMA WakesInTime ==
  ASSUME TypeOK, Timely, Next, NEW x \in Cpus,
         Sleeper(cpu, x), ~ Sleeper(cpu', x)
  PROVE  clock >= until[x]
<1>1. ~ Others
  BY OthersGood DEF Still
<1>2. ASSUME NEW y \in Cpus, EndTurn(y) PROVE FALSE
  BY <1>2, EndTurnGood
<1>3. ASSUME NEW y \in Cpus, Twait(y) PROVE FALSE
  <2>1. x = y
    BY <1>3, TwaitGood DEF Sleeper
  <2> QED BY <1>3, <2>1, FetchesGood DEF Twait
<1>4. ASSUME NEW y \in Cpus, CheckTime(y) PROVE clock >= until[x]
  <2>1. timer.datime > cpu[x].wake_on
    BY <1>4, CheckTimeGood
  <2>2. timer.datime <= clock /\ cpu[x].wake_on = until[x]
    BY DEF Timely
  <2>3. until[x] \in Nat /\ clock \in Nat /\ timer.datime \in Nat
    BY SchedulerAssumption DEF TypeOK, Timers
  <2> QED BY <2>1, <2>2, <2>3
<1> QED BY <1>1, <1>2, <1>3, <1>4, NextCases

\* As long as the clock does not wrap, a process in TWAIT is never woken before
\* its time, although the kernel compares wake_on with the time it read at the
\* start of some cycle (task.c:182-187,275).
THEOREM SleepersSleepOn ==
  ASSUME NoWrap
  PROVE  Spec => NotWokenEarly
<1>1. Init => TypeOK /\ Timely
  BY TypeInit, TimelyInit
<1>2. TypeOK /\ Timely /\ [Next]_vars => (TypeOK /\ Timely)'
  BY TypePreserved, TimelyPreserved
<1>3. TypeOK /\ Timely /\ [Next]_vars => [WokenInTime]_vars
  BY WakesInTime DEF WokenInTime
<1> QED BY <1>1, <1>2, <1>3, PTL DEF Spec, NotWokenEarly

-----------------------------------------------------------------------------
(* The kernel does not oversleep. *)

\* Not even the end of the kernel's sleep lies beyond half the clock's range.
FarFromWrap == 2 * (MaxTime + SafeUsleep) < TimeSpace

\* What the visited sleepers have made of the cycle's flags
Heeded(p) ==
  p.used =>
    /\ p.mode \in Restless => ~ idle.safe_usleep /\ ~ idle.wait_babe
    /\ p.mode = "sleepuntil" =>
         /\ ~ idle.safe_usleep
         /\ idle.wait_babe => timer.sleep_to <= p.wake_on

Visited(y) == curr \in Cpus /\ y < curr

Resting ==
  /\ timer.sleep_to <= MaxTime + SafeUsleep
  /\ \A y \in Cpus : Visited(y) => Heeded(cpu[y])
  /\ curr \in Cpus => idle.nap = 0
  /\ KernelDoesNotOversleep

\* The difference of two times that are not far apart
LEMMA MinusValue ==
  ASSUME FarFromWrap, NEW a \in Nat, NEW b \in Nat,
         a <= MaxTime + SafeUsleep, b <= MaxTime + SafeUsleep
  PROVE  Minus(a, b) = a - b
<1>1. 2 * a < TimeSpace /\ 2 * b < TimeSpace
  BY SchedulerAssumption DEF FarFromWrap
<1>2. CASE a >= b
  <2>1. (a - b) % TimeSpace = a - b
    BY <1>1, <1>2, SchedulerAssumption
  <2> QED BY <1>1, <1>2, <2>1, SchedulerAssumption DEF Minus
<1>3. CASE a < b
  <2>1. (a - b) % TimeSpace = a - b + TimeSpace
    BY <1>1, <1>3, SchedulerAssumption
  <2> QED BY <1>1, <1>3, <2>1, SchedulerAssumption DEF Minus
<1> QED BY <1>2, <1>3

\* The end of a turn that heeds its own slot, as the slots before it are heeded
LEMMA RestAfter ==
  ASSUME FarFromWrap, TypeOK, Timely', TypeOK', NEW x \in Cpus, curr = x,
         NEW t \in Timers, NEW i \in Idles, GoOn(t, i),
         t.sleep_to <= MaxTime + SafeUsleep, i.nap = 0,
         \A y \in Cpus : y <= x /\ cpu'[y].used =>
           /\ cpu'[y].mode \in Restless => ~ i.safe_usleep /\ ~ i.wait_babe
           /\ cpu'[y].mode = "sleepuntil" =>
                /\ ~ i.safe_usleep
                /\ i.wait_babe => t.sleep_to <= cpu'[y].wake_on
  PROVE  Resting'
<1>1. TopCpu \in Nat /\ x \in Nat /\ x <= TopCpu /\ timer' = t
  BY SchedulerAssumption DEF Cpus, GoOn
<1>2. CASE curr < TopCpu
  <2>1. curr' = x + 1 /\ idle' = i
    BY <1>2 DEF GoOn
  <2>2. \A y \in Cpus : y < x + 1 => y <= x
    BY <1>1 DEF Cpus
  <2>3. \A y \in Cpus : Visited(y)' => Heeded(cpu[y])'
    BY <1>1, <2>1, <2>2 DEF Visited, Heeded
  <2>4. idle'.nap = 0
    BY <2>1
  <2> QED BY <1>1, <2>3, <2>4 DEF Resting, KernelDoesNotOversleep
<1>3. CASE ~ (curr < TopCpu)
  <2>1. curr' = NoCpu /\ idle' = [i EXCEPT !.nap = Nap(t, i), !.began = clock] /\ x = TopCpu
    BY <1>1, <1>3 DEF GoOn
  <2>2. NoCpu \notin Cpus /\ \A y \in Cpus : y <= x
    BY <1>1, <2>1 DEF NoCpu, Cpus
  <2>3. idle'.nap = Nap(t, i) /\ idle'.began = clock
    BY <2>1 DEF Idles
  <2>4. ASSUME idle'.nap > 0, NEW y \in Cpus, cpu'[y].used
        PROVE  /\ cpu'[y].mode \notin Restless
               /\ cpu'[y].mode = "sleepuntil" =>
                    t.datime + 2 * idle'.nap <= until'[y]
    <3>1. CASE cpu'[y].mode \in Restless
      <4>1. ~ i.safe_usleep /\ ~ i.wait_babe
        BY <2>2, <2>4, <3>1
      <4>2. Nap(t, i) = 0
        BY <4>1 DEF Nap
      <4> QED BY <2>3, <2>4, <4>2
    <3>2. CASE cpu'[y].mode = "sleepuntil"
      <4> DEFINE d == Minus(t.sleep_to, t.datime)
      <4>1. ~ i.safe_usleep /\ (i.wait_babe => t.sleep_to <= cpu'[y].wake_on)
        BY <2>2, <2>4, <3>2
      <4>2. cpu'[y].wake_on = until'[y]
        BY <2>4, <3>2 DEF Timely, Sleeper
      <4>3. t.sleep_to \in Nat /\ t.datime \in Nat /\ until'[y] \in Nat
        BY DEF Timers, TypeOK
      <4>4. t.datime <= MaxTime
        BY <1>1, <4>3, SchedulerAssumption DEF Timely, TypeOK
      <4>5. d = t.sleep_to - t.datime
        BY <4>3, <4>4, MinusValue, SchedulerAssumption
      <4> HIDE DEF d
      <4>6. Nap(t, i) = IF i.wait_babe /\ t.sleep_to # 0 /\ d > 0 THEN d \div 2 ELSE 0
        <5>1. Nap(t, i) = 0 + (IF i.wait_babe /\ t.sleep_to # 0 /\ d > 0 THEN d \div 2 ELSE 0)
          BY <4>1 DEF Nap, d
        <5> QED BY <4>3, <4>5, <5>1
      <4>7. i.wait_babe /\ d > 0 /\ Nap(t, i) = d \div 2
        BY <2>3, <2>4, <4>6
      <4>8. 2 * (d \div 2) <= d
        BY <4>3, <4>5, <4>7
      <4> QED BY <2>3, <3>2, <4>1, <4>2, <4>3, <4>5, <4>7, <4>8 DEF Restless
    <3> QED BY <3>1, <3>2
  <2>5. KernelDoesNotOversleep'
    <3>1. t.datime \in Nat /\ clock \in Nat /\ idle'.nap \in Nat /\ until' \in [Cpus -> Nat]
      BY SchedulerAssumption DEF Timers, TypeOK, Idles
    <3> QED BY <1>1, <2>3, <2>4, <3>1 DEF KernelDoesNotOversleep
  <2> QED BY <1>1, <2>1, <2>2, <2>5 DEF Resting, Visited
<1> QED BY <1>2, <1>3

\* A step of slot x makes no other process wait.
Elsewhere(x) ==
  \A y \in Cpus : cpu'[y].used /\ cpu'[y].mode # "run" /\ y # x => cpu'[y] = cpu[y]

\* Slot x is left, as it heeds the flags itself; the slots before it still do.
LEMMA RestOn ==
  ASSUME FarFromWrap, TypeOK, Resting, Timely', TypeOK', NEW x \in Cpus, curr = x,
         NEW t \in Timers, NEW i \in Idles, GoOn(t, i), Elsewhere(x),
         t.sleep_to <= timer.sleep_to, i.nap = idle.nap,
         i.safe_usleep => idle.safe_usleep, i.wait_babe => idle.wait_babe,
         cpu'[x].used /\ cpu'[x].mode \in Restless => ~ i.safe_usleep /\ ~ i.wait_babe,
         cpu'[x].used /\ cpu'[x].mode = "sleepuntil" =>
           ~ i.safe_usleep /\ (i.wait_babe => t.sleep_to <= cpu'[x].wake_on)
  PROVE  Resting'
<1>1. i.nap = 0 /\ t.sleep_to <= MaxTime + SafeUsleep
  BY SchedulerAssumption DEF Resting, Timers, TypeOK
<1>2. ASSUME NEW y \in Cpus, y <= x, cpu'[y].used
      PROVE  /\ cpu'[y].mode \in Restless => ~ i.safe_usleep /\ ~ i.wait_babe
             /\ cpu'[y].mode = "sleepuntil" =>
                  /\ ~ i.safe_usleep
                  /\ i.wait_babe => t.sleep_to <= cpu'[y].wake_on
  <2>1. CASE y = x
    BY <1>2, <2>1
  <2>2. CASE y # x /\ cpu'[y].mode \in Restless \cup {"sleepuntil"}
    <3>1. cpu'[y] = cpu[y]
      BY <1>2, <2>2 DEF Elsewhere, Restless
    <3>2. Visited(y)
      BY <1>2, <2>2, SchedulerAssumption DEF Visited, Cpus
    <3>3. Heeded(cpu[y])
      BY <3>2 DEF Resting
    <3>4. cpu[y].wake_on \in Nat /\ t.sleep_to \in Nat /\ timer.sleep_to \in Nat
      BY DEF TypeOK, Slot, Timers
    <3> QED BY <1>2, <3>1, <3>3, <3>4 DEF Heeded
  <2> QED BY <2>1, <2>2
<1> QED BY <1>1, <1>2, RestAfter

\* A step inside a turn, or between two cycles
LEMMA RestInside ==
  ASSUME TypeOK, Resting, UNCHANGED <<curr, timer, idle>>,
         \A y \in Cpus : cpu'[y].used /\ cpu'[y].mode # "run" =>
           \/ cpu'[y] = cpu[y] /\ until'[y] = until[y]
           \/ curr \in Cpus /\ y = curr
  PROVE  Resting'
<1>1. \A y \in Cpus : Visited(y)' => Heeded(cpu[y])'
  <2> SUFFICES ASSUME NEW y \in Cpus, Visited(y)',
                      cpu'[y].used, cpu'[y].mode # "run"
               PROVE  Heeded(cpu[y])'
    BY DEF Heeded, Restless
  <2>1. Visited(y) /\ y # curr
    BY SchedulerAssumption DEF Visited, Cpus
  <2> QED BY <2>1 DEF Resting, Heeded
<1>2. KernelDoesNotOversleep'
  BY DEF Resting, KernelDoesNotOversleep, Restless
<1> QED BY <1>1, <1>2 DEF Resting

LEMMA StartCycleRests ==
  ASSUME FarFromWrap, TypeOK, Resting, StartCycle
  PROVE  Resting'
<1>1. timer'.sleep_to <= MaxTime + SafeUsleep
  <2>1. CASE timer' = timer
    BY <2>1 DEF Resting
  <2>2. CASE timer'.sleep_to = (Now + SafeUsleep) % TimeSpace
    <3>1. clock \in Nat /\ clock <= MaxTime
      BY SchedulerAssumption DEF TypeOK
    <3>2. NoWrap
      BY SchedulerAssumption DEF FarFromWrap, NoWrap
    <3>3. Now = clock
      BY <3>1, <3>2, NoWrapMod DEF Now
    <3>4. (clock + SafeUsleep) % TimeSpace = clock + SafeUsleep
      BY <3>1, SchedulerAssumption DEF FarFromWrap
    <3> QED BY <2>2, <3>1, <3>3, <3>4, SchedulerAssumption
  <2> QED BY <2>1, <2>2 DEF StartCycle
<1>2. idle'.nap = 0 /\ \A y \in Cpus : ~ Visited(y)'
  BY SchedulerAssumption DEF StartCycle, Visited, Cpus
<1> QED BY <1>1, <1>2 DEF Resting, KernelDoesNotOversleep

\* The steps that leave a slot
LEMMA LeavingRests ==
  ASSUME FarFromWrap, TypeOK, Timely', TypeOK', Resting, NEW x \in Cpus,
         \/ SkipIdle(x) \/ SkipIPC(x) \/ CountDown(x) \/ CheckTime(x)
         \/ PollIO(x) \/ EndTurn(x)
  PROVE  Resting'
<1>1. /\ cpu[x] \in Slot /\ timer \in Timers /\ idle \in Idles
      /\ timer.sleep_to \in Nat
  BY DEF TypeOK, Timers
<1>2. Busy \in Idles /\ Busy.nap = idle.nap /\ ~ Busy.safe_usleep /\ ~ Busy.wait_babe
  BY <1>1, BusyType DEF Busy, Idles
<1>3. CASE SkipIdle(x) \/ SkipIPC(x)
  <2>1. curr = x /\ GoOn(timer, idle) /\ cpu' = cpu
    BY <1>3 DEF SkipIdle, SkipIPC, Waiting, Looks
  <2>2. ~ cpu[x].used \/ cpu[x].mode = "ipcwait"
    BY <1>3 DEF SkipIdle, SkipIPC, Waiting
  <2> QED BY <1>1, <2>1, <2>2, RestOn DEF Elsewhere, Restless
<1>4. CASE CountDown(x)
  <2>1. curr = x /\ GoOn(timer, Busy) /\ cpu[x].mode = "sleepfor"
    BY <1>4 DEF CountDown, Waiting, Looks
  <2>2. Elsewhere(x)
    BY <1>4 DEF CountDown, Elsewhere, TypeOK
  <2>3. ~ Sleeper(cpu', x)
    BY <1>4, <2>1, CountDownGood DEF Still, Sleeper
  <2> QED BY <1>1, <1>2, <2>1, <2>2, <2>3, RestOn DEF Sleeper
<1>5. CASE CheckTime(x)
  <2> DEFINE t == Sooner(Noticed(timer), cpu[x])
             i == [idle EXCEPT !.safe_usleep = FALSE]
  <2>1. curr = x /\ GoOn(t, i) /\ cpu[x].mode = "sleepuntil"
    BY <1>5 DEF CheckTime, Waiting, Looks
  <2>2. /\ i \in Idles /\ i.nap = idle.nap /\ ~ i.safe_usleep
        /\ i.wait_babe = idle.wait_babe
    BY <1>1 DEF Idles
  <2>3. Noticed(timer) \in Timers /\ Noticed(timer).sleep_to = timer.sleep_to
    BY <1>1 DEF Noticed, Timers
  <2>4. cpu[x].wake_on \in Nat
    BY <1>1 DEF Slot
  <2>5. /\ t \in Timers /\ t.sleep_to <= timer.sleep_to
        /\ t.sleep_to <= cpu[x].wake_on
    <3>1. CASE cpu[x].wake_on < timer.sleep_to
      BY <1>1, <2>3, <2>4, <3>1 DEF Sooner, Timers
    <3>2. CASE ~ (cpu[x].wake_on < timer.sleep_to)
      BY <1>1, <2>3, <2>4, <3>2 DEF Sooner
    <3> QED BY <3>1, <3>2
  <2>6. Elsewhere(x) /\ cpu'[x].wake_on = cpu[x].wake_on
        /\ cpu'[x].mode \in {"run", "sleepuntil"}
    <3> DEFINE p == [cpu[x] EXCEPT !.mode =
                       IF timer.datime > cpu[x].wake_on THEN "run" ELSE cpu[x].mode]
    <3>1. cpu' = [cpu EXCEPT ![x] = p]
      BY <1>5 DEF CheckTime, TypeOK
    <3>2. p.wake_on = cpu[x].wake_on /\ p.mode \in {"run", "sleepuntil"}
      BY <1>1, <2>1 DEF Slot
    <3> HIDE DEF p
    <3> QED BY <3>1, <3>2 DEF Elsewhere, TypeOK
  <2> HIDE DEF t, i
  <2> QED BY <2>1, <2>2, <2>5, <2>6, RestOn DEF Restless
<1>6. CASE PollIO(x)
  <2> DEFINE i == Alert(cpu[x])
  <2>1. curr = x /\ GoOn(timer, i) /\ cpu[x].mode \in {"iowait", "critwait"}
    BY <1>6 DEF PollIO, Waiting, Looks
  <2>2. Elsewhere(x) /\ (~ cpu'[x].used \/ cpu'[x].mode \in {"run", cpu[x].mode})
    <3>1. CASE cpu' = [cpu EXCEPT ![x].mode = "run"]
      BY <1>1, <3>1 DEF Elsewhere, TypeOK, Slot
    <3>2. CASE cpu' = cpu
      BY <2>1, <3>2 DEF Elsewhere
    <3>3. CASE cpu' = [cpu EXCEPT ![x].outside = FALSE]
      BY <1>1, <2>1, <3>3 DEF Elsewhere, TypeOK, Slot
    <3>4. CASE cpu' \in Destroy(cpu, x)
      BY <3>4, DestroyGood DEF Elsewhere, TypeOK
    <3> QED BY <1>6, <3>1, <3>2, <3>3, <3>4 DEF PollIO
  <2>3. /\ i \in Idles /\ i.nap = idle.nap
        /\ i.safe_usleep => idle.safe_usleep
        /\ i.wait_babe => idle.wait_babe
        /\ cpu[x].mode = "critwait" => ~ i.safe_usleep /\ ~ i.wait_babe
    BY <1>1, <1>2 DEF Alert
  <2> HIDE DEF i
  <2>4. cpu'[x].used /\ cpu'[x].mode \in Restless => ~ i.safe_usleep /\ ~ i.wait_babe
    BY <2>1, <2>2, <2>3 DEF Restless
  <2>5. ~ (cpu'[x].used /\ cpu'[x].mode = "sleepuntil")
    BY <2>1, <2>2
  <2> QED BY <1>1, <2>1, <2>2, <2>3, <2>4, <2>5, RestOn
<1>7. CASE EndTurn(x)
  <2>1. curr = x /\ GoOn(timer, Busy)
    BY <1>7 DEF EndTurn, InTurn
  <2>2. Elsewhere(x)
    BY <1>7 DEF EndTurn, Elsewhere, TypeOK
  <2> QED BY <1>1, <1>2, <2>1, <2>2, RestOn
<1> QED BY <1>3, <1>4, <1>5, <1>6, <1>7

\* The steps inside a turn, and around the cycle
LEMMA InsideRests ==
  ASSUME TypeOK, Resting, NEW x \in Cpus,
         \/ BeginTurn(x) \/ Compute(x) \/ Cwait(x) \/ Twait(x) \/ EnterWait(x)
         \/ Halt(x) \/ Crash(x) \/ OutsideCode(x) \/ IPCWake(x) \/ Tick
  PROVE  Resting'
<1>1. UNCHANGED <<curr, timer, idle>>
  BY DEF BeginTurn, Compute, Cwait, Twait, EnterWait, Halt, Crash, OutsideCode,
         IPCWake, Tick, Fetches
<1>2. CASE BeginTurn(x) \/ Tick
  BY <1>1, <1>2, RestInside DEF BeginTurn, Tick
<1>3. CASE IPCWake(x)
  <2>1. \A y \in Cpus : cpu'[y].used /\ cpu'[y].mode # "run" =>
          cpu'[y] = cpu[y] /\ until'[y] = until[y]
    BY <1>3 DEF IPCWake, TypeOK, Slot
  <2> QED BY <1>1, <2>1, RestInside
<1>4. CASE Crash(x) \/ (OutsideCode(x) /\ cpu' \in Destroy(cpu, x))
  <2>1. cpu' \in Destroy(cpu, x) /\ until' = until
    BY <1>4 DEF Crash, OutsideCode
  <2>2. \A y \in Cpus : cpu'[y].used /\ cpu'[y].mode # "run" => cpu'[y] = cpu[y]
    BY <2>1, DestroyGood DEF TypeOK
  <2> QED BY <1>1, <2>1, <2>2, RestInside
<1>5. CASE \/ Compute(x) \/ Cwait(x) \/ Twait(x) \/ EnterWait(x) \/ Halt(x)
           \/ (OutsideCode(x) /\ cpu' \notin Destroy(cpu, x))
  <2>1. curr = x
    BY <1>5 DEF Compute, Cwait, Twait, EnterWait, Halt, OutsideCode, Fetches, Running
  <2>2. \A y \in Cpus \ {x} : cpu'[y] = cpu[y] /\ until'[y] = until[y]
    <3>1. CASE Twait(x)
      BY <3>1, TwaitGood
    <3>2. CASE \/ Compute(x) \/ Cwait(x) \/ EnterWait(x) \/ Halt(x)
               \/ (OutsideCode(x) /\ cpu' \notin Destroy(cpu, x))
      BY <3>2 DEF Compute, Cwait, EnterWait, Halt, OutsideCode, TypeOK
    <3> QED BY <1>5, <3>1, <3>2
  <2> QED BY <1>1, <2>1, <2>2, RestInside
<1>6. CASE OutsideCode(x)
  BY <1>4, <1>5, <1>6
<1>7. CASE Crash(x)
  BY <1>4, <1>7
<1>8. CASE Compute(x) \/ Cwait(x) \/ Twait(x) \/ EnterWait(x) \/ Halt(x)
  BY <1>5, <1>8
<1> QED BY <1>2, <1>3, <1>6, <1>7, <1>8

LEMMA SignalRests ==
  ASSUME TypeOK, Resting, NEW x \in Cpus, Signal(x)
  PROVE  Resting'
<1>1. idle'.nap = 0 /\ timer' = timer /\ curr' = NoCpu
  BY DEF Signal, Running, Resting
<1>2. NoCpu \notin Cpus
  BY SchedulerAssumption DEF NoCpu, Cpus
<1> QED BY <1>1, <1>2 DEF Resting, Visited, KernelDoesNotOversleep

LEMMA RestingPreserved ==
  ASSUME FarFromWrap, TypeOK, Timely', TypeOK', Resting, [Next]_vars
  PROVE  Resting'
<1>1. CASE StartCycle
  BY <1>1, StartCycleRests
<1>2. ASSUME NEW x \in Cpus,
             \/ SkipIdle(x) \/ CountDown(x) \/ CheckTime(x) \/ PollIO(x)
             \/ SkipIPC(x) \/ EndTurn(x)
      PROVE  Resting'
  BY <1>2, LeavingRests
<1>3. ASSUME NEW x \in Cpus,
             \/ BeginTurn(x) \/ Compute(x) \/ Cwait(x) \/ Twait(x) \/ EnterWait(x)
             \/ Halt(x) \/ Crash(x) \/ OutsideCode(x) \/ IPCWake(x)
      PROVE  Resting'
  BY <1>3, InsideRests
<1>4. ASSUME NEW x \in Cpus, Signal(x) PROVE Resting'
  BY <1>4, SignalRests
<1>5. CASE Tick
  <2>1. 0 \in Cpus
    BY SchedulerAssumption DEF Cpus
  <2> QED BY <1>5, <2>1, InsideRests
<1>6. CASE UNCHANGED vars
  BY <1>6 DEF vars, Resting, Visited, Heeded, KernelDoesNotOversleep
<1> QED BY <1>1, <1>2, <1>3, <1>4, <1>5, <1>6 DEF Next, Cycle

LEMMA RestingInit == ASSUME Init PROVE Resting
<1>1. curr \notin Cpus
  BY SchedulerAssumption DEF Init, NoCpu, Cpus
<1> QED BY <1>1, SchedulerAssumption DEF Init, Resting, Visited, KernelDoesNotOversleep

\* When the kernel goes to sleep after a cycle, nobody is counting cycles or
\* waits for time-critical I/O.  If the cycle took no longer than this sleep,
\* the kernel is up before any sleeper's time; else it is late by no more than
\* the cycle took (task.c:182-187,262-287); the 32-bit clock must not wrap.
THEOREM KernelIsUpInTime ==
  ASSUME FarFromWrap
  PROVE  Spec => []KernelDoesNotOversleep
<1> NoWrap
  BY SchedulerAssumption DEF FarFromWrap, NoWrap
<1>1. Init => TypeOK /\ Timely /\ Resting
  BY TypeInit, TimelyInit, RestingInit
<1>2. TypeOK /\ Timely /\ Resting /\ [Next]_vars => (TypeOK /\ Timely /\ Resting)'
  BY TypePreserved, TimelyPreserved, RestingPreserved
<1>3. Resting => KernelDoesNotOversleep
  BY DEF Resting
<1> QED BY <1>1, <1>2, <1>3, PTL DEF Spec
=============================================================================
