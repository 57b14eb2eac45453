----------------------------- MODULE Scheduler -----------------------------
(***************************************************************************)
(* The task cycle (kernel/task.c task_cycle) and the turns it gives to the *)
(* virtual CPUs (kernel/bcode.c do_cycles): priorities, processes that     *)
(* sleep for a number of cycles or until a time, wait for I/O or for IPC,  *)
(* crash, are loaded again, or make the kernel give the cycle up by an OS  *)
(* signal; and how long the kernel itself sleeps after a cycle.            *)
(*                                                                         *)
(* The clock is absolute; the kernel sees it modulo TimeSpace (2^32        *)
(* microseconds).  An IP is inside or outside the code.  Processes were    *)
(* loaded before: the console and the debugger are in Taskman.             *)
(***************************************************************************)
EXTENDS Integers, FiniteSets, FiniteSetsExt

CONSTANTS
  TopCpu,        \* top_cpu: the highest slot ever loaded
  MinCycles,     \* MIN_CYCLES_TO_RESPAWN
  Priorities,    \* the priorities of the processes
  Counts,        \* operands of CWAIT
  Micros,        \* operands of TWAIT
  SafeUsleep,    \* DEFAULT_SAFE_USLEEP
  TimeSpace,     \* 2^32
  MaxTime        \* bound: the last instant

Cpus == 0 .. TopCpu
NoCpu == TopCpu + 1    \* between two cycles
NotYet == -1           \* left: the slot's turn has not begun

ASSUME SchedulerAssumption ==
  /\ TopCpu \in Nat /\ MinCycles \in Nat \ {0}
  /\ Priorities \subseteq Nat \ {0} /\ Counts \subseteq Nat /\ Micros \subseteq Nat
  /\ SafeUsleep \in Nat /\ TimeSpace \in Nat \ {0} /\ MaxTime \in Nat

VARIABLES
  cpu,           \* the slots
  curr,          \* current_cpu
  left,          \* instructions left in its turn (cnt - L of do_cycles)
  but_in_fact_it_was_fatal,
  clock,         \* what gettimeofday returns
  timer,         \* datime, sleep_to, someone_is_sleeping
  idle,          \* safe_usleep, wait_babe; the sleep they led to, and when it began
  until          \* history: when the sleeper of a slot asked to be woken

vars == <<cpu, curr, left, but_in_fact_it_was_fatal, clock, timer, idle, until>>

-----------------------------------------------------------------------------
\* Waiting for I/O with timecrit set is a mode of its own.
Waits == {"sleepfor", "sleepuntil", "iowait", "critwait", "ipcwait"}

\* The kernel must not sleep while a process is in one of these.
Restless == {"sleepfor", "critwait"}

Vacant ==
  [used |-> FALSE, respawn |-> FALSE, priority |-> 0, mode |-> "run",
   cnt_down |-> 0, wake_on |-> 0, work_cycles |-> 0, outside |-> FALSE]

\* A process just loaded.
Loaded(respawn, priority) ==
  [Vacant EXCEPT !.used = TRUE, !.respawn = respawn, !.priority = priority]

Images == {Loaded(r, p) : r \in BOOLEAN, p \in Priorities}

Init ==
  /\ cpu \in [Cpus -> Images \cup {Vacant}]
  /\ curr = NoCpu /\ left = NotYet
  /\ but_in_fact_it_was_fatal = FALSE
  /\ clock = 0
  /\ timer = [datime |-> 0, sleep_to |-> 0, someone_is_sleeping |-> FALSE]
  /\ idle = [safe_usleep |-> FALSE, wait_babe |-> FALSE, nap |-> 0, began |-> 0]
  /\ until = [x \in Cpus |-> 0]

-----------------------------------------------------------------------------
(* Operators *)

\* gettimeofday in 32 bits
Now == clock % TimeSpace

\* The sign of a difference of two 32-bit times
Minus(a, b) ==
  LET d == (a - b) % TimeSpace IN IF 2 * d >= TimeSpace THEN d - TimeSpace ELSE d

\* Mutant of WorkedEnough: every process is loaded again.
AlwaysEnough(p) == TRUE

\* destroy_task's check before it reloads
WorkedEnough(p) == p.work_cycles >= MinCycles

\* destroy_task: the slot is zeroed; a process to be respawned is loaded in
\* the first free slot, unless its image cannot be loaded any more.
Destroy(slots, x) ==
  LET t == [slots EXCEPT ![x] = Vacant]
      slot == Min({y \in Cpus : ~ t[y].used})
      p == slots[x]
  IN IF p.respawn /\ WorkedEnough(p)
     THEN {t, [t EXCEPT ![slot] = Loaded(TRUE, p.priority)]}
     ELSE {t}

\* The slot after curr, or the end of the cycle with the kernel's own sleep.
Nap(t, i) ==
  (IF i.safe_usleep THEN SafeUsleep ELSE 0) +
  (IF i.wait_babe /\ t.sleep_to # 0 /\ Minus(t.sleep_to, t.datime) > 0
   THEN Minus(t.sleep_to, t.datime) \div 2 ELSE 0)

GoOn(t, i) ==
  /\ left' = NotYet
  /\ timer' = t
  /\ IF curr < TopCpu
     THEN curr' = curr + 1 /\ idle' = i
     ELSE curr' = NoCpu /\ idle' = [i EXCEPT !.nap = Nap(t, i), !.began = clock]

Busy == [idle EXCEPT !.safe_usleep = FALSE, !.wait_babe = FALSE]

-----------------------------------------------------------------------------
(* The cycle *)

\* The time is read if a process was sleeping in the cycle before.
StartCycle ==
  /\ curr = NoCpu
  /\ curr' = 0
  /\ idle' = [safe_usleep |-> TRUE, wait_babe |-> timer.someone_is_sleeping,
              nap |-> 0, began |-> 0]
  /\ timer' = IF timer.someone_is_sleeping
              THEN [datime |-> Now, sleep_to |-> (Now + SafeUsleep) % TimeSpace,
                    someone_is_sleeping |-> FALSE]
              ELSE timer
  /\ UNCHANGED <<cpu, left, but_in_fact_it_was_fatal, clock, until>>

\* The slot is looked at; what its process does in the turn is left open.
Looks(x) == curr = x /\ left = NotYet
Waiting(x, mode) == Looks(x) /\ cpu[x].used /\ cpu[x].mode = mode

SkipIdle(x) ==
  /\ Looks(x) /\ ~ cpu[x].used
  /\ GoOn(timer, idle)
  /\ UNCHANGED <<cpu, but_in_fact_it_was_fatal, clock, until>>

\* Mutant of Counted: 0 is not looked for any more.
CountedOne(n) == n = 1

\* The countdown ends with this cycle.
Counted(n) == n <= 1

Fewer(n) == IF n > 0 THEN n - 1 ELSE 0

CountDown(x) ==
  /\ Waiting(x, "sleepfor")
  /\ cpu' = [cpu EXCEPT ![x].cnt_down = Fewer(@),
                        ![x].mode = IF Counted(cpu[x].cnt_down) THEN "run" ELSE @]
  /\ GoOn(timer, Busy)
  /\ UNCHANGED <<but_in_fact_it_was_fatal, clock, until>>

\* Mutants of Noticed and Sooner: the sleeper does not ask for the time to be
\* read again; it does not shorten the kernel's sleep.
NotNoticed(t) == t
NoSooner(t, p) == t

Noticed(t) == [t EXCEPT !.someone_is_sleeping = TRUE]
Sooner(t, p) == IF p.wake_on < t.sleep_to THEN [t EXCEPT !.sleep_to = p.wake_on] ELSE t

\* A sleeper wakes up when its time has passed.
CheckTime(x) ==
  /\ Waiting(x, "sleepuntil")
  /\ cpu' = [cpu EXCEPT ![x].mode = IF timer.datime > cpu[x].wake_on THEN "run" ELSE @]
  /\ GoOn(Sooner(Noticed(timer), cpu[x]), [idle EXCEPT !.safe_usleep = FALSE])
  /\ UNCHANGED <<but_in_fact_it_was_fatal, clock, until>>

Alert(p) == IF p.mode = "critwait" THEN Busy ELSE idle

\* The process's iohandler: it is done, or not, or it raises an exception,
\* which is dropped, handled or kills the process, but leaves it waiting.
\* (No module waits without a handler.)
PollIO(x) ==
  /\ Waiting(x, "iowait") \/ Waiting(x, "critwait")
  /\ \/ cpu' = [cpu EXCEPT ![x].mode = "run"] /\ UNCHANGED but_in_fact_it_was_fatal
     \/ UNCHANGED <<cpu, but_in_fact_it_was_fatal>>
     \/ /\ ~ but_in_fact_it_was_fatal
        /\ cpu' = [cpu EXCEPT ![x].outside = FALSE]
        /\ UNCHANGED but_in_fact_it_was_fatal
     \/ /\ ~ but_in_fact_it_was_fatal
        /\ cpu' \in Destroy(cpu, x)
        /\ but_in_fact_it_was_fatal' = TRUE
  /\ GoOn(timer, Alert(cpu[x]))
  /\ UNCHANGED <<clock, until>>

SkipIPC(x) ==
  /\ Waiting(x, "ipcwait")
  /\ GoOn(timer, idle)
  /\ UNCHANGED <<cpu, but_in_fact_it_was_fatal, clock, until>>

\* The turn of a process that runs
BeginTurn(x) ==
  /\ Waiting(x, "run")
  /\ left' = cpu[x].priority
  /\ UNCHANGED <<cpu, curr, but_in_fact_it_was_fatal, clock, timer, idle, until>>

Running(x) == curr = x /\ left > 0 /\ cpu[x].used /\ cpu[x].mode = "run"
InTurn(x) == curr = x /\ left # NotYet

\* do_cycles has returned.  work_cycles of the slot, whatever process is there
\* by now, is counted up to MinCycles.
EndTurn(x) ==
  /\ InTurn(x) /\ ~ Running(x)
  /\ cpu' = IF cpu[x].used /\ cpu[x].work_cycles < MinCycles
            THEN [cpu EXCEPT ![x].work_cycles = @ + 1] ELSE cpu
  /\ GoOn(timer, Busy)
  /\ UNCHANGED <<but_in_fact_it_was_fatal, clock, until>>
-----------------------------------------------------------------------------
(* One round of do_cycles *)

Fetches(x) ==
  /\ Running(x) /\ ~ cpu[x].outside
  /\ left' = left - 1
  /\ UNCHANGED <<curr, clock, timer, idle>>

\* An instruction that the process survives: the next one or a jump.
Compute(x) ==
  /\ Fetches(x)
  /\ \E outside \in BOOLEAN : cpu' = [cpu EXCEPT ![x].outside = outside]
  /\ but_in_fact_it_was_fatal' = FALSE
  /\ UNCHANGED until

\* CWAIT
Cwait(x) ==
  /\ Fetches(x)
  /\ \E n \in Counts : cpu' = [cpu EXCEPT ![x].mode = "sleepfor", ![x].cnt_down = n]
  /\ but_in_fact_it_was_fatal' = FALSE
  /\ UNCHANGED until

\* Mutant of WakeOn: counted from the time the kernel read last.
WakeOnCycle(n) == (timer.datime + n) % TimeSpace

WakeOn(n) == (Now + n) % TimeSpace

\* TWAIT.  Bound: to be woken before MaxTime.
Twait(x) ==
  /\ Fetches(x)
  /\ \E n \in Micros :
       /\ clock + n < MaxTime
       /\ cpu' = [cpu EXCEPT ![x].mode = "sleepuntil", ![x].wake_on = WakeOn(n)]
       /\ until' = [until EXCEPT ![x] = clock + n]
  /\ but_in_fact_it_was_fatal' = FALSE

\* A syscall that waits for I/O, or for IPC
EnterWait(x) ==
  /\ Fetches(x)
  /\ \E mode \in {"iowait", "critwait", "ipcwait"} : cpu' = [cpu EXCEPT ![x].mode = mode]
  /\ but_in_fact_it_was_fatal' = FALSE
  /\ UNCHANGED until

\* HALT
Halt(x) ==
  /\ Fetches(x)
  /\ cpu' = [cpu EXCEPT ![x] = Vacant]
  /\ but_in_fact_it_was_fatal' = FALSE
  /\ UNCHANGED until

\* An instruction raises an exception that nothing handles.
Crash(x) ==
  /\ Fetches(x)
  /\ cpu' \in Destroy(cpu, x)
  /\ but_in_fact_it_was_fatal' = TRUE
  /\ UNCHANGED until

\* The IP is beyond the code: an exception, handled or not; it is dropped as
\* long as the last instruction executed was fatal to its process.
OutsideCode(x) ==
  /\ Running(x) /\ cpu[x].outside
  /\ left' = left - 1
  /\ \/ but_in_fact_it_was_fatal /\ UNCHANGED <<cpu, but_in_fact_it_was_fatal>>
     \/ /\ ~ but_in_fact_it_was_fatal
        /\ cpu' = [cpu EXCEPT ![x].outside = FALSE]
        /\ UNCHANGED but_in_fact_it_was_fatal
     \/ /\ ~ but_in_fact_it_was_fatal
        /\ cpu' \in Destroy(cpu, x)
        /\ but_in_fact_it_was_fatal' = TRUE
  /\ UNCHANGED <<curr, clock, timer, idle, until>>

\* An instruction makes the OS send a signal: the task is destroyed, and
\* task_cycle returns.
Signal(x) ==
  /\ Running(x) /\ ~ cpu[x].outside
  /\ cpu' \in Destroy(cpu, x)
  /\ curr' = NoCpu /\ left' = NotYet
  /\ but_in_fact_it_was_fatal' = FALSE
  /\ UNCHANGED <<clock, timer, idle, until>>

-----------------------------------------------------------------------------
(* What happens around the cycle *)

\* The IPC module wakes a process: when its time is out, when a remote
\* answer comes, or from another process's syscall.
IPCWake(x) ==
  /\ cpu[x].used /\ cpu[x].mode = "ipcwait"
  /\ \/ curr = NoCpu
     \/ \E y \in Cpus : Running(y)
  /\ cpu' = [cpu EXCEPT ![x].mode = "run"]
  /\ UNCHANGED <<curr, left, but_in_fact_it_was_fatal, clock, timer, idle, until>>

Tick ==
  /\ clock < MaxTime
  /\ clock' = clock + 1
  /\ UNCHANGED <<cpu, curr, left, but_in_fact_it_was_fatal, timer, idle, until>>

\* What the kernel's loop does next
Cycle ==
  \/ StartCycle
  \/ \E x \in Cpus :
       \/ SkipIdle(x) \/ CountDown(x) \/ CheckTime(x) \/ PollIO(x) \/ SkipIPC(x)
       \/ BeginTurn(x) \/ EndTurn(x)
       \/ Compute(x) \/ Cwait(x) \/ Twait(x) \/ EnterWait(x) \/ Halt(x)
       \/ Crash(x) \/ OutsideCode(x) \/ Signal(x)

Next == Cycle \/ Tick \/ \E x \in Cpus : IPCWake(x)

Spec == Init /\ [][Next]_vars

\* The kernel is one loop that never blocks; time passes.
Fairness == WF_vars(Cycle) /\ WF_vars(Tick)

FairSpec == Spec /\ Fairness

-----------------------------------------------------------------------------
Slot == [used : BOOLEAN, respawn : BOOLEAN, priority : Priorities \cup {0},
         mode : Waits \cup {"run"}, cnt_down : Nat, wake_on : Nat,
         work_cycles : Nat, outside : BOOLEAN]

Timers == [datime : Nat, sleep_to : Nat, someone_is_sleeping : BOOLEAN]
Idles == [safe_usleep : BOOLEAN, wait_babe : BOOLEAN, nap : Nat, began : Nat]

TypeOK ==
  /\ cpu \in [Cpus -> Slot]
  /\ curr \in Cpus \cup {NoCpu}
  /\ left \in Nat \cup {NotYet}
  /\ but_in_fact_it_was_fatal \in BOOLEAN
  /\ clock \in 0 .. MaxTime
  /\ timer \in Timers /\ idle \in Idles
  /\ until \in [Cpus -> Nat]

Sleeper(slots, x) == slots[x].used /\ slots[x].mode = "sleepuntil"

\* No sleeper is woken in this step before the time it asked for.
WokenInTime ==
  \A x \in Cpus : Sleeper(cpu, x) /\ ~ Sleeper(cpu', x) => clock >= until[x]

\* TWAIT sleeps at least as long as it was asked to, although the kernel looks
\* at a time read at the start of a cycle, and not in every cycle
\* (task.c:182-187,275; cmd.c:2370-2372).
NotWokenEarly == [][WokenInTime]_vars

\* When the kernel goes to sleep after a cycle, no process counts down cycles
\* or waits for I/O that is time-critical.  A sleeper's time ends before the
\* kernel wakes only if the cycle took long, for how long to sleep is computed
\* from the time it began: if it took no longer than the kernel sleeps, half
\* of what was left, the kernel is up in time, and else it is late by no more
\* than the cycle took (task.c:182-187,240,262-287).
KernelDoesNotOversleep ==
  idle.nap > 0 =>
    \A x \in Cpus : cpu[x].used =>
      /\ cpu[x].mode \notin Restless
      /\ cpu[x].mode = "sleepuntil" =>
           LET cycle == idle.began - timer.datime
               up == idle.began + idle.nap
           IN IF cycle <= idle.nap THEN up <= until[x] ELSE up <= until[x] + cycle

\* The cycle comes to every slot again and again, although a process that
\* makes it return early may be loaded again each time: it must have worked
\* for MIN_CYCLES_TO_RESPAWN full turns in between (task.c:112-127,211-232).
EverySlotIsReached == \A x \in Cpus : []<>(curr = x)

\* A process in CWAIT wakes up, or dies (task.c:267-272).
CountedSleepersWake ==
  \A x \in Cpus : []<>~ (cpu[x].used /\ cpu[x].mode = "sleepfor")

\* A process in TWAIT wakes up: the time it is compared with is read again
\* for as long as somebody sleeps (task.c:182-188,273-280).
TimedSleepersWake == \A x \in Cpus : []<>~ Sleeper(cpu, x)
=============================================================================
