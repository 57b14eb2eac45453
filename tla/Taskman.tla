------------------------------- MODULE Taskman -------------------------------
(***************************************************************************)
(* How processes are born and die (kernel/task.c load_image, destroy_task, *)
(* destroy_task_respawn), by everything that does either: the console      *)
(* (kernel/manager.c), HALT (kernel/cmd.c), unhandled exceptions           *)
(* (kernel/bcode.c non_fatal), OS signals (task_cycle) and the debugger    *)
(* (kernel/debugger.c main_debug).                                         *)
(*                                                                         *)
(* The kernel's tables and counters are one record k, so that a handler    *)
(* that does several things in a row (destroy the task, reload its image,  *)
(* correct the counters, add to IP) is a composition of operators on it.   *)
(* What a process computes is left out: an instruction moves its IP.       *)
(***************************************************************************)
EXTENDS Integers, FiniteSets, FiniteSetsExt

CONSTANTS
  MaxVcpus,      \* MAX_VCPUS
  MinCycles,     \* MIN_CYCLES_TO_RESPAWN
  Images,        \* the binary images on disk
  NoImage,       \* a process that is not to be respawned
  Outcomes,      \* how loading an image may end
  BlockSizes,    \* sizes a process may allocate
  MaxMemory,     \* bound: dwords one process holds
  MaxExec        \* bound: executions

Cpus == 0 .. MaxVcpus - 1
NoCpu == MaxVcpus     \* current_cpu = -1: between two cycles

ASSUME TaskmanAssumption ==
  /\ MaxVcpus \in Nat \ {0} /\ MinCycles \in Nat /\ MaxExec \in Nat
  /\ Images \subseteq [init_IP : Nat, bytesize : Nat, datasize : Nat, debug : BOOLEAN]
  /\ NoImage \notin Images
  /\ Outcomes \subseteq {"loaded", "unreadable", "too_large", "no_memory", "bad_code"}
  /\ BlockSizes \subseteq Nat \ {0} /\ MaxMemory \in Nat

VARIABLES
  k,             \* the task manager's state
  curr,          \* current_cpu
  but_in_fact_it_was_fatal,
  trapped        \* history: kills of processes that run in debug mode

vars == <<k, curr, but_in_fact_it_was_fatal, trapped>>

-----------------------------------------------------------------------------
(* One virtual CPU: an idle slot is all zero.  Two fields are history: that *)
(* this process has died, or was killed, in debug mode (over), and that it  *)
(* found the mark of another one (inherited).                               *)

Idle ==
  [used |-> FALSE, debug |-> FALSE, stopped |-> FALSE, respawn |-> NoImage,
   IP |-> 0, work_cycles |-> 0, size |-> 0, mem |-> 0,
   over |-> FALSE, inherited |-> FALSE]

Used(s) == {x \in Cpus : s.cpu[x].used}
Free(s) == Cpus \ Used(s)

Init ==
  /\ k = [cpu |-> [x \in Cpus |-> Idle], dead |-> [x \in Cpus |-> FALSE],
          top_cpu |-> 0, exec_cnt |-> 0,
          exit_proc |-> 0, killed_proc |-> 0, died_proc |-> 0,
          used_memory |-> 0, used_bytecode |-> 0,
          short_memory |-> 0, short_bytecode |-> 0]
  /\ curr = NoCpu
  /\ but_in_fact_it_was_fatal = FALSE
  /\ trapped = 0

-----------------------------------------------------------------------------
(* Operators on the task manager's state *)

\* Mutant of Reap: the bytecode is freed and not taken off the total.
ReapKeepsBytecode(s, x) ==
  [s EXCEPT !.cpu[x] = Idle, !.killed_proc = @ + 1,
            !.used_memory = @ - s.cpu[x].mem]

\* What the two destroy functions share: memory is given back, the slot is
\* zeroed, the process counts as killed.
Reap(s, x) ==
  [s EXCEPT !.cpu[x] = Idle,
            !.killed_proc = @ + 1,
            !.used_memory = @ - s.cpu[x].mem,
            !.used_bytecode = @ - s.cpu[x].size]

Debugging(mode) == mode = "debug"

\* Mutant of Marks: the mark of the slot's last process stays.
MarksStay(mode, dead) == dead

\* debug[x].traceflag, which outlives the process, is set anew for a process
\* that is loaded to be debugged; not for one whose image says so itself.
Marks(mode, dead) == ~ Debugging(mode) /\ dead

\* load_image up to the failing or last allocation: the slot, and what has
\* been added to the totals by then.  Slot and totals may differ: short_memory
\* and short_bytecode (history) are what Reap will take off without it.
Place(s, x, img, mode, outcome) ==
  LET sized == outcome \in {"no_memory", "bad_code", "loaded"}
      filled == outcome \in {"bad_code", "loaded"}
  IN
  [s EXCEPT
     !.exec_cnt = @ + 1,
     !.dead[x] = Marks(mode, @),
     !.used_bytecode = IF filled THEN @ + img.bytesize ELSE @,
     !.used_memory = IF outcome = "loaded" THEN @ + img.datasize ELSE @,
     !.short_bytecode = IF outcome = "no_memory" THEN @ + img.bytesize ELSE @,
     !.short_memory = IF outcome = "bad_code" THEN @ + img.datasize ELSE @,
     !.cpu[x] =
       [Idle EXCEPT
          !.used = TRUE,
          !.debug = img.debug \/ Debugging(mode),
          !.inherited = img.debug /\ ~ Debugging(mode) /\ s.dead[x],
          !.IP = IF sized THEN img.init_IP ELSE 0,
          !.size = IF sized THEN img.bytesize ELSE 0,
          !.mem = IF filled THEN img.datasize ELSE 0,
          !.respawn = IF mode = "respawn" /\ outcome = "loaded"
                      THEN img ELSE NoImage]]

\* Mutant of Raise: the cycle's upper end stays.
Keep(s, x) == s

\* The cycle visits the slots up to top_cpu.
Raise(s, x) == [s EXCEPT !.top_cpu = IF @ < x THEN x ELSE @]

\* load_image: the first free slot, if any; a failure after the headers were
\* read destroys the task again (respawn is not set yet: no second load).
Load(s, img, mode, outcome) ==
  IF Free(s) = {} THEN s
  ELSE LET x == Min(Free(s))
           t == Raise(s, x)
           placed == Place(t, x, img, mode, outcome)
       IN CASE outcome = "unreadable" -> t
            [] outcome = "loaded" -> placed
            [] OTHER -> Reap(placed, x)

\* destroy_task: a process loaded to be respawned is loaded again, in the
\* first free slot, when it has worked long enough.
Reloads(s, x) ==
  s.cpu[x].respawn # NoImage /\ s.cpu[x].work_cycles >= MinCycles

DestroyTask(s, x, outcome) ==
  IF Reloads(s, x)
  THEN Load(Reap(s, x), s.cpu[x].respawn, "respawn", outcome)
  ELSE Reap(s, x)

\* Mutant of Died: a dead process stays counted as killed.
DiedAndKilled(s) == [s EXCEPT !.died_proc = @ + 1]

\* destroy_task has counted a kill.
Died(s) == [s EXCEPT !.died_proc = @ + 1, !.killed_proc = @ - 1]

\* The mark of a process that is dead and still in its slot
Trap(s, x) ==
  [s EXCEPT !.dead[x] = TRUE,
            !.cpu[x] = [s.cpu[x] EXCEPT !.stopped = TRUE, !.over = TRUE]]

\* non_fatal without a handler.  In debug mode the process counts as dead at
\* once and stays, stopped, until the debugger resumes it.
Unhandled(s, x, outcome) ==
  IF s.cpu[x].debug
  THEN Died(Trap(s, x))
  ELSE Died(DestroyTask(s, x, outcome))

\* Bound: a reload needs room in exec_cnt.
Bounded(x) == Reloads(k, x) => k.exec_cnt < MaxExec

\* The size of the address an IP can reach: one past the code.
Targets(x) == 0 .. k.cpu[x].size

-----------------------------------------------------------------------------
(* The console, between two cycles *)

AtConsole == curr = NoCpu

\* $fn, %fn and dfn
LoadImage ==
  /\ AtConsole /\ k.exec_cnt < MaxExec
  /\ \E img \in Images, mode \in {"plain", "respawn", "debug"},
        outcome \in Outcomes : k' = Load(k, img, mode, outcome)
  /\ UNCHANGED <<curr, but_in_fact_it_was_fatal, trapped>>

\* -nn: a process in debug mode counts as killed and is only marked dead.
ConsoleKill(x) ==
  /\ AtConsole /\ k.cpu[x].used
  /\ IF k.cpu[x].debug
     THEN /\ trapped < MaxExec
          /\ k' = Trap([k EXCEPT !.killed_proc = @ + 1], x)
          /\ trapped' = trapped + 1
     ELSE k' = Reap(k, x) /\ UNCHANGED trapped
  /\ UNCHANGED <<curr, but_in_fact_it_was_fatal>>

\* cnn, nnn
Resume(x) ==
  /\ AtConsole /\ k.cpu[x].used /\ k.cpu[x].stopped
  /\ k' = [k EXCEPT !.cpu[x].stopped = FALSE]
  /\ UNCHANGED <<curr, but_in_fact_it_was_fatal, trapped>>

-----------------------------------------------------------------------------
(* The cycle *)

StartCycle ==
  /\ curr = NoCpu
  /\ curr' = 0
  /\ UNCHANGED <<k, but_in_fact_it_was_fatal, trapped>>

\* work_cycles of the slot, whatever process is there by now; counted up to
\* MinCycles.
EndTurn ==
  /\ curr \in Cpus
  /\ k' = IF k.cpu[curr].used /\ k.cpu[curr].work_cycles < MinCycles
          THEN [k EXCEPT !.cpu[curr].work_cycles = @ + 1] ELSE k
  /\ curr' = IF curr < k.top_cpu THEN curr + 1 ELSE NoCpu
  /\ UNCHANGED <<but_in_fact_it_was_fatal, trapped>>

\* do_cycles reaches the debugger's or the bytecode's next instruction.
Running(x) == curr = x /\ k.cpu[x].used /\ ~ k.cpu[x].stopped
Marked(x) == k.cpu[x].debug /\ k.dead[x]
Fetches(x) == Running(x) /\ ~ Marked(x) /\ k.cpu[x].IP < k.cpu[x].size

\* main_debug: resuming a dead process destroys it.
DebugReap(x) ==
  /\ Running(x) /\ Marked(x) /\ Bounded(x)
  /\ \E outcome \in Outcomes : k' = DestroyTask(k, x, outcome)
  /\ UNCHANGED <<curr, but_in_fact_it_was_fatal, trapped>>

\* main_debug, or a handled exception of a process in debug mode
Breakpoint(x) ==
  /\ Running(x) /\ ~ Marked(x) /\ k.cpu[x].debug
  /\ k' = [k EXCEPT !.cpu[x].stopped = TRUE]
  /\ UNCHANGED <<curr, but_in_fact_it_was_fatal, trapped>>

\* An instruction that the process survives: the next one, a jump, or an
\* exception it handles.
Step(x) ==
  /\ Fetches(x)
  /\ \E ip \in Targets(x) : k' = [k EXCEPT !.cpu[x].IP = ip]
  /\ but_in_fact_it_was_fatal' = FALSE
  /\ UNCHANGED <<curr, trapped>>

\* The process and the total gain n dwords.
Gains(x, n) ==
  k' = [k EXCEPT !.cpu[x] = [k.cpu[x] EXCEPT !.mem = @ + n, !.IP = @ + 1],
                 !.used_memory = @ + n]

\* ALLOC
Alloc(x) ==
  /\ Fetches(x)
  /\ \E n \in BlockSizes : k.cpu[x].mem + n <= MaxMemory /\ Gains(x, n)
  /\ but_in_fact_it_was_fatal' = FALSE
  /\ UNCHANGED <<curr, trapped>>

\* mem_dealloc's check
Allocated(x, n) == n <= k.cpu[x].mem

\* DEALLOC
Dealloc(x) ==
  /\ Fetches(x)
  /\ \E n \in BlockSizes : Allocated(x, n) /\ Gains(x, - n)
  /\ but_in_fact_it_was_fatal' = FALSE
  /\ UNCHANGED <<curr, trapped>>

\* cmd_halt: destroy_task_respawn, which does not reload.
Halt(x) ==
  /\ Fetches(x)
  /\ LET t == Reap(k, x) IN
     k' = [t EXCEPT !.killed_proc = @ - 1, !.exit_proc = @ + 1]
  /\ but_in_fact_it_was_fatal' = FALSE
  /\ UNCHANGED <<curr, trapped>>

\* What do_cycles and an outer non_fatal still write to the slot after the
\* exception: change is added to IP; or, when it was the push for a handler
\* that overflowed, IP becomes saved_ex of the new process, which is 0.
Afterwards(s, x, ip) == IF s.cpu[x].used THEN [s EXCEPT !.cpu[x].IP = ip] ELSE s

\* An instruction raises an exception that nothing handles.
Fatal(x) ==
  /\ Fetches(x) /\ Bounded(x)
  /\ \E outcome \in Outcomes :
       LET t == Unhandled(k, x, outcome) IN
       \/ k' = Afterwards(t, x, t.cpu[x].IP + 1)
       \/ ~ k.cpu[x].debug /\ k' = Afterwards(t, x, 0)
  /\ but_in_fact_it_was_fatal' = ~ k.cpu[x].debug
  /\ UNCHANGED <<curr, trapped>>

\* An exception outside any instruction, and not handled: an IP beyond the
\* code, or the IPC time-outs for a waiting process at the start of a cycle.
\* It is dropped while but_in_fact_it_was_fatal is left from an earlier round.
\* Bound: a process in debug mode can die more than once, at most MaxExec times.
FatalOutside(x) ==
  /\ \/ Running(x) /\ ~ Marked(x) /\ k.cpu[x].IP >= k.cpu[x].size
     \/ curr = NoCpu /\ k.cpu[x].used
  /\ Bounded(x) /\ ~ but_in_fact_it_was_fatal
  /\ k.died_proc < MaxExec
  /\ \E outcome \in Outcomes : k' = Unhandled(k, x, outcome)
  /\ but_in_fact_it_was_fatal' = ~ k.cpu[x].debug
  /\ UNCHANGED <<curr, trapped>>

\* bad_signal: the task is destroyed and the cycle given up.
Signal(x) ==
  /\ Fetches(x) /\ Bounded(x)
  /\ \E outcome \in Outcomes : k' = Died(DestroyTask(k, x, outcome))
  /\ curr' = NoCpu
  /\ but_in_fact_it_was_fatal' = FALSE
  /\ UNCHANGED trapped

Next ==
  \/ LoadImage \/ StartCycle \/ EndTurn
  \/ \E x \in Cpus :
       \/ ConsoleKill(x) \/ Resume(x) \/ DebugReap(x) \/ Breakpoint(x)
       \/ Step(x) \/ Alloc(x) \/ Dealloc(x) \/ Halt(x)
       \/ Fatal(x) \/ FatalOutside(x) \/ Signal(x)

Spec == Init /\ [][Next]_vars

-----------------------------------------------------------------------------
Slot == [used : BOOLEAN, debug : BOOLEAN, stopped : BOOLEAN,
         respawn : Images \cup {NoImage}, IP : Nat, work_cycles : Nat,
         size : Nat, mem : Nat, over : BOOLEAN, inherited : BOOLEAN]

State ==
  [cpu : [Cpus -> Slot], dead : [Cpus -> BOOLEAN], top_cpu : Cpus,
   exec_cnt : Nat, exit_proc : Int, killed_proc : Int, died_proc : Int,
   used_memory : Int, used_bytecode : Int,
   short_memory : Nat, short_bytecode : Nat]

TypeOK ==
  /\ k \in State
  /\ curr \in Cpus \cup {NoCpu}
  /\ but_in_fact_it_was_fatal \in BOOLEAN
  /\ trapped \in Nat

\* Every execution is accounted for once, as exited, killed, died or alive,
\* by all the ways a process can be loaded, reloaded and destroyed; only a
\* process killed in debug mode is counted twice (task.c, bcode.c, manager.c).
ProcessesAddUp ==
  k.exec_cnt + trapped =
    Cardinality(Used(k)) + k.exit_proc + k.killed_proc + k.died_proc

\* The task cycle reaches every process: none is in a slot beyond top_cpu.
UsedAreScheduled == \A x \in Used(k) : x <= k.top_cpu

\* The totals the console shows are what the processes hold, through failed
\* loads and reloads, less the bytecode of every image that did not find
\* memory and the data of every image with bad code, which destroy_task takes
\* off before load_image has added it (task.c:569-609, bcode.c mem_alloc).
MemoryAddsUp ==
  /\ k.used_memory + k.short_memory = MapThenSumSet(LAMBDA x : k.cpu[x].mem, Used(k))
  /\ k.used_bytecode + k.short_bytecode = MapThenSumSet(LAMBDA x : k.cpu[x].size, Used(k))

\* A process in debug mode is marked dead from its unhandled exception or kill
\* until the debugger destroys it, and no other is: but one whose image asks
\* for debug mode itself, loaded where the mark was left (debugger.c
\* main_debug, task.c load_image, bcode.c non_fatal, manager.c).
MarksAreTrue ==
  \A x \in Used(k) :
    k.cpu[x].debug => (k.dead[x] <=> k.cpu[x].over \/ k.cpu[x].inherited)
=============================================================================
