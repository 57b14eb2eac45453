# Argante: a verification development of the virtual OS kernel

Argante (`src/Argante`) is an operating system that is one Unix process. Its
kernel runs programs in bytecode on virtual CPUs (VCPUs), one process each,
checks every access to memory and to the outside, and serves syscalls that
loadable modules implement: files, sockets, displays, and messages between
VCPUs, also of other machines. The kernel is a single thread: what makes it
hard is not preemption but the order in which one loop comes to its processes,
state that a handler leaves for the next one, and processes that die, are
loaded again, wait or raise exceptions in the middle of somebody's C function.

This directory holds TLA+ modules of that kernel, the configurations that model
check them with TLC, and theorems about them that TLAPS checks. A definition
keeps the name its source has in C wherever there is one; `PROJECT.json` maps
every definition to the lines it stands for.

## 1. The system

| component | source | modelled by |
|---|---|---|
| virtual CPU: control flow, call stack, exceptions | `kernel/bcode.c`, `kernel/cmd.c` | `Vcpu`, `VcpuHistory`; in part |
| task manager and memory accounting | `kernel/task.c`, `manager.c`, `debugger.c` | `Taskman`; in part |
| task cycle and scheduling | `kernel/task.c`, `bcode.c` | `Scheduler` |
| filesystem module: descriptors and write locks | `modules/fs.c` | `FsLock`; in part |
| memory of a VCPU, instruction set | `kernel/bcode.c`, `cmd.c` | `Instr`; in part |
| IPC: message requests | `modules/ipc.c` | `IpcMsg`, `Exchange`; in part |
| IPC: streams of one machine | `modules/ipc.c` | `IpcStream`, `StreamEnds`; in part |
| IPC: streams between machines, their packets | `modules/ipc.c` | `NetStream`, `StreamEnds`; in part |
| network module: sockets and their waits | `modules/network.c` | `Network`; in part |
| syscall table, HAC access rules | `kernel/module.c`, `kernel/acman.c`, `modules/access.c` | no; a refusal is an outcome of each module's syscalls |
| console, debugger | `kernel/manager.c`, `debugger.c`, `console.c` | what changes processes, in `Taskman` |
| rIPC daemon | `tools/ripc-daemon` | no; a network that loses and reorders, in `NetStream` |
| packet, graphics, display, math and library modules | `modules/*.c` | no |
| boot, linker, image format | `kernel/main-boot.c`, `linker.c` | no |
| compilers and tools | `hll`, `compiler`, `tools` | no |
| A2, the second-generation kernel | `src/A2` | no |

### 1.1 Components, their state, and what makes each correct

**Virtual CPU.** State: instruction pointer, call stack `stack`, exception
stack `ex_st` beside it (one handler per level of the call stack), one parked
handler (`saved_ex`, `ex_at`), the counter `in_handler`, `u0` and its saved
value; globals of the whole kernel that belong to the last instruction
executed (`got_nonfatal_round`, `but_in_fact_it_was_fatal`). Operations: the
control instructions (JMP, CALL, RET n, ONFAIL, NOFAIL, RAISE, HALT) and
`non_fatal`, which any instruction may call. Hard: an exception in a handler, in
the middle of RET n, or while its own frame is pushed; the globals, which leak
from one VCPU to the next. Correct if the two stacks stay parallel, a handler
that is not live while it runs can be put back, no level loses the handler declared
on it, and a process dies only when no handler could have run.

**Task manager.** State: the slots with flags, image, sizes; `top_cpu`; counters
of executions and how they ended; totals of memory and bytecode. Operations:
`load_image` with every way it fails, `destroy_task` (which may load the image
again), `destroy_task_respawn`, and their callers: console, debugger, HALT,
unhandled exceptions, OS signals. Hard: reloading happens inside of the
function that is running the old process; a process in debug mode dies in two
steps. Correct if each execution is accounted for once, the totals are what
the processes hold, and nothing of a dead process reaches the next one of its
slot.

**Task cycle.** State: `current_cpu`, the waiting state of each slot, `datime`
(the time the kernel last looked), `sleep_to` and the flags that decide how long
the kernel sleeps. Operations: one pass over the slots; a turn of `priority`
instructions; CWAIT, TWAIT, waiting for I/O or IPC; the timers. Hard: the time
is read only now and then and has 32 bits; the flags are changed by every slot
in slot order; an OS signal ends the pass in the middle. Correct if nobody
is woken early or never, no slot starves, and the kernel sleeps past
somebody's time by no more than its cycle took.

**Filesystem module.** State: a table of VFDs per VCPU (flag, inode, host
descriptor), the path of the last open per VCPU. Operations: open with or
without waiting, create, close, delete, rename, the poll of a waiting process in
every cycle, cleanup at the end of a process. Hard: a request that waits and an
open file are told apart by the state of their process only; the file is
looked up twice, at the request and when access is given; the process may die
in between. Correct if writers exclude each other, waiting ends, and the
host's descriptors are neither lost nor shared.

**Memory and instructions.** State: registers, the table of blocks (where each
begins, how long it is, whether it may be written or executed), the pointer of
the user stack, the counter that byte-swapping conversions depend on.
Operations: each instruction reads operands in one of eight ways, computes,
stores; ALLOC, REALLOC, DEALLOC change the table. Hard: sizes in bytes and in
words; counts that are negative; a table that grows; an instruction that
raises an exception halfway. Correct if an access that is allowed lies in memory
the process has, what is protected stays, and an instruction that raises
leaves no trace.

**IPC, messages.** State: the requests of each sender, the queue of each
receiver, queue elements that are linked by request and by receiver and taken
from free lists; receivers that sleep. Operations: register, send (to
one process, a group or everybody, to the first or to all, waiting or not),
receive, poll, the timers, the end of a sender or a receiver. Hard: a
timeout that races with answers; a sender that is woken by an exception, may
die of it, and runs its own cleanup in the middle of another's. Correct if every
request ends exactly once and its sender hears of it, no element is on
two lists, nobody sleeps past a message.

**IPC, streams.** State: the two ends, each with a state, flags, a ring buffer
and perhaps a process that sleeps in a read or a write; between machines also
the last packet sent and the number expected. Operations: read, write, close,
the end of a process, timers, the arrival of a packet. Hard: bytes go through
the buffer, from a sleeping writer or to a sleeping reader; packets are lost,
repeated, late; a close may carry the last bytes. Correct if bytes arrive in order
and once, the end of the stream is seen behind the last of them, and nobody
sleeps on an end that nobody will serve.

**Network module.** State: per VCPU a table of descriptors with flags, the
set it waits for, a wait with a time limit kept in registers; the host's
sockets. Operations: connect, listen, accept, receive, close, wait for an
event or for data, the end of a process. Hard: a syscall that fails after it has
its socket; a table that is left to the VCPU's next process; a limit
compared with a clock in two units. Correct if each socket has exactly one
holder, flags speak of the socket they are kept with, no wait sleeps through
its event, and every limit ends.

### 1.2 How they interact

* `main-boot` calls `task_cycle` for ever. Between two calls it runs the
  console. Nothing else ever runs: no component blocks but by `usleep` at the
  end of a cycle.
* `task_cycle` calls `do_cycles` for a process that runs, the `iohandler` a
  module has left for a process that waits, and IPC's timers at the start.
* `do_cycles` calls the instruction; SYSCALL calls the modules' handlers; any of
  them may call `non_fatal`, which returns and leaves `got_nonfatal_round` set.
* `non_fatal` may call `destroy_task`, which calls every module's
  `syscall_task_cleanup` and may call `load_image`: a process ends and another
  begins within the C function that an instruction of the first one called.
* An OS signal in any of these jumps back into `task_cycle`, which destroys the
  process and returns.

## 2. The modules

Handlers that the code composes (a cleanup that raises an exception that runs
another cleanup) are operators on a record of the state, so that an action is
the whole handler, with all it calls; the others are actions on variables.
History variables remember what the code does not; the properties need them to
speak of the past, no action reads them but to bound itself.

### 2.1 `Vcpu`, `VcpuHistory`

One VCPU and a program drawn from `Programs`. Each action is an instruction, but
for RET n, which is a loop of n pops, each of which can raise STACK_UNDER and
enter a handler: `Ret` is its head, `RetPop` one turn, and while `pops > 0`
nothing else is enabled. `NonFatal(excp, rest)` is `non_fatal`: `Nearest(l)` says
at which level its loop stops, `Pending(l)` which handler it finds there, given
that the pops on its way put the parked handler back. If there is a level but
no room for the handler's frame, the push raises again inside `non_fatal`, which
is fatal. `OtherRound` is the rest of the system as this VCPU sees it: the two
globals may have changed. `VcpuHistory` adds what each frame of the call stack
was pushed for (`frames`), the handler that ONFAIL or NOFAIL last declared on each
level (`declared`), and the levels whose handler was still running when another was
entered above it (`overtaken`).

*Checked (run `vcpu`).* `ParkedHandlerWaits`: the parked handler's level is
below the current one and holds no other handler, so that the pop can put it
back. `ParkedIsRunning`: the parked handler is the one whose frame is innermost.
`HandlersAreKept`: `ex_st` holds on each level the handler the program declared
there, and nobody else's. A handler is missing only while it is the parked one, or
if it was `overtaken`: that is the one way the code loses a handler for good (4.2).
`DiesUnhandled`: a process
dies by HALT, without any handler, or at the deepest level, never past a handler
that could have run.

*Bounds.* Stack depth 3 is the first with room for a handler frame above a
subroutine's frame above a handler's level. Programs of five instructions have
room for a handler that is declared, entered, declares another and is entered
again. All programs of five instructions that begin with CALL, ONFAIL or RAISE
are run (73,205), and all of four over the edge operands (65,536): 2.9 million
states. The kernel stops running a dead VCPU, so deadlock is
not checked.

### 2.2 `Taskman`

The tables and counters are a record `k`, and `Load`, `Reap`, `DestroyTask`,
`Died` are operators on it, because the code composes them: an unhandled
exception is *destroy, perhaps load again into the first free slot, correct the
counters, then add to the IP of whatever is in the slot now* (`Fatal`,
`Afterwards`). What a process computes is left out but for its IP and how much it
allocates. `Outcomes` are the ways `load_image` ends; each leaves the slot
and the totals as the code has them at that point (`Place`).

*Checked (run `taskman`).* `ProcessesAddUp`: what was loaded is what runs plus
what ended, by every way to end. `UsedAreScheduled`: no process is beyond
`top_cpu`, also when it is loaded again from inside the cycle. `MemoryAddsUp`:
the totals of memory and bytecode are the sums over the processes, less exactly
what failed loads took off too much (`short_memory`, `short_bytecode`; 4.2).
`MarksAreTrue`: a process in debug mode is marked dead from its death or kill until
the debugger destroys it, and no other is, but one whose image asks for debug mode
itself and finds the mark of another in its slot (4.2).

*Bounds.* Two slots, two images of different sizes, of which one asks for debug mode
itself, blocks of one size, three
words of memory; three executions: enough for a process, its reload and a
third that takes a slot in between. `work_cycles` is counted up to `MinCycles`,
the only value it is compared with.

### 2.3 `Scheduler`

`task_cycle` slot by slot (`curr`) and `do_cycles` instruction by instruction
(`left`), the clock moving at any point (`Tick`). A slot is looked at by exactly
one of `SkipIdle`, `CountDown`, `CheckTime`, `PollIO`, `SkipIPC`, `BeginTurn`;
each updates the flags and the timers as that branch does and goes on to the next
slot, or ends the cycle with the kernel's own sleep (`GoOn`, `Nap`). A wait for
I/O with `timecrit` set is the mode `critwait`. `Signal` is the `longjmp` out of
the middle of a cycle.

*Checked (run `scheduler`).* `NotWokenEarly`; `KernelDoesNotOversleep`: the kernel
computes its sleep from the time it read at the start of the cycle and goes to sleep
at its end (`began`), so it may be late. It sleeps half of what was left: if the cycle
took no longer than that it is up in time, and else late by no more than the cycle
took. With fairness `EverySlotIsReached`, `CountedSleepersWake`, `TimedSleepersWake`.

*Fairness.* `WF(Cycle)`: the kernel's loop always has a next step and takes it;
which one is the process's choice, and no fairness is assumed of it. `WF(Tick)`:
time passes. `EverySlotIsReached` is not obvious from that: a process that makes
the kernel give the cycle up is loaded again, and would starve the slots after it
if it did not have to work for `MIN_CYCLES_TO_RESPAWN` full turns first.

*Bounds.* Two slots, the one behind the other; sleeps of 0 and 2 cycles, of 1
and 3 time units with an idle sleep of 4: after 3 the kernel itself sleeps while
somebody does, in time as well as too long; `MaxTime` 5, and `TimeSpace` 16 so
that the clock does not wrap.

### 2.4 `FsLock`

Processes, each VCPU's VFDs (`fsdata`), the path of its last open (`waitfile`),
and the host: which inode a path names, what each of the kernel's descriptors
refers to. `Open` has the four outcomes of FS_OPEN_FILE: refused for NONBLOCK,
waiting, open, error of the host; each with what it has written by then. `Poll` is
`wait_for_write_access`, called in each cycle for a process that waits. `Raise` is
an exception as this module sees it: the process handles it, as often as one comes
(`Vcpu` shows that a handler is put back before it is entered again), or dies. The host (`LowestFd`, `HostClose`) is
modelled as `open` and `close` behave.

*Checked.* Run `fslock`: `WritersExclude`, `DescriptorsAreOwned`,
`DescriptorsAreInUse` and, with fairness, `FreedFileIsGranted`. Run `two_writers`
shows that `OneWriter` fails (4.1).
`WritersExclude` compares the files that the descriptors refer to. It is about VFDs
whose process has waited for nothing since it opened them, and whose file is the one
that was noted at the request (the history variable `unbroken`): that is the promise
the code keeps. The documentation's promise is wider and does not hold (4.1, 4.2).
`FreedFileIsGranted`: a process does not wait for ever for a file nobody else
writes to; if the host fails at the grant the process is told by an exception, and
its VFD is taken from it. If it handles that, it waits on in vain (4.2).
`DescriptorsAreOwned` is checked without killing processes that wait
(`KillsWaiters`), for which it fails (4.2); `DescriptorsAreInUse` has an
exception for created files (4.2).

*Fairness.* `WF(Poll(c))`: a process that waits is looked at in every cycle, which
is `EverySlotIsReached` of `Scheduler`.

*Bounds.* Two VCPUs with two VFDs each: one holds what the other waits for, and
each has VFDs to be mixed up; one of the two also waits for other things. Two names
and two inodes, so that a file can be deleted and created anew while it is waited
for. In `fslock` two host descriptors, one of them the console, which is fewer than
the VFDs that want one; in `two_writers` four. The inode noted in a VFD that has been
closed is abstracted: nothing reads it before it is written again.

### 2.5 `Instr`

One process that runs any program made of the instructions of `Code`. A step is
an instruction: operands are fetched (`Fetching`, with the exceptions of a read),
the result is stored (`Put`, `Store`), as in `cmd.c`. The machine `m` has the
registers, the blocks with their flags, the user stack, and what
the instruction reports to `do_cycles`. `Allows` is the kernel's test of an access;
`Within` is whether the words are memory the C library gave. An access that is
allowed and not within is undefined behaviour: `status` becomes `wild` and the
model stops.

*Checked (run `instr`).* `RaisingLeavesNoTrace`: an instruction that raises an
exception has changed nothing, but for the user stack's pointer, which PUSH and
POP have moved, and for `dmsiz`, which an ALLOC has raised when the larger table
of blocks could not be had. `ProtectionHolds`: as long as an instruction stays in the
blocks, the words of a block without MEM_FLAG_WRITE keep their values and a
MEM_FLAG_STRICT block keeps its flags; of an instruction that leaves its block
(status `wild`) nothing is claimed, for it may write to any. `AccessesStayInside`:
only after REALLOC, with a negative count or with a table that was outgrown (or was
to grow) does an access leave the blocks: the three holes in the code's checks.

*Bounds.* Words of six bits and bytes of three: two bytes per word, enough to tell
bytes from words and one byte order from the other, and addresses for two blocks of
up to four words in less than half of the space; 47 instructions that between them take every operand type where it is
accepted or refused; five steps.

### 2.6 `IpcMsg`, `Exchange`

The processes of one machine, their requests (`req`, in the order of their
numbers, `own` by sender), the queues of receivers (`incoming`), those asleep
(`sleepers`), the count of free queue elements and blocks of them. A handler is an
operator on the record `m`. `Destroy` is `destroy_task` with the cleanup, which may
`Raise` exceptions of the senders it answers, which may end them in turn. While an
exception ends a process those of others are ignored (`CHECK_FAILURE_FN`), so that
`Raise` ends one by `DestroyQuietly`, and the recursion of the code is two levels
deep. Where the code uses memory it has given back, or cuts a list off, `wreck` says
so and the model stops. A request that is given back twice, as at the death of the
last receiver of a sender that sleeps, is no wreck yet: `twice` remembers it, and the
model goes on.

`Exchange` is what a request promises: it is opened and closed once, comes to each
receiver once and while it is open; the first of them stays on record. `Exchanges`
shows that each request of `IpcMsg` is one (`Outside!Spec`, with the refinement mapping in the
module).

*Checked (run `ipcmsg`).* All but `SendersKnow`, `SendersGoOn` and `Exchanges` are
about the states without a wreck (`Sound`). `ListsAreSound`: lists and queues hold
live requests, each once, in its sender's list and in queues of those it has not
come to. `SendersAreAnswerable`: a sender that sleeps has exactly one request that
says so, on its list, and somebody who has yet to answer it: no death leaves it
behind, that of its last receiver included. `NoMessageIsMissed`: no receiver sleeps while its queue holds a message for
it. `ElementsAddUp`: queue elements in use, free and lost (4.2) are all
there are. `SendersKnow`: a sender that goes on before its time is up is told who got its
message first; excepted are senders HAC refuses a receiver, who are told the same
(`ipc.c:1831`), and steps that wreck a list or give a request back twice.
`SendersGoOn`: under fairness a sender that sleeps is woken. `Exchanges`.

*Fairness.* The second passes (`WF(Tick)`), and the timeout handler, which runs in
every cycle, is not kept from a request that stays expired.

*Bounds.* Three processes, of which two are registered at the start and the third
starts later; one group, one refused pair, a sender with two requests at once,
both kinds of modes that change a sender's sleep; two requests: one may time out,
be answered, or its sender end, while the other is under way.

### 2.7 `IpcStream`

The two ends of a local stream with their two buffers, used crosswise; bytes are
numbered in the order in which they are written. `LocalRead`, `LocalWrite`,
`LocalClose` and the end of a process, each with what it does to the other end's
sleeping process. When the acceptor's `my_vcpu` was never set (4.2), its close clears
somebody else's entry: `stranger` is that entry. `StreamEnds` holds what this module
shares with `NetStream`; names that both would have start with `Local` here, because
one module holds the proofs about both.

*Checked (run `ipcstream`).* `BytesInOrder`: the bytes come once and in order,
whichever way they go. `SleepersAreServed`: no process sleeps on the stream unless
an awake peer can end its sleep.

*Bounds.* A buffer of two bytes and calls of one, two and four: less than, as much
as and more than it holds; five bytes: the buffer wraps.

### 2.8 `NetStream`

The two ends of a stream between machines, from the acceptor's answer on, and the
packets under way to each. A packet may be lost, overtake another, and be
sent again; one more than `MaxPackets` is lost. A handler is an operator on a record
of one end (stream, process, packets it sends), and `Do` runs it with and without
a route to the peer. `Faults` says what else may happen to which end: a request times out, is given up, a peer is silent, a route disappears,
a process ends. `upset` remembers which did. The request that made the stream
outlives it in `network_requests`: `Repeat` goes on sending it after the slot was
given back (`GivenBack`), while a reset for such a slot is ignored.

*Checked.* Run `netstream`: `BytesAreNotLost`: from the first byte that arrives on,
bytes come once, in order and all of them (the acceptor's first packet may be lost:
`Firsts`, 4.1); `EndOfStreamIsTheEnd`. Run
`netstream_live`: `SleepersStayAwaited` and, with fairness, `BytesLeave`.

*Fairness.* The ping timer of each end runs (weak), and not all packets to an end
are lost (strong). Both are written out, with `ENABLED` replaced by the condition
under which the timer changes something.

*Bounds.* Two packets to the acceptor can overtake each other, with two bytes that
fill two packets; one packet the other way. An answer is given up after two
attempts rather than three. A stream's counters do not wrap. Assumed of
the code outside: a bucket for a packet is free; the requester uses
the stream after the answer only; no process writes to a stream it has closed.

### 2.9 `Network`

Per VCPU the process (with its wait), the table of descriptors with flags, and
the set it last waited on (`netdata`); the host's sockets with their role and
state (`host`); what the other sides do to them; `lost`, which remembers the
sockets that the code forgets (4.2). The time limit of a connection is kept in the
wait, counted from the second it begins in.

*Checked.* Run `network`: `SocketsAddUp`: every socket of the host has exactly
one holder, or is among those the code is known to forget. `FlagsTellKind`:
flags speak of the socket the descriptor holds. `EventIsSeen`: a process does
not sleep through an event of a descriptor it waits on (up to `MAX_NET_SD`, 4.2).
`ConnectEnds`: every time limit ends. Run `connect_limit` shows that `LimitIsGiven`
fails (4.1).

*Fairness.* Time passes, and a process that waits is polled in every cycle (weak
fairness of `Tick`, `WaitForConn(c)`, `WaitEvent(c)`). Nothing is assumed of the
other side.

*Bounds.* Two VCPUs with two descriptors, two sockets of the host: sockets run out
before descriptors do, and one VCPU's number may become the other's. Seconds of
two units with a limit of two: a limit that ends in the next second.

## 3. What is proved

For all values of the constants, under each module's named assumptions. The modules
`*_proofs` hold nothing but lemmas, theorems and the definitions they need; each
invariant was checked by TLC on its module's run before it was proved.

| theorem | property | argument |
|---|---|---|
| `Vcpu_proofs!TypeCorrect` | `TypeOK` | inductive; `Len(ex_st) = Len(stack) + 1` carries it |
| `Vcpu_proofs!ParkedHandlerIsSafe` | `ParkedHandlerWaits` | `IInv`, that is `TypeOK` and the property, is inductive: entering a handler empties the level it takes it from |
| `Vcpu_proofs!HandlersAreNotPassedOver` | `DiesUnhandled` | from that invariant: if no level is `Nearest`, all are empty and nothing is parked |
| `Vcpu_proofs!RunningIsParked` | `ParkedIsRunning` | `FramesInv`: the history has one entry per level, and the property; of the steps that push, only a handler's makes `ex_at` a new level |
| `Vcpu_proofs!DeclaredHandlersStay` | `HandlersAreKept` | `KeptInv`: what is parked is what was declared on its level, and the property; `CellsStep` says what the steps that enter no handler leave in each cell of `ex_st`. Needs `FramesInv`: who is parked has a frame, so another handler overtakes him |
| `Taskman_proofs!TypeCorrect` | `TypeOK` | inductive |
| `Taskman_proofs!ExecutionsAddUp` | `ProcessesAddUp` | `Missing(s)`, the difference of the two sides, is what each operator on `k` changes by 0, 1 or -1; compositions add up |
| `Taskman_proofs!CycleReachesAll` | `UsedAreScheduled` | with the former, step by step |
| `Taskman_proofs!MemoryIsAccounted` | `MemoryAddsUp` | each operator leaves the totals `Even` with the sums over the processes; lemmas on the fold say what changing one process does to a sum |
| `Taskman_proofs!MarksStayTrue` | `MarksAreTrue` | `AllTrue`: `TrueAt` of each slot; an operator changes the mark of the slot it works on only, and `Place` says whose mark a new process finds |
| `Scheduler_proofs!TypeCorrect` | `TypeOK` | inductive |
| `Scheduler_proofs!SleepersSleepOn` | `NotWokenEarly` | `Timely`: the kernel's time is not ahead of the clock, and `wake_on` is the time asked for |
| `Scheduler_proofs!KernelIsUpInTime` | `KernelDoesNotOversleep` | `Resting`: the flags heed every slot already visited in this cycle |
| `FsLock_proofs!TypeCorrect` | `TypeOK` | with `WaitsForPath`: who waits has named a path |
| `FsLock_proofs!LockExcludes` | `WritersExclude` | `LockInv`: a VFD in `unbroken` is marked in `fsdata` and its process does not wait (`Kept`), so every request finds it, and no two of them have noted one inode (`NotedApart`); `AsNoted`: they refer to the inode they noted, because their descriptors are their own (`OwnedInv`) |
| `FsLock_proofs!NoDescriptorIsLost` | `DescriptorsAreInUse` | `InUseInv`: what the host has open is named by some VFD, the console or a file lost to FS_CREATE_FILE |
| `FsLock_proofs!DescriptorsStayOwned` | `DescriptorsAreOwned` | `OwnedInv`: every VFD's descriptor is open at the host (`Backed`) and no two VFDs have the same (`Apart`); a step only loses descriptors, or gains one that was closed |
| `Instr_proofs!TypeCorrect` | `TypeOK` | `Inv`: the machine is `Typed`, blocks are as large as the checks believe (`Sized`), and wild only for the three reasons (`Inside`) |
| `Instr_proofs!ChecksAreEnough` | `AccessesStayInside` | the same; the addresses do not wrap because of `AddressesAssumption` |
| `Instr_proofs!HandlerFindsWhatWas` | `RaisingLeavesNoTrace` | each of the 26 instructions has outcomes that are `Good`: `Traceless` when they raised, but for the two traces that the property names |
| `Instr_proofs!ProtectedStaysProtected` | `ProtectionHolds` | and `Protected`, when they did not end `wild` |
| `IpcMsg_proofs!TypeCorrect` | `TypeOK` | `IInv`: `m` is a `Machine`, and as long as nothing is wrecked it `Keeps` its nine parts (below) |
| `IpcMsg_proofs!SleepersAreAnswerable` | `SendersAreAnswerable` | `Waiting`: who waits to be answered has one request that says so, with targets, on the own list; as long as the state is `Sound` |
| `IpcMsg_proofs!ListsStaySound` | `ListsAreSound` | `Lists`, `Elements`, `Owned`: no list holds a request twice, nor one that is not alive or not of those it is for; as long as the state is `Sound` |
| `IpcMsg_proofs!SleepersMissNothing` | `NoMessageIsMissed` | `Receiving`: the list of sleepers is the set of those that wait, and nothing on a sender's list is in their queues |
| `IpcMsg_proofs!NoElementIsInvented` | `ElementsAddUp` | `AddsUp`, by the cardinality of `Queued` under each way to take an element and to give it back |
| `IpcMsg_proofs!SendersAreTold` | `SendersKnow` | `Knows`: a step that ends a sleep `Answered` it, or it ended the sender, or gave the request back twice; else it is `Steady` |
| `IpcMsg_proofs!RequestsAreExchanges` | `Exchanges` | refinement, step by step: `Moved` says what a call may do to a request, and `Outside!Next` follows |
| `Streams_proofs!LocalTypeCorrect` | `LocalTypeOK` | inductive |
| `Streams_proofs!BytesArriveInOrder` | `BytesInOrder` | `Ordered(e)`: what was read, what the buffer holds and what the sleeping writer has left are consecutive |
| `Streams_proofs!NobodySleepsInVain` | `SleepersAreServed` | `Fine(e)`: a reader sleeps on an empty buffer only, a writer on a full one, and a peer awake can tell |
| `Streams_proofs!NetTypeCorrect` | `TypeOK` of `NetStream` | `IInv`: `Types`, `Once` and `Sound`, the relation `GoodAt` of the two ends (below) |
| `Streams_proofs!BytesCross` | `BytesAreNotLost` | `Flow`: what y has is a `Run` from its first byte, and what it wants next is the oldest byte x keeps, or the one after the packet that has arrived; from `Firsts` on |
| `Streams_proofs!EndIsTheEnd` | `EndOfStreamIsTheEnd` | `Endings`: without a fault a dead or reset stream was `Complete` before |
| `Streams_proofs!NobodyIsForgotten` | `SleepersStayAwaited` | each handler is `Proper`: it leaves its process `Resting` only if it was, or for a named reason; a fault happens to an end `Once` |
| `Network_proofs!TypeCorrect` | `TypeOK` | inductive |
| `Network_proofs!SocketsStayAccounted` | `SocketsAddUp` | `Sound`, a condition on one process, its descriptors and the host, is kept by each handler that touches it |
| `Network_proofs!FlagsAreTrue` | `FlagsTellKind` | with the former |

**Assumptions.** `SleepersSleepOn` assumes `NoWrap`, that `MaxTime` lies before the
wrap of the clock; `KernelIsUpInTime` assumes `FarFromWrap`, that twice that and
the kernel's own sleep does, as the code takes the sign of a difference. Both
properties fail across the wrap (4.2). `DescriptorsStayOwned` and `LockExcludes` assume
`~KillsWaiters`, without which they fail (4.1). `Instr` assumes that words
consist of whole bytes and that two registers exist (`SizesAssumption`); that an
image's data and the operands of its instructions are what `load_image` and
`task_check_bcode` let in (`ImagesAssumption`, `CodeAssumption`); that the first
table of blocks and the bytes of a block are less than half of the address space,
which holds with 2^21 words of 2^32 and 2^20 bytes (`AddressesAssumption`); and two
laws of powers (`PowersAssumption`), because the provers know none. TLC evaluates
all of them on the run of the module.

**Instr.** The lemmas of `Instr_proofs` go from the arithmetic up. Numbers of
several digits: quotients, remainders, and that every row of digits is written by
exactly the numbers of its length, from which XOR, OR, AND, the byte order and
STOB get their words. Then what the checks of an access allow (`AllowedIs`
for one word, `AllWithin` for s0 of them). Then the pieces every instruction is
made of, each with *if the outcome it is given is good, so is its own*: `Fetching`,
`Put`, `Store`, `Blockwise`, `Moved`. An instruction is then one of these around
another, and its lemma a few lines.

**IpcMsg.** The invariant is `Keeps(m, heard, {}, {})`. Its arguments D and E are
what makes it hold in the middle of a call: the cleanup of c leaves c awake or
asleep as it was (D = {c}), and a request whose last element was just given back
sleeps without a target (E = {i}). Each operator has a lemma for what it does to the
fields, one that it `Keeps` under which exemption, and one that it only `Loses`:
requests, elements and processes are not made. The loops of the cleanup
and of the timer are inductions over the turns of `Loop`, which is a function over
an interval (`Climbs`, `LoopRuns`); in the cleanup the exceptions of others are
opaque, any state that `Loses` (`Parting`). The death of a last receiver gives its
sender's request back twice; the second time finds no element that refers to it, so
the invariant survives and only `Intact` is lost. A wreck is a state the invariant says
nothing of, and every lemma ends with `t.wreck = "none" =>`, as the calls
go on to their end after it. A step from a sound state is then `Good`: typed, `Moved`, and if
it ends sound it `Keeps` and `Knows`.

**NetStream.** The invariant `Sound` relates the two ends, each with the packets it
has under way: `GoodAt(k, l, e, x, y, calm)`, for k and l the first bytes that arrive.
It has the same parts for both directions and the one `Meeting` of both. `Shape` and
`Manner` are about one end: its buffers and counters; its flags and its process. `Flow` is
the stop-and-wait protocol: the receiver's number is the sender's or one behind, and the
bytes at both ends are consecutive. `Fitting` is about every packet under way, in any
order: one with the next number holds what the receiver wants, and one with the
sender's number is what the sender would send now; older ones are harmless. `Endings` says
when a stream may be found dead, `Handshake` which packets exist before it is confirmed. The
last two depend on `calm`: a fault lets go of them, once and for all. A handler
of e keeps `Holds`, whatever its peer y is: there is one lemma for each operator of
the module about a record that `Holds`, and what it says of the flags besides
(`Served`, `ShutDown`, `Grown`, `Noticed`). `DoStep` takes the result of a handler back
to the two ends, by the symmetry of `Good` (`GoodTurned`). To be provable
the module got two operators of its own for reading and writing, and `MaxPackets` is
not 0, as the first answer is under way at the start. What the proof showed to be wrong was a read
of no bytes: on a dead stream it was taken for the end.

**Only model checked.** What TLAPS cannot state or prove here: everything under
fairness (`EverySlotIsReached`, `CountedSleepersWake`, `TimedSleepersWake`,
`FreedFileIsGranted`, `SendersGoOn`, `BytesLeave`, `EventIsSeen`, `ConnectEnds`). All other invariants
and action properties of the passing runs are theorems.

## 4. Where the code does something else

### 4.1 Against what the documentation says

Two runs show a promise that does not hold:

| run | property | what happens |
|---|---|---|
| `two_writers` | `OneWriter` | a process that waits, for whatever, does not keep writers from the files it has open (`fs.c:429`) |
| `connect_limit` | `LimitIsGiven` | the seconds a connection is given are compared with a sum of seconds and microseconds: the limit ends at another time (`network.c:471`) |

Others follow from the modules and need no run of their own:

* An exception in a handler enters the same handler again: the pops of
  `non_fatal` put it back before they look for one (`bcode.c:172-178,527`;
  `00600-exceptions:27` says a lower handler is called).
* A process loaded again after an unhandled exception skips its first instruction:
  `do_cycles` goes on to add to the IP (`bcode.c:635`, `Afterwards` in `Taskman`;
  `01000-scripts:28`).
* After a process died of an exception, the next one whose IP leaves the code is never
  told and does nothing for ever: `non_fatal` returns at once until some
  instruction clears `but_in_fact_it_was_fatal` (`bcode.c:622`, `OtherRound` in `Vcpu`;
  `00600-exceptions:56`).
* Killing a process that waits for a file closes a host descriptor that it does not
  own, descriptor 0 at first (`fs.c:988,993`): why `DescriptorsAreOwned` is checked
  and proved for `~KillsWaiters`.
* After REALLOC a block is a quarter as large as its bounds say, and one
  block can be written from another (`bcode.c:433`; `00400-VCPU:10` calls that
  impossible). `AccessesStayInside` excepts it.
* A request that ends while others are under way may be used after it was given
  back: its elements still refer to it (`ipc.c:2045,5667`), or the list is cut off
  behind it: `wreck` in `IpcMsg`. It is freed twice when the last receiver of a sender
  that sleeps ends (`ipc.c:5826-5835`): `twice`.
* The acceptor's first packet, when it is sent before the requester's first, has
  number 0, which says *no data*: it is acknowledged and its bytes are lost
  (`ipc.c:2234-2237,3532`; `00900-ipc:62,576` promise delivery in order). `Firsts`
  leaves them out of the properties of `NetStream`.
* Giving a stream up leaves its request on the list with a pointer to the stream
  that is gone (`ipc.c:3771-3779`): a late answer, or the end of the process, follows
  it. `req` is then `stale` in `NetStream`, and following it is `Wreck`.

### 4.2 Met while modelling, part of the modules

*Virtual CPU, task manager, scheduler.*
* A subroutine of a handler that declares and enters a handler of its own makes the
  outer one be forgotten: `saved_ex` holds one (`overtaken` in `HandlersAreKept`). RET of a subroutine in a handler
  restores `u0` already, and a handler entered again restores it too late.
* Killing a process in debug mode counts it as killed at once, and again when
  the debugger resumes it (`trapped` in `ProcessesAddUp`).
* An image may ask for debug mode itself: its flags are copied, and the trace flags of
  the slot are reset only in the kernel's own debug mode (`task.c:496-503`). Loaded
  where a mark was left, such a process is taken for dead and destroyed
  (`debugger.c:55`); a respawned one finds the mark of its predecessor again
  (`inherited` in `MarksAreTrue`).
* An image that fails the bytecode check takes its data off `used_memory`, to which
  it has not been added yet (`task.c:594,609`).
* A TWAIT that reaches across the wrap of the 32-bit clock ends at once. The kernel's own
  sleep is computed from the start of the cycle: after a long one it is late
  (`task.c:182-187,285`).

*Files.*
* An error of the host when a waiting process gets its file raises an exception and
  leaves the process waiting; the next cycle raises it again, for ever if the process
  has a handler (`Poll`, `Raise`; the exception in `FreedFileIsGranted`).
* The inode is noted at the request and the path is opened at the grant
  (`fs.c:284-299`): a file deleted and created anew in between is written by two
  (excepted in `WritersExclude`).
* FS_CREATE_FILE does not mark its VFD as used: it cannot be written, closed or
  given back (`Create`; the second case of `DescriptorsAreInUse`).

*Instructions.*
* NOT through a UPTR stores the word it read (`cmd.c:2320`). CMPCNT and CPCNT
  refuse an IMMPTR as the second operand. CMPCNT answers in s0, the documentation
  says u0; LOOP counts down, the documentation says up.
* DIV and MOD of the smallest int by -1 end the kernel with SIGFPE (`Killed`).
* When the table of blocks grows, what is cleared is not its new part
  (`bcode.c:361`); when there is no memory for it, ERROR_NOMEM is raised with
  `dmsiz` already raised (`bcode.c:353-358`), and slots past the end are taken for
  blocks. A negative count passes the checks of CMPCNT and CPCNT
  (`bcode.c:317`).

*Messages.*
* The search among a request's targets for a receiver that sleeps looks at the
  next before it asks whether there is one (`ipc.c:1655`): it faults for a sleeper
  that is not addressed (`Faults`). A message every receiver refused
  ends as completed (`ipc.c:1831`); a receiver that sleeps gets it without the
  access check.
* `done_linked` forgets the rest of a free list (`ipc.c:558`), and the element of a
  sleeper that is served is never given back (`ipc.c:1684`): `lost` in
  `ElementsAddUp`.
* A timeout wakes its sender without an exception when the sender ignores them.

*Streams.*
* `ipc_stream_ack` does not set `my_vcpu` in a local stream (`ipc.c:2842-2872`): the
  acceptor's close clears somebody else's entry (`ipc.c:3156`), a second close gives
  nothing back, and with its own number the buffers are gone.
* A blocked writer is woken but its STR_WRITESLEEP flag stays
  (`ipc.c:2351-2357`); the timers raise without clearing the wait (`ipc.c:3728,3777`).
* A hard close of a stream one's own end has closed leaves the other's sleeper
  asleep; a write after one's own close uses a packet's number again; two ends that
  close with bytes unsent send packets for ever; when both close at once, one
  stays closing.
* An answer that does not come in ten seconds makes the peer dead while processes
  still sleep on the stream; without a route a reader sleeps on. A negative
  acknowledgement is never sent to the machine it is for (`ipc.c:2124-2150`).

*Network.*
* Errors after the socket was made forget it (`do_connect`, `do_listen`, SO_ERROR in
  the wait, the end of a process that connects): `lost` in `SocketsAddUp`.
* Cleanup leaves the set a process waited on to its successor. Descriptors above
  `MAX_NET_SD` are never seen by a wait (`network.c:994`). A UDP listener cannot be
  used; an empty UDP datagram is taken for the end of the stream.

## 5. What is not modelled, and why

*Data*: strings, contents of files and messages, formatting, logging. *Pure I/O*:
display, graphics, packet filters. *Text processing*: compilers, the console's
line editor. *Done once*, at boot or load: linking, the fixing up of addresses. *A2*
is an unfinished rewrite that shares no code with the kernel. Failures of
`realloc` for the stacks are left out of `Vcpu`: at which depth they occur is the C
library's choice, and what follows is undefined.

Within the modelled components: the syscalls of `advmem.c` and the float registers
in `Instr`, and what `swapcode` does with a 64-bit long; the handshake of a
stream, the use of its slot by a later stream or of its VCPU by a later process, the
status call, and the wrap of its counters in `IpcStream` and `NetStream`; blocks that are shared by IPC (the
kernel always refuses them, `bcode.c:342`); messages to other machines; in `Network`
the data transferred, Unix sockets, `sendfile`, and failures of `select`
itself. Each component's entry in `PROJECT.json` says what is left out of it.

## 6. What is left

Proofs: none that these modules need; a new module brings its own.

Models: the first matching rule of HAC as an operator, against a reference; the
table of syscalls and its cache; the handshake of a stream; messages between
machines and the daemon that carries them.
