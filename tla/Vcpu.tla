-------------------------------- MODULE Vcpu --------------------------------
(***************************************************************************)
(* The control core of one virtual CPU of the Argante kernel: the call     *)
(* stack, the exception stack that runs parallel to it, and the            *)
(* instructions that read or write either (kernel/bcode.c, kernel/cmd.c).  *)
(*                                                                         *)
(* Level(n) of the exception stack is the handler of execution level n, 0  *)
(* when that level has none.  An exception (non_fatal) shrinks the call    *)
(* stack to the nearest level with a handler, parks that handler in        *)
(* saved_ex / ex_at so that it is not live while it runs, and pushes a     *)
(* frame for it; popping back to ex_at puts the handler back.  A VCPU      *)
(* whose exception finds no handler is destroyed.                          *)
(*                                                                         *)
(* Every action but RetPop is one instruction.  RET <n> is a loop of n     *)
(* pops, each of which may itself raise STACK_UNDER and enter a handler;   *)
(* each turn of the loop is one RetPop, and nothing else is enabled until  *)
(* the loop is over, as in the single-threaded kernel.                     *)
(*                                                                         *)
(* Instructions whose only effect is on data are one instruction, "other"; *)
(* whatever makes an instruction raise an exception is the instruction     *)
(* "raise".  Respawn and the scheduler are in module Taskman.              *)
(***************************************************************************)
EXTENDS Integers, Sequences

CONSTANTS
  MaxStack,      \* MAX_STACK: deepest call stack
  CodeSize,      \* bytecode_size: instructions are at 0 .. CodeSize-1
  AddrSpace,     \* 2^width of IP and of the stack cells (2^32 in the code)
  HandlerCycle,  \* 2^width of in_handler, a signed char (256 in the code)
  Values,        \* contents of u0: user data and exception codes
  StackOver, StackUnder, OutsideCode, BadParam,  \* the kernel's own codes
  RetCounts,     \* operands of RET, read as a signed int
  Programs,      \* the programs considered
  EntryPoints    \* and where they may start

Addr == 0 .. AddrSpace - 1
Instr ==
  [op : {"jmp", "call", "onfail"}, arg : Addr]
    \cup [op : {"mov_u0", "raise"}, arg : Values]
    \cup [op : {"ret"}, arg : RetCounts]
    \cup [op : {"raise_u0", "nofail", "halt", "other"}, arg : {0}]

ASSUME VcpuAssumption ==
  /\ MaxStack \in Nat \ {0}
  /\ AddrSpace \in Nat \ {0, 1}
  /\ CodeSize \in 1 .. AddrSpace
  /\ HandlerCycle \in Nat \ {0} /\ HandlerCycle % 2 = 0
  /\ 0 \in Values
  /\ {StackOver, StackUnder, OutsideCode, BadParam} \subseteq Values \ {0}
  /\ RetCounts \subseteq Int
  /\ EntryPoints \subseteq Addr
  /\ Programs \subseteq [0 .. CodeSize - 1 -> Instr]

VARIABLES
  code,          \* bytecode, never written
  used,          \* flags & VCPU_FLAG_USED
  IP,
  stack,         \* stack[0 .. stack_ptr-1], saved instruction pointers
  ex_st,         \* ex_st[0 .. stack_ptr]; the cell of level n is ex_st[n+1]
  saved_ex,      \* handler parked while it runs, 0 when none
  ex_at,         \* the level saved_ex belongs to
  in_handler, u0, u0_saved,
  handling_failure, first_except_ip,  \* the first exception, for reports
  got_nonfatal_round, but_in_fact_it_was_fatal,  \* globals of all VCPUs
  pops,          \* turns left of the loop in cmd_ret, 0 outside it
  change         \* what do_cycles adds to IP after the instruction

frame == <<stack, ex_st, saved_ex, ex_at>>
user  == <<in_handler, u0, u0_saved>>
first == <<handling_failure, first_except_ip>>
round == <<got_nonfatal_round, but_in_fact_it_was_fatal>>
vars  == <<code, used, IP, frame, user, first, round, pops, change>>

None == 0   \* no handler at a level, and no parked handler

Next_IP(n) == (IP + n) % AddrSpace

\* A value stored in in_handler, which wraps at its width.
Char(n) == ((n + HandlerCycle \div 2) % HandlerCycle) - HandlerCycle \div 2

Level == Len(stack)

Init ==
  /\ code \in Programs
  /\ used = TRUE
  /\ IP \in EntryPoints
  /\ stack = <<>> /\ ex_st = <<None>>
  /\ saved_ex = None /\ ex_at = 0
  /\ in_handler = 0 /\ u0 = 0 /\ u0_saved = 0
  /\ handling_failure = 0 /\ first_except_ip = 0
  /\ got_nonfatal_round = FALSE /\ but_in_fact_it_was_fatal = FALSE
  /\ pops = 0 /\ change = 0

-----------------------------------------------------------------------------
(* Exceptions *)

\* The handler that unwinding finds at level l: the pop that reaches ex_at
\* puts the parked handler back before the level is looked at.
Pending(l) ==
  IF saved_ex # None /\ l = ex_at /\ l < Level THEN saved_ex ELSE ex_st[l + 1]

Nearest(l) ==
  /\ l \in 0 .. Level
  /\ Pending(l) # None
  /\ \A m \in l + 1 .. Level : Pending(m) = None

\* Mutant of CanHandle: only the current level is looked at.
HandlerHere == Nearest(Level) /\ Level < MaxStack

CanHandle == \E l \in 0 .. Level : Nearest(l) /\ l < MaxStack

\* bzero of the slot.  What do_cycles then adds to IP of the cleared slot is
\* seen only when the slot has been reloaded at once: module Taskman.
Destroy ==
  /\ used' = FALSE
  /\ IP' = 0
  /\ stack' = <<>> /\ ex_st' = <<None>> /\ saved_ex' = None /\ ex_at' = 0
  /\ in_handler' = 0 /\ u0' = 0 /\ u0_saved' = 0
  /\ handling_failure' = 0 /\ first_except_ip' = 0
  /\ pops' = 0 /\ change' = 0
  /\ UNCHANGED code

\* cmd_ret, after every pop or failed pop: forget the first exception when
\* IP stands one past it.
Forget(failure, ip, fip) ==
  IF (ip - 1) % AddrSpace = fip THEN 0 ELSE failure

\* Mutant of Park: the level is taken before the stack is shrunk.
ParkAtLevel(l) == saved_ex' = Pending(l) /\ ex_at' = Level

\* The handler of level l is not live while it runs.
Park(l) == saved_ex' = Pending(l) /\ ex_at' = l

EnterHandler(l, excp) ==
  LET failure == IF handling_failure = 0 THEN excp ELSE handling_failure
      fip == IF handling_failure = 0 THEN IP ELSE first_except_ip
  IN
  /\ IP' = Pending(l)
  /\ Park(l)
  /\ stack' = Append(SubSeq(stack, 1, l), IF l = Level THEN IP ELSE stack[l + 1])
  /\ ex_st' = SubSeq(ex_st, 1, l) \o <<None, None>>
  /\ in_handler' = Char(in_handler + 1)
  /\ u0_saved' = IF in_handler = 0 THEN u0 ELSE u0_saved
  /\ u0' = excp
  /\ handling_failure' = IF pops > 0 THEN Forget(failure, Pending(l), fip)
                                     ELSE failure
  /\ first_except_ip' = fip
  /\ change' = 0
  /\ but_in_fact_it_was_fatal' = FALSE
  /\ UNCHANGED <<code, used>>

\* non_fatal(excp), leaving rest turns of the loop it was called from.
\* Shrinking can end at a level that has a handler but no room for its frame:
\* the push inside non_fatal then raises again, which is always fatal.
NonFatal(excp, rest) ==
  /\ got_nonfatal_round' = TRUE
  /\ \/ \E l \in 0 .. Level :
          /\ Nearest(l) /\ l < MaxStack
          /\ EnterHandler(l, excp)
          /\ pops' = rest
     \/ /\ ~ CanHandle
        /\ but_in_fact_it_was_fatal' = TRUE
        /\ Destroy

-----------------------------------------------------------------------------
(* Instructions *)

Runnable == used /\ pops = 0

\* do_cycles fetches an instruction: the round flags are cleared first.
Fetch(op) == Runnable /\ IP < CodeSize /\ code[IP].op = op

Operand == code[IP].arg

NoException ==
  /\ got_nonfatal_round' = FALSE /\ but_in_fact_it_was_fatal' = FALSE
  /\ UNCHANGED <<code, used, pops>>

\* The bound check of g_push_ip_on_stack.
RoomForFrame == Level < MaxStack

Goto(a) == IP' = a /\ change' = 0
Advance == IP' = Next_IP(1) /\ change' = 1

\* An IP outside the code raises before the round flags are cleared: left
\* from an earlier round of any VCPU, but_in_fact_it_was_fatal hides it.
BeyondCode ==
  /\ Runnable /\ IP >= CodeSize
  /\ ~ but_in_fact_it_was_fatal
  /\ NonFatal(OutsideCode, 0)

Jmp ==
  /\ Fetch("jmp")
  /\ Goto(Operand)
  /\ NoException
  /\ UNCHANGED <<frame, user, first>>

Call ==
  /\ Fetch("call")
  /\ \/ /\ RoomForFrame
        /\ stack' = Append(stack, IP)
        /\ ex_st' = Append(ex_st, None)
        /\ Goto(Operand)
        /\ NoException
        /\ UNCHANGED <<saved_ex, ex_at, user, first>>
     \/ /\ ~ RoomForFrame
        /\ NonFatal(StackOver, 0)

\* ONFAIL, and NOFAIL which stores no handler.
SetHandler(h) ==
  /\ ex_st' = [ex_st EXCEPT ![Level + 1] = h]
  /\ Advance
  /\ NoException
  /\ UNCHANGED <<stack, saved_ex, ex_at, user, first>>

OnFail == Fetch("onfail") /\ SetHandler(Operand)
NoFail == Fetch("nofail") /\ SetHandler(None)

Raise == Fetch("raise") /\ NonFatal(Operand, 0)
RaiseU0 == Fetch("raise_u0") /\ NonFatal(u0, 0)

MovU0 ==
  /\ Fetch("mov_u0")
  /\ u0' = Operand
  /\ Advance
  /\ NoException
  /\ UNCHANGED <<frame, in_handler, u0_saved, first>>

Other ==
  /\ Fetch("other")
  /\ Advance
  /\ NoException
  /\ UNCHANGED <<frame, user, first>>

\* destroy_task_respawn: a halted task is not reloaded.
Halt ==
  /\ Fetch("halt")
  /\ got_nonfatal_round' = FALSE /\ but_in_fact_it_was_fatal' = FALSE
  /\ Destroy

\* The head of cmd_ret: in_handler counts the pops, whatever frames they pop.
RetHead(n) ==
  LET left == Char(in_handler - n) IN
  /\ u0' = IF left = 0 THEN u0_saved ELSE u0
  /\ in_handler' = IF left < 0 THEN 0 ELSE left
  /\ UNCHANGED <<frame, u0_saved, first>>
  /\ got_nonfatal_round' = FALSE /\ but_in_fact_it_was_fatal' = FALSE
  /\ UNCHANGED <<code, used>>
  /\ IF n > 0 THEN pops' = n /\ change' = 1 /\ UNCHANGED IP
              ELSE UNCHANGED pops /\ Advance     \* a negative count

Ret ==
  /\ Fetch("ret")
  /\ LET n == IF Operand = 0 THEN 1 ELSE Operand IN
     IF n > MaxStack THEN NonFatal(BadParam, 0) ELSE RetHead(n)

\* Mutant of PutBack: compares ex_at with stack_ptr before the decrement.
PutBackEarly == saved_ex # None /\ ex_at = Level

\* Mutant of PutBack: at the first pop, whatever level it reaches.
PutBackAtOnce == saved_ex # None

\* The pop of the top frame reaches the level whose handler is parked.
PutBack == saved_ex # None /\ ex_at = Level - 1

\* One turn of the loop in cmd_ret; the last one completes the instruction.
RetPop ==
  /\ used /\ pops > 0
  /\ IF Level = 0
     THEN NonFatal(StackUnder, pops - 1)
     ELSE LET ip == stack[Level] IN
          /\ stack' = SubSeq(stack, 1, Level - 1)
          /\ ex_st' = IF PutBack THEN SubSeq(ex_st, 1, Level - 1) \o <<saved_ex>>
                              ELSE SubSeq(ex_st, 1, Level)
          /\ saved_ex' = IF PutBack THEN None ELSE saved_ex
          /\ IP' = IF pops = 1 THEN (ip + change) % AddrSpace ELSE ip
          /\ handling_failure' = Forget(handling_failure, ip, first_except_ip)
          /\ pops' = pops - 1
          /\ UNCHANGED <<code, used, ex_at, user, first_except_ip, round, change>>

-----------------------------------------------------------------------------
\* Another VCPU runs between two instructions of this one and leaves the
\* globals as its last instruction or a handler called for it left them.
OtherRound ==
  /\ pops = 0
  /\ got_nonfatal_round' \in BOOLEAN
  /\ but_in_fact_it_was_fatal' \in BOOLEAN
  /\ but_in_fact_it_was_fatal' => got_nonfatal_round'
  /\ UNCHANGED <<code, used, IP, frame, user, first, pops, change>>

Next ==
  \/ BeyondCode \/ Jmp \/ Call \/ OnFail \/ NoFail \/ Raise \/ RaiseU0
  \/ MovU0 \/ Other \/ Halt \/ Ret \/ RetPop
  \/ OtherRound

Spec == Init /\ [][Next]_vars

-----------------------------------------------------------------------------
TypeOK ==
  /\ code \in [0 .. CodeSize - 1 -> Instr]
  /\ used \in BOOLEAN
  /\ IP \in Addr
  /\ stack \in Seq(Addr) /\ Len(stack) <= MaxStack
  /\ ex_st \in Seq(Addr) /\ Len(ex_st) = Len(stack) + 1
  /\ saved_ex \in Addr /\ ex_at \in Nat
  /\ in_handler \in - (HandlerCycle \div 2) .. HandlerCycle \div 2 - 1
  /\ u0 \in Values /\ u0_saved \in Values
  /\ handling_failure \in Values /\ first_except_ip \in Addr
  /\ got_nonfatal_round \in BOOLEAN /\ but_in_fact_it_was_fatal \in BOOLEAN
  /\ pops \in 0 .. MaxStack /\ change \in {0, 1}

\* A parked handler (non_fatal, bcode.c) can still be put back: the level it
\* belongs to is below the current one and has not been given another.
ParkedHandlerWaits ==
  saved_ex # None => ex_at < Level /\ ex_st[ex_at + 1] = None

\* A VCPU is destroyed by HALT, by an exception that finds no handler on any
\* level and none parked, or by one at the deepest level whose handler there
\* has no room for its frame: a handler that could run is never passed over.
DiesUnhandled ==
  [][used /\ ~ used' =>
       \/ pops = 0 /\ IP < CodeSize /\ code[IP].op = "halt"
       \/ saved_ex = None /\ \A l \in DOMAIN ex_st : ex_st[l] = None
       \/ Level = MaxStack /\ ex_st[MaxStack + 1] # None]_vars
=============================================================================
