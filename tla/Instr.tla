------------------------------- MODULE Instr -------------------------------
(***************************************************************************)
(* The instructions of one process that move, compute and compare data     *)
(* (kernel/cmd.c), the blocks of memory they work on and the checks of     *)
(* every access (kernel/bcode.c).  Calls, handlers and waits are in Vcpu   *)
(* and Scheduler: here an instruction that raises an exception leaves the  *)
(* number of the exception in u0 and the process goes on in its handler.   *)
(*                                                                         *)
(* A process runs any program made of the instructions of Code.  A step is *)
(* one instruction; the machine m is a record:                             *)
(*   u, s      unsigned and signed registers (u0, u1, s0, ...)             *)
(*   mem       the blocks (cpu[c].mem): used when real_memory is not null, *)
(*             given the whole words the C library gave for the block      *)
(*   dmsiz     the slots the kernel takes the table of blocks to have      *)
(*   stack     user_stack, user_size and user_ptr                          *)
(*   change    what the instruction adds to IP, 0 when it set IP itself    *)
(*   raised    got_nonfatal_round: the last instruction raised             *)
(*   status    wild when memory that is not the process's was read or      *)
(*             written: what follows is undefined, and the model stops;    *)
(*             killed by SIGFPE                                            *)
(* resized, negative and grown remember what the program has done.         *)
(* Floating-point registers are left out.                                  *)
(***************************************************************************)
EXTENDS Integers

CONSTANTS
  Width,      \* bits of a word (32)
  ByteWidth,  \* bits of a byte (8)
  Registers,  \* REGISTERS
  MaxAlloc,   \* MAX_ALLOC_MEMBLK
  MaxMemblk,  \* MAX_MEMBLK
  MemGrow,    \* MEM_GROW, the slots a process starts with
  Images,     \* the data segments a process can start with
  Code,       \* the instructions [op, a, b] programs are made of
  ErrorCode,  \* a word: the number of an exception
  MaxSteps    \* bound: instructions of a run

Space == 2^Width
Bytes == Width \div ByteWidth
Word == 0 .. Space - 1
Flags == {"read", "write", "strict", "swap"}
Slots == 0 .. MemGrow - 1

ASSUME SizesAssumption ==
  /\ Width \in Nat \ {0} /\ ByteWidth \in Nat \ {0} /\ Width = Bytes * ByteWidth
  /\ Registers \in Nat /\ Registers >= 2
  /\ MaxAlloc \in Nat \ {0} /\ MemGrow \in Nat \ {0} /\ MaxMemblk \in Nat
  /\ MaxMemblk >= MemGrow /\ MaxSteps \in Nat /\ ErrorCode \in Word

(* The laws of powers, of which the provers know nothing.                  *)
ASSUME PowersAssumption ==
  /\ 2^0 = 1 /\ 2^1 = 2
  /\ \A a \in 0 .. Width : 2^a \in Nat \ {0}
  /\ \A a, b \in 0 .. Width : a + b <= Width => 2^(a + b) = 2^a * 2^b

(* The first table of blocks spans half of the addresses at most (2^21 of  *)
(* 2^32), and the bytes of a block are counted by an int (2^20).           *)
ASSUME AddressesAssumption ==
  MemGrow * (2 + MaxAlloc) <= Space \div 2 /\ MaxAlloc * Bytes < Space \div 2

VARIABLES m, steps
vars == <<m, steps>>

(* Words: two's complement, bytes, and bit by bit.                         *)
Signed(w) == IF w < Space \div 2 THEN w ELSE w - Space
Wrap(n) == n % Space
Bit(w, k) == (w \div 2^k) % 2
(* f: the bit that comes of two, by the number of ones among them.         *)
Bitwise2(f, a, b) ==
  CHOOSE w \in Word : \A k \in 0 .. Width - 1 : Bit(w, k) = f[Bit(a, k) + Bit(b, k)]
Byte(w, k) == (w \div 2^(ByteWidth * k)) % 2^ByteWidth
SetByte(w, k, b) == w + (b - Byte(w, k)) * 2^(ByteWidth * k)
CharToInt(b) == Wrap(IF b < 2^(ByteWidth - 1) THEN b ELSE b - 2^ByteWidth)
Swapped(w) ==
  CHOOSE v \in Word : \A k \in 0 .. Bytes - 1 : Byte(v, k) = Byte(w, Bytes - 1 - k)
(* C's division rounds towards zero.                                       *)
Abs(n) == IF n < 0 THEN -n ELSE n
Quotient(a, b) == (IF (a < 0) = (b < 0) THEN 1 ELSE -1) * (Abs(a) \div Abs(b))
Remainder(a, b) == a - b * Quotient(a, b)

-----------------------------------------------------------------------------
(* Memory (bcode.c).                                                       *)

FreeSlot == [used |-> FALSE, given |-> 0, size |-> 0, flags |-> {}, words |-> <<>>]
Base(x) == x * (2 + MaxAlloc)
Slot(addr) == addr \div (2 + MaxAlloc)

\* Mutant of Allows: one word too many.
AllowsOneMore(addr, cnt, fl) ==
  /\ Slot(addr) < MemGrow
  /\ LET b == m.mem[Slot(addr)] IN
     b.used /\ Base(Slot(addr)) + b.size >= Wrap(addr + cnt - 1) /\ fl \in b.flags

(* Allows: the tests of get_mem_value, set_mem_value, get_mem_block and    *)
(* verify_access for cnt words from addr; the sum wraps as in the code.    *)
Allows(addr, cnt, fl) ==
  /\ Slot(addr) < MemGrow
  /\ LET b == m.mem[Slot(addr)] IN
     /\ b.used
     /\ Base(Slot(addr)) + b.size > Wrap(addr + cnt - 1)
     /\ fl \in b.flags
(* Within: the same words are memory the C library gave for the block.     *)
Within(addr, cnt) == addr - Base(Slot(addr)) + cnt <= m.mem[Slot(addr)].given
(* Beyond: a slot that is looked up past the end of the table.             *)
Beyond(x) == MemGrow <= x /\ x < m.dmsiz
Strays(addr, fl) == Beyond(Slot(addr)) \/ (Allows(addr, 1, fl) /\ ~Within(addr, 1))

Raw(addr) == m.mem[Slot(addr)].words[addr - Base(Slot(addr))]
InOrder(x, w) == IF "swap" \in m.mem[x].flags THEN Swapped(w) ELSE w

(* Outcomes of an instruction.  Begun: do_cycles clears got_nonfatal_round *)
(* and takes change to be 1 before it calls the function of the opcode.    *)
Begun == [m EXCEPT !.raised = FALSE, !.change = 1]
Raise == [m EXCEPT !.raised = TRUE, !.change = 0, !.u[0] = ErrorCode]
GoesWild == [Begun EXCEPT !.status = "wild"]
Killed == [Begun EXCEPT !.status = "killed"]
Moved(ptr, r) == [r EXCEPT !.stack.ptr = ptr]

(* Operands: a type and a number.                                          *)
Anything == {"immediate", "ureg", "sreg", "immptr", "uptr"}
IsPointer(o) == o.type \in {"immptr", "uptr"}
Address(o) == IF o.type = "immptr" THEN o.val ELSE m.u[o.val]
Content(addr) == InOrder(Slot(addr), Raw(addr))
Value(o) ==
  CASE o.type = "immediate" -> o.val
    [] o.type = "ureg" -> m.u[o.val]
    [] o.type = "sreg" -> m.s[o.val]
    [] IsPointer(o) -> Content(Address(o))

A(i) == Value(i.a)
B(i) == Value(i.b)

(* Fetching: IMMPTRVAL and UPTRVAL return from the instruction when the    *)
(* read raised.                                                            *)
FetchingAt(addrs, done) ==
  IF \E a \in addrs : Strays(a, "read") THEN GoesWild
  ELSE IF \E a \in addrs : ~Allows(a, 1, "read") THEN Raise
  ELSE done
Fetching(operands, done) ==
  FetchingAt({Address(o) : o \in {o \in operands : IsPointer(o)}}, done)

(* set_mem_value.                                                          *)
Store(r, addr, w) ==
  LET x == Slot(addr) IN
  IF Strays(addr, "write") THEN GoesWild
  ELSE IF ~Allows(addr, 1, "write") THEN Raise
  ELSE [r EXCEPT !.mem[x].words[addr - Base(x)] = InOrder(x, w)]
Put(r, o, w) ==
  CASE o.type = "ureg" -> [r EXCEPT !.u[o.val] = w]
    [] o.type = "sreg" -> [r EXCEPT !.s[o.val] = w]
    [] IsPointer(o) -> Store(r, Address(o), w)

-----------------------------------------------------------------------------
(* Moves and arithmetic.                                                   *)

Mov(i) == Fetching({i.b}, Put(Begun, i.a, B(i)))

(* Onto: the operations that read their first operand and write it back.   *)
Onto(i, w) == Fetching({i.a, i.b}, Put(Begun, i.a, w))
Add(i) == Onto(i, Wrap(A(i) + B(i)))
Sub(i) == Onto(i, Wrap(A(i) - B(i)))
Mul(i) == Onto(i, Wrap(A(i) * B(i)))
Xor(i) == Onto(i, Bitwise2([n \in 0 .. 2 |-> IF n = 1 THEN 1 ELSE 0], A(i), B(i)))
Or(i) == Onto(i, Bitwise2([n \in 0 .. 2 |-> IF n > 0 THEN 1 ELSE 0], A(i), B(i)))
And(i) == Onto(i, Bitwise2([n \in 0 .. 2 |-> IF n = 2 THEN 1 ELSE 0], A(i), B(i)))

(* A division is done on int unless the register it changes is unsigned;   *)
(* the one quotient that does not fit traps (SIGFPE).                      *)
Number(i, w) == IF i.a.type = "ureg" THEN w ELSE Signed(w)
Divided(i, w) ==
  Fetching({i.b},
    IF B(i) = 0 THEN Raise
    ELSE Fetching({i.a},
           IF Number(i, A(i)) = -(Space \div 2) /\ Number(i, B(i)) = -1 THEN Killed
           ELSE Put(Begun, i.a, w)))
Div(i) == Divided(i, Wrap(Quotient(Number(i, A(i)), Number(i, B(i)))))
Mod(i) == Divided(i, Wrap(Remainder(Number(i, A(i)), Number(i, B(i)))))

(* cmd_not_uptr stores back the word it read.                              *)
Not(i) ==
  Fetching({i.a}, Put(Begun, i.a, IF i.a.type = "uptr" THEN A(i)
                              ELSE Space - 1 - A(i)))

(* LDB and STOB: byte s0 from the operand on; a pointer moves by the words *)
(* s0 spans.  The bytes of the bytecode are unsigned, those of a register  *)
(* or a block are not.                                                     *)
Index == m.s[0] % Bytes
Along(o) == IF IsPointer(o) THEN Wrap(Address(o) + Signed(m.s[0]) \div Bytes) ELSE 0
Spanned(o) == IF IsPointer(o) THEN {Along(o)} ELSE {}
WordAt(o) == IF IsPointer(o) THEN Content(Along(o)) ELSE Value(o)
Loads(o, b) == IF o.type = "immediate" THEN b ELSE CharToInt(b)
Ldb(i) ==
  FetchingAt(Spanned(i.b), Put(Begun, i.a, Loads(i.b, Byte(WordAt(i.b), Index))))
Stob(i) ==
  FetchingAt(Spanned(i.a), Fetching({i.b},
    LET w == SetByte(WordAt(i.a), Index, Byte(B(i), 0)) IN
    IF IsPointer(i.a) THEN Store(Begun, Along(i.a), w) ELSE Put(Begun, i.a, w)))

-----------------------------------------------------------------------------
(* Jumps on data.  A comparison is unsigned when an operand is.            *)

Compared(i, o) == IF "ureg" \in {i.a.type, i.b.type} THEN Value(o) ELSE Signed(Value(o))
If(i, test) == Fetching({i.a, i.b}, [Begun EXCEPT !.change = IF test THEN 1 ELSE 2])
Ifeq(i) == If(i, A(i) = B(i))
Ifneq(i) == If(i, A(i) # B(i))
Ifabo(i) == If(i, Compared(i, i.a) > Compared(i, i.b))
Ifbel(i) == If(i, Compared(i, i.a) < Compared(i, i.b))
Jmp(i) == Fetching({i.a}, [Begun EXCEPT !.change = 0])
\* Mutant of Loop: counts before it reads where to jump.
LoopCountsFirst(i) ==
  LET left == IF Signed(m.s[0]) > 0 THEN m.s[0] - 1 ELSE m.s[0]
      after == Fetching({i.a}, Begun)
  IN [after EXCEPT !.s[0] = left, !.change = IF left # m.s[0] THEN 0 ELSE 1]
Loop(i) ==
  IF Signed(m.s[0]) > 0
  THEN Fetching({i.a}, [Begun EXCEPT !.s[0] = m.s[0] - 1, !.change = 0])
  ELSE Begun

-----------------------------------------------------------------------------
(* Blocks.                                                                 *)

(* The flags of a block from a word, and whether ALLOC and REALLOC accept  *)
(* them: bit 0 read, bit 1 write, bit 2 (MEM_FLAG_STRICT) strict.          *)
FlagsOf(w) == {f \in {"read", "write", "strict"} :
                 Bit(w, CASE f = "read" -> 0 [] f = "write" -> 1 [] f = "strict" -> 2) = 1}
Acceptable(w) == w < 8

(* mem_alloc: the first free slot; when there is none the table grows, and *)
(* what is cleared is not the new part of it.  When the C library has no   *)
(* larger table dmsiz has grown all the same, and whoever goes by it looks *)
(* past the end of the old one.                                            *)
FreeSlots == {x \in Slots : ~m.mem[x].used}
Outgrown == [Raise EXCEPT !.dmsiz = m.dmsiz + MemGrow, !.grown = TRUE]
MemAlloc(size, flags, malloc) ==
  IF size > MaxAlloc \/ size = 0 \/ ~Acceptable(flags) THEN Raise
  ELSE IF FreeSlots = {} THEN
    IF MemGrow >= MaxMemblk THEN Raise
    ELSE IF malloc \/ m.dmsiz > MemGrow THEN [GoesWild EXCEPT !.grown = TRUE]
    ELSE Outgrown
  ELSE IF ~malloc THEN Raise
  ELSE LET x == CHOOSE x \in FreeSlots : \A y \in FreeSlots : x <= y IN
       [Begun EXCEPT !.mem[x] = [used |-> TRUE, given |-> size, size |-> size,
                                 flags |-> FlagsOf(flags),
                                 words |-> [k \in 0 .. size - 1 |-> 0]],
                     !.u[0] = x, !.u[1] = Base(x)]
Alloc(i) ==
  {Fetching({i.a, i.b}, MemAlloc(A(i), B(i), malloc)) : malloc \in BOOLEAN}

Live(h) == 0 <= h /\ h < MemGrow /\ m.mem[h].used
\* A number of a block that names a slot past the end of the table.
StraysTo(h) == h >= 0 /\ Beyond(h)

(* mem_realloc: the C library is asked for newsize bytes, the block has    *)
(* newsize words from now on.  Size 0 sets the flags from u0.              *)
Resized(h, newsize, fresh) ==
  LET given == newsize \div Bytes IN
  [Begun EXCEPT !.mem[h].given = given, !.mem[h].size = newsize,
                !.mem[h].words = [k \in 0 .. given - 1 |->
                   IF k < m.mem[h].given THEN m.mem[h].words[k] ELSE fresh],
                !.resized = TRUE]
MemRealloc(h, newsize, malloc, fresh) ==
  IF newsize < 0 \/ newsize > MaxAlloc THEN Raise
  ELSE IF StraysTo(h) THEN GoesWild
  ELSE IF ~Live(h) THEN Raise
  ELSE IF newsize > 0 THEN IF malloc THEN Resized(h, newsize, fresh) ELSE Raise
  ELSE IF ~Acceptable(m.u[0]) \/ "strict" \in m.mem[h].flags THEN Raise
  ELSE [Begun EXCEPT !.mem[h].flags = FlagsOf(m.u[0])]
Realloc(i) ==
  {Fetching({i.a, i.b}, MemRealloc(Signed(A(i)), Signed(B(i)), malloc, fresh))
     : malloc \in BOOLEAN, fresh \in {0, Space - 1}}

MemDealloc(h) ==
  IF StraysTo(h) THEN GoesWild
  ELSE IF Live(h) THEN [Begun EXCEPT !.mem[h] = FreeSlot] ELSE Raise
Dealloc(i) == Fetching({i.a}, MemDealloc(Signed(A(i))))

(* CPCNT and CMPCNT work on s0 words: verify_access takes s0 as unsigned,  *)
(* memcpy and memcmp get s0 * 4 as an int.                                 *)
Length == Signed(Wrap(m.s[0] * Bytes))
Whole == {k \in 0 .. Space : k < Length \div Bytes}
Blockwise(i, fl, done) ==
  Fetching({i.a, i.b},
    IF Beyond(Slot(A(i))) \/ Beyond(Slot(B(i))) THEN GoesWild
    ELSE IF ~Allows(A(i), m.s[0], fl) \/ ~Allows(B(i), m.s[0], "read")
    THEN Raise
    ELSE LET r == [Begun EXCEPT !.negative = @ \/ Signed(m.s[0]) < 0] IN
         IF \/ Length < 0
            \/ ~Within(A(i), Length \div Bytes)
            \/ ~Within(B(i), Length \div Bytes)
         THEN [r EXCEPT !.status = "wild"] ELSE done)

(* The k-th word of the block from addr on: memcpy and memcmp go on from a *)
(* pointer, whatever the addresses.                                        *)
Further(addr, k) == m.mem[Slot(addr)].words[addr - Base(Slot(addr)) + k]

(* Copied: where the areas overlap they are copied as if at once, or word  *)
(* by word forward, and then the words between the two come again and      *)
(* again.                                                                  *)
Origin(dst, src, forward, k) ==
  IF forward /\ Slot(src) = Slot(dst) /\ src < dst THEN k % (dst - src) ELSE k
Copied(dst, src, forward) ==
  LET x == Slot(dst)
      Nth(j) == j - (dst - Base(x))
  IN [Begun EXCEPT !.mem[x].words = [j \in DOMAIN @ |->
        IF Nth(j) \in Whole THEN Further(src, Origin(dst, src, forward, Nth(j))) ELSE @[j]],
               !.negative = @ \/ Signed(m.s[0]) < 0]
\* Mutant of Cpcnt: asks for the flag CMPCNT asks for.
CpcntReads(i) ==
  {Blockwise(i, "read", Copied(A(i), B(i), forward)) : forward \in BOOLEAN}
Cpcnt(i) ==
  {Blockwise(i, "write", Copied(A(i), B(i), forward)) : forward \in BOOLEAN}

(* memcmp answers 0 or a number of either sign.                            *)
Same(a, b) == \A k \in Whole : Further(a, k) = Further(b, k)
Cmpcnt(i) ==
  {Blockwise(i, "read",
     [Begun EXCEPT !.s[0] = IF Same(A(i), B(i)) THEN 0 ELSE sign,
               !.negative = @ \/ Signed(m.s[0]) < 0])
   : sign \in {1, Space - 1}}

-----------------------------------------------------------------------------
(* The user stack.  The pointer moves whether the access raises or not.    *)

\* Mutant of SetStack: takes any stack pointer.
SetStackUnchecked(i) ==
  Fetching({i.a, i.b},
    [Begun EXCEPT !.stack = [base |-> A(i), size |-> B(i), ptr |-> m.u[0]]])
SetStack(i) ==
  Fetching({i.a, i.b},
    IF m.u[0] > B(i) THEN Raise
    ELSE [Begun EXCEPT !.stack = [base |-> A(i), size |-> B(i),
                              ptr |-> m.u[0]]])
Top(n) == Wrap(m.stack.base + n)
Push(i) ==
  IF m.stack.size = 0 \/ m.stack.ptr >= m.stack.size THEN Raise
  ELSE Fetching({i.a},
         Moved(m.stack.ptr + 1, Store(Begun, Top(m.stack.ptr), A(i))))
Pop(i) ==
  LET addr == Top(m.stack.ptr - 1) IN
  IF m.stack.size = 0 \/ m.stack.ptr = 0 THEN Raise
  ELSE Moved(m.stack.ptr - 1,
         FetchingAt({addr}, Put(Begun, i.a, Content(addr))))

-----------------------------------------------------------------------------
(* The machine.                                                            *)

Loaded(image) ==
  [u |-> [r \in 0 .. Registers - 1 |-> 0], s |-> [r \in 0 .. Registers - 1 |-> 0],
   mem |-> [x \in Slots |-> IF x = 0 THEN image ELSE FreeSlot], dmsiz |-> MemGrow,
   stack |-> [base |-> 0, size |-> 0, ptr |-> 0],
   change |-> 1, raised |-> FALSE, status |-> "runs",
   resized |-> FALSE, negative |-> FALSE, grown |-> FALSE]

ASSUME ImagesAssumption ==
  \A image \in Images :
    /\ image \in [used : BOOLEAN, given : 0 .. Space, size : 0 .. image.given,
                  flags : SUBSET Flags, words : [0 .. image.given - 1 -> Word]]
    /\ image.size * Bytes < Space \div 2

(* task_check_bcode lets an image in only when its registers exist.        *)
ASSUME CodeAssumption ==
  \A i \in Code : \A o \in {i.a, i.b} :
    /\ o.type \in Anything /\ o.val \in Word
    /\ o.type \in {"ureg", "sreg", "uptr"} => o.val < Registers

Init == /\ \E image \in Images : m = Loaded(image)
        /\ steps = 0

(* Accepted: the operand types each opcode is defined for, the table JIT   *)
(* and the tests inside the functions.  CPCNT and CMPCNT refuse an IMMPTR  *)
(* as the second: where they should test for it they test for IMMEDIATE    *)
(* again.                                                                  *)
Places == Anything \ {"immediate"}
Targets == Anything \ {"sreg"}
First(op) ==
  CASE op \in {"IFEQ", "IFNEQ", "IFABO", "IFBEL", "ALLOC", "REALLOC", "DEALLOC",
                "CPCNT", "CMPCNT", "PUSH"} -> Anything
    [] op \in {"JMP", "LOOP", "SETSTACK"} -> Targets
    [] OTHER -> Places
Second(op) ==
  CASE op = "SETSTACK" -> Targets
    [] op \in {"CPCNT", "CMPCNT"} -> Anything \ {"immptr"}
    [] OTHER -> Anything
Accepted(i) == i.a.type \in First(i.op) /\ i.b.type \in Second(i.op)

Of(op) == {i \in Code : i.op = op}

(* One instruction of the program.                                         *)
Execute(i, outcomes) ==
  /\ m.status = "runs" /\ steps < MaxSteps
  /\ steps' = steps + 1
  /\ m' \in IF Accepted(i) THEN outcomes ELSE {Raise}

Next ==
  \/ \E i \in Of("MOV") : Execute(i, {Mov(i)})
  \/ \E i \in Of("ADD") : Execute(i, {Add(i)})
  \/ \E i \in Of("SUB") : Execute(i, {Sub(i)})
  \/ \E i \in Of("MUL") : Execute(i, {Mul(i)})
  \/ \E i \in Of("DIV") : Execute(i, {Div(i)})
  \/ \E i \in Of("MOD") : Execute(i, {Mod(i)})
  \/ \E i \in Of("XOR") : Execute(i, {Xor(i)})
  \/ \E i \in Of("OR") : Execute(i, {Or(i)})
  \/ \E i \in Of("AND") : Execute(i, {And(i)})
  \/ \E i \in Of("NOT") : Execute(i, {Not(i)})
  \/ \E i \in Of("LDB") : Execute(i, {Ldb(i)})
  \/ \E i \in Of("STOB") : Execute(i, {Stob(i)})
  \/ \E i \in Of("IFEQ") : Execute(i, {Ifeq(i)})
  \/ \E i \in Of("IFNEQ") : Execute(i, {Ifneq(i)})
  \/ \E i \in Of("IFABO") : Execute(i, {Ifabo(i)})
  \/ \E i \in Of("IFBEL") : Execute(i, {Ifbel(i)})
  \/ \E i \in Of("JMP") : Execute(i, {Jmp(i)})
  \/ \E i \in Of("LOOP") : Execute(i, {Loop(i)})
  \/ \E i \in Of("ALLOC") : Execute(i, Alloc(i))
  \/ \E i \in Of("REALLOC") : Execute(i, Realloc(i))
  \/ \E i \in Of("DEALLOC") : Execute(i, {Dealloc(i)})
  \/ \E i \in Of("CPCNT") : Execute(i, Cpcnt(i))
  \/ \E i \in Of("CMPCNT") : Execute(i, Cmpcnt(i))
  \/ \E i \in Of("SETSTACK") : Execute(i, {SetStack(i)})
  \/ \E i \in Of("PUSH") : Execute(i, {Push(i)})
  \/ \E i \in Of("POP") : Execute(i, {Pop(i)})

Spec == Init /\ [][Next]_vars

-----------------------------------------------------------------------------
(* Properties.                                                             *)

(* Every register and word of a block is a word, a block has the words the *)
(* C library gave, and user_ptr never passes user_size (cmd.c:4002-4438).  *)
TypeOK ==
  /\ m \in [u : [0 .. Registers - 1 -> Word], s : [0 .. Registers - 1 -> Word],
            mem : [Slots -> [used : BOOLEAN, given : 0 .. Space, size : Nat,
                             flags : SUBSET Flags, words : {m.mem[x].words : x \in Slots}]],
            dmsiz : {MemGrow, 2 * MemGrow},
            stack : [base : Word, size : Word, ptr : Word], change : 0 .. 2,
            raised : BOOLEAN, status : {"runs", "wild", "killed"},
            resized : BOOLEAN, negative : BOOLEAN, grown : BOOLEAN]
  /\ \A x \in Slots : m.mem[x].words \in [0 .. m.mem[x].given - 1 -> Word]
  /\ m.stack.ptr <= m.stack.size
  /\ steps \in 0 .. MaxSteps

(* A handler finds the process as the instruction that raised found it:    *)
(* no instruction of cmd.c stores, counts or branches before the last of   *)
(* its checks.  Two traces are left all the same: PUSH and POP have moved  *)
(* user_ptr by one (cmd.c:4248, 4357), and an ALLOC that finds every slot  *)
(* used and no memory for a larger table has raised dmsiz (bcode.c:353).   *)
RaisingLeavesNoTrace ==
  [][ m'.raised =>
        /\ m' = [m EXCEPT !.raised = TRUE, !.change = 0, !.u[0] = ErrorCode,
                          !.dmsiz = m'.dmsiz, !.grown = m.grown \/ m'.dmsiz # m.dmsiz,
                          !.stack.ptr = m'.stack.ptr]
        /\ Abs(m'.stack.ptr - m.stack.ptr) <= 1
        /\ m'.dmsiz # m.dmsiz => \A x \in Slots : m.mem[x].used ]_vars

(* An instruction that reaches nothing but the words of its blocks leaves  *)
(* the words of a block without MEM_FLAG_WRITE and the flags of a block    *)
(* with MEM_FLAG_STRICT as they are for as long as the block is there      *)
(* (bcode.c:309-331, 446-456, 466-502).  One that goes past its block, for *)
(* which AccessesStayInside names the occasions, may write over any other, *)
(* a protected one too, and nothing is claimed of it or of what follows.   *)
ProtectionHolds ==
  [][ m'.status # "wild" =>
        \A x \in Slots :
          LET b == m.mem[x] c == m'.mem[x] IN
          b.used /\ c.used =>
            /\ "strict" \in b.flags => c.flags = b.flags
            /\ "write" \notin b.flags =>
                 \A k \in DOMAIN b.words \cap DOMAIN c.words : c.words[k] = b.words[k] ]_vars

(* An instruction reaches nothing but the words of its blocks, as long as  *)
(* the program has not resized a block (REALLOC gets bytes and counts      *)
(* words, bcode.c:433), copied or compared a negative number of words      *)
(* (bcode.c:317) or outgrown its first table of blocks, or tried to        *)
(* (bcode.c:353, 361).                                                     *)
AccessesStayInside ==
  m.status = "wild" => m.resized \/ m.negative \/ m.grown
=============================================================================
