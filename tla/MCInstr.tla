------------------------------ MODULE MCInstr ------------------------------
(***************************************************************************)
(* Instr with words of six bits, bytes of three, two blocks of at most four *)
(* words and a table that cannot or can grow.                              *)
(***************************************************************************)
EXTENDS Instr

Imm(n) == [type |-> "immediate", val |-> n]
U(n) == [type |-> "ureg", val |-> n]
S0 == [type |-> "sreg", val |-> 0]
At(n) == [type |-> "immptr", val |-> n]
Through(n) == [type |-> "uptr", val |-> n]
I(op, a, b) == [op |-> op, a |-> a, b |-> b]

(* A data segment that can be written, and one of the other byte order     *)
(* that cannot, cut short by the file.                                     *)
Segment(size, flags) ==
  [used |-> TRUE, given |-> 2, size |-> size, flags |-> flags,
   words |-> [k \in 0 .. 1 |-> 6 + k]]
TwoImages == {Segment(2, {"read", "write"}), Segment(1, {"read", "strict", "swap"})}

Moves ==
  { I("MOV", U(0), Imm(1)), I("MOV", S0, Imm(1)), I("MOV", S0, Imm(63)), I("MOV", U(1), Imm(6)),
    I("MOV", At(0), Imm(9)), I("MOV", Through(1), S0), I("MOV", U(0), At(1)),
    I("MOV", At(7), Through(1)) }
Sums ==
  { I("ADD", At(0), U(1)), I("SUB", U(0), Imm(1)), I("MUL", S0, At(1)),
    I("DIV", Through(1), S0), I("MOD", S0, Imm(0)), I("DIV", S0, Imm(63)),
    I("XOR", U(0), Imm(5)), I("OR", S0, Imm(32)), I("AND", U(1), Imm(12)),
    I("NOT", At(0), Imm(0)), I("NOT", Through(1), Imm(0)),
    I("LDB", U(0), At(0)), I("LDB", S0, Imm(61)), I("STOB", At(1), Imm(2)), I("STOB", Through(1), U(0)) }
Jumps ==
  { I("IFEQ", At(0), At(1)), I("IFNEQ", S0, Imm(1)), I("IFABO", U(0), Imm(1)),
    I("IFBEL", Imm(0), S0), I("JMP", At(13), Imm(0)), I("LOOP", At(8), Imm(0)),
    I("LOOP", Imm(0), Imm(0)) }
BlockOps ==
  { I("ALLOC", Imm(4), Imm(3)), I("ALLOC", Imm(2), Imm(5)), I("ALLOC", Imm(0), Imm(1)),
    I("REALLOC", Imm(0), Imm(2)), I("REALLOC", Imm(1), Imm(0)), I("REALLOC", Imm(0), Imm(0)),
    I("DEALLOC", Imm(1), Imm(0)), I("DEALLOC", Imm(2), Imm(0)),
    I("DEALLOC", U(0), Imm(0)),
    I("CPCNT", Imm(6), Imm(0)), I("CPCNT", Imm(1), U(1)), I("CPCNT", Imm(0), At(0)),
    I("CMPCNT", U(1), Imm(0)),
    I("SETSTACK", Imm(8), Imm(3)), I("SETSTACK", Imm(1), Imm(2)), I("PUSH", S0, Imm(0)),
    I("PUSH", At(7), Imm(0)), I("POP", U(0), Imm(0)), I("POP", Through(1), Imm(0)) }
Program == Moves \cup Sums \cup Jumps \cup BlockOps
=============================================================================
