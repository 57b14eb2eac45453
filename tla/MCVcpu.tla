------------------------------- MODULE MCVcpu -------------------------------
(***************************************************************************)
(* Instances of Vcpu and VcpuHistory for TLC: every program of CodeSize    *)
(* instructions that declares a handler or calls first, over a small set   *)
(* of operands, and every shorter one over the operands at the edges.      *)
(***************************************************************************)
EXTENDS VcpuHistory

User == 9   \* a value of u0 that is no exception code

MCInstr ==
  [op : {"call"}, arg : {2, 3}] \cup [op : {"onfail"}, arg : {3, CodeSize - 1}]
    \cup [op : {"ret"}, arg : {1, 2}]
    \cup [op : {"raise"}, arg : {BadParam}]
    \cup [op : {"mov_u0"}, arg : {User}]
    \cup [op : {"raise_u0", "nofail", "halt"}, arg : {0}]

UsualPrograms ==
  {p \in [0 .. CodeSize - 1 -> MCInstr] :
     p[0].op \in {"call", "onfail", "raise"}}

\* The operands the programs above leave out: jumps, counts that are zero,
\* negative or too large, and targets outside the code.
EdgeInstr ==
  [op : {"jmp"}, arg : {0, CodeSize}]
    \cup [op : {"onfail"}, arg : {0, 1, CodeSize}]
    \cup [op : {"call"}, arg : {1, CodeSize}]
    \cup [op : {"ret"}, arg : {-1, 0, 2, MaxStack, MaxStack + 1}]
    \cup [op : {"raise"}, arg : {0, StackUnder}]
    \cup [op : {"raise_u0", "other"}, arg : {0}]

EdgePrograms ==
  {[i \in 0 .. CodeSize - 1 |->
      IF i = CodeSize - 1 THEN [op |-> "other", arg |-> 0] ELSE p[i]] :
     p \in [0 .. CodeSize - 2 -> EdgeInstr]}

AllCounts == {-1, 0, 1, 2, MaxStack, MaxStack + 1}
AllPrograms == UsualPrograms \cup EdgePrograms

=============================================================================
