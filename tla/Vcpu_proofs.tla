---------------------------- MODULE Vcpu_proofs ----------------------------
(***************************************************************************)
(* Proofs about modules Vcpu and VcpuHistory, for call stacks, programs    *)
(* and operands of any size: type correctness, that a parked handler can   *)
(* always be put back, that it is the handler that runs, and that each     *)
(* level keeps the handler declared on it.                                 *)
(*                                                                         *)
(* The first two are proved together (IInv): that the cells written by     *)
(* non_fatal are addresses depends on the parked one being an address, and *)
(* that a pop finds its level depends on the two stacks having matching    *)
(* lengths.  The third is inductive once the history variable is known to  *)
(* have one entry for each level (FramesInv); the last (KeptInv) needs it, *)
(* to know that a parked handler has a frame, so that another one entered  *)
(* above it overtakes it.                                                  *)
(***************************************************************************)
EXTENDS VcpuHistory, SequenceTheorems, WellFoundedInduction, TLAPS

IInv == TypeOK /\ ParkedHandlerWaits

\* A value stored in in_handler stays within its width.
LEMMA CharRange ==
  ASSUME NEW n \in Int
  PROVE  Char(n) \in - (HandlerCycle \div 2) .. HandlerCycle \div 2 - 1
BY VcpuAssumption DEF Char

\* The sum that do_cycles stores in IP is an address.
LEMMA AddrRange ==
  ASSUME NEW n \in Int
  PROVE  n % AddrSpace \in Addr
BY VcpuAssumption DEF Addr

\* Zero is an address: the cell of a level without a handler.
LEMMA NoneIsAddr == None \in Addr /\ 0 \in Addr /\ 0 \in Values
BY VcpuAssumption DEF None, Addr

\* The handler that unwinding finds at a level is an address.
LEMMA PendingType ==
  ASSUME TypeOK, NEW l \in 0 .. Level
  PROVE  Pending(l) \in Addr
BY DEF TypeOK, Pending, Level

\* The stacks after non_fatal pushed the frame of the handler of level l.
LEMMA EnterStacks ==
  ASSUME TypeOK, NEW l \in 0 .. Level, NEW ip \in Addr
  PROVE  /\ Append(SubSeq(stack, 1, l), ip) \in Seq(Addr)
         /\ Len(Append(SubSeq(stack, 1, l), ip)) = l + 1
         /\ SubSeq(ex_st, 1, l) \o <<None, None>> \in Seq(Addr)
         /\ Len(SubSeq(ex_st, 1, l) \o <<None, None>>) = l + 2
         /\ (SubSeq(ex_st, 1, l) \o <<None, None>>)[l + 1] = None
<1>1. /\ stack \in Seq(Addr) /\ ex_st \in Seq(Addr)
      /\ l \in Nat /\ l <= Len(stack) /\ l <= Len(ex_st)
  BY DEF TypeOK, Level
<1>2. SubSeq(stack, 1, l) \in Seq(Addr) /\ Len(SubSeq(stack, 1, l)) = l
  BY <1>1, SubSeqProperties
<1>3. SubSeq(ex_st, 1, l) \in Seq(Addr) /\ Len(SubSeq(ex_st, 1, l)) = l
  BY <1>1, SubSeqProperties
<1>4. <<None, None>> \in Seq(Addr) /\ Len(<<None, None>>) = 2
  BY NoneIsAddr
<1>5. /\ Append(SubSeq(stack, 1, l), ip) \in Seq(Addr)
      /\ Len(Append(SubSeq(stack, 1, l), ip)) = l + 1
  BY <1>2, AppendProperties
<1>6. /\ SubSeq(ex_st, 1, l) \o <<None, None>> \in Seq(Addr)
      /\ Len(SubSeq(ex_st, 1, l) \o <<None, None>>) = l + 2
  BY <1>3, <1>4, <1>1, ConcatProperties
<1>7. (SubSeq(ex_st, 1, l) \o <<None, None>>)[l + 1] = None
  <2>1. l + 1 \in 1 .. l + 2 /\ ~ (l + 1 <= l) /\ (l + 1) - l = 1
    BY <1>1
  <2>2. (SubSeq(ex_st, 1, l) \o <<None, None>>)[l + 1] = <<None, None>>[1]
    BY <2>1, <1>3, <1>4, ConcatProperties
  <2> QED BY <2>2
<1> QED BY <1>5, <1>6, <1>7

-----------------------------------------------------------------------------
(* Steps shared by several instructions *)

\* A destroyed slot is zero, and nothing is parked in it.
LEMMA DestroyPreserves ==
  ASSUME IInv, Destroy, got_nonfatal_round' \in BOOLEAN,
         but_in_fact_it_was_fatal' \in BOOLEAN
  PROVE  IInv'
<1>1. <<>> \in Seq(Addr) /\ Len(<<>>) = 0
  OBVIOUS
<1>2. <<None>> \in Seq(Addr) /\ Len(<<None>>) = 1
  BY NoneIsAddr
<1>3. /\ 0 \in 0 .. MaxStack /\ 0 \in Nat /\ 0 <= MaxStack
      /\ 0 \in - (HandlerCycle \div 2) .. HandlerCycle \div 2 - 1
  BY VcpuAssumption
<1>4. code' \in [0 .. CodeSize - 1 -> Instr]
  BY DEF IInv, TypeOK, Destroy
<1>5. TypeOK'
  <2>1. /\ stack' \in Seq(Addr) /\ Len(stack') <= MaxStack
        /\ ex_st' \in Seq(Addr) /\ Len(ex_st') = Len(stack') + 1
    BY <1>1, <1>2, <1>3 DEF Destroy
  <2>2. /\ used' \in BOOLEAN /\ IP' \in Addr
        /\ saved_ex' \in Addr /\ ex_at' \in Nat
        /\ in_handler' \in - (HandlerCycle \div 2) .. HandlerCycle \div 2 - 1
        /\ u0' \in Values /\ u0_saved' \in Values
        /\ handling_failure' \in Values /\ first_except_ip' \in Addr
        /\ pops' \in 0 .. MaxStack /\ change' \in {0, 1}
    BY <1>3, NoneIsAddr DEF Destroy
  <2> QED BY <1>4, <2>1, <2>2 DEF TypeOK
<1>6. ParkedHandlerWaits'
  BY DEF Destroy, ParkedHandlerWaits
<1> QED BY <1>5, <1>6 DEF IInv

\* Entering a handler parks it below the frame pushed for it, at a level that
\* has just lost it.
LEMMA EnterPreserves ==
  ASSUME IInv, NEW l \in 0 .. Level, l < MaxStack, NEW excp \in Values,
         EnterHandler(l, excp), got_nonfatal_round' \in BOOLEAN,
         pops' \in 0 .. MaxStack
  PROVE  IInv'
<1> DEFINE ip == IF l = Level THEN IP ELSE stack[l + 1]
           failure == IF handling_failure = 0 THEN excp ELSE handling_failure
           fip == IF handling_failure = 0 THEN IP ELSE first_except_ip
<1>1. Level \in Nat /\ Level = Len(stack) /\ l \in Nat
  BY DEF IInv, TypeOK, Level
<1>2. ip \in Addr
  <2>1. l # Level => l + 1 \in 1 .. Len(stack)
    BY <1>1
  <2> QED BY <2>1, ElementOfSeq DEF IInv, TypeOK
<1>3. Pending(l) \in Addr
  BY PendingType DEF IInv
<1>4. /\ stack' \in Seq(Addr) /\ Len(stack') = l + 1
      /\ ex_st' \in Seq(Addr) /\ Len(ex_st') = l + 2
      /\ ex_st'[l + 1] = None
  <2>1. TypeOK
    BY DEF IInv
  <2>2. stack' = Append(SubSeq(stack, 1, l), ip)
    BY DEF EnterHandler, Park
  <2>3. ex_st' = SubSeq(ex_st, 1, l) \o <<None, None>>
    BY DEF EnterHandler, Park
  <2> HIDE DEF ip
  <2> QED BY <2>1, <2>2, <2>3, <1>2, EnterStacks
<1>5. in_handler' \in - (HandlerCycle \div 2) .. HandlerCycle \div 2 - 1
  <2>1. in_handler + 1 \in Int
    BY VcpuAssumption DEF IInv, TypeOK
  <2> QED BY <2>1, CharRange DEF EnterHandler
<1>6. handling_failure' \in Values /\ first_except_ip' \in Addr
  <2>1. failure \in Values /\ fip \in Addr
    BY DEF IInv, TypeOK
  <2>2. /\ handling_failure' \in {failure, 0}
        /\ first_except_ip' = fip
    BY DEF EnterHandler, Forget
  <2> QED BY <2>1, <2>2, NoneIsAddr
<1>7. u0' \in Values /\ u0_saved' \in Values
  BY DEF EnterHandler, Park, IInv, TypeOK
<1>8. /\ IP' \in Addr /\ saved_ex' \in Addr /\ ex_at' = l
      /\ change' \in {0, 1} /\ but_in_fact_it_was_fatal' \in BOOLEAN
      /\ code' = code /\ used' = used
  BY <1>3 DEF EnterHandler, Park
<1>9. TypeOK'
  <2>1. Len(stack') <= MaxStack /\ Len(ex_st') = Len(stack') + 1
    BY <1>1, <1>4, VcpuAssumption
  <2> QED BY <2>1, <1>1, <1>4, <1>5, <1>6, <1>7, <1>8 DEF TypeOK, IInv
<1>10. ParkedHandlerWaits'
  BY <1>1, <1>4, <1>8 DEF ParkedHandlerWaits, Level
<1> QED BY <1>9, <1>10 DEF IInv

\* An exception either enters a handler or destroys the VCPU.
LEMMA NonFatalPreserves ==
  ASSUME IInv, NEW excp \in Values, NEW rest \in 0 .. MaxStack,
         NonFatal(excp, rest)
  PROVE  IInv'
<1>1. ASSUME NEW l \in 0 .. Level, l < MaxStack, EnterHandler(l, excp),
             pops' = rest, got_nonfatal_round' = TRUE
      PROVE  IInv'
  BY <1>1, EnterPreserves
<1>2. ASSUME Destroy, but_in_fact_it_was_fatal' = TRUE,
             got_nonfatal_round' = TRUE
      PROVE  IInv'
  BY <1>2, DestroyPreserves
<1> QED BY <1>1, <1>2 DEF NonFatal

\* The successor of an instruction's address is an address.
LEMMA NextIP ==
  ASSUME IInv
  PROVE  Next_IP(1) \in Addr
<1>1. IP + 1 \in Int
  BY DEF IInv, TypeOK, Addr
<1> QED BY <1>1, AddrRange DEF Next_IP

\* The operand of the instruction at IP has the type its opcode says.
LEMMA OperandType ==
  ASSUME IInv, NEW op, Fetch(op)
  PROVE  /\ code[IP] \in Instr
         /\ op \in {"jmp", "call", "onfail"} => Operand \in Addr
         /\ op \in {"mov_u0", "raise"} => Operand \in Values
         /\ op = "ret" => Operand \in Int
<1>1. IP \in 0 .. CodeSize - 1
  BY VcpuAssumption DEF IInv, TypeOK, Fetch, Addr
<1>2. code[IP] \in Instr /\ code[IP].op = op
  BY <1>1 DEF IInv, TypeOK, Fetch
<1> QED BY <1>2, VcpuAssumption DEF Instr, Operand

\* Facts of IInv that most instructions use.
LEMMA Stacks ==
  ASSUME IInv
  PROVE  /\ Level \in Nat /\ Level = Len(stack) /\ Level <= MaxStack
         /\ stack \in Seq(Addr) /\ ex_st \in Seq(Addr)
         /\ Len(ex_st) = Level + 1
         /\ ex_st[Level + 1] \in Addr
<1>1. /\ Level \in Nat /\ Level = Len(stack) /\ Level <= MaxStack
      /\ stack \in Seq(Addr) /\ ex_st \in Seq(Addr)
      /\ Len(ex_st) = Level + 1
  BY DEF IInv, TypeOK, Level
<1>2. Level + 1 \in 1 .. Len(ex_st)
  BY <1>1
<1> QED BY <1>1, <1>2, ElementOfSeq

-----------------------------------------------------------------------------
(* The instructions *)

\* CALL pushes a frame whose level has no handler yet.
LEMMA CallPreserves == ASSUME IInv, Call PROVE IInv'
<1>1. ASSUME Level < MaxStack, stack' = Append(stack, IP),
             ex_st' = Append(ex_st, None), Goto(Operand), NoException,
             UNCHANGED <<saved_ex, ex_at, user, first>>
      PROVE  IInv'
  <2>1. /\ stack' \in Seq(Addr) /\ Len(stack') = Level + 1
        /\ ex_st' \in Seq(Addr) /\ Len(ex_st') = Level + 2
        /\ \A m \in 1 .. Level + 1 : ex_st'[m] = ex_st[m]
    BY <1>1, Stacks, NoneIsAddr, AppendProperties DEF IInv, TypeOK
  <2>2. Operand \in Addr
    BY OperandType DEF Call
  <2>3. TypeOK'
    <3>1. Len(stack') <= MaxStack /\ Len(ex_st') = Len(stack') + 1
      BY <1>1, <2>1, Stacks, VcpuAssumption
    <3>2. IP' \in Addr /\ change' \in {0, 1}
      BY <1>1, <2>2 DEF Goto
    <3> QED BY <1>1, <2>1, <3>1, <3>2 DEF IInv, TypeOK, NoException, user, first
  <2>4. ParkedHandlerWaits'
    BY <1>1, <2>1, Stacks DEF IInv, TypeOK, ParkedHandlerWaits, Level
  <2> QED BY <2>3, <2>4 DEF IInv
<1>2. ASSUME NonFatal(StackOver, 0) PROVE IInv'
  BY <1>2, NonFatalPreserves, VcpuAssumption
<1> QED BY <1>1, <1>2 DEF Call, RoomForFrame

\* ONFAIL and NOFAIL write the cell of the current level only.
LEMMA SetHandlerPreserves ==
  ASSUME IInv, NEW h \in Addr, SetHandler(h)
  PROVE  IInv'
<1>1. /\ ex_st' \in Seq(Addr) /\ Len(ex_st') = Level + 1
      /\ \A m \in 1 .. Level : ex_st'[m] = ex_st[m]
  <2>1. Level + 1 \in 1 .. Len(ex_st)
    BY Stacks
  <2> QED BY <2>1, Stacks, ExceptSeq DEF SetHandler
<1>2. TypeOK'
  BY <1>1, Stacks, NextIP
     DEF IInv, TypeOK, SetHandler, Advance, NoException, user, first
<1>3. ParkedHandlerWaits'
  BY <1>1, Stacks DEF IInv, TypeOK, SetHandler, ParkedHandlerWaits, Level
<1> QED BY <1>2, <1>3 DEF IInv

\* The head of RET changes counters and u0, not the stacks.
LEMMA RetHeadPreserves ==
  ASSUME IInv, NEW n \in Int, n <= MaxStack, RetHead(n)
  PROVE  IInv'
<1>1. in_handler' \in - (HandlerCycle \div 2) .. HandlerCycle \div 2 - 1
  <2>1. in_handler - n \in Int
    BY VcpuAssumption DEF IInv, TypeOK
  <2>2. 0 \in - (HandlerCycle \div 2) .. HandlerCycle \div 2 - 1
    BY VcpuAssumption
  <2>3. Char(in_handler - n) \in - (HandlerCycle \div 2) .. HandlerCycle \div 2 - 1
    BY <2>1, CharRange
  <2> QED BY <2>2, <2>3 DEF RetHead
<1>2. /\ IP' \in Addr /\ change' \in {0, 1} /\ pops' \in 0 .. MaxStack
  BY NextIP, VcpuAssumption DEF RetHead, Advance, IInv, TypeOK
<1>3. u0' \in Values
  BY DEF RetHead, IInv, TypeOK
<1>4. TypeOK'
  BY <1>1, <1>2, <1>3 DEF RetHead, IInv, TypeOK, frame, first
<1>5. ParkedHandlerWaits'
  BY DEF RetHead, IInv, ParkedHandlerWaits, Level, frame
<1> QED BY <1>4, <1>5 DEF IInv

\* A pop puts the parked handler back exactly when it reaches its level;
\* otherwise the handler stays parked below.
LEMMA RetPopPreserves == ASSUME IInv, RetPop PROVE IInv'
<1>1. pops - 1 \in 0 .. MaxStack
  BY VcpuAssumption DEF IInv, TypeOK, RetPop
<1>2. CASE Level = 0
  BY <1>1, <1>2, NonFatalPreserves, VcpuAssumption DEF RetPop
<1>3. CASE Level # 0
  <2> DEFINE ip == stack[Level]
  <2>1. ip \in Addr /\ Level - 1 \in Nat
    <3>1. Level \in 1 .. Len(stack)
      BY <1>3, Stacks
    <3> QED BY <3>1, Stacks, ElementOfSeq
  <2>2. stack' \in Seq(Addr) /\ Len(stack') = Level - 1
    <3>1. stack' = SubSeq(stack, 1, Level - 1)
      BY <1>3 DEF RetPop
    <3> QED BY <3>1, <2>1, Stacks, SubSeqProperties
  <2>3. /\ ex_st' \in Seq(Addr) /\ Len(ex_st') = Level
        /\ \A m \in 1 .. Level - 1 : ex_st'[m] = ex_st[m]
        /\ ~ PutBack => ex_st' = SubSeq(ex_st, 1, Level)
    <3>1. CASE PutBack
      <4>1. /\ SubSeq(ex_st, 1, Level - 1) \in Seq(Addr)
            /\ Len(SubSeq(ex_st, 1, Level - 1)) = Level - 1
            /\ \A m \in 1 .. Level - 1 : SubSeq(ex_st, 1, Level - 1)[m] = ex_st[m]
        BY <2>1, Stacks, SubSeqProperties
      <4>2. <<saved_ex>> \in Seq(Addr) /\ Len(<<saved_ex>>) = 1
        BY DEF IInv, TypeOK
      <4>3. ex_st' = SubSeq(ex_st, 1, Level - 1) \o <<saved_ex>>
        BY <1>3, <3>1 DEF RetPop
      <4> QED BY <3>1, <4>1, <4>2, <4>3, <2>1, Stacks, ConcatProperties
    <3>2. CASE ~ PutBack
      <4>1. ex_st' = SubSeq(ex_st, 1, Level)
        BY <1>3, <3>2 DEF RetPop
      <4> QED BY <3>2, <4>1, <2>1, Stacks, SubSeqProperties
    <3> QED BY <3>1, <3>2
  <2>4. IP' \in Addr
    <3>1. ip + change \in Int
      BY <2>1 DEF IInv, TypeOK, Addr
    <3>2. IP' \in {ip, (ip + change) % AddrSpace}
      BY <1>3 DEF RetPop
    <3> QED BY <2>1, <3>1, <3>2, AddrRange
  <2>5. saved_ex' \in Addr /\ (saved_ex' # None => saved_ex' = saved_ex /\ ~ PutBack)
    BY <1>3, NoneIsAddr DEF RetPop, IInv, TypeOK
  <2>6. handling_failure' \in Values
    BY <1>3, NoneIsAddr DEF RetPop, Forget, IInv, TypeOK
  <2>7. /\ pops' = pops - 1 /\ code' = code /\ used' = used /\ ex_at' = ex_at
        /\ UNCHANGED <<user, first_except_ip, round, change>>
    BY <1>3 DEF RetPop
  <2>8. TypeOK'
    <3>1. Len(stack') <= MaxStack /\ Len(ex_st') = Len(stack') + 1
      BY <2>1, <2>2, <2>3, Stacks, VcpuAssumption
    <3> QED BY <1>1, <2>2, <2>3, <2>4, <2>5, <2>6, <2>7, <3>1
            DEF IInv, TypeOK, user, round
  <2>9. ParkedHandlerWaits'
    <3>1. SUFFICES ASSUME saved_ex' # None
                   PROVE  ex_at' < Len(stack') /\ ex_st'[ex_at' + 1] = None
      BY DEF ParkedHandlerWaits, Level
    <3>2. saved_ex # None /\ ex_at # Level - 1
      BY <3>1, <2>5 DEF PutBack
    <3>3. ex_at < Level /\ ex_st[ex_at + 1] = None
      BY <3>2 DEF IInv, ParkedHandlerWaits
    <3>4. ex_at \in Nat /\ ex_at + 1 \in 1 .. Level - 1
      BY <3>2, <3>3, <2>1, Stacks DEF IInv, TypeOK
    <3> QED BY <3>3, <3>4, <2>2, <2>3, <2>7, <2>1
  <2> QED BY <2>8, <2>9 DEF IInv
<1> QED BY <1>2, <1>3

-----------------------------------------------------------------------------
(* The theorems *)

LEMMA InitInv == Init => IInv
<1> SUFFICES ASSUME Init PROVE IInv
  OBVIOUS
<1>1. <<>> \in Seq(Addr) /\ Len(<<>>) = 0
  OBVIOUS
<1>2. <<None>> \in Seq(Addr) /\ Len(<<None>>) = 1
  BY NoneIsAddr
<1>3. /\ stack \in Seq(Addr) /\ Len(stack) <= MaxStack
      /\ ex_st \in Seq(Addr) /\ Len(ex_st) = Len(stack) + 1
  BY <1>1, <1>2, VcpuAssumption DEF Init
<1>4. /\ in_handler \in - (HandlerCycle \div 2) .. HandlerCycle \div 2 - 1
      /\ pops \in 0 .. MaxStack /\ change \in {0, 1} /\ ex_at \in Nat
  BY VcpuAssumption DEF Init
<1>5. code \in [0 .. CodeSize - 1 -> Instr] /\ IP \in Addr
  BY VcpuAssumption DEF Init
<1>6. TypeOK
  BY <1>3, <1>4, <1>5, NoneIsAddr DEF Init, TypeOK
<1>7. ParkedHandlerWaits
  BY DEF Init, ParkedHandlerWaits
<1> QED BY <1>6, <1>7 DEF IInv

LEMMA StepInv == IInv /\ [Next]_vars => IInv'
<1> SUFFICES ASSUME IInv, [Next]_vars PROVE IInv'
  OBVIOUS
<1>0. 0 \in 0 .. MaxStack
  BY VcpuAssumption
<1>1. CASE BeyondCode
  BY <1>0, <1>1, NonFatalPreserves, VcpuAssumption DEF BeyondCode
<1>2. CASE Jmp
  <2>1. Operand \in Addr
    BY <1>2, OperandType DEF Jmp
  <2> QED BY <1>2, <2>1 DEF Jmp, Goto, NoException, IInv, TypeOK,
             ParkedHandlerWaits, Level, frame, user, first
<1>3. CASE Call
  BY <1>3, CallPreserves
<1>4. CASE OnFail
  <2>1. Operand \in Addr
    BY <1>4, OperandType DEF OnFail
  <2> QED BY <1>4, <2>1, SetHandlerPreserves DEF OnFail
<1>5. CASE NoFail
  BY <1>5, NoneIsAddr, SetHandlerPreserves DEF NoFail
<1>6. CASE Raise
  <2>1. Operand \in Values
    BY <1>6, OperandType DEF Raise
  <2> QED BY <1>0, <1>6, <2>1, NonFatalPreserves DEF Raise
<1>7. CASE RaiseU0
  <2>1. u0 \in Values
    BY DEF IInv, TypeOK
  <2> QED BY <1>0, <1>7, <2>1, NonFatalPreserves DEF RaiseU0
<1>8. CASE MovU0
  <2>1. Operand \in Values
    BY <1>8, OperandType DEF MovU0
  <2> QED BY <1>8, <2>1, NextIP DEF MovU0, Advance, NoException, IInv, TypeOK,
             ParkedHandlerWaits, Level, frame, first
<1>9. CASE Other
  BY <1>9, NextIP DEF Other, Advance, NoException, IInv, TypeOK,
     ParkedHandlerWaits, Level, frame, user, first
<1>10. CASE Halt
  BY <1>10, DestroyPreserves DEF Halt
<1>11. CASE Ret
  <2> DEFINE n == IF Operand = 0 THEN 1 ELSE Operand
  <2>1. n \in Int
    BY <1>11, OperandType DEF Ret
  <2>2. CASE n > MaxStack
    BY <1>0, <1>11, <2>2, NonFatalPreserves, VcpuAssumption DEF Ret
  <2>3. CASE ~ (n > MaxStack)
    <3>1. RetHead(n)
      BY <1>11, <2>3 DEF Ret
    <3>2. n <= MaxStack
      BY <2>1, <2>3, VcpuAssumption
    <3> HIDE DEF n
    <3> QED BY <2>1, <3>1, <3>2, RetHeadPreserves
  <2> QED BY <2>2, <2>3
<1>12. CASE RetPop
  BY <1>12, RetPopPreserves
<1>13. CASE OtherRound
  BY <1>13 DEF OtherRound, IInv, TypeOK, ParkedHandlerWaits, Level,
     frame, user, first
<1>14. CASE UNCHANGED vars
  BY <1>14 DEF vars, IInv, TypeOK, ParkedHandlerWaits, Level,
     frame, user, first, round
<1> QED BY <1>1, <1>2, <1>3, <1>4, <1>5, <1>6, <1>7, <1>8, <1>9, <1>10,
           <1>11, <1>12, <1>13, <1>14 DEF Next

\* Both stacks stay within MAX_STACK and in step with each other, IP and every
\* saved address stay within their width, whatever program runs.
THEOREM TypeCorrect == Spec => []TypeOK
<1>1. IInv => TypeOK
  BY DEF IInv
<1> QED BY InitInv, StepInv, <1>1, PTL DEF Spec

\* The handler parked by non_fatal belongs to a level below the current one
\* that has no other handler, so that the pop that reaches the level restores
\* it and overwrites none.
THEOREM ParkedHandlerIsSafe == Spec => []ParkedHandlerWaits
<1>1. IInv => ParkedHandlerWaits
  BY DEF IInv
<1> QED BY InitInv, StepInv, <1>1, PTL DEF Spec

-----------------------------------------------------------------------------
(* A handler that could run is never passed over. *)

\* Every set of numbers has a least element.
LEMMA LeastNumber ==
  ASSUME NEW T \in SUBSET Nat, T # {}
  PROVE  \E x \in T : \A y \in T : x <= y
<1>1. IsWellFoundedOn(OpToRel(<, Nat), Nat)
  BY NatLessThanWellFounded
<1>2. PICK x \in T : \A y \in T : ~ (<<y, x>> \in OpToRel(<, Nat))
  BY <1>1, WFMin
<1>3. \A y \in T : ~ (y < x)
  BY <1>2 DEF OpToRel
<1> QED BY <1>3

\* Among the levels with a handler pending, one is nearest.
LEMMA NearestExists ==
  ASSUME IInv, NEW k \in 0 .. Level, Pending(k) # None
  PROVE  \E l \in 0 .. Level : Nearest(l)
<1> DEFINE Gap == {d \in 0 .. Level : Pending(Level - d) # None}
<1>1. Gap \in SUBSET Nat /\ Level - k \in Gap
  BY Stacks
<1>2. PICK d \in Gap : \A e \in Gap : d <= e
  BY <1>1, LeastNumber
<1>3. Level - d \in 0 .. Level /\ Pending(Level - d) # None
  BY <1>2, Stacks
<1>4. \A m \in (Level - d) + 1 .. Level : Pending(m) = None
  <2>1. SUFFICES ASSUME NEW m \in (Level - d) + 1 .. Level, Pending(m) # None
                 PROVE  FALSE
    OBVIOUS
  <2>2. Level - m \in 0 .. Level /\ Level - (Level - m) = m /\ Level - m < d
    BY <1>2, Stacks
  <2>3. Level - m \in Gap
    BY <2>1, <2>2
  <2> QED BY <1>2, <2>2, <2>3, Stacks
<1> HIDE DEF Gap
<1> QED BY <1>3, <1>4 DEF Nearest

\* What it means for non_fatal to find nothing it can run.
LEMMA NothingToRun ==
  ASSUME IInv, ~ CanHandle
  PROVE  \/ saved_ex = None /\ \A l \in DOMAIN ex_st : ex_st[l] = None
         \/ Level = MaxStack /\ ex_st[MaxStack + 1] # None
<1>1. CASE \E k \in 0 .. Level : Pending(k) # None
  <2>1. PICK l \in 0 .. Level : Nearest(l)
    BY <1>1, NearestExists
  <2>2. l = Level /\ Level = MaxStack
    BY <2>1, Stacks, VcpuAssumption DEF CanHandle
  <2> QED BY <2>1, <2>2, Stacks DEF Nearest, Pending
<1>2. CASE \A k \in 0 .. Level : Pending(k) = None
  <2>1. saved_ex = None
    <3>1. SUFFICES ASSUME saved_ex # None PROVE FALSE
      OBVIOUS
    <3>2. ex_at \in 0 .. Level /\ ex_at < Level
      BY <3>1, Stacks DEF IInv, TypeOK, ParkedHandlerWaits
    <3> QED BY <1>2, <3>1, <3>2 DEF Pending
  <2>2. ASSUME NEW l \in DOMAIN ex_st PROVE ex_st[l] = None
    <3>1. l \in 1 .. Level + 1
      BY <2>2, Stacks, LenProperties
    <3>2. l - 1 \in 0 .. Level /\ (l - 1) + 1 = l
      BY <3>1, Stacks
    <3> QED BY <1>2, <2>1, <3>2 DEF Pending
  <2> QED BY <2>1, <2>2
<1> QED BY <1>1, <1>2

\* A VCPU is destroyed only by HALT or when non_fatal finds nothing it can
\* run: the declared handlers and the parked one are all considered.
THEOREM HandlersAreNotPassedOver == Spec => DiesUnhandled
<1> DEFINE Dies ==
      used /\ ~ used' =>
        \/ pops = 0 /\ IP < CodeSize /\ code[IP].op = "halt"
        \/ saved_ex = None /\ \A l \in DOMAIN ex_st : ex_st[l] = None
        \/ Level = MaxStack /\ ex_st[MaxStack + 1] # None
<1>1. IInv /\ [Next]_vars => [Dies]_vars
  <2> SUFFICES ASSUME IInv, Next PROVE Dies
    OBVIOUS
  <2>1. ASSUME NEW excp, NEW rest, NonFatal(excp, rest) PROVE Dies
    BY <2>1, NothingToRun DEF NonFatal, EnterHandler
  <2>2. CASE Halt
    BY <2>2 DEF Halt, Fetch, Runnable
  <2>3. CASE BeyondCode \/ Raise \/ RaiseU0
    BY <2>1, <2>3 DEF BeyondCode, Raise, RaiseU0
  <2>4. CASE Call
    BY <2>1, <2>4 DEF Call, RoomForFrame, NoException
  <2>5. CASE Ret
    BY <2>1, <2>5 DEF Ret, RetHead
  <2>6. CASE RetPop
    BY <2>1, <2>6 DEF RetPop
  <2>7. CASE Jmp \/ OnFail \/ NoFail \/ MovU0 \/ Other \/ OtherRound
    BY <2>7 DEF Jmp, OnFail, NoFail, MovU0, Other, OtherRound, SetHandler,
       NoException
  <2> HIDE DEF Dies
  <2> QED BY <2>2, <2>3, <2>4, <2>5, <2>6, <2>7 DEF Next
<1>2. Spec => [][Dies]_vars
  <2> HIDE DEF Dies
  <2> QED BY InitInv, StepInv, <1>1, PTL DEF Spec
<1> QED BY <1>2 DEF DiesUnhandled
-----------------------------------------------------------------------------
(* The parked handler is the one that runs. *)

\* What an instruction does to the call stack: a handler is entered, the VCPU
\* is destroyed, or a frame is pushed, popped or neither.
Enters(l) ==
  /\ Dispatch
  /\ saved_ex' = Pending(l) /\ saved_ex' # None
  /\ ex_at' = l /\ Len(stack') = l + 1
  /\ ex_st' = SubSeq(ex_st, 1, l) \o <<None, None>>

Ends ==
  /\ used /\ ~ used'
  /\ stack' = <<>> /\ ex_st' = <<None>> /\ saved_ex' = None

Keeps(n) ==
  /\ ~ Dispatch /\ used' = used
  /\ Len(stack') = n /\ ex_at' = ex_at
  /\ saved_ex' = saved_ex \/ (n < Level /\ saved_ex' = None)

\* Counting up changes in_handler, whatever its width.
LEMMA CharCounts ==
  ASSUME IInv
  PROVE  Char(in_handler + 1) # in_handler
<1> DEFINE h == HandlerCycle \div 2
<1>1. h \in Nat \ {0} /\ HandlerCycle = 2 * h
  BY VcpuAssumption
<1>2. in_handler \in - h .. h - 1
  BY DEF IInv, TypeOK
<1> HIDE DEF h
<1>3. CASE in_handler = h - 1
  <2>1. (in_handler + 1 + h) % (2 * h) = 0
    BY <1>1, <1>3
  <2>2. Char(in_handler + 1) = - h
    BY <1>1, <2>1 DEF Char, h
  <2> QED BY <1>1, <1>3, <2>2
<1>4. CASE in_handler # h - 1
  <2>1. in_handler + 1 + h \in 0 .. 2 * h - 1
    BY <1>1, <1>2, <1>4
  <2>2. (in_handler + 1 + h) % (2 * h) = in_handler + 1 + h
    BY <1>1, <2>1
  <2>3. Char(in_handler + 1) = in_handler + 1
    BY <1>1, <1>2, <2>2 DEF Char, h
  <2> QED BY <1>2, <2>3
<1> QED BY <1>3, <1>4

LEMMA NonFatalFrames ==
  ASSUME IInv, used, NEW excp, NEW rest, NonFatal(excp, rest)
  PROVE  Ends \/ \E l \in 0 .. Level : Enters(l)
<1>1. CASE Destroy
  BY <1>1 DEF Destroy, Ends
<1>2. ASSUME NEW l \in 0 .. Level, Nearest(l), EnterHandler(l, excp)
      PROVE  Enters(l)
  <2> DEFINE ip == IF l = Level THEN IP ELSE stack[l + 1]
  <2>1. l \in Nat /\ l <= Len(stack) /\ stack \in Seq(Addr)
    BY Stacks
  <2>2. ip \in Addr
    <3>1. IP \in Addr
      BY DEF IInv, TypeOK
    <3>2. CASE l # Level
      <4>1. l + 1 \in 1 .. Len(stack)
        BY <2>1, <3>2, Stacks
      <4> QED BY <2>1, <3>2, <4>1
    <3> QED BY <3>1, <3>2
  <2>3. Len(Append(SubSeq(stack, 1, l), ip)) = l + 1
    <3> HIDE DEF ip
    <3> QED BY <2>2, EnterStacks DEF IInv
  <2>4. Dispatch
    BY <1>2 DEF EnterHandler, Dispatch, NonFatal, Destroy
  <2> QED BY <1>2, <2>3, <2>4 DEF EnterHandler, Park, Nearest, Enters
<1> QED BY <1>1, <1>2 DEF NonFatal

LEMMA StepFrames ==
  ASSUME IInv, Next
  PROVE  \/ Ends \/ \E l \in 0 .. Level : Enters(l)
         \/ \E n \in Nat : n <= Level + 1 /\ Keeps(n)
<1>0. Level \in Nat /\ Level = Len(stack) /\ Char(in_handler + 1) # in_handler
  BY Stacks, CharCounts
<1>1. CASE BeyondCode \/ Raise \/ RaiseU0
  BY <1>1, NonFatalFrames DEF BeyondCode, Raise, RaiseU0, Fetch, Runnable
<1>2. CASE Call
  <2>1. CASE stack' = Append(stack, IP) /\ NoException /\ UNCHANGED <<saved_ex, ex_at>>
    <3>1. Len(stack') = Level + 1
      BY <2>1, <1>0, Stacks DEF IInv, TypeOK
    <3>2. Keeps(Level + 1)
      BY <2>1, <3>1 DEF Keeps, Dispatch, NoException
    <3> QED BY <1>0, <3>2
  <2>2. CASE NonFatal(StackOver, 0)
    BY <1>2, <2>2, NonFatalFrames DEF Call, Fetch, Runnable
  <2> QED BY <1>2, <2>1, <2>2 DEF Call
<1>3. CASE Jmp \/ OnFail \/ NoFail \/ MovU0 \/ Other
  <2>1. ~ got_nonfatal_round' /\ UNCHANGED <<stack, saved_ex, ex_at>>
    BY <1>3 DEF Jmp, OnFail, NoFail, MovU0, Other, SetHandler, NoException, frame
  <2>3. used' = used
    BY <1>3 DEF Jmp, OnFail, NoFail, MovU0, Other, SetHandler, NoException
  <2>2. Keeps(Level)
    BY <1>0, <2>1, <2>3 DEF Keeps, Dispatch
  <2> QED BY <1>0, <2>2
<1>4. CASE Halt
  BY <1>4 DEF Halt, Fetch, Runnable, Destroy, Ends
<1>5. CASE Ret
  <2>1. ASSUME NEW n, RetHead(n) PROVE Keeps(Level)
    BY <1>0, <2>1 DEF RetHead, Keeps, Dispatch, frame
  <2>2. ASSUME NonFatal(BadParam, 0)
        PROVE  Ends \/ \E l \in 0 .. Level : Enters(l)
    BY <1>5, <2>2, NonFatalFrames DEF Ret, Fetch, Runnable
  <2> QED BY <1>0, <1>5, <2>1, <2>2 DEF Ret
<1>6. CASE RetPop
  <2>1. CASE Level = 0
    BY <1>6, <2>1, NonFatalFrames DEF RetPop
  <2>2. CASE Level # 0
    <3>1. Len(stack') = Level - 1
      BY <1>0, <1>6, <2>2, Stacks DEF RetPop
    <3>2. Keeps(Level - 1)
      BY <1>0, <1>6, <2>2, <3>1 DEF RetPop, Keeps, Dispatch, user
    <3> QED BY <1>0, <2>2, <3>2
  <2> QED BY <2>1, <2>2
<1>7. CASE OtherRound
  <2>1. Keeps(Level)
    BY <1>0, <1>7 DEF OtherRound, Keeps, Dispatch, frame, user
  <2> QED BY <1>0, <2>1
<1> QED BY <1>1, <1>2, <1>3, <1>4, <1>5, <1>6, <1>7 DEF Next

FramesInv == frames \in Seq(Addr) /\ Len(frames) = Level /\ ParkedIsRunning

LEMMA FramesStep ==
  ASSUME IInv, IInv', FramesInv, [HNext]_hvars
  PROVE  FramesInv'
<1>1. /\ Level \in Nat /\ frames \in Seq(Addr) /\ Len(frames) = Level
      /\ Level' = Len(stack') /\ None \in Addr
  BY Stacks, NoneIsAddr DEF FramesInv, Level
<1>2. saved_ex \in Addr /\ saved_ex' \in Addr /\ ex_at \in Nat
  BY DEF IInv, TypeOK
<1>3. ASSUME NEW l \in 0 .. Level, Enters(l), HNext
      PROVE  FramesInv'
  <2> DEFINE cut == SubSeq(frames, 1, l)
  <2>1. cut \in Seq(Addr) /\ Len(cut) = l
    BY <1>1
  <2>2. frames' = Append(cut, saved_ex') /\ ex_at' = l /\ Level' = l + 1
    BY <1>1, <1>3 DEF HNext, FramesNext, Enters
  <2> HIDE DEF cut
  <2>3. /\ frames' \in Seq(Addr) /\ Len(frames') = l + 1 /\ frames'[l + 1] = saved_ex'
    BY <1>2, <2>1, <2>2
  <2>4. ParkedIsRunning'
    BY <2>2, <2>3 DEF ParkedIsRunning, HandlerFrames
  <2> QED BY <2>2, <2>3, <2>4 DEF FramesInv
<1>4. ASSUME Ends, HNext
      PROVE  FramesInv'
  <2>1. ~ Dispatch /\ Len(stack') = 0
    BY <1>4 DEF Ends, Dispatch
  <2>2. frames' = SubSeq(frames, 1, 0)
    BY <1>1, <1>4, <2>1 DEF HNext, FramesNext, Ends
  <2>3. frames' \in Seq(Addr) /\ Len(frames') = 0
    BY <1>1, <2>2
  <2> QED BY <1>1, <1>4, <2>1, <2>3 DEF FramesInv, ParkedIsRunning, Ends
<1>5. ASSUME NEW n \in Nat, n <= Level + 1, Keeps(n), HNext
      PROVE  FramesInv'
  <2>1. Len(stack') = n /\ ex_at' = ex_at /\ ~ Dispatch /\ Level' = n
    BY <1>1, <1>5 DEF Keeps
  <2>2. /\ frames' \in Seq(Addr) /\ Len(frames') = n
        /\ \A l \in 1 .. n : frames'[l] = IF l <= Level THEN frames[l] ELSE None
    <3>1. CASE n = Level + 1
      <4>1. frames' = Append(frames, None)
        BY <1>1, <1>5, <2>1, <3>1 DEF HNext, FramesNext
      <4> QED BY <1>1, <3>1, <4>1
    <3>2. CASE n <= Level
      <4>1. frames' = SubSeq(frames, 1, n)
        BY <1>1, <1>5, <2>1, <3>2 DEF HNext, FramesNext
      <4> QED BY <1>1, <3>2, <4>1
    <3> QED BY <1>1, <1>5, <3>1, <3>2
  <2>3. ASSUME saved_ex' # None
        PROVE  /\ ex_at' + 1 \in HandlerFrames' /\ frames'[ex_at' + 1] = saved_ex'
               /\ \A l \in HandlerFrames' : l <= ex_at' + 1
    <3>1. saved_ex' = saved_ex /\ saved_ex # None
      BY <1>5, <2>3 DEF Keeps
    <3>2. ex_at < n
      BY <2>1, <2>3 DEF IInv, ParkedHandlerWaits
    <3>3. /\ ex_at + 1 \in 1 .. Level /\ frames[ex_at + 1] = saved_ex
          /\ \A l \in 1 .. Level : frames[l] # None => l <= ex_at + 1
      BY <1>1, <3>1 DEF FramesInv, ParkedIsRunning, HandlerFrames
    <3>4. ex_at + 1 \in 1 .. n /\ frames'[ex_at + 1] = saved_ex
      BY <1>1, <1>2, <2>2, <3>2, <3>3
    <3>5. \A l \in 1 .. n : frames'[l] # None => l <= ex_at + 1
      BY <1>1, <1>5, <2>2, <3>3
    <3> QED BY <2>1, <2>2, <3>1, <3>4, <3>5 DEF HandlerFrames
  <2> QED BY <2>1, <2>2, <2>3 DEF FramesInv, ParkedIsRunning
<1>6. CASE UNCHANGED hvars
  BY <1>6 DEF hvars, vars, frame, FramesInv, ParkedIsRunning, HandlerFrames, Level
<1> QED BY <1>3, <1>4, <1>5, <1>6, StepFrames DEF HNext

\* What saved_ex and ex_at describe is the handler whose frame is innermost,
\* after any nesting of calls, exceptions and returns: the pop of its frame
\* puts back that handler and no other (bcode.c non_fatal, cmd.c cmd_ret).
THEOREM RunningIsParked == HSpec => []ParkedIsRunning
<1>1. HInit => IInv /\ FramesInv
  BY InitInv DEF HInit, Init, FramesInv, ParkedIsRunning, Level
<1>2. IInv /\ FramesInv /\ [HNext]_hvars => IInv' /\ FramesInv'
  <2>1. [HNext]_hvars => [Next]_vars
    BY DEF HNext, hvars
  <2> QED BY <2>1, StepInv, FramesStep
<1>3. FramesInv => ParkedIsRunning
  BY DEF FramesInv
<1> QED BY <1>1, <1>2, <1>3, PTL DEF HSpec
-----------------------------------------------------------------------------
(* No level loses the handler declared on it, but to a nested handler. *)

\* What the steps that enter no handler leave in the cell of level k.
Cell(k) ==
  IF k > Level THEN None
  ELSE IF k = Level /\ OnFail THEN Operand
  ELSE IF k = Level /\ NoFail THEN None
  ELSE IF k = ex_at /\ saved_ex' # saved_ex THEN saved_ex
  ELSE ex_st[k + 1]

LEMMA CellsStep ==
  ASSUME IInv, Next, NEW n \in Nat, n <= Level + 1, Keeps(n)
  PROVE  /\ \A k \in 0 .. n : ex_st'[k + 1] = Cell(k)
         /\ OnFail \/ NoFail => n = Level
<1>0. /\ Level \in Nat /\ Level = Len(stack) /\ Len(ex_st) = Level + 1
      /\ stack \in Seq(Addr) /\ ex_st \in Seq(Addr)
      /\ IP \in Addr /\ ex_at \in Nat
      /\ saved_ex \in Addr /\ None \in Addr
  BY Stacks, NoneIsAddr DEF IInv, TypeOK
<1>1. ASSUME used, NEW excp, NEW rest, NonFatal(excp, rest)
      PROVE  FALSE
  BY <1>1, NonFatalFrames DEF Keeps, Ends, Enters
<1>2. IP # Next_IP(1)
  BY <1>0, NextIP, VcpuAssumption DEF Next_IP, Addr
<1>3. CASE BeyondCode \/ Raise \/ RaiseU0
  BY <1>1, <1>3 DEF BeyondCode, Raise, RaiseU0, Fetch, Runnable
<1>4. CASE Call
  <2>1. /\ stack' = Append(stack, IP) /\ ex_st' = Append(ex_st, None)
        /\ UNCHANGED saved_ex
    BY <1>1, <1>4 DEF Call, Fetch, Runnable
  <2>2. ~ OnFail /\ ~ NoFail
    BY <1>4 DEF Call, OnFail, NoFail, Fetch
  <2>3. n = Level + 1
    BY <1>0, <2>1 DEF Keeps
  <2> QED BY <1>0, <2>1, <2>2, <2>3 DEF Cell
<1>5. CASE OnFail \/ NoFail
  <2> DEFINE h == IF OnFail THEN Operand ELSE None
  <2>1. ex_st' = [ex_st EXCEPT ![Level + 1] = h] /\ UNCHANGED <<stack, saved_ex>>
    BY <1>5 DEF OnFail, NoFail, SetHandler, Fetch
  <2>2. n = Level
    BY <1>0, <2>1 DEF Keeps
  <2>3. DOMAIN ex_st = 1 .. Level + 1
    BY <1>0, LenProperties
  <2> HIDE DEF h
  <2>4. \A k \in 0 .. Level : ex_st'[k + 1] = IF k = Level THEN h ELSE ex_st[k + 1]
    BY <1>0, <2>1, <2>3
  <2>5. \A k \in 0 .. Level : Cell(k) = IF k = Level THEN h ELSE ex_st[k + 1]
    BY <1>0, <1>5, <2>1 DEF Cell, h
  <2> QED BY <2>2, <2>4, <2>5
<1>6. ASSUME UNCHANGED <<stack, ex_st, saved_ex>>, ~ OnFail, ~ NoFail
      PROVE  \A k \in 0 .. n : ex_st'[k + 1] = Cell(k)
  <2>1. n = Level
    BY <1>0, <1>6 DEF Keeps
  <2> QED BY <1>0, <1>6, <2>1 DEF Cell
<1>7. CASE Jmp \/ MovU0 \/ Other
  <2>1. ~ OnFail /\ ~ NoFail
    BY <1>7 DEF Jmp, MovU0, Other, OnFail, NoFail, Fetch
  <2>2. UNCHANGED <<stack, ex_st, saved_ex>>
    BY <1>7 DEF Jmp, MovU0, Other, frame
  <2> QED BY <1>6, <2>1, <2>2
<1>8. CASE Halt
  BY <1>8 DEF Halt, Fetch, Runnable, Destroy, Keeps
<1>9. CASE Ret
  <2>1. ~ OnFail /\ ~ NoFail
    BY <1>9 DEF Ret, OnFail, NoFail, Fetch
  <2>2. UNCHANGED <<stack, ex_st, saved_ex>>
    BY <1>1, <1>9 DEF Ret, RetHead, Fetch, Runnable, frame
  <2> QED BY <1>6, <2>1, <2>2
<1>10. CASE RetPop
  <2>1. ~ OnFail /\ ~ NoFail
    BY <1>10 DEF RetPop, OnFail, NoFail, Fetch, Runnable
  <2>2. Level # 0
    BY <1>1, <1>10 DEF RetPop
  <2>3. /\ Len(stack') = Level - 1
        /\ ex_st' = IF PutBack THEN SubSeq(ex_st, 1, Level - 1) \o <<saved_ex>>
                               ELSE SubSeq(ex_st, 1, Level)
        /\ saved_ex' = IF PutBack THEN None ELSE saved_ex
    BY <1>0, <1>10, <2>2 DEF RetPop
  <2>4. n = Level - 1
    BY <2>3 DEF Keeps
  <2>5. CASE PutBack
    <3>1. ex_at = Level - 1 /\ saved_ex # None
      BY <2>5 DEF PutBack
    <3> DEFINE cut == SubSeq(ex_st, 1, Level - 1)
    <3>2. /\ cut \in Seq(Addr) /\ Len(cut) = Level - 1
          /\ \A k \in 1 .. Level - 1 : cut[k] = ex_st[k]
      BY <1>0, <2>2
    <3>3. ex_st' = cut \o <<saved_ex>>
      BY <2>3, <2>5
    <3> HIDE DEF cut
    <3>4. /\ ex_st'[Level] = saved_ex
          /\ \A k \in 1 .. Level - 1 : ex_st'[k] = cut[k]
      BY <1>0, <2>2, <3>2, <3>3
    <3>5. ASSUME NEW k \in 0 .. Level - 1
          PROVE  ex_st'[k + 1] = IF k = ex_at THEN saved_ex ELSE ex_st[k + 1]
      <4>1. CASE k = ex_at
        BY <1>0, <3>1, <3>4, <4>1
      <4>2. CASE k # ex_at
        <5>1. k + 1 \in 1 .. Level - 1
          BY <1>0, <3>1, <4>2
        <5> QED BY <3>2, <3>4, <4>2, <5>1
      <4> QED BY <4>1, <4>2
    <3>6. saved_ex' # saved_ex
      BY <2>3, <2>5, <3>1
    <3>7. \A k \in 0 .. n : Cell(k) = IF k = ex_at THEN saved_ex ELSE ex_st[k + 1]
      BY <1>0, <2>1, <2>2, <2>4, <3>6 DEF Cell
    <3> QED BY <2>1, <2>4, <3>5, <3>7
  <2>6. CASE ~ PutBack
    <3>1. \A k \in 0 .. Level - 1 : ex_st'[k + 1] = ex_st[k + 1]
      BY <1>0, <2>2, <2>3, <2>6
    <3> QED BY <1>0, <2>1, <2>3, <2>4, <2>6, <3>1 DEF Cell
  <2> QED BY <2>1, <2>5, <2>6
<1>11. CASE OtherRound
  <2>1. UNCHANGED <<IP, stack, ex_st, saved_ex>>
    BY <1>11 DEF OtherRound, frame
  <2>2. ~ OnFail /\ ~ NoFail
    BY <1>2, <2>1 DEF OnFail, NoFail, SetHandler, Advance
  <2> QED BY <1>6, <2>1, <2>2
<1> QED BY <1>3, <1>4, <1>5, <1>7, <1>8, <1>9, <1>10, <1>11 DEF Next

KeptInv ==
  /\ declared \in Seq(Addr) /\ Len(declared) = Level + 1
  /\ saved_ex # None => declared[ex_at + 1] = saved_ex
  /\ HandlersAreKept

LEMMA KeptStep ==
  ASSUME IInv, IInv', FramesInv, KeptInv, [HNext]_hvars
  PROVE  KeptInv'
<1>1. /\ Level \in Nat /\ Level = Len(stack) /\ Level' = Len(stack')
      /\ Len(ex_st) = Level + 1 /\ ex_st \in Seq(Addr)
      /\ None \in Addr /\ saved_ex \in Addr /\ ex_at \in Nat
      /\ declared \in Seq(Addr) /\ Len(declared) = Level + 1
  BY Stacks, NoneIsAddr DEF IInv, TypeOK, KeptInv, Level
<1>2. saved_ex # None => ex_at < Level /\ ex_st[ex_at + 1] = None
                           /\ declared[ex_at + 1] = saved_ex
  BY DEF IInv, ParkedHandlerWaits, KeptInv
<1>3. ASSUME NEW l \in 0 .. Level, Enters(l), HNext
      PROVE  KeptInv'
  <2>1. /\ used' /\ ex_at' = l /\ Level' = l + 1 /\ saved_ex' = Pending(l)
        /\ ex_st' = SubSeq(ex_st, 1, l) \o <<None, None>>
    BY <1>1, <1>3 DEF Enters, Dispatch
  <2> DEFINE kept == SubSeq(declared, 1, l + 1)
  <2>2. declared' = Append(kept, None)
    BY <1>3, <2>1 DEF Enters, HNext, DeclaredNext
  <2>3. /\ kept \in Seq(Addr) /\ Len(kept) = l + 1
        /\ \A k \in 1 .. l + 1 : kept[k] = declared[k]
    BY <1>1
  <2> HIDE DEF kept
  <2>4. /\ declared' \in Seq(Addr) /\ Len(declared') = l + 2
        /\ declared'[l + 2] = None
        /\ \A k \in 0 .. l : declared'[k + 1] = declared[k + 1]
    <3>1. l \in Nat /\ l + 2 = (l + 1) + 1
      BY <1>1
    <3>2. /\ declared' \in Seq(Addr) /\ Len(declared') = l + 2
          /\ declared'[l + 2] = None
      BY <1>1, <2>2, <2>3, <3>1
    <3>3. ASSUME NEW k \in 0 .. l PROVE declared'[k + 1] = declared[k + 1]
      <4>1. k + 1 \in 1 .. l + 1
        BY <3>1
      <4>2. declared'[k + 1] = kept[k + 1]
        BY <1>1, <2>2, <2>3, <4>1
      <4> QED BY <2>3, <4>1, <4>2
    <3> QED BY <3>2, <3>3
  <2> DEFINE cut == SubSeq(ex_st, 1, l)
  <2>5. /\ cut \in Seq(Addr) /\ Len(cut) = l
        /\ \A k \in 1 .. l : cut[k] = ex_st[k]
    BY <1>1
  <2> DEFINE two == <<None, None>>
  <2>6. /\ ex_st' = cut \o two
        /\ two \in Seq(Addr) /\ Len(two) = 2 /\ two[1] = None /\ two[2] = None
    BY <1>1, <2>1
  <2> HIDE DEF cut, two
  <2>7. /\ ex_st'[l + 1] = None /\ ex_st'[l + 2] = None
        /\ \A k \in 1 .. l : ex_st'[k] = cut[k]
    <3>1. \A i \in 1 .. l + 2 : ex_st'[i] = IF i <= l THEN cut[i] ELSE two[i - l]
      <4>1. cut \in Seq(Addr) /\ two \in Seq(Addr)
        BY <2>5, <2>6
      <4>2. \A i \in 1 .. Len(cut) + Len(two) :
              (cut \o two)[i] = IF i <= Len(cut) THEN cut[i] ELSE two[i - Len(cut)]
        BY <4>1, ConcatProperties
      <4>3. Len(cut) = l /\ Len(two) = 2 /\ ex_st' = cut \o two
        BY <2>5, <2>6
      <4> QED BY <4>2, <4>3, Zenon
    <3>2. /\ l \in Nat /\ l + 1 \in 1 .. l + 2 /\ l + 2 \in 1 .. l + 2
          /\ ~ (l + 1 <= l) /\ ~ (l + 2 <= l)
          /\ (l + 1) - l = 1 /\ (l + 2) - l = 2
      BY <1>1
    <3>3. ex_st'[l + 1] = two[1] /\ ex_st'[l + 2] = two[2]
      BY <3>1, <3>2
    <3>4. ASSUME NEW k \in 1 .. l PROVE ex_st'[k] = cut[k]
      <4>1. k \in 1 .. l + 2 /\ k <= l
        BY <3>2
      <4> QED BY <3>1, <4>1
    <3> QED BY <2>6, <3>3, <3>4
  <2>8. /\ ex_st'[l + 1] = None /\ ex_st'[l + 2] = None
        /\ \A k \in 0 .. l - 1 : ex_st'[k + 1] = ex_st[k + 1]
    <3>1. ASSUME NEW k \in 0 .. l - 1 PROVE ex_st'[k + 1] = ex_st[k + 1]
      <4>1. k + 1 \in 1 .. l
        BY <1>1
      <4> QED BY <2>5, <2>7, <4>1
    <3> QED BY <2>7, <3>1
  <2>9. saved_ex' # None => declared'[l + 1] = saved_ex'
    BY <1>1, <1>2, <2>1, <2>4 DEF Pending, KeptInv, HandlersAreKept
  <2>10. ASSUME NEW k \in 0 .. l - 1
        PROVE  ex_st'[k + 1] = declared'[k + 1]
                 \/ (ex_st'[k + 1] = None /\ k \in overtaken')
    <3>1. overtaken' = {m \in 0 .. l - 1 : m \in overtaken \/ frames[m + 1] # None}
      BY <1>3, <2>1 DEF Enters, HNext, OvertakenNext
    <3>2. ex_at = k /\ saved_ex # None => frames[k + 1] # None
      BY DEF FramesInv, ParkedIsRunning, HandlerFrames
    <3>3. k \in 0 .. Level
      BY <1>1
    <3>4. ex_st'[k + 1] = ex_st[k + 1] /\ declared'[k + 1] = declared[k + 1]
      <4>1. k \in 0 .. l
        BY <1>1
      <4>2. declared'[k + 1] = declared[k + 1]
        BY <2>4, <4>1
      <4>3. ex_st'[k + 1] = ex_st[k + 1]
        BY <2>8
      <4> QED BY <4>2, <4>3
    <3>5. \/ ex_st[k + 1] = declared[k + 1]
          \/ /\ ex_st[k + 1] = None
             /\ \/ ex_at = k /\ saved_ex = declared[k + 1]
                \/ k \in overtaken
      BY <3>3 DEF KeptInv, HandlersAreKept
    <3>6. CASE ex_at = k /\ saved_ex # None
      BY <3>1, <3>2, <3>4, <3>5, <3>6
    <3>7. CASE ~ (ex_at = k /\ saved_ex # None)
      BY <3>1, <3>4, <3>5, <3>7
    <3> QED BY <3>6, <3>7
  <2>11. HandlersAreKept'
    <3>1. SUFFICES ASSUME NEW k \in 0 .. l + 1
                   PROVE  \/ ex_st'[k + 1] = declared'[k + 1]
                          \/ /\ ex_st'[k + 1] = None
                             /\ \/ ex_at' = k /\ saved_ex' = declared'[k + 1]
                                \/ k \in overtaken'
      BY <1>1, <2>1 DEF HandlersAreKept
    <3>2. CASE k = l + 1
      <4>1. k + 1 = l + 2
        BY <1>1, <3>2
      <4> QED BY <2>4, <2>8, <4>1
    <3>3. CASE k = l
      BY <1>3, <2>1, <2>8, <2>9, <3>3 DEF Enters
    <3>4. CASE k \in 0 .. l - 1
      BY <2>10, <3>4
    <3> QED BY <1>1, <3>2, <3>3, <3>4
  <2>12. ex_at' + 1 = l + 1 /\ Len(declared') = Level' + 1
    BY <1>1, <2>1, <2>4
  <2> QED BY <2>1, <2>4, <2>9, <2>11, <2>12 DEF KeptInv
<1>4. ASSUME Ends, HNext
      PROVE  KeptInv'
  <2>1. declared' = <<None>> /\ ex_st' = <<None>> /\ Len(stack') = 0 /\ saved_ex' = None
    BY <1>4 DEF Ends, HNext, DeclaredNext
  <2> QED BY <1>1, <2>1 DEF KeptInv, HandlersAreKept
<1>5. ASSUME NEW n \in Nat, n <= Level + 1, Keeps(n), HNext
      PROVE  KeptInv'
  <2>1. /\ ~ (used /\ ~ used') /\ ~ Dispatch /\ ex_at' = ex_at /\ Level' = n
        /\ Len(stack') = n
        /\ saved_ex' = saved_ex \/ (n < Level /\ saved_ex' = None)
    BY <1>1, <1>5 DEF Keeps
  <2>2. /\ \A k \in 0 .. n : ex_st'[k + 1] = Cell(k)
        /\ OnFail \/ NoFail => n = Level
    BY <1>5, CellsStep DEF HNext
  <2>3. /\ declared' \in Seq(Addr) /\ Len(declared') = n + 1
        /\ \A k \in 0 .. n :
             declared'[k + 1] = IF k > Level THEN None
                                ELSE IF k = Level /\ OnFail THEN Operand
                                ELSE IF k = Level /\ NoFail THEN None
                                ELSE declared[k + 1]
    <3>1. CASE OnFail \/ NoFail
      <4> DEFINE h == IF OnFail THEN Operand ELSE None
      <4>1. h \in Addr
        BY <1>1, OperandType DEF OnFail
      <4>2. declared' = [declared EXCEPT ![Level + 1] = h]
        BY <1>5, <2>1, <3>1 DEF HNext, DeclaredNext
      <4>3. \A k \in 0 .. Level :
              (IF k > Level THEN None
               ELSE IF k = Level /\ OnFail THEN Operand
               ELSE IF k = Level /\ NoFail THEN None
               ELSE declared[k + 1]) = IF k = Level THEN h ELSE declared[k + 1]
        BY <1>1, <3>1
      <4> HIDE DEF h
      <4>4. DOMAIN declared = 1 .. Level + 1
        BY <1>1, LenProperties
      <4>5. /\ declared' \in Seq(Addr) /\ Len(declared') = Level + 1
            /\ \A k \in 0 .. Level :
                 declared'[k + 1] = IF k = Level THEN h ELSE declared[k + 1]
        BY <1>1, <4>1, <4>2, <4>4
      <4> QED BY <2>2, <3>1, <4>3, <4>5
    <3>2. CASE ~ OnFail /\ ~ NoFail /\ n = Level + 1
      <4>1. declared' = Append(declared, None)
        BY <1>1, <1>5, <2>1, <3>2 DEF HNext, DeclaredNext
      <4>2. /\ declared' \in Seq(Addr) /\ Len(declared') = Level + 2
            /\ declared'[Level + 2] = None
            /\ \A k \in 1 .. Level + 1 : declared'[k] = declared[k]
        BY <1>1, <4>1
      <4>3. ASSUME NEW k \in 0 .. n
            PROVE  declared'[k + 1] = IF k > Level THEN None ELSE declared[k + 1]
        <5>1. CASE k > Level
          <6>1. k + 1 = Level + 2
            BY <1>1, <3>2, <5>1
          <6> QED BY <4>2, <5>1, <6>1
        <5>2. CASE ~ (k > Level)
          <6>1. k + 1 \in 1 .. Level + 1
            BY <1>1, <5>2
          <6> QED BY <4>2, <5>2, <6>1
        <5> QED BY <5>1, <5>2
      <4>4. Len(declared') = n + 1
        BY <1>1, <3>2, <4>2
      <4> QED BY <3>2, <4>2, <4>3, <4>4
    <3>3. CASE ~ OnFail /\ ~ NoFail /\ n <= Level
      <4>1. declared' = SubSeq(declared, 1, n + 1)
        BY <1>1, <1>5, <2>1, <3>3 DEF HNext, DeclaredNext
      <4>2. /\ declared' \in Seq(Addr) /\ Len(declared') = n + 1
            /\ \A k \in 1 .. n + 1 : declared'[k] = declared[k]
        BY <1>1, <3>3, <4>1
      <4>3. ASSUME NEW k \in 0 .. n
            PROVE  ~ (k > Level) /\ declared'[k + 1] = declared[k + 1]
        <5>1. k + 1 \in 1 .. n + 1 /\ ~ (k > Level)
          BY <1>1, <3>3
        <5> QED BY <4>2, <5>1
      <4> QED BY <3>3, <4>2, <4>3
    <3> QED BY <1>1, <1>5, <3>1, <3>2, <3>3
  <2>4. saved_ex' # None => declared'[ex_at' + 1] = saved_ex'
    <3>1. SUFFICES ASSUME saved_ex' # None
                   PROVE  declared'[ex_at + 1] = saved_ex
      BY <2>1
    <3>2. saved_ex' = saved_ex /\ ex_at < Level
      BY <1>2, <2>1, <3>1
    <3>3. ex_at \in 0 .. n
      BY <1>1, <2>1, <3>1 DEF IInv, ParkedHandlerWaits
    <3> QED BY <1>1, <1>2, <2>3, <3>1, <3>2, <3>3
  <2>5. ASSUME NEW k \in 0 .. n
        PROVE  \/ ex_st'[k + 1] = declared'[k + 1]
               \/ /\ ex_st'[k + 1] = None
                  /\ \/ ex_at' = k /\ saved_ex' = declared'[k + 1]
                     \/ k \in overtaken'
    <3>1. CASE k > Level \/ (k = Level /\ (OnFail \/ NoFail))
      BY <2>2, <2>3, <3>1 DEF Cell
    <3>2. CASE k <= Level /\ ~ (k = Level /\ (OnFail \/ NoFail))
      <4>1. /\ declared'[k + 1] = declared[k + 1]
            /\ ex_st'[k + 1] = IF k = ex_at /\ saved_ex' # saved_ex THEN saved_ex
                               ELSE ex_st[k + 1]
        BY <1>1, <2>2, <2>3, <3>2 DEF Cell
      <4>2. k \in overtaken => k \in overtaken'
        BY <1>5, <2>1, <3>2 DEF HNext, OvertakenNext
      <4>3. \/ ex_st[k + 1] = declared[k + 1]
            \/ /\ ex_st[k + 1] = None
               /\ \/ ex_at = k /\ saved_ex = declared[k + 1]
                  \/ k \in overtaken
        BY <1>1, <3>2 DEF KeptInv, HandlersAreKept
      <4>4. CASE saved_ex' # saved_ex
        <5>1. saved_ex # None
          BY <2>1, <4>4
        <5> QED BY <1>2, <2>1, <4>1, <4>2, <4>3, <4>4, <5>1
      <4>5. CASE saved_ex' = saved_ex
        BY <2>1, <4>1, <4>2, <4>3, <4>5
      <4> QED BY <4>4, <4>5
    <3> QED BY <1>1, <3>1, <3>2
  <2> QED BY <2>1, <2>3, <2>4, <2>5 DEF KeptInv, HandlersAreKept
<1>6. CASE UNCHANGED hvars
  BY <1>6 DEF hvars, vars, frame, KeptInv, HandlersAreKept, Level
<1> QED BY <1>3, <1>4, <1>5, <1>6, StepFrames DEF HNext

\* A level loses the handler that the program declared on it only while that
\* handler is parked, or to another entered while it ran, which is where the
\* single saved_ex of the code (non_fatal, bcode.c) forgets it.
THEOREM DeclaredHandlersStay == HSpec => []HandlersAreKept
<1>1. HInit => IInv /\ FramesInv /\ KeptInv
  BY InitInv, NoneIsAddr
     DEF HInit, Init, FramesInv, ParkedIsRunning, KeptInv, HandlersAreKept, Level
<1>2. IInv /\ FramesInv /\ KeptInv /\ [HNext]_hvars
        => IInv' /\ FramesInv' /\ KeptInv'
  <2>1. [HNext]_hvars => [Next]_vars
    BY DEF HNext, hvars
  <2> QED BY <2>1, StepInv, FramesStep, KeptStep
<1>3. KeptInv => HandlersAreKept
  BY DEF KeptInv
<1> QED BY <1>1, <1>2, <1>3, PTL DEF HSpec
=============================================================================
