---------------------------- MODULE VcpuHistory ----------------------------
(***************************************************************************)
(* Module Vcpu with history variables: what each frame of the call stack   *)
(* was pushed for, the handler that the program declared on each level,    *)
(* and the levels whose handler was running when another was entered.      *)
(***************************************************************************)
EXTENDS Vcpu

VARIABLES
  frames,     \* None when CALL pushed the frame, the handler when non_fatal did
  declared,   \* of each level: what ONFAIL or NOFAIL last said there
  overtaken   \* levels a handler of which ran when one above it was entered

hvars == <<vars, frames, declared, overtaken>>

\* This step enters a handler: nothing else both raises and counts one up.
Dispatch ==
  /\ used' /\ got_nonfatal_round'
  /\ in_handler' = Char(in_handler + 1)

HInit == Init /\ frames = <<>> /\ declared = <<None>> /\ overtaken = {}

FramesNext ==
  frames' =
    IF Dispatch
    THEN Append(SubSeq(frames, 1, ex_at'), saved_ex')
    ELSE IF Len(stack') > Level THEN Append(frames, None)
    ELSE SubSeq(frames, 1, Len(stack'))

\* A frame begins without a handler, whatever it is pushed for.
DeclaredNext ==
  declared' =
    IF used /\ ~ used' THEN <<None>>
    ELSE IF Dispatch THEN Append(SubSeq(declared, 1, ex_at' + 1), None)
    ELSE IF OnFail THEN [declared EXCEPT ![Level + 1] = Operand]
    ELSE IF NoFail THEN [declared EXCEPT ![Level + 1] = None]
    ELSE IF Len(stack') > Level THEN Append(declared, None)
    ELSE SubSeq(declared, 1, Len(stack') + 1)

\* A new declaration on its level, or the end of it, makes up for the loss.
OvertakenNext ==
  overtaken' =
    IF used /\ ~ used' THEN {}
    ELSE IF Dispatch
    THEN {l \in 0 .. ex_at' - 1 : l \in overtaken \/ frames[l + 1] # None}
    ELSE IF OnFail \/ NoFail THEN overtaken \ {Level}
    ELSE overtaken \cap (0 .. Len(stack'))

HNext == Next /\ FramesNext /\ DeclaredNext /\ OvertakenNext

HSpec == HInit /\ [][HNext]_hvars

-----------------------------------------------------------------------------
HandlerFrames == {l \in 1 .. Len(frames) : frames[l] # None}

\* The parked handler is the one whose frame is innermost: saved_ex / ex_at
\* always describe the handler that is running, so that the pop of its frame
\* puts back the right handler at the right level.
ParkedIsRunning ==
  saved_ex # None =>
    /\ ex_at + 1 \in HandlerFrames
    /\ frames[ex_at + 1] = saved_ex
    /\ \A l \in HandlerFrames : l <= ex_at + 1

\* Every level keeps the handler that the program declared there, and no
\* level gets another's, through any nesting of calls, exceptions and RET n:
\* a handler is missing from its level only while it is the parked one, or
\* when another was entered while it ran.  saved_ex holds one handler
\* (non_fatal, bcode.c), so the outer one is not put back when it returns.
HandlersAreKept ==
  \A l \in 0 .. Level :
    \/ ex_st[l + 1] = declared[l + 1]
    \/ /\ ex_st[l + 1] = None
       /\ \/ ex_at = l /\ saved_ex = declared[l + 1]
          \/ l \in overtaken
=============================================================================
