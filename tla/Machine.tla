------------------------------ MODULE Machine ------------------------------
(***************************************************************************)
(* What a processor makes of the code ExecOutput writes: how far the       *)
(* machine stack grows while the code of a stream runs from front to back, *)
(* next to the account the generator keeps of it (stk_size_curr).          *)
(*                                                                         *)
(* Most code tables end in a zero byte, which the processor executes: it   *)
(* is the opcode of an addition of a register to memory, and the bytes     *)
(* that follow are its operand.  Where this takes exactly two bytes, the   *)
(* processor loses those and goes on in step with the code; where it takes *)
(* the beginning of a longer instruction, it goes astray, and the model    *)
(* follows it no further.                                                  *)
(***************************************************************************)
EXTENDS ExecOutput

VARIABLES
  rsp,      \* slots between the base of its frame and the stack pointer, for each context
  open,     \* sections whose code so far ends in a zero byte
  astray    \* sections whose code the processor no longer reads as it was written

machineVars == <<rsp, open, astray>>

MachineInit ==
  /\ Init
  /\ rsp = <<0>>
  /\ open = {}
  /\ astray = {}

-----------------------------------------------------------------------------
(* How the processor reads the code of one instruction.                    *)

EndsInZero(i) == i.type = "GENERIC"

(* Code that is read as it was written, to its last byte.  The others are: *)
(* a move of a constant to rax without its REX.W prefix, which takes four  *)
(* of the eight bytes; a memory operand without bp, whose ModRM byte names *)
(* rax and no SIB byte; and jumps, whose opcodes end in zero bytes too.    *)
ReadsAsWritten(i) ==
  /\ i.type = "CONST" => FitsImm32(i.num)
  /\ i.type = "LCONST" => Lookup(i.name).kind # "label" /\ FitsImm32(Lookup(i.name).val)
  /\ i.type \in {"LOAD", "STORE"} => "bp" \in i.mod
  /\ ~ WritesJump(i)

(* Code that loses two bytes to a zero byte in front of it, and no more.   *)
StaysInStep(i) ==
  \/ i.type = "CONST" /\ i.num \in 0 .. 127
  \/ i.type \in {"LOAD", "STORE"} /\ "bp" \in i.mod
  \/ i.type = "GENERIC" /\ i.id \in {"ADD", "SUB", "MUL", "DIV", "CMP", "TST"}

(* By how much the machine stack grows.  A jump is not followed, and what  *)
(* the others push and pop is what the tables and the functions write.     *)
Growth(i) ==
  CASE i.type = "GENERIC" -> ginstrBinCodes[i.id].push - ginstrBinCodes[i.id].pop
    [] i.type \in {"CONST", "LCONST"} -> 1
    [] i.type = "LOAD" -> 1 - getMemArgArgc(i.mod)
    [] i.type = "STORE" -> -1 - getMemArgArgc(i.mod)
    [] i.type = "TABLE" /\ i.id = "STACK" -> addRspMoveSlots(i.num)
    [] i.type \in {"STRUCT", "SPECIAL"} -> i.retc - i.argc
    [] OTHER -> 0

(* What of this growth is in the two bytes that are lost: the push of a    *)
(* small constant, and pops of values, operands or a modifier.             *)
InLostBytes(i) ==
  CASE i.type = "CONST" -> 1
    [] i.type = "LOAD" -> -getMemArgArgc(i.mod)
    [] i.type = "STORE" -> -1 - getMemArgArgc(i.mod)
    [] OTHER -> -2

BehindZero(i) == Here \in open /\ WritesCode(i)
GoesAstray(i) ==
  WritesCode(i) /\ (~ ReadsAsWritten(i) \/ (Here \in open /\ ~ StaysInStep(i)))

-----------------------------------------------------------------------------
(* One operator for each way an instruction changes the contexts.          *)

runPlain(i) ==
  /\ i.type # "STRUCT" \/ i.id = "NULL"
  /\ rsp' = [rsp EXCEPT ![Depth] =
               @ + Growth(i) - (IF BehindZero(i) THEN InLostBytes(i) ELSE 0)]

(* enter with nesting level 1 pushes rbp twice: the stack pointer starts   *)
(* one slot away from the base of the new frame.                           *)
EnterSlots == 1
runBegin(i) ==
  /\ i.type = "STRUCT" /\ i.id \in StructBegins \ {"SECT_B"}
  /\ LET base == IF i.id = "ADDSF" THEN EnterSlots ELSE rsp[Depth] - i.argc
     IN  rsp' = Append([rsp EXCEPT ![Depth] = @ - i.argc], base + i.retc)

runSect(i) ==
  /\ i.type = "STRUCT" /\ i.id = "SECT_B"
  /\ rsp' = Append(rsp, 0)

(* A code block and a non-linear area share the frame of the block around  *)
(* them, so its stack pointer is what theirs was after the clean-up; leave *)
(* gives the outer frame its own back.  The code of a section's end moves  *)
(* the stack pointer of that section's code only.                          *)
runEnd(i) ==
  /\ i.type = "STRUCT"
  /\ \/ /\ i.id \in {"CB_E", "NONLIN_E"}
        /\ rsp' = [Outer(rsp) EXCEPT ![Depth - 1] =
                     rsp[Depth] - i.argc - addRspMoveSlots(Leftover(i)) + i.retc]
     \/ i.id = "RMSF" /\ rsp' = [Outer(rsp) EXCEPT ![Depth - 1] = @ + i.retc]
     \/ i.id = "SECT_E" /\ rsp' = Outer(rsp)

Executes(i) ==
  /\ runPlain(i) \/ runBegin(i) \/ runSect(i) \/ runEnd(i)
  /\ open' = IF EndsInZero(i) THEN open \cup {Here}
             ELSE IF WritesCode(i) THEN open \ {Here} ELSE open
  /\ astray' = IF GoesAstray(i) THEN astray \cup {Here} ELSE astray

-----------------------------------------------------------------------------
(* The streams that are translated, and what their code does so far.  What *)
(* the generator stops at leaves no code to run.                           *)

MachineNext ==
  \/ /\ status = "running"
     /\ \E i \in Offered : translateInstruction(i) /\ Executes(i)
  \/ /\ status = "running"
     /\ endOfStream
     /\ UNCHANGED machineVars
  \/ status # "running" /\ UNCHANGED <<vars, machineVars>>

MachineSpec == MachineInit /\ [][MachineNext]_<<vars, machineVars>>

-----------------------------------------------------------------------------
(* Properties.                                                             *)

(* stk_size_curr is where the code leaves the stack pointer, in the        *)
(* innermost block and in every block it will return to: the pops and      *)
(* pushes of operands, the clean-up at block ends and the registers of     *)
(* calls all agree with the argument counts of the headers.  In a function *)
(* frame, and in all blocks that share it, the pointer is one slot further *)
(* because of enter.  Where the processor is astray nothing is claimed.    *)
Slip(k) == rsp[k] - ctx[k].curr
MachineStackTracksAccount ==
  astray = {} =>
    \A k \in DOMAIN ctx :
      Slip(k) = CASE ctx[k].type = "SF" -> 1
                  [] ctx[k].type \in {"CB", "NONLIN"} -> Slip(k - 1)
                  [] OTHER -> 0
=============================================================================
