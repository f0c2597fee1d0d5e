------------------------------ MODULE X86Codes ------------------------------
(***************************************************************************)
(* What the x86-64 generator writes for an instruction: how many bytes,    *)
(* and how many 8-byte slots that code pops and pushes when a processor    *)
(* reads it from its first byte on, in step with how it was written.  The  *)
(* byte strings themselves are abstracted to these numbers; module Machine *)
(* says when the processor does get to them in step.                       *)
(***************************************************************************)
EXTENDS Integers

(* The tables hold sizeof of a string literal: its terminating zero byte   *)
(* is counted, and written after the machine code, where the processor     *)
(* takes it for the opcode of an addition to whatever follows (Machine).   *)
INSTR(bytes) == bytes + 1

(* code is the length of the machine code without the zero byte; pop and   *)
(* push count the slots that code moves, as the comments of the table say. *)
(* END leaves the process, so the depth behind it is never observed; it is *)
(* listed as taking its exit code.                                         *)
ginstrBinCodes ==
  [BAD |-> [code |->  1, pop |-> 0, push |-> 0],
   NOP |-> [code |->  1, pop |-> 0, push |-> 0],
   ADD |-> [code |->  6, pop |-> 2, push |-> 1],
   SUB |-> [code |->  6, pop |-> 2, push |-> 1],
   MUL |-> [code |->  9, pop |-> 2, push |-> 1],
   DIV |-> [code |->  9, pop |-> 2, push |-> 1],
   END |-> [code |-> 12, pop |-> 1, push |-> 0],
   DUP |-> [code |->  3, pop |-> 0, push |-> 1],
   POP |-> [code |->  4, pop |-> 1, push |-> 0],
   INP |-> [code |-> 22, pop |-> 0, push |-> 1],
   OUT |-> [code |-> 24, pop |-> 1, push |-> 0],
   TRAP |-> [code |-> 1, pop |-> 0, push |-> 0],
   CMP |-> [code |->  5, pop |-> 2, push |-> 0],
   TST |-> [code |->  5, pop |-> 2, push |-> 0]]

(* Opcode of a jump with a 32 bit and with an 8 bit displacement.  Their   *)
(* zero byte stands before the displacement: the processor reads it as the *)
(* first byte of the displacement, which it so takes from one byte before  *)
(* the field that is patched, and executes the field's last byte.          *)
longJmpBinCodes(cond)  == INSTR(IF cond \in {"NVR", "ALW"} THEN 1 ELSE 2)
shortJmpBinCodes(cond) == INSTR(1)

(* Registers that carry arguments and results, in order: rax, rdi, rsi,    *)
(* rdx, rcx, r8, r9.  Results start at rax, arguments at rdi; r8 and r9    *)
(* need a prefix byte.                                                     *)
arg_reg_cnt == 7
RegsSuffice(count, ret) == count <= arg_reg_cnt - (IF ret THEN 0 ELSE 1)
LastReg(count, ret) == IF ret THEN count - 1 ELSE count
PushPopSize(count, ret) ==
  count + (IF LastReg(count, ret) > 4 THEN LastReg(count, ret) - 4 ELSE 0)

(* Pops count values into registers; arguments start at rdi, and behind    *)
(* the one byte of "xor rax, rax" that is written: a prefix, which leaves  *)
(* rax as it was and changes nothing of the pop or call behind it.         *)
addArgRetEncode(count, ret) == PushPopSize(count, ret) + (IF ret THEN 0 ELSE 1)
addArgRetDecode(count, ret) == PushPopSize(count, ret)

(* push of a constant: imm8 and imm32 forms, or a move through rax.  A     *)
(* negative number stands for the unsigned 64 bit value of its pattern.    *)
FitsImm32(val) == val \in 0 .. 2147483647
translateConstSize(val) ==
  IF val \in 0 .. 127 THEN 2 ELSE IF FitsImm32(val) THEN 5 ELSE 10
AddressConstSize == 10

(* A memory operand: optional pop of the modifier, prefix, opcode, ModRM,  *)
(* SIB and a 32 bit offset, the offset being the last four bytes.          *)
translateMemSize(mod) == (IF "arg" \in mod THEN 1 ELSE 0) + 8
translateMemOffset(mod) == translateMemSize(mod) - 4

(* add/sub rsp by a number of slots: refused from 2^32 bytes on, nothing   *)
(* for none, an 8 bit immediate below 256 bytes and a 32 bit one else.     *)
(* The processor sign-extends both.                                        *)
CanMoveRsp(slots) == slots < 536870912
addRspMoveSize(slots) ==
  IF slots = 0 THEN 0 ELSE IF slots < 32 THEN 4 ELSE 7
addRspMoveSlots(slots) ==
  slots - (IF slots \in 16 .. 31 THEN 32 ELSE IF slots >= 268435456 THEN 536870912 ELSE 0)
=============================================================================
