----------------------------- MODULE ExecOutput -----------------------------
(***************************************************************************)
(* Translation of a stream of compiler-out-lang instructions into          *)
(* ExecOutput: the stack of logical blocks, the sections, the symbols, the *)
(* prototypes and the tables of references to be patched later             *)
(* (exec_output.cpp), driven by the x86-64 generator (genExecCode.cpp).    *)
(* Machine code is abstracted to its length, and what a processor makes of *)
(* it is in module Machine; a name is one of a small set of strings.       *)
(*                                                                         *)
(* NoArgsCheck, ArgsInFrame, IsNamed (as IsFree), SizesLost, PutDataLast,  *)
(* AnyEntries, KeepEntry, MoveEntry, RelocationBehind, MovesAbsolute,      *)
(* LeftoverWithResults and FirstSlotBeforeArgs are slips the code could    *)
(* have made in the definition that follows each: the properties below     *)
(* tell every one of them from what the code does.                         *)
(***************************************************************************)
EXTENDS CompilerOutLang, X86Codes, Sequences, FiniteSetsExt

CONSTANTS
  Prefix,         \* instructions every stream starts with
  Instructions,   \* what the rest of the stream is made of
  MaxInstrs,      \* bound of the model: length of the stream
  MaxDepth        \* bound of the model: slots a block owns

StreamInstrs == Instructions \cup {Prefix[n] : n \in DOMAIN Prefix}

ASSUME StreamAssumption ==
  /\ Prefix \in Seq(StreamInstrs)
  /\ \A i \in StreamInstrs : IsInstr(i)
  /\ MaxInstrs \in Nat
  /\ MaxDepth \in Nat

VARIABLES
  status,    \* how the call of translateCompilerOutput_x86_64 stands
  ip,        \* instructions translated
  ctx,       \* context_stk, the innermost context last
  lvl,       \* lvl
  sects,     \* sects
  syms,      \* syms, the newest entry last
  preData,   \* sym_pre_data with the first cell behind its top
  preTbl,    \* sym_pre_tbl
  relt,      \* relt
  defs,      \* what each prototype was defined as
  fields     \* operand fields written for symbols

(* defs and fields are not in the program: they record what the input      *)
(* means.                                                                  *)
symVars == <<syms, preData, defs>>
refVars == <<preTbl, relt, fields>>
blkVars == <<ctx, lvl>>
vars == <<status, ip, blkVars, sects, symVars, refVars>>

NoSect == 0
Statuses == {"running", "translated", "failed", "aborted", "undefined", "misaligned"}
ContextTypes == {"ROOT", "SECT", "CB", "NONLIN", "SF"}
Context(type, sect, beg, curr) ==
  [type |-> type, sect |-> sect, beg |-> beg, curr |-> curr]
SymKinds == {"none", "proto", "label", "const", "stack"}
SymData(kind, val, sect) == [kind |-> kind, val |-> val, sect |-> sect]
NoData == SymData("none", 0, NoSect)

Init ==
  /\ status = "running"
  /\ ip = 0
  /\ ctx = <<Context("ROOT", NoSect, 0, 0)>>
  /\ lvl = 0
  /\ sects = <<>>
  /\ syms = <<>>
  /\ preData = <<NoData>>
  /\ defs = <<>>
  /\ preTbl = <<>>
  /\ relt = <<>>
  /\ fields = {}

Depth == Len(ctx)
Top == ctx[Depth]
Here == Top.sect
Initialised(s) == sects[s].attr.init

-----------------------------------------------------------------------------
(* Sections.                                                               *)

Section(name, attr, used) == [name |-> name, attr |-> attr, used |-> used, size |-> 0]

(* The array of sections after one more was added: calloc clears the first *)
(* one, realloc leaves in_use of every later one to chance.                *)
IsNamed(s, name) == sects[s].name = name
NamedSects(name) == {s \in DOMAIN sects : IsNamed(s, name)}
SizesLost(name, attr) ==
  {Append([s \in DOMAIN sects |-> [sects[s] EXCEPT !.size = 0]], Section(name, attr, FALSE))}
execoutAddSection(name, attr) ==
  {Append(sects, Section(name, attr, used)) :
     used \in IF sects = <<>> THEN {FALSE} ELSE BOOLEAN}

IsFree(s, name) == sects[s].name = name /\ ~ sects[s].used

FreeSects(name) == {s \in DOMAIN sects : IsFree(s, name)}

(* The section to continue under a name, with the array it is an index of: *)
(* the last free one, else a new one with the attributes of the first.     *)
execOutFindSect(name) ==
  IF FreeSects(name) # {}
  THEN {[sect |-> Max(FreeSects(name)), sects |-> sects]}
  ELSE {[sect |-> Len(sects) + 1, sects |-> added] :
          added \in IF NamedSects(name) = {} THEN {}
                    ELSE execoutAddSection(name, sects[Min(NamedSects(name))].attr)}

(* Code goes to the end of the current section.                            *)
PutDataLast(size) == sects' = [sects EXCEPT ![Len(sects)].size = @ + size]
execOutPutData(size) == sects' = [sects EXCEPT ![Here].size = @ + size]

-----------------------------------------------------------------------------
(* The account of the operand stack.                                       *)

NoArgsCheck(i) == TRUE
ArgsInFrame(i) == Top.curr >= i.argc
EnoughArgs(i) == Top.curr >= Top.beg + i.argc
Own == Top.curr - Top.beg

(* A plain instruction takes argc values of the innermost block and leaves *)
(* retc.                                                                   *)
Account(i) == ctx' = [ctx EXCEPT ![Depth].curr = @ - i.argc + i.retc]

-----------------------------------------------------------------------------
(* Symbols.                                                                *)

SymsNamed(name) == {p \in DOMAIN syms : syms[p].name = name}
IsKnown(name) == SymsNamed(name) # {}
Lookup(name) == syms[Max(SymsNamed(name))].data

Symbol(name, data) == [name |-> name, lvl |-> lvl, data |-> data]

AnyEntries(name) == SymsNamed(name)
OpenProtos(name) == {p \in SymsNamed(name) : syms[p].data.kind = "proto"}

KeepEntry(p, data) == syms
MoveEntry(p, data) == [syms EXCEPT ![p] = Symbol(@.name, data)]
FillEntry(p, data) == [syms EXCEPT ![p].data = data]

(* A definition fills the newest prototype of its name, which keeps the    *)
(* level it was declared at; without one it is an entry of its own.        *)
(* The prototype's number indexes sym_pre_data, whose cells count from 0:  *)
(* it is the cell behind the one pushed for that prototype.                *)
execOutDefSym(name, data) ==
  IF OpenProtos(name) = {}
  THEN /\ syms' = Append(syms, Symbol(name, data))
       /\ UNCHANGED <<preData, defs>>
  ELSE LET p == Max(OpenProtos(name))
           slot == syms[p].data.val
       IN  /\ preData' = [preData EXCEPT ![slot + 1] = data]
           /\ defs' = [defs EXCEPT ![slot] = data]
           /\ syms' = FillEntry(p, data)

DeclareProto(name) ==
  LET slot == Len(preData)
      proto == SymData("proto", slot, Here)
  IN  /\ preData' = Append([preData EXCEPT ![slot] = SymData("proto", 0, Here)], NoData)
      /\ defs' = Append(defs, NoData)
      /\ syms' = Append(syms, Symbol(name, proto))

(* Closing a block drops, newest first, the entries of its level.          *)
KeptSyms(level) == Max({0} \cup {p \in DOMAIN syms : syms[p].lvl < level})
cmpoutSymTableDescendLvl(level) == syms' = SubSeq(syms, 1, KeptSyms(level))

(* An operand field that names a symbol, off bytes behind the end of the   *)
(* current section, and the entry that will patch it: none for a number    *)
(* or a near label, one in relt when the label's section may move, one in  *)
(* sym_pre_tbl when the symbol is still a prototype.                       *)
RelocationBehind(off, to, size, relative) ==
  [sect |-> Here, off |-> sects[Here].size + off + size, to |-> to, size |-> size,
   rel |-> relative]
Relocation(off, to, size, relative) ==
  [sect |-> Here, off |-> sects[Here].size + off, to |-> to, size |-> size, rel |-> relative]

MovesAbsolute(data, relative) == data.kind = "label" /\ ~ relative
MovesApart(data, relative) ==
  data.kind = "label" /\ (~ relative \/ data.sect # Here)

execOutPutSym(name, off, size, relative) ==
  LET data == Lookup(name)
      proto == data.kind = "proto"
      entry(to) == Relocation(off, to, size, relative)
  IN  /\ preTbl' = IF proto THEN Append(preTbl, entry(data.val)) ELSE preTbl
      /\ relt' = IF MovesApart(data, relative) THEN Append(relt, entry(data.sect)) ELSE relt
      /\ fields' = fields \cup
           {[place |-> entry(0), slot |-> IF proto THEN data.val ELSE 0,
             data |-> IF proto THEN NoData ELSE data]}

-----------------------------------------------------------------------------
(* When an instruction is accepted.  A failed check or assertion ends the  *)
(* translation where it stands, and reading through a null or dangling     *)
(* pointer leaves the outcome open.  An instruction that is wrong in two   *)
(* ways ends in one of the two, and it had its arguments if it got so far. *)

TargetName(i) == IF i.type = "SPECIAL" /\ i.id = "RETCB" THEN "EOCB1" ELSE i.name

(* Jumps that write code: all but the one that is never taken.             *)
WritesJump(i) == i.type = "JMP" /\ i.id # "NVR"
IsIndirect(i) == i.mod # {}
IsReturn(i) == i.type = "SPECIAL" /\ i.id = "RETF"

(* Instructions with a 32 bit distance that execOutPutOffsSym corrects.    *)
IsNear(i) ==
  \/ WritesJump(i) /\ ~ IsIndirect(i)
  \/ i.type = "SPECIAL" /\ ~ IsReturn(i)

NamesSymbol(i) ==
  \/ i.type \in {"LOAD", "STORE"} /\ i.name # NoName
  \/ WritesJump(i)
  \/ i.type = "SPECIAL" /\ ~ IsReturn(i)

(* Slots a block leaves behind below the values its end hands on.          *)
LeftoverWithResults(i) == Own
Leftover(i) == Own - i.argc

WritesCode(i) ==
  \/ i.type \in {"GENERIC", "CONST", "LCONST", "LOAD", "STORE", "SPECIAL"}
  \/ WritesJump(i)
  \/ i.type = "TABLE" /\ i.id = "STACK" /\ i.num > 0
  \/ i.type = "STRUCT" /\ (i.argc > 0 \/ i.retc > 0 \/ i.id \in {"ADDSF", "RMSF"})
  \/ i.type = "STRUCT" /\ i.id \in StructEnds /\ Leftover(i) > 0

ContextBegunBy ==
  [ADDSF |-> "SF", NCB_B |-> "CB", RCB_B |-> "CB", SECT_B |-> "SECT", NONLIN_B |-> "NONLIN"]
ContextEndedBy ==
  [RMSF |-> "SF", CB_E |-> "CB", SECT_E |-> "SECT", NONLIN_E |-> "NONLIN"]
EndsTop(i) == Top.type = ContextEndedBy[i.id]

(* assert() in addArgRetEncode, addArgRetDecode and for RETCB.             *)
Aborts(i) ==
  \/ i.type = "STRUCT" /\ ~ (RegsSuffice(i.argc, FALSE) /\ RegsSuffice(i.retc, FALSE))
  \/ /\ i.type = "SPECIAL" /\ i.id = "CALL"
     /\ ~ (RegsSuffice(i.argc, FALSE) /\ RegsSuffice(i.retc, TRUE))
  \/ i.type = "SPECIAL" /\ i.id # "CALL" /\ ~ RegsSuffice(i.argc, TRUE)
  \/ i.type = "SPECIAL" /\ i.id = "RETCB" /\ Leftover(i) # 0

(* Checks that return false.                                               *)
Refused(i) ==
  \/ WritesCode(i) /\ Here = NoSect
  \/ NamesSymbol(i) /\ ~ IsKnown(TargetName(i))
  \/ i.type = "TABLE" /\ i.id = "STACK" /\ Top.type \notin {"CB", "SF"}
  \/ i.type = "STRUCT" /\ i.id \in StructEnds /\ ~ EndsTop(i)
  \/ i.type = "STRUCT" /\ i.id = "SECT_B" /\ NamedSects(i.sect) = {}
  \/ i.type = "TABLE" /\ i.id = "SECT" /\ (i.data < 8 \/ i.data - 8 > i.num)
  \/ i.type = "TABLE" /\ i.id = "STACK" /\ ~ CanMoveRsp(i.num)
  \/ i.type = "STRUCT" /\ i.id \in StructEnds /\ ~ CanMoveRsp(Leftover(i))

(* memadd() is the library's: it may report an overflow when the negative  *)
(* distance of a near jump is added to a number at least as large.         *)
MayOverflow(i) ==
  /\ IsNear(i) /\ Here # NoSect /\ IsKnown(TargetName(i))
  /\ LET data == Lookup(TargetName(i))
     IN  data.kind # "proto" /\ (data.val < 0 \/ data.val > sects[Here].size)

(* Null and out-of-range pointers: a symbol or a section that is not       *)
(* there, and patching the bytes of a section that holds none.             *)
ReadsNowhere(i) ==
  \/ i.type = "LCONST" /\ ~ IsKnown(i.name)
  \/ i.type = "TABLE" /\ i.id = "HERE" /\ Here = NoSect
  \/ i.type = "TABLE" /\ i.id = "PRE" /\ sects = <<>>
  \/ i.type = "TABLE" /\ i.id = "SECT" /\ FreeSects(i.sect) = {}
  \/ i.type = "STRUCT" /\ i.id = "SECT_E" /\ Here = NoSect
  \/ i.type = "STRUCT" /\ i.id = "SECT_B" /\ sects = <<>>
  \/ (WritesJump(i) \/ IsNear(i)) /\ Here # NoSect /\ ~ Initialised(Here)

(* Accesses next to an array that often do no harm: the header in front of *)
(* sects is read for a prototype outside every section, and the capacity   *)
(* of a section without data is stored one element behind sects.           *)
StraysNearby(i) ==
  \/ i.type = "TABLE" /\ i.id = "PRE" /\ Here = NoSect
  \/ i.type = "TABLE" /\ i.id = "ADDSECT" /\ ~ i.attr.init
  \/ /\ i.type = "STRUCT" /\ i.id = "SECT_B"
     /\ FreeSects(i.sect) = {} /\ NamedSects(i.sect) # {}
     /\ ~ Initialised(Min(NamedSects(i.sect)))

Accepts(i) == EnoughArgs(i) /\ ~ Aborts(i) /\ ~ Refused(i) /\ ~ ReadsNowhere(i)

-----------------------------------------------------------------------------
(* One action for each kind of instruction.                                *)

Emit(size) == IF size = 0 THEN UNCHANGED sects ELSE execOutPutData(size)

(* A plain instruction: size bytes of code, and no block begins or ends.   *)
Plain(i, size) == Emit(size) /\ Account(i) /\ UNCHANGED lvl

Operand(i, off) ==
  IF i.name = NoName THEN UNCHANGED refVars ELSE execOutPutSym(i.name, off, 4, FALSE)

translateGenericInstr(i) ==
  /\ i.type = "GENERIC"
  /\ Plain(i, INSTR(ginstrBinCodes[i.id].code))
  /\ UNCHANGED <<symVars, refVars>>

translateConstInstr(i) ==
  /\ i.type = "CONST"
  /\ Plain(i, translateConstSize(i.num))
  /\ UNCHANGED <<symVars, refVars>>

(* A label is pushed as an address to be relocated, any other symbol as    *)
(* the number its entry holds, which for a prototype is its own number.    *)
translateSymConstInstr(i) ==
  /\ i.type = "LCONST"
  /\ LET data == Lookup(i.name)
     IN  \/ /\ data.kind = "label"
            /\ Plain(i, AddressConstSize)
            /\ execOutPutSym(i.name, 1, 8, FALSE)
         \/ /\ data.kind # "label"
            /\ Plain(i, translateConstSize(data.val))
            /\ UNCHANGED refVars
  /\ UNCHANGED symVars

translateLoadInstr(i) ==
  /\ i.type = "LOAD"
  /\ Plain(i, translateMemSize(i.mod) + 1)
  /\ Operand(i, translateMemOffset(i.mod))
  /\ UNCHANGED symVars

translateStoreInstr(i) ==
  /\ i.type = "STORE"
  /\ Plain(i, 1 + translateMemSize(i.mod))
  /\ Operand(i, 1 + translateMemOffset(i.mod))
  /\ UNCHANGED symVars

translateNeverJump(i) ==
  /\ i.type = "JMP" /\ i.id = "NVR"
  /\ Plain(i, 0)
  /\ UNCHANGED <<symVars, refVars>>

translateNearJump(i) ==
  /\ WritesJump(i) /\ ~ IsIndirect(i)
  /\ Plain(i, longJmpBinCodes(i.id) + 4)
  /\ execOutPutSym(i.name, longJmpBinCodes(i.id), 4, TRUE)
  /\ UNCHANGED symVars

(* A short jump of the inverted condition skips the indirect one.          *)
translateIndirectJump(i) ==
  /\ WritesJump(i) /\ IsIndirect(i)
  /\ LET skip == shortJmpBinCodes(invertFlagCondition(i.id)) + 1
     IN  /\ Plain(i, skip + translateMemSize(i.mod))
         /\ execOutPutSym(i.name, skip + translateMemOffset(i.mod), 4, FALSE)
  /\ UNCHANGED symVars

translateCall(i) ==
  /\ i.type = "SPECIAL" /\ i.id = "CALL"
  /\ LET args == addArgRetEncode(i.argc, FALSE)
     IN  /\ Plain(i, args + 5 + addArgRetDecode(i.retc, TRUE))
         /\ execOutPutSym(i.name, args + 1, 4, TRUE)
  /\ UNCHANGED symVars

translateRet(i) ==
  /\ i.type = "SPECIAL" /\ i.id = "RETF"
  /\ Plain(i, addArgRetEncode(i.argc, TRUE) + 2)
  /\ UNCHANGED <<symVars, refVars>>

translateRetCB(i) ==
  /\ i.type = "SPECIAL" /\ i.id = "RETCB"
  /\ LET args == addArgRetEncode(i.argc, TRUE)
     IN  /\ Plain(i, args + 5)
         /\ execOutPutSym(TargetName(i), args + 1, 4, TRUE)
  /\ UNCHANGED symVars

(* Room for a variable: the code that moves the stack pointer comes at     *)
(* once, and the symbol is the distance of the last of its slots from the  *)
(* frame's base.                                                           *)
tableStack(i) ==
  /\ i.type = "TABLE" /\ i.id = "STACK"
  /\ Emit(addRspMoveSize(i.num))
  /\ ctx' = [ctx EXCEPT ![Depth].curr = @ + i.num]
  /\ execOutDefSym(i.name, SymData("stack", -8 * (Top.curr + i.num), NoSect))
  /\ UNCHANGED <<lvl, refVars>>

tableSimple(i) ==
  /\ i.type = "TABLE" /\ i.id = "SIMPLE"
  /\ execOutDefSym(i.name, SymData("const", i.num, NoSect))
  /\ UNCHANGED <<blkVars, sects, refVars>>

tableHere(i) ==
  /\ i.type = "TABLE" /\ i.id = "HERE"
  /\ execOutDefSym(i.name, SymData("label", sects[Here].size, Here))
  /\ UNCHANGED <<blkVars, sects, refVars>>

tablePre(i) ==
  /\ i.type = "TABLE" /\ i.id = "PRE"
  /\ DeclareProto(i.name)
  /\ UNCHANGED <<blkVars, sects, refVars>>

tableAddSect(i) ==
  /\ i.type = "TABLE" /\ i.id = "ADDSECT"
  /\ sects' \in execoutAddSection(i.sect, i.attr)
  /\ UNCHANGED <<blkVars, symVars, refVars>>

(* emitTableSectVar leaves the eight bytes of the size out of the header:  *)
(* as many initial bytes are lost, and the next header is read too early.  *)
tableSect(i) ==
  /\ i.type = "TABLE" /\ i.id = "SECT"
  /\ LET s == Max(FreeSects(i.sect))
     IN  /\ syms' = Append(syms, Symbol(i.name, SymData("label", sects[s].size, s)))
         /\ sects' = [sects EXCEPT ![s].size = @ + i.num]
  /\ UNCHANGED <<blkVars, preData, defs, refVars>>

(* The code a block boundary gets: arguments go to registers, what is left *)
(* over is dropped, the frame changes, and results come from registers.    *)
EncodeSize(i) == IF i.argc = 0 THEN 0 ELSE addArgRetEncode(i.argc, FALSE)
DecodeSize(i) == addArgRetDecode(i.retc, FALSE)
FrameSize(i) == CASE i.id = "ADDSF" -> 4 [] i.id = "RMSF" -> 1 [] OTHER -> 0

(* The structural instruction that is ignored still takes and gives values.*)
ignored(i) ==
  /\ i.type = "STRUCT" /\ i.id = "NULL"
  /\ Plain(i, EncodeSize(i) + DecodeSize(i))
  /\ UNCHANGED <<symVars, refVars>>

(* Code and values written before a block belong to the block around it.   *)
FirstSlotBeforeArgs(i) == IF i.id = "ADDSF" THEN 0 ELSE Top.curr
FirstSlot(i) == IF i.id = "ADDSF" THEN 0 ELSE Top.curr - i.argc
beginBlock(i) ==
  LET beg == FirstSlot(i)
  IN  /\ i.type = "STRUCT" /\ i.id \in StructBegins \ {"SECT_B"}
      /\ Emit(EncodeSize(i) + FrameSize(i) + DecodeSize(i))
      /\ ctx' = Append([ctx EXCEPT ![Depth].curr = @ - i.argc],
                       Context(ContextBegunBy[i.id], Here, beg, beg + i.retc))
      /\ lvl' = lvl + 1
      /\ UNCHANGED <<symVars, refVars>>

beginSect(i) ==
  /\ i.type = "STRUCT" /\ i.id = "SECT_B"
  /\ \E found \in execOutFindSect(i.sect) :
       /\ sects' = [found.sects EXCEPT ![found.sect].used = TRUE]
       /\ ctx' = Append(ctx, Context("SECT", found.sect, 0, 0))
  /\ lvl' = lvl + 1
  /\ UNCHANGED <<symVars, refVars>>

Outer(seq) == SubSeq(seq, 1, Len(seq) - 1)

(* Leaving a block: the results join the values of the block around it.    *)
closeBlock(i) ==
  /\ ctx' = [Outer(ctx) EXCEPT ![Depth - 1].curr = @ + i.retc]
  /\ lvl' = lvl - 1
  /\ cmpoutSymTableDescendLvl(lvl)
  /\ UNCHANGED <<preData, defs, refVars>>

endSize(i) ==
  EncodeSize(i) + addRspMoveSize(Leftover(i)) + FrameSize(i) + DecodeSize(i)

endBlock(i) ==
  /\ i.type = "STRUCT" /\ i.id \in StructEnds \ {"SECT_E"}
  /\ Emit(endSize(i))
  /\ closeBlock(i)

(* All code of a section's end is written into that section.               *)
endSect(i) ==
  /\ i.type = "STRUCT" /\ i.id = "SECT_E"
  /\ sects' = [sects EXCEPT ![Here].size = @ + endSize(i), ![Here].used = FALSE]
  /\ closeBlock(i)

Translates(i) ==
  \/ translateGenericInstr(i) \/ translateConstInstr(i) \/ translateSymConstInstr(i)
  \/ translateLoadInstr(i) \/ translateStoreInstr(i)
  \/ translateNeverJump(i) \/ translateNearJump(i) \/ translateIndirectJump(i)
  \/ translateCall(i) \/ translateRet(i) \/ translateRetCB(i)
  \/ tableStack(i) \/ tableSimple(i) \/ tableHere(i) \/ tablePre(i) \/ tableAddSect(i)
  \/ ignored(i) \/ beginBlock(i) \/ beginSect(i)
  \/ endBlock(i) \/ endSect(i)

-----------------------------------------------------------------------------
(* The loop over the stream.                                               *)

Offered ==
  IF ip < Len(Prefix) THEN {Prefix[ip + 1]}
  ELSE IF ip < MaxInstrs THEN Instructions ELSE {}

outVars == <<blkVars, sects, symVars, refVars>>

(* Bound of the model: no block owns more than MaxDepth slots.             *)
WithinDepth == \A k \in DOMAIN ctx : ctx[k].curr - ctx[k].beg <= MaxDepth

translateInstruction(i) ==
  /\ Accepts(i)
  /\ Translates(i)
  /\ WithinDepth'
  /\ ip' = ip + 1
  /\ UNCHANGED status

misread(i) ==
  /\ Accepts(i)
  /\ tableSect(i)
  /\ ip' = ip + 1
  /\ status' = "misaligned"

(* The caller only destroys an output whose translation failed, so what an *)
(* instruction wrote before it failed is never seen.                       *)
reject(i) ==
  /\ ~ EnoughArgs(i) \/ Refused(i) \/ (Accepts(i) /\ MayOverflow(i))
  /\ status' = "failed"
  /\ UNCHANGED <<ip, outVars>>

abort(i) ==
  /\ EnoughArgs(i) /\ Aborts(i)
  /\ status' = "aborted"
  /\ UNCHANGED <<ip, outVars>>

derail(i) ==
  /\ EnoughArgs(i) /\ (ReadsNowhere(i) \/ StraysNearby(i))
  /\ status' = "undefined"
  /\ UNCHANGED <<ip, outVars>>

(* The stream may end anywhere, with blocks still open; an empty one is    *)
(* read as an instruction of no type.                                      *)
endOfStream ==
  /\ status' = IF ip = 0 THEN "failed" ELSE "translated"
  /\ UNCHANGED <<ip, outVars>>

Next ==
  \/ /\ status = "running"
     /\ \/ \E i \in Offered :
             translateInstruction(i) \/ misread(i) \/ reject(i) \/ abort(i) \/ derail(i)
        \/ endOfStream
  \/ status # "running" /\ UNCHANGED vars

Spec == Init /\ [][Next]_vars

-----------------------------------------------------------------------------
(* Types.                                                                  *)

SymDataType == [kind : SymKinds, val : Int, sect : Nat]
RelocationEntry == [sect : Nat, off : Nat, to : Nat, size : Nat, rel : BOOLEAN]

(* Every variable has the type of its declaration in exec_output.h.        *)
TypeOK ==
  /\ status \in Statuses
  /\ ip \in Nat
  /\ ctx \in Seq([type : ContextTypes, sect : Nat, beg : Nat, curr : Nat]) /\ ctx # <<>>
  /\ lvl \in Nat
  /\ sects \in Seq([name : STRING, attr : BinSectionAttr, used : BOOLEAN, size : Nat])
  /\ syms \in Seq([name : STRING, lvl : Nat, data : SymDataType])
  /\ preData \in Seq(SymDataType)
  /\ defs \in Seq(SymDataType)
  /\ preTbl \in Seq(RelocationEntry)
  /\ relt \in Seq(RelocationEntry)
  /\ fields \in SUBSET [place : RelocationEntry, slot : Nat, data : SymDataType]

-----------------------------------------------------------------------------
(* Properties.                                                             *)

(* The account of exec_output.cpp keeps the blocks of the language apart:  *)
(* every translation step is a step of nested blocks, or none.             *)
(* SubSeq makes a tuple of it, which TLC compares more reliably.           *)
BlockOf(context) == [kind |-> context.type, own |-> context.curr - context.beg]
Blocks == SubSeq([k \in DOMAIN ctx |-> BlockOf(ctx[k])], 1, Len(ctx))
NB == INSTANCE NestedBlocks WITH blocks <- Blocks, Counts <- 0 .. MaxDepth
KeepsBlocksApart == NB!Spec

(* The contexts that share a frame with the one around them continue its   *)
(* account, and the others start a new one.                                *)
BlocksStack ==
  /\ lvl = Depth - 1
  /\ \A k \in DOMAIN ctx :
       /\ 0 <= ctx[k].beg /\ ctx[k].beg <= ctx[k].curr
       /\ ctx[k].type = "ROOT" <=> k = 1
       /\ k > 1 => ctx[k].beg = IF ctx[k].type \in {"CB", "NONLIN"} THEN ctx[k - 1].curr ELSE 0

(* No two open SECT blocks write to one section, and each of theirs is     *)
(* marked in_use: execOutFindSect never hands out a section twice.         *)
OpenSects == {k \in DOMAIN ctx : ctx[k].type = "SECT"}
OpenSectionsExclusive ==
  /\ \A j, k \in OpenSects : ctx[j].sect = ctx[k].sect => j = k
  /\ \A k \in OpenSects : ctx[k].sect \in DOMAIN sects /\ sects[ctx[k].sect].used

(* While another section is switched to, the code of a section that is     *)
(* still open stays as it is: its next instruction follows its last one.   *)
SuspendedSectionsFrozen ==
  [][\A k \in OpenSects :
       ctx[k].sect # Here => sects'[ctx[k].sect].size = sects[ctx[k].sect].size]_vars

(* Symbols go with the block they were declared in: the table is ordered   *)
(* by level and holds none of a closed block, so that dropping entries     *)
(* from its end is enough at a block's end.                                *)
ScopesNest ==
  /\ \A p \in DOMAIN syms : syms[p].lvl <= lvl
  /\ \A p, q \in DOMAIN syms : p < q => syms[p].lvl <= syms[q].lvl

(* A name that is visible stays visible, with the meaning it has, until    *)
(* the block that declared it ends; only a prototype takes on a meaning.   *)
VisibleSymbolsKept ==
  [][\A p \in DOMAIN syms :
       syms[p].lvl <= lvl' =>
         /\ p \in DOMAIN syms'
         /\ syms'[p].name = syms[p].name /\ syms'[p].lvl = syms[p].lvl
         /\ syms[p].data.kind # "proto" => syms'[p] = syms[p]]_vars

(* Open prototypes never share a number, and every recorded reference      *)
(* names one that was given out.  This keeps the references of two open    *)
(* prototypes apart; that a definition reaches those of its own is more,   *)
(* and PrototypesResolve says it.                                          *)
PrototypesNumbered ==
  /\ Len(preData) = Len(defs) + 1
  /\ \A p \in DOMAIN syms :
       syms[p].data.kind = "proto" =>
         /\ syms[p].data.val \in DOMAIN defs
         /\ defs[syms[p].data.val] = NoData
         /\ \A q \in DOMAIN syms :
              syms[q].data.kind = "proto" /\ syms[q].data.val = syms[p].data.val => p = q
  /\ \A e \in DOMAIN preTbl : preTbl[e].to \in DOMAIN defs

(* Operand fields, where execOutPutSym records them, lie inside the code   *)
(* that was written, and no two of them overlap: patching one never        *)
(* damages another.                                                        *)
Inside(place) == place.sect \in DOMAIN sects /\ place.off + place.size <= sects[place.sect].size
Apart(a, b) == a.sect # b.sect \/ a.off + a.size <= b.off \/ b.off + b.size <= a.off
FieldsApart ==
  /\ \A f \in fields : Inside(f.place)
  /\ \A f, g \in fields : f # g => Apart(f.place, g.place)

(* What a field needs from the later passes is exactly what the tables     *)
(* hold: a field of a prototype is in sym_pre_tbl, one that depends on     *)
(* where a section is loaded is in relt, and nothing else is.              *)
Entry(place, to) == [place EXCEPT !.to = to]
EntriesOf(table) == {table[e] : e \in DOMAIN table}
DependsOnLoading(f) ==
  f.data.kind = "label" /\ (f.place.rel => f.data.sect # f.place.sect)
ReferencesAccounted ==
  /\ EntriesOf(preTbl) = {Entry(f.place, f.slot) : f \in {g \in fields : g.slot # 0}}
  /\ EntriesOf(relt) =
       {Entry(f.place, f.data.sect) : f \in {g \in fields : DependsOnLoading(g)}}

(* A label is an address inside the code or data written so far.           *)
LabelsInside ==
  \A p \in DOMAIN syms :
    syms[p].data.kind = "label" =>
      /\ syms[p].data.sect \in DOMAIN sects
      /\ syms[p].data.val \in 0 .. sects[syms[p].data.sect].size

-----------------------------------------------------------------------------
(* What comments and the readme say of the language, and the code keeps    *)
(* for the streams of the back end only (Compiler), not for all.           *)

(* Variables "block pop-ing past their location": the block a variable     *)
(* belongs to keeps the variable's slots for as long as its name is known. *)
StackVarsStayAllocated ==
  \A p \in DOMAIN syms :
    syms[p].data.kind = "stack" => -syms[p].data.val <= 8 * ctx[syms[p].lvl + 1].curr

(* A reference made through a prototype gets the prototype's definition.   *)
PrototypesResolve ==
  \A e \in DOMAIN preTbl :
    LET slot == preTbl[e].to
    IN  defs[slot] # NoData => preData[slot + 1] = defs[slot]
=============================================================================
