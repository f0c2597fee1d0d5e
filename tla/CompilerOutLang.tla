--------------------------- MODULE CompilerOutLang ---------------------------
(***************************************************************************)
(* The intermediate language "compiler out lang": what an instruction is   *)
(* once the emit functions of emmit.cpp have written it.  An instruction   *)
(* is its header (type, argc, retc) and the fields that follow the header. *)
(* Names are members of small sets, numbers stand for themselves; the byte *)
(* layout is left out here.                                                *)
(***************************************************************************)
EXTENDS Integers

NoName == "-"

(* Attributes of a section that decide how translation treats it.  The     *)
(* access rights are used by the loaders only.                             *)
BinSectionAttr == [init : BOOLEAN, entry : BOOLEAN]
NoAttr == [init |-> FALSE, entry |-> FALSE]

BIN_SECTION_PRESET_MAIN == [init |-> TRUE, entry |-> TRUE]
BIN_SECTION_PRESET_FUNC == [init |-> TRUE, entry |-> FALSE]
BIN_SECTION_PRESET_DATA == [init |-> TRUE, entry |-> FALSE]

(* Arguments taken and values returned by each generic instruction.        *)
g_instr_info ==
  [BAD |-> [argc |-> 0, retc |-> 0],  NOP |-> [argc |-> 0, retc |-> 0],
   ADD |-> [argc |-> 2, retc |-> 1],  SUB |-> [argc |-> 2, retc |-> 1],
   MUL |-> [argc |-> 2, retc |-> 1],  DIV |-> [argc |-> 2, retc |-> 1],
   END |-> [argc |-> 1, retc |-> 0],  DUP |-> [argc |-> 1, retc |-> 2],
   POP |-> [argc |-> 1, retc |-> 0],  INP |-> [argc |-> 0, retc |-> 1],
   OUT |-> [argc |-> 1, retc |-> 0],  TRAP |-> [argc |-> 0, retc |-> 0],
   CMP |-> [argc |-> 2, retc |-> 0],  TST |-> [argc |-> 2, retc |-> 0]]

GenericInstrs == {"BAD", "NOP", "ADD", "SUB", "MUL", "DIV", "END", "DUP",
                  "POP", "INP", "OUT", "TRAP", "CMP", "TST"}

FlagConditions == {"NVR", "ALW", "EQ", "NE", "GT", "LE", "GE", "LT"}

(* jmp_type ^ 1 on the enumeration order NVR ALW EQ NE GT LE GE LT.        *)
invertFlagCondition(cond) ==
  [NVR |-> "ALW", ALW |-> "NVR", EQ |-> "NE", NE |-> "EQ",
   GT |-> "LE", LE |-> "GT", GE |-> "LT", LT |-> "GE"][cond]

StructBegins == {"SECT_B", "ADDSF", "NCB_B", "RCB_B", "NONLIN_B"}
StructEnds   == {"SECT_E", "RMSF", "CB_E", "NONLIN_E"}

InstrTypes == {"GENERIC", "CONST", "LCONST", "LOAD", "STORE", "JMP",
               "TABLE", "STRUCT", "SPECIAL"}

(* The parts of CompilerMemArgAttr that decide what code is generated.     *)
MemMods == SUBSET {"bp", "arg"}
getMemArgArgc(mod) == IF "arg" \in mod THEN 1 ELSE 0

Instr(type, id, argc, retc) ==
  [type |-> type, id |-> id, argc |-> argc, retc |-> retc, name |-> NoName,
   num |-> 0, mod |-> {}, sect |-> NoName, attr |-> NoAttr, data |-> 0]

emitGenericInstruction(op) ==
  Instr("GENERIC", op, g_instr_info[op].argc, g_instr_info[op].retc)

emitJumpInstruction_l(cond, mod, lbl) ==
  [Instr("JMP", cond, getMemArgArgc(mod), 0) EXCEPT !.mod = mod, !.name = lbl]

emitMemInstruction_l(mod, store, lbl) ==
  [Instr(IF store THEN "STORE" ELSE "LOAD", "-",
         getMemArgArgc(mod) + (IF store THEN 1 ELSE 0),
         IF store THEN 0 ELSE 1) EXCEPT !.mod = mod, !.name = lbl]

emitMemInstruction(mod, store, addr) ==
  [emitMemInstruction_l(mod, store, NoName) EXCEPT !.num = addr]

emitConstInstruction_l(lbl) == [Instr("LCONST", "-", 0, 1) EXCEPT !.name = lbl]
emitConstInstruction(val)   == [Instr("CONST", "-", 0, 1) EXCEPT !.num = val]

emitStructuralInstruction(id, arg, ret) == Instr("STRUCT", id, arg, ret)
emitSetSection(name) == [Instr("STRUCT", "SECT_B", 0, 0) EXCEPT !.sect = name]

emitTableSomething(id, name) == [Instr("TABLE", id, 0, 0) EXCEPT !.name = name]
emitTableConstant(name, val) == [emitTableSomething("SIMPLE", name) EXCEPT !.num = val]
emitTableStackVar(name, vsize) == [emitTableSomething("STACK", name) EXCEPT !.num = vsize]
emitTablePrototype(name) == emitTableSomething("PRE", name)
emitTableLbl(name) == emitTableSomething("HERE", name)
emitTableSectVar(name, vsize, sect, set_size) ==
  [emitTableSomething("SECT", name) EXCEPT !.num = vsize, !.sect = sect, !.data = set_size]
emitAddSection(name, attr) ==
  [Instr("TABLE", "ADDSECT", 0, 0) EXCEPT !.sect = name, !.attr = attr]

emitRetInstruction(retc, retf) ==
  Instr("SPECIAL", IF retf THEN "RETF" ELSE "RETCB", retc, 0)
emitCallInstruction(argc, retc, name) ==
  [Instr("SPECIAL", "CALL", argc, retc) EXCEPT !.name = name]

(* Every instruction header the emit functions can produce.                *)
IsInstr(i) ==
  /\ i \in [type : InstrTypes, id : STRING, argc : Nat, retc : Nat,
            name : STRING, num : Int, mod : MemMods, sect : STRING,
            attr : BinSectionAttr, data : Nat]
  /\ i.type = "GENERIC" => i.id \in GenericInstrs /\ i = emitGenericInstruction(i.id)
  /\ i.type \in {"CONST", "LCONST"} => i.argc = 0 /\ i.retc = 1
  /\ i.type = "LOAD" => i.argc = getMemArgArgc(i.mod) /\ i.retc = 1
  /\ i.type = "STORE" => i.argc = getMemArgArgc(i.mod) + 1 /\ i.retc = 0
  /\ i.type = "JMP" => /\ i.id \in FlagConditions
                       /\ i.argc = getMemArgArgc(i.mod) /\ i.retc = 0
  /\ i.type = "TABLE" => /\ i.id \in {"SIMPLE", "PRE", "HERE", "STACK", "SECT", "ADDSECT"}
                         /\ i.argc = 0 /\ i.retc = 0
                         /\ i.id \in {"STACK", "SECT"} => i.num \in Nat
  /\ i.type = "STRUCT" => /\ i.id \in {"NULL"} \cup StructBegins \cup StructEnds
                          /\ i.id = "SECT_B" => i.argc = 0 /\ i.retc = 0
  /\ i.type = "SPECIAL" => /\ i.id \in {"RETCB", "RETF", "CALL"}
                           /\ i.id \in {"RETCB", "RETF"} => i.retc = 0
=============================================================================
