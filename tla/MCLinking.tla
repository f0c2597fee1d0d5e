----------------------------- MODULE MCLinking -----------------------------
(***************************************************************************)
(* Instruction streams for model checking Linking.                         *)
(***************************************************************************)
EXTENDS Linking

Main == emitAddSection("main", BIN_SECTION_PRESET_MAIN)
InMain == <<Main, emitSetSection("main")>>
End == emitStructuralInstruction("SECT_E", 0, 0)

(* References of every size and sense, forwards and backwards, inside the  *)
(* entry section, from it to another one, and from another entry section.  *)
LinkInstrs ==
  {emitTablePrototype("a"), emitTableLbl("a"), emitTableConstant("a", 9),
   emitCallInstruction(0, 0, "a"), emitMemInstruction_l({}, FALSE, "a"),
   emitConstInstruction_l("a"), emitSetSection("main"), End,
   emitAddSection("funcs", BIN_SECTION_PRESET_FUNC), emitSetSection("funcs"),
   emitSetSection("bss"), emitAddSection("bss", NoAttr), Main}

NoMore == {}

(* Two programs in one output, each with an entry section of its own that  *)
(* calls a function of its own, defined before the call.                   *)
Program ==
  InMain \o <<emitTablePrototype("f"), emitSetSection("funcs"), emitTableLbl("f"), End,
              emitCallInstruction(0, 0, "f"), End>>
TwoPrograms ==
  <<emitAddSection("funcs", BIN_SECTION_PRESET_FUNC)>> \o Program \o Program
=============================================================================
