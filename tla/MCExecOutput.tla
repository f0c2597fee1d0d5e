---------------------------- MODULE MCExecOutput ----------------------------
(***************************************************************************)
(* Instruction streams for model checking ExecOutput: what a stream starts *)
(* with, and the alphabet its remaining instructions are taken from.       *)
(***************************************************************************)
EXTENDS ExecOutput

Main == emitAddSection("main", BIN_SECTION_PRESET_MAIN)
Funcs == emitAddSection("funcs", BIN_SECTION_PRESET_FUNC)
Zeroed == emitAddSection("bss", NoAttr)

Empty == <<>>
InMain == <<Main, emitSetSection("main")>>
TwoSections == <<Main, Funcs>>
InMainOfTwo == TwoSections \o <<emitSetSection("main")>>

Begin(id) == emitStructuralInstruction(id, 0, 0)
End(id) == emitStructuralInstruction(id, 0, 0)
Op(id) == emitGenericInstruction(id)
Push == emitConstInstruction(5)
Jump(cond, name) == emitJumpInstruction_l(cond, {}, name)

(* Two names, declared, defined and used in nested blocks, and sections    *)
(* that are switched to, into themselves too, from any block.              *)
TableInstrs ==
  {emitTablePrototype("a"), emitTablePrototype("b"), emitTableLbl("a"), emitTableLbl("b"),
   emitTableConstant("a", 7), Jump("ALW", "a"), emitCallInstruction(0, 0, "b"),
   emitMemInstruction_l({}, FALSE, "a"), Push, Funcs,
   emitSetSection("main"), emitSetSection("funcs"), End("SECT_E"),
   Begin("NCB_B"), End("CB_E"), Begin("ADDSF"), End("RMSF")}

(* One instruction of every kind and form, the unusual ones among them.    *)
AllInstrs ==
  {Op("BAD"), Op("END"), Op("POP"), Op("CMP"), Push, emitConstInstruction(-1),
   emitConstInstruction_l("a"), emitMemInstruction_l({"bp"}, TRUE, "a"),
   emitMemInstruction_l({"arg"}, FALSE, "a"), emitMemInstruction({}, FALSE, 16),
   Jump("NVR", "a"), Jump("EQ", "a"), emitJumpInstruction_l("ALW", {"arg"}, "a"),
   emitJumpInstruction_l("GT", {"bp"}, "a"),
   emitCallInstruction(1, 1, "a"), emitCallInstruction(0, 8, "a"),
   emitRetInstruction(1, TRUE), emitRetInstruction(0, FALSE), emitRetInstruction(1, FALSE),
   emitTableStackVar("a", 1), emitTableStackVar("a", 0), emitTableConstant("a", 9),
   emitTablePrototype("a"), emitTableLbl("a"), emitTableLbl("EOCB1"),
   emitTableSectVar("a", 8, "main", 8), emitTableSectVar("a", 8, "data", 4),
   Main, Zeroed, emitSetSection("main"), emitSetSection("bss"), End("SECT_E"),
   emitStructuralInstruction("ADDSF", 0, 1), End("RMSF"),
   emitStructuralInstruction("RCB_B", 0, 7), Begin("RCB_B"), End("CB_E"),
   Begin("NONLIN_B"), End("NONLIN_E"), emitStructuralInstruction("NULL", 1, 1)}
=============================================================================
