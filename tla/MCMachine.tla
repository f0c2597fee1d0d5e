----------------------------- MODULE MCMachine -----------------------------
(***************************************************************************)
(* Streams for model checking Machine.                                     *)
(***************************************************************************)
EXTENDS Machine

Main == emitAddSection("main", BIN_SECTION_PRESET_MAIN)
InMain == <<Main, emitSetSection("main"), emitTableLbl("f")>>
Begin(id) == emitStructuralInstruction(id, 0, 0)

(* Blocks of every kind with arguments and results, sections, and all code *)
(* that moves values and is read as it was written.                        *)
WholeInstrs ==
  {emitStructuralInstruction(id, arg, ret) :
     id \in {"ADDSF", "RMSF", "NCB_B", "CB_E", "NONLIN_B", "NONLIN_E"},
     arg \in 0 .. 1, ret \in 0 .. 1}
  \cup {emitConstInstruction(5), emitConstInstruction(200), emitTableStackVar("v", 2),
        emitMemInstruction({"bp"}, TRUE, 8), emitMemInstruction({"bp", "arg"}, TRUE, 8),
        emitMemInstruction({"bp", "arg"}, FALSE, 8), emitCallInstruction(1, 2, "f"),
        emitSetSection("main"), Begin("SECT_E")}

-----------------------------------------------------------------------------
(* A program on which the code departs from what is written about it.      *)

NoMore == {}

(* A sum is assigned to a variable.                                        *)
StoredSum ==
  InMain \o <<Begin("ADDSF"), emitTableStackVar("v", 1), emitConstInstruction(2),
              emitConstInstruction(3), emitGenericInstruction("ADD"),
              emitMemInstruction_l({"bp"}, TRUE, "v")>>
=============================================================================
