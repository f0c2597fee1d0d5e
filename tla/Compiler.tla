------------------------------ MODULE Compiler ------------------------------
(***************************************************************************)
(* The whole pipeline of main_tree.cpp: the back end compiles a tree, the  *)
(* generator translates what it emitted, and the two linking passes run on *)
(* the result.  What the back end reported is only printed: a program with *)
(* errors goes on like any other.                                          *)
(***************************************************************************)
EXTENDS Backend, Linking

VARIABLES
  lapses,   \* in what the back end went on as if nothing was wrong
  depths    \* the account at each jump and each label it may go to

pipeVars == <<backVars, vars, linkVars, lapses, depths>>

PipeInit ==
  /\ BackendInit
  /\ LinkInit
  /\ lapses = {}
  /\ depths = {}

-----------------------------------------------------------------------------
(* Compilation.  lapses is not in the program: it records that the back    *)
(* end took something that has no meaning and did not count it as an error *)
(* (its result stays 0), so that nothing keeps what it emitted from the    *)
(* generator.                                                              *)

(* A value was asked of what leaves none: of a statement, of a minus with  *)
(* one operand, or of a keyword that ignores how many values it is to take *)
(* and to leave.                                                           *)
HaveValues == MathOps \cup AssignOps \cup {"ENDL", "DEREF"}
AsksInVain ==
  \/ At("compileCode") /\ This.req > 0 /\ Node.type = "OP" /\ Node.data \notin HaveValues
  \/ At("compileCode") /\ This.req > 0 /\ Is(Node, "SUB") /\ IsNone(Node.left)
  \/ Reached("KVAR") /\ Node.data \in {"TEMP", "BAD"} /\ This.wr # This.req
  \/ Reached("KVAR") /\ Node.data = "NULL" /\ This.wr + This.req > 0

(* Stack frames that are open behind n instructions, and the one that      *)
(* stands for bp there.                                                    *)
Number(id, j, n) == Cardinality({m \in j .. n : emitted[m].type = "STRUCT" /\ emitted[m].id = id})
OpenFrames(n) ==
  {j \in 1 .. n : /\ emitted[j].id = "ADDSF"
                  /\ \A m \in j .. n : Number("RMSF", j, m) < Number("ADDSF", j, m)}
FrameAt(n) == Max(OpenFrames(n))
DeclaredAt(lbl) == Min({j \in DOMAIN emitted : emitted[j].type = "TABLE" /\ emitted[j].name = lbl})

(* A name is used outside of the function it is known in.  The tables keep *)
(* parameters, and what a body without a block defines, until the block    *)
(* around the function ends; and they show a function the variables around *)
(* it.                                                                     *)
NamesVariableOutside ==
  /\ Reached("VAR") /\ This.wr + This.req > 0 /\ Found(objVars, Node.data) # {}
  /\ FrameAt(DeclaredAt(objVars[Max(Found(objVars, Node.data))].lbl)) # FrameAt(Len(emitted))
NamesFunctionOutside ==
  /\ At("callFunction")
  /\ LET fits == programGetFunc(Node.data, This.cnt, This.req)
     IN  /\ fits # {}
         /\ FrameAt(DeclaredAt(objFuncs[Max(fits)].lbl)) \notin OpenFrames(Len(emitted))

(* A frame cannot take more values than there are registers.               *)
TooManyParameters == At("funcHeader") /\ ~ RegsSuffice(This.cnt, FALSE)

Lapses ==
  [value |-> AsksInVain, name |-> NamesVariableOutside \/ NamesFunctionOutside,
   registers |-> TooManyParameters, error |-> ret' < ret]

compileProgram ==
  /\ CompileNext
  /\ lapses' = lapses \cup {kind \in DOMAIN Lapses : Lapses[kind]}
  /\ UNCHANGED <<vars, linkVars, depths>>

-----------------------------------------------------------------------------
(* Translation of what was emitted.  depths is not in the program: it      *)
(* records how many values and variables the account has when the code     *)
(* gets to a jump or to a label.  It is the account of the headers: what   *)
(* the bytes of a jump do to a processor is left to Machine.               *)

Frames == {k \in DOMAIN ctx : ctx[k].type = "SF"}
CurrentFrame == Max({1} \cup Frames)

InstrAt(n) == emitted[n + 1]
Landmark(i) == WritesJump(i) \/ (i.type = "TABLE" /\ i.id = "HERE")
DepthHere(name) == [name |-> name, frame |-> CurrentFrame, slots |-> Top.curr]

Translating == compiling = "compiled" /\ status = "running"
MoreToTranslate == Translating /\ ip < Len(emitted)

translateEmitted ==
  /\ MoreToTranslate
  /\ LET i == InstrAt(ip)
     IN  \/ /\ translateInstruction(i)
            /\ depths' = IF Landmark(i) THEN depths \cup {DepthHere(i.name)} ELSE depths
         \/ (reject(i) \/ abort(i) \/ derail(i)) /\ UNCHANGED depths
  /\ UNCHANGED <<backVars, linkVars, lapses>>

endOfEmitted ==
  /\ Translating /\ ip = Len(emitted)
  /\ endOfStream
  /\ UNCHANGED <<backVars, linkVars, lapses, depths>>

link ==
  /\ \/ beginLinking
     \/ applyPreLbl \/ applyFails \/ applyDerails \/ applyEnds
     \/ mergeEntries \/ relocateEntry \/ endMerge \/ mergeDerails
  /\ UNCHANGED <<backVars, lapses, depths>>

Stopped == compiling \in {"undefined", "overflow"} \/ Finished

PipeStep == compileProgram \/ translateEmitted \/ endOfEmitted \/ link
PipeNext == PipeStep \/ (Stopped /\ UNCHANGED pipeVars)

(* One loop after the other in a single thread: as long as there is a step *)
(* to take, the program takes it.                                          *)
PipeSpec == PipeInit /\ [][PipeNext]_pipeVars /\ WF_pipeVars(PipeStep)

-----------------------------------------------------------------------------
(* Properties.                                                             *)

(* A program in which the back end found nothing wrong, and rightly so.    *)
Compiles == ret = 0 /\ lapses = {}

(* What the back end emits for such a program, the generator accepts       *)
(* instruction by instruction: values, blocks, names, registers and        *)
(* sections are as it needs them, and at the end everything is closed.     *)
(* What the library's memadd() may report is not claimed.                  *)
GeneratorAccepts ==
  Translating /\ Compiles =>
    /\ ip < Len(emitted) =>
         Accepts(InstrAt(ip)) /\ ~ ReadsNowhere(InstrAt(ip)) /\ ~ StraysNearby(InstrAt(ip))
    /\ ip = Len(emitted) => Depth = 1

(* A jump finds the account as its target does: whichever way the code     *)
(* gets to a label, it goes on with the same values and variables.         *)
JumpsAgreeOnDepth ==
  Compiles => \A d, e \in depths : d.name = e.name => d = e

(* Every access relative to bp finds a variable of the frame bp stands     *)
(* for, in slots that are still there.                                     *)
AccessesVariable(i) == "bp" \in i.mod /\ i.name # NoName
InFrame(p) == syms[p].lvl + 1 >= CurrentFrame
AccessesFindVariables ==
  MoreToTranslate /\ Compiles /\ AccessesVariable(InstrAt(ip)) =>
    \E p \in SymsNamed(InstrAt(ip).name) :
      /\ p = Max(SymsNamed(InstrAt(ip).name))
      /\ syms[p].data.kind = "stack"
      /\ InFrame(p)
      /\ -syms[p].data.val <= 8 * Top.curr

(* Variables keep their slots, and forward references their definitions,   *)
(* in what the back end makes of them: neither holds of other streams.     *)
CompiledVarsStay == Translating /\ Compiles => StackVarsStayAllocated
CompiledPrototypesResolve == ret = 0 => PrototypesResolve

(* Every operand field of a compiled program means, once it is loaded,     *)
(* what its symbol was defined as: calls between sections, jumps forwards  *)
(* and backwards, and variables.  The fields are those that are recorded.  *)
CompiledFieldsResolve == ret = 0 => LinkedFieldsResolve

(* A list of arguments, and a list of statements asked for a value, each   *)
(* compile themselves again before they are done.                          *)
CompilesItself ==
  compiling = "overflow" /\ (Is(Node, "COMMA") \/ Is(Node, "ENDL")) /\ This.req > 0

(* Every program whose branches and loops have bodies comes to an end:     *)
(* linked if it compiles, unless memadd() stops the generator, and stopped *)
(* somewhere otherwise, except for the two lists above.                    *)
StoppedByLibrary == status = "failed" /\ MayOverflow(InstrAt(ip))
ProgramsEnd ==
  <>(\/ phase = "linked"
     \/ Finished /\ (~ Compiles \/ StoppedByLibrary)
     \/ compiling = "undefined"
     \/ CompilesItself)

-----------------------------------------------------------------------------
(* What is written about every program, and does not hold where the back   *)
(* end lapses: compiler_out_lang.h says that variables block popping.      *)

(* A variable's slots stay while its name is known, in every program that  *)
(* compiles.                                                               *)
VariablesKeepSlots == Translating /\ ret = 0 => StackVarsStayAllocated
=============================================================================
