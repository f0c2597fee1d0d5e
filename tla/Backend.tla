------------------------------ MODULE Backend ------------------------------
(***************************************************************************)
(* The compiler back end: from a syntax tree to a stream of instructions   *)
(* (compile_backend.cpp), with the tables of visible names and the counter *)
(* of fresh labels (program_tables_v2.cpp).                                *)
(*                                                                         *)
(* The compile functions call each other along the tree.  todo is the call *)
(* stack: what is still to be done, innermost first, where a call is a     *)
(* frame of its own and the rest of a function behind a call it makes is   *)
(* another.  Every action takes the first frame and runs it up to the next *)
(* call.  Allocation never fails here, so that no function returns a       *)
(* negative number and every caller goes on behind an error.               *)
(*                                                                         *)
(* NoRemove, ReusedId, OffsetKept, WalksOn, OneTooMany, PopsAll, TestOnce, *)
(* Unforced and TestsFirst are slips the code could have made in the       *)
(* definition that follows each.                                           *)
(***************************************************************************)
EXTENDS CompilerOutLang, Sequences, FiniteSetsExt, TLC

CONSTANTS
  Programs,   \* the syntax trees to compile
  MaxCalls    \* bound of the model: frames on the program's stack

ASSUME BackendAssumption == MaxCalls \in Nat

VARIABLES
  todo,       \* the call stack
  emitted,    \* the CompilationOutput
  objVars,    \* objs->vars
  objFuncs,   \* objs->funcs
  pos,        \* pos: the next label's number, the level, the next variable's address
  ret,        \* what compileProgram returns
  compiling   \* how its call stands

tables == <<objVars, objFuncs, pos>>
backVars == <<todo, emitted, tables, ret, compiling>>

-----------------------------------------------------------------------------
(* Syntax trees.                                                           *)

NoNode == [type |-> "NONE"]
Leaf(type, data) == [type |-> type, data |-> data, left |-> NoNode, right |-> NoNode]
Func(name, args) == [Leaf("FUNC", name) EXCEPT !.right = args]
Op(op, left, right) == [type |-> "OP", data |-> op, left |-> left, right |-> right]

Is(node, op) == node.type = "OP" /\ node.data = op

Arithmetic == {"ADD", "SUB", "MUL", "DIV"}
AssignOps == {"ASSIGN", "EQARTL"}
Comparison == [CEQ |-> "EQ", CNE |-> "NE", CGT |-> "GT", CLE |-> "LE", CLT |-> "LT", CGE |-> "GE"]
IsLogical(node) == node.type = "OP" /\ node.data \in {"BOOL"} \cup DOMAIN Comparison
MathOps == Arithmetic \cup {"BOOL", "BAND"} \cup DOMAIN Comparison
BinaryOnly == MathOps \ {"SUB", "BOOL"}

-----------------------------------------------------------------------------
(* The call stack.                                                         *)

(* cnt, cond, id and old are the locals a frame keeps across a call.       *)
Frame(fn, node, req) ==
  [fn |-> fn, node |-> node, req |-> req, wr |-> 0, cnt |-> 0, cond |-> "NVR", id |-> 0,
   old |-> 0, instrs |-> <<>>]
Writes(fn, node, req, wr) == [Frame(fn, node, req) EXCEPT !.wr = wr]
Later(instrs) == [Frame("emit", NoNode, 0) EXCEPT !.instrs = instrs]

This == Head(todo)
Node == This.node
IsNone(node) == node.type = "NONE"
At(fn) ==
  /\ compiling = "running" /\ todo # <<>> /\ Len(todo) <= MaxCalls
  /\ This.fn = fn

Runs(calls, instrs) ==
  /\ todo' = calls
  /\ emitted' = emitted \o instrs
  /\ UNCHANGED compiling
Does(frames, instrs) == Runs(frames \o Tail(todo), instrs)
Goes(frames, instrs) == Does(frames, instrs) /\ UNCHANGED <<tables, ret>>
Fails(frames, instrs) == Does(frames, instrs) /\ ret' = 1 /\ UNCHANGED tables
Derails == compiling' = "undefined" /\ UNCHANGED <<todo, emitted, tables, ret>>

Times(n, instr) == [k \in 1 .. n |-> instr]
Gen(op) == emitGenericInstruction(op)
Begin(id) == emitStructuralInstruction(id, 0, 0)
Block(node, req) == Frame("compileCodeBlock", node, req)

-----------------------------------------------------------------------------
(* Tables of names.                                                        *)

Entry0(name, lbl, depth, addr, args) ==
  [name |-> name, lbl |-> lbl, depth |-> depth, addr |-> addr, args |-> args]
Base == Entry0("!0base!", "!", 0, 0, "NONE")
Marker == Entry0("!base!", "!", pos.lvl, pos.rbp_offset, "NONE")

Label(prefix, name, id) == prefix \o name \o "_" \o ToString(id)
BlockEnd(id) == Label("!EOCB", "", id)
IfEnd(id) == Label("!IF_END", "", id)
WhileBeg(id) == Label("!WHL_BEG", "", id)
WhileMid(id) == Label("!WHL_MID", "", id)

Found(table, name) == {p \in DOMAIN table : table[p].name = name}

(* varTableDescendLvl drops, newest first, the entries of a level.         *)
NoRemove(table, level) == table
DescendLvl(table, level) ==
  SubSeq(table, 1, Max({0} \cup {p \in DOMAIN table : table[p].depth < level}))

ReusedId == pos
NextId == [pos EXCEPT !.lbl_id = @ + 1]
OffsetKept(table) == pos.rbp_offset
MarkedOffset(table) == table[Len(table)].addr

programAscendLvl == objVars' = Append(objVars, Marker)

programDescendLvl ==
  LET kept == DescendLvl(objVars, pos.lvl)
  IN  /\ objVars' = SubSeq(kept, 1, Len(kept) - 1)
      /\ objFuncs' = DescendLvl(objFuncs, pos.lvl)
      /\ pos' = [pos EXCEPT !.rbp_offset = MarkedOffset(kept), !.lvl = @ - 1,
                            !.code_block_id = This.old]

VarLabel(name) == Label("var_", name, pos.lbl_id)
programCreateVar(name) ==
  /\ objVars' = Append(objVars, Entry0(name, VarLabel(name), pos.lvl, pos.rbp_offset, "NONE"))
  /\ pos' = [NextId EXCEPT !.rbp_offset = @ + 1]
  /\ UNCHANGED objFuncs

FuncLabel(name) == Label("func_", name, pos.lbl_id)
programCreateFunc(name) ==
  /\ objFuncs' = Append(objFuncs, Entry0(name, FuncLabel(name), pos.lvl, 0, "NONE"))
  /\ pos' = NextId
  /\ UNCHANGED objVars

(* The number of arguments matches what is known of the function; nothing  *)
(* ever sets that it returns a value.                                      *)
valCntMatchesInt(cnt, n) == cnt = "MULTI" \/ n = (IF cnt = "SINGLE" THEN 1 ELSE 0)
programGetFunc(name, argc, retc) ==
  {p \in Found(objFuncs, name) : valCntMatchesInt(objFuncs[p].args, argc) /\ retc = 0}

-----------------------------------------------------------------------------
(* Blocks and statements.                                                  *)

(* Nothing has no value.  A block reports that at the node it is asked     *)
(* from; compileCode would report it at the node that is not there.        *)
compileNothing ==
  /\ \E fn \in {"compileCodeBlock", "forcedCodeBlock", "compileCode"} : At(fn)
  /\ IsNone(Node)
  /\ IF This.req = 0 THEN Goes(<<>>, <<>>)
     ELSE IF This.fn = "compileCode" THEN Derails ELSE Fails(<<>>, <<>>)

compileCodeBlock ==
  /\ At("compileCodeBlock") /\ ~ IsNone(Node) /\ ~ Is(Node, "ENDL")
  /\ Goes(<<Frame("compileCode", Node, This.req)>>, <<>>)

beginCodeBlock ==
  /\ \/ At("compileCodeBlock") /\ Is(Node, "ENDL")
     \/ At("forcedCodeBlock") /\ ~ IsNone(Node)
  /\ Does(<<Frame("compileCode", Node, This.req),
            [This EXCEPT !.fn = "endCodeBlock", !.id = pos.lbl_id, !.old = pos.code_block_id]>>,
          <<Begin(IF This.req = 0 THEN "NCB_B" ELSE "RCB_B"),
            emitTablePrototype(BlockEnd(pos.lbl_id))>>)
  /\ programAscendLvl
  /\ pos' = [NextId EXCEPT !.lvl = @ + 1, !.code_block_id = pos.lbl_id]
  /\ UNCHANGED <<objFuncs, ret>>

endCodeBlock ==
  /\ At("endCodeBlock")
  /\ Does(<<>>, <<emitTableLbl(BlockEnd(This.id)),
                  emitStructuralInstruction("CB_E", 0, This.req)>>)
  /\ programDescendLvl
  /\ UNCHANGED ret

(* A list of statements whose value is asked for is compiled as a block of *)
(* itself, which asks for its value again.                                 *)
WalksOn(node) == <<Frame("compileCode", Node, 0), Block(node.right, 0)>>
Statements(node) == <<Frame("compileCode", node.left, 0), Block(node.right, 0)>>
compileStatements ==
  /\ At("compileCode") /\ Is(Node, "ENDL")
  /\ Goes(IF This.req > 0 THEN <<Block(Node, This.req)>> ELSE Statements(Node), <<>>)

(* What is left of a function when only instructions follow its last call. *)
emitRest == At("emit") /\ Goes(<<>>, This.instrs)

-----------------------------------------------------------------------------
(* Variables and values.                                                   *)

compileVarDef ==
  \/ /\ At("compileCode") /\ Is(Node, "VDEF")
     /\ Goes(<<Frame("compileVarDef", Node.right, 0)>>, <<>>)
  \/ /\ At("compileVarDef") /\ IsNone(Node)
     /\ Goes(<<>>, <<>>)
  \/ /\ At("compileVarDef") /\ Node.type = "OP"
     /\ Goes(<<Frame("compileVarDef", Node.left, 0), Frame("compileVarDef", Node.right, 0)>>, <<>>)
  \/ /\ At("compileVarDef") /\ Node.type \notin {"NONE", "OP"}
     /\ Does(<<>>, <<emitTableStackVar(VarLabel(Node.data), 1)>>)
     /\ programCreateVar(Node.data)
     /\ UNCHANGED ret

(* A node reached as a value, or as the target of an assignment.           *)
Reached(type) == (At("compileCode") \/ At("compileSetDst")) /\ Node.type = type

compileVarAcc(name, write) ==
  emitMemInstruction_l({"bp"}, write, objVars[Max(Found(objVars, name))].lbl)

(* An unknown name is reported, and then its entry is read all the same.   *)
compileVarNode ==
  /\ Reached("VAR")
  /\ IF Found(objVars, Node.data) = {} THEN Derails
     ELSE Goes(<<>>, Times(This.wr, compileVarAcc(Node.data, TRUE))
                     \o Times(This.req, compileVarAcc(Node.data, FALSE)))

OneTooMany(n) == Times(n, Gen("DUP"))
Copies(n) == Times(n - 1, Gen("DUP"))
PopsAll(wr) == Times(wr, Gen("POP"))
PopsSpare(wr) == Times(wr - 1, Gen("POP"))
Exit(wr, req) ==
  (IF wr = 0 THEN <<emitConstInstruction(0)>> ELSE PopsSpare(wr))
  \o <<Gen("END")>>
  \o (IF req > 0 THEN <<emitConstInstruction(0)>> \o Copies(req) ELSE <<>>)

(* Code of a keyword.  The target that drops a value reads a number.       *)
KVarCode(kword, wr, req) ==
  CASE kword = "CIO" -> Times(wr, Gen("OUT")) \o Times(req, Gen("INP"))
    [] kword = "TEMP" -> <<>>
    [] kword = "NULL" -> Times(wr, Gen("INP"))
    [] kword = "TRAP" -> <<Gen("TRAP")>>
    [] kword = "BAD" -> <<Gen("BAD")>>
    [] kword = "EXIT" -> Exit(wr, req)

Keywords == {"CIO", "TEMP", "NULL", "TRAP", "BAD", "EXIT"}
compileKVarNode ==
  /\ Reached("KVAR")
  /\ IF Node.data \notin Keywords \/ (Node.data = "TRAP" /\ This.wr # This.req)
     THEN Fails(<<>>, <<>>)
     ELSE Goes(<<>>, KVarCode(Node.data, This.wr, This.req))

compileConstNode ==
  /\ At("compileCode") /\ Node.type = "CONST"
  /\ Goes(<<>>, IF This.req = 0 THEN <<>>
                ELSE <<emitConstInstruction(Node.data)>> \o Copies(This.req))

-----------------------------------------------------------------------------
(* Assignments and operations.                                             *)

(* A list of targets assigns to its left one twice.  A target that is not  *)
(* there is reported, and its text is read for the report.                 *)
compileSetDst ==
  \/ /\ At("compileSetDst") /\ IsNone(Node)
     /\ Derails
  \/ /\ At("compileSetDst") /\ Node.type \in {"CONST", "FUNC"}
     /\ Fails(<<>>, <<>>)
  \/ /\ At("compileSetDst") /\ (Is(Node, "CER") \/ Is(Node, "COMMA"))
     /\ Goes(<<Writes("compileSetDst", Node.left, 0, This.wr),
               Writes("compileSetDst", Node.left, This.req, This.wr)>>, <<Gen("DUP")>>)
  \/ /\ At("compileSetDst") /\ Is(Node, "CEL")
     /\ Goes(<<Writes("compileSetDst", Node.left, This.req, This.wr),
               Writes("compileSetDst", Node.left, 0, This.wr)>>, <<Gen("DUP")>>)
  \/ /\ At("compileSetDst") /\ Is(Node, "DEREF")
     /\ Goes(<<Block(Node.right, 1), [This EXCEPT !.fn = "derefTarget"]>>, <<>>)
  \/ /\ At("derefTarget")
     /\ Fails(<<>>, IF This.wr > 0 /\ This.req > 0 THEN <<>>
                    ELSE <<emitMemInstruction({"arg"}, This.wr > 0, 0)>>)
  \/ /\ At("compileSetDst") /\ Node.type = "OP"
     /\ Node.data \notin {"CER", "COMMA", "CEL", "DEREF"}
     /\ Fails(<<>>, <<>>)

compileAssignment ==
  /\ At("compileCode") /\ \E op \in AssignOps : Is(Node, op)
  /\ Goes(<<Block(Node.right, 1)>>
          \o (IF Is(Node, "EQARTL") THEN <<Block(Node.left, 1), Later(<<Gen("ADD")>>)>> ELSE <<>>)
          \o <<Writes("compileSetDst", Node.left, This.req, 1)>>, <<>>)

(* The operands go first; an operator that lacks one still gets its        *)
(* instruction.  Operators without one are an error behind their operands. *)
Operands(node) == (IF IsNone(node.left) THEN <<>> ELSE <<Block(node.left, 1)>>)
                  \o <<Block(node.right, 1)>>
LacksOperand(node) == IsNone(node.left) /\ node.data \in BinaryOnly
GenericOp(node, instrs) ==
  (IF LacksOperand(node) THEN <<>> ELSE Operands(node)) \o <<Later(instrs)>>
retBehind(node) == IF LacksOperand(node) THEN 1 ELSE ret

compileMathOp ==
  /\ At("compileCode") /\ \E op \in MathOps : Is(Node, op)
  /\ IF This.req = 0 THEN Goes(<<>>, <<>>)
     ELSE /\ Does(GenericOp(Node, IF Node.data \in Arithmetic THEN <<Gen(Node.data)>>
                                  ELSE <<>>), <<>>)
          /\ ret' = IF Node.data \in Arithmetic THEN retBehind(Node) ELSE 1
          /\ UNCHANGED tables

-----------------------------------------------------------------------------
(* Conditions, branches and loops.                                         *)

(* The flags an expression is tested for, left in the caller's variable;   *)
(* for a value that is no comparison the variable keeps what it was.       *)
Condition(node) ==
  CASE node.type = "CONST" -> IF node.data = 0 THEN "NVR" ELSE "ALW"
    [] Is(node, "BAND") -> "NE"
    [] IsLogical(node) -> Comparison[node.data]
    [] OTHER -> "NVR"

(* TST takes two values, so the value is doubled first.                    *)
TestOnce(node) == <<Block(node, 1), Later(<<Gen("TST")>>)>>
Test(node) == <<Block(node, 1), Later(<<Gen("DUP"), Gen("TST")>>)>>
Decide(node) ==
  CASE node.type = "CONST" -> <<>>
    [] Is(node, "BAND") -> GenericOp(node, <<Gen("TST")>>)
    [] IsLogical(node) -> GenericOp(node, <<Gen("CMP")>>)
    [] OTHER -> Test(node)

(* The branch or loop that asked.                                          *)
Told(calls, cond) ==
  [calls EXCEPT ![Min({k \in DOMAIN calls : calls[k].fn \in {"branch", "loop"}})].cond = cond]

compileLogicalExpr ==
  /\ At("compileLogicalExpr")
  /\ \/ IsNone(Node) /\ Derails
     \/ /\ Is(Node, "BOOL")
        /\ Goes(<<Frame("compileLogicalExpr", Node.right, 0)>>, <<>>)
     \/ /\ ~ IsNone(Node) /\ ~ Is(Node, "BOOL")
        /\ Runs(Decide(Node) \o Told(Tail(todo), Condition(Node)), <<>>)
        /\ ret' = IF IsLogical(Node) \/ Is(Node, "BAND") THEN retBehind(Node) ELSE ret
        /\ UNCHANGED tables

(* A branch or the body of a loop is a block of its own even if it is one  *)
(* statement.                                                              *)
Unforced(node) == Block(node, 0)
Body(node) == Frame("forcedCodeBlock", node, 0)

compileIf ==
  /\ At("compileCode") /\ Is(Node, "IF")
  /\ Does(<<Frame("compileLogicalExpr", Node.left, 0),
            [This EXCEPT !.fn = "branch", !.id = pos.lbl_id]>>, <<>>)
  /\ pos' = NextId
  /\ UNCHANGED <<objVars, objFuncs, ret>>

JumpOver(cond, lbl) ==
  <<Begin("NONLIN_B"), emitTablePrototype(lbl),
    emitJumpInstruction_l(invertFlagCondition(cond), {}, lbl)>>
branch ==
  /\ At("branch")
  /\ Goes(<<Body(Node.right), Later(<<emitTableLbl(IfEnd(This.id)), Begin("NONLIN_E")>>)>>,
          JumpOver(This.cond, IfEnd(This.id)))

(* A loop jumps to its condition first, which stands behind the body.      *)
TestsFirst(node, mid) ==
  <<Frame("compileLogicalExpr", node.left, 0), Body(node.right), Later(<<emitTableLbl(mid)>>)>>
TestsLast(node, mid) ==
  <<Body(node.right), Later(<<emitTableLbl(mid)>>), Frame("compileLogicalExpr", node.left, 0)>>

compileWhile ==
  /\ At("compileCode") /\ Is(Node, "WHILE")
  /\ Does(TestsLast(Node, WhileMid(pos.lbl_id))
            \o <<[This EXCEPT !.fn = "loop", !.id = pos.lbl_id]>>,
          <<emitTablePrototype(WhileMid(pos.lbl_id)), Begin("NONLIN_B"),
            emitJumpInstruction_l("ALW", {}, WhileMid(pos.lbl_id)),
            emitTableLbl(WhileBeg(pos.lbl_id))>>)
  /\ pos' = NextId
  /\ UNCHANGED <<objVars, objFuncs, ret>>

loop ==
  /\ At("loop")
  /\ Goes(<<>>, <<emitJumpInstruction_l(This.cond, {}, WhileBeg(This.id)), Begin("NONLIN_E")>>)

(* Everything else is reported and counts as compiled; so does reading     *)
(* through a pointer, which is compiled before and forgets what its        *)
(* operand reported.                                                       *)
derefInstrs(req) == <<emitMemInstruction({"arg"}, FALSE, 0)>> \o Copies(req)
compileMiscOp ==
  \/ /\ At("compileCode") /\ Node.type = "OP"
     /\ Node.data \notin MathOps \cup AssignOps
                        \cup {"ENDL", "VDEF", "FDEF", "IF", "WHILE", "DEREF"}
     /\ Goes(<<>>, <<>>)
  \/ /\ At("compileCode") /\ Is(Node, "DEREF")
     /\ Goes(<<Block(Node.right, 1), [This EXCEPT !.fn = "derefValue", !.old = ret]>>, <<>>)
  \/ /\ At("derefValue")
     /\ Does(<<>>, derefInstrs(This.req))
     /\ ret' = This.old
     /\ UNCHANGED tables

-----------------------------------------------------------------------------
(* Functions.                                                              *)

compileFuncDef ==
  /\ At("compileCode") /\ Is(Node, "FDEF")
  /\ IF ~ Is(Node.right, "SEP") \/ Node.left.type # "VAR" THEN Fails(<<>>, <<>>)
     ELSE /\ Does((IF IsNone(Node.right.left) THEN <<>>
                   ELSE <<Frame("compileFuncDefArgs", Node.right.left, 0),
                          [This EXCEPT !.fn = "funcHeader", !.id = Len(emitted) + 4]>>)
                  \o <<Block(Node.right.right, 0),
                       Later(<<emitRetInstruction(0, TRUE), Begin("RMSF"), Begin("SECT_E")>>)>>,
                  <<emitTablePrototype(FuncLabel(Node.left.data)), emitSetSection("funcs"),
                    emitTableLbl(FuncLabel(Node.left.data)), Begin("ADDSF")>>)
          /\ programCreateFunc(Node.left.data)
          /\ UNCHANGED ret

(* A callee counts in a variable of the nearest caller of its kind.        *)
Counted(calls, fn) ==
  [calls EXCEPT ![Min({k \in DOMAIN calls : calls[k].fn = fn})].cnt = @ + 1]
ArgsSoFar == todo[Min({k \in DOMAIN todo : todo[k].fn = "funcHeader"})].cnt

(* A parameter is the number of bytes in front of it.  Any element that is *)
(* no name is taken for a list, and reported if it is none, which does not *)
(* count as an error; what its ends lack is read all the same.             *)
compileFuncDefArgs ==
  \/ /\ At("compileFuncDefArgs") /\ IsNone(Node)
     /\ Derails
  \/ /\ At("compileFuncDefArgs") /\ Node.type = "VAR"
     /\ Runs(Counted(Tail(todo), "funcHeader"),
             <<emitTableConstant(VarLabel(Node.data), 8 * ArgsSoFar)>>)
     /\ programCreateVar(Node.data)
     /\ UNCHANGED ret
  \/ /\ At("compileFuncDefArgs") /\ Node.type \notin {"NONE", "VAR"}
     /\ Goes(<<Frame("compileFuncDefArgs", Node.left, 0),
               Frame("compileFuncDefArgs", Node.right, 0)>>, <<>>)

(* The frame of the function takes as many values as were declared.        *)
funcHeader ==
  /\ At("funcHeader")
  /\ todo' = Tail(todo)
  /\ emitted' = [emitted EXCEPT ![This.id].retc = This.cnt]
  /\ objFuncs' = [objFuncs EXCEPT ![Len(objFuncs)].args = IF This.cnt = 1 THEN "SINGLE" ELSE "MULTI"]
  /\ UNCHANGED <<objVars, pos, ret, compiling>>

compileFuncCall ==
  \/ /\ At("compileCode") /\ Node.type = "FUNC"
     /\ Goes((IF IsNone(Node.right) THEN <<>> ELSE <<Frame("compileCommaList", Node.right, 1)>>)
             \o <<[This EXCEPT !.fn = "callFunction"]>>, <<>>)
  \/ /\ At("callFunction")
     /\ LET fits == programGetFunc(Node.data, This.cnt, This.req)
        IN  IF fits = {} THEN Fails(<<>>, <<>>)
            ELSE Goes(<<>>, <<emitCallInstruction(This.cnt, This.req, objFuncs[Max(fits)].lbl)>>)

(* A list compiles itself before its last element: nothing behind the      *)
(* first call is ever reached.                                             *)
compileCommaList ==
  /\ At("compileCommaList")
  /\ Runs(IF Is(Node, "COMMA") THEN <<This>> \o todo
          ELSE <<Block(Node, This.req)>> \o Counted(Tail(todo), "callFunction"), <<>>)
  /\ UNCHANGED <<tables, ret>>

-----------------------------------------------------------------------------
(* compileProgram.                                                         *)

BackendInit ==
  /\ \E program \in Programs :
       todo = <<Block(program, 0), Later(<<Begin("RMSF"), Begin("SECT_E")>>)>>
  /\ emitted = <<emitAddSection("main", BIN_SECTION_PRESET_MAIN),
                 emitAddSection("funcs", BIN_SECTION_PRESET_FUNC),
                 emitSetSection("main"), Begin("ADDSF")>>
  /\ objVars = <<Base>>
  /\ objFuncs = <<Base>>
  /\ pos = [lbl_id |-> 0, lvl |-> 0, rbp_offset |-> 0, code_block_id |-> 0]
  /\ ret = 0
  /\ compiling = "running"

endOfProgram ==
  /\ compiling = "running" /\ todo = <<>>
  /\ compiling' = "compiled"
  /\ UNCHANGED <<todo, emitted, tables, ret>>

(* Bound of the model: the calls outgrow the stack.                        *)
overflow ==
  /\ compiling = "running" /\ Len(todo) > MaxCalls
  /\ compiling' = "overflow"
  /\ UNCHANGED <<todo, emitted, tables, ret>>

CompileNext ==
  \/ compileNothing \/ compileCodeBlock \/ beginCodeBlock \/ endCodeBlock
  \/ compileStatements \/ emitRest
  \/ compileVarDef \/ compileVarNode \/ compileKVarNode \/ compileConstNode
  \/ compileSetDst \/ compileAssignment \/ compileMathOp
  \/ compileLogicalExpr \/ compileIf \/ branch \/ compileWhile \/ loop \/ compileMiscOp
  \/ compileFuncDef \/ compileFuncDefArgs \/ funcHeader \/ compileFuncCall \/ compileCommaList
  \/ endOfProgram \/ overflow

-----------------------------------------------------------------------------
(* Properties.                                                             *)

(* The table of variables is a stack of levels: one marker for each open   *)
(* one, entries in the order of their levels, and the next address is the  *)
(* number of variables that are visible, each at an address of its own;    *)
(* what a block took is given back at its end, whatever was defined in it. *)
IsMarker(p) == objVars[p].name = "!base!"
VariablesBefore(p) == {q \in 2 .. p - 1 : ~ IsMarker(q)}
NamesNest ==
  /\ \A p, q \in DOMAIN objVars : p < q => objVars[p].depth <= objVars[q].depth
  /\ \A p \in DOMAIN objFuncs : objFuncs[p].depth <= pos.lvl
  /\ \A level \in 0 .. pos.lvl - 1 :
       Cardinality({p \in DOMAIN objVars : IsMarker(p) /\ objVars[p].depth = level}) = 1
  /\ \A p \in 2 .. Len(objVars) : objVars[p].addr = Cardinality(VariablesBefore(p))
  /\ pos.rbp_offset = Cardinality(VariablesBefore(Len(objVars) + 1))

(* No two symbols of a program share a label, however blocks, branches,    *)
(* loops and names are nested and reused: translation would take the newer *)
(* one.                                                                    *)
Defines(i) == i.type = "TABLE" /\ i.id \in {"HERE", "STACK", "SIMPLE"}
LabelsUnique ==
  \A j, k \in DOMAIN emitted :
    Defines(emitted[j]) /\ Defines(emitted[k]) /\ emitted[j].name = emitted[k].name => j = k

(* Flags are "set by directly preceeding cmp or test instruction": between *)
(* a conditional jump and its comparison stands nothing that writes code.  *)
WritesNothing(i) ==
  \/ i.type = "TABLE" /\ i.id # "STACK"
  \/ i.type = "STRUCT" /\ i.id \in {"NCB_B", "RCB_B", "NONLIN_B"}
  \/ i.type = "JMP" /\ i.id = "NVR"
FlagsReachJumps ==
  \A j \in DOMAIN emitted :
    emitted[j].type = "JMP" /\ emitted[j].id \notin {"ALW", "NVR"} =>
      LET before == {k \in 1 .. j - 1 : ~ WritesNothing(emitted[k])}
      IN  before # {} /\ emitted[Max(before)].id \in {"CMP", "TST"}
=============================================================================
