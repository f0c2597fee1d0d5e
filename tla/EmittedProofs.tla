---------------------------- MODULE EmittedProofs ----------------------------
(***************************************************************************)
(* What the back end emits, for every set of trees: instructions as the    *)
(* emit functions write them, conditional jumps that find the flags of     *)
(* their comparison, labels that are defined once, and fields that mean    *)
(* what their symbols were defined as when the program is linked.          *)
(***************************************************************************)
EXTENDS BackendProofs, LinkingProofs

(* Defs holds what stands in definitions of variables: lists of names, as  *)
(* compileVarDef reads a name from whatever is no operator.  Numbers and   *)
(* names are data of their leaves.                                         *)
TextsOf(Nodes, Defs) ==
  /\ Defs \subseteq Nodes
  /\ \A n \in Nodes : Is(n, "VDEF") => n.right \in Defs
  /\ \A n \in Defs : /\ n.type \in {"NONE", "OP", "VAR"}
                     /\ n.type = "OP" => n.left \in Defs /\ n.right \in Defs
  /\ \A n \in Nodes : n.type = "CONST" => n.data \in Int
  /\ \A n \in Nodes : n.type = "VAR" => n.data \in STRING

(* Three facts about texts that are true of TLA+ and that the provers here  *)
(* have no rules for: the theorems that need them say so.  Literals are    *)
(* strings; so are labels; and a label tells its prefix and, behind its    *)
(* last underscore, its number.                                            *)
Words == GenericInstrs \cup FlagConditions \cup StructBegins \cup StructEnds
         \cup {"-", "", "PRE", "HERE", "STACK", "SIMPLE", "ADDSECT", "RETF", "CALL", "main", "funcs", "!"}
WordsAreStrings == Words \subseteq STRING
Prefixes == {"var_", "func_", "!EOCB", "!IF_END", "!WHL_BEG", "!WHL_MID"}
LabelsAreStrings == \A p \in Prefixes, name \in STRING, id \in Nat : Label(p, name, id) \in STRING
LabelsTell ==
  \A p, q \in Prefixes, a, b \in STRING, i, j \in Nat : Label(p, a, i) = Label(q, b, j) => p = q /\ i = j
Texts == WordsAreStrings /\ LabelsAreStrings /\ LabelsTell

-----------------------------------------------------------------------------
(* Instructions.                                                           *)

Conditional(i) == i.type = "JMP" /\ i.id \notin {"ALW", "NVR"}
SteadyInstrs == {i \in CoutInstrs : ~ Conditional(i)}
PlainInstrs == {i \in SteadyInstrs : ~ Defines(i)}
DefinesAs(i, lbl) == i \in SteadyInstrs /\ Defines(i) /\ i.name = lbl

LEMMA InstrsAre ==
  /\ \A i : i \in CoutInstrs <=> IsInstr(i)
  /\ \A i : i \in SteadyInstrs <=> IsInstr(i) /\ ~ Conditional(i)
  /\ \A i : i \in PlainInstrs <=> IsInstr(i) /\ ~ Conditional(i) /\ ~ Defines(i)
BY DEF CoutInstrs, SteadyInstrs, PlainInstrs, IsInstr, Headers

(* A header, and the fields behind it.                                     *)
LEMMA HeaderTyped ==
  ASSUME WordsAreStrings, NEW type \in InstrTypes, NEW id \in STRING, NEW argc \in Nat, NEW retc \in Nat
  PROVE  LET h == Instr(type, id, argc, retc)
         IN  /\ h \in Headers
             /\ h.type = type /\ h.id = id /\ h.argc = argc /\ h.retc = retc /\ h.mod = {} /\ h.num = 0
<1>1. {} \in MemMods /\ NoAttr \in BinSectionAttr /\ 0 \in Int /\ 0 \in Nat
  BY DEF MemMods, NoAttr, BinSectionAttr
<1>2. NoName \in STRING
  BY DEF NoName, WordsAreStrings, Words
<1> QED BY <1>1, <1>2 DEF Instr, Headers

LEMMA FieldsSet ==
  ASSUME NEW h \in Headers
  PROVE  /\ \A name \in STRING :
              LET i == [h EXCEPT !.name = name]
              IN  /\ i \in Headers /\ i.name = name
                  /\ i.type = h.type /\ i.id = h.id /\ i.argc = h.argc /\ i.retc = h.retc
                  /\ i.mod = h.mod /\ i.num = h.num
         /\ \A num \in Int :
              LET i == [h EXCEPT !.num = num]
              IN  /\ i \in Headers /\ i.num = num
                  /\ i.type = h.type /\ i.id = h.id /\ i.argc = h.argc /\ i.retc = h.retc
                  /\ i.mod = h.mod /\ i.name = h.name
         /\ \A mod \in MemMods :
              LET i == [h EXCEPT !.mod = mod]
              IN  /\ i \in Headers /\ i.mod = mod
                  /\ i.type = h.type /\ i.id = h.id /\ i.argc = h.argc /\ i.retc = h.retc
                  /\ i.num = h.num /\ i.name = h.name
         /\ \A sect \in STRING :
              LET i == [h EXCEPT !.sect = sect]
              IN  /\ i \in Headers
                  /\ i.type = h.type /\ i.id = h.id /\ i.argc = h.argc /\ i.retc = h.retc
         /\ \A attr \in BinSectionAttr :
              LET i == [h EXCEPT !.attr = attr]
              IN  /\ i \in Headers
                  /\ i.type = h.type /\ i.id = h.id /\ i.argc = h.argc /\ i.retc = h.retc
         /\ \A retc \in Nat :
              LET i == [h EXCEPT !.retc = retc]
              IN  /\ i \in Headers
                  /\ i.type = h.type /\ i.id = h.id /\ i.argc = h.argc /\ i.retc = retc
                  /\ i.name = h.name
BY DEF Headers

LEMMA GenericPlain ==
  ASSUME WordsAreStrings, NEW op \in GenericInstrs
  PROVE  Gen(op) \in PlainInstrs /\ Gen(op).type = "GENERIC" /\ Gen(op).id = op
<1> DEFINE i == Gen(op)
<1>1. g_instr_info[op].argc \in Nat /\ g_instr_info[op].retc \in Nat
  BY DEF GenericInstrs, g_instr_info
<1>2. op \in STRING /\ "GENERIC" \in InstrTypes
  BY DEF WordsAreStrings, Words, InstrTypes
<1>3. /\ i = Instr("GENERIC", op, g_instr_info[op].argc, g_instr_info[op].retc)
      /\ i = emitGenericInstruction(op)
  BY DEF Gen, emitGenericInstruction
<1> HIDE DEF i
<1>4. i \in Headers /\ i.type = "GENERIC" /\ i.id = op
  BY <1>1, <1>2, <1>3, HeaderTyped
<1>5. IsInstr(i) /\ ~ Conditional(i) /\ ~ Defines(i)
  BY <1>3, <1>4 DEF IsInstr, Conditional, Defines, Headers
<1> QED BY <1>4, <1>5, InstrsAre DEF i

LEMMA StructPlain ==
  ASSUME WordsAreStrings, NEW id \in {"ADDSF", "NCB_B", "RCB_B", "NONLIN_B", "SECT_E", "RMSF", "CB_E", "NONLIN_E"},
         NEW req \in Nat
  PROVE  LET i == emitStructuralInstruction(id, 0, req)
         IN  i \in PlainInstrs /\ i.type = "STRUCT" /\ i.id = id
<1> DEFINE i == emitStructuralInstruction(id, 0, req)
<1>1. "STRUCT" \in InstrTypes /\ 0 \in Nat
  BY DEF InstrTypes
<1>2. id \in STRING
  BY DEF WordsAreStrings, Words, StructBegins, StructEnds
<1>3. i = Instr("STRUCT", id, 0, req)
  BY DEF emitStructuralInstruction
<1> HIDE DEF i
<1>4. i \in Headers /\ i.type = "STRUCT" /\ i.id = id
  BY <1>1, <1>2, <1>3, HeaderTyped
<1>5. IsInstr(i) /\ ~ Conditional(i) /\ ~ Defines(i)
  BY <1>4 DEF IsInstr, Conditional, Defines, StructBegins, StructEnds, Headers
<1> QED BY <1>4, <1>5, InstrsAre DEF i

LEMMA TableTyped ==
  ASSUME WordsAreStrings, NEW id \in {"PRE", "HERE", "STACK", "SIMPLE"}, NEW name \in STRING, NEW num \in Nat
  PROVE  LET i == emitTableSomething(id, name)  v == [i EXCEPT !.num = num]
         IN  /\ i \in SteadyInstrs /\ i.type = "TABLE" /\ i.id = id /\ i.name = name
             /\ v \in SteadyInstrs /\ v.type = "TABLE" /\ v.id = id /\ v.name = name
<1> DEFINE h == Instr("TABLE", id, 0, 0)  i == emitTableSomething(id, name)
           v == [i EXCEPT !.num = num]
<1>1. "TABLE" \in InstrTypes /\ 0 \in Nat
  BY DEF InstrTypes
<1>2. id \in STRING
  BY DEF WordsAreStrings, Words, StructBegins, StructEnds
<1>3. h \in Headers /\ h.type = "TABLE" /\ h.id = id /\ h.argc = 0 /\ h.retc = 0 /\ h.num = 0
  BY <1>1, <1>2, HeaderTyped
<1>4. i = [h EXCEPT !.name = name]
  BY DEF emitTableSomething
<1> HIDE DEF h, i
<1>5. /\ i \in Headers /\ i.type = "TABLE" /\ i.id = id /\ i.argc = 0 /\ i.retc = 0 /\ i.num = 0
      /\ i.name = name
  BY <1>3, <1>4, FieldsSet
<1>6. /\ v \in Headers /\ v.type = "TABLE" /\ v.id = id /\ v.argc = 0 /\ v.retc = 0 /\ v.num = num
      /\ v.name = name
  <2>1. num \in Int
    OBVIOUS
  <2> QED BY <1>5, <2>1, FieldsSet
<1> HIDE DEF v
<1>7. IsInstr(i) /\ ~ Conditional(i)
  BY <1>5 DEF IsInstr, Conditional, Headers
<1>8. IsInstr(v) /\ ~ Conditional(v)
  BY <1>6 DEF IsInstr, Conditional, Headers
<1> QED BY <1>5, <1>6, <1>7, <1>8, InstrsAre DEF i, v

LEMMA TablePlain ==
  ASSUME WordsAreStrings, NEW name \in STRING
  PROVE  /\ emitTablePrototype(name) \in PlainInstrs
         /\ DefinesAs(emitTableLbl(name), name)
         /\ DefinesAs(emitTableStackVar(name, 1), name)
         /\ \A num \in Nat : DefinesAs(emitTableConstant(name, num), name)
<1>1. \A id \in {"PRE", "HERE", "STACK", "SIMPLE"}, num \in Nat :
        LET i == emitTableSomething(id, name)  v == [i EXCEPT !.num = num]
        IN  /\ i \in SteadyInstrs /\ i.type = "TABLE" /\ i.id = id /\ i.name = name
            /\ v \in SteadyInstrs /\ v.type = "TABLE" /\ v.id = id /\ v.name = name
  BY TableTyped
<1> DEFINE pre == emitTableSomething("PRE", name)  here == emitTableSomething("HERE", name)
           stack == [emitTableSomething("STACK", name) EXCEPT !.num = 1]
           simple(num) == [emitTableSomething("SIMPLE", name) EXCEPT !.num = num]
<1>2. pre \in SteadyInstrs /\ pre.type = "TABLE" /\ pre.id = "PRE"
  BY <1>1
<1>3. here \in SteadyInstrs /\ here.type = "TABLE" /\ here.id = "HERE" /\ here.name = name
  BY <1>1
<1>4. stack \in SteadyInstrs /\ stack.type = "TABLE" /\ stack.id = "STACK" /\ stack.name = name
  BY <1>1
<1>5. \A num \in Nat :
        /\ simple(num) \in SteadyInstrs /\ simple(num).type = "TABLE" /\ simple(num).id = "SIMPLE"
        /\ simple(num).name = name
  BY <1>1
<1>6. /\ emitTablePrototype(name) = pre /\ emitTableLbl(name) = here
      /\ emitTableStackVar(name, 1) = stack
      /\ \A num \in Nat : emitTableConstant(name, num) = simple(num)
  BY DEF emitTablePrototype, emitTableLbl, emitTableStackVar, emitTableConstant
<1> HIDE DEF pre, here, stack, simple
<1>7. pre \in PlainInstrs /\ DefinesAs(here, name) /\ DefinesAs(stack, name)
      /\ \A num \in Nat : DefinesAs(simple(num), name)
  BY <1>2, <1>3, <1>4, <1>5 DEF PlainInstrs, Defines, DefinesAs
<1> QED BY <1>6, <1>7

LEMMA JumpTyped ==
  ASSUME WordsAreStrings, NEW cond \in FlagConditions, NEW lbl \in STRING
  PROVE  LET i == emitJumpInstruction_l(cond, {}, lbl)
         IN  i \in CoutInstrs /\ i.type = "JMP" /\ i.id = cond
<1> DEFINE h == Instr("JMP", cond, getMemArgArgc({}), 0)
           m == [h EXCEPT !.mod = {}]
           i == emitJumpInstruction_l(cond, {}, lbl)
<1>1. "JMP" \in InstrTypes /\ 0 \in Nat /\ getMemArgArgc({}) = 0 /\ {} \in MemMods
  BY DEF InstrTypes, getMemArgArgc, MemMods
<1>2. cond \in STRING
  BY DEF WordsAreStrings, Words
<1>3. h \in Headers /\ h.type = "JMP" /\ h.id = cond /\ h.argc = 0 /\ h.retc = 0
  BY <1>1, <1>2, HeaderTyped
<1>4. i = [m EXCEPT !.name = lbl]
  BY DEF emitJumpInstruction_l
<1> HIDE DEF h, i
<1>5. m \in Headers /\ m.type = "JMP" /\ m.id = cond /\ m.argc = 0 /\ m.retc = 0 /\ m.mod = {}
  BY <1>1, <1>3, FieldsSet
<1> HIDE DEF m
<1>6. i \in Headers /\ i.type = "JMP" /\ i.id = cond /\ i.argc = 0 /\ i.retc = 0 /\ i.mod = {}
  BY <1>4, <1>5, FieldsSet
<1>7. IsInstr(i)
  BY <1>1, <1>6 DEF IsInstr, Headers
<1> QED BY <1>6, <1>7, InstrsAre DEF i

LEMMA MemPlain ==
  ASSUME WordsAreStrings, NEW mod \in MemMods, NEW store \in BOOLEAN, NEW lbl \in STRING
  PROVE  /\ emitMemInstruction_l(mod, store, lbl) \in PlainInstrs
         /\ emitMemInstruction(mod, store, 0) \in PlainInstrs
<1>1. "-" \in STRING
  BY DEF WordsAreStrings, Words
<1> DEFINE type == IF store THEN "STORE" ELSE "LOAD"
           argc == getMemArgArgc(mod) + (IF store THEN 1 ELSE 0)
           retc == IF store THEN 0 ELSE 1
           h == Instr(type, "-", argc, retc)
           m == [h EXCEPT !.mod = mod]
           Good(i) == /\ i \in Headers /\ i.type = type /\ i.argc = argc /\ i.retc = retc /\ i.mod = mod
<1>2. type \in InstrTypes /\ argc \in Nat /\ retc \in Nat
  BY DEF InstrTypes, getMemArgArgc
<1>3. h \in Headers /\ h.type = type /\ h.argc = argc /\ h.retc = retc
  <2> HIDE DEF type, argc, retc
  <2> QED BY <1>1, <1>2, HeaderTyped
<1> HIDE DEF h
<1>4. Good(m)
  <2> HIDE DEF type, argc, retc
  <2> QED BY <1>3, FieldsSet
<1>5. \A name \in STRING :
        emitMemInstruction_l(mod, store, name) = [m EXCEPT !.name = name]
  BY DEF emitMemInstruction_l, h
<1> HIDE DEF m
<1>6. \A name \in STRING : Good(emitMemInstruction_l(mod, store, name))
  <2> HIDE DEF type, argc, retc
  <2> TAKE name \in STRING
  <2> DEFINE i == [m EXCEPT !.name = name]
  <2>1. /\ i \in Headers /\ i.type = m.type /\ i.argc = m.argc /\ i.retc = m.retc
        /\ i.mod = m.mod
    BY <1>4, FieldsSet
  <2> HIDE DEF i
  <2>2. Good(i)
    BY <1>4, <2>1
  <2> QED BY <1>5, <2>2 DEF i
<1>7. Good(emitMemInstruction(mod, store, 0))
  <2> HIDE DEF type, argc, retc
  <2>1. NoName \in STRING
    BY DEF NoName, WordsAreStrings, Words
  <2>2. Good(emitMemInstruction_l(mod, store, NoName))
    BY <1>6, <2>1
  <2>3. 0 \in Int
    OBVIOUS
  <2> QED BY <2>2, <2>3, FieldsSet DEF emitMemInstruction
<1>8. ASSUME NEW i, Good(i) PROVE i \in PlainInstrs
  <2>1. IsInstr(i) /\ ~ Conditional(i) /\ ~ Defines(i)
    <3>1. CASE store
      <4>1. /\ i \in Headers /\ i.type = "STORE" /\ i.retc = 0
            /\ i.argc = getMemArgArgc(i.mod) + 1
        BY <1>8, <3>1
      <4> QED BY <4>1 DEF IsInstr, Conditional, Defines, Headers
    <3>2. CASE ~ store
      <4>1. /\ i \in Headers /\ i.type = "LOAD" /\ i.retc = 1
            /\ i.argc = getMemArgArgc(i.mod)
        BY <1>8, <3>2 DEF getMemArgArgc
      <4> QED BY <4>1 DEF IsInstr, Conditional, Defines, Headers
    <3> QED BY <3>1, <3>2
  <2> QED BY <2>1, InstrsAre
<1> QED BY <1>6, <1>7, <1>8

LEMMA ConstPlain ==
  ASSUME WordsAreStrings, NEW val \in Int
  PROVE  emitConstInstruction(val) \in PlainInstrs
<1> DEFINE h == Instr("CONST", "-", 0, 1)  i == emitConstInstruction(val)
<1>1. "CONST" \in InstrTypes /\ 0 \in Nat /\ 1 \in Nat /\ "-" \in STRING
  BY DEF InstrTypes, WordsAreStrings, Words
<1>2. h \in Headers /\ h.type = "CONST" /\ h.argc = 0 /\ h.retc = 1
  BY <1>1, HeaderTyped
<1>3. i = [h EXCEPT !.num = val]
  BY DEF emitConstInstruction
<1> HIDE DEF h, i
<1>4. i \in Headers /\ i.type = "CONST" /\ i.argc = 0 /\ i.retc = 1
  BY <1>2, <1>3, FieldsSet
<1>5. IsInstr(i) /\ ~ Conditional(i) /\ ~ Defines(i)
  BY <1>4 DEF IsInstr, Conditional, Defines, Headers
<1> QED BY <1>5, InstrsAre DEF i

LEMMA SpecialPlain ==
  ASSUME WordsAreStrings
  PROVE
  /\ emitRetInstruction(0, TRUE) \in PlainInstrs
  /\ \A argc, retc \in Nat, name \in STRING : emitCallInstruction(argc, retc, name) \in PlainInstrs
<1>1. "SPECIAL" \in InstrTypes /\ 0 \in Nat /\ "RETF" \in STRING /\ "CALL" \in STRING
  BY DEF InstrTypes, WordsAreStrings, Words
<1>2. emitRetInstruction(0, TRUE) \in PlainInstrs
  <2> DEFINE i == Instr("SPECIAL", "RETF", 0, 0)
  <2>1. i \in Headers /\ i.type = "SPECIAL" /\ i.id = "RETF" /\ i.retc = 0
    BY <1>1, HeaderTyped
  <2> HIDE DEF i
  <2>2. IsInstr(i) /\ ~ Conditional(i) /\ ~ Defines(i)
    BY <2>1 DEF IsInstr, Conditional, Defines, Headers
  <2>3. i \in PlainInstrs
    BY <2>2, InstrsAre
  <2> QED BY <2>3 DEF emitRetInstruction, i
<1>3. ASSUME NEW argc \in Nat, NEW retc \in Nat, NEW name \in STRING
      PROVE  emitCallInstruction(argc, retc, name) \in PlainInstrs
  <2> DEFINE h == Instr("SPECIAL", "CALL", argc, retc)  i == [h EXCEPT !.name = name]
  <2>1. h \in Headers /\ h.type = "SPECIAL" /\ h.id = "CALL"
    BY <1>1, HeaderTyped
  <2> HIDE DEF h
  <2>2. i \in Headers /\ i.type = "SPECIAL" /\ i.id = "CALL"
    BY <2>1, FieldsSet
  <2> HIDE DEF i
  <2>3. IsInstr(i) /\ ~ Conditional(i) /\ ~ Defines(i)
    BY <2>2 DEF IsInstr, Conditional, Defines, Headers
  <2>4. i \in PlainInstrs
    BY <2>3, InstrsAre
  <2> QED BY <2>4 DEF emitCallInstruction, i, h
<1> QED BY <1>2, <1>3

LEMMA SectionPlain ==
  ASSUME WordsAreStrings
  PROVE
  /\ \A name \in STRING : emitSetSection(name) \in PlainInstrs
  /\ \A name \in STRING, attr \in BinSectionAttr : emitAddSection(name, attr) \in PlainInstrs
<1>1. /\ "STRUCT" \in InstrTypes /\ "TABLE" \in InstrTypes /\ 0 \in Nat
      /\ "SECT_B" \in STRING /\ "ADDSECT" \in STRING
  BY DEF InstrTypes, WordsAreStrings, Words, StructBegins
<1>2. ASSUME NEW name \in STRING PROVE emitSetSection(name) \in PlainInstrs
  <2> DEFINE h == Instr("STRUCT", "SECT_B", 0, 0)  i == [h EXCEPT !.sect = name]
  <2>1. h \in Headers /\ h.type = "STRUCT" /\ h.id = "SECT_B" /\ h.argc = 0 /\ h.retc = 0
    BY <1>1, HeaderTyped
  <2> HIDE DEF h
  <2>2. i \in Headers /\ i.type = "STRUCT" /\ i.id = "SECT_B" /\ i.argc = 0 /\ i.retc = 0
    BY <2>1, FieldsSet
  <2> HIDE DEF i
  <2>3. IsInstr(i) /\ ~ Conditional(i) /\ ~ Defines(i)
    BY <2>2 DEF IsInstr, Conditional, Defines, StructBegins, Headers
  <2>4. i \in PlainInstrs
    BY <2>3, InstrsAre
  <2> QED BY <2>4 DEF emitSetSection, i, h
<1>3. ASSUME NEW name \in STRING, NEW attr \in BinSectionAttr
      PROVE  emitAddSection(name, attr) \in PlainInstrs
  <2> DEFINE h == Instr("TABLE", "ADDSECT", 0, 0)  s == [h EXCEPT !.sect = name]
             i == [s EXCEPT !.attr = attr]
  <2>1. h \in Headers /\ h.type = "TABLE" /\ h.id = "ADDSECT" /\ h.argc = 0 /\ h.retc = 0
    BY <1>1, HeaderTyped
  <2> HIDE DEF h
  <2>2. s \in Headers /\ s.type = "TABLE" /\ s.id = "ADDSECT" /\ s.argc = 0 /\ s.retc = 0
    BY <2>1, FieldsSet
  <2> HIDE DEF s
  <2>3. i \in Headers /\ i.type = "TABLE" /\ i.id = "ADDSECT" /\ i.argc = 0 /\ i.retc = 0
    BY <2>2, FieldsSet
  <2> HIDE DEF i
  <2>4. IsInstr(i) /\ ~ Conditional(i) /\ ~ Defines(i)
    BY <2>3 DEF IsInstr, Conditional, Defines, Headers
  <2>5. i \in PlainInstrs
    BY <2>4, InstrsAre
  <2> QED BY <2>5 DEF emitAddSection, i, s, h
<1> QED BY <1>2, <1>3

LEMMA Repeated ==
  ASSUME NEW n \in Int, NEW i \in PlainInstrs
  PROVE  Times(n, i) \in Seq(PlainInstrs)
<1>1. \A m \in Nat : [k \in 1 .. m |-> i] \in Seq(PlainInstrs)
  BY IsASeq
<1>2. CASE n \in Nat
  BY <1>1, <1>2 DEF Times
<1>3. CASE n \notin Nat
  <2>1. 1 .. n = 1 .. 0 /\ 0 \in Nat
    BY <1>3
  <2>2. [k \in 1 .. n |-> i] = [k \in 1 .. 0 |-> i]
    BY <2>1
  <2> QED BY <1>1, <2>1, <2>2 DEF Times
<1> QED BY <1>2, <1>3

LEMMA SomeInstrs ==
  /\ <<>> \in Seq(PlainInstrs)
  /\ \A i \in PlainInstrs : <<i>> \in Seq(PlainInstrs)
  /\ \A i, j \in PlainInstrs : <<i, j>> \in Seq(PlainInstrs)
  /\ \A i, j, k \in PlainInstrs : <<i, j, k>> \in Seq(PlainInstrs)
  /\ \A s, t \in Seq(PlainInstrs) : s \o t \in Seq(PlainInstrs)
  /\ \A s, t \in Seq(CoutInstrs) : s \o t \in Seq(CoutInstrs)
  /\ Seq(PlainInstrs) \subseteq Seq(CoutInstrs)
  /\ Seq(PlainInstrs) \subseteq Seq(SteadyInstrs) /\ Seq(SteadyInstrs) \subseteq Seq(CoutInstrs)
<1>1. PlainInstrs \subseteq SteadyInstrs /\ SteadyInstrs \subseteq CoutInstrs
  BY DEF PlainInstrs, SteadyInstrs
<1>2. /\ Seq(PlainInstrs) \subseteq Seq(SteadyInstrs) /\ Seq(SteadyInstrs) \subseteq Seq(CoutInstrs)
      /\ Seq(PlainInstrs) \subseteq Seq(CoutInstrs)
  BY <1>1, SeqMonotonic
<1> QED BY <1>2

LEMMA GenericSeqs ==
  ASSUME WordsAreStrings
  PROVE  /\ \A op \in GenericInstrs : <<Gen(op)>> \in Seq(PlainInstrs)
         /\ \A op \in GenericInstrs, n \in Nat : Times(n, Gen(op)) \in Seq(PlainInstrs)
         /\ \A n \in Nat : Copies(n) \in Seq(PlainInstrs) /\ PopsSpare(n) \in Seq(PlainInstrs)
<1>1. \A op \in GenericInstrs : Gen(op) \in PlainInstrs
  BY GenericPlain
<1>2. "DUP" \in GenericInstrs /\ "POP" \in GenericInstrs
  BY DEF GenericInstrs
<1>3. \A n \in Nat : n \in Int /\ n - 1 \in Int
  OBVIOUS
<1> QED BY <1>1, <1>2, <1>3, SomeInstrs, Repeated DEF Copies, PopsSpare

LEMMA ExitSeq ==
  ASSUME WordsAreStrings, NEW wr \in Nat, NEW req \in Nat
  PROVE  Exit(wr, req) \in Seq(PlainInstrs)
<1>1. <<emitConstInstruction(0)>> \in Seq(PlainInstrs)
  <2>1. emitConstInstruction(0) \in PlainInstrs
    BY ConstPlain
  <2> QED BY <2>1, SomeInstrs
<1>2. (IF wr = 0 THEN <<emitConstInstruction(0)>> ELSE PopsSpare(wr)) \in Seq(PlainInstrs)
  BY <1>1, GenericSeqs
<1>3. <<Gen("END")>> \in Seq(PlainInstrs)
  BY GenericSeqs DEF GenericInstrs
<1>4. (IF req > 0 THEN <<emitConstInstruction(0)>> \o Copies(req) ELSE <<>>) \in Seq(PlainInstrs)
  <2>1. Copies(req) \in Seq(PlainInstrs)
    BY GenericSeqs
  <2> QED BY <1>1, <2>1, SomeInstrs
<1> QED BY <1>2, <1>3, <1>4, SomeInstrs DEF Exit

LEMMA KVarSeq ==
  ASSUME WordsAreStrings, NEW wr \in Nat, NEW req \in Nat,
         NEW kword \in Keywords
  PROVE  KVarCode(kword, wr, req) \in Seq(PlainInstrs)
<1>1. /\ "OUT" \in GenericInstrs /\ "INP" \in GenericInstrs
      /\ "TRAP" \in GenericInstrs /\ "BAD" \in GenericInstrs
  BY DEF GenericInstrs
<1>2. /\ Times(wr, Gen("OUT")) \in Seq(PlainInstrs) /\ Times(req, Gen("INP")) \in Seq(PlainInstrs)
      /\ Times(wr, Gen("INP")) \in Seq(PlainInstrs)
      /\ <<Gen("TRAP")>> \in Seq(PlainInstrs) /\ <<Gen("BAD")>> \in Seq(PlainInstrs)
  BY <1>1, GenericSeqs
<1>3. Times(wr, Gen("OUT")) \o Times(req, Gen("INP")) \in Seq(PlainInstrs)
  BY <1>2, SomeInstrs
<1>4. Exit(wr, req) \in Seq(PlainInstrs)
  BY ExitSeq
<1> QED BY <1>2, <1>3, <1>4, SomeInstrs DEF KVarCode, Keywords

-----------------------------------------------------------------------------
(* Flags.  Nothing that is appended writes between a conditional jump and  *)
(* its comparison, and such a jump is appended right behind one.           *)

IsTest(i) == i.type = "GENERIC" /\ i.id \in {"CMP", "TST"}
EndsInTest(s) == s # <<>> /\ IsTest(s[Len(s)])
Before(s, j) == {k \in 1 .. j - 1 : ~ WritesNothing(s[k])}
Tested(s, j) == Before(s, j) # {} /\ s[Max(Before(s, j))].id \in {"CMP", "TST"}
FlagsReach(s) == \A j \in 1 .. Len(s) : Conditional(s[j]) => Tested(s, j)

LEMMA Joined ==
  ASSUME NEW S, NEW s \in Seq(S), NEW t \in Seq(S)
  PROVE  /\ s \o t \in Seq(S) /\ Len(s \o t) = Len(s) + Len(t)
         /\ Len(s) \in Nat /\ Len(t) \in Nat
         /\ \A k \in 1 .. Len(s) : (s \o t)[k] = s[k]
         /\ \A k \in 1 .. Len(t) : (s \o t)[Len(s) + k] = t[k]
<1>1. s \o t \in Seq(S) /\ Len(s \o t) = Len(s) + Len(t) /\ Len(s) \in Nat /\ Len(t) \in Nat
  OBVIOUS
<1>2. \A k \in 1 .. Len(s) + Len(t) :
        (s \o t)[k] = IF k <= Len(s) THEN s[k] ELSE t[k - Len(s)]
  BY ConcatProperties
<1>3. ASSUME NEW k \in 1 .. Len(t) PROVE (s \o t)[Len(s) + k] = t[k]
  <2> DEFINE l == Len(s) + k
  <2>1. l \in 1 .. Len(s) + Len(t) /\ ~ (l <= Len(s)) /\ l - Len(s) = k
    BY <1>1
  <2> HIDE DEF l
  <2>2. (s \o t)[l] = t[k]
    BY <1>2, <2>1
  <2> QED BY <2>2 DEF l
<1> QED BY <1>1, <1>2, <1>3

(* What is in front of an instruction stays there.                         *)
LEMMA FlagsOfPrefix ==
  ASSUME NEW s \in Seq(CoutInstrs), NEW t \in Seq(CoutInstrs), FlagsReach(s),
         NEW j \in 1 .. Len(s), Conditional((s \o t)[j])
  PROVE  Tested(s \o t, j)
<1> DEFINE e == s \o t  before == Before(s, j)
<1>1. \A k \in 1 .. Len(s) : e[k] = s[k]
  BY Joined
<1>2. Len(s) \in Nat
  OBVIOUS
<1> HIDE DEF e
<1>3. \A k \in 1 .. j - 1 : k \in 1 .. Len(s) /\ e[k] = s[k]
  BY <1>1, <1>2
<1>4. Before(e, j) = before
  BY <1>3 DEF Before
<1>5. before # {} /\ s[Max(before)].id \in {"CMP", "TST"}
  BY <1>1 DEF FlagsReach, Tested, e
<1>6. before \in SUBSET (0 .. j - 1) /\ j - 1 \in Nat /\ before \subseteq 1 .. j - 1
  BY <1>2 DEF Before
<1> HIDE DEF before
<1>7. Max(before) \in before
  BY <1>5, <1>6, MaxFacts
<1>8. e[Max(before)] = s[Max(before)]
  BY <1>3, <1>6, <1>7
<1> QED BY <1>4, <1>5, <1>8 DEF e, Tested

LEMMA FlagsKept ==
  ASSUME NEW s \in Seq(CoutInstrs), FlagsReach(s), NEW t \in Seq(SteadyInstrs)
  PROVE  FlagsReach(s \o t)
<1>1. t \in Seq(CoutInstrs) /\ \A k \in 1 .. Len(t) : t[k] \in SteadyInstrs
  BY SomeInstrs
<1>2. /\ Len(s \o t) = Len(s) + Len(t) /\ Len(s) \in Nat /\ Len(t) \in Nat
      /\ \A k \in 1 .. Len(t) : (s \o t)[Len(s) + k] = t[k]
  BY <1>1, Joined
<1> SUFFICES ASSUME NEW j \in 1 .. Len(s) + Len(t), Conditional((s \o t)[j])
             PROVE  Tested(s \o t, j)
  BY <1>2, Zenon DEF FlagsReach
<1>3. CASE j <= Len(s)
  <2>1. j \in 1 .. Len(s)
    BY <1>2, <1>3
  <2> QED BY <1>1, <2>1, FlagsOfPrefix
<1>4. CASE j > Len(s)
  <2>1. j - Len(s) \in 1 .. Len(t) /\ Len(s) + (j - Len(s)) = j
    BY <1>2, <1>4
  <2>2. (s \o t)[j] \in SteadyInstrs
    BY <1>1, <1>2, <2>1
  <2> QED BY <2>2 DEF SteadyInstrs
<1> QED BY <1>2, <1>3, <1>4

(* A jump behind a test, with nothing but quiet instructions between them. *)
LEMMA FlagsOfJump ==
  ASSUME NEW s \in Seq(CoutInstrs), FlagsReach(s), NEW quiet \in Seq(PlainInstrs),
         \A k \in 1 .. Len(quiet) : WritesNothing(quiet[k]),
         NEW jump \in CoutInstrs, Conditional(jump) => EndsInTest(s)
  PROVE  FlagsReach((s \o quiet) \o <<jump>>)
<1> DEFINE q == s \o quiet  e == q \o <<jump>>  n == Len(q)
<1>1. quiet \in Seq(CoutInstrs) /\ FlagsReach(q)
  BY SomeInstrs, FlagsKept
<1>2. /\ q \in Seq(CoutInstrs) /\ n = Len(s) + Len(quiet) /\ Len(s) \in Nat /\ Len(quiet) \in Nat
      /\ \A k \in 1 .. Len(s) : q[k] = s[k]
      /\ \A k \in 1 .. Len(quiet) : q[Len(s) + k] = quiet[k]
  BY <1>1, Joined
<1> SUFFICES FlagsReach(e)
  OBVIOUS
<1> HIDE DEF q
<1>3. /\ <<jump>> \in Seq(CoutInstrs) /\ Len(<<jump>>) = 1 /\ <<jump>>[1] = jump /\ 1 \in 1 .. 1
  OBVIOUS
<1>4. /\ e \in Seq(CoutInstrs) /\ Len(e) = n + 1 /\ n \in Nat /\ e[n + 1] = jump
      /\ \A k \in 1 .. n : e[k] = q[k]
  <2> DEFINE t == <<jump>>
  <2>1. t \in Seq(CoutInstrs) /\ Len(t) = 1 /\ t[1] = jump
    BY <1>3
  <2> HIDE DEF t
  <2>2. /\ q \o t \in Seq(CoutInstrs) /\ Len(q \o t) = n + Len(t) /\ n \in Nat
        /\ \A k \in 1 .. n : (q \o t)[k] = q[k]
        /\ \A k \in 1 .. Len(t) : (q \o t)[n + k] = t[k]
    <3>1. \A u, v \in Seq(CoutInstrs) :
            /\ u \o v \in Seq(CoutInstrs) /\ Len(u \o v) = Len(u) + Len(v) /\ Len(u) \in Nat
            /\ \A k \in 1 .. Len(u) : (u \o v)[k] = u[k]
            /\ \A k \in 1 .. Len(v) : (u \o v)[Len(u) + k] = v[k]
      BY Joined
    <3>2. q \in Seq(CoutInstrs)
      BY <1>2
    <3> QED BY <2>1, <3>1, <3>2
  <2> QED BY <1>3, <2>1, <2>2 DEF t
<1> SUFFICES ASSUME NEW j \in 1 .. n + 1, Conditional(e[j])
             PROVE  Tested(e, j)
  BY <1>4, Zenon DEF FlagsReach
<1>5. CASE j <= n
  <2>1. j \in 1 .. n
    BY <1>4, <1>5
  <2> QED BY <1>1, <1>2, <1>3, <2>1, FlagsOfPrefix
<1>6. CASE j > n
  <2> DEFINE before == Before(e, j)  m == Len(s)
  <2>1. j = n + 1 /\ j - 1 = n
    BY <1>4, <1>6
  <2>2. s # <<>> /\ IsTest(s[m])
    BY <1>4, <2>1 DEF EndsInTest
  <2>3. m \in 1 .. m /\ m \in 1 .. n
    BY <1>2, <2>2
  <2>4. e[m] = s[m] /\ IsTest(e[m])
    BY <1>2, <1>4, <2>2, <2>3
  <2>5. m \in before
    BY <2>1, <2>3, <2>4 DEF IsTest, WritesNothing, Before
  <2>6. \A k \in before : k <= m
    <3>1. before \subseteq 1 .. n
      BY <2>1 DEF Before
    <3> SUFFICES ASSUME NEW k \in before, k > m PROVE FALSE
      <4> HIDE DEF before
      <4> QED BY <1>2, <1>4, <3>1
    <3>2. k \in 1 .. n /\ ~ WritesNothing(e[k])
      BY <2>1 DEF Before
    <3>3. k - m \in 1 .. Len(quiet) /\ m + (k - m) = k
      BY <1>2, <3>2
    <3>4. e[k] = quiet[k - m]
      BY <1>2, <1>4, <3>2, <3>3
    <3> QED BY <3>2, <3>3, <3>4
  <2>7. before \in SUBSET (0 .. n) /\ before # {}
    BY <2>1, <2>5 DEF Before
  <2> HIDE DEF before, e
  <2>8. Max(before) \in before /\ \A y \in before : Max(before) >= y
    BY <1>4, <2>7, MaxFacts
  <2>9. Max(before) = m
    <3>1. Max(before) >= m /\ Max(before) <= m /\ Max(before) \in 0 .. n
      BY <2>5, <2>6, <2>7, <2>8
    <3> QED BY <1>2, <1>4, <3>1
  <2> QED BY <2>4, <2>7, <2>9 DEF IsTest, Tested, before
<1> QED BY <1>4, <1>5, <1>6

(* The header of a function changes one instruction's count of values.     *)
LEMMA FlagsSame ==
  ASSUME NEW s \in Seq(CoutInstrs), FlagsReach(s), NEW t \in Seq(CoutInstrs), Len(t) = Len(s),
         \A k \in 1 .. Len(s) : t[k].type = s[k].type /\ t[k].id = s[k].id
  PROVE  FlagsReach(t)
<1>1. \A k \in 1 .. Len(s) : /\ WritesNothing(t[k]) = WritesNothing(s[k])
                              /\ Conditional(t[k]) = Conditional(s[k])
  BY DEF WritesNothing, Conditional
<1>2. Len(s) \in Nat
  OBVIOUS
<1> SUFFICES ASSUME NEW j \in 1 .. Len(s), Conditional(t[j])
             PROVE  Tested(t, j)
  BY Zenon DEF FlagsReach
<1> DEFINE before == Before(s, j)
<1>3. \A k \in 1 .. j - 1 : k \in 1 .. Len(s)
  BY <1>2
<1>4. Before(t, j) = before
  BY <1>1, <1>3 DEF Before
<1>5. before # {} /\ s[Max(before)].id \in {"CMP", "TST"}
  BY <1>1 DEF FlagsReach, Tested
<1>6. before \in SUBSET (0 .. j - 1) /\ j - 1 \in Nat /\ before \subseteq 1 .. j - 1
  BY <1>2 DEF Before
<1> HIDE DEF before
<1>7. Max(before) \in before
  BY <1>5, <1>6, MaxFacts
<1>8. t[Max(before)].id = s[Max(before)].id
  BY <1>3, <1>6, <1>7
<1> QED BY <1>4, <1>5, <1>8 DEF Tested

-----------------------------------------------------------------------------
(* Stacks of calls.  A branch or loop knows its condition only while the   *)
(* comparison is directly above it, or was the last thing emitted.         *)

Decided(f) == f.cond \notin {"ALW", "NVR"}
Undecided(s) == s # <<>> => ~ Decided(s[1])
Tests(f) == f.fn = "emit" /\ EndsInTest(f.instrs)
HeaderAt(e, n) == n \in 1 .. Len(e) /\ e[n].type = "STRUCT" /\ e[n].id = "ADDSF"
Asks(f) == f.fn \in {"branch", "loop"}

IsCall(f, Defs) ==
  /\ DOMAIN f = {"fn", "node", "req", "wr", "cnt", "cond", "id", "old", "instrs"}
  /\ f.req \in Nat /\ f.wr \in Nat /\ f.cnt \in Nat /\ f.id \in Nat
  /\ f.cond \in FlagConditions
  /\ f.instrs \in Seq(SteadyInstrs)
  /\ f.fn = "compileVarDef" => f.node \in Defs
  /\ Decided(f) => Asks(f)

Stacked(s, e, Defs) ==
  /\ Sequence(s)
  /\ \A k \in 1 .. Len(s) : IsCall(s[k], Defs)
  /\ \A k \in 1 .. Len(s) :
       s[k].fn = "compileLogicalExpr" => k + 1 \in 1 .. Len(s) /\ Asks(s[k + 1])
  /\ \A k \in 1 .. Len(s) : k + 1 \in 1 .. Len(s) /\ Decided(s[k + 1]) => Tests(s[k])
  /\ \A k \in 1 .. Len(s) :
       s[k].fn = "compileFuncDefArgs" =>
         \E m \in 1 .. Len(s) : m > k /\ s[m].fn = "funcHeader"
  /\ \A k \in 1 .. Len(s) : s[k].fn = "funcHeader" => HeaderAt(e, s[k].id)

LEMMA Pushed ==
  ASSUME NEW Defs, NEW e, NEW t, Stacked(t, e, Defs), NEW f, IsCall(f, Defs),
         Undecided(t) \/ Tests(f),
         f.fn = "compileLogicalExpr" => t # <<>> /\ Asks(t[1]),
         f.fn = "compileFuncDefArgs" => \E m \in 1 .. Len(t) : t[m].fn = "funcHeader",
         f.fn = "funcHeader" => HeaderAt(e, f.id)
  PROVE  /\ Stacked(<<f>> \o t, e, Defs)
         /\ <<f>> \o t # <<>> /\ (<<f>> \o t)[1] = f
<1> DEFINE o == <<f>>  s == o \o t  n == Len(t)
<1>1. o \in Seq({f}) /\ Len(o) = 1 /\ o[1] = f
  OBVIOUS
<1>2. Sequence(o) /\ Sequence(t)
  BY <1>1 DEF Sequence, Stacked
<1>3. /\ Sequence(s) /\ n \in Nat /\ Len(s) = 1 + n
      /\ \A k \in 1 .. 1 + n : s[k] = IF k <= 1 THEN o[k] ELSE t[k - 1]
  <2>1. \A u, v : Sequence(u) /\ Sequence(v) =>
          /\ Sequence(u \o v) /\ Len(v) \in Nat /\ Len(u \o v) = Len(u) + Len(v)
          /\ \A k \in 1 .. Len(u) + Len(v) : (u \o v)[k] = IF k <= Len(u) THEN u[k] ELSE v[k - Len(u)]
    BY Concatenated
  <2> HIDE DEF o
  <2>2. /\ Sequence(o \o t) /\ Len(t) \in Nat /\ Len(o \o t) = Len(o) + Len(t)
        /\ \A k \in 1 .. Len(o) + Len(t) :
             (o \o t)[k] = IF k <= Len(o) THEN o[k] ELSE t[k - Len(o)]
    BY <1>2, <2>1
  <2>3. Len(o) = 1
    BY <1>1
  <2> QED BY <2>2, <2>3
<1> SUFFICES Stacked(s, e, Defs) /\ s # <<>> /\ s[1] = f
  OBVIOUS
<1> HIDE DEF o, s
<1>4. s[1] = f /\ Len(s) = n + 1 /\ n \in Nat /\ \A k \in 1 .. n : s[k + 1] = t[k]
  <2>1. \A k \in 1 .. n : /\ k + 1 \in 1 .. 1 + n /\ ~ (k + 1 <= 1) /\ (k + 1) - 1 = k
    BY <1>3
  <2>2. \A k \in 1 .. n : s[k + 1] = t[(k + 1) - 1]
    BY <1>3, <2>1
  <2>3. 1 \in 1 .. 1 + n /\ 1 <= 1
    BY <1>3
  <2>4. s[1] = o[1]
    BY <1>3, <2>3
  <2> QED BY <1>1, <1>3, <2>1, <2>2, <2>4
<1>5. s # <<>>
  BY <1>4
<1>6. \A k \in 1 .. Len(s) : k = 1 \/ \E j \in 1 .. n : k = j + 1
  <2> SUFFICES ASSUME NEW k \in 1 .. Len(s), k # 1 PROVE \E j \in 1 .. n : k = j + 1
    OBVIOUS
  <2>1. k - 1 \in 1 .. n /\ k = (k - 1) + 1
    BY <1>4
  <2> QED BY <2>1
<1>7. 1 \in 1 .. Len(s) /\ \A j \in 1 .. n : j + 1 \in 1 .. Len(s)
  BY <1>4
<1>8. t # <<>> => 1 \in 1 .. n
  <2>1. PICK S : t \in Seq(S)
    BY <1>2 DEF Sequence
  <2> QED BY <2>1
<1>9. 1 \in 1 .. n => t # <<>>
  BY <1>4
<1>10. \A k \in 1 .. Len(s) : IsCall(s[k], Defs)
  BY <1>4, <1>6 DEF Stacked
<1>11. ASSUME NEW k \in 1 .. Len(s), s[k].fn = "compileLogicalExpr"
       PROVE  k + 1 \in 1 .. Len(s) /\ Asks(s[k + 1])
  <2>1. CASE k = 1
    BY <1>4, <1>7, <1>8, <1>11, <2>1
  <2>2. CASE k # 1
    <3>1. PICK j \in 1 .. n : k = j + 1
      BY <1>6, <2>2
    <3>2. j + 1 \in 1 .. n /\ Asks(t[j + 1])
      BY <1>4, <1>11, <3>1 DEF Stacked
    <3> QED BY <1>4, <1>7, <3>1, <3>2
  <2> QED BY <2>1, <2>2
<1>12. ASSUME NEW k \in 1 .. Len(s), k + 1 \in 1 .. Len(s), Decided(s[k + 1])
       PROVE  Tests(s[k])
  <2>1. CASE k = 1
    <3>1. 1 \in 1 .. n
      BY <1>4, <1>12, <2>1
    <3>2. Decided(t[1]) /\ t # <<>>
      BY <1>4, <1>9, <1>12, <2>1, <3>1
    <3> QED BY <1>4, <2>1, <3>2 DEF Undecided
  <2>2. CASE k # 1
    <3>1. PICK j \in 1 .. n : k = j + 1
      BY <1>6, <2>2
    <3>2. j + 1 \in 1 .. n
      BY <1>4, <1>12, <3>1
    <3> QED BY <1>4, <1>12, <3>1, <3>2 DEF Stacked
  <2> QED BY <2>1, <2>2
<1>13. ASSUME NEW k \in 1 .. Len(s), s[k].fn = "compileFuncDefArgs"
       PROVE  \E m \in 1 .. Len(s) : m > k /\ s[m].fn = "funcHeader"
  <2>1. CASE k = 1
    <3>1. PICK m \in 1 .. n : t[m].fn = "funcHeader"
      BY <1>4, <1>13, <2>1
    <3> QED BY <1>4, <1>7, <2>1, <3>1
  <2>2. CASE k # 1
    <3>1. PICK j \in 1 .. n : k = j + 1
      BY <1>6, <2>2
    <3>2. PICK m \in 1 .. n : m > j /\ t[m].fn = "funcHeader"
      BY <1>4, <1>13, <3>1 DEF Stacked
    <3>3. m + 1 \in 1 .. Len(s) /\ m + 1 > k /\ s[m + 1].fn = "funcHeader"
      BY <1>4, <1>7, <3>1, <3>2
    <3> QED BY <3>3
  <2> QED BY <2>1, <2>2
<1>14. ASSUME NEW k \in 1 .. Len(s), s[k].fn = "funcHeader"
       PROVE  HeaderAt(e, s[k].id)
  BY <1>4, <1>6, <1>14 DEF Stacked
<1> QED BY <1>3, <1>4, <1>5, <1>10, <1>11, <1>12, <1>13, <1>14 DEF Stacked

LEMMA Popped ==
  ASSUME NEW Defs, NEW e, NEW s, Stacked(s, e, Defs), s # <<>>
  PROVE  /\ Stacked(Tail(s), e, Defs) /\ Head(s) = s[1] /\ IsCall(s[1], Defs)
         /\ Undecided(Tail(s)) \/ Tests(s[1])
         /\ s[1].fn = "compileLogicalExpr" => Tail(s) # <<>> /\ Asks(Tail(s)[1])
         /\ s[1].fn = "compileFuncDefArgs" => \E m \in 1 .. Len(Tail(s)) : Tail(s)[m].fn = "funcHeader"
         /\ s[1].fn = "funcHeader" => HeaderAt(e, s[1].id)
<1> DEFINE t == Tail(s)  n == Len(t)
<1>1. PICK S : s \in Seq(S)
  BY DEF Stacked, Sequence
<1>2. /\ t \in Seq(S) /\ n \in Nat /\ Len(s) = n + 1 /\ Head(s) = s[1]
      /\ \A k \in 1 .. n : t[k] = s[k + 1]
  BY <1>1
<1>3. t # <<>> <=> 1 \in 1 .. n
  BY <1>2, SMTT(30)
<1>4. /\ 1 \in 1 .. Len(s)
      /\ \A k \in 1 .. n : k + 1 \in 1 .. Len(s)
      /\ \A k \in 1 .. n : (k + 1) + 1 \in 1 .. Len(s) <=> k + 1 \in 1 .. n
      /\ 1 + 1 \in 1 .. Len(s) <=> 1 \in 1 .. n
  BY <1>2
<1> HIDE DEF t, n
<1>5. Stacked(t, e, Defs)
  <2>1. Sequence(t) /\ Len(t) = n
    BY <1>2 DEF Sequence, n
  <2>2. \A k \in 1 .. n : IsCall(t[k], Defs)
    BY <1>2, <1>4 DEF Stacked
  <2>3. ASSUME NEW k \in 1 .. n, t[k].fn = "compileLogicalExpr"
        PROVE  k + 1 \in 1 .. n /\ Asks(t[k + 1])
    BY <1>2, <1>4, <2>3 DEF Stacked
  <2>4. ASSUME NEW k \in 1 .. n, k + 1 \in 1 .. n, Decided(t[k + 1])
        PROVE  Tests(t[k])
    BY <1>2, <1>4, <2>4 DEF Stacked
  <2>5. ASSUME NEW k \in 1 .. n, t[k].fn = "compileFuncDefArgs"
        PROVE  \E m \in 1 .. n : m > k /\ t[m].fn = "funcHeader"
    <3>1. PICK m \in 1 .. Len(s) : m > k + 1 /\ s[m].fn = "funcHeader"
      BY <1>2, <1>4, <2>5 DEF Stacked
    <3>2. m - 1 \in 1 .. n /\ m - 1 > k /\ (m - 1) + 1 = m
      BY <1>2, <3>1
    <3> QED BY <1>2, <3>1, <3>2
  <2>6. ASSUME NEW k \in 1 .. n, t[k].fn = "funcHeader"
        PROVE  HeaderAt(e, t[k].id)
    BY <1>2, <1>4, <2>6 DEF Stacked
  <2> QED BY <2>1, <2>2, <2>3, <2>4, <2>5, <2>6 DEF Stacked
<1>6. Undecided(t) \/ Tests(s[1])
  BY <1>2, <1>3, <1>4 DEF Stacked, Undecided
<1>7. s[1].fn = "compileLogicalExpr" => t # <<>> /\ Asks(t[1])
  BY <1>2, <1>3, <1>4 DEF Stacked
<1>8. ASSUME s[1].fn = "compileFuncDefArgs"
      PROVE  \E m \in 1 .. n : t[m].fn = "funcHeader"
  <2>1. PICK m \in 1 .. Len(s) : m > 1 /\ s[m].fn = "funcHeader"
    BY <1>4, <1>8 DEF Stacked
  <2>2. m - 1 \in 1 .. n /\ (m - 1) + 1 = m
    BY <1>2, <2>1
  <2> QED BY <1>2, <2>1, <2>2
<1> QED BY <1>2, <1>4, <1>5, <1>6, <1>7, <1>8 DEF Stacked, t, n

(* Locals of the calls change: counts anywhere, the condition on top.      *)
LEMMA LocalsChanged ==
  ASSUME NEW Defs, NEW e, NEW s, Stacked(s, e, Defs), NEW t, Sequence(t), Len(t) = Len(s),
         \A k \in 1 .. Len(s) :
           /\ IsCall(t[k], Defs)
           /\ t[k].fn = s[k].fn /\ t[k].id = s[k].id /\ t[k].instrs = s[k].instrs
           /\ k # 1 => t[k].cond = s[k].cond
  PROVE  Stacked(t, e, Defs)
<1>1. Len(s) \in Nat
  BY DEF Stacked, Sequence
<1>2. ASSUME NEW k \in 1 .. Len(s), t[k].fn = "compileLogicalExpr"
      PROVE  k + 1 \in 1 .. Len(s) /\ Asks(t[k + 1])
  BY <1>2 DEF Stacked, Asks
<1>3. ASSUME NEW k \in 1 .. Len(s), k + 1 \in 1 .. Len(s), Decided(t[k + 1])
      PROVE  Tests(t[k])
  <2>1. k + 1 # 1
    BY <1>1
  <2>2. Tests(s[k])
    BY <1>3, <2>1 DEF Stacked, Decided
  <2> QED BY <2>2 DEF Tests
<1>4. ASSUME NEW k \in 1 .. Len(s), t[k].fn = "compileFuncDefArgs"
      PROVE  \E m \in 1 .. Len(s) : m > k /\ t[m].fn = "funcHeader"
  BY <1>4 DEF Stacked
<1>5. ASSUME NEW k \in 1 .. Len(s), t[k].fn = "funcHeader"
      PROVE  HeaderAt(e, t[k].id)
  BY <1>5 DEF Stacked
<1> QED BY <1>2, <1>3, <1>4, <1>5 DEF Stacked

(* Calls that need no company.                                             *)
Particular == {"compileLogicalExpr", "compileFuncDefArgs", "funcHeader", "endCodeBlock", "branch"}
OrdinaryCall(f, Defs) ==
  /\ IsCall(f, Defs) /\ ~ Decided(f)
  /\ f.fn \notin Particular
  /\ f.fn = "emit" => f.instrs \in Seq(PlainInstrs)
Ordinary(s, Defs) == Sequence(s) /\ \A k \in 1 .. Len(s) : OrdinaryCall(s[k], Defs)

LEMMA OrdinaryPushed ==
  ASSUME NEW Defs, NEW e, NEW t, Stacked(t, e, Defs), Undecided(t),
         NEW calls, Ordinary(calls, Defs)
  PROVE  Stacked(calls \o t, e, Defs) /\ Undecided(calls \o t)
<1> DEFINE s == calls \o t  c == Len(calls)  n == Len(t)
<1>1. /\ Sequence(s) /\ c \in Nat /\ n \in Nat /\ Len(s) = c + n
      /\ \A k \in 1 .. c + n : s[k] = IF k <= c THEN calls[k] ELSE t[k - c]
  BY Concatenated DEF Stacked, Ordinary
<1> SUFFICES Stacked(s, e, Defs) /\ Undecided(s)
  OBVIOUS
<1> HIDE DEF s
<1>2. \A k \in 1 .. c : k \in 1 .. Len(s) /\ s[k] = calls[k] /\ OrdinaryCall(s[k], Defs)
  BY <1>1 DEF Ordinary
<1>3. \A k \in 1 .. n : c + k \in 1 .. Len(s) /\ s[c + k] = t[k]
  <2> TAKE k \in 1 .. n
  <2> DEFINE l == c + k
  <2>1. l \in 1 .. c + n /\ ~ (l <= c) /\ l - c = k
    BY <1>1
  <2> HIDE DEF l
  <2>2. s[l] = t[k]
    BY <1>1, <2>1
  <2> QED BY <1>1, <2>1, <2>2 DEF l
<1>4. \A k \in 1 .. Len(s) : k \in 1 .. c \/ \E j \in 1 .. n : k = c + j
  <2> SUFFICES ASSUME NEW k \in 1 .. Len(s), k \notin 1 .. c PROVE \E j \in 1 .. n : k = c + j
    OBVIOUS
  <2>1. k - c \in 1 .. n /\ k = c + (k - c)
    BY <1>1
  <2> QED BY <2>1
<1>5. \A j \in 1 .. n : /\ (c + j) + 1 \in 1 .. Len(s) <=> j + 1 \in 1 .. n
                         /\ (c + j) + 1 = c + (j + 1)
  BY <1>1
<1>6. \A k \in 1 .. Len(s) : IsCall(s[k], Defs)
  BY <1>2, <1>3, <1>4 DEF Stacked, OrdinaryCall
<1>7. ASSUME NEW k \in 1 .. Len(s), s[k].fn = "compileLogicalExpr"
      PROVE  k + 1 \in 1 .. Len(s) /\ Asks(s[k + 1])
  <2>1. PICK j \in 1 .. n : k = c + j
    BY <1>2, <1>4, <1>7 DEF OrdinaryCall, Particular
  <2>2. j + 1 \in 1 .. n /\ Asks(t[j + 1])
    BY <1>3, <1>7, <2>1 DEF Stacked
  <2> QED BY <1>3, <1>5, <2>1, <2>2
<1>8. ASSUME NEW k \in 1 .. Len(s), k + 1 \in 1 .. Len(s), Decided(s[k + 1])
      PROVE  Tests(s[k])
  <2>1. k + 1 \notin 1 .. c
    BY <1>2, <1>8 DEF OrdinaryCall, Particular
  <2>2. CASE k \in 1 .. c
    <3>1. k + 1 \in 1 .. c + n
      BY <1>1, <1>8
    <3>2. k + 1 = c + 1 /\ 1 \in 1 .. n
      BY <1>1, <2>1, <2>2, <3>1
    <3>3. Decided(t[1]) /\ t # <<>>
      BY <1>3, <1>8, <3>2
    <3> QED BY <3>3 DEF Undecided
  <2>3. CASE k \notin 1 .. c
    <3>1. PICK j \in 1 .. n : k = c + j
      BY <1>4, <2>3
    <3>2. j + 1 \in 1 .. n /\ k + 1 = c + (j + 1)
      BY <1>5, <1>8, <3>1
    <3> QED BY <1>3, <1>8, <3>1, <3>2 DEF Stacked
  <2> QED BY <2>2, <2>3
<1>9. ASSUME NEW k \in 1 .. Len(s), s[k].fn = "compileFuncDefArgs"
      PROVE  \E m \in 1 .. Len(s) : m > k /\ s[m].fn = "funcHeader"
  <2>1. PICK j \in 1 .. n : k = c + j
    BY <1>2, <1>4, <1>9 DEF OrdinaryCall, Particular
  <2>2. PICK m \in 1 .. n : m > j /\ t[m].fn = "funcHeader"
    BY <1>3, <1>9, <2>1 DEF Stacked
  <2>3. c + m > k
    BY <1>1, <2>1, <2>2
  <2> QED BY <1>3, <2>2, <2>3
<1>10. ASSUME NEW k \in 1 .. Len(s), s[k].fn = "funcHeader"
       PROVE  HeaderAt(e, s[k].id)
  <2>1. PICK j \in 1 .. n : k = c + j
    BY <1>2, <1>4, <1>10 DEF OrdinaryCall, Particular
  <2> QED BY <1>3, <1>10, <2>1 DEF Stacked
<1>11. Stacked(s, e, Defs)
  BY <1>1, <1>6, <1>7, <1>8, <1>9, <1>10 DEF Stacked
<1>12. Undecided(s)
  <2> SUFFICES ASSUME s # <<>> PROVE ~ Decided(s[1])
    BY DEF Undecided
  <2>1. 1 \in 1 .. Len(s)
    <3>1. PICK S : s \in Seq(S)
      BY <1>1 DEF Sequence
    <3> QED BY <3>1
  <2>2. CASE 1 \in 1 .. c
    BY <1>2, <2>2 DEF OrdinaryCall, Particular
  <2>3. CASE 1 \notin 1 .. c
    <3>1. c = 0 /\ 1 \in 1 .. n /\ c + 1 = 1
      BY <1>1, <2>1, <2>3
    <3>2. s[1] = t[1] /\ t # <<>>
      BY <1>3, <3>1
    <3> QED BY <3>2 DEF Undecided
  <2> QED BY <2>2, <2>3
<1> QED BY <1>11, <1>12

(* Headers stay in what is emitted.                                        *)
LEMMA HeadersStay ==
  ASSUME NEW Defs, NEW s, NEW e, Stacked(s, e, Defs), NEW new,
         \A n : HeaderAt(e, n) => HeaderAt(new, n)
  PROVE  Stacked(s, new, Defs)
BY DEF Stacked

-----------------------------------------------------------------------------
(* Labels.  A call that is still to run owes the labels it will define.    *)

Labels(e) == {e[k].name : k \in {j \in 1 .. Len(e) : Defines(e[j])}}
Once(e) ==
  \A j, k \in 1 .. Len(e) : Defines(e[j]) /\ Defines(e[k]) /\ e[j].name = e[k].name => j = k

Owed(f) ==
  IF f.fn = "emit" THEN Labels(f.instrs)
  ELSE IF f.fn = "endCodeBlock" THEN {BlockEnd(f.id)}
  ELSE IF f.fn = "branch" THEN {IfEnd(f.id)}
  ELSE {}

(* No label that will get a number from n on is l.                         *)
Past(l, n) == \A p \in Prefixes, name \in STRING, id \in Nat : id >= n => l # Label(p, name, id)
Free(l, s, e) == l \notin Labels(e) /\ \A k \in 1 .. Len(s) : l \notin Owed(s[k])

(* Labels are defined once, or owed by one call and not yet defined.       *)
Distinct(s, e, n) ==
  /\ Once(e)
  /\ \A l \in Labels(e) : Past(l, n)
  /\ \A k \in 1 .. Len(s) :
       /\ s[k].fn = "emit" => Once(s[k].instrs)
       /\ \A l \in Owed(s[k]) : l \notin Labels(e) /\ Past(l, n)
  /\ \A j, k \in 1 .. Len(s) : j # k => Owed(s[j]) \cap Owed(s[k]) = {}

LEMMA OneLabel ==
  /\ \A t \in Seq(PlainInstrs) : Labels(t) = {} /\ Once(t)
  /\ \A t \in Seq(SteadyInstrs), x \in Nat : \A l :
       /\ x \in 1 .. Len(t) /\ DefinesAs(t[x], l)
       /\ \A k \in 1 .. Len(t) : k # x => t[k] \in PlainInstrs
       => Labels(t) = {l} /\ Once(t)
<1>1. ASSUME NEW t \in Seq(PlainInstrs) PROVE Labels(t) = {} /\ Once(t)
  <2>1. \A k \in 1 .. Len(t) : ~ Defines(t[k])
    BY DEF PlainInstrs
  <2> QED BY <2>1 DEF Labels, Once
<1>2. ASSUME NEW t, NEW x \in 1 .. Len(t), NEW l, DefinesAs(t[x], l),
             \A k \in 1 .. Len(t) : k # x => t[k] \in PlainInstrs
      PROVE  Labels(t) = {l} /\ Once(t)
  <2>1. \A k \in 1 .. Len(t) : Defines(t[k]) <=> k = x
    BY <1>2 DEF PlainInstrs, DefinesAs
  <2>2. t[x].name = l
    BY <1>2 DEF DefinesAs
  <2> QED BY <2>1, <2>2 DEF Labels, Once
<1> QED BY <1>1, <1>2

LEMMA JoinedLabels ==
  ASSUME NEW e \in Seq(CoutInstrs), NEW t \in Seq(CoutInstrs), Once(e), Once(t),
         Labels(e) \cap Labels(t) = {}
  PROVE  Labels(e \o t) = Labels(e) \cup Labels(t) /\ Once(e \o t)
<1> DEFINE u == e \o t  n == Len(e)
<1>1. /\ Len(u) = n + Len(t) /\ n \in Nat /\ Len(t) \in Nat
      /\ \A k \in 1 .. n : u[k] = e[k]
      /\ \A k \in 1 .. Len(t) : u[n + k] = t[k]
  BY Joined
<1> SUFFICES Labels(u) = Labels(e) \cup Labels(t) /\ Once(u)
  OBVIOUS
<1> HIDE DEF u
<1>2. \A k \in 1 .. Len(u) : k \in 1 .. n \/ \E j \in 1 .. Len(t) : k = n + j
  <2> SUFFICES ASSUME NEW k \in 1 .. Len(u), k \notin 1 .. n PROVE \E j \in 1 .. Len(t) : k = n + j
    OBVIOUS
  <2>1. k - n \in 1 .. Len(t) /\ k = n + (k - n)
    BY <1>1
  <2> QED BY <2>1
<1>3. /\ \A k \in 1 .. n : k \in 1 .. Len(u)
      /\ \A k \in 1 .. Len(t) : n + k \in 1 .. Len(u)
  BY <1>1
<1>4. Labels(u) = Labels(e) \cup Labels(t)
  <2>1. ASSUME NEW l \in Labels(u) PROVE l \in Labels(e) \cup Labels(t)
    <3>1. PICK k \in 1 .. Len(u) : Defines(u[k]) /\ l = u[k].name
      BY DEF Labels
    <3>2. CASE k \in 1 .. n
      BY <1>1, <3>1, <3>2 DEF Labels
    <3>3. CASE k \notin 1 .. n
      <4>1. PICK j \in 1 .. Len(t) : k = n + j
        BY <1>2, <3>3
      <4> QED BY <1>1, <3>1, <4>1 DEF Labels
    <3> QED BY <3>2, <3>3
  <2>2. ASSUME NEW l \in Labels(e) PROVE l \in Labels(u)
    <3>1. PICK k \in 1 .. n : Defines(e[k]) /\ l = e[k].name
      BY DEF Labels
    <3> QED BY <1>1, <1>3, <3>1 DEF Labels
  <2>3. ASSUME NEW l \in Labels(t) PROVE l \in Labels(u)
    <3>1. PICK k \in 1 .. Len(t) : Defines(t[k]) /\ l = t[k].name
      BY DEF Labels
    <3>2. n + k \in 1 .. Len(u) /\ u[n + k] = t[k]
      BY <1>1, <1>3
    <3> QED BY <3>1, <3>2 DEF Labels
  <2> QED BY <2>1, <2>2, <2>3
<1>5. ASSUME NEW j \in 1 .. Len(u), NEW k \in 1 .. Len(u),
             Defines(u[j]), Defines(u[k]), u[j].name = u[k].name
      PROVE  j = k
  <2>1. CASE j \in 1 .. n /\ k \in 1 .. n
    BY <1>1, <1>5, <2>1 DEF Once
  <2>2. CASE j \notin 1 .. n /\ k \notin 1 .. n
    <3>1. PICK a \in 1 .. Len(t), b \in 1 .. Len(t) : j = n + a /\ k = n + b
      BY <1>2, <2>2
    <3>2. a = b
      BY <1>1, <1>5, <3>1, SMTT(30) DEF Once
    <3> QED BY <3>1, <3>2
  <2>3. ASSUME NEW a \in 1 .. n, NEW b \in 1 .. Len(t), Defines(u[a]), Defines(u[n + b]),
               u[a].name = u[n + b].name
        PROVE  FALSE
    <3>1. u[a].name \in Labels(e) /\ u[n + b].name \in Labels(t)
      BY <1>1, <2>3 DEF Labels
    <3> QED BY <2>3, <3>1
  <2> QED BY <1>2, <1>5, <2>1, <2>2, <2>3
<1> QED BY <1>4, <1>5 DEF Once

LEMMA PastLater ==
  ASSUME NEW l, NEW n \in Nat, NEW m \in Nat, m >= n, Past(l, n)
  PROVE  Past(l, m)
<1>1. \A id \in Nat : id >= m => id >= n
  OBVIOUS
<1> QED BY <1>1 DEF Past

(* More is emitted: labels nobody owes.                                    *)
LEMMA DistinctEmitted ==
  ASSUME NEW s, NEW e \in Seq(CoutInstrs), NEW n \in Nat, Distinct(s, e, n),
         NEW t \in Seq(CoutInstrs), Once(t), NEW m \in Nat, m >= n,
         \A l \in Labels(t) : Free(l, s, e) /\ Past(l, m)
  PROVE  Distinct(s, e \o t, m)
<1>1. Labels(e) \cap Labels(t) = {}
  BY DEF Free
<1>2. Labels(e \o t) = Labels(e) \cup Labels(t) /\ Once(e \o t)
  BY <1>1, JoinedLabels DEF Distinct
<1>3. \A l : Past(l, n) => Past(l, m)
  BY PastLater
<1> DEFINE u == e \o t
<1>4. Labels(u) = Labels(e) \cup Labels(t) /\ Once(u)
  BY <1>2
<1> HIDE DEF u
<1>5. \A l \in Labels(u) : Past(l, m)
  BY <1>3, <1>4 DEF Distinct
<1>6. \A k \in 1 .. Len(s) : \A l \in Owed(s[k]) : l \notin Labels(u) /\ Past(l, m)
  BY <1>3, <1>4 DEF Distinct, Free
<1>7. Distinct(s, u, m)
  BY <1>4, <1>5, <1>6 DEF Distinct
<1> QED BY <1>7 DEF u

LEMMA DistinctLater ==
  ASSUME NEW s, NEW e, NEW n \in Nat, Distinct(s, e, n), NEW m \in Nat, m >= n
  PROVE  Distinct(s, e, m)
<1>1. \A l : Past(l, n) => Past(l, m)
  BY PastLater
<1> QED BY <1>1 DEF Distinct

(* A stack with one call more on top.                                      *)
LEMMA OnTop ==
  ASSUME NEW f, NEW t, Sequence(t)
  PROVE  LET s == <<f>> \o t
         IN  /\ Len(t) \in Nat /\ Len(s) = Len(t) + 1 /\ s[1] = f
             /\ \A k \in 1 .. Len(t) : s[k + 1] = t[k] /\ k + 1 \in 1 .. Len(s)
             /\ \A k \in 1 .. Len(s) : k = 1 \/ \E j \in 1 .. Len(t) : k = j + 1
<1> DEFINE o == <<f>>  s == o \o t  n == Len(t)
<1>1. Sequence(o) /\ Len(o) = 1 /\ o[1] = f
  <2>1. o \in Seq({f}) /\ Len(o) = 1 /\ o[1] = f
    OBVIOUS
  <2> QED BY <2>1 DEF Sequence
<1> HIDE DEF o
<1>2. /\ n \in Nat /\ Len(s) = 1 + n
      /\ \A k \in 1 .. 1 + n : s[k] = IF k <= 1 THEN o[k] ELSE t[k - 1]
  <2>1. /\ Len(t) \in Nat /\ Len(o \o t) = Len(o) + Len(t)
        /\ \A k \in 1 .. Len(o) + Len(t) :
             (o \o t)[k] = IF k <= Len(o) THEN o[k] ELSE t[k - Len(o)]
    <3>1. \A u, v : Sequence(u) /\ Sequence(v) =>
            /\ Len(v) \in Nat /\ Len(u \o v) = Len(u) + Len(v)
            /\ \A k \in 1 .. Len(u) + Len(v) : (u \o v)[k] = IF k <= Len(u) THEN u[k] ELSE v[k - Len(u)]
      BY Concatenated
    <3> QED BY <1>1, <3>1
  <2> QED BY <1>1, <2>1
<1> HIDE DEF s
<1>3. \A k \in 1 .. n : /\ k + 1 \in 1 .. 1 + n /\ ~ (k + 1 <= 1) /\ (k + 1) - 1 = k
  BY <1>2
<1>4. \A k \in 1 .. n : s[k + 1] = t[k]
  <2>1. \A k \in 1 .. n : s[k + 1] = t[(k + 1) - 1]
    BY <1>2, <1>3
  <2> QED BY <1>3, <2>1
<1>5. s[1] = f
  <2>1. 1 \in 1 .. 1 + n /\ 1 <= 1
    BY <1>2
  <2> QED BY <1>1, <1>2, <2>1
<1>6. \A k \in 1 .. Len(s) : k = 1 \/ \E j \in 1 .. n : k = j + 1
  <2> SUFFICES ASSUME NEW k \in 1 .. Len(s), k # 1 PROVE \E j \in 1 .. n : k = j + 1
    OBVIOUS
  <2>1. k - 1 \in 1 .. n /\ k = (k - 1) + 1
    BY <1>2
  <2> QED BY <2>1
<1>7. Len(s) = n + 1 /\ n \in Nat
  BY <1>2
<1>8. \A k \in 1 .. n : k + 1 \in 1 .. Len(s)
  BY <1>3, <1>7
<1>9. /\ n \in Nat /\ Len(s) = n + 1 /\ s[1] = f
      /\ \A k \in 1 .. n : s[k + 1] = t[k] /\ k + 1 \in 1 .. Len(s)
      /\ \A k \in 1 .. Len(s) : k = 1 \/ \E j \in 1 .. n : k = j + 1
  BY <1>4, <1>5, <1>6, <1>7, <1>8
<1> QED BY <1>9, Zenon DEF s, o

LEMMA DistinctPushed ==
  ASSUME NEW e, NEW n, NEW t, Sequence(t), Distinct(t, e, n), NEW f,
         f.fn = "emit" => Once(f.instrs),
         \A l \in Owed(f) : Free(l, t, e) /\ Past(l, n)
  PROVE  Distinct(<<f>> \o t, e, n)
<1> DEFINE s == <<f>> \o t
<1>1. /\ Len(t) \in Nat /\ s[1] = f
      /\ \A k \in 1 .. Len(t) : s[k + 1] = t[k]
      /\ \A k \in 1 .. Len(s) : k = 1 \/ \E j \in 1 .. Len(t) : k = j + 1
  BY OnTop
<1> SUFFICES Distinct(s, e, n)
  OBVIOUS
<1> HIDE DEF s
<1>2. ASSUME NEW k \in 1 .. Len(s)
      PROVE  /\ s[k].fn = "emit" => Once(s[k].instrs)
             /\ \A l \in Owed(s[k]) : l \notin Labels(e) /\ Past(l, n)
  BY <1>1 DEF Distinct, Free
<1>3. ASSUME NEW j \in 1 .. Len(s), NEW k \in 1 .. Len(s), j # k
      PROVE  Owed(s[j]) \cap Owed(s[k]) = {}
  <2>1. \A i \in 1 .. Len(t) : Owed(f) \cap Owed(t[i]) = {}
    BY DEF Free
  <2>2. CASE j = 1
    <3>1. PICK b \in 1 .. Len(t) : k = b + 1
      BY <1>1, <1>3, <2>2
    <3> QED BY <1>1, <2>1, <2>2, <3>1
  <2>3. CASE k = 1
    <3>1. PICK a \in 1 .. Len(t) : j = a + 1
      BY <1>1, <1>3, <2>3
    <3> QED BY <1>1, <2>1, <2>3, <3>1
  <2>4. CASE j # 1 /\ k # 1
    <3>1. PICK a \in 1 .. Len(t), b \in 1 .. Len(t) : j = a + 1 /\ k = b + 1
      BY <1>1, <2>4
    <3>2. a # b
      BY <1>3, <3>1
    <3> QED BY <1>1, <3>1, <3>2 DEF Distinct
  <2> QED BY <2>2, <2>3, <2>4
<1> QED BY <1>2, <1>3 DEF Distinct

LEMMA FreePushed ==
  ASSUME NEW e, NEW t, Sequence(t), NEW l, Free(l, t, e), NEW f, l \notin Owed(f)
  PROVE  Free(l, <<f>> \o t, e)
<1> DEFINE s == <<f>> \o t
<1>1. /\ s[1] = f
      /\ \A k \in 1 .. Len(t) : s[k + 1] = t[k]
      /\ \A k \in 1 .. Len(s) : k = 1 \/ \E j \in 1 .. Len(t) : k = j + 1
  BY OnTop
<1> HIDE DEF s
<1>2. \A k \in 1 .. Len(s) : l \notin Owed(s[k])
  BY <1>1 DEF Free
<1>3. Free(l, s, e)
  BY <1>2 DEF Free
<1> QED BY <1>3 DEF s

LEMMA DistinctPopped ==
  ASSUME NEW e, NEW n, NEW s, Sequence(s), s # <<>>, Distinct(s, e, n)
  PROVE  /\ Distinct(Tail(s), e, n)
         /\ s[1].fn = "emit" => Once(s[1].instrs)
         /\ \A l \in Owed(s[1]) : Free(l, Tail(s), e) /\ Past(l, n)
<1> DEFINE t == Tail(s)
<1>1. PICK S : s \in Seq(S)
  BY DEF Sequence
<1>2. /\ Len(t) \in Nat /\ 1 \in 1 .. Len(s)
      /\ \A k \in 1 .. Len(t) : t[k] = s[k + 1] /\ k + 1 \in 1 .. Len(s) /\ 1 # k + 1
  BY <1>1
<1>3. \A j, k \in 1 .. Len(t) : j # k => j + 1 # k + 1
  BY <1>2
<1> HIDE DEF t
<1>4. Distinct(t, e, n)
  BY <1>2, <1>3 DEF Distinct
<1>5. \A l \in Owed(s[1]) : Free(l, t, e) /\ Past(l, n)
  BY <1>2 DEF Distinct, Free
<1> QED BY <1>2, <1>4, <1>5 DEF Distinct, t

(* Calls that owe what others owed.                                        *)
LEMMA DistinctSame ==
  ASSUME NEW e, NEW n, NEW s, Distinct(s, e, n), NEW t, Len(t) = Len(s),
         \A k \in 1 .. Len(s) : t[k].fn = s[k].fn /\ t[k].id = s[k].id /\ t[k].instrs = s[k].instrs
  PROVE  Distinct(t, e, n)
<1>1. \A k \in 1 .. Len(s) : Owed(t[k]) = Owed(s[k])
  BY DEF Owed
<1> QED BY <1>1 DEF Distinct

LEMMA OwesNothing ==
  ASSUME NEW Defs, NEW f, OrdinaryCall(f, Defs)
  PROVE  Owed(f) = {} /\ (f.fn = "emit" => Once(f.instrs))
BY OneLabel DEF OrdinaryCall, Particular, Owed

LEMMA DistinctOrdinary ==
  ASSUME NEW Defs, NEW e, NEW n, NEW t, Sequence(t), Distinct(t, e, n),
         NEW calls, Ordinary(calls, Defs)
  PROVE  Distinct(calls \o t, e, n)
<1> DEFINE s == calls \o t  c == Len(calls)
<1>1. /\ c \in Nat /\ Len(t) \in Nat /\ Len(s) = c + Len(t)
      /\ \A k \in 1 .. c + Len(t) : s[k] = IF k <= c THEN calls[k] ELSE t[k - c]
  BY Concatenated DEF Ordinary
<1> SUFFICES Distinct(s, e, n)
  OBVIOUS
<1> HIDE DEF s
<1>2. \A k \in 1 .. Len(s) : k <= c => Owed(s[k]) = {} /\ (s[k].fn = "emit" => Once(s[k].instrs))
  <2>1. \A k \in 1 .. c : OrdinaryCall(calls[k], Defs)
    BY DEF Ordinary
  <2> SUFFICES ASSUME NEW k \in 1 .. Len(s), k <= c
               PROVE  Owed(s[k]) = {} /\ (s[k].fn = "emit" => Once(s[k].instrs))
    OBVIOUS
  <2>2. k \in 1 .. c /\ s[k] = calls[k]
    BY <1>1
  <2> QED BY <2>1, <2>2, OwesNothing
<1>3. \A k \in 1 .. Len(s) : ~ (k <= c) => k - c \in 1 .. Len(t) /\ s[k] = t[k - c]
  BY <1>1
<1>4. \A j, k \in 1 .. Len(s) : j # k => j - c # k - c
  BY <1>1
<1>5. ASSUME NEW k \in 1 .. Len(s)
      PROVE  /\ s[k].fn = "emit" => Once(s[k].instrs)
             /\ \A l \in Owed(s[k]) : l \notin Labels(e) /\ Past(l, n)
  BY <1>2, <1>3 DEF Distinct
<1>6. ASSUME NEW j \in 1 .. Len(s), NEW k \in 1 .. Len(s), j # k
      PROVE  Owed(s[j]) \cap Owed(s[k]) = {}
  <2>1. CASE j <= c \/ k <= c
    BY <1>2, <2>1
  <2>2. CASE ~ (j <= c) /\ ~ (k <= c)
    BY <1>3, <1>4, <1>6, <2>2 DEF Distinct
  <2> QED BY <2>1, <2>2
<1> QED BY <1>5, <1>6 DEF Distinct

(* A label of the next number.                                             *)
LEMMA NewLabel ==
  ASSUME LabelsTell, NEW n \in Nat, NEW p \in Prefixes, NEW name \in STRING
  PROVE  LET l == Label(p, name, n)
         IN  /\ Past(l, n + 1)
             /\ \A s, e : Distinct(s, e, n) => Free(l, s, e)
             /\ \A q \in Prefixes, other \in STRING : q # p => l # Label(q, other, n)
<1> DEFINE l == Label(p, name, n)
<1>1. \A q \in Prefixes, a \in STRING, j \in Nat : l = Label(q, a, j) => p = q /\ n = j
  BY DEF LabelsTell
<1>2. ~ Past(l, n)
  <2>1. n >= n
    OBVIOUS
  <2> QED BY <2>1, Zenon DEF Past
<1> HIDE DEF l
<1>3. Past(l, n + 1)
  <2> SUFFICES ASSUME NEW q \in Prefixes, NEW a \in STRING, NEW j \in Nat, j >= n + 1
               PROVE  l # Label(q, a, j)
    BY DEF Past
  <2>1. n # j
    OBVIOUS
  <2> QED BY <1>1, <2>1
<1>4. \A s, e : Distinct(s, e, n) => Free(l, s, e)
  BY <1>2 DEF Distinct, Free
<1>5. \A q \in Prefixes, other \in STRING : q # p => l # Label(q, other, n)
  BY <1>1
<1> QED BY <1>3, <1>4, <1>5 DEF l

-----------------------------------------------------------------------------
(* The inductive invariant: a branch or loop that knows its condition has  *)
(* its comparison as the last thing emitted, or right above it on the      *)
(* stack of calls; and labels are distinct.                                *)

Calls(s, e, Defs, n) == Stacked(s, e, Defs) /\ Distinct(s, e, n)

Emits(Defs) ==
  /\ emitted \in Seq(CoutInstrs)
  /\ FlagsReach(emitted)
  /\ Calls(todo, emitted, Defs, pos.lbl_id)
  /\ Undecided(todo) \/ EndsInTest(emitted)

Labelled(table) == \A p \in 1 .. Len(table) : "lbl" \in DOMAIN table[p] /\ table[p].lbl \in STRING
Names == pos.lbl_id \in Nat /\ Labelled(objVars) /\ Labelled(objFuncs)
Counts == pos.lbl_id \in Nat /\ pos'.lbl_id \in Nat /\ pos'.lbl_id >= pos.lbl_id

LEMMA CallPushed ==
  ASSUME NEW Defs, NEW e, NEW n, NEW t, Calls(t, e, Defs, n), NEW f, IsCall(f, Defs),
         Undecided(t) \/ Tests(f),
         f.fn = "compileLogicalExpr" => t # <<>> /\ Asks(t[1]),
         f.fn = "compileFuncDefArgs" => \E m \in 1 .. Len(t) : t[m].fn = "funcHeader",
         f.fn = "funcHeader" => HeaderAt(e, f.id),
         f.fn = "emit" => Once(f.instrs),
         \A l \in Owed(f) : Free(l, t, e) /\ Past(l, n)
  PROVE  /\ Calls(<<f>> \o t, e, Defs, n)
         /\ <<f>> \o t # <<>> /\ (<<f>> \o t)[1] = f
<1>1. Stacked(<<f>> \o t, e, Defs) /\ <<f>> \o t # <<>> /\ (<<f>> \o t)[1] = f
  BY Pushed DEF Calls
<1>2. Sequence(t) /\ Distinct(t, e, n)
  BY DEF Calls, Stacked
<1>3. Distinct(<<f>> \o t, e, n)
  BY <1>2, DistinctPushed
<1> QED BY <1>1, <1>3 DEF Calls

LEMMA OrdinaryCallsPushed ==
  ASSUME NEW Defs, NEW e, NEW n, NEW t, Calls(t, e, Defs, n), Undecided(t),
         NEW calls, Ordinary(calls, Defs)
  PROVE  Calls(calls \o t, e, Defs, n) /\ Undecided(calls \o t)
<1>1. Stacked(t, e, Defs) /\ Distinct(t, e, n) /\ Sequence(t)
  BY DEF Calls, Stacked
<1>2. Stacked(calls \o t, e, Defs) /\ Undecided(calls \o t)
  BY <1>1, OrdinaryPushed
<1>3. Distinct(calls \o t, e, n)
  BY <1>1, DistinctOrdinary
<1> QED BY <1>2, <1>3 DEF Calls

LEMMA HeadersKept ==
  ASSUME NEW e \in Seq(CoutInstrs), NEW t \in Seq(CoutInstrs), NEW n, HeaderAt(e, n)
  PROVE  HeaderAt(e \o t, n)
<1>1. Len(e \o t) = Len(e) + Len(t) /\ Len(e) \in Nat /\ Len(t) \in Nat
      /\ \A k \in 1 .. Len(e) : (e \o t)[k] = e[k]
  BY Joined
<1>2. n \in 1 .. Len(e) /\ n \in 1 .. Len(e) + Len(t)
  BY <1>1 DEF HeaderAt
<1> QED BY <1>1, <1>2 DEF HeaderAt

(* An action that appends instructions and pushes calls.                   *)
LEMMA StackedStep ==
  ASSUME NEW Defs, emitted \in Seq(CoutInstrs), NEW n \in Nat, NEW t \in Seq(CoutInstrs), Once(t),
         emitted' = emitted \o t, NEW s, Calls(s, emitted, Defs, n),
         \A l \in Labels(t) : Free(l, s, emitted) /\ Past(l, n)
  PROVE  emitted' \in Seq(CoutInstrs) /\ Calls(s, emitted', Defs, n)
<1>1. emitted' \in Seq(CoutInstrs)
  BY SomeInstrs
<1>2. \A m : HeaderAt(emitted, m) => HeaderAt(emitted', m)
  BY HeadersKept
<1>3. Stacked(s, emitted', Defs)
  BY <1>2, HeadersStay DEF Calls
<1>4. Distinct(s, emitted', n)
  BY DistinctEmitted DEF Calls
<1> QED BY <1>1, <1>3, <1>4 DEF Calls

LEMMA AnyStep ==
  ASSUME NEW Defs, Emits(Defs), Counts, NEW below, Calls(below, emitted, Defs, pos'.lbl_id),
         Undecided(below), NEW calls, Ordinary(calls, Defs),
         NEW instrs \in Seq(SteadyInstrs), Once(instrs),
         \A l \in Labels(instrs) : Free(l, below, emitted) /\ Past(l, pos'.lbl_id),
         todo' = calls \o below, emitted' = emitted \o instrs
  PROVE  Emits(Defs)'
<1>1. emitted \in Seq(CoutInstrs) /\ FlagsReach(emitted) /\ instrs \in Seq(CoutInstrs)
  BY SomeInstrs DEF Emits
<1>2. emitted' \in Seq(CoutInstrs) /\ Calls(below, emitted', Defs, pos'.lbl_id)
  BY <1>1, StackedStep DEF Counts
<1>3. FlagsReach(emitted')
  BY <1>1, FlagsKept
<1>4. Calls(todo', emitted', Defs, pos'.lbl_id) /\ Undecided(todo')
  BY <1>2, OrdinaryCallsPushed
<1> QED BY <1>2, <1>3, <1>4 DEF Emits

LEMMA PlainEmitted ==
  ASSUME NEW Defs, Emits(Defs), Counts, NEW below, Calls(below, emitted, Defs, pos'.lbl_id),
         Undecided(below), NEW calls, Ordinary(calls, Defs), NEW instrs \in Seq(PlainInstrs),
         todo' = calls \o below, emitted' = emitted \o instrs
  PROVE  Emits(Defs)'
<1>1. instrs \in Seq(SteadyInstrs) /\ Once(instrs) /\ Labels(instrs) = {}
  BY SomeInstrs, OneLabel
<1> QED BY <1>1, AnyStep

(* What is below the call that runs, which is no rest of a function.       *)
LEMMA Below ==
  ASSUME NEW Defs, Emits(Defs), todo # <<>>
  PROVE  /\ Calls(Tail(todo), emitted, Defs, pos.lbl_id) /\ This = todo[1] /\ IsCall(This, Defs)
         /\ Counts => Calls(Tail(todo), emitted, Defs, pos'.lbl_id)
         /\ This.fn # "emit" => Undecided(Tail(todo))
         /\ This.fn \notin {"branch", "loop"} => ~ Decided(This)
<1>1. Stacked(todo, emitted, Defs) /\ Distinct(todo, emitted, pos.lbl_id) /\ Sequence(todo)
  BY DEF Emits, Calls, Stacked
<1>2. /\ Stacked(Tail(todo), emitted, Defs) /\ Head(todo) = todo[1] /\ IsCall(todo[1], Defs)
      /\ Undecided(Tail(todo)) \/ Tests(todo[1])
  BY <1>1, Popped
<1>3. Distinct(Tail(todo), emitted, pos.lbl_id)
  BY <1>1, DistinctPopped
<1>4. Counts => Distinct(Tail(todo), emitted, pos'.lbl_id)
  BY <1>3, DistinctLater DEF Counts
<1> QED BY <1>2, <1>3, <1>4 DEF This, Tests, IsCall, Asks, Calls

(* The labels it owes are its own.                                         *)
LEMMA OwedByThis ==
  ASSUME NEW Defs, Emits(Defs), Counts, todo # <<>>
  PROVE  /\ This.fn = "emit" => Once(This.instrs)
         /\ \A l \in Owed(This) : Free(l, Tail(todo), emitted) /\ Past(l, pos'.lbl_id)
<1>1. Distinct(todo, emitted, pos.lbl_id) /\ Sequence(todo)
  BY DEF Emits, Calls, Stacked
<1>2. /\ todo[1].fn = "emit" => Once(todo[1].instrs)
      /\ \A l \in Owed(todo[1]) : Free(l, Tail(todo), emitted) /\ Past(l, pos.lbl_id)
  BY <1>1, DistinctPopped
<1>3. \A l : Past(l, pos.lbl_id) => Past(l, pos'.lbl_id)
  BY PastLater DEF Counts
<1>4. This = todo[1]
  BY Below
<1> QED BY <1>2, <1>3, <1>4

LEMMA GoesStep ==
  ASSUME NEW Defs, Emits(Defs), Counts, todo # <<>>, This.fn # "emit",
         NEW calls, Ordinary(calls, Defs), NEW instrs \in Seq(PlainInstrs),
         Does(calls, instrs) \/ Goes(calls, instrs) \/ Fails(calls, instrs)
  PROVE  Emits(Defs)'
<1>1. todo' = calls \o Tail(todo) /\ emitted' = emitted \o instrs
  BY DEF Does, Goes, Fails, Runs
<1>2. Calls(Tail(todo), emitted, Defs, pos'.lbl_id) /\ Undecided(Tail(todo))
  BY Below
<1> QED BY <1>1, <1>2, PlainEmitted

(* An action that defines a label.                                         *)
LEMMA DefinesStep ==
  ASSUME NEW Defs, Emits(Defs), Counts, todo # <<>>, This.fn # "emit",
         NEW instrs \in Seq(SteadyInstrs), NEW lbl, Labels(instrs) = {lbl}, Once(instrs),
         Free(lbl, Tail(todo), emitted), Past(lbl, pos'.lbl_id),
         Does(<<>>, instrs)
  PROVE  Emits(Defs)'
<1>1. todo' = <<>> \o Tail(todo) /\ emitted' = emitted \o instrs
  BY DEF Does, Runs
<1>2. Calls(Tail(todo), emitted, Defs, pos'.lbl_id) /\ Undecided(Tail(todo))
  BY Below
<1>3. Ordinary(<<>>, Defs)
  BY DEF Ordinary, Sequence
<1>4. \A l \in Labels(instrs) : Free(l, Tail(todo), emitted) /\ Past(l, pos'.lbl_id)
  OBVIOUS
<1> QED BY <1>1, <1>2, <1>3, <1>4, AnyStep

LEMMA EmitsUnchanged ==
  ASSUME NEW Defs, Emits(Defs), Counts, todo' = todo, emitted' = emitted
  PROVE  Emits(Defs)'
<1>1. Distinct(todo, emitted, pos'.lbl_id)
  BY DistinctLater DEF Emits, Calls, Counts
<1> QED BY <1>1 DEF Emits, Calls

(* Frames.                                                                 *)
LEMMA OrdinaryFrames ==
  ASSUME WordsAreStrings, NEW Defs
  PROVE  /\ \A fn, node, req :
              /\ req \in Nat
              /\ fn = "compileVarDef" => node \in Defs
              /\ fn \notin Particular \cup {"emit"}
              => OrdinaryCall(Frame(fn, node, req), Defs)
         /\ \A node, req, wr : req \in Nat /\ wr \in Nat =>
              OrdinaryCall(Writes("compileSetDst", node, req, wr), Defs)
         /\ \A instrs \in Seq(PlainInstrs) : OrdinaryCall(Later(instrs), Defs)
         /\ \A node, req : req \in Nat => OrdinaryCall(Block(node, req), Defs)
<1>1. /\ <<>> \in Seq(PlainInstrs) /\ 0 \in Nat /\ 1 \in Nat
      /\ "NVR" \in FlagConditions
  BY SomeInstrs DEF FlagConditions
<1> DEFINE Good(f) == /\ DOMAIN f = {"fn", "node", "req", "wr", "cnt", "cond", "id", "old", "instrs"}
                      /\ f.wr \in Nat /\ f.cnt \in Nat /\ f.id \in Nat
                      /\ f.cond = "NVR" /\ f.instrs \in Seq(PlainInstrs)
<1>2. ASSUME NEW f, Good(f), f.req \in Nat, f.fn = "compileVarDef" => f.node \in Defs,
             f.fn \notin Particular
      PROVE  OrdinaryCall(f, Defs)
  <2>1. f.instrs \in Seq(SteadyInstrs)
    BY <1>2, SomeInstrs
  <2> QED BY <1>1, <1>2, <2>1 DEF OrdinaryCall, IsCall, Decided
<1>3. ASSUME NEW fn, NEW node, NEW req
      PROVE  LET f == Frame(fn, node, req)
             IN  Good(f) /\ f.fn = fn /\ f.node = node /\ f.req = req
  BY <1>1 DEF Frame
<1>4. ASSUME NEW fn, NEW node, NEW req, NEW wr \in Nat
      PROVE  LET f == Writes(fn, node, req, wr)
             IN  Good(f) /\ f.fn = fn /\ f.node = node /\ f.req = req
  BY <1>1 DEF Frame, Writes
<1>5. ASSUME NEW instrs \in Seq(PlainInstrs)
      PROVE  LET f == Later(instrs)
             IN  Good(f) /\ f.fn = "emit" /\ f.req = 0
  BY <1>1 DEF Frame, Later
<1> HIDE DEF Good
<1>6. ASSUME NEW fn, NEW node, NEW req, req \in Nat, fn = "compileVarDef" => node \in Defs,
             fn \notin Particular
      PROVE  OrdinaryCall(Frame(fn, node, req), Defs)
  BY <1>2, <1>3, <1>6
<1>7. ASSUME NEW node, NEW req, NEW wr, req \in Nat, wr \in Nat
      PROVE  OrdinaryCall(Writes("compileSetDst", node, req, wr), Defs)
  BY <1>2, <1>4, <1>7 DEF Particular
<1>8. ASSUME NEW instrs \in Seq(PlainInstrs)
      PROVE  OrdinaryCall(Later(instrs), Defs)
  BY <1>1, <1>2, <1>5 DEF Particular
<1>9. ASSUME NEW node, NEW req, req \in Nat
      PROVE  OrdinaryCall(Block(node, req), Defs)
  BY <1>6, <1>9 DEF Block, Particular
<1> QED BY <1>6, <1>7, <1>8, <1>9

(* The rest of a function keeps its locals.                                *)
LEMMA RestOrdinary ==
  ASSUME NEW Defs, NEW f, IsCall(f, Defs), NEW g, DOMAIN g = DOMAIN f,
         g.req = f.req, g.wr = f.wr, g.cnt = f.cnt, g.cond = f.cond, g.instrs = f.instrs,
         g.id \in Nat, ~ Decided(f),
         g.fn \notin Particular \cup {"compileVarDef", "emit"}
  PROVE  OrdinaryCall(g, Defs)
BY DEF IsCall, Decided, OrdinaryCall

LEMMA OrdinaryCalls ==
  ASSUME NEW Defs
  PROVE  /\ Ordinary(<<>>, Defs)
         /\ \A f : OrdinaryCall(f, Defs) => Ordinary(<<f>>, Defs)
         /\ \A f, g : OrdinaryCall(f, Defs) /\ OrdinaryCall(g, Defs) => Ordinary(<<f, g>>, Defs)
         /\ \A s, t : Ordinary(s, Defs) /\ Ordinary(t, Defs) => Ordinary(s \o t, Defs)
<1>1. Ordinary(<<>>, Defs)
  BY DEF Ordinary, Sequence
<1>2. ASSUME NEW f, OrdinaryCall(f, Defs) PROVE Ordinary(<<f>>, Defs)
  <2>1. <<f>> \in Seq({f}) /\ Len(<<f>>) = 1 /\ <<f>>[1] = f
    OBVIOUS
  <2>2. \A k \in 1 .. Len(<<f>>) : <<f>>[k] = f
    BY <2>1
  <2>3. Sequence(<<f>>)
    BY <2>1 DEF Sequence
  <2> QED BY <1>2, <2>2, <2>3 DEF Ordinary
<1>3. ASSUME NEW f, NEW g, OrdinaryCall(f, Defs), OrdinaryCall(g, Defs)
      PROVE  Ordinary(<<f, g>>, Defs)
  <2>1. <<f, g>> \in Seq({f, g}) /\ Len(<<f, g>>) = 2 /\ <<f, g>>[1] = f /\ <<f, g>>[2] = g
    OBVIOUS
  <2>2. \A k \in 1 .. Len(<<f, g>>) : <<f, g>>[k] = f \/ <<f, g>>[k] = g
    BY <2>1
  <2>3. Sequence(<<f, g>>)
    BY <2>1 DEF Sequence
  <2> QED BY <1>3, <2>2, <2>3 DEF Ordinary
<1>4. ASSUME NEW s, NEW t, Ordinary(s, Defs), Ordinary(t, Defs)
      PROVE  Ordinary(s \o t, Defs)
  <2>1. Sequence(s) /\ Sequence(t)
    BY <1>4 DEF Ordinary
  <2> SUFFICES ASSUME NEW k \in 1 .. Len(s) + Len(t)
               PROVE  OrdinaryCall((s \o t)[k], Defs)
    BY <2>1, Concatenated DEF Ordinary
  <2>2. CASE k <= Len(s)
    BY <1>4, <2>1, <2>2, Concatenated DEF Ordinary
  <2>3. CASE k > Len(s)
    <3>1. k - Len(s) \in 1 .. Len(t) /\ (s \o t)[k] = t[k - Len(s)]
      BY <2>1, <2>3, Concatenated
    <3> QED BY <1>4, <3>1 DEF Ordinary
  <2> QED BY <2>1, <2>2, <2>3, Concatenated
<1> QED BY <1>1, <1>2, <1>3, <1>4

-----------------------------------------------------------------------------
(* Sequences written out and joined.                                       *)

LEMMA PairJoined ==
  ASSUME NEW a, NEW b
  PROVE  <<a>> \o <<b>> = <<a, b>>
<1> DEFINE S == {a, b}  s == <<a>> \o <<b>>  t == <<a, b>>
<1>1. <<a>> \in Seq(S) /\ <<b>> \in Seq(S) /\ t \in Seq(S)
  OBVIOUS
<1>2. Len(s) = 2 /\ s \in Seq(S) /\ s[1] = a /\ s[2] = b
  BY <1>1
<1>3. Len(t) = 2 /\ t[1] = a /\ t[2] = b
  OBVIOUS
<1> HIDE DEF s, t
<1>4. \A k \in 1 .. Len(s) : s[k] = t[k]
  BY <1>2, <1>3
<1>5. s = t
  BY <1>1, <1>2, <1>3, <1>4, SeqEqual
<1> QED BY <1>5 DEF s, t

LEMMA TripleJoined ==
  ASSUME NEW a, NEW b, NEW c
  PROVE  <<a, b>> \o <<c>> = <<a, b, c>>
<1> DEFINE S == {a, b, c}  s == <<a, b>> \o <<c>>  t == <<a, b, c>>
<1>1. <<a, b>> \in Seq(S) /\ <<c>> \in Seq(S) /\ t \in Seq(S)
  OBVIOUS
<1>2. Len(s) = 3 /\ s \in Seq(S) /\ s[1] = a /\ s[2] = b /\ s[3] = c
  BY <1>1
<1>3. Len(t) = 3 /\ t[1] = a /\ t[2] = b /\ t[3] = c
  OBVIOUS
<1> HIDE DEF s, t
<1>4. \A k \in 1 .. Len(s) : s[k] = t[k]
  BY <1>2, <1>3
<1>5. s = t
  BY <1>1, <1>2, <1>3, <1>4, SeqEqual
<1> QED BY <1>5 DEF s, t

LEMMA Grouped ==
  ASSUME NEW s, NEW u, NEW t, Sequence(s), Sequence(u), Sequence(t)
  PROVE  (s \o u) \o t = s \o (u \o t)
<1>1. PICK S : s \in Seq(S)
  BY DEF Sequence
<1>2. PICK U : u \in Seq(U)
  BY DEF Sequence
<1>3. PICK T : t \in Seq(T)
  BY DEF Sequence
<1> DEFINE X == S \cup U \cup T
<1>4. s \in Seq(X) /\ u \in Seq(X) /\ t \in Seq(X)
  BY <1>1, <1>2, <1>3, SeqMonotonic
<1> HIDE DEF X
<1> QED BY <1>4, ConcatAssociative

LEMMA Associated ==
  /\ \A s, t, u \in Seq(CoutInstrs) : (s \o t) \o u = s \o (t \o u)
  /\ \A i \in CoutInstrs : <<i>> \in Seq(CoutInstrs)
BY ConcatAssociative

LEMMA OneByOne ==
  ASSUME NEW t, Sequence(t)
  PROVE  /\ <<>> \o t = t
         /\ \A a, b : <<a, b>> \o t = <<a>> \o (<<b>> \o t)
         /\ \A a, b, c : <<a, b, c>> \o t = <<a, b>> \o (<<c>> \o t)
<1>1. <<>> \o t = t
  <2>1. PICK T : t \in Seq(T)
    BY DEF Sequence
  <2> QED BY <2>1
<1>2. \A a : Sequence(<<a>>)
  <2>1. \A a : <<a>> \in Seq({a})
    OBVIOUS
  <2> QED BY <2>1 DEF Sequence
<1>3. \A a, b : Sequence(<<a, b>>)
  <2>1. \A a, b : <<a, b>> \in Seq({a, b})
    OBVIOUS
  <2> QED BY <2>1 DEF Sequence
<1>4. ASSUME NEW a, NEW b PROVE <<a, b>> \o t = <<a>> \o (<<b>> \o t)
  <2> DEFINE s == <<a>>  u == <<b>>
  <2>1. Sequence(s) /\ Sequence(u)
    BY <1>2
  <2>2. s \o u = <<a, b>>
    BY PairJoined
  <2> HIDE DEF s, u
  <2>3. (s \o u) \o t = s \o (u \o t)
    BY <2>1, Grouped
  <2> QED BY <2>2, <2>3 DEF s, u
<1>5. ASSUME NEW a, NEW b, NEW c PROVE <<a, b, c>> \o t = <<a, b>> \o (<<c>> \o t)
  <2> DEFINE s == <<a, b>>  u == <<c>>
  <2>1. Sequence(s) /\ Sequence(u)
    BY <1>2, <1>3
  <2>2. s \o u = <<a, b, c>>
    BY TripleJoined
  <2> HIDE DEF s, u
  <2>3. (s \o u) \o t = s \o (u \o t)
    BY <2>1, Grouped
  <2> QED BY <2>2, <2>3 DEF s, u
<1> QED BY <1>1, <1>4, <1>5, Zenon

-----------------------------------------------------------------------------
(* Statements, variables and values.                                       *)

(* What every action finds, and the texts of the labels it may emit.       *)
Known(Nodes, Defs) ==
  /\ WordsAreStrings /\ LabelsAreStrings /\ LabelsTell
  /\ TreesOf(Nodes) /\ TextsOf(Nodes, Defs)
  /\ BackInductive(Nodes) /\ Emits(Defs) /\ Names

LEMMA NodesThere ==
  ASSUME NEW Nodes, NEW Defs, Known(Nodes, Defs), todo # <<>>
  PROVE  /\ Node \in Nodes
         /\ Node.type # "NONE" => Node.left \in Nodes /\ Node.right \in Nodes
         /\ This.fn = "compileVarDef" => Node \in Defs
         /\ This.req \in Nat /\ This.wr \in Nat /\ This.cnt \in Nat /\ This.id \in Nat
         /\ This.cond \in FlagConditions /\ This.instrs \in Seq(SteadyInstrs)
         /\ IsCall(This, Defs)
<1>1. Node \in Nodes /\ (Node.type # "NONE" => Node.left \in Nodes /\ Node.right \in Nodes)
  BY AtFrame DEF Known, BackInductive
<1>2. IsCall(This, Defs)
  BY Below DEF Known
<1> QED BY <1>1, <1>2 DEF IsCall, Node

LEMMA NextIdTyped ==
  ASSUME {"lbl_id", "lvl", "rbp_offset", "code_block_id"} \subseteq DOMAIN pos, pos.lbl_id \in Nat
  PROVE  DOMAIN NextId = DOMAIN pos /\ NextId.lbl_id = pos.lbl_id + 1 /\ NextId.lbl_id \in Nat
BY DEF NextId

LEMMA IdRaised ==
  ASSUME NEW Nodes, NEW Defs, Known(Nodes, Defs),
         \/ pos' = NextId
         \/ pos' = [NextId EXCEPT !.rbp_offset = @ + 1]
         \/ pos' = [NextId EXCEPT !.lvl = @ + 1, !.code_block_id = pos.lbl_id]
  PROVE  pos'.lbl_id = pos.lbl_id + 1
<1>1. /\ {"lbl_id", "lvl", "rbp_offset", "code_block_id"} \subseteq DOMAIN pos
      /\ pos.lbl_id \in Nat
  BY DEF Known, BackInductive, Names
<1>2. DOMAIN NextId = DOMAIN pos /\ NextId.lbl_id = pos.lbl_id + 1
  BY <1>1, NextIdTyped
<1> QED BY <1>1, <1>2

(* A label with the next number is nobody's yet.                           *)
LEMMA FreshLabels ==
  ASSUME NEW Nodes, NEW Defs, Known(Nodes, Defs), pos'.lbl_id = pos.lbl_id + 1
  PROVE  LET id == pos.lbl_id
             Fresh(l) == /\ l \in STRING /\ Past(l, pos'.lbl_id)
                         /\ \A s : Calls(s, emitted, Defs, id) => Free(l, s, emitted)
         IN  /\ Fresh(BlockEnd(id)) /\ Fresh(IfEnd(id)) /\ Fresh(WhileBeg(id)) /\ Fresh(WhileMid(id))
             /\ \A name \in STRING : Fresh(VarLabel(name)) /\ Fresh(FuncLabel(name))
             /\ WhileBeg(id) # WhileMid(id)
<1> DEFINE id == pos.lbl_id
           Fresh(l) == /\ l \in STRING /\ Past(l, pos'.lbl_id)
                       /\ \A s : Calls(s, emitted, Defs, id) => Free(l, s, emitted)
<1>1. /\ WordsAreStrings /\ LabelsAreStrings /\ LabelsTell /\ id \in Nat /\ "" \in STRING
      /\ Prefixes = {"var_", "func_", "!EOCB", "!IF_END", "!WHL_BEG", "!WHL_MID"}
  BY DEF Known, Names, WordsAreStrings, Words, Prefixes
<1>2. ASSUME NEW p \in Prefixes, NEW name \in STRING PROVE Fresh(Label(p, name, id))
  <2> DEFINE l == Label(p, name, id)
  <2>1. l \in STRING
    BY <1>1 DEF LabelsAreStrings
  <2>2. Past(l, id + 1) /\ \A s, e : Distinct(s, e, id) => Free(l, s, e)
    BY <1>1, NewLabel
  <2> HIDE DEF l
  <2>3. \A s : Calls(s, emitted, Defs, id) => Free(l, s, emitted)
    BY <2>2 DEF Calls
  <2> QED BY <2>1, <2>2, <2>3 DEF l
<1>3. Label("!WHL_BEG", "", id) # Label("!WHL_MID", "", id)
  BY <1>1, NewLabel
<1> HIDE DEF Fresh
<1>4. /\ Fresh(BlockEnd(id)) /\ Fresh(IfEnd(id)) /\ Fresh(WhileBeg(id)) /\ Fresh(WhileMid(id))
      /\ \A name \in STRING : Fresh(VarLabel(name)) /\ Fresh(FuncLabel(name))
      /\ WhileBeg(id) # WhileMid(id)
  BY <1>1, <1>2, <1>3 DEF BlockEnd, IfEnd, WhileBeg, WhileMid, VarLabel, FuncLabel
<1> QED BY <1>4, Zenon DEF Fresh

LEMMA LabelInstrs ==
  ASSUME WordsAreStrings, LabelsAreStrings, NEW id \in Nat
  PROVE  \A l \in {BlockEnd(id), IfEnd(id), WhileBeg(id), WhileMid(id)} :
           l \in STRING /\ DefinesAs(emitTableLbl(l), l) /\ emitTablePrototype(l) \in PlainInstrs
<1>1. \A p \in Prefixes : Label(p, "", id) \in STRING
  BY DEF LabelsAreStrings, WordsAreStrings, Words
<1>2. \A l \in {BlockEnd(id), IfEnd(id), WhileBeg(id), WhileMid(id)} : l \in STRING
  BY <1>1 DEF BlockEnd, IfEnd, WhileBeg, WhileMid, Prefixes
<1> QED BY <1>2, TablePlain

(* Instructions that define one label.                                     *)
LEMMA DefinedOnce ==
  ASSUME NEW l, NEW i, DefinesAs(i, l)
  PROVE  /\ <<i>> \in Seq(SteadyInstrs) /\ Labels(<<i>>) = {l} /\ Once(<<i>>)
         /\ \A j \in PlainInstrs :
              <<i, j>> \in Seq(SteadyInstrs) /\ Labels(<<i, j>>) = {l} /\ Once(<<i, j>>)
<1>1. i \in SteadyInstrs /\ PlainInstrs \subseteq SteadyInstrs
  BY DEF DefinesAs, PlainInstrs
<1>2. \A t \in Seq(SteadyInstrs) :
        /\ 1 \in 1 .. Len(t) /\ DefinesAs(t[1], l)
        /\ \A k \in 1 .. Len(t) : k # 1 => t[k] \in PlainInstrs
        => Labels(t) = {l} /\ Once(t)
  BY OneLabel
<1>3. <<i>> \in Seq(SteadyInstrs) /\ Labels(<<i>>) = {l} /\ Once(<<i>>)
  <2> DEFINE t == <<i>>
  <2>1. t \in Seq(SteadyInstrs) /\ Len(t) = 1 /\ t[1] = i
    BY <1>1
  <2> HIDE DEF t
  <2>2. 1 \in 1 .. Len(t) /\ DefinesAs(t[1], l) /\ \A k \in 1 .. Len(t) : k = 1
    BY <2>1
  <2>3. Labels(t) = {l} /\ Once(t)
    BY <1>2, <2>1, <2>2
  <2> QED BY <2>1, <2>3 DEF t
<1>4. ASSUME NEW j \in PlainInstrs
      PROVE  <<i, j>> \in Seq(SteadyInstrs) /\ Labels(<<i, j>>) = {l} /\ Once(<<i, j>>)
  <2> DEFINE t == <<i, j>>
  <2>1. t \in Seq(SteadyInstrs) /\ Len(t) = 2 /\ t[1] = i /\ t[2] = j
    BY <1>1
  <2> HIDE DEF t
  <2>2. \A k \in 1 .. 2 : k # 1 => k = 2
    OBVIOUS
  <2>3. Labels(t) = {l} /\ Once(t)
    BY <1>2, <2>1, <2>2
  <2> QED BY <2>1, <2>3 DEF t
<1> QED BY <1>3, <1>4

LEMMA StructSeqs ==
  ASSUME WordsAreStrings
  PROVE  /\ \A id \in {"ADDSF", "NCB_B", "RCB_B", "NONLIN_B", "SECT_E", "RMSF", "CB_E", "NONLIN_E"} :
              Begin(id) \in PlainInstrs
         /\ \A req \in Nat : emitStructuralInstruction("CB_E", 0, req) \in PlainInstrs
BY StructPlain DEF Begin

LEMMA StatementEmits ==
  ASSUME NEW Nodes, NEW Defs, Known(Nodes, Defs), Counts,
         compileNothing \/ compileCodeBlock \/ compileStatements
  PROVE  Emits(Defs)'
<1> USE DEF Known
<1>1. <<>> \in Seq(PlainInstrs) /\ Ordinary(<<>>, Defs)
  BY SomeInstrs, OrdinaryCalls
<1>2. CASE compileNothing
  <2>1. /\ todo # <<>> /\ This.fn # "emit"
        /\ Goes(<<>>, <<>>) \/ Fails(<<>>, <<>>) \/ Derails
    BY <1>2 DEF compileNothing, At
  <2>2. Derails => UNCHANGED <<todo, emitted, pos>>
    BY DEF Derails, tables
  <2> QED BY <1>1, <2>1, <2>2, GoesStep, EmitsUnchanged
<1>3. CASE compileCodeBlock
  <2>1. /\ todo # <<>> /\ This.fn # "emit"
        /\ Goes(<<Frame("compileCode", Node, This.req)>>, <<>>)
    BY <1>3 DEF compileCodeBlock, At
  <2>2. Ordinary(<<Frame("compileCode", Node, This.req)>>, Defs)
    <3>1. OrdinaryCall(Frame("compileCode", Node, This.req), Defs)
      BY <2>1, NodesThere, OrdinaryFrames DEF Particular
    <3> QED BY <3>1, OrdinaryCalls
  <2> QED BY <1>1, <2>1, <2>2, GoesStep
<1>4. CASE compileStatements
  <2> DEFINE calls == IF This.req > 0 THEN <<Block(Node, This.req)>> ELSE Statements(Node)
  <2>1. todo # <<>> /\ This.fn # "emit" /\ Goes(calls, <<>>)
    BY <1>4 DEF compileStatements, At
  <2>2. This.req \in Nat /\ 0 \in Nat
    BY <2>1, NodesThere
  <2>3. /\ OrdinaryCall(Block(Node, This.req), Defs) /\ OrdinaryCall(Block(Node.right, 0), Defs)
        /\ OrdinaryCall(Frame("compileCode", Node.left, 0), Defs)
    BY <2>2, OrdinaryFrames DEF Particular
  <2>4. Ordinary(calls, Defs)
    BY <2>3, OrdinaryCalls DEF Statements
  <2> HIDE DEF calls
  <2> QED BY <1>1, <2>1, <2>4, GoesStep
<1> QED BY <1>2, <1>3, <1>4

LEMMA BlockEmits ==
  ASSUME NEW Nodes, NEW Defs, Known(Nodes, Defs), Counts, beginCodeBlock \/ endCodeBlock
  PROVE  Emits(Defs)'
<1> USE DEF Known
<1>1. todo # <<>> /\ This.fn # "emit" /\ ~ Decided(This)
  <2>1. todo # <<>> /\ This.fn \notin {"emit", "branch", "loop"}
    BY DEF beginCodeBlock, endCodeBlock, At
  <2> QED BY <2>1, Below
<1>2. /\ This.req \in Nat /\ This.id \in Nat /\ pos.lbl_id \in Nat /\ IsCall(This, Defs)
  BY <1>1, NodesThere DEF Names
<1>3. CASE beginCodeBlock
  <2> DEFINE id == pos.lbl_id  lbl == BlockEnd(id)  below == Tail(todo)
             body == Frame("compileCode", Node, This.req)
             rest == [This EXCEPT !.fn = "endCodeBlock", !.id = id, !.old = pos.code_block_id]
             begin == Begin(IF This.req = 0 THEN "NCB_B" ELSE "RCB_B")
             proto == emitTablePrototype(lbl)
             s == <<rest>> \o below
  <2>1. Does(<<body, rest>>, <<begin, proto>>)
    BY <1>3, Zenon DEF beginCodeBlock
  <2>2. todo' = <<body, rest>> \o below /\ emitted' = emitted \o <<begin, proto>>
    BY <2>1, Zenon DEF Does, Runs
  <2>3. /\ DOMAIN rest = DOMAIN This /\ rest.req = This.req /\ rest.wr = This.wr
        /\ rest.cnt = This.cnt /\ rest.cond = This.cond /\ rest.instrs = This.instrs
        /\ rest.id = id /\ rest.fn = "endCodeBlock"
    BY <1>2 DEF IsCall
  <2>4. OrdinaryCall(body, Defs)
    BY <1>2, OrdinaryFrames DEF Particular
  <2>5. <<begin, proto>> \in Seq(PlainInstrs)
    <3>1. begin \in PlainInstrs
      BY StructSeqs
    <3>2. proto \in PlainInstrs
      BY <1>2, LabelInstrs
    <3> QED BY <3>1, <3>2, SomeInstrs
  <2>6. pos'.lbl_id = id + 1
    BY <1>3, IdRaised DEF beginCodeBlock
  <2>7. /\ Calls(below, emitted, Defs, id) /\ Calls(below, emitted, Defs, pos'.lbl_id)
        /\ Undecided(below)
    BY <1>1, Below
  <2>8. Free(lbl, below, emitted) /\ Past(lbl, pos'.lbl_id)
    BY <2>6, <2>7, FreshLabels
  <2> HIDE DEF body, rest, begin, proto, below, lbl
  <2>9. IsCall(rest, Defs) /\ ~ Decided(rest)
    BY <1>1, <1>2, <2>3 DEF IsCall, Decided
  <2>10. \A l \in Owed(rest) : Free(l, below, emitted) /\ Past(l, pos'.lbl_id)
    BY <2>3, <2>8 DEF Owed, lbl
  <2>11. Calls(s, emitted, Defs, pos'.lbl_id) /\ s # <<>> /\ s[1] = rest
    BY <2>3, <2>7, <2>9, <2>10, CallPushed
  <2>12. todo' = <<body>> \o s
    <3>1. Sequence(below)
      BY <2>7 DEF Calls, Stacked
    <3>2. \A a, b : <<a, b>> \o below = <<a>> \o (<<b>> \o below)
      BY <3>1, OneByOne
    <3> QED BY <2>2, <3>2, Zenon
  <2> HIDE DEF s
  <2>13. Undecided(s) /\ Ordinary(<<body>>, Defs)
    BY <2>4, <2>9, <2>11, OrdinaryCalls DEF Undecided
  <2> QED BY <2>2, <2>5, <2>11, <2>12, <2>13, PlainEmitted
<1>4. CASE endCodeBlock
  <2> DEFINE lbl == BlockEnd(This.id)
             here == emitTableLbl(lbl)  end == emitStructuralInstruction("CB_E", 0, This.req)
  <2>1. Does(<<>>, <<here, end>>) /\ This.fn = "endCodeBlock"
    BY <1>4, Zenon DEF endCodeBlock, At
  <2>2. DefinesAs(here, lbl)
    BY <1>2, LabelInstrs
  <2>3. end \in PlainInstrs
    BY <1>2, StructSeqs
  <2>4. Free(lbl, Tail(todo), emitted) /\ Past(lbl, pos'.lbl_id)
    BY <1>1, <2>1, OwedByThis DEF Owed
  <2> HIDE DEF lbl, here, end
  <2>5. /\ <<here, end>> \in Seq(SteadyInstrs) /\ Labels(<<here, end>>) = {lbl}
        /\ Once(<<here, end>>)
    BY <2>2, <2>3, DefinedOnce
  <2> QED BY <1>1, <2>1, <2>4, <2>5, DefinesStep
<1> QED BY <1>3, <1>4

LEMMA VariableEmits ==
  ASSUME NEW Nodes, NEW Defs, Known(Nodes, Defs), Counts, compileVarDef
  PROVE  Emits(Defs)'
<1> USE DEF Known
<1>1. <<>> \in Seq(PlainInstrs) /\ Ordinary(<<>>, Defs) /\ 0 \in Nat
  BY SomeInstrs, OrdinaryCalls
<1>2. todo # <<>> /\ This.fn # "emit"
  BY DEF compileVarDef, At
<1>3. \A node \in Defs : OrdinaryCall(Frame("compileVarDef", node, 0), Defs)
  BY <1>1, OrdinaryFrames DEF Particular
<1>4. CASE Is(Node, "VDEF") /\ Goes(<<Frame("compileVarDef", Node.right, 0)>>, <<>>)
  <2>1. Node.right \in Defs
    BY <1>2, <1>4, NodesThere DEF TextsOf
  <2>2. Ordinary(<<Frame("compileVarDef", Node.right, 0)>>, Defs)
    BY <1>3, <2>1, OrdinaryCalls
  <2> QED BY <1>1, <1>2, <1>4, <2>2, GoesStep
<1>5. CASE Goes(<<>>, <<>>)
  BY <1>1, <1>2, <1>5, GoesStep
<1>6. CASE /\ At("compileVarDef") /\ Node.type = "OP"
           /\ Goes(<<Frame("compileVarDef", Node.left, 0), Frame("compileVarDef", Node.right, 0)>>,
                   <<>>)
  <2>1. Node.left \in Defs /\ Node.right \in Defs
    BY <1>2, <1>6, NodesThere DEF TextsOf, At
  <2>2. Ordinary(<<Frame("compileVarDef", Node.left, 0), Frame("compileVarDef", Node.right, 0)>>, Defs)
    BY <1>3, <2>1, OrdinaryCalls
  <2> QED BY <1>1, <1>2, <1>6, <2>2, GoesStep
<1>7. CASE /\ At("compileVarDef") /\ Node.type \notin {"NONE", "OP"}
           /\ Does(<<>>, <<emitTableStackVar(VarLabel(Node.data), 1)>>)
           /\ programCreateVar(Node.data)
  <2> DEFINE lbl == VarLabel(Node.data)  i == emitTableStackVar(lbl, 1)
  <2>1. Node \in Nodes /\ Node.type = "VAR" /\ Node.data \in STRING
    BY <1>2, <1>7, NodesThere DEF TextsOf, At
  <2>2. pos'.lbl_id = pos.lbl_id + 1
    BY <1>7, IdRaised DEF programCreateVar
  <2>3. Calls(Tail(todo), emitted, Defs, pos.lbl_id)
    BY <1>2, Below
  <2>4. lbl \in STRING /\ Free(lbl, Tail(todo), emitted) /\ Past(lbl, pos'.lbl_id)
    BY <2>1, <2>2, <2>3, FreshLabels
  <2>5. DefinesAs(i, lbl)
    BY <2>4, TablePlain
  <2> HIDE DEF lbl, i
  <2>6. <<i>> \in Seq(SteadyInstrs) /\ Labels(<<i>>) = {lbl} /\ Once(<<i>>)
    BY <2>5, DefinedOnce
  <2>7. Does(<<>>, <<i>>)
    BY <1>7 DEF i, lbl
  <2> QED BY <1>2, <2>4, <2>6, <2>7, DefinesStep
<1> QED BY <1>4, <1>5, <1>6, <1>7, Zenon DEF compileVarDef

LEMMA ValueEmits ==
  ASSUME NEW Nodes, NEW Defs, Known(Nodes, Defs), Counts,
         compileVarNode \/ compileKVarNode \/ compileConstNode
  PROVE  Emits(Defs)'
<1> USE DEF Known
<1>1. <<>> \in Seq(PlainInstrs) /\ Ordinary(<<>>, Defs)
  BY SomeInstrs, OrdinaryCalls
<1>2. todo # <<>> /\ This.fn # "emit"
  BY DEF compileVarNode, compileKVarNode, compileConstNode, Reached, At
<1>3. /\ Node \in Nodes /\ This.req \in Nat /\ This.wr \in Nat
      /\ This.req \in Int /\ This.wr \in Int
  BY <1>2, NodesThere
<1>4. CASE Derails
  BY <1>4, EmitsUnchanged DEF Derails
<1>5. CASE compileVarNode /\ ~ Derails
  <2> DEFINE p == Max(Found(objVars, Node.data))
             store == compileVarAcc(Node.data, TRUE)  load == compileVarAcc(Node.data, FALSE)
  <2>1. Found(objVars, Node.data) # {} /\ Goes(<<>>, Times(This.wr, store) \o Times(This.req, load))
    BY <1>5 DEF compileVarNode
  <2>2. p \in 1 .. Len(objVars)
    <3>1. Len(objVars) \in Nat /\ DOMAIN objVars = 1 .. Len(objVars)
      BY DEF BackInductive, VarsNest, Sequence
    <3>2. Found(objVars, Node.data) \in SUBSET (0 .. Len(objVars))
      BY <3>1 DEF Found
    <3>3. p \in Found(objVars, Node.data)
      <4> DEFINE S == Found(objVars, Node.data)
      <4>1. S \in SUBSET (0 .. Len(objVars)) /\ S # {}
        BY <2>1, <3>2
      <4> HIDE DEF S
      <4>2. Max(S) \in S
        BY <3>1, <4>1, MaxFacts
      <4> QED BY <4>2 DEF S
    <3> QED BY <3>1, <3>3 DEF Found
  <2>3. objVars[p].lbl \in STRING
    BY <2>2 DEF Names, Labelled
  <2>4. {"bp"} \in MemMods /\ TRUE \in BOOLEAN /\ FALSE \in BOOLEAN
    BY DEF MemMods
  <2>5. store \in PlainInstrs /\ load \in PlainInstrs
    BY <2>3, <2>4, MemPlain DEF compileVarAcc
  <2> HIDE DEF store, load
  <2>6. Times(This.wr, store) \o Times(This.req, load) \in Seq(PlainInstrs)
    BY <1>3, <2>5, Repeated, SomeInstrs
  <2> QED BY <1>1, <1>2, <2>1, <2>6, GoesStep
<1>6. CASE compileKVarNode
  <2>1. \/ Fails(<<>>, <<>>)
        \/ Node.data \in Keywords /\ Goes(<<>>, KVarCode(Node.data, This.wr, This.req))
    BY <1>6 DEF compileKVarNode
  <2>2. Node.data \in Keywords => KVarCode(Node.data, This.wr, This.req) \in Seq(PlainInstrs)
    BY <1>3, KVarSeq
  <2> QED BY <1>1, <1>2, <2>1, <2>2, GoesStep
<1>7. CASE compileConstNode
  <2> DEFINE instrs == IF This.req = 0 THEN <<>>
                       ELSE <<emitConstInstruction(Node.data)>> \o Copies(This.req)
  <2>1. Node.type = "CONST" /\ Goes(<<>>, instrs)
    BY <1>7 DEF compileConstNode
  <2>2. instrs \in Seq(PlainInstrs)
    <3>1. emitConstInstruction(Node.data) \in PlainInstrs
      BY <1>3, <2>1, ConstPlain DEF TextsOf
    <3>2. Copies(This.req) \in Seq(PlainInstrs)
      BY <1>3, GenericSeqs
    <3> QED BY <1>1, <3>1, <3>2, SomeInstrs
  <2> HIDE DEF instrs
  <2> QED BY <1>1, <1>2, <2>1, <2>2, GoesStep
<1> QED BY <1>4, <1>5, <1>6, <1>7

(* What is left of a function is emitted: a comparison, if the call below  *)
(* knows its condition already; and the label it owes, if it owes one.     *)
LEMMA RestEmits ==
  ASSUME NEW Nodes, NEW Defs, Known(Nodes, Defs), Counts, emitRest
  PROVE  Emits(Defs)'
<1> USE DEF Known
<1>1. /\ todo # <<>> /\ todo' = <<>> \o Tail(todo) /\ emitted' = emitted \o This.instrs
      /\ This.fn = "emit"
  BY DEF emitRest, At, Goes, Does, Runs
<1>2. /\ Stacked(todo, emitted, Defs) /\ emitted \in Seq(CoutInstrs) /\ FlagsReach(emitted)
  BY DEF Emits, Calls
<1>3. /\ Calls(Tail(todo), emitted, Defs, pos'.lbl_id) /\ This = todo[1]
      /\ Undecided(Tail(todo)) \/ Tests(This)
  <2>1. This = todo[1] /\ (Undecided(Tail(todo)) \/ Tests(This))
    BY <1>1, <1>2, Popped DEF This
  <2> QED BY <1>1, <2>1, Below
<1>4. This.instrs \in Seq(SteadyInstrs) /\ This.instrs \in Seq(CoutInstrs)
  BY <1>1, NodesThere, SomeInstrs
<1>5. todo' = Tail(todo)
  BY <1>1, <1>3, OneByOne DEF Calls, Stacked
<1>6. /\ Once(This.instrs)
      /\ \A l \in Labels(This.instrs) : Free(l, Tail(todo), emitted) /\ Past(l, pos'.lbl_id)
  BY <1>1, OwedByThis DEF Owed
<1>7. emitted' \in Seq(CoutInstrs) /\ Calls(todo', emitted', Defs, pos'.lbl_id)
  BY <1>1, <1>2, <1>3, <1>4, <1>5, <1>6, StackedStep DEF Counts
<1>8. FlagsReach(emitted')
  BY <1>1, <1>2, <1>4, FlagsKept
<1>9. CASE Tests(This)
  <2> DEFINE t == This.instrs
  <2>1. t # <<>> /\ IsTest(t[Len(t)])
    BY <1>9 DEF Tests, EndsInTest
  <2>2. t \in Seq(CoutInstrs)
    BY <1>4
  <2> HIDE DEF t
  <2>3. Len(t) \in 1 .. Len(t)
    BY <2>1, <2>2
  <2>4. /\ Len(emitted \o t) = Len(emitted) + Len(t) /\ Len(emitted) \in Nat
        /\ (emitted \o t)[Len(emitted) + Len(t)] = t[Len(t)]
    BY <1>2, <2>2, <2>3, Joined
  <2>5. emitted \o t # <<>>
    BY <2>3, <2>4
  <2>6. EndsInTest(emitted')
    BY <1>1, <2>1, <2>4, <2>5 DEF EndsInTest, t
  <2> QED BY <1>7, <1>8, <2>6 DEF Emits
<1>10. CASE Undecided(Tail(todo))
  BY <1>5, <1>7, <1>8, <1>10 DEF Emits
<1> QED BY <1>3, <1>9, <1>10

-----------------------------------------------------------------------------
(* Assignments and operations.                                             *)

LEMMA TargetEmits ==
  ASSUME NEW Nodes, NEW Defs, Known(Nodes, Defs), Counts, compileSetDst
  PROVE  Emits(Defs)'
<1> USE DEF Known
<1>1. /\ <<>> \in Seq(PlainInstrs) /\ Ordinary(<<>>, Defs) /\ 0 \in Nat /\ 1 \in Nat
      /\ <<Gen("DUP")>> \in Seq(PlainInstrs)
  BY SomeInstrs, OrdinaryCalls, GenericSeqs DEF GenericInstrs
<1>2. todo # <<>> /\ This.fn \notin {"emit", "branch", "loop"}
  BY DEF compileSetDst, At
<1>3. /\ This.req \in Nat /\ This.wr \in Nat /\ IsCall(This, Defs) /\ ~ Decided(This)
  BY <1>2, NodesThere, Below
<1>4. CASE Fails(<<>>, <<>>) \/ Derails
  BY <1>1, <1>2, <1>4, GoesStep, EmitsUnchanged DEF Derails
<1>5. \A node, req : req \in Nat => OrdinaryCall(Writes("compileSetDst", node, req, This.wr), Defs)
  BY <1>3, OrdinaryFrames DEF Particular
<1>6. ASSUME NEW req1 \in Nat, NEW req2 \in Nat,
             Goes(<<Writes("compileSetDst", Node.left, req1, This.wr),
                    Writes("compileSetDst", Node.left, req2, This.wr)>>, <<Gen("DUP")>>)
      PROVE  Emits(Defs)'
  <2>1. Ordinary(<<Writes("compileSetDst", Node.left, req1, This.wr),
                   Writes("compileSetDst", Node.left, req2, This.wr)>>, Defs)
    BY <1>5, OrdinaryCalls
  <2> QED BY <1>1, <1>2, <1>6, <2>1, GoesStep
<1>7. CASE Goes(<<Block(Node.right, 1), [This EXCEPT !.fn = "derefTarget"]>>, <<>>)
  <2> DEFINE rest == [This EXCEPT !.fn = "derefTarget"]
  <2>1. /\ DOMAIN rest = DOMAIN This /\ rest.req = This.req /\ rest.wr = This.wr
        /\ rest.cnt = This.cnt /\ rest.cond = This.cond /\ rest.instrs = This.instrs
        /\ rest.id \in Nat /\ rest.fn = "derefTarget"
    BY <1>3 DEF IsCall
  <2> HIDE DEF rest
  <2>2. OrdinaryCall(rest, Defs)
    BY <1>3, <2>1, RestOrdinary DEF Particular
  <2>3. OrdinaryCall(Block(Node.right, 1), Defs)
    BY <1>1, OrdinaryFrames DEF Particular
  <2>4. Ordinary(<<Block(Node.right, 1), rest>>, Defs)
    BY <2>2, <2>3, OrdinaryCalls
  <2> QED BY <1>1, <1>2, <1>7, <2>4, GoesStep DEF rest
<1>8. CASE Fails(<<>>, IF This.wr > 0 /\ This.req > 0 THEN <<>>
                       ELSE <<emitMemInstruction({"arg"}, This.wr > 0, 0)>>)
  <2>1. emitMemInstruction({"arg"}, This.wr > 0, 0) \in PlainInstrs
    <3>1. {"arg"} \in MemMods /\ (This.wr > 0) \in BOOLEAN
      BY DEF MemMods
    <3>2. "-" \in STRING
      BY DEF WordsAreStrings, Words
    <3> QED BY <3>1, <3>2, MemPlain
  <2>2. (IF This.wr > 0 /\ This.req > 0 THEN <<>>
         ELSE <<emitMemInstruction({"arg"}, This.wr > 0, 0)>>) \in Seq(PlainInstrs)
    BY <1>1, <2>1, SomeInstrs
  <2> QED BY <1>1, <1>2, <1>8, <2>2, GoesStep
<1>9. CASE Goes(<<Writes("compileSetDst", Node.left, 0, This.wr),
                  Writes("compileSetDst", Node.left, This.req, This.wr)>>, <<Gen("DUP")>>)
  BY <1>1, <1>3, <1>6, <1>9
<1>10. CASE Goes(<<Writes("compileSetDst", Node.left, This.req, This.wr),
                  Writes("compileSetDst", Node.left, 0, This.wr)>>, <<Gen("DUP")>>)
  BY <1>1, <1>3, <1>6, <1>10
<1> QED BY <1>4, <1>7, <1>8, <1>9, <1>10, Zenon DEF compileSetDst

LEMMA AssignmentEmits ==
  ASSUME NEW Nodes, NEW Defs, Known(Nodes, Defs), Counts, compileAssignment
  PROVE  Emits(Defs)'
<1> USE DEF Known
<1>1. <<>> \in Seq(PlainInstrs) /\ Ordinary(<<>>, Defs) /\ 0 \in Nat /\ 1 \in Nat
  BY SomeInstrs, OrdinaryCalls
<1> DEFINE added == IF Is(Node, "EQARTL") THEN <<Block(Node.left, 1), Later(<<Gen("ADD")>>)>>
                    ELSE <<>>
           target == <<Writes("compileSetDst", Node.left, This.req, 1)>>
           front == <<Block(Node.right, 1)>>
<1>2. /\ todo # <<>> /\ This.fn # "emit" /\ Goes(front \o added \o target, <<>>)
  BY DEF compileAssignment, At
<1>3. This.req \in Nat
  BY <1>2, NodesThere
<1>4. /\ OrdinaryCall(Block(Node.right, 1), Defs) /\ OrdinaryCall(Block(Node.left, 1), Defs)
      /\ OrdinaryCall(Writes("compileSetDst", Node.left, This.req, 1), Defs)
  BY <1>1, <1>3, OrdinaryFrames DEF Particular
<1>5. OrdinaryCall(Later(<<Gen("ADD")>>), Defs)
  <2>1. <<Gen("ADD")>> \in Seq(PlainInstrs)
    BY GenericSeqs DEF GenericInstrs
  <2> QED BY <2>1, OrdinaryFrames DEF Particular
<1>6. Ordinary(added, Defs) /\ Ordinary(target, Defs) /\ Ordinary(front, Defs)
  BY <1>1, <1>4, <1>5, OrdinaryCalls
<1> HIDE DEF added, target, front
<1>7. Ordinary(front \o added \o target, Defs)
  BY <1>6, OrdinaryCalls
<1> QED BY <1>1, <1>2, <1>7, GoesStep

LEMMA OperandsOrdinary ==
  ASSUME WordsAreStrings, NEW Defs, NEW node
  PROVE  /\ Ordinary(IF LacksOperand(node) THEN <<>> ELSE Operands(node), Defs)
         /\ \A instrs \in Seq(PlainInstrs) : Ordinary(GenericOp(node, instrs), Defs)
<1>1. 1 \in Nat
  OBVIOUS
<1>2. /\ OrdinaryCall(Block(node.left, 1), Defs) /\ OrdinaryCall(Block(node.right, 1), Defs)
      /\ \A instrs \in Seq(PlainInstrs) : OrdinaryCall(Later(instrs), Defs)
  BY <1>1, OrdinaryFrames DEF Particular
<1>3. /\ Ordinary(IF IsNone(node.left) THEN <<>> ELSE <<Block(node.left, 1)>>, Defs)
      /\ Ordinary(<<Block(node.right, 1)>>, Defs)
  BY <1>2, OrdinaryCalls
<1>4. Ordinary(Operands(node), Defs)
  BY <1>3, OrdinaryCalls DEF Operands
<1>5. Ordinary(IF LacksOperand(node) THEN <<>> ELSE Operands(node), Defs)
  BY <1>4, OrdinaryCalls
<1>6. \A instrs \in Seq(PlainInstrs) : Ordinary(<<Later(instrs)>>, Defs)
  BY <1>2, OrdinaryCalls
<1> QED BY <1>5, <1>6, OrdinaryCalls DEF GenericOp

LEMMA OperationEmits ==
  ASSUME NEW Nodes, NEW Defs, Known(Nodes, Defs), Counts, compileMathOp
  PROVE  Emits(Defs)'
<1> USE DEF Known
<1>1. <<>> \in Seq(PlainInstrs) /\ Ordinary(<<>>, Defs)
  BY SomeInstrs, OrdinaryCalls
<1>2. todo # <<>> /\ This.fn # "emit"
  BY DEF compileMathOp, At
<1>3. CASE Goes(<<>>, <<>>)
  BY <1>1, <1>2, <1>3, GoesStep
<1>4. CASE ~ Goes(<<>>, <<>>)
  <2> DEFINE instrs == IF Node.data \in Arithmetic THEN <<Gen(Node.data)>> ELSE <<>>
  <2>1. Does(GenericOp(Node, instrs), <<>>)
    BY <1>4 DEF compileMathOp
  <2>2. instrs \in Seq(PlainInstrs)
    BY <1>1, GenericSeqs DEF Arithmetic, GenericInstrs
  <2> HIDE DEF instrs
  <2>3. Ordinary(GenericOp(Node, instrs), Defs)
    BY <2>2, OperandsOrdinary
  <2> QED BY <1>1, <1>2, <2>1, <2>3, GoesStep
<1> QED BY <1>3, <1>4

LEMMA OtherEmits ==
  ASSUME NEW Nodes, NEW Defs, Known(Nodes, Defs), Counts, compileMiscOp \/ endOfProgram \/ overflow
  PROVE  Emits(Defs)'
<1> USE DEF Known
<1>1. <<>> \in Seq(PlainInstrs) /\ Ordinary(<<>>, Defs) /\ 1 \in Nat
  BY SomeInstrs, OrdinaryCalls
<1>2. CASE endOfProgram \/ overflow
  BY <1>2, EmitsUnchanged DEF endOfProgram, overflow
<1>3. CASE compileMiscOp
  <2>1. todo # <<>> /\ This.fn \notin {"emit", "branch", "loop"}
    BY <1>3 DEF compileMiscOp, At
  <2>2. This.req \in Nat /\ IsCall(This, Defs) /\ ~ Decided(This)
    BY <2>1, NodesThere, Below
  <2>3. CASE Goes(<<>>, <<>>)
    BY <1>1, <2>1, <2>3, GoesStep
  <2>4. CASE Goes(<<Block(Node.right, 1), [This EXCEPT !.fn = "derefValue", !.old = ret]>>, <<>>)
    <3> DEFINE rest == [This EXCEPT !.fn = "derefValue", !.old = ret]
    <3>1. /\ DOMAIN rest = DOMAIN This /\ rest.req = This.req /\ rest.wr = This.wr
          /\ rest.cnt = This.cnt /\ rest.cond = This.cond /\ rest.instrs = This.instrs
          /\ rest.id \in Nat /\ rest.fn = "derefValue"
      BY <2>2 DEF IsCall
    <3> HIDE DEF rest
    <3>2. OrdinaryCall(rest, Defs)
      BY <2>2, <3>1, RestOrdinary DEF Particular
    <3>3. OrdinaryCall(Block(Node.right, 1), Defs)
      BY <1>1, OrdinaryFrames DEF Particular
    <3>4. Ordinary(<<Block(Node.right, 1), rest>>, Defs)
      BY <3>2, <3>3, OrdinaryCalls
    <3> QED BY <1>1, <2>1, <2>4, <3>4, GoesStep DEF rest
  <2>5. CASE Does(<<>>, derefInstrs(This.req))
    <3> DEFINE read == emitMemInstruction({"arg"}, FALSE, 0)
    <3>1. read \in PlainInstrs
      <4>1. {"arg"} \in MemMods /\ FALSE \in BOOLEAN
        BY DEF MemMods
      <4>2. "-" \in STRING
        BY DEF WordsAreStrings, Words
      <4> QED BY <4>1, <4>2, MemPlain
    <3> HIDE DEF read
    <3>2. Copies(This.req) \in Seq(PlainInstrs)
      BY <2>2, GenericSeqs
    <3>3. <<read>> \o Copies(This.req) \in Seq(PlainInstrs)
      BY <3>1, <3>2, SomeInstrs
    <3>4. derefInstrs(This.req) \in Seq(PlainInstrs)
      BY <3>3 DEF derefInstrs, read
    <3> QED BY <1>1, <2>1, <2>5, <3>4, GoesStep
  <2> QED BY <1>3, <2>3, <2>4, <2>5, Zenon DEF compileMiscOp
<1> QED BY <1>2, <1>3

-----------------------------------------------------------------------------
(* Conditions, branches and loops.                                         *)

(* The branch or loop that asked is the next call: it is told.             *)
LEMMA ToldStacked ==
  ASSUME NEW Defs, NEW e, NEW n, NEW s, Calls(s, e, Defs, n), s # <<>>, Asks(s[1]),
         NEW cond \in FlagConditions
  PROVE  /\ Calls(Told(s, cond), e, Defs, n)
         /\ cond \in {"ALW", "NVR"} => Undecided(Told(s, cond))
<1> DEFINE S == {k \in DOMAIN s : s[k].fn \in {"branch", "loop"}}
           f == [s[1] EXCEPT !.cond = cond]
           t == [s EXCEPT ![1] = f]
<1>1. Stacked(s, e, Defs) /\ Distinct(s, e, n)
  BY DEF Calls
<1>2. PICK T : s \in Seq(T)
  BY <1>1 DEF Stacked, Sequence
<1>3. /\ Len(s) \in Nat /\ DOMAIN s = 1 .. Len(s) /\ s \in [1 .. Len(s) -> T] /\ 1 \in 1 .. Len(s)
  BY <1>2
<1>4. Min(S) = 1
  <2>1. S \subseteq Nat /\ 1 \in S /\ \A k \in S : k >= 1
    BY <1>3 DEF Asks
  <2> HIDE DEF S
  <2>2. Min(S) \in S /\ \A k \in S : Min(S) <= k
    BY <2>1, MinFacts
  <2>3. Min(S) <= 1 /\ Min(S) >= 1 /\ Min(S) \in Nat
    BY <2>1, <2>2
  <2> QED BY <2>3
<1>5. Told(s, cond) = t
  BY <1>4 DEF Told
<1>6. IsCall(s[1], Defs)
  BY <1>1, <1>3 DEF Stacked
<1>7. /\ DOMAIN f = DOMAIN s[1] /\ f.fn = s[1].fn /\ f.id = s[1].id /\ f.instrs = s[1].instrs
      /\ f.cond = cond /\ f.req = s[1].req /\ f.wr = s[1].wr /\ f.cnt = s[1].cnt
      /\ f.node = s[1].node
  BY <1>6 DEF IsCall
<1> HIDE DEF f
<1>8. IsCall(f, Defs)
  BY <1>6, <1>7 DEF IsCall, Asks
<1>9. t \in [1 .. Len(s) -> T \cup {f}]
  BY <1>3
<1>10. t \in Seq(T \cup {f}) /\ Len(t) = Len(s)
  BY <1>3, <1>9, IsASeq
<1>11. \A k \in 1 .. Len(s) : t[k] = IF k = 1 THEN f ELSE s[k]
  BY <1>3
<1>12. \A k \in 1 .. Len(s) : IsCall(s[k], Defs)
  BY <1>1 DEF Stacked
<1> HIDE DEF t
<1>13. Sequence(t)
  BY <1>10 DEF Sequence
<1>14. \A k \in 1 .. Len(s) :
         /\ IsCall(t[k], Defs)
         /\ t[k].fn = s[k].fn /\ t[k].id = s[k].id /\ t[k].instrs = s[k].instrs
         /\ k # 1 => t[k].cond = s[k].cond
  BY <1>7, <1>8, <1>11, <1>12
<1>15. Calls(t, e, Defs, n)
  <2>1. Stacked(t, e, Defs)
    BY <1>1, <1>10, <1>13, <1>14, LocalsChanged
  <2>2. Distinct(t, e, n)
    BY <1>1, <1>10, <1>14, DistinctSame
  <2> QED BY <2>1, <2>2 DEF Calls
<1>16. cond \in {"ALW", "NVR"} => Undecided(t)
  BY <1>3, <1>7, <1>11 DEF Undecided, Decided
<1> QED BY <1>5, <1>15, <1>16

LEMMA ConditionEmits ==
  ASSUME NEW Nodes, NEW Defs, Known(Nodes, Defs), Counts, compileLogicalExpr
  PROVE  Emits(Defs)'
<1> USE DEF Known
<1>1. <<>> \in Seq(PlainInstrs) /\ Ordinary(<<>>, Defs) /\ 0 \in Nat /\ 1 \in Nat
  BY SomeInstrs, OrdinaryCalls
<1> DEFINE below == Tail(todo)
<1>2. /\ todo # <<>> /\ This.fn = "compileLogicalExpr"
  BY DEF compileLogicalExpr, At
<1>3. /\ Calls(below, emitted, Defs, pos'.lbl_id) /\ Undecided(below)
      /\ below # <<>> /\ Asks(below[1])
  <2>1. Stacked(todo, emitted, Defs)
    BY DEF Emits, Calls
  <2>2. /\ This = todo[1]
        /\ todo[1].fn = "compileLogicalExpr" => Tail(todo) # <<>> /\ Asks(Tail(todo)[1])
    BY <1>2, <2>1, Popped DEF This
  <2>3. Calls(Tail(todo), emitted, Defs, pos'.lbl_id) /\ Undecided(Tail(todo))
    BY <1>2, Below
  <2> QED BY <1>2, <2>2, <2>3
<1> HIDE DEF below
<1>4. CASE Derails
  BY <1>4, EmitsUnchanged DEF Derails
<1>5. CASE Goes(<<Frame("compileLogicalExpr", Node.right, 0)>>, <<>>)
  <2> DEFINE f == Frame("compileLogicalExpr", Node.right, 0)
  <2>1. todo' = <<f>> \o below /\ emitted' = emitted \o <<>>
    BY <1>5 DEF Goes, Does, Runs, below
  <2>2. f.fn = "compileLogicalExpr" /\ f.cond = "NVR" /\ IsCall(f, Defs)
    BY <1>1 DEF Frame, IsCall, Decided, FlagConditions
  <2> HIDE DEF f
  <2>3. Calls(<<f>> \o below, emitted, Defs, pos'.lbl_id) /\ <<f>> \o below # <<>> /\ (<<f>> \o below)[1] = f
    BY <1>3, <2>2, CallPushed DEF Owed
  <2>4. Undecided(<<f>> \o below)
    BY <2>2, <2>3 DEF Undecided, Decided
  <2>5. <<>> \o (<<f>> \o below) = <<f>> \o below
    BY <1>3, <2>3, OneByOne DEF Calls, Stacked
  <2>6. todo' = <<>> \o (<<f>> \o below)
    BY <2>1, <2>5
  <2> HIDE DEF below
  <2> DEFINE s == <<f>> \o below
  <2>7. Calls(s, emitted, Defs, pos'.lbl_id) /\ Undecided(s) /\ todo' = <<>> \o s
    BY <2>3, <2>4, <2>6
  <2> HIDE DEF s
  <2> QED BY <1>1, <2>1, <2>7, PlainEmitted
<1>6. CASE /\ ~ IsNone(Node) /\ ~ Is(Node, "BOOL")
           /\ Runs(Decide(Node) \o Told(Tail(todo), Condition(Node)), <<>>)
  <2> DEFINE cond == Condition(Node)  told == Told(below, cond)
  <2>1. todo' = Decide(Node) \o told /\ emitted' = emitted \o <<>>
    BY <1>6 DEF Runs, below
  <2>2. cond \in FlagConditions
    <3>1. IsLogical(Node) => Comparison[Node.data] \in FlagConditions
      BY <1>6 DEF IsLogical, Is, Comparison, FlagConditions
    <3> QED BY <3>1 DEF Condition, FlagConditions
  <2>3. Calls(told, emitted, Defs, pos'.lbl_id) /\ (cond \in {"ALW", "NVR"} => Undecided(told))
    BY <1>3, <2>2, ToldStacked
  <2>4. ASSUME NEW test \in {"TST", "CMP"}, Decide(Node) = GenericOp(Node, <<Gen(test)>>)
        PROVE  Emits(Defs)'
    <3> DEFINE g == Gen(test)  l == Later(<<g>>)
               ops == IF LacksOperand(Node) THEN <<>> ELSE Operands(Node)
               s == <<l>> \o told
    <3>1. test \in GenericInstrs
      BY DEF GenericInstrs
    <3>2. <<g>> \in Seq(PlainInstrs) /\ g.type = "GENERIC" /\ g.id = test
      BY <3>1, GenericSeqs, GenericPlain
    <3> HIDE DEF g
    <3>3. EndsInTest(<<g>>)
      <4>1. <<g>> # <<>> /\ Len(<<g>>) = 1 /\ <<g>>[1] = g
        OBVIOUS
      <4> QED BY <3>2, <4>1 DEF EndsInTest, IsTest
    <3>4. OrdinaryCall(l, Defs)
      BY <3>2, OrdinaryFrames DEF Particular
    <3>5. Tests(l)
      BY <3>3 DEF Tests, Later, Frame
    <3> HIDE DEF l
    <3>6. IsCall(l, Defs) /\ l.fn = "emit" /\ ~ Decided(l)
      BY <3>4, <3>5 DEF OrdinaryCall, Tests
    <3> HIDE DEF told
    <3>7. Calls(s, emitted, Defs, pos'.lbl_id) /\ s # <<>> /\ s[1] = l
      <4>1. Owed(l) = {} /\ Once(l.instrs)
        BY <3>4, <3>6, OwesNothing
      <4> QED BY <2>3, <3>5, <3>6, <4>1, CallPushed
    <3>8. Undecided(s)
      BY <3>6, <3>7 DEF Undecided
    <3>9. Ordinary(ops, Defs)
      BY OperandsOrdinary
    <3>10. Decide(Node) = ops \o <<l>>
      BY <2>4 DEF GenericOp, g, l
    <3> HIDE DEF ops, s
    <3>11. Sequence(ops) /\ Sequence(<<l>>) /\ Sequence(told)
      <4>1. <<l>> \in Seq({l})
        OBVIOUS
      <4> QED BY <2>3, <3>9, <4>1 DEF Ordinary, Sequence, Calls, Stacked
    <3>12. (ops \o <<l>>) \o told = ops \o (<<l>> \o told)
      BY <3>11, Grouped
    <3>13. todo' = ops \o s
      BY <2>1, <3>10, <3>12 DEF s
    <3> QED BY <1>1, <2>1, <3>7, <3>8, <3>9, <3>13, PlainEmitted
  <2>5. CASE Node.type # "CONST" /\ Is(Node, "BAND")
    <3>1. Node.type # "CONST" /\ ~ IsLogical(Node)
      BY <2>5 DEF Is, IsLogical, Comparison
    <3>2. Decide(Node) = GenericOp(Node, <<Gen("TST")>>)
      BY <2>5, <3>1 DEF Decide
    <3> QED BY <2>4, <3>2
  <2>6. CASE Node.type # "CONST" /\ ~ Is(Node, "BAND") /\ IsLogical(Node)
    <3>1. Decide(Node) = GenericOp(Node, <<Gen("CMP")>>)
      BY <2>6 DEF Decide
    <3> QED BY <2>4, <3>1
  <2>7. CASE Node.type = "CONST" \/ (~ Is(Node, "BAND") /\ ~ IsLogical(Node))
    <3>1. cond \in {"ALW", "NVR"}
      BY <2>7 DEF Condition, Is, IsLogical
    <3>2. Ordinary(Decide(Node), Defs)
      <4>1. <<Gen("DUP"), Gen("TST")>> \in Seq(PlainInstrs)
        <5>1. Gen("DUP") \in PlainInstrs /\ Gen("TST") \in PlainInstrs
          BY GenericPlain DEF GenericInstrs
        <5> QED BY <5>1, SomeInstrs
      <4>2. OrdinaryCall(Block(Node, 1), Defs) /\ OrdinaryCall(Later(<<Gen("DUP"), Gen("TST")>>), Defs)
        BY <1>1, <4>1, OrdinaryFrames DEF Particular
      <4>3. Ordinary(Test(Node), Defs)
        BY <4>2, OrdinaryCalls DEF Test
      <4>4. Decide(Node) = <<>> \/ Decide(Node) = Test(Node)
        BY <2>7 DEF Decide, Is, IsLogical
      <4> QED BY <1>1, <4>3, <4>4
    <3>3. Undecided(told)
      BY <2>3, <3>1
    <3> HIDE DEF told
    <3> QED BY <1>1, <2>1, <2>3, <3>2, <3>3, PlainEmitted
  <2> QED BY <2>5, <2>6, <2>7
<1> QED BY <1>4, <1>5, <1>6 DEF compileLogicalExpr

(* A call is put in front of others that asks for a condition.             *)
LEMMA ConditionAsked ==
  ASSUME NEW Defs, NEW e, NEW n, NEW t, Calls(t, e, Defs, n), Undecided(t), t # <<>>, Asks(t[1]),
         NEW node
  PROVE  LET s == <<Frame("compileLogicalExpr", node, 0)>> \o t
         IN  /\ Calls(s, e, Defs, n) /\ Undecided(s)
             /\ \A l : Free(l, t, e) => Free(l, s, e)
<1> DEFINE f == Frame("compileLogicalExpr", node, 0)  s == <<f>> \o t
<1>1. <<>> \in Seq(SteadyInstrs)
  BY SomeInstrs
<1>2. f.fn = "compileLogicalExpr" /\ f.cond = "NVR" /\ IsCall(f, Defs)
  BY <1>1 DEF Frame, IsCall, Decided, FlagConditions
<1> HIDE DEF f
<1>3. Owed(f) = {} /\ f.fn # "emit"
  BY <1>2 DEF Owed
<1>4. Calls(s, e, Defs, n) /\ s # <<>> /\ s[1] = f
  BY <1>2, <1>3, CallPushed
<1>5. \A l : Free(l, t, e) => Free(l, s, e)
  <2>1. Sequence(t)
    BY DEF Calls, Stacked
  <2> QED BY <1>3, <2>1, FreePushed
<1> HIDE DEF s
<1>6. Undecided(s)
  BY <1>2, <1>4 DEF Undecided, Decided
<1> QED BY <1>4, <1>5, <1>6 DEF f, s

(* The branch or loop that goes on behind its condition.                   *)
LEMMA SecondHalf ==
  ASSUME NEW Nodes, NEW Defs, Known(Nodes, Defs), todo # <<>>, This.fn = "compileCode",
         NEW fn \in {"branch", "loop"}, NEW f, f = [This EXCEPT !.fn = fn, !.id = pos.lbl_id]
  PROVE  IsCall(f, Defs) /\ ~ Decided(f) /\ f.fn = fn /\ f.id = pos.lbl_id
<1>1. IsCall(This, Defs) /\ ~ Decided(This) /\ pos.lbl_id \in Nat
  BY NodesThere, Below DEF Names, Known
<1>2. /\ DOMAIN f = DOMAIN This /\ f.req = This.req /\ f.wr = This.wr
      /\ f.cnt = This.cnt /\ f.cond = This.cond /\ f.instrs = This.instrs
      /\ f.id = pos.lbl_id /\ f.fn = fn
  BY <1>1 DEF IsCall
<1> QED BY <1>1, <1>2 DEF IsCall, Decided

(* A branch owes the label at its end.                                     *)
LEMMA SecondPushed ==
  ASSUME NEW Nodes, NEW Defs, Known(Nodes, Defs), Counts, pos'.lbl_id = pos.lbl_id + 1,
         todo # <<>>, This.fn = "compileCode", NEW f, f.fn \in {"branch", "loop"}, f.id = pos.lbl_id,
         IsCall(f, Defs), ~ Decided(f)
  PROVE  LET s == <<f>> \o Tail(todo)
         IN  /\ Calls(s, emitted, Defs, pos'.lbl_id) /\ Undecided(s) /\ s # <<>> /\ Asks(s[1])
             /\ f.fn = "loop" => \A l : Free(l, Tail(todo), emitted) => Free(l, s, emitted)
<1> USE DEF Known
<1> DEFINE below == Tail(todo)  s == <<f>> \o below  lbl == IfEnd(pos.lbl_id)
<1>1. /\ Calls(below, emitted, Defs, pos.lbl_id) /\ Calls(below, emitted, Defs, pos'.lbl_id)
      /\ Undecided(below)
  BY Below
<1>2. Free(lbl, below, emitted) /\ Past(lbl, pos'.lbl_id)
  BY <1>1, FreshLabels
<1>3. /\ \A l \in Owed(f) : Free(l, below, emitted) /\ Past(l, pos'.lbl_id)
      /\ f.fn = "loop" => Owed(f) = {}
  BY <1>2 DEF Owed
<1> HIDE DEF below
<1>4. Calls(s, emitted, Defs, pos'.lbl_id) /\ s # <<>> /\ s[1] = f
  BY <1>1, <1>3, CallPushed
<1>5. f.fn = "loop" => \A l : Free(l, below, emitted) => Free(l, s, emitted)
  <2>1. Sequence(below)
    BY <1>1 DEF Calls, Stacked
  <2> QED BY <1>3, <2>1, FreePushed
<1> HIDE DEF s
<1>6. Undecided(s) /\ Asks(s[1])
  BY <1>4 DEF Asks, Undecided
<1> QED BY <1>4, <1>5, <1>6 DEF s, below

LEMMA IfEmits ==
  ASSUME NEW Nodes, NEW Defs, Known(Nodes, Defs), Counts, compileIf
  PROVE  Emits(Defs)'
<1> DEFINE f == [This EXCEPT !.fn = "branch", !.id = pos.lbl_id]
           cond == Frame("compileLogicalExpr", Node.left, 0)
           below == Tail(todo)  s == <<f>> \o below  t == <<cond>> \o s
<1>1. todo # <<>> /\ This.fn = "compileCode"
  BY DEF compileIf, At
<1>2. todo' = <<cond, f>> \o below /\ emitted' = emitted \o <<>>
  BY DEF compileIf, Does, Runs
<1>3. Calls(s, emitted, Defs, pos'.lbl_id) /\ Undecided(s) /\ s # <<>> /\ Asks(s[1])
  <2>1. pos'.lbl_id = pos.lbl_id + 1
    BY IdRaised DEF compileIf
  <2>2. IsCall(f, Defs) /\ ~ Decided(f) /\ f.fn = "branch" /\ f.id = pos.lbl_id
    <3> HIDE DEF f
    <3> QED BY <1>1, SecondHalf DEF f
  <2> HIDE DEF f
  <2> QED BY <1>1, <2>1, <2>2, SecondPushed
<1>4. <<cond, f>> \o below = t
  <2>1. Sequence(below)
    BY <1>1, Below DEF Known, Calls, Stacked
  <2> HIDE DEF cond, f, below
  <2> QED BY <2>1, OneByOne DEF s
<1> HIDE DEF s
<1>5. Calls(t, emitted, Defs, pos'.lbl_id) /\ Undecided(t)
  BY <1>3, ConditionAsked
<1> HIDE DEF t, f, cond
<1>6. <<>> \o t = t
  BY <1>5, OneByOne DEF Calls, Stacked
<1>7. todo' = <<>> \o t /\ <<>> \in Seq(PlainInstrs) /\ Ordinary(<<>>, Defs)
  BY <1>2, <1>4, <1>6, SomeInstrs, OrdinaryCalls
<1> QED BY <1>2, <1>5, <1>7, PlainEmitted DEF Known

(* A jump is emitted behind quiet instructions; none defines a label.      *)
LEMMA JumpStep ==
  ASSUME NEW Defs, Emits(Defs), Counts, todo # <<>>, This.fn # "emit",
         NEW quiet \in Seq(PlainInstrs), \A k \in 1 .. Len(quiet) : WritesNothing(quiet[k]),
         NEW jump \in CoutInstrs, jump.type = "JMP", Conditional(jump) => Decided(This),
         NEW below, Calls(below, emitted, Defs, pos'.lbl_id), Undecided(below),
         NEW calls, Ordinary(calls, Defs), todo' = calls \o below,
         NEW rest \in Seq(PlainInstrs), emitted' = ((emitted \o quiet) \o <<jump>>) \o rest
  PROVE  Emits(Defs)'
<1> DEFINE one == <<jump>>  more == (quiet \o one) \o rest  e == (emitted \o quiet) \o one
<1>1. /\ emitted \in Seq(CoutInstrs) /\ FlagsReach(emitted)
      /\ quiet \in Seq(CoutInstrs) /\ rest \in Seq(CoutInstrs) /\ one \in Seq(CoutInstrs)
  BY SomeInstrs DEF Emits
<1>2. Conditional(jump) => EndsInTest(emitted)
  BY Below DEF Emits, Undecided
<1>3. FlagsReach((emitted \o quiet) \o <<jump>>)
  BY <1>1, <1>2, FlagsOfJump
<1>4. FlagsReach(e) /\ emitted' = e \o rest
  BY <1>3
<1>5. Labels(one) = {} /\ Once(one)
  <2>1. Len(one) = 1 /\ one[1] = jump
    OBVIOUS
  <2> HIDE DEF one
  <2>2. \A k \in 1 .. Len(one) : ~ Defines(one[k])
    BY <2>1 DEF Defines
  <2> QED BY <2>2 DEF Labels, Once
<1>6. Labels(quiet) = {} /\ Once(quiet) /\ Labels(rest) = {} /\ Once(rest)
  BY OneLabel
<1> HIDE DEF one
<1>7. e \in Seq(CoutInstrs)
  <2>1. emitted \o quiet \in Seq(CoutInstrs)
    BY <1>1
  <2> QED BY <1>1, <2>1
<1>8. FlagsReach(emitted')
  <2>1. rest \in Seq(SteadyInstrs)
    BY SomeInstrs
  <2> HIDE DEF e
  <2> QED BY <1>4, <1>7, <2>1, FlagsKept
<1>9. more \in Seq(CoutInstrs) /\ emitted' = emitted \o more /\ Labels(more) = {} /\ Once(more)
  <2>1. more \in Seq(CoutInstrs)
    BY <1>1, SomeInstrs
  <2>2. (emitted \o quiet) \o one = emitted \o (quiet \o one)
    BY <1>1, Associated
  <2> DEFINE q == quiet \o one
  <2>3. q \in Seq(CoutInstrs)
    BY <1>1, SomeInstrs
  <2>4. Labels(q) = {} /\ Once(q)
    BY <1>1, <1>5, <1>6, JoinedLabels, SMTT(30)
  <2> HIDE DEF q
  <2>5. Labels(q \o rest) = {} /\ Once(q \o rest)
    BY <1>1, <1>6, <2>3, <2>4, JoinedLabels, ZenonT(30)
  <2>6. (emitted \o q) \o rest = emitted \o (q \o rest)
    BY <1>1, <2>3, Associated
  <2> QED BY <1>4, <2>1, <2>2, <2>5, <2>6 DEF q
<1> HIDE DEF more, e
<1>10. emitted' \in Seq(CoutInstrs) /\ Calls(below, emitted', Defs, pos'.lbl_id)
  BY <1>1, <1>9, StackedStep DEF Counts
<1>11. Calls(todo', emitted', Defs, pos'.lbl_id) /\ Undecided(todo')
  BY <1>10, OrdinaryCallsPushed
<1> QED BY <1>8, <1>10, <1>11 DEF Emits

LEMMA BranchEmits ==
  ASSUME NEW Nodes, NEW Defs, Known(Nodes, Defs), Counts, branch
  PROVE  Emits(Defs)'
<1> USE DEF Known
<1> DEFINE lbl == IfEnd(This.id)
           here == emitTableLbl(lbl)  end == Begin("NONLIN_E")
           rest == <<here, end>>
           body == Body(Node.right)  emit == Later(rest)
           begin == Begin("NONLIN_B")  proto == emitTablePrototype(lbl)
           jump == emitJumpInstruction_l(invertFlagCondition(This.cond), {}, lbl)
           quiet == <<begin, proto>>
           below == Tail(todo)  s == <<emit>> \o below
<1>1. todo # <<>> /\ This.fn = "branch"
  BY DEF branch, At
<1>2. todo' = <<body, emit>> \o below /\ emitted' = emitted \o <<begin, proto, jump>>
  BY Zenon DEF branch, Goes, Does, Runs, JumpOver
<1>3. This.id \in Nat /\ This.cond \in FlagConditions /\ 0 \in Nat
  BY <1>1, NodesThere
<1>4. /\ DefinesAs(here, lbl) /\ proto \in PlainInstrs /\ lbl \in STRING
      /\ end \in PlainInstrs /\ begin \in PlainInstrs
  BY <1>3, LabelInstrs, StructSeqs
<1>5. /\ Calls(below, emitted, Defs, pos'.lbl_id) /\ Undecided(below)
      /\ Free(lbl, below, emitted) /\ Past(lbl, pos'.lbl_id)
  BY <1>1, Below, OwedByThis DEF Owed
<1>6. Calls(s, emitted, Defs, pos'.lbl_id) /\ Undecided(s)
  <2> HIDE DEF here, end, lbl, below
  <2>1. rest \in Seq(SteadyInstrs) /\ Labels(rest) = {lbl} /\ Once(rest)
    BY <1>4, DefinedOnce
  <2> HIDE DEF rest
  <2>2. emit.fn = "emit" /\ emit.instrs = rest /\ IsCall(emit, Defs) /\ ~ Decided(emit)
    BY <1>3, <2>1 DEF Later, Frame, IsCall, Decided, FlagConditions
  <2> HIDE DEF emit
  <2>3. Owed(emit) = {lbl}
    BY <2>1, <2>2 DEF Owed
  <2>4. Calls(s, emitted, Defs, pos'.lbl_id) /\ s # <<>> /\ s[1] = emit
    BY <1>5, <2>1, <2>2, <2>3, CallPushed
  <2> HIDE DEF s
  <2> QED BY <2>2, <2>4 DEF Undecided
<1>7. Ordinary(<<body>>, Defs)
  <2>1. OrdinaryCall(body, Defs)
    BY <1>3, OrdinaryFrames DEF Body, Particular
  <2> QED BY <2>1, OrdinaryCalls
<1>8. quiet \in Seq(PlainInstrs) /\ \A k \in 1 .. Len(quiet) : WritesNothing(quiet[k])
  <2>1. /\ begin.type = "STRUCT" /\ begin.id = "NONLIN_B"
        /\ proto.type = "TABLE" /\ proto.id = "PRE"
    BY DEF Begin, emitStructuralInstruction, Instr, emitTablePrototype, emitTableSomething
  <2> HIDE DEF begin, proto
  <2>2. Len(quiet) = 2 /\ quiet[1] = begin /\ quiet[2] = proto
    OBVIOUS
  <2>3. \A k \in 1 .. 2 : k = 1 \/ k = 2
    OBVIOUS
  <2> QED BY <1>4, <2>1, <2>2, <2>3, SomeInstrs DEF WritesNothing
<1>9. jump \in CoutInstrs /\ jump.type = "JMP" /\ (Conditional(jump) => Decided(This))
  <2>1. invertFlagCondition(This.cond) \in FlagConditions
    BY <1>3 DEF invertFlagCondition, FlagConditions
  <2>2. jump \in CoutInstrs /\ jump.type = "JMP" /\ jump.id = invertFlagCondition(This.cond)
    BY <1>4, <2>1, JumpTyped
  <2> HIDE DEF jump
  <2>3. ~ Decided(This) => invertFlagCondition(This.cond) \in {"ALW", "NVR"}
    BY DEF Decided, invertFlagCondition
  <2> QED BY <2>2, <2>3 DEF Conditional
<1> HIDE DEF begin, proto, jump, body, emit
<1>10. emitted' = ((emitted \o quiet) \o <<jump>>) \o <<>>
  <2>1. emitted \in Seq(CoutInstrs) /\ quiet \in Seq(CoutInstrs) /\ <<jump>> \in Seq(CoutInstrs)
    <3>1. <<jump>> \in Seq(CoutInstrs)
      BY <1>9, Associated
    <3>2. quiet \in Seq(CoutInstrs)
      <4> HIDE DEF quiet
      <4> QED BY <1>8, SomeInstrs
    <3> QED BY <3>1, <3>2 DEF Emits
  <2>2. <<begin, proto>> \o <<jump>> = <<begin, proto, jump>>
    BY TripleJoined
  <2>3. (emitted \o quiet) \o <<jump>> = emitted \o (quiet \o <<jump>>)
    <3> DEFINE one == <<jump>>
    <3>1. one \in Seq(CoutInstrs)
      BY <2>1
    <3> HIDE DEF one, quiet
    <3>2. (emitted \o quiet) \o one = emitted \o (quiet \o one)
      BY <2>1, <3>1, Associated
    <3> QED BY <3>2 DEF one
  <2>4. (emitted \o quiet) \o <<jump>> \in Seq(CoutInstrs)
    BY <2>1, SomeInstrs
  <2>5. ((emitted \o quiet) \o <<jump>>) \o <<>> = (emitted \o quiet) \o <<jump>>
    BY <2>4
  <2> QED BY <1>2, <2>2, <2>3, <2>5
<1>11. <<>> \in Seq(PlainInstrs)
  BY SomeInstrs
<1>12. todo' = <<body>> \o s
  <2>1. Sequence(below)
    BY <1>5 DEF Calls, Stacked
  <2>2. \A a, b : <<a, b>> \o below = <<a>> \o (<<b>> \o below)
    BY <2>1, OneByOne
  <2> QED BY <1>2, <2>2, Zenon
<1> HIDE DEF quiet, s
<1> QED BY <1>1, <1>6, <1>7, <1>8, <1>9, <1>10, <1>11, <1>12, JumpStep

LEMMA LoopEmits ==
  ASSUME NEW Nodes, NEW Defs, Known(Nodes, Defs), Counts, loop
  PROVE  Emits(Defs)'
<1> USE DEF Known
<1> DEFINE lbl == WhileBeg(This.id)  jump == emitJumpInstruction_l(This.cond, {}, lbl)
           end == Begin("NONLIN_E")
<1>1. todo # <<>> /\ This.fn = "loop"
  BY DEF loop, At
<1>2. todo' = <<>> \o Tail(todo) /\ emitted' = emitted \o <<jump, end>>
  BY Zenon DEF loop, Goes, Does, Runs
<1>3. This.id \in Nat /\ This.cond \in FlagConditions
  BY <1>1, NodesThere
<1>4. end \in PlainInstrs /\ <<end>> \in Seq(PlainInstrs) /\ <<>> \in Seq(PlainInstrs)
  BY StructSeqs, SomeInstrs
<1>5. lbl \in STRING
  BY <1>3, LabelInstrs
<1>6. jump \in CoutInstrs /\ jump.type = "JMP" /\ (Conditional(jump) => Decided(This))
  <2>1. jump \in CoutInstrs /\ jump.type = "JMP" /\ jump.id = This.cond
    BY <1>3, <1>5, JumpTyped
  <2> HIDE DEF jump
  <2> QED BY <2>1 DEF Conditional, Decided
<1> HIDE DEF jump, end
<1>7. emitted' = ((emitted \o <<>>) \o <<jump>>) \o <<end>>
  <2>1. /\ emitted \in Seq(CoutInstrs) /\ <<jump>> \in Seq(CoutInstrs)
        /\ <<end>> \in Seq(CoutInstrs)
    <3>1. <<jump>> \in Seq(CoutInstrs)
      BY <1>6, Associated
    <3>2. <<end>> \in Seq(CoutInstrs)
      BY <1>4, SomeInstrs
    <3> QED BY <3>1, <3>2 DEF Emits
  <2>2. <<jump>> \o <<end>> = <<jump, end>>
    BY PairJoined
  <2>3. (emitted \o <<jump>>) \o <<end>> = emitted \o (<<jump>> \o <<end>>)
    <3> DEFINE one == <<jump>>  two == <<end>>
    <3>1. one \in Seq(CoutInstrs) /\ two \in Seq(CoutInstrs)
      BY <2>1
    <3> HIDE DEF one, two
    <3>2. (emitted \o one) \o two = emitted \o (one \o two)
      BY <2>1, <3>1, Associated
    <3> QED BY <3>2 DEF one, two
  <2>4. emitted \o <<>> = emitted
    BY <2>1
  <2> QED BY <1>2, <2>2, <2>3, <2>4
<1>8. Ordinary(<<>>, Defs) /\ \A k \in 1 .. Len(<<>>) : WritesNothing(<<>>[k])
  BY OrdinaryCalls
<1>9. Calls(Tail(todo), emitted, Defs, pos'.lbl_id) /\ Undecided(Tail(todo))
  BY <1>1, Below
<1> QED BY <1>1, <1>2, <1>4, <1>6, <1>7, <1>8, <1>9, JumpStep

LEMMA WhileEmits ==
  ASSUME NEW Nodes, NEW Defs, Known(Nodes, Defs), Counts, compileWhile
  PROVE  Emits(Defs)'
<1> USE DEF Known
<1> DEFINE id == pos.lbl_id  mid == WhileMid(id)  beg == WhileBeg(id)
           here == emitTableLbl(mid)  body == Body(Node.right)  emit == Later(<<here>>)
           cond == Frame("compileLogicalExpr", Node.left, 0)
           f == [This EXCEPT !.fn = "loop", !.id = id]
           below == Tail(todo)  s == <<f>> \o below  t == <<cond>> \o s  u == <<emit>> \o t
           jump == emitJumpInstruction_l("ALW", {}, mid)
           i1 == emitTablePrototype(mid)  i2 == Begin("NONLIN_B")  i4 == emitTableLbl(beg)
           four == <<i1, i2, jump, i4>>
<1>1. todo # <<>> /\ This.fn = "compileCode"
  BY DEF compileWhile, At
<1>2. Does(TestsLast(Node, mid) \o <<f>>, four)
  BY Zenon DEF compileWhile
<1>3. /\ todo' = (<<body, emit, cond>> \o <<f>>) \o below
      /\ emitted' = emitted \o four
  BY <1>2, Zenon DEF Does, Runs, TestsLast
<1>4. id \in Nat /\ 0 \in Nat /\ pos'.lbl_id = id + 1
  BY IdRaised DEF Names, compileWhile
<1>5. /\ mid \in STRING /\ DefinesAs(here, mid) /\ i1 \in PlainInstrs
      /\ DefinesAs(i4, beg) /\ i2 \in PlainInstrs
  BY <1>4, LabelInstrs, StructSeqs
<1>6. jump \in PlainInstrs
  <2>1. jump \in CoutInstrs /\ jump.id = "ALW" /\ jump.type = "JMP"
    BY <1>5, JumpTyped DEF FlagConditions
  <2> HIDE DEF jump
  <2> QED BY <2>1 DEF PlainInstrs, SteadyInstrs, Conditional, Defines
<1>7. /\ Calls(below, emitted, Defs, id)
      /\ Free(mid, below, emitted) /\ Past(mid, pos'.lbl_id)
      /\ Free(beg, below, emitted) /\ Past(beg, pos'.lbl_id) /\ beg # mid
  <2>1. Calls(below, emitted, Defs, id)
    BY <1>1, Below
  <2> QED BY <1>4, <2>1, FreshLabels
<1> HIDE DEF i1, i2, i4, jump, here, mid, beg
<1>8. four \in Seq(SteadyInstrs) /\ Labels(four) = {beg} /\ Once(four)
  <2>1. i4 \in SteadyInstrs /\ PlainInstrs \subseteq SteadyInstrs
    BY <1>5 DEF DefinesAs, PlainInstrs
  <2>2. /\ four \in Seq(SteadyInstrs) /\ Len(four) = 4
        /\ four[1] = i1 /\ four[2] = i2 /\ four[3] = jump /\ four[4] = i4
    BY <1>5, <1>6, <2>1
  <2> HIDE DEF four
  <2>3. 4 \in Nat /\ 4 \in 1 .. 4 /\ \A k \in 1 .. 4 : k # 4 => k = 1 \/ k = 2 \/ k = 3
    OBVIOUS
  <2>4. \A k \in 1 .. Len(four) : k # 4 => four[k] \in PlainInstrs
    BY <1>5, <1>6, <2>2, <2>3
  <2>5. 4 \in 1 .. Len(four) /\ DefinesAs(four[4], beg)
    BY <1>5, <2>2
  <2>6. \A x \in Nat : \A l :
         /\ x \in 1 .. Len(four) /\ DefinesAs(four[x], l)
         /\ \A k \in 1 .. Len(four) : k # x => four[k] \in PlainInstrs
         => Labels(four) = {l} /\ Once(four)
    BY <2>2, OneLabel
  <2> QED BY <2>2, <2>3, <2>4, <2>5, <2>6
<1>9. Ordinary(<<body>>, Defs)
  <2>1. OrdinaryCall(body, Defs)
    BY <1>4, OrdinaryFrames DEF Body, Particular
  <2> QED BY <2>1, OrdinaryCalls
<1>10. /\ <<here>> \in Seq(SteadyInstrs) /\ Labels(<<here>>) = {mid} /\ Once(<<here>>)
  BY <1>5, DefinedOnce
<1>11. /\ emit.fn = "emit" /\ emit.instrs = <<here>> /\ IsCall(emit, Defs) /\ ~ Decided(emit)
       /\ Owed(emit) = {mid}
  <2> DEFINE instrs == <<here>>
  <2>1. instrs \in Seq(SteadyInstrs) /\ Labels(instrs) = {mid}
    BY <1>10
  <2> HIDE DEF instrs
  <2>2. LET g == Later(instrs)
        IN  g.fn = "emit" /\ g.instrs = instrs /\ IsCall(g, Defs) /\ ~ Decided(g)
    BY <1>4, <2>1 DEF Later, Frame, IsCall, Decided, FlagConditions
  <2>3. emit = Later(instrs)
    BY DEF instrs
  <2> HIDE DEF emit
  <2>4. Owed(emit) = {mid}
    BY <2>1, <2>2, <2>3 DEF Owed
  <2> QED BY <2>2, <2>3, <2>4 DEF instrs
<1> HIDE DEF four, body, emit
<1>12. /\ Calls(s, emitted, Defs, pos'.lbl_id) /\ Undecided(s) /\ s # <<>> /\ Asks(s[1])
       /\ \A l : Free(l, below, emitted) => Free(l, s, emitted)
  <2>1. IsCall(f, Defs) /\ ~ Decided(f) /\ f.fn = "loop" /\ f.id = pos.lbl_id
    <3> HIDE DEF f
    <3> QED BY <1>1, SecondHalf DEF f
  <2> HIDE DEF f
  <2> QED BY <1>1, <1>4, <2>1, SecondPushed
<1>13. Sequence(below)
  BY <1>7 DEF Calls, Stacked
<1> HIDE DEF f, below
<1>14. /\ Calls(t, emitted, Defs, pos'.lbl_id) /\ Undecided(t)
       /\ \A l : Free(l, s, emitted) => Free(l, t, emitted)
  <2> HIDE DEF s
  <2> QED BY <1>12, ConditionAsked
<1>15. todo' = <<body>> \o u
  <2> HIDE DEF cond
  <2> DEFINE one == <<f>>  three == <<body, emit, cond>>
  <2>1. Sequence(one) /\ Sequence(three)
    <3>1. one \in Seq({f}) /\ three \in Seq({body, emit, cond})
      OBVIOUS
    <3> QED BY <3>1 DEF Sequence
  <2>2. (three \o one) \o below = three \o (one \o below)
    <3> HIDE DEF three, one
    <3> QED BY <1>13, <2>1, Grouped
  <2>3. Sequence(s) /\ Sequence(t)
    BY <1>12, <1>14 DEF Calls, Stacked
  <2>4. three \o s = <<body, emit>> \o (<<cond>> \o s)
    <3> HIDE DEF s
    <3> QED BY <2>3, OneByOne
  <2>5. <<body, emit>> \o t = <<body>> \o (<<emit>> \o t)
    <3> HIDE DEF t
    <3>1. \A a, b : <<a, b>> \o t = <<a>> \o (<<b>> \o t)
      BY <2>3, OneByOne
    <3> QED BY <3>1, Zenon
  <2> QED BY <1>3, <2>2, <2>4, <2>5
<1> HIDE DEF s, t
<1>16. /\ Calls(u, emitted, Defs, pos'.lbl_id) /\ u # <<>> /\ u[1] = emit
       /\ Free(beg, u, emitted)
  <2>1. Free(mid, t, emitted) /\ Free(beg, t, emitted)
    BY <1>7, <1>12, <1>14
  <2>2. Calls(u, emitted, Defs, pos'.lbl_id) /\ u # <<>> /\ u[1] = emit
    BY <1>7, <1>10, <1>11, <1>14, <2>1, CallPushed
  <2>3. Free(beg, u, emitted)
    <3>1. Sequence(t)
      BY <1>14 DEF Calls, Stacked
    <3>2. beg \notin Owed(emit)
      BY <1>7, <1>11
    <3> QED BY <2>1, <3>1, <3>2, FreePushed
  <2> QED BY <2>2, <2>3
<1> HIDE DEF u
<1>17. Undecided(u)
  BY <1>11, <1>16 DEF Undecided
<1> QED BY <1>3, <1>7, <1>8, <1>9, <1>15, <1>16, <1>17, AnyStep

-----------------------------------------------------------------------------
(* Functions.                                                              *)

LEMMA CountedStacked ==
  ASSUME NEW Defs, NEW e, NEW n, NEW s, Calls(s, e, Defs, n), Undecided(s), NEW fn
  PROVE  Calls(Counted(s, fn), e, Defs, n) /\ Undecided(Counted(s, fn))
<1> DEFINE x == Min({k \in DOMAIN s : s[k].fn = fn})
           f == [s[x] EXCEPT !.cnt = @ + 1]
           t == [s EXCEPT ![x] = f]
<1>1. Stacked(s, e, Defs) /\ Distinct(s, e, n)
  BY DEF Calls
<1>2. PICK T : s \in Seq(T)
  BY <1>1 DEF Stacked, Sequence
<1>3. Len(s) \in Nat /\ DOMAIN s = 1 .. Len(s) /\ s \in [1 .. Len(s) -> T]
  BY <1>2
<1>4. Counted(s, fn) = t
  BY DEF Counted
<1> HIDE DEF x
<1>5. \A k \in 1 .. Len(s) : IsCall(s[k], Defs)
  BY <1>1 DEF Stacked
<1>6. x \in 1 .. Len(s) =>
        /\ DOMAIN f = DOMAIN s[x] /\ f.fn = s[x].fn /\ f.id = s[x].id /\ f.instrs = s[x].instrs
        /\ f.cond = s[x].cond /\ f.req = s[x].req /\ f.wr = s[x].wr /\ f.cnt = s[x].cnt + 1
        /\ f.node = s[x].node
  BY <1>5 DEF IsCall
<1> HIDE DEF f
<1>7. x \in 1 .. Len(s) => IsCall(f, Defs)
  BY <1>5, <1>6 DEF IsCall, Decided, Asks
<1>8. t \in [1 .. Len(s) -> T \cup {f}]
  BY <1>3
<1>9. t \in Seq(T \cup {f}) /\ Len(t) = Len(s)
  BY <1>3, <1>8, IsASeq
<1>10. \A k \in 1 .. Len(s) : t[k] = IF k = x THEN f ELSE s[k]
  BY <1>3
<1> HIDE DEF t
<1>11. Sequence(t)
  BY <1>9 DEF Sequence
<1>12. \A k \in 1 .. Len(s) :
         /\ IsCall(t[k], Defs)
         /\ t[k].fn = s[k].fn /\ t[k].id = s[k].id /\ t[k].instrs = s[k].instrs
         /\ t[k].cond = s[k].cond
  BY <1>5, <1>6, <1>7, <1>10
<1>13. Calls(t, e, Defs, n)
  <2>1. Stacked(t, e, Defs)
    BY <1>1, <1>9, <1>11, <1>12, LocalsChanged
  <2>2. Distinct(t, e, n)
    BY <1>1, <1>9, <1>12, DistinctSame
  <2> QED BY <2>1, <2>2 DEF Calls
<1>14. Undecided(t)
  <2>1. t # <<>> => s # <<>> /\ 1 \in 1 .. Len(s)
    BY <1>2, <1>9
  <2> QED BY <1>12, <2>1 DEF Undecided, Decided
<1> QED BY <1>4, <1>13, <1>14

LEMMA FunctionEmits ==
  ASSUME NEW Nodes, NEW Defs, Known(Nodes, Defs), Counts, compileFuncDef
  PROVE  Emits(Defs)'
<1> USE DEF Known
<1>1. todo # <<>> /\ This.fn = "compileCode" /\ Node.type = "OP"
  BY DEF compileFuncDef, At, Is
<1>2. CASE Fails(<<>>, <<>>)
  <2>1. <<>> \in Seq(PlainInstrs) /\ Ordinary(<<>>, Defs)
    BY SomeInstrs, OrdinaryCalls
  <2> QED BY <1>1, <1>2, <2>1, GoesStep
<1>3. CASE ~ Fails(<<>>, <<>>)
  <2> DEFINE header == [This EXCEPT !.fn = "funcHeader", !.id = Len(emitted) + 4]
             args == Frame("compileFuncDefArgs", Node.right.left, 0)
             ends == <<emitRetInstruction(0, TRUE), Begin("RMSF"), Begin("SECT_E")>>
             body == <<Block(Node.right.right, 0), Later(ends)>>
             front == IF IsNone(Node.right.left) THEN <<>> ELSE <<args, header>>
             below == Tail(todo)
             lbl == FuncLabel(Node.left.data)
             i1 == emitTablePrototype(lbl)  i2 == emitSetSection("funcs")
             i3 == emitTableLbl(lbl)  i4 == Begin("ADDSF")
             four == <<i1, i2, i3, i4>>
             t == body \o below
  <2>1. /\ Node.left.type = "VAR" /\ Does(front \o body, four)
        /\ programCreateFunc(Node.left.data)
    BY <1>3, Zenon DEF compileFuncDef
  <2>2. todo' = (front \o body) \o below /\ emitted' = emitted \o four
    BY <2>1, Zenon DEF Does, Runs
  <2>3. /\ IsCall(This, Defs) /\ ~ Decided(This) /\ 0 \in Nat /\ pos.lbl_id \in Nat
        /\ Node.left \in Nodes
    BY <1>1, NodesThere, Below DEF Names
  <2>4. Calls(below, emitted, Defs, pos'.lbl_id) /\ Undecided(below)
    BY <1>1, Below
  <2>5. lbl \in STRING /\ Free(lbl, below, emitted) /\ Past(lbl, pos'.lbl_id)
    <3>1. pos'.lbl_id = pos.lbl_id + 1
      BY <2>1, IdRaised DEF programCreateFunc
    <3>2. Node.left.data \in STRING
      BY <2>1, <2>3 DEF TextsOf
    <3>3. Calls(below, emitted, Defs, pos.lbl_id)
      BY <1>1, Below
    <3> QED BY <3>1, <3>2, <3>3, FreshLabels
  <2>6. i1 \in PlainInstrs /\ i2 \in PlainInstrs /\ DefinesAs(i3, lbl) /\ i4 \in PlainInstrs
    <3>1. i1 \in PlainInstrs /\ DefinesAs(i3, lbl)
      BY <2>5, TablePlain
    <3>2. i2 \in PlainInstrs
      <4>1. "funcs" \in STRING
        BY DEF WordsAreStrings, Words
      <4> QED BY <4>1, SectionPlain
    <3>3. i4 \in PlainInstrs
      BY StructSeqs
    <3> QED BY <3>1, <3>2, <3>3
  <2>7. i4.type = "STRUCT" /\ i4.id = "ADDSF"
    BY DEF Begin, emitStructuralInstruction, Instr
  <2>8. Ordinary(body, Defs)
    <3>1. ends \in Seq(PlainInstrs)
      BY SpecialPlain, StructSeqs, SomeInstrs
    <3> HIDE DEF ends
    <3>2. OrdinaryCall(Block(Node.right.right, 0), Defs) /\ OrdinaryCall(Later(ends), Defs)
      BY <2>3, <3>1, OrdinaryFrames DEF Particular
    <3> QED BY <3>2, OrdinaryCalls
  <2> HIDE DEF i1, i2, i3, i4, body, lbl
  <2>9. /\ four \in Seq(SteadyInstrs) /\ four \in Seq(CoutInstrs) /\ Len(four) = 4 /\ four[4] = i4
        /\ 4 \in 1 .. 4 /\ Labels(four) = {lbl} /\ Once(four)
    <3>1. i3 \in SteadyInstrs /\ PlainInstrs \subseteq SteadyInstrs
      BY <2>6 DEF DefinesAs, PlainInstrs
    <3>2. /\ four \in Seq(SteadyInstrs) /\ Len(four) = 4
          /\ four[1] = i1 /\ four[2] = i2 /\ four[3] = i3 /\ four[4] = i4
      BY <2>6, <3>1
    <3> HIDE DEF four
    <3>3. /\ 3 \in Nat /\ 3 \in 1 .. 4 /\ 4 \in 1 .. 4
          /\ \A k \in 1 .. 4 : k # 3 => k = 1 \/ k = 2 \/ k = 4
      OBVIOUS
    <3>4. \A k \in 1 .. Len(four) : k # 3 => four[k] \in PlainInstrs
      BY <2>6, <3>2, <3>3
    <3>5. 3 \in 1 .. Len(four) /\ DefinesAs(four[3], lbl)
      BY <2>6, <3>2
    <3>6. \A x \in Nat : \A l :
           /\ x \in 1 .. Len(four) /\ DefinesAs(four[x], l)
           /\ \A k \in 1 .. Len(four) : k # x => four[k] \in PlainInstrs
           => Labels(four) = {l} /\ Once(four)
      BY <3>2, OneLabel
    <3>7. Labels(four) = {lbl} /\ Once(four)
      BY <3>3, <3>4, <3>5, <3>6
    <3> QED BY <3>2, <3>3, <3>7, SomeInstrs
  <2> HIDE DEF four
  <2>10. emitted \in Seq(CoutInstrs) /\ FlagsReach(emitted) /\ FlagsReach(emitted')
    BY <2>2, <2>9, FlagsKept DEF Emits
  <2> HIDE DEF below
  <2>11. emitted' \in Seq(CoutInstrs) /\ Calls(below, emitted', Defs, pos'.lbl_id)
    BY <2>2, <2>9, <2>10, <2>4, <2>5, StackedStep DEF Counts
  <2>12. Calls(t, emitted', Defs, pos'.lbl_id) /\ Undecided(t)
    BY <2>8, <2>4, <2>11, OrdinaryCallsPushed
  <2>13. HeaderAt(emitted', Len(emitted) + 4)
    <3>1. /\ Len(emitted') = Len(emitted) + 4 /\ Len(emitted) \in Nat
          /\ emitted'[Len(emitted) + 4] = i4
      <4>1. /\ Len(emitted \o four) = Len(emitted) + Len(four) /\ Len(emitted) \in Nat
            /\ \A k \in 1 .. Len(four) : (emitted \o four)[Len(emitted) + k] = four[k]
        <5>1. \A q, r \in Seq(CoutInstrs) :
                /\ Len(q \o r) = Len(q) + Len(r) /\ Len(q) \in Nat
                /\ \A k \in 1 .. Len(r) : (q \o r)[Len(q) + k] = r[k]
          BY Joined
        <5> QED BY <2>9, <2>10, <5>1
      <4> QED BY <2>2, <2>9, <4>1
    <3> QED BY <2>7, <3>1 DEF HeaderAt
  <2>14. header.fn = "funcHeader" /\ header.id = Len(emitted) + 4 /\ ~ Decided(header)
         /\ IsCall(header, Defs)
    <3>1. Len(emitted) + 4 \in Nat
      BY <2>10
    <3>2. /\ DOMAIN header = DOMAIN This /\ header.fn = "funcHeader" /\ header.id = Len(emitted) + 4
          /\ header.req = This.req /\ header.wr = This.wr /\ header.cnt = This.cnt
          /\ header.cond = This.cond /\ header.instrs = This.instrs
      BY <2>3 DEF IsCall
    <3> HIDE DEF header
    <3> QED BY <2>3, <3>1, <3>2 DEF IsCall, Decided
  <2>15. args.fn = "compileFuncDefArgs" /\ args.cond = "NVR" /\ IsCall(args, Defs)
    <3>1. <<>> \in Seq(SteadyInstrs)
      BY SomeInstrs
    <3> QED BY <2>3, <3>1 DEF Frame, IsCall, Decided, FlagConditions
  <2> HIDE DEF args, header, t
  <2> DEFINE u == <<header>> \o t  v == <<args>> \o u
  <2>16. Calls(u, emitted', Defs, pos'.lbl_id) /\ u # <<>> /\ u[1] = header
    BY <2>12, <2>13, <2>14, CallPushed DEF Owed
  <2>17. Undecided(u)
    <3> HIDE DEF u
    <3> QED BY <2>14, <2>16 DEF Undecided
  <2>18. \E m \in 1 .. Len(u) : u[m].fn = "funcHeader"
    <3> HIDE DEF u
    <3>1. 1 \in 1 .. Len(u)
      <4>1. PICK S : u \in Seq(S)
        BY <2>16 DEF Calls, Stacked, Sequence
      <4> QED BY <2>16, <4>1
    <3> QED BY <2>14, <2>16, <3>1
  <2> HIDE DEF u
  <2>19. Calls(v, emitted', Defs, pos'.lbl_id) /\ v # <<>> /\ v[1] = args
    BY <2>15, <2>16, <2>17, <2>18, CallPushed DEF Owed
  <2> HIDE DEF v
  <2>20. Undecided(v)
    BY <2>15, <2>19 DEF Undecided, Decided
  <2>21. Sequence(body) /\ Sequence(below) /\ Sequence(t) /\ Sequence(<<args, header>>)
    <3>1. <<args, header>> \in Seq({args, header})
      OBVIOUS
    <3> QED BY <2>8, <2>12, <2>4, <3>1 DEF Ordinary, Calls, Stacked, Sequence
  <2>22. CASE IsNone(Node.right.left)
    <3>1. <<>> \o body = body
      BY <2>21, OneByOne
    <3>2. todo' = t
      BY <2>2, <2>22, <3>1 DEF t
    <3> QED BY <2>10, <2>11, <2>12, <3>2 DEF Emits
  <2>23. CASE ~ IsNone(Node.right.left)
    <3> DEFINE two == <<args, header>>
    <3>1. (two \o body) \o below = two \o t
      <4> HIDE DEF two
      <4> QED BY <2>21, Grouped DEF t, two
    <3>2. <<args, header>> \o t = v
      <4>1. <<args, header>> \o t = <<args>> \o (<<header>> \o t)
        <5>1. Sequence(t)
          BY <2>21
        <5>2. \A a, b : <<a, b>> \o t = <<a>> \o (<<b>> \o t)
          BY <5>1, OneByOne
        <5> QED BY <5>2, Zenon
      <4> QED BY <4>1 DEF u, v
    <3>3. todo' = v
      BY <2>2, <2>23, <3>1, <3>2
    <3> QED BY <2>10, <2>11, <2>19, <2>20, <3>3 DEF Emits
  <2> QED BY <2>22, <2>23
<1> QED BY <1>2, <1>3

LEMMA ArgsCounted ==
  ASSUME NEW Nodes, NEW Defs, Known(Nodes, Defs), todo # <<>>, This.fn = "compileFuncDefArgs"
  PROVE  ArgsSoFar \in Nat
<1> DEFINE S == {k \in DOMAIN todo : todo[k].fn = "funcHeader"}
<1>1. Stacked(todo, emitted, Defs)
  BY DEF Known, Emits, Calls
<1>2. Len(todo) \in Nat /\ DOMAIN todo = 1 .. Len(todo)
  BY <1>1 DEF Stacked, Sequence
<1>3. 1 \in 1 .. Len(todo) /\ todo[1].fn = "compileFuncDefArgs"
  <2>1. PICK T : todo \in Seq(T)
    BY <1>1 DEF Stacked, Sequence
  <2> QED BY <2>1 DEF This
<1>4. PICK m \in 1 .. Len(todo) : todo[m].fn = "funcHeader"
  BY <1>1, <1>3 DEF Stacked
<1>5. S \in SUBSET Nat /\ S # {}
  BY <1>2, <1>4
<1>6. \A k \in S : todo[k].cnt \in Nat
  BY <1>1, <1>2 DEF Stacked, IsCall
<1> HIDE DEF S
<1>7. Min(S) \in S
  BY <1>5, MinFacts
<1> QED BY <1>6, <1>7 DEF ArgsSoFar, S

LEMMA ParameterEmits ==
  ASSUME NEW Nodes, NEW Defs, Known(Nodes, Defs), Counts, compileFuncDefArgs
  PROVE  Emits(Defs)'
<1> USE DEF Known
<1> DEFINE below == Tail(todo)
<1>1. todo # <<>> /\ This.fn = "compileFuncDefArgs"
  BY DEF compileFuncDefArgs, At
<1>2. /\ Stacked(todo, emitted, Defs) /\ Undecided(below)
      /\ Calls(below, emitted, Defs, pos.lbl_id) /\ Calls(below, emitted, Defs, pos'.lbl_id)
      /\ \E m \in 1 .. Len(below) : below[m].fn = "funcHeader"
  <2>1. Stacked(todo, emitted, Defs)
    BY DEF Emits, Calls
  <2>2. /\ This = todo[1]
        /\ todo[1].fn = "compileFuncDefArgs" =>
             \E m \in 1 .. Len(Tail(todo)) : Tail(todo)[m].fn = "funcHeader"
    BY <1>1, <2>1, Popped DEF This
  <2>3. /\ Calls(below, emitted, Defs, pos.lbl_id) /\ Calls(below, emitted, Defs, pos'.lbl_id)
        /\ Undecided(below)
    BY <1>1, Below
  <2> QED BY <1>1, <2>1, <2>2, <2>3
<1>3. CASE Derails
  BY <1>3, EmitsUnchanged DEF Derails
<1>4. CASE /\ Node.type = "VAR"
           /\ Runs(Counted(below, "funcHeader"),
                   <<emitTableConstant(VarLabel(Node.data), 8 * ArgsSoFar)>>)
           /\ programCreateVar(Node.data)
  <2> DEFINE lbl == VarLabel(Node.data)  i == emitTableConstant(lbl, 8 * ArgsSoFar)
             counted == Counted(below, "funcHeader")
  <2>1. todo' = counted /\ emitted' = emitted \o <<i>>
    BY <1>4 DEF Runs
  <2>2. ArgsSoFar \in Nat
    BY <1>1, ArgsCounted
  <2>3. Node \in Nodes /\ Node.data \in STRING /\ 8 * ArgsSoFar \in Nat /\ 0 \in Nat
    BY <1>1, <1>4, <2>2, NodesThere DEF TextsOf
  <2>4. pos'.lbl_id = pos.lbl_id + 1
    BY <1>4, IdRaised DEF programCreateVar
  <2> HIDE DEF below
  <2>5. /\ Calls(counted, emitted, Defs, pos.lbl_id) /\ Calls(counted, emitted, Defs, pos'.lbl_id)
        /\ Undecided(counted)
    BY <1>2, CountedStacked
  <2> HIDE DEF counted
  <2>6. lbl \in STRING /\ Free(lbl, counted, emitted) /\ Past(lbl, pos'.lbl_id)
    BY <2>3, <2>4, <2>5, FreshLabels
  <2>7. DefinesAs(i, lbl)
    BY <2>3, <2>6, TablePlain
  <2> HIDE DEF i, lbl
  <2>8. <<i>> \in Seq(SteadyInstrs) /\ Labels(<<i>>) = {lbl} /\ Once(<<i>>)
    BY <2>7, DefinedOnce
  <2>9. todo' = <<>> \o counted
    BY <2>1, <2>5, OneByOne DEF Calls, Stacked
  <2>10. Ordinary(<<>>, Defs)
    BY OrdinaryCalls
  <2> DEFINE one == <<i>>
  <2>11. /\ one \in Seq(SteadyInstrs) /\ Labels(one) = {lbl} /\ Once(one)
         /\ emitted' = emitted \o one
    BY <2>1, <2>8
  <2> HIDE DEF one
  <2> QED BY <2>5, <2>6, <2>9, <2>10, <2>11, AnyStep
<1>5. CASE Goes(<<Frame("compileFuncDefArgs", Node.left, 0),
                  Frame("compileFuncDefArgs", Node.right, 0)>>, <<>>)
  <2> DEFINE a == Frame("compileFuncDefArgs", Node.left, 0)
             b == Frame("compileFuncDefArgs", Node.right, 0)
             s == <<b>> \o below  t == <<a>> \o s
  <2>1. <<>> \in Seq(PlainInstrs) /\ <<>> \in Seq(SteadyInstrs) /\ 0 \in Nat /\ Ordinary(<<>>, Defs)
    BY SomeInstrs, OrdinaryCalls
  <2>2. todo' = <<a, b>> \o below /\ emitted' = emitted \o <<>>
    BY <1>5 DEF Goes, Does, Runs
  <2>3. /\ a.fn = "compileFuncDefArgs" /\ ~ Decided(a) /\ IsCall(a, Defs)
        /\ b.fn = "compileFuncDefArgs" /\ ~ Decided(b) /\ IsCall(b, Defs)
    BY <2>1 DEF Frame, IsCall, Decided, FlagConditions
  <2> HIDE DEF a, b, below
  <2>4. Calls(s, emitted, Defs, pos'.lbl_id) /\ s # <<>> /\ s[1] = b
    BY <1>2, <2>3, CallPushed DEF Owed
  <2> HIDE DEF s
  <2>5. Undecided(s)
    BY <2>3, <2>4 DEF Undecided
  <2>6. \E m \in 1 .. Len(s) : s[m].fn = "funcHeader"
    <3>1. 1 \in 1 .. Len(s)
      <4>1. PICK T : s \in Seq(T)
        BY <2>4 DEF Calls, Stacked, Sequence
      <4> QED BY <2>4, <4>1
    <3> QED BY <2>3, <2>4, <3>1 DEF Calls, Stacked
  <2>7. Calls(t, emitted, Defs, pos'.lbl_id) /\ t # <<>> /\ t[1] = a
    BY <2>3, <2>4, <2>5, <2>6, CallPushed DEF Owed
  <2>8. todo' = t
    <3>1. Sequence(below)
      BY <1>2 DEF Calls, Stacked
    <3>2. \A u, v : <<u, v>> \o below = <<u>> \o (<<v>> \o below)
      BY <3>1, OneByOne
    <3>3. <<a, b>> \o below = <<a>> \o (<<b>> \o below)
      BY <3>2, Zenon
    <3> QED BY <2>2, <3>3 DEF s
  <2> HIDE DEF t
  <2>9. Undecided(t)
    BY <2>3, <2>7 DEF Undecided
  <2>10. todo' = <<>> \o t
    BY <2>7, <2>8, OneByOne DEF Calls, Stacked
  <2> QED BY <2>1, <2>2, <2>7, <2>9, <2>10, PlainEmitted
<1> QED BY <1>3, <1>4, <1>5, Zenon DEF compileFuncDefArgs

(* The header changes one count in what was emitted.                       *)
LEMMA HeaderChanged ==
  ASSUME NEW Nodes, NEW Defs, Known(Nodes, Defs), funcHeader
  PROVE  /\ todo # <<>> /\ This.fn = "funcHeader" /\ todo' = Tail(todo)
         /\ emitted' \in Seq(CoutInstrs) /\ Len(emitted') = Len(emitted)
         /\ \A k \in 1 .. Len(emitted) : /\ emitted'[k].type = emitted[k].type
                                        /\ emitted'[k].id = emitted[k].id
                                        /\ emitted'[k].name = emitted[k].name
<1> DEFINE n == This.id  h == [emitted[n] EXCEPT !.retc = This.cnt]  e == [emitted EXCEPT ![n] = h]
<1>1. /\ todo # <<>> /\ This.fn = "funcHeader" /\ todo' = Tail(todo)
      /\ emitted' = [emitted EXCEPT ![This.id].retc = This.cnt]
  BY DEF funcHeader, At
<1>2. emitted' = e
  BY <1>1
<1>3. /\ emitted \in Seq(CoutInstrs) /\ Stacked(todo, emitted, Defs) /\ This.cnt \in Nat
  BY <1>1, NodesThere DEF Known, Emits, Calls
<1>4. HeaderAt(emitted, n)
  <2>1. This = todo[1] /\ (todo[1].fn = "funcHeader" => HeaderAt(emitted, todo[1].id))
    BY <1>1, <1>3, Popped DEF This
  <2> QED BY <1>1, <2>1
<1>5. n \in 1 .. Len(emitted) /\ emitted[n].type = "STRUCT" /\ emitted[n].id = "ADDSF"
      /\ emitted[n] \in CoutInstrs
  BY <1>3, <1>4 DEF HeaderAt
<1>6. h \in CoutInstrs /\ h.type = emitted[n].type /\ h.id = emitted[n].id /\ h.name = emitted[n].name
  <2>1. emitted[n] \in Headers /\ IsInstr(emitted[n])
    BY <1>5 DEF CoutInstrs
  <2>2. h \in Headers /\ h.type = "STRUCT" /\ h.id = "ADDSF" /\ h.name = emitted[n].name
    BY <1>3, <1>5, <2>1, FieldsSet
  <2> HIDE DEF h
  <2>3. IsInstr(h)
    BY <2>2 DEF IsInstr, StructBegins, Headers
  <2> QED BY <1>5, <2>2, <2>3, InstrsAre
<1> HIDE DEF h, n
<1>7. /\ e \in Seq(CoutInstrs) /\ Len(e) = Len(emitted)
      /\ \A k \in 1 .. Len(emitted) : e[k] = IF k = n THEN h ELSE emitted[k]
  <2>1. emitted \in [1 .. Len(emitted) -> CoutInstrs] /\ Len(emitted) \in Nat
    BY <1>3
  <2>2. e \in [1 .. Len(emitted) -> CoutInstrs]
    BY <1>6, <2>1
  <2>3. e \in Seq(CoutInstrs) /\ Len(e) = Len(emitted)
    BY <2>1, <2>2, IsASeq
  <2> QED BY <2>1, <2>3
<1> HIDE DEF e
<1>8. \A k \in 1 .. Len(emitted) :
        e[k].type = emitted[k].type /\ e[k].id = emitted[k].id /\ e[k].name = emitted[k].name
  BY <1>6, <1>7
<1> QED BY <1>1, <1>2, <1>7, <1>8

LEMMA HeaderEmits ==
  ASSUME NEW Nodes, NEW Defs, Known(Nodes, Defs), Counts, funcHeader
  PROVE  Emits(Defs)'
<1> DEFINE e == emitted'
<1>1. /\ todo # <<>> /\ This.fn = "funcHeader" /\ todo' = Tail(todo)
      /\ e \in Seq(CoutInstrs) /\ Len(e) = Len(emitted)
      /\ \A k \in 1 .. Len(emitted) :
           e[k].type = emitted[k].type /\ e[k].id = emitted[k].id /\ e[k].name = emitted[k].name
  BY HeaderChanged
<1>2. emitted \in Seq(CoutInstrs) /\ FlagsReach(emitted) /\ Known(Nodes, Defs)
  BY DEF Known, Emits
<1>3. Calls(Tail(todo), emitted, Defs, pos'.lbl_id) /\ Undecided(Tail(todo))
  BY <1>1, Below DEF Known
<1> HIDE DEF e
<1>4. FlagsReach(e)
  BY <1>1, <1>2, FlagsSame
<1>5. \A m : HeaderAt(emitted, m) => HeaderAt(e, m)
  BY <1>1 DEF HeaderAt
<1>6. Stacked(Tail(todo), e, Defs)
  BY <1>3, <1>5, HeadersStay DEF Calls
<1>7. Labels(e) = Labels(emitted) /\ (Once(emitted) => Once(e))
  <2>1. \A k \in 1 .. Len(emitted) : Defines(e[k]) <=> Defines(emitted[k])
    BY <1>1 DEF Defines
  <2>2. Labels(e) = Labels(emitted)
    BY <1>1, <2>1 DEF Labels
  <2>3. Once(emitted) => Once(e)
    BY <1>1, <2>1 DEF Once
  <2> QED BY <2>2, <2>3
<1>8. Calls(Tail(todo), e, Defs, pos'.lbl_id)
  BY <1>3, <1>6, <1>7 DEF Calls, Distinct
<1>9. e \in Seq(CoutInstrs) /\ FlagsReach(e) /\ Calls(todo', e, Defs, pos'.lbl_id) /\ Undecided(todo')
  BY <1>1, <1>3, <1>4, <1>8
<1> QED BY <1>9 DEF Emits, e

LEMMA CallEmits ==
  ASSUME NEW Nodes, NEW Defs, Known(Nodes, Defs), Counts, compileFuncCall
  PROVE  Emits(Defs)'
<1> USE DEF Known
<1>1. <<>> \in Seq(PlainInstrs) /\ Ordinary(<<>>, Defs) /\ 1 \in Nat
  BY SomeInstrs, OrdinaryCalls
<1>2. todo # <<>> /\ This.fn \in {"compileCode", "callFunction"} /\ This.fn # "emit"
  BY DEF compileFuncCall, At
<1>3. IsCall(This, Defs) /\ ~ Decided(This) /\ This.cnt \in Nat /\ This.req \in Nat
  BY <1>2, NodesThere, Below
<1>4. CASE At("callFunction")
  <2> DEFINE fits == programGetFunc(Node.data, This.cnt, This.req)
             p == Max(fits)  i == emitCallInstruction(This.cnt, This.req, objFuncs[p].lbl)
  <2>1. Fails(<<>>, <<>>) \/ (fits # {} /\ Goes(<<>>, <<i>>))
    BY <1>4 DEF compileFuncCall, At
  <2>2. ASSUME fits # {} PROVE <<i>> \in Seq(PlainInstrs)
    <3>1. Len(objFuncs) \in Nat /\ DOMAIN objFuncs = 1 .. Len(objFuncs)
      BY DEF BackInductive, FuncsNest, Sequence
    <3>2. fits \in SUBSET (0 .. Len(objFuncs)) /\ fits \subseteq 1 .. Len(objFuncs)
      BY <3>1 DEF programGetFunc, Found
    <3> HIDE DEF fits
    <3>3. p \in fits
      BY <2>2, <3>1, <3>2, MaxFacts
    <3>4. objFuncs[p].lbl \in STRING
      BY <3>2, <3>3 DEF Names, Labelled
    <3>5. i \in PlainInstrs
      BY <1>3, <3>4, SpecialPlain
    <3> QED BY <3>5, SomeInstrs
  <2> HIDE DEF i, fits
  <2> QED BY <1>1, <1>2, <2>1, <2>2, GoesStep
<1>5. CASE ~ At("callFunction")
  <2> DEFINE rest == [This EXCEPT !.fn = "callFunction"]
             args == Frame("compileCommaList", Node.right, 1)
             front == IF IsNone(Node.right) THEN <<>> ELSE <<args>>
  <2>1. Goes(front \o <<rest>>, <<>>)
    BY <1>5, Zenon DEF compileFuncCall
  <2>2. /\ DOMAIN rest = DOMAIN This /\ rest.req = This.req /\ rest.wr = This.wr
        /\ rest.cnt = This.cnt /\ rest.cond = This.cond /\ rest.instrs = This.instrs
        /\ rest.id \in Nat /\ rest.fn = "callFunction"
    BY <1>3 DEF IsCall
  <2>3. OrdinaryCall(args, Defs)
    BY <1>1, OrdinaryFrames DEF Particular
  <2> HIDE DEF rest, args
  <2>4. OrdinaryCall(rest, Defs)
    BY <1>3, <2>2, RestOrdinary DEF Particular
  <2>5. Ordinary(front, Defs) /\ Ordinary(<<rest>>, Defs)
    BY <1>1, <2>3, <2>4, OrdinaryCalls
  <2> HIDE DEF front
  <2>6. Ordinary(front \o <<rest>>, Defs)
    BY <2>5, OrdinaryCalls
  <2> QED BY <1>1, <1>2, <2>1, <2>6, GoesStep
<1> QED BY <1>4, <1>5

LEMMA ListEmits ==
  ASSUME NEW Nodes, NEW Defs, Known(Nodes, Defs), Counts, compileCommaList
  PROVE  Emits(Defs)'
<1> USE DEF Known
<1> DEFINE below == Tail(todo)
<1>1. <<>> \in Seq(PlainInstrs)
  BY SomeInstrs
<1>2. /\ todo # <<>> /\ This.fn = "compileCommaList"
  BY DEF compileCommaList, At
<1>3. /\ IsCall(This, Defs) /\ ~ Decided(This) /\ This.req \in Nat /\ This = todo[1]
      /\ Calls(todo, emitted, Defs, pos'.lbl_id) /\ Calls(below, emitted, Defs, pos'.lbl_id)
      /\ Undecided(below)
  <2>1. Calls(todo, emitted, Defs, pos'.lbl_id)
    BY DistinctLater DEF Emits, Calls, Counts
  <2> QED BY <1>2, <2>1, NodesThere, Below
<1>4. CASE Is(Node, "COMMA")
  <2>1. todo' = <<This>> \o todo /\ emitted' = emitted \o <<>>
    BY <1>4 DEF compileCommaList, Runs
  <2>2. Undecided(todo)
    BY <1>3 DEF Undecided
  <2>3. Ordinary(<<This>>, Defs)
    <3>1. OrdinaryCall(This, Defs)
      BY <1>2, <1>3 DEF OrdinaryCall, Particular
    <3> QED BY <3>1, OrdinaryCalls
  <2> QED BY <1>1, <1>3, <2>1, <2>2, <2>3, PlainEmitted
<1>5. CASE ~ Is(Node, "COMMA")
  <2> DEFINE calls == <<Block(Node, This.req)>>  counted == Counted(below, "callFunction")
  <2>1. todo' = calls \o counted /\ emitted' = emitted \o <<>>
    BY <1>5 DEF compileCommaList, Runs
  <2> HIDE DEF below
  <2>2. Calls(counted, emitted, Defs, pos'.lbl_id) /\ Undecided(counted)
    BY <1>3, CountedStacked
  <2>3. Ordinary(calls, Defs)
    BY <1>3, OrdinaryFrames, OrdinaryCalls
  <2> HIDE DEF calls, counted
  <2> QED BY <1>1, <2>1, <2>2, <2>3, PlainEmitted
<1> QED BY <1>4, <1>5

-----------------------------------------------------------------------------
(* The tables of names hold labels, and the counter of labels never goes   *)
(* back.                                                                   *)

LEMMA LabelAdded ==
  ASSUME NEW table, Sequence(table), Labelled(table),
         NEW e, "lbl" \in DOMAIN e, e.lbl \in STRING
  PROVE  Labelled(Append(table, e))
<1> DEFINE t == Append(table, e)  n == Len(table)
<1>1. /\ n \in Nat /\ Len(t) = n + 1 /\ \A p \in 1 .. n : t[p] = table[p]
      /\ t[n + 1] = e
  BY Appended
<1> HIDE DEF t
<1>2. \A p \in 1 .. n + 1 : p \in 1 .. n \/ p = n + 1
  BY <1>1
<1>3. Labelled(t)
  BY <1>1, <1>2 DEF Labelled
<1> QED BY <1>3 DEF t

LEMMA LabelsDropped ==
  ASSUME NEW table, Sequence(table), Labelled(table), NEW n \in 0 .. Len(table)
  PROVE  Labelled(SubSeq(table, 1, n)) /\ Sequence(SubSeq(table, 1, n)) /\ Len(SubSeq(table, 1, n)) = n
<1> DEFINE t == SubSeq(table, 1, n)
<1>1. Sequence(t) /\ Len(t) = n /\ Len(table) \in Nat /\ \A p \in 1 .. n : t[p] = table[p]
  BY Shortened
<1> HIDE DEF t
<1>2. Labelled(t)
  BY <1>1 DEF Labelled
<1> QED BY <1>1, <1>2 DEF t

LEMMA VarNamed ==
  ASSUME NEW Nodes, NEW Defs, Known(Nodes, Defs), NEW node \in Nodes, node.type = "VAR",
         programCreateVar(node.data)
  PROVE  Names' /\ Counts
<1> USE DEF Known
<1> DEFINE e == Entry0(node.data, VarLabel(node.data), pos.lvl, pos.rbp_offset, "NONE")
<1>1. /\ objVars' = Append(objVars, e) /\ objFuncs' = objFuncs
      /\ pos' = [NextId EXCEPT !.rbp_offset = @ + 1]
  BY DEF programCreateVar
<1>2. "lbl" \in DOMAIN e /\ e.lbl \in STRING
  <2>1. VarLabel(node.data) \in STRING
    BY DEF VarLabel, Names, TextsOf, LabelsAreStrings, Prefixes
  <2> QED BY <2>1 DEF Entry0
<1> HIDE DEF e
<1>3. Labelled(objVars')
  BY <1>1, <1>2, LabelAdded DEF Names, BackInductive, VarsNest
<1>4. Counts
  <2>1. pos'.lbl_id = pos.lbl_id + 1 /\ pos.lbl_id \in Nat
    BY <1>1, IdRaised DEF Names
  <2> QED BY <2>1 DEF Counts
<1> QED BY <1>1, <1>3, <1>4 DEF Names, Counts

LEMMA FuncNamed ==
  ASSUME NEW Nodes, NEW Defs, Known(Nodes, Defs), NEW node \in Nodes, node.type = "VAR",
         programCreateFunc(node.data)
  PROVE  Names' /\ Counts
<1> USE DEF Known
<1> DEFINE e == Entry0(node.data, FuncLabel(node.data), pos.lvl, 0, "NONE")
<1>1. objFuncs' = Append(objFuncs, e) /\ objVars' = objVars /\ pos' = NextId
  BY DEF programCreateFunc
<1>2. "lbl" \in DOMAIN e /\ e.lbl \in STRING
  <2>1. FuncLabel(node.data) \in STRING
    BY DEF FuncLabel, Names, TextsOf, LabelsAreStrings, Prefixes
  <2> QED BY <2>1 DEF Entry0
<1> HIDE DEF e
<1>3. Labelled(objFuncs')
  BY <1>1, <1>2, LabelAdded DEF Names, BackInductive, FuncsNest
<1>4. Counts
  <2>1. pos'.lbl_id = pos.lbl_id + 1 /\ pos.lbl_id \in Nat
    BY <1>1, IdRaised DEF Names
  <2> QED BY <2>1 DEF Counts
<1> QED BY <1>1, <1>3, <1>4 DEF Names, Counts

LEMMA ArgsNamed ==
  ASSUME NEW Nodes, NEW Defs, Known(Nodes, Defs), ArgsNoted
  PROVE  Names' /\ Counts
<1> USE DEF Known
<1>1. PICK args : objFuncs' = [objFuncs EXCEPT ![Len(objFuncs)].args = args]
  BY DEF ArgsNoted
<1> DEFINE n == Len(objFuncs)  e == [objFuncs[n] EXCEPT !.args = args]
<1>2. objFuncs' = [objFuncs EXCEPT ![n] = e]
  BY <1>1
<1>3. PICK S : objFuncs \in Seq(S)
  BY DEF BackInductive, FuncsNest, Sequence
<1>4. n \in Nat /\ DOMAIN objFuncs = 1 .. n /\ objFuncs \in [1 .. n -> S]
  BY <1>3
<1>5. n \in 1 .. n => DOMAIN e = DOMAIN objFuncs[n] /\ e.lbl = objFuncs[n].lbl
  BY DEF Names, Labelled
<1> HIDE DEF e
<1>6. objFuncs' \in [1 .. n -> S \cup {e}]
  BY <1>2, <1>4
<1>7. objFuncs' \in Seq(S \cup {e}) /\ Len(objFuncs') = n
  BY <1>4, <1>6, IsASeq
<1>8. \A p \in 1 .. n : objFuncs'[p] = IF p = n THEN e ELSE objFuncs[p]
  BY <1>2, <1>4
<1>9. \A p \in 1 .. n : /\ DOMAIN objFuncs'[p] = DOMAIN objFuncs[p]
                        /\ objFuncs'[p].lbl = objFuncs[p].lbl
  BY <1>5, <1>8
<1>10. Labelled(objFuncs')
  BY <1>7, <1>9 DEF Names, Labelled
<1>11. Counts
  BY DEF Counts, Names, ArgsNoted
<1> QED BY <1>10, <1>11 DEF Names, ArgsNoted

LEMMA BlockNamed ==
  ASSUME NEW Nodes, NEW Defs, Known(Nodes, Defs), beginCodeBlock \/ endCodeBlock
  PROVE  Names' /\ Counts
<1> USE DEF Known
<1>1. /\ {"lbl_id", "lvl", "rbp_offset", "code_block_id"} \subseteq DOMAIN pos /\ pos.lbl_id \in Nat
      /\ Sequence(objVars) /\ Labelled(objVars) /\ Sequence(objFuncs) /\ Labelled(objFuncs)
      /\ OrderedDepths(objVars, pos.lvl) /\ OrderedDepths(objFuncs, pos.lvl) /\ pos.lvl \in Nat
  BY EndsFinite DEF Names, BackInductive, VarsNest, FuncsNest, KnownFrames
<1>2. CASE beginCodeBlock
  <2>1. /\ objVars' = Append(objVars, Marker) /\ objFuncs' = objFuncs
        /\ pos' = [NextId EXCEPT !.lvl = @ + 1, !.code_block_id = pos.lbl_id]
    BY <1>2 DEF beginCodeBlock, programAscendLvl
  <2>2. "lbl" \in DOMAIN Marker /\ Marker.lbl \in STRING
    BY DEF Marker, Entry0, WordsAreStrings, Words
  <2>3. Labelled(objVars')
    BY <1>1, <2>1, <2>2, LabelAdded
  <2>4. pos'.lbl_id = pos.lbl_id + 1
    BY <2>1, IdRaised
  <2> QED BY <1>1, <2>1, <2>3, <2>4 DEF Names, Counts
<1>3. CASE endCodeBlock
  <2> DEFINE kept == DescendLvl(objVars, pos.lvl)  m == Len(kept) - 1
             funcs == DescendLvl(objFuncs, pos.lvl)
  <2>1. /\ objVars' = SubSeq(kept, 1, m) /\ objFuncs' = funcs
        /\ pos' = [pos EXCEPT !.rbp_offset = MarkedOffset(kept), !.lvl = @ - 1,
                              !.code_block_id = This.old]
    BY <1>3 DEF endCodeBlock, programDescendLvl
  <2>2. pos'.lbl_id = pos.lbl_id
    BY <1>1, <2>1
  <2>3. PICK a \in 0 .. Len(objVars) : kept = SubSeq(objVars, 1, a)
    BY <1>1, LevelDropped
  <2>4. PICK b \in 0 .. Len(objFuncs) : funcs = SubSeq(objFuncs, 1, b)
    BY <1>1, LevelDropped
  <2>5. Labelled(kept) /\ Sequence(kept) /\ Len(kept) = a /\ a \in Nat
    <3>1. Len(objVars) \in Nat
      BY <1>1 DEF Sequence
    <3> QED BY <1>1, <2>3, <3>1, LabelsDropped
  <2>6. Labelled(funcs)
    BY <1>1, <2>4, LabelsDropped
  <2> HIDE DEF kept, funcs
  <2>7. Labelled(SubSeq(kept, 1, m))
    <3>1. CASE a = 0
      <4>1. SubSeq(kept, 1, m) = <<>>
        <5>1. PICK S : kept \in Seq(S)
          BY <2>5 DEF Sequence
        <5> QED BY <2>5, <3>1, <5>1
      <4>2. Labelled(<<>>)
        BY DEF Labelled
      <4> QED BY <4>1, <4>2
    <3>2. CASE a # 0
      <4>1. m \in 0 .. Len(kept)
        BY <2>5, <3>2
      <4> HIDE DEF m
      <4> QED BY <2>5, <4>1, LabelsDropped
    <3> QED BY <3>1, <3>2
  <2> QED BY <1>1, <2>1, <2>2, <2>6, <2>7 DEF Names, Counts
<1> QED BY <1>2, <1>3

LEMMA NamesStep ==
  ASSUME NEW Nodes, NEW Defs, Known(Nodes, Defs), CompileNext
  PROVE  Names' /\ Counts
<1> USE DEF Known
<1>1. CASE NamesKept
  <2>1. pos.lbl_id \in Nat /\ (pos'.lbl_id = pos.lbl_id \/ pos'.lbl_id = pos.lbl_id + 1)
    BY <1>1, IdRaised DEF NamesKept, Names
  <2> QED BY <1>1, <2>1 DEF NamesKept, Names, Counts
<1>2. CASE beginCodeBlock \/ endCodeBlock
  BY <1>2, BlockNamed
<1>3. CASE compileVarDef
  <2>1. todo # <<>>
    BY <1>3 DEF compileVarDef, At
  <2>2. NamesKept \/ (/\ This.fn = "compileVarDef" /\ Node.type \notin {"NONE", "OP"}
                      /\ programCreateVar(Node.data))
    BY <1>3 DEF compileVarDef, Goes, NamesKept, tables, At
  <2>3. This.fn = "compileVarDef" /\ Node.type \notin {"NONE", "OP"} =>
          Node \in Nodes /\ Node.type = "VAR"
    BY <2>1, NodesThere DEF TextsOf
  <2> QED BY <1>1, <2>2, <2>3, VarNamed
<1>4. CASE compileFuncDef
  <2>1. todo # <<>> /\ Node.type # "NONE"
    BY <1>4 DEF compileFuncDef, At, Is
  <2>2. NamesKept \/ (Node.left.type = "VAR" /\ programCreateFunc(Node.left.data))
    BY <1>4 DEF compileFuncDef, Fails, NamesKept, tables
  <2>3. Node.left \in Nodes
    BY <2>1, NodesThere
  <2> QED BY <1>1, <2>2, <2>3, FuncNamed
<1>5. CASE compileFuncDefArgs
  <2>1. todo # <<>>
    BY <1>5 DEF compileFuncDefArgs, At
  <2>2. NamesKept \/ (Node.type = "VAR" /\ programCreateVar(Node.data))
    BY <1>5 DEF compileFuncDefArgs, Goes, Derails, NamesKept, tables
  <2>3. Node \in Nodes
    BY <2>1, NodesThere
  <2> QED BY <1>1, <2>2, <2>3, VarNamed
<1>6. CASE funcHeader
  BY <1>6, ArgsNamed DEF funcHeader, ArgsNoted
<1>7. CASE compileNothing \/ compileCodeBlock \/ compileStatements \/ emitRest
  BY <1>1, <1>7 DEF compileNothing, compileCodeBlock, compileStatements, emitRest, Goes, Fails,
     Derails, NamesKept, tables
<1>8. CASE compileVarNode \/ compileKVarNode \/ compileConstNode
  BY <1>1, <1>8 DEF compileVarNode, compileKVarNode, compileConstNode, Goes, Fails, Derails,
     NamesKept, tables
<1>9. CASE compileSetDst \/ compileAssignment \/ compileMathOp
  BY <1>1, <1>9 DEF compileSetDst, compileAssignment, compileMathOp, Goes, Fails, Derails,
     NamesKept, tables
<1>10. CASE compileLogicalExpr \/ compileIf \/ compileWhile
  BY <1>1, <1>10, Zenon DEF compileLogicalExpr, compileIf, compileWhile, Goes, Derails, NamesKept, tables
<1>11. CASE branch \/ loop \/ compileMiscOp \/ endOfProgram \/ overflow
  BY <1>1, <1>11 DEF branch, loop, compileMiscOp, endOfProgram, overflow, Goes, NamesKept, tables
<1>12. CASE compileFuncCall \/ compileCommaList
  BY <1>1, <1>12 DEF compileFuncCall, compileCommaList, Goes, Fails, NamesKept, tables
<1> QED BY <1>2, <1>3, <1>4, <1>5, <1>6, <1>7, <1>8, <1>9, <1>10, <1>11, <1>12 DEF CompileNext

-----------------------------------------------------------------------------
(* The theorems.                                                           *)

LEMMA EmitsInit ==
  ASSUME NEW Nodes, NEW Defs, WordsAreStrings, BackendInit
  PROVE  Emits(Defs) /\ Names
<1>1. PICK program \in Programs :
        todo = <<Block(program, 0), Later(<<Begin("RMSF"), Begin("SECT_E")>>)>>
  BY DEF BackendInit
<1>2. /\ emitted = <<emitAddSection("main", BIN_SECTION_PRESET_MAIN),
                     emitAddSection("funcs", BIN_SECTION_PRESET_FUNC),
                     emitSetSection("main"), Begin("ADDSF")>>
      /\ objVars = <<Base>> /\ objFuncs = <<Base>>
      /\ pos = [lbl_id |-> 0, lvl |-> 0, rbp_offset |-> 0, code_block_id |-> 0]
  BY DEF BackendInit
<1> DEFINE ends == <<Begin("RMSF"), Begin("SECT_E")>>
           calls == <<Block(program, 0), Later(ends)>>
<1>3. Ordinary(calls, Defs)
  <2>1. ends \in Seq(PlainInstrs)
    BY StructSeqs, SomeInstrs
  <2> HIDE DEF ends
  <2>2. 0 \in Nat
    OBVIOUS
  <2>3. OrdinaryCall(Block(program, 0), Defs) /\ OrdinaryCall(Later(ends), Defs)
    BY <2>1, <2>2, OrdinaryFrames DEF Particular
  <2> QED BY <2>3, OrdinaryCalls
<1> HIDE DEF calls
<1>4. emitted \in Seq(PlainInstrs) /\ emitted \in Seq(CoutInstrs)
  <2> DEFINE i1 == emitAddSection("main", BIN_SECTION_PRESET_MAIN)
             i2 == emitAddSection("funcs", BIN_SECTION_PRESET_FUNC)
             i3 == emitSetSection("main")  i4 == Begin("ADDSF")
  <2>1. i1 \in PlainInstrs /\ i2 \in PlainInstrs /\ i3 \in PlainInstrs
    <3>1. "main" \in STRING /\ "funcs" \in STRING
      BY DEF WordsAreStrings, Words
    <3>2. BIN_SECTION_PRESET_MAIN \in BinSectionAttr /\ BIN_SECTION_PRESET_FUNC \in BinSectionAttr
      BY DEF BIN_SECTION_PRESET_MAIN, BIN_SECTION_PRESET_FUNC, BinSectionAttr
    <3> QED BY <3>1, <3>2, SectionPlain
  <2>2. i4 \in PlainInstrs
    BY StructSeqs
  <2> HIDE DEF i1, i2, i3, i4
  <2>3. <<i1, i2, i3, i4>> \in Seq(PlainInstrs)
    BY <2>1, <2>2
  <2>4. emitted = <<i1, i2, i3, i4>>
    BY <1>2 DEF i1, i2, i3, i4
  <2> QED BY <2>3, <2>4, SomeInstrs
<1>5. FlagsReach(emitted)
  <2>1. <<>> \in Seq(CoutInstrs) /\ FlagsReach(<<>>)
    BY DEF FlagsReach
  <2>2. FlagsReach(<<>> \o emitted)
    BY <1>4, <2>1, SomeInstrs, FlagsKept
  <2>3. <<>> \o emitted = emitted
    BY <1>4
  <2> QED BY <2>2, <2>3
<1>6. Calls(todo, emitted, Defs, pos.lbl_id) /\ Undecided(todo)
  <2> DEFINE none == <<>>
  <2>1. Calls(none, emitted, Defs, pos.lbl_id) /\ Undecided(none)
    <3>1. Sequence(none) /\ 1 .. Len(none) = {}
      BY DEF Sequence
    <3>2. Labels(emitted) = {} /\ Once(emitted)
      BY <1>4, OneLabel
    <3> QED BY <3>1, <3>2 DEF Calls, Distinct, Stacked, Undecided
  <2>2. calls \o none = calls
    <3>1. PICK S : calls \in Seq(S)
      BY <1>3 DEF Ordinary, Sequence
    <3> QED BY <3>1
  <2> HIDE DEF none
  <2>3. Calls(calls \o none, emitted, Defs, pos.lbl_id) /\ Undecided(calls \o none)
    BY <1>3, <2>1, OrdinaryCallsPushed
  <2> QED BY <1>1, <2>2, <2>3 DEF calls
<1>7. Names
  <2>1. Len(<<Base>>) = 1 /\ <<Base>>[1] = Base
    OBVIOUS
  <2>2. "lbl" \in DOMAIN Base /\ Base.lbl \in STRING
    BY DEF Base, Entry0, WordsAreStrings, Words
  <2> QED BY <1>2, <2>1, <2>2 DEF Names, Labelled
<1> QED BY <1>4, <1>5, <1>6, <1>7 DEF Emits

LEMMA EmitsStep ==
  ASSUME NEW Nodes, NEW Defs, Known(Nodes, Defs), [PipeNext]_pipeVars
  PROVE  Emits(Defs)' /\ Names'
<1>1. CompileNext \/ UNCHANGED backVars
  <2>1. PipeNext => CompileNext \/ UNCHANGED backVars
    BY Zenon DEF PipeNext, PipeStep, compileProgram, translateEmitted, endOfEmitted, link, pipeVars
  <2>2. UNCHANGED pipeVars => UNCHANGED backVars
    BY DEF pipeVars
  <2> QED BY <2>1, <2>2
<1>2. CASE UNCHANGED backVars
  <2>1. Counts
    BY <1>2 DEF Known, backVars, tables, Names, Counts
  <2>2. Emits(Defs)'
    BY <1>2, <2>1, EmitsUnchanged DEF Known, backVars
  <2> QED BY <1>2, <2>2 DEF Known, backVars, tables, Names
<1>3. CASE CompileNext
  <2>1. Names' /\ Counts
    BY <1>3, NamesStep
  <2>2. Emits(Defs)'
    BY <1>3, <2>1, StatementEmits, BlockEmits, RestEmits, VariableEmits, ValueEmits, TargetEmits,
       AssignmentEmits, OperationEmits, ConditionEmits, IfEmits, BranchEmits, WhileEmits, LoopEmits,
       OtherEmits, FunctionEmits, ParameterEmits, HeaderEmits, CallEmits, ListEmits
    DEF CompileNext
  <2> QED BY <2>1, <2>2
<1> QED BY <1>1, <1>2, <1>3

LEMMA EmitsInvariant ==
  ASSUME NEW Nodes, TreesOf(Nodes), NEW Defs, TextsOf(Nodes, Defs), Texts
  PROVE  PipeSpec => []Emits(Defs)
<1>1. PipeInit => BackInductive(Nodes) /\ Emits(Defs) /\ Names
  BY BackInit, EmitsInit DEF PipeInit, Texts
<1>2. /\ BackInductive(Nodes) /\ Emits(Defs) /\ Names
      /\ [PipeNext]_pipeVars
      => (BackInductive(Nodes) /\ Emits(Defs) /\ Names)'
  BY PipeInductive, EmitsStep DEF Known, Texts
<1> QED BY <1>1, <1>2, PTL DEF PipeSpec

(* Flags are "set by directly preceeding cmp or test instruction", for     *)
(* every program: behind the comparison compileLogicalExpr emits, branch   *)
(* and loop emit their jump before anything else writes code, however      *)
(* conditions, blocks and calls are nested.                                *)
THEOREM FlagsHold ==
  ASSUME NEW Nodes, TreesOf(Nodes), NEW Defs, TextsOf(Nodes, Defs), Texts
  PROVE  PipeSpec => []FlagsReachJumps
<1>1. PipeSpec => []Emits(Defs)
  BY EmitsInvariant
<1>2. Emits(Defs) => FlagsReachJumps
  <2> SUFFICES ASSUME Emits(Defs), NEW j \in DOMAIN emitted,
                      emitted[j].type = "JMP", emitted[j].id \notin {"ALW", "NVR"}
               PROVE  LET before == {k \in 1 .. j - 1 : ~ WritesNothing(emitted[k])}
                      IN  before # {} /\ emitted[Max(before)].id \in {"CMP", "TST"}
    BY DEF FlagsReachJumps
  <2>1. j \in 1 .. Len(emitted)
    BY DEF Emits
  <2>2. Tested(emitted, j)
    BY <2>1 DEF Emits, FlagsReach, Conditional
  <2> QED BY <2>2 DEF Tested, Before
<1> QED BY <1>1, <1>2, PTL

(* No two symbols of a program share a label, for every program: the       *)
(* number in a label is read before the counter is raised, and between     *)
(* that and its definition, blocks and branches later, it is owed by one   *)
(* call alone, whatever that call's callees define.                        *)
THEOREM UniqueLabelsHold ==
  ASSUME NEW Nodes, TreesOf(Nodes), NEW Defs, TextsOf(Nodes, Defs), Texts
  PROVE  PipeSpec => []LabelsUnique
<1>1. PipeSpec => []Emits(Defs)
  BY EmitsInvariant
<1>2. Emits(Defs) => LabelsUnique
  <2>1. Emits(Defs) => Once(emitted) /\ DOMAIN emitted = 1 .. Len(emitted)
    BY DEF Emits, Calls, Distinct
  <2> QED BY <2>1 DEF LabelsUnique, Once
<1> QED BY <1>1, <1>2, PTL

-----------------------------------------------------------------------------
(* What is emitted, translated and linked.                                 *)

(* The pipeline's steps behind the back end are those of the passes, on    *)
(* instructions the emit functions can write.                              *)
LEMMA PipePasses ==
  ASSUME NEW Defs, Emits(Defs), LinkInductive, [PipeNext]_pipeVars
  PROVE  [Passes]_<<linkVars, vars>>
<1>1. CASE compileProgram
  BY <1>1 DEF compileProgram
<1>2. CASE translateEmitted
  <2> DEFINE i == InstrAt(ip)
  <2>1. /\ status = "running" /\ ip < Len(emitted)
        /\ translateInstruction(i) \/ reject(i) \/ abort(i) \/ derail(i)
        /\ UNCHANGED linkVars
    BY Zenon, <1>2 DEF translateEmitted, MoreToTranslate, Translating
  <2>2. ip \in Nat /\ emitted \in Seq(CoutInstrs)
    BY <2>1 DEF LinkInductive, Inductive, TypeOK, Emits
  <2>3. i \in CoutInstrs
    BY <2>1, <2>2 DEF InstrAt
  <2> HIDE DEF i
  <2>4. Takes
    BY <2>1, <2>3 DEF Takes, Take
  <2> QED BY <2>1, <2>4 DEF Translate, Passes
<1>3. CASE endOfEmitted
  <2>1. status = "running" /\ endOfStream /\ UNCHANGED linkVars
    BY <1>3 DEF endOfEmitted, Translating
  <2> QED BY <2>1 DEF Takes, Translate, Passes
<1>4. CASE link
  BY <1>4 DEF link, Passes
<1>5. CASE UNCHANGED pipeVars
  BY <1>5 DEF pipeVars
<1> QED BY <1>1, <1>2, <1>3, <1>4, <1>5 DEF PipeNext, PipeStep

(* Every operand field of a compiled program means what its symbol was     *)
(* defined as, for every program: what the back end emits is made of       *)
(* headers as the emit functions write them, so that the translation and   *)
(* the passes behind it do with it what they do with any stream.           *)
THEOREM CompiledFieldsHold ==
  ASSUME NEW Nodes, TreesOf(Nodes), NEW Defs, TextsOf(Nodes, Defs), Texts
  PROVE  PipeSpec => []CompiledFieldsResolve
<1> DEFINE Passing == LinkInductive /\ LinkTyped /\ FieldsFollow
<1>1. PipeSpec => []Emits(Defs)
  BY EmitsInvariant
<1>2. PipeInit => Passing
  <2>1. PipeInit => LinkInit
    BY DEF PipeInit
  <2> QED BY <2>1, LinkStart, TypedStart, FollowStart
<1>3. Emits(Defs) /\ Passing /\ [PipeNext]_pipeVars => Passing'
  BY PipePasses, LinkStep, TypedStep, FollowStep
<1>4. Passing => CompiledFieldsResolve
  BY FieldsFollowed DEF CompiledFieldsResolve
<1> HIDE DEF Passing
<1> QED BY <1>1, <1>2, <1>3, <1>4, PTL DEF PipeSpec
=============================================================================
