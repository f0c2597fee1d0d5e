---------------------------- MODULE ResolveProofs ----------------------------
(***************************************************************************)
(* References made through prototypes get their definitions, for every     *)
(* program whose branches and loops have something in their bodies.        *)
(*                                                                         *)
(* The cell of a prototype is the one behind the one pushed for it, which  *)
(* the next prototype takes: a definition reaches the references made      *)
(* before it if another prototype was declared in between.  For a branch   *)
(* or a loop that is the one its body's block declares for its own end, so *)
(* that the property is one of the order in which the back end emits.      *)
(***************************************************************************)
EXTENDS EmittedProofs

(* A branch or a loop that has a body.                                     *)
FilledBodies(Nodes) ==
  \A n \in Nodes : Is(n, "IF") \/ Is(n, "WHILE") => ~ IsNone(n.right)

(* One more fact about texts the provers have no rules for: "!", the label *)
(* of the markers in the tables, is none of the labels that are numbered.  *)
MarkersTell == \A p \in Prefixes, name \in STRING, id \in Nat : Label(p, name, id) # "!"

-----------------------------------------------------------------------------
(* The order of what is emitted.                                           *)

IsProto(i) == i.type = "TABLE" /\ i.id = "PRE"
RefersTo(i, l) == NamesSymbol(i) /\ TargetName(i) = l

(* Behind the references to a label stands a prototype; between them and   *)
(* its definition, if it was defined.                                      *)
Settled(e, l) ==
  \A j \in 1 .. Len(e) : RefersTo(e[j], l) => \E m \in j + 1 .. Len(e) : IsProto(e[m])
Fenced(e) ==
  \A j, k \in 1 .. Len(e) :
    j < k /\ Defines(e[k]) /\ RefersTo(e[j], e[k].name) => \E m \in j + 1 .. k - 1 : IsProto(e[m])

(* The next call begins a block, and declares its end.                     *)
Forced(s) == s # <<>> /\ s[1].fn = "forcedCodeBlock" /\ ~ IsNone(s[1].node)

(* Labels that are owed are referenced in front of a prototype only, or    *)
(* one comes next; what the tables and the loops know was defined.         *)
Defined(l, e) == l \in Labels(e) \/ l = "!"
Settles ==
  /\ Fenced(emitted)
  /\ \A j \in 1 .. Len(emitted) :
       NamesSymbol(emitted[j]) => Past(TargetName(emitted[j]), pos.lbl_id)
  /\ \A k \in 1 .. Len(todo) :
       /\ \A l \in Owed(todo[k]) : l # "!" /\ (Settled(emitted, l) \/ Forced(todo))
       /\ todo[k].fn = "emit" => \A n \in 1 .. Len(todo[k].instrs) : ~ NamesSymbol(todo[k].instrs[n])
       /\ todo[k].fn = "loop" => WhileBeg(todo[k].id) \in Labels(emitted)
       /\ todo[k].fn = "branch" => ~ IsNone(todo[k].node.right)
  /\ \A p \in 1 .. Len(objVars) : Defined(objVars[p].lbl, emitted)
  /\ \A p \in 1 .. Len(objFuncs) : Defined(objFuncs[p].lbl, emitted)

-----------------------------------------------------------------------------
(* More is emitted.                                                        *)

LEMMA SettledLater ==
  ASSUME NEW e \in Seq(CoutInstrs), NEW t \in Seq(CoutInstrs), NEW l,
         Settled(e, l) \/ \E b \in 1 .. Len(t) : IsProto(t[b]),
         \A a \in 1 .. Len(t) : ~ RefersTo(t[a], l)
  PROVE  Settled(e \o t, l)
<1> DEFINE u == e \o t  n == Len(e)
<1>1. /\ Len(u) = n + Len(t) /\ n \in Nat /\ Len(t) \in Nat
      /\ \A k \in 1 .. n : u[k] = e[k]
      /\ \A k \in 1 .. Len(t) : u[n + k] = t[k]
  BY Joined
<1> SUFFICES ASSUME NEW j \in 1 .. Len(u), RefersTo(u[j], l)
             PROVE  \E m \in j + 1 .. Len(u) : IsProto(u[m])
  BY DEF Settled
<1> HIDE DEF u
<1>2. CASE j <= n
  <2>1. j \in 1 .. n /\ RefersTo(e[j], l)
    BY <1>1, <1>2
  <2>2. CASE Settled(e, l)
    <3>1. PICK m \in j + 1 .. n : IsProto(e[m])
      BY <2>1, <2>2 DEF Settled
    <3>2. m \in 1 .. n /\ m \in j + 1 .. Len(u)
      BY <1>1, <2>1
    <3> QED BY <1>1, <3>1, <3>2
  <2>3. CASE \E b \in 1 .. Len(t) : IsProto(t[b])
    <3>1. PICK b \in 1 .. Len(t) : IsProto(t[b])
      BY <2>3
    <3>2. n + b \in j + 1 .. Len(u)
      BY <1>1, <2>1
    <3> QED BY <1>1, <3>1, <3>2
  <2> QED BY <2>2, <2>3
<1>3. CASE ~ (j <= n)
  <2>1. j - n \in 1 .. Len(t) /\ n + (j - n) = j
    BY <1>1, <1>3
  <2>2. u[j] = t[j - n]
    BY <1>1, <2>1
  <2> QED BY <2>1, <2>2
<1> QED BY <1>2, <1>3

LEMMA FencedLater ==
  ASSUME NEW e \in Seq(CoutInstrs), NEW t \in Seq(CoutInstrs), Fenced(e),
         \A b \in 1 .. Len(t) : Defines(t[b]) =>
           Settled(e, t[b].name) /\ \A a \in 1 .. Len(t) : ~ RefersTo(t[a], t[b].name)
  PROVE  Fenced(e \o t)
<1> DEFINE u == e \o t  n == Len(e)
<1>1. /\ Len(u) = n + Len(t) /\ n \in Nat /\ Len(t) \in Nat
      /\ \A k \in 1 .. n : u[k] = e[k]
      /\ \A k \in 1 .. Len(t) : u[n + k] = t[k]
  BY Joined
<1> SUFFICES ASSUME NEW j \in 1 .. Len(u), NEW k \in 1 .. Len(u), j < k, Defines(u[k]),
                    RefersTo(u[j], u[k].name)
             PROVE  \E m \in j + 1 .. k - 1 : IsProto(u[m])
  BY DEF Fenced
<1> HIDE DEF u
<1>2. CASE k <= n
  <2>1. j \in 1 .. n /\ k \in 1 .. n
    BY <1>1, <1>2
  <2>2. PICK m \in j + 1 .. k - 1 : IsProto(e[m])
    BY <1>1, <2>1 DEF Fenced
  <2>3. m \in 1 .. n
    BY <1>1, <2>1
  <2> QED BY <1>1, <2>2, <2>3
<1>3. CASE ~ (k <= n)
  <2>1. k - n \in 1 .. Len(t) /\ n + (k - n) = k
    BY <1>1, <1>3
  <2>2. u[k] = t[k - n]
    BY <1>1, <2>1
  <2>3. /\ Settled(e, u[k].name)
        /\ \A a \in 1 .. Len(t) : ~ RefersTo(t[a], u[k].name)
    BY <2>1, <2>2
  <2>4. CASE j <= n
    <3>1. j \in 1 .. n /\ RefersTo(e[j], u[k].name)
      BY <1>1, <2>4
    <3>2. PICK m \in j + 1 .. n : IsProto(e[m])
      BY <2>3, <3>1 DEF Settled
    <3>3. m \in 1 .. n /\ m \in j + 1 .. k - 1
      BY <1>1, <1>3, <3>1
    <3> QED BY <1>1, <3>2, <3>3
  <2>5. CASE ~ (j <= n)
    <3>1. j - n \in 1 .. Len(t) /\ n + (j - n) = j
      BY <1>1, <2>5
    <3>2. u[j] = t[j - n]
      BY <1>1, <3>1
    <3> QED BY <2>3, <3>1, <3>2
  <2> QED BY <2>4, <2>5
<1> QED BY <1>2, <1>3

LEMMA LabelsGrow ==
  ASSUME NEW e \in Seq(CoutInstrs), NEW t \in Seq(CoutInstrs)
  PROVE  /\ \A l \in Labels(e) : l \in Labels(e \o t)
         /\ \A k \in 1 .. Len(t) : Defines(t[k]) => t[k].name \in Labels(e \o t)
<1> DEFINE u == e \o t  n == Len(e)
<1>1. /\ Len(u) = n + Len(t) /\ n \in Nat /\ Len(t) \in Nat
      /\ \A k \in 1 .. n : u[k] = e[k]
      /\ \A k \in 1 .. Len(t) : u[n + k] = t[k]
  BY Joined
<1> HIDE DEF u
<1>2. ASSUME NEW l \in Labels(e) PROVE l \in Labels(u)
  <2>1. PICK k \in 1 .. n : Defines(e[k]) /\ e[k].name = l
    BY DEF Labels
  <2>2. k \in 1 .. Len(u) /\ u[k] = e[k]
    BY <1>1
  <2> QED BY <2>1, <2>2 DEF Labels
<1>3. ASSUME NEW k \in 1 .. Len(t), Defines(t[k]) PROVE t[k].name \in Labels(u)
  <2>1. n + k \in 1 .. Len(u) /\ u[n + k] = t[k]
    BY <1>1
  <2> QED BY <1>3, <2>1 DEF Labels
<1> QED BY <1>2, <1>3 DEF u

(* A call of the next state that may stand there: it owes labels that were *)
(* owed before or have the next number.                                    *)
New(l) == ~ Past(l, pos.lbl_id) /\ l # "!"
Lawful(f, e) ==
  /\ \A l \in Owed(f) : New(l) \/ \E k \in 1 .. Len(todo) : l \in Owed(todo[k])
  /\ f.fn = "emit" => \A n \in 1 .. Len(f.instrs) : ~ NamesSymbol(f.instrs[n])
  /\ f.fn = "loop" => WhileBeg(f.id) \in Labels(e)
  /\ f.fn = "branch" => ~ IsNone(f.node.right)
AllLawful(s, e) == \A k \in 1 .. Len(s) : Lawful(s[k], e)

(* What is emitted in one step defines labels that are new or owed by the  *)
(* call that runs, and references what is defined, unless a block begins.  *)
TablesDefined(e) ==
  /\ \A p \in 1 .. Len(objVars) : Defined(objVars[p].lbl, e)
  /\ \A p \in 1 .. Len(objFuncs) : Defined(objFuncs[p].lbl, e)

LEMMA SettlesStep ==
  ASSUME NEW Nodes, NEW Defs, Known(Nodes, Defs), MarkersTell, Counts, Settles,
         NEW t \in Seq(CoutInstrs), emitted' = emitted \o t,
         AllLawful(todo', emitted'), TablesDefined(emitted)',
         \A a \in 1 .. Len(t) : NamesSymbol(t[a]) =>
           \/ Defined(TargetName(t[a]), emitted)
           \/ Past(TargetName(t[a]), pos'.lbl_id) /\ Forced(todo'),
         \A b \in 1 .. Len(t) : Defines(t[b]) =>
           /\ ~ Forced(todo) /\ (New(t[b].name) \/ \E k \in 1 .. Len(todo) : t[b].name \in Owed(todo[k]))
           /\ \A a \in 1 .. Len(t) : ~ RefersTo(t[a], t[b].name),
         Forced(todo) => /\ \E b \in 1 .. Len(t) : IsProto(t[b])
                         /\ \A a \in 1 .. Len(t) : ~ NamesSymbol(t[a])
  PROVE  Settles'
<1>1. emitted \in Seq(CoutInstrs) /\ Distinct(todo, emitted, pos.lbl_id)
      /\ pos.lbl_id \in Nat /\ pos'.lbl_id \in Nat
  BY DEF Known, Emits, Calls, Counts
<1>2. /\ Len(emitted') = Len(emitted) + Len(t) /\ Len(emitted) \in Nat /\ Len(t) \in Nat
      /\ \A k \in 1 .. Len(emitted) : emitted'[k] = emitted[k]
      /\ \A k \in 1 .. Len(t) : emitted'[Len(emitted) + k] = t[k]
  BY <1>1, Joined
<1>3. \A l : Past(l, pos.lbl_id) => Past(l, pos'.lbl_id)
  BY PastLater DEF Counts
<1>4. \A l : Defined(l, emitted) => Past(l, pos.lbl_id)
  BY <1>1 DEF Defined, Distinct, Past, MarkersTell
<1>5. ASSUME NEW l, New(l) PROVE Settled(emitted, l)
  BY <1>5 DEF New, Settles, Settled, RefersTo
<1>6. ASSUME NEW l, NEW k \in 1 .. Len(todo), l \in Owed(todo[k])
      PROVE  l # "!" /\ (Settled(emitted, l) \/ Forced(todo)) /\ ~ Defined(l, emitted)
  BY <1>1, <1>6 DEF Settles, Defined, Distinct
<1>7. ASSUME NEW l, New(l) PROVE ~ Defined(l, emitted)
  BY <1>4, <1>7 DEF New
<1>8. Fenced(emitted')
  <2>1. \A b \in 1 .. Len(t) : Defines(t[b]) => Settled(emitted, t[b].name)
    BY <1>5, <1>6
  <2> QED BY <1>1, <2>1, FencedLater DEF Settles
<1>9. ASSUME NEW j \in 1 .. Len(emitted'), NamesSymbol(emitted'[j])
      PROVE  Past(TargetName(emitted'[j]), pos'.lbl_id)
  <2>1. CASE j <= Len(emitted)
    <3>1. j \in 1 .. Len(emitted) /\ emitted'[j] = emitted[j]
      BY <1>2, <2>1
    <3> QED BY <1>3, <1>9, <3>1 DEF Settles
  <2>2. CASE ~ (j <= Len(emitted))
    <3>1. j - Len(emitted) \in 1 .. Len(t) /\ Len(emitted) + (j - Len(emitted)) = j
      BY <1>2, <2>2
    <3>2. emitted'[j] = t[j - Len(emitted)]
      BY <1>2, <3>1
    <3> QED BY <1>3, <1>4, <1>9, <3>1, <3>2
  <2> QED BY <2>1, <2>2
<1>10. ASSUME NEW k \in 1 .. Len(todo'), NEW l \in Owed(todo'[k])
       PROVE  l # "!" /\ (Settled(emitted', l) \/ Forced(todo'))
  <2>1. New(l) \/ \E j \in 1 .. Len(todo) : l \in Owed(todo[j])
    BY DEF AllLawful, Lawful
  <2>2. l # "!" /\ ~ Defined(l, emitted) /\ (Settled(emitted, l) \/ Forced(todo))
    BY <1>5, <1>6, <1>7, <2>1 DEF New
  <2>3. CASE Forced(todo')
    BY <2>2, <2>3
  <2>4. CASE ~ Forced(todo')
    <3>1. \A a \in 1 .. Len(t) : ~ RefersTo(t[a], l)
      BY <2>2, <2>4 DEF RefersTo
    <3>2. Settled(emitted, l) \/ \E b \in 1 .. Len(t) : IsProto(t[b])
      BY <2>2
    <3>3. Settled(emitted', l)
      BY <1>1, <3>1, <3>2, SettledLater
    <3> QED BY <2>2, <3>3
  <2> QED BY <2>3, <2>4
<1>11. \A k \in 1 .. Len(todo') :
         /\ todo'[k].fn = "emit" =>
              \A n \in 1 .. Len(todo'[k].instrs) : ~ NamesSymbol(todo'[k].instrs[n])
         /\ todo'[k].fn = "loop" => WhileBeg(todo'[k].id) \in Labels(emitted')
         /\ todo'[k].fn = "branch" => ~ IsNone(todo'[k].node.right)
  BY DEF AllLawful, Lawful
<1> QED BY <1>8, <1>9, <1>10, <1>11 DEF Settles, TablesDefined

(* The calls below the one that runs.                                      *)
LEMMA BelowLawful ==
  ASSUME NEW Nodes, NEW Defs, Known(Nodes, Defs), Settles, todo # <<>>,
         NEW t \in Seq(CoutInstrs)
  PROVE  AllLawful(Tail(todo), emitted \o t) /\ Sequence(Tail(todo))
         /\ \A k \in 1 .. Len(todo) : Lawful(todo[k], emitted \o t)
<1>1. PICK S : todo \in Seq(S)
  BY DEF Known, Emits, Calls, Stacked, Sequence
<1>2. Tail(todo) \in Seq(S) /\ \A k \in 1 .. Len(Tail(todo)) : Tail(todo)[k] = todo[k + 1] /\ k + 1 \in 1 .. Len(todo)
  BY <1>1
<1>3. \A l \in Labels(emitted) : l \in Labels(emitted \o t)
  BY LabelsGrow DEF Known, Emits
<1>4. \A k \in 1 .. Len(todo) : Lawful(todo[k], emitted \o t)
  BY <1>3 DEF Settles, Lawful
<1> QED BY <1>2, <1>4 DEF AllLawful, Sequence

LEMMA LawfulJoined ==
  ASSUME NEW s, NEW t, NEW e, Sequence(s), Sequence(t), AllLawful(s, e), AllLawful(t, e)
  PROVE  AllLawful(s \o t, e)
<1>1. \A k \in 1 .. Len(s \o t) :
        (s \o t)[k] = IF k <= Len(s) THEN s[k] ELSE t[k - Len(s)]
  BY Concatenated
<1>2. Len(s \o t) = Len(s) + Len(t) /\ Len(s) \in Nat /\ Len(t) \in Nat
  BY Concatenated
<1> SUFFICES ASSUME NEW k \in 1 .. Len(s \o t) PROVE Lawful((s \o t)[k], e)
  BY DEF AllLawful
<1>3. CASE k <= Len(s)
  <2>1. k \in 1 .. Len(s) /\ (s \o t)[k] = s[k]
    BY <1>1, <1>2, <1>3
  <2> QED BY <2>1 DEF AllLawful
<1>4. CASE ~ (k <= Len(s))
  <2>1. k - Len(s) \in 1 .. Len(t) /\ (s \o t)[k] = t[k - Len(s)]
    BY <1>1, <1>2, <1>4
  <2> QED BY <2>1 DEF AllLawful
<1> QED BY <1>3, <1>4

-----------------------------------------------------------------------------
(* Instructions that neither reference nor define a label.                 *)

MuteInstrs == {i \in PlainInstrs : ~ NamesSymbol(i)}

LEMMA MuteOnes ==
  ASSUME WordsAreStrings
  PROVE  /\ \A op \in GenericInstrs : Gen(op) \in MuteInstrs
         /\ \A id \in {"ADDSF", "NCB_B", "RCB_B", "NONLIN_B", "SECT_E", "RMSF", "CB_E", "NONLIN_E"} :
              Begin(id) \in MuteInstrs
         /\ \A req \in Nat : emitStructuralInstruction("CB_E", 0, req) \in MuteInstrs
         /\ \A val \in Int : emitConstInstruction(val) \in MuteInstrs
         /\ \A name \in STRING : /\ emitTablePrototype(name) \in MuteInstrs
                                 /\ IsProto(emitTablePrototype(name))
                                 /\ emitSetSection(name) \in MuteInstrs
         /\ emitRetInstruction(0, TRUE) \in MuteInstrs
         /\ \A store \in BOOLEAN : emitMemInstruction({"arg"}, store, 0) \in MuteInstrs
<1>1. ASSUME NEW op \in GenericInstrs PROVE Gen(op) \in MuteInstrs
  <2>1. Gen(op) \in PlainInstrs /\ Gen(op).type = "GENERIC"
    BY GenericPlain
  <2> QED BY <2>1 DEF MuteInstrs, NamesSymbol, WritesJump
<1>2. ASSUME NEW id \in {"ADDSF", "NCB_B", "RCB_B", "NONLIN_B", "SECT_E", "RMSF", "CB_E", "NONLIN_E"}
      PROVE  \A req \in Nat : emitStructuralInstruction(id, 0, req) \in MuteInstrs
  <2> SUFFICES ASSUME NEW req \in Nat PROVE emitStructuralInstruction(id, 0, req) \in MuteInstrs
    OBVIOUS
  <2> DEFINE i == emitStructuralInstruction(id, 0, req)
  <2>1. i \in PlainInstrs /\ i.type = "STRUCT"
    BY StructPlain
  <2> HIDE DEF i
  <2>2. i \in MuteInstrs
    BY <2>1 DEF MuteInstrs, NamesSymbol, WritesJump
  <2> QED BY <2>2 DEF i
<1>3. ASSUME NEW val \in Int PROVE emitConstInstruction(val) \in MuteInstrs
  <2>1. emitConstInstruction(val) \in PlainInstrs
    BY ConstPlain
  <2>2. emitConstInstruction(val).type = "CONST"
    BY DEF emitConstInstruction, Instr
  <2> QED BY <2>1, <2>2 DEF MuteInstrs, NamesSymbol, WritesJump
<1>4. ASSUME NEW name \in STRING
      PROVE  /\ emitTablePrototype(name) \in MuteInstrs /\ IsProto(emitTablePrototype(name))
             /\ emitSetSection(name) \in MuteInstrs
  <2>1. emitTablePrototype(name) \in PlainInstrs /\ emitSetSection(name) \in PlainInstrs
    BY TablePlain, SectionPlain
  <2>2. /\ emitTablePrototype(name).type = "TABLE" /\ emitTablePrototype(name).id = "PRE"
        /\ emitSetSection(name).type = "STRUCT"
    BY DEF emitTablePrototype, emitTableSomething, emitSetSection, Instr
  <2> QED BY <2>1, <2>2 DEF MuteInstrs, NamesSymbol, WritesJump, IsProto
<1>5. emitRetInstruction(0, TRUE) \in MuteInstrs
  <2>1. emitRetInstruction(0, TRUE) \in PlainInstrs
    BY SpecialPlain
  <2>2. emitRetInstruction(0, TRUE).type = "SPECIAL" /\ emitRetInstruction(0, TRUE).id = "RETF"
    BY DEF emitRetInstruction, Instr
  <2> QED BY <2>1, <2>2 DEF MuteInstrs, NamesSymbol, WritesJump, IsReturn
<1>6. ASSUME NEW store \in BOOLEAN PROVE emitMemInstruction({"arg"}, store, 0) \in MuteInstrs
  <2>1. {"arg"} \in MemMods /\ "-" \in STRING
    BY DEF MemMods, WordsAreStrings, Words
  <2>2. emitMemInstruction({"arg"}, store, 0) \in PlainInstrs
    BY <2>1, MemPlain
  <2>3. /\ emitMemInstruction({"arg"}, store, 0).name = NoName
        /\ emitMemInstruction({"arg"}, store, 0).type \in {"LOAD", "STORE"}
    BY DEF emitMemInstruction, emitMemInstruction_l, Instr
  <2> QED BY <2>2, <2>3 DEF MuteInstrs, NamesSymbol, WritesJump
<1> QED BY <1>1, <1>2, <1>3, <1>4, <1>5, <1>6 DEF Begin

(* Code of a keyword is made of generic instructions and zeros.            *)
LEMMA CodeOver ==
  ASSUME NEW S, \A op \in GenericInstrs : Gen(op) \in S, emitConstInstruction(0) \in S
  PROVE  /\ \A n \in Int, i \in S : Times(n, i) \in Seq(S)
         /\ \A n \in Nat : Copies(n) \in Seq(S)
         /\ \A kword \in Keywords, wr, req \in Nat :
              KVarCode(kword, wr, req) \in Seq(S)
<1>1. ASSUME NEW n \in Int, NEW i \in S PROVE Times(n, i) \in Seq(S)
  <2>1. \A m \in Nat : [k \in 1 .. m |-> i] \in Seq(S)
    BY IsASeq
  <2>2. CASE n \in Nat
    BY <2>1, <2>2 DEF Times
  <2>3. CASE n \notin Nat
    <3>1. 1 .. n = 1 .. 0 /\ 0 \in Nat
      BY <2>3
    <3>2. [k \in 1 .. n |-> i] = [k \in 1 .. 0 |-> i]
      BY <3>1
    <3> QED BY <2>1, <3>1, <3>2 DEF Times
  <2> QED BY <2>2, <2>3
<1>2. /\ "OUT" \in GenericInstrs /\ "INP" \in GenericInstrs /\ "END" \in GenericInstrs
      /\ "TRAP" \in GenericInstrs /\ "BAD" \in GenericInstrs
      /\ "DUP" \in GenericInstrs /\ "POP" \in GenericInstrs
  BY DEF GenericInstrs
<1>3. \A n \in Nat : Copies(n) \in Seq(S) /\ PopsSpare(n) \in Seq(S)
  <2>1. \A n \in Nat : n - 1 \in Int
    OBVIOUS
  <2> QED BY <1>1, <1>2, <2>1 DEF Copies, PopsSpare
<1>4. \A n \in Nat, i \in S : Times(n, i) \in Seq(S)
  BY <1>1
<1>5. \A i \in S : <<i>> \in Seq(S)
  OBVIOUS
<1>6. \A s, t \in Seq(S) : s \o t \in Seq(S)
  OBVIOUS
<1>7. ASSUME NEW wr \in Nat, NEW req \in Nat PROVE Exit(wr, req) \in Seq(S)
  <2>1. (IF wr = 0 THEN <<emitConstInstruction(0)>> ELSE PopsSpare(wr)) \in Seq(S)
    BY <1>3, <1>5
  <2>2. (IF req > 0 THEN <<emitConstInstruction(0)>> \o Copies(req) ELSE <<>>) \in Seq(S)
    BY <1>3, <1>5, <1>6
  <2>3. <<Gen("END")>> \in Seq(S)
    BY <1>2, <1>5
  <2> QED BY <1>6, <2>1, <2>2, <2>3 DEF Exit
<1>8. ASSUME NEW wr \in Nat, NEW req \in Nat,
             NEW kword \in Keywords
      PROVE  KVarCode(kword, wr, req) \in Seq(S)
  <2>1. Times(wr, Gen("OUT")) \o Times(req, Gen("INP")) \in Seq(S)
    <3>1. Times(wr, Gen("OUT")) \in Seq(S) /\ Times(req, Gen("INP")) \in Seq(S)
      BY <1>2, <1>4
    <3> QED BY <1>6, <3>1
  <2>2. Times(wr, Gen("INP")) \in Seq(S) /\ <<Gen("TRAP")>> \in Seq(S) /\ <<Gen("BAD")>> \in Seq(S)
    BY <1>2, <1>4, <1>5
  <2>3. <<>> \in Seq(S)
    OBVIOUS
  <2> QED BY <1>7, <2>1, <2>2, <2>3 DEF KVarCode, Keywords
<1> QED BY <1>1, <1>3, <1>8

LEMMA MuteCode ==
  ASSUME WordsAreStrings
  PROVE  /\ Seq(MuteInstrs) \subseteq Seq(CoutInstrs)
         /\ <<>> \in Seq(MuteInstrs)
         /\ \A i \in MuteInstrs : <<i>> \in Seq(MuteInstrs)
         /\ \A i, j \in MuteInstrs : <<i, j>> \in Seq(MuteInstrs)
         /\ \A s, t \in Seq(MuteInstrs) : s \o t \in Seq(MuteInstrs)
         /\ \A n \in Nat : Copies(n) \in Seq(MuteInstrs)
         /\ \A n \in Int, i \in MuteInstrs : Times(n, i) \in Seq(MuteInstrs)
         /\ \A kword \in Keywords, wr, req \in Nat :
              KVarCode(kword, wr, req) \in Seq(MuteInstrs)
<1>1. MuteInstrs \subseteq CoutInstrs
  BY DEF MuteInstrs, PlainInstrs, SteadyInstrs
<1>2. \A op \in GenericInstrs : Gen(op) \in MuteInstrs
  BY MuteOnes
<1>3. emitConstInstruction(0) \in MuteInstrs
  BY MuteOnes
<1>4. /\ \A n \in Nat : Copies(n) \in Seq(MuteInstrs)
      /\ \A n \in Int, i \in MuteInstrs : Times(n, i) \in Seq(MuteInstrs)
      /\ \A kword \in Keywords, wr, req \in Nat :
              KVarCode(kword, wr, req) \in Seq(MuteInstrs)
  BY <1>2, <1>3, CodeOver
<1>5. Seq(MuteInstrs) \subseteq Seq(CoutInstrs)
  BY <1>1, SeqMonotonic
<1> QED BY <1>4, <1>5

LEMMA MuteSays ==
  \A t \in Seq(MuteInstrs) :
    Labels(t) = {} /\ \A n \in 1 .. Len(t) : ~ NamesSymbol(t[n]) /\ ~ Defines(t[n])
BY DEF MuteInstrs, PlainInstrs, Labels

(* Calls that may stand anywhere.                                          *)
LEMMA LawfulFrames ==
  ASSUME NEW e
  PROVE  /\ \A fn, node, req : fn \notin {"emit", "endCodeBlock", "branch", "loop"} =>
              Lawful(Frame(fn, node, req), e)
         /\ \A node, req, wr : Lawful(Writes("compileSetDst", node, req, wr), e)
         /\ \A node, req : Lawful(Block(node, req), e)
         /\ \A instrs \in Seq(MuteInstrs) : Lawful(Later(instrs), e)
<1>1. ASSUME NEW f, f.fn \notin {"emit", "endCodeBlock", "branch", "loop"} PROVE Lawful(f, e)
  BY <1>1 DEF Lawful, Owed
<1>2. \A fn, node, req : Frame(fn, node, req).fn = fn
  BY DEF Frame
<1>3. \A node, req, wr : Writes("compileSetDst", node, req, wr).fn = "compileSetDst"
  BY DEF Writes, Frame
<1>4. \A instrs : Later(instrs).fn = "emit" /\ Later(instrs).instrs = instrs
  BY DEF Later, Frame
<1>5. \A instrs \in Seq(MuteInstrs) : Lawful(Later(instrs), e)
  BY <1>4, MuteSays DEF Lawful, Owed
<1> QED BY <1>1, <1>2, <1>3, <1>5 DEF Block

LEMMA LawfulCalls ==
  ASSUME NEW e
  PROVE  /\ AllLawful(<<>>, e) /\ Sequence(<<>>)
         /\ \A f : Lawful(f, e) => AllLawful(<<f>>, e) /\ Sequence(<<f>>)
         /\ \A f, g : Lawful(f, e) /\ Lawful(g, e) => AllLawful(<<f, g>>, e) /\ Sequence(<<f, g>>)
         /\ \A s, t : /\ Sequence(s) /\ Sequence(t) /\ AllLawful(s, e) /\ AllLawful(t, e)
                      => Sequence(s \o t) /\ AllLawful(s \o t, e)
<1>1. AllLawful(<<>>, e) /\ Sequence(<<>>)
  BY DEF AllLawful, Sequence
<1>2. ASSUME NEW f, Lawful(f, e) PROVE AllLawful(<<f>>, e) /\ Sequence(<<f>>)
  <2> DEFINE s == <<f>>
  <2>1. s \in Seq({f}) /\ Len(s) = 1 /\ s[1] = f
    OBVIOUS
  <2> HIDE DEF s
  <2>2. \A k \in 1 .. Len(s) : s[k] = f
    BY <2>1
  <2>3. AllLawful(s, e) /\ Sequence(s)
    BY <1>2, <2>1, <2>2 DEF AllLawful, Sequence
  <2> QED BY <2>3 DEF s
<1>3. ASSUME NEW f, NEW g, Lawful(f, e), Lawful(g, e)
      PROVE  AllLawful(<<f, g>>, e) /\ Sequence(<<f, g>>)
  <2> DEFINE s == <<f, g>>
  <2>1. s \in Seq({f, g}) /\ Len(s) = 2 /\ s[1] = f /\ s[2] = g
    OBVIOUS
  <2> HIDE DEF s
  <2>2. \A k \in 1 .. Len(s) : s[k] = f \/ s[k] = g
    BY <2>1
  <2>3. AllLawful(s, e) /\ Sequence(s)
    BY <1>3, <2>1, <2>2 DEF AllLawful, Sequence
  <2> QED BY <2>3 DEF s
<1> QED BY <1>1, <1>2, <1>3, LawfulJoined, Concatenated

-----------------------------------------------------------------------------
(* The actions of the back end.                                            *)

(* What every action finds.                                                *)
Settling(Nodes, Defs) ==
  Known(Nodes, Defs) /\ MarkersTell /\ FilledBodies(Nodes) /\ Counts /\ Settles

LEMMA RunLawful ==
  ASSUME NEW Nodes, NEW Defs, Settling(Nodes, Defs), todo # <<>>, NEW t \in Seq(CoutInstrs),
         emitted' = emitted \o t, NEW calls, Sequence(calls), AllLawful(calls, emitted'),
         todo' = calls \o Tail(todo)
  PROVE  AllLawful(todo', emitted')
BY BelowLawful, LawfulJoined DEF Settling

(* An action that emits nothing of interest and leaves the tables.         *)
LEMMA MuteStep ==
  ASSUME NEW Nodes, NEW Defs, Settling(Nodes, Defs), ~ Forced(todo),
         NEW t \in Seq(MuteInstrs), emitted' = emitted \o t, AllLawful(todo', emitted'),
         UNCHANGED <<objVars, objFuncs>>
  PROVE  Settles'
<1>1. t \in Seq(CoutInstrs) /\ emitted \in Seq(CoutInstrs)
  BY MuteCode DEF Settling, Known, Emits
<1>2. \A n \in 1 .. Len(t) : ~ NamesSymbol(t[n]) /\ ~ Defines(t[n])
  BY MuteSays
<1>3. TablesDefined(emitted)'
  <2>1. \A l : Defined(l, emitted) => Defined(l, emitted')
    BY <1>1, LabelsGrow DEF Defined
  <2> QED BY <2>1 DEF TablesDefined, Settling, Settles
<1> QED BY <1>1, <1>2, <1>3, SettlesStep DEF Settling

LEMMA MuteGoes ==
  ASSUME NEW Nodes, NEW Defs, Settling(Nodes, Defs), todo # <<>>, ~ Forced(todo),
         NEW t \in Seq(MuteInstrs), NEW calls, Sequence(calls),
         \A e : AllLawful(calls, e),
         Goes(calls, t) \/ Fails(calls, t)
         \/ (Does(calls, t) /\ UNCHANGED <<objVars, objFuncs>>)
  PROVE  Settles'
<1>1. /\ todo' = calls \o Tail(todo) /\ emitted' = emitted \o t
      /\ UNCHANGED <<objVars, objFuncs>>
  BY DEF Goes, Fails, Does, Runs, tables
<1>2. t \in Seq(CoutInstrs)
  BY MuteCode DEF Settling, Known
<1>3. AllLawful(todo', emitted')
  BY <1>1, <1>2, RunLawful
<1> QED BY <1>1, <1>3, MuteStep

LEMMA SettlesUnchanged ==
  ASSUME NEW Nodes, NEW Defs, Settling(Nodes, Defs), UNCHANGED <<todo, emitted, objVars, objFuncs>>
  PROVE  Settles'
<1>1. \A l : Past(l, pos.lbl_id) => Past(l, pos'.lbl_id)
  BY PastLater DEF Settling, Counts
<1> QED BY <1>1 DEF Settling, Settles

(* The call that runs begins no block unless it is forced to.              *)
LEMMA NotForced ==
  ASSUME NEW Nodes, NEW Defs, Settling(Nodes, Defs), todo # <<>>,
         This.fn # "forcedCodeBlock" \/ IsNone(Node)
  PROVE  ~ Forced(todo)
<1>1. This = todo[1]
  BY Below DEF Settling, Known
<1> QED BY <1>1 DEF Forced, Node

LEMMA StatementSettles ==
  ASSUME NEW Nodes, NEW Defs, Settling(Nodes, Defs),
         compileNothing \/ compileCodeBlock \/ compileStatements
  PROVE  Settles'
<1>1. <<>> \in Seq(MuteInstrs)
  OBVIOUS
<1>2. CASE compileNothing
  <2>1. /\ todo # <<>> /\ IsNone(Node)
        /\ Goes(<<>>, <<>>) \/ Fails(<<>>, <<>>) \/ Derails
    BY <1>2 DEF compileNothing, At
  <2>2. ~ Forced(todo)
    BY <2>1, NotForced
  <2>3. Derails => UNCHANGED <<todo, emitted, objVars, objFuncs>>
    BY DEF Derails, tables
  <2> QED BY <1>1, <2>1, <2>2, <2>3, LawfulCalls, MuteGoes, SettlesUnchanged
<1>3. CASE compileCodeBlock
  <2>1. /\ todo # <<>> /\ This.fn = "compileCodeBlock"
        /\ Goes(<<Frame("compileCode", Node, This.req)>>, <<>>)
    BY <1>3 DEF compileCodeBlock, At
  <2>2. ~ Forced(todo)
    BY <2>1, NotForced
  <2>3. \A e : AllLawful(<<Frame("compileCode", Node, This.req)>>, e)
        /\ Sequence(<<Frame("compileCode", Node, This.req)>>)
    BY LawfulFrames, LawfulCalls
  <2> QED BY <1>1, <2>1, <2>2, <2>3, MuteGoes
<1>4. CASE compileStatements
  <2> DEFINE calls == IF This.req > 0 THEN <<Block(Node, This.req)>> ELSE Statements(Node)
  <2>1. todo # <<>> /\ This.fn = "compileCode" /\ Goes(calls, <<>>)
    BY <1>4 DEF compileStatements, At
  <2>2. ~ Forced(todo)
    BY <2>1, NotForced
  <2>3. \A e : AllLawful(calls, e) /\ Sequence(calls)
    BY LawfulFrames, LawfulCalls DEF Statements
  <2> HIDE DEF calls
  <2> QED BY <1>1, <2>1, <2>2, <2>3, MuteGoes
<1> QED BY <1>2, <1>3, <1>4

LEMMA GenericLawful ==
  ASSUME NEW node, NEW instrs \in Seq(MuteInstrs), NEW e
  PROVE  AllLawful(GenericOp(node, instrs), e) /\ Sequence(GenericOp(node, instrs))
  <1> DEFINE left == IF IsNone(node.left) THEN <<>> ELSE <<Block(node.left, 1)>>
             right == <<Block(node.right, 1)>>
             last == <<Later(instrs)>>
             both == IF LacksOperand(node) THEN <<>> ELSE left \o right
  <1>1. /\ AllLawful(left, e) /\ Sequence(left) /\ AllLawful(right, e) /\ Sequence(right)
        /\ AllLawful(last, e) /\ Sequence(last) /\ AllLawful(<<>>, e) /\ Sequence(<<>>)
    BY LawfulFrames, LawfulCalls
  <1>2. GenericOp(node, instrs) = both \o last
    BY DEF GenericOp, Operands
  <1> HIDE DEF left, right, last
  <1>3. AllLawful(left \o right, e) /\ Sequence(left \o right)
    BY <1>1, LawfulCalls
  <1>4. AllLawful(both, e) /\ Sequence(both)
    BY <1>1, <1>3
  <1> HIDE DEF both
  <1> QED BY <1>1, <1>2, <1>4, LawfulCalls

LEMMA OperationSettles ==
  ASSUME NEW Nodes, NEW Defs, Settling(Nodes, Defs),
         compileAssignment \/ compileMathOp \/ compileMiscOp
  PROVE  Settles'
<1>1. WordsAreStrings /\ <<>> \in Seq(MuteInstrs)
  BY DEF Settling, Known
<1>2. todo # <<>> /\ This.fn \in {"compileCode", "derefValue"}
  BY DEF compileAssignment, compileMathOp, compileMiscOp, At
<1>3. ~ Forced(todo) /\ This.req \in Nat
  BY <1>2, NotForced, NodesThere DEF Settling
<1>5. CASE compileAssignment
  <2> DEFINE sum == IF Is(Node, "EQARTL") THEN <<Block(Node.left, 1), Later(<<Gen("ADD")>>)>> ELSE <<>>
             first == <<Block(Node.right, 1)>>
             last == <<Writes("compileSetDst", Node.left, This.req, 1)>>
  <2>1. Goes((first \o sum) \o last, <<>>)
    BY <1>5 DEF compileAssignment
  <2>2. \A e : Lawful(Later(<<Gen("ADD")>>), e)
    <3>1. <<Gen("ADD")>> \in Seq(MuteInstrs)
      BY <1>1, MuteOnes, MuteCode DEF GenericInstrs
    <3> QED BY <3>1, LawfulFrames
  <2>3. ASSUME NEW e PROVE AllLawful((first \o sum) \o last, e) /\ Sequence((first \o sum) \o last)
    <3>1. AllLawful(first, e) /\ Sequence(first) /\ AllLawful(sum, e) /\ Sequence(sum)
          /\ AllLawful(last, e) /\ Sequence(last)
      BY <2>2, LawfulFrames, LawfulCalls
    <3> HIDE DEF first, sum, last
    <3>2. AllLawful(first \o sum, e) /\ Sequence(first \o sum)
      BY <3>1, LawfulCalls
    <3> QED BY <3>1, <3>2, LawfulCalls
  <2> HIDE DEF first, sum, last
  <2> QED BY <1>1, <1>2, <1>3, <2>1, <2>3, MuteGoes
<1>7. CASE compileMathOp
  <2> DEFINE instrs == IF Node.data \in Arithmetic THEN <<Gen(Node.data)>> ELSE <<>>
  <2>1. \/ Goes(<<>>, <<>>)
        \/ Does(GenericOp(Node, instrs), <<>>) /\ UNCHANGED tables
    BY <1>7, Zenon DEF compileMathOp
  <2>2. instrs \in Seq(MuteInstrs)
    BY <1>1, MuteOnes, MuteCode DEF Arithmetic, GenericInstrs
  <2> HIDE DEF instrs
  <2>3. UNCHANGED tables => UNCHANGED <<objVars, objFuncs>>
    BY DEF tables
  <2> QED BY <1>1, <1>2, <1>3, <2>1, <2>2, <2>3, GenericLawful, LawfulCalls, MuteGoes
<1>8. CASE compileMiscOp
  <2>1. CASE Goes(<<>>, <<>>)
    BY <1>1, <1>2, <1>3, <2>1, LawfulCalls, MuteGoes
  <2>2. CASE Goes(<<Block(Node.right, 1), [This EXCEPT !.fn = "derefValue", !.old = ret]>>, <<>>)
    <3> DEFINE rest == [This EXCEPT !.fn = "derefValue", !.old = ret]
               calls == <<Block(Node.right, 1), rest>>
    <3>1. rest.fn = "derefValue"
      BY <1>2, NodesThere DEF IsCall, Settling
    <3> HIDE DEF rest
    <3>2. \A e : Lawful(rest, e)
      BY <3>1 DEF Lawful, Owed
    <3>3. \A e : AllLawful(calls, e) /\ Sequence(calls)
      BY <3>2, LawfulFrames, LawfulCalls
    <3>4. Goes(calls, <<>>)
      BY <2>2 DEF calls, rest
    <3> HIDE DEF calls
    <3> QED BY <1>1, <1>2, <1>3, <3>3, <3>4, MuteGoes
  <2>3. CASE Does(<<>>, derefInstrs(This.req)) /\ UNCHANGED tables
    <3> DEFINE load == emitMemInstruction({"arg"}, FALSE, 0)
    <3>1. load \in MuteInstrs /\ Copies(This.req) \in Seq(MuteInstrs)
      BY <1>1, <1>3, MuteOnes, MuteCode
    <3> HIDE DEF load
    <3>2. <<load>> \in Seq(MuteInstrs)
      BY <3>1, <1>1, MuteCode
    <3>3. <<load>> \o Copies(This.req) \in Seq(MuteInstrs)
      BY <1>1, <3>1, <3>2, MuteCode
    <3>4. derefInstrs(This.req) \in Seq(MuteInstrs) /\ UNCHANGED <<objVars, objFuncs>>
      BY <2>3, <3>3 DEF derefInstrs, load, tables
    <3> QED BY <1>1, <1>2, <1>3, <2>3, <3>4, LawfulCalls, MuteGoes
  <2> QED BY <1>8, <2>1, <2>2, <2>3, Zenon DEF compileMiscOp
<1> QED BY <1>5, <1>7, <1>8

(* What is in the tables was defined.                                      *)
DefinedTable(table, e) == \A p \in 1 .. Len(table) : Defined(table[p].lbl, e)

LEMMA DefinedLater ==
  ASSUME NEW e \in Seq(CoutInstrs), NEW t \in Seq(CoutInstrs)
  PROVE  /\ \A l : Defined(l, e) => Defined(l, e \o t)
         /\ \A table : DefinedTable(table, e) => DefinedTable(table, e \o t)
<1>1. \A l : Defined(l, e) => Defined(l, e \o t)
  BY LabelsGrow DEF Defined
<1> QED BY <1>1 DEF DefinedTable

LEMMA DefinedAdded ==
  ASSUME NEW table, Sequence(table), NEW e, DefinedTable(table, e), NEW x, Defined(x.lbl, e)
  PROVE  DefinedTable(Append(table, x), e)
<1> DEFINE t == Append(table, x)  n == Len(table)
<1>1. /\ n \in Nat /\ Len(t) = n + 1 /\ \A p \in 1 .. n : t[p] = table[p]
      /\ t[n + 1] = x
  BY Appended
<1> HIDE DEF t
<1>2. \A p \in 1 .. n + 1 : p \in 1 .. n \/ p = n + 1
  BY <1>1
<1>3. DefinedTable(t, e)
  BY <1>1, <1>2 DEF DefinedTable
<1> QED BY <1>3 DEF t

LEMMA DefinedDropped ==
  ASSUME NEW table, Sequence(table), NEW e, DefinedTable(table, e), NEW n \in 0 .. Len(table)
  PROVE  DefinedTable(SubSeq(table, 1, n), e)
<1> DEFINE t == SubSeq(table, 1, n)
<1>1. Sequence(t) /\ Len(t) = n /\ Len(table) \in Nat /\ \A p \in 1 .. n : t[p] = table[p]
  BY Shortened
<1> HIDE DEF t
<1>2. DefinedTable(t, e)
  BY <1>1 DEF DefinedTable
<1> QED BY <1>2 DEF t

LEMMA TablesLater ==
  ASSUME NEW Nodes, NEW Defs, Settling(Nodes, Defs), NEW t \in Seq(CoutInstrs),
         emitted' = emitted \o t
  PROVE  /\ DefinedTable(objVars, emitted') /\ DefinedTable(objFuncs, emitted')
         /\ Sequence(objVars) /\ Sequence(objFuncs)
         /\ UNCHANGED <<objVars, objFuncs>> => TablesDefined(emitted)'
<1>1. DefinedTable(objVars, emitted) /\ DefinedTable(objFuncs, emitted)
  BY DEF Settling, Settles, DefinedTable
<1>2. DefinedTable(objVars, emitted') /\ DefinedTable(objFuncs, emitted')
  BY <1>1, DefinedLater DEF Settling, Known, Emits
<1>3. UNCHANGED <<objVars, objFuncs>> => TablesDefined(emitted)'
  BY <1>2 DEF DefinedTable, TablesDefined
<1>4. Sequence(objVars) /\ Sequence(objFuncs)
  BY DEF Settling, Known, BackInductive, VarsNest, FuncsNest
<1> QED BY <1>2, <1>3, <1>4

(* Labels of the next number are new.                                      *)
LEMMA NewLabels ==
  ASSUME NEW Nodes, NEW Defs, Settling(Nodes, Defs), pos'.lbl_id = pos.lbl_id + 1
  PROVE  LET id == pos.lbl_id
             Fresh(l) == New(l) /\ Past(l, pos'.lbl_id) /\ l \in STRING
         IN  /\ Fresh(BlockEnd(id)) /\ Fresh(IfEnd(id)) /\ Fresh(WhileBeg(id)) /\ Fresh(WhileMid(id))
             /\ \A name \in STRING : Fresh(VarLabel(name)) /\ Fresh(FuncLabel(name))
             /\ WhileBeg(id) # WhileMid(id)
<1> DEFINE id == pos.lbl_id  Fresh(l) == New(l) /\ Past(l, pos'.lbl_id) /\ l \in STRING
           Late(l) == Past(l, pos'.lbl_id) /\ l \in STRING
<1>1. pos.lbl_id \in Nat /\ "" \in STRING /\ pos.lbl_id >= pos.lbl_id
  <2>1. pos.lbl_id \in Nat /\ WordsAreStrings
    BY DEF Settling, Known, Names
  <2>2. "" \in STRING
    BY <2>1 DEF WordsAreStrings, Words
  <2>3. \A n \in Nat : n >= n
    OBVIOUS
  <2> QED BY <2>1, <2>2, <2>3
<1>2. ASSUME NEW p \in Prefixes, NEW name \in STRING PROVE New(Label(p, name, id))
  <2>1. Label(p, name, id) # "!"
    BY <1>1 DEF Settling, MarkersTell
  <2>2. ~ Past(Label(p, name, id), id)
    BY <1>1, Zenon DEF Past
  <2> QED BY <2>1, <2>2 DEF New
<1>3. /\ Late(BlockEnd(id)) /\ Late(IfEnd(id)) /\ Late(WhileBeg(id)) /\ Late(WhileMid(id))
      /\ \A name \in STRING : Late(VarLabel(name)) /\ Late(FuncLabel(name))
      /\ WhileBeg(id) # WhileMid(id)
  BY FreshLabels DEF Settling
<1> HIDE DEF Late
<1>4. /\ New(BlockEnd(id)) /\ New(IfEnd(id)) /\ New(WhileBeg(id)) /\ New(WhileMid(id))
      /\ \A name \in STRING : New(VarLabel(name)) /\ New(FuncLabel(name))
  BY <1>1, <1>2 DEF BlockEnd, IfEnd, WhileBeg, WhileMid, VarLabel, FuncLabel, Prefixes
<1> QED BY <1>3, <1>4, Zenon DEF Late

LEMMA Elements ==
  /\ \A i : Len(<<i>>) = 1 /\ <<i>>[1] = i /\ \A k \in 1 .. Len(<<i>>) : k = 1
  /\ \A i, j : /\ Len(<<i, j>>) = 2 /\ <<i, j>>[1] = i /\ <<i, j>>[2] = j
               /\ \A k \in 1 .. Len(<<i, j>>) : k = 1 \/ k = 2
<1>1. ASSUME NEW i PROVE Len(<<i>>) = 1 /\ <<i>>[1] = i /\ \A k \in 1 .. Len(<<i>>) : k = 1
  <2>1. Len(<<i>>) = 1 /\ <<i>>[1] = i
    OBVIOUS
  <2> QED BY <2>1
<1>2. ASSUME NEW i, NEW j
      PROVE  /\ Len(<<i, j>>) = 2 /\ <<i, j>>[1] = i /\ <<i, j>>[2] = j
             /\ \A k \in 1 .. Len(<<i, j>>) : k = 1 \/ k = 2
  <2>1. Len(<<i, j>>) = 2 /\ <<i, j>>[1] = i /\ <<i, j>>[2] = j
    OBVIOUS
  <2>2. \A k \in 1 .. 2 : k = 1 \/ k = 2
    OBVIOUS
  <2> QED BY <2>1, <2>2
<1> QED BY <1>1, <1>2

(* One step that references nothing.                                       *)
LEMMA QuietStep ==
  ASSUME NEW Nodes, NEW Defs, Settling(Nodes, Defs), NEW t \in Seq(CoutInstrs),
         emitted' = emitted \o t, AllLawful(todo', emitted'), TablesDefined(emitted)',
         \A n \in 1 .. Len(t) : ~ NamesSymbol(t[n]),
         \A b \in 1 .. Len(t) : Defines(t[b]) =>
           ~ Forced(todo) /\ (New(t[b].name) \/ \E k \in 1 .. Len(todo) : t[b].name \in Owed(todo[k])),
         Forced(todo) => \E b \in 1 .. Len(t) : IsProto(t[b])
  PROVE  Settles'
<1>1. \A a \in 1 .. Len(t) : \A l : ~ RefersTo(t[a], l)
  BY DEF RefersTo
<1>2. \A b \in 1 .. Len(t) : Defines(t[b]) =>
        /\ ~ Forced(todo) /\ (New(t[b].name) \/ \E k \in 1 .. Len(todo) : t[b].name \in Owed(todo[k]))
        /\ \A a \in 1 .. Len(t) : ~ RefersTo(t[a], t[b].name)
  BY <1>1
<1>3. \A a \in 1 .. Len(t) : NamesSymbol(t[a]) =>
        \/ Defined(TargetName(t[a]), emitted)
        \/ Past(TargetName(t[a]), pos'.lbl_id) /\ Forced(todo')
  OBVIOUS
<1>4. Known(Nodes, Defs) /\ MarkersTell /\ Counts /\ Settles
  BY DEF Settling
<1> QED BY <1>2, <1>3, <1>4, SettlesStep

LEMMA DefinesQuiet ==
  /\ \A i : Defines(i) => ~ NamesSymbol(i)
  /\ \A i \in MuteInstrs : ~ NamesSymbol(i) /\ ~ Defines(i) /\ i \in CoutInstrs
  /\ \A i, l : DefinesAs(i, l) => Defines(i) /\ i.name = l /\ i \in CoutInstrs
BY DEF Defines, NamesSymbol, WritesJump, MuteInstrs, PlainInstrs, SteadyInstrs, DefinesAs

(* The call that runs is the first one.                                    *)
LEMMA RunsFirst ==
  ASSUME NEW Nodes, NEW Defs, Settling(Nodes, Defs), todo # <<>>
  PROVE  This = todo[1] /\ 1 \in 1 .. Len(todo)
<1>1. This = todo[1] /\ Sequence(todo)
  BY Below DEF Settling, Known, Emits, Calls, Stacked
<1>2. PICK S : todo \in Seq(S)
  BY <1>1 DEF Sequence
<1> QED BY <1>1, <1>2

LEMMA BlockSettles ==
  ASSUME NEW Nodes, NEW Defs, Settling(Nodes, Defs), beginCodeBlock \/ endCodeBlock
  PROVE  Settles'
<1>1. WordsAreStrings /\ LabelsAreStrings /\ Known(Nodes, Defs) /\ pos.lbl_id \in Nat
  BY DEF Settling, Known, Names
<1>2. todo # <<>>
  BY DEF beginCodeBlock, endCodeBlock, At
<1>3. IsCall(This, Defs) /\ This.req \in Nat /\ This.id \in Nat
  BY <1>1, <1>2, NodesThere
<1>4. CASE beginCodeBlock
  <2> DEFINE id == pos.lbl_id  lbl == BlockEnd(id)
             body == Frame("compileCode", Node, This.req)
             rest == [This EXCEPT !.fn = "endCodeBlock", !.id = id, !.old = pos.code_block_id]
             begin == Begin(IF This.req = 0 THEN "NCB_B" ELSE "RCB_B")
             proto == emitTablePrototype(lbl)  t == <<begin, proto>>
  <2>1. /\ todo' = <<body, rest>> \o Tail(todo) /\ emitted' = emitted \o t
        /\ objVars' = Append(objVars, Marker) /\ objFuncs' = objFuncs
    BY <1>4, Zenon DEF beginCodeBlock, Does, Runs, programAscendLvl
  <2>2. rest.fn = "endCodeBlock" /\ rest.id = id
    BY <1>3 DEF IsCall
  <2>3. New(lbl) /\ lbl \in STRING
    <3>1. pos'.lbl_id = id + 1
      BY <1>1, <1>4, IdRaised DEF beginCodeBlock
    <3> QED BY <3>1, NewLabels
  <2>4. begin \in MuteInstrs /\ proto \in MuteInstrs /\ IsProto(proto)
    BY <1>1, <2>3, MuteOnes
  <2> HIDE DEF lbl, rest, begin, proto
  <2>5. t \in Seq(MuteInstrs) /\ t \in Seq(CoutInstrs)
    BY <1>1, <2>4, MuteCode
  <2>6. \E b \in 1 .. Len(t) : IsProto(t[b])
    <3>1. 2 \in 1 .. Len(t) /\ t[2] = proto
      BY Elements
    <3> QED BY <2>4, <3>1
  <2> HIDE DEF t
  <2>7. AllLawful(todo', emitted')
    <3>1. \A e : Lawful(rest, e)
      <4>1. Owed(rest) = {lbl} /\ rest.fn \notin {"emit", "loop", "branch"}
        BY <2>2 DEF Owed, lbl
      <4> QED BY <2>3, <4>1 DEF Lawful
    <3>2. \A e : Lawful(body, e)
      BY LawfulFrames
    <3> HIDE DEF body
    <3>3. AllLawful(<<body, rest>>, emitted') /\ Sequence(<<body, rest>>)
      BY <3>1, <3>2, LawfulCalls
    <3> QED BY <1>2, <2>1, <2>5, <3>3, RunLawful
  <2>8. TablesDefined(emitted)'
    <3>1. /\ DefinedTable(objVars, emitted') /\ DefinedTable(objFuncs, emitted')
          /\ Sequence(objVars)
      BY <2>1, <2>5, TablesLater
    <3>2. Defined(Marker.lbl, emitted')
      BY DEF Marker, Entry0, Defined
    <3>3. DefinedTable(objVars', emitted')
      BY <2>1, <3>1, <3>2, DefinedAdded
    <3> QED BY <2>1, <3>1, <3>3 DEF DefinedTable, TablesDefined
  <2> QED BY <2>1, <2>5, <2>6, <2>7, <2>8, MuteSays, QuietStep
<1>5. CASE endCodeBlock
  <2> DEFINE lbl == BlockEnd(This.id)  here == emitTableLbl(lbl)
             end == emitStructuralInstruction("CB_E", 0, This.req)  t == <<here, end>>
             kept == DescendLvl(objVars, pos.lvl)  m == Len(kept) - 1
             funcs == DescendLvl(objFuncs, pos.lvl)
  <2>1. /\ This.fn = "endCodeBlock" /\ todo' = <<>> \o Tail(todo) /\ emitted' = emitted \o t
        /\ objVars' = SubSeq(kept, 1, m) /\ objFuncs' = funcs
    BY <1>5, Zenon DEF endCodeBlock, Does, Runs, programDescendLvl, At
  <2>2. DefinesAs(here, lbl)
    BY <1>1, <1>3, LabelInstrs
  <2>3. end \in MuteInstrs
    BY <1>1, <1>3, MuteOnes
  <2> HIDE DEF here, end
  <2>4. t \in Seq(CoutInstrs)
    BY <2>2, <2>3, DefinesQuiet
  <2>5. /\ \A n \in 1 .. Len(t) : ~ NamesSymbol(t[n])
        /\ \A b \in 1 .. Len(t) : Defines(t[b]) => t[b].name = lbl
    BY <2>2, <2>3, Elements, DefinesQuiet
  <2> HIDE DEF t
  <2>6. ~ Forced(todo) /\ \E k \in 1 .. Len(todo) : lbl \in Owed(todo[k])
    <3>1. This = todo[1] /\ 1 \in 1 .. Len(todo)
      BY <1>2, RunsFirst
    <3>2. lbl \in Owed(This)
      BY <2>1 DEF Owed
    <3> QED BY <1>2, <2>1, <3>1, <3>2, NotForced
  <2>7. AllLawful(todo', emitted')
    BY <1>2, <2>1, <2>4, LawfulCalls, RunLawful
  <2>8. TablesDefined(emitted)'
    <3>1. /\ DefinedTable(objVars, emitted') /\ DefinedTable(objFuncs, emitted')
          /\ Sequence(objVars) /\ Sequence(objFuncs)
      BY <2>1, <2>4, TablesLater
    <3>2. OrderedDepths(objVars, pos.lvl) /\ OrderedDepths(objFuncs, pos.lvl) /\ pos.lvl \in Nat
      BY <1>1, EndsFinite DEF Known, BackInductive, VarsNest, FuncsNest, KnownFrames
    <3>3. PICK a \in 0 .. Len(objVars) : kept = SubSeq(objVars, 1, a)
      BY <3>1, <3>2, LevelDropped
    <3>4. PICK b \in 0 .. Len(objFuncs) : funcs = SubSeq(objFuncs, 1, b)
      BY <3>1, <3>2, LevelDropped
    <3>5. DefinedTable(kept, emitted') /\ Sequence(kept) /\ Len(kept) = a /\ a \in Nat
      <4>1. Len(objVars) \in Nat
        BY <3>1 DEF Sequence
      <4> QED BY <3>1, <3>3, <4>1, DefinedDropped, Shortened
    <3>6. DefinedTable(objFuncs', emitted')
      BY <2>1, <3>1, <3>4, DefinedDropped
    <3> HIDE DEF kept, funcs
    <3>7. DefinedTable(objVars', emitted')
      <4>1. CASE a = 0
        <5>1. PICK S : kept \in Seq(S)
          BY <3>5 DEF Sequence
        <5>2. SubSeq(kept, 1, m) = <<>>
          BY <3>5, <4>1, <5>1
        <5>3. DefinedTable(<<>>, emitted')
          BY DEF DefinedTable
        <5> QED BY <2>1, <5>2, <5>3
      <4>2. CASE a # 0
        <5>1. m \in 0 .. Len(kept)
          BY <3>5, <4>2
        <5> HIDE DEF m
        <5> QED BY <2>1, <3>5, <5>1, DefinedDropped
      <4> QED BY <4>1, <4>2
    <3> QED BY <3>6, <3>7 DEF DefinedTable, TablesDefined
  <2> QED BY <2>1, <2>4, <2>5, <2>6, <2>7, <2>8, QuietStep
<1> QED BY <1>4, <1>5

LEMMA RestSettles ==
  ASSUME NEW Nodes, NEW Defs, Settling(Nodes, Defs), emitRest
  PROVE  Settles'
<1> DEFINE t == This.instrs
<1>1. /\ todo # <<>> /\ This.fn = "emit" /\ todo' = <<>> \o Tail(todo) /\ emitted' = emitted \o t
      /\ UNCHANGED <<objVars, objFuncs>>
  BY DEF emitRest, At, Goes, Does, Runs, tables
<1>2. t \in Seq(CoutInstrs)
  <2>1. t \in Seq(SteadyInstrs)
    BY <1>1, NodesThere DEF Settling
  <2>2. SteadyInstrs \subseteq CoutInstrs
    BY DEF SteadyInstrs
  <2> QED BY <2>1, <2>2, SeqMonotonic
<1>3. This = todo[1] /\ 1 \in 1 .. Len(todo)
  BY <1>1, RunsFirst
<1>4. /\ \A n \in 1 .. Len(t) : ~ NamesSymbol(t[n])
      /\ \A b \in 1 .. Len(t) : Defines(t[b]) => t[b].name \in Owed(todo[1])
  BY <1>1, <1>3 DEF Settling, Settles, Owed, Labels
<1>5. ~ Forced(todo)
  BY <1>1, NotForced
<1> HIDE DEF t
<1>6. AllLawful(todo', emitted') /\ TablesDefined(emitted)'
  BY <1>1, <1>2, LawfulCalls, RunLawful, TablesLater
<1> QED BY <1>1, <1>2, <1>3, <1>4, <1>5, <1>6, QuietStep

(* A variable, or a parameter, gets its label when it gets its entry.      *)
LEMMA NamedHere ==
  ASSUME NEW Nodes, NEW Defs, Settling(Nodes, Defs), NEW name \in STRING, programCreateVar(name),
         NEW i, DefinesAs(i, VarLabel(name)), emitted' = emitted \o <<i>>,
         AllLawful(todo', emitted'), ~ Forced(todo)
  PROVE  Settles'
<1> DEFINE lbl == VarLabel(name)  t == <<i>>
           x == Entry0(name, lbl, pos.lvl, pos.rbp_offset, "NONE")
<1>1. /\ objVars' = Append(objVars, x) /\ objFuncs' = objFuncs
      /\ pos' = [NextId EXCEPT !.rbp_offset = @ + 1]
  BY DEF programCreateVar
<1>2. New(lbl)
  <2>1. pos'.lbl_id = pos.lbl_id + 1
    BY <1>1, IdRaised DEF Settling
  <2> QED BY <2>1, NewLabels
<1>3. t \in Seq(CoutInstrs) /\ Len(t) = 1 /\ t[1] = i /\ \A k \in 1 .. Len(t) : k = 1
  BY Elements, DefinesQuiet
<1>4. /\ \A n \in 1 .. Len(t) : ~ NamesSymbol(t[n])
      /\ \A b \in 1 .. Len(t) : Defines(t[b]) => t[b].name = lbl
  BY <1>3, DefinesQuiet
<1>5. emitted' = emitted \o t
  OBVIOUS
<1>6. Defined(lbl, emitted')
  <2>1. emitted \in Seq(CoutInstrs) /\ 1 \in 1 .. Len(t) /\ Defines(t[1]) /\ t[1].name = lbl
    BY <1>3, DefinesQuiet DEF Settling, Known, Emits
  <2> HIDE DEF t, lbl
  <2> QED BY <1>3, <1>5, <2>1, LabelsGrow DEF Defined
<1> HIDE DEF t
<1>7. TablesDefined(emitted)'
  <2>1. x.lbl = lbl
    BY DEF Entry0
  <2>2. /\ DefinedTable(objVars, emitted') /\ DefinedTable(objFuncs, emitted')
        /\ Sequence(objVars)
    BY <1>3, <1>5, TablesLater
  <2> HIDE DEF x, lbl
  <2>3. DefinedTable(objVars', emitted')
    BY <1>1, <1>6, <2>1, <2>2, DefinedAdded
  <2> QED BY <1>1, <2>2, <2>3 DEF DefinedTable, TablesDefined
<1> QED BY <1>2, <1>3, <1>4, <1>5, <1>7, QuietStep

LEMMA VariableSettles ==
  ASSUME NEW Nodes, NEW Defs, Settling(Nodes, Defs), compileVarDef
  PROVE  Settles'
<1>1. WordsAreStrings /\ <<>> \in Seq(MuteInstrs) /\ Known(Nodes, Defs)
  BY DEF Settling, Known
<1>2. todo # <<>> /\ This.fn \in {"compileCode", "compileVarDef"}
  BY DEF compileVarDef, At
<1>3. ~ Forced(todo)
  BY <1>2, NotForced
<1>4. ASSUME NEW calls, Goes(calls, <<>>),
             \/ \E a : calls = <<Frame("compileVarDef", a, 0)>>
             \/ calls = <<>>
             \/ \E a, b : calls = <<Frame("compileVarDef", a, 0), Frame("compileVarDef", b, 0)>>
      PROVE  Settles'
  <2>1. \A e : AllLawful(calls, e) /\ Sequence(calls)
    <3>1. \A e, a : Lawful(Frame("compileVarDef", a, 0), e)
      BY LawfulFrames
    <3> QED BY <1>4, <3>1, LawfulCalls
  <2> QED BY <1>1, <1>2, <1>3, <1>4, <2>1, MuteGoes
<1>5. CASE /\ At("compileVarDef") /\ Node.type \notin {"NONE", "OP"}
           /\ Does(<<>>, <<emitTableStackVar(VarLabel(Node.data), 1)>>)
           /\ programCreateVar(Node.data)
  <2> DEFINE lbl == VarLabel(Node.data)  i == emitTableStackVar(lbl, 1)
  <2>1. Node.data \in STRING
    BY <1>1, <1>2, <1>5, NodesThere DEF TextsOf, At, Known
  <2>2. lbl \in STRING
    <3>1. pos'.lbl_id = pos.lbl_id + 1
      BY <1>1, <1>5, IdRaised DEF programCreateVar
    <3> QED BY <2>1, <3>1, NewLabels
  <2>3. DefinesAs(i, lbl)
    BY <1>1, <2>2, TablePlain
  <2>4. todo' = <<>> \o Tail(todo) /\ emitted' = emitted \o <<i>>
    BY <1>5 DEF Does, Runs
  <2> HIDE DEF i
  <2>5. <<i>> \in Seq(CoutInstrs)
    BY <2>3, DefinesQuiet
  <2>6. AllLawful(todo', emitted')
    BY <1>2, <2>4, <2>5, LawfulCalls, RunLawful
  <2> QED BY <1>3, <1>5, <2>1, <2>3, <2>4, <2>6, NamedHere
<1>6. compileVarDef =>
        \/ \E calls : /\ Goes(calls, <<>>)
                      /\ \/ \E a : calls = <<Frame("compileVarDef", a, 0)>>
                         \/ calls = <<>>
                         \/ \E a, b : calls = <<Frame("compileVarDef", a, 0), Frame("compileVarDef", b, 0)>>
        \/ /\ At("compileVarDef") /\ Node.type \notin {"NONE", "OP"}
           /\ Does(<<>>, <<emitTableStackVar(VarLabel(Node.data), 1)>>)
           /\ programCreateVar(Node.data)
  BY ZenonT(30) DEF compileVarDef
<1> QED BY <1>4, <1>5, <1>6

(* What is in the tables may be referenced anywhere.                       *)
ReferringInstrs == {i \in PlainInstrs : NamesSymbol(i) => Defined(TargetName(i), emitted)}

LEMMA ReferStep ==
  ASSUME NEW Nodes, NEW Defs, Settling(Nodes, Defs), todo # <<>>, ~ Forced(todo),
         NEW t \in Seq(CoutInstrs), emitted' = emitted \o t,
         \A n \in 1 .. Len(t) :
           ~ Defines(t[n]) /\ (NamesSymbol(t[n]) => Defined(TargetName(t[n]), emitted)),
         AllLawful(todo', emitted'), UNCHANGED <<objVars, objFuncs>>
  PROVE  Settles'
<1>1. TablesDefined(emitted)'
  BY TablesLater
<1>2. Known(Nodes, Defs) /\ MarkersTell /\ Counts /\ Settles
  BY DEF Settling
<1> QED BY <1>1, <1>2, SettlesStep

LEMMA ReferGoes ==
  ASSUME NEW Nodes, NEW Defs, Settling(Nodes, Defs), todo # <<>>, ~ Forced(todo),
         NEW t \in Seq(ReferringInstrs), Goes(<<>>, t)
  PROVE  Settles'
<1>1. todo' = <<>> \o Tail(todo) /\ emitted' = emitted \o t /\ UNCHANGED <<objVars, objFuncs>>
  BY DEF Goes, Does, Runs, tables
<1>2. t \in Seq(CoutInstrs)
  <2>1. ReferringInstrs \subseteq CoutInstrs
    BY DEF ReferringInstrs, PlainInstrs, SteadyInstrs
  <2> QED BY <2>1, SeqMonotonic
<1>3. \A n \in 1 .. Len(t) :
        ~ Defines(t[n]) /\ (NamesSymbol(t[n]) => Defined(TargetName(t[n]), emitted))
  BY DEF ReferringInstrs, PlainInstrs
<1>4. AllLawful(todo', emitted')
  BY <1>1, <1>2, LawfulCalls, RunLawful
<1> QED BY <1>1, <1>2, <1>3, <1>4, ReferStep

LEMMA NewestFound ==
  ASSUME NEW table, Sequence(table), NEW S, S \subseteq 1 .. Len(table), S # {}
  PROVE  Max(S) \in 1 .. Len(table)
<1>1. Len(table) \in Nat
  BY DEF Sequence
<1>2. S \in SUBSET (0 .. Len(table))
  BY <1>1
<1>3. Max(S) \in S
  BY <1>1, <1>2, MaxFacts
<1> QED BY <1>3

LEMMA ValueSettles ==
  ASSUME NEW Nodes, NEW Defs, Settling(Nodes, Defs),
         compileVarNode \/ compileKVarNode \/ compileConstNode
  PROVE  Settles'
<1>1. WordsAreStrings /\ <<>> \in Seq(MuteInstrs) /\ Known(Nodes, Defs)
  BY DEF Settling, Known
<1>2. todo # <<>> /\ This.fn \in {"compileCode", "compileSetDst"}
  BY DEF compileVarNode, compileKVarNode, compileConstNode, Reached, At
<1>3. /\ Node \in Nodes /\ This.req \in Nat /\ This.wr \in Nat
      /\ This.req \in Int /\ This.wr \in Int /\ ~ Forced(todo)
  BY <1>1, <1>2, NodesThere, NotForced
<1>4. CASE Derails
  BY <1>4, SettlesUnchanged DEF Derails, tables
<1>5. CASE compileVarNode /\ ~ Derails
  <2> DEFINE p == Max(Found(objVars, Node.data))
             store == compileVarAcc(Node.data, TRUE)  load == compileVarAcc(Node.data, FALSE)
             t == Times(This.wr, store) \o Times(This.req, load)
  <2>1. Found(objVars, Node.data) # {} /\ Goes(<<>>, t)
    BY <1>5 DEF compileVarNode
  <2>2. p \in 1 .. Len(objVars)
    <3>1. Sequence(objVars)
      BY <1>1 DEF Known, BackInductive, VarsNest
    <3>2. DOMAIN objVars = 1 .. Len(objVars)
      BY <3>1 DEF Sequence
    <3>3. Found(objVars, Node.data) \subseteq 1 .. Len(objVars)
      BY <3>2 DEF Found
    <3> QED BY <2>1, <3>1, <3>3, NewestFound
  <2>3. objVars[p].lbl \in STRING /\ Defined(objVars[p].lbl, emitted)
    BY <2>2 DEF Settling, Known, Names, Labelled, Settles
  <2> HIDE DEF p
  <2>4. {"bp"} \in MemMods /\ TRUE \in BOOLEAN /\ FALSE \in BOOLEAN
    BY DEF MemMods
  <2>5. \A write \in BOOLEAN :
          LET i == emitMemInstruction_l({"bp"}, write, objVars[p].lbl)
          IN  i \in PlainInstrs /\ i.name = objVars[p].lbl /\ i.type \in {"LOAD", "STORE"}
    <3> TAKE write \in BOOLEAN
    <3> DEFINE i == emitMemInstruction_l({"bp"}, write, objVars[p].lbl)
    <3>1. i \in PlainInstrs
      BY <1>1, <2>3, <2>4, MemPlain
    <3>2. i.name = objVars[p].lbl /\ i.type \in {"LOAD", "STORE"}
      BY DEF emitMemInstruction_l, Instr
    <3> QED BY <3>1, <3>2
  <2>6. store \in ReferringInstrs /\ load \in ReferringInstrs
    <3>1. \A write \in BOOLEAN : emitMemInstruction_l({"bp"}, write, objVars[p].lbl) \in ReferringInstrs
      <4> TAKE write \in BOOLEAN
      <4> DEFINE i == emitMemInstruction_l({"bp"}, write, objVars[p].lbl)
      <4>1. i \in PlainInstrs /\ i.name = objVars[p].lbl /\ i.type \in {"LOAD", "STORE"}
        BY <2>5
      <4> HIDE DEF i
      <4>2. i \in ReferringInstrs
        BY <2>3, <4>1 DEF ReferringInstrs, TargetName
      <4> QED BY <4>2 DEF i
    <3> QED BY <2>4, <3>1 DEF compileVarAcc, p
  <2> HIDE DEF store, load
  <2>7. t \in Seq(ReferringInstrs)
    <3>1. \A n \in Nat : \A i \in ReferringInstrs : Times(n, i) \in Seq(ReferringInstrs)
      <4>1. \A n \in Nat, i \in ReferringInstrs : [k \in 1 .. n |-> i] \in Seq(ReferringInstrs)
        BY IsASeq
      <4> QED BY <4>1 DEF Times
    <3>2. Times(This.wr, store) \in Seq(ReferringInstrs) /\ Times(This.req, load) \in Seq(ReferringInstrs)
      BY <1>3, <2>6, <3>1
    <3> QED BY <3>2
  <2> HIDE DEF t
  <2> QED BY <1>2, <1>3, <2>1, <2>7, ReferGoes
<1>6. CASE compileKVarNode
  <2>1. \/ Fails(<<>>, <<>>)
        \/ Node.data \in Keywords /\ Goes(<<>>, KVarCode(Node.data, This.wr, This.req))
    BY <1>6 DEF compileKVarNode
  <2>2. Node.data \in Keywords => KVarCode(Node.data, This.wr, This.req) \in Seq(MuteInstrs)
    BY <1>1, <1>3, MuteCode
  <2> QED BY <1>1, <1>2, <1>3, <2>1, <2>2, LawfulCalls, MuteGoes
<1>7. CASE compileConstNode
  <2> DEFINE instrs == IF This.req = 0 THEN <<>>
                       ELSE <<emitConstInstruction(Node.data)>> \o Copies(This.req)
  <2>1. Node.type = "CONST" /\ Goes(<<>>, instrs)
    BY <1>7 DEF compileConstNode
  <2>2. instrs \in Seq(MuteInstrs)
    <3>1. Node.data \in Int
      BY <1>1, <1>3, <2>1 DEF Known, TextsOf
    <3>2. emitConstInstruction(Node.data) \in MuteInstrs /\ Copies(This.req) \in Seq(MuteInstrs)
      BY <1>1, <1>3, <3>1, MuteOnes, MuteCode
    <3>3. <<emitConstInstruction(Node.data)>> \in Seq(MuteInstrs)
      BY <1>1, <3>2, MuteCode
    <3> QED BY <1>1, <3>2, <3>3, MuteCode
  <2> HIDE DEF instrs
  <2> QED BY <1>1, <1>2, <1>3, <2>1, <2>2, LawfulCalls, MuteGoes
<1> QED BY <1>4, <1>5, <1>6, <1>7

LEMMA TargetSettles ==
  ASSUME NEW Nodes, NEW Defs, Settling(Nodes, Defs), compileSetDst
  PROVE  Settles'
<1>1. WordsAreStrings /\ <<>> \in Seq(MuteInstrs) /\ <<Gen("DUP")>> \in Seq(MuteInstrs)
      /\ Known(Nodes, Defs)
  BY MuteOnes, MuteCode DEF Settling, Known, GenericInstrs
<1>2. todo # <<>> /\ This.fn \in {"compileSetDst", "derefTarget"}
  BY DEF compileSetDst, At
<1>3. ~ Forced(todo) /\ IsCall(This, Defs)
  BY <1>1, <1>2, NodesThere, NotForced
<1>4. CASE Fails(<<>>, <<>>) \/ Derails
  <2>1. Derails => UNCHANGED <<todo, emitted, objVars, objFuncs>>
    BY DEF Derails, tables
  <2> QED BY <1>1, <1>2, <1>3, <1>4, <2>1, LawfulCalls, MuteGoes, SettlesUnchanged
<1>5. ASSUME NEW a, NEW b,
             Goes(<<Writes("compileSetDst", Node.left, a, This.wr),
                    Writes("compileSetDst", Node.left, b, This.wr)>>, <<Gen("DUP")>>)
      PROVE  Settles'
  <2> DEFINE calls == <<Writes("compileSetDst", Node.left, a, This.wr),
                        Writes("compileSetDst", Node.left, b, This.wr)>>
  <2>1. \A e : AllLawful(calls, e) /\ Sequence(calls)
    BY LawfulFrames, LawfulCalls
  <2> HIDE DEF calls
  <2>2. Goes(calls, <<Gen("DUP")>>)
    BY <1>5 DEF calls
  <2> QED BY <1>1, <1>2, <1>3, <2>1, <2>2, MuteGoes
<1>6. CASE Goes(<<Block(Node.right, 1), [This EXCEPT !.fn = "derefTarget"]>>, <<>>)
  <2> DEFINE rest == [This EXCEPT !.fn = "derefTarget"]  calls == <<Block(Node.right, 1), rest>>
  <2>1. rest.fn = "derefTarget"
    BY <1>3 DEF IsCall
  <2> HIDE DEF rest
  <2>2. \A e : Lawful(rest, e)
    BY <2>1 DEF Lawful, Owed
  <2>3. \A e : AllLawful(calls, e) /\ Sequence(calls)
    BY <2>2, LawfulFrames, LawfulCalls
  <2>4. Goes(calls, <<>>)
    BY <1>6 DEF calls, rest
  <2> HIDE DEF calls
  <2> QED BY <1>1, <1>2, <1>3, <2>3, <2>4, MuteGoes
<1>7. CASE Fails(<<>>, IF This.wr > 0 /\ This.req > 0 THEN <<>>
                       ELSE <<emitMemInstruction({"arg"}, This.wr > 0, 0)>>)
  <2> DEFINE t == IF This.wr > 0 /\ This.req > 0 THEN <<>>
                  ELSE <<emitMemInstruction({"arg"}, This.wr > 0, 0)>>
  <2>1. t \in Seq(MuteInstrs)
    <3>1. (This.wr > 0) \in BOOLEAN
      OBVIOUS
    <3>2. emitMemInstruction({"arg"}, This.wr > 0, 0) \in MuteInstrs
      BY <1>1, <3>1, MuteOnes
    <3> QED BY <1>1, <3>2, MuteCode
  <2> HIDE DEF t
  <2>2. Fails(<<>>, t)
    BY <1>7 DEF t
  <2> QED BY <1>1, <1>2, <1>3, <2>1, <2>2, LawfulCalls, MuteGoes
<1>8. compileSetDst =>
        \/ Fails(<<>>, <<>>) \/ Derails
        \/ Goes(<<Writes("compileSetDst", Node.left, 0, This.wr),
                  Writes("compileSetDst", Node.left, This.req, This.wr)>>, <<Gen("DUP")>>)
        \/ Goes(<<Writes("compileSetDst", Node.left, This.req, This.wr),
                  Writes("compileSetDst", Node.left, 0, This.wr)>>, <<Gen("DUP")>>)
        \/ Goes(<<Block(Node.right, 1), [This EXCEPT !.fn = "derefTarget"]>>, <<>>)
        \/ Fails(<<>>, IF This.wr > 0 /\ This.req > 0 THEN <<>>
                       ELSE <<emitMemInstruction({"arg"}, This.wr > 0, 0)>>)
  BY Zenon DEF compileSetDst
<1> QED BY <1>4, <1>5, <1>6, <1>7, <1>8

-----------------------------------------------------------------------------
(* Conditions, branches and loops.                                         *)

(* A local variable of a caller changes.                                   *)
LEMMA ChangedLawful ==
  ASSUME NEW s, Sequence(s), NEW e, AllLawful(s, e), NEW x, NEW f,
         x \in 1 .. Len(s) => /\ f.fn = s[x].fn /\ f.node = s[x].node
                              /\ f.id = s[x].id /\ f.instrs = s[x].instrs
  PROVE  AllLawful([s EXCEPT ![x] = f], e) /\ Sequence([s EXCEPT ![x] = f])
<1> DEFINE t == [s EXCEPT ![x] = f]
<1>1. PICK S : s \in Seq(S)
  BY DEF Sequence
<1>2. /\ Len(s) \in Nat /\ DOMAIN s = 1 .. Len(s) /\ s \in [1 .. Len(s) -> S]
  BY <1>1
<1>3. t \in [1 .. Len(s) -> S \cup {f}]
  BY <1>2
<1>4. t \in Seq(S \cup {f}) /\ Len(t) = Len(s)
  BY <1>2, <1>3, IsASeq
<1>5. \A k \in 1 .. Len(s) : t[k] = IF k = x THEN f ELSE s[k]
  BY <1>2
<1> HIDE DEF t
<1>6. \A k \in 1 .. Len(s) : /\ t[k].fn = s[k].fn /\ t[k].node = s[k].node
                              /\ t[k].id = s[k].id /\ t[k].instrs = s[k].instrs
  BY <1>5
<1>7. AllLawful(t, e)
  BY <1>4, <1>6 DEF AllLawful, Lawful, Owed
<1>8. Sequence(t)
  BY <1>4 DEF Sequence
<1> QED BY <1>7, <1>8 DEF t

LEMMA LocalsLawful ==
  ASSUME NEW Defs, NEW s, Sequence(s), \A k \in 1 .. Len(s) : IsCall(s[k], Defs),
         NEW e, AllLawful(s, e)
  PROVE  /\ \A cond : AllLawful(Told(s, cond), e) /\ Sequence(Told(s, cond))
         /\ \A fn : AllLawful(Counted(s, fn), e) /\ Sequence(Counted(s, fn))
<1>1. ASSUME NEW cond PROVE AllLawful(Told(s, cond), e) /\ Sequence(Told(s, cond))
  <2> DEFINE x == Min({k \in DOMAIN s : s[k].fn \in {"branch", "loop"}})
             f == [s[x] EXCEPT !.cond = cond]
  <2>1. Told(s, cond) = [s EXCEPT ![x] = f]
    BY DEF Told
  <2> HIDE DEF x
  <2>2. x \in 1 .. Len(s) => /\ f.fn = s[x].fn /\ f.node = s[x].node
                             /\ f.id = s[x].id /\ f.instrs = s[x].instrs
    <3> SUFFICES ASSUME x \in 1 .. Len(s)
                 PROVE  /\ f.fn = s[x].fn /\ f.node = s[x].node
                        /\ f.id = s[x].id /\ f.instrs = s[x].instrs
      OBVIOUS
    <3>1. DOMAIN s[x] = {"fn", "node", "req", "wr", "cnt", "cond", "id", "old", "instrs"}
      BY DEF IsCall
    <3> QED BY <3>1
  <2> HIDE DEF f
  <2>3. AllLawful([s EXCEPT ![x] = f], e) /\ Sequence([s EXCEPT ![x] = f])
    BY <2>2, ChangedLawful
  <2> QED BY <2>1, <2>3
<1>2. ASSUME NEW fn PROVE AllLawful(Counted(s, fn), e) /\ Sequence(Counted(s, fn))
  <2> DEFINE x == Min({k \in DOMAIN s : s[k].fn = fn})
             f == [s[x] EXCEPT !.cnt = @ + 1]
  <2>1. Counted(s, fn) = [s EXCEPT ![x] = f]
    BY DEF Counted
  <2> HIDE DEF x
  <2>2. x \in 1 .. Len(s) => /\ f.fn = s[x].fn /\ f.node = s[x].node
                             /\ f.id = s[x].id /\ f.instrs = s[x].instrs
    <3> SUFFICES ASSUME x \in 1 .. Len(s)
                 PROVE  /\ f.fn = s[x].fn /\ f.node = s[x].node
                        /\ f.id = s[x].id /\ f.instrs = s[x].instrs
      OBVIOUS
    <3>1. DOMAIN s[x] = {"fn", "node", "req", "wr", "cnt", "cond", "id", "old", "instrs"}
      BY DEF IsCall
    <3> QED BY <3>1
  <2> HIDE DEF f
  <2>3. AllLawful([s EXCEPT ![x] = f], e) /\ Sequence([s EXCEPT ![x] = f])
    BY <2>2, ChangedLawful
  <2> QED BY <2>1, <2>3
<1> QED BY <1>1, <1>2

LEMMA BelowCalls ==
  ASSUME NEW Nodes, NEW Defs, Settling(Nodes, Defs), todo # <<>>, NEW t \in Seq(CoutInstrs)
  PROVE  /\ Sequence(Tail(todo)) /\ AllLawful(Tail(todo), emitted \o t)
         /\ \A k \in 1 .. Len(Tail(todo)) : IsCall(Tail(todo)[k], Defs)
<1>1. Known(Nodes, Defs) /\ Settles
  BY DEF Settling
<1>2. Stacked(Tail(todo), emitted, Defs)
  BY <1>1, Below DEF Known, Calls
<1> QED BY <1>1, <1>2, BelowLawful DEF Stacked

LEMMA ForcedNext ==
  ASSUME NEW node, ~ IsNone(node), NEW calls, Sequence(calls), Len(calls) > 0,
         calls[1] = Body(node), NEW s, Sequence(s)
  PROVE  Forced(calls \o s)
<1> DEFINE t == calls \o s
<1>1. Sequence(t) /\ Len(t) = Len(calls) + Len(s) /\ Len(calls) \in Nat /\ Len(s) \in Nat
  BY Concatenated
<1>2. t[1] = Body(node)
  <2>1. 1 \in 1 .. Len(calls) + Len(s) /\ 1 <= Len(calls)
    BY <1>1
  <2> QED BY <2>1, Concatenated
<1> HIDE DEF t
<1>3. t # <<>>
  BY <1>1
<1>4. Body(node).fn = "forcedCodeBlock" /\ Body(node).node = node
  BY DEF Body, Frame
<1>5. Forced(t)
  BY <1>2, <1>3, <1>4 DEF Forced
<1> QED BY <1>5 DEF t

LEMMA ConditionSettles ==
  ASSUME NEW Nodes, NEW Defs, Settling(Nodes, Defs), compileLogicalExpr
  PROVE  Settles'
<1>1. WordsAreStrings /\ <<>> \in Seq(MuteInstrs) /\ <<>> \in Seq(CoutInstrs)
  BY DEF Settling, Known
<1>2. todo # <<>> /\ This.fn = "compileLogicalExpr"
  BY DEF compileLogicalExpr, At
<1>3. ~ Forced(todo)
  BY <1>2, NotForced
<1>4. CASE Derails
  BY <1>4, SettlesUnchanged DEF Derails, tables
<1>5. CASE Goes(<<Frame("compileLogicalExpr", Node.right, 0)>>, <<>>)
  <2>1. \A e : /\ AllLawful(<<Frame("compileLogicalExpr", Node.right, 0)>>, e)
               /\ Sequence(<<Frame("compileLogicalExpr", Node.right, 0)>>)
    BY LawfulFrames, LawfulCalls
  <2> QED BY <1>1, <1>2, <1>3, <1>5, <2>1, MuteGoes
<1>6. CASE /\ Runs(Decide(Node) \o Told(Tail(todo), Condition(Node)), <<>>)
           /\ UNCHANGED tables
  <2> DEFINE below == Told(Tail(todo), Condition(Node))  calls == Decide(Node)
  <2>1. todo' = calls \o below /\ emitted' = emitted \o <<>> /\ UNCHANGED <<objVars, objFuncs>>
    BY <1>6 DEF Runs, tables
  <2>2. AllLawful(below, emitted') /\ Sequence(below)
    BY <1>1, <1>2, <2>1, BelowCalls, LocalsLawful
  <2>3. AllLawful(calls, emitted') /\ Sequence(calls)
    <3> DEFINE tst == <<Gen("TST")>>  cmp == <<Gen("CMP")>>  test == <<Gen("DUP"), Gen("TST")>>
    <3>1. tst \in Seq(MuteInstrs) /\ cmp \in Seq(MuteInstrs) /\ test \in Seq(MuteInstrs)
      <4>1. Gen("TST") \in MuteInstrs /\ Gen("CMP") \in MuteInstrs /\ Gen("DUP") \in MuteInstrs
        BY <1>1, MuteOnes DEF GenericInstrs
      <4> QED BY <1>1, <4>1, MuteCode
    <3>2. Decide(Node) \in {<<>>, GenericOp(Node, tst), GenericOp(Node, cmp),
                            <<Block(Node, 1), Later(test)>>}
      BY Zenon DEF Decide, Test
    <3> HIDE DEF tst, cmp, test
    <3>3. AllLawful(GenericOp(Node, tst), emitted') /\ Sequence(GenericOp(Node, tst))
      BY <3>1, GenericLawful
    <3>4. AllLawful(GenericOp(Node, cmp), emitted') /\ Sequence(GenericOp(Node, cmp))
      BY <3>1, GenericLawful
    <3>5. /\ AllLawful(<<Block(Node, 1), Later(test)>>, emitted')
          /\ Sequence(<<Block(Node, 1), Later(test)>>)
      BY <3>1, LawfulFrames, LawfulCalls
    <3>6. AllLawful(<<>>, emitted') /\ Sequence(<<>>)
      BY LawfulCalls
    <3> QED BY <3>2, <3>3, <3>4, <3>5, <3>6
  <2> HIDE DEF calls, below
  <2>4. AllLawful(todo', emitted')
    BY <2>1, <2>2, <2>3, LawfulJoined
  <2> QED BY <1>1, <1>3, <2>1, <2>4, MuteStep
<1> QED BY <1>4, <1>5, <1>6, Zenon DEF compileLogicalExpr

LEMMA IfSettles ==
  ASSUME NEW Nodes, NEW Defs, Settling(Nodes, Defs), compileIf
  PROVE  Settles'
<1> DEFINE f == [This EXCEPT !.fn = "branch", !.id = pos.lbl_id]
           cond == Frame("compileLogicalExpr", Node.left, 0)  t == <<>>
<1>1. Known(Nodes, Defs) /\ FilledBodies(Nodes)
  BY DEF Settling
<1>2. todo # <<>> /\ This.fn = "compileCode" /\ Is(Node, "IF")
  BY DEF compileIf, At
<1>3. todo' = <<cond, f>> \o Tail(todo) /\ emitted' = emitted \o t /\ UNCHANGED <<objVars, objFuncs>>
  BY DEF compileIf, Does, Runs
<1>4. ~ Forced(todo) /\ Node \in Nodes /\ IsCall(This, Defs)
  BY <1>1, <1>2, NotForced, NodesThere
<1>5. f.fn = "branch" /\ f.node = Node /\ f.id = pos.lbl_id
  BY <1>4 DEF IsCall, Node
<1>6. New(IfEnd(pos.lbl_id))
  <2>1. pos'.lbl_id = pos.lbl_id + 1
    BY <1>1, IdRaised DEF compileIf
  <2> QED BY <2>1, NewLabels
<1>7. t \in Seq(MuteInstrs) /\ t \in Seq(CoutInstrs)
  OBVIOUS
<1> HIDE DEF f, t
<1>8. \A e : Lawful(f, e)
  <2>1. Owed(f) = {IfEnd(pos.lbl_id)}
    BY <1>5 DEF Owed
  <2>2. ~ IsNone(f.node.right)
    BY <1>1, <1>2, <1>4, <1>5 DEF FilledBodies
  <2> QED BY <1>5, <1>6, <2>1, <2>2 DEF Lawful
<1>9. \A e : Lawful(cond, e)
  BY LawfulFrames
<1> HIDE DEF cond
<1>10. AllLawful(todo', emitted')
  <2>1. AllLawful(<<cond, f>>, emitted') /\ Sequence(<<cond, f>>)
    BY <1>8, <1>9, LawfulCalls
  <2> QED BY <1>2, <1>3, <1>7, <2>1, RunLawful
<1> QED BY <1>3, <1>4, <1>7, <1>10, MuteStep

LEMMA MoreElements ==
  /\ \A i, j, k : /\ Len(<<i, j, k>>) = 3
                  /\ <<i, j, k>>[1] = i /\ <<i, j, k>>[2] = j /\ <<i, j, k>>[3] = k
                  /\ \A n \in 1 .. Len(<<i, j, k>>) : n = 1 \/ n = 2 \/ n = 3
  /\ \A i, j, k, l : /\ Len(<<i, j, k, l>>) = 4
                     /\ <<i, j, k, l>>[1] = i /\ <<i, j, k, l>>[2] = j
                     /\ <<i, j, k, l>>[3] = k /\ <<i, j, k, l>>[4] = l
                     /\ \A n \in 1 .. Len(<<i, j, k, l>>) : n = 1 \/ n = 2 \/ n = 3 \/ n = 4
<1>1. /\ \A n \in 1 .. 3 : n = 1 \/ n = 2 \/ n = 3
      /\ \A n \in 1 .. 4 : n = 1 \/ n = 2 \/ n = 3 \/ n = 4
  OBVIOUS
<1>2. ASSUME NEW i, NEW j, NEW k
      PROVE  /\ Len(<<i, j, k>>) = 3
             /\ <<i, j, k>>[1] = i /\ <<i, j, k>>[2] = j /\ <<i, j, k>>[3] = k
  OBVIOUS
<1>3. ASSUME NEW i, NEW j, NEW k, NEW l
      PROVE  /\ Len(<<i, j, k, l>>) = 4
             /\ <<i, j, k, l>>[1] = i /\ <<i, j, k, l>>[2] = j
             /\ <<i, j, k, l>>[3] = k /\ <<i, j, k, l>>[4] = l
  OBVIOUS
<1> QED BY <1>1, <1>2, <1>3

LEMMA JumpRefers ==
  ASSUME WordsAreStrings, NEW cond \in FlagConditions, NEW lbl \in STRING
  PROVE  LET i == emitJumpInstruction_l(cond, {}, lbl)
         IN  i \in CoutInstrs /\ ~ Defines(i) /\ TargetName(i) = lbl
<1> DEFINE i == emitJumpInstruction_l(cond, {}, lbl)
<1>1. i \in CoutInstrs /\ i.type = "JMP"
  BY JumpTyped
<1>2. i.name = lbl
  BY DEF emitJumpInstruction_l, Instr
<1> HIDE DEF i
<1>3. i \in CoutInstrs /\ ~ Defines(i) /\ TargetName(i) = lbl
  BY <1>1, <1>2 DEF Defines, TargetName
<1> QED BY <1>3 DEF i

(* Labels that are owed behind instructions that reference nothing.        *)
LEMMA LaterLawful ==
  ASSUME NEW lbl, NEW t, \A n \in 1 .. Len(t) : ~ NamesSymbol(t[n]),
         \A n \in 1 .. Len(t) : Defines(t[n]) => t[n].name = lbl,
         New(lbl) \/ \E k \in 1 .. Len(todo) : lbl \in Owed(todo[k]), NEW e
  PROVE  Lawful(Later(t), e)
<1>1. Later(t).fn = "emit" /\ Later(t).instrs = t
  BY DEF Later, Frame
<1>2. \A l \in Owed(Later(t)) : l = lbl
  BY <1>1 DEF Owed, Labels
<1> QED BY <1>1, <1>2 DEF Lawful

LEMMA BranchSettles ==
  ASSUME NEW Nodes, NEW Defs, Settling(Nodes, Defs), branch
  PROVE  Settles'
<1> DEFINE lbl == IfEnd(This.id)  here == emitTableLbl(lbl)  end == Begin("NONLIN_E")
           rest == <<here, end>>  body == Body(Node.right)  calls == <<body, Later(rest)>>
           begin == Begin("NONLIN_B")  proto == emitTablePrototype(lbl)
           jump == emitJumpInstruction_l(invertFlagCondition(This.cond), {}, lbl)
           t == <<begin, proto, jump>>
<1>1. Known(Nodes, Defs) /\ MarkersTell /\ Counts /\ Settles /\ WordsAreStrings /\ LabelsAreStrings
  BY DEF Settling, Known
<1>2. todo # <<>> /\ This.fn = "branch"
  BY DEF branch, At
<1>3. todo' = calls \o Tail(todo) /\ emitted' = emitted \o t /\ UNCHANGED tables
  BY Zenon DEF branch, Goes, Does, Runs, JumpOver
<1>4. /\ This = todo[1] /\ 1 \in 1 .. Len(todo) /\ IsCall(This, Defs)
      /\ This.id \in Nat /\ This.cond \in FlagConditions
  BY <1>1, <1>2, RunsFirst, NodesThere
<1>5. ~ Forced(todo) /\ ~ IsNone(Node.right)
  BY <1>1, <1>2, <1>4, NotForced DEF Settles, Node
<1>6. lbl \in Owed(todo[1]) /\ Past(lbl, pos'.lbl_id)
  <2>1. lbl \in Owed(todo[1])
    BY <1>2, <1>4 DEF Owed
  <2>2. Past(lbl, pos.lbl_id)
    BY <1>1, <1>4, <2>1 DEF Known, Emits, Calls, Distinct
  <2>3. pos' = pos
    BY <1>3 DEF tables
  <2> QED BY <2>1, <2>2, <2>3
<1>7. lbl \in STRING /\ DefinesAs(here, lbl)
  BY <1>1, <1>4, LabelInstrs
<1>8. end \in MuteInstrs /\ begin \in MuteInstrs /\ proto \in MuteInstrs
  BY <1>1, <1>7, MuteOnes
<1>9. jump \in CoutInstrs /\ ~ Defines(jump) /\ TargetName(jump) = lbl
  <2>1. invertFlagCondition(This.cond) \in FlagConditions
    BY <1>4 DEF invertFlagCondition, FlagConditions
  <2> QED BY <1>1, <1>7, <2>1, JumpRefers
<1> HIDE DEF lbl, here, end, begin, proto, jump
<1>10. t \in Seq(CoutInstrs)
  BY <1>8, <1>9, DefinesQuiet
<1>11. \A n \in 1 .. Len(t) : ~ Defines(t[n]) /\ (NamesSymbol(t[n]) => TargetName(t[n]) = lbl)
  BY <1>8, <1>9, MoreElements, DefinesQuiet
<1> HIDE DEF t
<1>12. \A e : Lawful(Later(rest), e)
  <2>1. /\ \A n \in 1 .. Len(rest) : ~ NamesSymbol(rest[n])
        /\ \A n \in 1 .. Len(rest) : Defines(rest[n]) => rest[n].name = lbl
    BY <1>7, <1>8, Elements, DefinesQuiet
  <2> HIDE DEF rest
  <2> QED BY <1>4, <1>6, <2>1, LaterLawful
<1>13. \A e : Lawful(body, e)
  BY LawfulFrames DEF Body
<1>14. Len(calls) = 2 /\ calls[1] = body
  BY Elements
<1> HIDE DEF rest, body
<1>15. \A e : AllLawful(calls, e) /\ Sequence(calls)
  BY <1>12, <1>13, LawfulCalls
<1> HIDE DEF calls
<1>16. Forced(todo')
  <2>1. Sequence(Tail(todo)) /\ Len(calls) > 0
    BY <1>2, <1>10, <1>14, BelowCalls
  <2> QED BY <1>3, <1>5, <1>14, <1>15, <2>1, ForcedNext DEF body
<1>17. AllLawful(todo', emitted')
  BY <1>2, <1>3, <1>10, <1>15, RunLawful
<1>18. TablesDefined(emitted)'
  BY <1>3, <1>10, TablesLater DEF tables
<1> QED BY <1>1, <1>3, <1>5, <1>6, <1>10, <1>11, <1>16, <1>17, <1>18, SettlesStep

LEMMA LoopSettles ==
  ASSUME NEW Nodes, NEW Defs, Settling(Nodes, Defs), loop
  PROVE  Settles'
<1> DEFINE lbl == WhileBeg(This.id)  jump == emitJumpInstruction_l(This.cond, {}, lbl)
           end == Begin("NONLIN_E")  t == <<jump, end>>
<1>1. Known(Nodes, Defs) /\ Settles /\ WordsAreStrings /\ LabelsAreStrings
  BY DEF Settling, Known
<1>2. todo # <<>> /\ This.fn = "loop"
  BY DEF loop, At
<1>3. todo' = <<>> \o Tail(todo) /\ emitted' = emitted \o t /\ UNCHANGED <<objVars, objFuncs>>
  BY Zenon DEF loop, Goes, Does, Runs, tables
<1>4. /\ This = todo[1] /\ 1 \in 1 .. Len(todo)
      /\ This.id \in Nat /\ This.cond \in FlagConditions
  BY <1>1, <1>2, RunsFirst, NodesThere
<1>5. ~ Forced(todo) /\ lbl \in Labels(emitted)
  BY <1>1, <1>2, <1>4, NotForced DEF Settles
<1>6. lbl \in STRING
  BY <1>1, <1>4, LabelInstrs
<1>7. jump \in CoutInstrs /\ ~ Defines(jump) /\ TargetName(jump) = lbl
  BY <1>1, <1>4, <1>6, JumpRefers
<1>8. end \in MuteInstrs
  BY <1>1, MuteOnes
<1> HIDE DEF jump, end, lbl
<1>9. t \in Seq(CoutInstrs)
  BY <1>7, <1>8, DefinesQuiet
<1>10. \A n \in 1 .. Len(t) :
         ~ Defines(t[n]) /\ (NamesSymbol(t[n]) => Defined(TargetName(t[n]), emitted))
  BY <1>5, <1>7, <1>8, Elements, DefinesQuiet DEF Defined
<1> HIDE DEF t
<1>11. AllLawful(todo', emitted')
  BY <1>2, <1>3, <1>9, LawfulCalls, RunLawful
<1> QED BY <1>2, <1>3, <1>5, <1>9, <1>10, <1>11, ReferStep

LEMMA WhileSettles ==
  ASSUME NEW Nodes, NEW Defs, Settling(Nodes, Defs), compileWhile
  PROVE  Settles'
<1> DEFINE id == pos.lbl_id  mid == WhileMid(pos.lbl_id)  beg == WhileBeg(pos.lbl_id)
           here == emitTableLbl(mid)  rest == <<here>>  body == Body(Node.right)
           cond == Frame("compileLogicalExpr", Node.left, 0)
           f == [This EXCEPT !.fn = "loop", !.id = pos.lbl_id]
           three == <<body, Later(rest), cond>>  calls == three \o <<f>>
           jump == emitJumpInstruction_l("ALW", {}, mid)
           i1 == emitTablePrototype(mid)  i2 == Begin("NONLIN_B")  i4 == emitTableLbl(beg)
           t == <<i1, i2, jump, i4>>
<1>1. /\ Known(Nodes, Defs) /\ MarkersTell /\ FilledBodies(Nodes) /\ Counts /\ Settles
      /\ WordsAreStrings /\ LabelsAreStrings /\ pos.lbl_id \in Nat
  BY DEF Settling, Known, Names
<1>2. todo # <<>> /\ This.fn = "compileCode" /\ Is(Node, "WHILE")
  BY DEF compileWhile, At
<1>3. todo' = calls \o Tail(todo) /\ emitted' = emitted \o t /\ UNCHANGED <<objVars, objFuncs>>
  BY Zenon DEF compileWhile, Does, Runs, TestsLast
<1>4. ~ Forced(todo) /\ Node \in Nodes /\ IsCall(This, Defs)
  BY <1>1, <1>2, NotForced, NodesThere
<1>5. ~ IsNone(Node.right)
  BY <1>1, <1>2, <1>4 DEF FilledBodies
<1>6. f.fn = "loop" /\ f.id = pos.lbl_id
  BY <1>4 DEF IsCall
<1>7. New(mid) /\ New(beg) /\ Past(mid, pos'.lbl_id) /\ mid \in STRING /\ beg \in STRING /\ beg # mid
  <2>1. pos'.lbl_id = pos.lbl_id + 1
    BY <1>1, IdRaised DEF compileWhile
  <2> QED BY <2>1, NewLabels
<1>8. DefinesAs(here, mid) /\ DefinesAs(i4, beg)
  BY <1>1, <1>7, TablePlain
<1>9. i1 \in MuteInstrs /\ i2 \in MuteInstrs
  BY <1>1, <1>7, MuteOnes
<1>10. jump \in CoutInstrs /\ ~ Defines(jump) /\ TargetName(jump) = mid
  <2>1. "ALW" \in FlagConditions
    BY DEF FlagConditions
  <2> QED BY <1>1, <1>7, <2>1, JumpRefers
<1> HIDE DEF f, mid, beg, here, jump, i1, i2, i4
<1>11. t \in Seq(CoutInstrs)
  BY <1>8, <1>9, <1>10, DefinesQuiet
<1>12. /\ \A n \in 1 .. Len(t) : Defines(t[n]) => t[n].name = beg
       /\ \A n \in 1 .. Len(t) : NamesSymbol(t[n]) => TargetName(t[n]) = mid
  BY <1>8, <1>9, <1>10, MoreElements, DefinesQuiet
<1>13. beg \in Labels(emitted')
  <2>1. 4 \in 1 .. Len(t) /\ Defines(t[4]) /\ t[4].name = beg
    BY <1>8, MoreElements, DefinesQuiet
  <2> HIDE DEF t
  <2> QED BY <1>1, <1>3, <1>11, <2>1, LabelsGrow DEF Known, Emits
<1> HIDE DEF t
<1>14. \A e : Lawful(Later(rest), e)
  <2>1. /\ \A n \in 1 .. Len(rest) : ~ NamesSymbol(rest[n])
        /\ \A n \in 1 .. Len(rest) : Defines(rest[n]) => rest[n].name = mid
    BY <1>8, Elements, DefinesQuiet
  <2> HIDE DEF rest
  <2> QED BY <1>7, <2>1, LaterLawful
<1>15. \A e : Lawful(body, e) /\ Lawful(cond, e)
  BY LawfulFrames DEF Body
<1>16. Lawful(f, emitted')
  BY <1>6, <1>13 DEF Lawful, Owed, beg
<1> HIDE DEF rest, cond
<1>17. /\ AllLawful(calls, emitted') /\ Sequence(calls)
       /\ Len(calls) > 0 /\ calls[1] = body
  <2> DEFINE one == <<f>>
  <2>1. Len(three) = 3 /\ three[1] = body /\ \A n \in 1 .. Len(three) : Lawful(three[n], emitted')
    <3>1. Lawful(Later(rest), emitted') /\ Lawful(body, emitted') /\ Lawful(cond, emitted')
      BY <1>14, <1>15
    <3> HIDE DEF body
    <3> QED BY <3>1, MoreElements
  <2>2. Sequence(three)
    <3>1. three \in Seq({body, Later(rest), cond})
      OBVIOUS
    <3> QED BY <3>1 DEF Sequence
  <2>3. AllLawful(one, emitted') /\ Sequence(one) /\ Len(one) = 1
    BY <1>16, LawfulCalls, Elements
  <2> HIDE DEF three, one, body
  <2>4. AllLawful(three, emitted')
    BY <2>1 DEF AllLawful
  <2>5. AllLawful(three \o one, emitted') /\ Sequence(three \o one)
    BY <2>2, <2>3, <2>4, LawfulCalls
  <2>6. Len(three \o one) = 4 /\ (three \o one)[1] = three[1]
    <3>1. 1 \in 1 .. Len(three) + Len(one) /\ 1 <= Len(three)
      BY <2>1, <2>3
    <3>2. /\ Len(three \o one) = Len(three) + Len(one)
          /\ \A k \in 1 .. Len(three) + Len(one) :
               (three \o one)[k] = IF k <= Len(three) THEN three[k] ELSE one[k - Len(three)]
      BY <2>2, <2>3, Concatenated
    <3>3. Len(three \o one) = 4
      BY <2>1, <2>3, <3>2
    <3>4. (three \o one)[1] = three[1]
      BY <3>1, <3>2
    <3> QED BY <3>3, <3>4
  <2> QED BY <2>1, <2>5, <2>6 DEF one
<1> HIDE DEF calls, three
<1>18. Forced(todo')
  <2>1. Sequence(Tail(todo))
    BY <1>2, <1>11, BelowCalls
  <2> QED BY <1>3, <1>5, <1>17, <2>1, ForcedNext
<1>19. AllLawful(todo', emitted')
  BY <1>2, <1>3, <1>11, <1>17, RunLawful
<1>20. TablesDefined(emitted)'
  BY <1>3, <1>11, TablesLater
<1>21. \A b \in 1 .. Len(t) : Defines(t[b]) =>
         /\ ~ Forced(todo) /\ (New(t[b].name) \/ \E k \in 1 .. Len(todo) : t[b].name \in Owed(todo[k]))
         /\ \A a \in 1 .. Len(t) : ~ RefersTo(t[a], t[b].name)
  BY <1>4, <1>7, <1>12 DEF RefersTo
<1>22. \A a \in 1 .. Len(t) : NamesSymbol(t[a]) =>
         \/ Defined(TargetName(t[a]), emitted)
         \/ Past(TargetName(t[a]), pos'.lbl_id) /\ Forced(todo')
  BY <1>7, <1>12, <1>18
<1> QED BY <1>1, <1>3, <1>4, <1>11, <1>19, <1>20, <1>21, <1>22, SettlesStep

-----------------------------------------------------------------------------
(* Functions.                                                              *)

LEMMA FunctionSettles ==
  ASSUME NEW Nodes, NEW Defs, Settling(Nodes, Defs), compileFuncDef
  PROVE  Settles'
<1>1. /\ Known(Nodes, Defs) /\ WordsAreStrings /\ LabelsAreStrings /\ TextsOf(Nodes, Defs)
      /\ <<>> \in Seq(MuteInstrs) /\ emitted \in Seq(CoutInstrs)
  BY DEF Settling, Known, Emits
<1>2. todo # <<>> /\ This.fn = "compileCode" /\ Node.type = "OP"
  BY DEF compileFuncDef, At, Is
<1>3. ~ Forced(todo) /\ IsCall(This, Defs) /\ Node.left \in Nodes
  BY <1>1, <1>2, NotForced, NodesThere
<1>4. CASE Fails(<<>>, <<>>)
  BY <1>1, <1>2, <1>3, <1>4, LawfulCalls, MuteGoes
<1>5. CASE ~ Fails(<<>>, <<>>)
  <2> DEFINE header == [This EXCEPT !.fn = "funcHeader", !.id = Len(emitted) + 4]
             args == Frame("compileFuncDefArgs", Node.right.left, 0)
             ends == <<emitRetInstruction(0, TRUE), Begin("RMSF"), Begin("SECT_E")>>
             body == <<Block(Node.right.right, 0), Later(ends)>>
             two == <<args, header>>
             front == IF IsNone(Node.right.left) THEN <<>> ELSE two
             calls == front \o body
             lbl == FuncLabel(Node.left.data)
             i1 == emitTablePrototype(lbl)  i2 == emitSetSection("funcs")
             i3 == emitTableLbl(lbl)  i4 == Begin("ADDSF")
             t == <<i1, i2, i3, i4>>
             x == Entry0(Node.left.data, lbl, pos.lvl, 0, "NONE")
  <2>1. /\ Node.left.type = "VAR" /\ Does(calls, t) /\ programCreateFunc(Node.left.data)
    BY <1>5, Zenon DEF compileFuncDef
  <2>2. /\ todo' = calls \o Tail(todo) /\ emitted' = emitted \o t
        /\ objFuncs' = Append(objFuncs, x) /\ objVars' = objVars
    BY <2>1, Zenon DEF Does, Runs, programCreateFunc
  <2>3. x.lbl = lbl
    BY DEF Entry0
  <2>4. New(lbl) /\ lbl \in STRING
    <3>1. pos'.lbl_id = pos.lbl_id + 1
      BY <1>1, <2>1, IdRaised DEF programCreateFunc
    <3>2. Node.left.data \in STRING
      BY <1>1, <1>3, <2>1 DEF TextsOf
    <3> QED BY <3>1, <3>2, NewLabels
  <2>5. i1 \in MuteInstrs /\ i2 \in MuteInstrs /\ DefinesAs(i3, lbl) /\ i4 \in MuteInstrs
    <3>1. "funcs" \in STRING
      BY <1>1 DEF WordsAreStrings, Words
    <3> QED BY <1>1, <2>4, <3>1, MuteOnes, TablePlain
  <2>6. header.fn = "funcHeader"
    BY <1>3 DEF IsCall
  <2>7. ends \in Seq(MuteInstrs)
    <3>1. /\ emitRetInstruction(0, TRUE) \in MuteInstrs
          /\ Begin("RMSF") \in MuteInstrs /\ Begin("SECT_E") \in MuteInstrs
      BY <1>1, MuteOnes
    <3>2. \A i, j, k \in MuteInstrs : <<i, j, k>> \in Seq(MuteInstrs)
      OBVIOUS
    <3> QED BY <3>1, <3>2
  <2> HIDE DEF header, ends, lbl, i1, i2, i3, i4, x
  <2>8. t \in Seq(CoutInstrs)
    BY <2>5, DefinesQuiet
  <2>9. /\ \A n \in 1 .. Len(t) : ~ NamesSymbol(t[n])
        /\ \A b \in 1 .. Len(t) : Defines(t[b]) => t[b].name = lbl
    BY <2>5, MoreElements, DefinesQuiet
  <2>10. lbl \in Labels(emitted')
    <3>1. 3 \in 1 .. Len(t) /\ Defines(t[3]) /\ t[3].name = lbl
      BY <2>5, MoreElements, DefinesQuiet
    <3> HIDE DEF t
    <3> QED BY <1>1, <2>2, <2>8, <3>1, LabelsGrow
  <2> HIDE DEF t
  <2>11. \A e : AllLawful(calls, e) /\ Sequence(calls)
    <3> SUFFICES ASSUME NEW e PROVE AllLawful(calls, e) /\ Sequence(calls)
      OBVIOUS
    <3>1. AllLawful(body, e) /\ Sequence(body)
      BY <2>7, LawfulFrames, LawfulCalls
    <3>2. Lawful(header, e)
      BY <2>6 DEF Lawful, Owed
    <3>3. Lawful(args, e)
      BY LawfulFrames
    <3> HIDE DEF args, body
    <3>4. AllLawful(two, e) /\ Sequence(two)
      BY <3>2, <3>3, LawfulCalls
    <3> HIDE DEF two
    <3>5. AllLawful(front, e) /\ Sequence(front)
      BY <3>4, LawfulCalls
    <3> HIDE DEF front
    <3> QED BY <3>1, <3>5, LawfulCalls
  <2> HIDE DEF calls
  <2>12. AllLawful(todo', emitted')
    BY <1>2, <2>2, <2>8, <2>11, RunLawful
  <2>13. TablesDefined(emitted)'
    <3>1. /\ DefinedTable(objVars, emitted') /\ DefinedTable(objFuncs, emitted')
          /\ Sequence(objFuncs)
      BY <2>2, <2>8, TablesLater
    <3>2. Defined(x.lbl, emitted')
      BY <2>3, <2>10 DEF Defined
    <3>3. DefinedTable(objFuncs', emitted')
      BY <2>2, <3>1, <3>2, DefinedAdded
    <3> QED BY <2>2, <3>1, <3>3 DEF DefinedTable, TablesDefined
  <2> QED BY <1>3, <2>2, <2>4, <2>8, <2>9, <2>12, <2>13, QuietStep
<1> QED BY <1>4, <1>5

LEMMA ParameterSettles ==
  ASSUME NEW Nodes, NEW Defs, Settling(Nodes, Defs), compileFuncDefArgs
  PROVE  Settles'
<1>1. /\ Known(Nodes, Defs) /\ WordsAreStrings /\ LabelsAreStrings /\ TextsOf(Nodes, Defs)
      /\ <<>> \in Seq(MuteInstrs)
  BY DEF Settling, Known
<1>2. todo # <<>> /\ This.fn = "compileFuncDefArgs"
  BY DEF compileFuncDefArgs, At
<1>3. ~ Forced(todo) /\ Node \in Nodes
  BY <1>1, <1>2, NotForced, NodesThere
<1>4. CASE Derails
  BY <1>4, SettlesUnchanged DEF Derails, tables
<1>5. CASE /\ Node.type = "VAR"
           /\ Runs(Counted(Tail(todo), "funcHeader"),
                   <<emitTableConstant(VarLabel(Node.data), 8 * ArgsSoFar)>>)
           /\ programCreateVar(Node.data)
  <2> DEFINE lbl == VarLabel(Node.data)  i == emitTableConstant(lbl, 8 * ArgsSoFar)
  <2>1. todo' = Counted(Tail(todo), "funcHeader") /\ emitted' = emitted \o <<i>>
    BY <1>5 DEF Runs
  <2>2. Node.data \in STRING /\ 8 * ArgsSoFar \in Nat
    <3>1. ArgsSoFar \in Nat
      BY <1>1, <1>2, ArgsCounted
    <3> QED BY <1>1, <1>3, <1>5, <3>1 DEF TextsOf
  <2>3. lbl \in STRING
    <3>1. pos'.lbl_id = pos.lbl_id + 1
      BY <1>1, <1>5, IdRaised DEF programCreateVar
    <3> QED BY <2>2, <3>1, NewLabels
  <2>4. DefinesAs(i, lbl)
    BY <1>1, <2>2, <2>3, TablePlain
  <2> HIDE DEF i
  <2>5. <<i>> \in Seq(CoutInstrs)
    BY <2>4, DefinesQuiet
  <2>6. AllLawful(todo', emitted')
    <3> DEFINE t == <<i>>
    <3>1. t \in Seq(CoutInstrs) /\ emitted' = emitted \o t
      BY <2>1, <2>5
    <3> HIDE DEF t
    <3>2. /\ Sequence(Tail(todo)) /\ AllLawful(Tail(todo), emitted')
          /\ \A k \in 1 .. Len(Tail(todo)) : IsCall(Tail(todo)[k], Defs)
      BY <1>2, <3>1, BelowCalls
    <3> QED BY <2>1, <3>2, LocalsLawful
  <2> QED BY <1>3, <1>5, <2>1, <2>2, <2>4, <2>6, NamedHere
<1>6. CASE Goes(<<Frame("compileFuncDefArgs", Node.left, 0),
                  Frame("compileFuncDefArgs", Node.right, 0)>>, <<>>)
  <2> DEFINE calls == <<Frame("compileFuncDefArgs", Node.left, 0),
                        Frame("compileFuncDefArgs", Node.right, 0)>>
  <2>1. \A e : AllLawful(calls, e) /\ Sequence(calls)
    BY LawfulFrames, LawfulCalls
  <2>2. Goes(calls, <<>>)
    BY <1>6
  <2> HIDE DEF calls
  <2> QED BY <1>1, <1>2, <1>3, <2>1, <2>2, MuteGoes
<1> QED BY <1>4, <1>5, <1>6, Zenon DEF compileFuncDefArgs

LEMMA HeaderSettles ==
  ASSUME NEW Nodes, NEW Defs, Settling(Nodes, Defs), funcHeader
  PROVE  Settles'
<1> DEFINE e == emitted'
<1>1. Known(Nodes, Defs) /\ Settles /\ emitted \in Seq(CoutInstrs)
  BY DEF Settling, Known, Emits
<1>2. /\ todo # <<>> /\ This.fn = "funcHeader" /\ todo' = Tail(todo)
      /\ e \in Seq(CoutInstrs) /\ Len(e) = Len(emitted)
      /\ \A k \in 1 .. Len(emitted) :
           e[k].type = emitted[k].type /\ e[k].id = emitted[k].id /\ e[k].name = emitted[k].name
  BY <1>1, HeaderChanged
<1>3. ~ Forced(todo)
  BY <1>2, NotForced
<1>4. pos' = pos /\ objVars' = objVars
  BY DEF funcHeader
<1> HIDE DEF e
<1>5. \A k \in 1 .. Len(emitted) :
        /\ NamesSymbol(e[k]) <=> NamesSymbol(emitted[k])
        /\ TargetName(e[k]) = TargetName(emitted[k])
        /\ Defines(e[k]) <=> Defines(emitted[k])
        /\ IsProto(e[k]) <=> IsProto(emitted[k])
        /\ e[k].name = emitted[k].name
  BY <1>2, SMTT(30) DEF NamesSymbol, TargetName, Defines, IsProto, WritesJump, IsReturn
<1>6. Labels(e) = Labels(emitted)
  BY <1>2, <1>5 DEF Labels
<1>7. \A l : Defined(l, e) <=> Defined(l, emitted)
  BY <1>6 DEF Defined
<1>8. \A l : \A j \in 1 .. Len(emitted) : RefersTo(e[j], l) <=> RefersTo(emitted[j], l)
  BY <1>5 DEF RefersTo
<1>9. ASSUME NEW l, Settled(emitted, l) PROVE Settled(e, l)
  <2> SUFFICES ASSUME NEW j \in 1 .. Len(e), RefersTo(e[j], l)
               PROVE  \E m \in j + 1 .. Len(e) : IsProto(e[m])
    BY DEF Settled
  <2>1. PICK m \in j + 1 .. Len(emitted) : IsProto(emitted[m])
    BY <1>2, <1>8, <1>9 DEF Settled
  <2>2. m \in 1 .. Len(emitted) /\ m \in j + 1 .. Len(e)
    BY <1>2, <2>1
  <2> QED BY <1>5, <2>1, <2>2
<1>10. Fenced(e)
  <2> SUFFICES ASSUME NEW j \in 1 .. Len(e), NEW k \in 1 .. Len(e), j < k, Defines(e[k]),
                      RefersTo(e[j], e[k].name)
               PROVE  \E m \in j + 1 .. k - 1 : IsProto(e[m])
    BY DEF Fenced
  <2>1. /\ j \in 1 .. Len(emitted) /\ k \in 1 .. Len(emitted) /\ Defines(emitted[k])
        /\ RefersTo(emitted[j], emitted[k].name)
    BY <1>2, <1>5, <1>8
  <2>2. PICK m \in j + 1 .. k - 1 : IsProto(emitted[m])
    BY <1>1, <2>1 DEF Settles, Fenced
  <2>3. m \in 1 .. Len(emitted)
    BY <2>1, <2>2
  <2> QED BY <1>5, <2>2, <2>3
<1>11. \A j \in 1 .. Len(e) : NamesSymbol(e[j]) => Past(TargetName(e[j]), pos'.lbl_id)
  BY <1>1, <1>2, <1>4, <1>5 DEF Settles
<1>12. PICK S : todo \in Seq(S)
  BY <1>1 DEF Known, Emits, Calls, Stacked, Sequence
<1>13. \A k \in 1 .. Len(todo') : k + 1 \in 1 .. Len(todo) /\ todo'[k] = todo[k + 1]
  BY <1>2, <1>12
<1>14. \A k \in 1 .. Len(todo') :
         /\ \A l \in Owed(todo'[k]) : l # "!" /\ Settled(e, l)
         /\ todo'[k].fn = "emit" =>
              \A n \in 1 .. Len(todo'[k].instrs) : ~ NamesSymbol(todo'[k].instrs[n])
         /\ todo'[k].fn = "loop" => WhileBeg(todo'[k].id) \in Labels(e)
         /\ todo'[k].fn = "branch" => ~ IsNone(todo'[k].node.right)
  BY <1>1, <1>3, <1>6, <1>9, <1>13 DEF Settles
<1>15. \A p \in 1 .. Len(objVars') : Defined(objVars'[p].lbl, e)
  BY <1>1, <1>4, <1>7 DEF Settles
<1>16. \A p \in 1 .. Len(objFuncs') : Defined(objFuncs'[p].lbl, e)
  <2>1. PICK args : objFuncs' = [objFuncs EXCEPT ![Len(objFuncs)].args = args]
    BY DEF funcHeader
  <2> DEFINE n == Len(objFuncs)  x == [objFuncs[n] EXCEPT !.args = args]
  <2>2. objFuncs' = [objFuncs EXCEPT ![n] = x]
    BY <2>1
  <2>3. PICK T : objFuncs \in Seq(T)
    BY <1>1 DEF Known, BackInductive, FuncsNest, Sequence
  <2>4. n \in Nat /\ DOMAIN objFuncs = 1 .. n /\ objFuncs \in [1 .. n -> T]
    BY <2>3
  <2>5. n \in 1 .. n => x.lbl = objFuncs[n].lbl
    BY <1>1 DEF Known, Names, Labelled
  <2> HIDE DEF x
  <2>6. objFuncs' \in [1 .. n -> T \cup {x}]
    BY <2>2, <2>4
  <2>7. Len(objFuncs') = n
    BY <2>4, <2>6, IsASeq
  <2>8. \A p \in 1 .. n : objFuncs'[p].lbl = objFuncs[p].lbl
    BY <2>2, <2>4, <2>5
  <2> QED BY <1>1, <1>7, <2>7, <2>8 DEF Settles
<1> QED BY <1>10, <1>11, <1>14, <1>15, <1>16 DEF Settles, e

LEMMA CallSettles ==
  ASSUME NEW Nodes, NEW Defs, Settling(Nodes, Defs), compileFuncCall
  PROVE  Settles'
<1>1. Known(Nodes, Defs) /\ WordsAreStrings /\ <<>> \in Seq(MuteInstrs)
  BY DEF Settling, Known
<1>2. todo # <<>> /\ This.fn \in {"compileCode", "callFunction"}
  BY DEF compileFuncCall, At
<1>3. /\ ~ Forced(todo) /\ IsCall(This, Defs) /\ This.cnt \in Nat /\ This.req \in Nat
  BY <1>1, <1>2, NotForced, NodesThere
<1>4. CASE At("callFunction")
  <2> DEFINE fits == programGetFunc(Node.data, This.cnt, This.req)
             p == Max(fits)  i == emitCallInstruction(This.cnt, This.req, objFuncs[p].lbl)
  <2>1. Fails(<<>>, <<>>) \/ (fits # {} /\ Goes(<<>>, <<i>>))
    BY <1>4 DEF compileFuncCall, At
  <2>2. ASSUME fits # {} PROVE <<i>> \in Seq(ReferringInstrs)
    <3>1. Sequence(objFuncs) /\ DOMAIN objFuncs = 1 .. Len(objFuncs)
      BY <1>1 DEF Known, BackInductive, FuncsNest, Sequence
    <3>2. fits \subseteq 1 .. Len(objFuncs)
      BY <3>1 DEF programGetFunc, Found
    <3> HIDE DEF fits
    <3>3. p \in 1 .. Len(objFuncs)
      BY <2>2, <3>1, <3>2, NewestFound
    <3>4. objFuncs[p].lbl \in STRING /\ Defined(objFuncs[p].lbl, emitted)
      BY <1>1, <3>3 DEF Known, Names, Labelled, Settling, Settles
    <3>5. i \in PlainInstrs
      BY <1>1, <1>3, <3>4, SpecialPlain
    <3>6. i.type = "SPECIAL" /\ i.id = "CALL" /\ i.name = objFuncs[p].lbl
      BY DEF emitCallInstruction, Instr
    <3> HIDE DEF i, p
    <3>7. i \in ReferringInstrs
      BY <3>4, <3>5, <3>6 DEF ReferringInstrs, TargetName
    <3> QED BY <3>7
  <2> HIDE DEF i, fits
  <2>3. CASE Fails(<<>>, <<>>)
    BY <1>1, <1>2, <1>3, <2>3, LawfulCalls, MuteGoes
  <2>4. CASE fits # {} /\ Goes(<<>>, <<i>>)
    <3> DEFINE t == <<i>>
    <3>1. t \in Seq(ReferringInstrs) /\ Goes(<<>>, t)
      BY <2>2, <2>4
    <3> HIDE DEF t
    <3> QED BY <1>2, <1>3, <3>1, ReferGoes
  <2> QED BY <2>1, <2>3, <2>4
<1>5. CASE ~ At("callFunction")
  <2> DEFINE rest == [This EXCEPT !.fn = "callFunction"]
             args == Frame("compileCommaList", Node.right, 1)
             front == IF IsNone(Node.right) THEN <<>> ELSE <<args>>
             calls == front \o <<rest>>
  <2>1. Goes(calls, <<>>)
    BY <1>5, Zenon DEF compileFuncCall
  <2>2. rest.fn = "callFunction"
    BY <1>3 DEF IsCall
  <2> HIDE DEF rest
  <2>3. \A e : AllLawful(calls, e) /\ Sequence(calls)
    <3> SUFFICES ASSUME NEW e PROVE AllLawful(calls, e) /\ Sequence(calls)
      OBVIOUS
    <3>1. Lawful(rest, e)
      BY <2>2 DEF Lawful, Owed
    <3>2. Lawful(args, e)
      BY LawfulFrames
    <3> HIDE DEF args
    <3>3. AllLawful(front, e) /\ Sequence(front)
      BY <3>2, LawfulCalls
    <3> HIDE DEF front
    <3>4. AllLawful(<<rest>>, e) /\ Sequence(<<rest>>)
      BY <3>1, LawfulCalls
    <3> QED BY <3>3, <3>4, LawfulCalls
  <2> HIDE DEF calls
  <2> QED BY <1>1, <1>2, <1>3, <2>1, <2>3, MuteGoes
<1> QED BY <1>4, <1>5

LEMMA ListSettles ==
  ASSUME NEW Nodes, NEW Defs, Settling(Nodes, Defs), compileCommaList
  PROVE  Settles'
<1> DEFINE t == <<>>
<1>1. Known(Nodes, Defs) /\ t \in Seq(MuteInstrs) /\ t \in Seq(CoutInstrs)
  BY DEF Settling
<1>2. /\ todo # <<>> /\ This.fn = "compileCommaList" /\ UNCHANGED <<objVars, objFuncs>>
      /\ emitted' = emitted \o t
  BY DEF compileCommaList, At, Runs, tables
<1> HIDE DEF t
<1>3. ~ Forced(todo)
  BY <1>1, <1>2, NotForced
<1>4. CASE Is(Node, "COMMA")
  <2>1. todo' = <<This>> \o todo
    BY <1>4 DEF compileCommaList, Runs
  <2>2. AllLawful(todo, emitted') /\ Sequence(todo)
    <3>1. \A k \in 1 .. Len(todo) : Lawful(todo[k], emitted')
      BY <1>1, <1>2, BelowLawful DEF Settling
    <3> QED BY <1>1, <3>1 DEF AllLawful, Known, Emits, Calls, Stacked
  <2>3. Lawful(This, emitted')
    BY <1>2 DEF Lawful, Owed
  <2>4. AllLawful(<<This>>, emitted') /\ Sequence(<<This>>)
    BY <2>3, LawfulCalls
  <2>5. AllLawful(todo', emitted')
    BY <2>1, <2>2, <2>4, LawfulJoined
  <2> QED BY <1>1, <1>2, <1>3, <2>5, MuteStep
<1>5. CASE ~ Is(Node, "COMMA")
  <2> DEFINE calls == <<Block(Node, This.req)>>  counted == Counted(Tail(todo), "callFunction")
  <2>1. todo' = calls \o counted
    BY <1>5 DEF compileCommaList, Runs
  <2>2. AllLawful(counted, emitted') /\ Sequence(counted)
    BY <1>1, <1>2, BelowCalls, LocalsLawful
  <2>3. AllLawful(calls, emitted') /\ Sequence(calls)
    BY LawfulFrames, LawfulCalls
  <2> HIDE DEF calls, counted
  <2>4. AllLawful(todo', emitted')
    BY <2>1, <2>2, <2>3, LawfulJoined
  <2> QED BY <1>1, <1>2, <1>3, <2>4, MuteStep
<1> QED BY <1>4, <1>5

-----------------------------------------------------------------------------
(* The order holds in every compilation.                                   *)

LEMMA SettlesInit ==
  ASSUME WordsAreStrings, BackendInit
  PROVE  Settles
<1>1. PICK program \in Programs :
        todo = <<Block(program, 0), Later(<<Begin("RMSF"), Begin("SECT_E")>>)>>
  BY DEF BackendInit
<1>2. /\ emitted = <<emitAddSection("main", BIN_SECTION_PRESET_MAIN),
                     emitAddSection("funcs", BIN_SECTION_PRESET_FUNC),
                     emitSetSection("main"), Begin("ADDSF")>>
      /\ objVars = <<Base>> /\ objFuncs = <<Base>>
  BY DEF BackendInit
<1>3. emitted \in Seq(MuteInstrs)
  <2> DEFINE i1 == emitAddSection("main", BIN_SECTION_PRESET_MAIN)
             i2 == emitAddSection("funcs", BIN_SECTION_PRESET_FUNC)
             i3 == emitSetSection("main")  i4 == Begin("ADDSF")
  <2>1. "main" \in STRING /\ "funcs" \in STRING
    BY DEF WordsAreStrings, Words
  <2>2. i1 \in PlainInstrs /\ i2 \in PlainInstrs
    <3>1. BIN_SECTION_PRESET_MAIN \in BinSectionAttr /\ BIN_SECTION_PRESET_FUNC \in BinSectionAttr
      BY DEF BIN_SECTION_PRESET_MAIN, BIN_SECTION_PRESET_FUNC, BinSectionAttr
    <3> QED BY <2>1, <3>1, SectionPlain
  <2>3. i3 \in MuteInstrs /\ i4 \in MuteInstrs
    BY <2>1, MuteOnes
  <2>4. i1.type = "TABLE" /\ i2.type = "TABLE"
    BY DEF emitAddSection, Instr
  <2> HIDE DEF i1, i2, i3, i4
  <2>5. i1 \in MuteInstrs /\ i2 \in MuteInstrs
    BY <2>2, <2>4 DEF MuteInstrs, NamesSymbol, WritesJump
  <2>6. <<i1, i2, i3, i4>> \in Seq(MuteInstrs)
    BY <2>3, <2>5
  <2> QED BY <1>2, <2>6 DEF i1, i2, i3, i4
<1>4. \A n \in 1 .. Len(emitted) : ~ NamesSymbol(emitted[n]) /\ ~ Defines(emitted[n])
  BY <1>3, MuteSays
<1>5. \A k \in 1 .. Len(todo) :
        /\ Owed(todo[k]) = {} /\ todo[k].fn \notin {"loop", "branch"}
        /\ todo[k].fn = "emit" => \A n \in 1 .. Len(todo[k].instrs) : ~ NamesSymbol(todo[k].instrs[n])
  <2> DEFINE ends == <<Begin("RMSF"), Begin("SECT_E")>>  f == Block(program, 0)  g == Later(ends)
             calls == <<f, g>>
  <2>1. ends \in Seq(MuteInstrs)
    <3>1. Begin("RMSF") \in MuteInstrs /\ Begin("SECT_E") \in MuteInstrs
      BY MuteOnes
    <3> QED BY <3>1, MuteCode
  <2>2. f.fn = "compileCodeBlock"
    BY DEF Block, Frame
  <2>3. g.fn = "emit" /\ g.instrs = ends
    BY DEF Later, Frame
  <2>4. todo = calls
    BY <1>1
  <2> HIDE DEF f, g, ends
  <2>5. Owed(f) = {} /\ Owed(g) = {} /\ \A n \in 1 .. Len(g.instrs) : ~ NamesSymbol(g.instrs[n])
    BY <2>1, <2>2, <2>3, MuteSays DEF Owed
  <2>6. \A k \in 1 .. Len(calls) : calls[k] = f \/ calls[k] = g
    BY Elements
  <2> HIDE DEF calls
  <2> QED BY <2>2, <2>3, <2>4, <2>5, <2>6
<1>6. Base.lbl = "!"
  BY DEF Base, Entry0
<1>7. \A table : table = <<Base>> => \A p \in 1 .. Len(table) : Defined(table[p].lbl, emitted)
  BY <1>6, Elements DEF Defined
<1>8. Fenced(emitted)
  BY <1>4 DEF Fenced
<1> QED BY <1>2, <1>4, <1>5, <1>7, <1>8 DEF Settles

LEMMA MiscSettles ==
  ASSUME NEW Nodes, NEW Defs, Settling(Nodes, Defs), endOfProgram \/ overflow
  PROVE  Settles'
BY SettlesUnchanged DEF endOfProgram, overflow, tables

LEMMA SettlesKept ==
  ASSUME NEW Nodes, NEW Defs, Known(Nodes, Defs), MarkersTell, FilledBodies(Nodes), Settles,
         [PipeNext]_pipeVars
  PROVE  Settles'
<1>1. CompileNext \/ UNCHANGED backVars
  <2>1. PipeNext => CompileNext \/ UNCHANGED backVars
    BY Zenon DEF PipeNext, PipeStep, compileProgram, translateEmitted, endOfEmitted, link, pipeVars
  <2>2. UNCHANGED pipeVars => UNCHANGED backVars
    BY DEF pipeVars
  <2> QED BY <2>1, <2>2
<1>2. CASE UNCHANGED backVars
  <2>1. Counts
    BY <1>2 DEF Known, backVars, tables, Names, Counts
  <2>2. Settling(Nodes, Defs)
    BY <2>1 DEF Settling
  <2> QED BY <1>2, <2>2, SettlesUnchanged DEF backVars, tables
<1>3. CASE CompileNext
  <2>1. Counts
    BY <1>3, NamesStep
  <2>2. Settling(Nodes, Defs)
    BY <2>1 DEF Settling
  <2> QED BY <1>3, <2>2, StatementSettles, BlockSettles, RestSettles, VariableSettles,
       ValueSettles, TargetSettles, OperationSettles, ConditionSettles, IfSettles, BranchSettles,
       WhileSettles, LoopSettles, FunctionSettles, ParameterSettles, HeaderSettles, CallSettles,
       ListSettles, MiscSettles
    DEF CompileNext
<1> QED BY <1>1, <1>2, <1>3

-----------------------------------------------------------------------------
(* Translation.                                                            *)

(* The cell of a prototype that was defined is written last by its own     *)
(* definition, if a reference to the prototype waits for it.               *)
CellsFilled ==
  \A e \in DOMAIN preTbl :
    LET slot == preTbl[e].to
    IN  defs[slot] # NoData => slot < Len(defs) /\ preData[slot + 1] = defs[slot]

(* Behind a reference to l there was no prototype yet.                     *)
Waits(l, n) ==
  \E j \in 1 .. n : RefersTo(emitted[j], l) /\ \A m \in j + 1 .. n : ~ IsProto(emitted[m])

(* Whoever waits for the newest prototype, the only one whose cell is not  *)
(* there yet, came behind it.                                              *)
NewestWaits ==
  \A p \in DOMAIN syms, e \in DOMAIN preTbl :
    syms[p].data.kind = "proto" /\ syms[p].data.val = Len(defs) /\ preTbl[e].to = Len(defs)
    => Waits(syms[p].name, ip)

Resolving ==
  /\ CellsFilled
  /\ phase = "translating" => NewestWaits
  /\ compiling = "running" => preTbl = <<>>

(* The steps of the translation by what they do to symbols and references. *)
Numbers(i) ==
  /\ Defines(i) /\ UNCHANGED preTbl
  /\ \E data : data.kind # "proto" /\ execOutDefSym(i.name, data)
Refers(i) ==
  /\ ~ IsProto(i) /\ UNCHANGED symVars
  /\ \/ UNCHANGED preTbl
     \/ /\ NamesSymbol(i) /\ IsKnown(TargetName(i))
        /\ \E off, size, rel : execOutPutSym(TargetName(i), off, size, rel)
Drops(i) ==
  /\ ~ IsProto(i) /\ UNCHANGED <<preData, defs, preTbl>>
  /\ cmpoutSymTableDescendLvl(lvl)

LEMMA StepsByTables ==
  ASSUME NEW i \in CoutInstrs, Accepts(i), Translates(i)
  PROVE  (tablePre(i) /\ UNCHANGED preTbl) \/ Numbers(i) \/ Refers(i) \/ Drops(i)
<1>1. \A k, v, s : SymData(k, v, s).kind = k
  BY DEF SymData
<1>2. CASE tablePre(i)
  BY <1>2 DEF tablePre, refVars
<1>3. CASE tableStack(i)
  <2> DEFINE data == SymData("stack", -8 * (Top.curr + i.num), NoSect)
  <2>1. data.kind # "proto"
    BY <1>1
  <2>2. execOutDefSym(i.name, data) /\ Defines(i) /\ UNCHANGED preTbl
    BY <1>3 DEF tableStack, Defines, refVars
  <2> HIDE DEF data
  <2> QED BY <2>1, <2>2 DEF Numbers
<1>4. CASE tableSimple(i)
  <2> DEFINE data == SymData("const", i.num, NoSect)
  <2>1. data.kind # "proto"
    BY <1>1
  <2>2. execOutDefSym(i.name, data) /\ Defines(i) /\ UNCHANGED preTbl
    BY <1>4 DEF tableSimple, Defines, refVars
  <2> HIDE DEF data
  <2> QED BY <2>1, <2>2 DEF Numbers
<1>5. CASE tableHere(i)
  <2> DEFINE data == SymData("label", sects[Here].size, Here)
  <2>1. data.kind # "proto"
    BY <1>1
  <2>2. execOutDefSym(i.name, data) /\ Defines(i) /\ UNCHANGED preTbl
    BY <1>5 DEF tableHere, Defines, refVars
  <2> HIDE DEF data
  <2> QED BY <2>1, <2>2 DEF Numbers
<1>6. CASE endBlock(i) \/ endSect(i)
  BY <1>6 DEF endBlock, endSect, closeBlock, Drops, IsProto, refVars
<1>7. CASE tableAddSect(i) \/ beginBlock(i) \/ beginSect(i) \/ ignored(i) \/ translateGenericInstr(i)
           \/ translateConstInstr(i) \/ translateNeverJump(i) \/ translateRet(i)
  BY <1>7 DEF tableAddSect, beginBlock, beginSect, ignored, translateGenericInstr,
              translateConstInstr, translateNeverJump, translateRet, Refers, IsProto, refVars
<1>8. CASE translateSymConstInstr(i)
  <2>1. ~ IsProto(i) /\ UNCHANGED symVars
    BY <1>8 DEF translateSymConstInstr, IsProto
  <2>2. preTbl' = preTbl
    BY <1>8 DEF translateSymConstInstr, execOutPutSym, refVars
  <2> QED BY <2>1, <2>2 DEF Refers
<1>9. NamesSymbol(i) => IsKnown(TargetName(i))
  BY DEF Accepts, Refused
<1>10. CASE translateLoadInstr(i) \/ translateStoreInstr(i)
  <2>1. i.type \in {"LOAD", "STORE"} /\ UNCHANGED symVars
    BY <1>10 DEF translateLoadInstr, translateStoreInstr
  <2>2. PICK off : Operand(i, off)
    BY <1>10 DEF translateLoadInstr, translateStoreInstr
  <2>3. ~ IsProto(i) /\ TargetName(i) = i.name
    BY <2>1 DEF IsProto, TargetName
  <2>4. CASE i.name = NoName
    BY <2>1, <2>2, <2>3, <2>4 DEF Operand, refVars, Refers
  <2>5. CASE i.name # NoName
    <3>1. NamesSymbol(i) /\ execOutPutSym(TargetName(i), off, 4, FALSE)
      BY <2>1, <2>2, <2>3, <2>5 DEF Operand, NamesSymbol
    <3> QED BY <1>9, <2>1, <2>3, <3>1 DEF Refers
  <2> QED BY <2>4, <2>5
<1>11. CASE translateNearJump(i) \/ translateIndirectJump(i)
  <2>1. WritesJump(i) /\ UNCHANGED symVars
    BY <1>11 DEF translateNearJump, translateIndirectJump
  <2>2. ~ IsProto(i) /\ TargetName(i) = i.name /\ NamesSymbol(i)
    BY <2>1 DEF IsProto, TargetName, WritesJump, NamesSymbol
  <2>3. \E off, size, rel : execOutPutSym(TargetName(i), off, size, rel)
    BY <1>11, <2>2 DEF translateNearJump, translateIndirectJump
  <2> QED BY <1>9, <2>1, <2>2, <2>3 DEF Refers
<1>12. CASE translateCall(i) \/ translateRetCB(i)
  <2>1. i.type = "SPECIAL" /\ i.id \in {"CALL", "RETCB"} /\ UNCHANGED symVars
    BY <1>12 DEF translateCall, translateRetCB
  <2>2. ~ IsProto(i) /\ NamesSymbol(i)
    BY <2>1 DEF IsProto, NamesSymbol, IsReturn
  <2>3. \E off, size, rel : execOutPutSym(TargetName(i), off, size, rel)
    <3>1. CASE translateCall(i)
      <4>1. TargetName(i) = i.name
        BY <3>1 DEF translateCall, TargetName
      <4> QED BY <3>1, <4>1 DEF translateCall
    <3>2. CASE translateRetCB(i)
      BY <3>2 DEF translateRetCB
    <3> QED BY <1>12, <3>1, <3>2
  <2> QED BY <1>9, <2>1, <2>2, <2>3 DEF Refers
<1> QED BY <1>2, <1>3, <1>4, <1>5, <1>6, <1>7, <1>8, <1>10, <1>11, <1>12 DEF Translates

(* A step reads one more instruction; what waits goes on waiting, unless   *)
(* it declares a prototype.                                                *)
LEMMA StillWaits ==
  ASSUME NEW l, Waits(l, ip), ip \in Nat, ~ IsProto(emitted[ip + 1]), ip' = ip + 1,
         emitted' = emitted
  PROVE  Waits(l, ip)'
<1>1. PICK j \in 1 .. ip : RefersTo(emitted[j], l) /\ \A m \in j + 1 .. ip : ~ IsProto(emitted[m])
  BY DEF Waits
<1>2. j \in 1 .. ip + 1 /\ \A m \in j + 1 .. ip + 1 : m \in j + 1 .. ip \/ m = ip + 1
  BY <1>1
<1>3. \A m \in j + 1 .. ip + 1 : ~ IsProto(emitted[m])
  BY <1>1, <1>2
<1> QED BY <1>1, <1>2, <1>3 DEF Waits

LEMMA NumbersResolves ==
  ASSUME Inductive, Resolving, phase = "translating", ip < Len(emitted), emitted \in Seq(CoutInstrs),
         Fenced(emitted), Numbers(emitted[ip + 1]), ip' = ip + 1, emitted' = emitted
  PROVE  CellsFilled' /\ NewestWaits'
<1> DEFINE i == emitted[ip + 1]
<1>1. /\ TypeOK /\ ProtosNumbered /\ TargetsNumbered /\ ip \in Nat
      /\ Len(defs) \in Nat /\ DOMAIN defs = 1 .. Len(defs)
      /\ preData \in Seq(SymDataType) /\ DOMAIN preData = 1 .. Len(preData)
      /\ Len(preData) = Len(defs) + 1 /\ preTbl' = preTbl /\ Defines(i)
      /\ CellsFilled /\ NewestWaits
  BY LenProperties DEF Inductive, TypeOK, ProtosNumbered, Numbers, Resolving
<1>2. /\ syms \in Seq(SymbolType) /\ Len(syms) \in Nat /\ DOMAIN syms = 1 .. Len(syms)
  BY <1>1, Symbols
<1>3. ~ IsProto(emitted[ip + 1])
  BY <1>1 DEF Defines, IsProto
<1>4. PICK data : data.kind # "proto" /\ execOutDefSym(i.name, data)
  BY DEF Numbers
<1>5. CASE OpenProtos(i.name) = {}
  <2> DEFINE new == Symbol(i.name, data)
  <2>1. syms' = Append(syms, new) /\ preData' = preData /\ defs' = defs
    BY <1>4, <1>5 DEF execOutDefSym
  <2>2. new.data = data
    BY DEF Symbol
  <2> HIDE DEF new
  <2>3. \A p \in DOMAIN syms' : (p \in DOMAIN syms /\ syms'[p] = syms[p]) \/ syms'[p] = new
    BY <1>2, <2>1
  <2>4. CellsFilled'
    BY <1>1, <2>1 DEF CellsFilled
  <2>5. NewestWaits'
    BY <1>1, <1>3, <1>4, <2>1, <2>2, <2>3, StillWaits DEF NewestWaits
  <2> QED BY <2>4, <2>5
<1>6. CASE OpenProtos(i.name) # {}
  <2> DEFINE p == Max(OpenProtos(i.name))
             slot == syms[p].data.val
  <2>1. p \in DOMAIN syms /\ syms[p].name = i.name /\ syms[p].data.kind = "proto"
    BY <1>1, <1>6, NewestProto DEF OpenProtos, SymsNamed
  <2>2. /\ preData' = [preData EXCEPT ![slot + 1] = data]
        /\ defs' = [defs EXCEPT ![slot] = data]
        /\ syms' = [syms EXCEPT ![p].data = data]
    BY <1>4, <1>6 DEF execOutDefSym, FillEntry
  <2> HIDE DEF p
  <2>3. slot \in DOMAIN defs
    BY <1>1, <2>1 DEF ProtosNumbered
  <2>4. \A q \in DOMAIN syms' :
          /\ q \in DOMAIN syms
          /\ syms'[q].data.kind = "proto" => syms'[q] = syms[q]
    <3>1. \A q \in DOMAIN syms : q # p => syms'[q] = syms[q]
      BY <2>2
    <3>2. syms'[p].data = data
      <4>1. syms[p] \in SymbolType
        BY <1>1, <2>1, Symbols
      <4>2. [syms[p] EXCEPT !.data = data].data = data
        BY <4>1 DEF SymbolType
      <4> QED BY <2>1, <2>2, <4>2
    <3>3. DOMAIN syms' = DOMAIN syms
      BY <2>2
    <3> QED BY <1>4, <3>1, <3>2, <3>3
  <2> HIDE DEF slot
  <2>5. /\ DOMAIN defs' = DOMAIN defs /\ defs'[slot] = data
        /\ \A k \in DOMAIN defs : k # slot => defs'[k] = defs[k]
        /\ preData'[slot + 1] = data
        /\ \A k \in DOMAIN defs : k # slot => preData'[k + 1] = preData[k + 1]
        /\ Len(defs') = Len(defs)
    <3>1. /\ defs \in Seq(SymDataType) /\ slot + 1 \in DOMAIN preData
          /\ \A k \in DOMAIN defs : k + 1 \in DOMAIN preData /\ (k + 1 = slot + 1 => k = slot)
      <4>1. defs \in Seq(SymDataType)
        BY <1>1 DEF TypeOK
      <4> QED BY <1>1, <2>3, <4>1
    <3>2. /\ DOMAIN defs' = DOMAIN defs /\ defs'[slot] = data
          /\ \A k \in DOMAIN defs : k # slot => defs'[k] = defs[k]
      BY <2>2, <2>3
    <3>3. Len(defs') = Len(defs)
      BY <1>1, <3>2
    <3> QED BY <2>2, <3>1, <3>2, <3>3
  <2>6. ASSUME NEW e \in DOMAIN preTbl, preTbl[e].to = slot
        PROVE  slot < Len(defs)
    <3> SUFFICES ASSUME slot = Len(defs) PROVE FALSE
      BY <1>1, <2>3
    <3>1. Waits(i.name, ip)
      BY <1>1, <2>1, <2>6 DEF NewestWaits, slot
    <3>2. PICK j \in 1 .. ip : /\ RefersTo(emitted[j], i.name)
                               /\ \A m \in j + 1 .. ip : ~ IsProto(emitted[m])
      BY <3>1 DEF Waits
    <3>3. /\ Len(emitted) \in Nat /\ j \in 1 .. Len(emitted) /\ ip + 1 \in 1 .. Len(emitted)
          /\ j < ip + 1 /\ ip + 1 - 1 = ip
      BY <1>1, LenProperties
    <3>4. \E m \in j + 1 .. ip + 1 - 1 : IsProto(emitted[m])
      BY <1>1, <3>2, <3>3 DEF Fenced
    <3> QED BY <3>2, <3>3, <3>4
  <2>7. CellsFilled'
    BY <1>1, <2>3, <2>5, <2>6 DEF CellsFilled, TargetsNumbered
  <2>8. NewestWaits'
    BY <1>1, <1>3, <2>4, <2>5, StillWaits DEF NewestWaits
  <2> QED BY <2>7, <2>8
<1> QED BY <1>5, <1>6

LEMMA ProtoResolves ==
  ASSUME Inductive, Resolving, NEW i, tablePre(i), UNCHANGED preTbl
  PROVE  CellsFilled' /\ NewestWaits'
<1>1. /\ TypeOK /\ TargetsNumbered /\ CellsFilled
      /\ Len(defs) \in Nat /\ DOMAIN defs = 1 .. Len(defs) /\ defs \in Seq(SymDataType)
      /\ preData \in Seq(SymDataType) /\ DOMAIN preData = 1 .. Len(preData)
      /\ Len(preData) = Len(defs) + 1 /\ preTbl' = preTbl
  BY LenProperties DEF Inductive, TypeOK, ProtosNumbered, Resolving
<1> DEFINE first == SymData("proto", 0, Here)
           cells == [preData EXCEPT ![Len(preData)] = first]
<1>2. preData' = Append(cells, NoData) /\ defs' = Append(defs, NoData)
  BY DEF tablePre, DeclareProto
<1>3. \A k \in 1 .. Len(defs) : cells[k] = preData[k]
  BY <1>1
<1>4. Len(cells) = Len(preData) /\ DOMAIN cells = DOMAIN preData
  BY <1>1
<1> HIDE DEF cells
<1>5. /\ Len(defs') = Len(defs) + 1
      /\ \A k \in 1 .. Len(defs) : defs'[k] = defs[k] /\ preData'[k] = preData[k]
  BY <1>1, <1>2, <1>3, <1>4
<1>6. \A e \in DOMAIN preTbl : preTbl[e].to \in 1 .. Len(defs)
  BY <1>1 DEF TargetsNumbered
<1>7. \A k \in 1 .. Len(defs) : k < Len(defs) => k + 1 \in 1 .. Len(defs)
  BY <1>1
<1>8. CellsFilled'
  <2> SUFFICES ASSUME NEW e \in DOMAIN preTbl, defs'[preTbl[e].to] # NoData
               PROVE  /\ preTbl[e].to < Len(defs')
                      /\ preData'[preTbl[e].to + 1] = defs'[preTbl[e].to]
    BY <1>1 DEF CellsFilled
  <2> DEFINE slot == preTbl[e].to
  <2>1. slot \in 1 .. Len(defs) /\ defs[slot] # NoData /\ defs'[slot] = defs[slot]
    BY <1>5, <1>6
  <2>2. slot < Len(defs) /\ preData[slot + 1] = defs[slot]
    BY <1>1, <2>1 DEF CellsFilled
  <2> HIDE DEF slot
  <2>3. slot < Len(defs) + 1 /\ preData'[slot + 1] = defs'[slot]
    BY <1>1, <1>5, <1>7, <2>1, <2>2
  <2> QED BY <1>5, <2>3 DEF slot
<1>9. NewestWaits'
  BY <1>1, <1>5, <1>6 DEF NewestWaits
<1> QED BY <1>8, <1>9

LEMMA ReferenceResolves ==
  ASSUME Inductive, Resolving, phase = "translating", Refers(emitted[ip + 1]), ip' = ip + 1,
         emitted' = emitted
  PROVE  CellsFilled' /\ NewestWaits'
<1> DEFINE i == emitted[ip + 1]
<1>0. PICK name : name = TargetName(i)
  OBVIOUS
<1>1. /\ TypeOK /\ ProtosNumbered /\ ip \in Nat /\ preTbl \in Seq(RelocationEntry)
      /\ syms' = syms /\ preData' = preData /\ defs' = defs /\ ~ IsProto(i)
      /\ CellsFilled /\ NewestWaits
  BY DEF Inductive, TypeOK, Refers, symVars, Resolving
<1>2. \A l : Waits(l, ip) => Waits(l, ip)'
  BY <1>1, StillWaits
<1>3. CASE preTbl' = preTbl
  BY <1>1, <1>2, <1>3 DEF CellsFilled, NewestWaits
<1>4. CASE preTbl' # preTbl
  <2>1. NamesSymbol(i) /\ IsKnown(name)
    BY <1>0, <1>4 DEF Refers
  <2>2. PICK entry : /\ Lookup(name).kind = "proto" /\ entry.to = Lookup(name).val
                     /\ preTbl' = Append(preTbl, entry)
    <3>1. PICK off, size, rel : execOutPutSym(name, off, size, rel)
      BY <1>0, <1>4 DEF Refers
    <3>2. preTbl' = IF Lookup(name).kind = "proto"
                    THEN Append(preTbl, Relocation(off, Lookup(name).val, size, rel)) ELSE preTbl
      BY <3>1 DEF execOutPutSym
    <3>3. Relocation(off, Lookup(name).val, size, rel).to = Lookup(name).val
      BY DEF Relocation
    <3> QED BY <1>4, <3>2, <3>3
  <2> DEFINE q == Max(SymsNamed(name))
  <2>3. q \in DOMAIN syms /\ syms[q].name = name
    <3>1. SymsNamed(name) \in SUBSET (0 .. Len(syms)) /\ SymsNamed(name) # {} /\ Len(syms) \in Nat
      BY <1>1, <2>1, Symbols DEF SymsNamed, IsKnown
    <3>2. q \in SymsNamed(name)
      BY <3>1, MaxFacts
    <3> QED BY <3>2 DEF SymsNamed
  <2>4. syms[q].data.kind = "proto" /\ syms[q].data.val = entry.to
    BY <2>2 DEF Lookup
  <2> HIDE DEF q
  <2>5. /\ defs[entry.to] = NoData
        /\ \A p \in DOMAIN syms :
             syms[p].data.kind = "proto" /\ syms[p].data.val = entry.to => syms[p].name = name
    BY <1>1, <2>3, <2>4 DEF ProtosNumbered
  <2>6. \A e \in DOMAIN preTbl' : (e \in DOMAIN preTbl /\ preTbl'[e] = preTbl[e]) \/ preTbl'[e] = entry
    BY <1>1, <2>2
  <2>7. Waits(name, ip)'
    <3>1. ip + 1 \in 1 .. ip + 1 /\ RefersTo(emitted[ip + 1], name)
      BY <1>0, <1>1, <2>1 DEF RefersTo
    <3>2. \A m \in ip + 1 + 1 .. ip + 1 : ~ IsProto(emitted[m])
      BY <1>1
    <3>3. \E j \in 1 .. ip + 1 :
            RefersTo(emitted[j], name) /\ \A m \in j + 1 .. ip + 1 : ~ IsProto(emitted[m])
      BY ONLY <3>1, <3>2
    <3> QED BY <3>3 DEF Waits
  <2> HIDE DEF i
  <2>8. CellsFilled'
    <3> SUFFICES ASSUME NEW e \in DOMAIN preTbl', defs[preTbl'[e].to] # NoData
                 PROVE  /\ preTbl'[e].to < Len(defs)
                        /\ preData[preTbl'[e].to + 1] = defs[preTbl'[e].to]
      BY <1>1 DEF CellsFilled
    <3>1. e \in DOMAIN preTbl /\ preTbl'[e] = preTbl[e]
      BY <2>5, <2>6
    <3> QED BY <1>1, <3>1 DEF CellsFilled
  <2>9. NewestWaits'
    BY <1>1, <1>2, <2>5, <2>6, <2>7 DEF NewestWaits
  <2> QED BY <2>8, <2>9
<1> QED BY <1>3, <1>4

LEMMA DropResolves ==
  ASSUME Inductive, Resolving, phase = "translating", Drops(emitted[ip + 1]), ip' = ip + 1,
         emitted' = emitted
  PROVE  CellsFilled' /\ NewestWaits'
<1>1. /\ TypeOK /\ ip \in Nat /\ CellsFilled /\ NewestWaits /\ ~ IsProto(emitted[ip + 1])
      /\ preData' = preData /\ defs' = defs /\ preTbl' = preTbl
      /\ syms' = SubSeq(syms, 1, KeptSyms(lvl))
  BY DEF Inductive, TypeOK, Drops, Resolving, cmpoutSymTableDescendLvl
<1>2. \A l : Waits(l, ip) => Waits(l, ip)'
  BY <1>1, StillWaits
<1>3. KeptSyms(lvl) \in 0 .. Len(syms)
  BY <1>1, KeptIsPrefix
<1>4. \A p \in DOMAIN syms' : p \in DOMAIN syms /\ syms'[p] = syms[p]
  <2>1. syms \in Seq(SymbolType) /\ DOMAIN syms = 1 .. Len(syms) /\ Len(syms) \in Nat
    BY <1>1, Symbols
  <2> QED BY <1>1, <1>3, <2>1
<1>5. CellsFilled'
  BY <1>1 DEF CellsFilled
<1>6. NewestWaits'
  BY <1>1, <1>2, <1>4 DEF NewestWaits
<1> QED BY <1>5, <1>6

LEMMA TranslationResolves ==
  ASSUME Inductive, Resolving, phase = "translating", emitted \in Seq(CoutInstrs),
         Fenced(emitted), translateEmitted
  PROVE  CellsFilled' /\ NewestWaits'
<1> DEFINE i == emitted[ip + 1]
<1> DEFINE Stops == reject(i) \/ abort(i) \/ derail(i)
<1>1. /\ ip < Len(emitted) /\ ip \in Nat /\ emitted' = emitted /\ phase' = phase
      /\ translateInstruction(i) \/ Stops
  <2>1. translateInstruction(i) \/ Stops
    BY Zenon DEF translateEmitted, InstrAt
  <2> HIDE DEF i, Stops
  <2>2. ip < Len(emitted) /\ ip \in Nat /\ emitted' = emitted /\ phase' = phase
    BY DEF translateEmitted, MoreToTranslate, backVars, linkVars, Inductive, TypeOK
  <2> QED BY <2>1, <2>2
<1>2. i \in CoutInstrs
  BY <1>1
<1> HIDE DEF i
<1>3. CASE Stops
  <2>1. /\ ip' = ip /\ syms' = syms /\ preData' = preData /\ defs' = defs /\ preTbl' = preTbl
    BY <1>3 DEF reject, abort, derail, outVars, symVars, refVars
  <2> QED BY <1>1, <2>1 DEF Resolving, CellsFilled, NewestWaits, Waits
<1>4. CASE translateInstruction(i)
  <2>1. Accepts(i) /\ Translates(i) /\ ip' = ip + 1
    BY <1>4 DEF translateInstruction
  <2>2. (tablePre(i) /\ UNCHANGED preTbl) \/ Numbers(i) \/ Refers(i) \/ Drops(i)
    BY <1>2, <2>1, StepsByTables
  <2>3. Numbers(i) => CellsFilled' /\ NewestWaits'
    BY <1>1, <2>1, NumbersResolves DEF i
  <2>4. Refers(i) => CellsFilled' /\ NewestWaits'
    BY <1>1, <2>1, ReferenceResolves DEF i
  <2>5. Drops(i) => CellsFilled' /\ NewestWaits'
    BY <1>1, <2>1, DropResolves DEF i
  <2> QED BY <2>2, <2>3, <2>4, <2>5, ProtoResolves
<1> QED BY <1>1, <1>3, <1>4

LEMMA ResolvingKept ==
  ASSUME NEW Defs, Emits(Defs), LinkInductive, Fenced(emitted), Resolving, [PipeNext]_pipeVars
  PROVE  Resolving'
<1>1. CASE compileProgram
  <2>1. compiling = "running"
    <3>1. \A fn : At(fn) => compiling = "running"
      BY DEF At
    <3>2. compileNothing \/ compileCodeBlock \/ beginCodeBlock \/ endCodeBlock \/ compileStatements
          => compiling = "running"
      BY Zenon, <3>1 DEF compileNothing, compileCodeBlock, beginCodeBlock, endCodeBlock, compileStatements
    <3>3. emitRest \/ compileVarDef \/ compileVarNode \/ compileKVarNode \/ compileConstNode
          => compiling = "running"
      BY Zenon, <3>1
      DEF emitRest, compileVarDef, compileVarNode, compileKVarNode, compileConstNode, Reached
    <3>4. compileSetDst \/ compileAssignment \/ compileMathOp \/ compileLogicalExpr \/ compileIf
          => compiling = "running"
      BY Zenon, <3>1 DEF compileSetDst, compileAssignment, compileMathOp, compileLogicalExpr, compileIf
    <3>5. branch \/ compileWhile \/ loop \/ compileMiscOp \/ compileFuncDef
          => compiling = "running"
      BY Zenon, <3>1 DEF branch, compileWhile, loop, compileMiscOp, compileFuncDef
    <3>6. compileFuncDefArgs \/ funcHeader \/ compileFuncCall \/ compileCommaList \/ endOfProgram
          => compiling = "running"
      BY Zenon, <3>1 DEF compileFuncDefArgs, funcHeader, compileFuncCall, compileCommaList, endOfProgram
    <3>7. overflow => compiling = "running"
      BY Zenon, <3>1 DEF overflow
    <3>8. CompileNext => compiling = "running"
      BY Zenon, <3>2, <3>3, <3>4, <3>5, <3>6, <3>7 DEF CompileNext
    <3> QED BY <1>1, <3>8 DEF compileProgram
  <2>2. preTbl = <<>> /\ preTbl' = preTbl
    BY <1>1, <2>1 DEF Resolving, compileProgram, vars, refVars
  <2>3. DOMAIN preTbl' = {}
    BY <2>2
  <2> QED BY <2>2, <2>3 DEF Resolving, CellsFilled, NewestWaits
<1>2. CASE translateEmitted
  <2>1. status = "running" /\ compiling' = "compiled" /\ phase' = phase
    BY <1>2 DEF translateEmitted, MoreToTranslate, Translating, backVars, linkVars
  <2>2. phase = "translating" /\ Inductive
    BY <2>1 DEF LinkInductive
  <2>3. CellsFilled' /\ NewestWaits'
    BY <1>2, <2>2, TranslationResolves DEF Emits
  <2> QED BY <2>1, <2>3 DEF Resolving
<1>3. CASE endOfEmitted \/ UNCHANGED pipeVars
  <2>1. /\ ip' = ip /\ syms' = syms /\ preData' = preData /\ defs' = defs /\ preTbl' = preTbl
        /\ emitted' = emitted /\ phase' = phase /\ compiling' = compiling
    BY <1>3 DEF endOfEmitted, endOfStream, outVars, pipeVars, backVars, linkVars, vars, symVars,
                refVars
  <2> QED BY <2>1 DEF Resolving, CellsFilled, NewestWaits, Waits
<1>4. CASE link
  <2>1. compiling' = compiling
    BY <1>4 DEF link, backVars
  <2>2. CASE applyEnds
    <3>1. preTbl' = <<>> /\ phase' = "merging"
      BY <2>2 DEF applyEnds
    <3>2. DOMAIN preTbl' = {}
      BY <3>1
    <3> QED BY <3>1, <3>2 DEF Resolving, CellsFilled, NewestWaits
  <2>3. CASE ~ applyEnds
    <3>1. preTbl' = preTbl /\ preData' = preData /\ defs' = defs
      BY <1>4, <2>3 DEF link, beginLinking, applyPreLbl, applyFails, applyDerails, mergeEntries,
                        relocateEntry, endMerge, mergeDerails, vars, symVars, refVars
    <3>2. phase' # "translating"
      BY <1>4, <2>3 DEF link, beginLinking, applyPreLbl, applyFails, applyDerails, mergeEntries,
                        relocateEntry, endMerge, mergeDerails
    <3> QED BY <2>1, <3>1, <3>2 DEF Resolving, CellsFilled
  <2> QED BY <2>2, <2>3
<1> QED BY <1>1, <1>2, <1>3, <1>4 DEF PipeNext, PipeStep

(* The cell of a prototype is the one behind the one pushed for it         *)
(* (exec_output.cpp:219), so a definition reaches the references to its    *)
(* prototype only if another was declared before it: what the back end     *)
(* emits keeps to that, for every program whose branches and loops have    *)
(* something in their bodies, because their blocks declare their own ends. *)
THEOREM CompiledPrototypesHold ==
  ASSUME NEW Nodes, TreesOf(Nodes), NEW Defs, TextsOf(Nodes, Defs), Texts, MarkersTell,
         FilledBodies(Nodes)
  PROVE  PipeSpec => []CompiledPrototypesResolve
<1> DEFINE Compiling == BackInductive(Nodes) /\ Emits(Defs) /\ Names /\ Settles
           Passing == LinkInductive /\ Resolving
<1>1. PipeInit => Compiling
  BY BackInit, EmitsInit, SettlesInit DEF PipeInit, Texts
<1>2. Compiling /\ [PipeNext]_pipeVars => Compiling'
  <2> SUFFICES ASSUME Compiling, [PipeNext]_pipeVars PROVE Compiling'
    OBVIOUS
  <2>1. Known(Nodes, Defs)
    BY DEF Known, Texts
  <2> QED BY <2>1, PipeInductive, EmitsStep, SettlesKept
<1>3. PipeInit => Passing
  <2> SUFFICES ASSUME PipeInit PROVE Passing
    OBVIOUS
  <2>1. LinkInit /\ preTbl = <<>> /\ syms = <<>>
    BY DEF PipeInit, LinkInit, Init
  <2>2. Resolving
    BY <2>1 DEF Resolving, CellsFilled, NewestWaits
  <2> QED BY <2>1, <2>2, LinkStart
<1>4. Compiling /\ Passing /\ [PipeNext]_pipeVars => Passing'
  <2> SUFFICES ASSUME Compiling, Passing, [PipeNext]_pipeVars PROVE Passing'
    OBVIOUS
  <2>1. Fenced(emitted)
    BY DEF Settles
  <2> QED BY <2>1, PipePasses, LinkStep, ResolvingKept
<1>5. Passing => CompiledPrototypesResolve
  BY DEF CompiledPrototypesResolve, PrototypesResolve, Resolving, CellsFilled
<1> HIDE DEF Compiling, Passing
<1> QED BY <1>1, <1>2, <1>3, <1>4, <1>5, PTL DEF PipeSpec
=============================================================================
